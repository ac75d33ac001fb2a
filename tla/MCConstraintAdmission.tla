------------------------ MODULE MCConstraintAdmission ------------------------
(***************************************************************************)
(* Two runs of one project, each with a round trip that may find that the  *)
(* output speed is missing; two resolvers who answer the first run         *)
(* differently and one who answers the second; two joints declared through *)
(* the second run, of which the design has one already; and a third run    *)
(* that changes requirements.                                              *)
(***************************************************************************)
EXTENDS ConstraintAdmission, TLC

CONSTANTS k1, k2, other, w1, w2, speed, slow, fast, ada, bob,
          c1, c2, c3, j, i, hinge, base

MCRunOf == w1 :> k1 @@ w2 :> k2
MCMissed == w1 :> { {speed} } @@ w2 :> { {}, {speed} }
MCCommandRun == c1 :> k1 @@ c2 :> k1 @@ c3 :> k2 @@ j :> k2 @@ i :> k2
MCAnswers ==
  c1 :> (speed :> slow) @@ c2 :> (speed :> fast) @@ c3 :> (speed :> slow)
  @@ j :> << >> @@ i :> << >>
MCBy == c1 :> ada @@ c2 :> bob @@ c3 :> ada @@ j :> ada @@ i :> ada
MCGiven == { <<"joint", base, None>> }
MCDeclaration == j :> hinge @@ i :> base

MCRules == { [when |-> {<<"requirements">>}, invalidates |-> {"torque"}] }
MCEdges == {}
MCOtherChanges == { {<<"requirements">>} }
MCLeaves == { <<"requirements">> }
MCChangeSets ==
  MCOtherChanges \cup {{<<"parameter", key>> : key \in ks} : ks \in SUBSET {speed}}
  \cup { {<<"joint", d>>} : d \in {hinge, base} }
=============================================================================

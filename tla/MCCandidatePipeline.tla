------------------------- MODULE MCCandidatePipeline -------------------------
(***************************************************************************)
(* An instance of CandidatePipeline: candidate A is a base whose geometry  *)
(* is a published source and a generated arm; B has a motor as well, whose *)
(* motion nothing models.                                                  *)
(***************************************************************************)
EXTENDS CandidatePipeline

CONSTANTS A, B, base, arm, motor, geometry, v1, v2

MyParts == A :> {base, arm} @@ B :> {base, arm, motor}
MyOrder == <<base, arm, motor>>

Spec_(kind, source) == [kind |-> kind, source |-> source]
MySpecs ==
  [name \in {A, B} |->
     [part \in MyParts[name] |->
        IF part = base THEN Spec_("sourced", geometry)
        ELSE IF part = arm THEN Spec_("generated", None) ELSE Spec_("plain", None)]]

Mapping(fidelity, placement) ==
  [fidelity |-> fidelity, own |-> TRUE, placement |-> placement]

\* One that works and one that misplaces the arm.
Manifest(name, placement) ==
  [schema |-> 2,
   mappings |-> [part \in MyParts[name] |->
      IF part = base THEN Mapping("trusted", "origin")
      ELSE IF part = arm THEN Mapping("exact", placement) ELSE Mapping("bounded", "origin")],
   derivations |-> {arm}]

MyManifests ==
  A :> {Manifest(A, "derived"), Manifest(A, "origin")} @@ B :> {Manifest(B, "derived")}

\* The arm turns, the motor moves in a way of its own; the pair of base and arm
\* is to be proved clear, that of base and motor at home, or not at all.
Plan(name, home) ==
  LET pairs == {pair \in SUBSET MyParts[name] : Cardinality(pair) = 2}
      required == [pair \in ({{base, arm}} \cup IF home THEN {{base, motor}} ELSE {}) |->
                     IF pair = {base, arm} THEN Class("check_clearance", FALSE)
                     ELSE Class("unmodeled_motion", TRUE)]
      scope == [required |-> required, clearance |-> 1, fidelity |-> (base :> "trusted")]
  IN [disposition |-> [part \in MyParts[name] |->
                         IF part = base THEN "fixed" ELSE IF part = arm THEN "output_rigid"
                         ELSE "internal_motion_unmodeled"],
      child |-> arm, driver |-> None, grouped |-> {arm}, scope |-> scope,
      classes |-> [pair \in pairs |-> IF pair \in DOMAIN required THEN required[pair]
                                      ELSE Class("out_of_scope", FALSE)]]

MyPlans == A :> {Plan(A, FALSE)} @@ B :> {Plan(B, FALSE), Plan(B, TRUE)}

Result(verdict, bound) == [verdict |-> verdict, bound |-> bound]
MyResults ==
  A :> {Result("verified_clear", 1), Result("verified_clear", 3),
        Result("collision_witness", 0), Result("not_proven", 0)}
  @@ B :> {Result("verified_clear", 2)}

ThePolicies == {Checks, {"m12"}}

\* TLC evaluates a definition once, but the definition of a constant wherever the
\* constant is mentioned: these only name the definitions above.
TheParts == MyParts
TheOrder == MyOrder
Specs == MySpecs
TheManifests == MyManifests
ThePlans == MyPlans
TheResults == MyResults

\* Nothing tells the two values apart.
Symmetry == Permutations({v1, v2})
=============================================================================

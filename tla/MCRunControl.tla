----------------------------- MODULE MCRunControl -----------------------------
(***************************************************************************)
(* One run with its tasks, and another one whose commits and records fall  *)
(* between any two of its steps.  Loads are derived from requirements, the *)
(* mass from materials, and the structural analysis from both; a commit    *)
(* changes a material, which leaves the loads alone.                       *)
(***************************************************************************)
EXTENDS RunControl, TLC

CONSTANTS k1, w1, a, b, c

MCRules ==
  { [when |-> {<<"materials", Wildcard>>}, invalidates |-> {"mass"}],
    [when |-> {<<"requirements", Wildcard>>}, invalidates |-> {"loads"}] }

MCEdges ==
  {[source |-> "loads", target |-> "structural"], [source |-> "mass", target |-> "structural"]}

MCLeaves == {<<"materials", "steel", "density">>, <<"requirements", "torque", "text">>}

MCChangeSets == {{<<"materials", "steel", "density">>}}

\* Task b, the structural analysis, comes after a, the loads.
MCRunOf == (a :> k1) @@ (b :> k1)
MCDependsOn == (a :> {}) @@ (b :> {a})
MCNeeds == (a :> {"loads"}) @@ (b :> {"structural"})
MCProduces == (a :> "loads") @@ (b :> "structural")
MCTaskOrder == <<a, b>>
MCRequired == k1 :> {"loads", "structural"}

\* A chain whose ids run against its dependencies: a after b, b after c.
MCRunOfChain == (a :> k1) @@ (b :> k1) @@ (c :> k1)
MCDependsOnChain == (a :> {b}) @@ (b :> {c}) @@ (c :> {})
MCNeedsChain == (a :> {"loads"}) @@ (b :> {"loads"}) @@ (c :> {"loads"})
MCProducesChain == (a :> "loads") @@ (b :> "loads") @@ (c :> "loads")
MCTaskOrderChain == <<a, b, c>>
MCRequiredChain == k1 :> {}
=============================================================================

--------------------------- MODULE MCEvidenceStore ---------------------------
(***************************************************************************)
(* The rules and edges of config/dependencies.yaml that matter here: loads *)
(* follow requirements, structural analysis follows loads and materials,   *)
(* transmission follows the transmission data of a component.              *)
(***************************************************************************)
EXTENDS EvidenceStore

CONSTANTS w1, w2, p1, q1, e1

MCRules ==
  { [when |-> {<<"materials", Wildcard>>}, invalidates |-> {"structural"}],
    [when |-> {<<"requirements", Wildcard>>}, invalidates |-> {"loads"}] }

MCEdges == {[source |-> "loads", target |-> "structural"]}

MCLeaves == {<<"materials", "steel", "density">>, <<"requirements", "torque", "text">>}

\* Changes at least as deep as the rules: one as deep as a value, which leaves the
\* loads alone, and one above a value.
MCDeepChanges == { {<<"materials", "steel", "density">>}, {<<"requirements", "torque">>} }

MCOwnerRules ==
  { [when |-> {<<"components", Wildcard, "transmission", Wildcard>>},
     invalidates |-> {"transmission"}] }

MCOwnedLeaves == {<<"components", "gear", "transmission", "module">>}

\* The whole transmission of a component, the path its owner rule names.
MCWholeTransmission == {{<<"components", "gear", "transmission">>}}
=============================================================================

----------------------------- MODULE MCPromotion -----------------------------
(***************************************************************************)
(* An instance of Promotion: two candidates realised, examined, evaluated  *)
(* and compared by the pipeline itself, the first of them selected.  One   *)
(* promoter has any of the requests below; where that is a good one, the   *)
(* other has a good one for the same mechanism, in one choice the same.    *)
(***************************************************************************)
EXTENDS Promotion

CONSTANTS A, B, base, arm, motor, geometry, p1, p2, w1

MyParts == A :> {base, arm} @@ B :> {base, arm, motor}
MyOrder == <<base, arm, motor>>
MySpecs ==
  [name \in {A, B} |->
     [part \in MyParts[name] |->
        [kind |-> IF part = base THEN "sourced" ELSE IF part = arm THEN "generated"
                  ELSE "plain",
         source |-> IF part = base THEN geometry ELSE None]]]

-----------------------------------------------------------------------------
(* The candidates of revision 1 and the records of the design *)

Start == [revision |-> 1, value |-> 0, trusted |-> {<<geometry, 1>>}]

Candidate(name, version) ==
  [name |-> name, intact |-> TRUE,
   synthesis |-> [version |-> version, revision |-> 1, value |-> 0]]

CadRequest(c) ==
  [candidate |-> c, schema |-> c.synthesis.version + 1, derivations |-> {arm},
   mappings |-> [part \in MyParts[c.name] |->
     [own |-> TRUE,
      fidelity |-> IF part = base THEN "trusted" ELSE IF part = arm THEN "exact"
                   ELSE "bounded",
      placement |-> IF part = arm THEN "derived" ELSE "origin"]]]

Cad(c, asked) ==
  [status |-> "success", realization |-> [candidate |-> c, request |-> asked]]

Scope ==
  [required |-> {base, arm} :> Class("check_clearance", FALSE), clearance |-> 1,
   fidelity |-> base :> "trusted"]

M10Request(c, realization) ==
  [realization |-> realization, scope |-> Scope, classes |-> Derived(MyParts[c.name], Scope),
   binding |->
     [realization |-> realization, grouped |-> {arm}, child |-> arm, driver |-> None,
      disposition |-> [part \in MyParts[c.name] |->
         IF part = base THEN "fixed" ELSE IF part = arm THEN "output_rigid"
         ELSE "internal_motion_unmodeled"]]]

Drive(c, status) == [candidate |-> c, status |-> status]

Proof == [verdict |-> "verified_clear", bound |-> 3]

Evaluated(c, cad, m10Request) ==
  [candidate |-> c, m12 |-> Drive(c, "admissible"), cad |-> cad,
   m10 |-> [status |-> "success", candidate |-> c, request |-> m10Request,
            revision |-> 1, proofs |-> {base, arm} :> Proof, homes |-> << >>],
   required |-> Checks, cad_request |-> cad.realization.request,
   m10_request |-> m10Request, outcome |-> "feasible", findings |-> {}, metric |-> 3,
   intact |-> TRUE]
Examined(c, cad) == Evaluated(c, cad, M10Request(c, cad.realization))
Evaluation(c) == Examined(c, Cad(c, CadRequest(c)))

A1 == Candidate(A, 1)
A2 == Candidate(A, 2)
B1 == Candidate(B, 1)

Entries(a, b) == << <<a.candidate, a>>, <<b.candidate, b>> >>
Comparison(entries) ==
  [entries |-> entries, maximize |-> TRUE, ranking |-> <<1, 2>>, values |-> <<3, 3>>,
   scope |-> Scope, binding |-> <<1, 0>>, intact |-> TRUE]
Compared == Comparison(Entries(Evaluation(A1), Evaluation(B1)))

Selection(e, comparison) ==
  [candidate |-> e.candidate, evaluation |-> e, comparison |-> comparison, intact |-> TRUE]

\* They are what the pipeline makes of these candidates.
ASSUME GenuineAssumption ==
  LET m10(c) == M10Request(c, Cad(c, CadRequest(c)).realization)
      evaluated(c) ==
        Evaluate(c, c.synthesis, Drive(c, "admissible"), Cad(c, CadRequest(c)),
                 RunM10(1, Cad(c, CadRequest(c)), m10(c),
                        [pair \in PairsOf(MyParts[c.name]) |-> Proof], << >>),
                 Checks, CadRequest(c), m10(c), Start)
      entries == Compared.entries
      e1 == Evaluation(A1)
      e2 == Evaluation(A2)
  IN /\ \A c \in {A1, A2, B1} :
          /\ Cad(c, CadRequest(c)) = RealizeCurrent(c, CadRequest(c), Start.trusted)
          /\ Evaluation(c) = evaluated(c)
     /\ Compared = Compare(entries, TRUE, Scope, BindingOf(A1), 1, Start)
     /\ Selection(e1, Compared) = Select(A1, e1, Compared, entries, Start)
     /\ Selection(e2, None) = Select(A2, e2, None, None, Start)

\* The motion of several joints.
Motion(c, inside) ==
  [candidate |-> c, derivations |-> {arm}, inside |-> inside, intact |-> TRUE]
Judged(c, inside) ==
  [candidate |-> c, request |-> Motion(c, inside), intact |-> TRUE]
Chosen(c, inside) ==
  [candidate |-> c, request |-> Motion(c, inside), evaluation |-> Judged(c, inside),
   intact |-> TRUE]

MyPublications ==
  ("selection" :> Selection(Evaluation(A1), Compared))
  @@ ("selection2" :> Selection(Evaluation(A2), None))
  @@ ("multi_selection" :> Chosen(A2, TRUE))

-----------------------------------------------------------------------------
(* Requests *)

Own_(class) == [class |-> class, value |-> "own"]
Instances == [input \in {"instance"} \X MyParts[A] |->
                [class |-> "accepted_design_choice", value |-> None]]
Inputs == [input \in {<<"source", geometry>>, <<"generated", arm>>} |->
             Own_("accepted_physical_fact")]
          @@ (<<"placement", arm>> :> Own_("canonical_rederivation_input")) @@ Instances
MultiInputs == Inputs
  @@ [input \in {<<"pair", {base, arm}>>, <<"obligation", "mechanism">>} |->
        Own_("canonical_rederivation_input")]

Single(route, e, comparison, classes) ==
  [route |-> route, source |-> 1, target |-> "mechanism", candidate |-> e.candidate,
   m12 |-> e.m12, evaluation |-> e, comparison |-> comparison,
   entries |-> IF comparison = None THEN None ELSE comparison.entries,
   selection |-> Selection(e, comparison), classes |-> classes]
Multi(route, c, status, classes) ==
  [route |-> route, source |-> 1, target |-> "mechanism", candidate |-> c,
   m12 |-> Drive(c, status), mrequest |-> Motion(c, TRUE), mevaluation |-> Judged(c, TRUE),
   mselection |-> Chosen(c, TRUE), classes |-> classes]

\* Of another candidate, of a motion that fails, of a motion outside the limits, with
\* a tampered record, never published, with an input left out.
Variants(good, good2, multi, multi2) ==
  ("good" :> good) @@ ("good2" :> good2) @@ ("multi" :> multi) @@ ("multi2" :> multi2)
  @@ ("other" :> [good EXCEPT !.evaluation = good.entries[2][2]])
  @@ ("struck" :> [good EXCEPT !.evaluation.outcome = "infeasible",
                               !.selection.evaluation.outcome = "infeasible"])
  @@ ("tampered" :> [good EXCEPT !.evaluation.intact = FALSE,
                                 !.selection.evaluation.intact = FALSE])
  @@ ("unpublished" :> [good EXCEPT !.comparison = None, !.entries = None,
                                    !.selection.comparison = None])
  @@ ("left_out" :> [good EXCEPT !.classes = Instances])
  @@ ("struck2" :> [good2 EXCEPT !.evaluation.outcome = "infeasible",
                                 !.selection.evaluation.outcome = "infeasible"])
  @@ ("inadmissible" :> [multi EXCEPT !.m12.status = "inadmissible"])
  @@ ("outside" :> [multi EXCEPT !.mrequest = Motion(A1, FALSE),
                                 !.mevaluation = Judged(A1, FALSE),
                                 !.mselection = Chosen(A1, FALSE)])
  @@ ("other2" :> [multi2 EXCEPT !.mevaluation = Judged(A2, FALSE)])

MyRequests ==
  Variants(Single("single", Evaluation(A1), Compared, Inputs),
           Single("single2", Evaluation(A2), None, Instances),
           Multi("multi", A1, "admissible", MultiInputs),
           Multi("multi2", A2, "inadmissible", Instances))

\* The requests that are good, with the same or another good one beside them; each
\* of the others, which come to nothing, with another that comes to nothing.
Good == {"good", "good2", "multi", "multi2"}
MyAssignments ==
  {p1 :> key @@ p2 :> IF key \in Good THEN "good" ELSE "struck" : key \in DOMAIN MyRequests}

ThePaths == "mechanism" :> <<"physical_mechanisms", "mechanism">>
TheRecords == "mechanism" :> "canonical"
\* Others, too, change the mechanism that is to be promoted.
TheChangeSets == {{<<"physical_mechanisms", "mechanism">>}}
TheRules == {[when |-> {<<"materials", Wildcard>>}, invalidates |-> {"structural"}]}

\* The sources and the selections are records of the design, bound to revision 1.
MyPublished ==
  [s \in Scopes |-> [i \in Ids |->
     IF s = "design" /\ i \in Sources \cup SelectionIds THEN [bytes |-> i, bound |-> 1]
     ELSE None]]
-----------------------------------------------------------------------------
(* TLC evaluates a definition once, but the definition of a constant wherever the *)
(* constant is mentioned: these only name the definitions above.                  *)

TheParts == MyParts
TheOrder == MyOrder
TheSpecs == MySpecs
ThePublications == MyPublications
TheRequests == MyRequests
TheAssignments == MyAssignments
ThePublished == MyPublished
=============================================================================

--------------------------- MODULE PromotionChecks ---------------------------
(***************************************************************************)
(* What CandidatePromotionCompiler and CandidatePromotionCompilerV2        *)
(* (candidates/promotion.py) and the validators of the promotion requests  *)
(* (candidates/promotion_models.py) ask of a request before anything is    *)
(* written.  Four routes lead to a promotion: a candidate evaluated for    *)
(* one joint or for several, its records of the first or of the second     *)
(* version.  The routes check different things, at different times.        *)
(*                                                                         *)
(*   single, single2   [route, source, target, candidate, m12, evaluation, *)
(*                     comparison, entries, selection, classes]            *)
(*   multi, multi2     [route, source, target, candidate, m12, mrequest,   *)
(*                     mevaluation, mselection, classes], where            *)
(*      mrequest       [candidate, derivations, inside, intact]            *)
(*      mevaluation    [candidate, request, intact]                        *)
(*      mselection     [candidate, request, evaluation, intact]            *)
(*                                                                         *)
(* `inside` is FALSE of a configuration set that leaves the limits of a    *)
(* joint.  `classes` gives each promoted input a [class, value], the value *)
(* "own" when it is that of the input; an input is a pair of its kind and  *)
(* its name.  Properties, interfaces, bodies and joints are classified     *)
(* like the inputs modelled and left out, and so is the fixed policy.      *)
(***************************************************************************)
EXTENDS CandidateSelection

CONSTANT Publications   \* artifact id -> the selection published under it

Routes == {"single", "single2", "multi", "multi2"}

PromotionClasses ==
  {"accepted_design_choice", "accepted_physical_fact", "canonical_rederivation_input",
   "provenance_only", "do_not_promote"}
Promotable == PromotionClasses \ {"provenance_only", "do_not_promote"}

PartsOfKind(c, kind) == {part \in PartsOf(c) : SpecOf[c.name][part].kind = kind}
GeometryOf(c) == {SpecOf[c.name][part].source : part \in PartsOfKind(c, "sourced")}

\* The artifact that holds the selection of a route, and what it was selected by.
ChainId(r) == CASE r.route = "single" -> "selection"
                [] r.route = "single2" -> "selection2"
                [] r.route = "multi2" -> "multi_selection"

-----------------------------------------------------------------------------
(* Faulty variants, for the properties to reject. *)

\* The drive of the multi-joint candidate is not looked at again.
MultiAdmitsUnchecked(r) == TRUE

-----------------------------------------------------------------------------
(* The requests: what they bind must be of one candidate. *)

\* With a comparison, its entries come with the request and the choice is one of
\* them.
ComparisonBound(r) ==
  /\ r.comparison = None <=> r.entries = None
  /\ r.comparison = r.selection.comparison
  /\ r.comparison # None =>
       /\ r.entries = r.comparison.entries /\ r.entries # << >>
       /\ <<r.candidate, r.evaluation>> \in Range(r.entries)
       /\ \A i, j \in DOMAIN r.entries : r.entries[i][1] = r.entries[j][1] => i = j
       /\ \A entry \in Range(r.entries) :
            /\ entry[2].candidate = entry[1]
            /\ BindingOf(entry[1]) = BindingOf(r.candidate)
            /\ ScopeOf(entry[2]) = ScopeOf(r.evaluation)

RequestHolds(r) ==
  /\ SourceOf(r.candidate) = r.source
  /\ r.m12.candidate = r.candidate /\ r.m12 = r.evaluation.m12
  /\ r.evaluation.candidate = r.candidate
  /\ r.selection.candidate = r.candidate /\ r.selection.evaluation = r.evaluation
  /\ ComparisonBound(r)

MultiRequestHolds(r) ==
  /\ SourceOf(r.candidate) = r.source
  /\ r.m12.candidate = r.candidate
  /\ r.mrequest.candidate = r.candidate
  /\ r.mrequest.derivations = PartsOfKind(r.candidate, "generated")
  /\ r.mevaluation.candidate = r.candidate /\ r.mevaluation.request = r.mrequest
  /\ r.mselection.candidate = r.candidate /\ r.mselection.request = r.mrequest
  /\ r.mselection.evaluation = r.mevaluation

-----------------------------------------------------------------------------
(* Classifications *)

\* input -> the classes and values it may be given.
Expected(c, placed) ==
  [input \in ({"source"} \X GeometryOf(c)) \cup ({"generated"} \X PartsOfKind(c, "generated"))
               \cup ({"placement"} \X placed) \cup ({"instance"} \X PartsOf(c)) |->
     CASE input[1] = "source" -> [class : Promotable, value : {"own"}]
       [] input[1] = "generated" -> [class : {"accepted_physical_fact"}, value : {"own"}]
       [] input[1] = "placement" ->
            [class : {"canonical_rederivation_input"}, value : {"own"}]
       [] input[1] = "instance" -> [class : Promotable, value : {None}]]

\* The derivations are those of the motion examined; a pair keeps its class and
\* the obligation to verify it stays.
ExpectedMulti(r) ==
  Expected(r.candidate, r.mrequest.derivations)
  @@ [input \in ({"pair"} \X PairsOf(PartsOf(r.candidate))) \cup {<<"obligation", r.target>>} |->
        [class : {"canonical_rederivation_input"}, value : {"own"}]]

\* Every input is classified and none left out; of the records derived from the
\* candidate only it may be said that they are not promoted.
Classified(classes, expected, derived) ==
  /\ DOMAIN expected \subseteq DOMAIN classes
  /\ \A input \in DOMAIN expected : classes[input] \in expected[input]
  /\ \A input \in DOMAIN classes \ DOMAIN expected :
       input \in derived /\ classes[input].class = "do_not_promote"

\* map_instances_v2: instances must be promotable, geometry is not carried.
MappedV2(r) ==
  /\ \A input \in DOMAIN r.classes : input[1] # "source"
  /\ \A part \in PartsOf(r.candidate) :
       /\ <<"instance", part>> \in DOMAIN r.classes
       /\ r.classes[<<"instance", part>>].class \in Promotable

-----------------------------------------------------------------------------
(* The first version: the request carries every record, and each is verified. *)

VerifyCandidate(r, state) ==
  /\ r.candidate.synthesis.version = 1
  /\ Intact(r.candidate, r.candidate.synthesis)
  /\ StillCurrent(r.candidate, state)

VerifyM12(r) ==
  /\ r.m12.status = "admissible"
  /\ r.m12.candidate = r.candidate /\ r.m12 = r.evaluation.m12

VerifyEvaluation(r, state) ==
  LET e == r.evaluation
  IN /\ e.outcome = "feasible" /\ e.findings = {} /\ e.intact
     /\ e.cad.status = "success" => CadInputs(r.candidate, e.cad_request, e.cad, state.trusted)
     /\ e.m10.status # "not_reached" => M10Inputs(r.candidate, e.cad, e.m10, e.m10_request)
     /\ VerifyCurrent(e, r.candidate, r.candidate.synthesis, state)

VerifySelection(r) ==
  /\ r.selection.intact
  /\ r.selection.candidate = r.candidate /\ r.selection.evaluation = r.evaluation
  /\ r.selection.comparison = r.comparison

\* The comparison is made again.
VerifyComparison(r, state) ==
  r.comparison # None =>
    /\ r.comparison.intact
    /\ Compare(r.entries, r.comparison.maximize, r.comparison.scope, r.comparison.binding,
               1, state) = r.comparison

\* Every source of geometry is held by one run of the project and bound to the
\* source revision.
GeometryResolves(r, state) ==
  \A id \in GeometryOf(r.candidate) : <<id, r.source>> \in state.trusted

\* What a request derives its placements from is what its geometry was realised
\* and its motion examined with, and covers every generated part.
PlacementBound(r) ==
  LET e == r.evaluation
      generated == PartsOfKind(r.candidate, "generated")
  IN generated # {} =>
       /\ e.cad_request # None /\ e.cad_request.schema = 2
       /\ e.cad_request.derivations = generated
       /\ e.cad.realization # None /\ e.cad.realization.request = e.cad_request
       /\ e.m10_request # None /\ e.m10_request.realization = e.cad.realization
       /\ \A part \in generated : e.cad_request.mappings[part].placement = "derived"

\* validate_readiness, twice (compile repeats it), and _scope_projection.
ReadySingle(r, state, present) ==
  /\ RequestHolds(r)
  /\ state.revision = r.source
  /\ VerifyCandidate(r, state) /\ VerifyM12(r) /\ VerifyEvaluation(r, state)
  /\ VerifySelection(r) /\ VerifyComparison(r, state)
  /\ ~ present
  /\ GeometryResolves(r, state)
  /\ Classified(r.classes,
                Expected(r.candidate, IF r.evaluation.cad_request = None THEN {}
                                      ELSE r.evaluation.cad_request.derivations),
                {<<"evidence", name>> : name \in {"m12", "m10", "evaluation", "selection"}})
  /\ PlacementBound(r)
  /\ r.evaluation.m10_request # None

MultiAdmits(r) == r.m12.status = "admissible" /\ r.m12.candidate = r.candidate

\* _verify_multi_joint_chain.
ChainHolds(r) ==
  /\ r.candidate.intact /\ r.mrequest.intact /\ r.mevaluation.intact /\ r.mselection.intact
  /\ r.mrequest.derivations = PartsOfKind(r.candidate, "generated")
  /\ r.mrequest.inside
  /\ r.mevaluation.request = r.mrequest
  /\ r.mselection.evaluation = r.mevaluation /\ r.mselection.request = r.mrequest

\* validate_multi_joint_readiness, twice.
ReadyMulti(r, state, present) ==
  /\ MultiRequestHolds(r)
  /\ state.revision = r.source
  /\ VerifyCandidate(r, state) /\ MultiAdmits(r) /\ ChainHolds(r)
  /\ ~ present
  /\ GeometryResolves(r, state)
  /\ Classified(r.classes, ExpectedMulti(r), {})

-----------------------------------------------------------------------------
(* The selection as it was published *)

\* resolve_selection_for_promotion: one run holds it, bound to the source.
SelectionResolves(r, state) == <<ChainId(r), r.source>> \in state.trusted

\* validate_selection_for_promotion.
SelectionMatches(r) ==
  LET selection == Publications["selection"]
  IN /\ r.selection = selection /\ r.candidate = selection.candidate
     /\ r.evaluation = selection.evaluation /\ r.comparison = selection.comparison

\* validate_selection_for_promotion_v2: the request only names the records, which
\* are those of the chain; the geometry must resolve now.
SelectionMatchesV2(r, state) ==
  LET selection == Publications["selection2"]
  IN /\ r.selection = selection /\ r.candidate = selection.candidate
     /\ r.evaluation = selection.evaluation /\ r.comparison = selection.comparison
     /\ r.m12 = selection.evaluation.m12
     /\ SourcesResolve(selection.candidate, state.trusted)

\* resolve_candidate_multi_joint_m10 and the comparison of the request with it.
\* Its drive result is not compared with anything.
MultiMatchesV2(r, state) ==
  LET selection == Publications["multi_selection"]
  IN /\ r.mselection = selection /\ r.candidate = selection.candidate
     /\ r.mevaluation = selection.evaluation /\ r.mrequest = selection.request
     /\ SourcesResolve(selection.candidate, state.trusted)

\* What a route asks of the published selection, each time it asks.
Provenance(r, state) ==
  \/ r.route = "multi"
  \/ /\ SelectionResolves(r, state)
     /\ CASE r.route = "single" -> SelectionMatches(r)
          [] r.route = "single2" -> SelectionMatchesV2(r, state)
          [] r.route = "multi2" -> MultiMatchesV2(r, state)

\* validate_readiness_v2: neither the target nor the outcome is looked at.
ReadySingleV2(r, state) ==
  /\ state.revision = r.source
  /\ MappedV2(r)
  /\ SourceOf(r.candidate) = r.source
  /\ r.m12 = r.evaluation.m12
  /\ r.selection.evaluation = r.evaluation

ReadyMultiV2(r, state) ==
  /\ state.revision = r.source
  /\ MappedV2(r)
  /\ SourceOf(r.candidate) = r.source

\* Everything before a run is created; `present`: the state has the target.
Ready(r, state, present) ==
  /\ CASE r.route = "single" -> ReadySingle(r, state, present)
       [] r.route = "multi" -> ReadyMulti(r, state, present)
       [] r.route = "single2" -> ReadySingleV2(r, state)
       [] r.route = "multi2" -> ReadyMultiV2(r, state)
  /\ Provenance(r, state)
=============================================================================

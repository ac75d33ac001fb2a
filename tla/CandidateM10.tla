---------------------------- MODULE CandidateM10 ----------------------------
(***************************************************************************)
(* The M10 stage of a candidate (candidates/m10_evaluation.py): which      *)
(* pairs of its parts the engineering scope wants proved clear over the    *)
(* whole rotation, what the service does with each pair, and the outcome.  *)
(* The geometry kernel itself is external: a proof is a verdict.           *)
(*                                                                         *)
(*   scope    [required, fidelity, clearance]: pair -> its class, part ->  *)
(*            fidelity, and the bound a proof has to exceed                *)
(*   binding  [realization, disposition, grouped, child, driver]           *)
(*   request  [realization, binding, scope, classes]: pair -> its class    *)
(*   stage    [status, candidate, request, revision, proofs, homes]; its   *)
(*            request is None when it was not reached                      *)
(***************************************************************************)
EXTENDS CandidateCad

PairClasses ==
  {"check_clearance", "intended_contact", "same_rigid_group", "unmodeled_motion",
   "out_of_scope"}

Dispositions == {"fixed", "output_rigid", "internal_motion_unmodeled"}

Verdicts == {"verified_clear", "collision_witness", "not_proven"}
HomeVerdicts == {"clear", "touching", "collision"}

PairsOf(parts) == {pair \in SUBSET parts : Cardinality(pair) = 2}

Class(class, home) == [class |-> class, home |-> home]

-----------------------------------------------------------------------------
(* Binding and scope *)

\* CandidateM10Binding: the moving body of the joint moves rigidly with it, a
\* driver gear has a motion of its own, and only what moves with the output may
\* be in its transform group.
BindingHolds(binding) ==
  /\ binding.child \in DOMAIN binding.disposition
  /\ binding.disposition[binding.child] = "output_rigid"
  /\ binding.driver # None =>
       /\ binding.driver \in DOMAIN binding.disposition
       /\ binding.disposition[binding.driver] = "internal_motion_unmodeled"
  /\ \A part \in binding.grouped : binding.disposition[part] = "output_rigid"

\* validate_against, and the covering that complete_for asks for.
BindingFits(binding, realization) ==
  /\ BindingHolds(binding)
  /\ binding.realization = realization
  /\ DOMAIN binding.disposition = PartsOf(realization.candidate)

\* CandidateCollisionPairClassification: only unmodelled motion may ask for a
\* check at the home position instead.
ClassHolds(entry) ==
  entry.class \in PairClasses /\ (entry.home => entry.class = "unmodeled_motion")

\* What a pair must be classified as: what the scope says, and nothing that has
\* to be checked where it says nothing.
AsScoped(scope, pair, entry) ==
  IF pair \in DOMAIN scope.required
  THEN entry = scope.required[pair]
  ELSE ~ entry.home /\ entry.class # "check_clearance"

\* The dispositions of a pair must bear its class out.
Justified(binding, pair, entry) ==
  LET kinds == {binding.disposition[part] : part \in pair}
  IN /\ entry.class = "check_clearance" => kinds = {"fixed", "output_rigid"}
     /\ entry.class = "same_rigid_group" => pair \subseteq binding.grouped
     /\ entry.class = "unmodeled_motion" => "internal_motion_unmodeled" \in kinds

\* CandidateCollisionPairInventory.complete_for: every pair of parts has a class.
Complete(realization, binding, scope, classes) ==
  LET pairs == PairsOf(PartsOf(realization.candidate))
  IN /\ DOMAIN classes = pairs
     /\ DOMAIN scope.required \subseteq pairs
     /\ \A part \in DOMAIN scope.fidelity :
          /\ part \in PartsOf(realization.candidate)
          /\ realization.request.mappings[part].fidelity = scope.fidelity[part]
     /\ \A pair \in pairs :
          /\ ClassHolds(classes[pair])
          /\ AsScoped(scope, pair, classes[pair])
          /\ Justified(binding, pair, classes[pair])

\* complete_for without classifications: what the scope does not name is out of
\* scope.
Derived(parts, scope) ==
  [pair \in PairsOf(parts) |->
     IF pair \in DOMAIN scope.required THEN scope.required[pair]
     ELSE Class("out_of_scope", FALSE)]

\* CandidateM10EvaluationRequest.validate_against.
M10RequestFits(request, realization, binding, scope) ==
  /\ BindingFits(binding, realization)
  /\ request.realization = realization
  /\ request.binding = binding /\ request.scope = scope
  /\ Complete(realization, binding, scope, request.classes)

-----------------------------------------------------------------------------
(* The stage *)

Checked(request) ==
  {pair \in DOMAIN request.classes : request.classes[pair].class = "check_clearance"}
HomeChecked(request) ==
  {pair \in DOMAIN request.classes : request.classes[pair].home}

\* Any pair of unmodelled motion leaves the stage unresolved, checked at home or
\* not.
StageStatus(request) ==
  IF \E pair \in DOMAIN request.classes : request.classes[pair].class = "unmodeled_motion"
  THEN "unresolved" ELSE "success"

\* A result that claims clearance within the bound is refused.
ProofHolds(scope, proof) ==
  proof.verdict = "verified_clear" => proof.bound > scope.clearance

NotReached(candidate, revision) ==
  [status |-> "not_reached", candidate |-> candidate, request |-> None,
   revision |-> revision, proofs |-> << >>, homes |-> << >>]

\* _validate_request_against_binding_scope: the request against what it holds.
Consistent(request) ==
  LET pairs == PairsOf(DOMAIN request.binding.disposition)
  IN /\ request.binding.realization = request.realization
     /\ DOMAIN request.classes = pairs /\ DOMAIN request.scope.required \subseteq pairs
     /\ \A pair \in pairs : AsScoped(request.scope, pair, request.classes[pair])

\* CandidateM10EvaluationService.evaluate, with the results of the kernel; None
\* if it raises.  The revision is taken from the caller as it is; the second
\* version does not look at the request before the CAD stage.
RunM10(revision, cad, request, results, homes) ==
  IF cad.status # "success"
  THEN IF request.realization.candidate.synthesis.version = 2 \/ Consistent(request)
       THEN NotReached(request.realization.candidate, revision) ELSE None
  ELSE IF /\ M10RequestFits(request, cad.realization, request.binding, request.scope)
          /\ \A pair \in Checked(request) : ProofHolds(request.scope, results[pair])
  THEN [status |-> StageStatus(request), candidate |-> cad.realization.candidate,
        request |-> request, revision |-> revision,
        proofs |-> [pair \in Checked(request) |-> results[pair]],
        homes |-> [pair \in HomeChecked(request) |-> homes[pair]]]
  ELSE None
=============================================================================

------------------------- MODULE CandidateEvaluation -------------------------
(***************************************************************************)
(* CandidateEvaluationService and CandidateEvaluationCurrentnessService    *)
(* (candidates/evaluation.py): the verdict on a candidate from its drive   *)
(* admissibility (M12), its CAD stage and its M10 stage, and whether an    *)
(* evaluation still holds of the current state.                            *)
(*                                                                         *)
(* Records of the first and of the second version go through two copies of *)
(* the same code; where they differ the version of the candidate decides.  *)
(* A candidate holds its synthesis request, so agreeing on the candidate   *)
(* is agreeing on its source, its request and its policy.                  *)
(*                                                                         *)
(*   m12         [candidate, status]                                       *)
(*   evaluation  [candidate, m12, cad, m10, required, cad_request,         *)
(*                m10_request, findings, outcome, metric, intact]          *)
(***************************************************************************)
EXTENDS CandidateM10, FiniteSetsExt

Checks == {"m12", "cad", "m10"}

\* The fixed inventory is the default; a policy may require fewer checks.
EvaluationPolicies == (SUBSET Checks) \ {{}}

M12Statuses == {"admissible", "inadmissible", "unresolved"}

Outcomes == {"feasible", "infeasible", "unresolved"}

-----------------------------------------------------------------------------
(* Faulty variants, for the properties to reject. *)

\* A stage left unresolved by unmodelled motion is not looked at.
UnresolvedIgnoringHome(m12, cad, m10, required, request) ==
  (IF m12.status = "unresolved" THEN {<<"m12", {}>>} ELSE {})
  \cup (IF "cad" \in required /\ cad.status # "success" THEN {<<"cad", {}>>} ELSE {})
  \cup (IF "m10" \in required /\ m10.status = "not_reached" THEN {<<"m10", {}>>} ELSE {})
  \cup {<<"not_proven", pair>> : pair \in
          {p \in DOMAIN m10.proofs : "m10" \in required
                                     /\ m10.proofs[p].verdict = "not_proven"}}

\* A CAD stage that succeeded may do without an M10 stage.
WellFormedWithoutM10(e) ==
  /\ e.m12.candidate = e.candidate /\ e.m10.candidate = e.candidate
  /\ e.cad.status # "success" => e.m10.status = "not_reached" /\ e.cad_request = None
  /\ (e.m10.status = "not_reached") = (e.m10_request = None)

-----------------------------------------------------------------------------
(* The verdict *)

\* Witnesses that the candidate fails.  A collision at home counts whether or
\* not the policy asks for M10, one on the way only if it does.
Hard(m12, m10, required) ==
  (IF m12.status = "inadmissible" THEN {<<"m12", {}>>} ELSE {})
  \cup {<<"collision", pair>> : pair \in
          {p \in DOMAIN m10.proofs :
             /\ "m10" \in required /\ m10.status = "success"
             /\ m10.proofs[p].verdict = "collision_witness"}}
  \cup {<<"home_collision", pair>> : pair \in
          {p \in DOMAIN m10.homes : m10.homes[p] \in {"touching", "collision"}}}

\* What is not known.  A pair checked at home only is never enough.
Unresolved(m12, cad, m10, required, request) ==
  (IF m12.status = "unresolved" THEN {<<"m12", {}>>} ELSE {})
  \cup (IF "cad" \in required /\ cad.status # "success" THEN {<<"cad", {}>>} ELSE {})
  \cup (IF "m10" \in required /\ (m10.status # "success" \/ DOMAIN m10.proofs = {})
        THEN {<<"m10", {}>>} ELSE {})
  \cup {<<"not_proven", pair>> : pair \in
          {p \in DOMAIN m10.proofs :
             /\ "m10" \in required /\ m10.status = "success"
             /\ m10.proofs[p].verdict = "not_proven"}}
  \cup (IF request # None /\ HomeChecked(request) \cap DOMAIN m10.homes # {}
        THEN {<<"internal_motion", {}>>} ELSE {})

\* _expected_outcome.
Verdict(m12, cad, m10, required, request) ==
  LET hard == Hard(m12, m10, required)
      unresolved == Unresolved(m12, cad, m10, required, request)
  IN [outcome |-> IF hard # {} THEN "infeasible"
                  ELSE IF unresolved # {} THEN "unresolved" ELSE "feasible",
      findings |-> unresolved]

\* The clearance all proofs certify; none unless every one of them is clear.
Metric(m10, required) ==
  IF /\ "m10" \in required /\ m10.status = "success" /\ DOMAIN m10.proofs # {}
     /\ \A pair \in DOMAIN m10.proofs : m10.proofs[pair].verdict = "verified_clear"
  THEN Min({m10.proofs[pair].bound : pair \in DOMAIN m10.proofs})
  ELSE None

-----------------------------------------------------------------------------
(* The inputs of the verdict *)

\* _validate_cad_inputs: the request the stage was realised from, for this
\* candidate, with the geometry each part was given.  The first version also
\* replays the realisation from the sources there are now.
CadInputs(candidate, request, cad, trusted) ==
  /\ cad.status = "success"
  /\ RequestFits(candidate, request) /\ OwnInputs(candidate, request)
  /\ \A part \in PartsOf(candidate) :
       LET spec == SpecOf[candidate.name][part]
           fidelity == request.mappings[part].fidelity
       IN /\ spec.kind = "sourced" <=> fidelity = "trusted"
          /\ spec.kind = "generated" => fidelity = "exact"
  /\ cad.realization = [candidate |-> candidate, request |-> request]
  /\ candidate.synthesis.version = 1 => Replays(candidate, cad.realization, trusted)

\* _validate_m10_proofs: a result for every pair that needs one, and no other.
ProofsMatch(m10, request) ==
  /\ DOMAIN m10.proofs = Checked(request)
  /\ DOMAIN m10.homes = HomeChecked(request)
  /\ \A pair \in DOMAIN m10.proofs : ProofHolds(request.scope, m10.proofs[pair])

\* _validate_m10_inputs.
M10Inputs(candidate, cad, m10, request) ==
  /\ cad.status = "success"
  /\ m10.candidate = candidate /\ m10.revision = SourceOf(candidate)
  /\ m10.request = request
  /\ M10RequestFits(request, cad.realization, request.binding, request.scope)
  /\ ProofsMatch(m10, request)

-----------------------------------------------------------------------------
(* The evaluation *)

\* What only the validator of the first version looks at: the order of the stages,
\* and the M10 stage against the request it keeps.  The second version leaves both
\* to its service.
FirstVersionHolds(e) ==
  /\ e.m12.status = "inadmissible" => e.cad.status = "not_reached"
  /\ e.cad.status # "success" => e.m10.status = "not_reached"
  /\ e.cad.status = "success" =>
       /\ M10RequestFits(e.m10_request, e.cad.realization,
                         e.m10_request.binding, e.m10_request.scope)
       /\ ProofsMatch(e.m10, e.m10_request)

\* The validators of CandidateEvaluation and CandidateEvaluationV2: what an
\* evaluation stores is consistent, and the verdict is that of what it stores.  Neither
\* looks at the source of an M10 stage.
WellFormed(e) ==
  /\ e.m12.candidate = e.candidate /\ e.m10.candidate = e.candidate
  /\ e.cad.status # "success" => e.cad_request = None
  /\ IF e.m10.status = "not_reached" THEN e.m10_request = None
     ELSE /\ e.m10_request # None /\ e.m10.request = e.m10_request
          /\ e.m10_request.realization.candidate = e.candidate
  /\ e.cad.status = "success" =>
       /\ e.cad_request # None /\ e.cad_request = e.cad.realization.request
       /\ e.cad.realization.candidate = e.candidate
       /\ e.m10.status # "not_reached"
       /\ e.m10.request.realization = e.cad.realization
  /\ e.candidate.synthesis.version = 1 => FirstVersionHolds(e)
  /\ Verdict(e.m12, e.cad, e.m10, e.required, e.m10_request)
       = [outcome |-> e.outcome, findings |-> e.findings]
  /\ e.metric = Metric(e.m10, e.required)

\* evaluate and _evaluate_v2: the record, or None if it raises.  The second version
\* does not ask of which source a stage is that was not reached.
Evaluate(candidate, synthesis, m12, cad, m10, required, cadRequest, m10Request, state) ==
  LET verdict == Verdict(m12, cad, m10, required, m10Request)
      evaluation ==
        [candidate |-> candidate, m12 |-> m12, cad |-> cad, m10 |-> m10,
         required |-> required, cad_request |-> cadRequest, m10_request |-> m10Request,
         outcome |-> verdict.outcome, findings |-> verdict.findings,
         metric |-> Metric(m10, required), intact |-> TRUE]
  IN IF /\ Intact(candidate, synthesis) /\ StillCurrent(candidate, state)
        /\ m12.candidate = candidate
        /\ m10.candidate = candidate
        /\ candidate.synthesis.version = 1 => m10.revision = SourceOf(candidate)
        /\ cad.status = "success" =>
             cadRequest # None /\ CadInputs(candidate, cadRequest, cad, state.trusted)
        /\ IF m10.status = "not_reached" THEN m10Request = None
           ELSE m10Request # None /\ M10Inputs(candidate, cad, m10, m10Request)
        /\ WellFormed(evaluation)
     THEN evaluation ELSE None

\* verify_current, with nothing but the evaluation, its candidate and the
\* request that the second version needs.
VerifyCurrent(e, candidate, synthesis, state) ==
  /\ e.intact /\ WellFormed(e)
  /\ e.candidate = candidate
  /\ candidate.synthesis.version = 2 => synthesis = candidate.synthesis
  /\ e.m10.revision = SourceOf(candidate)
  /\ e.cad.status = "success" => CadInputs(candidate, e.cad_request, e.cad, state.trusted)
  /\ e.m10.status # "not_reached" => M10Inputs(candidate, e.cad, e.m10, e.m10_request)
  /\ StillCurrent(candidate, state)
=============================================================================

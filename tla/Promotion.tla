------------------------------ MODULE Promotion ------------------------------
(***************************************************************************)
(* CandidatePromotionApplicationService and verify_promoted_mechanism      *)
(* (candidates/promotion.py) with the manifests they publish               *)
(* (candidates/promotion_artifacts.py, provenance_artifacts.py): a         *)
(* selected candidate becomes a mechanism of the canonical state.          *)
(*                                                                         *)
(* Every promoter handles one request: it checks the request, creates a    *)
(* run, publishes its decision, applies the proposal, has the invalidation *)
(* recorded, publishes the result, and returns a receipt.  Nothing is      *)
(* locked but the commit itself.  Between two steps others commit, among   *)
(* them promoters with the same request (a duplicate, or the retry after a *)
(* crash); files are damaged, or published by another run as well.         *)
(*                                                                         *)
(* A receipt under way is kept in receipt[p]; pc[p] = "done" returns it.   *)
(***************************************************************************)
EXTENDS PromotionChecks

CONSTANTS
  Rules, Edges, Wildcard, Leaves, ChangeSets,   \* of EvidenceStore
  MaxRevision, MaxFaults,
  Published, Garbled,   \* of ArtifactStore
  Promoters,
  Others,      \* other runs of the project
  Requests,    \* key -> request; the key is the id of its decision, which is
               \* the hash of what the request says and of nothing else
  Assignments,     \* which requests the promoters have: promoter -> key, of each choice
  PathOf,      \* target -> its path in the state
  RecordOf,    \* target -> the id of the canonical M10 record of its mechanism
  MaxLapses    \* bound: failed writes, deaths, damaged or copied artifacts

VARIABLES
  changes, records, evidence, pending, query, faults,   \* of EvidenceStore
  content, metadata, publishing,                        \* of ArtifactStore
  request,       \* promoter -> key
  pc,
  run,           \* promoter -> [base, active, status], or None
  receipt,       \* promoter -> [status, decision, result, applied], or None
  kernel,        \* promoter -> what the canonical M10 proof comes to, or None
  verification,  \* promoter -> the status its last verification returned, or None
  author,        \* history: revision -> who committed it
  lapses

storeVars == <<changes, records, evidence, pending, query, faults>>
artifactVars == <<content, metadata, publishing>>
local == <<request, run, receipt, kernel, verification>>
vars == <<storeVars, artifactVars, local, pc, author, lapses>>

\* The runs that hold artifacts: those of the promoters, one for the records of
\* the design, one for the canonical records and some other one.
Scopes == Promoters \cup {"design", "canonical", "other"}
SelectionIds == {"selection", "selection2", "multi_selection"}
Sources == UNION {GeometryOf(Requests[key].candidate) : key \in DOMAIN Requests}
CanonicalIds == {RecordOf[Requests[key].target] : key \in DOMAIN Requests}
Ids == Sources \cup SelectionIds \cup DOMAIN Requests \cup CanonicalIds
         \cup {"result", "locator"}

Store == INSTANCE EvidenceStore WITH
  Writers <- Promoters \cup Others, Queries <- {}, EvidenceIds <- {},
  Producers <- {}, writing <- [p \in {} |-> None]
Artifacts == INSTANCE ArtifactStore WITH Publishers <- Promoters

Applied == {"promotion_applied", "run_transition_failed", "invalidation_persistence_failed",
            "invalidation_verification_failed", "result_provenance_failed"}
Statuses == Applied \cup {"pre_apply_failure", "changeengine_rejected"}
Reports == {"verified", "engineering_violation", "unresolved", "integrity_failure",
            "operational_failure"}
Kernels == {"verified_clear", "collision_witness", "not_proven", "not_equivalent"}
PromoteSteps == {"preflight", "recheck", "create", "decide", "deciding", "decided", "apply",
                 "save", "invalidate", "confirm", "result", "resulting", "resulted", "fail"}
VerifySteps == {"prove", "proving", "proved", "locate", "locating", "located"}

\* What an artifact is of, and the binding of it that its metadata holds.
Bytes == Ids \cup Kernels
Stamps == [bytes : Bytes, bound : Store!Revisions]
Writes == [scope : Scopes, id : Ids, bytes : Bytes, bound : Store!Revisions,
                  step : {"content", "metadata"}]

RunStates == [base : Store!Revisions, active : Store!Revisions,
              status : {"created", "blocked", "failed"}]
Receipts == [status : Statuses, decision : BOOLEAN, result : BOOLEAN,
             applied : Store!Revisions \cup {None}]

ASSUME PromotionAssumption ==
  /\ Promoters \cap (Others \cup {"design", "canonical", "other"}) = {}
  /\ Assignments \subseteq [Promoters -> DOMAIN Requests]
  /\ \A key \in DOMAIN Requests :
       /\ Requests[key].route \in Routes /\ Requests[key].source \in 1 .. MaxRevision - 1
       /\ {PathOf[Requests[key].target]} \in ChangeSets
       /\ key \notin Sources \cup SelectionIds \cup CanonicalIds \cup {"result", "locator"}
  /\ \A key, other \in DOMAIN Requests :
       RecordOf[Requests[key].target] = RecordOf[Requests[other].target] =>
         Requests[key].target = Requests[other].target
  /\ CanonicalIds \cap (Sources \cup SelectionIds \cup {"result", "locator"}) = {}
  /\ MaxLapses \in Nat

\* The runs of the promoters are new: nothing is published in them, and nobody has
\* decided their requests or proved their mechanisms.
ASSUME ArtifactAssumption ==
  /\ Published \in [Scopes -> [Ids -> Stamps \cup {None}]]
  /\ \A p \in Promoters, i \in Ids : Published[p][i] = None
  /\ \A s \in Scopes, i \in DOMAIN Requests \cup CanonicalIds : Published[s][i] = None
  /\ Garbled \notin Bytes \cup {None}
  /\ None \notin Bytes \cup Stamps \cup Writes

\* A selection is checked before it is published and whenever it is resolved: it is of
\* an evaluation that is feasible, or of the motion of its candidate
\* (provenance_artifacts.py:2597-2752, 4591-4681).
ASSUME PublicationAssumption ==
  LET selection == Publications["selection2"]
      motion == Publications["multi_selection"]
  IN /\ Selectable(selection.candidate, selection.evaluation)
     /\ selection.evaluation.m12.status \in M12Statuses
     /\ motion.request.candidate = motion.candidate
     /\ motion.evaluation.request = motion.request

ASSUME StoreAssumption ==
  /\ MaxRevision \in Nat /\ MaxRevision >= 1
  /\ MaxFaults \in Nat
  /\ \A nodes \in SUBSET Store!Nodes : nodes # None
  /\ \A path \in Leaves \cup UNION ChangeSets : Len(path) \in Nat
  /\ \A rule \in Rules : \A pattern \in rule.when : Len(pattern) \in Nat
  /\ None \notin Store!Revisions \cup Store!Evidence \cup Store!Writes
  /\ None \notin Store!Question \cup Store!Verdicts
  /\ None \notin Promoters \cup Others \cup Reports \cup RunStates \cup Receipts

Init ==
  /\ Store!Init /\ Artifacts!Init
  /\ request \in Assignments
  /\ pc = [p \in Promoters |-> "preflight"]
  /\ run = [p \in Promoters |-> None]
  /\ receipt = [p \in Promoters |-> None]
  /\ kernel = [p \in Promoters |-> None]
  /\ verification = [p \in Promoters |-> None]
  /\ author = << None >>
  /\ lapses = 0

Req(p) == Requests[request[p]]
Route(p) == Req(p).route
Source(p) == Req(p).source
CanonicalId(p) == RecordOf[Req(p).target]

Goto(p, from, to) == pc[p] = from /\ pc' = [pc EXCEPT ![p] = to]
Lapse == lapses < MaxLapses /\ lapses' = lapses + 1

\* A mechanism of the target's name is in the state: nothing removes one.
Present(target) == \E r \in 1 .. Store!current : PathOf[target] \in changes[r]

\* What a lookup in the project finds: one run that has it, and its binding.
Trusted == UNION {{<<i, metadata[s][i].bound>> : s \in Artifacts!Holders(i)} :
                    i \in {j \in Ids : Artifacts!InProject(j)}}

\* A request is promotable only from the current revision, so the value that its
\* candidate consumed is the one the state has.
State == [revision |-> Store!current, value |-> 0, trusted |-> Trusted]

-----------------------------------------------------------------------------
(* Faulty variants, for the properties to reject. *)

\* The proposal is applied while the decision is yet to be published.
DecideLater(p) ==
  /\ Goto(p, "decide", "apply")
  /\ UNCHANGED <<storeVars, artifactVars, local, author, lapses>>

\* What is left of an earlier decision is overwritten.
DecideOverwriting(p) ==
  /\ Goto(p, "decide", "decided")
  /\ metadata' = [metadata EXCEPT ![p][request[p]] =
                    [bytes |-> request[p], bound |-> Source(p)]]
  /\ UNCHANGED <<storeVars, content, publishing, local, author, lapses>>

\* The proposal is applied to whatever revision is current.
ApplyRebased(p) ==
  /\ Goto(p, "apply", "save")
  /\ Store!Commit(p, {PathOf[Req(p).target]})
  /\ author' = Append(author, p)
  /\ UNCHANGED <<artifactVars, local, lapses>>

\* Whatever apply_approved_proposal raises fails the run.
SaveFailsAsRejected(p) ==
  /\ Goto(p, "save", "fail") /\ Lapse
  /\ Store!Abandon(p)
  /\ receipt' = [receipt EXCEPT ![p] =
       [status |-> "changeengine_rejected", decision |-> TRUE, result |-> FALSE,
        applied |-> None]]
  /\ UNCHANGED <<artifactVars, request, run, kernel, verification, author>>

\* The result is published before the invalidation is recorded.
InvalidateLater(p) ==
  /\ Goto(p, "invalidate", "result")
  /\ UNCHANGED <<storeVars, artifactVars, local, author, lapses>>

InvalidateCurrent(p) ==
  /\ Goto(p, "invalidate", "confirm")
  /\ Store!RecordInvalidationOfCurrent(p)
  /\ UNCHANGED <<artifactVars, local, author, lapses>>

\* The proof that was made is the verification.
ConclusionOfAny(verdict) == "verified"

\* The verdict is returned before its locator is there.
LocateLater(p) ==
  /\ Goto(p, "locate", "done")
  /\ verification' = [verification EXCEPT ![p] = "verified"]
  /\ UNCHANGED <<storeVars, artifactVars, request, run, receipt, kernel, author, lapses>>

-----------------------------------------------------------------------------
(* Receipts *)

Receipt(p, status, decision, result) ==
  [status |-> status, decision |-> decision, result |-> result,
   applied |-> IF status \in Applied THEN Source(p) + 1 ELSE None]

\* The call returns.
Return(p, status, decision, result) ==
  /\ receipt' = [receipt EXCEPT ![p] = Receipt(p, status, decision, result)]
  /\ pc' = [pc EXCEPT ![p] = "done"]

\* It fails its run first.
Fail(p, status, decision) ==
  /\ receipt' = [receipt EXCEPT ![p] = Receipt(p, status, decision, FALSE)]
  /\ pc' = [pc EXCEPT ![p] = "fail"]

\* The call raises, or its process dies: there is no receipt.
Die(p) ==
  /\ receipt' = [receipt EXCEPT ![p] = None]
  /\ pc' = [pc EXCEPT ![p] = "dead"]

SetRun(p, states) == \E state \in states : run' = [run EXCEPT ![p] = state]

Failed(p) == [run[p] EXCEPT !.status = "failed"]
Blocked(p) == [run[p] EXCEPT !.status = "blocked"]
Advanced(p) == [run[p] EXCEPT !.active = Source(p) + 1]

\* _fail_created_run.
FailRun(p) ==
  /\ Goto(p, "fail", "done")
  /\ SetRun(p, {Failed(p)})
  /\ UNCHANGED <<storeVars, artifactVars, request, receipt, kernel, verification, author, lapses>>

\* fail_run raises, before or after the run is saved.
FailRunRaises(p) ==
  /\ pc[p] = "fail" /\ Lapse
  /\ SetRun(p, {run[p], Failed(p)})
  /\ Die(p)
  /\ UNCHANGED <<storeVars, artifactVars, request, kernel, verification, author>>

-----------------------------------------------------------------------------
(* What the manifests rest on *)

\* _verify_selected_sources: someone has each source, and whoever has it has it
\* of the source revision.
SourcesBound(p) ==
  \A id \in GeometryOf(Req(p).candidate) :
    LET holders == Artifacts!Holders(id)
    IN holders # {} /\ \A s \in holders : metadata[s][id].bound = Source(p)

\* The manifests of the second version look at the selection again.
InputsStand(p) ==
  /\ SourcesBound(p)
  /\ Route(p) \in {"single2", "multi2"} => Provenance(Req(p), State)

\* resolve_decision, resolve_result, in the scope of the run.
DecisionStands(p) == Artifacts!Verified(p, request[p]) /\ InputsStand(p)
ResultStands(p) == Artifacts!Verified(p, "result") /\ DecisionStands(p)

-----------------------------------------------------------------------------
(* Preflight *)

\* A promoter has checked its request, and goes on or returns.
Examine(p, holds, next) ==
  /\ pc[p] = "preflight"
  /\ IF holds THEN Goto(p, "preflight", next) /\ UNCHANGED receipt
     ELSE Return(p, "pre_apply_failure", FALSE, FALSE)
  /\ UNCHANGED <<storeVars, artifactVars, request, run, kernel, verification, author, lapses>>

Cleared(p) == Ready(Req(p), State, Present(Req(p).target))

PreflightSingle(p) == Route(p) = "single" /\ Examine(p, Cleared(p), "create")
PreflightMulti(p) == Route(p) = "multi" /\ Examine(p, Cleared(p), "create")
PreflightSingleV2(p) == Route(p) = "single2" /\ Examine(p, Cleared(p), "recheck")
PreflightMultiV2(p) == Route(p) = "multi2" /\ Examine(p, Cleared(p), "create")

\* _promote_compiled_candidate_v2 looks again, and for the M10 scope.
Recheck(p) ==
  /\ pc[p] = "recheck"
  /\ IF /\ Store!current = Source(p) /\ Provenance(Req(p), State)
        /\ Req(p).evaluation.m10_request # None
     THEN Goto(p, "recheck", "create") /\ UNCHANGED receipt
     ELSE Return(p, "pre_apply_failure", FALSE, FALSE)
  /\ UNCHANGED <<storeVars, artifactVars, request, run, kernel, verification, author, lapses>>

-----------------------------------------------------------------------------
(* The run and the decision *)

\* create_run, which expects the source to be current.
CreateRun(p) ==
  /\ pc[p] = "create"
  /\ IF Store!current = Source(p)
     THEN /\ Goto(p, "create", "decide")
          /\ SetRun(p, {[base |-> Source(p), active |-> Source(p), status |-> "created"]})
          /\ UNCHANGED receipt
     ELSE Return(p, "pre_apply_failure", FALSE, FALSE) /\ UNCHANGED run
  /\ UNCHANGED <<storeVars, artifactVars, request, kernel, verification, author, lapses>>

CreateRunFails(p) ==
  /\ pc[p] = "create" /\ Lapse
  /\ Return(p, "pre_apply_failure", FALSE, FALSE)
  /\ UNCHANGED <<storeVars, artifactVars, request, run, kernel, verification, author>>

Decide(p) ==
  /\ pc[p] = "decide"
  /\ IF InputsStand(p)
     THEN /\ Goto(p, "decide", "deciding")
          /\ Artifacts!Publish(p, p, request[p], request[p], Source(p))
          /\ UNCHANGED receipt
     ELSE Fail(p, "pre_apply_failure", FALSE) /\ UNCHANGED artifactVars
  /\ UNCHANGED <<storeVars, request, run, kernel, verification, author, lapses>>

\* It is read back, by the publisher and again by its caller; only the second of
\* them knows the id, and not in every route.
Decided(p) ==
  /\ pc[p] = "decided"
  /\ IF DecisionStands(p)
     THEN Goto(p, "decided", "apply") /\ UNCHANGED receipt
     ELSE \E named \in IF Route(p) \in {"single", "single2"} THEN BOOLEAN ELSE {FALSE} :
            Fail(p, "pre_apply_failure", named)
  /\ UNCHANGED <<storeVars, artifactVars, request, run, kernel, verification, author, lapses>>

-----------------------------------------------------------------------------
(* apply_approved_proposal *)

\* The engine takes the proposal only on its own base, and a list item of the
\* target's name only once.
Apply(p) ==
  /\ pc[p] = "apply"
  /\ IF Store!current = Source(p) /\ ~ Present(Req(p).target)
     THEN /\ Goto(p, "apply", "save")
          /\ Store!Commit(p, {PathOf[Req(p).target]})
          /\ author' = Append(author, p)
          /\ UNCHANGED receipt
     ELSE Fail(p, "changeengine_rejected", TRUE) /\ UNCHANGED <<storeVars, author>>
  /\ UNCHANGED <<artifactVars, request, run, kernel, verification, lapses>>

\* A write of the engine raises before the new revision is current.
ApplyBreaks(p) ==
  /\ pc[p] = "apply" /\ Lapse
  /\ Fail(p, "pre_apply_failure", TRUE)
  /\ UNCHANGED <<storeVars, artifactVars, request, run, kernel, verification, author>>

Save(p) ==
  /\ Goto(p, "save", "invalidate")
  /\ SetRun(p, {Advanced(p)})
  /\ UNCHANGED <<storeVars, artifactVars, request, receipt, kernel, verification, author, lapses>>

SaveFails(p) ==
  /\ pc[p] = "save" /\ Lapse
  /\ Store!Abandon(p)
  /\ SetRun(p, {run[p], Advanced(p)})
  /\ Return(p, "run_transition_failed", TRUE, FALSE)
  /\ UNCHANGED <<artifactVars, request, kernel, verification, author>>

Invalidate(p) ==
  /\ Goto(p, "invalidate", "confirm")
  /\ Store!RecordInvalidation(p)
  /\ UNCHANGED <<artifactVars, local, author, lapses>>

\* The run is blocked, which may fail too.
InvalidateFails(p) ==
  /\ pc[p] = "invalidate" /\ Lapse
  /\ Store!Abandon(p)
  /\ \/ /\ SetRun(p, {Blocked(p)})
        /\ Return(p, "invalidation_persistence_failed", TRUE, FALSE)
     \/ /\ SetRun(p, {run[p], Blocked(p)})
        /\ Return(p, "run_transition_failed", TRUE, FALSE)
  /\ UNCHANGED <<artifactVars, request, kernel, verification, author>>

\* The run and the record are read again.
Confirm(p) ==
  /\ pc[p] = "confirm"
  /\ IF records[run[p].active] # None /\ run[p].active = run[p].base + 1
     THEN Goto(p, "confirm", "result") /\ UNCHANGED receipt
     ELSE Return(p, "invalidation_verification_failed", TRUE, FALSE)
  /\ UNCHANGED <<storeVars, artifactVars, request, run, kernel, verification, author, lapses>>

\* One of them cannot be read; in the first multi-joint route the snapshot is
\* read as well, and nothing catches that it is not there.
ConfirmFails(p) ==
  /\ pc[p] = "confirm" /\ Lapse
  /\ \/ \E status \in {"run_transition_failed", "invalidation_verification_failed"} :
          Return(p, status, TRUE, FALSE)
     \/ Route(p) = "multi" /\ Die(p)
  /\ UNCHANGED <<storeVars, artifactVars, request, run, kernel, verification, author>>

-----------------------------------------------------------------------------
(* The result *)

PublishResult(p) ==
  /\ pc[p] = "result"
  /\ IF DecisionStands(p)
     THEN /\ Goto(p, "result", "resulting")
          /\ Artifacts!Publish(p, p, "result", request[p], Source(p) + 1)
          /\ UNCHANGED receipt
     ELSE /\ Return(p, "result_provenance_failed", TRUE, FALSE)
          /\ UNCHANGED artifactVars
  /\ UNCHANGED <<storeVars, request, run, kernel, verification, author, lapses>>

\* A result that does not stand is named in the receipt of some routes.
Conclude(p) ==
  /\ pc[p] = "resulted"
  /\ IF ResultStands(p) THEN Return(p, "promotion_applied", TRUE, TRUE)
     ELSE \E named \in CASE Route(p) \in {"single", "multi2"} -> {TRUE}
                         [] Route(p) = "single2" -> BOOLEAN
                         [] Route(p) = "multi" -> {FALSE} :
            Return(p, "result_provenance_failed", TRUE, named)
  /\ UNCHANGED <<storeVars, artifactVars, request, run, kernel, verification, author, lapses>>

-----------------------------------------------------------------------------
(* verify_promoted_mechanism *)

Report(p, status) ==
  /\ verification' = [verification EXCEPT ![p] = status]
  /\ pc' = [pc EXCEPT ![p] = "done"]

\* Of the receipt of a single-joint promotion, as often as the caller likes.
Verify(p) ==
  /\ pc[p] = "done" /\ Route(p) = "single"
  /\ IF receipt[p].status # "promotion_applied"
     THEN Report(p, IF receipt[p].applied = None THEN "integrity_failure"
                    ELSE "operational_failure")
     ELSE IF ResultStands(p) /\ SelectionResolves(Req(p), State)
     THEN Goto(p, "done", "prove") /\ UNCHANGED verification
     ELSE Report(p, "integrity_failure")
  /\ UNCHANGED <<storeVars, artifactVars, request, run, receipt, kernel, author, lapses>>

\* The mechanism is rebuilt from the state and its motion proved anew; the same
\* mechanism always gives the same verdict.  Records of another scope are not
\* published.
Prove(p, verdict) ==
  /\ pc[p] = "prove"
  /\ kernel[p] \in {None, verdict}
  /\ kernel' = [kernel EXCEPT ![p] = verdict]
  /\ CASE ~ SourcesBound(p) -> Report(p, "integrity_failure") /\ UNCHANGED artifactVars
       [] SourcesBound(p) /\ verdict = "not_equivalent" ->
            Report(p, "unresolved") /\ UNCHANGED artifactVars
       [] OTHER ->
            IF Artifacts!Absent("canonical", CanonicalId(p))
            THEN /\ Goto(p, "prove", "proving")
                 /\ Artifacts!Publish(p, "canonical", CanonicalId(p), verdict, Source(p) + 1)
                 /\ UNCHANGED verification
            ELSE IF Artifacts!Same("canonical", CanonicalId(p), verdict, Source(p) + 1)
            THEN Goto(p, "prove", "proved") /\ UNCHANGED <<artifactVars, verification>>
            ELSE Report(p, "operational_failure") /\ UNCHANGED artifactVars
  /\ UNCHANGED <<storeVars, request, run, receipt, author, lapses>>

\* The kernel or the geometry behind it breaks.
ProveFails(p) ==
  /\ pc[p] = "prove" /\ Lapse
  /\ Report(p, "operational_failure")
  /\ UNCHANGED <<storeVars, artifactVars, request, run, receipt, kernel, author>>

\* What the proof comes to.
Conclusion(verdict) ==
  CASE verdict = "verified_clear" -> "verified"
    [] verdict = "collision_witness" -> "engineering_violation"
    [] verdict = "not_proven" -> "unresolved"

Proved(p) ==
  /\ pc[p] = "proved"
  /\ IF ~ Artifacts!InProject(CanonicalId(p)) THEN Report(p, "integrity_failure")
     ELSE IF Conclusion(kernel[p]) # "verified" THEN Report(p, Conclusion(kernel[p]))
     ELSE Goto(p, "proved", "locate") /\ UNCHANGED verification
  /\ UNCHANGED <<storeVars, artifactVars, request, run, receipt, kernel, author, lapses>>

\* publish_promotion_chain_locator: the root from which the chain of records is
\* found after a restart, published only of what is verified.
Locate(p) ==
  /\ pc[p] = "locate"
  /\ IF ~ ResultStands(p)
     THEN Report(p, "integrity_failure") /\ UNCHANGED artifactVars
     ELSE IF Artifacts!Absent(p, "locator")
     THEN /\ Goto(p, "locate", "locating")
          /\ Artifacts!Publish(p, p, "locator", request[p], Source(p) + 1)
          /\ UNCHANGED verification
     ELSE IF Artifacts!Same(p, "locator", request[p], Source(p) + 1)
     THEN Goto(p, "locate", "located") /\ UNCHANGED <<artifactVars, verification>>
     ELSE Report(p, "operational_failure") /\ UNCHANGED artifactVars
  /\ UNCHANGED <<storeVars, request, run, receipt, kernel, author, lapses>>

Located(p) ==
  /\ pc[p] = "located"
  /\ Report(p, IF Artifacts!Verified(p, "locator") THEN "verified" ELSE "integrity_failure")
  /\ UNCHANGED <<storeVars, artifactVars, request, run, receipt, kernel, author, lapses>>

\* The second version proves as the first one does and publishes nothing, no locator
\* either; where the first reports that something is amiss, it raises.
VerifyV2(p, verdict) ==
  /\ pc[p] = "done" /\ Route(p) = "single2"
  /\ receipt[p].status = "promotion_applied" /\ ResultStands(p)
  /\ verdict # "not_equivalent" /\ kernel[p] \in {None, verdict}
  /\ kernel' = [kernel EXCEPT ![p] = verdict]
  /\ Report(p, Conclusion(verdict))
  /\ UNCHANGED <<storeVars, artifactVars, request, run, receipt, author, lapses>>

-----------------------------------------------------------------------------
(* Publishing, and what breaks it *)

WriteContent(p) ==
  /\ Artifacts!WriteContent(p)
  /\ UNCHANGED <<storeVars, local, pc, author, lapses>>

Written(step) ==
  CASE step = "deciding" -> "decided" [] step = "resulting" -> "resulted"
    [] step = "proving" -> "proved" [] step = "locating" -> "located"

WriteMetadata(p) ==
  /\ Artifacts!WriteMetadata(p)
  /\ Goto(p, pc[p], Written(pc[p]))
  /\ UNCHANGED <<storeVars, local, author, lapses>>

\* A write raises; what was written stays.
PublishFails(p) ==
  /\ Artifacts!GiveUp(p) /\ Lapse
  /\ CASE pc[p] = "deciding" ->
            Fail(p, "pre_apply_failure", FALSE) /\ UNCHANGED verification
       [] pc[p] = "resulting" ->
            Return(p, "result_provenance_failed", TRUE, FALSE) /\ UNCHANGED verification
       [] OTHER -> Report(p, "operational_failure") /\ UNCHANGED receipt
  /\ UNCHANGED <<storeVars, request, run, kernel, author>>

\* The process dies.  A verification can be called again with the receipt.
Crash(p) ==
  /\ pc[p] \in PromoteSteps \cup VerifySteps /\ Lapse
  /\ IF pc[p] \in PromoteSteps THEN Die(p) ELSE Goto(p, pc[p], "done") /\ UNCHANGED receipt
  /\ IF pending[p] # None THEN Store!Abandon(p) ELSE UNCHANGED storeVars
  /\ IF publishing[p] # None THEN Artifacts!GiveUp(p) ELSE UNCHANGED artifactVars
  /\ UNCHANGED <<request, run, kernel, verification, author>>

\* Another run commits.  Nothing here reads its record, which stays to be written.
OtherRun(w, paths) ==
  /\ Store!Commit(w, paths)
  /\ author' = Append(author, w)
  /\ UNCHANGED <<artifactVars, local, pc, lapses>>

Damage(s, i) ==
  /\ Artifacts!Damage(s, i)
  /\ UNCHANGED <<storeVars, local, pc, author>>

Republish(s, i) ==
  /\ Artifacts!Republish(s, "other", i, Store!current)
  /\ UNCHANGED <<storeVars, local, pc, author>>

-----------------------------------------------------------------------------
Next ==
  \/ \E p \in Promoters :
       \/ PreflightSingle(p) \/ PreflightSingleV2(p) \/ Recheck(p)
       \/ PreflightMulti(p) \/ PreflightMultiV2(p)
       \/ CreateRun(p) \/ CreateRunFails(p) \/ Decide(p) \/ Decided(p)
       \/ Apply(p) \/ ApplyBreaks(p) \/ Save(p) \/ SaveFails(p)
       \/ Invalidate(p) \/ InvalidateFails(p) \/ Confirm(p) \/ ConfirmFails(p)
       \/ PublishResult(p) \/ Conclude(p) \/ FailRun(p) \/ FailRunRaises(p)
       \/ Verify(p) \/ Proved(p) \/ Locate(p) \/ Located(p)
       \/ \E verdict \in Kernels : Prove(p, verdict) \/ VerifyV2(p, verdict)
       \/ ProveFails(p)
       \/ WriteContent(p) \/ WriteMetadata(p) \/ PublishFails(p) \/ Crash(p)
  \/ \E w \in Others, paths \in ChangeSets : OtherRun(w, paths)
  \/ Lapse /\ \E s \in Scopes, i \in Ids : Damage(s, i) \/ Republish(s, i)

Spec == Init /\ [][Next]_vars

-----------------------------------------------------------------------------
(* Properties *)

TypeOK ==
  /\ request \in [Promoters -> DOMAIN Requests]
  /\ pc \in [Promoters -> PromoteSteps \cup VerifySteps \cup {"done", "dead"}]
  /\ run \in [Promoters -> RunStates \cup {None}]
  /\ receipt \in [Promoters -> Receipts \cup {None}]
  /\ kernel \in [Promoters -> Kernels \cup {None}]
  /\ verification \in [Promoters -> Reports \cup {None}]
  /\ content \in [Scopes -> [Ids -> Bytes \cup {Garbled, None}]]
  /\ metadata \in [Scopes -> [Ids -> Stamps \cup {None}]]
  /\ publishing \in [Promoters -> Writes \cup {None}]
  /\ author \in Seq(Promoters \cup Others \cup {None}) /\ Len(author) = Store!current
  /\ lapses \in 0 .. MaxLapses

Own(p) == {r \in 1 .. Store!current : author[r] = p}

\* A receipt says truly whether canonical state changed, whichever write failed on
\* the way: one that says it did names the revision this promotion made, one that
\* says it did not made none, and a run is failed only if it changed nothing, even
\* where the caller never got a receipt (promotion.py:2713-2790, 3764-3767).
ReceiptIsTrue ==
  \A p \in Promoters :
    /\ receipt[p] # None =>
         Own(p) = IF receipt[p].status \in Applied THEN {receipt[p].applied} ELSE {}
    /\ run[p] # None /\ run[p].status = "failed" => Own(p) = {}

\* A promotion changes the state it was reviewed on and no other: what it commits is
\* its mechanism, directly on the source revision, and a mechanism is promoted once,
\* whatever commits in between and however often the same request is made
\* (promotion.py:2740-2790; runs/controller.py:179-191; changes/engine.py:145-151).
AppliedAsReviewed ==
  /\ \A p \in Promoters : \A r \in Own(p) :
       r = Source(p) + 1 /\ changes[r] = {PathOf[Req(p).target]}
  /\ \A p, q \in Promoters :
       p # q /\ Req(p).target = Req(q).target => Own(p) = {} \/ Own(q) = {}

\* No mechanism enters the state without a decision that was on disk before it, in
\* the run that promotes, bound to the source: not after a crash, a failed write or
\* another attempt (promotion.py:2692-2741; promotion_artifacts.py:782-812).
DecisionPrecedesCommit ==
  \A p \in Promoters :
    Own(p) # {} =>
      /\ metadata[p][request[p]] = [bytes |-> request[p], bound |-> Source(p)]
      /\ content[p][request[p]] # None

\* What a result says of a run is so: the revision is canonical, its invalidation is
\* recorded, and the run has moved to it and was not blocked
\* (promotion.py:2791-2840; promotion_artifacts.py:1479-1641).
ResultIsLast ==
  \A p \in Promoters :
    metadata[p]["result"] # None =>
      /\ Own(p) = {metadata[p]["result"].bound}
      /\ records[metadata[p]["result"].bound] # None
      /\ run[p] = [base |-> Source(p), active |-> Source(p) + 1, status |-> "created"]

\* A request that gets as far as a run is about one candidate of its source
\* revision, and its evaluation says of that candidate what the route promotes on:
\* for one joint that it is feasible and its drive admissible, for several joints
\* that the evaluation selected is the one of this motion; the drive is then vouched
\* for by the first version only (promotion.py:371-468, 5130-5193, 5493-5540).
AcceptedIsCoherent ==
  \A p \in Promoters :
    LET r == Req(p)
    IN pc[p] = "decide" =>
         /\ SourceOf(r.candidate) = r.source
         /\ Route(p) \in {"single", "single2"} =>
              /\ r.evaluation.candidate = r.candidate /\ r.evaluation.outcome = "feasible"
              /\ r.selection.candidate = r.candidate /\ r.selection.evaluation = r.evaluation
         /\ Route(p) \in {"multi", "multi2"} =>
              /\ r.mrequest.candidate = r.candidate /\ r.mevaluation.request = r.mrequest
              /\ r.mselection.evaluation = r.mevaluation
         /\ Route(p) # "multi2" =>
              r.m12.candidate = r.candidate /\ r.m12.status = "admissible"

\* What is verified was promoted, and proved clear as it was promoted: a locator, the
\* root a restart begins from, is never there for anything else, also when the
\* verification is repeated or dies half way (promotion.py:4149-4799;
\* provenance_artifacts.py:3269-3428).
LocatorMeansProved ==
  \A p \in Promoters :
    verification[p] = "verified" \/ metadata[p]["locator"] # None =>
      /\ kernel[p] = "verified_clear"
      /\ receipt[p].status = "promotion_applied" /\ receipt[p].applied \in Own(p)
      /\ metadata[p]["result"] # None /\ records[receipt[p].applied] # None

\* resolve_promotion_chain_from_root: decision, result, selection and proof are found
\* again from the locator alone.  A decision is looked for in the whole project.
ChainFromRoot(p) ==
  /\ Artifacts!Verified(p, "locator")
  /\ Artifacts!InProject(request[p])
  /\ Artifacts!Verified(p, "result")
  /\ SelectionResolves(Req(p), State)
  /\ Artifacts!InProject(CanonicalId(p))

\* As long as no file is damaged or copied, the chain of a verified promotion of the
\* first single-joint route is found from its locator (the second version publishes
\* none), unless the same request was decided in another run too: both decisions
\* have one id, and then the chain is not found (provenance_artifacts.py:3107-3150,
\* 3524-3599).
VerifiedIsFound ==
  \A p \in Promoters :
    Route(p) = "single" /\ verification[p] = "verified" =>
      \/ ChainFromRoot(p)
      \/ \E q \in Promoters \ {p} :
           request[q] = request[p] /\ Artifacts!Verified(q, request[p])
      \/ \E s \in Scopes, i \in Ids :
           content[s][i] = Garbled \/ (s = "other" /\ content[s][i] # None)

\* What promotions do to the evidence store and to the artifacts of the project is
\* what the modules of those stores allow: no record is of another revision, no
\* artifact is written over, by a retry or a second verification least of all.
ImplementsEvidenceStore == Store!Spec
ImplementsArtifactStore == Artifacts!Spec
=============================================================================

--------------------------- MODULE PromotionProofs ---------------------------
(***************************************************************************)
(* Theorems about Promotion, for any promoters, requests and publications, *)
(* any other runs of the project, and any number of revisions, damaged or  *)
(* copied files, failed writes and deaths.                                 *)
(***************************************************************************)
EXTENDS Promotion, FiniteSetTheorems, TLAPS

USE DEF Store!vars, storeVars, Artifacts!vars, artifactVars

\* What a promoter does.
Acts(p) ==
  \/ PreflightSingle(p) \/ PreflightSingleV2(p) \/ Recheck(p)
  \/ PreflightMulti(p) \/ PreflightMultiV2(p)
  \/ CreateRun(p) \/ CreateRunFails(p) \/ Decide(p) \/ Decided(p)
  \/ Apply(p) \/ ApplyBreaks(p) \/ Save(p) \/ SaveFails(p)
  \/ Invalidate(p) \/ InvalidateFails(p) \/ Confirm(p) \/ ConfirmFails(p)
  \/ PublishResult(p) \/ Conclude(p) \/ FailRun(p) \/ FailRunRaises(p)
  \/ Verify(p) \/ Proved(p) \/ Locate(p) \/ Located(p)
  \/ \E verdict \in Kernels : Prove(p, verdict) \/ VerifyV2(p, verdict)
  \/ ProveFails(p)
  \/ WriteContent(p) \/ WriteMetadata(p) \/ PublishFails(p) \/ Crash(p)

\* What happens to its files beside it.
Environment == \E s \in Scopes, i \in Ids : Damage(s, i) \/ Republish(s, i)

LEMMA Steps ==
  ASSUME [Next]_vars
  PROVE  \/ \E p \in Promoters : Acts(p)
         \/ \E w \in Others, paths \in ChangeSets : OtherRun(w, paths)
         \/ Environment
         \/ UNCHANGED vars
  BY DEF Next, Acts, Environment

LEMMA Assumed ==
  /\ \A p \in Promoters : p \notin Others \cup {"design", "canonical", "other"}
  /\ \A key \in DOMAIN Requests :
       /\ Requests[key].route \in Routes /\ Requests[key].source \in 1 .. MaxRevision - 1
       /\ {PathOf[Requests[key].target]} \in ChangeSets
       /\ key \notin Sources \cup SelectionIds \cup CanonicalIds \cup {"result", "locator"}
  /\ MaxLapses \in Nat /\ MaxRevision \in Nat
  BY PromotionAssumption, StoreAssumption

LEMMA RequestFixed == [Next]_vars => request' = request
<1>1. ASSUME NEW p \in Promoters, Acts(p) PROVE request' = request
  BY <1>1 DEF Acts, local, Examine, PreflightSingle, PreflightSingleV2, Recheck,
       PreflightMulti, PreflightMultiV2, CreateRun, CreateRunFails, Decide, Decided, Apply,
       ApplyBreaks, Save, SaveFails, Invalidate, InvalidateFails, Confirm, ConfirmFails,
       PublishResult, Conclude, FailRun, FailRunRaises, Verify, Proved, Locate, Located,
       Prove, VerifyV2, ProveFails, WriteContent, WriteMetadata, PublishFails, Crash
<1> QED  BY <1>1, Steps DEF OtherRun, Environment, Damage, Republish, local, vars

LEMMA RequestInvariant == Spec => [](request \in [Promoters -> DOMAIN Requests])
<1>1. Init => request \in [Promoters -> DOMAIN Requests]
  BY PromotionAssumption DEF Init
<1>2. request \in [Promoters -> DOMAIN Requests] /\ [Next]_vars
        => (request \in [Promoters -> DOMAIN Requests])'
  BY RequestFixed
<1> QED  BY <1>1, <1>2, PTL DEF Spec

-----------------------------------------------------------------------------
(* The evidence store *)

LEMMA WriterStep ==
  ASSUME NEW w \in Promoters \cup Others,
         \/ \E paths \in ChangeSets : Store!Commit(w, paths)
         \/ Store!RecordInvalidation(w)
         \/ Store!Abandon(w)
  PROVE  Store!Next
  BY DEF Store!Next

LEMMA StoreMoves ==
  ASSUME NEW p \in Promoters, Acts(p)
  PROVE  \/ UNCHANGED <<storeVars, author>>
         \/ /\ Store!Commit(p, {PathOf[Req(p).target]}) /\ author' = Append(author, p)
            /\ Apply(p)
         \/ Store!RecordInvalidation(p) /\ UNCHANGED author /\ Invalidate(p)
         \/ /\ Store!Abandon(p) /\ UNCHANGED author
            /\ SaveFails(p) \/ InvalidateFails(p) \/ Crash(p)
<1>1. CASE \/ PreflightSingle(p) \/ PreflightSingleV2(p) \/ Recheck(p)
           \/ PreflightMulti(p) \/ PreflightMultiV2(p)
           \/ CreateRun(p) \/ CreateRunFails(p) \/ Decide(p) \/ Decided(p)
           \/ ApplyBreaks(p) \/ Save(p) \/ Confirm(p) \/ ConfirmFails(p)
           \/ PublishResult(p) \/ Conclude(p) \/ FailRun(p) \/ FailRunRaises(p)
           \/ Verify(p) \/ Proved(p) \/ Locate(p) \/ Located(p)
           \/ \E verdict \in Kernels : Prove(p, verdict) \/ VerifyV2(p, verdict)
           \/ ProveFails(p) \/ WriteContent(p) \/ WriteMetadata(p) \/ PublishFails(p)
  BY <1>1 DEF Examine, PreflightSingle, PreflightSingleV2, Recheck, PreflightMulti,
     PreflightMultiV2, CreateRun, CreateRunFails, Decide, Decided, ApplyBreaks, Save,
     Confirm, ConfirmFails, PublishResult, Conclude, FailRun, FailRunRaises, Verify,
     Proved, Locate, Located, Prove, VerifyV2, ProveFails, WriteContent, WriteMetadata,
     PublishFails
<1>2. CASE Apply(p) \/ Invalidate(p)
  BY <1>2 DEF Apply, Invalidate
<1>3. CASE SaveFails(p) \/ InvalidateFails(p) \/ Crash(p)
  BY <1>3 DEF SaveFails, InvalidateFails, Crash
<1> QED  BY <1>1, <1>2, <1>3 DEF Acts

LEMMA StoreStep ==
  ASSUME request \in [Promoters -> DOMAIN Requests], [Next]_vars
  PROVE  [Store!Next]_(Store!vars)
<1>1. CASE UNCHANGED vars
  BY <1>1 DEF vars
<1>2. ASSUME NEW w \in Others, NEW paths \in ChangeSets, OtherRun(w, paths)
      PROVE  Store!Next
  BY <1>2, WriterStep DEF OtherRun
<1>3. CASE Environment
  BY <1>3 DEF Environment, Damage, Republish
<1>4. ASSUME NEW p \in Promoters, Acts(p) PROVE Store!Next \/ UNCHANGED Store!vars
  <2>1. {PathOf[Req(p).target]} \in ChangeSets
    BY Assumed DEF Req
  <2> QED  BY <1>4, <2>1, StoreMoves, WriterStep
<1> QED  BY <1>1, <1>2, <1>3, <1>4, Steps

\* Whatever promoters and other runs do, the evidence store sees only what its own
\* module allows: every commit of a promotion is a proposal applied by one writer,
\* and its record, when it is written, is that of the revision it committed
\* (promotion.py:2740-2790; runs/controller.py:173-217).
THEOREM PromotionComposition == Spec => ImplementsEvidenceStore
<1>1. Init => Store!Init
  BY DEF Init
<1>2. request \in [Promoters -> DOMAIN Requests] /\ [Next]_vars => [Store!Next]_(Store!vars)
  BY StoreStep
<1> QED
  BY <1>1, <1>2, RequestInvariant, PTL DEF Spec, ImplementsEvidenceStore, Store!Spec

-----------------------------------------------------------------------------
(* The invariant of the store, in terms of this module. *)

SP == INSTANCE EvidenceStoreProofs WITH
  Writers <- Promoters \cup Others, Queries <- {}, EvidenceIds <- {},
  Producers <- {}, writing <- [p \in {} |-> None]

LEMMA SameNodes == SP!Nodes = Store!Nodes
  BY DEF SP!Nodes, Store!Nodes

LEMMA SameRevisions == SP!Revisions = Store!Revisions
  BY DEF SP!Revisions, Store!Revisions

LEMMA SameEvidence == SP!Evidence = Store!Evidence
  BY SameNodes, SameRevisions DEF SP!Evidence, Store!Evidence

LEMMA SameImpact ==
  ASSUME NEW paths
  PROVE  SP!Impact(paths) = Store!Impact(paths)
  BY SameNodes DEF SP!Impact, Store!Impact, SP!Downstream, Store!Downstream, SP!Closed,
       Store!Closed, SP!Direct, Store!Direct, SP!PathMatches, Store!PathMatches

LEMMA StoreAssumptionHolds == SP!StoreAssumption
  BY StoreAssumption, SameNodes DEF Store!Revisions

LEMMA EvidenceAssumptionHolds == SP!EvidenceAssumption
  BY StoreAssumption, SameEvidence DEF SP!Writes, Store!Writes

LEMMA SameQuestion == SP!Question = Store!Question
  BY SameEvidence, SameRevisions DEF SP!Question, Store!Question, SP!Verdicts,
       Store!Verdicts

LEMMA QuestionAssumptionHolds == SP!QuestionAssumption
  BY StoreAssumption, SameQuestion DEF SP!Verdicts, Store!Verdicts

HistoryInv ==
  /\ changes \in Seq(ChangeSets \cup {{}}) /\ Len(changes) \in Store!Revisions
  /\ records \in [Store!Revisions -> (SUBSET Store!Nodes) \cup {None}]
  /\ pending \in [Promoters \cup Others -> Store!Revisions \cup {None}]
  /\ \A w \in Promoters \cup Others : pending[w] # None => pending[w] \in 2 .. Len(changes)

LEMMA HistoryInvariant == Spec => []HistoryInv
<1>1. Spec => SP!Spec
  <2>1. Init => SP!Init
    BY DEF Init, Store!Init, SP!Init, Store!Revisions, SP!Revisions
  <2>2. request \in [Promoters -> DOMAIN Requests] /\ [Next]_vars => [SP!Next]_(SP!vars)
    <3>1. \A w \in Promoters \cup Others :
            /\ \A paths \in ChangeSets : Store!Commit(w, paths) => SP!Commit(w, paths)
            /\ Store!RecordInvalidation(w) => SP!RecordInvalidation(w)
            /\ Store!Abandon(w) => SP!Abandon(w)
      BY SameImpact DEF Store!Commit, SP!Commit, Store!RecordInvalidation,
           SP!RecordInvalidation, Store!Abandon, SP!Abandon, Store!current, SP!current
    <3> QED  BY <3>1, StoreStep DEF Store!Next, SP!Next, SP!vars
  <2> QED  BY <2>1, <2>2, RequestInvariant, PTL DEF Spec, SP!Spec
<1>2. SP!EvidenceInv => HistoryInv
  BY SameRevisions, SameNodes
     DEF SP!EvidenceInv, SP!TypeOK, SP!RecordsInv, HistoryInv, SP!current
<1> QED
  BY <1>1, <1>2, SP!EvidenceInvariant, StoreAssumptionHolds, EvidenceAssumptionHolds,
     QuestionAssumptionHolds, PTL

-----------------------------------------------------------------------------
(* The artifacts *)

ArtifactsInv ==
  /\ content \in [Scopes -> [Ids -> Bytes \cup {Garbled, None}]]
  /\ metadata \in [Scopes -> [Ids -> Stamps \cup {None}]]
  /\ publishing \in [Promoters -> Writes \cup {None}]

LEMMA PublishStep ==
  ASSUME ArtifactsInv, NEW p \in Promoters, NEW s \in Scopes, NEW i \in Ids,
         NEW bytes \in Bytes, NEW bound \in Store!Revisions,
         Artifacts!Publish(p, s, i, bytes, bound)
  PROVE  ArtifactsInv' /\ Artifacts!Next
<1> DEFINE write == [scope |-> s, id |-> i, bytes |-> bytes, bound |-> bound,
                     step |-> "content"]
<1>1. write \in Writes /\ write # None
  BY ArtifactAssumption DEF Writes
<1>2. publishing[p] = None /\ publishing' = [publishing EXCEPT ![p] = write]
      /\ UNCHANGED <<content, metadata>>
  BY DEF Artifacts!Publish
<1>3. ArtifactsInv' /\ publishing'[p] = write /\ publishing' # publishing
  BY <1>1, <1>2 DEF ArtifactsInv
<1>4. Artifacts!Publish(p, publishing'[p].scope, publishing'[p].id, publishing'[p].bytes,
                        publishing'[p].bound)
  BY <1>3
<1> QED  BY <1>1, <1>2, <1>3, <1>4 DEF Artifacts!Next

LEMMA WriteStep ==
  ASSUME ArtifactsInv, NEW p \in Promoters,
         \/ Artifacts!WriteContent(p) \/ Artifacts!WriteMetadata(p) \/ Artifacts!GiveUp(p)
  PROVE  ArtifactsInv' /\ Artifacts!Next
<1>1. publishing[p] # None /\ publishing[p] \in Writes
  BY DEF ArtifactsInv, Artifacts!WriteContent, Artifacts!WriteMetadata, Artifacts!GiveUp,
     Artifacts!At
<1>2. CASE Artifacts!WriteContent(p)
  <2>1. publishing[p].step = "content" /\ publishing[p].bytes \in Bytes
        /\ [publishing[p] EXCEPT !.step = "metadata"] \in Writes
    BY <1>1, <1>2 DEF Artifacts!WriteContent, Artifacts!At, Writes
  <2>2. publishing'[p].step = "metadata"
    BY <1>1, <1>2 DEF Artifacts!WriteContent, ArtifactsInv, Writes
  <2>3. publishing' # publishing
    BY <2>1, <2>2
  <2>4. ArtifactsInv'
    BY <1>2, <2>1 DEF Artifacts!WriteContent, ArtifactsInv
  <2> QED  BY <1>2, <2>3, <2>4 DEF Artifacts!Next
<1>3. CASE Artifacts!WriteMetadata(p)
  <2>1. [bytes |-> publishing[p].bytes, bound |-> publishing[p].bound] \in Stamps
    BY <1>1 DEF Writes, Stamps
  <2>2. publishing'[p] = None
    BY <1>3 DEF Artifacts!WriteMetadata, ArtifactsInv
  <2>3. ArtifactsInv'
    BY <1>3, <2>1 DEF Artifacts!WriteMetadata, ArtifactsInv
  <2> QED  BY <1>1, <1>3, <2>2, <2>3 DEF Artifacts!Next
<1>4. CASE Artifacts!GiveUp(p)
  <2>1. publishing'[p] = None
    BY <1>4 DEF Artifacts!GiveUp, ArtifactsInv
  <2>2. ArtifactsInv'
    BY <1>4 DEF Artifacts!GiveUp, ArtifactsInv
  <2> QED  BY <1>1, <1>4, <2>1, <2>2 DEF Artifacts!Next
<1> QED  BY <1>2, <1>3, <1>4

LEMMA DamageStep ==
  ASSUME ArtifactsInv, NEW s \in Scopes, NEW i \in Ids, Artifacts!Damage(s, i)
  PROVE  ArtifactsInv' /\ Artifacts!Next
<1>1. content[s][i] \in Bytes
  BY DEF Artifacts!Damage, Artifacts!Verified, ArtifactsInv, Stamps
<1>2. content'[s][i] = Garbled
  BY DEF Artifacts!Damage, ArtifactsInv
<1>3. content'[s][i] # content[s][i]
  BY <1>1, <1>2, ArtifactAssumption
<1>4. ArtifactsInv'
  BY DEF Artifacts!Damage, ArtifactsInv
<1> QED  BY <1>3, <1>4 DEF Artifacts!Next

LEMMA RepublishStep ==
  ASSUME ArtifactsInv, NEW s \in Scopes, NEW t \in Scopes, NEW i \in Ids,
         NEW bound \in Store!Revisions, Artifacts!Republish(s, t, i, bound)
  PROVE  ArtifactsInv' /\ Artifacts!Next
<1> DEFINE stamp == [bytes |-> content[s][i], bound |-> bound]
<1>1. content[s][i] \in Bytes /\ content[t][i] = None
  BY DEF Artifacts!Republish, Artifacts!Verified, Artifacts!Absent, ArtifactsInv, Stamps
<1>2. stamp \in Stamps /\ stamp # None /\ stamp.bound = bound
  BY <1>1, ArtifactAssumption DEF Stamps
<1>3. content'[t][i] = content[s][i] /\ metadata'[t][i] = stamp
  BY DEF Artifacts!Republish, ArtifactsInv
<1>4. content'[t][i] # content[t][i]
  BY <1>1, <1>3, ArtifactAssumption
<1>5. metadata'[t][i] # None /\ Artifacts!Republish(s, t, i, metadata'[t][i].bound)
  BY <1>2, <1>3
<1>6. ArtifactsInv'
  BY <1>1, <1>2 DEF Artifacts!Republish, ArtifactsInv
<1> QED  BY <1>4, <1>5, <1>6 DEF Artifacts!Next

\* What every promoter may publish has its type.
LEMMA Publishable ==
  ASSUME request \in [Promoters -> DOMAIN Requests], NEW p \in Promoters
  PROVE  /\ p \in Scopes /\ "canonical" \in Scopes /\ "other" \in Scopes
         /\ request[p] \in Ids /\ request[p] \in Bytes /\ Kernels \subseteq Bytes
         /\ {"result", "locator", CanonicalId(p)} \subseteq Ids
         /\ CanonicalId(p) \in CanonicalIds
         /\ request[p] \notin {"result", "locator"}
         /\ Source(p) \in Store!Revisions /\ Source(p) + 1 \in Store!Revisions
         /\ Source(p) \in Nat
<1>1. Requests[request[p]].source \in 1 .. MaxRevision - 1
      /\ request[p] \notin {"result", "locator"} /\ MaxRevision \in Nat
  BY Assumed
<1> QED  BY <1>1 DEF Scopes, Ids, Bytes, Source, Req, CanonicalId, CanonicalIds, Store!Revisions

LEMMA ArtifactMoves ==
  ASSUME NEW p \in Promoters, Acts(p)
  PROVE  \/ UNCHANGED artifactVars
         \/ Artifacts!Publish(p, p, request[p], request[p], Source(p)) /\ Decide(p)
         \/ Artifacts!Publish(p, p, "result", request[p], Source(p) + 1) /\ PublishResult(p)
         \/ Artifacts!Publish(p, p, "locator", request[p], Source(p) + 1) /\ Locate(p)
         \/ \E verdict \in Kernels :
              /\ Artifacts!Publish(p, "canonical", CanonicalId(p), verdict, Source(p) + 1)
              /\ Prove(p, verdict)
         \/ Artifacts!WriteContent(p) /\ WriteContent(p)
         \/ Artifacts!WriteMetadata(p) /\ WriteMetadata(p)
         \/ Artifacts!GiveUp(p) /\ (PublishFails(p) \/ Crash(p))
<1>1. CASE \/ PreflightSingle(p) \/ PreflightSingleV2(p) \/ Recheck(p)
           \/ PreflightMulti(p) \/ PreflightMultiV2(p)
           \/ CreateRun(p) \/ CreateRunFails(p) \/ Decided(p)
           \/ Apply(p) \/ ApplyBreaks(p) \/ Save(p) \/ SaveFails(p)
           \/ Invalidate(p) \/ InvalidateFails(p) \/ Confirm(p) \/ ConfirmFails(p)
           \/ Conclude(p) \/ FailRun(p) \/ FailRunRaises(p)
           \/ Verify(p) \/ Proved(p) \/ Located(p) \/ ProveFails(p)
           \/ \E verdict \in Kernels : VerifyV2(p, verdict)
  BY <1>1 DEF Examine, PreflightSingle, PreflightSingleV2, Recheck, PreflightMulti,
     PreflightMultiV2, CreateRun, CreateRunFails, Decided, Apply, ApplyBreaks, Save,
     SaveFails, Invalidate, InvalidateFails, Confirm, ConfirmFails, Conclude, FailRun,
     FailRunRaises, Verify, Proved, Located, VerifyV2, ProveFails
<1>2. CASE Decide(p) \/ PublishResult(p) \/ Locate(p)
  BY <1>2 DEF Decide, PublishResult, Locate
<1>3. CASE \E verdict \in Kernels : Prove(p, verdict)
  BY <1>3 DEF Prove
<1>4. CASE WriteContent(p) \/ WriteMetadata(p) \/ PublishFails(p) \/ Crash(p)
  BY <1>4 DEF WriteContent, WriteMetadata, PublishFails, Crash
<1> QED  BY <1>1, <1>2, <1>3, <1>4 DEF Acts

LEMMA ArtifactsStep ==
  ASSUME request \in [Promoters -> DOMAIN Requests], HistoryInv, ArtifactsInv, [Next]_vars
  PROVE  ArtifactsInv' /\ [Artifacts!Next]_(Artifacts!vars)
<1>1. ASSUME UNCHANGED artifactVars PROVE ArtifactsInv'
  BY <1>1 DEF ArtifactsInv
<1>2. ASSUME NEW p \in Promoters, Acts(p)
      PROVE  ArtifactsInv' /\ [Artifacts!Next]_(Artifacts!vars)
  <2>1. CASE UNCHANGED artifactVars
    BY <1>1, <2>1
  <2>2. CASE \E i \in Ids, bound \in Store!Revisions :
               Artifacts!Publish(p, p, i, request[p], bound)
    BY <2>2, PublishStep, Publishable
  <2>3. CASE \E verdict \in Kernels :
               Artifacts!Publish(p, "canonical", CanonicalId(p), verdict, Source(p) + 1)
    BY <2>3, PublishStep, Publishable
  <2>4. CASE Artifacts!WriteContent(p) \/ Artifacts!WriteMetadata(p) \/ Artifacts!GiveUp(p)
    BY <2>4, WriteStep
  <2> QED  BY <1>2, <2>1, <2>2, <2>3, <2>4, ArtifactMoves, Publishable
<1>3. CASE Environment
  <2>1. ASSUME NEW s \in Scopes, NEW i \in Ids, Damage(s, i)
        PROVE  ArtifactsInv' /\ Artifacts!Next
    BY <2>1, DamageStep DEF Damage
  <2>2. ASSUME NEW s \in Scopes, NEW i \in Ids, Republish(s, i)
        PROVE  ArtifactsInv' /\ Artifacts!Next
    <3>1. Artifacts!Republish(s, "other", i, Len(changes)) /\ Len(changes) \in Store!Revisions
          /\ "other" \in Scopes
      BY <2>2 DEF Republish, Store!current, HistoryInv, Scopes
    <3> QED  BY <3>1, RepublishStep
  <2> QED  BY <1>3, <2>1, <2>2 DEF Environment
<1>4. CASE UNCHANGED vars \/ \E w \in Others, paths \in ChangeSets : OtherRun(w, paths)
  BY <1>1, <1>4 DEF vars, OtherRun
<1> QED  BY <1>2, <1>3, <1>4, Steps

LEMMA InitArtifacts == Init => ArtifactsInv
<1> SUFFICES ASSUME Init PROVE ArtifactsInv
  OBVIOUS
<1>1. Published \in [Scopes -> [Ids -> Stamps \cup {None}]]
  BY ArtifactAssumption
<1>2. ASSUME NEW s \in Scopes, NEW i \in Ids
      PROVE  (IF Published[s][i] = None THEN None ELSE Published[s][i].bytes)
               \in Bytes \cup {Garbled, None}
  BY <1>1 DEF Stamps
<1> QED  BY <1>1, <1>2 DEF Init, Artifacts!Init, ArtifactsInv

LEMMA ArtifactsInvariant == Spec => []ArtifactsInv
<1>1. request \in [Promoters -> DOMAIN Requests] /\ HistoryInv /\ ArtifactsInv /\ [Next]_vars
        => ArtifactsInv'
  BY ArtifactsStep
<1> QED
  BY <1>1, InitArtifacts, RequestInvariant, HistoryInvariant, PTL DEF Spec

\* Nor is an artifact of the project written over by a retry, a duplicate or a second
\* verification: promoters publish only what is absent, and go on from what is the
\* same (artifacts/storage.py:43-76; promotion_artifacts.py:710-812, 1479-1641;
\* provenance_artifacts.py:3269-3428).
THEOREM ArtifactComposition == Spec => ImplementsArtifactStore
<1>1. Init => Artifacts!Init
  BY DEF Init
<1>2. request \in [Promoters -> DOMAIN Requests] /\ HistoryInv /\ ArtifactsInv /\ [Next]_vars
        => [Artifacts!Next]_(Artifacts!vars)
  BY ArtifactsStep
<1> QED
  BY <1>1, <1>2, RequestInvariant, HistoryInvariant, ArtifactsInvariant, PTL
     DEF Spec, ImplementsArtifactStore, Artifacts!Spec

-----------------------------------------------------------------------------
(* Where a promoter is, and what it then has: a run, a receipt, a commit whose *)
(* record is to be written, a publication under way.                           *)

Untried == {"preflight", "recheck", "create"}
Deciding == {"decide", "deciding", "decided"}
Concluding == {"invalidate", "confirm", "result", "resulting", "resulted"}

Created(p) == [base |-> Source(p), active |-> Source(p), status |-> "created"]
Moved(p) == [base |-> Source(p), active |-> Source(p) + 1, status |-> "created"]

RunInv(p) ==
  /\ pc[p] \in Untried => run[p] = None
  /\ pc[p] \in Deciding \cup {"apply", "save", "fail"} => run[p] = Created(p)
  /\ pc[p] \in Concluding => run[p] = Moved(p)

ReceiptInv(p) ==
  /\ receipt[p] # None <=> pc[p] \in {"fail", "done"} \cup VerifySteps
  /\ receipt[p] # None =>
       receipt[p].applied = IF receipt[p].status \in Applied THEN Source(p) + 1 ELSE None
  /\ pc[p] = "fail" => receipt[p].status \notin Applied

Writing(p, s, i, bytes, bound) ==
  /\ publishing[p].scope = s /\ publishing[p].id = i
  /\ publishing[p].bytes = bytes /\ publishing[p].bound = bound

PublishInv(p) ==
  /\ publishing[p] # None <=> pc[p] \in {"deciding", "resulting", "proving", "locating"}
  /\ pc[p] = "deciding" => Writing(p, p, request[p], request[p], Source(p))
  /\ pc[p] = "resulting" => Writing(p, p, "result", request[p], Source(p) + 1)
  /\ pc[p] = "proving" =>
       publishing[p].scope = "canonical" /\ publishing[p].id = CanonicalId(p)
  /\ pc[p] = "locating" => Writing(p, p, "locator", request[p], Source(p) + 1)

PendingInv(p) == pending[p] # None <=> pc[p] \in {"save", "invalidate"}

\* A mechanism is examined by one verdict, and located only if that was clear.
ProofInv(p) ==
  /\ pc[p] \in {"proving", "proved"} => kernel[p] \in Kernels \ {"not_equivalent"}
  /\ pc[p] \in {"locate", "locating", "located"} => kernel[p] = "verified_clear"

StepInv(p) == RunInv(p) /\ ReceiptInv(p) /\ PublishInv(p) /\ PendingInv(p) /\ ProofInv(p)

BaseInv == TypeOK /\ \A p \in Promoters : StepInv(p)

LEMMA InitBase == Init => BaseInv
<1> SUFFICES ASSUME Init PROVE BaseInv
  OBVIOUS
<1>1. Len(changes) = 1 /\ None \notin {}
  BY DEF Init, Store!Init
<1>2. TypeOK
  <2>1. request \in [Promoters -> DOMAIN Requests] /\ lapses \in 0 .. MaxLapses
    BY PromotionAssumption DEF Init
  <2>2. author \in Seq(Promoters \cup Others \cup {None}) /\ Len(author) = Store!current
    BY <1>1 DEF Init, Store!current
  <2> QED  BY <2>1, <2>2, InitArtifacts DEF TypeOK, Init, ArtifactsInv, PromoteSteps
<1>3. ASSUME NEW p \in Promoters PROVE StepInv(p)
  BY DEF StepInv, RunInv, ReceiptInv, PublishInv, PendingInv, ProofInv, Init, Store!Init, Artifacts!Init,
     Untried, Deciding, Concluding, VerifySteps
<1> QED  BY <1>2, <1>3 DEF BaseInv

-----------------------------------------------------------------------------
(* Types *)

AllSteps == PromoteSteps \cup VerifySteps \cup {"done", "dead"}

LocalTyped ==
  /\ request \in [Promoters -> DOMAIN Requests]
  /\ pc \in [Promoters -> AllSteps]
  /\ run \in [Promoters -> RunStates \cup {None}]
  /\ receipt \in [Promoters -> Receipts \cup {None}]
  /\ kernel \in [Promoters -> Kernels \cup {None}]
  /\ verification \in [Promoters -> Reports \cup {None}]

LogTyped ==
  author \in Seq(Promoters \cup Others \cup {None}) /\ Len(author) = Store!current

LEMMA TypeParts ==
  /\ TypeOK <=> LocalTyped /\ ArtifactsInv /\ LogTyped /\ lapses \in 0 .. MaxLapses
  /\ TypeOK' <=> LocalTyped' /\ ArtifactsInv' /\ LogTyped' /\ lapses' \in 0 .. MaxLapses
  BY DEF TypeOK, LocalTyped, ArtifactsInv, LogTyped, AllSteps

LEMMA RunTypes ==
  ASSUME LocalTyped, NEW p \in Promoters, StepInv(p)
  PROVE  /\ Created(p) \in RunStates /\ Moved(p) \in RunStates
         /\ pc[p] \in Deciding \cup Concluding \cup {"apply", "save", "fail"} =>
              /\ run[p] \in RunStates /\ Failed(p) \in RunStates
              /\ Blocked(p) \in RunStates /\ Advanced(p) \in RunStates
<1>1. Source(p) \in Store!Revisions /\ Source(p) + 1 \in Store!Revisions
  BY Publishable DEF LocalTyped
<1>2. Created(p) \in RunStates /\ Moved(p) \in RunStates
  BY <1>1 DEF Created, Moved, RunStates
<1>3. pc[p] \in Deciding \cup Concluding \cup {"apply", "save", "fail"} =>
        run[p] = Created(p) \/ run[p] = Moved(p)
  BY DEF StepInv, RunInv
<1>4. ASSUME NEW state \in RunStates
      PROVE  /\ [state EXCEPT !.status = "failed"] \in RunStates
             /\ [state EXCEPT !.status = "blocked"] \in RunStates
             /\ [state EXCEPT !.active = Source(p) + 1] \in RunStates
  BY <1>1 DEF RunStates
<1> QED  BY <1>2, <1>3, <1>4 DEF Failed, Blocked, Advanced

\* A receipt says of what status it is, and what it applied.
LEMMA ReceiptType ==
  ASSUME LocalTyped, NEW p \in Promoters, NEW status \in Statuses,
         NEW decision \in BOOLEAN, NEW result \in BOOLEAN
  PROVE  /\ Receipt(p, status, decision, result) \in Receipts
         /\ Receipt(p, status, decision, result) # None
         /\ Receipt(p, status, decision, result).status = status
         /\ Receipt(p, status, decision, result).applied
              = IF status \in Applied THEN Source(p) + 1 ELSE None
<1>1. Source(p) + 1 \in Store!Revisions
  BY Publishable DEF LocalTyped
<1>2. Receipt(p, status, decision, result) \in Receipts
  BY <1>1 DEF Receipt, Receipts
<1> QED  BY <1>2, StoreAssumption DEF Receipt

LEMMA StatusNames ==
  /\ {"promotion_applied", "run_transition_failed", "invalidation_persistence_failed",
      "invalidation_verification_failed", "result_provenance_failed"} = Applied
  /\ {"pre_apply_failure", "changeengine_rejected"} \cup Applied = Statuses
  /\ {"pre_apply_failure", "changeengine_rejected"} \cap Applied = {}
  BY DEF Statuses, Applied

\* What a call returns, or fails its run with, and where it is then.
Ends(p, status, to) ==
  /\ pc' = [pc EXCEPT ![p] = to]
  /\ receipt' \in [Promoters -> Receipts \cup {None}]
  /\ \A q \in Promoters \ {p} : receipt'[q] = receipt[q]
  /\ receipt'[p] # None /\ receipt'[p].status = status
  /\ receipt'[p].applied = IF status \in Applied THEN Source(p) + 1 ELSE None

LEMMA Endings ==
  ASSUME LocalTyped, NEW p \in Promoters, NEW status \in Statuses,
         NEW decision \in BOOLEAN, NEW result \in BOOLEAN
  PROVE  /\ Return(p, status, decision, result) => Ends(p, status, "done")
         /\ Fail(p, status, decision) => Ends(p, status, "fail")
<1>1. ASSUME NEW new \in Receipts, new # None, new.status = status,
             new.applied = IF status \in Applied THEN Source(p) + 1 ELSE None,
             receipt' = [receipt EXCEPT ![p] = new],
             NEW to, pc' = [pc EXCEPT ![p] = to]
      PROVE  Ends(p, status, to)
  BY <1>1 DEF LocalTyped, Ends
<1>2. ASSUME Return(p, status, decision, result) PROVE Ends(p, status, "done")
  <2>1. PICK new : new = Receipt(p, status, decision, result)
    OBVIOUS
  <2>2. /\ new \in Receipts /\ new # None /\ new.status = status
        /\ new.applied = IF status \in Applied THEN Source(p) + 1 ELSE None
    BY <2>1, ReceiptType
  <2>3. receipt' = [receipt EXCEPT ![p] = new] /\ pc' = [pc EXCEPT ![p] = "done"]
    BY <1>2, <2>1 DEF Return
  <2> QED  BY <1>1, <2>2, <2>3
<1>3. ASSUME Fail(p, status, decision) PROVE Ends(p, status, "fail")
  <2>1. PICK new : new = Receipt(p, status, decision, FALSE)
    OBVIOUS
  <2>4. ASSUME NEW none \in BOOLEAN, none = FALSE
        PROVE  /\ Receipt(p, status, decision, none) \in Receipts
               /\ Receipt(p, status, decision, none) # None
               /\ Receipt(p, status, decision, none).status = status
               /\ Receipt(p, status, decision, none).applied
                    = IF status \in Applied THEN Source(p) + 1 ELSE None
    BY ReceiptType
  <2>2. /\ new \in Receipts /\ new # None /\ new.status = status
        /\ new.applied = IF status \in Applied THEN Source(p) + 1 ELSE None
    BY <2>1, <2>4
  <2>3. receipt' = [receipt EXCEPT ![p] = new] /\ pc' = [pc EXCEPT ![p] = "fail"]
    BY <1>3, <2>1 DEF Fail
  <2> QED  BY <1>1, <2>2, <2>3
<1> QED  BY <1>2, <1>3

LEMMA Truths ==
  ASSUME LocalTyped, NEW p \in Promoters, NEW status \in Statuses
  PROVE  /\ Return(p, status, FALSE, FALSE) => Ends(p, status, "done")
         /\ Return(p, status, TRUE, FALSE) => Ends(p, status, "done")
         /\ Return(p, status, TRUE, TRUE) => Ends(p, status, "done")
         /\ Fail(p, status, FALSE) => Ends(p, status, "fail")
         /\ Fail(p, status, TRUE) => Ends(p, status, "fail")
<1>1. ASSUME NEW decision \in BOOLEAN, NEW result \in BOOLEAN
      PROVE  /\ Return(p, status, decision, result) => Ends(p, status, "done")
             /\ Fail(p, status, decision) => Ends(p, status, "fail")
  BY Endings
<1> QED  BY <1>1

\* What a step of one promoter leaves of another.
Alone(p) ==
  \A q \in Promoters \ {p} :
    /\ pc'[q] = pc[q] /\ run'[q] = run[q] /\ receipt'[q] = receipt[q]
    /\ kernel'[q] = kernel[q] /\ verification'[q] = verification[q]
    /\ publishing'[q] = publishing[q] /\ pending'[q] = pending[q]

\* The steps at which there is a receipt.
Ended == {"fail", "done"} \cup VerifySteps

\* A step goes somewhere; it may end the call, or the promotion.
Moves(p) ==
  \/ \E to \in AllSteps \ {"fail", "dead"} :
       /\ pc' = [pc EXCEPT ![p] = to] /\ UNCHANGED receipt
       /\ to \in Ended <=> pc[p] \in Ended
  \/ \E status \in Statuses : Ends(p, status, "done")
  \/ \E status \in Statuses \ Applied : Ends(p, status, "fail")
  \/ Die(p)

LEMMA MovesTyped ==
  ASSUME LocalTyped, NEW p \in Promoters, Moves(p)
  PROVE  /\ pc' \in [Promoters -> AllSteps]
         /\ receipt' \in [Promoters -> Receipts \cup {None}]
         /\ \A q \in Promoters \ {p} : pc'[q] = pc[q] /\ receipt'[q] = receipt[q]
<1>1. CASE \E to \in AllSteps \ {"fail", "dead"} :
             pc' = [pc EXCEPT ![p] = to] /\ UNCHANGED receipt
  BY <1>1 DEF LocalTyped
<1>2. CASE \E status \in Statuses : Ends(p, status, "done") \/ Ends(p, status, "fail")
  <2>1. {"done", "fail"} \subseteq AllSteps
    BY DEF AllSteps, PromoteSteps
  <2> QED  BY <1>2, <2>1 DEF LocalTyped, Ends
<1>3. CASE Die(p)
  <2>1. "dead" \in AllSteps
    BY DEF AllSteps
  <2> QED  BY <1>3, <2>1 DEF LocalTyped, Die
<1> QED  BY <1>1, <1>2, <1>3 DEF Moves

\* A publisher goes on where it was to when its metadata is there.
LEMMA WrittenTo ==
  /\ Written("deciding") = "decided" /\ Written("resulting") = "resulted"
  /\ Written("proving") = "proved" /\ Written("locating") = "located"
  BY DEF Written

LEMMA ActMoves ==
  ASSUME LocalTyped, NEW p \in Promoters, PublishInv(p), Acts(p)
  PROVE  Moves(p)
<1>0. Statuses = Applied \cup {"pre_apply_failure", "changeengine_rejected"}
      /\ Applied = {"promotion_applied", "run_transition_failed",
                    "invalidation_persistence_failed", "invalidation_verification_failed",
                    "result_provenance_failed"}
  BY DEF Statuses, Applied
<1>a. /\ "pre_apply_failure" \in Statuses \ Applied
      /\ "changeengine_rejected" \in Statuses \ Applied
      /\ "promotion_applied" \in Statuses /\ "run_transition_failed" \in Statuses
      /\ "invalidation_persistence_failed" \in Statuses
      /\ "invalidation_verification_failed" \in Statuses
      /\ "result_provenance_failed" \in Statuses
  BY <1>0
<1>b. ASSUME NEW from, NEW to \in AllSteps \ {"fail", "dead"}, Goto(p, from, to),
             to \in Ended <=> from \in Ended, UNCHANGED receipt
      PROVE  Moves(p)
  BY <1>b DEF Goto, Moves
<1>c. ASSUME NEW status \in Statuses,
             \/ Return(p, status, FALSE, FALSE) \/ Return(p, status, TRUE, FALSE)
             \/ Return(p, status, TRUE, TRUE)
             \/ status \notin Applied /\ (Fail(p, status, FALSE) \/ Fail(p, status, TRUE))
      PROVE  Moves(p)
  BY <1>c, Truths DEF Moves
<1>d. ASSUME NEW status, Report(p, status), UNCHANGED receipt, pc[p] \in Ended
      PROVE  Moves(p)
  BY <1>d DEF Report, Moves, AllSteps, Ended
<1>e. /\ {"preflight", "create", "recheck", "decide", "deciding", "decided", "apply", "save",
          "invalidate", "confirm", "result", "resulting", "resulted"}
           \subseteq AllSteps \ ({"fail", "dead"} \cup Ended)
      /\ {"prove", "proving", "proved", "locate", "locating", "located", "done"}
           \subseteq (AllSteps \ {"fail", "dead"}) \cap Ended
      /\ "fail" \in Ended
  BY DEF AllSteps, PromoteSteps, VerifySteps, Ended
<1>f. VerifySteps \subseteq Ended
  BY DEF Ended
<1>1. CASE \/ PreflightSingle(p) \/ PreflightSingleV2(p) \/ PreflightMulti(p)
           \/ PreflightMultiV2(p) \/ Recheck(p) \/ CreateRun(p) \/ CreateRunFails(p)
  BY <1>1, <1>a, <1>b, <1>c, <1>e DEF Examine, PreflightSingle, PreflightSingleV2,
     PreflightMulti, PreflightMultiV2, Recheck, CreateRun, CreateRunFails
<1>2. CASE Decide(p) \/ Apply(p) \/ ApplyBreaks(p)
  BY <1>2, <1>a, <1>b, <1>c, <1>e DEF Decide, Apply, ApplyBreaks
<1>3. CASE Decided(p)
  <2>1. \/ Goto(p, "decided", "apply") /\ UNCHANGED receipt
        \/ Fail(p, "pre_apply_failure", TRUE) \/ Fail(p, "pre_apply_failure", FALSE)
    BY <1>3 DEF Decided
  <2> QED  BY <2>1, <1>a, <1>b, <1>c, <1>e
<1>4. CASE Save(p) \/ Invalidate(p) \/ Confirm(p) \/ PublishResult(p) \/ FailRun(p)
  BY <1>4, <1>a, <1>b, <1>c, <1>e DEF Save, Invalidate, Confirm, PublishResult, FailRun, local
<1>5. CASE SaveFails(p) \/ InvalidateFails(p) \/ ConfirmFails(p) \/ FailRunRaises(p)
  BY <1>5, <1>a, <1>c DEF SaveFails, InvalidateFails, ConfirmFails, FailRunRaises, Moves
<1>6. CASE Conclude(p)
  <2>1. \/ Return(p, "promotion_applied", TRUE, TRUE)
        \/ Return(p, "result_provenance_failed", TRUE, TRUE)
        \/ Return(p, "result_provenance_failed", TRUE, FALSE)
    <3>1. Route(p) \in Routes
      BY Assumed DEF Route, Req, LocalTyped
    <3> QED  BY <1>6, <3>1 DEF Conclude, Routes
  <2> QED  BY <2>1, <1>a, <1>c
<1>7. CASE Verify(p) \/ Proved(p) \/ Locate(p) \/ Located(p) \/ ProveFails(p)
  BY <1>7, <1>b, <1>d, <1>e DEF Verify, Proved, Locate, Located, ProveFails
<1>8. CASE \E verdict \in Kernels : Prove(p, verdict) \/ VerifyV2(p, verdict)
  BY <1>8, <1>b, <1>d, <1>e DEF Prove, VerifyV2
<1>9. CASE WriteContent(p)
  <2>1. pc' = [pc EXCEPT ![p] = pc[p]] /\ UNCHANGED receipt
    BY <1>9 DEF WriteContent, LocalTyped, local
  <2>2. pc[p] \in {"deciding", "resulting", "proving", "locating"}
    BY <1>9 DEF WriteContent, Artifacts!WriteContent, PublishInv, Artifacts!At
  <2> QED  BY <2>1, <2>2, <1>e DEF Moves
<1>10. CASE PublishFails(p)
  <2>1. pc[p] \in {"deciding", "resulting", "proving", "locating"}
    BY <1>10 DEF PublishFails, Artifacts!GiveUp, PublishInv
  <2>2. \/ Fail(p, "pre_apply_failure", FALSE)
        \/ Return(p, "result_provenance_failed", TRUE, FALSE)
        \/ /\ Report(p, "operational_failure") /\ UNCHANGED receipt
           /\ pc[p] \in {"proving", "locating"}
    BY <1>10, <2>1 DEF PublishFails
  <2> QED  BY <2>2, <1>a, <1>c, <1>d, <1>e
<1>11. CASE WriteMetadata(p)
  <2>1. pc[p] \in {"deciding", "resulting", "proving", "locating"}
    BY <1>11 DEF WriteMetadata, Artifacts!WriteMetadata, Artifacts!At, PublishInv
  <2> QED  BY <1>11, <2>1, <1>b, <1>e, WrittenTo DEF WriteMetadata, local
<1>12. CASE Crash(p)
  BY <1>12, <1>b, <1>e, <1>f DEF Crash, Moves
<1> QED
  BY <1>1, <1>2, <1>3, <1>4, <1>5, <1>6, <1>7, <1>8, <1>9, <1>10, <1>11, <1>12 DEF Acts

LEMMA RunMoves ==
  ASSUME LocalTyped, NEW p \in Promoters, StepInv(p), Acts(p)
  PROVE  \/ UNCHANGED run
         \/ /\ \/ CreateRun(p) \/ Save(p) \/ SaveFails(p) \/ InvalidateFails(p)
               \/ FailRun(p) \/ FailRunRaises(p)
            /\ \E state \in RunStates : run' = [run EXCEPT ![p] = state]
<1>1. CASE CreateRun(p)
  <2>1. Created(p) \in RunStates
    BY RunTypes
  <2> QED  BY <1>1, <2>1 DEF CreateRun, SetRun, Created
<1>2. CASE FailRun(p) \/ FailRunRaises(p) \/ Save(p) \/ SaveFails(p) \/ InvalidateFails(p)
  <2>1. pc[p] \in {"fail", "save", "invalidate"}
    BY <1>2 DEF FailRun, FailRunRaises, Save, SaveFails, InvalidateFails, Goto
  <2>2. /\ run[p] \in RunStates /\ Failed(p) \in RunStates
        /\ Blocked(p) \in RunStates /\ Advanced(p) \in RunStates
    BY <2>1, RunTypes DEF Concluding
  <2> QED  BY <1>2, <2>2 DEF FailRun, FailRunRaises, Save, SaveFails, InvalidateFails, SetRun
<1>3. CASE \/ PreflightSingle(p) \/ PreflightSingleV2(p) \/ Recheck(p)
           \/ PreflightMulti(p) \/ PreflightMultiV2(p) \/ CreateRunFails(p)
           \/ Decide(p) \/ Decided(p) \/ Apply(p) \/ ApplyBreaks(p) \/ Invalidate(p)
           \/ Confirm(p) \/ ConfirmFails(p) \/ PublishResult(p) \/ Conclude(p)
           \/ Verify(p) \/ Proved(p) \/ Locate(p) \/ Located(p)
           \/ \E verdict \in Kernels : Prove(p, verdict) \/ VerifyV2(p, verdict)
           \/ ProveFails(p)
           \/ WriteContent(p) \/ WriteMetadata(p) \/ PublishFails(p) \/ Crash(p)
  BY <1>3 DEF Examine, PreflightSingle, PreflightSingleV2, Recheck, PreflightMulti,
     PreflightMultiV2, CreateRunFails, Decide, Decided, Apply, ApplyBreaks, Invalidate,
     Confirm, ConfirmFails, PublishResult, Conclude, Verify, Proved, Locate, Located, Prove,
     VerifyV2, ProveFails, WriteContent, WriteMetadata, PublishFails, Crash, local
<1> QED  BY <1>1, <1>2, <1>3 DEF Acts

LEMMA ProofMoves ==
  ASSUME LocalTyped, NEW p \in Promoters, StepInv(p), Acts(p)
  PROVE  /\ UNCHANGED kernel \/ \E verdict \in Kernels :
              kernel[p] \in {None, verdict} /\ kernel' = [kernel EXCEPT ![p] = verdict]
         /\ UNCHANGED verification \/ \E report \in Reports :
              verification' = [verification EXCEPT ![p] = report]
<1>1. CASE \E verdict \in Kernels : Prove(p, verdict) \/ VerifyV2(p, verdict)
  <2>1. PICK verdict \in Kernels : Prove(p, verdict) \/ VerifyV2(p, verdict)
    BY <1>1
  <2>2. kernel[p] \in {None, verdict} /\ kernel' = [kernel EXCEPT ![p] = verdict]
    BY <2>1 DEF Prove, VerifyV2
  <2>3. CASE Prove(p, verdict)
    BY <2>2, <2>3 DEF Prove, Report, Reports
  <2>4. CASE VerifyV2(p, verdict)
    <3>1. Conclusion(verdict) \in Reports
      BY <2>4 DEF VerifyV2, Conclusion, Kernels, Reports
    <3> QED  BY <2>2, <2>4, <3>1 DEF VerifyV2, Report
  <2> QED  BY <2>1, <2>3, <2>4
<1>2. CASE Proved(p)
  <2>1. kernel[p] \in Kernels \ {"not_equivalent"}
    BY <1>2 DEF Proved, StepInv, ProofInv
  <2>2. Conclusion(kernel[p]) \in Reports
    BY <2>1 DEF Conclusion, Kernels, Reports
  <2> QED  BY <1>2, <2>2 DEF Proved, Report, Reports
<1>3. CASE Verify(p) \/ Locate(p) \/ Located(p) \/ ProveFails(p) \/ PublishFails(p)
  BY <1>3 DEF Verify, Locate, Located, ProveFails, PublishFails, Report, Reports
<1>4. CASE \/ PreflightSingle(p) \/ PreflightSingleV2(p) \/ Recheck(p)
           \/ PreflightMulti(p) \/ PreflightMultiV2(p) \/ CreateRun(p) \/ CreateRunFails(p)
           \/ Decide(p) \/ Decided(p) \/ Apply(p) \/ ApplyBreaks(p) \/ Save(p)
           \/ SaveFails(p) \/ Invalidate(p) \/ InvalidateFails(p)
           \/ Confirm(p) \/ ConfirmFails(p) \/ PublishResult(p) \/ Conclude(p)
           \/ FailRun(p) \/ FailRunRaises(p)
           \/ WriteContent(p) \/ WriteMetadata(p) \/ Crash(p)
  BY <1>4 DEF Examine, PreflightSingle, PreflightSingleV2, Recheck, PreflightMulti,
     PreflightMultiV2, CreateRun, CreateRunFails, Decide, Decided, Apply, ApplyBreaks, Save,
     SaveFails, Invalidate, InvalidateFails, Confirm, ConfirmFails, PublishResult, Conclude,
     FailRun, FailRunRaises, WriteContent, WriteMetadata, Crash, local
<1> QED  BY <1>1, <1>2, <1>3, <1>4 DEF Acts

LEMMA LocalStep ==
  ASSUME BaseInv, HistoryInv, NEW p \in Promoters, Acts(p), request' = request
  PROVE  LocalTyped' /\ Alone(p)
<1>1. LocalTyped /\ ArtifactsInv /\ StepInv(p)
  BY TypeParts DEF BaseInv
<1>2. Moves(p)
  BY <1>1, ActMoves DEF StepInv
<1>3. LocalTyped'
  BY <1>1, <1>2, MovesTyped, RunMoves, ProofMoves DEF LocalTyped
<1>4. ASSUME NEW q \in Promoters \ {p}
      PROVE  run'[q] = run[q] /\ kernel'[q] = kernel[q] /\ verification'[q] = verification[q]
  BY <1>1, RunMoves, ProofMoves DEF LocalTyped
<1>5. ASSUME NEW q \in Promoters \ {p} PROVE pending'[q] = pending[q]
  BY StoreMoves DEF Store!Commit, Store!RecordInvalidation, Store!Abandon, HistoryInv
<1>6. ASSUME NEW q \in Promoters \ {p} PROVE publishing'[q] = publishing[q]
  BY <1>1, ArtifactMoves DEF Artifacts!Publish, Artifacts!WriteContent,
     Artifacts!WriteMetadata, Artifacts!GiveUp, ArtifactsInv
<1> QED  BY <1>1, <1>2, <1>3, <1>4, <1>5, <1>6, MovesTyped DEF Alone

\* Where a step begins and where it ends.
LEMMA Transitions ==
  ASSUME LocalTyped, NEW p \in Promoters, PublishInv(p)
  PROVE
    /\ (\/ PreflightSingle(p)
            \/ PreflightSingleV2(p)
            \/ PreflightMulti(p)
            \/ PreflightMultiV2(p)) =>
              pc[p] = "preflight" /\ pc'[p] \in {"create", "recheck", "done"}
    /\ Recheck(p) =>
              pc[p] = "recheck" /\ pc'[p] \in {"create", "done"}
    /\ CreateRun(p) =>
              pc[p] = "create" /\ pc'[p] \in {"decide", "done"}
    /\ CreateRunFails(p) =>
              pc[p] = "create" /\ pc'[p] = "done"
    /\ Decide(p) =>
              pc[p] = "decide" /\ pc'[p] \in {"deciding", "fail"}
    /\ Decided(p) =>
              pc[p] = "decided" /\ pc'[p] \in {"apply", "fail"}
    /\ Apply(p) =>
              pc[p] = "apply" /\ pc'[p] \in {"save", "fail"}
    /\ ApplyBreaks(p) =>
              pc[p] = "apply" /\ pc'[p] = "fail"
    /\ Save(p) =>
              pc[p] = "save" /\ pc'[p] = "invalidate"
    /\ SaveFails(p) =>
              pc[p] = "save" /\ pc'[p] = "done"
    /\ Invalidate(p) =>
              pc[p] = "invalidate" /\ pc'[p] = "confirm"
    /\ InvalidateFails(p) =>
              pc[p] = "invalidate" /\ pc'[p] = "done"
    /\ Confirm(p) =>
              pc[p] = "confirm" /\ pc'[p] \in {"result", "done"}
    /\ ConfirmFails(p) =>
              pc[p] = "confirm" /\ pc'[p] \in {"done", "dead"}
    /\ PublishResult(p) =>
              pc[p] = "result" /\ pc'[p] \in {"resulting", "done"}
    /\ Conclude(p) =>
              pc[p] = "resulted" /\ pc'[p] = "done"
    /\ FailRun(p) =>
              pc[p] = "fail" /\ pc'[p] = "done"
    /\ FailRunRaises(p) =>
              pc[p] = "fail" /\ pc'[p] = "dead"
    /\ Verify(p) =>
              pc[p] = "done" /\ pc'[p] \in {"prove", "done"}
    /\ ProveFails(p) =>
              pc[p] = "prove" /\ pc'[p] = "done"
    /\ Proved(p) =>
              pc[p] = "proved" /\ pc'[p] \in {"locate", "done"}
    /\ Locate(p) =>
              pc[p] = "locate" /\ pc'[p] \in {"locating", "located", "done"}
    /\ Located(p) =>
              pc[p] = "located" /\ pc'[p] = "done"
    /\ WriteContent(p) =>
              pc'[p] = pc[p]
    /\ WriteMetadata(p) =>
              \/ pc[p] = "deciding" /\ pc'[p] = "decided"
              \/ pc[p] = "resulting" /\ pc'[p] = "resulted"
              \/ pc[p] = "proving" /\ pc'[p] = "proved"
              \/ pc[p] = "locating" /\ pc'[p] = "located"
    /\ PublishFails(p) =>
              \/ pc[p] = "deciding" /\ pc'[p] = "fail"
              \/ pc[p] \in {"resulting", "proving", "locating"} /\ pc'[p] = "done"
    /\ Crash(p) =>
              \/ pc[p] \in PromoteSteps /\ pc'[p] = "dead"
              \/ pc[p] \in VerifySteps /\ pc'[p] = "done"
    /\ \A verdict \in Kernels :
         /\ Prove(p, verdict) => pc[p] = "prove" /\ pc'[p] \in {"proving", "proved", "done"}
         /\ VerifyV2(p, verdict) => pc[p] = "done" /\ pc'[p] = "done"
<1>0. pc \in [Promoters -> AllSteps]
  BY DEF LocalTyped
<1>1. ASSUME \/ PreflightSingle(p)
             \/ PreflightSingleV2(p)
             \/ PreflightMulti(p)
             \/ PreflightMultiV2(p)
      PROVE  pc[p] = "preflight" /\ pc'[p] \in {"create", "recheck", "done"}
  BY <1>0, <1>1 DEF PreflightSingle, PreflightSingleV2, PreflightMulti, PreflightMultiV2, Examine, Goto, Return
<1>2. ASSUME Recheck(p)
      PROVE  pc[p] = "recheck" /\ pc'[p] \in {"create", "done"}
  BY <1>0, <1>2 DEF Recheck, Goto, Return
<1>3. ASSUME CreateRun(p)
      PROVE  pc[p] = "create" /\ pc'[p] \in {"decide", "done"}
  BY <1>0, <1>3 DEF CreateRun, Goto, Return
<1>4. ASSUME CreateRunFails(p)
      PROVE  pc[p] = "create" /\ pc'[p] = "done"
  BY <1>0, <1>4 DEF CreateRunFails, Return
<1>5. ASSUME Decide(p)
      PROVE  pc[p] = "decide" /\ pc'[p] \in {"deciding", "fail"}
  BY <1>0, <1>5 DEF Decide, Goto, Fail
<1>6. ASSUME Decided(p)
      PROVE  pc[p] = "decided" /\ pc'[p] \in {"apply", "fail"}
  BY <1>0, <1>6 DEF Decided, Goto, Fail
<1>7. ASSUME Apply(p)
      PROVE  pc[p] = "apply" /\ pc'[p] \in {"save", "fail"}
  BY <1>0, <1>7 DEF Apply, Goto, Fail
<1>8. ASSUME ApplyBreaks(p)
      PROVE  pc[p] = "apply" /\ pc'[p] = "fail"
  BY <1>0, <1>8 DEF ApplyBreaks, Fail
<1>9. ASSUME Save(p)
      PROVE  pc[p] = "save" /\ pc'[p] = "invalidate"
  BY <1>0, <1>9 DEF Save, Goto
<1>10. ASSUME SaveFails(p)
      PROVE  pc[p] = "save" /\ pc'[p] = "done"
  BY <1>0, <1>10 DEF SaveFails, Return
<1>11. ASSUME Invalidate(p)
      PROVE  pc[p] = "invalidate" /\ pc'[p] = "confirm"
  BY <1>0, <1>11 DEF Invalidate, Goto
<1>12. ASSUME InvalidateFails(p)
      PROVE  pc[p] = "invalidate" /\ pc'[p] = "done"
  BY <1>0, <1>12 DEF InvalidateFails, Return
<1>13. ASSUME Confirm(p)
      PROVE  pc[p] = "confirm" /\ pc'[p] \in {"result", "done"}
  BY <1>0, <1>13 DEF Confirm, Goto, Return
<1>14. ASSUME ConfirmFails(p)
      PROVE  pc[p] = "confirm" /\ pc'[p] \in {"done", "dead"}
  BY <1>0, <1>14 DEF ConfirmFails, Return, Die
<1>15. ASSUME PublishResult(p)
      PROVE  pc[p] = "result" /\ pc'[p] \in {"resulting", "done"}
  BY <1>0, <1>15 DEF PublishResult, Goto, Return
<1>16. ASSUME Conclude(p)
      PROVE  pc[p] = "resulted" /\ pc'[p] = "done"
  BY <1>0, <1>16 DEF Conclude, Return
<1>17. ASSUME FailRun(p)
      PROVE  pc[p] = "fail" /\ pc'[p] = "done"
  BY <1>0, <1>17 DEF FailRun, Goto
<1>18. ASSUME FailRunRaises(p)
      PROVE  pc[p] = "fail" /\ pc'[p] = "dead"
  BY <1>0, <1>18 DEF FailRunRaises, Die
<1>19. ASSUME Verify(p)
      PROVE  pc[p] = "done" /\ pc'[p] \in {"prove", "done"}
  BY <1>0, <1>19 DEF Verify, Goto, Report
<1>20. ASSUME ProveFails(p)
      PROVE  pc[p] = "prove" /\ pc'[p] = "done"
  BY <1>0, <1>20 DEF ProveFails, Report
<1>21. ASSUME Proved(p)
      PROVE  pc[p] = "proved" /\ pc'[p] \in {"locate", "done"}
  BY <1>0, <1>21 DEF Proved, Goto, Report
<1>22. ASSUME Locate(p)
      PROVE  pc[p] = "locate" /\ pc'[p] \in {"locating", "located", "done"}
  BY <1>0, <1>22 DEF Locate, Goto, Report
<1>23. ASSUME Located(p)
      PROVE  pc[p] = "located" /\ pc'[p] = "done"
  BY <1>0, <1>23 DEF Located, Report
<1>24. ASSUME WriteContent(p)
      PROVE  pc'[p] = pc[p]
  BY <1>0, <1>24 DEF WriteContent, local
<1>25. ASSUME WriteMetadata(p)
      PROVE  \/ pc[p] = "deciding" /\ pc'[p] = "decided"
             \/ pc[p] = "resulting" /\ pc'[p] = "resulted"
             \/ pc[p] = "proving" /\ pc'[p] = "proved"
             \/ pc[p] = "locating" /\ pc'[p] = "located"
  <2>1. pc[p] \in {"deciding", "resulting", "proving", "locating"}
    BY <1>25 DEF WriteMetadata, Artifacts!WriteMetadata, PublishInv, Artifacts!At
  <2> QED  BY <1>0, <1>25, <2>1, WrittenTo DEF WriteMetadata, Goto
<1>26. ASSUME PublishFails(p)
      PROVE  \/ pc[p] = "deciding" /\ pc'[p] = "fail"
             \/ pc[p] \in {"resulting", "proving", "locating"} /\ pc'[p] = "done"
  <2>1. pc[p] \in {"deciding", "resulting", "proving", "locating"}
    BY <1>26 DEF PublishFails, Artifacts!GiveUp, PublishInv
  <2> QED  BY <1>0, <1>26, <2>1 DEF PublishFails, Fail, Return, Report
<1>27. ASSUME Crash(p)
      PROVE  \/ pc[p] \in PromoteSteps /\ pc'[p] = "dead"
             \/ pc[p] \in VerifySteps /\ pc'[p] = "done"
  BY <1>0, <1>27 DEF Crash, Die, Goto
<1>28. ASSUME NEW verdict \in Kernels
      PROVE  /\ Prove(p, verdict) => pc[p] = "prove" /\ pc'[p] \in {"proving", "proved", "done"}
             /\ VerifyV2(p, verdict) => pc[p] = "done" /\ pc'[p] = "done"
  BY <1>0 DEF Prove, VerifyV2, Goto, Report
<1> QED
  BY <1>1, <1>2, <1>3, <1>4, <1>5, <1>6, <1>7, <1>8, <1>9, <1>10, <1>11, <1>12, <1>13, <1>14, <1>15, <1>16, <1>17, <1>18, <1>19, <1>20, <1>21, <1>22, <1>23, <1>24, <1>25, <1>26, <1>27, <1>28

-----------------------------------------------------------------------------
(* The steps of a promoter keep what it has. *)

LEMMA SameSource ==
  ASSUME request' = request, NEW p \in Promoters
  PROVE  /\ Source(p)' = Source(p) /\ Req(p)' = Req(p) /\ CanonicalId(p)' = CanonicalId(p)
         /\ Created(p)' = Created(p) /\ Moved(p)' = Moved(p)
  BY DEF Source, Req, CanonicalId, Created, Moved

LEMMA RunStep ==
  ASSUME LocalTyped, NEW p \in Promoters, StepInv(p), Acts(p), request' = request
  PROVE  RunInv(p)'
<1>1. PublishInv(p) /\ RunInv(p) /\ run \in [Promoters -> RunStates \cup {None}]
  BY DEF StepInv, LocalTyped
<1>2. CASE CreateRun(p)
  <2>1. \/ pc'[p] = "done"
        \/ pc'[p] = "decide" /\ run'[p] = Created(p)
    BY <1>1, <1>2, Transitions DEF CreateRun, SetRun, Created, Return, LocalTyped
  <2> QED  BY <2>1, SameSource DEF RunInv, Untried, Deciding, Concluding
<1>3. CASE Save(p)
  <2>1. pc[p] = "save" /\ pc'[p] = "invalidate"
    BY <1>1, <1>3, Transitions
  <2>2. run[p] = Created(p)
    BY <1>1, <2>1 DEF RunInv
  <2>3. run'[p] = Advanced(p)
    BY <1>1, <1>3 DEF Save, SetRun
  <2>4. run'[p] = Moved(p)
    BY <2>2, <2>3 DEF Advanced, Created, Moved
  <2> QED  BY <2>1, <2>4, SameSource DEF RunInv, Untried, Deciding, Concluding
<1>4. CASE SaveFails(p) \/ InvalidateFails(p) \/ FailRun(p) \/ FailRunRaises(p)
  <2>1. pc'[p] \in {"done", "dead"}
    BY <1>1, <1>4, Transitions
  <2> QED  BY <2>1 DEF RunInv, Untried, Deciding, Concluding
<1>5. CASE run'[p] = run[p]
  <2>1. /\ pc'[p] \in Untried => pc[p] \in Untried
        /\ pc'[p] \in Deciding \cup {"apply", "save", "fail"} =>
             pc[p] \in Deciding \cup {"apply", "save", "fail"} \/ CreateRun(p)
        /\ pc'[p] \in Concluding => pc[p] \in Concluding \/ Save(p)
    BY <1>1, Transitions DEF Acts, Untried, Deciding, Concluding
  <2> QED  BY <1>1, <1>2, <1>3, <1>5, <2>1, SameSource DEF RunInv
<1> QED  BY <1>2, <1>3, <1>4, <1>5, RunMoves

LEMMA ReceiptStep ==
  ASSUME LocalTyped, NEW p \in Promoters, StepInv(p), Acts(p), request' = request
  PROVE  ReceiptInv(p)'
<1>1. PublishInv(p) /\ ReceiptInv(p) /\ Moves(p)
  BY ActMoves DEF StepInv
<1>2. pc \in [Promoters -> AllSteps] /\ receipt \in [Promoters -> Receipts \cup {None}]
  BY DEF LocalTyped
<1>3. CASE \E to \in AllSteps \ {"fail", "dead"} :
             /\ pc' = [pc EXCEPT ![p] = to] /\ UNCHANGED receipt
             /\ to \in Ended <=> pc[p] \in Ended
  BY <1>1, <1>2, <1>3, SameSource DEF ReceiptInv, Ended
<1>4. CASE \/ \E status \in Statuses : Ends(p, status, "done")
           \/ \E status \in Statuses \ Applied : Ends(p, status, "fail")
  BY <1>2, <1>4, SameSource DEF ReceiptInv, Ends
<1>5. CASE Die(p)
  BY <1>2, <1>5 DEF ReceiptInv, Die, VerifySteps
<1> QED  BY <1>1, <1>3, <1>4, <1>5 DEF Moves

\* What a promoter has begun to publish.
Begun(p, s, i, bytes, bound) ==
  /\ publishing[p] = None /\ publishing'[p] # None
  /\ publishing'[p].scope = s /\ publishing'[p].id = i
  /\ publishing'[p].bytes = bytes /\ publishing'[p].bound = bound

LEMMA Begins ==
  ASSUME ArtifactsInv, NEW p \in Promoters, NEW s \in Scopes, NEW i \in Ids,
         NEW bytes \in Bytes, NEW bound \in Store!Revisions,
         Artifacts!Publish(p, s, i, bytes, bound)
  PROVE  Begun(p, s, i, bytes, bound)
<1> DEFINE write == [scope |-> s, id |-> i, bytes |-> bytes, bound |-> bound,
                     step |-> "content"]
<1>1. write \in Writes /\ write # None
  BY ArtifactAssumption DEF Writes
<1>2. publishing[p] = None /\ publishing'[p] = write
  BY DEF Artifacts!Publish, ArtifactsInv
<1> QED  BY <1>1, <1>2 DEF Begun

\* What a promoter writes is what its step is about.
LEMMA WritingStep ==
  ASSUME LocalTyped, ArtifactsInv, NEW p \in Promoters, StepInv(p), Acts(p),
         request' = request
  PROVE  PublishInv(p)'
<1>1. PublishInv(p) /\ pc \in [Promoters -> AllSteps]
      /\ publishing \in [Promoters -> Writes \cup {None}]
  BY DEF StepInv, LocalTyped, ArtifactsInv
<1>2. CASE Artifacts!Publish(p, p, request[p], request[p], Source(p)) /\ Decide(p)
  <2>1. Begun(p, p, request[p], request[p], Source(p))
    BY <1>2, Begins, Publishable DEF LocalTyped
  <2>2. pc'[p] = "deciding"
    BY <1>1, <1>2, <2>1 DEF Begun, Decide, Goto
  <2> QED  BY <2>1, <2>2, SameSource DEF Begun, PublishInv, Writing
<1>3. CASE Artifacts!Publish(p, p, "result", request[p], Source(p) + 1) /\ PublishResult(p)
  <2>1. Begun(p, p, "result", request[p], Source(p) + 1)
    BY <1>3, Begins, Publishable DEF LocalTyped
  <2>2. pc'[p] = "resulting"
    BY <1>1, <1>3, <2>1 DEF Begun, PublishResult, Goto
  <2> QED  BY <2>1, <2>2, SameSource DEF Begun, PublishInv, Writing
<1>4. CASE Artifacts!Publish(p, p, "locator", request[p], Source(p) + 1) /\ Locate(p)
  <2>1. Begun(p, p, "locator", request[p], Source(p) + 1)
    BY <1>4, Begins, Publishable DEF LocalTyped
  <2>2. pc'[p] = "locating"
    BY <1>1, <1>4, <2>1 DEF Begun, Locate, Goto
  <2> QED  BY <2>1, <2>2, SameSource DEF Begun, PublishInv, Writing
<1>5. CASE \E verdict \in Kernels :
             /\ Artifacts!Publish(p, "canonical", CanonicalId(p), verdict, Source(p) + 1)
             /\ Prove(p, verdict)
  <2>1. PICK verdict \in Kernels :
             /\ Artifacts!Publish(p, "canonical", CanonicalId(p), verdict, Source(p) + 1)
             /\ Prove(p, verdict)
    BY <1>5
  <2>2. Begun(p, "canonical", CanonicalId(p), verdict, Source(p) + 1)
    BY <2>1, Begins, Publishable DEF LocalTyped
  <2>3. pc'[p] = "proving"
    BY <1>1, <2>1, <2>2 DEF Begun, Prove, Goto
  <2> QED  BY <2>2, <2>3, SameSource DEF Begun, PublishInv
<1>6. CASE Artifacts!WriteContent(p) /\ WriteContent(p)
  <2>1. publishing[p] # None /\ publishing[p] \in Writes
    BY <1>1, <1>6 DEF Artifacts!WriteContent, Artifacts!At
  <2>2. publishing'[p] = [publishing[p] EXCEPT !.step = "metadata"]
    BY <1>1, <1>6 DEF Artifacts!WriteContent
  <2>3. /\ publishing'[p] \in Writes /\ publishing'[p].scope = publishing[p].scope
        /\ publishing'[p].id = publishing[p].id /\ publishing'[p].bytes = publishing[p].bytes
        /\ publishing'[p].bound = publishing[p].bound
    BY <2>1, <2>2 DEF Writes
  <2>4. pc'[p] = pc[p] /\ publishing'[p] # None
    BY <1>1, <1>6, <2>3, Transitions, ArtifactAssumption
  <2> QED  BY <1>1, <2>1, <2>3, <2>4, SameSource DEF PublishInv, Writing
<1>7. CASE \/ Artifacts!WriteMetadata(p) /\ WriteMetadata(p)
           \/ Artifacts!GiveUp(p) /\ (PublishFails(p) \/ Crash(p))
  <2>1. publishing'[p] = None
    BY <1>1, <1>7 DEF Artifacts!WriteMetadata, Artifacts!GiveUp
  <2>2. pc'[p] \notin {"deciding", "resulting", "proving", "locating"}
    BY <1>1, <1>7, Transitions
  <2> QED  BY <2>1, <2>2 DEF PublishInv
<1>8. CASE UNCHANGED artifactVars
  <2>1. ~ WriteContent(p) /\ ~ WriteMetadata(p) /\ ~ PublishFails(p)
    <3>1. ~ Artifacts!WriteMetadata(p) /\ ~ Artifacts!GiveUp(p)
      BY <1>1, <1>8 DEF Artifacts!WriteMetadata, Artifacts!GiveUp, Artifacts!At
    <3>2. ~ Artifacts!WriteContent(p)
      <4> SUFFICES ASSUME Artifacts!WriteContent(p) PROVE FALSE
        OBVIOUS
      <4>1. publishing[p].step = "content" /\ publishing[p] \in Writes
        BY <1>1 DEF Artifacts!WriteContent, Artifacts!At
      <4>2. publishing'[p].step = "metadata"
        BY <1>1, <4>1 DEF Artifacts!WriteContent, Writes
      <4> QED  BY <1>8, <4>1, <4>2
    <3> QED  BY <3>1, <3>2 DEF WriteContent, WriteMetadata, PublishFails
  <2>2. pc'[p] \notin {"deciding", "resulting", "proving", "locating"}
    <3>1. ASSUME NEW s \in Scopes, NEW i \in Ids, NEW bytes \in Bytes,
                 NEW bound \in Store!Revisions
          PROVE  ~ Artifacts!Publish(p, s, i, bytes, bound)
      BY <1>8, Begins DEF Begun
    <3>2. Decide(p) => pc'[p] = "fail"
      BY <1>1, <3>1, Publishable DEF Decide, Fail, LocalTyped
    <3>3. PublishResult(p) => pc'[p] = "done"
      BY <1>1, <3>1, Publishable DEF PublishResult, Return, LocalTyped
    <3>4. Locate(p) => pc'[p] \in {"located", "done"}
      BY <1>1, <3>1, Publishable DEF Locate, Goto, Report, LocalTyped
    <3>5. ASSUME NEW verdict \in Kernels, Prove(p, verdict)
          PROVE  pc'[p] \in {"proved", "done"}
      BY <1>1, <3>1, <3>5, Publishable DEF Prove, Goto, Report, LocalTyped
    <3>6. CASE Decide(p) \/ PublishResult(p) \/ Locate(p)
               \/ \E verdict \in Kernels : Prove(p, verdict)
      BY <3>2, <3>3, <3>4, <3>5, <3>6
    <3>7. ASSUME ~ Decide(p), ~ PublishResult(p), ~ Locate(p),
                 ~ \E verdict \in Kernels : Prove(p, verdict)
          PROVE  pc'[p] \notin {"deciding", "resulting", "proving", "locating"}
      BY <1>1, <2>1, <3>7, Transitions DEF Acts
    <3> QED  BY <3>6, <3>7
  <2>3. publishing[p] = None
    <3>1. pc[p] \in {"deciding", "resulting", "proving", "locating"} => Crash(p)
      BY <1>1, <2>1, Transitions DEF Acts
    <3>2. Crash(p) => publishing[p] = None
      BY <1>1, <1>8 DEF Crash, Artifacts!GiveUp
    <3> QED  BY <1>1, <3>1, <3>2 DEF PublishInv
  <2> QED  BY <1>8, <2>2, <2>3 DEF PublishInv
<1> QED  BY <1>2, <1>3, <1>4, <1>5, <1>6, <1>7, <1>8, ArtifactMoves

LEMMA PendingStep ==
  ASSUME LocalTyped, HistoryInv, NEW p \in Promoters, StepInv(p), Acts(p)
  PROVE  PendingInv(p)'
<1>1. PublishInv(p) /\ PendingInv(p) /\ Len(changes) \in Nat
  BY DEF StepInv, HistoryInv, Store!Revisions
<1>2. CASE Store!Commit(p, {PathOf[Req(p).target]}) /\ Apply(p)
  <2>1. pending'[p] = Len(changes) + 1 /\ Len(changes) + 1 \in Store!Revisions
    BY <1>1, <1>2, StoreAssumption DEF Store!Commit, Store!current, HistoryInv, Store!Revisions
  <2>2. pc'[p] = "save"
    <3>1. changes' # changes
      BY <1>1, <1>2 DEF Store!Commit, HistoryInv
    <3> QED  BY <1>2, <3>1 DEF Apply, Goto, LocalTyped
  <2> QED  BY <2>1, <2>2, StoreAssumption DEF PendingInv
<1>3. CASE \/ Store!RecordInvalidation(p) /\ Invalidate(p)
           \/ Store!Abandon(p) /\ (SaveFails(p) \/ InvalidateFails(p) \/ Crash(p))
  <2>1. pending'[p] = None
    BY <1>3 DEF Store!RecordInvalidation, Store!Abandon, HistoryInv
  <2>2. pc'[p] \notin {"save", "invalidate"}
    BY <1>1, <1>3, Transitions
  <2> QED  BY <2>1, <2>2 DEF PendingInv
<1>4. CASE UNCHANGED storeVars
  <2>1. CASE Apply(p)
    <3>1. pc'[p] = "fail" /\ pc[p] = "apply"
      <4>1. pc[p] = "apply" /\ pc'[p] \in {"save", "fail"}
        BY <1>1, <2>1, Transitions
      <4>2. ~ Store!Commit(p, {PathOf[Req(p).target]})
        BY <1>1, <1>4 DEF Store!Commit, HistoryInv
      <4> QED  BY <2>1, <4>1, <4>2 DEF Apply, Fail, LocalTyped
    <3> QED  BY <1>1, <1>4, <3>1 DEF PendingInv
  <2>2. CASE Crash(p)
    <3>1. pending[p] = None
      BY <1>4, <2>2 DEF Crash, Store!Abandon, HistoryInv
    <3>2. pc'[p] \notin {"save", "invalidate"}
      BY <1>1, <2>2, Transitions
    <3> QED  BY <1>4, <3>1, <3>2 DEF PendingInv
  <2>3. ASSUME ~ Apply(p), ~ Crash(p)
        PROVE  pc'[p] \in {"save", "invalidate"} <=> pc[p] \in {"save", "invalidate"}
    <3>1. ~ SaveFails(p) /\ ~ InvalidateFails(p) /\ ~ Invalidate(p)
      BY <1>4 DEF SaveFails, InvalidateFails, Invalidate, Store!Abandon,
         Store!RecordInvalidation, HistoryInv
    <3> QED  BY <1>1, <2>3, <3>1, Transitions DEF Acts
  <2> QED  BY <1>1, <1>4, <2>1, <2>2, <2>3 DEF PendingInv
<1> QED  BY <1>2, <1>3, <1>4, StoreMoves

LEMMA ProofStep ==
  ASSUME LocalTyped, NEW p \in Promoters, StepInv(p), Acts(p)
  PROVE  ProofInv(p)'
<1>1. PublishInv(p) /\ ProofInv(p) /\ kernel \in [Promoters -> Kernels \cup {None}]
  BY DEF StepInv, LocalTyped
<1>2. CASE \E verdict \in Kernels : Prove(p, verdict)
  <2>1. PICK verdict \in Kernels : Prove(p, verdict)
    BY <1>2
  <2>2. kernel'[p] = verdict /\ pc'[p] \in {"proving", "proved", "done"}
    BY <1>1, <2>1, Transitions DEF Prove
  <2>3. verdict = "not_equivalent" => pc'[p] = "done"
    BY <2>1 DEF Prove, Report, LocalTyped
  <2> QED  BY <2>2, <2>3 DEF ProofInv
<1>3. CASE \E verdict \in Kernels : VerifyV2(p, verdict)
  <2>1. pc'[p] = "done"
    BY <1>1, <1>3, Transitions
  <2> QED  BY <2>1 DEF ProofInv
<1>4. ASSUME ~ \E verdict \in Kernels : Prove(p, verdict) \/ VerifyV2(p, verdict)
      PROVE  ProofInv(p)'
  <2>1. UNCHANGED kernel
    BY <1>4 DEF Acts, Examine, PreflightSingle, PreflightSingleV2, Recheck, PreflightMulti,
     PreflightMultiV2, CreateRun, CreateRunFails, Decide, Decided, Apply, ApplyBreaks, Save,
     SaveFails, Invalidate, InvalidateFails, Confirm, ConfirmFails, PublishResult, Conclude,
     FailRun, FailRunRaises, Verify, Proved, Locate, Located, ProveFails, WriteContent,
     WriteMetadata, PublishFails, Crash, local
  <2>2. CASE Proved(p)
    <3>1. pc'[p] = "done" \/ (pc'[p] = "locate" /\ Conclusion(kernel[p]) = "verified")
      BY <2>2 DEF Proved, Report, Goto, LocalTyped
    <3>2. kernel[p] \in Kernels \ {"not_equivalent"}
      BY <1>1, <2>2 DEF Proved, ProofInv
    <3>3. Conclusion(kernel[p]) = "verified" => kernel[p] = "verified_clear"
      BY <3>2 DEF Conclusion, Kernels
    <3> QED  BY <2>1, <3>1, <3>3 DEF ProofInv
  <2>3. ASSUME ~ Proved(p)
        PROVE  /\ pc'[p] \in {"proving", "proved"} => pc[p] \in {"proving", "proved"}
               /\ pc'[p] \in {"locate", "locating", "located"} =>
                    pc[p] \in {"locate", "locating", "located"}
    BY <1>1, <1>4, <2>3, Transitions DEF Acts
  <2> QED  BY <1>1, <2>1, <2>2, <2>3 DEF ProofInv
<1> QED  BY <1>2, <1>3, <1>4

-----------------------------------------------------------------------------
(* What a step leaves of everything else. *)

LEMMA CommitOwns ==
  ASSUME HistoryInv, LogTyped, NEW w \in Promoters \cup Others, NEW paths,
         Store!Commit(w, paths), author' = Append(author, w)
  PROVE  /\ LogTyped'
         /\ \A p \in Promoters \ {w} : Own(p)' = Own(p)
         /\ w \in Promoters => Own(w)' = Own(w) \cup {Len(changes) + 1}
         /\ Len(changes') = Len(changes) + 1 /\ changes'[Len(changes) + 1] = paths
         /\ \A r \in 1 .. Len(changes) : changes'[r] = changes[r]
<1>1. /\ Len(changes) \in Nat /\ Len(changes') = Len(changes) + 1
      /\ Len(author) = Len(changes)
      /\ author \in Seq(Promoters \cup Others \cup {None})
      /\ changes'[Len(changes) + 1] = paths
      /\ \A r \in 1 .. Len(changes) : changes'[r] = changes[r]
  BY DEF LogTyped, Store!Commit, Store!current, HistoryInv
<1>2. /\ author'[Len(changes) + 1] = w
      /\ \A r \in 1 .. Len(changes) : author'[r] = author[r]
  BY <1>1
<1>3. LogTyped'
  BY <1>1 DEF LogTyped, Store!current
<1>4. 1 .. Len(changes') = (1 .. Len(changes)) \cup {Len(changes) + 1}
  BY <1>1
<1>5. \A p \in Promoters \ {w} : Own(p)' = Own(p)
  BY <1>2, <1>4 DEF Own, Store!current
<1>6. w \in Promoters => Own(w)' = Own(w) \cup {Len(changes) + 1}
  BY <1>2, <1>4 DEF Own, Store!current
<1> QED  BY <1>1, <1>3, <1>5, <1>6

\* Nothing of the history, no record and no file ever goes away.
Grows ==
  /\ \A r \in 1 .. Len(changes) : changes'[r] = changes[r]
  /\ \A r \in Store!Revisions : records[r] # None => records'[r] # None
  /\ \A s \in Scopes, i \in Ids :
       /\ content[s][i] # None => content'[s][i] # None
       /\ metadata[s][i] # None => metadata'[s][i] # None

LEMMA GrowStep ==
  ASSUME BaseInv, HistoryInv, [Next]_vars
  PROVE  Grows
<1>1. request \in [Promoters -> DOMAIN Requests] /\ ArtifactsInv
  BY TypeParts DEF BaseInv, LocalTyped
<1>2. /\ \A r \in 1 .. Len(changes) : changes'[r] = changes[r]
      /\ \A r \in Store!Revisions : records[r] # None => records'[r] # None
  <2>1. [Store!Next]_(Store!vars)
    BY <1>1, StoreStep
  <2>2. CASE \E w \in Promoters \cup Others, paths \in ChangeSets : Store!Commit(w, paths)
    BY <2>2 DEF Store!Commit, HistoryInv
  <2>3. CASE \E w \in Promoters \cup Others :
               Store!RecordInvalidation(w) \/ Store!Abandon(w)
    BY <2>3 DEF Store!RecordInvalidation, Store!Abandon, HistoryInv
  <2> QED  BY <2>1, <2>2, <2>3 DEF Store!Next
<1>3. \A s \in Scopes, i \in Ids :
        /\ content[s][i] # None => content'[s][i] # None
        /\ metadata[s][i] # None => metadata'[s][i] # None
  <2>1. [Artifacts!Next]_(Artifacts!vars)
    BY <1>1, ArtifactsStep
  <2>2. ASSUME NEW w \in Promoters, Artifacts!WriteContent(w)
        PROVE  \A s \in Scopes, i \in Ids : content[s][i] # None => content'[s][i] # None
    <3>1. publishing[w].bytes \in Bytes /\ publishing[w].bytes # None
      BY <1>1, <2>2, ArtifactAssumption
         DEF Artifacts!WriteContent, Artifacts!At, ArtifactsInv, Writes
    <3> QED  BY <1>1, <2>2, <3>1 DEF Artifacts!WriteContent, ArtifactsInv
  <2>3. ASSUME NEW w \in Promoters, Artifacts!WriteMetadata(w)
        PROVE  \A s \in Scopes, i \in Ids : metadata[s][i] # None => metadata'[s][i] # None
    <3>1. [bytes |-> publishing[w].bytes, bound |-> publishing[w].bound] # None
      BY <1>1, <2>3, ArtifactAssumption
         DEF Artifacts!WriteMetadata, Artifacts!At, ArtifactsInv, Writes, Stamps
    <3> QED  BY <1>1, <2>3, <3>1 DEF Artifacts!WriteMetadata, ArtifactsInv
  <2>4. ASSUME NEW t \in Scopes, NEW j \in Ids, Artifacts!Damage(t, j)
        PROVE  \A s \in Scopes, i \in Ids : content[s][i] # None => content'[s][i] # None
    BY <1>1, <2>4, ArtifactAssumption DEF Artifacts!Damage, ArtifactsInv
  <2>5. ASSUME NEW s \in Scopes, NEW t \in Scopes, NEW j \in Ids, NEW bound,
               Artifacts!Republish(s, t, j, bound)
        PROVE  \A u \in Scopes, i \in Ids :
                 /\ content[u][i] # None => content'[u][i] = content[u][i]
                 /\ metadata[u][i] # None => metadata'[u][i] = metadata[u][i]
    BY <1>1, <2>5 DEF Artifacts!Republish, Artifacts!Absent, ArtifactsInv
  <2>6. CASE \E w \in Promoters :
               Artifacts!WriteContent(w) \/ Artifacts!WriteMetadata(w) \/ Artifacts!GiveUp(w)
    BY <2>2, <2>3, <2>6 DEF Artifacts!WriteContent, Artifacts!WriteMetadata, Artifacts!GiveUp
  <2>7. CASE \E t \in Scopes, j \in Ids :
               \/ Artifacts!Damage(t, j)
               \/ \E s \in Scopes : Artifacts!Republish(s, t, j, metadata'[t][j].bound)
    <3>1. PICK t \in Scopes, j \in Ids :
               \/ Artifacts!Damage(t, j)
               \/ \E s \in Scopes : Artifacts!Republish(s, t, j, metadata'[t][j].bound)
      BY <2>7
    <3>2. CASE Artifacts!Damage(t, j)
      BY <2>4, <3>2 DEF Artifacts!Damage
    <3>3. CASE \E s \in Scopes : Artifacts!Republish(s, t, j, metadata'[t][j].bound)
      BY <2>5, <3>3
    <3> QED  BY <3>1, <3>2, <3>3
  <2>8. CASE UNCHANGED <<content, metadata>>
    BY <2>8
  <2>9. \/ UNCHANGED <<content, metadata>>
        \/ \E w \in Promoters :
             Artifacts!WriteContent(w) \/ Artifacts!WriteMetadata(w) \/ Artifacts!GiveUp(w)
        \/ \E t \in Scopes, j \in Ids :
             \/ Artifacts!Damage(t, j)
             \/ \E s \in Scopes : Artifacts!Republish(s, t, j, metadata'[t][j].bound)
    BY <2>1 DEF Artifacts!Next, Artifacts!Publish
  <2> QED  BY <2>6, <2>7, <2>8, <2>9
<1> QED  BY <1>2, <1>3 DEF Grows

-----------------------------------------------------------------------------
(* Whoever takes no step keeps everything it has. *)

Rests(q) ==
  /\ pc'[q] = pc[q] /\ run'[q] = run[q] /\ receipt'[q] = receipt[q]
  /\ kernel'[q] = kernel[q] /\ verification'[q] = verification[q]
  /\ publishing'[q] = publishing[q] /\ pending'[q] = pending[q]
  /\ metadata'[q] = metadata[q] /\ Own(q)' = Own(q)

LEMMA LogStep ==
  ASSUME BaseInv, HistoryInv, [Next]_vars
  PROVE  /\ LogTyped'
         /\ \A q \in Promoters : ~ Acts(q) => Own(q)' = Own(q)
<1>1. LogTyped
  BY TypeParts DEF BaseInv
<1>2. ASSUME UNCHANGED <<changes, author>>
      PROVE  LogTyped' /\ \A q \in Promoters : Own(q)' = Own(q)
  BY <1>1, <1>2 DEF LogTyped, Own, Store!current
<1>3. ASSUME NEW p \in Promoters, Acts(p)
      PROVE  LogTyped' /\ \A q \in Promoters : ~ Acts(q) => Own(q)' = Own(q)
  <2>1. CASE Store!Commit(p, {PathOf[Req(p).target]}) /\ author' = Append(author, p)
    BY <1>1, <1>3, <2>1, CommitOwns
  <2>2. CASE UNCHANGED <<changes, author>>
    BY <1>2, <2>2
  <2> QED  BY <1>3, <2>1, <2>2, StoreMoves DEF Store!RecordInvalidation, Store!Abandon
<1>4. ASSUME NEW w \in Others, NEW paths \in ChangeSets, OtherRun(w, paths)
      PROVE  LogTyped' /\ \A q \in Promoters : Own(q)' = Own(q)
  <2>1. Store!Commit(w, paths) /\ author' = Append(author, w) /\ w \notin Promoters
    BY <1>4, Assumed DEF OtherRun
  <2> QED  BY <1>1, <2>1, CommitOwns
<1>5. CASE Environment \/ UNCHANGED vars
  BY <1>2, <1>5 DEF Environment, Damage, Republish, vars
<1> QED  BY <1>3, <1>4, <1>5, Steps

LEMMA MetadataStep ==
  ASSUME BaseInv, HistoryInv, [Next]_vars, NEW q \in Promoters, ~ Acts(q)
  PROVE  metadata'[q] = metadata[q]
<1>1. LocalTyped /\ ArtifactsInv /\ q # "other" /\ q # "canonical" /\ q \in Scopes
  BY TypeParts, Assumed, Publishable DEF BaseInv, LocalTyped
<1>2. ASSUME NEW p \in Promoters, Acts(p) PROVE metadata'[q] = metadata[q]
  <2>1. p # q
    BY <1>2
  <2>2. CASE UNCHANGED metadata
    BY <2>2
  <2>3. CASE Artifacts!WriteMetadata(p) /\ WriteMetadata(p)
    <3>1. publishing[p] # None /\ PublishInv(p)
      BY <2>3 DEF Artifacts!WriteMetadata, Artifacts!At, BaseInv, StepInv
    <3>2. publishing[p].scope \in {p, "canonical"}
      BY <3>1 DEF PublishInv, Writing
    <3> QED  BY <1>1, <2>1, <2>3, <3>2 DEF Artifacts!WriteMetadata, ArtifactsInv
  <2> QED
    BY <1>2, <2>2, <2>3, ArtifactMoves DEF Artifacts!Publish, Artifacts!WriteContent,
       Artifacts!GiveUp
<1>3. CASE Environment
  BY <1>1, <1>3 DEF Environment, Damage, Republish, Artifacts!Damage, Artifacts!Republish,
     ArtifactsInv
<1>4. CASE UNCHANGED vars \/ \E w \in Others, paths \in ChangeSets : OtherRun(w, paths)
  BY <1>4 DEF vars, OtherRun
<1> QED  BY <1>2, <1>3, <1>4, Steps

LEMMA Bystander ==
  ASSUME BaseInv, HistoryInv, [Next]_vars, NEW q \in Promoters, ~ Acts(q)
  PROVE  Rests(q)
<1>1. metadata'[q] = metadata[q] /\ Own(q)' = Own(q) /\ request' = request
  BY MetadataStep, LogStep, RequestFixed
<1>2. ASSUME NEW p \in Promoters, Acts(p) PROVE Rests(q)
  BY <1>1, <1>2, LocalStep DEF Alone, Rests
<1>3. ASSUME NEW w \in Others, NEW paths \in ChangeSets, OtherRun(w, paths) PROVE Rests(q)
  <2>1. pending'[q] = pending[q]
    BY <1>3, Assumed DEF OtherRun, Store!Commit, HistoryInv
  <2> QED  BY <1>1, <1>3, <2>1 DEF OtherRun, local, Rests
<1>4. CASE Environment
  <2>1. UNCHANGED publishing
    BY <1>4 DEF Environment, Damage, Republish, Artifacts!Damage, Artifacts!Republish
  <2> QED  BY <1>1, <1>4, <2>1 DEF Environment, Damage, Republish, local, Rests
<1>5. CASE UNCHANGED vars
  BY <1>1, <1>5 DEF vars, local, Rests
<1> QED  BY <1>2, <1>3, <1>4, <1>5, Steps

LEMMA LapsesStep ==
  ASSUME lapses \in 0 .. MaxLapses, [Next]_vars
  PROVE  lapses' \in 0 .. MaxLapses
<1> SUFFICES UNCHANGED lapses \/ Lapse
  BY Assumed DEF Lapse
<1>1. ASSUME NEW p \in Promoters, Acts(p) PROVE UNCHANGED lapses \/ Lapse
  BY <1>1 DEF Acts, Examine, PreflightSingle, PreflightSingleV2, Recheck, PreflightMulti,
     PreflightMultiV2, CreateRun, CreateRunFails, Decide, Decided, Apply, ApplyBreaks, Save,
     SaveFails, Invalidate, InvalidateFails, Confirm, ConfirmFails, PublishResult, Conclude,
     FailRun, FailRunRaises, Verify, Proved, Locate, Located, Prove, VerifyV2, ProveFails,
     WriteContent, WriteMetadata, PublishFails, Crash
<1> QED  BY <1>1, Steps DEF Next, Acts, OtherRun, vars

LEMMA BaseStep ==
  ASSUME BaseInv, HistoryInv, [Next]_vars
  PROVE  BaseInv'
<1>1. /\ LocalTyped /\ ArtifactsInv /\ lapses \in 0 .. MaxLapses
      /\ request' = request /\ request \in [Promoters -> DOMAIN Requests]
  BY TypeParts, RequestFixed DEF BaseInv, LocalTyped
<1>2. ASSUME NEW p \in Promoters, Acts(p) PROVE StepInv(p)'
  BY <1>1, <1>2, RunStep, ReceiptStep, WritingStep, PendingStep, ProofStep DEF BaseInv, StepInv
<1>3. ASSUME NEW q \in Promoters, ~ Acts(q) PROVE StepInv(q)'
  BY <1>1, <1>3, Bystander, SameSource DEF Rests, BaseInv, StepInv, RunInv, ReceiptInv,
     PublishInv, PendingInv, ProofInv, Writing
<1>4. LocalTyped'
  <2>1. CASE \E p \in Promoters : Acts(p)
    BY <1>1, <2>1, LocalStep
  <2>2. CASE UNCHANGED <<local, pc>>
    BY <1>1, <2>2 DEF local, LocalTyped
  <2> QED
    BY <2>1, <2>2, Steps DEF Environment, Damage, Republish, OtherRun, vars
<1>5. ArtifactsInv' /\ LogTyped' /\ lapses' \in 0 .. MaxLapses
  BY <1>1, ArtifactsStep, LogStep, LapsesStep
<1> QED  BY <1>2, <1>3, <1>4, <1>5, TypeParts DEF BaseInv

LEMMA BaseInvariant == Spec => []BaseInv
  BY InitBase, BaseStep, HistoryInvariant, PTL DEF Spec

\* What promoters, runs and files can hold: whatever fails on the way, a receipt is of
\* one of the statuses that the service returns and names a revision there can be, a
\* run is in one of the states it goes through, and a file has what it is bound to or
\* is damaged (promotion_models.py:933-962; runs/models.py:55-72).
THEOREM PromotionTyped == Spec => []TypeOK
  BY BaseInvariant, PTL DEF BaseInv

-----------------------------------------------------------------------------
(* What is committed.  A receipt is of the kind of the step that gave it: from *)
(* the commit on, of one that says that canonical state changed.               *)

Committed == {"save"} \cup Concluding
Uncommitted == Untried \cup Deciding \cup {"apply"}

LEMMA Outcome ==
  ASSUME LocalTyped, NEW p \in Promoters, PublishInv(p), Acts(p), receipt'[p] # None
  PROVE  \/ receipt'[p] = receipt[p] /\ ~ Conclude(p)
         \/ /\ pc[p] \in Committed /\ receipt'[p].status \in Applied
            /\ receipt'[p].status = "promotion_applied" <=> Conclude(p) /\ ResultStands(p)
         \/ pc[p] \in Uncommitted /\ receipt'[p].status \notin Applied /\ ~ Conclude(p)
<1>0. /\ {"pre_apply_failure", "changeengine_rejected"} \subseteq Statuses \ Applied
      /\ {"promotion_applied", "run_transition_failed", "invalidation_persistence_failed",
          "invalidation_verification_failed", "result_provenance_failed"} \subseteq Applied
      /\ Applied \subseteq Statuses
  BY StatusNames
<1>a. ASSUME NEW status \in Statuses,
             \/ Return(p, status, FALSE, FALSE) \/ Return(p, status, TRUE, FALSE)
             \/ Return(p, status, TRUE, TRUE)
             \/ Fail(p, status, FALSE) \/ Fail(p, status, TRUE)
      PROVE  receipt'[p].status = status
  BY <1>a, Truths DEF Ends
<1>b. /\ \A step \in {"preflight", "recheck", "create", "decide", "deciding", "decided", "apply"} :
           step \in Uncommitted
      /\ \A step \in {"save", "invalidate", "confirm", "result", "resulting", "resulted"} :
           step \in Committed
  BY DEF Committed, Uncommitted, Untried, Deciding, Concluding
<1>c. Conclude(p) => pc[p] = "resulted"
  BY DEF Conclude
<1>1. CASE \/ PreflightSingle(p) \/ PreflightSingleV2(p) \/ PreflightMulti(p)
           \/ PreflightMultiV2(p) \/ Recheck(p) \/ CreateRun(p) \/ CreateRunFails(p)
  <2>1. pc[p] \in {"preflight", "recheck", "create"}
    BY <1>1 DEF Examine, PreflightSingle, PreflightSingleV2, PreflightMulti,
       PreflightMultiV2, Recheck, CreateRun, CreateRunFails
  <2>2. UNCHANGED receipt \/ Return(p, "pre_apply_failure", FALSE, FALSE)
    BY <1>1 DEF Examine, PreflightSingle, PreflightSingleV2, PreflightMulti,
       PreflightMultiV2, Recheck, CreateRun, CreateRunFails
  <2> QED  BY <2>1, <2>2, <1>0, <1>a, <1>b, <1>c
<1>2. CASE Decide(p) \/ Apply(p) \/ ApplyBreaks(p) \/ Decided(p)
  <2>1. pc[p] \in {"decide", "decided", "apply"}
    BY <1>2 DEF Decide, Apply, ApplyBreaks, Decided
  <2>2. \/ UNCHANGED receipt
        \/ \E status \in {"pre_apply_failure", "changeengine_rejected"} :
             Fail(p, status, FALSE) \/ Fail(p, status, TRUE)
    BY <1>2 DEF Decide, Apply, ApplyBreaks, Decided
  <2> QED  BY <2>1, <2>2, <1>0, <1>a, <1>b, <1>c
<1>3. CASE \/ SaveFails(p) \/ InvalidateFails(p) \/ Confirm(p) \/ ConfirmFails(p)
           \/ PublishResult(p)
  <2>1. pc[p] \in {"save", "invalidate", "confirm", "result"}
    BY <1>3 DEF SaveFails, InvalidateFails, Confirm, ConfirmFails, PublishResult
  <2>2. \/ UNCHANGED receipt \/ Die(p)
        \/ \E status \in Applied \ {"promotion_applied"} : Return(p, status, TRUE, FALSE)
    BY <1>3, <1>0 DEF SaveFails, InvalidateFails, Confirm, ConfirmFails, PublishResult, Applied
  <2>3. ~ Die(p)
    BY DEF Die, LocalTyped
  <2> QED  BY <2>1, <2>2, <2>3, <1>0, <1>a, <1>b, <1>c
<1>4. CASE PublishFails(p)
  <2>1. \/ Fail(p, "pre_apply_failure", FALSE) /\ pc[p] = "deciding"
        \/ Return(p, "result_provenance_failed", TRUE, FALSE) /\ pc[p] = "resulting"
        \/ UNCHANGED receipt /\ pc[p] # "resulted"
    BY <1>4 DEF PublishFails, PublishInv, Artifacts!GiveUp
  <2> QED  BY <2>1, <1>0, <1>a, <1>b, <1>c
<1>5. CASE Crash(p)
  <2>1. Die(p) \/ (UNCHANGED receipt /\ pc[p] \notin PromoteSteps)
    BY <1>5 DEF Crash
  <2>2. ~ Die(p)
    BY DEF Die, LocalTyped
  <2> QED  BY <2>1, <2>2, <1>c DEF PromoteSteps
<1>6. CASE Conclude(p)
  <2>1. Route(p) \in Routes
    BY Assumed DEF Route, Req, LocalTyped
  <2>2. CASE ResultStands(p)
    BY <1>0, <1>a, <1>b, <1>c, <1>6, <2>2 DEF Conclude
  <2>3. CASE ~ ResultStands(p)
    <3>1. \/ Return(p, "result_provenance_failed", TRUE, TRUE)
          \/ Return(p, "result_provenance_failed", TRUE, FALSE)
      BY <1>6, <2>1, <2>3 DEF Conclude, Routes
    <3> QED  BY <3>1, <1>0, <1>a, <1>b, <1>c, <1>6, <2>3
  <2> QED  BY <2>2, <2>3
<1>7. CASE \/ Save(p) \/ Invalidate(p) \/ FailRun(p) \/ Verify(p) \/ Proved(p) \/ Locate(p)
           \/ Located(p) \/ ProveFails(p) \/ WriteContent(p) \/ WriteMetadata(p)
           \/ \E verdict \in Kernels : Prove(p, verdict) \/ VerifyV2(p, verdict)
  <2>1. UNCHANGED receipt
    BY <1>7 DEF Save, Invalidate, FailRun, Verify, Proved, Locate, Located, ProveFails,
       WriteContent, WriteMetadata, Prove, VerifyV2, local
  <2>2. CASE WriteContent(p) \/ WriteMetadata(p)
    <3>1. publishing[p] # None
      BY <2>2 DEF WriteContent, WriteMetadata, Artifacts!WriteContent, Artifacts!WriteMetadata,
         Artifacts!At
    <3> QED  BY <2>1, <3>1, <1>c DEF PublishInv
  <2>3. CASE ~ WriteContent(p) /\ ~ WriteMetadata(p)
    <3>1. pc[p] # "resulted"
      BY <1>7, <2>3 DEF Save, Invalidate, FailRun, Verify, Proved, Locate, Located, ProveFails,
         Prove, VerifyV2, Goto
    <3> QED  BY <2>1, <3>1, <1>c
  <2> QED  BY <2>2, <2>3
<1>8. CASE FailRunRaises(p)
  BY <1>8 DEF FailRunRaises, Die, LocalTyped
<1> QED  BY <1>1, <1>2, <1>3, <1>4, <1>5, <1>6, <1>7, <1>8 DEF Acts

CommitInv(p) ==
  /\ Own(p) \subseteq {Source(p) + 1}
  /\ pc[p] \in Committed => Own(p) = {Source(p) + 1}
  /\ pc[p] \in Uncommitted => Own(p) = {}
  /\ receipt[p] # None =>
       Own(p) = IF receipt[p].status \in Applied THEN {Source(p) + 1} ELSE {}
  /\ run[p] # None /\ run[p].status = "failed" => Own(p) = {}
  /\ pending[p] # None => pending[p] = Source(p) + 1
  /\ Own(p) # {} => changes[Source(p) + 1] = {PathOf[Req(p).target]}

Once ==
  \A p, q \in Promoters :
    p # q /\ Req(p).target = Req(q).target => Own(p) = {} \/ Own(q) = {}

CommitsInv == BaseInv /\ Once /\ \A p \in Promoters : CommitInv(p)

LEMMA InitCommits == Init => CommitsInv
<1> SUFFICES ASSUME Init PROVE CommitsInv
  OBVIOUS
<1>1. author = << None >> /\ Len(changes) = 1
  BY DEF Init, Store!Init
<1>2. ASSUME NEW p \in Promoters PROVE Own(p) = {}
  BY <1>1, StoreAssumption DEF Own, Store!current
<1>3. ASSUME NEW p \in Promoters PROVE CommitInv(p)
  BY <1>2 DEF CommitInv, Committed, Concluding, Init, Store!Init
<1> QED  BY <1>2, <1>3, InitBase DEF CommitsInv, Once

\* What a step of a promoter adds to the history.
Adds(p) ==
  /\ pc[p] = "apply" /\ pc'[p] = "save"
  /\ Len(changes) = Source(p) /\ ~ Present(Req(p).target)
  /\ Own(p)' = Own(p) \cup {Source(p) + 1}
  /\ changes'[Source(p) + 1] = {PathOf[Req(p).target]}
  /\ pending'[p] = Source(p) + 1
  /\ UNCHANGED <<receipt, run, records>>

LEMMA CommitMoves ==
  ASSUME BaseInv, HistoryInv, NEW p \in Promoters, Acts(p)
  PROVE  \/ Adds(p)
         \/ /\ UNCHANGED <<changes, author>>
            /\ pc'[p] = "save" => pc[p] = "save"
            /\ pending'[p] \in {pending[p], None}
<1>1. LocalTyped /\ LogTyped /\ PublishInv(p)
  BY TypeParts DEF BaseInv, StepInv
<1>2. CASE Store!Commit(p, {PathOf[Req(p).target]}) /\ author' = Append(author, p) /\ Apply(p)
  <2>1. changes' # changes
    BY <1>2 DEF Store!Commit, HistoryInv
  <2>2. /\ Len(changes) = Source(p) /\ ~ Present(Req(p).target)
        /\ pc[p] = "apply" /\ pc'[p] = "save" /\ UNCHANGED <<receipt, run>>
    BY <1>1, <1>2, <2>1 DEF Apply, Goto, LocalTyped, Store!current
  <2>3. pending'[p] = Len(changes) + 1 /\ UNCHANGED records
    BY <1>2 DEF Store!Commit, Store!current, HistoryInv
  <2> QED  BY <1>1, <1>2, <2>2, <2>3, CommitOwns DEF Adds
<1>3. CASE UNCHANGED <<changes, author>> /\ pending'[p] \in {pending[p], None}
  <2>1. Apply(p) => pc'[p] = "fail"
    <3>1. ~ Store!Commit(p, {PathOf[Req(p).target]})
      BY <1>3 DEF Store!Commit, HistoryInv
    <3> QED  BY <1>1, <3>1 DEF Apply, Fail, LocalTyped
  <2>2. ASSUME ~ Apply(p) PROVE pc'[p] = "save" => pc[p] = "save"
    BY <1>1, <2>2, Transitions DEF Acts
  <2> QED  BY <1>3, <2>1, <2>2
<1>4. CASE \/ Store!RecordInvalidation(p) /\ UNCHANGED author
           \/ Store!Abandon(p) /\ UNCHANGED author
  BY <1>3, <1>4 DEF Store!RecordInvalidation, Store!Abandon, HistoryInv
<1> QED  BY <1>2, <1>3, <1>4, StoreMoves

\* A run fails only where its caller is about to say that nothing was changed.
LEMMA RunFails ==
  ASSUME BaseInv, NEW p \in Promoters, Acts(p), run'[p] # None, run'[p].status = "failed"
  PROVE  run'[p] = run[p] \/ pc[p] = "fail"
<1>1. LocalTyped /\ PublishInv(p) /\ RunInv(p) /\ StepInv(p)
  BY TypeParts DEF BaseInv, StepInv
<1>2. CASE FailRun(p) \/ FailRunRaises(p)
  BY <1>1, <1>2, Transitions
<1>3. CASE CreateRun(p)
  <2>1. run'[p] = run[p] \/ run'[p] = Created(p)
    BY <1>1, <1>3 DEF CreateRun, SetRun, Created, LocalTyped
  <2> QED  BY <2>1 DEF Created
<1>4. CASE Save(p) \/ SaveFails(p) \/ InvalidateFails(p)
  <2>1. pc[p] \in {"save", "invalidate"}
    BY <1>1, <1>4, Transitions
  <2>2. run[p] = Created(p) \/ run[p] = Moved(p)
    BY <1>1, <2>1 DEF RunInv, Concluding
  <2>3. Blocked(p).status = "blocked" /\ Advanced(p).status = "created"
    BY <2>2 DEF Blocked, Advanced, Created, Moved
  <2>4. run'[p] \in {run[p], Blocked(p), Advanced(p)}
    BY <1>1, <1>4 DEF Save, SaveFails, InvalidateFails, SetRun, LocalTyped
  <2> QED  BY <2>3, <2>4
<1> QED  BY <1>1, <1>2, <1>3, <1>4, RunMoves

LEMMA CommitInvStep ==
  ASSUME BaseInv, HistoryInv, NEW p \in Promoters, CommitInv(p), Acts(p), request' = request
  PROVE  CommitInv(p)'
<1>1. LocalTyped /\ StepInv(p) /\ PublishInv(p) /\ ReceiptInv(p) /\ RunInv(p) /\ PendingInv(p)
  BY TypeParts DEF BaseInv, StepInv
<1>2. Source(p)' = Source(p) /\ Req(p)' = Req(p)
  BY SameSource
<1>3. CASE Adds(p)
  <2>1. Own(p) = {} /\ receipt[p] = None /\ run[p].status = "created"
    BY <1>1, <1>3 DEF Adds, CommitInv, ReceiptInv, RunInv, Uncommitted, Created, VerifySteps
  <2>2. Own(p)' = {Source(p) + 1} /\ pc'[p] \notin Uncommitted
    BY <1>3, <2>1 DEF Adds, Uncommitted, Untried, Deciding
  <2> QED  BY <1>2, <1>3, <2>1, <2>2 DEF Adds, CommitInv
<1>4. CASE /\ UNCHANGED <<changes, author>>
           /\ pc'[p] = "save" => pc[p] = "save"
           /\ pending'[p] \in {pending[p], None}
  <2>1. Own(p)' = Own(p)
    BY <1>4 DEF Own, Store!current
  <2>2. pc'[p] \in Committed => pc[p] \in Committed
    BY <1>1, <1>4, Transitions DEF Acts, Committed, Concluding
  <2>3. pc'[p] \in Uncommitted => pc[p] \in Uncommitted
    BY <1>1, Transitions DEF Acts, Uncommitted, Untried, Deciding
  <2>4. receipt'[p] # None =>
          Own(p) = IF receipt'[p].status \in Applied THEN {Source(p) + 1} ELSE {}
    BY <1>1, Outcome DEF CommitInv
  <2>5. run'[p] # None /\ run'[p].status = "failed" => Own(p) = {}
    <3>1. pc[p] = "fail" => Own(p) = {}
      BY <1>1 DEF ReceiptInv, CommitInv
    <3> QED  BY <3>1, RunFails DEF CommitInv
  <2> QED  BY <1>2, <1>4, <2>1, <2>2, <2>3, <2>4, <2>5 DEF CommitInv
<1> QED  BY <1>3, <1>4, CommitMoves

LEMMA CommitsStep ==
  ASSUME CommitsInv, HistoryInv, [Next]_vars
  PROVE  CommitsInv'
<1>1. BaseInv /\ BaseInv' /\ request' = request /\ Grows
  BY BaseStep, GrowStep, RequestFixed DEF CommitsInv
<1>2. ASSUME NEW q \in Promoters, ~ Acts(q) PROVE CommitInv(q)'
  <2>1. Rests(q) /\ CommitInv(q)
    BY <1>1, <1>2, Bystander DEF CommitsInv
  <2>2. Own(q) # {} => changes'[Source(q) + 1] = changes[Source(q) + 1]
    BY <1>1, <2>1 DEF CommitInv, Own, Store!current, Grows
  <2> QED  BY <1>1, <2>1, <2>2, SameSource DEF Rests, CommitInv
<1>3. \A p \in Promoters : CommitInv(p)'
  BY <1>1, <1>2, CommitInvStep DEF CommitsInv
<1>4. Once'
  <2> SUFFICES ASSUME NEW p \in Promoters, NEW q \in Promoters, p # q,
                      Req(p).target = Req(q).target
               PROVE  Own(p)' = {} \/ Own(q)' = {}
    BY <1>1, SameSource DEF Once
  <2>1. Own(p) = {} \/ Own(q) = {}
    BY DEF CommitsInv, Once
  <2>2. ASSUME NEW r \in Promoters, NEW s \in Promoters, r # s, Acts(r),
               Req(r).target = Req(s).target, Own(r) = {} \/ Own(s) = {}
        PROVE  Own(r)' = {} \/ Own(s)' = {}
    <3>1. Own(s)' = Own(s)
      <4>1. LogTyped
        BY <1>1, TypeParts DEF BaseInv
      <4>2. Store!Commit(r, {PathOf[Req(r).target]}) /\ author' = Append(author, r)
              => Own(s)' = Own(s)
        BY <2>2, <4>1, CommitOwns
      <4>3. UNCHANGED <<changes, author>> => Own(s)' = Own(s)
        BY DEF Own, Store!current
      <4> QED
        BY <2>2, <4>2, <4>3, StoreMoves DEF Store!RecordInvalidation, Store!Abandon
    <3>2. CASE Adds(r)
      <4>1. Own(s) # {} => Present(Req(s).target)
        BY DEF CommitsInv, CommitInv, Own, Present
      <4> QED  BY <2>2, <3>1, <3>2, <4>1 DEF Adds
    <3>3. CASE UNCHANGED <<changes, author>>
      BY <2>2, <3>1, <3>3 DEF Own, Store!current
    <3> QED  BY <1>1, <2>2, <3>2, <3>3, CommitMoves
  <2>3. CASE ~ Acts(p) /\ ~ Acts(q)
    BY <1>1, <2>1, <2>3, Bystander DEF Rests
  <2> QED  BY <2>1, <2>2, <2>3
<1> QED  BY <1>1, <1>3, <1>4 DEF CommitsInv

LEMMA CommitsInvariant == Spec => []CommitsInv
  BY InitCommits, CommitsStep, HistoryInvariant, PTL DEF Spec

\* A receipt says truly whether canonical state changed, for any number of promoters
\* and whatever fails, dies or commits in between: it is given in the step that knows,
\* and a run is failed only from there (promotion.py:2713-2790, 3764-3767).
THEOREM ReceiptsAreTrue == Spec => []ReceiptIsTrue
<1>1. CommitsInv => ReceiptIsTrue
  BY DEF CommitsInv, CommitInv, BaseInv, StepInv, ReceiptInv, ReceiptIsTrue
<1> QED  BY <1>1, CommitsInvariant, PTL

\* A promotion changes the state that it was reviewed on, by its mechanism, and one
\* mechanism is promoted once: that it is the list item of its name is enough, since
\* nothing removes one (promotion.py:2740-2790; runs/controller.py:179-191;
\* changes/engine.py:145-151).
THEOREM PromotionAppliesTheReviewed == Spec => []AppliedAsReviewed
<1>1. CommitsInv => AppliedAsReviewed
  BY DEF CommitsInv, CommitInv, Once, AppliedAsReviewed
<1> QED  BY <1>1, CommitsInvariant, PTL

-----------------------------------------------------------------------------
(* What is on disk in the run of a promotion: its decision before the commit, *)
(* its result after the record, and its locator after the proof.              *)

LEMMA MetadataMoves ==
  ASSUME BaseInv, NEW p \in Promoters, Acts(p), NEW i \in Ids
  PROVE  \/ metadata'[p][i] = metadata[p][i]
         \/ /\ pc[p] = "deciding" /\ i = request[p]
            /\ metadata'[p][i] = [bytes |-> request[p], bound |-> Source(p)]
         \/ /\ pc[p] = "resulting" /\ pc'[p] = "resulted" /\ i = "result"
            /\ metadata'[p][i] = [bytes |-> request[p], bound |-> Source(p) + 1]
         \/ /\ pc[p] = "locating" /\ pc'[p] = "located" /\ i = "locator"
            /\ metadata'[p][i] = [bytes |-> request[p], bound |-> Source(p) + 1]
<1>1. /\ LocalTyped /\ ArtifactsInv /\ PublishInv(p) /\ p # "canonical" /\ p \in Scopes
      /\ "canonical" \in Scopes
  BY TypeParts, Assumed, Publishable DEF BaseInv, StepInv, LocalTyped
<1>2. CASE Artifacts!WriteMetadata(p) /\ WriteMetadata(p)
  <2>1. publishing[p] # None /\ publishing[p] \in Writes
    BY <1>1, <1>2 DEF Artifacts!WriteMetadata, Artifacts!At, ArtifactsInv
  <2>2. PICK s \in Scopes, j \in Ids, bytes \in Bytes, bound \in Store!Revisions :
          Writing(p, s, j, bytes, bound)
    BY <2>1 DEF Writes, Writing
  <2>3. metadata' = [metadata EXCEPT ![s][j] = [bytes |-> bytes, bound |-> bound]]
    BY <1>2, <2>2 DEF Artifacts!WriteMetadata, Writing
  <2>4. metadata'[p][i] = IF s = p /\ j = i THEN [bytes |-> bytes, bound |-> bound]
                          ELSE metadata[p][i]
    BY <1>1, <2>3 DEF ArtifactsInv
  <2>5. /\ pc[p] \in {"deciding", "resulting", "proving", "locating"}
        /\ pc[p] = "resulting" => pc'[p] = "resulted"
        /\ pc[p] = "locating" => pc'[p] = "located"
    BY <1>1, <1>2, <2>1, Transitions DEF PublishInv
  <2> QED  BY <1>1, <2>2, <2>4, <2>5 DEF PublishInv, Writing
<1>3. CASE UNCHANGED metadata
  BY <1>3
<1> QED
  BY <1>2, <1>3, ArtifactMoves DEF Artifacts!Publish, Artifacts!WriteContent, Artifacts!GiveUp

LEMMA ResultMetadata ==
  ASSUME BaseInv, NEW p \in Promoters, Acts(p),
         metadata'[p]["result"] # metadata[p]["result"]
  PROVE  /\ pc[p] = "resulting" /\ pc'[p] = "resulted"
         /\ metadata'[p]["result"] = [bytes |-> request[p], bound |-> Source(p) + 1]
<1>1. "result" \in Ids /\ request[p] # "result"
  BY TypeParts, Publishable DEF BaseInv, LocalTyped
<1> QED  BY <1>1, MetadataMoves

DecisionInv(p) ==
  /\ metadata[p][request[p]] # None =>
       metadata[p][request[p]] = [bytes |-> request[p], bound |-> Source(p)]
  /\ pc[p] = "apply" \/ Own(p) # {} =>
       metadata[p][request[p]] # None /\ content[p][request[p]] # None

ResultInv(p) ==
  /\ pc[p] \in {"result", "resulting", "resulted"} => records[Source(p) + 1] # None
  /\ metadata[p]["result"] # None =>
       /\ metadata[p]["result"].bound = Source(p) + 1
       /\ pc[p] \in {"resulted", "done", "dead"} \cup VerifySteps
       /\ Own(p) = {Source(p) + 1} /\ records[Source(p) + 1] # None
       /\ run[p] = Moved(p)
  /\ receipt[p] # None /\ receipt[p].status = "promotion_applied" =>
       metadata[p]["result"] # None

LocatorInv(p) ==
  /\ pc[p] \in VerifySteps => receipt[p].status = "promotion_applied"
  /\ verification[p] = "verified" \/ metadata[p]["locator"] # None =>
       /\ kernel[p] = "verified_clear"
       /\ receipt[p] # None /\ receipt[p].status = "promotion_applied"

FilesInv == \A p \in Promoters : DecisionInv(p) /\ ResultInv(p) /\ LocatorInv(p)

LEMMA InitFiles == Init => FilesInv
<1> SUFFICES ASSUME Init, NEW p \in Promoters
             PROVE  DecisionInv(p) /\ ResultInv(p) /\ LocatorInv(p)
  BY DEF FilesInv
<1>1. /\ request \in [Promoters -> DOMAIN Requests] /\ Own(p) = {}
      /\ pc[p] = "preflight" /\ receipt[p] = None /\ verification[p] = None
  BY InitCommits DEF Init, CommitsInv, BaseInv, TypeOK, CommitInv, Uncommitted, Untried
<1>2. \A i \in Ids : metadata[p][i] = None
  BY ArtifactAssumption DEF Init, Artifacts!Init
<1>3. None # "verified"
  BY StoreAssumption DEF Reports
<1> QED  BY <1>1, <1>2, <1>3, Publishable DEF DecisionInv, ResultInv, LocatorInv, VerifySteps

LEMMA DecisionStep ==
  ASSUME CommitsInv, HistoryInv, [Next]_vars, NEW p \in Promoters, DecisionInv(p)
  PROVE  DecisionInv(p)'
<1>1. /\ BaseInv /\ LocalTyped /\ ArtifactsInv /\ PublishInv(p) /\ Grows
      /\ request' = request /\ request[p] \in Ids /\ request[p] \in Bytes /\ p \in Scopes
      /\ request[p] \notin {"result", "locator"} /\ Source(p)' = Source(p)
  BY TypeParts, GrowStep, RequestFixed, SameSource, Publishable
     DEF CommitsInv, BaseInv, StepInv, LocalTyped
<1>2. CASE ~ Acts(p)
  BY <1>1, <1>2, Bystander DEF Rests, DecisionInv, Grows
<1>3. CASE Acts(p)
  <2>1. \/ metadata'[p][request[p]] = metadata[p][request[p]]
        \/ metadata'[p][request[p]] = [bytes |-> request[p], bound |-> Source(p)]
    BY <1>1, <1>3, MetadataMoves
  <2>2. ASSUME DecisionStands(p)
        PROVE  metadata[p][request[p]] # None /\ content[p][request[p]] # None
    BY <1>1, <2>2, ArtifactAssumption DEF DecisionStands, Artifacts!Verified, DecisionInv
  <2>3. pc'[p] = "apply" => pc[p] = "apply" \/ DecisionStands(p)
    <3>1. Decided(p) /\ ~ DecisionStands(p) => pc'[p] = "fail"
      BY <1>1 DEF Decided, Fail, LocalTyped
    <3>2. pc'[p] = "apply" => pc[p] = "apply" \/ Decided(p)
      BY <1>1, <1>3, Transitions DEF Acts
    <3> QED  BY <3>1, <3>2
  <2>4. Own(p)' # {} => Own(p) # {} \/ pc[p] = "apply"
    BY <1>1, <1>3, CommitMoves DEF Adds, Own, Store!current
  <2>5. pc'[p] = "apply" \/ Own(p)' # {} =>
          metadata[p][request[p]] # None /\ content[p][request[p]] # None
    BY <2>2, <2>3, <2>4 DEF DecisionInv
  <2> QED  BY <1>1, <2>1, <2>5 DEF DecisionInv, Grows
<1> QED  BY <1>2, <1>3

LEMMA ReceiptKept ==
  ASSUME BaseInv, BaseInv', NEW p \in Promoters, Acts(p), pc[p] \in {"done"} \cup VerifySteps
  PROVE  receipt'[p] = receipt[p] /\ receipt[p] # None /\ pc'[p] \in {"done"} \cup VerifySteps
<1>1. LocalTyped /\ PublishInv(p) /\ ReceiptInv(p) /\ ReceiptInv(p)'
  BY TypeParts DEF BaseInv, StepInv
<1>2. pc'[p] \in {"done"} \cup VerifySteps
  BY <1>1, Transitions DEF Acts, VerifySteps, PromoteSteps
<1>3. receipt[p] # None /\ receipt'[p] # None
  BY <1>1, <1>2 DEF ReceiptInv
<1>4. pc[p] \notin Committed \cup Uncommitted
  BY DEF Committed, Uncommitted, Concluding, Deciding, Untried, VerifySteps
<1> QED  BY <1>1, <1>2, <1>3, <1>4, Outcome

LEMMA ResultStep ==
  ASSUME CommitsInv, HistoryInv, [Next]_vars, NEW p \in Promoters, ResultInv(p)
  PROVE  ResultInv(p)'
<1>1. /\ BaseInv /\ BaseInv' /\ LocalTyped /\ ArtifactsInv /\ StepInv(p) /\ CommitInv(p)
      /\ PublishInv(p) /\ RunInv(p) /\ ReceiptInv(p) /\ Grows
      /\ request' = request /\ Source(p)' = Source(p) /\ Moved(p)' = Moved(p)
      /\ "result" \in Ids /\ p \in Scopes /\ Source(p) + 1 \in Store!Revisions
  BY TypeParts, BaseStep, GrowStep, RequestFixed, SameSource, Publishable
     DEF CommitsInv, BaseInv, StepInv, LocalTyped
<1>2. CASE ~ Acts(p)
  BY <1>1, <1>2, Bystander DEF Rests, ResultInv, Grows
<1>3. CASE Acts(p)
  <2>1. pc'[p] \in {"result", "resulting", "resulted"} => records[Source(p) + 1] # None
    <3>1. Confirm(p) /\ records[Source(p) + 1] = None => pc'[p] = "done"
      <4>1. Confirm(p) => run[p].active = Source(p) + 1
        BY <1>1 DEF Confirm, RunInv, Concluding, Moved
      <4> QED  BY <1>1, <4>1 DEF Confirm, Return, LocalTyped
    <3>2. pc'[p] \in {"result", "resulting", "resulted"} =>
            pc[p] \in {"result", "resulting", "resulted"} \/ Confirm(p)
      BY <1>1, <1>3, Transitions DEF Acts
    <3> QED  BY <3>1, <3>2 DEF ResultInv
  <2>2. ASSUME metadata[p]["result"] # None
        PROVE  /\ metadata'[p]["result"] = metadata[p]["result"]
               /\ pc'[p] \in {"resulted", "done", "dead"} \cup VerifySteps
               /\ Own(p)' = Own(p) /\ run'[p] = run[p]
    <3>1. pc[p] \in {"resulted", "done", "dead"} \cup VerifySteps
      BY <2>2 DEF ResultInv
    <3>2. metadata'[p]["result"] = metadata[p]["result"]
      <4>1. pc[p] # "resulting"
        BY <3>1 DEF VerifySteps
      <4> QED  BY <1>1, <1>3, <4>1, ResultMetadata
    <3>3. pc'[p] \in {"resulted", "done", "dead"} \cup VerifySteps
      BY <1>1, <1>3, <3>1, Transitions DEF Acts, VerifySteps
    <3>4. Own(p)' = Own(p)
      BY <1>1, <1>3, <3>1, CommitMoves DEF Adds, VerifySteps, Own, Store!current
    <3>5. UNCHANGED run
      <4>1. pc[p] \notin {"create", "save", "invalidate", "fail"}
        BY <3>1 DEF VerifySteps
      <4> QED  BY <1>1, <1>3, <4>1, RunMoves, Transitions
    <3> QED  BY <3>2, <3>3, <3>4, <3>5
  <2>3. ASSUME metadata'[p]["result"] # metadata[p]["result"]
        PROVE  /\ metadata'[p]["result"].bound = Source(p) + 1
               /\ pc[p] = "resulting" /\ pc'[p] = "resulted"
               /\ Own(p)' = {Source(p) + 1} /\ run'[p] = Moved(p)
    <3>1. /\ pc[p] = "resulting" /\ pc'[p] = "resulted"
          /\ metadata'[p]["result"] = [bytes |-> request[p], bound |-> Source(p) + 1]
      BY <1>1, <1>3, <2>3, ResultMetadata
    <3>2. Own(p) = {Source(p) + 1} /\ run[p] = Moved(p)
      BY <1>1, <3>1 DEF CommitInv, RunInv, Committed, Concluding
    <3>3. Own(p)' = Own(p)
      BY <1>1, <1>3, <3>1, CommitMoves DEF Adds, Own, Store!current
    <3>4. UNCHANGED run
      BY <1>1, <1>3, <3>1, RunMoves, Transitions
    <3> QED  BY <3>1, <3>2, <3>3, <3>4
  <2>4. metadata'[p]["result"] # None =>
          /\ metadata'[p]["result"].bound = Source(p) + 1
          /\ pc'[p] \in {"resulted", "done", "dead"} \cup VerifySteps
          /\ Own(p)' = {Source(p) + 1} /\ records'[Source(p) + 1] # None
          /\ run'[p] = Moved(p)
    BY <1>1, <2>1, <2>2, <2>3 DEF ResultInv, Grows
  <2>5. receipt'[p] # None /\ receipt'[p].status = "promotion_applied" =>
          metadata'[p]["result"] # None
    <3>1. ASSUME receipt'[p] # None, receipt'[p].status = "promotion_applied"
          PROVE  metadata[p]["result"] # None
      <4>1. \/ receipt'[p] = receipt[p]
            \/ Conclude(p) /\ ResultStands(p)
        BY <1>1, <1>3, <3>1, Outcome DEF Applied
      <4> QED  BY <3>1, <4>1 DEF ResultInv, ResultStands, Artifacts!Verified
    <3> QED  BY <1>1, <3>1 DEF Grows
  <2> QED  BY <1>1, <2>1, <2>4, <2>5 DEF ResultInv, Grows
<1> QED  BY <1>2, <1>3

\* A verification says "verified" after a proof that was clear.
LEMMA Verifies ==
  ASSUME LocalTyped, NEW p \in Promoters, PublishInv(p), Acts(p),
         verification'[p] = "verified"
  PROVE  \/ verification[p] = "verified"
         \/ Located(p)
         \/ \E verdict \in Kernels : VerifyV2(p, verdict) /\ verdict = "verified_clear"
<1>1. CASE \E verdict \in Kernels : Prove(p, verdict)
  BY <1>1 DEF Prove, Report, LocalTyped
<1>2. ASSUME NEW verdict \in Kernels, VerifyV2(p, verdict)
      PROVE  verdict = "verified_clear"
  BY <1>2 DEF VerifyV2, Report, Conclusion, Kernels, LocalTyped
<1>3. CASE Verify(p) \/ Proved(p) \/ Locate(p) \/ ProveFails(p) \/ PublishFails(p)
  BY <1>3 DEF Verify, Proved, Locate, ProveFails, PublishFails, Report, LocalTyped
<1>4. CASE \/ PreflightSingle(p) \/ PreflightSingleV2(p) \/ Recheck(p)
           \/ PreflightMulti(p) \/ PreflightMultiV2(p) \/ CreateRun(p) \/ CreateRunFails(p)
           \/ Decide(p) \/ Decided(p) \/ Apply(p) \/ ApplyBreaks(p) \/ Save(p)
           \/ SaveFails(p) \/ Invalidate(p) \/ InvalidateFails(p)
           \/ Confirm(p) \/ ConfirmFails(p) \/ PublishResult(p) \/ Conclude(p)
           \/ FailRun(p) \/ FailRunRaises(p)
           \/ WriteContent(p) \/ WriteMetadata(p) \/ Crash(p)
  BY <1>4 DEF Examine, PreflightSingle, PreflightSingleV2, Recheck, PreflightMulti,
     PreflightMultiV2, CreateRun, CreateRunFails, Decide, Decided, Apply, ApplyBreaks, Save,
     SaveFails, Invalidate, InvalidateFails, Confirm, ConfirmFails, PublishResult, Conclude,
     FailRun, FailRunRaises, WriteContent, WriteMetadata, Crash, local
<1> QED  BY <1>1, <1>2, <1>3, <1>4 DEF Acts

LEMMA LocatorStep ==
  ASSUME CommitsInv, HistoryInv, [Next]_vars, NEW p \in Promoters, LocatorInv(p)
  PROVE  LocatorInv(p)'
<1>1. /\ BaseInv /\ BaseInv' /\ LocalTyped /\ StepInv(p)
      /\ PublishInv(p) /\ ReceiptInv(p) /\ ReceiptInv(p)' /\ ProofInv(p)
      /\ "locator" \in Ids /\ request[p] # "locator"
  BY TypeParts, BaseStep, Publishable DEF CommitsInv, BaseInv, StepInv, LocalTyped
<1>2. CASE ~ Acts(p)
  BY <1>1, <1>2, Bystander DEF Rests, LocatorInv
<1>3. CASE Acts(p)
  <2>1. pc'[p] \in VerifySteps => receipt'[p].status = "promotion_applied"
    <3>1. Verify(p) /\ receipt[p].status # "promotion_applied" => pc'[p] = "done"
      BY <1>1 DEF Verify, Report, LocalTyped
    <3>2. pc'[p] \in VerifySteps =>
            pc[p] \in VerifySteps \/ (Verify(p) /\ pc[p] = "done")
      BY <1>1, <1>3, Transitions DEF Acts, VerifySteps
    <3>3. pc[p] \in {"done"} \cup VerifySteps => receipt'[p] = receipt[p]
      BY <1>1, <1>3, ReceiptKept
    <3>4. "done" \notin VerifySteps
      BY DEF VerifySteps
    <3> QED  BY <3>1, <3>2, <3>3, <3>4 DEF LocatorInv
  <2>2. ASSUME kernel[p] = "verified_clear"
        PROVE  kernel'[p] = "verified_clear"
    <3>1. None # "verified_clear"
      BY ArtifactAssumption DEF Bytes, Kernels
    <3> QED  BY <1>1, <1>3, <2>2, <3>1, ProofMoves DEF LocalTyped
  <2>3. ASSUME verification[p] = "verified" \/ metadata[p]["locator"] # None
        PROVE  /\ kernel'[p] = "verified_clear"
               /\ receipt'[p] # None /\ receipt'[p].status = "promotion_applied"
    <3>1. /\ kernel[p] = "verified_clear" /\ receipt[p] # None
          /\ receipt[p].status = "promotion_applied"
      BY <2>3 DEF LocatorInv
    <3>2. pc[p] \in {"done"} \cup VerifySteps
      BY <1>1, <3>1 DEF ReceiptInv, Applied
    <3> QED  BY <1>1, <1>3, <2>2, <3>1, <3>2, ReceiptKept
  <2>4. ASSUME metadata'[p]["locator"] # metadata[p]["locator"]
        PROVE  /\ kernel'[p] = "verified_clear"
               /\ receipt'[p] # None /\ receipt'[p].status = "promotion_applied"
    <3>1. pc[p] = "locating"
      BY <1>1, <1>3, <2>4, MetadataMoves
    <3>2. pc[p] \in VerifySteps
      BY <3>1 DEF VerifySteps
    <3> QED
      BY <1>1, <1>3, <2>2, <3>1, <3>2, ReceiptKept DEF LocatorInv, ProofInv
  <2>5. ASSUME verification'[p] = "verified", verification[p] # "verified"
        PROVE  /\ kernel'[p] = "verified_clear"
               /\ receipt'[p] # None /\ receipt'[p].status = "promotion_applied"
    <3>1. CASE Located(p)
      <4>1. pc[p] = "located" /\ pc[p] \in VerifySteps
        BY <3>1 DEF Located, VerifySteps
      <4> QED
        BY <1>1, <1>3, <2>2, <4>1, ReceiptKept DEF LocatorInv, ProofInv
    <3>2. CASE \E verdict \in Kernels : VerifyV2(p, verdict) /\ verdict = "verified_clear"
      <4>1. /\ pc[p] = "done" /\ receipt[p].status = "promotion_applied"
            /\ kernel'[p] = "verified_clear"
        BY <1>1, <3>2 DEF VerifyV2, LocalTyped
      <4> QED  BY <1>1, <1>3, <4>1, ReceiptKept
    <3> QED  BY <1>1, <1>3, <2>5, <3>1, <3>2, Verifies
  <2> QED  BY <2>1, <2>3, <2>4, <2>5 DEF LocatorInv
<1> QED  BY <1>2, <1>3

LEMMA FilesInvariant == Spec => []FilesInv
<1>1. CommitsInv /\ HistoryInv /\ [Next]_vars /\ FilesInv => FilesInv'
  BY DecisionStep, ResultStep, LocatorStep DEF FilesInv
<1> QED  BY <1>1, InitFiles, CommitsInvariant, HistoryInvariant, PTL DEF Spec

\* No mechanism enters the state without the decision that was on disk before it: the
\* decision is read back whole, and nothing published goes away again
\* (promotion.py:2692-2741; promotion_artifacts.py:782-812; artifacts/storage.py:43-76).
THEOREM DecisionIsOnDisk == Spec => []DecisionPrecedesCommit
<1>1. CommitsInv /\ FilesInv => DecisionPrecedesCommit
  BY DEF FilesInv, DecisionInv, DecisionPrecedesCommit
<1> QED  BY <1>1, CommitsInvariant, FilesInvariant, PTL

\* What a result says of a run stays so: it is published last, and no step after it
\* touches the run, the record or the revision (promotion.py:2791-2840;
\* promotion_artifacts.py:1479-1641).
THEOREM ResultIsPublishedLast == Spec => []ResultIsLast
<1>1. FilesInv => ResultIsLast
  BY DEF FilesInv, ResultInv, ResultIsLast, Moved
<1> QED  BY <1>1, FilesInvariant, PTL

\* A locator, or the verdict "verified", is there only for what was promoted and was
\* proved clear as it was promoted: a mechanism has one verdict, and a receipt does not
\* change once it is returned (promotion.py:4149-4799; provenance_artifacts.py:3269-3428).
THEOREM LocatorsMeanProved == Spec => []LocatorMeansProved
<1>1. CommitsInv /\ FilesInv => LocatorMeansProved
  <2> SUFFICES ASSUME CommitsInv, FilesInv, NEW p \in Promoters,
                      verification[p] = "verified" \/ metadata[p]["locator"] # None
               PROVE  /\ kernel[p] = "verified_clear"
                      /\ receipt[p].status = "promotion_applied"
                      /\ receipt[p].applied \in Own(p)
                      /\ metadata[p]["result"] # None /\ records[receipt[p].applied] # None
    BY DEF LocatorMeansProved
  <2>1. /\ kernel[p] = "verified_clear" /\ receipt[p] # None
        /\ receipt[p].status = "promotion_applied"
    BY DEF FilesInv, LocatorInv
  <2>2. receipt[p].status \in Applied
    BY <2>1 DEF Applied
  <2>3. receipt[p].applied = Source(p) + 1 /\ Own(p) = {Source(p) + 1}
    BY <2>1, <2>2 DEF CommitsInv, CommitInv, BaseInv, StepInv, ReceiptInv
  <2>4. metadata[p]["result"] # None /\ records[Source(p) + 1] # None
    BY <2>1 DEF FilesInv, ResultInv
  <2> QED  BY <2>1, <2>3, <2>4
<1> QED  BY <1>1, CommitsInvariant, FilesInvariant, PTL

-----------------------------------------------------------------------------
(* What is found again.  Where a promoter writes nobody else does, so that a file *)
(* stays as it is until it is damaged; what is not damaged is then whole, and a   *)
(* record is held by the runs that had a reason to publish it.                    *)

IsWriting(p, s, i) ==
  publishing[p] # None /\ publishing[p].scope = s /\ publishing[p].id = i

WritesContent(p, s, i) ==
  /\ IsWriting(p, s, i) /\ publishing[p].step = "content"
  /\ IsWriting(p, s, i)' /\ publishing'[p].step = "metadata"
  /\ publishing'[p].bytes = publishing[p].bytes
  /\ content'[s][i] = publishing[p].bytes /\ metadata'[s][i] = metadata[s][i]

WritesMetadata(p, s, i) ==
  /\ IsWriting(p, s, i) /\ publishing[p].step = "metadata" /\ publishing'[p] = None
  /\ content'[s][i] = content[s][i]
  /\ metadata'[s][i] = [bytes |-> publishing[p].bytes, bound |-> publishing[p].bound]

Damaged(s, i) ==
  /\ content[s][i] # None /\ metadata[s][i] # None
  /\ content'[s][i] = Garbled /\ metadata'[s][i] = metadata[s][i]

Copied(s, i) ==
  /\ s = "other" /\ content[s][i] = None /\ metadata[s][i] = None
  /\ content'[s][i] \in Bytes /\ metadata'[s][i].bytes = content'[s][i]

LEMMA FileMoves ==
  ASSUME BaseInv, [Next]_vars, NEW s \in Scopes, NEW i \in Ids
  PROVE  \/ content'[s][i] = content[s][i] /\ metadata'[s][i] = metadata[s][i]
         \/ \E p \in Promoters : WritesContent(p, s, i) \/ WritesMetadata(p, s, i)
         \/ Damaged(s, i)
         \/ Copied(s, i)
<1>1. LocalTyped /\ ArtifactsInv
  BY TypeParts DEF BaseInv
<1>2. ASSUME NEW p \in Promoters, Artifacts!WriteContent(p)
      PROVE  \/ content'[s][i] = content[s][i] /\ metadata'[s][i] = metadata[s][i]
             \/ WritesContent(p, s, i)
  <2>1. /\ publishing[p] # None /\ publishing[p] \in Writes
        /\ publishing[p].step = "content" /\ UNCHANGED metadata
        /\ content' = [content EXCEPT ![publishing[p].scope][publishing[p].id] =
                         publishing[p].bytes]
    BY <1>1, <1>2 DEF Artifacts!WriteContent, Artifacts!At, ArtifactsInv
  <2>2. publishing[p].scope \in Scopes /\ publishing[p].id \in Ids
    BY <2>1 DEF Writes
  <2>3. publishing'[p] = [publishing[p] EXCEPT !.step = "metadata"]
    BY <1>1, <1>2 DEF Artifacts!WriteContent, ArtifactsInv
  <2>4. /\ publishing'[p] \in Writes /\ publishing'[p].scope = publishing[p].scope
        /\ publishing'[p].id = publishing[p].id /\ publishing'[p].step = "metadata"
        /\ publishing'[p].bytes = publishing[p].bytes /\ publishing'[p] # None
    BY <2>1, <2>3, ArtifactAssumption DEF Writes
  <2> QED  BY <1>1, <2>1, <2>2, <2>4 DEF ArtifactsInv, WritesContent, IsWriting
<1>3. ASSUME NEW p \in Promoters, Artifacts!WriteMetadata(p)
      PROVE  \/ content'[s][i] = content[s][i] /\ metadata'[s][i] = metadata[s][i]
             \/ WritesMetadata(p, s, i)
  <2>1. /\ publishing[p] # None /\ publishing[p] \in Writes
        /\ publishing[p].step = "metadata" /\ UNCHANGED content
        /\ metadata' = [metadata EXCEPT ![publishing[p].scope][publishing[p].id] =
                          [bytes |-> publishing[p].bytes, bound |-> publishing[p].bound]]
    BY <1>1, <1>3 DEF Artifacts!WriteMetadata, Artifacts!At, ArtifactsInv
  <2>2. publishing[p].scope \in Scopes /\ publishing[p].id \in Ids
    BY <2>1 DEF Writes
  <2>3. publishing'[p] = None
    BY <1>1, <1>3 DEF Artifacts!WriteMetadata, ArtifactsInv
  <2> QED  BY <1>1, <2>1, <2>2, <2>3 DEF ArtifactsInv, WritesMetadata, IsWriting
<1>4. ASSUME NEW t \in Scopes, NEW j \in Ids, Artifacts!Damage(t, j)
      PROVE  \/ content'[s][i] = content[s][i] /\ metadata'[s][i] = metadata[s][i]
             \/ Damaged(s, i)
  <2>1. metadata[t][j] # None /\ content[t][j] # None
    BY <1>1, <1>4, ArtifactAssumption
       DEF Artifacts!Damage, Artifacts!Verified, ArtifactsInv, Stamps
  <2> QED  BY <1>1, <1>4, <2>1 DEF Artifacts!Damage, ArtifactsInv, Damaged
<1>5. ASSUME NEW t \in Scopes, NEW j \in Ids, NEW bound,
             Artifacts!Republish(t, "other", j, bound)
      PROVE  \/ content'[s][i] = content[s][i] /\ metadata'[s][i] = metadata[s][i]
             \/ Copied(s, i)
  <2>1. content[t][j] \in Bytes /\ "other" \in Scopes
    BY <1>1, <1>5 DEF Artifacts!Republish, Artifacts!Verified, ArtifactsInv, Stamps, Scopes
  <2>2. content["other"][j] = None /\ metadata["other"][j] = None
    BY <1>5 DEF Artifacts!Republish, Artifacts!Absent
  <2> QED  BY <1>1, <1>5, <2>1, <2>2 DEF Artifacts!Republish, ArtifactsInv, Copied
<1>6. CASE \E p \in Promoters : Acts(p)
  BY <1>2, <1>3, <1>6, ArtifactMoves DEF Artifacts!Publish, Artifacts!GiveUp
<1>7. CASE Environment
  BY <1>4, <1>5, <1>7 DEF Environment, Damage, Republish
<1>8. CASE UNCHANGED vars \/ \E w \in Others, paths \in ChangeSets : OtherRun(w, paths)
  BY <1>8 DEF vars, OtherRun
<1> QED  BY <1>6, <1>7, <1>8, Steps

\* Two promoters never write the same file: their runs are their own, and a mechanism
\* is proved by the one that promoted it.
LEMMA OneWriter ==
  ASSUME CommitsInv, FilesInv, NEW p \in Promoters, NEW q \in Promoters \ {p},
         NEW s, NEW i, IsWriting(p, s, i)
  PROVE  ~ IsWriting(q, s, i) /\ s # "other"
<1>1. /\ PublishInv(p) /\ PublishInv(q) /\ LocalTyped
      /\ p \notin {"canonical", "other"} /\ q \notin {"canonical", "other"}
  BY Assumed, TypeParts DEF CommitsInv, BaseInv, StepInv
<1>2. /\ s \in {p, "canonical"}
      /\ s = "canonical" => pc[p] = "proving" /\ i = CanonicalId(p)
  BY <1>1 DEF PublishInv, Writing, IsWriting
<1>3. SUFFICES ASSUME IsWriting(q, s, i) PROVE FALSE
  BY <1>1, <1>2
<1>4. s = "canonical" /\ pc[q] = "proving" /\ CanonicalId(p) = CanonicalId(q)
      /\ pc[p] = "proving"
  BY <1>1, <1>2, <1>3 DEF PublishInv, Writing, IsWriting
<1>5. Req(p).target = Req(q).target
  <2>1. request[p] \in DOMAIN Requests /\ request[q] \in DOMAIN Requests
    BY <1>1 DEF LocalTyped
  <2> QED  BY <1>4, <2>1, PromotionAssumption DEF CanonicalId, Req
<1>6. ASSUME NEW r \in {p, q} PROVE Own(r) # {}
  <2>1. receipt[r].status = "promotion_applied" /\ receipt[r] # None
    BY <1>4 DEF FilesInv, LocatorInv, VerifySteps, CommitsInv, BaseInv, StepInv, ReceiptInv
  <2> QED  BY <2>1 DEF CommitsInv, CommitInv, Applied
<1> QED  BY <1>5, <1>6 DEF CommitsInv, Once

\* Of what is being published nothing is there but what has been written of it.
Unwritten(p) ==
  \A s \in Scopes, i \in Ids :
    IsWriting(p, s, i) =>
      /\ metadata[s][i] = None
      /\ publishing[p].step = "content" => content[s][i] = None
      /\ publishing[p].step = "metadata" => content[s][i] = publishing[p].bytes

UnwrittenInv == \A p \in Promoters : Unwritten(p)

\* A promoter begins to write what is absent, gets on, or writes no more.
LEMMA PublishingMoves ==
  ASSUME BaseInv, HistoryInv, [Next]_vars, NEW p \in Promoters
  PROVE  \/ publishing'[p] = publishing[p]
         \/ publishing'[p] = None
         \/ \E s \in Scopes, i \in Ids : WritesContent(p, s, i)
         \/ \E s \in Scopes, i \in Ids :
              /\ Artifacts!Absent(s, i) /\ UNCHANGED <<content, metadata>>
              /\ IsWriting(p, s, i)' /\ publishing'[p].step = "content"
<1>1. /\ LocalTyped /\ ArtifactsInv /\ request \in [Promoters -> DOMAIN Requests]
      /\ PublishInv(p)
  BY TypeParts DEF BaseInv, StepInv, LocalTyped
<1>2. ASSUME NEW s \in Scopes, NEW i \in Ids, NEW bytes \in Bytes,
             NEW bound \in Store!Revisions, Artifacts!Publish(p, s, i, bytes, bound)
      PROVE  /\ Artifacts!Absent(s, i) /\ UNCHANGED <<content, metadata>>
             /\ IsWriting(p, s, i)' /\ publishing'[p].step = "content"
  <2>1. publishing'[p].step = "content"
    BY <1>1, <1>2 DEF Artifacts!Publish, ArtifactsInv
  <2>2. Begun(p, s, i, bytes, bound)
    BY <1>1, <1>2, Begins
  <2>3. Artifacts!Absent(s, i) /\ UNCHANGED <<content, metadata>>
    BY <1>2 DEF Artifacts!Publish
  <2> QED  BY <2>1, <2>2, <2>3 DEF Begun, IsWriting
<1>3. CASE Artifacts!WriteContent(p)
  <2>1. /\ publishing[p] # None /\ publishing[p] \in Writes
        /\ publishing[p].step = "content" /\ UNCHANGED metadata
        /\ content' = [content EXCEPT ![publishing[p].scope][publishing[p].id] =
                         publishing[p].bytes]
        /\ publishing'[p] = [publishing[p] EXCEPT !.step = "metadata"]
    BY <1>1, <1>3 DEF Artifacts!WriteContent, Artifacts!At, ArtifactsInv
  <2>2. /\ publishing'[p] \in Writes /\ publishing'[p].scope = publishing[p].scope
        /\ publishing'[p].id = publishing[p].id /\ publishing'[p].step = "metadata"
        /\ publishing'[p].bytes = publishing[p].bytes /\ publishing'[p] # None
    BY <2>1, ArtifactAssumption DEF Writes
  <2>3. publishing[p].scope \in Scopes /\ publishing[p].id \in Ids
    BY <2>1 DEF Writes
  <2>4. WritesContent(p, publishing[p].scope, publishing[p].id)
    BY <1>1, <2>1, <2>2, <2>3 DEF ArtifactsInv, WritesContent, IsWriting
  <2> QED  BY <2>3, <2>4
<1>4. CASE Artifacts!WriteMetadata(p) \/ Artifacts!GiveUp(p)
  BY <1>1, <1>4 DEF Artifacts!WriteMetadata, Artifacts!GiveUp, ArtifactsInv
<1>5. CASE Acts(p)
  <2>1. request[p] \in Bytes /\ p \in Scopes /\ "canonical" \in Scopes /\ request[p] \in Ids
        /\ {"result", "locator", CanonicalId(p)} \subseteq Ids /\ Kernels \subseteq Bytes
        /\ Source(p) \in Store!Revisions /\ Source(p) + 1 \in Store!Revisions
    BY <1>1, Publishable
  <2>2. CASE UNCHANGED artifactVars
    BY <2>2
  <2>3. CASE \/ Artifacts!Publish(p, p, request[p], request[p], Source(p))
             \/ Artifacts!Publish(p, p, "result", request[p], Source(p) + 1)
             \/ Artifacts!Publish(p, p, "locator", request[p], Source(p) + 1)
    BY <1>2, <2>1, <2>3
  <2>4. CASE \E verdict \in Kernels :
               Artifacts!Publish(p, "canonical", CanonicalId(p), verdict, Source(p) + 1)
    BY <1>2, <2>1, <2>4
  <2> QED  BY <1>3, <1>4, <1>5, <2>2, <2>3, <2>4, ArtifactMoves
<1>6. CASE ~ Acts(p)
  BY <1>6, Bystander DEF Rests
<1> QED  BY <1>5, <1>6

LEMMA UnwrittenStep ==
  ASSUME CommitsInv, FilesInv, HistoryInv, UnwrittenInv, [Next]_vars
  PROVE  UnwrittenInv'
<1>1. BaseInv /\ LocalTyped /\ ArtifactsInv
  BY TypeParts DEF CommitsInv, BaseInv
<1> SUFFICES ASSUME NEW p \in Promoters, NEW s \in Scopes, NEW i \in Ids, IsWriting(p, s, i)'
             PROVE  /\ metadata'[s][i] = None
                    /\ publishing'[p].step = "content" => content'[s][i] = None
                    /\ publishing'[p].step = "metadata" =>
                         content'[s][i] = publishing'[p].bytes
  BY DEF UnwrittenInv, Unwritten
<1>2. ASSUME IsWriting(p, s, i)
      PROVE  /\ metadata[s][i] = None
             /\ publishing[p].step = "content" => content[s][i] = None
             /\ publishing[p].step = "metadata" => content[s][i] = publishing[p].bytes
             /\ \/ content'[s][i] = content[s][i] /\ metadata'[s][i] = metadata[s][i]
                \/ WritesContent(p, s, i) \/ WritesMetadata(p, s, i)
  <2>1. /\ metadata[s][i] = None
        /\ publishing[p].step = "content" => content[s][i] = None
        /\ publishing[p].step = "metadata" => content[s][i] = publishing[p].bytes
    BY <1>2 DEF UnwrittenInv, Unwritten
  <2>2. s # "other"
    <3>1. PublishInv(p) /\ p # "other"
      BY <1>1, Assumed DEF BaseInv, StepInv
    <3> QED  BY <1>2, <3>1 DEF PublishInv, Writing, IsWriting
  <2>3. ~ Damaged(s, i) /\ ~ Copied(s, i)
    BY <2>1, <2>2 DEF Damaged, Copied
  <2>4. \A q \in Promoters \ {p} : ~ WritesContent(q, s, i) /\ ~ WritesMetadata(q, s, i)
    BY <1>2, OneWriter DEF WritesContent, WritesMetadata
  <2> QED  BY <1>1, <2>1, <2>3, <2>4, FileMoves
<1>3. CASE publishing'[p] = publishing[p]
  <2>1. IsWriting(p, s, i)
    BY <1>3 DEF IsWriting
  <2>2. ~ WritesContent(p, s, i) /\ ~ WritesMetadata(p, s, i)
    BY <1>3, <2>1 DEF WritesContent, WritesMetadata, IsWriting
  <2> QED  BY <1>2, <1>3, <2>1, <2>2
<1>4. CASE publishing'[p] = None
  BY <1>4 DEF IsWriting
<1>5. ASSUME NEW t \in Scopes, NEW j \in Ids, WritesContent(p, t, j)
      PROVE  /\ metadata'[s][i] = None
             /\ publishing'[p].step = "metadata" /\ content'[s][i] = publishing'[p].bytes
  <2>1. t = s /\ j = i /\ IsWriting(p, s, i)
    BY <1>5 DEF WritesContent, IsWriting
  <2> QED  BY <1>2, <1>5, <2>1 DEF WritesContent
<1>6. ASSUME NEW t \in Scopes, NEW j \in Ids, Artifacts!Absent(t, j),
             UNCHANGED <<content, metadata>>, IsWriting(p, t, j)',
             publishing'[p].step = "content"
      PROVE  metadata'[s][i] = None /\ content'[s][i] = None
  <2>1. t = s /\ j = i
    BY <1>6 DEF IsWriting
  <2> QED  BY <1>6, <2>1 DEF Artifacts!Absent
<1> QED  BY <1>1, <1>3, <1>4, <1>5, <1>6, PublishingMoves

\* What is on disk stays as it is, but for damage.
Lasts ==
  \A s \in Scopes, i \in Ids :
    /\ content[s][i] # None => content'[s][i] \in {content[s][i], Garbled}
    /\ metadata[s][i] # None => metadata'[s][i] = metadata[s][i]

LEMMA LastingStep ==
  ASSUME BaseInv, UnwrittenInv, [Next]_vars
  PROVE  Lasts
<1> SUFFICES ASSUME NEW s \in Scopes, NEW i \in Ids
             PROVE  /\ content[s][i] # None => content'[s][i] \in {content[s][i], Garbled}
                    /\ metadata[s][i] # None => metadata'[s][i] = metadata[s][i]
  BY DEF Lasts
<1>1. ASSUME NEW p \in Promoters, WritesContent(p, s, i)
      PROVE  content[s][i] = None /\ metadata'[s][i] = metadata[s][i]
  BY <1>1 DEF WritesContent, UnwrittenInv, Unwritten
<1>2. ASSUME NEW p \in Promoters, WritesMetadata(p, s, i)
      PROVE  metadata[s][i] = None /\ content'[s][i] = content[s][i]
  BY <1>2 DEF WritesMetadata, UnwrittenInv, Unwritten
<1> QED  BY <1>1, <1>2, FileMoves DEF Damaged, Copied


\* Undamaged, a file with metadata is whole.
StoredInv ==
  \A s \in Scopes, i \in Ids :
    metadata[s][i] # None => content[s][i] \in {metadata[s][i].bytes, Garbled}

LEMMA StoredStep ==
  ASSUME BaseInv, UnwrittenInv, StoredInv, [Next]_vars
  PROVE  StoredInv'
<1> SUFFICES ASSUME NEW s \in Scopes, NEW i \in Ids, metadata'[s][i] # None
             PROVE  content'[s][i] \in {metadata'[s][i].bytes, Garbled}
  BY DEF StoredInv
<1>1. metadata[s][i] # None => content[s][i] \in {metadata[s][i].bytes, Garbled}
  BY DEF StoredInv
<1>2. ASSUME NEW p \in Promoters, WritesContent(p, s, i)
      PROVE  FALSE
  BY <1>2 DEF WritesContent, UnwrittenInv, Unwritten
<1>3. ASSUME NEW p \in Promoters, WritesMetadata(p, s, i)
      PROVE  content'[s][i] = metadata'[s][i].bytes
  BY <1>3 DEF WritesMetadata, UnwrittenInv, Unwritten
<1> QED  BY <1>1, <1>2, <1>3, FileMoves DEF Damaged, Copied

\* A decision is held by the promoters of its request, a canonical record in its place.
HeldInv ==
  \A s \in Scopes \ {"other"} :
    /\ \A key \in DOMAIN Requests :
         metadata[s][key] # None => s \in Promoters /\ request[s] = key
    /\ \A id \in CanonicalIds : metadata[s][id] # None => s = "canonical"

\* What a promoter may be writing.
LEMMA WritesOwn ==
  ASSUME BaseInv, NEW p \in Promoters, NEW s, NEW i, IsWriting(p, s, i)
  PROVE  /\ \/ s = p /\ i \in {request[p], "result", "locator"}
            \/ s = "canonical" /\ i = CanonicalId(p)
         /\ request[p] \in DOMAIN Requests /\ CanonicalId(p) \in CanonicalIds
<1>1. request[p] \in DOMAIN Requests /\ PublishInv(p) /\ CanonicalId(p) \in CanonicalIds
  BY TypeParts, Publishable DEF BaseInv, LocalTyped, StepInv
<1> QED  BY <1>1 DEF PublishInv, Writing, IsWriting

LEMMA HeldStep ==
  ASSUME BaseInv, HeldInv, [Next]_vars
  PROVE  HeldInv'
<1>1. request' = request /\ "result" \notin CanonicalIds /\ "locator" \notin CanonicalIds
  BY RequestFixed, PromotionAssumption
<1> SUFFICES ASSUME NEW s \in Scopes \ {"other"}
             PROVE  /\ \A key \in DOMAIN Requests :
                         metadata'[s][key] # None => s \in Promoters /\ request[s] = key
                    /\ \A id \in CanonicalIds : metadata'[s][id] # None => s = "canonical"
  BY <1>1 DEF HeldInv
<1>2. ASSUME NEW i \in Ids
      PROVE  \/ metadata'[s][i] = metadata[s][i]
             \/ \E p \in Promoters : IsWriting(p, s, i)
  BY FileMoves DEF WritesContent, WritesMetadata, Damaged, Copied
<1>3. ASSUME NEW key \in DOMAIN Requests, metadata'[s][key] # None
      PROVE  s \in Promoters /\ request[s] = key
  <2>1. key \in Ids /\ key \notin CanonicalIds \cup {"result", "locator"}
    BY Assumed DEF Ids
  <2>2. ASSUME NEW p \in Promoters, IsWriting(p, s, key)
        PROVE  s = p /\ key = request[p]
    BY <2>1, <2>2, WritesOwn
  <2> QED  BY <1>2, <1>3, <2>1, <2>2 DEF HeldInv
<1>4. ASSUME NEW id \in CanonicalIds, metadata'[s][id] # None
      PROVE  s = "canonical"
  <2>1. id \in Ids /\ id \notin DOMAIN Requests
    BY Assumed DEF Ids
  <2>2. ASSUME NEW p \in Promoters, IsWriting(p, s, id)
        PROVE  s = "canonical"
    BY <1>1, <2>1, <2>2, WritesOwn
  <2> QED  BY <1>2, <1>4, <2>1, <2>2 DEF HeldInv
<1> QED  BY <1>3, <1>4

\* No file is damaged, and none was copied to a run that is nobody's here.
Undamaged ==
  \A s \in Scopes, i \in Ids :
    content[s][i] # Garbled /\ (s = "other" => content[s][i] = None)

LEMMA DamageLasts ==
  ASSUME Lasts, Undamaged'
  PROVE  Undamaged
<1> SUFFICES ASSUME NEW s \in Scopes, NEW i \in Ids
             PROVE  content[s][i] # Garbled /\ (s = "other" => content[s][i] = None)
  BY DEF Undamaged
<1>1. content'[s][i] # Garbled /\ (s = "other" => content'[s][i] = None)
  BY DEF Undamaged
<1>2. content[s][i] # None => content'[s][i] \in {content[s][i], Garbled}
  BY DEF Lasts
<1> QED  BY <1>1, <1>2, ArtifactAssumption

\* A lookup in the project, of what is found.
Finds(id, bound) ==
  /\ Artifacts!InProject(id)
  /\ \E s \in Artifacts!Holders(id) : metadata[s][id].bound = bound

LEMMA Resolving ==
  ASSUME NEW r, ChainId(r) \in SelectionIds
  PROVE  /\ SelectionResolves(r, State) <=> Finds(ChainId(r), r.source)
         /\ SelectionResolves(r, State)' <=> Finds(ChainId(r), r.source)'
<1>1. ChainId(r) \in Ids
  BY DEF Ids
<1>2. <<ChainId(r), r.source>> \in Trusted <=> Finds(ChainId(r), r.source)
  BY <1>1 DEF Trusted, Finds
<1>3. (<<ChainId(r), r.source>> \in Trusted)' <=> Finds(ChainId(r), r.source)'
  BY <1>1 DEF Trusted, Finds
<1>4. State.trusted = Trusted /\ State.trusted' = Trusted'
  BY DEF State
<1> QED  BY <1>2, <1>3, <1>4 DEF SelectionResolves

\* The selections stay where they are, and bound to what they are.
LEMMA SelectionKept ==
  ASSUME BaseInv, BaseInv', [Next]_vars, Undamaged', NEW r, ChainId(r) \in SelectionIds,
         SelectionResolves(r, State)
  PROVE  SelectionResolves(r, State)'
<1> DEFINE id == ChainId(r)
<1>1. id \in Ids /\ id \notin DOMAIN Requests \cup CanonicalIds \cup {"result", "locator"}
  BY Assumed, PromotionAssumption DEF Ids, SelectionIds
<1>2. ASSUME NEW s \in Scopes
      PROVE  content'[s][id] = content[s][id] /\ metadata'[s][id] = metadata[s][id]
  <2>1. \A p \in Promoters : ~ IsWriting(p, s, id)
    BY <1>1, WritesOwn
  <2>2. ~ Damaged(s, id)
    BY <1>1 DEF Damaged, Undamaged
  <2>3. ~ Copied(s, id)
    BY <1>1, ArtifactAssumption DEF Copied, Undamaged
  <2> QED  BY <1>1, <2>1, <2>2, <2>3, FileMoves DEF WritesContent, WritesMetadata
<1>3. Artifacts!Holders(id)' = Artifacts!Holders(id)
  BY <1>2 DEF Artifacts!Holders, Artifacts!Verified
<1>4. \A s \in Artifacts!Holders(id) : s \in Scopes
  BY DEF Artifacts!Holders
<1>5. Finds(id, r.source)
  BY Resolving
<1>6. Finds(id, r.source)'
  BY <1>2, <1>3, <1>4, <1>5 DEF Finds, Artifacts!InProject
<1> QED  BY <1>6, Resolving

\* What a verification has seen on its way to its verdict.
ChainInv(p) ==
  /\ pc[p] \in VerifySteps => Route(p) = "single"
  /\ pc[p] \in {"proved", "locate", "locating", "located"} =>
       metadata["canonical"][CanonicalId(p)] # None
  /\ pc[p] \in VerifySteps /\ Undamaged => SelectionResolves(Req(p), State)
  /\ Route(p) = "single" /\ verification[p] = "verified" =>
       /\ metadata["canonical"][CanonicalId(p)] # None /\ metadata[p]["locator"] # None
       /\ Undamaged => SelectionResolves(Req(p), State)

ChainsInv ==
  /\ UnwrittenInv /\ StoredInv /\ HeldInv
  /\ \A p \in Promoters : ChainInv(p)

LEMMA InitChains == Init => ChainsInv
<1> SUFFICES ASSUME Init PROVE ChainsInv
  OBVIOUS
<1>1. UnwrittenInv
  BY DEF Init, Artifacts!Init, UnwrittenInv, Unwritten, IsWriting
<1>2. StoredInv
  BY DEF Init, Artifacts!Init, StoredInv
<1>3. HeldInv
  BY ArtifactAssumption DEF Init, Artifacts!Init, HeldInv, Ids
<1>4. ASSUME NEW p \in Promoters PROVE ChainInv(p)
  <2>1. pc[p] = "preflight" /\ verification[p] = None /\ None # "verified"
    BY StoreAssumption DEF Init, Reports
  <2> QED  BY <2>1 DEF ChainInv, VerifySteps
<1> QED  BY <1>1, <1>2, <1>3, <1>4 DEF ChainsInv

LEMMA ChainStep ==
  ASSUME CommitsInv, FilesInv, HistoryInv, ChainsInv, [Next]_vars, NEW p \in Promoters
  PROVE  ChainInv(p)'
<1>1. /\ BaseInv /\ BaseInv' /\ LocalTyped /\ LocalTyped' /\ ArtifactsInv /\ PublishInv(p)
      /\ Lasts /\ ChainInv(p) /\ request' = request
      /\ Req(p)' = Req(p) /\ Route(p)' = Route(p) /\ CanonicalId(p)' = CanonicalId(p)
      /\ CanonicalId(p) \in Ids /\ p \in Scopes /\ "canonical" \in Scopes
      /\ "locator" \in Ids
  BY TypeParts, BaseStep, LastingStep, RequestFixed, SameSource, Publishable
     DEF CommitsInv, BaseInv, StepInv, ChainsInv, LocalTyped, Route
<1>2. ASSUME NEW s \in Scopes, NEW i \in Ids, metadata[s][i] # None
      PROVE  metadata'[s][i] # None
  BY <1>1, <1>2 DEF Lasts
<1>3. ASSUME Undamaged', Route(p) = "single", Undamaged => SelectionResolves(Req(p), State)
      PROVE  SelectionResolves(Req(p), State)'
  <2>1. ChainId(Req(p)) \in SelectionIds
    BY <1>3 DEF ChainId, Route, SelectionIds
  <2>2. PICK r : r = Req(p)
    OBVIOUS
  <2>3. SelectionResolves(r, State)
    BY <1>1, <1>3, <2>2, DamageLasts
  <2>4. SelectionResolves(r, State)'
    BY <1>1, <1>3, <2>1, <2>2, <2>3, SelectionKept
  <2> QED  BY <1>1, <2>2, <2>4
<1>4. CASE ~ Acts(p)
  <2>1. pc'[p] = pc[p] /\ verification'[p] = verification[p]
    BY <1>1, <1>4, Bystander DEF Rests
  <2> QED  BY <1>1, <1>2, <1>3, <2>1 DEF ChainInv
<1>5. CASE Acts(p)
  <2>1. pc'[p] \in VerifySteps => pc[p] \in VerifySteps \/ (Verify(p) /\ pc[p] = "done")
    BY <1>1, <1>5, Transitions DEF Acts, VerifySteps
  <2>2. ASSUME pc'[p] \in VerifySteps
        PROVE  /\ Route(p) = "single"
               /\ Undamaged => SelectionResolves(Req(p), State)
    <3>1. CASE pc[p] \in VerifySteps
      BY <1>1, <3>1 DEF ChainInv
    <3>2. CASE Verify(p)
      <4>1. pc'[p] # "done"
        BY <2>2 DEF VerifySteps
      <4> QED  BY <1>1, <3>2, <4>1 DEF Verify, Report, LocalTyped
    <3> QED  BY <2>1, <2>2, <3>1, <3>2
  <2>3. ASSUME pc'[p] \in {"proved", "locate", "locating", "located"}
        PROVE  metadata'["canonical"][CanonicalId(p)] # None
    <3>1. CASE pc[p] \in {"proved", "locate", "locating", "located"}
      BY <1>1, <1>2, <3>1 DEF ChainInv
    <3>2. ASSUME NEW verdict \in Kernels, Prove(p, verdict), pc[p] = "prove"
          PROVE  metadata["canonical"][CanonicalId(p)] # None
      <4>1. Artifacts!Same("canonical", CanonicalId(p), verdict, Source(p) + 1)
        BY <1>1, <2>3, <3>2 DEF Prove, Goto, Report, LocalTyped
      <4>2. [bytes |-> verdict, bound |-> Source(p) + 1] \in Stamps
        BY <1>1, <3>2, Publishable DEF Stamps, LocalTyped
      <4> QED  BY <4>1, <4>2, ArtifactAssumption DEF Artifacts!Same
    <3>3. CASE WriteMetadata(p) /\ pc[p] = "proving"
      <4>1. /\ Artifacts!WriteMetadata(p) /\ publishing[p] # None
            /\ publishing[p] \in Writes
        BY <1>1, <3>3 DEF WriteMetadata, Artifacts!WriteMetadata, Artifacts!At, ArtifactsInv
      <4>2. publishing[p].scope = "canonical" /\ publishing[p].id = CanonicalId(p)
        BY <1>1, <3>3 DEF PublishInv
      <4>3. metadata'["canonical"][CanonicalId(p)] =
              [bytes |-> publishing[p].bytes, bound |-> publishing[p].bound]
        BY <1>1, <4>1, <4>2 DEF Artifacts!WriteMetadata, ArtifactsInv
      <4>4. [bytes |-> publishing[p].bytes, bound |-> publishing[p].bound] \in Stamps
        BY <4>1 DEF Writes, Stamps
      <4> QED  BY <4>3, <4>4, ArtifactAssumption
    <3>4. \/ pc[p] \in {"proved", "locate", "locating", "located"}
          \/ pc[p] = "prove" /\ \E verdict \in Kernels : Prove(p, verdict)
          \/ WriteMetadata(p) /\ pc[p] = "proving"
      BY <1>1, <1>5, <2>3, Transitions DEF Acts
    <3> QED  BY <1>1, <1>2, <3>1, <3>2, <3>3, <3>4
  <2>4. ASSUME Route(p) = "single", verification'[p] = "verified"
        PROVE  /\ metadata'["canonical"][CanonicalId(p)] # None
               /\ metadata'[p]["locator"] # None
               /\ Undamaged => SelectionResolves(Req(p), State)
    <3>1. CASE verification[p] = "verified"
      BY <1>1, <1>2, <2>4, <3>1 DEF ChainInv
    <3>2. CASE Located(p)
      <4>1. pc[p] = "located" /\ pc[p] \in VerifySteps
        BY <3>2 DEF Located, VerifySteps
      <4>2. verification[p] = "verified" \/ Artifacts!Verified(p, "locator")
        BY <1>1, <2>4, <3>2 DEF Located, Report, LocalTyped
      <4> QED  BY <1>1, <1>2, <3>1, <4>1, <4>2 DEF ChainInv, Artifacts!Verified
    <3>3. ~ \E verdict \in Kernels : VerifyV2(p, verdict)
      BY <2>4 DEF VerifyV2
    <3> QED  BY <1>1, <1>5, <2>4, <3>1, <3>2, <3>3, Verifies
  <2> QED  BY <1>1, <1>3, <2>2, <2>3, <2>4 DEF ChainInv
<1> QED  BY <1>4, <1>5

LEMMA ChainsInvariant == Spec => []ChainsInv
<1>1. CommitsInv /\ FilesInv /\ HistoryInv /\ [Next]_vars /\ ChainsInv => ChainsInv'
  BY UnwrittenStep, StoredStep, HeldStep, ChainStep DEF ChainsInv, CommitsInv
<1> QED
  BY <1>1, InitChains, CommitsInvariant, FilesInvariant, HistoryInvariant, PTL DEF Spec

\* Published files are never written over, whoever retries, dies or verifies again:
\* content stays or is damaged, metadata stays (artifacts/storage.py:43-76;
\* promotion_artifacts.py:710-812; provenance_artifacts.py:3269-3428).
THEOREM PublishedFilesLast == Spec => [][Lasts]_vars
<1>1. CommitsInv /\ ChainsInv /\ [Next]_vars => Lasts
  BY LastingStep DEF CommitsInv, ChainsInv
<1> QED  BY <1>1, CommitsInvariant, ChainsInvariant, PTL DEF Spec

LEMMA SameCardinality == \A S : Artifacts!Cardinality(S) = Cardinality(S)
  BY DEF Artifacts!Cardinality, Cardinality

\* Undamaged, a file is held by exactly one run where one run only could publish it.
LEMMA HeldOnce ==
  ASSUME StoredInv, Undamaged, ArtifactsInv, NEW i \in Ids, NEW s \in Scopes,
         metadata[s][i] # None,
         \A t \in Scopes \ {s, "other"} : metadata[t][i] = None
  PROVE  Artifacts!Verified(s, i) /\ Artifacts!InProject(i)
<1>1. ASSUME NEW t \in Scopes
      PROVE  Artifacts!Verified(t, i) <=> metadata[t][i] # None
  BY DEF StoredInv, Undamaged, Artifacts!Verified
<1>2. metadata["other"][i] = None /\ "other" \in Scopes
  <2>1. "other" \in Scopes
    BY DEF Scopes
  <2>2. content["other"][i] = None /\ None # Garbled
    BY <2>1, ArtifactAssumption DEF Undamaged
  <2>3. metadata["other"][i] \in Stamps \cup {None}
    BY <2>1 DEF ArtifactsInv
  <2> QED  BY <2>1, <2>2, <2>3, ArtifactAssumption DEF StoredInv, Stamps
<1>3. Artifacts!Holders(i) = {s}
  BY <1>1, <1>2 DEF Artifacts!Holders
<1>4. Cardinality({s}) = 1
  BY FS_Singleton
<1>5. Artifacts!InProject(i)
  BY <1>3, <1>4, SameCardinality DEF Artifacts!InProject
<1> QED  BY <1>1, <1>5

\* The chain of a verified promotion is found from its locator as long as no file is
\* damaged or copied, unless its request was decided in another run too: every file of
\* the chain is then whole and, its id being one run's to publish, held only there
\* (provenance_artifacts.py:3107-3150, 3524-3599).
THEOREM VerifiedChainsAreFound == Spec => []VerifiedIsFound
<1>1. CommitsInv /\ FilesInv /\ ChainsInv => VerifiedIsFound
  <2> SUFFICES ASSUME CommitsInv, FilesInv, ChainsInv, NEW p \in Promoters,
                      Route(p) = "single", verification[p] = "verified", Undamaged,
                      \A q \in Promoters \ {p} :
                        request[q] = request[p] => ~ Artifacts!Verified(q, request[p])
               PROVE  ChainFromRoot(p)
    BY DEF VerifiedIsFound, Undamaged
  <2>1. /\ ArtifactsInv /\ StoredInv /\ HeldInv /\ ChainInv(p) /\ LocatorInv(p)
        /\ ResultInv(p) /\ DecisionInv(p) /\ CommitInv(p) /\ p \in Scopes
        /\ request[p] \in Ids /\ request[p] \in DOMAIN Requests
        /\ {"result", "locator", CanonicalId(p)} \subseteq Ids
        /\ CanonicalId(p) \in CanonicalIds /\ "canonical" \in Scopes
    BY TypeParts, Publishable
       DEF CommitsInv, BaseInv, ChainsInv, FilesInv, LocalTyped
  <2>2. ASSUME NEW s \in Scopes, NEW i \in Ids
        PROVE  Artifacts!Verified(s, i) <=> metadata[s][i] # None
    BY <2>1 DEF StoredInv, Undamaged, Artifacts!Verified
  <2>3. /\ metadata[p]["locator"] # None /\ metadata[p]["result"] # None
        /\ metadata[p][request[p]] # None
    <3>1. receipt[p] # None /\ receipt[p].status = "promotion_applied"
      BY <2>1 DEF LocatorInv
    <3>2. Own(p) # {}
      BY <2>1, <3>1 DEF CommitInv, Applied
    <3> QED  BY <2>1, <3>1, <3>2 DEF ChainInv, ResultInv, DecisionInv
  <2>4. Artifacts!InProject(request[p])
    <3>1. ASSUME NEW t \in Scopes \ {p, "other"} PROVE metadata[t][request[p]] = None
      BY <2>1, <2>2 DEF HeldInv
    <3> QED  BY <2>1, <2>3, <3>1, HeldOnce
  <2>5. Artifacts!InProject(CanonicalId(p))
    <3>1. ASSUME NEW t \in Scopes \ {"canonical", "other"}
          PROVE  metadata[t][CanonicalId(p)] = None
      BY <2>1 DEF HeldInv
    <3>2. metadata["canonical"][CanonicalId(p)] # None
      BY <2>1 DEF ChainInv
    <3> QED  BY <2>1, <3>1, <3>2, HeldOnce
  <2>6. SelectionResolves(Req(p), State)
    BY <2>1 DEF ChainInv
  <2> QED  BY <2>1, <2>2, <2>3, <2>4, <2>5, <2>6 DEF ChainFromRoot
<1> QED  BY <1>1, CommitsInvariant, FilesInvariant, ChainsInvariant, PTL

-----------------------------------------------------------------------------
(* What is accepted *)

Coherent(r) ==
  /\ SourceOf(r.candidate) = r.source
  /\ r.route \in {"single", "single2"} =>
       /\ r.evaluation.candidate = r.candidate /\ r.evaluation.outcome = "feasible"
       /\ r.selection.candidate = r.candidate /\ r.selection.evaluation = r.evaluation
  /\ r.route \in {"multi", "multi2"} =>
       /\ r.mrequest.candidate = r.candidate /\ r.mevaluation.request = r.mrequest
       /\ r.mselection.evaluation = r.mevaluation
  /\ r.route # "multi2" =>
       r.m12.candidate = r.candidate /\ r.m12.status = "admissible"

\* A candidate is not feasible with a drive that is not admissible.
LEMMA FeasibleDrive ==
  ASSUME NEW candidate, NEW e, Selectable(candidate, e), e.m12.status \in M12Statuses
  PROVE  /\ e.candidate = candidate /\ e.outcome = "feasible"
         /\ e.m12.candidate = candidate /\ e.m12.status = "admissible"
<1> DEFINE hard == Hard(e.m12, e.m10, e.required)
           unresolved == Unresolved(e.m12, e.cad, e.m10, e.required, e.m10_request)
<1>1. /\ e.candidate = candidate /\ e.outcome = "feasible" /\ e.m12.candidate = candidate
      /\ Verdict(e.m12, e.cad, e.m10, e.required, e.m10_request)
           = [outcome |-> e.outcome, findings |-> e.findings]
  BY DEF Selectable, WellFormed
<1>2. hard = {} /\ unresolved = {}
  <2> HIDE DEF hard, unresolved
  <2>1. "feasible" = IF hard # {} THEN "infeasible"
                     ELSE IF unresolved # {} THEN "unresolved" ELSE "feasible"
    BY <1>1 DEF Verdict, hard, unresolved
  <2> QED  BY <2>1
<1>3. e.m12.status # "inadmissible"
  BY <1>2 DEF Hard
<1>4. e.m12.status # "unresolved"
  BY <1>2 DEF Unresolved
<1> QED  BY <1>1, <1>3, <1>4 DEF M12Statuses

LEMMA ReadyIsCoherent ==
  ASSUME NEW r, NEW state, NEW present, r.route \in Routes, Ready(r, state, present)
  PROVE  Coherent(r)
<1>1. CASE r.route = "single"
  BY <1>1 DEF Ready, ReadySingle, RequestHolds, VerifyM12, VerifyEvaluation, Coherent
<1>2. CASE r.route = "multi"
  BY <1>2 DEF Ready, ReadyMulti, MultiRequestHolds, MultiAdmits, Coherent
<1>3. CASE r.route = "single2"
  <2>1. ReadySingleV2(r, state) /\ SelectionMatchesV2(r, state)
    BY <1>3 DEF Ready, Provenance
  <2>2. PICK selection : selection = Publications["selection2"]
    OBVIOUS
  <2>3. /\ Selectable(selection.candidate, selection.evaluation)
        /\ selection.evaluation.m12.status \in M12Statuses
    BY <2>2, PublicationAssumption
  <2>4. LET e == selection.evaluation
        IN /\ e.candidate = selection.candidate /\ e.outcome = "feasible"
           /\ e.m12.candidate = selection.candidate /\ e.m12.status = "admissible"
    BY <2>3, FeasibleDrive
  <2>5. /\ r.selection = selection /\ r.candidate = selection.candidate
        /\ r.evaluation = selection.evaluation /\ r.m12 = selection.evaluation.m12
        /\ SourceOf(r.candidate) = r.source
    BY <2>1, <2>2 DEF SelectionMatchesV2, ReadySingleV2
  <2> QED  BY <1>3, <2>4, <2>5 DEF Coherent
<1>4. CASE r.route = "multi2"
  <2>1. ReadyMultiV2(r, state) /\ MultiMatchesV2(r, state)
    BY <1>4 DEF Ready, Provenance
  <2>2. PICK motion : motion = Publications["multi_selection"]
    OBVIOUS
  <2>3. motion.request.candidate = motion.candidate /\ motion.evaluation.request = motion.request
    BY <2>2, PublicationAssumption
  <2>4. /\ r.mselection = motion /\ r.candidate = motion.candidate
        /\ r.mevaluation = motion.evaluation /\ r.mrequest = motion.request
        /\ SourceOf(r.candidate) = r.source
    BY <2>1, <2>2 DEF MultiMatchesV2, ReadyMultiV2
  <2> QED  BY <1>4, <2>3, <2>4 DEF Coherent
<1> QED  BY <1>1, <1>2, <1>3, <1>4 DEF Routes

AcceptedInv ==
  \A p \in Promoters : pc[p] \in {"recheck", "create", "decide"} => Coherent(Req(p))

LEMMA AcceptedStep ==
  ASSUME BaseInv, HistoryInv, AcceptedInv, [Next]_vars, NEW p \in Promoters,
         pc'[p] \in {"recheck", "create", "decide"}
  PROVE  Coherent(Req(p))
<1>1. LocalTyped /\ PublishInv(p) /\ Route(p) \in Routes /\ Route(p) = Req(p).route
  BY TypeParts, Assumed DEF BaseInv, StepInv, LocalTyped, Route, Req
<1>2. CASE ~ Acts(p)
  BY <1>2, Bystander DEF Rests, AcceptedInv
<1>3. CASE \/ PreflightSingle(p) \/ PreflightSingleV2(p)
           \/ PreflightMulti(p) \/ PreflightMultiV2(p)
  <2>1. Cleared(p)
    BY <1>1, <1>3 DEF PreflightSingle, PreflightSingleV2, PreflightMulti, PreflightMultiV2,
       Examine, Return, LocalTyped
  <2> QED  BY <1>1, <2>1, ReadyIsCoherent DEF Cleared
<1>4. ASSUME Acts(p), ~ PreflightSingle(p), ~ PreflightSingleV2(p), ~ PreflightMulti(p),
             ~ PreflightMultiV2(p)
      PROVE  pc[p] \in {"recheck", "create", "decide"}
  BY <1>1, <1>4, Transitions DEF Acts
<1> QED  BY <1>2, <1>3, <1>4 DEF AcceptedInv

\* Every route asks enough, in its own place and of its own records, for its request to
\* be about one candidate: the routes of the first version of the records that come
\* with the request, those of the second of the selection that is published, which was
\* checked when it was (promotion.py:371-468, 5130-5193, 5493-5540).
THEOREM AcceptedRequestsCohere == Spec => []AcceptedIsCoherent
<1>1. Init => AcceptedInv
  BY DEF Init, AcceptedInv
<1>2. BaseInv /\ HistoryInv /\ AcceptedInv /\ [Next]_vars => AcceptedInv'
  <2> SUFFICES ASSUME BaseInv, HistoryInv, AcceptedInv, [Next]_vars, NEW p \in Promoters,
                      pc'[p] \in {"recheck", "create", "decide"}
               PROVE  Coherent(Req(p)')
    BY DEF AcceptedInv, Coherent, SourceOf
  <2>1. Req(p)' = Req(p)
    BY RequestFixed, SameSource
  <2> QED  BY <2>1, AcceptedStep
<1>3. AcceptedInv => AcceptedIsCoherent
  BY DEF AcceptedInv, AcceptedIsCoherent, Coherent, Route
<1> QED  BY <1>1, <1>2, <1>3, BaseInvariant, HistoryInvariant, PTL DEF Spec
=============================================================================

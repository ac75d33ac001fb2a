--------------------------- MODULE RunControlProofs ---------------------------
(***************************************************************************)
(* Whatever runs do, for any tasks, limits and failures, the evidence      *)
(* store sees only what EvidenceStore allows: the theorems about that      *)
(* module hold of the store the runs share.                                *)
(***************************************************************************)
EXTENDS RunControl, FiniteSetTheorems, TLAPS

USE DEF Store!vars, storeVars

LEMMA RefinedInit == Init => Store!Init
  BY DEF Init

\* A commit or a record of a run, or of another one, is one of a writer.
LEMMA WriterStep ==
  ASSUME NEW w \in Runs \cup Others,
         \/ \E paths \in ChangeSets : Store!Commit(w, paths)
         \/ Store!RecordInvalidation(w)
         \/ Store!Abandon(w)
  PROVE  Store!Next
  BY DEF Store!Next

LEMMA DeliverStep ==
  ASSUME NEW t \in Tasks, Deliver(t)
  PROVE  Store!Next \/ UNCHANGED Store!vars
  BY DEF Deliver, Store!Next

\* A run is judging the evidence of a node.
Gating(k) ==
  \/ \E node \in Required[k] : ListEvidence(k, node)
  \/ \E id \in Tasks : AskFreshness(k, id)
  \/ ReadRecords(k) \/ Judge(k)

LEMMA GatingStep ==
  ASSUME NEW k \in Runs, Gating(k)
  PROVE  Store!Next \/ UNCHANGED Store!vars
<1>1. ASSUME NEW node, ListEvidence(k, node) PROVE UNCHANGED Store!vars
  BY <1>1 DEF ListEvidence
<1>2. ASSUME NEW id \in Tasks, AskFreshness(k, id) PROVE Store!Next
  BY <1>2 DEF AskFreshness, Store!Next
<1>3. ASSUME ReadRecords(k) \/ Judge(k) PROVE Store!Next
  BY <1>3 DEF ReadRecords, Judge, Store!Next
<1> QED  BY <1>1, <1>2, <1>3 DEF Gating

LEMMA RefinedNext ==
  ASSUME [Next]_vars
  PROVE  [Store!Next]_(Store!vars)
<1>1. CASE UNCHANGED vars
  BY <1>1 DEF vars
<1>2. ASSUME NEW t \in Tasks, AddTask(t)
      PROVE  UNCHANGED Store!vars
  BY <1>2 DEF AddTask
<1>3. ASSUME NEW w \in Others, OtherRun(w)
      PROVE  Store!Next
  <2>1. w \in Runs \cup Others
    OBVIOUS
  <2> QED  BY <1>3, <2>1, WriterStep DEF OtherRun
<1>4. ASSUME NEW k \in Runs,
             \/ CreateRun(k) \/ CreatePlan(k) \/ FailRun(k) \/ BeginApply(k)
             \/ BeginExecute(k) \/ BeginEvaluate(k) \/ Refuse(k) \/ MarkStale(k)
             \/ Select(k) \/ SweepNothing(k) \/ Complete(k)
             \/ \E t \in Tasks : Start(k, t) \/ Sweep(k, t)
             \/ \E n \in 0 .. Len(TaskOrder) : MarkFails(k, n)
      PROVE  UNCHANGED Store!vars
  BY <1>4 DEF CreateRun, CreatePlan, FailRun, BeginApply, BeginExecute, BeginEvaluate,
       Refuse, MarkStale, Select, Start, Sweep,
       SweepNothing, Complete, MarkFails
<1>5. ASSUME NEW k \in Runs, NEW paths \in ChangeSets, Apply(k, paths)
      PROVE  Store!Next
  BY <1>5, WriterStep DEF Apply
<1>6. ASSUME NEW k \in Runs, Save(k)
      PROVE  Store!Next \/ UNCHANGED Store!vars
  <2>1. Store!Abandon(k) \/ UNCHANGED storeVars
    BY <1>6 DEF Save
  <2> QED  BY <2>1, WriterStep
<1>7. ASSUME NEW k \in Runs, Invalidate(k)
      PROVE  Store!Next
  BY <1>7, WriterStep DEF Invalidate
<1>8. ASSUME NEW k \in Runs, NEW t \in Tasks, Succeed(k, t) \/ FailTask(k, t)
      PROVE  Store!Next \/ UNCHANGED Store!vars
  BY <1>8, DeliverStep DEF Succeed, FailTask, Finish
<1>9. ASSUME NEW k \in Runs, SaveFails(k) \/ InvalidateFails(k)
      PROVE  Store!Next
  BY <1>9, WriterStep DEF SaveFails, InvalidateFails
<1>10. ASSUME NEW k \in Runs, Crash(k)
       PROVE  Store!Next \/ UNCHANGED Store!vars
  <2>1. Store!Abandon(k) \/ Store!Dismiss(k) \/ UNCHANGED storeVars
    BY <1>10 DEF Crash
  <2>2. Store!Dismiss(k) => Store!Next
    BY DEF Store!Next
  <2> QED  BY <2>1, <2>2, WriterStep
<1> QED
  BY <1>1, <1>2, <1>3, <1>4, <1>5, <1>6, <1>7, <1>8, <1>9, <1>10, GatingStep
     DEF Next, Continue, Gating

\* Every behaviour of the runs is one of the evidence store alone, each step a
\* step of one of its writers or none: no record of a revision the run did not
\* commit, none rewritten, no evidence overwritten (controller.py:173-217).
THEOREM Composition == Spec => ImplementsEvidenceStore
<1>1. Init => Store!Init
  BY RefinedInit
<1>2. [Next]_vars => [Store!Next]_(Store!vars)
  BY RefinedNext
<1> QED
  BY <1>1, <1>2, PTL DEF Spec, ImplementsEvidenceStore, Store!Spec

-----------------------------------------------------------------------------
(* The invariant of the store, in terms of this module. *)

SP == INSTANCE EvidenceStoreProofs WITH
  Writers <- Runs \cup Others, Queries <- Runs, EvidenceIds <- Tasks,
  Producers <- {}, writing <- [p \in {} |-> None]

LEMMA SameNodes == SP!Nodes = Store!Nodes
  BY DEF SP!Nodes, Store!Nodes

LEMMA SameRevisions == SP!Revisions = Store!Revisions
  BY DEF SP!Revisions, Store!Revisions

LEMMA SameEvidence == SP!Evidence = Store!Evidence
  BY SameNodes, SameRevisions DEF SP!Evidence, Store!Evidence

LEMMA SameImpact ==
  ASSUME NEW paths
  PROVE  SP!Impact(paths) = Store!Impact(paths)
  BY SameNodes DEF SP!Impact, Store!Impact, SP!Downstream, Store!Downstream, SP!Closed,
       Store!Closed, SP!Direct, Store!Direct, SP!PathMatches, Store!PathMatches

LEMMA StoreAssumptionHolds == SP!StoreAssumption
  BY StoreAssumption, SameNodes DEF Store!Revisions

LEMMA EvidenceAssumptionHolds == SP!EvidenceAssumption
  BY StoreAssumption, SameEvidence DEF SP!Writes, Store!Writes

LEMMA SameQuestion == SP!Question = Store!Question
  BY SameEvidence, SameRevisions DEF SP!Question, Store!Question, SP!Verdicts,
       Store!Verdicts

LEMMA QuestionAssumptionHolds == SP!QuestionAssumption
  BY StoreAssumption, SameQuestion DEF SP!Verdicts, Store!Verdicts

\* What a run has read of the records, and what it has been told of them.
QueriesInv ==
  /\ query \in [Runs -> Store!Question \cup {None}]
  /\ \A k \in Runs : query[k] # None =>
       /\ query[k].upto <= Len(changes)
       /\ query[k].verdict = "current" =>
            /\ query[k].file.hash = query[k].file.revision
            /\ \A r \in query[k].file.revision + 1 .. query[k].upto :
                 records[r] # None /\ query[k].file.kind \notin records[r]

HistoryInv ==
  /\ changes \in Seq(ChangeSets \cup {{}}) /\ Len(changes) \in Store!Revisions
  /\ records \in [Store!Revisions -> (SUBSET Store!Nodes) \cup {None}]
  /\ evidence \in [Tasks -> Store!Evidence \cup {None}]
  /\ pending \in [Runs \cup Others -> Store!Revisions \cup {None}]
  /\ \A r \in Store!Revisions : records[r] # None =>
       r \in 2 .. Len(changes) /\ records[r] = Store!Impact(changes[r])
  /\ \A w \in Runs \cup Others : pending[w] # None => pending[w] \in 2 .. Len(changes)
  /\ \A r \in 2 .. Len(changes) : changes[r] \in ChangeSets
  /\ QueriesInv

LEMMA HistoryInvariant == Spec => []HistoryInv
<1>1. Spec => SP!Spec
  <2>1. Init => SP!Init
    BY DEF Init, Store!Init, SP!Init, Store!Revisions, SP!Revisions
  <2>2. [Next]_vars => [SP!Next]_(SP!vars)
    <3>1. \A w \in Runs \cup Others :
            /\ \A paths \in ChangeSets : Store!Commit(w, paths) => SP!Commit(w, paths)
            /\ Store!RecordInvalidation(w) => SP!RecordInvalidation(w)
            /\ Store!Abandon(w) => SP!Abandon(w)
      BY SameImpact DEF Store!Commit, SP!Commit, Store!RecordInvalidation,
           SP!RecordInvalidation, Store!Abandon, SP!Abandon, Store!current, SP!current
    <3>2. \A t \in Tasks, file \in Store!Evidence :
            Store!WriteEvidence(t, file) => SP!WriteEvidence(t, file)
      BY DEF Store!WriteEvidence, SP!WriteEvidence, Store!current, SP!current
    <3>3. \A k \in Runs :
            /\ \A id \in Tasks : Store!Ask(k, id) => SP!Ask(k, id)
            /\ Store!Examine(k) => SP!Examine(k)
            /\ Store!Conclude(k) => SP!Conclude(k)
            /\ Store!Dismiss(k) => SP!Dismiss(k)
      BY DEF Store!Ask, SP!Ask, Store!Examine, SP!Examine, Store!Conclude, SP!Conclude,
           Store!Dismiss, SP!Dismiss, Store!Asking, SP!Asking, Store!current, SP!current
    <3>4. CASE Store!Next
      BY <3>1, <3>2, <3>3, <3>4, SameEvidence DEF Store!Next, SP!Next
    <3>5. CASE UNCHANGED Store!vars
      BY <3>5 DEF SP!vars
    <3> QED  BY <3>4, <3>5, RefinedNext
  <2> QED  BY <2>1, <2>2, PTL DEF Spec, SP!Spec
<1>2. SP!EvidenceInv => HistoryInv
  <2> SUFFICES ASSUME SP!EvidenceInv PROVE HistoryInv
    OBVIOUS
  <2>1. QueriesInv
    <3>1. query \in [Runs -> Store!Question \cup {None}]
      BY SameQuestion DEF SP!EvidenceInv, SP!TypeOK
    <3> SUFFICES ASSUME NEW k \in Runs, query[k] # None
                 PROVE  /\ query[k].upto <= Len(changes)
                        /\ query[k].verdict = "current" =>
                             /\ query[k].file.hash = query[k].file.revision
                             /\ \A r \in query[k].file.revision + 1 .. query[k].upto :
                                  records[r] # None /\ query[k].file.kind \notin records[r]
      BY <3>1 DEF QueriesInv
    <3>2. SP!QueryInv(k)
      BY DEF SP!EvidenceInv
    <3>3. /\ query[k].upto \in Nat /\ query[k].next \in Nat
          /\ query[k].file.revision \in Nat
      BY <3>1 DEF Store!Question, Store!Revisions, Store!Evidence
    <3> QED  BY <3>2, <3>3 DEF SP!QueryInv, SP!current
  <2> QED
    BY <2>1, SameRevisions, SameNodes, SameEvidence, SameImpact
       DEF SP!EvidenceInv, SP!TypeOK, SP!RecordsInv, HistoryInv, SP!current
<1> QED
  BY <1>1, <1>2, SP!EvidenceInvariant, StoreAssumptionHolds, EvidenceAssumptionHolds,
     QuestionAssumptionHolds, PTL

-----------------------------------------------------------------------------
(* What every step leaves as it was. *)

LEMMA StoreGrows ==
  ASSUME HistoryInv, [Next]_vars
  PROVE  /\ Len(changes) \in Nat /\ Len(changes) >= 1
         /\ Len(changes') \in Nat /\ Len(changes') >= Len(changes)
         /\ \A r \in 1 .. Len(changes) : changes'[r] = changes[r]
         /\ \A id \in Tasks : evidence[id] # None => evidence'[id] = evidence[id]
<1>1. Len(changes) \in Nat /\ Len(changes) >= 1
  BY DEF HistoryInv, Store!Revisions
<1>2. CASE Store!Next
  <2> DEFINE Commits == \E w \in Runs \cup Others, paths \in ChangeSets : Store!Commit(w, paths)
             Records == \E w \in Runs \cup Others :
                          Store!RecordInvalidation(w) \/ Store!Abandon(w)
             Writes == \E id \in Tasks, file \in Store!Evidence : Store!WriteEvidence(id, file)
             Asks == \E k \in Runs : \/ \E id \in Tasks : Store!Ask(k, id)
                                    \/ Store!Examine(k) \/ Store!Conclude(k) \/ Store!Dismiss(k)
  <2>1. CASE Commits
    BY <1>1, <2>1 DEF Store!Commit, HistoryInv
  <2>2. CASE Records
    BY <1>1, <2>2 DEF Store!RecordInvalidation, Store!Abandon
  <2>3. CASE Writes
    BY <1>1, <2>3 DEF Store!WriteEvidence, HistoryInv
  <2>4. CASE Asks
    BY <1>1, <2>4 DEF Store!Ask, Store!Examine, Store!Conclude, Store!Dismiss
  <2>5. Commits \/ Records \/ Writes \/ Asks
    BY <1>2 DEF Store!Next
  <2> HIDE DEF Commits, Records, Writes, Asks
  <2> QED  BY <2>1, <2>2, <2>3, <2>4, <2>5
<1>3. CASE UNCHANGED Store!vars
  BY <1>1, <1>3
<1> QED  BY <1>2, <1>3, RefinedNext

\* Marking tasks that exist keeps the type of the table of tasks.
LEMMA StatusSet ==
  ASSUME task \in [Tasks -> TaskStates \cup {None}],
         NEW ts \in SUBSET {t \in Tasks : task[t] # None}, NEW status \in TaskStatuses
  PROVE  /\ SetStatus(ts, status) \in [Tasks -> TaskStates \cup {None}]
         /\ \A t \in ts : /\ SetStatus(ts, status)[t] \in TaskStates
                          /\ SetStatus(ts, status)[t].bound = task[t].bound
                          /\ SetStatus(ts, status)[t].status = status
         /\ \A t \in Tasks \ ts : SetStatus(ts, status)[t] = task[t]
         /\ \A t \in Tasks : task[t] # None <=> SetStatus(ts, status)[t] # None
  BY StoreAssumption DEF SetStatus, TaskStates

LEMMA FirstIsOne ==
  ASSUME NEW ts, NEW t \in Tasks, NEW u \in Tasks, First(t, ts), First(u, ts)
  PROVE  t = u /\ t \in ts
<1>1. DOMAIN TaskOrder = 1 .. Len(TaskOrder) /\ Len(TaskOrder) \in Nat
  BY RunAssumption
<1>2. PICK i \in 1 .. Len(TaskOrder) :
        TaskOrder[i] = t /\ t \in ts /\ \A j \in 1 .. i - 1 : TaskOrder[j] \notin ts
  BY <1>1 DEF First
<1>3. PICK j \in 1 .. Len(TaskOrder) :
        TaskOrder[j] = u /\ u \in ts /\ \A m \in 1 .. j - 1 : TaskOrder[m] \notin ts
  BY <1>1 DEF First
<1>4. i = j
  BY <1>1, <1>2, <1>3
<1> QED  BY <1>2, <1>3, <1>4

-----------------------------------------------------------------------------
(* Types, who committed what, and where a run is. *)

AuthorInv == \A w \in Runs \cup Others : pending[w] # None => author[pending[w]] = w

StepInv(k) ==
  /\ pending[k] # None <=> pc[k] \in {"save", "invalidate"}
  /\ run[k] = None => pc[k] = "idle" /\ Own(k) = {}
  /\ pc[k] # "judge" => batch[k] \subseteq Defined(k)
  /\ pc[k] \in {"gate", "judge"} => gate[k] # None

BaseInv == TypeOK /\ AuthorInv /\ \A k \in Runs : StepInv(k)

LEMMA InitBase == Init => BaseInv
<1> SUFFICES ASSUME Init PROVE BaseInv
  OBVIOUS
<1>1. Len(changes) = 1
  BY DEF Init, Store!Init
<1>2. TypeOK
  BY <1>1, RunAssumption DEF TypeOK, Init, Steps, Store!current
<1>3. AuthorInv
  BY DEF AuthorInv, Init, Store!Init
<1>4. ASSUME NEW k \in Runs PROVE StepInv(k)
  BY <1>1, RunAssumption DEF StepInv, Own, Init, Store!Init, Store!current
<1> QED  BY <1>2, <1>3, <1>4 DEF BaseInv

USE DEF HistoryInv, BaseInv

LEMMA Assumed ==
  /\ \A t \in Tasks : RunOf[t] \in Runs /\ DependsOn[t] \subseteq Tasks
  /\ \A w \in Others : w \notin Runs
  /\ None \notin Runs \cup Others
  /\ MaxLapses \in Nat
  BY RunAssumption

LEMMA AdvancedType ==
  ASSUME NEW state \in RunStates, NEW revision \in Store!Revisions
  PROVE  Advanced(state, revision) \in RunStates
<1>1. ASSUME NEW a \in Store!Revisions, NEW i \in Nat, NEW seen \in SUBSET Store!Revisions,
             NEW status \in RunStatuses
      PROVE  [state EXCEPT !.active = a, !.iteration = i, !.seen = seen, !.status = status]
               \in RunStates
  BY DEF RunStates
<1>2. state.iteration + 1 \in Nat /\ state.seen \cup {revision} \in SUBSET Store!Revisions
  BY DEF RunStates
<1>3. (IF state.iteration + 1 > MaxIterations THEN "blocked" ELSE state.status) \in RunStatuses
  BY DEF RunStates, RunStatuses
<1> QED  BY <1>1, <1>2, <1>3 DEF Advanced

LEMMA StatusType ==
  ASSUME NEW state \in RunStates, NEW status \in RunStatuses
  PROVE  [state EXCEPT !.status = status] \in RunStates
  BY DEF RunStates

LocalTyped ==
  /\ pc \in [Runs -> Steps]
  /\ batch \in [Runs -> SUBSET Tasks]
  /\ gate \in [Runs -> Gates \cup {None}]

LEMMA LeaveTyped ==
  ASSUME LocalTyped, NEW k \in Runs, Leave(k)
  PROVE  LocalTyped'
  BY DEF LocalTyped, Leave, Steps

LEMMA GotoTyped ==
  ASSUME LocalTyped, NEW k \in Runs, NEW to \in Steps, pc' = [pc EXCEPT ![k] = to],
         batch' \in [Runs -> SUBSET Tasks], gate' \in [Runs -> Gates \cup {None}]
  PROVE  LocalTyped'
  BY DEF LocalTyped

LogTyped ==
  author \in Seq(Runs \cup Others \cup {None}) /\ Len(author) = Store!current

LEMMA CommitTyped ==
  ASSUME HistoryInv, LogTyped, NEW w \in Runs \cup Others, NEW paths,
         Store!Commit(w, paths), author' = Append(author, w)
  PROVE  LogTyped'
  BY DEF LogTyped, Store!Commit, Store!current

\* Judging evidence changes nothing but what the run has found and still has to ask.
LEMMA GatingKeeps ==
  ASSUME BaseInv, HistoryInv, NEW k \in Runs, Gating(k)
  PROVE  /\ UNCHANGED <<changes, records, evidence, pending, faults, durable, author, lapses>>
         /\ pc[k] \in {"gate", "judge"} /\ LocalTyped'
         /\ pc'[k] \in {"idle", "gate", "judge"}
         /\ pc'[k] # "judge" => batch'[k] = {}
         /\ pc'[k] # "idle" => gate'[k] # None
         /\ \A j \in Runs \ {k} : /\ pc'[j] = pc[j] /\ batch'[j] = batch[j]
                                  /\ gate'[j] = gate[j] /\ query'[j] = query[j]
<1>a. LocalTyped
  BY DEF TypeOK, LocalTyped
<1>b. ASSUME Leave(k)
      PROVE  /\ LocalTyped' /\ pc'[k] = "idle" /\ batch'[k] = {}
             /\ \A j \in Runs \ {k} :
                  pc'[j] = pc[j] /\ batch'[j] = batch[j] /\ gate'[j] = gate[j]
  BY <1>a, <1>b, LeaveTyped DEF Leave, LocalTyped
<1>1. ASSUME NEW node, ListEvidence(k, node),
             ~ Leave(k)
      PROVE  /\ LocalTyped' /\ pc'[k] = "judge" /\ gate'[k] = gate[k]
             /\ \A j \in Runs \ {k} :
                  pc'[j] = pc[j] /\ batch'[j] = batch[j] /\ gate'[j] = gate[j]
  <2> DEFINE files == {id \in Tasks : evidence[id] # None /\ evidence[id].kind = node}
  <2>1. /\ pc' = [pc EXCEPT ![k] = "judge"]
        /\ batch' = [batch EXCEPT ![k] = files] /\ UNCHANGED gate
    BY <1>1 DEF ListEvidence, Goto
  <2>2. files \in SUBSET Tasks
    OBVIOUS
  <2> HIDE DEF files
  <2> QED  BY <1>a, <2>1, <2>2 DEF LocalTyped, Steps
<1>2. ASSUME NEW node, ListEvidence(k, node)
      PROVE  /\ UNCHANGED <<storeVars, durable, author, lapses>> /\ pc[k] = "gate"
  BY <1>2 DEF ListEvidence
<1>3. ASSUME NEW id, AskFreshness(k, id)
      PROVE  /\ UNCHANGED <<changes, records, evidence, pending, faults, durable, author, lapses>>
             /\ pc[k] = "judge" /\ pc'[k] = "judge" /\ LocalTyped' /\ gate'[k] = gate[k]
             /\ \A j \in Runs \ {k} : /\ pc'[j] = pc[j] /\ batch'[j] = batch[j]
                                      /\ gate'[j] = gate[j] /\ query'[j] = query[j]
  BY <1>a, <1>3 DEF AskFreshness, Store!Ask, LocalTyped, QueriesInv
<1>4. ASSUME ReadRecords(k)
      PROVE  /\ UNCHANGED <<changes, records, evidence, pending, faults, durable, author, lapses>>
             /\ pc[k] = "judge" /\ UNCHANGED local
             /\ \A j \in Runs \ {k} : query'[j] = query[j]
  BY <1>4 DEF ReadRecords, Store!Examine, Store!Conclude, QueriesInv
<1>5. ASSUME Judge(k)
      PROVE  /\ UNCHANGED <<changes, records, evidence, pending, faults, durable, author, lapses>>
             /\ pc[k] = "judge"
             /\ \A j \in Runs \ {k} : query'[j] = query[j]
  BY <1>5 DEF Judge, Store!Dismiss, QueriesInv
<1>6. ASSUME Judge(k), Fresh(query[k])
      PROVE  /\ LocalTyped' /\ pc'[k] = "gate" /\ batch'[k] = {} /\ gate'[k] # None
             /\ \A j \in Runs \ {k} :
                  pc'[j] = pc[j] /\ batch'[j] = batch[j] /\ gate'[j] = gate[j]
  <2>1. /\ pc' = [pc EXCEPT ![k] = "gate"]
        /\ batch' = [batch EXCEPT ![k] = {}]
        /\ gate' = [gate EXCEPT ![k].upto[query[k].file.kind] = query[k].upto]
        /\ query[k] # None
    BY <1>6 DEF Judge, Goto
  <2>2. query[k].upto \in Store!Revisions
    BY <2>1 DEF QueriesInv, Store!Question
  <2>3. gate[k] \in Gates
    BY <1>a, <1>5, <1>6 DEF LocalTyped, StepInv
  <2>4. [gate[k] EXCEPT !.upto[query[k].file.kind] = query[k].upto] \in Gates
    BY <2>2, <2>3 DEF Gates
  <2>5. PICK g \in Gates : gate' = [gate EXCEPT ![k] = g]
    BY <2>1, <2>4
  <2>6. g # None
    BY StoreAssumption
  <2> QED  BY <1>a, <2>1, <2>5, <2>6 DEF LocalTyped, Steps
<1>7. ASSUME Judge(k), ~ Fresh(query[k]) PROVE Leave(k) \/ UNCHANGED local
  BY <1>7 DEF Judge
<1>8. UNCHANGED local => LocalTyped'
  BY <1>a DEF local, LocalTyped
<1>9. pc[k] \in {"gate", "judge"} => gate[k] # None
  BY DEF StepInv
<1> QED
  BY <1>b, <1>1, <1>2, <1>3, <1>4, <1>5, <1>6, <1>7, <1>8, <1>9 DEF Gating, local

LEMMA TypeStep == BaseInv /\ HistoryInv /\ HistoryInv' /\ [Next]_vars => TypeOK'
<1> SUFFICES ASSUME BaseInv, HistoryInv, HistoryInv', [Next]_vars PROVE TypeOK'
  OBVIOUS
<1>a. TypeOK <=> /\ run \in [Runs -> RunStates \cup {None}]
                 /\ plan \in [Runs -> (SUBSET Tasks) \cup {None}]
                 /\ task \in [Tasks -> TaskStates \cup {None}]
                 /\ LocalTyped /\ LogTyped
                 /\ lapses \in 0 .. MaxLapses
  BY DEF TypeOK, LocalTyped, LogTyped
<1>b. TypeOK' <=> /\ run' \in [Runs -> RunStates \cup {None}]
                  /\ plan' \in [Runs -> (SUBSET Tasks) \cup {None}]
                  /\ task' \in [Tasks -> TaskStates \cup {None}]
                  /\ LocalTyped' /\ LogTyped'
                  /\ lapses' \in 0 .. MaxLapses
  BY DEF TypeOK, LocalTyped, LogTyped
<1>c. ASSUME UNCHANGED local PROVE LocalTyped'
  BY <1>a, <1>c DEF local, LocalTyped
<1>d. ASSUME UNCHANGED <<changes, author>> PROVE LogTyped'
  BY <1>a, <1>d DEF LogTyped, Store!current
<1>e. ASSUME Lapse PROVE lapses' \in 0 .. MaxLapses
  BY <1>a, <1>e, Assumed DEF Lapse
<1>f. ASSUME NEW k \in Runs, NEW to \in Steps, pc' = [pc EXCEPT ![k] = to],
             UNCHANGED <<batch, gate>>
      PROVE  LocalTyped'
  BY <1>a, <1>f, GotoTyped DEF LocalTyped
<1> HIDE DEF TypeOK
<1>g. ASSUME NEW k \in Runs, NEW state \in RunStates, run' = [run EXCEPT ![k] = state]
      PROVE  run' \in [Runs -> RunStates \cup {None}]
  BY <1>a, <1>g
<1>1. CASE UNCHANGED vars
  BY <1>1, <1>a, <1>b, <1>c, <1>d DEF vars, durable
<1>2. ASSUME NEW k \in Runs, CreateRun(k) PROVE TypeOK'
  <2>1. run' \in [Runs -> RunStates \cup {None}]
    BY <1>2, <1>a DEF CreateRun, RunStates, RunStatuses, Store!current
  <2> QED  BY <1>2, <1>a, <1>b, <1>c, <1>d, <2>1 DEF CreateRun
<1>3. ASSUME NEW k \in Runs, CreatePlan(k) \/ FailRun(k) PROVE TypeOK'
  <2>1. run[k] \in RunStates
    BY <1>3, <1>a DEF CreatePlan, FailRun, Idle
  <2>2. run' \in [Runs -> RunStates \cup {None}]
    <3>1. \E status \in RunStatuses : run' = [run EXCEPT ![k] = [run[k] EXCEPT !.status = status]]
      BY <1>3 DEF CreatePlan, FailRun, RunStatuses
    <3> QED  BY <1>g, <2>1, <3>1, StatusType
  <2>3. plan' \in [Runs -> (SUBSET Tasks) \cup {None}]
    BY <1>3, <1>a DEF CreatePlan, FailRun, Defined, TasksOf
  <2> QED  BY <1>3, <1>a, <1>b, <1>c, <1>d, <2>2, <2>3 DEF CreatePlan, FailRun
<1>4. ASSUME NEW k \in Runs, BeginApply(k) \/ BeginExecute(k) PROVE TypeOK'
  <2>1. LocalTyped'
    BY <1>4, <1>f DEF BeginApply, BeginExecute, Goto, Steps
  <2> QED  BY <1>4, <1>a, <1>b, <1>d, <2>1 DEF BeginApply, BeginExecute, durable
<1>5. ASSUME NEW k \in Runs, BeginEvaluate(k) PROVE TypeOK'
  <2>1. gate' \in [Runs -> Gates \cup {None}]
    BY <1>5, <1>a DEF BeginEvaluate, LocalTyped, Store!current, Gates
  <2>2. LocalTyped'
    BY <1>5, <1>a, <2>1, GotoTyped DEF BeginEvaluate, Goto, Steps, LocalTyped
  <2> QED  BY <1>5, <1>a, <1>b, <1>d, <2>2 DEF BeginEvaluate, durable
<1>19. ASSUME NEW k \in Runs, Gating(k) PROVE TypeOK'
  <2> QED  BY <1>19, <1>a, <1>b, <1>d, GatingKeeps DEF durable
<1>6. ASSUME NEW k \in Runs, Refuse(k) \/ SweepNothing(k) PROVE TypeOK'
  BY <1>6, <1>a, <1>b, <1>d, LeaveTyped DEF Refuse, SweepNothing, durable
<1>7. ASSUME NEW k \in Runs, NEW paths \in ChangeSets, Apply(k, paths) PROVE TypeOK'
  <2>1. LocalTyped'
    BY <1>7, <1>f DEF Apply, Goto, Steps
  <2>2. LogTyped'
    BY <1>7, <1>a, CommitTyped DEF Apply
  <2> QED  BY <1>7, <1>a, <1>b, <2>1, <2>2 DEF Apply, durable
<1>8. ASSUME NEW k \in Runs, Complete(k) PROVE TypeOK'
  <2>1. run[k] \in RunStates
    BY <1>8, <1>a DEF Complete, StepInv
  <2>2. run' \in [Runs -> RunStates \cup {None}]
    BY <1>8, <1>a, <2>1, StatusType DEF Complete, RunStatuses
  <2> QED  BY <1>8, <1>a, <1>b, <1>d, <2>2, LeaveTyped DEF Complete
<1>9. ASSUME NEW k \in Runs, Save(k) PROVE TypeOK'
  <2>1. run[k] \in RunStates /\ pending[k] \in Store!Revisions
    BY <1>9, <1>a DEF Save, StepInv
  <2>2. run' \in [Runs -> RunStates \cup {None}]
    BY <1>9, <1>a, <2>1, AdvancedType DEF Save
  <2>3. UNCHANGED changes
    BY <1>9 DEF Save, Store!Abandon
  <2>4. LocalTyped'
    BY <1>9, <1>a, <1>f, LeaveTyped DEF Save, Goto, Steps
  <2> QED  BY <1>9, <1>a, <1>b, <1>d, <2>2, <2>3, <2>4 DEF Save
<1>10. ASSUME NEW k \in Runs, SaveFails(k) \/ InvalidateFails(k) PROVE TypeOK'
  <2>1. run[k] \in RunStates /\ pending[k] \in Store!Revisions
    BY <1>10, <1>a DEF SaveFails, InvalidateFails, StepInv
  <2>2. Advanced(run[k], pending[k]) \in RunStates
    BY <2>1, AdvancedType
  <2>3. [run[k] EXCEPT !.status = "blocked"] \in RunStates
    BY <2>1, StatusType DEF RunStatuses
  <2>4. run' \in [Runs -> RunStates \cup {None}]
    BY <1>10, <1>a, <2>2, <2>3 DEF SaveFails, InvalidateFails
  <2>5. UNCHANGED changes
    BY <1>10 DEF SaveFails, InvalidateFails, Store!Abandon
  <2> QED
    BY <1>10, <1>a, <1>b, <1>d, <1>e, <2>4, <2>5, LeaveTyped DEF SaveFails, InvalidateFails
<1>11. ASSUME NEW k \in Runs, Invalidate(k) PROVE TypeOK'
  <2>1. LocalTyped'
    BY <1>11, <1>f DEF Invalidate, Goto, Steps
  <2> QED
    BY <1>11, <1>a, <1>b, <1>d, <2>1 DEF Invalidate, durable, Store!RecordInvalidation
<1>12. ASSUME NEW k \in Runs, MarkStale(k) PROVE TypeOK'
  <2>1. Affected(k, records[run[k].active]) \in SUBSET {t \in Tasks : task[t] # None}
    BY DEF Affected, Defined, TasksOf
  <2>2. task' \in [Tasks -> TaskStates \cup {None}]
    BY <1>12, <1>a, <2>1, StatusSet DEF MarkStale, TaskStatuses
  <2> QED  BY <1>12, <1>a, <1>b, <1>d, <2>2, LeaveTyped DEF MarkStale
<1>13. ASSUME NEW k \in Runs, NEW n \in 0 .. Len(TaskOrder), MarkFails(k, n) PROVE TypeOK'
  <2>1. Range(SubSeq(TaskOrder, 1, n)) \cap Affected(k, records[run[k].active])
          \in SUBSET {t \in Tasks : task[t] # None}
    BY DEF Affected, Defined, TasksOf
  <2>2. task' \in [Tasks -> TaskStates \cup {None}]
    BY <1>13, <1>a, <2>1, StatusSet DEF MarkFails, TaskStatuses
  <2>3. run[k] \in RunStates
    BY <1>13, <1>a DEF MarkFails, StepInv
  <2>4. run' \in [Runs -> RunStates \cup {None}]
    <3>1. run' = run \/ run' = [run EXCEPT ![k] = [run[k] EXCEPT !.status = "blocked"]]
      BY <1>13 DEF MarkFails
    <3>2. [run[k] EXCEPT !.status = "blocked"] \in RunStates
      BY <2>3, StatusType DEF RunStatuses
    <3> QED  BY <1>a, <1>g, <3>1, <3>2
  <2> QED  BY <1>13, <1>a, <1>b, <1>d, <1>e, <2>2, <2>4, LeaveTyped DEF MarkFails
<1>14. ASSUME NEW k \in Runs, Select(k) PROVE TypeOK'
  <2>1. Ready(k) \in SUBSET Tasks /\ Defined(k) \in SUBSET Tasks
    BY DEF Ready, Defined, TasksOf
  <2>2. LocalTyped'
    <3>1. CASE Leave(k)
      BY <1>a, <3>1, LeaveTyped
    <3>2. CASE /\ batch' = [batch EXCEPT ![k] = IF Ready(k) = {} THEN Defined(k) ELSE Ready(k)]
               /\ UNCHANGED gate
               /\ Goto(k, "select", IF Ready(k) = {} THEN "sweep" ELSE "start")
      BY <1>a, <2>1, <3>2, GotoTyped DEF LocalTyped, Goto, Steps
    <3> QED  BY <1>14, <3>1, <3>2 DEF Select
  <2> QED  BY <1>14, <1>a, <1>b, <1>d, <2>2 DEF Select, durable
<1>15. ASSUME NEW k \in Runs, NEW t \in Tasks,
              Start(k, t) \/ Succeed(k, t) \/ FailTask(k, t) \/ Sweep(k, t)
       PROVE  TypeOK'
  <2>1. t \in batch[k]
    BY <1>15 DEF Start, Succeed, FailTask, Finish, Sweep, First
  <2>2. {t} \in SUBSET {u \in Tasks : task[u] # None}
    BY <1>15, <2>1 DEF Start, Succeed, FailTask, Finish, Sweep, Goto, StepInv, Defined
  <2>3. task' \in [Tasks -> TaskStates \cup {None}]
    BY <1>15, <1>a, <2>2, StatusSet DEF Start, Succeed, FailTask, Finish, Sweep, TaskStatuses
  <2>4. UNCHANGED changes
    BY <1>15 DEF Start, Succeed, FailTask, Finish, Sweep, Deliver, Store!WriteEvidence
  <2>5. LocalTyped'
    <3>1. CASE Start(k, t)
      BY <1>f, <3>1 DEF Start, Goto, Steps
    <3>2. CASE Succeed(k, t) \/ FailTask(k, t)
      <4>1. /\ \E to \in Steps : pc' = [pc EXCEPT ![k] = to]
            /\ batch' = [batch EXCEPT ![k] = @ \ {t}] /\ UNCHANGED gate
        BY <3>2 DEF Succeed, FailTask, Finish, Steps
      <4>2. batch' \in [Runs -> SUBSET Tasks] /\ gate' \in [Runs -> Gates \cup {None}]
        BY <1>a, <4>1 DEF LocalTyped
      <4> QED  BY <1>a, <4>1, <4>2, GotoTyped
    <3>3. CASE Sweep(k, t)
      BY <1>a, <3>3, LeaveTyped DEF Sweep, LocalTyped
    <3> QED  BY <1>15, <3>1, <3>2, <3>3
  <2> QED
    BY <1>15, <1>a, <1>b, <1>d, <2>3, <2>4, <2>5 DEF Start, Succeed, FailTask, Finish, Sweep
<1>16. ASSUME NEW k \in Runs, Crash(k) PROVE TypeOK'
  <2>1. UNCHANGED changes
    BY <1>16 DEF Crash, Store!Abandon, Store!Dismiss
  <2> QED  BY <1>16, <1>a, <1>b, <1>d, <1>e, <2>1, LeaveTyped DEF Crash, durable
<1>17. ASSUME NEW t \in Tasks, AddTask(t) PROVE TypeOK'
  <2>1. run[RunOf[t]] \in RunStates
    BY <1>17, <1>a, Assumed DEF AddTask, Idle
  <2>2. task' \in [Tasks -> TaskStates \cup {None}]
    BY <1>17, <1>a, <2>1 DEF AddTask, RunStates, TaskStates, TaskStatuses
  <2> QED  BY <1>17, <1>a, <1>b, <1>c, <1>d, <2>2 DEF AddTask
<1>18. ASSUME NEW w \in Others, OtherRun(w) PROVE TypeOK'
  <2>1. LogTyped'
    <3>1. CASE \E paths \in ChangeSets : Store!Commit(w, paths) /\ author' = Append(author, w)
      BY <1>a, <3>1, CommitTyped
    <3>2. CASE (Store!RecordInvalidation(w) \/ Store!Abandon(w)) /\ UNCHANGED author
      BY <1>d, <3>2 DEF Store!RecordInvalidation, Store!Abandon
    <3> QED  BY <1>18, <3>1, <3>2 DEF OtherRun
  <2> QED  BY <1>18, <1>a, <1>b, <1>c, <2>1 DEF OtherRun, durable
<1> QED
  BY <1>1, <1>2, <1>3, <1>4, <1>5, <1>6, <1>7, <1>8, <1>9, <1>10, <1>11, <1>12, <1>13,
     <1>14, <1>15, <1>16, <1>17, <1>18, <1>19 DEF Next, Continue, Gating

-----------------------------------------------------------------------------
(* A step is one of some run, and leaves the other runs alone. *)

Acts(k) ==
  \/ CreateRun(k) \/ CreatePlan(k) \/ FailRun(k)
  \/ BeginApply(k)
  \/ \E paths \in ChangeSets : Apply(k, paths)
  \/ BeginExecute(k) \/ BeginEvaluate(k)
  \/ Continue(k)
  \/ SaveFails(k) \/ InvalidateFails(k) \/ Crash(k)
  \/ \E n \in 0 .. Len(TaskOrder) : MarkFails(k, n)

Rests(k) ==
  /\ run'[k] = run[k] /\ pc'[k] = pc[k] /\ batch'[k] = batch[k] /\ gate'[k] = gate[k]
  /\ pending'[k] = pending[k] /\ query'[k] = query[k] /\ Own(k)' = Own(k)
  /\ \A t \in Tasks : RunOf[t] = k => task'[t] = task[t] \/ AddTask(t)

LEMMA CommitOwns ==
  ASSUME HistoryInv, LogTyped, NEW w \in Runs \cup Others, NEW paths,
         Store!Commit(w, paths), author' = Append(author, w)
  PROVE  /\ \A k \in Runs \ {w} : Own(k)' = Own(k)
         /\ w \in Runs => Own(w)' = Own(w) \cup {Len(changes) + 1}
         /\ pending'[w] = Len(changes) + 1 /\ Len(changes') = Len(changes) + 1
         /\ author'[Len(changes) + 1] = w
         /\ \A r \in 1 .. Len(changes) : author'[r] = author[r]
<1>1. /\ Len(changes) \in Nat /\ Len(changes') = Len(changes) + 1
      /\ Len(author) = Len(changes)
      /\ author \in Seq(Runs \cup Others \cup {None})
  BY DEF LogTyped, Store!Commit, Store!current
<1>2. /\ author'[Len(changes) + 1] = w
      /\ \A r \in 1 .. Len(changes) : author'[r] = author[r]
  BY <1>1
<1>3. pending'[w] = Len(changes) + 1
  BY DEF Store!Commit, Store!current
<1>4. 1 .. Len(changes') = (1 .. Len(changes)) \cup {Len(changes) + 1}
  BY <1>1
<1>5. \A k \in Runs \ {w} : Own(k)' = Own(k)
  BY <1>2, <1>4 DEF Own, Store!current
<1>6. w \in Runs => Own(w)' = Own(w) \cup {Len(changes) + 1}
  BY <1>2, <1>4 DEF Own, Store!current
<1> QED  BY <1>1, <1>2, <1>3, <1>5, <1>6

LEMMA LogTypedHolds == TypeOK => LogTyped
  BY DEF TypeOK, LogTyped

LEMMA OthersRest ==
  ASSUME BaseInv, HistoryInv, NEW j \in Runs, Acts(j), NEW k \in Runs, k # j
  PROVE  Rests(k)
<1> USE DEF Rests
<1>a. ASSUME UNCHANGED <<changes, author>> PROVE Own(k)' = Own(k)
  BY <1>a DEF Own, Store!current
<1>b. ASSUME Leave(j) PROVE pc'[k] = pc[k] /\ batch'[k] = batch[k] /\ gate'[k] = gate[k]
  BY <1>b DEF Leave, TypeOK
<1>c. ASSUME NEW ts \in SUBSET TasksOf(j), NEW status, task' = SetStatus(ts, status)
      PROVE  \A t \in Tasks : RunOf[t] = k => task'[t] = task[t]
  BY <1>c DEF SetStatus, TasksOf
<1>1. ASSUME CreateRun(j) \/ CreatePlan(j) \/ FailRun(j) PROVE Rests(k)
  BY <1>1, <1>a DEF CreateRun, CreatePlan, FailRun, local, TypeOK
<1>2. ASSUME BeginApply(j) \/ BeginExecute(j) PROVE Rests(k)
  BY <1>2, <1>a DEF BeginApply, BeginExecute, Goto, durable, TypeOK
<1>3. ASSUME BeginEvaluate(j) PROVE Rests(k)
  BY <1>3, <1>a DEF BeginEvaluate, Goto, durable, TypeOK
<1>4. ASSUME NEW paths \in ChangeSets, Apply(j, paths) PROVE Rests(k)
  <2>1. Own(k)' = Own(k)
    BY <1>4, CommitOwns, LogTypedHolds DEF Apply
  <2>2. pending'[k] = pending[k] /\ query'[k] = query[k]
    BY <1>4 DEF Apply, Store!Commit
  <2> QED  BY <1>4, <2>1, <2>2 DEF Apply, Goto, durable, TypeOK
<1>5. ASSUME Refuse(j) \/ SweepNothing(j) PROVE Rests(k)
  BY <1>5, <1>a, <1>b DEF Refuse, SweepNothing, durable
<1>6. ASSUME Complete(j) PROVE Rests(k)
  BY <1>6, <1>a, <1>b DEF Complete, TypeOK
<1>7. ASSUME Save(j) PROVE Rests(k)
  <2>1. UNCHANGED changes /\ pending'[k] = pending[k] /\ query'[k] = query[k]
    BY <1>7 DEF Save, Store!Abandon
  <2>2. pc'[k] = pc[k] /\ batch'[k] = batch[k] /\ gate'[k] = gate[k]
    BY <1>7, <1>b DEF Save, Goto, TypeOK
  <2> QED  BY <1>7, <1>a, <2>1, <2>2 DEF Save, TypeOK
<1>8. ASSUME SaveFails(j) \/ InvalidateFails(j) PROVE Rests(k)
  <2>1. UNCHANGED changes /\ pending'[k] = pending[k] /\ query'[k] = query[k]
    BY <1>8 DEF SaveFails, InvalidateFails, Store!Abandon
  <2> QED  BY <1>8, <1>a, <1>b, <2>1 DEF SaveFails, InvalidateFails, TypeOK
<1>9. ASSUME Invalidate(j) PROVE Rests(k)
  BY <1>9, <1>a DEF Invalidate, Goto, durable, TypeOK, Store!RecordInvalidation
<1>10. ASSUME MarkStale(j) PROVE Rests(k)
  <2>1. Affected(j, records[run[j].active]) \in SUBSET TasksOf(j)
    BY DEF Affected, Defined
  <2>2. \A t \in Tasks : RunOf[t] = k => task'[t] = task[t]
    BY <1>10, <1>c, <2>1 DEF MarkStale
  <2> QED  BY <1>10, <1>a, <1>b, <2>2 DEF MarkStale
<1>11. ASSUME NEW n \in 0 .. Len(TaskOrder), MarkFails(j, n) PROVE Rests(k)
  <2>1. Range(SubSeq(TaskOrder, 1, n)) \cap Affected(j, records[run[j].active])
          \in SUBSET TasksOf(j)
    BY DEF Affected, Defined
  <2>2. \A t \in Tasks : RunOf[t] = k => task'[t] = task[t]
    BY <1>11, <1>c, <2>1 DEF MarkFails
  <2> QED  BY <1>11, <1>a, <1>b, <2>2 DEF MarkFails, TypeOK
<1>12. ASSUME Select(j) PROVE Rests(k)
  <2>1. pc'[k] = pc[k] /\ batch'[k] = batch[k] /\ gate'[k] = gate[k]
    BY <1>12, <1>b DEF Select, Goto, TypeOK
  <2> QED  BY <1>12, <1>a, <2>1 DEF Select, durable
<1>13. ASSUME NEW t \in Tasks, Start(j, t) \/ Succeed(j, t) \/ FailTask(j, t) \/ Sweep(j, t)
       PROVE  Rests(k)
  <2>1. {t} \in SUBSET TasksOf(j)
    BY <1>13 DEF Start, Succeed, FailTask, Finish, Sweep, Goto, First, StepInv, Defined
  <2>2. \A u \in Tasks : RunOf[u] = k => task'[u] = task[u]
    BY <1>13, <1>c, <2>1 DEF Start, Succeed, FailTask, Finish, Sweep
  <2>3. UNCHANGED <<changes, author, pending, query, run, gate>> \/ Sweep(j, t)
    BY <1>13 DEF Start, Succeed, FailTask, Finish, Deliver, Store!WriteEvidence
  <2>4. pc'[k] = pc[k] /\ batch'[k] = batch[k] /\ gate'[k] = gate[k]
    BY <1>13, <1>b, <2>3 DEF Start, Succeed, FailTask, Finish, Sweep, Goto, TypeOK
  <2> QED  BY <1>13, <1>a, <2>2, <2>3, <2>4 DEF Sweep
<1>14. ASSUME Crash(j) PROVE Rests(k)
  <2>1. UNCHANGED changes /\ pending'[k] = pending[k] /\ query'[k] = query[k]
    BY <1>14 DEF Crash, Store!Abandon, Store!Dismiss, QueriesInv
  <2> QED  BY <1>14, <1>a, <1>b, <2>1 DEF Crash, durable
<1>15. ASSUME Gating(j) PROVE Rests(k)
  BY <1>15, <1>a, GatingKeeps DEF durable
<1> QED
  BY <1>1, <1>2, <1>3, <1>4, <1>5, <1>6, <1>7, <1>8, <1>9, <1>10, <1>11, <1>12, <1>13,
     <1>14, <1>15 DEF Acts, Continue, Gating

LEMMA ActsOrRests ==
  ASSUME BaseInv, HistoryInv, [Next]_vars, NEW k \in Runs
  PROVE  Acts(k) \/ Rests(k)
<1>1. CASE UNCHANGED vars
  BY <1>1 DEF vars, durable, local, Rests, Own, Store!current
<1>2. ASSUME NEW j \in Runs, Acts(j) PROVE Acts(k) \/ Rests(k)
  BY <1>2, OthersRest
<1>3. ASSUME NEW t \in Tasks, AddTask(t) PROVE Rests(k)
  BY <1>3 DEF AddTask, local, Rests, Own, Store!current, TypeOK
<1>4. ASSUME NEW w \in Others, OtherRun(w) PROVE Rests(k)
  <2>1. w # k
    BY Assumed
  <2>2. UNCHANGED <<durable, local>> /\ pending'[k] = pending[k] /\ query'[k] = query[k]
    BY <1>4, <2>1
       DEF OtherRun, Store!Commit, Store!RecordInvalidation, Store!Abandon
  <2>3. Own(k)' = Own(k)
    <3>1. CASE \E paths \in ChangeSets : Store!Commit(w, paths) /\ author' = Append(author, w)
      BY <2>1, <3>1, CommitOwns, LogTypedHolds
    <3>2. CASE (Store!RecordInvalidation(w) \/ Store!Abandon(w)) /\ UNCHANGED author
      BY <3>2 DEF Store!RecordInvalidation, Store!Abandon, Own, Store!current
    <3> QED  BY <1>4, <3>1, <3>2 DEF OtherRun
  <2> QED  BY <2>2, <2>3 DEF durable, local, Rests
<1> QED  BY <1>1, <1>2, <1>3, <1>4 DEF Next, Acts

\* Either some writer commits and is written down as the author, or no history is
\* written and at most a pending revision is given up.
LEMMA HistoryStep ==
  ASSUME BaseInv, HistoryInv, [Next]_vars
  PROVE  \/ \E w \in Runs \cup Others, paths \in ChangeSets :
              Store!Commit(w, paths) /\ author' = Append(author, w)
         \/ /\ UNCHANGED <<changes, author>>
            /\ \A w \in Runs \cup Others : pending'[w] \in {pending[w], None}
<1> DEFINE Quiet == /\ UNCHANGED <<changes, author>>
                    /\ \A w \in Runs \cup Others : pending'[w] \in {pending[w], None}
<1>a. ASSUME NEW w \in Runs \cup Others, Store!RecordInvalidation(w) \/ Store!Abandon(w),
             UNCHANGED author
      PROVE  Quiet
  BY <1>a DEF Store!RecordInvalidation, Store!Abandon
<1>1. CASE UNCHANGED vars
  BY <1>1 DEF vars
<1>2. ASSUME NEW k \in Runs,
             \/ CreateRun(k) \/ CreatePlan(k) \/ FailRun(k) \/ BeginApply(k)
             \/ BeginExecute(k) \/ BeginEvaluate(k) \/ Refuse(k) \/ MarkStale(k)
             \/ Select(k) \/ SweepNothing(k) \/ Complete(k)
             \/ \E t \in Tasks : Start(k, t) \/ Sweep(k, t)
             \/ \E n \in 0 .. Len(TaskOrder) : MarkFails(k, n)
      PROVE  Quiet
  BY <1>2 DEF CreateRun, CreatePlan, FailRun, BeginApply, BeginExecute, BeginEvaluate,
       Refuse, MarkStale, Select, Start, Sweep, SweepNothing, Complete, MarkFails
<1>3. ASSUME NEW k \in Runs, \E t \in Tasks : Succeed(k, t) \/ FailTask(k, t) PROVE Quiet
  BY <1>3 DEF Succeed, FailTask, Finish, Deliver, Store!WriteEvidence
<1>4. ASSUME NEW k \in Runs, Save(k) \/ Crash(k) PROVE Quiet
  <2>1. UNCHANGED author /\ (Store!Abandon(k) \/ Store!Dismiss(k) \/ UNCHANGED storeVars)
    BY <1>4 DEF Save, Crash
  <2>2. Store!Dismiss(k) => UNCHANGED <<changes, pending>>
    BY DEF Store!Dismiss
  <2> QED  BY <1>a, <2>1, <2>2
<1>5. ASSUME NEW k \in Runs, Invalidate(k) \/ SaveFails(k) \/ InvalidateFails(k) PROVE Quiet
  BY <1>a, <1>5 DEF Invalidate, SaveFails, InvalidateFails
<1>6. ASSUME NEW t \in Tasks, AddTask(t) PROVE Quiet
  BY <1>6 DEF AddTask
<1>7. ASSUME NEW w \in Others, OtherRun(w)
      PROVE  Quiet \/ \E paths \in ChangeSets :
                        Store!Commit(w, paths) /\ author' = Append(author, w)
  BY <1>a, <1>7 DEF OtherRun
<1>8. ASSUME NEW k \in Runs, NEW paths \in ChangeSets, Apply(k, paths)
      PROVE  Store!Commit(k, paths) /\ author' = Append(author, k)
  BY <1>8 DEF Apply
<1>9. ASSUME NEW k \in Runs, Gating(k) PROVE Quiet
  BY <1>9, GatingKeeps
<1> QED
  BY <1>1, <1>2, <1>3, <1>4, <1>5, <1>6, <1>7, <1>8, <1>9 DEF Next, Continue, Gating

LEMMA AuthorStep == BaseInv /\ HistoryInv /\ [Next]_vars => AuthorInv'
<1> SUFFICES ASSUME BaseInv, HistoryInv, [Next]_vars, NEW w \in Runs \cup Others,
                    pending'[w] # None
             PROVE  author'[pending'[w]] = w
  BY DEF AuthorInv
<1>1. ASSUME NEW v \in Runs \cup Others, NEW paths \in ChangeSets, Store!Commit(v, paths),
             author' = Append(author, v)
      PROVE  author'[pending'[w]] = w
  <2>1. CASE v = w
    BY <1>1, <2>1, CommitOwns, LogTypedHolds
  <2>2. CASE v # w
    <3>1. pending'[w] = pending[w] /\ pending[w] \in 2 .. Len(changes)
      BY <1>1, <2>2 DEF Store!Commit
    <3>2. pending[w] \in 1 .. Len(changes)
      BY <3>1 DEF Store!Revisions
    <3> QED  BY <1>1, <3>1, <3>2, CommitOwns, LogTypedHolds DEF AuthorInv
  <2> QED  BY <2>1, <2>2
<1>2. CASE /\ UNCHANGED <<changes, author>>
           /\ \A v \in Runs \cup Others : pending'[v] \in {pending[v], None}
  BY <1>2 DEF AuthorInv
<1> QED  BY <1>1, <1>2, HistoryStep

LEMMA LapsesGrow ==
  ASSUME BaseInv, HistoryInv, [Next]_vars
  PROVE  lapses \in Nat /\ lapses' \in Nat /\ (lapses' = 0 => lapses = 0)
<1>1. lapses \in Nat
  BY Assumed DEF TypeOK
<1>2. lapses' = lapses \/ lapses' = lapses + 1
  <2>1. ASSUME NEW k \in Runs,
               \/ CreateRun(k) \/ CreatePlan(k) \/ FailRun(k) \/ BeginApply(k)
               \/ \E paths \in ChangeSets : Apply(k, paths)
               \/ BeginExecute(k) \/ BeginEvaluate(k)
        PROVE  lapses' = lapses
    BY <2>1 DEF CreateRun, CreatePlan, FailRun, BeginApply, Apply, BeginExecute, BeginEvaluate
  <2>2. ASSUME NEW k \in Runs, Continue(k) PROVE lapses' = lapses
    BY <2>2, GatingKeeps DEF Continue, Gating, Refuse, Save, Invalidate, MarkStale, Select, SweepNothing, Complete,
       Start, Succeed, FailTask, Finish, Sweep
  <2>3. ASSUME NEW k \in Runs,
               \/ SaveFails(k) \/ InvalidateFails(k) \/ Crash(k)
               \/ \E n \in 0 .. Len(TaskOrder) : MarkFails(k, n)
        PROVE  lapses' = lapses + 1
    BY <2>3 DEF SaveFails, InvalidateFails, Crash, MarkFails, Lapse
  <2>4. ASSUME (\E t \in Tasks : AddTask(t)) \/ (\E w \in Others : OtherRun(w)) \/ UNCHANGED vars
        PROVE  lapses' = lapses
    BY <2>4 DEF AddTask, OtherRun, vars
  <2> QED  BY <2>1, <2>2, <2>3, <2>4 DEF Next
<1> QED  BY <1>1, <1>2

\* A task does not disappear and keeps its binding.
LEMMA TasksStay ==
  ASSUME BaseInv, HistoryInv, [Next]_vars, NEW t \in Tasks, task[t] # None
  PROVE  /\ task'[t] # None /\ task'[t].bound = task[t].bound
<1> DEFINE Stays == task'[t] # None /\ task'[t].bound = task[t].bound
<1>1. ASSUME NEW ts \in SUBSET {u \in Tasks : task[u] # None}, NEW status \in TaskStatuses,
             task' = SetStatus(ts, status)
      PROVE  Stays
  <2>1. task \in [Tasks -> TaskStates \cup {None}]
    BY DEF TypeOK
  <2> QED  BY <1>1, <2>1, StatusSet
<1>2. PICK k \in Runs : k = RunOf[t]
  BY Assumed
<1>3. CASE Rests(k)
  BY <1>2, <1>3 DEF Rests, AddTask
<1>4. CASE \/ CreateRun(k) \/ CreatePlan(k) \/ FailRun(k) \/ BeginApply(k)
           \/ \E paths \in ChangeSets : Apply(k, paths)
           \/ BeginExecute(k) \/ BeginEvaluate(k) \/ Refuse(k) \/ Save(k) \/ Invalidate(k)
           \/ Select(k) \/ SweepNothing(k) \/ Complete(k)
           \/ SaveFails(k) \/ InvalidateFails(k) \/ Crash(k)
  BY <1>4 DEF CreateRun, CreatePlan, FailRun, BeginApply, Apply, BeginExecute, BeginEvaluate,
       Refuse, Save, Invalidate, Select, SweepNothing, Complete, SaveFails, InvalidateFails, Crash, durable
<1>5. CASE MarkStale(k)
  <2>1. Affected(k, records[run[k].active]) \in SUBSET {u \in Tasks : task[u] # None}
    BY DEF Affected, Defined, TasksOf
  <2> QED  BY <1>1, <1>5, <2>1 DEF MarkStale, TaskStatuses
<1>6. CASE \E n \in 0 .. Len(TaskOrder) : MarkFails(k, n)
  <2>1. PICK n \in 0 .. Len(TaskOrder) : MarkFails(k, n)
    BY <1>6
  <2>2. Range(SubSeq(TaskOrder, 1, n)) \cap Affected(k, records[run[k].active])
          \in SUBSET {u \in Tasks : task[u] # None}
    BY DEF Affected, Defined, TasksOf
  <2> QED  BY <1>1, <2>1, <2>2 DEF MarkFails, TaskStatuses
<1>7. ASSUME NEW u \in Tasks, Start(k, u) \/ Succeed(k, u) \/ FailTask(k, u) \/ Sweep(k, u)
      PROVE  Stays
  <2>1. {u} \in SUBSET {v \in Tasks : task[v] # None}
    BY <1>7 DEF Start, Succeed, FailTask, Finish, Sweep, Goto, First, StepInv, Defined
  <2> QED
    BY <1>1, <1>7, <2>1 DEF Start, Succeed, FailTask, Finish, Sweep, TaskStatuses
<1>8. CASE Gating(k)
  BY <1>8, GatingKeeps DEF durable
<1> QED
  BY <1>2, <1>3, <1>4, <1>5, <1>6, <1>7, <1>8, ActsOrRests DEF Acts, Continue, Gating

LEMMA StepStep ==
  ASSUME BaseInv, HistoryInv, HistoryInv', [Next]_vars, NEW k \in Runs
  PROVE  StepInv(k)'
<1>a. None \notin RunStates /\ None \notin Store!Revisions
  BY StoreAssumption
<1> USE DEF TypeOK
<1>1. pc'[k] # "judge" => batch'[k] \subseteq Defined(k)'
  <2> SUFFICES ASSUME pc'[k] # "judge" PROVE batch'[k] \subseteq Defined(k)'
    OBVIOUS
  <2>1. Defined(k) \subseteq Defined(k)'
    BY TasksStay DEF Defined, TasksOf
  <2>2. batch'[k] \subseteq Defined(k)
    <3>1. CASE Rests(k)
      BY <3>1 DEF Rests, StepInv
    <3>3. CASE Gating(k)
      BY <3>3, GatingKeeps
    <3>2. CASE Acts(k) /\ ~ Gating(k)
      <4>1. Ready(k) \subseteq Defined(k)
        BY DEF Ready
      <4>2. Leave(k) => batch'[k] = {}
        BY DEF Leave
      <4>3. CASE Select(k)
        BY <4>1, <4>2, <4>3 DEF Select
      <4>4. CASE \E t \in Tasks : Start(k, t) \/ Succeed(k, t) \/ FailTask(k, t) \/ Sweep(k, t)
        BY <4>2, <4>4 DEF Start, Succeed, FailTask, Finish, Sweep, Goto, StepInv
      <4>5. (batch' = batch /\ pc[k] # "judge") \/ Leave(k) \/ Select(k)
              \/ \E t \in Tasks : Start(k, t) \/ Succeed(k, t) \/ FailTask(k, t) \/ Sweep(k, t)
        BY <3>2 DEF Acts, CreateRun, CreatePlan, FailRun, BeginApply, Apply, BeginExecute,
             BeginEvaluate, Continue, Gating, Refuse, Save, Invalidate, MarkStale, SweepNothing,
             Complete, SaveFails, InvalidateFails, Crash, MarkFails, local, Idle, Goto, StepInv
      <4> QED  BY <4>2, <4>3, <4>4, <4>5 DEF StepInv
    <3> QED  BY <3>1, <3>2, <3>3, ActsOrRests
  <2> QED  BY <2>1, <2>2
<1>2. /\ pending'[k] # None <=> pc'[k] \in {"save", "invalidate"}
      /\ run'[k] = None => pc'[k] = "idle" /\ Own(k)' = {}
  <2> DEFINE Goal == /\ pending'[k] # None <=> pc'[k] \in {"save", "invalidate"}
                     /\ run'[k] = None => pc'[k] = "idle" /\ Own(k)' = {}
  <2>a. Leave(k) => pc'[k] = "idle"
    BY DEF Leave
  <2>b. ASSUME run[k] # None, NEW status \in RunStatuses,
               run' = [run EXCEPT ![k].status = status]
        PROVE  run'[k] # None
    <3>1. run[k] \in RunStates
      BY <2>b
    <3>2. run'[k] = [run[k] EXCEPT !.status = status]
      BY <2>b
    <3> QED  BY <1>a, <3>1, <3>2, StatusType
  <2>c. ASSUME run[k] # None, run'[k] # None, UNCHANGED <<pc, pending>> PROVE Goal
    BY <2>c DEF StepInv
  <2>1. CASE Rests(k)
    BY <2>1 DEF Rests, StepInv
  <2>2. ASSUME CreateRun(k) PROVE Goal
    <3>1. run'[k] = [active |-> Store!current, status |-> "created",
                     iteration |-> 0, seen |-> {Store!current}]
      BY <2>2 DEF CreateRun
    <3>2. run'[k] # None
      BY <1>a, <3>1 DEF RunStates, RunStatuses, Store!current
    <3> QED  BY <2>2, <3>2 DEF CreateRun, local, StepInv
  <2>14. ASSUME CreatePlan(k) \/ FailRun(k) PROVE Goal
    <3>1. run[k] # None /\ UNCHANGED <<pc, pending>>
      BY <2>14 DEF CreatePlan, FailRun, Idle, local
    <3> QED  BY <2>b, <2>c, <2>14, <3>1 DEF CreatePlan, FailRun, RunStatuses
  <2>3. ASSUME BeginApply(k) \/ BeginExecute(k) \/ BeginEvaluate(k) PROVE Goal
    BY <2>3 DEF BeginApply, BeginExecute, BeginEvaluate, Goto, durable, Idle, StepInv
  <2>4. ASSUME NEW paths \in ChangeSets, Apply(k, paths) PROVE Goal
    <3>1. Len(changes) + 1 \in Store!Revisions
      BY <2>4 DEF Apply, Store!Commit, Store!Revisions, Store!current
    <3> QED
      BY <1>a, <2>4, <3>1 DEF Apply, Goto, Store!Commit, Store!current, durable, StepInv
  <2>5. ASSUME Refuse(k) \/ SweepNothing(k) PROVE Goal
    BY <2>5, <2>a DEF Refuse, SweepNothing, durable, StepInv
  <2>6. ASSUME Complete(k) PROVE Goal
    BY <2>6, <2>a, <2>b DEF Complete, StepInv, RunStatuses
  <2>15. ASSUME MarkStale(k) PROVE Goal
    BY <2>15, <2>a DEF MarkStale, StepInv
  <2>7. ASSUME Save(k) \/ SaveFails(k) PROVE Goal
    <3>1. run[k] \in RunStates /\ pending[k] \in Store!Revisions
      BY <2>7 DEF Save, SaveFails, StepInv
    <3>2. run'[k] \in {run[k], Advanced(run[k], pending[k])}
      BY <2>7 DEF Save, SaveFails
    <3>3. run'[k] # None
      BY <1>a, <3>1, <3>2, AdvancedType
    <3>4. \/ pc'[k] = "idle" /\ pending'[k] = None
          \/ pc'[k] = "invalidate" /\ pending'[k] = pending[k]
      BY <2>7, <2>a DEF Save, SaveFails, Goto, Store!Abandon
    <3> QED  BY <1>a, <3>1, <3>3, <3>4
  <2>8. ASSUME InvalidateFails(k) PROVE Goal
    <3>1. run[k] # None
      BY <2>8 DEF InvalidateFails, StepInv
    <3>2. pc'[k] = "idle" /\ pending'[k] = None
      BY <2>8, <2>a DEF InvalidateFails, Store!Abandon
    <3> QED  BY <2>8, <2>b, <3>1, <3>2 DEF InvalidateFails, RunStatuses
  <2>9. ASSUME Invalidate(k) PROVE Goal
    BY <2>9 DEF Invalidate, Goto, durable, StepInv, Store!RecordInvalidation
  <2>10. ASSUME NEW n \in 0 .. Len(TaskOrder), MarkFails(k, n) PROVE Goal
    <3>1. run[k] # None /\ UNCHANGED pending /\ pc'[k] = "idle"
      BY <2>10, <2>a DEF MarkFails, StepInv
    <3>2. run' = run \/ run' = [run EXCEPT ![k].status = "blocked"]
      BY <2>10 DEF MarkFails
    <3>3. run'[k] # None
      BY <2>b, <3>1, <3>2 DEF RunStatuses
    <3> QED  BY <2>10, <3>1, <3>3 DEF MarkFails, StepInv
  <2>11. ASSUME Select(k) PROVE Goal
    BY <2>11, <2>a DEF Select, Goto, durable, StepInv
  <2>12. ASSUME NEW t \in Tasks, Start(k, t) \/ Succeed(k, t) \/ FailTask(k, t) \/ Sweep(k, t)
         PROVE  Goal
    <3>1. UNCHANGED <<pending, run>>
      BY <2>12 DEF Start, Succeed, FailTask, Finish, Sweep, Deliver, Store!WriteEvidence
    <3>2. pc[k] \notin {"idle", "save", "invalidate"} /\ pc'[k] \notin {"save", "invalidate"}
      BY <2>12, <2>a DEF Start, Succeed, FailTask, Finish, Sweep, Goto
    <3> QED  BY <3>1, <3>2 DEF StepInv
  <2>13. ASSUME Crash(k) PROVE Goal
    BY <2>13, <2>a DEF Crash, durable, StepInv, Store!Abandon, Store!Dismiss
  <2>16. ASSUME Gating(k) PROVE Goal
    BY <2>16, GatingKeeps DEF durable, StepInv
  <2> QED
    BY <2>1, <2>2, <2>3, <2>4, <2>5, <2>6, <2>7, <2>8, <2>9, <2>10, <2>11, <2>12, <2>13,
       <2>14, <2>15, <2>16, ActsOrRests DEF Acts, Continue, Gating
<1>3. pc'[k] \in {"gate", "judge"} => gate'[k] # None
  <2>a. Leave(k) => pc'[k] = "idle"
    BY DEF Leave
  <2>1. CASE Rests(k)
    BY <2>1 DEF Rests, StepInv
  <2>2. CASE Gating(k)
    BY <2>2, GatingKeeps
  <2>3. CASE BeginEvaluate(k)
    <3>1. PICK g \in Gates : gate' = [gate EXCEPT ![k] = g]
      <4>1. [since |-> Len(changes), upto |-> [node \in Store!Nodes |-> None]] \in Gates
        BY DEF Gates
      <4> QED  BY <2>3, <4>1 DEF BeginEvaluate, Store!current
    <3> QED  BY <3>1, StoreAssumption
  <2>4. CASE Acts(k) /\ ~ Gating(k) /\ ~ BeginEvaluate(k)
    <3>1. CASE \E t \in Tasks : Start(k, t) \/ Succeed(k, t) \/ FailTask(k, t) \/ Sweep(k, t)
      BY <2>a, <3>1 DEF Start, Succeed, FailTask, Finish, Sweep, Goto, StepInv
    <3>2. CASE Save(k) \/ Select(k)
      BY <2>a, <3>2 DEF Save, Select, Goto
    <3>3. CASE CreateRun(k) \/ CreatePlan(k) \/ FailRun(k)
      BY <3>3 DEF CreateRun, CreatePlan, FailRun, local, StepInv
    <3> QED
      BY <2>a, <2>4, <3>1, <3>2, <3>3 DEF Acts, Continue, Gating, BeginApply, Apply,
         BeginExecute, Refuse, Invalidate, MarkStale, SweepNothing, Complete, SaveFails,
         InvalidateFails, Crash, MarkFails, Goto
  <2> QED  BY <2>1, <2>2, <2>3, <2>4, ActsOrRests
<1> QED  BY <1>1, <1>2, <1>3 DEF StepInv

LEMMA BaseInvariant == Spec => []BaseInv
<1>1. BaseInv /\ HistoryInv /\ HistoryInv' /\ [Next]_vars => BaseInv'
  BY TypeStep, AuthorStep, StepStep DEF BaseInv
<1> QED  BY <1>1, InitBase, HistoryInvariant, PTL DEF Spec

\* Every variable of a run keeps its type (controller.py:60-90, models/run.py).
THEOREM RunTyped == Spec => []TypeOK
<1>1. BaseInv => TypeOK
  OBVIOUS
<1> QED  BY <1>1, BaseInvariant, PTL

-----------------------------------------------------------------------------
(* What a run has counted. *)

CountInv(k) ==
  run[k] # None =>
    /\ run[k].active <= Len(changes)
    /\ run[k].seen \subseteq 1 .. Len(changes)
    /\ run[k].iteration = Cardinality(run[k].seen \cap Own(k))
    /\ Cardinality(run[k].seen) = run[k].iteration + 1
    /\ pc[k] = "save" => pending[k] \notin run[k].seen /\ run[k].active < pending[k]
    /\ pc[k] = "invalidate" => run[k].active = pending[k]
    /\ lapses = 0 => \A r \in Own(k) :
         \/ r \in run[k].seen /\ r <= run[k].active
         \/ pc[k] = "save" /\ r = pending[k]

\* A step that leaves the counts of a run, and the revisions it committed, leaves
\* the invariant, unless it gives up a revision that was to be saved.
LEMMA CountKept ==
  ASSUME BaseInv, HistoryInv, [Next]_vars, NEW k \in Runs, CountInv(k), run[k] # None,
         run'[k].active = run[k].active, run'[k].seen = run[k].seen,
         run'[k].iteration = run[k].iteration, Own(k)' = Own(k),
         pc'[k] \in {"save", "invalidate"} => pc'[k] = pc[k] /\ pending'[k] = pending[k],
         lapses' = 0 => pc[k] # "save" \/ pc'[k] = "save"
  PROVE  CountInv(k)'
<1>1. Len(changes) \in Nat /\ Len(changes') \in Nat /\ Len(changes') >= Len(changes)
  BY StoreGrows
<1>2. run[k].active \in Nat
  BY DEF TypeOK, RunStates, Store!Revisions
<1>3. lapses' = 0 => lapses = 0
  BY LapsesGrow
<1> QED  BY <1>1, <1>2, <1>3 DEF CountInv

\* Saving the revision a run committed counts it, once.
LEMMA CountSaved ==
  ASSUME BaseInv, HistoryInv, [Next]_vars, NEW k \in Runs, CountInv(k), pc[k] = "save",
         run'[k] = Advanced(run[k], pending[k]), Own(k)' = Own(k), UNCHANGED changes,
         pc'[k] # "save", pc'[k] = "invalidate" => pending'[k] = pending[k]
  PROVE  CountInv(k)'
<1> DEFINE p == pending[k]
           seen == run[k].seen
<1>1. run[k] \in RunStates /\ run[k] # None /\ p \in Store!Revisions /\ p # None
  BY DEF StepInv, TypeOK
<1>2. p \in 2 .. Len(changes) /\ author[p] = k /\ Len(changes) \in Nat
  BY <1>1 DEF AuthorInv, Store!Revisions
<1>3. p \in Own(k)
  BY <1>2 DEF Own, Store!current
<1>4. p \notin seen /\ run[k].active < p /\ seen \subseteq 1 .. Len(changes)
  BY <1>1 DEF CountInv
<1>5. IsFiniteSet(seen) /\ IsFiniteSet(seen \cap Own(k))
  <2>1. IsFiniteSet(1 .. Len(changes))
    BY <1>2, FS_Interval
  <2> QED  BY <1>4, <2>1, FS_Subset
<1>6. /\ Cardinality(seen \cup {p}) = Cardinality(seen) + 1
      /\ Cardinality((seen \cap Own(k)) \cup {p}) = Cardinality(seen \cap Own(k)) + 1
  BY <1>4, <1>5, FS_AddElement
<1>7. (seen \cup {p}) \cap Own(k) = (seen \cap Own(k)) \cup {p}
  BY <1>3
<1>8. /\ run'[k].active = p /\ run'[k].seen = seen \cup {p}
      /\ run'[k].iteration = run[k].iteration + 1
  BY <1>1 DEF Advanced, RunStates
<1>9. /\ run[k].iteration = Cardinality(seen \cap Own(k))
      /\ Cardinality(seen) = run[k].iteration + 1
      /\ run[k].iteration \in Nat /\ run[k].active \in Nat
  BY <1>1 DEF CountInv, RunStates, Store!Revisions
<1>10. lapses' = 0 => \A r \in Own(k) : r \in seen \cup {p} /\ r <= p
  <2>1. ASSUME lapses' = 0, NEW r \in Own(k) PROVE r \in seen \cup {p} /\ r <= p
    <3>1. (r \in seen /\ r <= run[k].active) \/ r = p
      BY <1>1, <2>1, LapsesGrow DEF CountInv
    <3>2. r \in Nat
      BY DEF Own, Store!current
    <3> QED  BY <1>2, <1>4, <1>9, <3>1, <3>2
  <2> QED  BY <2>1
<1>11. /\ run'[k].active <= Len(changes') /\ run'[k].seen \subseteq 1 .. Len(changes')
       /\ pc'[k] = "invalidate" => run'[k].active = pending'[k]
  BY <1>2, <1>4, <1>8
<1>12. run'[k].seen \cap Own(k)' = (seen \cap Own(k)) \cup {p}
  BY <1>7, <1>8
<1>13. /\ run'[k].iteration = Cardinality(run'[k].seen \cap Own(k)')
       /\ Cardinality(run'[k].seen) = run'[k].iteration + 1
  BY <1>6, <1>8, <1>9, <1>12
<1>14. lapses' = 0 => \A r \in Own(k)' : r \in run'[k].seen /\ r <= run'[k].active
  BY <1>8, <1>10
<1> HIDE DEF seen, p, HistoryInv, BaseInv
<1> QED  BY <1>11, <1>13, <1>14 DEF CountInv

LEMMA CountStep ==
  ASSUME BaseInv, HistoryInv, HistoryInv', [Next]_vars, NEW k \in Runs, CountInv(k)
  PROVE  CountInv(k)'
<1> DEFINE Same == /\ run'[k].active = run[k].active /\ run'[k].seen = run[k].seen
                   /\ run'[k].iteration = run[k].iteration
<1>a. Leave(k) => pc'[k] = "idle"
  BY DEF Leave, TypeOK
<1>b. ASSUME NEW status, run[k] # None, run' = [run EXCEPT ![k].status = status] PROVE Same
  BY <1>b DEF TypeOK, RunStates
<1>c. UNCHANGED <<changes, author>> => Own(k)' = Own(k)
  BY DEF Own, Store!current
<1>1. CASE Rests(k)
  <2>1. run[k] = None => CountInv(k)'
    BY <1>1 DEF Rests, CountInv
  <2> QED  BY <1>1, <2>1, CountKept DEF Rests
<1>2. ASSUME CreateRun(k) PROVE CountInv(k)'
  <2>1. run'[k] = [active |-> Len(changes), status |-> "created", iteration |-> 0,
                   seen |-> {Len(changes)}]
    BY <1>2 DEF CreateRun, Store!current, TypeOK
  <2>2. Own(k) = {} /\ pc[k] = "idle" /\ UNCHANGED <<changes, pc, author>>
    BY <1>2 DEF CreateRun, StepInv, local
  <2>3. Len(changes) \in Nat /\ Len(changes) >= 1
    BY StoreGrows
  <2>4. Cardinality({Len(changes)}) = 1 /\ Cardinality({Len(changes)} \cap {}) = 0
    BY FS_Singleton, FS_EmptySet
  <2>5. Own(k)' = {}
    BY <1>c, <2>2
  <2>6. run'[k].seen = {Len(changes)} /\ run'[k].iteration = 0 /\ run'[k].active = Len(changes)
    BY <2>1
  <2> HIDE DEF HistoryInv, BaseInv
  <2> QED  BY <2>2, <2>3, <2>4, <2>5, <2>6 DEF CountInv
<1>3. ASSUME CreatePlan(k) \/ FailRun(k) PROVE CountInv(k)'
  <2>1. run[k] # None /\ pc[k] = "idle" /\ UNCHANGED <<changes, author, pc>>
    BY <1>3 DEF CreatePlan, FailRun, Idle, local
  <2>2. Same
    BY <1>3, <1>b, <2>1 DEF CreatePlan, FailRun
  <2> QED  BY <1>c, <2>1, <2>2, CountKept
<1>4. ASSUME BeginApply(k) \/ BeginExecute(k) \/ BeginEvaluate(k) PROVE CountInv(k)'
  <2>1. run[k] # None /\ pc[k] = "idle" /\ UNCHANGED <<changes, author, run>>
          /\ pc'[k] \notin {"save", "invalidate"}
    BY <1>4 DEF BeginApply, BeginExecute, BeginEvaluate, Idle, Goto, durable, TypeOK
  <2> QED  BY <1>c, <2>1, CountKept
<1>5. ASSUME NEW paths \in ChangeSets, Apply(k, paths) PROVE CountInv(k)'
  <2>1. /\ run[k] # None /\ pc'[k] = "save" /\ pc[k] = "apply" /\ UNCHANGED run
        /\ UNCHANGED lapses
    BY <1>5 DEF Apply, Goto, durable, StepInv, TypeOK
  <2>2. /\ Own(k)' = Own(k) \cup {Len(changes) + 1}
        /\ pending'[k] = Len(changes) + 1 /\ Len(changes') = Len(changes) + 1
    BY <1>5, CommitOwns, LogTypedHolds DEF Apply
  <2>3. Len(changes) \in Nat /\ run[k].active \in Nat
    BY <2>1 DEF TypeOK, RunStates, Store!Revisions
  <2>4. run[k].seen \cap Own(k)' = run[k].seen \cap Own(k)
    BY <2>1, <2>2, <2>3 DEF CountInv
  <2>5. /\ run[k].active <= Len(changes) /\ run[k].seen \subseteq 1 .. Len(changes)
        /\ run[k].iteration = Cardinality(run[k].seen \cap Own(k))
        /\ Cardinality(run[k].seen) = run[k].iteration + 1
        /\ lapses = 0 => \A r \in Own(k) : r \in run[k].seen /\ r <= run[k].active
    BY <2>1 DEF CountInv
  <2> HIDE DEF HistoryInv, BaseInv
  <2>6. Len(changes) + 1 \notin run[k].seen /\ run[k].active < Len(changes) + 1
    BY <2>3, <2>5
  <2>7. run[k].seen \subseteq 1 .. Len(changes')
    BY <2>2, <2>3, <2>5
  <2>8. lapses' = 0 => \A r \in Own(k)' :
          \/ r \in run'[k].seen /\ r <= run'[k].active
          \/ pc'[k] = "save" /\ r = pending'[k]
    <3> SUFFICES ASSUME lapses' = 0, NEW r \in Own(k)'
                 PROVE  \/ r \in run'[k].seen /\ r <= run'[k].active
                        \/ pc'[k] = "save" /\ r = pending'[k]
      OBVIOUS
    <3>1. r \in Own(k) \/ r = Len(changes) + 1
      BY <2>2
    <3> QED  BY <2>1, <2>2, <2>5, <3>1
  <2>9. run'[k].active <= Len(changes')
    BY <2>1, <2>2, <2>3, <2>5
  <2> QED  BY <2>1, <2>2, <2>4, <2>5, <2>6, <2>7, <2>8, <2>9 DEF CountInv
<1>6. ASSUME Refuse(k) \/ SweepNothing(k) \/ MarkStale(k) PROVE CountInv(k)'
  <2>1. run[k] # None /\ pc[k] # "save" /\ UNCHANGED <<changes, author, run>> /\ pc'[k] = "idle"
    BY <1>6, <1>a DEF Refuse, SweepNothing, MarkStale, durable, StepInv
  <2> QED  BY <1>c, <2>1, CountKept
<1>7. ASSUME Complete(k) PROVE CountInv(k)'
  <2>1. run[k] # None /\ pc[k] # "save" /\ UNCHANGED <<changes, author>> /\ pc'[k] = "idle"
    BY <1>7, <1>a DEF Complete, StepInv
  <2> QED  BY <1>7, <1>b, <1>c, <2>1, CountKept DEF Complete
<1>8. ASSUME Save(k) PROVE CountInv(k)'
  <2>1. pc[k] = "save" /\ run[k] # None /\ run'[k] = Advanced(run[k], pending[k])
    BY <1>8 DEF Save, StepInv, TypeOK
  <2>2. UNCHANGED <<changes, author>>
    BY <1>8 DEF Save, Store!Abandon
  <2>3. pc'[k] = "idle" \/ (pc'[k] = "invalidate" /\ pending'[k] = pending[k])
    <3>1. pc'[k] = "idle" \/ (pc' = [pc EXCEPT ![k] = "invalidate"] /\ UNCHANGED pending)
      BY <1>8, <1>a DEF Save, Goto
    <3> QED  BY <3>1 DEF TypeOK
  <2> QED  BY <1>c, <2>1, <2>2, <2>3, CountSaved
<1>9. ASSUME SaveFails(k) PROVE CountInv(k)'
  <2>1. /\ pc[k] = "save" /\ run[k] # None /\ pc'[k] = "idle" /\ UNCHANGED <<changes, author>>
        /\ run'[k] \in {run[k], Advanced(run[k], pending[k])}
    BY <1>9, <1>a DEF SaveFails, Store!Abandon, StepInv, TypeOK
  <2>2. lapses' # 0
    BY <1>9, LapsesGrow DEF SaveFails, Lapse
  <2> QED  BY <1>c, <2>1, <2>2, CountKept, CountSaved
<1>10. ASSUME InvalidateFails(k) PROVE CountInv(k)'
  <2>1. /\ pc[k] = "invalidate" /\ run[k] # None /\ pc'[k] = "idle"
        /\ UNCHANGED <<changes, author>>
    BY <1>10, <1>a DEF InvalidateFails, Store!Abandon, StepInv
  <2> QED  BY <1>10, <1>b, <1>c, <2>1, CountKept DEF InvalidateFails
<1>11. ASSUME Invalidate(k) PROVE CountInv(k)'
  <2>1. /\ pc[k] = "invalidate" /\ run[k] # None /\ pc'[k] = "mark"
        /\ UNCHANGED <<changes, author, run>>
    BY <1>11 DEF Invalidate, Goto, Store!RecordInvalidation, StepInv, durable, TypeOK
  <2> QED  BY <1>c, <2>1, CountKept
<1>12. ASSUME NEW n \in 0 .. Len(TaskOrder), MarkFails(k, n) PROVE CountInv(k)'
  <2>1. /\ pc[k] = "mark" /\ run[k] # None /\ pc'[k] = "idle" /\ UNCHANGED <<changes, author>>
    BY <1>12, <1>a DEF MarkFails, StepInv
  <2>2. Same
    BY <1>12, <1>b, <2>1 DEF MarkFails
  <2> QED  BY <1>c, <2>1, <2>2, CountKept
<1>13. ASSUME \/ Select(k)
              \/ \E t \in Tasks : Start(k, t) \/ Succeed(k, t) \/ FailTask(k, t) \/ Sweep(k, t)
       PROVE  CountInv(k)'
  <2>1. UNCHANGED <<changes, author, run>>
    BY <1>13 DEF Select, Start, Succeed, FailTask, Finish, Sweep, Deliver, Store!WriteEvidence,
         durable
  <2>2. pc[k] \notin {"idle", "save"} /\ pc'[k] \notin {"save", "invalidate"}
    BY <1>13, <1>a DEF Select, Start, Succeed, FailTask, Finish, Sweep, Goto, TypeOK
  <2> QED  BY <1>c, <2>1, <2>2, CountKept DEF StepInv
<1>14. ASSUME Crash(k) PROVE CountInv(k)'
  <2>1. /\ run[k] # None /\ pc'[k] = "idle" /\ UNCHANGED <<changes, author, run>>
    BY <1>14, <1>a DEF Crash, Store!Abandon, Store!Dismiss, StepInv, durable
  <2>2. lapses' # 0
    <3>1. lapses' = lapses + 1
      BY <1>14 DEF Crash, Lapse
    <3> QED  BY <3>1, LapsesGrow
  <2> QED  BY <1>c, <2>1, <2>2, CountKept
<1>15. ASSUME Gating(k) PROVE CountInv(k)'
  <2>1. /\ run[k] # None /\ pc[k] # "save" /\ UNCHANGED <<changes, author, run>>
        /\ pc'[k] \notin {"save", "invalidate"}
    BY <1>15, GatingKeeps DEF durable, StepInv
  <2> QED  BY <1>c, <2>1, CountKept
<1> QED
  BY <1>1, <1>2, <1>3, <1>4, <1>5, <1>6, <1>7, <1>8, <1>9, <1>10, <1>11, <1>12, <1>13, <1>14,
     <1>15, ActsOrRests DEF Acts, Continue, Gating

CountsInv == \A k \in Runs : CountInv(k)

LEMMA CountsInvariant == Spec => []CountsInv
<1>1. Init => CountsInv
  BY DEF Init, CountsInv, CountInv
<1>2. BaseInv /\ HistoryInv /\ HistoryInv' /\ CountsInv /\ [Next]_vars => CountsInv'
  BY CountStep DEF CountsInv
<1> QED  BY <1>1, <1>2, BaseInvariant, HistoryInvariant, PTL DEF Spec

\* The iteration of a run is the number of the revisions it committed and saved,
\* for any limits, runs and failures, whoever else commits in between
\* (controller.py:194-213, convergence.py:7-21).
THEOREM RunCounts == Spec => []IterationCountsRevisions
<1>1. BaseInv /\ CountsInv => IterationCountsRevisions
  <2> SUFFICES ASSUME BaseInv, CountsInv, NEW k \in Runs, run[k] # None
               PROVE  /\ run[k].iteration = Cardinality(run[k].seen \cap Own(k))
                      /\ Cardinality(run[k].seen) = run[k].iteration + 1
                      /\ lapses = 0 => Own(k) \ (run[k].seen \cap Own(k)) \subseteq {pending[k]}
    BY DEF IterationCountsRevisions
  <2> QED  BY DEF CountsInv, CountInv
<1> QED  BY <1>1, BaseInvariant, CountsInvariant, PTL

-----------------------------------------------------------------------------
(* The status of a task. *)

StatusSteps(t, k) ==
  \/ task'[t] = task[t]
  \/ AddTask(t)
  \/ /\ task[t] # None /\ task'[t] # None
     /\ \/ Start(k, t) /\ task'[t].status = "running"
        \/ Succeed(k, t) /\ task'[t].status = "succeeded"
        \/ FailTask(k, t) /\ task'[t].status = "failed"
        \/ /\ task[t].status = "pending" /\ task'[t].status \in {"stale", "blocked"}
           /\ pc[k] \in {"mark", "sweep"}

\* All that can happen to a task, by the run it belongs to.
LEMMA TaskStep ==
  ASSUME BaseInv, HistoryInv, [Next]_vars, NEW t \in Tasks
  PROVE  StatusSteps(t, RunOf[t])
<1> DEFINE k == RunOf[t]
<1>1. k \in Runs /\ task \in [Tasks -> TaskStates \cup {None}]
  BY Assumed DEF TypeOK
<1>2. CASE Rests(k)
  BY <1>2 DEF Rests, StatusSteps
<1>3. CASE \/ CreateRun(k) \/ CreatePlan(k) \/ FailRun(k) \/ BeginApply(k)
           \/ \E paths \in ChangeSets : Apply(k, paths)
           \/ BeginExecute(k) \/ BeginEvaluate(k) \/ Refuse(k) \/ Save(k) \/ Invalidate(k)
           \/ Select(k) \/ SweepNothing(k) \/ Complete(k)
           \/ SaveFails(k) \/ InvalidateFails(k) \/ Crash(k)
  <2>1. task' = task
    BY <1>3 DEF CreateRun, CreatePlan, FailRun, BeginApply, Apply, BeginExecute, BeginEvaluate,
       Refuse, Save, Invalidate, Select, SweepNothing, Complete, SaveFails, InvalidateFails, Crash, durable
  <2> QED  BY <2>1 DEF StatusSteps
<1>4. ASSUME NEW ts \in SUBSET Affected(k, records[run[k].active]), pc[k] = "mark",
             task' = SetStatus(ts, "stale")
      PROVE  StatusSteps(t, k)
  <2>1. ts \in SUBSET {u \in Tasks : task[u] # None}
    BY DEF Affected, Defined, TasksOf
  <2>2. \A u \in ts : task[u].status = "pending"
    BY DEF Affected
  <2>3. "stale" \in TaskStatuses
    BY DEF TaskStatuses
  <2>4. CASE t \in ts
    <3>1. task[t] # None /\ task'[t] # None /\ task'[t].status = "stale"
      <4>1. /\ \A u \in ts : /\ SetStatus(ts, "stale")[u] \in TaskStates
                             /\ SetStatus(ts, "stale")[u].status = "stale"
            /\ \A u \in Tasks : task[u] # None <=> SetStatus(ts, "stale")[u] # None
        BY <1>1, <2>1, <2>3, StatusSet
      <4> QED  BY <1>4, <2>1, <2>4, <4>1
    <3> QED  BY <1>4, <2>2, <2>4, <3>1 DEF StatusSteps
  <2>5. CASE t \notin ts
    <3>1. task'[t] = SetStatus(ts, "stale")[t] /\ t \in Tasks \ ts
      BY <1>4, <2>5
    <3>2. task'[t] = task[t]
      BY <1>1, <2>1, <2>3, <3>1, StatusSet
    <3> QED  BY <3>2 DEF StatusSteps
  <2> QED  BY <2>4, <2>5
<1>5. CASE MarkStale(k) \/ \E n \in 0 .. Len(TaskOrder) : MarkFails(k, n)
  BY <1>4, <1>5 DEF MarkStale, MarkFails
<1>6. ASSUME NEW u \in Tasks, Start(k, u) \/ Succeed(k, u) \/ FailTask(k, u) \/ Sweep(k, u)
      PROVE  StatusSteps(t, k)
  <2>1. {u} \in SUBSET {v \in Tasks : task[v] # None}
    BY <1>1, <1>6 DEF Start, Succeed, FailTask, Finish, Sweep, Goto, First, StepInv, Defined
  <2>2. \/ task' = task
        \/ \E status \in TaskStatuses : task' = SetStatus({u}, status)
    BY <1>6 DEF Start, Succeed, FailTask, Finish, Sweep, TaskStatuses
  <2>3. CASE u # t
    <3>1. t \in Tasks \ {u}
      BY <2>3
    <3>2. ASSUME NEW status \in TaskStatuses, task' = SetStatus({u}, status)
          PROVE  task'[t] = task[t]
      <4>1. task'[t] = SetStatus({u}, status)[t]
        BY <3>2
      <4>2. \A v \in Tasks \ {u} : SetStatus({u}, status)[v] = task[v]
        BY <1>1, <2>1, StatusSet
      <4> QED  BY <3>1, <4>1, <4>2
    <3> QED  BY <2>2, <3>2 DEF StatusSteps
  <2>4. CASE u = t
    <3>1. task[t] # None
      BY <2>1, <2>4
    <3>2. ASSUME NEW status \in TaskStatuses, task' = SetStatus({u}, status)
          PROVE  task'[t] # None /\ task'[t].status = status
      BY <1>1, <2>1, <2>4, <3>2, StatusSet
    <3>3. CASE Start(k, u)
      BY <2>4, <3>1, <3>2, <3>3 DEF Start, StatusSteps, TaskStatuses
    <3>4. CASE Succeed(k, u)
      BY <2>4, <3>1, <3>2, <3>4 DEF Succeed, Finish, StatusSteps, TaskStatuses
    <3>5. CASE FailTask(k, u)
      BY <2>4, <3>1, <3>2, <3>5 DEF FailTask, Finish, StatusSteps, TaskStatuses
    <3>6. CASE Sweep(k, u)
      BY <2>4, <3>1, <3>2, <3>6 DEF Sweep, StatusSteps, TaskStatuses
    <3> QED  BY <1>6, <3>3, <3>4, <3>5, <3>6
  <2> QED  BY <2>3, <2>4
<1>7. CASE Gating(k)
  <2>1. task' = task
    BY <1>1, <1>7, GatingKeeps DEF durable
  <2> QED  BY <2>1 DEF StatusSteps
<1> QED
  BY <1>1, <1>2, <1>3, <1>5, <1>6, <1>7, ActsOrRests DEF Acts, Continue, Gating

Done(t) == task[t] # None /\ task[t].status = "succeeded"

\* While a batch runs, its tasks are still to run, and ready.
BatchInv(k) ==
  pc[k] \in {"start", "work"} =>
    \A t \in batch[k] : /\ task[t].status \in {"pending", "running"}
                        /\ \A d \in DependsOn[t] : Done(d)

OrderInv == DependenciesFirst /\ \A k \in Runs : BatchInv(k)

LEMMA InBatch ==
  ASSUME NEW k, NEW t, Start(k, t) \/ Succeed(k, t) \/ FailTask(k, t)
  PROVE  t \in batch[k] /\ pc[k] \in {"start", "work"}
  BY DEF Start, Succeed, FailTask, Finish, First, Goto

\* What has succeeded stays so.
LEMMA DoneStays ==
  ASSUME BaseInv, HistoryInv, OrderInv, [Next]_vars, NEW t \in Tasks, Done(t)
  PROVE  Done(t)'
<1>1. RunOf[t] \in Runs
  BY Assumed
<1>2. ~ (Start(RunOf[t], t) \/ Succeed(RunOf[t], t) \/ FailTask(RunOf[t], t))
  <2>1. t \in batch[RunOf[t]] => pc[RunOf[t]] \notin {"start", "work"}
    BY <1>1 DEF OrderInv, BatchInv, Done
  <2> QED  BY <2>1, InBatch
<1>3. ~ AddTask(t)
  BY DEF AddTask, Done
<1> QED  BY <1>2, <1>3, TaskStep DEF StatusSteps, Done

LEMMA OrderStep ==
  BaseInv /\ HistoryInv /\ OrderInv /\ [Next]_vars => OrderInv'
<1> SUFFICES ASSUME BaseInv, HistoryInv, OrderInv, [Next]_vars PROVE OrderInv'
  OBVIOUS
<1>1. DependenciesFirst'
  <2> SUFFICES ASSUME NEW t \in Tasks, task'[t] # None,
                      task'[t].status \in {"running", "succeeded"}, NEW d \in DependsOn[t]
               PROVE  Done(d)'
    BY DEF DependenciesFirst, Done
  <2>1. d \in Tasks /\ RunOf[t] \in Runs
    BY Assumed
  <2>2. CASE task'[t] = task[t]
    BY <2>1, <2>2, DoneStays DEF OrderInv, DependenciesFirst, Done
  <2>3. CASE AddTask(t)
    <3>1. task'[t].status = "pending"
      BY <2>3 DEF AddTask, TypeOK
    <3> QED  BY <3>1
  <2>4. CASE Start(RunOf[t], t) \/ Succeed(RunOf[t], t)
    <3>1. Done(d)
      BY <2>1, <2>4, InBatch DEF OrderInv, BatchInv
    <3> QED  BY <2>1, <3>1, DoneStays
  <2> QED  BY <2>2, <2>3, <2>4, TaskStep DEF StatusSteps
<1>2. ASSUME NEW k \in Runs PROVE BatchInv(k)'
  <2> SUFFICES ASSUME pc'[k] \in {"start", "work"}, NEW t \in batch'[k]
               PROVE  /\ task'[t].status \in {"pending", "running"}
                      /\ \A d \in DependsOn[t] : Done(d)'
    BY DEF BatchInv
  <2>1. CASE Select(k)
    <3>1. pc'[k] = "start" => batch'[k] = Ready(k)
      BY <2>1 DEF Select, Leave, Goto, TypeOK
    <3>2. pc'[k] = "start" /\ UNCHANGED task
      BY <2>1 DEF Select, Leave, Goto, TypeOK, durable
    <3>3. t \in Ready(k)
      BY <3>1, <3>2
    <3>4. t \in Tasks /\ task[t].status = "pending" /\ \A d \in DependsOn[t] : Done(d)
      BY <3>3 DEF Ready, Defined, TasksOf, Done
    <3> QED  BY <3>2, <3>4, DoneStays, Assumed
  <2>2. CASE ~ Select(k)
    <3>1. pc[k] \in {"start", "work"} /\ t \in batch[k]
      <4>1. CASE Rests(k)
        BY <4>1 DEF Rests
      <4>2. CASE Acts(k)
        <5>1. Leave(k) => pc'[k] = "idle"
          BY DEF Leave, TypeOK
        <5>4. CASE Gating(k)
          BY <5>4, GatingKeeps
        <5>2. CASE ~ Gating(k)
              /\ ~ \E u \in Tasks : Start(k, u) \/ Succeed(k, u) \/ FailTask(k, u)
          BY <2>2, <4>2, <5>1, <5>2 DEF Acts, CreateRun, CreatePlan, FailRun, BeginApply, Apply,
             BeginExecute, BeginEvaluate, Continue, Gating, Refuse, Save, Invalidate, MarkStale,
             SweepNothing, Sweep, Complete, SaveFails, InvalidateFails, Crash, MarkFails, local, Goto, TypeOK
        <5>3. ASSUME NEW u \in Tasks, Start(k, u) \/ Succeed(k, u) \/ FailTask(k, u)
              PROVE  pc[k] \in {"start", "work"} /\ t \in batch[k]
          <6>1. pc[k] \in {"start", "work"}
            BY <5>3, InBatch
          <6>2. batch'[k] \subseteq batch[k]
            BY <5>3 DEF Start, Succeed, FailTask, Finish, TypeOK
          <6> QED  BY <6>1, <6>2
        <5> QED  BY <5>2, <5>3, <5>4
      <4> QED  BY <4>1, <4>2, ActsOrRests
    <3>2. t \in Tasks /\ task[t] # None /\ RunOf[t] = k
      BY <3>1 DEF StepInv, Defined, TasksOf
    <3>3. task[t].status \in {"pending", "running"} /\ \A d \in DependsOn[t] : Done(d)
      BY <3>1 DEF OrderInv, BatchInv
    <3>4. \A d \in DependsOn[t] : Done(d)'
      BY <3>2, <3>3, DoneStays, Assumed
    <3>5. task'[t].status \in {"pending", "running"}
      <4>1. ~ AddTask(t)
        BY <3>2 DEF AddTask
      <4>2. ~ (Succeed(k, t) \/ FailTask(k, t))
        BY DEF Succeed, FailTask, Finish, TypeOK
      <4> QED
        BY <3>1, <3>2, <3>3, <4>1, <4>2, TaskStep DEF StatusSteps
    <3> QED  BY <3>4, <3>5
  <2> QED  BY <2>1, <2>2
<1> QED  BY <1>1, <1>2 DEF OrderInv

LEMMA OrderInvariant == Spec => []OrderInv
<1>1. Init => OrderInv
  BY DEF Init, OrderInv, DependenciesFirst, BatchInv
<1> QED  BY <1>1, OrderStep, BaseInvariant, HistoryInvariant, PTL DEF Spec

\* Nothing runs, or has succeeded, unless all it depends on has succeeded before,
\* for any tasks and dependencies, also across runs, whatever fails or goes stale
\* (scheduler.py:30-43, controller.py:139-158).
THEOREM TasksInOrder == Spec => []DependenciesFirst
<1>1. OrderInv => DependenciesFirst
  BY DEF OrderInv
<1> QED  BY <1>1, OrderInvariant, PTL

-----------------------------------------------------------------------------
(* What a run knows to have changed. *)

\* Without a lapse: only the task in work is running, and no record of the run
\* after the binding of an unfinished task lists a node the task needs, except
\* the one whose tasks are being marked.
WorkInv(t) ==
  LET k == RunOf[t]
  IN task[t] # None /\ lapses = 0 =>
       /\ task[t].status = "running" => pc[k] = "work" /\ First(t, batch[k])
       /\ task[t].status \in {"pending", "running"} =>
            \A r \in Own(k) :
              r > task[t].bound /\ records[r] # None =>
                \/ Needs[t] \cap records[r] = {}
                \/ pc[k] = "mark" /\ r = run[k].active

\* A record is that of a revision its writer committed, which it has just left
\* behind.
LEMMA RecordStep ==
  ASSUME BaseInv, HistoryInv, [Next]_vars, NEW k \in Runs, NEW r \in Own(k)'
  PROVE  \/ records'[r] = None
         \/ records'[r] = records[r] /\ r \in Own(k)
         \/ /\ Invalidate(k) /\ r = pending[k] /\ r \in Own(k)
<1> USE DEF TypeOK
<1>1. CASE UNCHANGED records
  <2>1. CASE \E w \in Runs \cup Others, paths \in ChangeSets :
               Store!Commit(w, paths) /\ author' = Append(author, w)
    <3>1. r \in Own(k) \/ (r = Len(changes) + 1 /\ r \in Store!Revisions)
      <4>1. PICK w \in Runs \cup Others, paths \in ChangeSets :
              Store!Commit(w, paths) /\ author' = Append(author, w)
        BY <2>1
      <4>2. Len(changes) + 1 \in Store!Revisions
        <5>1. Len(changes) < MaxRevision
          BY <4>1 DEF Store!Commit, Store!current
        <5> QED  BY <5>1, StoreGrows, StoreAssumption DEF Store!Revisions
      <4>3. CASE w = k
        <5>1. Own(k)' = Own(k) \cup {Len(changes) + 1}
          BY <4>1, <4>3, CommitOwns, LogTypedHolds
        <5> QED  BY <4>2, <5>1
      <4>4. CASE w # k
        BY <4>1, <4>4, CommitOwns, LogTypedHolds
      <4> QED  BY <4>3, <4>4
    <3>2. records[Len(changes) + 1] = None \/ Len(changes) + 1 \notin Store!Revisions
      BY DEF Store!Revisions
    <3> QED  BY <1>1, <3>1, <3>2
  <2>2. CASE UNCHANGED <<changes, author>>
    BY <1>1, <2>2 DEF Own, Store!current
  <2> QED  BY <2>1, <2>2, HistoryStep
<1>2. ASSUME NEW w \in Runs \cup Others, Store!RecordInvalidation(w), UNCHANGED author
      PROVE  /\ r \in Own(k)
             /\ records'[r] = records[r] \/ (w = k /\ r = pending[k])
  <2>1. r \in Own(k) /\ author[r] = k
    BY <1>2 DEF Store!RecordInvalidation, Own, Store!current
  <2>2. author[pending[w]] = w
    BY <1>2 DEF Store!RecordInvalidation, AuthorInv
  <2>3. r = pending[w] => w = k
    BY <2>1, <2>2
  <2>4. r # pending[w] => records'[r] = records[r]
    BY <1>2 DEF Store!RecordInvalidation
  <2> QED  BY <2>1, <2>3, <2>4
<1>3. \/ UNCHANGED records
      \/ \E j \in Runs : Invalidate(j)
      \/ \E w \in Others : Store!RecordInvalidation(w) /\ UNCHANGED author
  <2>1. CASE UNCHANGED vars
    BY <2>1 DEF vars
  <2>2. ASSUME NEW w \in Others, OtherRun(w)
        PROVE  UNCHANGED records \/ (Store!RecordInvalidation(w) /\ UNCHANGED author)
    BY <2>2 DEF OtherRun, Store!Commit, Store!Abandon
  <2>3. ASSUME NEW j \in Runs, Acts(j), ~ Invalidate(j) PROVE UNCHANGED records
    BY <2>3, GatingKeeps DEF Acts, CreateRun, CreatePlan, FailRun, BeginApply, Apply,
       BeginExecute, BeginEvaluate, Continue, Gating, Refuse, Save, MarkStale, Select, SweepNothing, Sweep, Complete, SaveFails,
       InvalidateFails, Crash, MarkFails, Start, Succeed, FailTask, Finish, Deliver,
       Store!Commit, Store!Abandon, Store!Dismiss, Store!WriteEvidence
  <2>4. ASSUME NEW t \in Tasks, AddTask(t) PROVE UNCHANGED records
    BY <2>4 DEF AddTask
  <2> QED  BY <2>1, <2>2, <2>3, <2>4 DEF Next, Acts
<1>4. ASSUME NEW j \in Runs, Invalidate(j)
      PROVE  \/ records'[r] = records[r] /\ r \in Own(k)
             \/ Invalidate(k) /\ r = pending[k] /\ r \in Own(k)
  BY <1>2, <1>4 DEF Invalidate
<1> QED  BY <1>1, <1>2, <1>3, <1>4, Assumed

LEMMA OwnIdle ==
  ASSUME BaseInv, HistoryInv, NEW k \in Runs, CountInv(k), run[k] # None, pc[k] # "save",
         lapses = 0, NEW r \in Own(k)
  PROVE  r <= run[k].active
  BY DEF CountInv

LEMMA WorkStep ==
  ASSUME BaseInv, HistoryInv, CountsInv, OrderInv, [Next]_vars,
         NEW t \in Tasks, WorkInv(t)
  PROVE  WorkInv(t)'
<1> DEFINE k == RunOf[t]
<1> SUFFICES ASSUME task'[t] # None, lapses' = 0
             PROVE  /\ task'[t].status = "running" => pc'[k] = "work" /\ First(t, batch'[k])
                    /\ task'[t].status \in {"pending", "running"} =>
                         \A r \in Own(k)' :
                           r > task'[t].bound /\ records'[r] # None =>
                             \/ Needs[t] \cap records'[r] = {}
                             \/ pc'[k] = "mark" /\ r = run'[k].active
  BY DEF WorkInv
<1>1. k \in Runs /\ lapses = 0
  BY Assumed, LapsesGrow
<1>2. ASSUME task'[t].status = "running" PROVE pc'[k] = "work" /\ First(t, batch'[k])
  <2>1. CASE Start(k, t)
    BY <1>1, <2>1 DEF Start, Goto, TypeOK
  <2>2. CASE task'[t] = task[t]
    <3>1. pc[k] = "work" /\ First(t, batch[k])
      BY <1>1, <1>2, <2>2 DEF WorkInv
    <3>2. CASE Rests(k)
      BY <3>1, <3>2 DEF Rests
    <3>3. CASE Acts(k)
      <4>1. PICK u \in Tasks : Succeed(k, u) \/ FailTask(k, u)
        <5>1. ~ Crash(k)
          BY <1>1 DEF Crash, Lapse
        <5>2. ~ (CreateRun(k) \/ CreatePlan(k) \/ FailRun(k) \/ BeginApply(k)
                   \/ BeginExecute(k) \/ BeginEvaluate(k))
          BY <1>1, <3>1 DEF CreateRun, CreatePlan, FailRun, BeginApply, BeginExecute,
             BeginEvaluate, Idle, StepInv
        <5>4. ~ Gating(k)
          BY <1>1, <3>1, GatingKeeps
        <5>3. /\ ~ (Refuse(k) \/ Save(k) \/ Invalidate(k) \/ MarkStale(k) \/ Select(k)
                      \/ SweepNothing(k) \/ Complete(k) \/ SaveFails(k) \/ InvalidateFails(k))
              /\ \A paths \in ChangeSets : ~ Apply(k, paths)
              /\ \A u \in Tasks : ~ (Start(k, u) \/ Sweep(k, u))
              /\ \A n \in 0 .. Len(TaskOrder) : ~ MarkFails(k, n)
          BY <3>1 DEF Refuse, Save, Invalidate, MarkStale, Select, SweepNothing, Complete,
             SaveFails, InvalidateFails, Apply, Start, Sweep, MarkFails, Goto
        <5> QED  BY <3>3, <5>1, <5>2, <5>3, <5>4 DEF Acts, Continue, Gating
      <4>2. u = t
        BY <3>1, <4>1, FirstIsOne DEF Succeed, FailTask, Finish
      <4>3. task[t] # None /\ task \in [Tasks -> TaskStates \cup {None}]
        BY <1>1, <3>1 DEF StepInv, Defined, First, TypeOK
      <4>4. task'[t].status \in {"succeeded", "failed"}
        <5>1. \E status \in {"succeeded", "failed"} : task' = SetStatus({t}, status)
          BY <4>1, <4>2 DEF Succeed, FailTask, Finish
        <5> QED  BY <4>3, <5>1, StatusSet DEF TaskStatuses
      <4> QED  BY <1>2, <4>4
    <3> QED  BY <1>1, <3>2, <3>3, ActsOrRests
  <2>3. ~ AddTask(t)
    BY <1>2 DEF AddTask, TypeOK
  <2> QED  BY <1>2, <2>1, <2>2, <2>3, TaskStep DEF StatusSteps
<1>3. ASSUME task'[t].status \in {"pending", "running"}, NEW r \in Own(k)',
             r > task'[t].bound, records'[r] # None
      PROVE  \/ Needs[t] \cap records'[r] = {}
             \/ pc'[k] = "mark" /\ r = run'[k].active
  <2>1. CASE Invalidate(k) /\ r = pending[k] /\ r \in Own(k)
    <3>1. pc[k] = "invalidate" /\ run[k] # None /\ pc'[k] = "mark" /\ UNCHANGED run
      BY <1>1, <2>1 DEF Invalidate, Goto, StepInv, durable, TypeOK
    <3>2. run[k].active = pending[k]
      BY <1>1, <3>1 DEF CountsInv, CountInv
    <3> QED  BY <2>1, <3>1, <3>2
  <2>2. CASE ~ Invalidate(k) /\ records'[r] = records[r] /\ r \in Own(k)
    <3>1. CASE AddTask(t)
      <4>1. run[k] # None /\ pc[k] = "idle" /\ task'[t].bound = run[k].active
        BY <3>1 DEF AddTask, Idle, TypeOK
      <4>2. r <= run[k].active
        BY <1>1, <2>2, <4>1, OwnIdle DEF CountsInv
      <4>3. run[k].active \in Nat /\ r \in Nat
        BY <1>1, <4>1 DEF TypeOK, RunStates, Store!Revisions, Own, Store!current
      <4> QED  BY <1>3, <4>1, <4>2, <4>3
    <3>2. CASE ~ AddTask(t)
      <4>1. task[t] # None /\ task[t].status \in {"pending", "running"}
        <5>1. CASE task'[t] = task[t]
          BY <1>3, <5>1
        <5>2. CASE Start(k, t)
          BY <1>1, <5>2, InBatch DEF OrderInv, BatchInv, StepInv, Defined
        <5> QED  BY <1>3, <3>2, <5>1, <5>2, TaskStep DEF StatusSteps
      <4>2. task'[t].bound = task[t].bound
        BY <4>1, TasksStay
      <4>3. \/ Needs[t] \cap records[r] = {}
            \/ pc[k] = "mark" /\ r = run[k].active
        BY <1>1, <1>3, <2>2, <4>1, <4>2 DEF WorkInv
      <4>4. CASE pc[k] = "mark" /\ r = run[k].active /\ Needs[t] \cap records[r] # {}
        <5>1. CASE Rests(k)
          BY <4>4, <5>1 DEF Rests
        <5>2. CASE MarkStale(k)
          <6>1. task[t].status = "pending"
            BY <1>1, <4>1, <4>4 DEF WorkInv
          <6>2. t \in Affected(k, records[run[k].active])
            BY <4>1, <4>4, <6>1 DEF Affected, Defined, TasksOf
          <6>3. Affected(k, records[run[k].active]) \in SUBSET {u \in Tasks : task[u] # None}
            BY DEF Affected, Defined, TasksOf
          <6>4. task'[t].status = "stale"
            <7>1. task' = SetStatus(Affected(k, records[run[k].active]), "stale")
              BY <5>2 DEF MarkStale
            <7>2. task \in [Tasks -> TaskStates \cup {None}] /\ "stale" \in TaskStatuses
              BY DEF TypeOK, TaskStatuses
            <7> QED  BY <6>2, <6>3, <7>1, <7>2, StatusSet
          <6> QED  BY <1>3, <6>4
        <5>3. ASSUME Acts(k), ~ MarkStale(k) PROVE FALSE
          <6>1. ~ Crash(k) /\ \A n \in 0 .. Len(TaskOrder) : ~ MarkFails(k, n)
            BY <1>1 DEF Crash, MarkFails, Lapse
          <6>2. ~ Gating(k)
            BY <1>1, <4>4, GatingKeeps
          <6> QED
            BY <1>1, <4>4, <5>3, <6>1, <6>2 DEF Acts, CreateRun, CreatePlan, FailRun, BeginApply,
               Apply, BeginExecute, BeginEvaluate, Continue, Gating, Refuse, Save, Invalidate, Select, Succeed,
               FailTask, Finish, SweepNothing, Sweep, Start, Complete, SaveFails,
               InvalidateFails, Idle, Goto, StepInv
        <5> QED  BY <1>1, <5>1, <5>2, <5>3, ActsOrRests
      <4> QED  BY <2>2, <4>3, <4>4
    <3> QED  BY <3>1, <3>2
  <2>3. CASE Invalidate(k) /\ records'[r] = records[r] /\ r \in Own(k)
    <3>1. UNCHANGED task /\ pc[k] = "invalidate"
      BY <2>3 DEF Invalidate, durable, Goto
    <3> QED  BY <1>1, <1>3, <2>3, <3>1 DEF WorkInv
  <2> QED  BY <1>1, <1>3, <2>1, <2>2, <2>3, RecordStep
<1> QED  BY <1>2, <1>3

WorksInv == \A t \in Tasks : WorkInv(t)

LEMMA WorksInvariant == Spec => []WorksInv
<1>1. Init => WorksInv
  BY DEF Init, WorksInv, WorkInv
<1>2. BaseInv /\ HistoryInv /\ CountsInv /\ OrderInv /\ WorksInv /\ [Next]_vars => WorksInv'
  BY WorkStep DEF WorksInv
<1> QED
  BY <1>1, <1>2, BaseInvariant, HistoryInvariant, CountsInvariant, OrderInvariant, PTL DEF Spec

\* A task that runs needs nothing its run knows to have changed since the task
\* was bound, for any runs, tasks and order of their steps, as long as no write
\* fails and no process dies (controller.py:133-149, 213-217).
THEOREM RunsOnUnchangedInputs == Spec => []NoTaskOnChangedInputs
<1>1. WorksInv => NoTaskOnChangedInputs
  <2> SUFFICES ASSUME WorksInv, NEW t \in Tasks, lapses = 0, task[t] # None,
                      task[t].status = "running", NEW r \in Own(RunOf[t]),
                      r > task[t].bound, records[r] # None
               PROVE  Needs[t] \cap records[r] = {}
    BY DEF NoTaskOnChangedInputs
  <2>1. WorkInv(t)
    BY DEF WorksInv
  <2> QED  BY <2>1 DEF WorkInv
<1> QED  BY <1>1, WorksInvariant, PTL

-----------------------------------------------------------------------------
(* What a run is completed on. *)

\* Evidence of the node, of its own revision, since which no revision up to some
\* other one has touched what the node is computed from.
Untouched(id, node, upto) ==
  /\ evidence[id] # None
  /\ evidence[id].kind = node
  /\ evidence[id].hash = evidence[id].revision
  /\ \A r \in evidence[id].revision + 1 .. upto, leaf \in Store!Inputs(node) :
       ~ Store!Touches(changes[r], leaf)

LEMMA TouchImpacts ==
  ASSUME SP!DeepChanges, NEW paths \in ChangeSets, NEW leaf \in Leaves,
         Store!Touches(paths, leaf)
  PROVE  Store!Impact({leaf}) \subseteq Store!Impact(paths)
<1>1. SP!Touches(paths, leaf)
  BY DEF SP!Touches, Store!Touches, SP!Prefix, Store!Prefix
<1>2. SP!Impact({leaf}) \subseteq SP!Impact(paths)
  BY <1>1, SP!TouchInvalidates, StoreAssumptionHolds, EvidenceAssumptionHolds,
     QuestionAssumptionHolds
<1> QED  BY <1>2, SameImpact

\* A file a run is told to be current is untouched up to the revision it asked about.
LEMMA CurrentIsUntouched ==
  ASSUME SP!DeepChanges, HistoryInv, NEW k \in Runs, query[k] # None,
         query[k].verdict = "current", NEW id \in Tasks, evidence[id] = query[k].file
  PROVE  Untouched(id, query[k].file.kind, query[k].upto)
<1> DEFINE file == query[k].file
           upto == query[k].upto
<1>1. query[k] \in Store!Question
  BY DEF QueriesInv
<1>2. /\ file \in Store!Evidence /\ upto \in Nat /\ upto <= Len(changes)
      /\ file.revision \in Nat /\ file.revision >= 1 /\ Len(changes) \in Nat
      /\ MaxRevision \in Nat /\ Len(changes) <= MaxRevision
  BY <1>1, StoreAssumption DEF QueriesInv, Store!Question, Store!Evidence, Store!Revisions
<1>3. /\ file.hash = file.revision
      /\ \A r \in file.revision + 1 .. upto : records[r] # None /\ file.kind \notin records[r]
  BY DEF QueriesInv
<1>4. ASSUME NEW r \in file.revision + 1 .. upto, NEW leaf \in Store!Inputs(file.kind),
             Store!Touches(changes[r], leaf)
      PROVE  FALSE
  <2>1. r \in Store!Revisions /\ r \in 2 .. Len(changes)
    BY <1>2 DEF Store!Revisions
  <2>2. changes[r] \in ChangeSets /\ records[r] = Store!Impact(changes[r])
    BY <1>3, <2>1
  <2>3. leaf \in Leaves /\ file.kind \in Store!Impact({leaf})
    BY DEF Store!Inputs
  <2>4. file.kind \in records[r]
    BY <1>4, <2>2, <2>3, TouchImpacts
  <2> QED  BY <1>3, <2>4
<1>5. evidence[id] # None
  BY <1>2, StoreAssumption
<1> QED  BY <1>3, <1>4, <1>5 DEF Untouched

LEMMA UntouchedStays ==
  ASSUME BaseInv, HistoryInv, [Next]_vars, NEW id \in Tasks, NEW node,
         NEW upto \in Nat, upto <= Len(changes), Untouched(id, node, upto)
  PROVE  Untouched(id, node, upto)'
<1>1. evidence'[id] = evidence[id] /\ evidence[id] # None
  BY StoreGrows DEF Untouched
<1>2. evidence[id].revision \in Nat /\ Len(changes) \in Nat
  BY <1>1 DEF Store!Evidence, Store!Revisions
<1>3. \A r \in evidence[id].revision + 1 .. upto : changes'[r] = changes[r]
  BY <1>2, StoreGrows
<1> QED  BY <1>1, <1>3 DEF Untouched, Store!Inputs, Store!Touches, Store!Prefix,
       Store!Impact

\* What a gate says of the nodes it found fresh.
GateSound(since, upto) ==
  /\ since <= Len(changes)
  /\ \A node \in Store!Nodes : upto[node] # None =>
       /\ upto[node] \in since .. Len(changes)
       /\ \E id \in Tasks : Untouched(id, node, upto[node])

LEMMA GateKept ==
  ASSUME BaseInv, HistoryInv, [Next]_vars, NEW g \in Gates, GateSound(g.since, g.upto)
  PROVE  GateSound(g.since, g.upto)'
<1>1. Len(changes) \in Nat /\ Len(changes') \in Nat /\ Len(changes') >= Len(changes)
  BY StoreGrows
<1>2. g.since \in Nat
  BY DEF Gates, Store!Revisions
<1>3. ASSUME NEW node \in Store!Nodes, g.upto[node] # None
      PROVE  /\ g.upto[node] \in g.since .. Len(changes')
             /\ \E id \in Tasks : Untouched(id, node, g.upto[node])'
  <2>1. g.upto[node] \in g.since .. Len(changes)
    BY <1>3 DEF GateSound
  <2>2. PICK id \in Tasks : Untouched(id, node, g.upto[node])
    BY <1>3 DEF GateSound
  <2>3. PICK upto \in Nat : upto = g.upto[node] /\ upto <= Len(changes)
    BY <1>1, <1>2, <2>1
  <2>4. Untouched(id, node, upto)
    BY <2>2, <2>3
  <2>5. Untouched(id, node, upto)'
    BY <2>3, <2>4, UntouchedStays
  <2>6. Untouched(id, node, g.upto[node])'
    BY <2>3, <2>5
  <2> QED  BY <1>1, <1>2, <2>1, <2>6
<1>4. g.since <= Len(changes')
  BY <1>1, <1>2 DEF GateSound
<1>5. Store!Nodes' = Store!Nodes
  BY DEF Store!Nodes
<1> QED  BY <1>3, <1>4, <1>5 DEF GateSound

LEMMA GateFinds ==
  ASSUME NEW g \in Gates, GateSound(g.since, g.upto), NEW node \in Store!Nodes,
         NEW upto \in Store!Revisions, upto \in g.since .. Len(changes),
         NEW id \in Tasks, Untouched(id, node, upto)
  PROVE  GateSound(g.since, [g.upto EXCEPT ![node] = upto])
  BY DEF GateSound, Gates

\* A run that evaluates its completion remembers for every node it found fresh up to
\* which revision, which is none from before the evaluation; and what it asks about
\* is a file that is still there.
GateInv(k) ==
  /\ gate[k] # None <=> pc[k] \in {"gate", "judge"}
  /\ gate[k] # None => GateSound(gate[k].since, gate[k].upto)
  /\ query[k] # None => /\ pc[k] = "judge" /\ gate[k].since <= query[k].upto
                        /\ \E id \in Tasks : evidence[id] = query[k].file

\* The steps that begin, end, or are no part of an evaluation.
LEMMA OutsideGate ==
  ASSUME BaseInv, HistoryInv, NEW k \in Runs, GateInv(k), Acts(k), ~ Gating(k)
  PROVE  /\ query'[k] = None
         /\ \/ gate'[k] = None /\ pc'[k] \notin {"gate", "judge"}
            \/ BeginEvaluate(k)
<1>1. Leave(k) => gate'[k] = None /\ pc'[k] = "idle"
  BY DEF Leave, TypeOK
<1>2. CASE BeginEvaluate(k)
  BY <1>2 DEF BeginEvaluate, Idle, GateInv
<1>3. CASE Complete(k)
  BY <1>1, <1>3 DEF Complete, GateInv
<1>4. CASE Crash(k)
  <2>1. pending[k] # None => query[k] = None
    BY DEF StepInv, GateInv
  <2>2. query'[k] = None
    BY <1>4, <2>1 DEF Crash, Store!Abandon, Store!Dismiss, QueriesInv
  <2> QED  BY <1>1, <1>4, <2>2 DEF Crash
<1>5. CASE CreateRun(k) \/ CreatePlan(k) \/ FailRun(k) \/ BeginApply(k) \/ BeginExecute(k)
  BY <1>5 DEF CreateRun, CreatePlan, FailRun, BeginApply, BeginExecute, Idle, Goto, local,
     StepInv, GateInv, TypeOK
<1>6. CASE \/ \E paths \in ChangeSets : Apply(k, paths)
           \/ Invalidate(k)
  BY <1>6 DEF Apply, Invalidate, Goto, Store!Commit, Store!RecordInvalidation, GateInv, TypeOK
<1>7. CASE Save(k) \/ SaveFails(k) \/ InvalidateFails(k)
  BY <1>1, <1>7 DEF Save, SaveFails, InvalidateFails, Goto, Store!Abandon, GateInv, TypeOK
<1>8. CASE \/ Refuse(k) \/ MarkStale(k) \/ SweepNothing(k) \/ Select(k)
           \/ \E n \in 0 .. Len(TaskOrder) : MarkFails(k, n)
  BY <1>1, <1>8 DEF Refuse, MarkStale, SweepNothing, Select, MarkFails, Goto, GateInv, TypeOK
<1>9. CASE \E t \in Tasks : Start(k, t) \/ Succeed(k, t) \/ FailTask(k, t) \/ Sweep(k, t)
  BY <1>1, <1>9 DEF Start, Succeed, FailTask, Finish, Sweep, Goto, Deliver,
     Store!WriteEvidence, GateInv, TypeOK
<1> QED
  BY <1>2, <1>3, <1>4, <1>5, <1>6, <1>7, <1>8, <1>9 DEF Acts, Continue, Gating

LEMMA GateStep ==
  ASSUME SP!DeepChanges, BaseInv, HistoryInv, HistoryInv', [Next]_vars, NEW k \in Runs,
         GateInv(k)
  PROVE  GateInv(k)'
<1>1. Len(changes) \in Nat /\ Len(changes') \in Nat /\ Len(changes') >= Len(changes)
  BY StoreGrows
<1>2. /\ None \notin Gates /\ None \notin Store!Revisions /\ None \notin Store!Question
      /\ None \notin Store!Evidence /\ "current" # None
  BY StoreAssumption DEF Store!Verdicts
<1>3. /\ gate[k] \in Gates \cup {None} /\ query[k] \in Store!Question \cup {None}
      /\ query[k] # None => query[k].upto <= Len(changes) /\ query[k].upto \in Nat
  BY DEF TypeOK, QueriesInv, Store!Question, Store!Revisions
<1>4. ASSUME NEW id \in Tasks, evidence[id] = query[k].file, query[k] # None
      PROVE  evidence'[id] = evidence[id]
  <2>1. evidence[id] # None
    BY <1>2, <1>3, <1>4 DEF Store!Question
  <2> QED  BY <2>1, StoreGrows
<1>5. ASSUME gate'[k] = gate[k], pc'[k] \in {"gate", "judge"}, pc[k] \in {"gate", "judge"},
             query'[k] # None => /\ pc'[k] = "judge" /\ gate[k].since <= query'[k].upto
                                 /\ \E id \in Tasks : evidence'[id] = query'[k].file
      PROVE  GateInv(k)'
  <2>1. PICK g \in Gates : g = gate[k]
    BY <1>3, <1>5 DEF GateInv
  <2>2. GateSound(g.since, g.upto)
    BY <1>2, <2>1 DEF GateInv
  <2>3. GateSound(g.since, g.upto)'
    BY <2>2, GateKept
  <2>4. GateSound(gate[k].since, gate[k].upto)'
    BY <1>5, <2>1, <2>3
  <2> QED  BY <1>2, <1>5, <2>1, <2>4 DEF GateInv
<1>6. ASSUME gate'[k] = None, pc'[k] \notin {"gate", "judge"}, query'[k] = None
      PROVE  GateInv(k)'
  BY <1>6 DEF GateInv
<1>7. CASE Rests(k)
  <2>1. CASE gate[k] = None
    BY <1>6, <1>7, <2>1 DEF Rests, GateInv
  <2>2. CASE gate[k] # None
    BY <1>4, <1>5, <1>7, <2>2 DEF Rests, GateInv
  <2> QED  BY <2>1, <2>2
<1>8. CASE BeginEvaluate(k) /\ query'[k] = None
  <2>1. [since |-> Len(changes), upto |-> [node \in Store!Nodes |-> None]] \in Gates
    BY DEF Gates
  <2>2. PICK g \in Gates : /\ g.since = Len(changes)
                           /\ g.upto = [node \in Store!Nodes |-> None]
                           /\ gate' = [gate EXCEPT ![k] = g]
    BY <1>8, <2>1 DEF BeginEvaluate, Store!current
  <2>3. gate'[k] = g /\ pc'[k] = "gate" /\ UNCHANGED changes
    BY <1>8, <2>2 DEF BeginEvaluate, Goto, TypeOK
  <2>4. GateSound(g.since, g.upto)'
    BY <1>1, <2>2, <2>3 DEF GateSound, Store!Nodes
  <2>5. GateSound(gate[k].since, gate[k].upto)'
    BY <2>3, <2>4
  <2> QED  BY <1>2, <1>8, <2>3, <2>5 DEF GateInv
<1>9. CASE \E node \in Required[k] : ListEvidence(k, node)
  <2>1. pc[k] = "gate" /\ UNCHANGED query
    BY <1>9 DEF ListEvidence
  <2>2. query'[k] = None
    BY <2>1 DEF GateInv
  <2>3. \/ gate'[k] = None /\ pc'[k] = "idle"
        \/ gate'[k] = gate[k] /\ pc'[k] = "judge"
    BY <1>9 DEF ListEvidence, Leave, Goto, TypeOK
  <2> QED  BY <1>5, <1>6, <2>1, <2>2, <2>3
<1>10. ASSUME NEW id \in Tasks, AskFreshness(k, id) PROVE GateInv(k)'
  <2>1. /\ pc[k] = "judge" /\ pc'[k] = "judge" /\ gate'[k] = gate[k]
        /\ query'[k].upto = Len(changes) /\ query'[k].file = evidence[id]
        /\ UNCHANGED evidence
    BY <1>10 DEF AskFreshness, Store!Ask, Store!current, QueriesInv
  <2>2. gate[k].since <= Len(changes)
    BY <2>1 DEF GateInv, GateSound
  <2> QED  BY <1>5, <2>1, <2>2
<1>11. CASE ReadRecords(k)
  <2>1. /\ pc[k] = "judge" /\ UNCHANGED <<pc, gate, evidence>> /\ query[k] # None
    BY <1>11 DEF ReadRecords, local, Store!Examine, Store!Conclude, Store!Asking
  <2>2. query[k] \in Store!Question /\ query \in [Runs -> Store!Question \cup {None}]
    BY <1>3, <2>1 DEF QueriesInv
  <2>3. query'[k].upto = query[k].upto /\ query'[k].file = query[k].file
    <3>1. CASE Store!Examine(k)
      <4>1. \/ query' = [query EXCEPT ![k] = [query[k] EXCEPT !.verdict = "unknown"]]
            \/ \E n, b : query' = [query EXCEPT ![k] = [query[k] EXCEPT !.next = n, !.stale = b]]
        BY <3>1 DEF Store!Examine
      <4> QED  BY <2>2, <4>1 DEF Store!Question
    <3>2. CASE Store!Conclude(k)
      <4>1. \E v : query' = [query EXCEPT ![k] = [query[k] EXCEPT !.verdict = v]]
        BY <3>2 DEF Store!Conclude
      <4> QED  BY <2>2, <4>1 DEF Store!Question
    <3> QED  BY <1>11, <3>1, <3>2 DEF ReadRecords
  <2> QED  BY <1>5, <2>1, <2>3 DEF GateInv
<1>12. CASE Judge(k)
  <2>1. /\ pc[k] = "judge" /\ query'[k] = None /\ query[k] # None
    BY <1>12 DEF Judge, Store!Dismiss, QueriesInv
  <2>2. CASE ~ Fresh(query[k])
    <3>1. \/ gate'[k] = None /\ pc'[k] = "idle"
          \/ gate'[k] = gate[k] /\ pc'[k] = "judge"
      BY <1>12, <2>1, <2>2 DEF Judge, Leave, local, TypeOK
    <3> QED  BY <1>5, <1>6, <2>1, <3>1
  <2>3. CASE Fresh(query[k])
    <3>1. PICK g \in Gates : g = gate[k]
      BY <1>3, <2>1 DEF GateInv
    <3>2. PICK id \in Tasks : evidence[id] = query[k].file
      BY <2>1 DEF GateInv
    <3>3. PICK node \in Store!Nodes, upto \in Store!Revisions :
            node = query[k].file.kind /\ upto = query[k].upto
      BY <1>3, <2>1 DEF Store!Question, Store!Evidence
    <3>4. Untouched(id, node, upto)
      BY <2>1, <2>3, <3>2, <3>3, CurrentIsUntouched DEF Fresh
    <3>5. GateSound(g.since, g.upto) /\ g.since <= upto /\ g.since \in Nat
      BY <1>2, <2>1, <3>1, <3>3 DEF GateInv, Gates, Store!Revisions
    <3>6. upto \in g.since .. Len(changes)
      BY <1>1, <1>3, <2>1, <3>3, <3>5
    <3>7. GateSound(g.since, [g.upto EXCEPT ![node] = upto])
      BY <3>4, <3>5, <3>6, GateFinds
    <3>8. PICK h \in Gates : h = [g EXCEPT !.upto[node] = upto]
      BY <3>3 DEF Gates
    <3>9. h.since = g.since /\ h.upto = [g.upto EXCEPT ![node] = upto]
      BY <3>8 DEF Gates
    <3>10. GateSound(h.since, h.upto)
      BY <3>7, <3>9
    <3>11. GateSound(h.since, h.upto)'
      BY <3>10, GateKept
    <3>12. gate'[k] = h /\ pc'[k] = "gate"
      BY <1>12, <2>3, <3>1, <3>3, <3>8 DEF Judge, Goto, TypeOK
    <3>13. GateSound(gate[k].since, gate[k].upto)'
      BY <3>11, <3>12
    <3> QED  BY <1>2, <2>1, <3>8, <3>12, <3>13 DEF GateInv
  <2> QED  BY <2>2, <2>3
<1>13. CASE Acts(k) /\ ~ Gating(k)
  BY <1>6, <1>8, <1>13, OutsideGate
<1> QED
  BY <1>7, <1>9, <1>10, <1>11, <1>12, <1>13, ActsOrRests DEF Gating

GatesInv == \A k \in Runs : GateInv(k)

\* Only the completion of a run that has found every node fresh changes the run.
LEMMA CompletesOnly ==
  ASSUME BaseInv, HistoryInv, [Next]_vars, NEW k \in Runs, GateInv(k), gate[k] # None,
         run'[k] # run[k]
  PROVE  \A node \in Required[k] : gate[k].upto[node] # None
<1>1. pc[k] \in {"gate", "judge"}
  BY DEF GateInv
<1>2. Acts(k) /\ ~ Gating(k)
  <2>1. Acts(k)
    BY ActsOrRests DEF Rests
  <2>2. ~ Gating(k)
    BY GatingKeeps DEF durable
  <2> QED  BY <2>1, <2>2
<1>3. Complete(k)
  <2>1. ~ (CreateRun(k) \/ CreatePlan(k) \/ FailRun(k))
    BY <1>1 DEF CreateRun, CreatePlan, FailRun, Idle, StepInv
  <2>2. ~ (BeginApply(k) \/ BeginExecute(k) \/ BeginEvaluate(k) \/ Crash(k))
    BY DEF BeginApply, BeginExecute, BeginEvaluate, Crash, durable
  <2>3. /\ ~ (Refuse(k) \/ Save(k) \/ Invalidate(k) \/ MarkStale(k) \/ Select(k)
                \/ SweepNothing(k) \/ SaveFails(k) \/ InvalidateFails(k))
        /\ \A paths \in ChangeSets : ~ Apply(k, paths)
        /\ \A n \in 0 .. Len(TaskOrder) : ~ MarkFails(k, n)
        /\ \A u \in Tasks : ~ (Start(k, u) \/ Succeed(k, u) \/ FailTask(k, u) \/ Sweep(k, u))
    BY <1>1 DEF Refuse, Save, Invalidate, MarkStale, Select, SweepNothing, SaveFails,
       InvalidateFails, Apply, MarkFails, Start, Succeed, FailTask, Finish, Sweep, Goto
  <2> QED  BY <1>2, <2>1, <2>2, <2>3 DEF Acts, Continue, Gating
<1> QED  BY <1>3 DEF Complete

\* A run that is completed has, for every node it requires, evidence of its own
\* revision which no revision has touched up to one that was current when the node was
\* judged, none older than the evaluation; for any nodes, judged at whatever revisions,
\* and whatever other runs commit, record or leave out meanwhile, provided proposals
\* name paths as deep as the dependency rules (controller.py:245-260,
\* storage.py:88-129).
THEOREM CompletedOnUntouched ==
  ASSUME SP!DeepChanges
  PROVE  Spec => CompletedOnUntouchedEvidence
<1>1. Init => GatesInv
  BY DEF Init, Store!Init, GatesInv, GateInv
<1>2. BaseInv /\ HistoryInv /\ HistoryInv' /\ GatesInv /\ [Next]_vars => GatesInv'
  BY GateStep DEF GatesInv
<1>3. ASSUME BaseInv, HistoryInv, GatesInv, [Next]_vars, NEW k \in Runs, gate[k] # None,
             run'[k] # run[k], NEW node \in Required[k]
      PROVE  /\ gate[k].upto[node] \in gate[k].since .. Store!current
             /\ \E id \in Tasks :
                  /\ evidence[id] # None
                  /\ evidence[id].kind = node
                  /\ evidence[id].hash = evidence[id].revision
                  /\ \A r \in evidence[id].revision + 1 .. gate[k].upto[node],
                        leaf \in Store!Inputs(node) : ~ Store!Touches(changes[r], leaf)
  <2>1. GateInv(k) /\ node \in Store!Nodes
    BY <1>3, RunAssumption DEF GatesInv
  <2>2. gate[k].upto[node] # None
    BY <1>3, <2>1, CompletesOnly
  <2>3. /\ gate[k].upto[node] \in gate[k].since .. Len(changes)
        /\ \E id \in Tasks : Untouched(id, node, gate[k].upto[node])
    BY <1>3, <2>1, <2>2 DEF GateInv, GateSound
  <2> QED  BY <2>3 DEF Untouched, Store!current
<1>4. BaseInv /\ HistoryInv /\ GatesInv /\ [Next]_vars =>
        \A k \in Runs :
          gate[k] # None /\ run'[k] # run[k] =>
            \A node \in Required[k] :
              /\ gate[k].upto[node] \in gate[k].since .. Store!current
              /\ \E id \in Tasks :
                   /\ evidence[id] # None
                   /\ evidence[id].kind = node
                   /\ evidence[id].hash = evidence[id].revision
                   /\ \A r \in evidence[id].revision + 1 .. gate[k].upto[node],
                         leaf \in Store!Inputs(node) : ~ Store!Touches(changes[r], leaf)
  BY <1>3
<1> QED
  BY <1>1, <1>2, <1>4, BaseInvariant, HistoryInvariant, PTL DEF Spec, CompletedOnUntouchedEvidence
=============================================================================

----------------------------- MODULE RunControl -----------------------------
(***************************************************************************)
(* RunController (runs/controller.py) with its TaskScheduler and           *)
(* ConvergenceTracker: runs of one project, each driven by a               *)
(* single-threaded controller, over the EvidenceStore they share.  A       *)
(* controller performs one method at a time.  apply_approved_proposal,     *)
(* execute_ready_tasks and evaluate_completion take a step for every file  *)
(* that others can tell apart, so that controllers of different runs       *)
(* interleave and one that dies leaves what it had written; the methods    *)
(* that only touch files of their own run are one step.  One controller    *)
(* drives a run, so the Run a method read when it began is still run[k].   *)
(* The evidence of a task has an id of its own, so no two controllers      *)
(* write the same file.                                                    *)
(*                                                                         *)
(*   state.json                 run[k], replaced by every transition       *)
(*   plan.json                  plan[k], the tasks that must succeed       *)
(*   tasks/<t>/state.json       task[t]; the definitions are constants     *)
(*                                                                         *)
(* A state hash covers the revision number, so hashes are revisions here,  *)
(* and NO_STATE_PROGRESS and STATE_CYCLE cannot be raised: of the three    *)
(* convergence checks only the iteration limit has an effect.              *)
(***************************************************************************)
EXTENDS Naturals, Sequences, FiniteSets, Functions

CONSTANTS
  Rules, Edges, Wildcard,                   \* of DependencyGraph
  Leaves, ChangeSets, None,                 \* of EvidenceStore
  MaxRevision, MaxFaults,
  Runs,
  Others,         \* other runs of the project, seen only through the store
  Tasks,
  RunOf,          \* task -> its run
  DependsOn,      \* task -> the tasks that must succeed first
  Needs,          \* task -> required_nodes, or else produces_nodes
  Produces,       \* task -> the kind of evidence its result carries
  TaskOrder,      \* the tasks sorted by id, the order every loop visits them
  Required,       \* run -> the nodes that completion needs evidence for
  MaxIterations,  \* run limit of the code
  MaxLapses       \* bound: failed writes and process deaths

VARIABLES
  changes, records, evidence, pending, query, faults,   \* of EvidenceStore
  run, plan, task,       \* durable
  pc,
  batch,      \* the tasks a loop of execute_ready_tasks has yet to visit
  gate,       \* what evaluate_completion has found, or None
  author,     \* history: revision -> the run that committed it
  lapses

storeVars == <<changes, records, evidence, pending, query, faults>>
durable == <<run, plan, task>>
local == <<pc, batch, gate>>
vars == <<storeVars, durable, local, author, lapses>>

Store == INSTANCE EvidenceStore WITH
  Writers <- Runs \cup Others, Queries <- Runs, EvidenceIds <- Tasks,
  Producers <- {}, writing <- [p \in {} |-> None]

ASSUME RunAssumption ==
  /\ Runs \cap Others = {} /\ None \notin Runs \cup Others
  /\ RunOf \in [Tasks -> Runs]
  /\ DependsOn \in [Tasks -> SUBSET Tasks]
  /\ Needs \in [Tasks -> SUBSET Store!Nodes]
  /\ Produces \in [Tasks -> Store!Nodes]
  /\ Required \in [Runs -> SUBSET Store!Nodes]
  /\ \A ts \in (SUBSET Tasks) \ {{}} : \E t \in ts : DependsOn[t] \cap ts = {}
  /\ TaskOrder \in Seq(Tasks) /\ Range(TaskOrder) = Tasks
  /\ MaxIterations \in Nat /\ MaxIterations >= 1
  /\ MaxLapses \in Nat

RunStatuses == {"created", "planned", "blocked", "failed", "completed"}
TaskStatuses == {"pending", "running", "succeeded", "failed", "blocked", "stale"}
Steps == {"idle", "apply", "save", "invalidate", "mark", "select", "start", "work",
          "sweep", "gate", "judge"}

RunStates ==
  [active : Store!Revisions, status : RunStatuses, iteration : Nat,
   seen : SUBSET Store!Revisions]
TaskStates == [bound : Store!Revisions, status : TaskStatuses]

\* The revision current when the evaluation began, and for every node found fresh
\* the one that was current when its evidence was judged.
Gates == [since : Store!Revisions, upto : [Store!Nodes -> Store!Revisions \cup {None}]]

TasksOf(k) == {t \in Tasks : RunOf[t] = k}
Defined(k) == {t \in TasksOf(k) : task[t] # None}

\* What EvidenceStore assumes of the constants it shares, and that no run, no task
\* state and no gate is None.
ASSUME StoreAssumption ==
  /\ MaxRevision \in Nat /\ MaxRevision >= 1
  /\ MaxFaults \in Nat
  /\ \A nodes \in SUBSET Store!Nodes : nodes # None
  /\ \A path \in Leaves \cup UNION ChangeSets : Len(path) \in Nat
  /\ \A rule \in Rules : \A pattern \in rule.when : Len(pattern) \in Nat
  /\ None \notin Store!Revisions \cup Store!Evidence \cup Store!Writes
  /\ None \notin Store!Question \cup Store!Verdicts
  /\ None \notin RunStates \cup TaskStates \cup Gates

Init ==
  /\ Store!Init
  /\ run = [k \in Runs |-> None]
  /\ plan = [k \in Runs |-> None]
  /\ task = [t \in Tasks |-> None]
  /\ pc = [k \in Runs |-> "idle"]
  /\ batch = [k \in Runs |-> {}]
  /\ gate = [k \in Runs |-> None]
  /\ author = << None >>
  /\ lapses = 0

Idle(k) == run[k] # None /\ pc[k] = "idle"
Goto(k, from, to) == pc[k] = from /\ pc' = [pc EXCEPT ![k] = to]

\* The method returns or raises, and forgets what it had read.
Leave(k) ==
  /\ pc' = [pc EXCEPT ![k] = "idle"]
  /\ batch' = [batch EXCEPT ![k] = {}]
  /\ gate' = [gate EXCEPT ![k] = None]

Lapse == lapses < MaxLapses /\ lapses' = lapses + 1

\* The first of some tasks, by id.
First(t, ts) ==
  \E i \in DOMAIN TaskOrder :
    TaskOrder[i] = t /\ t \in ts /\ \A j \in 1 .. i - 1 : TaskOrder[j] \notin ts

SetStatus(ts, status) ==
  [t \in Tasks |-> IF t \in ts THEN [task[t] EXCEPT !.status = status] ELSE task[t]]

-----------------------------------------------------------------------------
(* Faulty variants, for the properties to reject. *)

AdvancedOnlyWithinLimit(state, revision) ==
  IF state.iteration + 1 > MaxIterations
  THEN [state EXCEPT !.active = revision, !.status = "blocked"]
  ELSE [state EXCEPT !.active = revision, !.iteration = @ + 1, !.seen = @ \cup {revision}]

ReadyUnlessFailed(k) ==
  {t \in Defined(k) : task[t].status = "pending"
     /\ \A d \in DependsOn[t] :
          task[d] # None /\ task[d].status \notin {"failed", "blocked", "stale"}}

AffectedDirectly(k, nodes) ==
  {t \in Defined(k) : task[t].status = "pending"
     /\ Needs[t] \cap nodes \cap Store!Direct(changes[run[k].active]) # {}}

FreshUnlessKnownStale(asked) == asked.verdict # "stale"

InvalidateLatest(k) ==
  /\ Goto(k, "invalidate", "mark")
  /\ Store!RecordInvalidationOfCurrent(k)
  /\ UNCHANGED <<durable, batch, gate, author, lapses>>

-----------------------------------------------------------------------------
(* Operators the actions share *)

\* ConvergenceTracker.record_revision and the update that follows it.
Advanced(state, revision) ==
  [state EXCEPT !.active = revision, !.iteration = @ + 1, !.seen = @ \cup {revision},
                !.status = IF state.iteration + 1 > MaxIterations THEN "blocked" ELSE @]

\* TaskScheduler.ready_tasks: pending, and every prerequisite has succeeded.
Ready(k) ==
  {t \in Defined(k) : task[t].status = "pending"
     /\ \A d \in DependsOn[t] : task[d] # None /\ task[d].status = "succeeded"}

\* The tasks an invalidation of these nodes makes stale.
Affected(k, nodes) ==
  {t \in Defined(k) : task[t].status = "pending" /\ Needs[t] \cap nodes # {}}

\* fresh_evidence_status counts the evidence that is current, and no other.
Fresh(asked) == asked.verdict = "current"

-----------------------------------------------------------------------------
(* create_run, add_task, create_plan, fail_run *)

CreateRun(k) ==
  /\ run[k] = None
  /\ run' = [run EXCEPT ![k] = [active |-> Store!current, status |-> "created",
                                iteration |-> 0, seen |-> {Store!current}]]
  /\ UNCHANGED <<storeVars, plan, task, local, author, lapses>>

AddTask(t) ==
  /\ Idle(RunOf[t])
  /\ task[t] = None
  /\ task' = [task EXCEPT ![t] = [bound |-> run[RunOf[t]].active, status |-> "pending"]]
  /\ UNCHANGED <<storeVars, run, plan, local, author, lapses>>

\* Unknown prerequisites raise; the status of the run is not looked at.
CreatePlan(k) ==
  /\ Idle(k)
  /\ \A t \in Defined(k) : DependsOn[t] \subseteq Defined(k)
  /\ plan' = [plan EXCEPT ![k] = Defined(k)]
  /\ run' = [run EXCEPT ![k].status = "planned"]
  /\ UNCHANGED <<storeVars, task, local, author, lapses>>

FailRun(k) ==
  /\ Idle(k)
  /\ run[k].status # "completed"
  /\ run' = [run EXCEPT ![k].status = "failed"]
  /\ UNCHANGED <<storeVars, plan, task, local, author, lapses>>

-----------------------------------------------------------------------------
(* apply_approved_proposal *)

BeginApply(k) ==
  /\ Idle(k)
  /\ Goto(k, "idle", "apply")
  /\ UNCHANGED <<storeVars, durable, batch, gate, author, lapses>>

\* The engine accepts the proposal.
Apply(k, paths) ==
  /\ Goto(k, "apply", "save")
  /\ Store!Commit(k, paths)
  /\ author' = Append(author, k)
  /\ UNCHANGED <<durable, batch, gate, lapses>>

\* The proposal is stale, foreign, or does not apply: nothing has changed.
Refuse(k) ==
  /\ pc[k] = "apply"
  /\ Leave(k)
  /\ UNCHANGED <<storeVars, durable, author, lapses>>

\* At the iteration limit the run is saved as blocked and the call raises before
\* any invalidation is recorded.
Save(k) ==
  /\ pc[k] = "save"
  /\ LET updated == Advanced(run[k], pending[k])
     IN /\ run' = [run EXCEPT ![k] = updated]
        /\ IF updated.iteration > MaxIterations
           THEN Leave(k) /\ Store!Abandon(k)
           ELSE /\ Goto(k, "save", "invalidate")
                /\ UNCHANGED <<storeVars, batch, gate>>
  /\ UNCHANGED <<plan, task, author, lapses>>

Invalidate(k) ==
  /\ Goto(k, "invalidate", "mark")
  /\ Store!RecordInvalidation(k)
  /\ UNCHANGED <<durable, batch, gate, author, lapses>>

MarkStale(k) ==
  /\ pc[k] = "mark"
  /\ task' = SetStatus(Affected(k, records[run[k].active]), "stale")
  /\ Leave(k)
  /\ UNCHANGED <<storeVars, run, plan, author, lapses>>

\* A write raises: of the run or its event, and the call is over; of the record
\* or of a task state, and the run is blocked.
SaveFails(k) ==
  /\ pc[k] = "save" /\ Lapse
  /\ Store!Abandon(k)
  /\ run' \in {run, [run EXCEPT ![k] = Advanced(run[k], pending[k])]}
  /\ Leave(k)
  /\ UNCHANGED <<plan, task, author>>

InvalidateFails(k) ==
  /\ pc[k] = "invalidate" /\ Lapse
  /\ Store!Abandon(k)
  /\ run' = [run EXCEPT ![k].status = "blocked"]
  /\ Leave(k)
  /\ UNCHANGED <<plan, task, author>>

\* The tasks before some place in the order are marked; blocking the run may
\* fail as well.
MarkFails(k, n) ==
  /\ pc[k] = "mark" /\ Lapse
  /\ LET reached == Range(SubSeq(TaskOrder, 1, n))
     IN task' = SetStatus(reached \cap Affected(k, records[run[k].active]), "stale")
  /\ run' \in {run, [run EXCEPT ![k].status = "blocked"]}
  /\ Leave(k)
  /\ UNCHANGED <<storeVars, plan, author>>

-----------------------------------------------------------------------------
(* execute_ready_tasks *)

\* The status of the run is not looked at here either.
BeginExecute(k) ==
  /\ Idle(k)
  /\ Goto(k, "idle", "select")
  /\ UNCHANGED <<storeVars, durable, batch, gate, author, lapses>>

\* ordered() raises on an unknown prerequisite.  With nothing ready, the second
\* loop visits all tasks.
Select(k) ==
  /\ pc[k] = "select"
  /\ IF \E t \in Defined(k) : ~ (DependsOn[t] \subseteq Defined(k))
     THEN Leave(k)
     ELSE /\ Goto(k, "select", IF Ready(k) = {} THEN "sweep" ELSE "start")
          /\ batch' = [batch EXCEPT ![k] = IF Ready(k) = {} THEN Defined(k) ELSE Ready(k)]
          /\ UNCHANGED gate
  /\ UNCHANGED <<storeVars, durable, author, lapses>>

Start(k, t) ==
  /\ Goto(k, "start", "work")
  /\ First(t, batch[k])
  /\ task' = SetStatus({t}, "running")
  /\ UNCHANGED <<storeVars, run, plan, batch, gate, author, lapses>>

\* accept_result writes the evidence of the result, if it has any: the binding
\* of the result is checked against the task, that of its evidence is not.  (A
\* hash that is not the one of its revision never passes for fresh: EvidenceStore.)
Deliver(t) ==
  \/ \E file \in Store!Evidence :
       /\ file.kind = Produces[t]
       /\ file.hash = file.revision
       /\ Store!WriteEvidence(t, file)
  \/ UNCHANGED storeVars

\* The task that was started is done; the loop goes on.
Finish(k, t, status) ==
  /\ pc[k] = "work"
  /\ First(t, batch[k])
  /\ Deliver(t)
  /\ task' = SetStatus({t}, status)
  /\ batch' = [batch EXCEPT ![k] = @ \ {t}]
  /\ pc' = [pc EXCEPT ![k] = IF batch[k] = {t} THEN "select" ELSE "start"]
  /\ UNCHANGED <<run, plan, gate, author, lapses>>

Succeed(k, t) == Finish(k, t, "succeeded")

\* Faulty variant: a failed task is left to be retried.
FailTaskRetrying(k, t) == Finish(k, t, "pending")

\* The executor reports a failure or raises, its result is not accepted, or a
\* write of accept_result raises, before or after that of the evidence.
FailTask(k, t) == Finish(k, t, "failed")

\* One pass over the tasks in id order: a pending task is blocked if, at that
\* moment, some prerequisite has failed or is blocked.
Sweep(k, t) ==
  /\ pc[k] = "sweep"
  /\ First(t, batch[k])
  /\ task' = IF /\ task[t].status = "pending"
                /\ \E d \in DependsOn[t] : task[d].status \in {"failed", "blocked"}
             THEN SetStatus({t}, "blocked")
             ELSE task
  /\ IF batch[k] = {t}
     THEN Leave(k)
     ELSE batch' = [batch EXCEPT ![k] = @ \ {t}] /\ UNCHANGED <<pc, gate>>
  /\ UNCHANGED <<storeVars, run, plan, author, lapses>>

\* There are no tasks.
SweepNothing(k) ==
  /\ pc[k] = "sweep" /\ batch[k] = {}
  /\ Leave(k)
  /\ UNCHANGED <<storeVars, durable, author, lapses>>

-----------------------------------------------------------------------------
(* evaluate_completion *)

\* The status, the plan and the tasks let the run pass.
BeginEvaluate(k) ==
  /\ Idle(k)
  /\ run[k].status \notin {"blocked", "failed"}
  /\ plan[k] # None
  /\ \A t \in plan[k] : task[t].status = "succeeded"
  /\ Goto(k, "idle", "gate")
  /\ gate' = [gate EXCEPT ![k] =
       [since |-> Store!current, upto |-> [node \in Store!Nodes |-> None]]]
  /\ UNCHANGED <<storeVars, durable, batch, author, lapses>>

\* fresh_evidence_status of one node after another, nothing being locked meanwhile:
\* list its evidence, without which the run does not pass, ...
ListEvidence(k, node) ==
  /\ pc[k] = "gate"
  /\ node \in Required[k] /\ gate[k].upto[node] = None
  /\ LET files == {id \in Tasks : evidence[id] # None /\ evidence[id].kind = node}
     IN IF files = {}
        THEN Leave(k)
        ELSE /\ Goto(k, "gate", "judge")
             /\ batch' = [batch EXCEPT ![k] = files]
             /\ UNCHANGED gate
  /\ UNCHANGED <<storeVars, durable, author, lapses>>

\* ... and ask of each file whether it is fresh, against the revision current by
\* then and the records that are there by then.
AskFreshness(k, id) ==
  /\ pc[k] = "judge" /\ id \in batch[k]
  /\ Store!Ask(k, id)
  /\ batch' = [batch EXCEPT ![k] = @ \ {id}]
  /\ UNCHANGED <<durable, pc, gate, author, lapses>>

ReadRecords(k) ==
  /\ pc[k] = "judge"
  /\ Store!Examine(k) \/ Store!Conclude(k)
  /\ UNCHANGED <<durable, local, author, lapses>>

\* One file that is fresh is enough: what the others are told changes nothing.
Judge(k) ==
  /\ pc[k] = "judge" /\ query[k] # None /\ query[k].verdict # None
  /\ Store!Dismiss(k)
  /\ IF Fresh(query[k])
     THEN /\ Goto(k, "judge", "gate")
          /\ batch' = [batch EXCEPT ![k] = {}]
          /\ gate' = [gate EXCEPT ![k].upto[query[k].file.kind] = query[k].upto]
     ELSE IF batch[k] = {} THEN Leave(k) ELSE UNCHANGED local
  /\ UNCHANGED <<durable, author, lapses>>

Complete(k) ==
  /\ pc[k] = "gate"
  /\ \A node \in Required[k] : gate[k].upto[node] # None
  /\ run' = [run EXCEPT ![k].status = "completed"]
  /\ Leave(k)
  /\ UNCHANGED <<storeVars, plan, task, author, lapses>>

-----------------------------------------------------------------------------
\* The process dies; resume_run later verifies the files and repairs nothing.
Crash(k) ==
  /\ pc[k] # "idle" /\ Lapse
  /\ IF pending[k] # None THEN Store!Abandon(k)
     ELSE IF query[k] # None THEN Store!Dismiss(k)
     ELSE UNCHANGED storeVars
  /\ Leave(k)
  /\ UNCHANGED <<durable, author>>

\* A run keeps its files to itself: of another one, its commits and records.
OtherRun(w) ==
  /\ \/ \E paths \in ChangeSets : Store!Commit(w, paths) /\ author' = Append(author, w)
     \/ (Store!RecordInvalidation(w) \/ Store!Abandon(w)) /\ UNCHANGED author
  /\ UNCHANGED <<durable, local, lapses>>

Continue(k) ==
  \/ Refuse(k) \/ Save(k) \/ Invalidate(k) \/ MarkStale(k)
  \/ Select(k) \/ SweepNothing(k)
  \/ \E t \in Tasks : Start(k, t) \/ Succeed(k, t) \/ FailTask(k, t) \/ Sweep(k, t)
  \/ \E node \in Required[k] : ListEvidence(k, node)
  \/ \E id \in Tasks : AskFreshness(k, id)
  \/ ReadRecords(k) \/ Judge(k) \/ Complete(k)

Next ==
  \/ \E k \in Runs :
       \/ CreateRun(k) \/ CreatePlan(k) \/ FailRun(k)
       \/ BeginApply(k)
       \/ \E paths \in ChangeSets : Apply(k, paths)
       \/ BeginExecute(k) \/ BeginEvaluate(k)
       \/ Continue(k)
       \/ SaveFails(k) \/ InvalidateFails(k) \/ Crash(k)
       \/ \E n \in 0 .. Len(TaskOrder) : MarkFails(k, n)
  \/ \E t \in Tasks : AddTask(t)
  \/ \E w \in Others : OtherRun(w)

Spec == Init /\ [][Next]_vars

\* A method that has begun runs on; the executor it calls returns.
FairSpec == Spec /\ \A k \in Runs : WF_vars(Continue(k))

-----------------------------------------------------------------------------
(* Properties *)

TypeOK ==
  /\ run \in [Runs -> RunStates \cup {None}]
  /\ plan \in [Runs -> (SUBSET Tasks) \cup {None}]
  /\ task \in [Tasks -> TaskStates \cup {None}]
  /\ pc \in [Runs -> Steps]
  /\ batch \in [Runs -> SUBSET Tasks]
  /\ gate \in [Runs -> Gates \cup {None}]
  /\ author \in Seq(Runs \cup Others \cup {None}) /\ Len(author) = Store!current
  /\ lapses \in 0 .. MaxLapses

Own(k) == {r \in 1 .. Store!current : author[r] = k}

\* A run accounts for canonical history: its iteration and its hash history
\* count the revisions it committed itself, each once, whatever other runs
\* commit in between; one it committed is missing only while it is being saved,
\* or after a failure.  The limit on iterations rests on it
\* (controller.py:194-213, convergence.py:7-21).
IterationCountsRevisions ==
  \A k \in Runs : run[k] # None =>
    LET advanced == run[k].seen \cap Own(k)
    IN /\ run[k].iteration = Cardinality(advanced)
       /\ Cardinality(run[k].seen) = run[k].iteration + 1
       /\ lapses = 0 => Own(k) \ advanced \subseteq {pending[k]}

\* A task is not started on inputs its run knows to have changed: when it runs,
\* no revision the run recorded after the task was bound invalidates a node the
\* task needs, whichever order tasks were added, run and invalidated in
\* (controller.py:213-217, 133-149).  After a failed write it may be.
NoTaskOnChangedInputs ==
  \A t \in Tasks :
    lapses = 0 /\ task[t] # None /\ task[t].status = "running" =>
      \A r \in Own(RunOf[t]) :
        r > task[t].bound /\ records[r] # None => Needs[t] \cap records[r] = {}

\* A task runs, or has succeeded, only on top of prerequisites that all have,
\* also when they were added later, failed in the same batch or went stale
\* between two calls (scheduler.py:30-43, controller.py:139-158).
DependenciesFirst ==
  \A t \in Tasks :
    task[t] # None /\ task[t].status \in {"running", "succeeded"} =>
      \A d \in DependsOn[t] : task[d] # None /\ task[d].status = "succeeded"

\* A run is completed on sound evidence: for every node it requires there is evidence
\* of its own revision since which no run changed a value the node is computed from,
\* up to a revision that was current when that node was judged, and not before the
\* evaluation began; although nodes are judged at different revisions, commits fall
\* between them, and records are missing or late (controller.py:245-260,
\* storage.py:88-129).
CompletedOnUntouchedEvidence ==
  [][\A k \in Runs :
       gate[k] # None /\ run'[k] # run[k] =>
         \A node \in Required[k] :
           /\ gate[k].upto[node] \in gate[k].since .. Store!current
           /\ \E id \in Tasks :
                /\ evidence[id] # None
                /\ evidence[id].kind = node
                /\ evidence[id].hash = evidence[id].revision
                /\ \A r \in evidence[id].revision + 1 .. gate[k].upto[node],
                      leaf \in Store!Inputs(node) : ~ Store!Touches(changes[r], leaf)]_vars

\* What runs do to the evidence store is what its own module says they may: one
\* record per revision, of the revision the run committed, and none rewritten.
ImplementsEvidenceStore == Store!Spec

\* execute_ready_tasks returns: every task it starts ends, none is picked twice.
ExecutionSettles == \A k \in Runs : (pc[k] = "select") ~> (pc[k] = "idle")

\* "permanently failed prerequisites block downstream tasks": when a call of
\* execute_ready_tasks is over, no task below a failed one is left pending.
DownstreamOfFailureBlocked ==
  [][\A k \in Runs :
       pc[k] = "sweep" /\ pc'[k] = "idle" /\ lapses' = lapses =>
         \A t \in Defined(k) :
           (\E d \in DependsOn[t] : task'[d].status \in {"failed", "blocked"})
             => task'[t].status # "pending"]_vars
=============================================================================

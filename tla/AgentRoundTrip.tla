---------------------------- MODULE AgentRoundTrip ----------------------------
(***************************************************************************)
(* Agents and tools within a run: AgentGateway, ContextBuilder,            *)
(* AgentToolMediator, ToolBroker, ToolEvidenceMaterializer and             *)
(* ConstraintRequestMaterializer under the coordinator of a round trip     *)
(* (agents/, tools/).  An agent is asked (invocation A) and asks for a     *)
(* tool; the tool's result becomes evidence, with which the agent is asked *)
(* again (invocation B), for a text or for the constraints it misses.      *)
(*                                                                         *)
(* A round trip belongs to a task of a run, bound to the revision the run  *)
(* started from.  While agents and tools work, other runs commit, and the  *)
(* run itself may move on.  Nothing is locked: every step reads the run    *)
(* again.  The files of a round trip are in a directory of its own;        *)
(* requests are shared by the round trips of a run.                        *)
(*                                                                         *)
(* Left out: the capability policy, which has the one tool that the task   *)
(* allows, and task states, which are stale only for declared nodes, of    *)
(* which these tasks have none.  Freshness is asked in one step: that it   *)
(* is read file by file changes nothing (CurrentMeansUntouched).           *)
(***************************************************************************)
EXTENDS Naturals, Sequences, FiniteSets

CONSTANTS
  Rules, Edges, Wildcard, Leaves, ChangeSets, None,   \* of EvidenceStore
  MaxRevision, MaxFaults,
  Runs,
  Others,      \* other runs of the project, seen only through the store
  Workflows,   \* round trips, each of a task of its own
  RunOf,       \* workflow -> its run
  Keys,        \* the constraints an agent may miss
  Missed,      \* workflow -> what its agent may ask for: sets of them
  Torque,      \* the node of the tool's evidence
  Given,       \* what the first revision holds of that which is admitted
  MaxLapses    \* bound: failed writes, deaths, and agents and tools that fail or answer out
               \* of turn

VARIABLES
  changes, records, evidence, pending, query, faults,   \* of EvidenceStore
  run,        \* run -> [initial, active, seen], or None
  content,    \* revision -> what was admitted up to it
  flow,       \* workflow -> its coordinator and its files
  requests,   \* run -> key -> the workflow that made the request, or None
  askedAt,    \* history: workflow -> the revision current at invocation B
  lapses

storeVars == <<changes, records, evidence, pending, query, faults>>
runVars == <<run, content>>
tripVars == <<flow, requests, askedAt>>

Store == INSTANCE EvidenceStore WITH
  Writers <- Runs \cup Others, Queries <- {}, EvidenceIds <- Workflows,
  Producers <- {}, writing <- [p \in {} |-> None]

\* What run may report, and the files and the places of a round trip.
Reports ==
  {"no_tool_request", "invocation_a_failed", "mediated_tool_failed", "stale_before_evidence",
   "evidence_not_current", "invocation_b_failed", "second_tool_request", "complete"}

Files ==
  {"started", "invocation_a", "invocation_a_failed", "tool_result", "evidence",
   "invocation_b", "invocation_b_failed", "second_tool_request", "complete"}

Places ==
  {"idle", "ask_a", "agent_a", "fail_a", "mediate", "call", "tool", "conclude", "collect",
   "evidence", "confirm", "ask_b", "agent_b", "fail_b", "again", "record_b", "requests",
   "done", "died"}

Flows == [at : Places, files : SUBSET Files,
          mediation : {"pending", "failed", "succeeded", None},
          tool : {"called", "failed", "succeeded", None},
          keys : SUBSET Keys, returned : Reports \cup {None}]

RunStates ==
  [initial : Store!Revisions, active : Store!Revisions, seen : SUBSET Store!Revisions]

\* What EvidenceStore assumes of the constants it shares.
ASSUME StoreAssumption ==
  /\ MaxRevision \in Nat /\ MaxRevision >= 1
  /\ MaxFaults \in Nat
  /\ \A nodes \in SUBSET Store!Nodes : nodes # None
  /\ \A path \in Leaves \cup UNION ChangeSets : Len(path) \in Nat
  /\ \A rule \in Rules : \A pattern \in rule.when : Len(pattern) \in Nat
  /\ None \notin Store!Revisions \cup Store!Evidence \cup Store!Writes
  /\ None \notin Store!Question \cup Store!Verdicts

ASSUME RoundTripAssumption ==
  /\ Runs \cap Others = {}
  /\ RunOf \in [Workflows -> Runs]
  /\ Missed \in [Workflows -> SUBSET SUBSET Keys]
  /\ Torque \in Store!Nodes
  /\ MaxLapses \in Nat
  /\ None \notin Reports \cup RunStates \cup Workflows

TripInit ==
  /\ Store!Init
  /\ run = [k \in Runs |-> None]
  /\ content = << Given >>
  /\ flow = [w \in Workflows |->
       [at |-> "idle", files |-> {}, mediation |-> None, tool |-> None, keys |-> {},
        returned |-> None]]
  /\ requests = [k \in Runs |-> [key \in Keys |-> None]]
  /\ askedAt = [w \in Workflows |-> None]
  /\ lapses = 0

Lapse == lapses < MaxLapses /\ lapses' = lapses + 1

\* A task is created with its run, and bound to the revision the run starts from.
Bound(w) == run[RunOf[w]].initial
BindingCurrent(w) == run[RunOf[w]].active = Bound(w)
Fresh(w) == Store!Freshness(evidence[w]) = "current"

\* The constraints that have a value in a revision: an admitted answer is
\* <<"parameter", key, answer>>.
Satisfied(revision) == {item[2] : item \in {i \in content[revision] : i[1] = "parameter"}}

At(w, step) == flow[w].at = step
Step(w, f) == flow' = [flow EXCEPT ![w] = f]
Goto(w, step) == Step(w, [flow[w] EXCEPT !.at = step])

\* run returns, after it has written these files; a call that raises has "died".
Return(w, written, result) ==
  Step(w, [flow[w] EXCEPT !.at = "done", !.files = @ \cup written, !.returned = result])

-----------------------------------------------------------------------------
(* Faulty variants, for the properties to reject. *)

\* A round trip that died is run again.
StartAgain(w) ==
  /\ run[RunOf[w]] # None
  /\ flow[w].at \in {"idle", "died", "done"}
  /\ Step(w, [flow[w] EXCEPT !.at = "ask_a", !.files = @ \cup {"started"}])
  /\ UNCHANGED <<storeVars, runVars, requests, askedAt, lapses>>

\* The agent is given evidence that was current a step before.
AskSecondUnchecked(w) ==
  /\ At(w, "ask_b")
  /\ Goto(w, "agent_b")
  /\ askedAt' = [askedAt EXCEPT ![w] = Store!current]
  /\ UNCHANGED <<storeVars, runVars, requests, lapses>>

-----------------------------------------------------------------------------
(* Invocation A and the tool *)

\* 00_started is written once: a second coordinator raises.
Start(w) ==
  /\ run[RunOf[w]] # None
  /\ flow[w].at \in {"idle", "died", "done"} /\ "started" \notin flow[w].files
  /\ Step(w, [flow[w] EXCEPT !.at = "ask_a", !.files = {"started"}])
  /\ UNCHANGED <<storeVars, runVars, requests, askedAt, lapses>>

AskFirst(w) ==
  /\ At(w, "ask_a")
  /\ Goto(w, IF BindingCurrent(w) THEN "agent_a" ELSE "died")
  /\ UNCHANGED <<storeVars, runVars, requests, askedAt, lapses>>

\* The agent answers with n tool requests.  An answer that comes too late is STALE.
\* More than one request is refused by the mediator, which raises.
AnswerFirst(w, n) ==
  /\ At(w, "agent_a")
  /\ IF ~ BindingCurrent(w) THEN Goto(w, "fail_a")
     ELSE \/ n = 0 /\ Return(w, {}, "no_tool_request")
          \/ n = 1 /\ Goto(w, "mediate")
          \/ n > 1 /\ Goto(w, "died")
  /\ IF n = 1 THEN UNCHANGED lapses ELSE Lapse
  /\ UNCHANGED <<storeVars, runVars, requests, askedAt>>

\* The adapter raises, its answer is malformed or cannot be recorded: FAILED.
AgentFails(w) ==
  /\ \/ At(w, "agent_a") /\ Goto(w, "fail_a")
     \/ At(w, "agent_b") /\ Goto(w, "fail_b")
  /\ Lapse
  /\ UNCHANGED <<storeVars, runVars, requests, askedAt>>

FailFirst(w) ==
  /\ At(w, "fail_a")
  /\ Return(w, {"invocation_a_failed"}, "invocation_a_failed")
  /\ UNCHANGED <<storeVars, runVars, requests, askedAt, lapses>>

\* A request that is stale fails, and the mediator raises.
Mediate(w) ==
  /\ At(w, "mediate")
  /\ Step(w, IF BindingCurrent(w)
             THEN [flow[w] EXCEPT !.mediation = "pending", !.at = "call"]
             ELSE [flow[w] EXCEPT !.mediation = "failed", !.at = "died"])
  /\ UNCHANGED <<storeVars, runVars, requests, askedAt, lapses>>

\* A refused call fails the mediation, which does not raise.
CallTool(w) ==
  /\ At(w, "call")
  /\ Step(w, IF BindingCurrent(w) THEN [flow[w] EXCEPT !.tool = "called", !.at = "tool"]
             ELSE [flow[w] EXCEPT !.mediation = "failed", !.at = "collect"])
  /\ UNCHANGED <<storeVars, runVars, requests, askedAt, lapses>>

ToolReturns(w) ==
  /\ At(w, "tool")
  /\ Step(w, [flow[w] EXCEPT !.tool = "succeeded", !.at = "conclude"])
  /\ UNCHANGED <<storeVars, runVars, requests, askedAt, lapses>>

ToolFails(w) ==
  /\ At(w, "tool")
  /\ Step(w, [flow[w] EXCEPT !.tool = "failed", !.mediation = "failed", !.at = "collect"])
  /\ Lapse
  /\ UNCHANGED <<storeVars, runVars, requests, askedAt>>

\* The mediation succeeds if the run has not moved meanwhile.
Conclude(w) ==
  /\ At(w, "conclude")
  /\ Step(w, IF BindingCurrent(w)
             THEN [flow[w] EXCEPT !.mediation = "succeeded", !.at = "evidence",
                     !.files = @ \cup {"invocation_a", "tool_result"}]
             ELSE [flow[w] EXCEPT !.mediation = "failed", !.at = "collect"])
  /\ UNCHANGED <<storeVars, runVars, requests, askedAt, lapses>>

\* The coordinator finds the mediation failed.
Collect(w) ==
  /\ At(w, "collect")
  /\ Return(w, {"invocation_a"}, "mediated_tool_failed")
  /\ UNCHANGED <<storeVars, runVars, requests, askedAt, lapses>>

-----------------------------------------------------------------------------
(* Evidence and invocation B *)

MakeEvidence(w) ==
  /\ At(w, "evidence")
  /\ IF BindingCurrent(w)
     THEN /\ Goto(w, "confirm")
          /\ Store!WriteEvidence(w, [kind |-> Torque, revision |-> Bound(w), hash |-> Bound(w)])
     ELSE Return(w, {}, "stale_before_evidence") /\ UNCHANGED storeVars
  /\ UNCHANGED <<runVars, requests, askedAt, lapses>>

Confirm(w) ==
  /\ At(w, "confirm")
  /\ IF BindingCurrent(w) /\ Fresh(w)
     THEN Step(w, [flow[w] EXCEPT !.at = "ask_b", !.files = @ \cup {"evidence"}])
     ELSE Return(w, {}, "evidence_not_current")
  /\ UNCHANGED <<storeVars, runVars, requests, askedAt, lapses>>

\* The context is built only with evidence of the bound revision that is current.
AskSecond(w) ==
  /\ At(w, "ask_b")
  /\ IF BindingCurrent(w) /\ Fresh(w)
     THEN Goto(w, "agent_b") /\ askedAt' = [askedAt EXCEPT ![w] = Store!current]
     ELSE Goto(w, "died") /\ UNCHANGED askedAt
  /\ UNCHANGED <<storeVars, runVars, requests, lapses>>

\* The agent answers, with another tool request although it may not have one, and in
\* a discovery with the constraints it misses.
AnswerSecond(w, again, keys) ==
  /\ At(w, "agent_b")
  /\ Step(w, IF BindingCurrent(w)
             THEN [flow[w] EXCEPT !.at = IF again THEN "again" ELSE "record_b", !.keys = keys]
             ELSE [flow[w] EXCEPT !.at = "fail_b"])
  /\ IF again THEN Lapse ELSE UNCHANGED lapses
  /\ UNCHANGED <<storeVars, runVars, requests, askedAt>>

FailSecond(w) ==
  /\ At(w, "fail_b")
  /\ Return(w, {"invocation_b_failed"}, "invocation_b_failed")
  /\ UNCHANGED <<storeVars, runVars, requests, askedAt, lapses>>

\* The two-invocation limit.
RefuseSecondTool(w) ==
  /\ At(w, "again")
  /\ Return(w, {"invocation_b", "second_tool_request"}, "second_tool_request")
  /\ UNCHANGED <<storeVars, runVars, requests, askedAt, lapses>>

RecordSecond(w) ==
  /\ At(w, "record_b")
  /\ Step(w, [flow[w] EXCEPT !.at = "requests", !.files = @ \cup {"invocation_b"}])
  /\ UNCHANGED <<storeVars, runVars, requests, askedAt, lapses>>

\* The id of a request is the hash of its revision, scope and key: one that is there
\* is taken as it is, and one that has a value is not made.
Discover(w, key) ==
  /\ At(w, "requests") /\ key \in flow[w].keys
  /\ Step(w, [flow[w] EXCEPT !.keys = @ \ {key}])
  /\ requests' = IF key \in Satisfied(Bound(w)) \/ requests[RunOf[w]][key] # None
                 THEN requests ELSE [requests EXCEPT ![RunOf[w]][key] = w]
  /\ UNCHANGED <<storeVars, runVars, askedAt, lapses>>

Complete(w) ==
  /\ At(w, "requests") /\ flow[w].keys = {}
  /\ Return(w, {"complete"}, "complete")
  /\ UNCHANGED <<storeVars, runVars, requests, askedAt, lapses>>

\* The process dies, or a write raises: what was written stays.
Die(w) ==
  /\ flow[w].at \notin {"idle", "died", "done"} /\ Lapse
  /\ Goto(w, "died")
  /\ UNCHANGED <<storeVars, runVars, requests, askedAt>>

\* resume: what it finds first, or it raises.
Resume(w) ==
  LET there(name) == name \in flow[w].files
  IN CASE there("invocation_b_failed") -> "invocation_b_failed"
       [] there("second_tool_request") -> "second_tool_request"
       [] there("invocation_a_failed") -> "invocation_a_failed"
       [] there("complete") -> "complete"
       [] OTHER -> None

-----------------------------------------------------------------------------
\* create_run, at whatever revision is current.
CreateRun(k) ==
  /\ run[k] = None
  /\ run' = [run EXCEPT ![k] = [initial |-> Store!current, active |-> Store!current,
                                seen |-> {Store!current}]]
  /\ UNCHANGED <<storeVars, content, tripVars, lapses>>

RoundTrip(w) ==
  \/ Start(w) \/ AskFirst(w) \/ AgentFails(w) \/ FailFirst(w)
  \/ \E n \in 0 .. 2 : AnswerFirst(w, n)
  \/ Mediate(w) \/ CallTool(w) \/ ToolReturns(w) \/ ToolFails(w) \/ Conclude(w) \/ Collect(w)
  \/ MakeEvidence(w) \/ Confirm(w) \/ AskSecond(w)
  \/ \E again \in BOOLEAN, keys \in Missed[w] : AnswerSecond(w, again, keys)
  \/ FailSecond(w) \/ RefuseSecondTool(w) \/ RecordSecond(w)
  \/ \E key \in Keys : Discover(w, key)
  \/ Complete(w) \/ Die(w)

TripTypeOK ==
  /\ run \in [Runs -> RunStates \cup {None}]
  /\ flow \in [Workflows -> Flows]
  /\ requests \in [Runs -> [Keys -> Workflows \cup {None}]]
  /\ askedAt \in [Workflows -> Store!Revisions \cup {None}]
  /\ lapses \in 0 .. MaxLapses
=============================================================================

----------------------- MODULE StructuralEvidenceProofs -----------------------
(***************************************************************************)
(* Theorems about executions of structural analyses and the evidence made  *)
(* of them, for any bodies, definitions, plans of requests and studies,    *)
(* and whatever solvers come to, dies or is damaged.                       *)
(***************************************************************************)
EXTENDS StructuralEvidence, FiniteSetTheorems, SequenceTheorems, WellFoundedInduction, TLAPS

-----------------------------------------------------------------------------
(* Sequences *)

LEMMA Sequence ==
  ASSUME NEW s, IsSeq(s)
  PROVE  Len(s) \in Nat /\ DOMAIN s = 1..Len(s) /\ s \in Seq({s[i] : i \in DOMAIN s})
  BY DEF IsSeq

\* t is s and then v.
Continues(s, t, v) ==
  /\ IsSeq(t) /\ DOMAIN s \subseteq DOMAIN t /\ t[Len(t)] = v
  /\ \A i \in DOMAIN s : t[i] = s[i]
  /\ \A i \in DOMAIN t : i \in DOMAIN s \/ i = Len(t)

LEMMA Appended ==
  ASSUME NEW s, NEW v, IsSeq(s)
  PROVE  Continues(s, Append(s, v), v)
<1>1. PICK t : t = Append(s, v)
  OBVIOUS
<1> DEFINE S == {s[i] : i \in DOMAIN s} \union {v}
<1>2. s \in Seq(S) /\ v \in S
  BY DEF IsSeq
<1>3. t \in Seq(S) /\ Len(t) = Len(s) + 1
  BY <1>1, <1>2
<1>4. t \in Seq({t[i] : i \in DOMAIN t})
  BY <1>3
<1>5. /\ DOMAIN s \subseteq DOMAIN t /\ t[Len(t)] = v
      /\ \A i \in DOMAIN s : t[i] = s[i]
      /\ \A i \in DOMAIN t : i \in DOMAIN s \/ i = Len(t)
  BY <1>1, <1>2, <1>3
<1>6. Continues(s, t, v)
  BY <1>4, <1>5 DEF IsSeq, Continues
<1> QED BY <1>1, <1>6

LEMMA Changed ==
  ASSUME NEW s, IsSeq(s), NEW x \in DOMAIN s, NEW t, DOMAIN t = DOMAIN s,
         NEW v, t = [s EXCEPT ![x] = v]
  PROVE  /\ IsSeq(t) /\ Len(t) = Len(s) /\ t[x] = v
         /\ \A y \in DOMAIN s \ {x} : t[y] = s[y]
<1> DEFINE S == {s[i] : i \in DOMAIN s} \union {v}
<1>1. s \in Seq(S) /\ v \in S
  BY DEF IsSeq
<1>2. t \in Seq(S) /\ Len(t) = Len(s)
  BY <1>1
<1> HIDE DEF S
<1>3. t \in Seq({t[i] : i \in DOMAIN t})
  BY ONLY <1>2
<1> QED BY <1>1, <1>2, <1>3 DEF IsSeq, S

-----------------------------------------------------------------------------
(* Executions: each is of a request and of a revision there is; what has   *)
(* been meshed is of the definition of that revision; its lines are of the *)
(* first cases of the request, in order, and only the last of them may     *)
(* have failed; and what has its manifest is done with.                    *)

RunFields == {"request", "step", "status", "cases", "meshed", "manifest"}
Bound(request, log) == IsRequest(request) /\ request.revision \in DOMAIN log
Fits(request, log) ==
  /\ log[request.revision] = request.definition
  /\ Range(request.cases) \subseteq DOMAIN Definitions[request.definition].loads
  /\ OutcomesOf[<<request.geometry, request.definition>>] = "SUCCEEDED"

\* What a solver that succeeded leaves, of the fields asked for and the deck it was given.
Left(output, fields, deck) ==
  /\ output.exit = 0 /\ output.finished
  /\ output.frd.datasets = fields \intersect FrdFields
  /\ output.frd.displacement \in Nat /\ output.frd.stress \in Nat
  /\ output.dat = IF "reactions" \in fields THEN deck.sets ELSE << >>
DeckOf(request, case) == Decks[<<request.geometry, request.definition, case>>]
Wrote(request, c) ==
  c.status = "SUCCEEDED" =>
    DeckOf(request, c.case) # None /\ Left(c.output, request.fields, DeckOf(request, c.case))

Whole(e) ==
  /\ e.cases # << >>
  /\ e.cases[Len(e.cases)].status = "SUCCEEDED" => Len(e.cases) = Len(e.request.cases)
InOrder(e) ==
  /\ IsSeq(e.cases) /\ Len(e.cases) <= Len(e.request.cases)
  /\ \A i \in DOMAIN e.cases :
       /\ e.cases[i].case = e.request.cases[i] /\ Wrote(e.request, e.cases[i])
       /\ i < Len(e.cases) \/ e.step = "solving" => e.cases[i].status = "SUCCEEDED"
  /\ e.step = "created" => e.cases = << >>
  /\ e.step = "solving" => Len(e.cases) < Len(e.request.cases)
  /\ e.step = "finishing" => Whole(e)
  /\ e.manifest => Whole(e) /\ e.status = e.cases[Len(e.cases)].status

Sound(e, log) ==
  /\ DOMAIN e = RunFields
  /\ Bound(e.request, log)
  /\ e.manifest \in BOOLEAN /\ e.manifest => e.step = "stopped"
  /\ e.manifest \/ e.step \in {"solving", "finishing"} => Fits(e.request, log)
  /\ InOrder(e)

ExecutionsInv ==
  /\ IsSeq(history) /\ IsSeq(executions)
  /\ \A x \in Runs : Sound(executions[x], history)

\* What a step leaves as it is: an execution with a manifest, and every revision.
Settled ==
  /\ Runs \subseteq Runs'
  /\ \A x \in Runs : executions[x].manifest => executions'[x] = executions[x]
  /\ \A i \in DOMAIN history : i \in DOMAIN history' /\ history'[i] = history[i]

LEMMA SoundOfMore ==
  ASSUME NEW e, NEW log, NEW more, Sound(e, log),
         \A i \in DOMAIN log : i \in DOMAIN more /\ more[i] = log[i]
  PROVE  Sound(e, more)
  BY DEF Sound, Bound, Fits

\* One execution goes on.
LEMMA OneGoesOn ==
  ASSUME ExecutionsInv, NEW x \in Runs, NEW e, Sound(e, history), ~executions[x].manifest,
         executions' = [executions EXCEPT ![x] = e], history' = history
  PROVE  ExecutionsInv' /\ Settled
<1>1. DOMAIN executions' = Runs
  BY DEF Runs
<1>2. /\ IsSeq(executions') /\ executions'[x] = e
      /\ \A y \in Runs \ {x} : executions'[y] = executions[y]
  BY <1>1, Changed DEF ExecutionsInv, Runs
<1> QED BY <1>1, <1>2 DEF ExecutionsInv, Settled, Runs

-----------------------------------------------------------------------------
(* The steps of an execution *)

LEMMA CommitStep ==
  ASSUME ExecutionsInv, NEW d, Commit(d)
  PROVE  ExecutionsInv' /\ Settled
<1>1. executions' = executions /\ history' = Append(history, d)
  BY DEF Commit
<1>2. PICK log : log = history'
  OBVIOUS
<1>3. IsSeq(history) /\ log = Append(history, d)
  BY <1>1, <1>2 DEF ExecutionsInv
<1>4. Continues(history, log, d)
  BY <1>3, Appended
<1>5. IsSeq(log) /\ \A i \in DOMAIN history : i \in DOMAIN log /\ log[i] = history[i]
  BY <1>4 DEF Continues
<1> QED BY <1>1, <1>2, <1>5, SoundOfMore DEF ExecutionsInv, Settled, Runs

LEMMA NextIsRequest ==
  ASSUME ExecutionsInv, NEW r \in NextRequests
  PROVE  IsRequest(r)
<1>1. PICK plan \in Plans : Asked # plan /\ IsPrefix(Asked, plan) /\ r = plan[Len(executions) + 1]
  BY DEF NextRequests
<1>2. IsSeq(plan) /\ \A i \in DOMAIN plan : IsRequest(plan[i])
  BY ExecutionAssumption
<1>3. Len(executions) \in Nat /\ Runs = 1..Len(executions)
  BY Sequence DEF ExecutionsInv, Runs
<1>4. Len(plan) \in Nat /\ DOMAIN plan = 1..Len(plan) /\ plan \in Seq({plan[i] : i \in DOMAIN plan})
  BY <1>2, Sequence
<1> DEFINE A == {[executions[x].request EXCEPT !.revision = 1] : x \in Runs}
<1>5. Asked \in Seq(A) /\ Len(Asked) = Len(executions)
  BY <1>3 DEF Asked
<1>6. Len(Asked) <= Len(plan) /\ SubSeq(Asked, 1, Len(Asked)) = SubSeq(plan, 1, Len(Asked))
  BY <1>1 DEF IsPrefix
<1>7. Len(Asked) # Len(plan)
  <2> SUFFICES ASSUME Len(Asked) = Len(plan)
               PROVE  FALSE
    OBVIOUS
  <2> HIDE DEF A
  <2>1. SubSeq(Asked, 1, Len(Asked)) = Asked
    BY <1>5
  <2>2. SubSeq(plan, 1, Len(plan)) = plan
    BY <1>4
  <2> QED BY <1>1, <1>6, <2>1, <2>2
<1>8. Len(executions) + 1 \in DOMAIN plan
  BY <1>3, <1>4, <1>5, <1>6, <1>7
<1> QED BY <1>1, <1>2, <1>8

LEMMA StartStep ==
  ASSUME ExecutionsInv, NEW r \in NextRequests, NEW revision \in 1..Current,
         Start([r EXCEPT !.revision = revision])
  PROVE  ExecutionsInv' /\ Settled
<1> DEFINE q == [r EXCEPT !.revision = revision]
           e == [request |-> q, step |-> "created", status |-> "none", cases |-> << >>,
                 meshed |-> FALSE, manifest |-> FALSE]
<1>1. executions' = Append(executions, e) /\ history' = history
  BY DEF Start
<1>2. IsRequest(r)
  BY NextIsRequest
<1>3. DOMAIN history = 1..Current
  BY Sequence DEF ExecutionsInv, Current
<1>4. IsRequest(q) /\ q.revision = revision
  BY <1>2 DEF IsRequest, RequestFields
<1>5. IsSeq(<< >>)
  BY DEF IsSeq
<1>6. Sound(e, history)
  <2> HIDE DEF q
  <2>1. IsSeq(q.cases) /\ Len(q.cases) \in Nat
    BY <1>4, Sequence DEF IsRequest
  <2>2. InOrder(e)
    BY <1>5, <2>1 DEF InOrder
  <2> QED BY <1>3, <1>4, <2>2 DEF Sound, Bound, RunFields
<1> HIDE DEF e
<1>7. PICK runs : runs = executions'
  OBVIOUS
<1>8. IsSeq(executions) /\ runs = Append(executions, e)
  BY <1>1, <1>7 DEF ExecutionsInv
<1>9. /\ IsSeq(runs) /\ DOMAIN executions \subseteq DOMAIN runs
      /\ \A x \in DOMAIN executions : runs[x] = executions[x]
      /\ runs[Len(runs)] = e
      /\ \A x \in DOMAIN runs : x \in DOMAIN executions \/ x = Len(runs)
  <2>1. Continues(executions, runs, e)
    BY <1>8, Appended
  <2> QED BY <2>1 DEF Continues
<1> QED BY <1>1, <1>6, <1>7, <1>9 DEF ExecutionsInv, Settled, Runs

\* What a failure or a death leaves of an execution.
LEMMA Stopped ==
  ASSUME NEW e, Sound(e, history), ~e.manifest, NEW status,
         NEW f, f \in {[e EXCEPT !.step = "stopped", !.status = status],
                       [e EXCEPT !.step = "stopped"]}
  PROVE  Sound(f, history)
<1>1. DOMAIN e = RunFields
  BY DEF Sound
<1>2. /\ DOMAIN f = RunFields /\ f.step = "stopped"
      /\ f.request = e.request /\ f.cases = e.cases /\ f.manifest = e.manifest
  BY <1>1 DEF RunFields
<1>3. InOrder(f)
  BY <1>2 DEF Sound, InOrder
<1> QED BY <1>2, <1>3 DEF Sound

LEMMA StopStep ==
  ASSUME ExecutionsInv, NEW x \in Runs, NEW status, ~executions[x].manifest,
         Stop(x, status), history' = history
  PROVE  ExecutionsInv' /\ Settled
<1> DEFINE e == [executions[x] EXCEPT !.step = "stopped", !.status = status]
<1>1. executions' = [executions EXCEPT ![x] = e]
  BY DEF Stop
<1>2. Sound(e, history)
  BY Stopped DEF ExecutionsInv
<1> HIDE DEF e
<1> QED BY <1>1, <1>2, OneGoesOn

LEMMA Unfinished ==
  ASSUME ExecutionsInv, NEW x \in Runs, executions[x].step # "stopped"
  PROVE  ~executions[x].manifest /\ Sound(executions[x], history)
  BY DEF ExecutionsInv, Sound

LEMMA PrepareStep ==
  ASSUME ExecutionsInv, NEW x \in Runs, Prepare(x)
  PROVE  ExecutionsInv' /\ Settled
<1>1. ~executions[x].manifest /\ Sound(executions[x], history) /\ history' = history
  BY Unfinished DEF Prepare
<1>2. CASE Prepared(x) # "SUCCEEDED"
  BY <1>1, <1>2, StopStep DEF Prepare
<1>3. CASE Prepared(x) = "SUCCEEDED"
  <2> DEFINE e == [executions[x] EXCEPT !.step = "solving", !.meshed = TRUE]
  <2>1. executions' = [executions EXCEPT ![x] = e]
    BY <1>3 DEF Prepare
  <2>2. Fits(executions[x].request, history)
    BY <1>3, WorkedOut DEF Prepared, RequestFits, Definition, Fits
  <2>3. DOMAIN executions[x] = RunFields
    BY <1>1 DEF Sound
  <2>4. /\ DOMAIN e = RunFields /\ e.step = "solving"
        /\ e.request = executions[x].request /\ e.cases = executions[x].cases
        /\ e.manifest = executions[x].manifest
    BY <2>3 DEF RunFields
  <2> HIDE DEF e
  <2>5. InOrder(e)
    <3>1. InOrder(executions[x]) /\ executions[x].cases = << >>
      BY <1>1 DEF Sound, InOrder, Prepare
    <3>2. Len(e.request.cases) \in Nat /\ Len(e.request.cases) # 0
      BY <1>1, <2>4, Sequence DEF Sound, Bound, IsRequest, IsSeq
    <3> QED BY <1>1, <2>4, <3>1, <3>2 DEF InOrder
  <2>6. Sound(e, history)
    BY <1>1, <2>2, <2>4, <2>5 DEF Sound
  <2> QED BY <1>1, <2>1, <2>6, OneGoesOn
<1> QED BY <1>2, <1>3

LEMMA ProviderFailsStep ==
  ASSUME ExecutionsInv, NEW x \in Runs, NEW status, ProviderFails(x, status)
  PROVE  ExecutionsInv' /\ Settled
<1>1. ~executions[x].manifest /\ history' = history
  BY Unfinished DEF ProviderFails
<1> QED BY <1>1, StopStep DEF ProviderFails

LEMMA CrashStep ==
  ASSUME ExecutionsInv, NEW x \in Runs, Crash(x)
  PROVE  ExecutionsInv' /\ Settled
<1>1. ~executions[x].manifest /\ Sound(executions[x], history) /\ history' = history
  BY Unfinished DEF Crash
<1> DEFINE e == [executions[x] EXCEPT !.step = "stopped"]
<1>2. executions' = [executions EXCEPT ![x] = e]
  BY DEF Crash
<1>3. Sound(e, history)
  BY <1>1, Stopped
<1> HIDE DEF e
<1> QED BY <1>1, <1>2, <1>3, OneGoesOn

LEMMA FinishStep ==
  ASSUME ExecutionsInv, NEW x \in Runs, Finish(x)
  PROVE  ExecutionsInv' /\ Settled
<1>1. ~executions[x].manifest /\ Sound(executions[x], history) /\ history' = history
  BY Unfinished DEF Finish
<1> DEFINE v == Last(executions[x].cases).status
           e == [executions[x] EXCEPT !.step = "stopped", !.manifest = TRUE, !.status = v]
<1>2. executions' = [executions EXCEPT ![x] = e]
  <2> HIDE DEF v
  <2> QED BY DEF Finish, v
<1>3. DOMAIN executions[x] = RunFields
  BY <1>1 DEF Sound
<1> HIDE DEF v
<1>4. /\ DOMAIN e = RunFields /\ e.step = "stopped"
      /\ e.request = executions[x].request /\ e.cases = executions[x].cases
      /\ e.manifest = TRUE /\ e.status = v
  BY <1>3 DEF RunFields
<1>5. InOrder(e)
  <2>1. InOrder(executions[x]) /\ Whole(executions[x])
    BY <1>1 DEF Sound, InOrder, Finish
  <2>2. v = e.cases[Len(e.cases)].status
    BY <1>4 DEF v, Last
  <2> HIDE DEF e
  <2>3. Whole(e)
    BY <1>4, <2>1 DEF Whole
  <2> QED BY <1>4, <2>1, <2>2, <2>3 DEF InOrder, Finish
<1> HIDE DEF e
<1>6. Sound(e, history)
  BY <1>1, <1>4, <1>5 DEF Sound, Finish
<1> QED BY <1>1, <1>2, <1>6, OneGoesOn

\* A solver that succeeded wrote what was asked for, and numbers.
LEMMA SolverWrites ==
  ASSUME NEW x, NEW deck, NEW field \in Fields, NEW fields, fields = executions[x].request.fields,
         NEW output \in Mishaps(x, deck) \union {Solved(x, deck, field)},
         Classified(fields, output) = "SUCCEEDED"
  PROVE  Left(output, fields, deck)
<1>1. (CHOOSE f \in Fields : TRUE) \in Fields
  BY ExecutionAssumption
<1>2. PICK some : some = CHOOSE f \in Fields : TRUE
  OBVIOUS
<1>3. \A f \in Fields : f.displacement \in Nat /\ f.stress \in Nat
  BY ExecutionAssumption
<1>4. output # None /\ output.exit # None /\ output.exit = 0 /\ output.finished
  BY DEF Classified
<1> DEFINE dat == IF "reactions" \in fields THEN deck.sets ELSE << >>
<1>5. /\ output.frd.datasets = fields \intersect FrdFields /\ output.dat = dat
      /\ \E f \in Fields : output.frd.displacement = f.displacement /\ output.frd.stress = f.stress
  <2>1. CASE output = Solved(x, deck, field)
    BY <2>1 DEF Solved
  <2>2. PICK full : full = Solved(x, deck, some)
    OBVIOUS
  <2>3. output \in {None, Unsolved, [Unsolved EXCEPT !.exit = 201],
                    [full EXCEPT !.finished = FALSE], [full EXCEPT !.frd.nodes = {}]}
        \/ output = Solved(x, deck, field)
    BY <1>2, <2>2 DEF Mishaps
  <2>4. DOMAIN full = {"exit", "finished", "frd", "dat"}
        /\ DOMAIN full.frd = {"datasets", "nodes", "displacement", "stress"}
        /\ full.frd.displacement = some.displacement /\ full.frd.stress = some.stress
        /\ full.frd.datasets = fields \intersect FrdFields /\ full.dat = dat
    BY <2>2 DEF Solved
  <2>5. output # Unsolved /\ output # [Unsolved EXCEPT !.exit = 201]
    BY <1>4 DEF Unsolved
  <2>6. output # [full EXCEPT !.finished = FALSE]
    BY <1>4, <2>4
  <2>7. CASE output = [full EXCEPT !.frd.nodes = {}]
    <3>1. output.frd = [full.frd EXCEPT !.nodes = {}] /\ output.dat = full.dat
      BY <2>4, <2>7
    <3> QED BY <1>1, <1>2, <2>4, <3>1
  <2> QED BY <1>4, <2>1, <2>3, <2>5, <2>6, <2>7
<1> QED BY <1>3, <1>4, <1>5 DEF Left

LEMMA RecordStep ==
  ASSUME ExecutionsInv, NEW x \in Runs, executions[x].step = "solving", history' = history,
         NEW status, NEW output, Record(x, status, output), status # "none",
         status = "SUCCEEDED" =>
           NextDeck(x) # None /\ Left(output, executions[x].request.fields, NextDeck(x))
  PROVE  ExecutionsInv' /\ Settled
<1>1. ~executions[x].manifest /\ Sound(executions[x], history)
  BY Unfinished
<1> DEFINE c == [case |-> NextCase(x), status |-> status,
                 deck |-> status # "DECK_INVALID", output |-> output]
           step == IF Failed(status)
                      \/ Len(executions[x].cases) + 1 = Len(executions[x].request.cases)
                   THEN "finishing" ELSE "solving"
           e == [executions[x] EXCEPT !.cases = Append(@, c), !.step = step]
<1>2. executions' = [executions EXCEPT ![x] = e]
  <2> HIDE DEF c, step
  <2> QED BY DEF Record, c, step
<1>3. DOMAIN executions[x] = RunFields /\ InOrder(executions[x]) /\ IsSeq(executions[x].cases)
  BY <1>1 DEF Sound, InOrder
<1>4. step \in {"finishing", "solving"}
  OBVIOUS
<1>5. Wrote(executions[x].request, c) /\ c.case = NextCase(x) /\ c.status = status
  BY DEF Wrote, DeckOf, NextDeck, Job
<1> HIDE DEF c
<1>s. /\ step = "solving" => /\ status = "SUCCEEDED"
                             /\ Len(executions[x].cases) + 1 # Len(executions[x].request.cases)
      /\ step = "finishing" => \/ status # "SUCCEEDED"
                                \/ Len(executions[x].cases) + 1 = Len(executions[x].request.cases)
  BY DEF Failed
<1> HIDE DEF step
<1>6. /\ DOMAIN e = RunFields /\ e.step = step
      /\ e.request = executions[x].request /\ e.cases = Append(executions[x].cases, c)
      /\ e.manifest = executions[x].manifest
  BY <1>3 DEF RunFields
<1> HIDE DEF e
<1>7. PICK before, after : before = executions[x].cases /\ after = e.cases
  OBVIOUS
<1>8. IsSeq(before) /\ after = Append(before, c)
  BY <1>3, <1>6, <1>7
<1>9. /\ IsSeq(after) /\ after[Len(after)] = c
      /\ \A i \in DOMAIN before : after[i] = before[i]
      /\ \A i \in DOMAIN after : i \in DOMAIN before \/ i = Len(after)
  <2>1. Continues(before, after, c)
    BY <1>8, Appended
  <2> QED BY <2>1 DEF Continues
<1>10. Len(after) = Len(before) + 1 /\ DOMAIN before = 1..Len(before) /\ DOMAIN after = 1..Len(after)
  BY <1>8, <1>9, Sequence
<1>11. Len(before) \in Nat /\ Len(before) < Len(e.request.cases) /\ Len(e.request.cases) \in Nat
  BY <1>1, <1>3, <1>6, <1>7, <1>8, Sequence DEF InOrder, Sound, Bound, IsRequest
<1>12. ASSUME NEW i \in DOMAIN after
       PROVE  /\ after[i].case = e.request.cases[i] /\ Wrote(e.request, after[i])
              /\ i < Len(after) \/ e.step = "solving" => after[i].status = "SUCCEEDED"
  <2>1. CASE i \in DOMAIN before
    BY <1>3, <1>6, <1>7, <1>9, <2>1 DEF InOrder
  <2>2. CASE i = Len(after)
    <3>1. i = Len(before) + 1 /\ after[i] = c
      BY <1>9, <1>10, <2>2
    <3>2. c.case = e.request.cases[i]
      BY <1>5, <1>6, <1>7, <3>1 DEF NextCase
    <3> QED BY <1>5, <1>6, <1>s, <2>2, <3>1, <3>2
  <2> QED BY <1>9, <2>1, <2>2
<1>13. InOrder(e)
  <2>1. after # << >> /\ Len(after) <= Len(e.request.cases)
    BY <1>10, <1>11
  <2>2. e.step = "finishing" => Whole(e)
    BY <1>5, <1>6, <1>7, <1>9, <1>10, <1>s, <2>1 DEF Whole
  <2>3. e.step = "solving" => Len(after) < Len(e.request.cases)
    BY <1>6, <1>7, <1>10, <1>11, <1>s
  <2> QED BY <1>1, <1>4, <1>6, <1>7, <1>9, <1>12, <2>1, <2>2, <2>3 DEF InOrder
<1>14. Sound(e, history)
  BY <1>1, <1>4, <1>6, <1>13 DEF Sound
<1> QED BY <1>1, <1>2, <1>14, OneGoesOn

LEMMA CaseStep ==
  ASSUME ExecutionsInv, NEW x \in Runs,
         \/ RejectCase(x) \/ SolverFails(x)
         \/ \E field \in Fields : SolveCase(x, field)
  PROVE  ExecutionsInv' /\ Settled
<1>1. CASE RejectCase(x)
  <2>1. PICK status \in {"DECK_INVALID", "SOLVER_UNDERCONSTRAINED"} : Record(x, status, None)
    BY <1>1 DEF RejectCase
  <2> QED BY <1>1, <2>1, RecordStep DEF RejectCase
<1>2. CASE SolverFails(x)
  <2>1. PICK output \in Mishaps(x, NextDeck(x)) :
          Record(x, Classified(executions[x].request.fields, output), output)
    BY <1>2 DEF SolverFails
  <2>2. PICK field : field \in Fields
    BY ExecutionAssumption
  <2>3. PICK fields : fields = executions[x].request.fields
    OBVIOUS
  <2>4. PICK deck : deck = NextDeck(x)
    OBVIOUS
  <2>5. Classified(fields, output) = "SUCCEEDED" => Left(output, fields, deck)
    BY <2>1, <2>2, <2>3, <2>4, SolverWrites
  <2>6. deck # None /\ Classified(fields, output) # "none"
    BY <1>2, <2>4 DEF SolverFails, Solvable, Classified
  <2> QED BY <1>2, <2>1, <2>3, <2>4, <2>5, <2>6, RecordStep DEF SolverFails
<1>3. ASSUME NEW field \in Fields, SolveCase(x, field)
      PROVE  ExecutionsInv' /\ Settled
  <2>1. PICK deck, fields : deck = NextDeck(x) /\ fields = executions[x].request.fields
    OBVIOUS
  <2>2. PICK output : output = Solved(x, deck, field)
    OBVIOUS
  <2>3. Classified(fields, output) = "SUCCEEDED" => Left(output, fields, deck)
    BY <2>1, <2>2, SolverWrites
  <2>4. Record(x, Classified(fields, output), output)
    BY <1>3, <2>1, <2>2 DEF SolveCase
  <2>5. deck # None /\ Classified(fields, output) # "none"
    BY <1>3, <2>1 DEF SolveCase, Solvable, Classified
  <2> QED BY <1>3, <2>1, <2>3, <2>4, <2>5, RecordStep DEF SolveCase
<1> QED BY <1>1, <1>2, <1>3

LEMMA ExecutionsStep ==
  ASSUME ExecutionsInv, [ExecutionNext]_execVars
  PROVE  ExecutionsInv' /\ Settled
<1>1. CASE UNCHANGED <<history, executions>>
  BY <1>1 DEF ExecutionsInv, Settled, Runs
<1>2. ASSUME NEW d \in DOMAIN Definitions, Commit(d)
      PROVE  ExecutionsInv' /\ Settled
  BY <1>2, CommitStep
<1>3. ASSUME NEW r \in NextRequests, NEW revision \in 1..Current,
             Start([r EXCEPT !.revision = revision])
      PROVE  ExecutionsInv' /\ Settled
  BY <1>3, StartStep
<1>4. ASSUME NEW x \in Runs, NEW file \in Files(x), Damage(x, file)
      PROVE  UNCHANGED <<history, executions>>
  BY <1>4 DEF Damage
<1>5. ASSUME NEW g, DamageStep(g) \/ CopyStep(g)
      PROVE  UNCHANGED <<history, executions>>
  BY <1>5 DEF DamageStep, CopyStep
<1>6. ASSUME NEW x \in Runs,
             \/ Prepare(x) \/ RejectCase(x) \/ SolverFails(x) \/ Finish(x) \/ Crash(x)
             \/ \E status \in {"GEOMETRY_REJECTED", "MESH_FAILED"} : ProviderFails(x, status)
             \/ \E field \in Fields : SolveCase(x, field)
      PROVE  ExecutionsInv' /\ Settled
  BY <1>6, PrepareStep, CaseStep, FinishStep, CrashStep, ProviderFailsStep
<1>7. CASE UNCHANGED execVars
  BY <1>1, <1>7 DEF execVars
<1> QED BY <1>1, <1>2, <1>3, <1>4, <1>5, <1>6, <1>7 DEF ExecutionNext

-----------------------------------------------------------------------------
(* Names: where every one is in an INP file what it is, so are the         *)
(* triangles of its region.                                                *)

LEMMA FlattenedOne ==
  ASSUME NEW seqs, NEW t, seqs = [i \in 1..1 |-> t]
  PROVE  FlattenSeq(seqs) = t
<1>1. seqs \in Seq({t}) /\ Len(seqs) = 1 /\ seqs[1] = t
  OBVIOUS
<1>2. FlattenSeq(seqs) =
        (CHOOSE g : g = [i \in 1..Len(seqs) |->
            IF i = 1 THEN seqs[i] ELSE g[i - 1] \o seqs[i]])[Len(seqs)]
  BY <1>1 DEF FlattenSeq
<1> DEFINE Is(g) == g = [i \in 1..Len(seqs) |-> IF i = 1 THEN seqs[i] ELSE g[i - 1] \o seqs[i]]
<1>3. Is([i \in 1..1 |-> t])
  BY <1>1
<1>4. PICK g : g = CHOOSE h : Is(h)
  OBVIOUS
<1>5. Is(g)
  BY <1>3, <1>4
<1>6. g[1] = t
  BY <1>1, <1>5
<1> QED BY <1>1, <1>2, <1>4, <1>6

LEMMA OneInOrder ==
  ASSUME NEW v
  PROVE  SetToSeq({v}) = [i \in 1..1 |-> v]
<1>1. Cardinality({v}) = 1
  BY FS_Singleton
<1>2. \A f \in [1..1 -> {v}] : f = [i \in 1..1 |-> v]
  OBVIOUS
<1>3. [i \in 1..1 |-> v] \in [1..1 -> {v}] /\ IsInjective([i \in 1..1 |-> v])
  BY DEF IsInjective
<1> QED BY <1>1, <1>2, <1>3 DEF SetToSeq

LEMMA ExtractedAsItIs ==
  ASSUME NEW body, NEW definition, NamesSurvive(definition), NEW id \in RegionNames(definition)
  PROVE  Extracted(body, definition, id) = Surface(body, Region(definition, id))
<1>1. PICK t : t = Surface(body, Region(definition, id))
  OBVIOUS
<1>2. {other \in RegionNames(definition) : Elset[other] = id} = {id}
  BY DEF NamesSurvive
<1>3. PICK ids : ids = SetToSeq({id})
  OBVIOUS
<1>4. ids = [i \in 1..1 |-> id]
  BY <1>3, OneInOrder
<1>5. [i \in DOMAIN ids |-> Surface(body, Region(definition, ids[i]))] = [i \in 1..1 |-> t]
  BY <1>1, <1>4
<1>6. Extracted(body, definition, id)
        = FlattenSeq([i \in DOMAIN ids |-> Surface(body, Region(definition, ids[i]))])
  BY <1>2, <1>3 DEF Extracted
<1> QED BY <1>1, <1>5, <1>6, FlattenedOne

\* The groups of a manifest are the regions only where every name is what it is.
LEMMA AdmittedNamesSurvive ==
  ASSUME NEW p \in Meshable, MeshAdmitted(Meshes[p])
  PROVE  NamesSurvive(Definitions[p[2]])
<1>1. PICK definition, mesh : definition = Definitions[p[2]] /\ mesh = Meshes[p]
  OBVIOUS
<1>2. mesh = Meshed(Bodies[p[1]], definition)
  BY <1>1, WorkedOut DEF MeshesOf
<1>3. /\ DOMAIN mesh.regions = RegionNames(definition)
      /\ mesh.groups = {Elset[id] : id \in RegionNames(definition)} \intersect RegionNames(definition)
  BY ONLY <1>2 DEF Meshed
<1>4. RegionNames(definition) \subseteq {Elset[id] : id \in RegionNames(definition)}
  BY <1>1, <1>3 DEF MeshAdmitted
<1>5. RegionNames(definition) \subseteq DOMAIN Elset
  <2>1. p[2] \in DOMAIN Definitions
    BY DEF Meshable, OutcomesOf
  <2> QED BY <1>1, <2>1, DefinitionAssumption
<1>6. ASSUME NEW id \in RegionNames(definition)
      PROVE  Elset[id] = id
  <2>1. PICK other \in RegionNames(definition) : id = Elset[other]
    BY <1>4
  <2> QED BY <1>5, <2>1, SpellingAssumption
<1> QED BY <1>1, <1>6 DEF NamesSurvive

-----------------------------------------------------------------------------
(* Records: each is founded on an execution with a manifest, whose lines   *)
(* are those of the cases asked for, and says what they say.               *)

\* The limit of a criterion is kept, or broken, by a case of an execution.
Tells(material, criterion) ==
  criterion.sampling = "element_nodal_extrapolated" /\ "yield_strength" \in material.trusted
Keeps(e, criterion) ==
  \E i \in DOMAIN e.cases :
    /\ e.cases[i].case = criterion.case
    /\ criterion.kind \in e.request.fields
    /\ LET frd == e.cases[i].output.frd
           material == Definitions[e.request.definition].material
       IN  /\ criterion.consumes \subseteq material.trusted
           /\ IF criterion.kind = "displacement" THEN frd.displacement <= criterion.limit
              ELSE Tells(material, criterion) /\ criterion.limit * frd.stress <= material.yield
Breaks(e, criterion) ==
  \E i \in DOMAIN e.cases :
    /\ e.cases[i].case = criterion.case
    /\ LET frd == e.cases[i].output.frd
           material == Definitions[e.request.definition].material
       IN  /\ criterion.consumes \subseteq material.trusted
           /\ IF criterion.kind = "displacement" THEN frd.displacement > criterion.limit
              ELSE Tells(material, criterion) /\ criterion.limit * frd.stress > material.yield

\* The lines of an execution.
Complete(e) ==
  /\ DOMAIN e.cases = DOMAIN e.request.cases
  /\ \A i \in DOMAIN e.cases :
       /\ e.cases[i].case = e.request.cases[i]
       /\ e.cases[i].output.exit = 0 /\ e.cases[i].output.finished
       /\ e.cases[i].output.frd.displacement \in Nat /\ e.cases[i].output.frd.stress \in Nat
Read(e) ==
  \A i \in DOMAIN e.cases :
    /\ e.request.fields \ {"reactions"} \subseteq e.cases[i].output.frd.datasets
    /\ LET j == <<e.request.geometry, e.request.definition, e.cases[i].case>>
       IN  j \in Jobs /\ Faithful[j] /\ NamesSurvive(Definitions[j[2]])

Founded(a, e, definition) ==
  /\ e.manifest /\ e.request.definition = definition /\ Complete(e) /\ Read(e)
  /\ LET criteria == Definitions[definition].criteria
     IN  /\ a.verdict = "PASS" => criteria # {} /\ \A c \in criteria : Keeps(e, c)
         /\ a.verdict = "FAIL" => \E c \in criteria : Breaks(e, c)
  /\ a.response # None => a.response = e.cases[1].output.frd.displacement

\* What is worked out of the outputs of a case is of its line.
LEMMA OutputsAreOfLines ==
  ASSUME ExecutionsInv, NEW x \in Runs, Complete(executions[x])
  PROVE  /\ DOMAIN Outputs(x) = {executions[x].cases[i].case : i \in DOMAIN executions[x].cases}
         /\ \A i \in DOMAIN executions[x].cases :
              Outputs(x)[executions[x].cases[i].case] = executions[x].cases[i].output
<1>1. PICK e : e = executions[x]
  OBVIOUS
<1>2. IsInjective(e.request.cases)
  BY <1>1 DEF ExecutionsInv, Sound, Bound, IsRequest
<1>3. /\ DOMAIN e.cases = DOMAIN e.request.cases
      /\ \A i \in DOMAIN e.cases : e.cases[i].case = e.request.cases[i]
  BY <1>1 DEF Complete
<1>4. Range(e.request.cases) = {e.cases[i].case : i \in DOMAIN e.cases}
  BY <1>3 DEF Range
<1>5. ASSUME NEW i \in DOMAIN e.cases
      PROVE  (CHOOSE c \in Range(e.cases) : c.case = e.cases[i].case) = e.cases[i]
  <2>1. e.cases[i] \in Range(e.cases)
    BY DEF Range
  <2>2. \A c \in Range(e.cases) : c.case = e.cases[i].case => c = e.cases[i]
    BY <1>2, <1>3 DEF Range, IsInjective
  <2> QED BY <2>1, <2>2
<1>6. Outputs(x) = [case \in Range(e.request.cases) |->
                      (CHOOSE c \in Range(e.cases) : c.case = case).output]
  BY <1>1 DEF Outputs, Request
<1>7. \A i \in DOMAIN e.cases : Outputs(x)[e.cases[i].case] = e.cases[i].output
  <2> SUFFICES ASSUME NEW i \in DOMAIN e.cases
               PROVE  Outputs(x)[e.cases[i].case] = e.cases[i].output
    OBVIOUS
  <2>1. PICK case : case = e.cases[i].case
    OBVIOUS
  <2>2. case \in Range(e.request.cases)
    BY <1>4, <2>1
  <2>3. (CHOOSE c \in Range(e.cases) : c.case = case) = e.cases[i]
    BY <1>5, <2>1
  <2>4. Outputs(x)[case] = (CHOOSE c \in Range(e.cases) : c.case = case).output
    BY <1>6, <2>2
  <2> QED BY <2>1, <2>3, <2>4
<1>8. DOMAIN Outputs(x) = {e.cases[i].case : i \in DOMAIN e.cases}
  BY <1>4, <1>6
<1> QED BY <1>1, <1>7, <1>8

LEMMA VerdictTells ==
  ASSUME NEW mesh, NEW definition, NEW fields, NEW outputs,
         NEW verdict, verdict = Verdict(mesh, definition, fields, outputs)
  PROVE  /\ verdict = "PASS" =>
              definition.criteria # {} /\ \A c \in definition.criteria :
                Decided(mesh, definition, fields, outputs, c) /\ Met(definition, outputs, c)
         /\ verdict = "FAIL" =>
              \E c \in definition.criteria :
                Decided(mesh, definition, fields, outputs, c) /\ ~Met(definition, outputs, c)
<1> DEFINE statuses == {CriterionStatus(mesh, definition, fields, outputs, c) : c \in definition.criteria}
<1>1. \A c \in definition.criteria : CriterionStatus(mesh, definition, fields, outputs, c) \in statuses
  OBVIOUS
<1>2. verdict = "PASS" => statuses # {} /\ "FAIL" \notin statuses /\ "NOT_EVALUABLE" \notin statuses
  BY DEF Verdict
<1>3. verdict = "FAIL" => "FAIL" \in statuses
  BY DEF Verdict
<1> QED BY <1>1, <1>2, <1>3 DEF CriterionStatus

LEMMA OutcomeOfPair == DOMAIN OutcomesOf = (DOMAIN Bodies) \X (DOMAIN Definitions)
  BY DEF OutcomesOf

LEMMA VerifiedIsComplete ==
  ASSUME ExecutionsInv, NEW x \in Runs, ManifestStands(x)
  PROVE  /\ executions[x].manifest /\ Complete(executions[x])
         /\ history[executions[x].request.revision] = executions[x].request.definition
<1>1. PICK e : e = executions[x]
  OBVIOUS
<1>2. [i \in DOMAIN e.cases |-> e.cases[i].case] = e.request.cases
  BY <1>1 DEF ManifestStands
<1>3. \A i \in DOMAIN e.cases :
        e.cases[i].status = "SUCCEEDED" /\ e.cases[i].output.exit = 0 /\ e.cases[i].output.finished
  BY <1>1 DEF ManifestStands, Range
<1>4. \A i \in DOMAIN e.cases : Wrote(e.request, e.cases[i])
  BY <1>1 DEF ExecutionsInv, Sound, InOrder
<1>5. Complete(e)
  BY <1>2, <1>3, <1>4 DEF Complete, Wrote, Left
<1> QED BY <1>1, <1>5 DEF ManifestStands

LEMMA VerifiedIsRead ==
  ASSUME ExecutionsInv, NEW x \in Runs, ManifestStands(x), ResultStands(x)
  PROVE  Read(executions[x])
<1>1. PICK e : e = executions[x]
  OBVIOUS
<1>2. e.manifest /\ Complete(e) /\ Sound(e, history)
  BY <1>1, VerifiedIsComplete DEF ExecutionsInv
<1>3. Fits(e.request, history) /\ IsRequest(e.request)
  BY <1>2 DEF Sound, Bound
<1>4. <<e.request.geometry, e.request.definition>> \in Meshable
  BY <1>3, OutcomeOfPair DEF Fits, IsRequest, Meshable
<1> SUFFICES ASSUME NEW i \in DOMAIN e.cases
             PROVE  /\ e.request.fields \ {"reactions"} \subseteq e.cases[i].output.frd.datasets
                    /\ <<e.request.geometry, e.request.definition, e.cases[i].case>> \in Jobs
                    /\ Faithful[<<e.request.geometry, e.request.definition, e.cases[i].case>>]
                    /\ NamesSurvive(Definitions[e.request.definition])
  BY <1>1 DEF Read
<1>5. PICK c : c = e.cases[i]
  OBVIOUS
<1>6. Faithful[Job(x, c.case)] /\ Interpretable(Mesh(x), Definition(x), c.case, e.request.fields, c.output)
  BY <1>1, <1>5 DEF ResultStands, Range, Request
<1>7. c.case \in DOMAIN Definitions[e.request.definition].loads
  BY <1>2, <1>3, <1>5 DEF Complete, Fits, Range
<1>8. Job(x, c.case) = <<e.request.geometry, e.request.definition, c.case>>
  BY <1>1 DEF Job
<1>9. Job(x, c.case) \in Jobs
  <2> DEFINE p == <<e.request.geometry, e.request.definition>>
  <2>1. p \in Meshable /\ p[1] = e.request.geometry /\ p[2] = e.request.definition
    BY <1>4
  <2> HIDE DEF p
  <2>2. Job(x, c.case) \in {<<p[1], p[2], case>> : case \in DOMAIN Definitions[p[2]].loads}
    BY <1>7, <1>8, <2>1
  <2> QED BY <2>1, <2>2 DEF Jobs
<1>10. e.request.fields \ {"reactions"} \subseteq c.output.frd.datasets
  BY <1>3, <1>6 DEF Interpretable, FrdAccepted, FrdFields, IsRequest, ResultFields
<1>11. NamesSurvive(Definitions[e.request.definition])
  <2>1. PICK p \in Meshable : p = <<e.request.geometry, e.request.definition>>
    BY <1>4
  <2>2. MeshAdmitted(Meshes[p]) /\ p[2] = e.request.definition
    BY <1>1, <2>1 DEF ResultStands, Mesh, Request
  <2> QED BY <2>2, AdmittedNamesSurvive
<1> QED BY <1>5, <1>6, <1>8, <1>9, <1>10, <1>11

LEMMA VerifiedIsFounded ==
  ASSUME ExecutionsInv, NEW x \in Runs, Verifiable(x),
         NEW validated, NEW a, a = Analysis(x, validated)
  PROVE  a.run = x /\ Founded(a, executions[x], history[executions[x].request.revision])
<1>1. PICK e, definition : e = executions[x] /\ definition = e.request.definition
  OBVIOUS
<1>2. /\ e.manifest /\ Complete(e) /\ Read(e)
      /\ history[e.request.revision] = definition
  BY <1>1, VerifiedIsComplete, VerifiedIsRead DEF Verifiable
<1>3. PICK mesh, fields, outputs :
        mesh = Mesh(x) /\ fields = e.request.fields /\ outputs = Outputs(x)
  OBVIOUS
<1>4. /\ DOMAIN outputs = {e.cases[i].case : i \in DOMAIN e.cases}
      /\ \A i \in DOMAIN e.cases : outputs[e.cases[i].case] = e.cases[i].output
  BY <1>1, <1>2, <1>3, OutputsAreOfLines
<1>5. PICK d : d = Definitions[definition]
  OBVIOUS
<1>6. a.verdict = Verdict(mesh, d, fields, outputs)
  BY <1>1, <1>3, <1>5 DEF Analysis, Definition, Request
<1>7. definition \in DOMAIN Definitions
  BY <1>1 DEF ExecutionsInv, Sound, Bound, IsRequest
<1>8. /\ d.material.yield \in Nat
      /\ \A c \in d.criteria : c.kind \in {"displacement", "stress"} /\ c.limit \in Nat
  BY <1>5, <1>7, ExecutionAssumption
<1>9. ASSUME NEW c \in d.criteria, Decided(mesh, d, fields, outputs, c)
      PROVE  (Met(d, outputs, c) => Keeps(e, c)) /\ (~Met(d, outputs, c) => Breaks(e, c))
  <2>1. PICK i \in DOMAIN e.cases : e.cases[i].case = c.case
    BY <1>4, <1>9 DEF Decided
  <2>2. PICK frd : frd = e.cases[i].output.frd
    OBVIOUS
  <2>3. frd.displacement \in Nat /\ frd.stress \in Nat
    BY <1>2, <2>2 DEF Complete
  <2>4. outputs[c.case].frd = frd
    BY <1>4, <2>1, <2>2
  <2>5. /\ c.kind \in fields /\ c.consumes \subseteq d.material.trusted
        /\ c.kind = "stress" => Tells(d.material, c)
    BY <1>9 DEF Decided, Eligible, Assessable, Tells
  <2>6. c.kind \in {"displacement", "stress"} /\ c.limit \in Nat /\ d.material.yield \in Nat
    BY <1>8
  <2>7. CASE c.kind = "displacement"
    <3>1. Met(d, outputs, c) <=> frd.displacement <= c.limit
      BY <2>4, <2>7 DEF Met
    <3>2. frd.displacement <= c.limit \/ frd.displacement > c.limit
      BY <2>3, <2>6
    <3> QED BY <1>1, <1>3, <1>5, <2>1, <2>2, <2>5, <2>7, <3>1, <3>2 DEF Keeps, Breaks
  <2>8. CASE c.kind = "stress"
    <3>1. Met(d, outputs, c) <=> frd.stress = 0 \/ d.material.yield >= c.limit * frd.stress
      BY <2>4, <2>8 DEF Met
    <3>2. frd.stress = 0 => c.limit * frd.stress = 0
      BY <2>6
    <3>3. c.limit * frd.stress \in Int
      BY <2>3, <2>6
    <3>4. /\ Met(d, outputs, c) => c.limit * frd.stress <= d.material.yield
          /\ ~Met(d, outputs, c) => c.limit * frd.stress > d.material.yield
      BY <2>6, <3>1, <3>2, <3>3
    <3> QED BY <1>1, <1>3, <1>5, <2>1, <2>2, <2>5, <2>8, <3>4 DEF Keeps, Breaks
  <2> QED BY <2>6, <2>7, <2>8
<1>10. /\ a.verdict = "PASS" => d.criteria # {} /\ \A c \in d.criteria : Keeps(e, c)
       /\ a.verdict = "FAIL" => \E c \in d.criteria : Breaks(e, c)
  BY <1>6, <1>9, VerdictTells
<1>11. a.response # None => a.response = e.cases[1].output.frd.displacement
  <2>1. 1 \in DOMAIN e.cases /\ e.cases[1].case = e.request.cases[1]
    <3>1. IsSeq(e.request.cases) /\ e.request.cases # << >>
      BY <1>1 DEF ExecutionsInv, Sound, Bound, IsRequest
    <3>2. 1 \in DOMAIN e.request.cases
      BY <3>1, Sequence DEF IsSeq
    <3> QED BY <1>2, <3>2 DEF Complete
  <2>2. outputs[e.request.cases[1]] = e.cases[1].output
    BY <1>4, <2>1
  <2>3. PICK output : output = outputs[e.request.cases[1]]
    OBVIOUS
  <2>4. a.response \in {None, TipDisplacement(mesh, fields, output, e.request.policy)}
    BY <1>1, <1>3, <2>3 DEF Analysis, Request
  <2>5. a.response # None => a.response = output.frd.displacement
    BY <2>4 DEF TipDisplacement
  <2> QED BY <2>2, <2>3, <2>5
<1>12. a.run = x
  BY DEF Analysis
<1> QED BY <1>1, <1>2, <1>5, <1>10, <1>11, <1>12 DEF Founded

-----------------------------------------------------------------------------
(* What can be verified: the deck of a job, its mesh, and the files of a   *)
(* solver that wrote every node.                                           *)

\* A region that was found in a mesh is made up of its triangles.
LEMMA SurfaceOfRegion ==
  ASSUME NEW p \in Meshable, NEW id \in RegionNames(Definitions[p[2]])
  PROVE  \E tag \in DOMAIN Bodies[p[1]].skin :
           /\ Surface(Bodies[p[1]], Region(Definitions[p[2]], id)) = Bodies[p[1]].skin[tag]
           /\ Bodies[p[1]].skin[tag] # << >>
           /\ \A i \in DOMAIN Bodies[p[1]].skin[tag] : Len(Bodies[p[1]].skin[tag][i].nodes) = 6
<1>1. Outcome(Bodies[p[1]], Definitions[p[2]]) = "SUCCEEDED"
  BY DEF Meshable, OutcomesOf
<1>2. PICK body, definition : body = Bodies[p[1]] /\ definition = Definitions[p[2]]
  OBVIOUS
<1>3. RegionsMatch(body, definition.regions) /\ MeshIsSound(body, definition)
  BY <1>1, <1>2 DEF Outcome
<1>4. PICK region : region = Region(definition, id)
  OBVIOUS
<1>5. region \in definition.regions
  BY <1>2, <1>4 DEF Region, RegionNames
<1>6. PICK C : C = Candidates(body, body.faces[FaceOf(body, region)])
  OBVIOUS
<1>7. Cardinality(C) = 1 /\ C \subseteq DOMAIN body.skin
  BY <1>3, <1>5, <1>6 DEF RegionsMatch, Candidates
<1>8. C # {}
  BY <1>7, FS_EmptySet
<1>9. PICK tag : tag = CHOOSE t \in C : TRUE
  OBVIOUS
<1>10. tag \in DOMAIN body.skin
  BY <1>7, <1>8, <1>9
<1>11. Surface(body, region) = body.skin[tag]
  BY <1>6, <1>9 DEF Surface
<1>12. body.skin[tag] # << >> /\ \A i \in DOMAIN body.skin[tag] : Len(body.skin[tag][i].nodes) = 6
  BY <1>3, <1>5, <1>11 DEF MeshIsSound
<1> QED BY <1>2, <1>4, <1>10, <1>11, <1>12

\* The nodes of a triangle.
LEMMA NodesOfTriangle ==
  ASSUME NEW g \in DOMAIN Bodies, NEW tag \in DOMAIN Bodies[g].skin,
         NEW i \in DOMAIN Bodies[g].skin[tag], NEW nodes, nodes = Bodies[g].skin[tag][i].nodes
  PROVE  /\ IsSeq(nodes) /\ Range(nodes) \subseteq DOMAIN Bodies[g].nodes
         /\ \A k, l \in 1..3 : k # l => nodes[k] # nodes[l]
  BY BodyAssumption

\* Such a region has nodes of the mesh.
LEMMA RegionHasNodes ==
  ASSUME NEW p \in Meshable, NEW id \in RegionNames(Definitions[p[2]])
  PROVE  /\ NodesOfRegion(Bodies[p[1]], Definitions[p[2]], id) # {}
         /\ NodesOfRegion(Bodies[p[1]], Definitions[p[2]], id) \subseteq DOMAIN Bodies[p[1]].nodes
<1>1. PICK body, definition : body = Bodies[p[1]] /\ definition = Definitions[p[2]]
  OBVIOUS
<1>2. PICK triangles : triangles = Surface(body, Region(definition, id))
  OBVIOUS
<1>3. /\ IsSeq(triangles) /\ triangles # << >>
      /\ \A i \in DOMAIN triangles :
           /\ IsSeq(triangles[i].nodes) /\ Len(triangles[i].nodes) = 6
           /\ Range(triangles[i].nodes) \subseteq DOMAIN body.nodes
  <2>1. p[1] \in DOMAIN Bodies
    BY DEF Meshable, OutcomesOf
  <2>2. PICK tag \in DOMAIN body.skin :
          /\ triangles = body.skin[tag] /\ triangles # << >>
          /\ \A i \in DOMAIN triangles : Len(triangles[i].nodes) = 6
    <3>1. PICK tag \in DOMAIN Bodies[p[1]].skin :
            /\ Surface(Bodies[p[1]], Region(Definitions[p[2]], id)) = Bodies[p[1]].skin[tag]
            /\ Bodies[p[1]].skin[tag] # << >>
            /\ \A i \in DOMAIN Bodies[p[1]].skin[tag] : Len(Bodies[p[1]].skin[tag][i].nodes) = 6
      BY SurfaceOfRegion
    <3> QED BY <1>1, <1>2, <3>1
  <2>3. IsSeq(triangles)
    BY <1>1, <2>1, <2>2, BodyAssumption
  <2>4. \A i \in DOMAIN triangles :
          IsSeq(triangles[i].nodes) /\ Range(triangles[i].nodes) \subseteq DOMAIN body.nodes
    BY <1>1, <2>1, <2>2, NodesOfTriangle
  <2> QED BY <2>2, <2>3, <2>4
<1>4. 1 \in DOMAIN triangles
  BY <1>3, Sequence DEF IsSeq
<1>5. 1 \in DOMAIN triangles[1].nodes
  <2>1. PICK nodes : nodes = triangles[1].nodes
    OBVIOUS
  <2>2. IsSeq(nodes) /\ Len(nodes) = 6
    BY <1>3, <1>4, <2>1
  <2>3. 1 \in DOMAIN nodes
    BY <2>2, Sequence
  <2> QED BY <2>1, <2>3
<1>6. NodesOfRegion(body, definition, id) = UNION {Range(t.nodes) : t \in Range(triangles)}
  BY <1>2 DEF NodesOfRegion, NodesAmong
<1>7. UNION {Range(t.nodes) : t \in Range(triangles)} # {}
  <2>1. triangles[1] \in Range(triangles) /\ triangles[1].nodes[1] \in Range(triangles[1].nodes)
    BY <1>4, <1>5 DEF Range
  <2> QED BY <2>1
<1>8. UNION {Range(t.nodes) : t \in Range(triangles)} \subseteq DOMAIN body.nodes
  <2>1. \A t \in Range(triangles) : Range(t.nodes) \subseteq DOMAIN body.nodes
    <3>1. \A t \in Range(triangles) : \E i \in DOMAIN triangles : t = triangles[i]
      BY DEF Range
    <3> QED BY <1>3, <3>1
  <2> QED BY <2>1
<1> QED BY <1>1, <1>6, <1>7, <1>8

\* What is kept of the mesh of a job.
LEMMA MeshOfPair ==
  ASSUME NEW p \in Meshable
  PROVE  /\ Meshes[p].nodes = DOMAIN Bodies[p[1]].nodes
         /\ DOMAIN Meshes[p].regions = RegionNames(Definitions[p[2]])
         /\ \A id \in RegionNames(Definitions[p[2]]) :
              Meshes[p].regions[id].nodes = NodesOfRegion(Bodies[p[1]], Definitions[p[2]], id)
         /\ NamesSurvive(Definitions[p[2]]) => Meshes[p].groups = RegionNames(Definitions[p[2]])
<1>1. PICK mesh, body, definition :
        mesh = Meshes[p] /\ body = Bodies[p[1]] /\ definition = Definitions[p[2]]
  OBVIOUS
<1>2. mesh = Meshed(body, definition)
  BY <1>1, WorkedOut DEF MeshesOf
<1>3. mesh.nodes = DOMAIN body.nodes
  BY ONLY <1>2 DEF Meshed
<1>4. /\ DOMAIN mesh.regions = RegionNames(definition)
      /\ \A id \in RegionNames(definition) :
           mesh.regions[id].nodes = NodesOfRegion(body, definition, id)
  BY ONLY <1>2 DEF Meshed, NodesOfRegion
<1>5. NamesSurvive(definition) => mesh.groups = RegionNames(definition)
  <2>1. mesh.groups = {Elset[id] : id \in RegionNames(definition)} \intersect RegionNames(definition)
    BY ONLY <1>2 DEF Meshed
  <2> QED BY <2>1 DEF NamesSurvive
<1> QED BY <1>1, <1>3, <1>4, <1>5

\* Where no triangle of a mesh is flat, none of a region is.
LEMMA NoRegionIsFlat ==
  ASSUME NEW p \in Meshable, NoneFlat(Bodies[p[1]]), NEW id \in RegionNames(Definitions[p[2]])
  PROVE  ~Meshes[p].regions[id].flat
<1>1. PICK mesh, body, definition :
        mesh = Meshes[p] /\ body = Bodies[p[1]] /\ definition = Definitions[p[2]]
  OBVIOUS
<1>2. mesh = Meshed(body, definition)
  BY <1>1, WorkedOut DEF MeshesOf
<1>3. PICK T : T = Surface(body, Region(definition, id))
  OBVIOUS
<1>4. mesh.regions[id].flat => \E i \in DOMAIN T : Areas(body, T)[i] = 0
  <2>1. id \in RegionNames(definition)
    BY <1>1
  <2> QED BY ONLY <1>2, <1>3, <2>1 DEF Meshed
<1>5. PICK tag \in DOMAIN body.skin : T = body.skin[tag]
  BY <1>1, <1>3, SurfaceOfRegion
<1>6. \A i \in DOMAIN T : Areas(body, T)[i] > 0
  BY <1>1, <1>5 DEF NoneFlat
<1> QED BY <1>1, <1>4, <1>6

\* Supports of regions all different have a node set each, in order.
LEMMA FixedInOrder ==
  ASSUME NEW definition, NEW case, IsSeq(Supports(definition, case)),
         \A i, j \in DOMAIN Supports(definition, case) :
           i # j => Supports(definition, case)[i].region # Supports(definition, case)[j].region
  PROVE  FixedRegions(definition, case)
           = [i \in DOMAIN Supports(definition, case) |-> Supports(definition, case)[i].region]
<1>1. PICK supports : supports = Supports(definition, case)
  OBVIOUS
<1> DEFINE n == Len(supports)
           firsts == {i \in DOMAIN supports :
                        \A j \in DOMAIN supports : j < i => supports[j].region # supports[i].region}
           place(k) == CHOOSE i \in firsts : Cardinality({j \in firsts : j <= i}) = k
<1>2. n \in Nat /\ DOMAIN supports = 1..n
  BY <1>1, Sequence
<1>3. firsts = 1..n
  BY <1>1, <1>2
<1>4. FixedRegions(definition, case) = [k \in 1..Cardinality(firsts) |-> supports[place(k)].region]
  BY <1>1 DEF FixedRegions
<1> HIDE DEF n, firsts
<1>5. Cardinality(firsts) = n
  BY <1>2, <1>3, FS_Interval
<1>6. ASSUME NEW i \in 1..n
      PROVE  Cardinality({j \in firsts : j <= i}) = i
  <2>1. {j \in firsts : j <= i} = 1..i
    BY <1>2, <1>3
  <2>2. i \in Int /\ i >= 1
    BY <1>2
  <2>3. Cardinality(1..i) = i
    BY <2>2, FS_Interval
  <2> QED BY <2>1, <2>3
<1>7. ASSUME NEW k \in 1..n
      PROVE  place(k) = k
  <2>1. \A i \in firsts : Cardinality({j \in firsts : j <= i}) = k <=> i = k
    BY <1>3, <1>6
  <2> QED BY <1>3, <2>1
<1> HIDE DEF place
<1>8. [k \in 1..n |-> supports[place(k)].region] = [k \in 1..n |-> supports[k].region]
  BY <1>7
<1> QED BY <1>1, <1>2, <1>4, <1>5, <1>8

\* The DAT file of a solver that was given the deck of a job is accepted where no two
\* supports of the job meet, and the parser takes their names.
LEMMA DatStands ==
  ASSUME NEW p \in Meshable, NEW case \in DOMAIN Definitions[p[2]].loads,
         Buildable(Bodies[p[1]], Definitions[p[2]], case),
         NamesSurvive(Definitions[p[2]]), NoneFlat(Bodies[p[1]]),
         Reported(Meshes[p], Supports(Definitions[p[2]], case))
  PROVE  DatAccepted(Meshes[p], Definitions[p[2]], case,
                     Deck(Bodies[p[1]], Definitions[p[2]], case).sets)
<1>1. PICK body, definition, mesh :
        body = Bodies[p[1]] /\ definition = Definitions[p[2]] /\ mesh = Meshes[p]
  OBVIOUS
<1>2. PICK supports : supports = Supports(definition, case)
  OBVIOUS
<1>3. /\ IsSeq(supports)
      /\ \A i \in DOMAIN supports : supports[i].region \in RegionNames(definition)
  <2>1. p[2] \in DOMAIN Definitions
    BY DEF Meshable, OutcomesOf
  <2> QED BY <1>1, <1>2, <2>1, DefinitionAssumption DEF Range
<1>4. \A id \in RegionNames(definition) :
        mesh.regions[id].nodes = NodesOfRegion(body, definition, id) /\ mesh.regions[id].nodes # {}
  BY <1>1, MeshOfPair, RegionHasNodes
<1>5. \A i, j \in DOMAIN supports : i # j =>
        mesh.regions[supports[i].region].nodes \intersect mesh.regions[supports[j].region].nodes = {}
  BY <1>1, <1>2 DEF Reported
<1>6. \A i, j \in DOMAIN supports : i # j => supports[i].region # supports[j].region
  BY <1>3, <1>4, <1>5
<1>7. PICK fixed : fixed = FixedRegions(definition, case)
  OBVIOUS
<1>8. fixed = [i \in DOMAIN supports |-> supports[i].region]
  BY <1>2, <1>3, <1>6, <1>7, FixedInOrder
<1>9. PICK dat : dat = Deck(body, definition, case).sets
  OBVIOUS
<1>10. dat = [i \in DOMAIN fixed |->
                [region |-> fixed[i], nodes |-> NodesAmong(Extracted(body, definition, fixed[i]))]]
  BY <1>7, <1>9 DEF Deck
<1>0. \A id \in RegionNames(definition) :
        NodesAmong(Extracted(body, definition, id)) = NodesOfRegion(body, definition, id)
  BY <1>1, ExtractedAsItIs DEF NodesOfRegion
<1>11. /\ DOMAIN dat = DOMAIN supports /\ DOMAIN fixed = DOMAIN supports
       /\ \A i \in DOMAIN supports :
            /\ dat[i].region = fixed[i] /\ fixed[i] = supports[i].region
            /\ dat[i].nodes = mesh.regions[supports[i].region].nodes
  BY <1>0, <1>3, <1>4, <1>8, <1>10
<1>12. IsInjective(fixed)
  BY <1>6, <1>11 DEF IsInjective
<1>13. [i \in DOMAIN dat |-> dat[i].region] = fixed
  BY <1>8, <1>11
<1>14. ASSUME NEW i \in DOMAIN dat, NEW j \in DOMAIN dat, i # j
       PROVE  dat[i].nodes \intersect dat[j].nodes = {}
  <2>1. i \in DOMAIN supports /\ j \in DOMAIN supports
    BY <1>11
  <2>2. /\ dat[i].nodes = mesh.regions[supports[i].region].nodes
        /\ dat[j].nodes = mesh.regions[supports[j].region].nodes
    BY <1>11, <2>1
  <2> QED BY <1>5, <1>14, <2>1, <2>2
<1>15. UNION {dat[i].nodes : i \in DOMAIN dat} = UNION {mesh.regions[id].nodes : id \in Range(fixed)}
  <2>1. \A i \in DOMAIN dat : dat[i].nodes = mesh.regions[fixed[i]].nodes
    BY <1>11
  <2>2. {dat[i].nodes : i \in DOMAIN dat} = {mesh.regions[id].nodes : id \in Range(fixed)}
    BY <1>11, <2>1 DEF Range
  <2> QED BY <2>2
<1>16. Range(fixed) \subseteq Printed
  BY <1>1, <1>2, <1>11 DEF Reported, Range
<1>17. \A id \in Range(fixed) : ~mesh.regions[id].flat
  BY <1>1, <1>3, <1>11, NoRegionIsFlat DEF Range
<1>18. DatAccepted(mesh, definition, case, dat)
  BY <1>2, <1>8, <1>12, <1>13, <1>14, <1>15, <1>16, <1>17 DEF DatAccepted
<1> QED BY <1>1, <1>9, <1>18

\* An FRD file with the fields asked for, at every node of the mesh, is accepted.
LEMMA FrdStands ==
  ASSUME NEW p \in Meshable, NEW case, NEW fields, NEW frd,
         frd.datasets = fields \intersect FrdFields, frd.nodes = DOMAIN Bodies[p[1]].nodes
  PROVE  FrdAccepted(Meshes[p], Definitions[p[2]], case, fields, frd)
<1>1. PICK definition, mesh : definition = Definitions[p[2]] /\ mesh = Meshes[p]
  OBVIOUS
<1>2. \A c \in definition.criteria : c.region \in RegionNames(definition)
  <2>1. p[2] \in DOMAIN Definitions
    BY DEF Meshable, OutcomesOf
  <2> QED BY <1>1, <2>1, DefinitionAssumption
<1>3. ASSUME NEW id \in RegionNames(definition)
      PROVE  mesh.regions[id].nodes \subseteq frd.nodes
  <2>1. mesh.regions[id].nodes = NodesOfRegion(Bodies[p[1]], definition, id)
    BY <1>1, MeshOfPair
  <2>2. NodesOfRegion(Bodies[p[1]], definition, id) \subseteq frd.nodes
    BY <1>1, RegionHasNodes
  <2> QED BY <2>1, <2>2
<1>4. AssessmentNodes(mesh, definition, case) \subseteq frd.nodes
  BY <1>2, <1>3 DEF AssessmentNodes
<1>5. mesh.nodes = frd.nodes
  BY <1>1, MeshOfPair
<1> QED BY <1>1, <1>4, <1>5 DEF FrdAccepted

\* Twice the area of a triangle, by its corners.
Double(u, v, w) == Norm(Cross(Minus(v, u), Minus(w, u)))

LEMMA Turned ==
  ASSUME NEW a \in Int, NEW b \in Int, NEW c \in Int, NEW d \in Int, NEW e \in Int, NEW f \in Int
  PROVE  (a - c) * (f - d) - (b - d) * (e - c) = -((c - a) * (f - b) - (d - b) * (e - a))
  OBVIOUS

LEMMA Swapped ==
  ASSUME NEW a \in Int, NEW b \in Int, NEW c \in Int, NEW d \in Int, NEW e \in Int, NEW f \in Int
  PROVE  (e - a) * (d - b) - (f - b) * (c - a) = -((c - a) * (f - b) - (d - b) * (e - a))
  OBVIOUS

LEMMA SizeOfOpposite ==
  ASSUME NEW m \in Int, NEW n \in Int, m = -n
  PROVE  Size(m) = Size(n)
  BY DEF Size

LEMMA DoubleIsSymmetric ==
  ASSUME NEW u \in [Axes -> Int], NEW v \in [Axes -> Int], NEW w \in [Axes -> Int]
  PROVE  Double(v, u, w) = Double(u, v, w) /\ Double(u, w, v) = Double(u, v, w)
<1> DEFINE part(p, q, r, i, j) == (q[i] - p[i]) * (r[j] - p[j]) - (q[j] - p[j]) * (r[i] - p[i])
<1>1. ASSUME NEW p \in [Axes -> Int], NEW q \in [Axes -> Int], NEW r \in [Axes -> Int]
      PROVE  Double(p, q, r) = Size(part(p, q, r, 2, 3)) + Size(part(p, q, r, 3, 1))
                                 + Size(part(p, q, r, 1, 2))
  BY DEF Double, Norm, Cross, Minus, Axes
<1>2. \A i \in Axes : u[i] \in Int /\ v[i] \in Int /\ w[i] \in Int
  OBVIOUS
<1>3. ASSUME NEW i \in Axes, NEW j \in Axes
      PROVE  /\ part(u, v, w, i, j) \in Int /\ part(v, u, w, i, j) \in Int /\ part(u, w, v, i, j) \in Int
             /\ part(v, u, w, i, j) = -part(u, v, w, i, j)
             /\ part(u, w, v, i, j) = -part(u, v, w, i, j)
  <2>1. part(v, u, w, i, j) = -part(u, v, w, i, j)
    BY <1>2, Turned
  <2>2. part(u, w, v, i, j) = -part(u, v, w, i, j)
    BY <1>2, Swapped
  <2> QED BY <1>2, <2>1, <2>2
<1> HIDE DEF part
<1>4. \A i, j \in Axes : Size(part(v, u, w, i, j)) = Size(part(u, v, w, i, j))
                         /\ Size(part(u, w, v, i, j)) = Size(part(u, v, w, i, j))
  BY <1>3, SizeOfOpposite
<1> QED BY <1>1, <1>4 DEF Axes

LEMMA PlusIsSymmetric ==
  ASSUME NEW u \in [Axes -> Int], NEW v \in [Axes -> Int], NEW w \in [Axes -> Int]
  PROVE  Plus(v, Plus(u, w)) = Plus(u, Plus(v, w)) /\ Plus(u, Plus(w, v)) = Plus(u, Plus(v, w))
  BY DEF Plus

\* The area and the centre of a triangle do not depend on the order of its corners.
LEMMA SameTriangle ==
  ASSUME NEW body, \A n \in DOMAIN body.nodes : body.nodes[n] \in [Axes -> Int],
         NEW s, NEW t, Corners(s) = Corners(t), Corners(t) \subseteq DOMAIN body.nodes,
         \A k, l \in 1..3 : k # l => t.nodes[k] # t.nodes[l]
  PROVE  AreaOf(body, s) = AreaOf(body, t) /\ CentreOf(body, s) = CentreOf(body, t)
<1> DEFINE at(n) == body.nodes[n]
           sum(a, b, c) == Plus(at(a), Plus(at(b), at(c)))
           size(a, b, c) == Double(at(a), at(b), at(c))
<1>1. \A x : AreaOf(body, x) = size(x.nodes[1], x.nodes[2], x.nodes[3])
             /\ CentreOf(body, x) = sum(x.nodes[1], x.nodes[2], x.nodes[3])
  BY DEF AreaOf, CrossOf, CentreOf, Double
<1>2. \A x : Corners(x) = {x.nodes[1], x.nodes[2], x.nodes[3]}
  BY DEF Corners
<1>3. \A a, b, c \in Corners(t) :
        /\ size(b, a, c) = size(a, b, c) /\ size(a, c, b) = size(a, b, c)
        /\ sum(b, a, c) = sum(a, b, c) /\ sum(a, c, b) = sum(a, b, c)
  BY DoubleIsSymmetric, PlusIsSymmetric
<1> HIDE DEF sum, size
<1>4. PICK a, b, c : a = t.nodes[1] /\ b = t.nodes[2] /\ c = t.nodes[3]
  OBVIOUS
<1>5. PICK x, y, z : x = s.nodes[1] /\ y = s.nodes[2] /\ z = s.nodes[3]
  OBVIOUS
<1>6. a # b /\ a # c /\ b # c /\ Corners(t) = {a, b, c} /\ {x, y, z} = {a, b, c}
  <2>1. 1 \in 1..3 /\ 2 \in 1..3 /\ 3 \in 1..3
    OBVIOUS
  <2>2. a # b /\ a # c /\ b # c
    BY <1>4, <2>1
  <2> QED BY <1>2, <1>4, <1>5, <2>2
<1>7. \/ x = a /\ y = b /\ z = c
      \/ x = a /\ y = c /\ z = b
      \/ x = b /\ y = a /\ z = c
      \/ x = b /\ y = c /\ z = a
      \/ x = c /\ y = a /\ z = b
      \/ x = c /\ y = b /\ z = a
  <2>1. x \in {a, b, c} /\ y \in {a, b, c} /\ z \in {a, b, c}
    BY ONLY <1>6
  <2>2. a \in {x, y, z} /\ b \in {x, y, z} /\ c \in {x, y, z}
    BY ONLY <1>6
  <2>3. x # y /\ x # z /\ y # z
    BY ONLY <1>6, <2>1, <2>2
  <2> QED BY ONLY <1>6, <2>1, <2>3
<1>8. size(x, y, z) = size(a, b, c) /\ sum(x, y, z) = sum(a, b, c)
  BY <1>3, <1>6, <1>7
<1> QED BY <1>1, <1>4, <1>5, <1>8

\* The faces of tetrahedra that triangles are mapped to have their areas and centres.
LEMMA SeenAlike ==
  ASSUME NEW body, \A n \in DOMAIN body.nodes : body.nodes[n] \in [Axes -> Int],
         NEW triangles, Mappable(body, triangles),
         \A i \in DOMAIN triangles :
           /\ Corners(triangles[i]) \subseteq DOMAIN body.nodes
           /\ \A k, l \in 1..3 : k # l => triangles[i].nodes[k] # triangles[i].nodes[l]
  PROVE  LET seen == Seen(body, Mapped(body, triangles))
         IN  /\ Areas(body, seen) = Areas(body, triangles)
             /\ Moment(body, seen) = Moment(body, triangles)
<1>1. PICK places, seen : places = Mapped(body, triangles) /\ seen = Seen(body, places)
  OBVIOUS
<1>2. DOMAIN places = DOMAIN triangles /\ DOMAIN seen = DOMAIN triangles
      /\ \A i \in DOMAIN triangles : seen[i] = [nodes |-> NodesOf(body, places[i])]
  BY <1>1 DEF Mapped, Seen
<1>3. ASSUME NEW i \in DOMAIN triangles
      PROVE  AreaOf(body, seen[i]) = AreaOf(body, triangles[i])
             /\ CentreOf(body, seen[i]) = CentreOf(body, triangles[i])
  <2>1. PICK P, t : P = Places(body, triangles[i]) /\ t = triangles[i]
    OBVIOUS
  <2>2. Cardinality(P) = 1
    BY <2>1 DEF Mappable
  <2>3. P # {}
    BY <2>2, FS_EmptySet
  <2>4. places[i] \in P
    <3>1. places[i] = CHOOSE p \in P : TRUE
      BY <1>1, <2>1 DEF Mapped
    <3> QED BY <2>3, <3>1
  <2>5. {NodesOf(body, places[i])[k] : k \in 1..3} = Corners(t)
    BY <2>1, <2>4 DEF Places
  <2>6. Corners(seen[i]) = Corners(t)
    BY <1>2, <2>5 DEF Corners
  <2> QED BY <2>1, <2>6, SameTriangle
<1>4. Areas(body, seen) = Areas(body, triangles)
  BY <1>2, <1>3 DEF Areas
<1>5. Moment(body, seen) = Moment(body, triangles)
  <2>1. [i \in DOMAIN seen |-> Times(AreaOf(body, seen[i]), CentreOf(body, seen[i]))]
          = [i \in DOMAIN triangles |-> Times(AreaOf(body, triangles[i]), CentreOf(body, triangles[i]))]
    BY <1>2, <1>3
  <2> QED BY <2>1 DEF Moment
<1> QED BY <1>1, <1>4, <1>5

\* The deck of a job verifies where the kernel and the mesh agree on the areas, and no
\* triangle is flat.
LEMMA DeckIsVerified ==
  ASSUME NEW p \in Meshable, NEW case \in DOMAIN Definitions[p[2]].loads,
         Buildable(Bodies[p[1]], Definitions[p[2]], case), NamesSurvive(Definitions[p[2]]),
         AreasAgree(Meshes[p]), NoneFlat(Bodies[p[1]])
  PROVE  DeckVerifies(Bodies[p[1]], Definitions[p[2]], case,
                      Deck(Bodies[p[1]], Definitions[p[2]], case))
<1>1. PICK body, definition : body = Bodies[p[1]] /\ definition = Definitions[p[2]]
  OBVIOUS
<1>2. p[1] \in DOMAIN Bodies /\ p[2] \in DOMAIN Definitions
  BY DEF Meshable, OutcomesOf
<1>3. PICK loads, nodals, deck :
        /\ loads = Resultants(definition, case) /\ nodals = Nodals(body, definition, case)
        /\ deck = Deck(body, definition, case)
  OBVIOUS
<1> DEFINE region(i) == Region(definition, loads[i].region)
           triangles(i) == Surface(body, region(i))
           places(i) == deck.surfaces[loads[i].region]
           share(i) == body.faces[FaceOf(body, region(i))].area
           lowered(i) == Lowered(body, definition, loads[i], SubSeq(nodals, 1, i - 1))
<1>4. /\ IsSeq(loads)
      /\ \A i \in DOMAIN loads :
           loads[i].region \in RegionNames(definition) \intersect LoadedRegions(definition, case)
  BY <1>1, <1>2, <1>3, DefinitionAssumption DEF Range
<1>5. Len(loads) \in Nat /\ DOMAIN loads = 1..Len(loads)
  BY <1>4, Sequence
<1>6. deck.lowered = [i \in DOMAIN loads |-> lowered(i)] /\ deck.forces = Together(nodals)
  BY <1>3 DEF Deck, LoweredLoads
<1>7. nodals = [i \in DOMAIN loads |-> NodalForces(body, definition, loads[i])]
  BY <1>3 DEF Nodals
<1>0. ASSUME NEW i \in DOMAIN loads
      PROVE  /\ Extracted(body, definition, loads[i].region) = triangles(i)
             /\ Under(body, definition, loads[i]) = triangles(i)
             /\ Observed(body, definition, loads[i]) = share(i)
  <2>1. Extracted(body, definition, loads[i].region) = triangles(i)
    BY <1>1, <1>4, ExtractedAsItIs
  <2> QED BY <2>1 DEF Under, Observed
<1>8. ASSUME NEW i \in DOMAIN loads
      PROVE  /\ Mappable(body, triangles(i)) /\ places(i) = Mapped(body, triangles(i))
             /\ lowered(i).conserved
  <2>1. places(i) = Mapped(body, triangles(i))
    BY <1>0, <1>3, <1>4 DEF Deck
  <2>2. Mappable(body, triangles(i))
    BY <1>0, <1>1, <1>4 DEF Buildable
  <2>3. lowered(i) \in Range(LoweredLoads(body, definition, case))
    <3>1. LoweredLoads(body, definition, case) = deck.lowered
      BY <1>3 DEF Deck
    <3> HIDE DEF lowered
    <3> QED BY <1>6, <3>1 DEF Range
  <2> HIDE DEF lowered
  <2> QED BY <1>1, <2>1, <2>2, <2>3 DEF Buildable
<1>9. ASSUME NEW i \in DOMAIN loads
      PROVE  /\ Areas(body, Seen(body, places(i))) = Areas(body, triangles(i))
             /\ Moment(body, Seen(body, places(i))) = Moment(body, triangles(i))
             /\ \A k \in DOMAIN places(i) : Areas(body, triangles(i))[k] > 0
  <2>1. PICK tag \in DOMAIN body.skin :
          /\ triangles(i) = body.skin[tag]
          /\ \A k \in DOMAIN body.skin[tag] : Len(body.skin[tag][k].nodes) = 6
    BY <1>1, <1>4, SurfaceOfRegion
  <2>2. PICK T : T = triangles(i)
    OBVIOUS
  <2>3. ASSUME NEW k \in DOMAIN T
        PROVE  /\ Corners(T[k]) \subseteq DOMAIN body.nodes
               /\ \A l, m \in 1..3 : l # m => T[k].nodes[l] # T[k].nodes[m]
    <3>1. PICK nodes : nodes = T[k].nodes
      OBVIOUS
    <3>2. /\ IsSeq(nodes) /\ Len(nodes) = 6 /\ Range(nodes) \subseteq DOMAIN body.nodes
          /\ \A l, m \in 1..3 : l # m => nodes[l] # nodes[m]
      <4>1. T = body.skin[tag] /\ Len(nodes) = 6
        BY <2>1, <2>2, <3>1
      <4>2. nodes = Bodies[p[1]].skin[tag][k].nodes /\ k \in DOMAIN Bodies[p[1]].skin[tag]
        BY <1>1, <3>1, <4>1
      <4>3. /\ IsSeq(nodes) /\ Range(nodes) \subseteq DOMAIN Bodies[p[1]].nodes
            /\ \A l, m \in 1..3 : l # m => nodes[l] # nodes[m]
        <5>1. PICK g \in DOMAIN Bodies : g = p[1]
          BY <1>2
        <5>2. body = Bodies[g] /\ tag \in DOMAIN Bodies[g].skin
          BY <1>1, <2>1, <5>1
        <5>3. nodes = Bodies[g].skin[tag][k].nodes /\ k \in DOMAIN Bodies[g].skin[tag]
          BY <4>2, <5>1
        <5>4. /\ IsSeq(nodes) /\ Range(nodes) \subseteq DOMAIN Bodies[g].nodes
              /\ \A l, m \in 1..3 : l # m => nodes[l] # nodes[m]
          BY <5>2, <5>3, NodesOfTriangle
        <5> QED BY <5>1, <5>4
      <4> QED BY <1>1, <4>1, <4>3
    <3>3. DOMAIN nodes = 1..6
      BY <3>2, Sequence
    <3> QED BY <3>1, <3>2, <3>3 DEF Corners, Range
  <2>4. \A n \in DOMAIN body.nodes : body.nodes[n] \in [Axes -> Int]
    BY <1>1, <1>2, BodyAssumption
  <2>5. Mappable(body, T) /\ places(i) = Mapped(body, T)
    BY <1>8, <2>2
  <2>6. \A k \in DOMAIN T : Areas(body, T)[k] > 0
    BY <1>1, <2>1, <2>2 DEF NoneFlat
  <2>7. DOMAIN places(i) = DOMAIN T
    BY <2>5 DEF Mapped
  <2> QED BY <2>2, <2>3, <2>4, <2>5, <2>6, <2>7, SeenAlike
<1>10. ASSUME NEW i \in DOMAIN loads
       PROVE  share(i) = Area(body, triangles(i))
  <2>1. PICK mesh, id : mesh = Meshes[p] /\ id = loads[i].region
    OBVIOUS
  <2>2. mesh = Meshed(body, definition) /\ id \in RegionNames(definition)
    BY <1>1, <1>4, <2>1, WorkedOut DEF MeshesOf
  <2>3. /\ id \in DOMAIN mesh.regions
        /\ mesh.regions[id].area = Area(body, triangles(i)) /\ mesh.regions[id].observed = share(i)
    BY <2>1, <2>2 DEF Meshed
  <2> QED BY <2>1, <2>3 DEF AreasAgree
<1>11. ASSUME NEW i \in DOMAIN loads
       PROVE  ForcesSeen(body, places(i), loads[i], share(i)) = nodals[i]
  <2>1. nodals[i] = Spread(body, Areas(body, triangles(i)), Mapped(body, triangles(i)),
                           loads[i].force, share(i))
    BY <1>0, <1>7 DEF NodalForces
  <2> QED BY <1>8, <1>9, <2>1 DEF ForcesSeen
<1>12. ASSUME NEW i \in DOMAIN loads
       PROVE  Agrees(body, region(i), places(i), loads[i], share(i))
  <2>1. share(i) = Area(body, Seen(body, places(i)))
    BY <1>9, <1>10 DEF Area
  <2>2. Conserved(body, triangles(i), loads[i].force, nodals[i])
    BY <1>0, <1>7, <1>8 DEF Lowered
  <2>3. Conserved(body, Seen(body, places(i)), loads[i].force, nodals[i])
    BY <1>9, <2>2 DEF Conserved, Area
  <2> QED BY <1>8, <1>9, <1>11, <2>1, <2>3 DEF Agrees
<1>13. ASSUME NEW i \in DOMAIN loads
       PROVE  /\ deck.lowered[i].load = loads[i] /\ deck.lowered[i].area = share(i)
              /\ deck.lowered[i].forces = Together(SubSeq(nodals, 1, i))
  <2>1. deck.lowered[i].load = loads[i] /\ deck.lowered[i].area = share(i)
        /\ deck.lowered[i].forces = Together(Append(SubSeq(nodals, 1, i - 1), nodals[i]))
    BY <1>0, <1>6, <1>7 DEF Lowered
  <2>2. Append(SubSeq(nodals, 1, i - 1), nodals[i]) = SubSeq(nodals, 1, i)
    <3> DEFINE S == {nodals[k] : k \in DOMAIN loads}
    <3>1. nodals \in Seq(S) /\ Len(nodals) = Len(loads) /\ i \in 1..Len(loads)
      BY <1>5, <1>7
    <3> HIDE DEF S
    <3> QED BY <1>5, <3>1
  <2> QED BY <2>1, <2>2
<1>14. [i \in DOMAIN loads |-> ForcesSeen(body, places(i), loads[i], deck.lowered[i].area)] = nodals
  BY <1>7, <1>11, <1>13
<1>15. Len(deck.lowered) = Len(loads)
  <2> HIDE DEF lowered
  <2>1. deck.lowered \in Seq({lowered(i) : i \in DOMAIN loads})
    BY <1>5, <1>6
  <2> QED BY <1>5, <1>6, <2>1
<1>16. DeckVerifies(body, definition, case, deck)
  BY <1>3, <1>6, <1>12, <1>13, <1>14, <1>15 DEF DeckVerifies
<1> QED BY <1>1, <1>3, <1>16

\* An execution that succeeded has a line for every case, and what a solver leaves that
\* succeeds in each.
LEMMA SucceededIsComplete ==
  ASSUME NEW e, Sound(e, history), e.manifest, e.status = "SUCCEEDED"
  PROVE  /\ DOMAIN e.cases = DOMAIN e.request.cases
         /\ \A i \in DOMAIN e.cases :
              /\ e.cases[i].case = e.request.cases[i] /\ e.cases[i].status = "SUCCEEDED"
              /\ DeckOf(e.request, e.cases[i].case) # None
              /\ Left(e.cases[i].output, e.request.fields, DeckOf(e.request, e.cases[i].case))
<1>1. InOrder(e) /\ Whole(e) /\ e.cases[Len(e.cases)].status = "SUCCEEDED"
  BY DEF Sound, InOrder
<1>2. /\ Len(e.cases) = Len(e.request.cases) /\ DOMAIN e.cases = 1..Len(e.cases)
      /\ DOMAIN e.request.cases = 1..Len(e.request.cases) /\ Len(e.cases) \in Nat
  BY <1>1, Sequence DEF Whole, InOrder, Sound, Bound, IsRequest
<1>3. \A i \in DOMAIN e.cases : e.cases[i].status = "SUCCEEDED"
  BY <1>1, <1>2 DEF InOrder
<1> QED BY <1>1, <1>2, <1>3 DEF InOrder, Wrote

\* Such an execution can be verified.
LEMMA SucceededIsAdmissible ==
  ASSUME ExecutionsInv, NEW x \in Runs,
         executions[x].manifest, executions[x].status = "SUCCEEDED",
         \A d \in damaged : d[1] # x /\ d # <<0, Request(x).geometry>>,
         copies[Request(x).geometry] = 1,
         Genuine(Request(x)), NamesSurvive(Definition(x)),
         AreasAgree(Mesh(x)), NoneFlat(Body(x)),
         \A c \in Lines(x) : c.output.frd.nodes = DOMAIN Body(x).nodes,
         "reactions" \in Request(x).fields =>
           \A c \in Lines(x) : Reported(Mesh(x), Supports(Definition(x), c.case))
  PROVE  Verifiable(x)
<1>1. PICK e : e = executions[x]
  OBVIOUS
<1>2. Sound(e, history) /\ e.manifest /\ e.status = "SUCCEEDED"
  BY <1>1 DEF ExecutionsInv
<1>3. /\ DOMAIN e.cases = DOMAIN e.request.cases
      /\ \A i \in DOMAIN e.cases :
           /\ e.cases[i].case = e.request.cases[i] /\ e.cases[i].status = "SUCCEEDED"
           /\ DeckOf(e.request, e.cases[i].case) # None
           /\ Left(e.cases[i].output, e.request.fields, DeckOf(e.request, e.cases[i].case))
  BY <1>2, SucceededIsComplete
<1>4. Fits(e.request, history) /\ IsRequest(e.request)
  BY <1>2 DEF Sound, Bound
<1>5. ManifestStands(x)
  <2>1. [i \in DOMAIN e.cases |-> e.cases[i].case] = e.request.cases
    <3>1. e.request.cases = [i \in DOMAIN e.request.cases |-> e.request.cases[i]]
      BY <1>4 DEF IsRequest, IsSeq
    <3> QED BY <1>3, <3>1
  <2>2. \A c \in Range(e.cases) : c.status = "SUCCEEDED" /\ c.output.exit = 0 /\ c.output.finished
    BY <1>3 DEF Range, Left
  <2> QED BY <1>1, <1>2, <1>4, <2>1, <2>2 DEF ManifestStands, Fits
<1>6. ArtifactsStand(x)
  BY DEF ArtifactsStand, StepReadable, Intact
<1>7. MeshAdmitted(Mesh(x))
  <2>1. PICK p \in Meshable : p = <<e.request.geometry, e.request.definition>>
    BY <1>4, OutcomeOfPair DEF Fits, IsRequest, Meshable
  <2>2. Mesh(x) = Meshes[p] /\ NamesSurvive(Definitions[p[2]])
    BY <1>1, <2>1 DEF Mesh, Definition, Request
  <2>3. /\ DOMAIN Meshes[p].regions = RegionNames(Definitions[p[2]])
        /\ Meshes[p].groups = RegionNames(Definitions[p[2]])
        /\ \A id \in RegionNames(Definitions[p[2]]) : Meshes[p].regions[id].nodes # {}
    <3>1. /\ DOMAIN Meshes[p].regions = RegionNames(Definitions[p[2]])
          /\ Meshes[p].groups = RegionNames(Definitions[p[2]])
      BY <2>2, MeshOfPair
    <3>2. ASSUME NEW id \in RegionNames(Definitions[p[2]])
          PROVE  Meshes[p].regions[id].nodes # {}
      <4>1. Meshes[p].regions[id].nodes = NodesOfRegion(Bodies[p[1]], Definitions[p[2]], id)
        BY MeshOfPair
      <4>2. NodesOfRegion(Bodies[p[1]], Definitions[p[2]], id) # {}
        BY RegionHasNodes
      <4> QED BY <4>1, <4>2
    <3> QED BY <3>1, <3>2
  <2> QED BY <2>2, <2>3 DEF MeshAdmitted
<1>8. ASSUME NEW i \in DOMAIN e.cases
      PROVE  /\ Faithful[Job(x, e.cases[i].case)]
             /\ Interpretable(Mesh(x), Definition(x), e.cases[i].case,
                              e.request.fields, e.cases[i].output)
  <2>1. PICK p : p = <<e.request.geometry, e.request.definition>>
    OBVIOUS
  <2>2. p \in Meshable /\ p[1] = e.request.geometry /\ p[2] = e.request.definition
    BY <1>4, <2>1, OutcomeOfPair DEF Fits, IsRequest, Meshable
  <2>3. /\ Mesh(x) = Meshes[p] /\ Definition(x) = Definitions[p[2]] /\ Body(x) = Bodies[p[1]]
        /\ Request(x) = e.request
    BY <1>1, <2>1, <2>2 DEF Mesh, Definition, Body, Request
  <2>4. PICK case, output, fields :
          case = e.cases[i].case /\ output = e.cases[i].output /\ fields = e.request.fields
    OBVIOUS
  <2>5. case \in DOMAIN Definitions[p[2]].loads
    BY <1>3, <1>4, <2>2, <2>4 DEF Fits, Range
  <2>6. PICK j : j = <<e.request.geometry, e.request.definition, case>>
    OBVIOUS
  <2>7. j \in Jobs
    <3>1. j \in {<<p[1], p[2], c>> : c \in DOMAIN Definitions[p[2]].loads}
      BY <2>2, <2>5, <2>6
    <3> QED BY <2>2, <3>1 DEF Jobs
  <2>8. Job(x, case) = j /\ DeckOf(e.request, case) = Decks[j] /\ Decks[j] # None
        /\ Left(output, fields, Decks[j])
    BY <1>1, <1>3, <2>4, <2>6 DEF Job, DeckOf
  <2>9. /\ Buildable(Bodies[p[1]], Definitions[p[2]], case)
        /\ Decks[j] = Deck(Bodies[p[1]], Definitions[p[2]], case)
    <3>1. j[1] = p[1] /\ j[2] = p[2] /\ j[3] = case
      BY <2>2, <2>6
    <3> QED BY <2>7, <2>8, <3>1, WorkedOut DEF DecksOf
  <2>10. e.cases[i] \in Lines(x)
    BY <1>1 DEF Lines
  <2>11. FrdAccepted(Meshes[p], Definitions[p[2]], case, fields, output.frd)
    <3>1. PICK frd : frd = output.frd
      OBVIOUS
    <3>2. frd.datasets = fields \intersect FrdFields
      BY <2>8, <3>1 DEF Left
    <3>3. frd.nodes = DOMAIN Bodies[p[1]].nodes
      BY <2>3, <2>4, <2>10, <3>1
    <3> QED BY <2>2, <3>1, <3>2, <3>3, FrdStands
  <2>12. ASSUME "reactions" \in fields
         PROVE  DatAccepted(Meshes[p], Definitions[p[2]], case, output.dat)
    <3>1. Reported(Meshes[p], Supports(Definitions[p[2]], case))
          /\ NamesSurvive(Definitions[p[2]]) /\ NoneFlat(Bodies[p[1]])
      BY <2>3, <2>4, <2>10, <2>12
    <3>2. output.dat = Deck(Bodies[p[1]], Definitions[p[2]], case).sets
      BY <2>8, <2>9, <2>12 DEF Left
    <3> QED BY <2>2, <2>5, <2>9, <3>1, <3>2, DatStands
  <2>13. Faithful[j]
    <3>1. AreasAgree(Meshes[p]) /\ NoneFlat(Bodies[p[1]]) /\ NamesSurvive(Definitions[p[2]])
      BY <2>3
    <3>2. DeckVerifies(Bodies[p[1]], Definitions[p[2]], case, Decks[j])
      BY <2>2, <2>5, <2>9, <3>1, DeckIsVerified
    <3>3. j[1] = p[1] /\ j[2] = p[2] /\ j[3] = case
      BY <2>2, <2>6
    <3> QED BY <2>7, <2>8, <3>2, <3>3, Reconstruction DEF FaithfulOf
  <2> QED BY <2>3, <2>4, <2>8, <2>11, <2>12, <2>13 DEF Interpretable
<1>9. ResultStands(x)
  BY <1>1, <1>7, <1>8 DEF ResultStands, Range, Request
<1> QED BY <1>5, <1>6, <1>9 DEF Verifiable

-----------------------------------------------------------------------------
(* Folds: what is folded over a finite set can be taken from it one        *)
(* element at a time, in any order.                                        *)

\* Induction over the numbers, and over the subsets of a finite set.
LEMMA EveryNumber ==
  ASSUME NEW P, 0 \in P, \A n \in Nat : n \in P => n + 1 \in P
  PROVE  Nat \subseteq P
<1> SUFFICES ASSUME Nat \ P # {} PROVE FALSE
  OBVIOUS
<1>1. IsWellFoundedOn(OpToRel(<, Nat), Nat)
  BY NatLessThanWellFounded
<1>2. PICK m \in Nat \ P : \A n \in Nat \ P : <<n, m>> \notin OpToRel(<, Nat)
  BY <1>1, WFMin
<1>3. \A n \in Nat \ P : ~(n < m)
  BY <1>2 DEF OpToRel
<1>4. m # 0 /\ m - 1 \in Nat /\ m - 1 < m
  OBVIOUS
<1>5. m - 1 \in P
  BY <1>3, <1>4
<1> QED BY <1>4, <1>5

\* A set has all subsets of D that has any whose subsets by one less it has.
LEMMA EverySubset ==
  ASSUME NEW D, IsFiniteSet(D), NEW P,
         \A s \in SUBSET D : (\A x \in s : s \ {x} \in P) => s \in P
  PROVE  SUBSET D \subseteq P
<1> DEFINE Q == {n \in Nat : \A s \in SUBSET D : Cardinality(s) <= n => s \in P}
<1>1. \A s \in SUBSET D : IsFiniteSet(s) /\ Cardinality(s) \in Nat
  BY FS_Subset, FS_CardinalityType
<1>2. 0 \in Q
  BY <1>1, FS_EmptySet
<1>3. ASSUME NEW n \in Nat, n \in Q
      PROVE  n + 1 \in Q
  <2> SUFFICES ASSUME NEW s \in SUBSET D, Cardinality(s) <= n + 1
               PROVE  s \in P
    OBVIOUS
  <2>1. ASSUME NEW x \in s PROVE s \ {x} \in P
    <3>1. Cardinality(s \ {x}) = Cardinality(s) - 1
      BY <1>1, FS_RemoveElement
    <3> QED BY <1>1, <1>3, <3>1
  <2> QED BY <2>1
<1> HIDE DEF Q
<1>4. Nat \subseteq Q
  BY <1>2, <1>3, EveryNumber
<1> QED BY <1>1, <1>4 DEF Q

\* g works out a value for every subset of D, taking away one element at a time.
StepsWithin(D, V, base, pick, step) ==
  /\ IsFiniteSet(D) /\ base \in V
  /\ \A s \in SUBSET D : s # {} => pick[s] \in s
  /\ \A x \in D, v \in V : step[<<x, v>>] \in V
Follows(D, V, base, pick, step, g) ==
  /\ g \in [SUBSET D -> V]
  /\ \A s \in SUBSET D : g[s] = IF s = {} THEN base ELSE step[<<pick[s], g[s \ {pick[s]}]>>]

\* There is such a function.
LEMMA Recursion ==
  ASSUME NEW D, NEW V, NEW base, NEW pick, NEW step, StepsWithin(D, V, base, pick, step)
  PROVE  \E g : Follows(D, V, base, pick, step, g)
<1>0. /\ IsFiniteSet(D) /\ base \in V
      /\ \A s \in SUBSET D : s # {} => pick[s] \in s
      /\ \A x \in D, v \in V : step[<<x, v>>] \in V
  BY DEF StepsWithin
<1> DEFINE Small(n) == {s \in SUBSET D : Cardinality(s) <= n}
           Good(g, n) == /\ g \in [Small(n) -> V]
                         /\ \A s \in Small(n) :
                              g[s] = IF s = {} THEN base ELSE step[<<pick[s], g[s \ {pick[s]}]>>]
           P == {n \in Nat : \E g : Good(g, n)}
<1>1. \A s \in SUBSET D : IsFiniteSet(s) /\ Cardinality(s) \in Nat
  BY <1>0, FS_Subset, FS_CardinalityType
<1>2. 0 \in P
  <2>1. Small(0) = {{}}
    BY <1>1, FS_EmptySet
  <2>2. Good([s \in Small(0) |-> base], 0)
    BY <1>0, <2>1
  <2> QED BY <2>2
<1>3. ASSUME NEW n \in Nat, n \in P
      PROVE  n + 1 \in P
  <2>1. PICK g : Good(g, n)
    BY <1>3
  <2> DEFINE h == [s \in Small(n + 1) |-> IF s = {} THEN base ELSE step[<<pick[s], g[s \ {pick[s]}]>>]]
  <2>2. \A s \in Small(n + 1) : s # {} => /\ pick[s] \in D
                                          /\ s \ {pick[s]} \in Small(n) /\ s \ {pick[s]} \in Small(n + 1)
    <3> SUFFICES ASSUME NEW s \in Small(n + 1), s # {}
                 PROVE  /\ pick[s] \in D
                        /\ s \ {pick[s]} \in Small(n) /\ s \ {pick[s]} \in Small(n + 1)
      OBVIOUS
    <3>1. pick[s] \in s
      BY <1>0
    <3>2. Cardinality(s \ {pick[s]}) = Cardinality(s) - 1
      BY <1>1, <3>1, FS_RemoveElement
    <3> QED BY <1>1, <3>1, <3>2
  <2>3. h \in [Small(n + 1) -> V]
    BY <1>0, <2>1, <2>2
  <2>4. \A s \in Small(n) : s \in Small(n + 1) /\ h[s] = g[s]
    BY <1>1, <2>1
  <2>5. Good(h, n + 1)
    <3> HIDE DEF Small
    <3>1. \A s \in Small(n + 1) : s # {} => h[s \ {pick[s]}] = g[s \ {pick[s]}]
      BY <2>2, <2>4
    <3>2. \A s \in Small(n + 1) :
            h[s] = IF s = {} THEN base ELSE step[<<pick[s], h[s \ {pick[s]}]>>]
      BY <3>1
    <3> QED BY <2>3, <3>2
  <2>6. PICK k : Good(k, n + 1)
    <3> HIDE DEF Good, h
    <3> QED BY <2>5
  <2> HIDE DEF Good
  <2> QED BY <2>6
<1> HIDE DEF P
<1>4. Cardinality(D) \in P
  BY <1>0, <1>1, <1>2, <1>3, EveryNumber
<1>5. PICK g : Good(g, Cardinality(D))
  BY <1>4 DEF P
<1>6. Small(Cardinality(D)) = SUBSET D
  BY <1>0, <1>1, FS_Subset
<1> QED BY <1>5, <1>6 DEF Follows

Vectors == [Axes -> Int]
Picked(s) == CHOOSE x \in s : TRUE
TotalOn(f, S) == FoldFunctionOnSet(Plus, Zero, f, S)

\* Vectors add up to vectors, in any order.
LEMMA VectorsAdd ==
  /\ Zero \in Vectors
  /\ \A u, v \in Vectors : Plus(u, v) \in Vectors
  /\ \A u, v, w \in Vectors : Plus(u, Plus(v, w)) = Plus(v, Plus(u, w))
  BY DEF Zero, Vectors, Plus, Axes

\* A total is looked up in the table of the totals of all subsets.
LEMMA TotalFolds ==
  ASSUME NEW f, NEW S
  PROVE  TotalOn(f, S) =
           (CHOOSE g : g = [s \in SUBSET S |->
               IF s = {} THEN Zero ELSE Plus(f[Picked(s)], g[s \ {Picked(s)}])])[S]
  BY DEF TotalOn, FoldFunctionOnSet, MapThenFoldSet, Picked

\* The totals of all subsets.
TotalTable(f, D, g) ==
  g = [s \in SUBSET D |-> IF s = {} THEN Zero ELSE Plus(f[Picked(s)], g[s \ {Picked(s)}])]

\* Its entries are vectors.
LEMMA TablesHold ==
  ASSUME NEW D, IsFiniteSet(D), NEW f, \A x \in D : f[x] \in Vectors,
         NEW g, TotalTable(f, D, g)
  PROVE  \A s \in SUBSET D : g[s] \in Vectors
<1> DEFINE P == {s \in SUBSET D : g[s] \in Vectors}
<1>1. ASSUME NEW s \in SUBSET D, \A x \in s : s \ {x} \in P
      PROVE  s \in P
  <2>1. CASE s = {}
    BY <2>1, VectorsAdd DEF TotalTable
  <2>2. CASE s # {}
    <3>1. PICK p \in s : p = Picked(s)
      BY <2>2 DEF Picked
    <3>2. g[s] = Plus(f[p], g[s \ {p}])
      BY <2>2, <3>1 DEF TotalTable
    <3>3. f[p] \in Vectors /\ g[s \ {p}] \in Vectors
      BY <1>1
    <3>4. g[s] \in Vectors
      BY <3>2, <3>3, VectorsAdd
    <3> QED BY <3>4
  <2> QED BY <2>1, <2>2
<1>2. SUBSET D \subseteq P
  <2> HIDE DEF P
  <2> QED BY <1>1, EverySubset
<1> QED BY <1>2

\* There is such a table.
LEMMA TableExists ==
  ASSUME NEW D, IsFiniteSet(D), NEW f, \A x \in D : f[x] \in Vectors
  PROVE  \E g : TotalTable(f, D, g)
<1> DEFINE pick == [s \in SUBSET D |-> Picked(s)]
           step == [e \in D \X Vectors |-> Plus(f[e[1]], e[2])]
<1>1. \A s \in SUBSET D : s # {} => Picked(s) \in s
  BY DEF Picked
<1>2. \A x \in D, v \in Vectors : step[<<x, v>>] = Plus(f[x], v) /\ step[<<x, v>>] \in Vectors
  BY VectorsAdd
<1>3. StepsWithin(D, Vectors, Zero, pick, step)
  <2>1. \A s \in SUBSET D : s # {} => pick[s] \in s
    BY <1>1
  <2> HIDE DEF pick, step
  <2> QED BY <1>2, <2>1, VectorsAdd DEF StepsWithin
<1>0. PICK g : Follows(D, Vectors, Zero, pick, step, g)
  <2> HIDE DEF pick, step
  <2> QED BY <1>3, Recursion
<1>4. \A s \in SUBSET D :
        g[s] = IF s = {} THEN Zero ELSE Plus(f[Picked(s)], g[s \ {Picked(s)}])
  <2> SUFFICES ASSUME NEW s \in SUBSET D, s # {}
               PROVE  g[s] = Plus(f[Picked(s)], g[s \ {Picked(s)}])
    BY <1>0 DEF Follows
  <2>1. PICK p \in s : p = Picked(s)
    BY <1>1
  <2>2. pick[s] = p
    BY <2>1
  <2> HIDE DEF pick, step
  <2>3. g[s] = step[<<p, g[s \ {p}]>>] /\ g[s \ {p}] \in Vectors
    BY <1>0, <2>2 DEF Follows
  <2> QED BY <1>2, <2>1, <2>3
<1>5. g = [s \in SUBSET D |-> IF s = {} THEN Zero ELSE Plus(f[Picked(s)], g[s \ {Picked(s)}])]
  BY <1>0, <1>4 DEF Follows
<1> QED BY <1>5 DEF TotalTable

\* The total is its last entry.
LEMMA TotalOfTable ==
  ASSUME NEW D, IsFiniteSet(D), NEW f, \A x \in D : f[x] \in Vectors
  PROVE  \E g : TotalTable(f, D, g) /\ TotalOn(f, D) = g[D]
<1>1. PICK g : g = CHOOSE h : TotalTable(f, D, h)
  OBVIOUS
<1>2. TotalTable(f, D, g)
  BY <1>1, TableExists
<1>3. TotalOn(f, D) = g[D]
  BY <1>1, TotalFolds DEF TotalTable
<1> QED BY <1>2, <1>3

\* Tables of two sets agree where both have an entry.
LEMMA OneTable ==
  ASSUME NEW D, IsFiniteSet(D), NEW f, NEW E \in SUBSET D,
         NEW g, TotalTable(f, D, g), NEW h, TotalTable(f, E, h)
  PROVE  h[E] = g[E]
<1> DEFINE P == {s \in SUBSET E : h[s] = g[s]}
<1>1. ASSUME NEW s \in SUBSET E, \A x \in s : s \ {x} \in P
      PROVE  s \in P
  <2>0. s \in SUBSET D
    OBVIOUS
  <2>1. CASE s = {}
    BY <2>0, <2>1 DEF TotalTable
  <2>2. CASE s # {}
    <3>1. PICK p \in s : p = Picked(s)
      BY <2>2 DEF Picked
    <3>2. g[s] = Plus(f[p], g[s \ {p}]) /\ h[s] = Plus(f[p], h[s \ {p}])
      BY <2>0, <2>2, <3>1 DEF TotalTable
    <3>3. g[s \ {p}] = h[s \ {p}]
      BY <1>1
    <3> QED BY <3>2, <3>3
  <2> QED BY <2>1, <2>2
<1>2. IsFiniteSet(E)
  BY FS_Subset
<1>3. SUBSET E \subseteq P
  <2> HIDE DEF P
  <2> QED BY <1>1, <1>2, EverySubset
<1> QED BY <1>3

\* Element by element, in any order.
LEMMA TotalStep ==
  ASSUME NEW D, IsFiniteSet(D), NEW f, \A x \in D : f[x] \in Vectors
  PROVE  /\ TotalOn(f, {}) = Zero
         /\ TotalOn(f, D) \in Vectors
         /\ \A x \in D : TotalOn(f, D) = Plus(f[x], TotalOn(f, D \ {x}))
<1>1. PICK g : TotalTable(f, D, g) /\ TotalOn(f, D) = g[D]
  BY TotalOfTable
<1>2. \A s \in SUBSET D : g[s] \in Vectors
  BY <1>1, TablesHold
<1>3. \A E \in SUBSET D : TotalOn(f, E) = g[E]
  <2> SUFFICES ASSUME NEW E \in SUBSET D PROVE TotalOn(f, E) = g[E]
    OBVIOUS
  <2>1. IsFiniteSet(E) /\ \A x \in E : f[x] \in Vectors
    BY FS_Subset
  <2>2. PICK h : TotalTable(f, E, h) /\ TotalOn(f, E) = h[E]
    BY <2>1, TotalOfTable
  <2> QED BY <1>1, <2>2, OneTable
<1>4. \A s \in SUBSET D : \A x \in s : g[s] = Plus(f[x], g[s \ {x}])
  <2> DEFINE P == {s \in SUBSET D : \A x \in s : g[s] = Plus(f[x], g[s \ {x}])}
  <2>1. ASSUME NEW s \in SUBSET D, \A x \in s : s \ {x} \in P
        PROVE  s \in P
    <3> SUFFICES ASSUME NEW x \in s PROVE g[s] = Plus(f[x], g[s \ {x}])
      OBVIOUS
    <3>1. PICK p \in s : p = Picked(s)
      BY DEF Picked
    <3>2. g[s] = Plus(f[p], g[s \ {p}])
      BY <1>1, <3>1 DEF TotalTable
    <3>3. CASE x # p
      <4>1. g[s \ {p}] = Plus(f[x], g[(s \ {p}) \ {x}]) /\ g[s \ {x}] = Plus(f[p], g[(s \ {x}) \ {p}])
        BY <2>1, <3>3
      <4>2. PICK t \in SUBSET D : t = (s \ {p}) \ {x} /\ t = (s \ {x}) \ {p}
        OBVIOUS
      <4>3. Plus(f[p], Plus(f[x], g[t])) = Plus(f[x], Plus(f[p], g[t]))
        <5>1. f[p] \in Vectors /\ f[x] \in Vectors /\ g[t] \in Vectors
          BY <1>2
        <5> QED BY <5>1, VectorsAdd
      <4> QED BY <3>2, <4>1, <4>2, <4>3
    <3> QED BY <3>2, <3>3
  <2>2. SUBSET D \subseteq P
    <3> HIDE DEF P
    <3> QED BY <2>1, EverySubset
  <2> QED BY <2>2
<1>5. g[{}] = Zero
  BY <1>1 DEF TotalTable
<1> QED BY <1>1, <1>2, <1>3, <1>4, <1>5

\* The same of sums of numbers.
LEMMA SumFolds ==
  ASSUME NEW f, NEW S
  PROVE  SumFunctionOnSet(f, S) =
           (CHOOSE g : g = [s \in SUBSET S |->
               IF s = {} THEN 0 ELSE f[Picked(s)] + g[s \ {Picked(s)}]])[S]
  BY DEF SumFunctionOnSet, FoldFunctionOnSet, MapThenFoldSet, Picked

\* The sums of all subsets.
SumTable(f, D, g) ==
  g = [s \in SUBSET D |-> IF s = {} THEN 0 ELSE f[Picked(s)] + g[s \ {Picked(s)}]]

\* Their entries are numbers.
LEMMA SumsHold ==
  ASSUME NEW D, IsFiniteSet(D), NEW f, \A x \in D : f[x] \in Int,
         NEW g, SumTable(f, D, g)
  PROVE  \A s \in SUBSET D : g[s] \in Int
<1> DEFINE P == {s \in SUBSET D : g[s] \in Int}
<1>1. ASSUME NEW s \in SUBSET D, \A x \in s : s \ {x} \in P
      PROVE  s \in P
  <2>1. CASE s = {}
    BY <2>1 DEF SumTable
  <2>2. CASE s # {}
    <3>1. PICK p \in s : p = Picked(s)
      BY <2>2 DEF Picked
    <3>2. g[s] = f[p] + g[s \ {p}]
      BY <2>2, <3>1 DEF SumTable
    <3>3. f[p] \in Int /\ g[s \ {p}] \in Int
      BY <1>1
    <3>4. g[s] \in Int
      BY <3>2, <3>3
    <3> QED BY <3>4
  <2> QED BY <2>1, <2>2
<1>2. SUBSET D \subseteq P
  <2> HIDE DEF P
  <2> QED BY <1>1, EverySubset
<1> QED BY <1>2

\* There is such a table.
LEMMA SumTableExists ==
  ASSUME NEW D, IsFiniteSet(D), NEW f, \A x \in D : f[x] \in Int
  PROVE  \E g : SumTable(f, D, g)
<1> DEFINE pick == [s \in SUBSET D |-> Picked(s)]
           step == [e \in D \X Int |-> f[e[1]] + e[2]]
<1>1. \A s \in SUBSET D : s # {} => Picked(s) \in s
  BY DEF Picked
<1>2. \A x \in D, v \in Int : step[<<x, v>>] = f[x] + v /\ step[<<x, v>>] \in Int
  OBVIOUS
<1>3. StepsWithin(D, Int, 0, pick, step)
  <2>1. \A s \in SUBSET D : s # {} => pick[s] \in s
    BY <1>1
  <2> HIDE DEF pick, step
  <2> QED BY <1>2, <2>1 DEF StepsWithin
<1>0. PICK g : Follows(D, Int, 0, pick, step, g)
  <2> HIDE DEF pick, step
  <2> QED BY <1>3, Recursion
<1>4. \A s \in SUBSET D :
        g[s] = IF s = {} THEN 0 ELSE f[Picked(s)] + g[s \ {Picked(s)}]
  <2> SUFFICES ASSUME NEW s \in SUBSET D, s # {}
               PROVE  g[s] = f[Picked(s)] + g[s \ {Picked(s)}]
    BY <1>0 DEF Follows
  <2>1. PICK p \in s : p = Picked(s)
    BY <1>1
  <2>2. pick[s] = p
    BY <2>1
  <2> HIDE DEF pick, step
  <2>3. g[s] = step[<<p, g[s \ {p}]>>] /\ g[s \ {p}] \in Int
    BY <1>0, <2>2 DEF Follows
  <2> QED BY <1>2, <2>1, <2>3
<1>5. g = [s \in SUBSET D |-> IF s = {} THEN 0 ELSE f[Picked(s)] + g[s \ {Picked(s)}]]
  BY <1>0, <1>4 DEF Follows
<1> QED BY <1>5 DEF SumTable

\* The sum is its last entry.
LEMMA SumOfTable ==
  ASSUME NEW D, IsFiniteSet(D), NEW f, \A x \in D : f[x] \in Int
  PROVE  \E g : SumTable(f, D, g) /\ SumFunctionOnSet(f, D) = g[D]
<1>1. PICK g : g = CHOOSE h : SumTable(f, D, h)
  OBVIOUS
<1>2. SumTable(f, D, g)
  BY <1>1, SumTableExists
<1>3. SumFunctionOnSet(f, D) = g[D]
  BY <1>1, SumFolds DEF SumTable
<1> QED BY <1>2, <1>3

\* Tables of two sets agree where both have an entry.
LEMMA OneSumTable ==
  ASSUME NEW D, IsFiniteSet(D), NEW f, NEW E \in SUBSET D,
         NEW g, SumTable(f, D, g), NEW h, SumTable(f, E, h)
  PROVE  h[E] = g[E]
<1> DEFINE P == {s \in SUBSET E : h[s] = g[s]}
<1>1. ASSUME NEW s \in SUBSET E, \A x \in s : s \ {x} \in P
      PROVE  s \in P
  <2>0. s \in SUBSET D
    OBVIOUS
  <2>1. CASE s = {}
    BY <2>0, <2>1 DEF SumTable
  <2>2. CASE s # {}
    <3>1. PICK p \in s : p = Picked(s)
      BY <2>2 DEF Picked
    <3>2. g[s] = f[p] + g[s \ {p}] /\ h[s] = f[p] + h[s \ {p}]
      BY <2>0, <2>2, <3>1 DEF SumTable
    <3>3. g[s \ {p}] = h[s \ {p}]
      BY <1>1
    <3> QED BY <3>2, <3>3
  <2> QED BY <2>1, <2>2
<1>2. IsFiniteSet(E)
  BY FS_Subset
<1>3. SUBSET E \subseteq P
  <2> HIDE DEF P
  <2> QED BY <1>1, <1>2, EverySubset
<1> QED BY <1>3

\* Element by element, in any order.
LEMMA SumStep ==
  ASSUME NEW D, IsFiniteSet(D), NEW f, \A x \in D : f[x] \in Int
  PROVE  /\ SumFunctionOnSet(f, {}) = 0
         /\ SumFunctionOnSet(f, D) \in Int
         /\ \A x \in D : SumFunctionOnSet(f, D) = f[x] + SumFunctionOnSet(f, D \ {x})
<1>1. PICK g : SumTable(f, D, g) /\ SumFunctionOnSet(f, D) = g[D]
  BY SumOfTable
<1>2. \A s \in SUBSET D : g[s] \in Int
  BY <1>1, SumsHold
<1>3. \A E \in SUBSET D : SumFunctionOnSet(f, E) = g[E]
  <2> SUFFICES ASSUME NEW E \in SUBSET D PROVE SumFunctionOnSet(f, E) = g[E]
    OBVIOUS
  <2>1. IsFiniteSet(E) /\ \A x \in E : f[x] \in Int
    BY FS_Subset
  <2>2. PICK h : SumTable(f, E, h) /\ SumFunctionOnSet(f, E) = h[E]
    BY <2>1, SumOfTable
  <2> QED BY <1>1, <2>2, OneSumTable
<1>4. \A s \in SUBSET D : \A x \in s : g[s] = f[x] + g[s \ {x}]
  <2> DEFINE P == {s \in SUBSET D : \A x \in s : g[s] = f[x] + g[s \ {x}]}
  <2>1. ASSUME NEW s \in SUBSET D, \A x \in s : s \ {x} \in P
        PROVE  s \in P
    <3> SUFFICES ASSUME NEW x \in s PROVE g[s] = f[x] + g[s \ {x}]
      OBVIOUS
    <3>1. PICK p \in s : p = Picked(s)
      BY DEF Picked
    <3>2. g[s] = f[p] + g[s \ {p}]
      BY <1>1, <3>1 DEF SumTable
    <3>3. CASE x # p
      <4>1. g[s \ {p}] = f[x] + g[(s \ {p}) \ {x}] /\ g[s \ {x}] = f[p] + g[(s \ {x}) \ {p}]
        BY <2>1, <3>3
      <4>2. PICK t \in SUBSET D : t = (s \ {p}) \ {x} /\ t = (s \ {x}) \ {p}
        OBVIOUS
      <4>3. f[p] + (f[x] + g[t]) = f[x] + (f[p] + g[t])
        <5>1. f[p] \in Int /\ f[x] \in Int /\ g[t] \in Int
          BY <1>2
        <5> QED BY <5>1
      <4> QED BY <3>2, <4>1, <4>2, <4>3
    <3> QED BY <3>2, <3>3
  <2>2. SUBSET D \subseteq P
    <3> HIDE DEF P
    <3> QED BY <2>1, EverySubset
  <2> QED BY <2>2
<1>5. g[{}] = 0
  BY <1>1 DEF SumTable
<1> QED BY <1>1, <1>2, <1>3, <1>4, <1>5

-----------------------------------------------------------------------------
(* Vectors: totals of sums, and the norms of sums, multiples and cross     *)
(* products.                                                               *)

\* The total of what is added up element by element.
LEMMA TotalOfUnion ==
  ASSUME NEW A, IsFiniteSet(A), NEW B, IsFiniteSet(B),
         NEW f, \A x \in A : f[x] \in Vectors, NEW g, \A x \in B : g[x] \in Vectors,
         NEW h, \A x \in A \union B :
                  h[x] = Plus(IF x \in A THEN f[x] ELSE Zero, IF x \in B THEN g[x] ELSE Zero)
  PROVE  TotalOn(h, A \union B) = Plus(TotalOn(f, A), TotalOn(g, B))
<1> DEFINE D == A \union B
           P == {s \in SUBSET D :
                   TotalOn(h, s) = Plus(TotalOn(f, s \intersect A), TotalOn(g, s \intersect B))}
<1>1. IsFiniteSet(D) /\ \A s \in SUBSET D : IsFiniteSet(s) /\ IsFiniteSet(s \intersect A) /\ IsFiniteSet(s \intersect B)
  <2>1. IsFiniteSet(D)
    BY FS_Union
  <2>2. \A s \in SUBSET D : s \intersect A \in SUBSET D /\ s \intersect B \in SUBSET D
    OBVIOUS
  <2> QED BY <2>1, <2>2, FS_Subset
<1>2. \A x \in D : h[x] \in Vectors
  BY VectorsAdd
<1>3. ASSUME NEW s \in SUBSET D, \A x \in s : s \ {x} \in P
      PROVE  s \in P
  <2> DEFINE a == s \intersect A
             b == s \intersect B
  <2>1. CASE s = {}
    <3>1. TotalOn(h, s) = Zero /\ TotalOn(f, a) = Zero /\ TotalOn(g, b) = Zero
      <4>1. a = {} /\ b = {}
        BY <2>1
      <4>2. TotalOn(h, {}) = Zero /\ TotalOn(f, {}) = Zero /\ TotalOn(g, {}) = Zero
        BY FS_EmptySet, TotalStep
      <4> QED BY <2>1, <4>1, <4>2
    <3>2. Plus(Zero, Zero) = Zero
      BY DEF Plus, Zero, Axes
    <3> QED BY <3>1, <3>2
  <2>2. CASE s # {}
    <3>1. PICK x \in s : TRUE
      BY <2>2
    <3>2. TotalOn(h, s \ {x}) = Plus(TotalOn(f, (s \ {x}) \intersect A), TotalOn(g, (s \ {x}) \intersect B))
      BY <1>3
    <3>3. (s \ {x}) \intersect A = a \ {x} /\ (s \ {x}) \intersect B = b \ {x}
      OBVIOUS
    <3>4. TotalOn(h, s) = Plus(h[x], TotalOn(h, s \ {x}))
      BY <1>1, <1>2, TotalStep
    <3>5. PICK u, v, w, y : /\ u = IF x \in A THEN f[x] ELSE Zero
                            /\ v = IF x \in B THEN g[x] ELSE Zero
                            /\ w = TotalOn(f, a \ {x}) /\ y = TotalOn(g, b \ {x})
      OBVIOUS
    <3>6. IsFiniteSet(a) /\ IsFiniteSet(b) /\ IsFiniteSet(a \ {x}) /\ IsFiniteSet(b \ {x})
      BY <1>1, FS_RemoveElement
    <3>7. u \in Vectors /\ v \in Vectors /\ w \in Vectors /\ y \in Vectors
      BY <3>5, <3>6, VectorsAdd, TotalStep
    <3>8. TotalOn(f, a) = Plus(u, w)
      <4>1. CASE x \in A
        <5>1. x \in a /\ \A z \in a : f[z] \in Vectors
          BY <3>1, <4>1
        <5> QED BY <3>5, <3>6, <4>1, <5>1, TotalStep
      <4>2. CASE x \notin A
        <5>1. a \ {x} = a /\ Plus(Zero, w) = w
          BY <3>7, <4>2 DEF Plus, Zero, Vectors, Axes
        <5> QED BY <3>5, <4>2, <5>1
      <4> QED BY <4>1, <4>2
    <3>9. TotalOn(g, b) = Plus(v, y)
      <4>1. CASE x \in B
        <5>1. x \in b /\ \A z \in b : g[z] \in Vectors
          BY <3>1, <4>1
        <5> QED BY <3>5, <3>6, <4>1, <5>1, TotalStep
      <4>2. CASE x \notin B
        <5>1. b \ {x} = b /\ Plus(Zero, y) = y
          BY <3>7, <4>2 DEF Plus, Zero, Vectors, Axes
        <5> QED BY <3>5, <4>2, <5>1
      <4> QED BY <4>1, <4>2
    <3>10. TotalOn(h, s) = Plus(Plus(u, v), Plus(w, y))
      BY <3>1, <3>2, <3>3, <3>4, <3>5
    <3>11. Plus(Plus(u, v), Plus(w, y)) = Plus(Plus(u, w), Plus(v, y))
      BY <3>7 DEF Plus, Vectors, Axes
    <3> QED BY <3>8, <3>9, <3>10, <3>11
  <2> QED BY <2>1, <2>2
<1>4. SUBSET D \subseteq P
  <2> HIDE DEF P, D
  <2> QED BY <1>1, <1>3, EverySubset
<1>5. D \intersect A = A /\ D \intersect B = B
  OBVIOUS
<1> QED BY <1>4, <1>5

\* Sizes of sums and products.
LEMMA SizeOfSum ==
  ASSUME NEW m \in Int, NEW n \in Int
  PROVE  Size(m + n) <= Size(m) + Size(n) /\ Size(m) \in Nat
  BY DEF Size

\* The size of a product.
LEMMA SizeOfProduct ==
  ASSUME NEW m \in Int, NEW n \in Int
  PROVE  Size(m * n) = Size(m) * Size(n)
<1>1. CASE m >= 0 /\ n >= 0
  <2>1. m * n >= 0
    BY <1>1
  <2> QED BY <1>1, <2>1 DEF Size
<1>2. CASE m >= 0 /\ n < 0
  <2>1. m * (-n) = -(m * n) /\ m * (-n) >= 0
    BY <1>2
  <2> QED BY <1>2, <2>1 DEF Size
<1>3. CASE m < 0 /\ n >= 0
  <2>1. (-m) * n = -(m * n) /\ (-m) * n >= 0
    BY <1>3
  <2> QED BY <1>3, <2>1 DEF Size
<1>4. CASE m < 0 /\ n < 0
  <2>1. (-m) * (-n) = m * n /\ (-m) * (-n) > 0
    BY <1>4
  <2> QED BY <1>4, <2>1 DEF Size
<1> QED BY <1>1, <1>2, <1>3, <1>4

\* Norms of sums, multiples and cross products.
LEMMA NormOfSum ==
  ASSUME NEW u \in Vectors, NEW v \in Vectors
  PROVE  Norm(Plus(u, v)) <= Norm(u) + Norm(v) /\ Norm(u) \in Nat
<1>1. ASSUME NEW i \in Axes
      PROVE  /\ Size(u[i] + v[i]) <= Size(u[i]) + Size(v[i])
             /\ Size(u[i]) \in Nat /\ Size(v[i]) \in Nat /\ Size(u[i] + v[i]) \in Nat
  <2>1. PICK m \in Int, n \in Int : m = u[i] /\ n = v[i]
    BY DEF Vectors
  <2>2. m + n \in Int
    OBVIOUS
  <2>3. /\ Size(m + n) <= Size(m) + Size(n) /\ Size(m) \in Nat /\ Size(n) \in Nat
        /\ Size(m + n) \in Nat
    BY <2>2, SizeOfSum
  <2> QED BY <2>1, <2>3
<1> QED BY <1>1 DEF Norm, Plus, Axes

\* The norm of a multiple.
LEMMA NormOfTimes ==
  ASSUME NEW n \in Nat, NEW v \in Vectors
  PROVE  Norm(Times(n, v)) = n * Norm(v) /\ Times(n, v) \in Vectors
<1>1. ASSUME NEW i \in Axes
      PROVE  Size(n * v[i]) = n * Size(v[i]) /\ Size(v[i]) \in Nat
  <2>1. PICK m \in Int : m = v[i]
    BY DEF Vectors
  <2>2. n \in Int /\ Size(n) = n
    BY DEF Size
  <2>3. Size(n * m) = n * Size(m) /\ Size(m) \in Nat
    BY <2>2, SizeOfProduct, SizeOfSum
  <2> QED BY <2>1, <2>3
<1>2. PICK a, b, c : a = Size(v[1]) /\ b = Size(v[2]) /\ c = Size(v[3])
  OBVIOUS
<1>3. a \in Nat /\ b \in Nat /\ c \in Nat /\ Norm(v) = a + b + c /\ Norm(Times(n, v)) = n * a + n * b + n * c
  BY <1>1, <1>2 DEF Norm, Times, Axes
<1>4. n * a + n * b + n * c = n * (a + b + c)
  BY <1>3
<1> QED BY <1>3, <1>4 DEF Times, Vectors

\* The norm of a cross product.
LEMMA NormOfCross ==
  ASSUME NEW u \in Vectors, NEW v \in Vectors
  PROVE  Norm(Cross(u, v)) <= Norm(u) * Norm(v) /\ Cross(u, v) \in Vectors
<1>1. ASSUME NEW i \in Axes, NEW j \in Axes
      PROVE  u[i] * v[j] \in Int /\ Size(u[i] * v[j]) = Size(u[i]) * Size(v[j])
  <2>1. PICK m \in Int, n \in Int : m = u[i] /\ n = v[j]
    BY DEF Vectors
  <2>2. m * n \in Int /\ Size(m * n) = Size(m) * Size(n)
    BY SizeOfProduct
  <2> QED BY <2>1, <2>2
<1>2. \A i, j, k, l \in Axes :
        Size(u[i] * v[j] - u[k] * v[l]) <= Size(u[i]) * Size(v[j]) + Size(u[k]) * Size(v[l])
  <2> SUFFICES ASSUME NEW i \in Axes, NEW j \in Axes, NEW k \in Axes, NEW l \in Axes
               PROVE  Size(u[i] * v[j] - u[k] * v[l]) <= Size(u[i]) * Size(v[j]) + Size(u[k]) * Size(v[l])
    OBVIOUS
  <2>1. PICK m \in Int, n \in Int : m = u[i] * v[j] /\ n = u[k] * v[l]
    BY <1>1
  <2>2. Size(m - n) <= Size(m) + Size(n)
    BY DEF Size
  <2> QED BY <1>1, <2>1, <2>2
<1>3. PICK a, b, c, d, e, f : /\ a = Size(u[1]) /\ b = Size(u[2]) /\ c = Size(u[3])
                              /\ d = Size(v[1]) /\ e = Size(v[2]) /\ f = Size(v[3])
  OBVIOUS
<1>4. a \in Nat /\ b \in Nat /\ c \in Nat /\ d \in Nat /\ e \in Nat /\ f \in Nat
  BY <1>3, SizeOfSum DEF Vectors, Axes
<1>5. PICK x, y, z : /\ x = Size(u[2] * v[3] - u[3] * v[2]) /\ y = Size(u[3] * v[1] - u[1] * v[3])
                     /\ z = Size(u[1] * v[2] - u[2] * v[1])
  OBVIOUS
<1>6. x \in Nat /\ y \in Nat /\ z \in Nat
  <2>1. \A i, j, k, l \in Axes : u[i] * v[j] - u[k] * v[l] \in Int
    BY <1>1
  <2>2. \A m \in Int : Size(m) \in Nat
    BY SizeOfSum
  <2>3. 1 \in Axes /\ 2 \in Axes /\ 3 \in Axes
    BY DEF Axes
  <2> QED BY <1>5, <2>1, <2>2, <2>3
<1>7. x <= b * f + c * e /\ y <= c * d + a * f /\ z <= a * e + b * d
  BY <1>2, <1>3, <1>5 DEF Axes
<1>8. Norm(Cross(u, v)) = x + y + z /\ Norm(u) = a + b + c /\ Norm(v) = d + e + f
  BY <1>3, <1>5 DEF Norm, Cross
<1>9. x + y + z <= (a + b + c) * (d + e + f)
  <2>1. (a + b + c) * (d + e + f) = a * d + a * e + a * f + b * d + b * e + b * f + c * d + c * e + c * f
    BY <1>4
  <2>2. a * d \in Nat /\ b * e \in Nat /\ c * f \in Nat
    BY <1>4
  <2>3. a * e \in Nat /\ a * f \in Nat /\ b * d \in Nat /\ b * f \in Nat /\ c * d \in Nat /\ c * e \in Nat
    BY <1>4
  <2> QED BY <1>6, <1>7, <2>1, <2>2, <2>3
<1>10. Cross(u, v) \in Vectors
  BY DEF Cross, Vectors, Axes
<1> QED BY <1>8, <1>9, <1>10

\* How the error of a moment splits up, one component at a time.
LEMMA Polynomial ==
  ASSUME NEW a \in Int, NEW c \in Int, NEW t \in Int, NEW m \in Int, NEW n \in Int,
         NEW p \in Int, NEW q \in Int, NEW f \in Int, NEW g \in Int
  PROVE  a * (t - c * (p * g - q * f))
           = (a * t - c * (m * g - n * f)) + c * ((m - a * p) * g - (n - a * q) * f)
  OBVIOUS

\* An error of a moment, taken about a centroid that is a little off.
LEMMA TurnedAbout ==
  ASSUME NEW area \in Nat, area > 0, NEW scale \in Nat, NEW tolerance \in Nat, NEW off \in Nat,
         NEW turn \in Vectors, NEW moment \in Vectors, NEW place \in Vectors, NEW force \in Vectors,
         Norm(Minus(Times(area, turn), Times(scale, Cross(moment, force)))) <= tolerance * area,
         Norm(Minus(moment, Times(area, place))) <= off * area
  PROVE  Norm(Minus(turn, Times(scale, Cross(place, force)))) <= tolerance + scale * off * Norm(force)
<1> DEFINE error == Minus(turn, Times(scale, Cross(place, force)))
           first == Minus(Times(area, turn), Times(scale, Cross(moment, force)))
           shift == Minus(moment, Times(area, place))
           second == Times(scale, Cross(shift, force))
<1>1. /\ error \in Vectors /\ first \in Vectors /\ shift \in Vectors /\ second \in Vectors
      /\ Cross(shift, force) \in Vectors
  <2>1. \A u, v \in Vectors : Minus(u, v) \in Vectors
    BY DEF Minus, Vectors
  <2>2. \A n \in Nat, v \in Vectors : Times(n, v) \in Vectors
    BY NormOfTimes
  <2>3. \A u, v \in Vectors : Cross(u, v) \in Vectors
    BY NormOfCross
  <2> QED BY <2>1, <2>2, <2>3
<1>2. Times(area, error) = Plus(first, second)
  <2>1. ASSUME NEW i \in Axes, NEW j \in Axes, NEW k \in Axes
        PROVE  area * (turn[i] - scale * (place[j] * force[k] - place[k] * force[j]))
            = (area * turn[i] - scale * (moment[j] * force[k] - moment[k] * force[j]))
              + scale * ((moment[j] - area * place[j]) * force[k] - (moment[k] - area * place[k]) * force[j])
    <3>1. /\ turn[i] \in Int /\ moment[j] \in Int /\ moment[k] \in Int /\ place[j] \in Int
          /\ place[k] \in Int /\ force[j] \in Int /\ force[k] \in Int /\ area \in Int /\ scale \in Int
      BY DEF Vectors
    <3> QED BY <3>1, Polynomial
  <2> QED BY <2>1 DEF Times, Plus, Minus, Cross, Vectors, Axes
<1>3. PICK norm \in Nat, e \in Nat, f \in Nat, g \in Nat, s \in Nat :
        norm = Norm(force) /\ e = Norm(error) /\ f = Norm(first) /\ g = Norm(second) /\ s = Norm(shift)
  <2> HIDE DEF error, first, second, shift
  <2> QED BY <1>1, NormOfSum
<1>4. area * e <= f + g
  <2>1. Norm(Times(area, error)) = area * e
    BY <1>1, <1>3, NormOfTimes
  <2>2. Norm(Plus(first, second)) <= f + g
    BY <1>1, <1>3, NormOfSum
  <2> QED BY <1>2, <2>1, <2>2
<1>5. g <= scale * (off * area * norm)
  <2>1. PICK c \in Nat : c = Norm(Cross(shift, force))
    BY <1>1, NormOfSum
  <2>2. g = scale * c
    BY <1>1, <1>3, <2>1, NormOfTimes
  <2>3. c <= s * norm
    BY <1>1, <1>3, <2>1, NormOfCross
  <2>4. s <= off * area
    BY <1>3
  <2>5. s * norm <= (off * area) * norm
    BY <2>4
  <2>6. c <= off * area * norm
    BY <2>3, <2>5
  <2> QED BY <2>2, <2>6
<1>6. area * e <= area * (tolerance + scale * off * norm)
  <2>1. scale * (off * area * norm) = area * (scale * off * norm)
    OBVIOUS
  <2>2. tolerance * area + area * (scale * off * norm) = area * (tolerance + scale * off * norm)
    OBVIOUS
  <2>3. f <= tolerance * area
    BY <1>3
  <2> QED BY <1>4, <1>5, <2>1, <2>2, <2>3
<1>7. e <= tolerance + scale * off * norm
  BY <1>6
<1> QED BY <1>3, <1>7

-----------------------------------------------------------------------------
(* Forces on nodes: those of loads are put together one after the other,   *)
(* and so are their totals and moments.                                    *)

HaveGreatest(D) == {t \in SUBSET D : t = {} \/ \E x \in t : \A y \in t : x >= y}

\* A set of numbers has a greatest if it has one without an element.
LEMMA OneMore ==
  ASSUME NEW D \in SUBSET Int, NEW t \in SUBSET D,
         \A x \in t : t \ {x} \in HaveGreatest(D)
  PROVE  t \in HaveGreatest(D)
<1>1. CASE t = {}
  BY <1>1 DEF HaveGreatest
<1>2. CASE t # {}
  <2>1. PICK x \in t : TRUE
    BY <1>2
  <2>2. t \ {x} = {} \/ \E z \in t \ {x} : \A y \in t \ {x} : z >= y
    BY <2>1 DEF HaveGreatest
  <2>3. \E w \in t : \A y \in t : w >= y
    <3>1. CASE t \ {x} = {}
      BY <2>1, <3>1
    <3>2. CASE \E z \in t \ {x} : \A y \in t \ {x} : z >= y
      <4>1. PICK z \in t \ {x} : \A y \in t \ {x} : z >= y
        BY <3>2
      <4>2. CASE x >= z
        BY <2>1, <4>1, <4>2
      <4>3. CASE ~(x >= z)
        BY <2>1, <4>1, <4>3
      <4> QED BY <4>2, <4>3
    <3> QED BY <2>2, <3>1, <3>2
  <2> QED BY <2>3 DEF HaveGreatest
<1> QED BY <1>1, <1>2

\* Finite sets of numbers have a greatest.
LEMMA AllHaveGreatest ==
  ASSUME NEW D \in SUBSET Int, IsFiniteSet(D)
  PROVE  SUBSET D \subseteq HaveGreatest(D)
<1>1. PICK P : P = HaveGreatest(D)
  OBVIOUS
<1>2. \A s \in SUBSET D : (\A x \in s : s \ {x} \in P) => s \in P
  BY <1>1, OneMore
<1>3. SUBSET D \subseteq P
  BY <1>2, EverySubset
<1> QED BY <1>1, <1>3

\* The greatest of a part of 1..n.
LEMMA Largest ==
  ASSUME NEW n \in Nat, NEW D, D = 1..n, NEW s \in SUBSET D, s # {}
  PROVE  Max(s) \in s /\ \A x \in s : x <= Max(s)
<1>1. D \in SUBSET Int /\ IsFiniteSet(D)
  BY FS_Interval
<1>2. s \in HaveGreatest(D)
  BY <1>1, AllHaveGreatest
<1>3. PICK x \in s : \A y \in s : x >= y
  BY <1>2 DEF HaveGreatest
<1>4. Max(s) \in s /\ \A y \in s : Max(s) >= y
  BY <1>3 DEF Max
<1>5. \A y \in s : y \in Int
  OBVIOUS
<1> QED BY <1>4, <1>5

Nodal(N) == UNION {[A -> Vectors] : A \in SUBSET N}
Turn(body, f) == Total([n \in DOMAIN f |-> Cross(body.nodes[n], f[n])])

\* No forces are forces on nodes.
LEMMA NothingIsNodal ==
  ASSUME NEW N
  PROVE  NoForces \in Nodal(N)
  BY DEF NoForces, Nodal

\* Forces on nodes have a node each.
LEMMA NodalIs ==
  ASSUME NEW N, NEW f \in Nodal(N)
  PROVE  DOMAIN f \subseteq N /\ f \in [DOMAIN f -> Vectors] /\ \A n \in DOMAIN f : f[n] \in Vectors
<1>1. PICK A \in SUBSET N : f \in [A -> Vectors]
  BY DEF Nodal
<1> QED BY <1>1

\* A total is over the domain.
LEMMA TotalIs ==
  ASSUME NEW f
  PROVE  Total(f) = TotalOn(f, DOMAIN f)
  BY DEF Total, FoldFunction, TotalOn

\* Forces on nodes added up are forces on nodes.
LEMMA AddedIs ==
  ASSUME NEW N, NEW f \in Nodal(N), NEW g \in Nodal(N)
  PROVE  /\ Added(f, g) \in Nodal(N) /\ DOMAIN Added(f, g) = DOMAIN f \union DOMAIN g
         /\ \A n \in DOMAIN f \union DOMAIN g :
              Added(f, g)[n] = Plus(IF n \in DOMAIN f THEN f[n] ELSE Zero,
                                    IF n \in DOMAIN g THEN g[n] ELSE Zero)
<1>1. DOMAIN f \union DOMAIN g \in SUBSET N
  BY NodalIs
<1>2. \A n \in DOMAIN f \union DOMAIN g :
        /\ (IF n \in DOMAIN f THEN f[n] ELSE Zero) \in Vectors
        /\ (IF n \in DOMAIN g THEN g[n] ELSE Zero) \in Vectors
  BY NodalIs, VectorsAdd
<1>3. \A n \in DOMAIN f \union DOMAIN g :
        Plus(IF n \in DOMAIN f THEN f[n] ELSE Zero, IF n \in DOMAIN g THEN g[n] ELSE Zero) \in Vectors
  BY <1>2, VectorsAdd
<1>4. Added(f, g) \in [DOMAIN f \union DOMAIN g -> Vectors]
  BY <1>3 DEF Added
<1>5. Added(f, g) \in Nodal(N)
  BY <1>1, <1>4 DEF Nodal
<1> QED BY <1>5 DEF Added

\* The cross product distributes.
LEMMA CrossAdds ==
  ASSUME NEW p \in Vectors, NEW u \in Vectors, NEW v \in Vectors
  PROVE  Cross(p, Plus(u, v)) = Plus(Cross(p, u), Cross(p, v)) /\ Cross(p, Zero) = Zero
<1>1. ASSUME NEW i \in Axes, NEW j \in Axes
      PROVE  p[i] * (u[j] + v[j]) - p[j] * (u[i] + v[i])
               = (p[i] * u[j] - p[j] * u[i]) + (p[i] * v[j] - p[j] * v[i])
  <2>1. p[i] \in Int /\ p[j] \in Int /\ u[i] \in Int /\ u[j] \in Int /\ v[i] \in Int /\ v[j] \in Int
    BY DEF Vectors
  <2> QED BY <2>1
<1>2. Cross(p, Plus(u, v)) = Plus(Cross(p, u), Cross(p, v))
  BY <1>1 DEF Cross, Plus, Axes, Vectors
<1>3. Cross(p, Zero) = Zero
  BY DEF Cross, Zero, Axes, Vectors
<1> QED BY <1>2, <1>3

\* The total and the moment of forces added up are those of both.
LEMMA TotalOfAdded ==
  ASSUME NEW body, IsFiniteSet(DOMAIN body.nodes),
         \A n \in DOMAIN body.nodes : body.nodes[n] \in Vectors,
         NEW f \in Nodal(DOMAIN body.nodes), NEW g \in Nodal(DOMAIN body.nodes)
  PROVE  /\ Total(Added(f, g)) = Plus(Total(f), Total(g))
         /\ Turn(body, Added(f, g)) = Plus(Turn(body, f), Turn(body, g))
         /\ Total(f) \in Vectors /\ Turn(body, f) \in Vectors
<1> DEFINE N == DOMAIN body.nodes
           t(h) == [n \in DOMAIN h |-> Cross(body.nodes[n], h[n])]
<1>1. PICK h : h = Added(f, g)
  OBVIOUS
<1>2. /\ DOMAIN h = DOMAIN f \union DOMAIN g /\ h \in Nodal(N)
      /\ \A n \in DOMAIN f \union DOMAIN g :
           h[n] = Plus(IF n \in DOMAIN f THEN f[n] ELSE Zero, IF n \in DOMAIN g THEN g[n] ELSE Zero)
  BY <1>1, AddedIs
<1>3. /\ DOMAIN f \subseteq N /\ \A n \in DOMAIN f : f[n] \in Vectors
      /\ DOMAIN g \subseteq N /\ \A n \in DOMAIN g : g[n] \in Vectors
  BY NodalIs
<1>4. IsFiniteSet(DOMAIN f) /\ IsFiniteSet(DOMAIN g)
  BY <1>3, FS_Subset
<1>5. Total(h) = Plus(Total(f), Total(g))
  BY <1>2, <1>3, <1>4, TotalOfUnion, TotalIs
<1>6. /\ \A n \in DOMAIN f : t(f)[n] \in Vectors
      /\ \A n \in DOMAIN g : t(g)[n] \in Vectors
  BY <1>3, NormOfCross
<1>7. \A n \in DOMAIN f \union DOMAIN g :
        t(h)[n] = Plus(IF n \in DOMAIN f THEN t(f)[n] ELSE Zero, IF n \in DOMAIN g THEN t(g)[n] ELSE Zero)
  <2> SUFFICES ASSUME NEW n \in DOMAIN f \union DOMAIN g
               PROVE  t(h)[n] = Plus(IF n \in DOMAIN f THEN t(f)[n] ELSE Zero,
                                     IF n \in DOMAIN g THEN t(g)[n] ELSE Zero)
    OBVIOUS
  <2>1. PICK p \in Vectors, u \in Vectors, v \in Vectors :
          /\ p = body.nodes[n] /\ u = (IF n \in DOMAIN f THEN f[n] ELSE Zero)
          /\ v = (IF n \in DOMAIN g THEN g[n] ELSE Zero)
    BY <1>3, VectorsAdd
  <2>2. t(h)[n] = Plus(Cross(p, u), Cross(p, v))
    BY <1>2, <2>1, CrossAdds
  <2>3. Cross(p, u) = (IF n \in DOMAIN f THEN t(f)[n] ELSE Zero)
    BY <2>1, CrossAdds
  <2>4. Cross(p, v) = (IF n \in DOMAIN g THEN t(g)[n] ELSE Zero)
    BY <2>1, CrossAdds
  <2> QED BY <2>2, <2>3, <2>4
<1>8. DOMAIN t(h) = DOMAIN f \union DOMAIN g /\ DOMAIN t(f) = DOMAIN f /\ DOMAIN t(g) = DOMAIN g
  BY <1>2
<1>9. Turn(body, h) = Plus(Turn(body, f), Turn(body, g))
  <2>1. PICK a, b, c : a = t(f) /\ b = t(g) /\ c = t(h)
    OBVIOUS
  <2>2. /\ \A n \in DOMAIN f : a[n] \in Vectors
        /\ \A n \in DOMAIN g : b[n] \in Vectors
        /\ \A n \in DOMAIN f \union DOMAIN g :
             c[n] = Plus(IF n \in DOMAIN f THEN a[n] ELSE Zero, IF n \in DOMAIN g THEN b[n] ELSE Zero)
    BY <1>6, <1>7, <2>1
  <2>3. TotalOn(c, DOMAIN f \union DOMAIN g) = Plus(TotalOn(a, DOMAIN f), TotalOn(b, DOMAIN g))
    BY <1>4, <2>2, TotalOfUnion
  <2>4. Total(c) = Plus(Total(a), Total(b))
    BY <1>8, <2>1, <2>3, TotalIs
  <2> QED BY <2>1, <2>4 DEF Turn
<1>10. Total(f) \in Vectors /\ Turn(body, f) \in Vectors
  <2>1. Total(f) \in Vectors
    BY <1>3, <1>4, TotalStep, TotalIs
  <2>2. PICK a : a = t(f)
    OBVIOUS
  <2>3. DOMAIN a = DOMAIN f /\ \A n \in DOMAIN f : a[n] \in Vectors
    BY <1>6, <2>2
  <2>4. Total(a) \in Vectors
    BY <1>4, <2>3, TotalStep, TotalIs
  <2> QED BY <2>1, <2>2, <2>4 DEF Turn
<1> QED BY <1>1, <1>5, <1>9, <1>10

\* What is put together of all subsets of a sequence of forces.
TogetherTable(seq, g) ==
  g = [s \in SUBSET (DOMAIN seq) |->
         IF s = {} THEN NoForces ELSE Added(g[s \ {Max(s)}], seq[Max(s)])]

\* Forces put together are looked up in a table, too.
LEMMA TogetherFolds ==
  ASSUME NEW seq
  PROVE  Together(seq) =
           (CHOOSE g : g = [s \in SUBSET (DOMAIN seq) |->
               IF s = {} THEN NoForces ELSE Added(g[s \ {Max(s)}], seq[Max(s)])])[DOMAIN seq]
  BY DEF Together, FoldLeft, MapThenFoldSet

\* There is such a table.
LEMMA TogetherTableExists ==
  ASSUME NEW N, NEW n \in Nat, NEW seq, DOMAIN seq = 1..n, \A i \in 1..n : seq[i] \in Nodal(N)
  PROVE  \E g : TogetherTable(seq, g)
<1> DEFINE D == 1..n
           pick == [s \in SUBSET D |-> Max(s)]
           step == [e \in D \X Nodal(N) |-> Added(e[2], seq[e[1]])]
<1>1. \A s \in SUBSET D : s # {} => Max(s) \in s
  BY Largest
<1>2. \A x \in D, v \in Nodal(N) : step[<<x, v>>] = Added(v, seq[x]) /\ step[<<x, v>>] \in Nodal(N)
  BY AddedIs
<1>3. StepsWithin(D, Nodal(N), NoForces, pick, step)
  <2>1. \A s \in SUBSET D : s # {} => pick[s] \in s
    BY <1>1
  <2>2. NoForces \in Nodal(N)
    BY NothingIsNodal
  <2>3. IsFiniteSet(D)
    BY FS_Interval
  <2> HIDE DEF pick, step, D
  <2> QED BY <1>2, <2>1, <2>2, <2>3 DEF StepsWithin
<1>4. PICK g : Follows(D, Nodal(N), NoForces, pick, step, g)
  <2> HIDE DEF pick, step, D
  <2> QED BY <1>3, Recursion
<1>5. \A s \in SUBSET D : g[s] = IF s = {} THEN NoForces ELSE Added(g[s \ {Max(s)}], seq[Max(s)])
  <2> SUFFICES ASSUME NEW s \in SUBSET D, s # {}
               PROVE  g[s] = Added(g[s \ {Max(s)}], seq[Max(s)])
    BY <1>4 DEF Follows
  <2>1. PICK p \in s : p = Max(s)
    BY <1>1
  <2>2. pick[s] = p
    BY <2>1
  <2> HIDE DEF pick, step, D
  <2>3. g[s] = step[<<p, g[s \ {p}]>>] /\ g[s \ {p}] \in Nodal(N)
    BY <1>4, <2>2 DEF Follows
  <2> QED BY <1>2, <2>1, <2>3
<1> HIDE DEF pick, step
<1>6. g = [s \in SUBSET D |-> IF s = {} THEN NoForces ELSE Added(g[s \ {Max(s)}], seq[Max(s)])]
  BY <1>4, <1>5 DEF Follows
<1> QED BY <1>6 DEF TogetherTable

\* The forces after each of a sequence of loads.
Stages(N, n, seq, T) ==
  /\ T[0] = NoForces /\ Together(seq) = T[n]
  /\ \A k \in 0..n : T[k] \in Nodal(N)
  /\ \A k \in 1..n : T[k] = Added(T[k - 1], seq[k])

\* Forces are put together one load after the other.
LEMMA StagesExist ==
  ASSUME NEW N, NEW n \in Nat, NEW seq, DOMAIN seq = 1..n, \A i \in 1..n : seq[i] \in Nodal(N)
  PROVE  \E T : Stages(N, n, seq, T)
<1>1. PICK g : g = CHOOSE h : TogetherTable(seq, h)
  OBVIOUS
<1>2. TogetherTable(seq, g)
  BY <1>1, TogetherTableExists
<1>3. Together(seq) = g[1..n]
  BY <1>1, TogetherFolds DEF TogetherTable
<1> DEFINE T == [k \in 0..n |-> g[1..k]]
<1>4. T[0] = NoForces
  <2>1. 1..0 = {}
    OBVIOUS
  <2> QED BY <1>2, <2>1 DEF TogetherTable
<1>5. \A k \in 1..n : T[k] = Added(T[k - 1], seq[k])
  <2> SUFFICES ASSUME NEW k \in 1..n
               PROVE  g[1..k] = Added(g[1..(k - 1)], seq[k])
    OBVIOUS
  <2>1. PICK s \in SUBSET (1..n) : s = 1..k /\ s # {}
    OBVIOUS
  <2>2. Max(s) = k
    <3>1. PICK D : D = 1..n
      OBVIOUS
    <3>2. s \in SUBSET D /\ s # {} /\ k \in s
      BY <2>1, <3>1
    <3>3. Max(s) \in s /\ \A x \in s : x <= Max(s)
      BY <3>1, <3>2, Largest
    <3>4. Max(s) \in 1..k /\ k <= Max(s)
      BY <2>1, <3>2, <3>3
    <3> QED BY <3>4
  <2>3. s \ {k} = 1..(k - 1)
    BY <2>1
  <2> QED BY <1>2, <2>1, <2>2, <2>3 DEF TogetherTable
<1> HIDE DEF T
<1>6. \A k \in 0..n : T[k] \in Nodal(N)
  <2> DEFINE P == {k \in Nat : k <= n => T[k] \in Nodal(N)}
  <2>1. 0 \in P
    BY <1>4, NothingIsNodal
  <2>2. ASSUME NEW k \in Nat, k \in P PROVE k + 1 \in P
    <3> SUFFICES ASSUME k + 1 <= n PROVE T[k + 1] \in Nodal(N)
      OBVIOUS
    <3>1. T[k] \in Nodal(N) /\ k + 1 \in 1..n /\ (k + 1) - 1 = k
      BY <2>2
    <3>2. T[k + 1] = Added(T[k], seq[k + 1])
      BY <1>5, <3>1
    <3>3. PICK f \in Nodal(N), h \in Nodal(N) : f = T[k] /\ h = seq[k + 1]
      BY <3>1
    <3>4. Added(f, h) \in Nodal(N)
      BY AddedIs
    <3> QED BY <3>2, <3>3, <3>4
  <2>3. Nat \subseteq P
    <3> HIDE DEF P
    <3> QED BY <2>1, <2>2, EveryNumber
  <2> QED BY <2>3
<1>7. Together(seq) = T[n]
  BY <1>3 DEF T
<1> QED BY <1>4, <1>5, <1>6, <1>7 DEF Stages

-----------------------------------------------------------------------------
(* Errors: each load is off by a tolerance, all of them by their sum.      *)

\* The numbers up to the next one.
LEMMA UpTo ==
  ASSUME NEW k \in Nat
  PROVE  /\ 1..0 = {} /\ IsFiniteSet(1..k) /\ IsFiniteSet(1..(k + 1))
         /\ k + 1 \in 1..(k + 1) /\ (1..(k + 1)) \ {k + 1} = 1..k
<1>1. IsFiniteSet(1..k) /\ IsFiniteSet(1..(k + 1))
  BY FS_Interval
<1>2. (1..(k + 1)) \ {k + 1} = 1..k
  OBVIOUS
<1> QED BY <1>1, <1>2

\* Errors of sums add up.
LEMMA ErrorOfSum ==
  ASSUME NEW u \in Vectors, NEW v \in Vectors, NEW f \in Vectors, NEW g \in Vectors,
         NEW s \in Int, NEW t \in Int,
         Norm(Minus(u, f)) <= s, Norm(Minus(v, g)) <= t
  PROVE  Norm(Minus(Plus(u, v), Plus(g, f))) <= t + s
<1>1. Minus(u, f) \in Vectors /\ Minus(v, g) \in Vectors
  BY DEF Minus, Vectors
<1>2. Minus(Plus(u, v), Plus(g, f)) = Plus(Minus(u, f), Minus(v, g))
  BY DEF Minus, Plus, Vectors
<1>3. PICK a, b : a = Minus(u, f) /\ b = Minus(v, g)
  OBVIOUS
<1>4. Norm(Plus(a, b)) <= Norm(a) + Norm(b) /\ Norm(a) \in Nat /\ Norm(b) \in Nat /\ Norm(Plus(a, b)) \in Nat
  <2>1. a \in Vectors /\ b \in Vectors /\ Plus(a, b) \in Vectors
    BY <1>1, <1>3, VectorsAdd
  <2> QED BY <2>1, NormOfSum
<1>5. Norm(a) <= s /\ Norm(b) <= t
  BY <1>3
<1>6. Norm(Plus(a, b)) <= t + s
  <2>1. PICK l \in Nat, m \in Nat, n \in Nat : l = Norm(Plus(a, b)) /\ m = Norm(a) /\ n = Norm(b)
    BY <1>4
  <2>2. l <= m + n /\ m <= s /\ n <= t
    BY <1>4, <1>5, <2>1
  <2>3. l <= t + s
    BY <2>2
  <2> QED BY <2>1, <2>3
<1> QED BY <1>2, <1>3, <1>6

\* What is added up step by step, from vectors each as far from its own.
Accrues(n, x, y, f, slack) ==
  /\ x[0] = Zero /\ \A k \in 0..n : x[k] \in Vectors
  /\ \A k \in 1..n : x[k] = Plus(x[k - 1], y[k])
  /\ \A k \in 1..n : /\ y[k] \in Vectors /\ f[k] \in Vectors /\ slack[k] \in Int
                     /\ Norm(Minus(y[k], f[k])) <= slack[k]

\* The number of steps after which the error is within the sum of the errors.
Within(n, x, f, slack) ==
  {k \in Nat : k <= n => Norm(Minus(x[k], TotalOn(f, 1..k))) <= SumFunctionOnSet(slack, 1..k)}

\* Totals and sums of one more.
LEMMA SumsUpTo ==
  ASSUME NEW n \in Nat, NEW f, \A k \in 1..n : f[k] \in Vectors,
         NEW slack, \A k \in 1..n : slack[k] \in Int, NEW k \in Nat, k + 1 <= n
  PROVE  /\ TotalOn(f, 1..k) \in Vectors /\ SumFunctionOnSet(slack, 1..k) \in Int
         /\ TotalOn(f, 1..(k + 1)) = Plus(f[k + 1], TotalOn(f, 1..k))
         /\ SumFunctionOnSet(slack, 1..(k + 1)) = slack[k + 1] + SumFunctionOnSet(slack, 1..k)
<1>1. PICK d, e : d = 1..k /\ e = 1..(k + 1)
  OBVIOUS
<1>2. /\ IsFiniteSet(d) /\ IsFiniteSet(e) /\ k + 1 \in e /\ e \ {k + 1} = d
  BY <1>1, UpTo
<1>3. /\ \A i \in d : f[i] \in Vectors /\ slack[i] \in Int
      /\ \A i \in e : f[i] \in Vectors /\ slack[i] \in Int
  BY <1>1
<1>4. TotalOn(f, d) \in Vectors /\ SumFunctionOnSet(slack, d) \in Int
  BY <1>2, <1>3, TotalStep, SumStep
<1>5. TotalOn(f, e) = Plus(f[k + 1], TotalOn(f, d))
  BY <1>2, <1>3, TotalStep
<1>6. SumFunctionOnSet(slack, e) = slack[k + 1] + SumFunctionOnSet(slack, d)
  BY <1>2, <1>3, SumStep
<1> QED BY <1>1, <1>4, <1>5, <1>6

\* Errors add up over all steps.
LEMMA ErrorsAddUp ==
  ASSUME NEW n \in Nat, NEW x, NEW y, NEW f, NEW slack, Accrues(n, x, y, f, slack)
  PROVE  Norm(Minus(x[n], TotalOn(f, 1..n))) <= SumFunctionOnSet(slack, 1..n)
<1>1. PICK P : P = Within(n, x, f, slack)
  OBVIOUS
<1>2. 0 \in P
  <2>1. TotalOn(f, {}) = Zero /\ SumFunctionOnSet(slack, {}) = 0
    BY FS_EmptySet, TotalStep, SumStep
  <2>2. Norm(Minus(Zero, Zero)) = 0
    BY DEF Norm, Minus, Zero, Size, Axes
  <2>3. x[0] = Zero /\ 1..0 = {}
    BY UpTo DEF Accrues
  <2> QED BY <1>1, <2>1, <2>2, <2>3 DEF Within
<1>3. ASSUME NEW k \in Nat, k \in P
      PROVE  k + 1 \in P
  <2> SUFFICES ASSUME k + 1 <= n
               PROVE  Norm(Minus(x[k + 1], TotalOn(f, 1..(k + 1)))) <= SumFunctionOnSet(slack, 1..(k + 1))
    BY <1>1 DEF Within
  <2>1. Norm(Minus(x[k], TotalOn(f, 1..k))) <= SumFunctionOnSet(slack, 1..k)
    BY <1>1, <1>3 DEF Within
  <2>2. k \in 0..n /\ k + 1 \in 1..n /\ (k + 1) - 1 = k
    OBVIOUS
  <2>3. x[k] \in Vectors /\ x[k + 1] = Plus(x[k], y[k + 1])
    BY <2>2 DEF Accrues
  <2>4. /\ y[k + 1] \in Vectors /\ f[k + 1] \in Vectors /\ slack[k + 1] \in Int
        /\ Norm(Minus(y[k + 1], f[k + 1])) <= slack[k + 1]
    BY <2>2 DEF Accrues
  <2>5. /\ TotalOn(f, 1..k) \in Vectors /\ SumFunctionOnSet(slack, 1..k) \in Int
        /\ TotalOn(f, 1..(k + 1)) = Plus(f[k + 1], TotalOn(f, 1..k))
        /\ SumFunctionOnSet(slack, 1..(k + 1)) = slack[k + 1] + SumFunctionOnSet(slack, 1..k)
    <3>1. \A i \in 1..n : f[i] \in Vectors /\ slack[i] \in Int
      BY DEF Accrues
    <3> QED BY <3>1, SumsUpTo
  <2> QED BY <2>1, <2>3, <2>4, <2>5, ErrorOfSum
<1>4. Nat \subseteq P
  BY <1>2, <1>3, EveryNumber
<1> QED BY <1>1, <1>4 DEF Within

\* A sum of the same number, n times.
LEMMA SumOfEqual ==
  ASSUME NEW n \in Nat, NEW c \in Nat, NEW s, \A k \in 1..n : s[k] = c
  PROVE  SumFunctionOnSet(s, 1..n) = n * c
<1> DEFINE P == {k \in Nat : k <= n => SumFunctionOnSet(s, 1..k) = k * c}
<1>1. 0 \in P
  <2>1. SumFunctionOnSet(s, {}) = 0
    BY FS_EmptySet, SumStep
  <2> QED BY <2>1, UpTo
<1>2. ASSUME NEW k \in Nat, k \in P
      PROVE  k + 1 \in P
  <2> SUFFICES ASSUME k + 1 <= n
               PROVE  SumFunctionOnSet(s, 1..(k + 1)) = (k + 1) * c
    OBVIOUS
  <2>1. SumFunctionOnSet(s, 1..k) = k * c
    BY <1>2
  <2>2. k + 1 \in 1..n /\ \A i \in 1..(k + 1) : s[i] \in Int
    OBVIOUS
  <2>3. SumFunctionOnSet(s, 1..(k + 1)) = s[k + 1] + SumFunctionOnSet(s, 1..k)
    <3>1. PICK d, e : d = 1..k /\ e = 1..(k + 1)
      OBVIOUS
    <3>2. IsFiniteSet(e) /\ k + 1 \in e /\ e \ {k + 1} = d
      BY <3>1, UpTo
    <3>3. \A i \in e : s[i] \in Int
      BY <2>2, <3>1
    <3>4. SumFunctionOnSet(s, e) = s[k + 1] + SumFunctionOnSet(s, d)
      BY <3>2, <3>3, SumStep
    <3> QED BY <3>1, <3>4
  <2>4. s[k + 1] = c
    BY <2>2
  <2>5. (k + 1) * c = c + k * c
    OBVIOUS
  <2> QED BY <2>1, <2>3, <2>4, <2>5
<1>3. Nat \subseteq P
  <2> HIDE DEF P
  <2> QED BY <1>1, <1>2, EveryNumber
<1> QED BY <1>3

\* No forces come to nothing.
LEMMA NoForcesHold ==
  ASSUME NEW body
  PROVE  Total(NoForces) = Zero /\ Turn(body, NoForces) = Zero
<1>1. PICK a, b : a = NoForces /\ b = [n \in DOMAIN NoForces |-> Cross(body.nodes[n], NoForces[n])]
  OBVIOUS
<1>2. DOMAIN a = {} /\ DOMAIN b = {}
  BY <1>1 DEF NoForces
<1>3. TotalOn(a, {}) = Zero /\ TotalOn(b, {}) = Zero
  BY FS_EmptySet, TotalStep
<1> QED BY <1>1, <1>2, <1>3, TotalIs DEF Turn

\* The forces of loads, each as far from its own as its slack.
Held(body, n, seq, f, m, tolerance, slack) ==
  /\ DOMAIN seq = 1..n
  /\ \A i \in 1..n :
       /\ seq[i] \in Nodal(DOMAIN body.nodes)
       /\ f[i] \in Vectors /\ m[i] \in Vectors /\ slack[i] \in Int
       /\ Norm(Minus(Total(seq[i]), f[i])) <= tolerance
       /\ Norm(Minus(Turn(body, seq[i]), m[i])) <= slack[i]

\* The forces of all loads are about as far from what they should be as each is.
LEMMA HeldTogether ==
  ASSUME NEW body, IsFiniteSet(DOMAIN body.nodes),
         \A p \in DOMAIN body.nodes : body.nodes[p] \in Vectors,
         NEW n \in Nat, NEW seq, NEW f, NEW m, NEW tolerance \in Nat, NEW slack,
         Held(body, n, seq, f, m, tolerance, slack)
  PROVE  /\ Norm(Minus(Total(Together(seq)), TotalOn(f, 1..n))) <= n * tolerance
         /\ Norm(Minus(Turn(body, Together(seq)), TotalOn(m, 1..n))) <= SumFunctionOnSet(slack, 1..n)
<1>1. DOMAIN seq = 1..n /\ \A i \in 1..n : seq[i] \in Nodal(DOMAIN body.nodes)
  BY DEF Held
<1>2. PICK T : Stages(DOMAIN body.nodes, n, seq, T)
  <2>1. PICK N : N = DOMAIN body.nodes
    OBVIOUS
  <2>2. \A i \in 1..n : seq[i] \in Nodal(N)
    BY <1>1, <2>1
  <2>3. \E T : Stages(N, n, seq, T)
    BY <1>1, <2>2, StagesExist
  <2> QED BY <2>1, <2>3
<1> DEFINE x == [k \in 0..n |-> Total(T[k])]
           y == [k \in 1..n |-> Total(seq[k])]
           s == [k \in 1..n |-> tolerance]
           u == [k \in 0..n |-> Turn(body, T[k])]
           v == [k \in 1..n |-> Turn(body, seq[k])]
<1>3. ASSUME NEW k \in 1..n
      PROVE  /\ Total(T[k]) = Plus(Total(T[k - 1]), Total(seq[k]))
             /\ Turn(body, T[k]) = Plus(Turn(body, T[k - 1]), Turn(body, seq[k]))
             /\ Total(T[k]) \in Vectors /\ Turn(body, T[k]) \in Vectors
             /\ Total(seq[k]) \in Vectors /\ Turn(body, seq[k]) \in Vectors
  <2>1. k \in 0..n /\ k - 1 \in 0..n
    OBVIOUS
  <2>2. PICK a \in Nodal(DOMAIN body.nodes), b \in Nodal(DOMAIN body.nodes),
             c \in Nodal(DOMAIN body.nodes) : a = T[k - 1] /\ b = seq[k] /\ c = T[k]
    BY <1>1, <1>2, <2>1 DEF Stages
  <2>3. c = Added(a, b)
    BY <1>2, <2>2 DEF Stages
  <2>4. /\ Total(Added(a, b)) = Plus(Total(a), Total(b))
        /\ Turn(body, Added(a, b)) = Plus(Turn(body, a), Turn(body, b))
    BY TotalOfAdded
  <2>5. /\ Total(b) \in Vectors /\ Turn(body, b) \in Vectors
        /\ Total(c) \in Vectors /\ Turn(body, c) \in Vectors
    BY TotalOfAdded
  <2> QED BY <2>2, <2>3, <2>4, <2>5
<1>4. Total(T[0]) = Zero /\ Turn(body, T[0]) = Zero
  BY <1>2, NoForcesHold DEF Stages
<1>5. \A k \in 0..n : x[k] \in Vectors /\ u[k] \in Vectors
  <2> SUFFICES ASSUME NEW k \in 0..n PROVE Total(T[k]) \in Vectors /\ Turn(body, T[k]) \in Vectors
    OBVIOUS
  <2>1. k = 0 \/ k \in 1..n
    OBVIOUS
  <2> QED BY <1>3, <1>4, <2>1, VectorsAdd
<1>6. \A k \in 1..n : k \in 0..n /\ k - 1 \in 0..n
  OBVIOUS
<1>7. Accrues(n, x, y, f, s)
  <2>1. x[0] = Zero /\ \A k \in 1..n : x[k] = Plus(x[k - 1], y[k])
    BY <1>3, <1>4, <1>6
  <2>2. \A k \in 1..n : /\ y[k] \in Vectors /\ f[k] \in Vectors /\ s[k] \in Int
                        /\ Norm(Minus(y[k], f[k])) <= s[k]
    BY <1>3 DEF Held
  <2> HIDE DEF x, y, s
  <2> QED BY <1>5, <2>1, <2>2 DEF Accrues
<1>8. Accrues(n, u, v, m, slack)
  <2>1. u[0] = Zero /\ \A k \in 1..n : u[k] = Plus(u[k - 1], v[k])
    BY <1>3, <1>4, <1>6
  <2>2. \A k \in 1..n : /\ v[k] \in Vectors /\ m[k] \in Vectors /\ slack[k] \in Int
                        /\ Norm(Minus(v[k], m[k])) <= slack[k]
    BY <1>3 DEF Held
  <2> HIDE DEF u, v
  <2> QED BY <1>5, <2>1, <2>2 DEF Accrues
<1>9. Norm(Minus(x[n], TotalOn(f, 1..n))) <= SumFunctionOnSet(s, 1..n)
  <2> HIDE DEF x, y, s
  <2> QED BY <1>7, ErrorsAddUp
<1>10. SumFunctionOnSet(s, 1..n) = n * tolerance
  <2>1. \A k \in 1..n : s[k] = tolerance
    OBVIOUS
  <2> HIDE DEF s
  <2> QED BY <2>1, SumOfEqual
<1>11. Norm(Minus(u[n], TotalOn(m, 1..n))) <= SumFunctionOnSet(slack, 1..n)
  <2> HIDE DEF u, v
  <2> QED BY <1>8, ErrorsAddUp
<1>12. x[n] = Total(Together(seq)) /\ u[n] = Turn(body, Together(seq))
  BY <1>2 DEF Stages
<1> QED BY <1>9, <1>10, <1>11, <1>12

-----------------------------------------------------------------------------
(* The forces of a deck: what is spread over the triangles of a region is  *)
(* of nodes of the body, and conserved as the deck was built.              *)

\* What can be said of a body.
GoodBody(body) ==
  /\ IsSeq(body.faces)
  /\ \A i \in DOMAIN body.faces : body.faces[i].area \in Nat \ {0} /\ body.faces[i].centroid \in Vectors
  /\ IsFiniteSet(DOMAIN body.nodes) /\ \A n \in DOMAIN body.nodes : body.nodes[n] \in Vectors
  /\ \A e \in DOMAIN body.tets : body.tets[e] \in [1..10 -> DOMAIN body.nodes]

\* Bodies are such.
LEMMA BodiesAreGood ==
  ASSUME NEW g \in DOMAIN Bodies
  PROVE  GoodBody(Bodies[g])
<1>1. PICK body : body = Bodies[g]
  OBVIOUS
<1>2. /\ IsSeq(body.faces)
      /\ \A face \in Range(body.faces) : face.area \in Nat \ {0} /\ face.centroid \in [Axes -> Int]
      /\ IsFiniteSet(DOMAIN body.nodes)
      /\ \A n \in DOMAIN body.nodes : body.nodes[n] \in [Axes -> Int]
      /\ \A e \in DOMAIN body.tets : body.tets[e] \in [1..10 -> DOMAIN body.nodes]
  BY <1>1, BodyAssumption
<1>3. \A i \in DOMAIN body.faces : body.faces[i].area \in Nat \ {0} /\ body.faces[i].centroid \in Vectors
  BY <1>2 DEF Range, Vectors
<1> QED BY <1>1, <1>2, <1>3 DEF GoodBody, Vectors

\* Triangles of corners that are nodes of the body.
OnBody(body, T) ==
  /\ IsFiniteSet(DOMAIN T)
  /\ \A i \in DOMAIN T : \A k \in 1..3 : T[i].nodes[k] \in DOMAIN body.nodes

\* A triangle has an area and a centre.
LEMMA TriangleMeasures ==
  ASSUME NEW body, GoodBody(body), NEW T, OnBody(body, T), NEW i \in DOMAIN T
  PROVE  AreaOf(body, T[i]) \in Nat /\ CentreOf(body, T[i]) \in Vectors
<1>1. PICK a \in Vectors, b \in Vectors, c \in Vectors :
        /\ a = body.nodes[T[i].nodes[1]] /\ b = body.nodes[T[i].nodes[2]]
        /\ c = body.nodes[T[i].nodes[3]]
  BY DEF GoodBody, OnBody
<1>2. Minus(b, a) \in Vectors /\ Minus(c, a) \in Vectors
  BY DEF Minus, Vectors
<1>3. PICK u \in Vectors, v \in Vectors : u = Minus(b, a) /\ v = Minus(c, a)
  BY <1>2
<1>4. Cross(u, v) \in Vectors
  BY NormOfCross
<1>5. PICK w \in Vectors : w = Cross(u, v)
  BY <1>4
<1>6. Norm(w) \in Nat
  BY NormOfSum
<1>7. AreaOf(body, T[i]) = Norm(w)
  BY <1>1, <1>3, <1>5 DEF AreaOf, CrossOf
<1>8. Plus(b, c) \in Vectors
  BY VectorsAdd
<1>9. Plus(a, Plus(b, c)) \in Vectors
  BY <1>8, VectorsAdd
<1> QED BY <1>1, <1>6, <1>7, <1>9 DEF CentreOf

\* Multiples of vectors.
LEMMA AnyTimes ==
  ASSUME NEW n \in Int, NEW v \in Vectors
  PROVE  Times(n, v) \in Vectors
  BY DEF Times, Vectors

\* Triangles have an area and a moment.
LEMMA SurfaceMeasures ==
  ASSUME NEW body, GoodBody(body), NEW T, OnBody(body, T)
  PROVE  Area(body, T) \in Int /\ Moment(body, T) \in Vectors
<1>1. PICK a : a = Areas(body, T)
  OBVIOUS
<1>2. DOMAIN a = DOMAIN T /\ \A i \in DOMAIN T : a[i] \in Int
  BY <1>1, TriangleMeasures DEF Areas
<1>3. Area(body, T) \in Int
  <2>1. SumFunctionOnSet(a, DOMAIN a) \in Int
    BY <1>2, SumStep DEF OnBody
  <2>2. Area(body, T) = SumFunctionOnSet(a, DOMAIN a)
    BY <1>1 DEF Area, SumFunction, SumFunctionOnSet, FoldFunction
  <2> QED BY <2>1, <2>2
<1>4. Moment(body, T) \in Vectors
  <2>1. PICK m : m = [i \in DOMAIN T |-> Times(AreaOf(body, T[i]), CentreOf(body, T[i]))]
    OBVIOUS
  <2>2. ASSUME NEW i \in DOMAIN T PROVE m[i] \in Vectors
    <3>1. PICK n \in Int, v \in Vectors : n = AreaOf(body, T[i]) /\ v = CentreOf(body, T[i])
      BY TriangleMeasures
    <3> QED BY <2>1, <3>1, AnyTimes
  <2>3. DOMAIN m = DOMAIN T
    BY <2>1
  <2>4. TotalOn(m, DOMAIN m) \in Vectors
    BY <2>2, <2>3, TotalStep DEF OnBody
  <2> QED BY <2>1, <2>4, TotalIs DEF Moment
<1> QED BY <1>3, <1>4

\* The midside nodes of a face of a tetrahedron are nodes of the body.
LEMMA MidsidesAreNodes ==
  ASSUME NEW body, GoodBody(body), NEW place \in (DOMAIN body.tets) \X (DOMAIN LocalFaces)
  PROVE  Midsides(body, place) \subseteq DOMAIN body.nodes
<1>1. PICK e \in DOMAIN body.tets, s \in DOMAIN LocalFaces : place[1] = e /\ place[2] = s
  OBVIOUS
<1>2. PICK ten \in [1..10 -> DOMAIN body.nodes] : ten = body.tets[e]
  BY DEF GoodBody
<1>3. \A k \in 1..10 : Canonical(ten)[k] \in DOMAIN body.nodes
  BY DEF Canonical
<1>4. s \in {"S1", "S2", "S3", "S4"}
  BY DEF LocalFaces
<1>5. \A k \in 4..6 : LocalFaces[s][k] \in 1..10
  BY <1>4 DEF LocalFaces
<1>6. \A k \in 4..6 : NodesOf(body, place)[k] = Canonical(ten)[LocalFaces[s][k]]
  BY <1>1, <1>2 DEF NodesOf
<1> QED BY <1>3, <1>5, <1>6 DEF Midsides

\* A force that is spread over faces of tetrahedra is one on nodes of the body.
LEMMA SpreadIsNodal ==
  ASSUME NEW body, GoodBody(body), NEW places, IsFiniteSet(DOMAIN places),
         \A i \in DOMAIN places : places[i] \in (DOMAIN body.tets) \X (DOMAIN LocalFaces),
         NEW areas, \A i \in DOMAIN places : areas[i] \in Int,
         NEW share \in Nat \ {0}, NEW force \in Vectors
  PROVE  Spread(body, areas, places, force, share) \in Nodal(DOMAIN body.nodes)
<1>1. Touched(body, places) \in SUBSET (DOMAIN body.nodes)
  BY MidsidesAreNodes DEF Touched
<1>2. PICK unit \in Int : unit = Scale \div share
  BY ToleranceAssumption
<1>3. ASSUME NEW S \in SUBSET (DOMAIN places)
      PROVE  Total([i \in S |-> Times(areas[i] * unit, force)]) \in Vectors
  <2>1. PICK f : f = [i \in S |-> Times(areas[i] * unit, force)]
    OBVIOUS
  <2>2. ASSUME NEW i \in S PROVE f[i] \in Vectors
    <3>1. PICK a \in Int : a = areas[i]
      OBVIOUS
    <3>2. a * unit \in Int
      OBVIOUS
    <3> QED BY <2>1, <3>1, <3>2, AnyTimes
  <2>3. IsFiniteSet(S) /\ DOMAIN f = S
    BY <2>1, FS_Subset
  <2>4. TotalOn(f, S) \in Vectors
    BY <2>2, <2>3, TotalStep
  <2> QED BY <2>1, <2>3, <2>4, TotalIs
<1>4. \A n \in Touched(body, places) :
        Total([i \in {k \in DOMAIN places : n \in Midsides(body, places[k])} |->
                 Times(areas[i] * unit, force)]) \in Vectors
  BY <1>3
<1>5. Spread(body, areas, places, force, share) \in [Touched(body, places) -> Vectors]
  BY <1>2, <1>4 DEF Spread
<1> QED BY <1>1, <1>5 DEF Nodal

\* Sets of numbers have a least.
LEMMA LeastIndex ==
  ASSUME NEW S \in SUBSET Nat, S # {}
  PROVE  \E i \in S : \A j \in S : i <= j
<1>1. IsWellFoundedOn(OpToRel(<, Nat), Nat)
  BY NatLessThanWellFounded
<1>2. PICK m \in S : \A n \in S : <<n, m>> \notin OpToRel(<, Nat)
  BY <1>1, WFMin
<1>3. \A n \in S : ~(n < m)
  BY <1>2 DEF OpToRel
<1> QED BY <1>3

\* A face of the mesh is matched about its place.
LEMMA MatchedAbout ==
  ASSUME NEW body, NEW face, NEW tag \in Candidates(body, face)
  PROVE  Norm(Minus(Moment(body, body.skin[tag]), Times(Area(body, body.skin[tag]), face.centroid)))
           <= CentroidTolerance * Area(body, body.skin[tag])
<1>1. PICK triangles : triangles = body.skin[tag]
  OBVIOUS
<1>2. Norm(Minus(Moment(body, triangles), Times(Area(body, triangles), face.centroid)))
        <= CentroidTolerance * Area(body, triangles)
  BY ONLY <1>1, tag \in Candidates(body, face), Zenon DEF Candidates
<1> QED BY <1>1, <1>2

\* The face of a region, and the triangles it is matched to.
LEMMA RegionIsMatched ==
  ASSUME NEW p \in Meshable, NEW id \in RegionNames(Definitions[p[2]])
  PROVE  LET body == Bodies[p[1]]
             region == Region(Definitions[p[2]], id)
             face == body.faces[FaceOf(body, region)]
             area == Area(body, Surface(body, region))
         IN  /\ FaceOf(body, region) \in DOMAIN body.faces
             /\ Norm(Minus(Moment(body, Surface(body, region)), Times(area, face.centroid)))
                  <= CentroidTolerance * area
<1>1. Outcome(Bodies[p[1]], Definitions[p[2]]) = "SUCCEEDED" /\ p[1] \in DOMAIN Bodies
  BY DEF Meshable, OutcomesOf
<1>2. PICK body, definition : body = Bodies[p[1]] /\ definition = Definitions[p[2]]
  OBVIOUS
<1>3. RegionsMatch(body, definition.regions) /\ RegionsResolve(body, definition.regions)
  BY <1>1, <1>2 DEF Outcome
<1>4. PICK region : region = Region(definition, id)
  OBVIOUS
<1>5. region \in definition.regions
  BY <1>2, <1>4 DEF Region, RegionNames
<1>6. PICK face : face = body.faces[FaceOf(body, region)]
  OBVIOUS
<1>7. PICK C : C = Candidates(body, face)
  OBVIOUS
<1>8. Cardinality(C) = 1
  BY <1>3, <1>5, <1>6, <1>7 DEF RegionsMatch
<1>9. C # {}
  BY <1>8, FS_EmptySet
<1>10. PICK tag \in C : tag = CHOOSE t \in C : TRUE
  BY <1>9
<1>11. Surface(body, region) = body.skin[tag]
  BY <1>6, <1>7, <1>10 DEF Surface
<1>12. Norm(Minus(Moment(body, body.skin[tag]), Times(Area(body, body.skin[tag]), face.centroid)))
         <= CentroidTolerance * Area(body, body.skin[tag])
  BY <1>7, <1>10, MatchedAbout
<1>13. FaceOf(body, region) \in DOMAIN body.faces
  <2>1. PICK S : S = Outermost(body, region)
    OBVIOUS
  <2>2. S # {} /\ S \subseteq DOMAIN body.faces
    BY <1>3, <1>5, <2>1 DEF RegionsResolve, Resolvable, Outermost
  <2>3. DOMAIN body.faces \subseteq Nat
    <3>1. IsSeq(body.faces)
      BY <1>1, <1>2, BodiesAreGood DEF GoodBody
    <3>2. PICK faces : faces = body.faces
      OBVIOUS
    <3>3. Len(faces) \in Nat /\ DOMAIN faces = 1..Len(faces)
      BY <3>1, <3>2, Sequence
    <3>4. PICK n \in Nat : DOMAIN faces = 1..n
      BY <3>3
    <3> QED BY <3>2, <3>4
  <2>4. \E i \in S : \A j \in S : i <= j
    BY <2>2, <2>3, LeastIndex
  <2>5. FaceOf(body, region) \in S
    BY <2>1, <2>4 DEF FaceOf
  <2> QED BY <2>2, <2>5
<1> QED BY <1>2, <1>4, <1>6, <1>11, <1>12, <1>13

\* The triangles of a region have nodes of the body.
LEMMA RegionIsOnBody ==
  ASSUME NEW p \in Meshable, NEW id \in RegionNames(Definitions[p[2]])
  PROVE  OnBody(Bodies[p[1]], Surface(Bodies[p[1]], Region(Definitions[p[2]], id)))
<1>1. PICK body, definition : body = Bodies[p[1]] /\ definition = Definitions[p[2]]
  OBVIOUS
<1>2. PICK g \in DOMAIN Bodies : g = p[1]
  BY DEF Meshable, OutcomesOf
<1>3. PICK tag \in DOMAIN body.skin :
        /\ Surface(body, Region(definition, id)) = body.skin[tag]
        /\ \A k \in DOMAIN body.skin[tag] : Len(body.skin[tag][k].nodes) = 6
  BY <1>1, SurfaceOfRegion
<1>4. PICK T : T = body.skin[tag]
  OBVIOUS
<1>5. IsSeq(T)
  BY <1>1, <1>2, <1>3, <1>4, BodyAssumption
<1>6. IsFiniteSet(DOMAIN T)
  <2>1. Len(T) \in Nat /\ DOMAIN T = 1..Len(T)
    BY <1>5, Sequence
  <2> QED BY <2>1, FS_Interval
<1>7. ASSUME NEW i \in DOMAIN T, NEW k \in 1..3
      PROVE  T[i].nodes[k] \in DOMAIN body.nodes
  <2>1. PICK nodes : nodes = T[i].nodes
    OBVIOUS
  <2>2. nodes = Bodies[g].skin[tag][i].nodes /\ tag \in DOMAIN Bodies[g].skin
        /\ i \in DOMAIN Bodies[g].skin[tag]
    BY <1>1, <1>2, <1>3, <1>4, <2>1
  <2>3. IsSeq(nodes) /\ Range(nodes) \subseteq DOMAIN Bodies[g].nodes
    BY <2>2, NodesOfTriangle
  <2>4. Len(nodes) = 6
    BY <1>3, <1>4, <2>1
  <2>5. DOMAIN nodes = 1..6
    BY <2>3, <2>4, Sequence
  <2>6. nodes[k] \in Range(nodes)
    BY <2>5 DEF Range
  <2> QED BY <1>1, <1>2, <2>1, <2>3, <2>6
<1> QED BY <1>1, <1>3, <1>4, <1>6, <1>7 DEF OnBody

\* The forces of a load are about what they should be, and turn the body about as they
\* should do.
LEMMA LoadIsHeld ==
  ASSUME NEW p \in Meshable, NEW case \in DOMAIN Definitions[p[2]].loads,
         Buildable(Bodies[p[1]], Definitions[p[2]], case), NamesSurvive(Definitions[p[2]]),
         NEW i \in DOMAIN Resultants(Definitions[p[2]], case)
  PROVE  LET body == Bodies[p[1]]
             load == Resultants(Definitions[p[2]], case)[i]
             region == Region(Definitions[p[2]], load.region)
             centroid == body.faces[FaceOf(body, region)].centroid
             nodal == Nodals(body, Definitions[p[2]], case)[i]
         IN  /\ nodal \in Nodal(DOMAIN body.nodes)
             /\ load.force \in Vectors /\ centroid \in Vectors
             /\ Norm(Minus(Total(nodal), Times(3 * Scale, load.force))) <= ConservationTolerance
             /\ Norm(Minus(Turn(body, nodal), Times(Scale, Cross(centroid, load.force))))
                  <= ConservationTolerance + Scale * CentroidTolerance * Norm(load.force)
<1>1. PICK body, definition : body = Bodies[p[1]] /\ definition = Definitions[p[2]]
  OBVIOUS
<1>2. p[1] \in DOMAIN Bodies /\ p[2] \in DOMAIN Definitions
  BY DEF Meshable, OutcomesOf
<1>3. GoodBody(body)
  BY <1>1, <1>2, BodiesAreGood
<1>4. PICK loads, load : loads = Resultants(definition, case) /\ load = loads[i]
  OBVIOUS
<1>5. PICK id : id = load.region
  OBVIOUS
<1>6. /\ IsSeq(loads) /\ i \in DOMAIN loads
      /\ id \in RegionNames(definition) \intersect LoadedRegions(definition, case)
      /\ load.force \in Vectors
  BY <1>1, <1>2, <1>4, <1>5, DefinitionAssumption DEF Range, Vectors
<1>7. PICK region, face, T, P, nodal :
        /\ region = Region(definition, id) /\ face = body.faces[FaceOf(body, region)]
        /\ T = Surface(body, region) /\ P = Mapped(body, T)
        /\ nodal = NodalForces(body, definition, load)
  OBVIOUS
<1>0. /\ Extracted(body, definition, id) = T /\ Under(body, definition, load) = T
      /\ Observed(body, definition, load) = face.area
  <2>1. Extracted(body, definition, id) = T
    BY <1>1, <1>6, <1>7, ExtractedAsItIs
  <2> QED BY <1>5, <1>7, <2>1 DEF Under, Observed
<1>8. Nodals(body, definition, case)[i] = nodal
  BY <1>4, <1>5, <1>6, <1>7 DEF Nodals
<1>9. /\ face.area \in Nat \ {0} /\ face.centroid \in Vectors
      /\ Norm(Minus(Moment(body, T), Times(Area(body, T), face.centroid)))
           <= CentroidTolerance * Area(body, T)
  <2>1. /\ FaceOf(body, region) \in DOMAIN body.faces
        /\ Norm(Minus(Moment(body, T), Times(Area(body, T), face.centroid)))
             <= CentroidTolerance * Area(body, T)
    BY <1>1, <1>6, <1>7, RegionIsMatched
  <2> QED BY <1>3, <1>7, <2>1 DEF GoodBody
<1>10. OnBody(body, T)
  BY <1>1, <1>2, <1>6, <1>7, RegionIsOnBody
<1>11. Area(body, T) \in Int /\ Moment(body, T) \in Vectors
  BY <1>3, <1>10, SurfaceMeasures
<1>12. Mappable(body, T)
  BY <1>0, <1>1, <1>6 DEF Buildable
<1>13. DOMAIN P = DOMAIN T /\ \A k \in DOMAIN P : P[k] \in (DOMAIN body.tets) \X (DOMAIN LocalFaces)
  <2>1. DOMAIN P = DOMAIN T
    BY <1>7 DEF Mapped
  <2>2. ASSUME NEW k \in DOMAIN T
        PROVE  P[k] \in (DOMAIN body.tets) \X (DOMAIN LocalFaces)
    <3>1. PICK S : S = Places(body, T[k])
      OBVIOUS
    <3>2. Cardinality(S) = 1 /\ S \subseteq (DOMAIN body.tets) \X (DOMAIN LocalFaces)
      BY <1>12, <3>1 DEF Mappable, Places
    <3>3. S # {}
      BY <3>2, FS_EmptySet
    <3>4. P[k] = CHOOSE q \in S : TRUE
      BY <1>7, <3>1 DEF Mapped
    <3> QED BY <3>2, <3>3, <3>4
  <2> QED BY <2>1, <2>2
<1>14. nodal \in Nodal(DOMAIN body.nodes)
  <2>1. PICK areas : areas = Areas(body, T)
    OBVIOUS
  <2>2. \A k \in DOMAIN P : areas[k] \in Int
    BY <1>3, <1>10, <1>13, <2>1, TriangleMeasures DEF Areas
  <2>3. IsFiniteSet(DOMAIN P)
    BY <1>10, <1>13 DEF OnBody
  <2>4. PICK share \in Nat \ {0}, force \in Vectors : share = face.area /\ force = load.force
    BY <1>6, <1>9
  <2>5. Spread(body, areas, P, force, share) \in Nodal(DOMAIN body.nodes)
    BY <1>3, <1>13, <2>2, <2>3, SpreadIsNodal
  <2> QED BY <1>0, <1>7, <2>1, <2>4, <2>5 DEF NodalForces
<1>15. Area(body, T) > 0 /\ Conserved(body, T, load.force, nodal)
  <2>1. PICK before : before = SubSeq(Nodals(body, definition, case), 1, i - 1)
    OBVIOUS
  <2>2. PICK lowered : lowered = Lowered(body, definition, load, before)
    OBVIOUS
  <2>3. lowered = LoweredLoads(body, definition, case)[i]
        /\ i \in DOMAIN LoweredLoads(body, definition, case)
    BY <1>4, <1>5, <1>6, <1>7, <2>1, <2>2 DEF LoweredLoads
  <2>4. lowered \in Range(LoweredLoads(body, definition, case))
    BY <2>3 DEF Range
  <2>5. lowered.conserved
    BY <1>1, <2>4 DEF Buildable
  <2> QED BY <1>0, <1>7, <2>2, <2>5 DEF Lowered
<1>16. /\ Norm(Minus(Total(nodal), Times(3 * Scale, load.force))) <= ConservationTolerance
       /\ Norm(Minus(Times(Area(body, T), Turn(body, nodal)),
                     Times(Scale, Cross(Moment(body, T), load.force))))
            <= ConservationTolerance * Area(body, T)
  BY <1>15 DEF Conserved, Turn
<1>17. Norm(Minus(Turn(body, nodal), Times(Scale, Cross(face.centroid, load.force))))
         <= ConservationTolerance + Scale * CentroidTolerance * Norm(load.force)
  <2>1. PICK area \in Nat, turn \in Vectors, moment \in Vectors, place \in Vectors, force \in Vectors :
          /\ area = Area(body, T) /\ turn = Turn(body, nodal) /\ moment = Moment(body, T)
          /\ place = face.centroid /\ force = load.force
    <3>1. Turn(body, nodal) \in Vectors
      BY <1>3, <1>14, TotalOfAdded DEF GoodBody
    <3>2. Area(body, T) \in Nat
      BY <1>11, <1>15
    <3> QED BY <1>6, <1>9, <1>11, <3>1, <3>2
  <2>2. area > 0 /\ Scale \in Nat /\ ConservationTolerance \in Nat /\ CentroidTolerance \in Nat
    BY <1>15, <2>1, ToleranceAssumption
  <2>3. Norm(Minus(Times(area, turn), Times(Scale, Cross(moment, force)))) <= ConservationTolerance * area
    BY <1>16, <2>1
  <2>4. Norm(Minus(moment, Times(area, place))) <= CentroidTolerance * area
    BY <1>9, <2>1
  <2>5. Norm(Minus(turn, Times(Scale, Cross(place, force))))
          <= ConservationTolerance + Scale * CentroidTolerance * Norm(force)
    BY <2>2, <2>3, <2>4, TurnedAbout
  <2> QED BY <2>1, <2>5
<1> QED BY <1>1, <1>4, <1>5, <1>6, <1>7, <1>8, <1>9, <1>14, <1>16, <1>17

\* The forces of the loads of a case, and what they are to be.
LEMMA CaseIsHeld ==
  ASSUME NEW p \in Meshable, NEW case \in DOMAIN Definitions[p[2]].loads,
         Buildable(Bodies[p[1]], Definitions[p[2]], case), NamesSurvive(Definitions[p[2]]),
         NEW f, NEW m, NEW slack,
         LET body == Bodies[p[1]]
             loads == Resultants(Definitions[p[2]], case)
             centroid(i) ==
               body.faces[FaceOf(body, Region(Definitions[p[2]], loads[i].region))].centroid
         IN  /\ f = [i \in DOMAIN loads |-> Times(3 * Scale, loads[i].force)]
             /\ m = [i \in DOMAIN loads |-> Times(Scale, Cross(centroid(i), loads[i].force))]
             /\ slack = [i \in DOMAIN loads |->
                           ConservationTolerance + Scale * CentroidTolerance * Norm(loads[i].force)]
  PROVE  LET body == Bodies[p[1]]
             loads == Resultants(Definitions[p[2]], case)
         IN  /\ Len(loads) \in Nat /\ DOMAIN loads = 1..Len(loads)
             /\ Held(body, Len(loads), Nodals(body, Definitions[p[2]], case), f, m,
                     ConservationTolerance, slack)
<1>1. PICK body, definition : body = Bodies[p[1]] /\ definition = Definitions[p[2]]
  OBVIOUS
<1>2. p[1] \in DOMAIN Bodies /\ p[2] \in DOMAIN Definitions
  BY DEF Meshable, OutcomesOf
<1>3. PICK loads : loads = Resultants(definition, case)
  OBVIOUS
<1>4. IsSeq(loads)
  BY <1>1, <1>2, <1>3, DefinitionAssumption
<1>5. Len(loads) \in Nat /\ DOMAIN loads = 1..Len(loads)
  BY <1>4, Sequence
<1>6. PICK nodals : nodals = Nodals(body, definition, case)
  OBVIOUS
<1>7. DOMAIN nodals = DOMAIN loads
  BY <1>3, <1>6 DEF Nodals
<1> DEFINE centroid(i) == body.faces[FaceOf(body, Region(definition, loads[i].region))].centroid
<1>8. /\ f = [i \in DOMAIN loads |-> Times(3 * Scale, loads[i].force)]
      /\ m = [i \in DOMAIN loads |-> Times(Scale, Cross(centroid(i), loads[i].force))]
      /\ slack = [i \in DOMAIN loads |->
                    ConservationTolerance + Scale * CentroidTolerance * Norm(loads[i].force)]
  BY <1>1, <1>3
<1>9. ASSUME NEW i \in DOMAIN loads
      PROVE  /\ nodals[i] \in Nodal(DOMAIN body.nodes)
             /\ f[i] \in Vectors /\ m[i] \in Vectors /\ slack[i] \in Int
             /\ Norm(Minus(Total(nodals[i]), f[i])) <= ConservationTolerance
             /\ Norm(Minus(Turn(body, nodals[i]), m[i])) <= slack[i]
  <2>1. /\ nodals[i] \in Nodal(DOMAIN body.nodes)
        /\ loads[i].force \in Vectors /\ centroid(i) \in Vectors
        /\ Norm(Minus(Total(nodals[i]), Times(3 * Scale, loads[i].force))) <= ConservationTolerance
        /\ Norm(Minus(Turn(body, nodals[i]), Times(Scale, Cross(centroid(i), loads[i].force))))
             <= ConservationTolerance + Scale * CentroidTolerance * Norm(loads[i].force)
    BY <1>1, <1>3, <1>6, LoadIsHeld
  <2>2. PICK u \in Vectors, c \in Vectors : u = loads[i].force /\ c = centroid(i)
    BY <2>1
  <2>3. 3 * Scale \in Nat /\ Scale \in Nat /\ CentroidTolerance \in Nat /\ ConservationTolerance \in Nat
    BY ToleranceAssumption
  <2>4. Times(3 * Scale, u) \in Vectors
    BY <2>3, AnyTimes
  <2>5. PICK x \in Vectors : x = Cross(c, u)
    BY NormOfCross
  <2>6. Times(Scale, x) \in Vectors
    BY <2>3, AnyTimes
  <2>7. ConservationTolerance + Scale * CentroidTolerance * Norm(u) \in Int
    <3>1. PICK n \in Nat : n = Norm(u)
      BY NormOfSum
    <3> QED BY <2>3, <3>1
  <2> QED BY <1>8, <2>1, <2>2, <2>4, <2>5, <2>6, <2>7
<1>10. Held(body, Len(loads), nodals, f, m, ConservationTolerance, slack)
  BY <1>5, <1>7, <1>9 DEF Held
<1> QED BY <1>1, <1>3, <1>5, <1>6, <1>10

\* Those forces put together are what they are to be.
LEMMA BuiltIsHeld ==
  ASSUME NEW p \in Meshable, NEW case \in DOMAIN Definitions[p[2]].loads,
         Buildable(Bodies[p[1]], Definitions[p[2]], case), NamesSurvive(Definitions[p[2]])
  PROVE  LET body == Bodies[p[1]]
             loads == Resultants(Definitions[p[2]], case)
             centroid(i) ==
               body.faces[FaceOf(body, Region(Definitions[p[2]], loads[i].region))].centroid
             forces == Together(Nodals(body, Definitions[p[2]], case))
             f == [i \in DOMAIN loads |-> Times(3 * Scale, loads[i].force)]
             m == [i \in DOMAIN loads |-> Times(Scale, Cross(centroid(i), loads[i].force))]
             slack == [i \in DOMAIN loads |->
                         ConservationTolerance + Scale * CentroidTolerance * Norm(loads[i].force)]
         IN  /\ Norm(Minus(Total(forces), Total(f))) <= Len(loads) * ConservationTolerance
             /\ Norm(Minus(Turn(body, forces), Total(m))) <= SumFunction(slack)
<1>1. PICK body, definition : body = Bodies[p[1]] /\ definition = Definitions[p[2]]
  OBVIOUS
<1>2. PICK loads, nodals : loads = Resultants(definition, case) /\ nodals = Nodals(body, definition, case)
  OBVIOUS
<1> DEFINE centroid(i) == body.faces[FaceOf(body, Region(definition, loads[i].region))].centroid
<1>3. PICK f, m, slack :
        /\ f = [i \in DOMAIN loads |-> Times(3 * Scale, loads[i].force)]
        /\ m = [i \in DOMAIN loads |-> Times(Scale, Cross(centroid(i), loads[i].force))]
        /\ slack = [i \in DOMAIN loads |->
                      ConservationTolerance + Scale * CentroidTolerance * Norm(loads[i].force)]
  OBVIOUS
<1>4. PICK n \in Nat : n = Len(loads) /\ DOMAIN loads = 1..n
                       /\ Held(body, n, nodals, f, m, ConservationTolerance, slack)
  BY <1>1, <1>2, <1>3, CaseIsHeld
<1>5. GoodBody(body)
  <2>1. p[1] \in DOMAIN Bodies
    BY DEF Meshable, OutcomesOf
  <2> QED BY <1>1, <2>1, BodiesAreGood
<1>6. /\ Norm(Minus(Total(Together(nodals)), TotalOn(f, 1..n))) <= n * ConservationTolerance
      /\ Norm(Minus(Turn(body, Together(nodals)), TotalOn(m, 1..n))) <= SumFunctionOnSet(slack, 1..n)
  BY <1>4, <1>5, ToleranceAssumption, HeldTogether DEF GoodBody
<1>7. Total(f) = TotalOn(f, 1..n) /\ Total(m) = TotalOn(m, 1..n)
  BY <1>3, <1>4, TotalIs
<1>8. SumFunction(slack) = SumFunctionOnSet(slack, 1..n)
  BY <1>3, <1>4 DEF SumFunction, SumFunctionOnSet, FoldFunction
<1>9. /\ Norm(Minus(Total(Together(nodals)), Total(f))) <= Len(loads) * ConservationTolerance
      /\ Norm(Minus(Turn(body, Together(nodals)), Total(m))) <= SumFunction(slack)
  BY <1>4, <1>6, <1>7, <1>8
<1> QED BY <1>1, <1>2, <1>3, <1>9

(***************************************************************************)
(* A deck that was built applies, in sum and in moment, the resultants of  *)
(* its case, as far as the tolerances of its loads allow: whatever body,   *)
(* mesh, regions and loads, and however many nodes loads share, as long as *)
(* the names of the regions are in an INP file what they are (deck.py,     *)
(* _lower_resultant_force and build).                                      *)
(***************************************************************************)
THEOREM DecksHold ==
  ASSUME NEW j \in Jobs, Decks[j] # None, NamesSurvive(Definitions[j[2]])
  PROVE  Holding[j]
<1>0. PICK p \in Meshable : \E c \in DOMAIN Definitions[p[2]].loads : j = <<p[1], p[2], c>>
  BY DEF Jobs
<1>1. PICK case \in DOMAIN Definitions[p[2]].loads : j[1] = p[1] /\ j[2] = p[2] /\ j[3] = case
  BY <1>0
<1>2. PICK body, definition : body = Bodies[p[1]] /\ definition = Definitions[p[2]]
  OBVIOUS
<1>3. Buildable(body, definition, case) /\ Decks[j] = Deck(body, definition, case)
  BY <1>1, <1>2, WorkedOut DEF DecksOf
<1>4. Decks[j].forces = Together(Nodals(body, definition, case))
  BY <1>3 DEF Deck
<1> DEFINE loads == Resultants(definition, case)
           face(load) == FaceOf(body, Region(definition, load.region))
           centroid(load) == body.faces[face(load)].centroid
           forces == Decks[j].forces
           sum == Total([i \in DOMAIN loads |-> Times(3 * Scale, loads[i].force)])
           turn == Total([i \in DOMAIN loads |-> Times(Scale, Cross(centroid(loads[i]), loads[i].force))])
           slack == SumFunction([i \in DOMAIN loads |->
                      ConservationTolerance + Scale * CentroidTolerance * Norm(loads[i].force)])
<1>5. /\ Norm(Minus(Total(forces), sum)) <= Len(loads) * ConservationTolerance
      /\ Norm(Minus(Turn(body, forces), turn)) <= slack
  BY <1>1, <1>2, <1>3, <1>4, BuiltIsHeld
<1>6. Norm(Minus(Total([n \in DOMAIN forces |-> Cross(body.nodes[n], forces[n])]), turn)) <= slack
  BY <1>5 DEF Turn
<1>7. HoldingOf[j] = (/\ Decks[j] # None
                      /\ Norm(Minus(Total(forces), sum)) <= Len(loads) * ConservationTolerance
                      /\ Norm(Minus(Total([n \in DOMAIN forces |-> Cross(body.nodes[n], forces[n])]), turn))
                           <= slack)
  BY <1>1, <1>2 DEF HoldingOf
<1> HIDE DEF loads, forces, sum, turn, slack
<1> QED BY <1>5, <1>6, <1>7, Reconstruction

-----------------------------------------------------------------------------
(* Studies: each says of the executions of its levels what it found.       *)

\* The change between two responses is within a threshold.
Near(threshold, before, after) ==
  \/ 100 * Size(after - before) <= threshold * after
  \/ 100 * Size(after - before) <= threshold * Epsilon
Tip(e) == e.cases[1].output.frd.displacement
Alike(q, r) ==
  q.definition = r.definition /\ q.revision = r.revision /\ q.geometry = r.geometry /\ q.cases = r.cases

Compared(s, f) ==
  /\ StudyFits(s.study) /\ IsSeq(s.study.specs)
  /\ DOMAIN s.levels = DOMAIN s.study.specs /\ Len(s.levels) = Len(s.study.specs)
  /\ \A i \in DOMAIN s.levels :
       /\ f[i].request.mesh = s.study.specs[i] /\ f[i].request.cases = <<s.study.case>>
       /\ \A j \in DOMAIN s.levels : Alike(f[i].request, f[j].request)
  /\ s.status = "CONVERGED" =>
       \A i \in 2..Len(s.levels) : Near(s.study.threshold, Tip(f[i - 1]), Tip(f[i]))

Execution(s) == [i \in DOMAIN s.levels |-> executions[s.levels[i].run]]

AnalysisInv(a) ==
  /\ a.run \in Runs
  /\ Founded(a, executions[a.run], history[executions[a.run].request.revision])
StudyInv(s) ==
  /\ \A i \in DOMAIN s.levels : s.levels[i].run \in Runs /\ executions[s.levels[i].run].manifest
  /\ Compared(s, Execution(s))

EvidenceInv ==
  /\ ExecutionsInv
  /\ \A a \in analyses : AnalysisInv(a)
  /\ \A s \in studies : StudyInv(s)
  /\ publishing # None =>
       /\ publishing.kind = "analysis" => AnalysisInv(publishing.record)
       /\ publishing.kind = "study" => StudyInv(publishing.record)

LEMMA AlikeRequests ==
  ASSUME NEW q, NEW r, IsRequest(q), IsRequest(r), Semantics(q) = Semantics(r)
  PROVE  Alike(q, r)
<1>1. DOMAIN q = RequestFields /\ DOMAIN r = RequestFields
  BY DEF IsRequest
<1>2. \A p \in {q, r} :
        /\ Semantics(p).definition = p.definition /\ Semantics(p).revision = p.revision
        /\ Semantics(p).geometry = p.geometry /\ Semantics(p).cases = p.cases
  BY <1>1 DEF Semantics, RequestFields
<1> QED BY <1>2 DEF Alike

LEMMA EvaluatedIsCompared ==
  ASSUME EvidenceInv, NEW study \in Studies, NEW levels \in [DOMAIN study.specs -> analyses],
         Evaluable(study, levels), NEW s, s = Study(study, levels)
  PROVE  StudyInv(s)
<1>1. PICK f : f = [i \in DOMAIN levels |-> executions[levels[i].run]]
  OBVIOUS
<1>2. s.study = study /\ s.levels = levels /\ s.status = StudyStatus(study, levels)
  BY DEF Study
<1>3. \A i \in DOMAIN levels :
        /\ levels[i] \in analyses /\ levels[i].run \in Runs /\ f[i] = executions[levels[i].run]
        /\ \E d : Founded(levels[i], f[i], d)
  BY <1>1 DEF EvidenceInv, AnalysisInv
<1>4. \A i \in DOMAIN levels : IsRequest(f[i].request) /\ f[i].manifest
  BY <1>3 DEF EvidenceInv, ExecutionsInv, Sound, Bound, Founded
<1>5. study.threshold \in Nat /\ IsSeq(study.specs) /\ Epsilon \in Nat
  BY EvidenceAssumption
<1>6. /\ DOMAIN levels = DOMAIN study.specs /\ Len(levels) = Len(study.specs)
      /\ StudyFits(study) /\ Comparable(study, levels)
  BY DEF Evaluable
<1>7. Len(levels) \in Nat /\ Len(levels) >= 3 /\ DOMAIN levels = 1..Len(levels)
  BY <1>5, <1>6, Sequence DEF StudyFits
<1>8. \A i \in DOMAIN levels :
        /\ f[i].request.mesh = study.specs[i] /\ f[i].request.cases = <<study.case>>
        /\ Semantics(f[i].request) = Semantics(f[1].request)
  BY <1>1, <1>6, <1>7 DEF Comparable, Request
<1>9. ASSUME NEW i \in DOMAIN levels, NEW j \in DOMAIN levels
      PROVE  Alike(f[i].request, f[j].request)
  BY <1>4, <1>8, AlikeRequests
<1>10. ASSUME s.status = "CONVERGED", NEW i \in 2..Len(levels)
       PROVE  Near(study.threshold, Tip(f[i - 1]), Tip(f[i]))
  <2>1. \A k \in DOMAIN levels : levels[k].response # None
    BY <1>2, <1>10 DEF StudyStatus
  <2>2. Close(study, levels[i - 1].response, levels[i].response)
    BY <1>2, <1>10, <2>1 DEF StudyStatus
  <2>3. ASSUME NEW k \in DOMAIN levels
        PROVE  levels[k].response = Tip(f[k]) /\ Tip(f[k]) \in Nat
    <3>1. Complete(f[k]) /\ levels[k].response = Tip(f[k])
      BY <1>3, <2>1 DEF Founded, Tip
    <3>2. 1 \in DOMAIN f[k].request.cases
      BY <1>8
    <3> QED BY <3>1, <3>2 DEF Complete, Tip
  <2>4. i \in DOMAIN levels /\ i - 1 \in DOMAIN levels
    BY <1>7
  <2>5. PICK before, after : before = Tip(f[i - 1]) /\ after = Tip(f[i])
    OBVIOUS
  <2>6. before \in Nat /\ after \in Nat /\ Close(study, before, after)
    BY <2>2, <2>3, <2>4, <2>5
  <2>7. Size(after) = after /\ Size(before) = before
    BY <2>6 DEF Size
  <2>8. Near(study.threshold, before, after)
    <3>1. 100 * Size(after - before)
            <= study.threshold * (IF after > Epsilon THEN after ELSE Epsilon)
      BY <2>6, <2>7 DEF Close
    <3>2. CASE after > Epsilon
      BY <3>1, <3>2 DEF Near
    <3>3. CASE ~(after > Epsilon)
      BY <3>1, <3>3 DEF Near
    <3> QED BY <3>2, <3>3
  <2> QED BY <2>5, <2>8
<1>11. Compared(s, f)
  BY <1>2, <1>5, <1>6, <1>8, <1>9, <1>10 DEF Compared
<1>12. f = Execution(s)
  BY <1>1, <1>2 DEF Execution
<1> QED BY <1>2, <1>3, <1>4, <1>11, <1>12 DEF StudyInv

-----------------------------------------------------------------------------
(* The inductive invariant *)

LEMMA SettledRecords ==
  ASSUME EvidenceInv, Settled
  PROVE  /\ \A a : AnalysisInv(a) => AnalysisInv(a)'
         /\ \A s : StudyInv(s) => StudyInv(s)'
<1>1. ASSUME NEW a, AnalysisInv(a)
      PROVE  AnalysisInv(a)'
  <2>1. PICK e, d : e = executions[a.run] /\ d = history[e.request.revision]
    OBVIOUS
  <2>2. a.run \in Runs /\ Founded(a, e, d) /\ e.manifest
    BY <1>1, <2>1 DEF AnalysisInv, Founded
  <2>3. e.request.revision \in DOMAIN history
    BY <2>1, <2>2 DEF EvidenceInv, ExecutionsInv, Sound, Bound
  <2>4. a.run \in Runs' /\ executions'[a.run] = e /\ history'[e.request.revision] = d
    BY <2>1, <2>2, <2>3 DEF Settled
  <2> QED BY <2>2, <2>4 DEF AnalysisInv
<1>2. ASSUME NEW s, StudyInv(s)
      PROVE  StudyInv(s)'
  <2>1. PICK f : f = Execution(s)
    OBVIOUS
  <2>2. /\ \A i \in DOMAIN s.levels :
            s.levels[i].run \in Runs /\ executions[s.levels[i].run].manifest
        /\ Compared(s, f)
    BY <1>2, <2>1 DEF StudyInv
  <2>3. \A i \in DOMAIN s.levels :
          s.levels[i].run \in Runs' /\ executions'[s.levels[i].run] = executions[s.levels[i].run]
    BY <2>2 DEF Settled
  <2>4. f = Execution(s)'
    BY <2>1, <2>3 DEF Execution
  <2> QED BY <2>2, <2>3, <2>4 DEF StudyInv
<1> QED BY <1>1, <1>2

LEMMA Unchanged ==
  ASSUME EvidenceInv, UNCHANGED execVars
  PROVE  ExecutionsInv' /\ Settled
  BY DEF EvidenceInv, execVars, ExecutionsInv, Settled, Runs

LEMMA EvidenceInvStep ==
  ASSUME EvidenceInv, [EvidenceNext]_vars
  PROVE  EvidenceInv'
<1>1. ASSUME UNCHANGED evidenceVars, [ExecutionNext]_execVars
      PROVE  EvidenceInv'
  <2>1. ExecutionsInv' /\ Settled
    BY <1>1, ExecutionsStep DEF EvidenceInv
  <2>2. publishing' = publishing /\ analyses' = analyses /\ studies' = studies
    BY <1>1 DEF evidenceVars
  <2>3. \A a : AnalysisInv(a) => AnalysisInv(a)'
    BY <2>1, SettledRecords
  <2>4. \A s : StudyInv(s) => StudyInv(s)'
    BY <2>1, SettledRecords
  <2>5. PICK p : p = publishing
    OBVIOUS
  <2>6. p # None =>
          /\ p.kind = "analysis" => AnalysisInv(p.record)'
          /\ p.kind = "study" => StudyInv(p.record)'
    BY <2>3, <2>4, <2>5 DEF EvidenceInv
  <2> QED BY <2>1, <2>2, <2>3, <2>4, <2>5, <2>6 DEF EvidenceInv
<1>2. ASSUME NEW x \in Runs, NEW validated \in BOOLEAN, VerifyAnalysis(x, validated)
      PROVE  EvidenceInv'
  <2>1. UNCHANGED <<execVars, analyses, studies>> /\ Verifiable(x)
    BY <1>2 DEF VerifyAnalysis
  <2>2. ExecutionsInv' /\ Settled
    BY <2>1, Unchanged
  <2>3. PICK a, p : a = Analysis(x, validated) /\ p = publishing'
    OBVIOUS
  <2>4. p = [kind |-> "analysis", record |-> a]
    BY <1>2, <2>3 DEF VerifyAnalysis
  <2>5. AnalysisInv(a)
    <3>1. a.run = x /\ Founded(a, executions[x], history[executions[x].request.revision])
      BY <2>1, <2>3, VerifiedIsFounded DEF EvidenceInv
    <3> QED BY <3>1 DEF AnalysisInv
  <2>6. AnalysisInv(a)'
    BY <2>2, <2>5, SettledRecords
  <2> QED BY <2>1, <2>2, <2>3, <2>4, <2>6, SettledRecords DEF EvidenceInv
<1>3. ASSUME NEW study \in Studies, NEW levels \in [DOMAIN study.specs -> analyses],
             VerifyStudy(study, levels)
      PROVE  EvidenceInv'
  <2>1. UNCHANGED <<execVars, analyses, studies>> /\ Evaluable(study, levels)
    BY <1>3 DEF VerifyStudy
  <2>2. ExecutionsInv' /\ Settled
    BY <2>1, Unchanged
  <2>3. PICK s, p : s = Study(study, levels) /\ p = publishing'
    OBVIOUS
  <2>4. p = [kind |-> "study", record |-> s]
    BY <1>3, <2>3 DEF VerifyStudy
  <2>5. StudyInv(s)
    BY <2>1, <2>3, EvaluatedIsCompared
  <2>6. StudyInv(s)'
    BY <2>2, <2>5, SettledRecords
  <2> QED BY <2>1, <2>2, <2>3, <2>4, <2>6, SettledRecords DEF EvidenceInv
<1>4. CASE Write
  <2>1. /\ UNCHANGED execVars /\ publishing # None /\ publishing' = None
        /\ analyses' \subseteq analyses \union
              (IF publishing.kind = "analysis" THEN {publishing.record} ELSE {})
        /\ studies' \subseteq studies \union
              (IF publishing.kind = "study" THEN {publishing.record} ELSE {})
    BY <1>4 DEF Write
  <2>2. ExecutionsInv' /\ Settled
    BY <2>1, Unchanged
  <2>3. (\A a : AnalysisInv(a) => AnalysisInv(a)') /\ (\A s : StudyInv(s) => StudyInv(s)')
    BY <2>2, SettledRecords
  <2>4. \A a \in analyses' : AnalysisInv(a)
    BY <2>1 DEF EvidenceInv
  <2>5. \A s \in studies' : StudyInv(s)
    BY <2>1 DEF EvidenceInv
  <2> QED BY <2>1, <2>2, <2>3, <2>4, <2>5 DEF EvidenceInv
<1>5. CASE Abandon
  <2>1. UNCHANGED <<history, executions, analyses, studies>> /\ publishing' = None
    BY <1>5 DEF Abandon
  <2>2. ExecutionsInv' /\ Settled
    BY <2>1 DEF EvidenceInv, ExecutionsInv, Settled, Runs
  <2> QED BY <2>1, <2>2, SettledRecords DEF EvidenceInv
<1>6. CASE UNCHANGED vars
  BY <1>1, <1>6 DEF vars, evidenceVars, execVars
<1> QED BY <1>1, <1>2, <1>3, <1>4, <1>5, <1>6 DEF EvidenceNext

LEMMA EvidenceInvInit ==
  ASSUME EvidenceInit
  PROVE  EvidenceInv
<1>1. IsSeq(executions)
  BY DEF EvidenceInit, Init, IsSeq
<1>2. IsSeq(history)
  BY DEF EvidenceInit, Init, IsSeq
<1>3. Runs = {}
  BY DEF EvidenceInit, Init, Runs
<1> QED BY <1>1, <1>2, <1>3 DEF EvidenceInit, EvidenceInv, ExecutionsInv

-----------------------------------------------------------------------------
(* Theorems *)

(***************************************************************************)
(* Executions are of requests and revisions there are; one that has been   *)
(* meshed is of the definition of its revision; and one with its manifest  *)
(* is done with.                                                           *)
(***************************************************************************)
THEOREM ExecutionsAreSound == Spec => []ExecutionsInv
<1>1. EvidenceInit => ExecutionsInv
  BY EvidenceInvInit DEF EvidenceInv
<1>2. ASSUME ExecutionsInv, [EvidenceNext]_vars
      PROVE  ExecutionsInv'
  <2>1. CASE UNCHANGED <<history, executions>>
    BY <1>2, <2>1 DEF ExecutionsInv, Runs
  <2>2. CASE ExecutionNext
    BY <1>2, <2>2, ExecutionsStep
  <2>3. ASSUME NEW x, NEW validated, VerifyAnalysis(x, validated)
        PROVE  UNCHANGED <<history, executions>>
    BY <2>3 DEF VerifyAnalysis, execVars
  <2>4. ASSUME NEW study, NEW levels, VerifyStudy(study, levels)
        PROVE  UNCHANGED <<history, executions>>
    BY <2>4 DEF VerifyStudy, execVars
  <2>5. Write \/ Abandon \/ UNCHANGED vars => UNCHANGED <<history, executions>>
    BY DEF Write, Abandon, execVars, vars
  <2> QED BY <1>2, <2>1, <2>2, <2>3, <2>4, <2>5 DEF EvidenceNext
<1> QED BY <1>1, <1>2, PTL DEF Spec

(***************************************************************************)
(* An execution with a manifest is never changed, and no revision is.      *)
(***************************************************************************)
THEOREM ManifestsStay == Spec => [][Settled]_vars
<1>1. ASSUME ExecutionsInv, [EvidenceNext]_vars
      PROVE  Settled
  <2>1. CASE UNCHANGED <<history, executions>>
    BY <2>1 DEF Settled, Runs
  <2>2. CASE ExecutionNext
    BY <1>1, <2>2, ExecutionsStep
  <2>3. ASSUME NEW x, NEW validated, VerifyAnalysis(x, validated)
        PROVE  UNCHANGED <<history, executions>>
    BY <2>3 DEF VerifyAnalysis, execVars
  <2>4. ASSUME NEW study, NEW levels, VerifyStudy(study, levels)
        PROVE  UNCHANGED <<history, executions>>
    BY <2>4 DEF VerifyStudy, execVars
  <2>5. Write \/ Abandon \/ UNCHANGED vars => UNCHANGED <<history, executions>>
    BY DEF Write, Abandon, execVars, vars
  <2> QED BY <1>1, <2>1, <2>2, <2>3, <2>4, <2>5 DEF EvidenceNext
<1> QED BY <1>1, ExecutionsAreSound, PTL DEF Spec

LEMMA EvidenceInvHolds == Spec => []EvidenceInv
<1>1. EvidenceInit => EvidenceInv
  BY EvidenceInvInit
<1>2. EvidenceInv /\ [EvidenceNext]_vars => EvidenceInv'
  BY EvidenceInvStep
<1> QED BY <1>1, <1>2, PTL DEF Spec

(***************************************************************************)
(* An execution that succeeded can become evidence, but for the exceptions *)
(* the property names, for any bodies and definitions: the forces that are *)
(* worked out a second time from the faces a deck names are those of the   *)
(* deck, and the files of a solver that succeeded are read without fail    *)
(* (service.py; evidence_service.py; results.py:1227-1472).                *)
(***************************************************************************)
THEOREM SuccessCanBeEvidence == Spec => []SuccessIsAdmissible
<1>1. ExecutionsInv => SuccessIsAdmissible
  <2> SUFFICES ASSUME ExecutionsInv, NEW x \in Runs,
                      executions[x].manifest, executions[x].status = "SUCCEEDED",
                      {d \in damaged : d[1] = x \/ d = <<0, Request(x).geometry>>} = {},
                      copies[Request(x).geometry] = 1,
                      Genuine(Request(x)), NamesSurvive(Definition(x)),
                      AreasAgree(Mesh(x)), NoneFlat(Body(x)),
                      \A c \in Lines(x) : c.output.frd.nodes = DOMAIN Body(x).nodes,
                      "reactions" \in Request(x).fields =>
                        \A c \in Lines(x) : Reported(Mesh(x), Supports(Definition(x), c.case))
               PROVE  Verifiable(x)
    BY DEF SuccessIsAdmissible
  <2>1. \A d \in damaged : d[1] # x /\ d # <<0, Request(x).geometry>>
    OBVIOUS
  <2> QED BY <2>1, SucceededIsAdmissible
<1> QED BY <1>1, ExecutionsAreSound, PTL

(***************************************************************************)
(* Evidence of an analysis rests on an execution that succeeded, case by   *)
(* case, and its verdict is that of what the solver wrote against the      *)
(* definition in the revision of the request; the decks it ran apply the   *)
(* forces of their cases.                                                  *)
(***************************************************************************)
THEOREM EvidenceIsFounded == Spec => []EvidenceRestsOnSuccess
<1>1. EvidenceInv => EvidenceRestsOnSuccess
  <2> SUFFICES ASSUME EvidenceInv, NEW a \in analyses
               PROVE  LET x == a.run
                          criteria == Definitions[history[Request(x).revision]].criteria
                      IN  /\ executions[x].manifest
                          /\ {c.case : c \in Lines(x)} = Range(Request(x).cases)
                          /\ \A c \in Lines(x) :
                               /\ c.output.exit = 0 /\ c.output.finished
                               /\ Request(x).fields \ {"reactions"} \subseteq c.output.frd.datasets
                               /\ Holding[<<Request(x).geometry, history[Request(x).revision], c.case>>]
                          /\ a.verdict = "PASS" => criteria # {} /\ \A c \in criteria : Meets(x, c)
                          /\ a.verdict = "FAIL" => \E c \in criteria : Broken(x, c)
    BY DEF EvidenceRestsOnSuccess
  <2> DEFINE x == a.run
             e == executions[x]
             criteria == Definitions[history[e.request.revision]].criteria
  <2>1. PICK d : d = history[e.request.revision]
    OBVIOUS
  <2>2. Founded(a, e, d)
    BY <2>1 DEF EvidenceInv, AnalysisInv
  <2>3. e.manifest /\ e.request.definition = d /\ Complete(e) /\ Read(e)
    BY <2>2 DEF Founded
  <2>4. Lines(x) = {e.cases[i] : i \in DOMAIN e.cases}
    BY DEF Lines
  <2>5. {c.case : c \in Lines(x)} = Range(e.request.cases)
    <3> HIDE DEF e, x
    <3>1. {c.case : c \in Lines(x)} = {e.cases[i].case : i \in DOMAIN e.cases}
      BY <2>4
    <3>2. {e.cases[i].case : i \in DOMAIN e.cases} = Range(e.request.cases)
      BY <2>3 DEF Complete, Range
    <3> QED BY <3>1, <3>2
  <2>6. ASSUME NEW c \in Lines(x)
        PROVE  /\ c.output.exit = 0 /\ c.output.finished
               /\ e.request.fields \ {"reactions"} \subseteq c.output.frd.datasets
               /\ Holding[<<e.request.geometry, d, c.case>>]
    <3> HIDE DEF e, x
    <3>1. PICK i \in DOMAIN e.cases : c = e.cases[i]
      BY <2>4
    <3>2. c.output.exit = 0 /\ c.output.finished
      BY <2>3, <3>1 DEF Complete
    <3>3. PICK j : j = <<e.request.geometry, d, c.case>>
      OBVIOUS
    <3>4. e.request.fields \ {"reactions"} \subseteq c.output.frd.datasets
          /\ j \in Jobs /\ Faithful[j] /\ NamesSurvive(Definitions[j[2]])
      BY <2>3, <3>1, <3>3 DEF Read
    <3>5. Holding[j]
      <4>1. Decks[j] # None
        BY <3>4, Reconstruction DEF FaithfulOf
      <4> QED BY <3>4, <4>1, DecksHold
    <3> QED BY <3>2, <3>3, <3>4, <3>5
  <2>7. ASSUME NEW c
        PROVE  (Keeps(e, c) => Meets(x, c)) /\ (Breaks(e, c) => Broken(x, c))
    BY <2>4 DEF Keeps, Meets, Breaks, Broken, Told, Tells, Request, Definition
  <2>8. criteria = Definitions[d].criteria
    BY <2>1
  <2>9. /\ a.verdict = "PASS" => criteria # {} /\ \A c \in criteria : Keeps(e, c)
        /\ a.verdict = "FAIL" => \E c \in criteria : Breaks(e, c)
    BY <2>2, <2>8 DEF Founded
  <2> QED BY <2>1, <2>3, <2>5, <2>6, <2>7, <2>9 DEF Request
<1> QED BY <1>1, EvidenceInvHolds, PTL

LEMMA AtLeastThree ==
  ASSUME NEW specs, IsSeq(specs), IsInjective(specs), Len(specs) >= 3
  PROVE  Cardinality(Range(specs)) >= 3
<1>1. Len(specs) \in Nat /\ DOMAIN specs = 1..Len(specs)
  BY Sequence
<1>2. specs \in [1..Len(specs) -> Range(specs)]
  <2>1. specs \in Seq({specs[i] : i \in DOMAIN specs})
    BY DEF IsSeq
  <2>2. Range(specs) = {specs[i] : i \in DOMAIN specs}
    BY DEF Range
  <2> QED BY <1>1, <2>1, <2>2
<1>3. specs \in Surjection(1..Len(specs), Range(specs)) \cap Injection(1..Len(specs), Range(specs))
  BY <1>1, <1>2 DEF Surjection, Injection, Range, IsInjective
<1>4. IsFiniteSet(1..Len(specs)) /\ Cardinality(1..Len(specs)) = Len(specs)
  BY <1>1, FS_Interval
<1>5. Cardinality(Range(specs)) = Len(specs)
  BY <1>3, <1>4, FS_Surjection
<1> QED BY <1>5

(***************************************************************************)
(* Records are compared with their like: the levels of a study are of      *)
(* three meshes or more and otherwise of one request, none of one that     *)
(* converged is further from the one before than the threshold allows; and *)
(* records that repeat each other differ, case by case, by the tolerance   *)
(* at most.                                                                *)
(***************************************************************************)
THEOREM LikeWithLike == Spec => []ComparisonsAreOfLike
<1> DEFINE Studied(s) ==
      LET runs == {s.levels[i].run : i \in DOMAIN s.levels}
      IN  /\ Cardinality({Request(x).mesh : x \in runs}) >= 3
          /\ \A x, y \in runs :
               /\ Request(x).definition = Request(y).definition
               /\ Request(x).revision = Request(y).revision
               /\ Request(x).geometry = Request(y).geometry
               /\ Request(x).cases = Request(y).cases /\ Len(Request(x).cases) = 1
          /\ s.status = "CONVERGED" =>
               \A i \in 2..Len(s.levels) :
                 LET tip(j) == executions[s.levels[j].run].cases[1].output.frd.displacement
                     change == 100 * Size(tip(i) - tip(i - 1))
                 IN  \/ change <= s.study.threshold * tip(i)
                     \/ change <= s.study.threshold * Epsilon
    Repeats(a, b) ==
      /\ Request(a.run) = Request(b.run)
      /\ \A i \in DOMAIN executions[a.run].cases :
           Size(executions[a.run].cases[i].output.frd.displacement
                  - executions[b.run].cases[i].output.frd.displacement) <= RepeatTolerance
<1>1. ASSUME EvidenceInv, NEW s \in studies
      PROVE  Studied(s)
  <2>1. PICK f, runs : f = Execution(s) /\ runs = {s.levels[i].run : i \in DOMAIN s.levels}
    OBVIOUS
  <2>2. Compared(s, f)
    BY <1>1, <2>1 DEF EvidenceInv, StudyInv
  <2>3. \A i \in DOMAIN s.levels : f[i] = executions[s.levels[i].run]
    BY <2>1 DEF Execution
  <2>4. Len(s.levels) \in Nat /\ DOMAIN s.levels = 1..Len(s.levels) /\ Len(s.levels) >= 3
    BY <2>2, Sequence DEF Compared, StudyFits
  <2>5. {Request(x).mesh : x \in runs} = Range(s.study.specs)
    <3>1. \A i \in DOMAIN s.levels : Request(s.levels[i].run).mesh = s.study.specs[i]
      BY <2>2, <2>3 DEF Compared, Request
    <3> QED BY <2>1, <2>2, <3>1 DEF Compared, Range
  <2>6. Cardinality({Request(x).mesh : x \in runs}) >= 3
    BY <2>2, <2>5, AtLeastThree DEF Compared, StudyFits
  <2>7. ASSUME NEW i \in DOMAIN s.levels, NEW j \in DOMAIN s.levels
        PROVE  /\ Alike(Request(s.levels[i].run), Request(s.levels[j].run))
               /\ Len(Request(s.levels[i].run).cases) = 1
    <3>1. Request(s.levels[i].run) = f[i].request /\ Request(s.levels[j].run) = f[j].request
      BY <2>3 DEF Request
    <3>2. Alike(f[i].request, f[j].request) /\ f[i].request.cases = <<s.study.case>>
      BY <2>2 DEF Compared
    <3> QED BY <3>1, <3>2
  <2>8. \A x, y \in runs : Alike(Request(x), Request(y)) /\ Len(Request(x).cases) = 1
    BY <2>1, <2>7
  <2>9. ASSUME s.status = "CONVERGED", NEW i \in 2..Len(s.levels)
        PROVE  Near(s.study.threshold, Tip(executions[s.levels[i - 1].run]),
                    Tip(executions[s.levels[i].run]))
    <3>1. i \in DOMAIN s.levels /\ i - 1 \in DOMAIN s.levels
      BY <2>4
    <3> QED BY <2>2, <2>3, <2>9, <3>1 DEF Compared
  <2> QED BY <2>1, <2>6, <2>8, <2>9 DEF Alike, Near, Tip
<1>2. ASSUME EvidenceInv, NEW a \in analyses, NEW b \in analyses, Repeatable(a, b)
      PROVE  Repeats(a, b)
  <2>1. PICK e, f : e = executions[a.run] /\ f = executions[b.run]
    OBVIOUS
  <2>2. a.run \in Runs /\ b.run \in Runs /\ Complete(e) /\ Complete(f) /\ e.request = f.request
    BY <1>2, <2>1 DEF EvidenceInv, AnalysisInv, Founded, Repeatable, Request
  <2>3. ASSUME NEW i \in DOMAIN e.cases
        PROVE  Size(e.cases[i].output.frd.displacement - f.cases[i].output.frd.displacement)
                 <= RepeatTolerance
    <3>1. PICK case : case = e.cases[i].case
      OBVIOUS
    <3>2. case = f.cases[i].case /\ i \in DOMAIN f.cases /\ case \in Range(e.request.cases)
      BY <2>2, <3>1 DEF Complete, Range
    <3>3. Outputs(a.run)[case] = e.cases[i].output /\ Outputs(b.run)[case] = f.cases[i].output
      BY <1>2, <2>1, <2>2, <3>1, <3>2, OutputsAreOfLines DEF EvidenceInv
    <3>4. Size(Outputs(a.run)[case].frd.displacement - Outputs(b.run)[case].frd.displacement)
            <= RepeatTolerance
      BY <1>2, <2>1, <3>2 DEF Repeatable, Request
    <3> QED BY <3>3, <3>4
  <2> QED BY <1>2, <2>1, <2>3 DEF Repeatable
<1>3. EvidenceInv => ComparisonsAreOfLike
  BY <1>1, <1>2 DEF ComparisonsAreOfLike
<1> QED BY <1>3, EvidenceInvHolds, PTL
=============================================================================

----------------------- MODULE ConstraintAdmissionProofs -----------------------
(***************************************************************************)
(* Theorems about admissions and the round trips they rest on, for any     *)
(* runs, commands, agents, other commits, failures and deaths.             *)
(***************************************************************************)
EXTENDS ConstraintAdmission, TLAPS

-----------------------------------------------------------------------------
(* Types *)

ShapeInv ==
  /\ changes \in Seq(ChangeSets \cup {{}}) /\ Store!current \in Store!Revisions
  /\ TripTypeOK /\ AdmissionTypeOK
  /\ admission # None => RunOfCommand(admission.command) # None
  /\ \A w \in Workflows : flow[w].at # "idle" => run[RunOf[w]] # None

LEMMA InitShape == Init => ShapeInv
<1> SUFFICES ASSUME Init PROVE ShapeInv
  OBVIOUS
<1> USE DEF Init, TripInit
<1>1. Store!current = 1 /\ changes \in Seq(ChangeSets \cup {{}}) /\ 1 \in Store!Revisions
  BY StoreAssumption DEF Store!Init, Store!current, Store!Revisions
<1>2. TripTypeOK
  BY RoundTripAssumption DEF TripTypeOK, Flows, Places
<1>3. content \in Seq(SUBSET Facts) /\ Len(content) = 1
  BY DEF Facts
<1>4. AdmissionTypeOK
  BY <1>1, <1>3 DEF AdmissionTypeOK
<1> QED  BY <1>1, <1>2, <1>4 DEF ShapeInv

\* A round trip needs its run, and has it.
LEMMA TripHasRun ==
  ASSUME NEW w \in Workflows, flow[w].at # "idle" => run[RunOf[w]] # None, RoundTrip(w)
  PROVE  run[RunOf[w]] # None
<1>1. CASE Start(w)
  BY <1>1 DEF Start
<1>2. CASE flow[w].at # "idle"
  BY <1>2
<1> QED  BY <1>1, <1>2 DEF RoundTrip, At, AskFirst, AgentFails, FailFirst, AnswerFirst,
            Mediate, CallTool, ToolReturns, ToolFails, Conclude, Collect, MakeEvidence,
            Confirm, AskSecond, AnswerSecond, FailSecond, RefuseSecondTool, RecordSecond,
            Discover, Complete, Die

\* A round trip moves its own flow, and asks and requests for itself alone.
LEMMA TripMoves ==
  ASSUME TripTypeOK, Store!current \in Store!Revisions, NEW w \in Workflows, RoundTrip(w)
  PROVE  /\ UNCHANGED <<changes, records, pending, query, faults, run, content>>
         /\ \E f \in Flows : flow' = [flow EXCEPT ![w] = f]
         /\ requests' \in [Runs -> [Keys -> Workflows \cup {None}]]
         /\ askedAt' \in [Workflows -> Store!Revisions \cup {None}]
         /\ lapses' \in 0 .. MaxLapses
<1>1. flow[w] \in Flows /\ RunOf[w] \in Runs /\ Missed[w] \in SUBSET SUBSET Keys
  BY RoundTripAssumption DEF TripTypeOK
<1>2. UNCHANGED lapses \/ Lapse => lapses' \in 0 .. MaxLapses
  BY RoundTripAssumption DEF Lapse, TripTypeOK
<1>3. UNCHANGED requests => requests' \in [Runs -> [Keys -> Workflows \cup {None}]]
  BY DEF TripTypeOK
<1>4. UNCHANGED askedAt =>
        askedAt' \in [Workflows -> Store!Revisions \cup {None}]
  BY DEF TripTypeOK
<1> USE DEF Step, Goto, Return
<1>5. CASE Start(w) \/ AskFirst(w) \/ FailFirst(w) \/ AgentFails(w)
  <2>1. \E f \in Flows : flow' = [flow EXCEPT ![w] = f]
    BY <1>1, <1>5 DEF Start, AskFirst, FailFirst, AgentFails, Flows, Places, Files, Reports
  <2> QED  BY <1>2, <1>3, <1>4, <1>5, <2>1
           DEF Start, AskFirst, FailFirst, AgentFails, storeVars, runVars
<1>6. ASSUME NEW n \in 0 .. 2, AnswerFirst(w, n) PROVE
         /\ UNCHANGED <<storeVars, runVars, requests, askedAt>>
         /\ UNCHANGED lapses \/ Lapse
         /\ \E f \in Flows : flow' = [flow EXCEPT ![w] = f]
  BY <1>1, <1>6 DEF AnswerFirst, Flows, Places, Files, Reports
<1>7. CASE Mediate(w) \/ CallTool(w) \/ ToolReturns(w) \/ ToolFails(w)
  <2>1. \E f \in Flows : flow' = [flow EXCEPT ![w] = f]
    BY <1>1, <1>7 DEF Mediate, CallTool, ToolReturns, ToolFails, Flows, Places
  <2> QED  BY <1>2, <1>3, <1>4, <1>7, <2>1
           DEF Mediate, CallTool, ToolReturns, ToolFails, storeVars, runVars
<1>8. CASE Conclude(w) \/ Collect(w) \/ Confirm(w) \/ FailSecond(w)
  <2>1. \E f \in Flows : flow' = [flow EXCEPT ![w] = f]
    BY <1>1, <1>8 DEF Conclude, Collect, Confirm, FailSecond, Flows, Places, Files, Reports
  <2> QED  BY <1>2, <1>3, <1>4, <1>8, <2>1
           DEF Conclude, Collect, Confirm, FailSecond, storeVars, runVars
<1>9. CASE MakeEvidence(w)
  <2>1. \E f \in Flows : flow' = [flow EXCEPT ![w] = f]
    BY <1>1, <1>9 DEF MakeEvidence, Flows, Places, Files, Reports
  <2> QED  BY <1>2, <1>3, <1>4, <1>9, <2>1
           DEF MakeEvidence, storeVars, runVars, Store!WriteEvidence
<1>10. CASE AskSecond(w)
  <2>1. \E f \in Flows : flow' = [flow EXCEPT ![w] = f]
    BY <1>1, <1>10 DEF AskSecond, Flows, Places
  <2>2. askedAt' \in [Workflows -> Store!Revisions \cup {None}]
    BY <1>4, <1>10 DEF AskSecond, TripTypeOK
  <2> QED  BY <1>2, <1>3, <1>10, <2>1, <2>2 DEF AskSecond, storeVars, runVars
<1>11. ASSUME NEW again \in BOOLEAN, NEW keys \in Missed[w], AnswerSecond(w, again, keys) PROVE
         /\ UNCHANGED <<storeVars, runVars, requests, askedAt>>
         /\ UNCHANGED lapses \/ Lapse
         /\ \E f \in Flows : flow' = [flow EXCEPT ![w] = f]
  BY <1>1, <1>11 DEF AnswerSecond, Flows, Places
<1>12. CASE RefuseSecondTool(w) \/ RecordSecond(w) \/ Complete(w) \/ Die(w)
  <2>1. \E f \in Flows : flow' = [flow EXCEPT ![w] = f]
    BY <1>1, <1>12 DEF RefuseSecondTool, RecordSecond, Complete, Die, Flows, Places, Files,
       Reports
  <2> QED  BY <1>2, <1>3, <1>4, <1>12, <2>1
           DEF RefuseSecondTool, RecordSecond, Complete, Die, storeVars, runVars
<1>13. ASSUME NEW key \in Keys, Discover(w, key) PROVE
         /\ UNCHANGED <<storeVars, runVars, askedAt, lapses>>
         /\ \E f \in Flows : flow' = [flow EXCEPT ![w] = f]
         /\ requests' \in [Runs -> [Keys -> Workflows \cup {None}]]
  BY <1>1, <1>13 DEF Discover, Flows, Places, TripTypeOK
<1> QED
  BY <1>2, <1>3, <1>4, <1>5, <1>6, <1>7, <1>8, <1>9, <1>10, <1>11, <1>12, <1>13
     DEF RoundTrip, storeVars, runVars

-----------------------------------------------------------------------------
LEMMA Assumed ==
  /\ \A c \in Commands : CommandRun[c] \in Runs /\ KeysOf(c) \subseteq Keys
  /\ \A c \in Commands : Items(c) \subseteq Facts /\ Paths(c) \in ChangeSets
  /\ \A w \in Workflows : RunOf[w] \in Runs
  /\ \A o \in Others : o \notin Runs
  BY CommandAssumption, RoundTripAssumption, AdmissionAssumption DEF KeysOf, Facts

LEMMA SourceOfRun ==
  ASSUME TripTypeOK, NEW c \in Commands, RunOfCommand(c) # None
  PROVE  /\ RunOfCommand(c) \in RunStates
         /\ Source(c) \in Store!Revisions
         /\ Changeset(c) \in ChangesetIds
<1>1. RunOfCommand(c) \in RunStates
  BY Assumed DEF TripTypeOK, RunOfCommand
<1>2. Source(c) \in Store!Revisions
  BY <1>1 DEF Source, RunStates
<1> QED  BY <1>1, <1>2, CommandAssumption DEF Changeset, ChangesetIds

LEMMA AdvancedTyped ==
  ASSUME TripTypeOK, Store!current \in Store!Revisions, NEW k \in Runs, run[k] # None
  PROVE  /\ Advanced(k) \in [Runs -> RunStates \cup {None}]
         /\ Advanced(k)[k] # None
         /\ Advanced(k)[k].initial = run[k].initial
         /\ Advanced(k)[k].active = Store!current
         /\ \A m \in Runs \ {k} : Advanced(k)[m] = run[m]
<1>1. run[k] \in RunStates
  BY DEF TripTypeOK
<1>2. [run[k] EXCEPT !.active = Store!current, !.seen = @ \cup {Store!current}] \in RunStates
  BY <1>1 DEF RunStates
<1>3. Advanced(k) = [run EXCEPT ![k] =
        [run[k] EXCEPT !.active = Store!current, !.seen = @ \cup {Store!current}]]
  BY DEF Advanced
<1>4. Advanced(k)[k] = [run[k] EXCEPT !.active = Store!current, !.seen = @ \cup {Store!current}]
  BY <1>3 DEF TripTypeOK
<1>5. Advanced(k)[k].initial = run[k].initial /\ Advanced(k)[k].active = Store!current
  BY <1>1, <1>4 DEF RunStates
<1> QED  BY <1>2, <1>3, <1>4, <1>5, RoundTripAssumption DEF TripTypeOK

\* What the actions that admit do to the store, the runs and the admission.
LEMMA FilingTyped ==
  ASSUME TripTypeOK, AdmissionTypeOK, NEW c \in Commands,
         Resolve(c) \/ ResolverDies(c) \/ \E key \in KeysOf(c) : WriteResolution(c, key)
  PROVE  /\ UNCHANGED <<storeVars, runVars, tripVars, prepared, announced, admission,
                        answer, changeset>>
         /\ lapses' \in 0 .. MaxLapses
         /\ resolving' \in [Commands -> SUBSET Keys]
         /\ resolutions' \in [Runs -> SUBSET Records]
<1>1. KeysOf(c) \subseteq Keys /\ CommandRun[c] \in Runs
  BY Assumed
<1>2. CASE Resolve(c)
  BY <1>1, <1>2 DEF Resolve, AdmissionTypeOK, TripTypeOK
<1>3. CASE ResolverDies(c)
  BY <1>1, <1>3, RoundTripAssumption DEF ResolverDies, Lapse, AdmissionTypeOK, TripTypeOK
<1>4. ASSUME NEW key \in KeysOf(c), WriteResolution(c, key)
      PROVE  /\ UNCHANGED <<storeVars, runVars, tripVars, prepared, announced, admission,
                            answer, changeset>>
             /\ lapses' \in 0 .. MaxLapses
             /\ resolving' \in [Commands -> SUBSET Keys]
             /\ resolutions' \in [Runs -> SUBSET Records]
  <2>1. Record(c, key) \in Records
    BY DEF Records
  <2>2. \/ UNCHANGED resolutions
        \/ resolutions' = [resolutions EXCEPT ![CommandRun[c]] = @ \cup {Record(c, key)}]
    BY <1>4 DEF WriteResolution
  <2>3. \E keys \in SUBSET resolving[c] : resolving' = [resolving EXCEPT ![c] = keys]
    BY <1>4 DEF WriteResolution
  <2>4. resolving' \in [Commands -> SUBSET Keys]
    BY <2>3 DEF AdmissionTypeOK
  <2>5. resolutions' \in [Runs -> SUBSET Records]
    BY <1>1, <2>1, <2>2 DEF AdmissionTypeOK
  <2>6. UNCHANGED <<storeVars, runVars, tripVars, lapses, prepared, announced, admission,
                    answer, changeset>>
    BY <1>4 DEF WriteResolution
  <2> QED  BY <2>4, <2>5, <2>6 DEF TripTypeOK
<1> QED  BY <1>2, <1>3, <1>4

LEMMA CommitTyped ==
  ASSUME ShapeInv, NEW paths \in ChangeSets, NEW w \in Runs \cup Others,
         Store!Commit(w, paths), NEW items \in SUBSET Facts,
         NEW made \in ChangesetIds \cup {None},
         content' = Append(content, items), changeset' = Append(changeset, made)
  PROVE  /\ changes' \in Seq(ChangeSets \cup {{}})
         /\ Store!current' = Store!current + 1
         /\ Store!current' \in Store!Revisions
         /\ content' \in Seq(SUBSET Facts) /\ Len(content') = Store!current'
         /\ changeset' \in Seq(ChangesetIds \cup {None}) /\ Len(changeset') = Store!current'
         /\ \A r \in 1 .. Store!current :
              changes'[r] = changes[r] /\ content'[r] = content[r] /\ changeset'[r] = changeset[r]
         /\ changes'[Store!current'] = paths
         /\ content'[Store!current'] = items
         /\ changeset'[Store!current'] = made
         /\ pending' = [pending EXCEPT ![w] = Store!current']
         /\ UNCHANGED <<records, evidence>>
<1>1. changes' = Append(changes, paths) /\ Store!current < MaxRevision
  BY DEF Store!Commit
<1>2. Store!current \in Nat /\ Store!current >= 1 /\ MaxRevision \in Nat
  BY StoreAssumption DEF ShapeInv, Store!Revisions
<1>3. /\ changes' \in Seq(ChangeSets \cup {{}}) /\ Len(changes') = Len(changes) + 1
      /\ \A r \in 1 .. Len(changes) : changes'[r] = changes[r]
      /\ changes'[Len(changes) + 1] = paths
  BY <1>1 DEF ShapeInv
<1>4. /\ content' \in Seq(SUBSET Facts) /\ Len(content') = Len(content) + 1
      /\ \A r \in 1 .. Len(content) : content'[r] = content[r]
      /\ content'[Len(content) + 1] = items
  BY DEF ShapeInv, AdmissionTypeOK
<1>5. /\ changeset' \in Seq(ChangesetIds \cup {None}) /\ Len(changeset') = Len(changeset) + 1
      /\ \A r \in 1 .. Len(changeset) : changeset'[r] = changeset[r]
      /\ changeset'[Len(changeset) + 1] = made
  BY DEF ShapeInv, AdmissionTypeOK
<1>6. Len(content) = Store!current /\ Len(changeset) = Store!current
  BY DEF ShapeInv, AdmissionTypeOK
<1>7. Store!current' = Store!current + 1 /\ Store!current' \in Store!Revisions
  BY <1>1, <1>2, <1>3 DEF Store!current, Store!Revisions
<1>8. pending' = [pending EXCEPT ![w] = Store!current'] /\ UNCHANGED <<records, evidence>>
  BY <1>7 DEF Store!Commit
<1> QED  BY <1>3, <1>4, <1>5, <1>6, <1>7, <1>8 DEF Store!current

\* The facts of an admission in progress that the types give.
LEMMA AdmissionFacts ==
  ASSUME AdmissionTypeOK, admission # None
  PROVE  /\ admission \in Admissions
         /\ admission.command \in Commands
         /\ CommandRun[admission.command] \in Runs
  BY Assumed DEF AdmissionTypeOK, Admissions

LEMMA FilingShape ==
  ASSUME ShapeInv, NEW c \in Commands,
         Resolve(c) \/ ResolverDies(c) \/ \E key \in KeysOf(c) : WriteResolution(c, key)
  PROVE  ShapeInv'
<1>1. /\ UNCHANGED <<storeVars, runVars, tripVars, prepared, announced, admission,
                     answer, changeset>>
      /\ lapses' \in 0 .. MaxLapses
      /\ resolving' \in [Commands -> SUBSET Keys]
      /\ resolutions' \in [Runs -> SUBSET Records]
  BY FilingTyped DEF ShapeInv
<1> QED  BY <1>1 DEF ShapeInv, TripTypeOK, AdmissionTypeOK, storeVars, runVars, tripVars,
            Store!current, RunOfCommand

LEMMA TripShape ==
  ASSUME ShapeInv, NEW w \in Workflows, RoundTrip(w), UNCHANGED admissionVars
  PROVE  ShapeInv'
<1>1. /\ UNCHANGED <<changes, records, pending, query, faults, run, content>>
      /\ \E f \in Flows : flow' = [flow EXCEPT ![w] = f]
      /\ requests' \in [Runs -> [Keys -> Workflows \cup {None}]]
      /\ askedAt' \in [Workflows -> Store!Revisions \cup {None}]
      /\ lapses' \in 0 .. MaxLapses
  BY TripMoves DEF ShapeInv
<1>2. flow' \in [Workflows -> Flows]
  BY <1>1 DEF ShapeInv, TripTypeOK
<1>3. \A v \in Workflows : flow'[v].at # "idle" => run'[RunOf[v]] # None
  BY <1>1, TripHasRun DEF ShapeInv, TripTypeOK
<1> QED  BY <1>1, <1>2, <1>3 DEF ShapeInv, TripTypeOK, AdmissionTypeOK, admissionVars,
            Store!current, RunOfCommand

LEMMA LockedShape ==
  ASSUME ShapeInv, Apply \/ Save \/ Invalidate \/ Tell \/ AdmissionDies
  PROVE  ShapeInv'
<1> DEFINE c == admission.command
           k == CommandRun[c]
<1>1. admission # None
  BY DEF Apply, Save, Invalidate, Tell, AdmissionDies, Admitting
<1>2. c \in Commands /\ k \in Runs /\ admission \in Admissions /\ run[k] # None
  BY <1>1, AdmissionFacts DEF ShapeInv, RunOfCommand
<1>3. Continue("save") \/ Continue("record") \/ Continue("return") =>
        admission' \in Admissions /\ admission'.command = c
  BY <1>2 DEF Continue, Admissions
<1> HIDE DEF c, k
<1>4. CASE /\ UNCHANGED <<changes, runVars, tripVars, lapses, resolving, resolutions,
                          prepared, announced, answer, changeset>>
           /\ \/ admission' = None
              \/ admission' \in Admissions /\ admission'.command = c
  BY <1>2, <1>4 DEF ShapeInv, TripTypeOK, AdmissionTypeOK, runVars, tripVars, Store!current,
     RunOfCommand, c, k
<1>5. CASE Apply
  <2>1. CASE Occupied(c)
    BY <1>4, <1>5, <2>1 DEF Apply, storeVars, runVars, c
  <2>2. CASE ~ Occupied(c)
    <3>1. /\ Store!Commit(k, Paths(c))
          /\ content' = Append(content, content[Store!current] \cup Items(c))
          /\ changeset' = Append(changeset, Changeset(c))
          /\ Continue("save")
          /\ UNCHANGED <<run, tripVars, lapses, resolving, resolutions, prepared,
                         announced, answer>>
      BY <1>5, <2>2 DEF Apply, c, k
    <3>2. content[Store!current] \cup Items(c) \in SUBSET Facts
      <4>1. Store!current \in 1 .. Len(content)
        BY DEF ShapeInv, AdmissionTypeOK, Store!Revisions
      <4>2. content[Store!current] \in SUBSET Facts
        BY <4>1 DEF ShapeInv, AdmissionTypeOK
      <4> QED  BY <1>2, <4>2, Assumed
    <3>3. Changeset(c) \in ChangesetIds
      BY <1>2, SourceOfRun DEF ShapeInv, RunOfCommand, k
    <3>4. k \in Runs \cup Others /\ Paths(c) \in ChangeSets
      BY <1>2, Assumed
    <3>5. /\ changes' \in Seq(ChangeSets \cup {{}})
          /\ Store!current' \in Store!Revisions
          /\ content' \in Seq(SUBSET Facts) /\ Len(content') = Store!current'
          /\ changeset' \in Seq(ChangesetIds \cup {None}) /\ Len(changeset') = Store!current'
      BY <3>1, <3>2, <3>3, <3>4, CommitTyped
    <3> QED
      BY <1>2, <1>3, <3>1, <3>5 DEF ShapeInv, TripTypeOK, AdmissionTypeOK, RunOfCommand,
         tripVars, k
  <2> QED  BY <2>1, <2>2
<1>6. /\ Advanced(k) \in [Runs -> RunStates \cup {None}]
      /\ \A m \in Runs : run[m] # None => Advanced(k)[m] # None
  BY <1>2, AdvancedTyped DEF ShapeInv
<1>7. CASE Save
  <2>1. /\ run' = Advanced(k) /\ announced' = [announced EXCEPT ![k] = @ \cup {Store!current}]
        /\ admission' \in Admissions /\ admission'.command = c
        /\ UNCHANGED <<storeVars, content, tripVars, lapses, resolving, resolutions,
                       prepared, answer, changeset>>
    BY <1>3, <1>7 DEF Save, c, k
  <2>2. announced' \in [Runs -> SUBSET Store!Revisions]
    BY <1>2, <2>1 DEF ShapeInv, AdmissionTypeOK
  <2>3. \A w \in Workflows : flow'[w].at # "idle" => run'[RunOf[w]] # None
    BY <1>6, <2>1, Assumed DEF ShapeInv, tripVars
  <2> QED
    BY <1>2, <1>6, <2>1, <2>2, <2>3 DEF ShapeInv, TripTypeOK, AdmissionTypeOK, RunOfCommand, tripVars,
       storeVars, Store!current, k
<1>8. CASE Invalidate
  BY <1>3, <1>4, <1>8 DEF Invalidate, Store!RecordInvalidation, c
<1>9. CASE Tell
  <2>1. /\ admission' = None /\ answer' = [answer EXCEPT ![c] = run[k].active]
        /\ UNCHANGED <<storeVars, runVars, tripVars, lapses, resolving, resolutions,
                       prepared, announced, changeset>>
    BY <1>9 DEF Tell, RunOfCommand, c, k
  <2>2. run[k].active \in Store!Revisions
    BY <1>2 DEF ShapeInv, TripTypeOK, RunStates
  <2>3. answer' \in [Commands -> Store!Revisions \cup {None}]
    BY <1>2, <2>1, <2>2 DEF ShapeInv, AdmissionTypeOK
  <2> QED  BY <2>1, <2>3 DEF ShapeInv, TripTypeOK, AdmissionTypeOK, runVars, tripVars,
              storeVars, Store!current
<1>10. CASE AdmissionDies
  <2>1. /\ admission' = None /\ run' \in {run, Advanced(k)} /\ UNCHANGED changes /\ Lapse
        /\ UNCHANGED <<content, tripVars, resolving, resolutions, prepared, announced,
                       answer, changeset>>
    BY <1>10 DEF AdmissionDies, Store!Abandon, storeVars, c, k
  <2>2. lapses' \in 0 .. MaxLapses
    BY <2>1, RoundTripAssumption DEF Lapse, ShapeInv, TripTypeOK
  <2>3. run' \in [Runs -> RunStates \cup {None}]
    BY <1>6, <2>1 DEF ShapeInv, TripTypeOK
  <2>4. \A w \in Workflows : flow'[w].at # "idle" => run'[RunOf[w]] # None
    BY <1>6, <2>1, Assumed DEF ShapeInv, tripVars
  <2> QED  BY <2>1, <2>2, <2>3, <2>4 DEF ShapeInv, TripTypeOK, AdmissionTypeOK, tripVars,
              Store!current
<1> QED  BY <1>5, <1>7, <1>8, <1>9, <1>10

LEMMA OtherShape ==
  ASSUME ShapeInv,
         \/ \E k \in Runs : CreateRun(k) /\ UNCHANGED admissionVars
         \/ \E c \in Commands : Admit(c) \/ Replay(c)
         \/ \E o \in Others : OtherRecords(o) \/ \E paths \in OtherChanges : OtherCommits(o, paths)
  PROVE  ShapeInv'
<1>1. ASSUME NEW k \in Runs, CreateRun(k), UNCHANGED admissionVars PROVE ShapeInv'
  <2>1. run' \in [Runs -> RunStates \cup {None}] /\ \A m \in Runs : run[m] # None => run'[m] # None
    BY <1>1 DEF CreateRun, ShapeInv, TripTypeOK, RunStates
  <2>2. admission # None => CommandRun[admission.command] \in Runs
    BY AdmissionFacts DEF ShapeInv
  <2> QED  BY <1>1, <2>1, <2>2 DEF CreateRun, ShapeInv, TripTypeOK, AdmissionTypeOK, storeVars,
              tripVars, admissionVars, Store!current, RunOfCommand
<1>2. ASSUME NEW c \in Commands, Admit(c) PROVE ShapeInv'
  <2>1. /\ admission' \in Admissions /\ admission'.command = c /\ RunOfCommand(c) # None
        /\ prepared' \subseteq Commands
    BY <1>2 DEF Admit, Admissions, ShapeInv, AdmissionTypeOK
  <2> QED  BY <1>2, <2>1 DEF Admit, ShapeInv, TripTypeOK, AdmissionTypeOK, storeVars,
              runVars, tripVars, Store!current, RunOfCommand
<1>3. ASSUME NEW c \in Commands, Replay(c) PROVE ShapeInv'
  <2>1. Store!current = Source(c) + 1 /\ answer' = [answer EXCEPT ![c] = Source(c) + 1]
    BY <1>3 DEF Replay
  <2>2. answer' \in [Commands -> Store!Revisions \cup {None}]
    BY <2>1 DEF ShapeInv, AdmissionTypeOK
  <2> QED  BY <1>3, <2>2 DEF Replay, ShapeInv, TripTypeOK, AdmissionTypeOK, storeVars,
              runVars, tripVars, Store!current
<1>4. ASSUME NEW o \in Others, OtherRecords(o) PROVE ShapeInv'
  <2>1. UNCHANGED <<changes, runVars, tripVars, admissionVars>> /\ (UNCHANGED lapses \/ Lapse)
    BY <1>4 DEF OtherRecords, Store!RecordInvalidation, Store!Abandon
  <2>2. lapses' \in 0 .. MaxLapses
    BY <2>1, RoundTripAssumption DEF Lapse, ShapeInv, TripTypeOK
  <2> QED  BY <2>1, <2>2 DEF ShapeInv, TripTypeOK, AdmissionTypeOK, runVars, tripVars,
              admissionVars, Store!current, RunOfCommand
<1>5. ASSUME NEW o \in Others, NEW paths \in OtherChanges, OtherCommits(o, paths) PROVE ShapeInv'
  <2>1. content[Store!current] \in SUBSET Facts
    <3>1. Store!current \in 1 .. Len(content)
      BY DEF ShapeInv, AdmissionTypeOK, Store!Revisions
    <3> QED  BY <3>1 DEF ShapeInv, AdmissionTypeOK
  <2>2. /\ Store!Commit(o, paths)
        /\ content' = Append(content, content[Store!current])
        /\ changeset' = Append(changeset, None)
        /\ UNCHANGED <<run, tripVars, lapses, resolving, resolutions, prepared, announced,
                       admission, answer>>
    BY <1>5 DEF OtherCommits
  <2>3. paths \in ChangeSets /\ o \in Runs \cup Others
    BY CommandAssumption
  <2>4. /\ changes' \in Seq(ChangeSets \cup {{}})
        /\ Store!current' \in Store!Revisions
        /\ content' \in Seq(SUBSET Facts) /\ Len(content') = Store!current'
        /\ changeset' \in Seq(ChangesetIds \cup {None}) /\ Len(changeset') = Store!current'
    BY <2>1, <2>2, <2>3, CommitTyped
  <2> QED  BY <2>2, <2>4 DEF ShapeInv, TripTypeOK, AdmissionTypeOK, tripVars, RunOfCommand
<1> QED  BY <1>1, <1>2, <1>3, <1>4, <1>5

LEMMA NextShape == ShapeInv /\ [Next]_vars => ShapeInv'
<1> SUFFICES ASSUME ShapeInv, [Next]_vars PROVE ShapeInv'
  OBVIOUS
<1>1. CASE UNCHANGED vars
  BY <1>1 DEF vars, storeVars, runVars, tripVars, admissionVars, ShapeInv, TripTypeOK,
     AdmissionTypeOK, Store!current, RunOfCommand
<1> QED  BY <1>1, FilingShape, TripShape, LockedShape, OtherShape DEF Next

LEMMA ShapeInvariant == Spec => []ShapeInv
  BY InitShape, NextShape, PTL DEF Spec

-----------------------------------------------------------------------------
(* The store sees only what its own module allows. *)

LEMMA WriterStep ==
  ASSUME NEW w \in Runs \cup Others,
         \/ \E paths \in ChangeSets : Store!Commit(w, paths)
         \/ Store!RecordInvalidation(w)
         \/ Store!Abandon(w)
  PROVE  Store!Next
  BY DEF Store!Next

LEMMA StoreStep ==
  ASSUME ShapeInv, [Next]_vars
  PROVE  [Store!Next]_(Store!vars)
<1> USE DEF storeVars, Store!vars
<1>1. CASE UNCHANGED vars
  BY <1>1 DEF vars
<1>2. ASSUME NEW k \in Runs, CreateRun(k) PROVE UNCHANGED Store!vars
  BY <1>2 DEF CreateRun
<1>3. ASSUME NEW w \in Workflows, RoundTrip(w) PROVE Store!Next \/ UNCHANGED Store!vars
  <2>1. CASE MakeEvidence(w)
    <3>1. Bound(w) \in Store!Revisions
      <4>1. run[RunOf[w]] # None /\ RunOf[w] \in Runs
        BY <1>3, TripHasRun, Assumed DEF ShapeInv
      <4> QED  BY <4>1 DEF ShapeInv, TripTypeOK, RunStates, Bound
    <3>2. [kind |-> Torque, revision |-> Bound(w), hash |-> Bound(w)] \in Store!Evidence
      BY <3>1, RoundTripAssumption DEF Store!Evidence
    <3> QED  BY <2>1, <3>2 DEF MakeEvidence, Store!Next
  <2>2. CASE UNCHANGED storeVars
    BY <2>2
  <2> QED  BY <1>3, <2>1, <2>2 DEF RoundTrip, AskFirst, AgentFails, FailFirst, AnswerFirst,
              Start, Mediate, CallTool, ToolReturns, ToolFails, Conclude, Collect, Confirm,
              AskSecond, AnswerSecond, FailSecond, RefuseSecondTool, RecordSecond, Discover,
              Complete, Die
<1>4. ASSUME NEW c \in Commands,
             \/ Resolve(c) \/ ResolverDies(c) \/ \E key \in KeysOf(c) : WriteResolution(c, key)
             \/ Admit(c) \/ Replay(c)
      PROVE  UNCHANGED Store!vars
  BY <1>4 DEF Resolve, ResolverDies, WriteResolution, Admit, Replay
<1>5. CASE Save \/ Tell
  BY <1>5 DEF Save, Tell
<1>6. CASE Apply \/ Invalidate \/ AdmissionDies
  <2>1. CommandRun[admission.command] \in Runs \cup Others
        /\ Paths(admission.command) \in ChangeSets
    BY <1>6, AdmissionFacts, Assumed DEF ShapeInv, Apply, Invalidate, AdmissionDies, Admitting
  <2>2. CASE Apply
    BY <2>1, <2>2, WriterStep DEF Apply
  <2>3. CASE Invalidate
    BY <2>1, <2>3, WriterStep DEF Invalidate
  <2>4. CASE AdmissionDies
    <3>1. UNCHANGED storeVars \/ Store!Abandon(CommandRun[admission.command])
      BY <2>4 DEF AdmissionDies
    <3> QED  BY <2>1, <3>1, WriterStep
  <2> QED  BY <1>6, <2>2, <2>3, <2>4
<1>7. ASSUME NEW o \in Others,
             OtherRecords(o) \/ \E paths \in OtherChanges : OtherCommits(o, paths)
      PROVE  Store!Next
  BY <1>7, WriterStep, CommandAssumption DEF OtherRecords, OtherCommits
<1> QED  BY <1>1, <1>2, <1>3, <1>4, <1>5, <1>6, <1>7 DEF Next

SP == INSTANCE EvidenceStoreProofs WITH
  Writers <- Runs \cup Others, Queries <- {}, EvidenceIds <- Workflows,
  Producers <- {}, writing <- [p \in {} |-> None]

LEMMA SameNodes == SP!Nodes = Store!Nodes
  BY DEF SP!Nodes, Store!Nodes

LEMMA SameRevisions == SP!Revisions = Store!Revisions
  BY DEF SP!Revisions, Store!Revisions

LEMMA SameEvidence == SP!Evidence = Store!Evidence
  BY SameNodes, SameRevisions DEF SP!Evidence, Store!Evidence

LEMMA SameImpact ==
  ASSUME NEW paths
  PROVE  SP!Impact(paths) = Store!Impact(paths)
  BY SameNodes DEF SP!Impact, Store!Impact, SP!Downstream, Store!Downstream, SP!Closed,
       Store!Closed, SP!Direct, Store!Direct, SP!PathMatches, Store!PathMatches

LEMMA StoreAssumptionHolds == SP!StoreAssumption
  BY StoreAssumption, SameNodes DEF Store!Revisions

LEMMA EvidenceAssumptionHolds == SP!EvidenceAssumption
  BY StoreAssumption, SameEvidence DEF SP!Writes, Store!Writes

LEMMA SameQuestion == SP!Question = Store!Question
  BY SameEvidence, SameRevisions DEF SP!Question, Store!Question, SP!Verdicts,
       Store!Verdicts

LEMMA QuestionAssumptionHolds == SP!QuestionAssumption
  BY StoreAssumption, SameQuestion DEF SP!Verdicts, Store!Verdicts

HistoryInv ==
  /\ Store!TypeOK
  /\ \A r \in Store!Revisions : records[r] # None =>
       r \in 2 .. Store!current /\ records[r] = Store!Impact(changes[r])
  /\ \A w \in Runs \cup Others : pending[w] # None => pending[w] \in 2 .. Store!current
  /\ \A r \in 2 .. Store!current : changes[r] \in ChangeSets

LEMMA HistoryInvariant == Spec => []HistoryInv
<1>1. Spec => SP!Spec
  <2>1. Init => SP!Init
    BY DEF Init, TripInit, Store!Init, SP!Init, Store!Revisions, SP!Revisions
  <2>2. ShapeInv /\ [Next]_vars => [SP!Next]_(SP!vars)
    <3>1. \A w \in Runs \cup Others :
            /\ \A paths \in ChangeSets : Store!Commit(w, paths) => SP!Commit(w, paths)
            /\ Store!RecordInvalidation(w) => SP!RecordInvalidation(w)
            /\ Store!Abandon(w) => SP!Abandon(w)
      BY SameImpact DEF Store!Commit, SP!Commit, Store!RecordInvalidation,
           SP!RecordInvalidation, Store!Abandon, SP!Abandon, Store!current, SP!current
    <3>2. \A t \in Workflows, file \in Store!Evidence :
            Store!WriteEvidence(t, file) => SP!WriteEvidence(t, file)
      BY DEF Store!WriteEvidence, SP!WriteEvidence, Store!current, SP!current
    <3> QED  BY <3>1, <3>2, SameEvidence, StoreStep DEF Store!Next, SP!Next, SP!vars, Store!vars
  <2> QED  BY <2>1, <2>2, ShapeInvariant, PTL DEF Spec, SP!Spec
<1>2. SP!EvidenceInv => HistoryInv
  <2>1. SP!TypeOK => Store!TypeOK
    BY SameRevisions, SameNodes, SameEvidence DEF SP!TypeOK, Store!TypeOK, SP!current,
       Store!current
  <2> QED  BY <2>1, SameRevisions, SameImpact
              DEF SP!EvidenceInv, SP!RecordsInv, HistoryInv, SP!current, Store!current
<1> QED
  BY <1>1, <1>2, SP!EvidenceInvariant, StoreAssumptionHolds, EvidenceAssumptionHolds,
     QuestionAssumptionHolds, PTL

\* Every variable keeps its type: files, runs, round trips and the admission hold
\* what the code puts there, through any failures and deaths.
THEOREM AdmissionTyped == Spec => []TypeOK
  BY ShapeInvariant, HistoryInvariant, PTL DEF TypeOK, ShapeInv, HistoryInv

-----------------------------------------------------------------------------
(* What every step leaves as it was. *)

LEMMA ApplyCommits ==
  ASSUME ShapeInv, Apply, ~ Occupied(admission.command)
  PROVE  LET c == admission.command
             made == Store!current + 1
         IN /\ Store!current' = made
            /\ \A r \in 1 .. Store!current : /\ changes'[r] = changes[r]
                                             /\ content'[r] = content[r]
                                             /\ changeset'[r] = changeset[r]
            /\ content'[made] = content[Store!current] \cup Items(c)
            /\ changeset'[made] = Changeset(c)
            /\ pending' = [pending EXCEPT ![CommandRun[c]] = made]
            /\ admission' = [admission EXCEPT !.step = "save"]
            /\ UNCHANGED <<records, evidence, run, tripVars, lapses, resolving,
                           resolutions, prepared, announced, answer>>
<1> DEFINE c == admission.command
           items == content[Store!current] \cup Items(c)
<1>1. /\ Store!Commit(CommandRun[c], Paths(c))
      /\ content' = Append(content, items)
      /\ changeset' = Append(changeset, Changeset(c))
      /\ Continue("save")
      /\ UNCHANGED <<run, tripVars, lapses, resolving, resolutions, prepared,
                     announced, answer>>
  BY DEF Apply
<1>2. /\ c \in Commands /\ CommandRun[c] \in Runs \cup Others /\ Paths(c) \in ChangeSets
      /\ Changeset(c) \in ChangesetIds
  BY AdmissionFacts, Assumed, SourceOfRun DEF ShapeInv, Apply, Admitting
<1>3. items \in SUBSET Facts
  <2>1. Store!current \in 1 .. Len(content)
    BY DEF ShapeInv, AdmissionTypeOK, Store!Revisions
  <2>2. content[Store!current] \in SUBSET Facts
    BY <2>1 DEF ShapeInv, AdmissionTypeOK
  <2> QED  BY <1>2, <2>2, Assumed
<1> HIDE DEF c, items
<1>4. /\ Store!current' = Store!current + 1
      /\ \A r \in 1 .. Store!current :
           changes'[r] = changes[r] /\ content'[r] = content[r] /\ changeset'[r] = changeset[r]
      /\ content'[Store!current'] = items
      /\ changeset'[Store!current'] = Changeset(c)
      /\ pending' = [pending EXCEPT ![CommandRun[c]] = Store!current']
      /\ UNCHANGED <<records, evidence>>
  BY <1>1, <1>2, <1>3, CommitTyped
<1> QED  BY <1>1, <1>4 DEF Continue, c, items

LEMMA OtherCommitsOnly ==
  ASSUME ShapeInv, NEW o \in Others, NEW paths \in OtherChanges, OtherCommits(o, paths)
  PROVE  LET made == Store!current + 1
         IN /\ admission = None
            /\ Store!current' = made
            /\ \A r \in 1 .. Store!current : /\ changes'[r] = changes[r]
                                             /\ content'[r] = content[r]
                                             /\ changeset'[r] = changeset[r]
            /\ content'[made] = content[Store!current]
            /\ changeset'[made] = None
            /\ \A k \in Runs : pending'[k] = pending[k]
            /\ UNCHANGED <<records, evidence, run, tripVars, lapses, resolving, resolutions,
                           prepared, announced, admission, answer>>
<1>1. /\ Store!Commit(o, paths)
      /\ content' = Append(content, content[Store!current])
      /\ changeset' = Append(changeset, None)
      /\ admission = None
      /\ UNCHANGED <<run, tripVars, lapses, resolving, resolutions, prepared, announced,
                     admission, answer>>
  BY DEF OtherCommits
<1>2. content[Store!current] \in SUBSET Facts
  <2>1. Store!current \in 1 .. Len(content)
    BY DEF ShapeInv, AdmissionTypeOK, Store!Revisions
  <2> QED  BY <2>1 DEF ShapeInv, AdmissionTypeOK
<1>3. paths \in ChangeSets /\ o \in Runs \cup Others /\ o \notin Runs
  BY CommandAssumption, Assumed
<1>4. /\ Store!current' = Store!current + 1
      /\ \A r \in 1 .. Store!current :
           changes'[r] = changes[r] /\ content'[r] = content[r] /\ changeset'[r] = changeset[r]
      /\ content'[Store!current'] = content[Store!current]
      /\ changeset'[Store!current'] = None
      /\ UNCHANGED <<records, evidence>>
  BY <1>1, <1>2, <1>3, CommitTyped
<1>5. \A k \in Runs : pending'[k] = pending[k]
  BY <1>1, <1>3 DEF Store!Commit
<1> QED  BY <1>1, <1>4, <1>5

\* Only commits change the history, only creation and admission change runs, and
\* records, resolutions and requests stay.
LEMMA Moves ==
  ASSUME ShapeInv, [Next]_vars
  PROVE  /\ \/ UNCHANGED <<changes, content, changeset>>
            \/ Apply /\ ~ Occupied(admission.command)
            \/ \E o \in Others, paths \in OtherChanges : OtherCommits(o, paths)
         /\ \/ UNCHANGED run
            \/ \E k \in Runs : CreateRun(k)
            \/ Admitting("save") /\ run' = Advanced(CommandRun[admission.command])
         /\ \A k \in Runs : resolutions[k] \subseteq resolutions'[k]
<1>1. CASE UNCHANGED vars
  BY <1>1 DEF vars, runVars, storeVars, admissionVars
<1>2. ASSUME NEW k \in Runs, CreateRun(k), UNCHANGED admissionVars
      PROVE  UNCHANGED <<changes, content, changeset, resolutions>>
  BY <1>2 DEF CreateRun, storeVars, admissionVars
<1>3. ASSUME NEW w \in Workflows, RoundTrip(w), UNCHANGED admissionVars
      PROVE  UNCHANGED <<changes, content, changeset, run, resolutions>>
  BY <1>3, TripMoves DEF admissionVars, ShapeInv
<1>4. ASSUME NEW c \in Commands, Resolve(c) \/ ResolverDies(c) \/ Admit(c) \/ Replay(c)
      PROVE  UNCHANGED <<changes, content, changeset, run, resolutions>>
  BY <1>4 DEF Resolve, ResolverDies, Admit, Replay, storeVars, runVars
<1>5. ASSUME NEW c \in Commands, NEW key \in KeysOf(c), WriteResolution(c, key)
      PROVE  /\ UNCHANGED <<changes, content, changeset, run>>
             /\ \A k \in Runs : resolutions[k] \subseteq resolutions'[k]
  <2>1. \/ UNCHANGED resolutions
        \/ resolutions' = [resolutions EXCEPT ![CommandRun[c]] = @ \cup {Record(c, key)}]
    BY <1>5 DEF WriteResolution
  <2>2. \A k \in Runs : resolutions[k] \subseteq resolutions'[k]
    BY <2>1 DEF ShapeInv, AdmissionTypeOK
  <2> QED  BY <1>5, <2>2 DEF WriteResolution, storeVars, runVars
<1>6. CASE Apply /\ Occupied(admission.command)
  BY <1>6 DEF Apply, storeVars
<1>7. CASE Apply /\ ~ Occupied(admission.command)
  BY <1>7, ApplyCommits
<1>8. CASE Save \/ Invalidate \/ Tell \/ AdmissionDies
  BY <1>8 DEF Save, Invalidate, Tell, AdmissionDies, storeVars, runVars,
     Store!RecordInvalidation, Store!Abandon
<1>9. ASSUME NEW o \in Others, OtherRecords(o)
      PROVE  UNCHANGED <<changes, content, changeset, run, resolutions>>
  BY <1>9 DEF OtherRecords, runVars, admissionVars, Store!RecordInvalidation, Store!Abandon
<1>10. ASSUME NEW o \in Others, NEW paths \in OtherChanges, OtherCommits(o, paths)
       PROVE  UNCHANGED <<run, resolutions>>
  BY <1>10 DEF OtherCommits
<1> QED  BY <1>1, <1>2, <1>3, <1>4, <1>5, <1>6, <1>7, <1>8, <1>9, <1>10 DEF Next

LEMMA Kept ==
  ASSUME ShapeInv, HistoryInv, [Next]_vars
  PROVE  /\ Store!current \in Nat /\ Store!current' \in Nat
         /\ Store!current >= 1 /\ Store!current <= Store!current'
         /\ \A r \in 1 .. Store!current :
              changes'[r] = changes[r] /\ content'[r] = content[r] /\ changeset'[r] = changeset[r]
         /\ \A r \in Store!Revisions : records[r] # None => records'[r] = records[r]
         /\ \A w \in Workflows : evidence[w] # None => evidence'[w] = evidence[w]
         /\ \A k \in Runs : run[k] # None => run'[k] # None /\ run'[k].initial = run[k].initial
<1>1. Store!current \in Nat /\ Store!current >= 1
  BY StoreAssumption DEF ShapeInv, Store!Revisions
<1>2. /\ Store!current' \in Nat /\ Store!current <= Store!current'
      /\ \A r \in 1 .. Store!current :
           changes'[r] = changes[r] /\ content'[r] = content[r] /\ changeset'[r] = changeset[r]
  <2>1. CASE UNCHANGED <<changes, content, changeset>>
    BY <1>1, <2>1 DEF Store!current
  <2> QED  BY <1>1, <2>1, Moves, ApplyCommits, OtherCommitsOnly
<1>3. [Store!Next]_(Store!vars)
  BY StoreStep
<1>4. /\ \A r \in Store!Revisions : records[r] # None => records'[r] = records[r]
      /\ \A w \in Workflows : evidence[w] # None => evidence'[w] = evidence[w]
  <2>1. CASE UNCHANGED Store!vars
    BY <2>1 DEF Store!vars
  <2>2. ASSUME NEW w \in Runs \cup Others,
               \/ \E paths \in ChangeSets : Store!Commit(w, paths)
               \/ Store!Abandon(w)
        PROVE  UNCHANGED <<records, evidence>>
    BY <2>2 DEF Store!Commit, Store!Abandon
  <2>3. ASSUME NEW w \in Runs \cup Others, Store!RecordInvalidation(w)
        PROVE  /\ \A r \in Store!Revisions : records[r] # None => records'[r] = records[r]
               /\ UNCHANGED evidence
    BY <2>3 DEF Store!RecordInvalidation, HistoryInv, Store!TypeOK
  <2>4. ASSUME NEW id \in Workflows, NEW file \in Store!Evidence, Store!WriteEvidence(id, file)
        PROVE  /\ \A w \in Workflows : evidence[w] # None => evidence'[w] = evidence[w]
               /\ UNCHANGED records
    BY <2>4 DEF Store!WriteEvidence, HistoryInv, Store!TypeOK
  <2> QED  BY <1>3, <2>1, <2>2, <2>3, <2>4 DEF Store!Next
<1>5. \A k \in Runs : run[k] # None => run'[k] # None /\ run'[k].initial = run[k].initial
  <2>1. CASE \E m \in Runs : CreateRun(m)
    BY <2>1 DEF CreateRun, ShapeInv, TripTypeOK
  <2>2. CASE Admitting("save") /\ run' = Advanced(CommandRun[admission.command])
    <3>1. /\ CommandRun[admission.command] \in Runs
          /\ run[CommandRun[admission.command]] # None
      BY <2>2, AdmissionFacts DEF ShapeInv, Admitting, RunOfCommand
    <3> QED  BY <2>2, <3>1, AdvancedTyped DEF ShapeInv
  <2> QED  BY <2>1, <2>2, Moves
<1> QED  BY <1>1, <1>2, <1>4, <1>5

-----------------------------------------------------------------------------
(***************************************************************************)
(* Admissions.  A run is at the revision it started from or at the next,   *)
(* a changeset names the revision before its own, and while an admission   *)
(* holds the lock nothing is committed beside it: so what it found when it *)
(* began is what it tells.                                                 *)
(***************************************************************************)
RunsInv ==
  \A k \in Runs : run[k] # None =>
    /\ run[k].initial <= Store!current
    /\ run[k].active \in {run[k].initial, run[k].initial + 1}
    /\ run[k].active <= Store!current

ChangesetsInv ==
  \A r \in 1 .. Store!current : changeset[r] # None => changeset[r][3] = r - 1

Made(c, r) ==
  /\ changeset[r] = Changeset(c)
  /\ content[r] = content[r - 1] \cup Items(c)

Locked(c, step) ==
  /\ IF step = "apply" THEN Store!current = Source(c)
     ELSE Store!current = Source(c) + 1 /\ Made(c, Store!current)
  /\ step \in {"save", "record"} => pending[CommandRun[c]] = Store!current
  /\ step \in {"record", "return"} => RunOfCommand(c).active = Store!current
  /\ step = "return" => records[Store!current] # None

LockInv == admission # None => Locked(admission.command, admission.step)

Answered(c, r) ==
  /\ RunOfCommand(c) # None
  /\ r = Source(c) + 1 /\ r <= Store!current
  /\ Made(c, r)
  /\ records[r] # None
  /\ RunOfCommand(c).active = r

AnswersInv == \A c \in Commands : answer[c] # None => Answered(c, answer[c])

AdmissionInv == RunsInv /\ ChangesetsInv /\ LockInv /\ AnswersInv

LEMMA InitAdmission == Init => AdmissionInv
<1> SUFFICES ASSUME Init PROVE AdmissionInv
  OBVIOUS
<1>1. Store!current = 1
  BY DEF Init, TripInit, Store!Init, Store!current
<1> QED  BY <1>1 DEF Init, TripInit, AdmissionInv, RunsInv, ChangesetsInv, LockInv, AnswersInv

LEMMA SourceKept ==
  ASSUME ShapeInv, HistoryInv, [Next]_vars, NEW c \in Commands, RunOfCommand(c) # None
  PROVE  /\ RunOfCommand(c)' # None
         /\ Source(c)' = Source(c) /\ Changeset(c)' = Changeset(c)
         /\ Source(c) \in Nat /\ Source(c) >= 1
<1>1. CommandRun[c] \in Runs
  BY Assumed
<1>2. RunOfCommand(c)' # None /\ Source(c)' = Source(c)
  BY <1>1, Kept DEF RunOfCommand, Source
<1>3. Source(c) \in Nat /\ Source(c) >= 1
  BY SourceOfRun, StoreAssumption DEF ShapeInv, Store!Revisions
<1> QED  BY <1>2, <1>3 DEF Changeset

LEMMA MadeKept ==
  ASSUME ShapeInv, HistoryInv, [Next]_vars, NEW c \in Commands, RunOfCommand(c) # None,
         NEW r \in 2 .. Store!current, Made(c, r)
  PROVE  Made(c, r)'
<1>1. r \in 1 .. Store!current /\ r - 1 \in 1 .. Store!current
  BY Kept
<1>2. changeset'[r] = changeset[r] /\ content'[r] = content[r] /\ content'[r - 1] = content[r - 1]
  BY <1>1, Kept
<1> QED  BY <1>2, SourceKept DEF Made

LEMMA RunsPreserved ==
  ASSUME ShapeInv, HistoryInv, AdmissionInv, [Next]_vars
  PROVE  RunsInv'
<1> SUFFICES ASSUME NEW k \in Runs, run'[k] # None
             PROVE  /\ run'[k].initial <= Store!current'
                    /\ run'[k].active \in {run'[k].initial, run'[k].initial + 1}
                    /\ run'[k].active <= Store!current'
  BY DEF RunsInv
<1>1. CASE run'[k] = run[k]
  <2>1. run[k] \in RunStates
    BY <1>1 DEF ShapeInv, TripTypeOK
  <2>2. run[k].initial \in Nat /\ run[k].active \in Nat
    BY <2>1, StoreAssumption DEF RunStates, Store!Revisions
  <2> QED  BY <1>1, <2>2, Kept DEF AdmissionInv, RunsInv
<1>2. ASSUME NEW m \in Runs, CreateRun(m), run'[k] # run[k] PROVE
             run'[k].initial = Store!current /\ run'[k].active = Store!current
  BY <1>2 DEF CreateRun, ShapeInv, TripTypeOK
<1>3. CASE Admitting("save") /\ run' = Advanced(CommandRun[admission.command])
  <2> DEFINE c == admission.command
  <2>1. /\ c \in Commands /\ CommandRun[c] \in Runs /\ RunOfCommand(c) # None
        /\ Store!current = Source(c) + 1
    BY <1>3, AdmissionFacts DEF ShapeInv, Admitting, AdmissionInv, LockInv, Locked
  <2>2. /\ run'[CommandRun[c]].initial = Source(c) /\ run'[CommandRun[c]].active = Store!current
        /\ \A m \in Runs \ {CommandRun[c]} : run'[m] = run[m]
    BY <1>3, <2>1, AdvancedTyped DEF ShapeInv, Source, RunOfCommand
  <2>3. Source(c) \in Nat
    BY <2>1, SourceKept
  <2> HIDE DEF c
  <2> QED  BY <1>1, <2>1, <2>2, <2>3, Kept
<1> QED  BY <1>1, <1>2, <1>3, Moves, Kept

LEMMA ChangesetsPreserved ==
  ASSUME ShapeInv, HistoryInv, AdmissionInv, [Next]_vars
  PROVE  ChangesetsInv'
<1> SUFFICES ASSUME NEW r \in 1 .. Store!current', changeset'[r] # None
             PROVE  changeset'[r][3] = r - 1
  BY DEF ChangesetsInv
<1>1. CASE r \in 1 .. Store!current
  BY <1>1, Kept DEF AdmissionInv, ChangesetsInv
<1>2. CASE Apply /\ ~ Occupied(admission.command) /\ r = Store!current + 1
  <2> DEFINE c == admission.command
  <2>1. /\ c \in Commands /\ RunOfCommand(c) # None /\ Store!current = Source(c)
    BY <1>2, AdmissionFacts DEF ShapeInv, Apply, Admitting, AdmissionInv, LockInv, Locked
  <2>2. changeset'[r] = Changeset(c)
    BY <1>2, ApplyCommits
  <2>3. Changeset(c)[3] = Source(c)
    BY DEF Changeset
  <2> QED  BY <1>2, <2>1, <2>2, <2>3, Kept
<1>3. ASSUME NEW o \in Others, NEW paths \in OtherChanges, OtherCommits(o, paths),
             r = Store!current + 1
      PROVE  FALSE
  BY <1>3, OtherCommitsOnly
<1>4. UNCHANGED <<changes, content, changeset>> => Store!current' = Store!current
  BY DEF Store!current
<1>5. CASE r = Store!current + 1
  BY <1>2, <1>3, <1>4, <1>5, Moves, Kept
<1>6. Store!current' \in {Store!current, Store!current + 1}
  BY <1>4, Moves, ApplyCommits, OtherCommitsOnly
<1> QED  BY <1>1, <1>5, <1>6, Kept

\* While an admission rests on one of its steps, nothing it looks at moves.
LEMMA LockHolds ==
  ASSUME ShapeInv, HistoryInv, AdmissionInv, [Next]_vars, admission # None,
         admission' = admission
  PROVE  /\ UNCHANGED <<changes, content, changeset>>
         /\ run'[CommandRun[admission.command]] = run[CommandRun[admission.command]]
         /\ \A k \in Runs : pending'[k] = pending[k]
<1> DEFINE k == CommandRun[admission.command]
<1>1. k \in Runs /\ run[k] # None /\ admission \in Admissions
  BY AdmissionFacts DEF ShapeInv, RunOfCommand
<1>2. ~ Apply /\ ~ Save /\ ~ Invalidate /\ ~ Tell /\ ~ AdmissionDies
  BY <1>1 DEF Apply, Save, Invalidate, Tell, AdmissionDies, Admitting, Continue, Admissions
<1>3. \A o \in Others, paths \in OtherChanges : ~ OtherCommits(o, paths)
  BY DEF OtherCommits
<1>4. UNCHANGED <<changes, content, changeset>>
  BY <1>2, <1>3, Moves
<1>5. run'[k] = run[k]
  <2>1. CASE UNCHANGED run
    BY <2>1
  <2>2. ASSUME NEW m \in Runs, CreateRun(m) PROVE run'[k] = run[k]
    BY <1>1, <2>2 DEF CreateRun, ShapeInv, TripTypeOK
  <2>3. CASE Admitting("save") /\ run' = Advanced(k)
    <3>1. CASE UNCHANGED vars
      BY <3>1 DEF vars, runVars
    <3>2. ASSUME NEW w \in Workflows, RoundTrip(w) PROVE UNCHANGED run
      BY <3>2, TripMoves DEF ShapeInv
    <3>3. ASSUME NEW c \in Commands,
                 \/ Resolve(c) \/ ResolverDies(c) \/ Admit(c) \/ Replay(c)
                 \/ \E key \in KeysOf(c) : WriteResolution(c, key)
          PROVE  UNCHANGED run
      BY <3>3 DEF Resolve, ResolverDies, Admit, Replay, WriteResolution, runVars
    <3>4. ASSUME NEW o \in Others, OtherRecords(o) PROVE UNCHANGED run
      BY <3>4 DEF OtherRecords, runVars
    <3> QED  BY <1>2, <1>3, <2>2, <3>1, <3>2, <3>3, <3>4 DEF Next
  <2> QED  BY <2>1, <2>2, <2>3, Moves
<1>6. \A m \in Runs : pending'[m] = pending[m]
  <2>1. CASE UNCHANGED vars
    BY <2>1 DEF vars, storeVars
  <2>2. ASSUME NEW w \in Workflows, RoundTrip(w) PROVE UNCHANGED pending
    BY <2>2, TripMoves DEF ShapeInv
  <2>3. ASSUME NEW c \in Commands,
               \/ Resolve(c) \/ ResolverDies(c) \/ Admit(c) \/ Replay(c)
               \/ \E key \in KeysOf(c) : WriteResolution(c, key)
        PROVE  UNCHANGED pending
    BY <2>3 DEF Resolve, ResolverDies, Admit, Replay, WriteResolution, storeVars
  <2>4. ASSUME NEW m \in Runs, CreateRun(m) PROVE UNCHANGED pending
    BY <2>4 DEF CreateRun, storeVars
  <2>5. ASSUME NEW o \in Others, OtherRecords(o) PROVE \A m \in Runs : pending'[m] = pending[m]
    <3>1. o \notin Runs
      BY Assumed
    <3>2. pending' = [pending EXCEPT ![o] = None]
      BY <2>5 DEF OtherRecords, Store!RecordInvalidation, Store!Abandon
    <3> QED  BY <3>1, <3>2 DEF HistoryInv, Store!TypeOK
  <2> QED  BY <1>2, <1>3, <2>1, <2>2, <2>3, <2>4, <2>5 DEF Next
<1> QED  BY <1>4, <1>5, <1>6

LEMMA ImpactIsNodes ==
  ASSUME NEW paths
  PROVE  Store!Impact(paths) # None
<1>1. Store!Impact(paths) \in SUBSET Store!Nodes
  BY DEF Store!Impact, Store!Downstream
<1> QED  BY <1>1, StoreAssumption

LEMMA LockPreserved ==
  ASSUME ShapeInv, HistoryInv, AdmissionInv, [Next]_vars
  PROVE  LockInv'
<1>1. admission' # None =>
        admission'.command \in Commands /\ admission'.step \in {"apply", "save", "record", "return"}
  BY NextShape DEF ShapeInv, AdmissionTypeOK, Admissions
<1> SUFFICES ASSUME NEW c \in Commands, NEW step \in {"apply", "save", "record", "return"},
                    admission' # None, admission'.command = c, admission'.step = step
             PROVE  Locked(c, step)'
  BY <1>1 DEF LockInv
<1> DEFINE k == CommandRun[c]
<1>2. k \in Runs
  BY Assumed
<1>3. admission # None /\ admission.command = c =>
        /\ admission \in Admissions /\ RunOfCommand(c) # None
        /\ Source(c)' = Source(c) /\ Changeset(c)' = Changeset(c)
        /\ Source(c) \in Nat
        /\ Locked(c, admission.step)
  BY AdmissionFacts, SourceKept DEF ShapeInv, AdmissionInv, LockInv
<1>4. CASE admission' = admission
  <2>1. /\ UNCHANGED <<changes, content, changeset>>
        /\ run'[k] = run[k] /\ pending'[k] = pending[k]
    BY <1>2, <1>4, LockHolds
  <2>2. Store!current' = Store!current /\ Source(c)' = Source(c) /\ RunOfCommand(c)' = RunOfCommand(c)
    BY <2>1 DEF Store!current, Source, RunOfCommand
  <2>3. Made(c, Store!current) => Made(c, Store!current)'
    BY <1>3, <1>4, <2>1, <2>2 DEF Made
  <2>4. records[Store!current] # None => records'[Store!current] # None
    BY Kept DEF ShapeInv
  <2>5. Locked(c, step)
    BY <1>3, <1>4
  <2> QED  BY <2>1, <2>2, <2>3, <2>4, <2>5 DEF Locked
<1>5. CASE Admit(c)
  <2>1. /\ Store!current = Source(c) /\ admission' = [command |-> c, step |-> "apply"]
        /\ UNCHANGED <<changes, run>>
    BY <1>5 DEF Admit, storeVars, runVars
  <2>2. step = "apply" /\ Store!current' = Source(c)'
    BY <2>1 DEF Source, RunOfCommand, Store!current
  <2> QED  BY <2>2 DEF Locked
<1>6. CASE Apply
  <2>1. ~ Occupied(admission.command) /\ admission # None /\ admission.step = "apply"
    BY <1>6 DEF Apply, Admitting
  <2>2. /\ Store!current' = Store!current + 1
        /\ content'[Store!current] = content[Store!current]
        /\ content'[Store!current + 1] = content[Store!current] \cup Items(admission.command)
        /\ changeset'[Store!current + 1] = Changeset(admission.command)
        /\ pending' = [pending EXCEPT ![CommandRun[admission.command]] = Store!current + 1]
        /\ admission' = [admission EXCEPT !.step = "save"]
    BY <1>6, <2>1, ApplyCommits, Kept
  <2>3. admission.command = c /\ step = "save"
    BY <2>1, <2>2, AdmissionFacts DEF ShapeInv, Admissions
  <2>4. Store!current = Source(c)
    BY <1>3, <2>1, <2>3 DEF Locked
  <2>5. Store!current' - 1 = Store!current
    BY <2>2, Kept
  <2>6. Made(c, Store!current)'
    <3>1. changeset'[Store!current'] = Changeset(c)'
      BY <1>3, <2>1, <2>2, <2>3
    <3>2. content'[Store!current'] = content'[Store!current' - 1] \cup Items(c)
      BY <2>2, <2>3, <2>5
    <3> QED  BY <3>1, <3>2 DEF Made
  <2>7. pending'[k] = Store!current'
    BY <1>2, <2>2, <2>3 DEF HistoryInv, Store!TypeOK
  <2> QED  BY <1>3, <2>1, <2>2, <2>3, <2>4, <2>6, <2>7 DEF Locked
<1>7. CASE Save
  <2>1. /\ admission # None /\ admission.step = "save"
        /\ admission' = [admission EXCEPT !.step = "record"]
        /\ run' = Advanced(CommandRun[admission.command])
        /\ UNCHANGED <<storeVars, content, changeset>>
    BY <1>7 DEF Save, Admitting, Continue
  <2>2. admission.command = c /\ step = "record"
    BY <2>1, AdmissionFacts DEF ShapeInv, Admissions
  <2>3. /\ Store!current = Source(c) + 1 /\ Made(c, Store!current)
        /\ pending[k] = Store!current
    BY <1>3, <2>1, <2>2 DEF Locked
  <2>4. Store!current' = Store!current /\ pending' = pending
    BY <2>1 DEF storeVars, Store!current
  <2>5. Made(c, Store!current)'
    BY <1>3, <2>1, <2>2, <2>3, <2>4 DEF Made
  <2>6. RunOfCommand(c)'.active = Store!current
    BY <1>2, <1>3, <2>1, <2>2, AdvancedTyped DEF ShapeInv, RunOfCommand
  <2> QED  BY <1>3, <2>1, <2>2, <2>3, <2>4, <2>5, <2>6 DEF Locked
<1>8. CASE Invalidate
  <2>1. /\ admission # None /\ admission.step = "record"
        /\ admission' = [admission EXCEPT !.step = "return"]
        /\ Store!RecordInvalidation(CommandRun[admission.command])
        /\ UNCHANGED <<runVars, changeset>>
    BY <1>8 DEF Invalidate, Admitting, Continue
  <2>2. admission.command = c /\ step = "return"
    BY <2>1, AdmissionFacts DEF ShapeInv, Admissions
  <2>3. /\ Store!current = Source(c) + 1 /\ Made(c, Store!current)
        /\ pending[k] = Store!current
        /\ RunOfCommand(c).active = Store!current
    BY <1>3, <2>1, <2>2 DEF Locked
  <2>4. Store!current' = Store!current /\ RunOfCommand(c)' = RunOfCommand(c) /\ content' = content
    BY <2>1 DEF Store!RecordInvalidation, Store!current, runVars, RunOfCommand
  <2>5. Made(c, Store!current)'
    BY <1>3, <2>1, <2>2, <2>3, <2>4 DEF Made
  <2>6. records'[Store!current] # None
    <3>1. records' = [records EXCEPT ![Store!current] =
                        IF @ = None THEN Store!Impact(changes[Store!current]) ELSE @]
      BY <2>1, <2>2, <2>3 DEF Store!RecordInvalidation
    <3> QED  BY <3>1, ImpactIsNodes DEF HistoryInv, Store!TypeOK, ShapeInv
  <2> QED  BY <1>3, <2>1, <2>2, <2>3, <2>4, <2>5, <2>6 DEF Locked
<1>9. ~ Tell /\ ~ AdmissionDies
  BY DEF Tell, AdmissionDies
<1>10. \A d \in Commands : Admit(d) => d = c
  BY DEF Admit
<1>11. CASE UNCHANGED vars
  BY <1>4, <1>11 DEF vars, admissionVars
<1>12. ASSUME UNCHANGED admissionVars PROVE admission' = admission
  BY <1>12 DEF admissionVars
<1>13. ASSUME NEW d \in Commands,
              \/ Resolve(d) \/ ResolverDies(d) \/ Replay(d)
              \/ \E key \in KeysOf(d) : WriteResolution(d, key)
       PROVE  admission' = admission
  BY <1>13 DEF Resolve, ResolverDies, Replay, WriteResolution
<1>14. ASSUME NEW o \in Others,
              OtherRecords(o) \/ \E paths \in OtherChanges : OtherCommits(o, paths)
       PROVE  admission' = admission
  BY <1>12, <1>14 DEF OtherRecords, OtherCommits
<1> HIDE DEF k
<1> QED
  BY <1>4, <1>5, <1>6, <1>7, <1>8, <1>9, <1>10, <1>11, <1>12, <1>13, <1>14 DEF Next

LEMMA AnsweredKept ==
  ASSUME ShapeInv, HistoryInv, AdmissionInv, [Next]_vars, NEW c \in Commands,
         NEW r \in Store!Revisions, Answered(c, r)
  PROVE  Answered(c, r)'
<1> DEFINE k == CommandRun[c]
<1>1. k \in Runs /\ run[k] # None
  BY Assumed DEF Answered, RunOfCommand
<1>2. /\ RunOfCommand(c)' # None /\ Source(c)' = Source(c)
      /\ Source(c) \in Nat /\ Source(c) >= 1
  BY SourceKept DEF Answered
<1>3. r \in 2 .. Store!current /\ r = Source(c) + 1
  BY <1>2, StoreAssumption DEF Answered, Store!Revisions
<1>4. Made(c, r)'
  BY <1>3, MadeKept DEF Answered
<1>5. records'[r] # None
  BY Kept DEF Answered
<1>6. run'[k].active = r
  <2>1. CASE UNCHANGED run
    BY <2>1 DEF Answered, RunOfCommand
  <2>2. ASSUME NEW m \in Runs, CreateRun(m) PROVE run'[k] = run[k]
    BY <1>1, <2>2 DEF CreateRun, ShapeInv, TripTypeOK
  <2>3. CASE Admitting("save") /\ run' = Advanced(CommandRun[admission.command])
    <3> DEFINE d == admission.command
    <3>1. /\ d \in Commands /\ CommandRun[d] \in Runs /\ RunOfCommand(d) # None
          /\ Locked(d, "save")
      BY <2>3, AdmissionFacts DEF ShapeInv, Admitting, AdmissionInv, LockInv
    <3>2. Store!current = Source(d) + 1
      BY <3>1 DEF Locked
    <3>3. /\ run'[CommandRun[d]].active = Store!current
          /\ \A m \in Runs \ {CommandRun[d]} : run'[m] = run[m]
      BY <2>3, <3>1, AdvancedTyped DEF ShapeInv, RunOfCommand
    <3>4. CommandRun[d] = k => Source(d) = Source(c)
      BY DEF Source, RunOfCommand
    <3> HIDE DEF d
    <3>5. run[k].active = r
      BY DEF Answered, RunOfCommand
    <3> QED  BY <1>1, <1>3, <3>2, <3>3, <3>4, <3>5
  <2> QED  BY <2>1, <2>2, <2>3, Moves DEF Answered, RunOfCommand
<1>7. r <= Store!current'
  BY <1>2, <1>3, Kept
<1> QED  BY <1>2, <1>3, <1>4, <1>5, <1>6, <1>7 DEF Answered, RunOfCommand

LEMMA AnswersPreserved ==
  ASSUME ShapeInv, HistoryInv, AdmissionInv, [Next]_vars
  PROVE  AnswersInv'
<1>0. \A c \in Commands : answer'[c] \in Store!Revisions \cup {None}
  BY NextShape DEF ShapeInv, AdmissionTypeOK
<1> SUFFICES ASSUME NEW c \in Commands, NEW r \in Store!Revisions, answer'[c] = r
             PROVE  Answered(c, r)'
  BY <1>0 DEF AnswersInv
<1>1. CASE answer'[c] = answer[c]
  <2>1. r # None
    BY StoreAssumption
  <2>2. Answered(c, r)
    BY <1>1, <2>1 DEF AdmissionInv, AnswersInv
  <2> QED  BY <2>2, AnsweredKept
<1>2. CASE Tell /\ admission.command = c
  <2>1. /\ admission # None /\ admission.step = "return"
        /\ answer' = [answer EXCEPT ![c] = RunOfCommand(c).active]
    BY <1>2 DEF Tell, Admitting
  <2>2. Locked(c, "return") /\ RunOfCommand(c) # None
    BY <1>2, <2>1 DEF AdmissionInv, LockInv, ShapeInv
  <2>3. Answered(c, Store!current)
    BY <2>2, Kept DEF Locked, Answered
  <2>4. answer'[c] = Store!current
    BY <2>1, <2>2 DEF Locked, ShapeInv, AdmissionTypeOK
  <2> QED  BY <2>3, <2>4, AnsweredKept
<1>3. CASE Replay(c)
  <2>1. /\ RunOfCommand(c) # None /\ Store!current = Source(c) + 1
        /\ content[Store!current] = content[Source(c)] \cup Items(c)
        /\ RunOfCommand(c).active = Store!current
        /\ records[Store!current] # None /\ changeset[Store!current] = Changeset(c)
        /\ answer' = [answer EXCEPT ![c] = Store!current]
    BY <1>3 DEF Replay
  <2>2. Store!current - 1 = Source(c)
    BY <2>1, SourceKept
  <2>3. Answered(c, Store!current)
    BY <2>1, <2>2, Kept DEF Answered, Made
  <2>4. r = Store!current
    BY <2>1 DEF ShapeInv, AdmissionTypeOK
  <2> QED  BY <2>3, <2>4, AnsweredKept
<1>4. CASE UNCHANGED vars
  BY <1>1, <1>4 DEF vars, admissionVars
<1>5. ASSUME UNCHANGED admissionVars PROVE answer' = answer
  BY <1>5 DEF admissionVars
<1>6. ASSUME NEW d \in Commands,
             \/ Resolve(d) \/ ResolverDies(d) \/ Admit(d)
             \/ \E key \in KeysOf(d) : WriteResolution(d, key)
      PROVE  answer' = answer
  BY <1>6 DEF Resolve, ResolverDies, Admit, WriteResolution
<1>7. ASSUME NEW d \in Commands, d # c, Replay(d) PROVE answer'[c] = answer[c]
  BY <1>7 DEF Replay, ShapeInv, AdmissionTypeOK
<1>8. CASE Apply \/ Save \/ Invalidate \/ AdmissionDies
  BY <1>1, <1>8 DEF Apply, Save, Invalidate, AdmissionDies
<1>9. CASE Tell /\ admission.command # c
  BY <1>1, <1>9 DEF Tell, ShapeInv, AdmissionTypeOK
<1>10. ASSUME NEW o \in Others,
              OtherRecords(o) \/ \E paths \in OtherChanges : OtherCommits(o, paths)
       PROVE  answer' = answer
  BY <1>5, <1>10 DEF OtherRecords, OtherCommits
<1> QED
  BY <1>1, <1>2, <1>3, <1>4, <1>5, <1>6, <1>7, <1>8, <1>9, <1>10 DEF Next

LEMMA AdmissionInvariant == Spec => []AdmissionInv
<1>1. ShapeInv /\ HistoryInv /\ AdmissionInv /\ [Next]_vars => AdmissionInv'
  BY RunsPreserved, ChangesetsPreserved, LockPreserved, AnswersPreserved DEF AdmissionInv
<1> QED  BY <1>1, InitAdmission, ShapeInvariant, HistoryInvariant, PTL DEF Spec

\* What the caller of an admission is told is true for good, for any commands, runs,
\* commits of others, failures and deaths: no command makes two revisions, and the one
\* it was told is its own, with its record and its run
\* (constraint_resolution_admission.py:353-383; joint_authority_admission.py:318-415).
THEOREM AdmissionsAreTrue == Spec => []AdmissionIsTrue
<1>1. ShapeInv /\ HistoryInv /\ AdmissionInv => AdmissionIsTrue
  <2> SUFFICES ASSUME ShapeInv, HistoryInv, AdmissionInv, NEW c \in Commands
               PROVE  /\ \A q, r \in 2 .. Store!current :
                           RunOfCommand(c) # None /\ changeset[q] = Changeset(c)
                             /\ changeset[r] = Changeset(c) => q = r
                      /\ answer[c] # None =>
                           LET r == answer[c]
                           IN /\ r = Source(c) + 1
                              /\ changeset[r] = Changeset(c)
                              /\ content[r] = content[r - 1] \cup Items(c)
                              /\ records[r] # None
                              /\ RunOfCommand(c).active = r
    BY DEF AdmissionIsTrue
  <2>1. ASSUME NEW q \in 2 .. Store!current, NEW r \in 2 .. Store!current,
               RunOfCommand(c) # None, changeset[q] = Changeset(c), changeset[r] = Changeset(c)
        PROVE  q = r
    <3>1. Changeset(c) # None
      BY <2>1, SourceOfRun, AdmissionAssumption DEF ShapeInv
    <3>2. q \in 1 .. Store!current /\ r \in 1 .. Store!current
      OBVIOUS
    <3>3. changeset[q][3] = q - 1 /\ changeset[r][3] = r - 1
      BY <2>1, <3>1, <3>2 DEF AdmissionInv, ChangesetsInv
    <3> QED  BY <2>1, <3>3
  <2>2. answer[c] # None => Answered(c, answer[c])
    BY DEF AdmissionInv, AnswersInv
  <2> QED  BY <2>1, <2>2 DEF Answered, Made
<1> QED
  BY <1>1, ShapeInvariant, HistoryInvariant, AdmissionInvariant, PTL

-----------------------------------------------------------------------------
(* Round trips: where a flow is, and what its files say. *)

Marks == {"invocation_b_failed", "second_tool_request", "invocation_a_failed", "complete"}

MarkInv(w) ==
  /\ flow[w].at # "idle" => "started" \in flow[w].files
  /\ flow[w].at # "done" => flow[w].files \cap Marks = {} /\ flow[w].returned = None

LEMMA TripFrame ==
  ASSUME [Next]_vars
  PROVE  UNCHANGED tripVars \/ \E w \in Workflows : RoundTrip(w)
<1>1. CASE UNCHANGED vars
  BY <1>1 DEF vars
<1>2. ASSUME NEW k \in Runs, CreateRun(k) PROVE UNCHANGED tripVars
  BY <1>2 DEF CreateRun
<1>3. ASSUME NEW c \in Commands,
             \/ Resolve(c) \/ ResolverDies(c) \/ \E key \in KeysOf(c) : WriteResolution(c, key)
             \/ Admit(c) \/ Replay(c)
      PROVE  UNCHANGED tripVars
  BY <1>3 DEF Resolve, ResolverDies, WriteResolution, Admit, Replay
<1>4. CASE Apply \/ Save \/ Invalidate \/ Tell \/ AdmissionDies
  BY <1>4 DEF Apply, Save, Invalidate, Tell, AdmissionDies
<1>5. ASSUME NEW o \in Others,
             OtherRecords(o) \/ \E paths \in OtherChanges : OtherCommits(o, paths)
      PROVE  UNCHANGED tripVars
  BY <1>5 DEF OtherRecords, OtherCommits
<1> QED  BY <1>1, <1>2, <1>3, <1>4, <1>5 DEF Next

LEMMA FlowFrame ==
  ASSUME ShapeInv, [Next]_vars, NEW w \in Workflows
  PROVE  \/ RoundTrip(w)
         \/ flow'[w] = flow[w] /\ askedAt'[w] = askedAt[w]
<1>1. CASE UNCHANGED tripVars
  BY <1>1 DEF tripVars
<1>2. ASSUME NEW v \in Workflows, v # w, RoundTrip(v)
      PROVE  flow'[w] = flow[w] /\ askedAt'[w] = askedAt[w]
  <2>1. flow'[w] = flow[w]
    BY <1>2, TripMoves DEF ShapeInv, TripTypeOK
  <2>2. CASE AskSecond(v)
    BY <1>2, <2>1, <2>2 DEF AskSecond, ShapeInv, TripTypeOK
  <2>3. CASE UNCHANGED askedAt
    BY <2>1, <2>3
  <2> QED  BY <1>2, <2>2, <2>3 DEF RoundTrip, Start, AskFirst, AgentFails, FailFirst,
              AnswerFirst, Mediate, CallTool, ToolReturns, ToolFails, Conclude, Collect,
              MakeEvidence, Confirm, AnswerSecond, FailSecond, RefuseSecondTool,
              RecordSecond, Discover, Complete, Die
<1> QED  BY <1>1, <1>2, TripFrame

\* A call ends by reporting what it wrote last, or by raising; before it ends it has
\* reported nothing, and afterwards it does not begin again.
LEMMA FlowEnds ==
  ASSUME ShapeInv, NEW w \in Workflows, MarkInv(w), RoundTrip(w)
  PROVE  /\ MarkInv(w)'
         /\ flow[w].at # "done"
         /\ flow'[w].returned # None => Resume(w)' \in {None, flow'[w].returned}
<1>1. flow[w] \in Flows
  BY DEF ShapeInv, TripTypeOK
<1> USE <1>1 DEF Step, Goto, Return, At, Flows, ShapeInv, TripTypeOK
<1>2. ASSUME NEW f, flow'[w] = f, f.at # "done", f.returned = None, f.files \cap Marks = {},
             "started" \in f.files, flow[w].at # "done"
      PROVE  /\ MarkInv(w)'
             /\ flow[w].at # "done"
             /\ flow'[w].returned # None => Resume(w)' \in {None, flow'[w].returned}
  BY <1>2 DEF MarkInv
<1>3. ASSUME NEW written \in SUBSET Files, NEW result \in Reports,
             Return(w, written, result), flow[w].at \notin {"idle", "done"},
             \A mark \in written : mark \in Marks => mark = result
      PROVE  /\ MarkInv(w)'
             /\ flow[w].at # "done"
             /\ flow'[w].returned # None => Resume(w)' \in {None, flow'[w].returned}
  <2>1. /\ flow'[w].at = "done" /\ flow'[w].returned = result
        /\ flow'[w].files = flow[w].files \cup written
    BY <1>3
  <2>2. flow[w].files \cap Marks = {} /\ "started" \in flow[w].files
    BY <1>3 DEF MarkInv
  <2>4. \A mark \in Marks : mark \in flow'[w].files => mark = result
    BY <1>3, <2>1, <2>2
  <2>5. Resume(w)' \in {None, result}
    BY <2>4 DEF Resume, Marks
  <2> QED  BY <1>3, <2>1, <2>2, <2>5 DEF MarkInv
<1> HIDE DEF Return
<1>4. CASE Start(w)
  <2>1. flow[w].at = "idle"
    BY <1>4 DEF Start, MarkInv
  <2>2. flow'[w] = [flow[w] EXCEPT !.at = "ask_a", !.files = {"started"}]
    BY <1>4 DEF Start
  <2> QED  BY <1>2, <2>1, <2>2 DEF MarkInv, Marks
<1>8. CASE /\ flow[w].at \notin {"idle", "done"}
           /\ flow'[w].at # "done" /\ flow'[w].returned = flow[w].returned
           /\ flow'[w].files = flow[w].files
  BY <1>2, <1>8 DEF MarkInv
<1>5. ASSUME AskFirst(w) \/ AgentFails(w) \/ Mediate(w) \/ CallTool(w) \/ ToolReturns(w)
          \/ ToolFails(w) \/ AskSecond(w) \/ Die(w)
      PROVE  /\ flow[w].at \notin {"idle", "done"}
             /\ flow'[w].at # "done" /\ flow'[w].returned = flow[w].returned
             /\ flow'[w].files = flow[w].files
  <2>1. CASE AskFirst(w)
    BY <2>1 DEF AskFirst
  <2>2. CASE AgentFails(w)
    BY <2>2 DEF AgentFails
  <2>3. CASE Mediate(w)
    BY <2>3 DEF Mediate
  <2>4. CASE CallTool(w)
    BY <2>4 DEF CallTool
  <2>5. CASE ToolReturns(w)
    BY <2>5 DEF ToolReturns
  <2>6. CASE ToolFails(w)
    BY <2>6 DEF ToolFails
  <2>7. CASE AskSecond(w)
    BY <2>7 DEF AskSecond
  <2>8. CASE Die(w)
    BY <2>8 DEF Die
  <2> QED  BY <1>5, <2>1, <2>2, <2>3, <2>4, <2>5, <2>6, <2>7, <2>8
<1>14. CASE RecordSecond(w)
  <2>1. flow'[w] = [flow[w] EXCEPT !.at = "requests", !.files = @ \cup {"invocation_b"}]
    BY <1>14 DEF RecordSecond
  <2>2. flow[w].at = "record_b"
    BY <1>14 DEF RecordSecond
  <2> QED  BY <1>2, <2>1, <2>2 DEF MarkInv, Marks
<1>13. CASE Conclude(w)
  <2>1. CASE Step(w, [flow[w] EXCEPT !.mediation = "succeeded", !.at = "evidence",
                                     !.files = @ \cup {"invocation_a", "tool_result"}])
    BY <1>2, <1>13, <2>1 DEF Conclude, MarkInv, Marks
  <2>2. CASE Step(w, [flow[w] EXCEPT !.mediation = "failed", !.at = "collect"])
    <3>1. flow[w].at = "conclude"
      BY <1>13 DEF Conclude
    <3>2. flow'[w] = [flow[w] EXCEPT !.mediation = "failed", !.at = "collect"]
      BY <2>2
    <3>3. /\ flow'[w].at = "collect" /\ flow'[w].returned = flow[w].returned
          /\ flow'[w].files = flow[w].files
      BY <3>2
    <3> QED  BY <1>8, <3>1, <3>3
  <2> QED  BY <1>13, <2>1, <2>2 DEF Conclude
<1>6. ASSUME NEW again \in BOOLEAN, NEW keys \in Missed[w], AnswerSecond(w, again, keys)
      PROVE  /\ flow[w].at \notin {"idle", "done"}
             /\ flow'[w].at # "done" /\ flow'[w].returned = flow[w].returned
             /\ flow'[w].files = flow[w].files
  BY <1>6 DEF AnswerSecond
<1>7. ASSUME NEW key \in Keys, Discover(w, key)
      PROVE  /\ flow[w].at \notin {"idle", "done"}
             /\ flow'[w].at # "done" /\ flow'[w].returned = flow[w].returned
             /\ flow'[w].files = flow[w].files
  BY <1>7 DEF Discover
<1>9. CASE FailFirst(w) \/ Collect(w) \/ FailSecond(w) \/ RefuseSecondTool(w) \/ Complete(w)
  <2>1. CASE FailFirst(w)
    BY <1>3, <2>1 DEF FailFirst, Files, Reports, Marks
  <2>2. CASE Collect(w)
    BY <1>3, <2>2 DEF Collect, Files, Reports, Marks
  <2>3. CASE FailSecond(w)
    BY <1>3, <2>3 DEF FailSecond, Files, Reports, Marks
  <2>4. CASE RefuseSecondTool(w)
    BY <1>3, <2>4 DEF RefuseSecondTool, Files, Reports, Marks
  <2>5. CASE Complete(w)
    BY <1>3, <2>5 DEF Complete, Files, Reports, Marks
  <2> QED  BY <1>9, <2>1, <2>2, <2>3, <2>4, <2>5
<1>10. CASE MakeEvidence(w)
  <2>1. CASE Goto(w, "confirm")
    BY <1>8, <1>10, <2>1 DEF MakeEvidence
  <2>2. CASE Return(w, {}, "stale_before_evidence")
    BY <1>3, <1>10, <2>2 DEF MakeEvidence, Files, Reports
  <2> QED  BY <1>10, <2>1, <2>2 DEF MakeEvidence
<1>11. CASE Confirm(w)
  <2>1. CASE Step(w, [flow[w] EXCEPT !.at = "ask_b", !.files = @ \cup {"evidence"}])
    BY <1>2, <1>11, <2>1 DEF Confirm, MarkInv, Marks
  <2>2. CASE Return(w, {}, "evidence_not_current")
    BY <1>3, <1>11, <2>2 DEF Confirm, Files, Reports
  <2> QED  BY <1>11, <2>1, <2>2 DEF Confirm
<1>12. ASSUME NEW n \in 0 .. 2, AnswerFirst(w, n)
       PROVE  /\ MarkInv(w)'
              /\ flow[w].at # "done"
              /\ flow'[w].returned # None => Resume(w)' \in {None, flow'[w].returned}
  <2>1. flow[w].at = "agent_a" /\ (\/ \E step \in {"fail_a", "mediate", "died"} : Goto(w, step)
                                   \/ Return(w, {}, "no_tool_request"))
    BY <1>12 DEF AnswerFirst
  <2>2. CASE Return(w, {}, "no_tool_request")
    BY <1>3, <2>1, <2>2 DEF Files, Reports
  <2>3. CASE \E step \in {"fail_a", "mediate", "died"} : Goto(w, step)
    BY <1>8, <2>1, <2>3
  <2> QED  BY <2>1, <2>2, <2>3
<1> QED
  BY <1>4, <1>5, <1>6, <1>7, <1>8, <1>9, <1>10, <1>11, <1>12, <1>13, <1>14 DEF RoundTrip

LEMMA MarksInvariant == Spec => [](\A w \in Workflows : MarkInv(w))
<1>1. Init => \A w \in Workflows : MarkInv(w)
  BY DEF Init, TripInit, MarkInv
<1>2. ShapeInv /\ (\A w \in Workflows : MarkInv(w)) /\ [Next]_vars
        => (\A w \in Workflows : MarkInv(w))'
  BY FlowFrame, FlowEnds DEF MarkInv
<1> QED  BY <1>1, <1>2, ShapeInvariant, PTL DEF Spec

\* resume reports what run reported, and once it reports something it reports the
\* same for ever, for any agents, tools, failures and deaths (roundtrip.py:158-175).
THEOREM ResumeStaysTruthful == Spec => ResumeIsTruthful
<1>1. ASSUME ShapeInv, \A w \in Workflows : MarkInv(w), [Next]_vars, NEW w \in Workflows,
             flow'[w] # flow[w]
      PROVE  /\ Resume(w) # None => Resume(w)' = Resume(w)
             /\ flow'[w].returned # None => Resume(w)' \in {None, flow'[w].returned}
  <2>1. RoundTrip(w)
    BY <1>1, FlowFrame
  <2>2. /\ flow[w].at # "done"
        /\ flow'[w].returned # None => Resume(w)' \in {None, flow'[w].returned}
    BY <1>1, <2>1, FlowEnds
  <2>3. flow[w].files \cap Marks = {}
    BY <1>1, <2>2 DEF MarkInv
  <2>4. Resume(w) = None
    BY <2>3 DEF Resume, Marks
  <2> QED  BY <2>2, <2>4
<1>2. ShapeInv /\ (\A w \in Workflows : MarkInv(w)) /\ [Next]_vars =>
        [\A w \in Workflows : flow'[w] # flow[w] =>
           /\ Resume(w) # None => Resume(w)' = Resume(w)
           /\ flow'[w].returned # None => Resume(w)' \in {None, flow'[w].returned}]_vars
  BY <1>1
<1> QED
  BY <1>2, ShapeInvariant, MarksInvariant, PTL DEF Spec, ResumeIsTruthful

-----------------------------------------------------------------------------
(***************************************************************************)
(* What a flow knows of its tool and its evidence.  The agent is asked a   *)
(* second time only with evidence found current in the same step, and what *)
(* held then holds of that revision for good.                              *)
(***************************************************************************)
Untouched(w) ==
  \A r \in Bound(w) + 1 .. askedAt[w] :
    ~ \E leaf \in Store!Inputs(Torque) : Store!Touches(changes[r], leaf)

Evidenced(w) == [kind |-> Torque, revision |-> Bound(w), hash |-> Bound(w)]

Succeeded(w) == flow[w].tool = "succeeded" /\ flow[w].mediation = "succeeded"

FlowInv(w) ==
  /\ flow[w].at = "conclude" => flow[w].tool = "succeeded"
  /\ flow[w].at \in {"evidence", "confirm", "ask_b"} => Succeeded(w)
  /\ flow[w].at \in {"confirm", "ask_b"} => evidence[w] = Evidenced(w)
  /\ flow[w].at \in {"agent_b", "again", "record_b", "requests"} => askedAt[w] # None
  /\ askedAt[w] # None =>
       /\ flow[w].at \in {"agent_b", "again", "record_b", "requests", "fail_b", "done", "died"}
       /\ Succeeded(w)
       /\ askedAt[w] <= Store!current
       /\ Untouched(w)

RequestsInv ==
  \A k \in Runs, key \in Keys : requests[k][key] # None => askedAt[requests[k][key]] # None

LEMMA TouchImpacts ==
  ASSUME SP!DeepChanges, NEW paths \in ChangeSets, NEW leaf \in Leaves,
         Store!Touches(paths, leaf)
  PROVE  Store!Impact({leaf}) \subseteq Store!Impact(paths)
<1>1. SP!Touches(paths, leaf)
  BY DEF SP!Touches, Store!Touches, SP!Prefix, Store!Prefix
<1>2. SP!Impact({leaf}) \subseteq SP!Impact(paths)
  BY <1>1, SP!TouchInvalidates, StoreAssumptionHolds, EvidenceAssumptionHolds,
     QuestionAssumptionHolds
<1> QED  BY <1>2, SameImpact

LEMMA FreshIsUntouched ==
  ASSUME SP!DeepChanges, ShapeInv, HistoryInv, NEW w \in Workflows,
         Bound(w) \in Store!Revisions, evidence[w] = Evidenced(w), Fresh(w)
  PROVE  \A r \in Bound(w) + 1 .. Store!current :
           ~ \E leaf \in Store!Inputs(Torque) : Store!Touches(changes[r], leaf)
<1>1. Bound(w) \in Nat /\ Bound(w) >= 1 /\ Store!current \in Nat /\ Store!current <= MaxRevision
        /\ MaxRevision \in Nat
  BY StoreAssumption DEF Store!Revisions, ShapeInv
<1>2. \A r \in Bound(w) + 1 .. Store!current : records[r] # None /\ Torque \notin records[r]
  BY DEF Fresh, Store!Freshness, Evidenced
<1>3. ASSUME NEW r \in Bound(w) + 1 .. Store!current, NEW leaf \in Store!Inputs(Torque),
             Store!Touches(changes[r], leaf)
      PROVE  FALSE
  <2>1. r \in Store!Revisions /\ r \in 2 .. Store!current
    BY <1>1 DEF Store!Revisions
  <2>2. changes[r] \in ChangeSets /\ records[r] = Store!Impact(changes[r])
    BY <1>2, <2>1 DEF HistoryInv
  <2>3. leaf \in Leaves /\ Torque \in Store!Impact({leaf})
    BY DEF Store!Inputs
  <2>4. Torque \in records[r]
    BY <1>3, <2>2, <2>3, TouchImpacts
  <2> QED  BY <1>2, <2>4
<1> QED  BY <1>3

\* What other steps leave of a flow.
LEMMA FlowKept ==
  ASSUME ShapeInv, HistoryInv, [Next]_vars, NEW w \in Workflows, FlowInv(w),
         flow'[w] = flow[w], askedAt'[w] = askedAt[w]
  PROVE  FlowInv(w)'
<1>1. run[RunOf[w]] # None \/ flow[w].at = "idle"
  BY DEF ShapeInv
<1>2. CASE flow[w].at = "idle"
  BY <1>2 DEF FlowInv
<1>3. CASE run[RunOf[w]] # None
  <2>1. Bound(w)' = Bound(w) /\ Bound(w) \in Store!Revisions
    BY <1>3, Kept, Assumed DEF Bound, ShapeInv, TripTypeOK, RunStates
  <2>2. evidence[w] # None => evidence'[w] = evidence[w]
    BY Kept
  <2>3. Evidenced(w) \in Store!Evidence
    BY <2>1, RoundTripAssumption DEF Evidenced, Store!Evidence
  <2>4. Evidenced(w) # None /\ Evidenced(w)' = Evidenced(w)
    BY <2>1, <2>3, StoreAssumption DEF Evidenced
  <2>5. askedAt[w] # None => askedAt[w] \in Store!Revisions
    BY DEF ShapeInv, TripTypeOK
  <2>6. ASSUME askedAt[w] # None, askedAt[w] <= Store!current, Untouched(w)
        PROVE  askedAt'[w] <= Store!current' /\ Untouched(w)'
    <3>1. Bound(w) \in Nat /\ Bound(w) >= 1 /\ askedAt[w] \in Nat
      BY <2>1, <2>5, <2>6, StoreAssumption DEF Store!Revisions
    <3>2. \A r \in Bound(w) + 1 .. askedAt[w] : r \in 1 .. Store!current
      BY <2>6, <3>1, Kept
    <3>3. \A r \in Bound(w) + 1 .. askedAt[w] : changes'[r] = changes[r]
      BY <3>2, Kept
    <3>4. askedAt'[w] <= Store!current'
      BY <2>6, <3>1, Kept
    <3> QED  BY <2>1, <2>6, <3>3, <3>4 DEF Untouched
  <2> QED  BY <2>2, <2>4, <2>6 DEF FlowInv, Succeeded
<1> QED  BY <1>1, <1>2, <1>3

LEMMA FlowMoves ==
  ASSUME SP!DeepChanges, ShapeInv, HistoryInv, [Next]_vars, NEW w \in Workflows, FlowInv(w),
         MarkInv(w), RoundTrip(w)
  PROVE  FlowInv(w)' /\ (askedAt[w] # None => askedAt'[w] = askedAt[w])
<1>1. flow[w] \in Flows /\ RunOf[w] \in Runs /\ Bound(w) \in Store!Revisions
  <2>1. run[RunOf[w]] # None
    BY TripHasRun DEF ShapeInv
  <2> QED  BY <2>1, Assumed DEF Bound, ShapeInv, TripTypeOK, RunStates
<1>2. /\ UNCHANGED <<changes, records, run>>
      /\ \E f \in Flows : flow' = [flow EXCEPT ![w] = f]
  BY TripMoves DEF ShapeInv
<1>3. Bound(w)' = Bound(w) /\ Evidenced(w)' = Evidenced(w) /\ Store!current' = Store!current
  BY <1>2 DEF Bound, Evidenced, Store!current
<1>4. evidence[w] # None => evidence'[w] = evidence[w]
  BY Kept
<1>5. Evidenced(w) # None
  BY <1>1, RoundTripAssumption, StoreAssumption DEF Evidenced, Store!Evidence
\* The steps that do not ask again, by where they lead and what they keep.
<1>6. ASSUME askedAt'[w] = askedAt[w], Succeeded(w) => Succeeded(w)',
             askedAt[w] # None => flow'[w].at \in
               {"agent_b", "again", "record_b", "requests", "fail_b", "done", "died"},
             flow'[w].at = "conclude" => flow'[w].tool = "succeeded",
             flow'[w].at \in {"evidence", "confirm", "ask_b"} => Succeeded(w)',
             flow'[w].at \in {"confirm", "ask_b"} => evidence'[w] = Evidenced(w),
             flow'[w].at \in {"agent_b", "again", "record_b", "requests"} => askedAt[w] # None
      PROVE  FlowInv(w)' /\ (askedAt[w] # None => askedAt'[w] = askedAt[w])
  <2>1. Untouched(w) => Untouched(w)'
    BY <1>2, <1>3, <1>6 DEF Untouched
  <2> QED  BY <1>3, <1>6, <2>1 DEF FlowInv
<1> USE DEF Step, Goto, Return, At
<1>7. CASE Start(w)
  <2>1. /\ flow[w].at = "idle"
        /\ flow'[w] = [flow[w] EXCEPT !.at = "ask_a", !.files = {"started"}]
        /\ askedAt' = askedAt
    BY <1>2, <1>7 DEF Start, MarkInv, ShapeInv, TripTypeOK
  <2>2. askedAt[w] = None
    BY <2>1 DEF FlowInv
  <2>3. flow'[w].at = "ask_a" /\ flow'[w].tool = flow[w].tool /\ flow'[w].mediation = flow[w].mediation
    BY <1>1, <2>1 DEF Flows
  <2> QED  BY <1>6, <2>1, <2>2, <2>3 DEF Succeeded
<1>8. ASSUME flow'[w].tool = flow[w].tool, flow'[w].mediation = flow[w].mediation
      PROVE  Succeeded(w) => Succeeded(w)'
  BY <1>8 DEF Succeeded
<1>9. flow[w].at \in {"ask_a", "agent_a", "fail_a", "mediate", "call", "tool", "conclude",
                      "collect", "evidence", "confirm", "ask_b"} => askedAt[w] = None
  BY DEF FlowInv
<1>10. CASE AskFirst(w) \/ AgentFails(w) \/ FailFirst(w) \/ Collect(w)
            \/ \E n \in 0 .. 2 : AnswerFirst(w, n)
  <2>1. /\ flow[w].at \in {"ask_a", "agent_a", "agent_b", "fail_a", "collect"}
        /\ flow[w].at = "agent_b" => flow'[w].at = "fail_b"
        /\ flow[w].at # "agent_b" =>
             flow'[w].at \in {"agent_a", "died", "fail_a", "mediate", "done"}
        /\ flow'[w].tool = flow[w].tool /\ flow'[w].mediation = flow[w].mediation
        /\ askedAt' = askedAt
    <3>1. CASE AskFirst(w)
      BY <1>1, <3>1 DEF AskFirst, ShapeInv, TripTypeOK, Flows
    <3>2. CASE AgentFails(w)
      BY <1>1, <3>2 DEF AgentFails, ShapeInv, TripTypeOK, Flows
    <3>3. CASE FailFirst(w)
      BY <1>1, <3>3 DEF FailFirst, ShapeInv, TripTypeOK, Flows
    <3>4. CASE Collect(w)
      BY <1>1, <3>4 DEF Collect, ShapeInv, TripTypeOK, Flows
    <3>5. ASSUME NEW n \in 0 .. 2, AnswerFirst(w, n)
          PROVE  /\ flow[w].at = "agent_a"
                 /\ flow'[w].at \in {"died", "fail_a", "mediate", "done"}
                 /\ flow'[w].tool = flow[w].tool /\ flow'[w].mediation = flow[w].mediation
                 /\ askedAt' = askedAt
      <4>1. /\ flow[w].at = "agent_a" /\ askedAt' = askedAt
            /\ \/ \E step \in {"fail_a", "mediate", "died"} :
                    flow' = [flow EXCEPT ![w] = [flow[w] EXCEPT !.at = step]]
               \/ flow' = [flow EXCEPT ![w] =
                    [flow[w] EXCEPT !.at = "done", !.files = @ \cup {}, !.returned = "no_tool_request"]]
        BY <3>5 DEF AnswerFirst
      <4>2. ASSUME NEW step \in {"fail_a", "mediate", "died"},
                   flow' = [flow EXCEPT ![w] = [flow[w] EXCEPT !.at = step]]
            PROVE  /\ flow'[w].at = step
                   /\ flow'[w].tool = flow[w].tool /\ flow'[w].mediation = flow[w].mediation
        BY <1>1, <4>2 DEF ShapeInv, TripTypeOK, Flows
      <4>3. ASSUME flow' = [flow EXCEPT ![w] =
                     [flow[w] EXCEPT !.at = "done", !.files = @ \cup {}, !.returned = "no_tool_request"]]
            PROVE  /\ flow'[w].at = "done"
                   /\ flow'[w].tool = flow[w].tool /\ flow'[w].mediation = flow[w].mediation
        BY <1>1, <4>3 DEF ShapeInv, TripTypeOK, Flows
      <4> QED  BY <4>1, <4>2, <4>3
    <3> QED  BY <1>10, <3>1, <3>2, <3>3, <3>4, <3>5
  <2> QED  BY <1>6, <1>8, <1>9, <2>1
<1>11. CASE Mediate(w) \/ CallTool(w) \/ ToolReturns(w) \/ ToolFails(w)
  <2>1. /\ flow[w].at \in {"mediate", "call", "tool"}
        /\ flow'[w].at \in {"call", "died", "tool", "collect", "conclude"}
        /\ flow'[w].at = "conclude" => flow'[w].tool = "succeeded"
        /\ askedAt' = askedAt
    <3>1. CASE Mediate(w)
      BY <1>1, <3>1 DEF Mediate, ShapeInv, TripTypeOK, Flows
    <3>2. CASE CallTool(w)
      BY <1>1, <3>2 DEF CallTool, ShapeInv, TripTypeOK, Flows
    <3>3. CASE ToolReturns(w)
      BY <1>1, <3>3 DEF ToolReturns, ShapeInv, TripTypeOK, Flows
    <3>4. CASE ToolFails(w)
      BY <1>1, <3>4 DEF ToolFails, ShapeInv, TripTypeOK, Flows
    <3> QED  BY <1>11, <3>1, <3>2, <3>3, <3>4
  <2>2. askedAt[w] = None
    BY <1>9, <2>1
  <2> QED  BY <2>1, <2>2 DEF FlowInv
<1>12. CASE Conclude(w)
  <2>1. /\ flow[w].at = "conclude" /\ askedAt' = askedAt
        /\ \/ flow'[w].at = "evidence" /\ flow'[w].mediation = "succeeded"
              /\ flow'[w].tool = flow[w].tool
           \/ flow'[w].at = "collect"
    BY <1>1, <1>12 DEF Conclude, ShapeInv, TripTypeOK, Flows
  <2>2. askedAt[w] = None /\ flow[w].tool = "succeeded"
    BY <1>9, <2>1 DEF FlowInv
  <2> QED  BY <2>1, <2>2 DEF FlowInv, Succeeded
<1>13. CASE MakeEvidence(w)
  <2>1. /\ flow[w].at = "evidence" /\ askedAt' = askedAt
        /\ flow'[w].tool = flow[w].tool /\ flow'[w].mediation = flow[w].mediation
        /\ \/ flow'[w].at = "confirm" /\ Store!WriteEvidence(w, Evidenced(w))
           \/ flow'[w].at = "done"
    <3>1. flow[w].at = "evidence" /\ askedAt' = askedAt
      BY <1>13 DEF MakeEvidence
    <3>2. CASE BindingCurrent(w)
      <4>1. Goto(w, "confirm") /\ Store!WriteEvidence(w, Evidenced(w))
        BY <1>13, <3>2 DEF MakeEvidence, Evidenced
      <4>2. /\ flow'[w].at = "confirm"
            /\ flow'[w].tool = flow[w].tool /\ flow'[w].mediation = flow[w].mediation
        BY <1>1, <4>1 DEF ShapeInv, TripTypeOK, Flows
      <4> QED  BY <3>1, <4>1, <4>2
    <3>3. CASE ~ BindingCurrent(w)
      <4>1. Return(w, {}, "stale_before_evidence")
        BY <1>13, <3>3 DEF MakeEvidence
      <4>2. /\ flow'[w].at = "done"
            /\ flow'[w].tool = flow[w].tool /\ flow'[w].mediation = flow[w].mediation
        BY <1>1, <4>1 DEF ShapeInv, TripTypeOK, Flows
      <4> QED  BY <3>1, <4>2
    <3> QED  BY <3>2, <3>3
  <2>2. Succeeded(w) /\ askedAt[w] = None
    BY <1>9, <2>1 DEF FlowInv
  <2>3. Store!WriteEvidence(w, Evidenced(w)) => evidence'[w] = Evidenced(w)
    BY DEF Store!WriteEvidence, HistoryInv, Store!TypeOK
  <2> QED  BY <1>6, <1>8, <2>1, <2>2, <2>3
<1>14. CASE Confirm(w)
  <2>1. /\ flow[w].at = "confirm" /\ askedAt' = askedAt
        /\ flow'[w].tool = flow[w].tool /\ flow'[w].mediation = flow[w].mediation
        /\ flow'[w].at \in {"ask_b", "done"}
    <3>1. CASE Step(w, [flow[w] EXCEPT !.at = "ask_b", !.files = @ \cup {"evidence"}])
      BY <1>1, <1>14, <3>1 DEF Confirm, ShapeInv, TripTypeOK, Flows
    <3>2. CASE Return(w, {}, "evidence_not_current")
      BY <1>1, <1>14, <3>2 DEF Confirm, ShapeInv, TripTypeOK, Flows
    <3> QED  BY <1>14, <3>1, <3>2 DEF Confirm
  <2>2. Succeeded(w) /\ askedAt[w] = None /\ evidence'[w] = Evidenced(w)
    BY <1>4, <1>5, <1>9, <2>1 DEF FlowInv
  <2> QED  BY <1>6, <1>8, <2>1, <2>2
<1>15. CASE AskSecond(w)
  <2>1. /\ flow[w].at = "ask_b"
        /\ flow'[w].tool = flow[w].tool /\ flow'[w].mediation = flow[w].mediation
        /\ \/ /\ flow'[w].at = "agent_b" /\ Fresh(w)
              /\ askedAt' = [askedAt EXCEPT ![w] = Store!current]
           \/ flow'[w].at = "died" /\ askedAt' = askedAt
    BY <1>1, <1>15 DEF AskSecond, ShapeInv, TripTypeOK, Flows
  <2>2. Succeeded(w) /\ askedAt[w] = None /\ evidence[w] = Evidenced(w)
    BY <1>9, <2>1 DEF FlowInv
  <2>3. CASE flow'[w].at = "died" /\ askedAt' = askedAt
    BY <1>6, <1>8, <2>1, <2>2, <2>3
  <2>4. CASE /\ flow'[w].at = "agent_b" /\ Fresh(w)
             /\ askedAt' = [askedAt EXCEPT ![w] = Store!current]
    <3>1. \A r \in Bound(w) + 1 .. Store!current :
            ~ \E leaf \in Store!Inputs(Torque) : Store!Touches(changes[r], leaf)
      BY <1>1, <2>2, <2>4, FreshIsUntouched
    <3>2. askedAt'[w] = Store!current
      BY <2>4 DEF ShapeInv, TripTypeOK
    <3>3. Untouched(w)'
      BY <1>2, <1>3, <3>1, <3>2 DEF Untouched
    <3>4. Store!current # None /\ Store!current <= Store!current
      BY Kept, StoreAssumption DEF ShapeInv
    <3>5. Succeeded(w)'
      BY <1>8, <2>1, <2>2
    <3> QED  BY <1>3, <2>2, <2>4, <3>2, <3>3, <3>4, <3>5 DEF FlowInv
  <2> QED  BY <2>1, <2>3, <2>4
<1>16. CASE \/ \E again \in BOOLEAN, keys \in Missed[w] : AnswerSecond(w, again, keys)
            \/ FailSecond(w) \/ RefuseSecondTool(w) \/ RecordSecond(w)
            \/ \E key \in Keys : Discover(w, key)
            \/ Complete(w)
  <2>1. /\ flow[w].at \in {"agent_b", "fail_b", "again", "record_b", "requests"}
        /\ flow'[w].at \in {"fail_b", "again", "record_b", "requests", "done"}
        /\ flow[w].at = "fail_b" => flow'[w].at = "done"
        /\ flow'[w].tool = flow[w].tool /\ flow'[w].mediation = flow[w].mediation
        /\ askedAt' = askedAt
    <3>1. ASSUME NEW again \in BOOLEAN, NEW keys \in Missed[w], AnswerSecond(w, again, keys)
          PROVE  /\ flow[w].at = "agent_b"
                 /\ flow'[w].at \in {"fail_b", "again", "record_b"}
                 /\ flow'[w].tool = flow[w].tool /\ flow'[w].mediation = flow[w].mediation
                 /\ askedAt' = askedAt
      BY <1>1, <3>1 DEF AnswerSecond, ShapeInv, TripTypeOK, Flows
    <3>2. CASE FailSecond(w)
      BY <1>1, <3>2 DEF FailSecond, ShapeInv, TripTypeOK, Flows
    <3>3. CASE RefuseSecondTool(w)
      BY <1>1, <3>3 DEF RefuseSecondTool, ShapeInv, TripTypeOK, Flows
    <3>4. CASE RecordSecond(w)
      BY <1>1, <3>4 DEF RecordSecond, ShapeInv, TripTypeOK, Flows
    <3>5. ASSUME NEW key \in Keys, Discover(w, key)
          PROVE  /\ flow[w].at = "requests" /\ flow'[w].at = "requests"
                 /\ flow'[w].tool = flow[w].tool /\ flow'[w].mediation = flow[w].mediation
                 /\ askedAt' = askedAt
      BY <1>1, <3>5 DEF Discover, ShapeInv, TripTypeOK, Flows
    <3>6. CASE Complete(w)
      BY <1>1, <3>6 DEF Complete, ShapeInv, TripTypeOK, Flows
    <3> QED  BY <1>16, <3>1, <3>2, <3>3, <3>4, <3>5, <3>6
  <2>2. flow[w].at # "fail_b" => askedAt[w] # None
    BY <2>1 DEF FlowInv
  <2> QED  BY <1>6, <1>8, <2>1, <2>2
<1>17. CASE Die(w)
  <2>1. /\ flow'[w].at = "died" /\ askedAt' = askedAt
        /\ flow'[w].tool = flow[w].tool /\ flow'[w].mediation = flow[w].mediation
    BY <1>1, <1>17 DEF Die, ShapeInv, TripTypeOK, Flows
  <2> QED  BY <1>6, <1>8, <2>1
<1> QED
  BY <1>7, <1>10, <1>11, <1>12, <1>13, <1>14, <1>15, <1>16, <1>17 DEF RoundTrip

LEMMA FlowsInvariant ==
  ASSUME SP!DeepChanges
  PROVE  Spec => [](RequestsInv /\ \A w \in Workflows : FlowInv(w))
<1>1. Init => RequestsInv /\ \A w \in Workflows : FlowInv(w)
  BY DEF Init, TripInit, FlowInv, RequestsInv
<1>2. ASSUME ShapeInv, HistoryInv, \A w \in Workflows : MarkInv(w), RequestsInv,
             \A w \in Workflows : FlowInv(w), [Next]_vars
      PROVE  RequestsInv' /\ (\A w \in Workflows : FlowInv(w))'
  <2>1. ASSUME NEW w \in Workflows
        PROVE  FlowInv(w)' /\ (askedAt[w] # None => askedAt'[w] # None)
    BY <1>2, FlowFrame, FlowKept, FlowMoves
  <2>2. ASSUME NEW k \in Runs, NEW key \in Keys, requests'[k][key] # None
        PROVE  askedAt'[requests'[k][key]] # None
    <3>1. CASE requests'[k][key] = requests[k][key]
      <4>1. requests[k][key] \in Workflows
        <5>1. requests[k] \in [Keys -> Workflows \cup {None}]
          BY <1>2 DEF ShapeInv, TripTypeOK
        <5> QED  BY <2>2, <3>1, <5>1
      <4> QED  BY <1>2, <2>1, <2>2, <3>1, <4>1 DEF RequestsInv
    <3>2. ASSUME NEW w \in Workflows, RoundTrip(w), requests'[k][key] # requests[k][key]
          PROVE  requests'[k][key] = w /\ askedAt[w] # None
      <4>1. PICK new \in Keys : Discover(w, new)
        BY <3>2 DEF RoundTrip, Start, AskFirst, AgentFails, FailFirst, AnswerFirst, Mediate,
           CallTool, ToolReturns, ToolFails, Conclude, Collect, MakeEvidence, Confirm,
           AskSecond, AnswerSecond, FailSecond, RefuseSecondTool, RecordSecond, Complete, Die
      <4>2. flow[w].at = "requests"
        BY <4>1 DEF Discover, At
      <4>3. requests' = [requests EXCEPT ![RunOf[w]][new] = w]
        BY <3>2, <4>1 DEF Discover
      <4> QED  BY <1>2, <3>2, <4>2, <4>3 DEF FlowInv, ShapeInv, TripTypeOK
    <3>3. \/ UNCHANGED tripVars \/ \E w \in Workflows : RoundTrip(w)
      BY <1>2, TripFrame
    <3> QED  BY <2>1, <3>1, <3>2, <3>3 DEF tripVars
  <2> QED  BY <2>1, <2>2 DEF RequestsInv
<1> QED
  BY <1>1, <1>2, ShapeInvariant, HistoryInvariant, MarksInvariant, PTL DEF Spec

-----------------------------------------------------------------------------
(***************************************************************************)
(* What the revisions hold.  What an admission compiled when it began      *)
(* still stands when it commits, and a value is added where there is none. *)
(***************************************************************************)
CanBeMade(c) ==
  /\ c \in Authorised
  /\ c \notin Joint => \A key \in KeysOf(c) :
       /\ Record(c, key) \in resolutions[CommandRun[c]]
       /\ requests[CommandRun[c]][key] # None

AskedFor(r, item) ==
  \E c \in Authorised \ Joint :
    /\ RunOfCommand(c) # None /\ changeset[r] = Changeset(c) /\ Source(c) = r - 1
    /\ item[2] \in KeysOf(c) /\ item[3] = Answers[c][item[2]]
    /\ Record(c, item[2]) \in resolutions[CommandRun[c]]
    /\ requests[CommandRun[c]][item[2]] # None

ValuesInv ==
  \A r \in 1 .. Store!current :
    /\ OneValue(content[r])
    /\ r > 1 => \A item \in content[r] \ content[r - 1] :
                  item[1] = "parameter" => AskedFor(r, item)

ContentInv ==
  /\ ValuesInv
  /\ \A c \in Commands : admission # None /\ admission.command = c => CanBeMade(c)

LEMMA RequestsStay ==
  ASSUME ShapeInv, [Next]_vars, NEW k \in Runs, NEW key \in Keys, requests[k][key] # None
  PROVE  requests'[k][key] # None
<1>1. CASE UNCHANGED requests
  BY <1>1
<1>2. ASSUME NEW w \in Workflows, NEW new \in Keys, Discover(w, new)
      PROVE  requests'[k][key] # None
  <2>1. \/ UNCHANGED requests
        \/ requests' = [requests EXCEPT ![RunOf[w]][new] = w] /\ requests[RunOf[w]][new] = None
    BY <1>2 DEF Discover
  <2>2. requests[k] \in [Keys -> Workflows \cup {None}]
    BY DEF ShapeInv, TripTypeOK
  <2> QED  BY <2>1, <2>2 DEF ShapeInv, TripTypeOK
<1>3. ASSUME NEW w \in Workflows, RoundTrip(w), \A new \in Keys : ~ Discover(w, new)
      PROVE  UNCHANGED requests
  BY <1>3 DEF RoundTrip, Start, AskFirst, AgentFails, FailFirst, AnswerFirst, Mediate,
     CallTool, ToolReturns, ToolFails, Conclude, Collect, MakeEvidence, Confirm, AskSecond,
     AnswerSecond, FailSecond, RefuseSecondTool, RecordSecond, Complete, Die
<1> QED  BY <1>1, <1>2, <1>3, TripFrame DEF tripVars

LEMMA CanStillBeMade ==
  ASSUME ShapeInv, HistoryInv, [Next]_vars, NEW c \in Commands, CanBeMade(c)
  PROVE  CanBeMade(c)'
<1>1. CommandRun[c] \in Runs /\ KeysOf(c) \subseteq Keys
  BY Assumed
<1> QED  BY <1>1, Moves, RequestsStay DEF CanBeMade

LEMMA StillAskedFor ==
  ASSUME ShapeInv, HistoryInv, [Next]_vars, NEW r \in 1 .. Store!current, NEW item,
         AskedFor(r, item)
  PROVE  AskedFor(r, item)'
<1>1. PICK c \in Authorised \ Joint :
        /\ RunOfCommand(c) # None /\ changeset[r] = Changeset(c) /\ Source(c) = r - 1
        /\ item[2] \in KeysOf(c) /\ item[3] = Answers[c][item[2]]
        /\ Record(c, item[2]) \in resolutions[CommandRun[c]]
        /\ requests[CommandRun[c]][item[2]] # None
  BY DEF AskedFor
<1>2. c \in Commands /\ CommandRun[c] \in Runs /\ item[2] \in Keys
  BY <1>1, Assumed, CommandAssumption
<1>3. /\ RunOfCommand(c)' # None /\ Source(c)' = Source(c) /\ Changeset(c)' = Changeset(c)
  BY <1>1, <1>2, SourceKept
<1>4. changeset'[r] = changeset[r]
  BY Kept
<1>5. Record(c, item[2]) \in resolutions'[CommandRun[c]]
  BY <1>1, <1>2, Moves
<1>6. requests'[CommandRun[c]][item[2]] # None
  BY <1>1, <1>2, RequestsStay
<1> QED  BY <1>1, <1>3, <1>4, <1>5, <1>6 DEF AskedFor

LEMMA ItemsOneValue ==
  ASSUME NEW c \in Commands
  PROVE  /\ OneValue(Items(c))
         /\ \A item \in Items(c) : item[1] = "parameter" =>
              c \notin Joint /\ item[2] \in KeysOf(c) /\ item[3] = Answers[c][item[2]]
<1>1. CASE c \in Joint
  BY <1>1 DEF Items, OneValue
<1>2. CASE c \notin Joint
  BY <1>2 DEF Items, OneValue
<1> QED  BY <1>1, <1>2

LEMMA ValuesPreserved ==
  ASSUME ShapeInv, HistoryInv, AdmissionInv, ContentInv, [Next]_vars
  PROVE  ValuesInv'
<1> SUFFICES ASSUME NEW r \in 1 .. Store!current'
             PROVE  /\ OneValue(content'[r])
                    /\ r > 1 => \A item \in content'[r] \ content'[r - 1] :
                                  item[1] = "parameter" => AskedFor(r, item)'
  BY DEF ValuesInv, OneValue
<1>1. CASE r \in 1 .. Store!current
  <2>1. content'[r] = content[r] /\ (r > 1 => content'[r - 1] = content[r - 1])
    BY <1>1, Kept
  <2>2. /\ OneValue(content[r])
        /\ r > 1 => \A item \in content[r] \ content[r - 1] :
                      item[1] = "parameter" => AskedFor(r, item)
    BY <1>1 DEF ContentInv, ValuesInv
  <2> QED  BY <1>1, <2>1, <2>2, StillAskedFor
<1>2. CASE Apply /\ ~ Occupied(admission.command) /\ r = Store!current + 1
  <2>0. PICK c \in Commands : admission # None /\ c = admission.command
    BY <1>2, AdmissionFacts DEF ShapeInv, Apply, Admitting
  <2>1. /\ RunOfCommand(c) # None /\ Store!current = Source(c)
        /\ CanBeMade(c)
    BY <1>2, <2>0 DEF ShapeInv, Apply, Admitting, AdmissionInv, LockInv, Locked,
       ContentInv
  <2>2. /\ content'[r] = content[Store!current] \cup Items(c)
        /\ changeset'[r] = Changeset(c)
    BY <1>2, <2>0, ApplyCommits
  <2>3. content'[r - 1] = content[Store!current] /\ r - 1 = Store!current /\ r > 1
    BY <1>2, Kept
  <2>4. OneValue(content[Store!current])
    BY Kept DEF ContentInv, ValuesInv
  <2>5. OneValue(Items(c)) /\ \A item \in Items(c) : item[1] = "parameter" =>
          c \notin Joint /\ item[2] \in KeysOf(c) /\ item[3] = Answers[c][item[2]]
    BY <2>1, ItemsOneValue
  <2>6. \A item \in content[Store!current], new \in Items(c) :
          ~ (item[1] = new[1] /\ item[2] = new[2])
    BY <1>2, <2>0 DEF Occupied
  <2>7. RunOfCommand(c)' # None /\ Source(c)' = Source(c) /\ Changeset(c)' = Changeset(c)
    BY <2>1, SourceKept
  <2>8. CanBeMade(c)'
    BY <2>1, CanStillBeMade
  <2>9. OneValue(content'[r])
    BY <2>2, <2>4, <2>5, <2>6 DEF OneValue
  <2>10. ASSUME NEW item \in content'[r] \ content'[r - 1], item[1] = "parameter"
         PROVE  AskedFor(r, item)'
    <3>1. c \notin Joint /\ item[2] \in KeysOf(c) /\ item[3] = Answers[c][item[2]]
      BY <2>2, <2>3, <2>5, <2>10
    <3>2. /\ c \in Authorised \ Joint
          /\ Record(c, item[2]) \in resolutions'[CommandRun[c]]
          /\ requests'[CommandRun[c]][item[2]] # None
      BY <2>8, <3>1 DEF CanBeMade
    <3> QED  BY <2>1, <2>2, <2>3, <2>7, <3>1, <3>2 DEF AskedFor
  <2> QED  BY <2>9, <2>10
<1>3. ASSUME NEW o \in Others, NEW paths \in OtherChanges, OtherCommits(o, paths),
             r = Store!current + 1
      PROVE  /\ OneValue(content'[r])
             /\ r > 1 => \A item \in content'[r] \ content'[r - 1] :
                           item[1] = "parameter" => AskedFor(r, item)'
  <2>1. content'[r] = content[Store!current]
    BY <1>3, OtherCommitsOnly
  <2>2. content'[r - 1] = content[Store!current]
    BY <1>3, Kept
  <2>3. OneValue(content[Store!current])
    BY Kept DEF ContentInv, ValuesInv
  <2> QED  BY <2>1, <2>2, <2>3
<1>4. UNCHANGED <<changes, content, changeset>> => Store!current' = Store!current
  BY DEF Store!current
<1>5. CASE r = Store!current + 1
  BY <1>2, <1>3, <1>4, <1>5, Moves, Kept
<1>6. Store!current' \in {Store!current, Store!current + 1}
  BY <1>4, Moves, ApplyCommits, OtherCommitsOnly
<1> QED  BY <1>1, <1>5, <1>6, Kept

\* An admission in progress was begun by its own command.
LEMMA CommandStays ==
  ASSUME ShapeInv, [Next]_vars, NEW c, admission' # None, admission'.command = c
  PROVE  \/ admission # None /\ admission.command = c
         \/ c \in Commands /\ Admit(c)
<1>1. CASE admission' = admission
  BY <1>1
<1>2. ASSUME NEW d \in Commands, Admit(d) PROVE d = c
  BY <1>2 DEF Admit
<1>3. CASE Apply \/ Save \/ Invalidate
  <2>1. admission # None
    BY <1>3 DEF Apply, Save, Invalidate, Admitting
  <2>2. admission \in Admissions
    BY <2>1, AdmissionFacts DEF ShapeInv
  <2>3. Continue("save") \/ Continue("record") \/ Continue("return")
    BY <1>3 DEF Apply, Save, Invalidate
  <2> QED  BY <2>1, <2>2, <2>3 DEF Continue, Admissions
<1>4. ~ Tell /\ ~ AdmissionDies
  BY DEF Tell, AdmissionDies
<1>5. CASE UNCHANGED vars
  BY <1>1, <1>5 DEF vars, admissionVars
<1>6. ASSUME UNCHANGED admissionVars PROVE admission' = admission
  BY <1>6 DEF admissionVars
<1>7. ASSUME NEW d \in Commands,
             \/ Resolve(d) \/ ResolverDies(d) \/ Replay(d)
             \/ \E key \in KeysOf(d) : WriteResolution(d, key)
      PROVE  admission' = admission
  BY <1>7 DEF Resolve, ResolverDies, Replay, WriteResolution
<1>8. ASSUME NEW o \in Others,
             OtherRecords(o) \/ \E paths \in OtherChanges : OtherCommits(o, paths)
      PROVE  admission' = admission
  BY <1>6, <1>8 DEF OtherRecords, OtherCommits
<1> QED  BY <1>1, <1>2, <1>3, <1>4, <1>5, <1>6, <1>7, <1>8 DEF Next

LEMMA ContentInvariant == Spec => []ContentInv
<1>1. Init => ContentInv
  BY AdmissionAssumption DEF Init, TripInit, Store!Init, Store!current, ContentInv, ValuesInv
<1>2. ASSUME ShapeInv, HistoryInv, AdmissionInv, ContentInv, [Next]_vars
      PROVE  \A c \in Commands : admission' # None /\ admission'.command = c => CanBeMade(c)'
  <2> SUFFICES ASSUME NEW c \in Commands, admission' # None, admission'.command = c
               PROVE  CanBeMade(c)'
    OBVIOUS
  <2>2. CASE admission # None /\ admission.command = c
    BY <1>2, <2>2, CanStillBeMade DEF ContentInv
  <2>3. CASE Admit(c)
    <3>1. Compiled(c) /\ CommandRun[c] \in Runs
      BY <2>3, Assumed DEF Admit
    <3>2. CanBeMade(c)
      BY <3>1 DEF Compiled, CompiledAnswers, CanBeMade
    <3> QED  BY <1>2, <3>2, CanStillBeMade
  <2> QED  BY <1>2, <2>2, <2>3, CommandStays
<1>3. ShapeInv /\ HistoryInv /\ AdmissionInv /\ ContentInv /\ [Next]_vars => ContentInv'
  BY <1>2, ValuesPreserved DEF ContentInv
<1> QED
  BY <1>1, <1>3, ShapeInvariant, HistoryInvariant, AdmissionInvariant, PTL DEF Spec

\* A canonical parameter was asked for, by an agent that was given its tool's evidence
\* while that evidence held, and answered by one authorised command; no revision has
\* two values for a key: for any agents, resolvers, admissions, commits of others and
\* failures, provided changesets name paths as deep as the dependency rules
\* (roundtrip.py:62-126, constraint_resolution_admission.py:261-352).
THEOREM AdmittedWereAsked ==
  ASSUME SP!DeepChanges
  PROVE  Spec => []AdmittedWasAsked
<1>1. ASSUME ShapeInv, RequestsInv, \A w \in Workflows : FlowInv(w), ContentInv
      PROVE  AdmittedWasAsked
  <2>1. ASSUME NEW k \in Runs, NEW key \in Keys, requests[k][key] # None
        PROVE  Founded(requests[k][key])
    <3>1. requests[k] \in [Keys -> Workflows \cup {None}]
      BY <1>1 DEF ShapeInv, TripTypeOK
    <3>2. requests[k][key] \in Workflows /\ askedAt[requests[k][key]] # None
      BY <1>1, <2>1, <3>1 DEF RequestsInv
    <3> QED  BY <1>1, <3>2 DEF FlowInv, Succeeded, Untouched, Founded
  <2>2. ASSUME NEW r \in 2 .. Store!current, NEW item \in content[r] \ content[r - 1],
               item[1] = "parameter"
        PROVE  AskedFor(r, item)
    <3>1. r \in 1 .. Store!current /\ r > 1
      BY <1>1, StoreAssumption DEF ShapeInv, Store!Revisions
    <3> QED  BY <1>1, <2>2, <3>1 DEF ContentInv, ValuesInv
  <2>3. \A r \in 1 .. Store!current : OneValue(content[r])
    BY <1>1 DEF ContentInv, ValuesInv
  <2> QED  BY <2>1, <2>2, <2>3 DEF AdmittedWasAsked, AskedFor
<1> QED
  BY <1>1, ShapeInvariant, FlowsInvariant, ContentInvariant, PTL
=============================================================================

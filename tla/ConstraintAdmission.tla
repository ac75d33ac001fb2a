-------------------------- MODULE ConstraintAdmission --------------------------
(***************************************************************************)
(* From the requests of a round trip to canonical values:                  *)
(* ConstraintResolutionMaterializer (agents/constraint_resolution.py),     *)
(* ConstraintResolutionAdmissionService and JointAuthorityAdmissionService *)
(* (changes/).  A resolver answers requests with a command, which is filed *)
(* with one record per answer and without any lock; admission then makes   *)
(* the answers canonical as the next revision of the run.  It holds the    *)
(* project lock from its first check to its last file, so no other commit  *)
(* falls into it, and a process may die between any two of its files.      *)
(* Admitting a command again replays it: nothing is written, and the       *)
(* answer is derived from what the first admission left.                   *)
(*                                                                         *)
(* A run that admits has committed nothing before, since its commands are  *)
(* bound to the revision it started from: the iteration limit is not met.  *)
(* The anchors of the keys are taken to be in the state.                   *)
(***************************************************************************)
EXTENDS AgentRoundTrip

CONSTANTS
  Commands,
  Joint,         \* the commands that declare a joint authority; the others answer
  CommandRun,    \* command -> its run
  Answers,       \* command -> key -> answer (for a joint: no keys)
  By,            \* command -> who resolved it, and when
  Declaration,   \* joint command -> the declaration it makes
  Authorised,    \* the commands the policy allows
  OtherChanges   \* the changes that other runs commit

VARIABLES
  resolving,    \* command -> the keys whose record is still to be written
  resolutions,  \* run -> its resolution records
  prepared,     \* the commands with a prepared event
  announced,    \* run -> the revisions of its REVISION_ADVANCED events
  admission,    \* the admission that holds the project lock, or None
  answer,       \* command -> the revision its caller was told, or None
  changeset     \* revision -> the changeset that made it

admissionVars == <<resolving, resolutions, prepared, announced, admission, answer, changeset>>
vars == <<storeVars, runVars, tripVars, lapses, admissionVars>>

ASSUME CommandAssumption ==
  /\ Joint \subseteq Commands /\ Authorised \subseteq Commands
  /\ CommandRun \in [Commands -> Runs]
  /\ \A c \in Commands : DOMAIN Answers[c] \subseteq Keys
  /\ OtherChanges \subseteq ChangeSets

KeysOf(c) == DOMAIN Answers[c]
RunOfCommand(c) == run[CommandRun[c]]

\* A command names the revision of the requests it answers.
Source(c) == RunOfCommand(c).initial

\* What a command adds to the state; a declaration carries the run it came through.
Items(c) ==
  IF c \in Joint THEN {<<"joint", Declaration[c], CommandRun[c]>>}
  ELSE {<<"parameter", key, Answers[c][key]>> : key \in KeysOf(c)}

Paths(c) == {<<item[1], item[2]>> : item \in Items(c)}

\* deterministic_admission_ids, deterministic_joint_authority_ids.
Changeset(c) ==
  IF c \in Joint THEN <<"joint", Declaration[c], Source(c)>>
  ELSE <<"resolution", c, Source(c)>>

ChangesetIds ==
  {<<"joint", Declaration[c], source>> : c \in Joint, source \in Store!Revisions}
    \cup {<<"resolution", c, source>> : c \in Commands \ Joint, source \in Store!Revisions}

Facts == Given \cup UNION {Items(c) : c \in Commands}

\* The state keeps its parameters by key.
OneValue(items) ==
  \A i, j \in items : i[1] = "parameter" /\ j[1] = "parameter" /\ i[2] = j[2] => i = j

\* The admission in progress.
Admissions == [command : Commands, step : {"apply", "save", "record", "return"}]

ASSUME AdmissionAssumption ==
  /\ OneValue(Given)
  /\ \A c \in Commands : Paths(c) \in ChangeSets
  /\ None \notin ChangesetIds \cup Admissions

Init ==
  /\ TripInit
  /\ resolving = [c \in Commands |-> {}]
  /\ resolutions = [k \in Runs |-> {}]
  /\ prepared = {}
  /\ announced = [k \in Runs |-> {}]
  /\ admission = None
  /\ answer = [c \in Commands |-> None]
  /\ changeset = << None >>

-----------------------------------------------------------------------------
(* Filing a command *)

Record(c, key) == [key |-> key, answer |-> Answers[c][key], command |-> c]
Records == UNION {{Record(c, key) : key \in KeysOf(c)} : c \in Commands}
RecordsOf(k, key) == {r \in resolutions[k] : r.key = key}

\* canonical_record_equivalent, whichever command the record names.
Equivalent(r, c) == r.answer = Answers[c][r.key] /\ By[r.command] = By[c]

\* materialize checks every answer before it writes a record.
Resolve(c) ==
  /\ RunOfCommand(c) # None /\ resolving[c] = {}
  /\ \A key \in KeysOf(c) :
       LET accepted == RecordsOf(CommandRun[c], key)
       IN /\ requests[CommandRun[c]][key] # None
          /\ Cardinality(accepted) <= 1
          /\ \A r \in accepted : Equivalent(r, c)
  /\ resolving' = [resolving EXCEPT
       ![c] = {key \in KeysOf(c) : RecordsOf(CommandRun[c], key) = {}}]
  /\ UNCHANGED <<storeVars, runVars, tripVars, lapses, resolutions, prepared, announced,
                 admission, answer, changeset>>

\* The id of a record is the hash of its request and its answer.  A record that
\* another resolver has written meanwhile is taken if it says the same.
WriteResolution(c, key) ==
  /\ key \in resolving[c]
  /\ LET same == {r \in RecordsOf(CommandRun[c], key) : r.answer = Answers[c][key]}
     IN IF \A r \in same : Equivalent(r, c)
        THEN /\ resolving' = [resolving EXCEPT ![c] = @ \ {key}]
             /\ resolutions' = IF same # {} THEN resolutions
                  ELSE [resolutions EXCEPT ![CommandRun[c]] = @ \cup {Record(c, key)}]
        ELSE resolving' = [resolving EXCEPT ![c] = {}] /\ UNCHANGED resolutions
  /\ UNCHANGED <<storeVars, runVars, tripVars, lapses, prepared, announced, admission,
                 answer, changeset>>

ResolverDies(c) ==
  /\ resolving[c] # {} /\ Lapse
  /\ resolving' = [resolving EXCEPT ![c] = {}]
  /\ UNCHANGED <<storeVars, runVars, tripVars, resolutions, prepared, announced, admission,
                 answer, changeset>>

-----------------------------------------------------------------------------
(* compile_batch *)

\* A request has the same id in every run that started from its revision.
ProjectRecords(source, key) ==
  UNION {{k} \X RecordsOf(k, key) : k \in {k \in Runs : run[k] # None /\ run[k].initial = source}}

\* The command filed all of its records and no others; nobody else in the project
\* resolved one of its requests; and the source has no value for its keys.
CompiledAnswers(c) ==
  /\ {r \in resolutions[CommandRun[c]] : r.command = c} = {Record(c, key) : key \in KeysOf(c)}
  /\ \A key \in KeysOf(c) :
       /\ requests[CommandRun[c]][key] # None
       /\ ProjectRecords(Source(c), key) = {<<CommandRun[c], Record(c, key)>>}
  /\ KeysOf(c) \cap Satisfied(Source(c)) = {}

Compiled(c) == c \in Authorised /\ (c \notin Joint => CompiledAnswers(c))

-----------------------------------------------------------------------------
(* Faulty variants, for the properties to reject. *)

\* A replay that looks at the run and the records but not at what was committed.
ReplayUncompared(c) ==
  /\ admission = None /\ RunOfCommand(c) # None /\ Store!current # Source(c)
  /\ Compiled(c) /\ (c \notin Joint => c \in prepared)
  /\ LET target == Source(c) + 1
     IN /\ Store!current = target
        /\ RunOfCommand(c).active = target /\ target \in announced[CommandRun[c]]
        /\ records[target] # None
        /\ answer' = [answer EXCEPT ![c] = target]
  /\ UNCHANGED <<storeVars, runVars, tripVars, lapses, resolving, resolutions, prepared,
                 announced, admission, changeset>>

-----------------------------------------------------------------------------
(* admit_batch and admit, on the revision the command names *)

Continue(step) == admission' = [admission EXCEPT !.step = step]
Admitting(step) == admission # None /\ admission.step = step

\* A resolution batch leaves an event before it commits; the run must not have moved,
\* which for a joint follows from its initial revision being current.
Admit(c) ==
  /\ admission = None /\ RunOfCommand(c) # None
  /\ Store!current = Source(c) /\ RunOfCommand(c).active = Source(c)
  /\ Compiled(c)
  /\ prepared' = IF c \in Joint THEN prepared ELSE prepared \cup {c}
  /\ admission' = [command |-> c, step |-> "apply"]
  /\ UNCHANGED <<storeVars, runVars, tripVars, lapses, resolving, resolutions, announced,
                 answer, changeset>>

\* ChangeEngine refuses to add what is there.
Occupied(c) == 
  \E item \in content[Store!current], new \in Items(c) : item[1] = new[1] /\ item[2] = new[2]

Apply ==
  /\ Admitting("apply")
  /\ LET c == admission.command
     IN IF Occupied(c)
        THEN admission' = None /\ UNCHANGED <<storeVars, content, changeset>>
        ELSE /\ Store!Commit(CommandRun[c], Paths(c))
             /\ content' = Append(content, content[Store!current] \cup Items(c))
             /\ changeset' = Append(changeset, Changeset(c))
             /\ Continue("save")
  /\ UNCHANGED <<run, tripVars, lapses, resolving, resolutions, prepared, announced, answer>>

Advanced(k) ==
  [run EXCEPT ![k].active = Store!current, ![k].seen = @ \cup {Store!current}]

\* The run is saved, the event appended.
Save ==
  /\ Admitting("save")
  /\ LET k == CommandRun[admission.command]
     IN /\ run' = Advanced(k)
        /\ announced' = [announced EXCEPT ![k] = @ \cup {Store!current}]
  /\ Continue("record")
  /\ UNCHANGED <<storeVars, content, tripVars, lapses, resolving, resolutions, prepared,
                 answer, changeset>>

Invalidate ==
  /\ Admitting("record")
  /\ Store!RecordInvalidation(CommandRun[admission.command])
  /\ Continue("return")
  /\ UNCHANGED <<runVars, tripVars, lapses, resolving, resolutions, prepared, announced,
                 answer, changeset>>

Tell ==
  /\ Admitting("return")
  /\ LET c == admission.command
     IN answer' = [answer EXCEPT ![c] = RunOfCommand(c).active]
  /\ admission' = None
  /\ UNCHANGED <<storeVars, runVars, tripVars, lapses, resolving, resolutions, prepared,
                 announced, changeset>>

\* The process dies, or a write raises: before the commit nothing else happened; after
\* it the run may have been saved, and the record of the revision is never written.
AdmissionDies ==
  /\ admission # None /\ Lapse
  /\ admission' = None
  /\ LET k == CommandRun[admission.command]
     IN /\ IF pending[k] # None THEN Store!Abandon(k) ELSE UNCHANGED storeVars
        /\ run' \in IF Admitting("save") THEN {run, Advanced(k)} ELSE {run}
  /\ UNCHANGED <<content, tripVars, resolving, resolutions, prepared, announced, answer,
                 changeset>>

\* The source is no longer current: the answer is given again if the next revision is
\* current and is, with its run and its record, what the command makes.
Replay(c) ==
  /\ admission = None /\ RunOfCommand(c) # None /\ Store!current # Source(c)
  /\ Compiled(c) /\ (c \notin Joint => c \in prepared)
  /\ LET target == Source(c) + 1
     IN /\ Store!current = target
        /\ content[target] = content[Source(c)] \cup Items(c)
        /\ RunOfCommand(c).active = target /\ target \in announced[CommandRun[c]]
        /\ records[target] # None /\ changeset[target] = Changeset(c)
        /\ answer' = [answer EXCEPT ![c] = target]
  /\ UNCHANGED <<storeVars, runVars, tripVars, lapses, resolving, resolutions, prepared,
                 announced, admission, changeset>>

-----------------------------------------------------------------------------
\* The other runs of the project.
OtherCommits(o, paths) ==
  /\ admission = None
  /\ Store!Commit(o, paths)
  /\ content' = Append(content, content[Store!current])
  /\ changeset' = Append(changeset, None)
  /\ UNCHANGED <<run, tripVars, lapses, resolving, resolutions, prepared, announced,
                 admission, answer>>

OtherRecords(o) ==
  /\ \/ Store!RecordInvalidation(o) /\ UNCHANGED lapses
     \/ Store!Abandon(o) /\ Lapse
  /\ UNCHANGED <<runVars, tripVars, admissionVars>>

Next ==
  \/ \E k \in Runs : CreateRun(k) /\ UNCHANGED admissionVars
  \/ \E w \in Workflows : RoundTrip(w) /\ UNCHANGED admissionVars
  \/ \E c \in Commands :
       \/ Resolve(c) \/ ResolverDies(c) \/ \E key \in KeysOf(c) : WriteResolution(c, key)
       \/ Admit(c) \/ Replay(c)
  \/ Apply \/ Save \/ Invalidate \/ Tell \/ AdmissionDies
  \/ \E o \in Others : OtherRecords(o) \/ \E paths \in OtherChanges : OtherCommits(o, paths)

Spec == Init /\ [][Next]_vars

-----------------------------------------------------------------------------
(* Properties *)

AdmissionTypeOK ==
  /\ content \in Seq(SUBSET Facts) /\ Len(content) = Store!current
  /\ changeset \in Seq(ChangesetIds \cup {None}) /\ Len(changeset) = Store!current
  /\ resolving \in [Commands -> SUBSET Keys]
  /\ resolutions \in [Runs -> SUBSET Records]
  /\ prepared \subseteq Commands
  /\ announced \in [Runs -> SUBSET Store!Revisions]
  /\ admission \in Admissions \cup {None}
  /\ answer \in [Commands -> Store!Revisions \cup {None}]

TypeOK == Store!TypeOK /\ TripTypeOK /\ AdmissionTypeOK

\* What the caller of an admission is told is true for good, told now or at a replay,
\* after deaths between the files of the admission and among other runs' commits: the
\* revision named is the next after the command's source, it is the command's own, its
\* record is written and the run has moved to it; and no command makes two revisions
\* (admit_batch, constraint_resolution_admission.py:353-383; admit,
\* joint_authority_admission.py:318-415).
AdmissionIsTrue ==
  \A c \in Commands :
    /\ \A q, r \in 2 .. Store!current :
         RunOfCommand(c) # None /\ changeset[q] = Changeset(c) /\ changeset[r] = Changeset(c)
           => q = r
    /\ answer[c] # None =>
         LET r == answer[c]
         IN /\ r = Source(c) + 1
            /\ changeset[r] = Changeset(c)
            /\ content[r] = content[r - 1] \cup Items(c)
            /\ records[r] # None
            /\ RunOfCommand(c).active = r

\* The tool's evidence held when the agent was asked with it.
Founded(w) ==
  /\ flow[w].tool = "succeeded" /\ flow[w].mediation = "succeeded"
  /\ \A r \in Bound(w) + 1 .. askedAt[w] :
       ~ \E leaf \in Store!Inputs(Torque) : Store!Touches(changes[r], leaf)

\* A canonical parameter was asked for: its revision is the next after the one at which
\* an agent, given the tool's evidence while that evidence held, asked for its key; one
\* authorised command answered it, and no revision has two values for a key.  Agents,
\* resolvers and admissions of several runs work at the same time, each without knowing
\* of the others (roundtrip.py:62-126, constraint_resolution_admission.py:261-352).
AdmittedWasAsked ==
  /\ \A k \in Runs, key \in Keys : requests[k][key] # None => Founded(requests[k][key])
  /\ \A r \in 2 .. Store!current : \A item \in content[r] \ content[r - 1] :
       item[1] = "parameter" =>
         \E c \in Authorised \ Joint :
           /\ RunOfCommand(c) # None /\ changeset[r] = Changeset(c) /\ Source(c) = r - 1
           /\ Record(c, item[2]) \in resolutions[CommandRun[c]]
           /\ item[3] = Answers[c][item[2]]
           /\ requests[CommandRun[c]][item[2]] # None
  /\ \A r \in 1 .. Store!current : OneValue(content[r])

\* resume reports of a round trip what run reported, and once it reports something it
\* reports the same for ever, whatever raised or died on the way
\* (roundtrip.py:158-175).
ResumeIsTruthful ==
  [][\A w \in Workflows :
       flow'[w] # flow[w] =>
         /\ Resume(w) # None => Resume(w)' = Resume(w)
         /\ flow'[w].returned # None => Resume(w)' \in {None, flow'[w].returned}]_vars
=============================================================================

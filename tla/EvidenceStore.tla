---------------------------- MODULE EvidenceStore ----------------------------
(***************************************************************************)
(* EvidenceStore (dependency/storage.py) and the step of RunController     *)
(* that feeds it (runs/controller.py, apply_approved_proposal): evidence   *)
(* is bound to the revision it was computed from, every later revision has *)
(* an invalidation record of its own, and freshness is decided by reading  *)
(* those records one file at a time, without a lock, while other processes *)
(* commit revisions and write records.                                     *)
(*                                                                         *)
(* A commit is one step here: RevisionStore implements RevisionLog, so the *)
(* canonical history is the log, of which this module keeps the paths each *)
(* revision changed.  The invalidation record of a revision is written     *)
(* after it, outside the project lock, and may never be written at all.    *)
(*                                                                         *)
(* _write_exclusive looks twice whether the file is there and then puts    *)
(* its own in place, with no lock between: of two producers of one id that *)
(* both saw none, the second replaces what the first wrote.  A record has  *)
(* one writer, the committer of its revision, so for records both are one  *)
(* step here.                                                              *)
(***************************************************************************)
EXTENDS DependencyGraph, FiniteSets

CONSTANTS
  Writers,      \* processes that apply proposals through a run
  Producers,    \* callers of write_evidence
  Queries,      \* callers asking for the freshness of some evidence
  EvidenceIds,
  ChangeSets,   \* the sets of changed paths that proposals have
  Leaves,       \* the canonical values, by path, that nodes are computed from
  None,         \* no record, no evidence, nothing in progress
  MaxRevision,  \* bound: revisions explored
  MaxFaults     \* bound: commits whose record is never written

ASSUME StoreAssumption ==
  /\ MaxRevision \in Nat /\ MaxRevision >= 1
  /\ MaxFaults \in Nat
  /\ None \notin 1 .. MaxRevision
  /\ \A nodes \in SUBSET Nodes : nodes # None
  /\ \A path \in Leaves \cup UNION ChangeSets : Len(path) \in Nat
  /\ \A rule \in Rules : \A pattern \in rule.when : Len(pattern) \in Nat

Revisions == 1 .. MaxRevision

\* An evidence file; its hash is the one of some revision, not always its own.
Evidence == [kind : Nodes, revision : Revisions, hash : Revisions]

\* A producer past its last look, with its temporary file ready.
Writes == [id : EvidenceIds, file : Evidence]

ASSUME EvidenceAssumption == None \notin Evidence \cup Writes

Verdicts == {"current", "stale", "unknown"}

\* The evidence a query has loaded is its own copy.
Question ==
  [file : Evidence, upto : Revisions, next : 2 .. MaxRevision + 1,
   stale : BOOLEAN, verdict : Verdicts \cup {None}]

ASSUME QuestionAssumption == None \notin Question \cup Verdicts

VARIABLES
  changes,    \* revision -> the paths it changed; Len(changes) is current
  records,    \* revision -> the nodes its invalidation record lists, or None
  evidence,   \* id -> its evidence file, or None
  writing,    \* producer -> the write it is in, or None
  pending,    \* writer -> the revision it committed and has not recorded
  query,      \* caller -> the freshness query it is in, or None
  faults

vars == <<changes, records, evidence, writing, pending, query, faults>>

current == Len(changes)

Init ==
  /\ changes = << {} >>
  /\ records = [r \in Revisions |-> None]
  /\ evidence = [e \in EvidenceIds |-> None]
  /\ writing = [p \in Producers |-> None]
  /\ pending = [w \in Writers |-> None]
  /\ query = [q \in Queries |-> None]
  /\ faults = 0

-----------------------------------------------------------------------------
(* Faulty variants, for the properties to reject. *)

RecordInvalidationOfCurrent(w) ==
  /\ pending[w] # None
  /\ records' = [records EXCEPT ![current] = Impact(changes[current])]
  /\ pending' = [pending EXCEPT ![w] = None]
  /\ UNCHANGED <<changes, evidence, writing, query, faults>>

RecordInvalidationDirectly(w) ==
  /\ pending[w] # None
  /\ records' = [records EXCEPT ![pending[w]] = Direct(changes[pending[w]])]
  /\ pending' = [pending EXCEPT ![w] = None]
  /\ UNCHANGED <<changes, evidence, writing, query, faults>>

RecordInvalidationUnlessBehind(w) ==
  /\ pending[w] = current
  /\ records' = [records EXCEPT ![current] = Impact(changes[current])]
  /\ pending' = [pending EXCEPT ![w] = None]
  /\ UNCHANGED <<changes, evidence, writing, query, faults>>

BeginWriteUnchecked(p, id, file) ==
  /\ writing[p] = None
  /\ file.revision <= current /\ file.hash <= current
  /\ writing' = [writing EXCEPT ![p] = [id |-> id, file |-> file]]
  /\ UNCHANGED <<changes, records, evidence, pending, query, faults>>

-----------------------------------------------------------------------------
(* Writing *)

\* apply_proposal returns: the revision is canonical, its record is not there.
Commit(w, paths) ==
  /\ pending[w] = None
  /\ current < MaxRevision
  /\ changes' = Append(changes, paths)
  /\ pending' = [pending EXCEPT ![w] = current + 1]
  /\ UNCHANGED <<records, evidence, writing, query, faults>>

\* build_invalidation and record_invalidation; an existing record raises.
RecordInvalidation(w) ==
  /\ pending[w] # None
  /\ records' = [records EXCEPT ![pending[w]] =
                   IF @ = None THEN Impact(changes[pending[w]]) ELSE @]
  /\ pending' = [pending EXCEPT ![w] = None]
  /\ UNCHANGED <<changes, evidence, writing, query, faults>>

\* The record is never written: the iteration limit or a failed save of the run
\* raises before it, writing it raises, or the process dies.
Abandon(w) ==
  /\ pending[w] # None
  /\ faults < MaxFaults
  /\ faults' = faults + 1
  /\ pending' = [pending EXCEPT ![w] = None]
  /\ UNCHANGED <<changes, records, evidence, writing, query>>

\* write_evidence: a known node, and no file of that id yet, when the producer
\* last looks.  Nothing checks the binding.
BeginWrite(p, id, file) ==
  /\ writing[p] = None
  /\ evidence[id] = None
  /\ file.revision <= current /\ file.hash <= current
  /\ writing' = [writing EXCEPT ![p] = [id |-> id, file |-> file]]
  /\ UNCHANGED <<changes, records, evidence, pending, query, faults>>

\* os.replace: whatever is there by now is gone.
EndWrite(p) ==
  /\ writing[p] # None
  /\ evidence' = [evidence EXCEPT ![writing[p].id] = writing[p].file]
  /\ writing' = [writing EXCEPT ![p] = None]
  /\ UNCHANGED <<changes, records, pending, query, faults>>

\* The replacement raises, or the process dies before it.
GiveUpWrite(p) ==
  /\ writing[p] # None
  /\ writing' = [writing EXCEPT ![p] = None]
  /\ UNCHANGED <<changes, records, evidence, pending, query, faults>>

\* The write of a producer that met no other one: both at once.  It is what a
\* producer does whose ids are its own, as in the modules that use this one.
WriteEvidence(id, file) ==
  /\ evidence[id] = None
  /\ file.revision <= current /\ file.hash <= current
  /\ evidence' = [evidence EXCEPT ![id] = file]
  /\ UNCHANGED <<changes, records, writing, pending, query, faults>>

-----------------------------------------------------------------------------
(* get_evidence_freshness *)

\* Load the evidence, its snapshot and the current pointer.
Ask(q, id) ==
  /\ query[q] = None
  /\ evidence[id] # None
  /\ LET file == evidence[id]
     IN query' = [query EXCEPT ![q] =
          [file |-> file, upto |-> current, next |-> file.revision + 1, stale |-> FALSE,
           verdict |-> IF file.hash = file.revision THEN None ELSE "unknown"]]
  /\ UNCHANGED <<changes, records, evidence, writing, pending, faults>>

Asking(q) == query[q] # None /\ query[q].verdict = None

\* Load one invalidation record: without it freshness cannot be proven.
Examine(q) ==
  /\ Asking(q)
  /\ query[q].next <= query[q].upto
  /\ LET asked == query[q]
         record == records[asked.next]
         listed == asked.file.kind \in record
     IN query' = [query EXCEPT ![q] =
          IF record = None THEN [asked EXCEPT !.verdict = "unknown"]
          ELSE [asked EXCEPT !.next = asked.next + 1, !.stale = IF listed THEN TRUE ELSE @]]
  /\ UNCHANGED <<changes, records, evidence, writing, pending, faults>>

Conclude(q) ==
  /\ Asking(q)
  /\ query[q].next > query[q].upto
  /\ query' = [query EXCEPT ![q].verdict = IF query[q].stale THEN "stale" ELSE "current"]
  /\ UNCHANGED <<changes, records, evidence, writing, pending, faults>>

\* The caller is done with the answer, or dies before it has one.
Dismiss(q) ==
  /\ query[q] # None
  /\ query' = [query EXCEPT ![q] = None]
  /\ UNCHANGED <<changes, records, evidence, writing, pending, faults>>

-----------------------------------------------------------------------------
Next ==
  \/ \E w \in Writers :
       \/ \E paths \in ChangeSets : Commit(w, paths)
       \/ RecordInvalidation(w)
       \/ Abandon(w)
  \/ \E id \in EvidenceIds, file \in Evidence :
       WriteEvidence(id, file) \/ \E p \in Producers : BeginWrite(p, id, file)
  \/ \E p \in Producers : EndWrite(p) \/ GiveUpWrite(p)
  \/ \E q \in Queries :
       \/ \E id \in EvidenceIds : Ask(q, id)
       \/ Examine(q) \/ Conclude(q) \/ Dismiss(q)

Spec == Init /\ [][Next]_vars

\* A writer is straight-line code: once it has committed, it goes on.
Fairness == \A w \in Writers : WF_vars(RecordInvalidation(w))

FairSpec == Spec /\ Fairness

-----------------------------------------------------------------------------
(* Properties *)

TypeOK ==
  /\ changes \in Seq(ChangeSets \cup {{}}) /\ current \in Revisions
  /\ records \in [Revisions -> (SUBSET Nodes) \cup {None}]
  /\ evidence \in [EvidenceIds -> Evidence \cup {None}]
  /\ writing \in [Producers -> Writes \cup {None}]
  /\ pending \in [Writers -> Revisions \cup {None}]
  /\ query \in [Queries -> Question \cup {None}]
  /\ faults \in 0 .. MaxFaults

Prefix(p, q) == Len(p) <= Len(q) /\ \A i \in 1 .. Len(p) : p[i] = q[i]

\* A changeset replaces, adds or removes the value at a path and all below it.
Touches(paths, leaf) == \E p \in paths : Prefix(p, leaf) \/ Prefix(leaf, p)

\* A node is computed from the values whose own change would invalidate it.
Inputs(node) == {leaf \in Leaves : node \in Impact({leaf})}

\* Evidence is never reported current although it cannot be: its hash is the one
\* of its revision, and no revision after its own, up to the one the query found
\* current, changed a value its node is computed from, directly or through other
\* nodes; whoever committed those revisions, in whatever order their records
\* were written, and whichever were never written (storage.py:88-107).
CurrentMeansUntouched ==
  \A q \in Queries :
    LET asked == query[q]
    IN asked # None /\ asked.verdict = "current" =>
         LET file == asked.file
         IN /\ file.hash = file.revision
            /\ \A r \in file.revision + 1 .. asked.upto, leaf \in Inputs(file.kind) :
                 ~ Touches(changes[r], leaf)

\* What a query that meets no concurrent step would answer.
Freshness(file) ==
  LET later == file.revision + 1 .. current
  IN IF file.hash # file.revision \/ \E r \in later : records[r] = None THEN "unknown"
     ELSE IF \E r \in later : file.kind \in records[r] THEN "stale"
     ELSE "current"

\* The file of an id is there, and no producer that saw none is still to write.
Settled(id) ==
  /\ evidence[id] # None
  /\ \A p \in Producers : writing[p] # None => writing[p].id # id

\* Stale evidence is never rehabilitated.  What a file says, once stale, is not
\* current again, in whoever's hands it is, and whatever is committed, recorded or
\* lost.  Nor is its id: when the producers that saw no file of it are done, the
\* file is not replaced by a fresh one, for a later producer finds it there.  Until
\* then it may be, for nothing locks the look and the write (storage.py:21-37).
StaleForever ==
  [][/\ \A file \in Evidence : Freshness(file) = "stale" => Freshness(file)' # "current"
     /\ \A id \in EvidenceIds :
          Settled(id) /\ Freshness(evidence[id]) = "stale"
            => Settled(id)' /\ Freshness(evidence[id])' # "current"]_vars

\* A revision whose record was never written, and never will be.
Gap(r) == r \in 2 .. current /\ records[r] = None /\ \A w \in Writers : pending[w] # r

\* A gap in the records is never closed by accident: nothing writes the record
\* of a revision that some other call committed, so evidence from before the gap
\* can only be replaced, never proven fresh (storage.py:52-54, 100-104).
GapForever == [][\A r \in Revisions : Gap(r) => Gap(r)']_vars

\* Unless a writer fails, the record of every revision is written in the end,
\* also when other writers commit in between: freshness does not stay unknown.
CoverageCompletes ==
  \A r \in 2 .. MaxRevision : (current >= r) ~> (records[r] # None \/ faults > 0)
=============================================================================

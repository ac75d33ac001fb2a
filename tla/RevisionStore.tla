---------------------------- MODULE RevisionStore ----------------------------
(***************************************************************************)
(* StateManager (state/manager.py) under ChangeEngine.apply_proposal       *)
(* (changes/engine.py): the canonical history of one project as files,     *)
(* written by threads of several operating-system processes.               *)
(*                                                                         *)
(*   revisions/REV-<n>.json   snapshot[n], written once, then read only    *)
(*   current.json             pointer, replaced by every commit            *)
(*   .state-run.lock          fileLock, the flock between processes        *)
(*   _project_locks[...]      threadLock, the RLock inside one process     *)
(*                                                                         *)
(* A file is replaced atomically (os.replace), but a commit replaces two:  *)
(* first the snapshot, then the pointer.  A write may raise, a process may *)
(* die, between any two steps.  apply_proposal holds the project lock over *)
(* all of its steps; create_project holds no lock.  create_revision takes  *)
(* the lock again: the RLock is re-entrant and the depth it keeps leaves   *)
(* the flock to the outermost call, so the second entry does nothing here. *)
(***************************************************************************)
EXTENDS ChangeOps

CONSTANTS
  Threads, Processes,
  Home,           \* thread -> the process it runs in
  Founders,       \* the threads that may call create_project
  Readers,        \* the threads that load the state without the lock
  None,           \* a file that does not exist, a lock nobody holds
  MaxRevision,    \* bound: revisions explored
  MaxIOErrors,    \* bound: writes and flocks that raise
  MaxCrashes      \* bound: process deaths

ASSUME ThreadAssumption ==
  /\ Home \in [Threads -> Processes]
  /\ Founders \subseteq Threads
  /\ Readers \subseteq Threads
  /\ None \notin Threads

ASSUME BoundAssumption ==
  /\ MaxRevision \in Nat /\ MaxRevision >= 1
  /\ MaxIOErrors \in Nat
  /\ MaxCrashes \in Nat

Revisions == 1 .. MaxRevision

\* state_hash digests the content together with the revision number.
StateHash(revision, content) == <<revision, content>>
Hashes == Revisions \X Valid

Snapshots == [parent : Nat, content : Valid, hash : Hashes]
Pointers == [revision : Revisions, hash : Hashes]

ASSUME NoneAssumption ==
  None \notin Snapshots \cup Pointers \cup Revisions \cup Valid \cup Proposals

VARIABLES
  \* durable
  projectDir,   \* the project directory exists
  snapshot,     \* revision -> its snapshot file, or None
  pointer,      \* current.json, or None
  \* locks
  fileLock,     \* the thread holding the flock, or None
  threadLock,   \* process -> the thread holding its RLock, or None
  leaked,       \* threads whose RLock was never released (failed flock)
  \* per thread
  pc,
  base,         \* the pointer a proposal is bound to, or a reader has read
  proposal,     \* the proposal being applied
  content,      \* the content prepared for the next revision
  revision,     \* the number of the revision being written
  \* bounds
  ioErrors, crashes

durable == <<projectDir, snapshot, pointer>>
locks == <<fileLock, threadLock, leaked>>
local == <<pc, base, proposal, content, revision>>
faults == <<ioErrors, crashes>>
vars == <<durable, locks, local, faults>>

Founding == {"found_check", "found_replace", "found_publish"}
Prepared == {"check", "replace", "publish"}
Critical == {"prepare", "revise", "release"} \cup Prepared
Steps == {"idle", "waiting", "flocking", "reading"} \cup Founding \cup Critical

Init ==
  /\ projectDir = FALSE
  /\ snapshot = [r \in Revisions |-> None]
  /\ pointer = None
  /\ fileLock = None
  /\ threadLock = [p \in Processes |-> None]
  /\ leaked = {}
  /\ pc = [t \in Threads |-> "idle"]
  /\ base = [t \in Threads |-> None]
  /\ proposal = [t \in Threads |-> None]
  /\ content = [t \in Threads |-> None]
  /\ revision = [t \in Threads |-> None]
  /\ ioErrors = 0
  /\ crashes = 0

Goto(t, from, to) == pc[t] = from /\ pc' = [pc EXCEPT ![t] = to]

\* The call returns, or raises, and its local values are gone.
Return(t) ==
  /\ pc' = [pc EXCEPT ![t] = "idle"]
  /\ base' = [base EXCEPT ![t] = None]
  /\ proposal' = [proposal EXCEPT ![t] = None]
  /\ content' = [content EXCEPT ![t] = None]
  /\ revision' = [revision EXCEPT ![t] = None]

\* _read_snapshot of the revision a pointer names, and the hash comparison of
\* load_current_state: FALSE stands for RevisionNotFoundError or
\* StateIntegrityError.
Loadable(p) ==
  /\ snapshot[p.revision] # None
  /\ snapshot[p.revision].hash = StateHash(p.revision, snapshot[p.revision].content)
  /\ snapshot[p.revision].hash = p.hash

-----------------------------------------------------------------------------
(* Faults the properties are measured against: each stands for one action   *)
(* below with a plausible mistake in it, and no specification uses them.    *)

FreshIgnoringBase(t) == TRUE

\* The proposal is still bound to the current revision and hash.
Fresh(t) == base[t].revision = pointer.revision /\ base[t].hash = pointer.hash

LockFileOfProcess(t) ==
  /\ fileLock \notin {s \in Threads : Home[s] = Home[t]}
  /\ Goto(t, "flocking", "prepare")
  /\ fileLock' = t
  /\ UNCHANGED <<durable, threadLock, leaked, base, proposal, content, revision, faults>>

UnlockKeepingThreadLock(t) ==
  /\ pc[t] = "release"
  /\ fileLock' = None
  /\ Return(t)
  /\ UNCHANGED <<durable, threadLock, leaked, faults>>

PrepareKeepingLock(t) ==
  /\ pc[t] = "prepare"
  /\ LET next == Outcome(proposal[t], snapshot[pointer.revision].content)
     IN IF Fresh(t) /\ Loadable(pointer) /\ next # Rejected
        THEN /\ Goto(t, "prepare", "revise")
             /\ content' = [content EXCEPT ![t] = next]
             /\ UNCHANGED <<base, proposal, revision>>
        ELSE Return(t)
  /\ UNCHANGED <<durable, locks, faults>>

CheckSnapshotOverwriting(t) ==
  /\ Goto(t, "check", "replace")
  /\ UNCHANGED <<durable, locks, base, proposal, content, revision, faults>>

CheckSnapshotAdopting(t) ==
  /\ pc[t] = "check"
  /\ IF snapshot[revision[t]] = None
     THEN Goto(t, "check", "replace")
     ELSE Goto(t, "check", "publish")
  /\ UNCHANGED <<durable, locks, base, proposal, content, revision, faults>>

ReplaceSnapshotHashingParent(t) ==
  /\ Goto(t, "replace", "publish")
  /\ snapshot' = [snapshot EXCEPT ![revision[t]] =
       [parent |-> revision[t] - 1, content |-> content[t],
        hash |-> StateHash(revision[t] - 1, content[t])]]
  /\ UNCHANGED <<projectDir, pointer, locks, base, proposal, content, revision, faults>>

-----------------------------------------------------------------------------
(* create_project *)

\* Only a project whose directory does not exist can be created.
CreateProject(t, c) ==
  /\ t \in Founders
  /\ ~projectDir
  /\ Goto(t, "idle", "found_check")
  /\ content' = [content EXCEPT ![t] = c]
  /\ UNCHANGED <<durable, locks, base, proposal, revision, faults>>

\* _write_atomic(exclusive): the directory is made, the existence is checked.
FoundCheck(t) ==
  /\ pc[t] = "found_check"
  /\ projectDir' = TRUE
  /\ IF snapshot[1] = None
     THEN /\ Goto(t, "found_check", "found_replace")
          /\ UNCHANGED <<base, proposal, content, revision>>
     ELSE Return(t)
  /\ UNCHANGED <<snapshot, pointer, locks, faults>>

\* os.replace: whatever is at the path by now is overwritten.
FoundReplace(t) ==
  /\ Goto(t, "found_replace", "found_publish")
  /\ snapshot' = [snapshot EXCEPT ![1] =
       [parent |-> 0, content |-> content[t], hash |-> StateHash(1, content[t])]]
  /\ UNCHANGED <<projectDir, pointer, locks, base, proposal, content, revision, faults>>

FoundPublish(t) ==
  /\ pc[t] = "found_publish"
  /\ pointer' = [revision |-> 1, hash |-> StateHash(1, content[t])]
  /\ Return(t)
  /\ UNCHANGED <<projectDir, snapshot, locks, faults>>

FoundFails(t) ==
  /\ pc[t] \in {"found_replace", "found_publish"}
  /\ ioErrors < MaxIOErrors
  /\ ioErrors' = ioErrors + 1
  /\ Return(t)
  /\ UNCHANGED <<durable, locks, crashes>>

-----------------------------------------------------------------------------
(* project_lock *)

\* A proposal names the revision and the hash that are current when its author
\* reads them; project_lock then finds current.json.
Propose(t, p) ==
  /\ pointer # None
  /\ pointer.revision < MaxRevision
  /\ Goto(t, "idle", "waiting")
  /\ base' = [base EXCEPT ![t] = pointer]
  /\ proposal' = [proposal EXCEPT ![t] = p]
  /\ UNCHANGED <<durable, locks, content, revision, faults>>

LockThread(t) ==
  /\ threadLock[Home[t]] \in {None, t}
  /\ Goto(t, "waiting", "flocking")
  /\ threadLock' = [threadLock EXCEPT ![Home[t]] = t]
  /\ UNCHANGED <<durable, fileLock, leaked, base, proposal, content, revision, faults>>

LockFile(t) ==
  /\ fileLock = None
  /\ Goto(t, "flocking", "prepare")
  /\ fileLock' = t
  /\ UNCHANGED <<durable, threadLock, leaked, base, proposal, content, revision, faults>>

\* flock raises: the handle is closed, the finally clause unlocks the closed
\* handle, which raises in turn, and lock.release() is never reached.
LockFileFails(t) ==
  /\ pc[t] = "flocking"
  /\ ioErrors < MaxIOErrors
  /\ ioErrors' = ioErrors + 1
  /\ leaked' = leaked \cup {t}
  /\ Return(t)
  /\ UNCHANGED <<durable, fileLock, threadLock, crashes>>

Unlock(t) ==
  /\ pc[t] = "release"
  /\ fileLock' = None
  /\ threadLock' = [threadLock EXCEPT ![Home[t]] = IF t \in leaked THEN t ELSE None]
  /\ Return(t)
  /\ UNCHANGED <<durable, leaked, faults>>

-----------------------------------------------------------------------------
(* apply_proposal, under the lock *)

\* _prepare_proposal_locked: stale check, load, apply, validate; raising
\* releases the lock.
Prepare(t) ==
  /\ pc[t] = "prepare"
  /\ LET next == Outcome(proposal[t], snapshot[pointer.revision].content)
     IN IF Fresh(t) /\ Loadable(pointer) /\ next # Rejected
        THEN /\ Goto(t, "prepare", "revise")
             /\ content' = [content EXCEPT ![t] = next]
        ELSE Goto(t, "prepare", "release") /\ UNCHANGED content
  /\ UNCHANGED <<durable, locks, base, proposal, revision, faults>>

\* create_revision reads the pointer again: the number of the new revision
\* comes from what is current now.
Revise(t) ==
  /\ pc[t] = "revise"
  /\ IF Loadable(pointer)
     THEN /\ pointer.revision < MaxRevision
          /\ Goto(t, "revise", "check")
          /\ revision' = [revision EXCEPT ![t] = pointer.revision + 1]
     ELSE Goto(t, "revise", "release") /\ UNCHANGED revision
  /\ UNCHANGED <<durable, locks, base, proposal, content, faults>>

\* _write_atomic(exclusive): an existing snapshot raises RevisionConflictError.
CheckSnapshot(t) ==
  /\ pc[t] = "check"
  /\ IF snapshot[revision[t]] = None
     THEN Goto(t, "check", "replace")
     ELSE Goto(t, "check", "release")
  /\ UNCHANGED <<durable, locks, base, proposal, content, revision, faults>>

ReplaceSnapshot(t) ==
  /\ Goto(t, "replace", "publish")
  /\ snapshot' = [snapshot EXCEPT ![revision[t]] =
       [parent |-> revision[t] - 1, content |-> content[t],
        hash |-> StateHash(revision[t], content[t])]]
  /\ UNCHANGED <<projectDir, pointer, locks, base, proposal, content, revision, faults>>

PublishPointer(t) ==
  /\ Goto(t, "publish", "release")
  /\ pointer' = [revision |-> revision[t], hash |-> StateHash(revision[t], content[t])]
  /\ UNCHANGED <<projectDir, snapshot, locks, base, proposal, content, revision, faults>>

\* The temporary file cannot be written or renamed: nothing is replaced.
WriteFails(t) ==
  /\ pc[t] \in {"replace", "publish"}
  /\ ioErrors < MaxIOErrors
  /\ ioErrors' = ioErrors + 1
  /\ pc' = [pc EXCEPT ![t] = "release"]
  /\ UNCHANGED <<durable, locks, base, proposal, content, revision, crashes>>

-----------------------------------------------------------------------------
(* Readers and process death *)

\* load_current_state takes no lock: it reads the pointer, then the snapshot.
ReadPointer(t) ==
  /\ t \in Readers
  /\ pointer # None
  /\ Goto(t, "idle", "reading")
  /\ base' = [base EXCEPT ![t] = pointer]
  /\ UNCHANGED <<durable, locks, proposal, content, revision, faults>>

ReadSnapshot(t) ==
  /\ pc[t] = "reading"
  /\ Return(t)
  /\ UNCHANGED <<durable, locks, faults>>

Forget(f, p) == [t \in Threads |-> IF Home[t] = p THEN None ELSE f[t]]

\* A process dies with its threads; the system drops its flock and its memory
\* holds the RLock no more.
Crash(p) ==
  /\ crashes < MaxCrashes
  /\ crashes' = crashes + 1
  /\ pc' = [t \in Threads |-> IF Home[t] = p THEN "idle" ELSE pc[t]]
  /\ base' = Forget(base, p)
  /\ proposal' = Forget(proposal, p)
  /\ content' = Forget(content, p)
  /\ revision' = Forget(revision, p)
  /\ fileLock' = IF fileLock \in {t \in Threads : Home[t] = p} THEN None ELSE fileLock
  /\ threadLock' = [threadLock EXCEPT ![p] = None]
  /\ leaked' = {t \in leaked : Home[t] # p}
  /\ UNCHANGED <<durable, ioErrors>>

-----------------------------------------------------------------------------
Found(t) ==
  \/ \E c \in Valid : CreateProject(t, c)
  \/ FoundCheck(t) \/ FoundReplace(t) \/ FoundPublish(t)

\* The steps a thread takes once it holds the lock, up to the release.
Commit(t) ==
  Prepare(t) \/ Revise(t) \/ CheckSnapshot(t) \/ ReplaceSnapshot(t)
  \/ PublishPointer(t) \/ Unlock(t)

Read(t) == ReadPointer(t) \/ ReadSnapshot(t)
Fail(t) == FoundFails(t) \/ LockFileFails(t) \/ WriteFails(t)

Next ==
  \/ \E t \in Threads :
       \/ Found(t) \/ Commit(t) \/ Read(t) \/ Fail(t)
       \/ LockThread(t) \/ LockFile(t)
       \/ \E p \in Proposals : Propose(t, p)
  \/ \E p \in Processes : Crash(p)

Spec == Init /\ [][Next]_vars

\* A thread that can run does run; flock and RLock wake some waiter, not a
\* particular one, so only weak fairness is assumed of acquiring them.
Fairness ==
  \A t \in Threads : WF_vars(Commit(t)) /\ WF_vars(LockThread(t)) /\ WF_vars(LockFile(t))

FairSpec == Spec /\ Fairness

-----------------------------------------------------------------------------
(* Properties *)

TypeOK ==
  /\ projectDir \in BOOLEAN
  /\ snapshot \in [Revisions -> Snapshots \cup {None}]
  /\ pointer \in Pointers \cup {None}
  /\ fileLock \in Threads \cup {None}
  /\ threadLock \in [Processes -> Threads \cup {None}]
  /\ leaked \subseteq Threads
  /\ pc \in [Threads -> Steps]
  /\ base \in [Threads -> Pointers \cup {None}]
  /\ proposal \in [Threads -> Proposals \cup {None}]
  /\ content \in [Threads -> Valid \cup {None}]
  /\ revision \in [Threads -> Revisions \cup {None}]
  /\ ioErrors \in 0 .. MaxIOErrors
  /\ crashes \in 0 .. MaxCrashes

\* At most one thread of one process is between acquiring and releasing the
\* project lock (project_lock, manager.py:46-86), even after a process died
\* inside it and although a failed flock leaks the RLock.
MutualExclusion ==
  \A s, t \in Threads : pc[s] \in Critical /\ pc[t] \in Critical => s = t

\* current.json always names a snapshot that load_current_state accepts, and so
\* does every pointer that a lock-free reader has read and not yet followed: a
\* reader never meets a half-made commit (manager.py:138-164, 208-213).
ReadersNeverTorn ==
  /\ pointer # None => Loadable(pointer)
  /\ \A t \in Threads : pc[t] = "reading" => Loadable(base[t])

\* A snapshot file, once written, is never rewritten or removed, committed or
\* not (manager.py:97-116, "Existing snapshots are read only").
SnapshotsImmutable ==
  [][\A r \in Revisions : snapshot[r] # None => snapshot'[r] = snapshot[r]]_vars

\* A snapshot nobody is about to publish and no pointer reaches.
Orphan(r) ==
  /\ snapshot[r] # None
  /\ pointer = None \/ pointer.revision < r
  /\ \A t \in Threads : pc[t] \notin {"publish", "found_publish"}

\* A snapshot left behind by a failed or interrupted commit is never adopted:
\* no later call makes it, or anything else, the current revision, so canonical
\* state stays where it was (_write_atomic's exclusive check, manager.py:99-109).
OrphanNeverAdopted ==
  [][\A r \in Revisions : Orphan(r) => Orphan(r)']_vars

\* The first committer wins: when a proposal becomes the current revision, the
\* pointer it replaces is the very revision and hash its author read, whatever
\* other threads and processes did in between (engine.py:116-119, 145-151).
FirstCommitterWins ==
  [][\A t \in Threads :
       pc[t] = "publish" /\ pointer' # pointer => base[t] = pointer]_vars

\* The canonical contents in revision order, as their readers see them.
History ==
  IF pointer = None THEN << >>
  ELSE [r \in 1 .. pointer.revision |->
          IF snapshot[r] = None THEN Rejected ELSE snapshot[r].content]

Log == INSTANCE RevisionLog WITH log <- History

\* The files implement the abstract log: whatever threads and processes do, and
\* wherever they fail, each commit is one accepted proposal applied to exactly
\* the revision it replaces; no update is lost, skipped or applied to a stale
\* base (engine.py:116-156, manager.py:118-164).
ImplementsLog == Log!Spec

\* The project lock is always given back: no path through apply_proposal, not
\* one that raises, keeps it (the finally clause of project_lock).
LockGivenBack == (fileLock # None) ~> (fileLock = None)

\* Waiters are not stranded: while threads wait, the lock is taken by someone,
\* unless a failed flock has leaked an RLock (manager.py:66-70).
WaitersNotStranded ==
  LET someoneWaits == \E t \in Threads : pc[t] \in {"waiting", "flocking"}
  IN someoneWaits ~> (~someoneWaits \/ fileLock # None \/ leaked # {})

\* What the M2 design says of a failed application: it writes no snapshot.
FailedApplyWritesNothing ==
  \A t \in Threads, r \in Revisions :
    pc[t] = "release" /\ revision[t] = r /\ snapshot[r] # None
      => pointer.revision >= r
=============================================================================

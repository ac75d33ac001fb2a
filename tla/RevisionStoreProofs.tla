------------------------- MODULE RevisionStoreProofs -------------------------
(***************************************************************************)
(* Theorems about RevisionStore, for any number of threads, processes,     *)
(* revisions, proposals, failed writes and process deaths.                 *)
(***************************************************************************)
EXTENDS RevisionStore, TLAPS

(***************************************************************************)
(* TypeOK is not inductive: a snapshot is written from the local variables *)
(* of a thread, so what a thread holds has to be known at each step.       *)
(***************************************************************************)
HoldsWork(t) ==
  /\ pc[t] \in Founding \cup Prepared \cup {"revise"} => content[t] \in Valid
  /\ pc[t] \in Prepared => revision[t] \in Revisions
  /\ pc[t] \in {"waiting", "flocking", "reading"} \cup Critical
       => base[t] \in Pointers /\ pointer # None

TypeInv == TypeOK /\ \A t \in Threads : HoldsWork(t)

USE DEF Founding, Prepared, Critical, Steps, Goto, Return

LEMMA OutcomeValid ==
  ASSUME NEW p, NEW c, Outcome(p, c) # Rejected
  PROVE  Outcome(p, c) \in Valid
BY DEF Outcome

LEMMA HashTyped ==
  ASSUME NEW r \in Revisions, NEW c \in Valid
  PROVE  StateHash(r, c) \in Hashes
BY DEF StateHash, Hashes

LEMMA RevisionOne == 1 \in Revisions
BY BoundAssumption DEF Revisions

LEMMA InitTyped == Init => TypeInv
<1> SUFFICES ASSUME Init PROVE TypeInv
  OBVIOUS
<1>1. TypeOK
  <2>1. projectDir \in BOOLEAN
    BY DEF Init
  <2>2. ioErrors \in 0 .. MaxIOErrors /\ crashes \in 0 .. MaxCrashes
    BY BoundAssumption DEF Init
  <2>3. fileLock = None /\ leaked = {} /\ pointer = None
    BY DEF Init
  <2>4. /\ snapshot \in [Revisions -> Snapshots \cup {None}]
        /\ threadLock \in [Processes -> Threads \cup {None}]
    BY DEF Init
  <2>5. /\ pc \in [Threads -> Steps]
        /\ base \in [Threads -> Pointers \cup {None}]
        /\ proposal \in [Threads -> Proposals \cup {None}]
        /\ content \in [Threads -> Valid \cup {None}]
        /\ revision \in [Threads -> Revisions \cup {None}]
    BY DEF Init
  <2> QED
    BY <2>1, <2>2, <2>3, <2>4, <2>5 DEF TypeOK
<1>2. \A t \in Threads : HoldsWork(t)
  BY DEF Init, HoldsWork
<1> QED
  BY <1>1, <1>2 DEF TypeInv

\* Returning, a thread holds nothing; the others hold what they held.
LEMMA ReturnTyped ==
  ASSUME TypeInv, NEW t \in Threads, Return(t)
  PROVE  /\ pc' \in [Threads -> Steps]
         /\ base' \in [Threads -> Pointers \cup {None}]
         /\ proposal' \in [Threads -> Proposals \cup {None}]
         /\ content' \in [Threads -> Valid \cup {None}]
         /\ revision' \in [Threads -> Revisions \cup {None}]
         /\ pointer' # None \/ pointer' = pointer => \A s \in Threads : HoldsWork(s)'
BY DEF TypeInv, TypeOK, HoldsWork

LEMMA FoundTyped ==
  ASSUME TypeInv, NEW t \in Threads, Found(t)
  PROVE  TypeInv'
<1>1. CASE \E c \in Valid : CreateProject(t, c)
  BY <1>1 DEF CreateProject, TypeInv, TypeOK, HoldsWork, durable, locks, faults
<1>2. CASE FoundCheck(t)
  BY <1>2 DEF FoundCheck, TypeInv, TypeOK, HoldsWork, locks, faults
<1>3. CASE FoundReplace(t)
  <2>1. [parent |-> 0, content |-> content[t], hash |-> StateHash(1, content[t])] \in Snapshots
    BY <1>3, HashTyped, RevisionOne DEF FoundReplace, TypeInv, HoldsWork, Snapshots
  <2> QED
    BY <1>3, <2>1, RevisionOne DEF FoundReplace, TypeInv, TypeOK, HoldsWork, locks, faults
<1>4. CASE FoundPublish(t)
  <2>1. [revision |-> 1, hash |-> StateHash(1, content[t])] \in Pointers
    BY <1>4, HashTyped, RevisionOne DEF FoundPublish, TypeInv, HoldsWork, Pointers
  <2>2. pointer' # None
    BY <1>4, <2>1, NoneAssumption DEF FoundPublish
  <2> QED
    BY <1>4, <2>1, <2>2, ReturnTyped DEF FoundPublish, TypeInv, TypeOK, locks, faults
<1> QED
  BY <1>1, <1>2, <1>3, <1>4 DEF Found

LEMMA LockTyped ==
  ASSUME TypeInv, NEW t \in Threads,
         LockThread(t) \/ LockFile(t) \/ \E p \in Proposals : Propose(t, p)
  PROVE  TypeInv'
<1>1. CASE LockThread(t)
  BY <1>1, ThreadAssumption DEF LockThread, TypeInv, TypeOK, HoldsWork, durable, faults
<1>2. CASE LockFile(t)
  BY <1>2 DEF LockFile, TypeInv, TypeOK, HoldsWork, durable, faults
<1>3. CASE \E p \in Proposals : Propose(t, p)
  BY <1>3 DEF Propose, TypeInv, TypeOK, HoldsWork, durable, locks, faults
<1> QED
  BY <1>1, <1>2, <1>3

LEMMA CommitTyped ==
  ASSUME TypeInv, NEW t \in Threads, Commit(t)
  PROVE  TypeInv'
<1>1. CASE Prepare(t)
  <2> DEFINE next == Outcome(proposal[t], snapshot[pointer.revision].content)
  <2>1. CASE Fresh(t) /\ Loadable(pointer) /\ next # Rejected
    <3>1. next \in Valid
      BY <2>1, OutcomeValid
    <3> HIDE DEF next
    <3>2. pc' = [pc EXCEPT ![t] = "revise"] /\ content' = [content EXCEPT ![t] = next] /\ pc[t] = "prepare"
      BY <1>1, <2>1 DEF Prepare, next
    <3>3. UNCHANGED <<durable, locks, base, proposal, revision, faults>>
      BY <1>1 DEF Prepare
    <3> QED
      BY <3>1, <3>2, <3>3 DEF TypeInv, TypeOK, HoldsWork, durable, locks, faults
  <2>2. CASE ~(Fresh(t) /\ Loadable(pointer) /\ next # Rejected)
    BY <1>1, <2>2 DEF Prepare, TypeInv, TypeOK, HoldsWork, durable, locks, faults
  <2> QED
    BY <2>1, <2>2
<1>2. CASE Revise(t)
  <2>1. CASE Loadable(pointer)
    <3>1. pointer.revision + 1 \in Revisions
      BY <1>2, <2>1, BoundAssumption DEF Revise, TypeInv, TypeOK, HoldsWork, Revisions, Pointers
    <3> QED
      BY <1>2, <2>1, <3>1 DEF Revise, TypeInv, TypeOK, HoldsWork, durable, locks, faults
  <2>2. CASE ~Loadable(pointer)
    BY <1>2, <2>2 DEF Revise, TypeInv, TypeOK, HoldsWork, durable, locks, faults
  <2> QED
    BY <2>1, <2>2
<1>3. CASE CheckSnapshot(t)
  BY <1>3 DEF CheckSnapshot, TypeInv, TypeOK, HoldsWork, durable, locks, faults
<1>4. CASE ReplaceSnapshot(t)
  <2>1. revision[t] \in Revisions /\ content[t] \in Valid
    BY <1>4 DEF ReplaceSnapshot, TypeInv, HoldsWork
  <2>2. [parent |-> revision[t] - 1, content |-> content[t],
         hash |-> StateHash(revision[t], content[t])] \in Snapshots
    BY <2>1, HashTyped DEF Snapshots, Revisions
  <2> QED
    BY <1>4, <2>1, <2>2 DEF ReplaceSnapshot, TypeInv, TypeOK, HoldsWork, locks, faults
<1>5. CASE PublishPointer(t)
  <2>1. [revision |-> revision[t], hash |-> StateHash(revision[t], content[t])] \in Pointers
    BY <1>5, HashTyped DEF PublishPointer, TypeInv, HoldsWork, Pointers
  <2>2. pointer' # None
    BY <1>5, <2>1, NoneAssumption DEF PublishPointer
  <2> QED
    BY <1>5, <2>1, <2>2 DEF PublishPointer, TypeInv, TypeOK, HoldsWork, locks, faults
<1>6. CASE Unlock(t)
  BY <1>6, ReturnTyped, ThreadAssumption DEF Unlock, TypeInv, TypeOK, durable, faults
<1> QED
  BY <1>1, <1>2, <1>3, <1>4, <1>5, <1>6 DEF Commit

LEMMA ReadFailTyped ==
  ASSUME TypeInv, NEW t \in Threads, Read(t) \/ Fail(t)
  PROVE  TypeInv'
<1>1. CASE ReadPointer(t)
  BY <1>1 DEF ReadPointer, TypeInv, TypeOK, HoldsWork, durable, locks, faults
<1>2. CASE ReadSnapshot(t)
  <2>1. Return(t) /\ UNCHANGED <<durable, locks, faults>>
    BY <1>2 DEF ReadSnapshot
  <2>2. TypeOK'
    BY <2>1, ReturnTyped DEF TypeInv, TypeOK, durable, locks, faults
  <2> QED
    BY <2>1, <2>2, ReturnTyped DEF TypeInv, durable
<1>3. CASE FoundFails(t)
  <2>1. /\ Return(t) /\ UNCHANGED <<durable, locks, crashes>>
        /\ ioErrors < MaxIOErrors /\ ioErrors' = ioErrors + 1
    BY <1>3 DEF FoundFails
  <2>2. ioErrors' \in 0 .. MaxIOErrors
    BY <2>1, BoundAssumption DEF TypeInv, TypeOK
  <2>3. TypeOK'
    BY <2>1, <2>2, ReturnTyped DEF TypeInv, TypeOK, durable, locks
  <2> QED
    BY <2>1, <2>3, ReturnTyped DEF TypeInv, durable
<1>4. CASE LockFileFails(t)
  <2>1. /\ Return(t) /\ UNCHANGED <<durable, fileLock, threadLock, crashes>>
        /\ ioErrors < MaxIOErrors /\ ioErrors' = ioErrors + 1
        /\ leaked' = leaked \cup {t}
    BY <1>4 DEF LockFileFails
  <2>2. ioErrors' \in 0 .. MaxIOErrors
    BY <2>1, BoundAssumption DEF TypeInv, TypeOK
  <2>3. TypeOK'
    BY <2>1, <2>2, ReturnTyped DEF TypeInv, TypeOK, durable
  <2> QED
    BY <2>1, <2>3, ReturnTyped DEF TypeInv, durable
<1>5. CASE WriteFails(t)
  BY <1>5, BoundAssumption DEF WriteFails, TypeInv, TypeOK, HoldsWork, durable, locks
<1> QED
  BY <1>1, <1>2, <1>3, <1>4, <1>5 DEF Read, Fail

LEMMA CrashTyped ==
  ASSUME TypeInv, NEW p \in Processes, Crash(p)
  PROVE  TypeInv'
<1>1. /\ pc' = [t \in Threads |-> IF Home[t] = p THEN "idle" ELSE pc[t]]
      /\ base' = Forget(base, p) /\ proposal' = Forget(proposal, p)
      /\ content' = Forget(content, p) /\ revision' = Forget(revision, p)
  BY DEF Crash
<1>2. /\ fileLock' \in {None, fileLock}
      /\ threadLock' = [threadLock EXCEPT ![p] = None]
      /\ leaked' \subseteq leaked
      /\ UNCHANGED <<durable, ioErrors>>
      /\ crashes < MaxCrashes /\ crashes' = crashes + 1
  BY DEF Crash
<1>3. /\ pc' \in [Threads -> Steps]
      /\ base' \in [Threads -> Pointers \cup {None}]
      /\ proposal' \in [Threads -> Proposals \cup {None}]
      /\ content' \in [Threads -> Valid \cup {None}]
      /\ revision' \in [Threads -> Revisions \cup {None}]
  BY <1>1 DEF TypeInv, TypeOK, Forget
<1>4. /\ fileLock' \in Threads \cup {None}
      /\ threadLock' \in [Processes -> Threads \cup {None}]
      /\ leaked' \subseteq Threads
      /\ ioErrors' \in 0 .. MaxIOErrors
      /\ crashes' \in 0 .. MaxCrashes
  BY <1>2, BoundAssumption DEF TypeInv, TypeOK
<1>5. TypeOK'
  BY <1>2, <1>3, <1>4 DEF TypeInv, TypeOK, durable
<1>6. \A t \in Threads : HoldsWork(t)'
  BY <1>1, <1>2 DEF TypeInv, HoldsWork, durable, Forget
<1> QED
  BY <1>5, <1>6 DEF TypeInv

LEMMA NextTyped == TypeInv /\ [Next]_vars => TypeInv'
<1> SUFFICES ASSUME TypeInv, [Next]_vars PROVE TypeInv'
  OBVIOUS
<1>1. CASE \E t \in Threads : \/ Found(t) \/ Commit(t) \/ Read(t) \/ Fail(t)
                              \/ LockThread(t) \/ LockFile(t)
                              \/ \E p \in Proposals : Propose(t, p)
  BY <1>1, FoundTyped, CommitTyped, ReadFailTyped, LockTyped
<1>2. CASE \E p \in Processes : Crash(p)
  BY <1>2, CrashTyped
<1>3. CASE UNCHANGED vars
  BY <1>3 DEF vars, durable, locks, local, faults, TypeInv, TypeOK, HoldsWork
<1> QED
  BY <1>1, <1>2, <1>3 DEF Next

LEMMA TypeInvariant == Spec => []TypeInv
BY InitTyped, NextTyped, PTL DEF Spec

\* Every variable keeps its type: every snapshot and pointer ever written is
\* well formed (manager.py:97-164).
THEOREM TypeCorrect == Spec => []TypeOK
<1>1. TypeInv => TypeOK
  BY DEF TypeInv
<1> QED
  BY <1>1, TypeInvariant, PTL

-----------------------------------------------------------------------------
(***************************************************************************)
(* The inductive invariant.  It says of the files what every reader relies *)
(* on, and of each thread what it knows about the files at each step: from *)
(* the check of the existing snapshot to the pointer write, the thread     *)
(* that holds the lock is alone and works on the current revision.         *)
(***************************************************************************)

\* create_project takes no lock and is not atomic; the theorems below hold when
\* one thread creates the project.
SoleFounder == \A s, t \in Founders : s = t

\* The snapshot file a thread writes for the revision it prepares.
Written(r, c) == [parent |-> r - 1, content |-> c, hash |-> StateHash(r, c)]

FilesInv ==
  /\ pointer # None => /\ projectDir
                       /\ Loadable(pointer)
                       /\ \A r \in 1 .. pointer.revision : snapshot[r] # None
  /\ \A r \in Revisions : snapshot[r] # None =>
       /\ projectDir
       /\ IF pointer = None THEN r = 1 ELSE r <= pointer.revision + 1

FounderInv(t) ==
  /\ pc[t] \in Founding => t \in Founders /\ pointer = None
  /\ pc[t] \in {"found_replace", "found_publish"} => projectDir
  /\ pc[t] = "found_replace" => snapshot[1] = None
  /\ pc[t] = "found_publish" => snapshot[1] = Written(1, content[t])

CommitterInv(t) ==
  /\ pc[t] \in Critical <=> fileLock = t
  /\ base[t] # None => Loadable(base[t])
  /\ pc[t] \in {"waiting", "flocking"} \cup Critical => proposal[t] \in Proposals
  /\ pc[t] \in Prepared \cup {"revise"} =>
       /\ base[t] = pointer
       /\ content[t] = Outcome(proposal[t], snapshot[pointer.revision].content)
       /\ content[t] # Rejected
  /\ pc[t] \in Prepared => revision[t] = pointer.revision + 1
  /\ pc[t] = "replace" => snapshot[revision[t]] = None
  /\ pc[t] = "publish" => snapshot[revision[t]] = Written(revision[t], content[t])

StoreInv ==
  /\ TypeInv
  /\ FilesInv
  /\ \A t \in Threads : FounderInv(t) /\ CommitterInv(t)

\* A step that leaves the files alone and only moves thread t preserves the
\* invariant as soon as t's own part of it holds afterwards.
LEMMA Frame ==
  ASSUME StoreInv, TypeInv', NEW t \in Threads, UNCHANGED durable,
         \A s \in Threads \ {t} :
           /\ UNCHANGED <<pc[s], base[s], proposal[s], content[s], revision[s]>>
           /\ fileLock' = s <=> fileLock = s,
         FounderInv(t)', CommitterInv(t)'
  PROVE  StoreInv'
<1>1. FilesInv'
  BY DEF StoreInv, FilesInv, Loadable, durable
<1>2. ASSUME NEW s \in Threads \ {t} PROVE FounderInv(s)' /\ CommitterInv(s)'
  BY <1>2 DEF StoreInv, FounderInv, CommitterInv, Loadable, durable
<1> QED
  BY <1>1, <1>2 DEF StoreInv

\* Every thread but t keeps its local variables when t returns or moves on.
LEMMA ReturnFrame ==
  ASSUME StoreInv, TypeInv', NEW t \in Threads, Return(t), UNCHANGED durable,
         fileLock' # t,
         \A s \in Threads \ {t} : fileLock' = s <=> fileLock = s
  PROVE  StoreInv'
<1>1. \A s \in Threads \ {t} :
        UNCHANGED <<pc[s], base[s], proposal[s], content[s], revision[s]>>
  BY DEF StoreInv, TypeInv, TypeOK
<1>2. FounderInv(t)' /\ CommitterInv(t)'
  BY DEF StoreInv, TypeInv, TypeOK, FounderInv, CommitterInv
<1> QED
  BY <1>1, <1>2, Frame

LEMMA InitStore == Init => StoreInv
<1> SUFFICES ASSUME Init PROVE StoreInv
  OBVIOUS
<1>1. FilesInv
  BY DEF Init, FilesInv
<1>2. \A t \in Threads : FounderInv(t) /\ CommitterInv(t)
  BY ThreadAssumption DEF Init, FounderInv, CommitterInv
<1> QED
  BY <1>1, <1>2, InitTyped DEF StoreInv

LEMMA FoundStore ==
  ASSUME SoleFounder, StoreInv, TypeInv', NEW t \in Threads, Found(t)
  PROVE  StoreInv'
<1>0. \A s \in Threads \ {t} : pc[s] \in Founding => t \notin Founders
  BY DEF SoleFounder, StoreInv, FounderInv
<1>1. CASE \E c \in Valid : CreateProject(t, c)
  <2>1. pointer = None /\ pc[t] = "idle" /\ t \in Founders
    BY <1>1 DEF CreateProject, StoreInv, FilesInv
  <2>2. FounderInv(t)' /\ CommitterInv(t)'
    BY <1>1, <2>1 DEF CreateProject, StoreInv, TypeInv, TypeOK, FounderInv, CommitterInv,
                      Loadable, durable, locks
  <2> QED
    BY <1>1, <2>2, Frame DEF CreateProject, StoreInv, TypeInv, TypeOK, durable, locks
<1>2. CASE FoundCheck(t)
  <2>1. pc[t] = "found_check" /\ pointer = None /\ t \in Founders
    BY <1>2 DEF FoundCheck, StoreInv, FounderInv
  <2>2. \A s \in Threads \ {t} :
          UNCHANGED <<pc[s], base[s], proposal[s], content[s], revision[s]>>
    BY <1>2 DEF FoundCheck, StoreInv, TypeInv, TypeOK
  <2>3. projectDir' = TRUE /\ UNCHANGED <<snapshot, pointer, fileLock>>
    BY <1>2 DEF FoundCheck, locks
  <2>4. FilesInv'
    BY <1>2, <2>1, <2>3 DEF FoundCheck, StoreInv, FilesInv
  <2>5. FounderInv(t)' /\ CommitterInv(t)'
    <3>1. CASE snapshot[1] = None
      <4>1. /\ pc'[t] = "found_replace"
            /\ UNCHANGED <<base[t], proposal[t], content[t], revision[t]>>
        BY <1>2, <3>1 DEF FoundCheck, Goto, StoreInv, TypeInv, TypeOK
      <4> QED
        BY <2>1, <2>3, <3>1, <4>1 DEF StoreInv, FounderInv, CommitterInv, Loadable,
             Founding, Critical, Prepared
    <3>2. CASE snapshot[1] # None
      <4>1. pc'[t] = "idle" /\ base'[t] = None
        BY <1>2, <3>2 DEF FoundCheck, Return, StoreInv, TypeInv, TypeOK
      <4> QED
        BY <2>1, <2>3, <4>1 DEF StoreInv, FounderInv, CommitterInv,
             Founding, Critical, Prepared
    <3> QED
      BY <3>1, <3>2
  <2>6. ASSUME NEW s \in Threads \ {t} PROVE FounderInv(s)' /\ CommitterInv(s)'
    BY <2>2, <2>3, <2>6 DEF StoreInv, FounderInv, CommitterInv, Loadable
  <2> QED
    BY <2>4, <2>5, <2>6 DEF StoreInv
<1>3. CASE FoundReplace(t)
  <2>1. pc[t] = "found_replace" /\ pointer = None /\ t \in Founders /\ snapshot[1] = None
    BY <1>3 DEF FoundReplace, StoreInv, FounderInv
  <2>2. \A s \in Threads \ {t} :
          UNCHANGED <<pc[s], base[s], proposal[s], content[s], revision[s]>>
    BY <1>3 DEF FoundReplace, StoreInv, TypeInv, TypeOK
  <2>3. UNCHANGED <<projectDir, pointer, fileLock>>
    BY <1>3 DEF FoundReplace, locks
  <2>4. snapshot' = [snapshot EXCEPT ![1] = Written(1, content[t])]
    BY <1>3 DEF FoundReplace, Written
  <2>5. \A r \in Revisions : snapshot[r] = None
    BY <2>1 DEF StoreInv, FilesInv
  <2>6. \A s \in Threads : pc[s] \notin Critical /\ base[s] = None
    BY <2>1, <2>5 DEF StoreInv, TypeInv, TypeOK, HoldsWork, CommitterInv, Loadable, Pointers
  <2>7. projectDir
    BY <1>3 DEF FoundReplace, StoreInv, FounderInv
  <2>8. FilesInv'
    BY <2>1, <2>3, <2>4, <2>5, <2>7, RevisionOne DEF FilesInv, StoreInv, TypeInv, TypeOK
  <2>9. FounderInv(t)' /\ CommitterInv(t)'
    <3>1. pc'[t] = "found_publish" /\ base'[t] = base[t] /\ content'[t] = content[t]
      BY <1>3 DEF FoundReplace, StoreInv, TypeInv, TypeOK
    <3>2. snapshot'[1] = Written(1, content[t])
      BY <2>4, RevisionOne DEF StoreInv, TypeInv, TypeOK
    <3>3. fileLock' # t
      BY <2>1, <2>3 DEF StoreInv, CommitterInv
    <3> QED
      BY <2>1, <2>3, <2>6, <2>7, <3>1, <3>2, <3>3 DEF FounderInv, CommitterInv
  <2>10. ASSUME NEW s \in Threads \ {t} PROVE FounderInv(s)' /\ CommitterInv(s)'
    BY <1>0, <2>1, <2>2, <2>3, <2>6, <2>10 DEF StoreInv, FounderInv, CommitterInv
  <2> QED
    BY <2>8, <2>9, <2>10 DEF StoreInv
<1>4. CASE FoundPublish(t)
  <2>1. /\ pc[t] = "found_publish" /\ pointer = None /\ t \in Founders
        /\ snapshot[1] = Written(1, content[t])
    BY <1>4 DEF FoundPublish, StoreInv, FounderInv
  <2>2. \A s \in Threads \ {t} :
          UNCHANGED <<pc[s], base[s], proposal[s], content[s], revision[s]>>
    BY <1>4 DEF FoundPublish, StoreInv, TypeInv, TypeOK
  <2>3. UNCHANGED <<projectDir, snapshot, fileLock>>
    BY <1>4 DEF FoundPublish, locks
  <2>4. pointer' = [revision |-> 1, hash |-> StateHash(1, content[t])]
    BY <1>4 DEF FoundPublish
  <2>5. snapshot[1] # None
    BY <2>1, <1>4, HashTyped, RevisionOne, NoneAssumption
       DEF Written, Snapshots, StoreInv, TypeInv, HoldsWork
  <2>6. FilesInv'
    <3>1. Loadable(pointer)'
      BY <2>1, <2>3, <2>4, <2>5 DEF Loadable, Written
    <3>2. projectDir
      BY <2>5, RevisionOne DEF StoreInv, FilesInv
    <3>3. \A r \in Revisions : snapshot[r] # None => r = 1
      BY <2>1 DEF StoreInv, FilesInv
    <3> QED
      BY <2>3, <2>4, <2>5, <3>1, <3>2, <3>3 DEF FilesInv
  <2>7. \A s \in Threads : pc[s] \notin Critical
    BY <2>1 DEF StoreInv, TypeInv, HoldsWork
  <2>8. FounderInv(t)' /\ CommitterInv(t)'
    BY <1>4, <2>3, <2>7 DEF FoundPublish, StoreInv, TypeInv, TypeOK, FounderInv, CommitterInv
  <2>9. ASSUME NEW s \in Threads \ {t} PROVE FounderInv(s)' /\ CommitterInv(s)'
    BY <1>0, <2>1, <2>2, <2>3, <2>7, <2>9 DEF StoreInv, FounderInv, CommitterInv, Loadable
  <2> QED
    BY <2>6, <2>8, <2>9 DEF StoreInv
<1> QED
  BY <1>1, <1>2, <1>3, <1>4 DEF Found

LEMMA LockStore ==
  ASSUME StoreInv, TypeInv', NEW t \in Threads,
         LockThread(t) \/ LockFile(t) \/ \E p \in Proposals : Propose(t, p)
  PROVE  StoreInv'
<1>1. \A s \in Threads \ {t} :
        UNCHANGED <<pc[s], base[s], proposal[s], content[s], revision[s]>>
  BY DEF LockThread, LockFile, Propose, StoreInv, TypeInv, TypeOK
<1>2. UNCHANGED durable
  BY DEF LockThread, LockFile, Propose
<1>3. CASE LockThread(t)
  <2>1. FounderInv(t)' /\ CommitterInv(t)'
    BY <1>2, <1>3 DEF LockThread, StoreInv, TypeInv, TypeOK, FounderInv, CommitterInv,
                      Loadable, durable
  <2> QED
    BY <1>1, <1>2, <1>3, <2>1, Frame DEF LockThread
<1>4. CASE LockFile(t)
  <2>1. fileLock = None /\ fileLock' = t /\ t # None
    BY <1>4, ThreadAssumption DEF LockFile
  <2>2. FounderInv(t)' /\ CommitterInv(t)'
    BY <1>2, <1>4, <2>1 DEF LockFile, StoreInv, TypeInv, TypeOK, FounderInv, CommitterInv,
                            Loadable, durable
  <2>3. \A s \in Threads \ {t} : fileLock' = s <=> fileLock = s
    BY <2>1, ThreadAssumption
  <2> QED
    BY <1>1, <1>2, <2>2, <2>3, Frame
<1>5. CASE \E p \in Proposals : Propose(t, p)
  <2>1. Loadable(pointer)
    BY <1>5 DEF Propose, StoreInv, FilesInv
  <2>2. FounderInv(t)' /\ CommitterInv(t)'
    <3>1. /\ pc'[t] = "waiting" /\ base'[t] = pointer /\ proposal'[t] \in Proposals
          /\ fileLock' = fileLock
      BY <1>5 DEF Propose, StoreInv, TypeInv, TypeOK, locks
    <3>2. fileLock # t
      BY <1>5 DEF Propose, StoreInv, CommitterInv
    <3>3. Loadable(base[t])'
      BY <1>2, <2>1, <3>1 DEF Loadable, durable
    <3> QED
      BY <3>1, <3>2, <3>3 DEF FounderInv, CommitterInv
  <2> QED
    BY <1>1, <1>2, <1>5, <2>2, Frame DEF Propose, locks
<1> QED
  BY <1>3, <1>4, <1>5

LEMMA ReadFailStore ==
  ASSUME StoreInv, TypeInv', NEW t \in Threads, Read(t) \/ Fail(t)
  PROVE  StoreInv'
<1>1. CASE ReadPointer(t)
  <2>1. Loadable(pointer) /\ UNCHANGED durable
    BY <1>1 DEF ReadPointer, StoreInv, FilesInv
  <2>2. \A s \in Threads \ {t} :
          /\ UNCHANGED <<pc[s], base[s], proposal[s], content[s], revision[s]>>
          /\ fileLock' = s <=> fileLock = s
    BY <1>1 DEF ReadPointer, locks, StoreInv, TypeInv, TypeOK
  <2>3. FounderInv(t)' /\ CommitterInv(t)'
    BY <1>1, <2>1 DEF ReadPointer, StoreInv, TypeInv, TypeOK, FounderInv, CommitterInv,
                      Loadable, durable, locks
  <2> QED
    BY <2>1, <2>2, <2>3, Frame
<1>2. CASE ReadSnapshot(t)
  <2>1. fileLock' = fileLock /\ fileLock # t
    BY <1>2 DEF ReadSnapshot, locks, StoreInv, CommitterInv
  <2> QED
    BY <1>2, <2>1, ReturnFrame DEF ReadSnapshot
<1>3. CASE FoundFails(t)
  <2>1. fileLock' = fileLock /\ fileLock # t
    BY <1>3 DEF FoundFails, locks, StoreInv, CommitterInv
  <2> QED
    BY <1>3, <2>1, ReturnFrame DEF FoundFails
<1>4. CASE LockFileFails(t)
  <2>1. fileLock' = fileLock /\ fileLock # t
    BY <1>4 DEF LockFileFails, StoreInv, CommitterInv
  <2> QED
    BY <1>4, <2>1, ReturnFrame DEF LockFileFails
<1>5. CASE WriteFails(t)
  <2>1. UNCHANGED durable /\ fileLock' = fileLock
    BY <1>5 DEF WriteFails, locks
  <2>2. \A s \in Threads \ {t} :
          UNCHANGED <<pc[s], base[s], proposal[s], content[s], revision[s]>>
    BY <1>5 DEF WriteFails, StoreInv, TypeInv, TypeOK
  <2>3. FounderInv(t)' /\ CommitterInv(t)'
    BY <1>5, <2>1 DEF WriteFails, StoreInv, TypeInv, TypeOK, FounderInv, CommitterInv,
                      Loadable, durable
  <2> QED
    BY <2>1, <2>2, <2>3, Frame
<1> QED
  BY <1>1, <1>2, <1>3, <1>4, <1>5 DEF Read, Fail

LEMMA CrashStore ==
  ASSUME StoreInv, TypeInv', NEW p \in Processes, Crash(p)
  PROVE  StoreInv'
<1>1. /\ UNCHANGED durable
      /\ fileLock' = IF fileLock \in {t \in Threads : Home[t] = p} THEN None ELSE fileLock
  BY DEF Crash
<1>2. FilesInv'
  BY <1>1 DEF StoreInv, FilesInv, Loadable, durable
<1>3. ASSUME NEW s \in Threads, Home[s] = p PROVE FounderInv(s)' /\ CommitterInv(s)'
  <2>1. pc'[s] = "idle" /\ base'[s] = None
    BY <1>3 DEF Crash, Forget
  <2>2. fileLock' # s
    BY <1>1, <1>3, ThreadAssumption
  <2> QED
    BY <2>1, <2>2 DEF FounderInv, CommitterInv
<1>4. ASSUME NEW s \in Threads, Home[s] # p PROVE FounderInv(s)' /\ CommitterInv(s)'
  <2>1. UNCHANGED <<pc[s], base[s], proposal[s], content[s], revision[s]>>
    BY <1>4 DEF Crash, Forget
  <2>2. fileLock' = s <=> fileLock = s
    BY <1>1, <1>4, ThreadAssumption
  <2> QED
    BY <1>1, <2>1, <2>2 DEF StoreInv, FounderInv, CommitterInv, Loadable, durable
<1> QED
  BY <1>2, <1>3, <1>4 DEF StoreInv

\* The steps under the lock that only decide: no file changes.
LEMMA DecideStore ==
  ASSUME StoreInv, TypeInv', NEW t \in Threads,
         Prepare(t) \/ Revise(t) \/ CheckSnapshot(t) \/ Unlock(t)
  PROVE  StoreInv'
<1>1. CASE Prepare(t)
  <2>1. /\ pc[t] = "prepare" /\ fileLock' = fileLock /\ fileLock = t
        /\ UNCHANGED <<durable, base, proposal, revision>>
    BY <1>1 DEF Prepare, locks, StoreInv, CommitterInv
  <2>2. \A s \in Threads \ {t} :
          UNCHANGED <<pc[s], base[s], proposal[s], content[s], revision[s]>>
    BY <1>1 DEF Prepare, StoreInv, TypeInv, TypeOK
  <2>3. CASE pc'[t] = "release"
    <3>1. FounderInv(t)' /\ CommitterInv(t)'
      BY <2>1, <2>3 DEF StoreInv, FounderInv, CommitterInv, Loadable, durable
    <3> QED
      BY <2>1, <2>2, <3>1, Frame
  <2>4. CASE pc'[t] = "revise"
    <3>1. /\ Fresh(t)
          /\ content'[t] = Outcome(proposal[t], snapshot[pointer.revision].content)
          /\ content'[t] # Rejected
      BY <1>1, <2>4 DEF Prepare, StoreInv, TypeInv, TypeOK
    <3>2. base[t] = pointer
      <4>1. base[t] \in Pointers /\ pointer \in Pointers
        BY <2>1 DEF StoreInv, TypeInv, TypeOK, HoldsWork
      <4> QED
        BY <3>1, <4>1 DEF Fresh, Pointers
    <3>3. FounderInv(t)' /\ CommitterInv(t)'
      BY <2>1, <2>4, <3>1, <3>2 DEF StoreInv, FounderInv, CommitterInv, Loadable, durable
    <3> QED
      BY <2>1, <2>2, <3>3, Frame
  <2> QED
    BY <1>1, <2>3, <2>4 DEF Prepare, StoreInv, TypeInv, TypeOK
<1>2. CASE Revise(t)
  <2>1. /\ pc[t] = "revise" /\ fileLock' = fileLock /\ fileLock = t
        /\ UNCHANGED <<durable, base, proposal, content>>
    BY <1>2 DEF Revise, locks, StoreInv, CommitterInv
  <2>2. \A s \in Threads \ {t} :
          UNCHANGED <<pc[s], base[s], proposal[s], content[s], revision[s]>>
    BY <1>2 DEF Revise, StoreInv, TypeInv, TypeOK
  <2>3. \/ pc'[t] = "release"
        \/ pc'[t] = "check" /\ revision'[t] = pointer.revision + 1
    BY <1>2 DEF Revise, StoreInv, TypeInv, TypeOK
  <2>4. FounderInv(t)' /\ CommitterInv(t)'
    BY <2>1, <2>3 DEF StoreInv, FounderInv, CommitterInv, Loadable, durable
  <2> QED
    BY <2>1, <2>2, <2>4, Frame
<1>3. CASE CheckSnapshot(t)
  <2>1. /\ pc[t] = "check" /\ fileLock' = fileLock /\ fileLock = t
        /\ UNCHANGED <<durable, base, proposal, content, revision>>
    BY <1>3 DEF CheckSnapshot, locks, StoreInv, CommitterInv
  <2>2. \A s \in Threads \ {t} :
          UNCHANGED <<pc[s], base[s], proposal[s], content[s], revision[s]>>
    BY <1>3 DEF CheckSnapshot, StoreInv, TypeInv, TypeOK
  <2>3. pc'[t] = "release" \/ (pc'[t] = "replace" /\ snapshot[revision[t]] = None)
    BY <1>3 DEF CheckSnapshot, StoreInv, TypeInv, TypeOK
  <2>4. FounderInv(t)' /\ CommitterInv(t)'
    BY <2>1, <2>3 DEF StoreInv, FounderInv, CommitterInv, Loadable, durable
  <2> QED
    BY <2>1, <2>2, <2>4, Frame
<1>4. CASE Unlock(t)
  <2>1. fileLock' = None /\ fileLock = t /\ UNCHANGED durable /\ Return(t)
    BY <1>4 DEF Unlock, StoreInv, CommitterInv
  <2>2. fileLock' # t /\ \A s \in Threads \ {t} : fileLock' = s <=> fileLock = s
    BY <2>1, ThreadAssumption
  <2> QED
    BY <2>1, <2>2, ReturnFrame
<1> QED
  BY <1>1, <1>2, <1>3, <1>4

\* What the thread about to write a file knows: it is alone, its base is the
\* current revision, and the project is past its founding.
LEMMA WriterAlone ==
  ASSUME StoreInv, NEW t \in Threads, pc[t] \in {"replace", "publish"}
  PROVE  /\ fileLock = t
         /\ \A s \in Threads \ {t} : pc[s] \notin Critical
         /\ \A s \in Threads : pc[s] \notin Founding
         /\ pointer \in Pointers /\ pointer # None /\ base[t] = pointer
         /\ revision[t] \in Revisions /\ revision[t] = pointer.revision + 1
         /\ pointer.revision \in Revisions
         /\ content[t] \in Valid
<1>1. fileLock = t /\ base[t] = pointer /\ revision[t] = pointer.revision + 1
  BY DEF StoreInv, CommitterInv
<1>2. \A s \in Threads \ {t} : pc[s] \notin Critical
  BY <1>1 DEF StoreInv, CommitterInv
<1>3. pointer # None /\ content[t] \in Valid /\ revision[t] \in Revisions
  BY DEF StoreInv, TypeInv, HoldsWork
<1>4. pointer \in Pointers /\ pointer.revision \in Revisions
  BY <1>3 DEF StoreInv, TypeInv, TypeOK, Pointers
<1>5. \A s \in Threads : pc[s] \notin Founding
  BY <1>3 DEF StoreInv, FounderInv
<1> QED
  BY <1>1, <1>2, <1>3, <1>4, <1>5

LEMMA ReplaceStore ==
  ASSUME StoreInv, TypeInv', NEW t \in Threads, ReplaceSnapshot(t)
  PROVE  StoreInv'
<1> DEFINE r == revision[t]
<1>1. /\ pc[t] = "replace" /\ pc'[t] = "publish"
      /\ UNCHANGED <<projectDir, pointer, fileLock, base, proposal, content, revision>>
      /\ snapshot' = [snapshot EXCEPT ![r] = Written(r, content[t])]
      /\ \A s \in Threads \ {t} : pc'[s] = pc[s]
  BY DEF ReplaceSnapshot, Written, locks, StoreInv, TypeInv, TypeOK
<1>2. /\ fileLock = t
      /\ \A s \in Threads \ {t} : pc[s] \notin Critical
      /\ \A s \in Threads : pc[s] \notin Founding
      /\ pointer # None /\ base[t] = pointer
      /\ r \in Revisions /\ r = pointer.revision + 1 /\ pointer.revision \in Revisions
  BY <1>1, WriterAlone
<1>3. snapshot[r] = None
  BY <1>1 DEF StoreInv, CommitterInv
<1>4. /\ snapshot'[r] = Written(r, content[t])
      /\ \A q \in Revisions : q # r => snapshot'[q] = snapshot[q]
  BY <1>1, <1>2 DEF StoreInv, TypeInv, TypeOK
<1>5. ASSUME NEW p \in Pointers, Loadable(p)
      PROVE  snapshot'[p.revision] = snapshot[p.revision]
  BY <1>3, <1>4, <1>5 DEF Loadable, Pointers
<1>6. FilesInv'
  <2>1. Loadable(pointer) /\ projectDir /\ pointer \in Pointers
    BY <1>1, <1>2, WriterAlone DEF StoreInv, FilesInv
  <2>2. Loadable(pointer)'
    BY <1>1, <1>5, <2>1 DEF Loadable
  <2>3. ASSUME NEW q \in 1 .. pointer.revision PROVE snapshot'[q] # None
    <3>1. q \in Revisions /\ q # r
      BY <1>2, BoundAssumption DEF Revisions
    <3>2. snapshot[q] # None
      BY <1>2 DEF StoreInv, FilesInv
    <3> QED
      BY <1>4, <3>1, <3>2
  <2>4. \A q \in Revisions : snapshot'[q] # None => q <= pointer.revision + 1
    BY <1>2, <1>4 DEF StoreInv, FilesInv, Revisions
  <2> QED
    BY <1>1, <1>2, <2>1, <2>2, <2>3, <2>4 DEF FilesInv
<1>7. \A s \in Threads : base[s] # None => Loadable(base[s])'
  BY <1>1, <1>5 DEF StoreInv, TypeInv, TypeOK, CommitterInv, Loadable
<1>8. FounderInv(t)' /\ CommitterInv(t)'
  <2>1. snapshot'[pointer.revision] = snapshot[pointer.revision]
    BY <1>2, <1>4 DEF Revisions
  <2>2. /\ proposal[t] \in Proposals
        /\ content[t] = Outcome(proposal[t], snapshot[pointer.revision].content)
        /\ content[t] # Rejected
    BY <1>1 DEF StoreInv, CommitterInv
  <2> QED
    BY <1>1, <1>2, <1>4, <1>7, <2>1, <2>2 DEF FounderInv, CommitterInv
<1>9. ASSUME NEW s \in Threads \ {t} PROVE FounderInv(s)' /\ CommitterInv(s)'
  BY <1>1, <1>2, <1>7, <1>9 DEF StoreInv, FounderInv, CommitterInv
<1> QED
  BY <1>6, <1>8, <1>9 DEF StoreInv

LEMMA PublishStore ==
  ASSUME StoreInv, TypeInv', NEW t \in Threads, PublishPointer(t)
  PROVE  StoreInv'
<1> DEFINE r == revision[t]
<1>1. /\ pc[t] = "publish" /\ pc'[t] = "release"
      /\ UNCHANGED <<projectDir, snapshot, fileLock, base, proposal, content, revision>>
      /\ pointer' = [revision |-> r, hash |-> StateHash(r, content[t])]
      /\ \A s \in Threads \ {t} : pc'[s] = pc[s]
  BY DEF PublishPointer, locks, StoreInv, TypeInv, TypeOK
<1>2. /\ fileLock = t
      /\ \A s \in Threads \ {t} : pc[s] \notin Critical
      /\ \A s \in Threads : pc[s] \notin Founding
      /\ pointer # None /\ base[t] = pointer /\ content[t] \in Valid
      /\ r \in Revisions /\ r = pointer.revision + 1 /\ pointer.revision \in Revisions
  BY <1>1, WriterAlone
<1>3. snapshot[r] = Written(r, content[t])
  BY <1>1 DEF StoreInv, CommitterInv
<1>4. Written(r, content[t]) # None
  BY <1>2, HashTyped, NoneAssumption DEF Written, Snapshots, Revisions
<1>5. FilesInv'
  <2>1. Loadable(pointer)'
    BY <1>1, <1>3, <1>4 DEF Loadable, Written
  <2>2. \A q \in 1 .. r : snapshot[q] # None
    BY <1>2, <1>3, <1>4 DEF StoreInv, FilesInv, Revisions
  <2>3. \A q \in Revisions : snapshot[q] # None => q <= r + 1
    BY <1>2 DEF StoreInv, FilesInv, Revisions
  <2>4. projectDir /\ pointer'.revision = r
    BY <1>1, <1>2 DEF StoreInv, FilesInv
  <2>5. ASSUME pointer' = None PROVE FALSE
    BY <1>1, <1>2, <2>5, HashTyped, NoneAssumption DEF Pointers
  <2> QED
    BY <1>1, <2>1, <2>2, <2>3, <2>4, <2>5 DEF FilesInv
<1>6. \A s \in Threads : base[s] # None => Loadable(base[s])'
  BY <1>1 DEF StoreInv, CommitterInv, Loadable
<1>7. FounderInv(t)' /\ CommitterInv(t)'
  BY <1>1, <1>2, <1>6 DEF StoreInv, FounderInv, CommitterInv
<1>8. ASSUME NEW s \in Threads \ {t} PROVE FounderInv(s)' /\ CommitterInv(s)'
  BY <1>1, <1>2, <1>6, <1>8 DEF StoreInv, FounderInv, CommitterInv
<1> QED
  BY <1>5, <1>7, <1>8 DEF StoreInv

LEMMA NextStore == SoleFounder /\ StoreInv /\ [Next]_vars => StoreInv'
<1> SUFFICES ASSUME SoleFounder, StoreInv, [Next]_vars PROVE StoreInv'
  OBVIOUS
<1>1. TypeInv'
  BY NextTyped DEF StoreInv
<1>2. CASE UNCHANGED vars
  BY <1>1, <1>2 DEF vars, durable, locks, local, StoreInv, FilesInv, FounderInv,
                    CommitterInv, Loadable
<1>3. CASE \E p \in Processes : Crash(p)
  BY <1>1, <1>3, CrashStore
<1>4. ASSUME NEW t \in Threads, Found(t) PROVE StoreInv'
  BY <1>1, <1>4, FoundStore
<1>5. ASSUME NEW t \in Threads, Commit(t) PROVE StoreInv'
  BY <1>1, <1>5, DecideStore, ReplaceStore, PublishStore DEF Commit
<1>6. ASSUME NEW t \in Threads, Read(t) \/ Fail(t) PROVE StoreInv'
  BY <1>1, <1>6, ReadFailStore
<1>7. ASSUME NEW t \in Threads,
             LockThread(t) \/ LockFile(t) \/ \E p \in Proposals : Propose(t, p)
      PROVE  StoreInv'
  BY <1>1, <1>7, LockStore
<1> QED
  BY <1>2, <1>3, <1>4, <1>5, <1>6, <1>7 DEF Next

LEMMA StoreInvariant ==
  ASSUME SoleFounder
  PROVE  Spec => []StoreInv
<1>1. StoreInv /\ [Next]_vars => StoreInv'
  BY NextStore
<1> QED
  BY InitStore, <1>1, PTL DEF Spec

-----------------------------------------------------------------------------
(* What the invariant gives. *)

\* At most one thread of one process is inside project_lock
\* (manager.py:46-86), even after process deaths and leaked RLocks.
THEOREM Exclusion ==
  ASSUME SoleFounder
  PROVE  Spec => []MutualExclusion
<1>1. StoreInv => MutualExclusion
  BY DEF StoreInv, CommitterInv, MutualExclusion
<1> QED
  BY <1>1, StoreInvariant, PTL

\* current.json, and every pointer a lock-free reader still holds, names a
\* snapshot that loads (manager.py:138-164, 208-213).
THEOREM NeverTorn ==
  ASSUME SoleFounder
  PROVE  Spec => []ReadersNeverTorn
<1>1. StoreInv => ReadersNeverTorn
  <2> SUFFICES ASSUME StoreInv PROVE ReadersNeverTorn
    OBVIOUS
  <2>1. pointer # None => Loadable(pointer)
    BY DEF StoreInv, FilesInv
  <2>2. ASSUME NEW t \in Threads, pc[t] = "reading" PROVE Loadable(base[t])
    <3>1. base[t] \in Pointers
      BY <2>2 DEF StoreInv, TypeInv, HoldsWork
    <3>2. base[t] # None
      BY <3>1, NoneAssumption
    <3> QED
      BY <3>2 DEF StoreInv, CommitterInv
  <2> QED
    BY <2>1, <2>2 DEF ReadersNeverTorn
<1> QED
  BY <1>1, StoreInvariant, PTL

\* Only the two replace steps change a snapshot file.
LEMMA SnapshotFrame ==
  ASSUME [Next]_vars, snapshot' # snapshot
  PROVE  \E t \in Threads : FoundReplace(t) \/ ReplaceSnapshot(t)
BY DEF Next, Found, CreateProject, FoundCheck, FoundPublish, Commit, Prepare, Revise,
       CheckSnapshot, PublishPointer, Unlock, Read, ReadPointer, ReadSnapshot, Fail,
       FoundFails, LockFileFails, WriteFails, LockThread, LockFile, Propose, Crash,
       vars, durable

\* Only the two publish steps change the pointer.
LEMMA PointerFrame ==
  ASSUME [Next]_vars, pointer' # pointer
  PROVE  \E t \in Threads : FoundPublish(t) \/ PublishPointer(t)
BY DEF Next, Found, CreateProject, FoundCheck, FoundReplace, Commit, Prepare, Revise,
       CheckSnapshot, ReplaceSnapshot, Unlock, Read, ReadPointer, ReadSnapshot, Fail,
       FoundFails, LockFileFails, WriteFails, LockThread, LockFile, Propose, Crash,
       vars, durable

LEMMA SnapshotsKept ==
  ASSUME StoreInv, [Next]_vars, NEW r \in Revisions, snapshot[r] # None
  PROVE  snapshot'[r] = snapshot[r]
<1> SUFFICES ASSUME snapshot' # snapshot PROVE snapshot'[r] = snapshot[r]
  OBVIOUS
<1>1. PICK t \in Threads : FoundReplace(t) \/ ReplaceSnapshot(t)
  BY SnapshotFrame
<1>2. CASE FoundReplace(t)
  BY <1>2 DEF FoundReplace, StoreInv, FounderInv, TypeInv, TypeOK
<1>3. CASE ReplaceSnapshot(t)
  BY <1>3 DEF ReplaceSnapshot, StoreInv, CommitterInv, TypeInv, TypeOK
<1> QED
  BY <1>1, <1>2, <1>3

\* A snapshot file, once written, is never rewritten (manager.py:97-116).
THEOREM Immutability ==
  ASSUME SoleFounder
  PROVE  Spec => SnapshotsImmutable
<1>1. StoreInv /\ [Next]_vars =>
        \A r \in Revisions : snapshot[r] # None => snapshot'[r] = snapshot[r]
  BY SnapshotsKept
<1> QED
  BY <1>1, StoreInvariant, PTL DEF Spec, SnapshotsImmutable

\* A proposal becomes current only on the very revision and hash its author
\* read (engine.py:116-119, 145-151).
THEOREM FirstCommitter ==
  ASSUME SoleFounder
  PROVE  Spec => FirstCommitterWins
<1>1. StoreInv =>
        \A t \in Threads : pc[t] = "publish" /\ pointer' # pointer => base[t] = pointer
  BY DEF StoreInv, CommitterInv
<1> QED
  BY <1>1, StoreInvariant, PTL DEF FirstCommitterWins

\* A snapshot left behind by an interrupted commit stays outside the history
\* for ever: no later call adopts it (manager.py:99-109).
THEOREM Orphanage ==
  ASSUME SoleFounder
  PROVE  Spec => OrphanNeverAdopted
<1>1. StoreInv /\ [Next]_vars => \A r \in Revisions : Orphan(r) => Orphan(r)'
  <2> SUFFICES ASSUME StoreInv, [Next]_vars, NEW r \in Revisions, Orphan(r)
               PROVE  Orphan(r)'
    OBVIOUS
  <2>1. pointer' = pointer
    <3> SUFFICES ASSUME pointer' # pointer PROVE FALSE
      OBVIOUS
    <3>1. PICK t \in Threads : FoundPublish(t) \/ PublishPointer(t)
      BY PointerFrame
    <3>2. pc[t] \in {"publish", "found_publish"}
      BY <3>1 DEF FoundPublish, PublishPointer
    <3> QED
      BY <3>2 DEF Orphan
  <2>2. ASSUME NEW t \in Threads PROVE ~FoundReplace(t) /\ ~ReplaceSnapshot(t)
    <3>1. CASE FoundReplace(t)
      <4>1. pointer = None /\ snapshot[1] = None
        BY <3>1 DEF FoundReplace, StoreInv, FounderInv
      <4> QED
        BY <4>1 DEF StoreInv, FilesInv, Orphan
    <3>2. CASE ReplaceSnapshot(t)
      <4>1. /\ pointer # None /\ pointer.revision \in Revisions
            /\ revision[t] = pointer.revision + 1 /\ snapshot[revision[t]] = None
        BY <3>2, WriterAlone DEF ReplaceSnapshot, StoreInv, CommitterInv
      <4>2. pointer.revision < r /\ r <= pointer.revision + 1
        BY <4>1 DEF StoreInv, FilesInv, Orphan
      <4>3. r = revision[t]
        BY <4>1, <4>2 DEF Revisions
      <4> QED
        BY <4>1, <4>3 DEF Orphan
    <3> QED
      BY <3>1, <3>2
  <2>3. snapshot' = snapshot
    BY <2>2, SnapshotFrame
  <2>4. ASSUME NEW t \in Threads PROVE pc'[t] \notin {"publish", "found_publish"}
    <3>1. pc[t] \notin {"publish", "found_publish"}
      BY DEF Orphan
    <3> QED
      BY <2>2, <3>1 DEF Next, Found, CreateProject, FoundCheck, FoundPublish, Commit,
         Prepare, Revise, CheckSnapshot, PublishPointer, Unlock, Read, ReadPointer,
         ReadSnapshot, Fail, FoundFails, LockFileFails, WriteFails, LockThread, LockFile,
         Propose, Crash, vars, local, StoreInv, TypeInv, TypeOK
  <2> QED
    BY <2>1, <2>3, <2>4 DEF Orphan
<1> QED
  BY <1>1, StoreInvariant, PTL DEF Spec, OrphanNeverAdopted

-----------------------------------------------------------------------------
(* The files implement the abstract log. *)

LEMMA SameOutcome ==
  ASSUME NEW p, NEW c
  PROVE  Log!Outcome(p, c) = Outcome(p, c)
BY DEF Outcome, AfterOps, Owns, Applicable, Write,
       Log!Outcome, Log!AfterOps, Log!Owns, Log!Applicable, Log!Write

\* A step that changes no file, or only a snapshot beyond the pointer, does not
\* change what readers see.
LEMMA HistoryFrame ==
  ASSUME StoreInv, [Next]_vars, pointer' = pointer
  PROVE  History' = History
<1>1. CASE pointer = None
  BY <1>1 DEF History
<1>2. CASE pointer # None
  <2>1. ASSUME NEW r \in 1 .. pointer.revision PROVE snapshot'[r] = snapshot[r]
    <3>1. pointer.revision \in Revisions
      BY <1>2 DEF StoreInv, TypeInv, TypeOK, Pointers
    <3>2. r \in Revisions /\ snapshot[r] # None
      BY <1>2, <3>1, BoundAssumption DEF StoreInv, FilesInv, Revisions
    <3> QED
      BY <3>2, SnapshotsKept
  <2> QED
    BY <1>2, <2>1 DEF History
<1> QED
  BY <1>1, <1>2

\* The first pointer written makes a history of one content.
LEMMA FoundImplements ==
  ASSUME StoreInv, NEW t \in Threads, FoundPublish(t)
  PROVE  Log!Next
<1>1. /\ pc[t] = "found_publish" /\ pointer = None /\ snapshot' = snapshot
      /\ snapshot[1] = Written(1, content[t])
      /\ pointer' = [revision |-> 1, hash |-> StateHash(1, content[t])]
  BY DEF FoundPublish, StoreInv, FounderInv
<1>2. content[t] \in Valid
  BY <1>1 DEF StoreInv, TypeInv, HoldsWork
<1>3. pointer' # None /\ snapshot[1] # None
  BY <1>1, <1>2, HashTyped, RevisionOne, NoneAssumption DEF Pointers, Written, Snapshots
<1>4. History = << >>
  BY <1>1 DEF History
<1>5. History' = << content[t] >>
  <2>1. History' = [r \in 1 .. 1 |-> content[t]]
    BY <1>1, <1>3 DEF History, Written
  <2> QED
    BY <2>1
<1> QED
  BY <1>2, <1>4, <1>5 DEF Log!Next, Log!Found

\* Every later pointer written appends the outcome of one proposal.
LEMMA CommitImplements ==
  ASSUME StoreInv, NEW t \in Threads, PublishPointer(t)
  PROVE  Log!Next
<1> DEFINE n == pointer.revision
           p == proposal[t]
<1>1. /\ pc[t] = "publish" /\ snapshot' = snapshot
      /\ pointer' = [revision |-> revision[t], hash |-> StateHash(revision[t], content[t])]
  BY DEF PublishPointer
<1>2. /\ pointer # None /\ n \in Revisions /\ revision[t] \in Revisions
      /\ revision[t] = n + 1 /\ content[t] \in Valid
  BY <1>1, WriterAlone
<1>3. /\ snapshot[n + 1] = Written(n + 1, content[t])
      /\ p \in Proposals
      /\ content[t] = Outcome(p, snapshot[n].content)
      /\ content[t] # Rejected
  BY <1>1, <1>2 DEF StoreInv, CommitterInv
<1>4. pointer' # None /\ snapshot[n + 1] # None
  BY <1>1, <1>2, <1>3, HashTyped, NoneAssumption DEF Pointers, Written, Snapshots, Revisions
<1>5. \A r \in 1 .. n : snapshot[r] # None
  BY <1>2 DEF StoreInv, FilesInv
<1>6. n \in Nat /\ n >= 1
  BY <1>2 DEF Revisions
<1>7. History = [r \in 1 .. n |-> snapshot[r].content]
  BY <1>2, <1>5 DEF History
<1>8. History' = [r \in 1 .. n + 1 |-> snapshot[r].content]
  <2>1. History' = [r \in 1 .. n + 1 |->
                      IF snapshot[r] = None THEN Rejected ELSE snapshot[r].content]
    BY <1>1, <1>2, <1>4 DEF History
  <2>2. \A r \in 1 .. n + 1 : snapshot[r] # None
    BY <1>4, <1>5, <1>6
  <2> QED
    BY <2>1, <2>2
<1>9. snapshot[n + 1].content = content[t]
  BY <1>3 DEF Written
<1>10. Len(History) = n /\ History # << >> /\ History[n] = snapshot[n].content
  BY <1>6, <1>7
<1>11. History' = Append(History, content[t])
  BY <1>6, <1>7, <1>8, <1>9
<1>12. Log!Outcome(p, History[Len(History)]) = content[t]
  BY <1>3, <1>10, SameOutcome
<1>13. Log!Commit(p)
  BY <1>3, <1>10, <1>11, <1>12 DEF Log!Commit
<1> QED
  BY <1>3, <1>13 DEF Log!Next

\* The canonical files of a project, under every interleaving, write failure
\* and process death, implement the append-only log of accepted proposals
\* (engine.py:116-156, manager.py:118-164).
THEOREM Refinement ==
  ASSUME SoleFounder
  PROVE  Spec => ImplementsLog
<1>1. Init => Log!Init
  BY DEF Init, History, Log!Init
<1>2. StoreInv /\ [Next]_vars => [Log!Next]_History
  <2> SUFFICES ASSUME StoreInv, [Next]_vars PROVE Log!Next \/ History' = History
    OBVIOUS
  <2>1. CASE pointer' = pointer
    BY <2>1, HistoryFrame
  <2>2. CASE pointer' # pointer
    BY <2>2, PointerFrame, FoundImplements, CommitImplements
  <2> QED
    BY <2>1, <2>2
<1> QED
  BY <1>1, <1>2, StoreInvariant, PTL DEF Spec, ImplementsLog, Log!Spec
=============================================================================

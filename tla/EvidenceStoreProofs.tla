------------------------- MODULE EvidenceStoreProofs -------------------------
(***************************************************************************)
(* Theorems about EvidenceStore, for any rules and edges, any number of    *)
(* writers, queries, evidence files, revisions and unwritten records.      *)
(***************************************************************************)
EXTENDS EvidenceStore, TLAPS

\* A changeset names paths at least as deep as the rule patterns that govern the
\* values it touches.  The code does not enforce this; without it evidence can
\* be reported current after the value it was computed from was replaced.
DeepChanges ==
  \A paths \in ChangeSets : \A p \in paths, leaf \in Leaves, rule \in Rules :
    \A pattern \in rule.when :
      PathMatches(pattern, leaf) /\ Touches({p}, leaf) => Len(pattern) <= Len(p)

-----------------------------------------------------------------------------
(* Lemmas about the graph *)

LEMMA DownstreamInNodes ==
  ASSUME NEW seeds
  PROVE  Downstream(seeds) \in SUBSET Nodes
BY DEF Downstream

LEMMA DownstreamMonotone ==
  ASSUME NEW A, NEW B, A \subseteq B
  PROVE  Downstream(A) \subseteq Downstream(B)
BY DEF Downstream

\* What a value's own change would invalidate is invalidated by every changeset
\* that touches the value.
LEMMA TouchInvalidates ==
  ASSUME DeepChanges, NEW paths \in ChangeSets, NEW leaf \in Leaves, Touches(paths, leaf)
  PROVE  Impact({leaf}) \subseteq Impact(paths)
<1>1. PICK p \in paths : Prefix(p, leaf) \/ Prefix(leaf, p)
  BY DEF Touches
<1>2. Len(p) \in Nat /\ Len(leaf) \in Nat
  BY StoreAssumption
<1>3. ASSUME NEW rule \in Rules, NEW pattern \in rule.when, PathMatches(pattern, leaf)
      PROVE  PathMatches(pattern, p)
  <2>1. Len(pattern) \in Nat /\ Len(pattern) <= Len(leaf)
    BY <1>3, StoreAssumption DEF PathMatches
  <2>2. Len(pattern) <= Len(p)
    BY <1>1, <1>3 DEF DeepChanges, Touches
  <2>3. ASSUME NEW i \in 1 .. Len(pattern) PROVE p[i] = leaf[i]
    BY <1>1, <1>2, <2>1, <2>2 DEF Prefix
  <2> QED
    BY <1>3, <2>2, <2>3 DEF PathMatches
<1>4. Direct({leaf}) \subseteq Direct(paths)
  BY <1>3 DEF Direct
<1> QED
  BY <1>4, DownstreamMonotone DEF Impact

-----------------------------------------------------------------------------
(***************************************************************************)
(* The inductive invariant: a record, once written, lists exactly what its *)
(* own revision invalidated, and a query remembers of the records it has   *)
(* examined whether one of them lists its node.                            *)
(***************************************************************************)
RecordsInv ==
  /\ \A r \in Revisions : records[r] # None =>
       r \in 2 .. current /\ records[r] = Impact(changes[r])
  /\ \A w \in Writers : pending[w] # None => pending[w] \in 2 .. current
  /\ \A r \in 2 .. current : changes[r] \in ChangeSets

QueryInv(q) ==
  query[q] # None =>
    LET asked == query[q]
        file == asked.file
    IN /\ asked.upto <= current
       /\ asked.verdict \in {None, "current"} =>
            /\ file.hash = file.revision
            /\ \A r \in file.revision + 1 .. asked.next - 1 :
                 /\ r <= MaxRevision
                 /\ records[r] # None
                 /\ ~asked.stale => file.kind \notin records[r]
       /\ asked.verdict = "current" => asked.next > asked.upto /\ ~asked.stale

EvidenceInv == TypeOK /\ RecordsInv /\ \A q \in Queries : QueryInv(q)

LEMMA InitEvidence == Init => EvidenceInv
<1> SUFFICES ASSUME Init PROVE EvidenceInv
  OBVIOUS
<1>1. current = 1
  BY DEF Init, current
<1>2. TypeOK
  <2>1. changes \in Seq(ChangeSets \cup {{}}) /\ current \in Revisions
    BY <1>1, StoreAssumption DEF Init, Revisions
  <2>2. faults \in 0 .. MaxFaults
    BY StoreAssumption DEF Init
  <2> QED
    BY <2>1, <2>2 DEF Init, TypeOK
<1>3. RecordsInv
  BY <1>1 DEF Init, RecordsInv
<1>4. \A q \in Queries : QueryInv(q)
  BY DEF Init, QueryInv
<1> QED
  BY <1>2, <1>3, <1>4 DEF EvidenceInv

\* The history only grows at its end.
LEMMA CommitKeeps ==
  ASSUME EvidenceInv, NEW w \in Writers, NEW paths \in ChangeSets, Commit(w, paths)
  PROVE  /\ current \in Nat /\ current >= 1 /\ current' = current + 1
         /\ \A r \in 1 .. current : changes'[r] = changes[r]
         /\ changes'[current + 1] = paths
         /\ current' \in Revisions
         /\ changes' \in Seq(ChangeSets \cup {{}})
<1>1. current \in Nat /\ current >= 1 /\ current < MaxRevision
  BY StoreAssumption DEF Commit, EvidenceInv, TypeOK, Revisions
<1> QED
  BY <1>1, StoreAssumption DEF Commit, EvidenceInv, TypeOK, current, Revisions

LEMMA CommitPreserves ==
  ASSUME EvidenceInv, NEW w \in Writers, NEW paths \in ChangeSets, Commit(w, paths)
  PROVE  EvidenceInv'
<1>1. /\ current \in Nat /\ current >= 1 /\ current' = current + 1
      /\ \A r \in 1 .. current : changes'[r] = changes[r]
      /\ changes'[current + 1] = paths
      /\ current' \in Revisions
      /\ changes' \in Seq(ChangeSets \cup {{}})
  BY CommitKeeps
<1>2. /\ pending' = [pending EXCEPT ![w] = current + 1]
      /\ UNCHANGED <<records, evidence, writing, query, faults>>
  BY DEF Commit
<1>3. TypeOK'
  BY <1>1, <1>2 DEF EvidenceInv, TypeOK
<1>4. RecordsInv'
  <2>1. \A r \in Revisions : records'[r] # None =>
          r \in 2 .. current' /\ records'[r] = Impact(changes'[r])
    <3> SUFFICES ASSUME NEW r \in Revisions, records'[r] # None
                 PROVE  r \in 2 .. current' /\ records'[r] = Impact(changes'[r])
      OBVIOUS
    <3>1. r \in 2 .. current /\ records[r] = Impact(changes[r])
      BY <1>2 DEF EvidenceInv, RecordsInv
    <3>2. changes'[r] = changes[r]
      BY <1>1, <3>1
    <3> QED
      BY <1>1, <1>2, <3>1, <3>2
  <2>2. \A v \in Writers : pending'[v] # None => pending'[v] \in 2 .. current'
    BY <1>1, <1>2 DEF EvidenceInv, RecordsInv, TypeOK
  <2>3. \A r \in 2 .. current' : changes'[r] \in ChangeSets
    BY <1>1 DEF EvidenceInv, RecordsInv
  <2> QED
    BY <2>1, <2>2, <2>3 DEF RecordsInv
<1>5. \A q \in Queries : QueryInv(q)'
  <2> SUFFICES ASSUME NEW q \in Queries, query[q] # None PROVE QueryInv(q)'
    BY <1>2 DEF QueryInv
  <2>1. query[q].upto <= current'
    BY <1>1 DEF EvidenceInv, QueryInv, TypeOK, Question, Revisions
  <2> QED
    BY <1>2, <2>1 DEF EvidenceInv, QueryInv
<1> QED
  BY <1>3, <1>4, <1>5 DEF EvidenceInv

LEMMA RecordPreserves ==
  ASSUME EvidenceInv, NEW w \in Writers, RecordInvalidation(w) \/ Abandon(w)
  PROVE  EvidenceInv'
<1>1. /\ pending[w] # None /\ pending' = [pending EXCEPT ![w] = None]
      /\ UNCHANGED <<changes, evidence, writing, query>>
  BY DEF RecordInvalidation, Abandon
<1>2. pending[w] \in 2 .. current /\ pending[w] \in Revisions
  BY <1>1 DEF EvidenceInv, RecordsInv, TypeOK
<1>3. Impact(changes[pending[w]]) \in SUBSET Nodes
  BY DownstreamInNodes DEF Impact
<1>4. \A r \in Revisions :
        \/ records'[r] = records[r]
        \/ /\ r = pending[w] /\ records[r] = None
           /\ records'[r] = Impact(changes[r])
  BY <1>2 DEF RecordInvalidation, Abandon, EvidenceInv, TypeOK
<1>5. TypeOK'
  <2>1. records' \in [Revisions -> (SUBSET Nodes) \cup {None}]
    BY <1>2, <1>3 DEF RecordInvalidation, Abandon, EvidenceInv, TypeOK
  <2>2. faults' \in 0 .. MaxFaults
    BY StoreAssumption DEF RecordInvalidation, Abandon, EvidenceInv, TypeOK
  <2> QED
    BY <1>1, <2>1, <2>2 DEF EvidenceInv, TypeOK, current
<1>6. RecordsInv'
  BY <1>1, <1>2, <1>4 DEF EvidenceInv, RecordsInv, TypeOK, current
<1>7. \A q \in Queries : QueryInv(q)'
  <2> SUFFICES ASSUME NEW q \in Queries, query[q] # None PROVE QueryInv(q)'
    BY <1>1 DEF QueryInv
  <2> DEFINE asked == query[q]
             file == asked.file
  <2>1. asked \in Question /\ file \in Evidence
    BY DEF EvidenceInv, TypeOK, Question
  <2>2. ASSUME asked.verdict \in {None, "current"},
               NEW r \in file.revision + 1 .. asked.next - 1
        PROVE  records'[r] = records[r]
    <3>1. r \in Revisions /\ records[r] # None
      BY <2>1, <2>2, StoreAssumption DEF EvidenceInv, QueryInv, Question, Evidence, Revisions
    <3> QED
      BY <1>4, <3>1
  <2> QED
    BY <1>1, <2>2 DEF EvidenceInv, QueryInv, current
<1> QED
  BY <1>5, <1>6, <1>7 DEF EvidenceInv

\* A step of a producer.
Produce ==
  \/ \E id \in EvidenceIds, file \in Evidence :
       WriteEvidence(id, file) \/ \E p \in Producers : BeginWrite(p, id, file)
  \/ \E p \in Producers : EndWrite(p) \/ GiveUpWrite(p)

LEMMA WritePreserves ==
  ASSUME EvidenceInv, Produce
  PROVE  EvidenceInv'
<1>1. UNCHANGED <<changes, records, pending, query, faults>>
  BY DEF Produce, WriteEvidence, BeginWrite, EndWrite, GiveUpWrite
<1>2. /\ evidence' \in [EvidenceIds -> Evidence \cup {None}]
      /\ writing' \in [Producers -> Writes \cup {None}]
  <2>1. CASE \E id \in EvidenceIds, file \in Evidence : WriteEvidence(id, file)
    BY <2>1 DEF WriteEvidence, EvidenceInv, TypeOK
  <2>2. CASE \E id \in EvidenceIds, file \in Evidence, p \in Producers : BeginWrite(p, id, file)
    BY <2>2 DEF BeginWrite, EvidenceInv, TypeOK, Writes
  <2>3. CASE \E p \in Producers : EndWrite(p) \/ GiveUpWrite(p)
    BY <2>3 DEF EndWrite, GiveUpWrite, EvidenceInv, TypeOK, Writes
  <2> QED
    BY <2>1, <2>2, <2>3 DEF Produce
<1>3. TypeOK' /\ RecordsInv'
  BY <1>1, <1>2 DEF EvidenceInv, TypeOK, RecordsInv, current
<1>4. \A q \in Queries : QueryInv(q)'
  BY <1>1 DEF EvidenceInv, QueryInv, current
<1> QED
  BY <1>3, <1>4 DEF EvidenceInv

LEMMA QueryPreserves ==
  ASSUME EvidenceInv, NEW q \in Queries,
         (\E id \in EvidenceIds : Ask(q, id)) \/ Examine(q) \/ Conclude(q) \/ Dismiss(q)
  PROVE  EvidenceInv'
<1>1. UNCHANGED <<changes, records, evidence, writing, pending, faults>>
  BY DEF Ask, Examine, Conclude, Dismiss
<1>2. \A p \in Queries \ {q} : query'[p] = query[p]
  BY DEF Ask, Examine, Conclude, Dismiss, EvidenceInv, TypeOK
<1>3. RecordsInv'
  BY <1>1 DEF EvidenceInv, RecordsInv, current
<1>4. \A p \in Queries \ {q} : QueryInv(p)'
  BY <1>1, <1>2 DEF EvidenceInv, QueryInv, current
<1>5. query' \in [Queries -> Question \cup {None}] /\ QueryInv(q)'
  <2>1. CASE \E id \in EvidenceIds : Ask(q, id)
    <3>1. PICK id \in EvidenceIds : Ask(q, id)
      BY <2>1
    <3> DEFINE file == evidence[id]
               asked == [file |-> file, upto |-> current, next |-> file.revision + 1,
                         stale |-> FALSE,
                         verdict |-> IF file.hash = file.revision THEN None ELSE "unknown"]
    <3>2. file \in Evidence /\ file # None /\ current \in Revisions
      BY <3>1 DEF Ask, EvidenceInv, TypeOK
    <3>3. query' = [query EXCEPT ![q] = asked]
      BY <3>1 DEF Ask
    <3>4. asked \in Question
      BY <3>2, StoreAssumption DEF Question, Evidence, Revisions, Verdicts
    <3>5. query' \in [Queries -> Question \cup {None}] /\ query'[q] = asked
      BY <3>3, <3>4 DEF EvidenceInv, TypeOK
    <3>6. \A r \in file.revision + 1 .. asked.next - 1 : FALSE
      BY <3>2 DEF Evidence, Revisions
    <3>7. current <= current
      BY <3>2 DEF Revisions
    <3>8. asked.verdict # "current"
      BY QuestionAssumption DEF Verdicts
    <3>9. asked.verdict \in {None, "current"} => file.hash = file.revision
      BY QuestionAssumption DEF Verdicts
    <3> QED
      BY <1>1, <3>2, <3>5, <3>6, <3>7, <3>8, <3>9 DEF QueryInv, current
  <2>2. CASE Examine(q)
    <3> DEFINE asked == query[q]
               file == asked.file
               record == records[asked.next]
               listed == file.kind \in record
    <3>1. /\ asked # None /\ asked.verdict = None /\ asked.next <= asked.upto
          /\ query' = [query EXCEPT ![q] =
               IF record = None THEN [asked EXCEPT !.verdict = "unknown"]
               ELSE [asked EXCEPT !.next = asked.next + 1,
                                  !.stale = IF listed THEN TRUE ELSE @]]
      BY <2>2 DEF Examine, Asking
    <3>2. asked \in Question /\ file \in Evidence
      BY <3>1 DEF EvidenceInv, TypeOK, Question
    <3>3. CASE record = None
      <4>1. query'[q] = [asked EXCEPT !.verdict = "unknown"]
        BY <3>1, <3>3 DEF EvidenceInv, TypeOK
      <4>2. query'[q] \in Question
        BY <3>2, <4>1 DEF Question, Verdicts
      <4>3. query' \in [Queries -> Question \cup {None}]
        BY <3>1, <3>3, <4>1, <4>2 DEF EvidenceInv, TypeOK
      <4>4. "unknown" # None
        BY QuestionAssumption DEF Verdicts
      <4>5. /\ query'[q].verdict = "unknown" /\ query'[q].file = asked.file
            /\ query'[q].upto = asked.upto
        BY <3>2, <4>1 DEF Question
      <4> QED
        BY <1>1, <3>1, <4>3, <4>4, <4>5 DEF EvidenceInv, QueryInv, current
    <3>4. CASE record # None
      <4>1. query'[q] = [asked EXCEPT !.next = asked.next + 1,
                                      !.stale = IF listed THEN TRUE ELSE @]
        BY <3>1, <3>4 DEF EvidenceInv, TypeOK
      <4>2. /\ query'[q].file = asked.file /\ query'[q].upto = asked.upto
            /\ query'[q].next = asked.next + 1 /\ query'[q].verdict = None
            /\ ~query'[q].stale => ~asked.stale /\ ~listed
        <5>1. CASE listed
          <6>1. query'[q] = [asked EXCEPT !.next = asked.next + 1, !.stale = TRUE]
            BY <4>1, <5>1
          <6>2. query'[q].stale = TRUE
            BY <3>2, <6>1 DEF Question
          <6>3. /\ query'[q].file = asked.file /\ query'[q].upto = asked.upto
                /\ query'[q].next = asked.next + 1 /\ query'[q].verdict = asked.verdict
            BY <3>2, <6>1 DEF Question
          <6> QED
            BY <3>1, <6>2, <6>3
        <5>2. CASE ~listed
          <6>1. query'[q] = [asked EXCEPT !.next = asked.next + 1, !.stale = asked.stale]
            BY <4>1, <5>2
          <6>2. query'[q] = [asked EXCEPT !.next = asked.next + 1]
            BY <3>2, <6>1 DEF Question
          <6>3. query'[q].stale = asked.stale
            BY <3>2, <6>2 DEF Question
          <6> QED
            BY <3>1, <3>2, <5>2, <6>2, <6>3 DEF Question
        <5> QED
          BY <5>1, <5>2
      <4>3. asked.next + 1 \in 2 .. MaxRevision + 1
        BY <3>1, <3>2, StoreAssumption DEF Question, Revisions
      <4>4. query'[q] \in Question
        BY <3>2, <4>1, <4>3 DEF Question
      <4>5. query' \in [Queries -> Question \cup {None}]
        BY <3>1, <3>4, <4>1, <4>4 DEF EvidenceInv, TypeOK
      <4>6. ASSUME NEW r \in file.revision + 1 .. asked.next
            PROVE  /\ r <= MaxRevision /\ records[r] # None
                   /\ ~query'[q].stale => file.kind \notin records[r]
        <5>1. CASE r = asked.next
          <6>1. r <= MaxRevision
            BY <3>1, <3>2, <5>1, StoreAssumption DEF Question, Revisions
          <6> QED
            BY <3>4, <4>2, <5>1, <6>1
        <5>2. CASE r \in file.revision + 1 .. asked.next - 1
          BY <3>1, <4>2, <5>2 DEF EvidenceInv, QueryInv
        <5> QED
          BY <3>2, <5>1, <5>2 DEF Question, Evidence, Revisions
      <4>7. query'[q].next - 1 = asked.next
        BY <3>2, <4>2 DEF Question
      <4>8. asked.upto <= current /\ file.hash = file.revision
        BY <3>1 DEF EvidenceInv, QueryInv
      <4>9. None # "current"
        BY QuestionAssumption DEF Verdicts
      <4> QED
        BY <1>1, <4>2, <4>5, <4>6, <4>7, <4>8, <4>9 DEF QueryInv, current
    <3> QED
      BY <3>3, <3>4
  <2>3. CASE Conclude(q)
    <3> DEFINE asked == query[q]
    <3>1. /\ asked # None /\ asked.verdict = None /\ asked.next > asked.upto
          /\ query' = [query EXCEPT ![q] =
               [asked EXCEPT !.verdict = IF asked.stale THEN "stale" ELSE "current"]]
      BY <2>3 DEF Conclude, Asking
    <3>2. asked \in Question
      BY <3>1 DEF EvidenceInv, TypeOK
    <3>3. query'[q] = [asked EXCEPT !.verdict = IF asked.stale THEN "stale" ELSE "current"]
      BY <3>1 DEF EvidenceInv, TypeOK
    <3>4. query'[q] \in Question
      BY <3>2, <3>3 DEF Question, Verdicts
    <3>5. query' \in [Queries -> Question \cup {None}]
      BY <3>1, <3>3, <3>4 DEF EvidenceInv, TypeOK
    <3>6. /\ query'[q].file = asked.file /\ query'[q].upto = asked.upto
          /\ query'[q].next = asked.next /\ query'[q].stale = asked.stale
          /\ query'[q].verdict = IF asked.stale THEN "stale" ELSE "current"
      BY <3>2, <3>3 DEF Question
    <3> QED
      BY <1>1, <3>1, <3>2, <3>5, <3>6 DEF EvidenceInv, QueryInv, Question, current
  <2>4. CASE Dismiss(q)
    BY <2>4 DEF Dismiss, EvidenceInv, TypeOK, QueryInv
  <2> QED
    BY <2>1, <2>2, <2>3, <2>4
<1>6. TypeOK'
  BY <1>1, <1>5 DEF EvidenceInv, TypeOK, current
<1> QED
  BY <1>3, <1>4, <1>5, <1>6 DEF EvidenceInv

LEMMA NextEvidence == EvidenceInv /\ [Next]_vars => EvidenceInv'
<1> SUFFICES ASSUME EvidenceInv, [Next]_vars PROVE EvidenceInv'
  OBVIOUS
<1>1. CASE UNCHANGED vars
  BY <1>1 DEF vars, EvidenceInv, TypeOK, RecordsInv, QueryInv, current
<1>2. CASE Next
  BY <1>2, CommitPreserves, RecordPreserves, WritePreserves, QueryPreserves DEF Next, Produce
<1> QED
  BY <1>1, <1>2

LEMMA EvidenceInvariant == Spec => []EvidenceInv
BY InitEvidence, NextEvidence, PTL DEF Spec

-----------------------------------------------------------------------------
(* What the invariant gives. *)

\* Every variable keeps its type (dependency/storage.py, whole class).
THEOREM EvidenceTyped == Spec => []TypeOK
<1>1. EvidenceInv => TypeOK
  BY DEF EvidenceInv
<1> QED
  BY <1>1, EvidenceInvariant, PTL

\* Evidence reported current really is untouched, provided proposals name paths
\* as deep as the dependency rules (storage.py:88-107, graph.py:79-84).
THEOREM CurrentIsUntouched ==
  ASSUME DeepChanges
  PROVE  Spec => []CurrentMeansUntouched
<1>1. EvidenceInv => CurrentMeansUntouched
  <2> SUFFICES ASSUME EvidenceInv, NEW q \in Queries, query[q] # None,
                      query[q].verdict = "current"
               PROVE  /\ query[q].file.hash = query[q].file.revision
                      /\ \A r \in query[q].file.revision + 1 .. query[q].upto,
                            leaf \in Inputs(query[q].file.kind) :
                           ~ Touches(changes[r], leaf)
    BY DEF CurrentMeansUntouched
  <2> DEFINE asked == query[q]
             file == asked.file
  <2>1. asked \in Question /\ file \in Evidence
    BY DEF EvidenceInv, TypeOK, Question
  <2>2. /\ file.hash = file.revision /\ asked.upto <= current
        /\ asked.next > asked.upto /\ ~asked.stale
    BY DEF EvidenceInv, QueryInv
  <2>3. ASSUME NEW r \in file.revision + 1 .. asked.upto,
               NEW leaf \in Inputs(file.kind), Touches(changes[r], leaf)
        PROVE  FALSE
    <3>1. r \in file.revision + 1 .. asked.next - 1
      BY <2>1, <2>2, <2>3 DEF Question, Evidence, Revisions
    <3>2. r <= MaxRevision /\ records[r] # None /\ file.kind \notin records[r]
      BY <2>2, <3>1 DEF EvidenceInv, QueryInv
    <3>3. r \in Revisions
      BY <2>1, <3>1, <3>2, StoreAssumption DEF Question, Evidence, Revisions
    <3>4. r \in 2 .. current /\ records[r] = Impact(changes[r]) /\ changes[r] \in ChangeSets
      BY <3>2, <3>3 DEF EvidenceInv, RecordsInv
    <3>5. leaf \in Leaves /\ file.kind \in Impact({leaf})
      BY DEF Inputs
    <3> QED
      BY <2>3, <3>2, <3>4, <3>5, TouchInvalidates
  <2> QED
    BY <2>2, <2>3
<1> QED
  BY <1>1, EvidenceInvariant, PTL

\* The record of a revision and the canonical history are written once
\* (storage.py:21-37).
LEMMA WrittenOnce ==
  ASSUME EvidenceInv, [Next]_vars
  PROVE  /\ current \in Nat /\ current' \in Nat /\ current <= current'
         /\ \A r \in Revisions : records[r] # None => records'[r] = records[r]
<1>1. current \in Nat /\ current' \in Nat
  BY NextEvidence DEF EvidenceInv, TypeOK, Revisions
<1>2. current <= current'
  <2>1. CASE changes' = changes
    BY <1>1, <2>1 DEF current
  <2>2. CASE \E w \in Writers, paths \in ChangeSets : Commit(w, paths)
    BY <1>1, <2>2, CommitKeeps
  <2> QED
    BY <2>1, <2>2 DEF Next, RecordInvalidation, Abandon, WriteEvidence, BeginWrite,
                      EndWrite, GiveUpWrite, Ask, Examine, Conclude, Dismiss, vars
<1>3. \A r \in Revisions : records[r] # None => records'[r] = records[r]
  BY DEF Next, Commit, RecordInvalidation, Abandon, WriteEvidence, BeginWrite, EndWrite,
         GiveUpWrite, Ask, Examine, Conclude, Dismiss, vars, EvidenceInv, TypeOK
<1> QED
  BY <1>1, <1>2, <1>3

\* What a file says is not current again once it is stale.
LEMMA StaleFile ==
  ASSUME EvidenceInv, [Next]_vars, NEW file \in Evidence, Freshness(file) = "stale"
  PROVE  Freshness(file)' # "current"
<1>1. PICK r \in file.revision + 1 .. current : records[r] # None /\ file.kind \in records[r]
  BY DEF Freshness
<1>2. r \in Revisions
  BY <1>1, StoreAssumption DEF EvidenceInv, TypeOK, Evidence, Revisions
<1>3. records'[r] = records[r] /\ r \in file.revision + 1 .. current'
  BY <1>1, <1>2, WrittenOnce DEF Evidence, Revisions
<1> QED
  BY <1>1, <1>3 DEF Freshness

\* A file stays, and stays out of reach, when nobody is left who saw none.
LEMMA SettledStays ==
  ASSUME EvidenceInv, [Next]_vars, NEW id \in EvidenceIds, Settled(id)
  PROVE  Settled(id)' /\ evidence'[id] = evidence[id]
<1>1. CASE UNCHANGED <<evidence, writing>>
  BY <1>1 DEF Settled
<1>2. ASSUME NEW other \in EvidenceIds, NEW file \in Evidence, WriteEvidence(other, file)
      PROVE  Settled(id)' /\ evidence'[id] = evidence[id]
  BY <1>2 DEF WriteEvidence, Settled, EvidenceInv, TypeOK
<1>3. ASSUME NEW p \in Producers, NEW other \in EvidenceIds, NEW file \in Evidence,
             BeginWrite(p, other, file)
      PROVE  Settled(id)' /\ evidence'[id] = evidence[id]
  <2>1. other # id /\ evidence' = evidence
    BY <1>3 DEF BeginWrite, Settled
  <2>2. writing'[p].id = other /\ \A o \in Producers \ {p} : writing'[o] = writing[o]
    BY <1>3 DEF BeginWrite, EvidenceInv, TypeOK
  <2> QED
    BY <2>1, <2>2 DEF Settled
<1>4. ASSUME NEW p \in Producers, EndWrite(p) \/ GiveUpWrite(p)
      PROVE  Settled(id)' /\ evidence'[id] = evidence[id]
  <2>1. writing[p].id # id
    BY <1>4 DEF EndWrite, GiveUpWrite, Settled
  <2>2. evidence'[id] = evidence[id]
    BY <1>4, <2>1 DEF EndWrite, GiveUpWrite, EvidenceInv, TypeOK
  <2>3. \A o \in Producers : writing'[o] # None => writing'[o] = writing[o]
    BY <1>4 DEF EndWrite, GiveUpWrite, EvidenceInv, TypeOK
  <2> QED
    BY <2>2, <2>3 DEF Settled
<1> QED
  BY <1>1, <1>2, <1>3, <1>4
     DEF Next, Commit, RecordInvalidation, Abandon, Ask, Examine, Conclude, Dismiss, vars

\* What a file says is never current again once it is stale, and its id is not given
\* a fresh file by any producer that began when it was there (storage.py:21-37, 88-107).
THEOREM StaleStaysStale == Spec => StaleForever
<1>1. EvidenceInv /\ [Next]_vars =>
        /\ \A file \in Evidence : Freshness(file) = "stale" => Freshness(file)' # "current"
        /\ \A id \in EvidenceIds :
             Settled(id) /\ Freshness(evidence[id]) = "stale"
               => Settled(id)' /\ Freshness(evidence[id])' # "current"
  <2> SUFFICES ASSUME EvidenceInv, [Next]_vars
               PROVE  /\ \A file \in Evidence :
                           Freshness(file) = "stale" => Freshness(file)' # "current"
                      /\ \A id \in EvidenceIds :
                           Settled(id) /\ Freshness(evidence[id]) = "stale"
                             => Settled(id)' /\ Freshness(evidence[id])' # "current"
    OBVIOUS
  <2>1. ASSUME NEW file \in Evidence, Freshness(file) = "stale"
        PROVE  Freshness(file)' # "current"
    BY <2>1, StaleFile
  <2>2. ASSUME NEW id \in EvidenceIds, Settled(id), Freshness(evidence[id]) = "stale"
        PROVE  Settled(id)' /\ Freshness(evidence[id])' # "current"
    <3>1. Settled(id)' /\ evidence'[id] = evidence[id]
      BY <2>2, SettledStays
    <3>2. PICK file \in Evidence : evidence[id] = file /\ evidence'[id] = file
      BY <2>2, <3>1 DEF Settled, EvidenceInv, TypeOK
    <3>3. Freshness(file)' # "current"
      BY <2>2, <3>2, StaleFile
    <3>4. Freshness(evidence[id])' = Freshness(file)'
      BY <3>2 DEF Freshness
    <3> QED
      BY <3>1, <3>3, <3>4
  <2> QED
    BY <2>1, <2>2
<1> QED
  BY <1>1, EvidenceInvariant, PTL DEF Spec, StaleForever

\* A missing record is never written by another call (storage.py:52-54).
THEOREM GapsStayOpen == Spec => GapForever
<1>1. EvidenceInv /\ [Next]_vars => \A r \in Revisions : Gap(r) => Gap(r)'
  <2> SUFFICES ASSUME EvidenceInv, [Next]_vars, NEW r \in Revisions, Gap(r) PROVE Gap(r)'
    OBVIOUS
  <2>1. r \in 2 .. current /\ r \in 2 .. current'
    BY WrittenOnce DEF Gap, Revisions
  <2>2. CASE \E w \in Writers, paths \in ChangeSets : Commit(w, paths)
    <3>1. PICK w \in Writers, paths \in ChangeSets : Commit(w, paths)
      BY <2>2
    <3>2. \A v \in Writers : pending'[v] = pending[v] \/ pending'[v] = current + 1
      BY <3>1 DEF Commit, EvidenceInv, TypeOK
    <3>3. r # current + 1
      BY <2>1, WrittenOnce
    <3> QED
      BY <2>1, <3>1, <3>2, <3>3 DEF Gap, Commit
  <2>3. CASE \E w \in Writers : RecordInvalidation(w) \/ Abandon(w)
    <3>1. PICK w \in Writers : RecordInvalidation(w) \/ Abandon(w)
      BY <2>3
    <3>2. records'[r] = records[r]
      BY <3>1 DEF RecordInvalidation, Abandon, Gap, EvidenceInv, TypeOK
    <3>3. \A v \in Writers : pending'[v] \in {pending[v], None}
      BY <3>1 DEF RecordInvalidation, Abandon, EvidenceInv, TypeOK
    <3>4. r # None
      BY StoreAssumption DEF Revisions
    <3> QED
      BY <2>1, <3>2, <3>3, <3>4 DEF Gap
  <2>4. CASE UNCHANGED <<changes, records, pending>>
    BY <2>1, <2>4 DEF Gap
  <2> QED
    BY <2>2, <2>3, <2>4 DEF Next, WriteEvidence, BeginWrite, EndWrite, GiveUpWrite, Ask,
                            Examine, Conclude, Dismiss, vars
<1> QED
  BY <1>1, EvidenceInvariant, PTL DEF Spec, GapForever
=============================================================================

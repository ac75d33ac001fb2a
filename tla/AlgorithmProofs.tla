--------------------------- MODULE AlgorithmProofs ---------------------------
(***************************************************************************)
(* What the algorithms compute, for any input: the searches of the         *)
(* dependency graph, for any nodes and edges, and the proofs of clearance, *)
(* for any mechanism, path, fineness, depth, width and budget and any      *)
(* distances that the reach bounds admit.                                  *)
(***************************************************************************)
EXTENDS DependencySearch, ContinuousClearance,
        SequenceTheorems, NaturalsInduction, WellFoundedInduction, TLAPS

-----------------------------------------------------------------------------
(* The searches *)

Frames == [node : Names \union {Caller}, targets : SUBSET Names]

RingIn(nodes) ==
  \E ring \in SUBSET nodes :
    ring # {} /\ \A n \in ring : \E m \in ring : [source |-> n, target |-> m] \in edges

\* What holds of a stack s of depth d: the loop is below all calls.
Sound(s, d) ==
  /\ s[1].node = Caller
  /\ \A i \in 2..d : s[i].node \in Names /\ s[i].targets \subseteq Targets(s[i].node)

\* Of that of _check_cycles: the nodes at work are the path of the calls, each with a
\* single call; what is finished is closed and without a ring; and what a call does not
\* have to go through any more is finished or its next call.
Checked(s, d, working, finished) ==
  /\ working = {s[i].node : i \in 2..d}
  /\ \A i, j \in 2..d : s[i].node = s[j].node => i = j
  /\ finished \subseteq Names /\ finished \intersect working = {}
  /\ \A n \in finished : Targets(n) \subseteq finished
  /\ ~RingIn(finished)
  /\ \A i \in 2..d : \A m \in Targets(s[i].node) :
       m \in finished \/ m \in s[i].targets \/ (i < d /\ m = s[i + 1].node)
  /\ \A i \in 2..d : i < d => s[i + 1].node \in Targets(s[i].node)
  /\ \A m \in Names : m \in finished \/ m \in s[1].targets \/ (1 < d /\ m = s[2].node)

\* Of that of _transitive: the result leads out of itself only by way of targets that
\* some call has still to go through, and neither leaves what is downstream.
Collected(s, d, start, found, downstream) ==
  /\ \A m \in start : m \in found \/ m \in s[1].targets
  /\ \A i \in 2..d : s[i].node \in found
  /\ \A n \in found : \A m \in Targets(n) :
       m \in found \/ \E i \in 2..d : s[i].node = n /\ m \in s[i].targets
  /\ found \subseteq downstream
  /\ \A i \in 1..d : s[i].targets \subseteq downstream

StackInv ==
  /\ edges \subseteq [source : Names, target : Names]
  /\ visited \subseteq Names /\ seeds \subseteq Names /\ result \subseteq Names
  /\ stack \in Seq(Frames)
  /\ phase \in {"checking", "searching"} => Depth >= 1 /\ Sound(stack, Depth)

CheckInv ==
  /\ phase = "configuring" => visiting = {} /\ visited = {}
  /\ phase = "checking" => Checked(stack, Depth, visiting, visited)

ImpactInv ==
  phase = "searching" => Collected(stack, Depth, seeds, result, Graph!Downstream(seeds))

(***************************************************************************)
(* The inductive invariant of the searches.                                *)
(***************************************************************************)
SearchInv == StackInv /\ CheckInv /\ ImpactInv /\ SearchesAreRight


LEMMA SomeForemost ==
  ASSUME NEW nodes \in SUBSET Names, nodes # {}
  PROVE  Foremost(nodes) \in nodes
<1>1. Rank \in [Names -> Nat]
  BY NamesAssumption
<1>2. PICK S : S = {Rank[n] : n \in nodes}
  OBVIOUS
<1>3. S \subseteq Nat /\ S # {}
  BY <1>1, <1>2
<1>4. IsWellFoundedOn(OpToRel(<, Nat), Nat)
  BY NatLessThanWellFounded
<1>5. PICK r \in S : \A q \in S : <<q, r>> \notin OpToRel(<, Nat)
  BY <1>3, <1>4, WFMin
<1>6. \A q \in S : r <= q
  <2>1. \A q \in S : ~(q < r)
    BY <1>3, <1>5 DEF OpToRel
  <2> QED BY <1>3, <2>1
<1>7. PICK n \in nodes : r = Rank[n]
  BY <1>2
<1>8. \A m \in nodes : Rank[n] <= Rank[m]
  BY <1>2, <1>6, <1>7
<1> QED BY <1>8 DEF Foremost

\* What becomes of a stack.
LEMMA Replaced ==
  ASSUME NEW F, NEW s \in Seq(F), NEW d \in 1..Len(s), NEW f \in F
  PROVE  /\ [s EXCEPT ![d] = f] \in Seq(F) /\ Len([s EXCEPT ![d] = f]) = Len(s)
         /\ \A i \in 1..Len(s) : i # d => [s EXCEPT ![d] = f][i] = s[i]
         /\ [s EXCEPT ![d] = f][d] = f
  OBVIOUS

\* A frame has one target less.
Less(s, t, d, c) ==
  /\ t \in Seq(Frames) /\ Len(t) = Len(s)
  /\ \A i \in 1..Len(s) : i # d => t[i] = s[i]
  /\ t[d].node = s[d].node /\ t[d].targets = s[d].targets \ {c}

LEMMA Returned ==
  ASSUME NEW s \in Seq(Frames), NEW d \in 1..Len(s), NEW c
  PROVE  Less(s, [s EXCEPT ![d].targets = @ \ {c}], d, c)
<1>1. s[d] \in Frames
  OBVIOUS
<1>2. PICK f : f = [s[d] EXCEPT !.targets = @ \ {c}]
  OBVIOUS
<1>3. f \in Frames /\ f.node = s[d].node /\ f.targets = s[d].targets \ {c}
  BY <1>1, <1>2 DEF Frames
<1>4. PICK t : t = [s EXCEPT ![d] = f]
  OBVIOUS
<1>5. /\ t \in Seq(Frames) /\ Len(t) = Len(s) /\ t[d] = f
      /\ \A i \in 1..Len(s) : i # d => t[i] = s[i]
  <2>1. PICK F : F = Frames
    OBVIOUS
  <2> QED BY <1>3, <1>4, <2>1, Replaced
<1>6. t = [s EXCEPT ![d].targets = @ \ {c}]
  BY <1>2, <1>4
<1>7. Less(s, t, d, c)
  BY <1>3, <1>5 DEF Less
<1> QED BY <1>6, <1>7

LEMMA Entered ==
  ASSUME NEW F, NEW s \in Seq(F), NEW f \in F
  PROVE  /\ Append(s, f) \in Seq(F) /\ Len(Append(s, f)) = Len(s) + 1
         /\ Append(s, f)[Len(s) + 1] = f
         /\ \A i \in 1..Len(s) : Append(s, f)[i] = s[i]
  OBVIOUS

LEMMA Left ==
  ASSUME NEW F, NEW s \in Seq(F), Len(s) >= 1
  PROVE  /\ SubSeq(s, 1, Len(s) - 1) \in Seq(F) /\ Len(SubSeq(s, 1, Len(s) - 1)) = Len(s) - 1
         /\ \A i \in 1..(Len(s) - 1) : SubSeq(s, 1, Len(s) - 1)[i] = s[i]
<1>1. PICK n \in Nat : n = Len(s) /\ n >= 1
  OBVIOUS
<1>2. /\ SubSeq(s, 1, n - 1) \in Seq(F) /\ Len(SubSeq(s, 1, n - 1)) = n - 1
      /\ \A i \in 1..(n - 1) : SubSeq(s, 1, n - 1)[i] = s[1 + i - 1]
  BY <1>1, SubSeqProperties
<1>3. \A i \in 1..(n - 1) : 1 + i - 1 = i
  OBVIOUS
<1> QED BY <1>1, <1>2, <1>3

\* The stack before and after a call that returns at once, one that is entered, and the
\* end of one.
Returns(s, t, d, c) ==
  /\ d \in Nat /\ d >= 1 /\ Len(s) = d /\ c \in s[d].targets /\ c \in Names
  /\ t \in Seq(Frames) /\ Len(t) = d
  /\ \A i \in 1..d : i # d => t[i] = s[i]
  /\ t[d].node = s[d].node /\ t[d].targets = s[d].targets \ {c}
Enters(s, t, d, c) ==
  /\ d \in Nat /\ d >= 1 /\ Len(s) = d /\ c \in s[d].targets /\ c \in Names
  /\ t \in Seq(Frames) /\ Len(t) = d + 1
  /\ \A i \in 1..d : i # d => t[i] = s[i]
  /\ t[d].node = s[d].node /\ t[d].targets = s[d].targets \ {c}
  /\ t[d + 1].node = c /\ t[d + 1].targets = Targets(c)
Ends(s, t, d) ==
  /\ d \in Nat /\ d >= 2 /\ Len(s) = d
  /\ t \in Seq(Frames) /\ Len(t) = d - 1
  /\ \A i \in 1..(d - 1) : t[i] = s[i]
  /\ s[d].targets = {} /\ s[d].node \in Names

LEMMA StackSteps ==
  ASSUME StackInv, phase \in {"checking", "searching"}
  PROVE  /\ Calling /\ Return => Returns(stack, stack', Depth, Called)
         /\ Calling /\ Enter => Enters(stack, stack', Depth, Called)
         /\ Over /\ Leave => Ends(stack, stack', Depth)
<1>1. stack \in Seq(Frames) /\ Depth \in Nat /\ Depth >= 1 /\ stack[Depth] \in Frames
  BY DEF StackInv, Depth
<1>2. Calling => Called \in stack[Depth].targets /\ Called \in Names
  <2>1. stack[Depth].targets \in SUBSET Names
    BY <1>1 DEF Frames
  <2> QED BY <2>1, SomeForemost DEF Calling, Called, Top
<1>3. ASSUME Calling
      PROVE  /\ Advanced \in Seq(Frames) /\ Len(Advanced) = Depth
             /\ \A i \in 1..Depth : i # Depth => Advanced[i] = stack[i]
             /\ Advanced[Depth].node = stack[Depth].node
             /\ Advanced[Depth].targets = stack[Depth].targets \ {Called}
  <2>1. PICK s, d, c : s \in Seq(Frames) /\ s = stack /\ d = Depth /\ c = Called
    BY <1>1
  <2>2. d \in 1..Len(s)
    BY <1>1, <2>1 DEF Depth
  <2>3. Less(s, [s EXCEPT ![d].targets = @ \ {c}], d, c)
    BY <2>1, <2>2, Returned
  <2>4. Advanced = [s EXCEPT ![d].targets = @ \ {c}]
    BY <2>1 DEF Advanced
  <2>5. Less(stack, Advanced, Depth, Called)
    BY <2>1, <2>3, <2>4
  <2> QED BY <2>5 DEF Less, Depth
<1>4. ASSUME Calling, Return
      PROVE  Returns(stack, stack', Depth, Called)
  BY <1>1, <1>2, <1>3, <1>4 DEF Return, Returns, Depth
<1>5. ASSUME Calling, Enter
      PROVE  Enters(stack, stack', Depth, Called)
  <2>1. PICK t, f : t = Advanced /\ f = Frame(Called, Targets(Called))
    OBVIOUS
  <2>2. f \in Frames /\ f.node = Called /\ f.targets = Targets(Called)
    BY <1>2, <1>5, <2>1 DEF Frame, Frames, Targets
  <2>3. t \in Seq(Frames) /\ Len(t) = Depth
    BY <1>3, <1>5, <2>1
  <2>4. PICK u : u = Append(t, f)
    OBVIOUS
  <2>5. /\ u \in Seq(Frames) /\ Len(u) = Depth + 1 /\ u[Depth + 1] = f
        /\ \A i \in 1..Depth : u[i] = t[i]
    <3>1. PICK F, d : F = Frames /\ d = Depth
      OBVIOUS
    <3>2. t \in Seq(F) /\ f \in F /\ Len(t) = d
      BY <2>2, <2>3, <3>1
    <3>3. u \in Seq(F) /\ Len(u) = d + 1 /\ u[d + 1] = f /\ \A i \in 1..d : u[i] = t[i]
      BY <2>4, <3>2, Entered
    <3> QED BY <3>1, <3>3
  <2>6. stack' = u
    BY <1>5, <2>1, <2>4 DEF Enter
  <2>7. Depth \in 1..Depth
    BY <1>1
  <2>8. /\ \A i \in 1..Depth : i # Depth => u[i] = stack[i]
        /\ u[Depth].node = stack[Depth].node
        /\ u[Depth].targets = stack[Depth].targets \ {Called}
    BY <1>3, <1>5, <2>1, <2>5, <2>7
  <2> QED BY <1>1, <1>2, <1>5, <2>2, <2>5, <2>6, <2>8 DEF Enters, Depth
<1>6. ASSUME Over, Leave
      PROVE  Ends(stack, stack', Depth)
  <2>1. PICK t : t = SubSeq(stack, 1, Len(stack) - 1)
    OBVIOUS
  <2>2. /\ t \in Seq(Frames) /\ Len(t) = Depth - 1
        /\ \A i \in 1..(Depth - 1) : t[i] = stack[i]
    <3>1. PICK F : F = Frames
      OBVIOUS
    <3>2. stack \in Seq(F) /\ Len(stack) >= 1
      BY <1>1, <3>1 DEF Depth
    <3> QED BY <2>1, <3>1, <3>2, Left DEF Depth
  <2>3. stack' = t
    BY <1>6, <2>1 DEF Leave, Depth
  <2>4. stack[Depth].targets = {} /\ stack[Depth].node # Caller
    BY <1>6 DEF Over, Top
  <2>5. Depth >= 2 /\ stack[Depth].node \in Names
    BY <1>1, <2>4 DEF StackInv, Sound
  <2> QED BY <1>1, <2>2, <2>3, <2>4, <2>5 DEF Ends, Depth
<1> QED BY <1>4, <1>5, <1>6

\* What is downstream of some nodes.
LEMMA AllAreNodes ==
  ASSUME edges \subseteq [source : Names, target : Names]
  PROVE  Graph!Nodes = Names
<1>1. \A e \in edges : e.source \in Names /\ e.target \in Names
  OBVIOUS
<1>2. UNION {rule.invalidates : rule \in {[when |-> {}, invalidates |-> Names]}} = Names
  OBVIOUS
<1>3. ASSUME NEW n \in Graph!Nodes PROVE n \in Names
  BY <1>1, <1>3 DEF Graph!Nodes
<1>4. ASSUME NEW n \in Names PROVE n \in Graph!Nodes
  BY <1>2 DEF Graph!Nodes
<1> QED BY <1>3, <1>4

LEMMA DownstreamIsClosed ==
  ASSUME edges \subseteq [source : Names, target : Names], NEW s \in SUBSET Names
  PROVE  /\ s \subseteq Graph!Downstream(s) /\ Graph!Downstream(s) \subseteq Names
         /\ \A n \in Graph!Downstream(s) : Targets(n) \subseteq Graph!Downstream(s)
<1>1. Graph!Nodes = Names
  BY AllAreNodes
<1>2. Graph!Downstream(s) \subseteq Names /\ s \subseteq Graph!Downstream(s)
  BY <1>1 DEF Graph!Downstream
<1>3. ASSUME NEW n \in Graph!Downstream(s), NEW m \in Targets(n)
      PROVE  m \in Graph!Downstream(s)
  <2>1. m \in Names /\ [source |-> n, target |-> m] \in edges
    BY DEF Targets
  <2>2. ASSUME NEW closed \in SUBSET Names, s \subseteq closed, Graph!Closed(closed)
        PROVE  m \in closed
    <3>1. n \in closed
      BY <1>1, <2>2 DEF Graph!Downstream
    <3> QED BY <2>1, <2>2, <3>1 DEF Graph!Closed
  <2> QED BY <1>1, <2>1, <2>2 DEF Graph!Downstream
<1> QED BY <1>2, <1>3

LEMMA DownstreamIsLeast ==
  ASSUME edges \subseteq [source : Names, target : Names],
         NEW r \in SUBSET Names, NEW s \in SUBSET r, \A n \in r : Targets(n) \subseteq r
  PROVE  Graph!Downstream(s) \subseteq r
<1>1. Graph!Nodes = Names
  BY AllAreNodes
<1>2. Graph!Closed(r)
  <2>1. ASSUME NEW e \in edges, e.source \in r
        PROVE  e.target \in r
    <3>1. e = [source |-> e.source, target |-> e.target] /\ e.target \in Names
      BY <2>1
    <3>2. e.target \in Targets(e.source)
      BY <3>1 DEF Targets
    <3> QED BY <2>1, <3>2
  <2> QED BY <2>1 DEF Graph!Closed
<1> QED BY <1>1, <1>2 DEF Graph!Downstream

\* A ring in nodes that all lead to nodes of theirs cannot come with one more node.
LEMMA NoRingWithOneMore ==
  ASSUME NEW nodes, nodes \subseteq Names, \A n \in nodes : Targets(n) \subseteq nodes,
         ~RingIn(nodes), NEW c \in Names, c \notin nodes, Targets(c) \subseteq nodes
  PROVE  ~RingIn(nodes \union {c})
<1> SUFFICES ASSUME NEW ring \in SUBSET (nodes \union {c}), ring # {},
                    \A n \in ring : \E m \in ring : [source |-> n, target |-> m] \in edges
             PROVE  FALSE
  BY DEF RingIn
<1>1. \A n \in nodes \union {c} : \A m \in nodes \union {c} :
        [source |-> n, target |-> m] \in edges => m \in nodes
  BY DEF Targets
<1>2. ring \ {c} \in SUBSET nodes
  OBVIOUS
<1>3. \A n \in ring : \E m \in ring \ {c} : [source |-> n, target |-> m] \in edges
  BY <1>1
<1>4. ring \ {c} # {}
  BY <1>3
<1> QED BY <1>2, <1>3, <1>4 DEF RingIn

LEMMA CheckReturns ==
  ASSUME NEW s, NEW t, NEW d, NEW c, NEW working, NEW finished,
         Returns(s, t, d, c), Checked(s, d, working, finished), c \in finished
  PROVE  Checked(t, d, working, finished)
<1>1. \A i \in 1..d : t[i].node = s[i].node
  BY DEF Returns
<1>2. \A i \in 1..d : \A m \in s[i].targets : m \in t[i].targets \/ m \in finished
  BY DEF Returns
<1>3. d \in Nat /\ d >= 1
  BY DEF Returns
<1>4. working = {t[i].node : i \in 2..d}
  <2>1. \A i \in 2..d : t[i].node = s[i].node
    BY <1>1, <1>3
  <2> QED BY <2>1 DEF Checked
<1>5. \A i, j \in 2..d : t[i].node = t[j].node => i = j
  BY <1>1, <1>3 DEF Checked
<1>6. \A i \in 2..d : \A m \in Targets(t[i].node) :
        m \in finished \/ m \in t[i].targets \/ (i < d /\ m = t[i + 1].node)
  BY <1>1, <1>2, <1>3 DEF Checked
<1>7. \A i \in 2..d : i < d => t[i + 1].node \in Targets(t[i].node)
  BY <1>1, <1>3 DEF Checked
<1>8. \A m \in Names : m \in finished \/ m \in t[1].targets \/ (1 < d /\ m = t[2].node)
  BY <1>1, <1>2, <1>3 DEF Checked
<1> QED BY <1>4, <1>5, <1>6, <1>7, <1>8 DEF Checked

LEMMA CheckEnters ==
  ASSUME NEW s, NEW t, NEW d, NEW c, NEW working, NEW finished,
         Enters(s, t, d, c), Sound(s, d), Checked(s, d, working, finished),
         c \notin working \union finished
  PROVE  Checked(t, d + 1, working \union {c}, finished)
<1>1. \A i \in 1..d : t[i].node = s[i].node
  BY DEF Enters
<1>2. \A i \in 1..d : \A m \in s[i].targets : m \in t[i].targets \/ (i = d /\ m = t[d + 1].node)
  BY DEF Enters
<1>3. /\ d \in Nat /\ d >= 1 /\ c \in Names /\ c \in s[d].targets
      /\ t[d + 1].node = c /\ t[d + 1].targets = Targets(c)
  BY DEF Enters
<1>4. working \union {c} = {t[i].node : i \in 2..(d + 1)}
  <2>1. \A i \in 2..d : t[i].node = s[i].node
    BY <1>1, <1>3
  <2>2. working = {t[i].node : i \in 2..d}
    BY <2>1 DEF Checked
  <2>3. 2..(d + 1) = (2..d) \union {d + 1}
    BY <1>3
  <2> QED BY <1>3, <2>2, <2>3
<1>5. \A i, j \in 2..(d + 1) : t[i].node = t[j].node => i = j
  <2>1. \A i \in 2..d : t[i].node \in working
    BY <1>1, <1>3 DEF Checked
  <2>2. \A i \in 2..d : t[i].node # c
    BY <2>1
  <2> QED BY <1>1, <1>3, <2>2 DEF Checked
<1>6. \A i \in 2..(d + 1) : \A m \in Targets(t[i].node) :
        m \in finished \/ m \in t[i].targets \/ (i < d + 1 /\ m = t[i + 1].node)
  BY <1>1, <1>2, <1>3 DEF Checked
<1>7. \A i \in 2..(d + 1) : i < d + 1 => t[i + 1].node \in Targets(t[i].node)
  BY <1>1, <1>3 DEF Checked, Sound
<1>8. \A m \in Names : m \in finished \/ m \in t[1].targets \/ (1 < d + 1 /\ m = t[2].node)
  BY <1>1, <1>2, <1>3 DEF Checked
<1>9. finished \intersect (working \union {c}) = {}
  BY DEF Checked
<1> QED BY <1>4, <1>5, <1>6, <1>7, <1>8, <1>9 DEF Checked

LEMMA CheckLeaves ==
  ASSUME NEW s, NEW t, NEW d, NEW n, NEW working, NEW finished,
         Ends(s, t, d), n = s[d].node, Checked(s, d, working, finished)
  PROVE  Checked(t, d - 1, working \ {n}, finished \union {n})
<1>1. \A i \in 1..(d - 1) : t[i] = s[i]
  BY DEF Ends
<1>2. d \in Nat /\ d >= 2 /\ s[d].targets = {} /\ n \in Names
  BY DEF Ends
<1>3. Targets(n) \subseteq finished
  BY <1>2 DEF Checked
<1>4. \A i \in 2..(d - 1) : s[i].node # n
  BY <1>2 DEF Checked
<1>5. n \in working
  BY <1>2 DEF Checked
<1>6. working \ {n} = {t[i].node : i \in 2..(d - 1)}
  <2>1. working = {s[i].node : i \in 2..d}
    BY DEF Checked
  <2>2. 2..d = (2..(d - 1)) \union {d}
    BY <1>2
  <2>3. working = {s[i].node : i \in 2..(d - 1)} \union {n}
    BY <2>1, <2>2
  <2>4. working \ {n} = {s[i].node : i \in 2..(d - 1)}
    BY <1>4, <2>3
  <2>5. \A i \in 2..(d - 1) : t[i].node = s[i].node
    BY <1>1, <1>2
  <2> QED BY <2>4, <2>5
<1>7. \A i, j \in 2..(d - 1) : t[i].node = t[j].node => i = j
  BY <1>1, <1>2 DEF Checked
<1>8. /\ finished \union {n} \subseteq Names
      /\ (finished \union {n}) \intersect (working \ {n}) = {}
      /\ \A m \in finished \union {n} : Targets(m) \subseteq finished \union {n}
  BY <1>2, <1>3 DEF Checked
<1>9. ~RingIn(finished \union {n})
  <2>1. n \notin finished
    BY <1>5 DEF Checked
  <2>2. /\ \A m \in finished : Targets(m) \subseteq finished
        /\ ~RingIn(finished) /\ finished \subseteq Names
    BY DEF Checked
  <2> QED BY <1>2, <1>3, <2>1, <2>2, NoRingWithOneMore
<1>10. \A i \in 2..(d - 1) : \A m \in Targets(t[i].node) :
         m \in finished \union {n} \/ m \in t[i].targets \/ (i < d - 1 /\ m = t[i + 1].node)
  BY <1>1, <1>2 DEF Checked
<1>11. \A i \in 2..(d - 1) : i < d - 1 => t[i + 1].node \in Targets(t[i].node)
  BY <1>1, <1>2 DEF Checked
<1>12. \A m \in Names :
         m \in finished \union {n} \/ m \in t[1].targets \/ (1 < d - 1 /\ m = t[2].node)
  BY <1>1, <1>2 DEF Checked
<1> QED BY <1>6, <1>7, <1>8, <1>9, <1>10, <1>11, <1>12 DEF Checked

\* A call of a node at work closes a ring.
LEMMA RaisedIsCircular ==
  ASSUME NEW s, NEW d \in Nat, NEW c, NEW working, NEW finished,
         Sound(s, d), Checked(s, d, working, finished), d >= 1,
         c \in working, c \in s[d].targets
  PROVE  Circular
<1>1. PICK k \in 2..d : s[k].node = c
  BY DEF Checked
<1>2. PICK ring : ring = {s[i].node : i \in k..d}
  OBVIOUS
<1>3. \A i \in k..d : i \in 2..d
  OBVIOUS
<1>4. ring \in SUBSET Names
  BY <1>2, <1>3 DEF Sound
<1>5. c \in ring
  BY <1>1, <1>2
<1>6. ASSUME NEW n \in ring
      PROVE  \E m \in ring : [source |-> n, target |-> m] \in edges
  <2>1. PICK i \in k..d : n = s[i].node
    BY <1>2
  <2>2. CASE i < d
    <3>1. i + 1 \in k..d /\ s[i + 1].node \in Targets(n)
      BY <1>3, <2>1, <2>2 DEF Checked
    <3> QED BY <1>2, <3>1 DEF Targets
  <2>3. CASE i = d
    <3>1. c \in Targets(n)
      BY <1>3, <2>1, <2>3 DEF Sound
    <3> QED BY <1>5, <3>1 DEF Targets
  <2> QED BY <2>1, <2>2, <2>3
<1> QED BY <1>4, <1>5, <1>6 DEF Circular

LEMMA SearchReturns ==
  ASSUME NEW s, NEW t, NEW d, NEW c, NEW start, NEW found, NEW all,
         Returns(s, t, d, c), Collected(s, d, start, found, all), c \in found
  PROVE  Collected(t, d, start, found, all)
<1>1. \A i \in 1..d : t[i].node = s[i].node /\ t[i].targets \subseteq s[i].targets
  BY DEF Returns
<1>2. \A i \in 1..d : \A m \in s[i].targets : m \in t[i].targets \/ m \in found
  BY DEF Returns
<1>3. d \in Nat /\ d >= 1
  BY DEF Returns
<1>4. \A m \in start : m \in found \/ m \in t[1].targets
  BY <1>1, <1>2, <1>3 DEF Collected
<1>5. \A i \in 2..d : t[i].node \in found
  BY <1>1, <1>3 DEF Collected
<1>6. ASSUME NEW n \in found, NEW m \in Targets(n), m \notin found
      PROVE  \E i \in 2..d : t[i].node = n /\ m \in t[i].targets
  <2>1. PICK i \in 2..d : s[i].node = n /\ m \in s[i].targets
    BY <1>6 DEF Collected
  <2>2. i \in 1..d
    BY <1>3
  <2> QED BY <1>1, <1>2, <1>6, <2>1, <2>2
<1>7. found \subseteq all /\ \A i \in 1..d : t[i].targets \subseteq all
  BY <1>1 DEF Collected
<1> QED BY <1>4, <1>5, <1>6, <1>7 DEF Collected

LEMMA SearchEnters ==
  ASSUME NEW s, NEW t, NEW d, NEW c, NEW start, NEW found, NEW all,
         Enters(s, t, d, c), Collected(s, d, start, found, all),
         \A n \in all : Targets(n) \subseteq all
  PROVE  Collected(t, d + 1, start, found \union {c}, all)
<1>1. \A i \in 1..d : t[i].node = s[i].node /\ t[i].targets \subseteq s[i].targets
  BY DEF Enters
<1>2. \A i \in 1..d : \A m \in s[i].targets : m \in t[i].targets \/ m = c
  BY DEF Enters
<1>3. /\ d \in Nat /\ d >= 1 /\ c \in s[d].targets
      /\ t[d + 1].node = c /\ t[d + 1].targets = Targets(c)
  BY DEF Enters
<1>4. \A m \in start : m \in found \union {c} \/ m \in t[1].targets
  <2>1. \A m \in start : m \in found \/ m \in s[1].targets
    BY DEF Collected
  <2> QED BY <1>2, <1>3, <2>1
<1>5. \A i \in 2..(d + 1) : t[i].node \in found \union {c}
  BY <1>1, <1>3 DEF Collected
<1>6. ASSUME NEW n \in found \union {c}, NEW m \in Targets(n), m \notin found \union {c}
      PROVE  \E i \in 2..(d + 1) : t[i].node = n /\ m \in t[i].targets
  <2>1. CASE n = c
    <3>1. d + 1 \in 2..(d + 1)
      BY <1>3
    <3> QED BY <1>3, <1>6, <2>1, <3>1
  <2>2. CASE n # c
    <3>1. PICK i \in 2..d : s[i].node = n /\ m \in s[i].targets
      BY <1>6, <2>2 DEF Collected
    <3>2. i \in 1..d /\ i \in 2..(d + 1)
      BY <1>3
    <3> QED BY <1>1, <1>2, <1>6, <3>1, <3>2
  <2> QED BY <2>1, <2>2
<1>7. found \union {c} \subseteq all /\ \A i \in 1..(d + 1) : t[i].targets \subseteq all
  <2>1. d \in 1..d
    BY <1>3
  <2>2. c \in all
    BY <1>3, <2>1 DEF Collected
  <2>3. \A i \in 1..d : t[i].targets \subseteq all
    BY <1>1 DEF Collected
  <2>4. 1..(d + 1) = (1..d) \union {d + 1}
    BY <1>3
  <2>5. t[d + 1].targets \subseteq all
    BY <1>3, <2>2
  <2>6. \A i \in 1..(d + 1) : t[i].targets \subseteq all
    BY <2>3, <2>4, <2>5
  <2> QED BY <2>2, <2>6 DEF Collected
<1> QED BY <1>4, <1>5, <1>6, <1>7 DEF Collected

LEMMA SearchLeaves ==
  ASSUME NEW s, NEW t, NEW d, NEW start, NEW found, NEW all,
         Ends(s, t, d), Collected(s, d, start, found, all)
  PROVE  Collected(t, d - 1, start, found, all)
<1>1. \A i \in 1..(d - 1) : t[i] = s[i]
  BY DEF Ends
<1>2. d \in Nat /\ d >= 2 /\ s[d].targets = {}
  BY DEF Ends
<1>3. \A m \in start : m \in found \/ m \in t[1].targets
  BY <1>1, <1>2 DEF Collected
<1>4. \A i \in 2..(d - 1) : t[i].node \in found
  BY <1>1, <1>2 DEF Collected
<1>5. ASSUME NEW n \in found, NEW m \in Targets(n), m \notin found
      PROVE  \E i \in 2..(d - 1) : t[i].node = n /\ m \in t[i].targets
  <2>1. PICK i \in 2..d : s[i].node = n /\ m \in s[i].targets
    BY <1>5 DEF Collected
  <2>2. i \in 2..(d - 1) /\ i \in 1..(d - 1)
    BY <1>2, <2>1
  <2> QED BY <1>1, <2>1, <2>2
<1>6. found \subseteq all /\ \A i \in 1..(d - 1) : t[i].targets \subseteq all
  BY <1>1, <1>2 DEF Collected
<1> QED BY <1>3, <1>4, <1>5, <1>6 DEF Collected

\* When the loop is done, the collected nodes are those downstream.
LEMMA CollectedIsDownstream ==
  ASSUME NEW s, NEW d, NEW start \in SUBSET Names, NEW found \in SUBSET Names,
         edges \subseteq [source : Names, target : Names],
         d = 1, s[1].targets = {}, Collected(s, d, start, found, Graph!Downstream(start))
  PROVE  found = Graph!Downstream(start)
<1>1. found \subseteq Graph!Downstream(start)
  BY DEF Collected
<1>2. \A m \in start : m \in found
  BY DEF Collected
<1>3. \A n \in found : Targets(n) \subseteq found
  BY DEF Collected
<1>4. Graph!Downstream(start) \subseteq found
  BY <1>2, <1>3, DownstreamIsLeast
<1> QED BY <1>1, <1>4

\* Steps of the stack.
LEMMA StackStep ==
  ASSUME SearchInv, SearchNext
  PROVE  StackInv'
<1>0. StackInv
  BY DEF SearchInv
<1>1. ASSUME NEW n \in Names, NEW m \in Names, AddEdge(n, m)
      PROVE  StackInv'
  BY <1>0, <1>1 DEF AddEdge, StackInv, Sound
<1>2. ASSUME NEW s \in SUBSET Names, stack' = <<Frame(Caller, s)>>
      PROVE  stack' \in Seq(Frames) /\ Depth' = 1 /\ stack'[1].node = Caller
  BY <1>2 DEF Frame, Frames, Depth
<1>3. CASE CheckCycles
  <2>1. stack' \in Seq(Frames) /\ Depth' = 1 /\ stack'[1].node = Caller
    BY <1>2, <1>3 DEF CheckCycles
  <2> QED BY <1>0, <1>3, <2>1 DEF CheckCycles, StackInv, Sound
<1>4. ASSUME NEW direct \in SUBSET Names, Ask(direct)
      PROVE  StackInv'
  <2>1. stack' \in Seq(Frames) /\ Depth' = 1 /\ stack'[1].node = Caller
    BY <1>2, <1>4 DEF Ask
  <2> QED BY <1>0, <1>4, <2>1 DEF Ask, StackInv, Sound
<1>5. CASE VisitRaises \/ Accept \/ Answer
  BY <1>0, <1>5 DEF VisitRaises, Accept, Answer, StackInv, Sound
<1>6. ASSUME phase \in {"checking", "searching"}, edges' = edges, seeds' = seeds, phase' = phase,
             \/ Calling /\ Return
             \/ Calling /\ Enter
             \/ Over /\ Leave
      PROVE  stack' \in Seq(Frames) /\ Depth' >= 1 /\ Sound(stack', Depth')
  <2>1. /\ Depth \in Nat /\ Depth >= 1 /\ stack[1].node = Caller
        /\ \A i \in 2..Depth :
             stack[i].node \in Names /\ stack[i].targets \subseteq Targets(stack[i].node)
    BY <1>0, <1>6 DEF StackInv, Sound, Depth
  <2>2. CASE Calling /\ Return
    <3>1. Returns(stack, stack', Depth, Called)
      BY <1>0, <1>6, <2>2, StackSteps
    <3> QED BY <2>1, <3>1 DEF Returns, Sound, Depth
  <2>3. CASE Calling /\ Enter
    <3>1. Enters(stack, stack', Depth, Called)
      BY <1>0, <1>6, <2>3, StackSteps
    <3> QED BY <2>1, <3>1 DEF Enters, Sound, Depth
  <2>4. CASE Over /\ Leave
    <3>1. Ends(stack, stack', Depth)
      BY <1>0, <1>6, <2>4, StackSteps
    <3> QED BY <2>1, <3>1 DEF Ends, Sound, Depth
  <2> QED BY <1>6, <2>2, <2>3, <2>4
<1>7. ASSUME phase \in {"checking", "searching"}, edges' = edges, seeds' = seeds, phase' = phase,
             visited' \subseteq Names, result' \subseteq Names,
             \/ Calling /\ Return
             \/ Calling /\ Enter
             \/ Over /\ Leave
      PROVE  StackInv'
  <2>1. stack' \in Seq(Frames) /\ Depth' >= 1 /\ Sound(stack', Depth')
    BY <1>6, <1>7
  <2>2. edges' \subseteq [source : Names, target : Names] /\ seeds' \subseteq Names
    BY <1>0, <1>7 DEF StackInv
  <2>3. Sound(stack, Depth)'
    BY <1>7, <2>1 DEF Sound, Targets
  <2> QED BY <1>7, <2>1, <2>2, <2>3 DEF StackInv
<1>8. CASE VisitReturns \/ TransitiveReturns
  BY <1>0, <1>7, <1>8 DEF VisitReturns, TransitiveReturns, StackInv
<1>9. Calling /\ phase \in {"checking", "searching"} => Called \in Names
  <2>1. Calling /\ phase \in {"checking", "searching"} =>
          Top.targets \in SUBSET Names /\ Top.targets # {}
    <3> SUFFICES ASSUME Calling, phase \in {"checking", "searching"}
                 PROVE  Top.targets \in SUBSET Names /\ Top.targets # {}
      OBVIOUS
    <3>1. stack \in Seq(Frames) /\ Depth \in Nat /\ Depth >= 1 /\ stack[Depth] \in Frames
      BY <1>0 DEF StackInv, Depth
    <3> QED BY <3>1 DEF Calling, Top, Frames
  <2> QED BY <2>1, SomeForemost DEF Called
<1>10. CASE VisitEnters \/ TransitiveEnters
  BY <1>0, <1>7, <1>9, <1>10 DEF VisitEnters, TransitiveEnters, StackInv
<1>11. Over /\ phase \in {"checking", "searching"} => Top.node \in Names
  BY <1>0 DEF StackInv, Sound, Over, Top, Depth
<1>12. CASE VisitLeaves \/ TransitiveLeaves
  BY <1>0, <1>7, <1>11, <1>12 DEF VisitLeaves, TransitiveLeaves, StackInv
<1> QED BY <1>1, <1>3, <1>4, <1>5, <1>8, <1>10, <1>12 DEF SearchNext

\* The stack is that of a sound search in both phases.
LEMMA AtWork ==
  ASSUME StackInv, phase \in {"checking", "searching"}
  PROVE  Depth \in Nat /\ Depth >= 1 /\ Sound(stack, Depth)
  BY DEF StackInv, Depth

LEMMA DoneAtBottom ==
  ASSUME StackInv, phase \in {"checking", "searching"}, Done
  PROVE  Depth = 1 /\ stack[1].targets = {}
<1>1. Depth \in Nat /\ Depth >= 1 /\ Sound(stack, Depth)
  BY AtWork
<1>2. stack[Depth].node \notin Names /\ stack[Depth].targets = {}
  BY NamesAssumption DEF Done, Top
<1>3. ~(Depth \in 2..Depth)
  BY <1>1, <1>2 DEF Sound
<1> QED BY <1>1, <1>2, <1>3

\* Steps of _check_cycles.
LEMMA CheckStep ==
  ASSUME SearchInv, SearchNext
  PROVE  CheckInv'
<1>0. StackInv /\ CheckInv
  BY DEF SearchInv
<1>1. ASSUME edges' = edges, phase' = "checking", Checked(stack', Depth', visiting', visited')
      PROVE  CheckInv'
  BY <1>1 DEF CheckInv, Checked, RingIn, Targets
<1>2. CASE CheckCycles
  <2>1. /\ stack' = <<Frame(Caller, Names)>> /\ visiting' = {} /\ visited' = {}
        /\ edges' = edges /\ phase' = "checking"
    BY <1>0, <1>2 DEF CheckCycles, CheckInv
  <2>2. Depth' = 1 /\ stack'[1].targets = Names
    BY <2>1 DEF Depth, Frame
  <2>3. ~RingIn({})
    BY DEF RingIn
  <2>4. Checked(stack', 1, {}, {})
    BY <2>2, <2>3 DEF Checked
  <2> QED BY <1>1, <2>1, <2>2, <2>4
<1>3. ASSUME phase = "checking"
      PROVE  /\ Depth \in Nat /\ Depth >= 1 /\ Sound(stack, Depth)
             /\ Checked(stack, Depth, visiting, visited)
  BY <1>0, <1>3, AtWork DEF CheckInv
<1>4. CASE VisitReturns
  <2>1. phase = "checking" /\ Calling /\ Return /\ Called \in visited
    BY <1>4 DEF VisitReturns
  <2>2. Returns(stack, stack', Depth, Called)
    BY <1>0, <2>1, StackSteps
  <2>3. Checked(stack', Depth, visiting, visited)
    BY <1>3, <2>1, <2>2, CheckReturns
  <2>4. Depth' = Depth
    BY <2>2 DEF Returns, Depth
  <2> QED BY <1>1, <1>4, <2>3, <2>4 DEF VisitReturns
<1>5. CASE VisitEnters
  <2>1. phase = "checking" /\ Calling /\ Enter /\ Called \notin visiting \union visited
    BY <1>5 DEF VisitEnters
  <2>2. Enters(stack, stack', Depth, Called)
    BY <1>0, <2>1, StackSteps
  <2>3. Checked(stack', Depth + 1, visiting \union {Called}, visited)
    BY <1>3, <2>1, <2>2, CheckEnters
  <2>4. Depth' = Depth + 1
    BY <2>2 DEF Enters, Depth
  <2> QED BY <1>1, <1>5, <2>3, <2>4 DEF VisitEnters
<1>6. CASE VisitLeaves
  <2>1. phase = "checking" /\ Over /\ Leave
    BY <1>6 DEF VisitLeaves
  <2>2. Ends(stack, stack', Depth)
    BY <1>0, <2>1, StackSteps
  <2>3. Checked(stack', Depth - 1, visiting \ {Top.node}, visited \union {Top.node})
    BY <1>3, <2>1, <2>2, CheckLeaves DEF Top
  <2>4. Depth' = Depth - 1
    BY <2>2 DEF Ends, Depth
  <2> QED BY <1>1, <1>6, <2>3, <2>4 DEF VisitLeaves
<1>7. ASSUME NEW n \in Names, NEW m \in Names, AddEdge(n, m)
      PROVE  CheckInv'
  BY <1>0, <1>7 DEF AddEdge, CheckInv
<1>8. ASSUME NEW direct \in SUBSET Names, Ask(direct)
      PROVE  CheckInv'
  BY <1>8 DEF Ask, CheckInv
<1>9. CASE \/ VisitRaises \/ Accept
          \/ TransitiveReturns \/ TransitiveEnters \/ TransitiveLeaves \/ Answer
  BY <1>9 DEF VisitRaises, Accept, TransitiveReturns, TransitiveEnters, TransitiveLeaves, Answer,
              CheckInv
<1> QED BY <1>2, <1>4, <1>5, <1>6, <1>7, <1>8, <1>9 DEF SearchNext

\* Steps of _transitive.
LEMMA ImpactStep ==
  ASSUME SearchInv, SearchNext
  PROVE  ImpactInv'
<1>0. StackInv /\ ImpactInv
  BY DEF SearchInv
<1>1. ASSUME edges' = edges, Collected(stack', Depth', seeds', result', Graph!Downstream(seeds'))
      PROVE  ImpactInv'
  <2>1. Graph!Downstream(seeds)' = Graph!Downstream(seeds')
    BY <1>1 DEF Graph!Downstream, Graph!Closed, Graph!Nodes
  <2> QED BY <1>1, <2>1 DEF ImpactInv, Collected, Targets
<1>2. ASSUME NEW direct \in SUBSET Names, Ask(direct)
      PROVE  ImpactInv'
  <2>1. stack' = <<Frame(Caller, direct)>> /\ seeds' = direct /\ result' = {} /\ edges' = edges
    BY <1>2 DEF Ask
  <2>2. Depth' = 1 /\ stack'[1].targets = direct
    BY <2>1 DEF Depth, Frame
  <2>3. direct \subseteq Graph!Downstream(direct)
    BY <1>0, DownstreamIsClosed DEF StackInv
  <2>4. Collected(stack', 1, direct, {}, Graph!Downstream(direct))
    BY <2>2, <2>3 DEF Collected
  <2> QED BY <1>1, <2>1, <2>2, <2>4
<1>3. ASSUME phase = "searching"
      PROVE  Collected(stack, Depth, seeds, result, Graph!Downstream(seeds))
  BY <1>0, <1>3 DEF ImpactInv
<1>4. CASE TransitiveReturns
  <2>1. /\ phase = "searching" /\ Calling /\ Return /\ Called \in result
        /\ edges' = edges /\ seeds' = seeds /\ result' = result
    BY <1>4 DEF TransitiveReturns
  <2>2. Returns(stack, stack', Depth, Called)
    BY <1>0, <2>1, StackSteps
  <2>3. Collected(stack', Depth, seeds, result, Graph!Downstream(seeds))
    BY <1>3, <2>1, <2>2, SearchReturns
  <2>4. Depth' = Depth
    BY <2>2 DEF Returns, Depth
  <2> QED BY <1>1, <2>1, <2>3, <2>4
<1>5. CASE TransitiveEnters
  <2>1. /\ phase = "searching" /\ Calling /\ Enter
        /\ edges' = edges /\ seeds' = seeds /\ result' = result \union {Called}
    BY <1>5 DEF TransitiveEnters
  <2>2. Enters(stack, stack', Depth, Called)
    BY <1>0, <2>1, StackSteps
  <2>3. \A n \in Graph!Downstream(seeds) : Targets(n) \subseteq Graph!Downstream(seeds)
    BY <1>0, DownstreamIsClosed DEF StackInv
  <2>4. Collected(stack', Depth + 1, seeds, result \union {Called}, Graph!Downstream(seeds))
    BY <1>3, <2>1, <2>2, <2>3, SearchEnters
  <2>5. Depth' = Depth + 1
    BY <2>2 DEF Enters, Depth
  <2> QED BY <1>1, <2>1, <2>4, <2>5
<1>6. CASE TransitiveLeaves
  <2>1. /\ phase = "searching" /\ Over /\ Leave
        /\ edges' = edges /\ seeds' = seeds /\ result' = result
    BY <1>6 DEF TransitiveLeaves
  <2>2. Ends(stack, stack', Depth)
    BY <1>0, <2>1, StackSteps
  <2>3. Collected(stack', Depth - 1, seeds, result, Graph!Downstream(seeds))
    BY <1>3, <2>1, <2>2, SearchLeaves
  <2>4. Depth' = Depth - 1
    BY <2>2 DEF Ends, Depth
  <2> QED BY <1>1, <2>1, <2>3, <2>4
<1>7. ASSUME NEW n \in Names, NEW m \in Names, AddEdge(n, m)
      PROVE  ImpactInv'
  BY <1>7 DEF AddEdge, ImpactInv
<1>8. CASE \/ CheckCycles \/ VisitRaises \/ VisitReturns \/ VisitEnters \/ VisitLeaves
          \/ Accept \/ Answer
  BY <1>8 DEF CheckCycles, VisitRaises, VisitReturns, VisitEnters, VisitLeaves, Accept, Answer,
              ImpactInv
<1> QED BY <1>2, <1>4, <1>5, <1>6, <1>7, <1>8 DEF SearchNext

\* What the two searches find.
LEMMA RightStep ==
  ASSUME SearchInv, SearchNext
  PROVE  SearchesAreRight'
<1>0. StackInv /\ CheckInv /\ ImpactInv /\ SearchesAreRight
  BY DEF SearchInv
<1>1. edges' = edges => (Circular' <=> Circular)
  BY DEF Circular
<1>2. CASE VisitRaises
  <2>1. phase = "checking" /\ Calling /\ Called \in visiting /\ phase' = "refused" /\ edges' = edges
    BY <1>2 DEF VisitRaises
  <2>2. Depth \in Nat /\ Depth >= 1 /\ Sound(stack, Depth)
    BY <1>0, <2>1, AtWork
  <2>3. Checked(stack, Depth, visiting, visited)
    BY <1>0, <2>1 DEF CheckInv
  <2>4. Called \in stack[Depth].targets
    <3>0. stack \in Seq(Frames) /\ stack[Depth] \in Frames
      BY <1>0, <2>2 DEF StackInv, Depth
    <3>1. stack[Depth].targets \in SUBSET Names
      BY <3>0 DEF Frames
    <3> QED BY <2>1, <3>1, SomeForemost DEF Called, Calling, Top
  <2>5. Circular
    BY <2>1, <2>2, <2>3, <2>4, RaisedIsCircular
  <2> QED BY <1>1, <2>1, <2>5 DEF SearchesAreRight
<1>3. CASE Accept
  <2>1. phase = "checking" /\ Done /\ phase' = "accepted" /\ edges' = edges
    BY <1>3 DEF Accept
  <2>2. Depth = 1 /\ stack[1].targets = {}
    BY <1>0, <2>1, DoneAtBottom
  <2>3. Checked(stack, Depth, visiting, visited)
    BY <1>0, <2>1 DEF CheckInv
  <2>4. visited = Names /\ ~RingIn(visited)
    <3>1. \A m \in Names :
            m \in visited \/ m \in stack[1].targets \/ (1 < Depth /\ m = stack[2].node)
      BY <2>3 DEF Checked
    <3>2. Names \subseteq visited
      BY <2>2, <3>1
    <3>3. visited \subseteq Names /\ ~RingIn(visited)
      BY <2>3 DEF Checked
    <3> QED BY <3>2, <3>3
  <2>5. ~Circular
    BY <2>4 DEF RingIn, Circular
  <2> QED BY <1>1, <2>1, <2>5 DEF SearchesAreRight
<1>4. CASE Answer
  <2>1. /\ phase = "searching" /\ Done /\ phase' = "answered"
        /\ edges' = edges /\ seeds' = seeds /\ result' = result
    BY <1>4 DEF Answer
  <2>2. Depth = 1 /\ stack[1].targets = {}
    BY <1>0, <2>1, DoneAtBottom
  <2>3. Collected(stack, Depth, seeds, result, Graph!Downstream(seeds))
    BY <1>0, <2>1 DEF ImpactInv
  <2>4. result = Graph!Downstream(seeds)
    BY <1>0, <2>2, <2>3, CollectedIsDownstream DEF StackInv
  <2>5. (Graph!Downstream(seeds))' = Graph!Downstream(seeds)
    BY <2>1 DEF Graph!Downstream, Graph!Closed, Graph!Nodes
  <2>6. ~Circular'
    BY <1>0, <1>1, <2>1 DEF SearchesAreRight
  <2> QED BY <2>1, <2>4, <2>5, <2>6 DEF SearchesAreRight
<1>5. ASSUME NEW direct \in SUBSET Names, Ask(direct)
      PROVE  SearchesAreRight'
  BY <1>0, <1>1, <1>5 DEF Ask, SearchesAreRight
<1>6. CASE TransitiveReturns \/ TransitiveEnters \/ TransitiveLeaves
  BY <1>0, <1>1, <1>6 DEF TransitiveReturns, TransitiveEnters, TransitiveLeaves, SearchesAreRight
<1>7. CASE CheckCycles \/ VisitReturns \/ VisitEnters \/ VisitLeaves
  BY <1>7 DEF CheckCycles, VisitReturns, VisitEnters, VisitLeaves, SearchesAreRight
<1>8. ASSUME NEW n \in Names, NEW m \in Names, AddEdge(n, m)
      PROVE  SearchesAreRight'
  BY <1>8 DEF AddEdge, SearchesAreRight
<1> QED BY <1>2, <1>3, <1>4, <1>5, <1>6, <1>7, <1>8 DEF SearchNext

LEMMA SearchStarts ==
  SearchInit => SearchInv
<1> SUFFICES ASSUME SearchInit
             PROVE  SearchInv
  OBVIOUS
<1>1. StackInv
  BY DEF SearchInit, StackInv, Sound
<1>2. CheckInv /\ ImpactInv /\ SearchesAreRight
  BY DEF SearchInit, CheckInv, ImpactInv, SearchesAreRight
<1> QED BY <1>1, <1>2 DEF SearchInv

LEMMA SearchContinues ==
  SearchInv /\ [SearchNext]_searchVars => SearchInv'
<1> SUFFICES ASSUME SearchInv, [SearchNext]_searchVars
             PROVE  SearchInv'
  OBVIOUS
<1>1. CASE SearchNext
  BY <1>1, StackStep, CheckStep, ImpactStep, RightStep DEF SearchInv
<1>2. CASE UNCHANGED searchVars
  <2>1. /\ edges' = edges /\ phase' = phase /\ stack' = stack /\ visiting' = visiting
        /\ visited' = visited /\ seeds' = seeds /\ result' = result
    BY <1>2 DEF searchVars
  <2>2. StackInv' /\ CheckInv'
    <3>1. Depth' = Depth
      BY <2>1 DEF Depth
    <3>2. StackInv'
      BY <2>1, <3>1 DEF SearchInv, StackInv, Sound, Targets
    <3>3. (Checked(stack, Depth, visiting, visited))' <=> Checked(stack, Depth, visiting, visited)
      BY <2>1, <3>1 DEF Checked, RingIn, Targets
    <3>4. CheckInv'
      BY <2>1, <3>3 DEF SearchInv, CheckInv
    <3> QED BY <3>2, <3>4
  <2>3. (Graph!Downstream(seeds))' = Graph!Downstream(seeds)
    BY <2>1 DEF Graph!Downstream, Graph!Closed, Graph!Nodes
  <2>4. ImpactInv'
    BY <2>1, <2>3 DEF SearchInv, ImpactInv, Collected, Targets, Depth
  <2>5. SearchesAreRight'
    BY <2>1, <2>3 DEF SearchInv, SearchesAreRight, Circular
  <2> QED BY <2>2, <2>4, <2>5 DEF SearchInv
<1> QED BY <1>1, <1>2

(***************************************************************************)
(* Of any nodes and edges, _check_cycles refuses exactly those that form a *)
(* cycle, and impact answers with exactly the nodes downstream of those    *)
(* that are invalidated directly (graph.py:127-170).                       *)
(***************************************************************************)
THEOREM SearchesFind == SearchSpec => []SearchesAreRight
<1>1. SearchInit => SearchInv
  BY SearchStarts
<1>2. SearchInv /\ [SearchNext]_searchVars => SearchInv'
  BY SearchContinues
<1>3. SearchInv => SearchesAreRight
  BY DEF SearchInv
<1> QED BY <1>1, <1>2, <1>3, PTL DEF SearchSpec


-----------------------------------------------------------------------------
(* The proofs of clearance *)

\* What the geometry has to grant, of the requests that are not refused: between two
\* positions of a segment the distance of a pair shrinks by no more than the bound
\* derived for them.
BoundsHold ==
  \A case \in {case \in Cases : Acceptable(case.request)} :
  \A pair \in PairsOf(case.request), segment \in Segments(case.request) :
    \A t, k, span \in 0 .. Grid :
      LET there == case.distance[pair][At(case.request, segment, t)]
          here == case.distance[pair][At(case.request, segment, k)]
          bound == Motion(case.request, pair, segment, span)
      IN /\ there \in Nat /\ here \in Nat /\ bound \in Nat
         /\ Size(k - t) <= span => there - bound <= here

-----------------------------------------------------------------------------
(***************************************************************************)
(* The inductive invariant: the intervals of a segment, whatever became of *)
(* them, tile it; those that are certified are clear; and the status says  *)
(* what the intervals and the witness say.                                 *)
(***************************************************************************)
Leaves == certified \cup unresolved \cup pending

Parts(segment) == {i \in Leaves : i.segment = segment}

GivenInv == \E case \in Cases : request = case.request /\ distance = case.distance

TypedInv ==
  \A i \in Leaves :
    /\ i = Interval(i.segment, i.start, i.end, i.depth)
    /\ i.segment \in Segments(request)
    /\ i.start \in 0 .. Grid /\ i.end \in 0 .. Grid /\ i.start < i.end

Covered(leaves) == \A k \in 0 .. Grid : \E i \in leaves : i.start <= k /\ k <= i.end

TiledInv == \A segment \in Segments(request) : Tiled(Parts(segment)) /\ Covered(Parts(segment))

ApartInv ==
  status \in {"waypoints", "proving"} => pending \cap (certified \cup unresolved) = {}

ClearInv == \A leaf \in certified : \A k \in leaf.start .. leaf.end : Apart(leaf.segment, k)

StatusInv ==
  /\ checked \in Nat
  /\ status # "refused" => Acceptable(request)
  /\ status = "waypoints" =>
       certified = {} /\ unresolved = {} /\ pending = {Whole(s) : s \in Segments(request)}
  /\ status = "verified_clear" => pending = {} /\ unresolved = {}
  /\ status = "collision_witness" => Struck(At(request, witness.segment, witness.at))
  /\ status = "not_proven" => unresolved # {}
  /\ status # "raised"

IInv == GivenInv /\ TypedInv /\ TiledInv /\ ApartInv /\ ClearInv /\ StatusInv

-----------------------------------------------------------------------------
(* Lemmas *)

LEMMA GivenFacts ==
  ASSUME GivenInv
  PROVE  /\ Len(request.path) \in Nat /\ Len(request.path) >= 2
         /\ request.required \in Nat /\ request.guard \in Nat
         /\ request.width \in Nat \ {0}
         /\ Grid \in Nat \ {0}
         /\ Segments(request) = 1 .. Len(request.path) - 1
BY CasesAssumption DEF GivenInv, Segments

\* An interval wide enough to be halved has its middle inside.
LEMMA MiddleInside ==
  ASSUME NEW a \in Nat, NEW b \in Nat, a < b
  PROVE  /\ (a + b) \div 2 \in Nat
         /\ a <= (a + b) \div 2 /\ (a + b) \div 2 < b
         /\ (a + b) \div 2 - a <= b - (a + b) \div 2
         /\ b - a > 1 => a < (a + b) \div 2
BY SMT

\* Halving a leaf of a tiling leaves a tiling.
LEMMA HalvesTile ==
  ASSUME NEW leaves, NEW i \in leaves,
         Grid \in Nat,
         \A x \in leaves : x.start \in Nat /\ x.end \in Nat /\ x.start < x.end,
         i.end - i.start > 1,
         Tiled(leaves), Covered(leaves)
  PROVE  /\ Tiled((leaves \ {i}) \cup Halves(i))
         /\ Covered((leaves \ {i}) \cup Halves(i))
<1> DEFINE m == (i.start + i.end) \div 2
           left == Interval(i.segment, i.start, m, i.depth + 1)
           right == Interval(i.segment, m, i.end, i.depth + 1)
           halved == (leaves \ {i}) \cup Halves(i)
<1>1. m \in Nat /\ i.start < m /\ m < i.end
  BY MiddleInside
<1>2. /\ left.start = i.start /\ left.end = m
      /\ right.start = m /\ right.end = i.end
  BY DEF Interval
<1>3. Halves(i) = {left, right}
  BY DEF Halves, Middle
<1> HIDE DEF m, left, right
<1>4. \E leaf \in halved : leaf.start = 0
  BY <1>2, <1>3 DEF Tiled
<1>5. ASSUME NEW leaf \in halved
      PROVE  /\ leaf.start < leaf.end
             /\ leaf.end = Grid \/ \E next \in halved : next.start = leaf.end
  <2>1. CASE leaf \in leaves \ {i}
    BY <2>1, <1>2, <1>3 DEF Tiled
  <2>2. CASE leaf = left
    BY <2>2, <1>1, <1>2, <1>3
  <2>3. CASE leaf = right
    <3>1. i.end = Grid \/ \E next \in leaves : next.start = i.end
      BY DEF Tiled
    <3>2. \A next \in leaves : next.start = i.end => next # i
      BY <1>1
    <3> QED
      BY <2>3, <3>1, <3>2, <1>1, <1>2, <1>3
  <2> QED
    BY <2>1, <2>2, <2>3, <1>3
<1>6. ASSUME NEW x \in halved, NEW y \in halved, x # y
      PROVE  x.end <= y.start \/ y.end <= x.start
  <2>1. \A z \in leaves \ {i} : z.end <= i.start \/ i.end <= z.start
    BY DEF Tiled
  <2>2. CASE x \in leaves \ {i} /\ y \in leaves \ {i}
    BY <1>6, <2>2 DEF Tiled
  <2>3. CASE x \in leaves \ {i} /\ y \in {left, right}
    BY <2>3, <2>1, <1>1, <1>2
  <2>4. CASE y \in leaves \ {i} /\ x \in {left, right}
    BY <2>4, <2>1, <1>1, <1>2
  <2>5. CASE x \in {left, right} /\ y \in {left, right}
    BY <1>6, <2>5, <1>1, <1>2
  <2> QED
    BY <2>2, <2>3, <2>4, <2>5, <1>3
<1>7. ASSUME NEW k \in 0 .. Grid
      PROVE  \E x \in halved : x.start <= k /\ k <= x.end
  <2>1. PICK x \in leaves : x.start <= k /\ k <= x.end
    BY DEF Covered
  <2>2. CASE x # i
    BY <2>1, <2>2
  <2>3. CASE x = i
    BY <2>1, <2>3, <1>1, <1>2, <1>3
  <2> QED
    BY <2>2, <2>3
<1> QED
  BY <1>4, <1>5, <1>6, <1>7 DEF Tiled, Covered

\* An interval whose middle is far enough is clear from end to end.
LEMMA FarIsApart ==
  ASSUME BoundsHold, GivenInv, Acceptable(request), NEW i, Far(i),
         i.segment \in Segments(request),
         i.start \in 0 .. Grid, i.end \in 0 .. Grid, i.start < i.end,
         NEW k \in i.start .. i.end
  PROVE  Apart(i.segment, k)
<1> DEFINE m == (i.start + i.end) \div 2
<1>1. Grid \in Nat /\ request.required \in Nat /\ request.guard \in Nat
  BY GivenFacts
<1>2. /\ m \in Nat /\ i.start <= m /\ m < i.end
      /\ m - i.start <= i.end - m
  BY MiddleInside, <1>1
<1> HIDE DEF m
<1>3. k \in 0 .. Grid /\ m \in 0 .. Grid /\ i.end - m \in 0 .. Grid
  BY <1>1, <1>2
<1>4. Size(k - m) <= i.end - m
  BY <1>1, <1>2, <1>3 DEF Size
<1>5. ASSUME NEW pair \in PairsOf(request)
      PROVE  distance[pair][At(request, i.segment, k)] > request.required
  <2> DEFINE there == distance[pair][At(request, i.segment, m)]
             here == distance[pair][At(request, i.segment, k)]
             bound == Motion(request, pair, i.segment, i.end - m)
  <2>1. there \in Nat /\ here \in Nat /\ bound \in Nat /\ there - bound <= here
    BY <1>3, <1>4 DEF BoundsHold, GivenInv
  <2>2. there - bound > request.required + request.guard
    BY DEF Far, Reference, Middle, m
  <2> QED
    BY <2>1, <2>2, <1>1
<1> QED
  BY <1>5 DEF Apart

-----------------------------------------------------------------------------
(* The invariant is inductive *)

LEMMA InitInv == Init => IInv
<1> SUFFICES ASSUME Init PROVE IInv
  OBVIOUS
<1>1. GivenInv
  BY DEF Init, GivenInv
<1>2. Grid \in Nat \ {0} /\ Segments(request) = 1 .. Len(request.path) - 1
  BY <1>1, GivenFacts
<1>3. Leaves = {Whole(segment) : segment \in Segments(request)}
  BY DEF Init, Leaves
<1>4. TypedInv
  BY <1>2, <1>3 DEF TypedInv, Whole, Interval
<1>5. ASSUME NEW segment \in Segments(request)
      PROVE  Tiled(Parts(segment)) /\ Covered(Parts(segment))
  <2>1. Parts(segment) = {Whole(segment)}
    BY <1>3 DEF Parts, Whole, Interval
  <2>2. Whole(segment).start = 0 /\ Whole(segment).end = Grid
    BY DEF Whole, Interval
  <2> QED
    BY <2>1, <2>2, <1>2 DEF Tiled, Covered
<1>6. ApartInv /\ ClearInv /\ StatusInv
  BY DEF Init, ApartInv, ClearInv, StatusInv
<1> QED
  BY <1>1, <1>4, <1>5, <1>6 DEF IInv, TiledInv

\* A step that leaves request and distance alone and loses no interval.
LEMMA SameLeaves ==
  ASSUME GivenInv, TypedInv, TiledInv, UNCHANGED <<request, distance>>, Leaves' = Leaves
  PROVE  GivenInv' /\ TypedInv' /\ TiledInv'
<1>1. GivenInv'
  BY DEF GivenInv
<1>2. Segments(request)' = Segments(request)
  BY DEF Segments
<1>3. \A segment : Parts(segment)' = Parts(segment)
  BY DEF Parts
<1>4. TypedInv'
  BY <1>2 DEF TypedInv
<1>5. TiledInv'
  BY <1>2, <1>3 DEF TiledInv
<1> QED
  BY <1>1, <1>4, <1>5

\* What is clear stays clear.
LEMMA SameApart ==
  ASSUME UNCHANGED <<request, distance>>, NEW segment, NEW k
  PROVE  Apart(segment, k)' <=> Apart(segment, k)
BY DEF Apart, PairsOf, At

LEMMA CheckWaypointInv ==
  ASSUME IInv, CheckWaypoint
  PROVE  IInv'
<1> DEFINE index == checked + 1
           place == IF index = Len(request.path) THEN <<index - 1, Grid>> ELSE <<index, 0>>
<1>1. /\ status = "waypoints" /\ checked < Len(request.path)
      /\ UNCHANGED <<request, distance, pending, certified>>
  BY DEF CheckWaypoint
<1>2. /\ Len(request.path) \in Nat /\ Len(request.path) >= 2 /\ Grid \in Nat
      /\ Segments(request) = 1 .. Len(request.path) - 1
      /\ checked \in Nat
  BY GivenFacts DEF IInv, StatusInv
<1>3. place[1] \in Segments(request) /\ Waypoint(request, index) = At(request, place[1], place[2])
  BY <1>1, <1>2 DEF Waypoint
<1>4. Leaves' = Leaves
  <2>1. CASE unresolved' = unresolved
    BY <2>1, <1>1 DEF Leaves
  <2>2. CASE unresolved' = {Whole(place[1])}
    <3>1. Whole(place[1]) \in pending /\ unresolved = {}
      BY <1>1, <1>3 DEF IInv, StatusInv
    <3> QED
      BY <2>2, <3>1, <1>1 DEF Leaves
  <2> QED
    BY <2>1, <2>2 DEF CheckWaypoint
<1>5. GivenInv' /\ TypedInv' /\ TiledInv'
  BY <1>1, <1>4, SameLeaves DEF IInv
<1>6. ClearInv'
  BY <1>1, SameApart DEF IInv, ClearInv
<1> DEFINE struck == Struck(Waypoint(request, index))
<1>7. Acceptable(request)'
  BY <1>1 DEF IInv, StatusInv
<1>8. CASE struck /\ unresolved' = unresolved /\ Witness(place[1], place[2]) /\ checked' = index
  <2>1. Struck(At(request, witness.segment, witness.at))'
    BY <1>8, <1>3, <1>1 DEF Witness, Struck, PairsOf, At, Bar
  <2> QED
    BY <2>1, <1>2, <1>5, <1>6, <1>7, <1>8 DEF Witness, IInv, StatusInv, ApartInv
<1>9. CASE unresolved' = unresolved /\ UNCHANGED <<witness, status>> /\ checked' = index
  <2>1. Segments(request)' = Segments(request)
    BY <1>1
  <2> QED
    BY <2>1, <1>1, <1>2, <1>5, <1>6, <1>9, <1>7 DEF IInv, StatusInv, ApartInv
<1>10. CASE unresolved' = {Whole(place[1])} /\ status' = "not_proven" /\ checked' = checked
  BY <1>2, <1>5, <1>6, <1>10, <1>7 DEF IInv, StatusInv, ApartInv
<1> QED
  BY <1>8, <1>9, <1>10 DEF CheckWaypoint

LEMMA StartProofInv ==
  ASSUME IInv, StartProof
  PROVE  IInv'
<1>1. Leaves' = Leaves /\ UNCHANGED <<request, distance>>
  BY DEF StartProof, Leaves
<1>2. GivenInv' /\ TypedInv' /\ TiledInv'
  BY <1>1, SameLeaves DEF IInv
<1>3. ClearInv'
  BY <1>1, SameApart DEF IInv, ClearInv, StartProof
<1>4. ApartInv' /\ StatusInv'
  BY DEF StartProof, IInv, ApartInv, StatusInv
<1> QED
  BY <1>2, <1>3, <1>4 DEF IInv

\* An interval that is set aside, certified or not, stays where it was.
LEMMA SetAside ==
  ASSUME IInv, NEW i \in pending, Look(i), UNCHANGED status, pending' = pending \ {i},
         \/ certified' = certified \cup {i} /\ unresolved' = unresolved
         \/ certified' = certified /\ unresolved' = unresolved \cup {i}
  PROVE  GivenInv' /\ TypedInv' /\ TiledInv' /\ ApartInv' /\ StatusInv'
<1>1. Leaves' = Leaves /\ UNCHANGED <<request, distance>>
  BY DEF Leaves, Look
<1>2. GivenInv' /\ TypedInv' /\ TiledInv'
  BY <1>1, SameLeaves DEF IInv
<1>3. ApartInv'
  BY DEF IInv, ApartInv, Look
<1>4. StatusInv'
  BY DEF IInv, StatusInv, Look
<1> QED
  BY <1>2, <1>3, <1>4

LEMMA RunOutInv ==
  ASSUME IInv, NEW i \in pending, RunOut(i)
  PROVE  IInv'
<1>1. GivenInv' /\ TypedInv' /\ TiledInv' /\ ApartInv' /\ StatusInv'
  BY SetAside DEF RunOut
<1>2. ClearInv'
  BY SameApart DEF RunOut, Look, IInv, ClearInv
<1> QED
  BY <1>1, <1>2 DEF IInv

LEMMA GiveUpInv ==
  ASSUME IInv, NEW i \in pending, GiveUp(i)
  PROVE  IInv'
<1>1. GivenInv' /\ TypedInv' /\ TiledInv' /\ ApartInv' /\ StatusInv'
  BY SetAside DEF GiveUp
<1>2. ClearInv'
  BY SameApart DEF GiveUp, Look, IInv, ClearInv
<1> QED
  BY <1>1, <1>2 DEF IInv

LEMMA CertifyInv ==
  ASSUME BoundsHold, IInv, NEW i \in pending, Certify(i)
  PROVE  IInv'
<1>1. GivenInv' /\ TypedInv' /\ TiledInv' /\ ApartInv' /\ StatusInv'
  BY SetAside DEF Certify
<1>2. \A k \in i.start .. i.end : Apart(i.segment, k)
  BY FarIsApart DEF Certify, Look, IInv, TypedInv, StatusInv, Leaves
<1>3. ClearInv'
  BY <1>2, SameApart DEF Certify, Look, IInv, ClearInv
<1> QED
  BY <1>1, <1>3 DEF IInv

LEMMA StrikeInv ==
  ASSUME IInv, NEW i \in pending, Strike(i)
  PROVE  IInv'
<1>1. Leaves' = Leaves /\ UNCHANGED <<request, distance>>
  BY DEF Strike, Look, Leaves
<1>2. GivenInv' /\ TypedInv' /\ TiledInv'
  BY <1>1, SameLeaves DEF IInv
<1>3. ClearInv'
  BY <1>1, SameApart DEF IInv, ClearInv, Strike
<1>4. Struck(At(request, witness.segment, witness.at))'
  BY <1>1 DEF Strike, Witness, Reference, Struck, PairsOf, At, Bar
<1>5. ApartInv' /\ StatusInv'
  BY <1>4 DEF Strike, Look, Witness, IInv, ApartInv, StatusInv
<1> QED
  BY <1>2, <1>3, <1>5 DEF IInv

LEMMA HalveInv ==
  ASSUME IInv, NEW i \in pending, Halve(i)
  PROVE  IInv'
<1> DEFINE m == Middle(i)
           left == Interval(i.segment, i.start, m, i.depth + 1)
           right == Interval(i.segment, m, i.end, i.depth + 1)
<1>1. /\ UNCHANGED <<request, distance, checked, certified, unresolved, witness, status>>
      /\ status = "proving" /\ pending' = (pending \ {i}) \cup Halves(i)
  BY DEF Halve, Look
<1>2. /\ request.width \in Nat \ {0} /\ Grid \in Nat
  BY GivenFacts DEF IInv
<1>3. /\ i = Interval(i.segment, i.start, i.end, i.depth)
      /\ i.segment \in Segments(request)
      /\ i.start \in 0 .. Grid /\ i.end \in 0 .. Grid /\ i.start < i.end
  BY DEF IInv, TypedInv, Leaves
<1>4. i.end - i.start > 1
  BY <1>2, <1>3 DEF Halve, AtLimit
<1>5. m \in 0 .. Grid /\ i.start < m /\ m < i.end
  BY <1>2, <1>3, <1>4, MiddleInside DEF Middle
<1>6. Halves(i) = {left, right}
  BY DEF Halves
<1>7. \A h \in {left, right} :
        /\ h = Interval(h.segment, h.start, h.end, h.depth)
        /\ h.segment = i.segment
        /\ h.start \in 0 .. Grid /\ h.end \in 0 .. Grid /\ h.start < h.end
        /\ i.start <= h.start /\ h.end <= i.end /\ h # i
  BY <1>2, <1>3, <1>5 DEF Interval
<1> HIDE DEF m, left, right
<1>8. i \notin certified \cup unresolved
  BY <1>1 DEF IInv, ApartInv
<1>9. Leaves' = (Leaves \ {i}) \cup Halves(i)
  BY <1>1, <1>8 DEF Leaves
<1>10. Segments(request)' = Segments(request)
  BY <1>1
<1>11. GivenInv'
  BY <1>1 DEF IInv, GivenInv
<1>12. TypedInv'
  BY <1>1, <1>3, <1>6, <1>7, <1>9, <1>10 DEF IInv, TypedInv
<1>13. ASSUME NEW segment \in Segments(request)
       PROVE  Tiled(Parts(segment)') /\ Covered(Parts(segment)')
  <2>1. Tiled(Parts(segment)) /\ Covered(Parts(segment))
    BY DEF IInv, TiledInv
  <2>2. CASE segment = i.segment
    <3>1. i \in Parts(segment) /\ Parts(segment)' = (Parts(segment) \ {i}) \cup Halves(i)
      BY <2>2, <1>6, <1>7, <1>9 DEF Parts, Leaves
    <3>2. \A x \in Parts(segment) : x.start \in Nat /\ x.end \in Nat /\ x.start < x.end
      BY <1>2 DEF IInv, TypedInv, Parts
    <3> QED
      BY <2>1, <3>1, <3>2, <1>2, <1>4, HalvesTile
  <2>3. CASE segment # i.segment
    <3>1. Parts(segment)' = Parts(segment)
      BY <2>3, <1>6, <1>7, <1>9 DEF Parts
    <3> QED
      BY <3>1, <2>1
  <2> QED
    BY <2>2, <2>3
<1>14. TiledInv'
  BY <1>10, <1>13 DEF TiledInv
\* A half that was set aside before would overlap the interval itself.
<1>15. ASSUME NEW h \in {left, right} PROVE h \notin certified \cup unresolved
  <2>1. SUFFICES ASSUME h \in certified \cup unresolved PROVE FALSE
    OBVIOUS
  <2>2. h \in Parts(i.segment) /\ i \in Parts(i.segment) /\ h # i
    BY <2>1, <1>7 DEF Parts, Leaves
  <2>3. h.end <= i.start \/ i.end <= h.start
    BY <2>2, <1>3 DEF IInv, TiledInv, Tiled
  <2> QED
    BY <2>3, <1>2, <1>3, <1>7
<1>16. ApartInv'
  BY <1>1, <1>6, <1>15 DEF IInv, ApartInv
<1>17. ClearInv'
  BY <1>1, SameApart DEF IInv, ClearInv
<1>18. StatusInv'
  BY <1>1 DEF IInv, StatusInv
<1> QED
  BY <1>11, <1>12, <1>14, <1>16, <1>17, <1>18 DEF IInv

LEMMA ConcludeInv ==
  ASSUME IInv, Conclude
  PROVE  IInv'
<1>1. Leaves' = Leaves /\ UNCHANGED <<request, distance, checked, pending, certified, unresolved>>
  BY DEF Conclude, Leaves
<1>2. GivenInv' /\ TypedInv' /\ TiledInv'
  BY <1>1, SameLeaves DEF IInv
<1>3. ClearInv'
  BY <1>1, SameApart DEF IInv, ClearInv
<1>4. ASSUME unresolved = {}, NEW segment \in Segments(request)
      PROVE  Tiled({leaf \in certified : leaf.segment = segment})
  <2>1. Parts(segment) = {leaf \in certified : leaf.segment = segment}
    BY <1>4 DEF Conclude, Parts, Leaves
  <2> QED
    BY <2>1 DEF IInv, TiledInv
<1>5. \/ status' = "not_proven" /\ unresolved # {}
      \/ status' = "verified_clear" /\ unresolved = {} /\ pending = {}
  BY <1>4 DEF Conclude
<1>6. Acceptable(request)'
  BY <1>1 DEF Conclude, IInv, StatusInv
<1>7. ApartInv' /\ StatusInv'
  BY <1>1, <1>5, <1>6 DEF IInv, ApartInv, StatusInv
<1> QED
  BY <1>2, <1>3, <1>7 DEF IInv

LEMMA StepInv == BoundsHold /\ IInv /\ [Next]_vars => IInv'
<1> SUFFICES ASSUME BoundsHold, IInv, [Next]_vars PROVE IInv'
  OBVIOUS
<1>1. CASE CheckWaypoint
  BY <1>1, CheckWaypointInv
<1>2. CASE StartProof
  BY <1>2, StartProofInv
<1>3. ASSUME NEW i \in pending, RunOut(i) \/ Strike(i) \/ Certify(i) \/ GiveUp(i) \/ Halve(i)
      PROVE  IInv'
  BY <1>3, RunOutInv, StrikeInv, CertifyInv, GiveUpInv, HalveInv
<1>4. CASE Conclude
  BY <1>4, ConcludeInv
<1>5. CASE UNCHANGED vars
  <2>1. Leaves' = Leaves /\ UNCHANGED <<request, distance>>
    BY <1>5 DEF vars, Leaves
  <2>2. GivenInv' /\ TypedInv' /\ TiledInv'
    BY <2>1, SameLeaves DEF IInv
  <2>3. ClearInv'
    BY <1>5, <2>1, SameApart DEF IInv, ClearInv, vars
  <2>4. Struck(At(request, witness.segment, witness.at))'
          = Struck(At(request, witness.segment, witness.at))
    BY <1>5 DEF vars, Struck, At, PairsOf, Bar
  <2>5. ApartInv' /\ StatusInv'
    BY <1>5, <2>4 DEF vars, IInv, ApartInv, StatusInv
  <2> QED
    BY <2>2, <2>3, <2>5 DEF IInv
<1> QED
  BY <1>1, <1>2, <1>3, <1>4, <1>5 DEF Next

LEMMA InvImplies == IInv => VerdictIsTrue
<1> SUFFICES ASSUME IInv PROVE VerdictIsTrue
  OBVIOUS
<1>1. ASSUME NEW segment \in Segments(request), NEW k \in 0 .. Grid
      PROVE  \E i \in certified \cup unresolved \cup pending : Within(i, segment, k)
  <2>1. PICK i \in Parts(segment) : i.start <= k /\ k <= i.end
    BY DEF IInv, TiledInv, Covered
  <2> QED
    BY <2>1 DEF Parts, Leaves, Within
<1>2. ASSUME status = "verified_clear", NEW segment \in Segments(request), NEW k \in 0 .. Grid
      PROVE  Apart(segment, k)
  <2>1. PICK i \in certified : Within(i, segment, k)
    BY <1>1, <1>2 DEF IInv, StatusInv
  <2>2. i.start \in 0 .. Grid /\ i.end \in 0 .. Grid /\ Grid \in Nat
    BY GivenFacts DEF IInv, TypedInv, Leaves
  <2>3. k \in i.start .. i.end
    BY <2>1, <2>2 DEF Within
  <2> QED
    BY <2>1, <2>3 DEF IInv, ClearInv, Within
<1> QED
  BY <1>1, <1>2 DEF VerdictIsTrue, IInv, StatusInv, ClearInv

-----------------------------------------------------------------------------

\* If the reach bounds bound what the joints do, every answer of the engines is true
\* of the whole motion, and the final check of the leaves never raises
\* (multi_joint_continuous_clearance.py:444-560, continuous_proof.py:467-578).
THEOREM ClearanceIsSound ==
  ASSUME BoundsHold
  PROVE  Spec => []VerdictIsTrue
<1>1. Init => IInv
  BY InitInv
<1>2. IInv /\ [Next]_vars => IInv'
  BY StepInv
<1>3. IInv => VerdictIsTrue
  BY InvImplies
<1> QED
  BY <1>1, <1>2, <1>3, PTL DEF Spec
=============================================================================

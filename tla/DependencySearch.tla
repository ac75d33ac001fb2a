-------------------------- MODULE DependencySearch --------------------------
(***************************************************************************)
(* The two depth-first searches of DependencyGraph (dependency/graph.py),  *)
(* call by call: _check_cycles, which keeps the nodes of the calls at work *)
(* and the finished ones apart and refuses a configuration, and            *)
(* _transitive, which walks a result set that all calls share, for every   *)
(* question that is put to a configuration that was accepted.              *)
(*                                                                         *)
(* Both are recursive; what the interpreter keeps of that is the stack: a  *)
(* frame is [node, targets], a call and the targets it has still to go     *)
(* through.  The first frame is that of the loop over the sorted nodes     *)
(* from which the search starts, whose node is Caller.                     *)
(***************************************************************************)
EXTENDS Naturals, Sequences, FiniteSets, Functions

CONSTANTS
  Names,    \* the nodes a configuration may name
  Rank,     \* their place in sorted order
  Caller,   \* stands for the loop that makes the first calls
  MaxEdges  \* bound: edges configured

ASSUME NamesAssumption ==
  /\ Rank \in [Names -> Nat] /\ IsInjective(Rank)
  /\ Caller \notin Names
  /\ MaxEdges \in Nat

VARIABLES
  edges,     \* the configured edges so far
  phase,     \* "configuring", "checking", "refused", "accepted", "searching", "answered"
  stack,     \* the frames, the innermost last
  visiting,  \* of _check_cycles: nodes at work and finished
  visited,
  seeds,     \* of impact: the nodes that a change invalidates directly
  result     \* and what _transitive has collected

searchVars == <<edges, phase, stack, visiting, visited, seeds, result>>

Graph == INSTANCE DependencyGraph WITH
  Rules <- {[when |-> {}, invalidates |-> Names]}, Edges <- edges, Wildcard <- 0

\* _downstream[node].
Targets(node) == {m \in Names : [source |-> node, target |-> m] \in edges}

SearchInit ==
  /\ edges = {} /\ phase = "configuring" /\ stack = << >>
  /\ visiting = {} /\ visited = {} /\ seeds = {} /\ result = {}

AddEdge(n, m) ==
  /\ phase = "configuring"
  /\ Cardinality(edges) < MaxEdges
  /\ edges' = edges \union {[source |-> n, target |-> m]}
  /\ UNCHANGED <<phase, stack, visiting, visited, seeds, result>>

-----------------------------------------------------------------------------
(* Calls *)

Frame(node, targets) == [node |-> node, targets |-> targets]
Depth == Len(stack)
Top == stack[Depth]

\* The next of the targets, in sorted order, is called.
Foremost(nodes) == CHOOSE n \in nodes : \A m \in nodes : Rank[n] <= Rank[m]
Calling == phase \in {"checking", "searching"} /\ Top.targets # {}
Called == Foremost(Top.targets)
Advanced == [stack EXCEPT ![Depth].targets = @ \ {Called}]

Return == stack' = Advanced
Enter == stack' = Append(Advanced, Frame(Called, Targets(Called)))
\* A call that has gone through its targets is over.
Over == Top.targets = {} /\ Top.node # Caller
Leave == stack' = SubSeq(stack, 1, Depth - 1)
\* So is the loop.
Done == Top.targets = {} /\ Top.node = Caller

-----------------------------------------------------------------------------
(* _check_cycles *)

\* The configuration is read; the loop is over all nodes.
CheckCycles ==
  /\ phase = "configuring"
  /\ phase' = "checking" /\ stack' = <<Frame(Caller, Names)>>
  /\ UNCHANGED <<edges, visiting, visited, seeds, result>>

\* visit, of a node at work: the configuration is refused.
VisitRaises ==
  /\ phase = "checking" /\ Calling /\ Called \in visiting
  /\ phase' = "refused"
  /\ UNCHANGED <<edges, stack, visiting, visited, seeds, result>>

VisitReturns ==
  /\ phase = "checking" /\ Calling /\ Called \notin visiting /\ Called \in visited
  /\ Return
  /\ UNCHANGED <<edges, phase, visiting, visited, seeds, result>>

VisitEnters ==
  /\ phase = "checking" /\ Calling /\ Called \notin visiting \union visited
  /\ Enter /\ visiting' = visiting \union {Called}
  /\ UNCHANGED <<edges, phase, visited, seeds, result>>

VisitLeaves ==
  /\ phase = "checking" /\ Over
  /\ Leave /\ visiting' = visiting \ {Top.node} /\ visited' = visited \union {Top.node}
  /\ UNCHANGED <<edges, phase, seeds, result>>

Accept ==
  /\ phase = "checking" /\ Done
  /\ phase' = "accepted"
  /\ UNCHANGED <<edges, stack, visiting, visited, seeds, result>>

-----------------------------------------------------------------------------
(* impact and _transitive *)

\* A question, with the nodes that are invalidated directly.
Ask(direct) ==
  /\ phase \in {"accepted", "answered"}
  /\ phase' = "searching" /\ stack' = <<Frame(Caller, direct)>>
  /\ seeds' = direct /\ result' = {}
  /\ UNCHANGED <<edges, visiting, visited>>

\* A node in the result is not entered again.
TransitiveReturns ==
  /\ phase = "searching" /\ Calling /\ Called \in result
  /\ Return
  /\ UNCHANGED <<edges, phase, visiting, visited, seeds, result>>

\* Faulty: only the nodes from which the search starts are looked into.
TransitiveEntersOneLevel ==
  /\ phase = "searching" /\ Calling /\ Called \notin result
  /\ IF Depth = 1 THEN Enter ELSE Return
  /\ result' = result \union {Called}
  /\ UNCHANGED <<edges, phase, visiting, visited, seeds>>

TransitiveEnters ==
  /\ phase = "searching" /\ Calling /\ Called \notin result
  /\ Enter /\ result' = result \union {Called}
  /\ UNCHANGED <<edges, phase, visiting, visited, seeds>>

TransitiveLeaves ==
  /\ phase = "searching" /\ Over
  /\ Leave
  /\ UNCHANGED <<edges, phase, visiting, visited, seeds, result>>

Answer ==
  /\ phase = "searching" /\ Done
  /\ phase' = "answered"
  /\ UNCHANGED <<edges, stack, visiting, visited, seeds, result>>

SearchNext ==
  \/ \E n, m \in Names : AddEdge(n, m)
  \/ CheckCycles \/ VisitRaises \/ VisitReturns \/ VisitEnters \/ VisitLeaves \/ Accept
  \/ \E direct \in SUBSET Names : Ask(direct)
  \/ TransitiveReturns \/ TransitiveEnters \/ TransitiveLeaves \/ Answer

SearchSpec == SearchInit /\ [][SearchNext]_searchVars

-----------------------------------------------------------------------------
\* There is a set of nodes within which an edge leads on from every node.
Circular ==
  \E ring \in SUBSET Names :
    ring # {} /\ \A n \in ring : \E m \in ring : [source |-> n, target |-> m] \in edges

(***************************************************************************)
(* A configuration is refused exactly when its edges form a cycle: a node  *)
(* that is reached twice, as in a diamond, is none (graph.py:127-143).     *)
(* The answer to a question is the nodes downstream of those invalidated   *)
(* directly, no more and no less, although the calls share one result and  *)
(* return early at what another has found (graph.py:145-170).              *)
(***************************************************************************)
SearchesAreRight ==
  /\ phase = "refused" => Circular
  /\ phase \in {"accepted", "searching", "answered"} => ~Circular
  /\ phase = "answered" => result = Graph!Downstream(seeds)
=============================================================================

--------------------------- MODULE DependencyGraph ---------------------------
(***************************************************************************)
(* DependencyGraph (dependency/graph.py): which derived nodes a canonical  *)
(* change invalidates.  A path is the sequence of its segments.  A rule    *)
(* names path patterns and the nodes they invalidate directly; edges lead  *)
(* from a node to the nodes computed from it.                              *)
(***************************************************************************)
EXTENDS Naturals, Sequences

CONSTANTS
  Rules,    \* set of [when : patterns, invalidates : nodes]
  Edges,    \* set of [source : node, target : node]
  Wildcard  \* the pattern segment "*"

\* path_matches: the pattern is a prefix of the path, segment by segment.
PathMatches(pattern, path) ==
  /\ Len(pattern) <= Len(path)
  /\ \A i \in 1 .. Len(pattern) : pattern[i] \in {Wildcard, path[i]}

Nodes ==
  (UNION {rule.invalidates : rule \in Rules})
    \cup {e.source : e \in Edges} \cup {e.target : e \in Edges}

\* What the depth-first search of _transitive collects: the least set of nodes
\* that holds the seeds and everything downstream of its members.
Closed(nodes) == \A e \in Edges : e.source \in nodes => e.target \in nodes

Downstream(seeds) ==
  {n \in Nodes : \A closed \in SUBSET Nodes :
                   seeds \subseteq closed /\ Closed(closed) => n \in closed}

Direct(paths) ==
  UNION {rule.invalidates : rule \in
    {r \in Rules : \E pattern \in r.when, path \in paths : PathMatches(pattern, path)}}

Impact(paths) == Downstream(Direct(paths))
=============================================================================

------------------------- MODULE ContinuousClearance -------------------------
(***************************************************************************)
(* The proofs of clearance along a whole motion:                           *)
(* MultiJointContinuousClearanceProofService, whose requests have two      *)
(* versions (multi_joint_continuous_clearance.py), and                     *)
(* ContinuousSingleAxisClearanceProof (continuous_proof.py).  A proof      *)
(* measures the parts exactly in the middle of an interval of the motion.  *)
(* If no part can come too near before the ends of the interval, it is     *)
(* certified; if not, it is halved, as far as depth, width and the number  *)
(* of measurements allow.                                                  *)
(*                                                                         *)
(* A segment of the path has the positions 0 .. Grid, at any fineness; the *)
(* positions of the joints are whole numbers in units fit for it.  Lengths *)
(* are whole, too.  What FreeCAD measures is given: the distance of a pair *)
(* of instances in a configuration, 0 when they touch or interfere.        *)
(*                                                                         *)
(*   request  [engine, model, moving, stationary, scope, path, required,   *)
(*            guard, depth, width, budget]                                 *)
(*   interval [segment, start, end, depth]                                 *)
(***************************************************************************)
EXTENDS ReachBounds

CONSTANTS
  Grid,    \* the positions of a segment are 0 .. Grid
  Cases,   \* [request, distance], distance: pair -> configuration -> length
  None

Engines == {"axis", "path", "path2"}

\* A path of at least two waypoints, and the bounds that requests are validated for.
ASSUME CasesAssumption ==
  /\ Grid \in Nat \ {0}
  /\ \A case \in Cases :
       /\ case.request.engine \in Engines
       /\ Len(case.request.path) \in Nat /\ Len(case.request.path) >= 2
       /\ case.request.required \in Nat /\ case.request.guard \in Nat
       /\ case.request.depth \in Nat
       /\ case.request.width \in Nat \ {0} /\ case.request.budget \in Nat \ {0}

VARIABLES
  request,
  distance,
  checked,      \* waypoints found clear
  measured,     \* configurations measured; the cache of the path engines
  calls,        \* measurements made
  pending,      \* intervals to be looked at
  certified,
  unresolved,
  witness,      \* a place of the path where parts are too near, or None
  status        \* waypoints, proving, refused, raised or one of the three answers

vars == <<request, distance, checked, measured, calls, pending, certified, unresolved,
          witness, status>>

-----------------------------------------------------------------------------
(* The path *)

Segments(q) == 1 .. Len(q.path) - 1

Turn(q, segment, j) == q.path[segment + 1][j] - q.path[segment][j]

\* interpolate.
At(q, segment, k) ==
  [j \in JointsOf(q.model) |-> Grid * q.path[segment][j] + k * Turn(q, segment, j)]

Waypoint(q, index) ==
  IF index = Len(q.path) THEN At(q, index - 1, Grid) ELSE At(q, index, 0)

\* The parts that the request wants apart.
PairsOf(q) ==
  IF q.engine = "path2" THEN q.scope ELSE {{m, s} : m \in q.moving, s \in q.stationary}

Size(n) == IF n < 0 THEN -n ELSE n

\* By how much the distance of a pair can shrink within `span` positions.
Motion(q, pair, segment, span) ==
  MapThenSumSet(
    LAMBDA i : BodyBound(q.model, i, [j \in JointsOf(q.model) |-> Size(Turn(q, segment, j)) * span]),
    pair)

\* Requests are validated when they are made, then against the assembly.  The
\* reach bounds are derived at home, which the limits must admit.  The engine of
\* one axis wants every instance to be either moving or stationary.
Acceptable(q) ==
  LET joints == q.model.joints
      within(j, angle) == joints[j].low <= angle /\ angle <= joints[j].high
  IN /\ Topology(q.model)
     /\ q.moving \cap q.stationary = {}
     /\ q.engine = "axis" => q.moving \cup q.stationary = InstancesOf(q.model)
     /\ q.engine = "path2" =>
          \A pair \in q.scope : \A i, k \in pair :
            i # k => q.model.instances[i].body # q.model.instances[k].body
     /\ q.engine # "axis" =>
          \A j \in DOMAIN joints :
            within(j, 0) /\ \A index \in DOMAIN q.path : within(j, q.path[index][j])

-----------------------------------------------------------------------------
(* Intervals *)

Interval(segment, start, end, depth) ==
  [segment |-> segment, start |-> start, end |-> end, depth |-> depth]

Whole(segment) == Interval(segment, 0, Grid, 0)

Middle(i) == (i.start + i.end) \div 2

Reference(i) == At(request, i.segment, Middle(i))

\* Intervals are looked at from the start of the path to its end: the left half
\* first, and then what is left of the segment.
First(i) ==
  /\ i \in pending
  /\ \A k \in pending :
       k.segment > i.segment \/ (k.segment = i.segment /\ k.start >= i.start)

-----------------------------------------------------------------------------
(* A faulty variant, for the property to reject. *)

FarWithinQuarter(i) ==
  \A pair \in PairsOf(request) :
    distance[pair][Reference(i)]
      - Motion(request, pair, i.segment, (i.end - Middle(i)) \div 2)
      > request.required + request.guard

-----------------------------------------------------------------------------

Halves(i) ==
  {Interval(i.segment, i.start, Middle(i), i.depth + 1),
   Interval(i.segment, Middle(i), i.end, i.depth + 1)}

\* What a configuration must exceed in order not to be a witness: the engine of
\* one axis stops only at parts that touch.
Bar == IF request.engine = "axis" THEN 0 ELSE request.required

Struck(configuration) ==
  \E pair \in PairsOf(request) : distance[pair][configuration] <= Bar

\* Every pair is so far apart in the middle that it is apart everywhere.
Far(i) ==
  \A pair \in PairsOf(request) :
    distance[pair][Reference(i)] - Motion(request, pair, i.segment, i.end - Middle(i))
      > request.required + request.guard

Known(configuration) == request.engine # "axis" /\ configuration \in measured

Measurable(configuration) == Known(configuration) \/ calls < request.budget

Measure(configuration) ==
  /\ Measurable(configuration)
  /\ measured' = measured \cup {configuration}
  /\ calls' = IF Known(configuration) THEN calls ELSE calls + 1

-----------------------------------------------------------------------------

Init ==
  /\ \E case \in Cases : request = case.request /\ distance = case.distance
  /\ checked = 0 /\ measured = {} /\ calls = 0
  /\ pending = {Whole(segment) : segment \in Segments(request)}
  /\ certified = {} /\ unresolved = {} /\ witness = None
  /\ status = IF ~Acceptable(request) THEN "refused"
              ELSE IF request.engine = "axis" THEN "proving" ELSE "waypoints"

Witness(segment, at) ==
  /\ witness' = [segment |-> segment, at |-> at]
  /\ status' = "collision_witness"

\* The waypoints are measured first; if one cannot be, the proof ends.
CheckWaypoint ==
  LET index == checked + 1
      place == IF index = Len(request.path) THEN <<index - 1, Grid>> ELSE <<index, 0>>
  IN /\ status = "waypoints" /\ checked < Len(request.path)
     /\ \/ /\ Measure(Waypoint(request, index))
           /\ checked' = index
           /\ IF Struck(Waypoint(request, index)) THEN Witness(place[1], place[2])
              ELSE UNCHANGED <<witness, status>>
           /\ UNCHANGED unresolved
        \/ /\ ~Measurable(Waypoint(request, index))
           /\ unresolved' = {Whole(place[1])}
           /\ status' = "not_proven"
           /\ UNCHANGED <<checked, measured, calls, witness>>
     /\ UNCHANGED <<request, distance, pending, certified>>

StartProof ==
  /\ status = "waypoints" /\ checked = Len(request.path)
  /\ status' = "proving"
  /\ UNCHANGED <<request, distance, checked, measured, calls, pending, certified,
                 unresolved, witness>>

Look(i) == status = "proving" /\ First(i) /\ UNCHANGED <<request, distance, checked>>

\* The budget is used up; the intervals that follow are still looked at, since
\* their middle may have been measured before.
RunOut(i) ==
  /\ Look(i)
  /\ ~Measurable(Reference(i))
  /\ unresolved' = unresolved \cup {i}
  /\ pending' = pending \ {i}
  /\ UNCHANGED <<measured, calls, certified, witness, status>>

Strike(i) ==
  /\ Look(i)
  /\ Measure(Reference(i)) /\ Struck(Reference(i))
  /\ Witness(i.segment, Middle(i))
  /\ UNCHANGED <<pending, certified, unresolved>>

Certify(i) ==
  /\ Look(i)
  /\ Measure(Reference(i)) /\ ~Struck(Reference(i))
  /\ Far(i)
  /\ certified' = certified \cup {i}
  /\ pending' = pending \ {i}
  /\ UNCHANGED <<unresolved, witness, status>>

AtLimit(i) == i.depth >= request.depth \/ i.end - i.start <= request.width

GiveUp(i) ==
  /\ Look(i)
  /\ Measure(Reference(i)) /\ ~Struck(Reference(i))
  /\ ~Far(i) /\ AtLimit(i)
  /\ unresolved' = unresolved \cup {i}
  /\ pending' = pending \ {i}
  /\ UNCHANGED <<certified, witness, status>>

Halve(i) ==
  /\ Look(i)
  /\ Measure(Reference(i)) /\ ~Struck(Reference(i))
  /\ ~Far(i) /\ ~AtLimit(i)
  /\ pending' = (pending \ {i}) \cup Halves(i)
  /\ UNCHANGED <<certified, unresolved, witness, status>>

\* The leaves of a segment, in order, begin where the last one ended.
Tiled(leaves) ==
  /\ \E leaf \in leaves : leaf.start = 0
  /\ \A leaf \in leaves :
       /\ leaf.start < leaf.end
       /\ leaf.end = Grid \/ \E next \in leaves : next.start = leaf.end
  /\ \A a, b \in leaves : a # b => a.end <= b.start \/ b.end <= a.start

Conclude ==
  /\ status = "proving" /\ pending = {}
  /\ status' =
       IF unresolved # {} THEN "not_proven"
       ELSE IF \/ request.engine = "axis"
               \/ \A segment \in Segments(request) :
                    Tiled({leaf \in certified : leaf.segment = segment})
       THEN "verified_clear" ELSE "raised"
  /\ UNCHANGED <<request, distance, checked, measured, calls, pending, certified,
                 unresolved, witness>>

Next ==
  \/ CheckWaypoint
  \/ StartProof
  \/ \E i \in pending : RunOut(i) \/ Strike(i) \/ Certify(i) \/ GiveUp(i) \/ Halve(i)
  \/ Conclude

Spec == Init /\ [][Next]_vars

-----------------------------------------------------------------------------
(* Properties *)

Within(i, segment, k) == i.segment = segment /\ i.start <= k /\ k <= i.end

\* All pairs are apart at a position of the path.
Apart(segment, k) ==
  \A pair \in PairsOf(request) :
    distance[pair][At(request, segment, k)] > request.required

\* An answer is true of the motion itself, not only of what was measured.  Clear
\* means clear at every position of the path; a witness is a place of the path where
\* parts are too near; a proof that fails leaves some interval open, and what it
\* certified is clear nevertheless.  Once the intervals are looked at, none of the
\* path gets lost, whatever the budget, the depth and the order of failures, so that
\* the final check of the leaves never raises
\* (multi_joint_continuous_clearance.py:444-560, continuous_proof.py:467-578).
VerdictIsTrue ==
  /\ status = "verified_clear" =>
       \A segment \in Segments(request), k \in 0 .. Grid : Apart(segment, k)
  /\ status = "collision_witness" =>
       Struck(At(request, witness.segment, witness.at))
  /\ status = "not_proven" => unresolved # {}
  /\ \A leaf \in certified : \A k \in leaf.start .. leaf.end : Apart(leaf.segment, k)
  /\ status = "proving" \/ certified # {} =>
       \A segment \in Segments(request), k \in 0 .. Grid :
         \E i \in certified \cup unresolved \cup pending : Within(i, segment, k)
  /\ status # "raised"
=============================================================================

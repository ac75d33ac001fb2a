---------------------------- MODULE MCAlgorithms ----------------------------
(***************************************************************************)
(* The algorithms of the harness over bounded inputs, each on its own:     *)
(* the searches of the dependency graph on every graph of four nodes with  *)
(* up to MaxEdges edges, and the proofs of clearance for the motions below.*)
(***************************************************************************)
EXTENDS DependencySearch, ContinuousClearance, TLC

CONSTANTS base, link, tool, camera, j1, j2

MCRank == "loads" :> 1 @@ "packaging" :> 2 @@ "structural" :> 3 @@ "torque" :> 4
MCNames == DOMAIN MCRank

-----------------------------------------------------------------------------
(* A mechanism: the link turns on the base, the tool on the link; the camera *)
(* is fastened to the tool.                                                  *)

HalfTurn == 6
MCChord(length, angle) == length * Min({angle, HalfTurn})

Joint(parent, child, enters, leaves) ==
  [parent |-> parent, child |-> child, enters |-> enters, leaves |-> leaves,
   low |-> 0, high |-> 2]
Member(body, offset, radius) == [body |-> body, offset |-> offset, radius |-> radius]

Arm ==
  [joints |-> j1 :> Joint(base, link, 0, 1) @@ j2 :> Joint(link, tool, 1, 0),
   instances |-> base :> Member(base, 0, 1) @@ link :> Member(link, 0, 0)
                 @@ tool :> Member(tool, 0, 0) @@ camera :> Member(tool, 1, 0)]

Lid ==
  [joints |-> j1 :> Joint(base, link, 0, 1),
   instances |-> base :> Member(base, 0, 0) @@ link :> Member(link, 0, 1)]

\* No mechanisms: a ring, and a part that hangs on two others.
Ring == [Arm EXCEPT !.joints[j1].parent = tool]
Double == [Arm EXCEPT !.joints[j1].child = tool]

\* Home is outside the limits of the joint.
Shut == [Lid EXCEPT !.joints[j1].low = 1]

-----------------------------------------------------------------------------
(* How far the joint really carries an instance: its distance from the axis, *)
(* at most, body by body.                                                    *)

Lever(model, instance, j) ==
  LET bodies == {base, link, tool}
      lever[body \in bodies] ==
        IF \A k \in JointsOf(model) : model.joints[k].child # body THEN 0
        ELSE LET k == CHOOSE k \in JointsOf(model) : model.joints[k].child = body
                 joint == model.joints[k]
             IN IF k = j THEN joint.leaves
                ELSE IF lever[joint.parent] = 0 THEN 0
                ELSE lever[joint.parent] + joint.enters + joint.leaves
      member == model.instances[instance]
  IN IF lever[member.body] = 0 THEN 0 ELSE lever[member.body] + member.offset + member.radius

\* By how much the distance of a pair can differ between two configurations.
Gap(model, pair, c, d) ==
  MapThenSumSet(
    LAMBDA i : MapThenSumSet(
                 LAMBDA j : MCChord(Lever(model, i, j), Size(c[j] - d[j])), JointsOf(model)),
    pair)

Configurations(q) == {At(q, segment, k) : segment \in Segments(q), k \in 0 .. Grid}

\* All the distances a pair may have, up to a largest one.
Gentle(q, pair, largest) ==
  LET all == Configurations(q)
      gap == [c, d \in all |-> Gap(q.model, pair, c, d)]
  IN {f \in [all -> 0 .. largest] : \A c, d \in all : f[c] <= f[d] + gap[c, d]}

\* The steepest of them: nearest at one place, and away from it as fast as can be.
Dips(q, pair, largest) ==
  LET all == Configurations(q)
  IN {[c \in all |-> Min({largest, least + Gap(q.model, pair, c, nearest)})] :
        nearest \in all, least \in {0, 2}}

-----------------------------------------------------------------------------
(* Requests *)

Asked(engine, model, scope, path) ==
  {[engine |-> engine, model |-> model, scope |-> scope, path |-> path,
    moving |-> DOMAIN model.instances \ {base}, stationary |-> {base},
    required |-> required, guard |-> guard, depth |-> depth, width |-> width,
    budget |-> budget] :
     required \in {0, 1}, guard \in {0, 1}, depth \in {1, 2}, width \in {1, 2},
     budget \in {2, 5, 9}}

\* The lid is opened and shut, which meets each configuration twice; or opened, by
\* either engine.
LidPath == << j1 :> 0, j1 :> 1, j1 :> 0 >>
LidRequests ==
  Asked("path", Lid, {}, LidPath) \cup Asked("axis", Lid, {}, << j1 :> 0, j1 :> 1 >>)
ArmRequests ==
  Asked("path2", Arm, {{base, tool}, {link, camera}},
        << j1 :> 0 @@ j2 :> 0, j1 :> 1 @@ j2 :> 0, j1 :> 1 @@ j2 :> 1 >>)
Refused ==
  {q \in Asked("path2", Ring, {{base, tool}}, << j1 :> 0 @@ j2 :> 0, j1 :> 1 @@ j2 :> 0 >>)
         \cup Asked("path2", Double, {{base, tool}}, << j1 :> 0 @@ j2 :> 0, j1 :> 1 @@ j2 :> 0 >>)
         \cup Asked("path2", Arm, {{tool, camera}}, << j1 :> 0 @@ j2 :> 0, j1 :> 1 @@ j2 :> 0 >>)
         \cup Asked("path", Shut, {}, << j1 :> 1, j1 :> 2 >>) :
     q.budget = 2 /\ q.guard = 0}

Case(q, d) == [request |-> q, distance |-> d]

MCCases ==
  LET lid == {base, link}
      some == CHOOSE q \in LidRequests : TRUE
      worlds == Gentle(some, lid, 6)
  IN {Case(q, lid :> f) : q \in {q \in LidRequests : q.guard = 0 /\ q.depth = 2 /\ (q.budget = 9 \/ q.required = 1)}, f \in worlds}
     \cup (UNION {{Case(q, {base, tool} :> f @@ {link, camera} :> g) :
                    f \in Dips(q, {base, tool}, 12), g \in Dips(q, {link, camera}, 12)} :
                 q \in {q \in ArmRequests : q.guard = 1 /\ q.width = 1}})
     \cup {Case(q, << >>) : q \in Refused}

\* The reach bounds admit everything that the levers do.
ASSUME LeverAssumption ==
  \A q \in LidRequests \cup ArmRequests : \A pair \in PairsOf(q), segment \in Segments(q) :
    \A k, m \in 0 .. Grid :
      Gap(q.model, pair, At(q, segment, k), At(q, segment, m))
        <= Motion(q, pair, segment, Size(k - m))

\* TLC evaluates a definition once, but the definition of a constant wherever the
\* constant is mentioned: this only names the definition above.
TheCases == MCCases

-----------------------------------------------------------------------------
(* One algorithm at a time *)

Idle ==
  /\ request = None /\ distance = None /\ checked = 0 /\ measured = {} /\ calls = 0
  /\ pending = {} /\ certified = {} /\ unresolved = {} /\ witness = None
  /\ status = "idle"

AlgorithmsInit == SearchInit /\ (Init \/ Idle)

AlgorithmsNext ==
  \/ status = "idle" /\ SearchNext /\ UNCHANGED vars
  \/ Next /\ UNCHANGED searchVars

AlgorithmsSpec == AlgorithmsInit /\ [][AlgorithmsNext]_<<searchVars, vars>>
=============================================================================

----------------------------- MODULE ReachBounds -----------------------------
(***************************************************************************)
(* How far joints can move the parts of a mechanism: the topology          *)
(* (multi_joint_kinematics.py) and derive_reach_bounds                     *)
(* (multi_joint_continuous_path.py).  Both versions of a kinematic model   *)
(* are here; in one of the first version every instance is its own body.   *)
(*                                                                         *)
(*   model   [joints, instances], where                                    *)
(*     joints     joint -> [parent, child, enters, leaves, low, high]: two *)
(*                bodies, the lengths from the origin of the parent to the *)
(*                axis and from the axis to the origin of the child, and   *)
(*                the limits of its angle                                  *)
(*     instances  instance -> [body, offset, radius]: how far it is from   *)
(*                the origin of its body, and how large                    *)
(***************************************************************************)
EXTENDS Integers, Sequences, FiniteSets, FiniteSetsExt, SequencesExt

CONSTANT Chord(_, _)   \* length and angle -> how far the end of the length moves,
                       \* 2 * length * sin(angle / 2) up to half a turn

JointsOf(model) == DOMAIN model.joints
InstancesOf(model) == DOMAIN model.instances

\* The joints by which a body hangs on another.
Above(model, body) == {j \in JointsOf(model) : model.joints[j].child = body}

\* A cycle is a set of joints whose parents all hang on joints of the set.
Cyclic(model) ==
  \E loop \in SUBSET JointsOf(model) \ {{}} :
    \A j \in loop : Above(model, model.joints[j].parent) \cap loop # {}

Topology(model) ==
  /\ \A j \in JointsOf(model) : model.joints[j].parent # model.joints[j].child
  /\ \A j \in JointsOf(model) : Above(model, model.joints[j].child) = {j}
  /\ ~Cyclic(model)

\* The joints from the root down to a body.
ParentChain(model, body) ==
  LET bodies == {model.joints[j].parent : j \in JointsOf(model)}
                  \cup {model.joints[j].child : j \in JointsOf(model)} \cup {body}
      chain[b \in bodies] ==
        IF Above(model, b) = {} THEN << >>
        ELSE LET j == CHOOSE j \in Above(model, b) : TRUE
             IN Append(chain[model.joints[j].parent], j)
  IN chain[body]

\* From the axis of the first joint of the chain to the origin of the last child.
Offsets(model, chain) ==
  [i \in DOMAIN chain |->
     (IF i = 1 THEN 0 ELSE model.joints[chain[i]].enters) + model.joints[chain[i]].leaves]

\* No record is made for a joint that is not above the instance.
Reach(model, instance, joint) ==
  LET member == model.instances[instance]
      chain == ParentChain(model, member.body)
      relevant == SubSeq(chain, SelectInSeq(chain, LAMBDA j : j = joint), Len(chain))
  IN IF ~Contains(chain, joint) THEN 0
     ELSE member.radius + member.offset
            + FoldLeft(LAMBDA sum, offset : sum + offset, 0, Offsets(model, relevant))

\* How far the joints move an instance when each turns by an angle of its own.
BodyBound(model, instance, angles) ==
  MapThenSumSet(LAMBDA j : Chord(Reach(model, instance, j), angles[j]), JointsOf(model))
=============================================================================

------------------------- MODULE StructuralExecution -------------------------
(***************************************************************************)
(* Structural analyses and the files they leave (structural/service.py,    *)
(* solver.py).  An execution creates its run while it holds the project    *)
(* lock and finds the revision its request is bound to still current; from *)
(* then on it works on that revision, whatever others commit.  It meshes   *)
(* the body once, then solves the cases of the request one by one until    *)
(* the first that fails, and last writes the manifest of its run.  It may  *)
(* die between any two of these, and its files may be damaged later.       *)
(*                                                                         *)
(* A request is [revision, definition, geometry, program, cases, mesh,     *)
(* fields, policy]: the names of the definition and the STEP file it is    *)
(* bound to, the program that file is said to be made from, the cases in   *)
(* order, the specification of the mesh, the fields wanted, and the region *)
(* that is the free end where it names an analytical policy, or None.      *)
(*                                                                         *)
(* Of a STEP file its origin says on which provider of geometry, by which  *)
(* tool and from which program it was made.                                *)
(***************************************************************************)
EXTENDS StructuralResults

CONSTANTS
  Bodies,          \* the body in a STEP file
  Origins,         \* of a STEP file: [provider, tool, program]
  Provider,        \* the provider of geometry analyses run with
  Definitions,     \* the definition a name stands for
  Plans,           \* what clients ask for, one request after the other
  Fields,          \* [displacement, stress] a solver may come to
  Outcomes,        \* what comes of a body and a definition, see OutcomesOf
  Meshes,          \* what is kept of their mesh, see MeshesOf
  Decks,           \* the deck of a job, see DecksOf
  Supported,       \* whether the supports of a job hold the body, see SupportedOf
  MaxOpen,         \* executions at work at once
  MaxRevisions,
  MaxFaults,       \* executions that die or fail by accident, files damaged
  MaxEffort        \* revisions, executions and faults together

\* The bodies, meshes and decks are the same whenever they are made, so what a
\* body and a definition come to is worked out once.
OutcomesOf ==
  [p \in (DOMAIN Bodies) \X (DOMAIN Definitions) |-> Outcome(Bodies[p[1]], Definitions[p[2]])]
Meshable == {p \in DOMAIN OutcomesOf : OutcomesOf[p] = "SUCCEEDED"}
MeshesOf == [p \in Meshable |-> Meshed(Bodies[p[1]], Definitions[p[2]])]

\* A job is a load case of a definition, on a body.
Jobs == UNION {{<<p[1], p[2], case>> : case \in DOMAIN Definitions[p[2]].loads} : p \in Meshable}
DecksOf ==
  [j \in Jobs |->
    LET body == Bodies[j[1]]
        definition == Definitions[j[2]]
    IN  IF Buildable(body, definition, j[3]) THEN Deck(body, definition, j[3]) ELSE None]
SupportedOf ==
  [j \in Jobs |-> Adequate(Bodies[j[1]], FixedNodes(Bodies[j[1]], Definitions[j[2]], j[3]))]

ASSUME WorkedOut ==
  /\ Outcomes = OutcomesOf /\ Meshes = MeshesOf /\ Decks = DecksOf /\ Supported = SupportedOf

\* Requests have cases, each once; limits and what a solver writes are not negative.
RequestFields ==
  {"revision", "definition", "geometry", "program", "cases", "mesh", "fields", "policy"}
IsSeq(s) == s \in Seq({s[i] : i \in DOMAIN s})
ResultFields == {"displacement", "stress", "reactions"}
IsRequest(r) ==
  /\ DOMAIN r = RequestFields
  /\ r.geometry \in DOMAIN Bodies /\ r.definition \in DOMAIN Definitions
  /\ IsSeq(r.cases) /\ r.cases # << >> /\ IsInjective(r.cases)
  /\ r.fields \subseteq ResultFields

\* Faces of a body have an area, its mesh has finitely many nodes, the elements are of
\* those, and triangles have three corners.
ASSUME BodyAssumption ==
  \A g \in DOMAIN Bodies :
    LET body == Bodies[g]
    IN  /\ IsSeq(body.faces)
        /\ \A face \in Range(body.faces) :
             face.area \in Nat \ {0} /\ face.centroid \in [Axes -> Int]
        /\ IsFiniteSet(DOMAIN body.nodes)
        /\ \A n \in DOMAIN body.nodes : body.nodes[n] \in [Axes -> Int]
        /\ \A e \in DOMAIN body.tets : body.tets[e] \in [1..10 -> DOMAIN body.nodes]
        /\ \A tag \in DOMAIN body.skin :
             /\ IsSeq(body.skin[tag])
             /\ \A i \in DOMAIN body.skin[tag] :
                  LET nodes == body.skin[tag][i].nodes
                  IN  /\ IsSeq(nodes) /\ Range(nodes) \subseteq DOMAIN body.nodes
                      /\ \A k, l \in 1..3 : k # l => nodes[k] # nodes[l]

\* Names of regions are in Elset, and none becomes the name of the volume.  Loads,
\* supports and criteria are of the regions of their definition.
ASSUME DefinitionAssumption ==
  \A d \in DOMAIN Definitions :
    LET definition == Definitions[d]
        names == RegionNames(definition)
    IN  /\ names \subseteq DOMAIN Elset /\ \A id \in names : Elset[id] # "volume"
        /\ \A c \in definition.criteria : c.region \in names
        /\ \A case \in DOMAIN definition.loads :
             /\ IsSeq(Supports(definition, case)) /\ IsSeq(Resultants(definition, case))
             /\ \A s \in Range(Supports(definition, case)) : s.region \in names
             /\ \A load \in Range(Resultants(definition, case)) :
                  /\ load.region \in names \intersect LoadedRegions(definition, case)
                  /\ load.force \in [Axes -> Int]

ASSUME ExecutionAssumption ==
  /\ \A plan \in Plans : IsSeq(plan) /\ \A i \in DOMAIN plan : IsRequest(plan[i])
  /\ Fields # {} /\ Fields \subseteq [displacement : Nat, stress : Nat]
  /\ \A d \in DOMAIN Definitions :
       /\ Definitions[d].material.yield \in Nat
       /\ \A c \in Definitions[d].criteria :
            c.kind \in {"displacement", "stress"} /\ c.limit \in Nat

VARIABLES
  history,     \* the name of the definition in every revision
  executions,  \* one for every run, in the order they were created
  damaged,     \* <<execution, file>>, and <<0, geometry>> for STEP files
  copies,      \* the runs that hold the STEP file of a geometry
  faults

execVars == <<history, executions, damaged, copies, faults>>

Runs == DOMAIN executions
Current == Len(history)
Failed(status) == status \notin {"none", "SUCCEEDED"}

Init ==
  /\ history \in {<<d>> : d \in DOMAIN Definitions}
  /\ executions = << >>
  /\ damaged = {}
  /\ copies = [g \in DOMAIN Bodies |-> 1]
  /\ faults = 0

\* The bound on what happens to a project altogether.
Room == Current + Len(executions) + faults < MaxEffort

\* Another revision; the STEP files of the model are bound to every revision.
Commit(definition) ==
  /\ Current < MaxRevisions /\ Room
  /\ history' = Append(history, definition)
  /\ UNCHANGED <<executions, damaged, copies, faults>>

\* A file is damaged, or the STEP file of a geometry is published once more.
Fault == faults < MaxFaults /\ Room /\ faults' = faults + 1

\* The files a run holds.  A solver that could be had leaves its log, one that
\* ran its results as well.
FilesOf(c) ==
  (IF c.deck THEN {<<c.case, "deck">>} ELSE {}) \union
  (IF c.output = None THEN {} ELSE {<<c.case, "log">>} \union
     (IF c.output.exit = None THEN {} ELSE {<<c.case, "frd">>, <<c.case, "dat">>}))
Files(x) ==
  (IF executions[x].meshed THEN {<<"all", "mesh">>} ELSE {}) \union
  (IF executions[x].manifest THEN {<<"all", "manifest">>} ELSE {}) \union
  UNION {FilesOf(c) : c \in Range(executions[x].cases)}

Damage(x, file) ==
  /\ Fault
  /\ damaged' = damaged \union {<<x, file>>}
  /\ UNCHANGED <<history, executions, copies>>

DamageStep(geometry) ==
  /\ Fault
  /\ damaged' = damaged \union {<<0, geometry>>}
  /\ UNCHANGED <<history, executions, copies>>

CopyStep(geometry) ==
  /\ Fault
  /\ copies' = [copies EXCEPT ![geometry] = @ + 1]
  /\ UNCHANGED <<history, executions, damaged>>

\* read_verified_in_project: the STEP file is in one run only, and intact.
StepReadable(geometry) == copies[geometry] = 1 /\ <<0, geometry>> \notin damaged
Intact(x, file) == <<x, file>> \notin damaged

-----------------------------------------------------------------------------
(* An execution *)

\* execute, up to the release of the project lock.  A request that is not bound
\* to the current revision is refused before there is a run.
Start(request) ==
  /\ Room
  /\ Cardinality({x \in Runs : executions[x].step # "stopped"}) < MaxOpen
  /\ request.revision = Current
  /\ executions' = Append(executions,
       [request |-> request, step |-> "created", status |-> "none", cases |-> << >>,
        meshed |-> FALSE, manifest |-> FALSE])
  /\ UNCHANGED <<history, damaged, copies, faults>>

\* What a client may ask for next.
Asked == [x \in Runs |-> [executions[x].request EXCEPT !.revision = 1]]
NextRequests ==
  {plan[Len(executions) + 1] : plan \in {p \in Plans : Asked # p /\ IsPrefix(Asked, p)}}

Body(x) == Bodies[executions[x].request.geometry]
Definition(x) == Definitions[executions[x].request.definition]

\* The definition of the revision of the run is the one the request was made
\* for, and has its cases.
RequestFits(x) ==
  LET request == executions[x].request
  IN  /\ history[request.revision] = request.definition
      /\ Range(request.cases) \subseteq DOMAIN Definition(x).loads

\* What comes of the geometry, the regions and the mesh of a run.
Prepared(x) ==
  LET request == executions[x].request
  IN  IF ~RequestFits(x) \/ ~StepReadable(request.geometry)
           \/ Origins[request.geometry].provider # Provider
      THEN "GEOMETRY_REJECTED"
      ELSE Outcomes[<<request.geometry, request.definition>>]

\* A failure before the cases leaves the run as it is, with no manifest.
Stop(x, status) ==
  executions' = [executions EXCEPT ![x].step = "stopped", ![x].status = status]

\* _run_pipeline, up to the publication of the mesh.
Prepare(x) ==
  /\ executions[x].step = "created"
  /\ IF Prepared(x) = "SUCCEEDED"
     THEN executions' = [executions EXCEPT ![x].step = "solving", ![x].meshed = TRUE]
     ELSE Stop(x, Prepared(x))
  /\ UNCHANGED <<history, damaged, copies, faults>>

\* The CAD kernel or the mesher does not answer.
ProviderFails(x, status) ==
  /\ executions[x].step = "created"
  /\ Fault
  /\ Stop(x, status)
  /\ UNCHANGED <<history, damaged, copies>>

\* What the solver may leave: None where it cannot be had; no exit code where it
\* does not start or runs out of time; else its files, whole or not, and whether
\* it says that the job finished.
NoFrd == [datasets |-> {}, nodes |-> {}, displacement |-> 0, stress |-> 0]
Unsolved == [exit |-> None, finished |-> FALSE, frd |-> NoFrd, dat |-> << >>]

\* A solver writes the fields a deck asks for, at every node; and, where the
\* deck asks for reactions, a section for every node set of the deck.
Solved(x, deck, field) ==
  [exit |-> 0, finished |-> TRUE,
   frd |-> [datasets |-> executions[x].request.fields \intersect FrdFields,
            nodes |-> DOMAIN Body(x).nodes,
            displacement |-> field.displacement, stress |-> field.stress],
   dat |-> IF "reactions" \in executions[x].request.fields THEN deck.sets ELSE << >>]

Mishaps(x, deck) ==
  LET some == Solved(x, deck, CHOOSE f \in Fields : TRUE)
  IN  {None, Unsolved, [Unsolved EXCEPT !.exit = 201],
       [some EXCEPT !.finished = FALSE], [some EXCEPT !.frd.nodes = {}]}

\* A deck that asks for stresses only prints nothing, and its DAT file is empty.
PrintsNothing(fields) == fields \intersect {"displacement", "reactions"} = {}

\* _classify_solver.
Classified(fields, output) ==
  IF output = None \/ output.exit = None THEN "SOLVER_UNAVAILABLE"
  ELSE IF output.exit = 0 /\ output.finished /\ ~PrintsNothing(fields) THEN "SUCCEEDED"
  ELSE "SOLVER_FAILED"

NextCase(x) == executions[x].request.cases[Len(executions[x].cases) + 1]
Job(x, case) == <<executions[x].request.geometry, executions[x].request.definition, case>>

\* The record of a case; after one that failed there are no others.
Record(x, status, output) ==
  executions' = [executions EXCEPT
    ![x].cases = Append(@, [case |-> NextCase(x), status |-> status,
                            deck |-> status # "DECK_INVALID", output |-> output]),
    ![x].step = IF Failed(status) \/ Len(executions[x].cases) + 1 = Len(executions[x].request.cases)
                THEN "finishing" ELSE "solving"]

\* The deck of the next case, None where there is none to be had.
NextDeck(x) == Decks[Job(x, NextCase(x))]
Solvable(x) == NextDeck(x) # None /\ Supported[Job(x, NextCase(x))]

\* A case whose deck cannot be built, or does not hold the body.
RejectCase(x) ==
  /\ executions[x].step = "solving"
  /\ ~Solvable(x)
  /\ Record(x, IF NextDeck(x) = None THEN "DECK_INVALID" ELSE "SOLVER_UNDERCONSTRAINED", None)
  /\ UNCHANGED <<history, damaged, copies, faults>>

\* A case the solver is run for.
SolveCase(x, field) ==
  /\ executions[x].step = "solving"
  /\ Solvable(x)
  /\ LET output == Solved(x, NextDeck(x), field)
     IN  Record(x, Classified(executions[x].request.fields, output), output)
  /\ UNCHANGED <<history, damaged, copies, faults>>

SolverFails(x) ==
  /\ executions[x].step = "solving"
  /\ Solvable(x)
  /\ Fault
  /\ \E output \in Mishaps(x, NextDeck(x)) :
       Record(x, Classified(executions[x].request.fields, output), output)
  /\ UNCHANGED <<history, damaged, copies>>

\* _publish_request_manifest.
Finish(x) ==
  /\ executions[x].step = "finishing"
  /\ executions' = [executions EXCEPT ![x].step = "stopped", ![x].manifest = TRUE,
                                      ![x].status = Last(executions[x].cases).status]
  /\ UNCHANGED <<history, damaged, copies, faults>>

\* The process dies: what the run holds stays, and nobody takes it up again.
Crash(x) ==
  /\ executions[x].step # "stopped"
  /\ Fault
  /\ executions' = [executions EXCEPT ![x].step = "stopped"]
  /\ UNCHANGED <<history, damaged, copies>>

ExecutionNext ==
  \/ \E d \in DOMAIN Definitions : Commit(d)
  \/ \E r \in NextRequests, revision \in 1..Current : Start([r EXCEPT !.revision = revision])
  \/ \E x \in Runs :
       \/ Prepare(x) \/ RejectCase(x) \/ SolverFails(x) \/ Finish(x) \/ Crash(x)
       \/ \E status \in {"GEOMETRY_REJECTED", "MESH_FAILED"} : ProviderFails(x, status)
       \/ \E field \in Fields : SolveCase(x, field)
       \/ \E file \in Files(x) : Damage(x, file)
  \/ \E g \in DOMAIN Bodies : DamageStep(g) \/ CopyStep(g)
=============================================================================

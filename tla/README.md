# Verification of the MechCAD harness

TLA+ models of the MechCAD harness (`src/src/mechcad_harness`), checked with TLC
and, where a theorem is stated, proved with TLAPS. Paths below are relative to
that package unless they start with `src/`.

The harness keeps the canonical design of a mechanical project as a sequence of
revisions, lets agents, tools and evaluators propose changes and attach evidence
to revisions, and decides from invalidation records which evidence still holds.
There is no database: every fact is a JSON file under `projects/<project>/`,
replaced atomically one at a time, and read and written by threads of several
processes. What is hard here is therefore what happens *between two files*.

## Inventory

| component | state | operations | interacts with | what makes it correct |
|---|---|---|---|---|
| Revision store (`state/`) | `revisions/REV-n.json`, `current.json`, RLock per process, flock | create project, create revision, load, lock | called by every component below | one history, append only; readers see whole revisions; no lost update |
| Change engine (`changes/engine.py`, `operations.py`, `ownership.py`) | none | prepare, apply proposal | revision store, inside its lock | stale proposals refused; all operations or none |
| Dependency graph (`dependency/graph.py`) | none | impact of changed paths | evidence store | impact = everything downstream; cyclic configurations refused |
| Evidence store (`dependency/storage.py`) | `evidence/*.json`, `invalidations/REV-n.json` | write evidence, record invalidation, freshness | graph, revision store (no lock) | never "current" for what was invalidated; unknown when unprovable |
| Run control (`runs/`) | run, plan, task, result and event files | create, plan, add task, execute, apply proposal, complete, fail, resume | change engine, evidence store | counts canonical revisions; dependencies; sound completion |
| Artifact store (`artifacts/`) | content and metadata file per artifact | publish, read verified | tools, CAD, promotion | metadata never without matching content; one id, one content |
| Tool broker (`tools/`) | call and result files, evidence | execute, materialise evidence | round trip, evidence store | one result per call, bound to the task |
| Agents (`agents/`) | invocation, observation, result, mediation, round-trip files | invoke, mediate, round trip, resume | broker, run control | stale answers unused; one terminal transition |
| Admission (`changes/*_admission.py`) | prepared event, commands | admit, replay | project lock, run control | a command is admitted once, for what was asked; exact replay |
| Candidate promotion (`candidates/promotion*.py`, `provenance_artifacts.py`) | decision, result, rebind and M10 manifests, locators | preflight, apply, verify, locate | fresh runs, artifacts | receipts agree with canonical history; what is promoted is what was selected |
| Candidate evaluation, comparison, selection (`candidates/`) | records | evaluate, compare, select | CAD, kinematics | verdicts from complete evidence; deterministic choice; stale records refused |
| CAD, canonical rebind, M10 and M11 bridges (`candidates/`) | hash-bound records | realise, rebind, hand off | artifacts | every link of the chain verified |
| Kinematics and continuous clearance (`multi_joint_*.py`, `continuous_proof.py`) | none | sweep, subdivide, prove | FreeCAD measurement | clear only if clear everywhere between the measurements, too |
| Structural analysis (`structural/`) | requests, meshes, results, evidence | preflight, mesh, solve, interpret, evidence | gmsh, CalculiX | no evidence from a failed stage |
| Production application (`application.py`) | none | wires the services | all | — |
| Sizing, materials, sections, Yagi, CAD construction, backends, engineering values, models | none | pure computation, adapters | external programs | numeric |

Hard behaviours: commits of two files with a death between them; a lock made of
two locks; lock-free readers; records written after the revision they describe
and outside the lock; exclusive writes that check before they replace; several
files per transition with an exception after each; runs of one project side by
side; process death without recovery code. `PROJECT.json` lists each of them at
its line, with the properties that cover it.

## Plan

1. **Core** (done, proved): `ChangeOps`, `RevisionLog`, `RevisionStore`.
2. **Freshness** (done, proved): `DependencyGraph`, `DependencySearch`, `EvidenceStore`.
3. **Run control** (done, proved): `RunControl` over `EvidenceStore`.
   Left: `add_task` and `create_plan` in two steps, a second driver of a run.
4. **Artifacts** (done; composition with promotion proved): `ArtifactStore`,
   instantiated by `Promotion`. Left: the tools and the CAD and structural services as
   its publishers.
5. **Agents and tools** (done): `AgentRoundTrip` over `EvidenceStore`. Left: results of
   several tools, declared input nodes of a task.
6. **Admission** (done, proved): `ConstraintAdmission` over `AgentRoundTrip`.
7. **Promotion** (done, proved, but for the geometry verdicts): `PromotionChecks`,
   `Promotion` over `EvidenceStore` and `ArtifactStore`. Left: the steps inside the
   canonical M10 proof, the audit of a promotion of several joints, the hand-off to M11.
8. **Candidates** (done for one joint, proved): `CandidateCad`, `CandidateM10`,
   `CandidateEvaluation`, `CandidateSelection`, composed by `CandidatePipeline`. Left:
   evaluation of several joints.
9. **Kinematics** (done, proved): `ReachBounds`, `ContinuousClearance`. Left: the
   sampled sweeps.
10. **Structural analysis** (done; protocol proved): `StructuralDeck`,
    `StructuralResults`, `StructuralExecution`, `StructuralEvidence`. Left: the
    analytical checks other than the tip displacement.

Abstract specifications: `RevisionLog`, `EvidenceStore` as what runs, promoters and
admissions may do to evidence, `ArtifactStore` as what promoters may do to files.
Theorems left: only what the section on proofs lists as only model-checked.

## Modules and how they correspond to the code

**ChangeOps** is what `ChangeEngine._prepare_proposal_locked` computes. A canonical
state is a map from paths to values; a path of the code addresses a nested value,
here it is one key. Ownership is a function from path to owner; `Valid` is what
`DesignState.model_validate` accepts. `AfterOps` is a recursive function (not a
RECURSIVE operator) so that it can be proved about.

**RevisionLog** is the promise: a log of contents, each an accepted proposal applied
to the last.

**RevisionStore** is `StateManager` under `ChangeEngine.apply_proposal`. Variables:
`snapshot`, `pointer`, `projectDir` (files); `fileLock` (flock), `threadLock` (RLock
per process), `leaked` (threads whose RLock a failed flock never released); and per
thread its program counter and local values. One action per step between which
another process can act:

| action | code |
|---|---|
| `CreateProject`, `FoundCheck`, `FoundReplace`, `FoundPublish`, `FoundFails` | `create_project`, `_write_atomic` |
| `Propose`, `LockThread`, `LockFile`, `LockFileFails`, `Unlock` | `project_lock` and the proposal's base |
| `Prepare` | `_prepare_proposal_locked` |
| `Revise`, `CheckSnapshot`, `ReplaceSnapshot`, `PublishPointer`, `WriteFails` | `create_revision` |
| `ReadPointer`, `ReadSnapshot` | `load_current_state` |
| `Crash` | process death: memory and flock go, files stay |

`create_revision` enters `project_lock` again; the RLock is re-entrant and the
depth leaves the flock to the outermost call, so the second entry is no step.
`state_hash` covers the revision number, hence `StateHash(revision, content)`.

The constant `Readers` limits which threads call `load_current_state`, which any
thread may do at any time.

**DependencyGraph** defines matching and impact declaratively; **DependencySearch**
performs the two depth-first searches call by call. Both are recursive in the code; a
frame of `stack` is a call and the targets it has still to go through, the first frame
is the loop over the nodes from which the search starts, and a call that returns at
once, enters a node or is over is an action. The limit that the interpreter sets to the
depth of calls is left out.

**EvidenceStore** keeps of the canonical history the paths each revision changed
(a commit is one step, justified by the refinement of `RevisionLog`), the
invalidation record of each revision, the evidence files, the revision each writer
has committed and not yet recorded, the evidence each producer is about to put in
place, and each freshness query in progress. `Examine` reads one record file; commits
and records of others fall in between. `_write_exclusive` looks whether the file of an
id is there, twice, and then replaces it, with nothing locked: `BeginWrite` is the last
look, `EndWrite` the replacement, and between them another producer may have written
the same id. `WriteEvidence` is both at once, for a producer that meets no other of its
id; the modules that use the store write evidence with it and have no `Producers`, since
each of their tasks and workflows has ids of its own. (`FakeTaskExecutor`, which only
tests use, names a result after its task and node and not after its run, so that two
runs with one task id would collide.) An invalidation record has one writer, the one
that committed its revision, so its look and its replacement are one step; only
two records of one revision could tell them apart.

**RunControl** is `RunController` with its scheduler and convergence tracker. It
instantiates `EvidenceStore` (`Store`): `Apply` is `Store!Commit`, `Invalidate` is
`Store!RecordInvalidation`, every path that skips the record is `Store!Abandon`, and
accepted results are `Store!WriteEvidence`. A sweep of `execute_ready_tasks` visits its
tasks one at a time in id order; a batch of the scheduler is a set. The gate of
`evaluate_completion` takes one required node after another: `ListEvidence` globs its
files, `AskFreshness` reads the current pointer for one of them, `ReadRecords` its
records one by one, and `Judge` counts the answer; anything may be committed, recorded
or abandoned between any two of these, so the nodes of one gate may be judged at
different revisions, which `gate` remembers. The code asks about every file of a node
and then looks for one that is fresh; the model goes on at the first that is, in any
order of files and nodes, which accepts no less. `Others` are further runs of the same
project, of which only the effect on the store is visible, since a run's files are
its own. A run has one driver, as in `candidates/promotion.py`, `structural/service.py`
and `application.py`; the executor and `create_plan`, `evaluate_completion` are at
present driven by tests only. Hashes are revisions (a state hash covers the revision
number), which is why `NO_STATE_PROGRESS` and `STATE_CYCLE` cannot occur and only the
iteration limit has an effect.

**ArtifactStore** is `artifacts/storage.py`: `Publish` looks for either file,
`WriteContent` and `WriteMetadata` write them, `GiveUp` is an exception or a death in
between, which leaves what was written and the id unusable. `Damage` and `Republish`
(the same id published in another run) are what a store on disk is exposed to;
`Verified` and `InProject` are the two readers.

**CandidateCad**, **CandidateM10**, **CandidateEvaluation** and **CandidateSelection**
are pure: each service is a function from the records passed to it and the state of
the project to a record or a refusal.

| operators | code |
|---|---|
| `Intact`, `StillCurrent`, `MayRealize`, `RealizeCurrent`, `Replays` | `services.py`, `cad_realization.py` |
| `Derived`, `Justified`, `Complete`, `RunM10` | `m10_evaluation.py` |
| `Verdict`, `Evaluate`, `VerifyCurrent` | `evaluation.py`, both record versions |
| `Compare`, `Select` | `comparison.py`, `selection.py` |

A hash is the record it is a hash of, and `intact` is FALSE of a record whose stored
hash is not that of its content. What the geometry kernel says of a pair is an input.

**CandidatePipeline** composes them with a project that moves on: `Synthesize`,
`Realize`, `Prove`, `Skip` (a stage not reached), `EvaluateCandidate`,
`CompareCandidates` and `SelectCandidate` are calls with any records returned before;
`Commit`, `PublishSource` and `LoseSource` are what others do between them. `Skip` takes
the revision of the stage from its caller, as `_evaluate_v2` of `m10_evaluation.py`
does, so a stage not reached may be of another source than its candidate;
`FirstVersionHolds` is what only the first version of an evaluation checks.

**PromotionChecks** holds what the four routes to a promotion ask of a request, when it
is made and again when it is applied: a candidate of one joint or of several, with
records of the first or of the second version. **Promotion** is
`CandidatePromotionApplicationService`:

| action | code |
|---|---|
| `Preflight*`, `Recheck` | `preflight`, `_verify_before_apply` and their twins of the other routes |
| `CreateRun`, `Decide` | `create_run`, publication of the decision manifest |
| `Apply`, `Save`, `Invalidate`, `Confirm` | `apply_approved_proposal` step by step, and what `apply` makes of each way it can raise |
| `PublishResult`, `Conclude`, `FailRun` | result manifest and receipt |
| `Verify`, `Prove`, `Locate`, `VerifyV2` | `verify_promoted_mechanism*`: rebind, canonical M10, manifests, locator |
| `Crash`, `OtherRun`, `Damage`, `Republish` | death of a promoter, commits of others, files lost or copied |

Its commits are `EvidenceStore`'s and its files `ArtifactStore`'s, both by INSTANCE;
`ImplementsEvidenceStore` and `ImplementsArtifactStore` say so of every step. The
verdict of the canonical M10 proof is an input; `RecordOf` names the record it leaves,
one for each mechanism. The runs of the promoters are new: at first nothing is published
in them, and nobody has decided their requests or proved their mechanisms.

**AgentRoundTrip** is the coordinator of `agents/roundtrip.py` with the gateway, the
mediator, the broker and the two materializers as its steps: each reads the run again,
calls out, and writes one file. The agent and the tool answer anything their schema
admits. **ConstraintAdmission** adds the resolvers and the admission of resolutions
and of declared joints (`constraint_resolution_admission.py`,
`joint_authority_admission.py`). An admission holds the project lock from its first
check to its last file, a resolution takes none; a death may fall between any two
files, and `Replay` is what the code answers when the command comes again.
`MaxLapses` counts deaths, failed writes and answers out of turn.

**ReachBounds** is the topology of a mechanism and `derive_reach_bounds`: how far a
joint can carry an instance, from the lengths along its chain of parents.
**ContinuousClearance** is the proof of clearance along a motion, in the three engines
of the code: `continuous_proof.py` for one axis, and both request versions of
`multi_joint_continuous_clearance.py`. `CheckWaypoint` measures the waypoints (the
engine of one axis has none); then the recursion of `prove` is a set of pending
intervals of which the leftmost comes next, and each ends in `Certify`, `Halve`,
`GiveUp` (depth or width used up), `RunOut` (budget used up) or `Strike` (parts too near
in the middle); `Conclude` is the check of the leaves and the verdict. The engines
differ where the code does: the path engines keep what they measured in a cache, so
they may go on without budget; the engine of one axis has none and stops only at parts
that touch. Positions lie on a grid of any fineness and lengths are whole; `Chord`, the
length of the chord of a turn, is a constant, and so are the distances that FreeCAD
would measure. Where the grid ends, the middle of an interval is rounded and the longer
half counts.

The structural modules take the bodies, the definitions and the values a solver may
come to as constants. **StructuralDeck** is what is computed from a body and a
definition before the solver runs: regions resolved to faces, faces of the body matched
to surfaces of the mesh, resultant forces spread over midside nodes, their conservation,
and the same forces worked out again from the finished deck (`DeckVerifies`), from the
triangles as the deck has them (`Seen`) and not as the mesher wrote them. Areas and
places of faces are matched by tolerances of their own, as in `mesh.py`, and so is the
planarity of a surface (`Rise` over its mean normal, the sum of the area vectors of its
triangles). An INP file does not keep the names of regions: `_parse_inp` lowers them and
cuts them off at the first character it does not know, which `Elset` gives for each
name; `Meshed` keeps the `groups` that survive under their own name, and `Observed` is
what the reader of the file later finds under each. `Printed` are the names the parser
of reactions takes.
**StructuralResults** is which outputs the parsers accept, the criteria and the verdict.
A criterion consumes the properties of the material it says it does, and a stress taken
anywhere but in the nodes of elements is not evaluable. **StructuralExecution** and
**StructuralEvidence** are the protocol around them; `Origins` says which provider, tool
and program a STEP file is of, of which the service asks only for the provider, and
evidence for all three (`Genuine`):

| action | code |
|---|---|
| `Start` | `service.py` `execute`, up to the release of the project lock |
| `Prepare`, `ProviderFails` | `_run_pipeline`, up to the publication of the mesh |
| `RejectCase`, `SolveCase`, `SolverFails` | the loop over the cases, `_classify_solver`; it stops at the first that fails |
| `Finish` | `_publish_request_manifest` |
| `Crash`, `Commit`, `Damage`, `DamageStep`, `CopyStep` | death of an execution, commits of others, files damaged or published twice |
| `VerifyAnalysis`, `VerifyStudy` | `evidence_service.py` `publish` of evidence and of studies, up to the writing |
| `Write`, `Abandon` | `write_evidence`, or death before it |

Coordinates and forces are whole numbers on small bodies, so that spreading is exact up
to a common multiple (`Scale`); a field is one magnitude, an output file the set of what
it holds. `OutcomesOf`, `MeshesOf`, `DecksOf`, `SupportedOf`, `FaithfulOf` and
`HoldingOf` depend on constants only; the constants `Outcomes`, `Meshes` and so on stand
for them, so that TLC works them out once (`MCStructural`).

## Runs

| run | checks | bounds |
|---|---|---|
| `core` | exclusion, untorn readers, immutability, orphans, first committer, refinement of `RevisionLog`; the lock is given back, waiters are not stranded | 3 threads in 2 processes, 3 revisions, 1 I/O error, 1 crash; 360,485 states |
| `failed_apply` (violation) | M2: failed applications write no snapshot | 1 I/O error |
| `two_founders` (violation) | M2: existing snapshots are read only | two creating threads, no fault at all |
| `algorithms` | searches against reachability; each answer of a clearance proof is true of the whole motion | every graph of 4 nodes and at most 5 edges; a lid that opens and shuts, with every possible distance up to 6, and an arm of two joints and two pairs, with every steepest approach; grid of 4, depths 1 and 2, budgets 2, 5 and 9; 375,834 states |
| `freshness` | soundness of "current", permanence of stale and of gaps, coverage | 2 writers, 1 producer beside the writes of others, 1 query, 3 revisions, 1 unwritten record; 83,189 states |
| `whole_transmission` (violation) | soundness of "current" for a change above the rule's depth | 1 revision suffices |
| `run_control` | accounting, inputs, prerequisites, completion, refinement of `EvidenceStore`; `execute_ready_tasks` returns | 1 run with 2 tasks, 1 other, 1 changeset, 3 revisions, 1 lapse; 689,284 states |
| `blocked_chain` (violation) | M4: failed prerequisites block downstream tasks | chain of 3 tasks, no lapse |
| `candidate_pipeline` | feasible means proved, stages complete, evaluations and selections hold of now, ranking by clearance | 2 candidates, 2 revisions, 1 lost source; 112,094 states |
| `promotion` | receipts, what is applied, order of the files, coherence of what is accepted, locators, refinement of both stores | 2 promoters with 13 requests of the four routes, 3 revisions, 1 fault of the store, 1 lapse; about 160,000 states |
| `constraint_discovery` | admissions are true and were asked for, resumed round trips | 2 runs with a round trip each, 3 resolutions and 2 joints, 1 other run, 3 revisions, 1 lapse; 596,783 states |
| `structural` | evidence rests on success, success can become evidence, like is compared with like | 9 bodies of two tetrahedra, 4 definitions with up to 4 load cases, 19 plans of requests, 2 revisions, 1 fault, 2 executions at work, 4 revisions, executions and faults together, 3 analyses and 1 study; 109,049 states |

Why the bounds are enough: the core's hazards need two processes, a second thread in one
of them, and a commit on top of an orphan, which is three revisions; one fault puts an
orphan anywhere, and two proposals of different owners on one base make every lost
update. In `core` the reader is the founder's thread, alone in its process: what a
reader sees depends on the files only. The freshness hazards need two revisions after
the evidence, with their records in either order and one missing; an overwritten file
needs one producer that has looked and another that writes meanwhile. The run's hazards
need one commit within the iteration limit and one beyond it, hence `MaxIterations = 1`
and three revisions, and another run's commits between any two of its steps. `MaxFaults`
of `run_control` is the number of commits, so it never keeps the code from skipping a
record. A candidate goes stale by one commit, with a value that does or does not differ,
and by one source lost; the candidates differ in every class of pair the M10 stage
knows, and one fails to realise in one of two manifests. A promotion meets its hazards
with one commit of somebody else before or after its own, and one lapse anywhere; each
of the 13 requests breaks one link of the chain, and the records in them are checked to
be those the pipeline makes (`GenuineAssumption`). A clearance proof meets all of its
ends with intervals of three depths, a budget that is used up among the waypoints, among
the intervals or not at all, and a configuration met twice; `LeverAssumption` checks
that the reach bounds of the instance exceed what its joints really do. Resolutions
conflict when two are given for one key, and across runs when both runs start from one
revision; two admissions and one foreign commit are three revisions. A study needs three
executions of one revision, one more of each oddity is enough: the bodies are exact,
near enough for the deck but not for the results, too small, too large, broken, with a
region that does not resolve, dented so that a surface is not planar, and made by
another tool or another provider; the load cases pull two faces that share an edge,
press and accelerate, are held twice, and are not held at all; names of regions differ
in their case only, lose a part in an INP file, or start with a figure. One mesh stands
for the preview and the final mesh of a body, which the code makes anew from the same
geometry; the measures of a face that is not planar are approximate. Two tetrahedra
sharing a face are the least body in which a face of the mesh lies inside, and two faces
of a region share nodes.

`CHECK_DEADLOCK FALSE` everywhere: with the revisions used up (or the edges, or the
path, in `algorithms`), or with an RLock leaked, the system really stops.

Symmetry: `candidate_pipeline` exchanges the two values of the state path its
candidates consume, which are only compared; no other run uses any.

### Fairness

`core`: weak fairness of a thread's steps inside the lock, and of acquiring the
RLock and the flock. Straight-line code between acquire and release runs on unless its
process dies, and then `Crash` disables it. Neither lock promises an order among
waiters, so nothing is claimed of a particular one: `WaitersNotStranded` is about some
waiter. `freshness`: a writer that has committed goes on to its record; of producers and
queries nothing is assumed. `run_control`: a
method that has begun runs on, and the executor it calls returns; an executor that
hangs blocks the real call too.

## What the runs found

* **A failed application leaves a snapshot** (`failed_apply`): if writing
  `current.json` raises, `REV-n.json` is already there, and every later commit fails
  with `RevisionConflictError`. `OrphanNeverAdopted` shows that at least nothing ever
  makes the orphan canonical.
* **Two creators overwrite each other** (`two_founders`): `create_project` holds no
  lock and its exclusive write checks before it replaces. All theorems below except
  type correctness therefore assume a sole creator.
* **Coarse changes invalidate nothing** (`whole_transmission`): a rule deeper than the
  changed path does not match, so replacing a whole transmission, which its ownership
  rule allows, leaves evidence about it current.
* **A promotion done twice loses its chain** (`VerifiedIsFound` of `promotion`
  has to except it): the id of a decision is the hash of
  what was decided and names no run, so the same request made again, or repeated after
  a failure, publishes that id in a second run; `resolve_promotion_chain` wants exactly
  one run to have it, and the chain of a promotion already verified is no longer found
  from its locator.
* A publication that dies between its two files leaves its id blocked for ever. The
  verification of second-version records publishes no locator. The route for several
  joints of second-version records does not look at the drive, which the other three do.
* **Requests of two runs collide** (seen in `constraint_discovery`): the id of a
  constraint request names the revision and the key and not the run. When two runs
  start from one revision and the same gap is resolved in both, neither can be
  admitted: the lookup calls it ambiguous or conflicting. Two resolvers racing within
  one run leave two accepted records, with the same effect. Both fail closed.
* A death between the commit of an admission and its last file leaves a command whose
  replay is refused for ever, and a round trip that dies without a terminal file can be
  neither resumed nor started again.
* The reach bounds are derived with all joints at 0, which the evaluator checks against
  the limits: a mechanism whose limits exclude 0 is refused by both path engines, even
  for a path within them (`Acceptable`). It fails closed.
* Of the structural pipeline, all of them closed failures or settings without effect:
  mesh refinements and the quality policy are part of the hash of a request and never
  read by the mesher (`structural/service.py` 186-189, `structural/mesh.py` 440-445); a
  request for stresses only has CalculiX print nothing, and the empty DAT file makes the
  case `SOLVER_FAILED`; supports that share nodes are refused by the DAT parser where
  reactions are asked for; the kernel and the mesh may differ in the area of a loaded
  face by more when the deck is built than when it is read again, so that an analysis
  that succeeded cannot become evidence; of a region of several faces only the first is
  loaded. Flat triangles are refused when a deck is read again and not when it is built.
  `SuccessIsAdmissible` names as its exceptions those of them that keep an execution
  that succeeded from becoming evidence; that there are no others is proved.
* **Names that an INP file changes** (`SuccessIsAdmissible` has to except them): region
  names are lowered and cut off when the mesh is read (`structural/mesh.py` 280-290) and
  groups kept only under such a name (447-450), while the reader of the evidence keeps
  case and punctuation and demands equal groups (`structural/results.py` 636-744,
  1213-1222). An analysis with a region `Loaded` or `free-end` is refused when its deck
  is built, or succeeds and is never evidence. Reactions of a support whose name starts
  with a figure are never read (540).
* **STEP files of another tool** (excepted too): an execution asks of its STEP file only
  the provider (`structural/service.py` 124-142); evidence also demands the part
  exporter and the source program of the request (`structural/evidence_service.py`
  1274-1284). An assembly as `backends/freecad_assembly.py` 200 publishes it is analysed
  with success and is never evidence.
* **A foreign stage makes an evaluation that never holds** (`EvaluationStands` has to
  except it): the second version accepts an M10 stage that was not reached whatever its
  source (`candidates/evaluation.py` 1477-1479, `candidates/m10_evaluation.py`
  1968-1974), and `verify_current` then refuses the evaluation for ever (966-971). The
  second version also takes a drive that is inadmissible together with a geometry and
  its motion, which the validator of the first refuses (1097-1106).
* **Two producers of one evidence id** (`StaleForever` says so of an id that has not
  settled): the second replaces the file of the first (`dependency/storage.py` 32-34),
  and what was stale under that id may be current. No file rehabilitates itself.
* **Blocking stops half-way** (`blocked_chain`): one sweep in id order leaves a task
  pending above a prerequisite that is blocked later in the same sweep.

## Proofs

`RevisionStoreProofs` proves, for any threads, processes, proposals, revisions and
numbers of faults: `TypeCorrect`; and, under `SoleFounder` (at most one thread creates
the project), `Exclusion`, `NeverTorn`, `Immutability`, `FirstCommitter`, `Orphanage`
and `Refinement`. The inductive invariant behind them has three parts: who holds the
locks (a thread inside the lock holds the flock, and its process's RLock); which files
exist (snapshots up to the pointer form the history, at most the next number may be an
orphan, contents match hashes); and what each thread has read relative to them (a
thread inside the lock prepared its content from the snapshot the pointer still
names). None of the properties is inductive alone: that a reader is not torn, for
instance, rests on no snapshot being rewritten, which rests on exclusion between check
and replace. The refinement maps the log to the contents of the snapshots up to the
pointer; `FoundPublish` and `PublishPointer` are its steps, all others stutter.

`EvidenceStoreProofs` proves `EvidenceTyped`, `StaleStaysStale`, `GapsStayOpen`, and,
under `DeepChanges` (a changeset names paths at least as deep as the patterns that
govern the values it touches), `CurrentIsUntouched`. `StaleStaysStale` is of files,
whoever has them, and of ids once no producer is left that saw none of theirs. The
invariant says that a record, once written, lists exactly the impact of its own
revision, and that a query remembers of the records it has passed whether one lists its
node. `DeepChanges` is exactly what `whole_transmission` violates.

`RunControlProofs` proves, for any tasks, dependencies, limits, other runs and failures:
`RunTyped`, `RunCounts`, `TasksInOrder`, `RunsOnUnchangedInputs`, `Composition` (runs
act on the store only by steps of `EvidenceStore`) and, under `SP!DeepChanges`,
`CompletedOnUntouched`. The invariant is built in layers, each proved with the help of
those before: `HistoryInv`, the invariant of the evidence store, which is imported
through the composition and not proved again; `BaseInv`, types and which steps of a
method follow which; `CountsInv`, that a run counts its own commits; `OrderInv`, that
the prerequisites of whatever is ready, at work or done are done, also while a sweep is
half-way; `WorksInv`, that a task at work was started on the inputs the run still has;
and `GatesInv`, that every node a gate has passed has evidence that no revision up to
the one it was judged at has touched, and that a query in progress is of a file that is
there, at a revision not before the evaluation began. It is a statement about several
revisions, one for each node: that the gate as a whole is of one revision is not so in
the code, and not claimed. Assumed are `RunAssumption` and `StoreAssumption`.

`PromotionProofs` proves `PromotionTyped`, `ReceiptsAreTrue`,
`PromotionAppliesTheReviewed`, `DecisionIsOnDisk`, `ResultIsPublishedLast`,
`LocatorsMeanProved`, `AcceptedRequestsCohere`, `VerifiedIsFound`
(`VerifiedChainsAreFound`), `PublishedFilesLast` and the two compositions
`PromotionComposition` and `ArtifactComposition`, for any promoters, requests, files,
revisions and faults. Layers: `HistoryInv` and `ArtifactsInv` of the two stores;
`BaseInv`, types and what a promoter knows at each of its steps; `CommitsInv`, that its
run holds the changeset it committed, once; `FilesInv`, which manifests are on disk by
then and what they say; `AcceptedInv`, what the checks of the four routes leave of a
request that passed them. That the chain of a verified promotion is found again needs
more of the files: each has one writer, so no step takes back or changes a published
file but damage (`PublishedFilesLast`); what is not damaged is therefore whole; and an
id of the chain is held only by the runs that may publish it, which for a decision is
every run of the same decision, hence the exception, and for the record of the M10 proof
is its mechanism's (`RecordOf`). Assumed are `PromotionAssumption`,
`ArtifactAssumption`, `PublicationAssumption` and `StoreAssumption`.

`ConstraintAdmissionProofs` proves `AdmissionTyped`, `AdmissionsAreTrue`,
`ResumeStaysTruthful`, and, under `SP!DeepChanges`, `AdmittedWereAsked`, for any
workflows, answers, commands and lapses. Layers: `ShapeInv`; `HistoryInv` of the store;
`AdmissionInv`, what an admission has read while it holds the lock and which changesets
are its own; `MarkInv`, that the files of a round trip mark its progress and are never
taken back; `FlowInv` and `RequestsInv`, that what is asked rests on evidence accepted
by then; `ContentInv`, which joins them. Assumed are `RoundTripAssumption`,
`CommandAssumption`, `AdmissionAssumption` and `StoreAssumption`.

`CandidatePipelineProofs` proves `StagesAreComplete`, `FeasibleMeansProved`,
`EvaluationsStand`, `RankedByClearance` and `SelectionsAreOfNow`, for any candidates,
geometry, plans, policies, results of the kernel and changes to the project. Layers:
`CandidatesInv`, that a candidate is of a revision there is and has its value there;
`EvaluationsInv`, that the records an evaluation was made from are those of its
candidate, although the caller passes in any records there are; it rests on the lemma
that a realisation is a function of its sources (`Realisation`); and `ComparisonInv`,
that a comparison ranks what it was given, for which the least bound is found by
well-founded induction. A comparison is of one or two entries, as in the calls of the
model. Assumed are `PartAssumption` and `PipelineAssumption`.

`StructuralEvidenceProofs` proves `ExecutionsAreSound`, `ManifestsStay` (no step changes
an execution with a manifest), `LikeWithLike`, `SuccessIsAdmissible`
(`SuccessCanBeEvidence`) and `EvidenceIsFounded`, for any bodies, definitions, plans,
studies, solvers, deaths and damage. `ExecutionsInv` says that what was meshed is of the
definition of its revision, that cases come in the order of the request, each with the
deck of its job and what the solver wrote for it, and that a manifest is written last;
`EvidenceInv` adds that every record, and the one about to be written, says what the
lines of its execution say. It stays true because an execution with a manifest and a
revision never change. `SuccessCanBeEvidence` follows what the service wrote through the
second reading of it. The faces of a deck list the corners of a triangle in another
order than the mesh; area and centre of a triangle depend on its corners only
(`SameTriangle`), so the areas, moments and forces worked out again are those of the
deck (`SeenAlike`, `DeckIsVerified`), and what is written for a region is readable
because regions have nodes and the parsers refuse nothing else the model lets a solver
write (`DatStands`, `FrdStands`). That evidence rests on the resultants of the
definition (`EvidenceRestsOnSuccess`) needs a fact about decks, `DecksHold`: where an
INP file keeps the names of the regions, as it does of every execution that evidence
admits (`AdmittedNamesSurvive`), the forces on nodes of any deck that was built add up
to the loads of its case and turn the body as those do at the centroids of their faces,
by as much as the tolerances of the loads allow. What `_lower_resultant_force` checks is
each load by itself, about the centroid of the mesh; that no force is lost where loads
share nodes, and what the distance to the centroid of the kernel adds, is proved. Totals
are folds over finite sets: a fold is an entry of the table of all subsets, which exists
(`Recursion`), and so the elements may be taken in any order (`TotalStep`, `SumStep`);
totals and moments are additive (`TotalOfAdded`), loads are put together one by one
(`StagesExist`), and errors add up by the triangle inequality (`TurnedAbout`,
`ErrorsAddUp`). Assumed are `WorkedOut`, `Reconstruction`, `ToleranceAssumption`,
`SpellingAssumption` (what is left of a name stays as it is), `BodyAssumption` (faces
have an area, a mesh finitely many nodes, elements ten of those, triangles three corners
among them), `DefinitionAssumption` (loads, supports and criteria name regions of their
definition, as `models/structural.py` requires), `ExecutionAssumption` and
`EvidenceAssumption`, all evaluated in the run.

`AlgorithmProofs` proves `SearchesFind`: of any nodes and edges, `_check_cycles` refuses
exactly those that form a cycle, and `impact` answers with exactly the nodes downstream
of those invalidated directly, whatever the order of the calls. The invariant is about
the stack. Of `_check_cycles` (`Checked`): the nodes at work are the path of the calls,
so a call of one of them closes a ring; what is finished leads to finished nodes only
and holds no ring, and a node that leads to nothing else cannot close one
(`NoRingWithOneMore`); and what a call has gone through is finished, so at the end
everything is. Of `_transitive` (`Collected`): the shared result leads out of itself
only by way of targets that some call has still to go through, so at the end it is
closed, and downstream is the least closed set (`DownstreamIsLeast`). That a next target
exists is well-founded induction on its rank. Assumed is `NamesAssumption`.

It also proves `ClearanceIsSound`: for any mechanism, path, grid, depth, width and
budget, a clear verdict is true of every position of the path and not only of those
measured, a witness is one, and the check of the leaves never raises. It assumes
`BoundsHold`: between two positions of a segment, a pair comes nearer by no more than
the bound derived for it. That is geometry, which the code takes from the triangle
inequality; `LeverAssumption` checks it on the instance. The inductive invariant is that
the intervals of a segment, whatever became of them, tile it, that the certified ones
are clear, and that none of what is pending has been set aside, without which halving
would not preserve the tiling.

Only model-checked is what is temporal under fairness (`LockGivenBack`,
`WaitersNotStranded`, `CoverageCompletes`, `ExecutionSettles`): TLAPS cannot reach it,
as it cannot ENABLED. Every other property of a passing run is stated by a theorem.

The type invariants that modules state are proved, and so no run repeats them.

## Not modelled

Of promotion: the audit of a promotion of several joints
(`verify_multi_joint_promotion_*`), the hand-off to M11, and the inside of the canonical
rebind and M10 proof, whose verdicts are inputs. Of kinematics: the sampled sweeps,
which only repeat a measurement, and the transforms of forward kinematics, which are
floating-point geometry. Of structural analysis: the kernel, gmsh and CalculiX, whose
outputs are inputs; the text of decks and of output files, of which the parsers keep or
refuse what the model says; hashes and provenance, which are the records they are of; of
the analytical check all but the tip displacement. The wiring in `application.py` keeps
no state of its own. Evaluation of several joints is in `PromotionChecks` only as the
records it leaves. Parsing of the resolution policy file, adapters of agents (OpenCode)
and of tools, FreeCAD, build123d, gmsh, CalculiX and the agents' language models are
external; sizing formulas, catalogues, geometry and the pydantic data types carry no
control. `record_convergence_revision` and the explicit revision number of
`create_revision` are reached by tests only. Events are written and not read by the
modelled methods, but for the prepared event of an admission. Timestamps, wording and
JSON layout are left out.

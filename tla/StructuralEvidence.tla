-------------------------- MODULE StructuralEvidence --------------------------
(***************************************************************************)
(* Evidence of structural analyses (structural/evidence_service.py).  An   *)
(* execution becomes evidence once everything it rests on was read again   *)
(* and worked out again: its manifest, the definition in its revision, the *)
(* STEP file, the mesh, the decks and the outputs of the solver.  A study  *)
(* of convergence binds the evidence of three executions or more that      *)
(* differ in the mesh they asked for; two records may be compared.         *)
(*                                                                         *)
(* Records are never changed.  The one of an execution has the name        *)
(* <<run, validated>>, where validated says whether it was published with  *)
(* the analytical policy its request names; a study has the name of all it *)
(* binds.  Writing a record is followed by reading it back through fresh   *)
(* stores, which changes nothing: a record that cannot be confirmed stays. *)
(***************************************************************************)
EXTENDS StructuralExecution

CONSTANTS
  Tool,                \* the tool STEP files have to be made by
  Faithful,            \* whether the deck of a job holds what it should, see FaithfulOf
  Holding,             \* whether its forces are those of its case, see HoldingOf
  Studies,             \* [case, specs, threshold]: a change, in hundredths
  Epsilon,             \* the least response a change is set against
  RepeatTolerance,     \* of the displacements of two records compared
  MaxAnalyses,
  MaxStudies

FaithfulOf ==
  [j \in Jobs |->
    Decks[j] # None /\ DeckVerifies(Bodies[j[1]], Definitions[j[2]], j[3], Decks[j])]

\* Whether the forces on nodes of a job add up to those of the case, and turn the body
\* about the origin as those do where they act at the centroids of their faces, as far
\* as the tolerances of every load allow.
HoldingOf ==
  [j \in Jobs |->
     LET body == Bodies[j[1]]
         loads == Resultants(Definitions[j[2]], j[3])
         face(load) == FaceOf(body, Region(Definitions[j[2]], load.region))
         centroid(load) == body.faces[face(load)].centroid
         forces == Decks[j].forces
         sum == Total([i \in DOMAIN loads |-> Times(3 * Scale, loads[i].force)])
         turn == Total([i \in DOMAIN loads |->
                          Times(Scale, Cross(centroid(loads[i]), loads[i].force))])
         slack == SumFunction([i \in DOMAIN loads |->
                    ConservationTolerance + Scale * CentroidTolerance * Norm(loads[i].force)])
     IN  /\ Decks[j] # None
         /\ Norm(Minus(Total(forces), sum)) <= Len(loads) * ConservationTolerance
         /\ Norm(Minus(Total([n \in DOMAIN forces |-> Cross(body.nodes[n], forces[n])]), turn))
              <= slack]

ASSUME Reconstruction == Faithful = FaithfulOf /\ Holding = HoldingOf

ASSUME EvidenceAssumption ==
  /\ Epsilon \in Nat /\ RepeatTolerance \in Nat
  /\ \A study \in Studies : study.threshold \in Nat /\ IsSeq(study.specs)

VARIABLES
  analyses,    \* records of executions: [run, validated, verdict, response]
  studies,     \* records of studies: [study, levels, status]
  publishing   \* the record verified and not yet written, with its kind

evidenceVars == <<analyses, studies, publishing>>
vars == <<history, executions, damaged, copies, faults, analyses, studies, publishing>>

Request(x) == executions[x].request
\* load_trusted_mesh: what the MSH file of an execution is read as.
Mesh(x) == Meshes[<<Request(x).geometry, Request(x).definition>>]
Outputs(x) ==
  [case \in Range(Request(x).cases) |->
     (CHOOSE c \in Range(executions[x].cases) : c.case = case).output]

-----------------------------------------------------------------------------
(* Verification *)

\* _load_bound_definition, _load_verified_manifest, _verify_manifest_binding.
ManifestStands(x) ==
  LET e == executions[x]
  IN  /\ e.manifest /\ e.status = "SUCCEEDED"
      /\ history[e.request.revision] = e.request.definition
      /\ [i \in DOMAIN e.cases |-> e.cases[i].case] = e.request.cases
      /\ \A c \in Range(e.cases) :
           c.status = "SUCCEEDED" /\ c.output.exit = 0 /\ c.output.finished

\* The STEP file of a request was made by the tool, from the program the request names.
Genuine(request) ==
  Origins[request.geometry].tool = Tool /\ Origins[request.geometry].program = request.program

\* _verify_all_artifacts: every file, whichever fields were asked for; of the STEP file
\* also where it is from, which nothing looks at before.
ArtifactsStand(x) ==
  /\ StepReadable(Request(x).geometry) /\ Genuine(Request(x))
  /\ \A file \in Files(x) : Intact(x, file)

\* _reconstruct_result.
ResultStands(x) ==
  /\ MeshAdmitted(Mesh(x))
  /\ \A c \in Range(executions[x].cases) :
       /\ Faithful[Job(x, c.case)]
       /\ Interpretable(Mesh(x), Definition(x), c.case, Request(x).fields, c.output)

Verifiable(x) == ManifestStands(x) /\ ArtifactsStand(x) /\ ResultStands(x)

\* The response is there where the policy is the one the request names.
Analysis(x, validated) ==
  [run |-> x, validated |-> validated,
   verdict |-> Verdict(Mesh(x), Definition(x), Request(x).fields, Outputs(x)),
   response |-> IF validated /\ Request(x).policy # None
                THEN TipDisplacement(Mesh(x), Request(x).fields,
                                     Outputs(x)[Request(x).cases[1]], Request(x).policy)
                ELSE None]

\* verify: the record is what is worked out now.
Verifies(a) == a \in analyses /\ Verifiable(a.run) /\ a = Analysis(a.run, a.validated)

-----------------------------------------------------------------------------
(* Convergence *)

\* Faulty: levels of one mesh count as two.
StudyFitsRepeating(study) == Len(study.specs) >= 3

\* A study has three meshes or more, and no two alike.
StudyFits(study) == Len(study.specs) >= 3 /\ IsInjective(study.specs)

\* _request_semantics: all of a request but its mesh and its policy.
Semantics(request) == [request EXCEPT !.mesh = None, !.policy = None]

\* _require_shared_identity.
Comparable(study, levels) ==
  \A i \in DOMAIN levels :
    /\ Request(levels[i].run).mesh = study.specs[i]
    /\ Request(levels[i].run).cases = <<study.case>>
    /\ Semantics(Request(levels[i].run)) = Semantics(Request(levels[1].run))

\* _level: the change from a response to the next one is within the threshold.
Close(study, before, after) ==
  100 * Size(Size(after) - Size(before))
    <= study.threshold * (IF Size(after) > Epsilon THEN Size(after) ELSE Epsilon)

StudyStatus(study, levels) ==
  IF \E i \in DOMAIN levels : levels[i].response = None THEN "NOT_EVALUABLE"
  ELSE IF \A i \in 2..Len(levels) : Close(study, levels[i - 1].response, levels[i].response)
       THEN "CONVERGED" ELSE "NOT_CONVERGED"

\* evaluate, of levels it can go on to classify.
Evaluable(study, levels) ==
  /\ StudyFits(study)
  /\ Len(levels) = Len(study.specs)
  /\ IsInjective(levels)
  /\ Comparable(study, levels)
  /\ \A i \in DOMAIN levels : Verifies(levels[i])

Study(study, levels) ==
  [study |-> study, levels |-> levels, status |-> StudyStatus(study, levels)]

-----------------------------------------------------------------------------
(* Repeatability *)

\* compare, by the largest displacement of every case.
Repeatable(a, b) ==
  /\ a # b /\ Request(a.run) = Request(b.run)
  /\ Verifies(a) /\ Verifies(b)
  /\ "displacement" \in Request(a.run).fields
  /\ \A case \in Range(Request(a.run).cases) :
       Size(Outputs(a.run)[case].frd.displacement - Outputs(b.run)[case].frd.displacement)
         <= RepeatTolerance

-----------------------------------------------------------------------------
(* Publication *)

EvidenceInit == Init /\ analyses = {} /\ studies = {} /\ publishing = None

\* publish, up to the writing of the record.
VerifyAnalysis(x, validated) ==
  /\ publishing = None /\ Cardinality(analyses) < MaxAnalyses
  /\ Verifiable(x)
  /\ publishing' = [kind |-> "analysis", record |-> Analysis(x, validated)]
  /\ UNCHANGED <<execVars, analyses, studies>>

VerifyStudy(study, levels) ==
  /\ publishing = None /\ Cardinality(studies) < MaxStudies
  /\ Evaluable(study, levels)
  /\ publishing' = [kind |-> "study", record |-> Study(study, levels)]
  /\ UNCHANGED <<execVars, analyses, studies>>

\* write_evidence: a record of that name is there already, and is kept; or there
\* is one more.  Either way the publication ends.
Write ==
  /\ publishing # None
  /\ publishing' = None
  /\ analyses' = IF publishing.kind = "analysis" THEN analyses \union {publishing.record} ELSE analyses
  /\ studies' = IF publishing.kind = "study" THEN studies \union {publishing.record} ELSE studies
  /\ UNCHANGED execVars

\* The publisher dies before it writes.
Abandon ==
  /\ publishing # None
  /\ publishing' = None
  /\ Fault
  /\ UNCHANGED <<history, executions, damaged, copies, analyses, studies>>

EvidenceNext ==
  \/ ExecutionNext /\ UNCHANGED evidenceVars
  \/ \E x \in Runs, validated \in BOOLEAN : VerifyAnalysis(x, validated)
  \/ \E study \in Studies : \E levels \in [DOMAIN study.specs -> analyses] : VerifyStudy(study, levels)
  \/ Write
  \/ Abandon

Spec == EvidenceInit /\ [][EvidenceNext]_vars

-----------------------------------------------------------------------------
(* Properties *)

Lines(x) == {executions[x].cases[i] : i \in DOMAIN executions[x].cases}

\* A factor of safety can be told, from what the definition trusts of its material.
Told(x, criterion) ==
  /\ criterion.sampling = "element_nodal_extrapolated"
  /\ "yield_strength" \in Definition(x).material.trusted

Meets(x, criterion) ==
  \E c \in Lines(x) :
    /\ c.case = criterion.case
    /\ criterion.kind \in Request(x).fields
    /\ criterion.consumes \subseteq Definition(x).material.trusted
    /\ IF criterion.kind = "displacement" THEN c.output.frd.displacement <= criterion.limit
       ELSE Told(x, criterion) /\ criterion.limit * c.output.frd.stress <= Definition(x).material.yield

Broken(x, criterion) ==
  \E c \in Lines(x) :
    /\ c.case = criterion.case
    /\ criterion.consumes \subseteq Definition(x).material.trusted
    /\ IF criterion.kind = "displacement" THEN c.output.frd.displacement > criterion.limit
       ELSE Told(x, criterion) /\ criterion.limit * c.output.frd.stress > Definition(x).material.yield

(***************************************************************************)
(* Evidence of an analysis rests on an execution that succeeded: the       *)
(* solver came to the end of every case that was asked for, over a deck    *)
(* whose forces on nodes are, in sum and in moment, the resultants of the  *)
(* definition in the revision of the request; and its verdict is PASS only *)
(* where every criterion of that definition is met by what the solver      *)
(* wrote, FAIL only where one is not, and neither on a property of the     *)
(* material that the definition does not trust.                            *)
(***************************************************************************)
EvidenceRestsOnSuccess ==
  \A a \in analyses :
    LET x == a.run
        criteria == Definitions[history[Request(x).revision]].criteria
    IN  /\ executions[x].manifest
        /\ {c.case : c \in Lines(x)} = Range(Request(x).cases)
        /\ \A c \in Lines(x) :
             /\ c.output.exit = 0 /\ c.output.finished
             /\ Request(x).fields \ {"reactions"} \subseteq c.output.frd.datasets
             /\ Holding[<<Request(x).geometry, history[Request(x).revision], c.case>>]
        /\ a.verdict = "PASS" => criteria # {} /\ \A c \in criteria : Meets(x, c)
        /\ a.verdict = "FAIL" => \E c \in criteria : Broken(x, c)

\* The kernel and the mesh agree on the areas of the regions.
AreasAgree(mesh) == \A id \in DOMAIN mesh.regions : mesh.regions[id].area = mesh.regions[id].observed
\* No triangle of a mesh is flat.
NoneFlat(body) ==
  \A tag \in DOMAIN body.skin : \A i \in DOMAIN body.skin[tag] : Areas(body, body.skin[tag])[i] > 0
\* The parser of reactions takes the names of supports, and no two of them meet.
Reported(mesh, supports) ==
  /\ \A i \in DOMAIN supports : supports[i].region \in Printed
  /\ \A i, j \in DOMAIN supports :
       i # j => mesh.regions[supports[i].region].nodes \intersect mesh.regions[supports[j].region].nodes = {}

(***************************************************************************)
(* An execution that succeeded can become evidence, as long as its files   *)
(* are whole, its STEP file is in one run only, was made by the tool       *)
(* evidence is of, and from the program its request names; the names of    *)
(* the regions are in an INP file what they are; the kernel and the mesh   *)
(* agree on their areas and no triangle is flat; the solver wrote every    *)
(* node; and, where reactions are asked for, no two supports of a case     *)
(* meet, and the parser of reactions takes their names.  Nothing else      *)
(* that makes an execution inadmissible can happen to one that succeeded:  *)
(* whatever else evidence_service.py demands, service.py saw to.           *)
(***************************************************************************)
SuccessIsAdmissible ==
  \A x \in Runs :
    LET e == executions[x]
    IN  (/\ e.manifest /\ e.status = "SUCCEEDED"
         /\ {d \in damaged : d[1] = x \/ d = <<0, Request(x).geometry>>} = {}
         /\ copies[Request(x).geometry] = 1
         /\ Genuine(Request(x))
         /\ NamesSurvive(Definition(x))
         /\ AreasAgree(Mesh(x)) /\ NoneFlat(Body(x))
         /\ \A c \in Lines(x) : c.output.frd.nodes = DOMAIN Body(x).nodes
         /\ "reactions" \in Request(x).fields =>
              \A c \in Lines(x) : Reported(Mesh(x), Supports(Definition(x), c.case)))
        => Verifiable(x)

(***************************************************************************)
(* Records are compared with their like.  A study that converged binds the *)
(* evidence of at least three executions, each of another mesh, of one     *)
(* definition, body and load case, and no response is further from the one *)
(* before than the threshold allows, of that response or of the least one. *)
(* Records that repeat each other are of one request, and no case of       *)
(* theirs is further apart than the tolerance.                             *)
(***************************************************************************)
ComparisonsAreOfLike ==
  /\ \A s \in studies :
       LET runs == {s.levels[i].run : i \in DOMAIN s.levels}
       IN  /\ Cardinality({Request(x).mesh : x \in runs}) >= 3
           /\ \A x, y \in runs :
                /\ Request(x).definition = Request(y).definition
                /\ Request(x).revision = Request(y).revision
                /\ Request(x).geometry = Request(y).geometry
                /\ Request(x).cases = Request(y).cases /\ Len(Request(x).cases) = 1
           /\ s.status = "CONVERGED" =>
                \A i \in 2..Len(s.levels) :
                  LET tip(j) == executions[s.levels[j].run].cases[1].output.frd.displacement
                      change == 100 * Size(tip(i) - tip(i - 1))
                  IN  \/ change <= s.study.threshold * tip(i)
                      \/ change <= s.study.threshold * Epsilon
  /\ \A a, b \in analyses :
       Repeatable(a, b) =>
         /\ Request(a.run) = Request(b.run)
         /\ \A i \in DOMAIN executions[a.run].cases :
              Size(executions[a.run].cases[i].output.frd.displacement
                     - executions[b.run].cases[i].output.frd.displacement) <= RepeatTolerance
=============================================================================

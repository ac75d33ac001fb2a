-------------------------- MODULE StructuralResults --------------------------
(***************************************************************************)
(* What the outputs of the solver are taken to mean (structural/results.py *)
(* and the tip displacement of validation.py): which files the parsers     *)
(* accept, the fields they give, and the criteria decided from them.       *)
(*                                                                         *)
(* An FRD file is [datasets, nodes, displacement, stress]: the fields it   *)
(* holds, the nodes they cover, and one magnitude of each that stands for  *)
(* the field.  A DAT file is the sequence of its sections of reactions,    *)
(* [region, nodes], one for every node set of the deck.                    *)
(*                                                                         *)
(* What the mesh says of the regions is in mesh, see Meshed.               *)
(*                                                                         *)
(* A criterion is [id, kind, case, region, limit, sampling, consumes]: the *)
(* largest displacement allowed, or the smallest factor of safety against  *)
(* yielding, how its samples are taken, and the properties of the material *)
(* it says it rests on.  A material is [known, trusted, yield].            *)
(***************************************************************************)
EXTENDS StructuralDeck

CONSTANT
  Printed   \* the regions whose node set has a name the parser of reactions takes

FrdFields == {"displacement", "stress"}

\* _verify_mesh_regions and _verify_mesh_manifest: every region has nodes in the MSH file,
\* and the groups of the manifest are the regions.
MeshAdmitted(mesh) ==
  /\ \A id \in DOMAIN mesh.regions : mesh.regions[id].nodes # {}
  /\ mesh.groups = DOMAIN mesh.regions

\* The nodes the criteria of a case look at.
AssessmentNodes(mesh, definition, case) ==
  UNION {mesh.regions[c.region].nodes : c \in {c \in definition.criteria : c.case = case}}

\* CalculiXFrdResultParser.parse, for the fields a request names.
FrdAccepted(mesh, definition, case, fields, frd) ==
  /\ fields \intersect FrdFields \subseteq frd.datasets
  /\ frd.nodes \subseteq mesh.nodes
  /\ AssessmentNodes(mesh, definition, case) \subseteq frd.nodes

\* CalculiXDatResultParser.parse_reactions: supports with names it takes, one section for
\* each, in order; every node of a support once.  And _surface_centroid: no triangle of
\* a support is flat.
DatAccepted(mesh, definition, case, dat) ==
  LET expected == [i \in DOMAIN Supports(definition, case) |-> Supports(definition, case)[i].region]
  IN  /\ IsInjective(expected) /\ Range(expected) \subseteq Printed
      /\ [i \in DOMAIN dat |-> dat[i].region] = expected
      /\ \A i, j \in DOMAIN dat : i # j => dat[i].nodes \intersect dat[j].nodes = {}
      /\ UNION {dat[i].nodes : i \in DOMAIN dat} = UNION {mesh.regions[id].nodes : id \in Range(expected)}
      /\ \A id \in Range(expected) : ~mesh.regions[id].flat

\* _interpret_case: the files of the fields asked for are read, the others not.
Interpretable(mesh, definition, case, fields, output) ==
  /\ fields \intersect FrdFields # {} => FrdAccepted(mesh, definition, case, fields, output.frd)
  /\ "reactions" \in fields => DatAccepted(mesh, definition, case, output.dat)

-----------------------------------------------------------------------------
(* Criteria *)

\* evaluate_material_authority_policy, for the properties a criterion consumes.
Eligible(material, criterion) == criterion.consumes \subseteq (material.known \intersect material.trusted)

\* Stresses are those the solver extrapolates to the nodes of elements, and a factor of
\* safety needs a yield strength.
Assessable(criterion) ==
  criterion.kind = "stress" =>
    criterion.sampling = "element_nodal_extrapolated" /\ "yield_strength" \in criterion.consumes

\* _evaluate_criterion: the cases of a result are those the request selected,
\* and the samples of a region those of its nodes.
Decided(mesh, definition, fields, outputs, criterion) ==
  /\ criterion.case \in DOMAIN outputs
  /\ Eligible(definition.material, criterion)
  /\ criterion.kind \in fields /\ Assessable(criterion)
  /\ mesh.regions[criterion.region].nodes \intersect outputs[criterion.case].frd.nodes # {}

Met(definition, outputs, criterion) ==
  LET frd == outputs[criterion.case].frd
  IN  IF criterion.kind = "displacement"
      THEN frd.displacement <= criterion.limit
      ELSE frd.stress = 0 \/ definition.material.yield >= criterion.limit * frd.stress

CriterionStatus(mesh, definition, fields, outputs, criterion) ==
  IF ~Decided(mesh, definition, fields, outputs, criterion) THEN "NOT_EVALUABLE"
  ELSE IF Met(definition, outputs, criterion) THEN "PASS" ELSE "FAIL"

\* StructuralVerificationService.evaluate: no criterion, no verdict.
Verdict(mesh, definition, fields, outputs) ==
  LET statuses == {CriterionStatus(mesh, definition, fields, outputs, c) : c \in definition.criteria}
  IN  IF "FAIL" \in statuses THEN "FAIL"
      ELSE IF statuses = {} \/ "NOT_EVALUABLE" \in statuses THEN "NOT_EVALUABLE" ELSE "PASS"

-----------------------------------------------------------------------------
(* The analytical check of a cantilever *)

\* _tip_displacement: the displacement of the free end, where every node of it
\* has one and its mesh has the area observed on the body.
TipDisplacement(mesh, fields, output, free) ==
  IF /\ "displacement" \in fields
     /\ mesh.regions[free].nodes \subseteq output.frd.nodes
     /\ mesh.regions[free].area = mesh.regions[free].observed
  THEN output.frd.displacement
  ELSE None
=============================================================================

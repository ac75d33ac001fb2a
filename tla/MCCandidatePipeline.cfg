SPECIFICATION Spec
CONSTANTS
  A = A
  B = B
  base = base
  arm = arm
  motor = motor
  geometry = geometry
  v1 = v1
  v2 = v2
  None = None
  Parts <- TheParts
  PartOrder <- TheOrder
  SpecOf <- Specs
  Manifests <- TheManifests
  Plans <- ThePlans
  Results <- TheResults
  Values = {v1, v2}
  Artifacts = {geometry}
  Policies <- ThePolicies
  MaxRevision = 2
  MaxLosses = 1
INVARIANTS
  FeasibleIsProved
  StagesComplete
  EvaluationStands
  RankingIsByClearance
PROPERTIES
  SelectionIsOfNow
SYMMETRY Symmetry
CHECK_DEADLOCK FALSE

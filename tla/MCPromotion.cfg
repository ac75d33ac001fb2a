SPECIFICATION Spec
CONSTANTS
  A = A
  B = B
  base = base
  arm = arm
  motor = motor
  geometry = geometry
  p1 = p1
  p2 = p2
  w1 = w1
  None = None
  Wildcard = Wildcard
  Garbled = Garbled
  Parts <- TheParts
  PartOrder <- TheOrder
  SpecOf <- TheSpecs
  Publications <- ThePublications
  Rules <- TheRules
  Edges = {}
  Leaves = {}
  ChangeSets <- TheChangeSets
  MaxRevision = 3
  MaxFaults = 1
  Published <- ThePublished
  Promoters = {p1, p2}
  Others = {w1}
  Requests <- TheRequests
  Assignments <- TheAssignments
  PathOf <- ThePaths
  RecordOf <- TheRecords
  MaxLapses = 1
INVARIANTS
  ReceiptIsTrue
  AppliedAsReviewed
  DecisionPrecedesCommit
  ResultIsLast
  AcceptedIsCoherent
  LocatorMeansProved
  VerifiedIsFound
PROPERTIES
  ImplementsEvidenceStore
  ImplementsArtifactStore
CHECK_DEADLOCK FALSE

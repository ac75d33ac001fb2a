SPECIFICATION FairSpec
CONSTANTS
  w1 = w1
  w2 = w2
  p1 = p1
  q1 = q1
  e1 = e1
  None = None
  Wildcard = Wildcard
  Rules <- MCRules
  Edges <- MCEdges
  Leaves <- MCLeaves
  Writers = {w1, w2}
  Producers = {p1}
  Queries = {q1}
  EvidenceIds = {e1}
  ChangeSets <- MCDeepChanges
  MaxRevision = 3
  MaxFaults = 1
INVARIANTS
  CurrentMeansUntouched
PROPERTIES
  StaleForever
  GapForever
  CoverageCompletes
CHECK_DEADLOCK FALSE

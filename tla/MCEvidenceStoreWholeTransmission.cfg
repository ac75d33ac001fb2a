SPECIFICATION Spec
CONSTANTS
  w1 = w1
  w2 = w2
  p1 = p1
  q1 = q1
  e1 = e1
  None = None
  Wildcard = Wildcard
  Rules <- MCOwnerRules
  Edges = {}
  Leaves <- MCOwnedLeaves
  Writers = {w1, w2}
  Producers = {p1}
  Queries = {q1}
  EvidenceIds = {e1}
  ChangeSets <- MCWholeTransmission
  MaxRevision = 2
  MaxFaults = 0
INVARIANT
  CurrentMeansUntouched
CHECK_DEADLOCK FALSE

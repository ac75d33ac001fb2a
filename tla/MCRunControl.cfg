SPECIFICATION FairSpec
CONSTANTS
  k1 = k1
  w1 = w1
  a = a
  b = b
  c = c
  None = None
  Wildcard = Wildcard
  Rules <- MCRules
  Edges <- MCEdges
  Leaves <- MCLeaves
  ChangeSets <- MCChangeSets
  MaxRevision = 3
  MaxFaults = 2
  Runs = {k1}
  Others = {w1}
  Tasks = {a, b}
  RunOf <- MCRunOf
  DependsOn <- MCDependsOn
  Needs <- MCNeeds
  Produces <- MCProduces
  TaskOrder <- MCTaskOrder
  Required <- MCRequired
  MaxIterations = 1
  MaxLapses = 1
INVARIANTS
  IterationCountsRevisions
  NoTaskOnChangedInputs
  DependenciesFirst
PROPERTIES
  ExecutionSettles
  CompletedOnUntouchedEvidence
  ImplementsEvidenceStore
CHECK_DEADLOCK FALSE

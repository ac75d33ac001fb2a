SPECIFICATION Spec
CONSTANTS
  k1 = k1
  w1 = w1
  a = a
  b = b
  c = c
  None = None
  Wildcard = Wildcard
  Rules <- MCRules
  Edges <- MCEdges
  Leaves <- MCLeaves
  ChangeSets <- MCChangeSets
  MaxRevision = 2
  MaxFaults = 1
  Runs = {k1}
  Others = {w1}
  Tasks = {a, b, c}
  RunOf <- MCRunOfChain
  DependsOn <- MCDependsOnChain
  Needs <- MCNeedsChain
  Produces <- MCProducesChain
  TaskOrder <- MCTaskOrderChain
  Required <- MCRequiredChain
  MaxIterations = 1
  MaxLapses = 0
PROPERTIES
  DownstreamOfFailureBlocked
CHECK_DEADLOCK FALSE

SPECIFICATION Spec
CONSTANTS
  k1 = k1
  k2 = k2
  other = other
  w1 = w1
  w2 = w2
  speed = speed
  slow = slow
  fast = fast
  ada = ada
  bob = bob
  c1 = c1
  c2 = c2
  c3 = c3
  j = j
  i = i
  base = base
  hinge = hinge
  None = None
  Wildcard = Wildcard
  Rules <- MCRules
  Edges <- MCEdges
  Leaves <- MCLeaves
  ChangeSets <- MCChangeSets
  OtherChanges <- MCOtherChanges
  Torque = "torque"
  Given <- MCGiven
  Runs = {k1, k2}
  Others = {other}
  Workflows = {w1, w2}
  RunOf <- MCRunOf
  Missed <- MCMissed
  Keys = {speed}
  Commands = {c1, c2, c3, j, i}
  Joint = {j, i}
  CommandRun <- MCCommandRun
  Answers <- MCAnswers
  By <- MCBy
  Declaration <- MCDeclaration
  Authorised = {c1, c2, c3, j, i}
  MaxRevision = 3
  MaxFaults = 1
  MaxLapses = 1
INVARIANTS
  AdmissionIsTrue
  AdmittedWasAsked
PROPERTY
  ResumeIsTruthful
CHECK_DEADLOCK FALSE

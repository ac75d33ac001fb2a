SPECIFICATION Spec
CONSTANTS
  t1 = t1
  t2 = t2
  t3 = t3
  server = server
  cli = cli
  materials = materials
  packaging = packaging
  None = None
  Absent = Absent
  NoOwner = NoOwner
  Rejected = Rejected
  Paths <- MCPaths
  Values = {1, 2}
  Actors = {materials, packaging}
  Owner <- MCOwner
  Valid <- MCValid
  Proposals <- MCProposals
  Threads <- MCThreads
  Processes <- MCProcesses
  Home <- MCHome
  Founders <- MCTwoFounders
  Readers <- MCReaders
  MaxRevision = 2
  MaxIOErrors = 0
  MaxCrashes = 0
PROPERTY
  SnapshotsImmutable
CHECK_DEADLOCK FALSE

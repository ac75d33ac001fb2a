SPECIFICATION FairSpec
CONSTANTS
  t1 = t1
  t2 = t2
  t3 = t3
  server = server
  cli = cli
  materials = materials
  packaging = packaging
  None = None
  Absent = Absent
  NoOwner = NoOwner
  Rejected = Rejected
  Paths <- MCPaths
  Values = {1, 2}
  Actors = {materials, packaging}
  Owner <- MCOwner
  Valid <- MCValid
  Proposals <- MCProposals
  Threads <- MCThreads
  Processes <- MCProcesses
  Home <- MCHome
  Founders <- MCFounders
  Readers <- MCReaders
  MaxRevision = 3
  MaxIOErrors = 1
  MaxCrashes = 1
INVARIANTS
  MutualExclusion
  ReadersNeverTorn
PROPERTIES
  LockGivenBack
  WaitersNotStranded
  SnapshotsImmutable
  OrphanNeverAdopted
  FirstCommitterWins
  ImplementsLog
CHECK_DEADLOCK FALSE

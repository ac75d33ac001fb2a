SPECIFICATION AlgorithmsSpec
CONSTANTS
  Names <- MCNames
  Rank <- MCRank
  Caller = Caller
  MaxEdges = 5
  Chord <- MCChord
  Grid = 4
  Cases <- TheCases
  None = None
  base = base
  link = link
  tool = tool
  camera = camera
  j1 = j1
  j2 = j2
INVARIANTS
  SearchesAreRight
  VerdictIsTrue
CHECK_DEADLOCK FALSE

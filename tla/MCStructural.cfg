SPECIFICATION Spec
CONSTANTS
  None = None
  AreaTolerance = 16
  CentroidTolerance = 1
  PlanarityTolerance = 1
  Provider = "freecad"
  Tool = "part"
  Scale = 1056
  ConservationTolerance = 150
  Epsilon = 1
  RepeatTolerance = 5
  MaxRevisions = 2
  MaxFaults = 1
  MaxOpen = 2
  MaxEffort = 4
  MaxAnalyses = 3
  MaxStudies = 1
  Bodies <- MCBodies
  Origins <- MCOrigins
  Elset <- MCElset
  Printed <- MCPrinted
  Definitions <- MCDefinitions
  Plans <- MCPlans
  Fields <- MCFields
  Studies <- MCStudies
  Outcomes <- MCOutcomes
  Meshes <- MCMeshes
  Decks <- MCDecks
  Supported <- MCSupported
  Faithful <- MCFaithful
  Holding <- MCHolding
CHECK_DEADLOCK FALSE
INVARIANTS
  EvidenceRestsOnSuccess
  SuccessIsAdmissible
  ComparisonsAreOfLike

SPECIFICATION Spec
CONSTANTS
  EventTables <- MCTables
  Measurements <- MCMeasurements
  Settings <- MCSettings
  Explicit <- MCExplicit
  MaxTimestamps = 2
  MaxPairs = 2
  Practical = 1
  Legacy = 3
  Incremental = 1
  MaxForwardLoss = 2
  Entities = {a, b}
  Times = {1, 2, 3}
  Marks <- MCMarks
  MaxFitRows = 4
  MaxServeRows = 2
  Representations <- MCRepresentations
  MaxScales = 2
  MaxFeatures = 14
  SuffixDepth = 2
INVARIANTS
  FactsAreOfStrictPast
  DeployedAsJudged
  JudgedAgainstOwnBaseline
  SearchIsAccounted
SYMMETRY Symmetry
CHECK_DEADLOCK FALSE

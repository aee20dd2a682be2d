SPECIFICATION Spec
CONSTANTS
  Candidates = {0, 1, 2}
  Base = 1
  Rungs = 3
  Scores <- MCScores
  MinUnits = 2
  Margin = 0
  MaxLoss = 0
  FoldGain = 2
  MeanGain = 5
  ScreenLoss = 2
  Tables <- MCTables
  FoldGains <- MCFoldGains
  RareChoices <- MCRareChoices
  MultiChoices <- MCMultiChoices
  BinaryChoices <- MCBinaryChoices
  Fits <- MCFits
  Pairs = {p, q}
  NoPair = NoPair
  Looks <- MCLooks
  Tolerance = 1
  AuditionRounds = 2
  MaxAuditions = 2
  ProbeRounds = 2
  NoTable = NoTable
INVARIANTS
  EditsJudgedOnConfiguration
  ConfigurationIsTrainable
  AnchorsSurvive
  DeploysOnEqualBudget
  PrefixIsTheRecord
  VerdictsAreEarned
  ReportIsDeployed
SYMMETRY PairSymmetry
CHECK_DEADLOCK FALSE

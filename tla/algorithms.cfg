SPECIFICATION Spec
CONSTANTS
  Cap = {2, 3, 4}
  Times = {1, 2, 3, 4}
  Rows = 5
  ClassLabels = {"a", "b"}
  ValidationCalls <- MCValidationCalls
  DecisionCalls <- MCDecisionCalls
  ExitCalls <- MCExitCalls
  RegionCalls <- MCRegionCalls
  PointSplits <- MCPointSplits
  MaxRows = 6
  FoldGain = 2
  MeanGain = 3
  ScreenLoss = 2
  Half = 4
  Conservative <- MCConservative
  MinPerFold = 2
  MinSupport = 2
  MinNetWins = 2
  NegInf <- MCNegInf
  PosInf = 1000
  One = 8
  NextAfter = 2
  Stride = 1
  MinReduction = 25
  ShallowReduction = 30
  SharedReduction = 35
  DeepStages = 4
  TableCap = 6
  WideGroups = {3}
INVARIANTS
  HeldOutIsTheFuture
  BoundedRowsKeepRecentTimes
  DeployedAtMeasuredCheckpoint
  DeployedLayersWereVerified
  ThresholdsAreProspective
  RoutingIsLeakSafe
  QuantileCovers
  VerifierKeepsClasses
  RegionsKeepTheirRows
  EarlyExitIsExact
  CertificatesHold
  ReasonsAreSufficient
  RecourseIsLeast
CHECK_DEADLOCK FALSE

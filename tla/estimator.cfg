\* Three fits of any kind, each failing anywhere, with serving calls between; and two
\* saves and two loads of one path.
SPECIFICATION EstimatorSpec
CONSTANTS
  MaxFits = 3
  Saves = {s1, s2}
  Loads = {l1, l2}
  NoFile = NoFile
SYMMETRY CallSymmetry
CHECK_DEADLOCK FALSE
INVARIANTS
  ServesOneFit
  DecisionsAreOfServedModel
  SurvivesPowerLoss
PROPERTIES
  ImplementsAtomicStore

SPECIFICATION Spec
CONSTANTS
  Absent = Absent
  Class = {c1, c2}
INVARIANTS
  CalibrationMatchesServing
  ThresholdsFollowClassChallenger
  GatesJudgedServedIncumbent
  ProofConcludesServedClass
  PublicAgreesUnlessDecisionOnly
SYMMETRY ClassSymmetry

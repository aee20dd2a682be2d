SPECIFICATION BothSpec
CONSTANTS
  Facts <- MCFacts
  Preds <- MCPreds
  RuleBases <- MCRuleBases
  Programs <- MCPrograms
  Levels <- MCLevels
  MaxRules = 3
  Nodes = {n1, n2, n3}
  Second = n2
  Third = n3
  Root = n1
  None = None
  Frames = 2
  Statements <- MCStatements
  Rules <- MCRules
  Heaps <- MCHeaps
  Calls <- MCCalls
  Limits <- MCLimits
  Checked <- MCChecked
  Fired <- MCFired
  Lemmas <- MCLemmas
INVARIANTS
  StratifiableIsStratified
  ProvenanceWellFounded
  ComputesPerfectModel
  ClosureProofsCheck
  AcceptedIsDerivable
  AcceptsExactlyTrees
PROPERTY Answers
CHECK_DEADLOCK FALSE

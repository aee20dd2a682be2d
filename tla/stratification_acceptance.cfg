SPECIFICATION KernelSpec
CONSTANTS
  Facts <- MCFacts
  Preds <- MCPreds
  RuleBases <- MCRuleBases
  Programs <- MCPrograms
  Levels <- MCLevels
  MaxRules = 3
INVARIANT AcceptedIsStratified
CHECK_DEADLOCK FALSE

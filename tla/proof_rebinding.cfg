SPECIFICATION CheckSpec
CONSTANTS
  Nodes = {n1, n2, n3}
  Root = n1
  None = None
  Frames = 2
  Statements <- MCStatements
  Rules <- MCRules
  Heaps <- MCHeaps
  Calls <- MCCalls
  Limits = {2}
  Checked <- MCChecked
  Fired <- MCFired
  Lemmas <- MCRules
CHECK_DEADLOCK FALSE
INVARIANT ProofsAreIndependent

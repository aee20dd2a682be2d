\* Fit a graph, derive, fit another graph, derive.
SPECIFICATION Spec
CONSTANT MaxFits = 2
INVARIANT ClosuresAreOfServedRules

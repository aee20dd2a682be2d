\* An event fit that raises after its predictor was assigned.
SPECIFICATION Spec
CONSTANT MaxFits = 2
INVARIANT NoPartialTemporalModel

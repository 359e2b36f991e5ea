CONSTANT Rounds = 2
SPECIFICATION Spec
INVARIANT ControlMeasures

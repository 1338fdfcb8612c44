SPECIFICATION Spec
PROPERTY FailuresPropagate

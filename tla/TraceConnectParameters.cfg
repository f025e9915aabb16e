SPECIFICATION Spec
CONSTANT MaxLines = 4
CHECK_DEADLOCK FALSE
INVARIANT BaselineParameters

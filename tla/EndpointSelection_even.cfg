SPECIFICATION Spec
CONSTANT MaxEndpoints = 2
INVARIANTS
    SelectsServable
CHECK_DEADLOCK FALSE

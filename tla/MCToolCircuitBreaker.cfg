SPECIFICATION Spec
CONSTANTS
    c1 = c1
    c2 = c2
    c3 = c3
    Tools = {"weather"}
    Callers = {c1, c2, c3}
    Throwing = {"weather"}
    HttpCallers = {c1}
    Threshold = 2
    ClientCancels = TRUE
INVARIANTS
    TypeOK
    ClosedBelowThreshold
    HalfOpenHasProbe
CHECK_DEADLOCK FALSE

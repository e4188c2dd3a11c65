SPECIFICATION Spec
CONSTANTS
    c1 = c1
    c2 = c2
    c3 = c3
    Tools = {"weather"}
    Callers = {c1, c2}
    Throwing = {}
    HttpCallers = {}
    Threshold = 2
    ClientCancels = TRUE
PROPERTY HalfOpenIsTransient
CHECK_DEADLOCK FALSE

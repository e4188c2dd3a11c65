SPECIFICATION Spec
CONSTANTS
    t1 = t1
    t2 = t2
    t3 = t3
    w1 = w1
    w2 = w2
    w3 = w3
    w4 = w4
    w5 = w5
    k1 = k1
    k2 = k2
    k3 = k3
    NoTask = NoTask
    NoKey = NoKey
    Tasks = {t1, t3}
    Workers = {w1, w3, w4, w5}
    Keys = {k1, k3}
    Method <- MethodOf
    PoolOf <- PoolAssignment
    Capacity <- OnePlaceEach
    Key <- OwnKeys
    Entry <- AllWait
    Shape <- AllCallable
    Timed = {t1}
    IdReuse = "never"
    SlowLanes = {"Tool"}
PROPERTIES
    LaneIsolation
    LanesUseTheirQueues
CHECK_DEADLOCK FALSE

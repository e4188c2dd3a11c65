SPECIFICATION Spec
CONSTANTS
    Items = {i1, i2, i3}
    NoItem = NoItem
    Consumers = {c1, c2, c3}
    Closers = {k1, k2}
    Capacity = 2
INVARIANTS
    TypeOK
    NoLostWakeup
    NoSleeperLeftBehind
    StoppedMeansDrained
PROPERTY
    ImplementsBoundedQueue
CHECK_DEADLOCK FALSE

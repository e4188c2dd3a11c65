SPECIFICATION Spec
CONSTANTS
    ann = ann
    c1 = c1
    c2 = c2
    Clients = {ann}
    Connections = {c1, c2}
    ClientLimits = {1, 2}
    MaxPending = 2
    MaxReplay = 3
    SseWorkers = 2
    MaxEvents = 4
INVARIANTS
    TypeOK
    DeliveredInOrder
    RecentEventsReachClient
PROPERTY ConnectionsEnd
CHECK_DEADLOCK FALSE

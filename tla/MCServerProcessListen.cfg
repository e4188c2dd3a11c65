SPECIFICATION Spec
CONSTANTS
    IntWidth = 24
    SizeWidth = 30
    Modes = {"http"}
    Files <- DefaultsOnly
    m1 = m1
    m2 = m2
    ann = ann
    Nobody = Nobody
    SseClients = {ann}
    MaxSignals = 0
    Messages = {m1, m2}
    SentIn <- SentInMode
PROPERTY ListenFailureStops
CHECK_DEADLOCK FALSE

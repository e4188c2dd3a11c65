SPECIFICATION Spec
CONSTANTS
    IntWidth = 24
    SizeWidth = 30
    Modes = {"http", "stdio", "both"}
    Files <- AllFiles
    m1 = m1
    m2 = m2
    ann = ann
    Nobody = Nobody
    SseClients = {ann}
    MaxSignals = 1
    Messages = {m1, m2}
    SentIn <- SentInMode
INVARIANTS
    TypeOK
    StdioFramesWhole
    StdioAnsweredBeforeReturn
    StdioCallbacksOnLiveServer
    AcceptedConfigUsable
    JoinedBeforeShutdown
PROPERTIES
    SignalStops
CHECK_DEADLOCK FALSE

SPECIFICATION Spec
CONSTANTS
    p1 = p1
    p2 = p2
    p3 = p3
    ann = ann
    bob = bob
    None = None
    Empty = ""
    Unknown = Unknown
    NoTask = NoTask
    Latest = "2026-07-28"
    Properties <- WeatherProperties
    Required <- WeatherRequired
    Posts = {p1, p2, p3}
    Users = {ann, bob}
    SenderOf <- OfAnn
    Ids = {1, 2}
    MaxElements = 4
    HttpThreads = 2
    RequestsOf <- Requests
INVARIANTS
    TypeOK
    BatchAnsweredInOrder
    GivenUpIsCancelled
    CancelStaysWithUser
    AdmittedAreConsistent
PROPERTY PostsEnd
CHECK_DEADLOCK FALSE

SPECIFICATION Spec
CONSTANTS
    w1 = w1
    w2 = w2
    query = query
    notes = notes
    s1 = s1
    Free = Free
    Calls = {w1, w2, query}
    Writers = {w1, w2}
    PoliciesOf <- MixedPolicies
    HasCallback = TRUE
    Files = {notes}
    FileOf <- WrittenFile
    LockOf <- OneStripe
INVARIANTS
    TypeOK
    EventsMatchResult
    AttemptsBounded
    ContentNotMixed
PROPERTY CallsReturn
CHECK_DEADLOCK FALSE

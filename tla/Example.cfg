SPECIFICATION ExampleSpec
CHECK_DEADLOCK FALSE
CONSTANTS
    Task = {w1, w2}
    Nobody = Nobody
    MAX_BACKOFF = 2
    NoTimer <- MCNoTimer
    MaxTime = 5
    MaxConns = 1
    MaxQueue = 1
    h1 = h1
    h2 = h2
    h3 = h3
    t1 = t1
    t2 = t2
    Id = {1, 2, 3}
    Hub = {h1, h2, h3}
    Topic = {t1, t2}
    NotUri = {h3}
    Null = Null
    NoRow = NoRow
    Absent = Absent
    Responses <- MCResponses
    Subscription = {a, b, c}
    Expiry = {1}
    NoExpiry = NoExpiry
INVARIANTS
    GivesUpAfterSeries
    RetryWakesPoller
    NothingLeftAtEnd
    EndNoticed
    AskedOnSuccess
    LeftoversBounded
    ReferencesHold
PROPERTIES
    KeepsServing
    LeasesSurvive

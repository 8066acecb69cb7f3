SPECIFICATION FairSpec
CONSTANTS
    w1 = w1
    w2 = w2
    Workers = {w1, w2}
    Callers = {w1, w2}
    NoThread = NoThread
    Role = "server"
    MaxSends = 3
    OtherErrors = FALSE
    DisconnectMayFail = FALSE
INVARIANTS
    NoStrandedQueue
    Listening
PROPERTIES
    ImplementsChannel
    LostConnectionReleased

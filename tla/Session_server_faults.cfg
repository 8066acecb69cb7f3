SPECIFICATION Spec
CONSTANTS
    w1 = w1
    w2 = w2
    w3 = w3
    Workers = {w1, w2, w3}
    Callers = {w1, w2, w3}
    NoThread = NoThread
    Role = "server"
    MaxSends = 3
    OtherErrors = TRUE
    DisconnectMayFail = TRUE
SYMMETRY WorkerSymmetry
INVARIANTS
    SendEventExclusive
    RecvBufferExclusive
    OutstandingPinned
    NoEmptySend
    RegistrationOrdered

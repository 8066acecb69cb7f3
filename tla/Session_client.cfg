SPECIFICATION FairSpec
CONSTANTS
    w1 = w1
    w2 = w2
    main = main
    Workers = {w1, w2}
    Callers = {main}
    NoThread = NoThread
    Role = "client"
    MaxSends = 3
    OtherErrors = FALSE
    DisconnectMayFail = FALSE
PROPERTIES
    ImplementsChannel

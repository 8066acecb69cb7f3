SPECIFICATION FairSpec
CONSTANTS
    s1 = s1
    s2 = s2
    c1 = c1
    c2 = c2
    Sessions = {s1, s2}
    Connections = {c1, c2}
    NumWorkers = 2
    MaxBroadcasts = 2
    None = None
INVARIANTS
    PoolSuffices
    ConnectionPrivate
    AgreeOnOrder
    CountsChats
    NoPlayerOnlyIfOvertaken
PROPERTIES
    LoginAnswered

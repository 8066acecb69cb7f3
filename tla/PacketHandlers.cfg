SPECIFICATION Spec
CONSTANTS
    s1 = s1
    c1 = c1
    c2 = c2
    Sessions = {s1}
    Connections = {c1, c2}
    Texts <- HelloWorld
    Elsewheres <- LoginsElsewhere
    MaxChats = 3
    MaxTests = 1
    ChunkSize = 110
    OpenSize = 92
    INT_MAX = 131071
    None = None
INVARIANTS
    ShownAsMade
    TornOnlyOverMixed
    BindingsLive
    StatementsAccepted
    RowsCountChats

SPECIFICATION Spec
CONSTANTS
    t1 = t1
    t2 = t2
    q1 = q1
    q2 = q2
    c1 = c1
    c2 = c2
    c3 = c3
    Threads = {t1, t2}
    Sessions = {q1, q2}
    Chunks = {c1, c2, c3}
    ChunkSize = 3
    AllocSize = 2
    MaxPackets = 4
    None = None
SYMMETRY PoolSymmetry
INVARIANTS
    ContentIntact
    ChunkExclusive
    NoChunkLost
    NoCrash

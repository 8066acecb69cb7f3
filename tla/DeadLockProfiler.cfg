SPECIFICATION Spec
CONSTANTS
    t1 = t1
    t2 = t2
    manager = manager
    pool = pool
    session1 = session1
    session2 = session2
    Threads = {t1, t2}
    Locks = {manager, pool, session1, session2}
    Name <- ClassOf
    MaxDepth = 2
    None = None
SYMMETRY ProfilerSymmetry
INVARIANTS
    ReportsDeadlock
    ProfilerExact

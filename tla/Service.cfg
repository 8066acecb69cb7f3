SPECIFICATION FairSpec
CONSTANTS
    Conns = {c1, c2}
    Accepted = {a1, a2, a3, a4}
    Accepts = {e1}
    ServerWorkers = {w1, w2}
    ClientWorkers = {v1}
    ServerMain = m
    MaxFaults = 1
    None = None
INVARIANTS
    KeepsAccepting
    AcceptsFreshSession
    RegistersAgree
    AbandonedOnlyAfterFailure
PROPERTIES
    EveryClientServed

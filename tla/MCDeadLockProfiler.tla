------------------------- MODULE MCDeadLockProfiler -------------------------
(***************************************************************************)
(* DeadLockProfiler for TLC: the lock of the session manager, that of the  *)
(* connection pool, and those of two sessions, which share a name.         *)
(***************************************************************************)
EXTENDS DeadLockProfiler, TLC

CONSTANTS t1, t2, manager, pool, session1, session2

ClassOf == manager :> "GameSessionManager" @@ pool :> "DBConnectionPool"
           @@ session1 :> "Session" @@ session2 :> "Session"

ProfilerSymmetry ==
    Permutations(Threads) \cup Permutations({session1, session2})
=============================================================================

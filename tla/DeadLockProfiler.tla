-------------------------- MODULE DeadLockProfiler --------------------------
(***************************************************************************)
(* The profiler of lock orders (debug builds), and the threads and locks   *)
(* it watches.  Lock tells it a lock's name before it waits for the lock   *)
(* and before it releases it.  The name is typeid(this).name() of the      *)
(* object that owns the lock, so all objects of a class share one.         *)
(*                                                                         *)
(* How a lock is acquired by its atomic steps is module Lock; here it is   *)
(* acquired in one.                                                        *)
(***************************************************************************)
EXTENDS LockSearch, FiniteSets

CONSTANTS
    Threads,
    Locks,
    Name,        \* the name of each lock
    MaxDepth,    \* bound on the guards of a thread
    None

Guards == [lock : Locks, mode : {"read", "write"}]
Asks == [thread : Threads, guard : Guards]

ASSUME ProfilerAssumption ==
    /\ DOMAIN Name = Locks
    /\ MaxDepth \in Nat
    /\ None \notin Guards \cup Asks

VARIABLES
    held,        \* guards of each thread, the innermost last
    want,        \* the lock each thread is about to get, or None
    leaving,     \* threads between PopLock and the end of the unlock
    stack,       \* LLockStack of each thread
    ids,         \* _nameToId: the name with id n is at n + 1
    asks,        \* the thread in CheckCycle and what it asked for, or None
    crashed      \* why the program has crashed

vars == <<held, want, leaving, stack, ids, lockHistory, asks, searchVars, crashed>>

Ids == 0..Len(ids) - 1

Reasons == {"no", "MULTIPLE_UNLOCK", "INVALID_UNLOCK", "DEADLOCK_DETECTED",
            "LOCK_TIMEOUT"}

TypeOK ==
    /\ held \in [Threads -> Seq(Guards)]
    /\ want \in [Threads -> Guards \cup {None}]
    /\ leaving \subseteq Threads
    /\ ids \in Seq({Name[l] : l \in Locks})
    /\ stack \in [Threads -> Seq(Ids)]
    /\ lockHistory \subseteq Ids \X Ids
    /\ asks \in Asks \cup {None}
    /\ DOMAIN discovered = IF asks = None THEN {} ELSE Ids
    /\ discovered \in [DOMAIN discovered -> Nat \cup {-1}]
    /\ count \in Nat
    /\ finished \subseteq DOMAIN discovered
    /\ parent \in [DOMAIN discovered -> Ids \cup {-1}]
    /\ calls \in Seq(Frames(DOMAIN discovered))
    /\ lockId \in Nat
    /\ now \in Ids \cup {-1}
    /\ crashed \in Reasons

Init ==
    /\ held = [t \in Threads |-> <<>>]
    /\ want = [t \in Threads |-> None]
    /\ leaving = {}
    /\ stack = [t \in Threads |-> <<>>]
    /\ ids = <<>>
    /\ lockHistory = {}
    /\ asks = None
    /\ discovered = [i \in {} |-> -1]
    /\ count = 0
    /\ finished = {}
    /\ parent = [i \in {} |-> -1]
    /\ calls = <<>>
    /\ lockId = 0
    /\ now = -1
    /\ crashed = "no"

-----------------------------------------------------------------------------
(***************************************************************************)
(* The guards of the threads.                                              *)
(***************************************************************************)
\* _nameToId, with the name added if it is new.
WithName(n) == IF Contains(ids, n) THEN ids ELSE Append(ids, n)
IdIn(table, n) == CHOOSE i \in 0..Len(table) - 1 : table[i + 1] = n

\* The order that a lock adds to the graph: after the last lock of the thread.
NewEdges(t, id) ==
    IF stack[t] = <<>> \/ Last(stack[t]) = id THEN {} ELSE {<<Last(stack[t]), id>>}

\* Faulty variant: a name that is on top is not pushed again.
Push_Once(t, guard, id) ==
    /\ stack' = [stack EXCEPT ![t] = IF @ # <<>> /\ Last(@) = id THEN @ ELSE Append(@, id)]
    /\ want' = [want EXCEPT ![t] = guard]

\* The end of PushLock; then the lock is waited for.
Push(t, guard, id) ==
    /\ stack' = [stack EXCEPT ![t] = Append(@, id)]
    /\ want' = [want EXCEPT ![t] = guard]

\* A guard of lock l begins: PushLock, up to the search if the order is new.
PushLock(t, l, mode) ==
    /\ crashed = "no" /\ asks = None
    /\ want[t] = None /\ t \notin leaving
    /\ Len(held[t]) < MaxDepth
    /\ LET table == WithName(Name[l])
           id == IdIn(table, Name[l])
           guard == [lock |-> l, mode |-> mode]
       IN /\ ids' = table
          /\ lockHistory' = lockHistory \cup NewEdges(t, id)
          /\ \/ /\ NewEdges(t, id) \subseteq lockHistory
                /\ Push(t, guard, id)
                /\ UNCHANGED <<asks, searchVars>>
             \/ /\ ~(NewEdges(t, id) \subseteq lockHistory)
                /\ asks' = [thread |-> t, guard |-> guard]
                /\ Begin(Len(table))
                /\ UNCHANGED <<stack, want>>
    /\ UNCHANGED <<held, leaving, crashed>>

\* CheckCycle runs under the profiler's mutex: no other PushLock or PopLock does.
CheckCycle ==
    /\ crashed = "no" /\ asks # None
    /\ Search
    /\ UNCHANGED <<held, want, leaving, stack, ids, asks, crashed>>

Crash ==
    /\ crashed = "no" /\ asks # None
    /\ Printed
    /\ crashed' = "DEADLOCK_DETECTED"
    /\ UNCHANGED <<held, want, leaving, stack, ids, lockHistory, asks, searchVars>>

PushLock_End ==
    /\ crashed = "no" /\ asks # None
    /\ Over
    /\ Push(asks.thread, asks.guard, IdIn(ids, Name[asks.guard.lock]))
    /\ asks' = None
    /\ Clear
    /\ UNCHANGED <<held, leaving, ids, lockHistory, crashed>>

Has(t, l, modes) == \E i \in DOMAIN held[t] : held[t][i].lock = l /\ held[t][i].mode \in modes

\* Thread u keeps t from getting what it wants: WriteLock waits for every guard
\* unless t writes already, its own read guard included; ReadLock for writers.
Blocks(u, t) ==
    /\ want[t] # None
    /\ ~Has(t, want[t].lock, {"write"})
    /\ Has(u, want[t].lock, IF want[t].mode = "write" THEN {"read", "write"} ELSE {"write"})

Acquire(t) ==
    /\ crashed = "no"
    /\ want[t] # None
    /\ \A u \in Threads : ~Blocks(u, t)
    /\ held' = [held EXCEPT ![t] = Append(@, want[t])]
    /\ want' = [want EXCEPT ![t] = None]
    /\ UNCHANGED <<leaving, stack, ids, lockHistory, asks, searchVars, crashed>>

\* A thread that has waited for ACQUIRE_TIMEOUT_TICK gives up.
LockTimeout(t) ==
    /\ crashed = "no"
    /\ \E u \in Threads : Blocks(u, t)
    /\ crashed' = "LOCK_TIMEOUT"
    /\ UNCHANGED <<held, want, leaving, stack, ids, lockHistory, asks, searchVars>>

\* The innermost guard of t ends: its name is popped before the lock is free.
PopLock(t) ==
    /\ crashed = "no" /\ asks = None
    /\ want[t] = None /\ t \notin leaving /\ held[t] # <<>>
    /\ LET id == IdIn(ids, Name[Last(held[t]).lock])
           problem == CASE stack[t] = <<>> -> "MULTIPLE_UNLOCK"
                        [] stack[t] # <<>> /\ Last(stack[t]) # id -> "INVALID_UNLOCK"
                        [] OTHER -> "no"
       IN /\ crashed' = problem
          /\ IF problem = "no"
             THEN stack' = [stack EXCEPT ![t] = Front(@)] /\ leaving' = leaving \cup {t}
             ELSE UNCHANGED <<stack, leaving>>
    /\ UNCHANGED <<held, want, ids, lockHistory, asks, searchVars>>

Unlock(t) ==
    /\ crashed = "no"
    /\ t \in leaving
    /\ held' = [held EXCEPT ![t] = Front(@)]
    /\ leaving' = leaving \ {t}
    /\ UNCHANGED <<want, stack, ids, lockHistory, asks, searchVars, crashed>>

Next ==
    \/ CheckCycle \/ Crash \/ PushLock_End
    \/ \E t \in Threads :
          \/ \E l \in Locks, mode \in {"read", "write"} : PushLock(t, l, mode)
          \/ Acquire(t) \/ LockTimeout(t) \/ PopLock(t) \/ Unlock(t)
    \/ crashed # "no" /\ UNCHANGED vars

Spec == Init /\ [][Next]_vars

-----------------------------------------------------------------------------
(***************************************************************************)
(* Properties.                                                             *)
(***************************************************************************)
\* Every thread of T waits for another one of T, or for itself.
Deadlocked(T) ==
    /\ T # {}
    /\ \A t \in T : \E u \in T : Blocks(u, t)

\* No deadlock goes unreported: as long as the profiler is silent, no set of
\* threads waits for itself in a cycle of locks, whichever thread asked first
\* and however long ago the orders were seen.  The exception is a cycle of locks
\* of one name (two sessions, or a read guard made a write guard), which lines
\* 33 and 34 of DeadLockProfiler.cpp leave out of the graph.
ReportsDeadlock ==
    \A T \in SUBSET Threads :
        crashed = "no" /\ Deadlocked(T) =>
            \E U \in SUBSET T :
                /\ Deadlocked(U)
                /\ Cardinality({Name[want[t].lock] : t \in U}) = 1

\* The search is exact: it reports if and only if the recorded orders have a
\* cycle; a cross edge of the search or a node reached twice is no alarm.
SearchExact ==
    /\ crashed = "DEADLOCK_DETECTED" => HasCycle(lockHistory, Ids)
    /\ HasCycle(lockHistory, Ids) => crashed = "DEADLOCK_DETECTED" \/ asks # None

\* Every line of the report is an order that was recorded: the walk from parent to
\* parent reaches the lock it ends at, and never a lock without a parent.
PrintsOrders ==
    \A there \in Ids :
        now \notin {-1, there} /\ IsNext(there) => <<parent[now], now>> \in lockHistory

\* No unlock is mistaken for one too many, or for one in the wrong order, though
\* guards of different locks share a name.
UnlocksMatch == crashed \notin {"MULTIPLE_UNLOCK", "INVALID_UNLOCK"}

\* The profiler stops the program at a cycle of recorded orders and at nothing else,
\* prints orders that were recorded, and takes no unlock for a wrong one.  Recorded
\* orders may have a cycle though the program can never deadlock, as when one lock
\* taken before keeps the threads apart: it is reported all the same.
ProfilerExact == SearchExact /\ PrintsOrders /\ UnlocksMatch
=============================================================================

-------------------------------- MODULE Lock --------------------------------
(***************************************************************************)
(* Lock (ServerCore/Lock.cpp): a reader-writer spin lock in one atomic     *)
(* word, used through WriteLockGuard and ReadLockGuard.  Every atomic      *)
(* operation on _lockFlag is a step of its own.                            *)
(*                                                                         *)
(* _lockFlag is the record of its two halves: the id of the thread that    *)
(* holds it for writing (0: none) and the number of read guards.           *)
(* _writeCount is only touched by the thread in the upper half.            *)
(***************************************************************************)
EXTENDS Naturals, FiniteSets

CONSTANTS
    Threads,      \* the values of LThreadId, given out from 1
    Guards,       \* read guards that may be alive at once
    HalfMax,      \* largest value of half of _lockFlag, 0xFFFF
    MaxDepth,     \* bound on the nesting of write guards
    MaxLocks      \* bound on the calls of WriteLock and ReadLock

\* Both halves of _lockFlag are 16 bits wide, and so is _writeCount.
ASSUME LockAssumption ==
    /\ HalfMax \in Nat
    /\ Threads \subseteq 1 .. HalfMax
    /\ IsFiniteSet(Guards) /\ Cardinality(Guards) <= HalfMax
    /\ MaxDepth \in 1 .. HalfMax
    /\ MaxLocks \in Nat

VARIABLES
    lockFlag,      \* _lockFlag
    writeCount,    \* _writeCount
    writes,        \* how many WriteLockGuards each thread is inside
    reader,        \* the thread inside each ReadLockGuard, or 0
    seen,          \* the local "expected" of ReadLock
    pc,            \* statement each thread is at; "run" outside of Lock
    calls          \* calls of WriteLock and ReadLock

vars == <<lockFlag, writeCount, writes, reader, seen, pc, calls>>

EMPTY == [writer |-> 0, readers |-> 0]

Labels == {"run", "w.cas", "w.count", "wu.check", "wu.count", "wu.store",
           "r.add", "r.load", "r.cas", "crash"}

TypeOK ==
    /\ lockFlag \in [writer : Threads \cup {0}, readers : 0 .. HalfMax]
    /\ writeCount \in 0 .. HalfMax
    /\ writes \in [Threads -> 0 .. MaxDepth]
    /\ reader \in [Guards -> Threads \cup {0}]
    /\ seen \in [Threads -> 0 .. HalfMax]
    /\ pc \in [Threads -> Labels]
    /\ calls \in Nat

Init ==
    /\ lockFlag = EMPTY
    /\ writeCount = 0
    /\ writes = [t \in Threads |-> 0]
    /\ reader = [g \in Guards |-> 0]
    /\ seen = [t \in Threads |-> 0]
    /\ pc = [t \in Threads |-> "run"]
    /\ calls = 0

\* Read guards alive, and those of thread t.
Alive == {g \in Guards : reader[g] # 0}
ReadsOf(t) == {g \in Guards : reader[g] = t}

Go(t, l) == pc' = [pc EXCEPT ![t] = l]

Request ==
    /\ calls < MaxLocks
    /\ calls' = calls + 1

ReadLabels == {"r.add", "r.load", "r.cas"}

\* The bound: a guard is left for each thread that is on the way to read.
GuardLeft ==
    Cardinality(Alive) + Cardinality({t \in Threads : pc[t] \in ReadLabels})
        < Cardinality(Guards)

-----------------------------------------------------------------------------
(***************************************************************************)
(* WriteLock and WriteUnlock.  A thread inside a read guard does not ask   *)
(* for a write guard: it would wait for itself, or, inside a write guard   *)
(* of its own, be refused by WriteUnlock.  No code of either program does. *)
(***************************************************************************)
WriteLock(t) ==
    /\ pc[t] = "run"
    /\ ReadsOf(t) = {}
    /\ writes[t] < MaxDepth
    /\ Request
    /\ Go(t, IF lockFlag.writer = t THEN "w.count" ELSE "w.cas")
    /\ UNCHANGED <<lockFlag, writeCount, writes, reader, seen>>

\* A failed compare_exchange is a step that changes nothing.
WriteCas(t) ==
    /\ pc[t] = "w.cas"
    /\ lockFlag = EMPTY
    /\ lockFlag' = [writer |-> t, readers |-> 0]
    /\ Go(t, "w.count")
    /\ UNCHANGED <<writeCount, writes, reader, seen, calls>>

WriteCount(t) ==
    /\ pc[t] = "w.count"
    /\ writeCount' = writeCount + 1
    /\ writes' = [writes EXCEPT ![t] = @ + 1]
    /\ Go(t, "run")
    /\ UNCHANGED <<lockFlag, reader, seen, calls>>

\* Guards are destroyed in the reverse of the order they were made in.
WriteUnlock(t) ==
    /\ pc[t] = "run"
    /\ writes[t] > 0
    /\ ReadsOf(t) = {}
    /\ Go(t, IF lockFlag.readers = 0 THEN "wu.count" ELSE "crash")
    /\ UNCHANGED <<lockFlag, writeCount, writes, reader, seen, calls>>

\* Faulty variant: the word is cleared by the first unlock.
WriteUncount_Early(t) ==
    /\ pc[t] = "wu.count"
    /\ writeCount' = writeCount - 1
    /\ writes' = [writes EXCEPT ![t] = @ - 1]
    /\ Go(t, "wu.store")
    /\ UNCHANGED <<lockFlag, reader, seen, calls>>

WriteUncount(t) ==
    /\ pc[t] = "wu.count"
    /\ writeCount' = writeCount - 1
    /\ writes' = [writes EXCEPT ![t] = @ - 1]
    /\ Go(t, IF writeCount = 1 THEN "wu.store" ELSE "run")
    /\ UNCHANGED <<lockFlag, reader, seen, calls>>

WriteStore(t) ==
    /\ pc[t] = "wu.store"
    /\ lockFlag' = EMPTY
    /\ Go(t, "run")
    /\ UNCHANGED <<writeCount, writes, reader, seen, calls>>

-----------------------------------------------------------------------------
(***************************************************************************)
(* ReadLock and ReadUnlock.                                                *)
(***************************************************************************)
\* Faulty variant: the owner is not recognised.
ReadLock_NoOwner(t) ==
    /\ pc[t] = "run"
    /\ GuardLeft
    /\ Request
    /\ Go(t, "r.load")
    /\ UNCHANGED <<lockFlag, writeCount, writes, reader, seen>>

ReadLock(t) ==
    /\ pc[t] = "run"
    /\ GuardLeft
    /\ Request
    /\ Go(t, IF lockFlag.writer = t THEN "r.add" ELSE "r.load")
    /\ UNCHANGED <<lockFlag, writeCount, writes, reader, seen>>

ReadAdd(t) ==
    /\ pc[t] = "r.add"
    /\ \E g \in Guards \ Alive : reader' = [reader EXCEPT ![g] = t]
    /\ lockFlag' = [lockFlag EXCEPT !.readers = @ + 1]
    /\ Go(t, "run")
    /\ UNCHANGED <<writeCount, writes, seen, calls>>

ReadLoad(t) ==
    /\ pc[t] = "r.load"
    /\ seen' = [seen EXCEPT ![t] = lockFlag.readers]
    /\ Go(t, "r.cas")
    /\ UNCHANGED <<lockFlag, writeCount, writes, reader, calls>>

\* Faulty variant: the upper half is left out of the comparison.
ReadCas_IgnoresWriter(t) ==
    /\ pc[t] = "r.cas"
    /\ IF lockFlag.readers = seen[t]
       THEN /\ \E g \in Guards \ Alive : reader' = [reader EXCEPT ![g] = t]
            /\ lockFlag' = [lockFlag EXCEPT !.readers = @ + 1]
            /\ Go(t, "run")
       ELSE Go(t, "r.load") /\ UNCHANGED <<lockFlag, reader>>
    /\ UNCHANGED <<writeCount, writes, seen, calls>>

ReadCas(t) ==
    /\ pc[t] = "r.cas"
    /\ IF lockFlag = [writer |-> 0, readers |-> seen[t]]
       THEN /\ \E g \in Guards \ Alive : reader' = [reader EXCEPT ![g] = t]
            /\ lockFlag' = [lockFlag EXCEPT !.readers = @ + 1]
            /\ Go(t, "run")
       ELSE Go(t, "r.load") /\ UNCHANGED <<lockFlag, reader>>
    /\ UNCHANGED <<writeCount, writes, seen, calls>>

ReadUnlock(t, g) ==
    /\ pc[t] = "run"
    /\ reader[g] = t
    /\ reader' = [reader EXCEPT ![g] = 0]
    /\ IF lockFlag.readers = 0
       THEN Go(t, "crash") /\ UNCHANGED lockFlag
       ELSE lockFlag' = [lockFlag EXCEPT !.readers = @ - 1] /\ UNCHANGED pc
    /\ UNCHANGED <<writeCount, writes, seen, calls>>

-----------------------------------------------------------------------------
\* What a thread does by itself once it has asked for the lock.
Continue(t) ==
    \/ WriteCas(t) \/ WriteCount(t)
    \/ WriteUnlock(t) \/ WriteUncount(t) \/ WriteStore(t)
    \/ ReadAdd(t) \/ ReadLoad(t) \/ ReadCas(t)
    \/ \E g \in Guards : ReadUnlock(t, g)

\* Every thread is done with the lock and the bound on calls is reached.
Done ==
    /\ calls = MaxLocks
    /\ \A t \in Threads : pc[t] = "run" /\ writes[t] = 0 /\ ReadsOf(t) = {}

Next ==
    \/ \E t \in Threads : WriteLock(t) \/ ReadLock(t) \/ Continue(t)
    \/ Done /\ UNCHANGED vars

Spec == Init /\ [][Next]_vars

\* Every thread keeps running and leaves every guard it has entered.
FairSpec == Spec /\ \A t \in Threads : WF_vars(Continue(t))

-----------------------------------------------------------------------------
(***************************************************************************)
(* Properties.                                                             *)
(***************************************************************************)
\* The code inside a write guard runs while no other thread is inside any.
Exclusive ==
    \A t \in Threads : writes[t] > 0 =>
        /\ \A u \in Threads \ {t} : writes[u] = 0
        /\ \A g \in Alive : reader[g] = t

\* The guards of the program never meet CRASH("INVALID_UNLOCK_ORDER") or
\* CRASH("MULTIPLE_UNLOCK").
NoCrash == \A t \in Threads : pc[t] # "crash"

\* When no thread is inside a guard or on the way into or out of one, the word
\* is as it was in the beginning: nothing keeps the lock from being taken.
FreeWhenUnheld ==
    (/\ \A t \in Threads : pc[t] \in {"run", "w.cas", "r.load", "r.cas"}
     /\ \A t \in Threads : writes[t] = 0
     /\ Alive = {})
        => lockFlag = EMPTY /\ writeCount = 0

\* A thread that spins for the lock gets it once the calls of the others end:
\* no wait outlasts the contention, so the lock cannot deadlock by itself.
EveryWaitEnds ==
    \A t \in Threads :
        pc[t] \in {"w.cas", "r.load", "r.cas"} ~> pc[t] = "run"

\* The lock is a re-entrant reader-writer lock.
Abstract == INSTANCE RWLock WITH None <- 0
ImplementsRWLock == Abstract!Spec
=============================================================================

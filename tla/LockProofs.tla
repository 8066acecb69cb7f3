----------------------------- MODULE LockProofs -----------------------------
(***************************************************************************)
(* Proofs about Lock, for any number of threads, guards and calls.         *)
(***************************************************************************)
EXTENDS Lock, FiniteSetTheorems, TLAPS

\* The lower half of the word counts the read guards.
Counted == lockFlag.readers = Cardinality(Alive)

\* Statements that only the thread in the upper half of the word reaches.
OwnerLabels == {"w.count", "wu.count", "wu.store", "r.add"}

\* A thread that is not in the upper half is inside no write guard.
OthersOut ==
    \A t \in Threads : lockFlag.writer # t =>
        writes[t] = 0 /\ pc[t] \notin OwnerLabels

\* The thread in the upper half is the only one inside any guard, _writeCount
\* counts its write guards, and it is there for one of them.
OwnerIn ==
    \A t \in Threads : lockFlag.writer = t =>
        /\ \A g \in Guards : reader[g] \in {0, t}
        /\ writeCount = writes[t]
        /\ writes[t] > 0 \/ pc[t] \in {"w.count", "wu.store"}

NoOwner == lockFlag.writer = 0 => writeCount = 0

\* What a thread has found on its way to the statement it is at.
Progress ==
    \A t \in Threads :
        /\ pc[t] \in {"w.cas", "w.count"} => writes[t] < MaxDepth
        /\ pc[t] \in {"wu.count", "wu.store"} => \A g \in Guards : reader[g] # t
        /\ pc[t] \in {"wu.count", "r.add"} => writes[t] > 0
        /\ pc[t] = "wu.store" => writes[t] = 0

IInv ==
    /\ TypeOK
    /\ NoCrash
    /\ Counted
    /\ OthersOut
    /\ OwnerIn
    /\ NoOwner
    /\ Progress

LEMMA AliveFinite ==
    /\ IsFiniteSet(Alive)
    /\ Cardinality(Alive) \in Nat
    /\ Cardinality(Alive) <= Cardinality(Guards)
    /\ Cardinality(Alive) = 0 <=> Alive = {}
<1>1. Alive \subseteq Guards /\ IsFiniteSet(Guards)
  BY LockAssumption DEF Alive
<1>. QED  BY <1>1, FS_Subset, FS_CardinalityType, FS_EmptySet

\* Entering a read guard adds one to the guards alive.
LEMMA AliveEnter ==
    ASSUME TypeOK, NEW t \in Threads, NEW g \in Guards \ Alive,
           reader' = [reader EXCEPT ![g] = t]
    PROVE  Cardinality(Alive') = Cardinality(Alive) + 1 /\ Cardinality(Alive') <= HalfMax
<1>1. Alive' = Alive \cup {g}
  BY LockAssumption DEF Alive, TypeOK
<1>2. Cardinality(Alive') = Cardinality(Alive) + 1
  BY <1>1, AliveFinite, FS_AddElement
<1>3. Alive' \subseteq Guards /\ IsFiniteSet(Guards)
  BY LockAssumption DEF Alive
<1>4. Cardinality(Alive') <= Cardinality(Guards) /\ Cardinality(Guards) \in Nat
  BY <1>3, FS_Subset, FS_CardinalityType
<1>. QED  BY <1>2, <1>4, LockAssumption, AliveFinite

\* Leaving it takes one away.
LEMMA AliveLeave ==
    ASSUME TypeOK, NEW t \in Threads, NEW g \in Guards, reader[g] = t,
           reader' = [reader EXCEPT ![g] = 0]
    PROVE  Cardinality(Alive') = Cardinality(Alive) - 1 /\ Cardinality(Alive) > 0
<1>1. Alive' = Alive \ {g} /\ g \in Alive
  BY LockAssumption DEF Alive, TypeOK
<1>2. Cardinality(Alive') = Cardinality(Alive) - 1 /\ Alive # {}
  BY <1>1, AliveFinite, FS_RemoveElement
<1>. QED  BY <1>2, AliveFinite, FS_EmptySet

\* While a thread is inside write guards and no read guard, nobody reads.
LEMMA NobodyReads ==
    ASSUME IInv, NEW t \in Threads, lockFlag.writer = t,
           \A g \in Guards : reader[g] # t
    PROVE  Alive = {} /\ lockFlag.readers = 0
<1>1. Alive = {}
  BY DEF IInv, OwnerIn, Alive
<1>. QED  BY <1>1, AliveFinite DEF IInv, Counted

-----------------------------------------------------------------------------
LEMMA InitIInv == Init => IInv
<1>. SUFFICES ASSUME Init PROVE IInv
  OBVIOUS
<1>1. TypeOK
  BY LockAssumption DEF Init, TypeOK, EMPTY, Labels
<1>2. Counted
  BY AliveFinite DEF Init, Counted, EMPTY, Alive
<1>3. NoCrash /\ OthersOut /\ NoOwner /\ Progress
  BY DEF Init, NoCrash, OthersOut, NoOwner, Progress, EMPTY, OwnerLabels
<1>4. OwnerIn
  BY LockAssumption DEF Init, OwnerIn, EMPTY
<1>. QED  BY <1>1, <1>2, <1>3, <1>4 DEF IInv

\* The step of a thread that changes neither the word nor the read guards.
LEMMA CountedKept ==
    ASSUME Counted, UNCHANGED <<lockFlag, reader>> PROVE Counted'
BY DEF Counted, Alive

LEMMA WriteLockIInv ==
    ASSUME IInv, NEW t \in Threads, WriteLock(t) PROVE IInv'
<1>. USE DEF WriteLock, Request, Go
<1>1. TypeOK'
  BY DEF IInv, TypeOK, Labels
<1>2. Counted'
  BY CountedKept DEF IInv
<1>3. NoCrash' /\ OthersOut' /\ OwnerIn' /\ NoOwner' /\ Progress'
  BY DEF IInv, TypeOK, NoCrash, OthersOut, OwnerIn, NoOwner, Progress, OwnerLabels
<1>. QED  BY <1>1, <1>2, <1>3 DEF IInv

LEMMA WriteCasIInv ==
    ASSUME IInv, NEW t \in Threads, WriteCas(t) PROVE IInv'
<1>. USE DEF WriteCas, Go, EMPTY
<1>1. TypeOK'
  BY DEF IInv, TypeOK, Labels
<1>2. Counted' /\ Alive = {}
  BY AliveFinite DEF IInv, Counted, Alive
<1>3. NoCrash' /\ OthersOut' /\ NoOwner' /\ Progress'
  BY LockAssumption
     DEF IInv, TypeOK, NoCrash, OthersOut, NoOwner, Progress, OwnerLabels
<1>4. writes[t] = 0 /\ writeCount = 0
  BY LockAssumption DEF IInv, TypeOK, OthersOut, NoOwner
<1>5. OwnerIn'
  BY <1>2, <1>4 DEF IInv, TypeOK, OwnerIn, Alive
<1>. QED  BY <1>1, <1>2, <1>3, <1>5 DEF IInv

LEMMA WriteCountIInv ==
    ASSUME IInv, NEW t \in Threads, WriteCount(t) PROVE IInv'
<1>. USE DEF WriteCount, Go
<1>1. lockFlag.writer = t /\ writeCount = writes[t] /\ writes[t] < MaxDepth
  BY DEF IInv, OthersOut, OwnerIn, Progress, OwnerLabels
<1>2. TypeOK'
  BY <1>1, LockAssumption DEF IInv, TypeOK, Labels
<1>3. Counted'
  BY CountedKept DEF IInv
<1>4. NoCrash' /\ OthersOut' /\ OwnerIn' /\ NoOwner' /\ Progress'
  BY <1>1, LockAssumption
     DEF IInv, TypeOK, NoCrash, OthersOut, OwnerIn, NoOwner, Progress, OwnerLabels
<1>. QED  BY <1>2, <1>3, <1>4 DEF IInv

LEMMA WriteUnlockIInv ==
    ASSUME IInv, NEW t \in Threads, WriteUnlock(t) PROVE IInv'
<1>. USE DEF WriteUnlock, Go, ReadsOf
<1>1. lockFlag.writer = t
  BY DEF IInv, TypeOK, OthersOut
<1>2. lockFlag.readers = 0
  BY <1>1, NobodyReads
<1>3. TypeOK'
  BY DEF IInv, TypeOK, Labels
<1>4. Counted'
  BY CountedKept DEF IInv
<1>5. NoCrash' /\ OthersOut' /\ OwnerIn' /\ NoOwner' /\ Progress'
  BY <1>1, <1>2
     DEF IInv, TypeOK, NoCrash, OthersOut, OwnerIn, NoOwner, Progress, OwnerLabels
<1>. QED  BY <1>3, <1>4, <1>5 DEF IInv

LEMMA WriteUncountIInv ==
    ASSUME IInv, NEW t \in Threads, WriteUncount(t) PROVE IInv'
<1>. USE DEF WriteUncount, Go
<1>1. lockFlag.writer = t /\ writeCount = writes[t] /\ writes[t] > 0
  BY DEF IInv, OthersOut, OwnerIn, Progress, OwnerLabels
<1>2. TypeOK'
  BY <1>1, LockAssumption DEF IInv, TypeOK, Labels
<1>3. Counted'
  BY CountedKept DEF IInv
<1>4. NoCrash' /\ OthersOut' /\ OwnerIn' /\ NoOwner' /\ Progress'
  BY <1>1, LockAssumption
     DEF IInv, TypeOK, NoCrash, OthersOut, OwnerIn, NoOwner, Progress, OwnerLabels
<1>. QED  BY <1>2, <1>3, <1>4 DEF IInv

LEMMA WriteStoreIInv ==
    ASSUME IInv, NEW t \in Threads, WriteStore(t) PROVE IInv'
<1>. USE DEF WriteStore, Go, EMPTY
<1>1. lockFlag.writer = t /\ writeCount = 0 /\ writes[t] = 0
  BY DEF IInv, OthersOut, OwnerIn, Progress, OwnerLabels
<1>2. Alive = {} /\ lockFlag.readers = 0
  BY <1>1, NobodyReads DEF IInv, Progress
<1>3. TypeOK'
  BY LockAssumption DEF IInv, TypeOK, Labels
<1>4. Counted'
  <2>1. Alive' = Alive
    BY DEF Alive
  <2>2. Cardinality(Alive) = 0
    BY <1>2, AliveFinite
  <2>3. lockFlag'.readers = 0
    OBVIOUS
  <2>. QED  BY <2>1, <2>2, <2>3 DEF Counted
<1>5. NoCrash' /\ OthersOut' /\ OwnerIn' /\ NoOwner' /\ Progress'
  BY <1>1, LockAssumption
     DEF IInv, TypeOK, NoCrash, OthersOut, OwnerIn, NoOwner, Progress, OwnerLabels
<1>. QED  BY <1>3, <1>4, <1>5 DEF IInv

LEMMA ReadLockIInv ==
    ASSUME IInv, NEW t \in Threads, ReadLock(t) PROVE IInv'
<1>. USE DEF ReadLock, Request, Go
<1>1. TypeOK'
  BY DEF IInv, TypeOK, Labels
<1>2. Counted'
  BY CountedKept DEF IInv
<1>3. NoCrash' /\ OthersOut' /\ OwnerIn' /\ NoOwner' /\ Progress'
  BY DEF IInv, TypeOK, NoCrash, OthersOut, OwnerIn, NoOwner, Progress, OwnerLabels
<1>. QED  BY <1>1, <1>2, <1>3 DEF IInv

LEMMA ReadAddIInv ==
    ASSUME IInv, NEW t \in Threads, ReadAdd(t) PROVE IInv'
<1>. USE DEF ReadAdd, Go
<1>1. PICK g \in Guards \ Alive : reader' = [reader EXCEPT ![g] = t]
  OBVIOUS
<1>2. lockFlag.writer = t /\ writes[t] > 0
  BY DEF IInv, OthersOut, Progress, OwnerLabels
<1>3. Cardinality(Alive') = Cardinality(Alive) + 1 /\ Cardinality(Alive') <= HalfMax
  BY <1>1, AliveEnter DEF IInv
<1>4. TypeOK' /\ Counted'
  BY <1>1, <1>3, AliveFinite DEF IInv, TypeOK, Counted, Labels
<1>5. NoCrash' /\ OthersOut' /\ OwnerIn' /\ NoOwner' /\ Progress'
  BY <1>1, <1>2, LockAssumption
     DEF IInv, TypeOK, NoCrash, OthersOut, OwnerIn, NoOwner, Progress, OwnerLabels
<1>. QED  BY <1>4, <1>5 DEF IInv

LEMMA ReadLoadIInv ==
    ASSUME IInv, NEW t \in Threads, ReadLoad(t) PROVE IInv'
<1>. USE DEF ReadLoad, Go
<1>1. TypeOK'
  BY DEF IInv, TypeOK, Labels
<1>2. Counted'
  BY CountedKept DEF IInv
<1>3. NoCrash' /\ OthersOut' /\ OwnerIn' /\ NoOwner' /\ Progress'
  BY DEF IInv, TypeOK, NoCrash, OthersOut, OwnerIn, NoOwner, Progress, OwnerLabels
<1>. QED  BY <1>1, <1>2, <1>3 DEF IInv

LEMMA ReadCasIInv ==
    ASSUME IInv, NEW t \in Threads, ReadCas(t) PROVE IInv'
<1>. USE DEF ReadCas, Go
<1>1. CASE lockFlag = [writer |-> 0, readers |-> seen[t]]
  <2>1. PICK g \in Guards \ Alive : reader' = [reader EXCEPT ![g] = t]
    BY <1>1
  <2>2. Cardinality(Alive') = Cardinality(Alive) + 1 /\ Cardinality(Alive') <= HalfMax
    BY <2>1, AliveEnter DEF IInv
  <2>3. TypeOK' /\ Counted'
    BY <1>1, <2>1, <2>2, AliveFinite DEF IInv, TypeOK, Counted, Labels
  <2>4. \A u \in Threads : writes[u] = 0 /\ pc[u] \notin OwnerLabels
    BY <1>1, LockAssumption DEF IInv, OthersOut
  <2>5. NoCrash' /\ OthersOut' /\ OwnerIn' /\ NoOwner' /\ Progress'
    BY <1>1, <2>1, <2>4, LockAssumption
       DEF IInv, TypeOK, NoCrash, OthersOut, OwnerIn, NoOwner, Progress, OwnerLabels
  <2>. QED  BY <2>3, <2>5 DEF IInv
<1>2. CASE lockFlag # [writer |-> 0, readers |-> seen[t]]
  <2>1. TypeOK'
    BY <1>2 DEF IInv, TypeOK, Labels
  <2>2. Counted'
    BY <1>2, CountedKept DEF IInv
  <2>3. NoCrash' /\ OthersOut' /\ OwnerIn' /\ NoOwner' /\ Progress'
    BY <1>2
       DEF IInv, TypeOK, NoCrash, OthersOut, OwnerIn, NoOwner, Progress, OwnerLabels
  <2>. QED  BY <2>1, <2>2, <2>3 DEF IInv
<1>. QED  BY <1>1, <1>2

LEMMA ReadUnlockIInv ==
    ASSUME IInv, NEW t \in Threads, NEW g \in Guards, ReadUnlock(t, g) PROVE IInv'
<1>. USE DEF ReadUnlock, Go
<1>1. Cardinality(Alive') = Cardinality(Alive) - 1 /\ Cardinality(Alive) > 0
  BY AliveLeave DEF IInv
<1>2. lockFlag' = [lockFlag EXCEPT !.readers = @ - 1] /\ pc' = pc
  BY <1>1 DEF IInv, Counted
<1>3. TypeOK' /\ Counted'
  <2>1. lockFlag.readers > 0 /\ lockFlag'.readers = lockFlag.readers - 1
    BY <1>1, <1>2 DEF IInv, TypeOK, Counted
  <2>2. lockFlag' \in [writer : Threads \cup {0}, readers : 0 .. HalfMax]
    BY <1>2, <2>1, LockAssumption DEF IInv, TypeOK
  <2>3. TypeOK'
    BY <1>2, <2>2 DEF IInv, TypeOK, Labels
  <2>4. Counted'
    BY <1>1, <2>1 DEF IInv, Counted
  <2>. QED  BY <2>3, <2>4
<1>4. NoCrash' /\ OthersOut' /\ OwnerIn' /\ NoOwner' /\ Progress'
  BY <1>2, LockAssumption
     DEF IInv, TypeOK, NoCrash, OthersOut, OwnerIn, NoOwner, Progress, OwnerLabels
<1>. QED  BY <1>3, <1>4 DEF IInv

LEMMA StutterIInv == ASSUME IInv, UNCHANGED vars PROVE IInv'
<1>1. Counted'
  BY CountedKept DEF IInv, vars
<1>. QED
  BY <1>1 DEF vars, IInv, TypeOK, NoCrash, OthersOut, OwnerIn, NoOwner, Progress

LEMMA NextIInv == IInv /\ [Next]_vars => IInv'
<1>. SUFFICES ASSUME IInv, [Next]_vars PROVE IInv'
  OBVIOUS
<1>1. CASE \E t \in Threads : WriteLock(t) \/ ReadLock(t) \/ Continue(t)
  BY <1>1, WriteLockIInv, WriteCasIInv, WriteCountIInv, WriteUnlockIInv,
     WriteUncountIInv, WriteStoreIInv, ReadLockIInv, ReadAddIInv, ReadLoadIInv,
     ReadCasIInv, ReadUnlockIInv DEF Continue
<1>2. CASE UNCHANGED vars
  BY <1>2, StutterIInv
<1>. QED  BY <1>1, <1>2 DEF Next

\* The invariant of the lock, from which everything below follows.
THEOREM Invariance == Spec => []IInv
BY InitIInv, NextIInv, PTL DEF Spec

\* The halves of _lockFlag and _writeCount never leave their 16 bits.
THEOREM TypeCorrect == Spec => []TypeOK
<1>1. IInv => TypeOK
  BY DEF IInv
<1>. QED  BY <1>1, Invariance, PTL

\* Mutual exclusion between a writer and everybody else.
THEOREM WritersExclude == Spec => []Exclusive
<1>1. IInv => Exclusive
  BY DEF IInv, TypeOK, OthersOut, OwnerIn, Exclusive, Alive
<1>. QED  BY <1>1, Invariance, PTL

\* No guard is ever undone in a way the lock refuses.
THEOREM NeverCrashes == Spec => []NoCrash
<1>1. IInv => NoCrash
  BY DEF IInv
<1>. QED  BY <1>1, Invariance, PTL

\* A lock that nobody holds can be taken.
THEOREM Reusable == Spec => []FreeWhenUnheld
<1>1. IInv => FreeWhenUnheld
  <2>. SUFFICES ASSUME IInv, Alive = {},
                       \A t \in Threads : pc[t] \in {"run", "w.cas", "r.load", "r.cas"},
                       \A t \in Threads : writes[t] = 0
                PROVE  lockFlag = EMPTY /\ writeCount = 0
    BY DEF FreeWhenUnheld
  <2>1. lockFlag.writer = 0
    BY DEF IInv, TypeOK, OwnerIn
  <2>2. lockFlag.readers = 0
    BY AliveFinite DEF IInv, Counted
  <2>. QED  BY <2>1, <2>2 DEF IInv, TypeOK, NoOwner, EMPTY
<1>. QED  BY <1>1, Invariance, PTL

-----------------------------------------------------------------------------
\* A thread in the upper half keeps the others out of every guard.
LEMMA OwnerAlone ==
    ASSUME IInv, NEW t \in Threads, lockFlag.writer = t
    PROVE  ~Abstract!WritesElsewhere(t) /\ ~Abstract!ReadsElsewhere(t)
BY DEF IInv, OthersOut, OwnerIn, Abstract!WritesElsewhere, Abstract!ReadsElsewhere

LEMMA StepImplements == IInv /\ [Next]_vars => [Abstract!Next]_(Abstract!vars)
<1>. SUFFICES ASSUME IInv, [Next]_vars PROVE [Abstract!Next]_(Abstract!vars)
  OBVIOUS
<1>. USE DEF Abstract!Next, Abstract!vars
<1>1. ASSUME NEW t \in Threads, WriteCount(t) PROVE Abstract!AcquireWrite(t)
  <2>1. lockFlag.writer = t
    BY <1>1 DEF IInv, OthersOut, OwnerLabels, WriteCount
  <2>. QED  BY <1>1, <2>1, OwnerAlone DEF WriteCount, Abstract!AcquireWrite
<1>2. ASSUME NEW t \in Threads, WriteUncount(t) PROVE Abstract!ReleaseWrite(t)
  BY <1>2 DEF IInv, Progress, WriteUncount, Abstract!ReleaseWrite
<1>3. ASSUME NEW t \in Threads, ReadAdd(t)
      PROVE  \E g \in Guards : Abstract!AcquireRead(t, g)
  <2>1. lockFlag.writer = t
    BY <1>3 DEF IInv, OthersOut, OwnerLabels, ReadAdd
  <2>. QED  BY <1>3, <2>1, OwnerAlone DEF ReadAdd, Alive, Abstract!AcquireRead
<1>4. ASSUME NEW t \in Threads, ReadCas(t)
      PROVE  (\E g \in Guards : Abstract!AcquireRead(t, g)) \/ UNCHANGED Abstract!vars
  <2>1. CASE lockFlag = [writer |-> 0, readers |-> seen[t]]
    <3>1. \A u \in Threads : writes[u] = 0
      BY <2>1, LockAssumption DEF IInv, OthersOut
    <3>. QED
      BY <1>4, <2>1, <3>1 DEF ReadCas, Alive, Abstract!AcquireRead, Abstract!WritesElsewhere
  <2>2. CASE lockFlag # [writer |-> 0, readers |-> seen[t]]
    BY <1>4, <2>2 DEF ReadCas
  <2>. QED  BY <2>1, <2>2
<1>5. ASSUME NEW t \in Threads, NEW g \in Guards, ReadUnlock(t, g)
      PROVE  Abstract!ReleaseRead(t, g)
  BY <1>5 DEF ReadUnlock, Abstract!ReleaseRead
<1>6. ASSUME NEW t \in Threads,
             \/ WriteLock(t) \/ WriteCas(t) \/ WriteUnlock(t) \/ WriteStore(t)
             \/ ReadLock(t) \/ ReadLoad(t)
      PROVE  UNCHANGED Abstract!vars
  BY <1>6 DEF WriteLock, WriteCas, WriteUnlock, WriteStore, ReadLock, ReadLoad
<1>7. CASE UNCHANGED vars
  BY <1>7 DEF vars
<1>. QED
  BY <1>1, <1>2, <1>3, <1>4, <1>5, <1>6, <1>7 DEF Next, Continue

\* Lock.cpp implements the re-entrant reader-writer lock of RWLock.
THEOREM Refinement == Spec => ImplementsRWLock
<1>1. Init => Abstract!Init
  BY DEF Init, Abstract!Init
<1>. QED  BY <1>1, Invariance, StepImplements, PTL DEF Spec, ImplementsRWLock, Abstract!Spec
=============================================================================

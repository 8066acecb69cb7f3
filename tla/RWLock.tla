------------------------------- MODULE RWLock -------------------------------
(***************************************************************************)
(* What the guards of Lock.h promise: a re-entrant reader-writer lock.     *)
(* A thread holds it for writing any number of times while no other thread *)
(* holds it at all, and for reading while no other thread holds it for     *)
(* writing.                                                                *)
(***************************************************************************)
EXTENDS Naturals

CONSTANTS Threads, Guards, None

VARIABLES
    writes,      \* how many write guards each thread has
    reader       \* the thread each read guard belongs to, or None

vars == <<writes, reader>>

Init ==
    /\ writes = [t \in Threads |-> 0]
    /\ reader = [g \in Guards |-> None]

WritesElsewhere(t) == \E u \in Threads \ {t} : writes[u] > 0
ReadsElsewhere(t) == \E g \in Guards : reader[g] \notin {t, None}

AcquireWrite(t) ==
    /\ ~WritesElsewhere(t)
    /\ ~ReadsElsewhere(t)
    /\ writes' = [writes EXCEPT ![t] = @ + 1]
    /\ UNCHANGED reader

ReleaseWrite(t) ==
    /\ writes[t] > 0
    /\ writes' = [writes EXCEPT ![t] = @ - 1]
    /\ UNCHANGED reader

AcquireRead(t, g) ==
    /\ reader[g] = None
    /\ ~WritesElsewhere(t)
    /\ reader' = [reader EXCEPT ![g] = t]
    /\ UNCHANGED writes

ReleaseRead(t, g) ==
    /\ reader[g] = t
    /\ reader' = [reader EXCEPT ![g] = None]
    /\ UNCHANGED writes

Next ==
    \E t \in Threads :
        \/ AcquireWrite(t) \/ ReleaseWrite(t)
        \/ \E g \in Guards : AcquireRead(t, g) \/ ReleaseRead(t, g)

Spec == Init /\ [][Next]_vars
=============================================================================

----------------------------- MODULE LockSearch -----------------------------
(***************************************************************************)
(* The search of the profiler for a cycle of lock orders: CheckCycle and   *)
(* the recursive Dfs, whose calls are a stack of frames.  One step is one  *)
(* pass of a loop.                                                         *)
(***************************************************************************)
EXTENDS Integers, Sequences, SequencesExt

VARIABLES
    lockHistory, \* _lockHistory: which lock was asked for under which
    discovered,  \* _discoveredOrder, -1 where not yet
    count,       \* _discoveredCount
    finished,    \* the locks i with _finished[i]
    parent,      \* _parent, -1 where there is none
    calls,       \* calls of Dfs, the innermost last: its lock, the locks to look at
    lockId,      \* loop variable of CheckCycle
    now          \* loop variable that prints a cycle, -1 before

searchVars == <<discovered, count, finished, parent, calls, lockId, now>>

Frames(nodes) == [here : nodes, next : SUBSET nodes]

\* CheckCycle begins.
Begin(lockCount) ==
    /\ discovered' = [i \in 0..lockCount - 1 |-> -1]
    /\ count' = 0
    /\ finished' = {}
    /\ parent' = [i \in 0..lockCount - 1 |-> -1]
    /\ calls' = <<>>
    /\ lockId' = 0
    /\ now' = -1

\* Faulty variant: the search may end with the locks that the first one leads to.
Over_FromFirst == calls = <<>> /\ lockId > 0

\* CheckCycle has found nothing (the count and the loop variable go, too).
Over == calls = <<>> /\ DOMAIN discovered = 0..lockId - 1

Clear == Begin(0)

Successors(here) == {there \in DOMAIN discovered : <<here, there>> \in lockHistory}

\* Dfs(here) is called, and here was not discovered.
Discover(frames, here) ==
    /\ discovered' = [discovered EXCEPT ![here] = count]
    /\ count' = count + 1
    /\ calls' = Append(frames, [here |-> here, next |-> Successors(here)])

\* One pass of the loop of CheckCycle.
NextLock ==
    /\ now = -1 /\ calls = <<>>
    /\ lockId \in DOMAIN discovered
    /\ lockId' = lockId + 1
    /\ \/ discovered[lockId] = -1 /\ Discover(<<>>, lockId)
       \/ discovered[lockId] # -1 /\ UNCHANGED <<discovered, count, calls>>
    /\ UNCHANGED <<lockHistory, finished, parent, now>>

Here == Last(calls).here

\* The set is walked in ascending order.
IsNext(there) ==
    /\ calls # <<>>
    /\ there \in Last(calls).next
    /\ \A x \in Last(calls).next : there <= x

Rest(there) == [calls EXCEPT ![Len(calls)].next = @ \ {there}]

\* Faulty variant: a cross edge is taken for a back edge.
BackEdge_Cross(there) ==
    /\ discovered[there] # -1
    /\ discovered[Here] >= discovered[there]

\* "there" was discovered first and is not finished: an ancestor of here.
BackEdge(there) ==
    /\ discovered[there] # -1
    /\ discovered[Here] >= discovered[there]
    /\ there \notin finished

\* One pass of the loop of Dfs: to a lock not yet discovered,
Visit(there) ==
    /\ now = -1 /\ IsNext(there)
    /\ discovered[there] = -1
    /\ parent' = [parent EXCEPT ![there] = Here]
    /\ Discover(Rest(there), there)
    /\ UNCHANGED <<lockHistory, finished, lockId, now>>

\* past a lock that is no ancestor,
Skip(there) ==
    /\ now = -1 /\ IsNext(there)
    /\ discovered[there] # -1 /\ ~BackEdge(there)
    /\ calls' = Rest(there)
    /\ UNCHANGED <<lockHistory, discovered, count, finished, parent, lockId, now>>

\* or to an ancestor: a cycle, which is printed from here back to there.
FindCycle(there) ==
    /\ now = -1 /\ IsNext(there)
    /\ BackEdge(there)
    /\ now' = Here
    /\ UNCHANGED <<lockHistory, discovered, count, finished, parent, calls, lockId>>

PrintOrder(there) ==
    /\ now \notin {-1, there} /\ IsNext(there)
    /\ now' = parent[now]
    /\ UNCHANGED <<lockHistory, discovered, count, finished, parent, calls, lockId>>

Printed == now # -1 /\ IsNext(now)

\* Dfs returns.
Return ==
    /\ now = -1 /\ calls # <<>> /\ Last(calls).next = {}
    /\ finished' = finished \cup {Here}
    /\ calls' = Front(calls)
    /\ UNCHANGED <<lockHistory, discovered, count, parent, lockId, now>>

Search ==
    \/ NextLock \/ Return
    \/ \E there \in DOMAIN discovered :
          Visit(there) \/ Skip(there) \/ FindCycle(there) \/ PrintOrder(there)

-----------------------------------------------------------------------------
(***************************************************************************)
(* What it is to search for.                                               *)
(***************************************************************************)
\* Every order leads from a higher lock to a lower one.
Descends(height, edges) == \A e \in edges : height[e[1]] > height[e[2]]

\* A graph without a cycle is one whose nodes can be given such heights.
HasCycle(edges, nodes) == ~\E height \in [nodes -> nodes] : Descends(height, edges)
=============================================================================

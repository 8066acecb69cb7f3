----------------------- MODULE DeadLockProfilerProofs -----------------------
(***************************************************************************)
(* Proofs about DeadLockProfiler and its LockSearch, for any threads,      *)
(* locks, names and depth of guards: the search finds a cycle if and only  *)
(* if there is one, and no deadlock of locks of two names is left out.     *)
(***************************************************************************)
EXTENDS DeadLockProfiler, SequenceTheorems, FiniteSetTheorems, WellFoundedInduction,
        TLAPS

Names == {Name[l] : l \in Locks}

\* Names have one id each.
IdsInv ==
    /\ \A i, j \in DOMAIN ids : ids[i] = ids[j] => i = j
    /\ asks # None => \E i \in DOMAIN ids : ids[i] = Name[asks.guard.lock]

\* The stack of a thread names its guards, but the one it leaves, and the lock it
\* is about to get.
NamesOf(t) ==
    /\ Len(stack[t]) = IF want[t] # None THEN Len(held[t]) + 1
                       ELSE IF t \in leaving THEN Len(held[t]) - 1
                       ELSE Len(held[t])
    /\ t \in leaving => want[t] = None /\ held[t] # <<>>
    /\ \A i \in DOMAIN stack[t] :
           i \in DOMAIN held[t] => ids[stack[t][i] + 1] = Name[held[t][i].lock]
    /\ want[t] # None => ids[Last(stack[t]) + 1] = Name[want[t].lock]

NamesInv == \A t \in Threads : NamesOf(t)

\* The order that is being looked into, and those that have been.
NewOrder == <<Last(stack[asks.thread]), IdIn(ids, Name[asks.guard.lock])>>
Searched == IF asks = None THEN lockHistory ELSE lockHistory \ {NewOrder}

AsksInv ==
    asks # None =>
        /\ want[asks.thread] = None /\ asks.thread \notin leaving
        /\ stack[asks.thread] # <<>>
        /\ NewOrder \in lockHistory

\* With any heights of the locks that the searched orders descend, a stack descends.
StacksDescend(height) ==
    \A t \in Threads : \A i, j \in DOMAIN stack[t] :
        i < j => \/ stack[t][i] = stack[t][j]
                 \/ height[stack[t][i]] > height[stack[t][j]]

OrderInv ==
    /\ \A height \in [Nat -> Nat] : Descends(height, Searched) => StacksDescend(height)
    /\ crashed # "DEADLOCK_DETECTED" => ~HasCycle(Searched, Ids)

-----------------------------------------------------------------------------
(***************************************************************************)
(* The search.                                                             *)
(***************************************************************************)
\* The calls of Dfs are the discovered locks that are not finished, each called from
\* the one before; a lock it has looked at is finished, or is the next call.
CallsInv ==
    /\ \A k \in DOMAIN calls :
           /\ discovered[calls[k].here] # -1
           /\ calls[k].here \notin finished
           /\ calls[k].next \subseteq Successors(calls[k].here)
           /\ \A x \in Successors(calls[k].here) \ calls[k].next :
                  x \in finished \/ (k < Len(calls) /\ x = calls[k + 1].here)
    /\ \A j, k \in DOMAIN calls :
           j < k => discovered[calls[j].here] < discovered[calls[k].here]
    /\ \A k \in 2 .. Len(calls) :
           /\ parent[calls[k].here] = calls[k - 1].here
           /\ calls[k].here \in Successors(calls[k - 1].here)

DiscoveredInv ==
    \A n \in DOMAIN discovered :
        /\ discovered[n] < count
        /\ n \in finished => discovered[n] # -1
        /\ discovered[n] # -1 => n \in finished \/ \E k \in DOMAIN calls : calls[k].here = n
        /\ n < lockId => discovered[n] # -1

\* With any heights that the orders descend, the calls descend.
CallsDescend ==
    \A height \in [Nat -> Nat] : Descends(height, lockHistory) =>
        \A j, k \in DOMAIN calls :
            j < k => height[calls[j].here] > height[calls[k].here]

\* The finished locks can be given heights that all orders from them descend.
FinishedDescend ==
    \E height \in [Nat -> Nat] : \A n \in finished :
        /\ height[n] < Cardinality(finished)
        /\ \A x \in Successors(n) : x \in finished /\ height[n] > height[x]

\* A cycle is printed from a call that is not before the one it leads back to.
NowInv ==
    now # -1 =>
        \E j, k \in DOMAIN calls :
            j <= k /\ IsNext(calls[j].here) /\ calls[k].here = now

SearchInv == CallsInv /\ DiscoveredInv /\ CallsDescend /\ FinishedDescend /\ NowInv

IdleInv ==
    /\ asks = None => calls = <<>> /\ now = -1
    /\ crashed = "DEADLOCK_DETECTED" => asks # None /\ now # -1
    /\ UnlocksMatch

IInv == TypeOK /\ IdsInv /\ NamesInv /\ AsksInv /\ OrderInv /\ SearchInv /\ IdleInv

-----------------------------------------------------------------------------
(***************************************************************************)
(* Helpers.                                                                *)
(***************************************************************************)
LEMMA NatMin ==
    ASSUME NEW S, S \subseteq Nat, S # {}
    PROVE  \E x \in S : \A y \in S : x <= y
<1>. DEFINE R == {p \in Nat \X Nat : p[1] < p[2]}
<1>1. IsWellFoundedOn(R, Nat)
  BY NatLessThanWellFounded DEF OpToRel
<1>2. PICK x \in S : \A y \in S : ~ (<<y, x>> \in R)
  <2>. HIDE DEF R
  <2>. QED  BY <1>1, WFMin
<1>3. x \in Nat /\ \A y \in S : y \in Nat
  OBVIOUS
<1>4. ASSUME NEW y \in S PROVE x <= y
  <2>1. <<y, x>> \in Nat \X Nat
    BY <1>3
  <2>2. ~(y < x)
    BY <1>2, <2>1
  <2>. QED  BY <1>3, <2>2
<1>. QED  BY <1>4

\* What is where after a push.
LEMMA AppendProps ==
    ASSUME NEW S, NEW q \in Seq(S), NEW e \in S
    PROVE  /\ Append(q, e) \in Seq(S)
           /\ Len(q) \in Nat /\ DOMAIN q = 1 .. Len(q)
           /\ Len(Append(q, e)) = Len(q) + 1
           /\ DOMAIN Append(q, e) = 1 .. (Len(q) + 1)
           /\ \A i \in 1 .. Len(q) : Append(q, e)[i] = q[i]
           /\ Append(q, e)[Len(q) + 1] = e
           /\ Last(Append(q, e)) = e
BY AppendProperties DEF Last

\* What is where after a pop.
LEMMA FrontProps ==
    ASSUME NEW S, NEW q \in Seq(S), q # <<>>
    PROVE  /\ Front(q) \in Seq(S)
           /\ Len(q) \in Nat \ {0} /\ DOMAIN q = 1 .. Len(q)
           /\ Len(Front(q)) = Len(q) - 1
           /\ DOMAIN Front(q) = 1 .. (Len(q) - 1)
           /\ \A i \in 1 .. (Len(q) - 1) : Front(q)[i] = q[i]
           /\ Last(q) \in S /\ Last(q) = q[Len(q)]
<1>1. Len(q) \in Nat \ {0} /\ DOMAIN q = 1 .. Len(q)
  OBVIOUS
<1>2. \A i \in 1 .. Len(q) : q[i] \in S
  OBVIOUS
<1>3. /\ Front(q) \in Seq(S)
      /\ Len(Front(q)) = Len(q) - 1
      /\ \A i \in 1 .. (Len(q) - 1) : Front(q)[i] = q[i]
  <2>1. \A i \in 1 .. (Len(q) - 1) : q[i] \in S
    BY <1>1, <1>2
  <2>. QED  BY <1>1, <2>1, SubSeqProperties DEF Front
<1>. QED  BY <1>1, <1>2, <1>3 DEF Last

LEMMA IdInProps ==
    ASSUME NEW table \in Seq(Names), NEW n, \E i \in DOMAIN table : table[i] = n
    PROVE  /\ IdIn(table, n) \in 0 .. Len(table) - 1
           /\ table[IdIn(table, n) + 1] = n
<1>1. PICK i \in 1 .. Len(table) : table[i] = n
  OBVIOUS
<1>2. Len(table) \in Nat
  OBVIOUS
<1>3. i - 1 \in 0 .. Len(table) - 1 /\ table[(i - 1) + 1] = n
  BY <1>1, <1>2
<1>4. \E k \in 0 .. Len(table) - 1 : table[k + 1] = n
  BY <1>3
<1>. QED  BY <1>4 DEF IdIn

\* The table keeps the ids it gave and gives none twice.
LEMMA WithNameProps ==
    ASSUME TypeOK, IdsInv, NEW l \in Locks
    PROVE  /\ WithName(Name[l]) \in Seq(Names)
           /\ Len(ids) \in Nat /\ Len(WithName(Name[l])) \in Nat
           /\ Len(ids) <= Len(WithName(Name[l]))
           /\ DOMAIN ids = 1 .. Len(ids)
           /\ DOMAIN WithName(Name[l]) = 1 .. Len(WithName(Name[l]))
           /\ \A i \in DOMAIN ids : WithName(Name[l])[i] = ids[i]
           /\ \A i, j \in DOMAIN WithName(Name[l]) :
                  WithName(Name[l])[i] = WithName(Name[l])[j] => i = j
           /\ \E i \in DOMAIN WithName(Name[l]) : WithName(Name[l])[i] = Name[l]
<1>1. ids \in Seq(Names) /\ Name[l] \in Names
  BY DEF TypeOK, Names
<1>2. Len(ids) \in Nat /\ DOMAIN ids = 1 .. Len(ids)
  BY <1>1
<1>3. CASE Contains(ids, Name[l])
  <2>1. WithName(Name[l]) = ids
    BY <1>3 DEF WithName
  <2>. QED  BY <1>1, <1>2, <1>3, <2>1 DEF IdsInv, Contains
<1>4. CASE ~Contains(ids, Name[l])
  <2>. DEFINE table == Append(ids, Name[l])
  <2>1. WithName(Name[l]) = table
    BY <1>4 DEF WithName
  <2>2. /\ table \in Seq(Names) /\ Len(table) = Len(ids) + 1
        /\ DOMAIN table = 1 .. (Len(ids) + 1)
        /\ \A i \in 1 .. Len(ids) : table[i] = ids[i]
        /\ table[Len(ids) + 1] = Name[l]
    BY <1>1, AppendProps
  <2>3. \A i \in 1 .. Len(ids) : ids[i] # Name[l]
    BY <1>4 DEF Contains
  <2>. HIDE DEF table
  <2>4. ASSUME NEW i \in DOMAIN table, NEW j \in DOMAIN table, table[i] = table[j]
        PROVE  i = j
    BY <1>2, <2>2, <2>3, <2>4 DEF IdsInv
  <2>5. Len(ids) + 1 \in DOMAIN table
    BY <1>2, <2>2
  <2>. QED  BY <1>2, <2>1, <2>2, <2>4, <2>5
<1>. QED  BY <1>3, <1>4

-----------------------------------------------------------------------------
(***************************************************************************)
(* The search: what its state is.                                          *)
(***************************************************************************)
LEMMA SearchTypes ==
    ASSUME TypeOK, asks # None
    PROVE  /\ Len(ids) \in Nat /\ Ids \subseteq Nat
           /\ lockHistory \subseteq Ids \X Ids
           /\ DOMAIN discovered = Ids
           /\ discovered \in [Ids -> Nat \cup {-1}]
           /\ \A n \in Ids : discovered[n] \in Int
           /\ finished \subseteq Ids
           /\ parent \in [Ids -> Ids \cup {-1}]
           /\ calls \in Seq(Frames(Ids))
           /\ Len(calls) \in Nat /\ DOMAIN calls = 1 .. Len(calls)
           /\ \A k \in DOMAIN calls : calls[k].here \in Ids /\ calls[k].next \subseteq Ids
<1>1. /\ DOMAIN discovered = Ids /\ ids \in Seq(Names)
      /\ calls \in Seq(Frames(Ids))
  BY DEF TypeOK, Names
<1>2. Len(ids) \in Nat
  BY <1>1
<1>3. \A k \in DOMAIN calls : calls[k] \in Frames(Ids)
  BY <1>1
<1>4. \A k \in DOMAIN calls : calls[k].here \in Ids /\ calls[k].next \subseteq Ids
  BY <1>3 DEF Frames
<1>5. ASSUME NEW n \in Ids PROVE discovered[n] \in Int
  <2>1. discovered[n] \in Nat \cup {-1}
    BY <1>1 DEF TypeOK
  <2>. QED  BY <2>1
<1>6. /\ lockHistory \subseteq Ids \X Ids /\ finished \subseteq Ids
      /\ discovered \in [Ids -> Nat \cup {-1}] /\ parent \in [Ids -> Ids \cup {-1}]
  BY <1>1 DEF TypeOK
<1>7. Ids \subseteq Nat
  BY <1>2 DEF Ids
<1>8. Len(calls) \in Nat /\ DOMAIN calls = 1 .. Len(calls)
  BY <1>1
<1>. QED  BY <1>1, <1>2, <1>4, <1>5, <1>6, <1>7, <1>8

LEMMA SuccessorIs ==
    ASSUME TypeOK, asks # None, NEW n, NEW x
    PROVE  x \in Successors(n) <=> <<n, x>> \in lockHistory
BY SearchTypes DEF Successors

\* The innermost call has a next lock.
LEMMA RestProps ==
    ASSUME TypeOK, asks # None, NEW there, IsNext(there)
    PROVE  /\ Len(calls) \in Nat \ {0} /\ Len(calls) \in DOMAIN calls
           /\ Here = calls[Len(calls)].here /\ Here \in Ids
           /\ there \in calls[Len(calls)].next /\ there \in Ids
           /\ Rest(there) \in Seq(Frames(Ids))
           /\ Len(Rest(there)) = Len(calls) /\ DOMAIN Rest(there) = DOMAIN calls
           /\ \A k \in DOMAIN calls :
                  /\ Rest(there)[k].here = calls[k].here
                  /\ k # Len(calls) => Rest(there)[k].next = calls[k].next
           /\ Rest(there)[Len(calls)].next = calls[Len(calls)].next \ {there}
<1>. DEFINE top == Len(calls)
            less == [calls[top] EXCEPT !.next = @ \ {there}]
<1>1. /\ calls \in Seq(Frames(Ids)) /\ calls # <<>>
      /\ there \in calls[top].next
  BY SearchTypes DEF IsNext, Last
<1>2. top \in Nat \ {0} /\ top \in DOMAIN calls /\ DOMAIN calls = 1 .. top
  BY <1>1
<1>3. calls[top] \in Frames(Ids)
  BY <1>1, <1>2
<1>4. /\ less \in Frames(Ids)
      /\ less.here = calls[top].here /\ less.next = calls[top].next \ {there}
  BY <1>3 DEF Frames
<1>5. Rest(there) = [calls EXCEPT ![top] = less]
  BY DEF Rest
<1>6. /\ Rest(there) \in Seq(Frames(Ids))
      /\ Len(Rest(there)) = top
  BY <1>1, <1>2, <1>4, <1>5, ExceptSeq
<1>7. /\ DOMAIN Rest(there) = DOMAIN calls
      /\ Rest(there)[top] = less
      /\ \A k \in DOMAIN calls : k # top => Rest(there)[k] = calls[k]
  BY <1>2, <1>5
<1>8. Here = calls[top].here /\ calls[top].here \in Ids /\ there \in Ids
  BY <1>1, <1>3 DEF Here, Last, Frames
<1>. HIDE DEF top, less
<1>9. \A k \in DOMAIN calls : Rest(there)[k].here = calls[k].here
  BY <1>4, <1>7
<1>. QED  BY <1>1, <1>2, <1>4, <1>6, <1>7, <1>8, <1>9 DEF top

LEMMA DiscoverProps ==
    ASSUME TypeOK, asks # None, lockHistory' = lockHistory,
           NEW frames \in Seq(Frames(Ids)), NEW h \in Ids, discovered[h] = -1,
           Discover(frames, h)
    PROVE  /\ discovered' \in [Ids -> Nat \cup {-1}] /\ DOMAIN discovered' = Ids
           /\ discovered'[h] = count
           /\ \A n \in Ids : n # h => discovered'[n] = discovered[n]
           /\ count \in Nat /\ count' = count + 1
           /\ calls' \in Seq(Frames(Ids))
           /\ Len(frames) \in Nat /\ Len(calls') = Len(frames) + 1
           /\ DOMAIN calls' = 1 .. (Len(frames) + 1)
           /\ \A k \in 1 .. Len(frames) : calls'[k] = frames[k]
           /\ calls'[Len(frames) + 1].here = h
           /\ calls'[Len(frames) + 1].next = Successors(h)
           /\ \A n : Successors(n)' = Successors(n)
<1>. DEFINE frame == [here |-> h, next |-> Successors(h)]
<1>1. frame \in Frames(Ids) /\ frame.here = h /\ frame.next = Successors(h)
  BY SearchTypes DEF Frames, Successors
<1>2. /\ discovered' = [discovered EXCEPT ![h] = count] /\ count' = count + 1
      /\ calls' = Append(frames, frame)
      /\ count \in Nat
  BY DEF Discover, TypeOK
<1>3. /\ discovered' \in [Ids -> Nat \cup {-1}] /\ DOMAIN discovered' = Ids
      /\ discovered'[h] = count
      /\ \A n \in Ids : n # h => discovered'[n] = discovered[n]
  BY <1>2, SearchTypes
<1>4. \A n : Successors(n)' = Successors(n)
  BY <1>3, SearchTypes DEF Successors
<1>. HIDE DEF frame
<1>. QED  BY <1>1, <1>2, <1>3, <1>4, AppendProps

-----------------------------------------------------------------------------
(***************************************************************************)
(* The search: its steps.                                                  *)
(***************************************************************************)
Searching == TypeOK /\ SearchInv /\ asks # None
Others == UNCHANGED <<held, want, leaving, stack, ids, asks, crashed>>

LEMMA VisitKeeps ==
    ASSUME Searching, Others, NEW there \in Ids, Visit(there)
    PROVE  SearchInv'
<1>. USE DEF Searching
<1>. DEFINE top == Len(calls)
<1>1. /\ now = -1 /\ now' = -1 /\ IsNext(there) /\ discovered[there] = -1
      /\ parent' = [parent EXCEPT ![there] = Here]
      /\ UNCHANGED <<lockHistory, finished, lockId, asks, ids>>
  BY DEF Visit, Others
<1>2. /\ top \in Nat \ {0} /\ top \in DOMAIN calls /\ DOMAIN calls = 1 .. top
      /\ Here = calls[top].here /\ Here \in Ids
      /\ there \in calls[top].next
      /\ Rest(there) \in Seq(Frames(Ids)) /\ Len(Rest(there)) = top
      /\ \A k \in DOMAIN calls : /\ Rest(there)[k].here = calls[k].here
                                 /\ k # top => Rest(there)[k].next = calls[k].next
      /\ Rest(there)[top].next = calls[top].next \ {there}
  BY <1>1, RestProps, SearchTypes
<1>3. /\ DOMAIN discovered = Ids /\ DOMAIN discovered' = Ids
      /\ discovered \in [Ids -> Nat \cup {-1}]
      /\ discovered'[there] = count
      /\ \A n \in Ids : n # there => discovered'[n] = discovered[n]
      /\ count \in Nat /\ count' = count + 1
      /\ Len(calls') = top + 1 /\ DOMAIN calls' = 1 .. (top + 1)
      /\ \A k \in DOMAIN calls : calls'[k] = Rest(there)[k]
      /\ calls'[top + 1].here = there
      /\ calls'[top + 1].next = Successors(there)
      /\ \A n : Successors(n)' = Successors(n)
  <2>1. Discover(Rest(there), there)
    BY DEF Visit
  <2>. QED  BY <1>1, <1>2, <2>1, DiscoverProps, SearchTypes
<1>4. /\ \A k \in DOMAIN calls : calls'[k].here = calls[k].here
      /\ \A k \in DOMAIN calls : k # top => calls'[k].next = calls[k].next
      /\ calls'[top].next = calls[top].next \ {there}
  BY <1>2, <1>3
<1>5. /\ CallsInv /\ DiscoveredInv /\ CallsDescend /\ FinishedDescend
      /\ \A k \in DOMAIN calls : calls[k].here \in Ids
      /\ finished \subseteq Ids /\ lockId \in Nat /\ Ids \subseteq Nat
  BY SearchTypes DEF SearchInv, TypeOK
<1>6. \A k \in DOMAIN calls : /\ discovered[calls[k].here] \in Nat
                              /\ discovered[calls[k].here] # -1
                              /\ calls[k].here # there
                              /\ discovered[calls[k].here] < count
                              /\ discovered'[calls[k].here] = discovered[calls[k].here]
  BY <1>1, <1>3, <1>5 DEF CallsInv, DiscoveredInv
<1>7. there \notin finished
  BY <1>1, <1>3, <1>5 DEF DiscoveredInv
<1>. HIDE DEF top
<1>8. ASSUME NEW j \in DOMAIN calls', NEW k \in DOMAIN calls', j < k
       PROVE  /\ j \in DOMAIN calls /\ calls'[j].here = calls[j].here
              /\ k # top + 1 => k \in DOMAIN calls /\ calls'[k].here = calls[k].here
  BY <1>2, <1>3, <1>4, <1>8
<1>9. CallsInv'
  <2>1. ASSUME NEW k \in DOMAIN calls'
        PROVE  /\ discovered'[calls'[k].here] # -1
               /\ calls'[k].here \notin finished'
               /\ calls'[k].next \subseteq Successors(calls'[k].here)
               /\ \A x \in Successors(calls'[k].here) \ calls'[k].next :
                      x \in finished' \/ (k < Len(calls') /\ x = calls'[k + 1].here)
    <3>1. CASE k = top + 1
      BY <1>1, <1>3, <1>7, <3>1
    <3>2. CASE k = top
      <4>1. /\ calls'[k].here = calls[k].here
            /\ calls'[k].next = calls[k].next \ {there}
            /\ calls'[k + 1].here = there /\ k < Len(calls')
        BY <1>2, <1>3, <1>4, <3>2
      <4>2. \A x \in Successors(calls[k].here) \ calls[k].next : x \in finished
        BY <1>2, <1>5, <3>2 DEF CallsInv, top
      <4>3. /\ discovered'[calls[k].here] # -1 /\ calls[k].here \notin finished
            /\ calls[k].next \subseteq Successors(calls[k].here)
        BY <1>2, <1>5, <1>6, <3>2 DEF CallsInv
      <4>. QED  BY <1>1, <4>1, <4>2, <4>3
    <3>3. CASE k < top
      <4>1. k \in DOMAIN calls /\ k + 1 \in DOMAIN calls /\ k < Len(calls')
        BY <1>2, <1>3, <2>1, <3>3
      <4>2. /\ calls'[k].here = calls[k].here /\ calls'[k].next = calls[k].next
            /\ calls'[k + 1].here = calls[k + 1].here
        BY <1>4, <2>1, <3>3, <4>1, <1>2
      <4>. QED  BY <1>1, <1>3, <1>5, <1>6, <4>1, <4>2 DEF CallsInv
    <3>. QED  BY <1>2, <1>3, <2>1, <3>1, <3>2, <3>3
  <2>2. ASSUME NEW j \in DOMAIN calls', NEW k \in DOMAIN calls', j < k
        PROVE  discovered'[calls'[j].here] < discovered'[calls'[k].here]
    <3>1. j \in DOMAIN calls /\ calls'[j].here = calls[j].here
      BY <1>2, <1>3, <1>4, <2>2
    <3>2. CASE k = top + 1
      BY <1>3, <1>6, <3>1, <3>2
    <3>3. CASE k # top + 1
      <4>1. k \in DOMAIN calls /\ calls'[k].here = calls[k].here
        BY <1>2, <1>3, <1>4, <2>2, <3>3
      <4>. QED  BY <1>5, <1>6, <2>2, <3>1, <4>1 DEF CallsInv
    <3>. QED  BY <3>2, <3>3
  <2>3. ASSUME NEW k \in 2 .. Len(calls')
        PROVE  /\ parent'[calls'[k].here] = calls'[k - 1].here
               /\ calls'[k].here \in Successors(calls'[k - 1].here)
    <3>1. k - 1 \in DOMAIN calls /\ calls'[k - 1].here = calls[k - 1].here
      BY <1>2, <1>3, <1>4, <2>3
    <3>2. CASE k = top + 1
      <4>1. calls'[k].here = there /\ k - 1 = top /\ parent'[there] = Here
        BY <1>1, <1>2, <1>3, <3>2, SearchTypes
      <4>2. there \in Successors(calls[top].here)
        BY <1>2, <1>5 DEF CallsInv
      <4>. QED  BY <1>2, <1>3, <3>1, <4>1, <4>2
    <3>3. CASE k # top + 1
      <4>1. k \in 2 .. top /\ k \in DOMAIN calls /\ calls'[k].here = calls[k].here
        BY <1>2, <1>3, <1>4, <2>3, <3>3
      <4>2. parent'[calls[k].here] = parent[calls[k].here]
        BY <1>1, <1>5, <1>6, <4>1, SearchTypes
      <4>. QED  BY <1>3, <1>5, <3>1, <4>1, <4>2 DEF CallsInv, top
    <3>. QED  BY <3>2, <3>3
  <2>. QED  BY <1>3, <2>1, <2>2, <2>3 DEF CallsInv
<1>10. DiscoveredInv'
  <2>. SUFFICES ASSUME NEW n \in Ids
                PROVE  /\ discovered'[n] < count'
                       /\ n \in finished => discovered'[n] # -1
                       /\ discovered'[n] # -1 =>
                              n \in finished \/ \E k \in DOMAIN calls' : calls'[k].here = n
                       /\ n < lockId => discovered'[n] # -1
    BY <1>1, <1>3 DEF DiscoveredInv
  <2>1. CASE n = there
    <3>1. top + 1 \in DOMAIN calls'
      BY <1>2, <1>3
    <3>. QED  BY <1>3, <2>1, <3>1
  <2>2. CASE n # there
    <3>1. discovered'[n] = discovered[n] /\ discovered[n] < count'
      BY <1>3, <1>5, <2>2 DEF DiscoveredInv
    <3>2. \A k \in DOMAIN calls : k \in DOMAIN calls' /\ calls'[k].here = calls[k].here
      BY <1>2, <1>3, <1>4
    <3>. QED  BY <1>3, <1>5, <2>2, <3>1, <3>2 DEF DiscoveredInv
  <2>. QED  BY <2>1, <2>2
<1>11. CallsDescend'
  <2>1. ASSUME NEW height \in [Nat -> Nat], Descends(height, lockHistory),
               NEW j \in DOMAIN calls', NEW k \in DOMAIN calls', j < k
        PROVE  height[calls'[j].here] > height[calls'[k].here]
    <3>1. j \in DOMAIN calls /\ calls'[j].here = calls[j].here
      BY <1>8, <2>1
    <3>2. CASE k = top + 1
      <4>1. <<calls[top].here, there>> \in lockHistory
        BY <1>2, <1>5, SuccessorIs DEF CallsInv
      <4>2. height[calls[top].here] > height[there]
        BY <2>1, <4>1 DEF Descends
      <4>3. /\ height[calls[top].here] \in Nat /\ height[there] \in Nat
            /\ height[calls[j].here] \in Nat
        BY <1>2, <1>5, <3>1
      <4>4. CASE j = top
        BY <1>3, <3>1, <3>2, <4>2, <4>4
      <4>5. CASE j < top
        <5>1. height[calls[j].here] > height[calls[top].here]
          BY <1>2, <1>5, <2>1, <3>1, <4>5 DEF CallsDescend
        <5>2. height[calls[j].here] > height[there]
          BY <4>2, <4>3, <5>1
        <5>. QED  BY <1>3, <3>1, <3>2, <5>2
      <4>. QED  BY <1>2, <3>1, <4>4, <4>5
    <3>3. CASE k # top + 1
      <4>1. k \in DOMAIN calls /\ calls'[k].here = calls[k].here
        BY <1>8, <2>1, <3>3
      <4>. QED  BY <1>5, <2>1, <3>1, <4>1 DEF CallsDescend
    <3>. QED  BY <3>2, <3>3
  <2>. QED  BY <1>1, <2>1 DEF CallsDescend, Descends
<1>12. FinishedDescend'
  BY <1>1, <1>3, <1>5 DEF FinishedDescend
<1>13. NowInv'
  BY <1>1 DEF NowInv
<1>. QED  BY <1>9, <1>10, <1>11, <1>12, <1>13 DEF SearchInv

\* The innermost call passes a lock that is finished.
LEMMA SkipKeeps ==
    ASSUME Searching, Others, NEW there \in Ids, Skip(there)
    PROVE  SearchInv'
<1>. USE DEF Searching
<1>. DEFINE top == Len(calls)
<1>1. /\ now = -1 /\ IsNext(there) /\ discovered[there] # -1 /\ ~BackEdge(there)
      /\ calls' = Rest(there)
      /\ UNCHANGED <<lockHistory, discovered, count, finished, parent, lockId, now>>
  BY DEF Skip
<1>2. /\ top \in Nat \ {0} /\ top \in DOMAIN calls /\ DOMAIN calls = 1 .. top
      /\ Here = calls[top].here /\ there \in calls[top].next
      /\ Len(calls') = top /\ DOMAIN calls' = DOMAIN calls
      /\ \A k \in DOMAIN calls : /\ calls'[k].here = calls[k].here
                                 /\ k # top => calls'[k].next = calls[k].next
      /\ calls'[top].next = calls[top].next \ {there}
  BY <1>1, RestProps, SearchTypes
<1>3. /\ CallsInv /\ DiscoveredInv /\ CallsDescend /\ FinishedDescend
      /\ \A k \in DOMAIN calls : calls[k].here \in Ids
      /\ discovered \in [Ids -> Nat \cup {-1}] /\ DOMAIN discovered = Ids
      /\ \A n : Successors(n)' = Successors(n)
  BY <1>1, SearchTypes DEF SearchInv, Successors
<1>. HIDE DEF top
<1>4. there \in finished
  <2>. SUFFICES ASSUME there \notin finished PROVE FALSE
    OBVIOUS
  <2>1. PICK k \in DOMAIN calls : calls[k].here = there
    BY <1>1, <1>3 DEF DiscoveredInv
  <2>2. discovered[calls[top].here] < discovered[there]
    <3>1. /\ calls[top].here \in Ids /\ discovered[calls[top].here] \in Int
          /\ discovered[there] \in Int
      BY <1>2, <1>3, SearchTypes
    <3>2. ~(discovered[calls[top].here] >= discovered[there])
      BY <1>1, <1>2 DEF BackEdge
    <3>. QED  BY <3>1, <3>2
  <2>3. k = top \/ discovered[there] < discovered[calls[top].here]
    BY <1>2, <1>3, <2>1 DEF CallsInv
  <2>4. discovered[there] \in Int /\ discovered[calls[top].here] \in Int
    BY <1>2, <1>3, SearchTypes
  <2>. QED  BY <2>1, <2>2, <2>3, <2>4
<1>5. CallsInv'
  <2>1. ASSUME NEW k \in DOMAIN calls
        PROVE  /\ discovered[calls'[k].here] # -1
               /\ calls'[k].here \notin finished
               /\ calls'[k].next \subseteq Successors(calls'[k].here)
               /\ \A x \in Successors(calls'[k].here) \ calls'[k].next :
                      x \in finished \/ (k < Len(calls') /\ x = calls'[k + 1].here)
    <3>1. CASE k = top
      BY <1>2, <1>3, <1>4, <3>1 DEF CallsInv, top
    <3>2. CASE k # top
      <4>1. k + 1 \in DOMAIN calls
        BY <1>2, <3>2
      <4>2. calls'[k].next = calls[k].next /\ calls'[k + 1].here = calls[k + 1].here
        BY <1>2, <3>2, <4>1
      <4>. QED  BY <1>2, <1>3, <4>2 DEF CallsInv, top
    <3>. QED  BY <3>1, <3>2
  <2>2. ASSUME NEW j \in DOMAIN calls, NEW k \in DOMAIN calls, j < k
        PROVE  discovered[calls'[j].here] < discovered[calls'[k].here]
    BY <1>2, <1>3, <2>2 DEF CallsInv
  <2>3. ASSUME NEW k \in 2 .. top
        PROVE  /\ parent[calls'[k].here] = calls'[k - 1].here
               /\ calls'[k].here \in Successors(calls'[k - 1].here)
    <3>1. k \in DOMAIN calls /\ k - 1 \in DOMAIN calls
      BY <1>2
    <3>. QED  BY <1>2, <1>3, <3>1 DEF CallsInv, top
  <2>. QED  BY <1>1, <1>2, <1>3, <2>1, <2>2, <2>3 DEF CallsInv
<1>6. DiscoveredInv'
  BY <1>1, <1>2, <1>3 DEF DiscoveredInv
<1>7. CallsDescend'
  <2>1. /\ DOMAIN calls' = DOMAIN calls /\ lockHistory' = lockHistory
        /\ \A k \in DOMAIN calls : calls'[k].here = calls[k].here
    BY <1>1, <1>2
  <2>. QED  BY <1>3, <2>1 DEF CallsDescend, Descends
<1>8. FinishedDescend'
  BY <1>1, <1>3 DEF FinishedDescend
<1>9. NowInv'
  BY <1>1 DEF NowInv
<1>. QED  BY <1>5, <1>6, <1>7, <1>8, <1>9 DEF SearchInv

\* The innermost call returns: all orders from its lock lead to finished locks.
LEMMA ReturnKeeps ==
    ASSUME Searching, Others, Return
    PROVE  SearchInv'
<1>. USE DEF Searching
<1>. DEFINE top == Len(calls)
<1>1. /\ now = -1 /\ calls # <<>> /\ Last(calls).next = {}
      /\ finished' = finished \cup {Here}
      /\ calls' = Front(calls)
      /\ UNCHANGED <<lockHistory, discovered, count, parent, lockId, now>>
  BY DEF Return
<1>2. /\ top \in Nat \ {0} /\ top \in DOMAIN calls /\ DOMAIN calls = 1 .. top
      /\ Here = calls[top].here /\ calls[top].next = {}
      /\ Len(calls') = top - 1 /\ DOMAIN calls' = 1 .. (top - 1)
      /\ \A k \in 1 .. (top - 1) : calls'[k] = calls[k]
  <2>1. calls \in Seq(Frames(Ids))
    BY SearchTypes
  <2>. QED  BY <1>1, <2>1, FrontProps DEF Here, Last
<1>3. /\ CallsInv /\ DiscoveredInv /\ CallsDescend /\ FinishedDescend
      /\ \A k \in DOMAIN calls : calls[k].here \in Ids
      /\ discovered \in [Ids -> Nat \cup {-1}] /\ DOMAIN discovered = Ids
      /\ finished \subseteq Ids /\ Here \in Ids /\ Ids \subseteq Nat
      /\ \A n : Successors(n)' = Successors(n)
  BY <1>1, <1>2, SearchTypes DEF SearchInv, Successors
<1>. HIDE DEF top
<1>4. /\ Here \notin finished
      /\ \A x \in Successors(Here) : x \in finished
      /\ \A k \in 1 .. (top - 1) : k \in DOMAIN calls /\ calls[k].here # Here
  <2>1. Here \notin finished /\ \A x \in Successors(Here) : x \in finished
    BY <1>2, <1>3 DEF CallsInv, top
  <2>2. ASSUME NEW k \in 1 .. (top - 1)
        PROVE  k \in DOMAIN calls /\ calls[k].here # Here
    <3>1. k \in DOMAIN calls /\ k < top
      BY <1>2
    <3>2. discovered[calls[k].here] < discovered[calls[top].here]
      BY <1>2, <1>3, <3>1 DEF CallsInv
    <3>3. discovered[calls[k].here] \in Int
      BY <1>3, <3>1, SearchTypes
    <3>. QED  BY <1>2, <3>1, <3>2, <3>3
  <2>. QED  BY <2>1, <2>2
<1>5. CallsInv'
  <2>1. ASSUME NEW k \in 1 .. (top - 1)
        PROVE  /\ discovered[calls[k].here] # -1
               /\ calls[k].here \notin finished'
               /\ calls[k].next \subseteq Successors(calls[k].here)
               /\ \A x \in Successors(calls[k].here) \ calls[k].next :
                      x \in finished' \/ (k < top - 1 /\ x = calls'[k + 1].here)
    <3>1. /\ discovered[calls[k].here] # -1 /\ calls[k].here \notin finished
          /\ calls[k].next \subseteq Successors(calls[k].here)
          /\ \A x \in Successors(calls[k].here) \ calls[k].next :
                 x \in finished \/ x = calls[k + 1].here
      BY <1>3, <1>4 DEF CallsInv
    <3>2. CASE k + 1 = top
      BY <1>1, <1>2, <1>4, <3>1, <3>2
    <3>3. CASE k + 1 # top
      <4>1. k < top - 1 /\ calls'[k + 1] = calls[k + 1]
        BY <1>2, <3>3
      <4>. QED  BY <1>1, <1>4, <3>1, <4>1
    <3>. QED  BY <3>2, <3>3
  <2>2. ASSUME NEW j \in 1 .. (top - 1), NEW k \in 1 .. (top - 1), j < k
        PROVE  discovered[calls[j].here] < discovered[calls[k].here]
    BY <1>3, <1>4, <2>2 DEF CallsInv
  <2>3. ASSUME NEW k \in 2 .. (top - 1)
        PROVE  /\ k \in 1 .. (top - 1) /\ k - 1 \in 1 .. (top - 1)
               /\ parent[calls[k].here] = calls[k - 1].here
               /\ calls[k].here \in Successors(calls[k - 1].here)
    <3>1. k \in 2 .. top /\ k \in 1 .. (top - 1) /\ k - 1 \in 1 .. (top - 1)
      BY <1>2
    <3>. QED  BY <1>3, <3>1 DEF CallsInv, top
  <2>. QED  BY <1>1, <1>2, <1>3, <2>1, <2>2, <2>3 DEF CallsInv
<1>6. DiscoveredInv'
  <2>. SUFFICES ASSUME NEW n \in Ids
                PROVE  /\ discovered[n] < count
                       /\ n \in finished' => discovered[n] # -1
                       /\ discovered[n] # -1 =>
                              n \in finished' \/ \E k \in DOMAIN calls' : calls'[k].here = n
                       /\ n < lockId => discovered[n] # -1
    BY <1>1, <1>3 DEF DiscoveredInv
  <2>1. discovered[Here] # -1
    BY <1>2, <1>3 DEF CallsInv
  <2>2. ASSUME discovered[n] # -1, n \notin finished'
        PROVE  \E k \in DOMAIN calls' : calls'[k].here = n
    <3>1. PICK k \in DOMAIN calls : calls[k].here = n
      BY <1>1, <1>3, <2>2 DEF DiscoveredInv
    <3>2. k # top
      BY <1>1, <1>2, <2>2, <3>1
    <3>3. k \in 1 .. (top - 1)
      BY <1>2, <3>2
    <3>. QED  BY <1>2, <3>1, <3>3
  <2>. QED  BY <1>1, <1>3, <2>1, <2>2 DEF DiscoveredInv
<1>7. CallsDescend'
  BY <1>1, <1>2, <1>3, <1>4 DEF CallsDescend, Descends
<1>8. FinishedDescend'
  <2>. DEFINE size == Cardinality(finished)
  <2>1. PICK height \in [Nat -> Nat] : \A n \in finished :
             /\ height[n] < size
             /\ \A x \in Successors(n) : x \in finished /\ height[n] > height[x]
    BY <1>3 DEF FinishedDescend
  <2>2. IsFiniteSet(finished)
    <3>1. IsFiniteSet(0 .. Len(ids) - 1)
      BY SearchTypes, FS_Interval
    <3>. QED  BY <1>3, <3>1, FS_Subset DEF Ids
  <2>3. size \in Nat /\ Cardinality(finished') = size + 1
    BY <1>1, <1>4, <2>2, FS_AddElement, FS_CardinalityType
  <2>. DEFINE taller == [height EXCEPT ![Here] = size]
  <2>. HIDE DEF size
  <2>4. /\ taller \in [Nat -> Nat] /\ taller[Here] = size
        /\ \A n \in finished : n \in Nat /\ height[n] \in Nat /\ taller[n] = height[n]
    BY <1>3, <1>4, <2>3
  <2>. HIDE DEF taller
  <2>5. ASSUME NEW n \in finished'
        PROVE  /\ taller[n] < size + 1
               /\ \A x \in Successors(n) : x \in finished' /\ taller[n] > taller[x]
    <3>1. CASE n = Here
      <4>1. taller[n] = size /\ size < size + 1
        BY <2>3, <2>4, <3>1
      <4>2. ASSUME NEW x \in Successors(n)
            PROVE  x \in finished' /\ taller[n] > taller[x]
        <5>1. x \in finished
          BY <1>4, <3>1
        <5>2. height[x] < size /\ height[x] \in Nat /\ taller[x] = height[x]
          BY <2>1, <2>4, <5>1
        <5>. QED  BY <1>1, <2>3, <4>1, <5>1, <5>2
      <4>. QED  BY <4>1, <4>2
    <3>2. CASE n \in finished
      <4>1. taller[n] = height[n] /\ height[n] \in Nat /\ height[n] < size
        BY <2>1, <2>4, <3>2
      <4>2. ASSUME NEW x \in Successors(n)
            PROVE  x \in finished' /\ taller[n] > taller[x]
        <5>1. x \in finished /\ height[n] > height[x]
          BY <2>1, <3>2
        <5>. QED  BY <1>1, <2>4, <4>1, <5>1
      <4>. QED  BY <2>3, <4>1, <4>2
    <3>. QED  BY <1>1, <3>1, <3>2
  <2>. QED  BY <1>3, <2>3, <2>4, <2>5 DEF FinishedDescend
<1>9. NowInv'
  BY <1>1 DEF NowInv
<1>. QED  BY <1>5, <1>6, <1>7, <1>8, <1>9 DEF SearchInv

\* CheckCycle comes to its next lock.
LEMMA NextLockKeeps ==
    ASSUME Searching, Others, NextLock
    PROVE  SearchInv'
<1>. USE DEF Searching
<1>1. /\ now = -1 /\ calls = <<>> /\ lockId \in Ids /\ lockId' = lockId + 1
      /\ UNCHANGED <<lockHistory, finished, parent, now, ids, asks>>
  BY SearchTypes DEF NextLock, Others
<1>2. /\ DiscoveredInv /\ FinishedDescend
      /\ discovered \in [Ids -> Nat \cup {-1}] /\ DOMAIN discovered = Ids
      /\ Ids \subseteq Nat /\ lockId \in Nat
  BY SearchTypes DEF SearchInv, TypeOK
<1>3. NowInv'
  BY <1>1 DEF NowInv
<1>4. CASE discovered[lockId] # -1
  <2>1. UNCHANGED <<discovered, count, calls>>
    BY <1>1, <1>4 DEF NextLock
  <2>2. CallsInv' /\ CallsDescend'
    BY <1>1, <2>1 DEF CallsInv, CallsDescend
  <2>3. DiscoveredInv'
    BY <1>1, <1>2, <1>4, <2>1 DEF DiscoveredInv
  <2>4. FinishedDescend'
    BY <1>1, <1>2, <2>1 DEF FinishedDescend, Successors
  <2>. QED  BY <1>3, <2>2, <2>3, <2>4 DEF SearchInv
<1>5. CASE discovered[lockId] = -1
  <2>1. /\ <<>> \in Seq(Frames(Ids)) /\ Len(<<>>) = 0
        /\ Discover(<<>>, lockId)
    BY <1>1, <1>5 DEF NextLock
  <2>2. /\ DOMAIN discovered' = Ids
        /\ discovered'[lockId] = count
        /\ \A n \in Ids : n # lockId => discovered'[n] = discovered[n]
        /\ count \in Nat /\ count' = count + 1
        /\ Len(calls') = 1 /\ DOMAIN calls' = 1 .. 1
        /\ calls'[1].here = lockId
        /\ calls'[1].next = Successors(lockId)
        /\ \A n : Successors(n)' = Successors(n)
    <3>. DEFINE frames == <<>>
    <3>1. Len(frames) + 1 = 1
      BY <2>1
    <3>2. frames \in Seq(Frames(Ids)) /\ Discover(frames, lockId)
      BY <2>1
    <3>. HIDE DEF frames
    <3>3. /\ DOMAIN discovered' = Ids
          /\ discovered'[lockId] = count
          /\ \A n \in Ids : n # lockId => discovered'[n] = discovered[n]
          /\ count \in Nat /\ count' = count + 1
          /\ Len(calls') = Len(frames) + 1 /\ DOMAIN calls' = 1 .. (Len(frames) + 1)
          /\ calls'[Len(frames) + 1].here = lockId
          /\ calls'[Len(frames) + 1].next = Successors(lockId)
          /\ \A n : Successors(n)' = Successors(n)
      BY <1>1, <1>5, <3>2, DiscoverProps
    <3>. QED  BY <3>1, <3>3
  <2>3. lockId \notin finished
    BY <1>1, <1>2, <1>5 DEF DiscoveredInv
  <2>4. CallsInv' /\ CallsDescend'
    BY <1>1, <2>2, <2>3 DEF CallsInv, CallsDescend
  <2>5. DiscoveredInv'
    BY <1>1, <1>2, <1>5, <2>2 DEF DiscoveredInv
  <2>6. FinishedDescend'
    BY <1>1, <1>2, <2>2 DEF FinishedDescend
  <2>. QED  BY <1>3, <2>4, <2>5, <2>6 DEF SearchInv
<1>. QED  BY <1>4, <1>5

\* A cycle is found, and printed.
LEMMA FindKeeps ==
    ASSUME Searching, Others, NEW there \in Ids, FindCycle(there) \/ PrintOrder(there)
    PROVE  SearchInv'
<1>. USE DEF Searching
<1>1. /\ IsNext(there)
      /\ UNCHANGED <<lockHistory, discovered, count, finished, parent, calls, lockId>>
      /\ CallsInv /\ DiscoveredInv /\ CallsDescend /\ FinishedDescend /\ NowInv
  BY DEF FindCycle, PrintOrder, SearchInv
<1>2. CallsInv' /\ DiscoveredInv' /\ CallsDescend' /\ FinishedDescend'
  <2>1. \A n : Successors(n)' = Successors(n)
    BY <1>1 DEF Successors
  <2>2. CallsInv'
    BY <1>1, <2>1 DEF CallsInv
  <2>3. DiscoveredInv'
    BY <1>1 DEF DiscoveredInv
  <2>4. CallsDescend'
    BY <1>1 DEF CallsDescend, Descends
  <2>5. FinishedDescend'
    BY <1>1, <2>1 DEF FinishedDescend
  <2>. QED  BY <2>2, <2>3, <2>4, <2>5
<1>3. /\ Len(calls) \in Nat \ {0} /\ DOMAIN calls = 1 .. Len(calls)
      /\ Here = calls[Len(calls)].here /\ there \in Nat
      /\ DOMAIN discovered = Ids
  BY <1>1, RestProps, SearchTypes
<1>4. CASE FindCycle(there)
  <2>1. PICK j \in DOMAIN calls : calls[j].here = there
    BY <1>1, <1>3, <1>4 DEF FindCycle, BackEdge, DiscoveredInv
  <2>2. now' = calls[Len(calls)].here /\ j <= Len(calls) /\ Len(calls) \in DOMAIN calls
    BY <1>3, <1>4, <2>1 DEF FindCycle
  <2>3. NowInv'
    BY <1>1, <2>1, <2>2 DEF NowInv, IsNext
  <2>. QED  BY <1>2, <2>3 DEF SearchInv
<1>5. CASE PrintOrder(there)
  <2>1. now \notin {-1, there} /\ now' = parent[now]
    BY <1>5 DEF PrintOrder
  <2>2. PICK j, k \in DOMAIN calls :
             j <= k /\ IsNext(calls[j].here) /\ calls[k].here = now
    BY <1>1, <2>1 DEF NowInv
  <2>3. calls[j].here = there
    <3>1. there <= calls[j].here /\ calls[j].here <= there
      BY <1>1, <2>2 DEF IsNext
    <3>2. Ids \subseteq Nat /\ calls[j].here \in Ids
      BY SearchTypes
    <3>3. there \in Int /\ calls[j].here \in Int
      BY <3>2
    <3>. QED  BY <3>1, <3>3
  <2>4. j # k
    BY <2>1, <2>2, <2>3
  <2>5. k \in 2 .. Len(calls) /\ k - 1 \in DOMAIN calls /\ j <= k - 1
    BY <1>3, <2>2, <2>4
  <2>6. now' = calls[k - 1].here
    BY <1>1, <2>1, <2>2, <2>5 DEF CallsInv
  <2>7. NowInv'
    BY <1>1, <2>2, <2>5, <2>6 DEF NowInv, IsNext
  <2>. QED  BY <1>2, <2>7 DEF SearchInv
<1>. QED  BY <1>4, <1>5

-----------------------------------------------------------------------------
(***************************************************************************)
(* The steps of CheckCycle.                                                *)
(***************************************************************************)
LEMMA SearchSame ==
    ASSUME SearchInv, UNCHANGED <<lockHistory, searchVars>>
    PROVE  SearchInv'
<1>1. /\ UNCHANGED <<lockHistory, discovered, count, finished, parent, calls, lockId, now>>
      /\ \A n : Successors(n)' = Successors(n)
  BY DEF searchVars, Successors
<1>2. CallsInv'
  BY <1>1 DEF SearchInv, CallsInv
<1>3. DiscoveredInv'
  BY <1>1 DEF SearchInv, DiscoveredInv
<1>4. CallsDescend' /\ FinishedDescend'
  BY <1>1 DEF SearchInv, CallsDescend, FinishedDescend, Descends
<1>5. NowInv'
  BY <1>1 DEF SearchInv, NowInv, IsNext
<1>. QED  BY <1>2, <1>3, <1>4, <1>5 DEF SearchInv

\* A search begins with no call and no lock discovered.
LEMMA BeginKeeps ==
    ASSUME NEW lockCount \in Nat, Begin(lockCount)
    PROVE  /\ SearchInv'
           /\ DOMAIN discovered' = 0 .. lockCount - 1
           /\ discovered' \in [0 .. lockCount - 1 -> Nat \cup {-1}]
           /\ parent' \in [0 .. lockCount - 1 -> {-1}]
           /\ count' = 0 /\ finished' = {} /\ calls' = <<>> /\ lockId' = 0 /\ now' = -1
<1>1. /\ DOMAIN discovered' = 0 .. lockCount - 1
      /\ discovered' \in [0 .. lockCount - 1 -> Nat \cup {-1}]
      /\ \A n \in DOMAIN discovered' : discovered'[n] = -1 /\ n \in Nat
      /\ parent' \in [0 .. lockCount - 1 -> {-1}]
      /\ count' = 0 /\ finished' = {} /\ calls' = <<>> /\ lockId' = 0 /\ now' = -1
  BY DEF Begin
<1>2. CallsInv' /\ CallsDescend'
  BY <1>1 DEF CallsInv, CallsDescend
<1>3. DiscoveredInv'
  BY <1>1 DEF DiscoveredInv
<1>4. FinishedDescend'
  <2>1. [n \in Nat |-> 0] \in [Nat -> Nat]
    OBVIOUS
  <2>. QED  BY <1>1, <2>1 DEF FinishedDescend
<1>5. NowInv'
  BY <1>1 DEF NowInv
<1>. QED  BY <1>1, <1>2, <1>3, <1>4, <1>5 DEF SearchInv

LEMMA CheckCycleTypes ==
    ASSUME TypeOK, CheckCycle
    PROVE  TypeOK'
<1>1. /\ Others /\ asks # None /\ Search
      /\ UNCHANGED <<held, want, leaving, stack, ids, asks, crashed>>
  BY DEF CheckCycle, Others
<1>2. /\ DOMAIN discovered = Ids /\ lockHistory' = lockHistory /\ Ids' = Ids
      /\ Ids \subseteq Nat
      /\ discovered \in [Ids -> Nat \cup {-1}] /\ finished \subseteq Ids
      /\ parent \in [Ids -> Ids \cup {-1}] /\ calls \in Seq(Frames(Ids))
      /\ lockId \in Nat /\ count \in Nat /\ now \in Ids \cup {-1}
  BY <1>1, SearchTypes
  DEF TypeOK, Search, NextLock, Return, Visit, Skip, FindCycle, PrintOrder, Ids
<1>. SUFFICES /\ DOMAIN discovered' = Ids
              /\ discovered' \in [Ids -> Nat \cup {-1}] /\ finished' \subseteq Ids
              /\ parent' \in [Ids -> Ids \cup {-1}] /\ calls' \in Seq(Frames(Ids))
              /\ lockId' \in Nat /\ count' \in Nat /\ now' \in Ids \cup {-1}
  <2>. DEFINE Goal == /\ DOMAIN discovered' = Ids
                      /\ discovered' \in [Ids -> Nat \cup {-1}] /\ finished' \subseteq Ids
                      /\ parent' \in [Ids -> Ids \cup {-1}] /\ calls' \in Seq(Frames(Ids))
                      /\ lockId' \in Nat /\ count' \in Nat /\ now' \in Ids \cup {-1}
  <2>. SUFFICES ASSUME Goal PROVE TypeOK'
    OBVIOUS
  <2>. QED  BY <1>1, <1>2 DEF TypeOK
<1>3. CASE NextLock
  <2>1. CASE discovered[lockId] = -1
    <3>1. <<>> \in Seq(Frames(Ids)) /\ lockId \in Ids /\ Discover(<<>>, lockId)
      BY <1>2, <1>3, <2>1 DEF NextLock
    <3>2. PICK frames \in Seq(Frames(Ids)) : Discover(frames, lockId)
      BY <3>1
    <3>3. /\ discovered' \in [Ids -> Nat \cup {-1}] /\ count' \in Nat
          /\ calls' \in Seq(Frames(Ids)) /\ DOMAIN discovered' = Ids
      BY <1>1, <1>2, <2>1, <3>1, <3>2, DiscoverProps
    <3>. QED  BY <1>2, <1>3, <3>3 DEF NextLock
  <2>2. CASE discovered[lockId] # -1
    <3>1. /\ UNCHANGED <<discovered, count, calls, finished, parent, now>>
          /\ lockId' = lockId + 1
      BY <1>3, <2>2 DEF NextLock
    <3>. QED  BY <1>2, <3>1
  <2>. QED  BY <2>1, <2>2
<1>4. CASE Return
  <2>1. /\ calls # <<>> /\ calls' = Front(calls)
        /\ finished' = finished \cup {Last(calls).here}
    BY <1>4 DEF Return, Here
  <2>2. calls' \in Seq(Frames(Ids)) /\ Last(calls) \in Frames(Ids)
    BY <1>2, <2>1, FrontProps
  <2>3. Last(calls).here \in Ids
    BY <2>2 DEF Frames
  <2>. QED  BY <1>2, <1>4, <2>1, <2>2, <2>3 DEF Return
<1>5. ASSUME NEW there \in DOMAIN discovered, Visit(there)
      PROVE  /\ DOMAIN discovered' = Ids
             /\ discovered' \in [Ids -> Nat \cup {-1}] /\ finished' \subseteq Ids
             /\ parent' \in [Ids -> Ids \cup {-1}] /\ calls' \in Seq(Frames(Ids))
             /\ lockId' \in Nat /\ count' \in Nat /\ now' \in Ids \cup {-1}
  <2>1. Here \in Ids /\ Rest(there) \in Seq(Frames(Ids)) /\ there \in Ids
    BY <1>1, <1>5, RestProps DEF Visit
  <2>2. /\ discovered' \in [Ids -> Nat \cup {-1}] /\ count' \in Nat
        /\ calls' \in Seq(Frames(Ids)) /\ DOMAIN discovered' = Ids
    <3>1. Discover(Rest(there), there) /\ discovered[there] = -1
      BY <1>5 DEF Visit
    <3>2. PICK frames \in Seq(Frames(Ids)) : Discover(frames, there)
      BY <2>1, <3>1
    <3>. QED  BY <1>1, <1>2, <2>1, <3>1, <3>2, DiscoverProps
  <2>3. parent' \in [Ids -> Ids \cup {-1}]
    BY <1>2, <1>5, <2>1 DEF Visit
  <2>. QED  BY <1>2, <1>5, <2>2, <2>3 DEF Visit
<1>6. ASSUME NEW there \in DOMAIN discovered,
             Skip(there) \/ FindCycle(there) \/ PrintOrder(there)
      PROVE  /\ calls' \in Seq(Frames(Ids)) /\ now' \in Ids \cup {-1}
             /\ UNCHANGED <<discovered, finished, parent, lockId, count>>
  <2>1. Here \in Ids /\ Rest(there) \in Seq(Frames(Ids))
    BY <1>1, <1>6, RestProps DEF Skip, FindCycle, PrintOrder
  <2>. QED  BY <1>2, <1>6, <2>1 DEF Skip, FindCycle, PrintOrder
<1>. QED  BY <1>1, <1>2, <1>3, <1>4, <1>5, <1>6 DEF Search

LEMMA CheckCycleKeeps ==
    ASSUME IInv, CheckCycle
    PROVE  IInv'
<1>1. /\ Others /\ asks # None /\ Search /\ Searching
      /\ UNCHANGED <<held, want, leaving, stack, ids, asks, crashed>>
      /\ crashed = "no"
  BY DEF CheckCycle, Others, Searching, IInv
<1>2. lockHistory' = lockHistory /\ DOMAIN discovered = Ids
  BY <1>1, SearchTypes
  DEF Search, NextLock, Return, Visit, Skip, FindCycle, PrintOrder, Searching
<1>3. SearchInv'
  <2>1. ASSUME NEW there \in Ids,
               Visit(there) \/ Skip(there) \/ FindCycle(there) \/ PrintOrder(there)
        PROVE  SearchInv'
    BY <1>1, <2>1, VisitKeeps, SkipKeeps, FindKeeps
  <2>. QED  BY <1>1, <1>2, <2>1, NextLockKeeps, ReturnKeeps DEF Search
<1>4. TypeOK'
  BY CheckCycleTypes DEF IInv
<1>5. IdsInv' /\ NamesInv' /\ AsksInv'
  BY <1>1, <1>2 DEF IInv, IdsInv, NamesInv, NamesOf, AsksInv, NewOrder
<1>6. OrderInv'
  <2>1. Searched' = Searched /\ Ids' = Ids
    BY <1>1, <1>2 DEF Searched, NewOrder, Ids
  <2>. QED  BY <1>1, <2>1 DEF IInv, OrderInv, StacksDescend, Descends, HasCycle
<1>7. IdleInv'
  BY <1>1 DEF IInv, IdleInv, UnlocksMatch
<1>. QED  BY <1>3, <1>4, <1>5, <1>6, <1>7 DEF IInv

-----------------------------------------------------------------------------
(***************************************************************************)
(* The orders.                                                             *)
(***************************************************************************)
LEMMA HasCycleIs ==
    ASSUME NEW nodes, nodes \subseteq Nat, NEW edges, edges \subseteq nodes \X nodes,
           ~HasCycle(edges, nodes)
    PROVE  \E height \in [Nat -> Nat] :
               Descends(height, edges) /\ \A n \in nodes : height[n] \in nodes
<1>1. PICK low \in [nodes -> nodes] : Descends(low, edges)
  BY DEF HasCycle
<1>. DEFINE height == [n \in Nat |-> IF n \in nodes THEN low[n] ELSE 0]
<1>2. height \in [Nat -> Nat] /\ \A n \in nodes : height[n] = low[n] /\ height[n] \in nodes
  BY <1>1
<1>. HIDE DEF height
<1>3. \A e \in edges : e[1] \in nodes /\ e[2] \in nodes
  OBVIOUS
<1>. QED  BY <1>1, <1>2, <1>3 DEF Descends

LEMMA NoCycleIs ==
    ASSUME NEW nodes, NEW edges, edges \subseteq nodes \X nodes,
           NEW height, Descends(height, edges), \A n \in nodes : height[n] \in nodes
    PROVE  ~HasCycle(edges, nodes)
<1>. DEFINE low == [n \in nodes |-> height[n]]
<1>1. low \in [nodes -> nodes] /\ \A n \in nodes : low[n] = height[n]
  OBVIOUS
<1>. HIDE DEF low
<1>2. \A e \in edges : e[1] \in nodes /\ e[2] \in nodes
  OBVIOUS
<1>3. Descends(low, edges)
  BY <1>1, <1>2 DEF Descends
<1>. QED  BY <1>1, <1>3 DEF HasCycle

\* A new lock is in no order yet.
LEMMA MoreNodes ==
    ASSUME NEW m \in Nat, NEW n \in Nat, m <= n,
           NEW edges, edges \subseteq (0 .. m - 1) \X (0 .. m - 1),
           ~HasCycle(edges, 0 .. m - 1)
    PROVE  ~HasCycle(edges, 0 .. n - 1)
<1>. DEFINE few == 0 .. m - 1
            many == 0 .. n - 1
<1>1. few \subseteq Nat /\ few \subseteq many
  OBVIOUS
<1>2. edges \subseteq few \X few /\ ~HasCycle(edges, few)
  OBVIOUS
<1>3. ASSUME NEW i \in many PROVE 0 \in many
  OBVIOUS
<1>. HIDE DEF few, many
<1>4. PICK height \in [Nat -> Nat] :
           Descends(height, edges) /\ \A i \in few : height[i] \in few
  BY <1>1, <1>2, HasCycleIs
<1>. DEFINE more == [i \in many |-> IF i \in few THEN height[i] ELSE 0]
<1>5. \A i \in few : more[i] = height[i]
  BY <1>1
<1>6. \A i \in many : more[i] \in many
  BY <1>1, <1>3, <1>4
<1>. HIDE DEF more
<1>7. \A e \in edges : e[1] \in few /\ e[2] \in few
  BY <1>2
<1>8. Descends(more, edges)
  BY <1>4, <1>5, <1>7 DEF Descends
<1>9. edges \subseteq many \X many
  BY <1>1, <1>2
<1>10. ~HasCycle(edges, many)
  BY <1>6, <1>8, <1>9, NoCycleIs
<1>. QED  BY <1>10 DEF many

\* A name that is pushed is the last one, or is below it in the orders.
LEMMA PushDescends ==
    ASSUME stack \in [Threads -> Seq(Nat)],
           NEW height, \A n \in Nat : height[n] \in Nat, StacksDescend(height),
           NEW t \in Threads, NEW id \in Nat,
           \A e \in NewEdges(t, id) : height[e[1]] > height[e[2]],
           stack' = [stack EXCEPT ![t] = Append(@, id)]
    PROVE  StacksDescend(height)'
<1>. DEFINE top == Len(stack[t])
<1>1. /\ top \in Nat /\ DOMAIN stack[t] = 1 .. top
      /\ \A i \in 1 .. top : stack[t][i] \in Nat
  <2>1. stack[t] \in Seq(Nat)
    OBVIOUS
  <2>. QED  BY <2>1
<1>2. /\ stack'[t] = Append(stack[t], id) /\ \A u \in Threads \ {t} : stack'[u] = stack[u]
      /\ DOMAIN stack'[t] = 1 .. (top + 1)
      /\ \A i \in 1 .. top : stack'[t][i] = stack[t][i]
      /\ stack'[t][top + 1] = id
  <2>1. PICK q \in Seq(Nat) : q = stack[t]
    OBVIOUS
  <2>2. /\ DOMAIN Append(q, id) = 1 .. (Len(q) + 1)
        /\ \A i \in 1 .. Len(q) : Append(q, id)[i] = q[i]
        /\ Append(q, id)[Len(q) + 1] = id
    BY <2>1, AppendProps
  <2>3. stack'[t] = Append(stack[t], id) /\ \A u \in Threads \ {t} : stack'[u] = stack[u]
    BY <2>1
  <2>. QED  BY <2>1, <2>2, <2>3
<1>. HIDE DEF top
<1>3. ASSUME NEW i \in 1 .. top PROVE stack[t][i] = id \/ height[stack[t][i]] > height[id]
  <2>1. top \in 1 .. top /\ stack[t] # <<>> /\ Last(stack[t]) = stack[t][top]
    BY <1>1, <1>3 DEF Last, top
  <2>2. stack[t][top] = id \/ height[stack[t][top]] > height[id]
    <3>1. stack[t][top] # id => <<stack[t][top], id>> \in NewEdges(t, id)
      BY <2>1 DEF NewEdges
    <3>. QED  BY <3>1
  <2>3. \/ i = top \/ stack[t][i] = stack[t][top]
        \/ height[stack[t][i]] > height[stack[t][top]]
    <3>1. i = top \/ i < top
      BY <1>1
    <3>. QED  BY <1>1, <2>1, <3>1 DEF StacksDescend
  <2>4. /\ height[stack[t][i]] \in Nat /\ height[stack[t][top]] \in Nat
        /\ height[id] \in Nat
    BY <1>1, <2>1
  <2>. QED  BY <2>2, <2>3, <2>4
<1>4. ASSUME NEW i \in DOMAIN stack'[t], NEW j \in DOMAIN stack'[t], i < j
      PROVE  stack'[t][i] = stack'[t][j] \/ height[stack'[t][i]] > height[stack'[t][j]]
  <2>1. i \in 1 .. top /\ (j = top + 1 \/ j \in 1 .. top)
    BY <1>1, <1>2, <1>4
  <2>2. CASE j = top + 1
    BY <1>2, <1>3, <2>1, <2>2
  <2>3. CASE j \in 1 .. top
    BY <1>1, <1>2, <1>4, <2>1, <2>3 DEF StacksDescend
  <2>. QED  BY <2>1, <2>2, <2>3
<1>5. ASSUME NEW u \in Threads, u # t,
             NEW i \in DOMAIN stack'[u], NEW j \in DOMAIN stack'[u], i < j
      PROVE  stack'[u][i] = stack'[u][j] \/ height[stack'[u][i]] > height[stack'[u][j]]
  <2>1. stack'[u] = stack[u]
    BY <1>2, <1>5
  <2>. QED  BY <1>5, <2>1 DEF StacksDescend
<1>. QED  BY <1>4, <1>5 DEF StacksDescend

-----------------------------------------------------------------------------
(***************************************************************************)
(* The steps of the threads.                                               *)
(***************************************************************************)
LEMMA StackTypes ==
    ASSUME TypeOK, NEW t \in Threads
    PROVE  /\ stack[t] \in Seq(Ids) /\ held[t] \in Seq(Guards)
           /\ Len(stack[t]) \in Nat /\ DOMAIN stack[t] = 1 .. Len(stack[t])
           /\ Len(held[t]) \in Nat /\ DOMAIN held[t] = 1 .. Len(held[t])
           /\ \A i \in DOMAIN stack[t] :
                  stack[t][i] \in Ids /\ stack[t][i] + 1 \in DOMAIN ids
           /\ Len(stack[t]) > 0 => /\ stack[t] # <<>>
                                   /\ Last(stack[t]) = stack[t][Len(stack[t])]
                                   /\ Last(stack[t]) \in Ids
                                   /\ Last(stack[t]) + 1 \in DOMAIN ids
<1>1. stack[t] \in Seq(Ids) /\ held[t] \in Seq(Guards)
  BY DEF TypeOK
<1>2. /\ Len(stack[t]) \in Nat /\ DOMAIN stack[t] = 1 .. Len(stack[t])
      /\ Len(held[t]) \in Nat /\ DOMAIN held[t] = 1 .. Len(held[t])
      /\ \A i \in DOMAIN stack[t] : stack[t][i] \in Ids
      /\ stack[t] = <<>> => Len(stack[t]) = 0
  BY <1>1
<1>3. Len(ids) \in Nat /\ DOMAIN ids = 1 .. Len(ids)
  <2>1. ids \in Seq(Names)
    BY DEF TypeOK, Names
  <2>. QED  BY <2>1
<1>4. \A n \in Ids : n + 1 \in DOMAIN ids
  BY <1>3 DEF Ids
<1>5. Len(stack[t]) > 0 => Len(stack[t]) \in DOMAIN stack[t]
  BY <1>2
<1>. QED  BY <1>1, <1>2, <1>4, <1>5 DEF Last

\* The table of names may grow.
LEMMA MoreNames ==
    ASSUME TypeOK, NEW t \in Threads, NamesOf(t), \A i \in DOMAIN ids : ids'[i] = ids[i],
           stack'[t] = stack[t], want'[t] = want[t], held'[t] = held[t],
           t \in leaving' <=> t \in leaving
    PROVE  NamesOf(t)'
<1>1. want[t] # None => Len(stack[t]) > 0
  BY StackTypes DEF NamesOf
<1>2. want[t] # None => ids'[Last(stack[t]) + 1] = ids[Last(stack[t]) + 1]
  BY <1>1, StackTypes
<1>3. \A i \in DOMAIN stack[t] : ids'[stack[t][i] + 1] = ids[stack[t][i] + 1]
  BY StackTypes
<1>. QED  BY <1>2, <1>3 DEF NamesOf

LEMMA PushNames ==
    ASSUME TypeOK, NEW t \in Threads, NamesOf(t), \A i \in DOMAIN ids : ids'[i] = ids[i],
           NEW guard \in Guards, NEW id \in Nat, ids'[id + 1] = Name[guard.lock],
           want[t] = None, t \notin leaving, t \notin leaving',
           stack'[t] = Append(stack[t], id), want'[t] = guard, held'[t] = held[t]
    PROVE  NamesOf(t)'
<1>. DEFINE top == Len(stack[t])
<1>1. /\ top \in Nat /\ top = Len(held[t]) /\ DOMAIN held[t] = 1 .. top
      /\ DOMAIN stack[t] = 1 .. top
      /\ \A i \in 1 .. top : ids'[stack[t][i] + 1] = ids[stack[t][i] + 1]
  BY StackTypes DEF NamesOf
<1>2. /\ Len(stack'[t]) = top + 1
      /\ DOMAIN stack'[t] = 1 .. (top + 1)
      /\ \A i \in 1 .. top : stack'[t][i] = stack[t][i]
      /\ Last(stack'[t]) = id
  <2>1. Ids \subseteq Nat
    BY DEF Ids
  <2>2. stack[t] \in Seq(Nat)
    BY <2>1, StackTypes, SeqMonotonic
  <2>. QED  BY <2>2, AppendProps
<1>3. guard # None
  BY ProfilerAssumption
<1>. QED  BY <1>1, <1>2, <1>3 DEF NamesOf

LEMMA PushLockKeeps ==
    ASSUME IInv, NEW t \in Threads, NEW l \in Locks, NEW mode \in {"read", "write"},
           PushLock(t, l, mode)
    PROVE  IInv'
<1>. DEFINE table == WithName(Name[l])
            id == IdIn(table, Name[l])
            guard == [lock |-> l, mode |-> mode]
            edges == NewEdges(t, id)
<1>1. /\ crashed = "no" /\ asks = None /\ want[t] = None /\ t \notin leaving
      /\ ids' = table /\ lockHistory' = lockHistory \cup edges
      /\ UNCHANGED <<held, leaving, crashed>>
  BY DEF PushLock
<1>2. \/ edges \subseteq lockHistory /\ Push(t, guard, id) /\ UNCHANGED <<asks, searchVars>>
      \/ /\ ~(edges \subseteq lockHistory)
         /\ asks' = [thread |-> t, guard |-> guard]
         /\ Begin(Len(table))
         /\ UNCHANGED <<stack, want>>
  BY DEF PushLock
<1>3. guard \in Guards /\ guard.lock = l /\ guard # None
  BY ProfilerAssumption DEF Guards
<1>4. /\ table \in Seq(Names)
      /\ Len(ids) \in Nat /\ Len(table) \in Nat /\ Len(ids) <= Len(table)
      /\ \A i \in DOMAIN ids : table[i] = ids[i]
      /\ \A i, j \in DOMAIN table : table[i] = table[j] => i = j
      /\ \E i \in DOMAIN table : table[i] = Name[l]
  BY WithNameProps DEF IInv
<1>5. id \in 0 .. Len(table) - 1 /\ table[id + 1] = Name[l]
  BY <1>4, IdInProps
<1>. HIDE DEF table, id, guard
<1>6. /\ Ids = 0 .. Len(ids) - 1 /\ Ids' = 0 .. Len(table) - 1
      /\ Ids \subseteq Ids' /\ Ids' \subseteq Nat /\ id \in Ids'
  BY <1>1, <1>4, <1>5 DEF Ids
<1>7. /\ lockHistory \subseteq Ids \X Ids
      /\ stack \in [Threads -> Seq(Ids)] /\ stack \in [Threads -> Seq(Ids')]
      /\ stack \in [Threads -> Seq(Nat)]
  <2>1. stack \in [Threads -> Seq(Ids)]
    BY DEF IInv, TypeOK
  <2>2. ASSUME NEW q \in Seq(Ids) PROVE q \in Seq(Ids') /\ q \in Seq(Nat)
    BY <1>6, SeqMonotonic
  <2>. QED  BY <2>1, <2>2 DEF IInv, TypeOK
<1>8. edges \subseteq Ids' \X Ids'
  <2>1. stack[t] # <<>> => Last(stack[t]) \in Ids
    BY <1>7, FrontProps
  <2>. QED  BY <1>6, <2>1 DEF NewEdges
<1>9. ~HasCycle(lockHistory, Ids')
  BY <1>1, <1>4, <1>6, <1>7, MoreNodes DEF IInv, OrderInv, Searched
<1>10. CASE edges \subseteq lockHistory
  <2>1. /\ Push(t, guard, id) /\ lockHistory' = lockHistory
        /\ UNCHANGED <<asks, searchVars>>
    BY <1>1, <1>2, <1>10
  <2>2. /\ stack' = [stack EXCEPT ![t] = Append(@, id)]
        /\ want' = [want EXCEPT ![t] = guard]
    BY <2>1 DEF Push
  <2>3. TypeOK'
    <3>1. stack[t] \in Seq(Ids') /\ Append(stack[t], id) \in Seq(Ids')
      BY <1>6, <1>7
    <3>2. stack' \in [Threads -> Seq(Ids')]
      BY <1>7, <2>2, <3>1
    <3>3. want' \in [Threads -> Guards \cup {None}]
      BY <1>3, <2>2 DEF IInv, TypeOK
    <3>4. /\ DOMAIN discovered = {} /\ now = -1
          /\ parent \in [DOMAIN discovered -> Ids' \cup {-1}]
      BY <1>1 DEF IInv, TypeOK, IdleInv
    <3>5. lockHistory' \subseteq Ids' \X Ids' /\ ids' \in Seq({Name[m] : m \in Locks})
      BY <1>1, <1>4, <1>6, <1>7, <2>1 DEF Names
    <3>. QED  BY <1>1, <2>1, <3>2, <3>3, <3>4, <3>5 DEF IInv, TypeOK, searchVars
  <2>4. IdsInv'
    BY <1>1, <1>4, <2>1 DEF IdsInv
  <2>5. NamesInv'
    <3>1. ASSUME NEW u \in Threads, u # t PROVE NamesOf(u)'
      <4>1. stack'[u] = stack[u] /\ want'[u] = want[u]
        BY <1>7, <2>2, <3>1 DEF IInv, TypeOK
      <4>. QED  BY <1>1, <1>4, <4>1, MoreNames DEF IInv, NamesInv
    <3>2. NamesOf(t)'
      <4>1. stack'[t] = Append(stack[t], id) /\ want'[t] = guard /\ id \in Nat
        BY <1>6, <1>7, <2>2 DEF IInv, TypeOK
      <4>. QED  BY <1>1, <1>3, <1>4, <1>5, <4>1, PushNames DEF IInv, NamesInv
    <3>. QED  BY <3>1, <3>2 DEF NamesInv
  <2>6. AsksInv'
    BY <1>1, <2>1 DEF AsksInv
  <2>7. OrderInv'
    <3>1. Searched = lockHistory /\ Searched' = lockHistory
      BY <1>1, <2>1 DEF Searched
    <3>2. ASSUME NEW height \in [Nat -> Nat], Descends(height, lockHistory)
          PROVE  StacksDescend(height)'
      <4>1. StacksDescend(height)
        BY <3>1, <3>2 DEF IInv, OrderInv
      <4>2. \A e \in edges : height[e[1]] > height[e[2]]
        BY <1>10, <3>2 DEF Descends
      <4>3. id \in Nat /\ \A n \in Nat : height[n] \in Nat
        BY <1>6, <3>2
      <4>. QED  BY <1>7, <2>2, <4>1, <4>2, <4>3, PushDescends
    <3>. QED  BY <1>1, <1>9, <3>1, <3>2 DEF OrderInv
  <2>8. SearchInv'
    BY <2>1, SearchSame DEF IInv
  <2>9. IdleInv'
    BY <1>1, <2>1 DEF IInv, IdleInv, UnlocksMatch, searchVars
  <2>. QED  BY <2>3, <2>4, <2>5, <2>6, <2>7, <2>8, <2>9 DEF IInv
<1>11. CASE ~(edges \subseteq lockHistory)
  <2>1. /\ asks' = [thread |-> t, guard |-> guard] /\ Begin(Len(table))
        /\ UNCHANGED <<stack, want>>
    BY <1>2, <1>11
  <2>2. /\ asks' \in Asks /\ asks' # None
        /\ asks'.thread = t /\ asks'.guard = guard
    BY <1>3, <2>1, ProfilerAssumption DEF Asks
  <2>3. /\ SearchInv'
        /\ DOMAIN discovered' = Ids'
        /\ discovered' \in [Ids' -> Nat \cup {-1}]
        /\ parent' \in [Ids' -> {-1}]
        /\ count' = 0 /\ finished' = {} /\ calls' = <<>> /\ lockId' = 0 /\ now' = -1
    BY <1>4, <1>6, <2>1, BeginKeeps
  <2>4. stack[t] # <<>> /\ edges = {<<Last(stack[t]), id>>}
    BY <1>11 DEF NewEdges
  <2>5. NewOrder' = <<Last(stack[t]), id>>
    BY <1>1, <1>3, <2>1, <2>2 DEF NewOrder, id
  <2>6. TypeOK'
    <3>1. parent' \in [Ids' -> Ids' \cup {-1}]
      BY <2>3
    <3>2. <<>> \in Seq(Frames(Ids'))
      OBVIOUS
    <3>3. lockHistory' \subseteq Ids' \X Ids' /\ ids' \in Seq({Name[m] : m \in Locks})
      BY <1>1, <1>4, <1>6, <1>7, <1>8 DEF Names
    <3>4. 0 \in Nat
      OBVIOUS
    <3>. QED
      BY <1>1, <1>7, <2>1, <2>2, <2>3, <3>1, <3>2, <3>3, <3>4 DEF IInv, TypeOK
  <2>7. IdsInv'
    BY <1>1, <1>3, <1>4, <2>2 DEF IdsInv
  <2>8. NamesInv'
    BY <1>1, <1>4, <2>1, MoreNames DEF IInv, NamesInv
  <2>9. AsksInv'
    BY <1>1, <2>1, <2>2, <2>4, <2>5 DEF AsksInv
  <2>10. OrderInv'
    <3>1. Searched = lockHistory /\ Searched' = lockHistory
      BY <1>1, <1>11, <2>2, <2>4, <2>5 DEF Searched
    <3>2. ASSUME NEW height \in [Nat -> Nat], Descends(height, lockHistory)
          PROVE  StacksDescend(height)'
      BY <2>1, <3>1, <3>2 DEF IInv, OrderInv, StacksDescend
    <3>. QED  BY <1>1, <1>9, <3>1, <3>2 DEF OrderInv
  <2>11. IdleInv'
    BY <1>1, <2>2 DEF IdleInv, UnlocksMatch
  <2>. QED  BY <2>3, <2>6, <2>7, <2>8, <2>9, <2>10, <2>11 DEF IInv
<1>. QED  BY <1>10, <1>11

\* The search is over: every lock is finished, so the new order makes no cycle.
LEMMA OverIs ==
    ASSUME TypeOK, SearchInv, asks # None, Over
    PROVE  ~HasCycle(lockHistory, Ids)
<1>1. /\ calls = <<>> /\ DOMAIN discovered = 0 .. lockId - 1
      /\ DOMAIN discovered = Ids /\ Ids \subseteq Nat /\ lockId \in Nat
      /\ finished \subseteq Ids /\ lockHistory \subseteq Ids \X Ids
      /\ Len(ids) \in Nat
  BY SearchTypes DEF Over, TypeOK
<1>2. finished = Ids
  <2>1. ASSUME NEW n \in Ids PROVE n \in finished
    <3>1. n < lockId
      BY <1>1
    <3>2. discovered[n] # -1
      BY <1>1, <3>1 DEF SearchInv, DiscoveredInv
    <3>. QED  BY <1>1, <3>2 DEF SearchInv, DiscoveredInv
  <2>. QED  BY <1>1, <2>1
<1>3. Cardinality(finished) = Len(ids)
  <2>1. Cardinality(0 .. Len(ids) - 1) = Len(ids)
    <3>1. 0 \in Int /\ Len(ids) - 1 \in Int
      BY <1>1
    <3>2. Cardinality(0 .. Len(ids) - 1) =
              IF 0 > Len(ids) - 1 THEN 0 ELSE (Len(ids) - 1) - 0 + 1
      BY <3>1, FS_Interval
    <3>. QED  BY <1>1, <3>2
  <2>. QED  BY <1>2, <2>1 DEF Ids
<1>4. PICK height \in [Nat -> Nat] : \A n \in Ids :
           /\ height[n] < Len(ids)
           /\ \A x \in Successors(n) : x \in Ids /\ height[n] > height[x]
  BY <1>2, <1>3 DEF SearchInv, FinishedDescend
<1>5. \A n \in Ids : height[n] \in Ids
  <2>1. ASSUME NEW n \in Ids PROVE height[n] \in Ids
    <3>1. height[n] \in Nat /\ height[n] < Len(ids)
      BY <1>1, <1>4
    <3>2. PICK h \in Nat : h = height[n] /\ h < Len(ids)
      BY <3>1
    <3>. QED  BY <1>1, <3>2 DEF Ids
  <2>. QED  BY <2>1
<1>6. Descends(height, lockHistory)
  <2>1. ASSUME NEW e \in lockHistory PROVE height[e[1]] > height[e[2]]
    <3>1. PICK a, b \in Ids : e = <<a, b>>
      BY <1>1
    <3>2. b \in Successors(a)
      BY <1>1, <3>1 DEF Successors
    <3>. QED  BY <1>4, <3>1, <3>2
  <2>. QED  BY <2>1 DEF Descends
<1>. QED  BY <1>1, <1>5, <1>6, NoCycleIs

LEMMA PushLock_EndKeeps ==
    ASSUME IInv, PushLock_End
    PROVE  IInv'
<1>. PICK t \in Threads, guard \in Guards : t = asks.thread /\ guard = asks.guard
  BY DEF PushLock_End, IInv, TypeOK, Asks
<1>. PICK id : id = IdIn(ids, Name[guard.lock])
  OBVIOUS
<1>1. /\ crashed = "no" /\ asks # None /\ asks' = None /\ Over /\ Begin(0)
      /\ UNCHANGED <<held, leaving, ids, lockHistory, crashed>>
      /\ stack' = [stack EXCEPT ![t] = Append(@, id)]
      /\ want' = [want EXCEPT ![t] = guard]
  BY DEF PushLock_End, Push, Clear
<1>2. /\ want[t] = None /\ t \notin leaving
      /\ guard # None /\ NewOrder = <<Last(stack[t]), id>> /\ NewOrder \in lockHistory
  BY <1>1, ProfilerAssumption DEF IInv, TypeOK, Asks, AsksInv, NewOrder
<1>3. id \in 0 .. Len(ids) - 1 /\ ids[id + 1] = Name[guard.lock] /\ Ids \subseteq Nat
  <2>1. ids \in Seq(Names) /\ \E i \in DOMAIN ids : ids[i] = Name[guard.lock]
    BY <1>1 DEF IInv, TypeOK, IdsInv, Names
  <2>. QED  BY <2>1, IdInProps DEF Ids
<1>4. id \in Ids /\ id \in Nat /\ Ids' = Ids
  BY <1>1, <1>3 DEF Ids
<1>5. stack \in [Threads -> Seq(Ids)] /\ stack \in [Threads -> Seq(Nat)]
  <2>1. ASSUME NEW q \in Seq(Ids) PROVE q \in Seq(Nat)
    BY <1>3, SeqMonotonic
  <2>. QED  BY <2>1 DEF IInv, TypeOK
<1>6. ~HasCycle(lockHistory, Ids)
  BY <1>1, OverIs DEF IInv
<1>7. /\ SearchInv'
      /\ DOMAIN discovered' = {} /\ discovered' \in [{} -> Nat \cup {-1}]
      /\ parent' \in [{} -> {-1}]
      /\ count' = 0 /\ finished' = {} /\ calls' = <<>> /\ lockId' = 0 /\ now' = -1
  <2>1. 0 \in Nat /\ 0 .. 0 - 1 = {}
    OBVIOUS
  <2>. QED  BY <1>1, <2>1, BeginKeeps
<1>8. TypeOK'
  <2>1. Append(stack[t], id) \in Seq(Ids)
    BY <1>2, <1>4, <1>5
  <2>2. stack' \in [Threads -> Seq(Ids)]
    BY <1>1, <1>5, <2>1
  <2>3. want' \in [Threads -> Guards \cup {None}]
    BY <1>1, <1>2 DEF IInv, TypeOK
  <2>4. parent' \in [{} -> Ids \cup {-1}] /\ 0 \in Nat /\ <<>> \in Seq(Frames({}))
    BY <1>7
  <2>. QED  BY <1>1, <1>4, <1>7, <2>2, <2>3, <2>4 DEF IInv, TypeOK
<1>9. IdsInv'
  BY <1>1 DEF IInv, IdsInv
<1>10. NamesInv'
  <2>1. ASSUME NEW u \in Threads, u # t PROVE NamesOf(u)'
    <3>1. stack'[u] = stack[u] /\ want'[u] = want[u]
      BY <1>1, <1>5, <2>1 DEF IInv, TypeOK
    <3>. QED  BY <1>1, <3>1, MoreNames DEF IInv, NamesInv
  <2>2. NamesOf(t)'
    <3>1. stack'[t] = Append(stack[t], id) /\ want'[t] = guard
      BY <1>1, <1>2, <1>5 DEF IInv, TypeOK
    <3>2. /\ NamesOf(t) /\ t \notin leaving' /\ held'[t] = held[t]
          /\ ids'[id + 1] = Name[guard.lock] /\ \A i \in DOMAIN ids : ids'[i] = ids[i]
      BY <1>1, <1>2, <1>3 DEF IInv, NamesInv
    <3>. QED  BY <1>2, <1>4, <3>1, <3>2, PushNames DEF IInv
  <2>. QED  BY <1>2, <2>1, <2>2 DEF NamesInv
<1>11. AsksInv'
  BY <1>1 DEF AsksInv
<1>12. OrderInv'
  <2>1. Searched' = lockHistory /\ Searched \subseteq lockHistory
    BY <1>1 DEF Searched
  <2>2. ASSUME NEW height \in [Nat -> Nat], Descends(height, lockHistory)
        PROVE  StacksDescend(height)'
    <3>1. StacksDescend(height)
      BY <2>1, <2>2 DEF IInv, OrderInv, Descends
    <3>2. \A e \in NewEdges(t, id) : height[e[1]] > height[e[2]]
      BY <1>2, <2>2 DEF Descends, NewEdges
    <3>3. \A n \in Nat : height[n] \in Nat
      BY <2>2
    <3>. QED  BY <1>1, <1>2, <1>4, <1>5, <3>1, <3>2, <3>3, PushDescends
  <2>. QED  BY <1>4, <1>6, <1>1, <2>1, <2>2 DEF OrderInv
<1>13. IdleInv'
  BY <1>1, <1>7 DEF IdleInv, UnlocksMatch
<1>. QED  BY <1>7, <1>8, <1>9, <1>10, <1>11, <1>12, <1>13 DEF IInv

LEMMA AcquireKeeps ==
    ASSUME IInv, NEW t \in Threads, Acquire(t)
    PROVE  IInv'
<1>1. /\ crashed = "no" /\ want[t] # None
      /\ held' = [held EXCEPT ![t] = Append(@, want[t])]
      /\ want' = [want EXCEPT ![t] = None]
      /\ UNCHANGED <<leaving, stack, ids, lockHistory, asks, searchVars, crashed>>
  BY DEF Acquire
<1>2. TypeOK'
  <2>1. /\ held \in [Threads -> Seq(Guards)] /\ want[t] \in Guards
        /\ want \in [Threads -> Guards \cup {None}]
    BY <1>1 DEF IInv, TypeOK
  <2>2. Append(held[t], want[t]) \in Seq(Guards)
    BY <2>1
  <2>3. held' \in [Threads -> Seq(Guards)] /\ want' \in [Threads -> Guards \cup {None}]
    BY <1>1, <2>1, <2>2
  <2>. QED  BY <1>1, <2>3 DEF IInv, TypeOK, searchVars, Ids
<1>3. NamesInv'
  <2>1. ASSUME NEW u \in Threads, u # t PROVE NamesOf(u)'
    <3>1. held'[u] = held[u] /\ want'[u] = want[u]
      BY <1>1, <2>1 DEF IInv, TypeOK
    <3>. QED  BY <1>1, <3>1, MoreNames DEF IInv, NamesInv
  <2>2. NamesOf(t)'
    <3>. DEFINE top == Len(held[t])
    <3>1. NamesOf(t) /\ Len(stack[t]) = top + 1 /\ t \notin leaving
      BY <1>1 DEF IInv, NamesInv, NamesOf
    <3>2. /\ top \in Nat /\ DOMAIN stack[t] = 1 .. (top + 1) /\ DOMAIN held[t] = 1 .. top
          /\ Last(stack[t]) = stack[t][top + 1]
      BY <3>1, StackTypes DEF IInv
    <3>3. want'[t] = None /\ held'[t] = Append(held[t], want[t]) /\ want[t] \in Guards
      BY <1>1 DEF IInv, TypeOK
    <3>4. /\ Len(held'[t]) = top + 1 /\ DOMAIN held'[t] = 1 .. (top + 1)
          /\ \A i \in 1 .. top : held'[t][i] = held[t][i]
          /\ held'[t][top + 1] = want[t]
      BY <3>3, StackTypes, AppendProps DEF IInv
    <3>. HIDE DEF top
    <3>5. ASSUME NEW i \in 1 .. (top + 1)
          PROVE  ids[stack[t][i] + 1] = Name[held'[t][i].lock]
      <4>1. CASE i = top + 1
        BY <1>1, <3>1, <3>2, <3>4, <4>1 DEF NamesOf
      <4>2. CASE i # top + 1
        <5>1. i \in 1 .. top
          BY <3>2, <4>2
        <5>. QED  BY <3>1, <3>2, <3>4, <5>1 DEF NamesOf
      <4>. QED  BY <4>1, <4>2
    <3>. QED  BY <1>1, <3>1, <3>2, <3>3, <3>4, <3>5 DEF NamesOf
  <2>. QED  BY <2>1, <2>2 DEF NamesInv
<1>4. AsksInv'
  <2>1. asks # None => want'[asks.thread] = None
    BY <1>1 DEF IInv, AsksInv, TypeOK
  <2>. QED  BY <1>1, <2>1 DEF IInv, AsksInv, NewOrder
<1>5. IdsInv' /\ OrderInv'
  <2>1. Searched' = Searched /\ Ids' = Ids
    BY <1>1 DEF Searched, NewOrder, Ids
  <2>2. IdsInv'
    BY <1>1 DEF IInv, IdsInv
  <2>. QED  BY <1>1, <2>1, <2>2 DEF IInv, OrderInv, StacksDescend, Descends, HasCycle
<1>6. SearchInv'
  BY <1>1, SearchSame DEF IInv
<1>7. IdleInv'
  BY <1>1 DEF IInv, IdleInv, UnlocksMatch, searchVars
<1>. QED  BY <1>2, <1>3, <1>4, <1>5, <1>6, <1>7 DEF IInv

\* The lock that a guard releases is the last one on the stack.
LEMMA PopLockMatches ==
    ASSUME IInv, NEW t \in Threads, want[t] = None, t \notin leaving, held[t] # <<>>
    PROVE  stack[t] # <<>> /\ Last(stack[t]) = IdIn(ids, Name[Last(held[t]).lock])
<1>. DEFINE top == Len(held[t])
            name == Name[Last(held[t]).lock]
<1>1. /\ top \in Nat \ {0} /\ Len(stack[t]) = top /\ top \in DOMAIN held[t]
      /\ top \in DOMAIN stack[t]
      /\ stack[t] # <<>> /\ Last(stack[t]) = stack[t][top] /\ Last(stack[t]) \in Ids
      /\ Last(held[t]) = held[t][top]
  <2>1. held[t] \in Seq(Guards) /\ Len(stack[t]) = top
    BY StackTypes DEF IInv, NamesInv, NamesOf
  <2>2. top \in Nat \ {0} /\ Last(held[t]) = held[t][top]
    BY <2>1, FrontProps
  <2>. QED  BY <2>1, <2>2, StackTypes DEF IInv
<1>2. ids[Last(stack[t]) + 1] = name
  BY <1>1 DEF IInv, NamesInv, NamesOf
<1>3. ids \in Seq(Names) /\ Len(ids) \in Nat /\ DOMAIN ids = 1 .. Len(ids)
  <2>1. ids \in Seq(Names)
    BY DEF IInv, TypeOK, Names
  <2>. QED  BY <2>1
<1>. HIDE DEF name, top
<1>4. Last(stack[t]) + 1 \in DOMAIN ids
  BY <1>1, <1>3 DEF Ids
<1>5. IdIn(ids, name) \in 0 .. Len(ids) - 1 /\ ids[IdIn(ids, name) + 1] = name
  BY <1>2, <1>3, <1>4, IdInProps
<1>6. IdIn(ids, name) + 1 \in DOMAIN ids
  BY <1>3, <1>5
<1>7. Last(stack[t]) + 1 = IdIn(ids, name) + 1
  BY <1>2, <1>4, <1>5, <1>6 DEF IInv, IdsInv
<1>. QED  BY <1>1, <1>3, <1>5, <1>7 DEF Ids, name

LEMMA PopLockKeeps ==
    ASSUME IInv, NEW t \in Threads, PopLock(t)
    PROVE  IInv'
<1>1. /\ crashed = "no" /\ crashed' = "no" /\ asks = None
      /\ want[t] = None /\ t \notin leaving /\ held[t] # <<>>
      /\ stack' = [stack EXCEPT ![t] = Front(@)] /\ leaving' = leaving \cup {t}
      /\ UNCHANGED <<held, want, ids, lockHistory, asks, searchVars>>
  <2>1. /\ crashed = "no" /\ asks = None
        /\ want[t] = None /\ t \notin leaving /\ held[t] # <<>>
        /\ UNCHANGED <<held, want, ids, lockHistory, asks, searchVars>>
    BY DEF PopLock
  <2>2. stack[t] # <<>> /\ Last(stack[t]) = IdIn(ids, Name[Last(held[t]).lock])
    BY <2>1, PopLockMatches
  <2>. QED  BY <2>1, <2>2 DEF PopLock
<1>2. /\ stack[t] \in Seq(Ids) /\ stack[t] # <<>> /\ stack \in [Threads -> Seq(Ids)]
      /\ Len(stack[t]) = Len(held[t])
  BY <1>1, PopLockMatches DEF IInv, TypeOK, NamesInv, NamesOf
<1>3. /\ stack'[t] = Front(stack[t]) /\ Front(stack[t]) \in Seq(Ids)
      /\ Len(stack[t]) \in Nat \ {0} /\ DOMAIN stack[t] = 1 .. Len(stack[t])
      /\ Len(stack'[t]) = Len(stack[t]) - 1
      /\ DOMAIN stack'[t] = 1 .. (Len(stack[t]) - 1)
      /\ \A i \in 1 .. (Len(stack[t]) - 1) : stack'[t][i] = stack[t][i]
      /\ \A u \in Threads : u # t => stack'[u] = stack[u]
  <2>1. stack'[t] = Front(stack[t]) /\ \A u \in Threads : u # t => stack'[u] = stack[u]
    BY <1>1, <1>2
  <2>2. PICK q \in Seq(Ids) : q = stack[t] /\ q # <<>>
    BY <1>2
  <2>3. /\ Front(q) \in Seq(Ids) /\ Len(q) \in Nat \ {0} /\ DOMAIN q = 1 .. Len(q)
        /\ Len(Front(q)) = Len(q) - 1 /\ DOMAIN Front(q) = 1 .. (Len(q) - 1)
        /\ \A i \in 1 .. (Len(q) - 1) : Front(q)[i] = q[i]
    BY <2>2, FrontProps
  <2>. QED  BY <2>1, <2>2, <2>3
<1>4. \A i \in DOMAIN stack'[t] : i \in DOMAIN stack[t] /\ stack'[t][i] = stack[t][i]
  BY <1>3
<1>5. TypeOK'
  <2>1. stack' \in [Threads -> Seq(Ids)]
    BY <1>1, <1>2, <1>3
  <2>. QED  BY <1>1, <2>1 DEF IInv, TypeOK, searchVars, Ids, Reasons
<1>6. NamesInv'
  <2>1. ASSUME NEW u \in Threads, u # t PROVE NamesOf(u)'
    BY <1>1, <1>3, <2>1, MoreNames DEF IInv, NamesInv
  <2>2. NamesOf(t)'
    BY <1>1, <1>2, <1>3, <1>4 DEF IInv, NamesInv, NamesOf
  <2>. QED  BY <2>1, <2>2 DEF NamesInv
<1>7. IdsInv' /\ AsksInv'
  BY <1>1 DEF IInv, IdsInv, AsksInv
<1>8. OrderInv'
  <2>1. Searched' = Searched /\ Ids' = Ids
    BY <1>1 DEF Searched, Ids
  <2>2. ASSUME NEW height, StacksDescend(height)
        PROVE  StacksDescend(height)'
    <3>1. \A u \in Threads : \A i \in DOMAIN stack'[u] :
              i \in DOMAIN stack[u] /\ stack'[u][i] = stack[u][i]
      BY <1>3, <1>4
    <3>. QED  BY <2>2, <3>1 DEF StacksDescend
  <2>. QED  BY <1>1, <2>1, <2>2 DEF IInv, OrderInv, Descends, HasCycle
<1>9. SearchInv'
  BY <1>1, SearchSame DEF IInv
<1>10. IdleInv'
  BY <1>1 DEF IInv, IdleInv, UnlocksMatch, searchVars
<1>. QED  BY <1>5, <1>6, <1>7, <1>8, <1>9, <1>10 DEF IInv

LEMMA UnlockKeeps ==
    ASSUME IInv, NEW t \in Threads, Unlock(t)
    PROVE  IInv'
<1>1. /\ crashed = "no" /\ t \in leaving
      /\ held' = [held EXCEPT ![t] = Front(@)]
      /\ leaving' = leaving \ {t}
      /\ UNCHANGED <<want, stack, ids, lockHistory, asks, searchVars, crashed>>
  BY DEF Unlock
<1>2. /\ NamesOf(t) /\ want[t] = None /\ held[t] # <<>>
      /\ held[t] \in Seq(Guards) /\ held \in [Threads -> Seq(Guards)]
  BY <1>1 DEF IInv, NamesInv, NamesOf, TypeOK
<1>3. /\ held'[t] = Front(held[t]) /\ Front(held[t]) \in Seq(Guards)
      /\ Len(held[t]) \in Nat \ {0} /\ DOMAIN held[t] = 1 .. Len(held[t])
      /\ Len(held'[t]) = Len(held[t]) - 1
      /\ DOMAIN held'[t] = 1 .. (Len(held[t]) - 1)
      /\ \A i \in 1 .. (Len(held[t]) - 1) : held'[t][i] = held[t][i]
      /\ \A u \in Threads : u # t => held'[u] = held[u]
  <2>1. held'[t] = Front(held[t]) /\ \A u \in Threads : u # t => held'[u] = held[u]
    BY <1>1, <1>2
  <2>. QED  BY <1>2, <2>1, FrontProps
<1>4. \A i \in DOMAIN held'[t] : i \in DOMAIN held[t] /\ held'[t][i] = held[t][i]
  BY <1>3
<1>5. TypeOK'
  <2>1. held' \in [Threads -> Seq(Guards)]
    BY <1>1, <1>2, <1>3
  <2>. QED  BY <1>1, <2>1 DEF IInv, TypeOK, searchVars, Ids
<1>6. NamesInv'
  <2>1. ASSUME NEW u \in Threads, u # t PROVE NamesOf(u)'
    BY <1>1, <1>3, <2>1, MoreNames DEF IInv, NamesInv
  <2>2. NamesOf(t)'
    <3>1. Len(stack'[t]) = Len(held'[t]) /\ want'[t] = None /\ t \notin leaving'
      BY <1>1, <1>2, <1>3 DEF NamesOf
    <3>2. \A i \in DOMAIN stack'[t] :
              i \in DOMAIN held'[t] => ids'[stack'[t][i] + 1] = Name[held'[t][i].lock]
      BY <1>1, <1>2, <1>4 DEF NamesOf
    <3>. QED  BY <3>1, <3>2 DEF NamesOf
  <2>. QED  BY <2>1, <2>2 DEF NamesInv
<1>7. IdsInv' /\ AsksInv'
  BY <1>1 DEF IInv, IdsInv, AsksInv, NewOrder
<1>8. OrderInv'
  <2>1. Searched' = Searched /\ Ids' = Ids
    BY <1>1 DEF Searched, NewOrder, Ids
  <2>. QED  BY <1>1, <2>1 DEF IInv, OrderInv, StacksDescend, Descends, HasCycle
<1>9. SearchInv'
  BY <1>1, SearchSame DEF IInv
<1>10. IdleInv'
  BY <1>1 DEF IInv, IdleInv, UnlocksMatch, searchVars
<1>. QED  BY <1>5, <1>6, <1>7, <1>8, <1>9, <1>10 DEF IInv

\* The program stops with a report of one of the two kinds, or does nothing.
LEMMA StopKeeps ==
    ASSUME IInv, Crash \/ (\E t \in Threads : LockTimeout(t)) \/ UNCHANGED vars
    PROVE  IInv'
<1>1. /\ UNCHANGED <<held, want, leaving, stack, ids, lockHistory, asks, searchVars>>
      /\ \/ crashed = "no" /\ crashed' = "LOCK_TIMEOUT"
         \/ crashed' = "DEADLOCK_DETECTED" /\ asks # None /\ now # -1
         \/ crashed' = crashed
  BY DEF Crash, Printed, LockTimeout, vars
<1>2. Searched' = Searched /\ Ids' = Ids
  BY <1>1 DEF Searched, NewOrder, Ids
<1>3. TypeOK'
  BY <1>1, <1>2 DEF IInv, TypeOK, searchVars, Reasons
<1>4. IdsInv' /\ NamesInv' /\ AsksInv'
  BY <1>1 DEF IInv, IdsInv, NamesInv, NamesOf, AsksInv, NewOrder
<1>5. OrderInv'
  BY <1>1, <1>2 DEF IInv, OrderInv, StacksDescend, Descends, HasCycle
<1>6. SearchInv'
  BY <1>1, SearchSame DEF IInv
<1>7. IdleInv'
  BY <1>1 DEF IInv, IdleInv, UnlocksMatch, searchVars
<1>. QED  BY <1>3, <1>4, <1>5, <1>6, <1>7 DEF IInv

LEMMA InitIInv ==
    ASSUME Init
    PROVE  IInv
<1>1. /\ asks = None /\ calls = <<>> /\ now = -1 /\ finished = {} /\ lockHistory = {}
      /\ DOMAIN discovered = {} /\ crashed = "no" /\ ids = <<>> /\ count = 0 /\ lockId = 0
      /\ \A t \in Threads : /\ stack[t] = <<>> /\ held[t] = <<>> /\ want[t] = None
                            /\ t \notin leaving
  BY DEF Init
<1>2. TypeOK
  <2>1. /\ discovered \in [{} -> Nat \cup {-1}] /\ parent \in [{} -> Ids \cup {-1}]
        /\ <<>> \in Seq({Name[l] : l \in Locks}) /\ <<>> \in Seq(Frames({}))
        /\ held \in [Threads -> Seq(Guards)] /\ stack \in [Threads -> Seq(Ids)]
        /\ want \in [Threads -> Guards \cup {None}] /\ leaving \subseteq Threads
    BY DEF Init
  <2>. QED  BY <1>1, <2>1 DEF TypeOK, Reasons
<1>3. IdsInv /\ NamesInv /\ AsksInv
  BY <1>1 DEF IdsInv, NamesInv, NamesOf, AsksInv
<1>4. OrderInv
  <2>1. Searched = {} /\ Ids = {}
    BY <1>1 DEF Searched, Ids
  <2>2. ~HasCycle({}, {})
    <3>1. [n \in {} |-> n] \in [{} -> {}]
      OBVIOUS
    <3>. QED  BY <3>1 DEF HasCycle, Descends
  <2>. QED  BY <1>1, <2>1, <2>2 DEF OrderInv, StacksDescend
<1>5. CallsInv /\ DiscoveredInv /\ CallsDescend /\ NowInv
  BY <1>1 DEF CallsInv, DiscoveredInv, CallsDescend, NowInv
<1>6. FinishedDescend
  <2>1. [n \in Nat |-> 0] \in [Nat -> Nat]
    OBVIOUS
  <2>. QED  BY <1>1, <2>1 DEF FinishedDescend
<1>7. IdleInv
  BY <1>1 DEF IdleInv, UnlocksMatch
<1>. QED  BY <1>2, <1>3, <1>4, <1>5, <1>6, <1>7 DEF IInv, SearchInv

LEMMA NextIInv ==
    ASSUME IInv, [Next]_vars
    PROVE  IInv'
<1>1. ASSUME NEW t \in Threads, NEW l \in Locks, NEW mode \in {"read", "write"},
             PushLock(t, l, mode)
      PROVE  IInv'
  BY <1>1, PushLockKeeps
<1>2. ASSUME NEW t \in Threads, Acquire(t) \/ LockTimeout(t) \/ PopLock(t) \/ Unlock(t)
      PROVE  IInv'
  BY <1>2, AcquireKeeps, StopKeeps, PopLockKeeps, UnlockKeeps
<1>3. CASE CheckCycle \/ Crash \/ PushLock_End \/ UNCHANGED vars
  BY <1>3, CheckCycleKeeps, StopKeeps, PushLock_EndKeeps
<1>. QED  BY <1>1, <1>2, <1>3 DEF Next

-----------------------------------------------------------------------------
(***************************************************************************)
(* What the invariant says of deadlocks.                                   *)
(***************************************************************************)
\* A cycle that is printed is one: whatever heights the locks have, some order of it
\* does not descend.
LEMMA ReportedCycle ==
    ASSUME TypeOK, SearchInv, asks # None, now # -1
    PROVE  HasCycle(lockHistory, Ids)
<1>. SUFFICES ASSUME ~HasCycle(lockHistory, Ids) PROVE FALSE
  OBVIOUS
<1>1. /\ lockHistory \subseteq Ids \X Ids /\ Ids \subseteq Nat
      /\ \A k \in DOMAIN calls : calls[k].here \in Ids
      /\ DOMAIN calls = 1 .. Len(calls) /\ Len(calls) \in Nat
  BY SearchTypes
<1>2. PICK height :
           /\ \A n \in Nat : height[n] \in Nat
           /\ Descends(height, lockHistory)
           /\ \A j, k \in DOMAIN calls :
                  j < k => height[calls[j].here] > height[calls[k].here]
  <2>1. PICK height \in [Nat -> Nat] : Descends(height, lockHistory)
    BY <1>1, HasCycleIs
  <2>. QED  BY <2>1 DEF SearchInv, CallsDescend
<1>3. PICK j \in DOMAIN calls : IsNext(calls[j].here)
  BY DEF SearchInv, NowInv
<1>. DEFINE top == Len(calls)
            there == calls[j].here
<1>4. /\ top \in DOMAIN calls /\ there \in calls[top].next
      /\ (j = top \/ j < top)
  <2>1. top \in DOMAIN calls /\ there \in calls[top].next
    BY <1>3, RestProps
  <2>. QED  BY <1>1, <2>1
<1>5. there \in Successors(calls[top].here)
  BY <1>4 DEF SearchInv, CallsInv
<1>6. height[calls[top].here] > height[there]
  <2>1. <<calls[top].here, there>> \in lockHistory
    BY <1>5, SuccessorIs
  <2>. QED  BY <1>2, <2>1 DEF Descends
<1>7. j = top \/ height[there] > height[calls[top].here]
  BY <1>2, <1>3, <1>4 DEF SearchInv
<1>8. height[there] \in Nat /\ height[calls[top].here] \in Nat
  BY <1>1, <1>2, <1>3, <1>4
<1>. HIDE DEF there, top
<1>9. j = top => there = calls[top].here
  BY DEF there
<1>. QED  BY <1>6, <1>7, <1>8, <1>9

LEMMA ExactIs ==
    ASSUME IInv
    PROVE  SearchExact
<1>1. crashed = "DEADLOCK_DETECTED" => HasCycle(lockHistory, Ids)
  BY ReportedCycle DEF IInv, IdleInv
<1>2. HasCycle(lockHistory, Ids) => crashed = "DEADLOCK_DETECTED" \/ asks # None
  BY DEF IInv, OrderInv, Searched
<1>. QED  BY <1>1, <1>2 DEF SearchExact

\* A lock the report has come to, and goes on from, was called by another.
LEMMA CalledLater ==
    ASSUME Searching, NEW there, now \notin {-1, there}, IsNext(there)
    PROVE  \E k \in 2 .. Len(calls) : calls[k].here = now
<1>1. TypeOK /\ SearchInv /\ asks # None
  BY DEF Searching
<1>2. PICK j, k \in DOMAIN calls :
           j <= k /\ IsNext(calls[j].here) /\ calls[k].here = now
  BY <1>1 DEF SearchInv, NowInv
<1>3. /\ calls[j].here \in Ids /\ there \in Ids /\ Ids \subseteq Nat
      /\ DOMAIN calls = 1 .. Len(calls) /\ Len(calls) \in Nat
  BY <1>1, <1>2, SearchTypes, RestProps
<1>4. calls[j].here = there
  <2>1. there <= calls[j].here /\ calls[j].here <= there
    BY <1>2 DEF IsNext
  <2>2. there \in Int /\ calls[j].here \in Int
    BY <1>3
  <2>. QED  BY <2>1, <2>2
<1>5. k \in 2 .. Len(calls)
  <2>1. j # k
    BY <1>2, <1>4
  <2>. QED  BY <1>2, <1>3, <2>1
<1>. QED  BY <1>2, <1>5

LEMMA PrintsIs ==
    ASSUME IInv
    PROVE  PrintsOrders
<1>. SUFFICES ASSUME NEW there \in Ids, now \notin {-1, there}, IsNext(there)
              PROVE  <<parent[now], now>> \in lockHistory
  BY DEF PrintsOrders
<1>1. Searching
  BY DEF IInv, IdleInv, Searching
<1>2. PICK k \in 2 .. Len(calls) : calls[k].here = now
  BY <1>1, CalledLater
<1>3. /\ parent[now] = calls[k - 1].here
      /\ now \in Successors(calls[k - 1].here)
  BY <1>2 DEF IInv, SearchInv, CallsInv
<1>. QED  BY <1>1, <1>3, SuccessorIs DEF Searching

\* Among the threads of a deadlock, those that want a lowest lock are one themselves:
\* who keeps them from it holds it below the lock that it wants itself.
LEMMA ReportsIs ==
    ASSUME IInv
    PROVE  ReportsDeadlock
<1>. SUFFICES ASSUME NEW T \in SUBSET Threads, crashed = "no", Deadlocked(T)
              PROVE  \E U \in SUBSET T :
                         /\ Deadlocked(U)
                         /\ Cardinality({Name[want[t].lock] : t \in U}) = 1
  BY DEF ReportsDeadlock
<1>. DEFINE wanted(t) == Last(stack[t])
<1>1. TypeOK /\ NamesInv /\ Ids \subseteq Nat /\ lockHistory \subseteq Ids \X Ids
  BY DEF IInv, TypeOK, Ids
<1>2. PICK height : (\A n \in Nat : height[n] \in Nat) /\ StacksDescend(height)
  <2>1. ~HasCycle(Searched, Ids) /\ Searched \subseteq Ids \X Ids
    BY <1>1 DEF IInv, OrderInv, Searched
  <2>2. PICK height \in [Nat -> Nat] : Descends(height, Searched)
    BY <1>1, <2>1, HasCycleIs
  <2>. QED  BY <2>2 DEF IInv, OrderInv
<1>3. ASSUME NEW t \in T
      PROVE  /\ t \in Threads /\ want[t] # None
             /\ Len(stack[t]) = Len(held[t]) + 1
             /\ wanted(t) = stack[t][Len(stack[t])] /\ Len(stack[t]) \in DOMAIN stack[t]
             /\ wanted(t) \in Ids /\ wanted(t) + 1 \in DOMAIN ids
             /\ ids[wanted(t) + 1] = Name[want[t].lock]
  <2>1. t \in Threads /\ want[t] # None
    BY DEF Deadlocked, Blocks
  <2>2. /\ Len(stack[t]) = Len(held[t]) + 1
        /\ ids[wanted(t) + 1] = Name[want[t].lock]
    BY <1>1, <2>1 DEF NamesInv, NamesOf
  <2>3. Len(stack[t]) > 0 /\ Len(stack[t]) \in Nat
    BY <1>1, <2>1, <2>2, StackTypes
  <2>. QED  BY <1>1, <2>1, <2>2, <2>3, StackTypes
<1>4. PICK t0 \in T : \A t \in T : height[wanted(t0)] <= height[wanted(t)]
  <2>. DEFINE S == {height[wanted(t)] : t \in T}
  <2>1. S \subseteq Nat /\ S # {}
    <3>1. ASSUME NEW t \in T PROVE height[wanted(t)] \in Nat
      <4>1. wanted(t) \in Nat
        BY <1>1, <1>3
      <4>. QED  BY <1>2, <4>1
    <3>2. T # {}
      BY DEF Deadlocked
    <3>. QED  BY <3>1, <3>2
  <2>2. PICK x \in S : \A y \in S : x <= y
    <3>. HIDE DEF S
    <3>. QED  BY <2>1, NatMin
  <2>. QED  BY <2>2
<1>. DEFINE U == {t \in T : wanted(t) = wanted(t0)}
<1>5. ASSUME NEW t \in U PROVE \E u \in U : Blocks(u, t)
  <2>1. t \in T /\ wanted(t) = wanted(t0)
    OBVIOUS
  <2>2. PICK u \in T : Blocks(u, t)
    BY <2>1 DEF Deadlocked
  <2>3. PICK i \in DOMAIN held[u] : held[u][i].lock = want[t].lock
    BY <2>2 DEF Blocks, Has
  <2>4. i \in DOMAIN stack[u] /\ i < Len(stack[u])
    BY <1>1, <1>3, StackTypes
  <2>5. ids[stack[u][i] + 1] = ids[wanted(t) + 1]
    BY <1>1, <1>3, <2>1, <2>3, <2>4 DEF NamesInv, NamesOf
  <2>6. stack[u][i] = wanted(t)
    <3>1. stack[u][i] \in Ids /\ stack[u][i] + 1 \in DOMAIN ids
      BY <1>1, <1>3, <2>4, StackTypes
    <3>2. stack[u][i] + 1 = wanted(t) + 1
      BY <1>3, <2>1, <2>5, <3>1 DEF IInv, IdsInv
    <3>3. stack[u][i] \in Nat /\ wanted(t) \in Nat
      BY <1>1, <1>3, <3>1
    <3>. QED  BY <3>2, <3>3
  <2>7. stack[u][i] = wanted(u) \/ height[stack[u][i]] > height[wanted(u)]
    BY <1>2, <1>3, <2>4 DEF StacksDescend
  <2>8. ~(height[wanted(t0)] > height[wanted(u)])
    <3>1. height[wanted(t0)] <= height[wanted(u)]
      BY <1>4
    <3>2. height[wanted(t0)] \in Nat /\ height[wanted(u)] \in Nat
      BY <1>1, <1>2, <1>3
    <3>. QED  BY <3>1, <3>2
  <2>9. u \in U
    BY <2>1, <2>6, <2>7, <2>8
  <2>. QED  BY <2>2, <2>9
<1>6. Deadlocked(U)
  <2>1. t0 \in U
    OBVIOUS
  <2>. QED  BY <1>5, <2>1 DEF Deadlocked
<1>7. {Name[want[t].lock] : t \in U} = {Name[want[t0].lock]}
  <2>1. \A t \in U : Name[want[t].lock] = ids[wanted(t0) + 1]
    BY <1>3
  <2>. QED  BY <2>1
<1>8. Cardinality({Name[want[t].lock] : t \in U}) = 1
  BY <1>7, FS_Singleton
<1>. QED  BY <1>6, <1>8

-----------------------------------------------------------------------------
(***************************************************************************)
(* That the search ends: what is left to do shrinks with each of its       *)
(* steps.                                                                  *)
(***************************************************************************)
\* The locks CheckCycle has not come to, the orders Dfs has not followed or will
\* not, the locks Dfs has not returned from, and where the report has not been.
Untried == {n \in Ids : n >= lockId}
Unfollowed ==
    {e \in lockHistory :
        \/ discovered[e[1]] = -1
        \/ \E k \in DOMAIN calls : calls[k].here = e[1] /\ e[2] \in calls[k].next}
Unreturned == Ids \ finished
Unprinted == IF now = -1 THEN Ids \cup {-1}
             ELSE {n \in Ids : discovered[n] <= discovered[now]}

Todo == <<Untried, Unfollowed, Unreturned, Unprinted>>

Less(a, b) == a # b /\ \A i \in 1 .. 4 : a[i] \subseteq b[i]

LEMMA LessIs ==
    ASSUME Untried' \subseteq Untried, Unfollowed' \subseteq Unfollowed,
           Unreturned' \subseteq Unreturned, Unprinted' \subseteq Unprinted,
           \/ \E x \in Untried : x \notin Untried'
           \/ \E x \in Unfollowed : x \notin Unfollowed'
           \/ \E x \in Unreturned : x \notin Unreturned'
           \/ \E x \in Unprinted : x \notin Unprinted'
    PROVE  Less(Todo', Todo)
<1>1. \/ Untried' # Untried \/ Unfollowed' # Unfollowed
      \/ Unreturned' # Unreturned \/ Unprinted' # Unprinted
  OBVIOUS
<1>. QED  BY <1>1 DEF Less, Todo

\* The calls are of different locks.
LEMMA CallsDiffer ==
    ASSUME Searching, NEW j \in DOMAIN calls, NEW k \in DOMAIN calls,
           calls[j].here = calls[k].here
    PROVE  j = k
<1>. USE DEF Searching
<1>1. /\ DOMAIN calls = 1 .. Len(calls) /\ Len(calls) \in Nat
      /\ calls[j].here \in Ids /\ discovered[calls[j].here] \in Int
  BY SearchTypes
<1>2. ~(j < k) /\ ~(k < j)
  BY <1>1 DEF SearchInv, CallsInv
<1>. QED  BY <1>1, <1>2

LEMMA NextLockShrinks ==
    ASSUME Searching, Others, NextLock
    PROVE  Less(Todo', Todo)
<1>. USE DEF Searching
<1>1. /\ now = -1 /\ now' = -1 /\ calls = <<>> /\ lockId \in Ids /\ lockId' = lockId + 1
      /\ Ids' = Ids /\ lockId \in Nat /\ Ids \subseteq Nat
      /\ UNCHANGED <<lockHistory, finished>>
  BY SearchTypes DEF NextLock, Others, Ids, TypeOK
<1>2. Untried' \subseteq Untried /\ lockId \in Untried /\ lockId \notin Untried'
  <2>1. /\ \A n \in Ids : n >= lockId + 1 => n >= lockId
        /\ lockId >= lockId /\ ~(lockId >= lockId + 1)
    BY <1>1
  <2>2. Untried' = {n \in Ids : n >= lockId + 1}
    BY <1>1 DEF Untried
  <2>. QED  BY <1>1, <2>1, <2>2 DEF Untried
<1>3. Unfollowed' \subseteq Unfollowed
  <2>1. CASE discovered[lockId] # -1
    <3>1. UNCHANGED <<discovered, calls>>
      BY <2>1 DEF NextLock
    <3>. QED  BY <1>1, <3>1 DEF Unfollowed
  <2>2. CASE discovered[lockId] = -1
    <3>1. Discover(<<>>, lockId)
      BY <2>2 DEF NextLock
    <3>2. <<>> \in Seq(Frames(Ids)) /\ Len(<<>>) = 0
      OBVIOUS
    <3>3. /\ \A n \in Ids : n # lockId => discovered'[n] = discovered[n]
          /\ DOMAIN calls' = {1} /\ calls'[1].here = lockId
      <4>1. /\ \A n \in Ids : n # lockId => discovered'[n] = discovered[n]
            /\ DOMAIN calls' = 1 .. (Len(<<>>) + 1)
            /\ calls'[Len(<<>>) + 1].here = lockId
        BY <1>1, <2>2, <3>1, <3>2, DiscoverProps
      <4>. QED  BY <3>2, <4>1
    <3>4. ASSUME NEW e \in Unfollowed' PROVE e \in Unfollowed
      <4>1. e \in lockHistory /\ e[1] \in Ids
        BY <1>1, SearchTypes DEF Unfollowed
      <4>2. CASE e[1] = lockId
        BY <2>2, <4>1, <4>2 DEF Unfollowed
      <4>3. CASE e[1] # lockId
        BY <3>3, <4>1, <4>3 DEF Unfollowed
      <4>. QED  BY <4>2, <4>3
    <3>. QED  BY <3>4
  <2>. QED  BY <2>1, <2>2
<1>4. Unreturned' \subseteq Unreturned /\ Unprinted' \subseteq Unprinted
  BY <1>1 DEF Unreturned, Unprinted
<1>. QED  BY <1>2, <1>3, <1>4, LessIs

\* To go to a next lock, or past it, follows the order that leads there.
LEMMA FollowShrinks ==
    ASSUME Searching, Others, NEW there \in Ids, Visit(there) \/ Skip(there)
    PROVE  Less(Todo', Todo)
<1>. USE DEF Searching
<1>. DEFINE top == Len(calls)
            order == <<Here, there>>
<1>1. /\ now = -1 /\ now' = -1 /\ IsNext(there) /\ Ids' = Ids
      /\ UNCHANGED <<lockHistory, finished, lockId>>
  BY DEF Visit, Skip, Others, Ids
<1>2. /\ top \in Nat \ {0} /\ top \in DOMAIN calls /\ DOMAIN calls = 1 .. top
      /\ Here = calls[top].here /\ Here \in Ids
      /\ there \in calls[top].next
      /\ Rest(there) \in Seq(Frames(Ids)) /\ Len(Rest(there)) = top
      /\ DOMAIN Rest(there) = DOMAIN calls
      /\ \A k \in DOMAIN calls : /\ Rest(there)[k].here = calls[k].here
                                 /\ k # top => Rest(there)[k].next = calls[k].next
      /\ Rest(there)[top].next = calls[top].next \ {there}
  BY <1>1, RestProps, SearchTypes
<1>3. /\ discovered[Here] # -1 /\ order \in lockHistory
  <2>1. there \in Successors(Here)
    BY <1>2 DEF SearchInv, CallsInv
  <2>. QED  BY <1>2, <2>1, SuccessorIs DEF SearchInv, CallsInv
\* The other calls are as they were, and a new one is of a lock not discovered before.
<1>4. /\ discovered'[Here] = discovered[Here]
      /\ \A n \in Ids : discovered'[n] = -1 => discovered[n] = -1
      /\ \A k \in DOMAIN calls' :
             \/ /\ k \in DOMAIN calls
                /\ calls'[k].here = calls[k].here /\ calls'[k].next \subseteq calls[k].next
                /\ k = top => there \notin calls'[k].next
             \/ discovered[calls'[k].here] = -1
  <2>1. CASE Skip(there)
    <3>1. calls' = Rest(there) /\ discovered' = discovered
      BY <2>1 DEF Skip
    <3>. QED  BY <1>2, <3>1
  <2>2. CASE Visit(there)
    <3>1. discovered[there] = -1 /\ Discover(Rest(there), there)
      BY <2>2 DEF Visit
    <3>2. /\ discovered'[there] = count /\ count \in Nat
          /\ \A n \in Ids : n # there => discovered'[n] = discovered[n]
          /\ DOMAIN calls' = 1 .. (top + 1)
          /\ \A k \in DOMAIN calls : calls'[k] = Rest(there)[k]
          /\ calls'[top + 1].here = there
      BY <1>1, <1>2, <3>1, DiscoverProps
    <3>3. discovered'[Here] = discovered[Here]
      BY <1>2, <1>3, <3>1, <3>2
    <3>4. \A n \in Ids : discovered'[n] = -1 => discovered[n] = -1
      BY <3>2
    <3>5. ASSUME NEW k \in DOMAIN calls'
          PROVE  \/ /\ k \in DOMAIN calls
                    /\ calls'[k].here = calls[k].here
                    /\ calls'[k].next \subseteq calls[k].next
                    /\ k = top => there \notin calls'[k].next
                 \/ discovered[calls'[k].here] = -1
      <4>1. CASE k = top + 1
        BY <3>1, <3>2, <4>1
      <4>2. CASE k # top + 1
        <5>1. k \in DOMAIN calls
          BY <1>2, <3>2, <4>2
        <5>. QED  BY <1>2, <3>2, <5>1
      <4>. QED  BY <4>1, <4>2
    <3>. QED  BY <3>3, <3>4, <3>5
  <2>. QED  BY <2>1, <2>2
<1>. HIDE DEF top
<1>5. Unfollowed' \subseteq Unfollowed
  <2>. SUFFICES ASSUME NEW e \in Unfollowed' PROVE e \in Unfollowed
    OBVIOUS
  <2>1. e \in lockHistory /\ e[1] \in Ids
    BY <1>1, SearchTypes DEF Unfollowed
  <2>2. CASE discovered'[e[1]] = -1
    BY <1>4, <2>1, <2>2 DEF Unfollowed
  <2>3. CASE discovered'[e[1]] # -1
    <3>1. PICK k \in DOMAIN calls' : calls'[k].here = e[1] /\ e[2] \in calls'[k].next
      BY <2>3 DEF Unfollowed
    <3>. QED  BY <1>4, <2>1, <3>1 DEF Unfollowed
  <2>. QED  BY <2>2, <2>3
<1>6. order \in Unfollowed
  BY <1>2, <1>3 DEF Unfollowed
<1>7. order \notin Unfollowed'
  <2>. SUFFICES ASSUME order \in Unfollowed' PROVE FALSE
    OBVIOUS
  <2>1. PICK k \in DOMAIN calls' : calls'[k].here = Here /\ there \in calls'[k].next
    BY <1>3, <1>4 DEF Unfollowed
  <2>2. k \in DOMAIN calls /\ calls[k].here = calls[top].here /\ k # top
    BY <1>2, <1>3, <1>4, <2>1
  <2>. QED  BY <1>2, <2>2, CallsDiffer
<1>. HIDE DEF order
<1>8. /\ Untried' \subseteq Untried /\ Unreturned' \subseteq Unreturned
      /\ Unprinted' \subseteq Unprinted
  BY <1>1 DEF Untried, Unreturned, Unprinted
<1>. QED  BY <1>5, <1>6, <1>7, <1>8, LessIs

LEMMA ReturnShrinks ==
    ASSUME Searching, Others, Return
    PROVE  Less(Todo', Todo)
<1>. USE DEF Searching
<1>1. /\ now = -1 /\ now' = -1 /\ calls # <<>> /\ Ids' = Ids
      /\ finished' = finished \cup {Here} /\ calls' = Front(calls)
      /\ UNCHANGED <<lockHistory, discovered, lockId>>
  BY DEF Return, Others, Ids
<1>2. /\ Len(calls) \in DOMAIN calls /\ Here = calls[Len(calls)].here
      /\ \A k \in DOMAIN calls' : k \in DOMAIN calls /\ calls'[k] = calls[k]
  <2>1. calls \in Seq(Frames(Ids)) /\ DOMAIN calls = 1 .. Len(calls)
    BY SearchTypes
  <2>2. /\ Len(calls) \in Nat \ {0} /\ DOMAIN Front(calls) = 1 .. (Len(calls) - 1)
        /\ \A k \in 1 .. (Len(calls) - 1) : Front(calls)[k] = calls[k]
        /\ Last(calls) = calls[Len(calls)]
    BY <1>1, <2>1, FrontProps
  <2>. QED  BY <1>1, <2>1, <2>2 DEF Here
<1>3. Here \in Ids /\ Here \notin finished
  BY <1>2, SearchTypes DEF SearchInv, CallsInv
<1>4. Unfollowed' \subseteq Unfollowed
  BY <1>1, <1>2 DEF Unfollowed
<1>5. /\ Unreturned' \subseteq Unreturned
      /\ Here \in Unreturned /\ Here \notin Unreturned'
  BY <1>1, <1>3 DEF Unreturned
<1>6. Untried' \subseteq Untried /\ Unprinted' \subseteq Unprinted
  BY <1>1 DEF Untried, Unprinted
<1>. QED  BY <1>4, <1>5, <1>6, LessIs

LEMMA FindCycleShrinks ==
    ASSUME Searching, Others, NEW there \in Ids, FindCycle(there)
    PROVE  Less(Todo', Todo)
<1>. USE DEF Searching
<1>1. /\ now = -1 /\ now' = Here /\ IsNext(there) /\ Ids' = Ids
      /\ UNCHANGED <<lockHistory, discovered, finished, calls, lockId>>
  BY DEF FindCycle, Others, Ids
<1>2. now' # -1 /\ Ids \subseteq Nat
  BY <1>1, RestProps, SearchTypes
<1>3. /\ Unprinted' \subseteq Unprinted
      /\ -1 \in Unprinted /\ -1 \notin Unprinted'
  BY <1>1, <1>2 DEF Unprinted
<1>4. /\ Untried' \subseteq Untried /\ Unfollowed' \subseteq Unfollowed
      /\ Unreturned' \subseteq Unreturned
  BY <1>1 DEF Untried, Unfollowed, Unreturned
<1>. QED  BY <1>3, <1>4, LessIs

\* The report walks to a lock that was discovered earlier.
LEMMA PrintOrderShrinks ==
    ASSUME Searching, Others, NEW there \in Ids, PrintOrder(there)
    PROVE  Less(Todo', Todo)
<1>. USE DEF Searching
<1>1. /\ now \notin {-1, there} /\ IsNext(there) /\ now' = parent[now] /\ Ids' = Ids
      /\ UNCHANGED <<lockHistory, discovered, finished, calls, lockId>>
  BY DEF PrintOrder, Others, Ids
<1>2. PICK k \in 2 .. Len(calls) : calls[k].here = now
  BY <1>1, CalledLater
<1>3. /\ k \in DOMAIN calls /\ k - 1 \in DOMAIN calls /\ k - 1 < k
      /\ now \in Ids /\ calls[k - 1].here \in Ids
  <2>1. /\ DOMAIN calls = 1 .. Len(calls) /\ Len(calls) \in Nat
        /\ \A i \in DOMAIN calls : calls[i].here \in Ids
    BY SearchTypes
  <2>2. k \in DOMAIN calls /\ k - 1 \in DOMAIN calls /\ k - 1 < k
    BY <2>1
  <2>. QED  BY <1>2, <2>1, <2>2
<1>4. /\ now' = calls[k - 1].here /\ now' \in Ids
      /\ discovered[now'] < discovered[now]
  BY <1>1, <1>2, <1>3 DEF SearchInv, CallsInv
<1>5. Ids \subseteq Nat /\ \A n \in Ids : discovered[n] \in Int
  BY SearchTypes
<1>6. now' # -1
  BY <1>4, <1>5
<1>7. Unprinted' = {n \in Ids : discovered[n] <= discovered[now']}
  BY <1>1, <1>6 DEF Unprinted
<1>8. Unprinted = {n \in Ids : discovered[n] <= discovered[now]}
  BY <1>1 DEF Unprinted
<1>9. /\ Unprinted' \subseteq Unprinted
      /\ now \in Unprinted /\ now \notin Unprinted'
  <2>1. discovered[now] \in Int /\ discovered[now'] \in Int
    BY <1>3, <1>4, <1>5
  <2>2. discovered[now] <= discovered[now] /\ ~(discovered[now] <= discovered[now'])
    BY <1>4, <2>1
  <2>3. \A n \in Ids : discovered[n] <= discovered[now'] => discovered[n] <= discovered[now]
    BY <1>4, <1>5, <2>1
  <2>. QED  BY <1>3, <1>7, <1>8, <2>2, <2>3
<1>10. /\ Untried' \subseteq Untried /\ Unfollowed' \subseteq Unfollowed
       /\ Unreturned' \subseteq Unreturned
  BY <1>1 DEF Untried, Unfollowed, Unreturned
<1>. QED  BY <1>9, <1>10, LessIs

LEMMA CheckCycleShrinks ==
    ASSUME IInv, CheckCycle
    PROVE  Less(Todo', Todo)
<1>1. Searching /\ Others /\ Search /\ DOMAIN discovered = Ids
  BY SearchTypes DEF IInv, CheckCycle, Searching, Others
<1>. QED  BY <1>1, NextLockShrinks, FollowShrinks, ReturnShrinks, FindCycleShrinks,
             PrintOrderShrinks DEF Search

\* What the program does beside the search leaves the rest of the search alone.
LEMMA OthersKeepTodo ==
    ASSUME IInv, [Next]_vars, asks # None, asks' # None, ~CheckCycle
    PROVE  Todo' = Todo
<1>1. \/ /\ UNCHANGED <<ids, lockHistory, searchVars>>
      \/ CheckCycle \/ asks = None \/ asks' = None
  BY DEF Next, vars, Crash, PushLock_End, PushLock, Acquire, LockTimeout, PopLock, Unlock
<1>2. UNCHANGED <<ids, lockHistory, searchVars>>
  BY <1>1
<1>. QED  BY <1>2 DEF Todo, Untried, Unfollowed, Unreturned, Unprinted, Ids, searchVars

LEMMA TodoFiniteIs ==
    ASSUME IInv
    PROVE  \A i \in 1 .. 4 : IsFiniteSet(Todo[i])
<1>1. Len(ids) \in Nat /\ lockHistory \subseteq Ids \X Ids
  BY DEF IInv, TypeOK
<1>2. IsFiniteSet(Ids) /\ IsFiniteSet(Ids \cup {-1}) /\ IsFiniteSet(lockHistory)
  <2>1. IsFiniteSet(Ids)
    BY <1>1, FS_Interval DEF Ids
  <2>2. IsFiniteSet(Ids \cup {-1})
    BY <2>1, FS_AddElement
  <2>3. IsFiniteSet(lockHistory)
    BY <1>1, <2>1, FS_Product, FS_Subset
  <2>. QED  BY <2>1, <2>2, <2>3
<1>3. /\ IsFiniteSet(Untried) /\ IsFiniteSet(Unfollowed)
      /\ IsFiniteSet(Unreturned) /\ IsFiniteSet(Unprinted)
  <2>1. /\ Untried \subseteq Ids /\ Unfollowed \subseteq lockHistory
        /\ Unreturned \subseteq Ids /\ Unprinted \subseteq Ids \cup {-1}
    BY DEF Untried, Unfollowed, Unreturned, Unprinted
  <2>. QED  BY <1>2, <2>1, FS_Subset
<1>. QED  BY <1>3 DEF Todo

\* The search of CheckCycle and Dfs, and its report, end after finitely many steps,
\* for any number of locks and orders: what is left to do is finite, each step makes
\* it less, and the other threads, which go on meanwhile, do not add to it.
SearchShrinks ==
    asks # None /\ asks' # None =>
        /\ \A i \in 1 .. 4 : IsFiniteSet(Todo[i])
        /\ IF CheckCycle THEN Less(Todo', Todo) ELSE Todo' = Todo

\* A search is never stuck: Over and Printed are its ends, the others the guards of
\* NextLock and Return, and of a pass of the loop of Dfs or of the report.
SearchGoesOn ==
    asks # None =>
        \/ Over \/ Printed
        \/ now = -1 /\ calls = <<>> /\ lockId \in DOMAIN discovered
        \/ now = -1 /\ calls # <<>> /\ Last(calls).next = {}
        \/ \E there \in DOMAIN discovered : IsNext(there) /\ now # there

\* CheckCycle counts no further than there are locks.
LoopInv == asks # None => lockId <= Len(ids)

LEMMA LoopInvKept ==
    ASSUME IInv, IInv', LoopInv, [Next]_vars
    PROVE  LoopInv'
<1>. SUFFICES ASSUME asks' # None PROVE lockId' <= Len(ids')
  BY DEF LoopInv
<1>1. CASE NextLock /\ UNCHANGED <<ids, asks>>
  <2>1. lockId \in 0 .. Len(ids) - 1 /\ lockId' = lockId + 1 /\ Len(ids) \in Nat
    BY <1>1, SearchTypes DEF NextLock, IInv, Ids
  <2>. QED  BY <1>1, <2>1
<1>2. CASE UNCHANGED <<lockId, ids, asks>>
  BY <1>2 DEF LoopInv
<1>3. CASE lockId' = 0
  <2>1. ids' \in Seq(Names)
    BY DEF IInv, TypeOK, Names
  <2>2. Len(ids') \in Nat
    BY <2>1
  <2>. QED  BY <1>3, <2>2
<1>4. \/ NextLock /\ UNCHANGED <<ids, asks>>
      \/ UNCHANGED <<lockId, ids, asks>>
      \/ lockId' = 0
  <2>1. CASE CheckCycle
    BY <2>1 DEF CheckCycle, Search, Return, Visit, Skip, FindCycle, PrintOrder
  <2>2. ASSUME NEW t \in Threads, NEW l \in Locks, NEW mode \in {"read", "write"},
               PushLock(t, l, mode)
        PROVE  lockId' = 0
    BY <2>2 DEF PushLock, Begin
  <2>3. CASE PushLock_End
    BY <2>3 DEF PushLock_End
  <2>4. ASSUME NEW t \in Threads, Acquire(t) \/ LockTimeout(t) \/ PopLock(t) \/ Unlock(t)
        PROVE  UNCHANGED <<lockId, ids, asks>>
    BY <2>4 DEF Acquire, LockTimeout, PopLock, Unlock, searchVars
  <2>5. CASE Crash \/ UNCHANGED vars
    BY <2>5 DEF Crash, vars, searchVars
  <2>. QED  BY <2>1, <2>2, <2>3, <2>4, <2>5 DEF Next
<1>. QED  BY <1>1, <1>2, <1>3, <1>4

LEMMA GoesOnIs ==
    ASSUME IInv, LoopInv
    PROVE  SearchGoesOn
<1>. SUFFICES ASSUME asks # None
              PROVE  \/ Over \/ Printed
                     \/ now = -1 /\ calls = <<>> /\ lockId \in Ids
                     \/ now = -1 /\ calls # <<>> /\ Last(calls).next = {}
                     \/ \E there \in Ids : IsNext(there) /\ now # there
  BY SearchTypes DEF SearchGoesOn, IInv
<1>1. TypeOK /\ Ids \subseteq Nat /\ DOMAIN discovered = Ids
  BY SearchTypes DEF IInv
<1>2. CASE now = -1 /\ calls = <<>>
  <2>1. lockId \in Nat /\ Len(ids) \in Nat /\ lockId <= Len(ids)
    BY <1>1, SearchTypes DEF LoopInv, TypeOK
  <2>2. CASE lockId = Len(ids)
    BY <1>1, <1>2, <2>2 DEF Over, Ids
  <2>3. CASE lockId # Len(ids)
    BY <1>2, <2>1, <2>3 DEF Ids
  <2>. QED  BY <2>2, <2>3
<1>3. CASE now = -1 /\ calls # <<>> /\ Last(calls).next # {}
  <2>1. Last(calls).next \subseteq Ids
    <3>1. /\ Len(calls) \in Nat /\ DOMAIN calls = 1 .. Len(calls)
          /\ \A k \in DOMAIN calls : calls[k].next \subseteq Ids
          /\ calls \in Seq(Frames(Ids))
      BY <1>1, SearchTypes
    <3>2. Len(calls) # 0
      BY <1>3, <3>1
    <3>. QED  BY <3>1, <3>2 DEF Last
  <2>2. PICK there \in Last(calls).next : \A x \in Last(calls).next : there <= x
    BY <1>1, <1>3, <2>1, NatMin
  <2>3. IsNext(there) /\ there \in Ids /\ there # -1
    BY <1>1, <1>3, <2>1, <2>2 DEF IsNext
  <2>. QED  BY <1>3, <2>3
<1>4. CASE now # -1
  <2>1. PICK j \in DOMAIN calls : IsNext(calls[j].here)
    BY <1>4 DEF IInv, SearchInv, NowInv
  <2>2. calls[j].here \in Ids
    BY <1>1, <2>1, SearchTypes
  <2>3. calls[j].here = now => Printed
    BY <1>4, <2>1 DEF Printed
  <2>. QED  BY <2>1, <2>2, <2>3
<1>. QED  BY <1>2, <1>3, <1>4

-----------------------------------------------------------------------------
(***************************************************************************)
(* The theorems.                                                           *)
(***************************************************************************)
\* The invariant, with the types of the profiler's tables and of the search.
THEOREM ProfilerInvariant == Spec => []IInv
<1>1. Init => IInv
  BY InitIInv
<1>2. IInv /\ [Next]_vars => IInv'
  BY NextIInv
<1>. QED  BY <1>1, <1>2, PTL DEF Spec

\* A silent profiler means that no set of threads waits for itself in a cycle of
\* locks of two names, for any number of threads and locks.
THEOREM NoDeadlockUnreported == Spec => []ReportsDeadlock
<1>1. IInv => ReportsDeadlock
  BY ReportsIs
<1>. QED  BY <1>1, ProfilerInvariant, PTL

\* CheckCycle finds a cycle if and only if the recorded orders have one.
THEOREM SearchAlwaysExact == Spec => []SearchExact
<1>1. IInv => SearchExact
  BY ExactIs
<1>. QED  BY <1>1, ProfilerInvariant, PTL

\* The report of a cycle consists of recorded orders.
THEOREM AlwaysPrintsOrders == Spec => []PrintsOrders
<1>1. IInv => PrintsOrders
  BY PrintsIs
<1>. QED  BY <1>1, ProfilerInvariant, PTL

\* PopLock takes no unlock for one too many or for one out of order.
THEOREM UnlocksAlwaysMatch == Spec => []UnlocksMatch
<1>1. IInv => UnlocksMatch
  BY DEF IInv, IdleInv
<1>. QED  BY <1>1, ProfilerInvariant, PTL

\* CheckCycle is exact, what Dfs prints was recorded, and PopLock raises no alarm.
THEOREM AlwaysExact == Spec => []ProfilerExact
<1>1. SearchExact /\ PrintsOrders /\ UnlocksMatch => ProfilerExact
  BY DEF ProfilerExact
<1>. QED  BY <1>1, SearchAlwaysExact, AlwaysPrintsOrders, UnlocksAlwaysMatch, PTL

\* A search of CheckCycle takes finitely many steps: nothing it has left to do is
\* infinite, and each step leaves less of it.
THEOREM SearchAlwaysShrinks == Spec => [][SearchShrinks]_vars
<1>1. IInv /\ [Next]_vars => [SearchShrinks]_vars
  BY CheckCycleShrinks, OthersKeepTodo, TodoFiniteIs DEF SearchShrinks
<1>. QED  BY <1>1, ProfilerInvariant, PTL DEF Spec

\* A search has a step or its end before it in every state: with the theorem
\* above, it ends with Over or with a cycle that is printed, and nowhere else.
THEOREM SearchAlwaysGoesOn == Spec => []SearchGoesOn
<1>1. Init => LoopInv
  BY DEF Init, LoopInv
<1>2. IInv /\ IInv' /\ LoopInv /\ [Next]_vars => LoopInv'
  BY LoopInvKept
<1>3. IInv /\ LoopInv => SearchGoesOn
  BY GoesOnIs
<1>. QED  BY <1>1, <1>2, <1>3, ProfilerInvariant, PTL DEF Spec
=============================================================================

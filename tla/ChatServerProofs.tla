-------------------------- MODULE ChatServerProofs --------------------------
(***************************************************************************)
(* Proofs about ChatServer, for any number of sessions, workers, database  *)
(* connections (no fewer than workers) and rounds.                         *)
(***************************************************************************)
EXTENDS ChatServer, FiniteSetTheorems, SequenceTheorems, TLAPS

\* A handler has a connection from its Pop to its Push.
Held == \A s \in Sessions : conn[s] # None <=> pc[s] \in ConnLabels

\* No connection is lost: it is in the pool or a handler has it.
Kept == \A c \in Connections : c \in pool \/ \E s \in Sessions : conn[s] = c

PoolInv ==
    /\ Held
    /\ Kept
    /\ ConnectionPrivate
    /\ Cardinality(Busy) <= NumWorkers
    /\ crashed # "no connection"

\* Handlers that have drawn an id and not inserted a row.
LoginLabels == {"login.send", "login.pop", "login.insert"}
LoggingIn == {s \in Sessions : pc[s] \in LoginLabels}

\* Every id that was drawn has a row, or a handler that will insert one.
RowsCounted == Len(rows) + Cardinality(LoggingIn) = idGenerator - 1

\* Ids are drawn once.
OwnId ==
    \A s \in Sessions :
        /\ player[s] < idGenerator
        /\ \A u \in Sessions \ {s} : player[u] = player[s] => player[s] = 0

\* A chat is counted only in a row.
CountedInRow == \A s \in Sessions : player[s] \notin DOMAIN rows => said[s] = 0

\* Between SELECT and UPDATE nobody else changes the row.
ReadIsCurrent ==
    \A s \in Sessions : pc[s] = "chat.update" =>
        player[s] \in DOMAIN rows /\ count[s] = rows[player[s]]

RowInv == RowsCounted /\ OwnId /\ CountsChats /\ CountedInRow /\ ReadIsCurrent

(***************************************************************************)
(* The inductive invariant: the types, where the connections are, and what *)
(* the rows say.                                                           *)
(***************************************************************************)
IInv == TypeOK /\ PoolInv /\ RowInv

-----------------------------------------------------------------------------
LEMMA InitIInv == Init => IInv
<1>. SUFFICES ASSUME Init PROVE IInv
  OBVIOUS
<1>. USE DEF Init
<1>1. TypeOK
  BY DEF TypeOK, Labels
<1>2. Busy = {} /\ LoggingIn = {}
  BY DEF Busy, LoggingIn, LoginLabels
<1>3. PoolInv
  BY <1>2, ChatAssumption, FS_EmptySet
  DEF PoolInv, Held, Kept, ConnectionPrivate, ConnLabels
<1>4. RowInv
  BY <1>2, FS_EmptySet
  DEF RowInv, RowsCounted, OwnId, CountsChats, CountedInRow, ReadIsCurrent
<1>. QED  BY <1>1, <1>3, <1>4 DEF IInv

-----------------------------------------------------------------------------
(***************************************************************************)
(* Types.                                                                  *)
(***************************************************************************)
LEMMA Numbers ==
    ASSUME TypeOK
    PROVE  /\ rounds \in Nat /\ idGenerator \in Nat \ {0}
           /\ rows \in Seq(Nat)
           /\ player \in [Sessions -> Nat]
           /\ count \in [Sessions -> Nat]
           /\ said \in [Sessions -> Nat]
BY DEF TypeOK

LEMMA RowTypes ==
    ASSUME TypeOK
    PROVE  /\ Len(rows) \in Nat /\ DOMAIN rows = 1 .. Len(rows)
           /\ \A i \in DOMAIN rows : rows[i] \in Nat
BY Numbers

LEMMA PostToServer ==
    ASSUME TypeOK, NEW s \in Sessions, NEW p \in {"C_LOGIN", "C_CHAT"}
    PROVE  Post(toServer, s, p) \in [Sessions -> Seq({"C_LOGIN", "C_CHAT"})]
<1>1. toServer[s] \in Seq({"C_LOGIN", "C_CHAT"})
  BY DEF TypeOK
<1>2. Append(toServer[s], p) \in Seq({"C_LOGIN", "C_CHAT"})
  BY <1>1
<1>. QED  BY <1>2 DEF Post, TypeOK

LEMMA PostToClient ==
    ASSUME TypeOK, NEW s \in Sessions, NEW p \in Packets
    PROVE  Post(toClient, s, p) \in [Sessions -> Seq(Packets)]
<1>1. toClient[s] \in Seq(Packets)
  BY DEF TypeOK
<1>2. Append(toClient[s], p) \in Seq(Packets)
  BY <1>1
<1>. QED  BY <1>2 DEF Post, TypeOK

LEMMA HandlePacketTypes ==
    ASSUME TypeOK, NEW s \in Sessions, NEW kind, HandlePacket(s, kind)
    PROVE  toServer' \in [Sessions -> Seq({"C_LOGIN", "C_CHAT"})]
<1>1. toServer[s] \in Seq({"C_LOGIN", "C_CHAT"}) /\ toServer[s] # <<>>
  BY DEF TypeOK, HandlePacket
<1>2. Tail(toServer[s]) \in Seq({"C_LOGIN", "C_CHAT"})
  BY <1>1
<1>. QED  BY <1>2 DEF HandlePacket, TypeOK

LEMMA ClientTypes ==
    ASSUME TypeOK, NEW s \in Sessions, Client(s)
    PROVE  TypeOK'
<1>1. CASE OnConnected_Add(s)
  BY <1>1 DEF OnConnected_Add, TypeOK, netVars, castVars, playerVars, dbVars
<1>2. CASE OnConnected_Send(s)
  BY <1>2, PostToServer
  DEF OnConnected_Send, TypeOK, castVars, playerVars, dbVars
<1>3. CASE MainSend(s)
  BY <1>3, PostToServer DEF MainSend, TypeOK, castVars, playerVars, dbVars
<1>. QED  BY <1>1, <1>2, <1>3 DEF Client

LEMMA PopTypes ==
    ASSUME TypeOK, NEW s \in Sessions, NEW l \in Labels, Pop(s, l)
    PROVE  TypeOK'
<1>1. pool' \subseteq Connections /\ conn' \in [Sessions -> Connections \cup {None}]
  BY DEF Pop, TypeOK
<1>2. pc' \in [Sessions -> Labels]
  BY DEF Pop, Go, TypeOK
<1>3. crashed' \in {"no", "no player", "no connection", "insert refused"}
  BY DEF Pop, TypeOK
<1>. QED
  BY <1>1, <1>2, <1>3
  DEF Pop, TypeOK, clientVars, netVars, castVars, playerVars

LEMMA ContinueTypes ==
    ASSUME TypeOK, Held, ReadIsCurrent, NEW s \in Sessions, Continue(s)
    PROVE  TypeOK'
<1>. USE DEF Go, Labels
<1>1. CASE LoginSend(s)
  <2>1. [kind |-> "S_LOGIN", id |-> player[s], n |-> 0] \in Packets
    BY DEF TypeOK, Packets
  <2>2. toClient' \in [Sessions -> Seq(Packets)]
    BY <1>1, <2>1, PostToClient DEF LoginSend, TypeOK
  <2>. QED
    BY <1>1, <2>2 DEF LoginSend, TypeOK, clientVars, castVars, playerVars, dbVars
<1>2. CASE LoginPop(s)
  BY <1>2, PopTypes DEF LoginPop
<1>3. CASE LoginInsert(s)
  <2>1. rows' \in Seq(Nat)
    BY <1>3, Numbers DEF LoginInsert
  <2>. QED
    BY <1>3, <2>1
    DEF LoginInsert, TypeOK, clientVars, netVars, castVars, playerVars
<1>4. CASE Push(s)
  <2>1. pc[s] = "push" /\ conn[s] \in Connections
    BY <1>4 DEF Push, Held, ConnLabels, TypeOK
  <2>2. pool' \subseteq Connections
    BY <1>4, <2>1 DEF Push, TypeOK
  <2>3. conn' \in [Sessions -> Connections \cup {None}]
    BY <1>4 DEF Push, TypeOK
  <2>4. count' \in [Sessions -> Nat]
    BY <1>4, Numbers DEF Push
  <2>5. pc' \in [Sessions -> Labels]
    BY <1>4 DEF Push, TypeOK
  <2>. QED
    BY <1>4, <2>2, <2>3, <2>4, <2>5
    DEF Push, TypeOK, clientVars, netVars, castVars, playerVars
<1>5. CASE ChatLock(s)
  BY <1>5 DEF ChatLock, TypeOK, clientVars, netVars, playerVars, dbVars
<1>6. CASE ChatSend(s)
  <2>1. PICK c \in todo[s] :
           /\ toClient' = Post(toClient, c,
                               [kind |-> "S_CHAT", id |-> player[s], n |-> said[s] + 1])
           /\ todo' = [todo EXCEPT ![s] = @ \ {c}]
    BY <1>6 DEF ChatSend
  <2>2. c \in Sessions
    BY DEF TypeOK
  <2>3. [kind |-> "S_CHAT", id |-> player[s], n |-> said[s] + 1] \in Packets
    BY Numbers DEF Packets
  <2>4. toClient' \in [Sessions -> Seq(Packets)]
    BY <2>1, <2>2, <2>3, PostToClient
  <2>5. todo' \in [Sessions -> SUBSET Sessions]
    BY <2>1 DEF TypeOK
  <2>. QED
    BY <1>6, <2>4, <2>5 DEF ChatSend, TypeOK, clientVars, playerVars, dbVars
<1>7. CASE ChatUnlock(s)
  BY <1>7 DEF ChatUnlock, TypeOK, clientVars, netVars, playerVars, dbVars
<1>8. CASE ChatPop(s)
  BY <1>8, PopTypes DEF ChatPop
<1>9. CASE ChatSelect(s)
  <2>1. player[s] \in DOMAIN rows => rows[player[s]] \in Nat
    BY RowTypes
  <2>2. count' \in [Sessions -> Nat]
    BY <1>9, <2>1, Numbers DEF ChatSelect
  <2>3. pc' \in [Sessions -> Labels]
    <3>1. \/ pc' = [pc EXCEPT ![s] = "chat.update"]
          \/ pc' = [pc EXCEPT ![s] = "chat.insert"]
      BY <1>9 DEF ChatSelect
    <3>2. pc \in [Sessions -> Labels]
      BY DEF TypeOK
    <3>. QED  BY <3>1, <3>2
  <2>. QED
    BY <1>9, <2>2, <2>3
    DEF ChatSelect, TypeOK, clientVars, netVars, castVars, playerVars
<1>10. CASE ChatUpdate(s)
  <2>1. count[s] + 1 \in Nat /\ said[s] + 1 \in Nat
    BY Numbers
  <2>2. rows' \in Seq(Nat)
    BY <1>10, <2>1, RowTypes, Numbers, ExceptSeq DEF ChatUpdate, ReadIsCurrent
  <2>3. said' \in [Sessions -> Nat]
    BY <1>10, <2>1, Numbers DEF ChatUpdate
  <2>. QED
    BY <1>10, <2>2, <2>3
    DEF ChatUpdate, TypeOK, clientVars, netVars, castVars, playerVars
<1>11. CASE ChatInsert(s)
  BY <1>11
  DEF ChatInsert, TypeOK, clientVars, netVars, castVars, playerVars, dbVars
<1>. QED
  BY <1>1, <1>2, <1>3, <1>4, <1>5, <1>6, <1>7, <1>8, <1>9, <1>10, <1>11
  DEF Continue

LEMMA NextTypes ==
    ASSUME TypeOK, Held, ReadIsCurrent, [Next]_vars
    PROVE  TypeOK'
<1>1. ASSUME NEW s \in Sessions, Join(s) PROVE TypeOK'
  BY <1>1
  DEF Join, Go, Labels, TypeOK, clientVars, netVars, playerVars, dbVars
<1>2. ASSUME NEW s \in Sessions, Handle_C_LOGIN(s) PROVE TypeOK'
  <2>1. /\ player' \in [Sessions -> Nat]
        /\ idGenerator' \in Nat \ {0}
        /\ said' \in [Sessions -> Nat]
    BY <1>2, Numbers DEF Handle_C_LOGIN
  <2>2. toServer' \in [Sessions -> Seq({"C_LOGIN", "C_CHAT"})]
    BY <1>2, HandlePacketTypes DEF Handle_C_LOGIN
  <2>. QED
    BY <1>2, <2>1, <2>2
    DEF Handle_C_LOGIN, Go, Labels, TypeOK, clientVars, castVars, dbVars
<1>3. ASSUME NEW s \in Sessions, Handle_C_CHAT(s) PROVE TypeOK'
  BY <1>3, HandlePacketTypes
  DEF Handle_C_CHAT, Go, Labels, TypeOK, clientVars, castVars, playerVars, dbVars
<1>4. ASSUME NEW s \in Sessions, Leave(s) PROVE TypeOK'
  BY <1>4 DEF Leave, TypeOK, clientVars, netVars, playerVars, dbVars
<1>5. CASE Main
  <2>1. rounds' \in Nat /\ unsent' \subseteq Sessions
    BY <1>5, Numbers DEF Main
  <2>. QED
    BY <1>5, <2>1 DEF Main, TypeOK, netVars, castVars, playerVars, dbVars
<1>6. CASE UNCHANGED vars
  BY <1>6
  DEF vars, TypeOK, clientVars, netVars, castVars, playerVars, dbVars
<1>. QED
  BY <1>1, <1>2, <1>3, <1>4, <1>5, <1>6, ClientTypes, ContinueTypes
  DEF Next, Running, Rest, Server

-----------------------------------------------------------------------------
(***************************************************************************)
(* Connections.                                                            *)
(***************************************************************************)
LEMMA BusyFinite ==
    /\ IsFiniteSet(Busy)
    /\ Cardinality(Busy) \in Nat
BY ChatAssumption, FS_Subset, FS_CardinalityType DEF Busy

\* A handler that is about to Pop finds a connection: the others have one each
\* at most, and there are fewer of them than workers.
LEMMA PopSucceeds ==
    ASSUME TypeOK, PoolInv, NEW s \in Sessions, pc[s] \in {"login.pop", "chat.pop"}
    PROVE  pool # {}
<1>. SUFFICES ASSUME pool = {} PROVE FALSE
  OBVIOUS
<1>. DEFINE Holders == {u \in Sessions : conn[u] # None}
            f == [u \in Holders |-> conn[u]]
<1>1. Holders \subseteq Busy \ {s} /\ s \in Busy
  BY DEF PoolInv, Held, ConnLabels, Busy
<1>2. IsFiniteSet(Busy \ {s}) /\ Cardinality(Busy \ {s}) = Cardinality(Busy) - 1
  BY <1>1, BusyFinite, FS_RemoveElement
<1>3. /\ IsFiniteSet(Holders)
      /\ Cardinality(Holders) <= Cardinality(Busy \ {s})
  BY <1>1, <1>2, FS_Subset
<1>4. f \in Surjection(Holders, Connections)
  <2>1. f \in [Holders -> Connections]
    BY DEF TypeOK
  <2>2. ASSUME NEW c \in Connections PROVE \E u \in Holders : f[u] = c
    BY ChatAssumption DEF PoolInv, Kept
  <2>. QED  BY <2>1, <2>2 DEF Surjection
<1>5. Cardinality(Connections) <= Cardinality(Holders)
  BY <1>3, <1>4, FS_Surjection
<1>6. /\ Cardinality(Busy) <= NumWorkers /\ NumWorkers <= Cardinality(Connections)
      /\ NumWorkers \in Nat
      /\ Cardinality(Connections) \in Nat
      /\ Cardinality(Holders) \in Nat
      /\ Cardinality(Busy) \in Nat
  BY <1>3, ChatAssumption, BusyFinite, FS_CardinalityType DEF PoolInv
<1>. QED  BY <1>2, <1>3, <1>5, <1>6

\* A step of one handler that neither takes nor gives back a connection.
LEMMA MoveKeepsPool ==
    ASSUME TypeOK, PoolInv, NEW s \in Sessions, NEW l \in Labels,
           pc' = [pc EXCEPT ![s] = l],
           l \in ConnLabels <=> pc[s] \in ConnLabels,
           l \in {"new", "idle"} <=> pc[s] \in {"new", "idle"},
           UNCHANGED <<pool, conn>>, crashed' # "no connection"
    PROVE  PoolInv'
<1>1. Busy' = Busy
  BY DEF Busy, TypeOK
<1>2. Held'
  BY DEF PoolInv, Held, TypeOK
<1>3. Kept' /\ ConnectionPrivate'
  BY DEF PoolInv, Kept, ConnectionPrivate
<1>. QED  BY <1>1, <1>2, <1>3 DEF PoolInv

LEMMA OneMoreBusy ==
    ASSUME NEW s \in Sessions, Cardinality(Busy) < NumWorkers,
           s \notin Busy, Busy' \subseteq Busy \cup {s}
    PROVE  Cardinality(Busy') <= NumWorkers
<1>. DEFINE more == Busy \cup {s}
<1>1. IsFiniteSet(more) /\ Cardinality(more) = Cardinality(Busy) + 1
  BY BusyFinite, FS_AddElement
<1>2. Cardinality(Busy') <= Cardinality(more) /\ Cardinality(Busy') \in Nat
  BY <1>1, FS_Subset, FS_CardinalityType
<1>3. NumWorkers \in Nat
  BY ChatAssumption
<1>. QED  BY <1>1, <1>2, <1>3, BusyFinite

\* A worker begins to handle a packet.
LEMMA BeginKeepsPool ==
    ASSUME TypeOK, PoolInv, NEW s \in Sessions, NEW l \in Labels,
           pc[s] = "idle", l \notin ConnLabels,
           Cardinality(Busy) < NumWorkers,
           pc' = [pc EXCEPT ![s] = l],
           UNCHANGED <<pool, conn>>, crashed' # "no connection"
    PROVE  PoolInv'
<1>1. Cardinality(Busy') <= NumWorkers
  <2>1. Busy' \subseteq Busy \cup {s} /\ s \notin Busy
    BY DEF Busy, TypeOK
  <2>. QED  BY <2>1, OneMoreBusy
<1>2. Held'
  BY DEF PoolInv, Held, TypeOK, ConnLabels
<1>3. Kept' /\ ConnectionPrivate'
  BY DEF PoolInv, Kept, ConnectionPrivate
<1>. QED  BY <1>1, <1>2, <1>3 DEF PoolInv

LEMMA PopKeepsPool ==
    ASSUME TypeOK, PoolInv, NEW s \in Sessions, NEW l \in ConnLabels \ {"idle"},
           pc[s] \in {"login.pop", "chat.pop"}, Pop(s, l)
    PROVE  PoolInv'
<1>1. PICK c \in pool : conn' = [conn EXCEPT ![s] = c] /\ pool' = pool \ {c}
  BY PopSucceeds DEF Pop
<1>2. pc' = [pc EXCEPT ![s] = l] /\ UNCHANGED crashed
  BY PopSucceeds DEF Pop, Go
<1>3. c \in Connections /\ c # None /\ conn[s] = None
  BY ChatAssumption DEF TypeOK, PoolInv, Held, ConnLabels
<1>4. Busy' = Busy
  BY <1>2 DEF Busy, TypeOK, ConnLabels
<1>5. Held'
  BY <1>1, <1>2, <1>3 DEF PoolInv, Held, TypeOK
<1>6. Kept'
  <2>. SUFFICES ASSUME NEW d \in Connections
                PROVE  d \in pool' \/ \E u \in Sessions : conn'[u] = d
    BY DEF Kept
  <2>1. CASE d = c
    BY <1>1, <2>1 DEF TypeOK
  <2>2. CASE d # c /\ d \in pool
    BY <1>1, <2>2
  <2>3. CASE d \notin pool
    <3>1. PICK u \in Sessions : conn[u] = d
      BY <2>3 DEF PoolInv, Kept
    <3>2. u # s
      BY <1>3, <3>1, ChatAssumption
    <3>. QED  BY <1>1, <3>1, <3>2 DEF TypeOK
  <2>. QED  BY <2>1, <2>2, <2>3
<1>7. ConnectionPrivate'
  BY <1>1, <1>3 DEF PoolInv, ConnectionPrivate, TypeOK
<1>. QED  BY <1>2, <1>4, <1>5, <1>6, <1>7 DEF PoolInv

LEMMA PushKeepsPool ==
    ASSUME TypeOK, PoolInv, NEW s \in Sessions, Push(s)
    PROVE  PoolInv'
<1>1. /\ pc[s] = "push" /\ pc' = [pc EXCEPT ![s] = "idle"]
      /\ pool' = pool \cup {conn[s]} /\ conn' = [conn EXCEPT ![s] = None]
      /\ UNCHANGED crashed
  BY DEF Push, Go
<1>2. conn[s] # None
  BY <1>1 DEF PoolInv, Held, ConnLabels
<1>3. Cardinality(Busy') <= NumWorkers
  <2>1. Busy' \subseteq Busy
    BY <1>1 DEF Busy, TypeOK
  <2>2. Cardinality(Busy') <= Cardinality(Busy) /\ Cardinality(Busy') \in Nat
    BY <2>1, BusyFinite, FS_Subset, FS_CardinalityType
  <2>3. Cardinality(Busy) <= NumWorkers /\ NumWorkers \in Nat
    BY ChatAssumption DEF PoolInv
  <2>. QED  BY <2>2, <2>3, BusyFinite
<1>4. Held'
  BY <1>1 DEF PoolInv, Held, TypeOK, ConnLabels
<1>5. Kept'
  <2>. SUFFICES ASSUME NEW d \in Connections, d \notin pool'
                PROVE  \E u \in Sessions : conn'[u] = d
    BY DEF Kept
  <2>1. PICK u \in Sessions : conn[u] = d
    BY <1>1 DEF PoolInv, Kept
  <2>2. u # s
    BY <1>1, <2>1
  <2>. QED  BY <1>1, <2>1, <2>2 DEF TypeOK
<1>6. ConnectionPrivate'
  BY <1>1, <1>2 DEF PoolInv, ConnectionPrivate, TypeOK
<1>. QED  BY <1>1, <1>3, <1>4, <1>5, <1>6 DEF PoolInv

LEMMA QuietKeepsPool ==
    ASSUME PoolInv, UNCHANGED <<pc, pool, conn>>, crashed' # "no connection"
    PROVE  PoolInv'
<1>1. Busy' = Busy
  BY DEF Busy
<1>. QED
  BY <1>1 DEF PoolInv, Held, Kept, ConnectionPrivate

LEMMA ContinueKeepsPool ==
    ASSUME TypeOK, PoolInv, NEW s \in Sessions, Continue(s)
    PROVE  PoolInv'
<1>0. crashed # "no connection"
  BY DEF PoolInv
<1>1. CASE LoginSend(s)
  BY <1>0, <1>1, MoveKeepsPool DEF LoginSend, Go, Labels, ConnLabels, dbVars
<1>2. CASE LoginPop(s)
  BY <1>2, PopKeepsPool DEF LoginPop, ConnLabels
<1>3. CASE LoginInsert(s)
  BY <1>0, <1>3, MoveKeepsPool DEF LoginInsert, Go, Labels, ConnLabels
<1>4. CASE Push(s)
  BY <1>4, PushKeepsPool
<1>5. CASE ChatLock(s)
  BY <1>0, <1>5, MoveKeepsPool DEF ChatLock, Go, Labels, ConnLabels, dbVars
<1>6. CASE ChatSend(s)
  BY <1>0, <1>6, QuietKeepsPool DEF ChatSend, dbVars
<1>7. CASE ChatUnlock(s)
  BY <1>0, <1>7, MoveKeepsPool DEF ChatUnlock, Go, Labels, ConnLabels, dbVars
<1>8. CASE ChatPop(s)
  BY <1>8, PopKeepsPool DEF ChatPop, ConnLabels
<1>9. CASE ChatSelect(s)
  BY <1>0, <1>9, MoveKeepsPool DEF ChatSelect, Go, Labels, ConnLabels
<1>10. CASE ChatUpdate(s)
  BY <1>0, <1>10, MoveKeepsPool DEF ChatUpdate, Go, Labels, ConnLabels
<1>11. CASE ChatInsert(s)
  BY <1>11, QuietKeepsPool DEF ChatInsert, dbVars
<1>. QED
  BY <1>1, <1>2, <1>3, <1>4, <1>5, <1>6, <1>7, <1>8, <1>9, <1>10, <1>11
  DEF Continue

LEMMA NextKeepsPool ==
    ASSUME TypeOK, PoolInv, [Next]_vars
    PROVE  PoolInv'
<1>0. crashed # "no connection"
  BY DEF PoolInv
<1>1. ASSUME NEW s \in Sessions, Join(s) PROVE PoolInv'
  <2>1. pc' = [pc EXCEPT ![s] = "idle"] /\ pc[s] = "new"
    BY <1>1 DEF Join, Go
  <2>. QED
    BY <1>0, <1>1, <2>1, MoveKeepsPool DEF Join, Labels, ConnLabels, dbVars
<1>2. ASSUME NEW s \in Sessions, Handle_C_LOGIN(s) PROVE PoolInv'
  BY <1>0, <1>2, BeginKeepsPool
  DEF Handle_C_LOGIN, HandlePacket, Go, Labels, ConnLabels, dbVars
<1>3. ASSUME NEW s \in Sessions, Handle_C_CHAT(s) PROVE PoolInv'
  <2>1. CASE player[s] = 0
    BY <1>3, <2>1, QuietKeepsPool DEF Handle_C_CHAT, dbVars
  <2>2. CASE player[s] # 0
    BY <1>0, <1>3, <2>2, BeginKeepsPool
    DEF Handle_C_CHAT, HandlePacket, Go, Labels, ConnLabels, dbVars
  <2>. QED  BY <2>1, <2>2
<1>4. ASSUME NEW s \in Sessions, Leave(s) PROVE PoolInv'
  BY <1>0, <1>4, QuietKeepsPool DEF Leave, dbVars
<1>5. ASSUME NEW s \in Sessions, Client(s) PROVE PoolInv'
  BY <1>0, <1>5, QuietKeepsPool
  DEF Client, OnConnected_Add, OnConnected_Send, MainSend, dbVars
<1>6. CASE Main \/ UNCHANGED vars
  BY <1>0, <1>6, QuietKeepsPool DEF Main, vars, dbVars
<1>. QED
  BY <1>1, <1>2, <1>3, <1>4, <1>5, <1>6, ContinueKeepsPool
  DEF Next, Running, Rest, Server

-----------------------------------------------------------------------------
(***************************************************************************)
(* Rows.                                                                   *)
(***************************************************************************)
LEMMA LoggingInFinite ==
    /\ IsFiniteSet(LoggingIn)
    /\ Cardinality(LoggingIn) \in Nat
BY ChatAssumption, FS_Subset, FS_CardinalityType DEF LoggingIn

\* A step that draws no id and touches no row.
LEMMA MoveKeepsRows ==
    ASSUME TypeOK, RowInv, NEW s \in Sessions, NEW l \in Labels \ {"chat.update"},
           pc' = [pc EXCEPT ![s] = l],
           l \in LoginLabels <=> pc[s] \in LoginLabels,
           UNCHANGED <<idGenerator, player, rows, said>>,
           \A u \in Sessions \ {s} : count'[u] = count[u]
    PROVE  RowInv'
<1>1. LoggingIn' = LoggingIn
  BY DEF LoggingIn, TypeOK
<1>2. RowsCounted' /\ OwnId' /\ CountsChats' /\ CountedInRow'
  BY <1>1 DEF RowInv, RowsCounted, OwnId, CountsChats, CountedInRow
<1>3. ReadIsCurrent'
  <2>. SUFFICES ASSUME NEW u \in Sessions, pc'[u] = "chat.update"
                PROVE  player[u] \in DOMAIN rows /\ count'[u] = rows[player[u]]
    BY DEF ReadIsCurrent
  <2>1. u # s /\ pc[u] = "chat.update"
    BY DEF TypeOK
  <2>. QED  BY <2>1 DEF RowInv, ReadIsCurrent
<1>. QED  BY <1>2, <1>3 DEF RowInv

LEMMA QuietKeepsRows ==
    ASSUME RowInv, UNCHANGED <<pc, idGenerator, player, rows, said, count>>
    PROVE  RowInv'
<1>1. LoggingIn' = LoggingIn
  BY DEF LoggingIn
<1>. QED
  BY <1>1
  DEF RowInv, RowsCounted, OwnId, CountsChats, CountedInRow, ReadIsCurrent

\* The id drawn is larger than the number of rows: the new player has none yet.
LEMMA LoginKeepsRows ==
    ASSUME TypeOK, RowInv, NEW s \in Sessions, Handle_C_LOGIN(s)
    PROVE  RowInv'
<1>1. /\ pc[s] = "idle" /\ pc' = [pc EXCEPT ![s] = "login.send"]
      /\ player' = [player EXCEPT ![s] = idGenerator]
      /\ idGenerator' = idGenerator + 1
      /\ said' = [said EXCEPT ![s] = 0]
      /\ UNCHANGED <<rows, count>>
  BY DEF Handle_C_LOGIN, HandlePacket, Go, dbVars
<1>2. Len(rows) + Cardinality(LoggingIn) = idGenerator - 1
  BY DEF RowInv, RowsCounted
<1>3. idGenerator \notin DOMAIN rows
  BY <1>2, LoggingInFinite, RowTypes, Numbers
<1>4. RowsCounted'
  <2>. DEFINE more == LoggingIn \cup {s}
  <2>1. LoggingIn' = more /\ s \notin LoggingIn
    BY <1>1 DEF LoggingIn, LoginLabels, TypeOK
  <2>2. Cardinality(LoggingIn') = Cardinality(LoggingIn) + 1
    BY <2>1, LoggingInFinite, FS_AddElement
  <2>3. /\ Len(rows) \in Nat /\ idGenerator \in Nat
        /\ Cardinality(LoggingIn) \in Nat
    BY LoggingInFinite, RowTypes, Numbers
  <2>4. Len(rows) + (Cardinality(LoggingIn) + 1) = (idGenerator + 1) - 1
    BY <1>2, <2>3
  <2>. QED  BY <1>1, <2>2, <2>4 DEF RowsCounted
<1>5. OwnId'
  BY <1>1, Numbers DEF RowInv, OwnId
<1>6. CountsChats' /\ CountedInRow'
  BY <1>1, <1>3, Numbers DEF RowInv, CountsChats, CountedInRow
<1>7. ReadIsCurrent'
  BY <1>1, Numbers DEF RowInv, ReadIsCurrent, TypeOK
<1>. QED  BY <1>4, <1>5, <1>6, <1>7 DEF RowInv

\* Whose row it is that IDENTITY gives out next: nothing of that player's was
\* counted so far.
LEMMA InsertKeepsRows ==
    ASSUME TypeOK, RowInv, NEW s \in Sessions, LoginInsert(s)
    PROVE  RowInv'
<1>1. /\ pc[s] = "login.insert" /\ pc' = [pc EXCEPT ![s] = "push"]
      /\ rows' = Append(rows, 0)
      /\ UNCHANGED <<idGenerator, player, said, count>>
  BY DEF LoginInsert, Go, playerVars
<1>2. /\ Len(rows') = Len(rows) + 1
      /\ DOMAIN rows' = DOMAIN rows \cup {Len(rows) + 1}
      /\ rows'[Len(rows) + 1] = 0
      /\ \A i \in DOMAIN rows : rows'[i] = rows[i]
  BY <1>1, Numbers, RowTypes
<1>3. Len(rows) + 1 \notin DOMAIN rows
  BY RowTypes
<1>4. RowsCounted'
  <2>1. LoggingIn' = LoggingIn \ {s} /\ s \in LoggingIn
    BY <1>1 DEF LoggingIn, LoginLabels, TypeOK
  <2>2. Cardinality(LoggingIn') = Cardinality(LoggingIn) - 1
    BY <2>1, LoggingInFinite, FS_RemoveElement
  <2>. QED
    BY <1>1, <1>2, <2>2, LoggingInFinite, RowTypes, Numbers
    DEF RowInv, RowsCounted
<1>5. OwnId'
  BY <1>1 DEF RowInv, OwnId
<1>6. CountsChats'
  <2>. SUFFICES ASSUME NEW u \in Sessions, player[u] \in DOMAIN rows'
                PROVE  rows'[player[u]] = said[u]
    BY <1>1 DEF CountsChats
  <2>1. CASE player[u] \in DOMAIN rows
    BY <1>2, <2>1 DEF RowInv, CountsChats
  <2>2. CASE player[u] = Len(rows) + 1
    BY <1>2, <1>3, <2>2 DEF RowInv, CountedInRow
  <2>. QED  BY <1>2, <2>1, <2>2
<1>7. CountedInRow'
  BY <1>1, <1>2 DEF RowInv, CountedInRow
<1>8. ReadIsCurrent'
  BY <1>1, <1>2 DEF RowInv, ReadIsCurrent, TypeOK
<1>. QED  BY <1>4, <1>5, <1>6, <1>7, <1>8 DEF RowInv

LEMMA SelectKeepsRows ==
    ASSUME TypeOK, RowInv, NEW s \in Sessions, ChatSelect(s)
    PROVE  RowInv'
<1>1. /\ pc[s] = "chat.select"
      /\ UNCHANGED <<idGenerator, player, rows, said>>
      /\ \A u \in Sessions \ {s} : count'[u] = count[u]
  BY Numbers DEF ChatSelect, playerVars
<1>2. CASE player[s] \notin DOMAIN rows
  <2>1. pc' = [pc EXCEPT ![s] = "chat.insert"]
    BY <1>2 DEF ChatSelect, Go
  <2>. QED  BY <1>1, <2>1, MoveKeepsRows DEF Labels, LoginLabels
<1>3. CASE player[s] \in DOMAIN rows
  <2>1. /\ pc' = [pc EXCEPT ![s] = "chat.update"]
        /\ count' = [count EXCEPT ![s] = rows[player[s]]]
    BY <1>3 DEF ChatSelect, Go
  <2>2. LoggingIn' = LoggingIn
    BY <1>1, <2>1 DEF LoggingIn, LoginLabels, TypeOK
  <2>3. RowsCounted' /\ OwnId' /\ CountsChats' /\ CountedInRow'
    BY <1>1, <2>2 DEF RowInv, RowsCounted, OwnId, CountsChats, CountedInRow
  <2>4. ReadIsCurrent'
    BY <1>1, <1>3, <2>1, Numbers DEF RowInv, ReadIsCurrent, TypeOK
  <2>. QED  BY <2>3, <2>4 DEF RowInv
<1>. QED  BY <1>2, <1>3

\* Ids are drawn once, so the row another handler has read is another row.
LEMMA UpdateKeepsRows ==
    ASSUME TypeOK, RowInv, NEW s \in Sessions, ChatUpdate(s)
    PROVE  RowInv'
<1>1. /\ pc[s] = "chat.update" /\ pc' = [pc EXCEPT ![s] = "push"]
      /\ rows' = [rows EXCEPT ![player[s]] = count[s] + 1]
      /\ said' = [said EXCEPT ![s] = @ + 1]
      /\ UNCHANGED <<idGenerator, player, count>>
  BY DEF ChatUpdate, Go, playerVars
<1>2. player[s] \in DOMAIN rows /\ count[s] = said[s]
  BY <1>1 DEF RowInv, ReadIsCurrent, CountsChats
<1>3. /\ Len(rows') = Len(rows) /\ DOMAIN rows' = DOMAIN rows
      /\ rows'[player[s]] = count[s] + 1
      /\ \A i \in DOMAIN rows \ {player[s]} : rows'[i] = rows[i]
  <2>1. count[s] + 1 \in Nat /\ player[s] \in 1 .. Len(rows)
    BY <1>2, Numbers, RowTypes
  <2>. QED  BY <1>1, <2>1, Numbers, RowTypes, ExceptSeq
<1>4. \A u \in Sessions \ {s} : player[u] # player[s]
  <2>1. player[s] # 0
    BY <1>2, RowTypes
  <2>. QED  BY <2>1 DEF RowInv, OwnId
<1>5. LoggingIn' = LoggingIn
  BY <1>1 DEF LoggingIn, LoginLabels, TypeOK
<1>6. RowsCounted' /\ OwnId'
  BY <1>1, <1>3, <1>5 DEF RowInv, RowsCounted, OwnId
<1>7. CountsChats'
  BY <1>1, <1>2, <1>3, <1>4, Numbers DEF RowInv, CountsChats
<1>8. CountedInRow'
  <2>1. \A u \in Sessions : player'[u] \notin DOMAIN rows' =>
            u # s /\ player[u] \notin DOMAIN rows
    BY <1>1, <1>2, <1>3
  <2>2. \A u \in Sessions \ {s} : said'[u] = said[u]
    BY <1>1, Numbers
  <2>. QED  BY <2>1, <2>2 DEF RowInv, CountedInRow
<1>9. ReadIsCurrent'
  <2>1. \A u \in Sessions : pc'[u] = "chat.update" => u # s /\ pc[u] = "chat.update"
    BY <1>1 DEF TypeOK
  <2>. QED  BY <1>1, <1>3, <1>4, <2>1 DEF RowInv, ReadIsCurrent
<1>. QED  BY <1>6, <1>7, <1>8, <1>9 DEF RowInv

LEMMA ContinueKeepsRows ==
    ASSUME TypeOK, PoolInv, RowInv, NEW s \in Sessions, Continue(s)
    PROVE  RowInv'
<1>. USE DEF Go, Labels, LoginLabels
<1>1. CASE LoginSend(s)
  BY <1>1, MoveKeepsRows DEF LoginSend, playerVars, dbVars
<1>2. CASE LoginPop(s)
  <2>1. pc' = [pc EXCEPT ![s] = "login.insert"] /\ pc[s] = "login.pop"
    BY <1>2, PopSucceeds DEF LoginPop, Pop
  <2>. QED  BY <1>2, <2>1, MoveKeepsRows DEF LoginPop, Pop, playerVars
<1>3. CASE LoginInsert(s)
  BY <1>3, InsertKeepsRows
<1>4. CASE Push(s)
  <2>1. \A u \in Sessions \ {s} : count'[u] = count[u]
    BY <1>4, Numbers DEF Push
  <2>. QED  BY <1>4, <2>1, MoveKeepsRows DEF Push, playerVars
<1>5. CASE ChatLock(s)
  BY <1>5, MoveKeepsRows DEF ChatLock, playerVars, dbVars
<1>6. CASE ChatSend(s)
  BY <1>6, QuietKeepsRows DEF ChatSend, playerVars, dbVars
<1>7. CASE ChatUnlock(s)
  BY <1>7, MoveKeepsRows DEF ChatUnlock, playerVars, dbVars
<1>8. CASE ChatPop(s)
  <2>1. pc' = [pc EXCEPT ![s] = "chat.select"] /\ pc[s] = "chat.pop"
    BY <1>8, PopSucceeds DEF ChatPop, Pop
  <2>. QED  BY <1>8, <2>1, MoveKeepsRows DEF ChatPop, Pop, playerVars
<1>9. CASE ChatSelect(s)
  BY <1>9, SelectKeepsRows
<1>10. CASE ChatUpdate(s)
  BY <1>10, UpdateKeepsRows
<1>11. CASE ChatInsert(s)
  BY <1>11, QuietKeepsRows DEF ChatInsert, playerVars, dbVars
<1>. QED
  BY <1>1, <1>2, <1>3, <1>4, <1>5, <1>6, <1>7, <1>8, <1>9, <1>10, <1>11
  DEF Continue

LEMMA NextKeepsRows ==
    ASSUME TypeOK, PoolInv, RowInv, [Next]_vars
    PROVE  RowInv'
<1>1. ASSUME NEW s \in Sessions, Join(s) PROVE RowInv'
  BY <1>1, MoveKeepsRows DEF Join, Go, Labels, LoginLabels, playerVars, dbVars
<1>2. ASSUME NEW s \in Sessions, Handle_C_CHAT(s) PROVE RowInv'
  <2>1. CASE player[s] = 0
    BY <1>2, <2>1, QuietKeepsRows DEF Handle_C_CHAT, playerVars, dbVars
  <2>2. CASE player[s] # 0
    BY <1>2, <2>2, MoveKeepsRows
    DEF Handle_C_CHAT, HandlePacket, Go, Labels, LoginLabels, playerVars, dbVars
  <2>. QED  BY <2>1, <2>2
<1>3. ASSUME NEW s \in Sessions, Leave(s) \/ Client(s) PROVE RowInv'
  BY <1>3, QuietKeepsRows
  DEF Leave, Client, OnConnected_Add, OnConnected_Send, MainSend, playerVars, dbVars
<1>4. CASE Main \/ UNCHANGED vars
  BY <1>4, QuietKeepsRows DEF Main, vars, playerVars, dbVars
<1>. QED
  BY <1>1, <1>2, <1>3, <1>4, LoginKeepsRows, ContinueKeepsRows
  DEF Next, Running, Rest, Server

-----------------------------------------------------------------------------
(***************************************************************************)
(* Players: a session without one has yet to be sent, or to handle, its    *)
(* C_LOGIN.                                                                *)
(***************************************************************************)
LoginAhead(s) ==
    \/ stage[s] \in {"new", "added"}
    \/ \E i \in DOMAIN toServer[s] : toServer[s][i] = "C_LOGIN"

PlayerInv ==
    \A s \in Sessions :
        /\ stage[s] = "new" => toServer[s] = <<>> /\ s \notin unsent
        /\ player[s] = 0 => LoginAhead(s)

\* A step of the server that takes no packet.
LEMMA QuietKeepsPlayers ==
    ASSUME PlayerInv, UNCHANGED <<stage, toServer, player>>, unsent' \subseteq unsent
    PROVE  PlayerInv'
BY DEF PlayerInv, LoginAhead

\* The client sends packet p of session s, which is connected.
LEMMA SendKeepsPlayers ==
    ASSUME TypeOK, PlayerInv, NEW s \in Sessions, NEW p \in {"C_LOGIN", "C_CHAT"},
           stage[s] # "new", unsent' \subseteq unsent,
           \/ stage' = stage
           \/ p = "C_LOGIN" /\ stage' = [stage EXCEPT ![s] = "ready"],
           toServer' = Post(toServer, s, p), UNCHANGED player
    PROVE  PlayerInv'
<1>1. toServer[s] \in Seq({"C_LOGIN", "C_CHAT"})
  BY DEF TypeOK
<1>2. /\ \A u \in Sessions \ {s} : toServer'[u] = toServer[u] /\ stage'[u] = stage[u]
      /\ toServer'[s] = Append(toServer[s], p)
      /\ stage'[s] # "new"
  BY DEF Post, TypeOK
<1>3. /\ \A i \in DOMAIN toServer[s] :
             i \in DOMAIN toServer'[s] /\ toServer'[s][i] = toServer[s][i]
      /\ \E i \in DOMAIN toServer'[s] : toServer'[s][i] = p
  <2>1. /\ DOMAIN toServer[s] = 1 .. Len(toServer[s])
        /\ DOMAIN Append(toServer[s], p) = 1 .. (Len(toServer[s]) + 1)
        /\ Len(toServer[s]) \in Nat
    BY <1>1
  <2>2. Append(toServer[s], p)[Len(toServer[s]) + 1] = p
    BY <1>1
  <2>3. \A i \in 1 .. Len(toServer[s]) : Append(toServer[s], p)[i] = toServer[s][i]
    BY <1>1
  <2>. QED  BY <1>2, <2>1, <2>2, <2>3
<1>4. player[s] = 0 => LoginAhead(s)'
  <2>1. CASE stage' = stage
    BY <1>3, <2>1 DEF PlayerInv, LoginAhead
  <2>2. CASE p = "C_LOGIN"
    BY <1>3, <2>2 DEF LoginAhead
  <2>. QED  BY <2>1, <2>2
<1>5. \A u \in Sessions \ {s} : LoginAhead(u) => LoginAhead(u)'
  BY <1>2 DEF LoginAhead
<1>. QED  BY <1>2, <1>4, <1>5 DEF PlayerInv

\* A worker takes a C_CHAT: a C_LOGIN of its session is not what it took.
LEMMA ChatKeepsPlayers ==
    ASSUME TypeOK, PlayerInv, NEW s \in Sessions, Handle_C_CHAT(s)
    PROVE  PlayerInv'
<1>1. /\ toServer[s] \in Seq({"C_LOGIN", "C_CHAT"}) /\ toServer[s] # <<>>
      /\ Head(toServer[s]) = "C_CHAT"
      /\ toServer'[s] = Tail(toServer[s])
      /\ \A u \in Sessions \ {s} : toServer'[u] = toServer[u]
      /\ UNCHANGED <<stage, unsent, player>>
  BY DEF Handle_C_CHAT, HandlePacket, TypeOK, clientVars, playerVars
<1>2. ASSUME NEW i \in DOMAIN toServer[s], toServer[s][i] = "C_LOGIN"
      PROVE  \E k \in DOMAIN toServer'[s] : toServer'[s][k] = "C_LOGIN"
  <2>1. i \in 1 .. Len(toServer[s]) /\ i # 1 /\ Len(toServer[s]) \in Nat
    BY <1>1, <1>2
  <2>2. DOMAIN Tail(toServer[s]) = 1 .. (Len(toServer[s]) - 1)
    BY <1>1, <2>1
  <2>3. Tail(toServer[s])[i - 1] = toServer[s][i]
    BY <1>1, <2>1
  <2>4. i - 1 \in DOMAIN toServer'[s] /\ toServer'[s][i - 1] = "C_LOGIN"
    BY <1>1, <1>2, <2>1, <2>2, <2>3
  <2>. QED  BY <2>4
<1>3. \A u \in Sessions : LoginAhead(u) => LoginAhead(u)'
  BY <1>1, <1>2 DEF LoginAhead
<1>4. stage[s] # "new"
  BY <1>1 DEF PlayerInv
<1>. QED  BY <1>1, <1>3, <1>4 DEF PlayerInv

\* After C_LOGIN the session has a player.
LEMMA LoginKeepsPlayers ==
    ASSUME TypeOK, PlayerInv, NEW s \in Sessions, Handle_C_LOGIN(s)
    PROVE  PlayerInv'
<1>1. /\ toServer[s] # <<>>
      /\ \A u \in Sessions \ {s} : /\ toServer'[u] = toServer[u]
                                   /\ player'[u] = player[u]
      /\ player'[s] = idGenerator
      /\ UNCHANGED <<stage, unsent>>
  BY DEF Handle_C_LOGIN, HandlePacket, TypeOK, clientVars
<1>2. stage[s] # "new" /\ player'[s] # 0
  BY <1>1, Numbers DEF PlayerInv
<1>3. \A u \in Sessions \ {s} : LoginAhead(u) => LoginAhead(u)'
  BY <1>1 DEF LoginAhead
<1>. QED  BY <1>1, <1>2, <1>3 DEF PlayerInv

LEMMA ContinueKeepsPlayers ==
    ASSUME PlayerInv, NEW s \in Sessions, Continue(s) \/ Join(s) \/ Leave(s)
    PROVE  PlayerInv'
<1>1. UNCHANGED <<stage, toServer, player, unsent>>
  BY DEF Continue, Join, Leave, LoginSend, LoginPop, LoginInsert, Push, ChatLock,
         ChatSend, ChatUnlock, ChatPop, ChatSelect, ChatUpdate, ChatInsert, Pop,
         clientVars, netVars, playerVars
<1>. QED  BY <1>1, QuietKeepsPlayers

LEMMA ClientKeepsPlayers ==
    ASSUME TypeOK, PlayerInv, NEW s \in Sessions, Client(s)
    PROVE  PlayerInv'
<1>1. CASE OnConnected_Add(s)
  <2>1. /\ stage[s] = "new" /\ stage' = [stage EXCEPT ![s] = "added"]
        /\ unsent' = {} /\ UNCHANGED <<toServer, player>>
    BY <1>1 DEF OnConnected_Add, netVars, playerVars
  <2>2. /\ stage'[s] = "added"
        /\ \A u \in Sessions \ {s} : stage'[u] = stage[u]
    BY <2>1 DEF TypeOK
  <2>3. \A u \in Sessions : LoginAhead(u) => LoginAhead(u)'
    BY <2>1, <2>2 DEF LoginAhead
  <2>. QED  BY <2>1, <2>2, <2>3 DEF PlayerInv
<1>2. CASE OnConnected_Send(s)
  BY <1>2, SendKeepsPlayers DEF OnConnected_Send, playerVars
<1>3. CASE MainSend(s)
  <2>1. stage[s] # "new"
    BY <1>3 DEF MainSend, PlayerInv
  <2>. QED  BY <1>3, <2>1, SendKeepsPlayers DEF MainSend, playerVars
<1>. QED  BY <1>1, <1>2, <1>3 DEF Client

LEMMA NextKeepsPlayers ==
    ASSUME TypeOK, PlayerInv, [Next]_vars
    PROVE  PlayerInv'
<1>1. CASE UNCHANGED vars
  BY <1>1 DEF vars, clientVars, netVars, playerVars, PlayerInv, LoginAhead
<1>2. CASE crashed = "no" /\ Main
  <2>1. UNCHANGED <<stage, toServer, player>>
        /\ \A s \in unsent' : stage[s] # "new"
    BY <1>2 DEF Main, netVars, playerVars
  <2>. QED  BY <2>1 DEF PlayerInv, LoginAhead
<1>. QED
  BY <1>1, <1>2, ClientKeepsPlayers, ContinueKeepsPlayers, ChatKeepsPlayers,
     LoginKeepsPlayers
  DEF Next, Running, Rest, Server

-----------------------------------------------------------------------------
(***************************************************************************)
(* The order of the chats.                                                 *)
(***************************************************************************)
ChatLabels == {"chat.lock", "chat.send", "chat.pop", "chat.select", "chat.update",
               "chat.insert"}

\* What the handler of s broadcasts.
NextChat(s) == [kind |-> "S_CHAT", id |-> player[s], n |-> said[s] + 1]

\* The handler that broadcasts holds the lock: there is one.
OneBroadcast == \A s \in Sessions : pc[s] = "chat.send" <=> manager = s

\* A chat that was sent is one its player has said, or the one its handler is at,
\* after the lock.
SentWasSaid ==
    \A c \in Sessions : \A i \in Chats(c) :
        /\ toClient[c][i].id < idGenerator
        /\ \A s \in Sessions : toClient[c][i].id = player[s] =>
               \/ toClient[c][i].n <= said[s]
               \/ /\ toClient[c][i].n = said[s] + 1
                  /\ pc[s] \in ChatLabels \ {"chat.lock"}

\* Where the chat of packet p has come, it is the last.
IsLast(p) ==
    \A d \in Sessions : \A i, j \in Chats(d) : toClient[d][i] = p => j <= i

\* The chat that is being broadcast has not come to those still to be sent to.
UnderWay ==
    \A s \in Sessions : pc[s] = "chat.send" =>
        /\ IsLast(NextChat(s))
        /\ \A c \in todo[s] : \A i \in Chats(c) : toClient[c][i] # NextChat(s)

OrderInv ==
    /\ OneBroadcast
    /\ \A s \in Sessions : pc[s] \in ChatLabels => player[s] # 0
    /\ SentWasSaid
    /\ UnderWay
    /\ AgreeOnOrder

LEMMA ToClientTypes ==
    ASSUME TypeOK, NEW c \in Sessions
    PROVE  /\ Len(toClient[c]) \in Nat
           /\ DOMAIN toClient[c] = 1 .. Len(toClient[c])
           /\ Chats(c) \subseteq 1 .. Len(toClient[c])
           /\ \A i \in DOMAIN toClient[c] : toClient[c][i] \in Packets
<1>1. toClient[c] \in Seq(Packets)
  BY DEF TypeOK
<1>. QED  BY <1>1 DEF Chats

\* What is at which position after one more packet was sent to client c.
LEMMA PostedAt ==
    ASSUME TypeOK, NEW c \in Sessions, NEW p \in Packets,
           toClient' = Post(toClient, c, p)
    PROVE  /\ \A d \in Sessions \ {c} :
                  toClient'[d] = toClient[d] /\ Chats(d)' = Chats(d)
           /\ \A i \in Chats(c) : i <= Len(toClient[c]) /\ toClient'[c][i] = toClient[c][i]
           /\ toClient'[c][Len(toClient[c]) + 1] = p
           /\ Chats(c)' = Chats(c) \cup
                  (IF p.kind = "S_CHAT" THEN {Len(toClient[c]) + 1} ELSE {})
<1>1. /\ toClient'[c] = Append(toClient[c], p)
      /\ \A d \in Sessions \ {c} : toClient'[d] = toClient[d]
  BY DEF Post, TypeOK
<1>2. /\ toClient[c] \in Seq(Packets) /\ Len(toClient[c]) \in Nat
      /\ DOMAIN toClient[c] = 1 .. Len(toClient[c])
  <2>1. toClient[c] \in Seq(Packets)
    BY DEF TypeOK
  <2>. QED  BY <2>1
<1>3. DOMAIN toClient'[c] = 1 .. (Len(toClient[c]) + 1)
  BY <1>1, <1>2
<1>4. toClient'[c][Len(toClient[c]) + 1] = p
  BY <1>1, <1>2
<1>5. \A i \in DOMAIN toClient[c] : toClient'[c][i] = toClient[c][i]
  BY <1>1, <1>2
<1>6. Chats(c)' = Chats(c) \cup
          (IF p.kind = "S_CHAT" THEN {Len(toClient[c]) + 1} ELSE {})
  BY <1>2, <1>3, <1>4, <1>5 DEF Chats
<1>. QED  BY <1>1, <1>2, <1>4, <1>5, <1>6 DEF Chats

\* A chat that is new to client c, and the last wherever it has come, leaves the
\* clients agreed.
LEMMA PostKeepsOrder ==
    ASSUME TypeOK, AgreeOnOrder, NEW c \in Sessions, NEW p \in Packets,
           p.kind = "S_CHAT", toClient' = Post(toClient, c, p), IsLast(p),
           \A i \in Chats(c) : toClient[c][i] # p
    PROVE  AgreeOnOrder' /\ IsLast(p)'
<1>. DEFINE top == Len(toClient[c]) + 1
<1>1. /\ \A d \in Sessions \ {c} : toClient'[d] = toClient[d] /\ Chats(d)' = Chats(d)
      /\ Chats(c)' = Chats(c) \cup {top}
      /\ toClient'[c][top] = p
      /\ \A i \in Chats(c) : toClient'[c][i] = toClient[c][i] /\ i < top
  BY PostedAt, ToClientTypes
<1>2. \A d \in Sessions : Chats(d) \subseteq Nat
  BY ToClientTypes
<1>3. top \in Nat
  BY ToClientTypes
<1>. HIDE DEF top
<1>4. IsLast(p)'
  BY <1>1, <1>2, <1>3 DEF IsLast
<1>5. ASSUME NEW d \in Sessions, NEW e \in Sessions, NEW i \in Chats(d)', NEW j \in Chats(d)',
             NEW k \in Chats(e)', NEW l \in Chats(e)', i < j,
             toClient'[d][i] = toClient'[e][k], toClient'[d][j] = toClient'[e][l]
      PROVE  k < l
  <2>1. i \in Nat /\ j \in Nat /\ k \in Nat /\ l \in Nat
    BY <1>1, <1>2, <1>3
  <2>2. toClient'[d][i] # p
    BY <1>4, <1>5, <2>1 DEF IsLast
  <2>3. CASE toClient'[d][j] = p
    <3>1. k <= l
      BY <1>4, <1>5, <2>1, <2>3 DEF IsLast
    <3>2. k # l
      BY <1>5, <2>2, <2>3
    <3>. QED  BY <2>1, <3>1, <3>2
  <2>4. CASE toClient'[d][j] # p
    <3>1. /\ i \in Chats(d) /\ toClient'[d][i] = toClient[d][i]
          /\ j \in Chats(d) /\ toClient'[d][j] = toClient[d][j]
      BY <1>1, <2>2, <2>4
    <3>2. /\ k \in Chats(e) /\ toClient'[e][k] = toClient[e][k]
          /\ l \in Chats(e) /\ toClient'[e][l] = toClient[e][l]
      BY <1>1, <1>5, <2>2, <2>4
    <3>3. toClient[d][i] = toClient[e][k] /\ toClient[d][j] = toClient[e][l]
      BY <1>5, <3>1, <3>2
    <3>. QED  BY <1>5, <3>1, <3>2, <3>3 DEF AgreeOnOrder
  <2>. QED  BY <2>3, <2>4
<1>. QED  BY <1>4, <1>5 DEF AgreeOnOrder

\* A step that sends no chat and leaves the broadcasts as they are.
LEMMA QuietKeepsOrder ==
    ASSUME TypeOK, OrderInv,
           UNCHANGED <<manager, todo, idGenerator, player, said>>,
           \A d \in Sessions :
               /\ Chats(d)' = Chats(d)
               /\ \A i \in Chats(d) : toClient'[d][i] = toClient[d][i],
           \A s \in Sessions :
               /\ pc'[s] = "chat.send" <=> pc[s] = "chat.send"
               /\ pc'[s] \in ChatLabels => pc[s] \in ChatLabels
               /\ pc[s] \in ChatLabels \ {"chat.lock"} =>
                      pc'[s] \in ChatLabels \ {"chat.lock"}
    PROVE  OrderInv'
<1>1. OneBroadcast'
  BY DEF OrderInv, OneBroadcast
<1>2. \A s \in Sessions : pc'[s] \in ChatLabels => player'[s] # 0
  BY DEF OrderInv
<1>3. SentWasSaid'
  BY DEF OrderInv, SentWasSaid
<1>4. UnderWay'
  <2>1. \A s \in Sessions : NextChat(s)' = NextChat(s) /\ todo[s] \subseteq Sessions
    BY DEF NextChat, TypeOK
  <2>. QED  BY <2>1 DEF OrderInv, UnderWay, IsLast
<1>5. AgreeOnOrder'
  BY DEF OrderInv, AgreeOnOrder
<1>. QED  BY <1>1, <1>2, <1>3, <1>4, <1>5 DEF OrderInv

\* One handler goes to label l.
LEMMA MoveKeepsOrder ==
    ASSUME TypeOK, OrderInv, NEW s \in Sessions, NEW l \in Labels,
           UNCHANGED <<toClient, manager, todo, idGenerator, player, said>>,
           pc' = [pc EXCEPT ![s] = l],
           pc[s] # "chat.send" /\ l # "chat.send",
           l \in ChatLabels => pc[s] \in ChatLabels,
           pc[s] \in ChatLabels \ {"chat.lock"} => l \in ChatLabels \ {"chat.lock"}
    PROVE  OrderInv'
<1>1. \A d \in Sessions :
          /\ Chats(d)' = Chats(d)
          /\ \A i \in Chats(d) : toClient'[d][i] = toClient[d][i]
  BY DEF Chats
<1>2. \A u \in Sessions : pc'[u] = IF u = s THEN l ELSE pc[u]
  BY DEF TypeOK
<1>. QED  BY <1>1, <1>2, QuietKeepsOrder

\* C_LOGIN draws an id that no packet has.
LEMMA LoginKeepsOrder ==
    ASSUME TypeOK, OwnId, OrderInv, NEW s \in Sessions, Handle_C_LOGIN(s)
    PROVE  OrderInv'
<1>1. /\ pc[s] = "idle" /\ pc' = [pc EXCEPT ![s] = "login.send"]
      /\ player' = [player EXCEPT ![s] = idGenerator]
      /\ idGenerator' = idGenerator + 1
      /\ said' = [said EXCEPT ![s] = 0]
      /\ UNCHANGED <<toClient, manager, todo>>
  BY DEF Handle_C_LOGIN, HandlePacket, Go, castVars
<1>2. /\ \A u \in Sessions \ {s} : /\ pc'[u] = pc[u]
                                   /\ player'[u] = player[u] /\ said'[u] = said[u]
      /\ pc'[s] = "login.send" /\ player'[s] = idGenerator
  BY <1>1 DEF TypeOK
<1>3. \A d \in Sessions : Chats(d)' = Chats(d)
  BY <1>1 DEF Chats
<1>4. \A c \in Sessions : \A i \in Chats(c) :
          toClient[c][i].id \in Nat /\ toClient[c][i].id < idGenerator
  BY ToClientTypes DEF OrderInv, SentWasSaid, Packets, Chats
<1>5. OneBroadcast'
  BY <1>1, <1>2 DEF OrderInv, OneBroadcast
<1>6. \A u \in Sessions : pc'[u] \in ChatLabels => player'[u] # 0
  BY <1>2 DEF OrderInv, ChatLabels
<1>7. SentWasSaid'
  <2>. SUFFICES ASSUME NEW c \in Sessions, NEW i \in Chats(c)
                PROVE  /\ toClient[c][i].id < idGenerator'
                       /\ \A u \in Sessions : toClient[c][i].id = player'[u] =>
                              \/ toClient[c][i].n <= said'[u]
                              \/ /\ toClient[c][i].n = said'[u] + 1
                                 /\ pc'[u] \in ChatLabels \ {"chat.lock"}
    BY <1>1, <1>3 DEF SentWasSaid
  <2>1. toClient[c][i].id < idGenerator'
    BY <1>1, <1>4, Numbers
  <2>2. toClient[c][i].id # player'[s]
    BY <1>2, <1>4, Numbers
  <2>. QED  BY <1>2, <2>1, <2>2 DEF OrderInv, SentWasSaid
<1>8. UnderWay'
  <2>. SUFFICES ASSUME NEW u \in Sessions, pc'[u] = "chat.send"
                PROVE  /\ IsLast(NextChat(u))'
                       /\ \A c \in todo'[u] : \A i \in Chats(c)' :
                              toClient'[c][i] # NextChat(u)'
    BY DEF UnderWay
  <2>1. u # s /\ pc[u] = "chat.send"
    BY <1>2
  <2>2. NextChat(u)' = NextChat(u)
    BY <1>2, <2>1 DEF NextChat
  <2>3. todo[u] \subseteq Sessions
    BY DEF TypeOK
  <2>. QED  BY <1>1, <1>3, <2>1, <2>2, <2>3 DEF OrderInv, UnderWay, IsLast
<1>9. AgreeOnOrder'
  BY <1>1, <1>3 DEF OrderInv, AgreeOnOrder
<1>. QED  BY <1>5, <1>6, <1>7, <1>8, <1>9 DEF OrderInv

\* The chat that is about to be broadcast has come to nobody.
LEMMA LockKeepsOrder ==
    ASSUME TypeOK, OrderInv, NEW s \in Sessions, ChatLock(s)
    PROVE  OrderInv'
<1>1. /\ pc[s] = "chat.lock" /\ pc' = [pc EXCEPT ![s] = "chat.send"]
      /\ manager = None /\ manager' = s
      /\ todo' = [todo EXCEPT ![s] = joined]
      /\ UNCHANGED <<toClient, idGenerator, player, said>>
  BY DEF ChatLock, Go, netVars, playerVars
<1>2. /\ \A u \in Sessions \ {s} : pc'[u] = pc[u]
      /\ pc'[s] = "chat.send"
  BY <1>1 DEF TypeOK
<1>3. \A d \in Sessions : Chats(d)' = Chats(d)
  BY <1>1 DEF Chats
<1>4. OneBroadcast' /\ \A u \in Sessions \ {s} : pc'[u] # "chat.send"
  BY <1>1, <1>2, ChatAssumption DEF OrderInv, OneBroadcast
<1>5. \A u \in Sessions : pc'[u] \in ChatLabels => player'[u] # 0
  BY <1>1, <1>2 DEF OrderInv, ChatLabels
<1>6. SentWasSaid'
  BY <1>1, <1>2, <1>3 DEF OrderInv, SentWasSaid, ChatLabels
<1>7. ASSUME NEW c \in Sessions, NEW i \in Chats(c)
      PROVE  toClient[c][i] # NextChat(s)
  <2>. SUFFICES ASSUME toClient[c][i] = NextChat(s) PROVE FALSE
    OBVIOUS
  <2>1. toClient[c][i].id = player[s] /\ toClient[c][i].n = said[s] + 1
    BY DEF NextChat
  <2>2. toClient[c][i].n <= said[s]
    BY <1>1, <2>1 DEF OrderInv, SentWasSaid
  <2>. QED  BY <2>1, <2>2, Numbers
<1>8. UnderWay'
  <2>1. NextChat(s)' = NextChat(s)
    BY <1>1 DEF NextChat
  <2>2. IsLast(NextChat(s))'
    BY <1>1, <1>3, <1>7, <2>1 DEF IsLast
  <2>3. todo'[s] \subseteq Sessions
    BY <1>1 DEF TypeOK
  <2>. QED  BY <1>1, <1>3, <1>4, <1>7, <2>1, <2>2, <2>3 DEF UnderWay
<1>9. AgreeOnOrder'
  BY <1>1, <1>3 DEF OrderInv, AgreeOnOrder
<1>. QED  BY <1>4, <1>5, <1>6, <1>8, <1>9 DEF OrderInv

LEMMA SendKeepsOrder ==
    ASSUME TypeOK, OwnId, OrderInv, NEW s \in Sessions, ChatSend(s)
    PROVE  OrderInv'
<1>1. PICK c \in todo[s] :
         /\ toClient' = Post(toClient, c, NextChat(s))
         /\ todo' = [todo EXCEPT ![s] = @ \ {c}]
  BY DEF ChatSend, NextChat
<1>2. /\ pc[s] = "chat.send"
      /\ UNCHANGED <<pc, manager, idGenerator, player, said>>
  BY DEF ChatSend, playerVars
<1>3. c \in Sessions /\ todo'[s] = todo[s] \ {c} /\ todo[s] \subseteq Sessions
  BY <1>1 DEF TypeOK
<1>4. /\ NextChat(s) \in Packets /\ NextChat(s).kind = "S_CHAT"
      /\ NextChat(s).id = player[s] /\ NextChat(s).n = said[s] + 1
      /\ NextChat(s)' = NextChat(s)
  BY <1>2, Numbers DEF NextChat, Packets
<1>5. \A i \in Chats(c) : toClient[c][i] # NextChat(s)
  BY <1>1, <1>2 DEF OrderInv, UnderWay
<1>6. IsLast(NextChat(s))
  BY <1>2 DEF OrderInv, UnderWay
<1>7. AgreeOnOrder' /\ IsLast(NextChat(s))'
  BY <1>1, <1>3, <1>4, <1>5, <1>6, PostKeepsOrder DEF OrderInv
<1>8. /\ \A d \in Sessions \ {c} : toClient'[d] = toClient[d] /\ Chats(d)' = Chats(d)
      /\ Chats(c)' = Chats(c) \cup {Len(toClient[c]) + 1}
      /\ toClient'[c][Len(toClient[c]) + 1] = NextChat(s)
      /\ \A i \in Chats(c) : toClient'[c][i] = toClient[c][i]
  BY <1>1, <1>3, <1>4, PostedAt
<1>9. OneBroadcast'
  BY <1>2 DEF OrderInv, OneBroadcast
<1>10. \A u \in Sessions \ {s} : pc[u] # "chat.send"
  BY <1>2 DEF OrderInv, OneBroadcast
<1>11. SentWasSaid'
  <2>1. /\ player[s] < idGenerator /\ player[s] # 0
        /\ \A u \in Sessions \ {s} : player[u] # player[s]
    BY <1>2 DEF OwnId, OrderInv, ChatLabels
  <2>2. ASSUME NEW d \in Sessions, NEW i \in Chats(d)'
        PROVE  \/ toClient'[d][i] = NextChat(s)
               \/ i \in Chats(d) /\ toClient'[d][i] = toClient[d][i]
    BY <1>8
  <2>3. pc[s] \in ChatLabels \ {"chat.lock"}
    BY <1>2 DEF ChatLabels
  <2>4. ASSUME NEW d \in Sessions, NEW i \in Chats(d)',
               NEW q, q = toClient'[d][i]
        PROVE  /\ q.id < idGenerator
               /\ \A u \in Sessions : q.id = player[u] =>
                      \/ q.n <= said[u]
                      \/ q.n = said[u] + 1 /\ pc[u] \in ChatLabels \ {"chat.lock"}
    <3>1. CASE q = NextChat(s)
      BY <1>4, <2>1, <2>3, <3>1
    <3>2. CASE i \in Chats(d) /\ q = toClient[d][i]
      BY <3>2 DEF OrderInv, SentWasSaid
    <3>. QED  BY <2>2, <2>4, <3>1, <3>2
  <2>. QED  BY <1>2, <2>4 DEF SentWasSaid
<1>12. UnderWay'
  BY <1>2, <1>3, <1>4, <1>5, <1>7, <1>8, <1>10, <1>1 DEF OrderInv, UnderWay
<1>. QED
  BY <1>2, <1>7, <1>9, <1>11, <1>12 DEF OrderInv

LEMMA UnlockKeepsOrder ==
    ASSUME TypeOK, OrderInv, NEW s \in Sessions, ChatUnlock(s)
    PROVE  OrderInv'
<1>1. /\ pc[s] = "chat.send" /\ pc' = [pc EXCEPT ![s] = "chat.pop"]
      /\ manager' = None
      /\ UNCHANGED <<toClient, todo, idGenerator, player, said>>
  BY DEF ChatUnlock, Go, netVars, playerVars
<1>2. /\ \A u \in Sessions \ {s} : pc'[u] = pc[u]
      /\ pc'[s] = "chat.pop"
  BY <1>1 DEF TypeOK
<1>3. \A d \in Sessions : Chats(d)' = Chats(d)
  BY <1>1 DEF Chats
<1>4. \A u \in Sessions : pc'[u] # "chat.send" /\ u # None
  BY <1>1, <1>2, ChatAssumption DEF OrderInv, OneBroadcast
<1>5. OneBroadcast' /\ UnderWay'
  BY <1>1, <1>4 DEF OneBroadcast, UnderWay
<1>6. \A u \in Sessions : pc'[u] \in ChatLabels => player'[u] # 0
  BY <1>1, <1>2 DEF OrderInv, ChatLabels
<1>7. SentWasSaid'
  BY <1>1, <1>2, <1>3 DEF OrderInv, SentWasSaid, ChatLabels
<1>8. AgreeOnOrder'
  BY <1>1, <1>3 DEF OrderInv, AgreeOnOrder
<1>. QED  BY <1>5, <1>6, <1>7, <1>8 DEF OrderInv

\* The chat of the handler has been said.
LEMMA UpdateKeepsOrder ==
    ASSUME TypeOK, OrderInv, NEW s \in Sessions, ChatUpdate(s)
    PROVE  OrderInv'
<1>1. /\ pc[s] = "chat.update" /\ pc' = [pc EXCEPT ![s] = "push"]
      /\ said' = [said EXCEPT ![s] = @ + 1]
      /\ UNCHANGED <<toClient, manager, todo, idGenerator, player>>
  BY DEF ChatUpdate, Go, netVars, castVars, playerVars
<1>2. /\ \A u \in Sessions \ {s} : pc'[u] = pc[u] /\ said'[u] = said[u]
      /\ pc'[s] = "push" /\ said'[s] = said[s] + 1 /\ said[s] \in Nat
  BY <1>1 DEF TypeOK
<1>3. \A d \in Sessions : Chats(d)' = Chats(d)
  BY <1>1 DEF Chats
<1>4. OneBroadcast'
  BY <1>1, <1>2 DEF OrderInv, OneBroadcast
<1>5. \A u \in Sessions : pc'[u] \in ChatLabels => player'[u] # 0
  BY <1>1, <1>2 DEF OrderInv, ChatLabels
<1>6. SentWasSaid'
  <2>1. \A c \in Sessions : \A i \in Chats(c) : toClient[c][i].n \in Nat
    BY ToClientTypes DEF Chats, Packets
  <2>. QED  BY <1>1, <1>2, <1>3, <2>1 DEF OrderInv, SentWasSaid
<1>7. UnderWay'
  <2>. SUFFICES ASSUME NEW u \in Sessions, pc'[u] = "chat.send"
                PROVE  /\ IsLast(NextChat(u))'
                       /\ \A c \in todo'[u] : \A i \in Chats(c)' :
                              toClient'[c][i] # NextChat(u)'
    BY DEF UnderWay
  <2>1. u # s /\ pc[u] = "chat.send"
    BY <1>2
  <2>2. NextChat(u)' = NextChat(u)
    BY <1>1, <1>2, <2>1 DEF NextChat
  <2>3. todo[u] \subseteq Sessions
    BY DEF TypeOK
  <2>. QED  BY <1>1, <1>3, <2>1, <2>2, <2>3 DEF OrderInv, UnderWay, IsLast
<1>8. AgreeOnOrder'
  BY <1>1, <1>3 DEF OrderInv, AgreeOnOrder
<1>. QED  BY <1>4, <1>5, <1>6, <1>7, <1>8 DEF OrderInv

LEMMA ContinueKeepsOrder ==
    ASSUME TypeOK, PoolInv, OwnId, OrderInv, NEW s \in Sessions, Continue(s)
    PROVE  OrderInv'
<1>. USE DEF Go, Labels, ChatLabels
<1>1. CASE LoginSend(s)
  <2>. DEFINE p == [kind |-> "S_LOGIN", id |-> player[s], n |-> 0]
  <2>1. /\ pc[s] = "login.send" /\ pc' = [pc EXCEPT ![s] = "login.pop"]
        /\ toClient' = Post(toClient, s, p) \/ toClient' = toClient
        /\ UNCHANGED <<manager, todo, idGenerator, player, said>>
    BY <1>1 DEF LoginSend, castVars, playerVars
  <2>2. p \in Packets /\ p.kind # "S_CHAT"
    BY Numbers DEF Packets
  <2>. HIDE DEF p
  <2>3. \A d \in Sessions :
            /\ Chats(d)' = Chats(d)
            /\ \A i \in Chats(d) : toClient'[d][i] = toClient[d][i]
    <3>1. CASE toClient' = toClient
      BY <3>1 DEF Chats
    <3>2. CASE toClient' = Post(toClient, s, p)
      BY <3>2, <2>2, PostedAt
    <3>. QED  BY <2>1, <3>1, <3>2
  <2>4. \A u \in Sessions : pc'[u] = IF u = s THEN "login.pop" ELSE pc[u]
    BY <2>1 DEF TypeOK
  <2>. QED  BY <2>1, <2>3, <2>4, QuietKeepsOrder
<1>2. CASE LoginPop(s)
  <2>1. pc' = [pc EXCEPT ![s] = "login.insert"] /\ pc[s] = "login.pop"
    BY <1>2, PopSucceeds DEF LoginPop, Pop
  <2>. QED
    BY <1>2, <2>1, MoveKeepsOrder DEF LoginPop, Pop, netVars, castVars, playerVars
<1>3. CASE LoginInsert(s)
  BY <1>3, MoveKeepsOrder DEF LoginInsert, netVars, castVars, playerVars
<1>4. CASE Push(s)
  BY <1>4, MoveKeepsOrder DEF Push, netVars, castVars, playerVars
<1>5. CASE ChatLock(s)
  BY <1>5, LockKeepsOrder
<1>6. CASE ChatSend(s)
  BY <1>6, SendKeepsOrder
<1>7. CASE ChatUnlock(s)
  BY <1>7, UnlockKeepsOrder
<1>8. CASE ChatPop(s)
  <2>1. pc' = [pc EXCEPT ![s] = "chat.select"] /\ pc[s] = "chat.pop"
    BY <1>8, PopSucceeds DEF ChatPop, Pop
  <2>. QED
    BY <1>8, <2>1, MoveKeepsOrder DEF ChatPop, Pop, netVars, castVars, playerVars
<1>9. CASE ChatSelect(s)
  <2>1. /\ pc[s] = "chat.select"
        /\ UNCHANGED <<toClient, manager, todo, idGenerator, player, said>>
    BY <1>9 DEF ChatSelect, netVars, castVars, playerVars
  <2>2. PICK l \in {"chat.update", "chat.insert"} : pc' = [pc EXCEPT ![s] = l]
    BY <1>9 DEF ChatSelect
  <2>. QED  BY <2>1, <2>2, MoveKeepsOrder
<1>10. CASE ChatUpdate(s)
  BY <1>10, UpdateKeepsOrder
<1>11. CASE ChatInsert(s)
  <2>1. UNCHANGED <<pc, toClient, manager, todo, idGenerator, player, said>>
    BY <1>11 DEF ChatInsert, netVars, castVars, playerVars
  <2>2. \A d \in Sessions : Chats(d)' = Chats(d)
    BY <2>1 DEF Chats
  <2>. QED  BY <2>1, <2>2, QuietKeepsOrder
<1>. QED
  BY <1>1, <1>2, <1>3, <1>4, <1>5, <1>6, <1>7, <1>8, <1>9, <1>10, <1>11
  DEF Continue

LEMMA NextKeepsOrder ==
    ASSUME TypeOK, PoolInv, OwnId, OrderInv, [Next]_vars
    PROVE  OrderInv'
<1>. USE DEF Go, Labels, ChatLabels
<1>1. ASSUME NEW s \in Sessions, Join(s) PROVE OrderInv'
  BY <1>1, MoveKeepsOrder DEF Join, netVars, playerVars
<1>2. ASSUME UNCHANGED <<pc, toClient, manager, todo, idGenerator, player, said>>
      PROVE  OrderInv'
  <2>1. \A d \in Sessions : Chats(d)' = Chats(d)
    BY <1>2 DEF Chats
  <2>. QED  BY <1>2, <2>1, QuietKeepsOrder
<1>3. ASSUME NEW s \in Sessions, Handle_C_CHAT(s) PROVE OrderInv'
  <2>1. CASE player[s] = 0
    BY <1>2, <1>3, <2>1 DEF Handle_C_CHAT, castVars, playerVars
  <2>2. CASE player[s] # 0
    <3>1. /\ pc[s] = "idle" /\ pc' = [pc EXCEPT ![s] = "chat.lock"]
          /\ UNCHANGED <<toClient, manager, todo, idGenerator, player, said>>
      BY <1>3, <2>2 DEF Handle_C_CHAT, HandlePacket, castVars, playerVars
    <3>2. \A u \in Sessions : pc'[u] = IF u = s THEN "chat.lock" ELSE pc[u]
      BY <3>1 DEF TypeOK
    <3>3. \A d \in Sessions : Chats(d)' = Chats(d)
      BY <3>1 DEF Chats
    <3>4. OneBroadcast'
      BY <3>1, <3>2 DEF OrderInv, OneBroadcast
    <3>5. \A u \in Sessions : pc'[u] \in ChatLabels => player'[u] # 0
      BY <2>2, <3>1, <3>2 DEF OrderInv
    <3>6. SentWasSaid'
      BY <3>1, <3>2, <3>3 DEF OrderInv, SentWasSaid
    <3>7. UnderWay'
      <4>1. \A u \in Sessions : NextChat(u)' = NextChat(u) /\ todo[u] \subseteq Sessions
        BY <3>1 DEF NextChat, TypeOK
      <4>2. \A u \in Sessions : pc'[u] = "chat.send" => pc[u] = "chat.send"
        BY <3>2
      <4>. QED  BY <3>1, <3>3, <4>1, <4>2 DEF OrderInv, UnderWay, IsLast
    <3>8. AgreeOnOrder'
      BY <3>1, <3>3 DEF OrderInv, AgreeOnOrder
    <3>. QED  BY <3>4, <3>5, <3>6, <3>7, <3>8 DEF OrderInv
  <2>. QED  BY <2>1, <2>2
<1>4. ASSUME NEW s \in Sessions, Leave(s) \/ Client(s) PROVE OrderInv'
  BY <1>2, <1>4
  DEF Leave, Client, OnConnected_Add, OnConnected_Send, MainSend, netVars, castVars,
      playerVars
<1>5. CASE Main \/ UNCHANGED vars
  BY <1>2, <1>5 DEF Main, vars, netVars, castVars, playerVars
<1>. QED
  BY <1>1, <1>3, <1>4, <1>5, LoginKeepsOrder, ContinueKeepsOrder
  DEF Next, Running, Rest, Server

LEMMA InitChats == Init => PlayerInv /\ OrderInv
<1>. SUFFICES ASSUME Init PROVE PlayerInv /\ OrderInv
  OBVIOUS
<1>. USE DEF Init
<1>1. PlayerInv
  BY DEF PlayerInv, LoginAhead
<1>2. \A c \in Sessions : Chats(c) = {}
  BY DEF Chats
<1>3. OneBroadcast
  BY ChatAssumption DEF OneBroadcast
<1>4. OrderInv
  BY <1>2, <1>3 DEF OrderInv, SentWasSaid, UnderWay, AgreeOnOrder, ChatLabels
<1>. QED  BY <1>1, <1>4

-----------------------------------------------------------------------------
(***************************************************************************)
(* The theorems.                                                           *)
(***************************************************************************)
LEMMA NextIInv == IInv /\ [Next]_vars => IInv'
<1>1. IInv => Held /\ ReadIsCurrent
  BY DEF IInv, PoolInv, RowInv
<1>. QED  BY <1>1, NextTypes, NextKeepsPool, NextKeepsRows DEF IInv

\* Every reachable state satisfies the inductive invariant.
THEOREM Invariance == Spec => []IInv
<1>. QED  BY InitIInv, NextIInv, PTL DEF Spec

\* The variables have their types.
THEOREM TypeCorrect == Spec => []TypeOK
<1>1. IInv => TypeOK
  BY DEF IInv
<1>. QED  BY <1>1, Invariance, PTL

\* With no fewer connections than workers, DBConnectionPool::Pop never returns
\* nullptr to a handler.
THEOREM PoolAlwaysSuffices == Spec => []PoolSuffices
<1>1. IInv => PoolSuffices
  BY PopSucceeds DEF IInv, PoolInv, PoolSuffices
<1>. QED  BY <1>1, Invariance, PTL

\* No two handlers use one DBConnection, nor one that is in the pool.
THEOREM ConnectionAlwaysPrivate == Spec => []ConnectionPrivate
<1>1. IInv => ConnectionPrivate
  BY DEF IInv, PoolInv
<1>. QED  BY <1>1, Invariance, PTL

\* The row of every player counts that player's chats, whichever login's INSERT
\* has made the row.
THEOREM AlwaysCountsChats == Spec => []CountsChats
<1>1. IInv => CountsChats
  BY DEF IInv, RowInv
<1>. QED  BY <1>1, Invariance, PTL

\* When no login is under way every id given out has its row.
THEOREM AlwaysRowForEveryPlayer == Spec => []RowForEveryPlayer
<1>1. ASSUME IInv, \A s \in Sessions : pc[s] \notin LoginLabels
      PROVE  Len(rows) = idGenerator - 1
  <2>1. Cardinality(LoggingIn) = 0
    BY <1>1, FS_EmptySet DEF LoggingIn
  <2>. QED
    BY <1>1, <2>1, RowTypes, Numbers DEF IInv, RowInv, RowsCounted
<1>2. IInv => RowForEveryPlayer
  BY <1>1 DEF RowForEveryPlayer, LoginLabels
<1>. QED  BY <1>2, Invariance, PTL

\* Beside it, what holds of the players and of the order of the chats.
LEMMA ChatsInvariant == Spec => [](PlayerInv /\ OrderInv)
<1>1. IInv => TypeOK /\ PoolInv /\ OwnId
  BY DEF IInv, RowInv
<1>2. IInv /\ PlayerInv /\ OrderInv /\ [Next]_vars => (PlayerInv /\ OrderInv)'
  BY <1>1, NextKeepsPlayers, NextKeepsOrder
<1>. QED  BY <1>2, InitChats, Invariance, PTL DEF Spec

\* The clients agree on the order of the chats that came to both, and none comes
\* to a client twice, however many handlers broadcast.
THEOREM AlwaysAgreeOnOrder == Spec => []AgreeOnOrder
<1>1. PlayerInv /\ OrderInv => AgreeOnOrder
  BY DEF OrderInv
<1>. QED  BY <1>1, ChatsInvariant, PTL

\* When the next chat of a session would find no player, that session has yet to
\* send its C_LOGIN, or the server to handle it.
THEOREM NoPlayerOnlyBeforeLogin == Spec => []NoPlayerOnlyIfOvertaken
<1>1. PlayerInv /\ OrderInv => NoPlayerOnlyIfOvertaken
  BY DEF PlayerInv, LoginAhead, NoPlayerOnlyIfOvertaken
<1>. QED  BY <1>1, ChatsInvariant, PTL

=============================================================================

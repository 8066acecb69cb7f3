----------------------------- MODULE ChatServer -----------------------------
(***************************************************************************)
(* The chat program above the sessions: the DummyClient process with its   *)
(* sessions and its main loop, and GameServer's handlers with their        *)
(* players, session manager, pool of database connections and table.       *)
(*                                                                         *)
(* Between the two sides of a session packets travel in order and once     *)
(* (ImplementsChannel of module Session), and one worker at a time handles *)
(* the packets of a session (RecvBufferExclusive), so the handlers are     *)
(* identified by their session.                                            *)
(***************************************************************************)
EXTENDS Naturals, Sequences, FiniteSets

CONSTANTS
    Sessions,       \* one per connection of the client
    Connections,    \* DBConnections of the pool (5)
    NumWorkers,     \* worker threads of the server (5)
    MaxBroadcasts,  \* bound on the rounds of the client's main loop
    None

ASSUME ChatAssumption ==
    /\ IsFiniteSet(Sessions)
    /\ IsFiniteSet(Connections)
    /\ NumWorkers \in Nat
    /\ NumWorkers <= Cardinality(Connections)
    /\ MaxBroadcasts \in Nat
    /\ None \notin Sessions \cup Connections

\* A session logs in once, and says one chat a round: ids and counts stay within the
\* INT columns and the int32 of Handle_C_CHAT.  PacketHandlers has the limit.
ASSUME IntAssumption ==
    Cardinality(Sessions) <= 2147483647 /\ MaxBroadcasts <= 2147483647

VARIABLES
    \* the client
    stage,         \* how far OnConnected of each session is
    unsent,        \* sessions the Broadcast under way still sends to
    rounds,        \* Broadcasts begun
    \* the network
    toServer,      \* packets on their way to the server
    toClient,      \* packets sent to each client so far
    \* the server
    pc,            \* statement the handler of each session is at
    joined,        \* GSessionManager._sessions
    manager,       \* handler that holds the lock of GSessionManager
    todo,          \* sessions the Broadcast of each handler still sends to
    idGenerator,   \* of Handle_C_LOGIN
    player,        \* _currentPlayer->playerId, 0 while it is null
    pool,          \* GDBConnectionPool._connections
    conn,          \* dbConn of each handler
    count,         \* count of Handle_C_CHAT
    rows,          \* table Count: count by id, which IDENTITY gives out from 1
    said,          \* chats of each session's player that were counted
    crashed        \* why the server has crashed

clientVars == <<stage, unsent, rounds>>
netVars == <<toServer, toClient>>
castVars == <<joined, manager, todo>>
playerVars == <<idGenerator, player>>
dbVars == <<pool, conn, count, rows>>
vars == <<clientVars, netVars, pc, castVars, playerVars, dbVars, said, crashed>>

Labels == {"new", "idle", "login.send", "login.pop", "login.insert",
           "chat.lock", "chat.send", "chat.pop", "chat.select", "chat.update",
           "chat.insert", "push"}

\* Handlers that have a connection.
ConnLabels ==
    {"login.insert", "chat.select", "chat.update", "chat.insert", "push"}

Packets == [kind : {"S_LOGIN", "S_CHAT"}, id : Nat, n : Nat]

Busy == {s \in Sessions : pc[s] \notin {"new", "idle"}}

TypeOK ==
    /\ stage \in [Sessions -> {"new", "added", "ready"}]
    /\ unsent \subseteq Sessions
    /\ rounds \in Nat
    /\ toServer \in [Sessions -> Seq({"C_LOGIN", "C_CHAT"})]
    /\ toClient \in [Sessions -> Seq(Packets)]
    /\ pc \in [Sessions -> Labels]
    /\ joined \subseteq Sessions
    /\ manager \in Sessions \cup {None}
    /\ todo \in [Sessions -> SUBSET Sessions]
    /\ idGenerator \in Nat \ {0}
    /\ player \in [Sessions -> Nat]
    /\ pool \subseteq Connections
    /\ conn \in [Sessions -> Connections \cup {None}]
    /\ count \in [Sessions -> Nat]
    /\ rows \in Seq(Nat)
    /\ said \in [Sessions -> Nat]
    /\ crashed \in {"no", "no player", "no connection", "insert refused"}

\* main of GameServer has filled the pool and created the table.
Init ==
    /\ stage = [s \in Sessions |-> "new"]
    /\ unsent = {}
    /\ rounds = 0
    /\ toServer = [s \in Sessions |-> <<>>]
    /\ toClient = [s \in Sessions |-> <<>>]
    /\ pc = [s \in Sessions |-> "new"]
    /\ joined = {}
    /\ manager = None
    /\ todo = [s \in Sessions |-> {}]
    /\ idGenerator = 1
    /\ player = [s \in Sessions |-> 0]
    /\ pool = Connections
    /\ conn = [s \in Sessions |-> None]
    /\ count = [s \in Sessions |-> 0]
    /\ rows = <<>>
    /\ said = [s \in Sessions |-> 0]
    /\ crashed = "no"

Go(s, l) == pc' = [pc EXCEPT ![s] = l]

\* Append packet p to the channel of s.
Post(channel, s, p) == [channel EXCEPT ![s] = Append(@, p)]

-----------------------------------------------------------------------------
(***************************************************************************)
(* The client.                                                             *)
(***************************************************************************)
\* OnConnected: the session is open to Broadcast before C_LOGIN is sent.
OnConnected_Add(s) ==
    /\ stage[s] = "new"
    /\ unsent = {}
    /\ stage' = [stage EXCEPT ![s] = "added"]
    /\ UNCHANGED <<unsent, rounds, netVars, pc, castVars, playerVars, dbVars,
                   said, crashed>>

OnConnected_Send(s) ==
    /\ stage[s] = "added"
    /\ stage' = [stage EXCEPT ![s] = "ready"]
    /\ toServer' = Post(toServer, s, "C_LOGIN")
    /\ UNCHANGED <<unsent, rounds, toClient, pc, castVars, playerVars, dbVars,
                   said, crashed>>

\* One round of main: Broadcast holds the lock of the client's SessionManager.
Main ==
    /\ unsent = {}
    /\ rounds < MaxBroadcasts
    /\ rounds' = rounds + 1
    /\ unsent' = {s \in Sessions : stage[s] # "new"}
    /\ UNCHANGED <<stage, netVars, pc, castVars, playerVars, dbVars, said, crashed>>

MainSend(s) ==
    /\ s \in unsent
    /\ unsent' = unsent \ {s}
    /\ toServer' = Post(toServer, s, "C_CHAT")
    /\ UNCHANGED <<stage, rounds, toClient, pc, castVars, playerVars, dbVars,
                   said, crashed>>

-----------------------------------------------------------------------------
(***************************************************************************)
(* The server's sessions: GameSession::OnConnected, OnDisconnected, and    *)
(* the worker that takes the next packet of a session.                     *)
(***************************************************************************)
Join(s) ==
    /\ pc[s] = "new"
    /\ manager = None
    /\ joined' = joined \cup {s}
    /\ Go(s, "idle")
    /\ UNCHANGED <<clientVars, netVars, manager, todo, playerVars, dbVars, said,
                   crashed>>

\* On another worker than the one that may be handling a packet of s.
Leave(s) ==
    /\ s \in joined
    /\ manager = None
    /\ joined' = joined \ {s}
    /\ UNCHANGED <<clientVars, netVars, pc, manager, todo, playerVars, dbVars,
                   said, crashed>>

HandlePacket(s, kind) ==
    /\ pc[s] = "idle"
    /\ Cardinality(Busy) < NumWorkers
    /\ toServer[s] # <<>>
    /\ Head(toServer[s]) = kind
    /\ toServer' = [toServer EXCEPT ![s] = Tail(@)]

-----------------------------------------------------------------------------
(***************************************************************************)
(* Handle_C_LOGIN.                                                         *)
(***************************************************************************)
\* Faulty variant: _currentPlayer is not set.
Handle_C_LOGIN_NoPlayer(s) ==
    /\ HandlePacket(s, "C_LOGIN")
    /\ idGenerator' = idGenerator + 1
    /\ said' = [said EXCEPT ![s] = 0]
    /\ Go(s, "login.send")
    /\ UNCHANGED <<clientVars, toClient, castVars, player, dbVars, crashed>>

Handle_C_LOGIN(s) ==
    /\ HandlePacket(s, "C_LOGIN")
    /\ player' = [player EXCEPT ![s] = idGenerator]
    /\ idGenerator' = idGenerator + 1
    /\ said' = [said EXCEPT ![s] = 0]
    /\ Go(s, "login.send")
    /\ UNCHANGED <<clientVars, toClient, castVars, dbVars, crashed>>

\* Send does nothing on a session that is not connected.
LoginSend(s) ==
    /\ pc[s] = "login.send"
    /\ toClient' = IF s \in joined
                   THEN Post(toClient, s,
                             [kind |-> "S_LOGIN", id |-> player[s], n |-> 0])
                   ELSE toClient
    /\ Go(s, "login.pop")
    /\ UNCHANGED <<clientVars, toServer, castVars, playerVars, dbVars, said, crashed>>

\* Faulty variant: the connection stays in the pool.
Pop_Shares(s, next) ==
    /\ \/ /\ \E c \in pool : conn' = [conn EXCEPT ![s] = c]
          /\ Go(s, next)
          /\ UNCHANGED crashed
       \/ pool = {} /\ crashed' = "no connection" /\ UNCHANGED <<conn, pc>>
    /\ UNCHANGED <<clientVars, netVars, castVars, playerVars, pool, count, rows,
                   said>>

\* DBConnectionPool::Pop, whose nullptr neither handler survives.
Pop(s, next) ==
    /\ \/ /\ \E c \in pool : conn' = [conn EXCEPT ![s] = c] /\ pool' = pool \ {c}
          /\ Go(s, next)
          /\ UNCHANGED crashed
       \/ pool = {} /\ crashed' = "no connection" /\ UNCHANGED <<pool, conn, pc>>
    /\ UNCHANGED <<clientVars, netVars, castVars, playerVars, count, rows, said>>

LoginPop(s) == pc[s] = "login.pop" /\ Pop(s, "login.insert")

\* INSERT INTO Count(count): the id of the row is the next of IDENTITY.
LoginInsert(s) ==
    /\ pc[s] = "login.insert"
    /\ rows' = Append(rows, 0)
    /\ Go(s, "push")
    /\ UNCHANGED <<clientVars, netVars, castVars, playerVars, pool, conn, count,
                   said, crashed>>

\* Faulty variant: the connection is not given back.
Push_Forgets(s) ==
    /\ pc[s] = "push"
    /\ conn' = [conn EXCEPT ![s] = None]
    /\ Go(s, "idle")
    /\ UNCHANGED <<clientVars, netVars, castVars, playerVars, pool, count, rows,
                   said, crashed>>

\* DBConnectionPool::Push, at the end of both handlers (and of their locals).
Push(s) ==
    /\ pc[s] = "push"
    /\ pool' = pool \cup {conn[s]}
    /\ conn' = [conn EXCEPT ![s] = None]
    /\ count' = [count EXCEPT ![s] = 0]
    /\ Go(s, "idle")
    /\ UNCHANGED <<clientVars, netVars, castVars, playerVars, rows, said, crashed>>

-----------------------------------------------------------------------------
(***************************************************************************)
(* Handle_C_CHAT.                                                          *)
(***************************************************************************)
\* _currentPlayer is dereferenced without a test.
Handle_C_CHAT(s) ==
    /\ HandlePacket(s, "C_CHAT")
    /\ IF player[s] = 0 THEN crashed' = "no player" /\ UNCHANGED pc
                        ELSE Go(s, "chat.lock") /\ UNCHANGED crashed
    /\ UNCHANGED <<clientVars, toClient, castVars, playerVars, dbVars, said>>

\* Faulty variant: Broadcast takes no lock.
ChatLock_NoLock(s) ==
    /\ pc[s] = "chat.lock"
    /\ todo' = [todo EXCEPT ![s] = joined]
    /\ Go(s, "chat.send")
    /\ UNCHANGED <<clientVars, netVars, joined, manager, playerVars, dbVars, said,
                   crashed>>

ChatLock(s) ==
    /\ pc[s] = "chat.lock"
    /\ manager = None
    /\ manager' = s
    /\ todo' = [todo EXCEPT ![s] = joined]
    /\ Go(s, "chat.send")
    /\ UNCHANGED <<clientVars, netVars, joined, playerVars, dbVars, said, crashed>>

ChatSend(s) ==
    /\ pc[s] = "chat.send"
    /\ \E c \in todo[s] :
          /\ toClient' = Post(toClient, c,
                              [kind |-> "S_CHAT", id |-> player[s], n |-> said[s] + 1])
          /\ todo' = [todo EXCEPT ![s] = @ \ {c}]
    /\ UNCHANGED <<clientVars, toServer, pc, joined, manager, playerVars, dbVars,
                   said, crashed>>

\* Faulty variant: the lock is kept.
ChatUnlock_KeepsLock(s) ==
    /\ pc[s] = "chat.send"
    /\ todo[s] = {}
    /\ Go(s, "chat.pop")
    /\ UNCHANGED <<clientVars, netVars, castVars, playerVars, dbVars, said, crashed>>

ChatUnlock(s) ==
    /\ pc[s] = "chat.send"
    /\ todo[s] = {}
    /\ manager' = None
    /\ Go(s, "chat.pop")
    /\ UNCHANGED <<clientVars, netVars, joined, todo, playerVars, dbVars, said,
                   crashed>>

ChatPop(s) == pc[s] = "chat.pop" /\ Pop(s, "chat.select")

\* Faulty variant: the column is not bound to count.
ChatSelect_NoBind(s) ==
    /\ pc[s] = "chat.select"
    /\ Go(s, IF player[s] \in DOMAIN rows THEN "chat.update" ELSE "chat.insert")
    /\ UNCHANGED <<clientVars, netVars, castVars, playerVars, dbVars, said, crashed>>

\* SELECT count WHERE id: Fetch tells whether there is a row.
ChatSelect(s) ==
    /\ pc[s] = "chat.select"
    /\ IF player[s] \in DOMAIN rows
       THEN count' = [count EXCEPT ![s] = rows[player[s]]] /\ Go(s, "chat.update")
       ELSE count' = [count EXCEPT ![s] = 0] /\ Go(s, "chat.insert")
    /\ UNCHANGED <<clientVars, netVars, castVars, playerVars, pool, conn, rows,
                   said, crashed>>

ChatUpdate(s) ==
    /\ pc[s] = "chat.update"
    /\ rows' = [rows EXCEPT ![player[s]] = count[s] + 1]
    /\ said' = [said EXCEPT ![s] = @ + 1]
    /\ Go(s, "push")
    /\ UNCHANGED <<clientVars, netVars, castVars, playerVars, pool, conn, count,
                   crashed>>

\* INSERT INTO Count(id, count): an explicit value for the IDENTITY column is
\* refused, and ASSERT_CRASH stops the server.
ChatInsert(s) ==
    /\ pc[s] = "chat.insert"
    /\ crashed' = "insert refused"
    /\ UNCHANGED <<clientVars, netVars, pc, castVars, playerVars, dbVars, said>>

-----------------------------------------------------------------------------
\* What the handler of s does by itself once it has begun.
Continue(s) ==
    \/ LoginSend(s) \/ LoginPop(s) \/ LoginInsert(s) \/ Push(s)
    \/ ChatLock(s) \/ ChatSend(s) \/ ChatUnlock(s) \/ ChatPop(s)
    \/ ChatSelect(s) \/ ChatUpdate(s) \/ ChatInsert(s)

Server(s) == Join(s) \/ Handle_C_LOGIN(s) \/ Handle_C_CHAT(s) \/ Continue(s)

Client(s) == OnConnected_Add(s) \/ OnConnected_Send(s) \/ MainSend(s)

Running ==
    /\ crashed = "no"
    /\ \/ Main
       \/ \E s \in Sessions : Client(s) \/ Server(s) \/ Leave(s)

\* The server has crashed, or everything sent was handled.
Rest ==
    /\ \/ crashed # "no"
       \/ /\ Busy = {}
          /\ unsent = {}
          /\ rounds = MaxBroadcasts
          /\ \A s \in Sessions :
                stage[s] = "ready" /\ pc[s] = "idle" /\ toServer[s] = <<>>
    /\ UNCHANGED vars

Next == Running \/ Rest

Spec == Init /\ [][Next]_vars

(***************************************************************************)
(* The client's threads and the server's workers keep running, connections *)
(* are accepted.  A worker that waits for the manager's lock gets it: the  *)
(* bound on the rounds leaves no endless contention.                       *)
(***************************************************************************)
Fairness ==
    \A s \in Sessions :
        /\ WF_vars(crashed = "no" /\ Client(s))
        /\ WF_vars(crashed = "no" /\ Server(s))

FairSpec == Spec /\ Fairness

-----------------------------------------------------------------------------
(***************************************************************************)
(* Properties.                                                             *)
(***************************************************************************)
\* Pop never returns nullptr: there are as many connections as workers, and a
\* worker never keeps one over the end of a handler.
PoolSuffices ==
    /\ \A s \in Sessions : pc[s] \in {"login.pop", "chat.pop"} => pool # {}
    /\ crashed # "no connection"

\* A connection (its statement handle and bindings) has one user at a time.
ConnectionPrivate ==
    \A s \in Sessions : conn[s] # None =>
        /\ conn[s] \notin pool
        /\ \A u \in Sessions \ {s} : conn[u] # conn[s]

\* The row of a player counts that player's chats (the comment at
\* ClientPacketHandler.cpp 196-198), though ids come from a counter and row ids
\* from IDENTITY, and the count is read and written by two statements.
CountsChats ==
    \A s \in Sessions :
        player[s] \in DOMAIN rows => rows[player[s]] = said[s]

\* When no login is under way the table has one row for each id given out.
RowForEveryPlayer ==
    (\A s \in Sessions : pc[s] \notin {"login.send", "login.pop", "login.insert"})
        => Len(rows) = idGenerator - 1

\* Where the chats are among the packets client c was sent.
Chats(c) == {i \in DOMAIN toClient[c] : toClient[c][i].kind = "S_CHAT"}

\* The chats two clients were both sent came to both in the same order, and (with
\* d = c) to none twice: the lock of Broadcast spans the sends to all sessions.
AgreeOnOrder ==
    \A c, d \in Sessions : \A i, j \in Chats(c), k, l \in Chats(d) :
        /\ i < j
        /\ toClient[c][i] = toClient[d][k]
        /\ toClient[c][j] = toClient[d][l]
        => k < l

\* A client that has sent C_LOGIN is answered, unless it is disconnected or the
\* server crashes.
LoginAnswered ==
    \A s \in Sessions :
        stage[s] = "ready" ~>
            \/ crashed # "no"
            \/ pc[s] # "new" /\ s \notin joined
            \/ \E i \in DOMAIN toClient[s] : toClient[s][i].kind = "S_LOGIN"

\* ASSERT_CRASH at ClientPacketHandler.cpp 241: the INSERT of an id and a count
\* is executed.
InsertAccepted == crashed # "insert refused"

\* A session whose next packet is a C_CHAT has no player only if that chat overtook
\* its own C_LOGIN, which is still to be sent or comes behind it, as one of the
\* client's main thread may: a session that has logged in has a player for good.
NoPlayerOnlyIfOvertaken ==
    \A s \in Sessions :
        player[s] = 0 /\ toServer[s] # <<>> /\ Head(toServer[s]) = "C_CHAT" =>
            \/ stage[s] = "added"
            \/ \E i \in DOMAIN toServer[s] : toServer[s][i] = "C_LOGIN"
=============================================================================

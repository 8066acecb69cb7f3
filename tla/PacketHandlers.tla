--------------------------- MODULE PacketHandlers ---------------------------
(***************************************************************************)
(* What the handlers of both programs do with bytes and with statements:   *)
(* packets are made in chunks that are used again, read through structs on *)
(* the other side, and answered over the statement handle of a connection  *)
(* that other handlers used before.                                        *)
(*                                                                         *)
(* One worker of the server and one of the client, and the client's main   *)
(* thread; how several workers interleave is the subject of ChatServer.    *)
(* What the other workers of the server did to the ids and the table comes *)
(* from Elsewhere.                                                         *)
(***************************************************************************)
EXTENDS Packets, DBConnection, FiniteSets, Integers

CONSTANTS
    Sessions,       \* one per connection of the client
    Connections,    \* DBConnections of the pool (5)
    Texts,          \* what main says ("Hello World")
    Elsewheres,     \* pairs <<n, m>>: others drew n ids and inserted m rows
    MaxChats,       \* bound on the rounds of the client's main loop
    MaxTests,       \* bound on the test packets
    ChunkSize,      \* SEND_BUFFER_CHUNK_SIZE (6000)
    OpenSize,       \* what every maker opens (4096)
    INT_MAX,        \* the largest int32 and the largest INT of a column (2147483647)
    None

ASSUME HandlersAssumption ==
    /\ ChunkSize \in Nat /\ OpenSize \in Nat /\ OpenSize <= ChunkSize
    /\ PKT_TEST_SIZE + 3 * ItemSize <= OpenSize
    /\ \A t \in Texts : Len(t) <= InPlace /\ t \in Seq(1 .. 255)
    /\ \A e \in Elsewheres : e \in Nat \X Nat /\ e[1] >= e[2]

ASSUME IntAssumption == INT_MAX \in Nat \ {0} /\ INT_MAX <= 2147483647

\* Far fewer logins are under way elsewhere at one time than an INT counts.
ASSUME UnderWayAssumption == \A e \in Elsewheres : e[1] - e[2] <= INT_MAX

Threads == {"main", "worker", "server"}
Process(t) == IF t = "server" THEN "GameServer" ELSE "DummyClient"

VARIABLES
    chunk,          \* LSendBufferChunk of each thread
    pool,           \* contents of the chunks in _sendBufferChunks of each process
    torn,           \* threads that wrote over a live part of the heap
    toServer,       \* packets on their way, with what they were made of
    toClient,
    ready,          \* sessions that are connected
    chats,          \* rounds of the client's main loop
    tests,          \* test packets the server has made
    shown,          \* what the last handler showed, and of which packet
    pc,             \* statement the server's worker is at
    at,             \* session whose packet it handles
    call,           \* calls of handlers begun: the stack frame of locals
    targetId,       \* locals of Handle_C_LOGIN and Handle_C_CHAT
    count,
    dbConn,
    dbPool,         \* GDBConnectionPool._connections
    stmt,           \* _statement of each connection
    idGenerator,
    player,         \* _currentPlayer->playerId, 0 while it is null
    nextRow,        \* next id IDENTITY gives out; above INT_MAX there is none
    rows,           \* counts of table Count that are not 0 or ours
    said,           \* chats of each session's player that were counted
    others,         \* Elsewhere has happened
    crashed

sendVars == <<chunk, pool, torn>>
netVars == <<toServer, toClient>>
clientVars == <<ready, chats>>
localVars == <<at, call, targetId, count, dbConn>>
dbVars == <<dbPool, stmt, nextRow, rows, said>>
idVars == <<idGenerator, player>>
vars == <<sendVars, netVars, clientVars, tests, shown, pc, localVars, dbVars,
          idVars, others, crashed>>

\* What an int32 holds of a number.
IntWidth == 2 * (INT_MAX + 1)
ToInt(v) ==
    LET low == v % IntWidth
    IN  IF low <= INT_MAX THEN low ELSE low - IntWidth

\* What a packet says, whatever its kind.
Blank == [kind |-> 0, id |-> 0, hp |-> 0, attack |-> 0, text |-> <<>>, buffs |-> <<>>]

\* Faulty variant: the buffer of a new chunk is left as the heap had it.
Fresh_Uninitialized ==
    [buffer |-> [i \in 1 .. ChunkSize |-> 205], used |-> 0,
     sizes |-> {}, recycled |-> FALSE]

\* A new SendBufferChunk.
Fresh == [buffer |-> [i \in 1 .. ChunkSize |-> 0], used |-> 0,
          sizes |-> {}, recycled |-> FALSE]

Init ==
    /\ chunk = [t \in Threads |-> Fresh]
    /\ pool = [p \in {"GameServer", "DummyClient"} |-> {}]
    /\ torn = {}
    /\ toServer = [s \in Sessions |-> <<>>]
    /\ toClient = [s \in Sessions |-> <<>>]
    /\ ready = {}
    /\ chats = 0
    /\ tests = 0
    /\ shown = [of |-> Blank, as |-> Blank, framed |-> TRUE]
    /\ pc = "start"
    /\ at = None
    /\ call = 0
    /\ targetId = 0
    /\ count = 0
    /\ dbConn = None
    /\ dbPool = {}
    /\ stmt = [c \in Connections |-> NewStatement]
    /\ idGenerator = 1
    /\ player = [s \in Sessions |-> 0]
    /\ nextRow = 1
    /\ rows = <<>>
    /\ said = [s \in Sessions |-> 0]
    /\ others = FALSE
    /\ crashed = "no"

-----------------------------------------------------------------------------
(***************************************************************************)
(* Making and sending a packet.                                            *)
(***************************************************************************)
\* SendBufferManager::Open: the chunk of t, or one of the pool or a new one in
\* its stead, when there is no room for OpenSize bytes.
Opened(t) ==
    IF ChunkSize - chunk[t].used >= OpenSize
    THEN {chunk[t]}
    ELSE {Fresh} \cup {[c EXCEPT !.used = 0, !.recycled = TRUE] : c \in pool[Process(t)]}

\* Thread t makes a packet by way of Maker and hands it to Deliver.  A chunk
\* it leaves returns to the pool: its packets have been sent.  The pool is kept
\* as the contents its chunks may have, so one that is taken stays in it: several
\* chunks may have the same.
Make(t, Maker(_), Deliver(_)) ==
    \E c \in Opened(t) :
        LET bw == Maker(Writer(c.buffer, c.used, OpenSize))
            left == IF c = chunk[t] THEN {} ELSE {chunk[t]}
        IN  /\ chunk' = [chunk EXCEPT ![t] =
                            [c EXCEPT !.buffer = bw.buffer, !.used = @ + bw.pos,
                                      !.sizes = @ \cup {bw.pos}]]
            /\ pool' = [pool EXCEPT ![Process(t)] = @ \cup left]
            /\ torn' = IF bw.sound THEN torn ELSE torn \cup {t}
            /\ Deliver(Packet(bw))

Sent(pkt, made) == [pkt |-> pkt, made |-> made]

\* Send to one session, and Broadcast to all that are connected.
Send(channel, s, m) == [channel EXCEPT ![s] = Append(@, m)]
Broadcast(channel, m) ==
    [s \in Sessions |-> IF s \in ready THEN Append(channel[s], m) ELSE channel[s]]

\* A handler shows what it read of packet m.
Show(m, as) ==
    shown' = [of |-> m.made, as |-> as, framed |-> Header(m.pkt).size = Len(m.pkt)]

\* What Handle_S_TEST and Handle_C_TEST show: nothing of an invalid packet.
TestShown(m, kind) ==
    LET p == PKT_TEST(m.pkt)
    IN  IF ~Validate(p) THEN Blank
        ELSE [kind |-> kind, id |-> p.id, hp |-> p.hp, attack |-> p.attack,
              text |-> p.name, buffs |-> BuffsList(m.pkt)]

-----------------------------------------------------------------------------
(***************************************************************************)
(* The client: ServerSession::OnConnected, the main loop, and the handlers *)
(* of ServerPacketHandler.  HandlePacket goes by the id of the header.     *)
(***************************************************************************)
OnConnected(s) ==
    /\ pc # "start"
    /\ s \notin ready
    /\ ready' = ready \cup {s}
    /\ Make("worker", Make_C_LOGIN,
            LAMBDA pkt : toServer' = Send(toServer, s,
                             Sent(pkt, [Blank EXCEPT !.kind = C_LOGIN])))
    /\ UNCHANGED <<toClient, chats, tests, shown, pc, localVars, dbVars, idVars,
                   others, crashed>>

Main(text) ==
    /\ ready # {}
    /\ chats < MaxChats
    /\ chats' = chats + 1
    /\ Make("main", LAMBDA bw : Make_C_CHAT(bw, text),
            LAMBDA pkt : toServer' = Broadcast(toServer,
                             Sent(pkt, [Blank EXCEPT !.kind = C_CHAT, !.text = text])))
    /\ UNCHANGED <<toClient, ready, tests, shown, pc, localVars, dbVars, idVars,
                   others, crashed>>

ToClient(s, id) ==
    /\ toClient[s] # <<>>
    /\ Header(Head(toClient[s]).pkt).id = id
    /\ toClient' = [toClient EXCEPT ![s] = Tail(@)]

Handle_S_LOGIN(s) ==
    LET m == Head(toClient[s])
    IN  /\ ToClient(s, S_LOGIN)
        /\ Show(m, [Blank EXCEPT !.kind = S_LOGIN, !.id = PKT_S_LOGIN(m.pkt).id])
        /\ UNCHANGED <<sendVars, toServer, clientVars, tests, pc, localVars,
                       dbVars, idVars, others, crashed>>

Handle_S_CHAT(s) ==
    LET m == Head(toClient[s])
        p == PKT_S_CHAT(m.pkt)
    IN  /\ ToClient(s, S_CHAT)
        /\ Show(m, [Blank EXCEPT !.kind = S_CHAT, !.id = p.id, !.text = p.msg])
        /\ UNCHANGED <<sendVars, toServer, clientVars, tests, pc, localVars,
                       dbVars, idVars, others, crashed>>

\* The buffs of the answer are fixed, whatever those of the packet were.
Answer == <<<<100, 15>>, <<200, 23>>, <<300, 7>>>>

Handle_S_TEST(s) ==
    LET m == Head(toClient[s])
        p == TestShown(m, S_TEST)
        made == [p EXCEPT !.kind = C_TEST, !.buffs = Answer]
    IN  /\ ToClient(s, S_TEST)
        /\ Show(m, p)
        /\ IF p = Blank THEN UNCHANGED <<sendVars, toServer>>
           ELSE Make("worker",
                     LAMBDA bw : Make_C_TEST(bw, p.id, p.hp, p.attack, Answer, p.text),
                     LAMBDA pkt : toServer' = Broadcast(toServer, Sent(pkt, made)))
        /\ UNCHANGED <<clientVars, tests, pc, localVars, dbVars, idVars, others,
                       crashed>>

Client(s) ==
    \/ OnConnected(s) \/ Handle_S_LOGIN(s) \/ Handle_S_CHAT(s) \/ Handle_S_TEST(s)

-----------------------------------------------------------------------------
(***************************************************************************)
(* main of the server, up to its sessions: the pool of connections and the *)
(* table.                                                                  *)
(***************************************************************************)
\* DBConnection::Connect for the next connection of the pool; ASSERT_CRASH
\* when it fails.
Connect ==
    /\ pc = "start"
    /\ \/ \E c \in Connections \ dbPool :
             /\ dbPool' = dbPool \cup {c}
             /\ stmt' = [stmt EXCEPT ![c] = NewStatement]
             /\ UNCHANGED crashed
       \/ Connections \ dbPool # {} /\ crashed' = "startup" /\ UNCHANGED <<dbPool, stmt>>
    /\ UNCHANGED <<sendVars, netVars, clientVars, tests, shown, pc, localVars,
                   nextRow, rows, said, idVars, others>>

CreateTable ==
    /\ pc = "start"
    /\ dbPool = Connections
    /\ pc' = "idle"
    /\ \E c \in dbPool : Accepts(stmt[c], 0)
    /\ rows' = <<>>
    /\ nextRow' = 1
    /\ UNCHANGED <<sendVars, netVars, clientVars, tests, shown, localVars, dbPool,
                   stmt, said, idVars, others, crashed>>

\* Logins on other workers: each draws an id and inserts a row, or is about to;
\* none of them crashed for want of an id for its row.
Elsewhere ==
    /\ pc = "idle"
    /\ ~others
    /\ \E e \in Elsewheres :
          /\ nextRow + e[2] <= INT_MAX + 1
          /\ idGenerator' = idGenerator + e[1]
          /\ nextRow' = nextRow + e[2]
    /\ others' = TRUE
    /\ UNCHANGED <<sendVars, netVars, clientVars, tests, shown, pc, localVars,
                   dbPool, stmt, rows, said, player, crashed>>

-----------------------------------------------------------------------------
(***************************************************************************)
(* The handlers of ClientPacketHandler.                                    *)
(***************************************************************************)
ToServer(s, id) ==
    /\ pc = "idle"
    /\ toServer[s] # <<>>
    /\ Header(Head(toServer[s]).pkt).id = id
    /\ toServer' = [toServer EXCEPT ![s] = Tail(@)]

Handle_C_TEST(s) ==
    LET m == Head(toServer[s])
    IN  /\ ToServer(s, C_TEST)
        /\ Show(m, TestShown(m, C_TEST))
        /\ UNCHANGED <<sendVars, toClient, clientVars, tests, pc, localVars,
                       dbVars, idVars, others, crashed>>

\* Numbers that fill more than half of their fields.
TestOf(buffs, text) ==
    [kind |-> S_TEST, id |-> 70000, hp |-> 100000, attack |-> 300, text |-> text,
     buffs |-> buffs]

\* A call of Make_S_TEST; the repository has the maker and both handlers, and
\* nobody who calls it.
SendTest(s, buffs, text) ==
    /\ pc = "idle"
    /\ s \in ready
    /\ tests < MaxTests
    /\ tests' = tests + 1
    /\ LET made == TestOf(buffs, text)
       IN  Make("server",
                LAMBDA bw : Make_S_TEST(bw, made.id, made.hp, made.attack, buffs, text),
                LAMBDA pkt : toClient' = Send(toClient, s, Sent(pkt, made)))
    /\ UNCHANGED <<toServer, clientVars, shown, pc, localVars, dbVars, idVars,
                   others, crashed>>

Local(var) == [var |-> var, call |-> call]

\* The value of the parameter at index: a local of the running handler, or what
\* is left on the stack of one that has returned.
Value(s, index) ==
    LET v == s.params[index]
    IN  IF v.call # call THEN 16000000 ELSE IF v.var = "count" THEN count ELSE targetId

\* Push, and the end of the handler.
Return(c) ==
    /\ dbPool' = dbPool \cup {c}
    /\ dbConn' = None
    /\ at' = None
    /\ pc' = "idle"

Handle_C_LOGIN(s) ==
    LET m == Head(toServer[s])
    IN  /\ ToServer(s, C_LOGIN)
        /\ Show(m, [Blank EXCEPT !.kind = C_LOGIN])
        /\ player' = [player EXCEPT ![s] = idGenerator]
        /\ idGenerator' = idGenerator + 1
        /\ Make("server", LAMBDA bw : Make_S_LOGIN(bw, idGenerator),
                LAMBDA pkt : toClient' = Send(toClient, s,
                    Sent(pkt, [Blank EXCEPT !.kind = S_LOGIN, !.id = idGenerator])))
        /\ at' = s
        /\ call' = call + 1
        /\ said' = [said EXCEPT ![s] = 0]
        /\ pc' = "login.bind"
        /\ UNCHANGED <<clientVars, tests, targetId, count, dbConn, dbPool, stmt,
                       nextRow, rows, others, crashed>>

LoginBind ==
    /\ pc = "login.bind"
    /\ count' = 0
    /\ \E c \in dbPool :
          /\ dbConn' = c
          /\ dbPool' = dbPool \ {c}
          /\ stmt' = [stmt EXCEPT ![c] = BindParam(Unbind(@), 1, Local("count"))]
    /\ pc' = "login.insert"
    /\ UNCHANGED <<sendVars, netVars, clientVars, tests, shown, at, call, targetId,
                   nextRow, rows, said, idVars, others, crashed>>

\* INSERT INTO Count(count) VALUES(?); its bindings stay with the connection.
\* Refused when IDENTITY has given out the last id of an INT.
LoginInsert ==
    /\ pc = "login.insert"
    /\ IF Accepts(stmt[dbConn], 1) /\ nextRow <= INT_MAX
       THEN /\ rows' = Bound(rows, nextRow, Value(stmt[dbConn], 1))
            /\ nextRow' = nextRow + 1
            /\ Return(dbConn)
            /\ UNCHANGED crashed
       ELSE /\ crashed' = IF Accepts(stmt[dbConn], 1) THEN "no id left" ELSE "refused"
            /\ UNCHANGED <<rows, nextRow, dbPool, dbConn, at, pc>>
    /\ UNCHANGED <<sendVars, netVars, clientVars, tests, shown, call, targetId,
                   count, stmt, said, idVars, others>>

Handle_C_CHAT(s) ==
    LET m == Head(toServer[s])
        p == PKT_C_CHAT(m.pkt)
        made == [Blank EXCEPT !.kind = S_CHAT, !.id = player[s], !.text = p.msg]
    IN  /\ ToServer(s, C_CHAT)
        /\ IF player[s] = 0
           THEN /\ crashed' = "no player"
                /\ UNCHANGED <<sendVars, toClient, shown, at, call, pc>>
           ELSE /\ Show(m, [Blank EXCEPT !.kind = C_CHAT, !.text = p.msg])
                /\ Make("server", LAMBDA bw : Make_S_CHAT(bw, player[s], p.msg),
                        LAMBDA pkt : toClient' = Broadcast(toClient, Sent(pkt, made)))
                /\ at' = s
                /\ call' = call + 1
                /\ pc' = "chat.bind"
                /\ UNCHANGED crashed
        /\ UNCHANGED <<clientVars, tests, targetId, count, dbConn, dbVars, idVars,
                       others>>

\* The id, of 64 bits, goes into an int32.
ChatBind ==
    /\ pc = "chat.bind"
    /\ targetId' = ToInt(player[at])
    /\ count' = 0
    /\ \E c \in dbPool :
          /\ dbConn' = c
          /\ dbPool' = dbPool \ {c}
          /\ stmt' = [stmt EXCEPT ![c] =
                         BindCol(BindParam(Unbind(@), 1, Local("targetId")),
                                 1, Local("count"))]
    /\ pc' = "chat.select"
    /\ UNCHANGED <<sendVars, netVars, clientVars, tests, shown, at, call,
                   nextRow, rows, said, idVars, others, crashed>>

Row(id) ==
    IF id \in 1 .. nextRow - 1
    THEN <<IF id \in DOMAIN rows THEN rows[id] ELSE 0>> ELSE <<>>

\* SELECT count FROM Count WHERE id = ?
ChatSelect ==
    /\ pc = "chat.select"
    /\ IF Accepts(stmt[dbConn], 1)
       THEN /\ stmt' = [stmt EXCEPT ![dbConn] = Select(@, Row(Value(@, 1)))]
            /\ pc' = "chat.fetch"
            /\ UNCHANGED crashed
       ELSE crashed' = "refused" /\ UNCHANGED <<stmt, pc>>
    /\ UNCHANGED <<sendVars, netVars, clientVars, tests, shown, localVars, dbPool,
                   nextRow, rows, said, idVars, others>>

\* Faulty variant: the two parameters of the next statement are bound in the
\* order of the first one.
ChatFetch_Swapped ==
    /\ pc = "chat.fetch"
    /\ count' = IF HasRow(stmt[dbConn])
                THEN ToInt(Head(stmt[dbConn].cursor.rows) + 1) ELSE count
    /\ stmt' = [stmt EXCEPT ![dbConn] =
                   BindParam(BindParam(Unbind(@), 1, Local("targetId")),
                             2, Local("count"))]
    /\ pc' = IF HasRow(stmt[dbConn]) THEN "chat.update" ELSE "chat.insert"
    /\ UNCHANGED <<sendVars, netVars, clientVars, tests, shown, at, call, targetId,
                   dbConn, dbPool, nextRow, rows, said, idVars, others, crashed>>

\* Fetch stores the row in the variable bound to column 1.  With a row or
\* without one the next statement has the count and the id for parameters.
ChatFetch ==
    LET s == Fetch(stmt[dbConn])
    IN  /\ pc = "chat.fetch"
        /\ count' = IF HasRow(stmt[dbConn]) /\ s.cols[1] = Local("count")
                    THEN ToInt(Head(stmt[dbConn].cursor.rows) + 1) ELSE count
        /\ stmt' = [stmt EXCEPT ![dbConn] =
                       BindParam(BindParam(Unbind(s), 1, Local("count")),
                                 2, Local("targetId"))]
        /\ pc' = IF HasRow(stmt[dbConn]) THEN "chat.update" ELSE "chat.insert"
        /\ UNCHANGED <<sendVars, netVars, clientVars, tests, shown, at, call,
                       targetId, dbConn, dbPool, nextRow, rows, said, idVars,
                       others, crashed>>

\* UPDATE Count SET count = ? WHERE id = ?
ChatUpdate ==
    LET s == stmt[dbConn]
    IN  /\ pc = "chat.update"
        /\ IF Accepts(s, 2)
           THEN /\ rows' = IF Value(s, 2) \in 1 .. nextRow - 1
                           THEN Bound(rows, Value(s, 2), Value(s, 1)) ELSE rows
                /\ said' = [said EXCEPT ![at] = @ + 1]
                /\ stmt' = [stmt EXCEPT ![dbConn] = Unbind(@)]
                /\ Return(dbConn)
                /\ UNCHANGED crashed
           ELSE /\ crashed' = "refused"
                /\ UNCHANGED <<rows, said, stmt, dbPool, dbConn, at, pc>>
        /\ UNCHANGED <<sendVars, netVars, clientVars, tests, shown, call, targetId,
                       count, nextRow, idVars, others>>

\* INSERT INTO Count(id, count): refused, IDENTITY_INSERT is off.
ChatInsert ==
    /\ pc = "chat.insert"
    /\ crashed' = IF Accepts(stmt[dbConn], 2) THEN "explicit id" ELSE "refused"
    /\ UNCHANGED <<sendVars, netVars, clientVars, tests, shown, pc, localVars,
                   dbVars, idVars, others>>

-----------------------------------------------------------------------------
Buffs == {<<>>, <<<<1, 2>>, <<3, 4>>>>}

Server ==
    \/ Connect \/ CreateTable \/ Elsewhere
    \/ \E s \in Sessions : Handle_C_TEST(s) \/ Handle_C_LOGIN(s) \/ Handle_C_CHAT(s)
    \/ \E s \in Sessions, b \in Buffs, t \in Texts : SendTest(s, b, t)
    \/ LoginBind \/ LoginInsert
    \/ ChatBind \/ ChatSelect \/ ChatFetch \/ ChatUpdate \/ ChatInsert

Running ==
    /\ crashed = "no"
    /\ torn = {}
    /\ \/ \E s \in Sessions : Client(s)
       \/ \E t \in Texts : Main(t)
       \/ Server

\* A program has crashed, or everything sent was handled.
Rest ==
    /\ \/ crashed # "no"
       \/ torn # {}
       \/ /\ pc = "idle"
          /\ ready = Sessions
          /\ chats = MaxChats
          /\ \A s \in Sessions : toServer[s] = <<>> /\ toClient[s] = <<>>
    /\ UNCHANGED vars

Next == Running \/ Rest

Spec == Init /\ [][Next]_vars

-----------------------------------------------------------------------------
(***************************************************************************)
(* Properties.                                                             *)
(***************************************************************************)
\* What a handler shows is what the maker on the other side was told, byte for
\* byte through two declarations of the same packet; but PKT_S_CHAT has 16 bits
\* for an id of 64.
ShownAsMade ==
    /\ shown.framed
    /\ shown.as = IF shown.of.kind = S_CHAT
                  THEN [shown.of EXCEPT !.id = @ % 65536] ELSE shown.of

\* operator<< assigns to a string that is made up of whatever the chunk held.
\* That is harmless in a new chunk and in one that held packets of one size
\* only, as the chunks of the client's main thread; in a chunk that comes back
\* from the pool after packets of several sizes it may release a wild address.
TornOnlyOverMixed ==
    \A t \in torn : chunk[t].recycled /\ Cardinality(chunk[t].sizes) > 1

\* No statement is executed, and no row fetched, with a binding to a local of a
\* handler that has returned, though Handle_C_LOGIN gives its connection back
\* with its parameter bound.
BindingsLive ==
    pc \in {"login.insert", "chat.select", "chat.fetch", "chat.update", "chat.insert"}
        => \A v \in Variables(stmt[dbConn]) : v.call = call

\* The driver accepts every statement: all markers are bound, and no cursor of
\* an earlier SELECT is open, on whichever connection it is.
StatementsAccepted == crashed # "refused"

\* The row of each player holds the number of its chats, as far as an INT counts:
\* UPDATE writes what was fetched plus one, into the row of the player who spoke,
\* though its id of 64 bits goes through an int32.
RowsCountChats ==
    \A s \in Sessions :
        player[s] \in DOMAIN rows /\ player[s] < nextRow
            => rows[player[s]] = ToInt(said[s])
=============================================================================

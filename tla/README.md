# Verification of Chatting_Server2

TLA+ specifications of the chat server in this repository: an IOCP network core
(`ServerCore`), the server built on it (`GameServer`) and its test client
(`DummyClient`). The modules are checked by TLC on small instances; the
theorems in the `*Proofs` modules are proved by TLAPS for every value of the
constants.

| module | what it specifies | code it stands for |
|---|---|---|
| `SendChannel` | what `Session::Send` promises (abstract) | - |
| `Session` | one session, the threads in it, its socket | `Session.cpp`, `IocpCore.cpp`, the session hooks |
| `Service` | both services with all their sessions, accepts and connects, and TCP between them | `Listener.cpp`, `Service.cpp`, `main` of both programs, `Session.cpp` as seen from outside |
| `RecvBuffer` | the receive buffer and the parsing loop | `RecvBuffer.cpp`, `PacketSession::OnRecv` |
| `SendBufferPool` | packets, chunks and the pool they come from | `SendBuffer.cpp`, and its use in `Session.cpp` and the packet handlers |
| `RWLock` | a re-entrant reader-writer lock (abstract) | - |
| `Lock` | the spin lock by its atomic steps | `Lock.cpp`, guards of `Lock.h` |
| `LockSearch` | the search for a cycle of lock orders | `CheckCycle` and `Dfs` of `DeadLockProfiler.cpp` |
| `DeadLockProfiler` | the profiler, and the threads and locks it watches; extends `LockSearch` | `DeadLockProfiler.cpp`, its calls in `Lock.cpp` |
| `ChatServer` | the chat program above the sessions, handlers interleaved | `ClientPacketHandler.cpp`, `GameSessionManager.cpp`, `DBConnectionPool.cpp`, `GameServer.cpp`, `DummyClient` |
| `Packets` | the packets byte by byte: makers and structs | `BufferReader.*`, `BufferWriter.*`, `Make_*` and `PKT_*` of both programs |
| `DBConnection` | one ODBC statement handle | `DBConnection.cpp`, `DBConnection.h` |
| `PacketHandlers` | the handlers of both programs over bytes and statements; composes `Packets` and `DBConnection` | `ClientPacketHandler.cpp`, `ServerPacketHandler.cpp`, `SessionManager.cpp`, `DBConnectionPool.cpp`, `GameServer.cpp` |
| `SessionProofs`, `ServiceProofs`, `RecvBufferProofs`, `LockProofs`, `ChatServerProofs`, `SendBufferPoolProofs`, `DeadLockProfilerProofs`, `PacketHandlersProofs` | theorems and their proofs | |
| `MCSession`, `MCChatServer`, `MCSendBufferPool`, `MCDeadLockProfiler`, `MCPacketHandlers` | symmetry sets and constants for TLC | |

## 1. Inventory

### The network core

**Session** (`ServerCore/Session.*`). State: `_connected` and `_sendRegistered`
(atomics), `_sendQueue` and its lock, one event object (OVERLAPPED) each for
connect, disconnect, receive and send, `_recvBuffer`. Operations: `Send` from any
thread; `RegisterX` posts an overlapped operation, `ProcessX` handles its
completion on whichever worker dispatched it; `Disconnect` may be called from
any of them. Hard: two atomics and a lock instead of one lock around
everything; the send event is used by whoever won an exchange; `_recvBuffer` has
no lock; references of events to the session are all that keeps it alive
while an operation is outstanding; WSASend, WSARecv and DisconnectEx may fail
at once. Correct when: the events and buffers have one user at a time, what
the kernel uses is pinned, no queued packet is forgotten, packets leave in
order and once, the end of the connection is noticed and the session released
exactly once.

**IocpCore, IocpEvent** dispatch a completion to the owner of its event, a failed one
with `numOfBytes` 0 like one that succeeded.
**Listener** (`ServerCore/Listener.*`). State: the listening socket and the accept events,
each with the session its AcceptEx will connect. `RegisterAccept` makes a session and posts
AcceptEx, and tries again when that fails; `ProcessAccept` hands the session on and
calls `RegisterAccept`. Hard: the server has one accept event, so one path that does not
arm it again ends the service for everybody. Correct when an event always is
outstanding or in a thread that will arm it, and its session is nobody else's.
**Service** (`ServerCore/Service.*`). State: `_sessions` under a lock and `_sessionCount`.
`CreateSession`, `AddSession`, `ReleaseSession` (with `ASSERT_CRASH` if the session is
not in the set), `Start`. Hard: the count, the set and the content's manager are changed by
different threads at different times; calls that fail are logged and
forgotten. Correct when they agree and no session is left in the set without a way out.
**RecvBuffer, PacketSession** collect bytes and cut them into packets:
`WritePos` where WSARecv writes, `ReadPos` where parsing goes on, `Clean` moves an
incomplete packet to the front. Correct when the buffer never overflows, never
posts an empty receive, the `memcpy` of `Clean` never overlaps, and packets are
handed over whole, in order, once, however the stream is split.
**SendBuffer, SendBufferChunk, SendBufferManager** write outgoing packets one behind the
other into the chunk of the thread (`LSendBufferChunk`). State: `_open` and `_usedSize` of
a chunk, the references of packets to their chunk, the pool of chunks under a lock.
Hard: a packet lives until the last session has sent it, on any thread, and the chunk
behind it must not be reused before. Correct when a packet's bytes stay, a chunk
has one user, and every chunk comes back to the pool once.
**Lock** is a reader-writer spin lock in one 32-bit word; `WRITE_LOCK` guards
use it everywhere. Hard: compare-and-swap races, re-entrance, the order of
unlocking, the order of `_writeCount` and the word.
**DeadLockProfiler** (debug builds). State: `_nameToId`, `_lockHistory`, and a stack of lock
names per thread; the depth-first search keeps `_discoveredOrder`, `_finished`, `_parent`.
`Lock` calls `PushLock` before it waits and `PopLock` before it releases. Hard: an order
of locks is dangerous long after the threads that showed it have gone, and a search that takes
a cross edge for a cycle stops a program without reason. Correct when it reports every
deadlock of two names before it happens, and reports cycles of recorded orders only (such a cycle
is not always a deadlock that can happen: threads that a third lock keeps apart show one too).
**BufferReader, BufferWriter** read and write at a cursor; `operator<<` writes objects,
`std::string` among them, by assignment to the memory at the cursor. **Memory** and its
pools, **ThreadManager**, **SocketUtils**, **NetAddress**, **RefCounting**, **TypeCast**: support.

### The server

**GameSession, GameSessionManager**: the set of connected sessions under a lock,
`Broadcast` holds it over the sends to all of them.
**ClientPacketHandler, Player**: `Handle_C_LOGIN` draws an id, creates the player,
answers, inserts a row; `Handle_C_CHAT` broadcasts, then reads and rewrites the
player's count; `Handle_C_TEST` prints a packet with a list. **DBConnectionPool** is a stack of
connections under a lock, **DBConnection** wraps an ODBC statement handle: parameters
and columns bound by address, an open cursor after a SELECT. **main** fills the pool with
five connections, creates table `Count` and starts five workers. Hard: handlers of different
sessions interleave at every lock and every database statement; ids are drawn twice, by
an atomic counter and by the table's IDENTITY column; a statement handle keeps its
bindings when its connection goes back to the pool. Correct when the pool suffices, a
connection is private and takes every statement, clients agree on the order of chats,
counts are right, every login is answered.

### The client

**DummyClient main** opens five sessions and broadcasts a chat each second;
**ServerSession** registers itself with **SessionManager** in `OnConnected` and then
sends C_LOGIN. **ServerPacketHandler** prints what it gets, and answers S_TEST with a
broadcast of C_TEST. Each program declares every packet for itself: makers in one,
packed structs in the other. Correct when what is read is what was written.

### How they interact

Workers call `IocpCore::Dispatch`, which calls `Session::Dispatch`, which calls the
content's `OnConnected`, `OnRecvPacket`, `OnDisconnected`; these call the manager and
the database pool, and `Send` on any session. Lock order: the manager's lock, then a
session's, then those of the send-buffer manager. The completion of a send
holds the session's lock and never wants the manager's.

`PROJECT.json` lists every component with its status, every hazard with the
properties that cover it, and the lines each definition translates.

## 2. Modules and how they follow the code

**Session.** A thread's place is three labels: `act` (the handler), `snd` (inside
`Send`/`RegisterSend`), `disc` (inside `Disconnect`); a call sets the callee's label
and the caller waits. One action per stretch of code between two accesses to shared
state; so `RegisterSend` is `RegisterSend` (test of `_connected`, reference),
`RegisterSendDrain` (the queue into the event), `WSASend` and its error path
(`SendFailed`, `SendUnflag`). `io[e]` is the state of the overlapped operation of event
`e`, `owner[e]` the reference it holds, `sock` the connection. `PostOutcomes` says what
WSARecv and WSASend may return in each state of the connection; the completions
(`CompleteX`) are the external part. `Role` selects GameSession (accepted, answers
from OnRecv, other workers broadcast to it) or ServerSession (ConnectEx, greeting from
OnConnected, the main thread broadcasts). What a packet says is in the next modules.

Session's locks are taken as re-entrant locks; module `Lock` is where that is shown.
`RecvBufferExclusive` is what lets `RecvBuffer` be sequential, and `ImplementsChannel`
and `RecvBufferExclusive` are what let `ChatServer` have one FIFO channel and one
handler per session.

**Service.** A session is seen from outside: connected or not, in the service's set
(`sessions`) and the manager's (`joined`), and which of its operations are outstanding. A
thread's `pc` is "accept", "connect" or "recv": `RegisterAccept`, then `AddSession` (with
OnConnected), then the first `RegisterRecv`, after which a server's worker returns to
`RegisterAccept`, as `ProcessAccept` does. `Conns` are the client's sessions, each with a
TCP connection (`link`), and `Accepted` the memory for sessions of the server: a session that
nobody refers to any more (`Unreferenced`: no set, no operation, no event, no thread) may be the next
one that `CreateSession` makes, as shared_ptr allows. `Fault` marks the calls that fail without
cause; `failed` records history for one property and is read by no guard. Data, its sending and the
steps inside a handler are left to `Session`.

**RecvBuffer.** The stream's bytes are numbered; a cell holds the number of its byte.
`ProcessRecv(n)` is a completion with `n` bytes, `OnRecv`/`OnRead` the loop and its
cursor, `Clean` the move. A `memcpy` of overlapping regions is undefined, so
`MoveToFront` leaves cells that hold no byte of the stream in that case.

**Lock.** One action per atomic access of `WriteLock`, `WriteUnlock`, `ReadLock`,
`ReadUnlock`; the halves of `_lockFlag` are the fields `writer` and `readers`; a crash
of the code is the label "crash" of the thread. `Request` is the construction of a
guard, unlocks happen in the reverse order of the locks because guards are local
objects. `Abstract` maps it to `RWLock`.

**LockSearch.** `CheckCycle` and the recursive `Dfs`, one step for each pass of a loop. The
calls of `Dfs` are a stack of frames (`calls`), each with its lock and the locks its loop has yet to
look at; `Visit`, `Skip` and `FindCycle` are the branches of that loop, `Return` its end. `now` is the
loop variable of the walk that prints a cycle (`PrintOrder`).

**DeadLockProfiler.** `PushLock` is the code up to the search: the name's id, the new edge.
A new edge sets `asks`, which stands for the profiler's mutex, held while the search runs: other threads
acquire and release locks meanwhile, but none pushes or pops. `PushLock_End` is the end of the
call, `Crash` the one after a printed cycle. `Over` clears the search's count and
loop variable too, which nobody reads between two searches.
`Acquire` and `Unlock` are the lock itself, in one step each; `Blocks` says whom it makes wait.
`LockTimeout` is ACQUIRE_TIMEOUT_TICK.

**ChatServer.** `pc[s]` is the statement the handler of a packet of session `s` is at;
at most `NumWorkers` handlers run. Each database statement is one atomic step
(autocommit). `rows` is table Count: a sequence, because IDENTITY numbers rows from 1
without gaps (no INSERT fails before one crashes the server). `Leave` is the
disconnection, on another worker than the one in the handler; packets already received
are still handled. `said` and `toClient` record history and are read by no guard.
`crashed` says which dereference or ASSERT_CRASH stopped the server.

**SendBufferPool.** Packets are numbered as they are made and a cell of a chunk holds the
number of the packet last written there; what a packet says does not matter here.
`Open` (SendBufferManager), `Pop`, `Assign`, `Reset`, `ChunkOpen` (SendBufferChunk) and `Close`
are the statements of making a packet, `Send`, `Return` and `Clear` hand out and drop the
shared_ptrs to it. Reference counts are not variables: `holders` names who has the packet,
`Referenced` says who has the chunk. A reference to a chunk is given up in two
steps (`dying`, then `Release`), because the deleter `PushGlobal` runs later than the decision to
drop it. A packet is 1 to `AllocSize` bytes; every Make_ function asks for 4096.

**Packets.** Operators only. A maker is a chain of `BufferWriter` calls on a record for the
writer, a `PKT_` operator reads the fields at the offsets of the packed struct. Numbers are their
bytes (`Digits`, and `Number` back), up to 64 bits. The items of a list are one store at the place the writer
has reserved, as the loop over the list leaves them.
`StringBytes` is a `std::string` as the object it is (16 characters in place, size, capacity): both
programs send it raw. Assigning to it first looks at what was there, so a writer is
`sound` only while those bytes are zero or such a string.

**DBConnection.** One record per statement handle. A binding is the name of a local variable and the
number of the call it is a local of, which is how a stale address is told from a live one.

**PacketHandlers.** One worker and the main thread of the client, one worker of the server, so that bytes
and statements can be followed; `Elsewhere` stands for what the other workers did to the ids and the table
meanwhile. `INT_MAX` is the width of the columns `id` and `count` and of the locals `targetId` and `count`:
an id of 64 bits goes through `ToInt` in `ChatBind`, `count++` in `ChatFetch`, and `LoginInsert` is refused,
and the server stops, when IDENTITY has no id left. `said` counts the chats of a session's current player (a
second C_LOGIN makes a new one) and is read by no guard. Each thread has its chunk; one it leaves is pooled
and comes back with its old bytes, or a new zeroed one comes (`Opened`). `pool` is the set of the contents
pooled chunks may have, so a content that was taken may come again (which chunk is whose is the subject of
`SendBufferPool`). Nobody calls `Make_S_TEST`; `SendTest` does, so that its maker and both handlers of it
are checked.

`MaxPackets`, `MaxSends`, `MaxBytes`, `MaxDepth`, `MaxLocks`, `MaxBroadcasts`, `MaxChats`, `MaxTests`, and
`MaxFaults` bound what the programs and the system do without end, as guards of the actions that would go
on.

Definitions called "faulty variant" are not part of a specification: each is a
definition with a plausible bug, and each property is known to fail when one of them
replaces the original (`PROJECT.json`, "mutants").

## 3. Runs

| run | config | bounds | shows |
|---|---|---|---|
| session_faults | `Session_server_faults` | 3 workers, 3 packets, all failures | `SendEventExclusive`, `RecvBufferExclusive`, `OutstandingPinned`, `NoEmptySend`, `RegistrationOrdered`, no deadlock |
| session_server | `Session_server_sound` | 2 workers, 3 packets, connection may be lost | `NoStrandedQueue`, `Listening`, refinement of `SendChannel` with its liveness, `LostConnectionReleased` |
| session_client | `Session_client` | 2 workers and main, 3 packets | refinement of `SendChannel`, for the client |
| session_send_error | `Session_send_error` | 2 workers, 3 packets | **violation** of `NoStrandedQueue` |
| service | `Service` | 2 client sessions, 4 server sessions, 1 accept event, 2 + 1 workers, 1 fault | `KeepsAccepting`, `AcceptsFreshSession`, `RegistersAgree`, `AbandonedOnlyAfterFailure`, `EveryClientServed` |
| recv_buffer | `RecvBuffer` | buffer 3 x 4, packets of 2 and 3, 22 bytes | `RoomToRecv`, `CleanDisjoint`, `WindowIntact`, `NothingLeftUnparsed`, `DeliveredWhole` |
| send_buffer | `SendBufferPool` | 2 threads, 2 sessions, 3 chunks of 3, packets of 1 or 2, 4 packets | `ContentIntact`, `ChunkExclusive`, `NoChunkLost`, `NoCrash` |
| lock | `Lock` | 3 threads, 3 guards, depth 2, 5 locks | `NoCrash`, `EveryWaitEnds`, refinement of `RWLock` |
| deadlock_profiler | `DeadLockProfiler` | 2 threads, 4 locks of 3 names, depth 2 | `ReportsDeadlock`, `ProfilerExact` (`SearchExact`, `PrintsOrders`, `UnlocksMatch`) |
| chat | `Chat` | 2 sessions, 2 workers, 2 connections, 2 broadcasts | `PoolSuffices`, `ConnectionPrivate`, `AgreeOnOrder`, `CountsChats`, `NoPlayerOnlyIfOvertaken`, `LoginAnswered` |
| chat_insert | `Chat_insert` | 2 sessions, 2 broadcasts | **violation** of `InsertAccepted` |
| handlers | `PacketHandlers` | 1 session, 2 connections, 3 chats, 1 test packet, chunk 110, open 92 | `ShownAsMade`, `TornOnlyOverMixed`, `BindingsLive`, `StatementsAccepted`, `RowsCountChats` |

The types of every variable are stated as `TypeOK` in the modules and proved in the
`*Proofs` modules.

Why the bounds suffice. Session: with three packets one is outstanding, one is queued behind it, and one is
pushed while the completion is handled, which is all the send protocol tells apart; three workers let one
read, one complete and one broadcast, and a fourth could only repeat one of them (and the safety properties
are proved for any number). Service: the second client waits in the backlog while the first is served, the
second worker handles a session while the first is in `ProcessAccept`, and of four server sessions one is
accepted while two live and one leaves; the one fault may fall on any call (the safety properties are proved
for any number of all of these). RecvBuffer: the stream passes the end of the buffer more than once, packets
are cut in their header and in their body, and two arrive in one receive. Lock: a third thread stands
between the two steps of the others' retry. SendBufferPool: four packets fill a chunk, leave it for another
and reuse the first; of three chunks two are being written to and the third is held by packets alone or
waits in the pool. A thread that would allocate a fourth waits until one is released (a behaviour cut off;
the proofs have no such bound). DeadLockProfiler: two threads make every order of two guards over four
locks, one after the other, so the recorded graph takes every shape on three names, cycles of three
included. Chat: each broadcast of the client reaches both sessions, so two handlers are in `Handle_C_CHAT`
at once and two logins race; the second round makes counts matter; fewer connections than workers are
excluded by `ChatAssumption`. PacketHandlers: a chunk holds one packet of any kind and, after a small one, a
second, so a chunk is left, pooled and used again by packets of another size; two connections let a handler
meet the handle another one left. `INT_MAX` is 131071 there (2147483647 in the program; TLC's own integers
end there), more than 16 bits, and the logins elsewhere put the next id behind 16 bits, behind `INT_MAX`, or
the next row behind `INT_MAX`. The proofs are for any width up to the real one.

Fairness. `Session`: every thread runs on, workers keep calling Dispatch, a send
completes (the peer reads, or the connection fails), DisconnectEx completes, a receive
completes once the connection has ended; the last is TCP's and the others the
loops of `main`. Strong fairness in two places only: the worker that waits for the
manager's lock to remove a session (the lock is contended, but not kept), and the end of the
loop of OnRecv (it ends with the bytes received). `Service`: the server's threads run on, one of its
workers dispatches an accept that has completed, AcceptEx completes while a connection waits; nothing
is assumed of the client. `Lock`: every thread that is at an atomic
step takes it; no thread starves since the number of guards is bounded, and an unfair spin
lock promises no more. `ChatServer`: clients, acceptance and workers go on. `PacketHandlers`
and `DeadLockProfiler` have safety properties only.

## 4. Proofs

All by TLAPS, with no bound on threads, packets, sizes, depth or steps. They assume the named
ASSUMEs of the modules, which TLC evaluates in the runs.

**SessionProofs.** `IInv` is inductive: the types; `CallInv` (which handler may be in
which call, locks agree with labels); `SendInv` (one holder of the send permit, the
permit implies `_sendRegistered`, RegisterSend is called with packets queued);
`EventInv` (a reference is taken before the operation is posted); `RecvBufferExclusive`;
`ConnectInv` (until OnConnected has run one thread alone is in the session);
`CloseInv` (one thread at most won the exchange of `_connected`, and the session is
in the service until it releases it). None of the properties is inductive alone:
`SendEventExclusive` needs `PermitFlagged`, without which an exchange could hand out a second
permit; `OutstandingPinned` needs `SendHasPackets` and `OwnerTaken`; `RegistrationOrdered` needs
that nobody disconnects before the session was added. Theorems: `TypeCorrect`,
`SendEventIsExclusive`, `RecvBufferIsExclusive`, `OutstandingIsPinned`, `NeverSendsNothing`,
`ReleaseNeverAsserts`.

**SessionProofs**, second part. What needs `~OtherErrors` (WSASend and WSARecv fail at once only where
the connection is lost); `session_send_error` shows that the assumption is needed.
`QueueInv`, for `NeverStrandsQueue`: on an open connection a set `_sendRegistered` is
attended to by a thread or an operation, a queue with packets has it set, and the error path
of `RegisterSend` is reached only off the connection. `ListenInv`, for `AlwaysListening`: a
receive is given up only there or while disconnecting. `SessionIsChannel` is the refinement of
`SendChannel`: packets are numbered without gaps through queue, send event and network
(`NumberInv`), and none is missing, or nothing will be handed to the network any more
(`SupplyInv`), so a delivery is always of the oldest packets and a packet is given up only off
the connection.

**ServiceProofs.** `IInv`: the types; `ThreadInv` (what a thread has in its hands at each statement);
`EventInv` (an accept event has a session, or one thread); `ConnectInv` (a session between its accept or
connect and `AddSession` is `Untouched`, and one thread has it); `Counted`, `Registered` and `Leaving` (a
registered session that is not connected has its DisconnectEx, or has failed). `KeepsAccepting` follows from
`EventInv`. `AcceptsFreshSession` is not inductive alone: `ProcessAccept` hands the session to a thread, and
that it is nobody else's after that is `ConnectInv`. `RegistersAgree` needs both, since the count would
drift if a session were added that is in the set already (set-cardinality lemmas).
`AbandonedOnlyAfterFailure` needs `Leaving`. Theorems: `TypeCorrect` and one for each safety property of the
run, for any number of clients, sessions, accept events, workers and faults.

**RecvBufferProofs.** The invariant relates cursors, content and the stream: the window
between the cursors is the tail of the stream, parsing is at a packet boundary, and
what is left when `Clean` runs is less than a packet, so shorter than `BufferSize`;
with `BUFFER_COUNT >= 3` this gives that the move never overlaps and that the room
posted is a whole packet. Theorems: the five properties of the run, `DeliveredWhole` an action
property among them, the types, and `NeverOverflows`.

**LockProofs.** The invariant says what the word is in terms of the guards: `writer` is the
thread that has, is acquiring or is leaving a write guard, `readers` counts the read
guards inside (a cardinality, kept by set-cardinality lemmas), `_writeCount` the nested
write guards of the owner. `Refinement` proves that every step is a step of `RWLock` or
stutters. `HalfMax` is 65535 in the run and a parameter in the proofs; the number of
guards is at most `HalfMax` (assumption), so `readers` does not carry into the upper half.

**ChatServerProofs.** `PoolInv`: a handler has a connection exactly between its Pop and its
Push, every connection is in the pool or with one handler, and at most `NumWorkers`
handlers run. A handler at Pop has none, so the others, fewer than `NumWorkers`, cannot have
them all: `PoolAlwaysSuffices` is this counting argument (a surjection from the
handlers onto the connections). It needs `NumWorkers <= Cardinality(Connections)`
(`ChatAssumption`; main has five of each). `RowInv`: the rows plus the logins that have
drawn an id and not inserted are the ids drawn, so a new player has no row yet; ids are drawn
once, so a row read by SELECT is current at UPDATE; nothing is counted before there is
a row, so it does not matter whose INSERT made it. `OrderInv`, for `AlwaysAgreeOnOrder`: the
handler that broadcasts holds the manager's lock, so there is one (`OneBroadcast`); its chat is
new, since its number is one more than what its player has said (`SentWasSaid`), so it has not
come to a client still to be sent to, and is the last wherever it has come (`UnderWay`). `PlayerInv`, for
`NoPlayerOnlyBeforeLogin`: a session without a player has its C_LOGIN still to be sent or to be
handled (`LoginAhead`), and nothing of it is on its way before it was added. Theorems: `TypeCorrect`,
`PoolAlwaysSuffices`, `ConnectionAlwaysPrivate`, `AlwaysCountsChats`, these two, and
`AlwaysRowForEveryPlayer` (when no login is under way every id given out has its row).

**SendBufferPoolProofs.** `OneMaker` ties the life of a packet to its holders: it exists while somebody
holds it, and its maker does so until it returns. `ChunkExclusive` with `OneUser` says that what Pop returns
is nobody else's, hence `EmptyAtReset`: a chunk that is reset holds no packet, which is why a reset loses
nothing. `InUsedPart` keeps packets below `_usedSize`, where nothing is written, so `ContentIntact` survives
the next packet in the same chunk. `Progress` and `OpenedByWriter` give `NoCrash`. Theorems for the types
and all four properties of the run, from `PoolAssumption` (a chunk is at least as large as one request).

**DeadLockProfilerProofs.** A graph has no cycle when its nodes can be given heights that every
edge descends (`HasCycle` in `LockSearch`), and the invariant is stated with them. Of the search: the
calls are a path of recorded orders, discovered in this order and not finished (`CallsInv`), so they
descend with any heights that the orders do (`CallsDescend`), and a back edge contradicts all
heights: what is reported is a cycle. The finished locks do have heights (`FinishedDescend`: each one that
finishes is put above all others), and when the search is over all are finished: what is not
reported is none. Of the profiler: the stack of a thread names its guards (`NamesInv`) and descends
with any heights that the searched orders do (`OrderInv`). `NoDeadlockUnreported`: such heights
exist while nothing is reported; of the threads in a deadlock, take one that waits for a lock of
least height and the thread that blocks it: that one wants a lock of no greater height than one it
holds, hence of the same name, and so on round a cycle of one name. `UnlocksAlwaysMatch` is
`NamesInv`; `AlwaysPrintsOrders` follows from `CallsInv`, since the walk goes down the calls; with
`SearchAlwaysExact` these make up `AlwaysExact`.
For any threads, locks, names and depth; the second half of `SearchExact` excepts the states in
which a search runs. The library's well-founded induction is used for least elements only.

That a search ends is two theorems, for liveness itself is out of the prover's reach. `SearchAlwaysShrinks`:
what is left to do (`Todo`: locks `CheckCycle` has not come to, orders `Dfs` may still follow, calls that
have not returned, locks the report may still print) is finite, each step takes something from it and adds
nothing, and what other threads do meanwhile does not touch it. `SearchAlwaysGoesOn`: until it is over, or
has printed its cycle, a search has a step to take; it needs that `lockId` never passes the number of locks
(`LoopInv`).

**PacketHandlersProofs.** The side of the handlers that faces the database, for any sessions, connections,
texts and ids given out elsewhere. `StatementInv` says what the handle holds at each statement: exactly the
bindings this handler made, on a handle without a cursor, because every handler begins with `Unbind`.
`BindingsAlwaysLive` and `StatementsAlwaysAccepted` follow from it. `PlayersInv`: players differ, and ids
are drawn no later than rows are numbered; `RowsInv`: a row counts what its player said, as far as an INT
counts, and a player without a row has said nothing. `IdsInv`: rows end with `INT_MAX`, and the ids drawn
are ahead of the rows by no more than the logins under way, so two ids that are in use differ in an int32
too (`TargetIs`: those above `INT_MAX` are negative there, and find no row); `CountsOn`: an int32 that is
counted on holds what it would of the true number. `RowsAlwaysCountChats` needs all four: what UPDATE writes
is what SELECT delivered, by `StatementInv`, to the row of this player alone.

**PacketHandlersProofs**, second part: the bytes, for any texts of up to 15 characters and sizes of chunk
and open part. First the lemmas: a number comes back from its bytes and a string from its object; a store
changes the bytes it names and no other (`Stored`); then one lemma per maker says where in the chunk its
packet has each field (`HeaderIn`, `TestIn`), and one per kind of packet that the struct of the other
program finds them there (`Readable`). `BytesInv` is inductive, together with `IInv`, which bounds the ids
of the players (`IdsAre`): every packet on its way is `Readable`; and of each chunk (`ChunkOK`), a new one
is zero behind `_usedSize`, and one whose packets all had one size has them one behind the other, so that
the next string falls on a string or on zeros (`Aligned`). The first is all `AlwaysShownAsMade` needs, the
others are for `TornAlwaysOverMixed`: an assignment to a `std::string` is sound where the bytes say capacity
15 or less, and each maker has its strings at one offset, except that sizes differ. Neither property is
inductive without them, since both look at the last step alone.

Model-checked only: liveness, which is out of the prover's reach: `LostConnectionReleased`,
`EveryClientServed`, `EveryWaitEnds`, `LoginAnswered` and what `SendChannel` promises to deliver in the end
(its steps are proved, `SessionIsChannel`). Every invariant and every action property that a run checks is a
theorem.

## 5. What the models assume

- A packet's header says at least `sizeof(PacketHeader)`; `OnRecv` does not test it. That every
  maker of both programs writes the length of its packet there is part of `ShownAsMade`.
- In the runs `session_server` and `session_client` WSARecv and WSASend fail at once only on a
  connection that is lost, and DisconnectEx does not fail: the code does nothing to
  recover from either. `session_faults` and `service` have all of them.
- `Service`: the server has memory for as many sessions as `Accepted` holds (`HasMemory`): an accept
  waits for it in the model. In the run it never waits: two connections, a session leaving and one
  being made need four. A completed DisconnectEx is posted and completed in one step.
- No write guard is made inside a read guard of the same thread in `Lock`; the programs take no
  read guard at all. There LOCK_TIMEOUT (a crash after 10 s of spinning) is not modelled; in
  `DeadLockProfiler` both are. Thread ids are below 65536.
- `Packets`: `std::string` as MSVC lays it out (x64, Release), and texts of at most 15 characters, as all of
  both programs are, of bytes other than 0. The largest packet, C_TEST with three items, fits what a maker
  opens (`HandlersAssumption`). The heap gives a new chunk zeroed pages (`_STOMP` takes them from
  VirtualAlloc).
- Database statements succeed unless SQL Server or ODBC must refuse them: an explicit value for
  an IDENTITY column, no id left for a row, a marker without a parameter, a cursor that is still open.
- No more logins are under way on other workers at one time than an INT counts (`UnderWayAssumption`; there
  are four other workers). In `ChatServer` ids and counts stay within an INT (`IntAssumption`: as many
  sessions and rounds at most); what happens at its limit is in `PacketHandlers`. `count++` of an int32
  wraps, as MSVC compiles it.
- The client sends C_LOGIN once per session.

## 6. Findings

Two runs show the code to disagree with what it says of itself:

- `session_send_error`: the error path of `RegisterSend` (`Session.cpp:209`) gives up the permit
  without a look at the queue. Packets pushed meanwhile by threads that saw the flag set
  stay, unsent and unattended, on an open session.
- `chat_insert`: the fallback INSERT of `Handle_C_CHAT` (`ClientPacketHandler.cpp:241`) gives a
  value to the IDENTITY column, is refused, and its ASSERT_CRASH stops the server. Two logins
  and a chat reach it: ids drawn in one order, rows inserted in the other.

Three weaknesses that no line of the repository denies are in the properties as exceptions, so
that each property says exactly how far the code is right:

- `NoPlayerOnlyIfOvertaken` (a chat that finds no player has overtaken the C_LOGIN of its own session): the
  client opens a session to Broadcast before it sends C_LOGIN (`ServerSession.cpp:10-12`); a broadcast in
  between makes the server dereference a null `_currentPlayer` (`ClientPacketHandler.cpp:189`).
- `TornOnlyOverMixed`: `operator<<` (`BufferWriter.h:50`) assigns to a `std::string` that was never
  constructed. It does no harm in a new chunk, and may in one that is used again after packets of several
  sizes.
- `ShownAsMade`: `PKT_S_CHAT` of the client has 16 bits for an id that the server writes with 64.

And `ReportsDeadlock` leaves out cycles of locks of one class, which the profiler skips
(`DeadLockProfiler.cpp:33`); `AbandonedOnlyAfterFailure` names the failures after which a session stays
in its service for good.

## 7. Not modelled, and what is left

Not modelled, because there is nothing to interleave or nothing of the program's own:

- the memory pools: `_STOMP` (`Types.h:41`) compiles them out;
- `RefCounting`, `TypeCast`: neither program uses them;
- `SocketUtils`, `NetAddress`: one Winsock call each, whose result is an external choice in
  `Session` and `Service`;
- functions nobody calls: `Peek`, `Read` and `Write` of memory blocks, `FetchAll`, `GetRowCount`, and the
  destructors and `Clear` of what lives as long as the program; `CloseService` is empty;
- reference counts of `GameSession`: it and its `Player` refer to each other (`Player.h:9`, stated
  there), so a session that logged in is removed from all sets but never freed;
- printing and logging.

Nothing of the plan is left. What would come next: texts of more than 15 characters, which a raw `std::string`
carries as an address, and lists of more than three items.

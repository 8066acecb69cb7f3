------------------------------- MODULE Service -------------------------------
(***************************************************************************)
(* The two services of the program with all their sessions: ServerService  *)
(* with its Listener and accept events, ClientService with the sessions it *)
(* connects, and TCP between them.                                         *)
(*                                                                         *)
(* A session is seen from outside here: whether it is connected, in the    *)
(* service's set and in the manager's, and which operations it has         *)
(* outstanding.  What its threads do inside is module Session.             *)
(***************************************************************************)
EXTENDS Naturals, Sequences, FiniteSets

CONSTANTS
    Conns,          \* sessions of the client, _maxSessionCount of them (5)
    Accepted,       \* sessions the server has memory for at one time
    Accepts,        \* accept events, _maxSessionCount of them (1)
    ServerWorkers, ClientWorkers,   \* threads that loop on Dispatch (5 and 2)
    ServerMain,     \* main thread of the server
    MaxFaults,      \* bound on the calls of the system that fail without cause
    None

ASSUME ServiceAssumption ==
    /\ IsFiniteSet(Conns) /\ IsFiniteSet(Accepted) /\ Conns \cap Accepted = {}
    /\ ServerWorkers \cap ClientWorkers = {}
    /\ ServerMain \notin ServerWorkers \cup ClientWorkers
    /\ MaxFaults \in Nat
    /\ None \notin Conns \cup Accepted \cup Accepts

VARIABLES
    phase,          \* how far main of each program is
    started,        \* statements of StartAccept that have succeeded
    event,          \* each AcceptEvent: its operation and its session
    pc, ev, cur,    \* of each thread: statement, accept event, session
    connected,      \* _connected of each session
    connectIo, recvIo, disconnectIo,    \* operations of each session
    sessions,       \* _sessions of both services
    sessionCount,   \* _sessionCount of each service
    joined,         \* _sessions of GSessionManager and of GSession
    link,           \* TCP connection of each session of the client
    backlog,        \* connections that wait for AcceptEx
    peer,           \* connection each session of the server has accepted
    failed,         \* sessions that had a failure the program only logs
    faults          \* failures without cause so far

startVars == <<phase, started>>
threadVars == <<pc, ev, cur>>
ioVars == <<connectIo, recvIo, disconnectIo>>
setVars == <<sessions, sessionCount, joined>>
netVars == <<link, backlog, peer>>
vars == <<startVars, event, threadVars, connected, ioVars, setVars, netVars,
          failed, faults>>

Sessions == Conns \cup Accepted
Threads == ServerWorkers \cup ClientWorkers \cup {ServerMain}

Side(s) == IF s \in Conns THEN "client" ELSE "server"
Program(t) == IF t \in ClientWorkers THEN "client" ELSE "server"

\* Statements of StartAccept before the accept events; each may fail.
StartSteps == <<"CreateSocket", "Register", "SetReuseAddress", "SetLinger",
                "Bind", "Listen">>

Labels == {"idle", "accept", "connect", "recv"}

TypeOK ==
    /\ phase \in [{"server", "client"} -> {"start", "accept", "run", "crashed"}]
    /\ started \in 0..Len(StartSteps)
    /\ event \in [Accepts -> [io : {"unborn", "none", "posted", "done"},
                              session : Accepted \cup {None}]]
    /\ pc \in [Threads -> Labels]
    /\ ev \in [Threads -> Accepts \cup {None}]
    /\ cur \in [Threads -> Sessions \cup {None}]
    /\ connected \in [Sessions -> BOOLEAN]
    /\ connectIo \in [Conns -> {"unborn", "posted", "ok", "failed", "none"}]
    /\ recvIo \in [Sessions -> {"none", "posted", "done"}]
    /\ disconnectIo \in [Sessions -> {"none", "done"}]
    /\ sessions \subseteq Sessions
    /\ sessionCount \in [{"server", "client"} -> Nat]
    /\ joined \subseteq Sessions
    /\ link \in [Conns -> {"none", "waiting", "up", "broken", "refused"}]
    /\ backlog \in Seq(Conns)
    /\ peer \in [Accepted -> Conns \cup {None}]
    /\ failed \subseteq Sessions
    /\ faults \in 0..MaxFaults

Init ==
    /\ phase = [x \in {"server", "client"} |-> "start"]
    /\ started = 0
    /\ event = [e \in Accepts |-> [io |-> "unborn", session |-> None]]
    /\ pc = [t \in Threads |-> "idle"]
    /\ ev = [t \in Threads |-> None]
    /\ cur = [t \in Threads |-> None]
    /\ connected = [s \in Sessions |-> FALSE]
    /\ connectIo = [c \in Conns |-> "unborn"]
    /\ recvIo = [s \in Sessions |-> "none"]
    /\ disconnectIo = [s \in Sessions |-> "none"]
    /\ sessions = {}
    /\ sessionCount = [x \in {"server", "client"} |-> 0]
    /\ joined = {}
    /\ link = [c \in Conns |-> "none"]
    /\ backlog = <<>>
    /\ peer = [s \in Accepted |-> None]
    /\ failed = {}
    /\ faults = 0

-----------------------------------------------------------------------------
At(t, l) == pc[t] = l /\ phase[Program(t)] # "crashed"

\* Thread t waits in Dispatch; the workers start when Start has returned.
Waits(t) == pc[t] = "idle" /\ phase[Program(t)] = "run" /\ t # ServerMain

Go(t, l) == pc' = [pc EXCEPT ![t] = l]

\* Thread t returns to the loop of main.
Return(t) ==
    /\ Go(t, "idle")
    /\ ev' = [ev EXCEPT ![t] = None]
    /\ cur' = [cur EXCEPT ![t] = None]

\* Thread t goes on to statement l, with accept event e and session s.
Handle(t, l, e, s) ==
    /\ Go(t, l)
    /\ ev' = [ev EXCEPT ![t] = e]
    /\ cur' = [cur EXCEPT ![t] = s]

Crash(x) == phase' = [phase EXCEPT ![x] = "crashed"] /\ UNCHANGED started

Fault == faults < MaxFaults /\ faults' = faults + 1
NoFault == UNCHANGED faults

Listening == started = Len(StartSteps) /\ phase["server"] # "crashed"

Conn(s) == IF s \in Conns THEN s ELSE peer[s]
Broken(s) == Conn(s) # None /\ link[Conn(s)] = "broken"
Refused(s) == Conn(s) # None /\ link[Conn(s)] = "refused"

\* The connection of session s ends from this side.
Break(s) ==
    link' = IF Conn(s) # None /\ link[Conn(s)] \in {"waiting", "up"}
            THEN [link EXCEPT ![Conn(s)] = "broken"] ELSE link

\* Nobody refers to s any more: its memory may serve for another session.
Unreferenced(s) ==
    /\ s \notin sessions \cup joined
    /\ recvIo[s] = "none" /\ disconnectIo[s] = "none"
    /\ \A e \in Accepts : event[e].session # s
    /\ \A t \in Threads : cur[t] # s

-----------------------------------------------------------------------------
(***************************************************************************)
(* The server: Start, and the accept events that go round for ever.        *)
(***************************************************************************)
\* A statement of StartAccept fails: ASSERT_CRASH(service->Start()).
StartAccept ==
    /\ phase["server"] = "start"
    /\ \/ Fault /\ Crash("server")
       \/ /\ NoFault
          /\ started' = started + 1
          /\ phase' = IF started' = Len(StartSteps)
                      THEN [phase EXCEPT !["server"] = "accept"] ELSE phase
    /\ UNCHANGED <<event, threadVars, connected, ioVars, setVars, netVars, failed>>

StartAcceptEvent(e) ==
    /\ phase["server"] = "accept"
    /\ pc[ServerMain] = "idle"
    /\ event[e].io = "unborn"
    /\ event' = [event EXCEPT ![e].io = "none"]
    /\ Handle(ServerMain, "accept", e, None)
    /\ UNCHANGED <<startVars, connected, ioVars, setVars, netVars, failed, faults>>

LaunchServer ==
    /\ phase["server"] = "accept"
    /\ pc[ServerMain] = "idle"
    /\ \A e \in Accepts : event[e].io # "unborn"
    /\ phase' = [phase EXCEPT !["server"] = "run"]
    /\ UNCHANGED <<started, event, threadVars, connected, ioVars, setVars, netVars,
                   failed, faults>>

\* The memory for the next session; which one it is makes no difference.  That
\* there is one is the bound that Accepted sets.
HasMemory == \E s \in Accepted : Unreferenced(s)
NewSession == CHOOSE s \in Accepted : Unreferenced(s)

\* What CreateSession makes: a session on a socket of its own.
CreateSession(s) ==
    /\ connected' = [connected EXCEPT ![s] = FALSE]
    /\ peer' = [peer EXCEPT ![s] = None]
    /\ failed' = failed \ {s}

\* Faulty variant: the event keeps the session of the last accept.
RegisterAccept_KeepsSession(t) ==
    /\ At(t, "accept")
    /\ LET s == IF event[ev[t]].session = None THEN NewSession ELSE event[ev[t]].session IN
          /\ CreateSession(s)
          /\ event' = [event EXCEPT ![ev[t]] = [io |-> "posted", session |-> s]]
          /\ Return(t) /\ NoFault /\ UNCHANGED startVars
    /\ UNCHANGED <<ioVars, setVars, link, backlog>>

\* A null session (no socket, or Register fails) is used unchecked; an AcceptEx
\* that fails is tried again at once, with another session.
RegisterAccept(t) ==
    /\ At(t, "accept")
    /\ \/ Fault /\ Crash("server") /\ UNCHANGED <<event, threadVars, connected, peer, failed>>
       \/ LET s == NewSession IN
             /\ HasMemory
             /\ CreateSession(s)
             /\ UNCHANGED startVars
             /\ \/ /\ event' = [event EXCEPT ![ev[t]] = [io |-> "posted", session |-> s]]
                   /\ Return(t) /\ NoFault
                \/ /\ event' = [event EXCEPT ![ev[t]].session = s]
                   /\ Fault /\ UNCHANGED threadVars
    /\ UNCHANGED <<ioVars, setVars, link, backlog>>

CompleteAccept(e) ==
    /\ event[e].io = "posted"
    /\ Listening
    /\ backlog # <<>>
    /\ event' = [event EXCEPT ![e].io = "done"]
    /\ peer' = [peer EXCEPT ![event[e].session] = Head(backlog)]
    /\ link' = IF link[Head(backlog)] = "waiting"
               THEN [link EXCEPT ![Head(backlog)] = "up"] ELSE link
    /\ backlog' = Tail(backlog)
    /\ UNCHANGED <<startVars, threadVars, connected, ioVars, setVars, failed, faults>>

\* A worker takes the completion of e, and the event with it.
TakeAccept(t, e) ==
    /\ t \in ServerWorkers
    /\ Waits(t)
    /\ event[e].io = "done"
    /\ event' = [event EXCEPT ![e].io = "none"]

\* Faulty variant: the worker returns without arming the event again.
ProcessAccept_NoRearm(t, e) ==
    /\ TakeAccept(t, e)
    /\ LET s == event[e].session IN
       \/ Handle(t, "connect", e, s) /\ NoFault /\ UNCHANGED link
       \/ /\ IF Broken(s) THEN NoFault ELSE Fault
          /\ Return(t) /\ Break(s)
    /\ UNCHANGED <<startVars, connected, ioVars, setVars, backlog, peer, failed>>

\* SetUpdateAcceptSocket and getpeername may fail, because the client has gone
\* or without cause: the accepted session is dropped, and its socket with it.
ProcessAccept(t, e) ==
    /\ TakeAccept(t, e)
    /\ LET s == event[e].session IN
       \/ Handle(t, "connect", e, s) /\ NoFault /\ UNCHANGED link
       \/ /\ IF Broken(s) THEN NoFault ELSE Fault
          /\ Handle(t, "accept", e, None) /\ Break(s)
    /\ UNCHANGED <<startVars, connected, ioVars, setVars, backlog, peer, failed>>

-----------------------------------------------------------------------------
(***************************************************************************)
(* The client: Start connects every session.                               *)
(***************************************************************************)
\* CreateSession and Connect; Start returns false, or a null session is used,
\* when a call fails at once: ASSERT_CRASH(service->Start()).
Connect(c) ==
    /\ phase["client"] = "start"
    /\ connectIo[c] = "unborn"
    /\ \/ Fault /\ Crash("client") /\ UNCHANGED connectIo
       \/ connectIo' = [connectIo EXCEPT ![c] = "posted"] /\ NoFault /\ UNCHANGED startVars
    /\ UNCHANGED <<event, threadVars, connected, recvIo, disconnectIo, setVars, netVars,
                   failed>>

LaunchClient ==
    /\ phase["client"] = "start"
    /\ \A c \in Conns : connectIo[c] # "unborn"
    /\ phase' = [phase EXCEPT !["client"] = "run"]
    /\ UNCHANGED <<started, event, threadVars, connected, ioVars, setVars, netVars,
                   failed, faults>>

\* The client only sleeps two seconds: the server need not listen yet.
CompleteConnect(c) ==
    /\ connectIo[c] = "posted"
    /\ \/ /\ Listening /\ NoFault
          /\ connectIo' = [connectIo EXCEPT ![c] = "ok"]
          /\ link' = [link EXCEPT ![c] = "waiting"]
          /\ backlog' = Append(backlog, c)
       \/ /\ IF Listening THEN Fault ELSE NoFault
          /\ connectIo' = [connectIo EXCEPT ![c] = "failed"]
          /\ link' = [link EXCEPT ![c] = "refused"]
          /\ UNCHANGED backlog
    /\ UNCHANGED <<startVars, event, threadVars, connected, recvIo, disconnectIo,
                   setVars, peer, failed>>

\* IocpCore dispatches a failed ConnectEx like one that succeeded.
ProcessConnect(t, c) ==
    /\ t \in ClientWorkers
    /\ Waits(t)
    /\ connectIo[c] \in {"ok", "failed"}
    /\ connectIo' = [connectIo EXCEPT ![c] = "none"]
    /\ Handle(t, "connect", None, c)
    /\ UNCHANGED <<startVars, event, connected, recvIo, disconnectIo, setVars, netVars,
                   failed, faults>>

-----------------------------------------------------------------------------
(***************************************************************************)
(* A session of either side from ProcessConnect to its release.            *)
(***************************************************************************)
\* _connected, AddSession and OnConnected.  Nobody else reaches the session before
\* OnConnected has put it into the manager.
AddSession(t) ==
    /\ At(t, "connect")
    /\ connected' = [connected EXCEPT ![cur[t]] = TRUE]
    /\ sessions' = sessions \cup {cur[t]}
    /\ sessionCount' = [sessionCount EXCEPT ![Side(cur[t])] = @ + 1]
    /\ joined' = joined \cup {cur[t]}
    /\ Go(t, "recv")
    /\ UNCHANGED <<startVars, event, ev, cur, ioVars, netVars, failed, faults>>

\* Disconnect: the winner of the exchange posts DisconnectEx, and what that
\* returns is ignored.
Disconnect(s) ==
    /\ connected' = [connected EXCEPT ![s] = FALSE]
    /\ \/ /\ ~connected[s]
          /\ NoFault /\ UNCHANGED <<disconnectIo, link, failed>>
       \/ /\ connected[s]
          /\ disconnectIo' = [disconnectIo EXCEPT ![s] = "done"]
          /\ Break(s) /\ NoFault /\ UNCHANGED failed
       \/ /\ connected[s]
          /\ failed' = failed \cup {s}
          /\ Fault /\ UNCHANGED <<disconnectIo, link>>

\* WSARecv on a socket that was never connected, or that fails without cause, is
\* only logged; a reset disconnects.
RegisterRecv(t) ==
    /\ At(t, "recv")
    /\ LET s == cur[t] IN
       \/ /\ ~connected[s] \/ Broken(s)
          /\ Disconnect(s) /\ UNCHANGED recvIo
       \/ /\ connected[s] /\ ~Refused(s)
          /\ recvIo' = [recvIo EXCEPT ![s] = "posted"]
          /\ NoFault /\ UNCHANGED <<connected, disconnectIo, link, failed>>
       \/ /\ connected[s]
          /\ IF Refused(s) THEN NoFault ELSE Fault
          /\ failed' = failed \cup {s}
          /\ UNCHANGED <<recvIo, connected, disconnectIo, link>>
    /\ IF t \in ClientWorkers THEN Return(t) ELSE Handle(t, "accept", ev[t], None)
    /\ UNCHANGED <<startVars, event, connectIo, setVars, backlog, peer>>

\* A Send to a session of the manager meets the end of its connection.
SendFails(s) ==
    /\ s \in joined
    /\ phase[Side(s)] = "run"
    /\ connected[s] /\ Broken(s)
    /\ Disconnect(s)
    /\ UNCHANGED <<startVars, event, threadVars, connectIo, recvIo, setVars, backlog, peer>>

CompleteRecv(s) ==
    /\ recvIo[s] = "posted"
    /\ Broken(s)
    /\ recvIo' = [recvIo EXCEPT ![s] = "done"]
    /\ UNCHANGED <<startVars, event, threadVars, connected, connectIo, disconnectIo,
                   setVars, netVars, failed, faults>>

\* Faulty variant: a receive of 0 bytes does not disconnect.
ProcessRecv_Returns(t, s) ==
    /\ Waits(t) /\ Program(t) = Side(s)
    /\ recvIo[s] = "done"
    /\ recvIo' = [recvIo EXCEPT ![s] = "none"]
    /\ UNCHANGED <<startVars, event, threadVars, connected, connectIo, disconnectIo,
                   setVars, netVars, failed, faults>>

ProcessRecv(t, s) ==
    /\ Waits(t) /\ Program(t) = Side(s)
    /\ recvIo[s] = "done"
    /\ recvIo' = [recvIo EXCEPT ![s] = "none"]
    /\ Disconnect(s)
    /\ UNCHANGED <<startVars, event, threadVars, connectIo, setVars, backlog, peer>>

\* Faulty variant: OnDisconnected does not take the session out of the manager.
ProcessDisconnect_KeepsJoined(t, s) ==
    /\ Waits(t) /\ Program(t) = Side(s)
    /\ disconnectIo[s] = "done"
    /\ disconnectIo' = [disconnectIo EXCEPT ![s] = "none"]
    /\ sessions' = sessions \ {s}
    /\ sessionCount' = [sessionCount EXCEPT ![Side(s)] = @ - 1]
    /\ UNCHANGED <<startVars, event, threadVars, joined, connected, connectIo, recvIo, netVars,
                   failed, faults>>

\* OnDisconnected, then ReleaseSession with its ASSERT_CRASH.
ProcessDisconnect(t, s) ==
    /\ Waits(t) /\ Program(t) = Side(s)
    /\ disconnectIo[s] = "done"
    /\ disconnectIo' = [disconnectIo EXCEPT ![s] = "none"]
    /\ joined' = joined \ {s}
    /\ IF s \in sessions
       THEN /\ sessions' = sessions \ {s}
            /\ sessionCount' = [sessionCount EXCEPT ![Side(s)] = @ - 1]
            /\ UNCHANGED startVars
       ELSE Crash(Side(s)) /\ UNCHANGED <<sessions, sessionCount>>
    /\ UNCHANGED <<event, threadVars, connected, connectIo, recvIo, netVars, failed, faults>>

\* The backlog without its entry i.
Without(i) ==
    [j \in 1 .. Len(backlog) - 1 |-> backlog[IF j < i THEN j ELSE j + 1]]

\* A connection is lost; one that still waits may leave the backlog.
Drop(c) ==
    /\ link[c] \in {"waiting", "up"}
    /\ link' = [link EXCEPT ![c] = "broken"]
    /\ \/ UNCHANGED backlog
       \/ \E i \in DOMAIN backlog : backlog[i] = c /\ backlog' = Without(i)
    /\ UNCHANGED <<startVars, event, threadVars, connected, ioVars, setVars, peer,
                   failed, faults>>

-----------------------------------------------------------------------------
\* Nothing goes on but waiting: for clients, for data, for completions.
AtRest ==
    /\ \A t \in Threads : pc[t] = "idle" \/ phase[Program(t)] = "crashed"
    /\ phase["server"] \in {"run", "crashed"} /\ phase["client"] \in {"run", "crashed"}

\* What thread t does next by itself.
Continue(t) ==
    RegisterAccept(t) \/ AddSession(t) \/ RegisterRecv(t)

Start == StartAccept \/ LaunchServer \/ \E e \in Accepts : StartAcceptEvent(e)

Next ==
    \/ Start \/ LaunchClient
    \/ \E t \in Threads : Continue(t)
    \/ \E t \in Threads, e \in Accepts : ProcessAccept(t, e)
    \/ \E t \in Threads, c \in Conns : ProcessConnect(t, c)
    \/ \E t \in Threads, s \in Sessions : ProcessRecv(t, s) \/ ProcessDisconnect(t, s)
    \/ \E e \in Accepts : CompleteAccept(e)
    \/ \E c \in Conns : Connect(c) \/ CompleteConnect(c) \/ Drop(c)
    \/ \E s \in Sessions : SendFails(s) \/ CompleteRecv(s)
    \/ AtRest /\ UNCHANGED vars

Spec == Init /\ [][Next]_vars

(***************************************************************************)
(* The server's threads run on, its workers dispatch accepts, and AcceptEx *)
(* completes when a connection waits.  Nothing is assumed of the client.   *)
(***************************************************************************)
Fairness ==
    /\ WF_vars(Start)
    /\ \A t \in ServerWorkers \cup {ServerMain} : WF_vars(Continue(t))
    /\ \A e \in Accepts : WF_vars(CompleteAccept(e))
    /\ WF_vars(\E t \in ServerWorkers, e \in Accepts : ProcessAccept(t, e))

FairSpec == Spec /\ Fairness

-----------------------------------------------------------------------------
(***************************************************************************)
(* Properties.                                                             *)
(***************************************************************************)
Hands(e) == {t \in Threads : ev[t] = e}

\* The server never stops accepting: an accept event that was armed once is
\* outstanding, or completed and not yet dispatched, or in the hands of exactly
\* one thread that will arm it again, whichever calls fail (Listener.cpp
\* 123-139: every path of ProcessAccept ends in RegisterAccept).
KeepsAccepting ==
    \A e \in Accepts :
        /\ event[e].io \in {"posted", "done"} => Hands(e) = {}
        /\ event[e].io = "none" => Cardinality(Hands(e)) = 1

\* The session an outstanding AcceptEx will connect is nobody else's: it is in
\* no set, has no operation, no thread and no other event.
AcceptsFreshSession ==
    \A e \in Accepts : event[e].io \in {"posted", "done"} =>
        LET s == event[e].session IN
        /\ s \notin sessions \cup joined
        /\ ~connected[s]
        /\ recvIo[s] = "none" /\ disconnectIo[s] = "none"
        /\ \A t \in Threads : cur[t] # s
        /\ \A f \in Accepts \ {e} : event[f].session # s

\* The registers agree: _sessionCount counts _sessions, the content's manager
\* holds no session the service has let go of, and every connected session is
\* in its service, so that the one release of it never asserts.
RegistersAgree ==
    /\ \A x \in {"server", "client"} :
          sessionCount[x] = Cardinality({s \in sessions : Side(s) = x})
    /\ joined \subseteq sessions
    /\ \A s \in Sessions : connected[s] \/ disconnectIo[s] = "done" => s \in sessions

\* No completion will ever remove s: it has no operation outstanding, and no
\* thread has it.
Abandoned(s) ==
    /\ s \in sessions
    /\ recvIo[s] = "none" /\ disconnectIo[s] = "none"
    /\ \A t \in Threads : cur[t] # s

\* A session is left in the service without a way out (but a Send that happens
\* to meet a reset) only after one of the failures the program logs and forgets:
\* WSARecv with an error that is no reset (as after a ConnectEx that was
\* refused), or DisconnectEx that fails at once.
AbandonedOnlyAfterFailure ==
    \A s \in Sessions : Abandoned(s) => s \in failed

\* A client whose connection waits in the backlog becomes a session of the
\* server's manager, unless its connection is lost or the server crashes.
EveryClientServed ==
    \A c \in Conns :
        link[c] = "waiting" ~>
            \/ \E s \in joined \cap Accepted : peer[s] = c
            \/ link[c] = "broken"
            \/ phase["server"] = "crashed"
=============================================================================

------------------------------ MODULE Session ------------------------------
(***************************************************************************)
(* One Session (ServerCore/Session.cpp) and everything that touches it:    *)
(* the IOCP worker threads that dispatch its completions, the threads that *)
(* Broadcast to it through the session manager, the service's session set, *)
(* and the socket as the code uses it (overlapped operations, external).   *)
(*                                                                         *)
(* A thread is in up to three functions of the session at once, each with  *)
(* a label for the statement it is about to run:                           *)
(*    act   the handler the completion (or the caller) started,            *)
(*    snd   Send / RegisterSend, called from the handler,                  *)
(*    disc  Disconnect / RegisterDisconnect, called from either.           *)
(* A call sets the callee's label; the caller waits until it is "none".    *)
(***************************************************************************)
EXTENDS Naturals, Sequences, FiniteSets

CONSTANTS
    Workers,          \* threads looping in IocpCore::Dispatch
    Callers,          \* threads that may Broadcast on behalf of others
    NoThread,         \* value of a lock that nobody holds
    Role,             \* "server" (GameSession) or "client" (ServerSession)
    MaxSends,         \* bound on the packets pushed
    OtherErrors,      \* WSASend / WSARecv may fail at once with an error
                      \* that HandleError does not treat as a reset
    DisconnectMayFail \* DisconnectEx may fail at once

Threads == Workers \cup Callers

Events == {"connect", "recv", "send", "disconnect"}

ASSUME SessionAssumption ==
    /\ NoThread \notin Threads
    /\ Role \in {"server", "client"}
    /\ MaxSends \in Nat
    /\ OtherErrors \in BOOLEAN
    /\ DisconnectMayFail \in BOOLEAN

VARIABLES
    connected, sendRegistered,   \* _connected, _sendRegistered (atomics)
    sendQueue,                   \* _sendQueue, packets by number of push
    sendBuffers,                 \* _sendEvent.sendBuffers
    owner,                       \* owner of each of the four events is set
    sessionLock,                 \* holder of the session's USE_LOCK
    inService,                   \* in Service::_sessions
    inManager,                   \* in the session manager's _sessions
    managerLock,                 \* holder of the session manager's USE_LOCK
    sock,                        \* state of the connection (external)
    io,                          \* state of each overlapped operation
    wire,                        \* packets the network has taken
    pushed,                      \* how many packets were pushed
    act, snd, disc               \* where each thread is

eventVars  == <<sendBuffers, owner>>
queueVars  == <<sendQueue, pushed>>
setVars    == <<inService, inManager>>
kernelVars == <<sock, io, wire>>
vars == <<connected, sendRegistered, queueVars, eventVars, sessionLock,
          setVars, managerLock, kernelVars, act, snd, disc>>

ActLabels == {"idle", "bcast", "connect.add", "connect.hook", "recv.register",
              "recv.post", "recv.undo", "recv.handle", "recv.bcast",
              "send.next", "send.locked", "disc.hook", "disc.release"}
SndLabels == {"none", "check", "push", "rs.check", "rs.drain", "rs.post",
              "rs.error", "rs.unflag"}
DiscLabels == {"none", "exchange", "register"}
SockStates == {"idle", "connecting", "refused", "open", "broken", "shut"}

Types ==
    /\ connected \in BOOLEAN
    /\ sendRegistered \in BOOLEAN
    /\ sendQueue \in Seq(Nat)
    /\ sendBuffers \in Seq(Nat)
    /\ owner \in [Events -> BOOLEAN]
    /\ sessionLock \in Threads \cup {NoThread}
    /\ inService \in BOOLEAN
    /\ inManager \in BOOLEAN
    /\ managerLock \in Threads \cup {NoThread}
    /\ sock \in SockStates
    /\ io \in [Events -> {"none", "posted", "ok", "failed"}]
    /\ wire \in Seq(Nat)
    /\ pushed \in Nat
    /\ act \in [Threads -> ActLabels]
    /\ snd \in [Threads -> SndLabels]
    /\ disc \in [Threads -> DiscLabels]

\* Each lock is held by the thread whose label says so.
LocksHeld ==
    \A t \in Threads :
        /\ act[t] = "send.locked" <=> sessionLock = t
        /\ act[t] \in {"bcast", "recv.bcast"} <=> managerLock = t

\* The types, and the locks agree with the labels.
TypeOK == Types /\ LocksHeld

Init ==
    /\ connected = FALSE
    /\ sendRegistered = FALSE
    /\ sendQueue = <<>>
    /\ sendBuffers = <<>>
    /\ owner = [e \in Events |-> FALSE]
    /\ sessionLock = NoThread
    /\ inService = FALSE
    /\ inManager = FALSE
    /\ managerLock = NoThread
    /\ sock = "idle"
    /\ io = [e \in Events |-> "none"]
    /\ wire = <<>>
    /\ pushed = 0
    /\ act = [t \in Threads |-> "idle"]
    /\ snd = [t \in Threads |-> "none"]
    /\ disc = [t \in Threads |-> "none"]

-----------------------------------------------------------------------------
(***************************************************************************)
(* Thread t is at label a of its handler and inside no call from it.       *)
(***************************************************************************)
At(t, a) == act[t] = a /\ snd[t] = "none" /\ disc[t] = "none"

\* Thread t is at label s of Send / RegisterSend, not inside HandleError.
SndAt(t, s) == snd[t] = s /\ disc[t] = "none"

Go(t, a) == act' = [act EXCEPT ![t] = a]
Call(t, s) == snd' = [snd EXCEPT ![t] = s]
Hang(t, d) == disc' = [disc EXCEPT ![t] = d]

SetOwner(e, b) == owner' = [owner EXCEPT ![e] = b]
SetIo(e, s) == io' = [io EXCEPT ![e] = s]

\* A lock that t may take: free, or (USE_LOCK is re-entrant) its own.
Free(lock, t) == lock \in {NoThread, t}

\* The bound: no more than MaxSends packets are ever pushed.
MaySend ==
    pushed + Cardinality({t \in Threads : snd[t] \in {"check", "push"}})
        < MaxSends

-----------------------------------------------------------------------------
(***************************************************************************)
(* The socket.  WSARecv and WSASend return at once; "pending" stands for   *)
(* success and WSA_IO_PENDING, "reset" for WSAECONNRESET/WSAECONNABORTED,  *)
(* "other" for any other error.  A completion arrives later.               *)
(***************************************************************************)
PostOutcomes ==
    CASE sock = "open"   -> {"pending"}
      [] sock = "broken" -> {"pending", "reset"}
      [] sock = "shut"   -> {"reset", "other"}
      [] OTHER           -> {"other"}

Outcomes == PostOutcomes \cup (IF OtherErrors THEN {"other"} ELSE {})

\* The peer closes or resets the connection.
PeerGone ==
    /\ sock = "open"
    /\ sock' = "broken"
    /\ UNCHANGED <<connected, sendRegistered, queueVars, eventVars, sessionLock,
                   setVars, managerLock, io, wire, act, snd, disc>>

Finish(e, s) ==
    /\ io[e] = "posted"
    /\ SetIo(e, s)
    /\ UNCHANGED <<connected, sendRegistered, queueVars, eventVars, sessionLock,
                   setVars, managerLock, act, snd, disc>>

CompleteConnect ==
    \/ Finish("connect", "ok") /\ sock' = "open" /\ UNCHANGED wire
    \/ Finish("connect", "failed") /\ sock' = "refused" /\ UNCHANGED wire

CompleteRecv ==
    /\ Finish("recv", IF sock = "open" THEN "ok" ELSE "failed")
    /\ UNCHANGED <<sock, wire>>

CompleteSend ==
    /\ \/ Finish("send", "ok") /\ wire' = wire \o sendBuffers
       \/ sock # "open" /\ Finish("send", "failed") /\ UNCHANGED wire
    /\ UNCHANGED sock

CompleteDisconnect ==
    Finish("disconnect", "ok") /\ UNCHANGED <<sock, wire>>

Kernel == CompleteConnect \/ CompleteRecv \/ CompleteSend \/ CompleteDisconnect

\* A worker takes the completion of e off the port (IocpCore::Dispatch), and
\* the handler drops the reference of the event before anything else.
Dispatch(t, e, results) ==
    /\ t \in Workers
    /\ At(t, "idle")
    /\ io[e] \in results
    /\ SetIo(e, "none")
    /\ SetOwner(e, FALSE)

-----------------------------------------------------------------------------
(***************************************************************************)
(* Connection: Listener::ProcessAccept on the server, RegisterConnect and  *)
(* ConnectEx on the client, ProcessConnect on both.                        *)
(***************************************************************************)
Accept(t) ==
    /\ Role = "server"
    /\ t \in Workers
    /\ At(t, "idle")
    /\ sock = "idle"
    /\ sock' = "open"
    /\ connected' = TRUE
    /\ Go(t, "connect.add")
    /\ UNCHANGED <<sendRegistered, queueVars, eventVars, sessionLock, setVars,
                   managerLock, io, wire, snd, disc>>

RegisterConnect ==
    /\ Role = "client"
    /\ ~connected
    /\ sock = "idle"
    /\ \/ sock' = "connecting" /\ SetOwner("connect", TRUE) /\ SetIo("connect", "posted")
       \/ sock' = "refused" /\ UNCHANGED <<owner, io>>
    /\ UNCHANGED <<connected, sendRegistered, queueVars, sendBuffers, sessionLock,
                   setVars, managerLock, wire, act, snd, disc>>

\* A failed ConnectEx is dispatched like a successful one.
ProcessConnect(t) ==
    /\ Dispatch(t, "connect", {"ok", "failed"})
    /\ connected' = TRUE
    /\ Go(t, "connect.add")
    /\ UNCHANGED <<sendRegistered, queueVars, sendBuffers, sessionLock, setVars,
                   managerLock, sock, wire, snd, disc>>

AddSession(t) ==
    /\ At(t, "connect.add")
    /\ inService' = TRUE
    /\ Go(t, "connect.hook")
    /\ UNCHANGED <<connected, sendRegistered, queueVars, eventVars, sessionLock,
                   inManager, managerLock, kernelVars, snd, disc>>

\* GameSession adds itself to its manager; ServerSession also sends C_LOGIN.
OnConnected(t) ==
    /\ At(t, "connect.hook")
    /\ Free(managerLock, t)
    /\ inManager' = TRUE
    /\ Go(t, "recv.register")
    /\ IF Role = "client" THEN MaySend /\ Call(t, "check") ELSE UNCHANGED snd
    /\ UNCHANGED <<connected, sendRegistered, queueVars, eventVars, sessionLock,
                   inService, managerLock, kernelVars, disc>>

-----------------------------------------------------------------------------
(***************************************************************************)
(* Receiving.  What the bytes are is the business of module RecvBuffer.    *)
(***************************************************************************)
RegisterRecv(t) ==
    /\ At(t, "recv.register")
    /\ IF connected THEN SetOwner("recv", TRUE) /\ Go(t, "recv.post")
                    ELSE Go(t, "idle") /\ UNCHANGED owner
    /\ UNCHANGED <<connected, sendRegistered, queueVars, sendBuffers, sessionLock,
                   setVars, managerLock, kernelVars, snd, disc>>

\* Faulty variant: WSA_IO_PENDING is taken for an error.
WSARecv_PendingIsError(t) ==
    /\ At(t, "recv.post")
    /\ \/ "pending" \in Outcomes /\ SetIo("recv", "posted") /\ Go(t, "recv.undo") /\ UNCHANGED disc
       \/ "reset" \in Outcomes /\ Hang(t, "exchange") /\ Go(t, "recv.undo") /\ UNCHANGED io
       \/ "other" \in Outcomes /\ Go(t, "recv.undo") /\ UNCHANGED <<io, disc>>
    /\ UNCHANGED <<connected, sendRegistered, queueVars, eventVars, sessionLock,
                   setVars, managerLock, sock, wire, snd>>

WSARecv(t) ==
    /\ At(t, "recv.post")
    /\ \/ "pending" \in Outcomes /\ SetIo("recv", "posted") /\ Go(t, "idle") /\ UNCHANGED disc
       \/ "reset" \in Outcomes /\ Hang(t, "exchange") /\ Go(t, "recv.undo") /\ UNCHANGED io
       \/ "other" \in Outcomes /\ Go(t, "recv.undo") /\ UNCHANGED <<io, disc>>
    /\ UNCHANGED <<connected, sendRegistered, queueVars, eventVars, sessionLock,
                   setVars, managerLock, sock, wire, snd>>

RecvFailed(t) ==
    /\ At(t, "recv.undo")
    /\ SetOwner("recv", FALSE)
    /\ Go(t, "idle")
    /\ UNCHANGED <<connected, sendRegistered, queueVars, sendBuffers, sessionLock,
                   setVars, managerLock, kernelVars, snd, disc>>

\* Faulty variant: a receive of 0 bytes does not disconnect.
ProcessRecv_IgnoresEnd(t) ==
    /\ Dispatch(t, "recv", {"ok", "failed"})
    /\ IF io["recv"] = "ok" THEN Go(t, "recv.handle") /\ UNCHANGED disc
                            ELSE UNCHANGED <<act, disc>>
    /\ UNCHANGED <<connected, sendRegistered, queueVars, sendBuffers, sessionLock,
                   setVars, managerLock, sock, wire, snd>>

ProcessRecv(t) ==
    /\ Dispatch(t, "recv", {"ok", "failed"})
    /\ IF io["recv"] = "ok" THEN Go(t, "recv.handle") /\ UNCHANGED disc
                            ELSE Hang(t, "exchange") /\ UNCHANGED act
    /\ UNCHANGED <<connected, sendRegistered, queueVars, sendBuffers, sessionLock,
                   setVars, managerLock, sock, wire, snd>>

\* Handle_C_LOGIN answers on its own session.
Reply(t) ==
    /\ Role = "server"
    /\ At(t, "recv.handle")
    /\ MaySend
    /\ Call(t, "check")
    /\ UNCHANGED <<connected, sendRegistered, queueVars, eventVars, sessionLock,
                   setVars, managerLock, kernelVars, act, disc>>

\* Broadcast holds the manager's lock over the Send of each session in it: on
\* behalf of this session (Handle_C_CHAT), of another, or of the client's main.
Broadcast(t) ==
    /\ \/ t \in Workers /\ Role = "server" /\ At(t, "recv.handle") /\ Go(t, "recv.bcast")
       \/ t \in Callers /\ At(t, "idle") /\ Go(t, "bcast")
    /\ managerLock = NoThread
    /\ inManager
    /\ MaySend
    /\ managerLock' = t
    /\ Call(t, "check")
    /\ UNCHANGED <<connected, sendRegistered, queueVars, eventVars, sessionLock,
                   setVars, kernelVars, disc>>

BroadcastReturn(t) ==
    /\ \/ At(t, "recv.bcast") /\ Go(t, "recv.handle")
       \/ At(t, "bcast") /\ Go(t, "idle")
    /\ managerLock' = NoThread
    /\ UNCHANGED <<connected, sendRegistered, queueVars, eventVars, sessionLock,
                   setVars, kernelVars, snd, disc>>

\* Faulty variant: the receive is not registered again.
OnRecvReturn_NoRegister(t) ==
    /\ At(t, "recv.handle")
    /\ Go(t, "idle")
    /\ UNCHANGED <<connected, sendRegistered, queueVars, eventVars, sessionLock,
                   setVars, managerLock, kernelVars, snd, disc>>

OnRecvReturn(t) ==
    /\ At(t, "recv.handle")
    /\ Go(t, "recv.register")
    /\ UNCHANGED <<connected, sendRegistered, queueVars, eventVars, sessionLock,
                   setVars, managerLock, kernelVars, snd, disc>>

-----------------------------------------------------------------------------
(***************************************************************************)
(* Sending.  _sendRegistered is the permit to use _sendEvent: whoever turns *)
(* it from FALSE to TRUE registers the send, and the permit passes to the  *)
(* completion and from there to the next RegisterSend.                     *)
(***************************************************************************)
SendCheck(t) ==
    /\ SndAt(t, "check")
    /\ Call(t, IF connected THEN "push" ELSE "none")
    /\ UNCHANGED <<connected, sendRegistered, queueVars, eventVars, sessionLock,
                   setVars, managerLock, kernelVars, act, disc>>

\* Faulty variant: every Send registers, whatever the flag says.
SendPush_NoExchange(t) ==
    /\ SndAt(t, "push")
    /\ Free(sessionLock, t)
    /\ pushed' = pushed + 1
    /\ sendQueue' = Append(sendQueue, pushed + 1)
    /\ sendRegistered' = TRUE
    /\ Call(t, "rs.check")
    /\ UNCHANGED <<connected, eventVars, sessionLock, setVars, managerLock,
                   kernelVars, act, disc>>

SendPush(t) ==
    /\ SndAt(t, "push")
    /\ Free(sessionLock, t)
    /\ pushed' = pushed + 1
    /\ sendQueue' = Append(sendQueue, pushed + 1)
    /\ sendRegistered' = TRUE
    /\ Call(t, IF sendRegistered THEN "none" ELSE "rs.check")
    /\ UNCHANGED <<connected, eventVars, sessionLock, setVars, managerLock,
                   kernelVars, act, disc>>

RegisterSend(t) ==
    /\ SndAt(t, "rs.check")
    /\ IF connected THEN SetOwner("send", TRUE) /\ Call(t, "rs.drain")
                    ELSE Call(t, "none") /\ UNCHANGED owner
    /\ UNCHANGED <<connected, sendRegistered, queueVars, sendBuffers, sessionLock,
                   setVars, managerLock, kernelVars, act, disc>>

RegisterSendDrain(t) ==
    /\ SndAt(t, "rs.drain")
    /\ Free(sessionLock, t)
    /\ sendBuffers' = sendBuffers \o sendQueue
    /\ sendQueue' = <<>>
    /\ Call(t, "rs.post")
    /\ UNCHANGED <<connected, sendRegistered, pushed, owner, sessionLock, setVars,
                   managerLock, kernelVars, act, disc>>

WSASend(t) ==
    /\ SndAt(t, "rs.post")
    /\ \/ "pending" \in Outcomes /\ SetIo("send", "posted") /\ Call(t, "none") /\ UNCHANGED disc
       \/ "reset" \in Outcomes /\ Hang(t, "exchange") /\ Call(t, "rs.error") /\ UNCHANGED io
       \/ "other" \in Outcomes /\ Call(t, "rs.error") /\ UNCHANGED <<io, disc>>
    /\ UNCHANGED <<connected, sendRegistered, queueVars, eventVars, sessionLock,
                   setVars, managerLock, sock, wire, act>>

SendFailed(t) ==
    /\ SndAt(t, "rs.error")
    /\ SetOwner("send", FALSE)
    /\ sendBuffers' = <<>>
    /\ Call(t, "rs.unflag")
    /\ UNCHANGED <<connected, sendRegistered, queueVars, sessionLock, setVars,
                   managerLock, kernelVars, act, disc>>

SendUnflag(t) ==
    /\ SndAt(t, "rs.unflag")
    /\ sendRegistered' = FALSE
    /\ Call(t, "none")
    /\ UNCHANGED <<connected, queueVars, eventVars, sessionLock, setVars,
                   managerLock, kernelVars, act, disc>>

\* Faulty variant: the buffers of the completed send are not released.
ProcessSend_KeepsBuffers(t) ==
    /\ Dispatch(t, "send", {"ok", "failed"})
    /\ IF io["send"] = "ok" THEN Go(t, "send.next") /\ UNCHANGED disc
                            ELSE Hang(t, "exchange") /\ UNCHANGED act
    /\ UNCHANGED <<connected, sendRegistered, queueVars, sendBuffers, sessionLock, setVars,
                   managerLock, sock, wire, snd>>

ProcessSend(t) ==
    /\ Dispatch(t, "send", {"ok", "failed"})
    /\ sendBuffers' = <<>>
    /\ IF io["send"] = "ok" THEN Go(t, "send.next") /\ UNCHANGED disc
                            ELSE Hang(t, "exchange") /\ UNCHANGED act
    /\ UNCHANGED <<connected, sendRegistered, queueVars, sessionLock, setVars,
                   managerLock, sock, wire, snd>>

\* Faulty variant: the flag is cleared whether or not packets are queued.
ProcessSendNext_NoRetry(t) ==
    /\ At(t, "send.next")
    /\ Free(sessionLock, t)
    /\ sendRegistered' = FALSE
    /\ Go(t, "idle")
    /\ UNCHANGED <<connected, queueVars, eventVars, sessionLock, setVars,
                   managerLock, kernelVars, snd, disc>>

\* Faulty variant: RegisterSend is called whether or not packets are queued.
ProcessSendNext_NoTest(t) ==
    /\ At(t, "send.next")
    /\ Free(sessionLock, t)
    /\ sessionLock' = t
    /\ Go(t, "send.locked")
    /\ Call(t, "rs.check")
    /\ UNCHANGED <<connected, sendRegistered, queueVars, eventVars, setVars,
                   managerLock, kernelVars, disc>>

\* Lines 285-289: the lock is held across the whole of RegisterSend.
ProcessSendNext(t) ==
    /\ At(t, "send.next")
    /\ Free(sessionLock, t)
    /\ \/ /\ sendQueue = <<>>
          /\ sendRegistered' = FALSE
          /\ Go(t, "idle")
          /\ UNCHANGED <<sessionLock, snd>>
       \/ /\ sendQueue # <<>>
          /\ sessionLock' = t
          /\ Go(t, "send.locked")
          /\ Call(t, "rs.check")
          /\ UNCHANGED sendRegistered
    /\ UNCHANGED <<connected, queueVars, eventVars, setVars, managerLock,
                   kernelVars, disc>>

ProcessSendReturn(t) ==
    /\ At(t, "send.locked")
    /\ sessionLock' = NoThread
    /\ Go(t, "idle")
    /\ UNCHANGED <<connected, sendRegistered, queueVars, eventVars, setVars,
                   managerLock, kernelVars, snd, disc>>

-----------------------------------------------------------------------------
(***************************************************************************)
(* Disconnection.                                                          *)
(***************************************************************************)
\* Faulty variant: the old value of _connected is not tested.
Disconnect_NoExchange(t) ==
    /\ disc[t] = "exchange"
    /\ connected' = FALSE
    /\ Hang(t, "register")
    /\ UNCHANGED <<sendRegistered, queueVars, eventVars, sessionLock, setVars,
                   managerLock, kernelVars, act, snd>>

Disconnect(t) ==
    /\ disc[t] = "exchange"
    /\ connected' = FALSE
    /\ Hang(t, IF connected THEN "register" ELSE "none")
    /\ UNCHANGED <<sendRegistered, queueVars, eventVars, sessionLock, setVars,
                   managerLock, kernelVars, act, snd>>

\* Disconnect ignores what RegisterDisconnect returns.
RegisterDisconnect(t) ==
    /\ disc[t] = "register"
    /\ Hang(t, "none")
    /\ \/ SetOwner("disconnect", TRUE) /\ SetIo("disconnect", "posted") /\ sock' = "shut"
       \/ DisconnectMayFail /\ SetOwner("disconnect", FALSE) /\ UNCHANGED <<io, sock>>
    /\ UNCHANGED <<connected, sendRegistered, queueVars, sendBuffers, sessionLock,
                   setVars, managerLock, wire, act, snd>>

ProcessDisconnect(t) ==
    /\ Dispatch(t, "disconnect", {"ok"})
    /\ Go(t, "disc.hook")
    /\ UNCHANGED <<connected, sendRegistered, queueVars, sendBuffers, sessionLock,
                   setVars, managerLock, sock, wire, snd, disc>>

OnDisconnected(t) ==
    /\ At(t, "disc.hook")
    /\ Free(managerLock, t)
    /\ inManager' = FALSE
    /\ Go(t, "disc.release")
    /\ UNCHANGED <<connected, sendRegistered, queueVars, eventVars, sessionLock,
                   inService, managerLock, kernelVars, snd, disc>>

ReleaseSession(t) ==
    /\ At(t, "disc.release")
    /\ inService' = FALSE
    /\ Go(t, "idle")
    /\ UNCHANGED <<connected, sendRegistered, queueVars, eventVars, sessionLock,
                   inManager, managerLock, kernelVars, snd, disc>>

-----------------------------------------------------------------------------
\* Statements a thread goes on to by itself once it is in the session.
Continue(t) ==
    \/ AddSession(t) \/ OnConnected(t)
    \/ RegisterRecv(t) \/ WSARecv(t) \/ RecvFailed(t)
    \/ BroadcastReturn(t)
    \/ SendCheck(t) \/ SendPush(t)
    \/ RegisterSend(t) \/ RegisterSendDrain(t) \/ WSASend(t)
    \/ SendFailed(t) \/ SendUnflag(t)
    \/ ProcessSendNext(t) \/ ProcessSendReturn(t)
    \/ Disconnect(t) \/ RegisterDisconnect(t)
    \/ OnDisconnected(t) \/ ReleaseSession(t)

\* What makes a thread enter the session, or send from inside a handler.
Enter(t) == Accept(t) \/ Broadcast(t) \/ Reply(t)

DispatchAny(t) ==
    ProcessConnect(t) \/ ProcessRecv(t) \/ ProcessSend(t) \/ ProcessDisconnect(t)

\* Nobody is in the session and no operation is under way: it may stay so.
Quiescent ==
    /\ \A t \in Threads : At(t, "idle")
    /\ \A e \in Events : io[e] = "none"
    /\ sock # "idle"

Next ==
    \/ PeerGone \/ Kernel \/ RegisterConnect
    \/ \E t \in Threads :
          Continue(t) \/ Enter(t) \/ DispatchAny(t) \/ OnRecvReturn(t)
    \/ Quiescent /\ UNCHANGED vars

Spec == Init /\ [][Next]_vars

(***************************************************************************)
(* Every thread keeps running, every worker keeps calling Dispatch, every  *)
(* posted operation completes (a receive, only when the connection ends).  *)
(* Strong fairness for the one thread that waits for the manager's lock    *)
(* while others keep broadcasting, and for the return from OnRecv, whose   *)
(* loop ends with the bytes received.                                      *)
(***************************************************************************)
Fairness ==
    /\ \A t \in Threads : WF_vars(Continue(t))
    /\ SF_vars(\E t \in Threads : OnDisconnected(t))
    /\ SF_vars(\E t \in Threads : OnRecvReturn(t))
    /\ WF_vars(\E t \in Workers : ProcessConnect(t))
    /\ WF_vars(\E t \in Workers : ProcessSend(t))
    /\ WF_vars(\E t \in Workers : ProcessRecv(t))
    /\ WF_vars(\E t \in Workers : ProcessDisconnect(t))
    /\ WF_vars(CompleteConnect)
    /\ WF_vars(CompleteSend)
    /\ WF_vars(CompleteDisconnect)
    /\ WF_vars(sock # "open" /\ CompleteRecv)

FairSpec == Spec /\ Fairness

-----------------------------------------------------------------------------
(***************************************************************************)
(* Properties.                                                             *)
(***************************************************************************)
RegisterSendLabels == {"rs.check", "rs.drain", "rs.post", "rs.error", "rs.unflag"}

\* Thread t has the permit to use _sendEvent.
Holds(t) == snd[t] \in RegisterSendLabels \/ act[t] = "send.next"

RecvLabels == {"connect.add", "connect.hook", "recv.register", "recv.post",
               "recv.undo", "recv.handle", "recv.bcast"}

\* Thread t runs the chain that uses _recvBuffer and _recvEvent.
Reads(t) == act[t] \in RecvLabels

\* _sendEvent is one OVERLAPPED for all sends: at most one thread is between
\* RegisterSend and the posted operation or between its completion and the next
\* RegisterSend, and none is while the operation is outstanding.
SendEventExclusive ==
    \A t \in Threads : Holds(t) =>
        /\ io["send"] = "none"
        /\ \A u \in Threads : Holds(u) => u = t

\* _recvBuffer has no lock: one thread at most parses, cleans or posts it, and
\* none while a WSARecv may write to it.
RecvBufferExclusive ==
    \A t \in Threads : Reads(t) =>
        /\ io["recv"] = "none"
        /\ \A u \in Threads : Reads(u) => u = t

\* What an outstanding operation uses stays alive until its completion has been
\* dispatched: the event's reference to the session and the send buffers.
OutstandingPinned ==
    /\ \A e \in Events : io[e] # "none" => owner[e]
    /\ io["send"] # "none" => sendBuffers # <<>>

\* No WSASend of nothing: it would complete with 0 bytes, which ProcessSend
\* takes for the end of the connection.
NoEmptySend ==
    \A t \in Threads : snd[t] = "rs.post" => sendBuffers # <<>>

\* ASSERT_CRASH(_sessions.erase(session) != 0) never fires, the manager never
\* refers to a session the service has let go of, and a released session is
\* out of the manager for good.
RegistrationOrdered ==
    /\ inManager => inService
    /\ \A t \in Threads : act[t] = "disc.release" => inService /\ ~inManager

\* Who sees to the packets of the queue: the permit's holder, the completion of
\* the outstanding send, or a Disconnect under way.
Attended ==
    \/ io["send"] # "none"
    \/ \E t \in Threads : Holds(t) \/ disc[t] # "none"

\* No lost wakeup: on an open connection a queued packet is always attended to
\* (Session.cpp 287 and 289: the flag is cleared when there is nothing to send,
\* and the send is registered again when there is).
NoStrandedQueue ==
    connected /\ sock = "open" /\ sendQueue # <<>> => Attended

\* A connected session listens: its receive is outstanding or a thread is on
\* the way to post it, unless it is being disconnected.  It is the only way the
\* end of a connection is noticed.
Listening ==
    connected /\ sock \in {"open", "broken"} =>
        \/ io["recv"] # "none"
        \/ \E t \in Threads : Reads(t) \/ disc[t] # "none"

\* The end of a connection is noticed and the session released.
LostConnectionReleased ==
    (connected /\ sock = "broken") ~> (~inService /\ ~inManager)

(***************************************************************************)
(* The session implements the channel of SendChannel.                      *)
(***************************************************************************)
Life == CASE sock \in {"idle", "connecting"} -> "new"
          [] sock = "open" -> "up"
          [] OTHER -> "down"

\* The buffers of a send the network has taken wait only for their release.
Backlog == (IF io["send"] = "ok" THEN <<>> ELSE sendBuffers) \o sendQueue

Channel == INSTANCE SendChannel WITH
    life <- Life, accepted <- pushed, backlog <- Backlog, sent <- wire

\* Every step of the session is a step of the channel or none, and the channel
\* keeps delivering: packets leave in order, none twice, none skipped, and on
\* an open connection none is lost and none waits for ever.
ImplementsChannel == Channel!FairSpec
=============================================================================

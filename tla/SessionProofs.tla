--------------------------- MODULE SessionProofs ---------------------------
(***************************************************************************)
(* Proofs about Session, for any number of threads and packets and with    *)
(* every fault the constants allow.                                        *)
(***************************************************************************)
EXTENDS Session, SequenceTheorems, TLAPS

\* A thread is in Send only from a handler that calls it, and in Disconnect
\* only from the error path of WSASend or as the last call of a handler.
CallOrder ==
    \A t \in Threads :
        /\ snd[t] # "none" => act[t] \in {"bcast", "recv.bcast", "recv.register",
                                          "recv.handle", "send.locked"}
        /\ disc[t] # "none" => \/ snd[t] = "rs.error"
                               \/ snd[t] = "none" /\ act[t] \in {"idle", "recv.undo"}

\* _sendRegistered is set as long as anyone uses the send event.
PermitFlagged ==
    (io["send"] # "none" \/ \E t \in Threads : Holds(t)) => sendRegistered

\* RegisterSend is called only with packets queued, and nobody else takes them.
SendHasPackets ==
    \A t \in Threads :
        /\ snd[t] \in {"rs.check", "rs.drain"} => sendQueue # <<>>
        /\ snd[t] = "rs.post" => sendBuffers # <<>>

\* The reference is taken before the operation is posted.
OwnerTaken ==
    \A t \in Threads :
        /\ act[t] = "recv.post" => owner["recv"]
        /\ snd[t] \in {"rs.drain", "rs.post"} => owner["send"]

\* Nobody is in the session until its connection has been dispatched.
Alone(t) ==
    /\ \A u \in Threads : u # t => act[u] = "idle" /\ snd[u] = "none" /\ disc[u] = "none"
    /\ snd[t] = "none" /\ disc[t] = "none"
    /\ \A e \in {"recv", "send", "disconnect"} : io[e] = "none"
    /\ ~inManager

BeforeConnection ==
    /\ sock = "idle" => io["connect"] = "none"
    /\ sock = "connecting" => io["connect"] = "posted"
    /\ sock \in {"idle", "connecting"} \/ io["connect"] # "none" =>
          /\ ~connected /\ ~inService
          /\ \A t \in Threads : Alone(t) /\ act[t] = "idle"

\* Until OnConnected has run only the thread that runs it is in the session.
ConnectingAlone ==
    \A t \in Threads :
        /\ act[t] \in {"connect.add", "connect.hook"} => Alone(t)
        /\ act[t] = "connect.hook" => inService

\* The thread has won the exchange of _connected, or dispatched its completion.
Closes(t) == disc[t] = "register" \/ act[t] \in {"disc.hook", "disc.release"}

\* There is one disconnection at most, after the connection.
ClosesOnce ==
    /\ \A t \in Threads : Closes(t) =>
          /\ io["disconnect"] = "none" /\ ~connected /\ inService
          /\ \A u \in Threads : Closes(u) => u = t
    /\ io["disconnect"] # "none" => ~connected /\ inService

\* A connected session is in the service, or about to be added to it.
ConnectedInService ==
    connected => inService \/ \E t \in Threads : act[t] = "connect.add"

(***************************************************************************)
(* The inductive invariant, by theme: the calls and locks, the permit to   *)
(* send, the events' references, the receive chain, the connection, and    *)
(* the disconnection.                                                      *)
(***************************************************************************)
CallInv == LocksHeld /\ CallOrder
SendInv == SendEventExclusive /\ PermitFlagged /\ SendHasPackets
EventInv == OwnerTaken /\ OutstandingPinned
ConnectInv == BeforeConnection /\ ConnectingAlone
CloseInv == ClosesOnce /\ ConnectedInService /\ RegistrationOrdered

IInv ==
    /\ Types
    /\ CallInv
    /\ SendInv
    /\ EventInv
    /\ RecvBufferExclusive
    /\ ConnectInv
    /\ CloseInv

-----------------------------------------------------------------------------
LEMMA OwnerUpdate ==
    ASSUME owner \in [Events -> BOOLEAN], NEW e \in Events, NEW b \in BOOLEAN
    PROVE  [owner EXCEPT ![e] = b] \in [Events -> BOOLEAN]
OBVIOUS

LEMMA InitIInv == Init => IInv
<1>. SUFFICES ASSUME Init PROVE IInv
  OBVIOUS
<1>. USE DEF Init
<1>1. Types
  <2>1. connected \in BOOLEAN /\ sendRegistered \in BOOLEAN
    OBVIOUS
  <2>2. inService \in BOOLEAN /\ inManager \in BOOLEAN
    OBVIOUS
  <2>3. owner \in [Events -> BOOLEAN]
    OBVIOUS
  <2>4. /\ sendQueue \in Seq(Nat) /\ sendBuffers \in Seq(Nat) /\ wire \in Seq(Nat)
        /\ pushed \in Nat
    OBVIOUS
  <2>5. act \in [Threads -> ActLabels] /\ snd \in [Threads -> SndLabels]
    BY DEF ActLabels, SndLabels
  <2>6. disc \in [Threads -> DiscLabels] /\ sock \in SockStates
    BY DEF DiscLabels, SockStates
  <2>. QED  BY <2>1, <2>2, <2>3, <2>4, <2>5, <2>6 DEF Types
<1>2. CallInv
  BY SessionAssumption DEF CallInv, LocksHeld, CallOrder
<1>3. SendInv /\ EventInv
  BY DEF SendInv, SendEventExclusive, PermitFlagged, SendHasPackets, EventInv,
     OwnerTaken, OutstandingPinned, Holds, RegisterSendLabels, Events
<1>4. RecvBufferExclusive /\ ConnectInv
  BY DEF RecvBufferExclusive, Reads, RecvLabels, ConnectInv, BeforeConnection,
     ConnectingAlone, Alone, Events
<1>5. CloseInv
  BY DEF CloseInv, ClosesOnce, Closes, ConnectedInService, RegistrationOrdered, Events
<1>. QED  BY <1>1, <1>2, <1>3, <1>4, <1>5 DEF IInv

(***************************************************************************)
(* Every step keeps the invariant: one lemma per action, one step in it    *)
(* per theme the action can disturb.                                       *)
(***************************************************************************)

LEMMA PeerGoneKeepsIInv ==
    ASSUME IInv, PeerGone PROVE IInv'
<1>. USE DEF IInv, PeerGone, eventVars, queueVars, setVars
<1>1. Types'
  <2>1. (sock \in SockStates)'
    BY DEF Types, SockStates
  <2>. QED  BY <2>1 DEF Types
<1>2. ConnectInv'
  BY DEF ConnectInv, BeforeConnection, ConnectingAlone, Alone, Types, Events
<1>3. (CallInv /\ SendInv /\ EventInv /\ RecvBufferExclusive /\ CloseInv)'
  BY DEF CallInv, LocksHeld, CallOrder, SendInv, SendEventExclusive,
     PermitFlagged, SendHasPackets, Holds, EventInv, OwnerTaken,
     OutstandingPinned, RecvBufferExclusive, Reads, CloseInv, ClosesOnce,
     Closes, ConnectedInService, RegistrationOrdered
<1>. QED  BY <1>1, <1>2, <1>3

LEMMA CompleteConnectKeepsIInv ==
    ASSUME IInv, CompleteConnect PROVE IInv'
<1>. USE DEF IInv, CompleteConnect, Finish, SetIo, eventVars, queueVars,
             setVars
<1>1. Types'
  <2>1. (sock \in SockStates)'
    BY DEF Types, SockStates
  <2>2. (io \in [Events -> {"none", "posted", "ok", "failed"}])'
    BY DEF Types, Events
  <2>. QED  BY <2>1, <2>2 DEF Types
<1>2. SendInv'
  BY DEF SendInv, SendEventExclusive, PermitFlagged, SendHasPackets, Holds,
     RegisterSendLabels, CallInv, CallOrder, Types, Events
<1>3. EventInv'
  BY DEF EventInv, OwnerTaken, OutstandingPinned, SendInv,
     SendEventExclusive, SendHasPackets, Holds, RegisterSendLabels,
     CloseInv, ClosesOnce, Closes, ConnectInv, BeforeConnection,
     RecvBufferExclusive, Reads, RecvLabels, Types, Events
<1>4. RecvBufferExclusive'
  BY DEF RecvBufferExclusive, Reads, RecvLabels, ConnectInv,
     BeforeConnection, Alone, Types, Events
<1>5. ConnectInv'
  BY DEF ConnectInv, BeforeConnection, ConnectingAlone, Alone, Types, Events
<1>6. CloseInv'
  <2>1. ClosesOnce'
    BY DEF CloseInv, ClosesOnce, Closes, ConnectInv, BeforeConnection,
       ConnectingAlone, Alone, CallInv, CallOrder, Types, Events
  <2>2. ConnectedInService'
    BY DEF CloseInv, ClosesOnce, Closes, ConnectedInService, ConnectInv,
       BeforeConnection, ConnectingAlone, Alone, Types, Events
  <2>3. RegistrationOrdered'
    BY DEF CloseInv, ClosesOnce, Closes, RegistrationOrdered, ConnectInv,
       BeforeConnection, ConnectingAlone, Alone, Types, Events
  <2>. QED  BY <2>1, <2>2, <2>3 DEF CloseInv
<1>7. (CallInv)'
  BY DEF CallInv, LocksHeld, CallOrder
<1>. QED  BY <1>1, <1>2, <1>3, <1>4, <1>5, <1>6, <1>7

LEMMA CompleteRecvKeepsIInv ==
    ASSUME IInv, CompleteRecv PROVE IInv'
<1>. USE DEF IInv, CompleteRecv, Finish, SetIo, eventVars, queueVars,
             setVars
<1>1. Types'
  <2>1. (io \in [Events -> {"none", "posted", "ok", "failed"}])'
    BY DEF Types, Events
  <2>. QED  BY <2>1 DEF Types
<1>2. SendInv'
  BY DEF SendInv, SendEventExclusive, PermitFlagged, SendHasPackets, Holds,
     RegisterSendLabels, CallInv, CallOrder, Types, Events
<1>3. EventInv'
  BY DEF EventInv, OwnerTaken, OutstandingPinned, SendInv,
     SendEventExclusive, SendHasPackets, Holds, RegisterSendLabels,
     CloseInv, ClosesOnce, Closes, ConnectInv, BeforeConnection,
     RecvBufferExclusive, Reads, RecvLabels, Types, Events
<1>4. RecvBufferExclusive'
  BY DEF RecvBufferExclusive, Reads, RecvLabels, ConnectInv,
     BeforeConnection, Alone, Types, Events
<1>5. ConnectInv'
  BY DEF ConnectInv, BeforeConnection, ConnectingAlone, Alone, Types, Events
<1>6. CloseInv'
  <2>1. ClosesOnce'
    BY DEF CloseInv, ClosesOnce, Closes, ConnectInv, BeforeConnection,
       ConnectingAlone, Alone, CallInv, CallOrder, Types, Events
  <2>2. ConnectedInService'
    BY DEF CloseInv, ClosesOnce, Closes, ConnectedInService, ConnectInv,
       BeforeConnection, ConnectingAlone, Alone, Types, Events
  <2>3. RegistrationOrdered'
    BY DEF CloseInv, ClosesOnce, Closes, RegistrationOrdered, ConnectInv,
       BeforeConnection, ConnectingAlone, Alone, Types, Events
  <2>. QED  BY <2>1, <2>2, <2>3 DEF CloseInv
<1>7. (CallInv)'
  BY DEF CallInv, LocksHeld, CallOrder
<1>. QED  BY <1>1, <1>2, <1>3, <1>4, <1>5, <1>6, <1>7

LEMMA CompleteSendKeepsIInv ==
    ASSUME IInv, CompleteSend PROVE IInv'
<1>. USE DEF IInv, CompleteSend, Finish, SetIo, eventVars, queueVars,
             setVars
<1>1. Types'
  <2>1. (io \in [Events -> {"none", "posted", "ok", "failed"}])'
    BY DEF Types, Events
  <2>2. (wire \in Seq(Nat))'
    <3>1. wire \o sendBuffers \in Seq(Nat)
      BY DEF Types
    <3>2. wire' = wire \o sendBuffers \/ wire' = wire
      OBVIOUS
    <3>. QED  BY <3>1, <3>2 DEF Types
  <2>. QED  BY <2>1, <2>2 DEF Types
<1>2. SendInv'
  BY DEF SendInv, SendEventExclusive, PermitFlagged, SendHasPackets, Holds,
     RegisterSendLabels, CallInv, CallOrder, Types, Events
<1>3. EventInv'
  BY DEF EventInv, OwnerTaken, OutstandingPinned, SendInv,
     SendEventExclusive, SendHasPackets, Holds, RegisterSendLabels,
     CloseInv, ClosesOnce, Closes, ConnectInv, BeforeConnection,
     RecvBufferExclusive, Reads, RecvLabels, Types, Events
<1>4. RecvBufferExclusive'
  BY DEF RecvBufferExclusive, Reads, RecvLabels, ConnectInv,
     BeforeConnection, Alone, Types, Events
<1>5. ConnectInv'
  BY DEF ConnectInv, BeforeConnection, ConnectingAlone, Alone, Types, Events
<1>6. CloseInv'
  <2>1. ClosesOnce'
    BY DEF CloseInv, ClosesOnce, Closes, ConnectInv, BeforeConnection,
       ConnectingAlone, Alone, CallInv, CallOrder, Types, Events
  <2>2. ConnectedInService'
    BY DEF CloseInv, ClosesOnce, Closes, ConnectedInService, ConnectInv,
       BeforeConnection, ConnectingAlone, Alone, Types, Events
  <2>3. RegistrationOrdered'
    BY DEF CloseInv, ClosesOnce, Closes, RegistrationOrdered, ConnectInv,
       BeforeConnection, ConnectingAlone, Alone, Types, Events
  <2>. QED  BY <2>1, <2>2, <2>3 DEF CloseInv
<1>7. (CallInv)'
  BY DEF CallInv, LocksHeld, CallOrder
<1>. QED  BY <1>1, <1>2, <1>3, <1>4, <1>5, <1>6, <1>7

LEMMA CompleteDisconnectKeepsIInv ==
    ASSUME IInv, CompleteDisconnect PROVE IInv'
<1>. USE DEF IInv, CompleteDisconnect, Finish, SetIo, eventVars, queueVars,
             setVars
<1>1. Types'
  <2>1. (io \in [Events -> {"none", "posted", "ok", "failed"}])'
    BY DEF Types, Events
  <2>. QED  BY <2>1 DEF Types
<1>2. SendInv'
  BY DEF SendInv, SendEventExclusive, PermitFlagged, SendHasPackets, Holds,
     RegisterSendLabels, CallInv, CallOrder, Types, Events
<1>3. EventInv'
  BY DEF EventInv, OwnerTaken, OutstandingPinned, SendInv,
     SendEventExclusive, SendHasPackets, Holds, RegisterSendLabels,
     CloseInv, ClosesOnce, Closes, ConnectInv, BeforeConnection,
     RecvBufferExclusive, Reads, RecvLabels, Types, Events
<1>4. RecvBufferExclusive'
  BY DEF RecvBufferExclusive, Reads, RecvLabels, ConnectInv,
     BeforeConnection, Alone, Types, Events
<1>5. ConnectInv'
  BY DEF ConnectInv, BeforeConnection, ConnectingAlone, Alone, Types, Events
<1>6. CloseInv'
  <2>1. ClosesOnce'
    BY DEF CloseInv, ClosesOnce, Closes, ConnectInv, BeforeConnection,
       ConnectingAlone, Alone, CallInv, CallOrder, Types, Events
  <2>2. ConnectedInService'
    BY DEF CloseInv, ClosesOnce, Closes, ConnectedInService, ConnectInv,
       BeforeConnection, ConnectingAlone, Alone, Types, Events
  <2>3. RegistrationOrdered'
    BY DEF CloseInv, ClosesOnce, Closes, RegistrationOrdered, ConnectInv,
       BeforeConnection, ConnectingAlone, Alone, Types, Events
  <2>. QED  BY <2>1, <2>2, <2>3 DEF CloseInv
<1>7. (CallInv)'
  BY DEF CallInv, LocksHeld, CallOrder
<1>. QED  BY <1>1, <1>2, <1>3, <1>4, <1>5, <1>6, <1>7

LEMMA RegisterConnectKeepsIInv ==
    ASSUME IInv, RegisterConnect PROVE IInv'
<1>. USE DEF IInv, RegisterConnect, SetOwner, SetIo, queueVars, setVars
<1>1. Types'
  <2>1. (owner \in [Events -> BOOLEAN])'
    <3>1. owner' = [owner EXCEPT !["connect"] = TRUE] \/ owner' = owner
      OBVIOUS
    <3>. QED  BY <3>1, OwnerUpdate DEF Types, Events
  <2>2. (sock \in SockStates)'
    BY DEF Types, SockStates
  <2>3. (io \in [Events -> {"none", "posted", "ok", "failed"}])'
    BY DEF Types, Events
  <2>. QED  BY <2>1, <2>2, <2>3 DEF Types
<1>2. SendInv'
  BY DEF SendInv, SendEventExclusive, PermitFlagged, SendHasPackets, Holds,
     RegisterSendLabels, CallInv, CallOrder, Types, Events
<1>3. EventInv'
  BY DEF EventInv, OwnerTaken, OutstandingPinned, SendInv,
     SendEventExclusive, SendHasPackets, Holds, RegisterSendLabels,
     CloseInv, ClosesOnce, Closes, ConnectInv, BeforeConnection,
     RecvBufferExclusive, Reads, RecvLabels, Types, Events
<1>4. RecvBufferExclusive'
  BY DEF RecvBufferExclusive, Reads, RecvLabels, ConnectInv,
     BeforeConnection, Alone, Types, Events
<1>5. ConnectInv'
  BY DEF ConnectInv, BeforeConnection, ConnectingAlone, Alone, Types, Events
<1>6. CloseInv'
  <2>1. ClosesOnce'
    BY DEF CloseInv, ClosesOnce, Closes, ConnectInv, BeforeConnection,
       ConnectingAlone, Alone, CallInv, CallOrder, Types, Events
  <2>2. ConnectedInService'
    BY DEF CloseInv, ClosesOnce, Closes, ConnectedInService, ConnectInv,
       BeforeConnection, ConnectingAlone, Alone, Types, Events
  <2>3. RegistrationOrdered'
    BY DEF CloseInv, ClosesOnce, Closes, RegistrationOrdered, ConnectInv,
       BeforeConnection, ConnectingAlone, Alone, Types, Events
  <2>. QED  BY <2>1, <2>2, <2>3 DEF CloseInv
<1>7. (CallInv)'
  BY DEF CallInv, LocksHeld, CallOrder
<1>. QED  BY <1>1, <1>2, <1>3, <1>4, <1>5, <1>6, <1>7

LEMMA AcceptKeepsIInv ==
    ASSUME IInv, NEW t \in Threads, Accept(t) PROVE IInv'
<1>. USE DEF IInv, Accept, At, Go, eventVars, queueVars, setVars
<1>1. Types'
  <2>1. (connected \in BOOLEAN)'
    BY DEF Types
  <2>2. (sock \in SockStates)'
    BY DEF Types, SockStates
  <2>3. (act \in [Threads -> ActLabels])'
    BY DEF Types, ActLabels
  <2>. QED  BY <2>1, <2>2, <2>3 DEF Types
<1>2. CallInv'
  <2>1. LocksHeld'
    BY DEF CallInv, LocksHeld, Types
  <2>2. CallOrder'
    BY DEF CallInv, CallOrder, Types
  <2>. QED  BY <2>1, <2>2 DEF CallInv
<1>3. SendInv'
  BY DEF SendInv, SendEventExclusive, PermitFlagged, SendHasPackets, Holds,
     RegisterSendLabels, CallInv, CallOrder, Types, Events
<1>4. EventInv'
  BY DEF EventInv, OwnerTaken, OutstandingPinned, SendInv,
     SendEventExclusive, SendHasPackets, Holds, RegisterSendLabels,
     CloseInv, ClosesOnce, Closes, ConnectInv, BeforeConnection,
     RecvBufferExclusive, Reads, RecvLabels, Types, Events
<1>5. RecvBufferExclusive'
  BY DEF RecvBufferExclusive, Reads, RecvLabels, ConnectInv,
     BeforeConnection, Alone, Types, Events
<1>6. ConnectInv'
  BY DEF ConnectInv, BeforeConnection, ConnectingAlone, Alone, Types, Events
<1>7. CloseInv'
  <2>1. ClosesOnce'
    BY DEF CloseInv, ClosesOnce, Closes, ConnectInv, BeforeConnection,
       ConnectingAlone, Alone, CallInv, CallOrder, Types, Events
  <2>2. ConnectedInService'
    BY DEF CloseInv, ClosesOnce, Closes, ConnectedInService, ConnectInv,
       BeforeConnection, ConnectingAlone, Alone, Types, Events
  <2>3. RegistrationOrdered'
    BY DEF CloseInv, ClosesOnce, Closes, RegistrationOrdered, ConnectInv,
       BeforeConnection, ConnectingAlone, Alone, Types, Events
  <2>. QED  BY <2>1, <2>2, <2>3 DEF CloseInv
<1>. QED  BY <1>1, <1>2, <1>3, <1>4, <1>5, <1>6, <1>7

LEMMA ProcessConnectKeepsIInv ==
    ASSUME IInv, NEW t \in Threads, ProcessConnect(t) PROVE IInv'
<1>. USE DEF IInv, ProcessConnect, Go, Dispatch, At, SetIo, SetOwner,
             queueVars, setVars
<1>1. Types'
  <2>1. (connected \in BOOLEAN)'
    BY DEF Types
  <2>2. (owner \in [Events -> BOOLEAN])'
    BY DEF Types, Events
  <2>3. (io \in [Events -> {"none", "posted", "ok", "failed"}])'
    BY DEF Types, Events
  <2>4. (act \in [Threads -> ActLabels])'
    BY DEF Types, ActLabels
  <2>. QED  BY <2>1, <2>2, <2>3, <2>4 DEF Types
<1>2. CallInv'
  <2>1. LocksHeld'
    BY DEF CallInv, LocksHeld, Types
  <2>2. CallOrder'
    BY DEF CallInv, CallOrder, Types
  <2>. QED  BY <2>1, <2>2 DEF CallInv
<1>3. SendInv'
  BY DEF SendInv, SendEventExclusive, PermitFlagged, SendHasPackets, Holds,
     RegisterSendLabels, CallInv, CallOrder, Types, Events
<1>4. EventInv'
  BY DEF EventInv, OwnerTaken, OutstandingPinned, SendInv,
     SendEventExclusive, SendHasPackets, Holds, RegisterSendLabels,
     CloseInv, ClosesOnce, Closes, ConnectInv, BeforeConnection,
     RecvBufferExclusive, Reads, RecvLabels, Types, Events
<1>5. RecvBufferExclusive'
  BY DEF RecvBufferExclusive, Reads, RecvLabels, ConnectInv,
     BeforeConnection, Alone, Types, Events
<1>6. ConnectInv'
  BY DEF ConnectInv, BeforeConnection, ConnectingAlone, Alone, Types, Events
<1>7. CloseInv'
  <2>1. ClosesOnce'
    BY DEF CloseInv, ClosesOnce, Closes, ConnectInv, BeforeConnection,
       ConnectingAlone, Alone, CallInv, CallOrder, Types, Events
  <2>2. ConnectedInService'
    BY DEF CloseInv, ClosesOnce, Closes, ConnectedInService, ConnectInv,
       BeforeConnection, ConnectingAlone, Alone, Types, Events
  <2>3. RegistrationOrdered'
    BY DEF CloseInv, ClosesOnce, Closes, RegistrationOrdered, ConnectInv,
       BeforeConnection, ConnectingAlone, Alone, Types, Events
  <2>. QED  BY <2>1, <2>2, <2>3 DEF CloseInv
<1>. QED  BY <1>1, <1>2, <1>3, <1>4, <1>5, <1>6, <1>7

LEMMA AddSessionKeepsIInv ==
    ASSUME IInv, NEW t \in Threads, AddSession(t) PROVE IInv'
<1>. USE DEF IInv, AddSession, At, Go, eventVars, queueVars, kernelVars
<1>1. Types'
  <2>1. (inService \in BOOLEAN)'
    BY DEF Types
  <2>2. (act \in [Threads -> ActLabels])'
    BY DEF Types, ActLabels
  <2>. QED  BY <2>1, <2>2 DEF Types
<1>2. CallInv'
  <2>1. LocksHeld'
    BY DEF CallInv, LocksHeld, Types
  <2>2. CallOrder'
    BY DEF CallInv, CallOrder, Types
  <2>. QED  BY <2>1, <2>2 DEF CallInv
<1>3. SendInv'
  BY DEF SendInv, SendEventExclusive, PermitFlagged, SendHasPackets, Holds,
     RegisterSendLabels, CallInv, CallOrder, Types, Events
<1>4. EventInv'
  BY DEF EventInv, OwnerTaken, OutstandingPinned, SendInv,
     SendEventExclusive, SendHasPackets, Holds, RegisterSendLabels,
     CloseInv, ClosesOnce, Closes, ConnectInv, BeforeConnection,
     RecvBufferExclusive, Reads, RecvLabels, Types, Events
<1>5. RecvBufferExclusive'
  BY DEF RecvBufferExclusive, Reads, RecvLabels, ConnectInv,
     BeforeConnection, Alone, Types, Events
<1>6. ConnectInv'
  BY DEF ConnectInv, BeforeConnection, ConnectingAlone, Alone, Types, Events
<1>7. CloseInv'
  <2>1. ClosesOnce'
    BY DEF CloseInv, ClosesOnce, Closes, ConnectInv, BeforeConnection,
       ConnectingAlone, Alone, CallInv, CallOrder, Types, Events
  <2>2. ConnectedInService'
    BY DEF CloseInv, ClosesOnce, Closes, ConnectedInService, ConnectInv,
       BeforeConnection, ConnectingAlone, Alone, Types, Events
  <2>3. RegistrationOrdered'
    BY DEF CloseInv, ClosesOnce, Closes, RegistrationOrdered, ConnectInv,
       BeforeConnection, ConnectingAlone, Alone, Types, Events
  <2>. QED  BY <2>1, <2>2, <2>3 DEF CloseInv
<1>. QED  BY <1>1, <1>2, <1>3, <1>4, <1>5, <1>6, <1>7

LEMMA OnConnectedKeepsIInv ==
    ASSUME IInv, NEW t \in Threads, OnConnected(t) PROVE IInv'
<1>. USE DEF IInv, OnConnected, At, Go, Call, Free, eventVars, queueVars,
             kernelVars
<1>1. Types'
  <2>1. (inManager \in BOOLEAN)'
    BY DEF Types
  <2>2. (act \in [Threads -> ActLabels])'
    BY DEF Types, ActLabels
  <2>3. (snd \in [Threads -> SndLabels])'
    BY DEF Types, SndLabels
  <2>. QED  BY <2>1, <2>2, <2>3 DEF Types
<1>2. CallInv'
  <2>1. LocksHeld'
    BY DEF CallInv, LocksHeld, Types
  <2>2. CallOrder'
    BY DEF CallInv, CallOrder, Types
  <2>. QED  BY <2>1, <2>2 DEF CallInv
<1>3. SendInv'
  BY DEF SendInv, SendEventExclusive, PermitFlagged, SendHasPackets, Holds,
     RegisterSendLabels, CallInv, CallOrder, Types, Events
<1>4. EventInv'
  BY DEF EventInv, OwnerTaken, OutstandingPinned, SendInv,
     SendEventExclusive, SendHasPackets, Holds, RegisterSendLabels,
     CloseInv, ClosesOnce, Closes, ConnectInv, BeforeConnection,
     RecvBufferExclusive, Reads, RecvLabels, Types, Events
<1>5. RecvBufferExclusive'
  BY DEF RecvBufferExclusive, Reads, RecvLabels, ConnectInv,
     BeforeConnection, Alone, Types, Events
<1>6. ConnectInv'
  BY DEF ConnectInv, BeforeConnection, ConnectingAlone, Alone, Types, Events
<1>7. CloseInv'
  <2>1. ClosesOnce'
    BY DEF CloseInv, ClosesOnce, Closes, ConnectInv, BeforeConnection,
       ConnectingAlone, Alone, CallInv, CallOrder, Types, Events
  <2>2. ConnectedInService'
    BY DEF CloseInv, ClosesOnce, Closes, ConnectedInService, ConnectInv,
       BeforeConnection, ConnectingAlone, Alone, Types, Events
  <2>3. RegistrationOrdered'
    BY DEF CloseInv, ClosesOnce, Closes, RegistrationOrdered, ConnectInv,
       BeforeConnection, ConnectingAlone, Alone, Types, Events
  <2>. QED  BY <2>1, <2>2, <2>3 DEF CloseInv
<1>. QED  BY <1>1, <1>2, <1>3, <1>4, <1>5, <1>6, <1>7

LEMMA RegisterRecvKeepsIInv ==
    ASSUME IInv, NEW t \in Threads, RegisterRecv(t) PROVE IInv'
<1>. USE DEF IInv, RegisterRecv, At, Go, SetOwner, queueVars, setVars,
             kernelVars
<1>1. Types'
  <2>1. (owner \in [Events -> BOOLEAN])'
    <3>1. owner' = [owner EXCEPT !["recv"] = TRUE] \/ owner' = owner
      OBVIOUS
    <3>. QED  BY <3>1, OwnerUpdate DEF Types, Events
  <2>2. (act \in [Threads -> ActLabels])'
    BY DEF Types, ActLabels
  <2>. QED  BY <2>1, <2>2 DEF Types
<1>2. CallInv'
  <2>1. LocksHeld'
    BY DEF CallInv, LocksHeld, Types
  <2>2. CallOrder'
    BY DEF CallInv, CallOrder, Types
  <2>. QED  BY <2>1, <2>2 DEF CallInv
<1>3. SendInv'
  BY DEF SendInv, SendEventExclusive, PermitFlagged, SendHasPackets, Holds,
     RegisterSendLabels, CallInv, CallOrder, Types, Events
<1>4. EventInv'
  BY DEF EventInv, OwnerTaken, OutstandingPinned, SendInv,
     SendEventExclusive, SendHasPackets, Holds, RegisterSendLabels,
     CloseInv, ClosesOnce, Closes, ConnectInv, BeforeConnection,
     RecvBufferExclusive, Reads, RecvLabels, Types, Events
<1>5. RecvBufferExclusive'
  BY DEF RecvBufferExclusive, Reads, RecvLabels, ConnectInv,
     BeforeConnection, Alone, Types, Events
<1>6. ConnectInv'
  BY DEF ConnectInv, BeforeConnection, ConnectingAlone, Alone, Types, Events
<1>7. CloseInv'
  <2>1. ClosesOnce'
    BY DEF CloseInv, ClosesOnce, Closes, ConnectInv, BeforeConnection,
       ConnectingAlone, Alone, CallInv, CallOrder, Types, Events
  <2>2. ConnectedInService'
    BY DEF CloseInv, ClosesOnce, Closes, ConnectedInService, ConnectInv,
       BeforeConnection, ConnectingAlone, Alone, Types, Events
  <2>3. RegistrationOrdered'
    BY DEF CloseInv, ClosesOnce, Closes, RegistrationOrdered, ConnectInv,
       BeforeConnection, ConnectingAlone, Alone, Types, Events
  <2>. QED  BY <2>1, <2>2, <2>3 DEF CloseInv
<1>. QED  BY <1>1, <1>2, <1>3, <1>4, <1>5, <1>6, <1>7

LEMMA WSARecvKeepsIInv ==
    ASSUME IInv, NEW t \in Threads, WSARecv(t) PROVE IInv'
<1>. USE DEF IInv, WSARecv, At, Go, Hang, SetIo, eventVars, queueVars,
             setVars
<1>1. Types'
  <2>1. (io \in [Events -> {"none", "posted", "ok", "failed"}])'
    BY DEF Types, Events
  <2>2. (act \in [Threads -> ActLabels])'
    <3>1. \/ act' = [act EXCEPT ![t] = "idle"]
          \/ act' = [act EXCEPT ![t] = "recv.undo"]
      OBVIOUS
    <3>. QED  BY <3>1 DEF Types, ActLabels
  <2>3. (disc \in [Threads -> DiscLabels])'
    BY DEF Types, DiscLabels
  <2>. QED  BY <2>1, <2>2, <2>3 DEF Types
<1>2. CallInv'
  <2>1. \/ act' = [act EXCEPT ![t] = "idle"] /\ disc' = disc
        \/ act' = [act EXCEPT ![t] = "recv.undo"] /\ disc' = [disc EXCEPT ![t] = "exchange"]
        \/ act' = [act EXCEPT ![t] = "recv.undo"] /\ disc' = disc
    OBVIOUS
  <2>. QED  BY <2>1 DEF CallInv, LocksHeld, CallOrder, Types
<1>3. SendInv'
  BY DEF SendInv, SendEventExclusive, PermitFlagged, SendHasPackets, Holds,
     RegisterSendLabels, CallInv, CallOrder, Types, Events
<1>4. EventInv'
  BY DEF EventInv, OwnerTaken, OutstandingPinned, SendInv,
     SendEventExclusive, SendHasPackets, Holds, RegisterSendLabels,
     CloseInv, ClosesOnce, Closes, ConnectInv, BeforeConnection,
     RecvBufferExclusive, Reads, RecvLabels, Types, Events
<1>5. RecvBufferExclusive'
  BY DEF RecvBufferExclusive, Reads, RecvLabels, ConnectInv,
     BeforeConnection, Alone, Types, Events
<1>6. ConnectInv'
  BY DEF ConnectInv, BeforeConnection, ConnectingAlone, Alone, Types, Events
<1>7. CloseInv'
  <2>1. ClosesOnce'
    BY DEF CloseInv, ClosesOnce, Closes, ConnectInv, BeforeConnection,
       ConnectingAlone, Alone, CallInv, CallOrder, Types, Events
  <2>2. ConnectedInService'
    BY DEF CloseInv, ClosesOnce, Closes, ConnectedInService, ConnectInv,
       BeforeConnection, ConnectingAlone, Alone, Types, Events
  <2>3. RegistrationOrdered'
    BY DEF CloseInv, ClosesOnce, Closes, RegistrationOrdered, ConnectInv,
       BeforeConnection, ConnectingAlone, Alone, Types, Events
  <2>. QED  BY <2>1, <2>2, <2>3 DEF CloseInv
<1>. QED  BY <1>1, <1>2, <1>3, <1>4, <1>5, <1>6, <1>7

LEMMA RecvFailedKeepsIInv ==
    ASSUME IInv, NEW t \in Threads, RecvFailed(t) PROVE IInv'
<1>. USE DEF IInv, RecvFailed, At, Go, SetOwner, queueVars, setVars,
             kernelVars
<1>1. Types'
  <2>1. (owner \in [Events -> BOOLEAN])'
    BY DEF Types, Events
  <2>2. (act \in [Threads -> ActLabels])'
    BY DEF Types, ActLabels
  <2>. QED  BY <2>1, <2>2 DEF Types
<1>2. CallInv'
  <2>1. LocksHeld'
    BY DEF CallInv, LocksHeld, Types
  <2>2. CallOrder'
    BY DEF CallInv, CallOrder, Types
  <2>. QED  BY <2>1, <2>2 DEF CallInv
<1>3. SendInv'
  BY DEF SendInv, SendEventExclusive, PermitFlagged, SendHasPackets, Holds,
     RegisterSendLabels, CallInv, CallOrder, Types, Events
<1>4. EventInv'
  BY DEF EventInv, OwnerTaken, OutstandingPinned, SendInv,
     SendEventExclusive, SendHasPackets, Holds, RegisterSendLabels,
     CloseInv, ClosesOnce, Closes, ConnectInv, BeforeConnection,
     RecvBufferExclusive, Reads, RecvLabels, Types, Events
<1>5. RecvBufferExclusive'
  BY DEF RecvBufferExclusive, Reads, RecvLabels, ConnectInv,
     BeforeConnection, Alone, Types, Events
<1>6. ConnectInv'
  BY DEF ConnectInv, BeforeConnection, ConnectingAlone, Alone, Types, Events
<1>7. CloseInv'
  <2>1. ClosesOnce'
    BY DEF CloseInv, ClosesOnce, Closes, ConnectInv, BeforeConnection,
       ConnectingAlone, Alone, CallInv, CallOrder, Types, Events
  <2>2. ConnectedInService'
    BY DEF CloseInv, ClosesOnce, Closes, ConnectedInService, ConnectInv,
       BeforeConnection, ConnectingAlone, Alone, Types, Events
  <2>3. RegistrationOrdered'
    BY DEF CloseInv, ClosesOnce, Closes, RegistrationOrdered, ConnectInv,
       BeforeConnection, ConnectingAlone, Alone, Types, Events
  <2>. QED  BY <2>1, <2>2, <2>3 DEF CloseInv
<1>. QED  BY <1>1, <1>2, <1>3, <1>4, <1>5, <1>6, <1>7

LEMMA ProcessRecvKeepsIInv ==
    ASSUME IInv, NEW t \in Threads, ProcessRecv(t) PROVE IInv'
<1>. USE DEF IInv, ProcessRecv, Go, Hang, Dispatch, At, SetIo, SetOwner,
             queueVars, setVars
<1>1. Types'
  <2>1. (owner \in [Events -> BOOLEAN])'
    BY DEF Types, Events
  <2>2. (io \in [Events -> {"none", "posted", "ok", "failed"}])'
    BY DEF Types, Events
  <2>3. (act \in [Threads -> ActLabels])'
    BY DEF Types, ActLabels
  <2>4. (disc \in [Threads -> DiscLabels])'
    BY DEF Types, DiscLabels
  <2>. QED  BY <2>1, <2>2, <2>3, <2>4 DEF Types
<1>2. CallInv'
  <2>1. LocksHeld'
    BY DEF CallInv, LocksHeld, Types
  <2>2. CallOrder'
    BY DEF CallInv, CallOrder, Types
  <2>. QED  BY <2>1, <2>2 DEF CallInv
<1>3. SendInv'
  BY DEF SendInv, SendEventExclusive, PermitFlagged, SendHasPackets, Holds,
     RegisterSendLabels, CallInv, CallOrder, Types, Events
<1>4. EventInv'
  BY DEF EventInv, OwnerTaken, OutstandingPinned, SendInv,
     SendEventExclusive, SendHasPackets, Holds, RegisterSendLabels,
     CloseInv, ClosesOnce, Closes, ConnectInv, BeforeConnection,
     RecvBufferExclusive, Reads, RecvLabels, Types, Events
<1>5. RecvBufferExclusive'
  BY DEF RecvBufferExclusive, Reads, RecvLabels, ConnectInv,
     BeforeConnection, Alone, Types, Events
<1>6. ConnectInv'
  BY DEF ConnectInv, BeforeConnection, ConnectingAlone, Alone, Types, Events
<1>7. CloseInv'
  <2>1. ClosesOnce'
    BY DEF CloseInv, ClosesOnce, Closes, ConnectInv, BeforeConnection,
       ConnectingAlone, Alone, CallInv, CallOrder, Types, Events
  <2>2. ConnectedInService'
    BY DEF CloseInv, ClosesOnce, Closes, ConnectedInService, ConnectInv,
       BeforeConnection, ConnectingAlone, Alone, Types, Events
  <2>3. RegistrationOrdered'
    BY DEF CloseInv, ClosesOnce, Closes, RegistrationOrdered, ConnectInv,
       BeforeConnection, ConnectingAlone, Alone, Types, Events
  <2>. QED  BY <2>1, <2>2, <2>3 DEF CloseInv
<1>. QED  BY <1>1, <1>2, <1>3, <1>4, <1>5, <1>6, <1>7

LEMMA ReplyKeepsIInv ==
    ASSUME IInv, NEW t \in Threads, Reply(t) PROVE IInv'
<1>. USE DEF IInv, Reply, At, Call, eventVars, queueVars, setVars,
             kernelVars
<1>1. Types'
  <2>1. (snd \in [Threads -> SndLabels])'
    BY DEF Types, SndLabels
  <2>. QED  BY <2>1 DEF Types
<1>2. CallInv'
  <2>1. LocksHeld'
    BY DEF CallInv, LocksHeld, Types
  <2>2. CallOrder'
    BY DEF CallInv, CallOrder, Types
  <2>. QED  BY <2>1, <2>2 DEF CallInv
<1>3. SendInv'
  BY DEF SendInv, SendEventExclusive, PermitFlagged, SendHasPackets, Holds,
     RegisterSendLabels, CallInv, CallOrder, Types, Events
<1>4. EventInv'
  BY DEF EventInv, OwnerTaken, OutstandingPinned, SendInv,
     SendEventExclusive, SendHasPackets, Holds, RegisterSendLabels,
     CloseInv, ClosesOnce, Closes, ConnectInv, BeforeConnection,
     RecvBufferExclusive, Reads, RecvLabels, Types, Events
<1>5. ConnectInv'
  BY DEF ConnectInv, BeforeConnection, ConnectingAlone, Alone, Types, Events
<1>6. (RecvBufferExclusive /\ CloseInv)'
  BY DEF RecvBufferExclusive, Reads, CloseInv, ClosesOnce, Closes,
     ConnectedInService, RegistrationOrdered
<1>. QED  BY <1>1, <1>2, <1>3, <1>4, <1>5, <1>6

LEMMA BroadcastKeepsIInv ==
    ASSUME IInv, NEW t \in Threads, Broadcast(t) PROVE IInv'
<1>. USE DEF IInv, Broadcast, At, Go, Call, eventVars, queueVars, setVars,
             kernelVars
<1>1. Types'
  <2>1. (managerLock \in Threads \cup {NoThread})'
    BY DEF Types
  <2>2. (act \in [Threads -> ActLabels])'
    BY DEF Types, ActLabels
  <2>3. (snd \in [Threads -> SndLabels])'
    BY DEF Types, SndLabels
  <2>. QED  BY <2>1, <2>2, <2>3 DEF Types
<1>2. CallInv'
  <2>1. LocksHeld'
    BY SessionAssumption DEF CallInv, LocksHeld, Types
  <2>2. CallOrder'
    BY SessionAssumption DEF CallInv, CallOrder, Types
  <2>. QED  BY <2>1, <2>2 DEF CallInv
<1>3. SendInv'
  BY DEF SendInv, SendEventExclusive, PermitFlagged, SendHasPackets, Holds,
     RegisterSendLabels, CallInv, CallOrder, Types, Events
<1>4. EventInv'
  BY DEF EventInv, OwnerTaken, OutstandingPinned, SendInv,
     SendEventExclusive, SendHasPackets, Holds, RegisterSendLabels,
     CloseInv, ClosesOnce, Closes, ConnectInv, BeforeConnection,
     RecvBufferExclusive, Reads, RecvLabels, Types, Events
<1>5. RecvBufferExclusive'
  <2>1. \A u \in Threads : Reads(u)' => Reads(u)
    BY DEF Reads, RecvLabels, Types
  <2>2. io' = io
    OBVIOUS
  <2>. QED  BY <2>1, <2>2 DEF RecvBufferExclusive
<1>6. ConnectInv'
  BY DEF ConnectInv, BeforeConnection, ConnectingAlone, Alone, Types, Events
<1>7. CloseInv'
  <2>1. ClosesOnce'
    BY DEF CloseInv, ClosesOnce, Closes, ConnectInv, BeforeConnection,
       ConnectingAlone, Alone, CallInv, CallOrder, Types, Events
  <2>2. ConnectedInService'
    BY DEF CloseInv, ClosesOnce, Closes, ConnectedInService, ConnectInv,
       BeforeConnection, ConnectingAlone, Alone, Types, Events
  <2>3. RegistrationOrdered'
    BY DEF CloseInv, ClosesOnce, Closes, RegistrationOrdered, ConnectInv,
       BeforeConnection, ConnectingAlone, Alone, Types, Events
  <2>. QED  BY <2>1, <2>2, <2>3 DEF CloseInv
<1>. QED  BY <1>1, <1>2, <1>3, <1>4, <1>5, <1>6, <1>7

LEMMA BroadcastReturnKeepsIInv ==
    ASSUME IInv, NEW t \in Threads, BroadcastReturn(t) PROVE IInv'
<1>. USE DEF IInv, BroadcastReturn, At, Go, eventVars, queueVars, setVars,
             kernelVars
<1>1. Types'
  <2>1. (managerLock \in Threads \cup {NoThread})'
    BY DEF Types
  <2>2. (act \in [Threads -> ActLabels])'
    BY DEF Types, ActLabels
  <2>. QED  BY <2>1, <2>2 DEF Types
<1>2. CallInv'
  <2>1. /\ act[t] \in {"bcast", "recv.bcast"} /\ snd[t] = "none" /\ disc[t] = "none"
        /\ \/ act' = [act EXCEPT ![t] = "recv.handle"]
           \/ act' = [act EXCEPT ![t] = "idle"]
    OBVIOUS
  <2>2. LocksHeld'
    BY <2>1, SessionAssumption DEF CallInv, LocksHeld, Types
  <2>3. CallOrder'
    BY <2>1 DEF CallInv, CallOrder, Types
  <2>. QED  BY <2>2, <2>3 DEF CallInv
<1>3. SendInv'
  BY DEF SendInv, SendEventExclusive, PermitFlagged, SendHasPackets, Holds,
     RegisterSendLabels, CallInv, CallOrder, Types, Events
<1>4. EventInv'
  BY DEF EventInv, OwnerTaken, OutstandingPinned, SendInv,
     SendEventExclusive, SendHasPackets, Holds, RegisterSendLabels,
     CloseInv, ClosesOnce, Closes, ConnectInv, BeforeConnection,
     RecvBufferExclusive, Reads, RecvLabels, Types, Events
<1>5. RecvBufferExclusive'
  BY DEF RecvBufferExclusive, Reads, RecvLabels, ConnectInv,
     BeforeConnection, Alone, Types, Events
<1>6. ConnectInv'
  BY DEF ConnectInv, BeforeConnection, ConnectingAlone, Alone, Types, Events
<1>7. CloseInv'
  <2>1. ClosesOnce'
    BY DEF CloseInv, ClosesOnce, Closes, ConnectInv, BeforeConnection,
       ConnectingAlone, Alone, CallInv, CallOrder, Types, Events
  <2>2. ConnectedInService'
    BY DEF CloseInv, ClosesOnce, Closes, ConnectedInService, ConnectInv,
       BeforeConnection, ConnectingAlone, Alone, Types, Events
  <2>3. RegistrationOrdered'
    BY DEF CloseInv, ClosesOnce, Closes, RegistrationOrdered, ConnectInv,
       BeforeConnection, ConnectingAlone, Alone, Types, Events
  <2>. QED  BY <2>1, <2>2, <2>3 DEF CloseInv
<1>. QED  BY <1>1, <1>2, <1>3, <1>4, <1>5, <1>6, <1>7

LEMMA OnRecvReturnKeepsIInv ==
    ASSUME IInv, NEW t \in Threads, OnRecvReturn(t) PROVE IInv'
<1>. USE DEF IInv, OnRecvReturn, At, Go, eventVars, queueVars, setVars,
             kernelVars
<1>1. Types'
  <2>1. (act \in [Threads -> ActLabels])'
    BY DEF Types, ActLabels
  <2>. QED  BY <2>1 DEF Types
<1>2. CallInv'
  <2>1. LocksHeld'
    BY DEF CallInv, LocksHeld, Types
  <2>2. CallOrder'
    BY DEF CallInv, CallOrder, Types
  <2>. QED  BY <2>1, <2>2 DEF CallInv
<1>3. SendInv'
  BY DEF SendInv, SendEventExclusive, PermitFlagged, SendHasPackets, Holds,
     RegisterSendLabels, CallInv, CallOrder, Types, Events
<1>4. EventInv'
  BY DEF EventInv, OwnerTaken, OutstandingPinned, SendInv,
     SendEventExclusive, SendHasPackets, Holds, RegisterSendLabels,
     CloseInv, ClosesOnce, Closes, ConnectInv, BeforeConnection,
     RecvBufferExclusive, Reads, RecvLabels, Types, Events
<1>5. RecvBufferExclusive'
  BY DEF RecvBufferExclusive, Reads, RecvLabels, ConnectInv,
     BeforeConnection, Alone, Types, Events
<1>6. ConnectInv'
  BY DEF ConnectInv, BeforeConnection, ConnectingAlone, Alone, Types, Events
<1>7. CloseInv'
  <2>1. ClosesOnce'
    BY DEF CloseInv, ClosesOnce, Closes, ConnectInv, BeforeConnection,
       ConnectingAlone, Alone, CallInv, CallOrder, Types, Events
  <2>2. ConnectedInService'
    BY DEF CloseInv, ClosesOnce, Closes, ConnectedInService, ConnectInv,
       BeforeConnection, ConnectingAlone, Alone, Types, Events
  <2>3. RegistrationOrdered'
    BY DEF CloseInv, ClosesOnce, Closes, RegistrationOrdered, ConnectInv,
       BeforeConnection, ConnectingAlone, Alone, Types, Events
  <2>. QED  BY <2>1, <2>2, <2>3 DEF CloseInv
<1>. QED  BY <1>1, <1>2, <1>3, <1>4, <1>5, <1>6, <1>7

LEMMA SendCheckKeepsIInv ==
    ASSUME IInv, NEW t \in Threads, SendCheck(t) PROVE IInv'
<1>. USE DEF IInv, SendCheck, SndAt, Call, eventVars, queueVars, setVars,
             kernelVars
<1>1. Types'
  <2>1. (snd \in [Threads -> SndLabels])'
    BY DEF Types, SndLabels
  <2>. QED  BY <2>1 DEF Types
<1>2. CallInv'
  <2>1. LocksHeld'
    BY DEF CallInv, LocksHeld, Types
  <2>2. CallOrder'
    BY DEF CallInv, CallOrder, Types
  <2>. QED  BY <2>1, <2>2 DEF CallInv
<1>3. SendInv'
  BY DEF SendInv, SendEventExclusive, PermitFlagged, SendHasPackets, Holds,
     RegisterSendLabels, CallInv, CallOrder, Types, Events
<1>4. EventInv'
  BY DEF EventInv, OwnerTaken, OutstandingPinned, SendInv,
     SendEventExclusive, SendHasPackets, Holds, RegisterSendLabels,
     CloseInv, ClosesOnce, Closes, ConnectInv, BeforeConnection,
     RecvBufferExclusive, Reads, RecvLabels, Types, Events
<1>5. ConnectInv'
  BY DEF ConnectInv, BeforeConnection, ConnectingAlone, Alone, Types, Events
<1>6. (RecvBufferExclusive /\ CloseInv)'
  BY DEF RecvBufferExclusive, Reads, CloseInv, ClosesOnce, Closes,
     ConnectedInService, RegistrationOrdered
<1>. QED  BY <1>1, <1>2, <1>3, <1>4, <1>5, <1>6

LEMMA SendPushKeepsIInv ==
    ASSUME IInv, NEW t \in Threads, SendPush(t) PROVE IInv'
<1>. USE DEF IInv, SendPush, SndAt, Call, Free, eventVars, setVars,
             kernelVars
<1>1. Types'
  <2>1. (sendRegistered \in BOOLEAN)'
    BY DEF Types
  <2>2. (sendQueue \in Seq(Nat))'
    BY DEF Types
  <2>3. (pushed \in Nat)'
    BY DEF Types
  <2>4. (snd \in [Threads -> SndLabels])'
    BY DEF Types, SndLabels
  <2>. QED  BY <2>1, <2>2, <2>3, <2>4 DEF Types
<1>2. CallInv'
  <2>1. LocksHeld'
    BY DEF CallInv, LocksHeld, Types
  <2>2. CallOrder'
    BY DEF CallInv, CallOrder, Types
  <2>. QED  BY <2>1, <2>2 DEF CallInv
<1>3. SendInv'
  <2>1. sendQueue' # <<>>
    BY DEF Types
  <2>2. CASE sendRegistered
    BY <2>1, <2>2 DEF SendInv, SendEventExclusive, PermitFlagged, SendHasPackets,
       Holds, RegisterSendLabels, Types
  <2>3. CASE ~sendRegistered
    BY <2>1, <2>3 DEF SendInv, SendEventExclusive, PermitFlagged, SendHasPackets,
       Holds, RegisterSendLabels, CallInv, CallOrder, Types
  <2>. QED  BY <2>2, <2>3
<1>4. EventInv'
  BY DEF EventInv, OwnerTaken, OutstandingPinned, SendInv,
     SendEventExclusive, SendHasPackets, Holds, RegisterSendLabels,
     CloseInv, ClosesOnce, Closes, ConnectInv, BeforeConnection,
     RecvBufferExclusive, Reads, RecvLabels, Types, Events
<1>5. ConnectInv'
  BY DEF ConnectInv, BeforeConnection, ConnectingAlone, Alone, Types, Events
<1>6. (RecvBufferExclusive /\ CloseInv)'
  BY DEF RecvBufferExclusive, Reads, CloseInv, ClosesOnce, Closes,
     ConnectedInService, RegistrationOrdered
<1>. QED  BY <1>1, <1>2, <1>3, <1>4, <1>5, <1>6

LEMMA RegisterSendKeepsIInv ==
    ASSUME IInv, NEW t \in Threads, RegisterSend(t) PROVE IInv'
<1>. USE DEF IInv, RegisterSend, SndAt, Call, SetOwner, queueVars, setVars,
             kernelVars
<1>1. Types'
  <2>1. (owner \in [Events -> BOOLEAN])'
    <3>1. owner' = [owner EXCEPT !["send"] = TRUE] \/ owner' = owner
      OBVIOUS
    <3>. QED  BY <3>1, OwnerUpdate DEF Types, Events
  <2>2. (snd \in [Threads -> SndLabels])'
    BY DEF Types, SndLabels
  <2>. QED  BY <2>1, <2>2 DEF Types
<1>2. CallInv'
  <2>1. LocksHeld'
    BY DEF CallInv, LocksHeld, Types
  <2>2. CallOrder'
    BY DEF CallInv, CallOrder, Types
  <2>. QED  BY <2>1, <2>2 DEF CallInv
<1>3. SendInv'
  BY DEF SendInv, SendEventExclusive, PermitFlagged, SendHasPackets, Holds,
     RegisterSendLabels, CallInv, CallOrder, Types, Events
<1>4. EventInv'
  BY DEF EventInv, OwnerTaken, OutstandingPinned, SendInv,
     SendEventExclusive, SendHasPackets, Holds, RegisterSendLabels,
     CloseInv, ClosesOnce, Closes, ConnectInv, BeforeConnection,
     RecvBufferExclusive, Reads, RecvLabels, Types, Events
<1>5. ConnectInv'
  BY DEF ConnectInv, BeforeConnection, ConnectingAlone, Alone, Types, Events
<1>6. (RecvBufferExclusive /\ CloseInv)'
  BY DEF RecvBufferExclusive, Reads, CloseInv, ClosesOnce, Closes,
     ConnectedInService, RegistrationOrdered
<1>. QED  BY <1>1, <1>2, <1>3, <1>4, <1>5, <1>6

LEMMA RegisterSendDrainKeepsIInv ==
    ASSUME IInv, NEW t \in Threads, RegisterSendDrain(t) PROVE IInv'
<1>. USE DEF IInv, RegisterSendDrain, SndAt, Call, Free, setVars, kernelVars
<1>1. Types'
  <2>1. (sendQueue \in Seq(Nat))'
    BY DEF Types
  <2>2. (sendBuffers \in Seq(Nat))'
    BY DEF Types
  <2>3. (snd \in [Threads -> SndLabels])'
    BY DEF Types, SndLabels
  <2>. QED  BY <2>1, <2>2, <2>3 DEF Types
<1>2. CallInv'
  <2>1. LocksHeld'
    BY DEF CallInv, LocksHeld, Types
  <2>2. CallOrder'
    BY DEF CallInv, CallOrder, Types
  <2>. QED  BY <2>1, <2>2 DEF CallInv
<1>3. SendInv'
  BY DEF SendInv, SendEventExclusive, PermitFlagged, SendHasPackets, Holds,
     RegisterSendLabels, CallInv, CallOrder, Types, Events
<1>4. EventInv'
  BY DEF EventInv, OwnerTaken, OutstandingPinned, SendInv,
     SendEventExclusive, SendHasPackets, Holds, RegisterSendLabels,
     CloseInv, ClosesOnce, Closes, ConnectInv, BeforeConnection,
     RecvBufferExclusive, Reads, RecvLabels, Types, Events
<1>5. ConnectInv'
  BY DEF ConnectInv, BeforeConnection, ConnectingAlone, Alone, Types, Events
<1>6. (RecvBufferExclusive /\ CloseInv)'
  BY DEF RecvBufferExclusive, Reads, CloseInv, ClosesOnce, Closes,
     ConnectedInService, RegistrationOrdered
<1>. QED  BY <1>1, <1>2, <1>3, <1>4, <1>5, <1>6

LEMMA WSASendKeepsIInv ==
    ASSUME IInv, NEW t \in Threads, WSASend(t) PROVE IInv'
<1>. USE DEF IInv, WSASend, SndAt, Call, Hang, SetIo, eventVars, queueVars,
             setVars
<1>1. Types'
  <2>1. (io \in [Events -> {"none", "posted", "ok", "failed"}])'
    BY DEF Types, Events
  <2>2. (snd \in [Threads -> SndLabels])'
    BY DEF Types, SndLabels
  <2>3. (disc \in [Threads -> DiscLabels])'
    BY DEF Types, DiscLabels
  <2>. QED  BY <2>1, <2>2, <2>3 DEF Types
<1>2. CallInv'
  <2>1. LocksHeld'
    BY DEF CallInv, LocksHeld, Types
  <2>2. CallOrder'
    BY DEF CallInv, CallOrder, Types
  <2>. QED  BY <2>1, <2>2 DEF CallInv
<1>3. SendInv'
  <2>1. Holds(t) /\ act[t] # "send.next"
    BY DEF Holds, RegisterSendLabels, CallInv, CallOrder
  <2>2. CASE io' = [io EXCEPT !["send"] = "posted"] /\ snd' = [snd EXCEPT ![t] = "none"]
    BY <2>1, <2>2 DEF SendInv, SendEventExclusive, PermitFlagged, SendHasPackets,
       Holds, RegisterSendLabels, Types, Events
  <2>3. CASE io' = io /\ snd' = [snd EXCEPT ![t] = "rs.error"]
    BY <2>1, <2>3 DEF SendInv, SendEventExclusive, PermitFlagged, SendHasPackets,
       Holds, RegisterSendLabels, Types, Events
  <2>. QED  BY <2>2, <2>3
<1>4. EventInv'
  BY DEF EventInv, OwnerTaken, OutstandingPinned, SendInv,
     SendEventExclusive, SendHasPackets, Holds, RegisterSendLabels,
     CloseInv, ClosesOnce, Closes, ConnectInv, BeforeConnection,
     RecvBufferExclusive, Reads, RecvLabels, Types, Events
<1>5. RecvBufferExclusive'
  BY DEF RecvBufferExclusive, Reads, RecvLabels, ConnectInv,
     BeforeConnection, Alone, Types, Events
<1>6. ConnectInv'
  BY DEF ConnectInv, BeforeConnection, ConnectingAlone, Alone, Types, Events
<1>7. CloseInv'
  <2>1. ClosesOnce'
    BY DEF CloseInv, ClosesOnce, Closes, ConnectInv, BeforeConnection,
       ConnectingAlone, Alone, CallInv, CallOrder, Types, Events
  <2>2. ConnectedInService'
    BY DEF CloseInv, ClosesOnce, Closes, ConnectedInService, ConnectInv,
       BeforeConnection, ConnectingAlone, Alone, Types, Events
  <2>3. RegistrationOrdered'
    BY DEF CloseInv, ClosesOnce, Closes, RegistrationOrdered, ConnectInv,
       BeforeConnection, ConnectingAlone, Alone, Types, Events
  <2>. QED  BY <2>1, <2>2, <2>3 DEF CloseInv
<1>. QED  BY <1>1, <1>2, <1>3, <1>4, <1>5, <1>6, <1>7

LEMMA SendFailedKeepsIInv ==
    ASSUME IInv, NEW t \in Threads, SendFailed(t) PROVE IInv'
<1>. USE DEF IInv, SendFailed, SndAt, Call, SetOwner, queueVars, setVars,
             kernelVars
<1>1. Types'
  <2>1. (sendBuffers \in Seq(Nat))'
    BY DEF Types
  <2>2. (owner \in [Events -> BOOLEAN])'
    BY DEF Types, Events
  <2>3. (snd \in [Threads -> SndLabels])'
    BY DEF Types, SndLabels
  <2>. QED  BY <2>1, <2>2, <2>3 DEF Types
<1>2. CallInv'
  <2>1. LocksHeld'
    BY DEF CallInv, LocksHeld, Types
  <2>2. CallOrder'
    BY DEF CallInv, CallOrder, Types
  <2>. QED  BY <2>1, <2>2 DEF CallInv
<1>3. SendInv'
  BY DEF SendInv, SendEventExclusive, PermitFlagged, SendHasPackets, Holds,
     RegisterSendLabels, CallInv, CallOrder, Types, Events
<1>4. EventInv'
  BY DEF EventInv, OwnerTaken, OutstandingPinned, SendInv,
     SendEventExclusive, SendHasPackets, Holds, RegisterSendLabels,
     CloseInv, ClosesOnce, Closes, ConnectInv, BeforeConnection,
     RecvBufferExclusive, Reads, RecvLabels, Types, Events
<1>5. ConnectInv'
  BY DEF ConnectInv, BeforeConnection, ConnectingAlone, Alone, Types, Events
<1>6. (RecvBufferExclusive /\ CloseInv)'
  BY DEF RecvBufferExclusive, Reads, CloseInv, ClosesOnce, Closes,
     ConnectedInService, RegistrationOrdered
<1>. QED  BY <1>1, <1>2, <1>3, <1>4, <1>5, <1>6

LEMMA SendUnflagKeepsIInv ==
    ASSUME IInv, NEW t \in Threads, SendUnflag(t) PROVE IInv'
<1>. USE DEF IInv, SendUnflag, SndAt, Call, eventVars, queueVars, setVars,
             kernelVars
<1>1. Types'
  <2>1. (sendRegistered \in BOOLEAN)'
    BY DEF Types
  <2>2. (snd \in [Threads -> SndLabels])'
    BY DEF Types, SndLabels
  <2>. QED  BY <2>1, <2>2 DEF Types
<1>2. CallInv'
  <2>1. LocksHeld'
    BY DEF CallInv, LocksHeld, Types
  <2>2. CallOrder'
    BY DEF CallInv, CallOrder, Types
  <2>. QED  BY <2>1, <2>2 DEF CallInv
<1>3. SendInv'
  <2>1. SendEventExclusive'
    BY DEF SendInv, SendEventExclusive, Holds, RegisterSendLabels, CallInv,
       CallOrder, Types
  <2>2. PermitFlagged'
    BY DEF SendInv, SendEventExclusive, PermitFlagged, Holds, RegisterSendLabels,
       CallInv, CallOrder, Types
  <2>3. SendHasPackets'
    BY DEF SendInv, SendEventExclusive, SendHasPackets, Holds, RegisterSendLabels,
       Types
  <2>. QED  BY <2>1, <2>2, <2>3 DEF SendInv
<1>4. EventInv'
  BY DEF EventInv, OwnerTaken, OutstandingPinned, SendInv,
     SendEventExclusive, SendHasPackets, Holds, RegisterSendLabels,
     CloseInv, ClosesOnce, Closes, ConnectInv, BeforeConnection,
     RecvBufferExclusive, Reads, RecvLabels, Types, Events
<1>5. ConnectInv'
  BY DEF ConnectInv, BeforeConnection, ConnectingAlone, Alone, Types, Events
<1>6. (RecvBufferExclusive /\ CloseInv)'
  BY DEF RecvBufferExclusive, Reads, CloseInv, ClosesOnce, Closes,
     ConnectedInService, RegistrationOrdered
<1>. QED  BY <1>1, <1>2, <1>3, <1>4, <1>5, <1>6

LEMMA ProcessSendKeepsIInv ==
    ASSUME IInv, NEW t \in Threads, ProcessSend(t) PROVE IInv'
<1>. USE DEF IInv, ProcessSend, Go, Hang, Dispatch, At, SetIo, SetOwner,
             queueVars, setVars
<1>1. Types'
  <2>1. (sendBuffers \in Seq(Nat))'
    BY DEF Types
  <2>2. (owner \in [Events -> BOOLEAN])'
    BY DEF Types, Events
  <2>3. (io \in [Events -> {"none", "posted", "ok", "failed"}])'
    BY DEF Types, Events
  <2>4. (act \in [Threads -> ActLabels])'
    BY DEF Types, ActLabels
  <2>5. (disc \in [Threads -> DiscLabels])'
    BY DEF Types, DiscLabels
  <2>. QED  BY <2>1, <2>2, <2>3, <2>4, <2>5 DEF Types
<1>2. CallInv'
  <2>1. LocksHeld'
    BY DEF CallInv, LocksHeld, Types
  <2>2. CallOrder'
    BY DEF CallInv, CallOrder, Types
  <2>. QED  BY <2>1, <2>2 DEF CallInv
<1>3. SendInv'
  BY DEF SendInv, SendEventExclusive, PermitFlagged, SendHasPackets, Holds,
     RegisterSendLabels, CallInv, CallOrder, Types, Events
<1>4. EventInv'
  BY DEF EventInv, OwnerTaken, OutstandingPinned, SendInv,
     SendEventExclusive, SendHasPackets, Holds, RegisterSendLabels,
     CloseInv, ClosesOnce, Closes, ConnectInv, BeforeConnection,
     RecvBufferExclusive, Reads, RecvLabels, Types, Events
<1>5. RecvBufferExclusive'
  BY DEF RecvBufferExclusive, Reads, RecvLabels, ConnectInv,
     BeforeConnection, Alone, Types, Events
<1>6. ConnectInv'
  BY DEF ConnectInv, BeforeConnection, ConnectingAlone, Alone, Types, Events
<1>7. CloseInv'
  <2>1. ClosesOnce'
    BY DEF CloseInv, ClosesOnce, Closes, ConnectInv, BeforeConnection,
       ConnectingAlone, Alone, CallInv, CallOrder, Types, Events
  <2>2. ConnectedInService'
    BY DEF CloseInv, ClosesOnce, Closes, ConnectedInService, ConnectInv,
       BeforeConnection, ConnectingAlone, Alone, Types, Events
  <2>3. RegistrationOrdered'
    BY DEF CloseInv, ClosesOnce, Closes, RegistrationOrdered, ConnectInv,
       BeforeConnection, ConnectingAlone, Alone, Types, Events
  <2>. QED  BY <2>1, <2>2, <2>3 DEF CloseInv
<1>. QED  BY <1>1, <1>2, <1>3, <1>4, <1>5, <1>6, <1>7

LEMMA ProcessSendNextKeepsIInv ==
    ASSUME IInv, NEW t \in Threads, ProcessSendNext(t) PROVE IInv'
<1>. USE DEF IInv, ProcessSendNext, At, Go, Call, Free, eventVars,
             queueVars, setVars, kernelVars
<1>1. Types'
  <2>1. (sendRegistered \in BOOLEAN)'
    BY DEF Types
  <2>2. (sessionLock \in Threads \cup {NoThread})'
    BY DEF Types
  <2>3. (act \in [Threads -> ActLabels])'
    <3>1. \/ act' = [act EXCEPT ![t] = "idle"]
          \/ act' = [act EXCEPT ![t] = "send.locked"]
      OBVIOUS
    <3>. QED  BY <3>1, SMTT(30) DEF Types, ActLabels
  <2>4. (snd \in [Threads -> SndLabels])'
    BY DEF Types, SndLabels
  <2>. QED  BY <2>1, <2>2, <2>3, <2>4 DEF Types
<1>2. CallInv'
  <2>1. CASE sendQueue = <<>>
    <3>1. LocksHeld'
      BY <2>1, SessionAssumption DEF CallInv, LocksHeld, Types
    <3>2. CallOrder'
      BY <2>1 DEF CallInv, CallOrder, Types
    <3>. QED  BY <3>1, <3>2 DEF CallInv
  <2>2. CASE sendQueue # <<>>
    <3>1. LocksHeld'
      BY <2>2, SessionAssumption DEF CallInv, LocksHeld, Types
    <3>2. CallOrder'
      <4>1. /\ snd' = [snd EXCEPT ![t] = "rs.check"]
            /\ act' = [act EXCEPT ![t] = "send.locked"] /\ disc' = disc
            /\ act[t] = "send.next"
        BY <2>2
      <4>2. disc[t] = "none"
        BY <4>1 DEF CallInv, CallOrder
      <4>. HIDE DEF ProcessSendNext
      <4>. QED  BY <4>1, <4>2 DEF CallInv, CallOrder, Types
    <3>. QED  BY <3>1, <3>2 DEF CallInv
  <2>. QED  BY <2>1, <2>2
<1>3. SendInv'
  <2>1. SendEventExclusive'
    BY DEF SendInv, SendEventExclusive, Holds, RegisterSendLabels, CallInv,
       CallOrder, Types
  <2>2. PermitFlagged'
    BY DEF SendInv, SendEventExclusive, PermitFlagged, Holds, RegisterSendLabels,
       CallInv, CallOrder, Types
  <2>3. SendHasPackets'
    BY DEF SendInv, SendEventExclusive, SendHasPackets, Holds, RegisterSendLabels,
       Types
  <2>. QED  BY <2>1, <2>2, <2>3 DEF SendInv
<1>4. EventInv'
  BY DEF EventInv, OwnerTaken, OutstandingPinned, SendInv,
     SendEventExclusive, SendHasPackets, Holds, RegisterSendLabels,
     CloseInv, ClosesOnce, Closes, ConnectInv, BeforeConnection,
     RecvBufferExclusive, Reads, RecvLabels, Types, Events
<1>5. RecvBufferExclusive'
  BY DEF RecvBufferExclusive, Reads, RecvLabels, ConnectInv,
     BeforeConnection, Alone, Types, Events
<1>6. ConnectInv'
  BY DEF ConnectInv, BeforeConnection, ConnectingAlone, Alone, Types, Events
<1>7. CloseInv'
  <2>1. ClosesOnce'
    BY DEF CloseInv, ClosesOnce, Closes, ConnectInv, BeforeConnection,
       ConnectingAlone, Alone, CallInv, CallOrder, Types, Events
  <2>2. ConnectedInService'
    BY DEF CloseInv, ClosesOnce, Closes, ConnectedInService, ConnectInv,
       BeforeConnection, ConnectingAlone, Alone, Types, Events
  <2>3. RegistrationOrdered'
    BY DEF CloseInv, ClosesOnce, Closes, RegistrationOrdered, ConnectInv,
       BeforeConnection, ConnectingAlone, Alone, Types, Events
  <2>. QED  BY <2>1, <2>2, <2>3 DEF CloseInv
<1>. QED  BY <1>1, <1>2, <1>3, <1>4, <1>5, <1>6, <1>7

LEMMA ProcessSendReturnKeepsIInv ==
    ASSUME IInv, NEW t \in Threads, ProcessSendReturn(t) PROVE IInv'
<1>. USE DEF IInv, ProcessSendReturn, At, Go, eventVars, queueVars, setVars,
             kernelVars
<1>1. Types'
  <2>1. (sessionLock \in Threads \cup {NoThread})'
    BY DEF Types
  <2>2. (act \in [Threads -> ActLabels])'
    BY DEF Types, ActLabels
  <2>. QED  BY <2>1, <2>2 DEF Types
<1>2. CallInv'
  <2>1. LocksHeld'
    BY SessionAssumption DEF CallInv, LocksHeld, Types
  <2>2. CallOrder'
    BY SessionAssumption DEF CallInv, CallOrder, Types
  <2>. QED  BY <2>1, <2>2 DEF CallInv
<1>3. SendInv'
  BY DEF SendInv, SendEventExclusive, PermitFlagged, SendHasPackets, Holds,
     RegisterSendLabels, CallInv, CallOrder, Types, Events
<1>4. EventInv'
  BY DEF EventInv, OwnerTaken, OutstandingPinned, SendInv,
     SendEventExclusive, SendHasPackets, Holds, RegisterSendLabels,
     CloseInv, ClosesOnce, Closes, ConnectInv, BeforeConnection,
     RecvBufferExclusive, Reads, RecvLabels, Types, Events
<1>5. RecvBufferExclusive'
  BY DEF RecvBufferExclusive, Reads, RecvLabels, ConnectInv,
     BeforeConnection, Alone, Types, Events
<1>6. ConnectInv'
  BY DEF ConnectInv, BeforeConnection, ConnectingAlone, Alone, Types, Events
<1>7. CloseInv'
  <2>1. ClosesOnce'
    BY DEF CloseInv, ClosesOnce, Closes, ConnectInv, BeforeConnection,
       ConnectingAlone, Alone, CallInv, CallOrder, Types, Events
  <2>2. ConnectedInService'
    BY DEF CloseInv, ClosesOnce, Closes, ConnectedInService, ConnectInv,
       BeforeConnection, ConnectingAlone, Alone, Types, Events
  <2>3. RegistrationOrdered'
    BY DEF CloseInv, ClosesOnce, Closes, RegistrationOrdered, ConnectInv,
       BeforeConnection, ConnectingAlone, Alone, Types, Events
  <2>. QED  BY <2>1, <2>2, <2>3 DEF CloseInv
<1>. QED  BY <1>1, <1>2, <1>3, <1>4, <1>5, <1>6, <1>7

LEMMA DisconnectKeepsIInv ==
    ASSUME IInv, NEW t \in Threads, Disconnect(t) PROVE IInv'
<1>. USE DEF IInv, Disconnect, Hang, eventVars, queueVars, setVars,
             kernelVars
<1>1. Types'
  <2>1. (connected \in BOOLEAN)'
    BY DEF Types
  <2>2. (disc \in [Threads -> DiscLabels])'
    BY DEF Types, DiscLabels
  <2>. QED  BY <2>1, <2>2 DEF Types
<1>2. CallInv'
  <2>1. LocksHeld'
    BY DEF CallInv, LocksHeld, Types
  <2>2. CallOrder'
    BY DEF CallInv, CallOrder, Types
  <2>. QED  BY <2>1, <2>2 DEF CallInv
<1>3. ConnectInv'
  BY DEF ConnectInv, BeforeConnection, ConnectingAlone, Alone, Types, Events
<1>4. CloseInv'
  <2>1. ClosesOnce'
    <3>1. \A u \in Threads : Closes(u)' => Closes(u) \/ u = t
      BY DEF Closes, Types
    <3>2. \A u \in Threads : Closes(u)' =>
              ~connected' /\ inService' /\ io'["disconnect"] = "none"
      BY <3>1 DEF CloseInv, ClosesOnce, Closes, ConnectedInService, ConnectInv,
         BeforeConnection, ConnectingAlone, Alone, CallInv, CallOrder, Types, Events
    <3>3. io'["disconnect"] # "none" => ~connected' /\ inService'
      BY DEF CloseInv, ClosesOnce, Closes, Types, Events
    <3>4. \A u, v \in Threads : Closes(u)' /\ Closes(v)' => u = v
      BY <3>1 DEF CloseInv, ClosesOnce, Closes, ConnectedInService, ConnectInv,
         BeforeConnection, ConnectingAlone, Alone, CallInv, CallOrder, Types
    <3>. QED  BY <3>2, <3>3, <3>4 DEF ClosesOnce
  <2>2. ConnectedInService'
    BY DEF CloseInv, ClosesOnce, Closes, ConnectedInService, ConnectInv,
       BeforeConnection, ConnectingAlone, Alone, Types, Events
  <2>3. RegistrationOrdered'
    BY DEF CloseInv, ClosesOnce, Closes, RegistrationOrdered, ConnectInv,
       BeforeConnection, ConnectingAlone, Alone, Types, Events
  <2>. QED  BY <2>1, <2>2, <2>3 DEF CloseInv
<1>5. (SendInv /\ EventInv /\ RecvBufferExclusive)'
  BY DEF SendInv, SendEventExclusive, PermitFlagged, SendHasPackets, Holds,
     EventInv, OwnerTaken, OutstandingPinned, RecvBufferExclusive, Reads
<1>. QED  BY <1>1, <1>2, <1>3, <1>4, <1>5

LEMMA RegisterDisconnectKeepsIInv ==
    ASSUME IInv, NEW t \in Threads, RegisterDisconnect(t) PROVE IInv'
<1>. USE DEF IInv, RegisterDisconnect, Hang, SetOwner, SetIo, queueVars,
             setVars
<1>1. Types'
  <2>1. (owner \in [Events -> BOOLEAN])'
    <3>1. \/ owner' = [owner EXCEPT !["disconnect"] = TRUE]
          \/ owner' = [owner EXCEPT !["disconnect"] = FALSE]
      OBVIOUS
    <3>. QED  BY <3>1, OwnerUpdate DEF Types, Events
  <2>2. (sock \in SockStates)'
    BY DEF Types, SockStates
  <2>3. (io \in [Events -> {"none", "posted", "ok", "failed"}])'
    BY DEF Types, Events
  <2>4. (disc \in [Threads -> DiscLabels])'
    BY DEF Types, DiscLabels
  <2>. QED  BY <2>1, <2>2, <2>3, <2>4 DEF Types
<1>2. CallInv'
  <2>1. LocksHeld'
    BY DEF CallInv, LocksHeld, Types
  <2>2. CallOrder'
    BY DEF CallInv, CallOrder, Types
  <2>. QED  BY <2>1, <2>2 DEF CallInv
<1>3. SendInv'
  BY DEF SendInv, SendEventExclusive, PermitFlagged, SendHasPackets, Holds,
     RegisterSendLabels, CallInv, CallOrder, Types, Events
<1>4. EventInv'
  BY DEF EventInv, OwnerTaken, OutstandingPinned, SendInv,
     SendEventExclusive, SendHasPackets, Holds, RegisterSendLabels,
     CloseInv, ClosesOnce, Closes, ConnectInv, BeforeConnection,
     RecvBufferExclusive, Reads, RecvLabels, Types, Events
<1>5. RecvBufferExclusive'
  BY DEF RecvBufferExclusive, Reads, RecvLabels, ConnectInv,
     BeforeConnection, Alone, Types, Events
<1>6. ConnectInv'
  BY DEF ConnectInv, BeforeConnection, ConnectingAlone, Alone, Types, Events
<1>7. CloseInv'
  <2>1. ClosesOnce'
    <3>1. ~connected /\ inService /\ \A u \in Threads : Closes(u) => u = t
      BY DEF CloseInv, ClosesOnce, Closes
    <3>2. act[t] \notin {"disc.hook", "disc.release"}
      BY DEF CallInv, CallOrder
    <3>3. \A u \in Threads : ~Closes(u)'
      BY <3>1, <3>2 DEF Closes, Types
    <3>. QED  BY <3>1, <3>3 DEF ClosesOnce
  <2>2. ConnectedInService'
    BY DEF CloseInv, ClosesOnce, Closes, ConnectedInService, ConnectInv,
       BeforeConnection, ConnectingAlone, Alone, Types, Events
  <2>3. RegistrationOrdered'
    BY DEF CloseInv, ClosesOnce, Closes, RegistrationOrdered, ConnectInv,
       BeforeConnection, ConnectingAlone, Alone, Types, Events
  <2>. QED  BY <2>1, <2>2, <2>3 DEF CloseInv
<1>. QED  BY <1>1, <1>2, <1>3, <1>4, <1>5, <1>6, <1>7

LEMMA ProcessDisconnectKeepsIInv ==
    ASSUME IInv, NEW t \in Threads, ProcessDisconnect(t) PROVE IInv'
<1>. USE DEF IInv, ProcessDisconnect, Go, Dispatch, At, SetIo, SetOwner,
             queueVars, setVars
<1>1. Types'
  <2>1. (owner \in [Events -> BOOLEAN])'
    BY DEF Types, Events
  <2>2. (io \in [Events -> {"none", "posted", "ok", "failed"}])'
    BY DEF Types, Events
  <2>3. (act \in [Threads -> ActLabels])'
    BY DEF Types, ActLabels
  <2>. QED  BY <2>1, <2>2, <2>3 DEF Types
<1>2. CallInv'
  <2>1. LocksHeld'
    BY DEF CallInv, LocksHeld, Types
  <2>2. CallOrder'
    BY DEF CallInv, CallOrder, Types
  <2>. QED  BY <2>1, <2>2 DEF CallInv
<1>3. SendInv'
  BY DEF SendInv, SendEventExclusive, PermitFlagged, SendHasPackets, Holds,
     RegisterSendLabels, CallInv, CallOrder, Types, Events
<1>4. EventInv'
  BY DEF EventInv, OwnerTaken, OutstandingPinned, SendInv,
     SendEventExclusive, SendHasPackets, Holds, RegisterSendLabels,
     CloseInv, ClosesOnce, Closes, ConnectInv, BeforeConnection,
     RecvBufferExclusive, Reads, RecvLabels, Types, Events
<1>5. RecvBufferExclusive'
  BY DEF RecvBufferExclusive, Reads, RecvLabels, ConnectInv,
     BeforeConnection, Alone, Types, Events
<1>6. ConnectInv'
  BY DEF ConnectInv, BeforeConnection, ConnectingAlone, Alone, Types, Events
<1>7. CloseInv'
  <2>1. ClosesOnce'
    BY DEF CloseInv, ClosesOnce, Closes, ConnectInv, BeforeConnection,
       ConnectingAlone, Alone, CallInv, CallOrder, Types, Events
  <2>2. ConnectedInService'
    BY DEF CloseInv, ClosesOnce, Closes, ConnectedInService, ConnectInv,
       BeforeConnection, ConnectingAlone, Alone, Types, Events
  <2>3. RegistrationOrdered'
    BY DEF CloseInv, ClosesOnce, Closes, RegistrationOrdered, ConnectInv,
       BeforeConnection, ConnectingAlone, Alone, Types, Events
  <2>. QED  BY <2>1, <2>2, <2>3 DEF CloseInv
<1>. QED  BY <1>1, <1>2, <1>3, <1>4, <1>5, <1>6, <1>7

LEMMA OnDisconnectedKeepsIInv ==
    ASSUME IInv, NEW t \in Threads, OnDisconnected(t) PROVE IInv'
<1>. USE DEF IInv, OnDisconnected, At, Go, Free, eventVars, queueVars,
             kernelVars
<1>1. Types'
  <2>1. (inManager \in BOOLEAN)'
    BY DEF Types
  <2>2. (act \in [Threads -> ActLabels])'
    BY DEF Types, ActLabels
  <2>. QED  BY <2>1, <2>2 DEF Types
<1>2. CallInv'
  <2>1. LocksHeld'
    BY DEF CallInv, LocksHeld, Types
  <2>2. CallOrder'
    BY DEF CallInv, CallOrder, Types
  <2>. QED  BY <2>1, <2>2 DEF CallInv
<1>3. SendInv'
  BY DEF SendInv, SendEventExclusive, PermitFlagged, SendHasPackets, Holds,
     RegisterSendLabels, CallInv, CallOrder, Types, Events
<1>4. EventInv'
  BY DEF EventInv, OwnerTaken, OutstandingPinned, SendInv,
     SendEventExclusive, SendHasPackets, Holds, RegisterSendLabels,
     CloseInv, ClosesOnce, Closes, ConnectInv, BeforeConnection,
     RecvBufferExclusive, Reads, RecvLabels, Types, Events
<1>5. RecvBufferExclusive'
  BY DEF RecvBufferExclusive, Reads, RecvLabels, ConnectInv,
     BeforeConnection, Alone, Types, Events
<1>6. ConnectInv'
  BY DEF ConnectInv, BeforeConnection, ConnectingAlone, Alone, Types, Events
<1>7. CloseInv'
  <2>1. ClosesOnce'
    BY DEF CloseInv, ClosesOnce, Closes, ConnectInv, BeforeConnection,
       ConnectingAlone, Alone, CallInv, CallOrder, Types, Events
  <2>2. ConnectedInService'
    BY DEF CloseInv, ClosesOnce, Closes, ConnectedInService, ConnectInv,
       BeforeConnection, ConnectingAlone, Alone, Types, Events
  <2>3. RegistrationOrdered'
    BY DEF CloseInv, ClosesOnce, Closes, RegistrationOrdered, ConnectInv,
       BeforeConnection, ConnectingAlone, Alone, Types, Events
  <2>. QED  BY <2>1, <2>2, <2>3 DEF CloseInv
<1>. QED  BY <1>1, <1>2, <1>3, <1>4, <1>5, <1>6, <1>7

LEMMA ReleaseSessionKeepsIInv ==
    ASSUME IInv, NEW t \in Threads, ReleaseSession(t) PROVE IInv'
<1>. USE DEF IInv, ReleaseSession, At, Go, eventVars, queueVars, kernelVars
<1>1. Types'
  <2>1. (inService \in BOOLEAN)'
    BY DEF Types
  <2>2. (act \in [Threads -> ActLabels])'
    BY DEF Types, ActLabels
  <2>. QED  BY <2>1, <2>2 DEF Types
<1>2. CallInv'
  <2>1. LocksHeld'
    BY DEF CallInv, LocksHeld, Types
  <2>2. CallOrder'
    BY DEF CallInv, CallOrder, Types
  <2>. QED  BY <2>1, <2>2 DEF CallInv
<1>3. SendInv'
  BY DEF SendInv, SendEventExclusive, PermitFlagged, SendHasPackets, Holds,
     RegisterSendLabels, CallInv, CallOrder, Types, Events
<1>4. EventInv'
  BY DEF EventInv, OwnerTaken, OutstandingPinned, SendInv,
     SendEventExclusive, SendHasPackets, Holds, RegisterSendLabels,
     CloseInv, ClosesOnce, Closes, ConnectInv, BeforeConnection,
     RecvBufferExclusive, Reads, RecvLabels, Types, Events
<1>5. RecvBufferExclusive'
  BY DEF RecvBufferExclusive, Reads, RecvLabels, ConnectInv,
     BeforeConnection, Alone, Types, Events
<1>6. ConnectInv'
  BY DEF ConnectInv, BeforeConnection, ConnectingAlone, Alone, Types, Events
<1>7. CloseInv'
  <2>1. ClosesOnce'
    BY DEF CloseInv, ClosesOnce, Closes, ConnectInv, BeforeConnection,
       ConnectingAlone, Alone, CallInv, CallOrder, Types, Events
  <2>2. ConnectedInService'
    BY DEF CloseInv, ClosesOnce, Closes, ConnectedInService, ConnectInv,
       BeforeConnection, ConnectingAlone, Alone, Types, Events
  <2>3. RegistrationOrdered'
    BY DEF CloseInv, ClosesOnce, Closes, RegistrationOrdered, ConnectInv,
       BeforeConnection, ConnectingAlone, Alone, Types, Events
  <2>. QED  BY <2>1, <2>2, <2>3 DEF CloseInv
<1>. QED  BY <1>1, <1>2, <1>3, <1>4, <1>5, <1>6, <1>7
LEMMA StutterKeepsIInv ==
    ASSUME IInv, UNCHANGED vars PROVE IInv'
<1>. USE DEF IInv, vars, eventVars, queueVars, setVars, kernelVars
<1>1. Types'
  BY DEF Types
<1>2. (CallInv /\ SendInv)'
  BY DEF CallInv, LocksHeld, CallOrder, SendInv, SendEventExclusive,
     PermitFlagged, SendHasPackets, Holds
<1>3. (EventInv /\ RecvBufferExclusive)'
  BY DEF EventInv, OwnerTaken, OutstandingPinned, RecvBufferExclusive, Reads
<1>4. (ConnectInv /\ CloseInv)'
  BY DEF ConnectInv, BeforeConnection, ConnectingAlone, Alone, CloseInv,
     ClosesOnce, Closes, ConnectedInService, RegistrationOrdered
<1>. QED  BY <1>1, <1>2, <1>3, <1>4

-----------------------------------------------------------------------------
LEMMA NextKeepsIInv == IInv /\ [Next]_vars => IInv'
<1>. SUFFICES ASSUME IInv, [Next]_vars PROVE IInv'
  OBVIOUS
<1>1. CASE PeerGone \/ RegisterConnect
  BY <1>1, PeerGoneKeepsIInv, RegisterConnectKeepsIInv
<1>2. CASE Kernel
  BY <1>2, CompleteConnectKeepsIInv, CompleteRecvKeepsIInv, CompleteSendKeepsIInv,
     CompleteDisconnectKeepsIInv DEF Kernel
<1>3. CASE \E t \in Threads : Continue(t)
  BY <1>3, AddSessionKeepsIInv, OnConnectedKeepsIInv, RegisterRecvKeepsIInv,
     WSARecvKeepsIInv, RecvFailedKeepsIInv, BroadcastReturnKeepsIInv,
     SendCheckKeepsIInv, SendPushKeepsIInv, RegisterSendKeepsIInv,
     RegisterSendDrainKeepsIInv, WSASendKeepsIInv, SendFailedKeepsIInv,
     SendUnflagKeepsIInv, ProcessSendNextKeepsIInv, ProcessSendReturnKeepsIInv,
     DisconnectKeepsIInv, RegisterDisconnectKeepsIInv, OnDisconnectedKeepsIInv,
     ReleaseSessionKeepsIInv DEF Continue
<1>4. CASE \E t \in Threads : Enter(t)
  BY <1>4, AcceptKeepsIInv, BroadcastKeepsIInv, ReplyKeepsIInv DEF Enter
<1>5. CASE \E t \in Threads : DispatchAny(t)
  BY <1>5, ProcessConnectKeepsIInv, ProcessRecvKeepsIInv, ProcessSendKeepsIInv,
     ProcessDisconnectKeepsIInv DEF DispatchAny
<1>6. CASE \E t \in Threads : OnRecvReturn(t)
  BY <1>6, OnRecvReturnKeepsIInv
<1>7. CASE UNCHANGED vars
  BY <1>7, StutterKeepsIInv
<1>. QED  BY <1>1, <1>2, <1>3, <1>4, <1>5, <1>6, <1>7 DEF Next

-----------------------------------------------------------------------------
\* The invariant everything below rests on.
THEOREM Invariance == Spec => []IInv
<1>1. Init => IInv
  BY InitIInv
<1>2. IInv /\ [Next]_vars => IInv'
  BY NextKeepsIInv
<1>. QED  BY <1>1, <1>2, PTL DEF Spec

\* The types, and the locks of the session and of its manager are held exactly
\* by the threads whose labels say so (WRITE_LOCK of Session.cpp 285 and of
\* Broadcast).
THEOREM TypeCorrect == Spec => []TypeOK
<1>1. IInv => TypeOK
  BY DEF IInv, CallInv, TypeOK
<1>. QED  BY <1>1, Invariance, PTL

\* _sendRegistered gives _sendEvent to one user at a time: no two threads, nor a
\* thread and the outstanding operation (Session.cpp 20-41, 162-212, 271-290).
THEOREM SendEventIsExclusive == Spec => []SendEventExclusive
<1>1. IInv => SendEventExclusive
  BY DEF IInv, SendInv
<1>. QED  BY <1>1, Invariance, PTL

\* The receive buffer, which has no lock, is used by one thread at a time and by
\* none while a receive is outstanding (Session.cpp 135-160, 239-268).
THEOREM RecvBufferIsExclusive == Spec => []RecvBufferExclusive
<1>1. IInv => RecvBufferExclusive
  BY DEF IInv
<1>. QED  BY <1>1, Invariance, PTL

\* Every outstanding operation keeps its session and its buffers alive, through
\* whatever errors and disconnections (iocpEvent->owner, sendBuffers).
THEOREM OutstandingIsPinned == Spec => []OutstandingPinned
<1>1. IInv => OutstandingPinned
  BY DEF IInv, EventInv
<1>. QED  BY <1>1, Invariance, PTL

\* RegisterSend never posts an empty send, which would be read as the end of the
\* connection when it completes.
THEOREM NeverSendsNothing == Spec => []NoEmptySend
<1>1. IInv => NoEmptySend
  BY DEF IInv, SendInv, SendHasPackets, NoEmptySend
<1>. QED  BY <1>1, Invariance, PTL

\* ASSERT_CRASH in Service::ReleaseSession never fires, and the manager never
\* holds a session the service has released.
THEOREM ReleaseNeverAsserts == Spec => []RegistrationOrdered
<1>1. IInv => RegistrationOrdered
  BY DEF IInv, CloseInv
<1>. QED  BY <1>1, Invariance, PTL

-----------------------------------------------------------------------------
(***************************************************************************)
(* With an assumption: WSASend and WSARecv fail at once only on a          *)
(* connection that is lost.  Then what is queued is attended to, a         *)
(* connected session listens, and the session implements SendChannel.      *)
(* (Run session_send_error shows that the first is false otherwise.)       *)
(***************************************************************************)
OnConnection == connected /\ sock = "open"

\* Whoever set _sendRegistered sees to the queue, or somebody it passed it on to.
FlagAttended == OnConnection /\ sendRegistered => Attended

\* A queue with packets in it has the flag set.
QueueFlagged == OnConnection /\ sendQueue # <<>> => sendRegistered

\* WSASend has failed only on a connection that is lost.
ErrorOffConnection ==
    \A t \in Threads : snd[t] \in {"rs.error", "rs.unflag"} => sock # "open"

\* Nothing is queued before the connection has been dispatched.
EmptyBefore ==
    sock \in {"idle", "connecting"} \/ io["connect"] # "none" =>
        ~sendRegistered /\ sendQueue = <<>>

QueueInv == FlagAttended /\ QueueFlagged /\ ErrorOffConnection /\ EmptyBefore

\* WSARecv has failed only on a connection that is lost or being disconnected.
UndoneOffConnection ==
    \A t \in Threads :
        act[t] = "recv.undo" /\ disc[t] = "none" =>
            ~connected \/ sock \notin {"open", "broken"}

ListenInv == Listening /\ UndoneOffConnection

-----------------------------------------------------------------------------
LEMMA QueueStep ==
    ASSUME ~OtherErrors, IInv, QueueInv, [Next]_vars PROVE QueueInv'
<1>. USE SessionAssumption DEF IInv, Types, vars, queueVars, eventVars, setVars,
        kernelVars, SetIo, SetOwner, Events, QueueInv, FlagAttended,
        QueueFlagged, ErrorOffConnection, EmptyBefore, OnConnection, Attended,
        Holds, RegisterSendLabels, ConnectInv, BeforeConnection, Alone, CallInv,
        CallOrder, CloseInv, ClosesOnce, Closes
<1>1. CASE PeerGone
  BY <1>1 DEF PeerGone
<1>2. CASE CompleteConnect
  BY <1>2 DEF CompleteConnect, Finish
<1>3. CASE CompleteRecv
  BY <1>3 DEF CompleteRecv, Finish
<1>4. CASE CompleteSend
  BY <1>4 DEF CompleteSend, Finish
<1>5. CASE CompleteDisconnect
  BY <1>5 DEF CompleteDisconnect, Finish
<1>6. CASE RegisterConnect
  BY <1>6 DEF RegisterConnect
<1>7. ASSUME NEW t \in Threads, AddSession(t) PROVE QueueInv'
  BY <1>7 DEF AddSession, At, Go
<1>8. ASSUME NEW t \in Threads, OnConnected(t) PROVE QueueInv'
  BY <1>8 DEF OnConnected, At, Go, Call
<1>9. ASSUME NEW t \in Threads, RegisterRecv(t) PROVE QueueInv'
  BY <1>9 DEF RegisterRecv, At, Go
<1>10. ASSUME NEW t \in Threads, WSARecv(t) PROVE QueueInv'
  BY <1>10 DEF WSARecv, At, Go, Hang, Outcomes, PostOutcomes
<1>11. ASSUME NEW t \in Threads, RecvFailed(t) PROVE QueueInv'
  BY <1>11 DEF RecvFailed, At, Go
<1>12. ASSUME NEW t \in Threads, BroadcastReturn(t) PROVE QueueInv'
  BY <1>12 DEF BroadcastReturn, At, Go
<1>13. ASSUME NEW t \in Threads, SendCheck(t) PROVE QueueInv'
  BY <1>13 DEF SendCheck, SndAt, Call
<1>14. ASSUME NEW t \in Threads, SendPush(t) PROVE QueueInv'
  BY <1>14 DEF SendPush, SndAt, Call
<1>15. ASSUME NEW t \in Threads, RegisterSend(t) PROVE QueueInv'
  BY <1>15 DEF RegisterSend, SndAt, Call
<1>16. ASSUME NEW t \in Threads, RegisterSendDrain(t) PROVE QueueInv'
  BY <1>16 DEF RegisterSendDrain, SndAt, Call
<1>17. ASSUME NEW t \in Threads, WSASend(t) PROVE QueueInv'
  BY <1>17 DEF WSASend, SndAt, Call, Hang, Outcomes, PostOutcomes
<1>18. ASSUME NEW t \in Threads, SendFailed(t) PROVE QueueInv'
  BY <1>18 DEF SendFailed, SndAt, Call
<1>19. ASSUME NEW t \in Threads, SendUnflag(t) PROVE QueueInv'
  BY <1>19 DEF SendUnflag, SndAt, Call
<1>20. ASSUME NEW t \in Threads, ProcessSendNext(t) PROVE QueueInv'
  BY <1>20 DEF ProcessSendNext, At, Go, Call
<1>21. ASSUME NEW t \in Threads, ProcessSendReturn(t) PROVE QueueInv'
  BY <1>21 DEF ProcessSendReturn, At, Go
<1>22. ASSUME NEW t \in Threads, Disconnect(t) PROVE QueueInv'
  BY <1>22 DEF Disconnect, Hang
<1>23. ASSUME NEW t \in Threads, RegisterDisconnect(t) PROVE QueueInv'
  BY <1>23 DEF RegisterDisconnect, Hang
<1>24. ASSUME NEW t \in Threads, OnDisconnected(t) PROVE QueueInv'
  BY <1>24 DEF OnDisconnected, At, Go
<1>25. ASSUME NEW t \in Threads, ReleaseSession(t) PROVE QueueInv'
  BY <1>25 DEF ReleaseSession, At, Go
<1>26. ASSUME NEW t \in Threads, Accept(t) PROVE QueueInv'
  BY <1>26 DEF Accept, At, Go
<1>27. ASSUME NEW t \in Threads, Broadcast(t) PROVE QueueInv'
  BY <1>27 DEF Broadcast, At, Go, Call
<1>28. ASSUME NEW t \in Threads, Reply(t) PROVE QueueInv'
  BY <1>28 DEF Reply, At, Call
<1>29. ASSUME NEW t \in Threads, ProcessConnect(t) PROVE QueueInv'
  BY <1>29 DEF ProcessConnect, Dispatch, At, Go
<1>30. ASSUME NEW t \in Threads, ProcessRecv(t) PROVE QueueInv'
  BY <1>30 DEF ProcessRecv, Dispatch, At, Go, Hang
<1>31. ASSUME NEW t \in Threads, ProcessSend(t) PROVE QueueInv'
  BY <1>31 DEF ProcessSend, Dispatch, At, Go, Hang
<1>32. ASSUME NEW t \in Threads, ProcessDisconnect(t) PROVE QueueInv'
  BY <1>32 DEF ProcessDisconnect, Dispatch, At, Go
<1>33. ASSUME NEW t \in Threads, OnRecvReturn(t) PROVE QueueInv'
  BY <1>33 DEF OnRecvReturn, At, Go
<1>34. CASE UNCHANGED vars
  BY <1>34
<1>. QED  BY <1>1, <1>2, <1>3, <1>4, <1>5, <1>6, <1>7, <1>8, <1>9, <1>10,
     <1>11, <1>12, <1>13, <1>14, <1>15, <1>16, <1>17, <1>18, <1>19, <1>20,
     <1>21, <1>22, <1>23, <1>24, <1>25, <1>26, <1>27, <1>28, <1>29, <1>30,
     <1>31, <1>32, <1>33, <1>34 DEF Next, Kernel, Continue, Enter, DispatchAny

LEMMA ListenStep ==
    ASSUME ~OtherErrors, IInv, ListenInv, [Next]_vars PROVE ListenInv'
<1>. USE SessionAssumption DEF IInv, Types, vars, queueVars, eventVars, setVars,
        kernelVars, SetIo, SetOwner, Events, ListenInv, Listening,
        UndoneOffConnection, Reads, RecvLabels, ConnectInv, BeforeConnection,
        Alone, CallInv, CallOrder, CloseInv, ClosesOnce, Closes
<1>1. CASE PeerGone
  BY <1>1 DEF PeerGone
<1>2. CASE CompleteConnect
  BY <1>2 DEF CompleteConnect, Finish
<1>3. CASE CompleteRecv
  BY <1>3 DEF CompleteRecv, Finish
<1>4. CASE CompleteSend
  BY <1>4 DEF CompleteSend, Finish
<1>5. CASE CompleteDisconnect
  BY <1>5 DEF CompleteDisconnect, Finish
<1>6. CASE RegisterConnect
  BY <1>6 DEF RegisterConnect
<1>7. ASSUME NEW t \in Threads, AddSession(t) PROVE ListenInv'
  BY <1>7 DEF AddSession, At, Go
<1>8. ASSUME NEW t \in Threads, OnConnected(t) PROVE ListenInv'
  BY <1>8 DEF OnConnected, At, Go, Call
<1>9. ASSUME NEW t \in Threads, RegisterRecv(t) PROVE ListenInv'
  BY <1>9 DEF RegisterRecv, At, Go
<1>10. ASSUME NEW t \in Threads, WSARecv(t) PROVE ListenInv'
  <2>1. CASE SetIo("recv", "posted") /\ Go(t, "idle") /\ UNCHANGED disc
    <3>1. io'["recv"] = "posted"
      BY <2>1
    <3>2. UndoneOffConnection'
      BY <1>10, <2>1 DEF WSARecv, Go
    <3>. QED  BY <3>1, <3>2
  <2>2. CASE Hang(t, "exchange") /\ Go(t, "recv.undo")
    BY <1>10, <2>2 DEF WSARecv, At, Go, Hang
  <2>3. CASE "other" \in Outcomes /\ Go(t, "recv.undo") /\ UNCHANGED <<io, disc>>
    <3>1. sock \notin {"open", "broken"}
      BY <2>3 DEF Outcomes, PostOutcomes
    <3>. QED  BY <1>10, <2>3, <3>1 DEF WSARecv, At, Go
  <2>. QED  BY <1>10, <2>1, <2>2, <2>3 DEF WSARecv
<1>11. ASSUME NEW t \in Threads, RecvFailed(t) PROVE ListenInv'
  BY <1>11 DEF RecvFailed, At, Go
<1>12. ASSUME NEW t \in Threads, BroadcastReturn(t) PROVE ListenInv'
  BY <1>12 DEF BroadcastReturn, At, Go
<1>13. ASSUME NEW t \in Threads, SendCheck(t) PROVE ListenInv'
  BY <1>13 DEF SendCheck, SndAt, Call
<1>14. ASSUME NEW t \in Threads, SendPush(t) PROVE ListenInv'
  BY <1>14 DEF SendPush, SndAt, Call
<1>15. ASSUME NEW t \in Threads, RegisterSend(t) PROVE ListenInv'
  BY <1>15 DEF RegisterSend, SndAt, Call
<1>16. ASSUME NEW t \in Threads, RegisterSendDrain(t) PROVE ListenInv'
  BY <1>16 DEF RegisterSendDrain, SndAt, Call
<1>17. ASSUME NEW t \in Threads, WSASend(t) PROVE ListenInv'
  BY <1>17 DEF WSASend, SndAt, Call, Hang, Outcomes, PostOutcomes
<1>18. ASSUME NEW t \in Threads, SendFailed(t) PROVE ListenInv'
  BY <1>18 DEF SendFailed, SndAt, Call
<1>19. ASSUME NEW t \in Threads, SendUnflag(t) PROVE ListenInv'
  BY <1>19 DEF SendUnflag, SndAt, Call
<1>20. ASSUME NEW t \in Threads, ProcessSendNext(t) PROVE ListenInv'
  BY <1>20 DEF ProcessSendNext, At, Go, Call
<1>21. ASSUME NEW t \in Threads, ProcessSendReturn(t) PROVE ListenInv'
  BY <1>21 DEF ProcessSendReturn, At, Go
<1>22. ASSUME NEW t \in Threads, Disconnect(t) PROVE ListenInv'
  BY <1>22 DEF Disconnect, Hang
<1>23. ASSUME NEW t \in Threads, RegisterDisconnect(t) PROVE ListenInv'
  BY <1>23 DEF RegisterDisconnect, Hang
<1>24. ASSUME NEW t \in Threads, OnDisconnected(t) PROVE ListenInv'
  BY <1>24 DEF OnDisconnected, At, Go
<1>25. ASSUME NEW t \in Threads, ReleaseSession(t) PROVE ListenInv'
  BY <1>25 DEF ReleaseSession, At, Go
<1>26. ASSUME NEW t \in Threads, Accept(t) PROVE ListenInv'
  BY <1>26 DEF Accept, At, Go
<1>27. ASSUME NEW t \in Threads, Broadcast(t) PROVE ListenInv'
  BY <1>27 DEF Broadcast, At, Go, Call
<1>28. ASSUME NEW t \in Threads, Reply(t) PROVE ListenInv'
  BY <1>28 DEF Reply, At, Call
<1>29. ASSUME NEW t \in Threads, ProcessConnect(t) PROVE ListenInv'
  BY <1>29 DEF ProcessConnect, Dispatch, At, Go
<1>30. ASSUME NEW t \in Threads, ProcessRecv(t) PROVE ListenInv'
  BY <1>30 DEF ProcessRecv, Dispatch, At, Go, Hang
<1>31. ASSUME NEW t \in Threads, ProcessSend(t) PROVE ListenInv'
  BY <1>31 DEF ProcessSend, Dispatch, At, Go, Hang
<1>32. ASSUME NEW t \in Threads, ProcessDisconnect(t) PROVE ListenInv'
  BY <1>32 DEF ProcessDisconnect, Dispatch, At, Go
<1>33. ASSUME NEW t \in Threads, OnRecvReturn(t) PROVE ListenInv'
  BY <1>33 DEF OnRecvReturn, At, Go
<1>34. CASE UNCHANGED vars
  BY <1>34
<1>. QED  BY <1>1, <1>2, <1>3, <1>4, <1>5, <1>6, <1>7, <1>8, <1>9, <1>10,
     <1>11, <1>12, <1>13, <1>14, <1>15, <1>16, <1>17, <1>18, <1>19, <1>20,
     <1>21, <1>22, <1>23, <1>24, <1>25, <1>26, <1>27, <1>28, <1>29, <1>30,
     <1>31, <1>32, <1>33, <1>34 DEF Next, Kernel, Continue, Enter, DispatchAny

-----------------------------------------------------------------------------
\* No lost wakeup in Send, RegisterSend and ProcessSend: unless WSASend fails on an
\* open connection, a packet that is queued on one has the permit's holder, the
\* completion of the outstanding send or a Disconnect to see to it.
THEOREM NeverStrandsQueue == ASSUME ~OtherErrors PROVE Spec => []NoStrandedQueue
<1>1. Init => QueueInv
  BY DEF Init, QueueInv, FlagAttended, QueueFlagged, ErrorOffConnection, EmptyBefore,
         OnConnection
<1>2. IInv /\ QueueInv /\ [Next]_vars => QueueInv'
  BY QueueStep
<1>3. QueueInv => NoStrandedQueue
  BY DEF QueueInv, FlagAttended, QueueFlagged, NoStrandedQueue, OnConnection
<1>. QED  BY <1>1, <1>2, <1>3, Invariance, PTL DEF Spec

\* A connected session hears of its peer: every path of ProcessRecv and
\* RegisterRecv posts the next receive or disconnects, unless WSARecv fails on an
\* open connection.
THEOREM AlwaysListening == ASSUME ~OtherErrors PROVE Spec => []Listening
<1>1. Init => ListenInv
  BY DEF Init, ListenInv, Listening, UndoneOffConnection
<1>2. IInv /\ ListenInv /\ [Next]_vars => ListenInv'
  BY ListenStep
<1>3. ListenInv => Listening
  BY DEF ListenInv
<1>. QED  BY <1>1, <1>2, <1>3, Invariance, PTL DEF Spec

-----------------------------------------------------------------------------
(***************************************************************************)
(* The refinement of SendChannel.                                          *)
(***************************************************************************)
\* The queue holds the packets pushed last, and the send event those before them.
NumberInv ==
    /\ \A i \in 1 .. Len(sendQueue) : sendQueue[i] = pushed - Len(sendQueue) + i
    /\ \A i \in 1 .. Len(sendBuffers) :
          sendBuffers[i] = pushed - Len(sendQueue) - Len(sendBuffers) + i

\* Packets of the send event that are neither taken nor given up.
Pending == IF io["send"] = "ok" THEN 0 ELSE Len(sendBuffers)

\* No packet is missing.
Whole == Len(wire) + Pending + Len(sendQueue) = pushed

\* Nothing will be handed to the network any more: the connection is down, or the
\* session disconnected, or its permit was lost with the send that failed.
Ended ==
    /\ io["send"] = "none"
    /\ \/ sock \in {"refused", "shut"}
       \/ /\ \A t \in Threads : snd[t] \notin {"rs.drain", "rs.post"}
          /\ ~connected \/ (sendRegistered /\ \A t \in Threads : ~Holds(t))

\* Nothing was pushed before the connection has been dispatched.
NothingBefore ==
    sock \in {"idle", "connecting"} \/ io["connect"] # "none" =>
        /\ pushed = 0 /\ sendQueue = <<>> /\ sendBuffers = <<>> /\ wire = <<>>
        /\ io["send"] = "none"

\* Where the error path of RegisterSend goes on after Disconnect.
ErrorEnds ==
    \A t \in Threads :
        snd[t] \in {"rs.error", "rs.unflag"} /\ disc[t] = "none" =>
            ~connected \/ sock \in {"refused", "shut"}

ConnectPosted == io["connect"] = "posted" => sock = "connecting"

FailsOffConnection == io["send"] = "failed" => sock # "open"

SupplyInv ==
    /\ Whole \/ Ended
    /\ NothingBefore
    /\ ErrorEnds
    /\ ConnectPosted
    /\ FailsOffConnection

LEMMA NumberAppend ==
    ASSUME NEW s \in Seq(Nat), NEW p \in Nat,
           \A i \in 1 .. Len(s) : s[i] = p - Len(s) + i
    PROVE  LET r == Append(s, p + 1) IN
           \A i \in 1 .. Len(r) : r[i] = p + 1 - Len(r) + i
<1>. DEFINE r == Append(s, p + 1)
<1>1. Len(r) = Len(s) + 1 /\ Len(s) \in Nat
  OBVIOUS
<1>2. ASSUME NEW i \in 1 .. Len(s) PROVE r[i] = p + 1 - Len(r) + i
  <2>1. r[i] = s[i]
    OBVIOUS
  <2>. HIDE DEF r
  <2>. QED  BY <1>1, <2>1
<1>3. r[Len(s) + 1] = p + 1
  OBVIOUS
<1>. HIDE DEF r
<1>4. \A i \in 1 .. Len(r) : r[i] = p + 1 - Len(r) + i
  BY <1>1, <1>2, <1>3
<1>. QED  BY <1>4 DEF r

LEMMA NumberStep ==
    ASSUME IInv, NumberInv, [Next]_vars PROVE NumberInv'
<1>. USE DEF IInv, Types, NumberInv, queueVars, eventVars, setVars, kernelVars
<1>1. ASSUME NEW t \in Threads, SendPush(t) PROVE NumberInv'
  <2>1. /\ pushed' = pushed + 1 /\ sendQueue' = Append(sendQueue, pushed + 1)
        /\ sendBuffers' = sendBuffers
    BY <1>1 DEF SendPush
  <2>2. \A i \in 1 .. Len(sendQueue') : sendQueue'[i] = pushed' - Len(sendQueue') + i
    BY <2>1, NumberAppend
  <2>3. Len(sendQueue') = Len(sendQueue) + 1 /\ Len(sendQueue) \in Nat
    BY <2>1
  <2>4. ASSUME NEW i \in 1 .. Len(sendBuffers')
        PROVE  sendBuffers'[i] = pushed' - Len(sendQueue') - Len(sendBuffers') + i
    BY <2>1, <2>3
  <2>. QED  BY <2>2, <2>4
<1>2. ASSUME NEW t \in Threads, RegisterSendDrain(t) PROVE NumberInv'
  <2>1. /\ pushed' = pushed /\ sendQueue' = <<>>
        /\ sendBuffers' = sendBuffers \o sendQueue
    BY <1>2 DEF RegisterSendDrain
  <2>. QED  BY <2>1
<1>3. CASE UNCHANGED queueVars /\ sendBuffers' = <<>>
  BY <1>3
<1>4. CASE UNCHANGED <<queueVars, sendBuffers>>
  BY <1>4
<1>5. ASSUME NEW t \in Threads, Continue(t), ~SendPush(t), ~RegisterSendDrain(t)
      PROVE  UNCHANGED queueVars /\ (sendBuffers' = <<>> \/ UNCHANGED sendBuffers)
  BY <1>5 DEF Continue, AddSession, OnConnected, RegisterRecv, WSARecv, RecvFailed,
              BroadcastReturn, SendCheck, RegisterSend, WSASend, SendFailed, SendUnflag,
              ProcessSendNext, ProcessSendReturn, Disconnect, RegisterDisconnect,
              OnDisconnected, ReleaseSession
<1>6. ASSUME NEW t \in Threads, Enter(t) \/ DispatchAny(t) \/ OnRecvReturn(t)
      PROVE  UNCHANGED queueVars /\ (sendBuffers' = <<>> \/ UNCHANGED sendBuffers)
  BY <1>6 DEF Enter, DispatchAny, Accept, Broadcast, Reply, ProcessConnect, ProcessRecv,
              ProcessSend, ProcessDisconnect, OnRecvReturn
<1>7. CASE PeerGone \/ Kernel \/ RegisterConnect \/ UNCHANGED vars
  BY <1>4, <1>7 DEF PeerGone, Kernel, CompleteConnect, CompleteRecv, CompleteSend,
                    CompleteDisconnect, Finish, RegisterConnect, vars
<1>. QED  BY <1>1, <1>2, <1>3, <1>4, <1>5, <1>6, <1>7 DEF Next

LEMMA SupplyStep ==
    ASSUME ~OtherErrors, IInv, SupplyInv, [Next]_vars PROVE SupplyInv'
<1>. USE SessionAssumption DEF IInv, Types, vars, queueVars, eventVars, setVars,
        kernelVars, SetIo, SetOwner, Events, SupplyInv, NothingBefore,
        ErrorEnds, ConnectPosted, FailsOffConnection, Whole, Pending, Ended,
        Holds, RegisterSendLabels, SendInv, SendEventExclusive, PermitFlagged,
        ConnectInv, BeforeConnection, Alone, CallInv, CallOrder, CloseInv,
        ClosesOnce, Closes
<1>1. CASE PeerGone
  BY <1>1 DEF PeerGone
<1>2. CASE CompleteConnect
  <2>1. io["connect"] = "posted" /\ io'["send"] = io["send"] /\ io'["connect"] # "posted"
    BY <1>2 DEF CompleteConnect, Finish
  <2>2. sock = "connecting" /\ io["send"] = "none"
    BY <2>1
  <2>4. Whole
    BY <2>2
  <2>3. UNCHANGED <<connected, sendRegistered, queueVars, sendBuffers, wire, snd, disc>>
    BY <1>2 DEF CompleteConnect, Finish
  <2>5. io'["connect"] # "none" /\ pushed = 0 /\ ~connected
    BY <1>2, <2>1, <2>2 DEF CompleteConnect, Finish
  <2>. QED  BY <2>1, <2>2, <2>3, <2>4, <2>5
<1>3. CASE CompleteRecv
  BY <1>3 DEF CompleteRecv, Finish
<1>4. CASE CompleteSend
  <2>1. /\ io["send"] = "posted" /\ io' = [io EXCEPT !["send"] = io'["send"]]
        /\ io'["send"] \in {"ok", "failed"} /\ (io'["send"] = "failed" => sock # "open")
        /\ wire' = IF io'["send"] = "ok" THEN wire \o sendBuffers ELSE wire
        /\ UNCHANGED <<connected, sendRegistered, queueVars, sendBuffers, sock, snd, disc>>
    BY <1>4 DEF CompleteSend, Finish
  <2>2. Len(wire \o sendBuffers) = Len(wire) + Len(sendBuffers)
    OBVIOUS
  <2>3. Whole'
    BY <2>1, <2>2
  <2>. QED  BY <2>1, <2>3
<1>5. CASE CompleteDisconnect
  BY <1>5 DEF CompleteDisconnect, Finish
<1>6. CASE RegisterConnect
  BY <1>6 DEF RegisterConnect
<1>7. ASSUME NEW t \in Threads, AddSession(t) PROVE SupplyInv'
  BY <1>7 DEF AddSession, At, Go
<1>8. ASSUME NEW t \in Threads, OnConnected(t) PROVE SupplyInv'
  BY <1>8 DEF OnConnected, At, Go, Call
<1>9. ASSUME NEW t \in Threads, RegisterRecv(t) PROVE SupplyInv'
  BY <1>9 DEF RegisterRecv, At, Go
<1>10. ASSUME NEW t \in Threads, WSARecv(t) PROVE SupplyInv'
  BY <1>10 DEF WSARecv, At, Go, Hang, Outcomes, PostOutcomes
<1>11. ASSUME NEW t \in Threads, RecvFailed(t) PROVE SupplyInv'
  BY <1>11 DEF RecvFailed, At, Go
<1>12. ASSUME NEW t \in Threads, BroadcastReturn(t) PROVE SupplyInv'
  BY <1>12 DEF BroadcastReturn, At, Go
<1>13. ASSUME NEW t \in Threads, SendCheck(t) PROVE SupplyInv'
  BY <1>13 DEF SendCheck, SndAt, Call
<1>14. ASSUME NEW t \in Threads, SendPush(t) PROVE SupplyInv'
  <2>1. Len(sendQueue') = Len(sendQueue) + 1 /\ pushed' = pushed + 1
    BY <1>14 DEF SendPush
  <2>5. UNCHANGED <<io, wire, sendBuffers>> /\ Len(sendQueue) \in Nat
    BY <1>14 DEF SendPush
  <2>2. Whole => Whole'
    <3>1. Pending' = Pending /\ Pending \in Nat
      BY <2>5
    <3>2. Len(wire') = Len(wire) /\ Len(wire) \in Nat /\ pushed \in Nat
      BY <2>5
    <3>. HIDE DEF Pending, Types, Ended, SupplyInv
    <3>. QED  BY <2>1, <2>5, <3>1, <3>2
  <2>3. Ended => Ended'
    BY <1>14 DEF SendPush, SndAt, Call
  <2>4. sock \notin {"idle", "connecting"} /\ io["connect"] = "none"
    BY <1>14 DEF SendPush, SndAt
  <2>6. (Whole \/ Ended)'
    <3>1. Whole \/ Ended
      OBVIOUS
    <3>. HIDE DEF Whole, Ended
    <3>. QED  BY <2>2, <2>3, <3>1
  <2>7. UNCHANGED <<sock, io, connected, disc>>
    BY <1>14 DEF SendPush
  <2>8. NothingBefore'
    BY <2>4, <2>7
  <2>9. ErrorEnds'
    <3>1. \A u \in Threads :
              snd'[u] \in {"rs.error", "rs.unflag"} => snd'[u] = snd[u]
      BY <1>14 DEF SendPush, Call
    <3>. QED  BY <2>7, <3>1
  <2>10. ConnectPosted' /\ FailsOffConnection'
    BY <2>7
  <2>. QED  BY <2>6, <2>8, <2>9, <2>10
<1>15. ASSUME NEW t \in Threads, RegisterSend(t) PROVE SupplyInv'
  BY <1>15 DEF RegisterSend, SndAt, Call
<1>16. ASSUME NEW t \in Threads, RegisterSendDrain(t) PROVE SupplyInv'
  BY <1>16 DEF RegisterSendDrain, SndAt, Call
<1>17. ASSUME NEW t \in Threads, WSASend(t) PROVE SupplyInv'
  <2>1. CASE "pending" \in Outcomes /\ SetIo("send", "posted") /\ Call(t, "none")
             /\ UNCHANGED disc
    <3>1. ~Ended
      BY <1>17, <2>1 DEF WSASend, SndAt, Outcomes, PostOutcomes
    <3>3. Whole /\ io["send"] = "none" /\ io'["send"] = "posted"
      BY <1>17, <2>1, <3>1 DEF WSASend, SndAt
    <3>2. Whole'
      BY <1>17, <3>3 DEF WSASend
    <3>. QED  BY <1>17, <2>1, <3>2 DEF WSASend, SndAt, Call
  <2>2. CASE Hang(t, "exchange") /\ Call(t, "rs.error") /\ UNCHANGED io
    BY <1>17, <2>2 DEF WSASend, SndAt, Call, Hang
  <2>3. CASE "other" \in Outcomes /\ Call(t, "rs.error") /\ UNCHANGED <<io, disc>>
    <3>1. sock \in {"refused", "shut"}
      BY <1>17, <2>3 DEF WSASend, SndAt, Outcomes, PostOutcomes, SockStates
    <3>. QED  BY <1>17, <2>3, <3>1 DEF WSASend, SndAt, Call
  <2>. QED  BY <1>17, <2>1, <2>2, <2>3 DEF WSASend
<1>18. ASSUME NEW t \in Threads, SendFailed(t) PROVE SupplyInv'
  BY <1>18 DEF SendFailed, SndAt, Call
<1>19. ASSUME NEW t \in Threads, SendUnflag(t) PROVE SupplyInv'
  BY <1>19 DEF SendUnflag, SndAt, Call
<1>20. ASSUME NEW t \in Threads, ProcessSendNext(t) PROVE SupplyInv'
  BY <1>20 DEF ProcessSendNext, At, Go, Call
<1>21. ASSUME NEW t \in Threads, ProcessSendReturn(t) PROVE SupplyInv'
  BY <1>21 DEF ProcessSendReturn, At, Go
<1>22. ASSUME NEW t \in Threads, Disconnect(t) PROVE SupplyInv'
  BY <1>22 DEF Disconnect, Hang
<1>23. ASSUME NEW t \in Threads, RegisterDisconnect(t) PROVE SupplyInv'
  BY <1>23 DEF RegisterDisconnect, Hang
<1>24. ASSUME NEW t \in Threads, OnDisconnected(t) PROVE SupplyInv'
  BY <1>24 DEF OnDisconnected, At, Go
<1>25. ASSUME NEW t \in Threads, ReleaseSession(t) PROVE SupplyInv'
  BY <1>25 DEF ReleaseSession, At, Go
<1>26. ASSUME NEW t \in Threads, Accept(t) PROVE SupplyInv'
  BY <1>26 DEF Accept, At, Go
<1>27. ASSUME NEW t \in Threads, Broadcast(t) PROVE SupplyInv'
  BY <1>27 DEF Broadcast, At, Go, Call
<1>28. ASSUME NEW t \in Threads, Reply(t) PROVE SupplyInv'
  BY <1>28 DEF Reply, At, Call
<1>29. ASSUME NEW t \in Threads, ProcessConnect(t) PROVE SupplyInv'
  BY <1>29 DEF ProcessConnect, Dispatch, At, Go
<1>30. ASSUME NEW t \in Threads, ProcessRecv(t) PROVE SupplyInv'
  BY <1>30 DEF ProcessRecv, Dispatch, At, Go, Hang
<1>31. ASSUME NEW t \in Threads, ProcessSend(t) PROVE SupplyInv'
  BY <1>31 DEF ProcessSend, Dispatch, At, Go, Hang
<1>32. ASSUME NEW t \in Threads, ProcessDisconnect(t) PROVE SupplyInv'
  BY <1>32 DEF ProcessDisconnect, Dispatch, At, Go
<1>33. ASSUME NEW t \in Threads, OnRecvReturn(t) PROVE SupplyInv'
  BY <1>33 DEF OnRecvReturn, At, Go
<1>34. CASE UNCHANGED vars
  BY <1>34
<1>. QED  BY <1>1, <1>2, <1>3, <1>4, <1>5, <1>6, <1>7, <1>8, <1>9, <1>10,
     <1>11, <1>12, <1>13, <1>14, <1>15, <1>16, <1>17, <1>18, <1>19, <1>20,
     <1>21, <1>22, <1>23, <1>24, <1>25, <1>26, <1>27, <1>28, <1>29, <1>30,
     <1>31, <1>32, <1>33, <1>34 DEF Next, Kernel, Continue, Enter, DispatchAny

-----------------------------------------------------------------------------
(***************************************************************************)
(* Every step of the session is a step of the channel, or none.            *)
(***************************************************************************)
\* The oldest packets of the backlog are those of the send event.
LEMMA BacklogParts ==
    ASSUME NEW b \in Seq(Nat), NEW q \in Seq(Nat), b # <<>>
    PROVE  /\ Len(b) \in 1 .. Len(b \o q)
           /\ Head(b \o q) = b[1]
           /\ SubSeq(b \o q, 1, Len(b)) = b
           /\ SubSeq(b \o q, Len(b) + 1, Len(b \o q)) = q
<1>1. /\ b \o q \in Seq(Nat) /\ Len(b \o q) = Len(b) + Len(q)
      /\ Len(b) \in Nat \ {0} /\ Len(q) \in Nat
  BY ConcatProperties, EmptySeq
<1>2. \A i \in 1 .. Len(b \o q) : (b \o q)[i] = IF i <= Len(b) THEN b[i] ELSE q[i - Len(b)]
  BY <1>1, ConcatProperties
<1>3. SubSeq(b \o q, 1, Len(b)) = b
  <2>1. \A i \in 1 .. Len(b) : (b \o q)[i] = b[i] /\ b[i] \in Nat
    BY <1>1, <1>2
  <2>2. /\ SubSeq(b \o q, 1, Len(b)) \in Seq(Nat)
        /\ Len(SubSeq(b \o q, 1, Len(b))) = Len(b)
        /\ \A i \in 1 .. Len(b) : SubSeq(b \o q, 1, Len(b))[i] = (b \o q)[i]
    BY <1>1, <2>1, SubSeqProperties
  <2>. QED  BY <2>1, <2>2, SeqEqual
<1>4. SubSeq(b \o q, Len(b) + 1, Len(b \o q)) = q
  <2>. DEFINE c == b \o q
              m == Len(b) + 1
              n == Len(b) + Len(q)
              r == SubSeq(c, m, n)
  <2>1. \A i \in m .. n : c[i] \in Nat
    BY <1>1
  <2>2. m \in Int /\ n \in Int /\ n - m + 1 = Len(q) /\ (m <= n \/ Len(q) = 0)
    BY <1>1
  <2>3. \A i \in 1 .. Len(q) : c[m + i - 1] = q[i]
    BY <1>1, <1>2
  <2>. HIDE DEF c, m, n
  <2>4. /\ r \in Seq(Nat)
        /\ Len(r) = IF m <= n THEN n - m + 1 ELSE 0
        /\ \A i \in 1 .. n - m + 1 : r[i] = c[m + i - 1]
    BY <2>1, <2>2, SubSeqProperties, SMTT(30)
  <2>. HIDE DEF r
  <2>5. Len(r) = Len(q) /\ \A i \in 1 .. Len(q) : r[i] = q[i]
    BY <1>1, <2>2, <2>3, <2>4
  <2>6. r = q
    BY <2>4, <2>5, SeqEqual
  <2>. QED  BY <1>1, <2>6 DEF r, c, m, n
<1>5. Head(b \o q) = b[1]
  <2>1. b \o q # <<>> /\ (b \o q)[1] = b[1]
    BY <1>1, <1>2
  <2>. QED  BY <1>1, <2>1
<1>. QED  BY <1>1, <1>3, <1>4, <1>5

\* The connection of a session whose threads do anything is no longer to come.
LEMMA Begun ==
    ASSUME IInv, NEW t \in Threads, snd[t] # "none" \/ disc[t] # "none"
    PROVE  sock \notin {"idle", "connecting"}
BY DEF IInv, ConnectInv, BeforeConnection, Alone

LEMMA BacklogIsSeq == ASSUME Types PROVE Backlog \in Seq(Nat)
BY ConcatProperties, EmptySeq DEF Types, Backlog

\* Giving up what the send event holds, off the connection.
LEMMA GivesUp ==
    ASSUME Types, io["send"] # "ok", io'["send"] = "none", sendBuffers' = <<>>,
           UNCHANGED <<queueVars, wire, sock>>,
           sock \notin {"idle", "connecting", "open"}
    PROVE  [Channel!Next]_(Channel!vars)
<1>1. Backlog = sendBuffers \o sendQueue /\ Backlog' = sendQueue
  BY ConcatEmptySeq DEF Types, Backlog, queueVars
<1>2. CASE sendBuffers = <<>>
  <2>1. Backlog' = Backlog
    BY <1>1, <1>2, ConcatEmptySeq DEF Types
  <2>. QED  BY <2>1 DEF Channel!vars, Life, queueVars
<1>3. CASE sendBuffers # <<>>
  <2>0. sendBuffers \in Seq(Nat) /\ sendQueue \in Seq(Nat)
    BY DEF Types
  <2>1. /\ Len(sendBuffers) \in 1 .. Len(Backlog)
        /\ SubSeq(Backlog, Len(sendBuffers) + 1, Len(Backlog)) = sendQueue
    BY <1>1, <1>3, <2>0, BacklogParts
  <2>2. \E n \in 1 .. Len(Backlog) : Backlog' = SubSeq(Backlog, n + 1, Len(Backlog))
    BY <1>1, <2>1
  <2>. QED  BY <2>2 DEF Channel!Next, Channel!Drop, Life, queueVars
<1>. QED  BY <1>2, <1>3

\* The network takes what the send event holds.
LEMMA Delivers ==
    ASSUME Types, NumberInv, Whole, sendBuffers # <<>>,
           io["send"] = "posted", io'["send"] = "ok", wire' = wire \o sendBuffers,
           UNCHANGED <<queueVars, sendBuffers, sock>>,
           sock \notin {"idle", "connecting"}
    PROVE  Channel!Deliver
<1>1. Backlog = sendBuffers \o sendQueue /\ Backlog' = sendQueue
  BY ConcatEmptySeq DEF Types, Backlog, queueVars
<1>2. sendBuffers[1] = Len(wire) + 1
  <2>1. /\ Len(wire) \in Nat /\ Len(sendQueue) \in Nat /\ Len(sendBuffers) \in Nat \ {0}
        /\ pushed \in Nat
    BY EmptySeq DEF Types
  <2>2. pushed = Len(wire) + Len(sendBuffers) + Len(sendQueue)
    BY DEF Whole, Pending
  <2>3. 1 \in 1 .. Len(sendBuffers)
    BY <2>1
  <2>4. \A i \in 1 .. Len(sendBuffers) :
           sendBuffers[i] = pushed - Len(sendQueue) - Len(sendBuffers) + i
    BY DEF NumberInv
  <2>5. sendBuffers[1] = pushed - Len(sendQueue) - Len(sendBuffers) + 1
    BY <2>3, <2>4
  <2>. QED  BY <2>1, <2>2, <2>5
<1>3. /\ Len(sendBuffers) \in 1 .. Len(Backlog)
      /\ Head(Backlog) = Len(wire) + 1
      /\ wire' = wire \o SubSeq(Backlog, 1, Len(sendBuffers))
      /\ Backlog' = SubSeq(Backlog, Len(sendBuffers) + 1, Len(Backlog))
  BY <1>1, <1>2, BacklogParts DEF Types
<1>4. Life # "new" /\ UNCHANGED <<Life, pushed>>
  BY DEF Life, queueVars
<1>. QED  BY <1>3, <1>4 DEF Channel!Deliver

LEMMA ChannelStep ==
    ASSUME ~OtherErrors, IInv, QueueInv, NumberInv, SupplyInv, [Next]_vars
    PROVE  [Channel!Next]_(Channel!vars)
<1>. DEFINE Quiet == UNCHANGED <<queueVars, sendBuffers, wire>> /\ io'["send"] = io["send"]
<1>1. Quiet => UNCHANGED <<pushed, Backlog, wire>>
  BY DEF Backlog, queueVars
<1>2. CASE Quiet /\ UNCHANGED sock
  BY <1>1, <1>2 DEF Channel!vars, Life
<1>3. CASE Quiet /\ \/ sock = "idle" /\ sock' \in SockStates
                    \/ sock = "connecting" /\ sock' \in {"open", "refused"}
  BY <1>1, <1>3 DEF Channel!vars, Channel!Next, Channel!Open, Life, SockStates
<1>4. CASE Quiet /\ sock \notin {"idle", "connecting"} /\ sock' \in {"broken", "shut"}
  BY <1>1, <1>4 DEF Channel!vars, Channel!Next, Channel!Break, Life
<1>5. ASSUME NEW t \in Threads, SendPush(t) PROVE Channel!Accept
  <2>1. /\ pushed' = pushed + 1 /\ sendQueue' = Append(sendQueue, pushed + 1)
        /\ UNCHANGED <<sendBuffers, io, wire, sock>> /\ snd[t] # "none"
    BY <1>5 DEF SendPush, SndAt, eventVars, kernelVars
  <2>2. Backlog' = Append(Backlog, pushed + 1)
    <3>. DEFINE b == IF io["send"] = "ok" THEN <<>> ELSE sendBuffers
    <3>1. b \in Seq(Nat) /\ sendQueue \in Seq(Nat) /\ pushed + 1 \in Nat
      BY DEF IInv, Types
    <3>2. Backlog = b \o sendQueue /\ Backlog' = b \o Append(sendQueue, pushed + 1)
      BY <2>1 DEF Backlog
    <3>. HIDE DEF b
    <3>3. <<pushed + 1>> \in Seq(Nat) /\ b \o sendQueue \in Seq(Nat)
      BY <3>1, ConcatProperties
    <3>4. Append(sendQueue, pushed + 1) = sendQueue \o <<pushed + 1>>
      BY <3>1, AppendIsConcat
    <3>5. Append(b \o sendQueue, pushed + 1) = (b \o sendQueue) \o <<pushed + 1>>
      BY <3>1, <3>3, AppendIsConcat
    <3>. QED  BY <3>1, <3>2, <3>3, <3>4, <3>5, ConcatAssociative
  <2>3. Life # "new" /\ UNCHANGED Life
    BY <2>1, Begun DEF Life
  <2>. QED  BY <2>1, <2>2, <2>3 DEF Channel!Accept
<1>6. ASSUME NEW t \in Threads, RegisterSendDrain(t) PROVE UNCHANGED Channel!vars
  <2>1. /\ sendBuffers' = sendBuffers \o sendQueue /\ sendQueue' = <<>>
        /\ UNCHANGED <<pushed, io, wire, sock>> /\ snd[t] = "rs.drain"
    BY <1>6 DEF RegisterSendDrain, SndAt, kernelVars
  <2>2. io["send"] = "none"
    BY <2>1 DEF IInv, SendInv, SendEventExclusive, Holds, RegisterSendLabels
  <2>3. Backlog' = (sendBuffers \o sendQueue) \o <<>>
    BY <2>1, <2>2 DEF Backlog
  <2>4. sendBuffers \in Seq(Nat) /\ sendQueue \in Seq(Nat)
    BY DEF IInv, Types
  <2>5. sendBuffers \o sendQueue \in Seq(Nat)
    BY <2>4, ConcatProperties
  <2>6. (sendBuffers \o sendQueue) \o <<>> = sendBuffers \o sendQueue
    BY <2>5, ConcatEmptySeq
  <2>7. Backlog = sendBuffers \o sendQueue
    BY <2>2 DEF Backlog
  <2>. QED  BY <2>1, <2>3, <2>6, <2>7 DEF Channel!vars, Life
<1>7. ASSUME NEW t \in Threads, WSASend(t) PROVE UNCHANGED Channel!vars
  <2>1. /\ io' = [io EXCEPT !["send"] = "posted"] \/ UNCHANGED io
        /\ UNCHANGED <<queueVars, sendBuffers, wire, sock>> /\ snd[t] = "rs.post"
    BY <1>7 DEF WSASend, SndAt, SetIo, eventVars
  <2>2. io["send"] = "none" /\ io'["send"] # "ok"
    BY <2>1 DEF IInv, SendInv, SendEventExclusive, Holds, RegisterSendLabels, Types, Events
  <2>. QED  BY <2>1, <2>2 DEF Channel!vars, Backlog, Life, queueVars
<1>8. CASE CompleteSend
  <2>1. /\ io["send"] = "posted" /\ io'["send"] \in {"ok", "failed"}
        /\ wire' = IF io'["send"] = "ok" THEN wire \o sendBuffers ELSE wire
        /\ UNCHANGED <<queueVars, sendBuffers, sock>>
    BY <1>8 DEF CompleteSend, Finish, SetIo, eventVars, IInv, Types, Events
  <2>2. CASE io'["send"] = "failed"
    BY <2>1, <2>2 DEF Channel!vars, Backlog, Life, queueVars
  <2>3. CASE io'["send"] = "ok"
    <3>1. Whole /\ sock \notin {"idle", "connecting"}
      BY <2>1 DEF SupplyInv, Ended, NothingBefore
    <3>2. sendBuffers # <<>>
      BY <2>1 DEF IInv, EventInv, OutstandingPinned
    <3>. QED  BY <2>1, <2>3, <3>1, <3>2, Delivers DEF IInv, Channel!Next
  <2>. QED  BY <2>1, <2>2, <2>3
<1>9. ASSUME NEW t \in Threads, SendFailed(t) PROVE [Channel!Next]_(Channel!vars)
  <2>1. /\ sendBuffers' = <<>> /\ snd[t] = "rs.error"
        /\ UNCHANGED <<queueVars, io, wire, sock>>
    BY <1>9 DEF SendFailed, SndAt, kernelVars
  <2>2. io["send"] = "none"
    BY <2>1 DEF IInv, SendInv, SendEventExclusive, Holds, RegisterSendLabels
  <2>3. sock \notin {"idle", "connecting", "open"}
    BY <2>1, Begun DEF QueueInv, ErrorOffConnection
  <2>. QED  BY <2>1, <2>2, <2>3, GivesUp DEF IInv
<1>10. ASSUME NEW t \in Threads, ProcessSend(t) PROVE [Channel!Next]_(Channel!vars)
  <2>1. /\ sendBuffers' = <<>> /\ io["send"] \in {"ok", "failed"} /\ io'["send"] = "none"
        /\ UNCHANGED <<queueVars, wire, sock>>
    BY <1>10 DEF ProcessSend, Dispatch, SetIo, IInv, Types, Events
  <2>2. CASE io["send"] = "ok"
    BY <2>1, <2>2 DEF Channel!vars, Backlog, Life, queueVars
  <2>3. CASE io["send"] = "failed"
    <3>1. sock \notin {"idle", "connecting", "open"}
      BY <2>3 DEF SupplyInv, NothingBefore, FailsOffConnection
    <3>. QED  BY <2>1, <2>3, <3>1, GivesUp DEF IInv
  <2>. QED  BY <2>1, <2>2, <2>3
<1>11. ASSUME NEW t \in Threads, RegisterDisconnect(t)
       PROVE  /\ Quiet /\ sock \notin {"idle", "connecting"}
              /\ UNCHANGED sock \/ sock' = "shut"
  BY <1>11, Begun DEF RegisterDisconnect, SetIo, IInv, Types, Events
<1>12. ASSUME NEW t \in Threads, Continue(t), ~SendPush(t), ~RegisterSendDrain(t),
              ~WSASend(t), ~SendFailed(t), ~RegisterDisconnect(t)
       PROVE  Quiet /\ UNCHANGED sock
  BY <1>12
  DEF Continue, AddSession, OnConnected, RegisterRecv, WSARecv, RecvFailed, BroadcastReturn,
      SendCheck, RegisterSend, SendUnflag, ProcessSendNext, ProcessSendReturn, Disconnect,
      OnDisconnected, ReleaseSession, SetIo, eventVars, kernelVars, IInv, Types, Events
<1>13. ASSUME NEW t \in Threads, Enter(t) \/ OnRecvReturn(t)
       PROVE  Quiet /\ (UNCHANGED sock \/ (sock = "idle" /\ sock' = "open"))
  <2>1. CASE Accept(t)
    BY <2>1 DEF Accept, eventVars
  <2>2. CASE Broadcast(t)
    BY <2>2 DEF Broadcast, eventVars, kernelVars
  <2>3. CASE Reply(t) \/ OnRecvReturn(t)
    BY <2>3 DEF Reply, OnRecvReturn, eventVars, kernelVars
  <2>. QED  BY <1>13, <2>1, <2>2, <2>3 DEF Enter
<1>14. ASSUME NEW t \in Threads, DispatchAny(t), ~ProcessSend(t)
       PROVE  Quiet /\ UNCHANGED sock
  BY <1>14 DEF DispatchAny, ProcessConnect, ProcessRecv, ProcessDisconnect, Dispatch, SetIo,
               IInv, Types, Events
<1>15. CASE PeerGone
  BY <1>4, <1>15 DEF PeerGone, eventVars
<1>16. CASE CompleteConnect
  <2>1. Quiet /\ sock = "connecting" /\ sock' \in {"open", "refused"}
    BY <1>16 DEF CompleteConnect, Finish, SetIo, eventVars, SupplyInv, ConnectPosted, IInv,
                 Types, Events
  <2>. QED  BY <1>3, <2>1
<1>17. CASE CompleteRecv \/ CompleteDisconnect
  BY <1>2, <1>17
  DEF CompleteRecv, CompleteDisconnect, Finish, SetIo, eventVars, IInv, Types,
      Events
<1>18. CASE RegisterConnect
  <2>1. Quiet /\ sock = "idle" /\ sock' \in SockStates
    BY <1>18 DEF RegisterConnect, SetIo, SockStates, IInv, Types, Events
  <2>. QED  BY <1>3, <2>1
<1>19. CASE UNCHANGED vars
  BY <1>2, <1>19 DEF vars, eventVars, kernelVars
<1>20. ASSUME NEW t \in Threads, Continue(t) PROVE [Channel!Next]_(Channel!vars)
  BY <1>2, <1>4, <1>5, <1>6, <1>7, <1>9, <1>11, <1>12, <1>20 DEF Channel!Next
<1>21. ASSUME NEW t \in Threads, Enter(t) \/ OnRecvReturn(t)
       PROVE  [Channel!Next]_(Channel!vars)
  BY <1>2, <1>3, <1>13, <1>21 DEF SockStates
<1>22. ASSUME NEW t \in Threads, DispatchAny(t) PROVE [Channel!Next]_(Channel!vars)
  BY <1>2, <1>10, <1>14, <1>22
<1>. QED
  BY <1>8, <1>15, <1>16, <1>17, <1>18, <1>19, <1>20, <1>21, <1>22 DEF Next, Kernel

\* A session is a channel: the packets that Send has accepted reach the network in
\* order, none twice and none skipped, and none is given up while the connection is
\* open.  Assumed: WSASend and WSARecv fail at once only where the peer is gone.
THEOREM SessionIsChannel == ASSUME ~OtherErrors PROVE Spec => Channel!Spec
<1>1. Init => QueueInv
  BY DEF Init, QueueInv, FlagAttended, QueueFlagged, ErrorOffConnection, EmptyBefore,
         OnConnection
<1>2. Init => NumberInv /\ SupplyInv
  BY DEF Init, NumberInv, SupplyInv, Whole, Pending, NothingBefore, ErrorEnds,
         ConnectPosted, FailsOffConnection, Events
<1>3. Init => Channel!Init
  BY ConcatEmptySeq DEF Init, Channel!Init, Life, Backlog, Events
<1>4. IInv /\ QueueInv /\ NumberInv /\ SupplyInv /\ [Next]_vars
          => QueueInv' /\ NumberInv' /\ SupplyInv'
  BY QueueStep, NumberStep, SupplyStep
<1>5. IInv /\ QueueInv /\ NumberInv /\ SupplyInv /\ [Next]_vars
          => [Channel!Next]_(Channel!vars)
  BY ChannelStep
<1>. QED  BY <1>1, <1>2, <1>3, <1>4, <1>5, Invariance, PTL DEF Spec, Channel!Spec
=============================================================================

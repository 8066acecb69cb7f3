--------------------------- MODULE ServiceProofs ---------------------------
(***************************************************************************)
(* Proofs about Service, for any number of clients, sessions, accept       *)
(* events, workers and failures.                                           *)
(***************************************************************************)
EXTENDS Service, FiniteSetTheorems, SequenceTheorems, TLAPS

\* Start has statements left until they have all succeeded.
StartInv == phase["server"] = "start" => started < Len(StartSteps)

\* What a thread has in its hands at each statement.
ThreadInv ==
    \A t \in Threads :
        /\ pc[t] = "idle" => ev[t] = None /\ cur[t] = None
        /\ pc[t] = "accept" => cur[t] = None
        /\ t \in ClientWorkers => ev[t] = None /\ pc[t] # "accept"
        /\ t \notin ClientWorkers /\ pc[t] # "idle" => ev[t] \in Accepts
        /\ pc[t] \in {"connect", "recv"} =>
               cur[t] \in (IF t \in ClientWorkers THEN Conns ELSE Accepted)

\* An accept event is with the system, or with one thread, or not yet born.
EventInv ==
    /\ \A e \in Accepts :
        /\ event[e].io = "none" => \E t \in Threads : ev[t] = e
        /\ event[e].io \in {"posted", "done"} => event[e].session \in Accepted
    /\ \A t \in Threads : ev[t] # None =>
        /\ event[ev[t]].io = "none"
        /\ \A u \in Threads \ {t} : ev[u] # ev[t]

\* Nothing has been done with session s: ProcessConnect will be the first.
Untouched(s) ==
    /\ s \notin sessions \cup joined
    /\ ~connected[s]
    /\ recvIo[s] = "none" /\ disconnectIo[s] = "none"

\* A session is untouched until it is added, and until then nobody has it but
\* the event, the ConnectEx or the thread that will add it.
ConnectInv ==
    /\ \A c \in Conns : connectIo[c] # "none" =>
           Untouched(c) /\ \A t \in Threads : cur[t] # c
    /\ \A t \in Threads : pc[t] = "connect" =>
           Untouched(cur[t]) /\ \A u \in Threads \ {t} : cur[u] # cur[t]

\* Each service counts its sessions.
Counted ==
    \A x \in {"server", "client"} :
        sessionCount[x] = Cardinality({s \in sessions : Side(s) = x})

\* A connected session is registered; its one DisconnectEx comes when it no
\* longer is connected.
Registered ==
    /\ joined \subseteq sessions
    /\ \A s \in Sessions :
           /\ connected[s] => s \in sessions
           /\ disconnectIo[s] = "done" => s \in sessions /\ ~connected[s]

\* A registered session that is not connected is about to be released, unless
\* its DisconnectEx has failed.
Leaving ==
    \A s \in sessions : connected[s] \/ disconnectIo[s] = "done" \/ s \in failed

(***************************************************************************)
(* The inductive invariant.                                                *)
(***************************************************************************)
IInv ==
    /\ TypeOK
    /\ StartInv
    /\ ThreadInv
    /\ EventInv
    /\ AcceptsFreshSession
    /\ ConnectInv
    /\ Counted
    /\ Registered
    /\ Leaving
    /\ AbandonedOnlyAfterFailure

-----------------------------------------------------------------------------
(***************************************************************************)
(* Lemmas.                                                                 *)
(***************************************************************************)
LEMMA Disjoint ==
    /\ Conns \cap Accepted = {} /\ None \notin Sessions /\ None \notin Accepts
    /\ ServerWorkers \cap ClientWorkers = {}
    /\ ServerMain \in Threads /\ ServerMain \notin ClientWorkers
    /\ MaxFaults \in Nat
BY ServiceAssumption DEF Sessions, Threads

\* What CHOOSE finds.
LEMMA NewSessionFacts ==
    ASSUME HasMemory
    PROVE  NewSession \in Accepted /\ Unreferenced(NewSession)
BY DEF HasMemory, NewSession

LEMMA SidesFinite ==
    ASSUME TypeOK, NEW x
    PROVE  IsFiniteSet({s \in sessions : Side(s) = x})
<1>1. IsFiniteSet(Sessions)
  BY ServiceAssumption, FS_Union DEF Sessions
<1>2. {s \in sessions : Side(s) = x} \in SUBSET Sessions
  BY DEF TypeOK
<1>. QED  BY <1>1, <1>2, FS_Subset

\* The count of a service with a session in it is not 0.
LEMMA CountPositive ==
    ASSUME TypeOK, Counted, NEW s \in sessions
    PROVE  sessionCount[Side(s)] - 1 \in Nat
<1>1. sessionCount[Side(s)] = Cardinality({u \in sessions : Side(u) = Side(s)})
  BY DEF Counted, Side
<1>2. {u \in sessions : Side(u) = Side(s)} # {}
  OBVIOUS
<1>3. Cardinality({u \in sessions : Side(u) = Side(s)}) \in Nat \ {0}
  BY <1>2, SidesFinite, FS_EmptySet, FS_CardinalityType
<1>. QED  BY <1>1, <1>3

\* The outcomes of ProcessAccept, as far as the invariant tells them apart: the
\* worker goes on with the session of the event, or drops it.
Takes(t, e, l, s) ==
    /\ t \in ServerWorkers /\ pc[t] = "idle" /\ event[e].io = "done"
    /\ event' = [event EXCEPT ![e].io = "none"]
    /\ ev' = [ev EXCEPT ![t] = e]
    /\ pc' = [pc EXCEPT ![t] = l]
    /\ cur' = [cur EXCEPT ![t] = s]
    /\ UNCHANGED <<connected, ioVars, setVars, failed>>

LEMMA ProcessAcceptStep ==
    ASSUME NEW t \in Threads, NEW e \in Accepts, ProcessAccept(t, e)
    PROVE  Takes(t, e, "connect", event[e].session) \/ Takes(t, e, "accept", None)
BY DEF ProcessAccept, TakeAccept, Waits, Handle, Go, Takes

\* The outcomes of RegisterAccept: a crash, or a new session for the event, which
\* goes to the system or stays with the thread.
Stops ==
    UNCHANGED <<event, threadVars, connected, ioVars, setVars, failed>>

Renews(t) ==
    /\ pc[t] = "accept"
    /\ NewSession \in Accepted /\ Unreferenced(NewSession)
    /\ connected' = [connected EXCEPT ![NewSession] = FALSE]
    /\ failed' = failed \ {NewSession}
    /\ UNCHANGED <<ioVars, setVars>>

Posts(t) ==
    /\ Renews(t)
    /\ event' = [event EXCEPT ![ev[t]] = [io |-> "posted", session |-> NewSession]]
    /\ pc' = [pc EXCEPT ![t] = "idle"]
    /\ ev' = [ev EXCEPT ![t] = None]
    /\ cur' = [cur EXCEPT ![t] = None]

Retries(t) ==
    /\ Renews(t)
    /\ event' = [event EXCEPT ![ev[t]].session = NewSession]
    /\ UNCHANGED threadVars

LEMMA RegisterAcceptStep ==
    ASSUME NEW t \in Threads, RegisterAccept(t)
    PROVE  Stops \/ Posts(t) \/ Retries(t)
BY NewSessionFacts
   DEF RegisterAccept, At, CreateSession, Return, Go, Stops, Posts, Retries, Renews


LEMMA FaultTypes ==
    ASSUME TypeOK, Fault \/ NoFault PROVE faults' \in 0 .. MaxFaults
BY Disjoint DEF TypeOK, Fault, NoFault

Links == {"none", "waiting", "up", "broken", "refused"}

LEMMA BreakTypes ==
    ASSUME TypeOK, NEW s \in Sessions, Break(s) PROVE link' \in [Conns -> Links]
BY DEF TypeOK, Break, Links

LEMMA DisconnectTypes ==
    ASSUME TypeOK, NEW s \in Sessions, Disconnect(s)
    PROVE  /\ connected' \in [Sessions -> BOOLEAN]
           /\ disconnectIo' \in [Sessions -> {"none", "done"}]
           /\ link' \in [Conns -> Links]
           /\ failed' \subseteq Sessions
           /\ faults' \in 0 .. MaxFaults
<1>1. faults' \in 0 .. MaxFaults
  BY FaultTypes DEF Disconnect
<1>2. link' \in [Conns -> Links]
  BY BreakTypes DEF Disconnect, TypeOK, Links
<1>3. connected' \in [Sessions -> BOOLEAN]
  BY Zenon DEF Disconnect, TypeOK
<1>4. disconnectIo' \in [Sessions -> {"none", "done"}] /\ failed' \subseteq Sessions
  BY DEF Disconnect, TypeOK
<1>. QED  BY <1>1, <1>2, <1>3, <1>4

LEMMA HandleTypes ==
    ASSUME TypeOK, NEW t \in Threads, NEW l \in Labels,
           NEW e \in Accepts \cup {None}, NEW s \in Sessions \cup {None},
           Handle(t, l, e, s)
    PROVE  /\ pc' \in [Threads -> Labels]
           /\ ev' \in [Threads -> Accepts \cup {None}]
           /\ cur' \in [Threads -> Sessions \cup {None}]
BY DEF TypeOK, Handle, Go

LEMMA ReturnTypes ==
    ASSUME TypeOK, NEW t \in Threads, Return(t)
    PROVE  /\ pc' \in [Threads -> Labels]
           /\ ev' \in [Threads -> Accepts \cup {None}]
           /\ cur' \in [Threads -> Sessions \cup {None}]
BY DEF TypeOK, Return, Go, Labels

LEMMA CreateSessionTypes ==
    ASSUME TypeOK, NEW s \in Accepted, CreateSession(s)
    PROVE  /\ connected' \in [Sessions -> BOOLEAN]
           /\ peer' \in [Accepted -> Conns \cup {None}]
           /\ failed' \subseteq Sessions
<1>1. connected' \in [Sessions -> BOOLEAN]
  BY Zenon DEF CreateSession, TypeOK
<1>. QED  BY <1>1 DEF CreateSession, TypeOK

LEMMA RenewTypes ==
    ASSUME TypeOK, NEW x, NEW s \in Accepted,
           event' = [event EXCEPT ![x].session = s]
    PROVE  event' \in [Accepts -> [io : {"unborn", "none", "posted", "done"},
                                   session : Accepted \cup {None}]]
<1>. DEFINE R == [io : {"unborn", "none", "posted", "done"},
                  session : Accepted \cup {None}]
<1>1. event \in [Accepts -> R]
  BY DEF TypeOK
<1>2. \A r \in R : [r EXCEPT !.session = s] \in R
  OBVIOUS
<1>. HIDE DEF R
<1>3. event' = [event EXCEPT ![x] = [@ EXCEPT !.session = s]]
  OBVIOUS
<1>4. event' \in [Accepts -> R]
  BY <1>1, <1>2, <1>3
<1>. QED  BY <1>4 DEF R

LEMMA WithoutTypes ==
    ASSUME TypeOK, NEW i \in DOMAIN backlog PROVE Without(i) \in Seq(Conns)
<1>1. backlog \in Seq(Conns) /\ Len(backlog) \in Nat /\ Len(backlog) >= 1
      /\ DOMAIN backlog = 1 .. Len(backlog)
  BY DEF TypeOK
<1>2. \A j \in 1 .. Len(backlog) - 1 : backlog[IF j < i THEN j ELSE j + 1] \in Conns
  BY <1>1
<1>3. Without(i) \in [1 .. Len(backlog) - 1 -> Conns]
  BY <1>2 DEF Without
<1>4. Len(backlog) - 1 \in Nat
  BY <1>1
<1>. QED  BY <1>3, <1>4, SeqDef

LEMMA TypesStep ==
    ASSUME IInv, [Next]_vars PROVE TypeOK'
<1>. USE Disjoint DEF IInv, vars, startVars, threadVars, ioVars, setVars, netVars,
        TypeOK, StartInv, ThreadInv, Sessions, Threads, Labels, StartSteps
<1>1. CASE StartAccept
  BY <1>1 DEF StartAccept, StartSteps, Fault, NoFault, Crash
<1>2. CASE LaunchServer
  BY <1>2 DEF LaunchServer
<1>3. ASSUME NEW e \in Accepts, StartAcceptEvent(e)
      PROVE  TypeOK'
  <2>1. /\ pc' \in [Threads -> Labels]
        /\ ev' \in [Threads -> Accepts \cup {None}]
        /\ cur' \in [Threads -> Sessions \cup {None}]
    BY <1>3, HandleTypes DEF StartAcceptEvent
  <2>2. event' \in [Accepts -> [io : {"unborn", "none", "posted", "done"},
                                session : Accepted \cup {None}]]
    BY <1>3 DEF StartAcceptEvent
  <2>. QED  BY <1>3, <2>1, <2>2 DEF StartAcceptEvent
<1>4. CASE LaunchClient
  BY <1>4 DEF LaunchClient
<1>5. ASSUME NEW t \in Threads, RegisterAccept(t)
      PROVE  TypeOK'
  <2>1. CASE Fault /\ Crash("server")
             /\ UNCHANGED <<event, threadVars, connected, peer, failed>>
    BY <1>5, <2>1, FaultTypes DEF RegisterAccept, Crash, TypeOK
  <2>2. ASSUME HasMemory, CreateSession(NewSession), UNCHANGED startVars
        PROVE  (\/ /\ Return(t) /\ NoFault
                   /\ event' = [event EXCEPT ![ev[t]] =
                                     [io |-> "posted", session |-> NewSession]]
                \/ /\ UNCHANGED threadVars /\ Fault
                   /\ event' = [event EXCEPT ![ev[t]].session = NewSession]) => TypeOK'
    <3>1. NewSession \in Accepted
      BY <2>2, NewSessionFacts
    <3>2. UNCHANGED <<ioVars, setVars, link, backlog>>
      BY <1>5 DEF RegisterAccept
    <3>3. ASSUME Return(t), NoFault,
                 event' = [event EXCEPT ![ev[t]] =
                               [io |-> "posted", session |-> NewSession]]
          PROVE  TypeOK'
      BY <2>2, <3>1, <3>2, <3>3, CreateSessionTypes, ReturnTypes, FaultTypes DEF TypeOK
    <3>4. ASSUME UNCHANGED threadVars, Fault,
                 event' = [event EXCEPT ![ev[t]].session = NewSession]
          PROVE  TypeOK'
      BY <2>2, <3>1, <3>2, <3>4, RenewTypes, CreateSessionTypes, FaultTypes
    <3>. QED  BY <3>3, <3>4
  <2>. QED  BY <1>5, <2>1, <2>2 DEF RegisterAccept
<1>6. ASSUME NEW t \in Threads, AddSession(t)
      PROVE  TypeOK'
  <2>1. cur[t] \in Sessions /\ Side(cur[t]) \in {"server", "client"}
    BY <1>6 DEF AddSession, At, ThreadInv, Sessions, Side
  <2>2. sessionCount' \in [{"server", "client"} -> Nat]
    BY <1>6, <2>1 DEF AddSession, TypeOK
  <2>3. connected' \in [Sessions -> BOOLEAN]
    BY <1>6, Zenon DEF AddSession, TypeOK
  <2>4. /\ pc' \in [Threads -> Labels]
        /\ sessions' \subseteq Sessions /\ joined' \subseteq Sessions
    BY <1>6, <2>1 DEF AddSession, Go, TypeOK, Labels
  <2>. QED  BY <1>6, <2>2, <2>3, <2>4 DEF AddSession, TypeOK
<1>7. ASSUME NEW t \in Threads, RegisterRecv(t)
      PROVE  TypeOK'
  <2>1. cur[t] \in Sessions /\ (t \notin ClientWorkers => ev[t] \in Accepts)
    BY <1>7 DEF RegisterRecv, At, ThreadInv, Sessions
  <2>2. /\ pc' \in [Threads -> Labels] /\ ev' \in [Threads -> Accepts \cup {None}]
        /\ cur' \in [Threads -> Sessions \cup {None}]
    BY <1>7, <2>1, HandleTypes, ReturnTypes DEF RegisterRecv, Labels
  <2>3. /\ connected' \in [Sessions -> BOOLEAN]
        /\ disconnectIo' \in [Sessions -> {"none", "done"}]
        /\ recvIo' \in [Sessions -> {"none", "posted", "done"}]
        /\ link' \in [Conns -> Links] /\ failed' \subseteq Sessions
        /\ faults' \in 0 .. MaxFaults
    <3>1. CASE Disconnect(cur[t]) /\ UNCHANGED recvIo
      BY <2>1, <3>1, DisconnectTypes DEF TypeOK
    <3>2. CASE /\ recvIo' = [recvIo EXCEPT ![cur[t]] = "posted"]
               /\ NoFault /\ UNCHANGED <<connected, disconnectIo, link, failed>>
      BY <2>1, <3>2, FaultTypes DEF TypeOK, Links
    <3>3. CASE /\ failed' = failed \cup {cur[t]} /\ (NoFault \/ Fault)
               /\ UNCHANGED <<recvIo, connected, disconnectIo, link>>
      BY <2>1, <3>3, FaultTypes DEF TypeOK, Links
    <3>. QED  BY <1>7, <3>1, <3>2, <3>3 DEF RegisterRecv
  <2>. QED  BY <1>7, <2>2, <2>3 DEF RegisterRecv, TypeOK, Links
<1>8. ASSUME NEW t \in Threads, NEW e \in Accepts, ProcessAccept(t, e)
      PROVE  TypeOK'
  <2>1. event[e].session \in Accepted /\ event' \in [Accepts ->
            [io : {"unborn", "none", "posted", "done"}, session : Accepted \cup {None}]]
    BY <1>8 DEF ProcessAccept, TakeAccept, EventInv, TypeOK
  <2>2. /\ pc' \in [Threads -> Labels] /\ ev' \in [Threads -> Accepts \cup {None}]
        /\ cur' \in [Threads -> Sessions \cup {None}]
    BY <1>8, <2>1, HandleTypes DEF ProcessAccept, Labels, Sessions
  <2>3. link' \in [Conns -> Links] /\ faults' \in 0 .. MaxFaults
    BY <1>8, <2>1, BreakTypes, FaultTypes DEF ProcessAccept, TypeOK, Links, Sessions
  <2>. QED  BY <1>8, <2>1, <2>2, <2>3 DEF ProcessAccept, TypeOK, Links
<1>9. ASSUME NEW t \in Threads, NEW c \in Conns, ProcessConnect(t, c)
      PROVE  TypeOK'
  BY <1>9 DEF ProcessConnect, Waits, Handle, Go
<1>10. ASSUME NEW t \in Threads, NEW s \in Sessions, ProcessRecv(t, s)
      PROVE  TypeOK'
  <2>1. recvIo' \in [Sessions -> {"none", "posted", "done"}]
    BY <1>10 DEF ProcessRecv, TypeOK
  <2>2. Disconnect(s)
    BY <1>10 DEF ProcessRecv
  <2>. QED  BY <1>10, <2>1, <2>2, DisconnectTypes DEF ProcessRecv, TypeOK, Links
<1>11. ASSUME NEW t \in Threads, NEW s \in Sessions, ProcessDisconnect(t, s)
      PROVE  TypeOK'
  <2>1. s \in sessions => sessionCount[Side(s)] - 1 \in Nat
    BY CountPositive
  <2>2. sessionCount' \in [{"server", "client"} -> Nat]
    BY <1>11, <2>1 DEF ProcessDisconnect, TypeOK, setVars
  <2>3. disconnectIo' \in [Sessions -> {"none", "done"}] /\ joined' \subseteq Sessions
        /\ sessions' \subseteq Sessions
        /\ phase' \in [{"server", "client"} -> {"start", "accept", "run", "crashed"}]
        /\ UNCHANGED started
    BY <1>11 DEF ProcessDisconnect, Crash, startVars, TypeOK
  <2>. QED  BY <1>11, <2>2, <2>3 DEF ProcessDisconnect, TypeOK
<1>12. ASSUME NEW e \in Accepts, CompleteAccept(e)
      PROVE  TypeOK'
  <2>1. Head(backlog) \in Conns /\ Tail(backlog) \in Seq(Conns)
    BY <1>12 DEF CompleteAccept, TypeOK
  <2>2. peer' \in [Accepted -> Conns \cup {None}] /\ link' \in [Conns -> Links]
    BY <1>12, <2>1 DEF CompleteAccept, TypeOK, Links
  <2>3. event' \in [Accepts ->
            [io : {"unborn", "none", "posted", "done"}, session : Accepted \cup {None}]]
    BY <1>12 DEF CompleteAccept, TypeOK
  <2>. QED  BY <1>12, <2>1, <2>2, <2>3 DEF CompleteAccept, TypeOK, Links
<1>13. ASSUME NEW c \in Conns, Connect(c)
      PROVE  TypeOK'
  <2>1. faults' \in 0 .. MaxFaults
    BY <1>13, FaultTypes DEF Connect
  <2>2. /\ phase' \in [{"server", "client"} -> {"start", "accept", "run", "crashed"}]
        /\ UNCHANGED started
    BY <1>13 DEF Connect, Crash, startVars, TypeOK
  <2>3. connectIo' \in [Conns -> {"unborn", "posted", "ok", "failed", "none"}]
    BY <1>13 DEF Connect, TypeOK
  <2>. QED  BY <1>13, <2>1, <2>2, <2>3 DEF Connect, TypeOK
<1>14. ASSUME NEW c \in Conns, CompleteConnect(c)
      PROVE  TypeOK'
  <2>1. faults' \in 0 .. MaxFaults
    BY <1>14, FaultTypes DEF CompleteConnect
  <2>2. Append(backlog, c) \in Seq(Conns)
    BY DEF TypeOK
  <2>3. backlog' \in Seq(Conns)
    BY <1>14, <2>2 DEF CompleteConnect, TypeOK
  <2>5. link' \in [Conns -> Links]
    <3>1. \E x \in Links : link' = [link EXCEPT ![c] = x]
      BY <1>14 DEF CompleteConnect, Links
    <3>. QED  BY <3>1 DEF TypeOK, Links
  <2>4. connectIo' \in [Conns -> {"unborn", "posted", "ok", "failed", "none"}]
    BY <1>14 DEF CompleteConnect, TypeOK
  <2>. QED  BY <1>14, <2>1, <2>3, <2>4, <2>5 DEF CompleteConnect, TypeOK, Links
<1>15. ASSUME NEW c \in Conns, Drop(c)
      PROVE  TypeOK'
  <2>1. backlog' \in Seq(Conns)
    BY <1>15, WithoutTypes DEF Drop, TypeOK
  <2>2. link' \in [Conns -> Links]
    BY <1>15 DEF Drop, TypeOK, Links
  <2>. QED  BY <1>15, <2>1, <2>2 DEF Drop, TypeOK, Links
<1>16. ASSUME NEW s \in Sessions, SendFails(s)
      PROVE  TypeOK'
  <2>1. Disconnect(s)
    BY <1>16 DEF SendFails
  <2>. QED  BY <1>16, <2>1, DisconnectTypes DEF SendFails, TypeOK, Links
<1>17. ASSUME NEW s \in Sessions, CompleteRecv(s)
      PROVE  TypeOK'
  BY <1>17 DEF CompleteRecv
<1>18. CASE UNCHANGED vars
  BY <1>18
<1>. QED
  BY <1>1, <1>2, <1>3, <1>4, <1>5, <1>6, <1>7, <1>8, <1>9,
     <1>10, <1>11, <1>12, <1>13, <1>14, <1>15, <1>16, <1>17, <1>18
  DEF Next, Start, Continue

LEMMA StartStep ==
    ASSUME IInv, [Next]_vars PROVE StartInv'
<1>. USE DEF IInv, TypeOK, StartInv, vars, startVars, StartSteps
<1>1. CASE StartAccept
  BY <1>1 DEF StartAccept, Crash
<1>2. ASSUME NEW x \in {"server", "client"},
             Crash(x) \/ (phase' = [phase EXCEPT ![x] = "run"] /\ UNCHANGED started)
      PROVE  StartInv'
  BY <1>2 DEF Crash
<1>3. CASE UNCHANGED startVars
  BY <1>3
<1>4. ASSUME NEW t \in Threads, Continue(t)
      PROVE  StartInv'
  BY <1>2, <1>3, <1>4 DEF Continue, RegisterAccept, AddSession, RegisterRecv
<1>5. ASSUME NEW t \in Threads, NEW e \in Accepts, ProcessAccept(t, e)
      PROVE  StartInv'
  BY <1>3, <1>5 DEF ProcessAccept
<1>6. ASSUME NEW t \in Threads, NEW s \in Sessions,
             ProcessRecv(t, s) \/ ProcessDisconnect(t, s)
      PROVE  StartInv'
  BY <1>2, <1>3, <1>6 DEF ProcessRecv, ProcessDisconnect, Side
<1>7. ASSUME NEW c \in Conns, Connect(c)
      PROVE  StartInv'
  BY <1>2, <1>3, <1>7 DEF Connect
<1>8. CASE LaunchServer \/ LaunchClient
  BY <1>2, <1>8 DEF LaunchServer, LaunchClient
<1>. QED
  BY <1>1, <1>3, <1>4, <1>5, <1>6, <1>7, <1>8
  DEF Next, Start, StartAcceptEvent, ProcessConnect, CompleteAccept,
      CompleteConnect, Drop, SendFails, CompleteRecv


LEMMA ThreadsStep ==
    ASSUME IInv, [Next]_vars PROVE ThreadInv'
<1>. USE Disjoint DEF IInv, vars, startVars, threadVars, ioVars, setVars, netVars,
        TypeOK, ThreadInv, EventInv, Sessions, Threads
<1>1. CASE StartAccept
  BY <1>1 DEF StartAccept, StartSteps, Fault, NoFault, Crash
<1>2. CASE LaunchServer
  BY <1>2 DEF LaunchServer
<1>3. ASSUME NEW e \in Accepts, StartAcceptEvent(e)
      PROVE  ThreadInv'
  BY <1>3 DEF StartAcceptEvent, Handle, Go
<1>4. CASE LaunchClient
  BY <1>4 DEF LaunchClient
<1>5. ASSUME NEW t \in Threads, RegisterAccept(t)
      PROVE  ThreadInv'
  <2>1. CASE Stops
    BY <2>1 DEF Stops
  <2>2. CASE Posts(t)
    BY <2>2 DEF Posts, Renews
  <2>3. CASE Retries(t)
    BY <2>3 DEF Retries, Renews
  <2>. QED  BY <1>5, <2>1, <2>2, <2>3, RegisterAcceptStep
<1>6. ASSUME NEW t \in Threads, AddSession(t)
      PROVE  ThreadInv'
  BY <1>6 DEF AddSession, At, Go
<1>7. ASSUME NEW t \in Threads, RegisterRecv(t)
      PROVE  ThreadInv'
  BY <1>7 DEF RegisterRecv, At, Disconnect, Break, Fault, NoFault, Return, Handle, Go
<1>8. ASSUME NEW t \in Threads, NEW e \in Accepts, ProcessAccept(t, e)
      PROVE  ThreadInv'
  <2>1. CASE Takes(t, e, "connect", event[e].session)
    BY <2>1 DEF Takes
  <2>2. CASE Takes(t, e, "accept", None)
    BY <2>2 DEF Takes
  <2>. QED  BY <1>8, <2>1, <2>2, ProcessAcceptStep
<1>9. ASSUME NEW t \in Threads, NEW c \in Conns, ProcessConnect(t, c)
      PROVE  ThreadInv'
  BY <1>9 DEF ProcessConnect, Waits, Handle, Go
<1>10. ASSUME NEW t \in Threads, NEW s \in Sessions, ProcessRecv(t, s)
      PROVE  ThreadInv'
  BY <1>10 DEF ProcessRecv, Waits, Disconnect, Break, Fault, NoFault
<1>11. ASSUME NEW t \in Threads, NEW s \in Sessions, ProcessDisconnect(t, s)
      PROVE  ThreadInv'
  BY <1>11 DEF ProcessDisconnect, Waits, Crash
<1>12. ASSUME NEW e \in Accepts, CompleteAccept(e)
      PROVE  ThreadInv'
  BY <1>12 DEF CompleteAccept
<1>13. ASSUME NEW c \in Conns, Connect(c)
      PROVE  ThreadInv'
  BY <1>13 DEF Connect, Fault, NoFault, Crash
<1>14. ASSUME NEW c \in Conns, CompleteConnect(c)
      PROVE  ThreadInv'
  BY <1>14 DEF CompleteConnect, Fault, NoFault
<1>15. ASSUME NEW c \in Conns, Drop(c)
      PROVE  ThreadInv'
  BY <1>15 DEF Drop
<1>16. ASSUME NEW s \in Sessions, SendFails(s)
      PROVE  ThreadInv'
  BY <1>16 DEF SendFails, Disconnect, Break, Fault, NoFault
<1>17. ASSUME NEW s \in Sessions, CompleteRecv(s)
      PROVE  ThreadInv'
  BY <1>17 DEF CompleteRecv
<1>18. CASE UNCHANGED vars
  BY <1>18
<1>. QED
  BY <1>1, <1>2, <1>3, <1>4, <1>5, <1>6, <1>7, <1>8, <1>9,
     <1>10, <1>11, <1>12, <1>13, <1>14, <1>15, <1>16, <1>17, <1>18
  DEF Next, Start, Continue

LEMMA EventsStep ==
    ASSUME IInv, [Next]_vars PROVE EventInv'
<1>. USE Disjoint DEF IInv, vars, startVars, threadVars, ioVars, setVars, netVars,
        TypeOK, ThreadInv, EventInv, Threads
<1>1. CASE StartAccept
  BY <1>1 DEF StartAccept, StartSteps, Fault, NoFault, Crash
<1>2. CASE LaunchServer
  BY <1>2 DEF LaunchServer
<1>3. ASSUME NEW e \in Accepts, StartAcceptEvent(e)
      PROVE  EventInv'
  BY <1>3 DEF StartAcceptEvent, Handle, Go
<1>4. CASE LaunchClient
  BY <1>4 DEF LaunchClient
<1>5. ASSUME NEW t \in Threads, RegisterAccept(t)
      PROVE  EventInv'
  <2>1. CASE Stops
    BY <2>1 DEF Stops
  <2>2. CASE Posts(t)
    BY <2>2 DEF Posts, Renews
  <2>3. CASE Retries(t)
    BY <2>3 DEF Retries, Renews
  <2>. QED  BY <1>5, <2>1, <2>2, <2>3, RegisterAcceptStep
<1>6. ASSUME NEW t \in Threads, AddSession(t)
      PROVE  EventInv'
  BY <1>6 DEF AddSession, At, Go
<1>7. ASSUME NEW t \in Threads, RegisterRecv(t)
      PROVE  EventInv'
  BY <1>7 DEF RegisterRecv, At, Disconnect, Break, Fault, NoFault, Return, Handle, Go
<1>8. ASSUME NEW t \in Threads, NEW e \in Accepts, ProcessAccept(t, e)
      PROVE  EventInv'
  <2>1. CASE Takes(t, e, "connect", event[e].session)
    BY <2>1 DEF Takes
  <2>2. CASE Takes(t, e, "accept", None)
    BY <2>2 DEF Takes
  <2>. QED  BY <1>8, <2>1, <2>2, ProcessAcceptStep
<1>9. ASSUME NEW t \in Threads, NEW c \in Conns, ProcessConnect(t, c)
      PROVE  EventInv'
  BY <1>9 DEF ProcessConnect, Waits, Handle, Go
<1>10. ASSUME NEW t \in Threads, NEW s \in Sessions, ProcessRecv(t, s)
      PROVE  EventInv'
  BY <1>10 DEF ProcessRecv, Waits, Disconnect, Break, Fault, NoFault
<1>11. ASSUME NEW t \in Threads, NEW s \in Sessions, ProcessDisconnect(t, s)
      PROVE  EventInv'
  BY <1>11 DEF ProcessDisconnect, Waits, Crash
<1>12. ASSUME NEW e \in Accepts, CompleteAccept(e)
      PROVE  EventInv'
  BY <1>12 DEF CompleteAccept
<1>13. ASSUME NEW c \in Conns, Connect(c)
      PROVE  EventInv'
  BY <1>13 DEF Connect, Fault, NoFault, Crash
<1>14. ASSUME NEW c \in Conns, CompleteConnect(c)
      PROVE  EventInv'
  BY <1>14 DEF CompleteConnect, Fault, NoFault
<1>15. ASSUME NEW c \in Conns, Drop(c)
      PROVE  EventInv'
  BY <1>15 DEF Drop
<1>16. ASSUME NEW s \in Sessions, SendFails(s)
      PROVE  EventInv'
  BY <1>16 DEF SendFails, Disconnect, Break, Fault, NoFault
<1>17. ASSUME NEW s \in Sessions, CompleteRecv(s)
      PROVE  EventInv'
  BY <1>17 DEF CompleteRecv
<1>18. CASE UNCHANGED vars
  BY <1>18
<1>. QED
  BY <1>1, <1>2, <1>3, <1>4, <1>5, <1>6, <1>7, <1>8, <1>9,
     <1>10, <1>11, <1>12, <1>13, <1>14, <1>15, <1>16, <1>17, <1>18
  DEF Next, Start, Continue

LEMMA FreshStep ==
    ASSUME IInv, [Next]_vars PROVE AcceptsFreshSession'
<1>. USE Disjoint DEF IInv, vars, startVars, threadVars, ioVars, setVars, netVars,
        TypeOK, ThreadInv, EventInv, AcceptsFreshSession, ConnectInv, Registered,
        Untouched, Unreferenced, Sessions, Threads
<1>1. CASE StartAccept
  BY <1>1 DEF StartAccept, StartSteps, Fault, NoFault, Crash
<1>2. CASE LaunchServer
  BY <1>2 DEF LaunchServer
<1>3. ASSUME NEW e \in Accepts, StartAcceptEvent(e)
      PROVE  AcceptsFreshSession'
  BY <1>3 DEF StartAcceptEvent, Handle, Go
<1>4. CASE LaunchClient
  BY <1>4 DEF LaunchClient
<1>5. ASSUME NEW t \in Threads, RegisterAccept(t)
      PROVE  AcceptsFreshSession'
  <2>1. CASE Stops
    BY <2>1 DEF Stops
  <2>2. CASE Posts(t)
    BY <2>2 DEF Posts, Renews
  <2>3. CASE Retries(t)
    BY <2>3 DEF Retries, Renews
  <2>. QED  BY <1>5, <2>1, <2>2, <2>3, RegisterAcceptStep
<1>6. ASSUME NEW t \in Threads, AddSession(t)
      PROVE  AcceptsFreshSession'
  BY <1>6 DEF AddSession, At, Go
<1>7. ASSUME NEW t \in Threads, RegisterRecv(t)
      PROVE  AcceptsFreshSession'
  BY <1>7 DEF RegisterRecv, At, Disconnect, Break, Fault, NoFault, Return, Handle, Go
<1>8. ASSUME NEW t \in Threads, NEW e \in Accepts, ProcessAccept(t, e)
      PROVE  AcceptsFreshSession'
  <2>1. CASE Takes(t, e, "connect", event[e].session)
    BY <2>1 DEF Takes
  <2>2. CASE Takes(t, e, "accept", None)
    BY <2>2 DEF Takes
  <2>. QED  BY <1>8, <2>1, <2>2, ProcessAcceptStep
<1>9. ASSUME NEW t \in Threads, NEW c \in Conns, ProcessConnect(t, c)
      PROVE  AcceptsFreshSession'
  BY <1>9 DEF ProcessConnect, Waits, Handle, Go
<1>10. ASSUME NEW t \in Threads, NEW s \in Sessions, ProcessRecv(t, s)
      PROVE  AcceptsFreshSession'
  BY <1>10 DEF ProcessRecv, Waits, Disconnect, Break, Fault, NoFault
<1>11. ASSUME NEW t \in Threads, NEW s \in Sessions, ProcessDisconnect(t, s)
      PROVE  AcceptsFreshSession'
  BY <1>11 DEF ProcessDisconnect, Waits, Crash
<1>12. ASSUME NEW e \in Accepts, CompleteAccept(e)
      PROVE  AcceptsFreshSession'
  BY <1>12 DEF CompleteAccept
<1>13. ASSUME NEW c \in Conns, Connect(c)
      PROVE  AcceptsFreshSession'
  BY <1>13 DEF Connect, Fault, NoFault, Crash
<1>14. ASSUME NEW c \in Conns, CompleteConnect(c)
      PROVE  AcceptsFreshSession'
  BY <1>14 DEF CompleteConnect, Fault, NoFault
<1>15. ASSUME NEW c \in Conns, Drop(c)
      PROVE  AcceptsFreshSession'
  BY <1>15 DEF Drop
<1>16. ASSUME NEW s \in Sessions, SendFails(s)
      PROVE  AcceptsFreshSession'
  BY <1>16 DEF SendFails, Disconnect, Break, Fault, NoFault
<1>17. ASSUME NEW s \in Sessions, CompleteRecv(s)
      PROVE  AcceptsFreshSession'
  BY <1>17 DEF CompleteRecv
<1>18. CASE UNCHANGED vars
  BY <1>18
<1>. QED
  BY <1>1, <1>2, <1>3, <1>4, <1>5, <1>6, <1>7, <1>8, <1>9,
     <1>10, <1>11, <1>12, <1>13, <1>14, <1>15, <1>16, <1>17, <1>18
  DEF Next, Start, Continue

LEMMA ConnectStep ==
    ASSUME IInv, [Next]_vars PROVE ConnectInv'
<1>. USE Disjoint DEF IInv, vars, startVars, threadVars, ioVars, setVars, netVars,
        TypeOK, ThreadInv, EventInv, AcceptsFreshSession, ConnectInv, Registered,
        Untouched, Unreferenced, Sessions, Threads
<1>1. CASE StartAccept
  BY <1>1 DEF StartAccept, StartSteps, Fault, NoFault, Crash
<1>2. CASE LaunchServer
  BY <1>2 DEF LaunchServer
<1>3. ASSUME NEW e \in Accepts, StartAcceptEvent(e)
      PROVE  ConnectInv'
  BY <1>3 DEF StartAcceptEvent, Handle, Go
<1>4. CASE LaunchClient
  BY <1>4 DEF LaunchClient
<1>5. ASSUME NEW t \in Threads, RegisterAccept(t)
      PROVE  ConnectInv'
  <2>1. CASE Stops
    BY <2>1 DEF Stops
  <2>2. CASE Posts(t)
    BY <2>2 DEF Posts, Renews
  <2>3. CASE Retries(t)
    BY <2>3 DEF Retries, Renews
  <2>. QED  BY <1>5, <2>1, <2>2, <2>3, RegisterAcceptStep
<1>6. ASSUME NEW t \in Threads, AddSession(t)
      PROVE  ConnectInv'
  BY <1>6 DEF AddSession, At, Go
<1>7. ASSUME NEW t \in Threads, RegisterRecv(t)
      PROVE  ConnectInv'
  BY <1>7 DEF RegisterRecv, At, Disconnect, Break, Fault, NoFault, Return, Handle, Go
<1>8. ASSUME NEW t \in Threads, NEW e \in Accepts, ProcessAccept(t, e)
      PROVE  ConnectInv'
  <2>1. CASE Takes(t, e, "connect", event[e].session)
    BY <2>1 DEF Takes
  <2>2. CASE Takes(t, e, "accept", None)
    BY <2>2 DEF Takes
  <2>. QED  BY <1>8, <2>1, <2>2, ProcessAcceptStep
<1>9. ASSUME NEW t \in Threads, NEW c \in Conns, ProcessConnect(t, c)
      PROVE  ConnectInv'
  BY <1>9 DEF ProcessConnect, Waits, Handle, Go
<1>10. ASSUME NEW t \in Threads, NEW s \in Sessions, ProcessRecv(t, s)
      PROVE  ConnectInv'
  BY <1>10 DEF ProcessRecv, Waits, Disconnect, Break, Fault, NoFault
<1>11. ASSUME NEW t \in Threads, NEW s \in Sessions, ProcessDisconnect(t, s)
      PROVE  ConnectInv'
  BY <1>11 DEF ProcessDisconnect, Waits, Crash
<1>12. ASSUME NEW e \in Accepts, CompleteAccept(e)
      PROVE  ConnectInv'
  BY <1>12 DEF CompleteAccept
<1>13. ASSUME NEW c \in Conns, Connect(c)
      PROVE  ConnectInv'
  BY <1>13 DEF Connect, Fault, NoFault, Crash
<1>14. ASSUME NEW c \in Conns, CompleteConnect(c)
      PROVE  ConnectInv'
  BY <1>14 DEF CompleteConnect, Fault, NoFault
<1>15. ASSUME NEW c \in Conns, Drop(c)
      PROVE  ConnectInv'
  BY <1>15 DEF Drop
<1>16. ASSUME NEW s \in Sessions, SendFails(s)
      PROVE  ConnectInv'
  BY <1>16 DEF SendFails, Disconnect, Break, Fault, NoFault
<1>17. ASSUME NEW s \in Sessions, CompleteRecv(s)
      PROVE  ConnectInv'
  BY <1>17 DEF CompleteRecv
<1>18. CASE UNCHANGED vars
  BY <1>18
<1>. QED
  BY <1>1, <1>2, <1>3, <1>4, <1>5, <1>6, <1>7, <1>8, <1>9,
     <1>10, <1>11, <1>12, <1>13, <1>14, <1>15, <1>16, <1>17, <1>18
  DEF Next, Start, Continue

LEMMA CountedStep ==
    ASSUME IInv, [Next]_vars PROVE Counted'
<1>. DEFINE Of(x) == {s \in sessions : Side(s) = x}
<1>. USE Disjoint DEF IInv
<1>1. ASSUME NEW t \in Threads, AddSession(t)
      PROVE  Counted'
  <2>1. cur[t] \in Sessions /\ cur[t] \notin sessions
    BY <1>1 DEF AddSession, At, ThreadInv, ConnectInv, Untouched, Sessions
  <2>2. ASSUME NEW x \in {"server", "client"}
        PROVE  sessionCount'[x] = Cardinality(Of(x)')
    <3>1. IsFiniteSet(Of(x)) /\ sessionCount[x] = Cardinality(Of(x))
      BY SidesFinite DEF Counted
    <3>2. CASE Side(cur[t]) = x
      <4>1. Of(x)' = Of(x) \cup {cur[t]} /\ cur[t] \notin Of(x)
        BY <1>1, <2>1, <3>2 DEF AddSession, Side
      <4>2. sessionCount'[x] = sessionCount[x] + 1
        BY <1>1, <3>2 DEF AddSession, TypeOK
      <4>. QED  BY <3>1, <4>1, <4>2, FS_AddElement
    <3>3. CASE Side(cur[t]) # x
      <4>1. Of(x)' = Of(x)
        BY <1>1, <2>1, <3>3 DEF AddSession, Side
      <4>2. sessionCount'[x] = sessionCount[x]
        BY <1>1, <3>3 DEF AddSession, TypeOK
      <4>. QED  BY <3>1, <4>1, <4>2
    <3>. QED  BY <3>2, <3>3
  <2>. QED  BY <2>2 DEF Counted, Side
<1>2. ASSUME NEW t \in Threads, NEW s \in Sessions, ProcessDisconnect(t, s)
      PROVE  Counted'
  <2>1. s \in sessions /\ sessions' = sessions \ {s}
        /\ sessionCount' = [sessionCount EXCEPT ![Side(s)] = @ - 1]
    BY <1>2 DEF ProcessDisconnect, Registered
  <2>2. ASSUME NEW x \in {"server", "client"}
        PROVE  sessionCount'[x] = Cardinality(Of(x)')
    <3>1. IsFiniteSet(Of(x)) /\ sessionCount[x] = Cardinality(Of(x))
      BY SidesFinite DEF Counted
    <3>2. CASE Side(s) = x
      <4>1. Of(x)' = Of(x) \ {s} /\ s \in Of(x)
        BY <2>1, <3>2 DEF Side
      <4>2. sessionCount'[x] = sessionCount[x] - 1
        BY <2>1, <3>2 DEF TypeOK
      <4>3. Cardinality(Of(x)') = Cardinality(Of(x)) - 1
        BY <3>1, <4>1, FS_RemoveElement
      <4>. QED  BY <3>1, <4>2, <4>3
    <3>3. CASE Side(s) # x
      <4>1. Of(x)' = Of(x)
        BY <2>1, <3>3 DEF Side
      <4>2. sessionCount'[x] = sessionCount[x]
        BY <2>1, <3>3 DEF TypeOK
      <4>. QED  BY <3>1, <4>1, <4>2
    <3>. QED  BY <3>2, <3>3
  <2>. QED  BY <2>2 DEF Counted, Side
<1>3. CASE UNCHANGED <<sessions, sessionCount>>
  BY <1>3 DEF Counted, Side
<1>4. \/ UNCHANGED <<sessions, sessionCount>>
      \/ \E t \in Threads : AddSession(t)
      \/ \E t \in Threads, s \in Sessions : ProcessDisconnect(t, s)
  <2>. USE DEF vars, setVars
  <2>1. ASSUME NEW t \in Threads, RegisterAccept(t) \/ RegisterRecv(t)
        PROVE  UNCHANGED <<sessions, sessionCount>>
    BY <2>1 DEF RegisterAccept, RegisterRecv
  <2>2. ASSUME NEW t \in Threads, NEW e \in Accepts, ProcessAccept(t, e)
        PROVE  UNCHANGED <<sessions, sessionCount>>
    BY <2>2 DEF ProcessAccept
  <2>. QED
    BY <2>1, <2>2
      DEF Next, Start, Continue, StartAccept, LaunchServer, StartAcceptEvent,
          LaunchClient,
        ProcessConnect, ProcessRecv, Connect, CompleteAccept, CompleteConnect, Drop,
        SendFails, CompleteRecv
<1>. QED  BY <1>1, <1>2, <1>3, <1>4


LEMMA RegisteredStep ==
    ASSUME IInv, [Next]_vars PROVE Registered'
<1>. USE Disjoint DEF IInv, vars, startVars, threadVars, ioVars, setVars, netVars,
        TypeOK, ThreadInv, ConnectInv, Registered, Untouched, Unreferenced, Sessions,
        Threads
<1>1. CASE StartAccept
  BY <1>1 DEF StartAccept, StartSteps, Fault, NoFault, Crash
<1>2. CASE LaunchServer
  BY <1>2 DEF LaunchServer
<1>3. ASSUME NEW e \in Accepts, StartAcceptEvent(e)
      PROVE  Registered'
  BY <1>3 DEF StartAcceptEvent, Handle, Go
<1>4. CASE LaunchClient
  BY <1>4 DEF LaunchClient
<1>5. ASSUME NEW t \in Threads, RegisterAccept(t)
      PROVE  Registered'
  <2>1. CASE Stops
    BY <2>1 DEF Stops
  <2>2. CASE Posts(t)
    BY <2>2 DEF Posts, Renews
  <2>3. CASE Retries(t)
    BY <2>3 DEF Retries, Renews
  <2>. QED  BY <1>5, <2>1, <2>2, <2>3, RegisterAcceptStep
<1>6. ASSUME NEW t \in Threads, AddSession(t)
      PROVE  Registered'
  BY <1>6 DEF AddSession, At, Go
<1>7. ASSUME NEW t \in Threads, RegisterRecv(t)
      PROVE  Registered'
  BY <1>7 DEF RegisterRecv, At, Disconnect, Break, Fault, NoFault, Return, Handle, Go
<1>8. ASSUME NEW t \in Threads, NEW e \in Accepts, ProcessAccept(t, e)
      PROVE  Registered'
  BY <1>8 DEF ProcessAccept, TakeAccept, Waits, Handle, Go, Break, Fault, NoFault
<1>9. ASSUME NEW t \in Threads, NEW c \in Conns, ProcessConnect(t, c)
      PROVE  Registered'
  BY <1>9 DEF ProcessConnect, Waits, Handle, Go
<1>10. ASSUME NEW t \in Threads, NEW s \in Sessions, ProcessRecv(t, s)
      PROVE  Registered'
  BY <1>10 DEF ProcessRecv, Waits, Disconnect, Break, Fault, NoFault
<1>11. ASSUME NEW t \in Threads, NEW s \in Sessions, ProcessDisconnect(t, s)
      PROVE  Registered'
  BY <1>11 DEF ProcessDisconnect, Waits, Crash
<1>12. ASSUME NEW e \in Accepts, CompleteAccept(e)
      PROVE  Registered'
  BY <1>12 DEF CompleteAccept
<1>13. ASSUME NEW c \in Conns, Connect(c)
      PROVE  Registered'
  BY <1>13 DEF Connect, Fault, NoFault, Crash
<1>14. ASSUME NEW c \in Conns, CompleteConnect(c)
      PROVE  Registered'
  BY <1>14 DEF CompleteConnect, Fault, NoFault
<1>15. ASSUME NEW c \in Conns, Drop(c)
      PROVE  Registered'
  BY <1>15 DEF Drop
<1>16. ASSUME NEW s \in Sessions, SendFails(s)
      PROVE  Registered'
  BY <1>16 DEF SendFails, Disconnect, Break, Fault, NoFault
<1>17. ASSUME NEW s \in Sessions, CompleteRecv(s)
      PROVE  Registered'
  BY <1>17 DEF CompleteRecv
<1>18. CASE UNCHANGED vars
  BY <1>18
<1>. QED
  BY <1>1, <1>2, <1>3, <1>4, <1>5, <1>6, <1>7, <1>8, <1>9,
     <1>10, <1>11, <1>12, <1>13, <1>14, <1>15, <1>16, <1>17, <1>18
  DEF Next, Start, Continue

LEMMA LeavingStep ==
    ASSUME IInv, [Next]_vars PROVE Leaving'
<1>. USE Disjoint DEF IInv, vars, startVars, threadVars, ioVars, setVars, netVars,
        TypeOK, ThreadInv, ConnectInv, Registered, Leaving, Untouched, Unreferenced,
        Sessions, Threads
<1>1. CASE StartAccept
  BY <1>1 DEF StartAccept, StartSteps, Fault, NoFault, Crash
<1>2. CASE LaunchServer
  BY <1>2 DEF LaunchServer
<1>3. ASSUME NEW e \in Accepts, StartAcceptEvent(e)
      PROVE  Leaving'
  BY <1>3 DEF StartAcceptEvent, Handle, Go
<1>4. CASE LaunchClient
  BY <1>4 DEF LaunchClient
<1>5. ASSUME NEW t \in Threads, RegisterAccept(t)
      PROVE  Leaving'
  <2>1. CASE Stops
    BY <2>1 DEF Stops
  <2>2. CASE Posts(t)
    BY <2>2 DEF Posts, Renews
  <2>3. CASE Retries(t)
    BY <2>3 DEF Retries, Renews
  <2>. QED  BY <1>5, <2>1, <2>2, <2>3, RegisterAcceptStep
<1>6. ASSUME NEW t \in Threads, AddSession(t)
      PROVE  Leaving'
  BY <1>6 DEF AddSession, At, Go
<1>7. ASSUME NEW t \in Threads, RegisterRecv(t)
      PROVE  Leaving'
  BY <1>7 DEF RegisterRecv, At, Disconnect, Break, Fault, NoFault, Return, Handle, Go
<1>8. ASSUME NEW t \in Threads, NEW e \in Accepts, ProcessAccept(t, e)
      PROVE  Leaving'
  BY <1>8 DEF ProcessAccept, TakeAccept, Waits, Handle, Go, Break, Fault, NoFault
<1>9. ASSUME NEW t \in Threads, NEW c \in Conns, ProcessConnect(t, c)
      PROVE  Leaving'
  BY <1>9 DEF ProcessConnect, Waits, Handle, Go
<1>10. ASSUME NEW t \in Threads, NEW s \in Sessions, ProcessRecv(t, s)
      PROVE  Leaving'
  BY <1>10 DEF ProcessRecv, Waits, Disconnect, Break, Fault, NoFault
<1>11. ASSUME NEW t \in Threads, NEW s \in Sessions, ProcessDisconnect(t, s)
      PROVE  Leaving'
  BY <1>11 DEF ProcessDisconnect, Waits, Crash
<1>12. ASSUME NEW e \in Accepts, CompleteAccept(e)
      PROVE  Leaving'
  BY <1>12 DEF CompleteAccept
<1>13. ASSUME NEW c \in Conns, Connect(c)
      PROVE  Leaving'
  BY <1>13 DEF Connect, Fault, NoFault, Crash
<1>14. ASSUME NEW c \in Conns, CompleteConnect(c)
      PROVE  Leaving'
  BY <1>14 DEF CompleteConnect, Fault, NoFault
<1>15. ASSUME NEW c \in Conns, Drop(c)
      PROVE  Leaving'
  BY <1>15 DEF Drop
<1>16. ASSUME NEW s \in Sessions, SendFails(s)
      PROVE  Leaving'
  BY <1>16 DEF SendFails, Disconnect, Break, Fault, NoFault
<1>17. ASSUME NEW s \in Sessions, CompleteRecv(s)
      PROVE  Leaving'
  BY <1>17 DEF CompleteRecv
<1>18. CASE UNCHANGED vars
  BY <1>18
<1>. QED
  BY <1>1, <1>2, <1>3, <1>4, <1>5, <1>6, <1>7, <1>8, <1>9,
     <1>10, <1>11, <1>12, <1>13, <1>14, <1>15, <1>16, <1>17, <1>18
  DEF Next, Start, Continue

LEMMA AbandonedStep ==
    ASSUME IInv, [Next]_vars PROVE AbandonedOnlyAfterFailure'
<1>. USE Disjoint DEF IInv, vars, startVars, threadVars, ioVars, setVars, netVars,
        TypeOK, ThreadInv, ConnectInv, Registered, Leaving, AbandonedOnlyAfterFailure,
        Abandoned, Untouched, Unreferenced, Sessions, Threads
<1>1. CASE StartAccept
  BY <1>1 DEF StartAccept, StartSteps, Fault, NoFault, Crash
<1>2. CASE LaunchServer
  BY <1>2 DEF LaunchServer
<1>3. ASSUME NEW e \in Accepts, StartAcceptEvent(e)
      PROVE  AbandonedOnlyAfterFailure'
  BY <1>3 DEF StartAcceptEvent, Handle, Go
<1>4. CASE LaunchClient
  BY <1>4 DEF LaunchClient
<1>5. ASSUME NEW t \in Threads, RegisterAccept(t)
      PROVE  AbandonedOnlyAfterFailure'
  <2>1. CASE Stops
    BY <2>1 DEF Stops
  <2>2. CASE Posts(t)
    BY <2>2 DEF Posts, Renews
  <2>3. CASE Retries(t)
    BY <2>3 DEF Retries, Renews
  <2>. QED  BY <1>5, <2>1, <2>2, <2>3, RegisterAcceptStep
<1>6. ASSUME NEW t \in Threads, AddSession(t)
      PROVE  AbandonedOnlyAfterFailure'
  BY <1>6 DEF AddSession, At, Go
<1>7. ASSUME NEW t \in Threads, RegisterRecv(t)
      PROVE  AbandonedOnlyAfterFailure'
  <2>. DEFINE s == cur[t]
  <2>1. s \in Sessions
    <3>1. pc[t] = "recv"
      BY <1>7 DEF RegisterRecv, At
    <3>. QED  BY <3>1
  <2>2. s \in sessions =>
            s \in failed' \/ recvIo'[s] # "none" \/ disconnectIo'[s] # "none"
    BY <1>7, <2>1 DEF RegisterRecv, Disconnect
  <2>3. /\ sessions' = sessions /\ failed \subseteq failed'
        /\ \A x \in Sessions \ {s} : /\ recvIo'[x] = recvIo[x]
                                    /\ disconnectIo'[x] = disconnectIo[x]
    BY <1>7 DEF RegisterRecv, Disconnect
  <2>4. \A u \in Threads : cur[u] # s => cur'[u] = cur[u]
    BY <1>7 DEF RegisterRecv, Return, Handle
  <2>. HIDE DEF s
  <2>5. \A x \in Sessions \ {s} : Abandoned(x)' => Abandoned(x)
    BY <2>3, <2>4
  <2>. QED  BY <2>1, <2>2, <2>3, <2>5
<1>8. ASSUME NEW t \in Threads, NEW e \in Accepts, ProcessAccept(t, e)
      PROVE  AbandonedOnlyAfterFailure'
  <2>1. CASE Takes(t, e, "connect", event[e].session)
    BY <2>1 DEF Takes
  <2>2. CASE Takes(t, e, "accept", None)
    BY <2>2 DEF Takes
  <2>. QED  BY <1>8, <2>1, <2>2, ProcessAcceptStep
<1>9. ASSUME NEW t \in Threads, NEW c \in Conns, ProcessConnect(t, c)
      PROVE  AbandonedOnlyAfterFailure'
  BY <1>9 DEF ProcessConnect, Waits, Handle, Go
<1>10. ASSUME NEW t \in Threads, NEW s \in Sessions, ProcessRecv(t, s)
      PROVE  AbandonedOnlyAfterFailure'
  BY <1>10 DEF ProcessRecv, Waits, Disconnect, Break, Fault, NoFault
<1>11. ASSUME NEW t \in Threads, NEW s \in Sessions, ProcessDisconnect(t, s)
      PROVE  AbandonedOnlyAfterFailure'
  BY <1>11 DEF ProcessDisconnect, Waits, Crash
<1>12. ASSUME NEW e \in Accepts, CompleteAccept(e)
      PROVE  AbandonedOnlyAfterFailure'
  BY <1>12 DEF CompleteAccept
<1>13. ASSUME NEW c \in Conns, Connect(c)
      PROVE  AbandonedOnlyAfterFailure'
  BY <1>13 DEF Connect, Fault, NoFault, Crash
<1>14. ASSUME NEW c \in Conns, CompleteConnect(c)
      PROVE  AbandonedOnlyAfterFailure'
  BY <1>14 DEF CompleteConnect, Fault, NoFault
<1>15. ASSUME NEW c \in Conns, Drop(c)
      PROVE  AbandonedOnlyAfterFailure'
  BY <1>15 DEF Drop
<1>16. ASSUME NEW s \in Sessions, SendFails(s)
      PROVE  AbandonedOnlyAfterFailure'
  BY <1>16 DEF SendFails, Disconnect, Break, Fault, NoFault
<1>17. ASSUME NEW s \in Sessions, CompleteRecv(s)
      PROVE  AbandonedOnlyAfterFailure'
  BY <1>17 DEF CompleteRecv
<1>18. CASE UNCHANGED vars
  BY <1>18
<1>. QED
  BY <1>1, <1>2, <1>3, <1>4, <1>5, <1>6, <1>7, <1>8, <1>9,
     <1>10, <1>11, <1>12, <1>13, <1>14, <1>15, <1>16, <1>17, <1>18
  DEF Next, Start, Continue

-----------------------------------------------------------------------------
LEMMA InitIInv == Init => IInv
<1>. SUFFICES ASSUME Init PROVE IInv
  OBVIOUS
<1>. USE Disjoint DEF Init
<1>1. TypeOK
  BY DEF TypeOK, Labels, StartSteps
<1>2. StartInv /\ ThreadInv /\ EventInv
  BY DEF StartInv, StartSteps, ThreadInv, EventInv
<1>3. AcceptsFreshSession
  BY DEF AcceptsFreshSession
<1>4. ConnectInv
  BY DEF ConnectInv, Untouched, Sessions, Labels
<1>5. Counted
  BY FS_EmptySet DEF Counted
<1>6. Registered /\ Leaving /\ AbandonedOnlyAfterFailure
  BY DEF Registered, Leaving, AbandonedOnlyAfterFailure, Abandoned
<1>. QED  BY <1>1, <1>2, <1>3, <1>4, <1>5, <1>6 DEF IInv

LEMMA NextIInv == IInv /\ [Next]_vars => IInv'
BY TypesStep, StartStep, ThreadsStep, EventsStep, FreshStep, ConnectStep,
   CountedStep, RegisteredStep, LeavingStep, AbandonedStep
   DEF IInv

LEMMA Invariant == Spec => []IInv
BY InitIInv, NextIInv, PTL DEF Spec

\* The variables of Service have their types in every reachable state.
THEOREM TypeCorrect == Spec => []TypeOK
<1>1. IInv => TypeOK
  BY DEF IInv
<1>. QED  BY <1>1, Invariant, PTL

\* An accept event, once armed, is outstanding, completed, or with exactly one
\* thread that will arm it again: Listener never stops accepting, whatever the
\* calls of ProcessAccept and RegisterAccept return.
THEOREM AlwaysKeepsAccepting == Spec => []KeepsAccepting
<1>1. IInv => KeepsAccepting
  <2>. SUFFICES ASSUME IInv, NEW e \in Accepts
                PROVE  /\ event[e].io \in {"posted", "done"} => Hands(e) = {}
                       /\ event[e].io = "none" => Cardinality(Hands(e)) = 1
    BY DEF KeepsAccepting
  <2>1. event[e].io # "none" => Hands(e) = {}
    BY Disjoint DEF IInv, EventInv, Hands
  <2>2. ASSUME event[e].io = "none" PROVE \E t : Hands(e) = {t}
    <3>1. PICK t \in Threads : ev[t] = e
      BY <2>2 DEF IInv, EventInv
    <3>2. \A u \in Threads \ {t} : ev[u] # e
      BY <3>1, Disjoint DEF IInv, EventInv
    <3>. QED  BY <3>1, <3>2 DEF Hands
  <2>. QED  BY <2>1, <2>2, FS_Singleton
<1>. QED  BY <1>1, Invariant, PTL

\* The session a pending AcceptEx will connect is used by nothing else: every
\* path of Listener creates a new one for its event.
THEOREM AlwaysAcceptsFreshSession == Spec => []AcceptsFreshSession
<1>1. IInv => AcceptsFreshSession
  BY DEF IInv
<1>. QED  BY <1>1, Invariant, PTL

\* The count, the set of a service and the content's manager agree, and the
\* ASSERT_CRASH of ReleaseSession never fires.
THEOREM RegistersAlwaysAgree == Spec => []RegistersAgree
<1>1. IInv => RegistersAgree
  BY DEF IInv, RegistersAgree, Counted, Registered
<1>. QED  BY <1>1, Invariant, PTL

\* A session without a way out of its service had WSARecv or DisconnectEx fail
\* at once.
THEOREM AbandonedOnlyByFailure == Spec => []AbandonedOnlyAfterFailure
<1>1. IInv => AbandonedOnlyAfterFailure
  BY DEF IInv
<1>. QED  BY <1>1, Invariant, PTL
=============================================================================

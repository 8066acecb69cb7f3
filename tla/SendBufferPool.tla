--------------------------- MODULE SendBufferPool ---------------------------
(***************************************************************************)
(* SendBuffer, SendBufferChunk and SendBufferManager (SendBuffer.cpp):     *)
(* packets are written one behind the other into the chunk of the thread   *)
(* that makes them, are shared by the sessions they are sent on, and keep  *)
(* the chunk from being reused until the last of them is released.         *)
(*                                                                         *)
(* Packets are numbered as they are made; a cell of a chunk holds the      *)
(* number of the packet that was written to it last.  The shared_ptrs to a *)
(* packet are its holders; those to a chunk are LSendBufferChunk, the      *)
(* result of Pop, the pool, and the packets in it.                         *)
(***************************************************************************)
EXTENDS Naturals, Sequences, FiniteSets

CONSTANTS
    Threads,      \* threads that make packets and handle completions
    Sessions,     \* queues and send events that hold packets
    Chunks,       \* bound on the chunks allocated
    ChunkSize,    \* SEND_BUFFER_CHUNK_SIZE
    AllocSize,    \* what every Make_ function asks for, 4096
    MaxPackets,   \* bound on the packets made
    None

ASSUME PoolAssumption ==
    /\ ChunkSize \in Nat
    /\ AllocSize \in 1 .. ChunkSize
    /\ MaxPackets \in Nat
    /\ None \notin Chunks
    /\ Threads \cap Sessions = {}

VARIABLES
    pc,          \* statement each thread is at
    packet,      \* packet it is making or sending, 0 for none
    local,       \* LSendBufferChunk
    got,         \* what Pop has returned
    dying,       \* chunk whose reference a thread is giving up
    pool,        \* _sendBufferChunks
    allocated,   \* chunks made by xnew
    open, used,  \* _open, _usedSize
    cells,       \* _buffer
    made,        \* how many packets were made
    owner,       \* _owner of each packet
    first, size, \* where the packet begins (_buffer), _writeSize (0: not closed)
    holders      \* who has a SendBufferRef to the packet

chunkVars == <<pool, allocated, open, used, cells>>
packetVars == <<made, owner, first, size, holders>>
vars == <<pc, packet, local, got, dying, chunkVars, packetVars>>

Packets == 1 .. MaxPackets
Cells == 0 .. ChunkSize - 1
Labels == {"run", "pop", "assign", "reset", "open", "write", "have", "crash"}

TypeOK ==
    /\ pc \in [Threads -> Labels]
    /\ packet \in [Threads -> Packets \cup {0}]
    /\ local \in [Threads -> Chunks \cup {None}]
    /\ got \in [Threads -> Chunks \cup {None}]
    /\ dying \in [Threads -> Chunks \cup {None}]
    /\ pool \in Seq(Chunks)
    /\ allocated \subseteq Chunks
    /\ open \in [Chunks -> BOOLEAN]
    /\ used \in [Chunks -> 0 .. ChunkSize]
    /\ cells \in [Chunks -> [Cells -> Packets \cup {0}]]
    /\ made \in 0 .. MaxPackets
    /\ owner \in [Packets -> Chunks \cup {None}]
    /\ first \in [Packets -> 0 .. ChunkSize]
    /\ size \in [Packets -> 0 .. AllocSize]
    /\ holders \in [Packets -> SUBSET (Threads \cup Sessions)]

Init ==
    /\ pc = [t \in Threads |-> "run"]
    /\ packet = [t \in Threads |-> 0]
    /\ local = [t \in Threads |-> None]
    /\ got = [t \in Threads |-> None]
    /\ dying = [t \in Threads |-> None]
    /\ pool = <<>>
    /\ allocated = {}
    /\ open = [c \in Chunks |-> FALSE]
    /\ used = [c \in Chunks |-> 0]
    /\ cells = [c \in Chunks |-> [i \in Cells |-> 0]]
    /\ made = 0
    /\ owner = [p \in Packets |-> None]
    /\ first = [p \in Packets |-> 0]
    /\ size = [p \in Packets |-> 0]
    /\ holders = [p \in Packets |-> {}]

Go(t, l) == pc' = [pc EXCEPT ![t] = l]

\* Thread t is at l and not inside the destructor of a reference.
At(t, l) == pc[t] = l /\ dying[t] = None

FreeSize(c) == ChunkSize - used[c]

-----------------------------------------------------------------------------
(***************************************************************************)
(* SendBufferManager::Open.                                                *)
(***************************************************************************)
\* A new chunk is as large as any packet, so the second test follows only the
\* first.
Open(t) ==
    /\ At(t, "run")
    /\ made < MaxPackets
    /\ Go(t, IF local[t] = None THEN "pop"
             ELSE IF open[local[t]] THEN "crash"
             ELSE IF FreeSize(local[t]) < AllocSize THEN "pop" ELSE "open")
    /\ made' = made + 1
    /\ packet' = [packet EXCEPT ![t] = made']
    /\ UNCHANGED <<local, got, dying, chunkVars, owner, first, size, holders>>

\* The last of the pool, or a new chunk.
Pop(t) ==
    /\ At(t, "pop")
    /\ \E c \in Chunks :
          /\ got' = [got EXCEPT ![t] = c]
          /\ \/ /\ pool # <<>> /\ c = pool[Len(pool)]
                /\ pool' = SubSeq(pool, 1, Len(pool) - 1)
                /\ UNCHANGED allocated
             \/ /\ pool = <<>> /\ c \notin allocated
                /\ allocated' = allocated \cup {c}
                /\ UNCHANGED pool
    /\ Go(t, "assign")
    /\ UNCHANGED <<packet, local, dying, open, used, cells, packetVars>>

\* The assignment to LSendBufferChunk gives up the chunk it held.
Assign(t) ==
    /\ At(t, "assign")
    /\ local' = [local EXCEPT ![t] = got[t]]
    /\ got' = [got EXCEPT ![t] = None]
    /\ dying' = [dying EXCEPT ![t] = local[t]]
    /\ Go(t, "reset")
    /\ UNCHANGED <<packet, chunkVars, packetVars>>

\* Faulty variant: what was used stays used.
Reset_KeepsUsed(t) ==
    /\ At(t, "reset")
    /\ open' = [open EXCEPT ![local[t]] = FALSE]
    /\ Go(t, "open")
    /\ UNCHANGED <<packet, local, got, dying, pool, allocated, used, cells,
                   packetVars>>

Reset(t) ==
    /\ At(t, "reset")
    /\ open' = [open EXCEPT ![local[t]] = FALSE]
    /\ used' = [used EXCEPT ![local[t]] = 0]
    /\ Go(t, "open")
    /\ UNCHANGED <<packet, local, got, dying, pool, allocated, cells, packetVars>>

\* SendBufferChunk::Open; nullptr, for want of room, crashes its callers.
ChunkOpen(t) ==
    LET c == local[t]
        p == packet[t]
    IN
    /\ At(t, "open")
    /\ IF open[c] \/ FreeSize(c) < AllocSize
       THEN Go(t, "crash") /\ UNCHANGED <<open, owner, first, holders>>
       ELSE /\ open' = [open EXCEPT ![c] = TRUE]
            /\ owner' = [owner EXCEPT ![p] = c]
            /\ first' = [first EXCEPT ![p] = used[c]]
            /\ holders' = [holders EXCEPT ![p] = {t}]
            /\ Go(t, "write")
    /\ UNCHANGED <<packet, local, got, dying, pool, allocated, used, cells, made,
                   size>>

\* The n cells of chunk c from the first that is not used hold packet p.
Written(c, n, p) ==
    [i \in Cells |-> IF used[c] <= i /\ i < used[c] + n THEN p ELSE cells[c][i]]

\* Faulty variant: a packet may be longer than what it asked for.
Close_Overruns(t) ==
    LET c == owner[packet[t]] IN
    /\ At(t, "write")
    /\ IF open[c]
       THEN /\ \E n \in 1 .. AllocSize + 1 :
                  /\ cells' = [cells EXCEPT ![c] = Written(c, n, packet[t])]
                  /\ size' = [size EXCEPT ![packet[t]] = n]
                  /\ used' = [used EXCEPT ![c] = @ + n]
            /\ open' = [open EXCEPT ![c] = FALSE]
            /\ Go(t, "have")
       ELSE Go(t, "crash") /\ UNCHANGED <<open, used, cells, size>>
    /\ UNCHANGED <<packet, local, got, dying, pool, allocated, made, owner, first,
                   holders>>

\* A Make_ function writes its packet and calls SendBuffer::Close.
Close(t) ==
    LET c == owner[packet[t]] IN
    /\ At(t, "write")
    /\ IF open[c]
       THEN /\ \E n \in 1 .. AllocSize :
                  /\ cells' = [cells EXCEPT ![c] = Written(c, n, packet[t])]
                  /\ size' = [size EXCEPT ![packet[t]] = n]
                  /\ used' = [used EXCEPT ![c] = @ + n]
            /\ open' = [open EXCEPT ![c] = FALSE]
            /\ Go(t, "have")
       ELSE Go(t, "crash") /\ UNCHANGED <<open, used, cells, size>>
    /\ UNCHANGED <<packet, local, got, dying, pool, allocated, made, owner, first,
                   holders>>

-----------------------------------------------------------------------------
(***************************************************************************)
(* References to packets and chunks.                                       *)
(***************************************************************************)
\* Session::Send pushes the packet into _sendQueue of session s.
Send(t, s) ==
    /\ At(t, "have")
    /\ s \notin holders[packet[t]]
    /\ holders' = [holders EXCEPT ![packet[t]] = @ \cup {s}]
    /\ UNCHANGED <<pc, packet, local, got, dying, chunkVars, made, owner, first, size>>

\* Thread t drops x's reference to p.  The last destroys the packet, and with it
\* a reference to the packet's chunk.
DropRef(t, x, p) ==
    /\ holders' = [holders EXCEPT ![p] = @ \ {x}]
    /\ IF holders[p] = {x}
       THEN /\ dying' = [dying EXCEPT ![t] = owner[p]]
            /\ owner' = [owner EXCEPT ![p] = None]
       ELSE UNCHANGED <<dying, owner>>
    /\ UNCHANGED <<local, got, chunkVars, made, first, size>>

\* The handler that made the packet returns.
Return(t) ==
    /\ At(t, "have")
    /\ DropRef(t, t, packet[t])
    /\ packet' = [packet EXCEPT ![t] = 0]
    /\ Go(t, "run")

\* sendBuffers.clear(), when a send of session s has completed or failed.
Clear(t, s) ==
    /\ At(t, "run") \/ At(t, "have")
    /\ \E p \in Packets : s \in holders[p] /\ DropRef(t, s, p)
    /\ UNCHANGED <<pc, packet>>

\* References to chunk c other than the one t gives up.
Referenced(c, t) ==
    \/ \E u \in Threads : local[u] = c \/ got[u] = c \/ (u # t /\ dying[u] = c)
    \/ \E p \in Packets : owner[p] = c

\* Faulty variant: the chunk is pushed with packets in it.
Release_IgnoresPackets(t) ==
    LET c == dying[t] IN
    /\ c # None
    /\ dying' = [dying EXCEPT ![t] = None]
    /\ pool' = IF \E u \in Threads :
                     local[u] = c \/ got[u] = c \/ (u # t /\ dying[u] = c)
               THEN pool ELSE Append(pool, c)
    /\ UNCHANGED <<pc, packet, local, got, allocated, open, used, cells, packetVars>>

\* Faulty variant: the chunk a thread writes to is not counted.
Release_IgnoresLocal(t) ==
    LET c == dying[t] IN
    /\ c # None
    /\ dying' = [dying EXCEPT ![t] = None]
    /\ pool' = IF \/ \E u \in Threads \ {t} : dying[u] = c
                  \/ \E p \in Packets : owner[p] = c
               THEN pool ELSE Append(pool, c)
    /\ UNCHANGED <<pc, packet, local, got, allocated, open, used, cells, packetVars>>

\* Faulty variant: a chunk is freed, by a shared_ptr without PushGlobal.
Release_Frees(t) ==
    /\ dying[t] # None
    /\ dying' = [dying EXCEPT ![t] = None]
    /\ UNCHANGED <<pc, packet, local, got, chunkVars, packetVars>>

\* The last reference to a chunk gone, its deleter PushGlobal puts it into the
\* pool: nobody else can reach the chunk meanwhile.
Release(t) ==
    LET c == dying[t] IN
    /\ c # None
    /\ dying' = [dying EXCEPT ![t] = None]
    /\ pool' = IF Referenced(c, t) THEN pool ELSE Append(pool, c)
    /\ UNCHANGED <<pc, packet, local, got, allocated, open, used, cells, packetVars>>

-----------------------------------------------------------------------------
Continue(t) ==
    \/ Pop(t) \/ Assign(t) \/ Reset(t) \/ ChunkOpen(t) \/ Close(t)
    \/ Return(t) \/ Release(t)
    \/ \E s \in Sessions : Clear(t, s)

\* Everything was made and released, or a thread has crashed.
Rest ==
    /\ \/ /\ made = MaxPackets
          /\ \A t \in Threads : At(t, "run")
          /\ \A p \in Packets : holders[p] = {}
       \/ \E t \in Threads : pc[t] = "crash"
    /\ UNCHANGED vars

Next ==
    \/ \E t \in Threads : Open(t) \/ Continue(t) \/ \E s \in Sessions : Send(t, s)
    \/ Rest

Spec == Init /\ [][Next]_vars

-----------------------------------------------------------------------------
(***************************************************************************)
(* Properties.                                                             *)
(***************************************************************************)
Alive(p) == owner[p] # None

\* A packet keeps its bytes as long as a session may still send it: nothing is
\* written over it, by the thread that fills its chunk or by one that reuses it.
ContentIntact ==
    \A p \in Packets : Alive(p) =>
        \A i \in first[p] .. first[p] + size[p] - 1 : cells[owner[p]][i] = p

\* A chunk has one writer at most, and a chunk in the pool has no user and is
\* there once.
ChunkExclusive ==
    /\ \A t, u \in Threads : t # u /\ local[t] # None =>
          local[t] # local[u] /\ local[t] # got[u]
    /\ \A i \in DOMAIN pool :
          /\ \A t \in Threads : pool[i] \notin {local[t], got[t], dying[t]}
          /\ \A p \in Packets : owner[p] # pool[i]
          /\ \A j \in DOMAIN pool : pool[j] = pool[i] => j = i

\* No chunk is lost: each is in the pool or somebody has a reference to it.
NoChunkLost ==
    \A c \in allocated :
        \/ \E i \in DOMAIN pool : pool[i] = c
        \/ \E t \in Threads : c \in {local[t], got[t], dying[t]}
        \/ \E p \in Packets : owner[p] = c

\* No ASSERT_CRASH on _open fires and no Make_ function gets a nullptr.
NoCrash == \A t \in Threads : pc[t] # "crash"
=============================================================================

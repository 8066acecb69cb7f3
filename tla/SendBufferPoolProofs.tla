------------------------ MODULE SendBufferPoolProofs ------------------------
(***************************************************************************)
(* Proofs about SendBufferPool, for any number of threads, sessions and    *)
(* packets, and chunks of any size that holds a packet.                    *)
(***************************************************************************)
EXTENDS SendBufferPool, Integers, TLAPS

\* Threads between the reservation of a packet's number and its creation.
Reserving == {"pop", "assign", "reset", "open"}

\* What a thread has, by the statement it is at.
Progress ==
    \A t \in Threads :
        /\ packet[t] = 0 <=> pc[t] = "run"
        /\ got[t] # None <=> pc[t] = "assign"
        /\ pc[t] \in {"reset", "open", "write"} => local[t] # None
        /\ pc[t] = "open" => ~open[local[t]] /\ FreeSize(local[t]) >= AllocSize
        /\ pc[t] = "write" =>
              /\ owner[packet[t]] = local[t]
              /\ open[local[t]]
              /\ first[packet[t]] = used[local[t]]
              /\ FreeSize(local[t]) >= AllocSize

\* A packet is made by one thread and exists while it has holders, of which its
\* maker is one until it returns.
OneMaker ==
    /\ \A t \in Threads :
          /\ packet[t] <= made
          /\ \A u \in Threads \ {t} : packet[t] # 0 => packet[t] # packet[u]
    /\ \A p \in Packets :
          /\ Alive(p) <=> holders[p] # {}
          /\ p > made => ~Alive(p) /\ size[p] = 0
          /\ \A t \in Threads :
                /\ t \in holders[p] <=> packet[t] = p /\ pc[t] \in {"write", "have"}
                /\ packet[t] = p /\ pc[t] \in Reserving => ~Alive(p)
                /\ packet[t] = p /\ pc[t] \in Reserving \cup {"write"} => size[p] = 0

\* Only the thread that writes into a chunk has it open.
OpenedByWriter ==
    \A c \in Chunks : open[c] => \E t \in Threads : pc[t] = "write" /\ local[t] = c

\* What Pop returns is nobody else's, and no chunk has a user before xnew.
OneUser ==
    /\ \A t, u \in Threads : got[t] # None =>
          got[t] # local[u] /\ (t # u => got[t] # got[u])
    /\ \A c \in Chunks \ allocated :
          /\ \A t \in Threads : c \notin {local[t], got[t], dying[t]}
          /\ \A i \in DOMAIN pool : pool[i] # c
          /\ \A p \in Packets : owner[p] # c

\* A chunk holds no packet when it is reset.
EmptyAtReset ==
    \A t \in Threads : \A p \in Packets :
        /\ pc[t] = "assign" => owner[p] # got[t]
        /\ pc[t] = "reset" => owner[p] # local[t]

\* Packets lie in the part of their chunk that is used.
InUsedPart ==
    \A p \in Packets : Alive(p) /\ size[p] # 0 => first[p] + size[p] <= used[owner[p]]

(***************************************************************************)
(* The inductive invariant.                                                *)
(***************************************************************************)
IInv ==
    /\ TypeOK
    /\ NoCrash
    /\ Progress
    /\ OneMaker
    /\ OpenedByWriter
    /\ ChunkExclusive /\ OneUser /\ EmptyAtReset
    /\ NoChunkLost
    /\ InUsedPart /\ ContentIntact

-----------------------------------------------------------------------------
LEMMA Consts ==
    /\ ChunkSize \in Nat /\ AllocSize \in Nat /\ MaxPackets \in Nat
    /\ 1 <= AllocSize /\ AllocSize <= ChunkSize
    /\ None \notin Chunks
    /\ \A s \in Sessions : s \notin Threads
BY PoolAssumption

LEMMA InitIInv == Init => IInv
<1>. SUFFICES ASSUME Init PROVE IInv
  OBVIOUS
<1>. USE DEF Init
<1>1. TypeOK
  BY Consts DEF TypeOK, Labels
<1>2. NoCrash /\ Progress
  BY Consts DEF NoCrash, Progress
<1>3. OneMaker
  BY Consts DEF OneMaker, Alive, Packets
<1>4. OpenedByWriter /\ ChunkExclusive /\ OneUser /\ EmptyAtReset /\ NoChunkLost
  BY Consts DEF OpenedByWriter, ChunkExclusive, OneUser, EmptyAtReset, NoChunkLost
<1>5. InUsedPart /\ ContentIntact
  BY DEF InUsedPart, ContentIntact, Alive
<1>. QED  BY <1>1, <1>2, <1>3, <1>4, <1>5 DEF IInv

-----------------------------------------------------------------------------
(***************************************************************************)
(* What the parts of the invariant depend on.                              *)
(***************************************************************************)
\* A chunk that t writes into is nobody else's.
LEMMA LocalAlone ==
    ASSUME IInv, NEW t \in Threads, local[t] # None, NEW u \in Threads \ {t}
    PROVE  local[u] # local[t] /\ got[u] # local[t]
BY DEF IInv, ChunkExclusive

\* A chunk in use by a thread that is not writing is closed.
LEMMA LocalClosed ==
    ASSUME IInv, NEW t \in Threads, local[t] # None, pc[t] # "write"
    PROVE  ~open[local[t]]
<1>1. local[t] \in Chunks
  BY DEF IInv, TypeOK
<1>. QED  BY <1>1, LocalAlone DEF IInv, OpenedByWriter

LEMMA OpenIInv ==
    ASSUME IInv, NEW t \in Threads, Open(t)
    PROVE  IInv'
<1>1. /\ pc[t] = "run" /\ made < MaxPackets
      /\ made' = made + 1 /\ packet' = [packet EXCEPT ![t] = made']
      /\ UNCHANGED <<local, got, dying, chunkVars, owner, first, size, holders>>
  BY DEF Open, At
<1>2. PICK l \in {"pop", "open"} : pc' = [pc EXCEPT ![t] = l]
  BY LocalClosed DEF Open, At, Go
<1>3. l = "open" => /\ local[t] # None /\ ~open[local[t]]
                    /\ FreeSize(local[t]) >= AllocSize
  <2>1. local[t] # None => FreeSize(local[t]) \in Int
    BY Consts DEF IInv, TypeOK, FreeSize
  <2>. QED  BY <1>1, <1>2, <2>1, Consts, LocalClosed DEF Open, At, Go, IInv, TypeOK
<1>4. made' \in Packets /\ made' \in 0 .. MaxPackets
  BY <1>1, Consts DEF IInv, TypeOK, Packets
<1>5. TypeOK'
  BY <1>1, <1>2, <1>4 DEF IInv, TypeOK, Labels, chunkVars
<1>6. NoCrash' /\ OpenedByWriter'
  BY <1>1, <1>2 DEF IInv, TypeOK, NoCrash, OpenedByWriter, chunkVars
<1>7. Progress'
  BY <1>1, <1>2, <1>3, <1>4 DEF IInv, TypeOK, Progress, Packets, chunkVars, FreeSize
<1>8. OneMaker'
  <2>1. \A u \in Threads : packet[u] \in Nat /\ packet[u] <= made
    <3>1. packet \in [Threads -> Packets \cup {0}] /\ Packets \cup {0} \subseteq Nat
      BY Consts DEF IInv, TypeOK, Packets
    <3>. QED  BY <3>1 DEF IInv, OneMaker
  <2>2. made' = made + 1 /\ made \in Nat
    BY <1>1 DEF IInv, TypeOK
  <2>3. \A u \in Threads : packet'[u] = IF u = t THEN made' ELSE packet[u]
    BY <1>1 DEF IInv, TypeOK
  <2>4. /\ \A u \in Threads : packet'[u] <= made'
        /\ \A u, v \in Threads : u # v /\ packet'[u] # 0 => packet'[u] # packet'[v]
    BY <2>1, <2>2, <2>3 DEF IInv, OneMaker
  <2>5. ASSUME NEW p \in Packets
        PROVE  /\ Alive(p)' <=> holders'[p] # {}
               /\ p > made' => ~Alive(p)' /\ size'[p] = 0
    BY <1>1, <2>2 DEF IInv, OneMaker, Alive, Packets
  <2>6. ASSUME NEW p \in Packets, NEW u \in Threads
        PROVE  /\ u \in holders'[p] <=> packet'[u] = p /\ pc'[u] \in {"write", "have"}
               /\ packet'[u] = p /\ pc'[u] \in Reserving => ~Alive(p)'
               /\ packet'[u] = p /\ pc'[u] \in Reserving \cup {"write"} => size'[p] = 0
    <3>1. CASE u = t
      <4>1. ~Alive(made') /\ size[made'] = 0 /\ pc[t] = "run" /\ l \notin {"write", "have"}
        BY <1>1, <1>4, <2>2 DEF IInv, OneMaker
      <4>. QED  BY <1>1, <1>2, <2>3, <3>1, <4>1 DEF IInv, TypeOK, OneMaker, Alive
    <3>2. CASE u # t
      BY <1>1, <1>2, <2>3, <3>2 DEF IInv, TypeOK, OneMaker, Alive
    <3>. QED  BY <3>1, <3>2
  <2>. QED  BY <2>4, <2>5, <2>6 DEF OneMaker
<1>9. ChunkExclusive' /\ OneUser' /\ NoChunkLost'
  BY <1>1 DEF IInv, ChunkExclusive, OneUser, NoChunkLost, chunkVars
<1>10. EmptyAtReset'
  BY <1>1, <1>2 DEF IInv, TypeOK, EmptyAtReset
<1>11. InUsedPart' /\ ContentIntact'
  BY <1>1 DEF IInv, InUsedPart, ContentIntact, Alive, chunkVars
<1>. QED  BY <1>5, <1>6, <1>7, <1>8, <1>9, <1>10, <1>11 DEF IInv

LEMMA PopIInv ==
    ASSUME IInv, NEW t \in Threads, Pop(t)
    PROVE  IInv'
<1>1. PICK c \in Chunks :
        /\ got' = [got EXCEPT ![t] = c]
        /\ \/ /\ pool # <<>> /\ c = pool[Len(pool)]
              /\ pool' = SubSeq(pool, 1, Len(pool) - 1)
              /\ UNCHANGED allocated
           \/ /\ pool = <<>> /\ c \notin allocated
              /\ allocated' = allocated \cup {c}
              /\ UNCHANGED pool
  BY DEF Pop
<1>2. /\ pc[t] = "pop" /\ pc' = [pc EXCEPT ![t] = "assign"]
      /\ UNCHANGED <<packet, local, dying, open, used, cells, packetVars>>
  BY DEF Pop, At, Go
<1>3. /\ pool \in Seq(Chunks) /\ DOMAIN pool = 1 .. Len(pool) /\ Len(pool) \in Nat
      /\ pool # <<>> => Len(pool) \in DOMAIN pool
  BY DEF IInv, TypeOK
<1>4. /\ pool' \in Seq(Chunks) /\ DOMAIN pool' \subseteq DOMAIN pool
      /\ \A i \in DOMAIN pool' : pool'[i] = pool[i]
      /\ \A i \in DOMAIN pool : i \in DOMAIN pool' \/ pool[i] = c
  <2>1. CASE pool # <<>> /\ c = pool[Len(pool)] /\ pool' = SubSeq(pool, 1, Len(pool) - 1)
    BY <1>3, <2>1, SMTT(30)
  <2>2. CASE pool' = pool
    BY <1>3, <2>2
  <2>. QED  BY <1>1, <2>1, <2>2
<1>5. \* Nobody has the chunk, and it is no longer in the pool.
      /\ \A u \in Threads : c \notin {local[u], got[u], dying[u]}
      /\ \A p \in Packets : owner[p] # c
      /\ \A i \in DOMAIN pool' : pool'[i] # c
  <2>1. CASE pool # <<>> /\ c = pool[Len(pool)] /\ pool' = SubSeq(pool, 1, Len(pool) - 1)
    <3>1. Len(pool) \notin DOMAIN pool' /\ Len(pool) \in DOMAIN pool
      BY <1>3, <2>1
    <3>. QED  BY <1>3, <1>4, <2>1, <3>1 DEF IInv, ChunkExclusive
  <2>2. CASE c \notin allocated /\ UNCHANGED pool
    BY <2>2 DEF IInv, OneUser
  <2>. QED  BY <1>1, <2>1, <2>2
<1>6. allocated \subseteq allocated' /\ allocated' \subseteq allocated \cup {c} /\ c # None
  BY <1>1, Consts
<1>7. TypeOK'
  <2>1. got' \in [Threads -> Chunks \cup {None}]
    BY <1>1 DEF IInv, TypeOK
  <2>2. pc' \in [Threads -> Labels]
    BY <1>2 DEF IInv, TypeOK, Labels
  <2>3. allocated' \subseteq Chunks
    BY <1>6 DEF IInv, TypeOK
  <2>. QED  BY <1>2, <1>4, <2>1, <2>2, <2>3 DEF IInv, TypeOK, packetVars
<1>8. NoCrash' /\ OpenedByWriter'
  BY <1>2 DEF IInv, TypeOK, NoCrash, OpenedByWriter
<1>9. Progress'
  BY <1>1, <1>2, <1>6 DEF IInv, TypeOK, Progress, packetVars, FreeSize
<1>10. OneMaker'
  BY <1>2 DEF IInv, TypeOK, OneMaker, Alive, Reserving, packetVars
<1>11. ChunkExclusive'
  BY <1>1, <1>2, <1>4, <1>5 DEF IInv, TypeOK, ChunkExclusive, packetVars
<1>12. OneUser'
  BY <1>1, <1>2, <1>4, <1>5, <1>6 DEF IInv, TypeOK, OneUser, packetVars
<1>13. EmptyAtReset'
  BY <1>1, <1>2, <1>5 DEF IInv, TypeOK, EmptyAtReset, packetVars
<1>14. NoChunkLost'
  <2>. SUFFICES ASSUME NEW d \in allocated', d # c
                PROVE  \/ \E i \in DOMAIN pool' : pool'[i] = d
                       \/ \E u \in Threads : d \in {local[u], got'[u], dying[u]}
                       \/ \E p \in Packets : owner[p] = d
    BY <1>1, <1>2 DEF NoChunkLost, packetVars, IInv, TypeOK
  <2>1. d \in allocated
    BY <1>6
  <2>2. \/ \E i \in DOMAIN pool : pool[i] = d
        \/ \E u \in Threads : d \in {local[u], got[u], dying[u]}
        \/ \E p \in Packets : owner[p] = d
    BY <2>1 DEF IInv, NoChunkLost
  <2>3. got[t] = None /\ d # None
    BY <1>2, <1>6, <2>1, Consts DEF IInv, Progress, TypeOK
  <2>. QED  BY <1>1, <1>4, <2>2, <2>3 DEF IInv, TypeOK
<1>15. InUsedPart' /\ ContentIntact'
  BY <1>2 DEF IInv, InUsedPart, ContentIntact, Alive, packetVars
<1>. QED  BY <1>7, <1>8, <1>9, <1>10, <1>11, <1>12, <1>13, <1>14, <1>15 DEF IInv

LEMMA AssignIInv ==
    ASSUME IInv, NEW t \in Threads, Assign(t)
    PROVE  IInv'
<1>1. /\ pc[t] = "assign" /\ dying[t] = None
      /\ pc' = [pc EXCEPT ![t] = "reset"]
      /\ local' = [local EXCEPT ![t] = got[t]]
      /\ got' = [got EXCEPT ![t] = None]
      /\ dying' = [dying EXCEPT ![t] = local[t]]
      /\ UNCHANGED <<packet, chunkVars, packetVars>>
  BY DEF Assign, At, Go
<1>2. got[t] # None
  BY <1>1 DEF IInv, Progress
<1>3. TypeOK'
  BY <1>1 DEF IInv, TypeOK, Labels, chunkVars, packetVars
<1>4. NoCrash'
  BY <1>1 DEF IInv, TypeOK, NoCrash
<1>5. OpenedByWriter'
  BY <1>1 DEF IInv, TypeOK, OpenedByWriter, chunkVars
<1>6. Progress'
  BY <1>1, <1>2 DEF IInv, TypeOK, Progress, chunkVars, packetVars, FreeSize
<1>7. OneMaker'
  BY <1>1 DEF IInv, TypeOK, OneMaker, Alive, Reserving, packetVars
<1>8. ChunkExclusive'
  BY <1>1, <1>2, Consts
  DEF IInv, TypeOK, ChunkExclusive, OneUser, chunkVars, packetVars
<1>9. OneUser'
  BY <1>1, <1>2, Consts
  DEF IInv, TypeOK, OneUser, ChunkExclusive, chunkVars, packetVars
<1>10. EmptyAtReset'
  BY <1>1, <1>2 DEF IInv, TypeOK, EmptyAtReset, packetVars
<1>11. NoChunkLost'
  <2>1. \A d \in allocated : \A u \in Threads :
           d \in {local[u], got[u], dying[u]} =>
              \E w \in Threads : d \in {local'[w], got'[w], dying'[w]}
    BY <1>1, Consts DEF IInv, TypeOK
  <2>. QED  BY <1>1, <2>1 DEF IInv, NoChunkLost, chunkVars, packetVars
<1>12. InUsedPart' /\ ContentIntact'
  BY <1>1 DEF IInv, InUsedPart, ContentIntact, Alive, chunkVars, packetVars
<1>. QED  BY <1>3, <1>4, <1>5, <1>6, <1>7, <1>8, <1>9, <1>10, <1>11, <1>12 DEF IInv

LEMMA ResetIInv ==
    ASSUME IInv, NEW t \in Threads, Reset(t)
    PROVE  IInv'
<1>1. /\ pc[t] = "reset" /\ pc' = [pc EXCEPT ![t] = "open"]
      /\ open' = [open EXCEPT ![local[t]] = FALSE]
      /\ used' = [used EXCEPT ![local[t]] = 0]
      /\ UNCHANGED <<packet, local, got, dying, pool, allocated, cells, packetVars>>
  BY DEF Reset, At, Go
<1>2. local[t] # None /\ local[t] \in Chunks
  BY <1>1 DEF IInv, Progress, TypeOK
<1>3. \A u \in Threads \ {t} : local[u] # local[t]
  BY <1>2, LocalAlone
<1>4. \A p \in Packets : owner[p] # local[t]
  BY <1>1 DEF IInv, EmptyAtReset
<1>5. TypeOK'
  BY <1>1, <1>2, Consts DEF IInv, TypeOK, Labels, packetVars
<1>6. NoCrash' /\ OpenedByWriter'
  BY <1>1, <1>2, <1>3 DEF IInv, TypeOK, NoCrash, OpenedByWriter
<1>7. Progress'
  <2>1. \A u \in Threads \ {t} : local[u] \in Chunks =>
           open'[local[u]] = open[local[u]] /\ used'[local[u]] = used[local[u]]
    BY <1>1, <1>3 DEF IInv, TypeOK
  <2>2. ~open'[local[t]] /\ used'[local[t]] = 0 /\ ChunkSize - 0 >= AllocSize
    BY <1>1, <1>2, Consts DEF IInv, TypeOK
  <2>3. \A u \in Threads : local[u] # None => local[u] \in Chunks
    BY DEF IInv, TypeOK
  <2>. QED
    BY <1>1, <1>2, <2>1, <2>2, <2>3 DEF IInv, TypeOK, Progress, packetVars, FreeSize
<1>8. OneMaker'
  BY <1>1 DEF IInv, TypeOK, OneMaker, Alive, Reserving, packetVars
<1>9. ChunkExclusive' /\ OneUser' /\ NoChunkLost'
  BY <1>1 DEF IInv, ChunkExclusive, OneUser, NoChunkLost, packetVars
<1>10. EmptyAtReset'
  BY <1>1 DEF IInv, TypeOK, EmptyAtReset, packetVars
<1>11. InUsedPart' /\ ContentIntact'
  BY <1>1, <1>4 DEF IInv, TypeOK, InUsedPart, ContentIntact, Alive, packetVars
<1>. QED  BY <1>5, <1>6, <1>7, <1>8, <1>9, <1>10, <1>11 DEF IInv

LEMMA ChunkOpenIInv ==
    ASSUME IInv, NEW t \in Threads, ChunkOpen(t)
    PROVE  IInv'
<1>. DEFINE c == local[t]
            p == packet[t]
<1>1. /\ pc[t] = "open" /\ ~open[c] /\ FreeSize(c) >= AllocSize
      /\ c # None /\ c \in Chunks /\ p \in Packets
  BY DEF ChunkOpen, At, IInv, Progress, TypeOK
<1>2. FreeSize(c) \in Int /\ ~(FreeSize(c) < AllocSize)
  BY <1>1, Consts DEF IInv, TypeOK, FreeSize
<1>3. /\ pc' = [pc EXCEPT ![t] = "write"]
      /\ open' = [open EXCEPT ![c] = TRUE]
      /\ owner' = [owner EXCEPT ![p] = c]
      /\ first' = [first EXCEPT ![p] = used[c]]
      /\ holders' = [holders EXCEPT ![p] = {t}]
      /\ UNCHANGED <<packet, local, got, dying, pool, allocated, used, cells, made,
                     size>>
  BY <1>1, <1>2 DEF ChunkOpen, Go
<1>4. \A u \in Threads \ {t} : local[u] # c /\ got[u] # c
  BY <1>1, LocalAlone
<1>5. \* The packet is new.
      /\ owner[p] = None /\ holders[p] = {} /\ size[p] = 0 /\ p <= made
      /\ \A u \in Threads \ {t} : packet[u] # p
  BY <1>1 DEF IInv, OneMaker, Alive, Reserving, TypeOK, Packets
<1>6. TypeOK'
  BY <1>1, <1>3 DEF IInv, TypeOK, Labels
<1>7. NoCrash' /\ OpenedByWriter'
  BY <1>1, <1>3 DEF IInv, TypeOK, NoCrash, OpenedByWriter
<1>8. Progress'
  <2>1. p # 0 /\ packet[t] = p /\ local[t] = c /\ got[t] = None /\ FreeSize(c)' = FreeSize(c)
    BY <1>1, <1>3 DEF IInv, Progress, Packets, FreeSize
  <2>2. ASSUME NEW u \in Threads \ {t}, pc[u] = "write"
        PROVE  owner'[packet[u]] = owner[packet[u]] /\ first'[packet[u]] = first[packet[u]]
               /\ open'[local[u]] /\ FreeSize(local[u])' = FreeSize(local[u])
    BY <1>3, <1>4, <1>5, <2>2 DEF IInv, TypeOK, Progress, FreeSize
  <2>3. ASSUME NEW u \in Threads \ {t}, pc[u] = "open"
        PROVE  ~open'[local[u]] /\ FreeSize(local[u])' = FreeSize(local[u])
    BY <1>3, <1>4, <2>3 DEF IInv, TypeOK, Progress, FreeSize
  <2>4. \A u \in Threads \ {t} : pc'[u] = pc[u]
    BY <1>3 DEF IInv, TypeOK
  <2>5. /\ pc'[t] = "write" /\ owner'[p] = c /\ open'[c] /\ first'[p] = used'[c]
        /\ FreeSize(c)' >= AllocSize
    BY <1>1, <1>3, <2>1 DEF IInv, TypeOK
  <2>. QED  BY <1>1, <1>3, <2>1, <2>2, <2>3, <2>4, <2>5 DEF IInv, Progress
<1>9. OneMaker'
  <2>1. ASSUME NEW q \in Packets, NEW u \in Threads
        PROVE  /\ u \in holders'[q] <=> packet'[u] = q /\ pc'[u] \in {"write", "have"}
               /\ packet'[u] = q /\ pc'[u] \in Reserving => ~Alive(q)'
               /\ packet'[u] = q /\ pc'[u] \in Reserving \cup {"write"} => size'[q] = 0
    BY <1>1, <1>3, <1>5 DEF IInv, TypeOK, OneMaker, Alive, Reserving
  <2>2. ASSUME NEW q \in Packets
        PROVE  /\ Alive(q)' <=> holders'[q] # {}
               /\ q > made' => ~Alive(q)' /\ size'[q] = 0
    <3>1. CASE q = p
      <4>1. owner'[p] = c /\ holders'[p] = {t}
        BY <1>1, <1>3 DEF IInv, TypeOK
      <4>2. p <= made' /\ p \in Nat /\ made' \in Nat
        BY <1>1, <1>3, <1>5, Consts DEF IInv, TypeOK, Packets
      <4>. QED  BY <1>1, <3>1, <4>1, <4>2, Consts DEF Alive
    <3>2. CASE q # p
      BY <1>3, <3>2 DEF IInv, OneMaker, Alive
    <3>. QED  BY <3>1, <3>2
  <2>. QED  BY <1>3, <2>1, <2>2 DEF IInv, OneMaker
<1>10. \A i \in DOMAIN pool : pool[i] # c
  BY <1>1 DEF IInv, ChunkExclusive
<1>11. c \in allocated
  BY <1>1 DEF IInv, OneUser
<1>12. ChunkExclusive' /\ OneUser'
  BY <1>1, <1>3, <1>10, <1>11 DEF IInv, TypeOK, ChunkExclusive, OneUser
<1>13. EmptyAtReset'
  BY <1>1, <1>3, <1>4 DEF IInv, TypeOK, EmptyAtReset
<1>14. NoChunkLost'
  <2>1. \A d \in allocated : \A q \in Packets : owner[q] = d => owner'[q] = d
    BY <1>3, <1>5, Consts DEF IInv, TypeOK
  <2>. QED  BY <1>3, <2>1 DEF IInv, NoChunkLost
<1>15. InUsedPart'
  BY <1>1, <1>3, <1>5 DEF IInv, TypeOK, InUsedPart, Alive
<1>16. ContentIntact'
  <2>. SUFFICES ASSUME NEW q \in Packets, Alive(q)',
                       NEW i \in first'[q] .. first'[q] + size'[q] - 1
                PROVE  cells'[owner'[q]][i] = q
    BY DEF ContentIntact
  <2>1. CASE q = p
    BY <1>1, <1>3, <1>5, <2>1 DEF IInv, TypeOK
  <2>2. CASE q # p
    BY <1>3, <2>2 DEF IInv, TypeOK, ContentIntact, Alive
  <2>. QED  BY <2>1, <2>2
<1>. QED
  BY <1>6, <1>7, <1>8, <1>9, <1>12, <1>13, <1>14, <1>15, <1>16 DEF IInv

LEMMA CloseIInv ==
    ASSUME IInv, NEW t \in Threads, Close(t)
    PROVE  IInv'
<1>. DEFINE c == local[t]
            p == packet[t]
<1>1. /\ pc[t] = "write" /\ owner[p] = c /\ open[c] /\ first[p] = used[c]
      /\ FreeSize(c) >= AllocSize
      /\ c # None /\ c \in Chunks /\ p \in Packets /\ used[c] \in Nat
  BY DEF Close, At, IInv, Progress, TypeOK
<1>2. PICK n \in 1 .. AllocSize :
        /\ cells' = [cells EXCEPT ![c] = Written(c, n, p)]
        /\ size' = [size EXCEPT ![p] = n]
        /\ used' = [used EXCEPT ![c] = @ + n]
  BY <1>1 DEF Close
<1>3. /\ pc' = [pc EXCEPT ![t] = "have"]
      /\ open' = [open EXCEPT ![c] = FALSE]
      /\ UNCHANGED <<packet, local, got, dying, pool, allocated, made, owner, first,
                     holders>>
  BY <1>1 DEF Close, Go
<1>4. n \in Nat /\ n # 0 /\ used[c] + n \in 0 .. ChunkSize /\ n \in 0 .. AllocSize
  BY <1>1, <1>2, Consts DEF FreeSize
<1>5. Written(c, n, p) \in [Cells -> Packets \cup {0}]
  BY <1>1 DEF Written, IInv, TypeOK
<1>6. \A u \in Threads \ {t} : local[u] # c
  BY <1>1, LocalAlone
<1>7. \A u \in Threads \ {t} : packet[u] # p
  BY <1>1 DEF IInv, OneMaker, TypeOK, Packets
<1>8. Alive(p) /\ p <= made
  BY <1>1 DEF Alive, IInv, OneMaker
<1>9. TypeOK'
  BY <1>1, <1>2, <1>3, <1>4, <1>5 DEF IInv, TypeOK, Labels
<1>10. NoCrash' /\ OpenedByWriter'
  BY <1>1, <1>3, <1>6 DEF IInv, TypeOK, NoCrash, OpenedByWriter
<1>11. Progress'
  <2>1. \A u \in Threads \ {t} : local[u] \in Chunks =>
           open'[local[u]] = open[local[u]] /\ used'[local[u]] = used[local[u]]
    BY <1>2, <1>3, <1>6 DEF IInv, TypeOK
  <2>2. \A u \in Threads : local[u] # None => local[u] \in Chunks
    BY DEF IInv, TypeOK
  <2>3. pc'[t] = "have" /\ \A u \in Threads \ {t} : pc'[u] = pc[u]
    BY <1>3 DEF IInv, TypeOK
  <2>4. packet[t] # 0 /\ got[t] = None
    BY <1>1 DEF IInv, Progress
  <2>5. pc[t] = "write"
    BY <1>1
  <2>6. \A u \in Threads \ {t} : pc[u] \in {"open", "write"} =>
           open'[local[u]] = open[local[u]] /\ used'[local[u]] = used[local[u]]
    BY <2>1, <2>2 DEF IInv, Progress
  <2>. SUFFICES ASSUME NEW u \in Threads
                PROVE  /\ packet[u] = 0 <=> pc'[u] = "run"
                       /\ got[u] # None <=> pc'[u] = "assign"
                       /\ pc'[u] \in {"reset", "open", "write"} => local[u] # None
                       /\ pc'[u] = "open" =>
                             ~open'[local[u]] /\ ChunkSize - used'[local[u]] >= AllocSize
                       /\ pc'[u] = "write" =>
                             /\ owner[packet[u]] = local[u]
                             /\ open'[local[u]]
                             /\ first[packet[u]] = used'[local[u]]
                             /\ ChunkSize - used'[local[u]] >= AllocSize
    BY <1>3 DEF Progress, FreeSize
  <2>7. CASE u = t
    BY <2>3, <2>4, <2>7
  <2>8. CASE u # t
    BY <2>3, <2>6, <2>8 DEF IInv, Progress, FreeSize
  <2>. QED  BY <2>7, <2>8
<1>12. OneMaker'
  <2>1. \A q \in Packets \ {p} : size'[q] = size[q]
    BY <1>2 DEF IInv, TypeOK
  <2>2. \A u \in Threads \ {t} : pc'[u] = pc[u]
    BY <1>3
  <2>3. /\ pc'[t] = "have" /\ pc[t] = "write"
    BY <1>1, <1>3 DEF IInv, TypeOK
  <2>4. \A q \in Packets : q > made => size'[q] = 0
    BY <1>8, <2>1 DEF IInv, OneMaker, TypeOK, Packets
  <2>5. \A q \in Packets : \A u \in Threads :
          /\ u \in holders[q] <=> packet[u] = q /\ pc'[u] \in {"write", "have"}
          /\ packet[u] = q /\ pc'[u] \in Reserving => ~Alive(q)
          /\ packet[u] = q /\ pc'[u] \in Reserving \cup {"write"} => size'[q] = 0
    BY <1>7, <2>1, <2>2, <2>3 DEF IInv, OneMaker, Reserving
  <2>. QED  BY <1>3, <2>4, <2>5 DEF IInv, OneMaker, Alive
<1>13. ChunkExclusive' /\ OneUser' /\ NoChunkLost'
  BY <1>3 DEF IInv, ChunkExclusive, OneUser, NoChunkLost
<1>14. EmptyAtReset'
  BY <1>1, <1>3 DEF IInv, TypeOK, EmptyAtReset
<1>15. InUsedPart'
  <2>. SUFFICES ASSUME NEW q \in Packets, Alive(q), size'[q] # 0
                PROVE  first[q] + size'[q] <= used'[owner[q]]
    BY <1>3 DEF InUsedPart, Alive
  <2>1. owner[q] \in Chunks /\ first[q] \in Nat /\ used[owner[q]] \in Nat
    BY DEF Alive, IInv, TypeOK
  <2>2. CASE q = p
    BY <1>1, <1>2, <1>4, <2>2 DEF IInv, TypeOK
  <2>3. CASE q # p
    <3>1. size'[q] = size[q] /\ size[q] \in Nat
      BY <1>2, <2>3 DEF IInv, TypeOK
    <3>2. first[q] + size[q] <= used[owner[q]]
      BY <3>1 DEF IInv, InUsedPart
    <3>3. used'[owner[q]] \in Nat /\ used[owner[q]] <= used'[owner[q]]
      BY <1>1, <1>2, <1>4, <2>1 DEF IInv, TypeOK
    <3>. QED  BY <2>1, <3>1, <3>2, <3>3
  <2>. QED  BY <2>2, <2>3
<1>16. ContentIntact'
  <2>. SUFFICES ASSUME NEW q \in Packets, Alive(q),
                       NEW i \in first[q] .. first[q] + size'[q] - 1
                PROVE  cells'[owner[q]][i] = q
    BY <1>3 DEF ContentIntact, Alive
  <2>1. owner[q] \in Chunks /\ first[q] \in Nat /\ used[owner[q]] \in 0 .. ChunkSize
    BY DEF Alive, IInv, TypeOK
  <2>2. CASE q = p
    <3>1. used[c] <= i /\ i < used[c] + n /\ i \in Cells
      BY <1>1, <1>2, <1>4, <2>2, Consts DEF IInv, TypeOK, Cells
    <3>2. Written(c, n, p)[i] = p
      BY <3>1 DEF Written
    <3>. QED  BY <1>1, <1>2, <2>2, <3>2 DEF IInv, TypeOK
  <2>3. CASE q # p
    <3>1. size'[q] = size[q] /\ size[q] \in Nat
      BY <1>2, <2>3 DEF IInv, TypeOK
    <3>2. cells[owner[q]][i] = q
      BY <3>1 DEF IInv, ContentIntact
    <3>3. size[q] # 0 /\ i \in Nat /\ i < first[q] + size[q]
      BY <2>1, <3>1
    <3>4. first[q] + size[q] <= used[owner[q]]
      BY <3>3 DEF IInv, InUsedPart
    <3>5. i < used[owner[q]] /\ i \in Cells
      BY <2>1, <3>1, <3>3, <3>4, Consts DEF Cells
    <3>6. owner[q] = c => Written(c, n, p)[i] = cells[c][i]
      BY <1>1, <3>5 DEF Written, Cells
    <3>. QED  BY <1>1, <1>2, <2>1, <3>2, <3>6 DEF IInv, TypeOK
  <2>. QED  BY <2>2, <2>3
<1>. QED
  BY <1>9, <1>10, <1>11, <1>12, <1>13, <1>14, <1>15, <1>16 DEF IInv

LEMMA SendIInv ==
    ASSUME IInv, NEW t \in Threads, NEW s \in Sessions, Send(t, s)
    PROVE  IInv'
<1>. DEFINE p == packet[t]
<1>1. /\ pc[t] = "have"
      /\ holders' = [holders EXCEPT ![p] = @ \cup {s}]
      /\ UNCHANGED <<pc, packet, local, got, dying, chunkVars, made, owner, first,
                     size>>
  BY DEF Send, At
<1>2. p \in Packets /\ t \in holders[p] /\ s \notin Threads
  BY <1>1, Consts DEF IInv, TypeOK, Progress, OneMaker
<1>3. TypeOK'
  BY <1>1, <1>2 DEF IInv, TypeOK, chunkVars
<1>4. OneMaker'
  BY <1>1, <1>2 DEF IInv, TypeOK, OneMaker, Alive, Reserving
<1>5. NoCrash' /\ Progress' /\ OpenedByWriter'
  BY <1>1 DEF IInv, NoCrash, Progress, OpenedByWriter, chunkVars, FreeSize
<1>6. ChunkExclusive' /\ OneUser' /\ EmptyAtReset' /\ NoChunkLost'
  BY <1>1 DEF IInv, ChunkExclusive, OneUser, EmptyAtReset, NoChunkLost, chunkVars
<1>7. InUsedPart' /\ ContentIntact'
  BY <1>1 DEF IInv, InUsedPart, ContentIntact, Alive, chunkVars
<1>. QED  BY <1>3, <1>4, <1>5, <1>6, <1>7 DEF IInv

\* What giving up a reference to a packet keeps, whatever else the thread does.
LEMMA DropRefKeeps ==
    ASSUME IInv, NEW t \in Threads, dying[t] = None,
           NEW p \in Packets, NEW x \in holders[p], DropRef(t, x, p)
    PROVE  /\ owner' \in [Packets -> Chunks \cup {None}]
           /\ dying' \in [Threads -> Chunks \cup {None}]
           /\ holders' \in [Packets -> SUBSET (Threads \cup Sessions)]
           /\ \A q \in Packets : owner'[q] \in {owner[q], None}
           /\ \A q \in Packets : owner'[q] # None <=> holders'[q] # {}
           /\ ChunkExclusive' /\ OneUser' /\ NoChunkLost'
           /\ InUsedPart' /\ ContentIntact'
<1>1. /\ holders' = [holders EXCEPT ![p] = @ \ {x}]
      /\ UNCHANGED <<local, got, chunkVars, made, first, size>>
  BY DEF DropRef
<1>2. \/ UNCHANGED <<dying, owner>> /\ holders[p] # {x}
      \/ /\ dying' = [dying EXCEPT ![t] = owner[p]] /\ holders[p] = {x}
         /\ owner' = [owner EXCEPT ![p] = None]
  BY DEF DropRef
<1>3. /\ owner' \in [Packets -> Chunks \cup {None}]
      /\ dying' \in [Threads -> Chunks \cup {None}]
      /\ holders' \in [Packets -> SUBSET (Threads \cup Sessions)]
  BY <1>1, <1>2 DEF IInv, TypeOK
<1>4. \A q \in Packets : owner'[q] \in {owner[q], None}
  BY <1>2 DEF IInv, TypeOK
<1>5. owner[p] # None
  BY DEF IInv, OneMaker, Alive
<1>6. \A q \in Packets : owner'[q] # None <=> holders'[q] # {}
  BY <1>1, <1>2, <1>5 DEF IInv, TypeOK, OneMaker, Alive
<1>7. \A u \in Threads : dying'[u] = dying[u] \/ dying'[u] = owner[p]
  BY <1>2 DEF IInv, TypeOK
<1>8. \A i \in DOMAIN pool : pool[i] # None
  BY Consts DEF IInv, TypeOK
<1>9. ChunkExclusive'
  BY <1>1, <1>4, <1>7, <1>8 DEF IInv, ChunkExclusive, chunkVars
<1>10. OneUser'
  BY <1>1, <1>4, <1>7, Consts DEF IInv, OneUser, chunkVars
<1>11. NoChunkLost'
  <2>1. \A d \in allocated : d # None
    BY Consts DEF IInv, TypeOK
  <2>2. \A d \in allocated : \A u \in Threads : d = dying[u] => d = dying'[u]
    BY <1>2, <2>1 DEF IInv, TypeOK
  <2>3. \A d \in allocated : \A q \in Packets :
           owner[q] = d => owner'[q] = d \/ dying'[t] = d
    BY <1>2, <2>1 DEF IInv, TypeOK
  <2>. QED  BY <1>1, <2>2, <2>3 DEF IInv, NoChunkLost, chunkVars
<1>12. InUsedPart' /\ ContentIntact'
  BY <1>1, <1>4 DEF IInv, InUsedPart, ContentIntact, Alive, chunkVars
<1>. QED  BY <1>3, <1>4, <1>6, <1>9, <1>10, <1>11, <1>12

LEMMA ReturnIInv ==
    ASSUME IInv, NEW t \in Threads, Return(t)
    PROVE  IInv'
<1>. DEFINE p == packet[t]
<1>1. /\ pc[t] = "have" /\ dying[t] = None
      /\ pc' = [pc EXCEPT ![t] = "run"] /\ packet' = [packet EXCEPT ![t] = 0]
      /\ DropRef(t, t, p)
  BY DEF Return, At, Go
<1>2. /\ holders' = [holders EXCEPT ![p] = @ \ {t}]
      /\ UNCHANGED <<local, got, chunkVars, made, first, size>>
  BY <1>1 DEF DropRef
<1>3. p \in Packets /\ t \in holders[p] /\ p \in Nat /\ p # 0
  BY <1>1 DEF IInv, TypeOK, Progress, OneMaker, Packets
<1>4. /\ owner' \in [Packets -> Chunks \cup {None}]
      /\ dying' \in [Threads -> Chunks \cup {None}]
      /\ holders' \in [Packets -> SUBSET (Threads \cup Sessions)]
      /\ \A q \in Packets : owner'[q] \in {owner[q], None}
      /\ \A q \in Packets : owner'[q] # None <=> holders'[q] # {}
      /\ ChunkExclusive' /\ OneUser' /\ NoChunkLost'
      /\ InUsedPart' /\ ContentIntact'
  BY <1>1, <1>3, DropRefKeeps
<1>5. TypeOK'
  BY <1>1, <1>2, <1>4 DEF IInv, TypeOK, Labels, chunkVars
<1>6. NoCrash' /\ OpenedByWriter'
  BY <1>1, <1>2 DEF IInv, TypeOK, NoCrash, OpenedByWriter, chunkVars
<1>7. \A u \in Threads \ {t} : packet'[u] = packet[u] /\ packet[u] # p /\ pc'[u] = pc[u]
  BY <1>1, <1>3 DEF IInv, OneMaker, TypeOK
<1>8. pc'[t] = "run" /\ packet'[t] = 0
  BY <1>1 DEF IInv, TypeOK
<1>9. Progress'
  <2>1. \A u \in Threads : pc[u] = "write" => owner'[packet[u]] = owner[packet[u]]
    <3>. SUFFICES ASSUME NEW u \in Threads, pc[u] = "write"
                  PROVE  owner'[packet[u]] = owner[packet[u]]
      OBVIOUS
    <3>1. packet[u] \in Packets /\ packet[u] # p
      BY <1>1, <1>7 DEF IInv, TypeOK, Progress
    <3>. QED  BY <1>1, <3>1 DEF DropRef, IInv, TypeOK
  <2>2. got[t] = None
    BY <1>1 DEF IInv, Progress
  <2>. QED  BY <1>2, <1>7, <1>8, <2>1, <2>2 DEF IInv, Progress, chunkVars, FreeSize
<1>10. OneMaker'
  <2>1. \A u \in Threads : packet'[u] \in {packet[u], 0} /\ made \in Nat
    BY <1>7, <1>8 DEF IInv, TypeOK
  <2>2. \A u \in Threads : packet'[u] <= made
    BY <2>1 DEF IInv, OneMaker
  <2>3. \A u \in Threads : \A w \in Threads \ {u} : packet'[u] # 0 => packet'[u] # packet'[w]
    BY <1>7, <1>8 DEF IInv, OneMaker
  <2>4. \A q \in Packets : q > made => owner'[q] = None
    BY <1>4 DEF IInv, OneMaker, Alive
  <2>5. \A q \in Packets : \A u \in Threads :
           u \in holders'[q] <=> u \in holders[q] /\ (u # t \/ q # p)
    BY <1>2, <1>3 DEF IInv, TypeOK
  <2>6. \A q \in Packets : q \in Nat /\ q # 0
    BY DEF Packets
  <2>7. \A q \in Packets : \A u \in Threads :
          /\ u \in holders'[q] <=> packet'[u] = q /\ pc'[u] \in {"write", "have"}
          /\ packet'[u] = q /\ pc'[u] \in Reserving => owner'[q] = None
          /\ packet'[u] = q /\ pc'[u] \in Reserving \cup {"write"} => size[q] = 0
    BY <1>4, <1>7, <1>8, <2>5, <2>6 DEF IInv, OneMaker, Alive
  <2>. QED  BY <1>2, <1>4, <2>2, <2>3, <2>4, <2>7 DEF IInv, OneMaker, Alive
<1>11. EmptyAtReset'
  BY <1>1, <1>2, <1>4, <1>7, <1>8, Consts DEF IInv, TypeOK, EmptyAtReset, Progress
<1>. QED  BY <1>4, <1>5, <1>6, <1>9, <1>10, <1>11 DEF IInv

LEMMA ClearIInv ==
    ASSUME IInv, NEW t \in Threads, NEW s \in Sessions, Clear(t, s)
    PROVE  IInv'
<1>1. PICK p \in Packets : s \in holders[p] /\ DropRef(t, s, p)
  BY DEF Clear
<1>2. /\ dying[t] = None /\ UNCHANGED <<pc, packet>> /\ s \notin Threads
  BY Consts DEF Clear, At
<1>3. /\ holders' = [holders EXCEPT ![p] = @ \ {s}]
      /\ UNCHANGED <<local, got, chunkVars, made, first, size>>
  BY <1>1 DEF DropRef
<1>4. /\ owner' \in [Packets -> Chunks \cup {None}]
      /\ dying' \in [Threads -> Chunks \cup {None}]
      /\ holders' \in [Packets -> SUBSET (Threads \cup Sessions)]
      /\ \A q \in Packets : owner'[q] \in {owner[q], None}
      /\ \A q \in Packets : owner'[q] # None <=> holders'[q] # {}
      /\ ChunkExclusive' /\ OneUser' /\ NoChunkLost'
      /\ InUsedPart' /\ ContentIntact'
  BY <1>1, <1>2, DropRefKeeps
<1>5. TypeOK'
  BY <1>2, <1>3, <1>4 DEF IInv, TypeOK, chunkVars
<1>6. NoCrash' /\ OpenedByWriter'
  BY <1>2, <1>3 DEF IInv, NoCrash, OpenedByWriter, chunkVars
<1>7. Progress'
  <2>1. \A u \in Threads : pc[u] = "write" => owner'[packet[u]] = owner[packet[u]]
    \* The maker holds its packet, so it is not the last holder who leaves.
    <3>. SUFFICES ASSUME NEW u \in Threads, pc[u] = "write"
                  PROVE  owner'[packet[u]] = owner[packet[u]]
      OBVIOUS
    <3>1. packet[u] \in Packets /\ u \in holders[packet[u]] /\ u # s
      BY <1>2 DEF IInv, TypeOK, Progress, OneMaker
    <3>. QED  BY <1>1, <3>1 DEF DropRef, IInv, TypeOK
  <2>. QED  BY <1>2, <1>3, <2>1 DEF IInv, Progress, chunkVars, FreeSize
<1>8. OneMaker'
  <2>1. \A q \in Packets : \A u \in Threads : u \in holders'[q] <=> u \in holders[q]
    BY <1>2, <1>3 DEF IInv, TypeOK
  <2>2. \A q \in Packets : owner[q] = None => owner'[q] = None
    BY <1>4
  <2>. QED  BY <1>2, <1>3, <1>4, <2>1, <2>2 DEF IInv, OneMaker, Alive
<1>9. EmptyAtReset'
  BY <1>2, <1>3, <1>4, Consts DEF IInv, TypeOK, EmptyAtReset, Progress
<1>. QED  BY <1>4, <1>5, <1>6, <1>7, <1>8, <1>9 DEF IInv

LEMMA ReleaseIInv ==
    ASSUME IInv, NEW t \in Threads, Release(t)
    PROVE  IInv'
<1>. DEFINE c == dying[t]
<1>1. /\ c # None /\ c \in Chunks
      /\ dying' = [dying EXCEPT ![t] = None]
      /\ UNCHANGED <<pc, packet, local, got, allocated, open, used, cells, packetVars>>
  BY DEF Release, IInv, TypeOK
<1>2. \/ Referenced(c, t) /\ pool' = pool
      \/ ~Referenced(c, t) /\ pool' = Append(pool, c)
  BY DEF Release
<1>3. /\ pool \in Seq(Chunks) /\ Len(pool) \in Nat /\ DOMAIN pool = 1 .. Len(pool)
      /\ \A i \in DOMAIN pool : pool[i] # c
  BY DEF IInv, TypeOK, ChunkExclusive
<1>4. /\ pool' \in Seq(Chunks) /\ DOMAIN pool \subseteq DOMAIN pool'
      /\ \A i \in DOMAIN pool : pool'[i] = pool[i]
  BY <1>1, <1>2, <1>3
<1>5. ~Referenced(c, t) =>
        /\ DOMAIN pool' = DOMAIN pool \cup {Len(pool) + 1}
        /\ pool'[Len(pool) + 1] = c
  <2>. SUFFICES ASSUME pool' = Append(pool, c)
                PROVE  /\ DOMAIN pool' = DOMAIN pool \cup {Len(pool) + 1}
                       /\ pool'[Len(pool) + 1] = c
    BY <1>2
  <2>1. Len(pool') = Len(pool) + 1 /\ DOMAIN pool' = 1 .. Len(pool')
    BY <1>1, <1>3, <1>4
  <2>2. 1 .. Len(pool) + 1 = (1 .. Len(pool)) \cup {Len(pool) + 1}
    BY <1>3
  <2>. QED  BY <1>1, <1>3, <2>1, <2>2
<1>6. \A u \in Threads : dying'[u] = IF u = t THEN None ELSE dying[u]
  BY <1>1 DEF IInv, TypeOK
<1>7. TypeOK'
  BY <1>1, <1>4 DEF IInv, TypeOK, packetVars
<1>8. NoCrash' /\ Progress' /\ OneMaker' /\ OpenedByWriter' /\ EmptyAtReset'
  BY <1>1 DEF IInv, NoCrash, Progress, OneMaker, OpenedByWriter, EmptyAtReset, Alive,
              packetVars, FreeSize
<1>9. ChunkExclusive'
  <2>1. \A i \in DOMAIN pool' : pool'[i] # None
    BY <1>7, Consts DEF TypeOK
  <2>2. CASE Referenced(c, t)
    BY <1>1, <1>2, <1>6, <2>1, <2>2 DEF IInv, ChunkExclusive, packetVars
  <2>3. CASE ~Referenced(c, t)
    <3>1. /\ \A u \in Threads : c \notin {local[u], got[u], dying'[u]}
          /\ \A p \in Packets : owner[p] # c
      BY <1>1, <1>6, <2>3 DEF Referenced
    <3>2. \A i \in DOMAIN pool' :
             \/ i \in DOMAIN pool /\ pool'[i] = pool[i] /\ pool[i] # c
             \/ i = Len(pool) + 1 /\ pool'[i] = c
      BY <1>3, <1>4, <1>5, <2>3
    <3>3. \A i, j \in DOMAIN pool' : pool'[j] = pool'[i] => j = i
      BY <3>2 DEF IInv, ChunkExclusive
    <3>4. \A i \in DOMAIN pool' : \A u \in Threads :
             pool'[i] \notin {local[u], got[u], dying'[u]}
      BY <1>6, <2>1, <3>1, <3>2 DEF IInv, ChunkExclusive
    <3>5. \A i \in DOMAIN pool' : \A p \in Packets : owner[p] # pool'[i]
      BY <3>1, <3>2 DEF IInv, ChunkExclusive
    <3>. QED
      BY <1>1, <3>3, <3>4, <3>5 DEF IInv, ChunkExclusive, packetVars
  <2>. QED  BY <2>2, <2>3
<1>10. OneUser'
  <2>1. c \in allocated
    BY <1>1 DEF IInv, OneUser
  <2>2. \A i \in DOMAIN pool' :
           \/ i \in DOMAIN pool /\ pool'[i] = pool[i]
           \/ pool'[i] = c
    BY <1>2, <1>4, <1>5
  <2>. QED  BY <1>1, <1>6, <2>1, <2>2, Consts DEF IInv, OneUser, packetVars
<1>11. NoChunkLost'
  <2>. SUFFICES ASSUME NEW d \in allocated
                PROVE  \/ \E i \in DOMAIN pool' : pool'[i] = d
                       \/ \E u \in Threads : d \in {local[u], got[u], dying'[u]}
                       \/ \E p \in Packets : owner[p] = d
    BY <1>1 DEF NoChunkLost, packetVars
  <2>1. CASE d = c /\ Referenced(c, t)
    BY <1>6, <2>1 DEF Referenced
  <2>2. CASE d = c /\ ~Referenced(c, t)
    BY <1>5, <2>2
  <2>3. CASE d # c
    BY <1>4, <1>6, <2>3 DEF IInv, NoChunkLost
  <2>. QED  BY <2>1, <2>2, <2>3
<1>12. InUsedPart' /\ ContentIntact'
  BY <1>1 DEF IInv, InUsedPart, ContentIntact, Alive, packetVars
<1>. QED  BY <1>7, <1>8, <1>9, <1>10, <1>11, <1>12 DEF IInv

LEMMA StutterIInv ==
    ASSUME IInv, UNCHANGED vars
    PROVE  IInv'
BY DEF IInv, TypeOK, NoCrash, Progress, OneMaker, OpenedByWriter, ChunkExclusive,
       OneUser, EmptyAtReset, NoChunkLost, InUsedPart, ContentIntact, Alive,
       FreeSize, vars, chunkVars, packetVars

LEMMA NextIInv == IInv /\ [Next]_vars => IInv'
<1>. SUFFICES ASSUME IInv, [Next]_vars PROVE IInv'
  OBVIOUS
<1>1. ASSUME NEW t \in Threads, Open(t) PROVE IInv'
  BY <1>1, OpenIInv
<1>2. ASSUME NEW t \in Threads, Continue(t) PROVE IInv'
  BY <1>2, PopIInv, AssignIInv, ResetIInv, ChunkOpenIInv, CloseIInv, ReturnIInv,
     ReleaseIInv, ClearIInv DEF Continue
<1>3. ASSUME NEW t \in Threads, NEW s \in Sessions, Send(t, s) PROVE IInv'
  BY <1>3, SendIInv
<1>4. CASE Rest \/ UNCHANGED vars
  BY <1>4, StutterIInv DEF Rest
<1>. QED  BY <1>1, <1>2, <1>3, <1>4 DEF Next

-----------------------------------------------------------------------------
(***************************************************************************)
(* The theorems.                                                           *)
(***************************************************************************)
\* The inductive invariant holds in every reachable state.
THEOREM Invariance == Spec => []IInv
BY InitIInv, NextIInv, PTL DEF Spec

\* Every variable keeps its type: the pool holds chunks only, and what is used of
\* a chunk never exceeds it.
THEOREM TypeCorrect == Spec => []TypeOK
<1>1. IInv => TypeOK
  BY DEF IInv
<1>. QED  BY Invariance, <1>1, PTL

\* A packet that a session may still send is never written over, however late its
\* send completes and whoever reuses the chunk.
THEOREM ContentAlwaysIntact == Spec => []ContentIntact
<1>1. IInv => ContentIntact
  BY DEF IInv
<1>. QED  BY Invariance, <1>1, PTL

\* Two threads never write to one chunk, and a chunk in the pool is nobody's.
THEOREM ChunkAlwaysExclusive == Spec => []ChunkExclusive
<1>1. IInv => ChunkExclusive
  BY DEF IInv
<1>. QED  BY Invariance, <1>1, PTL

\* A chunk always has a user or is in the pool, so that it is used again.
THEOREM NeverLosesChunk == Spec => []NoChunkLost
<1>1. IInv => NoChunkLost
  BY DEF IInv
<1>. QED  BY Invariance, <1>1, PTL

\* The assertions on _open never fail, and no Make_ function gets a nullptr from
\* SendBufferChunk::Open.
THEOREM NeverCrashes == Spec => []NoCrash
<1>1. IInv => NoCrash
  BY DEF IInv
<1>. QED  BY Invariance, <1>1, PTL
=============================================================================

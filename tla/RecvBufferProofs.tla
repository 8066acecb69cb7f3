-------------------------- MODULE RecvBufferProofs --------------------------
(***************************************************************************)
(* Proofs about RecvBuffer, for buffers, packets and streams of any size.  *)
(***************************************************************************)
EXTENDS RecvBuffer, TLAPS

\* While OnRecv parses, it never runs past the bytes received.
ParsedInBuffer == pc \in {"parse", "read"} => processLen <= DataSize

\* Outside the parsing loop less than one packet is left in the buffer, which
\* is what makes room for the next receive and keeps memcpy's regions apart.
PartialLeft == pc \notin {"parse", "overflow"} => received - boundary < size

\* Room is made by Clean and lasts until the receive it was made for.
RoomMade == pc = "register" => FreeSize >= BufferSize

IInv ==
    /\ TypeOK
    /\ NoOverflow
    /\ WindowIntact
    /\ ParsedInBuffer
    /\ PartialLeft
    /\ RoomMade
    /\ RoomToRecv

\* Three buffers at least: a partial packet, the packet that fills the rest,
\* and the room asked of Clean.
LEMMA CapacityFacts ==
    /\ BufferSize \in Nat /\ Capacity \in Nat
    /\ HeaderSize \in Nat /\ 0 < HeaderSize /\ HeaderSize < BufferSize
    /\ Capacity >= 3 * BufferSize
    /\ \A s \in PacketSizes : s \in Nat /\ HeaderSize <= s /\ s < BufferSize
<1>1. BufferSize \in Nat /\ BufferCount \in Nat /\ BufferCount >= 3
  BY RecvBufferAssumption
<1>2. Capacity \in Nat /\ Capacity >= 3 * BufferSize
  <2>1. PICK k \in Nat : BufferCount = 3 + k
    BY <1>1
  <2>2. BufferSize * k \in Nat
    BY <1>1, <2>1
  <2>3. BufferSize * BufferCount = 3 * BufferSize + BufferSize * k
    BY <1>1, <2>1
  <2>. QED  BY <1>1, <2>2, <2>3 DEF Capacity
<1>. QED  BY <1>1, <1>2, RecvBufferAssumption

\* The bytes left when OnRecv returns are what it could not parse.
LEMMA LeftInBuffer ==
    ASSUME TypeOK, WindowIntact
    PROVE  pc \notin {"parse", "read"} => received - boundary = DataSize
BY DEF TypeOK, WindowIntact, DataSize

LEMMA InitIInv == Init => IInv
BY CapacityFacts
   DEF Init, IInv, TypeOK, NoOverflow, WindowIntact, Holds, ParsedInBuffer,
       PartialLeft, RoomMade, RoomToRecv, DataSize, FreeSize, Labels

LEMMA RegisterRecvIInv ==
    ASSUME IInv, RegisterRecv PROVE IInv'
BY CapacityFacts
   DEF RegisterRecv, IInv, TypeOK, NoOverflow, WindowIntact, Holds,
       ParsedInBuffer, PartialLeft, RoomMade, RoomToRecv, DataSize, FreeSize, Labels

LEMMA ProcessRecvIInv ==
    ASSUME IInv, NEW n \in 1 .. posted, ProcessRecv(n) PROVE IInv'
<1>1. n \in Nat /\ 1 <= n /\ n <= FreeSize
  BY DEF IInv, TypeOK, RoomToRecv, ProcessRecv, FreeSize
<1>2. writePos' = writePos + n /\ pc' = "parse" /\ received' = received + n
      /\ readPos' = readPos /\ processLen' = 0 /\ boundary' = boundary /\ size' = size
  BY <1>1 DEF ProcessRecv
<1>3. TypeOK'
  BY <1>1, <1>2, CapacityFacts DEF IInv, TypeOK, ProcessRecv, FreeSize, Labels
<1>4. WindowIntact'
  <2>1. DataSize' = DataSize + n /\ received' - DataSize' = received - DataSize
    BY <1>1, <1>2 DEF IInv, TypeOK, DataSize
  <2>2. \A i \in 0 .. DataSize + n - 1 :
           buffer'[readPos + i] = (received - DataSize) + i + 1
    <3>. SUFFICES ASSUME NEW i \in 0 .. DataSize + n - 1
                  PROVE  buffer'[readPos + i] = (received - DataSize) + i + 1
      OBVIOUS
    <3>1. readPos + i \in 0 .. Capacity - 1 /\ readPos + i < writePos + n
      BY <1>1, CapacityFacts DEF IInv, TypeOK, DataSize, FreeSize
    <3>2. CASE i < DataSize
      <4>1. readPos + i < writePos
        BY <3>2 DEF IInv, TypeOK, DataSize
      <4>2. buffer'[readPos + i] = buffer[readPos + i]
        BY <3>1, <4>1, CapacityFacts DEF ProcessRecv, IInv, TypeOK
      <4>3. i \in 0 .. DataSize - 1
        BY <3>2 DEF IInv, TypeOK, DataSize
      <4>. QED  BY <4>2, <4>3 DEF IInv, WindowIntact, Holds
    <3>3. CASE i >= DataSize
      <4>1. readPos + i >= writePos
        BY <3>3 DEF IInv, TypeOK, DataSize
      <4>2. buffer'[readPos + i] = received + ((readPos + i) - writePos) + 1
        BY <3>1, <4>1, CapacityFacts DEF ProcessRecv, IInv, TypeOK
      <4>. QED  BY <4>2, <3>1 DEF IInv, TypeOK, DataSize
    <3>. QED  BY <3>2, <3>3, <1>1 DEF IInv, TypeOK, DataSize
  <2>3. pc = "posted"
    BY DEF ProcessRecv
  <2>4. boundary = received - DataSize
    BY <2>3 DEF IInv, TypeOK, WindowIntact, DataSize
  <2>5. boundary' = (received' - DataSize') + processLen'
    BY <1>2, <2>1, <2>4 DEF IInv, TypeOK, DataSize
  <2>6. \A i \in 0 .. DataSize' - 1 :
           buffer'[readPos' + i] = (received' - DataSize') + i + 1
    BY <1>1, <1>2, <2>1, <2>2 DEF DataSize, IInv, TypeOK
  <2>. QED  BY <1>2, <2>5, <2>6 DEF WindowIntact, Holds, DataSize
<1>5. (NoOverflow /\ ParsedInBuffer /\ PartialLeft /\ RoomMade /\ RoomToRecv)'
  BY <1>1, <1>2 DEF IInv, TypeOK, NoOverflow, ParsedInBuffer, PartialLeft, RoomMade,
                    RoomToRecv, DataSize
<1>. QED  BY <1>3, <1>4, <1>5 DEF IInv

\* In the parsing loop the header of the next packet, if there is one, is read
\* where the packet begins.
LEMMA HeaderInPlace ==
    ASSUME IInv, pc = "parse", NEW n \in Nat, n <= DataSize - processLen
    PROVE  Holds(readPos + processLen, n, boundary)
<1>. SUFFICES ASSUME NEW i \in 0 .. n - 1
              PROVE  buffer[readPos + processLen + i] = boundary + i + 1
  BY DEF Holds
<1>1. processLen + i \in 0 .. DataSize - 1
  BY DEF IInv, TypeOK, DataSize
<1>2. buffer[readPos + (processLen + i)] = (received - DataSize) + (processLen + i) + 1
  BY <1>1 DEF IInv, WindowIntact, Holds
<1>3. boundary = (received - DataSize) + processLen
  BY DEF IInv, WindowIntact
<1>4. readPos + (processLen + i) = readPos + processLen + i
  BY DEF IInv, TypeOK
<1>. QED  BY <1>2, <1>3, <1>4 DEF IInv, TypeOK, DataSize

\* The two ways a round of the loop can end.
LEMMA OnRecvStep ==
    ASSUME IInv, OnRecv
    PROVE  \/ /\ pc' = "read" /\ received - boundary < size
              /\ UNCHANGED <<buffer, readPos, writePos, posted, received,
                             processLen, boundary, size>>
           \/ /\ size <= DataSize - processLen
              /\ processLen' = processLen + size /\ boundary' = boundary + size
              /\ size' \in PacketSizes
              /\ UNCHANGED <<buffer, readPos, writePos, posted, received, pc>>
<1>. USE DEF OnRecv
<1>1. size \in Nat /\ HeaderSize <= size /\ HeaderSize \in Nat
  BY CapacityFacts DEF IInv, TypeOK
<1>2. received - boundary = DataSize - processLen
  BY DEF IInv, TypeOK, WindowIntact, DataSize
<1>3. CASE DataSize - processLen < HeaderSize
  <2>1. received - boundary < size
    BY <1>1, <1>2, <1>3 DEF IInv, TypeOK, DataSize
  <2>. QED  BY <1>3, <2>1
<1>4. CASE ~(DataSize - processLen < HeaderSize)
  <2>1. Holds(readPos + processLen, HeaderSize, boundary)
    <3>1. HeaderSize <= DataSize - processLen
      BY <1>1, <1>4 DEF IInv, TypeOK, DataSize
    <3>. QED  BY <1>1, <3>1, HeaderInPlace
  <2>2. \/ DataSize - processLen < size /\ pc' = "read"
           /\ UNCHANGED <<processLen, boundary, size>>
        \/ /\ ~(DataSize - processLen < size)
           /\ processLen' = processLen + size /\ boundary' = boundary + size
           /\ size' \in PacketSizes /\ UNCHANGED pc
    BY <1>4, <2>1
  <2>. QED  BY <1>1, <1>2, <2>2 DEF IInv, TypeOK, DataSize
<1>. QED  BY <1>3, <1>4

LEMMA OnRecvIInv ==
    ASSUME IInv, OnRecv PROVE IInv'
<1>. USE DEF IInv, TypeOK, NoOverflow, WindowIntact, Holds, ParsedInBuffer,
             PartialLeft, RoomMade, RoomToRecv, DataSize, FreeSize, Labels
<1>0. pc = "parse"
  BY DEF OnRecv
<1>1. CASE pc' = "read" /\ received - boundary < size
           /\ UNCHANGED <<buffer, readPos, writePos, posted, received,
                          processLen, boundary, size>>
  BY <1>0, <1>1 DEF Capacity
<1>2. CASE /\ size <= DataSize - processLen
           /\ processLen' = processLen + size /\ boundary' = boundary + size
           /\ size' \in PacketSizes
           /\ UNCHANGED <<buffer, readPos, writePos, posted, received, pc>>
  <2>1. size \in Nat
    BY CapacityFacts
  <2>. QED  BY <1>0, <1>2, <2>1 DEF Capacity
<1>. QED  BY <1>1, <1>2, OnRecvStep

LEMMA OnReadIInv ==
    ASSUME IInv, OnRead PROVE IInv'
<1>1. pc = "read" /\ processLen <= DataSize
  BY DEF OnRead, IInv, ParsedInBuffer
<1>2. /\ readPos' = readPos + processLen /\ pc' = "clean"
      /\ UNCHANGED <<buffer, writePos, posted, processLen, received, boundary, size>>
  BY <1>1 DEF OnRead
<1>3. DataSize' = DataSize - processLen
  BY <1>2 DEF IInv, TypeOK, DataSize
<1>4. TypeOK'
  BY <1>1, <1>2 DEF IInv, TypeOK, DataSize, Labels, Capacity
<1>5. WindowIntact'
  <2>1. \A i \in 0 .. DataSize' - 1 :
           buffer[readPos + processLen + i] = (received - DataSize') + i + 1
    <3>. SUFFICES ASSUME NEW i \in 0 .. DataSize' - 1
                  PROVE  buffer[readPos + processLen + i] = (received - DataSize') + i + 1
      OBVIOUS
    <3>1. processLen + i \in 0 .. DataSize - 1
      BY <1>3 DEF IInv, TypeOK, DataSize
    <3>2. buffer[readPos + (processLen + i)] = (received - DataSize) + (processLen + i) + 1
      BY <3>1 DEF IInv, WindowIntact, Holds
    <3>3. readPos + (processLen + i) = readPos + processLen + i
      BY DEF IInv, TypeOK
    <3>. QED  BY <1>3, <3>2, <3>3 DEF IInv, TypeOK, DataSize
  <2>2. boundary = (received - DataSize) + processLen
    BY <1>1 DEF IInv, WindowIntact
  <2>3. boundary' = received' - DataSize'
    BY <1>2, <1>3, <2>2 DEF IInv, TypeOK, DataSize
  <2>. QED  BY <1>2, <2>1, <2>3 DEF WindowIntact, Holds, IInv, TypeOK, DataSize
<1>6. (NoOverflow /\ ParsedInBuffer /\ PartialLeft /\ RoomMade /\ RoomToRecv)'
  BY <1>1, <1>2 DEF IInv, NoOverflow, ParsedInBuffer, PartialLeft, RoomMade, RoomToRecv
<1>. QED  BY <1>4, <1>5, <1>6 DEF IInv

\* Before Clean, less than one packet is left.
LEMMA CleanHasPartial ==
    ASSUME IInv, pc = "clean"
    PROVE  DataSize \in Nat /\ DataSize < BufferSize
<1>1. received - boundary = DataSize
  BY LeftInBuffer DEF IInv
<1>2. received - boundary < size
  BY DEF IInv, PartialLeft
<1>3. size \in Nat /\ size < BufferSize
  BY CapacityFacts DEF IInv, TypeOK
<1>. QED  BY <1>1, <1>2, <1>3, CapacityFacts DEF IInv, TypeOK, DataSize

\* So when little room is left, the cursors are far from the front.
LEMMA CleanIsDisjoint ==
    ASSUME IInv PROVE CleanDisjoint
<1>. SUFFICES ASSUME pc = "clean", FreeSize < BufferSize PROVE DataSize <= readPos
  BY DEF CleanDisjoint
<1>1. DataSize \in Nat /\ DataSize < BufferSize
  BY CleanHasPartial
<1>. QED  BY <1>1, CapacityFacts DEF IInv, TypeOK, DataSize, FreeSize

LEMMA CleanIInv ==
    ASSUME IInv, Clean PROVE IInv'
<1>1. pc = "clean" /\ pc' = "register"
      /\ UNCHANGED <<posted, processLen, received, boundary, size>>
  BY DEF Clean
<1>2. DataSize \in Nat /\ DataSize < BufferSize
  BY <1>1, CleanHasPartial
<1>3. boundary = received - DataSize
  BY <1>1 DEF IInv, WindowIntact, TypeOK, DataSize
<1>4. received - boundary < size
  BY <1>1 DEF IInv, PartialLeft
<1>5. CASE DataSize = 0 /\ readPos' = 0 /\ writePos' = 0 /\ UNCHANGED buffer
  <2>1. TypeOK' /\ DataSize' = 0 /\ FreeSize' >= BufferSize
    BY <1>1, <1>5, CapacityFacts DEF IInv, TypeOK, DataSize, FreeSize, Labels
  <2>2. WindowIntact'
    BY <1>1, <1>3, <1>5, <2>1 DEF WindowIntact, Holds, IInv, TypeOK, DataSize
  <2>. QED  BY <1>1, <1>4, <2>1, <2>2
            DEF IInv, NoOverflow, ParsedInBuffer, PartialLeft, RoomMade, RoomToRecv
<1>6. CASE /\ DataSize # 0 /\ FreeSize < BufferSize
           /\ MoveToFront(readPos, DataSize)
           /\ readPos' = 0
           /\ writePos' = DataSize
  <2>1. DataSize <= readPos
    BY <1>1, <1>6, CleanIsDisjoint DEF CleanDisjoint
  <2>2. DataSize' = DataSize
    BY <1>2, <1>6 DEF DataSize
  <2>3. FreeSize' >= BufferSize
    BY <1>2, <1>6, CapacityFacts DEF FreeSize
  <2>4. TypeOK'
    <3>1. buffer' \in [0 .. Capacity - 1 -> Nat]
      <4>. SUFFICES ASSUME NEW i \in 0 .. Capacity - 1, i < DataSize
                    PROVE  buffer[readPos + i] \in Nat
        BY <1>2, <1>6, <2>1 DEF MoveToFront, IInv, TypeOK
      <4>1. readPos + i \in 0 .. Capacity - 1
        BY <1>2, CapacityFacts DEF IInv, TypeOK, DataSize
      <4>. QED  BY <4>1 DEF IInv, TypeOK
    <3>2. DataSize <= Capacity
      BY <1>2, CapacityFacts
    <3>. QED  BY <1>1, <1>2, <1>6, <3>1, <3>2 DEF IInv, TypeOK, Labels, Capacity
  <2>5. WindowIntact'
    <3>1. \A i \in 0 .. DataSize' - 1 :
             buffer'[readPos' + i] = (received' - DataSize') + i + 1
      <4>. SUFFICES ASSUME NEW i \in 0 .. DataSize - 1
                    PROVE  buffer'[i] = (received - DataSize) + i + 1
        BY <1>1, <1>2, <1>6, <2>2 DEF IInv, TypeOK
      <4>1. i \in 0 .. Capacity - 1
        BY <1>2, CapacityFacts
      <4>2. buffer'[i] = buffer[readPos + i]
        BY <1>2, <1>6, <2>1, <4>1 DEF MoveToFront
      <4>. QED  BY <4>2 DEF IInv, WindowIntact, Holds
    <3>2. boundary' = (received' - DataSize')
                        + (IF pc' \in {"parse", "read"} THEN processLen' ELSE 0)
      BY <1>1, <1>2, <1>3, <2>2 DEF IInv, TypeOK
    <3>. QED  BY <3>1, <3>2 DEF WindowIntact, Holds, DataSize
  <2>. QED  BY <1>1, <1>4, <2>3, <2>4, <2>5
            DEF IInv, NoOverflow, ParsedInBuffer, PartialLeft, RoomMade, RoomToRecv
<1>7. CASE /\ DataSize # 0 /\ FreeSize >= BufferSize
           /\ UNCHANGED <<buffer, readPos, writePos>>
  BY <1>1, <1>3, <1>4, <1>7, CapacityFacts
     DEF IInv, TypeOK, WindowIntact, Holds, DataSize, FreeSize, Labels, NoOverflow,
         ParsedInBuffer, PartialLeft, RoomMade, RoomToRecv
<1>. QED  BY <1>5, <1>6, <1>7 DEF Clean

LEMMA NextIInv == IInv /\ [Next]_vars => IInv'
<1>. SUFFICES ASSUME IInv, [Next]_vars PROVE IInv'
  OBVIOUS
<1>1. CASE RegisterRecv
  BY <1>1, RegisterRecvIInv
<1>2. CASE OnRecv
  BY <1>2, OnRecvIInv
<1>3. CASE OnRead
  BY <1>3, OnReadIInv
<1>4. CASE Clean
  BY <1>4, CleanIInv
<1>5. CASE \E n \in 1 .. posted : ProcessRecv(n)
  BY <1>5, ProcessRecvIInv
<1>6. CASE UNCHANGED vars
  BY <1>6
     DEF vars, IInv, TypeOK, NoOverflow, WindowIntact, Holds, ParsedInBuffer,
         PartialLeft, RoomMade, RoomToRecv, DataSize, FreeSize
<1>. QED  BY <1>1, <1>2, <1>3, <1>4, <1>5, <1>6 DEF Next, Stop

\* The invariant everything below rests on (RecvBuffer.cpp, Session.cpp 239-268).
THEOREM Invariance == Spec => []IInv
<1>1. Init => IInv
  BY InitIInv
<1>2. IInv /\ [Next]_vars => IInv'
  BY NextIInv
<1>. QED  BY <1>1, <1>2, PTL DEF Spec

\* The cursors stay ordered and inside the buffer (_readPos, _writePos).
THEOREM TypeCorrect == Spec => []TypeOK
<1>1. IInv => TypeOK
  BY DEF IInv
<1>. QED  BY <1>1, Invariance, PTL

\* The overflow branches of ProcessRecv are dead code for a peer that writes
\* headers no shorter than the header itself.
THEOREM NeverOverflows == Spec => []NoOverflow
<1>1. IInv => NoOverflow
  BY DEF IInv
<1>. QED  BY <1>1, Invariance, PTL

\* No WSARecv is posted with less than a buffer of room (RegisterRecv).
THEOREM AlwaysRoomToRecv == Spec => []RoomToRecv
<1>1. IInv => RoomToRecv
  BY DEF IInv
<1>. QED  BY <1>1, Invariance, PTL

\* The memcpy of RecvBuffer::Clean never has overlapping regions, because the
\* buffer is at least three times the largest packet.
THEOREM CleanNeverOverlaps == Spec => []CleanDisjoint
<1>1. IInv => CleanDisjoint
  BY CleanIsDisjoint
<1>. QED  BY <1>1, Invariance, PTL

\* The bytes between the cursors are the unread end of the stream and parsing
\* starts at a packet boundary.
THEOREM WindowAlwaysIntact == Spec => []WindowIntact
<1>1. IInv => WindowIntact
  BY DEF IInv
<1>. QED  BY <1>1, Invariance, PTL

\* Every packet that has arrived whole is handed over before the next WSARecv.
THEOREM NothingWaitsUnparsed == Spec => []NothingLeftUnparsed
<1>1. IInv => NothingLeftUnparsed
  BY DEF IInv, PartialLeft, NothingLeftUnparsed
<1>. QED  BY <1>1, Invariance, PTL

\* OnRecvPacket only ever sees whole packets, in the order of the stream.
THEOREM AlwaysDeliveredWhole == Spec => DeliveredWhole
<1>1. IInv /\ [Next]_vars =>
        [boundary' # boundary =>
            boundary' = boundary + size
              /\ Holds(readPos + processLen, size, boundary)]_vars
  <2>. SUFFICES ASSUME IInv, Next, boundary' # boundary
                PROVE  boundary' = boundary + size
                         /\ Holds(readPos + processLen, size, boundary)
    BY DEF vars
  <2>1. OnRecv
    BY DEF Next, RegisterRecv, ProcessRecv, OnRead, Clean, Stop, vars
  <2>2. size \in Nat /\ size <= DataSize - processLen /\ boundary' = boundary + size
    BY <2>1, OnRecvStep, CapacityFacts DEF IInv, TypeOK
  <2>3. pc = "parse"
    BY <2>1 DEF OnRecv
  <2>. QED  BY <2>2, <2>3, HeaderInPlace
<1>. QED  BY <1>1, Invariance, PTL DEF Spec, DeliveredWhole
=============================================================================

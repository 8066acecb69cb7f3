----------------------------- MODULE RecvBuffer -----------------------------
(***************************************************************************)
(* The receive path of one session, byte by byte: RecvBuffer, the parsing  *)
(* loop of PacketSession::OnRecv, and the part of Session::ProcessRecv and *)
(* RegisterRecv that ties them to WSARecv.  One thread at a time runs it   *)
(* (RecvBufferExclusive of module Session).                                *)
(*                                                                         *)
(* The bytes of the TCP stream are numbered from 1; a cell of the buffer   *)
(* holds the number of its byte, 0 when it holds none of the stream.  The  *)
(* stream is a sequence of packets; the size in the header of the packet   *)
(* that begins after byte "boundary" is "size".                            *)
(***************************************************************************)
EXTENDS Integers

CONSTANTS
    BufferSize,     \* Session::BUFFER_SIZE, 0x10000
    BufferCount,    \* RecvBuffer::BUFFER_COUNT, 10
    HeaderSize,     \* sizeof(PacketHeader), 4
    PacketSizes,    \* sizes the peer writes into headers (uint16)
    MaxBytes        \* bound on the bytes received

ASSUME RecvBufferAssumption ==
    /\ BufferSize \in Nat
    /\ BufferCount \in Nat /\ BufferCount >= 3
    /\ HeaderSize \in Nat \ {0}
    /\ HeaderSize < BufferSize
    /\ PacketSizes \subseteq HeaderSize .. (BufferSize - 1)
    /\ PacketSizes # {}
    /\ MaxBytes \in Nat

VARIABLES
    buffer,              \* _buffer
    readPos, writePos,   \* _readPos, _writePos
    posted,              \* wsaBuf.len of the outstanding WSARecv
    pc,                  \* statement of ProcessRecv the thread is at
    processLen,          \* processLen of OnRecv
    received,            \* bytes of the stream received
    boundary, size       \* bytes in the packets delivered; the next one's size

vars == <<buffer, readPos, writePos, posted, pc, processLen, received,
          boundary, size>>

Capacity == BufferSize * BufferCount

DataSize == writePos - readPos
FreeSize == Capacity - writePos

Labels == {"register", "posted", "parse", "read", "clean", "overflow"}

\* The types, and the cursors never cross nor leave the buffer.
TypeOK ==
    /\ buffer \in [0 .. Capacity - 1 -> Nat]
    /\ readPos \in Nat /\ writePos \in Nat
    /\ readPos <= writePos /\ writePos <= Capacity
    /\ posted \in 0 .. Capacity
    /\ pc \in Labels
    /\ processLen \in Nat
    /\ received \in Nat
    /\ boundary \in Nat
    /\ size \in PacketSizes

Init ==
    /\ buffer = [i \in 0 .. Capacity - 1 |-> 0]
    /\ readPos = 0
    /\ writePos = 0
    /\ posted = 0
    /\ pc = "register"
    /\ processLen = 0
    /\ received = 0
    /\ boundary = 0
    /\ size \in PacketSizes

\* The n cells from position p hold the n stream bytes after byte b.
Holds(p, n, b) == \A i \in 0 .. n - 1 : buffer[p + i] = b + i + 1

-----------------------------------------------------------------------------
RegisterRecv ==
    /\ pc = "register"
    /\ posted' = FreeSize
    /\ pc' = "posted"
    /\ UNCHANGED <<buffer, readPos, writePos, processLen, received, boundary, size>>

\* The WSARecv completes with n bytes: the kernel has written them at WritePos,
\* within the length posted, and OnWrite moves the cursor if they fit.
ProcessRecv(n) ==
    /\ pc = "posted"
    /\ n <= posted
    /\ received + n <= MaxBytes
    /\ received' = received + n
    /\ buffer' = [i \in 0 .. Capacity - 1 |->
                    IF i >= writePos /\ i < writePos + n
                    THEN received + (i - writePos) + 1 ELSE buffer[i]]
    /\ IF n <= FreeSize
       THEN writePos' = writePos + n /\ pc' = "parse"
       ELSE pc' = "overflow" /\ UNCHANGED writePos
    /\ processLen' = 0
    /\ UNCHANGED <<readPos, posted, boundary, size>>

\* Faulty variant: the loop stops after one packet.
OnRecv_OnePacket ==
    /\ pc = "parse"
    /\ IF DataSize - processLen < HeaderSize
       THEN pc' = "read" /\ UNCHANGED <<processLen, boundary, size>>
       ELSE \E header \in IF Holds(readPos + processLen, HeaderSize, boundary)
                          THEN {size} ELSE 0 .. BufferSize - 1 :
              IF DataSize - processLen < header
              THEN pc' = "read" /\ UNCHANGED <<processLen, boundary, size>>
              ELSE /\ processLen' = processLen + header
                   /\ boundary' = boundary + header
                   /\ size' \in PacketSizes
                   /\ pc' = "read"
    /\ UNCHANGED <<buffer, readPos, writePos, posted, received>>

\* Faulty variant: a packet is delivered once its header has arrived.
OnRecv_NoSizeTest ==
    /\ pc = "parse"
    /\ IF DataSize - processLen < HeaderSize
       THEN pc' = "read" /\ UNCHANGED <<processLen, boundary, size>>
       ELSE /\ processLen' = processLen + size
            /\ boundary' = boundary + size
            /\ size' \in PacketSizes
            /\ UNCHANGED pc
    /\ UNCHANGED <<buffer, readPos, writePos, posted, received>>

\* One round of OnRecv's loop, on the header at ReadPos() + processLen: it says
\* "size" where a packet of the stream begins, anything where none does.
OnRecv ==
    /\ pc = "parse"
    /\ IF DataSize - processLen < HeaderSize
       THEN pc' = "read" /\ UNCHANGED <<processLen, boundary, size>>
       ELSE \E header \in IF Holds(readPos + processLen, HeaderSize, boundary)
                          THEN {size} ELSE 0 .. BufferSize - 1 :
              IF DataSize - processLen < header
              THEN pc' = "read" /\ UNCHANGED <<processLen, boundary, size>>
              ELSE /\ processLen' = processLen + header
                   /\ boundary' = boundary + header
                   /\ size' \in PacketSizes
                   /\ UNCHANGED pc
    /\ UNCHANGED <<buffer, readPos, writePos, posted, received>>

OnRead ==
    /\ pc = "read"
    /\ IF processLen <= DataSize
       THEN readPos' = readPos + processLen /\ pc' = "clean"
       ELSE pc' = "overflow" /\ UNCHANGED readPos
    /\ UNCHANGED <<buffer, writePos, posted, processLen, received, boundary, size>>

\* memcpy of n cells from position p to the front: regions that overlap are
\* undefined behaviour, for which the cells stand at 0.
MoveToFront(p, n) ==
    buffer' = [i \in 0 .. Capacity - 1 |->
                 IF i >= n THEN buffer[i]
                 ELSE IF n <= p THEN buffer[p + i] ELSE 0]

\* Faulty variant: the cursors move without the bytes.
Clean_NoCopy ==
    /\ pc = "clean"
    /\ \/ DataSize = 0 /\ readPos' = 0 /\ writePos' = 0 /\ UNCHANGED buffer
       \/ /\ DataSize # 0 /\ FreeSize < BufferSize
          /\ UNCHANGED buffer
          /\ readPos' = 0
          /\ writePos' = DataSize
       \/ DataSize # 0 /\ FreeSize >= BufferSize /\ UNCHANGED <<buffer, readPos, writePos>>
    /\ pc' = "register"
    /\ UNCHANGED <<posted, processLen, received, boundary, size>>

\* Faulty variant: the rest of a packet is never moved to the front.
Clean_NeverMoves ==
    /\ pc = "clean"
    /\ \/ DataSize = 0 /\ readPos' = 0 /\ writePos' = 0
       \/ DataSize # 0 /\ UNCHANGED <<readPos, writePos>>
    /\ pc' = "register"
    /\ UNCHANGED <<buffer, posted, processLen, received, boundary, size>>

Clean ==
    /\ pc = "clean"
    /\ \/ DataSize = 0 /\ readPos' = 0 /\ writePos' = 0 /\ UNCHANGED buffer
       \/ /\ DataSize # 0 /\ FreeSize < BufferSize
          /\ MoveToFront(readPos, DataSize)
          /\ readPos' = 0
          /\ writePos' = DataSize
       \/ DataSize # 0 /\ FreeSize >= BufferSize /\ UNCHANGED <<buffer, readPos, writePos>>
    /\ pc' = "register"
    /\ UNCHANGED <<posted, processLen, received, boundary, size>>

\* The bound on the stream is reached, or the session was disconnected.
Stop == pc \in {"posted", "overflow"} /\ UNCHANGED vars

Next ==
    \/ RegisterRecv \/ OnRecv \/ OnRead \/ Clean \/ Stop
    \/ \E n \in 1 .. posted : ProcessRecv(n)

Spec == Init /\ [][Next]_vars

-----------------------------------------------------------------------------
(***************************************************************************)
(* Properties.                                                             *)
(***************************************************************************)
\* ProcessRecv never disconnects with "OnWrite Overflow" or "OnRead Overflow".
NoOverflow == pc # "overflow"

\* Every WSARecv is posted with room for a whole packet, never with no room at
\* all: a receive of 0 bytes would be taken for the end of the connection.
RoomToRecv == pc = "posted" => posted >= BufferSize /\ posted = FreeSize

\* When Clean moves the rest of a packet to the front of the buffer, the two
\* regions of its memcpy do not overlap.
CleanDisjoint ==
    pc = "clean" /\ FreeSize < BufferSize => DataSize <= readPos

\* The cells between the cursors are the last bytes of the stream, in order,
\* and the parsing loop is at the first byte of a packet: no cut or repeated
\* packet, whatever the splits of the stream and the moves of Clean.
WindowIntact ==
    /\ Holds(readPos, DataSize, received - DataSize)
    /\ boundary = received - DataSize + (IF pc \in {"parse", "read"} THEN processLen ELSE 0)

\* A session never waits for more bytes with a whole packet still undelivered.
NothingLeftUnparsed ==
    pc = "posted" => received - boundary < size

\* A packet is handed to OnRecvPacket only whole: its bytes, all of them, are
\* the cells it is given, and the next packet begins where it ends.
DeliveredWhole ==
    [][boundary' # boundary =>
          /\ boundary' = boundary + size
          /\ Holds(readPos + processLen, size, boundary)]_vars
=============================================================================

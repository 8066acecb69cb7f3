------------------------------ MODULE Packets ------------------------------
(***************************************************************************)
(* The packets of the chat, byte by byte: BufferWriter writes them field   *)
(* after field into the open part of a SendBufferChunk, and the handlers   *)
(* read them through packed structs laid over the received bytes.          *)
(*                                                                         *)
(* Bytes are numbers, offsets start at 0, numbers have up to 64 bits and   *)
(* are little-endian.  A std::string is written as the object it is (MSVC, *)
(* x64, Release): 16 characters in place, then its size and its capacity.  *)
(* Up to 15 characters are held in place; a longer string holds an         *)
(* address, which no text of either program does.                          *)
(***************************************************************************)
EXTENDS Naturals, Sequences

\* The ids of ClientPacketHandler.h and ServerPacketHandler.h.
S_TEST == 1
C_TEST == 2
S_LOGIN == 3
C_LOGIN == 4
S_CHAT == 5
C_CHAT == 6

HeaderSize == 4         \* PacketHeader: uint16 size, uint16 id
ItemSize == 12          \* BuffData: uint64 buffId, float remainTime
InPlace == 15           \* capacity of a string that holds its text in place
StringSize == 32

\* Numbers of 64 bits: below 2^64, which the square of 2^24 and 2^16 make up.
Uint64 == {v \in Nat : (v \div 16777216) \div 16777216 < 65536}

\* What stands for a string whose bytes are no text held in place.
Wild == <<0>>

-----------------------------------------------------------------------------
(***************************************************************************)
(* Numbers and strings as bytes.                                           *)
(***************************************************************************)
Digits(v) ==
    LET v2 == v \div 256    v3 == v2 \div 256    v4 == v3 \div 256
        v5 == v4 \div 256   v6 == v5 \div 256    v7 == v6 \div 256
        v8 == v7 \div 256
    IN  <<v % 256, v2 % 256, v3 % 256, v4 % 256,
          v5 % 256, v6 % 256, v7 % 256, v8 % 256>>

Bytes(v, width) == [k \in 1 .. width |-> Digits(v)[k]]

StringBytes(text) ==
    [k \in 1 .. StringSize |->
        CASE k <= Len(text) -> text[k]
          [] k = 17 -> Len(text)
          [] k = 25 -> InPlace
          [] OTHER -> 0]

\* The byte at offset pos; what follows the packet is of no use to its reader.
ByteAt(bytes, pos) == IF pos < Len(bytes) THEN bytes[pos + 1] ELSE 255

Slice(bytes, pos, width) == [k \in 1 .. width |-> ByteAt(bytes, pos + k - 1)]

Number(bytes, pos, width) ==
    LET b(k) == IF k <= width THEN ByteAt(bytes, pos + k - 1) ELSE 0
    IN  b(1) + 256 * (b(2) + 256 * (b(3) + 256 * (b(4)
             + 256 * (b(5) + 256 * (b(6) + 256 * (b(7) + 256 * b(8)))))))

\* The eight bytes at pos are a number that a string in place may have as its
\* size or its capacity.
Small(bytes, pos) ==
    /\ ByteAt(bytes, pos) <= InPlace
    /\ \A k \in 1 .. 7 : ByteAt(bytes, pos + k) = 0

Text(bytes, pos) ==
    IF Small(bytes, pos + 16) /\ Small(bytes, pos + 24)
    THEN Slice(bytes, pos, ByteAt(bytes, pos + 16))
    ELSE Wild

-----------------------------------------------------------------------------
(***************************************************************************)
(* BufferWriter over the open part of a chunk, which begins at base and is *)
(* size bytes long.  "sound" tells that nothing was destroyed so far.      *)
(***************************************************************************)
Writer(bytes, base, size) ==
    [buffer |-> bytes, base |-> base, size |-> size, pos |-> 0, sound |-> TRUE]

\* Store bytes at offset pos of the open part; outside it, they fall on
\* memory of somebody else.
Store(bw, pos, b) ==
    LET from == bw.base + pos
        into(i) == i > from /\ i <= from + Len(b)
    IN  [bw EXCEPT
            !.buffer = [i \in 1 .. Len(@) |-> IF into(i) THEN b[i - from] ELSE @[i]],
            !.sound = @ /\ pos + Len(b) <= bw.size]

\* Reserve returns nullptr, through which the makers then write, when it fails.
Reserve(bw, n) ==
    [bw EXCEPT !.pos = @ + n, !.sound = @ /\ bw.size - bw.pos >= n]

\* operator<<: assigns to the object at the position, without a look at size.
PutNumber(bw, v, width) ==
    [Store(bw, bw.pos, Bytes(v, width)) EXCEPT !.pos = @ + width]

\* operator<< for a string assigns to whatever string the bytes there make up:
\* one whose capacity exceeds that in place releases the memory it points to.
PutString(bw, text) ==
    [Store(bw, bw.pos, StringBytes(text)) EXCEPT
        !.pos = @ + StringSize,
        !.sound = @ /\ Small(bw.buffer, bw.base + bw.pos + 24)]

\* The loop that writes the items of a list: buffId and remainTime of each buff, one
\* behind the other.
BuffsBytes(buffs) ==
    [k \in 1 .. ItemSize * Len(buffs) |->
        LET buff == buffs[((k - 1) \div ItemSize) + 1]
            j == ((k - 1) % ItemSize) + 1
        IN  IF j <= 8 THEN Digits(buff[1])[j] ELSE Digits(buff[2])[j - 8]]

PutBuffs(bw, buffs) ==
    [Store(bw, bw.pos, BuffsBytes(buffs)) EXCEPT !.pos = @ + ItemSize * Len(buffs)]

\* The end of every maker: the header is filled in, and Close is told how much
\* was written.
Finish(bw, id) ==
    Store(Store(bw, 0, Bytes(bw.pos % 65536, 2)), 2, Bytes(id, 2))

-----------------------------------------------------------------------------
(***************************************************************************)
(* The makers, from a writer to the writer that wrote the packet.          *)
(***************************************************************************)
\* The fields of both test packets.  A buff is a pair of its number and the
\* bits of its time.
MakeTest(bw, id, hp, attack, buffs, name) ==
    LET fixed == PutString(PutNumber(PutNumber(PutNumber(
                     Reserve(bw, HeaderSize), id, 8), hp, 4), attack, 2), name)
        list == Reserve(fixed, 4)
        counted == Store(Store(list, fixed.pos, Bytes(list.pos, 2)),
                         fixed.pos + 2, Bytes(Len(buffs), 2))
    IN  PutBuffs(counted, buffs)

Make_S_TEST(bw, id, hp, attack, buffs, name) ==
    Finish(MakeTest(bw, id, hp, attack, buffs, name), S_TEST)

Make_C_TEST(bw, id, hp, attack, buffs, name) ==
    Finish(MakeTest(bw, id, hp, attack, buffs, name), C_TEST)

Make_S_LOGIN(bw, id) ==
    Finish(PutNumber(Reserve(bw, HeaderSize), id, 8), S_LOGIN)

Make_C_LOGIN(bw) == Finish(Reserve(bw, HeaderSize), C_LOGIN)

\* Faulty variant: the fields in the other order.
Make_S_CHAT_Swapped(bw, id, msg) ==
    Finish(PutString(PutNumber(Reserve(bw, HeaderSize), id, 8), msg), S_CHAT)

Make_S_CHAT(bw, id, msg) ==
    Finish(PutNumber(PutString(Reserve(bw, HeaderSize), msg), id, 8), S_CHAT)

Make_C_CHAT(bw, msg) ==
    Finish(PutNumber(PutString(Reserve(bw, HeaderSize), msg), 0, 2), C_CHAT)

\* The packet as it goes out: SendBuffer's first WriteSize bytes.
Packet(bw) == SubSeq(bw.buffer, bw.base + 1, bw.base + bw.pos)

-----------------------------------------------------------------------------
(***************************************************************************)
(* The structs laid over received packets.                                 *)
(***************************************************************************)
Header(pkt) == [size |-> Number(pkt, 0, 2), id |-> Number(pkt, 2, 2)]

\* PKT_C_TEST and PKT_S_TEST are the same struct.
PKT_TEST(pkt) ==
    [packetSize |-> Number(pkt, 0, 2), id |-> Number(pkt, 4, 8),
     hp |-> Number(pkt, 12, 4), attack |-> Number(pkt, 16, 2),
     name |-> Text(pkt, 18),
     buffsOffset |-> Number(pkt, 50, 2), buffsCount |-> Number(pkt, 52, 2)]

PKT_TEST_SIZE == 54

Validate(p) ==
    /\ p.packetSize >= PKT_TEST_SIZE
    /\ p.packetSize = PKT_TEST_SIZE + p.buffsCount * ItemSize
    /\ p.buffsOffset + p.buffsCount * ItemSize <= p.packetSize

\* GetBuffsList, and what its iterator goes through: one item after another.
BuffsList(pkt) ==
    LET p == PKT_TEST(pkt)
        item(i) == p.buffsOffset + (i - 1) * ItemSize
    IN  [i \in 1 .. p.buffsCount |->
            <<Number(pkt, item(i), 8), Number(pkt, item(i) + 8, 4)>>]

PKT_S_LOGIN(pkt) == [id |-> Number(pkt, 4, 8)]

\* Its id has 16 bits, though Make_S_CHAT writes 64.
PKT_S_CHAT(pkt) == [msg |-> Text(pkt, 4), id |-> Number(pkt, 36, 2)]

PKT_C_CHAT(pkt) == [msg |-> Text(pkt, 4), num |-> Number(pkt, 36, 2)]
=============================================================================

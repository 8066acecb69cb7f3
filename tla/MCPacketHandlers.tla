-------------------------- MODULE MCPacketHandlers --------------------------
(***************************************************************************)
(* PacketHandlers for TLC: what main says, and logins on other workers,    *)
(* one of them still without its row, or so many that the ids exceed 16    *)
(* bits, that the next id drawn exceeds INT_MAX (131071), or that the next *)
(* row would.                                                              *)
(***************************************************************************)
EXTENDS PacketHandlers

HelloWorld == {<<72, 101, 108, 108, 111, 32, 87, 111, 114, 108, 100>>}
LoginsElsewhere == 
    {<<1, 0>>, <<65535, 65535>>, <<131071, 131070>>, <<131071, 131071>>}
=============================================================================

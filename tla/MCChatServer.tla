---------------------------- MODULE MCChatServer ----------------------------
(***************************************************************************)
(* ChatServer for TLC: sessions and connections are interchangeable in the *)
(* run that checks no liveness.                                            *)
(***************************************************************************)
EXTENDS ChatServer, TLC

ChatSymmetry == Permutations(Sessions) \cup Permutations(Connections)
=============================================================================

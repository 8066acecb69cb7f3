-------------------------- MODULE MCSendBufferPool --------------------------
(***************************************************************************)
(* SendBufferPool for TLC: threads, sessions and chunks are alike.         *)
(***************************************************************************)
EXTENDS SendBufferPool, TLC

PoolSymmetry ==
    Permutations(Threads) \cup Permutations(Sessions) \cup Permutations(Chunks)
=============================================================================

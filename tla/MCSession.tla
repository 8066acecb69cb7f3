----------------------------- MODULE MCSession -----------------------------
(***************************************************************************)
(* Session for TLC: model values for the threads, and their symmetry for   *)
(* the runs that check no liveness.                                        *)
(***************************************************************************)
EXTENDS Session, TLC

WorkerSymmetry == Permutations(Workers)
=============================================================================

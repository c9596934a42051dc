----------------------------- MODULE MCBarrier -----------------------------
(***************************************************************************)
(* barrier_cross among three threads, with and without spurious wakeups.   *)
(***************************************************************************)
EXTENDS Barrier

MCThread == 1 .. 3
BothCases == BOOLEAN
=============================================================================

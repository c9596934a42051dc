----------------------------- MODULE MCBfsPush -----------------------------
(***************************************************************************)
(* bfs_push on small graphs.                                               *)
(***************************************************************************)
EXTENDS BfsPush, MCGraphs

MCThread == 1 .. 4
\* Consecutive thread ids with one in between that belongs to no thread of the
\* arena: with THREADS = 3 the first and the last thread share a buffer.
MCTid == [t \in MCThread |-> 100 + t]
MCTeams == {{1, 2, 3}, {1, 2, 4}}
=============================================================================

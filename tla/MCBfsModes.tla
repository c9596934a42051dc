----------------------------- MODULE MCBfsModes -----------------------------
(***************************************************************************)
(* bfs_pull and bfs_pushpull on small graphs.                              *)
(***************************************************************************)
EXTENDS BfsModes, MCGraphs

MCThread == 1 .. 2
MCStray == {[v \in 0 .. 3 |-> v \in S] : S \in {{}, {2}, {3}, {1, 2, 3}}}
MCGraphs4 == Small4 \cup Thin4
=============================================================================

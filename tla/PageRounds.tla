----------------------------- MODULE PageRounds -----------------------------
(***************************************************************************)
(* What pr_push promises: rounds that replace the scores of all vertices   *)
(* at once.  Every edge carries half of the score its source had, and half *)
(* of what a vertex receives is its next score.                            *)
(***************************************************************************)
EXTENDS EdgeSums

VARIABLES graph, iteration, score, round

vars == <<graph, iteration, score, round>>

Init == score = [v \in Node |-> 4] /\ round = 0

Round ==
  /\ round < iteration
  /\ round' = round + 1
  /\ score' = [v \in Node |-> Received(graph, score, 0 .. graph.nb_edges - 1, v) \div 2]
  /\ UNCHANGED <<graph, iteration>>

SafeSpec == Init /\ [][Round]_vars
=============================================================================

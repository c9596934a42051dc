----------------------------- MODULE BfsLevels -----------------------------
(***************************************************************************)
(* What every traversal of src/bfs.cpp promises: a level-synchronous       *)
(* breadth-first search.  `reached' is the set of vertices of the levels   *)
(* completed so far and `level' the last of them; one step replaces it by  *)
(* the vertices one edge further that no earlier level holds.              *)
(***************************************************************************)
EXTENDS BfsGraph

VARIABLES graph, reached, level

vars == <<graph, reached, level>>

TypeOK ==
  /\ IsGraph(graph)
  /\ reached \in SUBSET Node
  /\ level \in SUBSET reached

Init ==
  /\ graph \in Graphs
  /\ reached = {source}
  /\ level = {source}

NextLevel ==
  /\ level # {}
  /\ level' = Successors(graph, level) \ reached
  /\ reached' = reached \cup level'
  /\ UNCHANGED graph

Next == NextLevel

SafeSpec == Init /\ [][Next]_vars
Spec == SafeSpec /\ WF_vars(Next)

-----------------------------------------------------------------------------
\* Only the last level has edges that leave the reached set.
LevelsClosed == Successors(graph, reached \ level) \subseteq reached

\* When the last level is empty the search has found exactly the vertices
\* that are reachable from the source.
LevelsCorrect == level = {} => reached = Reachable(graph)
=============================================================================

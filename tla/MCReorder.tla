----------------------------- MODULE MCReorder -----------------------------
(***************************************************************************)
(* The reordering tools on small edge lists.                               *)
(***************************************************************************)
EXTENDS Reorder

\* Vertex 0 has the most, the fewest, and as many edges as another vertex; a
\* vertex has more edges than fit its counter, and two lists do not fit -v.
MCEdgeLists ==
  {[e \in 0 .. 2 |-> <<<<0, 1>>, <<0, 3>>, <<1, 0>>>>[e + 1]],
   [e \in 0 .. 2 |-> <<<<2, 0>>, <<3, 1>>, <<3, 2>>>>[e + 1]],
   [e \in 0 .. 3 |-> <<<<1, 0>>, <<0, 0>>, <<1, 2>>, <<0, 2>>>>[e + 1]],
   [e \in 0 .. 3 |-> <<<<1, 0>>, <<1, 2>>, <<1, 3>>, <<2, 1>>>>[e + 1]],
   [e \in 0 .. 1 |-> <<<<4, 0>>, <<0, 1>>>>[e + 1]],
   [e \in 0 .. 1 |-> <<<<0, 4>>, <<3, 1>>>>[e + 1]]}
MCOptions == [ascending : BOOLEAN, maintain : BOOLEAN]
MCGarbage == {0, 2}
=============================================================================

----------------------------- MODULE MCPageRank -----------------------------
(***************************************************************************)
(* pr_hub on three vertices.                                               *)
(***************************************************************************)
EXTENDS PageRank, MCGraphs

Adj3(a, b, c) == [v \in 0 .. 2 |-> <<a, b, c>>[v + 1]]

\* Vertices add to one so often that its sum wraps and comes back meanwhile;
\* three vertices add to each other and themselves.
MCGraphs3 == {GraphOf(Adj3(<<0, 1>>, <<0, 0>>, <<0, 0>>), 3),
              GraphOf(Adj3(<<0, 1>>, <<0>>, <<1, 0>>), 3)}
MCThread == 1 .. 3
MCIterations == {-1, 0, 2}
MCOpts == {0, 1, 2}
=============================================================================

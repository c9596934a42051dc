------------------------------ MODULE MCGraphs ------------------------------
(***************************************************************************)
(* Small graphs in the form create_graph leaves them, built from adjacency *)
(* lists.                                                                  *)
(***************************************************************************)
EXTENDS Integers, Sequences, SequencesExt, FiniteSets

LOCAL Sum(s) == FoldLeft(LAMBDA a, b : a + b, 0, s)

\* offsets and entries of the rows adj[0], adj[1], ... (sequences).
LOCAL CsrOf(adj, n) ==
  LET rows == [v \in 1 .. n |-> adj[v - 1]]
      all  == FlattenSeq(rows)
  IN  [offsets |-> [v \in 0 .. n |-> Sum([u \in 1 .. v |-> Len(rows[u])])],
       edges   |-> [k \in 0 .. Len(all) - 1 |-> all[k + 1]]]

\* The graph whose out-neighbours of v are the sequence adj[v].
GraphOf(adj, n) ==
  LET pairs == FlattenSeq([v \in 1 .. n |-> [k \in DOMAIN adj[v - 1] |-> <<v - 1, adj[v - 1][k]>>]])
      in    == [v \in 0 .. n - 1 |->
                  LET to == SelectSeq(pairs, LAMBDA e : e[2] = v)
                  IN  [k \in DOMAIN to |-> to[k][1]]]
      o     == CsrOf(adj, n)
      i     == CsrOf(in, n)
  IN  [nb_edges |-> Len(pairs),
       out_edge_offsets |-> o.offsets, out_edges |-> o.edges,
       in_edge_offsets |-> i.offsets, in_edges |-> i.edges]

Adj6(a, b, c, d, e, f) == [v \in 0 .. 5 |-> <<a, b, c, d, e, f>>[v + 1]]

\* Two vertices of one level race for both vertices of the next one.
Cross == GraphOf(Adj6(<<1, 2>>, <<3, 4>>, <<4, 3>>, <<5>>, <<4, 5>>, <<0>>), 6)
\* Two vertices of one level with a child each, one of which has a child.
Fork == GraphOf(Adj6(<<2, 1>>, <<3>>, <<4>>, <<5>>, <<>>, <<>>), 6)
\* A level with more vertices than the one before: its buffers get entries
\* that no level has written.
Wide == GraphOf(Adj6(<<2, 1>>, <<3, 5>>, <<4>>, <<5>>, <<>>, <<>>), 6)
\* Three vertices of one level race for one child.
Star == GraphOf(Adj6(<<3, 1, 2>>, <<4>>, <<4>>, <<4, 0>>, <<5, 1>>, <<>>), 6)
\* Parallel edges, an edge back to the source, an unreachable vertex.
Multi == GraphOf(Adj6(<<1, 1, 2>>, <<0, 3>>, <<1, 3>>, <<4>>, <<>>, <<0, 3>>), 6)
\* More edges to one vertex than a buffer has entries.
Parallel == GraphOf(Adj6(<<1, 1, 1, 1, 1, 1, 1>>, <<>>, <<>>, <<>>, <<>>, <<>>), 6)

HandPicked == {Cross, Fork, Wide, Star, Multi, Parallel}

Adj4(a, b, c, d) == [v \in 0 .. 3 |-> <<a, b, c, d>>[v + 1]]

\* Diamond with a back edge and a self loop; a chain against the order of
\* the vertices with an unreachable vertex; parallel edges.
Small4 == {GraphOf(Adj4(<<1, 2>>, <<3>>, <<3, 2>>, <<0>>), 4),
           GraphOf(Adj4(<<3>>, <<0>>, <<>>, <<2, 3>>), 4),
           GraphOf(Adj4(<<1, 1, 3>>, <<2, 0>>, <<>>, <<2, 2>>), 4)}

\* Thin ones: most edges explored while a vertex is still to be found; a source
\* without edges.
Thin4 == {GraphOf(Adj4(<<1>>, <<0, 1, 2>>, <<3>>, <<>>), 4),
          GraphOf(Adj4(<<>>, <<0>>, <<1>>, <<2>>), 4)}
=============================================================================

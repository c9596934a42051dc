-------------------------------- MODULE Csr --------------------------------
(***************************************************************************)
(* The loaded graph (class Graph, include/config.h): compressed sparse     *)
(* rows.  The neighbours of vertex v are the entries of out_edges at the   *)
(* positions from out_edge_offsets[v] up to, not including,                *)
(* out_edge_offsets[v+1]; in_edges and in_edge_offsets hold the transposed *)
(* graph when the loader was run with -s.  Arrays are functions on 0..n-1. *)
(***************************************************************************)
EXTENDS Integers

CONSTANT NB_NODES   \* number of vertices (-v)

ASSUME NodesAssumption == NB_NODES \in Nat \ {0}

Node == 0 .. NB_NODES - 1

\* "prefix sum of node degree with length (nb_nodes+1)" (config.h:33).
IsCsr(offsets, edges, m) ==
  /\ offsets \in [0 .. NB_NODES -> 0 .. m]
  /\ edges \in [0 .. m - 1 -> Node]
  /\ offsets[0] = 0 /\ offsets[NB_NODES] = m
  /\ \A v \in Node : offsets[v] <= offsets[v + 1]

OutNeighbours(g, v) ==
  {g.out_edges[k] : k \in g.out_edge_offsets[v] .. g.out_edge_offsets[v + 1] - 1}

InNeighbours(g, v) ==
  {g.in_edges[k] : k \in g.in_edge_offsets[v] .. g.in_edge_offsets[v + 1] - 1}

\* A graph as create_graph leaves it when graph->symmetric holds.
IsGraph(g) ==
  /\ g.nb_edges \in Nat
  /\ IsCsr(g.out_edge_offsets, g.out_edges, g.nb_edges)
  /\ IsCsr(g.in_edge_offsets, g.in_edges, g.nb_edges)
  /\ \A u, v \in Node : v \in OutNeighbours(g, u) <=> u \in InNeighbours(g, v)
=============================================================================

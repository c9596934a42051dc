------------------------------ MODULE BfsGraph ------------------------------
(***************************************************************************)
(* The input of a traversal: a loaded graph and the start vertex, and what *)
(* a traversal is to find.                                                 *)
(***************************************************************************)
EXTENDS Csr

CONSTANTS Graphs,     \* the loaded graphs considered
          source      \* the vertex the traversals start from

ASSUME GraphsAssumption == \A g \in Graphs : IsGraph(g)
ASSUME SourceAssumption == source \in Node

Successors(g, S) == UNION {OutNeighbours(g, v) : v \in S}

\* The vertices in every set that holds the source and is closed under edges.
Reachable(g) ==
  {v \in Node : \A S \in SUBSET Node :
                  source \in S /\ Successors(g, S) \subseteq S => v \in S}
=============================================================================

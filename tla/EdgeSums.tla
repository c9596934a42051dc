------------------------------ MODULE EdgeSums ------------------------------
(***************************************************************************)
(* What the edges of a graph carry in a round of pr_push: every edge half  *)
(* of the score its source had, added up in PROP_TY arithmetic.            *)
(***************************************************************************)
EXTENDS Csr, Functions

CONSTANT PropModulus   \* PROP_TY is uint32_t: 2^32

ASSUME ModulusAssumption == PropModulus \in Nat /\ PropModulus > 4

\* The source of the edge at position k of out_edges.
SourceOf(g, k) ==
  CHOOSE u \in Node : k \in g.out_edge_offsets[u] .. g.out_edge_offsets[u + 1] - 1

\* What the edge at each position carries.
Deltas(g, from) == [k \in 0 .. g.nb_edges - 1 |-> from[SourceOf(g, k)] \div 2]

\* What arrives at v over the edges at the positions S.
Received(g, from, S, v) ==
  SumFunctionOnSet(Deltas(g, from), {k \in S : g.out_edges[k] = v}) % PropModulus
=============================================================================

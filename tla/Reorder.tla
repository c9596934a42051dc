------------------------------ MODULE Reorder ------------------------------
(***************************************************************************)
(* sort_by_degree (src/reorder.cpp:38-142): counts the out-degrees of a    *)
(* binary edge list in parallel, sorts the vertices by degree, gives them  *)
(* new numbers in that order and rewrites the edges in parallel.  An edge  *)
(* is <<src, dst>>; both parallel loops touch shared memory once per edge  *)
(* (an atomic add; the two fields of the edge itself), so their bodies are *)
(* one step per edge in any order.                                         *)
(*                                                                         *)
(* input is the edge list in memory when the read loop, which is the one of*)
(* Loader, is over: the file, and behind a cut what malloc left there.  No *)
(* id is compared with -v: where one that is too large is used as an index,*)
(* main becomes "undefined" and the model ends.                            *)
(***************************************************************************)
EXTENDS Integers, FiniteSets, Functions

CONSTANTS NB_NODES,     \* -v
          EdgeLists,    \* the inputs considered
          Options,      \* the command lines considered: -a and -m
          CounterModulus, \* out_edge_offsets are uint32_t: 2^32
          Garbage       \* what a uint32_t of malloc memory can be that was used before

Node == 0 .. NB_NODES - 1

ASSUME NodesAssumption == NB_NODES \in Nat \ {0}
ASSUME EdgesAssumption ==
  \A l \in EdgeLists :
    IsFiniteSet(DOMAIN l) /\ l \in [0 .. Cardinality(DOMAIN l) - 1 -> Nat \X Nat]
ASSUME CounterAssumption == CounterModulus \in Nat \ {0}
ASSUME OptionsAssumption == Options \subseteq [ascending : BOOLEAN, maintain : BOOLEAN]
ASSUME GarbageAssumption == Garbage \subseteq 0 .. CounterModulus - 1 /\ Garbage # {}

VARIABLES zeroed,  \* malloc returned memory fresh from the kernel
          opt, input, edges, out_edge_offsets, ordered, mapping, count, i, pending, main

vars == <<zeroed, opt, input, edges, out_edge_offsets, ordered, mapping, count, i, pending, main>>

Unset == NB_NODES   \* a mapping nobody has written

Init ==
  /\ zeroed \in BOOLEAN /\ opt \in Options
  /\ input \in EdgeLists /\ edges = input
  /\ out_edge_offsets \in [Node -> IF zeroed THEN {0} ELSE Garbage]
  /\ ordered = [v \in Node |-> v]
  /\ mapping = [v \in Node |-> Unset]
  /\ count = 0 /\ i = 0
  /\ pending = {} /\ main = "read"

\* The input is read, or cannot be.  A file that is no whole number of edges is
\* read past the end of edges.
ReadEdges ==
  /\ main = "read"
  /\ \/ main' = "count" /\ pending' = DOMAIN input
     \/ main' \in {"die", "undefined"} /\ UNCHANGED pending
  /\ UNCHANGED <<zeroed, opt, input, edges, out_edge_offsets, ordered, mapping, count, i>>

\* __sync_fetch_and_add(&(out_edge_offsets[edges[i].src]),1);
CountEdge ==
  /\ main = "count"
  /\ \E e \in pending :
       /\ edges[e][1] \in Node
       /\ out_edge_offsets' =
            [out_edge_offsets EXCEPT ![edges[e][1]] = (@ + 1) % CounterModulus]
       /\ pending' = pending \ {e}
  /\ UNCHANGED <<zeroed, opt, input, edges, ordered, mapping, count, i, main>>

\* The comparator of std::sort.
Before(a, b) == IF opt.ascending THEN out_edge_offsets[a] < out_edge_offsets[b]
                                 ELSE out_edge_offsets[a] > out_edge_offsets[b]

\* What std::sort may leave in ordered: vertices of one degree in any order.
SortedOrders ==
  {s \in [Node -> Node] : IsInjective(s) /\ \A j, k \in Node : j < k => ~Before(s[k], s[j])}

\* The counting loop is over; ordered is filled and sorted.
Sort ==
  /\ main = "count" /\ pending = {}
  /\ ordered' \in SortedOrders
  /\ count' = IF opt.maintain THEN 1 ELSE 0
  /\ main' = "map"
  /\ UNCHANGED <<zeroed, opt, input, edges, out_edge_offsets, mapping, i, pending>>

\* (Mutant) count goes on when vertex 0 is met.
CountAlways == count + 1

CountAfter == IF opt.maintain /\ ordered[i] = 0 THEN count ELSE count + 1

\* One iteration of the mapping loop.
MapNext ==
  /\ main = "map" /\ i < NB_NODES
  /\ mapping' = [mapping EXCEPT ![ordered[i]] =
                   IF opt.maintain /\ ordered[i] = 0 THEN 0 ELSE count]
  /\ count' = CountAfter
  /\ i' = i + 1
  /\ UNCHANGED <<zeroed, opt, input, edges, out_edge_offsets, ordered, pending, main>>

\* The mapping is complete; the rewriting loop starts.
StartRewrite ==
  /\ main = "map" /\ i = NB_NODES
  /\ main' = "rewrite" /\ pending' = DOMAIN edges
  /\ UNCHANGED <<zeroed, opt, input, edges, out_edge_offsets, ordered, mapping, count, i>>

\* (Mutant) the mapping is looked up the wrong way round.
RenamedByOrder(e) == <<ordered[e[1]], ordered[e[2]]>>

Renamed(e) == <<mapping[e[1]], mapping[e[2]]>>

\* edges[i].src = mapping[edges[i].src]; and the same for dst.
RewriteEdge ==
  /\ main = "rewrite"
  /\ \E e \in pending :
       /\ edges[e] \in Node \X Node
       /\ edges' = [edges EXCEPT ![e] = Renamed(@)]
       /\ pending' = pending \ {e}
  /\ UNCHANGED <<zeroed, opt, input, out_edge_offsets, ordered, mapping, count, i, main>>

\* An id that is no vertex: its degree, or its mapping, is not in the array.
Strays ==
  /\ \/ main = "count" /\ \E e \in pending : edges[e][1] \notin Node
     \/ main = "rewrite" /\ \E e \in pending : edges[e] \notin Node \X Node
  /\ main' = "undefined" /\ pending' = {}
  /\ UNCHANGED <<zeroed, opt, input, edges, out_edge_offsets, ordered, mapping, count, i>>

\* The loop is over; edges is written to the output file.
Output ==
  /\ main = "rewrite" /\ pending = {}
  /\ main' = "done"
  /\ UNCHANGED <<zeroed, opt, input, edges, out_edge_offsets, ordered, mapping, count, i, pending>>

Terminated == main \in {"done", "die", "undefined"} /\ UNCHANGED vars

Next ==
  \/ ReadEdges \/ CountEdge \/ Sort \/ MapNext \/ StartRewrite \/ RewriteEdge \/ Strays
  \/ Output
  \/ Terminated

Spec == Init /\ [][Next]_vars

-----------------------------------------------------------------------------
\* The output is the input with its vertices renamed, every end of every edge
\* once: the numbering is a permutation, with -m one that keeps vertex 0,
\* whatever malloc left in the degrees.
OutputIsRelabelling ==
  /\ main \in {"rewrite", "done"} =>
       /\ mapping \in [Node -> Node] /\ IsInjective(mapping)
       /\ opt.maintain => mapping[0] = 0
  /\ main = "done" => \A e \in DOMAIN input : edges[e] = Renamed(input[e])

\* In the output the out-degrees fall (rise, with -a) with the vertex number,
\* but for vertex 0 when it keeps its number, if the degrees were counted up
\* from 0, as the code does not clear them, and none is more than 32 bits hold.
OutDegree(v) == Cardinality({e \in DOMAIN edges : edges[e][1] = v})
OutputIsSorted ==
  zeroed /\ main = "done" /\ (\A v \in Node : OutDegree(v) < CounterModulus) =>
    \A v, w \in IF opt.maintain THEN Node \ {0} ELSE Node :
      v < w => IF opt.ascending THEN OutDegree(v) <= OutDegree(w)
                                ELSE OutDegree(v) >= OutDegree(w)
=============================================================================

--------------------------- MODULE PageRankProofs ---------------------------
(***************************************************************************)
(* Proofs about pr_push, for every graph, number of threads, of rounds and *)
(* width of PROP_TY: the additions by load and compare-and-swap are exact, *)
(* and the two loops of a round replace all scores at once (PageRounds).   *)
(***************************************************************************)
EXTENDS PageRank, SumLemmas

Edge(g) == 0 .. g.nb_edges - 1
Row(g, u) == g.out_edge_offsets[u] .. g.out_edge_offsets[u + 1] - 1

LEMMA GraphType ==
  ASSUME NEW g \in Graphs
  PROVE  /\ g.nb_edges \in Nat
         /\ g.out_edge_offsets \in [0 .. NB_NODES -> 0 .. g.nb_edges]
         /\ g.out_edges \in [Edge(g) -> Node]
         /\ g.out_edge_offsets[0] = 0 /\ g.out_edge_offsets[NB_NODES] = g.nb_edges
         /\ \A v \in Node : g.out_edge_offsets[v] <= g.out_edge_offsets[v + 1]
BY GraphsAssumption DEF IsCsr, Edge

LEMMA NodeType == \A v \in Node : v \in 0 .. NB_NODES /\ v + 1 \in 0 .. NB_NODES
BY NodesAssumption DEF Node

LEMMA OffsetType ==
  ASSUME NEW g \in Graphs, NEW w \in 0 .. NB_NODES
  PROVE  g.out_edge_offsets[w] \in Nat /\ g.out_edge_offsets[w] <= g.nb_edges
<1> DEFINE f == g.out_edge_offsets
           m == g.nb_edges
<1>1. f \in [0 .. NB_NODES -> 0 .. m] /\ m \in Nat
  BY GraphType
<1> HIDE DEF f, m
<1>2. f[w] \in 0 .. m
  BY <1>1
<1>3. f[w] \in Nat /\ f[w] <= m
  BY <1>1, <1>2
<1> QED BY <1>3 DEF f, m

\* The rows lie one behind the other.
LEMMA OffsetsAscend ==
  ASSUME NEW g \in Graphs, NEW u \in 0 .. NB_NODES, NEW v \in 0 .. NB_NODES, u <= v
  PROVE  g.out_edge_offsets[u] <= g.out_edge_offsets[v]
<1> DEFINE f == g.out_edge_offsets
           m == g.nb_edges
           n == NB_NODES - u
           A == {k \in 0 .. n : f[u] <= f[u + k]}
<1>1. m \in Nat /\ f \in [0 .. NB_NODES -> 0 .. m] /\ \A w \in Node : f[w] <= f[w + 1]
  BY GraphType
<1>2. n \in Nat /\ u \in Nat /\ NB_NODES \in Nat /\ 0 \in A
  BY <1>1, NodesAssumption
<1>3. ASSUME NEW k \in 0 .. n - 1, k \in A PROVE k + 1 \in A
  <2>1. u + k \in Node /\ u + k \in 0 .. NB_NODES /\ u + k + 1 \in 0 .. NB_NODES /\ k + 1 \in 0 .. n
    BY <1>2 DEF Node
  <2>2. f[u + k] <= f[u + k + 1] /\ f[u] <= f[u + k]
    BY <1>1, <1>3, <2>1
  <2>3. f[u] \in Nat /\ f[u + k] \in Nat /\ f[u + k + 1] \in Nat
    BY <2>1, OffsetType
  <2> HIDE DEF f
  <2>4. u + k + 1 = u + (k + 1)
    BY <1>2
  <2>5. f[u] <= f[u + (k + 1)]
    BY <2>2, <2>3, <2>4
  <2> QED BY <2>1, <2>5
<1>4. v - u \in 0 .. n /\ u + (v - u) = v
  BY <1>2
<1> HIDE DEF A
<1>5. 0 .. n \subseteq A
  BY ONLY <1>2, <1>3, InductionUpTo
<1> QED BY <1>4, <1>5 DEF A

\* Every position of the edge array lies in one row,
LEMMA RowExists ==
  ASSUME NEW g \in Graphs, NEW k \in Edge(g) PROVE \E u \in Node : k \in Row(g, u)
<1> SUFFICES ASSUME \A u \in Node : k \notin Row(g, u) PROVE FALSE
  OBVIOUS
<1> DEFINE f == g.out_edge_offsets
           m == g.nb_edges
           A == {u \in 0 .. NB_NODES : f[u] <= k}
<1>1. m \in Nat /\ f \in [0 .. NB_NODES -> 0 .. m] /\ f[0] = 0 /\ f[NB_NODES] = m
  BY GraphType
<1>2. NB_NODES \in Nat /\ 0 \in A /\ k \in Nat /\ k < m
  BY <1>1, NodesAssumption DEF Edge
<1>3. ASSUME NEW u \in 0 .. NB_NODES - 1, u \in A PROVE u + 1 \in A
  <2>1. u \in Node /\ u + 1 \in 0 .. NB_NODES
    BY <1>2 DEF Node
  <2>2. f[u + 1] \in Nat
    BY <2>1, OffsetType
  <2> QED BY <1>2, <1>3, <2>1, <2>2 DEF Row
<1> HIDE DEF A
<1>4. 0 .. NB_NODES \subseteq A
  BY ONLY <1>2, <1>3, InductionUpTo
<1> QED BY <1>1, <1>2, <1>4 DEF A

\* and in no other.
LEMMA RowIsUnique ==
  ASSUME NEW g \in Graphs, NEW u \in Node, NEW v \in Node, NEW k \in Row(g, u), k \in Row(g, v)
  PROVE  u = v
<1> DEFINE f == g.out_edge_offsets
<1>1. \A w \in 0 .. NB_NODES : f[w] \in Int
  BY OffsetType
<1>2. u \in Int /\ v \in Int
  BY DEF Node
<1>3. u < v => f[u + 1] <= f[v]
  BY <1>2, NodeType, OffsetsAscend
<1>4. v < u => f[v + 1] <= f[u]
  BY <1>2, NodeType, OffsetsAscend
<1> QED BY <1>1, <1>2, <1>3, <1>4, NodeType DEF Row

\* So the source of an edge is the vertex in whose row it lies.
LEMMA SourceIs ==
  ASSUME NEW g \in Graphs, NEW k \in Edge(g)
  PROVE  /\ SourceOf(g, k) \in Node /\ k \in Row(g, SourceOf(g, k))
         /\ \A u \in Node : k \in Row(g, u) => SourceOf(g, k) = u
<1> DEFINE s == CHOOSE u \in Node : k \in Row(g, u)
<1>1. s \in Node /\ k \in Row(g, s)
  BY RowExists
<1>2. SourceOf(g, k) = s
  BY DEF SourceOf, Row
<1> QED BY <1>1, <1>2, RowIsUnique

LEMMA RowInEdges ==
  ASSUME NEW g \in Graphs, NEW u \in Node, NEW k \in Row(g, u)
  PROVE  k \in Edge(g) /\ g.out_edges[k] \in Node
<1>1. /\ g.out_edge_offsets[u] \in Nat /\ g.out_edge_offsets[u + 1] \in Nat
      /\ g.out_edge_offsets[u + 1] <= g.nb_edges /\ g.nb_edges \in Nat
  BY NodeType, OffsetType, GraphType
<1>2. k \in Edge(g)
  BY <1>1 DEF Row, Edge
<1> QED BY <1>2, GraphType

-----------------------------------------------------------------------------
(* Sums in PROP_TY. *)

\* A number less than the divisor that differs by a multiple is the remainder.
LEMMA RemainderIs ==
  ASSUME NEW n \in Nat, NEW k \in Nat \ {0}, NEW q \in Nat, NEW r \in Nat, r < k, n = q * k + r
  PROVE  n % k = r
OBVIOUS

\* Adding to the remainder is adding to the number.
LEMMA RemainderAdds ==
  ASSUME NEW a \in Nat, NEW b \in Nat, NEW k \in Nat \ {0}
  PROVE  ((a % k) + b) % k = (a + b) % k
<1> DEFINE q == a \div k
           r == a % k
           s == (r + b) \div k
           w == (r + b) % k
<1>1. q \in Nat /\ r \in Nat /\ a = q * k + r
  OBVIOUS
<1> HIDE DEF q, r
<1>2. s \in Nat /\ w \in Nat /\ w < k /\ r + b = s * k + w
  BY <1>1
<1> HIDE DEF s, w
<1>3. a + b = (q + s) * k + w
  <2>1. (q + s) * k = q * k + s * k
    BY <1>1, <1>2
  <2>2. q * k \in Nat /\ s * k \in Nat
    BY <1>1, <1>2
  <2> QED BY <1>1, <1>2, <2>1, <2>2
<1>4. (a + b) % k = w
  <2>1. a + b \in Nat /\ q + s \in Nat
    BY <1>1, <1>2
  <2> QED BY <1>2, <1>3, <2>1, RemainderIs
<1> QED BY <1>4 DEF w, r

\* Nothing arrives over no edge, and over one more edge what it carries.
LEMMA ReceivedNone ==
  ASSUME NEW g, NEW from, NEW v PROVE Received(g, from, {}, v) = 0
<1>1. {k \in {} : g.out_edges[k] = v} = {}
  OBVIOUS
<1>2. SumFunctionOnSet(Deltas(g, from), {k \in {} : g.out_edges[k] = v}) = 0
  BY <1>1, SumEmpty
<1>3. 0 % PropModulus = 0
  BY ModulusAssumption
<1> QED BY <1>2, <1>3 DEF Received

LEMMA ReceivedNext ==
  ASSUME NEW g \in Graphs, NEW from \in [Node -> Nat], NEW S \in SUBSET Edge(g),
         NEW k \in Edge(g) \ S, NEW v \in Node
  PROVE  Received(g, from, S \cup {k}, v)
           = IF g.out_edges[k] = v
               THEN (Received(g, from, S, v) + from[SourceOf(g, k)] \div 2) % PropModulus
               ELSE Received(g, from, S, v)
<1> DEFINE d == Deltas(g, from)
           To(T) == {j \in T : g.out_edges[j] = v}
           P == PropModulus
<1>1. IsFiniteSet(To(S)) /\ k \notin To(S)
  <2>1. g.nb_edges - 1 \in Int
    BY GraphType
  <2>2. IsFiniteSet(0 .. g.nb_edges - 1)
    BY <2>1, 0 \in Int, FS_Interval, Zenon
  <2> QED BY <2>2, FS_Subset DEF Edge
<1>2. \A j \in Edge(g) : d[j] \in Nat /\ d[j] = from[SourceOf(g, j)] \div 2
  <2> SUFFICES ASSUME NEW j \in Edge(g)
               PROVE  d[j] \in Nat /\ d[j] = from[SourceOf(g, j)] \div 2
    OBVIOUS
  <2>1. from[SourceOf(g, j)] \in Nat
    BY SourceIs
  <2>2. from[SourceOf(g, j)] \div 2 \in Nat
    BY <2>1
  <2> QED BY <2>2 DEF Deltas, Edge
<1> HIDE DEF d
<1>3. CASE g.out_edges[k] = v
  <2>1. To(S \cup {k}) = To(S) \cup {k}
    BY <1>3
  <2>2. SumFunctionOnSet(d, To(S) \cup {k}) = SumFunctionOnSet(d, To(S)) + d[k]
    BY <1>1, <1>2, SumAdd
  <2>3. SumFunctionOnSet(d, To(S)) \in Nat /\ d[k] \in Nat
    BY <1>1, <1>2, SumType
  <2>4. SumFunctionOnSet(d, To(S \cup {k})) % P = ((SumFunctionOnSet(d, To(S)) % P) + d[k]) % P
    <3>1. SumFunctionOnSet(d, To(S \cup {k})) = SumFunctionOnSet(d, To(S)) + d[k]
      BY ONLY <2>1, <2>2, Zenon
    <3> DEFINE a == SumFunctionOnSet(d, To(S))
               b == d[k]
    <3>2. a \in Nat /\ b \in Nat /\ P \in Nat \ {0}
      BY <2>3, ModulusAssumption
    <3> HIDE DEF a, b, P
    <3>3. (a + b) % P = ((a % P) + b) % P
      BY <3>2, RemainderAdds
    <3> QED BY <3>1, <3>3 DEF a, b
  <2>5. Received(g, from, S \cup {k}, v) = (Received(g, from, S, v) + d[k]) % P
    BY <2>4 DEF d, Received
  <2> QED BY <1>2, <1>3, <2>5
<1>4. CASE g.out_edges[k] # v
  <2>1. To(S \cup {k}) = To(S)
    BY <1>4
  <2> QED BY <1>4, <2>1, Zenon DEF Received
<1> QED BY <1>3, <1>4

-----------------------------------------------------------------------------
(* The inductive invariant. *)

\* The vertices thread t still has to come to.
Mine(t) == idx[t] .. stop[t] - 1

Types ==
  /\ graph \in Graphs /\ iteration \in Int /\ it \in Nat
  /\ main \in {"fill", "assert", "head", "push", "halve", "done", "die"}
  /\ pending \in SUBSET Node
  /\ pc \in [Thread -> {"idle", "vertex", "edge", "cas"}]
  /\ idx \in [Thread -> 0 .. NB_NODES] /\ stop \in [Thread -> 0 .. NB_NODES]
  /\ beg \in [Thread -> Nat] /\ old_val \in [Thread -> Nat]
  /\ prev \in [Node -> Nat] /\ rank \in [Node -> Nat]

\* Bodies run only inside a loop, and at an edge of their vertex only in the
\* first.
Control ==
  /\ main \notin {"fill", "push", "halve"} => ParallelForEnds(pending, pc)
  /\ \A t \in Thread :
       /\ idx[t] <= stop[t]
       /\ pc[t] = "idle" => idx[t] = stop[t]
       /\ pc[t] \in {"edge", "cas"} =>
            /\ main = "push" /\ idx[t] < stop[t]
            /\ graph.out_edge_offsets[idx[t]] <= beg[t]
            /\ beg[t] <= graph.out_edge_offsets[idx[t] + 1]
       /\ pc[t] = "cas" => HasEdge(t)

\* No vertex is given out twice.
Sharing ==
  /\ \A t \in Thread : Mine(t) \cap pending = {}
  /\ \A t, u \in Thread : t # u => Mine(t) \cap Mine(u) = {}

Counting ==
  /\ main \in {"fill", "assert", "die"} => it = 0
  /\ main \in {"push", "halve"} => 1 <= it /\ it <= iteration

\* What each loop has left in the arrays so far.
Contents ==
  /\ main = "fill" => \A v \in Node : ~Waiting(v) => prev[v] = 4
  /\ main \in {"fill", "head"} => \A v \in Node : rank[v] = 0
  /\ main = "halve" => \A v \in Node : ~Waiting(v) => rank[v] = 0

IInv == Types /\ Control /\ Sharing /\ Counting /\ Contents /\ AddsAreExact

LEMMA MineType ==
  ASSUME Types, NEW t \in Thread
  PROVE  /\ idx[t] \in Nat /\ stop[t] \in Nat /\ idx[t] <= NB_NODES /\ stop[t] <= NB_NODES
         /\ NB_NODES \in Nat /\ NB_NODES > 0 /\ beg[t] \in Nat
         /\ Mine(t) \subseteq Node
         /\ idx[t] < stop[t] => idx[t] \in Node /\ idx[t] \in Mine(t)
<1>1. /\ idx[t] \in 0 .. NB_NODES /\ stop[t] \in 0 .. NB_NODES /\ beg[t] \in Nat
      /\ NB_NODES \in Nat /\ NB_NODES > 0
  BY NodesAssumption DEF Types
<1> QED BY <1>1 DEF Mine, Node

LEMMA WaitingIs ==
  \A v : Waiting(v) <=> v \in pending \/ \E t \in Thread : v \in Mine(t)
BY DEF Waiting, Mine

\* A range that is taken keeps its vertices waiting.
LEMMA TakeKeeps ==
  ASSUME Types, Control, Sharing, NEW t \in Thread, TakeRange(t)
  PROVE  Sharing' /\ (\A v \in Node : Waiting(v)' <=> Waiting(v))
         /\ idx'[t] \in 0 .. NB_NODES /\ stop'[t] \in 0 .. NB_NODES /\ idx'[t] < stop'[t]
<1>1. PICK r \in Ranges(pending) :
        /\ pending' = pending \ (r[1] .. r[2] - 1)
        /\ idx' = [idx EXCEPT ![t] = r[1]] /\ stop' = [stop EXCEPT ![t] = r[2]]
  BY DEF TakeRange
<1>2. /\ r[1] \in 0 .. NB_NODES - 1 /\ r[2] \in 0 .. NB_NODES /\ r[1] < r[2]
      /\ r[1] .. r[2] - 1 \subseteq pending
  <2>1. r[1] \in pending /\ (\E k \in pending : r[2] = k + 1) /\ r[1] < r[2]
        /\ r[1] .. r[2] - 1 \subseteq pending
    BY DEF Ranges
  <2>2. PICK k \in pending : r[2] = k + 1
    BY <2>1
  <2>3. k \in Node /\ r[1] \in Node
    BY <2>1 DEF Types
  <2>4. k \in Nat /\ k < NB_NODES /\ NB_NODES \in Nat
    BY <2>3, NodesAssumption DEF Node
  <2>5. r[2] \in 0 .. NB_NODES
    BY <2>2, <2>4
  <2> QED BY <2>1, <2>3, <2>5 DEF Node
<1> DEFINE R == r[1] .. r[2] - 1
<1>3. /\ Mine(t)' = R
      /\ \A u \in Thread : u # t => Mine(u)' = Mine(u)
      /\ pending' = pending \ R
  BY <1>1 DEF Mine, Types
<1>4. Mine(t) = {}
  <2>1. idx[t] = stop[t]
    BY DEF TakeRange, Control
  <2> QED BY <2>1, MineType DEF Mine
<1>5. idx'[t] \in 0 .. NB_NODES /\ stop'[t] \in 0 .. NB_NODES /\ idx'[t] < stop'[t]
  <2>1. idx'[t] = r[1] /\ stop'[t] = r[2]
    BY <1>1 DEF Types
  <2>2. r[1] \in 0 .. NB_NODES
    BY <1>2, NodesAssumption
  <2> QED BY <1>2, <2>1, <2>2
<1> HIDE DEF R
<1>6. R \subseteq pending
  BY <1>2 DEF R
<1>7. Sharing'
  BY <1>3, <1>6 DEF Sharing
<1>8. ASSUME NEW v \in Node PROVE Waiting(v)' <=> Waiting(v)
  <2>1. Waiting(v)' <=> v \in pending' \/ \E u \in Thread : v \in Mine(u)'
    BY DEF Waiting, Mine
  <2> QED BY <1>3, <1>4, <1>6, <2>1, WaitingIs
<1> QED BY <1>5, <1>7, <1>8

\* A vertex a body is done with waits no longer.
LEMMA AdvanceLeaves ==
  ASSUME Types, Control, Sharing, NEW t \in Thread, idx[t] < stop[t], NextVertex(t),
         UNCHANGED <<pending, stop>>
  PROVE  /\ Sharing' /\ (\A v \in Node : Waiting(v)' <=> Waiting(v) /\ v # idx[t])
         /\ idx' \in [Thread -> 0 .. NB_NODES] /\ idx'[t] <= stop[t] /\ Waiting(idx[t])
<1>1. idx[t] \in Node /\ idx[t] \in Mine(t) /\ idx[t] \in Nat /\ stop[t] \in Nat
      /\ stop[t] <= NB_NODES /\ NB_NODES \in Nat
  BY MineType
<1>2. idx' = [idx EXCEPT ![t] = idx[t] + 1] /\ stop' = stop /\ pending' = pending
  BY DEF NextVertex
<1>3. idx' \in [Thread -> 0 .. NB_NODES] /\ idx'[t] <= stop[t]
  BY <1>1, <1>2 DEF Types
<1>4. /\ Mine(t)' = Mine(t) \ {idx[t]}
      /\ \A u \in Thread : u # t => Mine(u)' = Mine(u)
  BY <1>1, <1>2 DEF Mine, Types
<1>5. Sharing'
  BY <1>2, <1>4 DEF Sharing
<1>6. ASSUME NEW v \in Node PROVE Waiting(v)' <=> Waiting(v) /\ v # idx[t]
  <2>1. Waiting(v)' <=> v \in pending' \/ \E u \in Thread : v \in Mine(u)'
    BY DEF Waiting, Mine
  <2>2. v = idx[t] => v \notin pending /\ \A u \in Thread : u # t => v \notin Mine(u)
    BY <1>1 DEF Sharing
  <2> QED BY <1>2, <1>4, <2>1, <2>2, WaitingIs
<1> QED BY <1>1, <1>3, <1>5, <1>6, WaitingIs

\* Where no range changes, nor who waits.
LEMMA RangesKeep ==
  ASSUME UNCHANGED <<idx, stop, pending>>
  PROVE  (Sharing' <=> Sharing) /\ (\A v \in Node : Waiting(v)' <=> Waiting(v))
BY DEF Sharing, Mine, Waiting

\* A body at an edge is at one of its vertex's row.
LEMMA AtEdge ==
  ASSUME Types, Control, NEW t \in Thread, pc[t] \in {"edge", "cas"}
  PROVE  /\ idx[t] \in Node /\ idx[t] < stop[t] /\ main = "push"
         /\ HasEdge(t) => /\ beg[t] \in Edge(graph) /\ beg[t] \in Row(graph, idx[t])
                          /\ Dst(t) \in Node /\ SourceOf(graph, beg[t]) = idx[t]
                          /\ beg[t] + 1 <= graph.out_edge_offsets[idx[t] + 1]
<1>1. /\ idx[t] < stop[t] /\ main = "push"
      /\ graph.out_edge_offsets[idx[t]] <= beg[t]
  BY DEF Control
<1>2. idx[t] \in Node /\ graph \in Graphs /\ beg[t] \in Nat
  BY <1>1, MineType DEF Types
<1>3. ASSUME HasEdge(t)
      PROVE  /\ beg[t] \in Edge(graph) /\ beg[t] \in Row(graph, idx[t])
             /\ Dst(t) \in Node /\ SourceOf(graph, beg[t]) = idx[t]
             /\ beg[t] + 1 <= graph.out_edge_offsets[idx[t] + 1]
  <2>1. graph.out_edge_offsets[idx[t] + 1] \in Nat /\ graph.out_edge_offsets[idx[t]] \in Nat
    BY <1>2, NodeType, OffsetType
  <2>2. beg[t] \in Row(graph, idx[t]) /\ beg[t] + 1 <= graph.out_edge_offsets[idx[t] + 1]
    BY <1>1, <1>2, <1>3, <2>1 DEF HasEdge, Row
  <2>3. beg[t] \in Edge(graph) /\ Dst(t) \in Node
    BY <1>2, <2>2, RowInEdges DEF Dst
  <2> QED BY <1>2, <2>2, <2>3, SourceIs
<1> QED BY <1>1, <1>2, <1>3

AddedEdges == {k \in Edge(graph) : Added(k)}

LEMMA ExactIs ==
  AddsAreExact <=>
    (main = "push" => \A v \in Node : rank[v] = Received(graph, prev, AddedEdges, v))
BY DEF AddsAreExact, AddedEdges, Edge

\* Steps after which the same edges are added.
LEMMA ExactStays ==
  ASSUME AddsAreExact, main = "push", UNCHANGED <<graph, prev, rank>>,
         \A k \in Edge(graph) : Added(k)' <=> Added(k)
  PROVE  AddsAreExact'
<1>1. AddedEdges' = AddedEdges
  BY DEF AddedEdges, Edge
<1>2. AddsAreExact' <=>
        (main' = "push" => \A v \in Node : rank'[v] = Received(graph', prev', AddedEdges', v))
  BY DEF AddsAreExact, AddedEdges, Edge
<1>3. \A v \in Node : rank[v] = Received(graph, prev, AddedEdges, v)
  BY ExactIs
<1> QED BY <1>1, <1>2, <1>3

LEMMA InitInv == Init => IInv
<1> SUFFICES ASSUME Init PROVE IInv
  OBVIOUS
<1>1. 0 \in 0 .. NB_NODES /\ 0 \in Nat /\ 4 \in Nat
  BY NodesAssumption
<1>2. Types
  BY <1>1, IterationsAssumption DEF Init, Types
<1>3. \A t \in Thread : idx[t] = 0 /\ stop[t] = 0 /\ pc[t] = "idle" /\ Mine(t) = {}
  BY DEF Init, Mine
<1>4. Control
  BY <1>3 DEF Init, Control, ParallelForEnds
<1>5. Sharing
  BY <1>3 DEF Sharing
<1>6. Counting
  BY DEF Init, Counting
<1>7. Contents
  BY DEF Init, Contents, Waiting
<1>8. AddsAreExact
  BY DEF Init, AddsAreExact
<1> QED BY <1>2, <1>4, <1>5, <1>6, <1>7, <1>8 DEF IInv

\* When a loop ends nobody waits, and when one begins everybody does.
LEMMA NobodyWaits ==
  ASSUME Types, Control, ParallelForEnds(pending, pc)
  PROVE  \A v : ~Waiting(v)
<1>1. \A t \in Thread : idx[t] = stop[t] /\ Mine(t) = {}
  BY MineType DEF ParallelForEnds, Control, Mine
<1> QED BY <1>1, WaitingIs DEF ParallelForEnds

LEMMA MainStepInv ==
  ASSUME IInv, MainStep PROVE IInv'
<1> USE DEF IInv
<1>1. UNCHANGED <<call, rank, prev, pc, locals>> /\ it' \in Nat
      /\ main' \in {"fill", "assert", "head", "push", "halve", "done", "die"}
      /\ pending' \in SUBSET Node
  BY DEF MainStep, Choose, NextRound, PushJoin, HalveJoin, Types
<1>2. Types'
  BY <1>1 DEF Types, call, locals
<1>3. ParallelForEnds(pending, pc)
  BY DEF MainStep, Choose, NextRound, PushJoin, HalveJoin, Control
<1>4. \A t \in Thread : pc[t] = "idle" /\ idx[t] = stop[t] /\ Mine(t) = {} /\ Mine(t)' = {}
  BY <1>1, <1>3, MineType DEF ParallelForEnds, Control, Mine, locals
<1>5. main' \notin {"fill", "push", "halve"} => pending' = {}
  BY <1>3 DEF MainStep, Choose, NextRound, PushJoin, HalveJoin, ParallelForEnds
<1>6. Control'
  BY <1>1, <1>4, <1>5 DEF Control, ParallelForEnds, locals
<1>7. Sharing'
  BY <1>4 DEF Sharing
<1>8. Counting'
  BY <1>1 DEF MainStep, Choose, NextRound, PushJoin, HalveJoin, Counting, Types, call
<1>9. \A v : ~Waiting(v)
  BY <1>3, NobodyWaits
<1>10. Contents'
  <2>1. CASE Choose
    BY <2>1, <1>1 DEF Choose, Contents
  <2>2. CASE NextRound
    BY <2>2, <1>1 DEF NextRound, Contents
  <2>3. CASE PushJoin
    BY <2>3, <1>1 DEF PushJoin, Contents, Waiting
  <2>4. CASE HalveJoin
    BY <2>4, <1>1, <1>9 DEF HalveJoin, Contents
  <2> QED BY <2>1, <2>2, <2>3, <2>4 DEF MainStep
<1>11. AddsAreExact'
  <2>1. CASE ~NextRound \/ main' # "push"
    BY <2>1 DEF MainStep, Choose, NextRound, PushJoin, HalveJoin, AddsAreExact
  <2>2. CASE NextRound /\ main' = "push"
    <3>1. pending' = Node /\ graph' = graph /\ graph \in Graphs /\ pc' = pc /\ main = "head"
      BY <1>1, <2>2 DEF NextRound, Types, call
    <3>2. ASSUME NEW k \in Edge(graph) PROVE ~Added(k)'
      <4>1. SourceOf(graph, k) \in Node
        BY <3>1, SourceIs
      <4> QED BY <1>4, <3>1, <4>1 DEF Added, Waiting
    <3>3. AddedEdges' = {}
      BY <3>1, <3>2 DEF AddedEdges, Edge
    <3>4. \A v \in Node : rank'[v] = 0
      BY <1>1, <3>1 DEF Contents
    <3>5. \A v \in Node : rank'[v] = Received(graph', prev', AddedEdges', v)
      BY <3>3, <3>4, ReceivedNone
    <3> QED BY <3>5 DEF AddsAreExact, AddedEdges, Edge
  <2> QED BY <2>1, <2>2
<1> QED BY <1>2, <1>6, <1>7, <1>8, <1>10, <1>11

\* A range is taken: the same vertices wait, and no edge is added.
LEMMA TakeRangeInv ==
  ASSUME IInv, NEW t \in Thread, TakeRange(t) PROVE IInv'
<1> USE DEF IInv
<1>1. /\ Sharing' /\ (\A v \in Node : Waiting(v)' <=> Waiting(v))
      /\ idx'[t] \in 0 .. NB_NODES /\ stop'[t] \in 0 .. NB_NODES /\ idx'[t] < stop'[t]
  BY TakeKeeps
<1>2. /\ UNCHANGED <<call, rank, prev, it, main, beg, old_val>>
      /\ pc[t] = "idle" /\ pc' = [pc EXCEPT ![t] = "vertex"] /\ pending' \subseteq pending
      /\ pending # {}
      /\ \A u \in Thread : u # t => idx'[u] = idx[u] /\ stop'[u] = stop[u]
  BY DEF TakeRange, Goto, Types, Ranges
<1>3. Types'
  <2>1. idx' \in [Thread -> 0 .. NB_NODES] /\ stop' \in [Thread -> 0 .. NB_NODES]
    BY <1>1 DEF TakeRange, Types
  <2> QED BY <1>2, <2>1 DEF Types, call
<1>4. Control'
  <2>1. main \in {"fill", "push", "halve"}
    BY <1>2 DEF Control, ParallelForEnds
  <2>2. ASSUME NEW u \in Thread, u # t
        PROVE  idx'[u] = idx[u] /\ stop'[u] = stop[u] /\ pc'[u] = pc[u] /\ beg'[u] = beg[u]
               /\ (HasEdge(u)' <=> HasEdge(u))
    BY <1>2, <2>2 DEF HasEdge, call, Types
  <2>3. pc'[t] = "vertex" /\ idx'[t] <= stop'[t]
    BY <1>1, <1>2 DEF Types
  <2>4. graph' = graph /\ main' = main
    BY <1>2 DEF call
  <2> QED BY <2>1, <2>2, <2>3, <2>4 DEF Control
<1>5. Counting' /\ Contents'
  BY <1>1, <1>2 DEF Counting, Contents, call
<1>6. AddsAreExact'
  <2>1. CASE main = "push"
    <3>1. ASSUME NEW k \in Edge(graph) PROVE Added(k)' <=> Added(k)
      <4>1. SourceOf(graph, k) \in Node /\ graph' = graph /\ beg' = beg
        BY <1>2, SourceIs DEF Types, call
      <4> QED BY <1>1, <1>2, <4>1 DEF Added, Types
    <3> QED BY <1>2, <2>1, <3>1, ExactStays DEF call
  <2>2. CASE main # "push"
    BY <1>2, <2>2 DEF AddsAreExact
  <2> QED BY <2>1, <2>2
<1> QED BY <1>1, <1>3, <1>4, <1>5, <1>6

\* A range that is given back held no vertex any more.
LEMMA EndKeeps ==
  ASSUME Types, Sharing, NEW t \in Thread, EndRange(t)
  PROVE  Sharing' /\ \A v \in Node : Waiting(v)' <=> Waiting(v)
<1>1. /\ pending' = pending /\ idx[t] = stop[t]
      /\ idx' = [idx EXCEPT ![t] = 0] /\ stop' = [stop EXCEPT ![t] = 0]
  BY DEF EndRange
<1>2. ASSUME NEW u \in Thread PROVE Mine(u)' = Mine(u)
  <2>1. CASE u = t
    BY <1>1, <2>1, MineType DEF Mine, Types
  <2>2. CASE u # t
    BY <1>1, <2>2 DEF Mine, Types
  <2> QED BY <2>1, <2>2
<1>3. \A v : Waiting(v)' <=> v \in pending' \/ \E u \in Thread : v \in Mine(u)'
  BY DEF Waiting, Mine
<1> QED BY <1>1, <1>2, <1>3, WaitingIs DEF Sharing

LEMMA EndRangeInv ==
  ASSUME IInv, NEW t \in Thread, EndRange(t) PROVE IInv'
<1> USE DEF IInv
<1>1. /\ UNCHANGED <<call, rank, prev, it, main, pending, old_val>>
      /\ pc[t] = "vertex" /\ pc' = [pc EXCEPT ![t] = "idle"]
      /\ idx' = [idx EXCEPT ![t] = 0] /\ stop' = [stop EXCEPT ![t] = 0]
      /\ beg' = [beg EXCEPT ![t] = 0]
  BY DEF EndRange, Goto
<1>2. ASSUME NEW u \in Thread, u # t
      PROVE  /\ idx'[u] = idx[u] /\ stop'[u] = stop[u] /\ pc'[u] = pc[u]
             /\ beg'[u] = beg[u] /\ (HasEdge(u)' <=> HasEdge(u))
  BY <1>1, <1>2 DEF Types, HasEdge, call
<1>3. Sharing' /\ \A v \in Node : Waiting(v)' <=> Waiting(v)
  BY EndKeeps
<1>4. Types'
  <2>1. 0 \in 0 .. NB_NODES /\ 0 \in Nat
    BY NodesAssumption
  <2> QED BY <1>1, <2>1 DEF Types, call
<1>5. Control'
  <2>1. idx'[t] = 0 /\ stop'[t] = 0 /\ pc'[t] = "idle" /\ graph' = graph
    BY <1>1 DEF Types, call
  <2> QED BY <1>1, <1>2, <2>1 DEF Control, ParallelForEnds
<1>6. Counting' /\ Contents'
  BY <1>1, <1>3 DEF Counting, Contents, call
<1>7. AddsAreExact'
  <2>1. CASE main = "push"
    <3>1. ASSUME NEW k \in Edge(graph) PROVE Added(k)' <=> Added(k)
      <4>1. SourceOf(graph, k) \in Node /\ graph' = graph
        BY <1>1, SourceIs DEF Types, call
      <4> QED BY <1>1, <1>2, <1>3, <4>1 DEF Added, Types
    <3> QED BY <1>1, <2>1, <3>1, ExactStays DEF call
  <2>2. CASE main # "push"
    BY <1>1, <2>2 DEF AddsAreExact
  <2> QED BY <2>1, <2>2
<1> QED BY <1>3, <1>4, <1>5, <1>6, <1>7

\* The loops that write a vertex and go on.
LEMMA WriteVertexInv ==
  ASSUME IInv, NEW t \in Thread, FillVertex(t) \/ HalveVertex(t) PROVE IInv'
<1> USE DEF IInv
<1>1. /\ pc[t] = "vertex" /\ idx[t] # stop[t] /\ NextVertex(t)
      /\ UNCHANGED <<call, it, main, pending, pc, stop, beg, old_val>>
      /\ main \in {"fill", "halve"}
  BY DEF FillVertex, HalveVertex, Vertex
<1>2. idx[t] < stop[t]
  BY <1>1, MineType DEF Control
<1>3. idx[t] \in Node
  BY <1>2, MineType
<1>4. /\ Sharing' /\ (\A v \in Node : Waiting(v)' <=> Waiting(v) /\ v # idx[t])
      /\ idx' \in [Thread -> 0 .. NB_NODES] /\ idx'[t] <= stop[t] /\ Waiting(idx[t])
  BY <1>1, <1>2, AdvanceLeaves
<1>5. prev' \in [Node -> Nat] /\ rank' \in [Node -> Nat]
  <2>1. CASE FillVertex(t)
    BY <2>1, 4 \in Nat DEF FillVertex, Types
  <2>2. CASE HalveVertex(t)
    <3>1. rank[idx[t]] \in Nat
      BY <1>3 DEF Types
    <3>2. rank[idx[t]] \div 2 \in Nat /\ Reset(idx[t]) \in Nat
      BY <3>1 DEF Reset
    <3> QED BY <2>2, <3>2 DEF HalveVertex, Types
  <2> QED BY <2>1, <2>2
<1>6. Types'
  BY <1>1, <1>4, <1>5 DEF Types, call
<1>7. Control'
  <2>1. \A u \in Thread : pc'[u] = pc[u] /\ stop'[u] = stop[u] /\ pc[u] \notin {"edge", "cas"}
    BY <1>1 DEF Control
  <2>2. \A u \in Thread : u # t => idx'[u] = idx[u]
    BY <1>1 DEF NextVertex, Types
  <2> QED BY <1>1, <1>4, <2>1, <2>2 DEF Control
<1>8. Counting'
  BY <1>1 DEF Counting, call
<1>9. Contents'
  <2>1. CASE FillVertex(t)
    <3>1. prev' = [prev EXCEPT ![idx[t]] = 4] /\ rank' = rank /\ main = "fill" /\ main' = main
      BY <2>1 DEF FillVertex
    <3> QED BY <1>3, <1>4, <3>1 DEF Contents, Types
  <2>2. CASE HalveVertex(t)
    <3>1. rank' = [rank EXCEPT ![idx[t]] = 0] /\ main = "halve" /\ main' = main
      BY <2>2 DEF HalveVertex, Reset
    <3> QED BY <1>3, <1>4, <3>1 DEF Contents, Types
  <2> QED BY <2>1, <2>2
<1>10. AddsAreExact'
  BY <1>1 DEF AddsAreExact
<1> QED BY <1>4, <1>6, <1>7, <1>8, <1>9, <1>10

\* Steps of a body within its range that write no array: who waits stays the
\* same, and what has to be shown is that the body is where it should be and
\* that the same edges are added.
LEMMA LocalStepInv ==
  ASSUME IInv, NEW t \in Thread, Types',
         UNCHANGED <<call, rank, prev, it, main, pending, idx, stop>>, main = "push", idx[t] < stop[t],
         \A u \in Thread : u # t => pc'[u] = pc[u] /\ beg'[u] = beg[u],
         pc'[t] \in {"edge", "cas"}, pc'[t] = "cas" => HasEdge(t)',
         graph.out_edge_offsets[idx[t]] <= beg'[t], beg'[t] <= graph.out_edge_offsets[idx[t] + 1],
         \A k \in Edge(graph) : SourceOf(graph, k) = idx[t] =>
           (k < beg'[t] <=> pc[t] \in {"edge", "cas"} /\ k < beg[t])
  PROVE  IInv'
<1> USE DEF IInv
<1>1. graph' = graph /\ idx' = idx /\ stop' = stop /\ main' = main /\ graph \in Graphs
  BY DEF call, Types
<1>2. Sharing' /\ \A v \in Node : Waiting(v)' <=> Waiting(v)
  BY RangesKeep
<1>3. Control'
  <2>1. \A u \in Thread : u # t => (HasEdge(u)' <=> HasEdge(u))
    BY <1>1 DEF HasEdge
  <2> QED BY <1>1, <2>1 DEF Control
<1>4. Counting' /\ Contents'
  BY <1>1, <1>2 DEF Counting, Contents, call
<1>5. AddsAreExact'
  <2>1. ASSUME NEW k \in Edge(graph) PROVE Added(k)' <=> Added(k)
    <3>1. SourceOf(graph, k) \in Node
      BY <1>1, SourceIs
    <3> QED BY <1>1, <1>2, <3>1 DEF Added
  <2> QED BY <2>1, ExactStays DEF call
<1> QED BY <1>2, <1>3, <1>4, <1>5

LEMMA PushVertexInv ==
  ASSUME IInv, NEW t \in Thread, PushVertex(t) PROVE IInv'
<1> USE DEF IInv
<1>1. /\ pc[t] = "vertex" /\ idx[t] # stop[t] /\ main = "push"
      /\ UNCHANGED <<call, rank, prev, it, main, pending, idx, stop, old_val>>
      /\ pc' = [pc EXCEPT ![t] = "edge"]
      /\ beg' = [beg EXCEPT ![t] = graph.out_edge_offsets[idx[t]]]
  BY DEF PushVertex, Vertex, Goto
<1>2. idx[t] < stop[t]
  BY <1>1, MineType DEF Control
<1>3. idx[t] \in Node /\ graph \in Graphs
  BY <1>2, MineType DEF Types
<1>4. /\ graph.out_edge_offsets[idx[t]] \in Nat /\ graph.out_edge_offsets[idx[t] + 1] \in Nat
      /\ graph.out_edge_offsets[idx[t]] <= graph.out_edge_offsets[idx[t] + 1]
  BY <1>3, NodeType, OffsetType, GraphType
<1>5. /\ pc'[t] = "edge" /\ beg'[t] = graph.out_edge_offsets[idx[t]]
      /\ \A u \in Thread : u # t => pc'[u] = pc[u] /\ beg'[u] = beg[u]
  BY <1>1 DEF Types
<1>6. Types'
  BY <1>1, <1>4 DEF Types, call
<1>7. ASSUME NEW k \in Edge(graph), SourceOf(graph, k) = idx[t] PROVE ~(k < beg'[t])
  <2>1. k \in Row(graph, idx[t]) /\ k \in Int
    BY <1>3, <1>7, SourceIs DEF Edge
  <2> QED BY <1>4, <1>5, <2>1 DEF Row
<1> QED BY <1>1, <1>2, <1>4, <1>5, <1>6, <1>7, LocalStepInv

LEMMA LoadInv ==
  ASSUME IInv, NEW t \in Thread, Load(t) PROVE IInv'
<1> USE DEF IInv
<1>1. /\ pc[t] = "edge" /\ HasEdge(t)
      /\ UNCHANGED <<call, rank, prev, it, main, pending, idx, stop, beg>>
      /\ pc' = [pc EXCEPT ![t] = "cas"]
      /\ old_val' = [old_val EXCEPT ![t] = rank[Dst(t)]]
  BY DEF Load, Goto
<1>2. idx[t] < stop[t] /\ main = "push" /\ Dst(t) \in Node
  BY <1>1, AtEdge
<1>3. /\ pc'[t] = "cas" /\ beg' = beg /\ (HasEdge(t)' <=> HasEdge(t))
      /\ \A u \in Thread : u # t => pc'[u] = pc[u] /\ beg'[u] = beg[u]
  BY <1>1 DEF Types, HasEdge, call
<1>4. Types'
  BY <1>1, <1>2 DEF Types, call
<1>5. /\ graph.out_edge_offsets[idx[t]] <= beg[t]
      /\ beg[t] <= graph.out_edge_offsets[idx[t] + 1]
  BY <1>1 DEF Control
<1> QED BY <1>1, <1>2, <1>3, <1>4, <1>5, LocalStepInv

\* The swap: what it stores is the old value and the delta, or it is tried
\* again.
LEMMA CasInv ==
  ASSUME IInv, NEW t \in Thread, Cas(t) PROVE IInv'
<1> USE DEF IInv
<1>1. /\ pc[t] = "cas" /\ HasEdge(t) /\ graph \in Graphs
      /\ UNCHANGED <<call, prev, it, main, pending, idx, stop>>
      /\ pc' = [pc EXCEPT ![t] = "edge"]
      /\ old_val' = [old_val EXCEPT ![t] = 0]
  BY DEF Cas, Goto, Control, LoadAgain, Types
<1> DEFINE u == idx[t]
           k == beg[t]
           w == Dst(t)
<1>2. /\ u \in Node /\ u < stop[t] /\ main = "push" /\ k \in Edge(graph) /\ k \in Row(graph, u)
      /\ w \in Node /\ SourceOf(graph, k) = u /\ k + 1 <= graph.out_edge_offsets[u + 1] /\ k \in Nat
  BY <1>1, AtEdge DEF Types
<1>3. /\ pc'[t] = "edge" /\ graph' = graph /\ idx' = idx /\ stop' = stop /\ main' = main
      /\ \A x \in Thread : x # t => pc'[x] = pc[x]
  BY <1>1 DEF Types, call
<1>4. old_val' \in [Thread -> Nat] /\ pc' \in [Thread -> {"idle", "vertex", "edge", "cas"}]
  BY <1>1 DEF Types
<1>5. /\ graph.out_edge_offsets[u] <= k
      /\ k <= graph.out_edge_offsets[u + 1]
  BY <1>1 DEF Control
<1>6. CASE ~Unchanged(t)
  <2>1. rank' = rank /\ beg' = beg
    BY <1>1, <1>6 DEF Cas
  <2>2. Types'
    BY <1>1, <1>4, <2>1 DEF Types, call
  <2> QED BY <1>1, <1>2, <1>3, <1>5, <2>1, <2>2, LocalStepInv
<1>7. CASE Unchanged(t)
  <2>1. /\ rank' = [rank EXCEPT ![w] = (rank[w] + prev[u] \div 2) % PropModulus]
        /\ beg' = [beg EXCEPT ![t] = k + 1]
    BY <1>1, <1>7 DEF Cas, Unchanged
  <2>2. beg'[t] = k + 1 /\ \A x \in Thread : x # t => beg'[x] = beg[x]
    BY <2>1 DEF Types
  <2>3. Types'
    <3>1. rank[w] \in Nat /\ prev[u] \in Nat
      BY <1>2 DEF Types
    <3>2. prev[u] \div 2 \in Nat
      BY <3>1
    <3>3. (rank[w] + prev[u] \div 2) % PropModulus \in Nat
      BY <3>1, <3>2, ModulusAssumption
    <3> HIDE DEF u, k, w
    <3>4. rank' \in [Node -> Nat]
      BY <1>2, <2>1, <3>3 DEF Types
    <3>5. beg' \in [Thread -> Nat]
      BY <1>2, <2>1 DEF Types
    <3> QED BY <1>1, <1>4, <3>4, <3>5 DEF Types, call
  <2>4. Sharing' /\ \A v \in Node : Waiting(v)' <=> Waiting(v)
    BY <1>1, RangesKeep
  <2>5. Control'
    <3>1. \A x \in Thread : x # t => (HasEdge(x)' <=> HasEdge(x))
      BY <1>3, <2>2 DEF HasEdge
    <3>2. graph.out_edge_offsets[u] <= k + 1
      <4>1. graph.out_edge_offsets[u] \in Nat
        BY <1>1, <1>2, NodeType, OffsetType
      <4> QED BY <1>2, <1>5, <4>1
    <3> QED BY <1>2, <1>3, <2>2, <3>1, <3>2 DEF Control
  <2>6. Counting' /\ Contents'
    BY <1>1, <1>2 DEF Counting, Contents, call
  <2>7. k \notin AddedEdges
    <3>1. Waiting(u) /\ \A x \in Thread : x # t => idx[x] # u \/ idx[x] = stop[x]
      <4>1. u \in Mine(t)
        BY <1>2, MineType
      <4>2. ASSUME NEW x \in Thread, x # t, idx[x] = u PROVE idx[x] = stop[x]
        <5>1. ~(idx[x] < stop[x])
          BY <4>1, <4>2, MineType DEF Sharing
        <5> QED BY <5>1, MineType DEF Control
      <4> QED BY <4>1, <4>2, WaitingIs
    <3>2. \A x \in Thread : pc[x] \in {"edge", "cas"} => idx[x] < stop[x] /\ idx[x] # stop[x]
      BY MineType DEF Control
    <3> QED BY <1>2, <3>1, <3>2 DEF AddedEdges, Added
  <2>8. AddedEdges' = AddedEdges \cup {k}
    <3>1. ASSUME NEW j \in Edge(graph) PROVE Added(j)' <=> Added(j) \/ j = k
      <4>1. SourceOf(graph, j) \in Node /\ j \in Int
        BY <1>1, SourceIs DEF Edge
      <4>2. j < k + 1 <=> j < k \/ j = k
        BY <1>2, <4>1
      <4> QED BY <1>1, <1>2, <1>3, <2>2, <2>4, <4>1, <4>2 DEF Added
    <3> QED BY <1>2, <1>3, <3>1 DEF AddedEdges, Edge
  <2>9. AddsAreExact'
    <3> SUFFICES ASSUME NEW v \in Node PROVE rank'[v] = Received(graph, prev, AddedEdges', v)
      <4>1. AddsAreExact' <=>
              (main' = "push" => \A v \in Node : rank'[v] = Received(graph', prev', AddedEdges', v))
        BY DEF AddsAreExact, AddedEdges, Edge
      <4> QED BY <1>1, <1>3, <4>1
    <3>1. Received(graph, prev, AddedEdges \cup {k}, v) =
            IF w = v THEN (Received(graph, prev, AddedEdges, v) + prev[u] \div 2) % PropModulus
                     ELSE Received(graph, prev, AddedEdges, v)
      <4>1. AddedEdges \in SUBSET Edge(graph) /\ k \in Edge(graph) \ AddedEdges
            /\ prev \in [Node -> Nat] /\ graph \in Graphs
        BY <1>1, <1>2, <2>7 DEF AddedEdges, Types
      <4>2. w = graph.out_edges[k] /\ SourceOf(graph, k) = u
        BY <1>2 DEF Dst
      <4> HIDE DEF u, k, w
      <4> QED BY <4>1, <4>2, ReceivedNext
    <3>2. rank[v] = Received(graph, prev, AddedEdges, v)
      BY <1>2, ExactIs
    <3>3. rank'[v] = IF w = v THEN (rank[v] + prev[u] \div 2) % PropModulus ELSE rank[v]
      BY <1>2, <2>1 DEF Types
    <3> HIDE DEF u, k, w
    <3> QED BY <2>8, <3>1, <3>2, <3>3
  <2> QED BY <2>3, <2>4, <2>5, <2>6, <2>9
<1> QED BY <1>6, <1>7

\* All edges of the vertex a body leaves are added.
LEMMA EndVertexInv ==
  ASSUME IInv, NEW t \in Thread, EndVertex(t) PROVE IInv'
<1> USE DEF IInv
<1> DEFINE u == idx[t]
<1>1. /\ pc[t] = "edge" /\ ~HasEdge(t) /\ NextVertex(t)
      /\ UNCHANGED <<call, rank, prev, it, main, pending, stop, beg, old_val>>
      /\ pc' = [pc EXCEPT ![t] = "vertex"] /\ graph \in Graphs
  BY DEF EndVertex, Goto, Types
<1>2. u \in Node /\ u < stop[t] /\ main = "push"
  BY <1>1, AtEdge
<1>3. /\ Sharing' /\ (\A v \in Node : Waiting(v)' <=> Waiting(v) /\ v # u)
      /\ idx' \in [Thread -> 0 .. NB_NODES] /\ idx'[t] <= stop[t]
  BY <1>1, <1>2, AdvanceLeaves
<1>4. /\ pc'[t] = "vertex" /\ graph' = graph /\ main' = main /\ beg' = beg /\ stop' = stop
      /\ \A x \in Thread : x # t => pc'[x] = pc[x] /\ idx'[x] = idx[x]
  BY <1>1 DEF Types, call, NextVertex
<1>5. Types'
  BY <1>1, <1>3 DEF Types, call
<1>6. Control'
  <2>1. \A x \in Thread : x # t => (HasEdge(x)' <=> HasEdge(x))
    BY <1>4 DEF HasEdge
  <2> QED BY <1>2, <1>3, <1>4, <2>1 DEF Control
<1>7. Counting' /\ Contents'
  BY <1>1, <1>2 DEF Counting, Contents, call
<1>8. AddsAreExact'
  <2>1. ASSUME NEW k \in Edge(graph) PROVE Added(k)' <=> Added(k)
    <3>1. SourceOf(graph, k) \in Node /\ k \in Row(graph, SourceOf(graph, k)) /\ k \in Int
      BY <1>1, SourceIs DEF Edge
    <3>2. SourceOf(graph, k) = u => k < beg[t]
      BY <1>1, <1>2, <3>1, NodeType, OffsetType DEF Row, HasEdge, Types
    <3> HIDE DEF u
    <3>3. CASE SourceOf(graph, k) = u
      <4>1. Added(k)
        BY <1>1, <3>2, <3>3 DEF Added, u
      <4>2. Added(k)'
        BY <1>3, <1>4, <3>1, <3>3 DEF Added
      <4> QED BY <4>1, <4>2
    <3>4. CASE SourceOf(graph, k) # u
      BY <1>1, <1>3, <1>4, <3>1, <3>4 DEF Added, u
    <3> QED BY <3>3, <3>4
  <2> QED BY <1>1, <1>2, <2>1, ExactStays DEF call
<1> QED BY <1>3, <1>5, <1>6, <1>7, <1>8

LEMMA NextInv == ASSUME IInv, [Next]_vars PROVE IInv'
<1>1. CASE MainStep
  BY <1>1, MainStepInv
<1>2. ASSUME NEW t \in Thread, TakeRange(t) \/ BodyStep(t) PROVE IInv'
  BY <1>2, TakeRangeInv, EndRangeInv, WriteVertexInv, PushVertexInv, EndVertexInv, LoadInv, CasInv
     DEF BodyStep
<1>3. CASE UNCHANGED vars
  <2>1. UNCHANGED <<graph, iteration, opt, rank, prev, it, main, pending, pc, idx, stop, beg, old_val>>
    BY <1>3 DEF vars, call, locals
  <2> QED BY <2>1 DEF IInv, Types, Control, ParallelForEnds, HasEdge, Sharing, Mine, Counting,
       Contents, Waiting, AddsAreExact, Added
<1> QED BY <1>1, <1>2, <1>3 DEF Next, Terminated

\* No addition of a round is lost or made twice, for every graph, number of
\* threads and width of PROP_TY, however the loads and swaps of the bodies
\* fall between each other.
THEOREM ExactAdds == SafeSpec => []AddsAreExact
<1>1. IInv => AddsAreExact
  BY DEF IInv
<1> QED BY <1>1, InitInv, NextInv, PTL DEF SafeSpec

-----------------------------------------------------------------------------
(* The rounds of PageRounds. *)

\* What PageRounds means by what a vertex receives.
LEMMA RoundsReceive ==
  ASSUME NEW g, NEW from, NEW S, NEW v
  PROVE  Rounds!Received(g, from, S, v) = Received(g, from, S, v)
BY DEF Rounds!Received, Rounds!Deltas, Rounds!SourceOf, Rounds!Node,
       Rounds!SumFunctionOnSet, Rounds!FoldFunctionOnSet, Rounds!MapThenFoldSet,
       Received, Deltas, SourceOf, Node, SumFunctionOnSet, FoldFunctionOnSet, MapThenFoldSet

\* The scores, loop by loop.
halfWay == [v \in Node |-> IF Waiting(v) THEN rank[v] \div 2 ELSE prev[v]]

LEMMA ScoreIs ==
  /\ main \in {"assert", "fill"} => scoreBar = [v \in Node |-> 4]
  /\ main = "halve" => scoreBar = halfWay
  /\ main \notin {"assert", "fill", "halve"} => scoreBar = prev
BY DEF scoreBar, halfWay

LEMMA ScoreIsNext ==
  /\ main' \in {"assert", "fill"} => scoreBar' = [v \in Node |-> 4]
  /\ main' = "halve" => scoreBar' = halfWay'
  /\ main' \notin {"assert", "fill", "halve"} => scoreBar' = prev'
BY DEF scoreBar, halfWay

\* When the first loop has ended, rank holds what every vertex receives.
LEMMA AllReceived ==
  ASSUME IInv, PushJoin
  PROVE  \A v \in Node : rank[v] = Received(graph, prev, 0 .. graph.nb_edges - 1, v)
<1>1. \A v : ~Waiting(v)
  BY NobodyWaits DEF IInv, PushJoin
<1>2. AddedEdges = 0 .. graph.nb_edges - 1
  BY <1>1 DEF AddedEdges, Added, Edge
<1> QED BY <1>2, ExactIs DEF IInv, PushJoin

\* The join of the first loop is a round.
LEMMA JoinIsRound ==
  ASSUME IInv, PushJoin PROVE Rounds!Round
<1>1. /\ main = "push" /\ main' = "halve" /\ pending' = Node
      /\ UNCHANGED <<call, rank, prev, it, idx, stop>> /\ it \in Nat /\ iteration \in Int /\ it <= iteration
  BY DEF PushJoin, locals, IInv, Counting, Types
<1>2. roundBar = it - 1 /\ roundBar' = it
  BY <1>1 DEF roundBar
<1>3. roundBar < iteration /\ roundBar' = roundBar + 1
  BY <1>1, <1>2
<1>4. scoreBar = prev
  BY <1>1, ScoreIs
<1>5. halfWay' = [v \in Node |-> rank[v] \div 2]
  BY <1>1 DEF halfWay, Waiting
<1>6. [v \in Node |-> rank[v] \div 2]
        = [v \in Node |-> Rounds!Received(graph, scoreBar, 0 .. graph.nb_edges - 1, v) \div 2]
  <2>1. ASSUME NEW v \in Node
        PROVE  rank[v] = Rounds!Received(graph, scoreBar, 0 .. graph.nb_edges - 1, v)
    BY <1>4, AllReceived, RoundsReceive
  <2> QED BY <2>1
<1>7. scoreBar' = [v \in Rounds!Node |-> Rounds!Received(graph, scoreBar, 0 .. graph.nb_edges - 1, v) \div 2]
  <2>1. Rounds!Node = Node
    BY DEF Rounds!Node, Node
  <2>2. scoreBar' = halfWay'
    BY <1>1, ScoreIsNext
  <2> QED BY <1>5, <1>6, <2>1, <2>2
<1>8. graph' = graph /\ iteration' = iteration
  BY <1>1 DEF call
<1> QED BY <1>3, <1>7, <1>8 DEF Rounds!Round

LEMMA VarsStutter ==
  ASSUME UNCHANGED vars PROVE UNCHANGED <<graph, iteration, scoreBar, roundBar>>
<1>1. UNCHANGED <<graph, iteration, rank, prev, it, main, pending, idx, stop>>
  BY DEF vars, call, locals
<1> QED BY <1>1 DEF scoreBar, roundBar, Waiting

\* All other steps are stutters.
LEMMA OthersStutter ==
  ASSUME IInv, Next, ~PushJoin
  PROVE  UNCHANGED <<graph, iteration, scoreBar, roundBar>>
<1> USE DEF IInv
<1>1. CASE Choose
  <2>1. main = "fill" /\ main' \in {"head", "done", "die"} /\ UNCHANGED <<call, prev, it>> /\ it = 0
    BY <1>1 DEF Choose, Counting
  <2>2. \A v \in Node : prev[v] = 4
    BY <1>1, NobodyWaits DEF Choose, Contents
  <2>3. prev = [v \in Node |-> 4]
    BY <2>2 DEF Types
  <2>4. scoreBar = [v \in Node |-> 4] /\ scoreBar' = prev'
    BY <2>1, ScoreIs, ScoreIsNext
  <2> QED BY <2>1, <2>3, <2>4 DEF roundBar, call
<1>2. CASE NextRound
  <2>1. main = "head" /\ main' \in {"push", "done"} /\ UNCHANGED <<call, prev>> /\ it' = it + 1 /\ it \in Nat
    BY <1>2 DEF NextRound, Types
  <2>2. scoreBar = prev /\ scoreBar' = prev'
    BY <2>1, ScoreIs, ScoreIsNext
  <2> QED BY <2>1, <2>2 DEF roundBar, call
<1>3. CASE HalveJoin
  <2>1. main = "halve" /\ main' = "head" /\ UNCHANGED <<call, prev, it>>
    BY <1>3 DEF HalveJoin
  <2>2. halfWay = prev
    <3>1. \A v : ~Waiting(v)
      BY <1>3, NobodyWaits DEF HalveJoin
    <3> QED BY <3>1 DEF halfWay, Types
  <2>3. scoreBar = halfWay /\ scoreBar' = prev'
    BY <2>1, ScoreIs, ScoreIsNext
  <2> QED BY <2>1, <2>2, <2>3 DEF roundBar, call
<1>4. ASSUME NEW t \in Thread, TakeRange(t) \/ EndRange(t)
      PROVE  UNCHANGED <<graph, iteration, scoreBar, roundBar>>
  <2>1. UNCHANGED <<call, rank, prev, it, main>>
    BY <1>4 DEF TakeRange, EndRange
  <2>2. ASSUME main = "halve" PROVE halfWay' = halfWay
    <3>1. \A v \in Node : Waiting(v)' <=> Waiting(v)
      BY <1>4, TakeKeeps, EndKeeps
    <3> QED BY <2>1, <3>1 DEF halfWay
  <2>3. scoreBar' = scoreBar
    BY <2>1, <2>2, ScoreIs, ScoreIsNext
  <2> QED BY <2>1, <2>3 DEF roundBar, call
<1>5. ASSUME NEW t \in Thread, FillVertex(t)
      PROVE  UNCHANGED <<graph, iteration, scoreBar, roundBar>>
  <2>1. main = "fill" /\ UNCHANGED <<call, it, main>>
    BY <1>5 DEF FillVertex
  <2> QED BY <2>1, ScoreIs, ScoreIsNext DEF roundBar, call
<1>6. ASSUME NEW t \in Thread, HalveVertex(t)
      PROVE  UNCHANGED <<graph, iteration, scoreBar, roundBar>>
  <2>1. /\ main = "halve" /\ UNCHANGED <<call, it, main, pending, stop>>
        /\ prev' = [prev EXCEPT ![idx[t]] = rank[idx[t]] \div 2]
        /\ rank' = [rank EXCEPT ![idx[t]] = Reset(idx[t])] /\ NextVertex(t)
    BY <1>6 DEF HalveVertex
  <2>2. idx[t] < stop[t]
    BY <1>6, MineType DEF HalveVertex, Vertex, Control
  <2>3. idx[t] \in Node
    BY <2>2, MineType
  <2>4. (\A v \in Node : Waiting(v)' <=> Waiting(v) /\ v # idx[t]) /\ Waiting(idx[t])
    BY <2>1, <2>2, AdvanceLeaves
  <2>5. halfWay' = halfWay
    <3>1. ASSUME NEW v \in Node
          PROVE  (IF Waiting(v)' THEN rank'[v] \div 2 ELSE prev'[v])
                   = IF Waiting(v) THEN rank[v] \div 2 ELSE prev[v]
      <4>1. CASE v = idx[t]
        BY <2>1, <2>3, <2>4, <4>1 DEF Types
      <4>2. CASE v # idx[t]
        BY <2>1, <2>3, <2>4, <4>2 DEF Types
      <4> QED BY <4>1, <4>2
    <3> QED BY <3>1 DEF halfWay
  <2>6. scoreBar' = scoreBar
    BY <2>1, <2>5, ScoreIs, ScoreIsNext
  <2> QED BY <2>1, <2>6 DEF roundBar, call
<1>7. ASSUME NEW t \in Thread, PushVertex(t) \/ EndVertex(t) \/ Load(t) \/ Cas(t)
      PROVE  UNCHANGED <<graph, iteration, scoreBar, roundBar>>
  <2>1. main = "push" /\ UNCHANGED <<call, it, main, prev>>
    BY <1>7 DEF PushVertex, EndVertex, Load, Cas, Control
  <2> QED BY <2>1, ScoreIs, ScoreIsNext DEF roundBar, call
<1>8. CASE Terminated
  BY <1>8, VarsStutter DEF Terminated
<1> QED BY <1>1, <1>2, <1>3, <1>4, <1>5, <1>6, <1>7, <1>8 DEF Next, MainStep, BodyStep

\* pr_push implements the rounds of PageRounds: all scores are replaced at
\* once, when the first loop ends, and no score is read half old and half new.
THEOREM RefinesRounds == SafeSpec => ImplementsRounds
<1>1. Init => Rounds!Init
  <2> SUFFICES ASSUME Init PROVE Rounds!Init
    OBVIOUS
  <2>1. main \in {"assert", "fill"} /\ it = 0
    BY DEF Init
  <2>2. scoreBar = [v \in Node |-> 4] /\ roundBar = 0
    BY <2>1, ScoreIs DEF roundBar
  <2> QED BY <2>2 DEF Rounds!Init, Rounds!Node, Node
<1>2. IInv /\ [Next]_vars => [Rounds!Round]_(Rounds!vars)
  <2> SUFFICES ASSUME IInv, [Next]_vars PROVE [Rounds!Round]_(Rounds!vars)
    OBVIOUS
  <2>1. CASE PushJoin
    BY <2>1, JoinIsRound
  <2>2. CASE Next /\ ~PushJoin
    BY <2>2, OthersStutter DEF Rounds!vars
  <2>3. CASE UNCHANGED vars
    BY <2>3, VarsStutter DEF Rounds!vars
  <2> QED BY <2>1, <2>2, <2>3
<1> QED BY <1>1, <1>2, InitInv, NextInv, PTL DEF SafeSpec, ImplementsRounds, Rounds!SafeSpec
=============================================================================

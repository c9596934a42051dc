--------------------------- MODULE ReorderProofs ---------------------------
(***************************************************************************)
(* sort_by_degree renames: for every number of vertices, every edge list   *)
(* and both options its output, if it gets that far, is the input with its *)
(* vertices renamed by a permutation, whatever malloc left in the degrees; *)
(* and the output is sorted if malloc left zeros and no vertex has more    *)
(* edges than its counter holds.                                           *)
(***************************************************************************)
EXTENDS Reorder, FiniteSetTheorems, TLAPS

\* The number the j-th vertex of the order gets.  The vertices behind 0 close
\* up, and the ones before it make room for it, when 0 keeps its number.
ZeroBefore(j) == \E k \in 0 .. j - 1 : ordered[k] = 0
Number(j) == IF ~opt.maintain THEN j
             ELSE IF ordered[j] = 0 THEN 0
             ELSE IF ZeroBefore(j) THEN j ELSE j + 1

Typed ==
  /\ input \in EdgeLists
  /\ opt \in [ascending : BOOLEAN, maintain : BOOLEAN]
  /\ edges \in [DOMAIN input -> Nat \X Nat]
  /\ ordered \in [Node -> Node] /\ IsInjective(ordered)
  /\ mapping \in [Node -> 0 .. NB_NODES]
  /\ i \in 0 .. NB_NODES /\ count \in Nat
  /\ main \in {"read", "count", "map", "rewrite", "done", "die", "undefined"}

\* The loops that number and rename have not started.
Early == {"read", "count"}
Ended == {"die", "undefined"}

\* count is the next number, and the vertices that had their turn have theirs.
Numbered ==
  /\ main \in Early => i = 0
  /\ main \notin Early \cup Ended =>
       /\ count = IF opt.maintain /\ ~ZeroBefore(i) THEN i + 1 ELSE i
       /\ \A j \in 0 .. i - 1 : mapping[ordered[j]] = Number(j)
  /\ main \in {"rewrite", "done"} => i = NB_NODES

\* Every end of every edge is renamed once.
RenamedOnce ==
  /\ main \in Early \cup {"map"} => edges = input
  /\ main = "rewrite" => \A e \in DOMAIN input :
                            edges[e] = IF e \in pending THEN input[e] ELSE Renamed(input[e])
  /\ main = "done" => \A e \in DOMAIN input : edges[e] = Renamed(input[e])

IInv == Typed /\ Numbered /\ RenamedOnce

-----------------------------------------------------------------------------
\* Every vertex has a place in the order.
LEMMA OrderIsOnto ==
  ASSUME NEW f \in [Node -> Node], IsInjective(f), NEW v \in Node
  PROVE  \E j \in Node : f[j] = v
<1> SUFFICES ASSUME \A j \in Node : f[j] # v PROVE FALSE
  OBVIOUS
<1>1. IsFiniteSet(Node) /\ Cardinality(Node) = NB_NODES
  BY NodesAssumption, FS_Interval DEF Node
<1>2. IsFiniteSet(Node \ {v}) /\ Cardinality(Node \ {v}) = NB_NODES - 1
  BY <1>1, FS_RemoveElement
<1>3. f \in [Node -> Node \ {v}]
  OBVIOUS
<1>4. Cardinality(Node \ {v}) < Cardinality(Node)
  BY <1>1, <1>2, NodesAssumption
<1>5. \E x, y \in Node : x # y /\ f[x] = f[y]
  BY ONLY <1>1, <1>2, <1>3, <1>4, FS_PigeonHole
<1> QED BY <1>5 DEF IsInjective

\* What the mapping loop numbers is a vertex, and no number is given twice.
LEMMA NumberInNode == ASSUME Typed, NEW j \in Node PROVE Number(j) \in Node
<1>1. j \in Nat /\ j < NB_NODES /\ 0 \in Node
  BY NodesAssumption DEF Node
<1>2. CASE ~opt.maintain \/ ordered[j] = 0 \/ ZeroBefore(j)
  BY <1>1, <1>2 DEF Number
<1>3. CASE opt.maintain /\ ordered[j] # 0 /\ ~ZeroBefore(j)
  <2>1. PICK z \in Node : ordered[z] = 0
    BY <1>1, OrderIsOnto DEF Typed
  <2>2. z > j
    BY <1>1, <1>3, <2>1, NodesAssumption DEF ZeroBefore, Node
  <2>3. j + 1 \in Node
    BY <1>1, <2>2, NodesAssumption DEF Node
  <2> QED BY <1>3, <2>3 DEF Number
<1> QED BY <1>2, <1>3

LEMMA NumbersDiffer ==
  ASSUME Typed, NEW j \in Node, NEW k \in Node, j < k PROVE Number(j) # Number(k)
<1>1. j \in Nat /\ k \in Nat
  BY NodesAssumption DEF Node
<1>2. ordered[j] # ordered[k]
  BY <1>1 DEF Typed, IsInjective
<1>3. CASE ~opt.maintain
  BY <1>1, <1>3 DEF Number
<1>4. CASE opt.maintain /\ ordered[j] = 0
  <2>1. ZeroBefore(k) /\ Number(k) = k
    BY <1>1, <1>2, <1>4 DEF ZeroBefore, Number
  <2> QED BY <1>1, <1>4, <2>1 DEF Number
<1>5. CASE opt.maintain /\ ordered[j] # 0 /\ ordered[k] = 0
  <2>1. ~ZeroBefore(j)
    <3>1. \A m \in 0 .. j - 1 : m \in Node /\ m # k
      BY <1>1, NodesAssumption DEF Node
    <3>2. \A m \in 0 .. j - 1 : ordered[m] # ordered[k]
      BY <3>1 DEF Typed, IsInjective
    <3> QED BY <1>5, <3>2 DEF ZeroBefore
  <2> QED BY <1>1, <1>5, <2>1 DEF Number
<1>6. CASE opt.maintain /\ ordered[j] # 0 /\ ordered[k] # 0
  <2>1. ZeroBefore(j) => ZeroBefore(k)
    BY <1>1 DEF ZeroBefore
  <2>2. ZeroBefore(k) /\ ~ZeroBefore(j) => j + 1 < k
    BY <1>1, <1>6 DEF ZeroBefore
  <2> QED BY <1>1, <1>6, <2>1, <2>2 DEF Number
<1> QED BY <1>3, <1>4, <1>5, <1>6

\* The complete mapping is a permutation, with -m one that keeps vertex 0.
LEMMA MappingIsPermutation ==
  ASSUME Typed, \A j \in Node : mapping[ordered[j]] = Number(j)
  PROVE  /\ mapping \in [Node -> Node] /\ IsInjective(mapping)
         /\ opt.maintain => mapping[0] = 0
<1>1. \A v \in Node : \E j \in Node : ordered[j] = v /\ mapping[v] = Number(j)
  BY OrderIsOnto DEF Typed
<1>2. mapping \in [Node -> Node]
  BY <1>1, NumberInNode DEF Typed
<1>3. ASSUME NEW v \in Node, NEW w \in Node, mapping[v] = mapping[w] PROVE v = w
  <2>1. PICK j \in Node : ordered[j] = v /\ mapping[v] = Number(j)
    BY <1>1
  <2>2. PICK k \in Node : ordered[k] = w /\ mapping[w] = Number(k)
    BY <1>1
  <2>3. ~(j < k) /\ ~(k < j)
    BY <1>3, <2>1, <2>2, NumbersDiffer
  <2>4. j = k
    BY <2>3, NodesAssumption DEF Node
  <2> QED BY <2>1, <2>2, <2>4
<1>4. opt.maintain => mapping[0] = 0
  <2>1. 0 \in Node
    BY NodesAssumption DEF Node
  <2> QED BY <1>1, <2>1 DEF Number
<1> QED BY <1>2, <1>3, <1>4 DEF IsInjective

-----------------------------------------------------------------------------
LEMMA InitInv == Init => IInv
<1> SUFFICES ASSUME Init PROVE IInv
  OBVIOUS
<1>1. input \in [DOMAIN input -> Nat \X Nat]
  BY EdgesAssumption DEF Init
<1>2. ordered \in [Node -> Node] /\ IsInjective(ordered)
  BY DEF Init, IsInjective
<1>3. mapping \in [Node -> 0 .. NB_NODES]
  BY NodesAssumption DEF Init, Unset
<1>4. Typed
  BY <1>1, <1>2, <1>3, NodesAssumption, OptionsAssumption DEF Init, Typed
<1> QED BY <1>4 DEF Init, IInv, Numbered, RenamedOnce, Early, Ended

LEMMA ReadEdgesInv == IInv /\ (ReadEdges \/ Strays) => IInv'
<1> SUFFICES ASSUME IInv, ReadEdges \/ Strays PROVE IInv'
  OBVIOUS
<1>1. /\ UNCHANGED <<zeroed, opt, input, edges, out_edge_offsets, ordered, mapping, count, i>>
      /\ main' \in Ended \/ (main = "read" /\ main' = "count")
  BY DEF ReadEdges, Strays, Ended
<1>2. Typed'
  BY <1>1 DEF IInv, Typed, Ended
<1>3. Numbered' /\ RenamedOnce'
  BY <1>1 DEF IInv, Numbered, RenamedOnce, Early, Ended
<1> QED BY <1>2, <1>3 DEF IInv

LEMMA CountEdgeInv == IInv /\ CountEdge => IInv'
<1> SUFFICES ASSUME IInv, CountEdge PROVE IInv'
  OBVIOUS
<1>1. /\ UNCHANGED <<zeroed, opt, input, edges, ordered, mapping, count, i, main>>
      /\ main = "count"
  BY DEF CountEdge
<1> QED BY <1>1 DEF IInv, Typed, Numbered, RenamedOnce, Early, Ended

LEMMA SortInv == IInv /\ Sort => IInv'
<1> SUFFICES ASSUME IInv, Sort PROVE IInv'
  OBVIOUS
<1> USE DEF IInv
<1>1. ordered' \in [Node -> Node] /\ IsInjective(ordered')
  BY DEF Sort, SortedOrders
<1>2. Typed'
  BY <1>1 DEF Sort, Typed
<1>3. i' = 0 /\ count' = (IF opt'.maintain THEN 1 ELSE 0) /\ main' = "map"
  BY DEF Sort, Numbered, Early
<1>4. ~ZeroBefore(i)'
  BY <1>3 DEF ZeroBefore
<1>5. Numbered'
  BY <1>3, <1>4 DEF Numbered, Early, Ended
<1>6. RenamedOnce'
  BY DEF Sort, RenamedOnce, Early
<1> QED BY <1>2, <1>5, <1>6

LEMMA MapNextInv == IInv /\ MapNext => IInv'
<1> SUFFICES ASSUME IInv, MapNext PROVE IInv'
  OBVIOUS
<1> USE DEF IInv
<1>1. /\ UNCHANGED <<zeroed, opt, input, edges, out_edge_offsets, ordered, pending, main>>
      /\ main = "map" /\ i' = i + 1 /\ i < NB_NODES
  BY DEF MapNext
<1>2. i \in Nat /\ i \in Node /\ i' \in 0 .. NB_NODES /\ ordered[i] \in Node /\ count \in Nat
  <2>1. i \in 0 .. NB_NODES /\ ordered \in [Node -> Node] /\ count \in Nat
    BY DEF Typed
  <2>2. i \in Nat /\ i \in Node /\ i' \in 0 .. NB_NODES
    BY <1>1, <2>1, NodesAssumption DEF Node
  <2> QED BY <2>1, <2>2
<1>3. count = IF opt.maintain /\ ~ZeroBefore(i) THEN i + 1 ELSE i
  BY <1>1 DEF Numbered, Early, Ended
<1>4. mapping' = [mapping EXCEPT ![ordered[i]] = Number(i)]
  <2>1. CASE opt.maintain /\ ordered[i] = 0
    BY <2>1 DEF MapNext, Number
  <2>2. CASE ~(opt.maintain /\ ordered[i] = 0)
    BY <1>3, <2>2 DEF MapNext, Number
  <2> QED BY <2>1, <2>2
<1>5. Number(i) \in Node
  BY <1>2, NumberInNode
<1>6. mapping' \in [Node -> 0 .. NB_NODES]
  <2>1. Number(i) \in 0 .. NB_NODES
    BY <1>5, NodesAssumption DEF Node
  <2>2. mapping \in [Node -> 0 .. NB_NODES]
    BY DEF Typed
  <2> QED BY <1>4, <2>1, <2>2
<1>7. count' \in Nat /\ Typed'
  <2>1. count' \in Nat
    BY <1>2 DEF MapNext, CountAfter
  <2> QED BY <1>1, <1>2, <1>6, <2>1 DEF Typed
<1>8. \A j \in Node : Number(j)' = Number(j)
  BY <1>1 DEF Number, ZeroBefore
<1>9. ASSUME NEW j \in 0 .. i' - 1 PROVE mapping'[ordered'[j]] = Number(j)'
  <2>1. j \in Node /\ (j = i \/ j \in 0 .. i - 1)
    BY <1>1, <1>2, NodesAssumption DEF Node
  <2>2. ordered[j] \in Node /\ (j # i => ordered[j] # ordered[i])
    BY <1>2, <2>1 DEF Typed, IsInjective
  <2>3. mapping'[ordered[j]] = IF j = i THEN Number(i) ELSE mapping[ordered[j]]
    BY <1>2, <1>4, <2>2 DEF Typed
  <2>4. j # i => mapping[ordered[j]] = Number(j)
    BY <1>1, <2>1 DEF Numbered, Early, Ended
  <2> QED BY <1>1, <1>8, <2>1, <2>3, <2>4
<1>10. ZeroBefore(i)' <=> ZeroBefore(i) \/ ordered[i] = 0
  BY <1>1, <1>2 DEF ZeroBefore
<1>11. ordered[i] = 0 => ~ZeroBefore(i)
  BY <1>2, NodesAssumption DEF Typed, IsInjective, ZeroBefore, Node
<1>12. count' = IF opt'.maintain /\ ~ZeroBefore(i)' THEN i' + 1 ELSE i'
  BY <1>1, <1>2, <1>3, <1>10, <1>11 DEF MapNext, CountAfter
<1>13. Numbered'
  BY <1>1, <1>9, <1>12 DEF Numbered, Early, Ended
<1>14. RenamedOnce'
  BY <1>1 DEF RenamedOnce, Early
<1> QED BY <1>7, <1>13, <1>14

LEMMA StartRewriteInv == IInv /\ StartRewrite => IInv'
<1> SUFFICES ASSUME IInv, StartRewrite PROVE IInv'
  OBVIOUS
<1> USE DEF IInv, StartRewrite
<1>1. Typed'
  BY DEF Typed
<1>2. Numbered'
  BY DEF Numbered, Number, ZeroBefore, Early, Ended
<1>3. RenamedOnce'
  BY DEF RenamedOnce, Early
<1> QED BY <1>1, <1>2, <1>3

LEMMA RewriteEdgeInv == IInv /\ RewriteEdge => IInv'
<1> SUFFICES ASSUME IInv, RewriteEdge PROVE IInv'
  OBVIOUS
<1> USE DEF IInv
<1>1. /\ UNCHANGED <<zeroed, opt, input, out_edge_offsets, ordered, mapping, count, i, main>>
      /\ main = "rewrite"
  BY DEF RewriteEdge
<1>2. PICK e \in pending : /\ edges[e] \in Node \X Node
                           /\ edges' = [edges EXCEPT ![e] = Renamed(@)]
                           /\ pending' = pending \ {e}
  BY DEF RewriteEdge
<1>3. \A j \in Node : mapping[ordered[j]] = Number(j)
  BY <1>1, NodesAssumption DEF Numbered, Typed, Node, Early, Ended
<1>4. mapping \in [Node -> Node]
  BY <1>3, MappingIsPermutation
<1>5. ASSUME NEW x \in Node \X Node PROVE Renamed(x) \in Node \X Node /\ Renamed(x)' = Renamed(x)
  BY <1>1, <1>4 DEF Renamed
<1>6. edges' \in [DOMAIN input -> Nat \X Nat]
  <2>1. Renamed(edges[e]) \in Nat \X Nat
    BY <1>2, <1>5, NodesAssumption DEF Node
  <2> QED BY <1>2, <2>1 DEF Typed
<1>7. Typed'
  BY <1>1, <1>6 DEF Typed
<1>8. Numbered'
  BY <1>1 DEF Numbered, Number, ZeroBefore, Early, Ended
<1>9. \A k \in DOMAIN input :
         edges'[k] = IF k \in pending' THEN input[k] ELSE Renamed(input[k])
  BY <1>1, <1>2 DEF RenamedOnce, Typed
<1>10. \A k \in DOMAIN input : Renamed(input[k])' = Renamed(input[k])
  BY <1>1 DEF Renamed
<1>11. RenamedOnce'
  BY <1>1, <1>9, <1>10 DEF RenamedOnce, Early
<1> QED BY <1>7, <1>8, <1>11

LEMMA OutputInv == IInv /\ Output => IInv'
<1> SUFFICES ASSUME IInv, Output PROVE IInv'
  OBVIOUS
<1> USE DEF IInv, Output
<1>1. Typed'
  BY DEF Typed
<1>2. Numbered'
  BY DEF Numbered, Number, ZeroBefore, Early, Ended
<1>3. RenamedOnce'
  BY DEF RenamedOnce, Renamed, Early
<1> QED BY <1>1, <1>2, <1>3

LEMMA StutterInv == IInv /\ UNCHANGED vars => IInv'
BY DEF IInv, vars, Typed, Numbered, Number, ZeroBefore, RenamedOnce, Renamed

LEMMA NextInv == IInv /\ [Next]_vars => IInv'
BY ReadEdgesInv, CountEdgeInv, SortInv, MapNextInv, StartRewriteInv, RewriteEdgeInv, OutputInv, StutterInv
   DEF Next, Terminated

\* What sort_by_degree writes is the graph it read under other vertex numbers,
\* for every edge list with ids below -v (it writes none for another) and both
\* options, even when the degrees it sorts by are wrong.
THEOREM Relabels == Spec => []OutputIsRelabelling
<1>1. ASSUME IInv PROVE OutputIsRelabelling
  <2>1. CASE main \in {"rewrite", "done"}
    <3>1. \A j \in Node : mapping[ordered[j]] = Number(j)
      BY <1>1, <2>1, NodesAssumption DEF IInv, Numbered, Node, Early, Ended
    <3> QED BY <1>1, <2>1, <3>1, MappingIsPermutation DEF IInv, RenamedOnce, OutputIsRelabelling
  <2>2. CASE main \notin {"rewrite", "done"}
    BY <2>2 DEF OutputIsRelabelling
  <2> QED BY <2>1, <2>2
<1> QED BY <1>1, InitInv, NextInv, PTL DEF Spec

-----------------------------------------------------------------------------
(* The output is sorted if the degrees were counted up from 0. *)

Leaving(E, v) == {e \in E : input[e][1] = v}

\* No degree is more than its counter holds.
RowsFit == \A v \in Node : Cardinality(Leaving(DOMAIN input, v)) < CounterModulus

\* The edges that had their turn, all when the loop is over: they leave
\* vertices, and are counted.
Turned == IF main = "read" THEN {}
          ELSE IF main = "count" THEN DOMAIN input \ pending ELSE DOMAIN input
Counted ==
  /\ out_edge_offsets \in [Node -> Nat]
  /\ main = "count" => pending \subseteq DOMAIN input
  /\ main \notin Ended =>
       /\ \A e \in Turned : input[e][1] \in Node
       /\ zeroed /\ RowsFit =>
            \A v \in Node : out_edge_offsets[v] = Cardinality(Leaving(Turned, v))

\* The order is by degree.
Ordered == main \notin Early \cup Ended => \A j, k \in Node : j < k => ~Before(ordered[k], ordered[j])

CInv == Counted /\ Ordered

\* There are finitely many edges, and so finitely many that leave a vertex.
LEMMA LeavingFinite ==
  ASSUME Typed, NEW E \in SUBSET DOMAIN input, NEW v
  PROVE  IsFiniteSet(Leaving(E, v)) /\ Cardinality(Leaving(E, v)) \in Nat
<1>1. IsFiniteSet(DOMAIN input)
  BY EdgesAssumption DEF Typed
<1>2. Leaving(E, v) \subseteq DOMAIN input
  BY DEF Leaving
<1> QED BY <1>1, <1>2, FS_Subset, FS_CardinalityType

LEMMA CountedInit == Init => CInv
<1> SUFFICES ASSUME Init PROVE CInv
  OBVIOUS
<1>1. Turned = {} /\ \A v \in Node : Leaving(Turned, v) = {}
  BY DEF Init, Leaving, Turned
<1>2. out_edge_offsets \in [Node -> Nat]
  <2> DEFINE Fresh == IF zeroed THEN {0} ELSE Garbage
  <2>1. out_edge_offsets \in [Node -> Fresh]
    BY DEF Init
  <2>2. Fresh \subseteq Nat
    BY GarbageAssumption, CounterAssumption
  <2> HIDE DEF Fresh
  <2> QED BY <2>1, <2>2
<1> QED BY <1>1, <1>2, FS_EmptySet DEF Init, CInv, Counted, Ordered, Early

LEMMA ReadEdgesCounts == CInv /\ (ReadEdges \/ Strays) => CInv'
<1> SUFFICES ASSUME CInv, ReadEdges \/ Strays PROVE CInv'
  OBVIOUS
<1>1. UNCHANGED <<zeroed, opt, input, out_edge_offsets, ordered>>
  BY DEF ReadEdges, Strays
<1>2. CASE main' \in Ended
  BY <1>1, <1>2 DEF CInv, Counted, Ordered, Ended
<1>3. CASE main' \notin Ended
  <2>1. main = "read" /\ main' = "count" /\ pending' = DOMAIN input
    BY <1>3 DEF ReadEdges, Strays, Ended
  <2>2. Turned = {} /\ Turned' = {}
    BY <1>1, <2>1 DEF Turned
  <2>3. RowsFit' = RowsFit /\ \A v \in Node : Leaving(Turned, v)' = Leaving(Turned, v)
    BY <1>1, <2>2 DEF RowsFit, Leaving
  <2> QED BY <1>1, <2>1, <2>2, <2>3 DEF CInv, Counted, Ordered, Early, Ended
<1> QED BY <1>2, <1>3

\* The edge whose source is counted is the one that leaves pending.
LEMMA CountEdgeCounts == IInv /\ CInv /\ CountEdge => CInv'
<1> SUFFICES ASSUME IInv, CInv, CountEdge PROVE CInv'
  OBVIOUS
<1> USE DEF CInv
<1>1. PICK e \in pending :
        /\ edges[e][1] \in Node
        /\ out_edge_offsets' = [out_edge_offsets EXCEPT ![edges[e][1]] = (@ + 1) % CounterModulus]
        /\ pending' = pending \ {e}
  BY DEF CountEdge
<1>2. UNCHANGED <<zeroed, input, main>> /\ main = "count" /\ edges = input
  BY DEF CountEdge, IInv, RenamedOnce, Early
<1>3. e \in DOMAIN input /\ pending \subseteq DOMAIN input
  BY <1>2 DEF Counted
<1>4. input[e][1] \in Node
  BY <1>1, <1>2
<1> DEFINE u == input[e][1]
<1>5. Turned' = Turned \cup {e} /\ e \notin Turned /\ Turned \subseteq DOMAIN input
  BY <1>1, <1>2, <1>3 DEF Turned
<1>6. ASSUME NEW v \in Node
      PROVE  /\ Leaving(Turned, v)' = IF v = u THEN Leaving(Turned, v) \cup {e} ELSE Leaving(Turned, v)
             /\ e \notin Leaving(Turned, v)
             /\ Leaving(Turned, v)' \subseteq Leaving(DOMAIN input, v)
  BY <1>2, <1>3, <1>5 DEF Leaving
<1>7. ASSUME NEW v \in Node, zeroed, RowsFit
      PROVE  out_edge_offsets'[v] = Cardinality(Leaving(Turned, v))'
  <2>1. Cardinality(Leaving(Turned, v)) = out_edge_offsets[v]
    BY <1>2, <1>7 DEF Counted, Ended
  <2>2. IsFiniteSet(Leaving(Turned, v)) /\ Cardinality(Leaving(Turned, v)) \in Nat
    BY <1>5, LeavingFinite DEF IInv
  <2>3. Cardinality(Leaving(Turned, v) \cup {e}) = Cardinality(Leaving(Turned, v)) + 1
    BY <1>6, <2>2, FS_AddElement
  <2>4. CASE v = u
    <3>1. Cardinality(Leaving(Turned, v)') <= Cardinality(Leaving(DOMAIN input, v))
      BY <1>6, LeavingFinite, FS_Subset DEF IInv
    <3>2. Cardinality(Leaving(DOMAIN input, v)) < CounterModulus
          /\ Cardinality(Leaving(DOMAIN input, v)) \in Nat
      BY <1>7, LeavingFinite DEF RowsFit, IInv
    <3>3. Leaving(Turned, v)' = Leaving(Turned, v) \cup {e}
      BY <1>6, <2>4
    <3> DEFINE n == Cardinality(Leaving(Turned, v)) + 1
    <3>4. n \in Nat /\ n < CounterModulus
      BY <2>2, <2>3, <3>1, <3>2, <3>3, CounterAssumption
    <3>5. out_edge_offsets'[v] = n % CounterModulus
      BY <1>1, <1>2, <2>1, <2>4 DEF Counted
    <3>6. n % CounterModulus = n
      <4> HIDE DEF n
      <4> QED BY <3>4, CounterAssumption
    <3> QED BY <2>3, <3>3, <3>5, <3>6
  <2>5. CASE v # u
    <3>1. out_edge_offsets'[v] = out_edge_offsets[v]
      BY <1>1, <1>2, <2>5 DEF Counted
    <3> QED BY <1>6, <2>1, <2>5, <3>1
  <2> QED BY <2>4, <2>5
<1>8. out_edge_offsets' \in [Node -> Nat]
  <2>1. (out_edge_offsets[u] + 1) % CounterModulus \in Nat
    BY <1>4, CounterAssumption DEF Counted
  <2> QED BY <1>1, <1>2, <1>4, <2>1 DEF Counted
<1>9. RowsFit' = RowsFit
  BY <1>2 DEF RowsFit, Leaving
<1>10. \A x \in Turned' : input[x][1] \in Node
  BY <1>2, <1>4, <1>5 DEF Counted, Ended
<1>11. Counted'
  BY <1>1, <1>2, <1>3, <1>7, <1>8, <1>9, <1>10 DEF Counted
<1>12. Ordered'
  BY <1>2 DEF Ordered, Early
<1> QED BY <1>11, <1>12

LEMMA CountedNext == IInv /\ CInv /\ [Next]_vars => CInv'
<1> SUFFICES ASSUME IInv, CInv, [Next]_vars PROVE CInv'
  OBVIOUS
<1> USE DEF CInv
<1>1. CASE CountEdge
  BY <1>1, CountEdgeCounts
<1>2. CASE Sort
  <2>1. /\ UNCHANGED <<zeroed, opt, input, out_edge_offsets>>
        /\ main = "count" /\ main' = "map" /\ pending = {}
    BY <1>2 DEF Sort
  <2>2. Turned' = Turned /\ RowsFit' = RowsFit
        /\ \A v \in Node : Leaving(Turned, v)' = Leaving(Turned, v)
    BY <2>1 DEF Turned, RowsFit, Leaving
  <2>3. Counted'
    BY <2>1, <2>2 DEF Counted, Ended
  <2>4. \A j, k \in Node : j < k => ~Before(ordered'[k], ordered'[j])
    BY <1>2 DEF Sort, SortedOrders
  <2>5. Ordered'
    BY <2>1, <2>4 DEF Ordered, Before
  <2> QED BY <2>3, <2>5
<1>3. CASE MapNext \/ StartRewrite \/ RewriteEdge \/ Output
  <2>1. /\ UNCHANGED <<zeroed, opt, input, out_edge_offsets, ordered>>
        /\ main \notin Early \cup Ended /\ main' \notin Early \cup Ended
    BY <1>3 DEF MapNext, StartRewrite, RewriteEdge, Output, Early, Ended
  <2>2. Turned' = Turned /\ RowsFit' = RowsFit
        /\ \A v \in Node : Leaving(Turned, v)' = Leaving(Turned, v)
    BY <2>1 DEF Turned, RowsFit, Leaving, Early
  <2>3. Counted'
    BY <2>1, <2>2 DEF Counted, Early, Ended
  <2>4. Ordered'
    BY <2>1 DEF Ordered, Before
  <2> QED BY <2>3, <2>4
<1>4. CASE UNCHANGED vars
  BY <1>4 DEF vars, Counted, Leaving, Turned, RowsFit, Ordered, Before
<1> QED BY <1>1, <1>2, <1>3, <1>4, ReadEdgesCounts DEF Next, Terminated

\* The numbers, but for the 0 of a vertex 0 that keeps it, rise with the order.
LEMMA NumbersRise ==
  ASSUME Typed, NEW j \in Node, NEW k \in Node, Number(j) < Number(k),
         opt.maintain => Number(j) # 0
  PROVE  j < k
<1>1. j \in Nat /\ k \in Nat
  BY NodesAssumption DEF Node
<1>2. CASE ~opt.maintain
  BY <1>1, <1>2 DEF Number
<1>3. CASE opt.maintain
  <2>1. ordered[j] # 0 /\ ordered[k] # 0
    BY <1>1, <1>3 DEF Number
  <2>2. ZeroBefore(k) => ~(k < j) \/ ZeroBefore(j)
    BY <1>1 DEF ZeroBefore
  <2>3. j # k
    BY <1>1, NumberInNode DEF Node
  <2>4. ZeroBefore(j) /\ ~ZeroBefore(k) => k + 1 < j
    BY <1>1, <2>1, <2>3 DEF ZeroBefore
  <2> QED BY <1>1, <1>3, <2>1, <2>2, <2>3, <2>4 DEF Number
<1> QED BY <1>2, <1>3

\* A vertex has in the output the degree it had in the input.
LEMMA DegreeKept ==
  ASSUME IInv, CInv, main = "done", NEW v \in Node
  PROVE  OutDegree(mapping[v]) = Cardinality(Leaving(DOMAIN input, v))
<1>1. \A j \in Node : mapping[ordered[j]] = Number(j)
  BY NodesAssumption DEF IInv, Numbered, Node, Early, Ended
<1>2. mapping \in [Node -> Node] /\ IsInjective(mapping)
  BY <1>1, MappingIsPermutation DEF IInv
<1>3. ASSUME NEW e \in DOMAIN input PROVE edges[e][1] = mapping[v] <=> input[e][1] = v
  <2>1. input[e][1] \in Node /\ edges[e] = Renamed(input[e])
    BY DEF IInv, RenamedOnce, CInv, Counted, Turned, Ended
  <2>2. edges[e][1] = mapping[input[e][1]] /\ input[e][1] \in Node
    BY <2>1 DEF Renamed
  <2> QED BY <1>2, <2>2 DEF IsInjective
<1>4. DOMAIN edges = DOMAIN input
  BY DEF IInv, Typed
<1>5. {e \in DOMAIN edges : edges[e][1] = mapping[v]} = Leaving(DOMAIN input, v)
  BY <1>3, <1>4 DEF Leaving
<1> QED BY <1>5 DEF OutDegree

\* In what sort_by_degree writes the out-degrees fall (or rise) with the vertex
\* number, for every edge list and both options, if malloc cleared the degrees
\* and no vertex has more edges than its 32-bit counter holds.
THEOREM Sorts == Spec => []OutputIsSorted
<1>1. ASSUME IInv, CInv PROVE OutputIsSorted
  <2> SUFFICES ASSUME zeroed, main = "done", \A x \in Node : OutDegree(x) < CounterModulus,
                      NEW v \in IF opt.maintain THEN Node \ {0} ELSE Node,
                      NEW w \in IF opt.maintain THEN Node \ {0} ELSE Node, v < w
               PROVE  IF opt.ascending THEN OutDegree(v) <= OutDegree(w)
                                       ELSE OutDegree(v) >= OutDegree(w)
    BY DEF OutputIsSorted
  <2>0. v \in Node /\ w \in Node /\ (opt.maintain => v # 0)
    OBVIOUS
  <2>1. \A j \in Node : mapping[ordered[j]] = Number(j)
    BY <1>1, NodesAssumption DEF IInv, Numbered, Node, Early, Ended
  <2>2. mapping \in [Node -> Node] /\ IsInjective(mapping) /\ ordered \in [Node -> Node]
    BY <1>1, <2>1, MappingIsPermutation DEF IInv, Typed
  <2>3. PICK a \in Node, b \in Node : mapping[a] = v /\ mapping[b] = w
    BY <2>0, <2>2, OrderIsOnto
  <2>4. PICK j \in Node, k \in Node : ordered[j] = a /\ ordered[k] = b
    BY <1>1, <2>3, OrderIsOnto DEF IInv, Typed
  <2>5. j < k
    BY <1>1, <2>0, <2>1, <2>3, <2>4, NumbersRise DEF IInv
  <2>6. ~Before(b, a)
    BY <1>1, <2>4, <2>5 DEF CInv, Ordered, Early, Ended
  <2>7. OutDegree(v) = out_edge_offsets[a] /\ OutDegree(w) = out_edge_offsets[b]
    <3>1. RowsFit
      BY <1>1, <2>2, DegreeKept DEF RowsFit
    <3>2. \A x \in Node : out_edge_offsets[x] = Cardinality(Leaving(DOMAIN input, x))
      BY <1>1, <3>1 DEF CInv, Counted, Turned, Ended
    <3> QED BY <1>1, <2>3, <3>2, DegreeKept
  <2>8. out_edge_offsets[a] \in Nat /\ out_edge_offsets[b] \in Nat
    BY <1>1 DEF CInv, Counted
  <2> QED BY <2>6, <2>7, <2>8 DEF Before
<1>2. IInv /\ CInv /\ [Next]_vars => IInv' /\ CInv'
  BY NextInv, CountedNext
<1> QED BY <1>1, <1>2, InitInv, CountedInit, PTL DEF Spec
=============================================================================

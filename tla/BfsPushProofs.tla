--------------------------- MODULE BfsPushProofs ---------------------------
(***************************************************************************)
(* Proofs about bfs_push, for every graph, number of vertices and number   *)
(* of threads.  In any case no buffer overflows (BoundsInv).  When no two  *)
(* threads share a buffer (NoSlotClash), no vertex is explored twice       *)
(* (IInv), and bfs_push implements the level-synchronous search of         *)
(* BfsLevels, so that it marks exactly the reachable vertices.             *)
(***************************************************************************)
EXTENDS BfsPushInv, FiniteSetTheorems, TLAPS

\* Both ends of the row of v lie in the edge array, and so does what is
\* between them.
LEMMA RowInEdges ==
  ASSUME NEW g, IsGraph(g), NEW v \in Node
  PROVE  /\ g.out_edge_offsets[v] \in 0 .. g.nb_edges
         /\ g.out_edge_offsets[v + 1] \in 0 .. g.nb_edges
         /\ \A k \in g.out_edge_offsets[v] .. g.out_edge_offsets[v + 1] - 1 :
              k \in 0 .. g.nb_edges - 1 /\ g.out_edges[k] \in Node
<1> DEFINE f == g.out_edge_offsets
           m == g.nb_edges
<1>1. m \in Nat /\ f \in [0 .. NB_NODES -> 0 .. m] /\ g.out_edges \in [0 .. m - 1 -> Node]
  BY DEF IsGraph, IsCsr
<1>2. v \in 0 .. NB_NODES /\ v + 1 \in 0 .. NB_NODES
  BY NodesAssumption DEF Node
<1>3. f[v] \in 0 .. m /\ f[v + 1] \in 0 .. m
  BY <1>1, <1>2
<1>4. ASSUME NEW k \in f[v] .. f[v + 1] - 1
      PROVE  k \in 0 .. m - 1 /\ g.out_edges[k] \in Node
  <2>1. k \in 0 .. m - 1
    BY <1>1, <1>3
  <2> QED BY <1>1, <2>1
<1> QED BY <1>3, <1>4

LEMMA SlotInRange == ASSUME NEW t \in Thread PROVE slot(t) \in Slot
BY TidAssumption, ThreadsAssumption DEF slot, Slot

\* There are no more than NB_NODES distinct vertices.
LEMMA DistinctNodes ==
  ASSUME NEW n \in Nat, NEW f \in [0 .. n - 1 -> Node],
         \A j, k \in 0 .. n - 1 : f[j] = f[k] => j = k
  PROVE  n <= NB_NODES
<1>1. f \in Injection(0 .. n - 1, Node)
  BY DEF Injection, IsInjective
<1>2. IsFiniteSet(Node) /\ Cardinality(Node) = NB_NODES
  BY NodesAssumption, FS_Interval DEF Node
<1>3. Cardinality(0 .. n - 1) = n
  BY FS_Interval
<1>4. Cardinality(0 .. n - 1) <= Cardinality(Node)
  BY <1>1, <1>2, FS_Injection
<1> QED BY <1>2, <1>3, <1>4

\* Distinct vertices in use leave room for one more that is not among them.
LEMMA RoomForOne ==
  ASSUME NEW b \in Buffer, NEW d \in Node,
         \A k \in Used(b) : b.buffer[k] \in Node /\ b.buffer[k] # d,
         \A j, k \in Used(b) : b.buffer[j] = b.buffer[k] => j = k
  PROVE  b.next < NB_NODES
<1> DEFINE n == b.next + 1
           f == [k \in 0 .. n - 1 |-> IF k = b.next THEN d ELSE b.buffer[k]]
<1>1. b.next \in Nat /\ n \in Nat
  BY DEF Buffer
<1>2. f \in [0 .. n - 1 -> Node]
  BY <1>1 DEF Used
<1>3. ASSUME NEW j \in 0 .. n - 1, NEW k \in 0 .. n - 1, f[j] = f[k]
      PROVE  j = k
  <2>1. \A l \in 0 .. n - 1 : l # b.next => l \in Used(b)
    BY <1>1 DEF Used
  <2>2. f[j] = (IF j = b.next THEN d ELSE b.buffer[j])
    OBVIOUS
  <2>3. f[k] = (IF k = b.next THEN d ELSE b.buffer[k])
    OBVIOUS
  <2> HIDE DEF f
  <2> QED BY <1>3, <2>1, <2>2, <2>3
<1>4. n <= NB_NODES
  <2> HIDE DEF f, n
  <2> QED BY <1>1, <1>2, <1>3, DistinctNodes
<1> QED BY <1>1, <1>4, NodesAssumption

\* Two buffers without a common vertex fit into one.
LEMMA RoomForBoth ==
  ASSUME NEW a \in Buffer, NEW b \in Buffer,
         \A k \in Used(a) : a.buffer[k] \in Node,
         \A k \in Used(b) : b.buffer[k] \in Node,
         \A j, k \in Used(a) : a.buffer[j] = a.buffer[k] => j = k,
         \A j, k \in Used(b) : b.buffer[j] = b.buffer[k] => j = k,
         \A j \in Used(a), k \in Used(b) : a.buffer[j] # b.buffer[k]
  PROVE  a.next + b.next <= NB_NODES
<1> DEFINE n == a.next + b.next
           f == [k \in 0 .. n - 1 |-> IF k < a.next THEN a.buffer[k] ELSE b.buffer[k - a.next]]
<1>1. a.next \in Nat /\ b.next \in Nat /\ n \in Nat
  BY DEF Buffer
<1>2. \A k \in 0 .. n - 1 : IF k < a.next THEN k \in Used(a) ELSE k - a.next \in Used(b)
  BY <1>1 DEF Used
<1>3. f \in [0 .. n - 1 -> Node]
  BY <1>2
<1>4. ASSUME NEW j \in 0 .. n - 1, NEW k \in 0 .. n - 1, f[j] = f[k] PROVE j = k
  <2>1. CASE j < a.next /\ k < a.next
    BY <1>2, <1>4, <2>1
  <2>2. CASE j < a.next /\ ~(k < a.next)
    BY <1>2, <1>4, <2>2
  <2>3. CASE ~(j < a.next) /\ k < a.next
    BY <1>2, <1>4, <2>3
  <2>4. CASE ~(j < a.next) /\ ~(k < a.next)
    <3>1. j - a.next = k - a.next
      BY <1>2, <1>4, <2>4
    <3> QED BY <3>1, <1>1
  <2> QED BY <2>1, <2>2, <2>3, <2>4
<1>5. n <= NB_NODES
  <2> HIDE DEF f, n
  <2> QED BY <1>1, <1>3, <1>4, DistinctNodes
<1> QED BY <1>5

\* A range is not empty and is cut out of the indices it is taken from.
LEMMA RangeBounds ==
  ASSUME NEW S \in SUBSET Nat, NEW r \in Ranges(S)
  PROVE  /\ r[1] \in Nat /\ r[2] \in Nat /\ r[1] < r[2]
         /\ r[2] - 1 \in S /\ r[1] .. r[2] - 1 \subseteq S
<1>1. r[1] \in S /\ r[2] \in {k + 1 : k \in S}
      /\ r[1] < r[2] /\ r[1] .. r[2] - 1 \subseteq S
  BY DEF Ranges
<1>2. PICK k \in S : r[2] = k + 1
  BY <1>1
<1>3. k \in Nat /\ r[1] \in Nat
  BY <1>1
<1>4. r[2] \in Nat /\ r[2] - 1 = k
  BY <1>2, <1>3
<1> QED BY <1>1, <1>3, <1>4

-----------------------------------------------------------------------------
(* The operations of thread_buffer keep a buffer a buffer. *)

LEMMA BufferOps ==
  /\ tb_init(NB_NODES) \in Buffer
  /\ \A b \in Buffer : tb_clear(b) \in Buffer
  /\ \A b \in Buffer, n \in Nat : tb_set_next(b, n) \in Buffer
  /\ \A b \in Buffer, k \in Nat, v \in Node : tb_store(b, k, v) \in Buffer
  /\ \A a, b \in Buffer : tb_receive(a, b) \in Buffer
<1>1. tb_init(NB_NODES) \in Buffer
  BY DEF tb_init, Buffer, Node
<1>2. \A b \in Buffer : tb_clear(b) \in Buffer
  BY DEF tb_clear, Buffer
<1>3. \A b \in Buffer, n \in Nat : tb_set_next(b, n) \in Buffer
  BY DEF tb_set_next, Buffer
<1>4. \A b \in Buffer, k \in Nat, v \in Node : tb_store(b, k, v) \in Buffer
  BY DEF tb_store, Buffer
<1>5. ASSUME NEW a \in Buffer, NEW b \in Buffer PROVE tb_receive(a, b) \in Buffer
  <2>1. a.next \in Nat /\ b.next \in Nat /\ a.buffer \in [Node -> Node \cup {Uninit}]
        /\ b.buffer \in [Node -> Node \cup {Uninit}]
    BY DEF Buffer
  <2>2. ASSUME NEW k \in Node, k \in a.next .. a.next + b.next - 1
        PROVE  k - a.next \in Node
    BY <2>1, <2>2, NodesAssumption DEF Node
  <2> QED BY <2>1, <2>2 DEF tb_receive, Buffer
<1> QED BY <1>1, <1>2, <1>3, <1>4, <1>5

-----------------------------------------------------------------------------
(* IInv holds initially and every action keeps it. *)

LEMMA InitInv == Init => IInv
<1> SUFFICES ASSUME Init PROVE IInv
  OBVIOUS
<1> USE NodesAssumption, SourceAssumption, ThreadsAssumption DEF Node, Slot
<1>1. frontier.next = 1 /\ frontier.buffer[0] = source /\ frontier \in Buffer
  <2>1. tb_store(tb_init(NB_NODES), 0, source) \in Buffer
    BY BufferOps
  <2>2. frontier \in Buffer
    BY <2>1, BufferOps DEF Init
  <2>3. frontier = tb_set_next(tb_store(tb_init(NB_NODES), 0, source), 1)
    BY DEF Init
  <2>4. 0 \in DOMAIN tb_init(NB_NODES).buffer
    BY DEF tb_init
  <2>5. frontier.next = 1 /\ frontier.buffer[0] = source
    BY <2>3, <2>4 DEF tb_set_next, tb_store
  <2> QED BY <2>2, <2>5
<1>2. \A s \in Slot : buffers[s] \in Buffer /\ buffers[s].next = 0
  BY BufferOps DEF Init, tb_init
<1>3. TypeOK
  <2>1. IsGraph(graph)
    BY GraphsAssumption DEF Init
  <2>2. frontier \in Buffer /\ buffers \in [Slot -> Buffer]
    BY <1>1, <1>2 DEF Init
  <2>3. visited \in [Node -> {0, 1}] /\ xfer \in 0 .. THREADS /\ pending \in SUBSET Node
    BY DEF Init
  <2> QED BY <2>1, <2>2, <2>3 DEF Init, TypeOK
<1>4. Control
  BY DEF Init, Control, Bodies, OnEdge, Pushing
<1>5. Entries
  <2>1. Used(frontier) = {0} /\ \A s \in Slot : Used(buffers[s]) = {}
    BY <1>1, <1>2 DEF Used
  <2>2. main # "transfer"
    BY DEF Init
  <2>3. frontier.next <= NB_NODES /\ \A s \in Slot : buffers[s].next <= NB_NODES
    BY <1>1, <1>2
  <2> QED BY <1>1, <1>2, <2>1, <2>2, <2>3 DEF Entries
<1>6. InFlight
  BY DEF Init, InFlight, Pushing
<1> QED BY <1>3, <1>4, <1>5, <1>6 DEF IInv

\* The row of the vertex a body explores.
LEMMA RowOfBody ==
  ASSUME NEW t \in Thread, TypeOK
  PROVE  /\ src[t] \in Node /\ beg[t] \in Nat
         /\ graph.out_edge_offsets[src[t]] \in Nat
         /\ graph.out_edge_offsets[src[t] + 1] \in Nat
         /\ \A k \in RowOf(src[t]) : graph.out_edges[k] \in Node
<1>1. src[t] \in Node /\ beg[t] \in Nat /\ IsGraph(graph)
  BY DEF TypeOK
<1>2. graph.nb_edges \in Nat
  BY <1>1 DEF IsGraph
<1>3. /\ graph.out_edge_offsets[src[t]] \in 0 .. graph.nb_edges
      /\ graph.out_edge_offsets[src[t] + 1] \in 0 .. graph.nb_edges
      /\ \A k \in RowOf(src[t]) : graph.out_edges[k] \in Node
  BY <1>1, RowInEdges DEF RowOf
<1> QED BY <1>1, <1>2, <1>3

LEMMA LaunchInv == IInv /\ Launch => IInv'
<1> SUFFICES ASSUME IInv, Launch PROVE IInv'
  OBVIOUS
<1> USE DEF IInv, Launch, shared, locals
<1>1. TypeOK'
  BY NodesAssumption DEF TypeOK, Entries, Node, Buffer
<1>2. Control'
  BY DEF TypeOK, Control, Bodies, Used, OnEdge, Pushing
<1>3. Entries'
  BY DEF Entries, Used
<1>4. InFlight'
  BY DEF InFlight, Used
<1> QED BY <1>1, <1>2, <1>3, <1>4

LEMMA FinishInv == IInv /\ Finish => IInv'
<1> SUFFICES ASSUME IInv, Finish PROVE IInv'
  OBVIOUS
<1> USE DEF IInv, Finish, shared, locals
<1>1. TypeOK'
  BY DEF TypeOK
<1>2. Control'
  BY DEF TypeOK, Control, Bodies, Used, OnEdge, Pushing
<1>3. Entries'
  BY DEF Entries, Used
<1>4. InFlight'
  BY DEF InFlight, Used
<1> QED BY <1>1, <1>2, <1>3, <1>4

LEMMA JoinInv == IInv /\ Join => IInv'
<1> SUFFICES ASSUME IInv, Join PROVE IInv'
  OBVIOUS
<1> USE DEF IInv, Join, locals, ParallelForEnds
<1>0. frontier'.next = 0 /\ frontier' \in Buffer
  BY BufferOps DEF TypeOK, tb_clear, Buffer
<1>1. TypeOK'
  BY <1>0, ThreadsAssumption DEF TypeOK
<1>2. Control'
  BY DEF TypeOK, Control, Bodies, OnEdge, Pushing
<1>3. Entries'
  BY <1>0, NodesAssumption DEF TypeOK, Entries, Used, Slot
<1>4. InFlight'
  BY DEF InFlight, Pushing
<1> QED BY <1>1, <1>2, <1>3, <1>4

LEMMA TakeRangeInv == ASSUME NEW t \in Thread PROVE IInv /\ TakeRange(t) => IInv'
<1> SUFFICES ASSUME IInv, TakeRange(t) PROVE IInv'
  OBVIOUS
<1> USE DEF IInv, TakeRange, shared, Goto
<1>0. PICK r \in Ranges(pending) :
        /\ pending' = pending \ (r[1] .. r[2] - 1)
        /\ idx' = [idx EXCEPT ![t] = r[1]]
        /\ stop' = [stop EXCEPT ![t] = r[2]]
  OBVIOUS
<1>1. /\ r[1] \in Nat /\ r[2] \in Nat /\ r[1] < r[2] /\ r[2] - 1 \in pending
      /\ r[1] .. r[2] - 1 \subseteq pending
  <2>1. pending \in SUBSET Nat
    BY DEF TypeOK, Node
  <2> QED BY <2>1, RangeBounds
<1>2. TypeOK'
  BY <1>0, <1>1 DEF TypeOK
<1>3. Control'
  <2>1. r[2] <= frontier.next
    BY <1>1 DEF TypeOK, Control, Bodies, Used, Buffer
  <2>2. pending' \subseteq pending /\ main' = "parallel" /\ frontier' = frontier
    BY <1>0
  <2>3. \A u \in Thread : u # t =>
          pc'[u] = pc[u] /\ idx'[u] = idx[u] /\ stop'[u] = stop[u]
    BY <1>0 DEF TypeOK
  <2>4. pc'[t] = "vertex" /\ stop'[t] = r[2]
    BY <1>0 DEF TypeOK
  <2>5. main' = "parallel" => pending' \subseteq Used(frontier')
    BY <2>2 DEF Control, Bodies, Used
  <2> QED BY <2>1, <2>2, <2>3, <2>4, <2>5 DEF Control, Bodies, OnEdge, Pushing, RowOf
<1>4. Entries'
  BY DEF Entries, Used
<1>5. InFlight'
  BY DEF TypeOK, InFlight, Pushing, Used
<1> QED BY <1>2, <1>3, <1>4, <1>5

\* A step that lets no body push, and leaves alone the bodies that do.
LEMMA KeepsInFlight ==
  ASSUME InFlight, visited' = visited, buffers' = buffers,
         \A u \in Thread : pc'[u] \in Pushing => pc'[u] = pc[u] /\ dst'[u] = dst[u] /\ tmp'[u] = tmp[u]
  PROVE  InFlight'
<1> SUFFICES ASSUME NEW u \in Thread, pc'[u] \in Pushing
             PROVE  /\ visited'[dst'[u]] = 1
                    /\ \A s \in Slot : \A k \in Used(buffers[s])' : buffers'[s].buffer[k] # dst'[u]
                    /\ \A w \in Thread : pc'[w] \in Pushing /\ dst'[w] = dst'[u] => w = u
                    /\ pc'[u] \in {"store", "inc"} => tmp'[u] = buffers'[slot(u)].next
                    /\ pc'[u] \in {"load", "inc"} =>
                         buffers'[slot(u)].buffer[buffers'[slot(u)].next] = dst'[u]
  BY DEF InFlight
<1>1. pc'[u] = pc[u] /\ dst'[u] = dst[u] /\ tmp'[u] = tmp[u]
  OBVIOUS
<1>2. \A w \in Thread : pc'[w] \in Pushing /\ dst'[w] = dst'[u] => w = u
  BY <1>1 DEF InFlight
<1>3. \A s \in Slot : \A k \in Used(buffers[s])' : buffers'[s].buffer[k] # dst'[u]
  BY <1>1 DEF InFlight, Used
<1> QED BY <1>1, <1>2, <1>3 DEF InFlight

LEMMA NextVertexInv == ASSUME NEW t \in Thread PROVE IInv /\ NextVertex(t) => IInv'
<1> SUFFICES ASSUME IInv, NextVertex(t) PROVE IInv'
  OBVIOUS
<1> USE DEF IInv, NextVertex, shared, control, Goto
<1>0. idx[t] \in Used(frontier)
  BY DEF TypeOK, Control, Bodies, Used, Buffer
<1>1. frontier.buffer[idx[t]] \in Node
  BY <1>0 DEF Entries
<1>2. /\ src' = [src EXCEPT ![t] = frontier.buffer[idx[t]]]
      /\ beg' = [beg EXCEPT ![t] = graph.out_edge_offsets[frontier.buffer[idx[t]]]]
  BY <1>1, UninitAssumption DEF Entry
<1>3. graph.out_edge_offsets[frontier.buffer[idx[t]]] \in Nat
  <2>1. IsGraph(graph)
    BY DEF TypeOK
  <2>2. graph.out_edge_offsets[frontier.buffer[idx[t]]] \in 0 .. graph.nb_edges
    BY <1>1, <2>1, RowInEdges
  <2> QED BY <2>2
<1>4. TypeOK'
  BY <1>1, <1>2, <1>3 DEF TypeOK
<1>5. Control'
  BY <1>1, <1>2, <1>3 DEF TypeOK, Control, Bodies, OnEdge, Pushing, Used, RowOf
<1>6. Entries'
  BY DEF Entries, Used
<1>7. InFlight'
  BY KeepsInFlight DEF TypeOK, Pushing
<1> QED BY <1>4, <1>5, <1>6, <1>7

LEMMA EndRangeInv == ASSUME NEW t \in Thread PROVE IInv /\ EndRange(t) => IInv'
<1> SUFFICES ASSUME IInv, EndRange(t) PROVE IInv'
  OBVIOUS
<1> USE DEF IInv, EndRange, shared, control, Goto
<1>1. TypeOK'
  BY NodesAssumption DEF TypeOK, Node
<1>2. Control'
  BY DEF TypeOK, Control, Bodies, OnEdge, Pushing, Used, RowOf
<1>3. Entries'
  BY DEF Entries, Used
<1>4. InFlight'
  BY DEF TypeOK, InFlight, Pushing, Used
<1> QED BY <1>1, <1>2, <1>3, <1>4

LEMMA CheckEdgeInv == ASSUME NEW t \in Thread PROVE IInv /\ CheckEdge(t) => IInv'
<1> SUFFICES ASSUME IInv, CheckEdge(t) PROVE IInv'
  OBVIOUS
<1> USE DEF IInv, CheckEdge, shared, control, Goto
<1>1. src[t] \in Node /\ beg[t] \in Nat /\ IsGraph(graph)
  BY DEF TypeOK
<1>2. /\ graph.out_edge_offsets[src[t]] \in Nat
      /\ graph.out_edge_offsets[src[t] + 1] \in Nat
      /\ \A k \in RowOf(src[t]) : graph.out_edges[k] \in Node
  BY RowOfBody
<1>3. beg[t] \in RowOf(src[t])
  BY <1>1, <1>2 DEF Control, Bodies, OnEdge, RowOf
<1>4. TypeOK'
  BY <1>2, <1>3 DEF TypeOK
<1>5. Control'
  BY <1>1, <1>2, <1>3 DEF TypeOK, Control, Bodies, OnEdge, Pushing, Used, RowOf
<1>6. Entries'
  BY DEF Entries, Used
<1>7. InFlight'
  BY KeepsInFlight DEF TypeOK, Pushing
<1> QED BY <1>4, <1>5, <1>6, <1>7

LEMMA EndVertexInv == ASSUME NEW t \in Thread PROVE IInv /\ EndVertex(t) => IInv'
<1> SUFFICES ASSUME IInv, EndVertex(t) PROVE IInv'
  OBVIOUS
<1> USE DEF IInv, EndVertex, shared, control, Goto
<1>1. TypeOK'
  BY DEF TypeOK
<1>2. Control'
  BY DEF TypeOK, Control, Bodies, OnEdge, Pushing, Used, RowOf
<1>3. Entries'
  BY DEF Entries, Used
<1>4. InFlight'
  BY DEF TypeOK, InFlight, Pushing, Used
<1> QED BY <1>1, <1>2, <1>3, <1>4

LEMMA CasInv == ASSUME NEW t \in Thread PROVE IInv /\ Cas(t) => IInv'
<1> SUFFICES ASSUME IInv, Cas(t) PROVE IInv'
  OBVIOUS
<1> USE DEF IInv, Cas, control, Goto
<1>1. TypeOK'
  BY DEF TypeOK, Pushing
<1>2. Control'
  <2>1. beg[t] \in Nat /\ graph.out_edge_offsets[src[t]] \in Nat
    BY RowOfBody
  <2>2. graph.out_edge_offsets[src[t]] <= beg[t] + 1
    BY <2>1 DEF Control, Bodies, OnEdge
  <2>3. \A u \in Thread : u # t => pc'[u] = pc[u] /\ beg'[u] = beg[u]
    BY DEF TypeOK
  <2>4. \/ pc'[t] = "index" /\ beg'[t] = beg[t]
        \/ pc'[t] = "edge" /\ beg'[t] = beg[t] + 1
    BY DEF TypeOK
  <2> QED BY <2>2, <2>3, <2>4 DEF Control, Bodies, OnEdge, Pushing, Used, RowOf
<1>3. Entries'
  BY DEF TypeOK, Entries, Used
<1>4. InFlight'
  <2>1. CASE visited[dst[t]] = 0
    <3>1. \A s \in Slot : \A k \in Used(buffers[s]) : buffers[s].buffer[k] # dst[t]
      BY <2>1 DEF Entries
    <3>2. \A u \in Thread : pc[u] \in Pushing => dst[u] # dst[t]
      BY <2>1 DEF InFlight
    <3>3. \A v \in Node : visited[v] = 1 => visited'[v] = 1
      BY <2>1 DEF TypeOK
    <3>4. visited'[dst[t]] = 1
      BY <2>1 DEF TypeOK
    <3>5. pc'[t] = "index" /\ \A u \in Thread : u # t => pc'[u] = pc[u]
      BY <2>1 DEF TypeOK
    <3>6. UNCHANGED <<buffers, dst, tmp>>
      OBVIOUS
    <3>7. \A u \in Thread : pc'[u] \in Pushing => visited'[dst[u]] = 1
      BY <3>3, <3>4, <3>5 DEF TypeOK, InFlight
    <3>8. \A u, v \in Thread :
             pc'[u] \in Pushing /\ pc'[v] \in Pushing /\ dst[u] = dst[v] => u = v
      BY <3>2, <3>5 DEF InFlight
    <3> QED BY <3>1, <3>5, <3>6, <3>7, <3>8 DEF InFlight, Pushing, Used, slot
  <2>2. CASE visited[dst[t]] # 0
    BY <2>2 DEF TypeOK, InFlight, Pushing, Used
  <2> QED BY <2>1, <2>2
<1> QED BY <1>1, <1>2, <1>3, <1>4

LEMMA PushIndexInv == ASSUME NEW t \in Thread PROVE IInv /\ PushIndex(t) => IInv'
<1> SUFFICES ASSUME IInv, PushIndex(t) PROVE IInv'
  OBVIOUS
<1> USE DEF IInv, PushIndex, shared, control, Goto
<1>1. TypeOK'
  BY SlotInRange DEF TypeOK, Buffer, Pushing
<1>2. Control'
  BY DEF TypeOK, Control, Bodies, OnEdge, Pushing, Used, RowOf
<1>3. Entries'
  BY DEF Entries, Used
<1>4. InFlight'
  BY DEF TypeOK, InFlight, Pushing, Used
<1> QED BY <1>1, <1>2, <1>3, <1>4

LEMMA PushLoadInv == ASSUME NEW t \in Thread PROVE IInv /\ PushLoad(t) => IInv'
<1> SUFFICES ASSUME IInv, PushLoad(t) PROVE IInv'
  OBVIOUS
<1> USE DEF IInv, PushLoad, shared, control, Goto
<1>1. TypeOK'
  BY SlotInRange DEF TypeOK, Buffer, Pushing
<1>2. Control'
  BY DEF TypeOK, Control, Bodies, OnEdge, Pushing, Used, RowOf
<1>3. Entries'
  BY DEF Entries, Used
<1>4. InFlight'
  BY DEF TypeOK, InFlight, Pushing, Used
<1> QED BY <1>1, <1>2, <1>3, <1>4

\* A body that pushes finds room in its buffer.
LEMMA RoomToPush ==
  ASSUME IInv, NEW t \in Thread, pc[t] \in Pushing
  PROVE  buffers[slot(t)].next \in Node
<1> DEFINE b == buffers[slot(t)]
<1>1. slot(t) \in Slot /\ b \in Buffer /\ dst[t] \in Node
  BY SlotInRange DEF IInv, TypeOK
<1>2. \A k \in Used(b) : b.buffer[k] \in Node /\ b.buffer[k] # dst[t]
  BY <1>1 DEF IInv, Entries, InFlight
<1>3. \A j, k \in Used(b) : b.buffer[j] = b.buffer[k] => j = k
  BY <1>1 DEF IInv, Entries
<1>4. b.next < NB_NODES
  BY <1>1, <1>2, <1>3, RoomForOne
<1> QED BY <1>1, <1>4, NodesAssumption DEF Buffer, Node

LEMMA PushStoreInv ==
  ASSUME NEW t \in Thread, NoSlotClash PROVE IInv /\ PushStore(t) => IInv'
<1> SUFFICES ASSUME IInv, PushStore(t) PROVE IInv'
  OBVIOUS
<1> USE DEF IInv, PushStore, control, locals, Goto
<1> DEFINE n == buffers[slot(t)].next
<1>1. tmp[t] = n /\ n \in Node /\ slot(t) \in Slot
  BY RoomToPush, SlotInRange DEF InFlight, Pushing
<1>2. \A s \in Slot : s # slot(t) => buffers'[s] = buffers[s]
  BY <1>1 DEF TypeOK
<1>3. /\ buffers'[slot(t)].next = n
      /\ buffers'[slot(t)].buffer = [buffers[slot(t)].buffer EXCEPT ![n] = dst[t]]
  BY <1>1 DEF TypeOK, Buffer, tb_store
<1>4. buffers'[slot(t)].buffer[n] = dst[t]
      /\ \A k \in Used(buffers[slot(t)]) :
           buffers'[slot(t)].buffer[k] = buffers[slot(t)].buffer[k]
  <2>1. buffers[slot(t)].buffer \in [Node -> Node \cup {Uninit}]
    BY <1>1 DEF TypeOK, Buffer
  <2>2. n \notin Used(buffers[slot(t)]) /\ Used(buffers[slot(t)]) \subseteq Node
    BY <1>1, NodesAssumption DEF Used, Node
  <2> QED BY <1>1, <1>3, <2>1, <2>2
<1>5. TypeOK'
  BY <1>1, BufferOps DEF TypeOK, Pushing, Node
<1>6. Control'
  BY DEF TypeOK, Control, Bodies, OnEdge, Pushing, Used, RowOf
<1>7. \A s \in Slot : /\ buffers'[s].next = buffers[s].next
                      /\ \A k \in Used(buffers[s]) : buffers'[s].buffer[k] = buffers[s].buffer[k]
  BY <1>2, <1>3, <1>4
<1>8. Entries'
  BY <1>7 DEF Entries, Used
<1>9. InFlight'
  <2>1. \A u \in Thread : u # t =>
          pc'[u] = pc[u] /\ (pc[u] # "idle" => buffers'[slot(u)] = buffers[slot(u)])
    BY <1>2, SlotInRange DEF NoSlotClash, TypeOK, Control, Bodies
  <2>2. pc'[t] = "load"
    BY DEF TypeOK
  <2> QED BY <1>3, <1>4, <1>7, <2>1, <2>2 DEF InFlight, Used, Pushing
<1> QED BY <1>5, <1>6, <1>8, <1>9

LEMMA PushIncInv ==
  ASSUME NEW t \in Thread, NoSlotClash PROVE IInv /\ PushInc(t) => IInv'
<1> SUFFICES ASSUME IInv, PushInc(t) PROVE IInv'
  OBVIOUS
<1> USE DEF IInv, PushInc, control, Goto
<1> DEFINE n == buffers[slot(t)].next
<1>1. tmp[t] = n /\ n \in Node /\ slot(t) \in Slot
  BY RoomToPush, SlotInRange DEF InFlight, Pushing
<1>2. \A s \in Slot : s # slot(t) => buffers'[s] = buffers[s]
  BY <1>1 DEF TypeOK
<1>3. /\ buffers'[slot(t)].next = n + 1
      /\ buffers'[slot(t)].buffer = buffers[slot(t)].buffer
  BY <1>1 DEF TypeOK, Buffer, tb_set_next
<1>4. /\ buffers[slot(t)].buffer[n] = dst[t] /\ visited[dst[t]] = 1 /\ dst[t] \in Node
      /\ \A s \in Slot : \A k \in Used(buffers[s]) : buffers[s].buffer[k] # dst[t]
  BY <1>1 DEF InFlight, Pushing, TypeOK
<1>5. TypeOK'
  <2>1. n + 1 \in Nat
    BY <1>1 DEF Node
  <2>2. tb_set_next(buffers[slot(t)], n + 1) \in Buffer
    BY <1>1, <2>1, BufferOps DEF TypeOK
  <2>3. buffers' \in [Slot -> Buffer]
    BY <1>1, <2>2 DEF TypeOK
  <2> QED BY <2>3 DEF TypeOK, Pushing
<1>6. Control'
  <2>1. beg[t] \in Nat /\ graph.out_edge_offsets[src[t]] \in Nat
    BY RowOfBody
  <2>2. graph.out_edge_offsets[src[t]] <= beg[t] + 1
    BY <2>1 DEF Control, Bodies, OnEdge, Pushing
  <2>3. \A u \in Thread : u # t => pc'[u] = pc[u] /\ beg'[u] = beg[u]
    BY DEF TypeOK
  <2>4. pc'[t] = "edge" /\ beg'[t] = beg[t] + 1
    BY DEF TypeOK
  <2> QED BY <2>2, <2>3, <2>4 DEF Control, Bodies, OnEdge, Pushing, Used, RowOf
<1>7. Used(buffers'[slot(t)]) = Used(buffers[slot(t)]) \cup {n}
      /\ n \notin Used(buffers[slot(t)])
  BY <1>1, <1>3 DEF Used, Node
<1>8. \A s \in Slot : /\ buffers'[s].buffer = buffers[s].buffer
                      /\ \A k \in Used(buffers'[s]) :
                           k \in Used(buffers[s]) \/ (s = slot(t) /\ k = n)
  BY <1>2, <1>3, <1>7
<1>9. Entries'
  <2>1. \A s \in Slot : buffers'[s].next <= NB_NODES
    BY <1>1, <1>2, <1>3, NodesAssumption DEF Entries, Node
  <2>2. main' = "parallel"
    BY DEF Control, Bodies, TypeOK
  <2> QED BY <1>4, <1>8, <2>1, <2>2 DEF Entries, Used
<1>10. InFlight'
  <2>1. \A u \in Thread : u # t =>
          pc'[u] = pc[u] /\ (pc[u] # "idle" => buffers'[slot(u)] = buffers[slot(u)])
    BY <1>2, SlotInRange DEF NoSlotClash, TypeOK, Control, Bodies
  <2>2. pc'[t] \notin Pushing
    BY DEF TypeOK, Pushing
  <2>3. \A u \in Thread : pc[u] \in Pushing /\ dst[u] = dst[t] => u = t
    BY DEF InFlight, Pushing
  <2> QED BY <1>4, <1>8, <2>1, <2>2, <2>3 DEF InFlight, Used
<1> QED BY <1>5, <1>6, <1>9, <1>10

\* What transfer leaves: the receiver's own entries, then the sender's.
LEMMA ReceiveEntries ==
  ASSUME NEW a \in Buffer, NEW b \in Buffer, a.next + b.next <= NB_NODES
  PROVE  /\ tb_receive(a, b).next = a.next + b.next
         /\ \A k \in Used(tb_receive(a, b)) :
              \/ k \in Used(a) /\ tb_receive(a, b).buffer[k] = a.buffer[k]
              \/ /\ k \notin Used(a) /\ k - a.next \in Used(b)
                 /\ tb_receive(a, b).buffer[k] = b.buffer[k - a.next]
<1>1. a.next \in Nat /\ b.next \in Nat /\ DOMAIN a.buffer = Node
  BY DEF Buffer
<1>2. tb_receive(a, b).next = a.next + b.next
  BY DEF tb_receive
<1>3. ASSUME NEW k \in Used(tb_receive(a, b))
      PROVE  \/ k \in Used(a) /\ tb_receive(a, b).buffer[k] = a.buffer[k]
             \/ /\ k \notin Used(a) /\ k - a.next \in Used(b)
                /\ tb_receive(a, b).buffer[k] = b.buffer[k - a.next]
  <2>1. k \in Node /\ k \in 0 .. a.next + b.next - 1
    BY <1>1, <1>2, NodesAssumption DEF Used, Node
  <2>2. tb_receive(a, b).buffer[k] =
          IF k \in a.next .. a.next + b.next - 1 THEN b.buffer[k - a.next] ELSE a.buffer[k]
    BY <1>1, <2>1 DEF tb_receive
  <2>3. CASE k < a.next
    BY <1>1, <2>1, <2>2, <2>3 DEF Used
  <2>4. CASE ~(k < a.next)
    BY <1>1, <2>1, <2>2, <2>4 DEF Used
  <2> QED BY <2>3, <2>4
<1> QED BY <1>2, <1>3

\* The frontier has room for what a buffer holds.
LEMMA RoomToTransfer ==
  ASSUME IInv, main = "transfer"
  PROVE  /\ xfer \in Slot /\ frontier \in Buffer /\ buffers[xfer] \in Buffer
         /\ frontier.next + buffers[xfer].next <= NB_NODES
<1>1. xfer \in Slot
  BY ThreadsAssumption DEF IInv, TypeOK, Slot
<1>2. frontier \in Buffer /\ buffers[xfer] \in Buffer
  BY <1>1 DEF IInv, TypeOK
<1>3. frontier.next + buffers[xfer].next <= NB_NODES
  <2>1. /\ \A k \in Used(frontier) : frontier.buffer[k] \in Node
        /\ \A j, k \in Used(frontier) : frontier.buffer[j] = frontier.buffer[k] => j = k
    BY DEF IInv, Entries
  <2>2. /\ \A k \in Used(buffers[xfer]) : buffers[xfer].buffer[k] \in Node
        /\ \A j, k \in Used(buffers[xfer]) :
             buffers[xfer].buffer[j] = buffers[xfer].buffer[k] => j = k
        /\ \A j \in Used(frontier), k \in Used(buffers[xfer]) :
             frontier.buffer[j] # buffers[xfer].buffer[k]
    BY <1>1 DEF IInv, Entries
  <2> QED BY <1>2, <2>1, <2>2, RoomForBoth
<1> QED BY <1>1, <1>2, <1>3

LEMMA TransferInv == IInv /\ Transfer => IInv'
<1> SUFFICES ASSUME IInv, Transfer PROVE IInv'
  OBVIOUS
<1> USE DEF IInv, Transfer, locals
<1>1. /\ xfer \in Slot /\ frontier \in Buffer /\ buffers[xfer] \in Buffer
      /\ frontier.next + buffers[xfer].next <= NB_NODES
  BY RoomToTransfer
<1>2. /\ xfer' = xfer + 1 /\ xfer' \in 0 .. THREADS
      /\ xfer' = THREADS => main' = "loop"
      /\ xfer' # THREADS => main' = "transfer" /\ xfer' < THREADS
      /\ \A s \in Slot : s < xfer' => s <= xfer
      /\ xfer' = THREADS => \A s \in Slot : s <= xfer
  BY <1>1, ThreadsAssumption DEF Slot
<1>3. /\ buffers' \in [Slot -> Buffer] /\ frontier' \in Buffer
      /\ buffers'[xfer].next = 0
      /\ \A s \in Slot \ {xfer} : buffers'[s] = buffers[s]
      /\ frontier'.next <= NB_NODES
      /\ \A k \in Used(frontier') :
           \/ k \in Used(frontier) /\ frontier'.buffer[k] = frontier.buffer[k]
           \/ /\ k \notin Used(frontier) /\ k - frontier.next \in Used(buffers[xfer])
              /\ frontier'.buffer[k] = buffers[xfer].buffer[k - frontier.next]
  <2>1. CASE buffers[xfer].next = 0
    BY <1>1, <2>1 DEF TypeOK, Entries
  <2>2. CASE buffers[xfer].next # 0
    <3>1. frontier' = tb_receive(frontier, buffers[xfer])
          /\ buffers' = [buffers EXCEPT ![xfer] = tb_clear(@)]
      BY <2>2
    <3>2. tb_clear(buffers[xfer]) \in Buffer /\ tb_clear(buffers[xfer]).next = 0
      BY <1>1, BufferOps DEF tb_clear, Buffer
    <3>3. /\ buffers' \in [Slot -> Buffer] /\ buffers'[xfer].next = 0
          /\ \A s \in Slot \ {xfer} : buffers'[s] = buffers[s]
      BY <1>1, <3>1, <3>2 DEF TypeOK
    <3>4. frontier' \in Buffer
      BY <1>1, <3>1, BufferOps
    <3> QED BY <1>1, <3>1, <3>3, <3>4, ReceiveEntries
  <2> QED BY <2>1, <2>2
<1>4. TypeOK'
  BY <1>2, <1>3 DEF TypeOK
<1>5. Control'
  BY <1>2 DEF TypeOK, Control, Bodies, OnEdge, Pushing
<1>6. Entries'
  <2>1. \A k \in Used(frontier') : frontier'.buffer[k] \in Node
    BY <1>1, <1>3 DEF Entries
  <2>2. ASSUME NEW j \in Used(frontier'), NEW k \in Used(frontier'),
               frontier'.buffer[j] = frontier'.buffer[k]
        PROVE  j = k
    <3>1. CASE j \in Used(frontier) /\ k \in Used(frontier)
      BY <1>3, <2>2, <3>1 DEF Entries
    <3>2. CASE j \notin Used(frontier) /\ k \notin Used(frontier)
      <4>1. j - frontier.next = k - frontier.next
        BY <1>1, <1>3, <2>2, <3>2 DEF Entries
      <4>2. j \in Int /\ k \in Int /\ frontier.next \in Int
        BY <1>1 DEF Used, Buffer
      <4> QED BY <4>1, <4>2
    <3>3. CASE (j \in Used(frontier)) # (k \in Used(frontier))
      BY <1>1, <1>3, <2>2, <3>3 DEF Entries
    <3> QED BY <3>1, <3>2, <3>3
  <2>3. \A s \in Slot : Used(buffers'[s]) = IF s = xfer THEN {} ELSE Used(buffers[s])
    BY <1>3 DEF Used
  <2>4. \A s \in Slot : \A j \in Used(frontier'), k \in Used(buffers'[s]) :
          frontier'.buffer[j] # buffers'[s].buffer[k]
    BY <1>1, <1>3, <2>3 DEF Entries
  <2>5. \A s \in Slot :
          /\ buffers'[s].next <= NB_NODES
          /\ \A k \in Used(buffers'[s]) :
               buffers'[s].buffer[k] \in Node /\ visited'[buffers'[s].buffer[k]] = 1
    BY <1>3, <2>3, NodesAssumption DEF Entries
  <2>6. \A s, r \in Slot : \A j \in Used(buffers'[s]), k \in Used(buffers'[r]) :
          buffers'[s].buffer[j] = buffers'[r].buffer[k] => s = r /\ j = k
    BY <1>3, <2>3 DEF Entries
  <2>7. \A s \in Slot :
          main' \in {"loop", "done"} \/ (main' = "transfer" /\ s < xfer') =>
            buffers'[s].next = 0
    <3>1. \A s \in Slot : s <= xfer => s = xfer \/ s < xfer
      BY <1>1 DEF Slot
    <3>2. \A s \in Slot : s <= xfer => buffers'[s].next = 0
      BY <1>3, <3>1 DEF Entries
    <3> QED BY <1>2, <3>2
  <2> QED BY <1>3, <2>1, <2>2, <2>4, <2>5, <2>6, <2>7 DEF Entries
<1>7. InFlight'
  BY DEF Control, Bodies, InFlight, Pushing
<1> QED BY <1>4, <1>5, <1>6, <1>7

-----------------------------------------------------------------------------
\* The threads that share the work, and the graph, never change.
LEMMA WorkersStay == [Next]_vars => workers' = workers /\ graph' = graph
BY DEF Next, MainStep, Launch, Finish, Join, Transfer, TakeRange, BodyStep, NextVertex,
       Stray, EndRange, CheckEdge, EndVertex, Cas, PushIndex, PushStore, PushLoad, PushInc,
       Terminated, vars

\* A body reads an entry in use, and those were all written.
LEMMA NeverStrays == ASSUME IInv, NEW t \in Thread PROVE ~Stray(t)
<1> SUFFICES ASSUME Stray(t) PROVE FALSE
  OBVIOUS
<1>1. idx[t] \in Used(frontier)
  BY DEF IInv, Control, Bodies, TypeOK, Buffer, Stray, Used
<1> QED BY <1>1, UninitAssumption DEF IInv, Entries, Stray

LEMMA ClashStays == [Next]_vars => (NoSlotClash' <=> NoSlotClash)
BY WorkersStay DEF NoSlotClash, slot

LEMMA NextInv == ASSUME IInv, NoSlotClash, [Next]_vars PROVE IInv'
<1>1. CASE MainStep
  BY <1>1, LaunchInv, FinishInv, JoinInv, TransferInv DEF MainStep
<1>2. ASSUME NEW t \in Thread, TakeRange(t) PROVE IInv'
  BY <1>2, TakeRangeInv
<1>3. ASSUME NEW t \in Thread, BodyStep(t) PROVE IInv'
  BY <1>3, NeverStrays, NextVertexInv, EndRangeInv, CheckEdgeInv, EndVertexInv, CasInv,
     PushIndexInv, PushStoreInv, PushLoadInv, PushIncInv DEF BodyStep
<1>4. CASE UNCHANGED vars
  <2> USE <1>4 DEF vars, shared, control, locals
  <2>1. TypeOK'
    BY DEF IInv, TypeOK
  <2>2. Control'
    BY DEF IInv, Control, Bodies, Used, RowOf
  <2>3. Entries'
    BY DEF IInv, Entries, Used
  <2>4. InFlight'
    BY DEF IInv, InFlight, Used
  <2> QED BY <2>1, <2>2, <2>3, <2>4 DEF IInv
<1> QED BY <1>1, <1>2, <1>3, <1>4 DEF Next, Terminated

\* What the accesses of the bodies keep true between them, for every number of
\* threads and vertices, when no two threads share a buffer.
THEOREM Inductive == SafeSpec => [](NoSlotClash => IInv)
<1>1. Init => (NoSlotClash => IInv)
  BY InitInv
<1>2. (NoSlotClash => IInv) /\ [Next]_vars => (NoSlotClash => IInv)'
  BY NextInv, ClashStays
<1> QED BY <1>1, <1>2, PTL DEF SafeSpec

\* No vertex is explored twice, and no body reads an entry that was never
\* written.
THEOREM FrontierIsDistinct == SafeSpec => []FrontierDistinct
<1>1. (NoSlotClash => IInv) => FrontierDistinct
  BY DEF IInv, Control, Entries, FrontierDistinct, Used
<1> QED BY <1>1, Inductive, PTL

-----------------------------------------------------------------------------
(* The bounds, whether or not threads share a buffer. *)

LEMMA SetsOfNodes ==
  ASSUME NEW S \in SUBSET Node
  PROVE  IsFiniteSet(S) /\ Cardinality(S) \in Nat /\ Cardinality(S) <= NB_NODES
<1>1. IsFiniteSet(Node) /\ Cardinality(Node) = NB_NODES
  BY NodesAssumption, FS_Interval DEF Node
<1> QED BY <1>1, FS_Subset, FS_CardinalityType

\* A set of vertices that lacks one has room for it.
LEMMA OneMore ==
  ASSUME NEW S \in SUBSET Node, NEW d \in Node \ S
  PROVE  /\ Cardinality(S \cup {d}) = Cardinality(S) + 1
         /\ Cardinality(S) < NB_NODES
<1>1. Cardinality(S \cup {d}) = Cardinality(S) + 1
  BY SetsOfNodes, FS_AddElement
<1>2. Cardinality(S \cup {d}) <= NB_NODES /\ Cardinality(S) \in Nat
  BY SetsOfNodes
<1> QED BY <1>1, <1>2, NodesAssumption

LEMMA BothTogether ==
  ASSUME NEW S \in SUBSET Node, NEW T \in SUBSET Node, S \cap T = {}
  PROVE  /\ Cardinality(S \cup T) = Cardinality(S) + Cardinality(T)
         /\ Cardinality(S) + Cardinality(T) <= NB_NODES
<1>1. IsFiniteSet(S) /\ IsFiniteSet(T) /\ Cardinality(S) \in Nat /\ Cardinality(T) \in Nat
  BY SetsOfNodes
<1>2. Cardinality(S \cup T) = Cardinality(S) + Cardinality(T) - Cardinality(S \cap T)
  BY <1>1, FS_Union
<1>3. Cardinality(S \cap T) = 0
  BY FS_EmptySet
<1>4. Cardinality(S \cup T) <= NB_NODES
  BY SetsOfNodes
<1> QED BY <1>1, <1>2, <1>3, <1>4

\* Nobody has pushed and nothing has been transferred.
Untouched == [s \in Slot |-> {}]

LEMMA UntouchedIs ==
  /\ Untouched \in [Slot -> SUBSET Node]
  /\ \A s \in Slot : Untouched[s] = {} /\ Cardinality(Untouched[s]) = 0
BY FS_EmptySet DEF Untouched

LEMMA InitBounds == Init => BoundsInv
<1> SUFFICES ASSUME Init PROVE BoundsInv
  OBVIOUS
<1>1. TypeOK /\ Control /\ Entries
  BY InitInv DEF IInv
<1>2. Exclusive
  BY DEF Init, Exclusive, Pushing
<1>3. Emptied
  BY <1>1 DEF Entries, Emptied
<1>4. Accounted
  <2>1. {source} \in SUBSET Node /\ Cardinality({source}) = 1
    BY SourceAssumption, FS_Singleton
  <2>2. frontier.next = 1
    BY DEF Init, tb_set_next, tb_store, tb_init
  <2>3. \A s \in Slot : buffers[s].next = 0
    BY DEF Init, tb_init
  <2>4. \A t \in Thread : pc[t] = "idle"
    BY DEF Init
  <2>5. Accounts(Untouched, {source})
    BY <2>1, <2>2, <2>3, <2>4, UntouchedIs DEF Accounts, Pushing
  <2> QED BY <2>1, <2>5, UntouchedIs DEF Accounted
<1> QED BY <1>1, <1>2, <1>3, <1>4 DEF Control, BoundsInv

\* A level starts with empty buffers.
LEMMA LaunchBounds == BoundsInv /\ Launch => BoundsInv'
<1> SUFFICES ASSUME BoundsInv, Launch PROVE BoundsInv'
  OBVIOUS
<1> USE DEF BoundsInv, Launch, shared, locals
<1>1. TypeOK'
  BY NodesAssumption DEF TypeOK, Emptied, Node, Buffer
<1>2. Bodies'
  BY DEF TypeOK, Bodies, Used, OnEdge, Pushing
<1>3. Exclusive' /\ Emptied'
  BY DEF Exclusive, Emptied
<1>4. Accounted'
  <2>1. \A t \in Thread : pc'[t] \notin Pushing
    BY DEF TypeOK, Bodies, Pushing
  <2>2. \A s \in Slot : buffers'[s].next = 0
    BY DEF Emptied
  <2>3. Accounts(Untouched, {})'
    BY <2>1, <2>2, UntouchedIs DEF Accounts, Pushing, Untouched
  <2>4. Untouched' = Untouched
    BY DEF Untouched, Slot
  <2> QED BY <2>3, <2>4, UntouchedIs DEF Accounted, Slot
<1> QED BY <1>1, <1>2, <1>3, <1>4

\* A step that leaves the vertices and the buffers alone keeps the accounts,
\* if it brings no body into a push and changes no register that is in use.
LEMMA AccountsStay ==
  ASSUME NEW pushes, NEW moved, Accounts(pushes, moved),
         visited' = visited, buffers' = buffers,
         main' \notin {"parallel", "undefined"} =>
           main \notin {"parallel", "undefined"} /\ frontier' = frontier,
         \A t \in Thread : /\ pc'[t] \in Pushing => pc[t] \in Pushing /\ dst'[t] = dst[t]
                           /\ pc'[t] \in {"store", "inc"} =>
                                \/ pc[t] \in {"store", "inc"} /\ tmp'[t] = tmp[t]
                                \/ tmp'[t] = buffers[slot(t)].next
  PROVE  Accounts(pushes, moved)'
<1>1. Visited' = Visited /\ Slot' = Slot
  BY DEF Visited, Slot
<1>2. \A t \in Thread : slot(t) \in Slot
  BY SlotInRange
<1> QED BY <1>1, <1>2 DEF Accounts, slot

\* Such a step keeps the whole of the invariant, apart from the control.
LEMMA PlainStep ==
  ASSUME BoundsInv,
         visited' = visited, buffers' = buffers, frontier' = frontier, main' = main, xfer' = xfer,
         \A t \in Thread : /\ pc'[t] \in Pushing => pc[t] \in Pushing /\ dst'[t] = dst[t]
                           /\ pc'[t] \in {"store", "inc"} =>
                                \/ pc[t] \in {"store", "inc"} /\ tmp'[t] = tmp[t]
                                \/ tmp'[t] = buffers[slot(t)].next
  PROVE  (Exclusive /\ Emptied /\ Accounted)'
<1>1. Exclusive'
  BY DEF BoundsInv, Exclusive
<1>2. Emptied'
  BY DEF BoundsInv, Emptied
<1>3. PICK pushes \in [Slot -> SUBSET Node], moved \in SUBSET Node : Accounts(pushes, moved)
  BY DEF BoundsInv, Accounted
<1>4. Accounts(pushes, moved)'
  BY <1>3, AccountsStay
<1>5. Accounted'
  BY <1>4 DEF Accounted
<1> QED BY <1>1, <1>2, <1>5

LEMMA FinishBounds == BoundsInv /\ Finish => BoundsInv'
<1> SUFFICES ASSUME BoundsInv, Finish PROVE BoundsInv'
  OBVIOUS
<1> USE DEF BoundsInv, Finish, shared, locals
<1>1. TypeOK'
  BY DEF TypeOK
<1>2. Bodies'
  BY DEF TypeOK, Bodies, Used, OnEdge, Pushing
<1>3. Exclusive' /\ Emptied'
  BY DEF Exclusive, Emptied
<1>4. PICK pushes \in [Slot -> SUBSET Node], moved \in SUBSET Node : Accounts(pushes, moved)
  BY DEF Accounted
<1>5. Accounts(pushes, moved)'
  BY <1>4, AccountsStay
<1>6. Accounted'
  BY <1>5 DEF Accounted
<1> QED BY <1>1, <1>2, <1>3, <1>6

\* When the level has ended nothing has been transferred yet.
LEMMA JoinBounds == BoundsInv /\ Join => BoundsInv'
<1> SUFFICES ASSUME BoundsInv, Join PROVE BoundsInv'
  OBVIOUS
<1> USE DEF BoundsInv, Join, locals, ParallelForEnds
<1>0. frontier'.next = 0 /\ frontier' \in Buffer
  BY BufferOps DEF TypeOK, tb_clear, Buffer
<1>1. TypeOK'
  BY <1>0, ThreadsAssumption DEF TypeOK
<1>2. Bodies'
  BY DEF TypeOK, Bodies, OnEdge, Pushing
<1>3. Exclusive'
  BY DEF Exclusive
<1>4. Emptied'
  BY <1>0, NodesAssumption DEF Emptied, Slot
<1>5. PICK pushes \in [Slot -> SUBSET Node], moved \in SUBSET Node : Accounts(pushes, moved)
  BY DEF Accounted
<1>6. Accounts(pushes, {})'
  <2>1. Visited' = Visited
    BY DEF Visited
  <2>2. Cardinality({}) = 0
    BY FS_EmptySet
  <2> QED BY <1>0, <1>5, <2>1, <2>2 DEF Accounts, slot
<1>7. Accounted'
  BY <1>6 DEF Accounted
<1> QED BY <1>1, <1>2, <1>3, <1>4, <1>7

\* What has been pushed on a buffer and what was transferred before are
\* different vertices, so the frontier has room for the buffer.
LEMMA RoomForBuffer ==
  ASSUME TypeOK, main = "transfer", NEW pushes \in [Slot -> SUBSET Node],
         NEW moved \in SUBSET Node, Accounts(pushes, moved)
  PROVE  /\ xfer \in Slot /\ frontier \in Buffer /\ buffers[xfer] \in Buffer
         /\ frontier.next + buffers[xfer].next <= Cardinality(moved \cup pushes[xfer])
         /\ frontier.next + buffers[xfer].next <= NB_NODES
<1>1. xfer \in Slot
  BY ThreadsAssumption DEF TypeOK, Slot
<1>2. frontier \in Buffer /\ buffers[xfer] \in Buffer
  BY <1>1 DEF TypeOK
<1>3. frontier.next <= Cardinality(moved) /\ buffers[xfer].next <= Cardinality(pushes[xfer])
      /\ moved \cap pushes[xfer] = {}
  BY <1>1 DEF Accounts
<1>4. /\ Cardinality(moved \cup pushes[xfer]) = Cardinality(moved) + Cardinality(pushes[xfer])
      /\ Cardinality(moved) + Cardinality(pushes[xfer]) <= NB_NODES
  BY <1>1, <1>3, BothTogether
<1>5. Cardinality(moved) \in Nat /\ Cardinality(pushes[xfer]) \in Nat
      /\ frontier.next \in Nat /\ buffers[xfer].next \in Nat
  BY <1>1, <1>2, SetsOfNodes DEF Buffer
<1> QED BY <1>1, <1>2, <1>3, <1>4, <1>5, NodesAssumption

LEMMA TransferBounds == BoundsInv /\ Transfer => BoundsInv'
<1> SUFFICES ASSUME BoundsInv, Transfer PROVE BoundsInv'
  OBVIOUS
<1> USE DEF BoundsInv, Transfer, locals
<1>1. PICK pushes \in [Slot -> SUBSET Node], moved \in SUBSET Node : Accounts(pushes, moved)
  BY DEF Accounted
<1>2. /\ xfer \in Slot /\ frontier \in Buffer /\ buffers[xfer] \in Buffer
      /\ frontier.next + buffers[xfer].next <= Cardinality(moved \cup pushes[xfer])
      /\ frontier.next + buffers[xfer].next <= NB_NODES
  BY <1>1, RoomForBuffer
<1>3. /\ xfer' = xfer + 1 /\ xfer' \in 0 .. THREADS
      /\ xfer' = THREADS => main' = "loop"
      /\ xfer' # THREADS => main' = "transfer" /\ xfer' < THREADS
      /\ \A s \in Slot : s < xfer' => s <= xfer
      /\ xfer' = THREADS => \A s \in Slot : s <= xfer
  BY <1>2, ThreadsAssumption DEF Slot
<1>4. /\ buffers' \in [Slot -> Buffer] /\ frontier' \in Buffer
      /\ buffers'[xfer].next = 0
      /\ \A s \in Slot \ {xfer} : buffers'[s] = buffers[s]
      /\ frontier'.next = frontier.next + buffers[xfer].next
  <2>0. frontier.next \in Nat /\ buffers[xfer].next \in Nat
    BY <1>2 DEF Buffer
  <2>1. CASE buffers[xfer].next = 0
    BY <1>2, <2>0, <2>1 DEF TypeOK
  <2>2. CASE buffers[xfer].next # 0
    <3>1. frontier' = tb_receive(frontier, buffers[xfer])
          /\ buffers' = [buffers EXCEPT ![xfer] = tb_clear(@)]
      BY <2>2
    <3>2. tb_clear(buffers[xfer]) \in Buffer /\ tb_clear(buffers[xfer]).next = 0
      BY <1>2, BufferOps DEF tb_clear, Buffer
    <3>3. /\ buffers' \in [Slot -> Buffer] /\ buffers'[xfer].next = 0
          /\ \A s \in Slot \ {xfer} : buffers'[s] = buffers[s]
      BY <1>2, <3>1, <3>2 DEF TypeOK
    <3>4. frontier' \in Buffer
      BY <1>2, <3>1, BufferOps
    <3>5. frontier'.next = frontier.next + buffers[xfer].next
      BY <3>1 DEF tb_receive
    <3> QED BY <3>3, <3>4, <3>5
  <2> QED BY <2>1, <2>2
<1>5. TypeOK'
  BY <1>3, <1>4 DEF TypeOK
<1>6. Bodies'
  BY <1>3 DEF TypeOK, Bodies, OnEdge, Pushing
<1>7. Exclusive'
  BY DEF Bodies, Exclusive, Pushing
<1>8. Emptied'
  <2>1. \A s \in Slot : s <= xfer => s = xfer \/ s < xfer
    BY <1>2 DEF Slot
  <2>2. \A s \in Slot : s <= xfer => buffers'[s].next = 0
    BY <1>4, <2>1 DEF Emptied
  <2>3. frontier'.next <= NB_NODES
    BY <1>2, <1>4
  <2> QED BY <1>3, <2>2, <2>3 DEF Emptied
<1>9. Accounted'
  <2>0. PICK x \in Slot : x = xfer
    BY <1>2
  <2> DEFINE left == [pushes EXCEPT ![x] = {}]
             now == moved \cup pushes[x]
  <2>1. left \in [Slot -> SUBSET Node] /\ now \in SUBSET Node
    OBVIOUS
  <2>2. left[xfer] = {} /\ \A s \in Slot \ {xfer} : left[s] = pushes[s]
    BY <2>0
  <2>3. Visited' = Visited
    BY DEF Visited
  <2>4. \A t \in Thread : pc'[t] \notin Pushing
    BY DEF Bodies, Pushing
  <2>5. ASSUME NEW s \in Slot
        PROVE  /\ left[s] \subseteq Visited \ now
               /\ \A r \in Slot : r # s => left[s] \cap left[r] = {}
               /\ buffers'[s].next <= Cardinality(left[s])
    <3>1. CASE s = xfer
      BY <1>4, <2>2, <3>1, FS_EmptySet
    <3>2. CASE s # xfer
      <4>1. left[s] = pushes[s] /\ pushes[s] \subseteq Visited \ moved
            /\ \A r \in Slot : r # s => pushes[s] \cap pushes[r] = {}
        BY <1>1, <2>2, <3>2 DEF Accounts
      <4>2. buffers'[s].next <= Cardinality(left[s])
        BY <1>1, <1>4, <2>2, <3>2 DEF Accounts
      <4>3. \A r \in Slot : r # s => left[s] \cap left[r] = {}
        BY <2>2, <4>1
      <4> QED BY <1>1, <1>2, <2>0, <3>2, <4>1, <4>2, <4>3 DEF Accounts
    <3> QED BY <3>1, <3>2
  <2>6. frontier'.next <= Cardinality(now)
    BY <1>2, <1>4, <2>0
  <2>7. Accounts(left, now)'
    <3> HIDE DEF left, now
    <3> QED BY <2>3, <2>4, <2>5, <2>6 DEF Accounts, Pushing
  <2> HIDE DEF left, now
  <2> QED BY <2>1, <2>7 DEF Accounted
<1> QED BY <1>5, <1>6, <1>7, <1>8, <1>9

-----------------------------------------------------------------------------
(* The bodies keep the bounds. *)

LEMMA TakeRangeBounds == ASSUME NEW t \in Thread PROVE BoundsInv /\ TakeRange(t) => BoundsInv'
<1> SUFFICES ASSUME BoundsInv, TakeRange(t) PROVE BoundsInv'
  OBVIOUS
<1> USE DEF BoundsInv, TakeRange, shared, Goto
<1>0. PICK r \in Ranges(pending) :
        /\ pending' = pending \ (r[1] .. r[2] - 1)
        /\ idx' = [idx EXCEPT ![t] = r[1]]
        /\ stop' = [stop EXCEPT ![t] = r[2]]
  OBVIOUS
<1>1. /\ r[1] \in Nat /\ r[2] \in Nat /\ r[1] < r[2] /\ r[2] - 1 \in pending
      /\ r[1] .. r[2] - 1 \subseteq pending
  <2>1. pending \in SUBSET Nat
    BY DEF TypeOK, Node
  <2> QED BY <2>1, RangeBounds
<1>2. TypeOK'
  BY <1>0, <1>1 DEF TypeOK
<1>3. Bodies'
  <2>1. r[2] <= frontier.next
    BY <1>1 DEF TypeOK, Bodies, Used, Buffer
  <2>2. pending' \subseteq pending /\ main' = "parallel" /\ frontier' = frontier
    BY <1>0
  <2>3. \A u \in Thread : u # t =>
          pc'[u] = pc[u] /\ idx'[u] = idx[u] /\ stop'[u] = stop[u]
    BY <1>0 DEF TypeOK
  <2>4. pc'[t] = "vertex" /\ stop'[t] = r[2]
    BY <1>0 DEF TypeOK
  <2>5. main' = "parallel" => pending' \subseteq Used(frontier')
    BY <2>2 DEF Bodies, Used
  <2> QED BY <2>1, <2>2, <2>3, <2>4, <2>5 DEF Bodies, OnEdge, Pushing, RowOf
<1>4. \A u \in Thread : pc'[u] \in Pushing => pc'[u] = pc[u]
  BY DEF TypeOK, Pushing
<1>5. (Exclusive /\ Emptied /\ Accounted)'
  BY <1>4, PlainStep DEF Pushing
<1> QED BY <1>2, <1>3, <1>5

\* An entry that nobody has written yields any vertex, the others a vertex.
LEMMA NextVertexBounds == ASSUME NEW t \in Thread PROVE BoundsInv /\ NextVertex(t) => BoundsInv'
<1> SUFFICES ASSUME BoundsInv, NextVertex(t) PROVE BoundsInv'
  OBVIOUS
<1> USE DEF BoundsInv, NextVertex, shared, control, Goto
<1>0. idx[t] \in Node
  <2>1. idx[t] < stop[t] /\ stop[t] <= frontier.next /\ frontier.next <= NB_NODES
    BY DEF Bodies, Emptied
  <2>2. idx[t] \in Nat /\ stop[t] \in Nat /\ frontier.next \in Nat
    BY DEF TypeOK, Buffer
  <2> QED BY <2>1, <2>2, NodesAssumption DEF Node
<1>1. Entry(frontier, idx[t]) \subseteq Node
  BY <1>0 DEF Entry, TypeOK, Buffer
<1>2. PICK v \in Node : /\ src' = [src EXCEPT ![t] = v]
                        /\ beg' = [beg EXCEPT ![t] = graph.out_edge_offsets[v]]
  BY <1>1
<1>3. graph.out_edge_offsets[v] \in Nat
  <2>1. graph.out_edge_offsets[v] \in 0 .. graph.nb_edges
    BY RowInEdges DEF TypeOK
  <2> QED BY <2>1
<1>4. TypeOK'
  BY <1>2, <1>3 DEF TypeOK
<1>5. Bodies'
  BY <1>2, <1>3 DEF TypeOK, Bodies, OnEdge, Pushing, Used, RowOf
<1>6. \A u \in Thread : pc'[u] \in Pushing => pc'[u] = pc[u]
  BY DEF TypeOK, Pushing
<1>7. (Exclusive /\ Emptied /\ Accounted)'
  BY <1>6, PlainStep DEF Pushing
<1> QED BY <1>4, <1>5, <1>7

LEMMA EndRangeBounds == ASSUME NEW t \in Thread PROVE BoundsInv /\ EndRange(t) => BoundsInv'
<1> SUFFICES ASSUME BoundsInv, EndRange(t) PROVE BoundsInv'
  OBVIOUS
<1> USE DEF BoundsInv, EndRange, shared, control, Goto
<1>1. TypeOK'
  BY NodesAssumption DEF TypeOK, Node
<1>2. Bodies'
  BY DEF TypeOK, Bodies, OnEdge, Pushing, Used, RowOf
<1>3. \A u \in Thread : pc'[u] \in Pushing => pc'[u] = pc[u] /\ dst'[u] = dst[u] /\ tmp'[u] = tmp[u]
  BY DEF TypeOK, Pushing
<1>4. (Exclusive /\ Emptied /\ Accounted)'
  BY <1>3, PlainStep DEF Pushing
<1> QED BY <1>1, <1>2, <1>4

LEMMA CheckEdgeBounds == ASSUME NEW t \in Thread PROVE BoundsInv /\ CheckEdge(t) => BoundsInv'
<1> SUFFICES ASSUME BoundsInv, CheckEdge(t) PROVE BoundsInv'
  OBVIOUS
<1> USE DEF BoundsInv, CheckEdge, shared, control, Goto
<1>1. src[t] \in Node /\ beg[t] \in Nat /\ IsGraph(graph)
  BY DEF TypeOK
<1>2. /\ graph.out_edge_offsets[src[t]] \in Nat
      /\ graph.out_edge_offsets[src[t] + 1] \in Nat
      /\ \A k \in RowOf(src[t]) : graph.out_edges[k] \in Node
  BY RowOfBody
<1>3. beg[t] \in RowOf(src[t])
  BY <1>1, <1>2 DEF Bodies, OnEdge, RowOf
<1>4. TypeOK'
  BY <1>2, <1>3 DEF TypeOK
<1>5. Bodies'
  BY <1>1, <1>2, <1>3 DEF TypeOK, Bodies, OnEdge, Pushing, Used, RowOf
<1>6. \A u \in Thread : pc'[u] \in Pushing => pc'[u] = pc[u] /\ dst'[u] = dst[u]
  BY DEF TypeOK, Pushing
<1>7. (Exclusive /\ Emptied /\ Accounted)'
  BY <1>6, PlainStep DEF Pushing
<1> QED BY <1>4, <1>5, <1>7

LEMMA EndVertexBounds == ASSUME NEW t \in Thread PROVE BoundsInv /\ EndVertex(t) => BoundsInv'
<1> SUFFICES ASSUME BoundsInv, EndVertex(t) PROVE BoundsInv'
  OBVIOUS
<1> USE DEF BoundsInv, EndVertex, shared, control, Goto
<1>1. TypeOK'
  BY DEF TypeOK
<1>2. Bodies'
  BY DEF TypeOK, Bodies, OnEdge, Pushing, Used, RowOf
<1>3. \A u \in Thread : pc'[u] \in Pushing => pc'[u] = pc[u]
  BY DEF TypeOK, Pushing
<1>4. (Exclusive /\ Emptied /\ Accounted)'
  BY <1>3, PlainStep DEF Pushing
<1> QED BY <1>1, <1>2, <1>4

\* A vertex that was not visited is in no account.
LEMMA CasBounds == ASSUME NEW t \in Thread PROVE BoundsInv /\ Cas(t) => BoundsInv'
<1> SUFFICES ASSUME BoundsInv, Cas(t) PROVE BoundsInv'
  OBVIOUS
<1> USE DEF BoundsInv, Cas, control, Goto
<1>1. TypeOK'
  <2>1. TypeOK
    OBVIOUS
  <2>2. visited' \in [Node -> {0, 1}]
    BY ONLY <2>1, Cas(t) DEF TypeOK, Cas
  <2>3. pc' \in [Thread -> Pushing \cup {"idle", "vertex", "edge", "cas"}]
    <3>1. pc' = [pc EXCEPT ![t] = "index"] \/ pc' = [pc EXCEPT ![t] = "edge"]
      BY ONLY Cas(t) DEF Cas, Goto
    <3> QED BY ONLY <2>1, <3>1 DEF TypeOK, Pushing
  <2>4. beg' \in [Thread -> Nat]
    BY ONLY <2>1, Cas(t) DEF TypeOK, Cas
  <2> QED BY <2>1, <2>2, <2>3, <2>4 DEF TypeOK
<1>2. Bodies'
  <2>1. beg[t] \in Nat /\ graph.out_edge_offsets[src[t]] \in Nat
    BY RowOfBody
  <2>2. graph.out_edge_offsets[src[t]] <= beg[t] + 1
    BY <2>1 DEF Bodies, OnEdge
  <2>3. \A u \in Thread : u # t => pc'[u] = pc[u] /\ beg'[u] = beg[u]
    BY DEF TypeOK
  <2>4. \/ pc'[t] = "index" /\ beg'[t] = beg[t]
        \/ pc'[t] = "edge" /\ beg'[t] = beg[t] + 1
    BY DEF TypeOK
  <2> QED BY <2>2, <2>3, <2>4 DEF Bodies, OnEdge, Pushing, Used, RowOf
<1>3. (Exclusive /\ Emptied /\ Accounted)'
  <2>1. CASE visited[dst[t]] # 0
    <3>1. visited' = visited
      BY <2>1
    <3>2. \A u \in Thread : pc'[u] \in Pushing => pc'[u] = pc[u]
      BY <2>1 DEF TypeOK, Pushing
    <3> QED BY <3>1, <3>2, PlainStep DEF Pushing
  <2>2. CASE visited[dst[t]] = 0
    <3>1. dst[t] \in Node \ Visited /\ dst[t] \in Visited' /\ Visited \subseteq Visited'
      BY <2>2 DEF TypeOK, Visited
    <3>2. pc'[t] = "index" /\ \A u \in Thread : u # t => pc'[u] = pc[u]
      BY <2>2 DEF TypeOK
    <3>3. Exclusive'
      <4>1. \A u \in Thread : pc[u] \in Pushing => dst[u] \in Visited
        BY DEF Exclusive, Visited, TypeOK
      <4>2. \A u \in Thread : pc'[u] \in Pushing => dst[u] \in Visited'
        BY <3>1, <3>2, <4>1
      <4>3. \A u, v \in Thread :
              pc'[u] \in Pushing /\ pc'[v] \in Pushing /\ dst[u] = dst[v] => u = v
        BY <3>1, <3>2, <4>1 DEF Exclusive
      <4> QED BY <4>2, <4>3 DEF Exclusive, Visited
    <3>4. Emptied'
      BY DEF Emptied
    <3>5. PICK pushes \in [Slot -> SUBSET Node], moved \in SUBSET Node : Accounts(pushes, moved)
      BY DEF Accounted
    <3>6. Accounts(pushes, moved)'
      BY <3>1, <3>2, <3>5 DEF Accounts, slot
    <3> QED BY <3>3, <3>4, <3>6 DEF Accounted
  <2> QED BY <2>1, <2>2
<1> QED BY <1>1, <1>2, <1>3

\* A register that is read from next is no further than next.
LEMMA PushIndexBounds == ASSUME NEW t \in Thread PROVE BoundsInv /\ PushIndex(t) => BoundsInv'
<1> SUFFICES ASSUME BoundsInv, PushIndex(t) PROVE BoundsInv'
  OBVIOUS
<1> USE DEF BoundsInv, PushIndex, shared, control, Goto
<1>1. TypeOK'
  BY SlotInRange DEF TypeOK, Buffer, Pushing
<1>2. Bodies'
  BY DEF TypeOK, Bodies, OnEdge, Pushing, Used, RowOf
<1>3. \A u \in Thread : /\ pc'[u] \in Pushing => pc[u] \in Pushing
                        /\ u # t => pc'[u] = pc[u] /\ tmp'[u] = tmp[u]
                        /\ tmp'[t] = buffers[slot(t)].next
  BY DEF TypeOK, Pushing
<1>4. (Exclusive /\ Emptied /\ Accounted)'
  BY <1>3, PlainStep
<1> QED BY <1>1, <1>2, <1>4

LEMMA PushLoadBounds == ASSUME NEW t \in Thread PROVE BoundsInv /\ PushLoad(t) => BoundsInv'
<1> SUFFICES ASSUME BoundsInv, PushLoad(t) PROVE BoundsInv'
  OBVIOUS
<1> USE DEF BoundsInv, PushLoad, shared, control, Goto
<1>1. TypeOK'
  BY SlotInRange DEF TypeOK, Buffer, Pushing
<1>2. Bodies'
  BY DEF TypeOK, Bodies, OnEdge, Pushing, Used, RowOf
<1>3. \A u \in Thread : /\ pc'[u] \in Pushing => pc[u] \in Pushing
                        /\ u # t => pc'[u] = pc[u] /\ tmp'[u] = tmp[u]
                        /\ tmp'[t] = buffers[slot(t)].next
  BY DEF TypeOK, Pushing
<1>4. (Exclusive /\ Emptied /\ Accounted)'
  BY <1>3, PlainStep
<1> QED BY <1>1, <1>2, <1>4

\* A body that pushes has one vertex more than its buffer.
LEMMA RoomForPush ==
  ASSUME TypeOK, Exclusive, NEW pushes \in [Slot -> SUBSET Node], NEW moved,
         Accounts(pushes, moved), NEW t \in Thread, pc[t] \in {"store", "inc"}
  PROVE  /\ slot(t) \in Slot /\ dst[t] \in Visited /\ dst[t] \in Node
         /\ dst[t] \notin pushes[slot(t)]
         /\ tmp[t] <= Cardinality(pushes[slot(t)]) /\ tmp[t] < NB_NODES
         /\ Cardinality(pushes[slot(t)] \cup {dst[t]}) = Cardinality(pushes[slot(t)]) + 1
<1>1. slot(t) \in Slot /\ dst[t] \in Node /\ tmp[t] \in Nat
  BY SlotInRange DEF TypeOK
<1>2. dst[t] \in Visited
  BY <1>1 DEF Exclusive, Pushing, Visited
<1>3. dst[t] \notin pushes[slot(t)] /\ tmp[t] <= Cardinality(pushes[slot(t)])
  BY <1>1 DEF Accounts, Pushing
<1>4. pushes[slot(t)] \in SUBSET Node
  BY <1>1
<1>5. /\ Cardinality(pushes[slot(t)] \cup {dst[t]}) = Cardinality(pushes[slot(t)]) + 1
      /\ Cardinality(pushes[slot(t)]) < NB_NODES
  BY <1>1, <1>3, <1>4, OneMore
<1>6. Cardinality(pushes[slot(t)]) \in Nat
  BY <1>4, SetsOfNodes
<1> QED BY <1>1, <1>2, <1>3, <1>5, <1>6, NodesAssumption

LEMMA PushStoreBounds == ASSUME NEW t \in Thread PROVE BoundsInv /\ PushStore(t) => BoundsInv'
<1> SUFFICES ASSUME BoundsInv, PushStore(t) PROVE BoundsInv'
  OBVIOUS
<1> USE DEF BoundsInv, PushStore, control, locals, Goto
<1>1. slot(t) \in Slot /\ dst[t] \in Node /\ tmp[t] \in Nat
  BY SlotInRange DEF TypeOK
<1>2. TypeOK'
  BY <1>1, BufferOps DEF TypeOK, Pushing
<1>3. Bodies'
  BY DEF TypeOK, Bodies, OnEdge, Pushing, Used, RowOf
<1>4. \A s \in Slot : buffers'[s].next = buffers[s].next
  BY <1>1 DEF TypeOK, Buffer, tb_store
<1>5. \A u \in Thread : /\ pc'[u] \in Pushing => pc[u] \in Pushing
                        /\ pc'[u] \in {"store", "inc"} => pc'[u] = pc[u]
  BY DEF TypeOK, Pushing
<1>6. Exclusive'
  BY <1>5 DEF Exclusive
<1>7. Emptied'
  BY <1>4 DEF Emptied
<1>8. PICK pushes \in [Slot -> SUBSET Node], moved \in SUBSET Node : Accounts(pushes, moved)
  BY DEF Accounted
<1>9. Accounts(pushes, moved)'
  <2>1. Visited' = Visited
    BY DEF Visited
  <2> QED BY <1>4, <1>5, <1>8, <2>1 DEF Accounts, slot
<1>10. Accounted'
  BY <1>9 DEF Accounted
<1> QED BY <1>2, <1>3, <1>6, <1>7, <1>10

\* The vertex that was in flight goes to the account of the buffer, whatever
\* the increment leaves in next.
LEMMA PushIncBounds == ASSUME NEW t \in Thread PROVE BoundsInv /\ PushInc(t) => BoundsInv'
<1> SUFFICES ASSUME BoundsInv, PushInc(t) PROVE BoundsInv'
  OBVIOUS
<1> USE DEF BoundsInv, PushInc, control, Goto
<1>1. PICK pushes \in [Slot -> SUBSET Node], moved \in SUBSET Node : Accounts(pushes, moved)
  BY DEF Accounted
<1>2. /\ slot(t) \in Slot /\ dst[t] \in Visited /\ dst[t] \in Node
      /\ dst[t] \notin pushes[slot(t)]
      /\ tmp[t] <= Cardinality(pushes[slot(t)])
      /\ Cardinality(pushes[slot(t)] \cup {dst[t]}) = Cardinality(pushes[slot(t)]) + 1
  BY <1>1, RoomForPush
<1>3. /\ buffers' \in [Slot -> Buffer]
      /\ buffers'[slot(t)].next = tmp[t] + 1
      /\ \A s \in Slot \ {slot(t)} : buffers'[s] = buffers[s]
  <2>1. buffers[slot(t)] \in Buffer /\ tmp[t] + 1 \in Nat
    BY <1>2 DEF TypeOK
  <2>2. tb_set_next(buffers[slot(t)], tmp[t] + 1) \in Buffer
    BY <2>1, BufferOps
  <2> QED BY <1>2, <2>1, <2>2 DEF TypeOK, tb_set_next, Buffer
<1>4. TypeOK'
  BY <1>3 DEF TypeOK, Pushing
<1>5. Bodies'
  <2>1. beg[t] \in Nat /\ graph.out_edge_offsets[src[t]] \in Nat
    BY RowOfBody
  <2>2. graph.out_edge_offsets[src[t]] <= beg[t] + 1
    BY <2>1 DEF Bodies, OnEdge, Pushing
  <2>3. \A u \in Thread : u # t => pc'[u] = pc[u] /\ beg'[u] = beg[u]
    BY DEF TypeOK
  <2>4. pc'[t] = "edge" /\ beg'[t] = beg[t] + 1
    BY DEF TypeOK
  <2> QED BY <2>2, <2>3, <2>4 DEF Bodies, OnEdge, Pushing, Used, RowOf
<1>6. main' = "parallel"
  BY DEF TypeOK, Bodies
<1>7. \A u \in Thread : pc'[u] \in Pushing => u # t /\ pc'[u] = pc[u]
  BY DEF TypeOK, Pushing
<1>8. Exclusive' /\ Emptied'
  BY <1>6, <1>7 DEF Exclusive, Emptied
<1>9. Accounted'
  <2>0. PICK x \in Slot, d \in Node : x = slot(t) /\ d = dst[t]
    BY <1>2
  <2> DEFINE more == [pushes EXCEPT ![x] = @ \cup {d}]
  <2>1. more \in [Slot -> SUBSET Node]
    OBVIOUS
  <2>2. more[x] = pushes[x] \cup {d} /\ \A s \in Slot \ {x} : more[s] = pushes[s]
    OBVIOUS
  <2>3. Visited' = Visited
    BY DEF Visited
  <2>4. \A s \in Slot : d \notin pushes[s]
    BY <1>1, <2>0 DEF Accounts, Pushing
  <2>5. \A u \in Thread : pc'[u] \in Pushing => dst[u] # d
    BY <1>7, <2>0 DEF Exclusive, Pushing
  <2>6. Cardinality(more[x]) = Cardinality(pushes[x]) + 1 /\ Cardinality(pushes[x]) \in Nat
    BY <1>2, <2>0, <2>2, SetsOfNodes
  <2>7. ASSUME NEW s \in Slot
        PROVE  /\ more[s] \subseteq Visited \ {}
               /\ \A r \in Slot : r # s => more[s] \cap more[r] = {}
               /\ \A u \in Thread : pc'[u] \in Pushing => dst[u] \notin more[s]
               /\ buffers'[s].next <= Cardinality(more[s])
    <3>1. /\ pushes[s] \subseteq Visited /\ buffers[s].next <= Cardinality(pushes[s])
          /\ \A r \in Slot : r # s => pushes[s] \cap pushes[r] = {}
          /\ \A u \in Thread : pc[u] \in Pushing => dst[u] \notin pushes[s]
      BY <1>1 DEF Accounts
    <3>2. more[s] \subseteq Visited \ {}
      BY <1>2, <2>0, <2>2, <3>1
    <3>3. \A r \in Slot : r # s => more[s] \cap more[r] = {}
      BY <2>2, <2>4, <3>1
    <3>4. \A u \in Thread : pc'[u] \in Pushing => dst[u] \notin more[s]
      BY <1>7, <2>2, <2>5, <3>1
    <3>5. buffers'[s].next <= Cardinality(more[s])
      <4>1. CASE s = x
        BY <1>2, <1>3, <2>0, <2>6, <4>1 DEF TypeOK
      <4>2. CASE s # x
        BY <1>3, <2>0, <2>2, <3>1, <4>2
      <4> QED BY <4>1, <4>2
    <3> QED BY <3>2, <3>3, <3>4, <3>5
  <2>8. ASSUME NEW u \in Thread, pc'[u] \in {"store", "inc"}
        PROVE  tmp[u] <= Cardinality(more[slot(u)])
    <3>1. tmp[u] <= Cardinality(pushes[slot(u)]) /\ tmp[u] \in Nat /\ slot(u) \in Slot
      BY <1>1, <1>7, <2>8, SlotInRange DEF Accounts, Pushing, TypeOK
    <3>2. CASE slot(u) = x
      BY <2>6, <3>1, <3>2
    <3>3. CASE slot(u) # x
      BY <2>2, <3>1, <3>3
    <3> QED BY <3>2, <3>3
  <2>9. Accounts(more, {})'
    <3> HIDE DEF more
    <3> QED BY <1>6, <2>3, <2>7, <2>8 DEF Accounts, slot
  <2> HIDE DEF more
  <2> QED BY <2>1, <2>9 DEF Accounted
<1> QED BY <1>4, <1>5, <1>8, <1>9

\* After the read of an entry that is no vertex nothing happens any more.
LEMMA StrayBounds == ASSUME NEW t \in Thread PROVE BoundsInv /\ Stray(t) => BoundsInv'
<1> SUFFICES ASSUME BoundsInv, Stray(t) PROVE BoundsInv'
  OBVIOUS
<1> USE DEF BoundsInv, Stray, shared, locals
<1>1. \A u \in Thread : pc'[u] = "idle"
  OBVIOUS
<1>2. TypeOK'
  BY DEF TypeOK
<1>3. Bodies'
  BY <1>1 DEF Bodies, OnEdge, Pushing
<1>4. Exclusive' /\ Emptied'
  BY <1>1 DEF Exclusive, Emptied, Pushing
<1>5. PICK pushes \in [Slot -> SUBSET Node], moved \in SUBSET Node : Accounts(pushes, moved)
  BY DEF Accounted
<1>6. Accounts(pushes, moved)'
  BY <1>1, <1>5, AccountsStay DEF Pushing
<1>7. Accounted'
  BY <1>6 DEF Accounted
<1> QED BY <1>2, <1>3, <1>4, <1>7

-----------------------------------------------------------------------------
LEMMA NextBounds == BoundsInv /\ [Next]_vars => BoundsInv'
<1> SUFFICES ASSUME BoundsInv, [Next]_vars PROVE BoundsInv'
  OBVIOUS
<1>1. CASE MainStep
  BY <1>1, LaunchBounds, FinishBounds, JoinBounds, TransferBounds DEF MainStep
<1>2. ASSUME NEW t \in Thread, TakeRange(t) PROVE BoundsInv'
  BY <1>2, TakeRangeBounds
<1>3. ASSUME NEW t \in Thread, BodyStep(t) PROVE BoundsInv'
  BY <1>3, NextVertexBounds, EndRangeBounds, CheckEdgeBounds, EndVertexBounds, CasBounds,
     PushIndexBounds, PushStoreBounds, PushLoadBounds, PushIncBounds, StrayBounds DEF BodyStep
<1>4. CASE UNCHANGED vars
  <2> USE <1>4 DEF vars, shared, control, locals
  <2>1. TypeOK'
    BY DEF BoundsInv, TypeOK
  <2>2. Bodies'
    BY DEF BoundsInv, Bodies, Used, RowOf
  <2>3. (Exclusive /\ Emptied /\ Accounted)'
    BY PlainStep
  <2> QED BY <2>1, <2>2, <2>3 DEF BoundsInv
<1> QED BY <1>1, <1>2, <1>3, <1>4 DEF Next, Terminated

\* What holds between the accesses of the bodies even when threads share a
\* buffer and pushes get lost, for every number of threads and vertices, up to
\* a read of an entry that was never written and is no vertex.
THEOREM BoundsInductive == SafeSpec => []BoundsInv
<1> QED BY InitBounds, NextBounds, PTL DEF SafeSpec

\* The state of bfs_push is well-typed: every vertex a body looks up is one,
\* unless it reads an entry that was never written and is no vertex (which
\* ends the model in "undefined").
THEOREM TypeCorrect == SafeSpec => []TypeOK
<1>1. BoundsInv => TypeOK
  BY DEF BoundsInv
<1> QED BY <1>1, BoundsInductive, PTL

\* No access of push or transfer is outside a buffer, although neither tests
\* the capacity, and although threads may share a buffer; up to a read of an
\* entry that was never written and is no vertex.
THEOREM NoOverflow == SafeSpec => []BuffersInBounds
<1>1. BoundsInv => BuffersInBounds
  <2> SUFFICES ASSUME BoundsInv PROVE BuffersInBounds
    OBVIOUS
  <2>1. PICK pushes \in [Slot -> SUBSET Node], moved \in SUBSET Node : Accounts(pushes, moved)
    BY DEF BoundsInv, Accounted
  <2>2. ASSUME NEW s \in Slot PROVE buffers[s].next <= NB_NODES
    <3>1. buffers[s].next <= Cardinality(pushes[s]) /\ buffers[s].next \in Nat
      BY <2>1 DEF Accounts, BoundsInv, TypeOK, Buffer
    <3>2. Cardinality(pushes[s]) <= NB_NODES /\ Cardinality(pushes[s]) \in Nat
      BY SetsOfNodes
    <3> QED BY <3>1, <3>2, NodesAssumption
  <2>3. \A t \in Thread : pc[t] = "store" => tmp[t] < NB_NODES
    BY <2>1, RoomForPush DEF BoundsInv
  <2>4. main = "transfer" => frontier.next + buffers[xfer].next <= NB_NODES
    BY <2>1, RoomForBuffer DEF BoundsInv
  <2> QED BY <2>2, <2>3, <2>4 DEF BoundsInv, Emptied, BuffersInBounds
<1> QED BY <1>1, BoundsInductive, PTL

-----------------------------------------------------------------------------
(* The level-synchronous search. *)

\* A claimed vertex is in a buffer or in flight.
LEMMA ClaimedIs ==
  /\ \A v : v \in Pushed <=> \E s \in Slot : \E k \in Used(buffers[s]) : v = buffers[s].buffer[k]
  /\ \A v : v \in Claimed <=>
       \/ v \in Pushed
       \/ \E t \in Thread : pc[t] \in Pushing /\ v = dst[t]
<1>1. \A v : v \in Pushed <=> \E s \in Slot : \E k \in Used(buffers[s]) : v = buffers[s].buffer[k]
  BY DEF Pushed, tb_contents, Used
<1>2. \A v : v \in Claimed <=> v \in Pushed \/ \E t \in Thread : pc[t] \in Pushing /\ v = dst[t]
  BY DEF Claimed
<1> QED BY <1>1, <1>2

\* Everything claimed is visited.
LEMMA ClaimedVisited == IInv => Claimed \subseteq Visited /\ Pushed \subseteq Claimed
<1> SUFFICES ASSUME IInv PROVE Claimed \subseteq Visited /\ Pushed \subseteq Claimed
  OBVIOUS
<1>1. \A v \in Pushed : v \in Visited
  BY ClaimedIs DEF IInv, Entries, Visited
<1>2. \A t \in Thread : pc[t] \in Pushing => dst[t] \in Visited
  BY DEF IInv, InFlight, TypeOK, Visited
<1> QED BY <1>1, <1>2, ClaimedIs

\* When nobody is inside a body, only what was pushed is claimed.
LEMMA IdleClaimed ==
  ASSUME \A t \in Thread : pc[t] = "idle" PROVE Claimed = Pushed
BY ClaimedIs DEF Pushing

\* When every buffer is empty, nothing is pushed.
LEMMA EmptyPushed ==
  ASSUME \A s \in Slot : buffers[s].next = 0 PROVE Pushed = {}
BY DEF Pushed, tb_contents

LEMMA ReceiveContents ==
  ASSUME NEW a \in Buffer, NEW b \in Buffer, a.next + b.next <= NB_NODES
  PROVE  tb_contents(tb_receive(a, b)) = tb_contents(a) \cup tb_contents(b)
<1> DEFINE c == tb_receive(a, b)
<1>1. a.next \in Nat /\ b.next \in Nat /\ DOMAIN a.buffer = Node
  BY DEF Buffer
<1>2. c.next = a.next + b.next
  BY DEF tb_receive
<1>3. \A k \in Node : c.buffer[k] =
        IF k \in a.next .. a.next + b.next - 1 THEN b.buffer[k - a.next] ELSE a.buffer[k]
  BY <1>1 DEF tb_receive
<1>4. \A k \in Used(a) : k \in Node /\ k \in Used(c) /\ c.buffer[k] = a.buffer[k]
  BY <1>1, <1>2, <1>3, NodesAssumption DEF Used, Node
<1>5. ASSUME NEW k \in Used(b)
      PROVE  k + a.next \in Used(c) /\ c.buffer[k + a.next] = b.buffer[k]
  <2>1. k + a.next \in Node /\ k + a.next \in a.next .. a.next + b.next - 1
    BY <1>1, NodesAssumption DEF Used, Node
  <2>2. (k + a.next) - a.next = k
    BY <1>1 DEF Used
  <2>3. c.buffer[k + a.next] = b.buffer[k]
    BY <1>3, <2>1, <2>2
  <2>4. k + a.next \in Used(c)
    BY <1>1, <1>2 DEF Used
  <2> QED BY <2>3, <2>4
<1>6. \A k \in Used(c) : c.buffer[k] \in tb_contents(a) \cup tb_contents(b)
  BY ReceiveEntries DEF tb_contents, Used
<1>7. tb_contents(a) \subseteq tb_contents(c) /\ tb_contents(b) \subseteq tb_contents(c)
  <2> HIDE DEF c
  <2>1. \A k \in Used(a) : a.buffer[k] \in tb_contents(c)
    BY <1>4 DEF tb_contents, Used
  <2>2. \A k \in Used(b) : b.buffer[k] \in tb_contents(c)
    BY <1>5 DEF tb_contents, Used
  <2> QED BY <2>1, <2>2 DEF tb_contents, Used
<1>8. tb_contents(c) \subseteq tb_contents(a) \cup tb_contents(b)
  <2> HIDE DEF c
  <2> QED BY <1>6 DEF tb_contents, Used
<1> QED BY <1>7, <1>8

-----------------------------------------------------------------------------
(* Progress is kept: what a level has not explored is in somebody's hands. *)

\* A step of a body that keeps visited, the frontier, what is claimed, and the
\* ranges, except that a body may move past a vertex or an edge it is done with.
LEMMA ProgressStep ==
  ASSUME Progress, main = "parallel", main' = "parallel",
         UNCHANGED <<graph, frontier, pending>>,
         Visited \subseteq Visited',
         Claimed' \subseteq Successors(graph, tb_contents(frontier)),
         \A k \in Used(frontier), u \in Thread :
           pc[u] # "idle" /\ idx[u] <= k /\ k < stop[u] =>
             \/ pc'[u] # "idle" /\ idx'[u] <= k /\ k < stop'[u]
             \/ OutNeighbours(graph, frontier.buffer[k]) \subseteq Visited',
         \A u \in Thread : pc'[u] \in OnEdge =>
           \A e \in graph.out_edge_offsets[src'[u]] .. beg'[u] - 1 :
             visited'[graph.out_edges[e]] = 1
  PROVE  Progress'
<1>1. \A k \in Used(frontier) :
        \/ k \in pending
        \/ \E u \in Thread : pc'[u] # "idle" /\ idx'[u] <= k /\ k < stop'[u]
        \/ OutNeighbours(graph, frontier.buffer[k]) \subseteq Visited'
  BY DEF Progress
<1>2. frontier.next # 0
  BY DEF Progress
<1>3. Used(frontier)' = Used(frontier) /\ tb_contents(frontier)' = tb_contents(frontier)
  BY DEF Used, tb_contents
<1>4. \A v : OutNeighbours(graph, v)' = OutNeighbours(graph, v)
  BY DEF OutNeighbours
<1>5. Successors(graph, tb_contents(frontier))' = Successors(graph, tb_contents(frontier))
  BY <1>3 DEF Successors, OutNeighbours
<1> QED BY <1>1, <1>2, <1>3, <1>4, <1>5 DEF Progress

\* Progress is only about levels that are being explored.
LEMMA ProgressOutside == ASSUME main' # "parallel" PROVE Progress'
BY DEF Progress

LEMMA LaunchProgress == IInv /\ Launch => Progress' /\ Claimed' = {} /\ Claimed = {}
<1> SUFFICES ASSUME IInv, Launch PROVE Progress' /\ Claimed' = {} /\ Claimed = {}
  OBVIOUS
<1> USE DEF Launch, shared, locals
<1>1. \A s \in Slot : buffers[s].next = 0 /\ buffers'[s].next = 0
  BY DEF IInv, Entries
<1>2. \A t \in Thread : pc[t] = "idle" /\ pc'[t] = "idle"
  BY DEF IInv, Control, Bodies, TypeOK
<1>3. Claimed = {}
  BY <1>1, <1>2, IdleClaimed, EmptyPushed
<1>4. Claimed' = Claimed
  BY DEF Claimed, Pushed, tb_contents
<1>5. pending' = Used(frontier')
  BY DEF Used
<1>6. Progress'
  BY <1>2, <1>3, <1>4, <1>5 DEF Progress, OnEdge, Pushing
<1> QED BY <1>3, <1>4, <1>6

\* The steps of a body keep the unclaimed part of visited.
Unclaimed == Visited \ Claimed

\* What is pushed and in flight, when buffers keep their used entries.
LEMMA PushedSame ==
  ASSUME \A s \in Slot : /\ buffers'[s].next = buffers[s].next
                         /\ \A k \in Used(buffers[s]) :
                              buffers'[s].buffer[k] = buffers[s].buffer[k]
  PROVE  Pushed' = Pushed
<1>1. \A s \in Slot : Used(buffers'[s]) = Used(buffers[s])
  BY DEF Used
<1>2. \A s \in Slot : tb_contents(buffers'[s]) = tb_contents(buffers[s])
  BY <1>1 DEF tb_contents, Used
<1> QED BY <1>2 DEF Pushed

LEMMA ClaimedSame ==
  ASSUME Pushed' = Pushed,
         \A u \in Thread : /\ pc'[u] \in Pushing <=> pc[u] \in Pushing
                           /\ pc[u] \in Pushing => dst'[u] = dst[u]
  PROVE  Claimed' = Claimed
<1>1. {dst'[t] : t \in {u \in Thread : pc'[u] \in Pushing}} =
      {dst[t] : t \in {u \in Thread : pc[u] \in Pushing}}
  OBVIOUS
<1> QED BY <1>1 DEF Claimed

LEMMA TakeRangeProgress ==
  ASSUME NEW t \in Thread, IInv, Progress, TakeRange(t)
  PROVE  Progress' /\ Unclaimed' = Unclaimed
<1> USE DEF TakeRange, shared, Goto
<1>0. PICK r \in Ranges(pending) :
        /\ pending' = pending \ (r[1] .. r[2] - 1)
        /\ idx' = [idx EXCEPT ![t] = r[1]]
        /\ stop' = [stop EXCEPT ![t] = r[2]]
  OBVIOUS
<1>1. r[1] \in Nat /\ r[2] \in Nat /\ pending \in SUBSET Nat
  <2>1. pending \in SUBSET Nat
    BY DEF IInv, TypeOK, Node
  <2> QED BY <2>1, RangeBounds
<1>2. \A u \in Thread : u # t => pc'[u] = pc[u] /\ idx'[u] = idx[u] /\ stop'[u] = stop[u]
  BY <1>0 DEF IInv, TypeOK
<1>3. pc'[t] = "vertex" /\ idx'[t] = r[1] /\ stop'[t] = r[2]
  BY <1>0 DEF IInv, TypeOK
<1>4. Pushed' = Pushed
  BY DEF Pushed, tb_contents
<1>5. Claimed' = Claimed
  BY <1>2, <1>3, <1>4, ClaimedSame DEF Pushing
<1>6. \A k \in pending : k \in pending' \/ (idx'[t] <= k /\ k < stop'[t])
  BY <1>0, <1>1, <1>3
<1>7. Progress'
  <2>1. Used(frontier)' = Used(frontier) /\ tb_contents(frontier)' = tb_contents(frontier)
        /\ Visited' = Visited /\ frontier' = frontier /\ graph' = graph
    BY DEF Used, tb_contents, Visited
  <2>2. \A v : OutNeighbours(graph, v)' = OutNeighbours(graph, v)
    BY DEF OutNeighbours
  <2>3. Successors(graph, tb_contents(frontier))' = Successors(graph, tb_contents(frontier))
    BY <2>1 DEF Successors, OutNeighbours
  <2>4. \A k \in Used(frontier) :
          \/ k \in pending'
          \/ \E u \in Thread : pc'[u] # "idle" /\ idx'[u] <= k /\ k < stop'[u]
          \/ OutNeighbours(graph, frontier.buffer[k]) \subseteq Visited
    BY <1>2, <1>3, <1>6 DEF Progress
  <2>5. \A u \in Thread : pc'[u] \in OnEdge =>
          \A e \in graph.out_edge_offsets[src'[u]] .. beg'[u] - 1 :
            visited'[graph.out_edges[e]] = 1
    BY <1>2, <1>3 DEF Progress, OnEdge, Pushing
  <2> QED BY <1>5, <2>1, <2>2, <2>3, <2>4, <2>5 DEF Progress
<1> QED BY <1>5, <1>7 DEF Unclaimed, Visited

\* A step that touches neither visited nor what is claimed, when it keeps what
\* ProgressStep asks for.
LEMMA QuietStep ==
  ASSUME IInv, Progress, main = "parallel",
         UNCHANGED <<graph, frontier, visited, buffers, main, pending>>,
         \A u \in Thread : /\ pc'[u] \in Pushing <=> pc[u] \in Pushing
                           /\ pc[u] \in Pushing => dst'[u] = dst[u],
         \A k \in Used(frontier), u \in Thread :
           pc[u] # "idle" /\ idx[u] <= k /\ k < stop[u] =>
             \/ pc'[u] # "idle" /\ idx'[u] <= k /\ k < stop'[u]
             \/ OutNeighbours(graph, frontier.buffer[k]) \subseteq Visited,
         \A u \in Thread : pc'[u] \in OnEdge =>
           \A e \in graph.out_edge_offsets[src'[u]] .. beg'[u] - 1 :
             visited[graph.out_edges[e]] = 1
  PROVE  Progress' /\ Unclaimed' = Unclaimed
<1>1. Pushed' = Pushed
  BY DEF Pushed, tb_contents
<1>2. Claimed' = Claimed
  BY <1>1, ClaimedSame
<1>3. Visited' = Visited
  BY DEF Visited
<1>4. Claimed \subseteq Successors(graph, tb_contents(frontier))
  BY DEF Progress
<1>5. Progress'
  BY <1>2, <1>3, <1>4, ProgressStep
<1> QED BY <1>2, <1>3, <1>5 DEF Unclaimed

LEMMA NextVertexProgress ==
  ASSUME NEW t \in Thread, IInv, Progress, NextVertex(t)
  PROVE  Progress' /\ Unclaimed' = Unclaimed
<1> USE DEF NextVertex, shared, control, Goto
<1>1. main = "parallel"
  BY DEF IInv, Control, Bodies
<1>2. PICK v \in Entry(frontier, idx[t]) :
        src' = [src EXCEPT ![t] = v] /\ beg' = [beg EXCEPT ![t] = graph.out_edge_offsets[v]]
  OBVIOUS
<1>3. /\ src'[t] = v /\ beg'[t] = graph.out_edge_offsets[v] /\ pc'[t] = "edge"
      /\ \A u \in Thread : u # t => pc'[u] = pc[u] /\ src'[u] = src[u] /\ beg'[u] = beg[u]
  BY <1>2 DEF IInv, TypeOK
<1>4. v \in Node
  BY UninitAssumption DEF IInv, TypeOK, Control, Bodies, Entries, Entry, Used, Buffer
<1>5. graph.out_edge_offsets[v] \in Nat
  BY <1>4, RowInEdges DEF IInv, TypeOK, IsGraph
<1>6. \A u \in Thread : pc'[u] \in OnEdge =>
        \A e \in graph.out_edge_offsets[src'[u]] .. beg'[u] - 1 :
          visited[graph.out_edges[e]] = 1
  BY <1>1, <1>3, <1>5 DEF Progress
<1>7. \A u \in Thread : pc'[u] # "idle" <=> pc[u] # "idle"
  BY <1>3
<1> QED BY <1>1, <1>3, <1>6, <1>7, QuietStep DEF Pushing

LEMMA EndRangeProgress ==
  ASSUME NEW t \in Thread, IInv, Progress, EndRange(t)
  PROVE  Progress' /\ Unclaimed' = Unclaimed
<1> USE DEF EndRange, shared, control, Goto
<1>1. main = "parallel"
  BY DEF IInv, Control, Bodies
<1>2. /\ pc'[t] = "idle"
      /\ \A u \in Thread : u # t =>
           /\ pc'[u] = pc[u] /\ src'[u] = src[u] /\ beg'[u] = beg[u]
           /\ idx'[u] = idx[u] /\ stop'[u] = stop[u] /\ dst'[u] = dst[u]
  BY DEF IInv, TypeOK
<1>3. \A k \in Used(frontier) : ~(idx[t] <= k /\ k < stop[t])
  <2>1. idx[t] \in Int /\ stop[t] \in Int /\ stop[t] <= idx[t]
    BY DEF IInv, TypeOK
  <2>2. \A k \in Used(frontier) : k \in Int
    BY DEF Used
  <2> QED BY <2>1, <2>2
<1>4. \A u \in Thread : pc'[u] \in OnEdge =>
        \A e \in graph.out_edge_offsets[src'[u]] .. beg'[u] - 1 :
          visited[graph.out_edges[e]] = 1
  BY <1>1, <1>2 DEF Progress, OnEdge, Pushing
<1> QED BY <1>1, <1>2, <1>3, <1>4, QuietStep DEF Pushing

LEMMA CheckEdgeProgress ==
  ASSUME NEW t \in Thread, IInv, Progress, CheckEdge(t)
  PROVE  Progress' /\ Unclaimed' = Unclaimed
<1> USE DEF CheckEdge, shared, control, Goto
<1>1. main = "parallel"
  BY DEF IInv, Control, Bodies
<1>2. \A u \in Thread : u # t => pc'[u] = pc[u] /\ beg'[u] = beg[u] /\ dst'[u] = dst[u]
  BY DEF IInv, TypeOK
<1>3. /\ src[t] \in Node /\ beg[t] \in Nat
      /\ graph.out_edge_offsets[src[t]] \in Nat
      /\ graph.out_edge_offsets[src[t] + 1] \in Nat
      /\ graph.out_edge_offsets[src[t]] <= beg[t]
      /\ \A k \in RowOf(src[t]) : graph.out_edges[k] \in Node
  BY RowOfBody DEF IInv, Control, Bodies, OnEdge
<1>4. graph.out_edges[beg[t]] \in Node
  BY <1>3 DEF RowOf
<1>5. \/ pc'[t] = "cas" /\ beg'[t] = beg[t]
      \/ pc'[t] = "edge" /\ beg'[t] = beg[t] + 1 /\ visited[graph.out_edges[beg[t]]] = 1
  BY <1>4 DEF IInv, TypeOK
<1>6. \A e \in graph.out_edge_offsets[src[t]] .. beg[t] - 1 : visited[graph.out_edges[e]] = 1
  BY <1>1 DEF Progress, OnEdge
<1>7. \A e \in graph.out_edge_offsets[src[t]] .. beg'[t] - 1 : visited[graph.out_edges[e]] = 1
  BY <1>3, <1>5, <1>6
<1>8. \A u \in Thread : pc'[u] \in OnEdge =>
        \A e \in graph.out_edge_offsets[src'[u]] .. beg'[u] - 1 :
          visited[graph.out_edges[e]] = 1
  BY <1>1, <1>2, <1>7 DEF Progress
<1>9. pc'[t] \notin Pushing /\ pc[t] \notin Pushing /\ pc'[t] # "idle"
  BY <1>5 DEF Pushing
<1> QED BY <1>1, <1>2, <1>8, <1>9, QuietStep

LEMMA EndVertexProgress ==
  ASSUME NEW t \in Thread, IInv, Progress, EndVertex(t)
  PROVE  Progress' /\ Unclaimed' = Unclaimed
<1> USE DEF EndVertex, shared, control, Goto
<1>1. main = "parallel"
  BY DEF IInv, Control, Bodies
<1>2. /\ pc'[t] = "vertex" /\ idx'[t] = idx[t] + 1
      /\ \A u \in Thread : u # t => pc'[u] = pc[u] /\ idx'[u] = idx[u]
  BY DEF IInv, TypeOK
<1>3. src[t] \in Node /\ src[t] = frontier.buffer[idx[t]] /\ IsGraph(graph)
  BY DEF IInv, TypeOK, Control, Bodies, OnEdge
<1>4. OutNeighbours(graph, src[t]) \subseteq Visited
  <2>1. ASSUME NEW e \in RowOf(src[t]) PROVE graph.out_edges[e] \in Visited
    <3>1. graph.out_edge_offsets[src[t]] \in Nat /\ graph.out_edge_offsets[src[t] + 1] \in Nat
          /\ beg[t] \in Nat /\ graph.out_edges[e] \in Node
      BY RowOfBody DEF IInv
    <3>2. e \in graph.out_edge_offsets[src[t]] .. beg[t] - 1
      BY <3>1 DEF RowOf
    <3>3. visited[graph.out_edges[e]] = 1
      BY <1>1, <3>2 DEF Progress, OnEdge
    <3> QED BY <3>1, <3>3 DEF Visited
  <2> QED BY <2>1 DEF OutNeighbours, RowOf
<1>5. \A k \in Used(frontier) : idx[t] <= k =>
        idx'[t] <= k \/ OutNeighbours(graph, frontier.buffer[k]) \subseteq Visited
  <2>1. idx[t] \in Int /\ \A k \in Used(frontier) : k \in Int
    BY DEF IInv, TypeOK, Used
  <2> QED BY <1>2, <1>3, <1>4, <2>1
<1>6. \A u \in Thread : pc'[u] \in OnEdge =>
        \A e \in graph.out_edge_offsets[src'[u]] .. beg'[u] - 1 :
          visited[graph.out_edges[e]] = 1
  BY <1>1, <1>2 DEF Progress, OnEdge, Pushing
<1> QED BY <1>1, <1>2, <1>5, <1>6, QuietStep DEF Pushing

LEMMA PushIndexProgress ==
  ASSUME NEW t \in Thread, IInv, Progress, PushIndex(t) \/ PushLoad(t)
  PROVE  Progress' /\ Unclaimed' = Unclaimed
<1> USE DEF PushIndex, PushLoad, shared, control, Goto
<1>1. main = "parallel"
  BY DEF IInv, Control, Bodies
<1>2. /\ pc[t] \in Pushing /\ pc'[t] \in Pushing /\ pc'[t] # "idle"
      /\ \A u \in Thread : u # t => pc'[u] = pc[u]
  BY DEF IInv, TypeOK, Pushing
<1>3. \A u \in Thread : pc'[u] \in OnEdge => pc[u] \in OnEdge
  BY <1>2 DEF OnEdge
<1>4. \A u \in Thread : pc'[u] \in OnEdge =>
        \A e \in graph.out_edge_offsets[src'[u]] .. beg'[u] - 1 :
          visited[graph.out_edges[e]] = 1
  BY <1>1, <1>3 DEF Progress
<1> QED BY <1>1, <1>2, <1>4, QuietStep

LEMMA PushStoreProgress ==
  ASSUME NEW t \in Thread, IInv, Progress, PushStore(t)
  PROVE  Progress' /\ Unclaimed' = Unclaimed
<1> USE DEF PushStore, control, locals, Goto
<1> DEFINE n == buffers[slot(t)].next
<1>1. main = "parallel" /\ tmp[t] = n /\ n \in Node /\ slot(t) \in Slot
  BY RoomToPush, SlotInRange DEF IInv, Control, Bodies, InFlight, Pushing
<1>2. \A s \in Slot : /\ buffers'[s].next = buffers[s].next
                      /\ \A k \in Used(buffers[s]) :
                           buffers'[s].buffer[k] = buffers[s].buffer[k]
  <2>1. \A s \in Slot : s # slot(t) => buffers'[s] = buffers[s]
    BY <1>1 DEF IInv, TypeOK
  <2>2. /\ buffers'[slot(t)].next = n
        /\ buffers'[slot(t)].buffer = [buffers[slot(t)].buffer EXCEPT ![n] = dst[t]]
    BY <1>1 DEF IInv, TypeOK, Buffer, tb_store
  <2>3. buffers[slot(t)].buffer \in [Node -> Node \cup {Uninit}]
    BY <1>1 DEF IInv, TypeOK, Buffer
  <2>4. n \notin Used(buffers[slot(t)]) /\ Used(buffers[slot(t)]) \subseteq Node
    BY <1>1, NodesAssumption DEF Used, Node
  <2>5. \A k \in Used(buffers[slot(t)]) :
          buffers'[slot(t)].buffer[k] = buffers[slot(t)].buffer[k]
    BY <1>1, <2>2, <2>3, <2>4
  <2> QED BY <2>1, <2>2, <2>5
<1>3. pc[t] \in Pushing /\ pc'[t] \in Pushing /\ pc'[t] # "idle"
      /\ \A u \in Thread : u # t => pc'[u] = pc[u]
  BY DEF IInv, TypeOK, Pushing
<1>4. Claimed' = Claimed
  BY <1>2, <1>3, PushedSame, ClaimedSame
<1>5. Visited' = Visited
  BY DEF Visited
<1>6. \A u \in Thread : pc'[u] \in OnEdge =>
        \A e \in graph.out_edge_offsets[src'[u]] .. beg'[u] - 1 :
          visited'[graph.out_edges[e]] = 1
  BY <1>1, <1>3 DEF Progress, OnEdge
<1>7. Claimed' \subseteq Successors(graph, tb_contents(frontier))
  BY <1>1, <1>4 DEF Progress
<1>8. Progress'
  BY <1>1, <1>3, <1>5, <1>6, <1>7, ProgressStep
<1> QED BY <1>4, <1>5, <1>8 DEF Unclaimed

LEMMA PushIncProgress ==
  ASSUME NEW t \in Thread, IInv, Progress, PushInc(t)
  PROVE  Progress' /\ Unclaimed' = Unclaimed
<1> USE DEF PushInc, control, Goto
<1> DEFINE n == buffers[slot(t)].next
<1>1. main = "parallel" /\ tmp[t] = n /\ n \in Node /\ slot(t) \in Slot
  BY RoomToPush, SlotInRange DEF IInv, Control, Bodies, InFlight, Pushing
<1>2. /\ buffers[slot(t)].buffer[n] = dst[t] /\ visited[dst[t]] = 1
      /\ dst[t] = graph.out_edges[beg[t]]
      /\ graph.out_edge_offsets[src[t]] \in Nat /\ beg[t] \in Nat
  BY <1>1, RowOfBody DEF IInv, InFlight, Pushing, Control, Bodies
<1>3. /\ \A s \in Slot : s # slot(t) => buffers'[s] = buffers[s]
      /\ buffers'[slot(t)].next = n + 1
      /\ buffers'[slot(t)].buffer = buffers[slot(t)].buffer
  BY <1>1 DEF IInv, TypeOK, Buffer, tb_set_next
<1>4. /\ pc[t] \in Pushing /\ pc'[t] = "edge" /\ beg'[t] = beg[t] + 1
      /\ \A u \in Thread : u # t => pc'[u] = pc[u] /\ beg'[u] = beg[u]
  BY DEF IInv, TypeOK, Pushing
<1>5. Used(buffers'[slot(t)]) = Used(buffers[slot(t)]) \cup {n}
  BY <1>1, <1>3 DEF Used, Node
<1>6. Pushed' = Pushed \cup {dst[t]}
  <2>1. \A s \in Slot : tb_contents(buffers'[s]) =
          tb_contents(buffers[s]) \cup (IF s = slot(t) THEN {dst[t]} ELSE {})
    <3>1. \A s \in Slot : s # slot(t) => tb_contents(buffers'[s]) = tb_contents(buffers[s])
      BY <1>3
    <3>2. tb_contents(buffers'[slot(t)]) =
            {buffers[slot(t)].buffer[k] : k \in Used(buffers'[slot(t)])}
      BY <1>3 DEF tb_contents, Used
    <3>3. tb_contents(buffers[slot(t)]) = {buffers[slot(t)].buffer[k] : k \in Used(buffers[slot(t)])}
      BY DEF tb_contents, Used
    <3>4. tb_contents(buffers'[slot(t)]) = tb_contents(buffers[slot(t)]) \cup {dst[t]}
      BY <1>2, <1>5, <3>2, <3>3
    <3> QED BY <3>1, <3>4
  <2> QED BY <1>1, <2>1 DEF Pushed
<1>7. {dst'[u] : u \in {w \in Thread : pc'[w] \in Pushing}} \cup {dst[t]} =
      {dst[u] : u \in {w \in Thread : pc[w] \in Pushing}}
  BY <1>4 DEF Pushing
<1>8. Claimed' = Claimed
  BY <1>6, <1>7 DEF Claimed
<1>9. Visited' = Visited
  BY DEF Visited
<1>10. \A e \in graph.out_edge_offsets[src[t]] .. beg'[t] - 1 :
         visited[graph.out_edges[e]] = 1
  <2>1. \A e \in graph.out_edge_offsets[src[t]] .. beg[t] - 1 :
          visited[graph.out_edges[e]] = 1
    BY <1>1, <1>4 DEF Progress, OnEdge
  <2> QED BY <1>2, <1>4, <2>1
<1>11. \A u \in Thread : pc'[u] \in OnEdge =>
         \A e \in graph.out_edge_offsets[src'[u]] .. beg'[u] - 1 :
           visited'[graph.out_edges[e]] = 1
  BY <1>1, <1>4, <1>10 DEF Progress
<1>12. Claimed' \subseteq Successors(graph, tb_contents(frontier))
  BY <1>1, <1>8 DEF Progress
<1>13. Progress'
  BY <1>1, <1>4, <1>9, <1>11, <1>12, ProgressStep
<1> QED BY <1>8, <1>9, <1>13 DEF Unclaimed

LEMMA CasProgress ==
  ASSUME NEW t \in Thread, IInv, Progress, Cas(t)
  PROVE  Progress' /\ Unclaimed' = Unclaimed
<1> USE DEF Cas, control, Goto
<1>1. main = "parallel"
  BY DEF IInv, Control, Bodies
<1>2. /\ dst[t] \in Node /\ dst[t] = graph.out_edges[beg[t]] /\ beg[t] \in RowOf(src[t])
      /\ src[t] = frontier.buffer[idx[t]] /\ idx[t] \in Used(frontier)
      /\ graph.out_edge_offsets[src[t]] \in Nat /\ beg[t] \in Nat
  <2>1. dst[t] \in Node /\ src[t] \in Node /\ beg[t] \in Nat /\ IsGraph(graph)
        /\ idx[t] \in Nat /\ stop[t] \in Nat /\ frontier.next \in Nat
    BY DEF IInv, TypeOK, Buffer
  <2>2. /\ dst[t] = graph.out_edges[beg[t]] /\ beg[t] \in RowOf(src[t])
        /\ src[t] = frontier.buffer[idx[t]] /\ idx[t] < stop[t] /\ stop[t] <= frontier.next
    BY DEF IInv, Control, Bodies, OnEdge
  <2>3. graph.out_edge_offsets[src[t]] \in Nat
    BY <2>1, RowInEdges DEF IsGraph
  <2> QED BY <2>1, <2>2, <2>3 DEF Used
<1>3. \A e \in graph.out_edge_offsets[src[t]] .. beg[t] - 1 : visited[graph.out_edges[e]] = 1
  BY <1>1 DEF Progress, OnEdge
<1>4. Claimed \subseteq Successors(graph, tb_contents(frontier))
  BY <1>1 DEF Progress
<1>5. Pushed' = Pushed
  BY DEF Pushed, tb_contents
<1>6. CASE visited[dst[t]] = 0
  <2>1. /\ pc'[t] = "index" /\ pc[t] \notin Pushing /\ visited'[dst[t]] = 1
        /\ \A u \in Thread : u # t => pc'[u] = pc[u]
        /\ beg' = beg
    BY <1>2, <1>6 DEF IInv, TypeOK, Pushing
  <2>2. \A v \in Node : v # dst[t] => visited'[v] = visited[v]
    BY <1>6 DEF IInv, TypeOK
  <2>3. Visited' = Visited \cup {dst[t]} /\ dst[t] \notin Visited
    BY <1>2, <1>6, <2>1, <2>2 DEF Visited
  <2>4. {dst'[u] : u \in {w \in Thread : pc'[w] \in Pushing}} =
        {dst[u] : u \in {w \in Thread : pc[w] \in Pushing}} \cup {dst[t]}
    BY <2>1 DEF Pushing
  <2>5. Claimed' = Claimed \cup {dst[t]}
    BY <1>5, <2>4 DEF Claimed
  <2>6. dst[t] \in Successors(graph, tb_contents(frontier))
    BY <1>2 DEF Successors, OutNeighbours, tb_contents, Used, RowOf
  <2>7. \A u \in Thread : pc'[u] \in OnEdge =>
          \A e \in graph.out_edge_offsets[src'[u]] .. beg'[u] - 1 :
            visited'[graph.out_edges[e]] = 1
    <3>1. ASSUME NEW u \in Thread, pc'[u] \in OnEdge,
                 NEW e \in graph.out_edge_offsets[src[u]] .. beg[u] - 1
          PROVE  visited'[graph.out_edges[e]] = 1
      <4>1. pc[u] \in OnEdge
        BY <2>1, <3>1 DEF OnEdge, Pushing
      <4>2. visited[graph.out_edges[e]] = 1
        BY <1>1, <4>1 DEF Progress
      <4>3. visited' = [visited EXCEPT ![dst[t]] = 1]
        BY <1>6
      <4> QED BY <4>2, <4>3 DEF IInv, TypeOK
    <3> QED BY <2>1, <3>1
  <2>8. Progress'
    BY <1>1, <1>4, <2>1, <2>3, <2>5, <2>6, <2>7, ProgressStep
  <2> QED BY <2>3, <2>5, <2>8 DEF Unclaimed
<1>7. CASE visited[dst[t]] # 0
  <2>1. /\ pc'[t] = "edge" /\ beg'[t] = beg[t] + 1 /\ visited[dst[t]] = 1
        /\ \A u \in Thread : u # t => pc'[u] = pc[u] /\ beg'[u] = beg[u]
    BY <1>2, <1>7 DEF IInv, TypeOK
  <2>2. \A e \in graph.out_edge_offsets[src[t]] .. beg'[t] - 1 :
          visited[graph.out_edges[e]] = 1
    BY <1>2, <1>3, <2>1
  <2>3. \A u \in Thread : pc'[u] \in OnEdge =>
          \A e \in graph.out_edge_offsets[src'[u]] .. beg'[u] - 1 :
            visited[graph.out_edges[e]] = 1
    BY <1>1, <2>1, <2>2 DEF Progress
  <2>4. visited' = visited /\ pc'[t] \notin Pushing /\ pc[t] \notin Pushing
    BY <1>7, <2>1 DEF Pushing
  <2> QED BY <1>1, <2>1, <2>3, <2>4, QuietStep
<1> QED BY <1>6, <1>7

-----------------------------------------------------------------------------
(* The refinement. *)

\* The next level of the abstract search, or nothing.
LevelStep ==
  \/ /\ levelBar # {}
     /\ levelBar' = Successors(graph, levelBar) \ reachedBar
     /\ reachedBar' = reachedBar \cup levelBar'
     /\ UNCHANGED graph
  \/ UNCHANGED <<graph, reachedBar, levelBar>>

LEMMA JoinStep == ASSUME IInv, Progress, Join PROVE LevelStep
<1> USE DEF Join, locals, ParallelForEnds
<1>1. Claimed = Pushed
  BY IdleClaimed
<1>2. Pushed' = Pushed /\ Visited' = Visited
  BY DEF Pushed, tb_contents, Visited
<1>3. tb_contents(frontier') = {}
  BY DEF tb_contents, tb_clear, IInv, TypeOK, Buffer
<1>4. levelBar' = Pushed /\ reachedBar' = Visited
  BY <1>2, <1>3 DEF levelBar, reachedBar
<1>5. levelBar = tb_contents(frontier) /\ reachedBar = Visited \ Pushed
  BY <1>1 DEF levelBar, reachedBar, Unclaimed
<1>6. levelBar # {}
  <2>1. frontier.next # 0 /\ frontier.next \in Nat
    BY DEF Progress, IInv, TypeOK, Buffer
  <2>2. 0 \in 0 .. frontier.next - 1
    BY <2>1
  <2> QED BY <1>5, <2>2 DEF tb_contents
<1>7. \A k \in Used(frontier) : OutNeighbours(graph, frontier.buffer[k]) \subseteq Visited
  BY DEF Progress
<1>8. Successors(graph, levelBar) \subseteq Visited
  BY <1>5, <1>7 DEF Successors, tb_contents, Used
<1>9. Pushed \subseteq Successors(graph, levelBar)
  BY <1>1, <1>5 DEF Progress
<1>10. Pushed \subseteq Visited
  BY ClaimedVisited
<1> QED BY <1>4, <1>5, <1>6, <1>8, <1>9, <1>10 DEF LevelStep

LEMMA TransferStep == ASSUME IInv, IInv', Transfer PROVE LevelStep
<1> USE DEF Transfer, locals
<1>1. /\ xfer \in Slot /\ frontier \in Buffer /\ buffers[xfer] \in Buffer
      /\ frontier.next + buffers[xfer].next <= NB_NODES
  BY RoomToTransfer
<1>2. tb_contents(frontier') = tb_contents(frontier) \cup tb_contents(buffers[xfer])
  <2>1. CASE buffers[xfer].next = 0
    <3>1. tb_contents(buffers[xfer]) = {} /\ frontier' = frontier
      BY <2>1 DEF tb_contents
    <3> QED BY <3>1
  <2>2. CASE buffers[xfer].next # 0
    BY <1>1, <2>2, ReceiveContents
  <2> QED BY <2>1, <2>2
<1>3. \A s \in Slot : tb_contents(buffers'[s]) =
        IF s = xfer THEN {} ELSE tb_contents(buffers[s])
  <2>1. CASE buffers[xfer].next = 0
    BY <2>1 DEF tb_contents
  <2>2. CASE buffers[xfer].next # 0
    <3>1. \A s \in Slot : buffers'[s] = IF s = xfer THEN tb_clear(buffers[s]) ELSE buffers[s]
      BY <1>1, <2>2 DEF IInv, TypeOK
    <3>2. tb_contents(tb_clear(buffers[xfer])) = {}
      BY <1>1 DEF tb_contents, tb_clear, Buffer
    <3> QED BY <3>1, <3>2
  <2> QED BY <2>1, <2>2
<1>4. tb_contents(frontier') \cup Pushed' = tb_contents(frontier) \cup Pushed
  <2>1. Pushed' = UNION {tb_contents(buffers'[s]) : s \in Slot}
    BY DEF Pushed
  <2>2. Pushed = tb_contents(buffers[xfer]) \cup Pushed'
    BY <1>1, <1>3, <2>1 DEF Pushed
  <2> QED BY <1>2, <2>2
<1>5. levelBar' = levelBar
  <2>1. CASE main' = "transfer"
    BY <1>4, <2>1 DEF levelBar
  <2>2. CASE main' # "transfer"
    <3>1. main' = "loop"
      BY <2>2
    <3>2. \A s \in Slot : tb_contents(buffers'[s]) = {}
      BY <3>1 DEF IInv, Entries, tb_contents
    <3>3. Pushed' = {}
      BY <3>2 DEF Pushed
    <3> QED BY <1>4, <2>2, <3>3 DEF levelBar
  <2> QED BY <2>1, <2>2
<1>6. Visited' = Visited /\ main # "parallel" /\ main' # "parallel"
  BY DEF Visited
<1>7. reachedBar' = reachedBar
  BY <1>6 DEF reachedBar, Unclaimed
<1> QED BY <1>5, <1>7 DEF LevelStep

\* Every step of bfs_push keeps Progress and is a step of the abstract search.
LEMMA StepRefines ==
  ASSUME IInv, IInv', Progress, [Next]_vars PROVE Progress' /\ LevelStep
<1>1. CASE Launch
  <2>1. main = "loop" /\ main' = "parallel" /\ Visited' = Visited
        /\ tb_contents(frontier)' = tb_contents(frontier) /\ graph' = graph
    BY <1>1 DEF Launch, shared, Visited, tb_contents
  <2>2. Progress' /\ Unclaimed' = Visited
    BY <1>1, <2>1, LaunchProgress DEF Unclaimed
  <2> QED BY <2>1, <2>2 DEF LevelStep, reachedBar, levelBar, Unclaimed
<1>2. CASE Finish
  <2>1. main = "loop" /\ main' = "done" /\ Visited' = Visited
        /\ tb_contents(frontier)' = tb_contents(frontier) /\ graph' = graph
    BY <1>2 DEF Finish, shared, Visited, tb_contents
  <2> QED BY <2>1, ProgressOutside DEF LevelStep, reachedBar, levelBar, Unclaimed
<1>3. CASE Join
  BY <1>3, JoinStep, ProgressOutside DEF Join
<1>4. CASE Transfer
  <2>1. main' # "parallel"
    BY <1>4 DEF Transfer
  <2> QED BY <1>4, <2>1, TransferStep, ProgressOutside
<1>5. ASSUME NEW t \in Thread, TakeRange(t) \/ BodyStep(t) PROVE Progress' /\ LevelStep
  <2>1. Progress' /\ Unclaimed' = Unclaimed
    BY <1>5, NeverStrays, TakeRangeProgress, NextVertexProgress, EndRangeProgress, CheckEdgeProgress,
       EndVertexProgress, CasProgress, PushIndexProgress, PushStoreProgress,
       PushIncProgress DEF BodyStep
  <2>2. pc[t] # "idle" => main = "parallel"
    BY DEF IInv, Control, Bodies
  <2>3. main = "parallel" /\ main' = main /\ frontier' = frontier /\ graph' = graph
    BY <1>5, <2>2, NeverStrays DEF BodyStep, TakeRange, NextVertex, EndRange, CheckEdge,
       EndVertex, Cas, PushIndex, PushStore, PushLoad, PushInc, shared, control, locals
  <2>4. tb_contents(frontier)' = tb_contents(frontier)
    BY <2>3 DEF tb_contents
  <2> QED BY <2>1, <2>3, <2>4 DEF LevelStep, reachedBar, levelBar, Unclaimed
<1>6. CASE UNCHANGED vars
  <2> USE <1>6 DEF vars, shared, control, locals
  <2>1. Pushed' = Pushed /\ Visited' = Visited
        /\ tb_contents(frontier)' = tb_contents(frontier)
    BY DEF Pushed, tb_contents, Visited
  <2>2. Claimed' = Claimed
    BY <2>1, ClaimedSame
  <2>3. Progress'
    BY <2>1, <2>2 DEF Progress, Used, OnEdge, Pushing, OutNeighbours, Successors, tb_contents
  <2> QED BY <2>1, <2>2, <2>3 DEF LevelStep, reachedBar, levelBar, Unclaimed
<1> QED BY <1>1, <1>2, <1>3, <1>4, <1>5, <1>6 DEF Next, MainStep, Terminated

LEMMA InitRefines == Init => Progress /\ reachedBar = {source} /\ levelBar = {source}
<1> SUFFICES ASSUME Init PROVE Progress /\ reachedBar = {source} /\ levelBar = {source}
  OBVIOUS
<1>1. main = "loop"
  BY DEF Init
<1>2. frontier.next = 1 /\ frontier.buffer[0] = source
  BY SourceAssumption, NodesAssumption
     DEF Init, tb_init, tb_store, tb_set_next, Node
<1>3. tb_contents(frontier) = {source}
  <2>1. 0 .. frontier.next - 1 = {0}
    BY <1>2
  <2> QED BY <1>2, <2>1 DEF tb_contents
<1>4. Visited = {source}
  BY SourceAssumption DEF Init, Visited
<1> QED BY <1>1, <1>3, <1>4 DEF Progress, reachedBar, levelBar

\* Every behaviour of bfs_push is one of the level-synchronous search.
THEOREM RefinesLevels == SafeSpec => ImplementsLevels
<1> DEFINE Good == NoSlotClash => IInv /\ Progress
<1>1. Init => Levels!Init /\ Good
  <2> SUFFICES ASSUME Init PROVE Levels!Init /\ Good
    OBVIOUS
  <2>1. graph \in Graphs
    BY DEF Init
  <2> QED BY <2>1, InitRefines, InitInv DEF Levels!Init
<1>2. Good /\ [Next]_vars => Good'
  BY StepRefines, NextInv, ClashStays
<1>3. Good /\ [Next]_vars => [Levels!Next]_(Levels!vars)
  <2> SUFFICES ASSUME Good, [Next]_vars PROVE [Levels!Next]_(Levels!vars)
    OBVIOUS
  <2>1. NoSlotClash' <=> NoSlotClash
    BY ClashStays
  <2>2. CASE NoSlotClash
    <3>1. LevelStep
      BY <2>2, NextInv, StepRefines
    <3>2. \A S : Levels!Successors(graph, S) = Successors(graph, S)
      BY DEF Levels!Successors, Levels!OutNeighbours, Successors, OutNeighbours
    <3> QED BY <2>1, <2>2, <3>1, <3>2 DEF LevelStep, Levels!Next, Levels!NextLevel, Levels!vars
  <2>3. CASE ~NoSlotClash
    <3>1. graph' = graph
      BY WorkersStay
    <3> QED BY <2>1, <2>3, <3>1 DEF Levels!vars
  <2> QED BY <2>2, <2>3
<1> HIDE DEF Good
<1> QED BY <1>1, <1>2, <1>3, PTL DEF SafeSpec, ImplementsLevels, Levels!SafeSpec

-----------------------------------------------------------------------------
(* The level-synchronous search of BfsLevels. *)

\* The successors of vertices are vertices.
LEMMA SuccessorsAreNodes ==
  ASSUME NEW g, IsGraph(g), NEW S \in SUBSET Node
  PROVE  Successors(g, S) \subseteq Node
<1> SUFFICES ASSUME NEW v \in S,
                    NEW k \in g.out_edge_offsets[v] .. g.out_edge_offsets[v + 1] - 1
             PROVE  g.out_edges[k] \in Node
  BY DEF Successors, OutNeighbours
<1> QED BY RowInEdges

\* Reachability is closed under edges.
LEMMA ReachableClosed ==
  ASSUME NEW g, IsGraph(g)
  PROVE  /\ source \in Reachable(g)
         /\ Successors(g, Reachable(g)) \subseteq Reachable(g)
<1>1. source \in Reachable(g)
  BY SourceAssumption DEF Reachable
<1>2. ASSUME NEW w \in Successors(g, Reachable(g)) PROVE w \in Reachable(g)
  <2>1. Reachable(g) \subseteq Node
    BY DEF Reachable
  <2>2. w \in Node
    BY <2>1, SuccessorsAreNodes
  <2>3. ASSUME NEW S \in SUBSET Node, source \in S, Successors(g, S) \subseteq S
        PROVE  w \in S
    <3>1. PICK v \in Reachable(g) : w \in OutNeighbours(g, v)
      BY DEF Successors
    <3>2. v \in S
      BY <2>3 DEF Reachable
    <3> QED BY <2>3, <3>1, <3>2 DEF Successors
  <2> QED BY <2>2, <2>3 DEF Reachable
<1> QED BY <1>1, <1>2

\* A search with the reached vertices R and the last level L: only the last
\* level has edges that leave R, and R holds nothing but reachable vertices.
Search(g, R, L) ==
  /\ IsGraph(g) /\ R \subseteq Node /\ L \subseteq R
  /\ Successors(g, R \ L) \subseteq R
  /\ source \in R /\ R \subseteq Reachable(g)

LEMMA SearchStarts ==
  ASSUME NEW g \in Graphs PROVE Search(g, {source}, {source})
<1>1. IsGraph(g) /\ source \in Node /\ source \in Reachable(g)
  BY GraphsAssumption, SourceAssumption, ReachableClosed
<1> QED BY <1>1 DEF Search, Successors

LEMMA SearchGoesOn ==
  ASSUME NEW g, NEW R, NEW L, Search(g, R, L)
  PROVE  Search(g, R \cup (Successors(g, L) \ R), Successors(g, L) \ R)
<1> DEFINE M == Successors(g, L) \ R
<1>1. M \subseteq Node
  BY SuccessorsAreNodes DEF Search
<1>2. Successors(g, R) \subseteq R \cup M
  <2>1. Successors(g, R) \subseteq Successors(g, R \ L) \cup Successors(g, L)
    BY DEF Successors
  <2> QED BY <2>1 DEF Search
<1>3. (R \cup M) \ M = R
  OBVIOUS
<1>4. M \subseteq Reachable(g)
  <2>1. Successors(g, L) \subseteq Successors(g, Reachable(g))
    BY DEF Search, Successors
  <2> QED BY <2>1, ReachableClosed DEF Search
<1> HIDE DEF M
<1>5. Search(g, R \cup M, M)
  BY <1>1, <1>2, <1>3, <1>4 DEF Search
<1> QED BY <1>5 DEF M

LEMMA SearchEnds ==
  ASSUME NEW g, NEW R, Search(g, R, {}) PROVE R = Reachable(g)
<1>1. R \in SUBSET Node /\ source \in R /\ Successors(g, R) \subseteq R
  BY DEF Search
<1>2. Reachable(g) \subseteq R
  BY <1>1 DEF Reachable
<1> QED BY <1>2 DEF Search

\* What bfs_push implements is a correct search: an edge out of a completed
\* level never leads to a vertex not yet reached, and when the last level is
\* empty exactly the reachable vertices are.
THEOREM LevelsAreCorrect ==
  Levels!SafeSpec => [](Levels!TypeOK /\ Levels!LevelsClosed /\ Levels!LevelsCorrect)
<1> DEFINE R == IF NoSlotClash THEN reachedBar ELSE {source}
           L == IF NoSlotClash THEN levelBar ELSE {source}
           SInv == Search(graph, R, L)
<1>1. /\ \A g : (Levels!IsGraph(g) <=> IsGraph(g)) /\ Levels!Reachable(g) = Reachable(g)
      /\ \A g, S : Levels!Successors(g, S) = Successors(g, S)
      /\ Levels!Node = Node
  BY DEF Levels!IsGraph, Levels!IsCsr, Levels!OutNeighbours, Levels!InNeighbours, Levels!Node,
         Levels!Successors, Levels!Reachable,
         IsGraph, IsCsr, OutNeighbours, InNeighbours, Node, Successors, Reachable
<1>2. Levels!Init => SInv
  <2> HIDE DEF R, L
  <2>1. Levels!Init => graph \in Graphs /\ R = {source} /\ L = {source}
    BY DEF Levels!Init, R, L
  <2> QED BY <2>1, SearchStarts
<1>3. SInv /\ [Levels!Next]_(Levels!vars) => SInv'
  <2> SUFFICES ASSUME SInv, [Levels!Next]_(Levels!vars) PROVE SInv'
    OBVIOUS
  <2>1. CASE Levels!Next
    <3>1. /\ L' = Levels!Successors(graph, L) \ R /\ R' = R \cup L' /\ graph' = graph
      BY <2>1 DEF Levels!Next, Levels!NextLevel
    <3> HIDE DEF R, L
    <3>2. L' = Successors(graph, L) \ R
      BY <1>1, <3>1
    <3>3. Search(graph, R', L')
      BY <3>1, <3>2, SearchGoesOn
    <3> QED BY <3>1, <3>3
  <2>2. CASE UNCHANGED Levels!vars
    <3>1. graph' = graph /\ R' = R /\ L' = L
      BY <2>2 DEF Levels!vars
    <3> HIDE DEF R, L
    <3> QED BY <3>1
  <2> QED BY <2>1, <2>2
<1>4. SInv => Levels!TypeOK /\ Levels!LevelsClosed /\ Levels!LevelsCorrect
  <2> SUFFICES ASSUME SInv PROVE Levels!TypeOK /\ Levels!LevelsClosed /\ Levels!LevelsCorrect
    OBVIOUS
  <2>1. Levels!TypeOK
    BY <1>1 DEF Levels!TypeOK, Search
  <2>2. Levels!LevelsClosed
    BY <1>1 DEF Levels!LevelsClosed, Search
  <2>3. Levels!LevelsCorrect
    <3>1. L = {} => R = Reachable(graph)
      <4> HIDE DEF R, L
      <4> QED BY SearchEnds
    <3> QED BY <1>1, <3>1 DEF Levels!LevelsCorrect
  <2> QED BY <2>1, <2>2, <2>3
<1> HIDE DEF SInv
<1> QED BY <1>2, <1>3, <1>4, PTL DEF Levels!SafeSpec

\* When bfs_push returns it has visited exactly the reachable vertices.
THEOREM FindsReachable == SafeSpec => []VisitedIsReachable
<1>1. SafeSpec => []Levels!LevelsCorrect
  BY LevelsAreCorrect, RefinesLevels, PTL DEF ImplementsLevels
<1> DEFINE Empty == NoSlotClash /\ main = "done" => frontier.next = 0
<1>2. Empty /\ Levels!LevelsCorrect => VisitedIsReachable
  <2>1. Levels!Reachable(graph) = Reachable(graph)
    BY DEF Levels!Reachable, Levels!Successors, Levels!OutNeighbours, Levels!Node,
           Reachable, Successors, OutNeighbours, Node
  <2> QED BY <2>1 DEF Levels!LevelsCorrect, VisitedIsReachable, tb_contents, reachedBar, levelBar
<1>3. SafeSpec => []Empty
  <2>1. Init => Empty
    BY DEF Init
  <2>2. (NoSlotClash => IInv) /\ Empty /\ [Next]_vars => Empty'
    <3> SUFFICES ASSUME NoSlotClash => IInv, Empty, [Next]_vars, NoSlotClash', main' = "done"
                 PROVE  frontier'.next = 0
      OBVIOUS
    <3>1. NoSlotClash
      BY ClashStays
    <3>2. \A t \in Thread : main = "done" => pc[t] = "idle"
      BY <3>1 DEF IInv, Control, Bodies
    <3> QED BY <3>1, <3>2 DEF Next, MainStep, Launch, Finish, Join, Transfer, TakeRange, BodyStep,
                 NextVertex, Stray, EndRange, CheckEdge, EndVertex, Cas, PushIndex, PushStore,
                 PushLoad, PushInc, Terminated, vars, shared, control, locals
  <2> HIDE DEF Empty
  <2> QED BY <2>1, <2>2, Inductive, PTL DEF SafeSpec
<1> HIDE DEF Empty
<1> QED BY <1>1, <1>2, <1>3, PTL
=============================================================================

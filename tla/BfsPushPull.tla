---------------------------- MODULE BfsPushPull ----------------------------
(***************************************************************************)
(* bfs_pushpull (src/bfs.cpp:150-233).  Push levels run until the frontier *)
(* is empty or its edges outnumber the unexplored ones; then the frontier  *)
(* is written into in_frontier and the pull loop of PullSweep finishes.    *)
(* A push body claims a neighbour with one compare-and-swap (no test       *)
(* before it) and appends it to frontier_next, a concurrent_vector; its    *)
(* two sums reach edges_in_frontier and explored when its range is done.   *)
(* edges_in_frontier, a combinable, is its combined value here.            *)
(***************************************************************************)
EXTENDS PullSweep, Sequences, SequencesExt

VARIABLES frontier, frontier_next, edges_in_frontier, explored,
          src, dst, local_explored, local_edges

pushShared == <<frontier, frontier_next, edges_in_frontier, explored>>
pushLocals == <<src, dst, local_explored, local_edges>>
pushVars == <<pushShared, pushLocals>>
arrays == <<in_frontier, in_frontier_next, cont, local_cont>>

OutDegree(v) == graph.out_edge_offsets[v + 1] - graph.out_edge_offsets[v]

PushInit ==
  /\ frontier_next = <<>> /\ edges_in_frontier = 0 /\ explored = 0
  /\ src = [t \in Thread |-> 0] /\ dst = [t \in Thread |-> 0]
  /\ local_explored = [t \in Thread |-> 0] /\ local_edges = [t \in Thread |-> 0]

-----------------------------------------------------------------------------
(* The main thread, up to the pull loop. *)

unexplored == graph.nb_edges - explored

\* (Mutant) edges_in_frontier.clear() is forgotten.
SumKept == edges_in_frontier

SumCleared == 0

\* The head of the push loop: leave it (the frontier is empty, or goto PULL),
\* or reset the heuristic's sum and start a level.
PushHead ==
  /\ main = "head"
  /\ IF frontier = <<>> \/ edges_in_frontier > unexplored
       THEN main' = "mark" /\ UNCHANGED <<edges_in_frontier, pending>>
       ELSE /\ edges_in_frontier' = SumCleared
            /\ pending' = 0 .. Len(frontier) - 1
            /\ main' = "push"
  /\ UNCHANGED <<load, visited, arrays, pc, idx, stop, beg,
                 frontier, frontier_next, explored, pushLocals>>

\* arena.execute returns; frontier.clear(); frontier.swap(frontier_next);
PushJoin ==
  /\ main = "push" /\ ParallelForEnds(pending, pc)
  /\ frontier' = frontier_next
  /\ frontier_next' = <<>>
  /\ main' = "head"
  /\ UNCHANGED <<load, visited, arrays, pending, pc, idx, stop, beg,
                 edges_in_frontier, explored, pushLocals>>

\* PULL: the two arrays are allocated and the frontier is marked in one of
\* them.  Nobody reads the array before the parallel_for that fills it ends.
MarkFrontier ==
  /\ main = "mark"
  /\ zeroed' \in BOOLEAN
  /\ \E mem \in MallocArrays' :
       in_frontier' = [v \in Node |-> mem[v] \/ v \in ToSet(frontier)]
  /\ in_frontier_next' \in MallocArrays'
  /\ main' = "sweep"
  /\ UNCHANGED <<graph, symmetric, visited, cont, pending, pc, sweepLocals, pushVars>>

-----------------------------------------------------------------------------
(* The body of the push loop. *)

PushTakeRange(t) ==
  /\ main = "push" /\ pc[t] = "idle" /\ ArenaHasRoom(pc)
  /\ \E r \in Ranges(pending) :
       /\ pending' = pending \ (r[1] .. r[2] - 1)
       /\ idx' = [idx EXCEPT ![t] = r[1]]
       /\ stop' = [stop EXCEPT ![t] = r[2]]
  /\ Goto(t, "push_vertex")
  /\ UNCHANGED <<load, visited, arrays, main, beg, pushVars>>

\* (Mutant) the first edge of the row is skipped.
RowSkipsFirst(v) == graph.out_edge_offsets[v] + 1

RowBegin(v) == graph.out_edge_offsets[v]

\* The next frontier vertex: local_explored += end - beg;
PushVertex(t) ==
  /\ pc[t] = "push_vertex" /\ idx[t] < stop[t]
  /\ LET v == frontier[idx[t] + 1] IN
       /\ src' = [src EXCEPT ![t] = v]
       /\ beg' = [beg EXCEPT ![t] = RowBegin(v)]
       /\ local_explored' = [local_explored EXCEPT ![t] = @ + OutDegree(v)]
  /\ Goto(t, "push_edge")
  /\ UNCHANGED <<load, visited, arrays, main, pending, idx, stop,
                 pushShared, dst, local_edges>>

\* __sync_bool_compare_and_swap(&(visited[dst]), 0, 1), for the next edge.
PushCas(t) ==
  /\ pc[t] = "push_edge" /\ beg[t] < graph.out_edge_offsets[src[t] + 1]
  /\ LET d == graph.out_edges[beg[t]] IN
       IF visited[d] = 0
         THEN /\ visited' = [visited EXCEPT ![d] = 1]
              /\ dst' = [dst EXCEPT ![t] = d]
              /\ Goto(t, "push_back") /\ UNCHANGED beg
         ELSE /\ beg' = [beg EXCEPT ![t] = @ + 1]
              /\ UNCHANGED <<visited, dst, pc>>
  /\ UNCHANGED <<load, arrays, main, pending, idx, stop,
                 pushShared, src, local_explored, local_edges>>

\* frontier_next.push_back(dst); local_edges_in_frontier += degree of dst;
PushBack(t) ==
  /\ pc[t] = "push_back"
  /\ frontier_next' = Append(frontier_next, dst[t])
  /\ local_edges' = [local_edges EXCEPT ![t] = @ + OutDegree(dst[t])]
  /\ beg' = [beg EXCEPT ![t] = @ + 1]
  /\ Goto(t, "push_edge")
  /\ UNCHANGED <<load, visited, arrays, main, pending, idx, stop,
                 frontier, edges_in_frontier, explored, src, dst, local_explored>>

PushEndVertex(t) ==
  /\ pc[t] = "push_edge" /\ beg[t] >= graph.out_edge_offsets[src[t] + 1]
  /\ idx' = [idx EXCEPT ![t] = @ + 1]
  /\ Goto(t, "push_vertex")
  /\ UNCHANGED <<load, visited, arrays, main, pending, stop, beg, pushVars>>

\* (Mutant) the range's sum is not added to explored.
RangeSumLost(t) == 0

RangeSum(t) == local_explored[t]

\* edges_in_frontier.local() += ..; __atomic_add_fetch(&explored, ..);
PushEndRange(t) ==
  /\ pc[t] = "push_vertex" /\ idx[t] >= stop[t]
  /\ edges_in_frontier' = edges_in_frontier + local_edges[t]
  /\ explored' = explored + RangeSum(t)
  /\ idx' = [idx EXCEPT ![t] = 0] /\ stop' = [stop EXCEPT ![t] = 0]
  /\ beg' = [beg EXCEPT ![t] = 0]
  /\ src' = [src EXCEPT ![t] = 0] /\ dst' = [dst EXCEPT ![t] = 0]
  /\ local_explored' = [local_explored EXCEPT ![t] = 0]
  /\ local_edges' = [local_edges EXCEPT ![t] = 0]
  /\ Goto(t, "idle")
  /\ UNCHANGED <<load, visited, arrays, main, pending, frontier, frontier_next>>

-----------------------------------------------------------------------------
PushMain == PushHead \/ PushJoin \/ MarkFrontier
PushBody(t) ==
  PushVertex(t) \/ PushCas(t) \/ PushBack(t) \/ PushEndVertex(t) \/ PushEndRange(t)


FrontierSet == ToSet(frontier)
Claimed == ToSet(frontier_next) \cup {dst[t] : t \in {u \in Thread : pc[u] = "push_back"}}

EdgesOf(S) == SumFunctionOnSet([v \in Node |-> OutDegree(v)], S)

PushTypeOK ==
  /\ frontier \in Seq(Node) /\ frontier_next \in Seq(Node)
  /\ edges_in_frontier \in Nat /\ explored \in Nat
  /\ src \in [Thread -> Node] /\ dst \in [Thread -> Node]
  /\ local_explored \in [Thread -> Nat] /\ local_edges \in [Thread -> Nat]
=============================================================================

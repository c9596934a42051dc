----------------------------- MODULE PullSweep -----------------------------
(***************************************************************************)
(* The pull loop that bfs_pull (src/bfs.cpp:121-147) and bfs_pushpull      *)
(* (src/bfs.cpp:202-229) have in common: sweep over all vertices; an       *)
(* unvisited one with an in-neighbour in the frontier joins the next       *)
(* frontier.  The two frontier arrays change roles after every sweep.      *)
(*                                                                         *)
(* A vertex belongs to one range, so visited[dst] and in_frontier_next[dst]*)
(* are accessed by one thread only during a sweep and the two stores are   *)
(* one step; in_frontier is only read.  The shared flag cont is written by *)
(* every body that found something, when it ends.  create_graph sets       *)
(* in_edge_offsets and in_edges with -s only: without it the loop follows  *)
(* pointers nobody set.                                                    *)
(***************************************************************************)
EXTENDS BfsGraph, TaskArena

CONSTANT StrayArrays   \* contents of used memory that are considered

ASSUME StrayAssumption == StrayArrays \subseteq [Node -> BOOLEAN]

VARIABLES graph, visited, in_frontier, in_frontier_next, cont,
          main, pending, pc, idx, stop, beg, local_cont,
          zeroed,     \* malloc returns zeroed memory for the frontier arrays
          symmetric   \* the graph was loaded with -s

\* What a frontier array that malloc returned can hold.
MallocArrays == IF zeroed THEN {[v \in Node |-> FALSE]} ELSE StrayArrays

load == <<graph, zeroed, symmetric>>
sweepShared == <<visited, in_frontier, in_frontier_next, cont>>
sweepLocals == <<idx, stop, beg, local_cont>>
sweepVars == <<load, sweepShared, main, pending, pc, sweepLocals>>

Goto(t, label) == pc' = [pc EXCEPT ![t] = label]

\* (Mutant) cont is not reset.
ContKept == cont

ContReset == FALSE

\* (Mutant) the loop goes one vertex too far.
IndicesOneTooMany == 0 .. NB_NODES

Indices == Node

\* do { cont = false; ... parallel_for(blocked_range(0, NB_NODES)
SweepLaunch ==
  /\ main = "sweep"
  /\ cont' = ContReset
  /\ pending' = Indices
  /\ main' = "parallel"
  /\ UNCHANGED <<load, visited, in_frontier, in_frontier_next, pc, sweepLocals>>

\* (Mutant) the memset before the swap is forgotten.
NotCleared == in_frontier

\* memset(in_frontier, false, ..);
Cleared == [v \in Node |-> FALSE]

\* std::swap(in_frontier, in_frontier_next); while(cont)
SweepEnd ==
  /\ main = "parallel" /\ ParallelForEnds(pending, pc)
  /\ in_frontier' = in_frontier_next
  /\ in_frontier_next' = Cleared
  /\ main' = IF cont THEN "sweep" ELSE "done"
  /\ UNCHANGED <<load, visited, cont, pending, pc, sweepLocals>>

TakeRange(t) ==
  /\ main = "parallel" /\ pc[t] = "idle" /\ ArenaHasRoom(pc)
  /\ \E r \in Ranges(pending) :
       /\ pending' = pending \ (r[1] .. r[2] - 1)
       /\ idx' = [idx EXCEPT ![t] = r[1]]
       /\ stop' = [stop EXCEPT ![t] = r[2]]
  /\ local_cont' = [local_cont EXCEPT ![t] = FALSE]
  /\ Goto(t, "vertex")
  /\ UNCHANGED <<load, sweepShared, main, beg>>

\* if(visited[dst]) continue;
ScanVertex(t) ==
  /\ pc[t] = "vertex" /\ idx[t] < stop[t]
  /\ symmetric \/ visited[idx[t]] = 1
  /\ IF visited[idx[t]] = 1
       THEN idx' = [idx EXCEPT ![t] = @ + 1] /\ UNCHANGED <<pc, beg>>
       ELSE /\ beg' = [beg EXCEPT ![t] = graph.in_edge_offsets[idx[t]]]
            /\ Goto(t, "edge") /\ UNCHANGED idx
  /\ UNCHANGED <<load, sweepShared, main, pending, stop, local_cont>>

\* The vertex joins the next frontier, and the body goes on behind it.
Find(t) ==
  /\ local_cont' = [local_cont EXCEPT ![t] = TRUE]
  /\ visited' = [visited EXCEPT ![idx[t]] = 1]
  /\ in_frontier_next' = [in_frontier_next EXCEPT ![idx[t]] = TRUE]
  /\ idx' = [idx EXCEPT ![t] = @ + 1]
  /\ Goto(t, "vertex") /\ UNCHANGED beg

\* Without -s in_edge_offsets points anywhere: the process is killed, or the
\* scan finds what it likes.
ScanUndefined(t) ==
  /\ pc[t] = "vertex" /\ idx[t] < stop[t]
  /\ ~symmetric /\ visited[idx[t]] = 0
  /\ \/ Find(t) /\ UNCHANGED <<main, pending>>
     \/ /\ idx' = [idx EXCEPT ![t] = @ + 1]
        /\ UNCHANGED <<main, pending, pc, beg, local_cont, visited, in_frontier_next>>
     \/ /\ main' = "fault" /\ pending' = {} /\ pc' = [u \in Thread |-> "idle"]
        /\ UNCHANGED <<idx, beg, local_cont, visited, in_frontier_next>>
  /\ UNCHANGED <<load, in_frontier, cont, stop>>

\* if(in_frontier[src]){ ... break; }
ScanEdge(t) ==
  /\ pc[t] = "edge" /\ beg[t] < graph.in_edge_offsets[idx[t] + 1]
  /\ IF in_frontier[graph.in_edges[beg[t]]]
       THEN Find(t)
       ELSE /\ beg' = [beg EXCEPT ![t] = @ + 1]
            /\ UNCHANGED <<local_cont, visited, in_frontier_next, idx, pc>>
  /\ UNCHANGED <<load, in_frontier, cont, main, pending, stop>>

\* No in-neighbour of dst is in the frontier.
EndScan(t) ==
  /\ pc[t] = "edge" /\ beg[t] >= graph.in_edge_offsets[idx[t] + 1]
  /\ idx' = [idx EXCEPT ![t] = @ + 1]
  /\ Goto(t, "vertex")
  /\ UNCHANGED <<load, sweepShared, main, pending, stop, beg, local_cont>>

\* (Mutant) cont = local_cont without the test.
ContOverwritten(t) == local_cont[t]

ContAfter(t) == local_cont[t] \/ cont

\* if(local_cont) cont = local_cont;  the locals of the body die.
EndRange(t) ==
  /\ pc[t] = "vertex" /\ idx[t] >= stop[t]
  /\ cont' = ContAfter(t)
  /\ idx' = [idx EXCEPT ![t] = 0] /\ stop' = [stop EXCEPT ![t] = 0]
  /\ beg' = [beg EXCEPT ![t] = 0]
  /\ local_cont' = [local_cont EXCEPT ![t] = FALSE]
  /\ Goto(t, "idle")
  /\ UNCHANGED <<load, visited, in_frontier, in_frontier_next, main, pending>>

SweepMain == SweepLaunch \/ SweepEnd
SweepBody(t) == ScanVertex(t) \/ ScanUndefined(t) \/ ScanEdge(t) \/ EndScan(t) \/ EndRange(t)

-----------------------------------------------------------------------------
(* Definitions for the properties. *)

Visited == {v \in Node : visited[v] = 1}
InFrontier == {v \in Node : in_frontier[v]}
InFrontierNext == {v \in Node : in_frontier_next[v]}

SweepTypeOK ==
  /\ IsGraph(graph)
  /\ zeroed \in BOOLEAN /\ symmetric \in BOOLEAN
  /\ visited \in [Node -> {0, 1}]
  /\ in_frontier \in [Node -> BOOLEAN]
  /\ in_frontier_next \in [Node -> BOOLEAN]
  /\ cont \in BOOLEAN
  /\ pending \in SUBSET Node
  /\ idx \in [Thread -> Nat] /\ stop \in [Thread -> Nat]
  /\ beg \in [Thread -> Nat] /\ local_cont \in [Thread -> BOOLEAN]

\* When all bodies have returned, cont says whether the sweep found a vertex:
\* no body that found nothing resets what another one set.  (Stray entries in
\* the next frontier are no finds of the sweep.)
ContIsExact ==
  zeroed /\ main = "parallel" /\ ParallelForEnds(pending, pc) =>
    (cont <=> InFrontierNext # {})
=============================================================================

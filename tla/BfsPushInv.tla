----------------------------- MODULE BfsPushInv -----------------------------
(***************************************************************************)
(* The inductive invariants of bfs_push: what the accesses of the bodies   *)
(* keep true between them, also when they share a buffer (BoundsInv), and  *)
(* when they do not (IInv).                                                *)
(***************************************************************************)
EXTENDS BfsPush

OnEdge == {"edge", "cas"} \cup Pushing
Used(b) == 0 .. b.next - 1
RowOf(v) == graph.out_edge_offsets[v] .. graph.out_edge_offsets[v + 1] - 1

\* Bodies run only inside the parallel_for and on indices of the frontier; a
\* body that is at an edge is at an edge of the vertex it looked up.
Bodies ==
  /\ main = "parallel" => pending \subseteq Used(frontier)
  /\ main # "parallel" => pending = {}
  /\ \A t \in Thread :
       /\ pc[t] # "idle" => main = "parallel" /\ t \in workers /\ stop[t] <= frontier.next
       /\ pc[t] \in OnEdge => idx[t] < stop[t] /\ graph.out_edge_offsets[src[t]] <= beg[t]
       /\ pc[t] \in {"cas"} \cup Pushing => /\ beg[t] \in RowOf(src[t])
                                            /\ dst[t] = graph.out_edges[beg[t]]

-----------------------------------------------------------------------------
(* Whether or not threads share a buffer. *)

\* The CAS lets one body have a vertex.
Exclusive ==
  \A t \in Thread : pc[t] \in Pushing =>
    /\ visited[dst[t]] = 1
    /\ \A u \in Thread : pc[u] \in Pushing /\ dst[u] = dst[t] => u = t

\* The frontier fits; the buffers are empty before a level and once they have
\* been transferred.
Emptied ==
  /\ frontier.next <= NB_NODES
  /\ \A s \in Slot :
       main \in {"loop", "done"} \/ (main = "transfer" /\ s < xfer) => buffers[s].next = 0

\* pushes[s] are the vertices whose push on buffer s is over, moved those of
\* the buffers that have been transferred.  A push that gets lost to another
\* one leaves next too small, and a late store of next sets it back: next
\* never gets ahead of the number of pushes, nor do the registers.
Accounts(pushes, moved) ==
  /\ \A s \in Slot :
       /\ pushes[s] \subseteq Visited \ moved
       /\ \A r \in Slot : r # s => pushes[s] \cap pushes[r] = {}
       /\ \A t \in Thread : pc[t] \in Pushing => dst[t] \notin pushes[s]
       /\ buffers[s].next <= Cardinality(pushes[s])
  /\ \A t \in Thread :
       pc[t] \in {"store", "inc"} => tmp[t] <= Cardinality(pushes[slot(t)])
  /\ main \notin {"parallel", "undefined"} => frontier.next <= Cardinality(moved)

Accounted ==
  \E pushes \in [Slot -> SUBSET Node], moved \in SUBSET Node : Accounts(pushes, moved)

BoundsInv == TypeOK /\ Bodies /\ Exclusive /\ Emptied /\ Accounted

-----------------------------------------------------------------------------
(* When no two threads share a buffer. *)

\* The vertex a body looked up is the one its index selects, and no body met
\* an entry that was never written.
Control ==
  /\ Bodies
  /\ main # "undefined"
  /\ \A t \in Thread : pc[t] \in OnEdge => src[t] = frontier.buffer[idx[t]]

\* The entries in use fit, and are visited vertices; no vertex is in two
\* places.  A frontier that is being filled shares nothing with the buffers,
\* and the buffers before xfer are empty.
Entries ==
  /\ frontier.next <= NB_NODES
  /\ \A k \in Used(frontier) : frontier.buffer[k] \in Node
  /\ \A j, k \in Used(frontier) : frontier.buffer[j] = frontier.buffer[k] => j = k
  /\ \A s \in Slot :
       /\ buffers[s].next <= NB_NODES
       /\ \A k \in Used(buffers[s]) :
            buffers[s].buffer[k] \in Node /\ visited[buffers[s].buffer[k]] = 1
  /\ \A s, r \in Slot : \A j \in Used(buffers[s]), k \in Used(buffers[r]) :
       buffers[s].buffer[j] = buffers[r].buffer[k] => s = r /\ j = k
  /\ main = "transfer" =>
       \A s \in Slot : \A j \in Used(frontier), k \in Used(buffers[s]) :
         frontier.buffer[j] # buffers[s].buffer[k]
  /\ \A s \in Slot :
       main \in {"loop", "done"} \/ (main = "transfer" /\ s < xfer) => buffers[s].next = 0

\* A vertex between its CAS and the increment of next is visited, in no
\* buffer, and in flight once; the registers of push are not stale.
InFlight ==
  \A t \in Thread : pc[t] \in Pushing =>
    /\ visited[dst[t]] = 1
    /\ \A s \in Slot : \A k \in Used(buffers[s]) : buffers[s].buffer[k] # dst[t]
    /\ \A u \in Thread : pc[u] \in Pushing /\ dst[u] = dst[t] => u = t
    /\ pc[t] \in {"store", "inc"} => tmp[t] = buffers[slot(t)].next
    /\ pc[t] \in {"load", "inc"} =>
         buffers[slot(t)].buffer[buffers[slot(t)].next] = dst[t]

IInv == TypeOK /\ Control /\ Entries /\ InFlight

\* What a level still has to do.  It has a vertex; an index of its frontier is
\* not given out yet, or in the rest of a body's range, or its neighbours are
\* all visited; every vertex claimed in the level neighbours the frontier.
Progress ==
  main = "parallel" =>
    /\ frontier.next # 0
    /\ \A k \in Used(frontier) :
         \/ k \in pending
         \/ \E t \in Thread : pc[t] # "idle" /\ idx[t] <= k /\ k < stop[t]
         \/ OutNeighbours(graph, frontier.buffer[k]) \subseteq Visited
    /\ \A t \in Thread : pc[t] \in OnEdge =>
         \A e \in graph.out_edge_offsets[src[t]] .. beg[t] - 1 :
           visited[graph.out_edges[e]] = 1
    /\ Claimed \subseteq Successors(graph, tb_contents(frontier))
=============================================================================

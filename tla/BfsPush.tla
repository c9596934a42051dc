------------------------------ MODULE BfsPush ------------------------------
(***************************************************************************)
(* bfs_push (src/bfs.cpp:60-112).  The main thread runs one parallel_for   *)
(* per level over the frontier; a body claims each unvisited neighbour     *)
(* with a compare-and-swap on visited[] and pushes what it claimed on      *)
(* buffers[gettid()%THREADS]; after the level the main thread moves the    *)
(* buffers into the frontier.                                              *)
(*                                                                         *)
(* The steps of a body are its accesses to shared memory: the test of      *)
(* visited[dst], the CAS, and the four accesses of thread_buffer::push     *)
(* (load next, store the entry, load next, store next), which is not       *)
(* atomic.  pc[t] names the access a body does next; the locals of the     *)
(* body are idx (`i'), stop, src, beg, dst and tmp (the value of next in   *)
(* a register).  graph does not change after create_graph.                 *)
(***************************************************************************)
EXTENDS BfsGraph, TaskArena, ThreadBuffer

CONSTANTS tid,    \* gettid() of each thread
          Teams   \* the sets of threads that may share the work

ASSUME TidAssumption == tid \in [Thread -> Nat]
ASSUME UninitAssumption == Uninit \notin Node

VARIABLES graph, workers,   \* the threads the arena uses
          visited, frontier, buffers,
          main,      \* where the main thread is
          xfer,      \* its loop index over the buffers
          pending,   \* indices of the frontier no body was given yet
          pc, idx, stop, src, beg, dst, tmp

shared == <<visited, frontier, buffers>>
control == <<main, xfer, pending>>
locals == <<idx, stop, src, beg, dst, tmp>>
vars == <<graph, workers, shared, control, pc, locals>>

Slot == 0 .. THREADS - 1
slot(t) == tid[t] % THREADS

\* gettid()%THREADS gives every thread that shares the work a buffer of its own.
NoSlotClash == \A t, u \in workers : slot(t) = slot(u) => t = u

\* frontier[i]: an entry that was never written holds whatever malloc left
\* there, any vertex among others (for the rest see Stray).
Entry(b, k) == IF b.buffer[k] = Uninit THEN Node ELSE {b.buffer[k]}

Init ==
  /\ graph \in Graphs /\ workers \in Teams
  /\ visited = [v \in Node |-> IF v = source THEN 1 ELSE 0]
  /\ frontier = tb_set_next(tb_store(tb_init(NB_NODES), 0, source), 1)
  /\ buffers = [s \in Slot |-> tb_init(NB_NODES)]
  /\ main = "loop" /\ xfer = 0 /\ pending = {}
  /\ pc = [t \in Thread |-> "idle"]
  /\ idx = [t \in Thread |-> 0] /\ stop = [t \in Thread |-> 0]
  /\ src = [t \in Thread |-> 0] /\ beg = [t \in Thread |-> 0]
  /\ dst = [t \in Thread |-> 0] /\ tmp = [t \in Thread |-> 0]

-----------------------------------------------------------------------------
(* The main thread. *)

\* while((to_process = frontier.size()) != 0) ... parallel_for
Launch ==
  /\ main = "loop" /\ frontier.next # 0
  /\ main' = "parallel"
  /\ pending' = 0 .. frontier.next - 1
  /\ UNCHANGED <<graph, workers, shared, xfer, pc, locals>>

\* The frontier is empty: the loop ends (and the visited count is printed).
Finish ==
  /\ main = "loop" /\ frontier.next = 0
  /\ main' = "done"
  /\ UNCHANGED <<graph, workers, shared, xfer, pending, pc, locals>>

\* arena.execute returns; frontier.clear().
Join ==
  /\ main = "parallel" /\ ParallelForEnds(pending, pc)
  /\ frontier' = tb_clear(frontier)
  /\ main' = "transfer" /\ xfer' = 0
  /\ UNCHANGED <<graph, workers, visited, buffers, pending, pc, locals>>

\* buffers[xfer].transfer(frontier); an empty buffer returns at once.
Transfer ==
  /\ main = "transfer"
  /\ IF buffers[xfer].next = 0
       THEN UNCHANGED <<frontier, buffers>>
       ELSE /\ frontier' = tb_receive(frontier, buffers[xfer])
            /\ buffers' = [buffers EXCEPT ![xfer] = tb_clear(@)]
  /\ xfer' = xfer + 1
  /\ main' = IF xfer + 1 = THREADS THEN "loop" ELSE "transfer"
  /\ UNCHANGED <<graph, workers, visited, pending, pc, locals>>

Terminated == main \in {"done", "undefined"} /\ UNCHANGED vars

-----------------------------------------------------------------------------
(* The body of the parallel_for. *)

Goto(t, label) == pc' = [pc EXCEPT ![t] = label]

TakeRange(t) ==
  /\ main = "parallel" /\ t \in workers /\ pc[t] = "idle" /\ ArenaHasRoom(pc)
  /\ \E r \in Ranges(pending) :
       /\ pending' = pending \ (r[1] .. r[2] - 1)
       /\ idx' = [idx EXCEPT ![t] = r[1]]
       /\ stop' = [stop EXCEPT ![t] = r[2]]
  /\ Goto(t, "vertex")
  /\ UNCHANGED <<graph, workers, shared, main, xfer, src, beg, dst, tmp>>

\* The next frontier vertex of the range.
NextVertex(t) ==
  /\ pc[t] = "vertex" /\ idx[t] < stop[t]
  /\ \E v \in Entry(frontier, idx[t]) :
       /\ src' = [src EXCEPT ![t] = v]
       /\ beg' = [beg EXCEPT ![t] = graph.out_edge_offsets[v]]
  /\ Goto(t, "edge")
  /\ UNCHANGED <<graph, workers, shared, control, idx, stop, dst, tmp>>

\* frontier[i] was never written and what malloc left there is no vertex: the
\* offsets, and visited[] through them, are indexed out of their bounds.  What
\* happens then is undefined; the model ends.
Stray(t) ==
  /\ pc[t] = "vertex" /\ idx[t] < stop[t]
  /\ frontier.buffer[idx[t]] = Uninit
  /\ main' = "undefined" /\ pending' = {}
  /\ pc' = [u \in Thread |-> "idle"]
  /\ UNCHANGED <<graph, workers, shared, xfer, locals>>

\* The range is done: the body returns and its locals die.
EndRange(t) ==
  /\ pc[t] = "vertex" /\ idx[t] >= stop[t]
  /\ Goto(t, "idle")
  /\ idx' = [idx EXCEPT ![t] = 0] /\ stop' = [stop EXCEPT ![t] = 0]
  /\ src' = [src EXCEPT ![t] = 0] /\ beg' = [beg EXCEPT ![t] = 0]
  /\ dst' = [dst EXCEPT ![t] = 0] /\ tmp' = [tmp EXCEPT ![t] = 0]
  /\ UNCHANGED <<graph, workers, shared, control>>

\* if(visited[dst] == 0), for the next edge of src.
CheckEdge(t) ==
  /\ pc[t] = "edge" /\ beg[t] < graph.out_edge_offsets[src[t] + 1]
  /\ dst' = [dst EXCEPT ![t] = graph.out_edges[beg[t]]]
  /\ IF visited[graph.out_edges[beg[t]]] = 0
       THEN Goto(t, "cas") /\ UNCHANGED beg
       ELSE beg' = [beg EXCEPT ![t] = @ + 1] /\ UNCHANGED pc
  /\ UNCHANGED <<graph, workers, shared, control, idx, stop, src, tmp>>

\* (Mutant) i++ is forgotten.
EndVertexKeepsIndex(t) ==
  /\ pc[t] = "edge" /\ beg[t] >= graph.out_edge_offsets[src[t] + 1]
  /\ Goto(t, "vertex")
  /\ UNCHANGED <<graph, workers, shared, control, idx, stop, src, beg, dst, tmp>>

EndVertex(t) ==
  /\ pc[t] = "edge" /\ beg[t] >= graph.out_edge_offsets[src[t] + 1]
  /\ idx' = [idx EXCEPT ![t] = @ + 1]
  /\ Goto(t, "vertex")
  /\ UNCHANGED <<graph, workers, shared, control, stop, src, beg, dst, tmp>>

\* (Mutant) a second test takes the place of the CAS: nothing is claimed.
CasOnlyTests(t) ==
  /\ pc[t] = "cas"
  /\ IF visited[dst[t]] = 0
       THEN Goto(t, "index") /\ UNCHANGED beg
       ELSE beg' = [beg EXCEPT ![t] = @ + 1] /\ Goto(t, "edge")
  /\ UNCHANGED <<graph, workers, shared, control, idx, stop, src, dst, tmp>>

\* __sync_bool_compare_and_swap(&(visited[dst]), 0, 1)
Cas(t) ==
  /\ pc[t] = "cas"
  /\ IF visited[dst[t]] = 0
       THEN /\ visited' = [visited EXCEPT ![dst[t]] = 1]
            /\ Goto(t, "index") /\ UNCHANGED beg
       ELSE /\ beg' = [beg EXCEPT ![t] = @ + 1]
            /\ Goto(t, "edge") /\ UNCHANGED visited
  /\ UNCHANGED <<graph, workers, frontier, buffers, control, idx, stop, src, dst, tmp>>

\* local_buffer.push(dst): buffer[next] = id;
PushIndex(t) ==
  /\ pc[t] = "index"
  /\ tmp' = [tmp EXCEPT ![t] = buffers[slot(t)].next]
  /\ Goto(t, "store")
  /\ UNCHANGED <<graph, workers, shared, control, idx, stop, src, beg, dst>>

PushStore(t) ==
  /\ pc[t] = "store"
  /\ buffers' = [buffers EXCEPT ![slot(t)] = tb_store(@, tmp[t], dst[t])]
  /\ Goto(t, "load")
  /\ UNCHANGED <<graph, workers, visited, frontier, control, locals>>

\* ... next++;
PushLoad(t) ==
  /\ pc[t] = "load"
  /\ tmp' = [tmp EXCEPT ![t] = buffers[slot(t)].next]
  /\ Goto(t, "inc")
  /\ UNCHANGED <<graph, workers, shared, control, idx, stop, src, beg, dst>>

PushInc(t) ==
  /\ pc[t] = "inc"
  /\ buffers' = [buffers EXCEPT ![slot(t)] = tb_set_next(@, tmp[t] + 1)]
  /\ beg' = [beg EXCEPT ![t] = @ + 1]
  /\ Goto(t, "edge")
  /\ UNCHANGED <<graph, workers, visited, frontier, control, idx, stop, src, dst, tmp>>

-----------------------------------------------------------------------------
MainStep == Launch \/ Finish \/ Join \/ Transfer

BodyStep(t) ==
  \/ NextVertex(t) \/ Stray(t) \/ EndRange(t) \/ CheckEdge(t) \/ EndVertex(t) \/ Cas(t)
  \/ PushIndex(t) \/ PushStore(t) \/ PushLoad(t) \/ PushInc(t)

Next ==
  \/ MainStep
  \/ \E t \in Thread : TakeRange(t) \/ BodyStep(t)
  \/ Terminated

SafeSpec == Init /\ [][Next]_vars

\* The operating system runs every thread that is inside a body, the main
\* thread included, and the arena hands out every range of the loop.
Fairness ==
  /\ WF_vars(MainStep)
  /\ WF_vars(\E t \in Thread : TakeRange(t))
  /\ \A t \in Thread : WF_vars(BodyStep(t))

Spec == SafeSpec /\ Fairness

-----------------------------------------------------------------------------
(* Properties. *)

Buffer == [buffer : [Node -> Node \cup {Uninit}], next : Nat]
Pushing == {"index", "store", "load", "inc"}

\* Type correctness of the shared state and of the locals of the bodies.
TypeOK ==
  /\ IsGraph(graph)
  /\ visited \in [Node -> {0, 1}]
  /\ frontier \in Buffer
  /\ buffers \in [Slot -> Buffer]
  /\ main \in {"loop", "parallel", "transfer", "done", "undefined"}
  /\ xfer \in 0 .. THREADS
  /\ main = "transfer" => xfer < THREADS
  /\ pending \in SUBSET Node
  /\ pc \in [Thread -> Pushing \cup {"idle", "vertex", "edge", "cas"}]
  /\ idx \in [Thread -> Nat] /\ stop \in [Thread -> Nat]
  /\ src \in [Thread -> Node] /\ beg \in [Thread -> Nat]
  /\ dst \in [Thread -> Node] /\ tmp \in [Thread -> Nat]

Visited == {v \in Node : visited[v] = 1}

\* The vertices claimed in the level that is being explored: pushed already,
\* or on their way between the won CAS and the increment of next.
Pushed == UNION {tb_contents(buffers[s]) : s \in Slot}
Claimed == Pushed \cup {dst[t] : t \in {u \in Thread : pc[u] \in Pushing}}

\* push and transfer check no bound: an entry is only ever stored inside the
\* buffer's capacity, and what transfer copies fits behind what the frontier
\* holds, because a vertex is claimed, hence pushed, at most once.  Pushes that
\* get lost on a shared buffer do not change that, until they make a body read
\* an entry that was never written and is no vertex (Stray): nothing is said
\* of what follows.
BuffersInBounds ==
  /\ frontier.next <= NB_NODES
  /\ \A s \in Slot : buffers[s].next <= NB_NODES
  /\ \A t \in Thread : pc[t] = "store" => tmp[t] < NB_NODES
  /\ main = "transfer" => frontier.next + buffers[xfer].next <= NB_NODES

\* No vertex is explored twice: the entries of the frontier are distinct
\* vertices while a level is explored, and no body reads an entry that was
\* never written, if no two threads share a buffer.
FrontierDistinct ==
  NoSlotClash =>
    /\ main # "undefined"
    /\ main \in {"loop", "parallel"} =>
         \A j, k \in 0 .. frontier.next - 1 :
           /\ frontier.buffer[j] \in Node
           /\ j # k => frontier.buffer[j] # frontier.buffer[k]

\* When bfs_push returns, visited[] marks exactly what is reachable from the
\* source (so the printed count is the size of that set), if no two threads
\* share a buffer.
VisitedIsReachable == NoSlotClash /\ main = "done" => Visited = Reachable(graph)

\* bfs_push returns if no two threads share a buffer; when two do and pushes
\* get lost it still returns, unless a body reads an entry that was never
\* written and is no vertex.
Termination ==
  /\ <>(main \in {"done", "undefined"})
  /\ NoSlotClash => <>(main = "done")

\* bfs_push is a level-synchronous search if no two threads share a buffer.
\* While a level is explored the vertices claimed so far do not count; they
\* are the next level from Join on.
reachedBar == IF main = "parallel" THEN Visited \ Claimed ELSE Visited
levelBar == IF main = "transfer" THEN tb_contents(frontier) \cup Pushed
                                 ELSE tb_contents(frontier)

Levels == INSTANCE BfsLevels WITH
  reached <- IF NoSlotClash THEN reachedBar ELSE {source},
  level   <- IF NoSlotClash THEN levelBar ELSE {source}

ImplementsLevels == Levels!SafeSpec
=============================================================================

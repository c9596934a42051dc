------------------------------- MODULE Loader -------------------------------
(***************************************************************************)
(* create_graph (src/loader.cpp): reads the binary edge list, counts the   *)
(* degrees with one parallel_for, turns them into prefix sums, and places  *)
(* every edge with a second parallel_for: a body claims the next free slot *)
(* of the source's row (and of the target's row of the transposed graph)   *)
(* with an atomic fetch_add and then stores the other end there.           *)
(*                                                                         *)
(* The file is its 4-byte words: edge i has its src at word 2*i and its    *)
(* dst at word 2*i+1.  read() may return fewer bytes than asked for; a     *)
(* short read is counted in words and may end inside an edge.  The file may *)
(* be cut off while it is read, and its vertices are whatever it says.     *)
(* Where a body would use a word that was never read, or write behind a    *)
(* degree array, main becomes "undefined" and the model ends.              *)
(***************************************************************************)
EXTENDS Csr, TaskArena

CONSTANTS Files,           \* the binaries considered: their words and how many
          SymmetricFlags,  \* -s: build the transposed graph too, or not
          MallocWords,     \* what a size_t of fresh malloc memory can be
          CounterModulus,  \* out_offsets and in_offsets are uint32_t: 2^32
          Uninit           \* the content of an entry nobody has written

ASSUME FilesAssumption ==
  \A f \in Files : /\ f.st_size \in Nat /\ f.st_size % 2 = 0
                    /\ f.words \in [0 .. f.st_size - 1 -> Nat]
ASSUME SymmetricAssumption == SymmetricFlags \subseteq BOOLEAN
ASSUME WordsAssumption == MallocWords \subseteq Nat /\ MallocWords # {}
ASSUME CounterAssumption == CounterModulus \in Nat \ {0}
ASSUME UninitAssumption == Uninit \notin Nat

VARIABLES file,      \* the content of the binary
          symmetric, \* graph->symmetric
          fpos,      \* the file offset of fd
          cut,       \* the file has been cut off there
          edges, cursor, count,
          out_edge_offsets, in_edge_offsets, out_edges, in_edges,
          out_offsets, in_offsets,
          main, pending, pc, idx, stop, o

input == <<file, symmetric, fpos, cut, edges, cursor, count>>
offsets == <<out_edge_offsets, in_edge_offsets>>
placed == <<out_edges, in_edges>>
counters == <<out_offsets, in_offsets>>
locals == <<idx, stop, o>>
vars == <<input, offsets, placed, counters, main, pending, pc, locals>>

NB_EDGES == file.st_size \div 2
WordNr == 0 .. file.st_size - 1
EdgeNr == 0 .. NB_EDGES - 1
Src(i) == edges[2 * i]
Dst(i) == edges[2 * i + 1]

Init ==
  /\ file \in Files /\ symmetric \in SymmetricFlags /\ fpos = 0 /\ cut = FALSE
  /\ edges = [k \in WordNr |-> Uninit]
  /\ cursor = 0 /\ count = file.st_size
  /\ out_edge_offsets \in [0 .. NB_NODES -> MallocWords]
  /\ in_edge_offsets \in [0 .. NB_NODES -> MallocWords]
  /\ out_edges = [k \in EdgeNr |-> Uninit] /\ in_edges = [k \in EdgeNr |-> Uninit]
  /\ out_offsets = [v \in Node |-> Uninit] /\ in_offsets = [v \in Node |-> Uninit]
  /\ main = "read" /\ pending = {}
  /\ pc = [t \in Thread |-> "idle"]
  /\ idx = [t \in Thread |-> 0] /\ stop = [t \in Thread |-> 0]
  /\ o = [t \in Thread |-> 0]

-----------------------------------------------------------------------------
(* The main thread. *)

\* Somebody truncates the file after fstat.
Truncate ==
  /\ main = "read" /\ ~cut /\ count # 0
  /\ cut' = TRUE
  /\ UNCHANGED <<file, symmetric, fpos, edges, cursor, count, offsets, placed, counters,
                 main, pending, pc, locals>>

\* (Mutant) a short read does not advance the cursor.
CursorStays(sz) == cursor

CursorAfter(sz) == cursor + sz

\* (Mutant) the end of the file is not noticed.
LastReadIsFull(sz) == sz = count

\* (sz = read(..)) != count && sz != 0
LastRead(sz) == sz = count \/ sz = 0

\* One round of the read loop.  read returns 0 only at the end of the file.
Read ==
  /\ main = "read"
  /\ \E sz \in 0 .. count :
       /\ sz = 0 <=> cut \/ count = 0
       /\ edges' = [k \in WordNr |->
                      IF k \in cursor .. cursor + sz - 1
                        THEN file.words[fpos + k - cursor] ELSE edges[k]]
       /\ fpos' = fpos + sz
       /\ IF LastRead(sz)
            THEN /\ main' = "count" /\ pending' = EdgeNr
                 /\ UNCHANGED <<cursor, count>>
            ELSE /\ cursor' = CursorAfter(sz) /\ count' = count - sz
                 /\ UNCHANGED <<main, pending>>
  /\ UNCHANGED <<file, symmetric, cut, offsets, placed, counters, pc, locals>>

\* if(sz == -1) die("read failed\n");
ReadFails ==
  /\ main = "read" /\ main' = "die"
  /\ UNCHANGED <<input, offsets, placed, counters, pending, pc, locals>>

\* prefix[v] is the sum of the first v entries of degree.
Prefix(degree) ==
  LET prefix[v \in 0 .. NB_NODES] ==
        IF v = 0 THEN 0 ELSE prefix[v - 1] + degree[v - 1]
  IN  prefix

\* (Mutant) create_edges' loop goes one edge too far.
CreateLoopOneTooMany == 0 .. NB_EDGES

CreateLoop == EdgeNr

\* count_degree's arena.execute returns; sum_degree; create_edges clears its
\* counters and starts its loop.
SumDegree ==
  /\ main = "count" /\ ParallelForEnds(pending, pc)
  /\ out_edge_offsets' = Prefix(out_edge_offsets)
  /\ in_edge_offsets' = IF symmetric THEN Prefix(in_edge_offsets) ELSE in_edge_offsets
  /\ IF \/ Prefix(out_edge_offsets)[NB_NODES] # NB_EDGES
        \/ symmetric /\ Prefix(in_edge_offsets)[NB_NODES] # NB_EDGES
       THEN main' = "assert" /\ UNCHANGED <<pending, counters>>
       ELSE /\ main' = "create" /\ pending' = CreateLoop
            /\ out_offsets' = [v \in Node |-> 0]
            /\ in_offsets' = IF symmetric THEN [v \in Node |-> 0] ELSE in_offsets
  /\ UNCHANGED <<input, placed, pc, locals>>

\* create_edges' arena.execute returns, and create_graph with it.
CreateJoin ==
  /\ main = "create" /\ ParallelForEnds(pending, pc)
  /\ main' = "done"
  /\ UNCHANGED <<input, offsets, placed, counters, pending, pc, locals>>

Terminated == main \in {"done", "die", "assert", "undefined"} /\ UNCHANGED vars

-----------------------------------------------------------------------------
(* The bodies of the two parallel_for. *)

Goto(t, label) == pc' = [pc EXCEPT ![t] = label]
NextEdge(t) ==
  /\ idx' = [idx EXCEPT ![t] = @ + 1]
  /\ Goto(t, IF main = "count" THEN "count_out" ELSE "claim_out")

TakeRange(t) ==
  /\ main \in {"count", "create"} /\ pc[t] = "idle" /\ ArenaHasRoom(pc)
  /\ \E r \in Ranges(pending) :
       /\ pending' = pending \ (r[1] .. r[2] - 1)
       /\ idx' = [idx EXCEPT ![t] = r[1]]
       /\ stop' = [stop EXCEPT ![t] = r[2]]
  /\ Goto(t, IF main = "count" THEN "count_out" ELSE "claim_out")
  /\ UNCHANGED <<input, offsets, placed, counters, main, o>>

EndRange(t) ==
  /\ pc[t] \in {"count_out", "claim_out"} /\ idx[t] = stop[t]
  /\ idx' = [idx EXCEPT ![t] = 0] /\ stop' = [stop EXCEPT ![t] = 0]
  /\ o' = [o EXCEPT ![t] = 0]
  /\ Goto(t, "idle")
  /\ UNCHANGED <<input, offsets, placed, counters, main, pending>>

\* The degree arrays have NB_NODES + 1 entries.
Entries == 0 .. NB_NODES

\* __sync_fetch_and_add(&(graph->out_edge_offsets[edges[i].src]),1);
CountOut(t) ==
  /\ pc[t] = "count_out" /\ idx[t] # stop[t] /\ Src(idx[t]) \in Entries
  /\ out_edge_offsets' = [out_edge_offsets EXCEPT ![Src(idx[t])] = @ + 1]
  /\ IF symmetric THEN Goto(t, "count_in") /\ UNCHANGED idx ELSE NextEdge(t)
  /\ UNCHANGED <<input, in_edge_offsets, placed, counters, main, pending, stop, o>>

CountIn(t) ==
  /\ pc[t] = "count_in" /\ Dst(idx[t]) \in Entries
  /\ in_edge_offsets' = [in_edge_offsets EXCEPT ![Dst(idx[t])] = @ + 1]
  /\ NextEdge(t)
  /\ UNCHANGED <<input, out_edge_offsets, placed, counters, main, pending, stop, o>>

\* The end of an edge was never read, or is no index of the degree array.
CountStrays(t) ==
  /\ \/ pc[t] = "count_out" /\ idx[t] # stop[t] /\ Src(idx[t]) \notin Entries
     \/ pc[t] = "count_in" /\ Dst(idx[t]) \notin Entries
  /\ main' = "undefined" /\ pending' = {} /\ pc' = [u \in Thread |-> "idle"]
  /\ UNCHANGED <<input, offsets, placed, counters, locals>>

\* (Mutant) the counter is read but not incremented.
NotCounted(n) == n

CountedUp(n) == (n + 1) % CounterModulus

\* o = __atomic_fetch_add(&(out_offsets[src]),1,__ATOMIC_RELAXED);
ClaimOut(t) ==
  /\ pc[t] = "claim_out" /\ idx[t] # stop[t]
  /\ o' = [o EXCEPT ![t] = out_offsets[Src(idx[t])]]
  /\ out_offsets' = [out_offsets EXCEPT ![Src(idx[t])] = CountedUp(@)]
  /\ Goto(t, "store_out")
  /\ UNCHANGED <<input, offsets, placed, in_offsets, main, pending, idx, stop>>

OutSlot(t) == out_edge_offsets[Src(idx[t])] + o[t]
InSlot(t) == in_edge_offsets[Dst(idx[t])] + o[t]

\* (Mutant) the wrong end of the edge is stored.
WrongEnd(t) == Src(idx[t])

OtherEnd(t) == Dst(idx[t])

\* graph->out_edges[graph->out_edge_offsets[src] + o] = edges[i].dst;
StoreOut(t) ==
  /\ pc[t] = "store_out"
  /\ out_edges' = [out_edges EXCEPT ![OutSlot(t)] = OtherEnd(t)]
  /\ IF symmetric THEN Goto(t, "claim_in") /\ UNCHANGED idx ELSE NextEdge(t)
  /\ UNCHANGED <<input, offsets, in_edges, counters, main, pending, stop, o>>

ClaimIn(t) ==
  /\ pc[t] = "claim_in"
  /\ o' = [o EXCEPT ![t] = in_offsets[Dst(idx[t])]]
  /\ in_offsets' = [in_offsets EXCEPT ![Dst(idx[t])] = CountedUp(@)]
  /\ Goto(t, "store_in")
  /\ UNCHANGED <<input, offsets, placed, out_offsets, main, pending, idx, stop>>

StoreIn(t) ==
  /\ pc[t] = "store_in"
  /\ in_edges' = [in_edges EXCEPT ![InSlot(t)] = Src(idx[t])]
  /\ NextEdge(t)
  /\ UNCHANGED <<input, offsets, out_edges, counters, main, pending, stop, o>>

-----------------------------------------------------------------------------
MainStep == Read \/ SumDegree \/ CreateJoin
BodyStep(t) ==
  \/ EndRange(t) \/ CountOut(t) \/ CountIn(t) \/ CountStrays(t)
  \/ ClaimOut(t) \/ StoreOut(t) \/ ClaimIn(t) \/ StoreIn(t)

Next ==
  \/ MainStep
  \/ ReadFails
  \/ Truncate
  \/ \E t \in Thread : TakeRange(t) \/ BodyStep(t)
  \/ Terminated

SafeSpec == Init /\ [][Next]_vars

\* Every running thread makes progress and every range is handed out; no read
\* has to fail.
Fairness ==
  /\ WF_vars(MainStep)
  /\ WF_vars(\E t \in Thread : TakeRange(t))
  /\ \A t \in Thread : WF_vars(BodyStep(t))

Spec == SafeSpec /\ Fairness

-----------------------------------------------------------------------------
(* Properties. *)

\* Type correctness.  edges and the offset arrays may hold anything until the
\* phase that fills them is over.
TypeOK ==
  /\ file \in Files /\ symmetric \in BOOLEAN /\ fpos \in Nat /\ cut \in BOOLEAN /\ cursor \in Nat /\ count \in Nat
  /\ edges \in [WordNr -> Nat \cup {Uninit}]
  /\ main \in {"read", "die", "count", "assert", "undefined", "create", "done"}
  /\ out_edge_offsets \in [0 .. NB_NODES -> Nat]
  /\ in_edge_offsets \in [0 .. NB_NODES -> Nat]
  /\ out_edges \in [EdgeNr -> Nat \cup {Uninit}]
  /\ in_edges \in [EdgeNr -> Node \cup {Uninit}]
  /\ out_offsets \in [Node -> 0 .. CounterModulus - 1 \cup {Uninit}]
  /\ in_offsets \in [Node -> 0 .. CounterModulus - 1 \cup {Uninit}]
  /\ pending \in SUBSET EdgeNr
  /\ pc \in [Thread -> {"idle", "count_out", "count_in", "claim_out",
                        "store_out", "claim_in", "store_in"}]
  /\ idx \in [Thread -> Nat] /\ stop \in [Thread -> Nat] /\ o \in [Thread -> Nat]

\* However read() cuts the file up, the loop leaves the whole file in memory,
\* unless the file was truncated.  Only then, or when an id is larger than -v,
\* is memory used that is not there.
ReadsWholeFile ==
  /\ main \in {"count", "create", "done"} => edges = file.words \/ cut
  /\ main = "undefined" => cut \/ \E k \in WordNr : file.words[k] > NB_NODES

\* sum_degree: "assert(prev == NB_EDGES)".
DegreesSumToEdges == main # "assert"

\* Two bodies never store to the same slot, no slot is stored to twice, and a
\* slot lies in the row of its vertex: the atomic counter makes claims
\* disjoint although claim and store are two steps.
SlotsAreExclusive ==
  \A t \in Thread :
    /\ pc[t] = "store_out" =>
         /\ OutSlot(t) < out_edge_offsets[Src(idx[t]) + 1]
         /\ out_edges[OutSlot(t)] = Uninit
         /\ \A u \in Thread \ {t} : pc[u] = "store_out" => OutSlot(t) # OutSlot(u)
    /\ pc[t] = "store_in" =>
         /\ InSlot(t) < in_edge_offsets[Dst(idx[t]) + 1]
         /\ in_edges[InSlot(t)] = Uninit
         /\ \A u \in Thread \ {t} : pc[u] = "store_in" => InSlot(t) # InSlot(u)

\* The row of v in the offsets f holds w as often as the file holds the edge.
RowsHold(f, e, h) ==
  \A v \in Node, w \in Entries :
    Cardinality({k \in f[v] .. f[v + 1] - 1 : e[k] = w})
      = Cardinality({i \in EdgeNr : file.words[2 * i + h] = v /\ file.words[2 * i + 1 - h] = w})

Ends(h) == {file.words[2 * i + h] : i \in EdgeNr}

LoadedGraph ==
  [nb_edges |-> NB_EDGES,
   out_edge_offsets |-> out_edge_offsets, out_edges |-> out_edges,
   in_edge_offsets |-> in_edge_offsets, in_edges |-> in_edges]

\* create_graph returns the multigraph of the file, in whatever order the
\* bodies placed the edges, and with -s the form the traversals rely on.  A
\* file with an edge from vertex -v, or with -s to it, is not returned: the
\* assertion stops it.  Without -s nobody looks at the targets.
GraphIsFile ==
  main = "done" /\ ~cut =>
    /\ Ends(0) \subseteq Node
    /\ RowsHold(out_edge_offsets, out_edges, 0)
    /\ Ends(1) \subseteq Node => IsCsr(out_edge_offsets, out_edges, NB_EDGES)
    /\ symmetric => RowsHold(in_edge_offsets, in_edges, 1) /\ IsGraph(LoadedGraph)

\* create_graph returns, also when the file ends early, unless a read fails, an
\* assertion stops it or it uses memory that is not there.
Termination == <>(main \in {"done", "die", "assert", "undefined"})
=============================================================================

--------------------------- MODULE BfsModesProofs ---------------------------
(***************************************************************************)
(* Proofs about bfs_pull and bfs_pushpull, for every graph, number of      *)
(* vertices and number of threads.  Five layers, each inductive with those *)
(* before it: the control state and the flags of the pull loop (IInv), the *)
(* claims of the push loop (PushInv), the sums of its heuristic            *)
(* (CountInv), what the search has found (SearchInv), and the step         *)
(* simulation of BfsLevels (LevelStep).                                    *)
(***************************************************************************)
EXTENDS BfsModes, SumLemmas, SequenceTheorems

PushLabels == {"push_vertex", "push_edge", "push_back"}
PullLabels == {"vertex", "edge"}

Typed ==
  /\ main \in {"head", "push", "mark", "sweep", "parallel", "done", "fault"}
  /\ pc \in [Thread -> {"idle"} \cup PushLabels \cup PullLabels]
  /\ idx \in [Thread -> Nat] /\ stop \in [Thread -> Nat]
  /\ pending \in SUBSET Nat
  /\ (\E S : frontier \in Seq(S)) /\ (\E S : frontier_next \in Seq(S))
  /\ in_frontier_next \in [Node -> BOOLEAN]
  /\ cont \in BOOLEAN /\ local_cont \in [Thread -> BOOLEAN]

\* Bodies of a loop run while main waits for it; one of the pull loop is at a
\* vertex, and only such a body has found anything.
Bodies ==
  /\ main = "parallel" => pending \subseteq Node
  /\ \A t \in Thread :
       /\ pc[t] \in PushLabels => main = "push"
       /\ pc[t] \in PullLabels => main = "parallel" /\ stop[t] <= NB_NODES
       /\ pc[t] = "edge" => idx[t] < stop[t]
       /\ local_cont[t] => main = "fault" \/ pc[t] \in PullLabels

\* Outside the parallel_for the next frontier is empty; inside, it is not as
\* soon as some body found a vertex, and the news is in cont or on its way.
News ==
  zeroed =>
    /\ main \in {"head", "push", "mark", "sweep"} => InFrontierNext = {}
    /\ main = "parallel" => (cont \/ (\E t \in Thread : local_cont[t]) <=> InFrontierNext # {})

IInv == Typed /\ Bodies /\ News

-----------------------------------------------------------------------------
\* The bounds of a range are numbers, and its indices were to be given out.
LEMMA RangeBounds ==
  ASSUME NEW S \in SUBSET Nat, NEW r \in Ranges(S)
  PROVE  /\ r[1] \in Nat /\ r[2] \in Nat /\ r[1] < r[2]
         /\ \E k \in S : r[2] = k + 1
<1>1. r[1] \in S /\ r[2] \in {k + 1 : k \in S} /\ r[1] < r[2]
  BY DEF Ranges
<1>2. PICK k \in S : r[2] = k + 1
  BY <1>1
<1>3. k \in Nat /\ r[1] \in Nat
  BY <1>1
<1> QED BY <1>1, <1>2, <1>3

\* The layers hold initially.
LEMMA InitInv == Init => IInv
<1> SUFFICES ASSUME Init PROVE IInv
  OBVIOUS
<1>1. in_frontier_next \in [Node -> BOOLEAN] /\ (zeroed => InFrontierNext = {})
  <2>1. in_frontier_next \in MallocArrays
    BY ONLY Init DEF Init, MallocArrays
  <2> QED BY ONLY <2>1, StrayAssumption DEF MallocArrays, InFrontierNext
<1>2. main \in {"sweep", "head"}
  BY DEF Init
<1>3. (\E S : frontier \in Seq(S)) /\ (\E S : frontier_next \in Seq(S))
  <2>1. <<>> \in Seq({source}) /\ <<source>> \in Seq({source})
    BY EmptySeq
  <2> QED BY <2>1 DEF Init, PushInit
<1>4. Typed
  BY <1>1, <1>2, <1>3 DEF Init, Typed
<1>5. Bodies /\ News
  BY <1>1, <1>2 DEF Init, Bodies, News, PushLabels, PullLabels
<1> QED BY <1>4, <1>5 DEF IInv

-----------------------------------------------------------------------------
(* The push loop leaves the flags and arrays of the pull loop alone. *)

\* A step of a push body.
LEMMA PushStepInv ==
  ASSUME IInv, NEW t \in Thread, main = "push", UNCHANGED <<load, arrays, main>>,
         pending' \subseteq pending, pc[t] \in PushLabels \cup {"idle"},
         NEW label \in PushLabels \cup {"idle"}, pc' = [pc EXCEPT ![t] = label],
         idx' \in [Thread -> Nat], stop' \in [Thread -> Nat],
         frontier' = frontier, \E S : frontier_next' \in Seq(S)
  PROVE  IInv'
<1> USE DEF IInv, arrays, load
<1>1. Typed'
  BY DEF Typed
<1>2. \A u \in Thread : pc'[u] \notin PullLabels /\ ~local_cont[u]
  BY DEF Bodies, Typed, PushLabels, PullLabels
<1>3. Bodies'
  BY <1>2 DEF Bodies, PullLabels
<1>4. News'
  BY DEF News, InFrontierNext
<1> QED BY <1>1, <1>3, <1>4

\* A body of the push loop starts.
LEMMA PushTakeInv == ASSUME IInv, NEW t \in Thread, PushTakeRange(t) PROVE IInv'
<1> USE DEF IInv
<1>1. PICK r \in Ranges(pending) : /\ pending' = pending \ (r[1] .. r[2] - 1)
                                   /\ idx' = [idx EXCEPT ![t] = r[1]]
                                   /\ stop' = [stop EXCEPT ![t] = r[2]]
  BY DEF PushTakeRange
<1>2. r[1] \in Nat /\ r[2] \in Nat
  BY RangeBounds DEF Typed
<1>3. idx' \in [Thread -> Nat] /\ stop' \in [Thread -> Nat]
  BY <1>1, <1>2 DEF Typed
<1>4. /\ main = "push" /\ pc[t] = "idle" /\ pc' = [pc EXCEPT ![t] = "push_vertex"]
      /\ UNCHANGED <<load, arrays, main, pushVars>> /\ pending' \subseteq pending
  BY <1>1 DEF PushTakeRange, Goto
<1>5. frontier' = frontier /\ \E S : frontier_next' \in Seq(S)
  BY <1>4 DEF Typed, pushVars, pushShared
<1> QED BY <1>3, <1>4, <1>5, PushStepInv DEF PushLabels

\* A body of the push loop takes a step.
LEMMA PushBodyInv == ASSUME IInv, NEW t \in Thread, PushBody(t) PROVE IInv'
<1> USE DEF IInv
<1>1. /\ UNCHANGED <<load, arrays, main, pending>> /\ pc[t] \in PushLabels
      /\ \E label \in PushLabels \cup {"idle"} : pc' = [pc EXCEPT ![t] = label]
  <2>1. CASE PushCas(t)
    <3>1. UNCHANGED <<load, arrays, main, pending>> /\ pc[t] = "push_edge"
          /\ (pc' = [pc EXCEPT ![t] = "push_back"] \/ pc' = pc)
      BY <2>1 DEF PushCas, Goto
    <3>2. pc = [pc EXCEPT ![t] = "push_edge"]
      BY <3>1 DEF Typed
    <3> QED BY <3>1, <3>2 DEF PushLabels
  <2>2. CASE PushVertex(t) \/ PushBack(t) \/ PushEndVertex(t) \/ PushEndRange(t)
    BY <2>2 DEF PushVertex, PushBack, PushEndVertex, PushEndRange, Goto, PushLabels
  <2> QED BY <2>1, <2>2 DEF PushBody
<1>2. idx' \in [Thread -> Nat] /\ stop' \in [Thread -> Nat]
  <2>1. \/ UNCHANGED <<idx, stop>>
        \/ idx' = [idx EXCEPT ![t] = @ + 1] /\ stop' = stop
        \/ idx' = [idx EXCEPT ![t] = 0] /\ stop' = [stop EXCEPT ![t] = 0]
    BY DEF PushBody, PushVertex, PushCas, PushBack, PushEndVertex, PushEndRange
  <2> QED BY <2>1 DEF Typed
<1>3. main = "push"
  BY <1>1 DEF Bodies
<1>4. frontier' = frontier /\ \E S : frontier_next' \in Seq(S)
  <2>1. CASE PushBack(t)
    <3>1. PICK S : frontier_next \in Seq(S)
      BY DEF Typed
    <3>2. frontier_next \in Seq(S \cup {dst[t]})
      BY <3>1
    <3>3. Append(frontier_next, dst[t]) \in Seq(S \cup {dst[t]})
      BY <3>2, AppendProperties
    <3> QED BY <2>1, <3>3 DEF PushBack
  <2>2. CASE PushVertex(t) \/ PushCas(t) \/ PushEndVertex(t) \/ PushEndRange(t)
    <3>1. UNCHANGED <<frontier, frontier_next>>
      BY <2>2 DEF PushVertex, PushCas, PushEndVertex, PushEndRange, pushVars, pushShared
    <3> QED BY <3>1 DEF Typed
  <2> QED BY <2>1, <2>2 DEF PushBody
<1> QED BY <1>1, <1>2, <1>3, <1>4, PushStepInv

\* The main thread, up to the pull loop.
LEMMA PushMainInv == ASSUME IInv, PushMain PROVE IInv'
<1> USE DEF IInv
<1>1. CASE PushHead
  <2>1. /\ UNCHANGED <<load, arrays, pc, idx, stop>> /\ main = "head"
        /\ main' \in {"mark", "push"} /\ UNCHANGED <<frontier, frontier_next>>
    BY <1>1 DEF PushHead
  <2>2. Len(frontier) \in Nat
    BY LenProperties DEF Typed
  <2>3. pending' \in SUBSET Nat
    <3>1. pending' = pending \/ pending' = 0 .. Len(frontier) - 1
      BY <1>1 DEF PushHead
    <3>2. 0 .. Len(frontier) - 1 \in SUBSET Nat /\ pending \in SUBSET Nat
      BY <2>2 DEF Typed
    <3> QED BY <3>1, <3>2
  <2>4. Typed'
    BY <2>1, <2>3 DEF Typed, arrays
  <2>5. Bodies'
    BY <2>1 DEF Bodies, arrays, PushLabels, PullLabels
  <2>6. News'
    BY <2>1 DEF News, InFrontierNext, arrays, load
  <2> QED BY <2>4, <2>5, <2>6
<1>2. CASE PushJoin
  <2>1. /\ UNCHANGED <<load, arrays, pending, pc, idx, stop>> /\ main = "push" /\ main' = "head"
        /\ \A t \in Thread : pc[t] = "idle"
        /\ frontier' = frontier_next /\ frontier_next' = <<>>
    BY <1>2 DEF PushJoin, ParallelForEnds
  <2>2. <<>> \in Seq({})
    BY EmptySeq
  <2>3. Typed'
    BY <2>2, <2>1 DEF Typed, arrays
  <2>4. Bodies'
    BY <2>1 DEF Bodies, arrays, PushLabels, PullLabels
  <2>5. News'
    BY <2>1 DEF News, InFrontierNext, arrays, load
  <2> QED BY <2>3, <2>4, <2>5
<1>3. CASE MarkFrontier
  <2>1. /\ UNCHANGED <<cont, pending, pc, idx, stop, local_cont, frontier, frontier_next>>
        /\ main = "mark" /\ main' = "sweep" /\ in_frontier_next' \in MallocArrays'
    BY <1>3 DEF MarkFrontier, sweepLocals, pushVars, pushShared
  <2>2. in_frontier_next' \in [Node -> BOOLEAN] /\ (zeroed' => (InFrontierNext = {})')
    BY <2>1, StrayAssumption DEF MallocArrays, InFrontierNext
  <2>3. Typed'
    BY <2>1, <2>2 DEF Typed
  <2>4. Bodies'
    BY <2>1 DEF Bodies, PushLabels, PullLabels
  <2>5. News'
    BY <2>1, <2>2 DEF News
  <2> QED BY <2>3, <2>4, <2>5
<1> QED BY <1>1, <1>2, <1>3 DEF PushMain

-----------------------------------------------------------------------------
(* The pull loop. *)

\* The main thread in the pull loop.
LEMMA SweepMainInv == ASSUME IInv, SweepMain, UNCHANGED pushVars PROVE IInv'
<1> USE DEF IInv, pushVars, pushShared
<1>1. CASE SweepLaunch
  <2>1. /\ UNCHANGED <<load, visited, in_frontier, in_frontier_next, pc, sweepLocals>>
        /\ main = "sweep" /\ main' = "parallel" /\ cont' = FALSE /\ pending' = Node
    BY <1>1 DEF SweepLaunch, ContReset, Indices
  <2>2. Node \in SUBSET Nat
    BY NodesAssumption DEF Node
  <2>3. Typed'
    BY <2>2, <2>1 DEF Typed, sweepLocals
  <2>4. \A t \in Thread : ~local_cont[t] /\ pc[t] = "idle"
    BY <2>1 DEF Bodies, Typed
  <2>5. Bodies'
    BY <2>1, <2>4 DEF Bodies, sweepLocals, PushLabels, PullLabels
  <2>6. News'
    BY <2>1, <2>4 DEF News, InFrontierNext, sweepLocals, load
  <2> QED BY <2>3, <2>5, <2>6
<1>2. CASE SweepEnd
  <2>1. /\ UNCHANGED <<load, cont, pending, pc, sweepLocals>>
        /\ main = "parallel" /\ main' \in {"sweep", "done"}
        /\ in_frontier_next' = [v \in Node |-> FALSE]
        /\ \A t \in Thread : pc[t] = "idle"
    BY <1>2 DEF SweepEnd, ParallelForEnds, Cleared
  <2>2. Typed'
    BY <2>1 DEF Typed, sweepLocals
  <2>3. Bodies'
    BY <2>1 DEF Bodies, sweepLocals, PushLabels, PullLabels
  <2>4. News'
    BY <2>1 DEF News, InFrontierNext
  <2> QED BY <2>2, <2>3, <2>4
<1> QED BY <1>1, <1>2 DEF SweepMain

\* A body of the pull loop starts.
LEMMA TakeInv ==
  ASSUME IInv, NEW t \in Thread, TakeRange(t), UNCHANGED pushVars PROVE IInv'
<1> USE DEF IInv, pushVars, pushShared
<1>1. PICK r \in Ranges(pending) : /\ pending' = pending \ (r[1] .. r[2] - 1)
                                   /\ idx' = [idx EXCEPT ![t] = r[1]]
                                   /\ stop' = [stop EXCEPT ![t] = r[2]]
  BY DEF TakeRange
<1>2. /\ main = "parallel" /\ pc[t] = "idle" /\ UNCHANGED <<load, sweepShared, main>>
      /\ local_cont' = [local_cont EXCEPT ![t] = FALSE]
      /\ pc' = [pc EXCEPT ![t] = "vertex"]
  BY DEF TakeRange, Goto
<1>3. r[1] \in Nat /\ r[2] \in Nat /\ \E k \in pending : r[2] = k + 1
  BY RangeBounds DEF Typed
<1>4. r[2] <= NB_NODES
  BY <1>2, <1>3, NodesAssumption DEF Bodies, Node
<1>5. Typed'
  BY <1>1, <1>2, <1>3 DEF Typed, sweepShared, PullLabels
<1>6. local_cont' = local_cont
  BY <1>2 DEF Bodies, Typed, PullLabels
<1>7. Bodies'
  BY <1>1, <1>2, <1>4, <1>6 DEF Bodies, Typed, PushLabels, PullLabels
<1>8. News'
  BY <1>2, <1>6 DEF News, InFrontierNext, sweepShared, load
<1> QED BY <1>5, <1>7, <1>8

\* A body goes on without having found anything.
LEMMA MissInv ==
  ASSUME IInv, NEW t \in Thread, pc[t] \in PullLabels,
         NEW n \in Nat, idx' = [idx EXCEPT ![t] = n],
         NEW label \in PullLabels, pc' = [pc EXCEPT ![t] = label],
         label = "edge" => n < stop[t],
         UNCHANGED <<load, in_frontier_next, cont, main, pending, stop, local_cont>>,
         UNCHANGED <<frontier, frontier_next>>
  PROVE  IInv'
<1> USE DEF IInv
<1>1. Typed'
  BY DEF Typed
<1>2. Bodies'
  BY DEF Bodies, Typed, PushLabels, PullLabels
<1>3. News'
  BY DEF News, InFrontierNext, load
<1> QED BY <1>1, <1>2, <1>3

\* A body finds a vertex: it is in the next frontier, and the body knows.
LEMMA FindInv ==
  ASSUME IInv, NEW t \in Thread, pc[t] \in PullLabels, idx[t] < stop[t], Find(t),
         UNCHANGED <<load, in_frontier, cont, main, pending, stop>>,
         UNCHANGED <<frontier, frontier_next>>
  PROVE  IInv'
<1> USE DEF IInv
<1>0. /\ main = "parallel" /\ idx[t] \in Node
  BY NodesAssumption DEF Bodies, Typed, Node
<1>1. /\ local_cont' = [local_cont EXCEPT ![t] = TRUE]
      /\ in_frontier_next' = [in_frontier_next EXCEPT ![idx[t]] = TRUE]
      /\ idx' = [idx EXCEPT ![t] = @ + 1] /\ pc' = [pc EXCEPT ![t] = "vertex"]
  BY DEF Find, Goto
<1>2. Typed'
  <2>1. in_frontier_next' \in [Node -> BOOLEAN] /\ local_cont' \in [Thread -> BOOLEAN]
    BY <1>1 DEF Typed
  <2>2. idx' \in [Thread -> Nat]
    BY <1>1 DEF Typed
  <2>3. pc' \in [Thread -> {"idle"} \cup PushLabels \cup PullLabels]
    BY <1>1 DEF Typed, PullLabels
  <2> QED BY <2>1, <2>2, <2>3 DEF Typed
<1>3. Bodies'
  BY <1>1 DEF Bodies, Typed, PushLabels, PullLabels
<1>4. idx[t] \in InFrontierNext' /\ local_cont'[t]
  BY <1>0, <1>1 DEF Typed, InFrontierNext
<1>5. News'
  BY <1>0, <1>4 DEF News
<1> QED BY <1>2, <1>3, <1>5

\* A body of the pull loop takes a step.
LEMMA SweepBodyInv ==
  ASSUME IInv, NEW t \in Thread, SweepBody(t), UNCHANGED pushVars PROVE IInv'
<1> USE DEF IInv, pushVars, pushShared
<1>0. /\ idx[t] \in Nat /\ stop[t] \in Nat
      /\ idx = [idx EXCEPT ![t] = idx[t]] /\ pc = [pc EXCEPT ![t] = pc[t]]
  BY DEF Typed
<1>1. CASE ScanVertex(t)
  <2>1. /\ UNCHANGED <<load, in_frontier_next, cont, main, pending, stop, local_cont>>
        /\ pc[t] = "vertex" /\ idx[t] < stop[t]
        /\ \/ idx' = [idx EXCEPT ![t] = @ + 1] /\ pc' = pc
           \/ idx' = idx /\ pc' = [pc EXCEPT ![t] = "edge"]
    BY <1>1 DEF ScanVertex, Goto, sweepShared
  <2>2. CASE idx' = [idx EXCEPT ![t] = @ + 1] /\ pc' = pc
    <3>1. idx' = [idx EXCEPT ![t] = idx[t] + 1] /\ pc' = [pc EXCEPT ![t] = "vertex"]
      BY <1>0, <2>1, <2>2
    <3>2. idx[t] + 1 \in Nat
      BY <1>0
    <3> QED BY <2>1, <3>1, <3>2, MissInv DEF PullLabels
  <2>3. CASE idx' = idx /\ pc' = [pc EXCEPT ![t] = "edge"]
    BY <1>0, <2>1, <2>3, MissInv DEF PullLabels
  <2> QED BY <2>1, <2>2, <2>3
<1>2. CASE ScanUndefined(t)
  <2>1. /\ UNCHANGED <<load, in_frontier, cont, stop>> /\ pc[t] = "vertex" /\ idx[t] < stop[t]
        /\ \/ Find(t) /\ UNCHANGED <<main, pending>>
           \/ /\ idx' = [idx EXCEPT ![t] = @ + 1]
              /\ UNCHANGED <<main, pending, pc, local_cont, in_frontier_next>>
           \/ /\ main' = "fault" /\ pending' = {} /\ pc' = [u \in Thread |-> "idle"]
              /\ UNCHANGED <<idx, local_cont, in_frontier_next>>
    BY <1>2 DEF ScanUndefined
  <2>2. CASE Find(t) /\ UNCHANGED <<main, pending>>
    BY <2>1, <2>2, FindInv DEF PullLabels
  <2>3. CASE /\ idx' = [idx EXCEPT ![t] = @ + 1]
             /\ UNCHANGED <<main, pending, pc, local_cont, in_frontier_next>>
    <3>1. idx' = [idx EXCEPT ![t] = idx[t] + 1] /\ pc' = [pc EXCEPT ![t] = "vertex"]
      BY <1>0, <2>1, <2>3
    <3>2. idx[t] + 1 \in Nat
      BY <1>0
    <3> QED BY <2>1, <2>3, <3>1, <3>2, MissInv DEF PullLabels
  <2>4. CASE /\ main' = "fault" /\ pending' = {} /\ pc' = [u \in Thread |-> "idle"]
             /\ UNCHANGED <<idx, local_cont, in_frontier_next>>
    <3>1. Typed'
      BY <2>1, <2>4 DEF Typed
    <3>2. Bodies' /\ News'
      BY <2>1, <2>4 DEF Bodies, News, PushLabels, PullLabels
    <3> QED BY <3>1, <3>2
  <2> QED BY <2>1, <2>2, <2>3, <2>4
<1>3. CASE ScanEdge(t)
  <2>1. /\ UNCHANGED <<load, in_frontier, cont, main, pending, stop>>
        /\ pc[t] = "edge" /\ idx[t] < stop[t]
        /\ \/ Find(t)
           \/ UNCHANGED <<local_cont, in_frontier_next, idx, pc>>
    BY <1>3 DEF ScanEdge, Bodies
  <2>2. CASE Find(t)
    BY <2>1, <2>2, FindInv DEF PullLabels
  <2>3. CASE UNCHANGED <<local_cont, in_frontier_next, idx, pc>>
    <3>1. idx' = [idx EXCEPT ![t] = idx[t]] /\ pc' = [pc EXCEPT ![t] = "edge"]
      BY <1>0, <2>1, <2>3
    <3> QED BY <1>0, <2>1, <2>3, <3>1, MissInv DEF PullLabels
  <2> QED BY <2>1, <2>2, <2>3
<1>4. CASE EndScan(t)
  <2>1. /\ UNCHANGED <<load, in_frontier_next, cont, main, pending, stop, local_cont>>
        /\ pc[t] = "edge" /\ idx' = [idx EXCEPT ![t] = idx[t] + 1]
        /\ pc' = [pc EXCEPT ![t] = "vertex"]
    BY <1>4 DEF EndScan, Goto, sweepShared
  <2>2. idx[t] + 1 \in Nat
    BY <1>0
  <2> QED BY <2>1, <2>2, MissInv DEF PullLabels
<1>5. CASE EndRange(t)
  <2>1. /\ UNCHANGED <<load, in_frontier_next, main, pending>> /\ pc[t] = "vertex"
        /\ cont' = (local_cont[t] \/ cont)
        /\ idx' = [idx EXCEPT ![t] = 0] /\ stop' = [stop EXCEPT ![t] = 0]
        /\ local_cont' = [local_cont EXCEPT ![t] = FALSE]
        /\ pc' = [pc EXCEPT ![t] = "idle"]
    BY <1>5 DEF EndRange, ContAfter, Goto
  <2>2. Typed'
    BY <2>1 DEF Typed
  <2>3. Bodies'
    BY <2>1 DEF Bodies, Typed, PushLabels, PullLabels
  <2>4. cont' \/ (\E u \in Thread : local_cont'[u]) <=> cont \/ (\E u \in Thread : local_cont[u])
    BY <2>1 DEF Typed
  <2>5. News'
    BY <2>1, <2>4 DEF News, InFrontierNext, load
  <2> QED BY <2>2, <2>3, <2>5
<1> QED BY <1>1, <1>2, <1>3, <1>4, <1>5 DEF SweepBody

-----------------------------------------------------------------------------
\* A step that changes nothing.
LEMMA StutterInv == ASSUME IInv, UNCHANGED vars PROVE IInv'
BY DEF IInv, Typed, Bodies, News, InFrontierNext, vars, sweepVars, load, sweepShared, sweepLocals,
   pushVars, pushShared

\* IInv is inductive.
LEMMA NextInv == ASSUME IInv, [Next]_vars PROVE IInv'
<1>1. CASE MainStep
  BY <1>1, PushMainInv, SweepMainInv DEF MainStep
<1>2. ASSUME NEW t \in Thread, Take(t) \/ BodyStep(t) PROVE IInv'
  BY <1>2, PushTakeInv, TakeInv, PushBodyInv, SweepBodyInv DEF Take, BodyStep
<1>3. CASE UNCHANGED vars
  BY <1>3, StutterInv
<1> QED BY <1>1, <1>2, <1>3 DEF Next, Terminated

\* When the parallel_for of a sweep returns, cont is set exactly if some body
\* added a vertex to the next frontier: a body that found nothing cannot undo
\* what another one reported, so the loop never stops early.
THEOREM SweepsNoticeFinds == SafeSpec => []ContIsExact
<1>1. ASSUME IInv PROVE ContIsExact
  BY <1>1 DEF IInv, Bodies, News, ContIsExact, ParallelForEnds, PullLabels
<1>2. IInv /\ [Next]_vars => IInv'
  BY NextInv
<1> QED BY <1>1, <1>2, InitInv, PTL DEF SafeSpec

-----------------------------------------------------------------------------
(* The push loop: what its bodies are at, and who may claim a vertex. *)

AtEdge(t) == pc[t] \in {"push_edge", "push_back"}

\* What TypeOK says besides Typed.
Types ==
  /\ opt \in {1, 2} /\ IsGraph(graph) /\ zeroed \in BOOLEAN /\ symmetric \in BOOLEAN
  /\ visited \in [Node -> {0, 1}] /\ in_frontier \in [Node -> BOOLEAN]
  /\ pending \in SUBSET Node /\ beg \in [Thread -> Nat]
  /\ PushTypeOK

\* The indices of a push loop are those of the frontier; a body that is at an
\* edge is at one of the vertex its index selects.
Rows ==
  /\ main = "push" => pending \subseteq 0 .. Len(frontier) - 1
  /\ \A t \in Thread :
       /\ pc[t] \in PushLabels => stop[t] <= Len(frontier)
       /\ AtEdge(t) => /\ idx[t] < stop[t] /\ src[t] = frontier[idx[t] + 1]
                       /\ graph.out_edge_offsets[src[t]] <= beg[t]
       /\ pc[t] = "push_back" => /\ beg[t] < graph.out_edge_offsets[src[t] + 1]
                                 /\ dst[t] = graph.out_edges[beg[t]]

\* No vertex is twice in a frontier, in two of them, or with two bodies that
\* are about to append it.
Claims ==
  /\ IsInjective(frontier) /\ IsInjective(frontier_next)
  /\ main # "push" => frontier_next = <<>>
  /\ source \in Visited /\ source \notin Claimed
  /\ FrontierSet \subseteq Visited
  /\ Claimed \subseteq Visited /\ Claimed \cap FrontierSet = {}
  /\ \A t \in Thread : pc[t] = "push_back" =>
       /\ dst[t] \notin ToSet(frontier_next)
       /\ \A u \in Thread : pc[u] = "push_back" /\ dst[u] = dst[t] => u = t

PushInv == Types /\ Rows /\ Claims

\* Sequences of vertices.
LEMMA FrontierFacts ==
  ASSUME NEW s \in Seq(Node)
  PROVE  /\ Len(s) \in Nat /\ DOMAIN s = 1 .. Len(s) /\ \A i \in 1 .. Len(s) : s[i] \in Node
         /\ ToSet(s) \subseteq Node /\ \A k \in 0 .. Len(s) - 1 : s[k + 1] \in ToSet(s)
         /\ ToSet(s) = {s[k + 1] : k \in 0 .. Len(s) - 1}
<1>1. Len(s) \in Nat /\ DOMAIN s = 1 .. Len(s)
  BY LenProperties
<1>2. \A i \in 1 .. Len(s) : s[i] \in Node
  BY ElementOfSeq
<1>3. \A k \in 0 .. Len(s) - 1 : k + 1 \in 1 .. Len(s)
  BY <1>1
<1>4. \A i \in 1 .. Len(s) : i - 1 \in 0 .. Len(s) - 1 /\ i = (i - 1) + 1
  BY <1>1
<1>5. ToSet(s) = {s[k + 1] : k \in 0 .. Len(s) - 1}
  BY <1>1, <1>3, <1>4 DEF ToSet
<1> QED BY <1>1, <1>2, <1>3, <1>5 DEF ToSet

\* Appending a vertex.
LEMMA AppendFacts ==
  ASSUME NEW s \in Seq(Node), NEW x \in Node
  PROVE  /\ Append(s, x) \in Seq(Node) /\ ToSet(Append(s, x)) = ToSet(s) \cup {x}
         /\ IsInjective(s) /\ x \notin ToSet(s) => IsInjective(Append(s, x))
<1> DEFINE a == Append(s, x)
           l == Len(s)
<1>1. /\ a \in Seq(Node) /\ DOMAIN s = 1 .. l /\ DOMAIN a = 1 .. l + 1 /\ l \in Nat
      /\ \A i \in 1 .. l : a[i] = s[i] /\ s[i] \in Node
      /\ a[l + 1] = x
  BY AppendProperties, LenProperties, FrontierFacts
<1> HIDE DEF a, l
<1>2. 1 .. l + 1 = (1 .. l) \cup {l + 1}
  BY <1>1
<1>3. ToSet(a) = ToSet(s) \cup {x}
  BY <1>1, <1>2 DEF ToSet
<1>4. ASSUME IsInjective(s), x \notin ToSet(s) PROVE IsInjective(a)
  BY <1>1, <1>2, <1>4 DEF IsInjective, ToSet
<1> QED BY <1>1, <1>3, <1>4 DEF a

\* A sequence without repetitions is as long as the set of its elements.
LEMMA FrontierFits ==
  ASSUME NEW s \in Seq(Node), IsInjective(s)
  PROVE  Len(s) <= NB_NODES /\ Cardinality(ToSet(s)) = Len(s)
<1>1. Len(s) \in Nat /\ DOMAIN s = 1 .. Len(s) /\ s \in [1 .. Len(s) -> ToSet(s)] /\ ToSet(s) \subseteq Node
  <2>1. Len(s) \in Nat /\ DOMAIN s = 1 .. Len(s) /\ s \in [1 .. Len(s) -> Node]
    BY LenProperties
  <2> QED BY <2>1, FrontierFacts DEF ToSet
<1>2. IsFiniteSet(Node) /\ Cardinality(Node) = NB_NODES
  BY NodesAssumption, FS_Interval DEF Node
<1>3. IsFiniteSet(ToSet(s)) /\ Cardinality(ToSet(s)) <= NB_NODES
  BY <1>1, <1>2, FS_Subset
<1>4. s \in Injection(1 .. Len(s), ToSet(s)) /\ s \in Surjection(1 .. Len(s), ToSet(s))
  BY <1>1 DEF Injection, Surjection, IsInjective, ToSet
<1>5. Cardinality(1 .. Len(s)) = Cardinality(ToSet(s))
  BY <1>3, <1>4, FS_Injection
<1>6. Cardinality(1 .. Len(s)) = Len(s)
  <2>1. \A n \in Nat : Cardinality(1 .. n) = n
    BY FS_Interval
  <2> QED BY ONLY <1>1, <2>1
<1> QED BY <1>3, <1>5, <1>6

\* The row of a vertex.
LEMMA RowFacts ==
  ASSUME IsGraph(graph), NEW v \in Node
  PROVE  /\ graph.out_edge_offsets[v] \in Nat /\ graph.out_edge_offsets[v + 1] \in Nat
         /\ graph.in_edge_offsets[v] \in Nat /\ graph.in_edge_offsets[v + 1] \in Nat
         /\ OutDegree(v) \in Nat
         /\ \A k \in graph.out_edge_offsets[v] .. graph.out_edge_offsets[v + 1] - 1 :
              graph.out_edges[k] \in Node /\ graph.out_edges[k] \in OutNeighbours(graph, v)
         /\ \A k \in graph.in_edge_offsets[v] .. graph.in_edge_offsets[v + 1] - 1 :
              graph.in_edges[k] \in Node /\ graph.in_edges[k] \in InNeighbours(graph, v)
<1>1. v \in 0 .. NB_NODES /\ v + 1 \in 0 .. NB_NODES
  BY NodesAssumption DEF Node
<1>2. ASSUME NEW f, NEW e, IsCsr(f, e, graph.nb_edges), graph.nb_edges \in Nat
      PROVE  /\ f[v] \in Nat /\ f[v + 1] \in Nat /\ f[v] <= f[v + 1]
             /\ \A k \in f[v] .. f[v + 1] - 1 : e[k] \in Node
  <2>1. f[v] \in 0 .. graph.nb_edges /\ f[v + 1] \in 0 .. graph.nb_edges /\ f[v] <= f[v + 1]
        /\ e \in [0 .. graph.nb_edges - 1 -> Node]
    BY <1>1, <1>2 DEF IsCsr
  <2>2. \A k \in f[v] .. f[v + 1] - 1 : k \in 0 .. graph.nb_edges - 1
    BY <1>2, <2>1
  <2> QED BY <1>2, <2>1, <2>2
<1>3. graph.nb_edges \in Nat /\ IsCsr(graph.out_edge_offsets, graph.out_edges, graph.nb_edges)
      /\ IsCsr(graph.in_edge_offsets, graph.in_edges, graph.nb_edges)
  BY DEF IsGraph
<1> QED BY <1>2, <1>3 DEF OutDegree, OutNeighbours, InNeighbours

-----------------------------------------------------------------------------
\* Initially only the source is visited, and nothing is claimed.
LEMMA PushInvInit == Init => PushInv
<1> SUFFICES ASSUME Init PROVE PushInv
  OBVIOUS
<1>1. IsGraph(graph) /\ visited \in [Node -> {0, 1}] /\ source \in Node /\ 0 \in Node
  <2>1. graph \in Graphs /\ visited = [v \in Node |-> IF v = source THEN 1 ELSE 0]
    BY DEF Init
  <2>2. 0 \in Node
    BY NodesAssumption DEF Node
  <2> QED BY <2>1, <2>2, GraphsAssumption, SourceAssumption
<1>2. in_frontier \in [Node -> BOOLEAN]
  <2>1. \/ \E mem \in MallocArrays : in_frontier = [mem EXCEPT ![source] = TRUE]
        \/ in_frontier = [v \in Node |-> FALSE]
    BY ONLY Init DEF Init
  <2>2. MallocArrays \subseteq [Node -> BOOLEAN]
    BY ONLY StrayAssumption DEF MallocArrays
  <2> QED BY ONLY <2>1, <2>2
<1>3. (frontier = <<>> \/ frontier = <<source>>) /\ frontier_next = <<>> /\ pending = {}
      /\ main # "push" /\ \A t \in Thread : pc[t] = "idle"
  BY DEF Init, PushInit
<1>4. frontier \in Seq(Node) /\ frontier_next \in Seq(Node) /\ IsInjective(frontier)
      /\ IsInjective(frontier_next) /\ FrontierSet \subseteq {source}
  <2>1. <<>> \in Seq(Node) /\ <<source>> \in Seq(Node)
    BY <1>1, EmptySeq
  <2>2. IsInjective(<<>>) /\ ToSet(<<>>) = {}
    BY DEF IsInjective, ToSet
  <2>3. IsInjective(<<source>>) /\ ToSet(<<source>>) = {source}
    BY DEF IsInjective, ToSet
  <2> QED BY <1>3, <2>1, <2>2, <2>3 DEF FrontierSet
<1>5. Types
  BY <1>1, <1>2, <1>3, <1>4 DEF Types, PushTypeOK, Init, PushInit
<1>6. Rows
  BY <1>3 DEF Rows, PushLabels, AtEdge
<1>7. Visited = {source} /\ Claimed = {}
  BY <1>1, <1>3 DEF Visited, Init, Claimed, ToSet
<1>8. Claims
  BY <1>3, <1>4, <1>7 DEF Claims
<1> QED BY <1>5, <1>6, <1>8 DEF PushInv

\* Most steps of a push body claim nothing and move one thread.
LEMMA ClaimsKept ==
  ASSUME Claims, UNCHANGED <<visited, frontier, frontier_next>>, main' = main \/ main' # "push",
         main = "push" => main' = "push",
         \A t \in Thread : pc'[t] = "push_back" <=> pc[t] = "push_back",
         \A t \in Thread : pc[t] = "push_back" => dst'[t] = dst[t]
  PROVE  Claims' /\ Claimed' = Claimed
<1>1. Visited' = Visited /\ FrontierSet' = FrontierSet
  BY DEF Visited, FrontierSet
<1>2. Claimed' = Claimed
  BY DEF Claimed
<1> QED BY <1>1, <1>2 DEF Claims

\* What every step of a push body leaves alone.
LEMMA PushBodyFrame ==
  ASSUME IInv, NEW t \in Thread, PushBody(t)
  PROVE  /\ main = "push" /\ UNCHANGED <<load, arrays, main, pending, frontier>>
         /\ pc[t] \in PushLabels
<1>1. UNCHANGED <<load, arrays, main, pending, frontier>> /\ pc[t] \in PushLabels
  BY DEF PushBody, PushVertex, PushCas, PushBack, PushEndVertex, PushEndRange, PushLabels,
         pushVars, pushShared
<1> QED BY <1>1 DEF IInv, Bodies

\* A body at an edge: its vertex, and where in its row it is.
LEMMA AtEdgeFacts ==
  ASSUME IInv, PushInv, NEW t \in Thread, AtEdge(t)
  PROVE  /\ idx[t] \in 0 .. Len(frontier) - 1 /\ src[t] \in FrontierSet /\ src[t] \in Node
         /\ beg[t] \in Nat
         /\ beg[t] < graph.out_edge_offsets[src[t] + 1] =>
              /\ graph.out_edges[beg[t]] \in Node
              /\ graph.out_edges[beg[t]] \in Successors(graph, FrontierSet)
<1>1. /\ idx[t] \in Nat /\ stop[t] \in Nat /\ beg[t] \in Nat /\ idx[t] < stop[t]
      /\ stop[t] <= Len(frontier) /\ src[t] = frontier[idx[t] + 1]
      /\ graph.out_edge_offsets[src[t]] <= beg[t] /\ frontier \in Seq(Node)
  BY DEF IInv, Typed, PushInv, Types, PushTypeOK, Rows, AtEdge, PushLabels
<1>2. Len(frontier) \in Nat
  BY <1>1, FrontierFacts
<1>3. idx[t] \in 0 .. Len(frontier) - 1
  BY <1>1, <1>2
<1>4. src[t] \in FrontierSet /\ src[t] \in Node
  BY <1>1, <1>3, FrontierFacts DEF FrontierSet
<1>5. ASSUME beg[t] < graph.out_edge_offsets[src[t] + 1]
      PROVE  /\ graph.out_edges[beg[t]] \in Node
             /\ graph.out_edges[beg[t]] \in Successors(graph, FrontierSet)
  <2>1. IsGraph(graph)
    BY DEF PushInv, Types
  <2>0. /\ graph.out_edge_offsets[src[t]] \in Nat /\ graph.out_edge_offsets[src[t] + 1] \in Nat
    BY <1>4, <2>1, RowFacts
  <2>2. beg[t] \in graph.out_edge_offsets[src[t]] .. graph.out_edge_offsets[src[t] + 1] - 1
    BY <1>1, <1>5, <2>0
  <2> QED BY <1>4, <2>1, <2>2, RowFacts DEF Successors
<1> QED BY <1>1, <1>3, <1>4, <1>5

\* A body that starts has been given indices of the frontier.
LEMMA PushTakePush == ASSUME IInv, PushInv, NEW t \in Thread, PushTakeRange(t), opt' = opt PROVE PushInv'
<1> USE DEF IInv, PushInv
<1>1. PICK r \in Ranges(pending) : /\ pending' = pending \ (r[1] .. r[2] - 1)
                                   /\ idx' = [idx EXCEPT ![t] = r[1]]
                                   /\ stop' = [stop EXCEPT ![t] = r[2]]
  BY DEF PushTakeRange
<1>2. /\ main = "push" /\ pc[t] = "idle" /\ pc' = [pc EXCEPT ![t] = "push_vertex"]
      /\ UNCHANGED <<load, visited, arrays, main, beg, pushVars>>
  BY DEF PushTakeRange, Goto
<1>3. r[1] \in Nat /\ r[2] \in Nat /\ \E k \in pending : r[2] = k + 1
  BY RangeBounds DEF Typed
<1>4. Len(frontier) \in Nat
  BY FrontierFacts DEF Types, PushTypeOK
<1>5. r[2] <= Len(frontier)
  BY <1>2, <1>3, <1>4 DEF Rows
<1>6. Types'
  BY <1>1, <1>2 DEF Types, PushTypeOK, load, arrays, pushVars, pushShared, pushLocals
<1>7. Rows'
  <2>1. pending' \subseteq pending /\ UNCHANGED <<graph, main, beg, frontier, src, dst>>
    BY <1>1, <1>2 DEF load, pushVars, pushShared, pushLocals
  <2>2. ASSUME NEW u \in Thread
        PROVE  /\ pc'[u] \in PushLabels => stop'[u] <= Len(frontier)
               /\ AtEdge(u)' => u # t /\ AtEdge(u)
               /\ u # t => pc'[u] = pc[u] /\ idx'[u] = idx[u] /\ stop'[u] = stop[u]
    BY <1>1, <1>2, <1>3, <1>5 DEF Rows, Typed, AtEdge
  <2>3. \A u \in Thread : pc'[u] = "push_back" => AtEdge(u)'
    BY DEF AtEdge
  <2> QED BY <1>2, <2>1, <2>2, <2>3 DEF Rows
<1>8. Claims'
  <2>1. \A u \in Thread : pc'[u] = "push_back" <=> pc[u] = "push_back"
    BY <1>2 DEF Typed
  <2> QED BY <1>2, <2>1, ClaimsKept DEF pushVars, pushShared, pushLocals
<1> QED BY <1>6, <1>7, <1>8

\* A body reads the vertex its index selects, and starts at the begin of its row.
LEMMA PushVertexPush == ASSUME IInv, PushInv, NEW t \in Thread, PushVertex(t), opt' = opt PROVE PushInv'
<1> USE DEF IInv, PushInv
<1> DEFINE v == frontier[idx[t] + 1]
<1>1. /\ pc[t] = "push_vertex" /\ idx[t] < stop[t] /\ pc' = [pc EXCEPT ![t] = "push_edge"]
      /\ src' = [src EXCEPT ![t] = v] /\ beg' = [beg EXCEPT ![t] = graph.out_edge_offsets[v]]
      /\ local_explored' = [local_explored EXCEPT ![t] = @ + OutDegree(v)]
      /\ UNCHANGED <<load, visited, arrays, main, pending, idx, stop, pushShared, dst, local_edges>>
  BY DEF PushVertex, Goto, RowBegin
<1>2. main = "push" /\ stop[t] <= Len(frontier) /\ idx[t] \in Nat /\ stop[t] \in Nat
  BY <1>1, PushBodyFrame DEF PushBody, Rows, PushLabels, Typed
<1>3. v \in Node
  BY <1>1, <1>2, FrontierFacts DEF Types, PushTypeOK
<1>4. OutDegree(v) \in Nat /\ graph.out_edge_offsets[v] \in Nat
  BY <1>3, RowFacts DEF Types
<1> HIDE DEF v
<1>5. Types'
  <2>1. beg' \in [Thread -> Nat] /\ src' \in [Thread -> Node] /\ local_explored' \in [Thread -> Nat]
    BY <1>1, <1>3, <1>4 DEF Types, PushTypeOK
  <2> QED BY <1>1, <2>1 DEF Types, PushTypeOK, load, arrays, pushShared
<1>6. Rows'
  <2>1. UNCHANGED <<graph, main, pending, idx, stop, frontier, dst>>
    BY <1>1 DEF load, pushShared
  <2>2. ASSUME NEW u \in Thread, u # t
        PROVE  pc'[u] = pc[u] /\ src'[u] = src[u] /\ beg'[u] = beg[u]
    BY <1>1, <2>2 DEF Types, Typed, PushTypeOK
  <2>3. src'[t] = v /\ beg'[t] = graph.out_edge_offsets[v] /\ pc'[t] = "push_edge"
    BY <1>1 DEF Types, Typed, PushTypeOK
  <2>4. v = frontier[idx[t] + 1] /\ graph.out_edge_offsets[v] <= beg'[t]
    BY <1>4, <2>3 DEF v
  <2> HIDE DEF v
  <2>5. main' = "push" => pending' \subseteq 0 .. Len(frontier') - 1
    BY <2>1 DEF Rows
  <2>6. \A u \in Thread : u # t =>
          /\ pc'[u] \in PushLabels => stop'[u] <= Len(frontier')
          /\ AtEdge(u)' => /\ idx'[u] < stop'[u] /\ src'[u] = frontier'[idx'[u] + 1]
                           /\ graph'.out_edge_offsets[src'[u]] <= beg'[u]
          /\ pc'[u] = "push_back" => /\ beg'[u] < graph'.out_edge_offsets[src'[u] + 1]
                                     /\ dst'[u] = graph'.out_edges[beg'[u]]
    BY <2>1, <2>2 DEF Rows, AtEdge
  <2>7. /\ stop'[t] <= Len(frontier') /\ idx'[t] < stop'[t] /\ src'[t] = frontier'[idx'[t] + 1]
        /\ graph'.out_edge_offsets[src'[t]] <= beg'[t] /\ pc'[t] # "push_back"
    BY <1>1, <1>2, <2>1, <2>3, <2>4
  <2> QED BY <2>5, <2>6, <2>7 DEF Rows
<1>7. Claims'
  <2>1. \A u \in Thread : pc'[u] = "push_back" <=> pc[u] = "push_back"
    BY <1>1 DEF Typed
  <2> QED BY <1>1, <2>1, ClaimsKept DEF pushShared
<1> QED BY <1>5, <1>6, <1>7

\* What a compare-and-swap does to the claims: its vertex is new, or nothing
\* changes.
LEMMA CasClaims ==
  ASSUME IInv, PushInv, NEW t \in Thread, PushCas(t)
  PROVE  LET d == graph.out_edges[beg[t]] IN
         /\ d \in Successors(graph, FrontierSet) /\ UNCHANGED <<graph, main, frontier, frontier_next>>
         /\ IF visited[d] = 0
              THEN d \notin Visited /\ Visited' = Visited \cup {d} /\ Claimed' = Claimed \cup {d}
              ELSE d \in Visited /\ Visited' = Visited /\ Claimed' = Claimed
<1> USE DEF IInv, PushInv
<1> DEFINE d == graph.out_edges[beg[t]]
<1>1. /\ pc[t] = "push_edge" /\ beg[t] < graph.out_edge_offsets[src[t] + 1]
      /\ UNCHANGED <<graph, main, frontier, frontier_next>>
      /\ IF visited[d] = 0
           THEN /\ visited' = [visited EXCEPT ![d] = 1] /\ dst' = [dst EXCEPT ![t] = d]
                /\ pc' = [pc EXCEPT ![t] = "push_back"]
           ELSE UNCHANGED <<visited, dst, pc>>
  BY DEF PushCas, Goto, load, pushShared
<1>2. d \in Node /\ d \in Successors(graph, FrontierSet)
  BY <1>1, AtEdgeFacts DEF AtEdge
<1>3. /\ visited \in [Node -> {0, 1}] /\ dst \in [Thread -> Node]
      /\ pc \in [Thread -> {"idle"} \cup PushLabels \cup PullLabels]
  BY DEF Types, PushTypeOK, Typed
<1> HIDE DEF d
<1>4. CASE visited[d] = 0
  <2>1. d \notin Visited /\ Visited' = Visited \cup {d}
    BY <1>1, <1>2, <1>3, <1>4 DEF Visited
  <2>2. Claimed' = Claimed \cup {d}
    BY <1>1, <1>3, <1>4 DEF Claimed
  <2> QED BY <1>1, <1>2, <1>4, <2>1, <2>2 DEF d
<1>5. CASE visited[d] # 0
  <2>1. d \in Visited /\ Visited' = Visited /\ Claimed' = Claimed
    BY <1>1, <1>2, <1>3, <1>5 DEF Visited, Claimed
  <2> QED BY <1>1, <1>2, <1>5, <2>1 DEF d
<1> QED BY <1>4, <1>5

\* A claim: the vertex was not visited, so it is in no frontier and nobody
\* else has claimed it.
LEMMA PushCasPush == ASSUME IInv, PushInv, NEW t \in Thread, PushCas(t), opt' = opt PROVE PushInv'
<1> USE DEF IInv, PushInv
<1> DEFINE d == graph.out_edges[beg[t]]
<1>1. /\ pc[t] = "push_edge" /\ beg[t] < graph.out_edge_offsets[src[t] + 1]
      /\ UNCHANGED <<load, arrays, main, pending, idx, stop, pushShared, src, local_explored, local_edges>>
      /\ IF visited[d] = 0
           THEN /\ visited' = [visited EXCEPT ![d] = 1] /\ dst' = [dst EXCEPT ![t] = d]
                /\ pc' = [pc EXCEPT ![t] = "push_back"] /\ beg' = beg
           ELSE beg' = [beg EXCEPT ![t] = @ + 1] /\ UNCHANGED <<visited, dst, pc>>
  BY DEF PushCas, Goto
<1>2. main = "push" /\ AtEdge(t) /\ d \in Node /\ beg[t] \in Nat /\ src[t] \in Node
  BY <1>1, PushBodyFrame, AtEdgeFacts DEF PushBody, AtEdge
<1>3. /\ visited \in [Node -> {0, 1}] /\ dst \in [Thread -> Node] /\ beg \in [Thread -> Nat]
      /\ pc \in [Thread -> {"idle"} \cup PushLabels \cup PullLabels]
  BY DEF Types, PushTypeOK, Typed
<1> HIDE DEF d
<1>4. Types'
  <2>1. visited' \in [Node -> {0, 1}] /\ dst' \in [Thread -> Node] /\ beg' \in [Thread -> Nat]
    BY <1>1, <1>2, <1>3
  <2> QED BY <1>1, <2>1 DEF Types, PushTypeOK, load, arrays, pushShared
<1>5. Rows'
  <2>1. UNCHANGED <<graph, main, pending, idx, stop, frontier, src>>
    BY <1>1 DEF load, pushShared
  <2>2. ASSUME NEW u \in Thread, u # t
        PROVE  pc'[u] = pc[u] /\ dst'[u] = dst[u] /\ beg'[u] = beg[u]
    BY <1>1, <1>3, <2>2
  <2>3. /\ beg'[t] >= beg[t] /\ beg'[t] \in Nat /\ pc'[t] \in {"push_edge", "push_back"}
        /\ pc'[t] = "push_back" => beg'[t] = beg[t] /\ dst'[t] = d
    BY <1>1, <1>2, <1>3
  <2>4. graph.out_edge_offsets[src[t]] \in Nat
    BY <1>2, RowFacts DEF Types
  <2>5. ASSUME NEW u \in Thread, u # t
        PROVE  /\ AtEdge(u)' <=> AtEdge(u)
               /\ pc'[u] \in PushLabels => stop[u] <= Len(frontier)
               /\ AtEdge(u)' => /\ idx[u] < stop[u] /\ src[u] = frontier[idx[u] + 1]
                                /\ graph.out_edge_offsets[src[u]] <= beg'[u]
               /\ pc'[u] = "push_back" => /\ beg'[u] < graph.out_edge_offsets[src[u] + 1]
                                          /\ dst'[u] = graph.out_edges[beg'[u]]
    BY <2>2, <2>5 DEF Rows, AtEdge
  <2>6. /\ stop[t] <= Len(frontier) /\ idx[t] < stop[t] /\ src[t] = frontier[idx[t] + 1]
        /\ graph.out_edge_offsets[src[t]] <= beg'[t]
        /\ pc'[t] = "push_back" => /\ beg'[t] < graph.out_edge_offsets[src[t] + 1]
                                   /\ dst'[t] = graph.out_edges[beg'[t]]
    BY <1>1, <1>2, <2>3, <2>4 DEF Rows, AtEdge, PushLabels, d
  <2> QED BY <2>1, <2>5, <2>6 DEF Rows
<1>6. Claims'
  <2>1. CASE visited[d] # 0
    <3>1. UNCHANGED <<visited, frontier, frontier_next, main, pc, dst>>
      BY <1>1, <2>1 DEF pushShared
    <3> QED BY <3>1, ClaimsKept
  <2>2. CASE visited[d] = 0
    <3>1. UNCHANGED <<main, frontier, frontier_next>>
          /\ dst' = [dst EXCEPT ![t] = d] /\ pc' = [pc EXCEPT ![t] = "push_back"]
      BY <1>1, <2>2 DEF pushShared
    <3>2. d \notin Visited /\ Visited' = Visited \cup {d}
      BY <2>2, CasClaims DEF d
    <3>3. Claimed' = Claimed \cup {d} /\ FrontierSet' = FrontierSet
      BY <2>2, <3>1, CasClaims DEF d, FrontierSet
    <3>4. d \notin Claimed /\ d \notin FrontierSet /\ d \notin ToSet(frontier_next)
      BY <3>2 DEF Claims, Claimed
    <3>5. \A u \in Thread : pc[u] = "push_back" => dst[u] \in Claimed
      BY DEF Claimed
    <3>6. \A u \in Thread : u # t => pc'[u] = pc[u] /\ dst'[u] = dst[u]
      BY <1>3, <3>1
    <3>7. pc'[t] = "push_back" /\ dst'[t] = d
      BY <1>3, <3>1
    <3>8. ASSUME NEW u \in Thread, pc'[u] = "push_back"
          PROVE  /\ dst'[u] \notin ToSet(frontier_next)
                 /\ \A w \in Thread : pc'[w] = "push_back" /\ dst'[w] = dst'[u] => w = u
      BY <3>4, <3>5, <3>6, <3>7, <3>8 DEF Claims
    <3> QED BY <3>1, <3>2, <3>3, <3>4, <3>8 DEF Claims
  <2> QED BY <2>1, <2>2
<1> QED BY <1>4, <1>5, <1>6

\* What a body appends was claimed by it alone.
LEMMA PushBackPush ==
  ASSUME IInv, PushInv, NEW t \in Thread, PushBack(t), opt' = opt
  PROVE  PushInv' /\ Claimed' = Claimed /\ ToSet(frontier_next)' = ToSet(frontier_next) \cup {dst[t]}
<1> USE DEF IInv, PushInv
<1>1. /\ pc[t] = "push_back" /\ pc' = [pc EXCEPT ![t] = "push_edge"]
      /\ frontier_next' = Append(frontier_next, dst[t])
      /\ local_edges' = [local_edges EXCEPT ![t] = @ + OutDegree(dst[t])]
      /\ beg' = [beg EXCEPT ![t] = @ + 1]
      /\ UNCHANGED <<load, visited, arrays, main, pending, idx, stop,
                     frontier, edges_in_frontier, explored, src, dst, local_explored>>
  BY DEF PushBack, Goto
<1>2. main = "push" /\ AtEdge(t) /\ beg[t] \in Nat /\ src[t] \in Node /\ dst[t] \in Node
  BY <1>1, PushBodyFrame, AtEdgeFacts DEF PushBody, AtEdge, Types, PushTypeOK
<1>3. /\ dst \in [Thread -> Node] /\ beg \in [Thread -> Nat] /\ frontier_next \in Seq(Node)
      /\ pc \in [Thread -> {"idle"} \cup PushLabels \cup PullLabels]
      /\ OutDegree(dst[t]) \in Nat
  BY <1>2, RowFacts DEF Types, PushTypeOK, Typed
<1>4. dst[t] \notin ToSet(frontier_next)
  BY <1>1 DEF Claims
<1>5. /\ frontier_next' \in Seq(Node) /\ IsInjective(frontier_next')
      /\ ToSet(frontier_next') = ToSet(frontier_next) \cup {dst[t]}
  BY <1>1, <1>2, <1>3, <1>4, AppendFacts DEF Claims
<1>6. Types'
  <2>1. local_edges' \in [Thread -> Nat] /\ beg' \in [Thread -> Nat]
    BY <1>1, <1>3 DEF Types, PushTypeOK
  <2> QED BY <1>1, <1>5, <2>1 DEF Types, PushTypeOK, load, arrays
<1>7. Rows'
  <2>1. UNCHANGED <<graph, main, pending, idx, stop, frontier, src, dst>>
    BY <1>1 DEF load
  <2>2. ASSUME NEW u \in Thread, u # t PROVE pc'[u] = pc[u] /\ beg'[u] = beg[u]
    BY <1>1, <1>3, <2>2
  <2>3. beg'[t] = beg[t] + 1 /\ pc'[t] = "push_edge"
    BY <1>1, <1>3
  <2>4. graph.out_edge_offsets[src[t]] \in Nat
    BY <1>2, RowFacts DEF Types
  <2>5. graph.out_edge_offsets[src[t]] <= beg'[t] /\ idx[t] < stop[t] /\ src[t] = frontier[idx[t] + 1]
        /\ stop[t] <= Len(frontier)
    BY <1>1, <1>2, <2>3, <2>4 DEF Rows, PushLabels
  <2> QED BY <2>1, <2>2, <2>3, <2>5 DEF Rows, AtEdge
<1>8. /\ \A u \in Thread : u # t => pc'[u] = pc[u]
      /\ pc'[t] = "push_edge"
  BY <1>1, <1>3
<1>9. Claimed' = Claimed
  BY <1>1, <1>5, <1>8 DEF Claimed
<1>10. Claims'
  <2>1. Visited' = Visited /\ FrontierSet' = FrontierSet /\ UNCHANGED <<main, frontier, dst>>
    BY <1>1 DEF Visited, FrontierSet
  <2>2. ASSUME NEW u \in Thread, pc'[u] = "push_back"
        PROVE  /\ dst[u] \notin ToSet(frontier_next')
               /\ \A w \in Thread : pc'[w] = "push_back" /\ dst[w] = dst[u] => w = u
    <3>1. u # t /\ pc[u] = "push_back"
      BY <1>8, <2>2
    <3>2. dst[u] # dst[t] /\ dst[u] \notin ToSet(frontier_next)
      BY <1>1, <3>1 DEF Claims
    <3> QED BY <1>5, <1>8, <3>1, <3>2 DEF Claims
  <2> QED BY <1>2, <1>5, <1>9, <2>1, <2>2 DEF Claims
<1> QED BY <1>5, <1>6, <1>7, <1>9, <1>10

\* A body goes on to its next index.
LEMMA PushEndVertexPush ==
  ASSUME IInv, PushInv, NEW t \in Thread, PushEndVertex(t), opt' = opt PROVE PushInv'
<1> USE DEF IInv, PushInv
<1>1. /\ pc[t] = "push_edge" /\ pc' = [pc EXCEPT ![t] = "push_vertex"]
      /\ idx' = [idx EXCEPT ![t] = @ + 1]
      /\ UNCHANGED <<load, visited, arrays, main, pending, stop, beg, pushVars>>
  BY DEF PushEndVertex, Goto
<1>2. Types'
  BY <1>1 DEF Types, PushTypeOK, load, arrays, pushVars, pushShared, pushLocals
<1>3. Rows'
  <2>1. UNCHANGED <<graph, main, pending, stop, beg, frontier, src, dst>>
    BY <1>1 DEF load, pushVars, pushShared, pushLocals
  <2>2. ASSUME NEW u \in Thread, u # t PROVE pc'[u] = pc[u] /\ idx'[u] = idx[u]
    BY <1>1, <2>2 DEF Typed
  <2>3. pc'[t] = "push_vertex" /\ stop[t] <= Len(frontier)
    BY <1>1 DEF Typed, Rows, PushLabels
  <2> QED BY <2>1, <2>2, <2>3 DEF Rows, AtEdge
<1>4. Claims'
  <2>1. \A u \in Thread : pc'[u] = "push_back" <=> pc[u] = "push_back"
    BY <1>1 DEF Typed
  <2> QED BY <1>1, <2>1, ClaimsKept DEF pushVars, pushShared, pushLocals
<1> QED BY <1>2, <1>3, <1>4

\* A body that returns leaves no claim behind.
LEMMA PushEndRangePush ==
  ASSUME IInv, PushInv, NEW t \in Thread, PushEndRange(t), opt' = opt PROVE PushInv'
<1> USE DEF IInv, PushInv
<1>1. /\ pc[t] = "push_vertex" /\ pc' = [pc EXCEPT ![t] = "idle"]
      /\ edges_in_frontier' = edges_in_frontier + local_edges[t]
      /\ explored' = explored + local_explored[t]
      /\ beg' = [beg EXCEPT ![t] = 0] /\ idx' = [idx EXCEPT ![t] = 0] /\ stop' = [stop EXCEPT ![t] = 0]
      /\ src' = [src EXCEPT ![t] = 0] /\ dst' = [dst EXCEPT ![t] = 0]
      /\ local_explored' = [local_explored EXCEPT ![t] = 0]
      /\ local_edges' = [local_edges EXCEPT ![t] = 0]
      /\ UNCHANGED <<load, visited, arrays, main, pending, frontier, frontier_next>>
  BY DEF PushEndRange, Goto, RangeSum
<1>2. Types'
  <2>1. 0 \in Node
    BY NodesAssumption DEF Node
  <2>2. /\ beg' \in [Thread -> Nat] /\ src' \in [Thread -> Node] /\ dst' \in [Thread -> Node]
        /\ local_explored' \in [Thread -> Nat] /\ local_edges' \in [Thread -> Nat]
    BY <1>1, <2>1 DEF Types, PushTypeOK
  <2>3. edges_in_frontier' \in Nat /\ explored' \in Nat
    <3>1. /\ edges_in_frontier \in Nat /\ explored \in Nat
          /\ local_edges[t] \in Nat /\ local_explored[t] \in Nat
      BY DEF Types, PushTypeOK
    <3> QED BY ONLY <1>1, <3>1
  <2> QED BY <1>1, <2>2, <2>3 DEF Types, PushTypeOK, load, arrays
<1>3. \A u \in Thread : pc'[u] = IF u = t THEN "idle" ELSE pc[u]
  BY <1>1 DEF Typed
<1>4. Rows'
  <2>1. UNCHANGED <<graph, main, pending, frontier>>
    BY <1>1 DEF load
  <2>2. ASSUME NEW u \in Thread, u # t
        PROVE  UNCHANGED <<pc[u], idx[u], stop[u], beg[u], src[u], dst[u]>>
    BY <1>1, <2>2 DEF Typed, Types, PushTypeOK
  <2> QED BY <1>3, <2>1, <2>2 DEF Rows, AtEdge, PushLabels
<1>5. Claims'
  <2>1. \A u \in Thread : pc'[u] = "push_back" <=> pc[u] = "push_back"
    BY <1>1, <1>3
  <2>2. \A u \in Thread : pc[u] = "push_back" => dst'[u] = dst[u]
    BY <1>1 DEF Types, PushTypeOK
  <2> QED BY <1>1, <2>1, <2>2, ClaimsKept
<1> QED BY <1>2, <1>4, <1>5

\* A level ends with the claims of all bodies appended.
LEMMA PushMainPush == ASSUME IInv, PushInv, PushMain, opt' = opt PROVE PushInv'
<1> USE DEF IInv, PushInv
<1>1. CASE PushHead
  <2>1. /\ main = "head" /\ main' \in {"mark", "push"}
        /\ UNCHANGED <<load, visited, arrays, pc, idx, stop, beg, frontier, frontier_next, explored, pushLocals>>
        /\ \/ UNCHANGED <<edges_in_frontier, pending>> /\ main' = "mark"
           \/ edges_in_frontier' = 0 /\ pending' = 0 .. Len(frontier) - 1
    BY <1>1 DEF PushHead, SumCleared
  <2>2. \A t \in Thread : pc[t] \notin PushLabels
    BY <2>1 DEF Bodies
  <2>3. 0 .. Len(frontier) - 1 \subseteq Node
    <3>1. Len(frontier) \in Nat /\ Len(frontier) <= NB_NODES
      BY FrontierFacts, FrontierFits DEF Types, PushTypeOK, Claims
    <3> QED BY <3>1, NodesAssumption DEF Node
  <2>4. Types'
    <3>1. pending' \in SUBSET Node /\ edges_in_frontier' \in Nat
      <4>1. pending \in SUBSET Node /\ edges_in_frontier \in Nat
        BY DEF Types, PushTypeOK
      <4>2. pending' = pending \/ pending' = 0 .. Len(frontier) - 1
        BY <2>1
      <4>3. edges_in_frontier' = edges_in_frontier \/ edges_in_frontier' = 0
        BY <2>1
      <4> QED BY <2>3, <4>1, <4>2, <4>3
    <3> QED BY <2>1, <3>1 DEF Types, PushTypeOK, load, arrays, pushLocals
  <2>5. Rows'
    BY <2>1, <2>2 DEF Rows, AtEdge, PushLabels
  <2>6. Claims'
    <3>1. frontier_next = <<>> /\ UNCHANGED <<visited, frontier, frontier_next, pc, dst>>
      BY <2>1 DEF Claims, pushLocals
    <3>2. Visited' = Visited /\ FrontierSet' = FrontierSet /\ Claimed' = Claimed
      BY <3>1 DEF Visited, FrontierSet, Claimed
    <3> QED BY <3>1, <3>2 DEF Claims
  <2> QED BY <2>4, <2>5, <2>6
<1>2. CASE PushJoin
  <2>1. /\ main = "push" /\ main' = "head" /\ \A t \in Thread : pc[t] = "idle"
        /\ frontier' = frontier_next /\ frontier_next' = <<>>
        /\ UNCHANGED <<load, visited, arrays, pending, pc, idx, stop, beg,
                       edges_in_frontier, explored, pushLocals>>
    BY <1>2 DEF PushJoin, ParallelForEnds
  <2>2. <<>> \in Seq(Node) /\ IsInjective(<<>>) /\ ToSet(<<>>) = {}
    BY EmptySeq DEF IsInjective, ToSet
  <2>3. Types'
    BY <2>1, <2>2 DEF Types, PushTypeOK, load, arrays, pushLocals
  <2>4. Rows'
    BY <2>1 DEF Rows, AtEdge, PushLabels
  <2>5. Claims'
    <3>1. Visited' = Visited /\ FrontierSet' = ToSet(frontier_next)
      BY <2>1 DEF Visited, FrontierSet
    <3>2. Claimed' = {} /\ ToSet(frontier_next) \subseteq Claimed
      BY <2>1, <2>2 DEF Claimed
    <3> QED BY <2>1, <2>2, <3>1, <3>2 DEF Claims
  <2> QED BY <2>3, <2>4, <2>5
<1>3. CASE MarkFrontier
  <2>1. /\ main = "mark" /\ main' = "sweep" /\ zeroed' \in BOOLEAN
        /\ UNCHANGED <<graph, symmetric, visited, cont, pending, pc, sweepLocals, pushVars>>
        /\ in_frontier' \in [Node -> BOOLEAN]
    BY <1>3 DEF MarkFrontier
  <2>2. Types'
    BY <2>1 DEF Types, PushTypeOK, sweepLocals, pushVars, pushShared, pushLocals
  <2>3. \A t \in Thread : pc[t] \notin PushLabels
    BY <2>1 DEF Bodies
  <2>4. Rows'
    BY <2>1, <2>3 DEF Rows, AtEdge, PushLabels
  <2>5. Claims'
    BY <2>1, ClaimsKept DEF pushVars, pushShared, pushLocals
  <2> QED BY <2>2, <2>4, <2>5
<1> QED BY <1>1, <1>2, <1>3 DEF PushMain

-----------------------------------------------------------------------------
(* The pull loop leaves what the push loop found. *)

\* A step of the pull loop.
SweepStep == (SweepMain \/ \E t \in Thread : TakeRange(t) \/ SweepBody(t)) /\ UNCHANGED <<opt, pushVars>>

\* The pull loop leaves the state of the push loop alone, and the types hold.
LEMMA SweepFrame ==
  ASSUME IInv, PushInv, SweepStep
  PROVE  /\ UNCHANGED <<opt, load, pushVars>> /\ Types'
         /\ main \in {"sweep", "parallel"} /\ main' \in {"sweep", "parallel", "done", "fault"}
         /\ \A t \in Thread : pc[t] \notin PushLabels /\ pc'[t] \notin PushLabels
         /\ Visited \subseteq Visited'
<1> USE DEF IInv, PushInv
<1>0. UNCHANGED <<opt, pushVars>>
  BY DEF SweepStep
<1>1. CASE SweepMain
  <2>1. UNCHANGED <<load, visited, pc, idx, stop, beg>> /\ main \in {"sweep", "parallel"}
        /\ main' \in {"sweep", "parallel", "done"} /\ pending' \in {pending, Node}
        /\ in_frontier' \in {in_frontier, in_frontier_next}
    BY <1>1 DEF SweepMain, SweepLaunch, SweepEnd, sweepLocals, Indices
  <2>2. Types'
    BY <1>0, <2>1 DEF Types, Typed, PushTypeOK, load, pushVars, pushShared, pushLocals
  <2>3. \A t \in Thread : pc[t] \notin PushLabels
    BY <2>1 DEF Bodies
  <2> QED BY <1>0, <2>1, <2>2, <2>3 DEF Visited
<1>2. ASSUME NEW t \in Thread, TakeRange(t)
      PROVE  /\ UNCHANGED load /\ Types' /\ main \in {"sweep", "parallel"}
             /\ main' \in {"sweep", "parallel", "done", "fault"}
             /\ \A u \in Thread : pc[u] \notin PushLabels /\ pc'[u] \notin PushLabels
             /\ Visited \subseteq Visited'
  <2>1. /\ UNCHANGED <<load, sweepShared, beg>> /\ main = "parallel" /\ main' = main
        /\ pending' \subseteq pending /\ pc' = [pc EXCEPT ![t] = "vertex"]
    BY <1>2 DEF TakeRange, Goto
  <2>2. Types'
    BY <1>0, <2>1 DEF Types, PushTypeOK, load, sweepShared, pushVars, pushShared, pushLocals
  <2>3. \A u \in Thread : pc[u] \notin PushLabels
    BY <2>1 DEF Bodies
  <2>4. \A u \in Thread : pc'[u] \notin PushLabels
    BY <2>1, <2>3 DEF Typed, PushLabels
  <2> QED BY <2>1, <2>2, <2>3, <2>4 DEF Visited, sweepShared
<1>3. ASSUME NEW t \in Thread, SweepBody(t)
      PROVE  /\ UNCHANGED load /\ Types' /\ main \in {"sweep", "parallel"}
             /\ main' \in {"sweep", "parallel", "done", "fault"}
             /\ \A u \in Thread : pc[u] \notin PushLabels /\ pc'[u] \notin PushLabels
             /\ Visited \subseteq Visited'
  <2>1. /\ UNCHANGED <<load, in_frontier>> /\ pc[t] \in PullLabels
        /\ main' \in {main, "fault"} /\ pending' \subseteq pending
        /\ \/ \E label \in {"idle"} \cup PullLabels : pc' = [pc EXCEPT ![t] = label]
           \/ pc' = pc \/ pc' = [u \in Thread |-> "idle"]
        /\ \/ visited' = visited
           \/ visited' = [visited EXCEPT ![idx[t]] = 1] /\ idx[t] < stop[t]
        /\ \/ beg' = beg \/ beg' = [beg EXCEPT ![t] = 0] \/ beg' = [beg EXCEPT ![t] = @ + 1]
           \/ beg' = [beg EXCEPT ![t] = graph.in_edge_offsets[idx[t]]] /\ idx[t] < stop[t]
    <3>1. CASE ScanVertex(t)
      BY <3>1 DEF ScanVertex, Goto, PullLabels, sweepShared
    <3>2. CASE ScanUndefined(t)
      BY <3>2 DEF ScanUndefined, Find, Goto, PullLabels
    <3>3. CASE ScanEdge(t)
      BY <3>3 DEF ScanEdge, Find, Goto, PullLabels, Bodies
    <3>4. CASE EndScan(t) \/ EndRange(t)
      BY <3>4 DEF EndScan, EndRange, Goto, PullLabels, sweepShared
    <3> QED BY <1>3, <3>1, <3>2, <3>3, <3>4 DEF SweepBody
  <2>2. main = "parallel" /\ stop[t] <= NB_NODES
    BY <2>1 DEF Bodies
  <2>3. idx[t] < stop[t] => idx[t] \in Node
    BY <2>2, NodesAssumption DEF Typed, Node
  <2>4. visited' \in [Node -> {0, 1}] /\ Visited \subseteq Visited'
    BY <2>1, <2>3 DEF Types, Visited
  <2>5. beg' \in [Thread -> Nat]
    <3>1. idx[t] < stop[t] => graph.in_edge_offsets[idx[t]] \in Nat
      BY <2>3, RowFacts DEF Types
    <3> QED BY <2>1, <3>1 DEF Types
  <2>6. Types'
    BY <1>0, <2>1, <2>4, <2>5 DEF Types, PushTypeOK, load, pushVars, pushShared, pushLocals
  <2>7. \A u \in Thread : pc[u] \notin PushLabels
    BY <2>2 DEF Bodies
  <2>8. \A u \in Thread : pc'[u] \notin PushLabels
    BY <2>1, <2>7 DEF Typed, PushLabels, PullLabels
  <2> QED BY <2>1, <2>2, <2>4, <2>6, <2>7, <2>8
<1> QED BY <1>0, <1>1, <1>2, <1>3 DEF SweepStep

\* So it keeps the claims.
LEMMA SweepPush == ASSUME IInv, PushInv, SweepStep PROVE PushInv'
<1>1. /\ UNCHANGED <<opt, load, pushVars>> /\ Types'
      /\ main # "push" /\ main' # "push"
      /\ \A t \in Thread : pc[t] \notin PushLabels /\ pc'[t] \notin PushLabels
      /\ Visited \subseteq Visited'
  BY SweepFrame
<1>2. Rows'
  BY <1>1 DEF Rows, AtEdge, PushLabels
<1>3. FrontierSet' = FrontierSet /\ Claimed = {} /\ Claimed' = {}
      /\ UNCHANGED <<frontier, frontier_next>>
  <2>1. frontier_next = <<>> /\ UNCHANGED <<frontier, frontier_next>>
    BY <1>1 DEF PushInv, Claims, pushVars, pushShared
  <2> QED BY <1>1, <2>1 DEF FrontierSet, Claimed, PushLabels, ToSet
<1>4. Claims'
  BY <1>1, <1>3 DEF PushInv, Claims, PushLabels
<1> QED BY <1>1, <1>2, <1>4 DEF PushInv

\* A step that changes nothing.
LEMMA PushInvSame == ASSUME PushInv, UNCHANGED vars PROVE PushInv'
<1> USE DEF vars, sweepVars, load, sweepShared, sweepLocals, pushVars, pushShared, pushLocals
<1>1. Types'
  BY DEF PushInv, Types, PushTypeOK
<1>2. Rows'
  BY DEF PushInv, Rows, AtEdge
<1>3. Visited' = Visited /\ FrontierSet' = FrontierSet /\ Claimed' = Claimed
  BY DEF Visited, FrontierSet, Claimed
<1>4. Claims'
  BY <1>3 DEF PushInv, Claims
<1> QED BY <1>1, <1>2, <1>4 DEF PushInv

\* The steps of the program: those of the push loop, and the others.
LEMMA StepCases ==
  ASSUME [Next]_vars
  PROVE  \/ PushMain /\ opt' = opt
         \/ \E t \in Thread : (PushTakeRange(t) \/ PushBody(t)) /\ opt' = opt
         \/ SweepStep
         \/ UNCHANGED vars
BY DEF Next, MainStep, Take, BodyStep, Terminated, SweepStep

\* PushInv is inductive, with IInv.
LEMMA PushInvNext == ASSUME IInv, PushInv, [Next]_vars PROVE PushInv'
<1>1. ASSUME NEW t \in Thread, PushBody(t), opt' = opt PROVE PushInv'
  BY <1>1, PushVertexPush, PushCasPush, PushBackPush, PushEndVertexPush, PushEndRangePush DEF PushBody
<1> QED BY <1>1, StepCases, PushMainPush, PushTakePush, SweepPush, PushInvSame

\* The types of all variables of both loops, whatever the bodies do: no index,
\* vertex or sum leaves its range, and no array is accessed outside its bounds.
THEOREM TypesHold == SafeSpec => []TypeOK
<1>1. IInv /\ PushInv => TypeOK
  <2> SUFFICES ASSUME IInv, PushInv PROVE TypeOK
    OBVIOUS
  <2>1. Typed /\ Types
    BY DEF IInv, PushInv
  <2> QED BY <2>1 DEF Typed, Types, TypeOK, SweepTypeOK, PushTypeOK, PushLabels, PullLabels
<1>2. IInv /\ PushInv /\ [Next]_vars => IInv' /\ PushInv'
  BY NextInv, PushInvNext
<1> QED BY <1>1, <1>2, InitInv, PushInvInit, PTL DEF SafeSpec

-----------------------------------------------------------------------------
(* The sums of the heuristic.  The frontier vertices whose edges no body has *)
(* counted yet are those of the indices nobody has taken or that their body  *)
(* has not reached.                                                          *)

Degrees == [v \in Node |-> OutDegree(v)]

Owned(t) == CASE pc[t] = "push_vertex" -> idx[t] .. stop[t] - 1
              [] AtEdge(t)             -> idx[t] + 1 .. stop[t] - 1
              [] OTHER                 -> {}
Uncounted == pending \cup UNION {Owned(t) : t \in Thread}
Left == {frontier[k + 1] : k \in Uncounted}

\* An index belongs to one body at most, and nobody has taken the pending ones.
Sharing ==
  main = "push" =>
    \A t \in Thread : /\ Owned(t) \cap pending = {}
                      /\ \A u \in Thread : u # t => Owned(t) \cap Owned(u) = {}

\* explored and the sums of the bodies are the edges of the vertices that were
\* visited when the level began, without those that are left; edges_in_frontier
\* and its parts are the edges of the next frontier.
Sums ==
  /\ \A t \in Thread : pc[t] \notin PushLabels => local_explored[t] = 0 /\ local_edges[t] = 0
  /\ main = "push" =>
       /\ explored + SumFunctionOnSet(local_explored, Thread) + SumFunctionOnSet(Degrees, Left)
            = SumFunctionOnSet(Degrees, Visited \ Claimed)
       /\ edges_in_frontier + SumFunctionOnSet(local_edges, Thread)
            = SumFunctionOnSet(Degrees, ToSet(frontier_next))
  /\ main = "head" =>
       /\ explored = SumFunctionOnSet(Degrees, Visited \ FrontierSet)
       /\ IF source \in FrontierSet
            THEN FrontierSet = {source} /\ explored = 0 /\ edges_in_frontier = 0
            ELSE edges_in_frontier = SumFunctionOnSet(Degrees, FrontierSet)
  /\ main \notin {"head", "push"} => frontier = <<>>

CountInv == Sharing /\ Sums

\* Sums of degrees over sets of vertices.
LEMMA DegreeFacts ==
  ASSUME IsGraph(graph)
  PROVE  /\ IsFiniteSet(Node) /\ \A v \in Node : Degrees[v] = OutDegree(v) /\ Degrees[v] \in Nat
         /\ \A S \in SUBSET Node : IsFiniteSet(S) /\ SumFunctionOnSet(Degrees, S) \in Nat
         /\ \A S \in SUBSET Node : \A v \in Node \ S :
              SumFunctionOnSet(Degrees, S \cup {v}) = SumFunctionOnSet(Degrees, S) + OutDegree(v)
         /\ \A S \in SUBSET Node : \A v \in S :
              SumFunctionOnSet(Degrees, S) = OutDegree(v) + SumFunctionOnSet(Degrees, S \ {v})
         /\ \A S, R \in SUBSET Node : S \cap R = {} =>
              SumFunctionOnSet(Degrees, S \cup R)
                = SumFunctionOnSet(Degrees, S) + SumFunctionOnSet(Degrees, R)
<1>1. IsFiniteSet(Node)
  BY NodesAssumption, FS_Interval DEF Node
<1>2. \A v \in Node : Degrees[v] = OutDegree(v) /\ Degrees[v] \in Nat
  BY RowFacts DEF Degrees
<1>3. \A S \in SUBSET Node : IsFiniteSet(S) /\ \A v \in S : Degrees[v] \in Nat
  BY <1>1, <1>2, FS_Subset
<1>4. \A S \in SUBSET Node : SumFunctionOnSet(Degrees, S) \in Nat
  BY <1>3, SumType
<1>5. ASSUME NEW S \in SUBSET Node, NEW v \in Node \ S
      PROVE  SumFunctionOnSet(Degrees, S \cup {v}) = SumFunctionOnSet(Degrees, S) + OutDegree(v)
  <2>1. \A w \in S \cup {v} : Degrees[w] \in Nat
    BY <1>2
  <2> QED BY <1>2, <1>3, <2>1, SumAdd
<1>6. ASSUME NEW S \in SUBSET Node, NEW v \in S
      PROVE  SumFunctionOnSet(Degrees, S) = OutDegree(v) + SumFunctionOnSet(Degrees, S \ {v})
  BY <1>2, <1>3, SumRemove
<1>7. ASSUME NEW S \in SUBSET Node, NEW R \in SUBSET Node, S \cap R = {}
      PROVE  SumFunctionOnSet(Degrees, S \cup R)
                = SumFunctionOnSet(Degrees, S) + SumFunctionOnSet(Degrees, R)
  <2>1. \A w \in S \cup R : Degrees[w] \in Nat
    BY <1>2
  <2> QED BY <1>3, <1>7, <2>1, SumUnion
<1> QED BY <1>1, <1>2, <1>3, <1>4, <1>5, <1>6, <1>7

\* The degrees of the first n vertices sum up to the offset of the next one,
\* those of all vertices to the number of edges.
LEMMA DegreesTelescope ==
  ASSUME IsGraph(graph)
  PROVE  SumFunctionOnSet(Degrees, Node) = graph.nb_edges
<1> DEFINE f == graph.out_edge_offsets
           A == {n \in Nat : n <= NB_NODES => SumFunctionOnSet(Degrees, 0 .. n - 1) = f[n]}
<1>1. /\ NB_NODES \in Nat /\ f[0] = 0 /\ f[NB_NODES] = graph.nb_edges
      /\ \A n \in 0 .. NB_NODES : f[n] \in Nat
  BY NodesAssumption DEF IsGraph, IsCsr
<1>0. \A n : n \in A <=> n \in Nat /\ (n <= NB_NODES => SumFunctionOnSet(Degrees, 0 .. n - 1) = f[n])
  OBVIOUS
<1> HIDE DEF A
<1>2. 0 \in A
  <2>1. 0 .. 0 - 1 = {}
    OBVIOUS
  <2>2. SumFunctionOnSet(Degrees, 0 .. 0 - 1) = f[0]
    BY <1>1, <2>1, SumEmpty
  <2> QED BY <1>0, <2>2
<1>3. ASSUME NEW n \in A PROVE n + 1 \in A
  <2>0. n \in Nat
    BY <1>0
  <2>1. CASE n + 1 <= NB_NODES
    <3>1. n \in Node /\ n \in 0 .. NB_NODES /\ n + 1 \in 0 .. NB_NODES
      BY <1>1, <2>0, <2>1 DEF Node
    <3>2. SumFunctionOnSet(Degrees, 0 .. n - 1) = f[n]
      BY <1>1, <2>0, <2>1, <1>0
    <3>3. 0 .. n - 1 \in SUBSET Node /\ n \notin 0 .. n - 1
      <4>1. \A k \in 0 .. n - 1 : k \in Node /\ k # n
        BY <2>0, <2>1, NodesAssumption DEF Node
      <4> QED BY <4>1
    <3>4. SumFunctionOnSet(Degrees, (0 .. n - 1) \cup {n}) = f[n] + OutDegree(n)
      <4>1. n \in Node \ (0 .. n - 1)
        BY <3>1, <3>3
      <4> HIDE DEF f
      <4>2. SumFunctionOnSet(Degrees, (0 .. n - 1) \cup {n})
              = SumFunctionOnSet(Degrees, 0 .. n - 1) + OutDegree(n)
        BY <3>3, <4>1, DegreeFacts
      <4> QED BY <3>2, <4>2
    <3>5. (0 .. n - 1) \cup {n} = 0 .. (n + 1) - 1
      BY <3>1 DEF Node
    <3>6. f[n] + OutDegree(n) = f[n + 1]
      BY <1>1, <3>1 DEF OutDegree
    <3>7. SumFunctionOnSet(Degrees, 0 .. (n + 1) - 1) = f[n + 1]
      BY <3>4, <3>5, <3>6
    <3> QED BY <1>0, <2>0, <3>7
  <2> QED BY <1>1, <1>0, <2>0, <2>1
<1>4. A \in SUBSET Nat
  BY <1>0
<1>5. NB_NODES \in A
  BY <1>1, <1>2, <1>3, <1>4, NatSetInduction
<1>6. SumFunctionOnSet(Degrees, 0 .. NB_NODES - 1) = f[NB_NODES]
  BY <1>1, <1>0, <1>5
<1> QED BY <1>1, <1>6 DEF Node

\* The uncounted indices are indices of the frontier.
LEMMA UncountedFacts ==
  ASSUME IInv, PushInv, main = "push"
  PROVE  /\ Uncounted \subseteq 0 .. Len(frontier) - 1 /\ Left \subseteq FrontierSet
         /\ FrontierSet \subseteq Node /\ Len(frontier) \in Nat
<1>1. frontier \in Seq(Node) /\ pending \subseteq 0 .. Len(frontier) - 1
  BY DEF PushInv, Types, PushTypeOK, Rows
<1>2. Len(frontier) \in Nat
  BY <1>1, FrontierFacts
<1>3. ASSUME NEW t \in Thread PROVE Owned(t) \subseteq 0 .. Len(frontier) - 1
  <2>1. idx[t] \in Nat /\ stop[t] \in Nat
    BY DEF IInv, Typed
  <2>2. pc[t] \in PushLabels => stop[t] <= Len(frontier)
    BY DEF PushInv, Rows
  <2> QED BY <1>2, <2>1, <2>2 DEF Owned, AtEdge, PushLabels
<1>4. Uncounted \subseteq 0 .. Len(frontier) - 1
  BY <1>1, <1>3 DEF Uncounted
<1>5. Left \subseteq FrontierSet /\ FrontierSet \subseteq Node
  BY <1>1, <1>4, FrontierFacts DEF Left, FrontierSet
<1> QED BY <1>2, <1>4, <1>5

\* When no thread gets or gives up an index, nothing changes.
LEMMA SharingKept ==
  ASSUME Sharing, UNCHANGED <<main, pending, frontier>>, \A t \in Thread : Owned(t)' = Owned(t)
  PROVE  Sharing' /\ Uncounted' = Uncounted /\ Left' = Left
<1>1. Uncounted' = Uncounted
  BY DEF Uncounted
<1>2. Left' = Left
  BY <1>1 DEF Left
<1>3. Sharing'
  BY DEF Sharing
<1> QED BY <1>1, <1>2, <1>3

\* The first round: the source is the frontier, and nothing is counted.
LEMMA CountInvInit == Init => CountInv
<1> SUFFICES ASSUME Init PROVE CountInv
  OBVIOUS
<1>1. main # "push" /\ \A t \in Thread : local_explored[t] = 0 /\ local_edges[t] = 0
  BY DEF Init, PushInit
<1>2. CASE opt = 1
  BY <1>1, <1>2 DEF Init, CountInv, Sharing, Sums
<1>3. CASE opt = 2
  <2>1. main = "head" /\ frontier = <<source>> /\ explored = 0 /\ edges_in_frontier = 0
    BY <1>3 DEF Init, PushInit
  <2>2. FrontierSet = {source}
    BY <2>1 DEF FrontierSet, ToSet
  <2>3. Visited \ FrontierSet = {}
    BY <2>2, SourceAssumption DEF Init, Visited
  <2>4. SumFunctionOnSet(Degrees, Visited \ FrontierSet) = 0
    BY <2>3, SumEmpty
  <2> QED BY <1>1, <2>1, <2>2, <2>4 DEF CountInv, Sharing, Sums
<1> QED BY <1>2, <1>3 DEF Init

\* The sum of a variable that every thread has one of.
LEMMA LocalSums ==
  ASSUME NEW a \in [Thread -> Nat], NEW t \in Thread, NEW k \in Nat
  PROVE  /\ SumFunctionOnSet(a, Thread) \in Nat
         /\ SumFunctionOnSet([a EXCEPT ![t] = @ + k], Thread) = SumFunctionOnSet(a, Thread) + k
         /\ SumFunctionOnSet(a, Thread) = SumFunctionOnSet([a EXCEPT ![t] = 0], Thread) + a[t]
<1> DEFINE b == [a EXCEPT ![t] = @ + k]
           c == [a EXCEPT ![t] = 0]
<1>1. /\ \A u \in Thread : a[u] \in Nat /\ b[u] = IF u = t THEN a[u] + k ELSE a[u]
      /\ a[t] \in Nat
  OBVIOUS
<1>0. \A u \in Thread : c[u] \in Nat /\ a[u] = IF u = t THEN c[u] + a[t] ELSE c[u]
  OBVIOUS
<1> HIDE DEF b, c
<1>2. SumFunctionOnSet(a, Thread) \in Nat
  BY <1>1, ThreadsAssumption, SumType
<1>3. SumFunctionOnSet(b, Thread) = SumFunctionOnSet(a, Thread) + k
  BY <1>1, ThreadsAssumption, SumGrows
<1>4. SumFunctionOnSet(a, Thread) = SumFunctionOnSet(c, Thread) + a[t]
  <2>1. a[t] \in Nat
    OBVIOUS
  <2> DEFINE k0 == a[t]
  <2>2. k0 \in Nat /\ \A u \in Thread : c[u] \in Nat /\ a[u] = IF u = t THEN c[u] + k0 ELSE c[u]
    BY <1>0, <2>1
  <2> HIDE DEF k0
  <2>3. SumFunctionOnSet(a, Thread) = SumFunctionOnSet(c, Thread) + k0
    BY <2>2, ThreadsAssumption, SumGrows
  <2> QED BY <2>3 DEF k0
<1> QED BY <1>2, <1>3, <1>4 DEF b, c

\* While a level runs all sums are numbers, of sets of vertices.
LEMMA SumTypes ==
  ASSUME IInv, PushInv, main = "push"
  PROVE  /\ explored \in Nat /\ edges_in_frontier \in Nat
         /\ local_explored \in [Thread -> Nat] /\ local_edges \in [Thread -> Nat]
         /\ Left \in SUBSET Node /\ SumFunctionOnSet(Degrees, Left) \in Nat
         /\ Visited \ Claimed \in SUBSET Node /\ SumFunctionOnSet(Degrees, Visited \ Claimed) \in Nat
         /\ ToSet(frontier_next) \in SUBSET Node
         /\ SumFunctionOnSet(Degrees, ToSet(frontier_next)) \in Nat
<1>1. /\ IsGraph(graph) /\ explored \in Nat /\ edges_in_frontier \in Nat
      /\ local_explored \in [Thread -> Nat] /\ local_edges \in [Thread -> Nat]
      /\ frontier_next \in Seq(Node)
  BY DEF PushInv, Types, PushTypeOK
<1>2. Left \in SUBSET Node
  BY UncountedFacts
<1>3. Visited \ Claimed \in SUBSET Node
  BY DEF Visited
<1>4. ToSet(frontier_next) \in SUBSET Node
  BY <1>1, FrontierFacts
<1> QED BY <1>1, <1>2, <1>3, <1>4, DegreeFacts

\* The indices a body takes stay uncounted.
LEMMA PushTakeCount ==
  ASSUME IInv, PushInv, CountInv, NEW t \in Thread, PushTakeRange(t)
  PROVE  CountInv' /\ Uncounted' = Uncounted
<1> USE DEF CountInv
<1>1. PICK r \in Ranges(pending) : /\ pending' = pending \ (r[1] .. r[2] - 1)
                                   /\ idx' = [idx EXCEPT ![t] = r[1]]
                                   /\ stop' = [stop EXCEPT ![t] = r[2]]
  BY DEF PushTakeRange
<1>2. /\ main = "push" /\ pc[t] = "idle" /\ pc' = [pc EXCEPT ![t] = "push_vertex"]
      /\ UNCHANGED <<graph, visited, main, frontier, frontier_next, edges_in_frontier, explored,
                     src, dst, local_explored, local_edges>>
  BY DEF PushTakeRange, Goto, load, pushVars, pushShared, pushLocals
<1>3. r[1] .. r[2] - 1 \subseteq pending
  BY DEF Ranges
<1>4. /\ pc \in [Thread -> {"idle"} \cup PushLabels \cup PullLabels]
      /\ idx \in [Thread -> Nat] /\ stop \in [Thread -> Nat]
  BY DEF IInv, Typed
<1>5. /\ Owned(t) = {} /\ Owned(t)' = r[1] .. r[2] - 1
      /\ \A u \in Thread : u # t => Owned(u)' = Owned(u)
  BY <1>1, <1>2, <1>4 DEF Owned, AtEdge
<1>6. Uncounted' = Uncounted
  <2>1. /\ \A k : k \in Uncounted <=> k \in pending \/ \E u \in Thread : k \in Owned(u)
        /\ \A k : k \in Uncounted' <=> k \in pending' \/ \E u \in Thread : k \in Owned(u)'
    BY DEF Uncounted
  <2>2. \A k : k \in pending <=> k \in pending' \/ k \in Owned(t)'
    BY <1>1, <1>3, <1>5
  <2>3. \A k : (\E u \in Thread : k \in Owned(u)') <=> k \in Owned(t)' \/ \E u \in Thread : k \in Owned(u)
    BY <1>5
  <2>4. \A k : k \in Uncounted' <=> k \in Uncounted
    BY <2>1, <2>2, <2>3
  <2> QED BY <2>4
<1>7. Sharing'
  <2>1. Owned(t)' \subseteq pending /\ Owned(t)' \cap pending' = {} /\ pending' \subseteq pending
    BY <1>1, <1>3, <1>5
  <2>2. \A u \in Thread : u # t => Owned(u)' = Owned(u) /\ Owned(u) \cap pending = {}
    BY <1>2, <1>5 DEF Sharing
  <2>3. \A u, w \in Thread : w # u => Owned(u) \cap Owned(w) = {}
    BY <1>2 DEF Sharing
  <2>4. \A u \in Thread : Owned(u)' \cap pending' = {}
    BY <2>1, <2>2
  <2>5. \A u, w \in Thread : w # u => Owned(u)' \cap Owned(w)' = {}
    BY <2>1, <2>2, <2>3
  <2> QED BY <2>4, <2>5 DEF Sharing
<1>8. Left' = Left /\ Degrees' = Degrees /\ Claimed' = Claimed /\ Visited' = Visited
  <2>1. \A u \in Thread : pc'[u] = "push_back" <=> pc[u] = "push_back"
    BY <1>2, <1>4
  <2> QED BY <1>2, <1>6, <2>1 DEF Left, Degrees, OutDegree, Claimed, Visited
<1>9. Sums'
  <2>1. \A u \in Thread : pc'[u] \notin PushLabels => pc[u] \notin PushLabels
    BY <1>2, <1>4 DEF PushLabels
  <2> QED BY <1>2, <1>8, <2>1 DEF Sums
<1> QED BY <1>6, <1>7, <1>9

\* A body adds the degree of its next vertex, the first of those it has left.
LEMMA PushVertexCount ==
  ASSUME IInv, PushInv, CountInv, NEW t \in Thread, PushVertex(t)
  PROVE  CountInv' /\ Uncounted' = Uncounted \ {idx[t]}
<1> USE DEF CountInv
<1> DEFINE v == frontier[idx[t] + 1]
<1>1. /\ pc[t] = "push_vertex" /\ idx[t] < stop[t] /\ pc' = [pc EXCEPT ![t] = "push_edge"]
      /\ local_explored' = [local_explored EXCEPT ![t] = @ + OutDegree(v)]
      /\ UNCHANGED <<graph, visited, main, pending, idx, stop, frontier, frontier_next,
                     edges_in_frontier, explored, dst, local_edges>>
  BY DEF PushVertex, Goto, load, pushShared
<1>2. main = "push"
  BY PushBodyFrame DEF PushBody
<1>3. /\ pc \in [Thread -> {"idle"} \cup PushLabels \cup PullLabels]
      /\ idx \in [Thread -> Nat] /\ stop \in [Thread -> Nat]
  BY DEF IInv, Typed
<1>4. /\ idx[t] \in Owned(t) /\ Owned(t)' = Owned(t) \ {idx[t]}
      /\ \A u \in Thread : u # t => Owned(u)' = Owned(u)
  <2>1. Owned(t) = idx[t] .. stop[t] - 1 /\ Owned(t)' = idx[t] + 1 .. stop[t] - 1
    BY <1>1, <1>3 DEF Owned, AtEdge
  <2>2. idx[t] \in idx[t] .. stop[t] - 1
        /\ idx[t] + 1 .. stop[t] - 1 = (idx[t] .. stop[t] - 1) \ {idx[t]}
    BY <1>1, <1>3
  <2>3. \A u \in Thread : u # t => Owned(u)' = Owned(u)
    BY <1>1, <1>3 DEF Owned, AtEdge
  <2> QED BY <2>1, <2>2, <2>3
<1>5. idx[t] \in Uncounted /\ Uncounted' = Uncounted \ {idx[t]}
  BY <1>1, <1>2, <1>4 DEF Uncounted, Sharing
<1>6. Sharing'
  BY <1>1, <1>2, <1>4 DEF Sharing
<1>7. v \in Left /\ Left' = Left \ {v}
  <2>1. \A k \in Uncounted : k + 1 \in DOMAIN frontier
    <3>1. frontier \in Seq(Node)
      BY DEF PushInv, Types, PushTypeOK
    <3> QED BY <1>2, <3>1, UncountedFacts, FrontierFacts
  <2>2. \A k \in Uncounted : frontier[k + 1] = v => k = idx[t]
    BY <1>2, <1>5, <2>1, UncountedFacts DEF PushInv, Claims, IsInjective
  <2> QED BY <1>1, <1>5, <2>2 DEF Left
<1>8. Degrees' = Degrees /\ Claimed' = Claimed /\ Visited' = Visited
  <2>1. \A u \in Thread : pc'[u] = "push_back" <=> pc[u] = "push_back"
    BY <1>1, <1>3
  <2> QED BY <1>1, <2>1 DEF Degrees, OutDegree, Claimed, Visited
<1>9. Sums'
  <2>1. \A u \in Thread : pc'[u] \notin PushLabels => pc[u] \notin PushLabels /\ u # t
    BY <1>1, <1>3 DEF PushLabels
  <2>2. \A u \in Thread : u # t => local_explored'[u] = local_explored[u]
    BY <1>1, <1>2, SumTypes
  <2>3. v \in Node /\ OutDegree(v) \in Nat
    <3>1. v \in Node
      BY <1>2, <1>7, SumTypes
    <3> QED BY <3>1, RowFacts DEF PushInv, Types
  <2>4. SumFunctionOnSet(local_explored', Thread)
          = SumFunctionOnSet(local_explored, Thread) + OutDegree(v)
        /\ SumFunctionOnSet(local_explored, Thread) \in Nat
    BY <1>1, <1>2, <2>3, SumTypes, LocalSums
  <2>5. /\ SumFunctionOnSet(Degrees, Left) = OutDegree(v) + SumFunctionOnSet(Degrees, Left')
        /\ SumFunctionOnSet(Degrees, Left') \in Nat
    <3>1. Left \in SUBSET Node /\ Left' \in SUBSET Node
      BY <1>2, <1>7, SumTypes
    <3> QED BY <1>7, <3>1, DegreeFacts DEF PushInv, Types
  <2>6. explored \in Nat
    BY <1>2, SumTypes
  <2> HIDE DEF v
  <2>7. explored' + SumFunctionOnSet(local_explored', Thread) + SumFunctionOnSet(Degrees', Left')
          = SumFunctionOnSet(Degrees', Visited' \ Claimed')
    BY <1>1, <1>2, <1>8, <2>3, <2>4, <2>5, <2>6 DEF Sums
  <2> QED BY <1>1, <1>2, <1>8, <2>1, <2>2, <2>7 DEF Sums
<1> QED BY <1>5, <1>6, <1>9

\* A claim is counted when it is appended, not before.
LEMMA PushCasCount ==
  ASSUME IInv, PushInv, CountInv, NEW t \in Thread, PushCas(t)
  PROVE  CountInv' /\ Uncounted' = Uncounted
<1> USE DEF CountInv
<1>1. /\ pc[t] = "push_edge" /\ (pc' = pc \/ pc' = [pc EXCEPT ![t] = "push_back"])
      /\ UNCHANGED <<graph, main, pending, idx, stop, frontier, frontier_next,
                     edges_in_frontier, explored, local_explored, local_edges>>
  BY DEF PushCas, Goto, load, pushShared
<1>2. main = "push"
  BY PushBodyFrame DEF PushBody
<1>3. pc \in [Thread -> {"idle"} \cup PushLabels \cup PullLabels]
  BY DEF IInv, Typed
<1>4. \A u \in Thread : Owned(u)' = Owned(u)
  BY <1>1, <1>3 DEF Owned, AtEdge
<1>5. Sharing' /\ Uncounted' = Uncounted /\ Left' = Left
  BY <1>1, <1>4, SharingKept
<1>6. Degrees' = Degrees /\ Visited' \ Claimed' = Visited \ Claimed
  BY <1>1, CasClaims DEF Degrees, OutDegree
<1>7. \A u \in Thread : pc'[u] \notin PushLabels => pc[u] \notin PushLabels
  BY <1>1, <1>3 DEF PushLabels
<1>8. Sums'
  BY <1>1, <1>2, <1>5, <1>6, <1>7 DEF Sums
<1> QED BY <1>5, <1>8

\* An appended vertex adds its edges to a sum of the body.
LEMMA PushBackCount ==
  ASSUME IInv, PushInv, CountInv, NEW t \in Thread, PushBack(t), opt' = opt
  PROVE  CountInv' /\ Uncounted' = Uncounted
<1> USE DEF CountInv
<1>1. /\ pc[t] = "push_back" /\ pc' = [pc EXCEPT ![t] = "push_edge"]
      /\ local_edges' = [local_edges EXCEPT ![t] = @ + OutDegree(dst[t])]
      /\ UNCHANGED <<graph, visited, main, pending, idx, stop, frontier,
                     edges_in_frontier, explored, local_explored>>
  BY DEF PushBack, Goto, load
<1>2. main = "push"
  BY PushBodyFrame DEF PushBody
<1>3. pc \in [Thread -> {"idle"} \cup PushLabels \cup PullLabels]
  BY DEF IInv, Typed
<1>4. \A u \in Thread : Owned(u)' = Owned(u)
  BY <1>1, <1>3 DEF Owned, AtEdge
<1>5. Sharing' /\ Uncounted' = Uncounted /\ Left' = Left
  BY <1>1, <1>4, SharingKept
<1>6. /\ Degrees' = Degrees /\ Visited' = Visited /\ Claimed' = Claimed
      /\ ToSet(frontier_next') = ToSet(frontier_next) \cup {dst[t]}
  BY <1>1, PushBackPush DEF Degrees, OutDegree, Visited
<1>7. \A u \in Thread : pc'[u] \notin PushLabels => pc[u] \notin PushLabels /\ u # t
  BY <1>1, <1>3 DEF PushLabels
<1>8. Sums'
  <2>1. dst[t] \in Node /\ OutDegree(dst[t]) \in Nat /\ dst[t] \notin ToSet(frontier_next)
    <3>1. dst[t] \in Node
      BY DEF PushInv, Types, PushTypeOK
    <3> QED BY <1>1, <3>1, RowFacts DEF PushInv, Types, Claims
  <2>2. /\ SumFunctionOnSet(local_edges', Thread)
            = SumFunctionOnSet(local_edges, Thread) + OutDegree(dst[t])
        /\ SumFunctionOnSet(local_edges, Thread) \in Nat
    BY <1>1, <1>2, <2>1, SumTypes, LocalSums
  <2>3. SumFunctionOnSet(Degrees, ToSet(frontier_next'))
          = SumFunctionOnSet(Degrees, ToSet(frontier_next)) + OutDegree(dst[t])
    BY <1>2, <1>6, <2>1, SumTypes, DegreeFacts DEF PushInv, Types
  <2>4. edges_in_frontier \in Nat /\ SumFunctionOnSet(Degrees, ToSet(frontier_next)) \in Nat
    BY <1>2, SumTypes
  <2>5. edges_in_frontier' + SumFunctionOnSet(local_edges', Thread)
          = SumFunctionOnSet(Degrees', ToSet(frontier_next'))
    BY <1>1, <1>2, <1>6, <2>1, <2>2, <2>3, <2>4 DEF Sums
  <2>6. \A u \in Thread : u # t => local_edges'[u] = local_edges[u]
    BY <1>1, <1>2, SumTypes
  <2> QED BY <1>1, <1>2, <1>5, <1>6, <1>7, <2>5, <2>6 DEF Sums
<1> QED BY <1>5, <1>8

\* The next index of a body is still uncounted.
LEMMA PushEndVertexCount ==
  ASSUME IInv, PushInv, CountInv, NEW t \in Thread, PushEndVertex(t)
  PROVE  CountInv' /\ Uncounted' = Uncounted
<1> USE DEF CountInv
<1>1. /\ pc[t] = "push_edge" /\ pc' = [pc EXCEPT ![t] = "push_vertex"]
      /\ idx' = [idx EXCEPT ![t] = @ + 1]
      /\ UNCHANGED <<graph, visited, main, pending, stop, frontier, frontier_next, dst,
                     edges_in_frontier, explored, local_explored, local_edges>>
  BY DEF PushEndVertex, Goto, load, pushVars, pushShared, pushLocals
<1>2. /\ pc \in [Thread -> {"idle"} \cup PushLabels \cup PullLabels]
      /\ idx \in [Thread -> Nat] /\ stop \in [Thread -> Nat]
  BY DEF IInv, Typed
<1>3. \A u \in Thread : Owned(u)' = Owned(u)
  BY <1>1, <1>2 DEF Owned, AtEdge
<1>4. Sharing' /\ Uncounted' = Uncounted /\ Left' = Left
  BY <1>1, <1>3, SharingKept
<1>5. Degrees' = Degrees /\ Visited' = Visited /\ Claimed' = Claimed
  <2>1. \A u \in Thread : pc'[u] = "push_back" <=> pc[u] = "push_back"
    BY <1>1, <1>2
  <2> QED BY <1>1, <2>1 DEF Degrees, OutDegree, Claimed, Visited
<1>6. \A u \in Thread : pc'[u] \notin PushLabels => pc[u] \notin PushLabels
  BY <1>1, <1>2 DEF PushLabels
<1>7. main = "push"
  BY PushBodyFrame DEF PushBody
<1>8. Sums'
  BY <1>1, <1>4, <1>5, <1>6, <1>7 DEF Sums
<1> QED BY <1>4, <1>8

\* A body that is done hands its sums over.
LEMMA PushEndRangeCount ==
  ASSUME IInv, PushInv, CountInv, NEW t \in Thread, PushEndRange(t)
  PROVE  CountInv' /\ Uncounted' = Uncounted
<1> USE DEF CountInv
<1>1. /\ pc[t] = "push_vertex" /\ idx[t] >= stop[t] /\ pc' = [pc EXCEPT ![t] = "idle"]
      /\ edges_in_frontier' = edges_in_frontier + local_edges[t]
      /\ explored' = explored + local_explored[t]
      /\ idx' = [idx EXCEPT ![t] = 0] /\ stop' = [stop EXCEPT ![t] = 0]
      /\ dst' = [dst EXCEPT ![t] = 0]
      /\ local_explored' = [local_explored EXCEPT ![t] = 0]
      /\ local_edges' = [local_edges EXCEPT ![t] = 0]
      /\ UNCHANGED <<graph, visited, main, pending, frontier, frontier_next>>
  BY DEF PushEndRange, Goto, RangeSum, load
<1>2. /\ pc \in [Thread -> {"idle"} \cup PushLabels \cup PullLabels]
      /\ idx \in [Thread -> Nat] /\ stop \in [Thread -> Nat]
  BY DEF IInv, Typed
<1>3. \A u \in Thread : Owned(u)' = Owned(u)
  <2>1. Owned(t) = {} /\ Owned(t)' = {}
    BY <1>1, <1>2 DEF Owned, AtEdge
  <2>2. \A u \in Thread : u # t => Owned(u)' = Owned(u)
    BY <1>1, <1>2 DEF Owned, AtEdge
  <2> QED BY <2>1, <2>2
<1>4. Sharing' /\ Uncounted' = Uncounted /\ Left' = Left
  BY <1>1, <1>3, SharingKept
<1>5. Degrees' = Degrees /\ Visited' = Visited /\ Claimed' = Claimed
  <2>1. \A u \in Thread : pc'[u] = "push_back" <=> pc[u] = "push_back"
    BY <1>1, <1>2
  <2>2. \A u \in Thread : pc[u] = "push_back" => dst'[u] = dst[u]
    BY <1>1 DEF PushInv, Types, PushTypeOK
  <2> QED BY <1>1, <2>1, <2>2 DEF Degrees, OutDegree, Claimed, Visited
<1>6. main = "push"
  BY PushBodyFrame DEF PushBody
<1>7. Sums'
  <2>1. /\ local_explored \in [Thread -> Nat] /\ local_edges \in [Thread -> Nat]
        /\ explored \in Nat /\ edges_in_frontier \in Nat
    BY <1>6, SumTypes
  <2>2. \A u \in Thread : pc'[u] \notin PushLabels =>
          local_explored'[u] = 0 /\ local_edges'[u] = 0
    BY <1>1, <1>2, <2>1 DEF Sums
  <2>3. /\ local_explored' \in [Thread -> Nat] /\ local_edges' \in [Thread -> Nat]
        /\ local_explored[t] \in Nat /\ local_edges[t] \in Nat
    BY <1>1, <2>1
  <2>4. /\ SumFunctionOnSet(local_explored, Thread)
             = SumFunctionOnSet(local_explored', Thread) + local_explored[t]
        /\ SumFunctionOnSet(local_explored', Thread) \in Nat
    BY <1>1, <2>1, <2>3, LocalSums
  <2>5. /\ SumFunctionOnSet(local_edges, Thread)
             = SumFunctionOnSet(local_edges', Thread) + local_edges[t]
        /\ SumFunctionOnSet(local_edges', Thread) \in Nat
    BY <1>1, <2>1, <2>3, LocalSums
  <2>6. SumFunctionOnSet(Degrees, Left) \in Nat
    BY <1>6, SumTypes
  <2>7. explored' + SumFunctionOnSet(local_explored', Thread) + SumFunctionOnSet(Degrees, Left)
          = SumFunctionOnSet(Degrees, Visited \ Claimed)
    BY <1>1, <1>6, <2>1, <2>3, <2>4, <2>6 DEF Sums
  <2>8. edges_in_frontier' + SumFunctionOnSet(local_edges', Thread)
          = SumFunctionOnSet(Degrees, ToSet(frontier_next))
    BY <1>1, <1>6, <2>1, <2>3, <2>5 DEF Sums
  <2> QED BY <1>1, <1>4, <1>5, <1>6, <2>2, <2>7, <2>8 DEF Sums
<1> QED BY <1>4, <1>7

\* The edges of the frontier are among those that are not explored: the head of
\* the push loop never finds more of them.
LEMMA FrontierUnexplored ==
  ASSUME PushInv, Sums, main = "head"
  PROVE  /\ edges_in_frontier <= graph.nb_edges - explored
         /\ SumFunctionOnSet(Degrees, Visited)
              = explored + SumFunctionOnSet(Degrees, FrontierSet)
         /\ SumFunctionOnSet(Degrees, FrontierSet) \in Nat
<1>1. IsGraph(graph) /\ explored \in Nat /\ edges_in_frontier \in Nat
  BY DEF PushInv, Types, PushTypeOK
<1> DEFINE F == FrontierSet
           R == Visited \ FrontierSet
           N == Node \ Visited
<1>2. /\ F \in SUBSET Node /\ R \in SUBSET Node /\ N \in SUBSET Node /\ Visited \in SUBSET Node
      /\ R \cap F = {} /\ R \cup F = Visited /\ Visited \cap N = {} /\ Visited \cup N = Node
  BY DEF PushInv, Claims, Visited
<1>3. explored = SumFunctionOnSet(Degrees, R)
  BY DEF Sums
<1>4. edges_in_frontier = 0 \/ edges_in_frontier = SumFunctionOnSet(Degrees, F)
  BY DEF Sums
<1> HIDE DEF F, R, N
<1>5. SumFunctionOnSet(Degrees, Visited) = SumFunctionOnSet(Degrees, R) + SumFunctionOnSet(Degrees, F)
  BY <1>1, <1>2, DegreeFacts
<1>6. SumFunctionOnSet(Degrees, Node) = SumFunctionOnSet(Degrees, Visited) + SumFunctionOnSet(Degrees, N)
  BY <1>1, <1>2, DegreeFacts
<1>7. /\ SumFunctionOnSet(Degrees, F) \in Nat /\ SumFunctionOnSet(Degrees, N) \in Nat
      /\ SumFunctionOnSet(Degrees, Node) = graph.nb_edges
  BY <1>1, <1>2, DegreeFacts, DegreesTelescope
<1> QED BY <1>1, <1>3, <1>4, <1>5, <1>6, <1>7 DEF F

\* At the end of a level all has been counted.
LEMMA PushMainCount == ASSUME IInv, PushInv, CountInv, PushMain PROVE CountInv'
<1> USE DEF CountInv
<1>1. CASE PushHead
  <2>1. /\ main = "head"
        /\ UNCHANGED <<graph, visited, pc, idx, stop, frontier, frontier_next, explored, dst,
                       local_explored, local_edges>>
        /\ IF frontier = <<>> \/ edges_in_frontier > graph.nb_edges - explored
             THEN main' = "mark"
             ELSE main' = "push" /\ edges_in_frontier' = 0 /\ pending' = 0 .. Len(frontier) - 1
    BY <1>1 DEF PushHead, SumCleared, load, pushLocals, unexplored
  <2>2. \A t \in Thread : pc[t] \notin PushLabels
    BY <2>1 DEF IInv, Bodies
  <2>3. ~(edges_in_frontier > graph.nb_edges - explored)
    <3>1. edges_in_frontier <= graph.nb_edges - explored
      BY <2>1, FrontierUnexplored
    <3>2. graph.nb_edges \in Nat /\ explored \in Nat /\ edges_in_frontier \in Nat
      BY DEF PushInv, Types, PushTypeOK, IsGraph
    <3> QED BY <3>1, <3>2
  <2>4. CASE frontier = <<>>
    BY <2>1, <2>2, <2>4 DEF Sharing, Sums
  <2>5. CASE frontier # <<>>
    <3>1. main' = "push" /\ edges_in_frontier' = 0 /\ pending' = 0 .. Len(frontier) - 1
      BY <2>1, <2>3, <2>5
    <3>2. \A t \in Thread : Owned(t)' = {}
      BY <2>1, <2>2 DEF Owned, AtEdge, PushLabels
    <3>3. Uncounted' = 0 .. Len(frontier) - 1
      BY <3>1, <3>2 DEF Uncounted
    <3>4. Left' = FrontierSet
      <4>1. frontier \in Seq(Node)
        BY DEF PushInv, Types, PushTypeOK
      <4> QED BY <2>1, <3>3, <4>1, FrontierFacts DEF Left, FrontierSet
    <3>5. frontier_next = <<>> /\ ToSet(frontier_next) = {}
      BY <2>1 DEF PushInv, Claims, ToSet
    <3>6. /\ Degrees' = Degrees /\ Visited' = Visited /\ Claimed' = {}
          /\ ToSet(frontier_next') = {}
      BY <2>1, <2>2, <3>5 DEF Degrees, OutDegree, Visited, Claimed, PushLabels
    <3>7. SumFunctionOnSet(local_explored, Thread) = 0 /\ SumFunctionOnSet(local_edges, Thread) = 0
      <4>1. \A t \in Thread : local_explored[t] = 0 /\ local_edges[t] = 0
        BY <2>2 DEF Sums
      <4> QED BY <4>1, ThreadsAssumption, SumZero
    <3>8. explored + 0 + SumFunctionOnSet(Degrees, FrontierSet) = SumFunctionOnSet(Degrees, Visited)
      <4>1. explored \in Nat
        BY DEF PushInv, Types, PushTypeOK
      <4> QED BY <2>1, <4>1, FrontierUnexplored
    <3>9. SumFunctionOnSet(Degrees, {}) = 0
      BY SumEmpty
    <3>10. Sharing'
      BY <3>2 DEF Sharing
    <3>11. Visited' \ Claimed' = Visited
      BY <3>6
    <3>12. Sums'
      BY <2>1, <2>2, <3>1, <3>4, <3>6, <3>7, <3>8, <3>9, <3>11 DEF Sums
    <3> QED BY <3>10, <3>12
  <2> QED BY <2>4, <2>5
<1>2. CASE PushJoin
  <2>1. /\ main = "push" /\ main' = "head" /\ pending = {} /\ \A t \in Thread : pc[t] = "idle"
        /\ frontier' = frontier_next
        /\ UNCHANGED <<graph, visited, pc, edges_in_frontier, explored, local_explored, local_edges>>
    BY <1>2 DEF PushJoin, ParallelForEnds, load, pushLocals
  <2>2. Left = {}
    BY <2>1 DEF Left, Uncounted, Owned, AtEdge
  <2>3. Claimed = ToSet(frontier_next) /\ FrontierSet' = ToSet(frontier_next)
    BY <2>1 DEF Claimed, FrontierSet
  <2>4. SumFunctionOnSet(local_explored, Thread) = 0 /\ SumFunctionOnSet(local_edges, Thread) = 0
    <3>1. \A t \in Thread : local_explored[t] = 0 /\ local_edges[t] = 0
      BY <2>1 DEF Sums, PushLabels
    <3> QED BY <3>1, ThreadsAssumption, SumZero
  <2>5. SumFunctionOnSet(Degrees, Left) = 0
    BY <2>2, SumEmpty
  <2>6. /\ explored = SumFunctionOnSet(Degrees, Visited \ Claimed)
        /\ edges_in_frontier = SumFunctionOnSet(Degrees, ToSet(frontier_next))
    <3>1. explored \in Nat /\ edges_in_frontier \in Nat
      BY <2>1, SumTypes
    <3> QED BY <2>1, <2>4, <2>5, <3>1 DEF Sums
  <2>7. source \notin FrontierSet'
    BY <2>3 DEF PushInv, Claims
  <2>8. Degrees' = Degrees /\ Visited' = Visited
    BY <2>1 DEF Degrees, OutDegree, Visited
  <2>9. Sums'
    BY <2>1, <2>3, <2>6, <2>7, <2>8 DEF Sums
  <2> QED BY <2>1, <2>9 DEF Sharing
<1>3. CASE MarkFrontier
  <2>1. main = "mark" /\ main' = "sweep" /\ UNCHANGED <<pc, frontier, local_explored, local_edges>>
    BY <1>3 DEF MarkFrontier, pushVars, pushShared, pushLocals
  <2> QED BY <2>1 DEF Sharing, Sums
<1> QED BY <1>1, <1>2, <1>3 DEF PushMain

\* CountInv is inductive, with the layers before it.
LEMMA CountInvNext == ASSUME IInv, PushInv, CountInv, [Next]_vars PROVE CountInv'
<1>1. ASSUME NEW t \in Thread, PushBody(t), opt' = opt PROVE CountInv'
  BY <1>1, PushVertexCount, PushCasCount, PushBackCount, PushEndVertexCount, PushEndRangeCount
     DEF PushBody
<1>2. CASE SweepStep
  <2>1. /\ main \in {"sweep", "parallel"} /\ main' \notin {"head", "push"}
        /\ \A t \in Thread : pc[t] \notin PushLabels
        /\ UNCHANGED <<frontier, local_explored, local_edges>>
    BY <1>2, SweepFrame DEF pushVars, pushShared, pushLocals
  <2> QED BY <2>1 DEF CountInv, Sharing, Sums
<1>3. CASE UNCHANGED vars
  <2> USE <1>3 DEF vars, sweepVars, load, sweepShared, sweepLocals, pushVars, pushShared, pushLocals
  <2>1. \A t \in Thread : Owned(t)' = Owned(t)
    BY DEF Owned, AtEdge
  <2>2. Uncounted' = Uncounted
    BY <2>1 DEF Uncounted
  <2>3. /\ Degrees' = Degrees /\ Left' = Left /\ Visited' = Visited /\ Claimed' = Claimed
        /\ FrontierSet' = FrontierSet
    BY <2>2 DEF Degrees, OutDegree, Left, Visited, Claimed, FrontierSet
  <2>4. Sharing' /\ Sums'
    BY <2>1, <2>3 DEF Sharing, Sums, CountInv
  <2> QED BY <2>4 DEF CountInv
<1> QED BY <1>1, <1>2, <1>3, StepCases, PushMainCount, PushTakeCount

\* At every head of the push loop the two sums of the heuristic are those of a
\* sequential search, however the bodies of the levels interleaved: no edge is
\* counted twice or lost, the unsigned difference of NB_EDGES and explored does
\* not wrap, and the frontier never has more edges than are unexplored.
THEOREM HeuristicHolds == SafeSpec => []HeuristicExact
<1>1. IInv /\ PushInv /\ CountInv => HeuristicExact
  <2> SUFFICES ASSUME PushInv, CountInv, main = "head"
               PROVE  /\ Len(frontier) = Cardinality(FrontierSet)
                      /\ explored = EdgesOf(Visited \ FrontierSet)
                      /\ edges_in_frontier = IF explored = 0 /\ FrontierSet = {source}
                                               THEN 0 ELSE EdgesOf(FrontierSet)
                      /\ edges_in_frontier <= unexplored
    BY DEF HeuristicExact
  <2>1. Len(frontier) = Cardinality(FrontierSet)
    BY FrontierFits DEF PushInv, Types, PushTypeOK, Claims, FrontierSet
  <2>2. /\ explored = SumFunctionOnSet(Degrees, Visited \ FrontierSet)
        /\ IF source \in FrontierSet
             THEN FrontierSet = {source} /\ explored = 0 /\ edges_in_frontier = 0
             ELSE edges_in_frontier = SumFunctionOnSet(Degrees, FrontierSet)
    BY DEF CountInv, Sums
  <2>3. edges_in_frontier = IF explored = 0 /\ FrontierSet = {source}
                              THEN 0 ELSE SumFunctionOnSet(Degrees, FrontierSet)
    BY <2>2
  <2>4. edges_in_frontier <= graph.nb_edges - explored
    BY FrontierUnexplored DEF CountInv
  <2> QED BY <2>1, <2>2, <2>3, <2>4 DEF EdgesOf, Degrees, unexplored
<1>2. IInv /\ PushInv /\ CountInv /\ [Next]_vars => IInv' /\ PushInv' /\ CountInv'
  BY NextInv, PushInvNext, CountInvNext
<1> QED BY <1>1, <1>2, InitInv, PushInvInit, CountInvInit, PTL DEF SafeSpec

-----------------------------------------------------------------------------
(* What the search has found. *)

\* Nothing but reachable vertices, unless stray memory steers the pull loop.
Sound ==
  /\ Pushing => opt = 2
  /\ Pushing \/ Defined => Visited \subseteq Reachable(graph)
  /\ Defined /\ ~Pushing => InFrontier \subseteq Visited /\ InFrontierNext \subseteq Visited

\* A body is done with the vertex at index k.
Pushed(k) == k \notin Uncounted /\ \A t \in Thread : AtEdge(t) => idx[t] # k

\* The push loop: only the frontier has successors that are not visited, and
\* none once a body is done with it.
PushFinds ==
  /\ main = "head" => Successors(graph, Visited \ FrontierSet) \subseteq Visited
  /\ main = "push" =>
       /\ Successors(graph, (Visited \ Claimed) \ FrontierSet) \subseteq Visited
       /\ Claimed \subseteq Successors(graph, FrontierSet)
       /\ \A k \in 0 .. Len(frontier) - 1 :
            Pushed(k) => OutNeighbours(graph, frontier[k + 1]) \subseteq Visited
       /\ \A t \in Thread : AtEdge(t) =>
            \A k \in graph.out_edge_offsets[src[t]] .. beg[t] - 1 : graph.out_edges[k] \in Visited
  /\ opt = 2 /\ main \notin {"head", "push"} => Reachable(graph) \subseteq Visited

\* A sweep still has to look at a vertex; its finds are known or on their way.
Unprocessed(v) ==
  v \in pending \/ \E t \in Thread : pc[t] \in PullLabels /\ v \in idx[t] .. stop[t] - 1
Reported == cont \/ \E t \in Thread : local_cont[t]

\* The pull loop: a vertex the sweep is done with is visited or has no
\* in-neighbour in the frontier; a vertex that was found is in the next one.
PullFinds ==
  symmetric =>
    /\ main = "parallel" =>
         /\ \A v \in Node : \/ v \in Visited \/ Unprocessed(v)
                            \/ InNeighbours(graph, v) \cap InFrontier = {}
         /\ \A t \in Thread : pc[t] = "edge" =>
              /\ graph.in_edge_offsets[idx[t]] <= beg[t]
              /\ idx[t] \in Visited => idx[t] \in InFrontierNext
              /\ \A k \in graph.in_edge_offsets[idx[t]] .. beg[t] - 1 :
                   graph.in_edges[k] \notin InFrontier
         /\ zeroed => InFrontierNext \subseteq Successors(graph, InFrontier)
         /\ opt = 1 => \A u \in Visited : \/ u \in InFrontier
                                          \/ OutNeighbours(graph, u) \subseteq Visited
                                          \/ u \in InFrontierNext /\ Reported
    /\ main = "sweep" /\ opt = 1 =>
         \A u \in Visited : u \in InFrontier \/ OutNeighbours(graph, u) \subseteq Visited
    /\ main = "done" => Reachable(graph) \subseteq Visited

\* The process is killed at a vertex that was not visited.
FaultInv == main = "fault" => ~symmetric /\ Visited # Node

SearchInv == Sound /\ PushFinds /\ PullFinds /\ FaultInv

\* Successors of a set, and what contains them.
LEMMA SuccessorFacts ==
  ASSUME IsGraph(graph)
  PROVE  /\ \A S : \A w : w \in Successors(graph, S) <=> \E v \in S : w \in OutNeighbours(graph, v)
         /\ \A S \in SUBSET Node : Successors(graph, S) \subseteq Node
         /\ source \in Reachable(graph) /\ Reachable(graph) \subseteq Node
         /\ \A S \in SUBSET Reachable(graph) : Successors(graph, S) \subseteq Reachable(graph)
         /\ \A S \in SUBSET Node :
              source \in S /\ Successors(graph, S) \subseteq S => Reachable(graph) \subseteq S
<1>1. \A S : \A w : w \in Successors(graph, S) <=> \E v \in S : w \in OutNeighbours(graph, v)
  BY DEF Successors
<1>2. source \in Reachable(graph) /\ Reachable(graph) \subseteq Node
  BY SourceAssumption DEF Reachable
<1>3. \A S \in SUBSET Node :
        source \in S /\ Successors(graph, S) \subseteq S => Reachable(graph) \subseteq S
  BY DEF Reachable
<1>4. \A S \in SUBSET Node : Successors(graph, S) \subseteq Node
  <2>1. \A v \in Node : OutNeighbours(graph, v) \subseteq Node
    BY RowFacts DEF OutNeighbours
  <2> QED BY <1>1, <2>1
<1>5. ASSUME NEW S \in SUBSET Reachable(graph), NEW w \in Successors(graph, S)
      PROVE  w \in Reachable(graph)
  <2>1. w \in Node
    BY <1>2, <1>4
  <2>2. ASSUME NEW T \in SUBSET Node, source \in T, Successors(graph, T) \subseteq T PROVE w \in T
    <3>1. Successors(graph, S) \subseteq Successors(graph, T)
      BY <1>1, <1>3, <2>2
    <3> QED BY <2>2, <3>1
  <2> QED BY <2>1, <2>2 DEF Reachable
<1> QED BY <1>1, <1>2, <1>3, <1>4, <1>5

\* The source is found.
LEMMA SearchInit == Init => SearchInv
<1> SUFFICES ASSUME Init PROVE SearchInv
  OBVIOUS
<1>1. Visited = {source} /\ IsGraph(graph)
  BY SourceAssumption, GraphsAssumption DEF Init, Visited
<1>2. Visited \subseteq Reachable(graph)
  BY <1>1, SuccessorFacts
<1>3. CASE opt = 1
  <2>1. main = "sweep" /\ source \in InFrontier
    BY <1>3, SourceAssumption, StrayAssumption DEF Init, InFrontier, MallocArrays
  <2>2. zeroed => InFrontier = {source} /\ InFrontierNext = {}
    BY <1>3, SourceAssumption DEF Init, InFrontier, InFrontierNext, MallocArrays
  <2>3. Sound
    BY <1>1, <1>2, <2>1, <2>2 DEF Sound, Pushing, Defined
  <2> QED BY <1>1, <1>3, <2>1, <2>3 DEF SearchInv, PushFinds, PullFinds, FaultInv
<1>4. CASE opt = 2
  <2>1. main = "head" /\ FrontierSet = {source}
    BY <1>4 DEF Init, FrontierSet, ToSet
  <2>2. Successors(graph, Visited \ FrontierSet) \subseteq Visited
    BY <1>1, <2>1, SuccessorFacts
  <2> QED BY <1>2, <1>4, <2>1, <2>2
          DEF SearchInv, Sound, Pushing, PushFinds, PullFinds, FaultInv
<1> QED BY <1>3, <1>4 DEF Init

-----------------------------------------------------------------------------
(* The push loop finds. *)

\* What the step of a body has to keep: its claims are successors of the
\* frontier, and it is done with an index only when the whole row is visited.
LEMMA PushKeepsSearch ==
  ASSUME PushInv, SearchInv, main = "push", UNCHANGED <<opt, graph, zeroed, symmetric, main, frontier>>,
         Visited \subseteq Visited', Visited' \ Claimed' = Visited \ Claimed,
         Claimed' \subseteq Successors(graph, FrontierSet),
         \A k \in 0 .. Len(frontier) - 1 :
            Pushed(k)' => Pushed(k) \/ OutNeighbours(graph, frontier[k + 1]) \subseteq Visited,
         \A t \in Thread : AtEdge(t)' =>
            \A k \in graph.out_edge_offsets[src'[t]] .. beg'[t] - 1 : graph.out_edges[k] \in Visited'
  PROVE  SearchInv'
<1>1. FrontierSet' = FrontierSet /\ IsGraph(graph)
  BY DEF FrontierSet, PushInv, Types
<1>2. PushFinds'
  BY <1>1 DEF SearchInv, PushFinds
<1>3. Visited' \subseteq Reachable(graph)
  <2>1. Visited \subseteq Reachable(graph) /\ FrontierSet \subseteq Visited
    BY DEF SearchInv, Sound, Pushing, PushInv, Claims
  <2>2. Successors(graph, FrontierSet) \subseteq Reachable(graph)
    BY <1>1, <2>1, SuccessorFacts
  <2> QED BY <2>1, <2>2
<1>4. Sound'
  BY <1>3 DEF SearchInv, Sound, Pushing
<1> QED BY <1>2, <1>4 DEF SearchInv, PullFinds, FaultInv

\* A body that starts has found nothing yet.
LEMMA PushTakeSearch ==
  ASSUME IInv, PushInv, CountInv, SearchInv, NEW t \in Thread, PushTakeRange(t), opt' = opt
  PROVE  SearchInv'
<1>1. /\ main = "push" /\ pc[t] = "idle" /\ pc' = [pc EXCEPT ![t] = "push_vertex"]
      /\ UNCHANGED <<opt, graph, zeroed, symmetric, visited, main, beg, frontier, frontier_next, src, dst>>
      /\ \E n : idx' = [idx EXCEPT ![t] = n]
  BY DEF PushTakeRange, Goto, load, pushVars, pushShared, pushLocals
<1>2. /\ pc \in [Thread -> {"idle"} \cup PushLabels \cup PullLabels] /\ idx \in [Thread -> Nat]
  BY DEF IInv, Typed
<1>3. \A u \in Thread : /\ AtEdge(u)' <=> AtEdge(u)
                        /\ AtEdge(u) => idx'[u] = idx[u]
                        /\ pc'[u] = "push_back" <=> pc[u] = "push_back"
  BY <1>1, <1>2 DEF AtEdge
<1>4. Visited' = Visited /\ Claimed' = Claimed
  BY <1>1, <1>3 DEF Visited, Claimed
<1>5. Uncounted' = Uncounted
  BY PushTakeCount
<1>6. \A k : Pushed(k)' => Pushed(k)
  BY <1>3, <1>5 DEF Pushed
<1>7. /\ Claimed' \subseteq Successors(graph, FrontierSet)
      /\ \A u \in Thread : AtEdge(u)' =>
           \A k \in graph.out_edge_offsets[src'[u]] .. beg'[u] - 1 : graph.out_edges[k] \in Visited'
  BY <1>1, <1>3, <1>4 DEF SearchInv, PushFinds
<1> QED BY <1>1, <1>4, <1>6, <1>7, PushKeepsSearch

\* A body that starts a row has looked at none of its edges.
LEMMA PushVertexSearch ==
  ASSUME IInv, PushInv, CountInv, SearchInv, NEW t \in Thread, PushVertex(t), opt' = opt
  PROVE  SearchInv'
<1>1. /\ pc[t] = "push_vertex" /\ idx[t] < stop[t] /\ pc' = [pc EXCEPT ![t] = "push_edge"]
      /\ src' = [src EXCEPT ![t] = frontier[idx[t] + 1]]
      /\ beg' = [beg EXCEPT ![t] = graph.out_edge_offsets[frontier[idx[t] + 1]]]
      /\ UNCHANGED <<opt, graph, zeroed, symmetric, visited, main, idx, stop, frontier, frontier_next, dst>>
  BY DEF PushVertex, Goto, load, pushShared, RowBegin
<1>2. main = "push"
  BY PushBodyFrame DEF PushBody
<1>3. /\ pc \in [Thread -> {"idle"} \cup PushLabels \cup PullLabels]
      /\ src \in [Thread -> Node] /\ beg \in [Thread -> Nat]
  BY DEF IInv, Typed, PushInv, Types, PushTypeOK
<1>4. \A u \in Thread : u # t => /\ AtEdge(u)' <=> AtEdge(u)
                                 /\ src'[u] = src[u] /\ beg'[u] = beg[u]
  BY <1>1, <1>3 DEF AtEdge
<1>5. AtEdge(t)' /\ ~AtEdge(t) /\ beg'[t] = graph.out_edge_offsets[src'[t]]
  BY <1>1, <1>3 DEF AtEdge
<1>6. Visited' = Visited /\ Claimed' = Claimed
  <2>1. \A u \in Thread : pc'[u] = "push_back" <=> pc[u] = "push_back"
    BY <1>1, <1>3
  <2> QED BY <1>1, <2>1 DEF Visited, Claimed
<1>7. \A k : Pushed(k)' => Pushed(k)
  <2>1. Uncounted' = Uncounted \ {idx[t]}
    BY PushVertexCount
  <2> QED BY <1>1, <1>4, <1>5, <2>1 DEF Pushed
<1>8. ASSUME NEW u \in Thread, AtEdge(u)'
      PROVE  \A k \in graph.out_edge_offsets[src'[u]] .. beg'[u] - 1 : graph.out_edges[k] \in Visited'
  <2>1. CASE u # t
    BY <1>2, <1>4, <1>6, <1>8, <2>1 DEF SearchInv, PushFinds
  <2>2. CASE u = t
    <3>1. graph.out_edge_offsets[src'[t]] \in Nat
      <4>1. beg'[t] \in Nat
        BY PushVertexPush DEF PushInv, Types
      <4> QED BY <1>5, <4>1
    <3> QED BY <1>5, <2>2, <3>1
  <2> QED BY <2>1, <2>2
<1>9. Claimed' \subseteq Successors(graph, FrontierSet)
  BY <1>2, <1>6 DEF SearchInv, PushFinds
<1> QED BY <1>1, <1>2, <1>6, <1>7, <1>8, <1>9, PushKeepsSearch

\* A neighbour is visited behind the compare-and-swap, whoever won it.
LEMMA PushCasSearch ==
  ASSUME IInv, PushInv, CountInv, SearchInv, NEW t \in Thread, PushCas(t), opt' = opt
  PROVE  SearchInv'
<1> DEFINE d == graph.out_edges[beg[t]]
<1>1. /\ pc[t] = "push_edge" /\ (pc' = pc \/ pc' = [pc EXCEPT ![t] = "push_back"])
      /\ UNCHANGED <<opt, graph, zeroed, symmetric, main, idx, frontier, src>>
      /\ \/ beg' = beg
         \/ beg' = [beg EXCEPT ![t] = @ + 1] /\ visited[d] # 0
  BY DEF PushCas, Goto, load, pushShared
<1>2. main = "push"
  BY PushBodyFrame DEF PushBody
<1>3. /\ pc \in [Thread -> {"idle"} \cup PushLabels \cup PullLabels]
      /\ beg \in [Thread -> Nat] /\ src \in [Thread -> Node]
  BY DEF IInv, Typed, PushInv, Types, PushTypeOK
<1>4. \A u \in Thread : AtEdge(u)' <=> AtEdge(u)
  BY <1>1, <1>3 DEF AtEdge
<1>5. /\ Visited \subseteq Visited' /\ Visited' \ Claimed' = Visited \ Claimed
      /\ Claimed' \subseteq Claimed \cup Successors(graph, FrontierSet)
      /\ visited[d] # 0 => d \in Visited
  BY CasClaims
<1>6. \A k : Pushed(k)' => Pushed(k)
  BY <1>1, <1>4, PushCasCount DEF Pushed
<1>7. ASSUME NEW u \in Thread, AtEdge(u)'
      PROVE  \A k \in graph.out_edge_offsets[src'[u]] .. beg'[u] - 1 : graph.out_edges[k] \in Visited'
  <2>1. \A k \in graph.out_edge_offsets[src[u]] .. beg[u] - 1 : graph.out_edges[k] \in Visited
    BY <1>2, <1>4, <1>7 DEF SearchInv, PushFinds
  <2>2. CASE beg'[u] = beg[u]
    BY <1>1, <1>5, <2>1, <2>2
  <2>3. CASE beg'[u] # beg[u]
    <3>1. u = t /\ beg'[u] = beg[u] + 1 /\ d \in Visited
      BY <1>1, <1>3, <1>5, <2>3
    <3>2. graph.out_edge_offsets[src[u]] \in Nat /\ beg[u] \in Nat
      BY <1>3, RowFacts DEF PushInv, Types
    <3>3. \A k \in graph.out_edge_offsets[src[u]] .. beg'[u] - 1 :
            k = beg[u] \/ k \in graph.out_edge_offsets[src[u]] .. beg[u] - 1
      BY <3>1, <3>2
    <3> QED BY <1>1, <1>5, <2>1, <3>1, <3>3
  <2> QED BY <2>2, <2>3
<1>8. Claimed' \subseteq Successors(graph, FrontierSet)
  BY <1>2, <1>5 DEF SearchInv, PushFinds
<1> QED BY <1>1, <1>2, <1>5, <1>6, <1>7, <1>8, PushKeepsSearch

\* The appended neighbour was claimed, hence visited.
LEMMA PushBackSearch ==
  ASSUME IInv, PushInv, CountInv, SearchInv, NEW t \in Thread, PushBack(t), opt' = opt
  PROVE  SearchInv'
<1>1. /\ pc[t] = "push_back" /\ pc' = [pc EXCEPT ![t] = "push_edge"]
      /\ UNCHANGED <<opt, graph, zeroed, symmetric, visited, main, idx, frontier, src>>
      /\ beg' = [beg EXCEPT ![t] = @ + 1]
  BY DEF PushBack, Goto, load
<1>2. main = "push"
  BY PushBodyFrame DEF PushBody
<1>3. /\ pc \in [Thread -> {"idle"} \cup PushLabels \cup PullLabels]
      /\ beg \in [Thread -> Nat] /\ src \in [Thread -> Node]
  BY DEF IInv, Typed, PushInv, Types, PushTypeOK
<1>4. \A u \in Thread : AtEdge(u)' <=> AtEdge(u)
  BY <1>1, <1>3 DEF AtEdge
<1>5. Visited' = Visited /\ Claimed' = Claimed
  BY <1>1, PushBackPush DEF Visited
<1>6. \A k : Pushed(k)' => Pushed(k)
  BY <1>1, <1>4, PushBackCount DEF Pushed
<1>7. ASSUME NEW u \in Thread, AtEdge(u)'
      PROVE  \A k \in graph.out_edge_offsets[src'[u]] .. beg'[u] - 1 : graph.out_edges[k] \in Visited'
  <2>1. \A k \in graph.out_edge_offsets[src[u]] .. beg[u] - 1 : graph.out_edges[k] \in Visited
    BY <1>2, <1>4, <1>7 DEF SearchInv, PushFinds
  <2>2. CASE u # t
    BY <1>1, <1>3, <1>5, <2>1, <2>2
  <2>3. CASE u = t
    <3>1. beg'[u] = beg[u] + 1 /\ graph.out_edges[beg[u]] = dst[u]
      BY <1>1, <1>3, <2>3 DEF PushInv, Rows
    <3>2. dst[u] \in Visited
      BY <1>1, <2>3 DEF PushInv, Claims, Claimed
    <3>3. graph.out_edge_offsets[src[u]] \in Nat /\ beg[u] \in Nat
      BY <1>3, RowFacts DEF PushInv, Types
    <3>4. \A k \in graph.out_edge_offsets[src[u]] .. beg'[u] - 1 :
            k = beg[u] \/ k \in graph.out_edge_offsets[src[u]] .. beg[u] - 1
      BY <3>1, <3>3
    <3> QED BY <1>1, <1>5, <2>1, <3>1, <3>2, <3>4
  <2> QED BY <2>2, <2>3
<1>8. Claimed' \subseteq Successors(graph, FrontierSet)
  BY <1>2, <1>5 DEF SearchInv, PushFinds
<1> QED BY <1>1, <1>2, <1>5, <1>6, <1>7, <1>8, PushKeepsSearch

\* A body that reaches the end of a row leaves no successor behind.
LEMMA PushEndVertexSearch ==
  ASSUME IInv, PushInv, CountInv, SearchInv, NEW t \in Thread, PushEndVertex(t), opt' = opt
  PROVE  SearchInv'
<1>1. /\ pc[t] = "push_edge" /\ beg[t] >= graph.out_edge_offsets[src[t] + 1]
      /\ pc' = [pc EXCEPT ![t] = "push_vertex"] /\ idx' = [idx EXCEPT ![t] = @ + 1]
      /\ UNCHANGED <<opt, graph, zeroed, symmetric, visited, main, beg, frontier, frontier_next, src, dst>>
  BY DEF PushEndVertex, Goto, load, pushVars, pushShared, pushLocals
<1>2. main = "push"
  BY PushBodyFrame DEF PushBody
<1>3. /\ pc \in [Thread -> {"idle"} \cup PushLabels \cup PullLabels] /\ idx \in [Thread -> Nat]
  BY DEF IInv, Typed
<1>4. /\ AtEdge(t) /\ ~AtEdge(t)'
      /\ \A u \in Thread : u # t => /\ AtEdge(u)' <=> AtEdge(u)
                                    /\ idx'[u] = idx[u]
  BY <1>1, <1>3 DEF AtEdge
<1>5. Visited' = Visited /\ Claimed' = Claimed
  <2>1. \A u \in Thread : pc'[u] = "push_back" <=> pc[u] = "push_back"
    BY <1>1, <1>3
  <2> QED BY <1>1, <2>1 DEF Visited, Claimed
<1>6. OutNeighbours(graph, frontier[idx[t] + 1]) \subseteq Visited
  <2>1. /\ \A k \in graph.out_edge_offsets[src[t]] .. beg[t] - 1 : graph.out_edges[k] \in Visited
        /\ src[t] = frontier[idx[t] + 1]
    BY <1>2, <1>4 DEF SearchInv, PushFinds, PushInv, Rows
  <2>2. /\ graph.out_edge_offsets[src[t]] \in Nat /\ graph.out_edge_offsets[src[t] + 1] \in Nat
        /\ beg[t] \in Nat
    BY <1>4, AtEdgeFacts, RowFacts DEF PushInv, Types
  <2>3. \A k \in graph.out_edge_offsets[src[t]] .. graph.out_edge_offsets[src[t] + 1] - 1 :
          k \in graph.out_edge_offsets[src[t]] .. beg[t] - 1
    BY <1>1, <2>2
  <2> QED BY <2>1, <2>3 DEF OutNeighbours
<1>7. \A k : Pushed(k)' => Pushed(k) \/ k = idx[t]
  <2>1. Uncounted' = Uncounted
    BY PushEndVertexCount
  <2> QED BY <1>4, <2>1 DEF Pushed
<1>8. /\ Claimed' \subseteq Successors(graph, FrontierSet)
      /\ \A u \in Thread : AtEdge(u)' =>
           \A k \in graph.out_edge_offsets[src'[u]] .. beg'[u] - 1 : graph.out_edges[k] \in Visited'
  BY <1>1, <1>2, <1>4, <1>5 DEF SearchInv, PushFinds
<1> QED BY <1>1, <1>2, <1>5, <1>6, <1>7, <1>8, PushKeepsSearch

\* A body that returns is done with all its indices.
LEMMA PushEndRangeSearch ==
  ASSUME IInv, PushInv, CountInv, SearchInv, NEW t \in Thread, PushEndRange(t), opt' = opt
  PROVE  SearchInv'
<1>1. /\ pc[t] = "push_vertex" /\ pc' = [pc EXCEPT ![t] = "idle"]
      /\ idx' = [idx EXCEPT ![t] = 0] /\ beg' = [beg EXCEPT ![t] = 0]
      /\ src' = [src EXCEPT ![t] = 0] /\ dst' = [dst EXCEPT ![t] = 0]
      /\ UNCHANGED <<opt, graph, zeroed, symmetric, visited, main, frontier, frontier_next>>
  BY DEF PushEndRange, Goto, load
<1>2. main = "push"
  BY PushBodyFrame DEF PushBody
<1>3. /\ pc \in [Thread -> {"idle"} \cup PushLabels \cup PullLabels] /\ idx \in [Thread -> Nat]
      /\ beg \in [Thread -> Nat] /\ src \in [Thread -> Node] /\ dst \in [Thread -> Node]
  BY DEF IInv, Typed, PushInv, Types, PushTypeOK
<1>4. \A u \in Thread : /\ AtEdge(u)' <=> AtEdge(u)
                        /\ pc'[u] = "push_back" <=> pc[u] = "push_back"
                        /\ AtEdge(u) => u # t
  BY <1>1, <1>3 DEF AtEdge
<1>5. \A u \in Thread : u # t => UNCHANGED <<idx[u], beg[u], src[u], dst[u]>>
  BY <1>1, <1>3
<1>6. Visited' = Visited /\ Claimed' = Claimed
  <2>1. \A u \in Thread : pc[u] = "push_back" => dst'[u] = dst[u]
    BY <1>4, <1>5 DEF AtEdge
  <2> QED BY <1>1, <1>4, <2>1 DEF Visited, Claimed
<1>7. \A k : Pushed(k)' => Pushed(k)
  <2>1. Uncounted' = Uncounted
    BY PushEndRangeCount
  <2> QED BY <1>4, <1>5, <2>1 DEF Pushed
<1>8. /\ Claimed' \subseteq Successors(graph, FrontierSet)
      /\ \A u \in Thread : AtEdge(u)' =>
           \A k \in graph.out_edge_offsets[src'[u]] .. beg'[u] - 1 : graph.out_edges[k] \in Visited'
  BY <1>1, <1>2, <1>4, <1>5, <1>6 DEF SearchInv, PushFinds
<1> QED BY <1>1, <1>2, <1>6, <1>7, <1>8, PushKeepsSearch

\* When all bodies of a level have returned, every successor of the frontier is
\* visited.
LEMMA PushFindsAll ==
  ASSUME PushInv, SearchInv, main = "push", ParallelForEnds(pending, pc)
  PROVE  Successors(graph, FrontierSet) \subseteq Visited
<1>1. \A k : Pushed(k)
  BY DEF ParallelForEnds, Pushed, Uncounted, Owned, AtEdge
<1>2. \A k \in 0 .. Len(frontier) - 1 : OutNeighbours(graph, frontier[k + 1]) \subseteq Visited
  BY <1>1 DEF SearchInv, PushFinds
<1>3. FrontierSet = {frontier[k + 1] : k \in 0 .. Len(frontier) - 1}
  BY FrontierFacts DEF PushInv, Types, PushTypeOK, FrontierSet
<1> QED BY <1>2, <1>3 DEF Successors

\* Between the loops and the levels nothing is lost: when the push loop ends
\* with an empty frontier, everything reachable is visited.
LEMMA PushMainSearch ==
  ASSUME IInv, PushInv, CountInv, SearchInv, PushMain, opt' = opt
  PROVE  SearchInv'
<1>1. CASE PushHead
  <2>1. /\ main = "head" /\ main' \in {"mark", "push"}
        /\ main' = "push" => pending' = 0 .. Len(frontier) - 1
        /\ UNCHANGED <<opt, graph, zeroed, symmetric, visited, pc, frontier, frontier_next, dst>>
    BY <1>1 DEF PushHead, load, pushLocals
  <2>2. Visited' = Visited /\ FrontierSet' = FrontierSet
    BY <2>1 DEF Visited, FrontierSet
  <2>3. opt = 2 /\ Visited \subseteq Reachable(graph)
    BY <2>1 DEF SearchInv, Sound, Pushing
  <2>4. \A t \in Thread : pc[t] \notin PushLabels
    BY <2>1 DEF IInv, Bodies
  <2>5. CASE main' = "push"
    <3>1. Claimed' = {}
      BY <2>1, <2>4 DEF Claimed, ToSet, PushLabels, PushInv, Claims
    <3>2. /\ \A k \in 0 .. Len(frontier) - 1 : ~Pushed(k)'
          /\ \A t \in Thread : ~AtEdge(t)'
      BY <2>1, <2>4, <2>5 DEF Pushed, Uncounted, AtEdge, PushLabels
    <3>3. PushFinds'
      BY <2>1, <2>2, <2>5, <3>1, <3>2 DEF SearchInv, PushFinds
    <3> QED BY <2>1, <2>2, <2>3, <2>5, <3>3 DEF SearchInv, Sound, Pushing, PullFinds, FaultInv
  <2>6. CASE main' = "mark"
    <3>1. FrontierSet = {}
      <4>1. frontier' = <<>>
        BY <2>6, PushMainCount DEF CountInv, Sums
      <4> QED BY <2>1, <4>1 DEF FrontierSet, ToSet
    <3>2. Visited \in SUBSET Node /\ source \in Visited /\ Successors(graph, Visited) \subseteq Visited
      BY <2>1, <3>1 DEF SearchInv, PushFinds, Visited, PushInv, Claims
    <3>3. Reachable(graph) \subseteq Visited
      BY <3>2, SuccessorFacts DEF PushInv, Types
    <3> QED BY <2>1, <2>2, <2>3, <2>6, <3>3
            DEF SearchInv, Sound, Pushing, PushFinds, PullFinds, FaultInv
  <2> QED BY <2>1, <2>5, <2>6
<1>2. CASE PushJoin
  <2>1. /\ main = "push" /\ main' = "head" /\ pending = {} /\ \A t \in Thread : pc[t] = "idle"
        /\ frontier' = frontier_next
        /\ UNCHANGED <<opt, graph, zeroed, symmetric, visited>>
    BY <1>2 DEF PushJoin, ParallelForEnds, load
  <2>2. Visited' = Visited /\ Claimed = FrontierSet'
    BY <2>1 DEF Visited, Claimed, FrontierSet
  <2>3. opt = 2 /\ Visited \subseteq Reachable(graph)
    BY <2>1 DEF SearchInv, Sound, Pushing
  <2>5. Successors(graph, FrontierSet) \subseteq Visited
    BY <2>1, PushFindsAll DEF ParallelForEnds
  <2>6. Successors(graph, (Visited \ Claimed) \ FrontierSet) \subseteq Visited
    BY <2>1 DEF SearchInv, PushFinds
  <2>7. Successors(graph, Visited \ Claimed) \subseteq Visited
    BY <2>5, <2>6 DEF Successors
  <2>8. PushFinds'
    BY <2>1, <2>2, <2>7 DEF PushFinds
  <2> QED BY <2>1, <2>2, <2>3, <2>8 DEF SearchInv, Sound, Pushing, PullFinds, FaultInv
<1>3. CASE MarkFrontier
  <2>1. /\ main = "mark" /\ main' = "sweep" /\ in_frontier_next' \in MallocArrays'
        /\ \E mem \in MallocArrays' :
             in_frontier' = [v \in Node |-> mem[v] \/ v \in ToSet(frontier)]
        /\ UNCHANGED <<opt, graph, symmetric, visited>>
    BY <1>3 DEF MarkFrontier
  <2>2. Visited' = Visited /\ opt = 2 /\ Visited \subseteq Reachable(graph) /\ Reachable(graph) \subseteq Visited
    BY <2>1 DEF Visited, SearchInv, Sound, Pushing, PushFinds
  <2>3. zeroed' => InFrontier' \subseteq Visited' /\ InFrontierNext' \subseteq Visited'
    BY <2>1, <2>2 DEF MallocArrays, InFrontier, InFrontierNext, PushInv, Claims, FrontierSet
  <2> QED BY <2>1, <2>2, <2>3
          DEF SearchInv, Sound, Pushing, Defined, PushFinds, PullFinds, FaultInv
<1> QED BY <1>1, <1>2, <1>3 DEF PushMain

-----------------------------------------------------------------------------
(* The pull loop finds. *)

\* A body of the pull loop that scans the in-edges of a vertex has found none
\* from the frontier so far.
Scanning(t) ==
  /\ graph.in_edge_offsets[idx[t]] <= beg[t]
  /\ idx[t] \in Visited => idx[t] \in InFrontierNext
  /\ \A k \in graph.in_edge_offsets[idx[t]] .. beg[t] - 1 : graph.in_edges[k] \notin InFrontier

\* A vertex and the vertex that an in-edge of it comes from.
LEMMA InEdgeFacts ==
  ASSUME IsGraph(graph)
  PROVE  \A S \in SUBSET Node : \A v \in Node :
           v \in Successors(graph, S) <=> InNeighbours(graph, v) \cap S # {}
<1>1. \A S : \A w : w \in Successors(graph, S) <=> \E v \in S : w \in OutNeighbours(graph, v)
  BY SuccessorFacts
<1>2. \A u, v \in Node : v \in OutNeighbours(graph, u) <=> u \in InNeighbours(graph, v)
  BY DEF IsGraph
<1> QED BY <1>1, <1>2

\* What a step of the sweep has to keep when it finds the vertices F.
LEMMA SweepKeepsSearch ==
  ASSUME PushInv, SearchInv, main = "parallel", main' = "parallel",
         UNCHANGED <<opt, graph, zeroed, symmetric, in_frontier>>,
         NEW F \in SUBSET Node, Visited' = Visited \cup F, InFrontierNext' = InFrontierNext \cup F,
         symmetric => F \subseteq Successors(graph, InFrontier),
         F # {} \/ Reported => Reported',
         symmetric => \A v \in Node : Unprocessed(v) =>
           Unprocessed(v)' \/ v \in Visited' \/ InNeighbours(graph, v) \cap InFrontier = {},
         symmetric => \A t \in Thread : pc'[t] = "edge" => Scanning(t)'
  PROVE  SearchInv'
<1>1. InFrontier' = InFrontier /\ IsGraph(graph)
  BY DEF InFrontier, PushInv, Types
<1>2. Sound'
  <2>1. ASSUME Defined PROVE Visited' \subseteq Reachable(graph)
    <3>1. InFrontier \subseteq Reachable(graph) /\ Visited \subseteq Reachable(graph)
      BY <2>1 DEF SearchInv, Sound, Pushing
    <3>2. Successors(graph, InFrontier) \subseteq Reachable(graph)
      BY <1>1, <3>1, SuccessorFacts
    <3> QED BY <2>1, <3>1, <3>2 DEF Defined
  <2> QED BY <1>1, <2>1 DEF SearchInv, Sound, Pushing, Defined
<1>3. PushFinds'
  BY DEF SearchInv, PushFinds
<1>4. PullFinds'
  <2> SUFFICES ASSUME symmetric PROVE PullFinds'
    BY DEF PullFinds
  <2>1. \A v \in Node : \/ v \in Visited' \/ Unprocessed(v)'
                        \/ InNeighbours(graph, v) \cap InFrontier = {}
    BY DEF SearchInv, PullFinds
  <2>2. zeroed => InFrontierNext' \subseteq Successors(graph, InFrontier)
    BY DEF SearchInv, PullFinds
  <2>3. opt = 1 => \A u \in Visited' : \/ u \in InFrontier
                                       \/ OutNeighbours(graph, u) \subseteq Visited'
                                       \/ u \in InFrontierNext' /\ Reported'
    BY DEF SearchInv, PullFinds
  <2> QED BY <1>1, <2>1, <2>2, <2>3 DEF PullFinds, Scanning
<1> QED BY <1>2, <1>3, <1>4 DEF SearchInv, FaultInv

\* A sweep has all vertices before it.
LEMMA SweepLaunchSearch ==
  ASSUME IInv, PushInv, SearchInv, SweepLaunch, opt' = opt PROVE SearchInv'
<1>1. /\ main = "sweep" /\ main' = "parallel" /\ pending' = Node
      /\ UNCHANGED <<opt, graph, zeroed, symmetric, visited, in_frontier, in_frontier_next, pc>>
  BY DEF SweepLaunch, Indices, load
<1>2. Visited' = Visited /\ InFrontier' = InFrontier /\ InFrontierNext' = InFrontierNext
  BY <1>1 DEF Visited, InFrontier, InFrontierNext
<1>3. (zeroed => InFrontierNext = {}) /\ \A t \in Thread : pc[t] # "edge"
  BY <1>1 DEF IInv, News, Bodies, PullLabels
<1>4. PullFinds'
  BY <1>1, <1>2, <1>3 DEF SearchInv, PullFinds, Unprocessed
<1> QED BY <1>1, <1>2, <1>4 DEF SearchInv, Sound, Pushing, Defined, PushFinds, FaultInv

\* The same at the end of a sweep, with the in-edges.
LEMMA SweepFindsAll ==
  ASSUME PushInv, SearchInv, symmetric, main = "parallel", ParallelForEnds(pending, pc)
  PROVE  Successors(graph, InFrontier) \subseteq Visited
<1>1. ASSUME NEW w \in Successors(graph, InFrontier) PROVE w \in Visited
  <2>1. IsGraph(graph) /\ InFrontier \in SUBSET Node
    BY DEF PushInv, Types, InFrontier
  <2>2. w \in Node
    BY <2>1, SuccessorFacts
  <2>3. InNeighbours(graph, w) \cap InFrontier # {}
    BY <1>1, <2>1, <2>2, InEdgeFacts
  <2>4. ~Unprocessed(w)
    BY DEF ParallelForEnds, Unprocessed, PullLabels
  <2> QED BY <2>2, <2>3, <2>4 DEF SearchInv, PullFinds
<1> QED BY <1>1

\* What a sweep found is the next frontier, and if it found nothing the search is complete.
LEMMA SweepEndSearch ==
  ASSUME IInv, PushInv, SearchInv, SweepEnd, opt' = opt PROVE SearchInv'
<1>1. /\ main = "parallel" /\ pending = {} /\ \A t \in Thread : pc[t] = "idle"
      /\ in_frontier' = in_frontier_next /\ in_frontier_next' = [v \in Node |-> FALSE]
      /\ main' = IF cont THEN "sweep" ELSE "done"
      /\ UNCHANGED <<opt, graph, zeroed, symmetric, visited>>
  BY DEF SweepEnd, ParallelForEnds, Cleared, load
<1>2. Visited' = Visited /\ InFrontier' = InFrontierNext /\ InFrontierNext' = {}
  BY <1>1 DEF Visited, InFrontier, InFrontierNext
<1>3. Reported => cont
  BY <1>1 DEF Reported, IInv, Bodies, PullLabels
<1>4. ASSUME symmetric, NEW u \in InFrontier PROVE OutNeighbours(graph, u) \subseteq Visited
  <2>1. Successors(graph, InFrontier) \subseteq Visited
    BY <1>1, <1>4, SweepFindsAll DEF ParallelForEnds
  <2> QED BY <2>1 DEF Successors
<1>5. ASSUME symmetric, opt = 1, NEW u \in Visited
      PROVE  OutNeighbours(graph, u) \subseteq Visited \/ (u \in InFrontierNext /\ cont)
  BY <1>1, <1>3, <1>4, <1>5 DEF SearchInv, PullFinds
<1>6. ASSUME symmetric, main' = "done" PROVE Reachable(graph) \subseteq Visited
  <2>1. CASE opt = 2
    BY <1>1, <2>1 DEF SearchInv, PushFinds
  <2>2. CASE opt = 1
    <3>1. \A u \in Visited : OutNeighbours(graph, u) \subseteq Visited
      BY <1>1, <1>5, <1>6, <2>2
    <3>2. Visited \in SUBSET Node /\ source \in Visited /\ Successors(graph, Visited) \subseteq Visited
      BY <3>1 DEF Successors, PushInv, Claims, Visited
    <3> QED BY <3>2, SuccessorFacts DEF PushInv, Types
  <2> QED BY <2>1, <2>2 DEF PushInv, Types
<1>7. PullFinds'
  BY <1>1, <1>2, <1>5, <1>6 DEF PullFinds
<1>8. Sound' /\ PushFinds' /\ FaultInv'
  BY <1>1, <1>2 DEF SearchInv, Sound, Pushing, Defined, PushFinds, FaultInv
<1> QED BY <1>7, <1>8 DEF SearchInv

\* The vertices of a range are still before the body that takes it.
LEMMA TakeSearch ==
  ASSUME IInv, PushInv, SearchInv, NEW t \in Thread, TakeRange(t), opt' = opt PROVE SearchInv'
<1>1. PICK r \in Ranges(pending) : /\ pending' = pending \ (r[1] .. r[2] - 1)
                                   /\ idx' = [idx EXCEPT ![t] = r[1]]
                                   /\ stop' = [stop EXCEPT ![t] = r[2]]
  BY DEF TakeRange
<1>2. /\ main = "parallel" /\ pc[t] = "idle" /\ pc' = [pc EXCEPT ![t] = "vertex"]
      /\ local_cont' = [local_cont EXCEPT ![t] = FALSE]
      /\ UNCHANGED <<opt, graph, zeroed, symmetric, visited, in_frontier, in_frontier_next, cont, main, beg>>
  BY DEF TakeRange, Goto, load, sweepShared
<1>3. /\ pc \in [Thread -> {"idle"} \cup PushLabels \cup PullLabels]
      /\ idx \in [Thread -> Nat] /\ stop \in [Thread -> Nat] /\ local_cont \in [Thread -> BOOLEAN]
  BY DEF IInv, Typed
<1>4. Visited' = Visited \cup {} /\ InFrontierNext' = InFrontierNext \cup {} /\ InFrontier' = InFrontier
  BY <1>2 DEF Visited, InFrontier, InFrontierNext
<1>5. Reported => Reported'
  <2>1. ~local_cont[t]
    BY <1>2 DEF IInv, Bodies, PullLabels
  <2>2. local_cont' = local_cont
    BY <1>2, <1>3, <2>1
  <2> QED BY <1>2, <2>2 DEF Reported
<1>6. ASSUME NEW v \in Node, Unprocessed(v) PROVE Unprocessed(v)'
  <2>1. CASE v \in pending
    BY <1>1, <1>2, <1>3, <2>1 DEF Unprocessed, PullLabels
  <2>2. CASE \E u \in Thread : pc[u] \in PullLabels /\ v \in idx[u] .. stop[u] - 1
    <3>1. PICK u \in Thread : pc[u] \in PullLabels /\ v \in idx[u] .. stop[u] - 1
      BY <2>2
    <3>2. u # t
      BY <1>2, <3>1 DEF PullLabels
    <3>3. pc'[u] = pc[u] /\ idx'[u] = idx[u] /\ stop'[u] = stop[u]
      BY <1>1, <1>2, <1>3, <3>2
    <3> QED BY <3>1, <3>3 DEF Unprocessed
  <2> QED BY <1>6, <2>1, <2>2 DEF Unprocessed
<1>7. ASSUME symmetric, NEW u \in Thread, pc'[u] = "edge" PROVE Scanning(u)'
  <2>1. pc[u] = "edge" /\ u # t /\ idx'[u] = idx[u]
    BY <1>1, <1>2, <1>3, <1>7
  <2> QED BY <1>2, <1>4, <1>7, <2>1 DEF Scanning, SearchInv, PullFinds
<1>8. /\ main' = "parallel" /\ UNCHANGED <<graph, zeroed, symmetric, in_frontier>>
      /\ {} \in SUBSET Node /\ {} \subseteq Successors(graph, InFrontier)
      /\ \A v \in Node : Unprocessed(v) =>
           Unprocessed(v)' \/ v \in Visited' \/ InNeighbours(graph, v) \cap InFrontier = {}
  BY <1>2, <1>6
<1> QED BY <1>2, <1>4, <1>5, <1>7, <1>8, SweepKeepsSearch

\* A body goes on in its range, without a find, behind a vertex it is done with.
LEMMA MissSearch ==
  ASSUME IInv, PushInv, SearchInv, NEW t \in Thread, pc[t] \in PullLabels,
         UNCHANGED <<opt, graph, zeroed, symmetric, visited, in_frontier, in_frontier_next,
                     cont, local_cont, main, pending, stop>>,
         NEW n \in {idx[t], idx[t] + 1}, idx' = [idx EXCEPT ![t] = n],
         NEW label \in PullLabels, pc' = [pc EXCEPT ![t] = label],
         symmetric /\ n # idx[t] =>
           idx[t] \in Visited \/ InNeighbours(graph, idx[t]) \cap InFrontier = {},
         \A u \in Thread : u # t => beg'[u] = beg[u],
         symmetric /\ label = "edge" => Scanning(t)'
  PROVE  SearchInv'
<1>1. /\ pc \in [Thread -> {"idle"} \cup PushLabels \cup PullLabels]
      /\ idx \in [Thread -> Nat] /\ stop \in [Thread -> Nat]
  BY DEF IInv, Typed
<1>2. main = "parallel"
  BY DEF IInv, Bodies
<1>3. Visited' = Visited \cup {} /\ InFrontierNext' = InFrontierNext \cup {} /\ InFrontier' = InFrontier
  BY DEF Visited, InFrontier, InFrontierNext
<1>4. Reported' = Reported
  BY DEF Reported
<1>5. \A u \in Thread : u # t => pc'[u] = pc[u] /\ idx'[u] = idx[u]
  BY <1>1
<1>6. pc'[t] = label /\ idx'[t] = n
  BY <1>1
<1>7. ASSUME symmetric, NEW v \in Node, Unprocessed(v)
      PROVE  Unprocessed(v)' \/ v \in Visited' \/ InNeighbours(graph, v) \cap InFrontier = {}
  <2>1. CASE v \in pending
    BY <2>1 DEF Unprocessed
  <2>2. CASE \E u \in Thread : pc[u] \in PullLabels /\ v \in idx[u] .. stop[u] - 1
    <3>1. PICK u \in Thread : pc[u] \in PullLabels /\ v \in idx[u] .. stop[u] - 1
      BY <2>2
    <3>2. CASE u # t
      BY <1>5, <3>1, <3>2 DEF Unprocessed
    <3>3. CASE u = t
      <4>1. (v = idx[t] /\ n # idx[t]) \/ v \in n .. stop[t] - 1
        BY <1>1, <3>1, <3>3
      <4> QED BY <1>3, <1>6, <1>7, <4>1 DEF Unprocessed
    <3> QED BY <3>2, <3>3
  <2> QED BY <1>7, <2>1, <2>2 DEF Unprocessed
<1>8. ASSUME symmetric, NEW u \in Thread, pc'[u] = "edge" PROVE Scanning(u)'
  <2>1. CASE u = t
    BY <1>6, <1>8, <2>1
  <2>2. CASE u # t
    BY <1>2, <1>3, <1>5, <1>8, <2>2 DEF Scanning, SearchInv, PullFinds
  <2> QED BY <2>1, <2>2
<1> QED BY <1>2, <1>3, <1>4, <1>7, <1>8, SweepKeepsSearch

\* A body finds the vertex it is at.
LEMMA FindSearch ==
  ASSUME IInv, PushInv, SearchInv, NEW t \in Thread, pc[t] \in PullLabels, idx[t] < stop[t], Find(t),
         UNCHANGED <<opt, graph, zeroed, symmetric, in_frontier, cont, main, pending, stop>>,
         symmetric => idx[t] \in Successors(graph, InFrontier)
  PROVE  SearchInv'
<1>1. /\ pc \in [Thread -> {"idle"} \cup PushLabels \cup PullLabels]
      /\ idx \in [Thread -> Nat] /\ stop \in [Thread -> Nat] /\ local_cont \in [Thread -> BOOLEAN]
      /\ visited \in [Node -> {0, 1}] /\ in_frontier_next \in [Node -> BOOLEAN]
  BY DEF IInv, Typed, PushInv, Types
<1>2. main = "parallel" /\ idx[t] \in Node
  BY <1>1, NodesAssumption DEF IInv, Bodies, Node
<1>3. /\ local_cont' = [local_cont EXCEPT ![t] = TRUE] /\ visited' = [visited EXCEPT ![idx[t]] = 1]
      /\ in_frontier_next' = [in_frontier_next EXCEPT ![idx[t]] = TRUE]
      /\ idx' = [idx EXCEPT ![t] = @ + 1] /\ pc' = [pc EXCEPT ![t] = "vertex"] /\ beg' = beg
  BY DEF Find, Goto
<1>4. Visited' = Visited \cup {idx[t]} /\ InFrontierNext' = InFrontierNext \cup {idx[t]}
      /\ InFrontier' = InFrontier
  BY <1>1, <1>2, <1>3 DEF Visited, InFrontier, InFrontierNext
<1>5. Reported'
  BY <1>1, <1>3 DEF Reported
<1>6. \A u \in Thread : u # t => pc'[u] = pc[u] /\ idx'[u] = idx[u]
  BY <1>1, <1>3
<1>7. pc'[t] = "vertex" /\ idx'[t] = idx[t] + 1
  BY <1>1, <1>3
<1>8. ASSUME NEW v \in Node, Unprocessed(v) PROVE Unprocessed(v)' \/ v \in Visited'
  <2>1. CASE v \in pending
    BY <2>1 DEF Unprocessed
  <2>2. CASE \E u \in Thread : pc[u] \in PullLabels /\ v \in idx[u] .. stop[u] - 1
    <3>1. PICK u \in Thread : pc[u] \in PullLabels /\ v \in idx[u] .. stop[u] - 1
      BY <2>2
    <3>2. CASE u # t
      BY <1>6, <3>1, <3>2 DEF Unprocessed
    <3>3. CASE u = t
      <4>1. v = idx[t] \/ v \in idx[t] + 1 .. stop[t] - 1
        BY <1>1, <3>1, <3>3
      <4> QED BY <1>4, <1>7, <4>1 DEF Unprocessed, PullLabels
    <3> QED BY <3>2, <3>3
  <2> QED BY <1>8, <2>1, <2>2 DEF Unprocessed
<1>9. ASSUME symmetric, NEW u \in Thread, pc'[u] = "edge" PROVE Scanning(u)'
  BY <1>2, <1>3, <1>4, <1>6, <1>7, <1>9 DEF Scanning, SearchInv, PullFinds
<1> QED BY <1>2, <1>4, <1>5, <1>8, <1>9, SweepKeepsSearch

\* A body of the pull loop takes a step.
LEMMA SweepBodySearch ==
  ASSUME IInv, PushInv, SearchInv, NEW t \in Thread, SweepBody(t), opt' = opt PROVE SearchInv'
<1>0. /\ idx \in [Thread -> Nat] /\ beg \in [Thread -> Nat] /\ IsGraph(graph)
      /\ pc \in [Thread -> {"idle"} \cup PushLabels \cup PullLabels]
      /\ visited \in [Node -> {0, 1}] /\ in_frontier \in [Node -> BOOLEAN]
      /\ idx = [idx EXCEPT ![t] = idx[t]] /\ pc = [pc EXCEPT ![t] = pc[t]]
  BY DEF IInv, Typed, PushInv, Types
<1>1. ASSUME pc[t] \in PullLabels, idx[t] < stop[t] PROVE main = "parallel" /\ idx[t] \in Node
  BY <1>1, NodesAssumption DEF IInv, Bodies, Typed, Node
<1>2. CASE ScanVertex(t)
  <2>1. /\ pc[t] = "vertex" /\ idx[t] < stop[t]
        /\ UNCHANGED <<opt, graph, zeroed, symmetric, visited, in_frontier, in_frontier_next,
                       cont, local_cont, main, pending, stop>>
        /\ IF visited[idx[t]] = 1
             THEN idx' = [idx EXCEPT ![t] = @ + 1] /\ UNCHANGED <<pc, beg>>
             ELSE /\ beg' = [beg EXCEPT ![t] = graph.in_edge_offsets[idx[t]]]
                  /\ pc' = [pc EXCEPT ![t] = "edge"] /\ idx' = idx
    BY <1>2 DEF ScanVertex, Goto, sweepShared, load
  <2>2. main = "parallel" /\ idx[t] \in Node
    BY <1>1, <2>1 DEF PullLabels
  <2>3. CASE visited[idx[t]] = 1
    <3>1. idx' = [idx EXCEPT ![t] = idx[t] + 1] /\ pc' = [pc EXCEPT ![t] = "vertex"] /\ beg' = beg
      BY <1>0, <2>1, <2>3
    <3>2. idx[t] \in Visited
      BY <2>2, <2>3 DEF Visited
    <3> QED BY <2>1, <3>1, <3>2, MissSearch DEF PullLabels
  <2>4. CASE visited[idx[t]] # 1
    <3>1. idx' = [idx EXCEPT ![t] = idx[t]] /\ pc' = [pc EXCEPT ![t] = "edge"]
          /\ beg' = [beg EXCEPT ![t] = graph.in_edge_offsets[idx[t]]]
      BY <1>0, <2>1, <2>4
    <3>2. Scanning(t)'
      <4>1. graph.in_edge_offsets[idx[t]] \in Nat
        BY <1>0, <2>2, RowFacts
      <4>2. idx[t] \notin Visited' /\ idx'[t] = idx[t] /\ beg'[t] = graph.in_edge_offsets[idx[t]]
            /\ graph' = graph
        BY <1>0, <2>1, <2>4, <3>1 DEF Visited
      <4> QED BY <4>1, <4>2 DEF Scanning
    <3>3. \A u \in Thread : u # t => beg'[u] = beg[u]
      BY <1>0, <3>1
    <3> QED BY <2>1, <3>1, <3>2, <3>3, MissSearch DEF PullLabels
  <2> QED BY <2>3, <2>4
<1>3. CASE ScanUndefined(t)
  <2>1. /\ pc[t] = "vertex" /\ idx[t] < stop[t] /\ ~symmetric /\ visited[idx[t]] = 0
        /\ UNCHANGED <<opt, graph, zeroed, symmetric, in_frontier, cont, stop>>
        /\ \/ Find(t) /\ UNCHANGED <<main, pending>>
           \/ /\ idx' = [idx EXCEPT ![t] = @ + 1]
              /\ UNCHANGED <<main, pending, pc, beg, local_cont, visited, in_frontier_next>>
           \/ main' = "fault" /\ UNCHANGED <<visited, in_frontier_next>>
    BY <1>3 DEF ScanUndefined, load
  <2>2. main = "parallel" /\ idx[t] \in Node
    BY <1>1, <2>1 DEF PullLabels
  <2>3. CASE Find(t) /\ UNCHANGED <<main, pending>>
    BY <2>1, <2>3, FindSearch DEF PullLabels
  <2>4. CASE /\ idx' = [idx EXCEPT ![t] = @ + 1]
             /\ UNCHANGED <<main, pending, pc, beg, local_cont, visited, in_frontier_next>>
    <3>1. idx' = [idx EXCEPT ![t] = idx[t] + 1] /\ pc' = [pc EXCEPT ![t] = "vertex"]
      BY <1>0, <2>1, <2>4
    <3> QED BY <2>1, <2>4, <3>1, MissSearch DEF PullLabels
  <2>5. CASE main' = "fault" /\ UNCHANGED <<visited, in_frontier_next>>
    <3>1. idx[t] \notin Visited /\ Visited' = Visited
      BY <2>1, <2>5 DEF Visited
    <3>2. Sound' /\ PullFinds'
      BY <2>1, <2>2, <2>5 DEF Sound, Pushing, Defined, PullFinds
    <3>3. PushFinds'
      BY <2>1, <2>2, <2>5, <3>1 DEF SearchInv, PushFinds
    <3>4. FaultInv'
      BY <2>1, <2>2, <3>1 DEF FaultInv
    <3> QED BY <3>2, <3>3, <3>4 DEF SearchInv
  <2> QED BY <2>1, <2>3, <2>4, <2>5
<1>4. CASE ScanEdge(t)
  <2>1. /\ pc[t] = "edge" /\ beg[t] < graph.in_edge_offsets[idx[t] + 1] /\ idx[t] < stop[t]
        /\ UNCHANGED <<opt, graph, zeroed, symmetric, in_frontier, cont, main, pending, stop>>
        /\ IF in_frontier[graph.in_edges[beg[t]]]
             THEN Find(t)
             ELSE /\ beg' = [beg EXCEPT ![t] = @ + 1]
                  /\ UNCHANGED <<local_cont, visited, in_frontier_next, idx, pc>>
    BY <1>4 DEF ScanEdge, load, IInv, Bodies
  <2>2. main = "parallel" /\ idx[t] \in Node
    BY <1>1, <2>1 DEF PullLabels
  <2>3. symmetric => Scanning(t)
    BY <2>1, <2>2 DEF Scanning, SearchInv, PullFinds
  <2>4. /\ graph.in_edge_offsets[idx[t]] \in Nat /\ graph.in_edge_offsets[idx[t] + 1] \in Nat
        /\ beg[t] \in Nat
    BY <1>0, <2>2, RowFacts
  <2>5. CASE in_frontier[graph.in_edges[beg[t]]]
    <3>1. ASSUME symmetric PROVE idx[t] \in Successors(graph, InFrontier)
      <4>1. beg[t] \in graph.in_edge_offsets[idx[t]] .. graph.in_edge_offsets[idx[t] + 1] - 1
        BY <2>1, <2>3, <2>4, <3>1 DEF Scanning
      <4>2. graph.in_edges[beg[t]] \in Node /\ graph.in_edges[beg[t]] \in InNeighbours(graph, idx[t])
        BY <1>0, <2>2, <4>1, RowFacts
      <4>3. graph.in_edges[beg[t]] \in InFrontier /\ InFrontier \in SUBSET Node
        BY <2>5, <4>2 DEF InFrontier
      <4> QED BY <1>0, <2>2, <4>2, <4>3, InEdgeFacts
    <3> QED BY <2>1, <2>5, <3>1, FindSearch DEF PullLabels
  <2>6. CASE ~in_frontier[graph.in_edges[beg[t]]]
    <3>1. idx' = [idx EXCEPT ![t] = idx[t]] /\ pc' = [pc EXCEPT ![t] = "edge"]
          /\ beg' = [beg EXCEPT ![t] = @ + 1]
      BY <1>0, <2>1, <2>6
    <3>2. ASSUME symmetric PROVE Scanning(t)'
      <4>1. /\ idx'[t] = idx[t] /\ beg'[t] = beg[t] + 1 /\ graph' = graph
            /\ Visited' = Visited /\ InFrontier' = InFrontier /\ InFrontierNext' = InFrontierNext
        BY <1>0, <2>1, <2>6, <3>1 DEF Visited, InFrontier, InFrontierNext
      <4>2. graph.in_edges[beg[t]] \notin InFrontier
        BY <2>6 DEF InFrontier
      <4>3. \A k \in graph.in_edge_offsets[idx[t]] .. beg[t] + 1 - 1 :
              k = beg[t] \/ k \in graph.in_edge_offsets[idx[t]] .. beg[t] - 1
        BY <2>4
      <4> QED BY <2>3, <2>4, <3>2, <4>1, <4>2, <4>3 DEF Scanning
    <3>3. \A u \in Thread : u # t => beg'[u] = beg[u]
      BY <1>0, <3>1
    <3>4. UNCHANGED <<local_cont, visited, in_frontier_next>>
      BY <2>1, <2>6
    <3> QED BY <2>1, <3>1, <3>2, <3>3, <3>4, MissSearch DEF PullLabels
  <2> QED BY <2>5, <2>6
<1>5. CASE EndScan(t)
  <2>1. /\ pc[t] = "edge" /\ beg[t] >= graph.in_edge_offsets[idx[t] + 1] /\ idx[t] < stop[t]
        /\ UNCHANGED <<opt, graph, zeroed, symmetric, visited, in_frontier, in_frontier_next,
                       cont, local_cont, main, pending, stop, beg>>
        /\ idx' = [idx EXCEPT ![t] = idx[t] + 1] /\ pc' = [pc EXCEPT ![t] = "vertex"]
    BY <1>5 DEF EndScan, Goto, load, sweepShared, IInv, Bodies
  <2>2. main = "parallel" /\ idx[t] \in Node
    BY <1>1, <2>1 DEF PullLabels
  <2>3. ASSUME symmetric PROVE InNeighbours(graph, idx[t]) \cap InFrontier = {}
    <3>1. /\ graph.in_edge_offsets[idx[t]] \in Nat /\ graph.in_edge_offsets[idx[t] + 1] \in Nat
          /\ beg[t] \in Nat
      BY <1>0, <2>2, RowFacts
    <3>2. Scanning(t)
      BY <2>1, <2>2, <2>3 DEF Scanning, SearchInv, PullFinds
    <3>3. \A k \in graph.in_edge_offsets[idx[t]] .. graph.in_edge_offsets[idx[t] + 1] - 1 :
            k \in graph.in_edge_offsets[idx[t]] .. beg[t] - 1
      BY <2>1, <3>1
    <3> QED BY <3>2, <3>3 DEF Scanning, InNeighbours
  <2> QED BY <2>1, <2>3, MissSearch DEF PullLabels
<1>6. CASE EndRange(t)
  <2>1. /\ pc[t] = "vertex" /\ idx[t] >= stop[t] /\ cont' = (local_cont[t] \/ cont)
        /\ idx' = [idx EXCEPT ![t] = 0] /\ stop' = [stop EXCEPT ![t] = 0]
        /\ beg' = [beg EXCEPT ![t] = 0] /\ local_cont' = [local_cont EXCEPT ![t] = FALSE]
        /\ pc' = [pc EXCEPT ![t] = "idle"]
        /\ UNCHANGED <<opt, graph, zeroed, symmetric, visited, in_frontier, in_frontier_next,
                       main, pending>>
    BY <1>6 DEF EndRange, ContAfter, Goto, load
  <2>2. main = "parallel" /\ main' = "parallel"
    BY <2>1 DEF IInv, Bodies, PullLabels
  <2>3. /\ stop \in [Thread -> Nat] /\ local_cont \in [Thread -> BOOLEAN]
    BY DEF IInv, Typed
  <2>4. Visited' = Visited \cup {} /\ InFrontierNext' = InFrontierNext \cup {} /\ InFrontier' = InFrontier
    BY <2>1 DEF Visited, InFrontier, InFrontierNext
  <2>5. Reported => Reported'
    BY <2>1, <2>3 DEF Reported
  <2>6. \A u \in Thread : u # t => UNCHANGED <<pc[u], idx[u], stop[u], beg[u]>>
    BY <1>0, <2>1, <2>3
  <2>7. idx[t] .. stop[t] - 1 = {}
    BY <1>0, <2>1, <2>3
  <2>8. \A v \in Node : Unprocessed(v) => Unprocessed(v)'
    BY <2>1, <2>6, <2>7 DEF Unprocessed
  <2>9. ASSUME symmetric, NEW u \in Thread, pc'[u] = "edge" PROVE Scanning(u)'
    <3>1. u # t
      BY <1>0, <2>1, <2>9
    <3> QED BY <2>1, <2>2, <2>4, <2>6, <2>9, <3>1 DEF Scanning, SearchInv, PullFinds
  <2>10. /\ {} \in SUBSET Node /\ {} \subseteq Successors(graph, InFrontier)
         /\ \A v \in Node : Unprocessed(v) =>
              Unprocessed(v)' \/ v \in Visited' \/ InNeighbours(graph, v) \cap InFrontier = {}
    BY <2>8
  <2> QED BY <2>1, <2>2, <2>4, <2>5, <2>9, <2>10, SweepKeepsSearch
<1> QED BY <1>2, <1>3, <1>4, <1>5, <1>6 DEF SweepBody

\* A step that changes nothing.
LEMMA SearchSame == ASSUME SearchInv, UNCHANGED vars PROVE SearchInv'
<1> USE DEF vars, sweepVars, load, sweepShared, sweepLocals, pushVars, pushShared, pushLocals
<1>1. /\ Visited' = Visited /\ FrontierSet' = FrontierSet /\ Claimed' = Claimed
      /\ InFrontier' = InFrontier /\ InFrontierNext' = InFrontierNext
  BY DEF Visited, FrontierSet, Claimed, InFrontier, InFrontierNext
<1>2. Sound' /\ FaultInv'
  BY <1>1 DEF SearchInv, Sound, Pushing, Defined, FaultInv
<1>3. Uncounted' = Uncounted
  <2>1. \A t \in Thread : Owned(t)' = Owned(t)
    BY DEF Owned, AtEdge
  <2> QED BY <2>1 DEF Uncounted
<1>4. PushFinds'
  BY <1>1, <1>3 DEF SearchInv, PushFinds, Pushed, AtEdge
<1>5. PullFinds'
  BY <1>1 DEF SearchInv, PullFinds, Unprocessed, Reported
<1> QED BY <1>2, <1>4, <1>5 DEF SearchInv

\* SearchInv is inductive, with the layers before it.
LEMMA SearchInvNext ==
  ASSUME IInv, PushInv, CountInv, SearchInv, [Next]_vars PROVE SearchInv'
<1>1. ASSUME NEW t \in Thread, PushBody(t), opt' = opt PROVE SearchInv'
  BY <1>1, PushVertexSearch, PushCasSearch, PushBackSearch, PushEndVertexSearch, PushEndRangeSearch
     DEF PushBody
<1>2. CASE SweepStep
  BY <1>2, SweepLaunchSearch, SweepEndSearch, TakeSearch, SweepBodySearch DEF SweepStep, SweepMain
<1> QED BY <1>1, <1>2, StepCases, PushMainSearch, PushTakeSearch, SearchSame

Inv == IInv /\ PushInv /\ CountInv /\ SearchInv

\* All layers hold in every reachable state.
LEMMA InvHolds == SafeSpec => []Inv
<1>1. Init => Inv
  BY InitInv, PushInvInit, CountInvInit, SearchInit DEF Inv
<1>2. Inv /\ [Next]_vars => Inv'
  BY NextInv, PushInvNext, CountInvNext, SearchInvNext DEF Inv
<1> QED BY <1>1, <1>2, PTL DEF SafeSpec

\* When a traversal returns, visited[] marks what is reachable: all of it with
\* the in-edges or behind the push loop, and nothing else with the in-edges and
\* on zeroed arrays.
THEOREM TraversalsAreCorrect == SafeSpec => []VisitedIsReachable
<1>1. Inv => VisitedIsReachable
  BY DEF Inv, SearchInv, Sound, Pushing, Defined, PushFinds, PullFinds, VisitedIsReachable,
         PushInv, Types
<1> QED BY <1>1, InvHolds, PTL

\* Without the in-edges the pull loop kills the process at a vertex that is not
\* visited, which behind the push loop is one that is not reachable.
THEOREM HybridRunsWithoutInEdges == SafeSpec => []HybridNeedsNoInEdges
<1>1. Inv => HybridNeedsNoInEdges
  <2> SUFFICES ASSUME Inv, main = "fault" PROVE ~symmetric /\ (opt = 2 => Reachable(graph) # Node)
    BY DEF HybridNeedsNoInEdges
  <2>1. ~symmetric /\ Visited # Node /\ Visited \subseteq Node
    BY DEF Inv, SearchInv, FaultInv, Visited
  <2>2. opt = 2 => Reachable(graph) \subseteq Visited
    BY DEF Inv, SearchInv, PushFinds
  <2> QED BY <2>1, <2>2
<1> QED BY <1>1, InvHolds, PTL

-----------------------------------------------------------------------------
(* Both traversals are a level-synchronous search. *)

\* What the search of BfsLevels has reached, and its last level.
reachedBar ==
  CASE ~Pushing /\ ~Defined -> IF opt = 2 THEN Reachable(graph) ELSE {source}
    [] main = "push" -> Visited \ Claimed
    [] main = "parallel" /\ Defined -> Visited \ InFrontierNext
    [] OTHER -> Visited
levelBar ==
  CASE ~Pushing /\ ~Defined -> IF opt = 2 THEN {} ELSE {source}
    [] Pushing -> FrontierSet
    [] OTHER -> InFrontier

\* The cases of the two definitions exclude one another.
BarCases ==
  /\ ~Pushing /\ ~Defined => /\ reachedBar = IF opt = 2 THEN Reachable(graph) ELSE {source}
                             /\ levelBar = IF opt = 2 THEN {} ELSE {source}
  /\ main \in {"head", "mark"} => reachedBar = Visited /\ levelBar = FrontierSet
  /\ main = "push" => reachedBar = Visited \ Claimed /\ levelBar = FrontierSet
  /\ Defined /\ main = "parallel" => reachedBar = Visited \ InFrontierNext /\ levelBar = InFrontier
  /\ Defined /\ main \in {"sweep", "done"} => reachedBar = Visited /\ levelBar = InFrontier

\* The cases exclude one another, now and after a step.
LEMMA BarFacts == BarCases /\ BarCases'
<1>1. BarCases
  BY DEF BarCases, reachedBar, levelBar, Pushing
<1> QED BY <1>1, PTL

\* A step completes a level, or changes nothing.
LevelStep ==
  \/ /\ levelBar # {}
     /\ levelBar' = Successors(graph, levelBar) \ reachedBar
     /\ reachedBar' = reachedBar \cup levelBar'
     /\ graph' = graph
  \/ UNCHANGED <<graph, reachedBar, levelBar>>

\* The end of a level: what it found is new, and all there is to find.
LEMMA LevelEnds ==
  ASSUME NEW F, NEW V, NEW L, V \cap L = {}, L \subseteq Successors(graph, F),
         Successors(graph, F) \subseteq V \cup L,
         reachedBar = V, levelBar = F, reachedBar' = V \cup L, levelBar' = L, graph' = graph
  PROVE  LevelStep
<1>1. CASE F = {}
  <2>1. L = {}
    BY <1>1 DEF Successors
  <2> QED BY <1>1, <2>1 DEF LevelStep
<1>2. CASE F # {}
  <2>1. L = Successors(graph, F) \ V
    OBVIOUS
  <2> QED BY <1>2, <2>1 DEF LevelStep
<1> QED BY <1>1, <1>2

\* The push loop completes a level when its bodies have returned.
LEMMA PushMainLevel == ASSUME Inv, PushMain, opt' = opt PROVE LevelStep
<1>0. IInv /\ PushInv /\ CountInv /\ SearchInv
  BY DEF Inv
<1>1. CASE PushHead
  <2>1. /\ main = "head" /\ main' \in {"mark", "push"}
        /\ UNCHANGED <<graph, visited, pc, frontier, frontier_next, dst>>
    BY <1>1 DEF PushHead, load, pushLocals
  <2>2. Visited' = Visited /\ FrontierSet' = FrontierSet
    BY <2>1 DEF Visited, FrontierSet
  <2>3. Claimed' = {}
    BY <1>0, <2>1 DEF Claimed, ToSet, PushLabels, PushInv, Claims, IInv, Bodies
  <2>4. reachedBar = Visited /\ levelBar = FrontierSet
    BY <2>1, BarFacts DEF BarCases
  <2>5. reachedBar' = Visited /\ levelBar' = FrontierSet
    BY <2>1, <2>2, <2>3, BarFacts DEF BarCases
  <2> QED BY <2>1, <2>4, <2>5 DEF LevelStep
<1>2. CASE PushJoin
  <2>1. /\ main = "push" /\ main' = "head" /\ ParallelForEnds(pending, pc)
        /\ frontier' = frontier_next /\ UNCHANGED <<graph, visited>>
    BY <1>2 DEF PushJoin, load
  <2>2. Visited' = Visited /\ Claimed = FrontierSet'
    BY <2>1 DEF Visited, Claimed, FrontierSet, ParallelForEnds
  <2>3. /\ Claimed \subseteq Visited /\ Claimed \subseteq Successors(graph, FrontierSet)
        /\ Successors(graph, FrontierSet) \subseteq Visited
    BY <1>0, <2>1, PushFindsAll DEF PushInv, Claims, SearchInv, PushFinds
  <2>4. reachedBar = Visited \ Claimed /\ levelBar = FrontierSet
    BY <2>1, BarFacts DEF BarCases
  <2>5. reachedBar' = Visited /\ levelBar' = Claimed
    BY <2>1, <2>2, BarFacts DEF BarCases
  <2>6. /\ (Visited \ Claimed) \cap Claimed = {} /\ (Visited \ Claimed) \cup Claimed = Visited
    BY <2>3
  <2> QED BY <2>1, <2>3, <2>4, <2>5, <2>6, LevelEnds
<1>3. CASE MarkFrontier
  <2>1. /\ main = "mark" /\ main' = "sweep"
        /\ \E mem \in MallocArrays' :
             in_frontier' = [v \in Node |-> mem[v] \/ v \in ToSet(frontier)]
        /\ UNCHANGED <<opt, graph, symmetric, visited>>
    BY <1>3 DEF MarkFrontier
  <2>2. opt = 2 /\ Visited = Reachable(graph) /\ Visited' = Visited
    BY <1>0, <2>1 DEF SearchInv, Sound, Pushing, PushFinds, Visited
  <2>3. FrontierSet = {} /\ ToSet(frontier) = {}
    BY <1>0, <2>1 DEF CountInv, Sums, FrontierSet, ToSet
  <2>4. zeroed' => InFrontier' = {}
    BY <2>1, <2>3 DEF MallocArrays, InFrontier
  <2>5. reachedBar = Visited /\ levelBar = {}
    BY <2>1, <2>3, BarFacts DEF BarCases
  <2>6. reachedBar' = Visited /\ levelBar' = {}
    <3>1. CASE Defined'
      BY <2>1, <2>2, <2>4, <3>1, BarFacts DEF BarCases, Defined
    <3>2. CASE ~Defined'
      BY <2>1, <2>2, <3>2, BarFacts DEF BarCases, Pushing
    <3> QED BY <3>1, <3>2
  <2> QED BY <2>1, <2>5, <2>6 DEF LevelStep
<1> QED BY <1>1, <1>2, <1>3 DEF PushMain

\* The bodies of the push loop do not show: their claims do not count yet.
LEMMA PushBodyLevel ==
  ASSUME Inv, NEW t \in Thread, PushTakeRange(t) \/ PushBody(t), opt' = opt PROVE LevelStep
<1>0. IInv /\ PushInv /\ CountInv /\ SearchInv
  BY DEF Inv
<1>1. main = "push" /\ UNCHANGED <<graph, main, frontier>>
  BY <1>0, PushBodyFrame DEF PushTakeRange, load, pushVars, pushShared
<1>2. Visited' \ Claimed' = Visited \ Claimed
  <2>1. /\ pc \in [Thread -> {"idle"} \cup PushLabels \cup PullLabels]
        /\ dst \in [Thread -> Node]
    BY <1>0 DEF IInv, Typed, PushInv, Types, PushTypeOK
  <2>2. CASE PushCas(t)
    BY <1>0, <2>2, CasClaims
  <2>3. CASE PushBack(t)
    BY <1>0, <2>3, PushBackPush DEF PushBack, Visited
  <2>4. CASE PushTakeRange(t) \/ PushVertex(t) \/ PushEndVertex(t) \/ PushEndRange(t)
    <3>1. UNCHANGED <<visited, frontier_next>>
      BY <2>4 DEF PushTakeRange, PushVertex, PushEndVertex, PushEndRange, pushVars, pushShared
    <3>2. \A u \in Thread : /\ pc'[u] = "push_back" <=> pc[u] = "push_back"
                            /\ pc[u] = "push_back" => dst'[u] = dst[u]
      BY <2>1, <2>4 DEF PushTakeRange, PushVertex, PushEndVertex, PushEndRange, Goto,
                        pushVars, pushLocals
    <3> QED BY <3>1, <3>2 DEF Visited, Claimed
  <2> QED BY <2>2, <2>3, <2>4 DEF PushBody
<1>3. FrontierSet' = FrontierSet
  BY <1>1 DEF FrontierSet
<1>4. reachedBar = Visited \ Claimed /\ levelBar = FrontierSet
  BY <1>1, BarFacts DEF BarCases
<1>5. reachedBar' = Visited \ Claimed /\ levelBar' = FrontierSet
  BY <1>1, <1>2, <1>3, BarFacts DEF BarCases
<1> QED BY <1>1, <1>4, <1>5 DEF LevelStep

\* The pull loop completes a level when it swaps the arrays.
LEMMA SweepLevel == ASSUME Inv, Inv', SweepStep PROVE LevelStep
<1>0. IInv /\ PushInv /\ CountInv /\ SearchInv
  BY DEF Inv
<1>1. /\ UNCHANGED <<opt, graph, zeroed, symmetric>>
      /\ main \in {"sweep", "parallel"} /\ main' \in {"sweep", "parallel", "done", "fault"}
  BY <1>0, SweepFrame DEF load
<1>2. CASE ~Defined
  <2>1. ~Pushing /\ ~Pushing' /\ ~Defined' /\ Reachable(graph)' = Reachable(graph)
    BY <1>1, <1>2 DEF Pushing, Defined
  <2> QED BY <1>1, <1>2, <2>1, BarFacts DEF BarCases, LevelStep
<1>3. CASE Defined
  <2>0. Defined' /\ zeroed /\ symmetric /\ main' # "fault"
    BY <1>1, <1>3 DEF Defined, Inv, SearchInv, FaultInv
  <2>1. CASE SweepLaunch
    <3>1. main = "sweep" /\ main' = "parallel" /\ UNCHANGED <<visited, in_frontier, in_frontier_next>>
      BY <2>1 DEF SweepLaunch
    <3>2. InFrontierNext = {}
      BY <1>0, <2>0, <3>1 DEF IInv, News
    <3>3. Visited' = Visited /\ InFrontier' = InFrontier /\ InFrontierNext' = InFrontierNext
      BY <3>1 DEF Visited, InFrontier, InFrontierNext
    <3>4. reachedBar = Visited /\ levelBar = InFrontier
      BY <1>3, <3>1, BarFacts DEF BarCases
    <3>5. reachedBar' = Visited /\ levelBar' = InFrontier
      BY <2>0, <3>1, <3>2, <3>3, BarFacts DEF BarCases
    <3> QED BY <1>1, <3>4, <3>5 DEF LevelStep
  <2>2. CASE SweepEnd
    <3>1. /\ main = "parallel" /\ main' \in {"sweep", "done"} /\ ParallelForEnds(pending, pc)
          /\ in_frontier' = in_frontier_next /\ UNCHANGED visited
      BY <2>2 DEF SweepEnd
    <3>2. Visited' = Visited /\ InFrontier' = InFrontierNext
      BY <3>1 DEF Visited, InFrontier, InFrontierNext
    <3>3. /\ InFrontierNext \subseteq Visited /\ InFrontierNext \subseteq Successors(graph, InFrontier)
          /\ Successors(graph, InFrontier) \subseteq Visited
      BY <1>0, <1>3, <2>0, <3>1, SweepFindsAll DEF SearchInv, Sound, Pushing, PullFinds
    <3>4. reachedBar = Visited \ InFrontierNext /\ levelBar = InFrontier
      BY <1>3, <3>1, BarFacts DEF BarCases
    <3>5. reachedBar' = Visited /\ levelBar' = InFrontierNext
      BY <2>0, <3>1, <3>2, BarFacts DEF BarCases
    <3>6. /\ (Visited \ InFrontierNext) \cap InFrontierNext = {}
          /\ (Visited \ InFrontierNext) \cup InFrontierNext = Visited
      BY <3>3
    <3> QED BY <1>1, <3>3, <3>4, <3>5, <3>6, LevelEnds
  <2>3. ASSUME NEW t \in Thread, TakeRange(t) \/ SweepBody(t) PROVE LevelStep
    <3>1. main = "parallel" /\ main' = "parallel" /\ InFrontier' = InFrontier
      <4>1. UNCHANGED in_frontier /\ (main' = main \/ main' = "fault")
        BY <2>3 DEF TakeRange, SweepBody, ScanVertex, ScanUndefined, ScanEdge, EndScan, EndRange,
                    sweepShared
      <4>2. main = "parallel"
        BY <1>0, <2>3 DEF TakeRange, SweepBody, ScanVertex, ScanUndefined, ScanEdge, EndScan, EndRange,
                          IInv, Bodies, PullLabels
      <4> QED BY <2>0, <4>1, <4>2 DEF InFrontier
    <3>2. Visited' \ InFrontierNext' = Visited \ InFrontierNext
      <4>1. CASE UNCHANGED <<visited, in_frontier_next>>
        BY <4>1 DEF Visited, InFrontierNext
      <4>2. CASE ScanEdge(t) /\ Find(t)
        <5>1. /\ pc[t] = "edge" /\ visited' = [visited EXCEPT ![idx[t]] = 1]
              /\ in_frontier_next' = [in_frontier_next EXCEPT ![idx[t]] = TRUE]
          BY <4>2 DEF ScanEdge, Find
        <5>2. visited \in [Node -> {0, 1}] /\ in_frontier_next \in [Node -> BOOLEAN]
          BY <1>0 DEF IInv, Typed, PushInv, Types
        <5>3. idx[t] \in Node
          BY <1>0, <5>1, NodesAssumption DEF IInv, Bodies, Typed, PullLabels, Node
        <5>4. idx[t] \in Visited => idx[t] \in InFrontierNext
          BY <1>0, <2>0, <3>1, <5>1 DEF SearchInv, PullFinds
        <5>5. Visited' = Visited \cup {idx[t]} /\ InFrontierNext' = InFrontierNext \cup {idx[t]}
          BY <5>1, <5>2, <5>3 DEF Visited, InFrontierNext
        <5> QED BY <5>4, <5>5
      <4> QED BY <2>0, <2>3, <4>1, <4>2
              DEF TakeRange, SweepBody, ScanVertex, ScanUndefined, ScanEdge, EndScan, EndRange, sweepShared
    <3>3. reachedBar = Visited \ InFrontierNext /\ levelBar = InFrontier
      BY <1>3, <3>1, BarFacts DEF BarCases
    <3>4. reachedBar' = Visited \ InFrontierNext /\ levelBar' = InFrontier
      BY <2>0, <3>1, <3>2, BarFacts DEF BarCases
    <3> QED BY <1>1, <3>3, <3>4 DEF LevelStep
  <2> QED BY <2>1, <2>2, <2>3 DEF SweepStep, SweepMain
<1> QED BY <1>2, <1>3

\* Every step completes a level or does not show.
LEMMA NextLevelStep == ASSUME Inv, Inv', [Next]_vars PROVE LevelStep
<1>1. CASE UNCHANGED vars
  <2> USE <1>1 DEF vars, sweepVars, load, sweepShared, sweepLocals, pushVars, pushShared, pushLocals
  <2>1. /\ Visited' = Visited /\ FrontierSet' = FrontierSet /\ Claimed' = Claimed
        /\ InFrontier' = InFrontier /\ InFrontierNext' = InFrontierNext
    BY DEF Visited, FrontierSet, Claimed, InFrontier, InFrontierNext
  <2>2. (Pushing' <=> Pushing) /\ (Defined' <=> Defined) /\ Reachable(graph)' = Reachable(graph)
    BY DEF Pushing, Defined
  <2> QED BY <2>1, <2>2 DEF LevelStep, reachedBar, levelBar
<1> QED BY <1>1, StepCases, PushMainLevel, PushBodyLevel, SweepLevel

\* The search starts with the source.
LEMMA InitLevel == ASSUME Init PROVE reachedBar = {source} /\ levelBar = {source}
<1>1. Visited = {source}
  BY SourceAssumption DEF Init, Visited
<1>2. CASE opt = 2
  <2>1. main = "head" /\ FrontierSet = {source}
    BY <1>2 DEF Init, FrontierSet, ToSet
  <2> QED BY <1>1, <2>1, BarFacts DEF BarCases
<1>3. CASE opt = 1
  <2>1. main = "sweep" /\ (zeroed => InFrontier = {source})
    BY <1>3, SourceAssumption DEF Init, InFrontier, MallocArrays
  <2>2. CASE Defined
    BY <1>1, <2>1, <2>2, BarFacts DEF BarCases, Defined
  <2>3. CASE ~Defined
    BY <1>3, <2>1, <2>3, BarFacts DEF BarCases, Pushing
  <2> QED BY <2>2, <2>3
<1> QED BY <1>2, <1>3 DEF Init

\* Every behaviour of bfs_pull and of bfs_pushpull is one of the
\* level-synchronous search, for as long as the search is determined.
THEOREM RefinesLevels == SafeSpec => ImplementsLevels
<1>1. Init => Levels!Init
  <2> SUFFICES ASSUME Init PROVE Levels!Init
    OBVIOUS
  <2> QED BY InitLevel DEF Levels!Init, reachedBar, levelBar, Init
<1>2. Inv /\ Inv' /\ [Next]_vars => [Levels!Next]_(Levels!vars)
  <2> SUFFICES ASSUME Inv, Inv', [Next]_vars PROVE [Levels!Next]_(Levels!vars)
    OBVIOUS
  <2>1. LevelStep
    BY NextLevelStep
  <2>2. \A S : Levels!Successors(graph, S) = Successors(graph, S)
    BY DEF Levels!Successors, Levels!OutNeighbours, Successors, OutNeighbours
  <2> QED BY <2>1, <2>2 DEF LevelStep, reachedBar, levelBar, Levels!Next, Levels!NextLevel, Levels!vars
<1> QED BY <1>1, <1>2, InvHolds, PTL DEF SafeSpec, ImplementsLevels, Levels!SafeSpec
=============================================================================

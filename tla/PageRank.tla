------------------------------ MODULE PageRank ------------------------------
(***************************************************************************)
(* pr_hub and pr_push (src/pagerank.cpp).  A round is two parallel_for:    *)
(* the first adds half of prev of every vertex to rank of its neighbours   *)
(* with atomicAdd (include/util.h), a load and a compare-and-swap that is  *)
(* tried again when rank has changed in between; the second halves rank    *)
(* into prev and clears it.  prev is only written where rank is not read   *)
(* by others, so everything else of a body is one step per vertex.         *)
(***************************************************************************)
EXTENDS EdgeSums, TaskArena

CONSTANTS Graphs, Iterations, Opts  \* the calls considered

ASSUME GraphsAssumption ==
  \A g \in Graphs : g.nb_edges \in Nat /\ IsCsr(g.out_edge_offsets, g.out_edges, g.nb_edges)
ASSUME IterationsAssumption == Iterations \subseteq Int

VARIABLES graph, iteration, opt, rank, prev, it, main, pending, pc, idx, stop, beg, old_val

call == <<graph, iteration, opt>>
locals == <<idx, stop, beg, old_val>>
vars == <<call, rank, prev, it, main, pending, pc, locals>>

Init ==
  /\ graph \in Graphs /\ iteration \in Iterations /\ opt \in Opts
  /\ rank = [v \in Node |-> 0] /\ prev = [v \in Node |-> 0]
  /\ it = 0
  /\ main = IF iteration # 0 THEN "fill" ELSE "assert"
  /\ pending = IF main = "fill" THEN Node ELSE {}
  /\ pc = [t \in Thread |-> "idle"]
  /\ idx = [t \in Thread |-> 0] /\ stop = [t \in Thread |-> 0]
  /\ beg = [t \in Thread |-> 0] /\ old_val = [t \in Thread |-> 0]

-----------------------------------------------------------------------------
(* The calling thread. *)

\* prev is filled; switch(opt).  pr_pull is empty.
Choose ==
  /\ main = "fill" /\ ParallelForEnds(pending, pc)
  /\ main' = CASE opt = 0 -> "head" [] opt = 1 -> "done" [] OTHER -> "die"
  /\ UNCHANGED <<call, rank, prev, it, pending, pc, locals>>

\* while(it++ < iteration)
NextRound ==
  /\ main = "head"
  /\ it' = it + 1
  /\ IF it < iteration THEN main' = "push" /\ pending' = Node
                       ELSE main' = "done" /\ UNCHANGED pending
  /\ UNCHANGED <<call, rank, prev, pc, locals>>

PushJoin ==
  /\ main = "push" /\ ParallelForEnds(pending, pc)
  /\ main' = "halve" /\ pending' = Node
  /\ UNCHANGED <<call, rank, prev, it, pc, locals>>

HalveJoin ==
  /\ main = "halve" /\ ParallelForEnds(pending, pc)
  /\ main' = "head"
  /\ UNCHANGED <<call, rank, prev, it, pending, pc, locals>>

-----------------------------------------------------------------------------
(* The bodies of the three parallel_for. *)

Goto(t, label) == pc' = [pc EXCEPT ![t] = label]

TakeRange(t) ==
  /\ pc[t] = "idle" /\ ArenaHasRoom(pc)
  /\ \E r \in Ranges(pending) :
       /\ pending' = pending \ (r[1] .. r[2] - 1)
       /\ idx' = [idx EXCEPT ![t] = r[1]] /\ stop' = [stop EXCEPT ![t] = r[2]]
  /\ Goto(t, "vertex")
  /\ UNCHANGED <<call, rank, prev, it, main, beg, old_val>>

EndRange(t) ==
  /\ pc[t] = "vertex" /\ idx[t] = stop[t]
  /\ idx' = [idx EXCEPT ![t] = 0] /\ stop' = [stop EXCEPT ![t] = 0]
  /\ beg' = [beg EXCEPT ![t] = 0]
  /\ Goto(t, "idle")
  /\ UNCHANGED <<call, rank, prev, it, main, pending, old_val>>

Vertex(t) == pc[t] = "vertex" /\ idx[t] # stop[t]
NextVertex(t) == idx' = [idx EXCEPT ![t] = @ + 1]

FillVertex(t) ==
  /\ main = "fill" /\ Vertex(t)
  /\ prev' = [prev EXCEPT ![idx[t]] = 4]
  /\ NextVertex(t)
  /\ UNCHANGED <<call, rank, it, main, pending, pc, stop, beg, old_val>>

\* (Mutant) rank is not cleared for the next round.
Kept(v) == rank[v]

Reset(v) == 0

HalveVertex(t) ==
  /\ main = "halve" /\ Vertex(t)
  /\ prev' = [prev EXCEPT ![idx[t]] = rank[idx[t]] \div 2]
  /\ rank' = [rank EXCEPT ![idx[t]] = Reset(idx[t])]
  /\ NextVertex(t)
  /\ UNCHANGED <<call, it, main, pending, pc, stop, beg, old_val>>

\* beg of the vertex; delta stays prev[i]/2, as nobody writes prev meanwhile.
PushVertex(t) ==
  /\ main = "push" /\ Vertex(t)
  /\ beg' = [beg EXCEPT ![t] = graph.out_edge_offsets[idx[t]]]
  /\ Goto(t, "edge")
  /\ UNCHANGED <<call, rank, prev, it, main, pending, idx, stop, old_val>>

HasEdge(t) == beg[t] < graph.out_edge_offsets[idx[t] + 1]
Dst(t) == graph.out_edges[beg[t]]

EndVertex(t) ==
  /\ pc[t] = "edge" /\ ~HasEdge(t)
  /\ NextVertex(t)
  /\ Goto(t, "vertex")
  /\ UNCHANGED <<call, rank, prev, it, main, pending, stop, beg, old_val>>

\* old_val = *ptr;
Load(t) ==
  /\ pc[t] = "edge" /\ HasEdge(t)
  /\ old_val' = [old_val EXCEPT ![t] = rank[Dst(t)]]
  /\ Goto(t, "cas")
  /\ UNCHANGED <<call, rank, prev, it, main, pending, idx, stop, beg>>

\* (Mutant) the new value is stored whatever is there.
Overwrite(t) == TRUE

Unchanged(t) == rank[Dst(t)] = old_val[t]

\* (Mutant) only the swap is tried again, with the old old_val.
SwapAgain == "cas"

LoadAgain == "edge"

\* __sync_bool_compare_and_swap(ptr, old_val, old_val + delta)
Cas(t) ==
  /\ pc[t] = "cas"
  /\ IF Unchanged(t)
       THEN /\ rank' = [rank EXCEPT ![Dst(t)] = (old_val[t] + prev[idx[t]] \div 2) % PropModulus]
            /\ beg' = [beg EXCEPT ![t] = @ + 1]
            /\ Goto(t, "edge")
       ELSE Goto(t, LoadAgain) /\ UNCHANGED <<rank, beg>>
  /\ old_val' = [old_val EXCEPT ![t] = IF pc'[t] = "cas" THEN @ ELSE 0]
  /\ UNCHANGED <<call, prev, it, main, pending, idx, stop>>

-----------------------------------------------------------------------------
Terminated == main \in {"assert", "die", "done"} /\ UNCHANGED vars

MainStep == Choose \/ NextRound \/ PushJoin \/ HalveJoin
BodyStep(t) ==
  \/ EndRange(t) \/ FillVertex(t) \/ HalveVertex(t)
  \/ PushVertex(t) \/ EndVertex(t) \/ Load(t) \/ Cas(t)

Next ==
  \/ MainStep
  \/ \E t \in Thread : TakeRange(t) \/ BodyStep(t)
  \/ Terminated

SafeSpec == Init /\ [][Next]_vars

\* Every running thread makes progress and every range is handed out.
Spec ==
  /\ SafeSpec
  /\ WF_vars(MainStep)
  /\ WF_vars(\E t \in Thread : TakeRange(t))
  /\ \A t \in Thread : WF_vars(BodyStep(t))

-----------------------------------------------------------------------------
(* Properties. *)

\* The body that has v has not come to it yet, or nobody has it.
Waiting(v) == v \in pending \/ \E t \in Thread : v \in idx[t] .. stop[t] - 1

\* Where the scores of PageRounds are: in the second loop partly still in rank.
scoreBar ==
  CASE main \in {"assert", "fill"} -> [v \in Node |-> 4]
    [] main = "halve" -> [v \in Node |-> IF Waiting(v) THEN rank[v] \div 2 ELSE prev[v]]
    [] OTHER -> prev

roundBar == IF main = "push" \/ (main = "done" /\ it > 0) THEN it - 1 ELSE it

Rounds == INSTANCE PageRounds WITH score <- scoreBar, round <- roundBar

\* The edge at position k has been added in this round.
Added(k) ==
  LET u == SourceOf(graph, k) IN
    \/ ~Waiting(u)
    \/ \E t \in Thread : pc[t] \in {"edge", "cas"} /\ idx[t] = u /\ k < beg[t]

\* No addition gets lost and none is made twice, whatever the others did
\* between the load and the swap, also when a sum comes back to the value that
\* was loaded: rank holds the sum of the deltas of the edges pushed so far.
AddsAreExact ==
  main = "push" =>
    \A v \in Node :
      rank[v] = Received(graph, prev, {k \in 0 .. graph.nb_edges - 1 : Added(k)}, v)

\* The rounds are those of PageRounds: prev is never read half old, half new,
\* and no delta reaches another round.
ImplementsRounds == Rounds!SafeSpec

\* pr_hub returns, pr_push after all its rounds: a swap fails only when
\* another one has succeeded.
PrEnds ==
  <>(\/ main \in {"assert", "die"}
     \/ main = "done" /\ (opt = 0 /\ iteration > 0 => it = iteration + 1))
=============================================================================

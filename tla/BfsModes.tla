------------------------------ MODULE BfsModes ------------------------------
(***************************************************************************)
(* The two traversals of src/bfs.cpp that pull, chosen by -m: bfs_pull     *)
(* (opt = 1), which is the pull loop from the source on, and bfs_pushpull  *)
(* (opt = 2), which enters the pull loop when its push loop is done.  The  *)
(* frontier arrays of the pull loop come from malloc and are not cleared.  *)
(***************************************************************************)
EXTENDS BfsPushPull

CONSTANT LoadedWithout   \* the graphs that are considered without -s, too

VARIABLE opt

vars == <<opt, sweepVars, pushVars>>

Init ==
  /\ opt \in {1, 2}
  /\ graph \in Graphs
  /\ symmetric \in {TRUE} \cup {graph \notin LoadedWithout}
  /\ visited = [v \in Node |-> IF v = source THEN 1 ELSE 0]
  /\ \/ /\ opt = 1 /\ main = "sweep" /\ frontier = <<>>
        /\ zeroed \in BOOLEAN
        /\ \E mem \in MallocArrays : in_frontier = [mem EXCEPT ![source] = TRUE]
        /\ in_frontier_next \in MallocArrays
     \/ /\ opt = 2 /\ main = "head" /\ frontier = <<source>> /\ zeroed = TRUE
        /\ in_frontier = [v \in Node |-> FALSE]
        /\ in_frontier_next = [v \in Node |-> FALSE]
  /\ cont = FALSE /\ pending = {}
  /\ pc = [t \in Thread |-> "idle"]
  /\ idx = [t \in Thread |-> 0] /\ stop = [t \in Thread |-> 0]
  /\ beg = [t \in Thread |-> 0] /\ local_cont = [t \in Thread |-> FALSE]
  /\ PushInit

Terminated == main \in {"done", "fault"} /\ UNCHANGED vars

MainStep == (PushMain \/ (SweepMain /\ UNCHANGED pushVars)) /\ UNCHANGED opt
Take(t) == (PushTakeRange(t) \/ (TakeRange(t) /\ UNCHANGED pushVars)) /\ UNCHANGED opt
BodyStep(t) == (PushBody(t) \/ (SweepBody(t) /\ UNCHANGED pushVars)) /\ UNCHANGED opt

Next ==
  \/ MainStep
  \/ \E t \in Thread : Take(t) \/ BodyStep(t)
  \/ Terminated

SafeSpec == Init /\ [][Next]_vars

\* Every running thread makes progress and every range is handed out.
Fairness ==
  /\ WF_vars(MainStep)
  /\ WF_vars(\E t \in Thread : Take(t))
  /\ \A t \in Thread : WF_vars(BodyStep(t))

Spec == SafeSpec /\ Fairness

-----------------------------------------------------------------------------
(* Properties. *)

\* Type correctness of the state of both loops.
TypeOK ==
  /\ opt \in {1, 2}
  /\ main \in {"head", "push", "mark", "sweep", "parallel", "done", "fault"}
  /\ pc \in [Thread -> {"idle", "vertex", "edge",
                        "push_vertex", "push_edge", "push_back"}]
  /\ SweepTypeOK /\ PushTypeOK

\* The heuristic of bfs_pushpull is exact at every head of the push loop,
\* however the bodies interleaved: explored counts the edges of the visited
\* vertices behind the frontier and edges_in_frontier those of the frontier
\* (but not of the source, in the first round).  As the latter are unexplored
\* ones themselves, NB_EDGES - explored does not wrap, and the test that would
\* switch to the pull loop never holds.
HeuristicExact ==
  main = "head" =>
    /\ Len(frontier) = Cardinality(FrontierSet)
    /\ explored = EdgesOf(Visited \ FrontierSet)
    /\ edges_in_frontier = IF explored = 0 /\ FrontierSet = {source}
                             THEN 0 ELSE EdgesOf(FrontierSet)
    /\ edges_in_frontier <= unexplored

\* When a traversal returns, visited[] marks exactly what is reachable.  Stray
\* entries that malloc left in the frontier arrays only add vertices.  Without
\* the in-edges only bfs_pushpull misses none: its push loop finds them all.
VisitedIsReachable ==
  main = "done" =>
    /\ symmetric \/ opt = 2 => Reachable(graph) \subseteq Visited
    /\ symmetric /\ zeroed => Visited = Reachable(graph)

\* Nothing ties -m to -s.  A graph loaded without -s kills bfs_pushpull only
\* if some vertex is unreachable: its pull loop then looks at no in-edge.
HybridNeedsNoInEdges ==
  main = "fault" => ~symmetric /\ (opt = 2 => Reachable(graph) # Node)

\* A traversal returns, whatever malloc left in the arrays, or is killed.
Termination == <>(main \in {"done", "fault"})

\* Both traversals are a level-synchronous search, with in-edges and on zeroed
\* arrays through both loops; what a sweep has found so far is the next level
\* when the arrays are swapped.  In any other case the search of bfs_pushpull is
\* complete with its push loop, and bfs_pull promises nothing.
Pushing == main \in {"head", "push", "mark"}
Defined == zeroed /\ symmetric

Levels == INSTANCE BfsLevels WITH
  reached <- CASE ~Pushing /\ ~Defined -> IF opt = 2 THEN Reachable(graph) ELSE {source}
               [] main = "push" -> Visited \ Claimed
               [] main = "parallel" /\ Defined -> Visited \ InFrontierNext
               [] OTHER -> Visited,
  level   <- CASE ~Pushing /\ ~Defined -> IF opt = 2 THEN {} ELSE {source}
               [] Pushing -> FrontierSet
               [] OTHER -> InFrontier

ImplementsLevels == Levels!SafeSpec
=============================================================================

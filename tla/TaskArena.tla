----------------------------- MODULE TaskArena -----------------------------
(***************************************************************************)
(* The oneTBB task arena as src/ uses it.  main.cpp creates it with        *)
(* THREADS slots; arena.execute(parallel_for(blocked_range(0, n), body))   *)
(* splits 0..n-1 into contiguous ranges at will, runs body once on each,   *)
(* on at most THREADS threads at a time, and returns when all bodies have  *)
(* returned.  Which thread runs which range, and in which order, is the    *)
(* library's choice.                                                       *)
(***************************************************************************)
EXTENDS Integers, FiniteSets

CONSTANTS Thread,    \* the OS threads that may enter the arena
          THREADS    \* concurrency of the arena (-t)

ASSUME ThreadsAssumption == IsFiniteSet(Thread) /\ THREADS \in Nat \ {0}

\* The contiguous ranges <<begin, end>> that can be cut out of the indices S.
Ranges(S) == {r \in S \X {k + 1 : k \in S} : r[1] < r[2] /\ r[1] .. r[2] - 1 \subseteq S}

\* A thread may start a body: the arena has a free slot.
ArenaHasRoom(pc) == Cardinality({t \in Thread : pc[t] # "idle"}) < THREADS

\* parallel_for returns: every index was given out and every body returned.
ParallelForEnds(pending, pc) == pending = {} /\ \A t \in Thread : pc[t] = "idle"
=============================================================================

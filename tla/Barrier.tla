------------------------------ MODULE Barrier ------------------------------
(***************************************************************************)
(* barrier_cross (src/bw/bw.cpp:109-121), called `rounds' times by every   *)
(* thread.  The count of arrivals is protected by a mutex; a thread that   *)
(* is not the last one blocks on the condition variable and does not test  *)
(* anything when it returns from pthread_cond_wait, which POSIX allows to  *)
(* return without a broadcast: it does so in the behaviours with spurious. *)
(***************************************************************************)
EXTENDS Integers, FiniteSets, Functions

CONSTANTS Thread,
          count,            \* barrier.count: the argument of barrier_init, or
                            \* 0 in a barrier that was never initialised
          Rounds,           \* bound: how often a thread crosses the barrier
          SpuriousWakeups,  \* can spurious wakeups happen?  The cases considered
          Nobody            \* the holder of a mutex that is free

ASSUME ThreadAssumption == IsFiniteSet(Thread)
ASSUME CountAssumption == count \in Nat
ASSUME RoundsAssumption == Rounds \in Nat \ {0}
ASSUME WakeupAssumption == SpuriousWakeups \subseteq BOOLEAN
ASSUME NobodyAssumption == Nobody \notin Thread

VARIABLES spurious, rounds, \* the case, fixed from the start
          mutex, crossed, pc,
          arrivals,         \* how often a thread has counted itself
          returns           \* how often barrier_cross has returned to it

barrier == <<spurious, rounds, mutex, crossed, pc, arrivals, returns>>

Init ==
  /\ spurious \in SpuriousWakeups /\ rounds \in 1 .. Rounds
  /\ mutex = Nobody /\ crossed = 0
  /\ pc = [t \in Thread |-> "out"]
  /\ arrivals = [t \in Thread |-> 0] /\ returns = [t \in Thread |-> 0]

\* The thread calls barrier_cross.
Call(t) ==
  /\ pc[t] = "out" /\ returns[t] < rounds
  /\ pc' = [pc EXCEPT ![t] = "lock"]
  /\ UNCHANGED <<spurious, rounds, mutex, crossed, arrivals, returns>>

\* (Mutant) pthread_cond_wait returns without the mutex.
HolderAfterArrivalOnly(t) == IF pc[t] = "lock" THEN t ELSE mutex

HolderAfter(t) == t

\* pthread_mutex_lock, and the lock pthread_cond_wait takes when it returns.
Lock(t) ==
  /\ pc[t] \in {"lock", "woken"} /\ mutex = Nobody
  /\ mutex' = HolderAfter(t)
  /\ pc' = [pc EXCEPT ![t] = IF @ = "lock" THEN "inside" ELSE "unlock"]
  /\ UNCHANGED <<spurious, rounds, crossed, arrivals, returns>>

\* (Mutant) a thread too few is waited for.
MustWaitEarly == crossed + 2 < count

MustWait == crossed + 1 < count

\* (Mutant) one waiter is woken, by pthread_cond_signal.
Signalled == {{t} : t \in {u \in Thread : pc[u] = "blocked"}}

\* The sets of threads that pthread_cond_broadcast may wake.
Woken == {{t \in Thread : pc[t] = "blocked"}}

\* (Mutant) crossed is not reset.
CrossedKept == crossed + 1

CrossedReset == 0

\* crossed++; the last arrival broadcasts and resets, the others wait.
Arrive(t) ==
  /\ pc[t] = "inside"
  /\ arrivals' = [arrivals EXCEPT ![t] = @ + 1]
  /\ IF MustWait
       THEN /\ crossed' = crossed + 1 /\ mutex' = Nobody
            /\ pc' = [pc EXCEPT ![t] = "blocked"]
       ELSE /\ crossed' = CrossedReset /\ UNCHANGED mutex
            /\ \E w \in Woken :
                 pc' = [u \in Thread |-> IF u = t THEN "unlock" ELSE IF u \in w THEN "woken" ELSE pc[u]]
  /\ UNCHANGED <<spurious, rounds, returns>>

\* pthread_cond_wait returns although nobody has signalled.
WakeSpuriously(t) ==
  /\ spurious /\ pc[t] = "blocked"
  /\ pc' = [pc EXCEPT ![t] = "woken"]
  /\ UNCHANGED <<spurious, rounds, mutex, crossed, arrivals, returns>>

\* pthread_mutex_unlock; barrier_cross returns.
Unlock(t) ==
  /\ pc[t] = "unlock"
  /\ mutex' = Nobody
  /\ pc' = [pc EXCEPT ![t] = "out"]
  /\ returns' = [returns EXCEPT ![t] = @ + 1]
  /\ UNCHANGED <<spurious, rounds, crossed, arrivals>>

\* What a thread inside barrier_cross does by itself.
Cross(t) == Lock(t) \/ Arrive(t) \/ Unlock(t)

Next == \E t \in Thread : Call(t) \/ Cross(t) \/ WakeSpuriously(t)

SafeSpec == Init /\ [][Next]_barrier

\* Every thread that is not blocked runs; nobody owes a spurious wakeup.
Spec == SafeSpec /\ \A t \in Thread : WF_barrier(Call(t) \/ Cross(t))

-----------------------------------------------------------------------------
\* Type correctness, and the mutex is held by who is between its calls.
TypeOK ==
  /\ spurious \in SpuriousWakeups /\ rounds \in 1 .. Rounds
  /\ mutex \in Thread \cup {Nobody}
  /\ crossed \in Nat
  /\ pc \in [Thread -> {"out", "lock", "inside", "blocked", "woken", "unlock"}]
  /\ arrivals \in [Thread -> Nat] /\ returns \in [Thread -> Nat]
  /\ \A t \in Thread : pc[t] \in {"inside", "unlock"} <=> mutex = t

\* Nobody returns from the r-th crossing before everyone has arrived at it,
\* also when the barrier is crossed again while others are still leaving it
\* (for a barrier of all threads, without spurious wakeups).
BarrierHolds == ~spurious => \A t, u \in Thread : returns[t] <= arrivals[u]

\* crossed counts the arrivals since the last release, and without spurious
\* wakeups these threads are the blocked ones.
CrossedCounts ==
  count > 0 =>
    /\ crossed = SumFunction(arrivals) % count
    /\ ~spurious => crossed = Cardinality({t \in Thread : pc[t] = "blocked"})

\* No thread is left behind in the barrier, not even with spurious wakeups if
\* it is crossed once, as the benchmark does.  (Crossed twice with spurious
\* wakeups a thread can be: one that left early counts for two.)
EveryoneCrosses == (spurious => rounds = 1) => <>(\A t \in Thread : returns[t] = rounds)
=============================================================================

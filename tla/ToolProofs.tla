----------------------------- MODULE ToolProofs -----------------------------
(***************************************************************************)
(* Theorems about the tools beside the graph benchmark: the barrier and    *)
(* the bandwidth benchmark of bw, pointer chasing and degree.py.           *)
(***************************************************************************)
EXTENDS Bw, PointerChase, Degree, SumLemmas, SequenceTheorems

(***************************************************************************)
(* For every number of threads and of crossings, and without spurious      *)
(* wakeups: a barrier of all threads, as barrier_init is meant to be       *)
(* called, holds; the one of bw, whose count is 0, blocks nobody.          *)
(*                                                                         *)
(* The number of releases that thread t has seen is its arrivals, less the *)
(* one it is blocked in.  It is the same for all threads: an arrival that  *)
(* blocks leaves it alone, and the one that releases, which by the count   *)
(* finds all others blocked, raises it for everybody at once.              *)
(*                                                                         *)
(* For any count, and with spurious wakeups, crossed is the number of all  *)
(* arrivals modulo count.                                                  *)
(***************************************************************************)

Blocked == {t \in Thread : pc[t] = "blocked"}

Releases(t) == IF pc[t] = "blocked" THEN arrivals[t] - 1 ELSE arrivals[t]

\* A crossing is over when barrier_cross has returned.
Inside(t) == pc[t] \in {"blocked", "woken", "unlock"}
Crossings == \A t \in Thread : returns[t] = IF Inside(t) THEN arrivals[t] - 1 ELSE arrivals[t]

InStep == \A t, u \in Thread : Releases(t) = Releases(u)

BlockedCounted == crossed = Cardinality(Blocked)

IInv == TypeOK /\ (~spurious => Crossings /\ BlockedCounted /\ InStep)

\* The assumption on the barrier: it was initialised for all threads.
AllThreads == count = Cardinality(Thread)

-----------------------------------------------------------------------------
LEMMA TypeInit == Init => TypeOK
BY NobodyAssumption, RoundsAssumption DEF Init, TypeOK

LEMMA TypeNext == TypeOK /\ [Next]_barrier => TypeOK'
<1> SUFFICES ASSUME TypeOK, [Next]_barrier PROVE TypeOK'
  OBVIOUS
<1> USE NobodyAssumption DEF TypeOK
<1>1. ASSUME NEW t \in Thread, Call(t) PROVE TypeOK'
  BY <1>1 DEF Call
<1>2. ASSUME NEW t \in Thread, Lock(t) PROVE TypeOK'
  BY <1>2 DEF Lock, HolderAfter
<1>3. ASSUME NEW t \in Thread, Arrive(t) PROVE TypeOK'
  <2>1. CASE MustWait
    BY <1>3, <2>1 DEF Arrive, MustWait
  <2>2. CASE ~MustWait
    <3>1. PICK w \in Woken :
            pc' = [u \in Thread |-> IF u = t THEN "unlock" ELSE IF u \in w THEN "woken" ELSE pc[u]]
      BY <1>3, <2>2 DEF Arrive
    <3>2. \A u \in w : pc[u] = "blocked"
      BY DEF Woken
    <3>3. mutex = t /\ mutex' = t /\ crossed' = 0
      BY <1>3, <2>2 DEF Arrive, CrossedReset
    <3>4. \A u \in Thread : pc'[u] \in {"inside", "unlock"} <=> mutex' = u
      BY <3>1, <3>2, <3>3
    <3> QED BY <1>3, <2>2, <3>1, <3>3, <3>4 DEF Arrive
  <2> QED BY <2>1, <2>2
<1>4. ASSUME NEW t \in Thread, Unlock(t) PROVE TypeOK'
  BY <1>4 DEF Unlock
<1>5. ASSUME NEW t \in Thread, WakeSpuriously(t) PROVE TypeOK'
  BY <1>5 DEF WakeSpuriously
<1>6. CASE UNCHANGED barrier
  BY <1>6 DEF barrier
<1> QED BY <1>1, <1>2, <1>3, <1>4, <1>5, <1>6 DEF Next, Cross

\* Type correctness for any count, the one of the benchmark (0) as well, and
\* also with spurious wakeups.
THEOREM TypeCorrect == SafeSpec => []TypeOK
BY TypeInit, TypeNext, PTL DEF SafeSpec

\* When the last thread arrives all others are blocked.
LEMMA LastFindsAllBlocked ==
  ASSUME AllThreads, IInv, ~spurious, NEW t \in Thread, pc[t] = "inside", ~MustWait
  PROVE  Blocked = Thread \ {t}
<1>1. Blocked \subseteq Thread \ {t} /\ IsFiniteSet(Thread \ {t})
  BY ThreadAssumption, FS_Subset, FS_RemoveElement DEF Blocked
<1>2. Cardinality(Thread \ {t}) = Cardinality(Thread) - 1 /\ Cardinality(Thread) \in Nat
  BY ThreadAssumption, FS_RemoveElement, FS_CardinalityType
<1>3. IsFiniteSet(Blocked) /\ Cardinality(Blocked) <= Cardinality(Thread \ {t}) /\ Cardinality(Blocked) \in Nat
  BY <1>1, FS_Subset, FS_CardinalityType
<1>4. Cardinality(Blocked) + 1 >= Cardinality(Thread)
  BY <1>2, <1>3 DEF IInv, BlockedCounted, MustWait, AllThreads
<1> QED BY <1>1, <1>2, <1>3, <1>4, FS_Subset

\* A step that blocks and wakes nobody, and counts nobody, keeps the counts.
LEMMA KeepsInStep ==
  ASSUME IInv, ~spurious, arrivals' = arrivals, crossed' = crossed,
         \A u \in Thread : pc'[u] = "blocked" <=> pc[u] = "blocked"
  PROVE  (BlockedCounted /\ InStep)'
<1>1. Blocked' = Blocked
  BY DEF Blocked
<1>2. \A u \in Thread : Releases(u)' = Releases(u)
  BY DEF Releases
<1> QED BY <1>1, <1>2 DEF IInv, BlockedCounted, InStep

-----------------------------------------------------------------------------
LEMMA InitInv == AllThreads /\ Init => IInv
<1> SUFFICES ASSUME AllThreads, Init PROVE IInv
  OBVIOUS
<1>1. TypeOK
  BY NobodyAssumption, RoundsAssumption DEF Init, TypeOK
<1>2. Crossings /\ InStep
  BY DEF Init, Crossings, Inside, InStep, Releases
<1>3. Blocked = {}
  BY DEF Init, Blocked
<1>4. BlockedCounted
  BY <1>3, FS_EmptySet DEF Init, BlockedCounted
<1> QED BY <1>1, <1>2, <1>4 DEF IInv

LEMMA NextInv == AllThreads /\ IInv /\ TypeOK' /\ [Next]_barrier => IInv'
<1> SUFFICES ASSUME AllThreads, IInv, TypeOK', [Next]_barrier, ~spurious', ~spurious
             PROVE  (Crossings /\ BlockedCounted /\ InStep)'
  BY DEF IInv, Next, Cross, Call, Lock, Arrive, WakeSpuriously, Unlock, barrier
<1>t. TypeOK /\ Crossings /\ BlockedCounted /\ InStep
  BY DEF IInv
<1>1. ASSUME NEW t \in Thread, Call(t) PROVE (Crossings /\ BlockedCounted /\ InStep)'
  <2>1. Crossings'
    BY <1>1, <1>t DEF Call, Crossings, Inside, TypeOK
  <2>2. (BlockedCounted /\ InStep)'
    BY <1>1, <1>t, KeepsInStep DEF Call, TypeOK
  <2> QED BY <2>1, <2>2
<1>2. ASSUME NEW t \in Thread, Lock(t) PROVE (Crossings /\ BlockedCounted /\ InStep)'
  <2>1. Crossings'
    BY <1>2, <1>t DEF Lock, Crossings, Inside, TypeOK
  <2>2. (BlockedCounted /\ InStep)'
    BY <1>2, <1>t, KeepsInStep DEF Lock, TypeOK
  <2> QED BY <2>1, <2>2
<1>3. ASSUME NEW t \in Thread, Arrive(t), MustWait PROVE (Crossings /\ BlockedCounted /\ InStep)'
  <2>0. /\ pc[t] = "inside" /\ pc' = [pc EXCEPT ![t] = "blocked"]
        /\ arrivals' = [arrivals EXCEPT ![t] = @ + 1] /\ returns' = returns
        /\ crossed' = crossed + 1
    BY <1>3 DEF Arrive
  <2>1. Crossings'
    BY <2>0, <1>t DEF Crossings, Inside, TypeOK
  <2>2. Blocked' = Blocked \cup {t} /\ t \notin Blocked
    BY <2>0, <1>t DEF Blocked, TypeOK
  <2>3. Cardinality(Blocked') = Cardinality(Blocked) + 1
    BY <2>2, ThreadAssumption, FS_AddElement, FS_Subset DEF Blocked
  <2>4. \A u \in Thread : Releases(u)' = Releases(u)
    BY <2>0, <1>t DEF Releases, TypeOK
  <2> QED BY <2>0, <2>1, <2>3, <2>4, <1>t DEF BlockedCounted, InStep
<1>4. ASSUME NEW t \in Thread, Arrive(t), ~MustWait PROVE (Crossings /\ BlockedCounted /\ InStep)'
  <2>1. Blocked = Thread \ {t} /\ pc[t] = "inside"
    BY <1>4, LastFindsAllBlocked DEF Arrive
  <2>2. PICK w \in Woken :
          pc' = [u \in Thread |-> IF u = t THEN "unlock" ELSE IF u \in w THEN "woken" ELSE pc[u]]
    BY <1>4 DEF Arrive
  <2>3. w = Blocked
    BY DEF Woken, Blocked
  <2>4. pc' = [u \in Thread |-> IF u = t THEN "unlock" ELSE "woken"]
    BY <2>1, <2>2, <2>3
  <2>5. /\ arrivals' = [arrivals EXCEPT ![t] = @ + 1] /\ returns' = returns /\ crossed' = 0
    BY <1>4 DEF Arrive, CrossedReset
  <2>6. \A u \in Thread \ {t} : pc[u] = "blocked"
    BY <2>1 DEF Blocked
  <2>7. Crossings'
    BY <2>1, <2>4, <2>5, <2>6, <1>t DEF Crossings, Inside, TypeOK
  <2>8. Blocked' = {}
    BY <2>4 DEF Blocked
  <2>9. BlockedCounted'
    BY <2>5, <2>8, FS_EmptySet DEF BlockedCounted
  <2>10. \A u \in Thread : Releases(u)' = Releases(u) + 1
    BY <2>1, <2>4, <2>5, <2>6, <1>t DEF Releases, TypeOK
  <2> QED BY <2>7, <2>9, <2>10, <1>t DEF InStep
<1>5. ASSUME NEW t \in Thread, Unlock(t) PROVE (Crossings /\ BlockedCounted /\ InStep)'
  <2>1. Crossings'
    BY <1>5, <1>t DEF Unlock, Crossings, Inside, TypeOK
  <2>2. (BlockedCounted /\ InStep)'
    BY <1>5, <1>t, KeepsInStep DEF Unlock, TypeOK
  <2> QED BY <2>1, <2>2
<1>6. ASSUME NEW t \in Thread, WakeSpuriously(t) PROVE FALSE
  BY <1>6 DEF WakeSpuriously
<1>7. CASE UNCHANGED barrier
  <2>1. Crossings'
    BY <1>7, <1>t DEF barrier, Crossings, Inside
  <2>2. (BlockedCounted /\ InStep)'
    BY <1>7, KeepsInStep DEF barrier
  <2> QED BY <2>1, <2>2
<1> QED BY <1>1, <1>2, <1>3, <1>4, <1>5, <1>6, <1>7 DEF Next, Cross

\* With count = 0 nobody ever blocks.
Open == count = 0 => crossed = 0 /\ \A t \in Thread : pc[t] \notin {"blocked", "woken"}

\* For every number of threads and of crossings: when barrier_init was called
\* with all threads, nobody returns from a crossing before everyone has arrived
\* at it.  bw never calls it: with the count 0 that its barrier has, nobody is
\* ever held up or counted.
THEOREM Holds == SafeSpec => []((AllThreads => BarrierHolds) /\ Open)
<1> DEFINE H == (AllThreads => IInv) /\ Open
<1>1. Init => H
  BY InitInv DEF Init, Open
<1>2. H /\ TypeOK /\ TypeOK' /\ [Next]_barrier => H'
  <2> SUFFICES ASSUME H, TypeOK, TypeOK', [Next]_barrier PROVE H'
    OBVIOUS
  <2>1. (AllThreads => IInv)'
    BY NextInv DEF AllThreads
  <2>2. Open'
    <3> SUFFICES ASSUME count = 0
                 PROVE  crossed' = 0 /\ \A t \in Thread : pc'[t] \notin {"blocked", "woken"}
      BY DEF Open
    <3>1. crossed = 0 /\ \A t \in Thread : pc[t] \notin {"blocked", "woken"}
      BY DEF Open
    <3>2. ASSUME NEW t \in Thread, Arrive(t)
          PROVE  crossed' = 0 /\ \A u \in Thread : pc'[u] \notin {"blocked", "woken"}
      <4>1. ~MustWait
        BY <3>1 DEF MustWait
      <4>2. PICK w \in Woken :
              pc' = [u \in Thread |-> IF u = t THEN "unlock" ELSE IF u \in w THEN "woken" ELSE pc[u]]
        BY <3>2, <4>1 DEF Arrive
      <4>3. \A u \in Thread : u \notin w
        BY <3>1 DEF Woken
      <4>4. crossed' = 0
        BY <3>2, <4>1 DEF Arrive, CrossedReset
      <4> QED BY <3>1, <4>2, <4>3, <4>4
    <3>3. ASSUME NEW t \in Thread, Call(t) \/ Lock(t) \/ Unlock(t) \/ WakeSpuriously(t)
          PROVE  crossed' = 0 /\ \A u \in Thread : pc'[u] \notin {"blocked", "woken"}
      BY <3>1, <3>3 DEF Call, Lock, Unlock, WakeSpuriously, TypeOK
    <3>4. CASE UNCHANGED barrier
      BY <3>1, <3>4 DEF barrier
    <3> QED BY <3>2, <3>3, <3>4 DEF Next, Cross
  <2> QED BY <2>1, <2>2
<1>3. H => (AllThreads => BarrierHolds) /\ Open
  <2> SUFFICES ASSUME IInv, ~spurious, NEW t \in Thread, NEW u \in Thread
               PROVE  returns[t] <= arrivals[u]
    BY DEF BarrierHolds
  <2>1. returns[t] <= Releases(t) /\ Releases(u) <= arrivals[u] /\ Releases(t) = Releases(u)
    BY DEF IInv, TypeOK, Crossings, Inside, Releases, InStep
  <2> QED BY <2>1 DEF IInv, TypeOK, Releases
<1> QED BY <1>1, <1>2, <1>3, TypeCorrect, PTL DEF SafeSpec

-----------------------------------------------------------------------------
(* The count of arrivals. *)

\* A number less than the divisor that differs by a multiple is the remainder.
LEMMA RemainderIs ==
  ASSUME NEW n \in Nat, NEW d \in Nat \ {0}, NEW q \in Nat, NEW r \in Nat, r < d, n = q * d + r
  PROVE  n % d = r
OBVIOUS

\* Counting up, the remainder counts up until it would be the divisor.
LEMMA RemainderNext ==
  ASSUME NEW n \in Nat, NEW d \in Nat \ {0}
  PROVE  (n + 1) % d = IF (n % d) + 1 < d THEN (n % d) + 1 ELSE 0
<1> DEFINE q == n \div d
           r == n % d
<1>1. q \in Nat /\ r \in Nat /\ r < d /\ n = q * d + r
  OBVIOUS
<1> HIDE DEF q, r
<1>2. CASE r + 1 < d
  <2>1. n + 1 = q * d + (r + 1)
    BY <1>1
  <2>2. (n + 1) % d = r + 1
    BY <1>1, <1>2, <2>1, RemainderIs
  <2> QED BY <1>2, <2>2 DEF r
<1>3. CASE r + 1 >= d
  <2>1. n + 1 = (q + 1) * d + 0
    <3>1. r + 1 = d
      BY <1>1, <1>3
    <3>2. (q + 1) * d = q * d + d
      BY <1>1
    <3>3. q * d \in Nat
      BY <1>1
    <3> QED BY <1>1, <3>1, <3>2, <3>3
  <2>2. (n + 1) % d = 0
    <3>1. n + 1 \in Nat /\ q + 1 \in Nat /\ 0 < d
      BY <1>1
    <3> QED BY <2>1, <3>1, RemainderIs
  <2> QED BY <1>1, <1>3, <2>2 DEF r
<1> QED BY <1>1, <1>2, <1>3

\* For any count: the blocked threads are those counted, unless one was woken
\* too early.
CountInv == (count > 0 => crossed = SumFunction(arrivals) % count) /\ (~spurious => BlockedCounted)

\* The total of a count per thread, when one count is raised by one.
LEMMA TotalGrows ==
  ASSUME NEW a \in [Thread -> Nat], NEW t \in Thread
  PROVE  LET b == [a EXCEPT ![t] = @ + 1]
         IN  SumFunction(a) \in Nat /\ SumFunction(b) = SumFunction(a) + 1
<1> DEFINE b == [a EXCEPT ![t] = @ + 1]
<1>1. /\ DOMAIN a = Thread /\ DOMAIN b = Thread
      /\ \A u \in Thread : a[u] \in Nat /\ b[u] = IF u = t THEN a[u] + 1 ELSE a[u]
  OBVIOUS
<1> HIDE DEF b
<1>2. SumFunctionOnSet(b, Thread) = SumFunctionOnSet(a, Thread) + 1
  BY <1>1, 1 \in Nat, ThreadAssumption, SumGrows
<1>3. SumFunctionOnSet(a, Thread) \in Nat
  BY <1>1, ThreadAssumption, SumType
<1>4. SumFunction(a) \in Nat /\ SumFunction(b) = SumFunction(a) + 1
  BY <1>1, <1>2, <1>3 DEF SumFunction
<1> QED BY <1>4 DEF b

\* All arrivals together, after the arrival of t.
LEMMA ArrivalsGrow ==
  ASSUME TypeOK, NEW t \in Thread, arrivals' = [arrivals EXCEPT ![t] = @ + 1]
  PROVE  SumFunction(arrivals) \in Nat /\ SumFunction(arrivals)' = SumFunction(arrivals) + 1
<1>1. arrivals \in [Thread -> Nat]
  BY DEF TypeOK
<1>2. SumFunction(arrivals)' = SumFunction(arrivals')
  OBVIOUS
<1> QED BY <1>1, <1>2, TotalGrows

LEMMA CountInit == Init => CountInv
<1> SUFFICES ASSUME Init PROVE CountInv
  OBVIOUS
<1>1. Blocked = {}
  BY DEF Init, Blocked
<1>2. SumFunction(arrivals) = 0
  <2>1. DOMAIN arrivals = Thread /\ \A t \in Thread : arrivals[t] = 0
    BY DEF Init
  <2> QED BY <2>1, ThreadAssumption, SumZero DEF SumFunction
<1>3. count > 0 => 0 % count = 0
  BY CountAssumption
<1> QED BY <1>1, <1>2, <1>3, FS_EmptySet DEF Init, CountInv, BlockedCounted

LEMMA CountNext == TypeOK /\ CountInv /\ [Next]_barrier => CountInv'
<1> SUFFICES ASSUME TypeOK, CountInv, [Next]_barrier PROVE CountInv'
  OBVIOUS
<1>1. ASSUME NEW t \in Thread, Arrive(t) PROVE CountInv'
  <2>1. /\ arrivals' = [arrivals EXCEPT ![t] = @ + 1] /\ spurious' = spurious /\ pc[t] = "inside"
        /\ crossed' = IF crossed + 1 < count THEN crossed + 1 ELSE 0
    BY <1>1 DEF Arrive, MustWait, CrossedReset
  <2>2. count > 0 => crossed' = SumFunction(arrivals)' % count
    <3>1. SumFunction(arrivals) \in Nat /\ SumFunction(arrivals)' = SumFunction(arrivals) + 1
      BY <2>1, ArrivalsGrow
    <3> QED BY <2>1, <3>1, CountAssumption, RemainderNext DEF CountInv
  <2>3. CASE MustWait
    <3>1. pc' = [pc EXCEPT ![t] = "blocked"] /\ crossed' = crossed + 1
      BY <1>1, <2>3 DEF Arrive
    <3>2. Blocked' = Blocked \cup {t} /\ t \notin Blocked
      BY <2>1, <3>1 DEF Blocked, TypeOK
    <3>3. Cardinality(Blocked') = Cardinality(Blocked) + 1
      BY <3>2, ThreadAssumption, FS_AddElement, FS_Subset DEF Blocked
    <3> QED BY <2>1, <2>2, <3>1, <3>3 DEF CountInv, BlockedCounted
  <2>4. CASE ~MustWait
    <3>1. PICK w \in Woken :
            pc' = [u \in Thread |-> IF u = t THEN "unlock" ELSE IF u \in w THEN "woken" ELSE pc[u]]
      BY <1>1, <2>4 DEF Arrive
    <3>2. Blocked' = {}
      BY <3>1 DEF Woken, Blocked
    <3>3. crossed' = 0
      BY <1>1, <2>4 DEF Arrive, CrossedReset
    <3> QED BY <2>2, <3>2, <3>3, FS_EmptySet DEF CountInv, BlockedCounted
  <2> QED BY <2>3, <2>4
<1>2. ASSUME NEW t \in Thread, Call(t) \/ Lock(t) \/ Unlock(t) \/ WakeSpuriously(t) PROVE CountInv'
  <2>1. UNCHANGED <<spurious, crossed, arrivals>>
    BY <1>2 DEF Call, Lock, Unlock, WakeSpuriously
  <2>2. ~spurious => Blocked' = Blocked
    BY <1>2 DEF Call, Lock, Unlock, WakeSpuriously, Blocked, TypeOK
  <2> QED BY <2>1, <2>2 DEF CountInv, BlockedCounted
<1>3. CASE UNCHANGED barrier
  BY <1>3 DEF barrier, CountInv, BlockedCounted, Blocked
<1> QED BY <1>1, <1>2, <1>3 DEF Next, Cross

\* crossed counts the arrivals since the last release, for every number of
\* threads and any count; and the blocked threads, unless one wakes spuriously.
THEOREM Counts == SafeSpec => []CrossedCounts
<1>1. CountInv => CrossedCounts
  BY DEF CountInv, CrossedCounts, BlockedCounted, Blocked
<1> QED BY <1>1, CountInit, CountNext, TypeCorrect, PTL DEF SafeSpec

-----------------------------------------------------------------------------
(***************************************************************************)
(* bw: the reported interval covers every access, and no access starts     *)
(* outside the partition it was made for, for every number of threads,     *)
(* every command line and whatever fails.                                  *)
(***************************************************************************)

Began(t) == step[t] \in {"access", "exited"}

\* What main does before there are threads, and until there are all.
Preparing == main \in {"create_buffer", "create_thread_info", "read_hub"}
Creating == Preparing \/ main = "launch"

MainInv ==
  /\ main \in {"create_buffer", "create_thread_info", "read_hub", "launch", "join", "find",
               "done", "die", "fault"}
  /\ Creating => created < threads
  /\ Preparing => \A t \in Thread : step[t] = "none"
  /\ \A t \in Thread : step[t] # "none" => t < created
  /\ main \in {"find", "done"} => \A t \in Thread : step[t] = "exited"

\* What create_thread_info leaves.
Prepared ==
  /\ opt.access_size > 0 /\ access_count = AccessCount /\ access_count # 0
  /\ infos = [t \in Thread |-> Info(t)]

PreparedInv ==
  main \in {"read_hub", "launch", "join"} \/ (\E t \in Thread : step[t] # "none") => Prepared

\* The starts and stops were read off a counter that only grows.
Stamped ==
  \A t \in Thread :
    /\ Began(t) => start_cycle[t] < tsc
    /\ step[t] = "exited" => start_cycle[t] < stop_cycle[t] /\ stop_cycle[t] < tsc

\* The last access of t was to block loc of its partition.
Located(t) ==
  \E loc \in 0 .. access_count : memaddr[t] = infos[t].start + loc * infos[t].stride

LocatedInv == \A t \in Thread : i[t] > 0 => Began(t) /\ Located(t)

BwInv == BwTypeOK /\ MainInv /\ PreparedInv /\ Stamped /\ LocatedInv

-----------------------------------------------------------------------------
LEMMA Quotients ==
  ASSUME NEW a \in Nat, NEW b \in Nat, b > 0
  PROVE  a \div b \in Nat /\ (a \div b) * b <= a
OBVIOUS

LEMMA Readers == threads \in Nat /\ threads > 0 /\ Thread = 0 .. threads - 1
BY ReadersAssumption, ThreadAssumption, FS_CardinalityType DEF threads

LEMMA Commands ==
  ASSUME opt \in Options
  PROVE  opt.size \in Nat /\ opt.access_size \in Nat /\ opt.nb_accesses \in Nat
BY OptionsAssumption

\* An aligned size is a number, wrapped or not.
LEMMA AlignedType == ASSUME opt \in Options PROVE AlignedSize \in Nat
<1>1. opt.size + PAGE - 1 \in Nat /\ PAGE \in Nat /\ PAGE > 0
  BY Commands, PageAssumption
<1> DEFINE n == (opt.size + PAGE - 1) % SizeModulus
<1>2. n \in Nat
  BY <1>1, SizeAssumption
<1> HIDE DEF n
<1>3. (n \div PAGE) * PAGE \in Nat
  BY <1>1, <1>2, Quotients, Times
<1> QED BY <1>3 DEF n, AlignedSize

\* The accesses of a partition fit into it.
LEMMA Partitions ==
  ASSUME BwTypeOK, opt.access_size > 0
  PROVE  /\ Partition \in Nat /\ Partition * threads <= sz
         /\ AccessCount \in Nat /\ AccessCount * opt.access_size <= Partition
<1>1. sz \in Nat /\ opt.access_size \in Nat
  BY Commands DEF BwTypeOK
<1>2. Partition \in Nat /\ Partition * threads <= sz
  BY <1>1, Readers, Quotients DEF Partition
<1>3. AccessCount \in Nat /\ AccessCount * opt.access_size <= Partition
  BY <1>1, <1>2, Quotients DEF AccessCount
<1> QED BY <1>2, <1>3

LEMMA InfoType ==
  ASSUME BwTypeOK, opt.access_size > 0, NEW t \in Thread
  PROVE  Info(t) \in [start : Nat, end : Nat, stride : Nat]
<1>1. sz \in Nat /\ opt.access_size \in Nat /\ t \in Nat /\ t + 1 \in Nat /\ threads \in Nat
  BY Commands, Readers DEF BwTypeOK
<1>2. Partition \in Nat
  BY Partitions
<1>3. /\ t * Partition \in Nat /\ (t + 1) * Partition \in Nat
      /\ t * opt.access_size \in Nat /\ threads * opt.access_size \in Nat
  BY ONLY <1>1, <1>2, Times
<1>4. sz + t * opt.access_size \in Nat
  <2> DEFINE v == t * opt.access_size
  <2>1. v \in Nat
    BY <1>3
  <2> HIDE DEF v
  <2>2. sz + v \in Nat
    BY <1>1, <2>1
  <2> QED BY <2>2 DEF v
<1>5. \A x, y, z \in Nat :
        [start |-> x, end |-> y, stride |-> z] \in [start : Nat, end : Nat, stride : Nat]
  OBVIOUS
<1>6. CASE opt.mode = "GROUPED"
  <2>1. Info(t) = [start |-> t * Partition, end |-> (t + 1) * Partition, stride |-> opt.access_size]
    BY <1>6 DEF Info
  <2> QED BY <1>1, <1>3, <1>5, <2>1, Zenon
<1>7. CASE opt.mode # "GROUPED"
  <2>1. Info(t) = [start |-> t * opt.access_size, end |-> sz + t * opt.access_size,
                   stride |-> threads * opt.access_size]
    BY <1>7 DEF Info
  <2> QED BY <1>3, <1>4, <1>5, <2>1, Zenon
<1> QED BY <1>6, <1>7

\* The start of a block lies between the start and the end of the partition.
LEMMA BlockInPartition ==
  ASSUME BwTypeOK, opt.access_size > 0, NEW t \in Thread, NEW loc \in 0 .. AccessCount
  PROVE  Info(t).start + loc * Info(t).stride \in Info(t).start .. Info(t).end
<1>1. sz \in Nat /\ opt.access_size \in Nat /\ t \in Nat /\ threads \in Nat
  BY Commands, Readers DEF BwTypeOK
<1>2. /\ Partition \in Nat /\ Partition * threads <= sz
      /\ AccessCount \in Nat /\ AccessCount * opt.access_size <= Partition
  BY Partitions
<1>3. /\ t * Partition + loc * opt.access_size \in t * Partition .. (t + 1) * Partition
      /\ t * opt.access_size + loc * (threads * opt.access_size)
           \in t * opt.access_size .. sz + t * opt.access_size
  <2>1. loc \in Nat /\ loc <= AccessCount
    BY <1>2
  <2> QED BY ONLY <1>1, <1>2, <2>1, Blocks
<1> QED BY <1>3 DEF Info

-----------------------------------------------------------------------------
LEMMA BwInitInv == BwInit => BwInv
<1> SUFFICES ASSUME BwInit PROVE BwInv
  OBVIOUS
<1>1. TypeOK
  BY TypeInit DEF BwInit
<1>2. BwTypeOK
  <2>1. created \in 0 .. threads
    <3>1. created = 0
      BY DEF BwInit
    <3> QED BY <3>1, Readers
  <2>2. opt \in Options /\ fails \in BOOLEAN
    BY MayFailAssumption DEF BwInit
  <2> QED BY <1>1, <2>1, <2>2 DEF BwInit, BwTypeOK
<1> QED BY <1>2, Readers
        DEF BwInit, BwInv, MainInv, Creating, Preparing, PreparedInv, Stamped, LocatedInv, Began

\* The steps of main that touch no thread and no partition.
LEMMA MainStepInv ==
  BwInv /\ (create_buffer \/ read_hub \/ Join \/ Report) => BwInv'
<1> SUFFICES ASSUME BwInv, create_buffer \/ read_hub \/ Join \/ Report PROVE BwInv'
  OBVIOUS
<1>1. TypeOK'
  <2>1. UNCHANGED barrier
    BY DEF create_buffer, read_hub, Join, Report
  <2> QED BY <2>1, TypeNext DEF BwInv, BwTypeOK
<1>2. /\ UNCHANGED <<opt, fails, access_count, infos, created, run>>
      /\ main' \in {"create_thread_info", "launch", "find", "done", "die"}
  BY DEF create_buffer, read_hub, Join, Report, setup
<1>3. UNCHANGED <<step, i, memaddr, start_cycle, stop_cycle, tsc>>
  BY <1>2 DEF run
<1>4. sz' \in Nat /\ (sz' = sz \/ main = "create_buffer")
  <2>1. CASE create_buffer
    <3>1. AlignedSize \in Nat
      BY AlignedType DEF BwInv, BwTypeOK
    <3> QED BY <2>1, <3>1 DEF create_buffer, BwInv, BwTypeOK
  <2>2. CASE read_hub \/ Join \/ Report
    BY <2>2 DEF read_hub, Join, Report, setup, BwInv, BwTypeOK
  <2> QED BY <2>1, <2>2
<1>5. /\ file_exists' \in BOOLEAN /\ func' \in {"none", "read_seq", "read_random"}
      /\ func' = func \/ main = "read_hub"
  BY DEF create_buffer, read_hub, Join, Report, setup, BwInv, BwTypeOK
<1>6. BwTypeOK'
  BY <1>1, <1>2, <1>3, <1>4, <1>5 DEF BwInv, BwTypeOK
<1>7. MainInv'
  <2>1. main' \in {"find", "done"} => \A t \in Thread : step[t] = "exited"
    BY DEF create_buffer, read_hub, Join, Joined, Report, BwInv, MainInv
  <2>2. Preparing' => main = "create_buffer" /\ main' = "create_thread_info"
    BY <1>2 DEF Preparing, create_buffer, read_hub, Join, Report
  <2>3. main' = "launch" => main = "read_hub"
    BY DEF create_buffer, read_hub, Join, Report
  <2>4. Creating' => Creating
    BY <2>2, <2>3 DEF Creating, Preparing
  <2>5. Preparing' => Preparing
    BY <2>2 DEF Preparing
  <2> QED BY <1>2, <1>3, <2>1, <2>4, <2>5 DEF BwInv, MainInv
<1>8. PreparedInv'
  <2>1. main' = "launch" => main = "read_hub"
    BY DEF create_buffer, read_hub, Join, Report
  <2>2. main = "create_buffer" => \A t \in Thread : step[t] = "none"
    BY DEF BwInv, MainInv, Preparing
  <2>3. CASE main = "create_buffer"
    <3>1. main' \in {"create_thread_info", "die"}
      BY <2>3 DEF create_buffer, read_hub, Join, Report
    <3> QED BY <1>3, <2>2, <2>3, <3>1 DEF PreparedInv
  <2>4. CASE main # "create_buffer"
    <3>1. sz' = sz
      BY <1>4, <2>4
    <3>2. Prepared' <=> Prepared
      BY <1>2, <3>1 DEF Prepared, AccessCount, Partition, Info
    <3> QED BY <1>2, <1>3, <2>1, <3>2 DEF BwInv, PreparedInv
  <2> QED BY <2>3, <2>4
<1>9. Stamped'
  BY <1>3 DEF BwInv, Stamped, Began
<1>10. LocatedInv'
  <2>1. ASSUME NEW t \in Thread, i[t] > 0 PROVE Began(t) /\ Located(t)' /\ Began(t)'
    <3>1. Began(t) /\ Located(t)
      BY <2>1 DEF BwInv, LocatedInv
    <3>2. ~Preparing
      BY <3>1 DEF BwInv, MainInv, Began
    <3> QED BY <1>2, <1>3, <1>5, <3>1, <3>2 DEF Preparing, Located, Began
  <2> QED BY <1>3, <2>1 DEF LocatedInv
<1> QED BY <1>6, <1>7, <1>8, <1>9, <1>10 DEF BwInv

LEMMA CreateInfoInv == BwInv /\ create_thread_info => BwInv'
<1> SUFFICES ASSUME BwInv, create_thread_info PROVE BwInv'
  OBVIOUS
<1>1. /\ main = "create_thread_info" /\ main' \in {"read_hub", "die", "fault"}
      /\ UNCHANGED <<barrier, opt, fails, file_exists, sz, func, created>>
      /\ UNCHANGED <<step, i, memaddr, start_cycle, stop_cycle, tsc>>
  BY DEF create_thread_info, run
<1>2. \A t \in Thread : step[t] = "none" /\ ~(i[t] > 0)
  BY <1>1 DEF BwInv, MainInv, Preparing, LocatedInv, Began
<1>3. TypeOK'
  BY <1>1, TypeNext DEF BwInv, BwTypeOK
<1>4. /\ access_count' \in Nat /\ infos' \in [Thread -> [start : Nat, end : Nat, stride : Nat]]
      /\ main' = "read_hub" =>
           /\ opt.access_size > 0 /\ access_count' = AccessCount /\ access_count' # 0
           /\ infos' = [t \in Thread |-> Info(t)]
  <2>1. CASE opt.t = 0 \/ opt.access_size = 0
    <3>1. access_count' = access_count /\ infos' = infos /\ main' = "fault"
      BY <2>1 DEF create_thread_info
    <3> QED BY <3>1 DEF BwInv, BwTypeOK
  <2>2. CASE opt.t > 0 /\ opt.access_size > 0
    <3>1. AccessCount \in Nat
      BY <2>2, Partitions DEF BwInv
    <3>2. \A t \in Thread : Info(t) \in [start : Nat, end : Nat, stride : Nat]
      BY <2>2, InfoType DEF BwInv
    <3> QED BY <2>2, <3>1, <3>2 DEF create_thread_info, BwInv, BwTypeOK
  <2> QED BY <2>1, <2>2 DEF create_thread_info
<1>5. BwTypeOK'
  BY <1>1, <1>3, <1>4 DEF BwInv, BwTypeOK
<1>6. MainInv'
  BY <1>1, <1>2 DEF BwInv, MainInv, Creating, Preparing
<1>7. PreparedInv'
  <2>1. AccessCount' = AccessCount /\ \A t \in Thread : Info(t)' = Info(t)
    BY <1>1 DEF AccessCount, Partition, Info
  <2> QED BY <1>1, <1>2, <1>4, <2>1 DEF PreparedInv, Prepared
<1>8. Stamped' /\ LocatedInv'
  BY <1>1, <1>2 DEF Stamped, LocatedInv, Began
<1> QED BY <1>5, <1>6, <1>7, <1>8 DEF BwInv

LEMMA LaunchInv == BwInv /\ launch => BwInv'
<1> SUFFICES ASSUME BwInv, launch PROVE BwInv'
  OBVIOUS
<1>1. /\ main = "launch" /\ main' \in {"launch", "join", "die"}
      /\ UNCHANGED <<barrier, opt, fails, file_exists, sz, access_count, infos, func>>
      /\ UNCHANGED <<i, memaddr, start_cycle, stop_cycle, tsc>>
  BY DEF launch, setup
<1>2. created \in Nat /\ created < threads /\ created \in Thread
  BY <1>1, Readers DEF BwInv, BwTypeOK, MainInv, Creating
<1>3. /\ step' = step \/ step' = [step EXCEPT ![created] = "barrier"]
      /\ created' \in 0 .. threads
      /\ main' = "launch" => created' < threads
      /\ created' >= created
      /\ step' # step => created' = created + 1
  <2>1. CASE step' = [step EXCEPT ![created] = "barrier"] /\ created' = created + 1
    <3>1. created' \in 0 .. threads
      BY <1>2, <2>1, Readers
    <3>2. main' = "launch" => created + 1 # threads
      BY <2>1 DEF launch, LaunchedAll
    <3> QED BY <1>2, <2>1, <3>1, <3>2, Readers
  <2>2. CASE main' = "die" /\ UNCHANGED <<step, created>>
    BY <1>2, <2>2 DEF BwInv, BwTypeOK
  <2> QED BY <2>1, <2>2 DEF launch
<1>4. TypeOK'
  BY <1>1, TypeNext DEF BwInv, BwTypeOK
<1>5. BwTypeOK'
  BY <1>1, <1>3, <1>4 DEF BwInv, BwTypeOK
<1>6. MainInv'
  <2>1. ASSUME NEW t \in Thread, step'[t] # "none" PROVE t < created'
    <3>1. t \in Nat
      BY Readers
    <3>2. CASE step' = step
      BY <1>2, <1>3, <2>1, <3>1, <3>2 DEF BwInv, MainInv
    <3>3. CASE step' # step
      <4>1. step'[t] # step[t] => t = created
        BY <1>3 DEF BwInv, BwTypeOK
      <4> QED BY <1>2, <1>3, <2>1, <3>1, <3>3, <4>1 DEF BwInv, MainInv
    <3> QED BY <3>2, <3>3
  <2> QED BY <1>1, <1>3, <2>1 DEF MainInv, Creating, Preparing
<1>7. PreparedInv'
  <2>1. Prepared
    BY <1>1 DEF BwInv, PreparedInv
  <2>2. Prepared'
    BY <1>1, <2>1 DEF Prepared, AccessCount, Partition, Info
  <2> QED BY <2>2 DEF PreparedInv
<1>8. \A t \in Thread : Began(t)' => Began(t) /\ step'[t] = step[t]
  BY <1>3 DEF BwInv, BwTypeOK, Began
<1>9. Stamped'
  BY <1>1, <1>8 DEF BwInv, Stamped, Began
<1>10. LocatedInv'
  <2>1. ASSUME NEW t \in Thread, i[t] > 0 PROVE Located(t)' /\ Began(t)'
    <3>1. Located(t) /\ Began(t)
      BY <2>1 DEF BwInv, LocatedInv
    <3>2. Located(t)'
      BY <1>1, <3>1 DEF Located
    <3>3. t # created
      BY <1>2, <3>1 DEF BwInv, MainInv, Began
    <3>4. step'[t] = step[t]
      BY <1>3, <3>3 DEF BwInv, BwTypeOK
    <3> QED BY <3>1, <3>2, <3>4 DEF Began
  <2> QED BY <1>1, <2>1 DEF LocatedInv
<1> QED BY <1>5, <1>6, <1>7, <1>9, <1>10 DEF BwInv

\* What a step of a thread leaves alone.
LEMMA ThreadKeeps ==
  ASSUME BwInv, NEW t \in Thread, step[t] \in {"barrier", "start", "access"},
         UNCHANGED <<setup, created>>, main' \in {main, "fault"},
         \A u \in Thread : u # t => step'[u] = step[u]
  PROVE  MainInv' /\ PreparedInv'
<1>1. Prepared'
  <2>1. Prepared
    BY DEF BwInv, PreparedInv
  <2> QED BY <2>1 DEF setup, Prepared, AccessCount, Partition, Info
<1>2. main \notin {"create_buffer", "create_thread_info", "read_hub", "find", "done"}
  BY DEF BwInv, MainInv, Preparing
<1>3. ASSUME NEW u \in Thread PROVE step'[u] # "none" => u < created'
  BY DEF BwInv, MainInv
<1>4. MainInv'
  BY <1>2, <1>3 DEF BwInv, MainInv, Creating, Preparing
<1> QED BY <1>1, <1>4 DEF PreparedInv

LEMMA CrossInv == ASSUME BwInv, NEW t \in Thread, CrossBarrier(t) PROVE BwInv'
<1>1. /\ step[t] = "barrier" /\ UNCHANGED <<setup, main, created>>
      /\ UNCHANGED <<i, memaddr, start_cycle, stop_cycle, tsc>>
      /\ step' = step \/ step' = [step EXCEPT ![t] = "start"]
  BY DEF CrossBarrier, BwInv, BwTypeOK
<1>2. UNCHANGED <<opt, fails, file_exists, sz, access_count, infos, func>>
  BY <1>1 DEF setup
<1>3. TypeOK'
  <2>1. Next
    BY DEF CrossBarrier, Next
  <2> QED BY <2>1, TypeNext DEF BwInv, BwTypeOK
<1>4. BwTypeOK'
  BY <1>1, <1>2, <1>3 DEF BwInv, BwTypeOK
<1>5. \A u \in Thread : /\ u # t => step'[u] = step[u]
                        /\ Began(u) <=> Began(u)'
                        /\ step[u] = "exited" <=> step'[u] = "exited"
  BY <1>1 DEF BwInv, BwTypeOK, Began
<1>6. MainInv' /\ PreparedInv'
  BY <1>1, <1>5, ThreadKeeps
<1>7. Stamped'
  BY <1>1, <1>5 DEF BwInv, Stamped
<1>8. LocatedInv'
  BY <1>1, <1>2, <1>5 DEF BwInv, LocatedInv, Located
<1> QED BY <1>4, <1>6, <1>7, <1>8 DEF BwInv

LEMMA StartInv == ASSUME BwInv, NEW t \in Thread, Start(t) PROVE BwInv'
<1>1. /\ step[t] = "start" /\ UNCHANGED <<barrier, setup, main, created, i, memaddr, stop_cycle>>
      /\ step' = [step EXCEPT ![t] = "access"]
      /\ start_cycle' = [start_cycle EXCEPT ![t] = tsc] /\ tsc' = tsc + 1
  BY DEF Start
<1>2. UNCHANGED <<opt, fails, file_exists, sz, access_count, infos, func>>
  BY <1>1 DEF setup
<1>3. TypeOK'
  BY <1>1, TypeNext DEF BwInv, BwTypeOK
<1>4. BwTypeOK'
  BY <1>1, <1>2, <1>3 DEF BwInv, BwTypeOK
<1>5. \A u \in Thread : /\ u # t => step'[u] = step[u] /\ start_cycle'[u] = start_cycle[u]
                        /\ step'[t] = "access" /\ start_cycle'[t] = tsc
  BY <1>1 DEF BwInv, BwTypeOK
<1>6. MainInv' /\ PreparedInv'
  BY <1>1, <1>5, ThreadKeeps
<1>7. Stamped'
  BY <1>1, <1>5 DEF BwInv, BwTypeOK, Stamped, Began
<1>8. LocatedInv'
  BY <1>1, <1>2, <1>5 DEF BwInv, LocatedInv, Located, Began
<1> QED BY <1>4, <1>6, <1>7, <1>8 DEF BwInv

LEMMA StopInv == ASSUME BwInv, NEW t \in Thread, Stop(t) PROVE BwInv'
<1>1. /\ step[t] = "access" /\ UNCHANGED <<barrier, setup, main, created, i, memaddr, start_cycle>>
      /\ step' = [step EXCEPT ![t] = "exited"]
      /\ stop_cycle' = [stop_cycle EXCEPT ![t] = tsc] /\ tsc' = tsc + 1
  BY DEF Stop
<1>2. UNCHANGED <<opt, fails, file_exists, sz, access_count, infos, func>>
  BY <1>1 DEF setup
<1>3. TypeOK'
  BY <1>1, TypeNext DEF BwInv, BwTypeOK
<1>4. BwTypeOK'
  BY <1>1, <1>2, <1>3 DEF BwInv, BwTypeOK
<1>5. \A u \in Thread : /\ u # t => step'[u] = step[u] /\ stop_cycle'[u] = stop_cycle[u]
                        /\ step'[t] = "exited" /\ stop_cycle'[t] = tsc
  BY <1>1 DEF BwInv, BwTypeOK
<1>6. MainInv' /\ PreparedInv'
  BY <1>1, <1>5, ThreadKeeps
<1>7. Stamped'
  BY <1>1, <1>5 DEF BwInv, BwTypeOK, Stamped, Began
<1>8. LocatedInv'
  BY <1>1, <1>2, <1>5 DEF BwInv, LocatedInv, Located, Began
<1> QED BY <1>4, <1>6, <1>7, <1>8 DEF BwInv

\* The blocks a thread may read are those of its partition, and the block
\* behind it.
LEMMA LocationsInPartition ==
  ASSUME BwTypeOK, access_count # 0, NEW t \in Thread, NEW loc \in Locations(t)
  PROVE  loc \in 0 .. access_count
<1>1. CASE func = "read_seq"
  BY <1>1 DEF Locations, Masked
<1>2. CASE func # "read_seq"
  <2>1. loc = 0 % access_count
    BY <1>2 DEF Locations, lehmer64, WorkerState
  <2>2. access_count \in Nat /\ access_count > 0
    BY DEF BwTypeOK
  <2> QED BY <2>1, <2>2
<1> QED BY <1>1, <1>2

LEMMA AccessInv == ASSUME BwInv, NEW t \in Thread, Access(t) PROVE BwInv'
<1>1. PICK loc \in Locations(t) :
        /\ memaddr' = [memaddr EXCEPT ![t] = infos[t].start + loc * infos[t].stride]
        /\ main' \in {main, "fault"}
  BY DEF Access
<1>2. /\ step[t] = "access" /\ i' = [i EXCEPT ![t] = i[t] + 1]
      /\ UNCHANGED <<barrier, setup, created, step, start_cycle, stop_cycle, tsc>>
  BY DEF Access, NextIndex
<1>3. UNCHANGED <<opt, fails, file_exists, sz, access_count, infos, func>>
  BY <1>2 DEF setup
<1>4. TypeOK'
  BY <1>2, TypeNext DEF BwInv, BwTypeOK
<1>5. loc \in 0 .. access_count
  <2>1. access_count # 0
    BY <1>2 DEF BwInv, PreparedInv, Prepared
  <2> QED BY <2>1, LocationsInPartition DEF BwInv
<1>6. infos[t].start + loc * infos[t].stride \in Nat
  <2>1. infos[t].start \in Nat /\ infos[t].stride \in Nat /\ loc \in Nat
    BY <1>5 DEF BwInv, BwTypeOK
  <2> QED BY <2>1, Times
<1>7. BwTypeOK'
  BY <1>1, <1>2, <1>3, <1>4, <1>6 DEF BwInv, BwTypeOK
<1>8. MainInv' /\ PreparedInv'
  BY <1>1, <1>2, ThreadKeeps
<1>9. Stamped'
  BY <1>2 DEF BwInv, Stamped, Began
<1>10. ASSUME NEW u \in Thread, i'[u] > 0 PROVE Began(u)' /\ Located(u)'
  <2>1. CASE u = t
    <3>1. memaddr'[t] = infos[t].start + loc * infos[t].stride
      BY <1>1 DEF BwInv, BwTypeOK
    <3> QED BY <1>2, <1>3, <1>5, <2>1, <3>1 DEF Located, Began
  <2>2. CASE u # t
    <3>1. memaddr'[u] = memaddr[u] /\ i[u] > 0
      BY <1>1, <1>2, <1>10, <2>2 DEF BwInv, BwTypeOK
    <3>2. Began(u) /\ Located(u)
      BY <3>1 DEF BwInv, LocatedInv
    <3> QED BY <1>2, <1>3, <3>1, <3>2 DEF Located, Began
  <2> QED BY <2>1, <2>2
<1> QED BY <1>7, <1>8, <1>9, <1>10 DEF BwInv, LocatedInv

LEMMA RerunInv == BwInv /\ Rerun => BwInv'
<1> SUFFICES ASSUME BwInv, Rerun PROVE BwInv'
  OBVIOUS
<1>1. /\ main' = "create_buffer" /\ created' = 0 /\ tsc' = 1
      /\ opt' \in Options /\ fails' \in MayFail
      /\ sz' = 0 /\ access_count' = 0 /\ func' = "none"
      /\ infos' = [t \in Thread |-> [start |-> 0, end |-> 0, stride |-> 0]]
      /\ step' = [t \in Thread |-> "none"] /\ i' = [t \in Thread |-> 0]
      /\ memaddr' = [t \in Thread |-> 0]
      /\ start_cycle' = [t \in Thread |-> 0] /\ stop_cycle' = [t \in Thread |-> 0]
      /\ UNCHANGED file_exists
  BY DEF Rerun
<1>2. TypeOK'
  BY NobodyAssumption DEF Rerun, BwInv, BwTypeOK, TypeOK
<1>3. BwTypeOK'
  BY <1>1, <1>2, MayFailAssumption, Readers DEF BwInv, BwTypeOK
<1> QED BY <1>1, <1>3, Readers
        DEF BwInv, MainInv, Creating, Preparing, PreparedInv, Stamped, LocatedInv, Began

LEMMA BwNextInv == BwInv /\ [BwNext]_vars => BwInv'
<1> SUFFICES ASSUME BwInv, [BwNext]_vars PROVE BwInv'
  OBVIOUS
<1>1. CASE UNCHANGED vars
  <2>1. /\ UNCHANGED <<barrier, main, created, opt, fails, file_exists, sz, access_count>>
        /\ UNCHANGED <<infos, func, step, i, memaddr, start_cycle, stop_cycle, tsc>>
    BY <1>1 DEF vars, setup, run
  <2>2. TypeOK'
    BY <2>1, TypeNext DEF BwInv, BwTypeOK
  <2>3. BwTypeOK'
    BY <2>1, <2>2 DEF BwInv, BwTypeOK
  <2>4. MainInv' /\ Stamped'
    BY <2>1 DEF BwInv, MainInv, Creating, Preparing, Stamped, Began
  <2>5. PreparedInv' /\ LocatedInv'
    BY <2>1 DEF BwInv, PreparedInv, Prepared, AccessCount, Partition, Info, LocatedInv, Located, Began
  <2> QED BY <2>3, <2>4, <2>5 DEF BwInv
<1>2. CASE MainStep
  BY <1>2, MainStepInv, CreateInfoInv, LaunchInv DEF MainStep
<1>3. ASSUME NEW t \in Thread, ThreadStep(t) PROVE BwInv'
  BY <1>3, CrossInv, StartInv, AccessInv, StopInv DEF ThreadStep
<1>4. CASE Rerun
  BY <1>4, RerunInv
<1> QED BY <1>1, <1>2, <1>3, <1>4 DEF BwNext

LEMMA BwKeeps == BwSafeSpec => []BwInv
BY BwInitInv, BwNextInv, PTL DEF BwSafeSpec

-----------------------------------------------------------------------------
\* bw is well-typed, also when it is run on what a dead run has left.
THEOREM BwTypeCorrect == BwSafeSpec => []BwTypeOK
<1>1. BwInv => BwTypeOK
  BY DEF BwInv
<1> QED BY <1>1, BwKeeps, PTL

\* A finite set of times has a first and a last.
LEMMA FirstAndLast ==
  ASSUME NEW S \in SUBSET Nat, NEW n \in Nat, \A x \in S : x <= n, NEW x \in S
  PROVE  Min(S) <= x /\ x <= Max(S)
<1>1. \E m \in S : \A y \in S : m <= y
  <2>1. PICK m \in S : \A y \in S : ~(<<y, m>> \in OpToRel(<, Nat))
    BY NatLessThanWellFounded, WFMin
  <2>2. ASSUME NEW y \in S PROVE m <= y
    <3>1. ~(y < m) /\ y \in Nat /\ m \in Nat
      BY <2>1 DEF OpToRel
    <3> QED BY <3>1
  <2> QED BY <2>2
<1>2. \E m \in S : \A y \in S : m >= y
  <2> DEFINE D == {n - y : y \in S}
  <2>1. D \in SUBSET Nat /\ n - x \in D
    OBVIOUS
  <2>2. PICK d \in D : \A e \in D : ~(<<e, d>> \in OpToRel(<, Nat))
    BY <2>1, NatLessThanWellFounded, WFMin
  <2>3. PICK m \in S : d = n - m
    OBVIOUS
  <2>4. \A y \in S : ~(n - y < n - m)
    BY <2>1, <2>2, <2>3 DEF OpToRel
  <2>5. \A y \in S : m >= y
    BY <2>4
  <2> QED BY <2>5
<1>3. \A y \in S : Min(S) <= y
  BY <1>1 DEF Min
<1>4. \A y \in S : Max(S) >= y
  BY <1>2 DEF Max
<1>5. Max(S) \in S
  BY <1>2 DEF Max
<1> QED BY <1>3, <1>4, <1>5

\* The reported interval covers every access of every thread, for any number
\* of threads and although the barrier holds nobody up.
THEOREM CoversAccesses == BwSafeSpec => []WindowCoversAccesses
<1>1. BwInv => WindowCoversAccesses
  <2> SUFFICES ASSUME BwInv, main \in {"find", "done"}, NEW t \in Thread
               PROVE  /\ step[t] = "exited"
                      /\ find_start <= start_cycle[t] /\ start_cycle[t] < stop_cycle[t]
                      /\ stop_cycle[t] <= find_stop
    BY DEF WindowCoversAccesses
  <2>1. \A u \in Thread : step[u] = "exited"
    BY DEF BwInv, MainInv
  <2>2. /\ tsc \in Nat /\ start_cycle \in [Thread -> Nat] /\ stop_cycle \in [Thread -> Nat]
        /\ \A u \in Thread : start_cycle[u] < stop_cycle[u] /\ stop_cycle[u] < tsc /\ start_cycle[u] < tsc
    BY <2>1 DEF BwInv, BwTypeOK, Stamped, Began
  <2> DEFINE S == {start_cycle[u] : u \in Thread}
             E == {stop_cycle[u] : u \in Thread}
  <2>3. S \in SUBSET Nat /\ (\A x \in S : x <= tsc) /\ start_cycle[t] \in S
    BY <2>2
  <2>4. E \in SUBSET Nat /\ (\A x \in E : x <= tsc) /\ stop_cycle[t] \in E
    BY <2>2
  <2> HIDE DEF S, E
  <2>5. Min(S) <= start_cycle[t]
    BY ONLY <2>2, <2>3, FirstAndLast
  <2>6. stop_cycle[t] <= Max(E)
    BY ONLY <2>2, <2>4, FirstAndLast
  <2> QED BY <2>1, <2>2, <2>5, <2>6 DEF find_start, find_stop, S, E
<1> QED BY <1>1, BwKeeps, PTL

\* Every access starts in the partition of its thread, or right behind it, for
\* any number of threads and any size, aligned without wrapping or not.
THEOREM StartsInPartition == BwSafeSpec => []StartsBeforeEnd
<1>1. BwInv => StartsBeforeEnd
  <2> SUFFICES ASSUME BwInv, NEW t \in Thread, i[t] > 0
               PROVE  memaddr[t] \in infos[t].start .. infos[t].end
    BY DEF StartsBeforeEnd
  <2>1. Began(t) /\ Located(t)
    BY DEF BwInv, LocatedInv
  <2>2. Prepared
    BY <2>1 DEF BwInv, PreparedInv, Began
  <2>3. PICK loc \in 0 .. access_count : memaddr[t] = infos[t].start + loc * infos[t].stride
    BY <2>1 DEF Located
  <2>4. infos[t] = Info(t) /\ access_count = AccessCount /\ opt.access_size > 0
    BY <2>2 DEF Prepared
  <2> QED BY <2>3, <2>4, BlockInPartition DEF BwInv
<1> QED BY <1>1, BwKeeps, PTL

\* Between runs that died, and the next one until it dies too.
Stuck == file_exists /\ main \in {"die", "fault", "create_buffer"}

\* The file a dead run has left stops every later run, for every sequence of
\* command lines and failures.
THEOREM DeadRunsStay == BwSafeSpec => DeadRunsBlock
<1>1. BwInv /\ Stuck /\ [BwNext]_vars => Stuck'
  <2> SUFFICES ASSUME BwInv, Stuck, [BwNext]_vars PROVE Stuck'
    OBVIOUS
  <2>1. CASE UNCHANGED vars
    BY <2>1 DEF vars, setup, Stuck
  <2>2. CASE MainStep
    BY <2>2 DEF Stuck, MainStep, create_buffer, BufferFile, create_thread_info, read_hub, launch,
                Join, Report
  <2>3. ASSUME NEW t \in Thread, ThreadStep(t) PROVE FALSE
    <3>1. Running /\ step[t] # "none"
      BY <2>3 DEF ThreadStep, CrossBarrier, Start, Access, Stop
    <3>2. main = "create_buffer"
      BY <3>1 DEF Stuck, Running
    <3> QED BY <3>1, <3>2 DEF BwInv, MainInv, Preparing
  <2>4. CASE Rerun
    BY <2>4 DEF Stuck, Rerun
  <2> QED BY <2>1, <2>2, <2>3, <2>4 DEF BwNext
<1>2. (main \in {"die", "fault"} /\ file_exists) => Stuck
  BY DEF Stuck
<1>3. Stuck => main # "done"
  BY DEF Stuck
<1> QED BY <1>1, <1>2, <1>3, BwKeeps, PTL DEF BwSafeSpec, DeadRunsBlock

-----------------------------------------------------------------------------
(***************************************************************************)
(* The pointer chasing benchmark: the links are one cycle, which the walk  *)
(* follows evenly, for every size and every order of the entries.          *)
(***************************************************************************)

Succ(j) == IF j = len - 1 THEN 0 ELSE j + 1

\* What the walk that started at place r of the cycle and is at q now has read
\* once more than the rest.
Passed(r, q, j) == IF r <= q THEN r <= j /\ j < q ELSE r <= j \/ j < q

ChaseTyped ==
  /\ call \in Calls /\ len \in Nat /\ idx \in Nat /\ left \in Nat
  /\ stage \in {"create", "undefined", "fault", "shuffle", "link", "chase", "done"}
  /\ stage = "create" => buffer_sz = call.buffer_sz
  /\ stage \in {"create", "shuffle"} => idx = 1
  /\ stage \in {"shuffle", "link", "chase", "done"} =>
       /\ len > 0
       /\ indices \in [Entry -> Entry] /\ IsInjective(indices)
       /\ buffer \in [Entry -> Nat]
       /\ visits \in [Entry -> Nat]

\* The entries at the places up to i are linked in the order of indices.
Linked ==
  /\ stage = "link" =>
       /\ idx \in 1 .. len
       /\ \A j \in 0 .. idx - 2 : buffer[indices[j]] = Address(indices[j + 1])
  /\ stage \in {"chase", "done"} => \A j \in Entry : buffer[indices[j]] = Address(indices[Succ(j)])

\* All entries have been read equally often, but for those the last lap has
\* passed.
Walked ==
  /\ stage \in {"shuffle", "link"} => \A j \in Entry : visits[j] = 0
  /\ stage \in {"chase", "done"} =>
       \E r, q \in Entry, c \in Nat :
         /\ p = Address(indices[q])
         /\ \A j \in Entry : visits[indices[j]] = c + (IF Passed(r, q, j) THEN 1 ELSE 0)

Stops ==
  /\ stage = "undefined" => call.buffer_sz = 0 \/ call.buffer_sz + entry_sz > WordModulus
  /\ stage = "fault" => buffer_sz > MemorySize

ChaseInv == ChaseTyped /\ Linked /\ Walked /\ Stops

-----------------------------------------------------------------------------
\* The number of entries of an aligned size.
LEMMA Quotient ==
  ASSUME NEW q \in Nat, NEW s \in Nat \ {0} PROVE (q * s) \div s = q
OBVIOUS

LEMMA Aligned ==
  ASSUME NEW b \in Nat, NEW s \in Nat \ {0}, NEW w \in Nat, s < w, b < w,
         NEW a, a = (((b + s - 1) % w) \div s) * s
  PROVE  /\ a \in Nat /\ a \div s \in Nat
         /\ a \div s = 0 => b = 0 \/ b + s > w
<1> DEFINE x == (b + s - 1) % w
           q == x \div s
<1>1. x \in Nat /\ (b + s - 1 < w => x = b + s - 1)
  OBVIOUS
<1>2. q \in Nat /\ (q = 0 => x < s)
  BY <1>1
<1> HIDE DEF x
<1> HIDE DEF q
<1>3. a = q * s
  BY DEF x, q
<1>4. a \div s = q /\ a \in Nat
  BY <1>2, <1>3, Quotient
<1> QED BY <1>1, <1>2, <1>4

\* Every entry has a place in the order.
LEMMA PlaceOfEntry ==
  ASSUME len \in Nat, indices \in [Entry -> Entry], IsInjective(indices), NEW e \in Entry
  PROVE  \E j \in Entry : indices[j] = e
<1> SUFFICES ASSUME \A j \in Entry : indices[j] # e PROVE FALSE
  OBVIOUS
<1>1. IsFiniteSet(Entry) /\ Cardinality(Entry) = len /\ len > 0
  BY FS_Interval DEF Entry
<1>2. IsFiniteSet(Entry \ {e}) /\ Cardinality(Entry \ {e}) = len - 1
  BY <1>1, FS_RemoveElement
<1>3. indices \in [Entry -> Entry \ {e}]
  OBVIOUS
<1>4. Cardinality(Entry \ {e}) < Cardinality(Entry)
  BY <1>1, <1>2
<1>5. \E x, y \in Entry : x # y /\ indices[x] = indices[y]
  BY ONLY <1>1, <1>2, <1>3, <1>4, FS_PigeonHole
<1> QED BY <1>5 DEF IsInjective

-----------------------------------------------------------------------------
LEMMA ChaseInitInv == ChaseInit => ChaseInv
<1> SUFFICES ASSUME ChaseInit PROVE ChaseInv
  OBVIOUS
<1>1. call.count \in Nat /\ MinCount \in Nat
  BY SizesAssumption, CallsAssumption DEF ChaseInit
<1> QED BY <1>1 DEF ChaseInit, ChaseInv, ChaseTyped, Linked, Walked, Stops

LEMMA AllocateInv == ChaseInv /\ Allocate => ChaseInv'
<1> SUFFICES ASSUME ChaseInv, Allocate PROVE ChaseInv'
  OBVIOUS
<1>1. /\ call.buffer_sz \in Nat /\ call.buffer_sz < WordModulus
      /\ buffer_sz = call.buffer_sz /\ idx = 1
  BY SizesAssumption, CallsAssumption DEF ChaseInv, ChaseTyped, Allocate
<1>2. len' \in Nat /\ (len' = 0 => call.buffer_sz = 0 \/ call.buffer_sz + entry_sz > WordModulus)
  BY <1>1, Aligned, SizesAssumption DEF Allocate
<1>3. UNCHANGED <<call, idx, p, left>>
  BY DEF Allocate
<1>4. stage' = IF len' = 0 THEN "undefined" ELSE IF buffer_sz' > MemorySize THEN "fault" ELSE "shuffle"
  BY DEF Allocate
<1>5. CASE stage' = "shuffle"
  <2>1. /\ indices' = [j \in 0 .. len' - 1 |-> j]
        /\ buffer' = [j \in 0 .. len' - 1 |-> NULL]
        /\ visits' = [j \in 0 .. len' - 1 |-> 0]
    BY <1>5 DEF Allocate
  <2>2. indices' \in [Entry' -> Entry'] /\ IsInjective(indices)'
    BY <2>1 DEF Entry, IsInjective
  <2>3. buffer' \in [Entry' -> Nat] /\ visits' \in [Entry' -> Nat] /\ \A j \in Entry' : visits'[j] = 0
    BY <2>1 DEF Entry, NULL
  <2> QED BY <1>1, <1>2, <1>3, <1>4, <1>5, <2>2, <2>3
          DEF ChaseInv, ChaseTyped, Linked, Walked, Stops
<1>6. CASE stage' # "shuffle"
  BY <1>1, <1>2, <1>3, <1>4, <1>6 DEF ChaseInv, ChaseTyped, Linked, Walked, Stops
<1> QED BY <1>5, <1>6

LEMMA ShuffleInv == ChaseInv /\ Shuffle => ChaseInv'
<1> SUFFICES ASSUME ChaseInv, Shuffle PROVE ChaseInv'
  OBVIOUS
<1>1. /\ UNCHANGED <<call, buffer_sz, len, buffer, idx, p, left, visits>>
      /\ stage = "shuffle" /\ stage' = "link"
  BY DEF Shuffle
<1>2. indices' \in [Entry -> Entry] /\ IsInjective(indices')
  BY <1>1 DEF Shuffle, ChaseInv, ChaseTyped
<1>3. Entry' = Entry
  BY <1>1 DEF Entry
<1>4. ChaseTyped'
  BY <1>1, <1>2, <1>3 DEF ChaseInv, ChaseTyped
<1>5. Linked'
  <2>1. idx' = 1 /\ len' \in Nat /\ len' > 0
    BY <1>1 DEF ChaseInv, ChaseTyped
  <2>2. idx' \in 1 .. len' /\ 0 .. idx' - 2 = {}
    BY <2>1
  <2> QED BY <1>1, <2>2 DEF Linked
<1>6. Walked' /\ Stops'
  BY <1>1, <1>3 DEF ChaseInv, Walked, Stops
<1> QED BY <1>4, <1>5, <1>6 DEF ChaseInv

LEMMA LinkInv == ChaseInv /\ Link => ChaseInv'
<1> SUFFICES ASSUME ChaseInv, Link PROVE ChaseInv'
  OBVIOUS
<1>1. /\ UNCHANGED <<call, buffer_sz, len, indices, p, left, stage, visits>>
      /\ stage = "link" /\ idx < len /\ idx' = idx + 1
      /\ buffer' = [buffer EXCEPT ![indices[idx - 1]] = Address(indices[idx])]
  BY DEF Link, Predecessor
<1>2. /\ len \in Nat /\ idx \in Nat
      /\ indices \in [Entry -> Entry] /\ IsInjective(indices) /\ buffer \in [Entry -> Nat]
  BY <1>1 DEF ChaseInv, ChaseTyped
<1>3. Entry' = Entry
  BY <1>1 DEF Entry
<1>0. idx > 0
  BY <1>1 DEF ChaseInv, Linked
<1>4. idx - 1 \in Entry /\ idx \in Entry /\ Address(indices[idx]) \in Nat
  <2>1. idx - 1 \in Entry /\ idx \in Entry
    <3> HIDE DEF ChaseInv, Link
    <3>1. idx < len /\ idx > 0 /\ idx \in Nat /\ len \in Nat
      BY <1>0, <1>1, <1>2
    <3> QED BY ONLY <3>1 DEF Entry
  <2>2. indices[idx] \in Nat
    BY <1>2, <2>1 DEF Entry
  <2> QED BY <2>1, <2>2 DEF Address
<1>5. buffer' \in [Entry -> Nat]
  BY <1>1, <1>2, <1>4
<1>6. ASSUME NEW j \in 0 .. idx' - 2 PROVE buffer'[indices[j]] = Address(indices[j + 1])
  <2>1. j \in Entry /\ (j = idx - 1 \/ j \in 0 .. idx - 2)
    <3>1. idx < len /\ idx > 0 /\ idx \in Nat /\ len \in Nat /\ idx' = idx + 1
      BY <1>0, <1>1, <1>2
    <3> QED BY ONLY <3>1, j \in 0 .. idx' - 2 DEF Entry
  <2>2. CASE j = idx - 1
    BY <1>1, <1>2, <1>4, <2>2
  <2>3. CASE j \in 0 .. idx - 2
    <3>1. indices[j] # indices[idx - 1] /\ indices[j] \in Entry
      BY <1>2, <1>4, <2>1, <2>3 DEF IsInjective
    <3> QED BY <1>1, <1>2, <2>3, <3>1 DEF ChaseInv, Linked
  <2> QED BY <2>1, <2>2, <2>3
<1>7. ChaseTyped'
  BY <1>1, <1>2, <1>3, <1>5 DEF ChaseInv, ChaseTyped
<1>8. Linked'
  BY <1>1, <1>2, <1>6 DEF Linked
<1>9. Walked' /\ Stops'
  BY <1>1, <1>3 DEF ChaseInv, Walked, Stops
<1> QED BY <1>7, <1>8, <1>9 DEF ChaseInv

LEMMA CloseInv == ChaseInv /\ Close => ChaseInv'
<1> SUFFICES ASSUME ChaseInv, Close PROVE ChaseInv'
  OBVIOUS
<1>1. /\ UNCHANGED <<call, buffer_sz, len, indices, idx, left, visits>>
      /\ stage = "link" /\ idx = len /\ stage' \in {"chase", "done"}
      /\ buffer' = [buffer EXCEPT ![indices[len - 1]] = Address(indices[0])]
      /\ p' = Address(0)
  BY DEF Close
<1>2. /\ len \in Nat /\ len > 0
      /\ indices \in [Entry -> Entry] /\ IsInjective(indices) /\ buffer \in [Entry -> Nat]
      /\ visits \in [Entry -> Nat]
  BY <1>1 DEF ChaseInv, ChaseTyped
<1>3. Entry' = Entry
  BY <1>1 DEF Entry
<1>4. 0 \in Entry /\ len - 1 \in Entry
  <2>1. len \in Nat /\ len > 0
    BY <1>2
  <2> QED BY ONLY <2>1 DEF Entry
<1>5. Address(indices[0]) \in Nat
  <2>1. indices[0] \in Nat
    BY <1>2, <1>4 DEF Entry
  <2> QED BY <2>1 DEF Address
<1>6. buffer' \in [Entry -> Nat]
  BY <1>1, <1>2, <1>5
<1>7. ASSUME NEW j \in Entry PROVE buffer'[indices[j]] = Address(indices[Succ(j)])
  <2>1. CASE j = len - 1
    BY <1>1, <1>2, <1>4, <2>1 DEF Succ
  <2>2. CASE j # len - 1
    <3>1. indices[j] # indices[len - 1] /\ indices[j] \in Entry
      BY <1>2, <1>4, <2>2 DEF IsInjective
    <3>2. j \in 0 .. idx - 2
      <4>1. len \in Nat /\ idx = len
        BY <1>1, <1>2
      <4> QED BY ONLY <4>1, <2>2, j \in Entry DEF Entry
    <3>3. buffer[indices[j]] = Address(indices[j + 1])
      BY <1>1, <3>2 DEF ChaseInv, Linked
    <3> QED BY <1>1, <1>2, <2>2, <3>1, <3>3 DEF Succ
  <2> QED BY <2>1, <2>2
<1>8. ChaseTyped'
  BY <1>1, <1>2, <1>3, <1>6 DEF ChaseInv, ChaseTyped
<1>9. Linked'
  <2>1. \A j \in Entry : Succ(j)' = Succ(j) /\ Address(indices[Succ(j)])' = Address(indices[Succ(j)])
    BY <1>1 DEF Succ, Address
  <2> QED BY <1>1, <1>3, <1>7, <2>1 DEF Linked
<1>10. Walked'
  <2>1. PICK r \in Entry : indices[r] = 0
    BY <1>2, <1>4, PlaceOfEntry
  <2>2. \A j \in Entry : ~Passed(r, r, j)
    BY <1>2, <2>1 DEF Passed, Entry
  <2>3. \A j \in Entry : visits[indices[j]] = 0
    BY <1>1, <1>2 DEF ChaseInv, Walked
  <2>4. \A j \in Entry : visits'[indices'[j]] = 0 + (IF Passed(r, r, j)' THEN 1 ELSE 0)
    BY <1>1, <2>2, <2>3 DEF Passed
  <2>5. p' = Address(indices'[r])
    BY <1>1, <2>1
  <2>6. 0 \in Nat
    OBVIOUS
  <2>7. \A r1, j : Passed(r1, r1, j)' = Passed(r1, r1, j)
    BY DEF Passed
  <2> QED BY <1>1, <1>3, <2>1, <2>4, <2>5, <2>6 DEF Walked, Address
<1>11. Stops'
  BY <1>1 DEF Stops
<1> QED BY <1>8, <1>9, <1>10, <1>11 DEF ChaseInv

\* A step of the walk passes the entry it was at; behind the last entry of a
\* lap all have been passed.
LEMMA PassedNext ==
  ASSUME len \in Nat, NEW r \in Entry, NEW q \in Entry, NEW j \in Entry
  PROVE  /\ Succ(q) \in Entry
         /\ ~Passed(r, q, q) /\ ~Passed(r, r, j)
         /\ IF Succ(q) = r THEN Passed(r, q, j) \/ j = q
                           ELSE Passed(r, Succ(q), j) <=> Passed(r, q, j) \/ j = q
BY DEF Succ, Passed, Entry

LEMMA ChaseStepInv == ChaseInv /\ Chase => ChaseInv'
<1> SUFFICES ASSUME ChaseInv, Chase PROVE ChaseInv'
  OBVIOUS
<1>1. /\ UNCHANGED <<call, buffer_sz, len, indices, idx>>
      /\ stage = "chase" /\ left > 0 /\ left' = left - 1
  BY DEF Chase
<1>2. /\ len \in Nat /\ left \in Nat
      /\ indices \in [Entry -> Entry] /\ IsInjective(indices) /\ buffer \in [Entry -> Nat]
      /\ visits \in [Entry -> Nat]
  BY <1>1 DEF ChaseInv, ChaseTyped
<1>3. Entry' = Entry
  BY <1>1 DEF Entry
<1>4. PICK r \in Entry, q \in Entry, c \in Nat :
        /\ p = Address(indices[q])
        /\ \A j \in Entry : visits[indices[j]] = c + (IF Passed(r, q, j) THEN 1 ELSE 0)
  BY <1>1 DEF ChaseInv, Walked
<1>5. indices[q] \in Entry /\ p \in Addresses
  BY <1>2, <1>4 DEF Addresses
<1>6. EntryAt(p) = indices[q]
  <2>1. indices[q] \in Nat
    BY <1>5 DEF Entry
  <2> QED BY <1>4, <2>1 DEF EntryAt, Address
<1>7. Succ(q) \in Entry /\ indices[Succ(q)] \in Nat
  <2>1. Succ(q) \in Entry
    BY <1>2, PassedNext
  <2> QED BY <1>2, <2>1 DEF Entry
<1>8. buffer[indices[q]] = Address(indices[Succ(q)]) /\ ~CasSucceeds(buffer[indices[q]])
  <2>1. buffer[indices[q]] = Address(indices[Succ(q)])
    BY <1>1 DEF ChaseInv, Linked
  <2> QED BY <1>7, <2>1 DEF CasSucceeds, NULL, Address
<1>9. /\ p' = Address(indices[Succ(q)]) /\ buffer' = buffer /\ stage' = "chase"
      /\ visits' = [visits EXCEPT ![indices[q]] = @ + 1]
  BY <1>1, <1>5, <1>6, <1>8 DEF Chase
<1>10. visits' \in [Entry -> Nat]
  BY <1>2, <1>5, <1>9
<1>11. ChaseTyped'
  <2>1. left' \in Nat
    BY <1>1, <1>2
  <2> QED BY <1>1, <1>3, <1>9, <1>10, <2>1 DEF ChaseInv, ChaseTyped
<1>12. Linked'
  <2>1. \A j \in Entry : Succ(j)' = Succ(j) /\ Address(indices[Succ(j)])' = Address(indices[Succ(j)])
    BY <1>1 DEF Succ, Address
  <2> QED BY <1>1, <1>3, <1>9, <2>1 DEF ChaseInv, Linked
<1>13. ASSUME NEW j \in Entry
       PROVE  visits'[indices[j]] = c + (IF Passed(r, q, j) \/ j = q THEN 1 ELSE 0)
  <2>1. indices[j] \in Entry /\ (indices[j] = indices[q] => j = q)
    BY <1>2 DEF IsInjective
  <2>2. visits[indices[j]] = c + (IF Passed(r, q, j) THEN 1 ELSE 0)
    BY <1>4
  <2>3. CASE j = q
    <3>1. ~Passed(r, q, q)
      BY <1>2, PassedNext
    <3>2. visits[indices[q]] = c
      BY <2>2, <2>3, <3>1
    <3> QED BY <1>2, <1>5, <1>9, <2>3, <3>2
  <2>4. CASE j # q
    BY <1>2, <1>9, <2>1, <2>2, <2>4
  <2> QED BY <2>3, <2>4
<1> DEFINE d == IF Succ(q) = r THEN c + 1 ELSE c
<1>14. d \in Nat
  OBVIOUS
<1>15. \A j \in Entry : visits'[indices[j]] = d + (IF Passed(r, Succ(q), j) THEN 1 ELSE 0)
  <2> TAKE j \in Entry
  <2>1. CASE Succ(q) = r
    <3>1. (Passed(r, q, j) \/ j = q) /\ ~Passed(r, Succ(q), j)
      BY <1>2, <2>1, PassedNext
    <3> QED BY <1>13, <2>1, <3>1
  <2>2. CASE Succ(q) # r
    <3>1. Passed(r, Succ(q), j) <=> Passed(r, q, j) \/ j = q
      BY <1>2, <2>2, PassedNext
    <3> QED BY <1>13, <2>2, <3>1
  <2> QED BY <2>1, <2>2
<1>16. Walked'
  <2>1. \A j : Passed(r, Succ(q), j)' <=> Passed(r, Succ(q), j)
    BY <1>1 DEF Passed, Succ
  <2>2. p' = Address(indices'[Succ(q)]) /\ stage' = "chase"
    BY <1>1, <1>9
  <2> HIDE DEF d
  <2>3. \E r1, q1 \in Entry, c1 \in Nat :
           /\ p' = Address(indices'[q1])
           /\ \A j \in Entry : visits'[indices'[j]] = c1 + (IF Passed(r1, q1, j) THEN 1 ELSE 0)
    BY <1>1, <1>7, <1>14, <1>15, <2>2
  <2> QED BY <1>3, <2>2, <2>3 DEF Walked, Address, Passed
<1>17. Stops'
  BY <1>1, <1>9 DEF Stops
<1> QED BY <1>11, <1>12, <1>16, <1>17 DEF ChaseInv

LEMMA ChaseNextInv == ChaseInv /\ [ChaseNext]_chase => ChaseInv'
<1> SUFFICES ASSUME ChaseInv, [ChaseNext]_chase PROVE ChaseInv'
  OBVIOUS
<1>1. CASE EndChase
  <2>1. /\ UNCHANGED <<call, buffer_sz, len, indices, buffer, idx, p, left, visits>>
        /\ stage = "chase" /\ stage' = "done"
    BY <1>1 DEF EndChase
  <2>2. Entry' = Entry /\ \A j : Succ(j)' = Succ(j)
    BY <2>1 DEF Entry, Succ
  <2>3. ChaseTyped'
    BY <2>1, <2>2 DEF ChaseInv, ChaseTyped
  <2>4. Linked'
    BY <2>1, <2>2 DEF ChaseInv, Linked, Address
  <2>5. Walked'
    BY <2>1, <2>2 DEF ChaseInv, Walked, Address, Passed
  <2>6. Stops'
    BY <2>1 DEF Stops
  <2> QED BY <2>3, <2>4, <2>5, <2>6 DEF ChaseInv
<1>2. CASE UNCHANGED chase
  <2>1. UNCHANGED <<call, buffer_sz, len, indices, buffer, idx, p, left, visits, stage>>
    BY <1>2 DEF chase
  <2>2. Entry' = Entry /\ \A j : Succ(j)' = Succ(j)
    BY <2>1 DEF Entry, Succ
  <2>3. ChaseTyped'
    BY <2>1, <2>2 DEF ChaseInv, ChaseTyped
  <2>4. Linked'
    BY <2>1, <2>2 DEF ChaseInv, Linked, Address
  <2>5. Walked'
    BY <2>1, <2>2 DEF ChaseInv, Walked, Address, Passed
  <2>6. Stops'
    BY <2>1 DEF ChaseInv, Stops
  <2> QED BY <2>3, <2>4, <2>5, <2>6 DEF ChaseInv
<1> QED BY <1>1, <1>2, AllocateInv, ShuffleInv, LinkInv, CloseInv, ChaseStepInv
        DEF ChaseNext, Terminated

-----------------------------------------------------------------------------
\* A set of places that holds the next one of each of its own holds all.
LEMMA ClosedIsAll ==
  ASSUME len \in Nat, NEW T \in SUBSET Entry, T # {}, \A j \in T : Succ(j) \in T
  PROVE  T = Entry
<1>1. PICK s \in T : TRUE
  OBVIOUS
<1>2. s \in Nat /\ len - 1 \in Nat /\ s <= len - 1
  BY DEF Entry
<1> DEFINE A == {n \in Nat : s + n <= len - 1 => s + n \in T}
           B == {n \in Nat : n <= len - 1 => n \in T}
<1>3. ASSUME NEW n \in T, n < len - 1 PROVE n + 1 \in T
  BY <1>3 DEF Succ, Entry
<1>4. 0 \in A /\ \A n \in A : n + 1 \in A
  <2>1. 0 \in A
    BY <1>2
  <2>2. ASSUME NEW n \in A, s + (n + 1) <= len - 1 PROVE s + (n + 1) \in T
    <3>1. s + n < len - 1 /\ s + n \in T
      BY <1>2, <2>2
    <3>2. s + n + 1 \in T
      BY <1>3, <3>1
    <3> QED BY <1>2, <3>2
  <2> QED BY <2>1, <2>2
<1>5. len - 1 \in T
  <2>1. A \in SUBSET Nat
    OBVIOUS
  <2> HIDE DEF A
  <2>2. A = Nat
    BY ONLY <1>4, <2>1, NatSetInduction
  <2>3. len - 1 - s \in A
    BY <1>2, <2>2
  <2>4. s + (len - 1 - s) \in T
    BY <1>2, <2>3 DEF A
  <2> QED BY <1>2, <2>4
<1>6. 0 \in T
  BY <1>5 DEF Succ
<1>7. 0 \in B /\ \A n \in B : n + 1 \in B
  BY <1>2, <1>3, <1>6
<1>8. Entry \subseteq T
  <2>1. B \in SUBSET Nat
    OBVIOUS
  <2> HIDE DEF B
  <2>2. B = Nat
    BY ONLY <1>7, <2>1, NatSetInduction
  <2> QED BY <2>2 DEF B, Entry
<1> QED BY <1>8

\* The links are one cycle through all entries, for every size of the buffer,
\* every size of an entry and every order the shuffle leaves; where there is
\* no cycle the aligned size is 0.
THEOREM LinksOneCycle == ChaseSpec => []OneCycle
<1>1. ASSUME ChaseInv PROVE OneCycle
  <2>1. ASSUME stage \in {"chase", "done"}, NEW S \in SUBSET Entry, S # {},
               \A e \in S : buffer[e] \in {Address(l) : l \in S}
        PROVE  S = Entry
    <3>1. len \in Nat /\ indices \in [Entry -> Entry] /\ IsInjective(indices)
      BY <1>1, <2>1 DEF ChaseInv, ChaseTyped
    <3> DEFINE T == {j \in Entry : indices[j] \in S}
    <3>2. T # {}
      BY <2>1, <3>1, PlaceOfEntry
    <3>3. ASSUME NEW j \in T PROVE Succ(j) \in T
      <4>1. Succ(j) \in Entry /\ indices[Succ(j)] \in Entry
        BY <3>1, PassedNext
      <4>2. PICK l \in S : Address(indices[Succ(j)]) = Address(l)
        BY <1>1, <2>1 DEF ChaseInv, Linked
      <4>3. l = indices[Succ(j)]
        BY <4>1, <4>2 DEF Address, Entry
      <4> QED BY <4>1, <4>3
    <3>4. T = Entry
      <4> HIDE DEF T
      <4>1. T \in SUBSET Entry
        BY DEF T
      <4> QED BY <3>1, <3>2, <3>3, <4>1, ClosedIsAll
    <3>5. ASSUME NEW e \in Entry PROVE e \in S
      BY <3>1, <3>4, PlaceOfEntry
    <3> QED BY <3>5
  <2> QED BY <1>1, <2>1 DEF OneCycle, ChaseInv, Stops
<1> QED BY <1>1, ChaseInitInv, ChaseNextInv, PTL DEF ChaseSpec

\* The walk never leaves the buffer and reads all its entries equally often,
\* but for the last lap, with loads and with failing compare-and-swaps.
THEOREM WalksEvenly == ChaseSpec => []WalkIsEven
<1>1. ASSUME ChaseInv PROVE WalkIsEven
  <2>1. ASSUME stage \in {"chase", "done"}, NEW e \in Entry, NEW f \in Entry
        PROVE  visits[e] <= visits[f] + 1
    <3>1. PICK r \in Entry, q \in Entry, c \in Nat :
            \A j \in Entry : visits[indices[j]] = c + (IF Passed(r, q, j) THEN 1 ELSE 0)
      BY <1>1, <2>1 DEF ChaseInv, Walked
    <3>2. PICK j \in Entry, m \in Entry : indices[j] = e /\ indices[m] = f
      BY <1>1, <2>1, PlaceOfEntry DEF ChaseInv, ChaseTyped
    <3>3. visits[e] \in c .. c + 1 /\ visits[f] \in c .. c + 1
      BY <3>1, <3>2
    <3> QED BY <3>3
  <2> QED BY <1>1, <2>1 DEF WalkIsEven, ChaseInv, Stops
<1> QED BY <1>1, ChaseInitInv, ChaseNextInv, PTL DEF ChaseSpec

-----------------------------------------------------------------------------
(***************************************************************************)
(* degree.py renames, and what it writes is sorted, for every edge list    *)
(* and all options.                                                        *)
(***************************************************************************)

Keys == {Key(edge_list[n]) : n \in DOMAIN edge_list}

\* How many of the first m edges count for v.
KeyAt(v, m) == {n \in 1 .. m : Key(edge_list[n]) = v}
CountTo(v, m) == Cardinality(KeyAt(v, m))

Low == IF args.maintain THEN 1 ELSE 0

\* What a numbering f whose next number is c satisfies in both loops.
GoodNumbers(f, c) ==
  /\ c \in Nat /\ Low <= c
  /\ f \in [DOMAIN f -> 0 .. c - 1] /\ IsInjective(f)
  /\ args.maintain => \A v \in DOMAIN f : f[v] = 0 => v = 0
  /\ Low .. c - 1 \subseteq Range(f)

\* The numbers rise along the order; who is not in the order comes behind.
Rising(f) ==
  \A v \in DOMAIN f, n \in DOMAIN ordered :
    /\ ordered[n] \in DOMAIN f /\ f[v] < f[ordered[n]]
    /\ args.maintain => f[v] # 0
    => \E m \in DOMAIN ordered : m < n /\ ordered[m] = v

ScriptTyped ==
  /\ args \in Flags /\ edge_list \in EdgeLists
  /\ k \in Nat \ {0}
  /\ at \in {"read", "map", "rewrite", "done"}

\* The dict holds every vertex once, with its edges among those read so far.
ReadSoFar ==
  at = "read" =>
    /\ k <= Len(edge_list) + 1
    /\ edges_by_node \in Seq(Nat \X Nat)
    /\ \A m, n \in DOMAIN edges_by_node : edges_by_node[m][1] = edges_by_node[n][1] => m = n
    /\ \A n \in 1 .. k - 1 : \E m \in DOMAIN edges_by_node : edges_by_node[m][1] = Key(edge_list[n])
    /\ \A m \in DOMAIN edges_by_node :
         /\ edges_by_node[m][1] \in Keys
         /\ edges_by_node[m][2] = CountTo(edges_by_node[m][1], k - 1)

\* The order holds every vertex with an edge in the counted direction once.
OrderSorted ==
  at # "read" =>
    /\ ordered \in Seq(Nat) /\ IsInjective(ordered)
    /\ \A n \in DOMAIN ordered : ordered[n] \in Keys
    /\ \A v \in Keys : \E n \in DOMAIN ordered : ordered[n] = v
    /\ \A m, n \in DOMAIN ordered : m < n =>
         IF args.ascending
           THEN CountTo(ordered[m], Len(edge_list)) <= CountTo(ordered[n], Len(edge_list))
           ELSE CountTo(ordered[m], Len(edge_list)) >= CountTo(ordered[n], Len(edge_list))

\* The vertices that had their turn are numbered, and the edges rewritten.
MappedSoFar ==
  /\ at = "read" => mapping = <<>> /\ next_id = 0
  /\ at # "read" => GoodNumbers(mapping, next_id) /\ Rising(mapping)
  /\ at = "map" =>
       /\ k <= Len(ordered) + 1
       /\ DOMAIN mapping = {ordered[n] : n \in 1 .. k - 1}
  /\ at \in {"rewrite", "done"} => Keys \subseteq DOMAIN mapping /\ DOMAIN mapping \subseteq Vertices

RewrittenSoFar ==
  /\ at \in {"read", "map"} => sorted_output = <<>>
  /\ at \in {"rewrite", "done"} =>
       /\ sorted_output \in Seq(Nat \X Nat) /\ Len(sorted_output) = k - 1
       /\ k <= Len(edge_list) + 1
       /\ \A n \in 1 .. k - 1 :
            /\ edge_list[n][1] \in DOMAIN mapping /\ edge_list[n][2] \in DOMAIN mapping
            /\ sorted_output[n] = <<mapping[edge_list[n][1]], mapping[edge_list[n][2]]>>
  /\ at = "done" => k = Len(edge_list) + 1

ScriptInv == ScriptTyped /\ ReadSoFar /\ OrderSorted /\ MappedSoFar /\ RewrittenSoFar

-----------------------------------------------------------------------------
LEMMA EdgeTypes ==
  ASSUME ScriptTyped
  PROVE  /\ edge_list \in Seq(Nat \X Nat) /\ Len(edge_list) \in Nat
         /\ DOMAIN edge_list = 1 .. Len(edge_list)
         /\ \A n \in 1 .. Len(edge_list) :
              /\ edge_list[n] \in Nat \X Nat /\ Key(edge_list[n]) \in Nat
              /\ edge_list[n][1] \in Nat /\ edge_list[n][2] \in Nat
              /\ edge_list[n][1] \in Vertices /\ edge_list[n][2] \in Vertices
              /\ Key(edge_list[n]) \in Vertices
<1>1. edge_list \in Seq(Nat \X Nat)
  BY EdgesAssumption DEF ScriptTyped
<1>2. Len(edge_list) \in Nat /\ DOMAIN edge_list = 1 .. Len(edge_list)
  BY <1>1
<1>3. ASSUME NEW n \in 1 .. Len(edge_list)
      PROVE  /\ edge_list[n] \in Nat \X Nat
             /\ edge_list[n][1] \in Nat /\ edge_list[n][2] \in Nat
             /\ edge_list[n][1] \in Vertices /\ edge_list[n][2] \in Vertices
  <2>1. edge_list[n] \in Nat \X Nat
    BY <1>1, ElementOfSeq
  <2>2. {edge_list[n][1], edge_list[n][2]} \in {{edge_list[m][1], edge_list[m][2]} : m \in DOMAIN edge_list}
    BY <1>2
  <2> QED BY <2>1, <2>2 DEF Vertices
<1> QED BY <1>1, <1>2, <1>3 DEF Key

LEMMA FunctionIsSeq == ASSUME NEW S, NEW n \in Nat, NEW f \in [1 .. n -> S] PROVE f \in Seq(S)
BY SeqDef

LEMMA CountType == ASSUME NEW v, NEW m \in Nat PROVE IsFiniteSet(KeyAt(v, m)) /\ CountTo(v, m) \in Nat
<1>1. IsFiniteSet(1 .. m)
  BY FS_Interval
<1>2. KeyAt(v, m) \subseteq 1 .. m
  BY DEF KeyAt
<1>3. IsFiniteSet(KeyAt(v, m))
  BY <1>1, <1>2, FS_Subset
<1> QED BY <1>3, FS_CardinalityType DEF CountTo

\* One more edge counts for its key.
LEMMA KeyCounts ==
  ASSUME NEW v, NEW m \in Nat \ {0}
  PROVE  CountTo(v, m) = IF Key(edge_list[m]) = v THEN CountTo(v, m - 1) + 1 ELSE CountTo(v, m - 1)
<1>1. KeyAt(v, m) = IF Key(edge_list[m]) = v THEN KeyAt(v, m - 1) \cup {m} ELSE KeyAt(v, m - 1)
  BY DEF KeyAt
<1>2. m \notin KeyAt(v, m - 1)
  BY DEF KeyAt
<1>3. IsFiniteSet(KeyAt(v, m - 1))
  BY CountType
<1>4. Cardinality(KeyAt(v, m - 1) \cup {m}) = Cardinality(KeyAt(v, m - 1)) + 1
  BY <1>2, <1>3, FS_AddElement
<1> QED BY <1>1, <1>4 DEF CountTo

\* A vertex gets the next number.
LEMMA NewNumber ==
  ASSUME NEW f, NEW c, NEW v, GoodNumbers(f, c), v \notin DOMAIN f
  PROVE  GoodNumbers(Mapped(f, v, c), c + 1)
<1> DEFINE g == Mapped(f, v, c)
<1>1. DOMAIN g = DOMAIN f \cup {v} /\ g[v] = c /\ \A w \in DOMAIN f : g[w] = f[w]
  BY DEF Mapped
<1>2. c \in Nat /\ f \in [DOMAIN f -> 0 .. c - 1] /\ Low \in Nat /\ Low <= c
  BY DEF GoodNumbers, Low
<1>3. g = [w \in DOMAIN g |-> g[w]]
  BY DEF Mapped
<1> HIDE DEF g
<1>4. \A w \in DOMAIN g : g[w] \in 0 .. (c + 1) - 1
  BY <1>1, <1>2
<1>5. g \in [DOMAIN g -> 0 .. (c + 1) - 1]
  BY <1>3, <1>4
<1>6. IsInjective(g)
  <2>1. \A w \in DOMAIN f : g[w] # c
    BY <1>1, <1>2
  <2> QED BY <1>1, <2>1 DEF GoodNumbers, IsInjective
<1>7. args.maintain => \A w \in DOMAIN g : g[w] = 0 => w = 0
  <2>1. args.maintain => c # 0
    BY <1>2 DEF Low
  <2> QED BY <1>1, <2>1 DEF GoodNumbers
<1>8. ASSUME NEW x \in Low .. (c + 1) - 1 PROVE x \in Range(g)
  <2>1. CASE x = c
    BY <1>1, <2>1 DEF Range
  <2>2. CASE x # c
    <3>1. x \in Low .. c - 1
      BY <1>2, <2>2
    <3>2. PICK w \in DOMAIN f : f[w] = x
      BY <3>1 DEF GoodNumbers, Range
    <3> QED BY <1>1, <3>2 DEF Range
  <2> QED BY <2>1, <2>2
<1>9. GoodNumbers(g, c + 1)
  BY <1>2, <1>5, <1>6, <1>7, <1>8 DEF GoodNumbers
<1> QED BY <1>9 DEF g

\* A vertex that is not in the order gets a number behind those that are.
LEMMA RisingNew ==
  ASSUME NEW f, NEW c, NEW v, GoodNumbers(f, c), Rising(f), v \notin DOMAIN f,
         \A n \in DOMAIN ordered : ordered[n] \in DOMAIN f
  PROVE  Rising(Mapped(f, v, c))
<1>1. /\ DOMAIN Mapped(f, v, c) = DOMAIN f \cup {v}
      /\ Mapped(f, v, c)[v] = c
      /\ \A w \in DOMAIN f : Mapped(f, v, c)[w] = f[w]
  BY DEF Mapped
<1>2. c \in Nat /\ \A w \in DOMAIN f : f[w] \in 0 .. c - 1
  BY DEF GoodNumbers
<1>3. ASSUME NEW w \in DOMAIN f \cup {v}, NEW n \in DOMAIN ordered,
             Mapped(f, v, c)[w] < Mapped(f, v, c)[ordered[n]],
             args.maintain => Mapped(f, v, c)[w] # 0
      PROVE  \E m \in DOMAIN ordered : m < n /\ ordered[m] = w
  <2>1. Mapped(f, v, c)[ordered[n]] = f[ordered[n]] /\ f[ordered[n]] \in 0 .. c - 1
    BY <1>1, <1>2
  <2>2. w # v
    BY <1>1, <1>2, <1>3, <2>1
  <2>3. w \in DOMAIN f /\ Mapped(f, v, c)[w] = f[w]
    BY <1>1, <2>2
  <2> QED BY <1>3, <2>1, <2>3 DEF Rising
<1> QED BY <1>1, <1>3 DEF Rising

\* What the rewriting loop does for an end of an edge.
LEMMA MissingNumber ==
  ASSUME NEW f, NEW c, NEW v, GoodNumbers(f, c), Rising(f),
         \A n \in DOMAIN ordered : ordered[n] \in DOMAIN f
  PROVE  LET r == Missing(f, c, v)
         IN  /\ GoodNumbers(r.map, r.next_id) /\ Rising(r.map)
             /\ DOMAIN r.map = DOMAIN f \cup {v}
             /\ \A w \in DOMAIN f : r.map[w] = f[w]
<1>1. CASE v \in DOMAIN f
  <2>1. Missing(f, c, v).map = f /\ Missing(f, c, v).next_id = c
    BY <1>1 DEF Missing
  <2>2. DOMAIN f \cup {v} = DOMAIN f
    BY <1>1
  <2> QED BY <2>1, <2>2
<1>2. CASE v \notin DOMAIN f
  <2>1. Missing(f, c, v).map = Mapped(f, v, c) /\ Missing(f, c, v).next_id = c + 1
    BY <1>2 DEF Missing
  <2>2. /\ GoodNumbers(Mapped(f, v, c), c + 1)
        /\ DOMAIN Mapped(f, v, c) = DOMAIN f \cup {v}
        /\ \A w \in DOMAIN f : Mapped(f, v, c)[w] = f[w]
    BY <1>2, NewNumber DEF Mapped
  <2>3. Rising(Mapped(f, v, c))
    BY <1>2, RisingNew
  <2> QED BY <2>1, <2>2, <2>3
<1> QED BY <1>1, <1>2

-----------------------------------------------------------------------------
LEMMA ScriptInitInv == ScriptInit => ScriptInv
<1> SUFFICES ASSUME ScriptInit PROVE ScriptInv
  OBVIOUS
<1>1. ScriptTyped
  BY DEF ScriptInit, ScriptTyped
<1>2. ReadSoFar
  <2>1. Len(edge_list) \in Nat
    BY <1>1, EdgeTypes
  <2>2. edges_by_node \in Seq(Nat \X Nat) /\ DOMAIN edges_by_node = {}
    BY EmptySeq DEF ScriptInit
  <2>3. k = 1 /\ 1 .. k - 1 = {}
    BY DEF ScriptInit
  <2> QED BY <2>1, <2>2, <2>3 DEF ReadSoFar
<1>3. OrderSorted /\ MappedSoFar /\ RewrittenSoFar
  BY DEF ScriptInit, OrderSorted, MappedSoFar, RewrittenSoFar
<1> QED BY <1>1, <1>2, <1>3 DEF ScriptInv

LEMMA ReadEdgeInv == ScriptInv /\ ReadEdge => ScriptInv'
<1> SUFFICES ASSUME ScriptInv, ReadEdge PROVE ScriptInv'
  OBVIOUS
<1> DEFINE v == Key(edge_list[k])
           D == DOMAIN edges_by_node
<1>1. /\ UNCHANGED <<args, edge_list, ordered, mapping, next_id, sorted_output, at>>
      /\ at = "read" /\ k <= Len(edge_list) /\ k' = k + 1
      /\ edges_by_node' =
           IF \E n \in D : edges_by_node[n][1] = v
             THEN [n \in D |-> IF edges_by_node[n][1] = v THEN <<v, edges_by_node[n][2] + 1>>
                                                          ELSE edges_by_node[n]]
             ELSE Append(edges_by_node, <<v, 1>>)
  BY DEF ReadEdge
<1>2. ScriptTyped /\ ReadSoFar
  BY DEF ScriptInv
<1>3. k \in Nat \ {0} /\ Len(edge_list) \in Nat
  BY <1>2, EdgeTypes DEF ScriptTyped
<1>4. v \in Nat /\ v \in Keys
  <2>1. k \in 1 .. Len(edge_list)
    BY <1>1, <1>3
  <2>2. k \in DOMAIN edge_list
    BY <1>2, <2>1, EdgeTypes
  <2> QED BY <1>2, <2>1, <2>2, EdgeTypes DEF Keys
<1>5. edges_by_node \in Seq(Nat \X Nat) /\ Len(edges_by_node) \in Nat /\ D = 1 .. Len(edges_by_node)
  BY <1>1, <1>2 DEF ReadSoFar
<1>6. \A m \in D : edges_by_node[m] \in Nat \X Nat
  BY <1>5, ElementOfSeq
<1>7. \A m \in D : edges_by_node[m][2] = CountTo(edges_by_node[m][1], k - 1)
  BY <1>1, <1>2 DEF ReadSoFar
<1>8. \A w : CountTo(w, k) = IF v = w THEN CountTo(w, k - 1) + 1 ELSE CountTo(w, k - 1)
  BY <1>3, KeyCounts
<1>9. \A m, n \in D : edges_by_node[m][1] = edges_by_node[n][1] => m = n
  BY <1>1, <1>2 DEF ReadSoFar
<1>10. \A n \in 1 .. k - 1 : \E m \in D : edges_by_node[m][1] = Key(edge_list[n])
  BY <1>1, <1>2 DEF ReadSoFar
<1>11. \A m \in D : edges_by_node[m][1] \in Keys
  BY <1>1, <1>2 DEF ReadSoFar
<1> DEFINE N == DOMAIN edges_by_node'
           Dict == /\ edges_by_node' \in Seq(Nat \X Nat)
                   /\ \A m, n \in N : edges_by_node'[m][1] = edges_by_node'[n][1] => m = n
                   /\ \A n \in 1 .. k : \E m \in N : edges_by_node'[m][1] = Key(edge_list[n])
                   /\ \A m \in N : /\ edges_by_node'[m][1] \in Keys
                                   /\ edges_by_node'[m][2] = CountTo(edges_by_node'[m][1], k)
<1>12. ASSUME \E n \in D : edges_by_node[n][1] = v PROVE Dict
  <2>1. edges_by_node' = [n \in D |-> IF edges_by_node[n][1] = v
                                        THEN <<v, edges_by_node[n][2] + 1>> ELSE edges_by_node[n]]
    BY <1>1, <1>12
  <2>2. \A n \in D : edges_by_node'[n] \in Nat \X Nat
    BY <1>4, <1>6, <2>1
  <2>3. edges_by_node' \in Seq(Nat \X Nat) /\ N = D
    <3>1. edges_by_node' \in [1 .. Len(edges_by_node) -> Nat \X Nat]
      BY <1>5, <2>1, <2>2
    <3> QED BY <1>5, <2>1, <3>1, FunctionIsSeq
  <2>4. \A n \in D : edges_by_node'[n][1] = edges_by_node[n][1]
    BY <1>6, <2>1
  <2>5. \A n \in D : edges_by_node'[n][2] = CountTo(edges_by_node[n][1], k)
    BY <1>6, <1>7, <1>8, <2>1
  <2>6. \A n \in 1 .. k : \E m \in D : edges_by_node[m][1] = Key(edge_list[n])
    <3> TAKE n \in 1 .. k
    <3>1. n = k \/ n \in 1 .. k - 1
      BY <1>3
    <3> QED BY <1>10, <1>12, <3>1
  <2>7. \A m, n \in N : edges_by_node'[m][1] = edges_by_node'[n][1] => m = n
    BY <1>9, <2>3, <2>4
  <2>8. \A n \in 1 .. k : \E m \in N : edges_by_node'[m][1] = Key(edge_list[n])
    <3> HIDE DEF v, D, N
    <3> QED BY <2>3, <2>4, <2>6
  <2>9. \A m \in N : /\ edges_by_node'[m][1] \in Keys
                     /\ edges_by_node'[m][2] = CountTo(edges_by_node'[m][1], k)
    <3> HIDE DEF v, D, N
    <3> QED BY <1>11, <2>3, <2>4, <2>5
  <2> QED BY <2>3, <2>7, <2>8, <2>9
<1>13. ASSUME ~ \E n \in D : edges_by_node[n][1] = v PROVE Dict
  <2> DEFINE L == Len(edges_by_node)
  <2>1. edges_by_node' = Append(edges_by_node, <<v, 1>>) /\ <<v, 1>> \in Nat \X Nat
    BY <1>1, <1>4, <1>13
  <2>2. /\ edges_by_node' \in Seq(Nat \X Nat) /\ N = 1 .. L + 1
        /\ \A n \in D : edges_by_node'[n] = edges_by_node[n]
        /\ edges_by_node'[L + 1][1] = v /\ edges_by_node'[L + 1][2] = 1
    BY <1>5, <2>1, AppendProperties
  <2>3. \A n \in N : n \in D \/ n = L + 1
    BY <1>5, <2>2
  <2>4. L + 1 \in N /\ D \subseteq N
    BY <1>5, <2>2
  <2>5. CountTo(v, k) = 1
    <3>1. KeyAt(v, k - 1) = {}
      BY <1>10, <1>13 DEF KeyAt
    <3>2. CountTo(v, k - 1) = 0
      BY <3>1, FS_EmptySet DEF CountTo
    <3> QED BY <1>8, <3>2
  <2>6. \A n \in D : edges_by_node[n][1] # v
    BY <1>13
  <2>7. \A n \in D : edges_by_node'[n][2] = CountTo(edges_by_node'[n][1], k)
    BY <1>7, <1>8, <2>2, <2>6
  <2>8. \A m, n \in N : edges_by_node'[m][1] = edges_by_node'[n][1] => m = n
    <3> TAKE m, n \in N
    <3>1. m \in D => edges_by_node'[m][1] = edges_by_node[m][1] /\ edges_by_node[m][1] # v
      BY <2>2, <2>6
    <3>2. n \in D => edges_by_node'[n][1] = edges_by_node[n][1] /\ edges_by_node[n][1] # v
      BY <2>2, <2>6
    <3>3. (m \in D \/ m = L + 1) /\ (n \in D \/ n = L + 1)
      BY <2>3
    <3>4. m \in D /\ n \in D /\ edges_by_node[m][1] = edges_by_node[n][1] => m = n
      BY <1>9
    <3> HIDE DEF v, D, N, L
    <3> QED BY <2>2, <3>1, <3>2, <3>3, <3>4
  <2>9. \A n \in 1 .. k : \E m \in N : edges_by_node'[m][1] = Key(edge_list[n])
    <3> TAKE n \in 1 .. k
    <3>1. CASE n = k
      BY <2>2, <2>4, <3>1
    <3>2. CASE n \in 1 .. k - 1
      <4>1. PICK m \in D : edges_by_node[m][1] = Key(edge_list[n])
        BY <1>10, <3>2
      <4> QED BY <2>2, <2>4, <4>1
    <3> QED BY <1>3, <3>1, <3>2
  <2>10. \A m \in N : /\ edges_by_node'[m][1] \in Keys
                      /\ edges_by_node'[m][2] = CountTo(edges_by_node'[m][1], k)
    <3> HIDE DEF v, D, N, L
    <3> QED BY <1>4, <1>11, <2>2, <2>3, <2>5, <2>7
  <2> QED BY <2>2, <2>8, <2>9, <2>10
<1>14. Dict
  BY <1>12, <1>13
<1>15. ScriptTyped'
  BY <1>1, <1>2, <1>3 DEF ScriptTyped
<1>16. /\ Keys' = Keys /\ \A e : Key(e)' = Key(e)
       /\ \A w, m : CountTo(w, m)' = CountTo(w, m)
  BY <1>1 DEF Keys, Key, CountTo, KeyAt
<1>17. ReadSoFar'
  <2>1. k' - 1 = k /\ k' <= Len(edge_list') + 1
    BY <1>1, <1>3
  <2>2. \A n \in 1 .. k' - 1 : \E m \in N : edges_by_node'[m][1] = Key(edge_list[n])'
    BY <1>1, <1>14, <1>16, <2>1
  <2>3. \A m \in N : /\ edges_by_node'[m][1] \in Keys'
                     /\ edges_by_node'[m][2] = CountTo(edges_by_node[m][1], k - 1)'
    BY <1>14, <1>16, <2>1
  <2> HIDE DEF v, D
  <2> QED BY <1>14, <2>1, <2>2, <2>3 DEF ReadSoFar
<1>18. OrderSorted' /\ MappedSoFar' /\ RewrittenSoFar'
  BY <1>1 DEF ScriptInv, OrderSorted, MappedSoFar, RewrittenSoFar
<1> QED BY <1>15, <1>17, <1>18 DEF ScriptInv

LEMMA SortInv == ScriptInv /\ Sort => ScriptInv'
<1> SUFFICES ASSUME ScriptInv, Sort PROVE ScriptInv'
  OBVIOUS
<1> DEFINE D == DOMAIN edges_by_node
           L == Len(edge_list)
<1>1. /\ UNCHANGED <<args, edge_list, edges_by_node, mapping, sorted_output>>
      /\ at = "read" /\ at' = "map" /\ k > L /\ k' = 1
      /\ next_id' = Low
  BY DEF Sort, Low
<1>2. PICK perm \in SortedOrders : ordered' = [n \in DOMAIN perm |-> edges_by_node[perm[n]][1]]
  BY DEF Sort
<1>3. ScriptTyped /\ ReadSoFar
  BY DEF ScriptInv
<1>4. k - 1 = L /\ L \in Nat
  <2>1. k \in Nat /\ L \in Nat /\ k <= L + 1
    BY <1>1, <1>3, EdgeTypes DEF ScriptTyped, ReadSoFar
  <2> QED BY <1>1, <2>1
<1>5. edges_by_node \in Seq(Nat \X Nat) /\ Len(edges_by_node) \in Nat /\ D = 1 .. Len(edges_by_node)
  BY <1>1, <1>3 DEF ReadSoFar
<1>6. \A m \in D : edges_by_node[m] \in Nat \X Nat /\ edges_by_node[m][1] \in Nat
  BY <1>5, ElementOfSeq
<1>7. /\ perm \in [D -> D] /\ IsInjective(perm) /\ \A m \in D : \E n \in D : perm[n] = m
      /\ \A m, n \in D : m < n => StableOrder(perm[m], perm[n])
  BY <1>2 DEF SortedOrders, Bijection, Injection, Surjection
<1>8. /\ DOMAIN ordered' = D
      /\ \A n \in D : ordered'[n] = edges_by_node[perm[n]][1] /\ ordered'[n] \in Nat
  BY <1>2, <1>6, <1>7
<1>9. ordered' \in Seq(Nat)
  <2>1. ordered' \in [1 .. Len(edges_by_node) -> Nat]
    BY <1>2, <1>5, <1>7, <1>8
  <2> QED BY <1>5, <2>1, FunctionIsSeq
<1>10. \A m \in D : /\ edges_by_node[m][1] \in Keys
                    /\ edges_by_node[m][2] = CountTo(edges_by_node[m][1], L)
  BY <1>1, <1>3, <1>4 DEF ReadSoFar
<1>11. \A m, n \in D : edges_by_node[m][1] = edges_by_node[n][1] => m = n
  BY <1>1, <1>3 DEF ReadSoFar
<1>12. \A v \in Keys : \E m \in D : edges_by_node[m][1] = v
  <2>1. DOMAIN edge_list = 1 .. L
    BY <1>3, EdgeTypes
  <2> QED BY <1>1, <1>3, <1>4, <2>1 DEF ReadSoFar, Keys
<1>13. IsInjective(ordered')
  BY <1>7, <1>8, <1>11 DEF IsInjective
<1>14. \A v \in Keys : \E n \in D : ordered'[n] = v
  <2> TAKE v \in Keys
  <2>1. PICK m \in D : edges_by_node[m][1] = v
    BY <1>12
  <2>2. PICK n \in D : perm[n] = m
    BY <1>7
  <2> QED BY <1>8, <2>1, <2>2
<1>15. ASSUME NEW m \in D, NEW n \in D, m < n
       PROVE  IF args.ascending THEN CountTo(ordered'[m], L) <= CountTo(ordered'[n], L)
                                ELSE CountTo(ordered'[m], L) >= CountTo(ordered'[n], L)
  <2> DEFINE a == edges_by_node[perm[m]][2]
             b == edges_by_node[perm[n]][2]
  <2>0. perm[m] \in D /\ perm[n] \in D
    BY <1>7
  <2>1. a = CountTo(ordered'[m], L) /\ b = CountTo(ordered'[n], L)
    <3>1. ordered'[m] = edges_by_node[perm[m]][1] /\ ordered'[n] = edges_by_node[perm[n]][1]
      BY <1>8
    <3> HIDE DEF D, L
    <3> QED BY <1>10, <2>0, <3>1
  <2>2. a \in Nat /\ b \in Nat
    BY <1>4, <2>1, CountType
  <2>3. StableOrder(perm[m], perm[n])
    BY <1>7, <1>15
  <2>4. IF a = b THEN TRUE ELSE IF args.ascending THEN a < b ELSE a > b
    BY <2>3 DEF StableOrder
  <2> HIDE DEF a, b
  <2> QED BY <2>1, <2>2, <2>4
<1>16. Keys' = Keys /\ (\A v, m : CountTo(v, m)' = CountTo(v, m)) /\ Low' = Low
  BY <1>1 DEF Keys, Key, CountTo, KeyAt, Low
<1>17. OrderSorted'
  <2>1. \A n \in D : ordered'[n] \in Keys
    BY <1>7, <1>8, <1>10
  <2>2. \A m, n \in D : m < n =>
          IF args'.ascending THEN CountTo(ordered[m], L)' <= CountTo(ordered[n], L)'
                             ELSE CountTo(ordered[m], L)' >= CountTo(ordered[n], L)'
    BY <1>1, <1>15, <1>16
  <2> QED BY <1>8, <1>9, <1>13, <1>14, <1>16, <2>1, <2>2 DEF OrderSorted
<1>18. MappedSoFar'
  <2>1. mapping' = <<>> /\ DOMAIN mapping' = {}
    BY <1>1 DEF ScriptInv, MappedSoFar
  <2>2. Low \in Nat /\ Low' \in Nat
    BY <1>16 DEF Low
  <2>3. mapping' \in [{} -> 0 .. Low - 1]
    BY <2>1
  <2>4. GoodNumbers(mapping, next_id)'
    BY <1>1, <1>16, <2>1, <2>2, <2>3 DEF GoodNumbers, IsInjective
  <2>5. Rising(mapping)'
    BY <2>1 DEF Rising
  <2>6. 1 <= Len(ordered') + 1 /\ 1 .. 1 - 1 = {}
    BY <1>9
  <2> QED BY <1>1, <2>1, <2>4, <2>5, <2>6 DEF MappedSoFar
<1>19. ScriptTyped' /\ ReadSoFar' /\ RewrittenSoFar'
  BY <1>1 DEF ScriptInv, ScriptTyped, ReadSoFar, RewrittenSoFar
<1> QED BY <1>17, <1>18, <1>19 DEF ScriptInv

\* Vertex 0 keeps its number.
LEMMA KeepZero ==
  ASSUME NEW f, NEW c, GoodNumbers(f, c), Rising(f), 0 \notin DOMAIN f, args.maintain
  PROVE  GoodNumbers(Mapped(f, 0, 0), c) /\ Rising(Mapped(f, 0, 0))
<1> DEFINE g == Mapped(f, 0, 0)
<1>1. DOMAIN g = DOMAIN f \cup {0} /\ g[0] = 0 /\ \A w \in DOMAIN f : g[w] = f[w]
  BY DEF Mapped
<1>2. c \in Nat /\ f \in [DOMAIN f -> 0 .. c - 1] /\ Low = 1 /\ Low <= c
  BY DEF GoodNumbers, Low
<1>3. g = [w \in DOMAIN g |-> g[w]]
  BY DEF Mapped
<1> HIDE DEF g
<1>4. \A w \in DOMAIN g : g[w] \in 0 .. c - 1
  BY <1>1, <1>2
<1>5. g \in [DOMAIN g -> 0 .. c - 1]
  BY <1>3, <1>4
<1>6. \A w \in DOMAIN f : f[w] # 0
  BY DEF GoodNumbers
<1>7. IsInjective(g)
  BY <1>1, <1>6 DEF GoodNumbers, IsInjective
<1>8. \A w \in DOMAIN g : g[w] = 0 => w = 0
  BY <1>1, <1>6
<1>9. Low .. c - 1 \subseteq Range(g)
  BY <1>1 DEF GoodNumbers, Range
<1>10. GoodNumbers(g, c)
  BY <1>2, <1>5, <1>7, <1>8, <1>9 DEF GoodNumbers
<1>11. ASSUME NEW v \in DOMAIN g, NEW n \in DOMAIN ordered, ordered[n] \in DOMAIN g,
              g[v] < g[ordered[n]], g[v] # 0
       PROVE  \E m \in DOMAIN ordered : m < n /\ ordered[m] = v
  <2>1. v \in DOMAIN f /\ g[v] = f[v] /\ f[v] \in Nat
    BY <1>1, <1>2, <1>11
  <2>2. ordered[n] \in DOMAIN f /\ g[ordered[n]] = f[ordered[n]]
    BY <1>1, <1>11, <2>1
  <2> QED BY <1>11, <2>1, <2>2 DEF Rising
<1>12. Rising(g)
  BY <1>11 DEF Rising
<1> QED BY <1>10, <1>12 DEF g

\* The next one in the order gets the next number.
LEMMA RisingNext ==
  ASSUME NEW f, NEW c, NEW l \in Nat \ {0}, GoodNumbers(f, c), Rising(f),
         ordered \in Seq(Nat), IsInjective(ordered), l <= Len(ordered),
         DOMAIN f = {ordered[n] : n \in 1 .. l - 1}
  PROVE  ordered[l] \notin DOMAIN f /\ Rising(Mapped(f, ordered[l], c))
<1> DEFINE g == Mapped(f, ordered[l], c)
           v == ordered[l]
<1>0. DOMAIN ordered = 1 .. Len(ordered) /\ Len(ordered) \in Nat
  OBVIOUS
<1>1. l \in DOMAIN ordered
  BY <1>0
<1>2. v \notin DOMAIN f
  BY <1>0, <1>1 DEF IsInjective
<1>3. DOMAIN g = DOMAIN f \cup {v} /\ g[v] = c /\ \A w \in DOMAIN f : g[w] = f[w]
  BY <1>2 DEF Mapped
<1>4. c \in Nat /\ \A w \in DOMAIN f : f[w] \in 0 .. c - 1
  BY DEF GoodNumbers
<1> HIDE DEF g, v
<1>5. ASSUME NEW w \in DOMAIN g, NEW n \in DOMAIN ordered, ordered[n] \in DOMAIN g,
             g[w] < g[ordered[n]], args.maintain => g[w] # 0
      PROVE  \E m \in DOMAIN ordered : m < n /\ ordered[m] = w
  <2>0. g[ordered[n]] \in 0 .. c
    <3>1. CASE ordered[n] = v
      BY <1>3, <1>4, <3>1
    <3>2. CASE ordered[n] \in DOMAIN f
      <4>1. g[ordered[n]] = f[ordered[n]] /\ f[ordered[n]] \in 0 .. c - 1
        BY <1>3, <1>4, <3>2
      <4> QED BY <1>4, <4>1
    <3> QED BY <1>3, <1>5, <3>1, <3>2
  <2>1. w \in DOMAIN f /\ g[w] = f[w]
    BY <1>3, <1>4, <1>5, <2>0
  <2>2. CASE n = l
    <3>1. PICK m \in 1 .. l - 1 : ordered[m] = w
      BY <2>1
    <3> QED BY <1>0, <2>2, <3>1
  <2>3. CASE n # l
    <3>1. ordered[n] # v
      BY <1>1, <2>3 DEF IsInjective, v
    <3>2. ordered[n] \in DOMAIN f /\ g[ordered[n]] = f[ordered[n]]
      BY <1>3, <1>5, <3>1
    <3> QED BY <1>5, <2>1, <3>2 DEF Rising
  <2> QED BY <2>2, <2>3
<1>6. Rising(g)
  BY <1>5 DEF Rising
<1> QED BY <1>2, <1>6 DEF g, v

LEMMA MapVertexInv == ScriptInv /\ MapVertex => ScriptInv'
<1> SUFFICES ASSUME ScriptInv, MapVertex PROVE ScriptInv'
  OBVIOUS
<1>1. /\ UNCHANGED <<args, edge_list, edges_by_node, ordered, sorted_output, at>>
      /\ at = "map" /\ k <= Len(ordered) /\ k' = k + 1
      /\ IF args.maintain /\ ordered[k] = 0
           THEN mapping' = Mapped(mapping, 0, 0) /\ next_id' = next_id
           ELSE mapping' = Mapped(mapping, ordered[k], next_id) /\ next_id' = next_id + 1
  BY DEF MapVertex
<1>2. /\ ordered \in Seq(Nat) /\ IsInjective(ordered) /\ Len(ordered) \in Nat
      /\ GoodNumbers(mapping, next_id) /\ Rising(mapping)
      /\ DOMAIN mapping = {ordered[n] : n \in 1 .. k - 1}
      /\ k \in Nat \ {0}
  BY <1>1 DEF ScriptInv, ScriptTyped, OrderSorted, MappedSoFar
<1>3. ordered[k] \notin DOMAIN mapping /\ Rising(Mapped(mapping, ordered[k], next_id))
  BY <1>1, <1>2, RisingNext
<1>4. GoodNumbers(mapping', next_id') /\ Rising(mapping')
  <2>1. CASE args.maintain /\ ordered[k] = 0
    BY <1>1, <1>2, <1>3, <2>1, KeepZero
  <2>2. CASE ~(args.maintain /\ ordered[k] = 0)
    BY <1>1, <1>2, <1>3, <2>2, NewNumber
  <2> QED BY <2>1, <2>2
<1>5. GoodNumbers(mapping, next_id)' /\ Rising(mapping)'
  BY <1>1, <1>4 DEF GoodNumbers, Rising, Low
<1>6. DOMAIN mapping' = {ordered'[n] : n \in 1 .. k' - 1}
  <2>1. DOMAIN mapping' = DOMAIN mapping \cup {ordered[k]}
    BY <1>1 DEF Mapped
  <2>2. k' - 1 = k /\ \A n \in 1 .. k : n = k \/ n \in 1 .. k - 1
    BY <1>1, <1>2
  <2>3. 1 .. k - 1 \subseteq 1 .. k /\ k \in 1 .. k
    BY <1>2
  <2> QED BY <1>1, <1>2, <2>1, <2>2, <2>3
<1>7. k' <= Len(ordered') + 1 /\ k' \in Nat \ {0}
  BY <1>1, <1>2
<1>8. MappedSoFar'
  BY <1>1, <1>5, <1>6, <1>7 DEF MappedSoFar
<1>9. ScriptTyped' /\ ReadSoFar' /\ RewrittenSoFar'
  BY <1>1, <1>7 DEF ScriptInv, ScriptTyped, ReadSoFar, RewrittenSoFar
<1>10. OrderSorted'
  <2>1. Keys' = Keys /\ \A v, m : CountTo(v, m)' = CountTo(v, m)
    BY <1>1 DEF Keys, Key, CountTo, KeyAt
  <2> QED BY <1>1, <2>1 DEF ScriptInv, OrderSorted
<1> QED BY <1>8, <1>9, <1>10 DEF ScriptInv

LEMMA EndMapInv == ScriptInv /\ EndMap => ScriptInv'
<1> SUFFICES ASSUME ScriptInv, EndMap PROVE ScriptInv'
  OBVIOUS
<1>1. /\ UNCHANGED <<args, edge_list, edges_by_node, ordered, mapping, next_id, sorted_output>>
      /\ at = "map" /\ at' = "rewrite" /\ k > Len(ordered) /\ k' = 1
  BY DEF EndMap
<1>2. /\ ordered \in Seq(Nat) /\ Len(ordered) \in Nat /\ DOMAIN ordered = 1 .. Len(ordered)
      /\ DOMAIN mapping = {ordered[n] : n \in 1 .. k - 1}
      /\ k \in Nat \ {0} /\ k <= Len(ordered) + 1
      /\ (\A n \in DOMAIN ordered : ordered[n] \in Keys)
      /\ \A v \in Keys : \E n \in DOMAIN ordered : ordered[n] = v
  BY <1>1 DEF ScriptInv, ScriptTyped, OrderSorted, MappedSoFar
<1>3. 1 .. k - 1 = DOMAIN ordered
  <2>1. k - 1 = Len(ordered)
    BY <1>1, <1>2
  <2> QED BY <1>2, <2>1
<1>4. DOMAIN mapping = Keys
  BY <1>2, <1>3
<1>5. Keys \subseteq Vertices /\ Len(edge_list) \in Nat
  BY EdgeTypes DEF ScriptInv, Keys
<1>6. Keys' = Keys /\ (\A v, m : CountTo(v, m)' = CountTo(v, m)) /\ Vertices' = Vertices
  BY <1>1 DEF Keys, Key, CountTo, KeyAt, Vertices
<1>7. MappedSoFar'
  <2>1. GoodNumbers(mapping, next_id)' /\ Rising(mapping)'
    BY <1>1 DEF ScriptInv, MappedSoFar, GoodNumbers, Rising, Low
  <2> QED BY <1>1, <1>4, <1>5, <1>6, <2>1 DEF MappedSoFar
<1>8. ScriptTyped' /\ ReadSoFar'
  BY <1>1 DEF ScriptInv, ScriptTyped, ReadSoFar
<1>9. OrderSorted'
  BY <1>1, <1>6 DEF ScriptInv, OrderSorted
<1>10. RewrittenSoFar'
  <2>1. sorted_output' = <<>>
    BY <1>1 DEF ScriptInv, RewrittenSoFar
  <2>2. sorted_output' \in Seq(Nat \X Nat) /\ Len(sorted_output') = 0
    BY <2>1, EmptySeq
  <2>3. k' - 1 = 0 /\ k' <= Len(edge_list') + 1 /\ 1 .. k' - 1 = {}
    BY <1>1, <1>5
  <2> QED BY <1>1, <2>2, <2>3 DEF RewrittenSoFar
<1> QED BY <1>7, <1>8, <1>9, <1>10 DEF ScriptInv

LEMMA RewriteEdgeInv == ScriptInv /\ RewriteEdge => ScriptInv'
<1> SUFFICES ASSUME ScriptInv, RewriteEdge PROVE ScriptInv'
  OBVIOUS
<1> DEFINE src == edge_list[k][1]
           dst == edge_list[k][2]
           one == Missing(mapping, next_id, src)
           two == Missing(one.map, one.next_id, dst)
<1>1. /\ UNCHANGED <<args, edge_list, edges_by_node, ordered, at>>
      /\ at = "rewrite" /\ k <= Len(edge_list) /\ k' = k + 1
      /\ mapping' = two.map /\ next_id' = two.next_id
      /\ sorted_output' = Append(sorted_output, <<two.map[src], two.map[dst]>>)
  BY DEF RewriteEdge
<1>2. ScriptTyped /\ k \in Nat \ {0} /\ Len(edge_list) \in Nat
  BY EdgeTypes DEF ScriptInv, ScriptTyped
<1>3. k \in 1 .. Len(edge_list)
  BY <1>1, <1>2
<1>4. src \in Vertices /\ dst \in Vertices
  BY <1>2, <1>3, EdgeTypes
<1>5. /\ GoodNumbers(mapping, next_id) /\ Rising(mapping)
      /\ Keys \subseteq DOMAIN mapping /\ DOMAIN mapping \subseteq Vertices
  BY <1>1 DEF ScriptInv, MappedSoFar
<1>6. \A n \in DOMAIN ordered : ordered[n] \in Keys
  BY <1>1 DEF ScriptInv, OrderSorted
<1>7. /\ GoodNumbers(one.map, one.next_id) /\ Rising(one.map)
      /\ DOMAIN one.map = DOMAIN mapping \cup {src}
      /\ \A w \in DOMAIN mapping : one.map[w] = mapping[w]
  BY <1>5, <1>6, MissingNumber
<1> HIDE DEF one
<1>8. /\ GoodNumbers(two.map, two.next_id) /\ Rising(two.map)
      /\ DOMAIN two.map = DOMAIN one.map \cup {dst}
      /\ \A w \in DOMAIN one.map : two.map[w] = one.map[w]
  BY <1>5, <1>6, <1>7, MissingNumber
<1> HIDE DEF two
<1>9. GoodNumbers(mapping, next_id)' /\ Rising(mapping)'
  BY <1>1, <1>8 DEF GoodNumbers, Rising, Low
<1>10. /\ DOMAIN mapping' = DOMAIN mapping \cup {src, dst}
       /\ \A w \in DOMAIN mapping : mapping'[w] = mapping[w]
  BY <1>1, <1>7, <1>8
<1>11. Keys' = Keys /\ (\A v, m : CountTo(v, m)' = CountTo(v, m)) /\ Vertices' = Vertices
  BY <1>1 DEF Keys, Key, CountTo, KeyAt, Vertices
<1>12. MappedSoFar'
  BY <1>1, <1>4, <1>5, <1>9, <1>10, <1>11 DEF MappedSoFar
<1>13. ScriptTyped' /\ ReadSoFar'
  BY <1>1, <1>2 DEF ScriptInv, ScriptTyped, ReadSoFar
<1>14. OrderSorted'
  BY <1>1, <1>11 DEF ScriptInv, OrderSorted
<1>15. /\ sorted_output \in Seq(Nat \X Nat) /\ Len(sorted_output) = k - 1
       /\ \A n \in 1 .. k - 1 :
            /\ edge_list[n][1] \in DOMAIN mapping /\ edge_list[n][2] \in DOMAIN mapping
            /\ sorted_output[n] = <<mapping[edge_list[n][1]], mapping[edge_list[n][2]]>>
  BY <1>1 DEF ScriptInv, RewrittenSoFar
<1>16. mapping'[src] \in Nat /\ mapping'[dst] \in Nat
  BY <1>9, <1>10 DEF GoodNumbers
<1>17. /\ sorted_output' \in Seq(Nat \X Nat) /\ Len(sorted_output') = k
       /\ \A n \in 1 .. k - 1 : sorted_output'[n] = sorted_output[n]
       /\ sorted_output'[k] = <<mapping'[src], mapping'[dst]>>
  <2> HIDE DEF src, dst
  <2>1. <<mapping'[src], mapping'[dst]>> \in Nat \X Nat
    BY <1>16
  <2>2. sorted_output' = Append(sorted_output, <<mapping'[src], mapping'[dst]>>)
    BY <1>1
  <2>3. (k - 1) + 1 = k
    BY <1>2
  <2> QED BY <1>15, <2>1, <2>2, <2>3, AppendProperties
<1>18. ASSUME NEW n \in 1 .. k
       PROVE  /\ edge_list[n][1] \in DOMAIN mapping' /\ edge_list[n][2] \in DOMAIN mapping'
              /\ sorted_output'[n] = <<mapping'[edge_list[n][1]], mapping'[edge_list[n][2]]>>
  <2>1. CASE n = k
    BY <1>10, <1>17, <2>1
  <2>2. CASE n \in 1 .. k - 1
    BY <1>10, <1>15, <1>17, <2>2
  <2> QED BY <1>2, <2>1, <2>2
<1>19. RewrittenSoFar'
  <2>1. k' - 1 = k /\ k' <= Len(edge_list') + 1
    BY <1>1, <1>2
  <2> HIDE DEF src, dst
  <2> QED BY <1>1, <1>17, <1>18, <2>1 DEF RewrittenSoFar
<1> QED BY <1>12, <1>13, <1>14, <1>19 DEF ScriptInv

LEMMA ScriptNextInv == ScriptInv /\ [ScriptNext]_script => ScriptInv'
<1> SUFFICES ASSUME ScriptInv, [ScriptNext]_script PROVE ScriptInv'
  OBVIOUS
<1>1. CASE Write \/ UNCHANGED script
  <2>1. /\ UNCHANGED <<args, edge_list, edges_by_node, ordered, mapping, next_id, sorted_output, k>>
        /\ at' = at \/ (at = "rewrite" /\ at' = "done" /\ k > Len(edge_list))
    BY <1>1 DEF Write, script
  <2>2. /\ Keys' = Keys /\ (\A v, m : CountTo(v, m)' = CountTo(v, m)) /\ Vertices' = Vertices
        /\ (GoodNumbers(mapping, next_id) => GoodNumbers(mapping, next_id)')
        /\ (Rising(mapping) => Rising(mapping)')
    BY <2>1 DEF Keys, Key, CountTo, KeyAt, Vertices, GoodNumbers, Rising, Low
  <2>3. ScriptTyped'
    BY <2>1 DEF ScriptInv, ScriptTyped
  <2>4. ReadSoFar'
    <3>1. \A e : Key(e)' = Key(e)
      BY <2>1 DEF Key
    <3> QED BY <2>1, <2>2, <3>1 DEF ScriptInv, ReadSoFar
  <2>5. OrderSorted'
    BY <2>1, <2>2 DEF ScriptInv, OrderSorted
  <2>6. MappedSoFar'
    BY <2>1, <2>2 DEF ScriptInv, MappedSoFar
  <2>7. RewrittenSoFar'
    <3>1. k \in Nat /\ Len(edge_list) \in Nat
      BY EdgeTypes DEF ScriptInv, ScriptTyped
    <3> QED BY <2>1, <3>1 DEF ScriptInv, RewrittenSoFar
  <2> QED BY <2>3, <2>4, <2>5, <2>6, <2>7 DEF ScriptInv
<1> QED BY <1>1, ReadEdgeInv, SortInv, MapVertexInv, EndMapInv, RewriteEdgeInv
        DEF ScriptNext, ScriptEnded

LEMMA ScriptKeeps == ScriptSpec => []ScriptInv
BY ScriptInitInv, ScriptNextInv, PTL DEF ScriptSpec

-----------------------------------------------------------------------------
\* When the script is done every edge has been rewritten.
LEMMA AllRewritten ==
  ASSUME ScriptInv, at = "done"
  PROVE  /\ Len(sorted_output) = Len(edge_list) /\ DOMAIN sorted_output = DOMAIN edge_list
         /\ DOMAIN edge_list = 1 .. Len(edge_list)
         /\ \A n \in DOMAIN edge_list :
              /\ edge_list[n][1] \in DOMAIN mapping /\ edge_list[n][2] \in DOMAIN mapping
              /\ sorted_output[n][1] = mapping[edge_list[n][1]]
              /\ sorted_output[n][2] = mapping[edge_list[n][2]]
<1>1. Len(edge_list) \in Nat /\ DOMAIN edge_list = 1 .. Len(edge_list)
  BY EdgeTypes DEF ScriptInv
<1>2. /\ sorted_output \in Seq(Nat \X Nat) /\ Len(sorted_output) = k - 1 /\ k = Len(edge_list) + 1
      /\ \A n \in 1 .. k - 1 :
           /\ edge_list[n][1] \in DOMAIN mapping /\ edge_list[n][2] \in DOMAIN mapping
           /\ sorted_output[n] = <<mapping[edge_list[n][1]], mapping[edge_list[n][2]]>>
  BY DEF ScriptInv, RewrittenSoFar
<1>3. k - 1 = Len(edge_list) /\ DOMAIN sorted_output = 1 .. Len(edge_list)
  BY <1>1, <1>2
<1> QED BY <1>1, <1>2, <1>3

\* The numbers are unique and without gaps at every moment.
LEMMA Unique == ASSUME ScriptInv PROVE NumbersAreUnique
<1>1. CASE at = "read"
  <2>1. DOMAIN mapping = {}
    BY <1>1 DEF ScriptInv, MappedSoFar
  <2> QED BY <1>1, <2>1 DEF NumbersAreUnique, IsInjective
<1>2. CASE at # "read"
  <2>1. GoodNumbers(mapping, next_id)
    BY <1>2 DEF ScriptInv, MappedSoFar
  <2>2. /\ IsInjective(mapping) /\ \A v \in DOMAIN mapping : mapping[v] < next_id
        /\ args.maintain => \A v \in DOMAIN mapping : mapping[v] = 0 => v = 0
        /\ (IF args.maintain THEN 1 ELSE 0) .. next_id - 1 \subseteq Range(mapping)
    BY <2>1 DEF GoodNumbers, Low
  <2>3. ASSUME at = "done" PROVE DOMAIN mapping = Vertices
    <3>1. DOMAIN mapping \subseteq Vertices
      BY <2>3 DEF ScriptInv, MappedSoFar
    <3>2. \A n \in DOMAIN edge_list : edge_list[n][1] \in DOMAIN mapping /\ edge_list[n][2] \in DOMAIN mapping
      BY <2>3, AllRewritten
    <3>3. Vertices \subseteq DOMAIN mapping
      BY <3>2 DEF Vertices
    <3> QED BY <3>1, <3>3
  <2> QED BY <2>2, <2>3 DEF NumbersAreUnique
<1> QED BY <1>1, <1>2

\* degree.py writes its input under other vertex numbers, which are unique and
\* leave no gap, for every edge list and all options.
THEOREM ScriptRelabels == ScriptSpec => []OutputIsRelabelling
<1>1. ASSUME ScriptInv PROVE OutputIsRelabelling
  <2>1. NumbersAreUnique
    BY <1>1, Unique
  <2>2. ASSUME at = "done"
        PROVE  /\ Len(sorted_output) = Len(edge_list)
               /\ \A m, n \in DOMAIN edge_list : \A a, b \in {1, 2} :
                    edge_list[m][a] = edge_list[n][b] <=> sorted_output[m][a] = sorted_output[n][b]
    <3>1. Len(sorted_output) = Len(edge_list)
      BY <1>1, <2>2, AllRewritten
    <3>2. \A n \in DOMAIN edge_list, a \in {1, 2} :
             edge_list[n][a] \in DOMAIN mapping /\ sorted_output[n][a] = mapping[edge_list[n][a]]
      BY <1>1, <2>2, AllRewritten
    <3>3. \A v, w \in DOMAIN mapping : mapping[v] = mapping[w] <=> v = w
      BY <2>1 DEF NumbersAreUnique, IsInjective
    <3> QED BY <3>1, <3>2, <3>3
  <2> QED BY <2>1, <2>2 DEF OutputIsRelabelling
<1> QED BY <1>1, ScriptKeeps, PTL

\* A vertex has in the output the edges it had in the input.
LEMMA DegreeInInput ==
  ASSUME ScriptInv, at = "done", NEW v \in DOMAIN mapping
  PROVE  DegreeInOutput(mapping[v]) = CountTo(v, Len(edge_list))
<1> DEFINE a == IF args.indegree THEN 2 ELSE 1
           D == DOMAIN edge_list
<1>1. DOMAIN sorted_output = D /\ D = 1 .. Len(edge_list)
  BY AllRewritten
<1>2. ASSUME NEW n \in D PROVE sorted_output[n][a] = mapping[v] <=> Key(edge_list[n]) = v
  <2>1. Key(edge_list[n]) \in DOMAIN mapping /\ sorted_output[n][a] = mapping[Key(edge_list[n])]
    BY AllRewritten DEF Key
  <2>2. IsInjective(mapping)
    BY Unique DEF NumbersAreUnique
  <2> HIDE DEF a
  <2> QED BY <2>1, <2>2 DEF IsInjective
<1> HIDE DEF a
<1>3. {n \in DOMAIN sorted_output : sorted_output[n][a] = mapping[v]} = KeyAt(v, Len(edge_list))
  BY <1>1, <1>2 DEF KeyAt
<1> QED BY <1>3 DEF DegreeInOutput, CountTo, a

\* In what degree.py writes, the vertices with an edge in the counted direction
\* come first, in the order of how many they have, for every edge list and all
\* options; a vertex 0 that keeps its number is excepted.
THEOREM ScriptSorts == ScriptSpec => []OutputIsSorted
<1>1. ASSUME ScriptInv PROVE OutputIsSorted
  <2> DEFINE L == Len(edge_list)
             Kept == IF args.maintain THEN {0} ELSE {}
  <2>1. ASSUME at = "done", NEW a \in Range(mapping) \ Kept, NEW b \in Range(mapping) \ Kept, a < b
        PROVE  \/ DegreeInOutput(b) = 0
               \/ /\ DegreeInOutput(a) > 0
                  /\ IF args.ascending THEN DegreeInOutput(a) <= DegreeInOutput(b)
                                       ELSE DegreeInOutput(a) >= DegreeInOutput(b)
    <3>1. PICK v \in DOMAIN mapping, w \in DOMAIN mapping : mapping[v] = a /\ mapping[w] = b
      BY DEF Range
    <3>2. DegreeInOutput(a) = CountTo(v, L) /\ DegreeInOutput(b) = CountTo(w, L)
      BY <1>1, <2>1, <3>1, DegreeInInput
    <3>3. L \in Nat /\ DOMAIN edge_list = 1 .. L
      BY <1>1, EdgeTypes DEF ScriptInv
    <3>4. CASE w \notin Keys
      <4>1. KeyAt(w, L) = {}
        BY <3>3, <3>4 DEF KeyAt, Keys
      <4> QED BY <3>2, <4>1, FS_EmptySet DEF CountTo
    <3>5. CASE w \in Keys
      <4>1. /\ IsInjective(ordered) /\ (\A n \in DOMAIN ordered : ordered[n] \in Keys)
            /\ (\A u \in Keys : \E n \in DOMAIN ordered : ordered[n] = u)
            /\ \A m, n \in DOMAIN ordered : m < n =>
                 IF args.ascending THEN CountTo(ordered[m], L) <= CountTo(ordered[n], L)
                                   ELSE CountTo(ordered[m], L) >= CountTo(ordered[n], L)
        BY <1>1, <2>1 DEF ScriptInv, OrderSorted
      <4>2. PICK n \in DOMAIN ordered : ordered[n] = w
        BY <3>5, <4>1
      <4>3. Rising(mapping) /\ (args.maintain => mapping[v] # 0)
        BY <1>1, <2>1, <3>1 DEF ScriptInv, MappedSoFar
      <4>4. PICK m \in DOMAIN ordered : m < n /\ ordered[m] = v
        BY <2>1, <3>1, <4>2, <4>3 DEF Rising
      <4>5. IF args.ascending THEN CountTo(v, L) <= CountTo(w, L) ELSE CountTo(v, L) >= CountTo(w, L)
        BY <4>1, <4>2, <4>4
      <4>6. CountTo(v, L) \in Nat /\ CountTo(v, L) # 0
        <5>1. v \in Keys
          BY <4>1, <4>4
        <5>2. KeyAt(v, L) # {}
          BY <3>3, <5>1 DEF KeyAt, Keys
        <5> QED BY <3>3, <5>2, CountType, FS_EmptySet DEF CountTo
      <4>7. CountTo(v, L) > 0
        BY <4>6
      <4> QED BY <3>2, <4>5, <4>7
    <3> QED BY <3>4, <3>5
  <2> QED BY <2>1 DEF OutputIsSorted
<1> QED BY <1>1, ScriptKeeps, PTL
=============================================================================

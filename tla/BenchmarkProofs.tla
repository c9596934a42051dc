-------------------------- MODULE BenchmarkProofs --------------------------
(***************************************************************************)
(* The invariants of the benchmark program, for machines of any size, any  *)
(* number of threads, rings and reserves of any size, any binary, and any  *)
(* command line whose -t and -v are not negative: why the process can be   *)
(* killed, what terminate_cache_collect prints, and that every sample is   *)
(* taken once and in order.                                                *)
(***************************************************************************)
EXTENDS Benchmark, TLAPS, SequenceTheorems, FiniteSetTheorems, Functions

Record == [at : Nat, type : Types]

Typed ==
  /\ opt.t \in Nat /\ given.target \in Places /\ THREADS \in Nat /\ cores \in 1 .. MaxCores
  /\ opened \in 0 .. cores /\ mapped \subseteq 0 .. opened - 1
  /\ log \in [Core -> Seq(Record)] /\ data_tail \in [Core -> Nat]
  /\ core \in Nat
  /\ sampled_address \in Seq((Nat \X Nat) \cup {Garbage})
  /\ capacity \in Nat /\ reallocated \in Nat /\ size_loaded \in Nat \X Nat

\* Once the collector runs every event is open, and it looks at these only.
Collecting == {"traverse", "size", "print", "terminate", "join"} \cup Ended
SetUp ==
  /\ main = "launch" => opened = THREADS /\ THREADS > 0 /\ core = 0
  /\ collector = "none" => core = 0 /\ sampled_address = <<>> /\ reallocated = 0
  /\ collector # "none" => /\ main \in Collecting
                           /\ opened = THREADS /\ core \in 0 .. THREADS - 1

\* -s and -d are what SYMMETRIC says, as soon as they have been read.
FlagsRead == main # "getopt" => (SYMMETRIC <=> opt.s \/ opt.d)

\* The elements are moved only when more than the reserved ones are there.
Moved ==
  /\ collector # "none" => capacity >= Reserve
  /\ reallocated > 0 => Len(sampled_address) > Reserve

\* What the first load of size() saw is no more than what is there now.
HalfRead ==
  main = "print" => /\ size_loaded[1] <= Len(sampled_address)
                    /\ size_loaded[2] <= reallocated

IInv == Typed /\ SetUp /\ FlagsRead /\ Moved /\ HalfRead /\ FaultsExplained /\ PrintedWasHeld

-----------------------------------------------------------------------------
LEMMA InitInv == Init => IInv
<1> SUFFICES ASSUME Init PROVE IInv
  OBVIOUS
<1>1. Typed
  BY RunsAssumption, MachinesAssumption, BoundsAssumption DEF Init, PebsInit, Typed, Core
<1>2. SetUp /\ FlagsRead /\ Moved /\ HalfRead /\ FaultsExplained /\ PrintedWasHeld
  BY DEF Init, PebsInit, SetUp, FlagsRead, Moved, HalfRead, FaultsExplained, PrintedWasHeld
<1> QED BY <1>1, <1>2 DEF IInv

\* The head of a ring is a number.
LEMMA HeadType == ASSUME Typed, NEW c \in Core PROVE data_head(c) \in Nat
<1>1. CASE log[c] = <<>>
  BY <1>1 DEF data_head
<1>2. CASE log[c] # <<>>
  <2>1. log[c] \in Seq(Record) /\ Len(log[c]) \in DOMAIN log[c]
    BY <1>2, EmptySeq, LenProperties DEF Typed
  <2>2. log[c][Len(log[c])] \in Record
    BY <2>1, ElementOfSeq, LenProperties
  <2> QED BY <1>2, <2>2 DEF data_head, Record, Size, Types
<1> QED BY <1>1, <1>2

\* The kernel changes nothing but the log.
LEMMA KernelInv == ASSUME IInv, NEW c \in Core, Kernel(c), UNCHANGED options PROVE IInv'
<1> USE DEF IInv
<1>1. PICK type \in Types :
        log' = [log EXCEPT ![c] = Append(@, [at |-> data_head(c), type |-> type])]
  BY DEF Kernel
<1>2. [at |-> data_head(c), type |-> type] \in Record
  BY HeadType DEF Record
<1>3. log' \in [Core -> Seq(Record)]
  BY <1>1, <1>2, AppendProperties DEF Typed
<1>4. UNCHANGED <<options, machine, main, events, data_tail, vector, should_terminate, collector, core, print>>
  BY DEF Kernel
<1>5. Typed'
  BY <1>3, <1>4 DEF Typed, options, machine, events, vector, print
<1>6. (SetUp /\ FlagsRead /\ Moved /\ HalfRead)'
  BY <1>4 DEF SetUp, FlagsRead, Moved, HalfRead, options, machine, events, vector, print
<1>7. (FaultsExplained /\ PrintedWasHeld)'
  BY <1>4 DEF FaultsExplained, PrintedWasHeld, options, machine, events, vector, print
<1> QED BY <1>5, <1>6, <1>7

\* What push_back does to the vector.
LEMMA PushBackInv ==
  ASSUME Typed, Moved, collector # "none", NEW a \in (Nat \X Nat) \cup {Garbage}, push_back(a)
  PROVE  /\ sampled_address' \in Seq((Nat \X Nat) \cup {Garbage})
         /\ capacity' \in Nat /\ reallocated' \in Nat
         /\ Len(sampled_address') = Len(sampled_address) + 1
         /\ reallocated' >= reallocated /\ capacity' >= Reserve
         /\ reallocated' > 0 => Len(sampled_address') > Reserve
<1>1. /\ sampled_address' \in Seq((Nat \X Nat) \cup {Garbage})
      /\ Len(sampled_address') = Len(sampled_address) + 1 /\ Len(sampled_address) \in Nat
  BY AppendProperties, LenProperties DEF Typed, push_back
<1>2. CASE Len(sampled_address) < capacity
  BY <1>1, <1>2, ReserveAssumption DEF Typed, Moved, push_back
<1>3. CASE ~(Len(sampled_address) < capacity)
  BY <1>1, <1>3, ReserveAssumption DEF Typed, Moved, push_back
<1> QED BY <1>2, <1>3

\* A turn of the collector at one ring.
LEMMA CollectInv ==
  ASSUME IInv, collector # "none", core \in Core, CollectFrom(core)
  PROVE  /\ sampled_address' \in Seq((Nat \X Nat) \cup {Garbage})
         /\ capacity' \in Nat /\ reallocated' \in Nat
         /\ data_tail' \in [Core -> Nat]
         /\ Len(sampled_address') >= Len(sampled_address)
         /\ reallocated' >= reallocated /\ capacity' >= Reserve
         /\ reallocated' > 0 => Len(sampled_address') > Reserve
<1> USE DEF IInv
<1>0. Len(sampled_address) \in Nat
  BY LenProperties DEF Typed
<1>1. CASE UNCHANGED vector
  <2>1. \/ data_tail' = data_tail
        \/ \E k \in Nat : data_tail' = [data_tail EXCEPT ![core] = @ + k]
    BY DEF CollectFrom, Size
  <2>2. data_tail \in [Core -> Nat]
    BY DEF Typed
  <2>3. data_tail' \in [Core -> Nat]
    BY <2>1, <2>2
  <2> QED BY <1>0, <1>1, <2>3 DEF Typed, Moved, vector
<1>2. CASE ~UNCHANGED vector
  <2>1. PICK n \in DOMAIN log[core] :
          /\ push_back(Address(core, n))
          /\ data_tail' = [data_tail EXCEPT ![core] = @ + Size(log[core][n].type)]
    BY <1>2 DEF CollectFrom
  <2>2. n \in Nat
    BY LenProperties DEF Typed
  <2>3. Address(core, n) \in (Nat \X Nat) \cup {Garbage}
    BY <2>2 DEF Address, Typed
  <2>4. data_tail' \in [Core -> Nat]
    <3>1. Size(log[core][n].type) \in Nat /\ data_tail \in [Core -> Nat]
      BY DEF Typed, Size
    <3> QED BY <2>1, <3>1
  <2> QED BY <1>0, <2>1, <2>3, <2>4, PushBackInv
<1> QED BY <1>1, <1>2

\* A fault of the collector is one of those FaultsExplained names.
LEMMA CollectorFaults ==
  ASSUME IInv, collector # "none", Faults(core)
  PROVE  \/ 0 .. opened - 1 # mapped
         \/ \E c \in Core : data_tail[c] + 3 > RingWords
<1> USE DEF IInv
<1>1. core \in 0 .. opened - 1
  BY DEF SetUp
<1>2. CASE core \notin mapped
  BY <1>1, <1>2
<1>3. CASE core \in mapped
  <2>1. core \in Core
    BY <1>1, BoundsAssumption DEF Typed, Core
  <2>2. PICK n \in DOMAIN log[core] : log[core][n].at = data_tail[core] /\ Wraps(log[core][n])
    BY <1>3 DEF Faults
  <2>3. (data_tail[core] % RingWords) + 3 > RingWords
    BY <2>2 DEF Wraps, Size
  <2>4. data_tail[core] \in Nat
    BY <2>1 DEF Typed
  <2>5. data_tail[core] % RingWords <= data_tail[core] /\ data_tail[core] % RingWords \in Nat
    BY <2>4, RingAssumption
  <2> QED BY <2>1, <2>3, <2>4, <2>5, RingAssumption
<1> QED BY <1>2, <1>3

LEMMA CollectorInv == ASSUME IInv, Collector, UNCHANGED options PROVE IInv'
<1> USE DEF IInv
<1>0. Len(sampled_address) \in Nat
  BY LenProperties DEF Typed
<1>1. CASE TestFlag
  <2>1. /\ UNCHANGED <<options, machine, main, events, log, data_tail, vector, core, print>>
        /\ collector = "test" /\ collector' # "none"
    BY <1>1 DEF TestFlag
  <2>2. (Typed /\ FlagsRead /\ HalfRead /\ FaultsExplained /\ PrintedWasHeld)'
    BY <2>1 DEF Typed, FlagsRead, HalfRead, FaultsExplained, PrintedWasHeld,
                options, machine, events, vector, print
  <2>3. (SetUp /\ Moved)'
    BY <2>1 DEF SetUp, Moved, options, machine, events, vector
  <2> QED BY <2>2, <2>3
<1>2. CASE cache_collect_sample
  <2>1. /\ UNCHANGED <<options, machine, events, log, print>>
        /\ main \notin Ended /\ collector = "scan" /\ collector' \in {"test", "scan"}
        /\ core' = (core + 1) % THREADS
    BY <1>2 DEF cache_collect_sample
  <2>2. core \in 0 .. THREADS - 1 /\ opened = THREADS /\ main \in Collecting
    BY <2>1 DEF SetUp
  <2>3. core' \in 0 .. THREADS - 1
    BY <2>1, <2>2 DEF Typed
  <2>4. CASE core \in mapped /\ CollectFrom(core) /\ UNCHANGED main
    <3>1. core \in Core
      BY <2>2, BoundsAssumption DEF Typed, Core
    <3>2. /\ sampled_address' \in Seq((Nat \X Nat) \cup {Garbage})
          /\ capacity' \in Nat /\ reallocated' \in Nat
          /\ data_tail' \in [Core -> Nat]
          /\ Len(sampled_address') >= Len(sampled_address)
          /\ reallocated' >= reallocated /\ capacity' >= Reserve
          /\ reallocated' > 0 => Len(sampled_address') > Reserve
      BY <2>1, <2>4, <3>1, CollectInv
    <3>3. Len(sampled_address') \in Nat
      BY <3>2, LenProperties
    <3>4. Typed'
      BY <2>1, <2>3, <3>2 DEF Typed, options, machine, events, print
    <3>5. (SetUp /\ FlagsRead /\ Moved)'
      BY <2>1, <2>2, <2>3, <2>4, <3>2 DEF SetUp, FlagsRead, Moved, options, machine, events, Ended, Collecting
    <3>6. HalfRead'
      BY <1>0, <2>1, <2>4, <3>2, <3>3 DEF HalfRead, Typed, print
    <3>7. FaultsExplained'
      BY <2>1, <2>4 DEF FaultsExplained, Ended
    <3>8. PrintedWasHeld'
      BY <1>0, <2>1, <2>4, <3>2, <3>3, ReserveAssumption DEF PrintedWasHeld, print
    <3> QED BY <3>4, <3>5, <3>6, <3>7, <3>8
  <2>5. CASE Faults(core) /\ main' = "fault" /\ UNCHANGED <<data_tail, vector>>
    <3>1. Typed'
      BY <2>1, <2>3, <2>5 DEF Typed, options, machine, events, print, vector
    <3>2. (SetUp /\ FlagsRead /\ Moved)'
      BY <2>1, <2>2, <2>3, <2>5 DEF SetUp, FlagsRead, Moved, options, machine, events, vector,
                                    Ended, Collecting
    <3>3. HalfRead' /\ PrintedWasHeld'
      BY <2>5 DEF HalfRead, PrintedWasHeld
    <3>4. FaultsExplained'
      BY <2>1, <2>5, CollectorFaults DEF FaultsExplained, events
    <3> QED BY <3>1, <3>2, <3>3, <3>4
  <2> QED BY <1>2, <2>4, <2>5 DEF cache_collect_sample
<1> QED BY <1>1, <1>2 DEF Collector

-----------------------------------------------------------------------------
(* The main thread.  Until launch_cache_collect it is alone. *)

LEMMA OptionsInv ==
  ASSUME IInv, ParseOptions \/ CreateGraph \/ WriteToFile PROVE IInv'
<1> USE DEF IInv, collecting
<1>0. collector = "none" /\ UNCHANGED collecting /\ UNCHANGED <<opt, given, cores>>
  BY DEF ParseOptions, CreateGraph, WriteToFile, SetUp, Collecting, Ended, options, machine
<1>1. opt.t \in Nat
  BY DEF Typed
<1>2. THREADS' \in Nat
  BY <1>1 DEF ParseOptions, CreateGraph, WriteToFile, DebugThreads, Typed, machine
<1>3. Typed'
  BY <1>0, <1>2 DEF Typed, events, vector, print
<1>4. main' \in {"create_graph", "write_to_file", "cache_event_setup"} \cup Ended
  BY DEF ParseOptions, CreateGraph, WriteToFile, Ended
<1>5. SetUp' /\ Moved' /\ HalfRead' /\ PrintedWasHeld'
  BY <1>0, <1>4 DEF SetUp, Moved, HalfRead, PrintedWasHeld, Ended, events, vector, print
<1>6. FlagsRead'
  BY <1>0 DEF FlagsRead, ParseOptions, CreateGraph, WriteToFile, Symmetric, options
<1>7. FaultsExplained'
  <2>1. CASE CreateGraph /\ main' = "fault"
    <3>1. LoadStrays /\ (SYMMETRIC <=> opt.s \/ opt.d) /\ UNCHANGED options
      BY <2>1 DEF CreateGraph, FlagsRead
    <3>2. "beyond" \in Sources => given.cut \/ given.source = "beyond"
      BY DEF Sources
    <3>3. "beyond" \in Targets => given.cut \/ given.target = "beyond"
      BY DEF Targets
    <3> QED BY <3>1, <3>2, <3>3 DEF FaultsExplained, LoadStrays, HasBinary, options
  <2>2. CASE main' # "fault"
    BY <2>2 DEF FaultsExplained
  <2> QED BY <2>1, <2>2 DEF ParseOptions, WriteToFile
<1> QED BY <1>3, <1>5, <1>6, <1>7

LEMMA SetupInv == ASSUME IInv, perf_sample_setup, UNCHANGED options PROVE IInv'
<1> USE DEF IInv
<1>0. /\ UNCHANGED <<options, machine, log, data_tail, vector, should_terminate, collector, core, print>>
      /\ main = "cache_event_setup" /\ opened < THREADS /\ collector = "none"
  BY DEF perf_sample_setup, SetUp, Collecting, Ended
<1>1. CASE main' = "die" /\ UNCHANGED events
  <2>1. Typed'
    BY <1>0, <1>1 DEF Typed, options, machine, events, vector, print
  <2>2. (SetUp /\ FlagsRead /\ Moved /\ HalfRead /\ FaultsExplained /\ PrintedWasHeld)'
    BY <1>0, <1>1 DEF SetUp, FlagsRead, Moved, HalfRead, FaultsExplained, PrintedWasHeld,
                      options, vector
  <2> QED BY <2>1, <2>2
<1>2. CASE /\ opened < cores
           /\ opened' = opened + 1 /\ mapped' \in MmapOutcomes
           /\ main' = IF opened + 1 = THREADS THEN "launch" ELSE main
  <2>1. opened' \in 0 .. cores /\ mapped' \subseteq 0 .. opened' - 1
    BY <1>2 DEF Typed, MmapOutcomes
  <2>2. Typed'
    BY <1>0, <2>1 DEF Typed, options, machine, vector, print
  <2>3. main' \in {"launch", "cache_event_setup"} /\ (main' = "launch" => opened' = THREADS)
    BY <1>0, <1>2
  <2>4. SetUp'
    BY <1>0, <1>2, <2>3 DEF SetUp, Typed, machine, vector
  <2>5. (FlagsRead /\ Moved /\ HalfRead /\ FaultsExplained /\ PrintedWasHeld)'
    BY <1>0, <2>3 DEF FlagsRead, Moved, HalfRead, FaultsExplained, PrintedWasHeld, options, vector
  <2> QED BY <2>2, <2>4, <2>5
<1> QED BY <1>1, <1>2 DEF perf_sample_setup

LEMMA LaunchInv == ASSUME IInv, launch_cache_collect, UNCHANGED options PROVE IInv'
<1> USE DEF IInv
<1>0. /\ UNCHANGED <<options, machine, events, log, data_tail, sampled_address, reallocated, core, print>>
      /\ main = "launch" /\ collector = "none" /\ capacity' = Reserve
      /\ main' \in {"traverse", "die"} /\ collector' \in {"none", "test"}
      /\ main' = "die" => collector' = "none"
  BY DEF launch_cache_collect, SetUp, Collecting, Ended, Reserved
<1>1. Typed'
  BY <1>0, ReserveAssumption DEF Typed, options, machine, events, print
<1>2. SetUp' /\ Moved'
  BY <1>0, ReserveAssumption DEF SetUp, Moved, Typed, Collecting, Ended, machine, events
<1>3. (FlagsRead /\ HalfRead /\ FaultsExplained /\ PrintedWasHeld)'
  BY <1>0 DEF FlagsRead, HalfRead, FaultsExplained, PrintedWasHeld, options
<1> QED BY <1>1, <1>2, <1>3

LEMMA TraverseInv == ASSUME IInv, Traverse PROVE IInv'
<1> USE DEF IInv, collecting
<1>0. UNCHANGED <<options, machine, collecting>> /\ main = "traverse"
      /\ main' \in {"size", "fault", "die"}
  BY DEF Traverse
<1>1. Typed'
  BY <1>0 DEF Typed, options, machine, events, vector, print
<1>2. (SetUp /\ FlagsRead /\ Moved /\ HalfRead /\ PrintedWasHeld)'
  BY <1>0 DEF SetUp, FlagsRead, Moved, HalfRead, PrintedWasHeld, Collecting, Ended,
              options, machine, events, vector
<1>3. FaultsExplained'
  <2>1. CASE TraverseStrays
    <3>1. Targets # {"below"} =>
            given.cut \/ given.target = "beyond" \/ given.target = "at"
      BY DEF Targets, Typed, Places
    <3> QED BY <1>0, <2>1, <3>1 DEF TraverseStrays, FlagsRead, FaultsExplained, options, machine
  <2>2. CASE ~TraverseStrays
    BY <1>0, <2>2 DEF Traverse, FaultsExplained
  <2> QED BY <2>1, <2>2
<1> QED BY <1>1, <1>2, <1>3

\* The second load of size() sees what the first saw unless elements were
\* moved, which happens only behind the reserve.
LEMMA TerminateInv == ASSUME IInv, terminate_cache_collect, UNCHANGED options PROVE IInv'
<1> USE DEF IInv
<1>0. /\ UNCHANGED <<options, machine, events, log, data_tail, vector, collector, core>>
      /\ main \in {"size", "print", "terminate", "join"}
      /\ main' \in {"print", "terminate", "join", "return"}
  BY DEF terminate_cache_collect, LoadSize, PrintSize, SetFlag, JoinCollector
<1>1. Len(sampled_address) \in Nat
  BY LenProperties DEF Typed
<1>2. size_loaded' \in Nat \X Nat
  BY <1>1 DEF Typed, terminate_cache_collect, LoadSize, PrintSize, SetFlag, JoinCollector, print
<1>3. Typed'
  BY <1>0, <1>2 DEF Typed, options, machine, events, vector
<1>4. (SetUp /\ FlagsRead /\ Moved /\ FaultsExplained)'
  BY <1>0 DEF SetUp, FlagsRead, Moved, FaultsExplained, Collecting, Ended,
              options, machine, events, vector
<1>5. HalfRead' /\ PrintedWasHeld'
  <2>1. CASE LoadSize
    BY <1>0, <1>1, <2>1 DEF LoadSize, HalfRead, PrintedWasHeld, Typed, vector
  <2>2. CASE PrintSize
    <3>1. size_loaded[1] \in 0 .. Len(sampled_address) /\ size_loaded[2] \in 0 .. reallocated
      BY <1>1, <2>2 DEF PrintSize, HalfRead, Typed
    <3>2. Len(sampled_address) <= Reserve => reallocated = 0
      BY <1>1, ReserveAssumption DEF Moved, Typed
    <3>3. main' = "terminate" /\ UNCHANGED vector
          /\ (size_loaded[2] = reallocated => printed' = size_loaded[1])
      BY <2>2 DEF PrintSize
    <3> QED BY <1>1, <3>1, <3>2, <3>3, ReserveAssumption DEF HalfRead, PrintedWasHeld, Typed, vector
  <2>3. CASE SetFlag \/ JoinCollector
    BY <1>0, <2>3 DEF SetFlag, JoinCollector, HalfRead, PrintedWasHeld, vector, print
  <2> QED BY <2>1, <2>2, <2>3 DEF terminate_cache_collect
<1> QED BY <1>3, <1>4, <1>5

-----------------------------------------------------------------------------
LEMMA NextInv == IInv /\ [Next]_vars => IInv'
<1> SUFFICES ASSUME IInv, [Next]_vars PROVE IInv'
  OBVIOUS
<1>1. CASE Main
  BY <1>1, OptionsInv, SetupInv, LaunchInv, TraverseInv, TerminateInv DEF Main
<1>2. CASE Collector /\ UNCHANGED options
  BY <1>2, CollectorInv
<1>3. CASE (\E c \in Core : Kernel(c)) /\ UNCHANGED options
  BY <1>3, KernelInv
<1>4. CASE UNCHANGED vars
  BY <1>4 DEF IInv, Typed, SetUp, FlagsRead, Moved, HalfRead, FaultsExplained, PrintedWasHeld,
              vars, pebsVars, options, machine, events, vector, print
<1> QED BY <1>1, <1>2, <1>3, <1>4 DEF Next, Terminated

\* A stray access that ends the process has one of the causes FaultsExplained
\* names, for every command line with -t and -v not negative and whatever the
\* binary holds: the checks main, create_graph, bfs_hub and perf_sample_setup
\* leave out.
THEOREM FaultCauses == Spec => []FaultsExplained
<1>1. IInv => FaultsExplained
  BY DEF IInv
<1> QED BY <1>1, InitInv, NextInv, PTL DEF Spec

\* The number terminate_cache_collect prints was the size of sampled_address,
\* although the collector is still appending, as long as what is reserved
\* suffices.
THEOREM PrintsASize == Spec => []PrintedWasHeld
<1>1. IInv => PrintedWasHeld
  BY DEF IInv
<1> QED BY <1>1, InitInv, NextInv, PTL DEF Spec

-----------------------------------------------------------------------------
(* The samples.  Of a ring it is enough to know that its records follow each  *)
(* other without a gap and that data_tail is where one of them begins, or the *)
(* end of the last.                                                           *)

End(r) == r.at + Size(r.type)

Ring(c) ==
  /\ Len(log[c]) <= MaxRecords
  /\ \A m, n \in DOMAIN log[c] : m < n => End(log[c][m]) <= log[c][n].at
  /\ \A n \in DOMAIN log[c] : n < Len(log[c]) => log[c][n + 1].at = End(log[c][n])
  /\ data_tail[c] = data_head(c) \/ \E n \in DOMAIN log[c] : log[c][n].at = data_tail[c]

SamplesInv == (\A c \in Core : Ring(c)) /\ EachSampleOnce

\* The records of a ring, and where they begin and end.
LEMMA RecordType ==
  ASSUME Typed, NEW c \in Core
  PROVE  /\ Len(log[c]) \in Nat /\ DOMAIN log[c] = 1 .. Len(log[c])
         /\ \A n \in DOMAIN log[c] : log[c][n] \in Record
         /\ \A r \in Record : r.at \in Nat /\ r.type \in Types /\ Size(r.type) \in Nat \ {0}
                              /\ End(r) \in Nat /\ r.at < End(r)
         /\ data_head(c) = IF Len(log[c]) = 0 THEN 0 ELSE End(log[c][Len(log[c])])
<1>1. log[c] \in Seq(Record)
  BY DEF Typed
<1>2. Len(log[c]) \in Nat /\ DOMAIN log[c] = 1 .. Len(log[c])
  BY <1>1, LenProperties
<1>3. \A n \in DOMAIN log[c] : log[c][n] \in Record
  BY <1>1, <1>2, ElementOfSeq
<1>4. \A r \in Record : r.at \in Nat /\ r.type \in Types /\ Size(r.type) \in Nat \ {0}
                        /\ End(r) \in Nat /\ r.at < End(r)
  BY DEF Record, Size, End
<1>5. log[c] = <<>> <=> Len(log[c]) = 0
  BY <1>1, EmptySeq
<1> QED BY <1>2, <1>3, <1>4, <1>5 DEF data_head, End

\* Nothing lies behind data_head, and data_tail is not either.
LEMMA TailBehindHead ==
  ASSUME Typed, NEW c \in Core, Ring(c)
  PROVE  /\ \A n \in DOMAIN log[c] : End(log[c][n]) <= data_head(c)
         /\ data_tail[c] <= data_head(c)
<1>1. data_tail[c] \in Nat
  BY DEF Typed
<1>2. \A n \in DOMAIN log[c] : End(log[c][n]) <= data_head(c)
  <2> SUFFICES ASSUME NEW n \in DOMAIN log[c] PROVE End(log[c][n]) <= data_head(c)
    OBVIOUS
  <2> DEFINE last == Len(log[c])
  <2>1. n = last \/ End(log[c][n]) <= log[c][last].at
    BY RecordType DEF Ring
  <2>2. last \in DOMAIN log[c] /\ last # 0
    BY RecordType
  <2> QED BY <2>1, <2>2, RecordType
<1> QED BY <1>1, <1>2, RecordType DEF Ring

\* A ring holds no more records than all rings together.
LEMMA RecordsCounted ==
  ASSUME Typed, NEW c \in Core, Ring(c)
  PROVE  Len(log[c]) <= Cardinality(Records)
<1> DEFINE f == [n \in 1 .. Len(log[c]) |-> <<c, n>>]
<1>1. Len(log[c]) \in Nat /\ Len(log[c]) <= MaxRecords
  BY RecordType DEF Ring
<1>2. IsFiniteSet(Records)
  <2>1. IsFiniteSet(Core) /\ IsFiniteSet(1 .. MaxRecords)
    BY BoundsAssumption, FS_Interval DEF Core
  <2>2. IsFiniteSet(Core \X (1 .. MaxRecords))
    BY <2>1, FS_Product
  <2> QED BY <2>2, FS_Subset DEF Records
<1>3. f \in Injection(1 .. Len(log[c]), Records)
  <2>1. f \in [1 .. Len(log[c]) -> Records] /\ \A m, n \in 1 .. Len(log[c]) : f[m] = f[n] => m = n
    BY <1>1, BoundsAssumption DEF Records
  <2> QED BY <2>1 DEF Injection, IsInjective
<1>4. Cardinality(1 .. Len(log[c])) = Len(log[c])
  BY <1>1, FS_Interval
<1> QED BY <1>2, <1>3, <1>4, FS_Injection

\* The consumed records are finitely many.
LEMMA ConsumedFinite == IsFiniteSet(Consumed)
<1>1. IsFiniteSet(Core) /\ IsFiniteSet(1 .. MaxRecords)
  BY BoundsAssumption, FS_Interval DEF Core
<1>2. IsFiniteSet(Core \X (1 .. MaxRecords))
  BY <1>1, FS_Product
<1> QED BY <1>2, FS_Subset DEF Consumed, Records

LEMMA SamplesInit == Init => SamplesInv
<1> SUFFICES ASSUME Init PROVE SamplesInv
  OBVIOUS
<1>1. /\ \A c \in Core : log[c] = <<>> /\ data_tail[c] = 0
      /\ sampled_address = <<>>
  BY DEF Init, PebsInit
<1>2. \A c \in Core : Ring(c)
  BY <1>1, BoundsAssumption DEF Ring, data_head
<1>3. Consumed = {} /\ Taken = {}
  BY <1>1 DEF Consumed, Records, Taken
<1> QED BY <1>1, <1>2, <1>3, FS_EmptySet DEF SamplesInv, EachSampleOnce

\* The samples depend on three variables only.
LEMMA SamplesSame ==
  ASSUME SamplesInv, UNCHANGED <<log, data_tail, sampled_address>> PROVE SamplesInv'
<1>1. \A c \in Core : Ring(c)'
  BY DEF SamplesInv, Ring, data_head
<1>2. Consumed' = Consumed /\ Taken' = Taken
  BY DEF Consumed, Records, Taken
<1> QED BY <1>1, <1>2 DEF SamplesInv, EachSampleOnce, Wraps

\* A record the kernel writes begins at data_head, which the collector has not
\* passed: no sample becomes consumed by being written.
LEMMA SamplesKernel ==
  ASSUME Typed, SamplesInv, NEW c \in Core, Kernel(c)
  PROVE  SamplesInv'
<1>1. PICK type \in Types :
        log' = [log EXCEPT ![c] = Append(@, [at |-> data_head(c), type |-> type])]
  BY DEF Kernel
<1> DEFINE new == [at |-> data_head(c), type |-> type]
           k == Len(log[c])
<1>2. new \in Record /\ new.at = data_head(c) /\ data_head(c) \in Nat
  BY HeadType DEF Record
<1>3. UNCHANGED <<data_tail, sampled_address>> /\ \A e \in Core : data_tail[e] \in Nat
  BY DEF Kernel, Typed, vector
<1>4. Ring(c) /\ k \in Nat /\ k < MaxRecords /\ DOMAIN log[c] = 1 .. k
  <2>1. Ring(c) /\ Cardinality(Records) < MaxRecords
    BY DEF SamplesInv, Kernel
  <2>2. k <= Cardinality(Records) /\ Cardinality(Records) \in Int
    <3>1. IsFiniteSet(Core) /\ IsFiniteSet(1 .. MaxRecords)
      BY BoundsAssumption, FS_Interval DEF Core
    <3>2. IsFiniteSet(Core \X (1 .. MaxRecords))
      BY <3>1, FS_Product
    <3>3. IsFiniteSet(Records)
      BY <3>2, FS_Subset DEF Records
    <3> QED BY <2>1, <3>3, RecordsCounted, FS_CardinalityType
  <2> QED BY <2>1, <2>2, RecordType, BoundsAssumption
<1>5. /\ log'[c] = Append(log[c], new) /\ Len(log'[c]) = k + 1 /\ DOMAIN log'[c] = 1 .. k + 1
      /\ \A n \in 1 .. k : log'[c][n] = log[c][n]
      /\ log'[c][k + 1] = new
  <2>1. log[c] \in Seq(Record) /\ log \in [Core -> Seq(Record)]
    BY DEF Typed
  <2>2. log'[c] = Append(log[c], new)
    BY <1>1, <2>1
  <2> HIDE DEF new
  <2> QED BY <1>2, <2>1, <2>2, AppendProperties, LenProperties
<1>6. \A e \in Core \ {c} : log'[e] = log[e]
  BY <1>1 DEF Typed
<1> HIDE DEF new, k
<1>7. ASSUME NEW e \in Core PROVE Ring(e)'
  <2>1. CASE e # c
    BY <1>3, <1>6, <2>1 DEF SamplesInv, Ring, data_head
  <2>2. CASE e = c
    <3>1. \A m, n \in 1 .. k + 1 : m < n => End(log'[c][m]) <= log'[c][n].at
      <4> SUFFICES ASSUME NEW m \in 1 .. k + 1, NEW n \in 1 .. k + 1, m < n
                   PROVE  End(log'[c][m]) <= log'[c][n].at
        OBVIOUS
      <4>1. m \in 1 .. k /\ (n \in 1 .. k \/ n = k + 1)
        BY <1>4
      <4> QED BY <1>2, <1>4, <1>5, <4>1, TailBehindHead DEF Ring
    <3>2. ASSUME NEW n \in 1 .. k PROVE log'[c][n + 1].at = End(log'[c][n])
      <4>1. n < k \/ n = k
        BY <1>4
      <4>2. CASE n < k
        <5>1. n + 1 \in 1 .. k
          BY <1>4, <4>2
        <5> QED BY <1>4, <1>5, <4>2, <5>1 DEF Ring, k
      <4>3. CASE n = k
        <5>1. data_head(c) = End(log[c][k]) /\ k \in 1 .. k
          BY <1>4, <4>3, RecordType DEF k
        <5> QED BY <1>2, <1>5, <4>3, <5>1
      <4> QED BY <4>1, <4>2, <4>3
    <3>3. data_tail'[c] = data_head(c)' \/ \E n \in DOMAIN log'[c] : log'[c][n].at = data_tail'[c]
      <4>1. CASE data_tail[c] = data_head(c)
        <5>1. k + 1 \in DOMAIN log'[c] /\ log'[c][k + 1].at = data_tail'[c]
          BY <1>2, <1>3, <1>4, <1>5, <4>1
        <5> QED BY <5>1
      <4>2. CASE data_tail[c] # data_head(c)
        <5>1. PICK n \in 1 .. k : log[c][n].at = data_tail[c]
          BY <1>4, <4>2 DEF Ring
        <5>2. n \in 1 .. k + 1
          BY <1>4
        <5> QED BY <1>3, <1>5, <5>1, <5>2
      <4> QED BY <4>1, <4>2
    <3>4. k + 1 <= MaxRecords
      BY <1>4, BoundsAssumption
    <3>5. \A n \in 1 .. k + 1 : n < k + 1 => n \in 1 .. k
      BY <1>4
    <3>6. \A n \in DOMAIN log'[c] : n < Len(log'[c]) => log'[c][n + 1].at = End(log'[c][n])
      BY <1>5, <3>2, <3>5
    <3> QED BY <1>5, <2>2, <3>1, <3>3, <3>4, <3>6 DEF Ring, End
  <2> QED BY <2>1, <2>2
<1>8. Consumed' = Consumed /\ \A r \in Consumed : log'[r[1]][r[2]] = log[r[1]][r[2]]
  <2>1. \A r \in Records : r \in Records' /\ log'[r[1]][r[2]] = log[r[1]][r[2]]
    <3> SUFFICES ASSUME NEW r \in Records
                 PROVE  r \in Records' /\ log'[r[1]][r[2]] = log[r[1]][r[2]]
      OBVIOUS
    <3>1. r \in Core \X (1 .. MaxRecords) /\ r[2] <= Len(log[r[1]])
      BY DEF Records
    <3>2. CASE r[1] = c
      <4>1. r[2] \in 1 .. k /\ r[2] <= k + 1
        BY <1>4, <3>1, <3>2, BoundsAssumption DEF k
      <4> QED BY <1>5, <3>1, <3>2, <4>1 DEF Records
    <3>3. CASE r[1] # c
      BY <1>6, <3>1, <3>3 DEF Records
    <3> QED BY <3>2, <3>3
  <2>2. ASSUME NEW r \in Records', r \notin Records
        PROVE  ~(log'[r[1]][r[2]].at < data_tail'[r[1]])
    <3>1. r \in Core \X (1 .. MaxRecords) /\ r[2] <= Len(log'[r[1]])
      BY DEF Records
    <3>2. r[1] = c
      BY <1>6, <2>2, <3>1 DEF Records
    <3>3. r[2] = k + 1
      BY <1>4, <1>5, <2>2, <3>1, <3>2, BoundsAssumption DEF Records, k
    <3>4. data_tail[c] <= data_head(c)
      BY <1>4, TailBehindHead
    <3> QED BY <1>2, <1>3, <1>5, <3>2, <3>3, <3>4
  <2> QED BY <1>3, <2>1, <2>2 DEF Consumed
<1>9. Taken' = Taken
  BY <1>3 DEF Taken
<1> QED BY <1>3, <1>7, <1>8, <1>9 DEF SamplesInv, EachSampleOnce, Wraps

\* The collector takes the record data_tail points to, and no other is passed.
LEMMA SamplesCollect ==
  ASSUME Typed, SamplesInv, NEW c \in Core, CollectFrom(c), log' = log
  PROVE  SamplesInv'
<1>0. Ring(c) /\ (\A e \in Core : data_tail[e] \in Nat) /\ data_tail \in [Core -> Nat]
  BY DEF SamplesInv, Typed
<1>1. CASE UNCHANGED <<data_tail, vector>>
  BY <1>1, SamplesSame DEF vector
<1>2. CASE ~UNCHANGED <<data_tail, vector>>
  <2>1. PICK n \in DOMAIN log[c] :
          /\ log[c][n].at = data_tail[c]
          /\ IF log[c][n].type = "sample" THEN push_back(Address(c, n)) ELSE UNCHANGED vector
          /\ data_tail' = [data_tail EXCEPT ![c] = @ + Size(log[c][n].type)]
    BY <1>2 DEF CollectFrom, Collects
  <2>2. data_tail'[c] = End(log[c][n]) /\ \A e \in Core \ {c} : data_tail'[e] = data_tail[e]
    BY <1>0, <2>1 DEF End
  <2>3. log[c][n] \in Record /\ n \in 1 .. Len(log[c]) /\ Len(log[c]) \in Nat
        /\ Len(log[c]) <= MaxRecords
    BY <1>0, RecordType DEF Ring
  <2>4. ASSUME NEW e \in Core PROVE Ring(e)'
    <3>1. CASE e # c
      BY <2>2, <3>1 DEF SamplesInv, Ring, data_head
    <3>2. CASE e = c
      <4>1. data_tail'[c] = data_head(c) \/ \E m \in DOMAIN log[c] : log[c][m].at = data_tail'[c]
        <5>1. CASE n = Len(log[c])
          BY <2>2, <2>3, <5>1, RecordType
        <5>2. CASE n < Len(log[c])
          <6>1. n + 1 \in DOMAIN log[c] /\ log[c][n + 1].at = End(log[c][n])
            BY <1>0, <2>3, <5>2, RecordType DEF Ring
          <6> QED BY <2>2, <6>1
        <5> QED BY <2>3, <5>1, <5>2
      <4> QED BY <1>0, <3>2, <4>1 DEF Ring, data_head
    <3> QED BY <3>1, <3>2
  \* What is consumed now.
  <2>5. \A m \in DOMAIN log[c] : log[c][m].at < data_tail[c] <=> m < n
    <3> SUFFICES ASSUME NEW m \in DOMAIN log[c] PROVE log[c][m].at < data_tail[c] <=> m < n
      OBVIOUS
    <3>1. log[c][m] \in Record /\ m \in Nat /\ n \in Nat
      BY <2>3, RecordType
    <3>2. m < n => End(log[c][m]) <= log[c][n].at
      BY <1>0 DEF Ring
    <3>3. n < m => End(log[c][n]) <= log[c][m].at
      BY <1>0 DEF Ring
    <3>4. \A r \in Record : r.at \in Nat /\ End(r) \in Nat /\ r.at < End(r)
      BY RecordType
    <3>5. log[c][m].at \in Nat /\ End(log[c][m]) \in Nat /\ log[c][m].at < End(log[c][m])
      BY <3>1, <3>4
    <3>6. log[c][n].at \in Nat /\ End(log[c][n]) \in Nat /\ log[c][n].at < End(log[c][n])
      BY <2>3, <3>4
    <3>7. m = n \/ m < n \/ n < m
      BY <3>1
    <3> QED BY <2>1, <3>1, <3>2, <3>3, <3>5, <3>6, <3>7
  <2>6. \A m \in DOMAIN log[c] : log[c][m].at < data_tail'[c] <=> m <= n
    <3> SUFFICES ASSUME NEW m \in DOMAIN log[c] PROVE log[c][m].at < data_tail'[c] <=> m <= n
      OBVIOUS
    <3>1. log[c][m] \in Record /\ m \in Nat /\ n \in Nat
      BY <2>3, RecordType
    <3>2. m < n => End(log[c][m]) <= log[c][n].at
      BY <1>0 DEF Ring
    <3>3. n < m => End(log[c][n]) <= log[c][m].at
      BY <1>0 DEF Ring
    <3>4. \A r \in Record : r.at \in Nat /\ End(r) \in Nat /\ r.at < End(r)
      BY RecordType
    <3>5. log[c][m].at \in Nat /\ End(log[c][m]) \in Nat /\ log[c][m].at < End(log[c][m])
      BY <3>1, <3>4
    <3>6. log[c][n].at \in Nat /\ End(log[c][n]) \in Nat /\ log[c][n].at < End(log[c][n])
      BY <2>3, <3>4
    <3>7. m = n \/ m < n \/ n < m
      BY <3>1
    <3> QED BY <2>2, <3>1, <3>2, <3>3, <3>5, <3>6, <3>7
  <2>7. /\ \A r \in Consumed : r = <<r[1], r[2]>> /\ r[1] \in Core /\ r[2] \in Nat
        /\ \A m \in Nat : <<c, m>> \in Consumed => m < n
        /\ Consumed' = IF log[c][n].type = "sample" THEN Consumed \cup {<<c, n>>} ELSE Consumed
    <3> DEFINE Read(tail, r) == log[r[1]][r[2]].at < tail[r[1]] /\ log[r[1]][r[2]].type = "sample"
    <3>1. Consumed = {r \in Records : Read(data_tail, r)}
          /\ Consumed' = {r \in Records : Read(data_tail', r)}
      BY DEF Consumed, Records
    <3>2. \A r \in Records : /\ r = <<r[1], r[2]>> /\ r[1] \in Core /\ r[2] \in Nat
                             /\ r[1] = c => r[2] \in DOMAIN log[c]
      BY BoundsAssumption, RecordType DEF Records
    <3>3. <<c, n>> \in Records
      BY <2>3, BoundsAssumption DEF Records
    <3>4. \A r \in Records : r[1] # c => (Read(data_tail', r) <=> Read(data_tail, r))
      BY <2>2, <3>2
    <3>5. \A r \in Records : r[1] = c => /\ Read(data_tail, r) => r[2] < n
                                         /\ Read(data_tail', r) => r[2] <= n
                                         /\ r[2] < n /\ log[c][r[2]].type = "sample" =>
                                              Read(data_tail, r) /\ Read(data_tail', r)
                                         /\ r[2] = n => (Read(data_tail', r) <=> log[c][n].type = "sample")
      BY <2>3, <2>5, <2>6, <3>2
    <3>6. \A r \in Records : Read(data_tail', r) <=>
            Read(data_tail, r) \/ (r = <<c, n>> /\ log[c][n].type = "sample")
      <4> SUFFICES ASSUME NEW r \in Records
                   PROVE  Read(data_tail', r) <=>
                            Read(data_tail, r) \/ (r = <<c, n>> /\ log[c][n].type = "sample")
        OBVIOUS
      <4>1. CASE r[1] # c
        BY <3>2, <3>4, <4>1
      <4>2. CASE r[1] = c /\ r[2] = n
        BY <3>2, <3>5, <2>3, <4>2
      <4>3. CASE r[1] = c /\ r[2] # n
        <5>1. r # <<c, n>> /\ r[2] \in Nat /\ n \in Nat
          BY <2>3, <3>2, <4>3
        <5>2. Read(data_tail', r) => r[2] < n /\ log[c][r[2]].type = "sample"
          BY <3>5, <4>3, <5>1
        <5>3. Read(data_tail, r) => r[2] < n /\ log[c][r[2]].type = "sample"
          BY <3>5, <4>3, <5>1
        <5> QED BY <3>5, <4>3, <5>1, <5>2, <5>3
      <4> QED BY <4>1, <4>2, <4>3
    <3>7. \A m \in Nat : <<c, m>> \in Consumed => m < n
      BY <3>1, <3>5
    <3> HIDE DEF Read
    <3> QED BY <3>1, <3>2, <3>3, <3>6, <3>7
  <2>8. CASE log[c][n].type # "sample"
    <3>1. Consumed' = Consumed /\ UNCHANGED vector
      BY <2>1, <2>7, <2>8
    <3> QED BY <2>4, <3>1 DEF SamplesInv, EachSampleOnce, Taken, Wraps, vector
  <2>9. CASE log[c][n].type = "sample"
    <3> DEFINE l == Len(sampled_address)
               a == Address(c, n)
    <3>1. /\ sampled_address \in Seq((Nat \X Nat) \cup {Garbage})
          /\ sampled_address' = Append(sampled_address, a)
          /\ a \in (Nat \X Nat) \cup {Garbage} /\ (a = Garbage <=> Wraps(log[c][n]))
          /\ a # Garbage => a = <<c, n>>
      <4>1. <<c, n>> \in Nat \X Nat
        BY <2>3 DEF Core
      <4> QED BY <2>1, <2>9, <4>1, GarbageAssumption DEF push_back, Address, Typed
    <3> HIDE DEF a
    <3>2. /\ l \in Nat /\ DOMAIN sampled_address = 1 .. l
          /\ Len(sampled_address') = l + 1 /\ DOMAIN sampled_address' = 1 .. l + 1
          /\ \A j \in 1 .. l : sampled_address'[j] = sampled_address[j]
          /\ sampled_address'[l + 1] = a
      BY <3>1, AppendProperties, LenProperties
    <3> HIDE DEF l
    <3>3. /\ Taken \subseteq 1 .. l
          /\ Taken' = IF a = Garbage THEN Taken ELSE Taken \cup {l + 1}
      BY <3>2 DEF Taken
    <3>4. \A j \in Taken : sampled_address[j] \in Consumed
      BY DEF SamplesInv, EachSampleOnce
    <3>5. \A j, k \in Taken' : j < k /\ sampled_address'[j][1] = sampled_address'[k][1]
                                => sampled_address'[j][2] < sampled_address'[k][2]
      <4> SUFFICES ASSUME NEW j \in Taken', NEW k \in Taken', j < k,
                          sampled_address'[j][1] = sampled_address'[k][1]
                   PROVE  sampled_address'[j][2] < sampled_address'[k][2]
        OBVIOUS
      <4>1. j \in Taken /\ (k \in Taken \/ (k = l + 1 /\ a # Garbage))
        BY <3>2, <3>3
      <4>2. CASE k \in Taken
        BY <3>2, <3>3, <4>1, <4>2 DEF SamplesInv, EachSampleOnce
      <4>3. CASE k = l + 1 /\ a # Garbage
        <5>1. sampled_address'[k] = <<c, n>> /\ sampled_address'[j] = sampled_address[j]
          BY <3>1, <3>2, <3>3, <4>1, <4>3
        <5>2. sampled_address[j] \in Consumed /\ sampled_address[j][1] = c
          BY <3>4, <4>1, <5>1
        <5>3. sampled_address[j] = <<c, sampled_address[j][2]>> /\ sampled_address[j][2] \in Nat
          BY <2>7, <5>2
        <5>4. sampled_address[j][2] < n
          BY <2>7, <5>2, <5>3
        <5> QED BY <5>1, <5>4
      <4> QED BY <4>1, <4>2, <4>3
    <3>6. {sampled_address'[j] : j \in Taken'} = {r \in Consumed' : ~Wraps(log'[r[1]][r[2]])}
      <4>1. {sampled_address[j] : j \in Taken} = {r \in Consumed : ~Wraps(log[r[1]][r[2]])}
        BY DEF SamplesInv, EachSampleOnce
      <4>2. Consumed' = Consumed \cup {<<c, n>>}
        BY <2>7, <2>9
      <4>3. {sampled_address'[j] : j \in Taken} = {sampled_address[j] : j \in Taken}
        BY <3>2, <3>3
      <4>4. CASE a = Garbage
        <5>1. Taken' = Taken /\ Wraps(log[c][n])
          BY <3>1, <3>3, <4>4
        <5> DEFINE Bad(r) == Wraps(log[r[1]][r[2]])
        <5>2. Bad(<<c, n>>)
          BY <5>1
        <5> HIDE DEF Bad
        <5>3. {r \in Consumed' : ~Bad(r)} = {r \in Consumed : ~Bad(r)}
          BY <4>2, <5>2
        <5> QED BY <4>1, <4>3, <5>1, <5>3 DEF Bad
      <4>5. CASE a # Garbage
        <5>1. {sampled_address'[j] : j \in Taken'}
                = {sampled_address[j] : j \in Taken} \cup {<<c, n>>}
          <6>1. Taken' = Taken \cup {l + 1} /\ sampled_address'[l + 1] = <<c, n>>
            BY <3>1, <3>2, <3>3, <4>5
          <6> QED BY <4>3, <6>1
        <5> DEFINE Bad(r) == Wraps(log[r[1]][r[2]])
        <5>2. ~Bad(<<c, n>>)
          BY <3>1, <4>5
        <5> HIDE DEF Bad
        <5>3. {r \in Consumed' : ~Bad(r)} = {r \in Consumed : ~Bad(r)} \cup {<<c, n>>}
          BY <4>2, <5>2
        <5> QED BY <4>1, <5>1, <5>3 DEF Bad
      <4> QED BY <4>4, <4>5
    <3>7. Len(sampled_address') = Cardinality(Consumed')
      <4>1. Consumed' = Consumed \cup {<<c, n>>} /\ <<c, n>> \notin Consumed /\ n \in Nat
        BY <2>3, <2>7, <2>9
      <4>2. Cardinality(Consumed') = Cardinality(Consumed) + 1
        BY <4>1, ConsumedFinite, FS_AddElement
      <4>3. l = Cardinality(Consumed)
        BY DEF SamplesInv, EachSampleOnce, l
      <4> QED BY <3>2, <4>2, <4>3
    <3> QED BY <2>4, <3>5, <3>6, <3>7 DEF SamplesInv, EachSampleOnce, Wraps
  <2> QED BY <2>8, <2>9
<1> QED BY <1>1, <1>2

LEMMA SamplesNext == IInv /\ SamplesInv /\ [Next]_vars => SamplesInv'
<1> SUFFICES ASSUME IInv, SamplesInv, [Next]_vars PROVE SamplesInv'
  OBVIOUS
<1> USE DEF IInv
<1>1. CASE UNCHANGED <<log, data_tail, sampled_address>>
  BY <1>1, SamplesSame
<1>2. CASE \E c \in Core : Kernel(c)
  BY <1>2, SamplesKernel
<1>3. CASE cache_collect_sample
  <2>1. CASE core \in mapped /\ CollectFrom(core)
    <3>1. core \in Core
      BY <2>1, BoundsAssumption DEF Typed, Core
    <3> QED BY <1>3, <2>1, <3>1, SamplesCollect DEF cache_collect_sample
  <2>2. CASE UNCHANGED <<data_tail, vector>>
    BY <1>1, <1>3, <2>2 DEF cache_collect_sample, vector
  <2> QED BY <1>3, <2>1, <2>2 DEF cache_collect_sample
<1>4. CASE Main \/ TestFlag \/ UNCHANGED vars
  <2>1. UNCHANGED <<log, data_tail, sampled_address>>
    BY <1>4 DEF Main, ParseOptions, CreateGraph, WriteToFile, Traverse, TestFlag, collecting,
                perf_sample_setup, launch_cache_collect, terminate_cache_collect,
                LoadSize, PrintSize, SetFlag, JoinCollector, vars, pebsVars, vector
  <2> QED BY <1>1, <2>1
<1> QED BY <1>2, <1>3, <1>4 DEF Next, Collector, Terminated

\* Every sample the kernel wrote before data_tail is in sampled_address exactly
\* once, in the order of its ring, whatever other records lie between and
\* however the kernel's writes and the collector's turns interleave; only the
\* address of a sample over the end of a ring is wrong.
THEOREM TakesEachSampleOnce == Spec => []EachSampleOnce
<1>1. SamplesInv => EachSampleOnce
  BY DEF SamplesInv
<1> QED BY <1>1, InitInv, NextInv, SamplesInit, SamplesNext, PTL DEF Spec
=============================================================================

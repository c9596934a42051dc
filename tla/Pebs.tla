-------------------------------- MODULE Pebs --------------------------------
(***************************************************************************)
(* The sample collector (src/pebs.cpp): one perf event per core whose ring *)
(* buffer the kernel fills, and a thread that moves the sampled addresses  *)
(* from the rings to sampled_address until main tells it to stop.          *)
(*                                                                         *)
(* Sizes are in words of 8 bytes.  data_head and data_tail of a ring count *)
(* from its first record on and are taken modulo its size where they are   *)
(* used.  The address in the n-th record of core c is <<c, n>>.  Next to   *)
(* its elements the vector sampled_address has a capacity and was moved to *)
(* a larger block so many times: size() is the difference of two pointers, *)
(* loaded one after the other.                                             *)
(***************************************************************************)
EXTENDS Integers, Sequences, FiniteSets

CONSTANTS RingWords,   \* data_size of a ring: 2^25
          Reserve,     \* the capacity launch_cache_collect reserves: 10000
          MaxCores,    \* bound: cores of the largest machine considered
          MaxRecords,  \* bound: records the kernel writes in one run
          Garbage      \* the content of memory that is not the program's

ASSUME RingAssumption == RingWords \in Nat \ {0}
ASSUME ReserveAssumption == Reserve \in Nat \ {0}
ASSUME BoundsAssumption == MaxCores \in Nat \ {0} /\ MaxRecords \in Nat
ASSUME GarbageAssumption == Garbage \notin (Nat \X Nat) \cup Nat

VARIABLES THREADS, cores, \* -t, and the number of cores of the machine
          main,           \* where the main thread is, or how the process ended
          opened,         \* events opened so far, on the cores 0, 1, ...
          mapped,         \* the cores whose ring could be mapped
          log,            \* the records the kernel wrote to a ring, all of them
          data_tail, sampled_address, capacity, reallocated,
          should_terminate, collector, core,
          size_loaded, printed  \* of terminate_cache_collect: a half-read size()

machine == <<THREADS, cores>>
events == <<opened, mapped>>
vector == <<sampled_address, capacity, reallocated>>
print == <<size_loaded, printed>>
pebsVars == <<machine, main, events, log, data_tail, vector, should_terminate,
              collector, core, print>>

Core == 0 .. MaxCores - 1
Ended == {"return", "usage", "die", "exit", "assert", "fault"}

PebsInit ==
  /\ opened = 0 /\ mapped = {}
  /\ log = [c \in Core |-> <<>>] /\ data_tail = [c \in Core |-> 0]
  /\ sampled_address = <<>> /\ capacity = 0 /\ reallocated = 0
  /\ should_terminate = FALSE /\ collector = "none" /\ core = 0
  /\ size_loaded = <<0, 0>> /\ printed = Garbage

-----------------------------------------------------------------------------
(* The kernel: it writes records to a ring from perf_event_open on. *)

Types == {"sample", "other"}
Size(type) == IF type = "sample" THEN 3  \* sizeof(perf_sample): header, ip, addr
                                 ELSE 4  \* PERF_RECORD_THROTTLE

data_head(c) == IF log[c] = <<>> THEN 0
                ELSE log[c][Len(log[c])].at + Size(log[c][Len(log[c])].type)

\* The records <<core, number>> that were written.
Records == {r \in Core \X (1 .. MaxRecords) : r[2] <= Len(log[r[1]])}

\* A record that does not fit behind data_head is dropped.
Kernel(c) ==
  /\ main \notin Ended /\ c \in mapped /\ Cardinality(Records) < MaxRecords
  /\ \E type \in Types :
       /\ data_head(c) + Size(type) - data_tail[c] <= RingWords
       /\ log' = [log EXCEPT ![c] = Append(@, [at |-> data_head(c), type |-> type])]
  /\ UNCHANGED <<machine, main, events, data_tail, vector, should_terminate,
                 collector, core, print>>

-----------------------------------------------------------------------------
(* Setting the events up: main calls it before the traversal. *)

\* mmap's result is compared with nullptr, not with MAP_FAILED: a failed mmap
\* goes unnoticed, and the ring of the core is no memory.
MmapOutcomes == {mapped, mapped \cup {opened}}

\* perf_sample_setup of the next core.  It dies when the event cannot be
\* opened, for one on a core the machine does not have.
perf_sample_setup ==
  /\ main = "cache_event_setup" /\ opened < THREADS
  /\ \/ main' = "die" /\ UNCHANGED events
     \/ /\ opened < cores
        /\ opened' = opened + 1 /\ mapped' \in MmapOutcomes
        /\ main' = IF opened + 1 = THREADS THEN "launch" ELSE main
  /\ UNCHANGED <<machine, log, data_tail, vector, should_terminate, collector, core, print>>

\* (Mutant) nothing is reserved.
ReserveNothing == 0

Reserved == Reserve

\* reserve, should_terminate = false, and the thread, on core THREADS+1, which
\* the machine may not have.
launch_cache_collect ==
  /\ main = "launch"
  /\ capacity' = Reserved
  /\ should_terminate' = FALSE
  /\ IF THREADS + 1 < cores
       THEN main' = "traverse" /\ collector' = "test"
       ELSE main' = "die" /\ UNCHANGED collector
  /\ UNCHANGED <<machine, events, log, data_tail, sampled_address, reallocated, core, print>>

-----------------------------------------------------------------------------
(* The collector: cache_collect_sample. *)

\* while(!should_terminate)
TestFlag ==
  /\ main \notin Ended /\ collector = "test"
  /\ collector' = IF should_terminate THEN "exited" ELSE "scan"
  /\ UNCHANGED <<machine, main, events, log, data_tail, vector, should_terminate, core, print>>

\* (Mutant) every record is taken for a sample.
CollectsAll(r) == TRUE

\* case PERF_RECORD_SAMPLE; of the other records only the header is read.
Collects(r) == r.type = "sample"

\* The address of a sample is its third word.  When the record goes over the
\* end of the ring before that, it is read behind the ring, not at its start.
Wraps(r) == r.type = "sample" /\ (r.at % RingWords) + Size(r.type) > RingWords
Address(c, n) == IF Wraps(log[c][n]) THEN Garbage ELSE <<c, n>>

push_back(a) ==
  /\ sampled_address' = Append(sampled_address, a)
  /\ IF Len(sampled_address) < capacity
       THEN UNCHANGED <<capacity, reallocated>>
       ELSE capacity' = 2 * capacity + 1 /\ reallocated' = reallocated + 1

\* One core's turn: at most one record is taken from its ring.
CollectFrom(c) ==
  IF data_head(c) = data_tail[c]
    THEN UNCHANGED <<data_tail, vector>>
    ELSE \E n \in DOMAIN log[c] :
           /\ log[c][n].at = data_tail[c]
           /\ IF Collects(log[c][n]) THEN push_back(Address(c, n)) ELSE UNCHANGED vector
           /\ data_tail' = [data_tail EXCEPT ![c] = @ + Size(log[c][n].type)]

\* A ring that is MAP_FAILED is dereferenced, or nothing is mapped behind it.
Faults(c) ==
  c \in mapped => \E n \in DOMAIN log[c] : log[c][n].at = data_tail[c] /\ Wraps(log[c][n])

cache_collect_sample ==
  /\ main \notin Ended /\ collector = "scan"
  /\ \/ core \in mapped /\ CollectFrom(core) /\ UNCHANGED main
     \/ Faults(core) /\ main' = "fault" /\ UNCHANGED <<data_tail, vector>>
  /\ core' = (core + 1) % THREADS
  /\ collector' = IF core + 1 = THREADS THEN "test" ELSE "scan"
  /\ UNCHANGED <<machine, events, log, should_terminate, print>>

Collector == TestFlag \/ cache_collect_sample

-----------------------------------------------------------------------------
(* terminate_cache_collect, called by main after the traversal. *)

\* sampled_address.size(), first load: the end of what the vector holds.
LoadSize ==
  /\ main = "size"
  /\ size_loaded' = <<Len(sampled_address), reallocated>>
  /\ main' = "print"
  /\ UNCHANGED <<machine, events, log, data_tail, vector, should_terminate,
                 collector, core, printed>>

\* Second load: the start.  If the collector has moved the elements in between
\* the difference is no size.  Then should_terminate = true.
PrintSize ==
  /\ main = "print"
  /\ printed' = IF size_loaded[2] = reallocated THEN size_loaded[1] ELSE Garbage
  /\ main' = "terminate"
  /\ UNCHANGED <<machine, events, log, data_tail, vector, should_terminate,
                 collector, core, size_loaded>>

\* (Mutant) the flag is not set.
FlagStays == should_terminate

FlagSet == TRUE

SetFlag ==
  /\ main = "terminate"
  /\ should_terminate' = FlagSet
  /\ main' = "join"
  /\ UNCHANGED <<machine, events, log, data_tail, vector, collector, core, print>>

\* pthread_join, and main returns.
JoinCollector ==
  /\ main = "join" /\ collector = "exited"
  /\ main' = "return"
  /\ UNCHANGED <<machine, events, log, data_tail, vector, should_terminate, collector, core, print>>

terminate_cache_collect == LoadSize \/ PrintSize \/ SetFlag \/ JoinCollector
=============================================================================

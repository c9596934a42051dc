--------------------------------- MODULE Bw ---------------------------------
(***************************************************************************)
(* The bandwidth benchmark (src/bw): main creates a buffer file and one    *)
(* thread per partition of it, the threads cross the barrier, read the     *)
(* time stamp counter, make their accesses and read the counter again;     *)
(* main joins them and reports the time from the first start to the last   *)
(* stop.  Addresses are offsets into the buffer.  main never calls         *)
(* barrier_init: `barrier' is a zeroed global, so its count is 0 (BwInit). *)
(* The counters of the cores are synchronised: one tsc.  When the program  *)
(* has ended it may be run again, on the files as it left them; every run  *)
(* is given the same -p.  Memory never runs out.                           *)
(***************************************************************************)
EXTENDS Barrier, FiniteSetsExt

CONSTANTS PAGE,      \* 4096, the alignment of the buffer size
          SizeModulus, \* the size is a size_t: 2^64
          Options,   \* the command lines considered: -s, -t, -a, -n, -i, -r;
                     \* t is 0 for every -t that is not positive
          MayFail    \* can the calls of the system fail?  The cases considered

ASSUME PageAssumption == PAGE \in Nat \ {0}
ASSUME SizeAssumption == SizeModulus \in Nat \ {0}
ASSUME MayFailAssumption == MayFail \subseteq BOOLEAN
ASSUME OptionsAssumption ==
  Options \subseteq [size : 0 .. SizeModulus - 1, t : {0, Cardinality(Thread)},
                    access_size : Nat, nb_accesses : Nat,
                    mode : {"GROUPED", "INTERLEAVED"}, srmode : {"SEQ", "RANDOM"}]
ASSUME ReadersAssumption == Cardinality(Thread) > 0 /\ Thread = 0 .. Cardinality(Thread) - 1

VARIABLES opt,          \* the command line
          fails,        \* in this run calls of the system may fail
          file_exists,  \* the buffer file is in the file system
          sz, access_count, infos, func, main,
          created,      \* threads created (and later joined) by main's loops
          step, i, memaddr, start_cycle, stop_cycle, tsc

setup == <<opt, fails, file_exists, sz, access_count, infos, func>>
run == <<step, i, memaddr, start_cycle, stop_cycle, tsc>>
vars == <<barrier, setup, main, created, run>>

threads == Cardinality(Thread)

BwInit ==
  /\ file_exists = FALSE
  /\ Init /\ count = 0
  /\ opt \in Options /\ fails \in MayFail
  /\ sz = 0 /\ access_count = 0 /\ func = "none"
  /\ infos = [t \in Thread |-> [start |-> 0, end |-> 0, stride |-> 0]]
  /\ main = "create_buffer" /\ created = 0
  /\ step = [t \in Thread |-> "none"]
  /\ i = [t \in Thread |-> 0] /\ memaddr = [t \in Thread |-> 0]
  /\ start_cycle = [t \in Thread |-> 0] /\ stop_cycle = [t \in Thread |-> 0]
  /\ tsc = 1

-----------------------------------------------------------------------------
(* main *)

\* (Mutant) the file is not looked for.
NoBufferFile == FALSE

\* ifs.good()
BufferFile == file_exists

\* The size aligned to a page; the sum can wrap.
AlignedSize == (((opt.size + PAGE - 1) % SizeModulus) \div PAGE) * PAGE

\* Dies when the file is there, else creates it.
\* open fails before, lseek, write and mmap fail after the file has been
\* created; lseek always does when the size is 0.
create_buffer ==
  /\ main = "create_buffer"
  /\ \/ BufferFile /\ main' = "die" /\ UNCHANGED <<file_exists, sz>>
     \/ ~BufferFile /\ fails /\ main' = "die" /\ UNCHANGED <<file_exists, sz>>
     \/ /\ ~BufferFile /\ file_exists' = TRUE
        /\ sz' = AlignedSize
        /\ \/ sz' # 0 /\ main' = "create_thread_info"
           \/ (fails \/ sz' = 0) /\ main' = "die"
  /\ UNCHANGED <<barrier, opt, fails, access_count, infos, func, created, run>>

Partition == sz \div threads

\* (Mutant) the accesses are counted for the whole buffer.
AccessCountOfBuffer == sz \div opt.access_size

AccessCount == Partition \div opt.access_size

Info(t) ==
  IF opt.mode = "GROUPED"
    THEN [start |-> t * Partition, end |-> (t + 1) * Partition, stride |-> opt.access_size]
    ELSE [start |-> t * opt.access_size, end |-> sz + t * opt.access_size,
          stride |-> threads * opt.access_size]

\* -t 0 and a block of size 0 are divided by, and with a negative -t malloc
\* returns no memory for infos.  Dies when a partition is smaller than a block
\* or the attributes of a thread cannot be set.
create_thread_info ==
  /\ main = "create_thread_info"
  /\ \/ /\ opt.t = 0 \/ opt.access_size = 0
        /\ main' = "fault" /\ UNCHANGED <<access_count, infos>>
     \/ /\ opt.t > 0 /\ opt.access_size > 0 /\ access_count' = AccessCount
        /\ \/ (AccessCount = 0 \/ fails) /\ main' = "die" /\ UNCHANGED infos
           \/ /\ AccessCount # 0
              /\ infos' = [t \in Thread |-> Info(t)]
              /\ main' = "read_hub"
  /\ UNCHANGED <<barrier, opt, fails, file_exists, sz, func, created, run>>

\* main calls read_hub whatever -w says; launch starts with the first thread.
read_hub ==
  /\ main = "read_hub"
  /\ func' = IF opt.srmode = "SEQ" THEN "read_seq" ELSE "read_random"
  /\ main' = "launch"
  /\ UNCHANGED <<barrier, opt, fails, file_exists, sz, access_count, infos, created, run>>

\* (Mutant) launch creates one thread too many.
LaunchedTooMany == created = threads

LaunchedAll == created + 1 = threads

\* launch: one pthread_create after the other.
launch ==
  /\ main = "launch"
  /\ \/ /\ step' = [step EXCEPT ![created] = "barrier"]
        /\ created' = created + 1
        /\ main' = IF LaunchedAll THEN "join" ELSE "launch"
     \/ fails /\ main' = "die" /\ UNCHANGED <<step, created>>
  /\ UNCHANGED <<barrier, setup, i, memaddr, start_cycle, stop_cycle, tsc>>

\* (Mutant) the first thread is not joined.
JoinedButFirst == Thread \ {0}

Joined == Thread

\* The pthread_join loop ends when every thread has.
Join ==
  /\ main = "join" /\ \A t \in Joined : step[t] = "exited"
  /\ main' = "find"
  /\ UNCHANGED <<barrier, setup, created, run>>

\* find_start, find_stop, the report, and remove(path).
find_start == Min({start_cycle[t] : t \in Thread})
find_stop == Max({stop_cycle[t] : t \in Thread})

Report ==
  /\ main = "find"
  /\ \/ main' = "done" /\ file_exists' = FALSE
     \/ fails /\ main' = "die" /\ UNCHANGED file_exists
  /\ UNCHANGED <<barrier, opt, fails, sz, access_count, infos, func, created, run>>

\* The program is run again, perhaps with another command line.
Rerun ==
  /\ main \in {"done", "die", "fault"}
  /\ opt' \in Options /\ fails' \in MayFail
  /\ sz' = 0 /\ access_count' = 0 /\ func' = "none" /\ tsc' = 1
  /\ infos' = [t \in Thread |-> [start |-> 0, end |-> 0, stride |-> 0]]
  /\ main' = "create_buffer" /\ created' = 0 /\ crossed' = 0 /\ mutex' = Nobody
  /\ step' = [t \in Thread |-> "none"] /\ pc' = [t \in Thread |-> "out"]
  /\ LET zero == [t \in Thread |-> 0] IN
       /\ i' = zero /\ memaddr' = zero /\ start_cycle' = zero /\ stop_cycle' = zero
       /\ arrivals' = zero /\ returns' = zero
  /\ UNCHANGED <<spurious, rounds, file_exists>>

-----------------------------------------------------------------------------
(* A thread: read_seq or read_random. *)

Running == main \notin {"fault", "die"}

\* Nobody blocks in a barrier with count = 0, so nobody is woken either.
CrossBarrier(t) ==
  /\ Running /\ step[t] = "barrier"
  /\ Call(t) \/ Cross(t)
  /\ step' = [step EXCEPT ![t] = IF returns'[t] = rounds THEN "start" ELSE "barrier"]
  /\ UNCHANGED <<setup, main, created, i, memaddr, start_cycle, stop_cycle, tsc>>

\* rdtscll(info->start_cycle)
Start(t) ==
  /\ Running /\ step[t] = "start"
  /\ start_cycle' = [start_cycle EXCEPT ![t] = tsc]
  /\ tsc' = tsc + 1
  /\ step' = [step EXCEPT ![t] = "access"]
  /\ UNCHANGED <<barrier, setup, main, created, i, memaddr, stop_cycle>>

\* g_lehmer64_state of a thread: it is thread_local, and init_seed runs in
\* the main thread only.
WorkerState == 0

\* lehmer64 multiplies the state: it leaves 0 only where it started with it.
lehmer64 == IF WorkerState = 0 THEN {0} ELSE 0 .. access_count - 1

\* The value of n&mask: the number with the bits that both have.  It has no
\* bit that the mask does not have, so it is looked for up to the mask.
Bit(n, j) == (n \div 2^j) % 2
Masked(n, mask) ==
  {m \in 0 .. mask : \A j \in 0 .. mask : Bit(m, j) = Bit(n, j) * Bit(mask, j)}

Locations(t) ==
  IF func = "read_seq" THEN Masked(i[t], access_count)
                       ELSE {r % access_count : r \in lehmer64}

\* (Mutant) i is not incremented.
SameIndex(t) == i[t]

NextIndex(t) == i[t] + 1

\* One memcpy out of the buffer; behind the mapping it may fault.
Access(t) ==
  /\ Running /\ step[t] = "access" /\ i[t] < opt.nb_accesses
  /\ \E loc \in Locations(t) :
       LET a == infos[t].start + loc * infos[t].stride IN
         /\ memaddr' = [memaddr EXCEPT ![t] = a]
         /\ \/ UNCHANGED main
            \/ a + opt.access_size > sz /\ main' = "fault"
  /\ i' = [i EXCEPT ![t] = NextIndex(t)]
  /\ UNCHANGED <<barrier, setup, created, step, start_cycle, stop_cycle, tsc>>

\* rdtscll(info->stop_cycle); return nullptr
Stop(t) ==
  /\ Running /\ step[t] = "access" /\ i[t] = opt.nb_accesses
  /\ stop_cycle' = [stop_cycle EXCEPT ![t] = tsc]
  /\ tsc' = tsc + 1
  /\ step' = [step EXCEPT ![t] = "exited"]
  /\ UNCHANGED <<barrier, setup, main, created, i, memaddr, start_cycle>>

-----------------------------------------------------------------------------
MainStep == create_buffer \/ create_thread_info \/ read_hub \/ launch \/ Join \/ Report
ThreadStep(t) == CrossBarrier(t) \/ Start(t) \/ Access(t) \/ Stop(t)

BwNext == MainStep \/ (\E t \in Thread : ThreadStep(t)) \/ Rerun

BwSafeSpec == BwInit /\ [][BwNext]_vars

\* Every thread that is not blocked runs; nobody has to run the program again.
BwSpec == BwSafeSpec /\ WF_vars(MainStep) /\ \A t \in Thread : WF_vars(ThreadStep(t))

-----------------------------------------------------------------------------
\* Type correctness.
BwTypeOK ==
  /\ TypeOK
  /\ opt \in Options /\ fails \in BOOLEAN /\ file_exists \in BOOLEAN /\ sz \in Nat /\ access_count \in Nat
  /\ infos \in [Thread -> [start : Nat, end : Nat, stride : Nat]]
  /\ func \in {"none", "read_seq", "read_random"}
  /\ created \in 0 .. threads
  /\ step \in [Thread -> {"none", "barrier", "start", "access", "exited"}]
  /\ i \in [Thread -> Nat] /\ memaddr \in [Thread -> Nat] /\ tsc \in Nat
  /\ start_cycle \in [Thread -> Nat] /\ stop_cycle \in [Thread -> Nat]

\* The reported interval is behind the start and before the stop of no thread:
\* every access of every thread falls into it.
WindowCoversAccesses ==
  main \in {"find", "done"} =>
    \A t \in Thread : /\ step[t] = "exited"
                      /\ find_start <= start_cycle[t] /\ start_cycle[t] < stop_cycle[t]
                      /\ stop_cycle[t] <= find_stop

\* No access starts behind the end that create_thread_info computed, in either
\* mode, although i&access_count reaches access_count.
StartsBeforeEnd ==
  \A t \in Thread : i[t] > 0 => memaddr[t] \in infos[t].start .. infos[t].end

\* src/bw/main.cpp: "-r<random>", and the report calls the run "Random": with
\* -r each of the access_count blocks can be the next one that is read.
RandomReadsAnyBlock ==
  \A t \in Thread :
    step[t] = "access" /\ func = "read_random" => Locations(t) = 0 .. access_count - 1

\* Once a run has died behind the creation of its buffer file, no run comes to
\* its end any more, whatever its command line, until somebody deletes the file
\* (for runs with one -p).
DeadRunsBlock == [](main \in {"die", "fault"} /\ file_exists => [](main # "done"))

\* The barrier that was never initialised holds nobody up, and every run ends.
RunEnds == []<>(main \in {"done", "die", "fault"})
=============================================================================

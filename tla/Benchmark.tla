----------------------------- MODULE Benchmark -----------------------------
(***************************************************************************)
(* The benchmark program: main (src/main.cpp) and bfs_hub (src/src/bfs.cpp)*)
(* around the sample collector of Pebs.  Loading the graph and traversing  *)
(* it are one step each, with the outcomes Loader and the traversals have: *)
(* "fault" where those use memory that is not there, which need not kill   *)
(* the process, so that it may go on as well.                              *)
(*                                                                         *)
(* -t and -v are not negative, and memory never runs out.                  *)
(***************************************************************************)
EXTENDS Pebs

CONSTANTS Runs,           \* the command lines considered, each with what the
                          \* program meets
          Machines,       \* the numbers of cores considered
          Unset           \* an option that was not given

\* Where an id of the binary lies: below NB_NODES, at it, or beyond.
Places == {"below", "at", "beyond"}

ASSUME RunsAssumption ==
  \A run \in Runs :
    /\ run.opt.t \in Nat /\ run.opt.v \in Nat /\ run.opt.m \in Int \cup {Unset}
    /\ run.given.source \in Places /\ run.given.target \in Places
ASSUME MachinesAssumption == Machines \subseteq 1 .. MaxCores

VARIABLES opt,        \* -t, -v, -m, and whether -f, -o, -d, -s, -? were given
          given,      \* where the largest source and target of the binary lie,
                      \* and whether it is cut off while it is read, malloc's
                      \* degree arrays are zero, and two threads of a loop have
                      \* the same gettid()%THREADS
          SYMMETRIC, mode

options == <<opt, given, SYMMETRIC, mode>>
vars == <<options, pebsVars>>

Init ==
  /\ PebsInit
  /\ \E run \in Runs : opt = run.opt /\ given = run.given
  /\ cores \in Machines
  /\ THREADS = 0 /\ SYMMETRIC = FALSE /\ mode = 0
  /\ main = "getopt"

collecting == <<events, log, data_tail, vector, should_terminate, collector, core, print>>

-----------------------------------------------------------------------------
\* getopt, -d, the defaults.  mode is not initialised.
DebugThreads == 4

\* (Mutant) -d leaves SYMMETRIC alone.
SymmetricWithS == opt.s

Symmetric == opt.s \/ opt.d

ParseOptions ==
  /\ main = "getopt"
  /\ SYMMETRIC' = Symmetric
  /\ THREADS' = IF opt.d THEN DebugThreads ELSE IF opt.t = 0 THEN 1 ELSE opt.t
  /\ mode' \in IF opt.m = Unset THEN -1 .. 2 ELSE {opt.m}
  /\ main' = IF opt.unknown \/ (~opt.d /\ opt.v = 0) THEN "usage" ELSE "create_graph"
  /\ UNCHANGED <<opt, given, cores, collecting>>

\* pinning_observer::on_scheduler_entry, for the thread in slot i of the arena:
\* it is bound to core i % THREADS, if there is one.
Pinned(i) == i % THREADS < cores

\* Which slots of the arena get a thread is the scheduler's choice: where one
\* cannot be pinned, a parallel loop may exit.
MayExit == \E i \in 0 .. THREADS - 1 : ~Pinned(i)

HasBinary == opt.f \/ opt.d

\* Behind the cut of a file the edge list is what malloc left there.
Sources == IF given.cut THEN Places ELSE {given.source}
Targets == IF given.cut THEN Places ELSE {given.target}

\* binary is not initialised without -f.  count_degree writes behind a degree
\* array for an id beyond it (of a target only if SYMMETRIC), and create_edges
\* behind an edge array if the degrees did not start at zero.
LoadStrays ==
  \/ ~HasBinary
  \/ "beyond" \in Sources
  \/ SYMMETRIC /\ "beyond" \in Targets
  \/ ~given.zeroed

\* The degrees add up to NB_EDGES if every end that is counted is a vertex.
DegreesMayAddUp ==
  \/ "below" \in Sources /\ (SYMMETRIC => "below" \in Targets)
  \/ ~given.zeroed

\* create_graph.  It dies without the file, and its assertions stop it for a
\* size that is no number of edges or degrees that do not add up.
CreateGraph ==
  /\ main = "create_graph"
  /\ \/ main' = "die"
     \/ main' = "exit" /\ MayExit
     \/ main' = "assert" /\ HasBinary
     \/ main' = "fault" /\ LoadStrays
     \/ /\ HasBinary /\ DegreesMayAddUp
        /\ main' = IF opt.o THEN "write_to_file" ELSE "cache_event_setup"
  /\ UNCHANGED <<options, machine, collecting>>

\* write_to_file exits when it cannot open the output.
WriteToFile ==
  /\ main = "write_to_file"
  /\ main' \in {"exit", "return"}
  /\ UNCHANGED <<options, machine, collecting>>

\* The traversals index visited[] with the targets, which create_graph looked
\* at only if SYMMETRIC, and without it the pull loops of mode 1 and 2 read
\* in_edge_offsets, which nobody set.  bfs_push reads entries that were never
\* written when pushes on a shared buffer get lost.
TraverseStrays ==
  \/ ~SYMMETRIC /\ (mode \in 1 .. 2 \/ Targets # {"below"})
  \/ ~given.zeroed
  \/ mode = 0 /\ given.clash /\ THREADS > 1

\* The switch of bfs_hub and the traversal.  The collector has its core by now,
\* and so has every slot of the arena.
Traverse ==
  /\ main = "traverse"
  /\ \/ mode \in 0 .. 2 /\ main' = "size"
     \/ mode \in 0 .. 2 /\ TraverseStrays /\ main' = "fault"
     \/ mode \notin 0 .. 2 /\ main' = "die"
  /\ UNCHANGED <<options, machine, collecting>>

Main ==
  \/ ParseOptions \/ CreateGraph \/ WriteToFile \/ Traverse
  \/ (perf_sample_setup \/ launch_cache_collect \/ terminate_cache_collect) /\ UNCHANGED options

Terminated == main \in Ended /\ UNCHANGED vars

Next ==
  \/ Main
  \/ Collector /\ UNCHANGED options
  \/ (\E c \in Core : Kernel(c)) /\ UNCHANGED options
  \/ Terminated

\* main and the collector run on cores of their own; the kernel samples or not.
Spec == Init /\ [][Next]_vars /\ WF_vars(Main) /\ WF_vars(Collector /\ UNCHANGED options)

-----------------------------------------------------------------------------
(* Properties. *)

Taken == {n \in DOMAIN sampled_address : sampled_address[n] # Garbage}
Consumed == {r \in Records : LET record == log[r[1]][r[2]] IN
            record.at < data_tail[r[1]] /\ record.type = "sample"}

\* The collector takes every sample once and in order, however the kernel
\* writes and whatever other records lie between; an address is wrong only if
\* its record lies over the end of the ring.
EachSampleOnce ==
  /\ \A j, k \in Taken : j < k /\ sampled_address[j][1] = sampled_address[k][1]
                           => sampled_address[j][2] < sampled_address[k][2]
  /\ {sampled_address[j] : j \in Taken} = {r \in Consumed : ~Wraps(log[r[1]][r[2]])}
  /\ Len(sampled_address) = Cardinality(Consumed)

\* The number that is printed while the collector may still be appending is one
\* the vector has held, as long as the samples fit into what was reserved.
PrintedWasHeld ==
  main \in {"terminate", "join"} /\ Len(sampled_address) <= Reserve =>
    printed \in 0 .. Len(sampled_address)

\* A stray access kills the process only for one of these reasons: no file; one
\* that is cut off, has a source beyond -v, or a target beyond it, or at it if
\* there is no -s or -d; malloc memory that is not zero; a pull mode without -s
\* or -d; bfs_push with a shared buffer; a ring that was not mapped; and else
\* only after a full turn around a ring.
FaultsExplained ==
  main = "fault" =>
    \/ ~(opt.f \/ opt.d)
    \/ given.cut \/ given.source = "beyond" \/ given.target = "beyond"
    \/ given.target = "at" /\ ~(opt.s \/ opt.d)
    \/ ~given.zeroed
    \/ mode \in 1 .. 2 /\ ~(opt.s \/ opt.d)
    \/ mode = 0 /\ given.clash /\ THREADS > 1
    \/ 0 .. opened - 1 # mapped
    \/ \E c \in Core : data_tail[c] + 3 > RingWords

\* The program ends: the collector sees the flag although the kernel goes on
\* writing.
MainEnds == <>(main \in Ended)
=============================================================================

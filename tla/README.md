# graph_benchmark in TLA+

Specifications of the programs of this repository: the graph benchmark itself
(`main`, loader, three breadth-first searches, `thread_buffer`, the sample
collector, and the pagerank it no longer calls), the memory-bandwidth benchmark
`bw`, the pointer-chasing benchmark, and the two tools that renumber a graph by
degree. TLC checks all of them on small instances. TLAPS proves, for every
value of the constants, every safety property that TLC checks: among them that
`create_graph` returns the graph of its file, that all three searches implement
a level-synchronous search and find what is reachable, that pagerank's racing
additions are exact, that `bw` reports an interval that covers its accesses,
that the pointer chase is one cycle, and that both tools only rename vertices.
Liveness is model-checked.

Paths below are relative to the root of the repository.

## The system

| component | code | state | operations |
|---|---|---|---|
| main, bfs hub | `src/main.cpp`, `src/bfs.cpp` (`bfs_hub`) | the options, `SYMMETRIC`, `mode` | parse, load, print or search, with the collector around the search |
| graph loader | `src/loader.cpp`, `include/config.h` (`Graph`) | the edge list in memory, degree/offset arrays, adjacency arrays, per-vertex slot counters | `create_graph` = read loop, `count_degree`, `sum_degree`, `create_edges`; `write_to_file` |
| bfs push | `src/bfs.cpp:60` | `visited[]`, `frontier`, one `thread_buffer` per arena slot | the level loop and the body of its `parallel_for` |
| bfs pull | `src/bfs.cpp:113` | `visited[]`, `in_frontier[]`, `in_frontier_next[]`, shared flag `cont` | the sweep loop and its body |
| bfs push-pull | `src/bfs.cpp:150` | both of the above, two edge sums | push loop, heuristic, switch, sweep loop |
| `thread_buffer` | `src/config.cpp`, `include/config.h` | an array and `next` | `init`, `push`, `transfer`, `clear`, `size`, `operator[]` |
| task arena, pinning | oneTBB; `pinning_observer` in `include/config.h` | which thread runs which range on which core | `arena.execute(parallel_for(..))` |
| sample collector | `src/pebs.cpp` | one perf ring per core, `sampled_address`, `should_terminate` | set up an event, launch, consume a record, terminate |
| pagerank | `src/pagerank.cpp`, `include/util.h` | `rank[]`, `prev[]` | `pr_hub`, `pr_push` with `atomicAdd`; `main` has the call in a comment |
| barrier | `bw/bw.cpp:102` | mutex, condition variable, `count`, `crossed` | `barrier_init`, `barrier_cross` |
| bandwidth benchmark | `bw/main.cpp`, `bw/bw.cpp`, `bw/bw.h` | the buffer file, a `thread_info_t` per thread | `create_buffer`, `create_thread_info`, `read_hub`, `launch`, the reading threads, `find_start`, `find_stop` |
| pointer chasing | `pointer_chasing/` | a circular list in a buffer | `create_random`, `read_chase`, `cas_hub`, `cas_chase_fail` |
| reorder | `reorder.cpp` | edges, degrees, the new numbering | `sort_by_degree` |
| degree.py | `reorder/degree.py` | a dict of edges, the new numbering | the script |

`main` loads the graph, either prints it and stops or opens one perf event per
thread, starts the collector thread, runs one search, prints how many samples
there are and joins the collector. The kernel fills the rings meanwhile. The
searches only read the graph. Inside a search the main thread alternates with a
`parallel_for`: while the bodies run it waits in `arena.execute`, so the bodies
interleave with one another but not with the main thread. They share `visited[]`
(claimed by compare-and-swap in push, partitioned in pull), the frontier
containers, the flag `cont` and the two sums. The other programs are separate
executables and share nothing with the benchmark but the binary format of the
edge list.

### What is hard, and what makes each part correct

* **Push.** Two bodies can race for one vertex; the winner pushes it with an
  unsynchronised `next`, which is safe only because every thread has a buffer of
  its own; `transfer` copies without a capacity test, which is safe only because
  no vertex is pushed twice. Correct: no access leaves a buffer, no vertex is
  explored twice, a level is exactly the set of new neighbours of the level
  before, the search ends with what is reachable. `gettid()%THREADS` need not
  give every thread a buffer of its own; when two share one, pushes are lost,
  and only the bounds and the end of the search remain, and those until a body
  takes an entry that was never written for a vertex that it is not: then the
  offsets are indexed out of their bounds and nothing is certain.
* **Pull.** Two arrays change roles every sweep, one flag is written by all
  bodies, the arrays come from `malloc` uncleared, and the in-edges exist only
  with `-s`, which nothing ties to the mode. Correct: the flag is exact, the
  levels are those of the abstract search (on zeroed memory), nothing reachable
  is missed and the loop ends (on any memory).
* **Push-pull.** Sums kept by racing bodies drive an unsigned comparison.
  Correct: the sums are exact at every level; the search is the abstract one.
* **Collector.** It takes records from rings the kernel is writing to, and runs
  on while `terminate_cache_collect` reads the size of its vector. Correct:
  every sample is taken once and in order, the printed number is a size the
  vector had, the program ends although the rings never run dry.
* **Loader.** `read` may deliver any part of the file; the file may be cut off
  meanwhile or hold ids that are no vertices; degrees are counted and slots
  claimed by racing bodies; claim and store are two steps. Correct: the whole
  file is in memory, no slot is stored to twice, the result holds exactly the
  edges of the file.
* **Pagerank.** `atomicAdd` is a load and a compare-and-swap, and sums wrap.
  Correct: no addition is lost or doubled, and no round sees the next one.
* **Barrier and bw.** A condition wait without a loop around it, immediate reuse,
  a barrier that is never initialised, a buffer file that a dead run leaves.
  Correct: nobody leaves a round before all have arrived, nobody is left behind,
  the reported interval covers every access.
* **Pointer chasing.** Correct: whatever the shuffle, the entries form one cycle,
  and the walk reads them evenly.
* **Reordering.** Numbers given out with an exception for vertex 0.
  Correct: a permutation, and the output is the input with vertices renamed.

`PROJECT.json` lists every hazard at its line with the properties about it.

## Modules

| module | models | notes |
|---|---|---|
| `Csr` | the `Graph` class | arrays are functions on `0..n-1`; `IsGraph` is what a loader run with `-s` leaves, and what the searches are given |
| `BfsGraph` | input of a search | `Successors`; `Reachable`, the reference definition |
| `BfsLevels` | **abstract**: level-synchronous search | one step per level |
| `TaskArena` | oneTBB (external) | any contiguous ranges in any order, at most `THREADS` bodies at a time |
| `ThreadBuffer` | `thread_buffer` | its operations on a record `[buffer, next]`; `push` split into store and increment |
| `BfsPush` | `bfs_push` | one action per access to shared memory; refines `BfsLevels` |
| `BfsPushInv` | | the inductive invariants `BoundsInv` (in any case) and `IInv` (buffers not shared), and `Progress` |
| `PullSweep` | the sweep loop shared by pull and push-pull | also without in-edges |
| `BfsPushPull` | the push loop of `bfs_pushpull` | extends `PullSweep` |
| `BfsModes` | `bfs_pull` and `bfs_pushpull` as whole searches | composes the two loops; refines `BfsLevels` |
| `Pebs` | the sample collector and the kernel that feeds it | |
| `Benchmark` | `main` and `bfs_hub` | extends `Pebs`; loading and searching are one step each; `given` says what of the binary, `malloc` and the thread ids makes `Loader` and the searches stray, and they can only fault where those can |
| `Loader` | `create_graph` | both parallel loops, one action per atomic access |
| `EdgeSums` | what the edges carry in a round | `Received`, shared by the next two |
| `PageRounds` | **abstract**: rounds that replace all scores at once | |
| `PageRank` | `pr_hub`, `pr_push` | load and compare-and-swap of `atomicAdd` are two actions; refines `PageRounds` |
| `Barrier` | `barrier_cross` | |
| `Bw` | the `bw` program, run again and again with one `-p` | extends `Barrier`; its threads cross that barrier with `count = 0` (`BwInit`); `Masked` is the `&` of `read_seq` |
| `PointerChase` | the pointer-chasing program | `idx` is `i`, `left` what is left of `count`, `stage` the place of `main` |
| `Reorder`, `Degree` | `reorder.cpp`, `degree.py` | in `Degree` `next_id` is `count`, `at` the place in the script |
| `MC*` | | values of the constants for TLC |
| `SumLemmas` | | sums over finite sets, products, and induction over numbers and finite sets stated with sets |
| `*Proofs` | | theorems and proofs; `ToolProofs` is about `Barrier`, `Bw`, `PointerChase` and `Degree` |

State variables have the names of the program's variables, but for those named
in the table (`ToolProofs` extends four modules, whose names must differ). `main` is the place of the
main thread and `pc[t]` the next shared access of the body thread `t` runs
(`"idle"`: none); `pending` holds the loop indices no body has been given. The
local variables of a body die with it and are reset, which keeps the state
space small and changes no behaviour. Definitions marked `(Mutant)` are
deliberately wrong versions of a definition that follows them; no specification
uses them, they serve to show that each property can fail.

Choices worth knowing:

* A body's accesses to shared memory are separate steps. In `Loader` and
  `BfsPush` that includes the gap between claim and store, and between the two
  loads of `next` in `push` (`buffer[next] = id; next++`); in `Pebs` the two
  loads of `size()`.
* An entry of a buffer that was never written is `Uninit`; reading it yields any
  vertex (`Entry`), or a number that is none (`Stray`), which takes the offsets
  and `visited[]` out of their bounds: `main` is `"undefined"` then and the model
  ends. This only happens when two threads share a buffer.
* `given` in `Benchmark` is what the loading step meets: where the largest source
  and target lie (below `-v`, at it, beyond), whether the file is cut off,
  whether the degree arrays are zeroed, and whether two threads have the same
  `gettid()%THREADS`. Without `-s` targets are compared with nothing until a
  search indexes `visited[]` with them.
* Memory from `malloc` that is not cleared is chosen in `Init` (or when it is
  allocated): all zero, as from the kernel, or anything, as from the free list.
  The variable `zeroed` records which.
* What the code leaves undefined is a choice: `mode` without `-m`, in-edges
  without `-s` (the process is killed, or the scan finds what it likes), a ring
  that could not be mapped, an id that is no vertex. States in which the process is killed are `"fault"`,
  `"undefined"` or `"die"` and end the model.
* Sums are mathematical integers where they cannot wrap (shown by a property:
  `HeuristicExact` for the unsigned `NB_EDGES - explored`) and are taken modulo
  a constant where they can: `CounterModulus` (`Loader`, `Reorder`),
  `PropModulus`, `WordModulus`, `SizeModulus`.
* The build sets no optimisation level and no `NDEBUG`: assertions count, and
  `should_terminate`, a plain `bool`, is read again in every round.

## What TLC checks

The runs without a finding explore their whole state space. Deadlock is checked
everywhere except in `barrier` (the threads stop after their rounds, and with
spurious wakeups a second round can hang); finished programs stutter explicitly.

| run | instance | shows |
|---|---|---|
| `benchmark` | 12 command lines on a binary that fits, and 14 further ones with ids at `-v` and beyond, a file that is cut off, used `malloc` memory or a slot clash; machines of 3 and 6 cores, 3 records, rings of 8 words, a reserve of 2; 285k states | the program always ends; a stray access has one of the causes below; samples are taken once and in order whatever else is in the ring; the printed number is a size |
| `bfs_push` | 4 OS threads of which 3 share the work, in one team with a buffer each and in one where two have equal `gettid()%THREADS`; 6 graphs of 6 vertices; 214k states | with a buffer each `bfs_push` implements `BfsLevels`, explores nothing twice and returns with exactly the reachable set; in any case it stays in its buffers and returns, or comes to an entry that was never written and is no vertex |
| `bfs_pull` | 2 threads, 5 graphs of 4 vertices, with in-edges and for two of them without, several contents of the two arrays; 344k states | both searches implement `BfsLevels` on zeroed arrays, return on all, and miss nothing with in-edges; `cont` and the sums are exact; push-pull needs no in-edges if every vertex is reachable |
| `loader` | 3 threads, 7 binaries of up to 3 edges, with and without `-s`, every split of the file by `read`, a truncation, counter modulus 3; 98k states | the graph returned is the graph of the file; only ids beyond `-v` or a truncation make it use memory that is not there |
| `loader_malloc` | degree arrays with arbitrary content | **finding**: `assert(prev == NB_EDGES)` can fail, as `count_degree` does not clear what `malloc` returned |
| `pagerank` | 3 threads, 2 graphs of 3 vertices, `-1`, 0 and 2 rounds, all modes, 3-bit scores; 29k states | no addition is lost or made twice, also when a sum wraps back to the value that was loaded; the rounds are those of `PageRounds`; it returns |
| `barrier` | 3 threads, one or two rounds, with and without spurious wakeups; 1.9k states | barrier property, exact count, nobody left behind |
| `bw` | 2 threads, 21 command lines (with accesses of 0 bytes or no threads, which divide by zero, and with sizes of 0 and one that wraps to 0), with and without failing system calls, run again and again; 9.9k states | the interval covers all accesses, which start inside the partition; every run ends; a run that dies behind the creation of its file blocks all later ones |
| `chase` | 84 calls on buffers of up to 4 entries; 2.3k states | one cycle through all entries, walked evenly, without a store |
| `bw_random` | the same | **finding**: with `-r` a thread with several blocks can only read the first one |
| `reorder` | 4 vertices, 6 edge lists, some with ids that are no vertices, counter modulus 3, all options, zeroed or garbage degrees; 29k states | permutation, renaming, sorted if zeroed and no degree wraps |
| `degree` | all 125 lists of three edges from a set of five, 8 option sets; 12k states | unique numbers without gaps, renaming, sorted |

Why the bounds suffice. A race on one vertex needs two bodies; the third thread
lets one be delayed across the two others. The hand-picked graphs have two and
three parents racing for one child, for two children in opposite order, parallel
edges (more of them than a buffer has entries), edges back, a self loop, an
unreachable vertex, a level wider than the one before and a source without
edges, and up to four levels, so buffers and arrays are reused several times.
The binaries of `loader` have a vertex that owns all edges (the row is full and
the counter gets to its modulus), parallel edges, an empty row, no edge at all,
and ids equal to `-v` and beyond as source and as target. The rings of
`benchmark` hold two samples and a part of a third, so that a record lies over
the end, and its vector outgrows its reserve (`MaxRecords` is one more than
`Reserve`); six cores are what `-d` needs and three are too few for it
(`MaxCores`). In `pagerank` scores have three bits, so that the sums of halved
scores wrap around to a value somebody has loaded. A barrier defect of the classical kind (a
fast thread lapping a slow one) needs two crossings (`Rounds`). `bw` uses
partitions that are no multiple of the block and one smaller than a block;
`PAGE` is 4 instead of 4096. The sizes of `chase` are 0, odd, too large for
`malloc`, and one that wraps when it is aligned, as -1 does.

Fairness. Searches, loader and pagerank: weak fairness of the main thread, of
each body and of handing out ranges; that is, the operating system runs every
runnable thread and TBB gives out every range (a given range may go to any
thread). A failing `read` and a truncation are not forced. Benchmark: weak
fairness of the main thread and of the collector, which has a core of its own;
none of the kernel, which may sample or not. Barrier and bw: weak fairness of
each thread that is not blocked; *no* fairness of spurious wakeups, of failures,
or of the user who starts `bw` again. Nothing stronger is assumed.

The causes of a stray access in the benchmark (`FaultsExplained`): no `-f` or
`-d`; a file that is cut off while it is read; a source beyond `-v`; a target
beyond `-v`, or at it without `-s` or `-d`; degree arrays that `malloc` did not
return zeroed; `-m 1` or `-m 2` without `-s` or `-d`; `-m 0` with threads that
share a buffer; a ring that was not mapped; a full turn around a ring.

`ImplementsLevels` and `ImplementsRounds` are the safety parts of the abstract
specifications; that the searches get to their end is `Termination`, `PrEnds`.

The two findings, where the code does not do what it says: the degree arrays
that `count_degree` does not clear (`loader_malloc`, against the assertion at
`src/loader.cpp:89`), and `-r` of `bw`, which is called `<random>` and reported
as "Random" (`bw/main.cpp:51`, `:67`): `g_lehmer64_state` is thread-local and
only seeded in the main thread, so the generator of every reader stays at 0 and
reads one block over and over (`bw_random`, `RandomReadsAnyBlock`).

`degree.py` too deviates from its help text: `-m` is to "maintain initial vertex
ID 0" (`reorder/degree.py:11`), but vertex 0 keeps its number only if it has an
edge in the counted direction; else the loop that rewrites the edges gives it
the next free one. `OutputIsRelabelling` of `Degree` says what remains: with
`-m` nobody else gets the number 0.

Other observations; no text of the repository says otherwise:

* At the head of the push loop the edges of the frontier are themselves
  unexplored, so `edges_in_frontier > unexplored` is never true
  (`HeuristicExact`). The pull phase of `bfs_pushpull` always starts with an
  empty frontier and does one sweep. Without `-s` that sweep reads
  `in_edge_offsets`, which nobody set, if a vertex is unreachable.
* `tid%THREADS` with thread ids that are not consecutive loses pushes: the
  search then misses vertices, or explores what lies in memory that was never
  written.
* `bw` never initialises its barrier: `count` is 0, nobody waits, and threads
  do not start together. The interval that is reported is right nevertheless
  (`WindowCoversAccesses`).
* `-w 1` of `bw` selects nothing: `read_hub` is called in any case.
* `i&access_count` in `read_seq` is a mask: with 4 blocks the accesses go to
  blocks 0,0,0,0,4,4,4,4. Block 4 starts at the end of the partition, and no
  further (`StartsBeforeEnd`); the access itself can lie behind the mapping,
  which is the step to `main = "fault"`.
* A record that lies over the end of a perf ring is read behind the ring
  (`FaultsExplained`, `EachSampleOnce`), and a failed `mmap` goes unnoticed until
  the collector reads the ring.

## What is proved

Each theorem holds for arbitrary values of its module's constants (vertices,
graphs, threads, cores, ring sizes, command lines), under the named assumptions
in the modules and what is said here.

* `LevelsAreCorrect` (`BfsPushProofs`): a search whose last level is empty has
  reached exactly `Reachable(graph)`. From `LevelsClosed` (only the last level
  has edges out of the reached set) and the fact that every reached vertex lies
  in every set that holds the source and is closed under edges.
* `BoundsInductive` (`BfsPushProofs`): `SafeSpec => []BoundsInv`, whatever
  threads share a buffer, up to the first step of `Stray`. Entries need not be distinct then, and `next` can fall
  behind. Instead `Accounted` says that disjoint sets of visited vertices exist,
  one per buffer and one for what was transferred, such that no `next` and no
  register of `push` is ahead of the size of its set, and a vertex in flight is
  in none. A finished push puts its vertex in the set of its buffer, whatever it
  leaves in `next`; the CAS (`Exclusive`) keeps the sets disjoint, so together
  they have at most `NB_NODES` vertices, and fewer while one is in flight. Gives
  `TypeCorrect` (`TypeOK`) and `NoOverflow` (`BuffersInBounds`).
* `Inductive` (`BfsPushProofs`): `SafeSpec => [](NoSlotClash => IInv)`, where
  `NoSlotClash` says that no two threads of the team share a buffer; the second
  team of the run shows that it is needed. `IInv` adds to the types: bodies run
  only on indices of the current frontier and stand on an edge of the vertex
  they explore (`Control`); entries in use are distinct visited vertices, across
  the frontier and all buffers (`Entries`); a vertex between its CAS and the
  increment of `next` is visited, in no buffer and in flight once, and the
  registers of `push` agree with memory (`InFlight`). `FrontierIsDistinct`
  follows, and that no body gets to `Stray`.
* `RefinesLevels` (`BfsPushProofs`): `SafeSpec => ImplementsLevels`. During
  a level the mapping hides what is claimed; `Join` is the step of the abstract
  search, all else stutters. It needs `Progress`: an index of the frontier is
  unassigned, in a body's rest, or has only visited neighbours.
* `FindsReachable` (`VisitedIsReachable`) combines the two.
* `BfsModesProofs` is about `bfs_pull` and `bfs_pushpull` and has five layers,
  each inductive with those before it.
  1. `IInv`: during a sweep the next frontier is not empty exactly if `cont` is
     set or some body still holds its news in `local_cont` (`News`); that no news
     is left when the bodies have ended, and none from the sweep before, is what
     `Bodies` adds. Gives `SweepsNoticeFinds` (`ContIsExact`).
  2. `PushInv`: a body of the push loop is at an edge of the vertex its index
     selects (`Rows`); frontier, next frontier and the vertices about to be
     appended are distinct and visited (`Claims`). Gives `TypesHold` (`TypeOK`).
  3. `CountInv`: an index is pending or owned by one body (`Sharing`), so
     `explored`, the bodies' sums and the degrees of what is left (`Left`) add up
     to the degrees of the vertices visited when the level began (`Sums`). With
     the fact that all degrees together are `NB_EDGES`, which follows from the
     offsets by induction, gives `HeuristicHolds` (`HeuristicExact`).
  4. `SearchInv`: nothing but reachable vertices is visited, unless stray memory
     steers the pull loop (`Sound`); only the frontier has successors that are
     not visited, and none once a body is done with a vertex (`PushFinds`); a
     vertex the sweep is done with is visited or has no in-neighbour in the
     frontier (`PullFinds`); the process is killed at a vertex that was not
     visited (`FaultInv`). Gives `TraversalsAreCorrect` (`VisitedIsReachable`)
     and `HybridRunsWithoutInEdges` (`HybridNeedsNoInEdges`).
  5. Every step maps to a level of the abstract search or to a stutter:
     `RefinesLevels` (`ImplementsLevels`). The next level is what the bodies
     claimed, which by layer 4 is all new neighbours and nothing else.
* `LoaderProofs` has three layers.
  1. `IInv`: the words in memory are those of the file as far as it was read
     (`Reading`); an edge is pending, ahead of one body, or done (`Bodies`). It
     assumes nothing of `malloc` and gives `WholeFile` (`ReadsWholeFile`).
  2. `Counting`: the degree arrays count the edges whose bodies are past the
     increment (`Past`); `sum_degree` turns them into the offsets of the rows
     (`OffsetsOf`), and its assertion says that every end is a vertex.
  3. `Placing`: each counter has given different ranks, without gaps, to the
     edges that claimed a slot, the stored ones lie at their ranks, and every
     other slot is unwritten (`Placed`).

  The last two assume that `malloc` returns cleared degree arrays (`Cleared`;
  the run `loader_malloc` shows that it is needed) and that no vertex has more
  edges than its 32-bit counter can count (`RowsFit`). They give `TypesHold`
  (`TypeOK`), `SlotsExclusive` (`SlotsAreExclusive`) and `LoadsTheFile`
  (`GraphIsFile`): when every edge is past its stores, the ranks of a row are a
  bijection onto its slots, so a row holds each end as often as the file does,
  every slot belongs to a row, and the two directions agree. The binaries of the
  run `loader` satisfy both assumptions, one of them with a row that has exactly
  `CounterModulus` edges.
* `TypeCorrect` and `Holds` (`ToolProofs`): `BarrierHolds` if `count` is the
  number of threads (`AllThreads`), as after a `barrier_init` with all of them,
  for any number of crossings. `bw` makes no such call; for the `count` of 0 that
  its barrier has, `Holds` says that nobody is ever blocked or counted. The releases a thread has
  seen, its arrivals less the one it is blocked in, are the same number for all
  threads: an arrival that blocks leaves it alone, and the one that releases
  finds, by the count, all others blocked. Type correctness needs neither the
  count nor the absence of spurious wakeups, and neither does `Counts`
  (`CrossedCounts`): `crossed` is the number of all arrivals modulo `count`,
  and the number of blocked threads unless one wakes spuriously.
* `FaultCauses` and `PrintsASize` (`BenchmarkProofs`): `FaultsExplained` needs
  that the collector only looks at opened events (`SetUp`) and that `SYMMETRIC`
  is what the options say, for every `-t` and `-v` that is not negative and every
  `given`; `PrintedWasHeld` that the elements are moved only
  when more than the reserved ones are there (`Moved`) and that a half-read size
  is no more than the current one (`HalfRead`).
* `TakesEachSampleOnce` (`BenchmarkProofs`): `EachSampleOnce` for rings of any
  size. `Ring` says that the records in a ring follow one another without gaps,
  and that `data_tail` is at the end of one of them, which is how many the
  collector has consumed.
* `Relabels` (`ReorderProofs`): `OutputIsRelabelling`. The number of the j-th
  vertex of the order has a closed form, j or j+1 depending on whether 0 came
  before; it is injective and, because the order is onto (counting again), never
  `NB_NODES`. Of `std::sort` nothing but that it permutes is used, so the degrees
  do not matter, wrapped or not. An edge list with an id that is no vertex never
  gets to the output (`Strays`).
* `Sorts` (`ReorderProofs`): `OutputIsSorted`. Degrees that start at zero are
  counted exactly modulo `CounterModulus` (`Counted`), hence exactly when the
  output has no larger one; the order follows them (`Ordered`), and the
  numbers rise along the order except for vertex 0.

* `ExactAdds` (`PageRankProofs`): `AddsAreExact`. A vertex is pending, ahead of
  one body, or done (`Sharing`), and with the place `beg` of a body in its row
  this says which edges have been added. A compare-and-swap that succeeds adds
  one more of them, to the value that is there, even if the sum has come back
  to the value loaded (`PropModulus` is any number above 4); sums are taken
  over sets of edges with the lemmas of `SumLemmas`.
* `RefinesRounds` (`PageRankProofs`): `ImplementsRounds`. The last step of a
  round maps to a round of `PageRounds`, all else stutters; `Contents` says
  which entries the second loop has reset and halved so far.
* `BwTypeCorrect`, `CoversAccesses` (`WindowCoversAccesses`), `StartsInPartition`
  (`StartsBeforeEnd`) and `DeadRunsStay` (`DeadRunsBlock`) in `ToolProofs`, for
  any number of threads and any command line. `BwInv` says which threads can
  exist where `main` is (`MainInv`), that the arguments of every thread are what
  `create_thread_info` computed (`PreparedInv`), that stamps are read off a
  counter that only grows (`Stamped`), and that an access goes to a block from 0
  to `access_count` (`LocatedInv`: a masked number is at most the mask). Block
  `access_count` starts no further than the end because the partition is cut
  into whole blocks. Nothing is needed of the barrier: the reported interval is
  right because `main` has joined every thread.
* `LinksOneCycle` (`OneCycle`) and `WalksEvenly` (`WalkIsEven`) in `ToolProofs`:
  the entries up to `i` are linked in the order of `indices` (`Linked`), which is
  a permutation (counting); a set that is closed under the links is closed
  under the step from place to place of that order, hence everything. The visits
  are one number plus one for the places the last lap has passed (`Walked`).
* `ScriptRelabels` (`OutputIsRelabelling`) and `ScriptSorts` (`OutputIsSorted`)
  in `ToolProofs`: `GoodNumbers` (injective, without gaps, 0 kept for vertex 0
  with `-m`) holds through both loops that number vertices; the first
  gives rising numbers along the sorted order, and what the second numbers
  comes behind (`Rising`); the degrees the sort used are counts of edges
  (`ReadSoFar`), which the renaming carries over to the output.

The MC modules instantiate the same definitions the proofs are about.

Assumptions on constants are named where they are declared; those the proofs
added are that the set of threads is finite (`TaskArena`, `Barrier`), that edge
lists are (`Reorder`), and the types of the command lines (`Bw`, `PointerChase`,
`Degree`) and of `Node` ids, sizes and moduli.

The prover cannot use an induction theorem with an operator as a parameter.
Where the proofs need induction over numbers or finite sets (sums, prefix sums,
degrees) they state it for the *set* of the values that have the property
(`NatSetInduction`, `SubsetInduction`, from the well-foundedness of `<`).

Only model-checked:

* all liveness (`Termination`, `MainEnds`, `EveryoneCrosses`, `RunEnds`,
  `PrEnds`): liveness under fairness and `ENABLED` are outside the prover;
* that `Masked` is the bitwise and: TLC evaluates `MaskAssumption` of `MCBw` on
  the numbers of the run. The proofs use only that the result is no more than
  the mask, and need no `Bitwise`, whose recursive operators the prover does not
  accept.

## Not modelled

* Timing, the clock frequency, cache flushes, the text that is printed: input
  and output without state of interest. The PMEM builds.
* `write_hub`, `write_seq`, `write_random` of `bw`, `perf_count_setup` and
  `count_degree_0_sequential` are called by nobody; `pr_pull` and
  `cas_chase_success` are empty.
* The option parsing of `bw`, `reorder` and `pointer_chasing`: their models start
  from the parsed options. The loop around `read` in `reorder` has the text of
  the loader's, where it is modelled step by step; in `Reorder` it is one step.
* A negative `-t` or `-v` of the benchmark, a `malloc` that fails (but for
  `pointer_chasing`, whose size decides it), runs of `bw` with different `-p`.
* The files CMake generated under `pointer_chasing/CMakeFiles` are no part of
  the program.

## Plan

Everything the programs do with state is modelled, and every safety property the
runs check has a theorem. What could follow: `write_hub` and its threads once
`main` calls them, `pr_pull` once it has a body, and the theorems of `Loader`
without its two assumptions as soon as the code clears the degree arrays.

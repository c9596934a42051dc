---------------------------- MODULE LoaderProofs ----------------------------
(***************************************************************************)
(* Proofs about create_graph, for every set of binaries, number of         *)
(* vertices and number of threads.  Three layers, each inductive with      *)
(* those before it: what was read and which edges the bodies have ahead of *)
(* them (IInv), the degrees and their prefix sums (Counting), and the      *)
(* placement of the edges (Placing).                                       *)
(***************************************************************************)
EXTENDS Loader, SumLemmas

-----------------------------------------------------------------------------
(* The read loop and the bodies of the parallel loops. *)

Labels == {"idle", "count_out", "count_in", "claim_out", "store_out", "claim_in", "store_in"}

\* The words in memory are those of the file, as far as it was read.
Reading ==
  /\ file \in Files /\ symmetric \in BOOLEAN /\ cut \in BOOLEAN
  /\ cursor \in Nat /\ count \in Nat /\ fpos \in Nat
  /\ cursor + count = file.st_size
  /\ edges \in [WordNr -> Nat \cup {Uninit}]
  /\ \A k \in WordNr : edges[k] \in {file.words[k], Uninit}
  /\ main \in {"read", "die", "count", "assert", "undefined", "create", "done"}
  /\ main = "read" => /\ fpos = cursor
                      /\ \A k \in WordNr : k < cursor => edges[k] = file.words[k]
  /\ main \notin {"read", "die"} => cut \/ edges = file.words
  /\ main = "undefined" => cut \/ \E k \in WordNr : file.words[k] > NB_NODES

\* The edges body t has not finished.
Ahead(t) == IF pc[t] = "idle" THEN {} ELSE idx[t] .. stop[t] - 1

\* An edge is pending, or ahead of one body, or done.
Bodies ==
  /\ pending \in SUBSET EdgeNr /\ pc \in [Thread -> Labels]
  /\ idx \in [Thread -> Nat] /\ stop \in [Thread -> Nat]
  /\ main \notin {"count", "create"} => ParallelForEnds(pending, pc)
  /\ \A t \in Thread :
       /\ pc[t] \in {"count_out", "count_in"} => main = "count"
       /\ pc[t] \in {"claim_out", "store_out", "claim_in", "store_in"} => main = "create"
       /\ pc[t] \in {"count_in", "claim_in", "store_in"} => symmetric
       /\ pc[t] # "idle" => idx[t] <= stop[t] /\ stop[t] <= NB_EDGES
       /\ pc[t] \in {"count_in", "store_out", "claim_in", "store_in"} => idx[t] < stop[t]
       /\ Ahead(t) \cap pending = {}
       /\ \A u \in Thread : u # t => Ahead(t) \cap Ahead(u) = {}

IInv == Reading /\ Bodies

-----------------------------------------------------------------------------
\* The indices of words and edges.
LEMMA FileFacts ==
  ASSUME file \in Files
  PROVE  /\ file.st_size \in Nat /\ NB_EDGES \in Nat /\ file.st_size = 2 * NB_EDGES
         /\ file.words \in [WordNr -> Nat] /\ WordNr \subseteq Nat /\ EdgeNr \subseteq Nat
         /\ \A i \in EdgeNr : 2 * i \in WordNr /\ 2 * i + 1 \in WordNr
         /\ IsFiniteSet(EdgeNr) /\ Cardinality(EdgeNr) = NB_EDGES
<1>1. /\ file.st_size \in Nat /\ file.st_size % 2 = 0
      /\ file.words \in [WordNr -> Nat]
  BY FilesAssumption DEF WordNr
<1>2. NB_EDGES \in Nat /\ file.st_size = 2 * NB_EDGES
  BY <1>1 DEF NB_EDGES
<1>3. \A i \in EdgeNr : 2 * i \in WordNr /\ 2 * i + 1 \in WordNr
  BY <1>2 DEF EdgeNr, WordNr
<1>4. IsFiniteSet(EdgeNr) /\ Cardinality(EdgeNr) = NB_EDGES
  <2>1. 0 \in Int /\ NB_EDGES - 1 \in Int
    BY <1>2
  <2>2. /\ IsFiniteSet(0 .. NB_EDGES - 1)
        /\ Cardinality(0 .. NB_EDGES - 1) = IF 0 > NB_EDGES - 1 THEN 0 ELSE (NB_EDGES - 1) - 0 + 1
    BY ONLY <2>1, FS_Interval
  <2> QED BY <1>2, <2>2 DEF EdgeNr
<1>5. WordNr \subseteq Nat /\ EdgeNr \subseteq Nat
  BY <1>1, <1>2 DEF EdgeNr, WordNr
<1> QED BY <1>1, <1>2, <1>3, <1>4, <1>5

\* Nothing is read, and no body runs.
LEMMA InitInv == Init => IInv
<1> SUFFICES ASSUME Init PROVE IInv
  OBVIOUS
<1>1. file \in Files /\ symmetric \in BOOLEAN
  BY SymmetricAssumption DEF Init
<1>2. file.st_size \in Nat /\ WordNr \subseteq Nat /\ 0 + file.st_size = file.st_size
  BY <1>1, FileFacts
<1>3. edges \in [WordNr -> Nat \cup {Uninit}] /\ \A k \in WordNr : edges[k] = Uninit /\ ~(k < 0)
  BY <1>2 DEF Init
<1>4. Reading
  BY <1>1, <1>2, <1>3 DEF Init, Reading
<1>5. Bodies
  BY DEF Init, Bodies, Labels, Ahead, ParallelForEnds
<1> QED BY <1>4, <1>5 DEF IInv

\* Reading is over, or it is not concerned.
LEMMA ReadingSame ==
  ASSUME Reading, UNCHANGED <<file, symmetric, fpos, edges, cursor, count, cut>>,
         \/ main' = main
         \/ main = "read" /\ main' = "die"
         \/ main \notin {"read", "die"} /\ main' \in {"assert", "create", "done"}
  PROVE  Reading'
BY DEF Reading, WordNr

\* The steps of the main thread in which it is alone.
LEMMA AloneBodies ==
  ASSUME IInv, file' = file, UNCHANGED <<pc, locals>>, ParallelForEnds(pending, pc),
         \/ pending' = pending
         \/ pending' = EdgeNr /\ main' \in {"count", "create"}
  PROVE  Bodies'
<1>1. \A t \in Thread : pc'[t] = "idle" /\ Ahead(t)' = {}
  BY DEF ParallelForEnds, Ahead
<1>2. pending' \in SUBSET EdgeNr /\ EdgeNr' = EdgeNr
  BY DEF IInv, Bodies, EdgeNr, NB_EDGES
<1>3. main' \notin {"count", "create"} => ParallelForEnds(pending', pc')
  BY DEF ParallelForEnds
<1> QED BY <1>1, <1>2, <1>3 DEF IInv, Bodies, locals

\* A read adds the words behind those already read.
LEMMA ReadInv == ASSUME IInv, Read PROVE IInv'
<1>1. PICK sz \in 0 .. count :
        /\ sz = 0 <=> cut \/ count = 0
        /\ edges' = [k \in WordNr |-> IF k \in cursor .. cursor + sz - 1
                                        THEN file.words[fpos + k - cursor] ELSE edges[k]]
        /\ fpos' = fpos + sz
        /\ IF LastRead(sz)
             THEN /\ main' = "count" /\ pending' = EdgeNr
                  /\ UNCHANGED <<cursor, count>>
             ELSE /\ cursor' = CursorAfter(sz) /\ count' = count - sz
                  /\ UNCHANGED <<main, pending>>
  BY DEF Read
<1>2. /\ main = "read" /\ fpos = cursor /\ UNCHANGED <<file, symmetric, cut, pc, locals>>
      /\ cursor \in Nat /\ count \in Nat /\ sz \in Nat /\ cursor + count = file.st_size
  BY DEF Read, IInv, Reading
<1>3. /\ file \in Files /\ WordNr' = WordNr /\ WordNr \subseteq Nat
      /\ file.words \in [WordNr -> Nat] /\ \A k \in WordNr : k < file.st_size
  BY <1>2, FileFacts DEF IInv, Reading, WordNr
<1>4. \A k \in WordNr : edges'[k] = IF k \in cursor .. cursor + sz - 1 THEN file.words[k] ELSE edges[k]
  BY <1>1, <1>2, <1>3
<1>5. /\ edges' \in [WordNr -> Nat \cup {Uninit}]
      /\ \A k \in WordNr : edges'[k] \in {file.words[k], Uninit}
  BY <1>1, <1>3, <1>4 DEF IInv, Reading
<1>6. \A k \in WordNr : k < cursor + sz => edges'[k] = file.words[k]
  BY <1>2, <1>3, <1>4 DEF IInv, Reading
<1>7. CASE LastRead(sz)
  <2>1. cut \/ sz = count
    BY <1>1, <1>7 DEF LastRead
  <2>2. ASSUME sz = count PROVE edges' = file.words
    <3>1. \A k \in WordNr : edges'[k] = file.words[k]
      BY <1>2, <1>3, <1>6, <2>2
    <3>2. edges' = [k \in WordNr |-> edges'[k]] /\ file.words = [k \in WordNr |-> file.words[k]]
      BY ONLY <1>3, <1>5
    <3> QED BY ONLY <3>1, <3>2
  <2>3. Reading'
    BY <1>1, <1>2, <1>3, <1>5, <1>7, <2>1, <2>2 DEF IInv, Reading
  <2>4. Bodies'
    BY <1>1, <1>2, <1>7, AloneBodies DEF IInv, Bodies
  <2> QED BY <2>3, <2>4 DEF IInv
<1>8. CASE ~LastRead(sz)
  <2>1. Reading'
    BY <1>1, <1>2, <1>3, <1>5, <1>6, <1>8 DEF IInv, Reading, CursorAfter
  <2>2. Bodies'
    BY <1>1, <1>2, <1>8, AloneBodies DEF IInv, Bodies
  <2> QED BY <2>1, <2>2 DEF IInv
<1> QED BY <1>7, <1>8

\* The other steps of the main thread, and those of others while it reads.
LEMMA MainInv ==
  ASSUME IInv, ReadFails \/ Truncate \/ SumDegree \/ CreateJoin PROVE IInv'
<1>1. CASE ReadFails
  <2>1. Reading'
    BY <1>1, ReadingSame DEF IInv, ReadFails, input
  <2>2. Bodies'
    BY <1>1, AloneBodies DEF IInv, Bodies, ReadFails, input
  <2> QED BY <2>1, <2>2 DEF IInv
<1>2. CASE Truncate
  <2>1. Reading'
    BY <1>2 DEF IInv, Reading, Truncate, WordNr
  <2>2. Bodies'
    BY <1>2, AloneBodies DEF IInv, Bodies, Truncate
  <2> QED BY <2>1, <2>2 DEF IInv
<1>3. CASE SumDegree
  <2>1. Reading'
    BY <1>3, ReadingSame DEF IInv, SumDegree, input
  <2>2. Bodies'
    BY <1>3, AloneBodies DEF IInv, SumDegree, input, CreateLoop
  <2> QED BY <2>1, <2>2 DEF IInv
<1>4. CASE CreateJoin
  <2>1. Reading'
    BY <1>4, ReadingSame DEF IInv, CreateJoin, input
  <2>2. Bodies'
    BY <1>4, AloneBodies DEF IInv, CreateJoin, input
  <2> QED BY <2>1, <2>2 DEF IInv
<1> QED BY <1>1, <1>2, <1>3, <1>4

\* A thread is given a range.
LEMMA TakeInv == ASSUME IInv, NEW t \in Thread, TakeRange(t) PROVE IInv'
<1>1. PICK r \in Ranges(pending) :
        /\ pending' = pending \ (r[1] .. r[2] - 1)
        /\ idx' = [idx EXCEPT ![t] = r[1]]
        /\ stop' = [stop EXCEPT ![t] = r[2]]
  BY DEF TakeRange
<1> DEFINE b == IF main = "count" THEN "count_out" ELSE "claim_out"
<1>2. /\ main \in {"count", "create"} /\ pc[t] = "idle" /\ pc' = [pc EXCEPT ![t] = b]
      /\ UNCHANGED <<input, main>>
  BY DEF TakeRange, Goto
<1>3. /\ pending \in SUBSET EdgeNr /\ EdgeNr \subseteq Nat /\ NB_EDGES \in Nat
      /\ EdgeNr' = EdgeNr /\ NB_EDGES' = NB_EDGES /\ symmetric' = symmetric
  BY <1>2, FileFacts DEF IInv, Reading, Bodies, EdgeNr, NB_EDGES, input
<1>4. r[1] \in pending /\ r[2] \in {k + 1 : k \in pending} /\ r[1] < r[2] /\ r[1] .. r[2] - 1 \subseteq pending
  BY DEF Ranges
<1>5. r[1] \in Nat /\ r[2] \in Nat /\ r[2] <= NB_EDGES
  <2>1. PICK k \in pending : r[2] = k + 1
    BY <1>4
  <2>2. k \in 0 .. NB_EDGES - 1 /\ r[1] \in Nat
    BY <1>3, <1>4 DEF EdgeNr
  <2> QED BY <1>3, <2>1, <2>2
<1>6. /\ Ahead(t)' = r[1] .. r[2] - 1
      /\ \A u \in Thread : u # t => /\ Ahead(u)' = Ahead(u) /\ pc'[u] = pc[u]
                                    /\ idx'[u] = idx[u] /\ stop'[u] = stop[u]
  BY <1>1, <1>2 DEF IInv, Bodies, Ahead
<1>7. Reading'
  BY <1>2, ReadingSame DEF IInv, input
<1>8. /\ pending' \in SUBSET EdgeNr' /\ pc' \in [Thread -> Labels]
      /\ idx' \in [Thread -> Nat] /\ stop' \in [Thread -> Nat]
      /\ pc'[t] = b /\ idx'[t] = r[1] /\ stop'[t] = r[2]
  BY <1>1, <1>2, <1>3, <1>5 DEF IInv, Bodies, Labels
<1>9. \A u \in Thread : /\ Ahead(u)' \cap pending' = {}
                        /\ \A w \in Thread : w # u => Ahead(u)' \cap Ahead(w)' = {}
  <2>1. Ahead(t)' \subseteq pending /\ Ahead(t)' \cap pending' = {} /\ pending' \subseteq pending
    BY <1>1, <1>4, <1>6
  <2>2. \A u \in Thread : u # t => Ahead(u)' = Ahead(u) /\ Ahead(u) \cap pending = {}
    BY <1>6 DEF IInv, Bodies
  <2>3. \A u, w \in Thread : w # u => Ahead(u) \cap Ahead(w) = {}
    BY DEF IInv, Bodies
  <2> QED BY <2>1, <2>2, <2>3
<1>10. Bodies'
  BY <1>2, <1>3, <1>4, <1>5, <1>6, <1>8, <1>9, SMTT(20) DEF IInv, Bodies
<1> QED BY <1>7, <1>10 DEF IInv

\* A body that ends has no edge ahead of it.
LEMMA EndInv == ASSUME IInv, NEW t \in Thread, EndRange(t) PROVE IInv'
<1>1. /\ pc[t] \in {"count_out", "claim_out"} /\ idx[t] = stop[t]
      /\ idx' = [idx EXCEPT ![t] = 0] /\ stop' = [stop EXCEPT ![t] = 0]
      /\ pc' = [pc EXCEPT ![t] = "idle"] /\ UNCHANGED <<input, main, pending>>
  BY DEF EndRange, Goto
<1>2. EdgeNr' = EdgeNr /\ NB_EDGES' = NB_EDGES /\ symmetric' = symmetric
  BY <1>1 DEF EdgeNr, NB_EDGES, input
<1>3. \A u \in Thread : Ahead(u)' = Ahead(u)
  BY <1>1 DEF IInv, Bodies, Ahead
<1>4. Reading'
  BY <1>1, ReadingSame DEF IInv, input
<1>5. Bodies'
  BY <1>1, <1>2, <1>3 DEF IInv, Bodies, Labels, ParallelForEnds
<1> QED BY <1>4, <1>5 DEF IInv

\* A body goes to label b, with the same edge or the next.
Moves(t, b) ==
  /\ pc[t] # "idle" /\ idx[t] < stop[t] /\ b \in Labels \ {"idle"}
  /\ pc' = [pc EXCEPT ![t] = b]
  /\ UNCHANGED <<file, symmetric, fpos, edges, cursor, count, cut, main, pending, stop>>
Stays(t, b) == Moves(t, b) /\ idx' = idx
Advances(t, b) == Moves(t, b) /\ idx' = [idx EXCEPT ![t] = @ + 1] /\ b \in {"count_out", "claim_out"}

\* A step of a body keeps the edges apart.
LEMMA MoveInv ==
  ASSUME IInv, NEW t \in Thread, NEW b, Stays(t, b) \/ Advances(t, b),
         b \in {"count_out", "count_in"} => main = "count",
         b \in {"claim_out", "store_out", "claim_in", "store_in"} => main = "create",
         b \in {"count_in", "claim_in", "store_in"} => symmetric
  PROVE  IInv'
<1>0. Moves(t, b)
  BY DEF Stays, Advances
<1>1. EdgeNr' = EdgeNr /\ NB_EDGES' = NB_EDGES
  BY <1>0 DEF EdgeNr, NB_EDGES, Moves
<1>2. /\ pc' \in [Thread -> Labels] /\ idx' \in [Thread -> Nat] /\ pc'[t] = b /\ b # "idle"
      /\ idx[t] \in Nat /\ stop[t] \in Nat
      /\ idx'[t] = idx[t] \/ (idx'[t] = idx[t] + 1 /\ b \in {"count_out", "claim_out"})
      /\ \A u \in Thread : u # t => pc'[u] = pc[u] /\ idx'[u] = idx[u]
  BY DEF Moves, Stays, Advances, IInv, Bodies
<1>3. \A u \in Thread : Ahead(u)' \subseteq Ahead(u)
  BY <1>0, <1>2 DEF Moves, Ahead
<1>4. Reading'
  BY <1>0, ReadingSame DEF IInv, Moves
<1>5. Bodies'
  <2>1. /\ pending' \in SUBSET EdgeNr' /\ stop' \in [Thread -> Nat]
        /\ main' \notin {"count", "create"} => ParallelForEnds(pending', pc')
    BY <1>0, <1>1, <1>2 DEF IInv, Bodies, Moves, ParallelForEnds
  <2>2. \A u \in Thread : /\ Ahead(u)' \cap pending' = {}
                          /\ \A w \in Thread : w # u => Ahead(u)' \cap Ahead(w)' = {}
    BY <1>0, <1>3 DEF IInv, Bodies, Moves
  <2>3. stop[t] <= NB_EDGES /\ idx'[t] <= stop[t] /\ (b \notin {"count_out", "claim_out"} => idx'[t] < stop[t])
    BY <1>0, <1>2 DEF IInv, Bodies, Moves
  <2> QED BY <1>0, <1>1, <1>2, <2>1, <2>2, <2>3 DEF IInv, Bodies, Moves
<1> QED BY <1>4, <1>5 DEF IInv

\* Where the accesses of a body lead.
LEMMA CountOutMoves ==
  ASSUME IInv, NEW t \in Thread, CountOut(t)
  PROVE  /\ main = "count" /\ pc[t] = "count_out"
         /\ IF symmetric THEN Stays(t, "count_in") ELSE Advances(t, "count_out")
BY DEF IInv, Bodies, CountOut, NextEdge, Goto, Moves, Stays, Advances, input, Labels

LEMMA CountInMoves ==
  ASSUME IInv, NEW t \in Thread, CountIn(t)
  PROVE  main = "count" /\ pc[t] = "count_in" /\ symmetric /\ Advances(t, "count_out")
BY DEF IInv, Bodies, CountIn, NextEdge, Goto, Moves, Advances, input, Labels

LEMMA ClaimOutMoves ==
  ASSUME IInv, NEW t \in Thread, ClaimOut(t)
  PROVE  main = "create" /\ pc[t] = "claim_out" /\ Stays(t, "store_out")
BY DEF IInv, Bodies, ClaimOut, Goto, Moves, Stays, input, Labels

LEMMA StoreOutMoves ==
  ASSUME IInv, NEW t \in Thread, StoreOut(t)
  PROVE  /\ main = "create" /\ pc[t] = "store_out"
         /\ IF symmetric THEN Stays(t, "claim_in") ELSE Advances(t, "claim_out")
BY DEF IInv, Bodies, StoreOut, NextEdge, Goto, Moves, Stays, Advances, input, Labels

LEMMA ClaimInMoves ==
  ASSUME IInv, NEW t \in Thread, ClaimIn(t)
  PROVE  main = "create" /\ pc[t] = "claim_in" /\ symmetric /\ Stays(t, "store_in")
BY DEF IInv, Bodies, ClaimIn, Goto, Moves, Stays, input, Labels

LEMMA StoreInMoves ==
  ASSUME IInv, NEW t \in Thread, StoreIn(t)
  PROVE  main = "create" /\ pc[t] = "store_in" /\ symmetric /\ Advances(t, "claim_out")
BY DEF IInv, Bodies, StoreIn, NextEdge, Goto, Moves, Advances, input, Labels

\* An end of an edge that is no index of a degree array is not in the file, or
\* too large.
LEMMA StrayInv == ASSUME IInv, NEW t \in Thread, CountStrays(t) PROVE IInv'
<1>1. /\ main' = "undefined" /\ pending' = {} /\ pc' = [u \in Thread |-> "idle"]
      /\ UNCHANGED <<input, locals>>
      /\ main = "count"
  BY DEF CountStrays, IInv, Bodies
<1>2. idx[t] \in EdgeNr /\ (Src(idx[t]) \notin Entries \/ Dst(idx[t]) \notin Entries)
  BY FileFacts DEF CountStrays, IInv, Reading, Bodies, EdgeNr
<1>3. PICK k \in WordNr : edges[k] \notin Entries
  BY <1>2, FileFacts DEF IInv, Reading, Src, Dst
<1>4. edges = file.words => file.words[k] > NB_NODES
  BY <1>3, FileFacts, NodesAssumption DEF IInv, Reading, Entries
<1>5. Reading'
  BY <1>1, <1>3, <1>4 DEF IInv, Reading, WordNr, input
<1>6. Bodies'
  BY <1>1 DEF IInv, Bodies, Labels, Ahead, ParallelForEnds, locals
<1> QED BY <1>5, <1>6 DEF IInv

\* Every step of a body is one of these.
LEMMA BodyInv == ASSUME IInv, NEW t \in Thread, BodyStep(t) PROVE IInv'
<1>1. CASE EndRange(t)
  BY <1>1, EndInv
<1>2. CASE CountOut(t)
  <2>1. CASE symmetric
    BY <1>2, <2>1, CountOutMoves, MoveInv
  <2>2. CASE ~symmetric
    BY <1>2, <2>2, CountOutMoves, MoveInv
  <2> QED BY <2>1, <2>2
<1>3. CASE CountIn(t)
  BY <1>3, CountInMoves, MoveInv
<1>4. CASE CountStrays(t)
  BY <1>4, StrayInv
<1>5. CASE ClaimOut(t)
  BY <1>5, ClaimOutMoves, MoveInv
<1>6. CASE StoreOut(t)
  <2>1. CASE symmetric
    BY <1>6, <2>1, StoreOutMoves, MoveInv
  <2>2. CASE ~symmetric
    BY <1>6, <2>2, StoreOutMoves, MoveInv
  <2> QED BY <2>1, <2>2
<1>7. CASE ClaimIn(t)
  BY <1>7, ClaimInMoves, MoveInv
<1>8. CASE StoreIn(t)
  BY <1>8, StoreInMoves, MoveInv
<1> QED BY <1>1, <1>2, <1>3, <1>4, <1>5, <1>6, <1>7, <1>8 DEF BodyStep

\* Nothing changes in a stuttering step.
LEMMA StutterInv == ASSUME IInv, UNCHANGED vars PROVE IInv'
<1>1. Reading'
  BY ReadingSame DEF IInv, vars, input
<1>2. Bodies'
  BY DEF IInv, Bodies, Ahead, EdgeNr, NB_EDGES, ParallelForEnds, vars, input, locals
<1> QED BY <1>1, <1>2 DEF IInv

\* The first layer is inductive.
LEMMA NextInv == ASSUME IInv, [Next]_vars PROVE IInv'
BY ReadInv, MainInv, TakeInv, BodyInv, StutterInv DEF Next, MainStep, Terminated

\* The read loop leaves the whole file in memory unless it was truncated; only
\* then, or when an id is too large, memory is used that is not there.  Nothing
\* is assumed of what malloc returns.
THEOREM WholeFile == SafeSpec => []ReadsWholeFile
<1>1. IInv => ReadsWholeFile
  BY DEF IInv, Reading, ReadsWholeFile
<1> QED BY <1>1, InitInv, NextInv, PTL DEF SafeSpec

-----------------------------------------------------------------------------
(* The degrees. *)

\* The edges whose body is past the steps before the labels L.
Past(L) == {i \in EdgeNr \ pending :
              \A t \in Thread : i \in Ahead(t) => i = idx[t] /\ pc[t] \in L}

\* What the bodies' steps make of it.  An edge a body stands at is its own.
LEMMA OwnEdge ==
  ASSUME IInv, NEW t \in Thread, pc[t] # "idle", idx[t] < stop[t]
  PROVE  /\ idx[t] \in EdgeNr /\ idx[t] \in Ahead(t)
         /\ \A L : idx[t] \in Past(L) <=> pc[t] \in L
         /\ \A u \in Thread : u # t => idx[t] \notin Ahead(u)
<1>1. /\ idx[t] \in Nat /\ stop[t] \in Nat /\ stop[t] <= NB_EDGES /\ NB_EDGES \in Nat
      /\ Ahead(t) \cap pending = {}
      /\ \A u \in Thread : u # t => Ahead(t) \cap Ahead(u) = {}
  BY FileFacts DEF IInv, Reading, Bodies
<1>2. idx[t] \in EdgeNr /\ idx[t] \in Ahead(t)
  BY <1>1 DEF EdgeNr, Ahead
<1>3. idx[t] \notin pending /\ \A u \in Thread : u # t => idx[t] \notin Ahead(u)
  BY <1>1, <1>2
<1>4. \A L : idx[t] \in Past(L) <=> pc[t] \in L
  BY <1>2, <1>3 DEF Past
<1> QED BY <1>2, <1>3, <1>4

\* A step before L or behind it leaves the edges past L as they are; one that
\* enters L adds the edge.
LEMMA PastStays ==
  ASSUME IInv, NEW t \in Thread, NEW b, NEW L,
         \/ Stays(t, b) /\ (pc[t] \in L <=> b \in L)
         \/ Advances(t, b) /\ pc[t] \in L /\ b \notin L
  PROVE  Past(L)' = Past(L)
<1>1. /\ EdgeNr' = EdgeNr /\ pending' = pending /\ stop' = stop /\ pc[t] # "idle"
      /\ idx[t] \in Nat /\ stop[t] \in Nat /\ pc'[t] = b /\ b # "idle"
      /\ \A u \in Thread : u # t => idx'[u] = idx[u] /\ pc'[u] = pc[u] /\ Ahead(u)' = Ahead(u)
  BY DEF Stays, Advances, Moves, EdgeNr, NB_EDGES, IInv, Bodies, Ahead
<1>2. \A k \in EdgeNr : (k \in Ahead(t)' => k = idx'[t] /\ b \in L)
                          <=> (k \in Ahead(t) => k = idx[t] /\ pc[t] \in L)
  <2>1. CASE Stays(t, b) /\ (pc[t] \in L <=> b \in L)
    BY <1>1, <2>1 DEF Stays, Ahead
  <2>2. CASE Advances(t, b) /\ pc[t] \in L /\ b \notin L
    <3>1. idx'[t] = idx[t] + 1
      BY <2>2 DEF Advances, IInv, Bodies
    <3>2. \A k \in EdgeNr : k \in Ahead(t)' <=> k \in Ahead(t) /\ k # idx[t]
      <4>1. EdgeNr \subseteq Nat
        BY FileFacts DEF IInv, Reading
      <4>2. Ahead(t) = idx[t] .. stop[t] - 1 /\ Ahead(t)' = idx[t] + 1 .. stop[t] - 1
        BY <1>1, <3>1 DEF Ahead
      <4> QED BY <1>1, <4>1, <4>2
    <3> QED BY <2>2, <3>2
  <2> QED BY <2>1, <2>2
<1>3. \A k \in EdgeNr : k \in Past(L)' <=> k \in Past(L)
  BY <1>1, <1>2 DEF Past
<1> QED BY <1>1, <1>3 DEF Past

LEMMA PastGrows ==
  ASSUME IInv, NEW t \in Thread, NEW b, NEW L, pc[t] \notin L,
         (Stays(t, b) /\ b \in L) \/ (Advances(t, b) /\ b \notin L)
  PROVE  Past(L)' = Past(L) \cup {idx[t]} /\ idx[t] \in EdgeNr \ Past(L)
<1>1. /\ EdgeNr' = EdgeNr /\ pending' = pending /\ stop' = stop /\ pc[t] # "idle"
      /\ idx[t] \in Nat /\ stop[t] \in Nat /\ pc'[t] = b /\ b # "idle" /\ idx[t] < stop[t]
      /\ \A u \in Thread : u # t => idx'[u] = idx[u] /\ pc'[u] = pc[u] /\ Ahead(u)' = Ahead(u)
  BY DEF Stays, Advances, Moves, EdgeNr, NB_EDGES, IInv, Bodies, Ahead
<1>2. \A k \in EdgeNr : (k \in Ahead(t)' => k = idx'[t] /\ b \in L)
                          <=> k = idx[t] \/ (k \in Ahead(t) => k = idx[t] /\ pc[t] \in L)
  <2>1. CASE Stays(t, b) /\ b \in L
    BY <1>1, <2>1 DEF Stays, Ahead
  <2>2. CASE Advances(t, b) /\ b \notin L
    <3>1. idx'[t] = idx[t] + 1
      BY <2>2 DEF Advances, IInv, Bodies
    <3>2. \A k \in EdgeNr : k \in Ahead(t)' <=> k \in Ahead(t) /\ k # idx[t]
      <4>1. EdgeNr \subseteq Nat
        BY FileFacts DEF IInv, Reading
      <4>2. Ahead(t) = idx[t] .. stop[t] - 1 /\ Ahead(t)' = idx[t] + 1 .. stop[t] - 1
        BY <1>1, <3>1 DEF Ahead
      <4> QED BY <1>1, <4>1, <4>2
    <3> QED BY <2>2, <3>2
  <2> QED BY <2>1, <2>2
<1>3. /\ idx[t] \in EdgeNr \ Past(L) /\ idx[t] \notin pending
      /\ \A u \in Thread : u # t => idx[t] \notin Ahead(u)
  BY <1>1, OwnEdge DEF IInv, Bodies
<1>4. \A k \in EdgeNr : k \in Past(L)' <=> k = idx[t] \/ k \in Past(L)
  BY <1>1, <1>2, <1>3 DEF Past
<1> QED BY <1>1, <1>3, <1>4 DEF Past

\* Nothing is done when the loop starts, and all when it ends; taking a range
\* and ending it does nothing.
LEMMA PastBounds ==
  ASSUME NEW L
  PROVE  /\ Past(L) \subseteq EdgeNr
         /\ pending = EdgeNr => Past(L) = {}
         /\ ParallelForEnds(pending, pc) => Past(L) = EdgeNr
BY DEF Past, ParallelForEnds, Ahead

\* Taking and ending a range adds none.
LEMMA PastTake ==
  ASSUME IInv, NEW t \in Thread, TakeRange(t), NEW L, "count_out" \notin L, "claim_out" \notin L
  PROVE  Past(L)' = Past(L)
<1>1. PICK r \in Ranges(pending) :
        /\ pending' = pending \ (r[1] .. r[2] - 1)
        /\ idx' = [idx EXCEPT ![t] = r[1]]
        /\ stop' = [stop EXCEPT ![t] = r[2]]
  BY DEF TakeRange
<1>2. /\ pc[t] = "idle" /\ pc'[t] \in {"count_out", "claim_out"} /\ EdgeNr' = EdgeNr
      /\ Ahead(t) = {} /\ Ahead(t)' = r[1] .. r[2] - 1 /\ r[1] .. r[2] - 1 \subseteq pending
      /\ \A u \in Thread : u # t => idx'[u] = idx[u] /\ pc'[u] = pc[u] /\ Ahead(u)' = Ahead(u)
  BY <1>1 DEF TakeRange, Goto, EdgeNr, NB_EDGES, input, IInv, Bodies, Ahead, Ranges
<1>3. \A k \in EdgeNr : k \in pending <=> k \in pending' \/ k \in Ahead(t)'
  BY <1>1, <1>2
<1>4. \A k \in EdgeNr : k \in Past(L)' <=> k \in Past(L)
  <2> SUFFICES ASSUME NEW k \in EdgeNr PROVE k \in Past(L)' <=> k \in Past(L)
    OBVIOUS
  <2>1. k \in Past(L)' <=> /\ k \notin pending' /\ k \notin Ahead(t)'
                           /\ \A u \in Thread \ {t} : k \in Ahead(u) => k = idx[u] /\ pc[u] \in L
    BY <1>2 DEF Past
  <2>2. k \in Past(L) <=> /\ k \notin pending
                          /\ \A u \in Thread \ {t} : k \in Ahead(u) => k = idx[u] /\ pc[u] \in L
    BY <1>2 DEF Past
  <2> QED BY <1>3, <2>1, <2>2
<1> QED BY <1>2, <1>4 DEF Past

LEMMA PastEnd ==
  ASSUME IInv, NEW t \in Thread, EndRange(t), NEW L
  PROVE  Past(L)' = Past(L)
<1>1. /\ pending' = pending /\ EdgeNr' = EdgeNr /\ Ahead(t) = {} /\ Ahead(t)' = {}
      /\ \A u \in Thread : u # t => idx'[u] = idx[u] /\ pc'[u] = pc[u] /\ Ahead(u)' = Ahead(u)
  BY DEF EndRange, Goto, EdgeNr, NB_EDGES, input, IInv, Bodies, Ahead
<1>2. \A k \in EdgeNr : k \in Past(L)' <=> k \in Past(L)
  BY <1>1 DEF Past
<1> QED BY <1>1, <1>2 DEF Past

Sources == [i \in EdgeNr |-> Src(i)]
Targets == [i \in EdgeNr |-> Dst(i)]

\* The edges of C that belong to vertex v, how many there are for each vertex,
\* and for all vertices before it.
Row(C, key, v) == {i \in C : key[i] = v}
DegreesOf(C, key) == [v \in Entries |-> Cardinality(Row(C, key, v))]
OffsetsOf(C, key) == [v \in Entries |-> Cardinality({i \in C : key[i] \in 0 .. v - 1})]
Zeros == [v \in Entries |-> 0]

\* Rows and their sizes.
LEMMA RowFinite ==
  ASSUME NEW C, IsFiniteSet(C), NEW key, NEW v
  PROVE  IsFiniteSet(Row(C, key, v)) /\ Cardinality(Row(C, key, v)) \in Nat
<1>1. Row(C, key, v) \in SUBSET C
  BY DEF Row
<1>2. IsFiniteSet(Row(C, key, v))
  BY ONLY <1>1, IsFiniteSet(C), FS_Subset
<1> QED BY ONLY <1>2, FS_CardinalityType

\* One more edge makes the row of its vertex one longer.
LEMMA RowUp ==
  ASSUME NEW C, IsFiniteSet(C), NEW j, j \notin C, NEW key, NEW v
  PROVE  Cardinality(Row(C \cup {j}, key, v))
           = IF key[j] = v THEN Cardinality(Row(C, key, v)) + 1 ELSE Cardinality(Row(C, key, v))
<1>1. IsFiniteSet(Row(C, key, v)) /\ j \notin Row(C, key, v)
  <2>1. IsFiniteSet(Row(C, key, v))
    BY RowFinite
  <2>2. j \notin Row(C, key, v)
    BY DEF Row
  <2> QED BY <2>1, <2>2
<1>2. CASE key[j] = v
  <2>1. Row(C \cup {j}, key, v) = Row(C, key, v) \cup {j}
    BY <1>2 DEF Row
  <2>2. Cardinality(Row(C, key, v) \cup {j}) = Cardinality(Row(C, key, v)) + 1
    BY ONLY <1>1, FS_AddElement
  <2> QED BY ONLY <1>2, <2>1, <2>2
<1>3. CASE key[j] # v
  <2>1. Row(C \cup {j}, key, v) = Row(C, key, v)
    BY <1>3 DEF Row
  <2> QED BY <1>3, <2>1
<1> QED BY <1>2, <1>3

\* One more edge counts its vertex up.
LEMMA DegreeUp ==
  ASSUME NEW C, IsFiniteSet(C), NEW j, j \notin C, NEW key, key[j] \in Entries
  PROVE  DegreesOf(C \cup {j}, key) = [DegreesOf(C, key) EXCEPT ![key[j]] = @ + 1]
<1> DEFINE d == DegreesOf(C, key)
           e == DegreesOf(C \cup {j}, key)
<1>1. /\ d = [v \in Entries |-> d[v]] /\ e = [v \in Entries |-> e[v]]
      /\ \A v \in Entries : /\ d[v] = Cardinality(Row(C, key, v))
                             /\ e[v] = Cardinality(Row(C \cup {j}, key, v))
  BY DEF DegreesOf
<1>2. \A v \in Entries : e[v] = IF key[j] = v THEN d[v] + 1 ELSE d[v]
  BY <1>1, RowUp
<1> HIDE DEF d, e
<1>3. e = [d EXCEPT ![key[j]] = @ + 1]
  BY <1>1, <1>2
<1> QED BY <1>3 DEF d, e

LEMMA DegreeTypes ==
  ASSUME NEW C, IsFiniteSet(C), NEW key PROVE DegreesOf(C, key) \in [Entries -> Nat]
BY RowFinite DEF DegreesOf

\* Without edges all degrees are zero.
LEMMA DegreesOfNone == ASSUME NEW key PROVE DegreesOf({}, key) = Zeros
<1>1. \A v : Cardinality(Row({}, key, v)) = 0
  BY FS_EmptySet DEF Row
<1> QED BY <1>1 DEF DegreesOf, Zeros

\* The offsets rise by the sizes of the rows, to the number of edges that
\* belong to a vertex.
LEMMA OffsetFacts ==
  ASSUME NEW E, IsFiniteSet(E), NEW key
  PROVE  LET off == OffsetsOf(E, key) IN
         /\ off \in [Entries -> Nat] /\ off[0] = 0
         /\ \A v \in Node : off[v + 1] = off[v] + Cardinality(Row(E, key, v))
         /\ \A v, w \in Entries : v <= w => off[v] <= off[w]
         /\ \A v \in Entries : off[v] <= Cardinality(E)
         /\ off[NB_NODES] = Cardinality(E) <=> \A j \in E : key[j] \in Node
<1> DEFINE Before(v) == {j \in E : key[j] \in 0 .. v - 1}
           off == OffsetsOf(E, key)
<1>1. \A v : Before(v) \in SUBSET E /\ IsFiniteSet(Before(v)) /\ Cardinality(Before(v)) \in Nat
             /\ Cardinality(Before(v)) <= Cardinality(E)
             /\ (Cardinality(E) = Cardinality(Before(v)) => E = Before(v))
  <2> SUFFICES ASSUME NEW v
               PROVE  /\ Before(v) \in SUBSET E /\ IsFiniteSet(Before(v)) /\ Cardinality(Before(v)) \in Nat
                      /\ Cardinality(Before(v)) <= Cardinality(E)
                      /\ (Cardinality(E) = Cardinality(Before(v)) => E = Before(v))
    OBVIOUS
  <2>1. Before(v) \in SUBSET E
    OBVIOUS
  <2> HIDE DEF Before
  <2>2. /\ IsFiniteSet(Before(v)) /\ Cardinality(Before(v)) <= Cardinality(E)
        /\ (Cardinality(E) = Cardinality(Before(v)) => E = Before(v))
    BY ONLY <2>1, IsFiniteSet(E), FS_Subset
  <2>3. Cardinality(Before(v)) \in Nat
    BY ONLY <2>2, FS_CardinalityType
  <2> QED BY <2>1, <2>2, <2>3
<1>2. off = [v \in Entries |-> Cardinality(Before(v))]
  BY DEF OffsetsOf
<1>3. Before(0) = {}
  OBVIOUS
<1>4. \A v \in Node : /\ Before(v + 1) = Before(v) \cup Row(E, key, v)
                      /\ Before(v) \cap Row(E, key, v) = {}
  BY NodesAssumption DEF Node, Row
<1>5. \A v, w \in Entries : v <= w => Before(v) \subseteq Before(w)
  BY NodesAssumption DEF Entries
<1>6. Before(NB_NODES) = E <=> \A j \in E : key[j] \in Node
  BY DEF Node
<1>7. 0 \in Entries /\ NB_NODES \in Entries /\ \A v \in Node : v \in Entries /\ v + 1 \in Entries
  BY NodesAssumption DEF Entries, Node
<1> HIDE DEF Before
<1>8. off \in [Entries -> Nat]
  BY <1>1, <1>2
<1>9. off[0] = 0
  BY <1>2, <1>3, <1>7, FS_EmptySet
<1>10. ASSUME NEW v \in Node PROVE off[v + 1] = off[v] + Cardinality(Row(E, key, v))
  <2>1. /\ IsFiniteSet(Row(E, key, v)) /\ Cardinality(Row(E, key, v)) \in Nat
        /\ IsFiniteSet(Before(v)) /\ Cardinality(Before(v)) \in Nat
    BY <1>1, RowFinite
  <2>2. Cardinality(Before(v) \cup Row(E, key, v))
          = Cardinality(Before(v)) + Cardinality(Row(E, key, v)) - Cardinality(Before(v) \cap Row(E, key, v))
    BY ONLY <2>1, FS_Union
  <2>3. Cardinality(Before(v) \cap Row(E, key, v)) = 0
    <3>1. Before(v) \cap Row(E, key, v) = {}
      BY <1>4
    <3> QED BY ONLY <3>1, FS_EmptySet
  <2>4. off[v] = Cardinality(Before(v)) /\ off[v + 1] = Cardinality(Before(v + 1))
    BY <1>2, <1>7
  <2>5. Before(v + 1) = Before(v) \cup Row(E, key, v)
    BY <1>4
  <2>6. Cardinality(Before(v) \cup Row(E, key, v)) = Cardinality(Before(v)) + Cardinality(Row(E, key, v))
    BY ONLY <2>1, <2>2, <2>3
  <2> QED BY ONLY <2>4, <2>5, <2>6, Zenon
<1>11. ASSUME NEW v \in Entries, NEW w \in Entries, v <= w PROVE off[v] <= off[w]
  <2>1. Before(v) \in SUBSET Before(w) /\ IsFiniteSet(Before(w))
    BY <1>1, <1>5, <1>11
  <2>2. Cardinality(Before(v)) <= Cardinality(Before(w))
    BY ONLY <2>1, FS_Subset
  <2> QED BY <1>2, <2>2
<1>12. \A v \in Entries : off[v] <= Cardinality(E)
  BY <1>1, <1>2
<1>13. off[NB_NODES] = Cardinality(E) <=> \A j \in E : key[j] \in Node
  BY <1>1, <1>2, <1>6, <1>7
<1> HIDE DEF off
<1>14. /\ off \in [Entries -> Nat] /\ off[0] = 0
       /\ \A v \in Node : off[v + 1] = off[v] + Cardinality(Row(E, key, v))
       /\ \A v, w \in Entries : v <= w => off[v] <= off[w]
       /\ \A v \in Entries : off[v] <= Cardinality(E)
       /\ off[NB_NODES] = Cardinality(E) <=> \A j \in E : key[j] \in Node
  BY <1>8, <1>9, <1>10, <1>11, <1>12, <1>13
<1> QED BY <1>14 DEF off

\* The prefix sums of the degrees are the offsets of the rows.
LEMMA PrefixIs ==
  ASSUME NEW E, IsFiniteSet(E), NEW key
  PROVE  Prefix(DegreesOf(E, key)) = OffsetsOf(E, key)
<1> DEFINE d == DegreesOf(E, key)
           off == OffsetsOf(E, key)
           F(p) == [v \in 0 .. NB_NODES |-> IF v = 0 THEN 0 ELSE p[v - 1] + d[v - 1]]
<1>1. \A v \in 0 .. NB_NODES : v # 0 => v - 1 \in Node /\ v - 1 \in Entries /\ (v - 1) + 1 = v
  BY NodesAssumption DEF Node, Entries
<1>2. off = F(off)
  <2>1. off \in [Entries -> Nat] /\ off[0] = 0
        /\ \A v \in Node : off[v + 1] = off[v] + Cardinality(Row(E, key, v))
    BY OffsetFacts
  <2>2. \A v \in Entries : d[v] = Cardinality(Row(E, key, v))
    BY DEF DegreesOf
  <2> HIDE DEF off, d
  <2>3. \A v \in 0 .. NB_NODES : off[v] = IF v = 0 THEN 0 ELSE off[v - 1] + d[v - 1]
    BY <1>1, <2>1, <2>2
  <2> QED BY <2>1, <2>3 DEF Entries
<1> HIDE DEF off, d
<1>3. PICK p : p = F(p) /\ Prefix(d) = p
  BY <1>2 DEF Prefix
<1>4. 0 .. NB_NODES \subseteq {v \in 0 .. NB_NODES : p[v] = off[v]}
  <2> DEFINE A == {v \in 0 .. NB_NODES : p[v] = off[v]}
  <2>1. 0 \in 0 .. NB_NODES /\ NB_NODES \in Nat
    BY NodesAssumption
  <2>2. \A v \in 0 .. NB_NODES : /\ p[v] = IF v = 0 THEN 0 ELSE p[v - 1] + d[v - 1]
                                 /\ off[v] = IF v = 0 THEN 0 ELSE off[v - 1] + d[v - 1]
    BY <1>2, <1>3
  <2>3. 0 \in A
    BY <2>1, <2>2
  <2>4. \A k \in 0 .. NB_NODES - 1 : k \in A => k + 1 \in A
    BY <2>1, <2>2
  <2> HIDE DEF A
  <2>5. 0 .. NB_NODES \subseteq A
    BY ONLY <2>1, <2>3, <2>4, InductionUpTo
  <2> QED BY <2>5 DEF A
<1>5. p = [v \in 0 .. NB_NODES |-> p[v]] /\ off = [v \in 0 .. NB_NODES |-> off[v]]
  BY <1>2, <1>3
<1>6. p = off
  BY <1>4, <1>5
<1> QED BY <1>3, <1>6 DEF d, off

Counting ==
  /\ out_edge_offsets \in [Entries -> Nat] /\ in_edge_offsets \in [Entries -> Nat]
  /\ main \in {"read", "die"} => out_edge_offsets = Zeros /\ in_edge_offsets = Zeros
  /\ main = "count" =>
       /\ out_edge_offsets = DegreesOf(Past({"count_in"}), Sources)
       /\ \A i \in Past({"count_in"}) : Src(i) \in Entries
       /\ symmetric => /\ in_edge_offsets = DegreesOf(Past({}), Targets)
                       /\ \A i \in Past({}) : Dst(i) \in Entries
  /\ main \in {"create", "done"} =>
       /\ out_edge_offsets = OffsetsOf(EdgeNr, Sources)
       /\ \A i \in EdgeNr : Src(i) \in Node
       /\ symmetric => /\ in_edge_offsets = OffsetsOf(EdgeNr, Targets)
                       /\ \A i \in EdgeNr : Dst(i) \in Node

\* What the theorems below assume: the degree arrays come cleared from malloc,
\* and no vertex has more edges than its counter can count.
Cleared == MallocWords = {0}
RowsFit ==
  \A f \in Files : \A v \in Node : \A h \in {0, 1} :
    Cardinality({i \in 0 .. f.st_size \div 2 - 1 : f.words[2 * i + h] = v}) <= CounterModulus

\* The degree arrays start cleared.
LEMMA CountingInit == ASSUME Cleared, Init PROVE Counting
BY DEF Cleared, Init, Counting, Entries, Zeros

\* The keys are what was read.
LEMMA KeysSame ==
  ASSUME UNCHANGED <<file, edges>>
  PROVE  /\ EdgeNr' = EdgeNr /\ Sources' = Sources /\ Targets' = Targets
         /\ \A i : Src(i)' = Src(i) /\ Dst(i)' = Dst(i)
BY DEF Sources, Targets, Src, Dst, EdgeNr, NB_EDGES

\* The edges past a step are finitely many.
LEMMA PastFinite == ASSUME IInv, NEW L PROVE IsFiniteSet(Past(L))
<1>1. Past(L) \in SUBSET EdgeNr /\ IsFiniteSet(EdgeNr)
  BY PastBounds, FileFacts DEF IInv, Reading
<1> QED BY ONLY <1>1, FS_Subset

\* Steps that leave the degree arrays alone.
LEMMA CountingSame ==
  ASSUME Counting, UNCHANGED <<file, edges, symmetric, offsets>>,
         \/ main' = main /\ (main = "count" => /\ Past({"count_in"})' = Past({"count_in"})
                                               /\ Past({})' = Past({}))
         \/ main = "read" /\ main' = "die"
         \/ main = "create" /\ main' = "done"
         \/ main' = "undefined"
  PROVE  Counting'
<1>1. /\ EdgeNr' = EdgeNr /\ Sources' = Sources /\ Targets' = Targets
      /\ \A i : Src(i)' = Src(i) /\ Dst(i)' = Dst(i)
  BY KeysSame
<1>2. out_edge_offsets' = out_edge_offsets /\ in_edge_offsets' = in_edge_offsets
  BY DEF offsets
<1> QED BY <1>1, <1>2 DEF Counting

\* The counts start with no edge counted.
LEMMA ReadCounting == ASSUME IInv, Counting, Read PROVE Counting'
<1>1. /\ main = "read" /\ UNCHANGED <<file, offsets, symmetric>>
      /\ main' = "read" \/ (main' = "count" /\ pending' = EdgeNr)
  BY DEF Read
<1>2. main' = "count" => \A L : Past(L)' = {}
  <2>1. EdgeNr' = EdgeNr
    BY <1>1 DEF EdgeNr, NB_EDGES
  <2> QED BY <1>1, <2>1 DEF Past
<1>3. \A key : DegreesOf({}, key) = Zeros
  BY DegreesOfNone
<1>4. out_edge_offsets' = Zeros /\ in_edge_offsets' = Zeros /\ Zeros \in [Entries -> Nat]
  BY <1>1 DEF Counting, offsets, Zeros
<1> QED BY <1>1, <1>2, <1>3, <1>4 DEF Counting

\* sum_degree turns the degrees into the offsets of the rows; its assertion
\* says that every end is a vertex.
LEMMA SumCounting == ASSUME IInv, Counting, SumDegree PROVE Counting'
<1>1. /\ main = "count" /\ ParallelForEnds(pending, pc) /\ UNCHANGED <<file, edges, symmetric>>
      /\ out_edge_offsets' = Prefix(out_edge_offsets)
      /\ in_edge_offsets' = IF symmetric THEN Prefix(in_edge_offsets) ELSE in_edge_offsets
      /\ \/ main' = "assert"
         \/ /\ main' = "create" /\ Prefix(out_edge_offsets)[NB_NODES] = NB_EDGES
            /\ symmetric => Prefix(in_edge_offsets)[NB_NODES] = NB_EDGES
  BY DEF SumDegree, input
<1>2. /\ EdgeNr' = EdgeNr /\ Sources' = Sources /\ Targets' = Targets
      /\ \A i : Src(i)' = Src(i) /\ Dst(i)' = Dst(i)
  BY <1>1, KeysSame
<1>3. IsFiniteSet(EdgeNr) /\ Cardinality(EdgeNr) = NB_EDGES
  BY FileFacts DEF IInv, Reading
<1>4. Past({"count_in"}) = EdgeNr /\ Past({}) = EdgeNr
  BY <1>1, PastBounds
<1>5. Prefix(out_edge_offsets) = OffsetsOf(EdgeNr, Sources)
  BY <1>1, <1>3, <1>4, PrefixIs DEF Counting
<1>6. symmetric => Prefix(in_edge_offsets) = OffsetsOf(EdgeNr, Targets)
  BY <1>1, <1>3, <1>4, PrefixIs DEF Counting
<1>7. /\ OffsetsOf(EdgeNr, Sources) \in [Entries -> Nat] /\ OffsetsOf(EdgeNr, Targets) \in [Entries -> Nat]
      /\ OffsetsOf(EdgeNr, Sources)[NB_NODES] = NB_EDGES => \A j \in EdgeNr : Sources[j] \in Node
      /\ OffsetsOf(EdgeNr, Targets)[NB_NODES] = NB_EDGES => \A j \in EdgeNr : Targets[j] \in Node
  BY <1>3, OffsetFacts
<1>8. \A j \in EdgeNr : Sources[j] = Src(j) /\ Targets[j] = Dst(j)
  BY DEF Sources, Targets
<1>9. in_edge_offsets' \in [Entries -> Nat]
  BY <1>1, <1>6, <1>7 DEF Counting
<1> QED BY <1>1, <1>2, <1>5, <1>6, <1>7, <1>8, <1>9 DEF Counting

\* A body counts one edge more.
LEMMA CountOutCounting == ASSUME IInv, Counting, NEW t \in Thread, CountOut(t) PROVE Counting'
<1> DEFINE j == idx[t]
           C == Past({"count_in"})
<1>1. /\ main = "count" /\ pc[t] = "count_out" /\ j # stop[t] /\ Src(j) \in Entries
      /\ IF symmetric THEN Stays(t, "count_in") ELSE Advances(t, "count_out")
      /\ out_edge_offsets' = [out_edge_offsets EXCEPT ![Src(j)] = @ + 1]
      /\ in_edge_offsets' = in_edge_offsets /\ UNCHANGED <<file, edges, symmetric, main>>
  BY CountOutMoves DEF CountOut, input
<1>2. C' = C \cup {j} /\ j \in EdgeNr \ C
  <2>1. CASE symmetric
    BY <1>1, <2>1, PastGrows
  <2>2. CASE ~symmetric
    BY <1>1, <2>2, PastGrows
  <2> QED BY <2>1, <2>2
<1>3. symmetric => Past({})' = Past({})
  BY <1>1, PastStays
<1>4. /\ Sources' = Sources /\ Targets' = Targets /\ \A i : Src(i)' = Src(i) /\ Dst(i)' = Dst(i)
  BY <1>1, KeysSame
<1>5. Sources[j] = Src(j) /\ IsFiniteSet(C)
  BY <1>2, PastFinite DEF Sources
<1>6. DegreesOf(C \cup {j}, Sources) = [DegreesOf(C, Sources) EXCEPT ![Sources[j]] = @ + 1]
  BY <1>1, <1>2, <1>5, DegreeUp
<1> HIDE DEF C, j
<1>7. out_edge_offsets = DegreesOf(C, Sources) /\ out_edge_offsets \in [Entries -> Nat]
  BY <1>1 DEF Counting, C
<1>8. out_edge_offsets' = DegreesOf(C', Sources') /\ out_edge_offsets' \in [Entries -> Nat]
  BY <1>1, <1>2, <1>4, <1>5, <1>6, <1>7
<1>9. \A i \in C' : Src(i)' \in Entries
  BY <1>1, <1>2, <1>4 DEF Counting, C
<1> QED BY <1>1, <1>3, <1>4, <1>8, <1>9 DEF Counting, C

LEMMA CountInCounting == ASSUME IInv, Counting, NEW t \in Thread, CountIn(t) PROVE Counting'
<1> DEFINE j == idx[t]
           C == Past({})
<1>1. /\ main = "count" /\ pc[t] = "count_in" /\ symmetric /\ Dst(j) \in Entries
      /\ Advances(t, "count_out")
      /\ in_edge_offsets' = [in_edge_offsets EXCEPT ![Dst(j)] = @ + 1]
      /\ out_edge_offsets' = out_edge_offsets /\ UNCHANGED <<file, edges, symmetric, main>>
  BY CountInMoves DEF CountIn, input
<1>2. C' = C \cup {j} /\ j \in EdgeNr \ C
  BY <1>1, PastGrows
<1>3. Past({"count_in"})' = Past({"count_in"})
  <2>1. pc[t] \in {"count_in"} /\ "count_out" \notin {"count_in"}
    BY <1>1
  <2> QED BY <1>1, <2>1, PastStays
<1>4. /\ Sources' = Sources /\ Targets' = Targets /\ \A i : Src(i)' = Src(i) /\ Dst(i)' = Dst(i)
  BY <1>1, KeysSame
<1>5. Targets[j] = Dst(j) /\ IsFiniteSet(C)
  BY <1>2, PastFinite DEF Targets
<1>6. DegreesOf(C \cup {j}, Targets) = [DegreesOf(C, Targets) EXCEPT ![Targets[j]] = @ + 1]
  BY <1>1, <1>2, <1>5, DegreeUp
<1> HIDE DEF C, j
<1>7. in_edge_offsets = DegreesOf(C, Targets) /\ in_edge_offsets \in [Entries -> Nat]
  BY <1>1 DEF Counting, C
<1>8. in_edge_offsets' = DegreesOf(C', Targets') /\ in_edge_offsets' \in [Entries -> Nat]
  BY <1>1, <1>2, <1>4, <1>5, <1>6, <1>7
<1>9. \A i \in C' : Dst(i)' \in Entries
  BY <1>1, <1>2, <1>4 DEF Counting, C
<1> QED BY <1>1, <1>3, <1>4, <1>8, <1>9 DEF Counting, C

\* The second layer is inductive, with the first.
LEMMA NextCounting == ASSUME IInv, Counting, [Next]_vars PROVE Counting'
<1>1. CASE Read
  BY <1>1, ReadCounting
<1>2. CASE SumDegree
  BY <1>2, SumCounting
<1>3. CASE CreateJoin \/ ReadFails \/ Truncate
  BY <1>3, CountingSame DEF CreateJoin, ReadFails, Truncate, input
<1>4. CASE UNCHANGED vars
  <2>1. \A L : Past(L)' = Past(L)
    BY <1>4 DEF Past, Ahead, EdgeNr, NB_EDGES, vars, input, locals
  <2> QED BY <1>4, <2>1, CountingSame DEF vars, input
<1>5. ASSUME NEW t \in Thread, TakeRange(t) PROVE Counting'
  <2>1. Past({"count_in"})' = Past({"count_in"}) /\ Past({})' = Past({})
    BY <1>5, PastTake
  <2> QED BY <1>5, <2>1, CountingSame DEF TakeRange, input
<1>6. ASSUME NEW t \in Thread, BodyStep(t) PROVE Counting'
  <2>1. CASE EndRange(t)
    <3>1. Past({"count_in"})' = Past({"count_in"}) /\ Past({})' = Past({})
      BY <2>1, PastEnd
    <3> QED BY <2>1, <3>1, CountingSame DEF EndRange, input
  <2>2. CASE CountOut(t)
    BY <2>2, CountOutCounting
  <2>3. CASE CountIn(t)
    BY <2>3, CountInCounting
  <2>4. CASE CountStrays(t)
    BY <2>4, CountingSame DEF CountStrays, input
  <2>5. CASE ClaimOut(t)
    BY <2>5, ClaimOutMoves, CountingSame DEF ClaimOut, input
  <2>6. CASE StoreOut(t)
    BY <2>6, StoreOutMoves, CountingSame DEF StoreOut, input
  <2>7. CASE ClaimIn(t)
    BY <2>7, ClaimInMoves, CountingSame DEF ClaimIn, input
  <2>8. CASE StoreIn(t)
    BY <2>8, StoreInMoves, CountingSame DEF StoreIn, input
  <2> QED BY <1>6, <2>1, <2>2, <2>3, <2>4, <2>5, <2>6, <2>7, <2>8 DEF BodyStep
<1> QED BY <1>1, <1>2, <1>3, <1>4, <1>5, <1>6 DEF Next, MainStep, Terminated

-----------------------------------------------------------------------------
(* The placement. *)

\* Some of m edges, the vertices they belong to, and the offsets of the rows.
Table(m, C, key, off) ==
  /\ m \in Nat /\ C \in SUBSET (0 .. m - 1) /\ key \in [0 .. m - 1 -> Node]
  /\ off = OffsetsOf(0 .. m - 1, key)

\* rank numbers the edges of C within their rows.
Ranking(m, rank, C, key) ==
  /\ rank \in [C -> 0 .. m - 1]
  /\ \A i \in C : rank[i] < Cardinality(Row(C, key, key[i]))
  /\ \A i, j \in C : key[i] = key[j] /\ rank[i] = rank[j] => i = j

\* The array e holds the other ends val of the edges D, at their ranks in
\* their rows, and nothing else.
Holds(rank, D, key, val, off, e) ==
  /\ \A i \in D : e[off[key[i]] + rank[i]] = val[i]
  /\ \A k \in DOMAIN e : (\A i \in D : k # off[key[i]] + rank[i]) => e[k] = Uninit

\* Of m edges the counters ctr have given a rank to those of C, and those of D
\* are stored; `at' holds some that are not yet stored, with their ranks.
Placed(m, C, D, at, key, val, off, e, ctr) ==
  /\ ctr = [v \in Node |-> Cardinality(Row(C, key, v)) % CounterModulus]
  /\ \E rank :
       /\ Ranking(m, rank, C, key) /\ Holds(rank, D, key, val, off, e)
       /\ \A p \in at : p[2] = rank[p[1]]

\* An edge gets the next rank of its row, as its counter has not wrapped.
LEMMA PlacedClaim ==
  ASSUME NEW m, NEW C, NEW D \in SUBSET C, NEW j \in (0 .. m - 1) \ C,
         NEW key, NEW val, NEW off, NEW e, NEW ctr, NEW at, NEW at2,
         Table(m, C, key, off), Placed(m, C, D, at, key, val, off, e, ctr),
         Cardinality(Row(0 .. m - 1, key, key[j])) <= CounterModulus,
         \A p \in at : p[1] \in C, at2 \subseteq at \cup {<<j, ctr[key[j]]>>}
  PROVE  /\ ctr[key[j]] \in Nat
         /\ Placed(m, C \cup {j}, D, at2, key, val, off, e, [ctr EXCEPT ![key[j]] = CountedUp(@)])
<1> DEFINE E == 0 .. m - 1
           v == key[j]
           n == Cardinality(Row(C, key, v))
           ctr2 == [ctr EXCEPT ![v] = CountedUp(@)]
<1>0. m \in Nat /\ C \in SUBSET E /\ key \in [E -> Node]
  BY DEF Table
<1>1. IsFiniteSet(E) /\ Cardinality(E) = m
  <2>1. 0 \in Int /\ m - 1 \in Int /\ m \in Nat
    BY DEF Table
  <2>2. IsFiniteSet(0 .. m - 1) /\ Cardinality(0 .. m - 1) = IF 0 > m - 1 THEN 0 ELSE (m - 1) - 0 + 1
    BY ONLY <2>1, FS_Interval
  <2> QED BY <2>1, <2>2
<1>2. IsFiniteSet(C) /\ IsFiniteSet(C \cup {j})
  BY <1>0, <1>1, FS_Subset, FS_AddElement
<1>3. /\ \A w : Cardinality(Row(C, key, w)) \in Nat
      /\ \A w : Cardinality(Row(C \cup {j}, key, w))
                  = IF w = v THEN Cardinality(Row(C, key, w)) + 1 ELSE Cardinality(Row(C, key, w))
  <2>1. \A w : Cardinality(Row(C, key, w)) \in Nat
    BY <1>2, RowFinite
  <2>2. \A w : Cardinality(Row(C \cup {j}, key, w))
                  = IF key[j] = w THEN Cardinality(Row(C, key, w)) + 1 ELSE Cardinality(Row(C, key, w))
    BY <1>2, RowUp
  <2> QED BY <2>1, <2>2
<1>4. n \in Nat /\ n < CounterModulus /\ n < m
  <2>1. Row(C \cup {j}, key, v) \in SUBSET Row(E, key, v) /\ Row(E, key, v) \in SUBSET E
    BY <1>0 DEF Row
  <2>2. IsFiniteSet(Row(E, key, v)) /\ Cardinality(Row(E, key, v)) \in Nat
    BY <1>1, RowFinite
  <2>3. /\ Cardinality(Row(C \cup {j}, key, v)) <= Cardinality(Row(E, key, v))
        /\ Cardinality(Row(E, key, v)) <= Cardinality(E)
    BY ONLY <1>1, <2>1, <2>2, FS_Subset
  <2>4. n \in Nat /\ Cardinality(Row(C \cup {j}, key, v)) = n + 1
    BY <1>3
  <2> QED BY <1>0, <1>1, <2>2, <2>3, <2>4, CounterAssumption
<1>5. v \in Node /\ ctr = [w \in Node |-> Cardinality(Row(C, key, w)) % CounterModulus]
  BY <1>0 DEF Placed
<1>6. ctr[v] = n
  BY <1>4, <1>5, CounterAssumption
<1>7. ctr2 = [w \in Node |-> Cardinality(Row(C \cup {j}, key, w)) % CounterModulus]
  BY <1>3, <1>5, <1>6 DEF CountedUp
<1>8. PICK rank :
        /\ Ranking(m, rank, C, key) /\ Holds(rank, D, key, val, off, e)
        /\ \A p \in at : p[2] = rank[p[1]]
  BY DEF Placed
<1> DEFINE r == [i \in C \cup {j} |-> IF i = j THEN n ELSE rank[i]]
<1>9. /\ r \in [C \cup {j} -> 0 .. m - 1] /\ r[j] = n
      /\ \A i \in C : i # j /\ r[i] = rank[i] /\ rank[i] \in 0 .. m - 1
  BY <1>0, <1>4, <1>8 DEF Ranking
<1>10. Ranking(m, r, C \cup {j}, key)
  <2>1. \A i \in C : rank[i] < Cardinality(Row(C, key, key[i]))
    BY <1>8 DEF Ranking
  <2>2. \A i \in C \cup {j} : r[i] < Cardinality(Row(C \cup {j}, key, key[i]))
    <3>1. r[j] < Cardinality(Row(C \cup {j}, key, key[j]))
      <4>1. r[j] = n /\ Cardinality(Row(C \cup {j}, key, key[j])) = n + 1
        BY <1>3, <1>9
      <4> QED BY <1>4, <4>1
    <3>2. ASSUME NEW i \in C PROVE r[i] < Cardinality(Row(C \cup {j}, key, key[i]))
      <4>1. r[i] = rank[i] /\ rank[i] \in Nat /\ rank[i] < Cardinality(Row(C, key, key[i]))
        BY <1>9, <2>1
      <4>2. /\ Cardinality(Row(C, key, key[i])) \in Nat
            /\ \/ Cardinality(Row(C \cup {j}, key, key[i])) = Cardinality(Row(C, key, key[i])) + 1
               \/ Cardinality(Row(C \cup {j}, key, key[i])) = Cardinality(Row(C, key, key[i]))
        BY <1>3
      <4> QED BY ONLY <4>1, <4>2
    <3> QED BY <3>1, <3>2
  <2>3. \A i \in C : key[i] = v => r[i] # n
    BY <1>4, <1>9, <2>1
  <2>4. \A i, k \in C : key[i] = key[k] /\ r[i] = r[k] => i = k
    BY <1>8, <1>9 DEF Ranking
  <2> HIDE DEF r, n
  <2>5. \A i, k \in C \cup {j} : key[i] = key[k] /\ r[i] = r[k] => i = k
    BY <1>9, <2>3, <2>4
  <2> QED BY <1>9, <2>2, <2>5 DEF Ranking
<1>11. Holds(r, D, key, val, off, e)
  BY <1>8, <1>9 DEF Holds
<1>12. \A p \in at2 : p[2] = r[p[1]]
  BY <1>6, <1>8, <1>9
<1> HIDE DEF r
<1>13. Placed(m, C \cup {j}, D, at2, key, val, off, e, ctr2)
  BY <1>7, <1>9, <1>10, <1>11, <1>12 DEF Placed
<1> QED BY <1>4, <1>6, <1>13

\* The slots of the edges lie in their rows, and are different.
LEMMA SlotFacts ==
  ASSUME NEW m, NEW C, NEW key, NEW off, NEW rank, Table(m, C, key, off), Ranking(m, rank, C, key)
  PROVE  /\ \A i \in C : /\ off[key[i]] + rank[i] \in 0 .. m - 1
                         /\ off[key[i]] <= off[key[i]] + rank[i]
                         /\ off[key[i]] + rank[i] < off[key[i] + 1]
         /\ \A i, j \in C : off[key[i]] + rank[i] = off[key[j]] + rank[j] => i = j
<1> DEFINE E == 0 .. m - 1
<1>0. m \in Nat /\ C \in SUBSET E /\ key \in [E -> Node] /\ off = OffsetsOf(E, key) /\ rank \in [C -> E]
  BY DEF Table, Ranking
<1>1. IsFiniteSet(E) /\ Cardinality(E) = m
  <2>1. 0 \in Int /\ m - 1 \in Int /\ m \in Nat
    BY DEF Table
  <2>2. IsFiniteSet(0 .. m - 1) /\ Cardinality(0 .. m - 1) = IF 0 > m - 1 THEN 0 ELSE (m - 1) - 0 + 1
    BY ONLY <2>1, FS_Interval
  <2> QED BY <2>1, <2>2
<1>2. /\ off \in [Entries -> Nat]
      /\ \A v \in Node : off[v + 1] = off[v] + Cardinality(Row(E, key, v))
      /\ \A v, w \in Entries : v <= w => off[v] <= off[w]
      /\ \A v \in Entries : off[v] <= m
  BY <1>0, <1>1, OffsetFacts
<1>3. \A v \in Node : v \in Nat /\ v \in Entries /\ v + 1 \in Entries /\ off[v] \in Nat /\ off[v + 1] \in Nat
  BY <1>2, NodesAssumption DEF Node, Entries
<1>4. ASSUME NEW i \in C
      PROVE  /\ key[i] \in Node /\ rank[i] \in Nat /\ off[key[i]] \in Nat /\ off[key[i] + 1] \in Nat
             /\ key[i] \in Int /\ key[i] \in Entries /\ key[i] + 1 \in Entries
             /\ off[key[i] + 1] <= m
  <2>1. key[i] \in Node /\ rank[i] \in Nat
    BY <1>0
  <2> HIDE DEF E
  <2>2. key[i] \in Nat /\ key[i] \in Entries /\ key[i] + 1 \in Entries
    BY <1>3, <2>1
  <2>3. off[key[i]] \in Nat /\ off[key[i] + 1] \in Nat /\ off[key[i] + 1] <= m
    BY <1>2, <2>2
  <2> QED BY <2>1, <2>2, <2>3
<1>5. ASSUME NEW i \in C PROVE off[key[i]] + rank[i] < off[key[i] + 1]
  <2>1. Row(C, key, key[i]) \in SUBSET Row(E, key, key[i])
    BY <1>0 DEF Row
  <2>2. IsFiniteSet(Row(E, key, key[i])) /\ Cardinality(Row(E, key, key[i])) \in Nat
    BY <1>1, RowFinite
  <2>3. /\ Cardinality(Row(C, key, key[i])) <= Cardinality(Row(E, key, key[i]))
        /\ Cardinality(Row(C, key, key[i])) \in Nat
    BY ONLY <2>1, <2>2, FS_Subset, FS_CardinalityType
  <2>4. rank[i] < Cardinality(Row(C, key, key[i]))
    BY DEF Ranking
  <2>5. off[key[i] + 1] = off[key[i]] + Cardinality(Row(E, key, key[i]))
    BY <1>2, <1>4
  <2> HIDE DEF E
  <2> QED BY <1>4, <2>2, <2>3, <2>4, <2>5
<1>6. ASSUME NEW i \in C PROVE off[key[i]] + rank[i] \in 0 .. m - 1
  <2>1. /\ rank[i] \in Nat /\ off[key[i]] \in Nat /\ off[key[i] + 1] \in Nat
        /\ off[key[i] + 1] <= m /\ off[key[i]] + rank[i] < off[key[i] + 1]
    BY <1>4, <1>5
  <2> QED BY <1>0, <2>1
<1>7. ASSUME NEW i \in C, NEW j \in C, key[i] < key[j] PROVE off[key[i]] + rank[i] < off[key[j]] + rank[j]
  <2>1. key[i] \in Int /\ key[j] \in Int /\ key[i] + 1 \in Entries /\ key[j] \in Entries
    BY <1>4
  <2>2. key[i] + 1 <= key[j]
    BY ONLY <1>7, <2>1
  <2>3. off[key[i] + 1] <= off[key[j]]
    BY <1>2, <2>1, <2>2
  <2>4. /\ rank[i] \in Nat /\ off[key[i]] \in Nat /\ off[key[i] + 1] \in Nat
        /\ rank[j] \in Nat /\ off[key[j]] \in Nat
        /\ off[key[i]] + rank[i] < off[key[i] + 1]
    BY <1>4, <1>5
  <2> QED BY ONLY <2>3, <2>4
<1>8. ASSUME NEW i \in C, NEW j \in C, off[key[i]] + rank[i] = off[key[j]] + rank[j] PROVE i = j
  <2>1. /\ key[i] \in Int /\ key[j] \in Int /\ rank[i] \in Nat /\ rank[j] \in Nat
        /\ off[key[i]] \in Nat /\ off[key[j]] \in Nat
    BY <1>4
  <2>2. ~(key[i] < key[j])
    <3> SUFFICES ASSUME key[i] < key[j] PROVE FALSE
      OBVIOUS
    <3>1. off[key[i]] + rank[i] < off[key[j]] + rank[j]
      BY <1>7
    <3> QED BY ONLY <1>8, <2>1, <3>1
  <2>3. ~(key[j] < key[i])
    <3> SUFFICES ASSUME key[j] < key[i] PROVE FALSE
      OBVIOUS
    <3>1. off[key[j]] + rank[j] < off[key[i]] + rank[i]
      BY <1>7
    <3> QED BY ONLY <1>8, <2>1, <3>1
  <2>4. key[i] = key[j]
    BY ONLY <2>1, <2>2, <2>3
  <2>5. rank[i] = rank[j]
    BY ONLY <1>8, <2>1, <2>4
  <2> QED BY <2>4, <2>5 DEF Ranking
<1>9. \A i \in C : off[key[i]] <= off[key[i]] + rank[i]
  BY <1>4
<1> QED BY <1>5, <1>6, <1>8, <1>9

\* The slot of an edge that has a rank is free, in its row, and nobody else's.
FreeSlot(C, at, key, off, e, j, n) ==
  /\ off[key[j]] + n < off[key[j] + 1]
  /\ e[off[key[j]] + n] = Uninit
  /\ \A i \in C : \A l : i # j /\ <<i, l>> \in at => off[key[i]] + l # off[key[j]] + n

Laid(m, C, D, at, key, val, off, e, ctr) ==
  /\ Table(m, C, key, off) /\ Placed(m, C, D, at, key, val, off, e, ctr)
  /\ D \in SUBSET C /\ DOMAIN e = 0 .. m - 1

\* A claimed slot is free.
LEMMA SlotIsFree ==
  ASSUME NEW m, NEW C, NEW D, NEW at, NEW key, NEW val, NEW off, NEW e, NEW ctr,
         Laid(m, C, D, at, key, val, off, e, ctr),
         NEW j, j \in C \ D, NEW n, <<j, n>> \in at
  PROVE  FreeSlot(C, at, key, off, e, j, n)
<1>0. /\ Table(m, C, key, off) /\ Placed(m, C, D, at, key, val, off, e, ctr)
      /\ D \in SUBSET C /\ DOMAIN e = 0 .. m - 1 /\ j \in C
  BY DEF Laid
<1>1. PICK rank :
        /\ Ranking(m, rank, C, key) /\ Holds(rank, D, key, val, off, e)
        /\ \A p \in at : p[2] = rank[p[1]]
  BY <1>0 DEF Placed
<1>2. n = rank[j] /\ \A i \in C : \A l : <<i, l>> \in at => l = rank[i]
  BY <1>1
<1>3. /\ \A i \in C : /\ off[key[i]] + rank[i] \in 0 .. m - 1
                      /\ off[key[i]] + rank[i] < off[key[i] + 1]
      /\ \A i, k \in C : off[key[i]] + rank[i] = off[key[k]] + rank[k] => i = k
  BY <1>0, <1>1, SlotFacts
<1>4. e[off[key[j]] + rank[j]] = Uninit
  BY <1>0, <1>1, <1>3 DEF Holds
<1> QED BY <1>0, <1>2, <1>3, <1>4 DEF FreeSlot

\* The edge is stored there.
LEMMA PlacedStore ==
  ASSUME NEW m, NEW C, NEW D \in SUBSET C, NEW key, NEW val, NEW off, NEW e, NEW ctr, NEW at,
         Table(m, C, key, off), Placed(m, C, D, at, key, val, off, e, ctr),
         NEW S, e \in [0 .. m - 1 -> S], NEW at2, at2 \subseteq at,
         NEW j \in C \ D, NEW n, <<j, n>> \in at
  PROVE  Placed(m, C, D \cup {j}, at2, key, val, off, [e EXCEPT ![off[key[j]] + n] = val[j]], ctr)
<1> DEFINE k == off[key[j]] + n
           e2 == [e EXCEPT ![k] = val[j]]
<1>1. PICK rank :
        /\ Ranking(m, rank, C, key) /\ Holds(rank, D, key, val, off, e)
        /\ \A p \in at : p[2] = rank[p[1]]
  BY DEF Placed
<1> DEFINE slot(i) == off[key[i]] + rank[i]
<1>2. n = rank[j]
  BY <1>1
<1>3. /\ \A i \in C : slot(i) \in 0 .. m - 1
      /\ \A i, l \in C : slot(i) = slot(l) => i = l
  BY <1>1, SlotFacts
<1>4. k = slot(j)
  BY <1>2
<1>5. /\ \A i \in D : e[slot(i)] = val[i]
      /\ \A l \in 0 .. m - 1 : (\A i \in D : l # slot(i)) => e[l] = Uninit
  BY <1>1 DEF Holds
<1> HIDE DEF slot, k
<1>6. DOMAIN e2 = 0 .. m - 1 /\ \A l \in 0 .. m - 1 : e2[l] = IF l = slot(j) THEN val[j] ELSE e[l]
  BY <1>4
<1> HIDE DEF e2
<1>7. \A i \in D \cup {j} : e2[slot(i)] = val[i]
  BY <1>3, <1>5, <1>6
<1>8. \A l \in 0 .. m - 1 : (\A i \in D \cup {j} : l # slot(i)) => e2[l] = Uninit
  BY <1>5, <1>6
<1>9. Holds(rank, D \cup {j}, key, val, off, e2)
  BY <1>6, <1>7, <1>8 DEF Holds, slot
<1>10. Placed(m, C, D \cup {j}, at2, key, val, off, e2, ctr)
  BY <1>1, <1>9 DEF Placed
<1> QED BY <1>10 DEF e2, k

\* When all edges are stored every slot of a row holds an edge of its own.
LEMMA RowsFull ==
  ASSUME NEW m, NEW key, NEW off, NEW rank,
         Table(m, 0 .. m - 1, key, off), Ranking(m, rank, 0 .. m - 1, key),
         NEW v \in Node, NEW k \in off[v] .. off[v + 1] - 1
  PROVE  \E i \in 0 .. m - 1 : key[i] = v /\ k = off[v] + rank[i]
<1> DEFINE E == 0 .. m - 1
           R == Row(E, key, v)
           n == Cardinality(R)
           f == [i \in R |-> rank[i]]
<1>1. IsFiniteSet(E)
  <2>1. 0 \in Int /\ m - 1 \in Int /\ m \in Nat
    BY DEF Table
  <2> QED BY ONLY <2>1, FS_Interval
<1>2. off[v] \in Nat /\ off[v + 1] = off[v] + n /\ n \in Nat /\ IsFiniteSet(R)
  <2>0. off = OffsetsOf(E, key)
    BY DEF Table
  <2>1. off \in [Entries -> Nat] /\ \A w \in Node : off[w + 1] = off[w] + Cardinality(Row(E, key, w))
    BY <1>1, <2>0, OffsetFacts
  <2>2. v \in Entries
    BY NodesAssumption DEF Node, Entries
  <2> QED BY <1>1, <2>1, <2>2, RowFinite
<1>3. \A i \in R : i \in E /\ key[i] = v
  BY DEF Row
<1>4. \A i \in E : rank[i] < Cardinality(Row(E, key, key[i])) /\ rank[i] \in Nat
  BY DEF Ranking
<1>5. f \in [R -> 0 .. n - 1]
  BY <1>2, <1>3, <1>4
<1>6. \A i, j \in R : f[i] = f[j] => i = j
  BY <1>3 DEF Ranking
<1>7. f \in Injection(R, 0 .. n - 1)
  <2> HIDE DEF f, R, n
  <2> QED BY <1>5, <1>6 DEF Injection, IsInjective
<1>8. IsFiniteSet(0 .. n - 1) /\ Cardinality(0 .. n - 1) = n
  <2>1. 0 \in Int /\ n - 1 \in Int
    BY <1>2
  <2>2. IsFiniteSet(0 .. n - 1) /\ Cardinality(0 .. n - 1) = IF 0 > n - 1 THEN 0 ELSE (n - 1) - 0 + 1
    BY ONLY <2>1, FS_Interval
  <2> HIDE DEF n
  <2> QED BY <1>2, <2>2
<1>9. f \in Surjection(R, 0 .. n - 1)
  <2>1. Cardinality(R) = Cardinality(0 .. n - 1)
    BY <1>8
  <2> QED BY ONLY <1>7, <1>8, <2>1, FS_Injection
<1>10. k - off[v] \in 0 .. n - 1
  <2> HIDE DEF n
  <2> QED BY <1>2
<1>11. PICK i \in R : f[i] = k - off[v]
  BY <1>9, <1>10 DEF Surjection
<1>12. k = off[v] + rank[i]
  <2>1. rank[i] = k - off[v] /\ k \in Int
    BY <1>2, <1>11
  <2> QED BY <1>2, <1>3, <1>4, <2>1
<1> QED BY <1>3, <1>12

-----------------------------------------------------------------------------
(* The bodies of create_edges keep the edges placed. *)

\* The bodies that are about to store an edge, and the rank they have for it.
Claimants(label) == {<<idx[t], o[t]>> : t \in {u \in Thread : pc[u] = label}}

OutClaimed == {"store_out", "claim_in", "store_in"}
OutStored == {"claim_in", "store_in"}
OutPlaced == Placed(NB_EDGES, Past(OutClaimed), Past(OutStored), Claimants("store_out"),
                    Sources, Targets, out_edge_offsets, out_edges, out_offsets)
InPlaced == Placed(NB_EDGES, Past({"store_in"}), Past({}), Claimants("store_in"),
                   Targets, Sources, in_edge_offsets, in_edges, in_offsets)

\* Arrays nobody has looked at yet.
Untouched(e, ctr) == e = [k \in EdgeNr |-> Uninit] /\ ctr = [v \in Node |-> Uninit]

Creating == main \in {"create", "done"}

Placing ==
  /\ o \in [Thread -> Nat]
  /\ out_edges \in [EdgeNr -> Nat \cup {Uninit}] /\ in_edges \in [EdgeNr -> Node \cup {Uninit}]
  /\ IF Creating THEN OutPlaced ELSE Untouched(out_edges, out_offsets)
  /\ IF Creating /\ symmetric THEN InPlaced ELSE Untouched(in_edges, in_offsets)

\* Nothing is placed.
LEMMA PlacingInit == Init => Placing
BY DEF Init, Placing, Untouched, Creating

\* The premises of the lemmas on placement.
LEMMA Tables ==
  ASSUME IInv, Counting, Creating, NEW L
  PROVE  /\ Table(NB_EDGES, Past(L), Sources, out_edge_offsets)
         /\ symmetric => Table(NB_EDGES, Past(L), Targets, in_edge_offsets)
         /\ \A i \in EdgeNr : Sources[i] = Src(i) /\ Targets[i] = Dst(i)
<1>1. NB_EDGES \in Nat /\ Past(L) \in SUBSET EdgeNr
  BY FileFacts, PastBounds DEF IInv, Reading
<1>2. \A i \in EdgeNr : Sources[i] = Src(i) /\ Targets[i] = Dst(i)
  BY DEF Sources, Targets
<1>3. Sources \in [EdgeNr -> Node] /\ out_edge_offsets = OffsetsOf(EdgeNr, Sources)
  BY DEF Counting, Creating, Sources
<1>4. symmetric => Targets \in [EdgeNr -> Node] /\ in_edge_offsets = OffsetsOf(EdgeNr, Targets)
  BY DEF Counting, Creating, Targets
<1> QED BY <1>1, <1>2, <1>3, <1>4 DEF Table, EdgeNr

\* A row is not longer than its counter can count.
LEMMA RowsBounded ==
  ASSUME RowsFit, IInv, NEW v \in Node
  PROVE  /\ Cardinality(Row(EdgeNr, Sources, v)) <= CounterModulus
         /\ Cardinality(Row(EdgeNr, Targets, v)) <= CounterModulus
<1> DEFINE Found(h) == {i \in EdgeNr : file.words[2 * i + h] = v}
<1>1. \A h \in {0, 1} : Cardinality(Found(h)) <= CounterModulus
  BY DEF RowsFit, IInv, Reading, EdgeNr, NB_EDGES
<1>2. /\ IsFiniteSet(EdgeNr) /\ v # Uninit /\ EdgeNr \subseteq Nat
      /\ \A i \in EdgeNr : 2 * i \in WordNr /\ 2 * i + 1 \in WordNr
  BY FileFacts, NodesAssumption, UninitAssumption DEF IInv, Reading, Node
<1>3. \A i \in EdgeNr : /\ Sources[i] \in {file.words[2 * i], Uninit}
                        /\ Targets[i] \in {file.words[2 * i + 1], Uninit}
  BY <1>2 DEF Sources, Targets, Src, Dst, IInv, Reading
<1>4. \A i \in EdgeNr : 2 * i + 0 = 2 * i
  BY <1>2
<1>5. Row(EdgeNr, Sources, v) \in SUBSET Found(0) /\ Row(EdgeNr, Targets, v) \in SUBSET Found(1)
  <2>1. ASSUME NEW i \in EdgeNr, Sources[i] = v PROVE i \in Found(0)
    <3>1. file.words[2 * i] = v
      BY <1>2, <1>3, <2>1
    <3>2. file.words[2 * i + 0] = v
      BY <1>4, <3>1
    <3> QED BY <3>2
  <2>2. ASSUME NEW i \in EdgeNr, Targets[i] = v PROVE i \in Found(1)
    <3>1. file.words[2 * i + 1] = v
      BY <1>2, <1>3, <2>2
    <3> QED BY <3>1
  <2> HIDE DEF Found
  <2> QED BY <2>1, <2>2 DEF Row
<1>6. \A h : IsFiniteSet(Found(h)) /\ Cardinality(Found(h)) \in Nat
  <2> SUFFICES ASSUME NEW h PROVE IsFiniteSet(Found(h)) /\ Cardinality(Found(h)) \in Nat
    OBVIOUS
  <2>1. Found(h) \in SUBSET EdgeNr
    OBVIOUS
  <2> HIDE DEF Found
  <2> QED BY ONLY <1>2, <2>1, FS_Subset, FS_CardinalityType
<1> HIDE DEF Found
<1>7. /\ Cardinality(Row(EdgeNr, Sources, v)) <= Cardinality(Found(0))
      /\ Cardinality(Row(EdgeNr, Targets, v)) <= Cardinality(Found(1))
  BY ONLY <1>5, <1>6, FS_Subset
<1>8. /\ Cardinality(Row(EdgeNr, Sources, v)) \in Nat
      /\ Cardinality(Row(EdgeNr, Targets, v)) \in Nat
  BY <1>2, RowFinite
<1> QED BY <1>1, <1>6, <1>7, <1>8, CounterAssumption

\* Whoever has a rank has not stored its edge.
LEMMA ClaimantsFacts ==
  ASSUME IInv
  PROVE  /\ \A p \in Claimants("store_out") : p[1] \in Past(OutClaimed) \ Past(OutStored)
         /\ \A p \in Claimants("store_in") : p[1] \in Past({"store_in"}) \ Past({})
         /\ Past(OutStored) \subseteq Past(OutClaimed) /\ Past({}) \subseteq Past({"store_in"})
<1>1. ASSUME NEW t \in Thread, pc[t] \in {"store_out", "store_in"}
      PROVE  \A L : idx[t] \in Past(L) <=> pc[t] \in L
  BY <1>1, OwnEdge DEF IInv, Bodies
<1>2. \A t \in Thread : pc[t] = "store_out" => idx[t] \in Past(OutClaimed) \ Past(OutStored)
  BY <1>1 DEF OutClaimed, OutStored
<1>3. \A t \in Thread : pc[t] = "store_in" => idx[t] \in Past({"store_in"}) \ Past({})
  BY <1>1
<1>4. Past(OutStored) \subseteq Past(OutClaimed) /\ Past({}) \subseteq Past({"store_in"})
  BY DEF Past, OutClaimed, OutStored
<1> QED BY <1>2, <1>3, <1>4 DEF Claimants

\* A step adds at most its own edge to those that have a rank.
LEMMA ClaimantsAfter ==
  ASSUME IInv, NEW t \in Thread, NEW b, NEW l, Stays(t, b) \/ Advances(t, b),
         \A u \in Thread : u # t => o'[u] = o[u]
  PROVE  /\ b # l => Claimants(l)' \subseteq Claimants(l)
         /\ Stays(t, b) => Claimants(l)' \subseteq Claimants(l) \cup {<<idx[t], o'[t]>>}
<1>1. /\ pc'[t] = b
      /\ \A u \in Thread : u # t => idx'[u] = idx[u] /\ pc'[u] = pc[u] /\ o'[u] = o[u]
      /\ Stays(t, b) => idx'[t] = idx[t]
  BY DEF Stays, Advances, Moves, IInv, Bodies
<1> QED BY <1>1 DEF Claimants

\* Fewer bodies have a rank.
LEMMA PlacedFewer ==
  ASSUME NEW m, NEW C, NEW D, NEW at, NEW at2, at2 \subseteq at, NEW key, NEW val, NEW off, NEW e, NEW ctr,
         Placed(m, C, D, at, key, val, off, e, ctr)
  PROVE  Placed(m, C, D, at2, key, val, off, e, ctr)
BY DEF Placed

\* Steps that place nothing.
LEMMA OutSame ==
  ASSUME OutPlaced, UNCHANGED <<file, edges, out_edge_offsets, out_edges, out_offsets>>,
         Past(OutClaimed)' = Past(OutClaimed), Past(OutStored)' = Past(OutStored),
         Claimants("store_out")' \subseteq Claimants("store_out")
  PROVE  OutPlaced'
<1>1. NB_EDGES' = NB_EDGES /\ Sources' = Sources /\ Targets' = Targets
  BY KeysSame DEF NB_EDGES
<1>2. Placed(NB_EDGES, Past(OutClaimed), Past(OutStored), Claimants("store_out")',
             Sources, Targets, out_edge_offsets, out_edges, out_offsets)
  BY PlacedFewer DEF OutPlaced
<1> QED BY <1>1, <1>2 DEF OutPlaced

LEMMA InSame ==
  ASSUME InPlaced, UNCHANGED <<file, edges, in_edge_offsets, in_edges, in_offsets>>,
         Past({"store_in"})' = Past({"store_in"}), Past({})' = Past({}),
         Claimants("store_in")' \subseteq Claimants("store_in")
  PROVE  InPlaced'
<1>1. NB_EDGES' = NB_EDGES /\ Sources' = Sources /\ Targets' = Targets
  BY KeysSame DEF NB_EDGES
<1>2. Placed(NB_EDGES, Past({"store_in"}), Past({}), Claimants("store_in")',
             Targets, Sources, in_edge_offsets, in_edges, in_offsets)
  BY PlacedFewer DEF InPlaced
<1> QED BY <1>1, <1>2 DEF InPlaced

\* Steps that change none of what is placed.
LEMMA PlacingSame ==
  ASSUME Placing, UNCHANGED <<file, edges, symmetric, offsets, placed, counters>>,
         o' \in [Thread -> Nat], Creating' <=> Creating,
         Creating => /\ \A L \in {OutClaimed, OutStored, {"store_in"}, {}} : Past(L)' = Past(L)
                     /\ \A l \in {"store_out", "store_in"} : Claimants(l)' \subseteq Claimants(l)
  PROVE  Placing'
<1>1. EdgeNr' = EdgeNr /\ UNCHANGED <<out_edge_offsets, in_edge_offsets, out_edges, in_edges, out_offsets, in_offsets>>
  BY DEF EdgeNr, NB_EDGES, offsets, placed, counters
<1>2. Creating => OutPlaced'
  BY <1>1, OutSame DEF Placing
<1>3. Creating /\ symmetric => InPlaced'
  BY <1>1, InSame DEF Placing
<1> QED BY <1>1, <1>2, <1>3 DEF Placing, Untouched

\* An edge is given its slot in the row of its source.
LEMMA ClaimOutPlacing ==
  ASSUME RowsFit, IInv, Counting, Placing, NEW t \in Thread, ClaimOut(t) PROVE Placing'
<1> DEFINE j == idx[t]
<1>1. /\ main = "create" /\ pc[t] = "claim_out" /\ Stays(t, "store_out")
      /\ o' = [o EXCEPT ![t] = out_offsets[Src(j)]]
      /\ out_offsets' = [out_offsets EXCEPT ![Src(j)] = CountedUp(@)]
      /\ UNCHANGED <<file, edges, symmetric, main, offsets, placed, in_offsets>>
  BY ClaimOutMoves DEF ClaimOut, input
<1>2. Past(OutClaimed)' = Past(OutClaimed) \cup {j} /\ j \in EdgeNr \ Past(OutClaimed)
  BY <1>1, PastGrows DEF OutClaimed
<1>3. /\ Past(OutStored)' = Past(OutStored) /\ Past({"store_in"})' = Past({"store_in"})
      /\ Past({})' = Past({})
  BY <1>1, PastStays DEF OutStored
<1>4. /\ EdgeNr' = EdgeNr /\ NB_EDGES' = NB_EDGES /\ Sources' = Sources /\ Targets' = Targets
      /\ UNCHANGED <<out_edge_offsets, in_edge_offsets, out_edges, in_edges>>
  BY <1>1, KeysSame DEF NB_EDGES, offsets, placed
<1>5. Creating /\ Creating'
  BY <1>1 DEF Creating
<1>6. /\ Table(NB_EDGES, Past(OutClaimed), Sources, out_edge_offsets) /\ Sources[j] = Src(j)
      /\ j \in (0 .. NB_EDGES - 1) \ Past(OutClaimed) /\ Sources[j] \in Node
  BY <1>2, <1>5, Tables DEF EdgeNr, Table
<1>7. Cardinality(Row(0 .. NB_EDGES - 1, Sources, Sources[j])) <= CounterModulus
  BY <1>6, RowsBounded DEF EdgeNr
<1>8. OutPlaced
  BY <1>5 DEF Placing
<1>9. out_offsets[Src(j)] \in Nat /\ OutPlaced'
  <2>1. o'[t] = out_offsets[Sources[j]]
    BY <1>1, <1>6 DEF Placing
  <2>2. Claimants("store_out")' \subseteq Claimants("store_out") \cup {<<j, out_offsets[Sources[j]]>>}
    BY <1>1, <2>1, ClaimantsAfter DEF Placing
  <2>3. \A p \in Claimants("store_out") : p[1] \in Past(OutClaimed)
    BY ClaimantsFacts
  <2>4. Past(OutStored) \in SUBSET Past(OutClaimed)
    BY ClaimantsFacts
  <2>5. /\ out_offsets[Sources[j]] \in Nat
        /\ Placed(NB_EDGES, Past(OutClaimed) \cup {j}, Past(OutStored), Claimants("store_out")',
                  Sources, Targets, out_edge_offsets, out_edges,
                  [out_offsets EXCEPT ![Sources[j]] = CountedUp(@)])
    BY <1>6, <1>7, <1>8, <2>2, <2>3, <2>4, PlacedClaim DEF OutPlaced
  <2> HIDE DEF j
  <2> QED BY <1>1, <1>2, <1>3, <1>4, <1>6, <2>5 DEF OutPlaced
<1>10. Claimants("store_in")' \subseteq Claimants("store_in")
  BY <1>1, ClaimantsAfter DEF Placing
<1>11. symmetric => InPlaced'
  BY <1>1, <1>3, <1>4, <1>5, <1>10, InSame DEF Placing
<1>12. o' \in [Thread -> Nat]
  BY <1>1, <1>9 DEF Placing
<1> QED BY <1>1, <1>4, <1>5, <1>9, <1>11, <1>12 DEF Placing, Untouched

\* The same in the transposed graph.
LEMMA ClaimInPlacing ==
  ASSUME RowsFit, IInv, Counting, Placing, NEW t \in Thread, ClaimIn(t) PROVE Placing'
<1> DEFINE j == idx[t]
<1>1. /\ main = "create" /\ pc[t] = "claim_in" /\ symmetric /\ Stays(t, "store_in")
      /\ o' = [o EXCEPT ![t] = in_offsets[Dst(j)]]
      /\ in_offsets' = [in_offsets EXCEPT ![Dst(j)] = CountedUp(@)]
      /\ UNCHANGED <<file, edges, symmetric, main, offsets, placed, out_offsets>>
  BY ClaimInMoves DEF ClaimIn, input
<1>2. Past({"store_in"})' = Past({"store_in"}) \cup {j} /\ j \in EdgeNr \ Past({"store_in"})
  BY <1>1, PastGrows
<1>3. /\ Past(OutStored)' = Past(OutStored) /\ Past(OutClaimed)' = Past(OutClaimed)
      /\ Past({})' = Past({})
  BY <1>1, PastStays DEF OutStored, OutClaimed
<1>4. /\ EdgeNr' = EdgeNr /\ NB_EDGES' = NB_EDGES /\ Sources' = Sources /\ Targets' = Targets
      /\ UNCHANGED <<out_edge_offsets, in_edge_offsets, out_edges, in_edges>>
  BY <1>1, KeysSame DEF NB_EDGES, offsets, placed
<1>5. Creating /\ Creating'
  BY <1>1 DEF Creating
<1>6. /\ Table(NB_EDGES, Past({"store_in"}), Targets, in_edge_offsets) /\ Targets[j] = Dst(j)
      /\ j \in (0 .. NB_EDGES - 1) \ Past({"store_in"}) /\ Targets[j] \in Node
  BY <1>1, <1>2, <1>5, Tables DEF EdgeNr, Table
<1>7. Cardinality(Row(0 .. NB_EDGES - 1, Targets, Targets[j])) <= CounterModulus
  BY <1>6, RowsBounded DEF EdgeNr
<1>8. OutPlaced /\ InPlaced
  BY <1>1, <1>5 DEF Placing
<1>9. in_offsets[Dst(j)] \in Nat /\ InPlaced'
  <2>1. o'[t] = in_offsets[Targets[j]]
    BY <1>1, <1>6 DEF Placing
  <2>2. Claimants("store_in")' \subseteq Claimants("store_in") \cup {<<j, in_offsets[Targets[j]]>>}
    BY <1>1, <2>1, ClaimantsAfter DEF Placing
  <2>3. \A p \in Claimants("store_in") : p[1] \in Past({"store_in"})
    BY ClaimantsFacts
  <2>4. Past({}) \in SUBSET Past({"store_in"})
    BY ClaimantsFacts
  <2>5. /\ in_offsets[Targets[j]] \in Nat
        /\ Placed(NB_EDGES, Past({"store_in"}) \cup {j}, Past({}), Claimants("store_in")',
                  Targets, Sources, in_edge_offsets, in_edges,
                  [in_offsets EXCEPT ![Targets[j]] = CountedUp(@)])
    BY <1>6, <1>7, <1>8, <2>2, <2>3, <2>4, PlacedClaim DEF InPlaced
  <2> HIDE DEF j
  <2> QED BY <1>1, <1>2, <1>3, <1>4, <1>6, <2>5 DEF InPlaced
<1>10. Claimants("store_out")' \subseteq Claimants("store_out")
  BY <1>1, ClaimantsAfter DEF Placing
<1>11. OutPlaced'
  BY <1>1, <1>3, <1>4, <1>8, <1>10, OutSame
<1>12. o' \in [Thread -> Nat]
  BY <1>1, <1>9 DEF Placing
<1> QED BY <1>1, <1>4, <1>5, <1>9, <1>11, <1>12 DEF Placing

\* An edge is stored in its slot.
LEMMA StoreOutPlacing ==
  ASSUME IInv, Counting, Placing, NEW t \in Thread, StoreOut(t) PROVE Placing'
<1> DEFINE j == idx[t]
<1>1. /\ main = "create" /\ pc[t] = "store_out"
      /\ IF symmetric THEN Stays(t, "claim_in") ELSE Advances(t, "claim_out")
      /\ out_edges' = [out_edges EXCEPT ![out_edge_offsets[Src(j)] + o[t]] = Dst(j)]
      /\ o' = o /\ UNCHANGED <<file, edges, symmetric, main, offsets, in_edges, counters>>
  BY StoreOutMoves DEF StoreOut, input, OutSlot, OtherEnd
<1>2. Past(OutStored)' = Past(OutStored) \cup {j} /\ j \in EdgeNr \ Past(OutStored)
  <2>1. CASE symmetric
    BY <1>1, <2>1, PastGrows DEF OutStored
  <2>2. CASE ~symmetric
    BY <1>1, <2>2, PastGrows DEF OutStored
  <2> QED BY <2>1, <2>2
<1>3. /\ Past(OutClaimed)' = Past(OutClaimed)
      /\ symmetric => Past({"store_in"})' = Past({"store_in"}) /\ Past({})' = Past({})
  <2>1. CASE symmetric
    <3>1. Stays(t, "claim_in") /\ \A L \in {OutClaimed, {"store_in"}, {}} : pc[t] \in L <=> "claim_in" \in L
      BY <1>1, <2>1 DEF OutClaimed
    <3> QED BY <3>1, PastStays
  <2>2. CASE ~symmetric
    <3>1. pc[t] \in OutClaimed /\ "claim_out" \notin OutClaimed /\ Advances(t, "claim_out")
      BY <1>1, <2>2 DEF OutClaimed
    <3> QED BY <2>2, <3>1, PastStays
  <2> QED BY <2>1, <2>2
<1>4. /\ EdgeNr' = EdgeNr /\ NB_EDGES' = NB_EDGES /\ Sources' = Sources /\ Targets' = Targets
      /\ UNCHANGED <<out_edge_offsets, in_edge_offsets, in_edges, out_offsets, in_offsets>>
  BY <1>1, KeysSame DEF NB_EDGES, offsets, counters
<1>5. Creating /\ Creating' /\ OutPlaced
  BY <1>1 DEF Creating, Placing
<1>6. /\ Table(NB_EDGES, Past(OutClaimed), Sources, out_edge_offsets)
      /\ Sources[j] = Src(j) /\ Targets[j] = Dst(j)
  BY <1>2, <1>5, Tables
<1>7. <<j, o[t]>> \in Claimants("store_out")
  BY <1>1 DEF Claimants
<1>8. j \in Past(OutClaimed) \ Past(OutStored) /\ Past(OutStored) \in SUBSET Past(OutClaimed)
  BY <1>7, ClaimantsFacts
<1>9. /\ Claimants("store_out")' \subseteq Claimants("store_out")
      /\ Claimants("store_in")' \subseteq Claimants("store_in")
  BY <1>1, ClaimantsAfter
<1>10. OutPlaced'
  <2>1. out_edges \in [0 .. NB_EDGES - 1 -> Nat \cup {Uninit}]
    BY DEF Placing, EdgeNr
  <2>2. Placed(NB_EDGES, Past(OutClaimed), Past(OutStored) \cup {j}, Claimants("store_out")',
               Sources, Targets, out_edge_offsets,
               [out_edges EXCEPT ![out_edge_offsets[Sources[j]] + o[t]] = Targets[j]], out_offsets)
    BY <1>5, <1>6, <1>7, <1>8, <1>9, <2>1, PlacedStore DEF OutPlaced
  <2> HIDE DEF j
  <2> QED BY <1>1, <1>2, <1>3, <1>4, <1>6, <2>2 DEF OutPlaced
<1>11. symmetric => InPlaced'
  BY <1>1, <1>3, <1>4, <1>5, <1>9, InSame DEF Placing
<1>12. out_edges' \in [EdgeNr -> Nat \cup {Uninit}]
  <2>1. Dst(j) \in Nat \cup {Uninit}
    BY <1>2, FileFacts DEF Dst, IInv, Reading
  <2> QED BY <1>1, <2>1 DEF Placing
<1> QED BY <1>1, <1>4, <1>5, <1>10, <1>11, <1>12 DEF Placing, Untouched

\* The same in the transposed graph.
LEMMA StoreInPlacing ==
  ASSUME IInv, Counting, Placing, NEW t \in Thread, StoreIn(t) PROVE Placing'
<1> DEFINE j == idx[t]
<1>1. /\ main = "create" /\ pc[t] = "store_in" /\ symmetric /\ Advances(t, "claim_out")
      /\ in_edges' = [in_edges EXCEPT ![in_edge_offsets[Dst(j)] + o[t]] = Src(j)]
      /\ o' = o /\ UNCHANGED <<file, edges, symmetric, main, offsets, out_edges, counters>>
  BY StoreInMoves DEF StoreIn, input, InSlot
<1>2. Past({})' = Past({}) \cup {j} /\ j \in EdgeNr \ Past({})
  BY <1>1, PastGrows
<1>3. /\ Past(OutClaimed)' = Past(OutClaimed) /\ Past(OutStored)' = Past(OutStored)
      /\ Past({"store_in"})' = Past({"store_in"})
  <2>1. \A L \in {OutClaimed, OutStored, {"store_in"}} : pc[t] \in L /\ "claim_out" \notin L
    BY <1>1 DEF OutClaimed, OutStored
  <2> QED BY <1>1, <2>1, PastStays
<1>4. /\ EdgeNr' = EdgeNr /\ NB_EDGES' = NB_EDGES /\ Sources' = Sources /\ Targets' = Targets
      /\ UNCHANGED <<out_edge_offsets, in_edge_offsets, out_edges, out_offsets, in_offsets>>
  BY <1>1, KeysSame DEF NB_EDGES, offsets, counters
<1>5. Creating /\ Creating' /\ OutPlaced /\ InPlaced
  BY <1>1 DEF Creating, Placing
<1>6. /\ Table(NB_EDGES, Past({"store_in"}), Targets, in_edge_offsets)
      /\ Sources[j] = Src(j) /\ Targets[j] = Dst(j)
  BY <1>1, <1>2, <1>5, Tables
<1>7. <<j, o[t]>> \in Claimants("store_in")
  BY <1>1 DEF Claimants
<1>8. j \in Past({"store_in"}) \ Past({}) /\ Past({}) \in SUBSET Past({"store_in"})
  BY <1>7, ClaimantsFacts
<1>9. /\ Claimants("store_out")' \subseteq Claimants("store_out")
      /\ Claimants("store_in")' \subseteq Claimants("store_in")
  BY <1>1, ClaimantsAfter
<1>10. InPlaced'
  <2>1. in_edges \in [0 .. NB_EDGES - 1 -> Node \cup {Uninit}]
    BY DEF Placing, EdgeNr
  <2>2. Placed(NB_EDGES, Past({"store_in"}), Past({}) \cup {j}, Claimants("store_in")',
               Targets, Sources, in_edge_offsets,
               [in_edges EXCEPT ![in_edge_offsets[Targets[j]] + o[t]] = Sources[j]], in_offsets)
    BY <1>5, <1>6, <1>7, <1>8, <1>9, <2>1, PlacedStore DEF InPlaced
  <2> HIDE DEF j
  <2> QED BY <1>1, <1>2, <1>3, <1>4, <1>6, <2>2 DEF InPlaced
<1>11. OutPlaced'
  BY <1>1, <1>3, <1>4, <1>5, <1>9, OutSame
<1>12. in_edges' \in [EdgeNr -> Node \cup {Uninit}]
  <2>1. Src(j) \in Node
    BY <1>2, <1>5 DEF Counting, Creating
  <2> QED BY <1>1, <2>1 DEF Placing
<1> QED BY <1>1, <1>4, <1>5, <1>10, <1>11, <1>12 DEF Placing

\* The placement starts with no edge placed.
LEMMA SumPlacing == ASSUME IInv, Placing, SumDegree PROVE Placing'
<1>1. /\ main = "count" /\ ParallelForEnds(pending, pc) /\ UNCHANGED <<file, edges, symmetric, placed, pc, idx, stop, o>>
      /\ \/ main' = "assert" /\ UNCHANGED counters
         \/ /\ main' = "create" /\ pending' = EdgeNr
            /\ out_offsets' = [v \in Node |-> 0]
            /\ in_offsets' = IF symmetric THEN [v \in Node |-> 0] ELSE in_offsets
  BY DEF SumDegree, input, locals, CreateLoop
<1>2. EdgeNr' = EdgeNr /\ out_edges' = out_edges /\ in_edges' = in_edges /\ ~Creating
  BY <1>1 DEF EdgeNr, NB_EDGES, placed, Creating
<1>3. Untouched(out_edges, out_offsets) /\ Untouched(in_edges, in_offsets)
  BY <1>2 DEF Placing
<1>4. CASE main' = "assert"
  BY <1>1, <1>2, <1>3, <1>4 DEF Placing, Untouched, Creating, counters
<1>5. CASE main' = "create"
  <2>1. \A L : Past(L)' = {}
    BY <1>1, <1>2, <1>5 DEF Past
  <2>2. \A l : l # "idle" => Claimants(l)' = {}
    BY <1>1 DEF Claimants, ParallelForEnds
  <2>3. ASSUME NEW m, NEW key, NEW val, NEW off, NEW e, e = [k \in EdgeNr |-> Uninit]
        PROVE  Placed(m, {}, {}, {}, key, val, off, e, [v \in Node |-> 0])
    <3>1. \A v \in Node : Cardinality(Row({}, key, v)) % CounterModulus = 0
      BY FS_EmptySet, CounterAssumption DEF Row
    <3> DEFINE rank == [i \in {} |-> 0]
    <3>2. Ranking(m, rank, {}, key)
      BY DEF Ranking
    <3>3. Holds(rank, {}, key, val, off, e)
      BY <2>3 DEF Holds
    <3> HIDE DEF rank
    <3>4. [v \in Node |-> 0] = [v \in Node |-> Cardinality(Row({}, key, v)) % CounterModulus]
      BY <3>1
    <3> QED BY <3>2, <3>3, <3>4 DEF Placed
  <2>4. OutPlaced'
    BY <1>1, <1>2, <1>3, <1>5, <2>1, <2>2, <2>3 DEF OutPlaced, Untouched
  <2>5. symmetric => InPlaced'
    BY <1>1, <1>2, <1>3, <1>5, <2>1, <2>2, <2>3 DEF InPlaced, Untouched
  <2> QED BY <1>1, <1>2, <1>3, <1>5, <2>4, <2>5 DEF Placing, Untouched, Creating
<1> QED BY <1>1, <1>4, <1>5

\* The third layer is inductive, with the other two.
LEMMA NextPlacing == ASSUME RowsFit, IInv, Counting, Placing, [Next]_vars PROVE Placing'
<1>0. o \in [Thread -> Nat]
  BY DEF Placing
<1>1. CASE Read \/ ReadFails \/ Truncate
  <2>1. /\ main = "read" /\ main' \in {"read", "die", "count"}
        /\ UNCHANGED <<file, symmetric, offsets, placed, counters, o>>
    BY <1>1 DEF Read, ReadFails, Truncate, input, locals
  <2>2. ~Creating /\ ~Creating' /\ EdgeNr' = EdgeNr
    BY <2>1 DEF Creating, EdgeNr, NB_EDGES
  <2> QED BY <2>1, <2>2 DEF Placing, Untouched, placed, counters
<1>2. CASE SumDegree
  BY <1>2, SumPlacing
<1>3. CASE CreateJoin \/ UNCHANGED vars
  <2>1. /\ UNCHANGED <<file, edges, symmetric, offsets, placed, counters, o, idx, stop, pc, pending>>
        /\ Creating' <=> Creating
    BY <1>3 DEF CreateJoin, vars, input, locals, Creating
  <2>2. (\A L : Past(L)' = Past(L)) /\ \A l : Claimants(l)' = Claimants(l)
    BY <2>1 DEF Past, Ahead, EdgeNr, NB_EDGES, Claimants
  <2> QED BY <1>0, <2>1, <2>2, PlacingSame
<1>4. ASSUME NEW t \in Thread, TakeRange(t) PROVE Placing'
  <2>1. \A L \in {OutClaimed, OutStored, {"store_in"}, {}} : Past(L)' = Past(L)
    BY <1>4, PastTake DEF OutClaimed, OutStored
  <2>2. /\ UNCHANGED <<file, edges, symmetric, offsets, placed, counters, o, main>>
        /\ pc'[t] \in {"count_out", "claim_out"}
        /\ \A u \in Thread : u # t => pc'[u] = pc[u] /\ idx'[u] = idx[u]
    BY <1>4 DEF TakeRange, Goto, input, IInv, Bodies
  <2>3. \A l \in {"store_out", "store_in"} : Claimants(l)' \subseteq Claimants(l)
    BY <2>2 DEF Claimants
  <2> QED BY <1>0, <2>1, <2>2, <2>3, PlacingSame DEF Creating
<1>5. ASSUME NEW t \in Thread, BodyStep(t) PROVE Placing'
  <2>1. CASE EndRange(t)
    <3>1. /\ UNCHANGED <<file, edges, symmetric, offsets, placed, counters, main>>
          /\ pc'[t] = "idle" /\ o' \in [Thread -> Nat]
          /\ \A u \in Thread : u # t => pc'[u] = pc[u] /\ idx'[u] = idx[u] /\ o'[u] = o[u]
      BY <1>0, <2>1 DEF EndRange, Goto, input, IInv, Bodies
    <3>2. \A l \in {"store_out", "store_in"} : Claimants(l)' \subseteq Claimants(l)
      BY <3>1 DEF Claimants
    <3> QED BY <2>1, <3>1, <3>2, PastEnd, PlacingSame DEF Creating
  <2>2. CASE CountOut(t) \/ CountIn(t) \/ CountStrays(t)
    <3>1. /\ main = "count" /\ main' \in {"count", "undefined"}
          /\ UNCHANGED <<file, symmetric, placed, counters, o>>
      BY <2>2, CountOutMoves, CountInMoves DEF CountOut, CountIn, CountStrays, input, locals, IInv, Bodies
    <3>2. ~Creating /\ ~Creating' /\ EdgeNr' = EdgeNr
      BY <3>1 DEF Creating, EdgeNr, NB_EDGES
    <3> QED BY <3>1, <3>2 DEF Placing, Untouched, placed, counters
  <2>3. CASE ClaimOut(t)
    BY <2>3, ClaimOutPlacing
  <2>4. CASE StoreOut(t)
    BY <2>4, StoreOutPlacing
  <2>5. CASE ClaimIn(t)
    BY <2>5, ClaimInPlacing
  <2>6. CASE StoreIn(t)
    BY <2>6, StoreInPlacing
  <2> QED BY <1>5, <2>1, <2>2, <2>3, <2>4, <2>5, <2>6 DEF BodyStep
<1> QED BY <1>1, <1>2, <1>3, <1>4, <1>5 DEF Next, MainStep, Terminated

Inv == IInv /\ Counting /\ Placing

\* All three layers hold always.
LEMMA InvHolds == ASSUME Cleared, RowsFit PROVE SafeSpec => []Inv
<1>1. Init => Inv
  BY InitInv, CountingInit, PlacingInit DEF Inv
<1>2. Inv /\ [Next]_vars => Inv'
  BY NextInv, NextCounting, NextPlacing DEF Inv
<1> QED BY <1>1, <1>2, PTL DEF SafeSpec

-----------------------------------------------------------------------------
(* The rows, when every edge is placed. *)

\* The premises of this section: all m edges are stored.
Full(m, key, val, off, e) ==
  /\ Table(m, 0 .. m - 1, key, off)
  /\ \E rank : /\ Ranking(m, rank, 0 .. m - 1, key)
               /\ Holds(rank, 0 .. m - 1, key, val, off, e)

\* The entries of each row are the other ends of its edges, and each as often.
SameEnds(m, key, val, off, e) ==
  \A v \in Node :
    {e[k] : k \in off[v] .. off[v + 1] - 1} = {val[i] : i \in Row(0 .. m - 1, key, v)}
SameCounts(m, key, val, off, e) ==
  \A v \in Node : \A w :
    Cardinality({k \in off[v] .. off[v + 1] - 1 : e[k] = w})
      = Cardinality({i \in 0 .. m - 1 : key[i] = v /\ val[i] = w})

\* The offsets of a table.
LEMMA TableFacts ==
  ASSUME NEW m, NEW C, NEW key, NEW off, Table(m, C, key, off)
  PROVE  /\ m \in Nat /\ off \in [0 .. NB_NODES -> 0 .. m] /\ off[0] = 0 /\ off[NB_NODES] = m
         /\ \A v \in Node : off[v] <= off[v + 1] /\ off[v] \in Nat /\ off[v + 1] \in Nat
<1> DEFINE E == 0 .. m - 1
<1>1. m \in Nat /\ key \in [E -> Node] /\ off = OffsetsOf(E, key)
  BY DEF Table
<1>2. IsFiniteSet(E) /\ Cardinality(E) = m
  <2>1. 0 \in Int /\ m - 1 \in Int /\ m \in Nat
    BY <1>1
  <2>2. IsFiniteSet(0 .. m - 1) /\ Cardinality(0 .. m - 1) = IF 0 > m - 1 THEN 0 ELSE (m - 1) - 0 + 1
    BY ONLY <2>1, FS_Interval
  <2> QED BY <2>1, <2>2
<1>3. \A j \in E : key[j] \in Node
  BY <1>1
<1> HIDE DEF E
<1>4. /\ off \in [Entries -> Nat] /\ off[0] = 0
      /\ \A v, w \in Entries : v <= w => off[v] <= off[w]
      /\ \A v \in Entries : off[v] <= m
      /\ off[NB_NODES] = m
  BY <1>1, <1>2, <1>3, OffsetFacts
<1>5. \A v \in Node : v \in Entries /\ v + 1 \in Entries /\ v <= v + 1
  BY NodesAssumption DEF Node, Entries
<1>6. \A v \in Entries : off[v] \in 0 .. m
  BY <1>1, <1>4
<1> QED BY <1>1, <1>4, <1>5, <1>6 DEF Entries

\* Every slot lies in the row of a vertex.
LEMMA SlotInRow ==
  ASSUME NEW m, NEW C, NEW key, NEW off, Table(m, C, key, off), NEW k \in 0 .. m - 1
  PROVE  \E v \in Node : k \in off[v] .. off[v + 1] - 1
<1> SUFFICES ASSUME \A v \in Node : k \notin off[v] .. off[v + 1] - 1 PROVE FALSE
  OBVIOUS
<1>1. /\ m \in Nat /\ off[0] = 0 /\ off[NB_NODES] = m /\ k \in Nat /\ k < m
      /\ \A v \in Node : off[v] \in Nat /\ off[v + 1] \in Nat
  BY TableFacts
<1> DEFINE A == {v \in Nat : off[v] <= k}
<1>2. 0 \in A
  BY <1>1
<1>3. \A v \in 0 .. NB_NODES - 1 : v \in A => v + 1 \in A
  BY <1>1 DEF Node
<1>4. NB_NODES \in Nat
  BY NodesAssumption
<1> HIDE DEF A
<1>5. 0 .. NB_NODES \subseteq A
  BY <1>2, <1>3, <1>4, InductionUpTo
<1>6. NB_NODES \in A
  BY <1>4, <1>5
<1> QED BY <1>1, <1>6 DEF A

\* The slots of all edges fill the rows.
LEMMA FullSlots ==
  ASSUME NEW m, NEW key, NEW off, NEW rank, Table(m, 0 .. m - 1, key, off), Ranking(m, rank, 0 .. m - 1, key)
  PROVE  /\ \A i \in 0 .. m - 1 : /\ off[key[i]] <= off[key[i]] + rank[i]
                                /\ off[key[i]] + rank[i] < off[key[i] + 1]
                                /\ off[key[i]] + rank[i] \in 0 .. m - 1
         /\ \A i, j \in 0 .. m - 1 : off[key[i]] + rank[i] = off[key[j]] + rank[j] => i = j
         /\ \A v \in Node : \A k \in off[v] .. off[v + 1] - 1 :
              \E i \in 0 .. m - 1 : key[i] = v /\ k = off[v] + rank[i]
<1> DEFINE E == 0 .. m - 1
<1>1. Table(m, E, key, off) /\ Ranking(m, rank, E, key)
  OBVIOUS
<1>2. ASSUME NEW v \in Node, NEW k \in off[v] .. off[v + 1] - 1
      PROVE  \E i \in E : key[i] = v /\ k = off[v] + rank[i]
  BY RowsFull
<1> HIDE DEF E
<1>3. /\ \A i \in E : /\ off[key[i]] + rank[i] \in 0 .. m - 1
                      /\ off[key[i]] <= off[key[i]] + rank[i]
                      /\ off[key[i]] + rank[i] < off[key[i] + 1]
      /\ \A i, j \in E : off[key[i]] + rank[i] = off[key[j]] + rank[j] => i = j
  BY <1>1, SlotFacts
<1>4. \A v \in Node : \A k \in off[v] .. off[v + 1] - 1 : \E i \in E : key[i] = v /\ k = off[v] + rank[i]
  BY <1>2
<1> QED BY <1>3, <1>4 DEF E

\* Full rows have the entries of their edges.
LEMMA RowEntries ==
  ASSUME NEW m, NEW key, NEW val, NEW off, NEW e, Full(m, key, val, off, e)
  PROVE  SameEnds(m, key, val, off, e)
<1> SUFFICES ASSUME NEW v \in Node
             PROVE  {e[k] : k \in off[v] .. off[v + 1] - 1} = {val[i] : i \in Row(0 .. m - 1, key, v)}
  BY DEF SameEnds
<1>1. PICK rank : Ranking(m, rank, 0 .. m - 1, key) /\ Holds(rank, 0 .. m - 1, key, val, off, e)
  BY DEF Full
<1>2. Table(m, 0 .. m - 1, key, off)
  BY DEF Full
<1>3. \A i \in 0 .. m - 1 : /\ off[key[i]] <= off[key[i]] + rank[i]
                            /\ off[key[i]] + rank[i] \in 0 .. m - 1
                            /\ off[key[i]] + rank[i] < off[key[i] + 1]
  BY <1>1, <1>2, FullSlots
<1>4. ASSUME NEW k \in off[v] .. off[v + 1] - 1
      PROVE  \E i \in Row(0 .. m - 1, key, v) : e[k] = val[i]
  <2>1. PICK i \in 0 .. m - 1 : key[i] = v /\ k = off[v] + rank[i]
    BY <1>1, <1>2, RowsFull
  <2>2. e[k] = val[i]
    BY <1>1, <2>1 DEF Holds
  <2> QED BY <2>1, <2>2 DEF Row
<1>5. ASSUME NEW i \in Row(0 .. m - 1, key, v)
      PROVE  \E k \in off[v] .. off[v + 1] - 1 : e[k] = val[i]
  <2>1. i \in 0 .. m - 1 /\ key[i] = v
    BY DEF Row
  <2>2. /\ off[v] + rank[i] \in 0 .. m - 1 /\ off[v] <= off[v] + rank[i]
        /\ off[v] + rank[i] < off[v + 1]
    BY <1>3, <2>1
  <2>3. off[v] \in Nat /\ off[v + 1] \in Nat
    BY <1>2, TableFacts
  <2>4. e[off[v] + rank[i]] = val[i]
    BY <1>1, <2>1 DEF Holds
  <2>5. off[v] + rank[i] \in off[v] .. off[v + 1] - 1
    BY <2>2, <2>3
  <2> QED BY <2>4, <2>5
<1> QED BY <1>4, <1>5

\* Full rows hold each end as often as their edges do.
LEMMA RowCounts ==
  ASSUME NEW m, NEW key, NEW val, NEW off, NEW e, Full(m, key, val, off, e)
  PROVE  SameCounts(m, key, val, off, e)
<1> SUFFICES ASSUME NEW v \in Node, NEW w
             PROVE  Cardinality({k \in off[v] .. off[v + 1] - 1 : e[k] = w})
                    = Cardinality({i \in 0 .. m - 1 : key[i] = v /\ val[i] = w})
  BY DEF SameCounts
<1>1. PICK rank : Ranking(m, rank, 0 .. m - 1, key) /\ Holds(rank, 0 .. m - 1, key, val, off, e)
  BY DEF Full
<1>2. Table(m, 0 .. m - 1, key, off)
  BY DEF Full
<1>3. /\ \A i \in 0 .. m - 1 : /\ off[key[i]] <= off[key[i]] + rank[i]
                               /\ off[key[i]] + rank[i] \in 0 .. m - 1
                               /\ off[key[i]] + rank[i] < off[key[i] + 1]
      /\ \A i, j \in 0 .. m - 1 : off[key[i]] + rank[i] = off[key[j]] + rank[j] => i = j
  BY <1>1, <1>2, FullSlots
<1>4. \A k \in off[v] .. off[v + 1] - 1 : \E i \in 0 .. m - 1 : key[i] = v /\ k = off[v] + rank[i]
  BY <1>1, <1>2, FullSlots
<1>5. off[v] \in Nat /\ off[v + 1] \in Nat /\ m \in Nat
  BY <1>2, TableFacts
<1> DEFINE A == {i \in 0 .. m - 1 : key[i] = v /\ val[i] = w}
           B == {k \in off[v] .. off[v + 1] - 1 : e[k] = w}
           f == [i \in A |-> off[v] + rank[i]]
<1>6. ASSUME NEW i \in A PROVE f[i] \in B
  <2>1. i \in 0 .. m - 1 /\ key[i] = v /\ val[i] = w
    OBVIOUS
  <2>2. /\ off[v] + rank[i] \in 0 .. m - 1 /\ off[v] <= off[v] + rank[i]
        /\ off[v] + rank[i] < off[v + 1]
    BY <1>3, <2>1
  <2>3. e[off[v] + rank[i]] = w
    BY <1>1, <2>1 DEF Holds
  <2>4. off[v] + rank[i] \in off[v] .. off[v + 1] - 1
    BY <1>5, <2>2
  <2> QED BY <2>3, <2>4
<1>7. ASSUME NEW i \in A, NEW j \in A, f[i] = f[j] PROVE i = j
  <2>1. i \in 0 .. m - 1 /\ key[i] = v /\ j \in 0 .. m - 1 /\ key[j] = v
    OBVIOUS
  <2>2. off[key[i]] + rank[i] = off[key[j]] + rank[j]
    BY <1>7, <2>1
  <2> QED BY <1>3, <2>1, <2>2
<1>8. ASSUME NEW k \in B PROVE \E i \in A : f[i] = k
  <2>1. k \in off[v] .. off[v + 1] - 1 /\ e[k] = w
    OBVIOUS
  <2>2. PICK i \in 0 .. m - 1 : key[i] = v /\ k = off[v] + rank[i]
    BY <1>4, <2>1
  <2>3. val[i] = e[k]
    BY <1>1, <2>2 DEF Holds
  <2>4. i \in A
    BY <2>1, <2>2, <2>3
  <2> QED BY <2>2, <2>4
<1>9. f \in [A -> B]
  <2>1. f = [i \in A |-> f[i]]
    OBVIOUS
  <2> HIDE DEF f, A, B
  <2> QED BY <1>6, <2>1
<1>10. f \in Bijection(A, B)
  <2> HIDE DEF f, A, B
  <2> QED BY <1>7, <1>8, <1>9 DEF Bijection, Injection, Surjection, IsInjective
<1>11. IsFiniteSet(A)
  <2>1. 0 \in Int /\ m - 1 \in Int
    BY <1>5
  <2>2. IsFiniteSet(0 .. m - 1)
    BY ONLY <2>1, FS_Interval
  <2>3. A \in SUBSET (0 .. m - 1)
    OBVIOUS
  <2> QED BY ONLY <2>2, <2>3, FS_Subset
<1> HIDE DEF f, A, B
<1>12. ExistsBijection(A, B)
  BY <1>10 DEF ExistsBijection
<1>13. Cardinality(B) = Cardinality(A)
  BY ONLY <1>11, <1>12, FS_Bijection
<1> QED BY <1>13 DEF A, B

\* If the other ends are vertices, the rows are a graph.
LEMMA FullIsCsr ==
  ASSUME NEW m, NEW key, NEW val, NEW off, NEW e, Full(m, key, val, off, e),
         val \in [0 .. m - 1 -> Node], NEW S, e \in [0 .. m - 1 -> S]
  PROVE  IsCsr(off, e, m)
<1>1. Table(m, 0 .. m - 1, key, off)
  BY DEF Full
<1>2. \A v \in Node : {e[k] : k \in off[v] .. off[v + 1] - 1} = {val[i] : i \in Row(0 .. m - 1, key, v)}
  <2>1. SameEnds(m, key, val, off, e)
    BY RowEntries
  <2> QED BY <2>1 DEF SameEnds
<1>3. ASSUME NEW k \in 0 .. m - 1 PROVE e[k] \in Node
  <2>1. PICK v \in Node : k \in off[v] .. off[v + 1] - 1
    BY <1>1, SlotInRow
  <2>2. e[k] \in {val[i] : i \in Row(0 .. m - 1, key, v)}
    BY <1>2, <2>1
  <2> QED BY <2>2 DEF Row
<1>4. e \in [0 .. m - 1 -> Node]
  BY <1>3
<1>5. /\ off \in [0 .. NB_NODES -> 0 .. m] /\ off[0] = 0 /\ off[NB_NODES] = m
      /\ \A v \in Node : off[v] <= off[v + 1]
  BY <1>1, TableFacts
<1> QED BY <1>4, <1>5 DEF IsCsr

-----------------------------------------------------------------------------
(* The theorems. *)

\* The variables keep their types when the degree arrays come cleared and no
\* counter wraps: an id that is no vertex ends in the assertion, not in an
\* array.
THEOREM TypesHold == ASSUME Cleared, RowsFit PROVE SafeSpec => []TypeOK
<1>1. Inv => TypeOK
  <2> SUFFICES ASSUME Inv PROVE TypeOK
    OBVIOUS
  <2>1. /\ file \in Files /\ symmetric \in BOOLEAN /\ fpos \in Nat /\ cut \in BOOLEAN
        /\ cursor \in Nat /\ count \in Nat /\ edges \in [WordNr -> Nat \cup {Uninit}]
        /\ main \in {"read", "die", "count", "assert", "undefined", "create", "done"}
    BY DEF Inv, IInv, Reading
  <2>2. /\ pending \in SUBSET EdgeNr /\ idx \in [Thread -> Nat] /\ stop \in [Thread -> Nat]
        /\ pc \in [Thread -> Labels] /\ o \in [Thread -> Nat]
    BY DEF Inv, IInv, Bodies, Placing
  <2>3. out_edge_offsets \in [0 .. NB_NODES -> Nat] /\ in_edge_offsets \in [0 .. NB_NODES -> Nat]
    BY DEF Inv, Counting, Entries
  <2>4. out_edges \in [EdgeNr -> Nat \cup {Uninit}] /\ in_edges \in [EdgeNr -> Node \cup {Uninit}]
    BY DEF Inv, Placing
  <2>5. ASSUME NEW ctr, NEW e,
               \/ Untouched(e, ctr)
               \/ \E m, C, D, at, key, val, off : Table(m, C, key, off) /\ Placed(m, C, D, at, key, val, off, e, ctr)
        PROVE  ctr \in [Node -> 0 .. CounterModulus - 1 \cup {Uninit}]
    <3>1. CASE Untouched(e, ctr)
      BY <3>1 DEF Untouched
    <3>2. ASSUME NEW m, NEW C, NEW D, NEW at, NEW key, NEW val, NEW off,
                 Table(m, C, key, off), Placed(m, C, D, at, key, val, off, e, ctr)
          PROVE  ctr \in [Node -> 0 .. CounterModulus - 1 \cup {Uninit}]
      <4>1. IsFiniteSet(C)
        <5>1. m \in Nat /\ 0 \in Int /\ m - 1 \in Int /\ C \in SUBSET (0 .. m - 1)
          BY <3>2 DEF Table
        <5>2. IsFiniteSet(0 .. m - 1)
          BY ONLY <5>1, FS_Interval
        <5> QED BY ONLY <5>1, <5>2, FS_Subset
      <4>2. \A v : Cardinality(Row(C, key, v)) \in Nat
        BY <4>1, RowFinite
      <4>3. \A n \in Nat : n % CounterModulus \in 0 .. CounterModulus - 1
        BY CounterAssumption
      <4> QED BY <3>2, <4>2, <4>3 DEF Placed
    <3> QED BY <2>5, <3>1, <3>2
  <2>6. out_offsets \in [Node -> 0 .. CounterModulus - 1 \cup {Uninit}]
    <3>1. CASE Creating
      <4>1. Table(NB_EDGES, Past(OutClaimed), Sources, out_edge_offsets) /\ OutPlaced
        BY <3>1, Tables DEF Inv, Placing
      <4> QED BY <2>5, <4>1 DEF OutPlaced
    <3>2. CASE ~Creating
      BY <2>5, <3>2 DEF Inv, Placing
    <3> QED BY <3>1, <3>2
  <2>7. in_offsets \in [Node -> 0 .. CounterModulus - 1 \cup {Uninit}]
    <3>1. CASE Creating /\ symmetric
      <4>1. Table(NB_EDGES, Past({"store_in"}), Targets, in_edge_offsets) /\ InPlaced
        BY <3>1, Tables DEF Inv, Placing
      <4> QED BY <2>5, <4>1 DEF InPlaced
    <3>2. CASE ~(Creating /\ symmetric)
      BY <2>5, <3>2 DEF Inv, Placing
    <3> QED BY <3>1, <3>2
  <2> QED BY <2>1, <2>2, <2>3, <2>4, <2>6, <2>7 DEF TypeOK, Labels
<1> QED BY <1>1, InvHolds, PTL

\* Between the claim of a slot and the store, the slot is in its row, free,
\* and claimed by no other body: the atomic counters make two steps safe.
THEOREM SlotsExclusive == ASSUME Cleared, RowsFit PROVE SafeSpec => []SlotsAreExclusive
<1>1. ASSUME Inv, NEW t \in Thread, pc[t] = "store_out"
      PROVE  /\ OutSlot(t) < out_edge_offsets[Src(idx[t]) + 1]
             /\ out_edges[OutSlot(t)] = Uninit
             /\ \A u \in Thread \ {t} : pc[u] = "store_out" => OutSlot(t) # OutSlot(u)
  <2> DEFINE C == Past(OutClaimed)
             D == Past(OutStored)
             at == Claimants("store_out")
  <2>1. Creating /\ IInv /\ Counting /\ OutPlaced
    BY <1>1 DEF Inv, IInv, Bodies, Placing, Creating
  <2>2. /\ Table(NB_EDGES, C, Sources, out_edge_offsets)
        /\ \A i \in EdgeNr : Sources[i] = Src(i)
    BY <2>1, Tables
  <2>3. \A u \in Thread : pc[u] = "store_out" =>
          idx[u] \in C \ D /\ <<idx[u], o[u]>> \in at /\ idx[u] \in EdgeNr
    <3>1. \A u \in Thread : pc[u] = "store_out" => <<idx[u], o[u]>> \in at
      BY DEF Claimants
    <3>2. \A p \in at : p[1] \in C \ D
      BY <2>1, ClaimantsFacts
    <3> HIDE DEF at
    <3>3. C \subseteq EdgeNr
      BY PastBounds
    <3> HIDE DEF C, D
    <3> QED BY <3>1, <3>2, <3>3
  <2>4. D \in SUBSET C /\ DOMAIN out_edges = 0 .. NB_EDGES - 1
    BY <1>1, <2>1, ClaimantsFacts DEF Inv, Placing, EdgeNr
  <2>5. \A u \in Thread \ {t} : pc[u] = "store_out" => idx[u] # idx[t]
    <3>1. ASSUME NEW u \in Thread \ {t}, pc[u] = "store_out" PROVE idx[u] # idx[t]
      <4>1. idx[u] < stop[u] /\ idx[t] < stop[t]
        BY <1>1, <2>1, <3>1 DEF IInv, Bodies
      <4>2. idx[u] \in Ahead(u) /\ idx[t] \notin Ahead(u)
        BY <1>1, <2>1, <3>1, <4>1, OwnEdge
      <4> QED BY <4>2
    <3> QED BY <3>1
  <2>6. Laid(NB_EDGES, C, D, at, Sources, Targets, out_edge_offsets, out_edges, out_offsets)
    BY <2>1, <2>2, <2>4 DEF OutPlaced, Laid
  <2>7. ASSUME NEW j, j \in C \ D, NEW n, <<j, n>> \in at
        PROVE  FreeSlot(C, at, Sources, out_edge_offsets, out_edges, j, n)
    <3> HIDE DEF C, D, at
    <3> QED BY ONLY <2>6, <2>7, SlotIsFree
  <2>8. /\ out_edge_offsets[Sources[idx[t]]] + o[t] < out_edge_offsets[Sources[idx[t]] + 1]
        /\ out_edges[out_edge_offsets[Sources[idx[t]]] + o[t]] = Uninit
        /\ \A i \in C : \A l : i # idx[t] /\ <<i, l>> \in at =>
             out_edge_offsets[Sources[i]] + l # out_edge_offsets[Sources[idx[t]]] + o[t]
    <3>1. idx[t] \in C \ D /\ <<idx[t], o[t]>> \in at
      BY <1>1, <2>3
    <3> HIDE DEF C, D, at
    <3> QED BY <2>7, <3>1 DEF FreeSlot
  <2> HIDE DEF C, D, at
  <2>9. ASSUME NEW u \in Thread \ {t}, pc[u] = "store_out" PROVE OutSlot(t) # OutSlot(u)
    <3>1. idx[u] \in C /\ <<idx[u], o[u]>> \in at /\ idx[u] # idx[t] /\ Sources[idx[u]] = Src(idx[u])
      BY <2>2, <2>3, <2>5, <2>9
    <3>2. Sources[idx[t]] = Src(idx[t])
      BY <1>1, <2>2, <2>3
    <3>3. out_edge_offsets[Sources[idx[u]]] + o[u] # out_edge_offsets[Sources[idx[t]]] + o[t]
      BY ONLY <2>8, <3>1
    <3> QED BY ONLY <3>1, <3>2, <3>3 DEF OutSlot
  <2>10. Sources[idx[t]] = Src(idx[t])
    BY <1>1, <2>2, <2>3
  <2>11. OutSlot(t) = out_edge_offsets[Sources[idx[t]]] + o[t]
    BY <2>10 DEF OutSlot
  <2> QED BY <2>8, <2>9, <2>10, <2>11
<1>2. ASSUME Inv, NEW t \in Thread, pc[t] = "store_in"
      PROVE  /\ InSlot(t) < in_edge_offsets[Dst(idx[t]) + 1]
             /\ in_edges[InSlot(t)] = Uninit
             /\ \A u \in Thread \ {t} : pc[u] = "store_in" => InSlot(t) # InSlot(u)
  <2> DEFINE C == Past({"store_in"})
             D == Past({})
             at == Claimants("store_in")
  <2>1. Creating /\ symmetric /\ IInv /\ Counting /\ InPlaced
    BY <1>2 DEF Inv, IInv, Bodies, Placing, Creating
  <2>2. /\ Table(NB_EDGES, C, Targets, in_edge_offsets)
        /\ \A i \in EdgeNr : Targets[i] = Dst(i)
    BY <2>1, Tables
  <2>3. \A u \in Thread : pc[u] = "store_in" =>
          idx[u] \in C \ D /\ <<idx[u], o[u]>> \in at /\ idx[u] \in EdgeNr
    <3>1. \A u \in Thread : pc[u] = "store_in" => <<idx[u], o[u]>> \in at
      BY DEF Claimants
    <3>2. \A p \in at : p[1] \in C \ D
      BY <2>1, ClaimantsFacts
    <3> HIDE DEF at
    <3>3. C \subseteq EdgeNr
      BY PastBounds
    <3> HIDE DEF C, D
    <3> QED BY <3>1, <3>2, <3>3
  <2>4. D \in SUBSET C /\ DOMAIN in_edges = 0 .. NB_EDGES - 1
    BY <1>2, <2>1, ClaimantsFacts DEF Inv, Placing, EdgeNr
  <2>5. \A u \in Thread \ {t} : pc[u] = "store_in" => idx[u] # idx[t]
    <3>1. ASSUME NEW u \in Thread \ {t}, pc[u] = "store_in" PROVE idx[u] # idx[t]
      <4>1. idx[u] < stop[u] /\ idx[t] < stop[t]
        BY <1>2, <2>1, <3>1 DEF IInv, Bodies
      <4>2. idx[u] \in Ahead(u) /\ idx[t] \notin Ahead(u)
        BY <1>2, <2>1, <3>1, <4>1, OwnEdge
      <4> QED BY <4>2
    <3> QED BY <3>1
  <2>6. Laid(NB_EDGES, C, D, at, Targets, Sources, in_edge_offsets, in_edges, in_offsets)
    BY <2>1, <2>2, <2>4 DEF InPlaced, Laid
  <2>7. ASSUME NEW j, j \in C \ D, NEW n, <<j, n>> \in at
        PROVE  FreeSlot(C, at, Targets, in_edge_offsets, in_edges, j, n)
    <3> HIDE DEF C, D, at
    <3> QED BY ONLY <2>6, <2>7, SlotIsFree
  <2>8. /\ in_edge_offsets[Targets[idx[t]]] + o[t] < in_edge_offsets[Targets[idx[t]] + 1]
        /\ in_edges[in_edge_offsets[Targets[idx[t]]] + o[t]] = Uninit
        /\ \A i \in C : \A l : i # idx[t] /\ <<i, l>> \in at =>
             in_edge_offsets[Targets[i]] + l # in_edge_offsets[Targets[idx[t]]] + o[t]
    <3>1. idx[t] \in C \ D /\ <<idx[t], o[t]>> \in at
      BY <1>2, <2>3
    <3> HIDE DEF C, D, at
    <3> QED BY <2>7, <3>1 DEF FreeSlot
  <2> HIDE DEF C, D, at
  <2>9. ASSUME NEW u \in Thread \ {t}, pc[u] = "store_in" PROVE InSlot(t) # InSlot(u)
    <3>1. idx[u] \in C /\ <<idx[u], o[u]>> \in at /\ idx[u] # idx[t] /\ Targets[idx[u]] = Dst(idx[u])
      BY <2>2, <2>3, <2>5, <2>9
    <3>2. Targets[idx[t]] = Dst(idx[t])
      BY <1>2, <2>2, <2>3
    <3>3. in_edge_offsets[Targets[idx[u]]] + o[u] # in_edge_offsets[Targets[idx[t]]] + o[t]
      BY ONLY <2>8, <3>1
    <3> QED BY ONLY <3>1, <3>2, <3>3 DEF InSlot
  <2>10. Targets[idx[t]] = Dst(idx[t])
    BY <1>2, <2>2, <2>3
  <2>11. InSlot(t) = in_edge_offsets[Targets[idx[t]]] + o[t]
    BY <2>10 DEF InSlot
  <2> QED BY <2>8, <2>9, <2>10, <2>11
<1>3. Inv => SlotsAreExclusive
  BY <1>1, <1>2 DEF SlotsAreExclusive
<1> QED BY <1>3, InvHolds, PTL

\* When create_graph returns, every edge has been stored.
LEMMA AllStored ==
  ASSUME Inv, main = "done"
  PROVE  /\ Full(NB_EDGES, Sources, Targets, out_edge_offsets, out_edges)
         /\ symmetric => Full(NB_EDGES, Targets, Sources, in_edge_offsets, in_edges)
<1>1. Creating /\ IInv /\ Counting /\ OutPlaced /\ (symmetric => InPlaced)
  BY DEF Inv, Placing, Creating
<1>2. \A L : Past(L) = 0 .. NB_EDGES - 1
  <2>1. ParallelForEnds(pending, pc)
    BY <1>1 DEF IInv, Bodies
  <2> QED BY <2>1, PastBounds DEF EdgeNr
<1>3. /\ Table(NB_EDGES, 0 .. NB_EDGES - 1, Sources, out_edge_offsets)
      /\ symmetric => Table(NB_EDGES, 0 .. NB_EDGES - 1, Targets, in_edge_offsets)
  <2>1. /\ Table(NB_EDGES, Past({}), Sources, out_edge_offsets)
        /\ symmetric => Table(NB_EDGES, Past({}), Targets, in_edge_offsets)
    BY <1>1, Tables
  <2> QED BY <1>2, <2>1
<1> QED BY <1>1, <1>2, <1>3 DEF Full, OutPlaced, InPlaced, Placed

\* create_graph returns the multigraph of a file that was not truncated, in
\* compressed rows with consistent transposition, for every order of the bodies.
THEOREM LoadsTheFile == ASSUME Cleared, RowsFit PROVE SafeSpec => []GraphIsFile
<1>1. ASSUME Inv, main = "done", ~cut
      PROVE  /\ Ends(0) \subseteq Node
             /\ RowsHold(out_edge_offsets, out_edges, 0)
             /\ Ends(1) \subseteq Node => IsCsr(out_edge_offsets, out_edges, NB_EDGES)
             /\ symmetric => RowsHold(in_edge_offsets, in_edges, 1) /\ IsGraph(LoadedGraph)
  <2>1. Reading /\ Counting /\ Creating /\ NB_EDGES \in Nat /\ edges = file.words
    BY <1>1, FileFacts DEF Inv, IInv, Reading, Creating
  <2>2. /\ Full(NB_EDGES, Sources, Targets, out_edge_offsets, out_edges)
        /\ symmetric => Full(NB_EDGES, Targets, Sources, in_edge_offsets, in_edges)
    BY <1>1, AllStored
  <2>3. \A i \in EdgeNr : /\ i \in Int /\ 2 * i + 0 = 2 * i /\ 2 * i + 1 - 0 = 2 * i + 1
                          /\ 2 * i + 1 - 1 = 2 * i
    BY <2>1, FileFacts DEF Reading
  <2>4. \A i \in EdgeNr : /\ Sources[i] = file.words[2 * i + 0] /\ Sources[i] = file.words[2 * i + 1 - 1]
                          /\ Targets[i] = file.words[2 * i + 1] /\ Targets[i] = file.words[2 * i + 1 - 0]
    BY <2>1, <2>3 DEF Sources, Targets, Src, Dst
  <2>5. \A i \in EdgeNr : Sources[i] \in Node /\ (symmetric => Targets[i] \in Node)
    BY <2>1 DEF Counting, Creating, Sources, Targets
  <2>6. Ends(0) \subseteq Node
    BY <2>4, <2>5 DEF Ends
  <2>7. RowsHold(out_edge_offsets, out_edges, 0)
    <3> SUFFICES ASSUME NEW v \in Node, NEW w \in Entries
                 PROVE  Cardinality({k \in out_edge_offsets[v] .. out_edge_offsets[v + 1] - 1 : out_edges[k] = w})
                        = Cardinality({i \in EdgeNr : file.words[2 * i + 0] = v
                                                      /\ file.words[2 * i + 1 - 0] = w})
      BY DEF RowsHold
    <3>1. {i \in EdgeNr : file.words[2 * i + 0] = v /\ file.words[2 * i + 1 - 0] = w}
          = {i \in 0 .. NB_EDGES - 1 : Sources[i] = v /\ Targets[i] = w}
      BY <2>4 DEF EdgeNr
    <3>2. SameCounts(NB_EDGES, Sources, Targets, out_edge_offsets, out_edges)
      BY <2>2, RowCounts
    <3>3. Cardinality({k \in out_edge_offsets[v] .. out_edge_offsets[v + 1] - 1 : out_edges[k] = w})
          = Cardinality({i \in 0 .. NB_EDGES - 1 : Sources[i] = v /\ Targets[i] = w})
      BY <3>2, Zenon DEF SameCounts
    <3> QED BY ONLY <3>1, <3>3, Zenon
  <2>8. ASSUME symmetric PROVE RowsHold(in_edge_offsets, in_edges, 1)
    <3> SUFFICES ASSUME NEW v \in Node, NEW w \in Entries
                 PROVE  Cardinality({k \in in_edge_offsets[v] .. in_edge_offsets[v + 1] - 1 : in_edges[k] = w})
                        = Cardinality({i \in EdgeNr : file.words[2 * i + 1] = v
                                                      /\ file.words[2 * i + 1 - 1] = w})
      BY DEF RowsHold
    <3>1. {i \in EdgeNr : file.words[2 * i + 1] = v /\ file.words[2 * i + 1 - 1] = w}
          = {i \in 0 .. NB_EDGES - 1 : Targets[i] = v /\ Sources[i] = w}
      BY <2>4 DEF EdgeNr
    <3>2. SameCounts(NB_EDGES, Targets, Sources, in_edge_offsets, in_edges)
      BY <2>2, <2>8, RowCounts
    <3>3. Cardinality({k \in in_edge_offsets[v] .. in_edge_offsets[v + 1] - 1 : in_edges[k] = w})
          = Cardinality({i \in 0 .. NB_EDGES - 1 : Targets[i] = v /\ Sources[i] = w})
      BY <3>2, Zenon DEF SameCounts
    <3> QED BY ONLY <3>1, <3>3, Zenon
  <2>9. ASSUME Ends(1) \subseteq Node PROVE IsCsr(out_edge_offsets, out_edges, NB_EDGES)
    <3>1. \A i \in EdgeNr : Targets[i] \in Node
      BY <2>4, <2>9 DEF Ends
    <3>2. Targets \in [0 .. NB_EDGES - 1 -> Node]
      BY <3>1 DEF Targets, EdgeNr
    <3>3. out_edges \in [0 .. NB_EDGES - 1 -> Nat \cup {Uninit}]
      BY <1>1 DEF Inv, Placing, EdgeNr
    <3> QED BY <2>2, <3>2, <3>3, FullIsCsr
  <2>10. ASSUME symmetric PROVE IsGraph(LoadedGraph)
    <3>1. Ends(1) \subseteq Node
      BY <2>4, <2>5, <2>10 DEF Ends
    <3>2. IsCsr(in_edge_offsets, in_edges, NB_EDGES)
      <4>1. Sources \in [0 .. NB_EDGES - 1 -> Node]
        BY <2>5 DEF Sources, EdgeNr
      <4>2. in_edges \in [0 .. NB_EDGES - 1 -> Node \cup {Uninit}]
        BY <1>1 DEF Inv, Placing, EdgeNr
      <4> QED BY <2>2, <2>10, <4>1, <4>2, FullIsCsr
    <3>3. ASSUME NEW u \in Node, NEW v \in Node
          PROVE  v \in OutNeighbours(LoadedGraph, u) <=> u \in InNeighbours(LoadedGraph, v)
      <4>1. OutNeighbours(LoadedGraph, u) = {Targets[i] : i \in Row(0 .. NB_EDGES - 1, Sources, u)}
        <5>1. SameEnds(NB_EDGES, Sources, Targets, out_edge_offsets, out_edges)
          BY <2>2, RowEntries
        <5> QED BY <5>1 DEF SameEnds, OutNeighbours, LoadedGraph
      <4>2. InNeighbours(LoadedGraph, v) = {Sources[i] : i \in Row(0 .. NB_EDGES - 1, Targets, v)}
        <5>1. SameEnds(NB_EDGES, Targets, Sources, in_edge_offsets, in_edges)
          BY <2>2, <2>10, RowEntries
        <5> QED BY <5>1 DEF SameEnds, InNeighbours, LoadedGraph
      <4> QED BY <4>1, <4>2 DEF Row
    <3>4. /\ LoadedGraph.nb_edges = NB_EDGES
          /\ LoadedGraph.out_edge_offsets = out_edge_offsets /\ LoadedGraph.out_edges = out_edges
          /\ LoadedGraph.in_edge_offsets = in_edge_offsets /\ LoadedGraph.in_edges = in_edges
      BY DEF LoadedGraph
    <3> QED BY <2>1, <2>9, <3>1, <3>2, <3>3, <3>4 DEF IsGraph
  <2> QED BY <2>6, <2>7, <2>8, <2>9, <2>10
<1>2. Inv => GraphIsFile
  BY <1>1 DEF GraphIsFile
<1> QED BY <1>2, InvHolds, PTL
=============================================================================

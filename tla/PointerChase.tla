---------------------------- MODULE PointerChase ----------------------------
(***************************************************************************)
(* The latency benchmark (src/pointer_chasing): create_random links the    *)
(* entries of a buffer in a random order, and the walk follows the links.  *)
(* A word of the buffer is NULL, the 0x1 that cas_chase_fail would store,  *)
(* or the address of an entry.  main walks with read_chase; cas_hub, which *)
(* nobody calls, walks with failing compare-and-swaps or not at all.       *)
(***************************************************************************)
EXTENDS Integers, Functions

CONSTANTS Calls,        \* the calls considered: buffer_sz, count, shuffle, walk
          entry_sz,     \* sizeof(Entry_t)
          WordModulus,  \* size_t: 2^64
          MemorySize,   \* malloc of more bytes returns NULL
          MinCount      \* 1<<30

ASSUME SizesAssumption ==
  /\ entry_sz \in Nat \ {0} /\ WordModulus \in Nat /\ entry_sz < WordModulus
  /\ MemorySize \in Nat /\ MinCount \in Nat
ASSUME CallsAssumption ==
  Calls \subseteq [buffer_sz : 0 .. WordModulus - 1, count : Nat, shuffle : BOOLEAN,
                   walk : {"read", "cas", "none"}]

VARIABLES call, buffer_sz, len, indices, buffer, p,
          idx, stage,  \* the index i of the loop, and the place of main
          left,    \* count: the steps the walk still has to do
          visits   \* how often the walk has read an entry

chase == <<call, buffer_sz, len, indices, buffer, idx, p, left, stage, visits>>

NULL == 0
One == 1
Address(k) == k + 2
Entry == 0 .. len - 1
EntryAt(a) == a - 2
Addresses == {Address(k) : k \in Entry}

ChaseInit ==
  /\ call \in Calls
  /\ buffer_sz = call.buffer_sz /\ len = 0
  /\ indices = <<>> /\ buffer = <<>> /\ visits = <<>>
  /\ idx = 1 /\ p = NULL
  /\ left = IF call.count > MinCount THEN call.count ELSE MinCount
  /\ stage = "create"

-----------------------------------------------------------------------------
(* create_random *)

\* The size is aligned up, in the arithmetic of size_t, and the buffer
\* allocated: its words can be anything, as NULL here.  A buffer that is not
\* there faults at the first link; indices[len-1] of an empty one is undefined.
Allocate ==
  /\ stage = "create"
  /\ buffer_sz' = (((buffer_sz + entry_sz - 1) % WordModulus) \div entry_sz) * entry_sz
  /\ len' = buffer_sz' \div entry_sz
  /\ stage' = IF len' = 0 THEN "undefined" ELSE IF buffer_sz' > MemorySize THEN "fault" ELSE "shuffle"
  /\ IF stage' = "shuffle"
       THEN /\ indices' = [k \in 0 .. len' - 1 |-> k]
            /\ buffer' = [k \in 0 .. len' - 1 |-> NULL]
            /\ visits' = [k \in 0 .. len' - 1 |-> 0]
       ELSE UNCHANGED <<indices, buffer, visits>>
  /\ UNCHANGED <<call, idx, p, left>>

\* std::random_shuffle
Shuffle ==
  /\ stage = "shuffle"
  /\ indices' \in IF call.shuffle THEN {f \in [Entry -> Entry] : IsInjective(f)} ELSE {indices}
  /\ stage' = "link"
  /\ UNCHANGED <<call, buffer_sz, len, buffer, idx, p, left, visits>>

\* (Mutant) the shuffled order is used on one side only.
PredecessorUnshuffled == idx - 1

Predecessor == indices[idx - 1]

\* for(size_t i = 1; i < len; i++)
Link ==
  /\ stage = "link" /\ idx < len
  /\ buffer' = [buffer EXCEPT ![Predecessor] = Address(indices[idx])]
  /\ idx' = idx + 1
  /\ UNCHANGED <<call, buffer_sz, len, indices, p, left, stage, visits>>

\* The last entry is linked to the first, and the walk starts at the buffer.
Close ==
  /\ stage = "link" /\ idx = len
  /\ buffer' = [buffer EXCEPT ![indices[len - 1]] = Address(indices[0])]
  /\ p' = Address(0)
  /\ stage' = IF call.walk = "none" THEN "done" ELSE "chase"
  /\ UNCHANGED <<call, buffer_sz, len, indices, idx, left, visits>>

-----------------------------------------------------------------------------
(* The walk. *)

\* (Mutant) the compare-and-swap succeeds.
CasStores(word) == word # NULL

\* __sync_val_compare_and_swap(p, NULL, 0x1) stores.
CasSucceeds(word) == word = NULL

\* p = *p, with cas_chase_fail by a compare-and-swap.
Chase ==
  /\ stage = "chase" /\ left > 0
  /\ IF p \in Addresses
       THEN LET k == EntryAt(p) IN
              /\ p' = buffer[k]
              /\ buffer' = IF call.walk = "cas" /\ CasSucceeds(buffer[k])
                             THEN [buffer EXCEPT ![k] = One] ELSE buffer
              /\ visits' = [visits EXCEPT ![k] = @ + 1]
              /\ UNCHANGED stage
       ELSE stage' = "fault" /\ UNCHANGED <<p, buffer, visits>>
  /\ left' = left - 1
  /\ UNCHANGED <<call, buffer_sz, len, indices, idx>>

EndChase ==
  /\ stage = "chase" /\ left = 0
  /\ stage' = "done"
  /\ UNCHANGED <<call, buffer_sz, len, indices, buffer, idx, p, left, visits>>

Terminated == stage \in {"done", "fault", "undefined"} /\ UNCHANGED chase

ChaseNext == Allocate \/ Shuffle \/ Link \/ Close \/ Chase \/ EndChase \/ Terminated

ChaseSpec == ChaseInit /\ [][ChaseNext]_chase

-----------------------------------------------------------------------------
(* Properties. *)

\* However the indices were shuffled, the links are one cycle through all
\* entries: no set of entries but all of them is closed.  Nothing is linked
\* only if the aligned size is 0, which it is for a size of 0 and one that the
\* alignment wraps, or too large.
OneCycle ==
  /\ stage \in {"chase", "done"} =>
       \A S \in SUBSET Entry :
         S # {} /\ (\A k \in S : buffer[k] \in {Address(l) : l \in S}) => S = Entry
  /\ stage = "undefined" => call.buffer_sz = 0 \/ call.buffer_sz + entry_sz > WordModulus

\* The walk reads all entries equally often, but for the last lap, so what is
\* measured is the latency of the whole buffer; with the compare-and-swaps too,
\* which must not change a link for that.  It never leaves the buffer.
WalkIsEven ==
  /\ stage \in {"chase", "done"} => \A k, l \in Entry : visits[k] <= visits[l] + 1
  /\ stage = "fault" => buffer_sz > MemorySize
=============================================================================

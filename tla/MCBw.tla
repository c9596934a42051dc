-------------------------------- MODULE MCBw --------------------------------
(***************************************************************************)
(* The bandwidth benchmark with two threads and a few blocks.               *)
(***************************************************************************)
EXTENDS Bw, Bitwise

MCThread == 0 .. 1
NoSpuriousWakeups == {FALSE}

CommandLine(size, access_size, nb_accesses, mode, srmode) ==
  [size |-> size, t |-> Cardinality(MCThread), access_size |-> access_size, nb_accesses |-> nb_accesses,
   mode |-> mode, srmode |-> srmode]

\* Partitions of 3 and 4 blocks, a partition that is no multiple of the
\* block, one that is smaller than a block (access_count is 0), no buffer, a
\* size that wraps when it is aligned, blocks without a size, no threads.
CommandLines ==
  {CommandLine(s, a, 6, m, r) :
     s \in {7, 12}, a \in {1, 2}, m \in {"GROUPED", "INTERLEAVED"}, r \in {"SEQ", "RANDOM"}}
  \cup {CommandLine(s, 4, 1, "GROUPED", "SEQ") : s \in {0, 3, 62}}
  \cup {CommandLine(7, 0, 1, "GROUPED", "SEQ"),
        [CommandLine(7, 1, 1, "GROUPED", "SEQ") EXCEPT !.t = 0]}

BothCases == BOOLEAN

\* Masked is the bitwise and.
ASSUME MaskAssumption == \A n, mask \in 0 .. 15 : Masked(n, mask) = {n & mask}
=============================================================================

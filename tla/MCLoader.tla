------------------------------ MODULE MCLoader ------------------------------
(***************************************************************************)
(* create_graph on small binaries.                                         *)
(***************************************************************************)
EXTENDS Loader, Sequences

MCThread == 1 .. 3

\* The binary with the words of the sequence s.
Words(s) == [st_size |-> Len(s), words |-> [k \in 0 .. Len(s) - 1 |-> s[k + 1]]]

\* All edges leave one vertex and the rows are full; parallel edges, a self
\* loop and an empty row; no edge at all.
CleanBinaries == {Words(<<1, 0, 1, 2, 1, 0>>), Words(<<2, 2, 0, 1, 0, 1>>), Words(<<>>)}
\* Vertex 3 = -v as a source and as a target; vertex 4 as either.
StrayBinaries == {Words(<<3, 1, 0, 2>>), Words(<<0, 3, 1, 1>>), Words(<<4, 0>>), Words(<<1, 4>>)}
Binaries == CleanBinaries \cup StrayBinaries
BothWays == BOOLEAN
Zeroed == {0}
Garbage == {0, 1}
=============================================================================

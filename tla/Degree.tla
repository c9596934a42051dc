------------------------------- MODULE Degree -------------------------------
(***************************************************************************)
(* src/reorder/degree.py: the renumbering by degree for graphs whose       *)
(* vertices are only known from their edges.  Vertices with an edge in the *)
(* counted direction are numbered in the order of their degrees, the       *)
(* others when the rewriting loop meets them.                              *)
(*                                                                         *)
(* edges_by_node is a dict, which keeps the order in which its keys were   *)
(* first seen; only the lengths of its lists are used, so it is a sequence *)
(* of <<vertex, length>> here.  mapping is a function on the mapped        *)
(* vertices.  -w has no effect on the program.                             *)
(***************************************************************************)
EXTENDS Integers, Sequences, FiniteSets, Functions

CONSTANTS EdgeLists,   \* the inputs: sequences of <<src, dst>>
          Flags        \* the command lines: -m, -a, -i

ASSUME FlagsAssumption ==
  Flags \subseteq [maintain : BOOLEAN, ascending : BOOLEAN, indegree : BOOLEAN]
ASSUME EdgesAssumption ==
  \A l \in EdgeLists : l \in Seq(Nat \X Nat) /\ l # <<>>

VARIABLES args, edge_list, edges_by_node, ordered, mapping, sorted_output,
          next_id,  \* count: "new node ID"
          k, at     \* the loop index, and the place in the script

script == <<args, edge_list, edges_by_node, ordered, mapping, next_id, sorted_output, k, at>>

ScriptInit ==
  /\ args \in Flags /\ edge_list \in EdgeLists
  /\ edges_by_node = <<>> /\ ordered = <<>>
  /\ mapping = <<>> /\ next_id = 0 /\ sorted_output = <<>>
  /\ k = 1 /\ at = "read"

\* (Mutant) -i is ignored.
KeyOut(edge) == edge[1]

\* The vertex whose degree an edge adds to.
Key(edge) == IF args.indegree THEN edge[2] ELSE edge[1]

\* edges_by_node[key].append(..)
ReadEdge ==
  /\ at = "read" /\ k <= Len(edge_list)
  /\ LET v == Key(edge_list[k]) IN
       edges_by_node' =
         IF \E n \in DOMAIN edges_by_node : edges_by_node[n][1] = v
           THEN [n \in DOMAIN edges_by_node |->
                   IF edges_by_node[n][1] = v THEN <<v, edges_by_node[n][2] + 1>>
                                              ELSE edges_by_node[n]]
           ELSE Append(edges_by_node, <<v, 1>>)
  /\ k' = k + 1
  /\ UNCHANGED <<args, edge_list, ordered, mapping, next_id, sorted_output, at>>

\* list.sort is stable, and stays so with reverse=True.
StableOrder(m, n) ==
  LET a == edges_by_node[m][2]
      b == edges_by_node[n][2]
  IN  IF a = b THEN m < n ELSE IF args.ascending THEN a < b ELSE a > b

\* The order of the entries that is sorted; there is just one.
SortedOrders ==
  {perm \in Bijection(DOMAIN edges_by_node, DOMAIN edges_by_node) :
     \A m, n \in DOMAIN edges_by_node : m < n => StableOrder(perm[m], perm[n])}

Sort ==
  /\ at = "read" /\ k > Len(edge_list)
  /\ \E perm \in SortedOrders : ordered' = [n \in DOMAIN perm |-> edges_by_node[perm[n]][1]]
  /\ next_id' = IF args.maintain THEN 1 ELSE 0
  /\ k' = 1 /\ at' = "map"
  /\ UNCHANGED <<args, edge_list, edges_by_node, mapping, sorted_output>>

Mapped(f, v, id) == [w \in DOMAIN f \cup {v} |-> IF w = v THEN id ELSE f[w]]

\* for vertex, _ in ordered
MapVertex ==
  /\ at = "map" /\ k <= Len(ordered)
  /\ IF args.maintain /\ ordered[k] = 0
       THEN mapping' = Mapped(mapping, 0, 0) /\ UNCHANGED next_id
       ELSE mapping' = Mapped(mapping, ordered[k], next_id) /\ next_id' = next_id + 1
  /\ k' = k + 1
  /\ UNCHANGED <<args, edge_list, edges_by_node, ordered, sorted_output, at>>

EndMap ==
  /\ at = "map" /\ k > Len(ordered)
  /\ k' = 1 /\ at' = "rewrite"
  /\ UNCHANGED <<args, edge_list, edges_by_node, ordered, mapping, next_id, sorted_output>>

\* (Mutant) a number is given without counting it.
MissingKeepsCount(f, c, v) ==
  IF v \in DOMAIN f THEN [map |-> f, next_id |-> c]
                    ELSE [map |-> Mapped(f, v, c), next_id |-> c]

\* if mapping.get(v) is None: mapping[v] = count; count += 1
Missing(f, c, v) ==
  IF v \in DOMAIN f THEN [map |-> f, next_id |-> c]
                    ELSE [map |-> Mapped(f, v, c), next_id |-> c + 1]

\* One iteration of the rewriting loop.
RewriteEdge ==
  /\ at = "rewrite" /\ k <= Len(edge_list)
  /\ LET src == edge_list[k][1]
         dst == edge_list[k][2]
         one == Missing(mapping, next_id, src)
         two == Missing(one.map, one.next_id, dst)
     IN  /\ mapping' = two.map /\ next_id' = two.next_id
         /\ sorted_output' = Append(sorted_output, <<two.map[src], two.map[dst]>>)
  /\ k' = k + 1
  /\ UNCHANGED <<args, edge_list, edges_by_node, ordered, at>>

\* The output file is written.
Write ==
  /\ at = "rewrite" /\ k > Len(edge_list)
  /\ at' = "done"
  /\ UNCHANGED <<args, edge_list, edges_by_node, ordered, mapping, next_id, sorted_output, k>>

ScriptEnded == at = "done" /\ UNCHANGED script

ScriptNext == ReadEdge \/ Sort \/ MapVertex \/ EndMap \/ RewriteEdge \/ Write \/ ScriptEnded

ScriptSpec == ScriptInit /\ [][ScriptNext]_script

-----------------------------------------------------------------------------
Vertices == UNION {{edge_list[n][1], edge_list[n][2]} : n \in DOMAIN edge_list}

\* No two vertices get one number, and the numbers leave no gap: a vertex
\* numbered by its degree, one numbered by the rewriting loop and the kept
\* vertex 0 never collide.  With -m nobody else gets 0 ("0 is reserved").
NumbersAreUnique ==
  /\ IsInjective(mapping)
  /\ \A v \in DOMAIN mapping : mapping[v] < next_id
  /\ args.maintain => \A v \in DOMAIN mapping : mapping[v] = 0 => v = 0
  /\ at = "done" =>
       /\ DOMAIN mapping = Vertices
       /\ (IF args.maintain THEN 1 ELSE 0) .. next_id - 1 \subseteq Range(mapping)

\* The output is the input, in its order, with the vertices renamed, and the
\* numbers are the ones above.
OutputIsRelabelling ==
  /\ NumbersAreUnique
  /\ at = "done" =>
       /\ Len(sorted_output) = Len(edge_list)
       /\ \A m, n \in DOMAIN edge_list : \A a, b \in {1, 2} :
            edge_list[m][a] = edge_list[n][b] <=> sorted_output[m][a] = sorted_output[n][b]

\* Among the vertices with an edge in the counted direction, but for a kept
\* vertex 0, the number of such edges in the output falls (rises) with the
\* new number; the others come behind them.
DegreeInOutput(id) ==
  Cardinality({n \in DOMAIN sorted_output : sorted_output[n][IF args.indegree THEN 2 ELSE 1] = id})
OutputIsSorted ==
  at = "done" =>
    \A a, b \in Range(mapping) \ (IF args.maintain THEN {0} ELSE {}) :
      a < b => \/ DegreeInOutput(b) = 0
               \/ DegreeInOutput(a) > 0
                  /\ IF args.ascending THEN DegreeInOutput(a) <= DegreeInOutput(b)
                                       ELSE DegreeInOutput(a) >= DegreeInOutput(b)
=============================================================================

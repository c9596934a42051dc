------------------------------ MODULE MCDegree ------------------------------
(***************************************************************************)
(* degree.py on all lists of three edges among four vertices.              *)
(***************************************************************************)
EXTENDS Degree

MCEdgeLists == [1 .. 3 -> {<<0, 1>>, <<1, 0>>, <<2, 1>>, <<2, 3>>, <<3, 3>>}]
MCFlags == [maintain : BOOLEAN, ascending : BOOLEAN, indegree : BOOLEAN]
=============================================================================

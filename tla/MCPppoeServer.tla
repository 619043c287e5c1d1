---------------------------- MODULE MCPppoeServer ----------------------------
(* Symmetry for the runs of PppoeServer, whose sets are model values. *)
EXTENDS PppoeServer, TLC

\* Init takes the slots in any order, so that they are alike; clients and process ids
\* are interchangeable too.
ServerSymmetry == Permutations(Slot) \cup Permutations(Mac) \cup Permutations(Pid)
=============================================================================

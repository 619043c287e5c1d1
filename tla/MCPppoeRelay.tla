---------------------------- MODULE MCPppoeRelay ----------------------------
(* Constants and symmetry for the runs of PppoeRelay. *)
EXTENDS PppoeRelay, TLC

CONSTANTS c1, c2, a1

MCClient == {c1, c2}
MCServer == {a1}

\* pppoe-relay -C eth1 -S eth0
MCAt == [x \in MCClient \cup MCServer |-> IF x \in MCServer THEN "eth0" ELSE "eth1"]

\* The clients are at one interface, and servers take their numbers as they like.
RelaySymmetry == Permutations(MCClient) \cup Permutations(Num)
=============================================================================

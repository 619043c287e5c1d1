---------------------------- MODULE MCL2tpControl ----------------------------
(* Constants and symmetry for the runs of L2tpControl. *)
EXTENDS L2tpControl, TLC

CONSTANTS lac, lns

MCEnd == {lac, lns}

\* Both ends run the same program and start alike.
EndSymmetry == Permutations(MCEnd)
=============================================================================

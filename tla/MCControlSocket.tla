---------------------------- MODULE MCControlSocket ----------------------------
(* Constants for the runs of ControlSocket. *)
EXTENDS ControlSocket

CONSTANTS c1, c2
=============================================================================

------------------------------- MODULE MCLacDial -------------------------------
(* Constants for the runs of LacDial. *)
EXTENDS LacDial

CONSTANTS l1, l2, Limit

\* Two LACs whose redials are not due at the same time; l2 has max redials = 1.
MCRtimeout == [l \in Lac |-> IF l = l1 THEN 2 ELSE 1]
MCRmax     == [l \in Lac |-> IF l = l1 THEN Limit ELSE 1]
=============================================================================

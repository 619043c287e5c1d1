--------------------------- MODULE MCPppoeDiscovery ---------------------------
(* The instances of PppoeDiscovery that TLC checks. *)
EXTENDS PppoeDiscovery

CONSTANTS a1, a2

MCAc == {a1, a2}

MCMode(runs, hostUniq, wanted, failing) ==
  [runs |-> runs, hostUniq |-> hostUniq, wanted |-> wanted, failing |-> failing]

\* One of two concentrators is wanted, or both are; the other one is passed over, or fails.
\* pppoe with -U and without; the plugin has always a Host-Uniq.
MCModes ==
  {MCMode("pppoe", FALSE, {a1}, {}),
   MCMode("pppoe", TRUE, {a1, a2}, {a2}), MCMode("pppoe", FALSE, {a1, a2}, {a2}),
   MCMode("probe", FALSE, {a1}, {a2}),
   MCMode("plugin", TRUE, {a1}, {a2}), MCMode("plugin", TRUE, {a1, a2}, {})}

=============================================================================

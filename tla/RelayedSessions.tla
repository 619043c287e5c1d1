--------------------------- MODULE RelayedSessions ---------------------------
(***************************************************************************)
(* What pppoe-relay promises: it joins a session of a client to a session  *)
(* of a server, neither of which is joined to another at the same time.    *)
(***************************************************************************)
EXTENDS Naturals, FiniteSets

CONSTANTS ClientEnd, ServerEnd, Limit

VARIABLE joined   \* the set of pairs <<c, s>> that are joined

Unused(c, s) == \A j \in joined : j[1] # c /\ j[2] # s

Init == joined = {}

Join(c, s) ==
  /\ Unused(c, s)
  /\ Cardinality(joined) < Limit
  /\ joined' = joined \cup {<<c, s>>}

\* Several idle sessions may be cut at once.
Cut(J) == joined' = joined \ J

Next ==
  \/ \E c \in ClientEnd, s \in ServerEnd : Join(c, s)
  \/ \E J \in SUBSET joined : Cut(J)

Spec == Init /\ [][Next]_joined
=============================================================================

----------------------------- MODULE SessionPool -----------------------------
(***************************************************************************)
(* What pppoe-server promises its clients about session numbers: a number  *)
(* belongs to one client from the PADS to the end of the session, and a    *)
(* client holds no more of them than the limit.                            *)
(***************************************************************************)
EXTENDS Naturals, FiniteSets

CONSTANTS Slot, Mac, NoMac, Limit   \* Limit = 0: no limit

VARIABLE owner   \* owner[s]: the client that holds session s, or NoMac

Held(m) == {s \in Slot : owner[s] = m}

Init == owner = [s \in Slot |-> NoMac]

Open(s, m) ==
  /\ owner[s] = NoMac
  /\ Limit = 0 \/ Cardinality(Held(m)) < Limit
  /\ owner' = [owner EXCEPT ![s] = m]

\* Several sessions may end at once.
Close(S) ==
  /\ \A s \in S : owner[s] # NoMac
  /\ owner' = [s \in Slot |-> IF s \in S THEN NoMac ELSE owner[s]]

Next ==
  \/ \E s \in Slot, m \in Mac : Open(s, m)
  \/ \E S \in SUBSET Slot : Close(S)

Spec == Init /\ [][Next]_owner
=============================================================================

--------------------------- MODULE ReliableChannel ---------------------------
(***************************************************************************)
(* What the L2TP control channel promises the code above it (RFC 2661,     *)
(* section 5.8): each end's messages are taken by the other end in order,  *)
(* each once.  Loss shows only as a message that is never taken.           *)
(***************************************************************************)
EXTENDS Naturals, Sequences

CONSTANTS End, Peer(_)

VARIABLES
  sent,   \* sent[e]: how many messages e has sent
  taken   \* taken[e]: the messages of its peer that e has taken, by number

vars == <<sent, taken>>

Init ==
  /\ sent  = [e \in End |-> 0]
  /\ taken = [e \in End |-> <<>>]

Send(e) ==
  /\ sent' = [sent EXCEPT ![e] = @ + 1]
  /\ UNCHANGED taken

Take(e) ==
  /\ Len(taken[e]) < sent[Peer(e)]
  /\ taken' = [taken EXCEPT ![e] = Append(@, Len(@) + 1)]
  /\ UNCHANGED sent

Next == \E e \in End : Send(e) \/ Take(e)

Spec == Init /\ [][Next]_vars
=============================================================================

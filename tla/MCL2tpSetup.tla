------------------------------ MODULE MCL2tpSetup ------------------------------
(* Constants for the runs of L2tpSetup. *)
EXTENDS L2tpSetup

CONSTANTS LacTunnels, LnsTunnels, LacCalls, LnsCallCount

MCTunnels == [e \in End |-> IF e = "lac" THEN LacTunnels ELSE LnsTunnels]
MCCalls   == [e \in End |-> IF e = "lac" THEN LacCalls ELSE LnsCallCount]

Open1 == [lacChallenges |-> FALSE, lnsChallenges |-> FALSE, secrets |-> "same",
          authorised |-> TRUE, outgoing |-> FALSE]

\* Nobody challenges, the LNS or both do with and without the right secrets, the LAC is
\* not authorised, and outgoing calls.
MCConfs ==
  {Open1, [Open1 EXCEPT !.authorised = FALSE], [Open1 EXCEPT !.outgoing = TRUE]}
    \cup {[Open1 EXCEPT !.lnsChallenges = TRUE, !.secrets = s] : s \in {"same", "differ", "lac", "lns"}}
    \cup {[Open1 EXCEPT !.lacChallenges = TRUE, !.secrets = s] : s \in {"differ", "lac", "lns"}}
    \cup {[Open1 EXCEPT !.lacChallenges = TRUE, !.lnsChallenges = TRUE]}
=============================================================================

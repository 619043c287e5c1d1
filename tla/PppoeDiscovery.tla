---------------------------- MODULE PppoeDiscovery ----------------------------
(***************************************************************************)
(* The client of PPPoE: discovery() of discovery.c with its two waits, the *)
(* session loop of pppoe.c as far as it ends the session, and sendPADT of  *)
(* common.c, which a signal handler may call while it runs.                *)
(*                                                                         *)
(* An access concentrator answers at once or not at all and its answer     *)
(* takes as long as it likes, which is all that the client can observe of  *)
(* a request that is lost or late.  Time passes in ticks, PerSec of them   *)
(* to a second: gettimeofday counts seconds and parts of a second apart.   *)
(***************************************************************************)
EXTENDS Integers, FiniteSets

CONSTANTS
  Ac, NoAc,
  Cookied,      \* the concentrators that send a cookie, and answer only who shows it
  Relayed,      \* those behind a relay, which adds its session id tag
  Modes,        \* what may run, of ModeType
  MaxAttempts,  \* MAX_PADI_ATTEMPTS
  Timeout,      \* discoveryTimeout, in seconds
  PerSec,
  MaxLag,       \* bound: ticks that pass while a packet is looked at
  MaxSession,   \* bound: the sessions that concentrators give
  MaxConnects   \* bound: how often pppd connects

\* runs: pppoe, pppoe -A, or the plugin of pppd with persist.  hostUniq: it asks with a
\* Host-Uniq tag (pppoe only with -U or -W).  wanted: the concentrators that have the AC
\* name and the service asked for.  failing: those whose PADO has an error tag.
ModeType ==
  [runs : {"pppoe", "probe", "plugin"}, hostUniq : BOOLEAN,
   wanted : SUBSET Ac, failing : SUBSET Ac]

ASSUME DiscoveryAssumption ==
  /\ NoAc \notin Ac /\ IsFiniteSet(Ac) /\ Cookied \subseteq Ac /\ Relayed \subseteq Ac
  /\ Modes \subseteq ModeType
  /\ \A m \in Modes : m.runs = "plugin" => m.hostUniq     \* PPPOEInitDevice
  /\ {MaxAttempts, Timeout, PerSec, MaxSession, MaxConnects} \subseteq Nat \ {0}
  /\ MaxLag \in Nat

VARIABLES
  mode,
  at,      \* where the client is
  conn,    \* PPPoEConnection
  wait,    \* the locals of discovery() and of the wait it is in
  air,     \* the packets on their way to the client
  given,   \* <<a, n>>: a has opened its session n for this client
  ended,   \* <<a, n>>: a has ended its session n, of this client or of another
  padr,    \* ghost: the last PADR
  padt,    \* ghost: <<peer, session>> of each PADT sent, and how many
  why      \* why the client leaves, and the session it had

vars == <<mode, at, conn, wait, air, given, ended, padr, padt, why>>

\* offer: in waitForPADO.  confirm: in waitForPADS.  sending: sendPADT has put conn->session
\* to zero and has not sent yet.  leaving: it has.
Place == {"offer", "confirm", "session", "sending", "leaving", "gone"}

Number  == 1 .. MaxSession
Foreign == MaxSession + 1     \* a session of another client on this host
Others  == Ac \X {Foreign}
Peer    == Ac \cup {NoAc}
Tags    == [cookie : Peer, relayId : Peer]

Conn   == [state : {"SENT_PADI", "SENT_PADR", "SESSION"}, peer : Peer,
           tags : Tags, session : 0 .. Foreign, pados : BOOLEAN, connects : 1 .. MaxConnects]
Packet == [code : {"PADO", "PADS", "PADT"}, from : Ac, ours : BOOLEAN, session : 0 .. Foreign]
Padr   == [to : Peer, tags : Tags]

\* left: ticks until the deadline.  phase: the part of a second that gettimeofday shows.
\* A wait of persist is doubled once more than MaxAttempts says: see AgainPADI.
Seconds == {Timeout * 2 ^ k : k \in 0 .. MaxAttempts}
Wait    == [tries : 0 .. MaxAttempts, timeout : Seconds,
            left : 0 .. PerSec * Timeout * 2 ^ MaxAttempts, phase : 0 .. PerSec - 1]

Reason == [by : {"none", "select", "PADO error", "PADT", "own", "probed", "signal"},
           session : 0 .. Foreign]

-----------------------------------------------------------------------------
\* An operator X_Fault is X as a slip in the code would have it; the runs do not use it.

\* The concentrators' side.
Pado(a)    == [code |-> "PADO", from |-> a, ours |-> TRUE, session |-> 0]
Pads(a, n) == [code |-> "PADS", from |-> a, ours |-> TRUE, session |-> n]   \* 0: an error tag
Padt(a, n) == [code |-> "PADT", from |-> a, ours |-> TRUE, session |-> n]

Tagged(a, t) == (a \in Cookied => t.cookie = a) /\ (a \in Relayed => t.relayId = a)

\* sendPADI: the concentrators offer.  What is lost is what stays in the air.  rest: what
\* is there already.
sendPADI(rest) == air' = rest \cup {Pado(a) : a \in Ac}

\* sendPADR: to conn->peerEth, with the tags that are stored.  Nobody has the address
\* NoAc, all zeros.  The peer refuses or opens a session: for each PADR that it gets.
sendPADR(c, rest) ==
  /\ padr' = [to |-> c.peer, tags |-> c.tags]
  /\ \/ /\ air' = rest
        /\ UNCHANGED given
     \/ /\ c.peer \in Ac
        /\ air' = rest \cup {Pads(c.peer, 0)}
        /\ UNCHANGED given
     \/ /\ c.peer \in Ac
        /\ Tagged(c.peer, c.tags)
        /\ Cardinality(given) < MaxSession
        /\ LET n == Cardinality({g \in given : g[1] = c.peer}) + 1
           IN /\ given' = given \cup {<<c.peer, n>>}
              /\ air' = rest \cup {Pads(c.peer, n)}

-----------------------------------------------------------------------------
(* Time.                                                                    *)

\* time_left, for the time that the fields of wait hold: whether there is time, and
\* whether what it puts into tv is one that select takes.  A deadline that has passed in an
\* earlier second of the clock is taken for one to come, with a negative tv.
time_left(left, phase) ==
  LET sec  == (phase + left) \div PerSec
      usec == ((phase + left) % PerSec) - phase
      s    == IF usec < 0 /\ sec # 0 THEN sec - 1 ELSE sec
      u    == IF usec < 0 /\ sec # 0 THEN usec + PerSec ELSE usec
  IN IF (usec < 0 /\ sec = 0) \/ (s <= 0 /\ u <= 0) THEN "over"
     ELSE IF s < 0 THEN "invalid" ELSE "left"

\* d ticks pass.
Later(d) == [wait EXCEPT !.left = @ - d, !.phase = (@ + d) % PerSec]

\* The next turn of a wait's loop, d ticks after it took a packet that was not the one:
\* the deadline stays.
NextTurn_Restarts(d) == [Later(d) EXCEPT !.left = wait.timeout * PerSec]
NextTurn(d) == Later(d)

\* A wait begins.
Starts(tries, timeout) ==
  wait' = [tries |-> tries, timeout |-> timeout, left |-> timeout * PerSec, phase |-> wait.phase]

Goes(reason) ==
  /\ at' = "gone"
  /\ why' = [by |-> reason, session |-> 0]

-----------------------------------------------------------------------------
(* discovery()                                                              *)

Persist == mode.runs = "plugin"

\* SEND_PADI and the turns of its loop.
LoopPADI(c, rest, tries, timeout) ==
  /\ Starts(tries, timeout)
  /\ sendPADI(rest)
  /\ conn' = [c EXCEPT !.state = "SENT_PADI"]
  /\ at' = "offer"
  /\ UNCHANGED <<given, padr, why>>

\* The turns of the loop that sends the PADR.
LoopPADR(c, rest, tries, timeout) ==
  /\ Starts(tries, timeout)
  /\ sendPADR(c, rest)
  /\ conn' = [c EXCEPT !.state = "SENT_PADR"]
  /\ at' = "confirm"
  /\ UNCHANGED why

\* waitForPADO has timed out.  pppoe that has no PADO leaves the loop and sends a PADR
\* to nobody; with persist the attempts begin at zero, so that one more is made.
AfterPersist_StillDoubled == 2 * wait.timeout
AfterPersist == Timeout

AgainPADI(c, rest) ==
  \/ /\ mode.runs = "probe" /\ (c.pados \/ wait.tries = MaxAttempts)
     /\ Goes("probed")
     /\ conn' = c
     /\ air' = rest
     /\ UNCHANGED <<wait, given, padr>>
  \/ /\ mode.runs = "probe" /\ ~c.pados /\ wait.tries < MaxAttempts
     /\ LoopPADI(c, rest, wait.tries + 1, wait.timeout)
  \/ /\ mode.runs # "probe" /\ wait.tries < MaxAttempts
     /\ LoopPADI(c, rest, wait.tries + 1, 2 * wait.timeout)
  \/ /\ Persist /\ wait.tries = MaxAttempts
     /\ LoopPADI(c, rest, 0, AfterPersist)
  \/ /\ mode.runs = "pppoe" /\ wait.tries = MaxAttempts
     /\ LoopPADR(c, rest, 1, Timeout)

\* waitForPADS has timed out.  discovery returns without a session, and main of pppoe
\* starts session() all the same.
AgainPADR(c, rest) ==
  \/ /\ wait.tries < MaxAttempts
     /\ LoopPADR(c, rest, wait.tries + 1, 2 * wait.timeout)
  \/ /\ Persist /\ wait.tries = MaxAttempts
     /\ LoopPADI(c, rest, 1, Timeout)
  \/ /\ ~Persist /\ wait.tries = MaxAttempts
     /\ at' = "session"
     /\ conn' = c
     /\ air' = rest
     /\ UNCHANGED <<wait, given, padr, why>>

\* select has waited long enough.
TimesOut ==
  /\ wait.left = 0
  /\ \/ at = "offer" /\ AgainPADI(conn, air)
     \/ at = "confirm" /\ AgainPADR(conn, air)
  /\ UNCHANGED <<mode, ended, padt>>

\* A packet was not the one waited for; with the tags it had, the connection is c.
GoesOn(c, p, d) ==
  LET then == time_left(wait.left - d, (wait.phase + d) % PerSec)
  IN \/ /\ then = "left" /\ wait.left > d
        /\ conn' = c
        /\ wait' = NextTurn(d)
        /\ air' = air \ {p}
        /\ UNCHANGED <<at, given, padr, why>>
     \/ /\ then = "invalid"
        /\ Goes("select")
        /\ conn' = c
        /\ air' = air \ {p}
        /\ UNCHANGED <<wait, given, padr>>
     \/ /\ then = "over"
        /\ \/ at = "offer" /\ AgainPADI(c, air \ {p})
           \/ at = "confirm" /\ AgainPADR(c, air \ {p})

\* packetIsForMe: the host's address, and the Host-Uniq tag if the client uses it.
packetIsForMe_Any(p) == TRUE
packetIsForMe(p) == mode.hostUniq => p.ours

\* TAG_AC_COOKIE and TAG_RELAY_SESSION_ID of a packet from a: nothing else resets them.
Stored_First(t, a) ==
  [cookie  |-> IF a \in Cookied /\ t.cookie = NoAc THEN a ELSE t.cookie,
   relayId |-> IF a \in Relayed /\ t.relayId = NoAc THEN a ELSE t.relayId]
Stored(t, a) == [cookie  |-> IF a \in Cookied THEN a ELSE t.cookie,
                 relayId |-> IF a \in Relayed THEN a ELSE t.relayId]

\* waitForPADO takes a packet, with parsePADOTags.  Even a PADO that it rejects leaves its
\* cookie.  An error tag ends pppoe, and a probe only prints it.
waitForPADO(p, d) ==
  /\ at = "offer"
  /\ LET c == [conn EXCEPT !.tags = Stored(@, p.from)]
         peer == [c EXCEPT !.peer = p.from, !.pados = TRUE]
     IN \/ /\ ~packetIsForMe(p) \/ p.code # "PADO"
           /\ GoesOn(conn, p, d)
        \/ /\ packetIsForMe(p) /\ p.code = "PADO"
           /\ \/ /\ p.from \in mode.failing /\ mode.runs = "pppoe"
                 /\ Goes("PADO error")
                 /\ conn' = c
                 /\ air' = air \ {p}
                 /\ UNCHANGED <<wait, given, padr>>
              \/ /\ p.from \in mode.failing /\ Persist
                 /\ GoesOn(c, p, d)
              \/ /\ p.from \notin mode.wanted /\ (mode.runs = "probe" \/ p.from \notin mode.failing)
                 /\ GoesOn([c EXCEPT !.pados = TRUE], p, d)
              \/ /\ p.from \in mode.wanted /\ mode.runs = "probe"
                 /\ GoesOn(peer, p, d)
              \/ /\ p.from \in mode.wanted \ mode.failing /\ mode.runs # "probe"
                 /\ LoopPADR(peer, air \ {p}, 1, Timeout)
  /\ UNCHANGED <<mode, ended, padt>>

\* The packet is from conn->peerEth.
FromPeer_Any(p) == TRUE
FromPeer(p) == p.from = conn.peer

\* waitForPADS takes a packet, with parsePADSTags.
waitForPADS(p, d) ==
  /\ at = "confirm"
  /\ LET c == [conn EXCEPT !.tags.relayId = IF p.from \in Relayed THEN p.from ELSE @]
     IN \/ /\ ~FromPeer(p) \/ ~packetIsForMe(p) \/ p.code # "PADS"
           /\ GoesOn(conn, p, d)
        \/ /\ FromPeer(p) /\ packetIsForMe(p) /\ p.code = "PADS" /\ p.session = 0
           /\ GoesOn(c, p, d)
        \/ /\ FromPeer(p) /\ packetIsForMe(p) /\ p.code = "PADS" /\ p.session # 0
           /\ conn' = [c EXCEPT !.state = "SESSION", !.session = p.session]
           /\ at' = "session"
           /\ air' = air \ {p}
           /\ UNCHANGED <<wait, given, padr, why>>
  /\ UNCHANGED <<mode, ended, padt>>

\* What arrives: something on its way, or what another client of this host has asked for.
FromOthers ==
  IF at = "offer"
  THEN [code : {"PADO"}, from : Ac, ours : {FALSE}, session : {0}]
  ELSE [code : {"PADS"}, from : Ac, ours : {FALSE}, session : {0, Foreign}]

Receives ==
  \E p \in air \cup FromOthers, d \in 0 .. MaxLag : waitForPADO(p, d) \/ waitForPADS(p, d)

Tick ==
  /\ at \in {"offer", "confirm"} /\ wait.left > 0
  /\ wait' = Later(1)
  /\ UNCHANGED <<mode, at, conn, air, given, ended, padr, padt, why>>

\* A signal in discovery finds no handler yet.
Killed ==
  /\ at \in {"offer", "confirm"} /\ mode.runs = "pppoe"
  /\ Goes("signal")
  /\ UNCHANGED <<mode, conn, wait, air, given, ended, padr, padt>>

-----------------------------------------------------------------------------
(* session(), and how it ends.                                              *)

\* sendPADT puts conn->session to zero before it sends.
Taken_Kept(c) == c
Taken(c) == [c EXCEPT !.session = 0]

BeginsPADT(reason) ==
  /\ at' = IF conn.session = 0 THEN "leaving" ELSE "sending"
  /\ why' = [by |-> reason, session |-> conn.session]
  /\ conn' = Taken(conn)

\* The rest of sendPADT; the concentrator that gets it ends the session.
SendsPADT(n) ==
  /\ padt' = [padt EXCEPT ![<<conn.peer, n>>] = @ + 1]
  /\ \/ UNCHANGED ended
     \/ <<conn.peer, n>> \in given /\ ended' = ended \cup {<<conn.peer, n>>}

sendPADT ==
  /\ at = "sending"
  /\ SendsPADT(why.session)
  /\ at' = "leaving"
  /\ UNCHANGED <<mode, conn, wait, air, given, padr, why>>

\* sessionDiscoveryPacket
ForSession_Any(p) == p.code = "PADT" /\ p.from = conn.peer
ForSession(p) == p.code = "PADT" /\ p.from = conn.peer /\ p.session = conn.session

sessionDiscoveryPacket(p) ==
  /\ at = "session"
  /\ air' = air \ {p}
  /\ \/ ForSession(p) /\ BeginsPADT("PADT")
     \/ ~ForSession(p) /\ UNCHANGED <<at, conn, why>>
  /\ UNCHANGED <<mode, wait, given, ended, padr, padt>>

\* pppd closes its end, nothing came for too long, or reading or writing fails; or pppd
\* calls PPPOEDisconnectDevice.
Leaves ==
  /\ at = "session"
  /\ BeginsPADT("own")
  /\ UNCHANGED <<mode, wait, air, given, ended, padr, padt>>

\* SIGTERM, SIGINT or SIGHUP: sendPADT in the handler, wherever the program is, and exit.
sigPADT ==
  /\ at \in {"session", "sending", "leaving"} /\ mode.runs = "pppoe"
  /\ at' = "gone"
  /\ IF conn.session = 0 THEN UNCHANGED <<ended, padt>> ELSE SendsPADT(conn.session)
  /\ conn' = Taken(conn)
  /\ UNCHANGED <<mode, wait, air, given, padr, why>>

\* pppoe exits.  pppd connects again with what the connection before left in conn.
ConnectsAgain ==
  /\ at = "leaving"
  /\ \/ /\ ~Persist \/ conn.connects = MaxConnects
        /\ at' = "gone"
        /\ UNCHANGED <<conn, wait, air, given, padr, why>>
     \/ /\ Persist /\ conn.connects < MaxConnects
        /\ LoopPADI([conn EXCEPT !.connects = @ + 1], air, 1, Timeout)
  /\ UNCHANGED <<mode, ended, padt>>

\* A concentrator ends one of its sessions, as long as somebody is there to be told: of
\* another client's, whoever is in it.
AcEnds(s) ==
  /\ at # "gone"
  /\ s \in given \/ (at = "session" /\ s = <<conn.peer, conn.session>>)
  /\ ended' = ended \cup {s}
  /\ air' = air \cup {Padt(s[1], s[2])}
  /\ UNCHANGED <<mode, at, conn, wait, given, padr, padt, why>>

-----------------------------------------------------------------------------
NoTags == [cookie |-> NoAc, relayId |-> NoAc]

\* main, or PPPOEInitDevice: conn is all zeros; then the first turn of discovery.
Init ==
  /\ mode \in Modes
  /\ at = "offer"
  /\ conn = [state |-> "SENT_PADI", peer |-> NoAc, tags |-> NoTags, session |-> 0,
             pados |-> FALSE, connects |-> 1]
  /\ \E phase \in 0 .. PerSec - 1 :
       wait = [tries |-> 1, timeout |-> Timeout, left |-> Timeout * PerSec, phase |-> phase]
  /\ air = {Pado(a) : a \in Ac}
  /\ given = {}
  /\ ended = {}
  /\ padr = [to |-> NoAc, tags |-> NoTags]
  /\ padt = [s \in Peer \X (1 .. Foreign) |-> 0]
  /\ why = [by |-> "none", session |-> 0]

Next ==
  \/ TimesOut \/ Receives \/ Tick \/ Killed
  \/ sendPADT \/ Leaves \/ sigPADT \/ ConnectsAgain
  \/ \E p \in air : sessionDiscoveryPacket(p)
  \/ \E s \in (given \cup Others) \ ended : AcEnds(s)

Spec == Init /\ [][Next]_vars

\* The clock goes on, and select returns when its time is over.
FairSpec == Spec /\ WF_vars(Tick) /\ WF_vars(TimesOut)

-----------------------------------------------------------------------------
(* Properties.                                                              *)

\* Every field keeps its type; the waits are never doubled past the bound (discovery.c:763).
TypeOK ==
  /\ mode \in Modes /\ at \in Place /\ conn \in Conn /\ wait \in Wait
  /\ air \subseteq Packet
  /\ ended \subseteq given \cup Others /\ given \subseteq Ac \X Number
  /\ padr \in Padr
  /\ padt \in [Peer \X (1 .. Foreign) -> Nat]
  /\ why \in Reason

\* A client that has a session has a number from the concentrator it asked, however late the
\* answers to other requests come, and with Host-Uniq the one given to this client, however
\* many others the host has ("verifies that packet contains our unique identifier",
\* discovery.c:122).  Without the tag (discovery.c:133) it may be another client's, which
\* pppoe.8:72 warns of.
SessionIsOurs ==
  at = "session" /\ conn.state = "SESSION" =>
    \/ <<conn.peer, conn.session>> \in given
    \/ ~ mode.hostUniq /\ <<conn.peer, conn.session>> \in Others

\* A PADR goes to nobody, or to a concentrator that has the names asked for and made no
\* error, and it carries the cookie and the relay's tag that this concentrator sent, though
\* the PADOs of others have stored theirs in the same fields (discovery.c:183).
AsksRightly ==
  padr.to # NoAc => padr.to \in mode.wanted \ mode.failing /\ Tagged(padr.to, padr.tags)

\* A client that leaves because of a PADT leaves a session that its peer has ended: the
\* sessions that repeated PADRs opened may end without harm to the one in use.
EndedByPeer ==
  why.by = "PADT" => <<conn.peer, why.session>> \in ended \/ at \in {"offer", "confirm", "session"}

\* However a signal falls into sendPADT, one session gets at most one PADT (common.c:500).
PadtOnce == \A s \in DOMAIN padt : padt[s] <= 1

\* Packets that are not the one waited for never put off the end of discovery: pppoe
\* without persist gets through it, whatever arrives and whoever keeps silent.
DiscoveryEnds == mode.runs # "plugin" ~> at \notin {"offer", "confirm"}

\* What the comment at time_left says, "returns 0 if now >= *expire_at": no wait ends with a
\* time that select refuses.
NeverInvalid == why.by # "select"

=============================================================================

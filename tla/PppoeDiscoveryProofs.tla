------------------------- MODULE PppoeDiscoveryProofs -------------------------
(***************************************************************************)
(* Safety of the PPPoE client, for any concentrators, modes, timeouts and  *)
(* bounds.  The proofs do not depend on time: what is shown holds whatever *)
(* time_left says.  A lemma per step of discovery() shows that the step    *)
(* keeps IInv for a connection c that meets what its place asks (Asking,   *)
(* Asked); an action then has to show only that its c does.                *)
(***************************************************************************)
EXTENDS PppoeDiscovery, FiniteSetTheorems, TLAPS

-----------------------------------------------------------------------------
(* The inductive invariant.                                                 *)

ConnT   == [state : {"SENT_PADI", "SENT_PADR", "SESSION"}, peer : Peer, tags : Tags,
            session : Nat, pados : BOOLEAN, connects : Nat]
PacketT == [code : {"PADO", "PADS", "PADT"}, from : Ac, ours : {TRUE}, session : Nat]

Types ==
  /\ mode \in ModeType /\ (mode.runs = "plugin" => mode.hostUniq)
  /\ at \in Place /\ conn \in ConnT
  /\ air \subseteq PacketT /\ given \subseteq Ac \X Nat /\ ended \subseteq given \cup Others
  /\ padr \in Padr
  /\ padt \in [Peer \X (1 .. Foreign) -> {0, 1}]
  /\ why.session \in Nat

\* The packets that name a session.
IsPads(p, s) == p.code = "PADS" /\ p.session # 0 /\ <<p.from, p.session>> = s

\* s is a session of this client's, as far as it can tell.
Owned(s) == s \in given \/ (~ mode.hostUniq /\ s \in Others)

\* A PADT for s was not sent, and no PADS for it is on its way.
Unsent(s) == s \in DOMAIN padt => padt[s] = 0
Untold(s) == \A p \in air : ~ IsPads(p, s)

AirInv ==
  \A p \in air :
    /\ p.code = "PADS" /\ p.session # 0 =>
         /\ <<p.from, p.session>> \in given
         /\ mode.hostUniq => Unsent(<<p.from, p.session>>)
    /\ p.code = "PADT" => <<p.from, p.session>> \in ended

\* A concentrator numbers its sessions 1, 2, ..
GivenInv == \A a \in Ac : \E k \in Nat : \A n \in Nat : <<a, n>> \in given <=> n \in 1 .. k

Right(c) == c.peer \in mode.wanted \ mode.failing /\ Tagged(c.peer, c.tags)

\* What the connection has to be like at each place.
PlaceInv ==
  /\ conn.session # 0 =>
       /\ at = "session" /\ conn.state = "SESSION"
       /\ Owned(<<conn.peer, conn.session>>) /\ Unsent(<<conn.peer, conn.session>>)
       /\ mode.hostUniq => Untold(<<conn.peer, conn.session>>)
  /\ at = "offer" /\ mode.runs = "pppoe" => conn.peer = NoAc
  /\ at = "confirm" => conn.state = "SENT_PADR" /\ (conn.peer = NoAc \/ Right(conn))
  /\ at = "sending" =>
       /\ why.session # 0 /\ Owned(<<conn.peer, why.session>>)
       /\ Unsent(<<conn.peer, why.session>>)
       /\ mode.hostUniq => Untold(<<conn.peer, why.session>>)

SentInv == mode.hostUniq => \A s \in DOMAIN padt : padt[s] = 1 => s \in given

\* Only the plugin, which has a Host-Uniq, goes on after a PADT.
WhyInv ==
  at \in {"offer", "confirm", "session"} =>
    /\ mode.runs = "pppoe" => why.by # "PADT"
    /\ ~ mode.hostUniq => \A s \in DOMAIN padt : padt[s] = 0

IInv ==
  /\ Types /\ AirInv /\ GivenInv /\ PlaceInv /\ SentInv /\ WhyInv
  /\ SessionIsOurs /\ AsksRightly /\ EndedByPeer

-----------------------------------------------------------------------------
\* A client that has not started has no session, and nothing is in the air.
LEMMA InitIInv == Init => IInv
<1> SUFFICES ASSUME Init PROVE IInv
  OBVIOUS
<1> USE DEF Init
<1>1. Types
  <2>1. mode \in ModeType /\ at \in Place /\ (mode.runs = "plugin" => mode.hostUniq)
    BY DiscoveryAssumption DEF DiscoveryAssumption, Place
  <2>2. NoTags \in Tags
    BY DEF NoTags, Tags, Peer
  <2>3. conn \in ConnT /\ padr \in Padr
    BY <2>2 DEF ConnT, Padr, Peer
  <2>4. air \subseteq PacketT
    <3> SUFFICES ASSUME NEW a \in Ac PROVE Pado(a) \in PacketT
      BY DEF Pado
    <3> QED
      BY DEF PacketT, Pado
  <2> QED
    BY <2>1, <2>3, <2>4 DEF Types
<1>2. AirInv
  BY DEF AirInv, Pado
<1>3. GivenInv
  <2> SUFFICES ASSUME NEW a \in Ac PROVE \A n \in Nat : <<a, n>> \in given <=> n \in 1 .. 0
    BY DEF GivenInv
  <2> QED
    OBVIOUS
<1>4. PlaceInv /\ WhyInv /\ SessionIsOurs /\ AsksRightly /\ EndedByPeer
  BY DEF PlaceInv, WhyInv, SessionIsOurs, AsksRightly, EndedByPeer
<1>5. SentInv
  BY DEF SentInv
<1> QED
  BY <1>1, <1>2, <1>3, <1>4, <1>5 DEF IInv

\* The next number of a concentrator is one it has not used.
LEMMA NextNumberIsNew ==
  ASSUME IInv, NEW a \in Ac,
         NEW n, n = Cardinality({g \in given : g[1] = a}) + 1
  PROVE  /\ n \in Nat \ {0} /\ <<a, n>> \notin given
         /\ GivenInv /\ given' = given \cup {<<a, n>>} => GivenInv'
<1>1. PICK k \in Nat : \A j \in Nat : <<a, j>> \in given <=> j \in 1 .. k
  BY DEF IInv, GivenInv
<1> DEFINE S == {g \in given : g[1] = a}
<1>2. Cardinality(S) = k
  <2> DEFINE f == [j \in 1 .. k |-> <<a, j>>]
  <2>1. \A g \in S : g = <<a, g[2]>> /\ g[2] \in 1 .. k
    BY <1>1 DEF IInv, Types
  <2>2. f \in Bijection(1 .. k, S)
    <3>1. \A j \in 1 .. k : f[j] \in S
      BY <1>1
    <3>2. \A g \in S : f[g[2]] = g
      BY <2>1
    <3>3. \A i, j \in 1 .. k : f[i] = f[j] => i = j
      OBVIOUS
    <3> HIDE DEF f
    <3>4. f \in [1 .. k -> S]
      BY <3>1 DEF f
    <3> QED
      BY <3>1, <3>2, <3>3, <3>4, <2>1 DEF Bijection, Injection, Surjection, IsInjective
  <2>3. IsFiniteSet(1 .. k) /\ Cardinality(1 .. k) = k
    BY FS_Interval
  <2> QED
    BY <2>2, <2>3, FS_Bijection DEF ExistsBijection
<1>3. n = k + 1
  BY <1>2
<1>4. <<a, n>> \notin given
  BY <1>1, <1>3
<1>5. ASSUME GivenInv, given' = given \cup {<<a, n>>} PROVE GivenInv'
  <2> SUFFICES ASSUME NEW b \in Ac PROVE \E m \in Nat : \A j \in Nat : <<b, j>> \in given' <=> j \in 1 .. m
    BY DEF GivenInv
  <2>1. CASE b = a
    <3>1. \A j \in Nat : <<b, j>> \in given' <=> j \in 1 .. (k + 1)
      BY <1>1, <1>3, <1>5, <2>1
    <3> QED
      BY <3>1
  <2>2. CASE b # a
    <3>1. \A j \in Nat : <<b, j>> \in given' <=> <<b, j>> \in given
      BY <1>5, <2>2
    <3> QED
      BY <3>1, <1>5 DEF GivenInv
  <2> QED
    BY <2>1, <2>2
<1> QED
  BY <1>3, <1>4, <1>5

-----------------------------------------------------------------------------
(* The steps of discovery().                                                *)

Asking(c) == c \in ConnT /\ c.session = 0 /\ (mode.runs = "pppoe" => c.peer = NoAc)
Asked(c)  == c \in ConnT /\ c.session = 0 /\ (c.peer = NoAc \/ Right(c))

\* What a step of discovery leaves alone.
Rest == UNCHANGED <<mode, ended, padt>>

\* A step of discovery is taken where no session is, and not by pppoe that had a PADT.
Before ==
  /\ Rest /\ at \in {"offer", "confirm", "leaving"} /\ (mode.runs = "pppoe" => why.by # "PADT")
  /\ at = "leaving" => mode.hostUniq

\* A session that was not sent a PADT stays so while padt is left alone.
LEMMA UnsentKept ==
  ASSUME Rest, NEW s, Unsent(s) PROVE Unsent(s)'
BY DEF Rest, Unsent

\* What goes through the air when nothing but offers and refusals come into it.
LEMMA AirKept ==
  ASSUME IInv, Rest, given' = given,
         \A p \in air' : p \in air \/ (p \in PacketT /\ (p.code = "PADO" \/ (p.code = "PADS" /\ p.session = 0)))
  PROVE  AirInv' /\ air' \subseteq PacketT
BY DEF IInv, AirInv, Types, Rest, Unsent

\* The loop of discovery that sends a PADI, or gives up when its attempts are over.
LEMMA LoopPADIKeeps ==
  ASSUME IInv, Before, NEW c, Asking(c), NEW rest, rest \subseteq air, NEW tries, NEW timeout,
         LoopPADI(c, rest, tries, timeout)
  PROVE  IInv'
<1> USE DEF Before
<1>1. /\ air' = rest \cup {Pado(a) : a \in Ac}
      /\ conn' = [c EXCEPT !.state = "SENT_PADI"] /\ at' = "offer"
      /\ given' = given /\ padr' = padr /\ why' = why /\ mode' = mode
  BY DEF LoopPADI, sendPADI, Rest
<1>2. \A a \in Ac : Pado(a) \in PacketT /\ Pado(a).code = "PADO"
  BY DEF PacketT, Pado
<1>3. AirInv' /\ air' \subseteq PacketT
  BY <1>1, <1>2, AirKept
<1>4. conn' \in ConnT /\ conn'.session = 0 /\ conn'.peer = c.peer
  BY <1>1 DEF Asking, ConnT
<1>5. Types'
  BY <1>1, <1>3, <1>4 DEF IInv, Types, Rest, Place
<1>6. GivenInv' /\ SentInv'
  BY <1>1 DEF IInv, GivenInv, SentInv, Rest
<1>7. PlaceInv' /\ SessionIsOurs'
  BY <1>1, <1>4 DEF PlaceInv, SessionIsOurs, Asking
<1>8. WhyInv' /\ EndedByPeer'
  BY <1>1 DEF IInv, WhyInv, EndedByPeer, Rest
<1>9. AsksRightly'
  BY <1>1 DEF IInv, AsksRightly, Tagged
<1> QED
  BY <1>3, <1>5, <1>6, <1>7, <1>8, <1>9 DEF IInv

\* sendPADR to the concentrator chosen, which may answer with a new session.
LEMMA SendPADRKeeps ==
  ASSUME IInv, Rest, NEW c, Asked(c), NEW rest, rest \subseteq air, sendPADR(c, rest)
  PROVE  /\ AirInv' /\ air' \subseteq PacketT /\ GivenInv' /\ SentInv'
         /\ given' \subseteq Ac \X Nat /\ ended' \subseteq given' \cup Others
<1>1. CASE given' = given /\ (air' = rest \/ (c.peer \in Ac /\ air' = rest \cup {Pads(c.peer, 0)}))
  <2>1. c.peer \in Ac => Pads(c.peer, 0) \in PacketT /\ Pads(c.peer, 0).code = "PADS" /\ Pads(c.peer, 0).session = 0
    BY DEF PacketT, Pads
  <2>2. AirInv' /\ air' \subseteq PacketT
    BY <1>1, <2>1, AirKept
  <2> QED
    BY <1>1, <2>2 DEF IInv, GivenInv, SentInv, Types, Rest
<1>2. ASSUME NEW n, n = Cardinality({g \in given : g[1] = c.peer}) + 1, c.peer \in Ac,
             given' = given \cup {<<c.peer, n>>}, air' = rest \cup {Pads(c.peer, n)}
      PROVE  /\ AirInv' /\ air' \subseteq PacketT /\ GivenInv' /\ SentInv'
             /\ given' \subseteq Ac \X Nat /\ ended' \subseteq given' \cup Others
  <2>1. n \in Nat \ {0} /\ <<c.peer, n>> \notin given /\ GivenInv'
    BY <1>2, NextNumberIsNew DEF IInv
  <2>2. Pads(c.peer, n) \in PacketT /\ Pads(c.peer, n).from = c.peer /\ Pads(c.peer, n).session = n
        /\ Pads(c.peer, n).code = "PADS"
    BY <1>2, <2>1 DEF PacketT, Pads
  <2>3. mode.hostUniq => Unsent(<<c.peer, n>>)
    BY <2>1 DEF IInv, SentInv, Types, Unsent
  <2>4. AirInv'
    <3> SUFFICES ASSUME NEW p \in air'
                 PROVE  /\ p.code = "PADS" /\ p.session # 0 =>
                              /\ <<p.from, p.session>> \in given'
                              /\ mode.hostUniq => Unsent(<<p.from, p.session>>)'
                        /\ p.code = "PADT" => <<p.from, p.session>> \in ended'
      BY DEF AirInv, Rest
    <3>1. CASE p \in air
      BY <1>2, <3>1 DEF IInv, AirInv, Unsent, Rest
    <3>2. CASE p = Pads(c.peer, n)
      BY <1>2, <2>2, <2>3, <3>2 DEF Unsent, Rest
    <3> QED
      BY <1>2, <3>1, <3>2
  <2>5. air' \subseteq PacketT /\ given' \subseteq Ac \X Nat /\ ended' \subseteq given' \cup Others /\ SentInv'
    BY <1>2, <2>1, <2>2 DEF IInv, Types, SentInv, Rest
  <2> QED
    BY <2>1, <2>4, <2>5
<1> QED
  BY <1>1, <1>2 DEF sendPADR

\* The loop of discovery that sends a PADR, or gives up when its attempts are over.
LEMMA LoopPADRKeeps ==
  ASSUME IInv, Before, NEW c, Asked(c), NEW rest, rest \subseteq air, NEW tries, NEW timeout,
         LoopPADR(c, rest, tries, timeout)
  PROVE  IInv'
<1> USE DEF Before
<1>1. /\ sendPADR(c, rest) /\ padr' = [to |-> c.peer, tags |-> c.tags]
      /\ conn' = [c EXCEPT !.state = "SENT_PADR"] /\ at' = "confirm"
      /\ why' = why /\ mode' = mode
  BY DEF LoopPADR, sendPADR, Rest
<1>2. /\ AirInv' /\ air' \subseteq PacketT /\ GivenInv' /\ SentInv'
      /\ given' \subseteq Ac \X Nat /\ ended' \subseteq given' \cup Others
  BY <1>1, SendPADRKeeps
<1>3. /\ conn' \in ConnT /\ conn'.session = 0 /\ conn'.state = "SENT_PADR"
      /\ conn'.peer = c.peer /\ conn'.tags = c.tags
  BY <1>1 DEF Asked, ConnT
<1>4. padr' \in Padr
  BY <1>1 DEF Asked, ConnT, Padr
<1>5. Types'
  BY <1>1, <1>2, <1>3, <1>4 DEF IInv, Types, Rest, Place
<1>6. PlaceInv' /\ SessionIsOurs'
  BY <1>1, <1>3 DEF PlaceInv, SessionIsOurs, Asked, Right, Tagged
<1>7. WhyInv' /\ EndedByPeer'
  BY <1>1 DEF IInv, WhyInv, EndedByPeer, Rest
<1>8. AsksRightly'
  BY <1>1 DEF AsksRightly, Asked, Right
<1> QED
  BY <1>2, <1>5, <1>6, <1>7, <1>8 DEF IInv

\* discovery ends, or the wait goes on: neither a session nor a packet comes of it.
LEMMA QuietStepKeeps ==
  ASSUME IInv, Before, NEW c, c \in ConnT, c.session = 0, conn' = c,
         UNCHANGED <<given, padr>>, air' \subseteq air,
         \/ at' = "gone" /\ why'.by # "PADT" /\ why'.session = 0
         \/ at' = at /\ at = "offer" /\ Asking(c) /\ why' = why
         \/ at' = at /\ at = "confirm" /\ Asked(c) /\ c.state = "SENT_PADR" /\ why' = why
         \/ at' = "session" /\ c.state # "SESSION" /\ why' = why
  PROVE  IInv'
<1> USE DEF Before
<1>1. Types'
  BY DEF IInv, Types, Rest, Place
<1>2. AirInv' /\ GivenInv' /\ SentInv' /\ AsksRightly'
  BY DEF IInv, AirInv, GivenInv, SentInv, AsksRightly, Tagged, Rest, Unsent
<1>3. PlaceInv' /\ SessionIsOurs'
  BY DEF PlaceInv, SessionIsOurs, Asking, Asked, Right, Tagged, Rest
<1>4. WhyInv' /\ EndedByPeer'
  BY DEF IInv, WhyInv, EndedByPeer, Rest
<1> QED
  BY <1>1, <1>2, <1>3, <1>4 DEF IInv

\* waitForPADO is over.
LEMMA AgainPADIKeeps ==
  ASSUME IInv, Rest, at = "offer", NEW c, Asking(c), NEW rest, rest \subseteq air, AgainPADI(c, rest)
  PROVE  IInv'
<1>1. Before
  BY DEF Before, IInv, WhyInv
<1>2. ASSUME Goes("probed"), conn' = c, air' = rest, UNCHANGED <<given, padr>> PROVE IInv'
  BY <1>1, <1>2, QuietStepKeeps DEF Goes, Asking
<1>3. ASSUME NEW tries, NEW timeout, LoopPADI(c, rest, tries, timeout) PROVE IInv'
  BY <1>1, <1>3, LoopPADIKeeps
<1>4. ASSUME mode.runs = "pppoe", LoopPADR(c, rest, 1, Timeout) PROVE IInv'
  BY <1>1, <1>4, LoopPADRKeeps DEF Asking, Asked
<1> QED
  BY <1>2, <1>3, <1>4 DEF AgainPADI

\* waitForPADS is over.
LEMMA AgainPADRKeeps ==
  ASSUME IInv, Rest, at = "confirm", NEW c, Asked(c), c.state = "SENT_PADR",
         NEW rest, rest \subseteq air, AgainPADR(c, rest)
  PROVE  IInv'
<1>1. Before
  BY DEF Before, IInv, WhyInv
<1>2. ASSUME NEW tries, NEW timeout, LoopPADR(c, rest, tries, timeout) PROVE IInv'
  BY <1>1, <1>2, LoopPADRKeeps
<1>3. ASSUME Persist, LoopPADI(c, rest, 1, Timeout) PROVE IInv'
  <2>1. Asking(c)
    BY <1>3 DEF Persist, Asking, Asked
  <2> QED
    BY <1>1, <1>3, <2>1, LoopPADIKeeps
<1>4. ASSUME at' = "session", conn' = c, air' = rest, UNCHANGED <<given, padr, why>> PROVE IInv'
  BY <1>1, <1>4, QuietStepKeeps DEF Asked
<1> QED
  BY <1>2, <1>3, <1>4 DEF AgainPADR

\* The connection in its wait is one that the steps above may be given.
LEMMA InWait ==
  ASSUME IInv
  PROVE  /\ at = "offer" => Asking(conn)
         /\ at = "confirm" => Asked(conn) /\ conn.state = "SENT_PADR"
BY DEF IInv, Types, PlaceInv, Asking, Asked

\* A wait that goes on with the packet p dropped.
LEMMA GoesOnKeeps ==
  ASSUME IInv, Rest, NEW c, NEW p, NEW d,
         \/ at = "offer" /\ Asking(c)
         \/ at = "confirm" /\ Asked(c) /\ c.state = "SENT_PADR",
         GoesOn(c, p, d)
  PROVE  IInv'
<1>1. Before
  BY DEF Before, IInv, WhyInv
<1>2. c \in ConnT /\ c.session = 0 /\ air \ {p} \subseteq air
  BY DEF Asking, Asked
<1>3. ASSUME conn' = c, air' = air \ {p}, UNCHANGED <<at, given, padr, why>> PROVE IInv'
  BY <1>1, <1>2, <1>3, QuietStepKeeps
<1>4. ASSUME Goes("select"), conn' = c, air' = air \ {p}, UNCHANGED <<given, padr>> PROVE IInv'
  BY <1>1, <1>2, <1>4, QuietStepKeeps DEF Goes
<1>5. ASSUME at = "offer", AgainPADI(c, air \ {p}) PROVE IInv'
  BY <1>2, <1>5, AgainPADIKeeps
<1>6. ASSUME at = "confirm", AgainPADR(c, air \ {p}) PROVE IInv'
  BY <1>2, <1>6, AgainPADRKeeps
<1> QED
  BY <1>3, <1>4, <1>5, <1>6 DEF GoesOn

-----------------------------------------------------------------------------
(* The actions.                                                             *)

\* select returns without a packet: the next attempt, or the end.
LEMMA TimesOutKeeps == ASSUME IInv, TimesOut PROVE IInv'
<1>1. Rest
  BY DEF TimesOut, Rest
<1>2. CASE at = "offer" /\ AgainPADI(conn, air)
  BY <1>1, <1>2, InWait, AgainPADIKeeps
<1>3. CASE at = "confirm" /\ AgainPADR(conn, air)
  BY <1>1, <1>3, InWait, AgainPADRKeeps
<1> QED
  BY <1>2, <1>3 DEF TimesOut

\* Packets of others come from concentrators too, but do not have the client's Host-Uniq.
LEMMA PacketKinds ==
  ASSUME IInv, NEW p, p \in air \cup FromOthers
  PROVE  /\ p.from \in Ac /\ p.session \in Nat
         /\ mode.hostUniq /\ packetIsForMe(p) => p \in air
<1>1. Foreign \in Nat
  BY DiscoveryAssumption DEF DiscoveryAssumption, Foreign
<1> QED
  <2>1. CASE p \in air
    BY <2>1 DEF IInv, Types, PacketT
  <2>2. CASE p \in FromOthers
    <3>1. p.from \in Ac /\ p.session \in {0, Foreign} /\ p.ours = FALSE
      BY <2>2 DEF FromOthers
    <3> QED
      BY <1>1, <3>1 DEF packetIsForMe
  <2> QED
    BY <2>1, <2>2

\* Only a PADO of one of the concentrators that are wanted leads to a PADR, with the tags
\* of this PADO.
LEMMA WaitForPADOKeeps ==
  ASSUME IInv, NEW p, p \in air \cup FromOthers, NEW d, waitForPADO(p, d) PROVE IInv'
<1> DEFINE c == [conn EXCEPT !.tags = Stored(@, p.from)]
           peer == [c EXCEPT !.peer = p.from, !.pados = TRUE]
<1>1. at = "offer" /\ Rest /\ Asking(conn)
  BY InWait DEF waitForPADO, Rest
<1>2. Before
  BY <1>1 DEF Before, IInv, WhyInv
<1>3. p.from \in Ac
  BY PacketKinds
<1>4. conn.tags \in Tags
  BY <1>1 DEF Asking, ConnT
<1>5. Stored(conn.tags, p.from) \in Tags
  BY <1>3, <1>4 DEF Stored, Tags, Peer
<1>6. /\ c \in ConnT /\ c.session = 0 /\ c.peer = conn.peer /\ c.state = conn.state
      /\ c.tags = Stored(conn.tags, p.from)
  BY <1>1, <1>5 DEF Asking, ConnT
<1>7. /\ peer \in ConnT /\ peer.session = 0 /\ peer.peer = p.from
      /\ peer.tags = Stored(conn.tags, p.from)
      /\ [c EXCEPT !.pados = TRUE] \in ConnT /\ [c EXCEPT !.pados = TRUE].session = 0
      /\ [c EXCEPT !.pados = TRUE].peer = conn.peer
  BY <1>3, <1>6 DEF ConnT, Peer
<1>8. Asking(c) /\ Asking([c EXCEPT !.pados = TRUE])
  BY <1>1, <1>6, <1>7 DEF Asking
<1>9. p.from \in mode.wanted \ mode.failing => Asked(peer)
  BY <1>3, <1>4, <1>7 DEF Asked, Right, Tagged, Stored, Tags
<1>10. mode.runs = "probe" => Asking(peer)
  BY <1>7 DEF Asking
<1> HIDE DEF c, peer
<1>11. ASSUME GoesOn(conn, p, d) PROVE IInv'
  BY <1>1, <1>11, GoesOnKeeps
<1>12. ASSUME Goes("PADO error"), conn' = c, air' = air \ {p}, UNCHANGED <<given, padr>> PROVE IInv'
  BY <1>2, <1>6, <1>12, QuietStepKeeps DEF Goes
<1>13. ASSUME GoesOn(c, p, d) PROVE IInv'
  BY <1>1, <1>8, <1>13, GoesOnKeeps
<1>14. ASSUME GoesOn([c EXCEPT !.pados = TRUE], p, d) PROVE IInv'
  BY <1>1, <1>8, <1>14, GoesOnKeeps
<1>15. ASSUME mode.runs = "probe", GoesOn(peer, p, d) PROVE IInv'
  BY <1>1, <1>10, <1>15, GoesOnKeeps
<1>16. ASSUME p.from \in mode.wanted \ mode.failing, LoopPADR(peer, air \ {p}, 1, Timeout) PROVE IInv'
  BY <1>2, <1>9, <1>16, LoopPADRKeeps
<1> QED
  BY <1>11, <1>12, <1>13, <1>14, <1>15, <1>16 DEF waitForPADO, c, peer

\* A packet is told by its code, its sender and its session.
LEMMA SamePacket ==
  ASSUME NEW p \in PacketT, NEW q \in PacketT,
         p.code = q.code, p.from = q.from, p.session = q.session
  PROVE  p = q
<1>1. p.ours = TRUE /\ q.ours = TRUE
  BY DEF PacketT
<1>2. /\ p = [f \in {"code", "from", "ours", "session"} |-> p[f]]
      /\ q = [f \in {"code", "from", "ours", "session"} |-> q[f]]
  BY DEF PacketT
<1> QED
  BY <1>1, <1>2, Zenon

\* A PADS that is taken is gone from the air, and names a session that no PADT was sent for.
LEMMA SessionOpens ==
  ASSUME IInv, Rest, at = "confirm", NEW p \in air \cup FromOthers, packetIsForMe(p), NEW c, Asked(c), p.from = conn.peer, c.peer = conn.peer,
         p.code = "PADS", p.session # 0,
         conn' = [c EXCEPT !.state = "SESSION", !.session = p.session], at' = "session",
         air' = air \ {p}, UNCHANGED <<given, padr, why>>
  PROVE  IInv'
<1> DEFINE s == <<conn.peer, p.session>>
<1>1. p.session \in Nat /\ p.from \in Ac
  BY PacketKinds
<1>2. /\ conn' \in ConnT /\ conn'.state = "SESSION" /\ conn'.session = p.session /\ conn'.peer = conn.peer
  BY <1>1 DEF Asked, ConnT
<1>3. Owned(s) /\ Unsent(s)
  <2>1. CASE mode.hostUniq
    <3>1. p \in air
      BY <2>1, PacketKinds
    <3> QED
      BY <2>1, <3>1 DEF IInv, AirInv, Owned
  <2>2. CASE ~ mode.hostUniq
    <3>1. Unsent(s)
      BY <2>2 DEF IInv, WhyInv, Unsent
    <3>2. CASE p \in air
      BY <3>1, <3>2 DEF IInv, AirInv, Owned
    <3>3. CASE p \in FromOthers
      BY <1>1, <2>2, <3>1, <3>3 DEF FromOthers, Owned, Others
    <3> QED
      BY <3>2, <3>3
  <2> QED
    BY <2>1, <2>2
<1>4. mode.hostUniq => ~ \E q \in air \ {p} : IsPads(q, s)
  <2> SUFFICES ASSUME mode.hostUniq, NEW q \in air, IsPads(q, s) PROVE q = p
    OBVIOUS
  <2>1. q \in PacketT /\ q.code = p.code /\ q.session = p.session /\ q.from = p.from
    BY DEF IInv, Types, IsPads
  <2>2. p \in air /\ p \in PacketT
    BY PacketKinds DEF IInv, Types
  <2> QED
    BY <2>1, <2>2, SamePacket
<1>5. Unsent(s)' /\ Owned(s)' /\ (mode.hostUniq => Untold(s)')
  BY <1>3, <1>4 DEF Unsent, Untold, Owned, Rest
<1>6. Types'
  BY <1>2 DEF IInv, Types, Rest, Place
<1>7. AirInv' /\ GivenInv' /\ SentInv' /\ AsksRightly'
  BY DEF IInv, AirInv, GivenInv, SentInv, AsksRightly, Tagged, Rest, Unsent
<1>8. PlaceInv' /\ SessionIsOurs'
  BY <1>2, <1>3, <1>5 DEF PlaceInv, SessionIsOurs, Owned, Rest
<1>9. WhyInv' /\ EndedByPeer'
  BY DEF IInv, WhyInv, EndedByPeer, Rest
<1> QED
  BY <1>6, <1>7, <1>8, <1>9 DEF IInv

\* waitForPADS: only a PADS for the client with a session makes one.
LEMMA WaitForPADSKeeps ==
  ASSUME IInv, NEW p, p \in air \cup FromOthers, NEW d, waitForPADS(p, d) PROVE IInv'
<1> DEFINE c == [conn EXCEPT !.tags.relayId = IF p.from \in Relayed THEN p.from ELSE @]
<1>1. at = "confirm" /\ Rest /\ Asked(conn) /\ conn.state = "SENT_PADR"
  BY InWait DEF waitForPADS, Rest
<1>2. p.from \in Ac
  BY PacketKinds
<1>3. conn.tags \in Tags
  BY <1>1 DEF Asked, ConnT
<1>4. /\ c.tags \in Tags /\ c.tags.cookie = conn.tags.cookie
      /\ c.tags.relayId = IF p.from \in Relayed THEN p.from ELSE conn.tags.relayId
  BY <1>1, <1>2, <1>3 DEF Asked, ConnT, Tags, Peer
<1>5. c \in ConnT /\ c.session = 0 /\ c.peer = conn.peer /\ c.state = "SENT_PADR"
  BY <1>1, <1>4 DEF Asked, ConnT
<1>6. FromPeer(p) => Asked(c)
  BY <1>1, <1>4, <1>5 DEF FromPeer, Asked, Right, Tagged
<1> HIDE DEF c
<1>7. ASSUME GoesOn(conn, p, d) PROVE IInv'
  BY <1>1, <1>7, GoesOnKeeps
<1>8. ASSUME FromPeer(p), GoesOn(c, p, d) PROVE IInv'
  BY <1>1, <1>5, <1>6, <1>8, GoesOnKeeps
<1>9. ASSUME FromPeer(p), packetIsForMe(p), p.code = "PADS", p.session # 0,
             conn' = [c EXCEPT !.state = "SESSION", !.session = p.session], at' = "session",
             air' = air \ {p}, UNCHANGED <<given, padr, why>>
      PROVE  IInv'
  BY <1>1, <1>5, <1>6, <1>9, PacketKinds, SessionOpens DEF FromPeer
<1> QED
  BY <1>7, <1>8, <1>9 DEF waitForPADS, c

\* Nothing that the invariant is about changes but the place.
LEMMA KilledKeeps == ASSUME IInv, Killed PROVE IInv'
<1>1. Rest /\ Before
  BY DEF Killed, Rest, Before, IInv, WhyInv
<1>2. conn \in ConnT /\ conn.session = 0
  BY InWait DEF Killed, Asking, Asked
<1> QED
  BY <1>1, <1>2, QuietStepKeeps DEF Killed, Goes

\* Time goes on.
LEMMA TickKeeps == ASSUME IInv, Tick PROVE IInv'
<1>1. Types' /\ AirInv' /\ GivenInv' /\ SentInv' /\ AsksRightly'
  BY DEF IInv, Types, AirInv, GivenInv, SentInv, AsksRightly, Tagged, Tick, Unsent
<1>2. PlaceInv' /\ SessionIsOurs' /\ WhyInv' /\ EndedByPeer'
  BY DEF IInv, PlaceInv, SessionIsOurs, WhyInv, EndedByPeer, Tick, Unsent, Untold, IsPads, Owned, Right, Tagged
<1> QED
  BY <1>1, <1>2 DEF IInv

\* What sendPADT leaves of conn: the session is put to zero first.
LEMMA TakenSession ==
  ASSUME IInv
  PROVE  /\ Taken(conn) \in ConnT /\ Taken(conn).session = 0 /\ Taken(conn).peer = conn.peer
BY DEF IInv, Types, ConnT, Taken

\* A session is over here: sendPADT has begun, for the reason given.
LEMMA BeginsKeeps ==
  ASSUME IInv, at = "session", NEW reason, BeginsPADT(reason), air' \subseteq air,
         UNCHANGED <<mode, given, ended, padr, padt>>,
         reason = "PADT" => <<conn.peer, conn.session>> \in ended
  PROVE  IInv'
<1>1. /\ conn' \in ConnT /\ conn'.session = 0 /\ conn'.peer = conn.peer
      /\ at' = (IF conn.session = 0 THEN "leaving" ELSE "sending")
      /\ why'.by = reason /\ why'.session = conn.session
  BY TakenSession DEF BeginsPADT
<1>2. Types'
  BY <1>1 DEF IInv, Types, Place, ConnT
<1>3. AirInv' /\ GivenInv' /\ SentInv' /\ AsksRightly'
  BY DEF IInv, AirInv, GivenInv, SentInv, AsksRightly, Tagged, Unsent
<1>4. PlaceInv' /\ SessionIsOurs'
  BY <1>1 DEF IInv, PlaceInv, SessionIsOurs, Unsent, Untold, IsPads, Owned
<1>5. WhyInv' /\ EndedByPeer'
  BY <1>1 DEF IInv, WhyInv, EndedByPeer, Rest
<1> QED
  BY <1>2, <1>3, <1>4, <1>5 DEF IInv

\* sessionDiscoveryPacket: a PADT of the peer for the session ends it.
LEMMA SessionPacketKeeps == ASSUME IInv, NEW p \in air, sessionDiscoveryPacket(p) PROVE IInv'
<1> USE DEF sessionDiscoveryPacket
<1>1. CASE ForSession(p) /\ BeginsPADT("PADT")
  <2>1. <<conn.peer, conn.session>> \in ended
    BY <1>1 DEF IInv, AirInv, ForSession
  <2> QED
    BY <1>1, <2>1, BeginsKeeps
<1>2. CASE UNCHANGED <<at, conn, why>>
  <2>1. Types' /\ AirInv' /\ GivenInv' /\ SentInv' /\ AsksRightly'
    BY <1>2 DEF IInv, Types, AirInv, GivenInv, SentInv, AsksRightly, Tagged, Unsent
  <2>2. PlaceInv' /\ SessionIsOurs' /\ WhyInv' /\ EndedByPeer'
    BY <1>2 DEF IInv, PlaceInv, SessionIsOurs, WhyInv, EndedByPeer, Unsent, Untold, Owned
  <2> QED
    BY <2>1, <2>2 DEF IInv
<1> QED
  BY <1>1, <1>2

\* The client leaves its session on its own.
LEMMA LeavesKeeps == ASSUME IInv, Leaves PROVE IInv'
BY BeginsKeeps DEF Leaves

\* The PADT goes out, once for its session: none was sent before, and none will be, for no
\* PADS of this session is left that could open it again.
LEMMA PadtGoesOut ==
  ASSUME IInv, NEW n \in Nat, n # 0, Owned(<<conn.peer, n>>),
         Unsent(<<conn.peer, n>>), mode.hostUniq => Untold(<<conn.peer, n>>), SendsPADT(n),
         UNCHANGED <<mode, air, given, padr, why>>,
         conn' \in ConnT, conn'.session = 0, conn'.peer = conn.peer, at' \in {"leaving", "gone"},
         why.by # "PADT" \/ at = "sending"
  PROVE  IInv'
<1> DEFINE s == <<conn.peer, n>>
<1>1. /\ padt' = [padt EXCEPT ![s] = @ + 1] /\ ended \subseteq ended' /\ ended' \subseteq given \cup Others
  BY DEF SendsPADT, IInv, Types
<1>2. s \in DOMAIN padt => padt'[s] = 1
  BY <1>1 DEF Unsent, IInv, Types
<1>3. /\ padt' \in [Peer \X (1 .. Foreign) -> {0, 1}]
      /\ \A r \in DOMAIN padt : r # s => padt'[r] = padt[r]
  BY <1>1, <1>2 DEF IInv, Types
<1> HIDE DEF s
<1>4. Types'
  BY <1>1, <1>3 DEF IInv, Types, Place
<1>5. \A r : r # s => (Unsent(r)' <=> Unsent(r))
  BY <1>3 DEF Unsent, IInv, Types
<1>6. AirInv'
  <2> SUFFICES ASSUME NEW p \in air
               PROVE  /\ p.code = "PADS" /\ p.session # 0 =>
                            /\ <<p.from, p.session>> \in given
                            /\ mode.hostUniq => Unsent(<<p.from, p.session>>)'
                      /\ p.code = "PADT" => <<p.from, p.session>> \in ended'
    BY DEF AirInv
  <2>1. mode.hostUniq /\ p.code = "PADS" /\ p.session # 0 => <<p.from, p.session>> # s
    BY DEF Untold, IsPads, s
  <2> QED
    BY <1>1, <1>5, <2>1 DEF IInv, AirInv
<1>7. GivenInv' /\ AsksRightly'
  BY DEF IInv, GivenInv, AsksRightly, Tagged
<1>8. SentInv'
  <2> SUFFICES ASSUME mode.hostUniq, NEW r \in DOMAIN padt, padt'[r] = 1 PROVE r \in given
    BY <1>3 DEF SentInv, IInv, Types
  <2> QED
    BY <1>3 DEF IInv, SentInv, Owned, s
<1>9. PlaceInv' /\ SessionIsOurs' /\ WhyInv'
  BY DEF PlaceInv, SessionIsOurs, WhyInv
<1>10. EndedByPeer'
  BY <1>1 DEF IInv, EndedByPeer
<1> QED
  BY <1>4, <1>6, <1>7, <1>8, <1>9, <1>10 DEF IInv

\* The rest of sendPADT, for the session taken from conn.
LEMMA SendPADTKeeps == ASSUME IInv, sendPADT PROVE IInv'
<1>1. /\ why.session \in Nat /\ why.session # 0 /\ Owned(<<conn.peer, why.session>>)
      /\ Unsent(<<conn.peer, why.session>>)
      /\ mode.hostUniq => Untold(<<conn.peer, why.session>>)
      /\ conn \in ConnT /\ conn.session = 0
  BY DEF sendPADT, IInv, PlaceInv, Types
<1> QED
  BY <1>1, PadtGoesOut DEF sendPADT

\* A signal in the middle of sendPADT finds session 0 and sends nothing.
LEMMA SigPADTKeeps == ASSUME IInv, sigPADT PROVE IInv'
<1>1. conn' \in ConnT /\ conn'.session = 0 /\ conn'.peer = conn.peer
  BY TakenSession DEF sigPADT
<1>2. CASE conn.session = 0
  <2>1. Types' /\ AirInv' /\ GivenInv' /\ SentInv' /\ AsksRightly'
    BY <1>1, <1>2 DEF IInv, Types, AirInv, GivenInv, SentInv, AsksRightly, Tagged, Unsent, Place, sigPADT
  <2>2. PlaceInv' /\ SessionIsOurs' /\ WhyInv'
    BY <1>1 DEF PlaceInv, SessionIsOurs, WhyInv, sigPADT
  <2>3. EndedByPeer'
    BY <1>1, <1>2 DEF IInv, WhyInv, EndedByPeer, sigPADT
  <2> QED
    BY <2>1, <2>2, <2>3 DEF IInv
<1>3. CASE conn.session # 0
  <2>1. /\ conn.session \in Nat /\ Owned(<<conn.peer, conn.session>>)
        /\ Unsent(<<conn.peer, conn.session>>)
        /\ mode.hostUniq => Untold(<<conn.peer, conn.session>>)
        /\ at = "session"
    BY <1>3 DEF IInv, PlaceInv, Types, ConnT
  <2>2. why.by # "PADT"
    BY <2>1 DEF IInv, WhyInv, sigPADT
  <2> QED
    BY <1>1, <1>3, <2>1, <2>2, PadtGoesOut DEF sigPADT
<1> QED
  BY <1>2, <1>3

\* PPPOEConnectDevice once more, with the conn there is.
LEMMA ConnectsAgainKeeps == ASSUME IInv, ConnectsAgain PROVE IInv'
<1>1. Rest /\ conn.session = 0 /\ conn \in ConnT
  BY DEF ConnectsAgain, Rest, IInv, PlaceInv, Types
<1>2. CASE at' = "gone" /\ UNCHANGED <<conn, wait, air, given, padr, why>>
  <2>1. Types' /\ AirInv' /\ GivenInv' /\ SentInv' /\ AsksRightly'
    BY <1>1, <1>2 DEF IInv, Types, AirInv, GivenInv, SentInv, AsksRightly, Tagged, Unsent, Place, Rest
  <2>2. PlaceInv' /\ SessionIsOurs' /\ WhyInv' /\ EndedByPeer'
    BY <1>1, <1>2 DEF IInv, PlaceInv, SessionIsOurs, WhyInv, EndedByPeer, Rest, ConnectsAgain
  <2> QED
    BY <2>1, <2>2 DEF IInv
<1>3. CASE Persist /\ LoopPADI([conn EXCEPT !.connects = @ + 1], air, 1, Timeout)
  <2> DEFINE c == [conn EXCEPT !.connects = @ + 1]
  <2>1. c \in ConnT /\ c.session = 0
    BY <1>1 DEF ConnT
  <2>2. Asking(c) /\ Before
    BY <1>1, <1>3, <2>1 DEF Asking, Before, Persist, ConnectsAgain, IInv, Types
  <2> HIDE DEF c
  <2> QED
    BY <1>3, <2>2, LoopPADIKeeps DEF c
<1> QED
  BY <1>2, <1>3 DEF ConnectsAgain

\* A concentrator ends a session and says so.
LEMMA AcEndsKeeps == ASSUME IInv, NEW s \in (given \cup Others) \ ended, AcEnds(s) PROVE IInv'
<1>1. /\ s \in Ac \X Nat /\ s = <<s[1], s[2]>>
      /\ Padt(s[1], s[2]) \in PacketT /\ Padt(s[1], s[2]).code = "PADT"
      /\ Padt(s[1], s[2]).from = s[1] /\ Padt(s[1], s[2]).session = s[2]
  BY DiscoveryAssumption DEF IInv, Types, Padt, PacketT, Others, Foreign, DiscoveryAssumption
<1>2. /\ air' = air \cup {Padt(s[1], s[2])} /\ ended' = ended \cup {s}
      /\ UNCHANGED <<mode, at, conn, wait, given, padr, padt, why>>
  BY DEF AcEnds
<1>3. Types' /\ GivenInv' /\ SentInv' /\ AsksRightly'
  BY <1>1, <1>2 DEF IInv, Types, GivenInv, SentInv, AsksRightly, Tagged
<1>4. AirInv'
  BY <1>1, <1>2 DEF IInv, AirInv, Unsent
<1>5. \A r : (Untold(r)' <=> Untold(r)) /\ (Unsent(r)' <=> Unsent(r))
  BY <1>1, <1>2 DEF Untold, IsPads, Unsent
<1>6. PlaceInv' /\ SessionIsOurs' /\ WhyInv' /\ EndedByPeer'
  BY <1>2, <1>5 DEF Owned, IInv, PlaceInv, SessionIsOurs, WhyInv, EndedByPeer, Right, Tagged
<1> QED
  BY <1>3, <1>4, <1>6 DEF IInv

\* Every step keeps the invariant.
LEMMA NextKeeps == ASSUME IInv, [Next]_vars PROVE IInv'
<1>1. ASSUME NEW p \in air \cup FromOthers, NEW d, waitForPADO(p, d) \/ waitForPADS(p, d) PROVE IInv'
  BY <1>1, WaitForPADOKeeps, WaitForPADSKeeps
<1>2. CASE UNCHANGED vars
  <2>1. Types' /\ AirInv' /\ GivenInv' /\ SentInv' /\ AsksRightly'
    BY <1>2 DEF IInv, Types, AirInv, GivenInv, SentInv, AsksRightly, Tagged, vars, Unsent
  <2>2. PlaceInv' /\ SessionIsOurs' /\ WhyInv' /\ EndedByPeer'
    BY <1>2 DEF IInv, PlaceInv, SessionIsOurs, WhyInv, EndedByPeer, vars, Unsent, Untold, IsPads, Owned, Right, Tagged
  <2> QED
    BY <2>1, <2>2 DEF IInv
<1> QED
  BY <1>1, <1>2, TimesOutKeeps, TickKeeps, KilledKeeps, SendPADTKeeps, LeavesKeeps, SigPADTKeeps,
     ConnectsAgainKeeps, SessionPacketKeeps, AcEndsKeeps DEF Next, Receives

\* The invariant holds always, for any concentrators, modes, timeouts and attempts (discovery,
\* waitForPADO, waitForPADS, sendPADT).
THEOREM Invariance == Spec => []IInv
<1>1. Init => IInv
  BY InitIInv
<1>2. IInv /\ [Next]_vars => IInv'
  BY NextKeeps
<1> QED
  BY <1>1, <1>2, PTL DEF Spec

-----------------------------------------------------------------------------
(* The results.                                                             *)

\* waitForPADS: a client that has a session has the number its peer gave to this client.
THEOREM SessionsAreOurs == Spec => []SessionIsOurs
<1>1. IInv => SessionIsOurs
  BY DEF IInv
<1> QED
  BY <1>1, Invariance, PTL

\* parsePADOTags, sendPADR: a PADR goes to a concentrator that is wanted, with its own tags.
THEOREM RightOnesAreAsked == Spec => []AsksRightly
<1>1. IInv => AsksRightly
  BY DEF IInv
<1> QED
  BY <1>1, Invariance, PTL

\* sessionDiscoveryPacket: a PADT ends the client's session only when its peer ended it.
THEOREM PeersEndSessions == Spec => []EndedByPeer
<1>1. IInv => EndedByPeer
  BY DEF IInv
<1> QED
  BY <1>1, Invariance, PTL

\* sendPADT and sigPADT: one PADT for a session, however a signal falls between.
THEOREM OnePadtPerSession == Spec => []PadtOnce
<1>1. IInv => PadtOnce
  BY DEF IInv, Types, PadtOnce
<1> QED
  BY <1>1, Invariance, PTL
=============================================================================

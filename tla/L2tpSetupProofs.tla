---------------------------- MODULE L2tpSetupProofs ----------------------------
(***************************************************************************)
(* The set-up of tunnels and calls, for any numbers of them, any addresses *)
(* and any configurations.  Handlers work on a world, and so does the      *)
(* invariant: it is Good after each of the parts a handler is made of, and *)
(* what two tunnels say to each other about their calls, with the message  *)
(* that a handler has in hand, goes on as it should (Talk).                *)
(***************************************************************************)
EXTENDS L2tpSetup, ListLemmas

\* The types of a world.
IsWorld(w) ==
  /\ w = [tun |-> w.tun, call |-> w.call, box |-> w.box, used |-> w.used, local |-> w.local]
  /\ w.tun = [e \in End |-> w.tun[e]] /\ \A e \in End : w.tun[e] \in [TunnelIds(e) -> Tunnel]
  /\ w.call = [e \in End |-> w.call[e]] /\ \A e \in End : w.call[e] \in [CallIds(e) -> Call]
  /\ w.box = [e \in End |-> w.box[e]] /\ \A e \in End : w.box[e] \in [TunnelIds(e) -> Seq(Message)]
  /\ w.used \in SUBSET (Pool \cup LocalPool) /\ w.local \in LocalPool \cup {0}

-----------------------------------------------------------------------------
(* The invariant.                                                           *)

Up(w, e, t) == w.tun[e][t].state = "SCCCN"

\* Some message had a flaw or was unasked, or a ZLB was counted in.
Odd == mishaps # 0
Ill == conf.outgoing /\ Odd

\* The LAC's end of a tunnel was up at some time, or the LNS may have heard so unasked.
Past(w, t) == w.tun["lac"][t].state \in {"SCCCN", "gone"} \/ Odd

\* An LNS that challenges has sent an answer only when it has a secret.
Secret == conf.lnsChallenges => HasSecret("lns")
Answered == {"SCCRP", "SCCCN"}

\* The tunnel s of e, while it lives, has t for its peer.
Knows(w, e, s, t) == w.tun[e][s].state = "gone" \/ w.tun[e][s].tid = t

\* Tunnels: who challenges waits for a proof, and is up only when the secrets are the same,
\* unless it is an LNS that has none.  One of the LNS knows the id of the tunnel that it was
\* made for, or none; when it is up, the other end was up before.
LacTunInv(w, t, u) ==
  /\ u.state \in {"off", "gone", "SCCRQ", "SCCCN"}
  /\ u.state = "off" => u.tid = 0
  /\ u.tid # 0 => u.heard = u.tid /\ Knows(w, "lns", u.tid, t)
  /\ u.state = "SCCRQ" => u.them = conf.lacChallenges
  /\ u.state = "SCCCN" => (conf.lacChallenges => conf.secrets = "same") /\ Secret
LnsTunInv(w, u) ==
  /\ u.tid \in {0, u.heard} /\ u.heard \in {0} \cup TunnelIds("lac")
  /\ Live(u) => u.heard # 0
  /\ u.state = "off" => u.tid = 0 /\ u.heard = 0
  /\ u.state \in Answered => u.tid # 0
  /\ u.state = "SCCRP" /\ conf.lnsChallenges /\ HasSecret("lns") => u.them
  /\ u.state = "SCCCN" => (conf.lnsChallenges /\ HasSecret("lns") => conf.secrets = "same") /\ Past(w, u.heard)
TunInv(w, e, t, u) ==
  /\ u.tid \in {0} \cup TunnelIds(Peer(e))
  /\ e = "lac" => LacTunInv(w, t, u)
  /\ e = "lns" => LnsTunInv(w, u)

\* No two tunnels of the LNS answer the same request.
Alone(w, t, u) ==
  u.state \in Answered =>
    \A y \in TunnelIds("lns") \ {t} : w.tun["lns"][y].state \in Answered => w.tun["lns"][y].tid # u.tid

\* Messages: a right response shows that the secrets are the same, and each message comes
\* from an end that was in the state to send it.
LacMsgInv(w, t, m) ==
  /\ m.kind \in {"SCCRP", "StopCCN", "ICRP", "OCRP", "OCCN", "CDN"}
  /\ m.kind = "SCCRP" => Secret
  /\ m.kind \notin {"SCCRP", "StopCCN"} => Up(w, "lac", t) \/ Odd
  /\ m.kind \in {"OCRP", "OCCN"} => conf.outgoing
LnsMsgInv(w, m) ==
  /\ m.kind \in {"SCCCN", "StopCCN", "ICRQ", "OCRQ", "ICCN", "CDN"}
  /\ m.kind = "SCCCN" => Past(w, m.from)
  /\ m.kind \in {"ICRQ", "OCRQ"} => m.cid = 0
MsgInv(w, e, t, m) ==
  /\ m.resp = "right" => conf.secrets = "same"
  /\ m.from \in TunnelIds(Peer(e)) /\ (Knows(w, Peer(e), m.from, t) \/ (e = "lns" /\ Odd))
  /\ m.kind \in {"SCCRP", "StopCCN"} => m.id = m.from
  /\ e = "lac" => LacMsgInv(w, t, m)
  /\ e = "lns" => LnsMsgInv(w, m) /\ w.tun["lns"][t].heard = m.from
BoxInv(w, e, t) == \A i \in 1 .. Len(w.box[e][t]) : MsgInv(w, e, t, w.box[e][t][i])

\* Calls: pppd runs only in a tunnel that is up, or for an OCRQ, and only an LNS has
\* addresses.  A tunnel of the LAC that does not know its peer is stuck when it has a call.
Sends(u) == u.tid # 0 \/ u.stuck
Addr(e) == IF e = "lns" THEN {0} \cup Pool ELSE {0}
CallInv(w, e, k) ==
  /\ k.addr \in Addr(e)
  /\ Live(k) => k.tun \in TunnelIds(e) /\ Live(w.tun[e][k.tun])
  /\ k.pppd => Live(k) /\ (Up(w, e, k.tun) \/ (e = "lac" /\ Ill))
  /\ e = "lns" /\ Live(k) => Up(w, e, k.tun)
  /\ e = "lac" /\ Live(k) => Sends(w.tun[e][k.tun])

\* The addresses in use are those of the calls, of each its own.
LiveCalls(w) == {c \in CallIds("lns") : Live(w.call["lns"][c])}
PoolInv(w) ==
  /\ w.used \cap Pool = {w.call["lns"][c].addr : c \in LiveCalls(w)} \ {0}
  /\ \A c, d \in LiveCalls(w) :
       c # d /\ w.call["lns"][c].addr # 0 => w.call["lns"][c].addr # w.call["lns"][d].addr

Good(w) ==
  /\ IsWorld(w)
  /\ \A e \in End : \A t \in TunnelIds(e) : TunInv(w, e, t, w.tun[e][t])
  /\ \A t \in TunnelIds("lns") : Alone(w, t, w.tun["lns"][t])
  /\ \A e \in End : \A t \in TunnelIds(e) : BoxInv(w, e, t)
  /\ \A e \in End : \A c \in CallIds(e) : CallInv(w, e, w.call[e][c])
  /\ PoolInv(w)

\* All of that but what is said of the messages.
GoodEnds(w) ==
  /\ IsWorld(w)
  /\ \A e \in End : \A t \in TunnelIds(e) : TunInv(w, e, t, w.tun[e][t])
  /\ \A t \in TunnelIds("lns") : Alone(w, t, w.tun["lns"][t])
  /\ \A e \in End : \A c \in CallIds(e) : CallInv(w, e, w.call[e][c])
  /\ PoolInv(w)

-----------------------------------------------------------------------------
(* Worlds.                                                                  *)

\* The two ends.
LEMMA EndIs ==
  /\ \A e \in End : Peer(e) \in End /\ Peer(e) # e /\ Peer(Peer(e)) = e
  /\ "lac" \in End /\ "lns" \in End /\ Peer("lac") = "lns" /\ Peer("lns") = "lac"
  /\ \A e \in End : e = "lac" \/ e = "lns"
BY DEF End, Peer

\* A change of one tunnel, of one call, and of what is on its way to one tunnel.
WithTun(w, e, t, u) == [w EXCEPT !.tun[e][t] = u]
WithCall(w, e, c, k) == [w EXCEPT !.call[e][c] = k]
WithBox(w, e, t, b) == [w EXCEPT !.box[e][t] = b]

\* What the types say of the parts of a world.
LEMMA WorldFields ==
  ASSUME NEW w, IsWorld(w), NEW e \in End
  PROVE  /\ \A t \in TunnelIds(e) : /\ w.tun[e][t] \in Tunnel /\ w.box[e][t] \in Seq(Message)
                                    /\ Len(w.box[e][t]) \in Nat /\ DOMAIN w.box[e][t] = 1 .. Len(w.box[e][t])
         /\ \A c \in CallIds(e) : w.call[e][c] \in Call
<1>1. \A t \in TunnelIds(e) : w.tun[e][t] \in Tunnel /\ w.box[e][t] \in Seq(Message)
  BY DEF IsWorld
<1>2. \A c \in CallIds(e) : w.call[e][c] \in Call
  BY DEF IsWorld
<1> QED
  BY <1>1, <1>2, LenProperties

\* WithTun changes nothing else.
LEMMA TunFields ==
  ASSUME NEW w, IsWorld(w), NEW e \in End, NEW t \in TunnelIds(e), NEW u \in Tunnel,
         NEW v, v = WithTun(w, e, t, u)
  PROVE  /\ IsWorld(v) /\ v.call = w.call /\ v.box = w.box /\ v.used = w.used /\ v.local = w.local
         /\ v.tun[e][t] = u
         /\ \A f \in End : \A s \in TunnelIds(f) : f # e \/ s # t => v.tun[f][s] = w.tun[f][s]
<1> DEFINE r == [w.tun[e] EXCEPT ![t] = u]
           f == [w.tun EXCEPT ![e] = r]
<1>1. /\ w = [tun |-> w.tun, call |-> w.call, box |-> w.box, used |-> w.used, local |-> w.local]
      /\ w.tun = [d \in End |-> w.tun[d]] /\ \A d \in End : w.tun[d] \in [TunnelIds(d) -> Tunnel]
  BY DEF IsWorld
<1>2. v = [w EXCEPT !.tun = f]
  BY DEF WithTun
<1>3. r \in [TunnelIds(e) -> Tunnel] /\ r[t] = u /\ \A s \in TunnelIds(e) : s # t => r[s] = w.tun[e][s]
  BY <1>1
<1> HIDE DEF r
<1>4. f = [d \in End |-> f[d]] /\ f[e] = r /\ \A d \in End : d # e => f[d] = w.tun[d]
  BY <1>1
<1> HIDE DEF f
<1>5. v = [tun |-> f, call |-> w.call, box |-> w.box, used |-> w.used, local |-> w.local]
  BY <1>1, <1>2
<1>6. v.tun = f /\ v.call = w.call /\ v.box = w.box /\ v.used = w.used /\ v.local = w.local
  BY <1>5
<1>7. \A d \in End : f[d] \in [TunnelIds(d) -> Tunnel]
  BY <1>1, <1>3, <1>4
<1>8. IsWorld(v)
  BY <1>4, <1>5, <1>6, <1>7 DEF IsWorld
<1> QED
  BY <1>3, <1>4, <1>6, <1>8

\* WithCall changes nothing else.
LEMMA CallFields ==
  ASSUME NEW w, IsWorld(w), NEW e \in End, NEW c \in CallIds(e), NEW k \in Call,
         NEW v, v = WithCall(w, e, c, k)
  PROVE  /\ IsWorld(v) /\ v.tun = w.tun /\ v.box = w.box /\ v.used = w.used /\ v.local = w.local
         /\ v.call[e][c] = k
         /\ \A f \in End : \A d \in CallIds(f) : f # e \/ d # c => v.call[f][d] = w.call[f][d]
<1> DEFINE r == [w.call[e] EXCEPT ![c] = k]
           f == [w.call EXCEPT ![e] = r]
<1>1. /\ w = [tun |-> w.tun, call |-> w.call, box |-> w.box, used |-> w.used, local |-> w.local]
      /\ w.call = [d \in End |-> w.call[d]] /\ \A d \in End : w.call[d] \in [CallIds(d) -> Call]
  BY DEF IsWorld
<1>2. v = [w EXCEPT !.call = f]
  BY DEF WithCall
<1>3. r \in [CallIds(e) -> Call] /\ r[c] = k /\ \A d \in CallIds(e) : d # c => r[d] = w.call[e][d]
  BY <1>1
<1> HIDE DEF r
<1>4. f = [d \in End |-> f[d]] /\ f[e] = r /\ \A d \in End : d # e => f[d] = w.call[d]
  BY <1>1
<1> HIDE DEF f
<1>5. v = [tun |-> w.tun, call |-> f, box |-> w.box, used |-> w.used, local |-> w.local]
  BY <1>1, <1>2
<1>6. v.call = f /\ v.tun = w.tun /\ v.box = w.box /\ v.used = w.used /\ v.local = w.local
  BY <1>5
<1>7. \A d \in End : f[d] \in [CallIds(d) -> Call]
  BY <1>1, <1>3, <1>4
<1>8. IsWorld(v)
  BY <1>4, <1>5, <1>6, <1>7 DEF IsWorld
<1> QED
  BY <1>3, <1>4, <1>6, <1>8

\* WithBox changes nothing else.
LEMMA BoxFields ==
  ASSUME NEW w, IsWorld(w), NEW e \in End, NEW t \in TunnelIds(e), NEW b \in Seq(Message),
         NEW v, v = WithBox(w, e, t, b)
  PROVE  /\ IsWorld(v) /\ v.tun = w.tun /\ v.call = w.call /\ v.used = w.used /\ v.local = w.local
         /\ v.box[e][t] = b
         /\ \A f \in End : \A s \in TunnelIds(f) : f # e \/ s # t => v.box[f][s] = w.box[f][s]
<1> DEFINE r == [w.box[e] EXCEPT ![t] = b]
           f == [w.box EXCEPT ![e] = r]
<1>1. /\ w = [tun |-> w.tun, call |-> w.call, box |-> w.box, used |-> w.used, local |-> w.local]
      /\ w.box = [d \in End |-> w.box[d]] /\ \A d \in End : w.box[d] \in [TunnelIds(d) -> Seq(Message)]
  BY DEF IsWorld
<1>2. v = [w EXCEPT !.box = f]
  BY DEF WithBox
<1>3. r \in [TunnelIds(e) -> Seq(Message)] /\ r[t] = b /\ \A s \in TunnelIds(e) : s # t => r[s] = w.box[e][s]
  BY <1>1
<1> HIDE DEF r
<1>4. f = [d \in End |-> f[d]] /\ f[e] = r /\ \A d \in End : d # e => f[d] = w.box[d]
  BY <1>1
<1> HIDE DEF f
<1>5. v = [tun |-> w.tun, call |-> w.call, box |-> f, used |-> w.used, local |-> w.local]
  BY <1>1, <1>2
<1>6. v.box = f /\ v.tun = w.tun /\ v.call = w.call /\ v.used = w.used /\ v.local = w.local
  BY <1>5
<1>7. \A d \in End : f[d] \in [TunnelIds(d) -> Seq(Message)]
  BY <1>1, <1>3, <1>4
<1>8. IsWorld(v)
  BY <1>4, <1>5, <1>6, <1>7 DEF IsWorld
<1> QED
  BY <1>3, <1>4, <1>6, <1>8

\* A tunnel changed twice, and a call changed twice.
LEMMA TunTwice ==
  ASSUME NEW w, IsWorld(w), NEW e \in End, NEW t \in TunnelIds(e), NEW u, NEW x
  PROVE  WithTun(WithTun(w, e, t, u), e, t, x) = WithTun(w, e, t, x)
<1> DEFINE h == w.tun
           r == [h[e] EXCEPT ![t] = u]
           f == [h EXCEPT ![e] = r]
           y == [w EXCEPT !.tun = f]
           q == [h[e] EXCEPT ![t] = x]
<1>1. /\ w = [tun |-> h, call |-> w.call, box |-> w.box, used |-> w.used, local |-> w.local]
      /\ h = [d \in End |-> h[d]] /\ h[e] \in [TunnelIds(e) -> Tunnel]
  BY DEF IsWorld
<1>2. y = WithTun(w, e, t, u) /\ WithTun(w, e, t, x) = [w EXCEPT !.tun = [h EXCEPT ![e] = q]]
  BY DEF WithTun
<1>3. WithTun(y, e, t, x) = [y EXCEPT !.tun = [y.tun EXCEPT ![e] = [y.tun[e] EXCEPT ![t] = x]]]
  BY DEF WithTun
<1>4. y.tun = f
  BY <1>1
<1>5. [r EXCEPT ![t] = x] = q
  BY <1>1
<1> HIDE DEF r, q
<1>6. f[e] = r /\ [f EXCEPT ![e] = q] = [h EXCEPT ![e] = q]
  BY <1>1
<1> HIDE DEF f
<1>7. WithTun(y, e, t, x) = [y EXCEPT !.tun = [h EXCEPT ![e] = q]]
  BY <1>3, <1>4, <1>5, <1>6
<1> DEFINE g == [h EXCEPT ![e] = q]
<1> HIDE DEF g
<1>8. [y EXCEPT !.tun = g] = [w EXCEPT !.tun = g]
  BY <1>1
<1> QED
  BY <1>2, <1>7, <1>8 DEF g

\* The same of a call.
LEMMA CallTwice ==
  ASSUME NEW w, IsWorld(w), NEW e \in End, NEW c \in CallIds(e), NEW u, NEW x
  PROVE  WithCall(WithCall(w, e, c, u), e, c, x) = WithCall(w, e, c, x)
<1> DEFINE h == w.call
           r == [h[e] EXCEPT ![c] = u]
           f == [h EXCEPT ![e] = r]
           y == [w EXCEPT !.call = f]
           q == [h[e] EXCEPT ![c] = x]
<1>1. /\ w = [tun |-> w.tun, call |-> h, box |-> w.box, used |-> w.used, local |-> w.local]
      /\ h = [d \in End |-> h[d]] /\ h[e] \in [CallIds(e) -> Call]
  BY DEF IsWorld
<1>2. y = WithCall(w, e, c, u) /\ WithCall(w, e, c, x) = [w EXCEPT !.call = [h EXCEPT ![e] = q]]
  BY DEF WithCall
<1>3. WithCall(y, e, c, x) = [y EXCEPT !.call = [y.call EXCEPT ![e] = [y.call[e] EXCEPT ![c] = x]]]
  BY DEF WithCall
<1>4. y.call = f
  BY <1>1
<1>5. [r EXCEPT ![c] = x] = q
  BY <1>1
<1> HIDE DEF r, q
<1>6. f[e] = r /\ [f EXCEPT ![e] = q] = [h EXCEPT ![e] = q]
  BY <1>1
<1> HIDE DEF f
<1>7. WithCall(y, e, c, x) = [y EXCEPT !.call = [h EXCEPT ![e] = q]]
  BY <1>3, <1>4, <1>5, <1>6
<1> DEFINE g == [h EXCEPT ![e] = q]
<1> HIDE DEF g
<1>8. [y EXCEPT !.call = g] = [w EXCEPT !.call = g]
  BY <1>1
<1> QED
  BY <1>2, <1>7, <1>8 DEF g

-----------------------------------------------------------------------------
(* What keeps a world good.                                                 *)

\* The calls and the addresses change, but nothing else.
LEMMA OtherParts ==
  ASSUME NEW w, Good(w), NEW v, IsWorld(v), v.tun = w.tun, v.box = w.box,
         \A e \in End : \A c \in CallIds(e) : CallInv(w, e, v.call[e][c]), PoolInv(v)
  PROVE  Good(v)
<1>1. \A f \in End : \A s \in TunnelIds(f) : TunInv(v, f, s, v.tun[f][s])
  <2>1. \A s, u : (LnsTunInv(w, u) <=> LnsTunInv(v, u)) /\ (LacTunInv(w, s, u) <=> LacTunInv(v, s, u))
    BY DEF LnsTunInv, LacTunInv, Past, Knows
  <2> QED
    BY <2>1 DEF Good, TunInv
<1>2. \A s \in TunnelIds("lns") : Alone(v, s, v.tun["lns"][s])
  BY DEF Good, Alone
<1>3. ASSUME NEW f \in End, NEW s \in TunnelIds(f)
      PROVE  BoxInv(v, f, s)
  <2>1. \A m : MsgInv(w, f, s, m) <=> MsgInv(v, f, s, m)
    BY DEF MsgInv, LacMsgInv, LnsMsgInv, Up, Past, Knows
  <2> QED
    BY <2>1 DEF BoxInv, Good
<1>4. \A f \in End : \A d \in CallIds(f) : CallInv(v, f, v.call[f][d])
  <2> SUFFICES ASSUME NEW f \in End, NEW d \in CallIds(f) PROVE CallInv(v, f, v.call[f][d])
    OBVIOUS
  <2>1. CallInv(w, f, v.call[f][d])
    OBVIOUS
  <2> DEFINE k == v.call[f][d]
  <2> HIDE DEF k
  <2>2. CallInv(v, f, k)
    <3> SUFFICES ASSUME CallInv(w, f, k) PROVE CallInv(v, f, k)
      BY <2>1 DEF k
    <3> QED
      BY DEF CallInv, Up
  <2> QED
    BY <2>2 DEF k
<1> QED
  BY <1>1, <1>2, <1>3, <1>4 DEF Good

\* A tunnel that lives, is up, gone or stuck, or knows or has heard its peer, goes on so.
Keeps(u, x) ==
  /\ x.state = "SCCCN" => u.state = "SCCCN"
  /\ x.state = "gone" => u.state = "gone"
  /\ Live(x) => Live(u)
  /\ x.tid # 0 => u.tid = x.tid
  /\ x.heard # 0 => u.heard = x.heard
  /\ x.stuck => u.stuck
\* No tunnel has the id 0.
LEMMA IdsArePositive == \A e \in End : \A t \in TunnelIds(e) : t \in Nat /\ t # 0
BY CountAssumption DEF TunnelIds

\* One tunnel changes.
LEMMA TunGood ==
  ASSUME NEW w, Good(w), NEW e \in End, NEW t \in TunnelIds(e), NEW u \in Tunnel,
         NEW v, v = WithTun(w, e, t, u), TunInv(w, e, t, u), e = "lns" => Alone(w, t, u),
         Keeps(u, w.tun[e][t])
  PROVE  Good(v)
<1>1. /\ IsWorld(v) /\ v.call = w.call /\ v.box = w.box /\ v.used = w.used /\ v.local = w.local
      /\ v.tun[e][t] = u
      /\ \A f \in End : \A s \in TunnelIds(f) : f # e \/ s # t => v.tun[f][s] = w.tun[f][s]
  BY TunFields DEF Good
<1>2. /\ \A f \in End : \A s \in TunnelIds(f) : Up(w, f, s) => Up(v, f, s)
      /\ \A s \in TunnelIds("lac") : Past(w, s) => Past(v, s)
      /\ \A f \in End : \A s \in TunnelIds(f) : \A y : y # 0 /\ Knows(w, f, s, y) => Knows(v, f, s, y)
      /\ \A f \in End : \A s \in TunnelIds(f) : Live(w.tun[f][s]) => Live(v.tun[f][s])
      /\ \A f \in End : \A s \in TunnelIds(f) : Sends(w.tun[f][s]) => Sends(v.tun[f][s])
      /\ \A f \in End : \A s \in TunnelIds(f) : w.tun[f][s].heard # 0 => v.tun[f][s].heard = w.tun[f][s].heard
  BY <1>1, EndIs DEF Up, Past, Knows, Keeps, Sends
<1>3. ASSUME NEW f \in End, NEW s \in TunnelIds(f)
      PROVE  TunInv(v, f, s, v.tun[f][s])
  <2>1. TunInv(w, f, s, v.tun[f][s])
    BY <1>1 DEF Good
  <2>2. f = "lac" => LacTunInv(v, s, v.tun[f][s])
    BY <1>2, <2>1, EndIs, IdsArePositive DEF TunInv, LacTunInv
  <2>3. f = "lns" => LnsTunInv(v, v.tun[f][s])
    BY <1>2, <2>1 DEF TunInv, LnsTunInv, Live
  <2> QED
    BY <2>1, <2>2, <2>3 DEF TunInv
<1>4. ASSUME NEW s \in TunnelIds("lns")
      PROVE  Alone(v, s, v.tun["lns"][s])
  <2>1. Alone(w, s, w.tun["lns"][s])
    BY DEF Good
  <2>2. CASE e # "lns"
    BY <1>1, <2>1, <2>2, EndIs DEF Alone
  <2>3. CASE e = "lns" /\ s = t
    BY <1>1, <2>3, EndIs DEF Alone
  <2>4. CASE e = "lns" /\ s # t
    BY <1>1, <2>1, <2>4, EndIs DEF Alone
  <2> QED
    BY <2>2, <2>3, <2>4
<1>5. ASSUME NEW f \in End, NEW s \in TunnelIds(f)
      PROVE  BoxInv(v, f, s)
  <2>1. BoxInv(w, f, s)
    BY DEF Good
  <2>2. \A m : MsgInv(w, f, s, m) => MsgInv(v, f, s, m)
    BY <1>2, EndIs, IdsArePositive DEF MsgInv, LacMsgInv, LnsMsgInv
  <2> QED
    BY <1>1, <2>1, <2>2 DEF BoxInv
<1>6. ASSUME NEW f \in End, NEW c \in CallIds(f)
      PROVE  CallInv(v, f, v.call[f][c])
  <2>1. CallInv(w, f, w.call[f][c])
    BY DEF Good
  <2> QED
    BY <1>1, <1>2, <2>1 DEF CallInv
<1>7. PoolInv(v)
  BY <1>1 DEF Good, PoolInv, LiveCalls
<1> QED
  BY <1>1, <1>3, <1>4, <1>5, <1>6, <1>7 DEF Good

\* A tunnel changes neither its state nor the ids it knows, and is challenged as before.
SameTun(u, x) ==
  u.state = x.state /\ u.tid = x.tid /\ u.heard = x.heard /\ (x.them => u.them) /\ (x.state = "SCCRQ" => u.them = x.them)
  /\ (x.stuck => u.stuck)

\* Such a change keeps a world good.
LEMMA SameTunGood ==
  ASSUME NEW w, Good(w), NEW e \in End, NEW t \in TunnelIds(e), NEW u \in Tunnel,
         SameTun(u, w.tun[e][t]), NEW v, v = WithTun(w, e, t, u)
  PROVE  Good(v)
<1>1. TunInv(w, e, t, w.tun[e][t]) /\ (e = "lns" => Alone(w, t, w.tun[e][t]))
  BY DEF Good
<1>2. TunInv(w, e, t, u)
  BY <1>1 DEF TunInv, LacTunInv, LnsTunInv, SameTun, Live
<1>3. e = "lns" => Alone(w, t, u)
  BY <1>1 DEF Alone, SameTun
<1>4. Keeps(u, w.tun[e][t])
  BY DEF SameTun, Keeps, Live
<1> QED
  BY <1>2, <1>3, <1>4, TunGood

\* One call changes, but not whether it lives with its address.
LEMMA CallGood ==
  ASSUME PoolAssumption, NEW w, Good(w), NEW e \in End, NEW c \in CallIds(e), NEW k \in Call, CallInv(w, e, k),
         \/ Live(k) /\ Live(w.call[e][c]) /\ k.addr = w.call[e][c].addr
         \/ ~ Live(w.call[e][c]) /\ k.addr = 0,
         NEW v, v = WithCall(w, e, c, k)
  PROVE  Good(v)
<1>1. /\ IsWorld(v) /\ v.tun = w.tun /\ v.box = w.box /\ v.used = w.used /\ v.local = w.local
      /\ v.call[e][c] = k
      /\ \A f \in End : \A d \in CallIds(f) : f # e \/ d # c => v.call[f][d] = w.call[f][d]
  BY CallFields DEF Good
<1>2. \A f \in End : \A d \in CallIds(f) : CallInv(w, f, v.call[f][d])
  BY <1>1 DEF Good
<1>3. PoolInv(v)
  <2>1. CASE e # "lns"
    <3>1. \A d \in CallIds("lns") : v.call["lns"][d] = w.call["lns"][d]
      BY <1>1, <2>1, EndIs
    <3> QED
      BY <1>1, <3>1 DEF Good, PoolInv, LiveCalls
  <2>2. CASE e = "lns" /\ Live(k) /\ Live(w.call[e][c]) /\ k.addr = w.call[e][c].addr
    <3>1. LiveCalls(v) = LiveCalls(w) /\ \A d \in CallIds("lns") : v.call["lns"][d].addr = w.call["lns"][d].addr
      BY <1>1, <2>2, EndIs DEF LiveCalls
    <3>2. {v.call["lns"][d].addr : d \in LiveCalls(v)} = {w.call["lns"][d].addr : d \in LiveCalls(w)}
      BY <3>1 DEF LiveCalls
    <3> QED
      BY <1>1, <3>1, <3>2 DEF Good, PoolInv, LiveCalls
  <2>3. CASE e = "lns" /\ ~ Live(w.call[e][c]) /\ k.addr = 0
    <3>1. /\ \A d \in CallIds("lns") : d # c => v.call["lns"][d] = w.call["lns"][d]
          /\ v.call["lns"][c].addr = 0 /\ c \notin LiveCalls(w)
      BY <1>1, <2>3, EndIs DEF LiveCalls
    <3>2. \A d \in CallIds("lns") : d # c => (d \in LiveCalls(v) <=> d \in LiveCalls(w))
      BY <3>1 DEF LiveCalls
    <3>3. {v.call["lns"][d].addr : d \in LiveCalls(v)} \ {0} = {w.call["lns"][d].addr : d \in LiveCalls(w)} \ {0}
      BY <3>1, <3>2 DEF LiveCalls
    <3>4. \A d \in LiveCalls(v) : v.call["lns"][d].addr # 0 =>
              d \in LiveCalls(w) /\ v.call["lns"][d].addr = w.call["lns"][d].addr
      BY <3>1, <3>2 DEF LiveCalls
    <3>5. v.used \cap Pool = {v.call["lns"][d].addr : d \in LiveCalls(v)} \ {0}
      BY <1>1, <3>3 DEF Good, PoolInv
    <3>6. ASSUME NEW d1 \in LiveCalls(v), NEW d2 \in LiveCalls(v), d1 # d2, v.call["lns"][d1].addr # 0
          PROVE  v.call["lns"][d1].addr # v.call["lns"][d2].addr
      <4>1. d1 \in LiveCalls(w) /\ v.call["lns"][d1].addr = w.call["lns"][d1].addr
        BY <3>4, <3>6
      <4>2. CASE v.call["lns"][d2].addr = 0
        BY <3>6, <4>2
      <4>3. CASE v.call["lns"][d2].addr # 0
        <5>1. d2 \in LiveCalls(w) /\ v.call["lns"][d2].addr = w.call["lns"][d2].addr
          BY <3>4, <4>3
        <5> QED
          BY <3>6, <4>1, <5>1 DEF Good, PoolInv
      <4> QED
        BY <4>2, <4>3
    <3> QED
      BY <3>5, <3>6 DEF PoolInv
  <2> QED
    BY <2>1, <2>2, <2>3
<1> QED
  BY <1>1, <1>2, <1>3, OtherParts

\* What is on its way to a tunnel changes, to messages of which nothing is known.
LEMMA BoxEnds ==
  ASSUME NEW w, Good(w), NEW e \in End, NEW t \in TunnelIds(e), NEW b \in Seq(Message), NEW v, v = WithBox(w, e, t, b)
  PROVE  /\ GoodEnds(v) /\ v.tun = w.tun /\ v.box[e][t] = b
         /\ \A f \in End : \A s \in TunnelIds(f) : f # e \/ s # t => v.box[f][s] = w.box[f][s]
         /\ \A f \in End : \A s \in TunnelIds(f) : \A m : MsgInv(w, f, s, m) <=> MsgInv(v, f, s, m)
<1>1. /\ IsWorld(v) /\ v.tun = w.tun /\ v.call = w.call /\ v.used = w.used /\ v.local = w.local
      /\ v.box[e][t] = b
      /\ \A f \in End : \A s \in TunnelIds(f) : f # e \/ s # t => v.box[f][s] = w.box[f][s]
  BY BoxFields DEF Good
<1>2. \A f \in End : \A s \in TunnelIds(f) : TunInv(v, f, s, v.tun[f][s])
  <2>1. \A s, u : (LnsTunInv(w, u) <=> LnsTunInv(v, u)) /\ (LacTunInv(w, s, u) <=> LacTunInv(v, s, u))
    BY <1>1 DEF LnsTunInv, LacTunInv, Past, Knows
  <2> QED
    BY <1>1, <2>1 DEF Good, TunInv
<1>3. \A s \in TunnelIds("lns") : Alone(v, s, v.tun["lns"][s])
  BY <1>1 DEF Good, Alone
<1>4. \A f \in End : \A s \in TunnelIds(f) : \A m : MsgInv(w, f, s, m) <=> MsgInv(v, f, s, m)
  BY <1>1 DEF MsgInv, LacMsgInv, LnsMsgInv, Up, Past, Knows
<1>5. \A f \in End : \A d \in CallIds(f) : CallInv(v, f, v.call[f][d])
  <2>1. \A f \in End : \A k : CallInv(w, f, k) <=> CallInv(v, f, k)
    BY <1>1 DEF CallInv, Up, Sends
  <2> QED
    BY <1>1, <2>1 DEF Good
<1>6. PoolInv(v)
  BY <1>1 DEF Good, PoolInv, LiveCalls
<1> QED
  BY <1>1, <1>2, <1>3, <1>4, <1>5, <1>6 DEF GoodEnds

\* What is on its way to a tunnel changes.
LEMMA BoxGood ==
  ASSUME NEW w, Good(w), NEW e \in End, NEW t \in TunnelIds(e), NEW b \in Seq(Message),
         \A i \in 1 .. Len(b) : MsgInv(w, e, t, b[i]), NEW v, v = WithBox(w, e, t, b)
  PROVE  Good(v)
<1>1. /\ GoodEnds(v) /\ v.box[e][t] = b
      /\ \A f \in End : \A s \in TunnelIds(f) : f # e \/ s # t => v.box[f][s] = w.box[f][s]
      /\ \A f \in End : \A s \in TunnelIds(f) : \A m : MsgInv(w, f, s, m) <=> MsgInv(v, f, s, m)
  BY BoxEnds
<1>2. \A f \in End : \A s \in TunnelIds(f) : f # e \/ s # t => BoxInv(v, f, s)
  BY <1>1 DEF BoxInv, Good
<1>3. BoxInv(v, e, t)
  BY <1>1 DEF BoxInv
<1> QED
  BY <1>1, <1>2, <1>3 DEF Good, GoodEnds

-----------------------------------------------------------------------------
(* Messages, calls and addresses.                                           *)

\* The tunnels of v are those of w, but for what SameTun lets change.
SameTuns(v, w) == \A f \in End : \A s \in TunnelIds(f) : SameTun(v.tun[f][s], w.tun[f][s])

\* What a step of tunnel t of e leaves as it is: the other tunnels, but for what is stuck,
\* what is on its way to them, but for what comes from t, and the calls in them.
Kin(u, x) == SameTun(u, x) /\ u.needclose = x.needclose /\ u.closing = x.closing
Of(k, t) == Live(k) => k.tun = t
Has(b, m) == \E i \in 1 .. Len(b) : b[i] = m
Within(v, w, e, t) ==
  /\ \A f \in End : \A s \in TunnelIds(f) : f # e \/ s # t => Kin(v.tun[f][s], w.tun[f][s])
  /\ \A s \in TunnelIds(e) \ {t} : v.box[e][s] = w.box[e][s]
  /\ e = "lac" => \A s \in TunnelIds("lns") :
                    Live(w.tun["lns"][s]) /\ w.tun["lns"][s].tid # t => v.box["lns"][s] = w.box["lns"][s]
  /\ e = "lns" => \A s \in TunnelIds("lac") : \A m :
                    m.from # t => (Has(v.box["lac"][s], m) <=> Has(w.box["lac"][s], m))
  /\ \A f \in End : \A c \in CallIds(f) :
       /\ w.call[f][c].state # "off" => v.call[f][c].state # "off"
       /\ v.call[f][c] = w.call[f][c] \/ (f = e /\ Of(v.call[f][c], t) /\ Of(w.call[f][c], t))

\* Such steps follow one another.
LEMMA WithinAgain ==
  ASSUME NEW w, NEW v, NEW x, NEW e \in End, NEW t, Within(x, v, e, t), Within(v, w, e, t)
  PROVE  Within(x, w, e, t)
<1>1. \A f \in End : \A s \in TunnelIds(f) : f # e \/ s # t => Kin(x.tun[f][s], w.tun[f][s])
  BY DEF Within, Kin, SameTun
<1>2. e = "lac" => \A s \in TunnelIds("lns") :
         Live(w.tun["lns"][s]) /\ w.tun["lns"][s].tid # t => x.box["lns"][s] = w.box["lns"][s]
  BY EndIs DEF Within, Kin, SameTun, Live
<1>3. e = "lns" => \A s \in TunnelIds("lac") : \A m :
         m.from # t => (Has(x.box["lac"][s], m) <=> Has(w.box["lac"][s], m))
  BY DEF Within
<1>4. ASSUME NEW f \in End, NEW c \in CallIds(f)
      PROVE  /\ w.call[f][c].state # "off" => x.call[f][c].state # "off"
             /\ x.call[f][c] = w.call[f][c] \/ (f = e /\ Of(x.call[f][c], t) /\ Of(w.call[f][c], t))
  <2>1. /\ w.call[f][c].state # "off" => v.call[f][c].state # "off"
        /\ v.call[f][c] = w.call[f][c] \/ (f = e /\ Of(v.call[f][c], t) /\ Of(w.call[f][c], t))
    BY DEF Within
  <2>2. /\ v.call[f][c].state # "off" => x.call[f][c].state # "off"
        /\ x.call[f][c] = v.call[f][c] \/ (f = e /\ Of(x.call[f][c], t) /\ Of(v.call[f][c], t))
    BY DEF Within
  <2> QED
    BY <2>1, <2>2
<1> QED
  BY <1>1, <1>2, <1>3, <1>4 DEF Within

\* A change of the tunnel is one, and a change of what is on its way to it.
LEMMA TunWithin ==
  ASSUME NEW w, NEW v, NEW e \in End, NEW t, v.call = w.call, v.box = w.box,
         \A f \in End : \A s \in TunnelIds(f) : f # e \/ s # t => v.tun[f][s] = w.tun[f][s]
  PROVE  Within(v, w, e, t)
BY DEF Within, Kin, SameTun

\* The same for what is on its way to it.
LEMMA BoxWithin ==
  ASSUME NEW w, NEW v, NEW e \in End, NEW t, v.tun = w.tun, v.call = w.call,
         \A f \in End : \A s \in TunnelIds(f) : f # e \/ s # t => v.box[f][s] = w.box[f][s]
  PROVE  Within(v, w, e, t)
<1>1. \A f \in End : \A s \in TunnelIds(f) : Kin(v.tun[f][s], w.tun[f][s])
  BY DEF Kin, SameTun
<1>2. \A s \in TunnelIds(e) \ {t} : v.box[e][s] = w.box[e][s]
  OBVIOUS
<1>3. e = "lac" => \A s \in TunnelIds("lns") : v.box["lns"][s] = w.box["lns"][s]
  BY EndIs
<1>4. e = "lns" => \A s \in TunnelIds("lac") : v.box["lac"][s] = w.box["lac"][s]
  BY EndIs
<1> QED
  BY <1>1, <1>2, <1>3, <1>4 DEF Within

\* A call of the tunnel changes, is made or ends.
LEMMA CallWithin ==
  ASSUME NEW w, NEW v, NEW e \in End, NEW t, v.tun = w.tun, v.box = w.box, NEW cs \in SUBSET CallIds(e),
         \A c \in cs : Of(v.call[e][c], t) /\ Of(w.call[e][c], t) /\ v.call[e][c].state # "off",
         \A f \in End : \A d \in CallIds(f) : f # e \/ d \notin cs => v.call[f][d] = w.call[f][d]
  PROVE  Within(v, w, e, t)
BY DEF Within, Kin, SameTun

\* The LNS is up with a tunnel of the LAC that is up, or gone, unless it heard so unasked.
LEMMA PeerUp ==
  ASSUME NEW w, Good(w), NEW n \in TunnelIds("lns"), Up(w, "lns", n),
         w.tun["lns"][n].tid # 0, Live(w.tun["lac"][w.tun["lns"][n].tid])
  PROVE  Up(w, "lac", w.tun["lns"][n].tid) \/ Odd
<1> DEFINE u == w.tun["lns"][n]
<1>1. LnsTunInv(w, u) /\ u.state = "SCCCN"
  BY EndIs DEF Good, TunInv, Up
<1>2. u.tid = u.heard /\ Past(w, u.heard)
  BY <1>1 DEF LnsTunInv
<1> QED
  BY <1>2 DEF Past, Live, Up

\* What tunnel t of e may send.
MayGo(w, e, t, m) ==
  /\ m.resp = "right" => conf.secrets = "same"
  /\ m.from = t
  /\ m.kind \in {"SCCRP", "StopCCN"} => m.id = t
  /\ e = "lns" => /\ m.kind \in {"SCCRP", "StopCCN", "ICRP", "OCRP", "OCCN", "CDN"}
                  /\ m.kind = "SCCRP" => Secret
                  /\ m.kind \notin {"SCCRP", "StopCCN"} => Up(w, "lns", t)
                  /\ m.kind \in {"OCRP", "OCCN"} => conf.outgoing
  /\ e = "lac" => /\ m.kind \in {"SCCCN", "StopCCN", "ICRQ", "OCRQ", "ICCN", "CDN"}
                  /\ m.kind = "SCCCN" => Past(w, t)
                  /\ m.kind \in {"ICRQ", "OCRQ"} => m.cid = 0

\* It is what the invariant allows to be on its way.
LEMMA GoesGood ==
  ASSUME NEW w, Good(w), NEW e \in End, NEW t \in TunnelIds(e), NEW m, MayGo(w, e, t, m),
         w.tun[e][t].tid # 0, Live(w.tun[Peer(e)][w.tun[e][t].tid])
  PROVE  MsgInv(w, Peer(e), w.tun[e][t].tid, m)
<1> DEFINE s == w.tun[e][t].tid
<1>1. Knows(w, e, t, s)
  BY DEF Knows
<1>2. CASE e = "lac"
  <2>1. s \in TunnelIds("lns") /\ Knows(w, "lns", s, t) /\ TunInv(w, "lns", s, w.tun["lns"][s])
    BY Zenon, <1>2, EndIs DEF Good, TunInv, LacTunInv
  <2>2. w.tun["lns"][s].heard = t
    BY Zenon, <1>2, <2>1, EndIs, IdsArePositive DEF Knows, TunInv, LnsTunInv, Live
  <2> HIDE DEF s
  <2>3. /\ w.tun["lns"][s].heard = m.from /\ LnsMsgInv(w, m)
        /\ m.from \in TunnelIds("lac") /\ Knows(w, "lac", m.from, s)
        /\ m.resp = "right" => conf.secrets = "same"
        /\ m.kind \in {"SCCRP", "StopCCN"} => m.id = m.from
    BY <1>1, <1>2, <2>2 DEF MayGo, LnsMsgInv
  <2>4. MsgInv(w, "lns", s, m)
    BY <2>3, EndIs DEF MsgInv
  <2> QED
    BY Zenon, <1>2, <2>4, EndIs DEF s
<1>3. CASE e = "lns"
  <2>1. Up(w, "lns", t) => Up(w, "lac", s) \/ Odd
    BY <1>3, PeerUp, EndIs
  <2>2. MsgInv(w, Peer(e), s, m)
    <3> HIDE DEF s
    <3>1. LacMsgInv(w, s, m)
      BY <1>3, <2>1 DEF MayGo, LacMsgInv
    <3> QED
      BY <1>1, <1>3, <3>1, EndIs DEF MayGo, MsgInv
  <2> QED
    BY <2>2
<1> QED
  BY <1>2, <1>3, EndIs

\* The message is the last one on its way to the peer, or the tunnel is stuck.
Sent(v, w, e, t, m) ==
  LET p == Peer(e)
      s == w.tun[e][t].tid
  IN \/ v.tun[e][t].stuck /\ v.box = w.box
     \/ /\ v.tun = w.tun /\ s \in TunnelIds(p) /\ v.box[p][s] = Append(w.box[p][s], m)
        /\ \A f \in End : \A x \in TunnelIds(f) : f # p \/ x # s => v.box[f][x] = w.box[f][x]

\* A tunnel whose message is lost is stuck, and as it was otherwise.
LEMMA StuckIs ==
  ASSUME NEW u \in Tunnel, NEW x, x = [u EXCEPT !.stuck = TRUE]
  PROVE  x \in Tunnel /\ SameTun(x, u) /\ x.stuck /\ x.needclose = u.needclose /\ x.closing = u.closing
BY DEF Tunnel, SameTun

\* A message that the invariant allows may be sent (add_control_hdr, control_xmit).
LEMMA SendGood ==
  ASSUME NEW w, Good(w), NEW e \in End, NEW t \in TunnelIds(e), NEW m \in Message, MayGo(w, e, t, m),
         NEW v, v = Send(w, e, t, m)
  PROVE  /\ Good(v) /\ v.call = w.call /\ v.used = w.used /\ v.local = w.local /\ SameTuns(v, w)
         /\ Sends(v.tun[e][t]) /\ Within(v, w, e, t) /\ Sent(v, w, e, t, m)
<1> DEFINE u == w.tun[e][t]
           x == [u EXCEPT !.stuck = TRUE]
           p == Peer(e)
<1>1. IsWorld(w) /\ u \in Tunnel /\ TunInv(w, e, t, u) /\ p \in End /\ p # e
  BY WorldFields, EndIs DEF Good
<1>2. CASE u.stuck \/ u.tid = 0 \/ ~ Live(w.tun[p][u.tid])
  <2>1. v = WithTun(w, e, t, x)
    BY Zenon, <1>2 DEF Send, WithTun
  <2>2. x \in Tunnel /\ SameTun(x, u) /\ x.stuck
    BY <1>1, StuckIs
  <2> HIDE DEF x
  <2>3. Good(v)
    BY <2>1, <2>2, SameTunGood
  <2>4. /\ v.call = w.call /\ v.used = w.used /\ v.local = w.local /\ v.box = w.box
        /\ v.tun[e][t] = x
        /\ \A f \in End : \A s \in TunnelIds(f) : f # e \/ s # t => v.tun[f][s] = w.tun[f][s]
    BY <1>1, <2>1, <2>2, TunFields
  <2>5. SameTuns(v, w)
    BY <2>2, <2>4 DEF SameTuns, SameTun
  <2>6. Within(v, w, e, t)
    BY <2>4, TunWithin
  <2>7. Sends(v.tun[e][t]) /\ Sent(v, w, e, t, m)
    BY <2>2, <2>4 DEF Sends, Sent
  <2> QED
    BY Zenon, <2>3, <2>4, <2>5, <2>6, <2>7
<1>3. CASE ~ (u.stuck \/ u.tid = 0 \/ ~ Live(w.tun[p][u.tid]))
  <2> DEFINE s == u.tid
             b == w.box[p][s]
             b2 == Append(b, m)
  <2>1. s \in TunnelIds(p) /\ MsgInv(w, p, s, m)
    BY <1>1, <1>3, GoesGood DEF TunInv
  <2>2. b \in Seq(Message) /\ BoxInv(w, p, s)
    BY Zenon, <1>1, <2>1, WorldFields DEF Good
  <2>3. v = WithBox(w, p, s, b2)
    BY Zenon, <1>3 DEF Send, WithBox
  <2>4. /\ b2 \in Seq(Message)
        /\ \A i \in 1 .. Len(b2) : b2[i] = m \/ (i \in 1 .. Len(b) /\ b2[i] = b[i])
        /\ \A i \in 1 .. Len(b) : i \in 1 .. Len(b2) /\ b2[i] = b[i]
    <3>1. Len(b) \in Nat /\ b2 \in Seq(Message) /\ Len(b2) = Len(b) + 1
          /\ b2[Len(b) + 1] = m /\ \A i \in 1 .. Len(b) : b2[i] = b[i]
      <4> HIDE DEF b
      <4>1. b \in Seq(Message) /\ m \in Message
        BY <2>2
      <4> QED
        BY <4>1, AppendProperties, LenProperties
    <3> HIDE DEF b, b2
    <3>2. \A i \in 1 .. Len(b2) : i = Len(b) + 1 \/ i \in 1 .. Len(b)
      BY <3>1
    <3> QED
      BY <3>1, <3>2
  <2>9. b2 = Append(w.box[p][s], m)
    BY Zenon
  <2> HIDE DEF b2
  <2>5. \A i \in 1 .. Len(b2) : MsgInv(w, p, s, b2[i])
    BY Zenon, <2>1, <2>2, <2>4 DEF BoxInv
  <2>6. Good(v)
    BY Zenon, <1>1, <2>1, <2>3, <2>4, <2>5, BoxGood
  <2>7. /\ v.tun = w.tun /\ v.call = w.call /\ v.used = w.used /\ v.local = w.local
        /\ v.box[p][s] = b2 /\ \A f \in End : \A y \in TunnelIds(f) : f # p \/ y # s => v.box[f][y] = w.box[f][y]
    <3>1. IsWorld(w) /\ p \in End /\ s \in TunnelIds(p) /\ b2 \in Seq(Message) /\ v = WithBox(w, p, s, b2)
      BY Zenon, <1>1, <2>1, <2>3, <2>4
    <3> HIDE DEF p, s, b
    <3> QED
      BY ONLY <3>1, BoxFields
  <2>8. SameTuns(v, w)
    BY Zenon, <2>7 DEF SameTuns, SameTun
  <2>10. Sends(v.tun[e][t]) /\ Sent(v, w, e, t, m)
    BY Zenon, <1>3, <2>1, <2>7, <2>9 DEF Sends, Sent
  <2>11. Within(v, w, e, t)
    <3>1. \A y \in TunnelIds(e) \ {t} : v.box[e][y] = w.box[e][y]
      BY <1>1, <2>7
    <3>2. ASSUME e = "lac", NEW y \in TunnelIds("lns"), Live(w.tun["lns"][y]), w.tun["lns"][y].tid # t
          PROVE  v.box["lns"][y] = w.box["lns"][y]
      <4>1. LacTunInv(w, t, u)
        BY <1>1, <3>2 DEF TunInv
      <4>2. y # s
        BY <1>3, <3>2, <4>1 DEF LacTunInv, Knows, Live
      <4> QED
        BY <2>7, <3>2, <4>2, EndIs
    <3>3. ASSUME e = "lns", NEW y \in TunnelIds("lac"), NEW z, z.from # t
          PROVE  Has(v.box["lac"][y], z) <=> Has(w.box["lac"][y], z)
      <4>1. CASE y # s
        BY <2>7, <3>3, <4>1, EndIs
      <4>2. CASE y = s
        <5>1. v.box["lac"][y] = b2 /\ w.box["lac"][y] = b
          BY <2>7, <3>3, <4>2, EndIs
        <5>2. m.from = t
          BY DEF MayGo
        <5> HIDE DEF b
        <5> QED
          BY <2>4, <3>3, <5>1, <5>2 DEF Has
      <4> QED
        BY <4>1, <4>2
    <3>4. \A f \in End : \A y \in TunnelIds(f) : Kin(v.tun[f][y], w.tun[f][y])
      BY <2>7 DEF Kin, SameTun
    <3> HIDE DEF b, s, p, u
    <3> QED
      BY <2>7, <3>1, <3>2, <3>3, <3>4 DEF Within
  <2> QED
    BY <2>6, <2>7, <2>8, <2>10, <2>11
<1> QED
  BY <1>2, <1>3

\* A change of the addresses in use and of lns->localaddr.
WithUsed(w, u, l) == [w EXCEPT !.local = l, !.used = u]

\* Only those of LocalPool change.
LEMMA LocalGood ==
  ASSUME NEW w, Good(w), NEW u \in SUBSET (Pool \cup LocalPool), NEW l \in LocalPool \cup {0},
         u \cap Pool = w.used \cap Pool, NEW v, v = WithUsed(w, u, l)
  PROVE  Good(v) /\ v.tun = w.tun /\ v.call = w.call /\ v.box = w.box /\ v.used = u /\ v.local = l
<1>1. IsWorld(w) /\ w = [tun |-> w.tun, call |-> w.call, box |-> w.box, used |-> w.used, local |-> w.local]
  BY DEF Good, IsWorld
<1>2. v = [tun |-> w.tun, call |-> w.call, box |-> w.box, used |-> u, local |-> l]
  BY <1>1 DEF WithUsed
<1>3. v.tun = w.tun /\ v.call = w.call /\ v.box = w.box /\ v.used = u /\ v.local = l
  BY <1>2
<1>4. IsWorld(v)
  BY <1>1, <1>2, <1>3 DEF IsWorld
<1>5. \A f \in End : \A d \in CallIds(f) : CallInv(w, f, v.call[f][d])
  BY <1>3 DEF Good
<1>6. PoolInv(v)
  BY <1>3 DEF Good, PoolInv, LiveCalls
<1> QED
  BY <1>3, <1>4, <1>5, <1>6, OtherParts

-----------------------------------------------------------------------------
(* The ends of calls and tunnels.                                           *)

\* Calls that live are destroyed with their addresses (destroy_call).
LEMMA DestroyCallsGood ==
  ASSUME PoolAssumption, NEW w, Good(w), NEW e \in End, NEW cs \in SUBSET CallIds(e),
         \A c \in cs : Live(w.call[e][c]), NEW v, v = DestroyCalls(w, e, cs)
  PROVE  /\ Good(v) /\ v.tun = w.tun /\ v.box = w.box /\ v.local = w.local
         /\ \A c \in cs : ~ Live(v.call[e][c]) /\ v.call[e][c].state = "gone"
         /\ \A f \in End : \A d \in CallIds(f) : f # e \/ d \notin cs => v.call[f][d] = w.call[f][d]
         /\ \A t : (\A c \in cs : w.call[e][c].tun = t) => Within(v, w, e, t)
<1> DEFINE k == [NoCall EXCEPT !.state = "gone"]
           r == [c \in CallIds(e) |-> IF c \in cs THEN k ELSE w.call[e][c]]
           g == [w.call EXCEPT ![e] = r]
           u == Unreserved(w, e, cs)
<1>1. /\ w = [tun |-> w.tun, call |-> w.call, box |-> w.box, used |-> w.used, local |-> w.local]
      /\ w.call = [f \in End |-> w.call[f]] /\ \A f \in End : w.call[f] \in [CallIds(f) -> Call]
      /\ IsWorld(w) /\ PoolInv(w) /\ w.used \in SUBSET (Pool \cup LocalPool) /\ w.local \in LocalPool \cup {0}
  BY DEF Good, IsWorld
<1>2. k \in Call /\ ~ Live(k) /\ k.addr = 0 /\ ~ k.pppd /\ k.state = "gone"
  BY DEF Call, NoCall, Live, CallState
<1> HIDE DEF k
<1>3. /\ r \in [CallIds(e) -> Call]
      /\ \A c \in cs : r[c] = k
      /\ \A c \in CallIds(e) : c \notin cs => r[c] = w.call[e][c]
  BY <1>1, <1>2
<1>4. v = [w EXCEPT !.call = g, !.used = u]
  BY DEF DestroyCalls, k
<1> HIDE DEF r
<1>5. g = [f \in End |-> g[f]] /\ g[e] = r /\ \A f \in End : f # e => g[f] = w.call[f]
  BY <1>1
<1> HIDE DEF g
<1>6. u \in SUBSET (Pool \cup LocalPool)
  BY <1>1 DEF Unreserved
<1>7. /\ v = [tun |-> w.tun, call |-> g, box |-> w.box, used |-> u, local |-> w.local]
      /\ v.tun = w.tun /\ v.call = g /\ v.box = w.box /\ v.used = u /\ v.local = w.local
  <2>1. v = [tun |-> w.tun, call |-> g, box |-> w.box, used |-> u, local |-> w.local]
    BY <1>1, <1>4
  <2> QED
    BY <2>1
<1>8. IsWorld(v)
  <2>1. \A f \in End : g[f] \in [CallIds(f) -> Call]
    BY <1>1, <1>3, <1>5
  <2> QED
    BY <1>1, <1>5, <1>6, <1>7, <2>1 DEF IsWorld
<1>9. /\ \A c \in cs : v.call[e][c] = k
      /\ \A f \in End : \A d \in CallIds(f) : f # e \/ d \notin cs => v.call[f][d] = w.call[f][d]
  BY <1>3, <1>5, <1>7
<1>10. \A f \in End : \A d \in CallIds(f) : CallInv(w, f, v.call[f][d])
  <2>1. \A f \in End : CallInv(w, f, k)
    BY <1>2 DEF CallInv, Addr
  <2> QED
    BY <1>9, <2>1 DEF Good
<1>11. PoolInv(v)
  <2>1. 0 \notin Pool /\ 0 \notin LocalPool /\ Pool \cap LocalPool = {}
    BY DEF PoolAssumption
  <2>2. CASE e = "lac"
    <3>1. \A c \in cs : w.call[e][c].addr = 0
      BY <2>2, EndIs DEF Good, CallInv, Addr
    <3>2. u = w.used
      BY <1>1, <2>1, <2>2, <3>1 DEF Unreserved
    <3>3. \A d \in CallIds("lns") : v.call["lns"][d] = w.call["lns"][d]
      BY <1>9, <2>2, EndIs
    <3>4. LiveCalls(v) = LiveCalls(w)
      BY <3>3 DEF LiveCalls
    <3>5. {v.call["lns"][d].addr : d \in LiveCalls(v)} = {w.call["lns"][d].addr : d \in LiveCalls(w)}
      BY <3>3, <3>4 DEF LiveCalls
    <3>6. \A d \in LiveCalls(w) : v.call["lns"][d] = w.call["lns"][d]
      BY <3>3 DEF LiveCalls
    <3>7. v.used = w.used /\ PoolInv(w)
      BY <1>1, <1>7, <3>2 DEF Good
    <3>8. v.used \cap Pool = {v.call["lns"][d].addr : d \in LiveCalls(v)} \ {0}
      BY <3>5, <3>7 DEF PoolInv
    <3>9. \A a, d \in LiveCalls(v) :
            a # d /\ v.call["lns"][a].addr # 0 => v.call["lns"][a].addr # v.call["lns"][d].addr
      BY <3>4, <3>6, <3>7 DEF PoolInv
    <3> QED
      BY <3>8, <3>9 DEF PoolInv
  <2>3. CASE e = "lns"
    <3>1. LiveCalls(v) = LiveCalls(w) \ cs /\ cs \in SUBSET LiveCalls(w)
      BY <1>2, <1>9, <2>3, EndIs DEF LiveCalls
    <3>2. \A d \in LiveCalls(v) : v.call["lns"][d] = w.call["lns"][d]
      BY <1>9, <2>3, <3>1, EndIs DEF LiveCalls
    <3>3. u \cap Pool = (w.used \cap Pool) \ {w.call["lns"][c].addr : c \in cs}
      BY <1>1, <2>1, <2>3 DEF Unreserved
    <3>4. /\ w.used \cap Pool = {w.call["lns"][c].addr : c \in LiveCalls(w)} \ {0}
          /\ \A c, d \in LiveCalls(w) :
                c # d /\ w.call["lns"][c].addr # 0 => w.call["lns"][c].addr # w.call["lns"][d].addr
      BY <1>1 DEF PoolInv
    <3>5. ({w.call["lns"][c].addr : c \in LiveCalls(w)} \ {0}) \ {w.call["lns"][c].addr : c \in cs}
             = {w.call["lns"][d].addr : d \in LiveCalls(w) \ cs} \ {0}
      BY <3>1, <3>4
    <3>6. {v.call["lns"][d].addr : d \in LiveCalls(v)} = {w.call["lns"][d].addr : d \in LiveCalls(w) \ cs}
      BY <3>1, <3>2
    <3>7. v.used \cap Pool = {v.call["lns"][c].addr : c \in LiveCalls(v)} \ {0}
      BY <1>7, <3>3, <3>4, <3>5, <3>6
    <3> QED
      BY <3>1, <3>2, <3>4, <3>7 DEF PoolInv
  <2> QED
    BY <2>2, <2>3, EndIs
<1>12. Good(v)
  BY <1>7, <1>8, <1>10, <1>11, OtherParts
<1>13. ASSUME NEW t, \A c \in cs : w.call[e][c].tun = t
       PROVE  Within(v, w, e, t)
  <2>1. \A c \in cs : Of(v.call[e][c], t) /\ Of(w.call[e][c], t) /\ v.call[e][c].state # "off"
    BY <1>2, <1>9, <1>13 DEF Of
  <2> QED
    BY <1>7, <1>9, <2>1, CallWithin
<1> QED
  BY <1>2, <1>7, <1>9, <1>12, <1>13

\* The same for the calls of a tunnel.
LEMMA CallsOfIs ==
  ASSUME NEW w, NEW e \in End, NEW t
  PROVE  /\ CallsOf(w, e, t) \in SUBSET CallIds(e)
         /\ \A c \in CallIds(e) : c \in CallsOf(w, e, t) <=> Live(w.call[e][c]) /\ w.call[e][c].tun = t
         /\ \A c \in CallsOf(w, e, t) : Live(w.call[e][c])
BY DEF CallsOf

\* What call_close tosses (control_xmit's buffers that are not sent again).
LEMMA TossedGood ==
  ASSUME NEW w, Good(w), NEW e \in End, NEW t \in TunnelIds(e), NEW n, NEW v, v = Tossed(w, e, t, n)
  PROVE  /\ Good(v) /\ v.call = w.call /\ v.used = w.used /\ v.local = w.local /\ SameTuns(v, w)
         /\ Within(v, w, e, t)
<1> DEFINE u == w.tun[e][t]
           p == Peer(e)
           s == u.tid
           b == w.box[p][s]
           I == {i \in DOMAIN b : i <= n \/ b[i].from # t}
           left == Selected(b, I)
           x == [u EXCEPT !.stuck = TRUE]
<1>1. IsWorld(w) /\ u \in Tunnel /\ TunInv(w, e, t, u) /\ p \in End
  BY WorldFields, EndIs DEF Good
<1>2. CASE s = 0 \/ left = b
  <2>1. v = w
    BY Zenon, <1>2 DEF Tossed
  <2>2. Within(v, w, e, t)
    BY <2>1, TunWithin
  <2> QED
    BY Zenon, <2>1, <2>2 DEF SameTuns, SameTun
<1>3. CASE s # 0 /\ left # b
  <2>1. s \in TunnelIds(p) /\ b \in Seq(Message) /\ BoxInv(w, p, s) /\ DOMAIN b = 1 .. Len(b)
    <3>1. s \in TunnelIds(p)
      <4> HIDE DEF b, I, left, x, u
      <4>1. u.tid = 0 \/ u.tid \in TunnelIds(Peer(e))
        BY <1>1 DEF TunInv
      <4> QED
        BY <1>3, <4>1
    <3> QED
      BY Zenon, <1>1, <3>1, WorldFields DEF Good
  <2> DEFINE y == WithBox(w, p, s, left)
  <2>2. v = WithTun(y, e, t, x)
    <3>1. v = [w EXCEPT !.box[p][s] = left, !.tun[e][t].stuck = TRUE]
      BY Zenon, <1>3 DEF Tossed
    <3>2. y.tun = w.tun
      BY <1>1 DEF WithBox, IsWorld
    <3> HIDE DEF b, I, left
    <3> QED
      BY Zenon, <3>1, <3>2 DEF WithBox, WithTun
  <2>3. x \in Tunnel /\ SameTun(x, u)
    <3> HIDE DEF b, I, left
    <3> QED
      BY Zenon, <1>1, StuckIs
  <2> HIDE DEF x
  <2>4. /\ left \in Seq(Message) /\ \A k \in 1 .. Len(left) : \E i \in 1 .. Len(b) : left[k] = b[i]
        /\ \A i \in 1 .. Len(b) : b[i].from # t => \E k \in 1 .. Len(left) : left[k] = b[i]
    <3>1. I \in SUBSET (1 .. Len(b)) /\ \A i \in 1 .. Len(b) : b[i].from # t => i \in I
      BY Zenon, <2>1
    <3> HIDE DEF I
    <3>2. /\ left \in Seq(Message) /\ \A k \in 1 .. Len(left) : \E i \in I : left[k] = b[i]
          /\ \A i \in I : Rank(I, i) \in 1 .. Len(left) /\ left[Rank(I, i)] = b[i]
      <4> HIDE DEF b
      <4>1. left = Selected(b, I)
        BY Zenon
      <4>2. b \in Seq(Message) /\ I \in SUBSET (1 .. Len(b))
        BY Zenon, <2>1, <3>1
      <4> HIDE DEF left
      <4> QED
        BY ONLY <4>1, <4>2, SelectedIs
    <3> HIDE DEF b, left
    <3> QED
      BY Zenon, <3>1, <3>2
  <2> HIDE DEF left
  <2>5. \A k \in 1 .. Len(left) : MsgInv(w, p, s, left[k])
    <3>1. \A i \in 1 .. Len(b) : MsgInv(w, p, s, b[i])
      BY <2>1 DEF BoxInv
    <3> HIDE DEF b
    <3> QED
      BY Zenon, <2>4, <3>1
  <2>6. Good(y)
    BY Zenon, <1>1, <2>1, <2>4, <2>5, BoxGood
  <2>7. /\ y.tun = w.tun /\ y.call = w.call /\ y.used = w.used /\ y.local = w.local /\ y.box[p][s] = left
        /\ \A f \in End : \A z \in TunnelIds(f) : f # p \/ z # s => y.box[f][z] = w.box[f][z]
    <3>1. y = WithBox(w, p, s, left)
      OBVIOUS
    <3> HIDE DEF y, p, s
    <3> QED
      BY <1>1, <2>1, <2>4, <3>1, BoxFields
  <2> HIDE DEF y
  <2>8. Good(v)
    BY <2>2, <2>3, <2>6, <2>7, SameTunGood
  <2>9. /\ v.call = y.call /\ v.used = y.used /\ v.local = y.local /\ v.tun[e][t] = x /\ v.box = y.box
        /\ \A f \in End : \A z \in TunnelIds(f) : f # e \/ z # t => v.tun[f][z] = y.tun[f][z]
    BY <2>2, <2>3, <2>6, TunFields DEF Good
  <2>10. Within(v, w, e, t)
    <3>1. Within(v, y, e, t)
      BY <2>9, TunWithin
    <3>2. Within(y, w, e, t)
      <4>1. \A f \in End : \A z \in TunnelIds(f) : Kin(y.tun[f][z], w.tun[f][z])
        BY <2>7 DEF Kin, SameTun
      <4>2. \A z \in TunnelIds(e) \ {t} : y.box[e][z] = w.box[e][z]
        BY <2>7, EndIs
      <4>3. ASSUME e = "lac", NEW z \in TunnelIds("lns"), Live(w.tun["lns"][z]), w.tun["lns"][z].tid # t
            PROVE  y.box["lns"][z] = w.box["lns"][z]
        <5>1. LacTunInv(w, t, u)
          BY <1>1, <4>3 DEF TunInv
        <5>2. z # s
          BY <1>3, <4>3, <5>1 DEF LacTunInv, Knows, Live
        <5> QED
          BY <2>7, <4>3, <5>2, EndIs
      <4>4. ASSUME e = "lns", NEW z \in TunnelIds("lac"), NEW m, m.from # t
            PROVE  Has(y.box["lac"][z], m) <=> Has(w.box["lac"][z], m)
        <5>1. CASE z # s
          BY <2>7, <4>4, <5>1, EndIs
        <5>2. CASE z = s
          <6>1. y.box["lac"][z] = left /\ w.box["lac"][z] = b
            BY <2>7, <4>4, <5>2, EndIs
          <6> HIDE DEF b
          <6> QED
            BY <2>4, <4>4, <6>1 DEF Has
        <5> QED
          BY <5>1, <5>2
      <4> HIDE DEF b, s, p, u
      <4> QED
        BY <2>7, <4>1, <4>2, <4>3, <4>4 DEF Within
    <3> QED
      BY <3>1, <3>2, WithinAgain
  <2> QED
    BY <2>3, <2>7, <2>8, <2>9, <2>10 DEF SameTuns, SameTun
<1> QED
  BY Zenon, <1>2, <1>3

\* The record of a tunnel that is gone.
GoneTunnel == [NoTunnel EXCEPT !.state = "gone"]

\* A tunnel goes when it has no call and no message, and other tunnels may get stuck.
LEMMA TunnelGoes ==
  ASSUME NEW w, Good(w), NEW e \in End, NEW t \in TunnelIds(e), w.box[e][t] = <<>>,
         \A c \in CallIds(e) : Live(w.call[e][c]) => w.call[e][c].tun # t,
         NEW v, IsWorld(v), v.call = w.call, v.box = w.box, v.used = w.used, v.local = w.local,
         v.tun[e][t] = GoneTunnel,
         \A f \in End : \A s \in TunnelIds(f) : f # e \/ s # t => SameTun(v.tun[f][s], w.tun[f][s])
  PROVE  Good(v)
<1>1. /\ GoneTunnel.state = "gone" /\ GoneTunnel.tid = 0 /\ GoneTunnel.heard = 0
      /\ ~ Live(GoneTunnel)
  BY DEF GoneTunnel, NoTunnel, Live
<1>2. /\ \A f \in End : \A s \in TunnelIds(f) : (f # e \/ s # t) /\ Up(w, f, s) => Up(v, f, s)
      /\ \A s \in TunnelIds("lac") : Past(w, s) => Past(v, s)
      /\ \A f \in End : \A s \in TunnelIds(f) : \A y : Knows(w, f, s, y) => Knows(v, f, s, y)
      /\ \A f \in End : \A s \in TunnelIds(f) : (f # e \/ s # t) /\ Live(w.tun[f][s]) => Live(v.tun[f][s])
      /\ \A f \in End : \A s \in TunnelIds(f) : (f # e \/ s # t) /\ Sends(w.tun[f][s]) => Sends(v.tun[f][s])
  BY <1>1, EndIs DEF Up, Past, SameTun, Knows, Live, Sends
<1>3. ASSUME NEW f \in End, NEW s \in TunnelIds(f)
      PROVE  TunInv(v, f, s, v.tun[f][s])
  <2>1. CASE f = e /\ s = t
    BY <1>1, <2>1 DEF TunInv, LacTunInv, LnsTunInv, Answered
  <2>2. CASE f # e \/ s # t
    <3>1. TunInv(w, f, s, w.tun[f][s]) /\ SameTun(v.tun[f][s], w.tun[f][s])
      BY <2>2 DEF Good
    <3>2. TunInv(w, f, s, v.tun[f][s])
      BY <3>1 DEF TunInv, LacTunInv, LnsTunInv, SameTun, Live
    <3>3. f = "lac" => LacTunInv(v, s, v.tun[f][s])
      BY <1>2, <3>2, EndIs DEF TunInv, LacTunInv
    <3>4. f = "lns" => LnsTunInv(v, v.tun[f][s])
      BY <1>2, <3>2 DEF TunInv, LnsTunInv, Live
    <3> QED
      BY <3>2, <3>3, <3>4 DEF TunInv
  <2> QED
    BY <2>1, <2>2
<1>4. ASSUME NEW s \in TunnelIds("lns")
      PROVE  Alone(v, s, v.tun["lns"][s])
  <2>1. Alone(w, s, w.tun["lns"][s])
    BY DEF Good
  <2>2. \A y \in TunnelIds("lns") : v.tun["lns"][y].state \in Answered =>
            w.tun["lns"][y].state \in Answered /\ v.tun["lns"][y].tid = w.tun["lns"][y].tid
    BY <1>1, EndIs DEF SameTun, Answered
  <2> QED
    BY <2>1, <2>2 DEF Alone
<1>5. ASSUME NEW f \in End, NEW s \in TunnelIds(f)
      PROVE  BoxInv(v, f, s)
  <2>1. CASE f = e /\ s = t
    BY <2>1 DEF BoxInv
  <2>2. CASE f # e \/ s # t
    <3>1. \A m : MsgInv(w, f, s, m) => MsgInv(v, f, s, m)
      <4>1. v.tun[f][s].heard = w.tun[f][s].heard
        BY <2>2 DEF SameTun
      <4> QED
        BY <1>2, <2>2, <4>1, EndIs DEF MsgInv, LacMsgInv, LnsMsgInv
    <3> QED
      BY <3>1 DEF BoxInv, Good
  <2> QED
    BY <2>1, <2>2
<1>6. ASSUME NEW f \in End, NEW c \in CallIds(f)
      PROVE  CallInv(v, f, v.call[f][c])
  <2>1. CallInv(w, f, w.call[f][c])
    BY Zenon DEF Good
  <2>2. Live(w.call[f][c]) => w.call[f][c].tun \in TunnelIds(f) /\ (f # e \/ w.call[f][c].tun # t)
    BY <2>1 DEF CallInv
  <2> QED
    BY <1>2, <2>1, <2>2 DEF CallInv
<1>7. PoolInv(v)
  BY DEF Good, PoolInv, LiveCalls
<1> QED
  BY <1>3, <1>4, <1>5, <1>6, <1>7 DEF Good

\* destroy_tunnel.
LEMMA DestroyTunnelGood ==
  ASSUME PoolAssumption, NEW w, Good(w), NEW e \in End, NEW t \in TunnelIds(e),
         NEW v, v = DestroyTunnel(w, e, t)
  PROVE  Good(v) /\ Within(v, w, e, t) /\ ~ Live(v.tun[e][t])
<1> DEFINE d == DestroyCalls(w, e, CallsOf(w, e, t))
           y == WithBox(d, e, t, <<>>)
           p == Peer(e)
           lost(u) == \E i \in DOMAIN w.box[e][t] : w.box[e][t][i].from = u
           r == [u \in TunnelIds(p) |-> [w.tun[p][u] EXCEPT !.stuck = @ \/ lost(u)]]
           q == [d.tun[e] EXCEPT ![t] = GoneTunnel]
           g == [[d.tun EXCEPT ![e] = q] EXCEPT ![p] = r]
<1>1. p \in End /\ p # e /\ \A f \in End : f = e \/ f = p
  BY EndIs
<1>2. /\ Good(d) /\ d.tun = w.tun /\ Within(d, w, e, t)
      /\ \A c \in CallIds(e) : Live(d.call[e][c]) => d.call[e][c].tun # t
  BY CallsOfIs, DestroyCallsGood
<1>3. v = [d EXCEPT !.tun[e][t] = GoneTunnel, !.tun[p] = r, !.box[e][t] = <<>>]
  BY DEF DestroyTunnel, GoneTunnel
<1> HIDE DEF d, r
<1>4. /\ Good(y) /\ y.tun = d.tun /\ y.call = d.call /\ y.used = d.used /\ y.local = d.local
      /\ y.box[e][t] = <<>>
      /\ \A f \in End : \A s \in TunnelIds(f) : f # e \/ s # t => y.box[f][s] = d.box[f][s]
  <2> DEFINE none == <<>>
  <2>1. none \in Seq(Message) /\ \A i \in 1 .. Len(none) : MsgInv(d, e, t, none[i])
    OBVIOUS
  <2>2. IsWorld(d) /\ y = WithBox(d, e, t, none)
    BY <1>2 DEF Good
  <2> HIDE DEF y, none
  <2>3. Good(y)
    BY <1>2, <2>1, <2>2, BoxGood
  <2>4. /\ y.tun = d.tun /\ y.call = d.call /\ y.used = d.used /\ y.local = d.local /\ y.box[e][t] = none
        /\ \A f \in End : \A s \in TunnelIds(f) : f # e \/ s # t => y.box[f][s] = d.box[f][s]
    BY <2>1, <2>2, BoxFields
  <2> QED
    BY <2>3, <2>4 DEF none
<1>5. v = [y EXCEPT !.tun = g]
  <2>1. v = [[d EXCEPT !.tun = g] EXCEPT !.box[e][t] = <<>>]
    BY <1>3
  <2>2. d = [tun |-> d.tun, call |-> d.call, box |-> d.box, used |-> d.used, local |-> d.local]
    BY <1>2 DEF Good, IsWorld
  <2> HIDE DEF g
  <2> QED
    BY <2>1, <2>2 DEF WithBox
<1> HIDE DEF y
<1>6. /\ IsWorld(y) /\ y = [tun |-> y.tun, call |-> y.call, box |-> y.box, used |-> y.used, local |-> y.local]
      /\ d.tun = [f \in End |-> d.tun[f]] /\ \A f \in End : d.tun[f] \in [TunnelIds(f) -> Tunnel]
  BY <1>2, <1>4 DEF Good, IsWorld
<1>7. GoneTunnel \in Tunnel
  BY DEF GoneTunnel, NoTunnel, Tunnel, TunnelState
<1>8. \A u \in TunnelIds(p) : r[u] \in Tunnel /\ Kin(r[u], d.tun[p][u])
  <2> SUFFICES ASSUME NEW u \in TunnelIds(p) PROVE r[u] \in Tunnel /\ Kin(r[u], d.tun[p][u])
    OBVIOUS
  <2>1. d.tun[p][u] \in Tunnel
    BY <1>1, <1>6
  <2>2. lost(u) \in BOOLEAN
    OBVIOUS
  <2> HIDE DEF lost
  <2> QED
    BY <1>2, <2>1, <2>2 DEF Tunnel, Kin, SameTun, r
<1>9. r \in [TunnelIds(p) -> Tunnel]
  BY <1>8 DEF r
<1>10. /\ q \in [TunnelIds(e) -> Tunnel] /\ q[t] = GoneTunnel
       /\ \A s \in TunnelIds(e) : s # t => q[s] = d.tun[e][s]
  BY <1>6, <1>7
<1> HIDE DEF q
<1>11. g = [f \in End |-> g[f]] /\ g[e] = q /\ g[p] = r
  BY <1>1, <1>6
<1> HIDE DEF g
<1>12. /\ v = [tun |-> g, call |-> y.call, box |-> y.box, used |-> y.used, local |-> y.local]
       /\ v.tun = g /\ v.call = y.call /\ v.box = y.box /\ v.used = y.used /\ v.local = y.local
  <2>1. v = [tun |-> g, call |-> y.call, box |-> y.box, used |-> y.used, local |-> y.local]
    BY <1>5, <1>6
  <2> QED
    BY <2>1
<1>13. IsWorld(v)
  <2>1. \A f \in End : g[f] \in [TunnelIds(f) -> Tunnel]
    BY <1>1, <1>9, <1>10, <1>11
  <2> QED
    BY <1>6, <1>11, <1>12, <2>1 DEF IsWorld
<1>14. ASSUME NEW f \in End, NEW s \in TunnelIds(f), f # e \/ s # t
       PROVE  Kin(v.tun[f][s], y.tun[f][s])
  <2>1. CASE f = e
    BY <1>4, <1>10, <1>11, <1>12, <1>14, <2>1 DEF Kin, SameTun
  <2>2. CASE f = p
    BY <1>4, <1>8, <1>11, <1>12, <2>2
  <2> QED
    BY <1>1, <2>1, <2>2
<1>15. v.tun[e][t] = GoneTunnel
  BY <1>10, <1>11, <1>12
<1>16. Good(v)
  BY <1>2, <1>4, <1>12, <1>13, <1>14, <1>15, TunnelGoes DEF Kin
<1>17. Within(v, w, e, t)
  <2>1. Within(v, d, e, t)
    <3>1. e = "lac" => \A s \in TunnelIds("lns") : v.box["lns"][s] = d.box["lns"][s]
      BY <1>4, <1>12, EndIs
    <3>2. e = "lns" => \A s \in TunnelIds("lac") : v.box["lac"][s] = d.box["lac"][s]
      BY <1>4, <1>12, EndIs
    <3>3. \A s \in TunnelIds(e) \ {t} : v.box[e][s] = d.box[e][s]
      BY <1>4, <1>12
    <3>4. v.call = d.call
      BY <1>4, <1>12
    <3>5. \A f \in End : \A s \in TunnelIds(f) : f # e \/ s # t => Kin(v.tun[f][s], d.tun[f][s])
      BY <1>4, <1>14
    <3> QED
      BY <3>1, <3>2, <3>3, <3>4, <3>5 DEF Within
  <2> QED
    BY <1>2, <2>1, WithinAgain
<1> QED
  BY <1>15, <1>16, <1>17 DEF GoneTunnel, NoTunnel, Live

\* A call record keeps its state, its tunnel and its address.
SameCall(k, x) == k.state = x.state /\ k.tun = x.tun /\ k.addr = x.addr /\ (k.pppd => x.pppd)

\* Such a change keeps a world good.
LEMMA SameCallGood ==
  ASSUME PoolAssumption, NEW w, Good(w), NEW e \in End, NEW c \in CallIds(e), NEW k \in Call,
         Live(w.call[e][c]), SameCall(k, w.call[e][c]), NEW v, v = WithCall(w, e, c, k)
  PROVE  Good(v)
<1>1. CallInv(w, e, w.call[e][c])
  BY Zenon DEF Good
<1>2. CallInv(w, e, k) /\ Live(k)
  BY <1>1 DEF CallInv, SameCall, Live
<1> QED
  BY <1>2, CallGood DEF SameCall

\* A message that only names a call or a tunnel.
LEMMA PlainIs ==
  ASSUME NEW kind \in Kind, NEW t \in Nat, NEW c \in Nat, NEW id \in Nat,
         NEW m, m = Plain(kind, t, c, id)
  PROVE  m \in Message /\ m.kind = kind /\ m.from = t /\ m.cid = c /\ m.id = id /\ m.resp = "none"
BY DEF Plain, Message

\* Only the tunnel changes, and only the call.
OnlyTun(v, w, e, t, u) ==
  /\ v.call = w.call /\ v.box = w.box /\ v.tun[e][t] = u
  /\ \A f \in End : \A s \in TunnelIds(f) : f # e \/ s # t => v.tun[f][s] = w.tun[f][s]
OnlyCall(v, w, e, c, k) ==
  /\ v.tun = w.tun /\ v.box = w.box /\ v.call[e][c] = k
  /\ \A f \in End : \A d \in CallIds(f) : f # e \/ d # c => v.call[f][d] = w.call[f][d]

\* The change of a call that lives is within its tunnel.
LEMMA OnlyCallWithin ==
  ASSUME NEW w, NEW v, NEW e \in End, NEW t, NEW c \in CallIds(e), NEW k, OnlyCall(v, w, e, c, k),
         Of(k, t), Of(w.call[e][c], t), k.state # "off"
  PROVE  Within(v, w, e, t)
<1> DEFINE cs == {c}
<1>1. /\ cs \in SUBSET CallIds(e) /\ v.tun = w.tun /\ v.box = w.box
      /\ \A d \in cs : Of(v.call[e][d], t) /\ Of(w.call[e][d], t) /\ v.call[e][d].state # "off"
      /\ \A f \in End : \A d \in CallIds(f) : f # e \/ d \notin cs => v.call[f][d] = w.call[f][d]
  BY DEF OnlyCall
<1> HIDE DEF cs
<1> QED
  BY <1>1, CallWithin

\* The message that closes call c, and what is left of the call.
Farewell(k, c) == Plain("CDN", k.tun, k.cid, c)
Closed(v, w, e, c) ==
  LET k == w.call[e][c]
  IN /\ \A f \in End : \A d \in CallIds(f) : f # e \/ d # c => v.call[f][d] = w.call[f][d]
     /\ \/ k.closing /\ v.call[e][c].state = "gone" /\ v.tun = w.tun /\ v.box = w.box
        \/ ~ k.closing /\ v.call[e][c] = [k EXCEPT !.closing = TRUE] /\ Sent(v, w, e, k.tun, Farewell(k, c))

\* call_close of a call: a CDN, or the end of it.
LEMMA CloseCallGood ==
  ASSUME CountAssumption, PoolAssumption, NEW w, Good(w), NEW e \in End, NEW c \in CallIds(e),
         Live(w.call[e][c]), NEW v, v = CloseCall(w, e, c)
  PROVE  Good(v) /\ SameTuns(v, w) /\ Within(v, w, e, w.call[e][c].tun) /\ Closed(v, w, e, c)
<1> DEFINE k == w.call[e][c]
           t == k.tun
           m == Plain("CDN", t, k.cid, c)
           y == Send(w, e, t, m)
           x == [k EXCEPT !.closing = TRUE]
<1>1. IsWorld(w) /\ k \in Call /\ t \in TunnelIds(e) /\ k.cid \in Nat /\ t \in Nat /\ c \in Nat
  <2>1. IsWorld(w) /\ k \in Call /\ t \in TunnelIds(e)
    BY WorldFields DEF Good, CallInv
  <2> QED
    BY <2>1 DEF Call, TunnelIds, CallIds, CountAssumption
<1>2. CASE k.closing
  <2>1. {c} \in SUBSET CallIds(e) /\ v = DestroyCalls(w, e, {c})
    BY <1>2 DEF CloseCall, DestroyCall
  <2>2. /\ Good(v) /\ v.tun = w.tun /\ v.box = w.box /\ v.call[e][c].state = "gone"
        /\ \A f \in End : \A d \in CallIds(f) : f # e \/ d # c => v.call[f][d] = w.call[f][d]
        /\ Within(v, w, e, t)
    BY <2>1, DestroyCallsGood
  <2>3. Closed(v, w, e, c)
    BY <1>2, <2>2 DEF Closed
  <2> QED
    BY <2>2, <2>3 DEF SameTuns, SameTun
<1>3. CASE ~ k.closing
  <2>1. m \in Message /\ m.kind = "CDN" /\ m.from = t /\ m.resp = "none"
    <3>1. "CDN" \in Kind
      BY DEF Kind
    <3> QED
      <4>1. m = Plain("CDN", t, k.cid, c)
        OBVIOUS
      <4> HIDE DEF m, t, k
      <4> QED
        BY <1>1, <3>1, <4>1, PlainIs
  <2>9. m = Farewell(k, c)
    BY DEF Farewell
  <2> HIDE DEF m
  <2>2. MayGo(w, e, t, m)
    <3>1. e = "lns" => Up(w, "lns", t)
      BY Zenon DEF Good, CallInv
    <3> QED
      BY <2>1, <3>1, EndIs DEF MayGo
  <2>3. v = WithCall(y, e, c, [y.call[e][c] EXCEPT !.closing = TRUE])
    BY Zenon, <1>3 DEF CloseCall, WithCall, m
  <2>4. Good(y) /\ y.call = w.call /\ y.used = w.used /\ SameTuns(y, w) /\ Within(y, w, e, t) /\ Sent(y, w, e, t, m)
    <3>1. y = Send(w, e, t, m) /\ t \in TunnelIds(e)
      BY <1>1
    <3> HIDE DEF y, t
    <3> QED
      BY <2>1, <2>2, <3>1, SendGood
  <2> HIDE DEF y
  <2>5. v = WithCall(y, e, c, x) /\ x \in Call /\ SameCall(x, y.call[e][c])
    BY <1>1, <2>3, <2>4 DEF Call, SameCall
  <2>10. x = [k EXCEPT !.closing = TRUE]
    OBVIOUS
  <2> HIDE DEF x
  <2>6. Good(v)
    BY <2>4, <2>5, SameCallGood
  <2>7. /\ v.tun = y.tun /\ v.used = y.used /\ v.box = y.box /\ v.call[e][c] = x
        /\ \A f \in End : \A d \in CallIds(f) : f # e \/ d # c => v.call[f][d] = w.call[f][d]
    BY <2>4, <2>5, CallFields DEF Good
  <2>8. Within(v, w, e, t)
    <3>1. Of(v.call[e][c], t) /\ Of(y.call[e][c], t) /\ v.call[e][c].state # "off"
      BY <2>4, <2>5, <2>7 DEF Of, SameCall, Live
    <3>2. OnlyCall(v, y, e, c, x)
      BY <2>4, <2>7 DEF OnlyCall
    <3>3. Within(v, y, e, t)
      BY Zenon, <2>7, <3>1, <3>2, OnlyCallWithin
    <3> QED
      BY <2>4, <3>3, WithinAgain
  <2>11. Sent(v, w, e, t, m)
    <3> HIDE DEF t
    <3>1. Sent(y, w, e, t, m) /\ v.tun = y.tun /\ v.box = y.box
      BY <2>4, <2>7
    <3> QED
      BY ONLY <3>1 DEF Sent
  <2>12. Closed(v, w, e, c)
    BY <1>3, <2>7, <2>9, <2>10, <2>11 DEF Closed
  <2> QED
    BY <2>4, <2>6, <2>7, <2>8, <2>12 DEF SameTuns
<1> QED
  BY <1>2, <1>3

\* The calls of v are those of w, but for what SameCall lets change.
SameCalls(v, w) == \A f \in End : \A d \in CallIds(f) : SameCall(v.call[f][d], w.call[f][d])

\* A tunnel or a call is marked for closing (needclose, closing).
Flagged(v, w) ==
  Good(v) /\ SameTuns(v, w) /\ SameCalls(v, w) /\ v.used = w.used /\ v.local = w.local /\ v.box = w.box

\* Such a change of a tunnel.
LEMMA TunFlagged ==
  ASSUME NEW w, Good(w), NEW e \in End, NEW t \in TunnelIds(e), NEW u \in Tunnel,
         SameTun(u, w.tun[e][t]), NEW v, v = WithTun(w, e, t, u)
  PROVE  Flagged(v, w) /\ OnlyTun(v, w, e, t, u) /\ Within(v, w, e, t)
<1>1. Good(v)
  BY SameTunGood
<1>2. v.used = w.used /\ v.local = w.local /\ OnlyTun(v, w, e, t, u)
  BY TunFields DEF Good, OnlyTun
<1>3. SameTuns(v, w)
  BY <1>2 DEF SameTuns, SameTun, OnlyTun
<1>4. Within(v, w, e, t)
  BY <1>2, TunWithin DEF OnlyTun
<1> QED
  BY <1>1, <1>2, <1>3, <1>4 DEF Flagged, SameCalls, SameCall, OnlyTun

\* Such a change of a call.
LEMMA CallFlagged ==
  ASSUME PoolAssumption, NEW w, Good(w), NEW e \in End, NEW c \in CallIds(e), Live(w.call[e][c]),
         NEW k \in Call, SameCall(k, w.call[e][c]), NEW v, v = WithCall(w, e, c, k)
  PROVE  Flagged(v, w) /\ OnlyCall(v, w, e, c, k) /\ Within(v, w, e, w.call[e][c].tun)
<1>1. Good(v)
  BY SameCallGood
<1>2. v.used = w.used /\ v.local = w.local /\ OnlyCall(v, w, e, c, k)
  BY CallFields DEF Good, OnlyCall
<1>3. SameCalls(v, w)
  BY <1>2 DEF SameCalls, SameCall, OnlyCall
<1>4. Within(v, w, e, w.call[e][c].tun)
  <2> DEFINE t == w.call[e][c].tun
  <2>1. Of(k, t) /\ Of(w.call[e][c], t) /\ k.state # "off"
    BY DEF Of, SameCall, Live
  <2> HIDE DEF t
  <2>2. Within(v, w, e, t)
    BY <1>2, <2>1, OnlyCallWithin
  <2> QED
    BY <2>2 DEF t
<1> QED
  BY <1>1, <1>2, <1>3, <1>4 DEF Flagged, SameTuns, SameTun, OnlyCall

\* A call that is to close, and one that is closed without a farewell.
MarkOf(k) == [k EXCEPT !.needclose = TRUE]
EndOf(k) == [[k EXCEPT !.needclose = FALSE] EXCEPT !.closing = TRUE]

\* The marks of set_error and of the ends of a handler.
LEMMA MarkedGood ==
  ASSUME PoolAssumption, NEW w, Good(w), NEW e \in End, NEW t \in TunnelIds(e), NEW c,
         c # 0 => c \in CallIds(e) /\ Live(w.call[e][c]), NEW v, v = Marked(w, e, t, c)
  PROVE  /\ Flagged(v, w)
         /\ c = 0 => v.tun[e][t].needclose
         /\ c # 0 => OnlyCall(v, w, e, c, MarkOf(w.call[e][c]))
         /\ (c # 0 => w.call[e][c].tun = t) => Within(v, w, e, t)
<1>1. IsWorld(w)
  BY DEF Good
<1>2. CASE c = 0
  <2> DEFINE u == [w.tun[e][t] EXCEPT !.needclose = TRUE]
  <2>1. v = WithTun(w, e, t, u)
    BY <1>2 DEF Marked, WithTun
  <2>2. u \in Tunnel /\ SameTun(u, w.tun[e][t]) /\ u.needclose
    <3>1. w.tun[e][t] \in Tunnel
      BY <1>1, WorldFields
    <3> QED
      BY <3>1 DEF Tunnel, SameTun
  <2> HIDE DEF u
  <2>3. Flagged(v, w) /\ OnlyTun(v, w, e, t, u) /\ Within(v, w, e, t)
    BY <2>1, <2>2, TunFlagged
  <2> QED
    BY <1>2, <2>2, <2>3 DEF OnlyTun
<1>3. CASE c # 0
  <2> DEFINE k == [w.call[e][c] EXCEPT !.needclose = TRUE]
  <2>1. v = WithCall(w, e, c, k)
    BY <1>3 DEF Marked, WithCall
  <2>2. k \in Call /\ SameCall(k, w.call[e][c])
    <3>1. w.call[e][c] \in Call
      BY <1>1, <1>3, WorldFields
    <3> QED
      BY <3>1 DEF Call, SameCall
  <2>4. k = MarkOf(w.call[e][c])
    BY DEF MarkOf
  <2> HIDE DEF k
  <2>3. Flagged(v, w) /\ OnlyCall(v, w, e, c, k) /\ Within(v, w, e, w.call[e][c].tun)
    BY <1>3, <2>1, <2>2, CallFlagged
  <2> QED
    BY <1>3, <2>3, <2>4
<1> QED
  BY <1>2, <1>3

\* The end without a farewell.
LEMMA EndedGood ==
  ASSUME PoolAssumption, NEW w, Good(w), NEW e \in End, NEW t \in TunnelIds(e), NEW c,
         c # 0 => c \in CallIds(e) /\ Live(w.call[e][c]), NEW v, v = Ended(w, e, t, c)
  PROVE  /\ Flagged(v, w)
         /\ c = 0 => v.tun[e][t].closing
         /\ c # 0 => OnlyCall(v, w, e, c, EndOf(w.call[e][c]))
         /\ (c # 0 => w.call[e][c].tun = t) => Within(v, w, e, t)
<1>1. IsWorld(w)
  BY DEF Good
<1>2. CASE c = 0
  <2> DEFINE u == [w.tun[e][t] EXCEPT !.needclose = FALSE, !.closing = TRUE]
  <2>1. v = WithTun(w, e, t, u)
    <3> DEFINE x == [w.tun[e][t] EXCEPT !.needclose = FALSE]
               y == WithTun(w, e, t, x)
    <3>1. v = [y EXCEPT !.tun[e][t].closing = TRUE]
      BY <1>2 DEF Ended, WithTun
    <3>2. v = WithTun(y, e, t, [y.tun[e][t] EXCEPT !.closing = TRUE])
      BY <3>1 DEF WithTun
    <3>3. x \in Tunnel
      <4>1. w.tun[e][t] \in Tunnel
        BY <1>1, WorldFields
      <4> QED
        BY <4>1 DEF Tunnel
    <3>4. u = [x EXCEPT !.closing = TRUE]
      OBVIOUS
    <3> HIDE DEF x, u
    <3>5. y.tun[e][t] = x
      BY <1>1, <3>3, TunFields
    <3> QED
      BY <1>1, <3>2, <3>4, <3>5, TunTwice
  <2>2. u \in Tunnel /\ SameTun(u, w.tun[e][t]) /\ u.closing
    <3>1. w.tun[e][t] \in Tunnel
      BY <1>1, WorldFields
    <3> QED
      BY <3>1 DEF Tunnel, SameTun
  <2> HIDE DEF u
  <2>3. Flagged(v, w) /\ OnlyTun(v, w, e, t, u) /\ Within(v, w, e, t)
    BY <2>1, <2>2, TunFlagged
  <2> QED
    BY <1>2, <2>2, <2>3 DEF OnlyTun
<1>3. CASE c # 0
  <2> DEFINE k == [w.call[e][c] EXCEPT !.needclose = FALSE, !.closing = TRUE]
  <2>1. v = WithCall(w, e, c, k)
    <3> DEFINE x == [w.call[e][c] EXCEPT !.needclose = FALSE]
               y == WithCall(w, e, c, x)
    <3>1. v = [y EXCEPT !.call[e][c].closing = TRUE]
      BY <1>3 DEF Ended, WithCall
    <3>2. v = WithCall(y, e, c, [y.call[e][c] EXCEPT !.closing = TRUE])
      BY <3>1 DEF WithCall
    <3>3. x \in Call
      <4>1. w.call[e][c] \in Call
        BY <1>1, <1>3, WorldFields
      <4> QED
        BY <4>1 DEF Call
    <3>4. k = [x EXCEPT !.closing = TRUE]
      OBVIOUS
    <3> HIDE DEF x, k
    <3>5. y.call[e][c] = x
      BY <1>1, <1>3, <3>3, CallFields
    <3> QED
      BY <1>1, <1>3, <3>2, <3>4, <3>5, CallTwice
  <2>2. k \in Call /\ SameCall(k, w.call[e][c])
    <3>1. w.call[e][c] \in Call
      BY <1>1, <1>3, WorldFields
    <3> QED
      BY <3>1 DEF Call, SameCall
  <2>4. k = EndOf(w.call[e][c])
    BY DEF EndOf
  <2> HIDE DEF k
  <2>3. Flagged(v, w) /\ OnlyCall(v, w, e, c, k) /\ Within(v, w, e, w.call[e][c].tun)
    BY <1>3, <2>1, <2>2, CallFlagged
  <2> QED
    BY <1>3, <2>3, <2>4
<1> QED
  BY <1>2, <1>3

\* The same of the self call.
LEMMA SelfMarked ==
  ASSUME PoolAssumption, NEW w, Good(w), NEW e \in End, NEW t \in TunnelIds(e), NEW v, v = Marked(w, e, t, 0)
  PROVE  Good(v) /\ Within(v, w, e, t) /\ v.tun[e][t].needclose
<1> DEFINE c == 0
<1>1. v = Marked(w, e, t, c) /\ c = 0
  OBVIOUS
<1> HIDE DEF c
<1> QED
  BY <1>1, MarkedGood DEF Flagged

\* It ends without a farewell.
LEMMA SelfEnded ==
  ASSUME PoolAssumption, NEW w, Good(w), NEW e \in End, NEW t \in TunnelIds(e), NEW v, v = Ended(w, e, t, 0)
  PROVE  Good(v) /\ Within(v, w, e, t) /\ v.tun[e][t].closing
<1> DEFINE c == 0
<1>1. v = Ended(w, e, t, c) /\ c = 0
  OBVIOUS
<1> HIDE DEF c
<1>2. Flagged(v, w) /\ v.tun[e][t].closing /\ Within(v, w, e, t)
  BY <1>1, EndedGood
<1> QED
  BY <1>2 DEF Flagged
\* call_close of the self call: a StopCCN after the calls, or the end.
LEMMA CloseTunnelGood ==
  ASSUME CountAssumption, PoolAssumption, NEW w, Good(w), NEW e \in End, NEW t \in TunnelIds(e), NEW n,
         NEW v, v = CloseTunnel(w, e, t, n)
  PROVE  Good(v) /\ Within(v, w, e, t) /\ (Live(v.tun[e][t]) => v.tun[e][t].closing)
<1>1. CASE w.tun[e][t].closing
  BY <1>1, DestroyTunnelGood DEF CloseTunnel
<1>2. CASE ~ w.tun[e][t].closing
  <2> DEFINE y == Tossed(w, e, t, n)
             cs == CallsOf(w, e, t)
             d == DestroyCalls(y, e, cs)
             m == Plain("StopCCN", t, 0, t)
             s == Send(d, e, t, m)
             u == [s.tun[e][t] EXCEPT !.closing = TRUE]
  <2>1. v = WithTun(s, e, t, u)
    BY <1>2 DEF CloseTunnel, WithTun
  <2>2. Good(y) /\ y.call = w.call /\ Within(y, w, e, t)
    BY TossedGood
  <2>3. cs \in SUBSET CallIds(e) /\ \A c \in cs : Live(y.call[e][c]) /\ y.call[e][c].tun = t
    <3> HIDE DEF y
    <3> QED
      BY <2>2 DEF CallsOf
  <2> HIDE DEF y, cs
  <2>4. Good(d) /\ Within(d, y, e, t)
    BY <2>2, <2>3, DestroyCallsGood
  <2> HIDE DEF d
  <2>5. m \in Message /\ m.kind = "StopCCN" /\ m.from = t /\ m.id = t /\ m.resp = "none"
    <3>1. "StopCCN" \in Kind /\ t \in Nat /\ 0 \in Nat /\ m = Plain("StopCCN", t, 0, t)
      BY DEF Kind, TunnelIds, CountAssumption
    <3> HIDE DEF m
    <3> QED
      BY <3>1, PlainIs
  <2> HIDE DEF m
  <2>6. MayGo(d, e, t, m)
    BY <2>5, EndIs DEF MayGo
  <2>8. Good(s) /\ Within(s, d, e, t)
    BY <2>4, <2>5, <2>6, SendGood
  <2> HIDE DEF s
  <2>9. u \in Tunnel /\ SameTun(u, s.tun[e][t]) /\ u.closing
    <3>1. s.tun[e][t] \in Tunnel
      BY <2>8, WorldFields DEF Good
    <3> QED
      BY <3>1 DEF Tunnel, SameTun
  <2> HIDE DEF u
  <2>10. Flagged(v, s) /\ OnlyTun(v, s, e, t, u) /\ Within(v, s, e, t)
    BY <2>1, <2>8, <2>9, TunFlagged
  <2>11. Within(v, w, e, t)
    <3>1. Within(d, w, e, t)
      BY <2>2, <2>4, WithinAgain
    <3>2. Within(s, w, e, t)
      BY <2>8, <3>1, WithinAgain
    <3> QED
      BY <2>10, <3>2, WithinAgain
  <2> QED
    BY <2>9, <2>10, <2>11 DEF Flagged, OnlyTun
<1> QED
  BY <1>1, <1>2

-----------------------------------------------------------------------------
(* Attributes.                                                              *)

Names ==
  {"message type", "result code", "protocol version", "framing caps", "bearer caps", "firmware",
   "host name", "vendor", "assigned tunnel", "window size", "challenge", "response", "assigned call",
   "call serial", "bearer type", "framing type", "dialed number", "tx speed", "rx speed",
   "minimum bps", "maximum bps", "q.931 cause", "unknown"}
Avp == [attr : Names, m : BOOLEAN, form : Form]

\* A message begins with its type, mandatory and with the right length or not.
IsType(a) == a.attr = "message type" /\ a.m /\ a.form \in {"ok", "size"}
Typed(avps) == avps \in Seq(Avp) /\ 1 \in 1 .. Len(avps) /\ IsType(avps[1])

\* The attributes of xl2tpd's own messages.
LEMMA BodyIs == \A kind : Body(kind) \in Seq(Avp)
<1> SUFFICES ASSUME NEW kind PROVE Body(kind) \in Seq(Avp)
  OBVIOUS
<1> DEFINE a1 == Mandatory("protocol version")
           a2 == Mandatory("framing caps")
           a3 == Mandatory("bearer caps")
           a4 == Optional("firmware")
           a5 == Mandatory("host name")
           a6 == Optional("vendor")
           a7 == Mandatory("assigned tunnel")
           a8 == Mandatory("window size")
           b1 == Mandatory("result code")
           b2 == Mandatory("assigned call")
           b3 == Mandatory("call serial")
           b4 == Mandatory("bearer type")
           c1 == Mandatory("tx speed")
           c2 == Mandatory("framing type")
           c3 == Optional("rx speed")
           d1 == Mandatory("minimum bps")
           d2 == Mandatory("maximum bps")
           d3 == Mandatory("dialed number")
<1>1. /\ a1 \in Avp /\ a2 \in Avp /\ a3 \in Avp /\ a4 \in Avp /\ a5 \in Avp /\ a6 \in Avp
      /\ a7 \in Avp /\ a8 \in Avp /\ b1 \in Avp /\ b2 \in Avp /\ b3 \in Avp /\ b4 \in Avp
      /\ c1 \in Avp /\ c2 \in Avp /\ c3 \in Avp /\ d1 \in Avp /\ d2 \in Avp /\ d3 \in Avp
  BY DEF Mandatory, Optional, Avp, Form, Names
<1> HIDE DEF a1, a2, a3, a4, a5, a6, a7, a8, b1, b2, b3, b4, c1, c2, c3, d1, d2, d3
<1>2. /\ <<a1, a2, a3, a4, a5, a6, a7, a8>> \in Seq(Avp)
      /\ <<a7, b1>> \in Seq(Avp)
      /\ <<b2, b3, b4>> \in Seq(Avp)
      /\ <<b2>> \in Seq(Avp)
      /\ <<c1, c2, c3>> \in Seq(Avp)
      /\ <<c1, c2>> \in Seq(Avp)
      /\ <<b2, b3, d1, d2, b4, c2, d3>> \in Seq(Avp)
      /\ <<b1, b2>> \in Seq(Avp)
      /\ <<>> \in Seq(Avp)
  BY <1>1
<1> USE DEF a1, a2, a3, a4, a5, a6, a7, a8, b1, b2, b3, b4, c1, c2, c3, d1, d2, d3
<1> QED
  BY <1>2 DEF Body

\* They follow the type.
LEMMA CarriedIs == \A kind, chal, resp : Typed(Carried(kind, chal, resp))
<1> SUFFICES ASSUME NEW kind, NEW chal, NEW resp PROVE Typed(Carried(kind, chal, resp))
  OBVIOUS
<1> DEFINE f == Mandatory("message type")
           a == <<f>>
           b == Body(kind)
           c == IF resp THEN <<Mandatory("response")>> ELSE <<>>
           d == IF chal THEN <<Mandatory("challenge")>> ELSE <<>>
<1>1. f \in Avp /\ IsType(f)
  BY DEF Mandatory, Avp, Form, Names, IsType
<1>2. b \in Seq(Avp)
  BY BodyIs
<1>3. c \in Seq(Avp) /\ d \in Seq(Avp)
  <2>1. Mandatory("response") \in Avp /\ Mandatory("challenge") \in Avp
    BY DEF Mandatory, Avp, Form, Names
  <2> QED
    BY <2>1
<1>4. Carried(kind, chal, resp) = ((a \o b) \o c) \o d
  BY DEF Carried
<1>5. a \in Seq(Avp) /\ Len(a) = 1 /\ a[1] = f
  <2> HIDE DEF f
  <2> QED
    BY <1>1
<1> HIDE DEF a, b, c, d, f
<1>6. \A q \in Seq(Avp), r \in Seq(Avp) :
        1 \in 1 .. Len(q) /\ q[1] = f =>
          q \o r \in Seq(Avp) /\ 1 \in 1 .. Len(q \o r) /\ (q \o r)[1] = f
  <2> SUFFICES ASSUME NEW q \in Seq(Avp), NEW r \in Seq(Avp), 1 \in 1 .. Len(q), q[1] = f
               PROVE  q \o r \in Seq(Avp) /\ 1 \in 1 .. Len(q \o r) /\ (q \o r)[1] = f
    OBVIOUS
  <2>1. /\ q \o r \in Seq(Avp) /\ Len(q \o r) = Len(q) + Len(r) /\ Len(q) \in Nat /\ Len(r) \in Nat
        /\ \A i \in 1 .. Len(q) : (q \o r)[i] = q[i]
    BY ConcatProperties, LenProperties
  <2> QED
    BY <2>1
<1>7. /\ (a \o b) \in Seq(Avp) /\ 1 \in 1 .. Len(a \o b) /\ (a \o b)[1] = f
  BY <1>2, <1>5, <1>6
<1>8. /\ ((a \o b) \o c) \in Seq(Avp) /\ 1 \in 1 .. Len((a \o b) \o c) /\ ((a \o b) \o c)[1] = f
  BY <1>3, <1>6, <1>7
<1>9. /\ (((a \o b) \o c) \o d) \in Seq(Avp) /\ 1 \in 1 .. Len(((a \o b) \o c) \o d)
      /\ (((a \o b) \o c) \o d)[1] = f
  BY <1>3, <1>6, <1>8
<1> QED
  BY <1>1, <1>4, <1>9 DEF Typed

\* The type is none of some attributes.
Kept(attrs) == "message type" \notin attrs

\* Another implementation may leave out others.
LEMMA WithoutIs ==
  ASSUME NEW avps, Typed(avps), NEW attrs, Kept(attrs)
  PROVE  Typed(Without(avps, attrs))
<1> DEFINE I == {i \in DOMAIN avps : avps[i].attr \notin attrs}
           s == Selected(avps, I)
<1>1. /\ avps \in Seq(Avp) /\ DOMAIN avps = 1 .. Len(avps) /\ Len(avps) \in Nat
      /\ 1 \in I /\ I \in SUBSET (1 .. Len(avps))
  <2>1. avps \in Seq(Avp) /\ 1 \in 1 .. Len(avps) /\ avps[1].attr = "message type"
    BY DEF Typed, IsType
  <2>2. Len(avps) \in Nat /\ DOMAIN avps = 1 .. Len(avps)
    BY <2>1, LenProperties
  <2>3. 1 \in I
    BY <2>1, <2>2 DEF Kept
  <2> QED
    BY <2>1, <2>2, <2>3
<1>2. s = Without(avps, attrs) /\ s = Selected(avps, I)
  BY DEF Without
<1> HIDE DEF I, s
<1>3. /\ s \in Seq(Avp) /\ Len(s) \in Nat
      /\ \A i \in I : Rank(I, i) \in 1 .. Len(s) /\ s[Rank(I, i)] = avps[i]
      /\ \A i, j \in I : i < j => Rank(I, i) < Rank(I, j)
      /\ \A k \in 1 .. Len(s) : \E i \in I : Rank(I, i) = k /\ s[k] = avps[i]
  <2>1. avps \in Seq(Avp) /\ I \in SUBSET (1 .. Len(avps)) /\ s = Selected(avps, I)
    BY <1>1, <1>2
  <2>2. /\ s \in Seq(Avp) /\ Len(s) = Cardinality(I) /\ Cardinality(I) \in Nat
        /\ \A i \in I : Rank(I, i) \in 1 .. Len(s) /\ s[Rank(I, i)] = avps[i]
        /\ \A i, j \in I : i < j => Rank(I, i) < Rank(I, j)
        /\ \A k \in 1 .. Len(s) : \E i \in I : Rank(I, i) = k /\ s[k] = avps[i]
    BY <2>1, SelectedIs
  <2> QED
    BY <2>2
<1>4. 1 \in 1 .. Len(s)
  <2>1. Rank(I, 1) \in 1 .. Len(s)
    BY <1>1, <1>3
  <2> QED
    BY <1>3, <2>1
<1>5. PICK i \in I : Rank(I, i) = 1 /\ s[1] = avps[i]
  BY <1>3, <1>4
<1>6. i = 1
  <2>1. i # 1 => 1 < i
    BY <1>1
  <2>2. Rank(I, 1) \in 1 .. Len(s)
    BY <1>1, <1>3
  <2>3. 1 < i => Rank(I, 1) < Rank(I, i)
    BY <1>1, <1>3
  <2> QED
    BY <1>3, <1>5, <2>1, <2>2, <2>3
<1> QED
  BY <1>2, <1>3, <1>4, <1>5, <1>6 DEF Typed

\* Each flaw leaves the type where it is.
LEMMA AvpsIs == \A m, flaw : Typed(AvpsOf(m, flaw))
<1> SUFFICES ASSUME NEW avps, Typed(avps), NEW flaw PROVE Typed(Spoilt(avps, flaw))
  BY CarriedIs DEF AvpsOf
<1>1. \A a \in Avp : Typed(Append(avps, a))
  <2> SUFFICES ASSUME NEW a \in Avp PROVE Typed(Append(avps, a))
    OBVIOUS
  <2>1. avps \in Seq(Avp) /\ Len(avps) \in Nat /\ 1 \in 1 .. Len(avps)
    BY LenProperties DEF Typed
  <2>2. /\ Append(avps, a) \in Seq(Avp) /\ Len(Append(avps, a)) = Len(avps) + 1
        /\ \A i \in 1 .. Len(avps) : Append(avps, a)[i] = avps[i]
    BY <2>1, AppendProperties
  <2> QED
    BY <2>1, <2>2 DEF Typed
<1>2. Mandatory("q.931 cause") \in Avp /\ Mandatory("unknown") \in Avp
  BY DEF Mandatory, Avp, Form, Names
<1>3. /\ Typed(Without(avps, {"assigned tunnel", "assigned call"}))
      /\ Typed(Without(avps, {"framing caps"})) /\ Typed(Without(avps, {"host name"}))
  <2>1. /\ Kept({"assigned tunnel", "assigned call"}) /\ Kept({"framing caps"}) /\ Kept({"host name"})
    BY DEF Kept
  <2> QED
    BY <2>1, WithoutIs
<1>4. Typed([avps EXCEPT ![Len(avps)].form = "size"])
  <2> DEFINE n == Len(avps)
             a == [avps[n] EXCEPT !.form = "size"]
             s == [avps EXCEPT ![n] = a]
  <2>1. avps \in Seq(Avp) /\ n \in Nat /\ 1 \in 1 .. n /\ n \in 1 .. n
    BY LenProperties DEF Typed
  <2>2. avps[n] \in Avp
    BY <2>1
  <2>3. a \in Avp /\ (IsType(avps[n]) => IsType(a))
    BY <2>2 DEF Avp, Form, IsType
  <2> HIDE DEF a
  <2>4. s \in Seq(Avp) /\ Len(s) = n /\ s[1] = IF n = 1 THEN a ELSE avps[1]
    BY <2>1, <2>3
  <2>5. Typed(s)
    BY <2>1, <2>3, <2>4 DEF Typed
  <2> QED
    BY <2>5 DEF a
<1>5. /\ Typed(Append(avps, Mandatory("q.931 cause"))) /\ Typed(Append(avps, Mandatory("unknown")))
  BY <1>1, <1>2
<1> QED
  BY <1>3, <1>4, <1>5 DEF Spoilt

\* A message that may not come in this state is an error, and none of its values is kept
\* (message_type_avp, handle_avps).
LEMMA OnlyWhenSane ==
  ASSUME NEW avps, Typed(avps), NEW kind, NEW ts, NEW cs, NEW onCall,
         NEW r, r = HandleAvps(avps, kind, ts, cs, onCall)
  PROVE  \/ r.error /\ r.close /\ r.kept = {}
         \/ Sane(kind, ts, cs, onCall) /\ "message type" \in r.kept
<1> DEFINE turn == [i \in DOMAIN avps |-> Turn(avps[i], i = 1, kind, ts, cs, onCall)]
           bad  == {i \in DOMAIN avps : turn[i] \in {"close", "refuse"}}
           done == {i \in DOMAIN avps : \A j \in bad : i <= j}
           name == "message type"
<1>1. r = [kept   |-> {avps[i].attr : i \in {j \in done : turn[j] = "apply"}},
           close  |-> \E i \in done : turn[i] \in {"close", "mark"},
           error  |-> bad # {}]
  BY DEF HandleAvps
<1>2. avps \in Seq(Avp) /\ DOMAIN avps = 1 .. Len(avps) /\ Len(avps) \in Nat /\ 1 \in DOMAIN avps
  BY LenProperties DEF Typed
<1>3. \/ Turn(avps[1], TRUE, kind, ts, cs, onCall) = "close"
      \/ Turn(avps[1], TRUE, kind, ts, cs, onCall) = "apply" /\ Sane(kind, ts, cs, onCall)
  <2> DEFINE h == message_type_avp(kind, avps[1].form, ts, cs, onCall)
  <2>1. h \in {"fail", "mark"} \/ (h = "apply" /\ Sane(kind, ts, cs, onCall))
    BY DEF message_type_avp, Sized, Typed, IsType
  <2>2. Handled(avps[1].attr, kind, avps[1].form, ts, cs, onCall) = h
    BY DEF Handled, Typed, IsType
  <2> HIDE DEF h
  <2> QED
    BY <2>1, <2>2 DEF Turn, Typed, IsType, Unknown, NoHandler
<1>4. turn[1] = "close" \/ (turn[1] = "apply" /\ Sane(kind, ts, cs, onCall))
  BY <1>2, <1>3
<1>5. avps[1].attr = name
  BY DEF Typed, IsType
<1> HIDE DEF turn, name
<1>6. \A i \in DOMAIN avps : 1 <= i /\ (i <= 1 => i = 1)
  BY <1>2
<1>7. r.kept = {avps[i].attr : i \in {j \in done : turn[j] = "apply"}} /\ r.error = (bad # {})
  BY <1>1
<1>10. (\E i \in done : turn[i] \in {"close", "mark"}) => r.close
  <2> HIDE DEF done
  <2> QED
    BY <1>1
<1>8. CASE turn[1] = "close"
  <2>1. 1 \in bad /\ 1 \in done
    BY <1>2, <1>6, <1>8
  <2>2. \A i \in done : i = 1
    BY <1>6, <2>1
  <2>3. {j \in done : turn[j] = "apply"} = {}
    BY <1>8, <2>2
  <2> HIDE DEF bad, done
  <2> QED
    BY <1>7, <1>8, <1>10, <2>1, <2>3
<1>9. CASE turn[1] = "apply" /\ Sane(kind, ts, cs, onCall)
  <2>1. 1 \in done
    BY <1>2, <1>6
  <2>2. name \in r.kept
    BY <1>5, <1>7, <1>9, <2>1
  <2> QED
    BY <1>9, <2>2 DEF name
<1> QED
  BY <1>4, <1>8, <1>9

\* An attribute that a handler takes when it belongs to the message.
Clean == {a \in Avp : a.form = "ok" /\ a.attr \notin NoHandler \cup Unknown \cup {"message type"}}

\* xl2tpd sends no others, but for OCRQ.
LEMMA BodyClean == \A kind : kind # "OCRQ" => Body(kind) \in Seq(Clean)
<1> SUFFICES ASSUME NEW kind, kind # "OCRQ" PROVE Body(kind) \in Seq(Clean)
  OBVIOUS
<1> DEFINE a1 == Mandatory("protocol version")
           a2 == Mandatory("framing caps")
           a3 == Mandatory("bearer caps")
           a4 == Optional("firmware")
           a5 == Mandatory("host name")
           a6 == Optional("vendor")
           a7 == Mandatory("assigned tunnel")
           a8 == Mandatory("window size")
           b1 == Mandatory("result code")
           b2 == Mandatory("assigned call")
           b3 == Mandatory("call serial")
           b4 == Mandatory("bearer type")
           c1 == Mandatory("tx speed")
           c2 == Mandatory("framing type")
           c3 == Optional("rx speed")
<1>1. /\ a1 \in Clean /\ a2 \in Clean /\ a3 \in Clean /\ a4 \in Clean /\ a5 \in Clean /\ a6 \in Clean
      /\ a7 \in Clean /\ a8 \in Clean /\ b1 \in Clean /\ b2 \in Clean /\ b3 \in Clean /\ b4 \in Clean
      /\ c1 \in Clean /\ c2 \in Clean /\ c3 \in Clean
  BY DEF Mandatory, Optional, Avp, Form, Names, Clean, NoHandler, Unknown
<1> HIDE DEF a1, a2, a3, a4, a5, a6, a7, a8, b1, b2, b3, b4, c1, c2, c3
<1>2. /\ <<a1, a2, a3, a4, a5, a6, a7, a8>> \in Seq(Clean)
      /\ <<a7, b1>> \in Seq(Clean)
      /\ <<b2, b3, b4>> \in Seq(Clean)
      /\ <<b2>> \in Seq(Clean)
      /\ <<c1, c2, c3>> \in Seq(Clean)
      /\ <<c1, c2>> \in Seq(Clean)
      /\ <<b1, b2>> \in Seq(Clean)
      /\ <<>> \in Seq(Clean)
  BY <1>1
<1> USE DEF a1, a2, a3, a4, a5, a6, a7, a8, b1, b2, b3, b4, c1, c2, c3
<1> QED
  BY <1>2 DEF Body

\* A message that begins with its type and has nothing else to refuse.
Carries(q, attr) == \E i \in 1 .. Len(q) : q[i].attr = attr
Cleanly(q) ==
  /\ q \in Seq(Avp) /\ 1 \in 1 .. Len(q) /\ q[1] = Mandatory("message type")
  /\ \A i \in 1 .. Len(q) : i # 1 => q[i] \in Clean

\* It may go on.
LEMMA CleanCat ==
  ASSUME NEW q, Cleanly(q), NEW r \in Seq(Clean)
  PROVE  Cleanly(q \o r) /\ \A a : Carries(q, a) \/ Carries(r, a) => Carries(q \o r, a)
<1> DEFINE s == q \o r
<1>1. q \in Seq(Avp) /\ r \in Seq(Avp) /\ Len(q) \in Nat /\ Len(r) \in Nat /\ 1 \in 1 .. Len(q)
  <2>1. Clean \subseteq Avp
    BY DEF Clean
  <2>2. r \in Seq(Avp)
    BY <2>1
  <2> QED
    BY <2>2, LenProperties DEF Cleanly
<1>2. /\ s \in Seq(Avp) /\ Len(s) = Len(q) + Len(r)
      /\ \A i \in 1 .. Len(q) : s[i] = q[i]
      /\ \A j \in 1 .. Len(r) : s[Len(q) + j] = r[j]
  <2>1. /\ s \in Seq(Avp) /\ Len(s) = Len(q) + Len(r)
        /\ \A i \in 1 .. Len(q) : s[i] = q[i]
        /\ \A i \in Len(q) + 1 .. Len(q) + Len(r) : s[i] = r[i - Len(q)]
    BY <1>1, ConcatProperties
  <2>2. ASSUME NEW j \in 1 .. Len(r) PROVE s[Len(q) + j] = r[j]
    <3>1. Len(q) + j \in Len(q) + 1 .. Len(q) + Len(r) /\ (Len(q) + j) - Len(q) = j
      BY <1>1
    <3> QED
      BY <2>1, <3>1
  <2> QED
    BY <2>1, <2>2
<1> HIDE DEF s
<1>3. ASSUME NEW i \in 1 .. Len(s) PROVE i \in 1 .. Len(q) \/ \E j \in 1 .. Len(r) : i = Len(q) + j
  <2>1. CASE i \in 1 .. Len(q)
    BY <2>1
  <2>2. CASE i \notin 1 .. Len(q)
    <3>1. i - Len(q) \in 1 .. Len(r) /\ i = Len(q) + (i - Len(q))
      BY <1>1, <1>2, <2>2
    <3> QED
      BY <3>1
  <2> QED
    BY <2>1, <2>2
<1>4. \A j \in 1 .. Len(r) : r[j] \in Clean
  OBVIOUS
<1>5. \A i \in 1 .. Len(s) : i # 1 => s[i] \in Clean
  BY <1>2, <1>3, <1>4 DEF Cleanly
<1>6. 1 \in 1 .. Len(s)
  BY <1>1, <1>2
<1>7. Cleanly(s)
  BY <1>1, <1>2, <1>5, <1>6 DEF Cleanly
<1>8. ASSUME NEW a, Carries(q, a) \/ Carries(r, a) PROVE Carries(s, a)
  <2>1. CASE Carries(q, a)
    <3>1. PICK i \in 1 .. Len(q) : q[i].attr = a
      BY <2>1 DEF Carries
    <3>2. i \in 1 .. Len(s) /\ s[i].attr = a
      BY <1>1, <1>2, <3>1
    <3> QED
      BY <3>2 DEF Carries
  <2>2. CASE Carries(r, a)
    <3>1. PICK j \in 1 .. Len(r) : r[j].attr = a
      BY <2>2 DEF Carries
    <3>2. Len(q) + j \in 1 .. Len(s) /\ s[Len(q) + j].attr = a
      BY <1>1, <1>2, <3>1
    <3> QED
      BY <3>2 DEF Carries
  <2> QED
    BY <1>8, <2>1, <2>2
<1> QED
  BY <1>7, <1>8 DEF s

\* The fields of an attribute, and the elements of short sequences.
LEMMA MandatoryIs == \A name : Mandatory(name).attr = name /\ Mandatory(name).form = "ok"
BY DEF Mandatory

\* A sequence of one, two or three.
LEMMA ShortIs ==
  /\ \A x : Carries(<<x>>, x.attr)
  /\ \A x, y : Carries(<<x, y>>, x.attr) /\ Carries(<<x, y>>, y.attr)
  /\ \A x, y, z : Carries(<<x, y, z>>, x.attr)
<1>1. ASSUME NEW x PROVE Carries(<<x>>, x.attr)
  BY DEF Carries
<1>2. ASSUME NEW x, NEW y PROVE Carries(<<x, y>>, x.attr) /\ Carries(<<x, y>>, y.attr)
  BY DEF Carries
<1>3. ASSUME NEW x, NEW y, NEW z PROVE Carries(<<x, y, z>>, x.attr)
  BY DEF Carries
<1> QED
  BY <1>1, <1>2, <1>3

\* A message of xl2tpd without a flaw is such a one, and carries what its handler needs.
LEMMA CarriedClean ==
  ASSUME NEW kind, kind # "OCRQ", NEW chal, NEW resp, NEW avps, avps = Carried(kind, chal, resp)
  PROVE  /\ Cleanly(avps)
         /\ kind \in {"CDN", "ICRP", "ICRQ", "OCRP"} => Carries(avps, "assigned call")
         /\ kind \in {"CDN", "StopCCN"} => Carries(avps, "result code")
<1> DEFINE f == Mandatory("message type")
           a == <<f>>
           b == Body(kind)
           c == IF resp THEN <<Mandatory("response")>> ELSE <<>>
           d == IF chal THEN <<Mandatory("challenge")>> ELSE <<>>
<1>1. f \in Avp
  BY DEF Mandatory, Avp, Form, Names
<1>2. b \in Seq(Clean)
  BY BodyClean
<1>3. c \in Seq(Clean) /\ d \in Seq(Clean)
  <2>1. Mandatory("response") \in Clean /\ Mandatory("challenge") \in Clean
    BY DEF Mandatory, Avp, Form, Names, Clean, NoHandler, Unknown
  <2> QED
    BY <2>1
<1>4. avps = ((a \o b) \o c) \o d
  BY DEF Carried
<1>5. Cleanly(a)
  <2>1. a \in Seq(Avp) /\ Len(a) = 1 /\ a[1] = f
    <3> HIDE DEF f
    <3> QED
      BY <1>1
  <2>2. \A i \in 1 .. 1 : i = 1
    OBVIOUS
  <2>3. 1 \in 1 .. 1
    OBVIOUS
  <2>4. a[1] = Mandatory("message type")
    BY <2>1
  <2> HIDE DEF a
  <2> QED
    BY <2>1, <2>2, <2>3, <2>4, Zenon DEF Cleanly
<1>6. kind \in {"CDN", "ICRP", "ICRQ", "OCRP"} => Carries(b, "assigned call")
  <2> DEFINE x == Mandatory("assigned call")
             y == Mandatory("result code")
             z == Mandatory("call serial")
             u == Mandatory("bearer type")
  <2>1. x.attr = "assigned call"
    BY MandatoryIs
  <2>2. /\ kind = "CDN" => b = <<y, x>>
        /\ kind = "ICRQ" => b = <<x, z, u>>
        /\ kind \in {"ICRP", "OCRP"} => b = <<x>>
    BY DEF Body, Opening
  <2> HIDE DEF b, x, y, z, u
  <2>3. Carries(<<x>>, x.attr) /\ Carries(<<y, x>>, x.attr) /\ Carries(<<x, z, u>>, x.attr)
    BY ShortIs
  <2> QED
    BY <2>1, <2>2, <2>3
<1>7. kind \in {"CDN", "StopCCN"} => Carries(b, "result code")
  <2> DEFINE x == Mandatory("result code")
             y == Mandatory("assigned call")
             z == Mandatory("assigned tunnel")
  <2>1. x.attr = "result code"
    BY MandatoryIs
  <2>2. (kind = "CDN" => b = <<x, y>>) /\ (kind = "StopCCN" => b = <<z, x>>)
    BY DEF Body, Opening
  <2> HIDE DEF b, x, y, z
  <2>3. Carries(<<x, y>>, x.attr) /\ Carries(<<z, x>>, x.attr)
    BY ShortIs
  <2> QED
    BY <2>1, <2>2, <2>3
<1> HIDE DEF a, b, c, d, f
<1>8. Cleanly(a \o b) /\ \A x : Carries(b, x) => Carries(a \o b, x)
  BY <1>2, <1>5, CleanCat
<1>9. Cleanly((a \o b) \o c) /\ \A x : Carries(b, x) => Carries((a \o b) \o c, x)
  BY <1>3, <1>8, CleanCat
<1>10. Cleanly(((a \o b) \o c) \o d) /\ \A x : Carries(b, x) => Carries(((a \o b) \o c) \o d, x)
  BY <1>3, <1>9, CleanCat
<1> QED
  BY <1>4, <1>6, <1>7, <1>10

\* The outcome v of a turn for attribute a: it is no error, and takes what the message needs.
TurnsWell(a, kind, v) ==
  /\ v \in {"apply", "ignore"}
  /\ a.attr = "assigned call" /\ kind \in {"CDN", "ICRP", "ICRQ", "OCRP"} => v = "apply"
  /\ a.attr = "result code" /\ kind \in {"CDN", "StopCCN"} => v = "apply"

\* A turn of handle_avps for such an attribute.
LEMMA CleanTurn ==
  ASSUME NEW a \in Clean, NEW kind, NEW ts, NEW cs, NEW onCall
  PROVE  TurnsWell(a, kind, Turn(a, FALSE, kind, ts, cs, onCall))
<1>1. a.form = "ok" /\ a.attr \notin NoHandler \cup Unknown \cup {"message type"} /\ a.attr \in Names /\ a.m \in BOOLEAN
  BY DEF Clean, Avp
<1>2. Sized("ok") = "apply"
  BY DEF Sized
<1>3. \A kinds : KindFirst(kinds, kind, "ok") \in {"apply", "ignore"}
  BY <1>2 DEF KindFirst
<1>4. \A kinds : SizeFirst(kinds, kind, "ok") \in {"apply", "ignore"}
  BY <1>2 DEF SizeFirst
<1> DEFINE v == Handled(a.attr, kind, a.form, ts, cs, onCall)
<1>5. a.attr = "assigned call" => v = KindFirst({"CDN", "ICRP", "ICRQ", "OCRP"}, kind, "ok")
  BY <1>1 DEF Handled, assigned_call_avp
<1>6. a.attr = "result code" => v = SizeFirst({"CDN", "StopCCN"}, kind, "ok")
  BY <1>1 DEF Handled, result_code_avp
<1>7. a.attr = "host name" => v \in {"apply", "ignore"}
  BY <1>1, <1>3 DEF Handled, hostname_avp
<1>8. a.attr \in {"protocol version", "framing caps", "bearer caps", "firmware", "vendor"} => v \in {"apply", "ignore"}
  BY <1>1, <1>3, <1>4 DEF Handled, protocol_version_avp, framing_caps_avp, bearer_caps_avp, firmware_rev_avp, vendor_avp
<1>9. a.attr \in {"assigned tunnel", "window size", "challenge", "response"} => v \in {"apply", "ignore"}
  BY <1>1, <1>3 DEF Handled, assigned_tunnel_avp, receive_window_size_avp, challenge_avp, chalresp_avp
<1>10. a.attr \in {"call serial", "bearer type", "framing type", "dialed number", "tx speed", "rx speed"} =>
         v \in {"apply", "ignore"}
  BY <1>1, <1>3 DEF Handled, call_serno_avp, bearer_type_avp, frame_type_avp, dialed_number_avp, tx_speed_avp, rx_speed_avp
<1>11. /\ v \in {"apply", "ignore"}
       /\ a.attr = "assigned call" /\ kind \in {"CDN", "ICRP", "ICRQ", "OCRP"} => v = "apply"
       /\ a.attr = "result code" /\ kind \in {"CDN", "StopCCN"} => v = "apply"
  <2>1. a.attr = "assigned call" => v \in {"apply", "ignore"}
    BY <1>3, <1>5
  <2>2. a.attr = "result code" => v \in {"apply", "ignore"}
    BY <1>4, <1>6
  <2>3. v \in {"apply", "ignore"}
    BY <1>1, <1>7, <1>8, <1>9, <1>10, <2>1, <2>2 DEF Names, NoHandler, Unknown
  <2>4. a.attr = "assigned call" /\ kind \in {"CDN", "ICRP", "ICRQ", "OCRP"} => v = "apply"
    BY <1>2, <1>5 DEF KindFirst
  <2>5. a.attr = "result code" /\ kind \in {"CDN", "StopCCN"} => v = "apply"
    BY <1>2, <1>6 DEF SizeFirst
  <2> QED
    BY <2>3, <2>4, <2>5
<1>12. Turn(a, FALSE, kind, ts, cs, onCall) = v
  <2> DEFINE z == Handled(a.attr, kind, a.form, ts, cs, onCall)
  <2>1. z \in {"apply", "ignore"} /\ z = v
    BY <1>11
  <2> HIDE DEF v
  <2> QED
    BY <1>1, <2>1 DEF Turn
<1> QED
  BY <1>11, <1>12 DEF TurnsWell

\* What handle_avps takes of a message without a flaw.
ReadWell(r, kind, sane) ==
  IF sane THEN /\ ~ r.error /\ ~ r.close /\ "message type" \in r.kept
               /\ kind \in {"CDN", "ICRP", "ICRQ", "OCRP"} => "assigned call" \in r.kept
               /\ kind \in {"CDN", "StopCCN"} => "result code" \in r.kept
  ELSE r.error /\ r.close /\ r.kept = {}

\* A message without a flaw is refused as a whole, or not at all (handle_avps).
LEMMA CleanRead ==
  ASSUME NEW kind, NEW chal, NEW resp, NEW ts, NEW cs, NEW onCall,
         NEW r, r = HandleAvps(Carried(kind, chal, resp), kind, ts, cs, onCall)
  PROVE  ReadWell(r, kind, Sane(kind, ts, cs, onCall))
<1> DEFINE avps == Carried(kind, chal, resp)
           turn == [i \in DOMAIN avps |-> Turn(avps[i], i = 1, kind, ts, cs, onCall)]
           bad  == {i \in DOMAIN avps : turn[i] \in {"close", "refuse"}}
           done == {i \in DOMAIN avps : \A j \in bad : i <= j}
<1>1. (r.error /\ r.close /\ r.kept = {}) \/ (Sane(kind, ts, cs, onCall) /\ "message type" \in r.kept)
  <2>1. Typed(avps) /\ r = HandleAvps(avps, kind, ts, cs, onCall)
    BY CarriedIs
  <2> HIDE DEF avps, turn, bad, done
  <2> QED
    BY ONLY <2>1, OnlyWhenSane
<1>2. CASE Sane(kind, ts, cs, onCall)
  <2>1. kind # "OCRQ"
    BY <1>2 DEF Sane
  <2>2. /\ Cleanly(avps)
        /\ kind \in {"CDN", "ICRP", "ICRQ", "OCRP"} => Carries(avps, "assigned call")
        /\ kind \in {"CDN", "StopCCN"} => Carries(avps, "result code")
    <3>1. avps = Carried(kind, chal, resp)
      OBVIOUS
    <3> HIDE DEF avps
    <3> QED
      BY <2>1, <3>1, CarriedClean
  <2>3. /\ r.kept = {avps[i].attr : i \in {j \in done : turn[j] = "apply"}}
        /\ r.close = (\E i \in done : turn[i] \in {"close", "mark"})
        /\ r.error = (bad # {})
    BY DEF HandleAvps
  <2>4. DOMAIN avps = 1 .. Len(avps)
    <3> HIDE DEF avps
    <3> QED
      BY <2>2, LenProperties DEF Cleanly
  <2>5. Turn(avps[1], TRUE, kind, ts, cs, onCall) = "apply"
    <3> DEFINE h == message_type_avp(kind, "ok", ts, cs, onCall)
    <3>1. avps[1].attr = "message type" /\ avps[1].form = "ok"
      <4> HIDE DEF avps
      <4>1. avps[1] = Mandatory("message type")
        BY <2>2 DEF Cleanly
      <4> QED
        BY <4>1, MandatoryIs
    <3>2. h = "apply"
      BY <1>2 DEF message_type_avp, Sized
    <3>3. Handled(avps[1].attr, kind, avps[1].form, ts, cs, onCall) = "apply"
      <4> HIDE DEF avps
      <4> QED
        BY <3>1, <3>2 DEF Handled
    <3> HIDE DEF avps
    <3> QED
      BY <3>1, <3>3 DEF Turn, Unknown, NoHandler
  <2> HIDE DEF avps
  <2>6. ASSUME NEW i \in 1 .. Len(avps)
        PROVE  /\ turn[i] \in {"apply", "ignore"}
               /\ avps[i].attr = "assigned call" /\ kind \in {"CDN", "ICRP", "ICRQ", "OCRP"} => turn[i] = "apply"
               /\ avps[i].attr = "result code" /\ kind \in {"CDN", "StopCCN"} => turn[i] = "apply"
    <3>1. turn[i] = Turn(avps[i], i = 1, kind, ts, cs, onCall)
      BY <2>4
    <3>2. CASE i = 1
      <4>1. avps[1].attr = "message type"
        <5>1. avps[1] = Mandatory("message type")
          BY <2>2 DEF Cleanly
        <5> QED
          BY <5>1, MandatoryIs
      <4> QED
        BY <2>5, <3>1, <3>2, <4>1
    <3>3. CASE i # 1
      <4> DEFINE a == avps[i]
      <4>1. a \in Clean /\ turn[i] = Turn(a, FALSE, kind, ts, cs, onCall)
        BY <2>2, <3>1, <3>3 DEF Cleanly
      <4> DEFINE z == Turn(a, FALSE, kind, ts, cs, onCall)
      <4>2. z = turn[i] /\ a \in Clean
        BY <4>1
      <4> HIDE DEF a, turn
      <4>3. TurnsWell(a, kind, z)
        BY ONLY <4>2, CleanTurn
      <4> HIDE DEF z
      <4> QED
        BY <4>2, <4>3 DEF a, TurnsWell
    <3> QED
      BY <3>2, <3>3
  <2> HIDE DEF turn
  <2>7. bad = {}
    BY <2>4, <2>6
  <2>8. done = 1 .. Len(avps)
    BY <2>4, <2>7
  <2> HIDE DEF bad, done
  <2>9. ~ r.error /\ ~ r.close
    BY <2>3, <2>6, <2>7, <2>8
  <2>10. kind \in {"CDN", "ICRP", "ICRQ", "OCRP"} => "assigned call" \in r.kept
    BY <2>2, <2>3, <2>6, <2>8 DEF Carries
  <2>11. kind \in {"CDN", "StopCCN"} => "result code" \in r.kept
    BY <2>2, <2>3, <2>6, <2>8 DEF Carries
  <2> QED
    BY <1>1, <1>2, <2>9, <2>10, <2>11 DEF ReadWell
<1> QED
  BY <1>1, <1>2 DEF ReadWell
-----------------------------------------------------------------------------
(* The parts of a handler.                                                  *)

\* The states of the tunnels and whom they heard are the same.
LikeTuns(v, w) ==
  \A f \in End : \A s \in TunnelIds(f) :
    v.tun[f][s].state = w.tun[f][s].state /\ v.tun[f][s].heard = w.tun[f][s].heard

\* An id that a message of the set-up may give to a tunnel.
IdFits(w, e, t, id) ==
  /\ id = w.tun[e][t].heard /\ id \in TunnelIds(Peer(e)) /\ w.tun[e][t].state # "off"
  /\ e = "lac" => Knows(w, "lns", id, t)
  /\ e = "lns" => w.tun[e][t].state \notin Answered

\* The same for the attributes that kept names; a call that gets an id is in the tunnel.
StoreFits(w, e, t, c, m, kept, p) ==
  /\ "assigned tunnel" \in kept /\ m.kind \in Opening => IdFits(w, e, t, m.id)
  /\ "assigned call" \in kept /\ m.kind = "ICRQ" =>
       p \in CallIds(e) /\ Live(w.call[e][p]) /\ w.call[e][p].tun = t
  /\ "assigned call" \in kept /\ m.kind \in {"ICRP", "OCRP"} =>
       c \in CallIds(e) /\ Live(w.call[e][c]) /\ w.call[e][c].tun = t

\* What it is that they store.
StoredIs(v, w, e, t, c, m, kept, p) ==
  /\ v.box = w.box
  /\ v.tun[e][t].needclose = w.tun[e][t].needclose /\ v.tun[e][t].closing = w.tun[e][t].closing
  /\ v.tun[e][t].stuck = w.tun[e][t].stuck
  /\ ~ ("assigned tunnel" \in kept /\ m.kind \in Opening) => v.tun[e][t].tid = w.tun[e][t].tid
  /\ \/ "assigned call" \in kept /\ m.kind \in {"ICRQ", "ICRP", "OCRP"}
     \/ \A f \in End : \A d \in CallIds(f) : v.call[f][d] = w.call[f][d]
  /\ "assigned call" \in kept /\ m.kind \in {"ICRQ", "ICRP", "OCRP"} =>
       LET k == IF m.kind = "ICRQ" THEN p ELSE c
       IN /\ v.call[e][k] = [w.call[e][k] EXCEPT !.cid = m.id]
          /\ \A f \in End : \A d \in CallIds(f) : f # e \/ d # k => v.call[f][d] = w.call[f][d]

\* The id of a tunnel's peer, and whether it challenges.
WithIds(w, e, t, tid, us) == [w EXCEPT !.tun[e][t].tid = tid, !.tun[e][t].us = us]

\* The two are changed one after the other.
LEMMA IdSteps ==
  ASSUME NEW w, NEW e, NEW t, NEW tid, NEW us, NEW y, y = WithTun(w, e, t, [w.tun[e][t] EXCEPT !.tid = tid])
  PROVE  WithIds(w, e, t, tid, us) = WithTun(y, e, t, [y.tun[e][t] EXCEPT !.us = us])
BY DEF WithIds, WithTun

\* What the handlers of avp.c store.
LEMMA StoredGood ==
  ASSUME PoolAssumption, NEW w, Good(w), NEW e \in End, NEW t \in TunnelIds(e), NEW c, NEW m \in Message,
         NEW kept, NEW p,
         StoreFits(w, e, t, c, m, kept, p), NEW v, v = Stored(w, e, t, c, m, kept, p)
  PROVE  /\ Good(v) /\ LikeTuns(v, w) /\ SameCalls(v, w)
         /\ Within(v, w, e, t) /\ StoredIs(v, w, e, t, c, m, kept, p)
<1> DEFINE u == w.tun[e][t]
           stores == "assigned tunnel" \in kept /\ m.kind \in Opening
           us == u.us \/ "challenge" \in kept
           tid == IF stores THEN m.id ELSE u.tid
           x == [u EXCEPT !.tid = tid]
           z == [x EXCEPT !.us = us]
           y == WithTun(w, e, t, x)
           d == WithTun(w, e, t, z)
<1>1. IsWorld(w) /\ u \in Tunnel /\ TunInv(w, e, t, u) /\ m.id \in Nat /\ (e = "lns" => Alone(w, t, u))
  <2>1. IsWorld(w) /\ u \in Tunnel /\ TunInv(w, e, t, u) /\ (e = "lns" => Alone(w, t, u))
    BY WorldFields DEF Good
  <2> QED
    BY <2>1 DEF Message
<1>2. /\ x \in Tunnel /\ x.us = u.us /\ x.state = u.state /\ x.heard = u.heard /\ x.tid = tid /\ x.them = u.them
      /\ x.needclose = u.needclose /\ x.closing = u.closing /\ x.stuck = u.stuck
  <2> HIDE DEF stores
  <2> QED
    BY <1>1 DEF Tunnel
<1>3. /\ z \in Tunnel /\ z.state = u.state /\ z.heard = u.heard /\ z.tid = tid /\ z.them = u.them
      /\ z.needclose = u.needclose /\ z.closing = u.closing /\ z.stuck = u.stuck
  <2>1. us \in BOOLEAN
    BY <1>1 DEF Tunnel
  <2> HIDE DEF us, x
  <2> QED
    BY <1>2, <2>1 DEF Tunnel
<1>4. [w EXCEPT !.tun[e][t].tid = IF stores THEN m.id ELSE @, !.tun[e][t].us = @ \/ "challenge" \in kept] = d
  <2>1. [w EXCEPT !.tun[e][t].tid = IF stores THEN m.id ELSE @, !.tun[e][t].us = @ \/ "challenge" \in kept]
           = WithIds(w, e, t, tid, us)
    BY DEF WithIds
  <2>2. y.tun[e][t] = x
    <3>1. IsWorld(w) /\ x \in Tunnel /\ y = WithTun(w, e, t, x)
      BY <1>1, <1>2
    <3> HIDE DEF x, y
    <3> QED
      BY <3>1, TunFields
  <2>3. WithTun(y, e, t, z) = d
    <3>1. IsWorld(w)
      BY <1>1
    <3> HIDE DEF x, z
    <3> QED
      BY <3>1, TunTwice
  <2>4. WithIds(w, e, t, tid, us) = WithTun(y, e, t, z)
    <3> HIDE DEF tid, us
    <3>1. y = WithTun(w, e, t, [w.tun[e][t] EXCEPT !.tid = tid])
      OBVIOUS
    <3>2. z = [x EXCEPT !.us = us]
      OBVIOUS
    <3> HIDE DEF x, y, z
    <3>3. WithIds(w, e, t, tid, us) = WithTun(y, e, t, [y.tun[e][t] EXCEPT !.us = us])
      BY ONLY <3>1, IdSteps
    <3> QED
      BY <2>2, <3>2, <3>3
  <2> HIDE DEF y, z, d
  <2> QED
    BY <2>1, <2>3, <2>4
<1>5. stores => IdFits(w, e, t, m.id)
  BY DEF StoreFits
<1> HIDE DEF x, z
<1>6. TunInv(w, e, t, z) /\ (e = "lns" => Alone(w, t, z)) /\ (u.tid # 0 => tid = u.tid)
  <2>1. CASE stores /\ e = "lac"
    <3>1. tid \in TunnelIds("lns") /\ tid = u.heard /\ u.state # "off" /\ Knows(w, "lns", tid, t)
      BY <1>5, <2>1, EndIs DEF IdFits
    <3> QED
      BY <1>1, <1>3, <2>1, <3>1, EndIs DEF TunInv, LacTunInv, Live
  <2>2. CASE stores /\ e = "lns"
    <3>1. tid = u.heard /\ tid \in TunnelIds("lac") /\ u.state \notin Answered \cup {"off"}
      BY <1>5, <2>2, EndIs DEF IdFits
    <3> QED
      BY <1>1, <1>3, <2>2, <3>1, EndIs DEF TunInv, LnsTunInv, Alone, Live, Answered
  <2>3. CASE ~ stores
    <3>1. tid = u.tid
      BY <2>3
    <3> HIDE DEF tid
    <3>2. TunInv(w, e, t, z)
      BY <1>1, <1>3, <3>1 DEF TunInv, LacTunInv, LnsTunInv, Live
    <3> QED
      BY <1>1, <1>3, <3>1, <3>2 DEF Alone
  <2> QED
    BY <2>1, <2>2, <2>3, EndIs
<1>17. ~ stores => tid = u.tid
  OBVIOUS
<1> HIDE DEF tid, stores
<1>18. Keeps(z, u)
  BY <1>3, <1>6 DEF Keeps, Live
<1>7. Good(d)
  BY <1>3, <1>6, <1>18, TunGood
<1>8. /\ d.call = w.call /\ d.tun[e][t] = z /\ d.box = w.box
      /\ \A f \in End : \A s \in TunnelIds(f) : f # e \/ s # t => d.tun[f][s] = w.tun[f][s]
  <2>1. IsWorld(w) /\ z \in Tunnel /\ d = WithTun(w, e, t, z)
    BY <1>1, <1>3
  <2> HIDE DEF d, us
  <2> QED
    BY <2>1, TunFields
<1>9. LikeTuns(d, w)
  BY <1>3, <1>8 DEF LikeTuns
<1>13. Within(d, w, e, t)
  BY <1>8, TunWithin
<1>14. stores <=> "assigned tunnel" \in kept /\ m.kind \in Opening
  BY DEF stores
<1> DEFINE gives == "assigned call" \in kept /\ m.kind \in {"ICRQ", "ICRP", "OCRP"}
           j == IF m.kind = "ICRQ" THEN p ELSE c
<1>10. \/ v = d /\ ~ gives
       \/ /\ gives /\ j \in CallIds(e) /\ Live(w.call[e][j]) /\ w.call[e][j].tun = t
          /\ v = WithCall(d, e, j, [d.call[e][j] EXCEPT !.cid = m.id])
  <2>1. v = CASE "assigned call" \in kept /\ m.kind = "ICRQ" -> [d EXCEPT !.call[e][p].cid = m.id]
              [] "assigned call" \in kept /\ m.kind \in {"ICRP", "OCRP"} -> [d EXCEPT !.call[e][c].cid = m.id]
              [] OTHER -> d
    BY Zenon, <1>4 DEF Stored, stores
  <2> HIDE DEF d
  <2>2. CASE "assigned call" \in kept /\ m.kind = "ICRQ"
    <3>1. v = WithCall(d, e, p, [d.call[e][p] EXCEPT !.cid = m.id])
      BY <2>1, <2>2 DEF WithCall
    <3> QED
      BY <2>2, <3>1 DEF StoreFits
  <2>3. CASE "assigned call" \in kept /\ m.kind \in {"ICRP", "OCRP"}
    <3>1. v = WithCall(d, e, c, [d.call[e][c] EXCEPT !.cid = m.id])
      BY <2>1, <2>3 DEF WithCall
    <3> QED
      BY <2>3, <3>1 DEF StoreFits
  <2> QED
    BY <2>1, <2>2, <2>3
<1> HIDE DEF d
<1>15. /\ v.tun[e][t] = z => /\ v.tun[e][t].needclose = w.tun[e][t].needclose
                             /\ v.tun[e][t].closing = w.tun[e][t].closing
                             /\ v.tun[e][t].stuck = w.tun[e][t].stuck
                             /\ ~ stores => v.tun[e][t].tid = w.tun[e][t].tid
  BY <1>3, <1>17
<1>11. CASE v = d /\ ~ gives
  <2>1. StoredIs(v, w, e, t, c, m, kept, p)
    BY <1>8, <1>11, <1>14, <1>15 DEF StoredIs
  <2> QED
    BY <1>7, <1>8, <1>9, <1>11, <1>13, <2>1 DEF SameCalls, SameCall
<1>12. CASE /\ gives /\ j \in CallIds(e) /\ Live(w.call[e][j]) /\ w.call[e][j].tun = t
            /\ v = WithCall(d, e, j, [d.call[e][j] EXCEPT !.cid = m.id])
  <2> DEFINE r == [d.call[e][j] EXCEPT !.cid = m.id]
  <2>8. j \in CallIds(e) /\ Live(w.call[e][j]) /\ w.call[e][j].tun = t /\ j = IF m.kind = "ICRQ" THEN p ELSE c
    BY <1>12
  <2>9. v = WithCall(d, e, j, r)
    BY <1>12
  <2> HIDE DEF j
  <2>2. r \in Call /\ SameCall(r, d.call[e][j])
    <3>1. d.call[e][j] \in Call
      BY <1>7, <2>8, WorldFields DEF Good
    <3> QED
      BY <1>1, <3>1 DEF Call, SameCall
  <2>3. v = WithCall(d, e, j, r) /\ Live(d.call[e][j]) /\ d.call[e][j].tun = t /\ r = [w.call[e][j] EXCEPT !.cid = m.id]
    BY <1>8, <2>8, <2>9
  <2> HIDE DEF r
  <2>4. Flagged(v, d) /\ OnlyCall(v, d, e, j, r) /\ Within(v, d, e, t)
    BY <1>7, <2>2, <2>3, <2>8, CallFlagged
  <2>6. LikeTuns(v, w)
    BY <1>9, <2>4 DEF LikeTuns, OnlyCall
  <2>7. SameCalls(v, d)
    BY <2>4 DEF Flagged
  <2>10. Within(v, w, e, t)
    BY Zenon, <1>13, <2>4, WithinAgain
  <2>11. StoredIs(v, w, e, t, c, m, kept, p)
    <3>1. v.tun = d.tun /\ v.box = d.box /\ v.call[e][j] = r
          /\ \A f \in End : \A i \in CallIds(f) : f # e \/ i # j => v.call[f][i] = w.call[f][i]
      BY <1>8, <2>4 DEF OnlyCall
    <3>2. /\ v.box = w.box
          /\ v.tun[e][t].needclose = w.tun[e][t].needclose /\ v.tun[e][t].closing = w.tun[e][t].closing
          /\ v.tun[e][t].stuck = w.tun[e][t].stuck
          /\ ~ ("assigned tunnel" \in kept /\ m.kind \in Opening) => v.tun[e][t].tid = w.tun[e][t].tid
      BY <1>8, <1>14, <1>15, <3>1
    <3>3. "assigned call" \in kept /\ m.kind \in {"ICRQ", "ICRP", "OCRP"}
      BY <1>12, <1>14
    <3>4. r = [w.call[e][j] EXCEPT !.cid = m.id] /\ j = IF m.kind = "ICRQ" THEN p ELSE c
      BY <2>3, <2>8
    <3> HIDE DEF z, d, gives
    <3> QED
      BY ONLY <3>1, <3>2, <3>3, <3>4 DEF StoredIs
  <2> QED
    BY <1>8, <2>4, <2>6, <2>7, <2>10, <2>11 DEF Flagged, SameCalls
<1> QED
  BY <1>10, <1>11, <1>12

\* A tunnel whose state, challenge and nothing else changes.
WithState(w, e, t, s) == [w EXCEPT !.tun[e][t].state = s]
WithStates(w, e, t, s, h) == [w EXCEPT !.tun[e][t].state = s, !.tun[e][t].them = h]
Stepped(w, e, t, s, h) == WithTun(w, e, t, [[w.tun[e][t] EXCEPT !.state = s] EXCEPT !.them = h])

\* The invariant allows the new state.
MayStep(w, e, t, s, h) ==
  LET u == w.tun[e][t]
  IN /\ u.state # "gone"
     /\ e = "lac" => /\ s = "SCCCN"
                     /\ (conf.lacChallenges => conf.secrets = "same") /\ Secret
     /\ e = "lns" => /\ s \in Answered /\ u.tid # 0 /\ Live(u)
                     /\ s = "SCCRP" => u.state # "SCCCN" /\ (conf.lnsChallenges /\ HasSecret("lns") => h)
                     /\ s = "SCCCN" => (conf.lnsChallenges /\ HasSecret("lns") => conf.secrets = "same") /\ Past(w, u.heard)
                     /\ \A x \in TunnelIds("lns") \ {t} :
                           w.tun["lns"][x].state \in Answered => w.tun["lns"][x].tid # u.tid

\* A tunnel knows its peer, and is to close or not, as before.
Stands(u, x) ==
  u.tid = x.tid /\ u.needclose = x.needclose /\ u.closing = x.closing /\ u.stuck = x.stuck

\* A tunnel that goes on.
LEMMA TunStep ==
  ASSUME NEW w, Good(w), NEW e \in End, NEW t \in TunnelIds(e), NEW s \in TunnelState, NEW h \in BOOLEAN,
         MayStep(w, e, t, s, h), NEW y, y = Stepped(w, e, t, s, h)
  PROVE  Good(y) /\ y.call = w.call /\ y.used = w.used /\ y.local = w.local /\ y.box = w.box
         /\ y.tun[e][t].state = s /\ Stands(y.tun[e][t], w.tun[e][t]) /\ Within(y, w, e, t)
         /\ \A f \in End : \A x \in TunnelIds(f) : f # e \/ x # t => y.tun[f][x] = w.tun[f][x]
<1> DEFINE u == w.tun[e][t]
           z == [[u EXCEPT !.state = s] EXCEPT !.them = h]
<1>1. IsWorld(w) /\ u \in Tunnel /\ TunInv(w, e, t, u)
  BY WorldFields DEF Good
<1>2. z \in Tunnel /\ z.state = s /\ z.them = h /\ z.heard = u.heard /\ z.tid = u.tid /\ Stands(z, u)
  BY <1>1 DEF Tunnel, Stands
<1>3. y = WithTun(w, e, t, z)
  BY DEF Stepped
<1> HIDE DEF z
<1>4. TunInv(w, e, t, z)
  <2>1. CASE e = "lac"
    BY <1>1, <1>2, <2>1, EndIs DEF TunInv, LacTunInv, MayStep
  <2>2. CASE e = "lns"
    <3>1. LnsTunInv(w, u)
      BY <1>1, <2>2 DEF TunInv
    <3>2. z.tid \in {0, z.heard} /\ z.heard \in {0} \cup TunnelIds("lac") /\ z.heard # 0 /\ z.tid # 0
      BY <1>2, <2>2, <3>1 DEF LnsTunInv, MayStep
    <3>3. z.state # "off" /\ z.state \in Answered
      BY <1>2, <2>2 DEF Answered, MayStep
    <3>4. z.state = "SCCRP" /\ conf.lnsChallenges /\ HasSecret("lns") => z.them
      BY <1>2, <2>2 DEF MayStep
    <3>5. z.state = "SCCCN" => (conf.lnsChallenges /\ HasSecret("lns") => conf.secrets = "same") /\ Past(w, z.heard)
      BY <1>2, <2>2 DEF MayStep
    <3>6. LnsTunInv(w, z)
      BY <3>2, <3>3, <3>4, <3>5 DEF LnsTunInv
    <3> QED
      BY <1>1, <1>2, <2>2, <3>6, EndIs DEF TunInv
  <2> QED
    BY <2>1, <2>2, EndIs
<1>5. e = "lns" => Alone(w, t, z)
  BY <1>2 DEF Alone, MayStep
<1>6. Up(w, e, t) => z.state = "SCCCN"
  <2>1. CASE e = "lac"
    BY <1>2, <2>1 DEF MayStep
  <2>2. CASE e = "lns"
    BY <1>2, <2>2 DEF Up, Answered, MayStep
  <2> QED
    BY <2>1, <2>2, EndIs
<1>7. Good(y)
  <2>1. u.state # "gone" /\ z.state \notin {"off", "gone"}
    BY <1>2 DEF MayStep, TunnelState
  <2>2. Keeps(z, u)
    BY <1>2, <1>6, <2>1 DEF Keeps, Live, Up, Stands
  <2> QED
    BY <1>2, <1>3, <1>4, <1>5, <2>2, TunGood
<1>8. /\ y.call = w.call /\ y.used = w.used /\ y.local = w.local /\ y.tun[e][t] = z /\ y.box = w.box
      /\ \A f \in End : \A x \in TunnelIds(f) : f # e \/ x # t => y.tun[f][x] = w.tun[f][x]
  BY <1>1, <1>2, <1>3, TunFields
<1> QED
  BY <1>2, <1>7, <1>8, TunWithin

\* What is set in two steps.
LEMMA TunSteps ==
  ASSUME NEW w, Good(w), NEW e \in End, NEW t \in TunnelIds(e), NEW s \in TunnelState, NEW h \in BOOLEAN
  PROVE  /\ WithStates(w, e, t, s, h) = Stepped(w, e, t, s, h)
         /\ WithState(w, e, t, s) = Stepped(w, e, t, s, w.tun[e][t].them)
         /\ w.tun[e][t].them \in BOOLEAN
<1> DEFINE u == w.tun[e][t]
           x == [u EXCEPT !.state = s]
           y == WithTun(w, e, t, x)
<1>1. IsWorld(w) /\ u \in Tunnel
  BY WorldFields DEF Good
<1>2. x \in Tunnel /\ u.them \in BOOLEAN /\ [x EXCEPT !.them = u.them] = x
  BY <1>1 DEF Tunnel
<1>3. [w EXCEPT !.tun[e][t].state = s] = y
  BY DEF WithTun
<1>4. [w EXCEPT !.tun[e][t].state = s, !.tun[e][t].them = h]
        = WithTun(y, e, t, [y.tun[e][t] EXCEPT !.them = h])
  BY DEF WithTun
<1> HIDE DEF x
<1>5. y.tun[e][t] = x
  <2>1. y = WithTun(w, e, t, x)
    OBVIOUS
  <2> HIDE DEF y
  <2> QED
    BY <1>1, <1>2, <2>1, TunFields
<1>6. WithTun(y, e, t, [x EXCEPT !.them = h]) = WithTun(w, e, t, [x EXCEPT !.them = h])
  BY <1>1, TunTwice
<1> QED
  BY <1>2, <1>3, <1>4, <1>5, <1>6 DEF x, WithState, WithStates, Stepped

\* SCCRQ: the first tunnel that answers it, when the LNS has a secret to challenge with.
LEMMA FinishSCCRQGood ==
  ASSUME CountAssumption, PoolAssumption, conf \in Conf, NEW w, Good(w), NEW n \in TunnelIds("lns"), NEW m, NEW kept,
         w.tun["lns"][n].state \in {"idle", "SCCRQ"}, NEW v, v = FinishSCCRQ(w, n, m, kept)
  PROVE  Good(v) /\ Within(v, w, "lns", n)
<1> DEFINE u == w.tun["lns"][n]
           h == conf.lnsChallenges
           reply == [Plain("SCCRP", n, 0, n) EXCEPT !.chal = h, !.resp = IF u.us THEN Response("lns") ELSE "none"]
           only == WithState(w, "lns", n, "SCCRP")
           begun == WithStates(w, "lns", n, "SCCRP", h)
           own == h /\ ~ HasSecret("lns")
<1>1. /\ "lns" \in End /\ Peer("lns") = "lac" /\ h \in BOOLEAN /\ "SCCRP" \in TunnelState
      /\ Live(u) /\ u.state \notin {"SCCCN", "gone"}
  BY EndIs DEF Conf, TunnelState, Live
<1>2. \/ v = Marked(w, "lns", n, 0) \/ v = Ended(w, "lns", n, 0)
      \/ u.tid # 0 /\ ~ AskedTwice(w, n) /\ own /\ v = only
      \/ u.tid # 0 /\ ~ AskedTwice(w, n) /\ ~ own /\ v = Send(begun, "lns", n, reply)
  <2>1. CASE u.tid = 0 \/ v = Marked(w, "lns", n, 0)
    BY <2>1 DEF FinishSCCRQ
  <2>2. CASE u.tid # 0 /\ v # Marked(w, "lns", n, 0)
    <3>1. v = IF AskedTwice(w, n) THEN Ended(w, "lns", n, 0) ELSE IF own THEN only ELSE Send(begun, "lns", n, reply)
      BY <2>2 DEF FinishSCCRQ, WithState, WithStates
    <3> HIDE DEF own, only, begun, reply
    <3> QED
      BY <2>2, <3>1
  <2> QED
    BY Zenon, <2>1, <2>2
<1>3. CASE v = Marked(w, "lns", n, 0) \/ v = Ended(w, "lns", n, 0)
  <2>2. CASE v = Marked(w, "lns", n, 0)
    BY <1>1, <2>2, SelfMarked
  <2>3. CASE v = Ended(w, "lns", n, 0)
    BY <1>1, <2>3, SelfEnded
  <2> QED
    BY <1>3, <2>2, <2>3
<1>4. ASSUME u.tid # 0, ~ AskedTwice(w, n)
      PROVE  \A x \in TunnelIds("lns") \ {n} :
                w.tun["lns"][x].state \in Answered => w.tun["lns"][x].tid # u.tid
  BY <1>4 DEF AskedTwice, Live, Answered
<1>5. CASE u.tid # 0 /\ ~ AskedTwice(w, n) /\ own /\ v = only
  <2> DEFINE b == u.them
  <2>1. v = Stepped(w, "lns", n, "SCCRP", b) /\ b \in BOOLEAN
    <3>1. only = Stepped(w, "lns", n, "SCCRP", b) /\ b \in BOOLEAN
      BY <1>1, TunSteps
    <3> QED
      BY <1>5, <3>1
  <2>2. MayStep(w, "lns", n, "SCCRP", b)
    BY <1>1, <1>4, <1>5, EndIs DEF MayStep, Answered
  <2> HIDE DEF b
  <2> QED
    BY <1>1, <2>1, <2>2, TunStep
<1>6. CASE u.tid # 0 /\ ~ AskedTwice(w, n) /\ ~ own /\ v = Send(begun, "lns", n, reply)
  <2>1. begun = Stepped(w, "lns", n, "SCCRP", h)
    BY <1>1, TunSteps
  <2>2. MayStep(w, "lns", n, "SCCRP", h)
    BY <1>1, <1>4, <1>6, EndIs DEF MayStep, Answered
  <2> HIDE DEF begun
  <2>5. Good(begun) /\ Within(begun, w, "lns", n)
    BY <1>1, <2>1, <2>2, TunStep
  <2>3. /\ reply \in Message /\ reply.kind = "SCCRP" /\ reply.from = n /\ reply.id = n
        /\ reply.resp = "right" => conf.secrets = "same"
    <3>1. n \in Nat
      BY DEF CountAssumption, TunnelIds, End
    <3> QED
      BY <1>1, <3>1 DEF Plain, Message, Response, Kind
  <2> HIDE DEF reply
  <2>4. MayGo(begun, "lns", n, reply)
    BY <1>6, <2>3 DEF MayGo, Secret
  <2>6. Good(v) /\ Within(v, begun, "lns", n)
    BY <1>1, <1>6, <2>5, <2>3, <2>4, SendGood
  <2> QED
    BY <1>1, <2>5, <2>6, WithinAgain
<1> QED
  BY <1>2, <1>3, <1>5, <1>6

\* A message may be sent before a call is changed.
LEMMA SendFirst ==
  ASSUME NEW w, IsWorld(w), NEW e \in End, NEW c \in CallIds(e), NEW k, NEW t, NEW m
  PROVE  Send(WithCall(w, e, c, k), e, t, m) = WithCall(Send(w, e, t, m), e, c, k)
<1> DEFINE f == [w.call EXCEPT ![e] = [w.call[e] EXCEPT ![c] = k]]
           h == [w.tun EXCEPT ![e] = [w.tun[e] EXCEPT ![t] = [w.tun[e][t] EXCEPT !.stuck = TRUE]]]
           s == w.tun[e][t].tid
           b == [w.box EXCEPT ![Peer(e)] = [w.box[Peer(e)] EXCEPT ![s] = Append(w.box[Peer(e)][s], m)]]
           lost == w.tun[e][t].stuck \/ s = 0 \/ ~ Live(w.tun[Peer(e)][s])
           y == WithCall(w, e, c, k)
<1>1. w = [tun |-> w.tun, call |-> w.call, box |-> w.box, used |-> w.used, local |-> w.local]
  BY DEF IsWorld
<1>2. y = [w EXCEPT !.call = f]
  BY DEF WithCall
<1>3. Send(w, e, t, m) = IF lost THEN [w EXCEPT !.tun = h] ELSE [w EXCEPT !.box = b]
  BY DEF Send
<1>4. y.tun = w.tun /\ y.box = w.box /\ y.call = f /\ y.used = w.used /\ y.local = w.local
      /\ y = [tun |-> w.tun, call |-> f, box |-> w.box, used |-> w.used, local |-> w.local]
  <2> HIDE DEF f, y
  <2>1. y = [tun |-> w.tun, call |-> f, box |-> w.box, used |-> w.used, local |-> w.local]
    BY <1>1, <1>2
  <2> QED
    BY <2>1
<1> HIDE DEF y
<1>5. Send(y, e, t, m) = IF lost THEN [y EXCEPT !.tun = h] ELSE [y EXCEPT !.box = b]
  BY <1>4 DEF Send
<1>6. \A x : x.call = w.call => WithCall(x, e, c, k) = [x EXCEPT !.call = f]
  BY DEF WithCall
<1> HIDE DEF f, h, b, lost
<1>7. /\ [y EXCEPT !.tun = h] = [[w EXCEPT !.tun = h] EXCEPT !.call = f]
      /\ [y EXCEPT !.box = b] = [[w EXCEPT !.box = b] EXCEPT !.call = f]
      /\ [w EXCEPT !.tun = h].call = w.call /\ [w EXCEPT !.box = b].call = w.call
  BY <1>1, <1>4
<1> QED
  BY <1>3, <1>5, <1>6, <1>7 DEF y

\* One call of v differs from those of w.
CallIs(v, w, e, c, k) ==
  /\ v.call[e][c] = k
  /\ \A f \in End : \A d \in CallIds(f) : f # e \/ d # c => v.call[f][d] = w.call[f][d]

\* A call that was placed.
Placed(v, w, t, c) ==
  \E kind \in {"ICRQ", "OCRQ"} :
    /\ CallIs(v, w, "lac", c, [NoCall EXCEPT !.state = kind, !.tun = t])
    /\ Sent(v, w, "lac", t, Plain(kind, t, 0, c))

\* lac_call: a call is made, and its request sent.
LEMMA PlaceCallGood ==
  ASSUME CountAssumption, PoolAssumption, NEW w, Good(w), NEW t \in TunnelIds("lac"), NEW c \in CallIds("lac"),
         Live(w.tun["lac"][t]), ~ Live(w.call["lac"][c]), NEW v, v = PlaceCall(w, t, c)
  PROVE  Good(v) /\ Within(v, w, "lac", t) /\ Placed(v, w, t, c)
<1> DEFINE kind == IF conf.outgoing THEN "OCRQ" ELSE "ICRQ"
           k == [NoCall EXCEPT !.state = kind, !.tun = t]
           m == Plain(kind, t, 0, c)
           y == Send(w, "lac", t, m)
<1>1. "lac" \in End /\ Peer("lac") = "lns" /\ t \in Nat /\ c \in Nat
  BY EndIs DEF CountAssumption, TunnelIds, CallIds, End
<1>2. kind \in {"OCRQ", "ICRQ"}
  OBVIOUS
<1>3. v = Send(WithCall(w, "lac", c, k), "lac", t, m) /\ m = Plain(kind, t, 0, c)
  BY DEF PlaceCall, WithCall
<1> HIDE DEF kind, m
<1>4. k \in Call /\ k.addr = 0 /\ k.tun = t /\ ~ k.pppd /\ k.state \notin {"off", "gone"}
  BY <1>1, <1>2 DEF NoCall, Call, CallState
<1>5. m \in Message /\ m.kind = kind /\ m.from = t /\ m.cid = 0 /\ m.resp = "none"
  <2> DEFINE none == 0
  <2>1. kind \in Kind /\ none \in Nat /\ m = Plain(kind, t, none, c)
    BY <1>2, <1>3 DEF Kind
  <2>2. none = 0
    OBVIOUS
  <2> HIDE DEF none
  <2>3. m \in Message /\ m.kind = kind /\ m.from = t /\ m.cid = none /\ m.resp = "none"
    BY <1>1, <2>1, PlainIs
  <2> QED
    BY <2>2, <2>3
<1>6. MayGo(w, "lac", t, m)
  BY <1>2, <1>5 DEF MayGo
<1>7. k = [NoCall EXCEPT !.state = kind, !.tun = t] /\ y = Send(w, "lac", t, m)
  OBVIOUS
<1> HIDE DEF y, k
<1>8. /\ Good(y) /\ y.call = w.call /\ SameTuns(y, w) /\ Sends(y.tun["lac"][t])
      /\ Within(y, w, "lac", t) /\ Sent(y, w, "lac", t, m)
  BY <1>1, <1>5, <1>6, <1>7, SendGood
<1>9. v = WithCall(y, "lac", c, k) /\ IsWorld(y)
  <2>1. IsWorld(w)
    BY DEF Good
  <2> QED
    BY <1>1, <1>3, <1>7, <1>8, <2>1, SendFirst DEF Good
<1>10. CallInv(y, "lac", k)
  <2>1. Live(y.tun["lac"][t])
    BY <1>1, <1>8 DEF SameTuns, SameTun, Live
  <2> QED
    BY <1>1, <1>4, <1>8, <2>1, EndIs DEF CallInv, Addr
<1>11. Good(v)
  BY <1>1, <1>4, <1>8, <1>9, <1>10, CallGood
<1>12. OnlyCall(v, y, "lac", c, k)
  BY <1>1, <1>4, <1>9, CallFields DEF OnlyCall
<1>13. Within(v, y, "lac", t)
  BY <1>1, <1>4, <1>8, <1>12, OnlyCallWithin DEF Of
<1>14. Placed(v, w, t, c)
  <2>1. CallIs(v, w, "lac", c, k)
    BY <1>8, <1>12 DEF CallIs, OnlyCall
  <2>2. v.tun = y.tun /\ v.box = y.box
    BY <1>12 DEF OnlyCall
  <2>3. Sent(v, w, "lac", t, m)
    BY Zenon, <1>8, <2>2 DEF Sent
  <2> QED
    BY <1>2, <1>3, <1>7, <2>1, <2>3 DEF Placed
<1> QED
  BY <1>1, <1>8, <1>11, <1>13, <1>14, WithinAgain

\* The LAC is up and has sent its SCCCN, and placed a call or not.
CameUp(v, w, t, dials, c) ==
  \E y, x : /\ Good(y) /\ Good(x) /\ Up(y, "lac", t) /\ y.call = w.call /\ y.box = w.box /\ x.call = w.call
            /\ Stands(y.tun["lac"][t], w.tun["lac"][t])
            /\ Within(y, w, "lac", t) /\ Within(x, y, "lac", t) /\ Within(v, x, "lac", t)
            /\ \E m : m.kind = "SCCCN" /\ m.from = t /\ Sent(x, y, "lac", t, m)
            /\ v = x \/ (dials /\ Placed(v, x, t, c))

\* SCCRP: the LAC is up when the LNS has shown what it was asked to.
LEMMA FinishSCCRPGood ==
  ASSUME CountAssumption, PoolAssumption, conf \in Conf, NEW w, Good(w), NEW t \in TunnelIds("lac"), NEW m, NEW kept,
         NEW dials \in BOOLEAN, NEW c, dials => c \in CallIds("lac") /\ ~ Live(w.call["lac"][c]),
         w.tun["lac"][t].state = "SCCRQ", m.resp = "right" => conf.secrets = "same", Secret,
         NEW v, v = FinishSCCRP(w, t, m, kept, dials, c)
  PROVE  /\ Good(v) /\ Within(v, w, "lac", t)
         /\ v.tun["lac"][t].needclose \/ CameUp(v, w, t, dials, c)
<1> DEFINE u == w.tun["lac"][t]
           reply == [Plain("SCCCN", t, 0, 0) EXCEPT !.resp = IF u.us THEN Response("lac") ELSE "none"]
           begun == WithState(w, "lac", t, "SCCCN")
           done == Send(begun, "lac", t, reply)
<1>1. "lac" \in End /\ Peer("lac") = "lns" /\ "SCCCN" \in TunnelState /\ u.state # "gone"
  BY EndIs DEF TunnelState
<1>2. \/ v = Marked(w, "lac", t, 0)
      \/ (u.them => m.resp = "right") /\ v = IF dials THEN PlaceCall(done, t, c) ELSE done
  BY DEF FinishSCCRP, WithState
<1>3. CASE v = Marked(w, "lac", t, 0)
  BY <1>1, <1>3, SelfMarked
<1>4. CASE (u.them => m.resp = "right") /\ v = IF dials THEN PlaceCall(done, t, c) ELSE done
  <2>1. conf.lacChallenges => conf.secrets = "same"
    <3>1. TunInv(w, "lac", t, u)
      BY <1>1 DEF Good
    <3>2. u.them = conf.lacChallenges
      BY <3>1 DEF TunInv, LacTunInv
    <3> QED
      BY <1>4, <3>2
  <2> DEFINE b == u.them
  <2>2. begun = Stepped(w, "lac", t, "SCCCN", b) /\ b \in BOOLEAN /\ MayStep(w, "lac", t, "SCCCN", b)
    <3>1. begun = Stepped(w, "lac", t, "SCCCN", b) /\ b \in BOOLEAN
      BY <1>1, TunSteps
    <3>2. MayStep(w, "lac", t, "SCCCN", b)
      BY <1>1, <2>1, EndIs DEF MayStep
    <3> QED
      BY <3>1, <3>2
  <2> HIDE DEF b, begun
  <2>3. /\ Good(begun) /\ begun.call = w.call /\ begun.box = w.box /\ begun.tun["lac"][t].state = "SCCCN"
        /\ Stands(begun.tun["lac"][t], u) /\ Within(begun, w, "lac", t)
    BY <1>1, <2>2, TunStep
  <2>4. /\ reply \in Message /\ reply.kind = "SCCCN" /\ reply.from = t
        /\ reply.resp = "right" => conf.secrets = "same"
    <3>1. t \in Nat
      BY DEF CountAssumption, TunnelIds, End
    <3> QED
      BY <3>1 DEF Plain, Message, Response, Kind
  <2> HIDE DEF reply
  <2>5. MayGo(begun, "lac", t, reply)
    BY <2>3, <2>4 DEF MayGo, Past
  <2>6. /\ Good(done) /\ done.call = w.call /\ SameTuns(done, begun) /\ Within(done, begun, "lac", t)
        /\ Sent(done, begun, "lac", t, reply)
    BY <1>1, <2>3, <2>4, <2>5, SendGood
  <2> HIDE DEF done
  <2>9. Within(done, w, "lac", t)
    BY <1>1, <2>3, <2>6, WithinAgain
  <2>7. CASE dials
    <3>1. Live(done.tun["lac"][t])
      BY <1>1, <2>3, <2>6 DEF SameTuns, SameTun, Live
    <3>2. Good(v) /\ Within(v, done, "lac", t) /\ Placed(v, done, t, c)
      BY <1>4, <2>6, <2>7, <3>1, PlaceCallGood
    <3>3. Within(v, w, "lac", t)
      BY <1>1, <2>9, <3>2, WithinAgain
    <3> QED
      BY <2>3, <2>4, <2>6, <2>7, <3>2, <3>3 DEF CameUp, Up
  <2>8. CASE ~ dials
    <3>1. v = done /\ Within(done, done, "lac", t)
      BY <1>4, <2>8 DEF Within, Kin, SameTun
    <3> QED
      BY <2>3, <2>4, <2>6, <2>9, <3>1 DEF CameUp, Up
  <2> QED
    BY <2>7, <2>8
<1> QED
  BY <1>2, <1>3, <1>4

\* Nothing changes of the calls, the messages and the ends of a tunnel.
SameTalk(v, w, e, t) == v.call = w.call /\ v.box = w.box /\ Stands(v.tun[e][t], w.tun[e][t])

\* SCCCN: the LNS is up when the LAC has shown what it was asked to.
LEMMA FinishSCCCNGood ==
  ASSUME PoolAssumption, NEW w, Good(w), NEW n \in TunnelIds("lns"), NEW m, NEW kept,
         w.tun["lns"][n].state = "SCCRP", m.resp = "right" => conf.secrets = "same",
         Past(w, w.tun["lns"][n].heard), NEW v, v = FinishSCCCN(w, n, m, kept)
  PROVE  /\ Good(v) /\ Within(v, w, "lns", n)
         /\ v.tun["lns"][n].needclose \/ SameTalk(v, w, "lns", n)
<1> DEFINE u == w.tun["lns"][n]
<1>1. "lns" \in End /\ "SCCCN" \in TunnelState /\ u.state # "gone" /\ Live(u)
  BY EndIs DEF TunnelState, Live
<1>2. \/ v = Marked(w, "lns", n, 0)
      \/ (u.them => m.resp = "right") /\ v = WithState(w, "lns", n, "SCCCN")
  BY DEF FinishSCCCN, Proven, WithState
<1>3. CASE v = Marked(w, "lns", n, 0)
  BY <1>1, <1>3, SelfMarked
<1>4. CASE (u.them => m.resp = "right") /\ v = WithState(w, "lns", n, "SCCCN")
  <2>1. TunInv(w, "lns", n, u) /\ Alone(w, n, u)
    BY <1>1 DEF Good
  <2>2. LnsTunInv(w, u)
    BY <2>1 DEF TunInv
  <2>3. conf.lnsChallenges /\ HasSecret("lns") => conf.secrets = "same"
    BY <1>4, <2>2 DEF LnsTunInv
  <2>4. u.tid # 0 /\ \A x \in TunnelIds("lns") \ {n} :
                         w.tun["lns"][x].state \in Answered => w.tun["lns"][x].tid # u.tid
    BY <2>1, <2>2 DEF LnsTunInv, Alone, Answered
  <2> DEFINE b == u.them
  <2>5. v = Stepped(w, "lns", n, "SCCCN", b) /\ b \in BOOLEAN
    <3>1. b \in BOOLEAN
      <4>1. u \in Tunnel
        BY <1>1, WorldFields DEF Good
      <4> QED
        BY <4>1 DEF Tunnel
    <3>2. WithState(w, "lns", n, "SCCCN") = Stepped(w, "lns", n, "SCCCN", b)
      BY <1>1, <3>1, TunSteps
    <3> QED
      BY <1>4, <3>1, <3>2
  <2>6. MayStep(w, "lns", n, "SCCCN", b)
    BY <1>1, <2>3, <2>4, EndIs DEF MayStep, Answered
  <2> HIDE DEF b
  <2> QED
    BY <1>1, <2>5, <2>6, TunStep DEF SameTalk
<1> QED
  BY <1>2, <1>3, <1>4

\* StopCCN: it may give the id of a tunnel that is not known yet.
LEMMA FinishStopCCNGood ==
  ASSUME PoolAssumption, NEW w, Good(w), NEW e \in End, NEW t \in TunnelIds(e), NEW m \in Message, NEW kept,
         Live(w.tun[e][t]), w.tun[e][t].heard = m.id, m.id \in TunnelIds(Peer(e)), e = "lac" => Knows(w, "lns", m.id, t),
         NEW v, v = FinishStopCCN(w, e, t, m, kept)
  PROVE  /\ Good(v) /\ Within(v, w, e, t)
         /\ v = w \/ v.tun[e][t].closing \/ "result code" \notin kept
<1> DEFINE u == w.tun[e][t]
           x == [u EXCEPT !.tid = m.id]
           y == WithTun(w, e, t, x)
<1>1. IsWorld(w) /\ u \in Tunnel /\ TunInv(w, e, t, u) /\ (e = "lns" => Alone(w, t, u)) /\ m.id \in Nat
  <2>1. IsWorld(w) /\ u \in Tunnel /\ TunInv(w, e, t, u) /\ (e = "lns" => Alone(w, t, u))
    BY WorldFields DEF Good
  <2> QED
    BY <2>1 DEF Message
<1>2. \/ v = w
      \/ u.tid \in {0, m.id} /\ v = y /\ "result code" \notin kept
      \/ u.tid \in {0, m.id} /\ v = Ended(y, e, t, 0)
  <2> DEFINE unnamed == "assigned tunnel" \notin kept
             uncoded == "result code" \notin kept
             other == u.tid \notin {0, m.id}
             z == [w EXCEPT !.tun[e][t].tid = m.id]
  <2>1. z = y
    BY DEF WithTun
  <2>2. v = IF unnamed \/ other THEN w ELSE IF uncoded THEN z ELSE Ended(z, e, t, 0)
    <3> HIDE DEF y
    <3> QED
      BY DEF FinishStopCCN
  <2>3. uncoded => "result code" \notin kept
    OBVIOUS
  <2> HIDE DEF y, z, unnamed, uncoded
  <2>4. CASE unnamed \/ other
    BY <2>2, <2>4
  <2>5. CASE ~ (unnamed \/ other)
    BY <2>1, <2>2, <2>3, <2>5
  <2> QED
    BY <2>4, <2>5
<1>5. y = WithTun(w, e, t, x)
  OBVIOUS
<1> HIDE DEF y
<1>3. CASE v = w
  BY <1>3 DEF Within, Kin, SameTun
<1>4. CASE \/ u.tid \in {0, m.id} /\ v = y /\ "result code" \notin kept
           \/ u.tid \in {0, m.id} /\ v = Ended(y, e, t, 0)
  <2>1. /\ x \in Tunnel /\ x.state = u.state /\ x.heard = u.heard /\ x.tid = m.id /\ x.them = u.them
        /\ x.stuck = u.stuck
    BY <1>1 DEF Tunnel
  <2> HIDE DEF x
  <2>2. TunInv(w, e, t, x)
    BY <1>1, <2>1, EndIs DEF TunInv, LacTunInv, LnsTunInv, Live, Answered
  <2>7. u.tid \in {0, m.id}
    BY <1>4
  <2>3. e = "lns" => Alone(w, t, x)
    <3>1. e = "lns" /\ u.state \in Answered => m.id = u.tid
      BY <1>1, <2>7 DEF TunInv, LnsTunInv
    <3> QED
      BY <1>1, <2>1, <3>1 DEF Alone
  <2>4. Good(y) /\ Within(y, w, e, t)
    <3>1. Keeps(x, u)
      BY <2>1, <2>7 DEF Keeps, Live
    <3>2. y = WithTun(w, e, t, x)
      BY <1>5
    <3>3. /\ y.call = w.call /\ y.box = w.box
          /\ \A f \in End : \A s \in TunnelIds(f) : f # e \/ s # t => y.tun[f][s] = w.tun[f][s]
      BY <1>1, <2>1, <3>2, TunFields
    <3> QED
      BY <2>1, <2>2, <2>3, <3>1, <3>2, <3>3, TunGood, TunWithin
  <2>5. v = Ended(y, e, t, 0) => Good(v) /\ Within(v, y, e, t) /\ v.tun[e][t].closing
    BY <2>4, SelfEnded
  <2>6. v = Ended(y, e, t, 0) => Within(v, w, e, t)
    BY <2>4, <2>5, WithinAgain
  <2> QED
    BY <1>4, <2>4, <2>5, <2>6
<1> QED
  BY <1>2, <1>3, <1>4

\* get_addr finds an address that is free, or none.
LEMMA GetAddrIs ==
  ASSUME NEW range \in SUBSET (Nat \ {0}), NEW taken, NEW a, a = GetAddr(range, taken)
  PROVE  a = 0 \/ (a \in range /\ a \notin taken)
<1>1. CASE range \subseteq taken
  BY <1>1 DEF GetAddr
<1>2. CASE ~ (range \subseteq taken)
  <2> DEFINE free == range \ taken
  <2>1. free \subseteq Nat /\ free # {}
    BY <1>2
  <2>2. Min(free) \in free
    <3> HIDE DEF free
    <3> QED
      BY <2>1, MinIs
  <2>3. a = Min(free)
    BY <1>2 DEF GetAddr
  <2> QED
    BY <2>2, <2>3
<1> QED
  BY <1>1, <1>2

Using(w, u) == [w EXCEPT !.used = u]

\* A call of the LNS gets an address that is free.
Gets(w, c, k, a) ==
  /\ Live(w.call["lns"][c]) /\ w.call["lns"][c].addr = 0
  /\ a \in Pool \ w.used /\ Live(k) /\ k.addr = a /\ CallInv(w, "lns", k)
GotIt(v, w, c, k, a) ==
  /\ v.used \cap Pool = (w.used \cap Pool) \cup {a} /\ v.call["lns"][c] = k
  /\ \A d \in CallIds("lns") \ {c} : v.call["lns"][d] = w.call["lns"][d]

\* The addresses in use are those of the calls before and this one.
LEMMA AddrPool ==
  ASSUME PoolAssumption, NEW w, PoolInv(w), NEW c \in CallIds("lns"), NEW k, NEW a, Gets(w, c, k, a),
         NEW v, GotIt(v, w, c, k, a)
  PROVE  PoolInv(v)
<1> DEFINE old(d) == w.call["lns"][d].addr
           new(d) == v.call["lns"][d].addr
           L == LiveCalls(w)
<1>1. 0 \notin Pool /\ a \in Pool \ w.used /\ a # 0
  BY DEF PoolAssumption, Gets
<1>2. LiveCalls(v) = L /\ c \in L
  <2>1. \A d \in CallIds("lns") : Live(v.call["lns"][d]) <=> Live(w.call["lns"][d])
    BY DEF Gets, GotIt
  <2>2. Live(w.call["lns"][c])
    BY DEF Gets
  <2> QED
    BY <2>1, <2>2 DEF LiveCalls
<1>3. old(c) = 0 /\ new(c) = a /\ \A d \in L \ {c} : new(d) = old(d)
  BY DEF Gets, GotIt, LiveCalls
<1>4. /\ w.used \cap Pool = {old(d) : d \in L} \ {0}
      /\ \A d1, d2 \in L : d1 # d2 /\ old(d1) # 0 => old(d1) # old(d2)
  BY DEF PoolInv
<1> SUFFICES /\ v.used \cap Pool = {new(d) : d \in L} \ {0}
             /\ \A d1, d2 \in L : d1 # d2 /\ new(d1) # 0 => new(d1) # new(d2)
  BY <1>2, Zenon DEF PoolInv
<1> HIDE DEF old, new, L
<1>5. {new(d) : d \in L} \ {0} = ({old(d) : d \in L} \ {0}) \cup {a}
  BY <1>1, <1>2, <1>3
<1>6. \A d \in L : old(d) # a
  BY <1>1, <1>4
<1>7. \A d1, d2 \in L : d1 # d2 /\ new(d1) # 0 => new(d1) # new(d2)
  BY <1>3, <1>4, <1>6
<1> QED
  BY <1>4, <1>5, <1>7 DEF GotIt

\* Such a world is good.
LEMMA AddrGood ==
  ASSUME PoolAssumption, NEW w, Good(w), NEW c \in CallIds("lns"), NEW k \in Call, NEW a, Gets(w, c, k, a),
         NEW y, y = WithCall(w, "lns", c, k), NEW v, v = Using(y, w.used \cup {a})
  PROVE  Good(v) /\ OnlyCall(v, w, "lns", c, k)
<1>1. /\ IsWorld(y) /\ y.tun = w.tun /\ y.box = w.box /\ y.used = w.used /\ y.local = w.local
      /\ y.call["lns"][c] = k
      /\ \A f \in End : \A d \in CallIds(f) : f # "lns" \/ d # c => y.call[f][d] = w.call[f][d]
  <2>1. IsWorld(w) /\ "lns" \in End
    BY EndIs DEF Good
  <2> QED
    BY <2>1, CallFields
<1> DEFINE u == w.used \cup {a}
<1>2. /\ y = [tun |-> y.tun, call |-> y.call, box |-> y.box, used |-> y.used, local |-> y.local]
      /\ u \in SUBSET (Pool \cup LocalPool) /\ u \cap Pool = (w.used \cap Pool) \cup {a}
  BY <1>1 DEF IsWorld, Gets
<1>3. v = Using(y, u)
  OBVIOUS
<1> HIDE DEF u
<1>4. v = [tun |-> y.tun, call |-> y.call, box |-> y.box, used |-> u, local |-> y.local]
  BY <1>2, <1>3 DEF Using
<1>5. v.tun = y.tun /\ v.call = y.call /\ v.box = y.box /\ v.used = u /\ v.local = y.local
  BY <1>4
<1>6. IsWorld(v)
  BY <1>1, <1>2, <1>4, <1>5 DEF IsWorld
<1>7. \A f \in End : \A d \in CallIds(f) : CallInv(w, f, v.call[f][d])
  BY <1>1, <1>5 DEF Good, Gets
<1>8. PoolInv(v)
  <2>1. GotIt(v, w, c, k, a)
    <3>1. v.used \cap Pool = (w.used \cap Pool) \cup {a} /\ v.call["lns"][c] = k
      BY <1>1, <1>2, <1>5
    <3>2. \A d \in CallIds("lns") : d # c => v.call["lns"][d] = w.call["lns"][d]
      BY <1>1, <1>5, EndIs
    <3> QED
      BY <3>1, <3>2 DEF GotIt
  <2>2. PoolInv(w)
    BY DEF Good
  <2> QED
    BY <2>1, <2>2, AddrPool
<1>9. Good(v)
  BY <1>1, <1>5, <1>6, <1>7, <1>8, OtherParts
<1> QED
  BY <1>1, <1>5, <1>9 DEF OnlyCall

\* What is set in two steps.
WithAddr(w, c, a) == [w EXCEPT !.call["lns"][c].state = "ICRP", !.call["lns"][c].addr = a, !.used = @ \cup {a}]
Answering(k, a) == [[k EXCEPT !.state = "ICRP"] EXCEPT !.addr = a]
WithPppd(w, c, started) == [w EXCEPT !.call["lac"][c].state = "ICCN", !.call["lac"][c].pppd = @ \/ started]
Connected(k, started) == [[k EXCEPT !.state = "ICCN"] EXCEPT !.pppd = @ \/ started]

\* The two are changes of one call.
LEMMA CallSteps ==
  ASSUME NEW w, IsWorld(w)
  PROVE  /\ \A c \in CallIds("lns") : \A a \in Nat :
              WithAddr(w, c, a) = Using(WithCall(w, "lns", c, Answering(w.call["lns"][c], a)), w.used \cup {a})
         /\ \A c \in CallIds("lac") : \A started \in BOOLEAN :
              WithPppd(w, c, started) = WithCall(w, "lac", c, Connected(w.call["lac"][c], started))
<1>1. ASSUME NEW c \in CallIds("lns"), NEW a \in Nat
      PROVE  WithAddr(w, c, a) = Using(WithCall(w, "lns", c, Answering(w.call["lns"][c], a)), w.used \cup {a})
  <2> DEFINE k == w.call["lns"][c]
             x == [k EXCEPT !.state = "ICRP"]
             y == WithCall(w, "lns", c, x)
             z == [x EXCEPT !.addr = a]
             d == WithCall(w, "lns", c, z)
  <2>1. k \in Call /\ "lns" \in End
    BY WorldFields, EndIs
  <2>2. x \in Call /\ z \in Call /\ z = Answering(k, a)
    BY <2>1 DEF Call, CallState, Answering
  <2>3. WithAddr(w, c, a) = [WithCall(y, "lns", c, [y.call["lns"][c] EXCEPT !.addr = a]) EXCEPT !.used = @ \cup {a}]
    BY DEF WithAddr, WithCall
  <2> HIDE DEF x, k
  <2>4. y.call["lns"][c] = x
    <3>1. y = WithCall(w, "lns", c, x)
      OBVIOUS
    <3> HIDE DEF y
    <3> QED
      BY <2>1, <2>2, <3>1, CallFields
  <2> HIDE DEF z
  <2>5. WithCall(y, "lns", c, z) = d
    BY <2>1, CallTwice
  <2>6. d.used = w.used
    <3>1. d = WithCall(w, "lns", c, z)
      OBVIOUS
    <3> HIDE DEF d
    <3> QED
      BY <2>1, <2>2, <3>1, CallFields
  <2> HIDE DEF d, y
  <2>7. WithAddr(w, c, a) = [d EXCEPT !.used = @ \cup {a}]
    BY <2>3, <2>4, <2>5 DEF z
  <2>8. WithAddr(w, c, a) = Using(d, w.used \cup {a})
    BY <2>6, <2>7 DEF Using
  <2> QED
    BY <2>2, <2>8 DEF d, k
<1>2. ASSUME NEW c \in CallIds("lac"), NEW started \in BOOLEAN
      PROVE  WithPppd(w, c, started) = WithCall(w, "lac", c, Connected(w.call["lac"][c], started))
  <2> DEFINE k == w.call["lac"][c]
             x == [k EXCEPT !.state = "ICCN"]
             y == WithCall(w, "lac", c, x)
             z == [x EXCEPT !.pppd = @ \/ started]
             d == WithCall(w, "lac", c, z)
  <2>1. k \in Call /\ "lac" \in End
    BY WorldFields, EndIs
  <2>2. x \in Call /\ z = Connected(k, started)
    BY <2>1 DEF Call, CallState, Connected
  <2>3. WithPppd(w, c, started) = WithCall(y, "lac", c, [y.call["lac"][c] EXCEPT !.pppd = @ \/ started])
    BY DEF WithPppd, WithCall
  <2> HIDE DEF x, k
  <2>4. y.call["lac"][c] = x
    <3>1. y = WithCall(w, "lac", c, x)
      OBVIOUS
    <3> HIDE DEF y
    <3> QED
      BY <2>1, <2>2, <3>1, CallFields
  <2>5. WithCall(y, "lac", c, z) = d
    <3> HIDE DEF z
    <3> QED
      BY <2>1, CallTwice
  <2> HIDE DEF y
  <2> QED
    BY <2>2, <2>3, <2>4, <2>5 DEF k
<1> QED
  BY <1>1, <1>2

\* A call of a tunnel that is up.
CallUp(w, e, t, c) == c \in CallIds(e) /\ Live(w.call[e][c]) /\ w.call[e][c].tun = t /\ Up(w, e, t)

\* A call that pppd may run for.
CallRuns(w, e, t, c) ==
  c \in CallIds(e) /\ Live(w.call[e][c]) /\ w.call[e][c].tun = t /\ (Up(w, e, t) \/ (e = "lac" /\ Ill))

\* The answers of an LNS to a request.
Replies(v, w, n, p) ==
  LET k == w.call["lns"][p]
  IN \/ v.tun = w.tun /\ \E z \in CallsOf(w, "lns", n) \ {p} : w.call["lns"][z].cid = k.cid
     \/ Closed(v, w, "lns", p)
     \/ /\ \E a : CallIs(v, w, "lns", p, Answering(k, a))
        /\ Sent(v, w, "lns", n, Plain("ICRP", n, k.cid, p))

\* ICRQ: the call is a copy, it has no address left, or it gets one.
LEMMA FinishICRQGood ==
  ASSUME CountAssumption, PoolAssumption, NEW w, Good(w), NEW n \in TunnelIds("lns"), NEW p, CallUp(w, "lns", n, p),
         w.call["lns"][p].addr = 0, NEW v, v = FinishICRQ(w, n, p)
  PROVE  Good(v) /\ Within(v, w, "lns", n) /\ Replies(v, w, n, p)
<1> DEFINE k == w.call["lns"][p]
           a == GetAddr(Pool, w.used)
           y == WithAddr(w, p, a)
           m == Plain("ICRP", n, k.cid, p)
           z == Answering(k, a)
<1>1. /\ "lns" \in End /\ Peer("lns") = "lac" /\ p \in CallIds("lns") /\ Live(k) /\ n \in Nat /\ p \in Nat /\ p # 0
      /\ IsWorld(w) /\ k \in Call /\ k.tun = n
  <2>1. "lns" \in End /\ p \in CallIds("lns") /\ IsWorld(w)
    BY EndIs DEF CallUp, Good
  <2>2. k \in Call
    BY <2>1, WorldFields
  <2> QED
    BY <2>1, <2>2, EndIs DEF CallUp, CountAssumption, TunnelIds, CallIds, End
<1>2. \/ /\ \E d \in CallsOf(w, "lns", n) \ {p} : w.call["lns"][d].cid = k.cid
         /\ v = Ended(w, "lns", n, p)
      \/ v = CloseCall(w, "lns", p)
      \/ a # 0 /\ v = Send(y, "lns", n, m)
  BY DEF FinishICRQ, WithAddr
<1>3. CASE /\ \E d \in CallsOf(w, "lns", n) \ {p} : w.call["lns"][d].cid = k.cid
           /\ v = Ended(w, "lns", n, p)
  <2>1. Flagged(v, w) /\ Within(v, w, "lns", n) /\ OnlyCall(v, w, "lns", p, EndOf(w.call["lns"][p]))
    BY <1>1, <1>3, EndedGood
  <2> QED
    BY <1>3, <2>1 DEF Flagged, OnlyCall, Replies
<1>4. CASE v = CloseCall(w, "lns", p)
  BY <1>1, <1>4, CloseCallGood DEF Replies
<1>5. CASE a # 0 /\ v = Send(y, "lns", n, m)
  <2>1. a \in Pool \ w.used /\ a \in Nat
    <3>1. Pool \in SUBSET (Nat \ {0})
      BY DEF PoolAssumption
    <3>2. a = GetAddr(Pool, w.used)
      OBVIOUS
    <3>3. a # 0
      BY <1>5
    <3> HIDE DEF a
    <3>4. a = 0 \/ (a \in Pool /\ a \notin w.used)
      BY <3>1, <3>2, GetAddrIs
    <3> QED
      BY <3>1, <3>3, <3>4
  <2> HIDE DEF a
  <2>2. /\ z \in Call /\ z.state = "ICRP" /\ z.tun = k.tun /\ z.pppd = k.pppd /\ z.addr = a /\ Live(z)
        /\ z = Answering(k, a)
    BY <1>1, <2>1 DEF Call, CallState, Answering, Live
  <2>3. y = Using(WithCall(w, "lns", p, z), w.used \cup {a})
    BY <1>1, <2>1, CallSteps
  <2> HIDE DEF y, z
  <2>4. Gets(w, p, z, a)
    <3>1. CallInv(w, "lns", k) /\ Up(w, "lns", k.tun)
      BY Zenon, <1>1 DEF Good, CallUp
    <3>2. CallInv(w, "lns", z)
      <4>1. z.addr \in Addr("lns")
        BY <2>1, <2>2 DEF Addr
      <4>2. z.tun \in TunnelIds("lns") /\ Up(w, "lns", z.tun) /\ Live(w.tun["lns"][z.tun])
        BY <1>1, <2>2, <3>1 DEF CallInv
      <4> QED
        BY <2>2, <4>1, <4>2 DEF CallInv
    <3> QED
      BY <1>1, <2>1, <2>2, <3>2 DEF Gets
  <2>5. Good(y) /\ OnlyCall(y, w, "lns", p, z)
    BY <1>1, <2>2, <2>3, <2>4, AddrGood
  <2>8. Within(y, w, "lns", n)
    BY <1>1, <2>2, <2>5, OnlyCallWithin DEF Of
  <2>6. m \in Message /\ m.kind = "ICRP" /\ m.from = n /\ m.resp = "none"
    <3>1. "ICRP" \in Kind /\ k.cid \in Nat /\ m = Plain("ICRP", n, k.cid, p)
      BY <1>1 DEF Kind, Call
    <3> HIDE DEF m, k
    <3> QED
      BY <1>1, <3>1, PlainIs
  <2>10. m = Plain("ICRP", n, k.cid, p)
    OBVIOUS
  <2> HIDE DEF m
  <2>7. MayGo(y, "lns", n, m)
    <3>1. Up(y, "lns", n)
      BY <2>5 DEF CallUp, OnlyCall, Up
    <3> QED
      BY <2>6, <3>1 DEF MayGo
  <2>9. Good(v) /\ v.call = y.call /\ Within(v, y, "lns", n) /\ Sent(v, y, "lns", n, m)
    <3>1. /\ Good(y) /\ "lns" \in End /\ n \in TunnelIds("lns") /\ m \in Message /\ MayGo(y, "lns", n, m)
          /\ v = Send(y, "lns", n, m)
      BY Zenon, <1>1, <1>5, <2>5, <2>6, <2>7, EndIs
    <3> QED
      BY ONLY <3>1, SendGood
  <2>11. Sent(v, w, "lns", n, m)
    <3>1. y.tun = w.tun /\ y.box = w.box /\ Sent(v, y, "lns", n, m)
      BY <2>5, <2>9 DEF OnlyCall
    <3> QED
      BY ONLY <3>1 DEF Sent
  <2>12. CallIs(v, w, "lns", p, Answering(k, a))
    BY <2>2, <2>5, <2>9 DEF CallIs, OnlyCall
  <2>13. Replies(v, w, n, p)
    BY <2>10, <2>11, <2>12 DEF Replies
  <2> QED
    BY <1>1, <2>8, <2>9, <2>13, WithinAgain
<1> QED
  BY <1>2, <1>3, <1>4, <1>5

\* The LAC has answered, and the call is connected.
Connects(v, w, t, c) ==
  LET k == w.call["lac"][c]
  IN /\ \E started \in BOOLEAN : CallIs(v, w, "lac", c, Connected(k, started))
     /\ Sent(v, w, "lac", t, Plain("ICCN", t, k.cid, 0))

\* ICRP: the LAC answers and starts pppd.
LEMMA FinishICRPGood ==
  ASSUME CountAssumption, PoolAssumption, NEW w, Good(w), NEW t \in TunnelIds("lac"), NEW c, CallUp(w, "lac", t, c),
         NEW started \in BOOLEAN, NEW v, v = FinishICRP(w, t, c, started)
  PROVE  Good(v) /\ Within(v, w, "lac", t) /\ Connects(v, w, t, c)
<1> DEFINE k == w.call["lac"][c]
           m == Plain("ICCN", t, k.cid, 0)
           y == Send(w, "lac", t, m)
           z == Connected(k, started)
<1>1. /\ "lac" \in End /\ Peer("lac") = "lns" /\ c \in CallIds("lac") /\ Live(k) /\ t \in Nat
      /\ IsWorld(w) /\ k \in Call /\ CallInv(w, "lac", k) /\ Up(w, "lac", t) /\ k.tun = t
  <2>1. "lac" \in End /\ c \in CallIds("lac") /\ IsWorld(w)
    BY EndIs DEF CallUp, Good
  <2>2. k \in Call
    BY Zenon, <2>1, WorldFields
  <2> QED
    BY <2>1, <2>2, EndIs DEF CallUp, CountAssumption, TunnelIds, End, Good
<1>2. v = WithPppd(y, c, started)
  BY DEF FinishICRP, WithPppd
<1>3. m \in Message /\ m.kind = "ICCN" /\ m.from = t /\ m.resp = "none"
  <2>1. "ICCN" \in Kind /\ k.cid \in Nat /\ 0 \in Nat /\ m = Plain("ICCN", t, k.cid, 0)
    BY <1>1 DEF Kind, Call
  <2> HIDE DEF m, k
  <2> QED
    BY <1>1, <2>1, PlainIs
<1>9. m = Plain("ICCN", t, k.cid, 0) /\ z = Connected(k, started)
  OBVIOUS
<1> HIDE DEF m
<1>4. MayGo(w, "lac", t, m)
  BY <1>3 DEF MayGo
<1>5. /\ Good(y) /\ y.call = w.call /\ SameTuns(y, w) /\ Sends(y.tun["lac"][t])
      /\ Within(y, w, "lac", t) /\ Sent(y, w, "lac", t, m)
  BY <1>1, <1>3, <1>4, SendGood
<1> HIDE DEF y
<1>6. v = WithCall(y, "lac", c, z)
  BY <1>1, <1>2, <1>5, CallSteps DEF Good
<1>7. z \in Call /\ z.state = "ICCN" /\ z.tun = k.tun /\ z.addr = k.addr /\ Live(z)
  BY <1>1 DEF Call, CallState, Connected, Live
<1> HIDE DEF z
<1>8. CallInv(y, "lac", z)
  <2>1. Up(y, "lac", t)
    BY <1>1, <1>5 DEF SameTuns, SameTun, Up
  <2>2. Live(y.tun["lac"][t])
    BY <2>1 DEF Up, Live
  <2> QED
    BY <1>1, <1>5, <1>7, <2>1, <2>2, EndIs DEF CallInv
<1>10. Good(v) /\ OnlyCall(v, y, "lac", c, z)
  <2>1. "lac" \in End /\ c \in CallIds("lac") /\ IsWorld(y) /\ z \in Call /\ v = WithCall(y, "lac", c, z)
    BY <1>1, <1>5, <1>6, <1>7 DEF Good
  <2>2. OnlyCall(v, y, "lac", c, z)
    BY <2>1, CallFields DEF OnlyCall
  <2> QED
    BY <1>1, <1>5, <1>6, <1>7, <1>8, <2>2, CallGood
<1>11. Within(v, y, "lac", t)
  BY <1>1, <1>5, <1>7, <1>10, OnlyCallWithin DEF Of
<1>12. CallIs(v, w, "lac", c, Connected(k, started))
  BY Zenon, <1>5, <1>9, <1>10 DEF CallIs, OnlyCall
<1>13. Sent(v, w, "lac", t, m)
  BY Zenon, <1>5, <1>10 DEF Sent, OnlyCall
<1>14. Connects(v, w, t, c)
  BY <1>9, <1>12, <1>13 DEF Connects
<1> QED
  BY <1>1, <1>5, <1>10, <1>11, <1>14, WithinAgain

\* pppd is started, or fails to start.
Dialled(w, e, c, started) == [w EXCEPT !.call[e][c].pppd = @ \/ started]

\* Only pppd of the call has changed.
PppdIs(v, w, e, c) == \E h : OnlyCall(v, w, e, c, [w.call[e][c] EXCEPT !.pppd = h])

\* Such a world is good.
LEMMA DialledGood ==
  ASSUME PoolAssumption, NEW w, Good(w), NEW e \in End, NEW t \in TunnelIds(e), NEW c, CallRuns(w, e, t, c),
         NEW started \in BOOLEAN, NEW v, v = Dialled(w, e, c, started)
  PROVE  Good(v) /\ Within(v, w, e, t) /\ PppdIs(v, w, e, c)
<1> DEFINE k == w.call[e][c]
           x == [k EXCEPT !.pppd = @ \/ started]
<1>1. c \in CallIds(e) /\ Live(k) /\ k \in Call /\ CallInv(w, e, k) /\ (Up(w, e, t) \/ (e = "lac" /\ Ill)) /\ k.tun = t
  <2>1. c \in CallIds(e) /\ IsWorld(w)
    BY DEF CallRuns, Good
  <2>2. k \in Call
    BY <2>1, WorldFields
  <2> QED
    BY <2>1, <2>2 DEF CallRuns, Good
<1>2. v = WithCall(w, e, c, x)
  BY DEF Dialled, WithCall
<1>3. x \in Call /\ x.state = k.state /\ x.tun = k.tun /\ x.addr = k.addr /\ Live(x)
  BY <1>1 DEF Call, Live
<1>5. x = [k EXCEPT !.pppd = k.pppd \/ started]
  OBVIOUS
<1> HIDE DEF x
<1>4. CallInv(w, e, x)
  BY <1>1, <1>3 DEF CallInv
<1>6. Good(v)
  BY <1>1, <1>2, <1>3, <1>4, CallGood
<1>7. OnlyCall(v, w, e, c, x)
  BY <1>1, <1>2, <1>3, CallFields DEF Good, OnlyCall
<1>8. Within(v, w, e, t)
  BY <1>1, <1>3, <1>7, OnlyCallWithin DEF Of, Live
<1> QED
  BY <1>5, <1>6, <1>7, <1>8 DEF PppdIs

\* The call of the LNS is connected, and pppd is started or the call closed.
Starts(v, w, n, c) ==
  \E y : /\ Good(y) /\ OnlyCall(y, w, "lns", c, [w.call["lns"][c] EXCEPT !.state = "ICCN"])
         /\ Within(y, w, "lns", n) /\ Within(v, y, "lns", n)
         /\ Closed(v, y, "lns", c) \/ PppdIs(v, y, "lns", c)

\* ICCN: the LNS has a local address for its pppd, or the call ends.
LEMMA FinishICCNGood ==
  ASSUME CountAssumption, PoolAssumption, NEW w, Good(w), NEW n \in TunnelIds("lns"), NEW c, CallUp(w, "lns", n, c),
         NEW started \in BOOLEAN, NEW v, v = FinishICCN(w, n, c, started)
  PROVE  Good(v) /\ Within(v, w, "lns", n) /\ Starts(v, w, n, c)
<1> DEFINE k == w.call["lns"][c]
           x == [k EXCEPT !.state = "ICCN"]
           up == WithCall(w, "lns", c, x)
           a == GetAddr(LocalPool, w.used)
           y == CloseCall(up, "lns", c)
           z == WithUsed(up, up.used \cup {a}, a)
<1>1. /\ "lns" \in End /\ c \in CallIds("lns") /\ Live(k) /\ IsWorld(w) /\ k \in Call /\ CallInv(w, "lns", k)
      /\ Up(w, "lns", n) /\ k.tun = n
  <2>1. "lns" \in End /\ c \in CallIds("lns") /\ IsWorld(w)
    BY EndIs DEF CallUp, Good
  <2>2. k \in Call
    BY <2>1, WorldFields
  <2> QED
    BY <2>1, <2>2 DEF CallUp, Good
<1>2. x \in Call /\ x.state = "ICCN" /\ x.tun = k.tun /\ x.addr = k.addr /\ x.pppd = k.pppd /\ Live(x)
  BY <1>1 DEF Call, CallState, Live
<1>3. up = [w EXCEPT !.call["lns"][c].state = "ICCN"] /\ up = WithCall(w, "lns", c, x)
  BY DEF WithCall
<1>12. x = [k EXCEPT !.state = "ICCN"]
  OBVIOUS
<1> HIDE DEF x
<1>4. CallInv(w, "lns", x)
  BY <1>1, <1>2, EndIs DEF CallInv
<1>5. \/ v = Dialled(up, "lns", c, started)
      \/ v = [y EXCEPT !.local = 0]
      \/ a # 0 /\ v = Dialled(z, "lns", c, started)
  <2> HIDE DEF a
  <2>1. v = IF LocalPool = {} THEN Dialled(up, "lns", c, started)
            ELSE IF a = 0 THEN [y EXCEPT !.local = 0] ELSE Dialled(z, "lns", c, started)
    <3> HIDE DEF up
    <3> QED
      BY <1>3 DEF FinishICCN, Dialled, WithUsed, a
  <2> HIDE DEF up, y, z
  <2> QED
    BY <2>1
<1> HIDE DEF up
<1>6. Good(up)
  BY <1>1, <1>2, <1>3, <1>4, CallGood
<1>7. up.tun = w.tun /\ up.used = w.used /\ up.call["lns"][c] = x
  <2>1. "lns" \in End /\ c \in CallIds("lns") /\ IsWorld(w) /\ x \in Call /\ up = WithCall(w, "lns", c, x)
    BY <1>1, <1>2, <1>3
  <2> QED
    BY <2>1, CallFields
<1>8. CallUp(up, "lns", n, c)
  BY <1>1, <1>2, <1>7 DEF CallUp, Up
<1>13. OnlyCall(up, w, "lns", c, x) /\ Within(up, w, "lns", n)
  <2>2. "lns" \in End /\ c \in CallIds("lns") /\ IsWorld(w) /\ x \in Call /\ up = WithCall(w, "lns", c, x)
    BY <1>1, <1>2, <1>3
  <2>1. OnlyCall(up, w, "lns", c, x)
    BY <2>2, CallFields DEF OnlyCall
  <2> QED
    BY <1>1, <1>2, <2>1, OnlyCallWithin DEF Of
<1> SUFFICES Good(v) /\ Within(v, up, "lns", n) /\ (Closed(v, up, "lns", c) \/ PppdIs(v, up, "lns", c))
  BY <1>1, <1>6, <1>12, <1>13, WithinAgain DEF Starts
<1>9. CASE v = Dialled(up, "lns", c, started)
  BY <1>1, <1>6, <1>8, <1>9, DialledGood DEF CallUp, CallRuns
<1>10. CASE v = [y EXCEPT !.local = 0]
  <2>1. Good(y) /\ Within(y, up, "lns", n) /\ Closed(y, up, "lns", c)
    BY <1>1, <1>2, <1>6, <1>7, CloseCallGood
  <2> HIDE DEF y
  <2>2. /\ y = [tun |-> y.tun, call |-> y.call, box |-> y.box, used |-> y.used, local |-> y.local]
        /\ y.used \in SUBSET (Pool \cup LocalPool) /\ 0 \in LocalPool \cup {0}
    BY <2>1 DEF Good, IsWorld
  <2>3. v = WithUsed(y, y.used, 0)
    BY <1>10, <2>2 DEF WithUsed
  <2> DEFINE none == 0
             u == y.used
  <2>4. none \in LocalPool \cup {0} /\ u \in SUBSET (Pool \cup LocalPool) /\ u \cap Pool = y.used \cap Pool
        /\ v = WithUsed(y, u, none)
    BY <2>2, <2>3
  <2> HIDE DEF none, u
  <2>5. Good(v) /\ v.tun = y.tun /\ v.call = y.call /\ v.box = y.box
    <3>1. /\ Good(y) /\ u \in SUBSET (Pool \cup LocalPool) /\ none \in LocalPool \cup {0}
          /\ u \cap Pool = y.used \cap Pool /\ v = WithUsed(y, u, none)
      BY <2>1, <2>4
    <3> QED
      BY ONLY <3>1, LocalGood
  <2>6. Within(v, up, "lns", n)
    BY <2>1, <2>5 DEF Within
  <2>7. \A m : Sent(y, up, "lns", up.call["lns"][c].tun, m) => Sent(v, up, "lns", up.call["lns"][c].tun, m)
    BY Zenon, <2>5 DEF Sent
  <2>8. Closed(v, up, "lns", c)
    BY <2>1, <2>5, <2>7 DEF Closed
  <2> QED
    BY <2>5, <2>6, <2>8
<1>11. CASE a # 0 /\ v = Dialled(z, "lns", c, started)
  <2>1. a \in LocalPool
    <3>1. LocalPool \in SUBSET (Nat \ {0})
      BY DEF PoolAssumption
    <3>2. a = GetAddr(LocalPool, w.used)
      OBVIOUS
    <3>3. a # 0
      BY <1>11
    <3> HIDE DEF a
    <3>4. a = 0 \/ (a \in LocalPool /\ a \notin w.used)
      BY <3>1, <3>2, GetAddrIs
    <3> QED
      BY <3>3, <3>4
  <2> HIDE DEF a
  <2> DEFINE u == up.used \cup {a}
  <2>2. u \in SUBSET (Pool \cup LocalPool) /\ u \cap Pool = up.used \cap Pool /\ a \in LocalPool \cup {0}
    BY <1>6, <2>1 DEF Good, IsWorld, PoolAssumption
  <2>3. z = WithUsed(up, u, a)
    OBVIOUS
  <2> HIDE DEF z, u
  <2>4. Good(z) /\ z.tun = up.tun /\ z.call = up.call /\ z.box = up.box
    BY <1>6, <2>2, <2>3, LocalGood
  <2>5. CallUp(z, "lns", n, c)
    BY <1>8, <2>4 DEF CallUp, Up
  <2>6. Good(v) /\ Within(v, z, "lns", n) /\ PppdIs(v, z, "lns", c)
    BY <1>1, <1>11, <2>4, <2>5, DialledGood DEF CallUp, CallRuns
  <2>7. Within(v, up, "lns", n)
    BY <2>4, <2>6 DEF Within
  <2>8. PppdIs(v, up, "lns", c)
    <3>1. z.tun = up.tun /\ z.call = up.call /\ z.box = up.box /\ PppdIs(v, z, "lns", c)
      BY <2>4, <2>6
    <3>2. PICK hd : OnlyCall(v, z, "lns", c, [z.call["lns"][c] EXCEPT !.pppd = hd])
      BY ONLY <3>1 DEF PppdIs
    <3>3. OnlyCall(v, up, "lns", c, [up.call["lns"][c] EXCEPT !.pppd = hd])
      BY ONLY <3>1, <3>2 DEF OnlyCall
    <3> QED
      BY ONLY <3>3 DEF PppdIs
  <2> QED
    BY <2>6, <2>7, <2>8
<1> QED
  BY <1>5, <1>9, <1>10, <1>11

\* A CDN ends the call or the tunnel, if it names one that it may.
HungUp(v, w, e, t, c, m, kept) ==
  \/ /\ v = w
     /\ c # 0 => \/ {"assigned call", "result code"} \ kept # {}
                 \/ w.call[e][c].cid \notin {0, m.id}
     /\ c = 0 => \/ {"assigned call", "result code"} \ kept # {}
                 \/ \A d \in CallsOf(w, e, t) : w.call[e][d].cid # m.id
  \/ c = 0 /\ v.tun[e][t].closing
  \/ c # 0 /\ OnlyCall(v, w, e, c, EndOf(w.call[e][c])) /\ w.call[e][c].cid \in {0, m.id}

\* CDN.
LEMMA FinishCDNGood ==
  ASSUME PoolAssumption, NEW w, Good(w), NEW e \in End, NEW t \in TunnelIds(e), NEW c, NEW m, NEW kept,
         c # 0 => c \in CallIds(e) /\ Live(w.call[e][c]) /\ w.call[e][c].tun = t,
         NEW v, v = FinishCDN(w, e, t, c, m, kept)
  PROVE  Good(v) /\ Within(v, w, e, t) /\ HungUp(v, w, e, t, c, m, kept)
<1> DEFINE x == Ended(w, e, t, c)
           cs == IF c # 0 THEN {c} ELSE {d \in CallsOf(w, e, t) : w.call[e][d].cid = m.id}
           named == "assigned call" \in kept
           coded == "result code" \in kept
           other == \A d \in cs : w.call[e][d].cid \notin {0, m.id}
<1>1. v = IF ~ named \/ other \/ ~ coded THEN w ELSE x
  BY DEF FinishCDN
<1>2. /\ Flagged(x, w) /\ Within(x, w, e, t) /\ (c = 0 => x.tun[e][t].closing)
      /\ c # 0 => OnlyCall(x, w, e, c, EndOf(w.call[e][c]))
  <2>1. x = Ended(w, e, t, c)
    OBVIOUS
  <2> HIDE DEF x
  <2> QED
    BY <2>1, EndedGood
<1>3. /\ c # 0 => (other <=> w.call[e][c].cid \notin {0, m.id})
      /\ other /\ c = 0 => \A d \in CallsOf(w, e, t) : w.call[e][d].cid # m.id
      /\ ~ named \/ ~ coded => {"assigned call", "result code"} \ kept # {}
  OBVIOUS
<1> HIDE DEF x, other, named, coded
<1>4. CASE v = w /\ (~ named \/ other \/ ~ coded)
  <2>1. Within(v, w, e, t)
    BY <1>4 DEF Within, Kin, SameTun
  <2> QED
    BY <1>3, <1>4, <2>1 DEF HungUp
<1>5. CASE v = x /\ ~ other
  BY <1>2, <1>3, <1>5 DEF Flagged, HungUp
<1> QED
  BY <1>1, <1>4, <1>5

-----------------------------------------------------------------------------
(* A whole handler.                                                         *)

\* The message m is for call c of a tunnel that lives.
Takes(w, e, t, c, m) ==
  /\ Live(w.tun[e][t]) /\ m \in Message
  /\ c # 0 => c \in CallIds(e) /\ Live(w.call[e][c]) /\ w.call[e][c].tun = t
  /\ \/ m.kind = "SCCRQ" /\ e = "lns" /\ w.tun[e][t].heard = m.id /\ m.id \in TunnelIds("lac")
     \/ MsgInv(w, e, t, m) /\ w.tun[e][t].heard = m.from

\* The id of a call that it may make.
Makes(w, e, m, dials, new) == dials \/ m.kind = "ICRQ" => new \in CallIds(e) /\ ~ Live(w.call[e][new])

\* The message gives the id of the tunnel that it comes from.
IdHeard(w, e, t, m) ==
  w.tun[e][t].heard = m.id /\ m.id \in TunnelIds(Peer(e)) /\ (e = "lac" => Knows(w, "lns", m.id, t))

\* What each kind tells of the world, when it may come (Sane).
Told(w, e, t, c, m) ==
  /\ m.kind = "SCCRQ"   => e = "lns" /\ w.tun["lns"][t].state \in {"idle", "SCCRQ"}
  /\ m.kind = "SCCRP"   => e = "lac" /\ w.tun["lac"][t].state = "SCCRQ" /\ Secret
  /\ m.kind = "SCCCN"   => e = "lns" /\ w.tun["lns"][t].state = "SCCRP" /\ Past(w, w.tun["lns"][t].heard)
  /\ m.kind \in {"SCCRQ", "SCCRP", "StopCCN"} => IdHeard(w, e, t, m)
  /\ m.kind = "ICRQ"    => e = "lns" /\ Up(w, e, t) /\ c = 0
  /\ m.kind = "ICRP"    => e = "lac" /\ CallUp(w, "lac", t, c)
  /\ m.kind = "ICCN"    => e = "lns" /\ CallUp(w, "lns", t, c)
  /\ m.kind = "OCCN"    => e = "lac" /\ CallRuns(w, "lac", t, c)
  /\ m.kind = "OCRP"    => c # 0
  /\ m.kind # "SCCRQ" /\ m.resp = "right" => conf.secrets = "same"

\* Sane and the invariant say so.
LEMMA ToldWhenSane ==
  ASSUME NEW w, Good(w), NEW e \in End, NEW t \in TunnelIds(e), NEW c, NEW m, Takes(w, e, t, c, m),
         Sane(m.kind, w.tun[e][t].state, IF c = 0 THEN "idle" ELSE w.call[e][c].state, c # 0)
  PROVE  Told(w, e, t, c, m)
<1> DEFINE u == w.tun[e][t]
           ts == u.state
           cs == IF c = 0 THEN "idle" ELSE w.call[e][c].state
<1>1. /\ c = 0 => cs = "idle"
      /\ c # 0 => cs = w.call[e][c].state /\ c \in CallIds(e) /\ Live(w.call[e][c]) /\ w.call[e][c].tun = t
                  /\ CallInv(w, e, w.call[e][c])
  BY DEF Takes, Good
<1>2. Sane(m.kind, ts, cs, c # 0)
  OBVIOUS
<1> HIDE DEF cs
<1>3. m.kind # "SCCRQ" => MsgInv(w, e, t, m) /\ u.heard = m.from
  BY DEF Takes
<1>4. MsgInv(w, e, t, m) => m.kind # "SCCRQ"
  BY EndIs DEF MsgInv, LacMsgInv, LnsMsgInv
<1>5. CASE m.kind = "SCCRQ"
  <2>1. e = "lns" /\ ts \in {"idle", "SCCRQ"} /\ IdHeard(w, e, t, m)
    BY <1>2, <1>4, <1>5, EndIs DEF Takes, Sane, IdHeard
  <2> QED
    BY <1>5, <2>1 DEF Told
<1>6. CASE m.kind # "SCCRQ"
  <2>1. /\ MsgInv(w, e, t, m) /\ u.heard = m.from
        /\ e = "lac" => LacMsgInv(w, t, m)
        /\ e = "lns" => LnsMsgInv(w, m)
        /\ m.resp = "right" => conf.secrets = "same"
    BY <1>3, <1>6 DEF MsgInv
  <2>2. m.kind = "SCCRP" => e = "lac" /\ ts = "SCCRQ" /\ Secret
    BY <1>2, <2>1, EndIs DEF LacMsgInv, LnsMsgInv, Sane
  <2>3. m.kind = "SCCCN" => e = "lns" /\ ts = "SCCRP" /\ Past(w, u.heard)
    BY <1>2, <2>1, EndIs DEF LacMsgInv, LnsMsgInv, Sane
  <2>4. m.kind \in {"SCCRP", "StopCCN"} => IdHeard(w, e, t, m)
    BY <2>1, EndIs DEF MsgInv, IdHeard
  <2>5. m.kind = "ICRQ" => e = "lns" /\ Up(w, e, t) /\ c = 0
    BY <1>2, <2>1, EndIs DEF LacMsgInv, LnsMsgInv, Sane, Up
  <2>6. m.kind = "ICRP" => e = "lac" /\ CallUp(w, "lac", t, c)
    BY <1>1, <1>2, <2>1, EndIs DEF LacMsgInv, LnsMsgInv, Sane, CallUp, Up
  <2>7. m.kind = "ICCN" => e = "lns" /\ CallUp(w, "lns", t, c)
    BY <1>1, <1>2, <2>1, EndIs DEF LacMsgInv, LnsMsgInv, Sane, CallUp, CallInv
  <2>8. m.kind = "OCCN" => e = "lac" /\ CallRuns(w, "lac", t, c)
    BY <1>1, <1>2, <2>1, EndIs DEF LacMsgInv, LnsMsgInv, Sane, CallRuns, Ill
  <2>9. m.kind = "OCRP" => c # 0
    BY <1>1, <1>2 DEF Sane
  <2> QED
    BY <1>6, <2>1, <2>2, <2>3, <2>4, <2>5, <2>6, <2>7, <2>8, <2>9 DEF Told
<1> QED
  BY <1>5, <1>6

\* What a change of the attributes leaves as it was.
Alike(v, w) == LikeTuns(v, w) /\ SameCalls(v, w)

\* Such changes follow one another, and marks are such changes.
LEMMA AlikeAgain ==
  ASSUME NEW v, NEW w
  PROVE  /\ \A x : Alike(x, v) /\ Alike(v, w) => Alike(x, w)
         /\ Flagged(v, w) => Alike(v, w)
         /\ v.tun = w.tun => LikeTuns(v, w)
BY DEF Alike, LikeTuns, SameCalls, SameCall, Flagged, SameTuns, SameTun

\* Told is about what they leave.
LEMMA ToldStill ==
  ASSUME NEW w, Good(w), NEW v, Alike(v, w), NEW e \in End, NEW t \in TunnelIds(e), NEW c, NEW m,
         Within(v, w, e, t), Live(w.tun[e][t]), Told(w, e, t, c, m)
  PROVE  Told(v, e, t, c, m)
<1>1. \A f \in End : \A s \in TunnelIds(f) : /\ v.tun[f][s].state = w.tun[f][s].state
                                             /\ v.tun[f][s].heard = w.tun[f][s].heard
  BY DEF Alike, LikeTuns
<1>2. \A s \in TunnelIds("lac") : Past(w, s) => Past(v, s)
  BY <1>1, EndIs DEF Past
<1>3. (CallUp(w, e, t, c) => CallUp(v, e, t, c)) /\ (CallRuns(w, e, t, c) => CallRuns(v, e, t, c))
  BY <1>1 DEF Alike, SameCalls, SameCall, CallUp, CallRuns, Live, Up
<1>4. e = "lns" => w.tun[e][t].heard \in TunnelIds("lac")
  BY EndIs DEF Good, TunInv, LnsTunInv
<1>5. m.kind = "SCCRQ" => e = "lns" /\ v.tun["lns"][t].state \in {"idle", "SCCRQ"}
  BY <1>1 DEF Told
<1>6. m.kind = "SCCRP" => e = "lac" /\ v.tun["lac"][t].state = "SCCRQ" /\ Secret
  BY <1>1 DEF Told
<1>7. m.kind = "SCCCN" => e = "lns" /\ v.tun["lns"][t].state = "SCCRP" /\ Past(v, v.tun["lns"][t].heard)
  BY <1>1, <1>2, <1>4 DEF Told
<1>8. m.kind \in {"SCCRQ", "SCCRP", "StopCCN"} => IdHeard(v, e, t, m)
  <2>1. e = "lac" => \A s \in TunnelIds("lns") : Kin(v.tun["lns"][s], w.tun["lns"][s])
    BY EndIs DEF Within
  <2>2. e = "lac" => \A s \in TunnelIds("lns") : Knows(w, "lns", s, t) => Knows(v, "lns", s, t)
    BY <2>1 DEF Kin, SameTun, Knows
  <2> QED
    BY <1>1, <2>2, EndIs DEF Told, IdHeard
<1>9. m.kind = "ICRQ" => e = "lns" /\ Up(v, e, t) /\ c = 0
  BY <1>1 DEF Told, Up
<1>10. m.kind = "ICRP" => e = "lac" /\ CallUp(v, "lac", t, c)
  BY <1>3 DEF Told
<1>11. m.kind = "ICCN" => e = "lns" /\ CallUp(v, "lns", t, c)
  BY <1>3 DEF Told
<1>12. m.kind = "OCCN" => e = "lac" /\ CallRuns(v, "lac", t, c)
  BY <1>3 DEF Told
<1>13. /\ m.kind = "OCRP" => c # 0
       /\ m.kind # "SCCRQ" /\ m.resp = "right" => conf.secrets = "same"
  BY DEF Told
<1> QED
  BY <1>5, <1>6, <1>7, <1>8, <1>9, <1>10, <1>11, <1>12, <1>13 DEF Told

\* What a handler has taken when handle_avps returns.
NewCall(t) == [NoCall EXCEPT !.state = "idle", !.tun = t]
Made(w, e, t, m, kept, new) ==
  IF m.kind = "ICRQ" /\ "message type" \in kept THEN WithCall(w, e, new, NewCall(t)) ELSE w
Taken(w, e, t, c, m, kept, close, new) ==
  IF close THEN Marked(Stored(Made(w, e, t, m, kept, new), e, t, c, m, kept, new), e, t, c)
  ELSE Stored(Made(w, e, t, m, kept, new), e, t, c, m, kept, new)

\* It kept nothing, or the message may come.
Reads(w, e, t, c, m, kept) == kept = {} \/ (Told(w, e, t, c, m) /\ "message type" \in kept)

\* The new call of an ICRQ.
NewFor(w, m, t, kept, new) ==
  m.kind = "ICRQ" /\ "message type" \in kept => CallUp(w, "lns", t, new) /\ w.call["lns"][new].addr = 0
Fresh(w, e, m, new) == m.kind = "ICRQ" => new \in CallIds(e) /\ ~ Live(w.call[e][new])

\* A call that it is for.
CallIn(w, e, t, c) == c # 0 => c \in CallIds(e) /\ Live(w.call[e][c]) /\ w.call[e][c].tun = t

\* What it has made, and what it has marked.
MadeIs(v, w, e, t, m, kept, new) ==
  IF m.kind = "ICRQ" /\ "message type" \in kept THEN OnlyCall(v, w, e, new, NewCall(t)) ELSE v = w
MarkedIs(v, w, e, t, c) ==
  IF c = 0 THEN v.tun[e][t].needclose ELSE OnlyCall(v, w, e, c, MarkOf(w.call[e][c]))

\* What it has taken.
TakenIs(x, w, e, t, c, m, kept, close, new) ==
  \E y, v : /\ Good(y) /\ Within(y, w, e, t) /\ MadeIs(y, w, e, t, m, kept, new)
            /\ Good(v) /\ Within(v, y, e, t) /\ StoredIs(v, y, e, t, c, m, kept, new)
            /\ Within(x, v, e, t) /\ IF close THEN MarkedIs(x, v, e, t, c) ELSE x = v

\* It is made in a good world.
LEMMA MadeGood ==
  ASSUME CountAssumption, PoolAssumption, NEW w, Good(w), NEW e \in End, NEW t \in TunnelIds(e), NEW c, NEW m,
         Takes(w, e, t, c, m), NEW new, Fresh(w, e, m, new), NEW kept, Reads(w, e, t, c, m, kept),
         NEW v, v = Made(w, e, t, m, kept, new)
  PROVE  /\ Good(v) /\ v.tun = w.tun /\ NewFor(v, m, t, kept, new)
         /\ m.kind # "ICRQ" => v = w
         /\ CallIn(v, e, t, c) /\ Within(v, w, e, t) /\ MadeIs(v, w, e, t, m, kept, new)
<1> DEFINE k == NewCall(t)
<1>1. CallIn(w, e, t, c)
  BY DEF Takes, CallIn
<1>2. CASE ~ (m.kind = "ICRQ" /\ "message type" \in kept)
  <2>1. v = w
    BY <1>2 DEF Made
  <2>2. Within(v, w, e, t)
    BY <2>1 DEF Within, Kin, SameTun
  <2> QED
    BY <1>1, <1>2, <2>1, <2>2 DEF NewFor, MadeIs
<1>3. CASE m.kind = "ICRQ" /\ "message type" \in kept
  <2>1. e = "lns" /\ Up(w, e, t) /\ c = 0 /\ new \in CallIds(e) /\ ~ Live(w.call[e][new])
    BY <1>3 DEF Reads, Told, Fresh
  <2>2. v = WithCall(w, e, new, k)
    BY <1>3 DEF Made
  <2>3. t \in Nat
    BY <2>1, EndIs DEF CountAssumption, TunnelIds
  <2>4. k \in Call /\ k.state = "idle" /\ k.tun = t /\ k.addr = 0 /\ k.pppd = FALSE
    BY <2>3 DEF NewCall, NoCall, Call, CallState
  <2> HIDE DEF k
  <2>8. Live(w.tun[e][t])
    BY DEF Takes
  <2>5. CallInv(w, e, k) /\ Live(k)
    BY <2>1, <2>4, <2>8 DEF CallInv, Addr, Live
  <2>6. Good(v)
    BY <2>1, <2>2, <2>4, <2>5, CallGood
  <2>7. OnlyCall(v, w, e, new, k)
    BY <2>1, <2>2, <2>4, CallFields DEF Good, OnlyCall
  <2>9. Within(v, w, e, t)
    BY <2>1, <2>4, <2>7, OnlyCallWithin DEF Of
  <2>10. NewFor(v, m, t, kept, new) /\ v.tun = w.tun
    BY <1>3, <2>1, <2>4, <2>5, <2>7 DEF NewFor, CallUp, Up, OnlyCall
  <2>11. MadeIs(v, w, e, t, m, kept, new)
    BY <1>3, <2>7 DEF MadeIs, k
  <2> QED
    BY <1>3, <2>1, <2>6, <2>9, <2>10, <2>11 DEF CallIn
<1> QED
  BY <1>2, <1>3

\* The ids fit.
LEMMA FitsGood ==
  ASSUME NEW w, Good(w), NEW e \in End, NEW t \in TunnelIds(e), NEW c, NEW m, Takes(w, e, t, c, m),
         NEW kept, Reads(w, e, t, c, m, kept), NEW new, Fresh(w, e, m, new),
         NEW y, y = Made(w, e, t, m, kept, new), y.tun = w.tun, NewFor(y, m, t, kept, new),
         CallIn(y, e, t, c)
  PROVE  StoreFits(y, e, t, c, m, kept, new)
<1>1. CASE kept = {}
  BY <1>1 DEF StoreFits
<1>2. CASE Told(w, e, t, c, m) /\ "message type" \in kept
  <2>1. m.kind \in Opening => IdFits(y, e, t, m.id)
    <3>1. CASE m.kind = "SCCRQ"
      <4>1. e = "lns" /\ w.tun[e][t].state \in {"idle", "SCCRQ"}
        BY <1>2, <3>1 DEF Told
      <4>2. IdHeard(w, e, t, m)
        BY <1>2, <3>1 DEF Told
      <4> QED
        BY <4>1, <4>2 DEF IdFits, IdHeard, Answered
    <3>2. CASE m.kind = "SCCRP"
      <4>1. e = "lac" /\ w.tun[e][t].state = "SCCRQ"
        BY <1>2, <3>2 DEF Told
      <4>2. IdHeard(w, e, t, m)
        BY <1>2, <3>2 DEF Told
      <4> QED
        BY <4>1, <4>2 DEF IdFits, IdHeard, Knows
    <3> QED
      BY <3>1, <3>2 DEF Opening
  <2>2. m.kind = "ICRQ" => new \in CallIds(e) /\ Live(y.call[e][new]) /\ y.call[e][new].tun = t
    <3>1. m.kind = "ICRQ" => e = "lns"
      BY <1>2 DEF Told
    <3> QED
      BY <1>2, <3>1 DEF NewFor, CallUp
  <2>3. m.kind \in {"ICRP", "OCRP"} => c # 0
    <3>1. 0 \notin CallIds(e)
      BY DEF CallIds
    <3> QED
      BY <1>2, <3>1 DEF Told, CallUp
  <2> QED
    BY <2>1, <2>2, <2>3 DEF StoreFits, CallIn
<1> QED
  BY <1>1, <1>2 DEF Reads

\* What a handler has taken leaves the world good, and the message may still come.
LEMMA TakenGood ==
  ASSUME CountAssumption, PoolAssumption, NEW w, Good(w), NEW e \in End, NEW t \in TunnelIds(e), NEW c, NEW m,
         Takes(w, e, t, c, m), NEW new, Fresh(w, e, m, new), NEW kept, Reads(w, e, t, c, m, kept),
         NEW close, NEW x, x = Taken(w, e, t, c, m, kept, close, new)
  PROVE  /\ Good(x) /\ LikeTuns(x, w) /\ NewFor(x, m, t, kept, new)
         /\ m.kind # "ICRQ" => Alike(x, w)
         /\ Within(x, w, e, t) /\ CallIn(x, e, t, c) /\ TakenIs(x, w, e, t, c, m, kept, close, new)
<1> DEFINE y == Made(w, e, t, m, kept, new)
           v == Stored(y, e, t, c, m, kept, new)
           z == Marked(v, e, t, c)
<1>1. /\ Good(y) /\ y.tun = w.tun /\ NewFor(y, m, t, kept, new) /\ (m.kind # "ICRQ" => y = w)
      /\ CallIn(y, e, t, c) /\ Within(y, w, e, t) /\ MadeIs(y, w, e, t, m, kept, new)
  <2>1. y = Made(w, e, t, m, kept, new)
    OBVIOUS
  <2> HIDE DEF y
  <2> QED
    BY <2>1, MadeGood
<1>2. StoreFits(y, e, t, c, m, kept, new)
  <2>1. y = Made(w, e, t, m, kept, new)
    OBVIOUS
  <2> HIDE DEF y
  <2> QED
    BY <1>1, <2>1, FitsGood
<1>3. m \in Message
  BY DEF Takes
<1>4. x = IF close THEN z ELSE v
  BY DEF Taken
<1>5. y.tun = w.tun /\ y = Made(w, e, t, m, kept, new) /\ v = Stored(y, e, t, c, m, kept, new) /\ z = Marked(v, e, t, c)
  BY <1>1
<1> HIDE DEF y, v, z
<1>6. /\ Good(v) /\ LikeTuns(v, y) /\ SameCalls(v, y)
      /\ Within(v, y, e, t) /\ StoredIs(v, y, e, t, c, m, kept, new)
  BY <1>1, <1>2, <1>3, <1>5, StoredGood
<1>7. CallIn(v, e, t, c)
  BY <1>1, <1>6 DEF SameCalls, SameCall, Live, CallIn
<1>8. Flagged(z, v) /\ MarkedIs(z, v, e, t, c) /\ Within(z, v, e, t)
  <2>1. /\ c # 0 => c \in CallIds(e) /\ Live(v.call[e][c])
        /\ c # 0 => v.call[e][c].tun = t
    BY <1>7 DEF CallIn
  <2>2. /\ Flagged(z, v)
        /\ c = 0 => z.tun[e][t].needclose
        /\ c # 0 => OnlyCall(z, v, e, c, MarkOf(v.call[e][c]))
        /\ (c # 0 => v.call[e][c].tun = t) => Within(z, v, e, t)
    BY <1>5, <1>6, <2>1, MarkedGood
  <2> QED
    BY <2>1, <2>2 DEF MarkedIs
<1>15. Within(x, v, e, t)
  <2>1. Within(v, v, e, t)
    BY DEF Within, Kin, SameTun
  <2> QED
    BY <1>4, <1>8, <2>1
<1>16. TakenIs(x, w, e, t, c, m, kept, close, new)
  BY <1>1, <1>4, <1>6, <1>8, <1>15 DEF TakenIs
<1>17. Within(x, w, e, t)
  <2>1. Within(x, y, e, t)
    BY <1>6, <1>15, WithinAgain
  <2> QED
    BY <1>1, <2>1, WithinAgain
<1>18. CallIn(x, e, t, c)
  BY <1>4, <1>7, <1>8 DEF CallIn, Flagged, SameCalls, SameCall, Live
<1>9. Good(x) /\ Alike(x, y)
  <2>1. Alike(v, y)
    BY <1>6 DEF Alike
  <2>2. Alike(z, y) /\ Good(z)
    BY <1>8, <2>1, AlikeAgain DEF Flagged
  <2> QED
    BY <1>4, <1>6, <2>1, <2>2
<1>10. LikeTuns(x, w)
  BY <1>1, <1>9 DEF Alike, LikeTuns
<1>11. m.kind # "ICRQ" => Alike(x, w)
  BY <1>1, <1>9
<1>12. ASSUME CallUp(y, "lns", t, new), y.call["lns"][new].addr = 0, t \in TunnelIds("lns")
       PROVE  CallUp(x, "lns", t, new) /\ x.call["lns"][new].addr = 0
  <2>1. /\ x.tun["lns"][t].state = y.tun["lns"][t].state
        /\ SameCall(x.call["lns"][new], y.call["lns"][new])
    BY <1>9, <1>12, EndIs DEF Alike, LikeTuns, SameCalls, CallUp
  <2> QED
    BY <1>12, <2>1 DEF CallUp, SameCall, Live, Up
<1>13. m.kind = "ICRQ" /\ "message type" \in kept => e = "lns"
  BY DEF Reads, Told
<1>14. NewFor(x, m, t, kept, new)
  BY <1>1, <1>12, <1>13 DEF NewFor
<1> QED
  BY <1>9, <1>10, <1>11, <1>14, <1>16, <1>17, <1>18

\* control_finish, for the message of each kind.
Finished(w, e, t, c, m, kept, started, dials, new) ==
  CASE m.kind = "SCCRQ"   -> FinishSCCRQ(w, t, m, kept)
    [] m.kind = "SCCRP"   -> FinishSCCRP(w, t, m, kept, dials, new)
    [] m.kind = "SCCCN"   -> FinishSCCCN(w, t, m, kept)
    [] m.kind = "StopCCN" -> FinishStopCCN(w, e, t, m, kept)
    [] m.kind = "ICRQ"    -> FinishICRQ(w, t, new)
    [] m.kind = "ICRP"    -> FinishICRP(w, t, c, started)
    [] m.kind = "ICCN"    -> FinishICCN(w, t, c, started)
    [] m.kind = "OCCN"    -> FinishOCCN(w, t, c, started)
    [] m.kind = "CDN"     -> FinishCDN(w, e, t, c, m, kept)
    [] OTHER              -> w

\* What it does to the calls and the messages.
Does(v, w, e, t, c, m, kept, dials, new) ==
  /\ m.kind = "SCCRP"   => e = "lac" /\ (v.tun["lac"][t].needclose \/ CameUp(v, w, t, dials, new))
  /\ m.kind = "SCCCN"   => e = "lns" /\ (v.tun["lns"][t].needclose \/ SameTalk(v, w, "lns", t))
  /\ m.kind = "StopCCN" => v = w \/ v.tun[e][t].closing \/ "result code" \notin kept
  /\ m.kind = "ICRQ"    => e = "lns" /\ Replies(v, w, t, new)
  /\ m.kind = "ICRP"    => e = "lac" /\ Connects(v, w, t, c)
  /\ m.kind = "ICCN"    => e = "lns" /\ Starts(v, w, t, c)
  /\ m.kind = "OCCN"    => e = "lac" /\ PppdIs(v, w, "lac", c)
  /\ m.kind = "CDN"     => HungUp(v, w, e, t, c, m, kept)
  /\ m.kind \in {"OCRQ", "OCRP"} => v = w

\* The calls that it needs.
Ready(w, e, t, c, m, dials, new) ==
  /\ dials => new \in CallIds(e) /\ ~ Live(w.call[e][new])
  /\ CallIn(w, e, t, c)
  /\ m.kind = "ICRQ" => CallUp(w, "lns", t, new) /\ w.call["lns"][new].addr = 0

\* A message that may come keeps the world good.
LEMMA FinishedGood ==
  ASSUME CountAssumption, PoolAssumption, conf \in Conf, NEW w, Good(w), NEW e \in End, NEW t \in TunnelIds(e), NEW c,
         NEW m \in Message, Live(w.tun[e][t]), Told(w, e, t, c, m), NEW kept, NEW started \in BOOLEAN,
         NEW dials \in BOOLEAN, NEW new, Ready(w, e, t, c, m, dials, new),
         NEW v, v = Finished(w, e, t, c, m, kept, started, dials, new)
  PROVE  Good(v) /\ Within(v, w, e, t) /\ Does(v, w, e, t, c, m, kept, dials, new)
<1>1. CASE m.kind = "SCCRQ"
  <2>1. v = FinishSCCRQ(w, t, m, kept) /\ e = "lns" /\ w.tun["lns"][t].state \in {"idle", "SCCRQ"}
    BY <1>1 DEF Finished, Told
  <2> QED
    BY <1>1, <2>1, FinishSCCRQGood DEF Does
<1>2. CASE m.kind = "SCCRP"
  <2>1. /\ v = FinishSCCRP(w, t, m, kept, dials, new) /\ e = "lac" /\ w.tun["lac"][t].state = "SCCRQ"
        /\ (m.resp = "right" => conf.secrets = "same") /\ Secret
    BY <1>2 DEF Finished, Told
  <2>2. dials => new \in CallIds("lac") /\ ~ Live(w.call["lac"][new])
    BY <2>1 DEF Ready
  <2>3. Live(w.tun["lac"][t])
    BY <2>1 DEF Live
  <2> QED
    BY <1>2, <2>1, <2>2, <2>3, FinishSCCRPGood DEF Does
<1>3. CASE m.kind = "SCCCN"
  <2>1. /\ v = FinishSCCCN(w, t, m, kept) /\ e = "lns" /\ w.tun["lns"][t].state = "SCCRP"
        /\ (m.resp = "right" => conf.secrets = "same") /\ Past(w, w.tun["lns"][t].heard)
    BY <1>3 DEF Finished, Told
  <2> QED
    BY <1>3, <2>1, FinishSCCCNGood DEF Does
<1>4. CASE m.kind = "StopCCN"
  <2>1. v = FinishStopCCN(w, e, t, m, kept) /\ IdHeard(w, e, t, m)
    BY <1>4 DEF Finished, Told
  <2> QED
    BY <1>4, <2>1, FinishStopCCNGood DEF Does, IdHeard
<1>5. CASE m.kind = "ICRQ"
  <2>1. v = FinishICRQ(w, t, new) /\ e = "lns" /\ CallUp(w, "lns", t, new) /\ w.call["lns"][new].addr = 0
    BY <1>5 DEF Finished, Told, Ready
  <2> QED
    BY <1>5, <2>1, FinishICRQGood DEF Does
<1>6. CASE m.kind = "ICRP"
  <2>1. v = FinishICRP(w, t, c, started) /\ e = "lac" /\ CallUp(w, "lac", t, c)
    BY <1>6 DEF Finished, Told
  <2> QED
    BY <1>6, <2>1, FinishICRPGood DEF Does
<1>7. CASE m.kind = "ICCN"
  <2>1. v = FinishICCN(w, t, c, started) /\ e = "lns" /\ CallUp(w, "lns", t, c)
    BY <1>7 DEF Finished, Told
  <2> QED
    BY <1>7, <2>1, FinishICCNGood DEF Does
<1>8. CASE m.kind = "OCCN"
  <2>1. v = Dialled(w, "lac", c, started) /\ e = "lac" /\ CallRuns(w, "lac", t, c)
    BY <1>8 DEF Finished, FinishOCCN, Dialled, Told
  <2> QED
    BY <1>8, <2>1, DialledGood DEF Does
<1>9. CASE m.kind = "CDN"
  <2>1. v = FinishCDN(w, e, t, c, m, kept) /\ CallIn(w, e, t, c)
    BY <1>9 DEF Finished, Ready
  <2> QED
    BY <1>9, <2>1, FinishCDNGood DEF Does, CallIn
<1>10. CASE m.kind \notin {"SCCRQ", "SCCRP", "SCCCN", "StopCCN", "ICRQ", "ICRP", "ICCN", "OCCN", "CDN"}
  <2>1. v = w
    BY <1>10 DEF Finished
  <2>2. Within(v, w, e, t)
    BY <2>1 DEF Within, Kin, SameTun
  <2> QED
    BY <1>10, <2>1, <2>2 DEF Does
<1> QED
  BY <1>1, <1>2, <1>3, <1>4, <1>5, <1>6, <1>7, <1>8, <1>9, <1>10

\* What handle_avps makes of a message.
ReadOf(w, e, t, c, m, flaw) ==
  HandleAvps(AvpsOf(m, flaw), m.kind, w.tun[e][t].state, IF c = 0 THEN "idle" ELSE w.call[e][c].state, c # 0)

\* What a handler does.
Did(v, w, e, t, c, m, r, dials, new) ==
  \E x : /\ Good(x) /\ Within(x, w, e, t) /\ Within(v, x, e, t) /\ LikeTuns(x, w)
         /\ TakenIs(x, w, e, t, c, m, r.kept, r.close, new)
         /\ IF r.error THEN v = x ELSE Does(v, x, e, t, c, m, r.kept, dials, new)

\* handle_avps and control_finish.
LEMMA HandleGood ==
  ASSUME CountAssumption, PoolAssumption, conf \in Conf, NEW w, Good(w), NEW e \in End, NEW t \in TunnelIds(e), NEW c,
         NEW m, Takes(w, e, t, c, m), NEW flaw, NEW started \in BOOLEAN, NEW dials \in BOOLEAN, NEW new,
         Makes(w, e, m, dials, new), dials => m.kind = "SCCRP",
         NEW v, v = Handle(w, e, t, c, m, flaw, started, dials, new)
  PROVE  Good(v) /\ Within(v, w, e, t) /\ Did(v, w, e, t, c, m, ReadOf(w, e, t, c, m, flaw), dials, new)
<1> DEFINE ts == w.tun[e][t].state
           cs == IF c = 0 THEN "idle" ELSE w.call[e][c].state
           r == HandleAvps(AvpsOf(m, flaw), m.kind, ts, cs, c # 0)
           x == Taken(w, e, t, c, m, r.kept, r.close, new)
<1>1. v = IF r.error THEN x ELSE Finished(x, e, t, c, m, r.kept, started, dials, new)
  BY Zenon DEF Handle, Taken, Made, Finished, WithCall, NewCall
<1>2. x = Taken(w, e, t, c, m, r.kept, r.close, new)
  OBVIOUS
<1>3. \/ r.error /\ r.kept = {}
      \/ Sane(m.kind, ts, cs, c # 0) /\ "message type" \in r.kept
  <2>1. Typed(AvpsOf(m, flaw))
    BY AvpsIs
  <2> DEFINE avps == AvpsOf(m, flaw)
             onCall == c # 0
  <2>2. r = HandleAvps(avps, m.kind, ts, cs, onCall) /\ Typed(avps)
    BY <2>1
  <2> HIDE DEF avps, r, ts, cs, onCall
  <2>3. \/ r.error /\ r.kept = {}
        \/ Sane(m.kind, ts, cs, onCall) /\ "message type" \in r.kept
    BY <2>2, OnlyWhenSane
  <2> QED
    BY <2>3 DEF onCall
<1>4. Sane(m.kind, ts, cs, c # 0) => Told(w, e, t, c, m)
  BY ToldWhenSane
<1>9. r = ReadOf(w, e, t, c, m, flaw)
  BY DEF ReadOf
<1> HIDE DEF r, x
<1>5. Reads(w, e, t, c, m, r.kept) /\ Fresh(w, e, m, new)
  BY <1>3, <1>4 DEF Reads, Makes, Fresh
<1>6. /\ Good(x) /\ LikeTuns(x, w) /\ NewFor(x, m, t, r.kept, new)
      /\ m.kind # "ICRQ" => Alike(x, w)
      /\ Within(x, w, e, t) /\ CallIn(x, e, t, c) /\ TakenIs(x, w, e, t, c, m, r.kept, r.close, new)
  <2> DEFINE kept == r.kept
             close == r.close
  <2>1. x = Taken(w, e, t, c, m, kept, close, new) /\ Reads(w, e, t, c, m, kept)
    BY <1>2, <1>5
  <2> HIDE DEF kept, close
  <2>2. /\ Good(x) /\ LikeTuns(x, w) /\ NewFor(x, m, t, kept, new)
        /\ m.kind # "ICRQ" => Alike(x, w)
        /\ Within(x, w, e, t) /\ CallIn(x, e, t, c) /\ TakenIs(x, w, e, t, c, m, kept, close, new)
    BY <1>5, <2>1, TakenGood
  <2> QED
    BY <2>2 DEF kept, close
<1>7. CASE r.error
  <2>1. v = x
    BY <1>1, <1>7
  <2>2. Within(x, x, e, t)
    BY DEF Within, Kin, SameTun
  <2>3. Did(x, w, e, t, c, m, r, dials, new)
    BY <1>6, <1>7, <2>2 DEF Did
  <2> QED
    BY <1>6, <1>9, <2>1, <2>3
<1>8. CASE ~ r.error
  <2>1. "message type" \in r.kept /\ Told(w, e, t, c, m)
    BY <1>3, <1>4, <1>8
  <2>2. Live(w.tun[e][t]) /\ m \in Message
    BY DEF Takes
  <2>3. Live(x.tun[e][t])
    BY <1>6, <2>2 DEF LikeTuns, Live
  <2>4. Told(x, e, t, c, m)
    <3>1. CASE m.kind # "ICRQ"
      <4>1. Alike(x, w)
        BY <1>6, <3>1
      <4> QED
        BY <1>6, <2>1, <2>2, <4>1, ToldStill
    <3>2. CASE m.kind = "ICRQ"
      <4>1. e = "lns" /\ Up(w, e, t) /\ c = 0 /\ (m.resp = "right" => conf.secrets = "same")
        BY <2>1, <3>2 DEF Told
      <4>2. Up(x, e, t)
        BY <1>6, <4>1 DEF LikeTuns, Up
      <4> QED
        BY <3>2, <4>1, <4>2 DEF Told
    <3> QED
      BY <3>1, <3>2
  <2>5. Ready(x, e, t, c, m, dials, new)
    <3>1. m.kind = "ICRQ" => CallUp(x, "lns", t, new) /\ x.call["lns"][new].addr = 0
      BY <1>6, <2>1 DEF NewFor
    <3>3. m.kind # "ICRQ" => SameCalls(x, w)
      BY <1>6 DEF Alike
    <3>4. dials => new \in CallIds(e) /\ ~ Live(x.call[e][new])
      BY <3>3 DEF Makes, SameCalls, SameCall, Live
    <3> QED
      BY <1>6, <3>1, <3>4 DEF Ready
  <2> DEFINE kept == r.kept
  <2>6. v = Finished(x, e, t, c, m, kept, started, dials, new)
    BY <1>1, <1>8
  <2>7. kept = r.kept
    OBVIOUS
  <2> HIDE DEF kept
  <2>8. Good(v) /\ Within(v, x, e, t) /\ Does(v, x, e, t, c, m, kept, dials, new)
    BY <1>6, <2>2, <2>3, <2>4, <2>5, <2>6, FinishedGood
  <2>9. Within(v, w, e, t)
    BY <1>6, <2>8, WithinAgain
  <2>10. Did(v, w, e, t, c, m, r, dials, new)
    BY <1>6, <1>8, <2>7, <2>8 DEF Did
  <2> QED
    BY <1>9, <2>8, <2>9, <2>10
<1> QED
  BY Zenon, <1>7, <1>8

\* A message without a flaw is taken as a whole when it may come, and not at all otherwise.
SaneFor(w, e, t, c, m) ==
  Sane(m.kind, w.tun[e][t].state, IF c = 0 THEN "idle" ELSE w.call[e][c].state, c # 0)

\* What its handler reads.
LEMMA ReadsWell ==
  ASSUME NEW w, NEW e, NEW t, NEW c, NEW m, NEW r, r = ReadOf(w, e, t, c, m, "none")
  PROVE  ReadWell(r, m.kind, SaneFor(w, e, t, c, m))
<1> DEFINE kind == m.kind
           chal == m.chal
           resp == m.resp # "none"
           ts == w.tun[e][t].state
           cs == IF c = 0 THEN "idle" ELSE w.call[e][c].state
           on == c # 0
<1>1. r = HandleAvps(Carried(kind, chal, resp), kind, ts, cs, on)
  BY DEF ReadOf, AvpsOf, Spoilt
<1>2. SaneFor(w, e, t, c, m) = Sane(kind, ts, cs, on)
  BY DEF SaneFor
<1> HIDE DEF chal, resp, ts, cs, on
<1>3. ReadWell(r, kind, Sane(kind, ts, cs, on))
  <2> HIDE DEF kind
  <2> QED
    BY ONLY <1>1, CleanRead
<1> QED
  BY <1>2, <1>3

-----------------------------------------------------------------------------
(* The talk of two ends about their calls.                                  *)

\* A call of a tunnel, and one that is not closing.
Lives(x, t) == Live(x) /\ x.tun = t
Opens(x, t) == Lives(x, t) /\ ~ x.closing

\* What the LNS has said of call c of the LAC and its own call d, P being the messages
\* that are on their way from it.
Asking   == {"ICRQ", "OCRQ"}
Agreeing == {"ICRP", "OCRP"}
Agree(P, c, d)  == \E m \in P : m.kind \in Agreeing /\ m.cid = c /\ m.id = d
Refuse(P, c, d) == \E m \in P : m.kind = "CDN" /\ m.cid = c /\ m.id = d

\* What the LAC has said: the i-th message of q asks for call c, or tells that it ended.
Asks(q, i, c)     == i \in 1 .. Len(q) /\ q[i].kind \in Asking /\ q[i].id = c
Tells(q, i, c, d) == i \in 1 .. Len(q) /\ q[i].kind = "CDN" /\ q[i].id = c /\ q[i].cid = d

\* Call d of the LNS answers call c of the LAC, as one of the two or a message says.
Named(k, l, P, t, n, c, d) ==
  \/ Lives(k[c], t) /\ k[c].cid = d /\ d # 0
  \/ Agree(P, c, d)
  \/ Refuse(P, c, d)
  \/ d \in CallIds("lns") /\ Lives(l[d], n) /\ l[d].cid = c

\* The LAC knows the id of the answer, or will.
Meets(k, P, c, d) == k[c].cid = d \/ Agree(P, c, d)

\* A call has one answer.
OneAnswer(k, l, P, t, n) ==
  \A c \in CallIds("lac") :
    \A x, y : Named(k, l, P, t, n, c, x) /\ Named(k, l, P, t, n, c, y) => x = y

\* The calls that messages name were made; those that a CDN ends are not open.
WasMade(k, l, P, t, n) ==
  \A c \in CallIds("lac") : \A d : Named(k, l, P, t, n, c, d) => k[c].state # "off"
Refused(l, P, n) ==
  \A c, d : Refuse(P, c, d) => d \in CallIds("lns") /\ l[d].state # "off" /\ ~ Opens(l[d], n)
ToldOff(k, q, t) ==
  \A i, c, d : Tells(q, i, c, d) => c \in CallIds("lac") /\ k[c].state # "off" /\ ~ Opens(k[c], t)

\* A request is the only one for its call, has no answer yet, and is for a call that is
\* open or told to have ended after it.
Requested(k, l, P, q, t, n) ==
  \A i, c : Asks(q, i, c) =>
    /\ c \in CallIds("lac") /\ k[c].state # "off"
    /\ \A d : ~ Named(k, l, P, t, n, c, d)
    /\ \A j : Asks(q, j, c) => j = i
    /\ Opens(k[c], t) \/ \E j : j > i /\ Tells(q, j, c, 0)

\* An open call of the LAC is to close, or waits for what comes, or has its answer.
LacServed(k, l, P, q, t, n) ==
  \A c \in CallIds("lac") : Opens(k[c], t) =>
    \/ k[c].needclose
    \/ \E i : Asks(q, i, c)
    \/ \E d : Refuse(P, c, d)
    \/ \E d \in CallIds("lns") : Opens(l[d], n) /\ l[d].cid = c /\ Meets(k, P, c, d)

\* An open call of the LNS will hear that its call has ended, or answers an open call.
LnsServed(k, l, P, q, t, n) ==
  \A d \in CallIds("lns") : Opens(l[d], n) =>
    \/ \E i : Tells(q, i, l[d].cid, 0) \/ Tells(q, i, l[d].cid, d)
    \/ /\ l[d].cid \in CallIds("lac") /\ Opens(k[l[d].cid], t)
       /\ k[l[d].cid].needclose \/ Meets(k, P, l[d].cid, d)

\* A call that waits for its answer knows no id.
NoneYet(k, t) ==
  \A c \in CallIds("lac") :
    Opens(k[c], t) /\ ~ k[c].needclose /\ k[c].state = "ICRQ" => k[c].cid = 0

TalkOf(k, l, P, q, t, n) ==
  /\ OneAnswer(k, l, P, t, n) /\ WasMade(k, l, P, t, n) /\ Refused(l, P, n) /\ ToldOff(k, q, t)
  /\ Requested(k, l, P, q, t, n) /\ LacServed(k, l, P, q, t, n) /\ LnsServed(k, l, P, q, t, n)
  /\ NoneYet(k, t)

\* A call record goes on as it was for the other end.
Follows(x, y, t) ==
  /\ y.state # "off" => x.state # "off"
  /\ Lives(x, t) => Lives(y, t) /\ x.cid = y.cid
  /\ Opens(x, t) <=> Opens(y, t)
  /\ Opens(x, t) /\ y.needclose => x.needclose
  /\ Opens(x, t) /\ x.state = "ICRQ" => y.state = "ICRQ"

\* The talk goes on when the calls do.
LEMMA StayTalk ==
  ASSUME NEW k, NEW l, NEW P, NEW q, NEW t, NEW n, TalkOf(k, l, P, q, t, n), NEW k2, NEW l2,
         \A c \in CallIds("lac") : Follows(k2[c], k[c], t),
         \A d \in CallIds("lns") : Follows(l2[d], l[d], n)
  PROVE  TalkOf(k2, l2, P, q, t, n)
<1>1. \A c \in CallIds("lac") : \A d : Named(k2, l2, P, t, n, c, d) => Named(k, l, P, t, n, c, d)
  BY DEF Named, Follows
<1>2. OneAnswer(k2, l2, P, t, n)
  BY <1>1 DEF TalkOf, OneAnswer
<1>3. WasMade(k2, l2, P, t, n)
  BY <1>1 DEF TalkOf, WasMade, Follows
<1>4. Refused(l2, P, n)
  BY DEF TalkOf, Refused, Follows
<1>5. ToldOff(k2, q, t)
  BY DEF TalkOf, ToldOff, Follows
<1>6. Requested(k2, l2, P, q, t, n)
  BY <1>1 DEF TalkOf, Requested, Follows
<1>7. LacServed(k2, l2, P, q, t, n)
  BY DEF TalkOf, LacServed, Follows, Meets, Opens
<1>8. LnsServed(k2, l2, P, q, t, n)
  BY DEF TalkOf, LnsServed, Follows, Meets, Opens
<1>9. NoneYet(k2, t)
  BY DEF TalkOf, NoneYet, Follows, Opens
<1> QED
  BY <1>2, <1>3, <1>4, <1>5, <1>6, <1>7, <1>8, <1>9 DEF TalkOf

\* Messages of the LNS are taken that change nothing any more, and others come that say
\* nothing of a call's id or its end.
LEMMA ToLacTalk ==
  ASSUME NEW k, NEW l, NEW P, NEW q, NEW t, NEW n, TalkOf(k, l, P, q, t, n), NEW P2,
         \A c, d : (Agree(P2, c, d) => Agree(P, c, d)) /\ (Refuse(P2, c, d) => Refuse(P, c, d)),
         \A c \in CallIds("lac") : \A d : Opens(k[c], t) /\ ~ k[c].needclose =>
           (Agree(P, c, d) => k[c].cid = d \/ Agree(P2, c, d)) /\ (Refuse(P, c, d) => Refuse(P2, c, d))
  PROVE  TalkOf(k, l, P2, q, t, n)
<1>1. \A c, d : Named(k, l, P2, t, n, c, d) => Named(k, l, P, t, n, c, d)
  BY DEF Named
<1>2. OneAnswer(k, l, P2, t, n) /\ WasMade(k, l, P2, t, n) /\ Refused(l, P2, n)
  BY <1>1 DEF TalkOf, OneAnswer, WasMade, Refused
<1>3. Requested(k, l, P2, q, t, n)
  BY <1>1 DEF TalkOf, Requested
<1>4. LacServed(k, l, P2, q, t, n)
  BY DEF TalkOf, LacServed, Meets
<1>5. LnsServed(k, l, P2, q, t, n)
  BY DEF TalkOf, LnsServed, Meets
<1> QED
  BY <1>2, <1>3, <1>4, <1>5 DEF TalkOf

\* What is said when the first message is taken, or one more comes.
LEMMA TailSays ==
  ASSUME NEW q \in Seq(Message), q # <<>>
  PROVE  /\ \A i, c : Asks(Tail(q), i, c) <=> i \in 1 .. Len(q) /\ i + 1 \in 1 .. Len(q) /\ Asks(q, i + 1, c)
         /\ \A i, c, d : Tells(Tail(q), i, c, d) <=> i \in 1 .. Len(q) /\ i + 1 \in 1 .. Len(q) /\ Tells(q, i + 1, c, d)
<1>1. /\ Len(q) \in Nat /\ Len(q) # 0 /\ Len(Tail(q)) = Len(q) - 1
      /\ \A i \in 1 .. Len(Tail(q)) : Tail(q)[i] = q[i + 1]
  BY HeadTailProperties, EmptySeq
<1>2. \A i : i \in 1 .. Len(Tail(q)) <=> i \in 1 .. Len(q) /\ i + 1 \in 1 .. Len(q)
  BY <1>1
<1> QED
  BY <1>1, <1>2 DEF Asks, Tells

\* One more.
LEMMA AppendSays ==
  ASSUME NEW q \in Seq(Message), NEW m
  PROVE  /\ \A i, c : Asks(Append(q, m), i, c) <=> Asks(q, i, c) \/ (i = Len(q) + 1 /\ m.kind \in Asking /\ m.id = c)
         /\ \A i, c, d : Tells(Append(q, m), i, c, d) <=>
              Tells(q, i, c, d) \/ (i = Len(q) + 1 /\ m.kind = "CDN" /\ m.id = c /\ m.cid = d)
<1> DEFINE b == Append(q, m)
<1>1. /\ Len(q) \in Nat /\ Len(b) = Len(q) + 1 /\ b[Len(q) + 1] = m
      /\ \A i \in 1 .. Len(q) : b[i] = q[i]
  BY LenProperties, AppendProperties
<1> HIDE DEF b
<1>2. \A i : i \in 1 .. Len(b) <=> i \in 1 .. Len(q) \/ i = Len(q) + 1
  BY <1>1
<1>3. \A i \in 1 .. Len(q) : i # Len(q) + 1
  BY <1>1
<1>4. \A i, c : Asks(b, i, c) <=> Asks(q, i, c) \/ (i = Len(q) + 1 /\ m.kind \in Asking /\ m.id = c)
  BY <1>1, <1>2, <1>3 DEF Asks
<1>5. \A i, c, d : Tells(b, i, c, d) <=>
              Tells(q, i, c, d) \/ (i = Len(q) + 1 /\ m.kind = "CDN" /\ m.id = c /\ m.cid = d)
  BY <1>1, <1>2, <1>3 DEF Tells
<1> QED
  BY <1>4, <1>5 DEF b

\* The LNS takes a message that is no request, and a CDN only for a call that is not open.
LEMMA TailTalk ==
  ASSUME NEW k, NEW l, NEW P, NEW q \in Seq(Message), q # <<>>, NEW t, NEW n, TalkOf(k, l, P, q, t, n),
         \A c : ~ Asks(q, 1, c),
         \A d \in CallIds("lns") : Opens(l[d], n) => ~ Tells(q, 1, l[d].cid, 0) /\ ~ Tells(q, 1, l[d].cid, d)
  PROVE  TalkOf(k, l, P, Tail(q), t, n)
<1> DEFINE b == Tail(q)
<1>1. /\ \A i, c : Asks(b, i, c) <=> i \in 1 .. Len(q) /\ i + 1 \in 1 .. Len(q) /\ Asks(q, i + 1, c)
      /\ \A i, c, d : Tells(b, i, c, d) <=> i \in 1 .. Len(q) /\ i + 1 \in 1 .. Len(q) /\ Tells(q, i + 1, c, d)
      /\ Len(q) \in Nat
  BY TailSays, LenProperties
<1> HIDE DEF b
<1>2. \A i, c : Asks(q, i, c) => i = 1 \/ (i - 1 \in 1 .. Len(q) /\ Asks(b, i - 1, c))
  <2> SUFFICES ASSUME NEW i, NEW c, Asks(q, i, c), i # 1 PROVE i - 1 \in 1 .. Len(q) /\ Asks(b, i - 1, c)
    OBVIOUS
  <2>1. i \in 1 .. Len(q) /\ i - 1 \in 1 .. Len(q) /\ (i - 1) + 1 = i
    BY <1>1 DEF Asks
  <2> QED
    BY <1>1, <2>1
<1>3. \A i, c, d : Tells(q, i, c, d) => i = 1 \/ (i - 1 \in 1 .. Len(q) /\ Tells(b, i - 1, c, d))
  <2> SUFFICES ASSUME NEW i, NEW c, NEW d, Tells(q, i, c, d), i # 1
               PROVE  i - 1 \in 1 .. Len(q) /\ Tells(b, i - 1, c, d)
    OBVIOUS
  <2>1. i \in 1 .. Len(q) /\ i - 1 \in 1 .. Len(q) /\ (i - 1) + 1 = i
    BY <1>1 DEF Tells
  <2> QED
    BY <1>1, <2>1
<1>4. ToldOff(k, b, t)
  BY <1>1 DEF TalkOf, ToldOff
<1>5. Requested(k, l, P, b, t, n)
  <2> SUFFICES ASSUME NEW i, NEW c, Asks(b, i, c)
               PROVE  /\ c \in CallIds("lac") /\ k[c].state # "off"
                      /\ \A d : ~ Named(k, l, P, t, n, c, d)
                      /\ \A j : Asks(b, j, c) => j = i
                      /\ Opens(k[c], t) \/ \E j : j > i /\ Tells(b, j, c, 0)
    BY DEF Requested
  <2>1. i \in 1 .. Len(q) /\ i + 1 \in 1 .. Len(q) /\ Asks(q, i + 1, c)
    BY <1>1
  <2>2. /\ c \in CallIds("lac") /\ k[c].state # "off"
        /\ \A d : ~ Named(k, l, P, t, n, c, d)
        /\ \A j : Asks(q, j, c) => j = i + 1
        /\ Opens(k[c], t) \/ \E j : j > i + 1 /\ Tells(q, j, c, 0)
    BY <2>1 DEF TalkOf, Requested
  <2>3. ASSUME NEW j, Asks(b, j, c) PROVE j = i
    <3>1. j \in 1 .. Len(q) /\ Asks(q, j + 1, c)
      BY <1>1, <2>3
    <3>2. j + 1 = i + 1
      BY <2>2, <3>1
    <3> QED
      BY <1>1, <2>1, <3>1, <3>2
  <2>4. ASSUME NEW j, j > i + 1, Tells(q, j, c, 0) PROVE j - 1 > i /\ Tells(b, j - 1, c, 0)
    <3>1. j \in 1 .. Len(q)
      BY <2>4 DEF Tells
    <3> QED
      BY <1>1, <1>3, <2>1, <2>4, <3>1
  <2> QED
    BY <2>2, <2>3, <2>4
<1>6. LacServed(k, l, P, b, t, n)
  BY <1>2 DEF TalkOf, LacServed
<1>7. LnsServed(k, l, P, b, t, n)
  <2> SUFFICES ASSUME NEW d \in CallIds("lns"), Opens(l[d], n)
               PROVE  \/ \E i : Tells(b, i, l[d].cid, 0) \/ Tells(b, i, l[d].cid, d)
                      \/ /\ l[d].cid \in CallIds("lac") /\ Opens(k[l[d].cid], t)
                         /\ k[l[d].cid].needclose \/ Meets(k, P, l[d].cid, d)
    BY DEF LnsServed
  <2>1. CASE \E i : Tells(q, i, l[d].cid, 0) \/ Tells(q, i, l[d].cid, d)
    BY <1>3, <2>1
  <2> QED
    BY <2>1 DEF TalkOf, LnsServed
<1> QED
  BY <1>4, <1>5, <1>6, <1>7 DEF TalkOf, b

\* A message of the LAC comes that is no request and no CDN.
LEMMA AppendTalk ==
  ASSUME NEW k, NEW l, NEW P, NEW q \in Seq(Message), NEW t, NEW n, TalkOf(k, l, P, q, t, n),
         NEW m, m.kind \notin Asking \cup {"CDN"}
  PROVE  TalkOf(k, l, P, Append(q, m), t, n)
<1> DEFINE b == Append(q, m)
<1>1. /\ \A i, c : Asks(b, i, c) <=> Asks(q, i, c)
      /\ \A i, c, d : Tells(b, i, c, d) <=> Tells(q, i, c, d)
  BY AppendSays
<1> HIDE DEF b
<1>2. ToldOff(k, b, t) /\ Requested(k, l, P, b, t, n)
  BY <1>1 DEF TalkOf, ToldOff, Requested
<1>3. LacServed(k, l, P, b, t, n) /\ LnsServed(k, l, P, b, t, n)
  BY <1>1 DEF TalkOf, LacServed, LnsServed
<1> QED
  BY <1>2, <1>3 DEF TalkOf, b

\* The LAC closes a call that is open, and says so.
LEMMA LacHangsTalk ==
  ASSUME CountAssumption, NEW k, NEW l, NEW P, NEW q \in Seq(Message), NEW t, NEW n, TalkOf(k, l, P, q, t, n),
         NEW c \in CallIds("lac"), Opens(k[c], t),
         NEW m, m.kind = "CDN", m.id = c, k[c].cid = m.cid,
         NEW k2, \A x \in CallIds("lac") \ {c} : k2[x] = k[x],
         Lives(k2[c], t), k2[c].cid = k[c].cid, ~ Opens(k2[c], t), k2[c].state # "off"
  PROVE  TalkOf(k2, l, P, Append(q, m), t, n)
<1> DEFINE b == Append(q, m)
<1>1. /\ \A i, x : Asks(b, i, x) <=> Asks(q, i, x)
      /\ \A i, x, d : Tells(b, i, x, d) <=> Tells(q, i, x, d) \/ (i = Len(q) + 1 /\ x = c /\ d = k[c].cid)
      /\ Len(q) \in Nat
  <2> DEFINE y == k[c].cid
  <2>1. y = m.cid
    OBVIOUS
  <2> HIDE DEF y
  <2>2. m.kind \notin Asking
    BY DEF Asking
  <2> QED
    BY <2>1, <2>2, AppendSays, LenProperties DEF y
<1> HIDE DEF b
<1>2. \A x \in CallIds("lac") : \A d : Named(k2, l, P, t, n, x, d) <=> Named(k, l, P, t, n, x, d)
  BY DEF Named, Opens
<1>3. OneAnswer(k2, l, P, t, n) /\ WasMade(k2, l, P, t, n)
  <2>1. OneAnswer(k, l, P, t, n) /\ WasMade(k, l, P, t, n)
    BY DEF TalkOf
  <2>2. OneAnswer(k2, l, P, t, n)
    BY <1>2, <2>1 DEF OneAnswer
  <2>3. WasMade(k2, l, P, t, n)
    BY <1>2, <2>1 DEF WasMade
  <2> QED
    BY <2>2, <2>3
<1>4. ToldOff(k2, b, t)
  BY <1>1 DEF TalkOf, ToldOff
<1>5. Requested(k2, l, P, b, t, n)
  <2> SUFFICES ASSUME NEW i, NEW x, Asks(b, i, x)
               PROVE  /\ x \in CallIds("lac") /\ k2[x].state # "off"
                      /\ \A d : ~ Named(k2, l, P, t, n, x, d)
                      /\ \A j : Asks(b, j, x) => j = i
                      /\ Opens(k2[x], t) \/ \E j : j > i /\ Tells(b, j, x, 0)
    BY DEF Requested
  <2>1. /\ x \in CallIds("lac") /\ k[x].state # "off"
        /\ \A d : ~ Named(k, l, P, t, n, x, d)
        /\ \A j : Asks(b, j, x) => j = i
        /\ Opens(k[x], t) \/ \E j : j > i /\ Tells(b, j, x, 0)
    BY <1>1 DEF TalkOf, Requested
  <2>2. CASE x = c
    <3>1. k[c].cid = 0
      BY <2>1, <2>2 DEF Named, Opens
    <3>2. i \in 1 .. Len(q)
      <4>1. Asks(q, i, x)
        BY <1>1
      <4> QED
        BY <4>1 DEF Asks
    <3>4. Len(q) + 1 > i
      BY <1>1, <3>2
    <3> QED
      BY <1>1, <1>2, <2>1, <2>2, <3>1, <3>4
  <2>3. CASE x # c
    BY <1>2, <2>1, <2>3
  <2> QED
    BY <2>2, <2>3
<1>6. LacServed(k2, l, P, b, t, n)
  BY <1>1 DEF TalkOf, LacServed, Meets
<1>7. LnsServed(k2, l, P, b, t, n)
  <2> SUFFICES ASSUME NEW d \in CallIds("lns"), Opens(l[d], n)
               PROVE  \/ \E i : Tells(b, i, l[d].cid, 0) \/ Tells(b, i, l[d].cid, d)
                      \/ /\ l[d].cid \in CallIds("lac") /\ Opens(k2[l[d].cid], t)
                         /\ k2[l[d].cid].needclose \/ Meets(k2, P, l[d].cid, d)
    BY DEF LnsServed
  <2>1. \/ \E i : Tells(b, i, l[d].cid, 0) \/ Tells(b, i, l[d].cid, d)
        \/ /\ l[d].cid \in CallIds("lac") /\ Opens(k[l[d].cid], t)
           /\ k[l[d].cid].needclose \/ Meets(k, P, l[d].cid, d)
    BY <1>1 DEF TalkOf, LnsServed
  <2>2. CASE l[d].cid = c
    <3>1. Named(k, l, P, t, n, c, d)
      BY <2>2 DEF Named, Opens
    <3>2. k[c].cid # 0 => k[c].cid = d
      BY <3>1 DEF Named, Opens, TalkOf, OneAnswer
    <3> QED
      BY <1>1, <2>2, <3>2
  <2>3. CASE l[d].cid # c
    BY <2>1, <2>3 DEF Meets
  <2> QED
    BY <2>2, <2>3
<1>8. NoneYet(k2, t)
  BY DEF TalkOf, NoneYet
<1> QED
  BY <1>3, <1>4, <1>5, <1>6, <1>7, <1>8 DEF TalkOf, b

\* The LNS closes a call that is open, and says so.
LEMMA LnsHangsTalk ==
  ASSUME NEW k, NEW l, NEW P, NEW q, NEW t, NEW n, TalkOf(k, l, P, q, t, n),
         NEW d \in CallIds("lns"), Opens(l[d], n),
         NEW P2, \A c, x : Agree(P2, c, x) <=> Agree(P, c, x),
         \A c, x : Refuse(P2, c, x) <=> Refuse(P, c, x) \/ (c = l[d].cid /\ x = d),
         NEW l2, \A x \in CallIds("lns") \ {d} : l2[x] = l[x],
         Lives(l2[d], n), l2[d].cid = l[d].cid, ~ Opens(l2[d], n), l2[d].state # "off"
  PROVE  TalkOf(k, l2, P2, q, t, n)
<1>1. \A c \in CallIds("lac") : \A x : Named(k, l2, P2, t, n, c, x) <=> Named(k, l, P, t, n, c, x)
  BY DEF Named, Opens
<1>2. OneAnswer(k, l2, P2, t, n) /\ WasMade(k, l2, P2, t, n)
  BY <1>1 DEF TalkOf, OneAnswer, WasMade
<1>3. Refused(l2, P2, n)
  BY DEF TalkOf, Refused
<1>4. Requested(k, l2, P2, q, t, n)
  BY <1>1 DEF TalkOf, Requested
<1>5. LacServed(k, l2, P2, q, t, n)
  BY DEF TalkOf, LacServed, Meets
<1>6. LnsServed(k, l2, P2, q, t, n)
  BY DEF TalkOf, LnsServed, Meets
<1> QED
  BY <1>2, <1>3, <1>4, <1>5, <1>6 DEF TalkOf

\* The LAC ends a call that the LNS has ended.
LEMMA LacEndsTalk ==
  ASSUME NEW k, NEW l, NEW P, NEW q, NEW t, NEW n, TalkOf(k, l, P, q, t, n),
         NEW c \in CallIds("lac"), NEW y, Refuse(P, c, y),
         NEW k2, \A x \in CallIds("lac") \ {c} : k2[x] = k[x],
         Lives(k2[c], t) => Lives(k[c], t) /\ k2[c].cid = k[c].cid, ~ Opens(k2[c], t), k2[c].state # "off"
  PROVE  TalkOf(k2, l, P, q, t, n)
<1>1. \A x \in CallIds("lac") : \A d : Named(k2, l, P, t, n, x, d) => Named(k, l, P, t, n, x, d)
  BY DEF Named, Opens
<1>2. Named(k, l, P, t, n, c, y) /\ \A i : ~ Asks(q, i, c)
  BY DEF Named, TalkOf, Requested
<1>3. OneAnswer(k2, l, P, t, n) /\ WasMade(k2, l, P, t, n)
  BY <1>1 DEF TalkOf, OneAnswer, WasMade
<1>4. ToldOff(k2, q, t)
  BY DEF TalkOf, ToldOff
<1>5. Requested(k2, l, P, q, t, n)
  <2> SUFFICES ASSUME NEW i, NEW x, Asks(q, i, x)
               PROVE  /\ x \in CallIds("lac") /\ k2[x].state # "off"
                      /\ \A d : ~ Named(k2, l, P, t, n, x, d)
                      /\ \A j : Asks(q, j, x) => j = i
                      /\ Opens(k2[x], t) \/ \E j : j > i /\ Tells(q, j, x, 0)
    BY DEF Requested
  <2>1. x # c
    BY <1>2
  <2> QED
    BY <1>1, <2>1 DEF TalkOf, Requested
<1>6. LacServed(k2, l, P, q, t, n)
  BY DEF TalkOf, LacServed, Meets
<1>7. LnsServed(k2, l, P, q, t, n)
  <2> SUFFICES ASSUME NEW d \in CallIds("lns"), Opens(l[d], n)
               PROVE  \/ \E i : Tells(q, i, l[d].cid, 0) \/ Tells(q, i, l[d].cid, d)
                      \/ /\ l[d].cid \in CallIds("lac") /\ Opens(k2[l[d].cid], t)
                         /\ k2[l[d].cid].needclose \/ Meets(k2, P, l[d].cid, d)
    BY DEF LnsServed
  <2>1. l[d].cid # c
    <3>1. l[d].cid = c => d = y
      BY <1>2 DEF Named, Opens, TalkOf, OneAnswer
    <3>2. ~ Opens(l[y], n)
      BY DEF TalkOf, Refused
    <3> QED
      BY <3>1, <3>2
  <2> QED
    BY <2>1 DEF TalkOf, LnsServed, Meets
<1>8. NoneYet(k2, t)
  BY DEF TalkOf, NoneYet
<1> QED
  BY <1>3, <1>4, <1>5, <1>6, <1>7, <1>8 DEF TalkOf

\* The LNS ends a call that the LAC has ended.
LEMMA LnsEndsTalk ==
  ASSUME NEW k, NEW l, NEW P, NEW q, NEW t, NEW n, TalkOf(k, l, P, q, t, n), 0 \notin CallIds("lac"),
         NEW d \in CallIds("lns"), NEW i, NEW c, NEW y, Tells(q, i, c, y), l[d].cid \in {0, c},
         NEW l2, \A x \in CallIds("lns") \ {d} : l2[x] = l[x],
         Lives(l2[d], n) => Lives(l[d], n) /\ l2[d].cid = l[d].cid, ~ Opens(l2[d], n), l2[d].state # "off"
  PROVE  TalkOf(k, l2, P, q, t, n)
<1>1. \A x \in CallIds("lac") : \A z : Named(k, l2, P, t, n, x, z) => Named(k, l, P, t, n, x, z)
  BY DEF Named
<1>2. OneAnswer(k, l2, P, t, n) /\ WasMade(k, l2, P, t, n)
  BY <1>1 DEF TalkOf, OneAnswer, WasMade
<1>3. Refused(l2, P, n)
  BY DEF TalkOf, Refused
<1>4. Requested(k, l2, P, q, t, n)
  BY <1>1 DEF TalkOf, Requested
<1>5. LacServed(k, l2, P, q, t, n)
  <2>1. ~ Opens(k[c], t)
    BY DEF TalkOf, ToldOff
  <2>2. \A x \in CallIds("lac") : Opens(k[x], t) => l[d].cid # x
    BY <2>1
  <2> QED
    BY <2>2 DEF TalkOf, LacServed
<1>6. LnsServed(k, l2, P, q, t, n)
  BY DEF TalkOf, LnsServed
<1> QED
  BY <1>2, <1>3, <1>4, <1>5, <1>6 DEF TalkOf

\* The LAC makes a call and asks for it.
LEMMA PlaceTalk ==
  ASSUME NEW k, NEW l, NEW P, NEW q \in Seq(Message), NEW t, NEW n, TalkOf(k, l, P, q, t, n),
         NEW c \in CallIds("lac"), k[c].state = "off", ~ Lives(k[c], t),
         NEW m, m.kind \in Asking, m.id = c,
         NEW k2, \A x \in CallIds("lac") \ {c} : k2[x] = k[x],
         Opens(k2[c], t), k2[c].cid = 0, k2[c].state # "off"
  PROVE  TalkOf(k2, l, P, Append(q, m), t, n)
<1> DEFINE b == Append(q, m)
<1>1. /\ \A i, x : Asks(b, i, x) <=> Asks(q, i, x) \/ (i = Len(q) + 1 /\ x = c)
      /\ \A i, x, d : Tells(b, i, x, d) <=> Tells(q, i, x, d)
  <2>1. m.kind # "CDN"
    BY DEF Asking
  <2> QED
    BY <2>1, AppendSays
<1> HIDE DEF b
<1>2. \A x \in CallIds("lac") : \A d : Named(k2, l, P, t, n, x, d) <=> Named(k, l, P, t, n, x, d)
  BY DEF Named
<1>3. \A d : ~ Named(k2, l, P, t, n, c, d)
  BY <1>2 DEF TalkOf, WasMade
<1>4. OneAnswer(k2, l, P, t, n) /\ WasMade(k2, l, P, t, n)
  BY <1>2 DEF TalkOf, OneAnswer, WasMade
<1>5. ToldOff(k2, b, t)
  BY <1>1 DEF TalkOf, ToldOff
<1>6. \A i : ~ Asks(q, i, c)
  BY DEF TalkOf, Requested
<1>7. Requested(k2, l, P, b, t, n)
  <2> SUFFICES ASSUME NEW i, NEW x, Asks(b, i, x)
               PROVE  /\ x \in CallIds("lac") /\ k2[x].state # "off"
                      /\ \A d : ~ Named(k2, l, P, t, n, x, d)
                      /\ \A j : Asks(b, j, x) => j = i
                      /\ Opens(k2[x], t) \/ \E j : j > i /\ Tells(b, j, x, 0)
    BY DEF Requested
  <2>1. CASE x = c
    BY <1>1, <1>3, <1>6, <2>1
  <2>2. CASE x # c
    <3>1. Asks(q, i, x) /\ \A j : Asks(b, j, x) => Asks(q, j, x)
      BY <1>1, <2>2
    <3> QED
      BY <1>1, <1>2, <2>2, <3>1 DEF TalkOf, Requested
  <2> QED
    BY <2>1, <2>2
<1>8. LacServed(k2, l, P, b, t, n)
  BY <1>1 DEF TalkOf, LacServed, Meets
<1>9. LnsServed(k2, l, P, b, t, n)
  <2> SUFFICES ASSUME NEW d \in CallIds("lns"), Opens(l[d], n)
               PROVE  \/ \E i : Tells(b, i, l[d].cid, 0) \/ Tells(b, i, l[d].cid, d)
                      \/ /\ l[d].cid \in CallIds("lac") /\ Opens(k2[l[d].cid], t)
                         /\ k2[l[d].cid].needclose \/ Meets(k2, P, l[d].cid, d)
    BY DEF LnsServed
  <2>1. l[d].cid # c
    BY <1>3 DEF Named, Opens
  <2> QED
    BY <1>1, <2>1 DEF TalkOf, LnsServed, Meets
<1>10. NoneYet(k2, t)
  BY DEF TalkOf, NoneYet
<1> QED
  BY <1>4, <1>5, <1>7, <1>8, <1>9, <1>10 DEF TalkOf, b

\* The LNS takes a request and answers it, or refuses.
LEMMA ReplyTalk ==
  ASSUME NEW k, NEW l, NEW P, NEW q \in Seq(Message), q # <<>>, NEW t, NEW n, TalkOf(k, l, P, q, t, n),
         NEW c, Asks(q, 1, c), NEW p \in CallIds("lns"), l[p].state = "off",
         NEW P2, NEW l2, \A x \in CallIds("lns") \ {p} : l2[x] = l[x],
         Lives(l2[p], n), l2[p].cid = c, l2[p].state # "off",
         \A x, d : Agree(P2, x, d) <=> Agree(P, x, d) \/ (x = c /\ d = p /\ Opens(l2[p], n)),
         \A x, d : Refuse(P2, x, d) <=> Refuse(P, x, d) \/ (x = c /\ d = p /\ ~ Opens(l2[p], n))
  PROVE  TalkOf(k, l2, P2, Tail(q), t, n)
<1> DEFINE b == Tail(q)
<1>1. /\ \A i, x : Asks(b, i, x) <=> i \in 1 .. Len(q) /\ i + 1 \in 1 .. Len(q) /\ Asks(q, i + 1, x)
      /\ \A i, x, d : Tells(b, i, x, d) <=> i \in 1 .. Len(q) /\ i + 1 \in 1 .. Len(q) /\ Tells(q, i + 1, x, d)
      /\ Len(q) \in Nat
  BY TailSays, LenProperties
<1> HIDE DEF b
<1>2. \A i, x : Asks(q, i, x) => i = 1 \/ (i - 1 \in 1 .. Len(q) /\ Asks(b, i - 1, x))
  <2> SUFFICES ASSUME NEW i, NEW x, Asks(q, i, x), i # 1 PROVE i - 1 \in 1 .. Len(q) /\ Asks(b, i - 1, x)
    OBVIOUS
  <2>1. i \in 1 .. Len(q) /\ i - 1 \in 1 .. Len(q) /\ (i - 1) + 1 = i
    BY <1>1 DEF Asks
  <2> QED
    BY <1>1, <2>1
<1>3. \A i, x, d : Tells(q, i, x, d) => i \in 1 .. Len(q) /\ i - 1 \in 1 .. Len(q) /\ Tells(b, i - 1, x, d)
  <2> SUFFICES ASSUME NEW i, NEW x, NEW d, Tells(q, i, x, d)
               PROVE  i \in 1 .. Len(q) /\ i - 1 \in 1 .. Len(q) /\ Tells(b, i - 1, x, d)
    OBVIOUS
  <2>1. i # 1
    BY DEF Tells, Asks, Asking
  <2>2. i \in 1 .. Len(q) /\ i - 1 \in 1 .. Len(q) /\ (i - 1) + 1 = i
    BY <1>1, <2>1 DEF Tells
  <2> QED
    BY <1>1, <2>2
<1>4. /\ c \in CallIds("lac") /\ k[c].state # "off"
      /\ \A d : ~ Named(k, l, P, t, n, c, d)
      /\ \A j : Asks(q, j, c) => j = 1
      /\ Opens(k[c], t) \/ \E j : j > 1 /\ Tells(q, j, c, 0)
  BY DEF TalkOf, Requested
<1>5. \A i, x : Asks(b, i, x) => x # c
  <2> SUFFICES ASSUME NEW i, Asks(b, i, c) PROVE FALSE
    OBVIOUS
  <2>1. i \in 1 .. Len(q) /\ i + 1 = 1
    BY <1>1, <1>4
  <2> QED
    BY <2>1
<1>6. /\ \A x \in CallIds("lac") \ {c} : \A d : Named(k, l2, P2, t, n, x, d) => Named(k, l, P, t, n, x, d)
      /\ \A d : Named(k, l2, P2, t, n, c, d) => d = p
  <2>1. \A d : Named(k, l2, P2, t, n, c, d) => d = p \/ Named(k, l, P, t, n, c, d)
    BY DEF Named
  <2> QED
    BY <1>4, <2>1 DEF Named
<1>7. OneAnswer(k, l2, P2, t, n) /\ WasMade(k, l2, P2, t, n)
  BY <1>4, <1>6 DEF TalkOf, OneAnswer, WasMade
<1>8. Refused(l2, P2, n)
  <2> SUFFICES ASSUME NEW x, NEW d, Refuse(P2, x, d)
               PROVE  d \in CallIds("lns") /\ l2[d].state # "off" /\ ~ Opens(l2[d], n)
    BY DEF Refused
  <2>1. CASE d = p
    <3>1. ~ Refuse(P, x, d)
      BY <2>1 DEF TalkOf, Refused
    <3> QED
      BY <2>1, <3>1
  <2>2. CASE d # p
    BY <2>2 DEF TalkOf, Refused
  <2> QED
    BY <2>1, <2>2
<1>9. ToldOff(k, b, t)
  BY <1>1 DEF TalkOf, ToldOff
<1>10. Requested(k, l2, P2, b, t, n)
  <2> SUFFICES ASSUME NEW i, NEW x, Asks(b, i, x)
               PROVE  /\ x \in CallIds("lac") /\ k[x].state # "off"
                      /\ \A d : ~ Named(k, l2, P2, t, n, x, d)
                      /\ \A j : Asks(b, j, x) => j = i
                      /\ Opens(k[x], t) \/ \E j : j > i /\ Tells(b, j, x, 0)
    BY DEF Requested
  <2>1. i \in 1 .. Len(q) /\ i + 1 \in 1 .. Len(q) /\ Asks(q, i + 1, x) /\ x # c
    BY <1>1, <1>5
  <2>2. /\ x \in CallIds("lac") /\ k[x].state # "off"
        /\ \A d : ~ Named(k, l, P, t, n, x, d)
        /\ \A j : Asks(q, j, x) => j = i + 1
        /\ Opens(k[x], t) \/ \E j : j > i + 1 /\ Tells(q, j, x, 0)
    BY <2>1 DEF TalkOf, Requested
  <2>3. ASSUME NEW j, Asks(b, j, x) PROVE j = i
    <3>1. j \in 1 .. Len(q) /\ Asks(q, j + 1, x)
      BY <1>1, <2>3
    <3>2. j + 1 = i + 1
      BY <2>2, <3>1
    <3> QED
      BY <1>1, <2>1, <3>1, <3>2
  <2>4. ASSUME NEW j, j > i + 1, Tells(q, j, x, 0) PROVE j - 1 > i /\ Tells(b, j - 1, x, 0)
    <3>1. j \in 1 .. Len(q)
      BY <1>3, <2>4
    <3> QED
      BY <1>1, <1>3, <2>1, <2>4, <3>1
  <2> QED
    BY <1>6, <2>1, <2>2, <2>3, <2>4
<1>11. LacServed(k, l2, P2, b, t, n)
  <2> SUFFICES ASSUME NEW x \in CallIds("lac"), Opens(k[x], t), ~ k[x].needclose
               PROVE  \/ \E i : Asks(b, i, x)
                      \/ \E d : Refuse(P2, x, d)
                      \/ \E d \in CallIds("lns") : Opens(l2[d], n) /\ l2[d].cid = x /\ Meets(k, P2, x, d)
    BY DEF LacServed
  <2>1. CASE x = c
    BY <2>1 DEF Meets
  <2>2. CASE x # c
    <3>1. \/ \E i : Asks(q, i, x)
          \/ \E d : Refuse(P, x, d)
          \/ \E d \in CallIds("lns") : Opens(l[d], n) /\ l[d].cid = x /\ Meets(k, P, x, d)
      BY DEF TalkOf, LacServed
    <3>2. CASE \E i : Asks(q, i, x)
      <4>1. ~ Asks(q, 1, x)
        BY <2>2 DEF Asks
      <4> QED
        BY <1>2, <3>2, <4>1
    <3>3. CASE \E d : Refuse(P, x, d)
      BY <3>3
    <3>4. CASE \E d \in CallIds("lns") : Opens(l[d], n) /\ l[d].cid = x /\ Meets(k, P, x, d)
      <4>1. ~ Opens(l[p], n)
        BY DEF Opens, Lives, Live
      <4> QED
        BY <3>4, <4>1 DEF Meets
    <3> QED
      BY <3>1, <3>2, <3>3, <3>4
  <2> QED
    BY <2>1, <2>2
<1>12. LnsServed(k, l2, P2, b, t, n)
  <2> SUFFICES ASSUME NEW d \in CallIds("lns"), Opens(l2[d], n)
               PROVE  \/ \E i : Tells(b, i, l2[d].cid, 0) \/ Tells(b, i, l2[d].cid, d)
                      \/ /\ l2[d].cid \in CallIds("lac") /\ Opens(k[l2[d].cid], t)
                         /\ k[l2[d].cid].needclose \/ Meets(k, P2, l2[d].cid, d)
    BY DEF LnsServed
  <2>1. CASE d = p
    BY <1>3, <1>4, <2>1 DEF Meets
  <2>2. CASE d # p
    BY <1>3, <2>2 DEF TalkOf, LnsServed, Meets
  <2> QED
    BY <2>1, <2>2
<1>13. NoneYet(k, t)
  BY DEF TalkOf
<1> QED
  BY <1>7, <1>8, <1>9, <1>10, <1>11, <1>12, <1>13 DEF TalkOf, b

\* The LAC learns the id of the answer.
LEMMA MetTalk ==
  ASSUME NEW k, NEW l, NEW P, NEW q, NEW t, NEW n, TalkOf(k, l, P, q, t, n), 0 \notin CallIds("lns"),
         NEW c \in CallIds("lac"), NEW d, Agree(P, c, d),
         NEW k2, \A x \in CallIds("lac") \ {c} : k2[x] = k[x],
         k2[c].cid = d, k2[c].state \notin {"off", "ICRQ"}, Opens(k2[c], t) <=> Opens(k[c], t),
         Opens(k2[c], t) /\ k[c].needclose => k2[c].needclose
  PROVE  TalkOf(k2, l, P, q, t, n)
<1>1. \A x \in CallIds("lac") : \A y : Named(k2, l, P, t, n, x, y) => Named(k, l, P, t, n, x, y)
  BY DEF Named
<1>2. Named(k, l, P, t, n, c, d)
  BY DEF Named
<1>3. OneAnswer(k2, l, P, t, n) /\ WasMade(k2, l, P, t, n)
  BY <1>1 DEF TalkOf, OneAnswer, WasMade
<1>4. ToldOff(k2, q, t)
  BY DEF TalkOf, ToldOff
<1>5. Requested(k2, l, P, q, t, n)
  BY <1>1 DEF TalkOf, Requested
<1>6. \A y \in CallIds("lns") : Opens(k[c], t) /\ Meets(k, P, c, y) => Meets(k2, P, c, y)
  BY <1>2 DEF TalkOf, OneAnswer, Named, Meets, Opens
<1>7. LacServed(k2, l, P, q, t, n)
  <2> SUFFICES ASSUME NEW x \in CallIds("lac"), Opens(k2[x], t), ~ k2[x].needclose
               PROVE  \/ \E i : Asks(q, i, x)
                      \/ \E y : Refuse(P, x, y)
                      \/ \E y \in CallIds("lns") : Opens(l[y], n) /\ l[y].cid = x /\ Meets(k2, P, x, y)
    BY DEF LacServed
  <2>1. Opens(k[x], t) /\ ~ k[x].needclose
    OBVIOUS
  <2>2. \/ \E i : Asks(q, i, x)
        \/ \E y : Refuse(P, x, y)
        \/ \E y \in CallIds("lns") : Opens(l[y], n) /\ l[y].cid = x /\ Meets(k, P, x, y)
    BY <2>1 DEF TalkOf, LacServed
  <2>3. \A y \in CallIds("lns") : Meets(k, P, x, y) => Meets(k2, P, x, y)
    <3>1. CASE x = c
      BY <1>6, <2>1, <3>1
    <3>2. CASE x # c
      BY <3>2 DEF Meets
    <3> QED
      BY <3>1, <3>2
  <2> QED
    BY <2>2, <2>3
<1>8. LnsServed(k2, l, P, q, t, n)
  <2> SUFFICES ASSUME NEW y \in CallIds("lns"), Opens(l[y], n)
               PROVE  \/ \E i : Tells(q, i, l[y].cid, 0) \/ Tells(q, i, l[y].cid, y)
                      \/ /\ l[y].cid \in CallIds("lac") /\ Opens(k2[l[y].cid], t)
                         /\ k2[l[y].cid].needclose \/ Meets(k2, P, l[y].cid, y)
    BY DEF LnsServed
  <2>1. CASE l[y].cid = c
    BY <1>6, <2>1 DEF TalkOf, LnsServed
  <2>2. CASE l[y].cid # c
    BY <2>2 DEF TalkOf, LnsServed, Meets
  <2> QED
    BY <2>1, <2>2
<1>9. NoneYet(k2, t)
  BY DEF TalkOf, NoneYet
<1> QED
  BY <1>3, <1>4, <1>5, <1>7, <1>8, <1>9 DEF TalkOf

\* Nothing was said yet.
LEMMA SilentTalk ==
  ASSUME NEW k, NEW l, NEW P, NEW q, NEW t, NEW n,
         \A c \in CallIds("lac") : ~ Lives(k[c], t), \A d \in CallIds("lns") : ~ Lives(l[d], n),
         \A c, d : ~ Agree(P, c, d) /\ ~ Refuse(P, c, d), \A i, c : ~ Asks(q, i, c),
         \A i, c, d : ~ Tells(q, i, c, d)
  PROVE  TalkOf(k, l, P, q, t, n)
<1>1. \A c \in CallIds("lac") : \A d : ~ Named(k, l, P, t, n, c, d)
  BY DEF Named
<1>2. OneAnswer(k, l, P, t, n) /\ WasMade(k, l, P, t, n)
  BY <1>1 DEF OneAnswer, WasMade
<1>3. Refused(l, P, n) /\ ToldOff(k, q, t) /\ Requested(k, l, P, q, t, n)
  BY DEF Refused, ToldOff, Requested
<1>4. LacServed(k, l, P, q, t, n) /\ LnsServed(k, l, P, q, t, n) /\ NoneYet(k, t)
  BY DEF LacServed, LnsServed, NoneYet, Opens
<1> QED
  BY <1>2, <1>3, <1>4 DEF TalkOf

-----------------------------------------------------------------------------
(* The talk of two tunnels.                                                 *)

\* A tunnel that is lost, or closes.
Doomed(u) == u.stuck \/ u.needclose \/ u.closing

\* Two tunnels that know each other and go on.
Sound(w, t, n) ==
  LET a == w.tun["lac"][t]
      b == w.tun["lns"][n]
  IN /\ Live(a) /\ ~ Doomed(a) /\ a.tid = n
     /\ Live(b) /\ ~ Doomed(b) /\ b.tid = t

\* Their messages; those of h are in the hands of e.
ToLac(w, e, h, t, n) ==
  {m \in Message : m.from = n /\ (Has(w.box["lac"][t], m) \/ (e = "lac" /\ Has(h, m)))}
ToLns(w, e, h, n) == IF e = "lns" THEN h \o w.box["lns"][n] ELSE w.box["lns"][n]
Talk(w, e, h, t, n) ==
  TalkOf(w.call["lac"], w.call["lns"], ToLac(w, e, h, t, n), ToLns(w, e, h, n), t, n)

\* A tunnel of the LAC that knows its peer is up.
Settles(u) == Live(u) /\ u.tid # 0 /\ ~ Doomed(u) => u.state = "SCCCN"

\* What holds as long as no message had a flaw.
Agreed(w) ==
  /\ \A t \in TunnelIds("lac") : Settles(w.tun["lac"][t])
  /\ \A t \in TunnelIds("lac") : \A n \in TunnelIds("lns") : Sound(w, t, n) => Talk(w, "lac", <<>>, t, n)

\* A tunnel that goes on did so before.
Goes(u, x) ==
  Live(u) /\ ~ Doomed(u) =>
    Live(x) /\ ~ Doomed(x) /\ u.tid = x.tid /\ (x.state = "SCCCN" => u.state = "SCCCN")

\* A part of a handler of tunnel s of e lets its talk go on.
Own(e, s, t, n) == s = IF e = "lac" THEN t ELSE n
Talks(v, w, e, s, h) ==
  /\ Within(v, w, e, s) /\ Goes(v.tun[e][s], w.tun[e][s])
  /\ \A t \in TunnelIds("lac") : \A n \in TunnelIds("lns") :
       Own(e, s, t, n) /\ Sound(v, t, n) /\ Talk(w, e, h, t, n) => Talk(v, e, h, t, n)

\* Tunnels that are sound were so before.
LEMMA SoundBefore ==
  ASSUME NEW w, NEW v, NEW e \in End, NEW s \in TunnelIds(e), Within(v, w, e, s),
         Goes(v.tun[e][s], w.tun[e][s]), NEW t \in TunnelIds("lac"), NEW n \in TunnelIds("lns"), Sound(v, t, n)
  PROVE  Sound(w, t, n)
<1>1. \A f \in End : \A x \in TunnelIds(f) :
        Live(v.tun[f][x]) /\ ~ Doomed(v.tun[f][x]) =>
          Live(w.tun[f][x]) /\ ~ Doomed(w.tun[f][x]) /\ v.tun[f][x].tid = w.tun[f][x].tid
  <2> SUFFICES ASSUME NEW f \in End, NEW x \in TunnelIds(f), Live(v.tun[f][x]), ~ Doomed(v.tun[f][x])
               PROVE  Live(w.tun[f][x]) /\ ~ Doomed(w.tun[f][x]) /\ v.tun[f][x].tid = w.tun[f][x].tid
    OBVIOUS
  <2>1. CASE f = e /\ x = s
    BY <2>1 DEF Goes
  <2>2. CASE f # e \/ x # s
    BY <2>2 DEF Within, Kin, SameTun, Live, Doomed
  <2> QED
    BY <2>1, <2>2
<1> QED
  BY <1>1, EndIs DEF Sound

\* Such parts follow one another.
LEMMA TalksAgain ==
  ASSUME NEW w, NEW v, NEW x, NEW e \in End, NEW s \in TunnelIds(e), NEW h,
         Talks(x, v, e, s, h), Talks(v, w, e, s, h)
  PROVE  Talks(x, w, e, s, h)
<1>1. Within(x, w, e, s)
  BY WithinAgain DEF Talks
<1>2. Goes(x.tun[e][s], w.tun[e][s])
  BY DEF Talks, Goes
<1>3. ASSUME NEW t \in TunnelIds("lac"), NEW n \in TunnelIds("lns"),
             Own(e, s, t, n), Sound(x, t, n), Talk(w, e, h, t, n)
      PROVE  Talk(x, e, h, t, n)
  <2>1. Sound(v, t, n)
    BY <1>3, SoundBefore DEF Talks
  <2> QED
    BY <1>3, <2>1 DEF Talks
<1> QED
  BY <1>1, <1>2, <1>3 DEF Talks

\* It does not matter who has nothing in hand.
LEMMA NothingInHand ==
  ASSUME NEW w, IsWorld(w), NEW e \in End, NEW t, NEW n \in TunnelIds("lns")
  PROVE  /\ Talk(w, e, <<>>, t, n) <=> Talk(w, "lac", <<>>, t, n)
         /\ ToLac(w, e, <<>>, t, n) = {m \in Message : m.from = n /\ Has(w.box["lac"][t], m)}
         /\ ToLns(w, e, <<>>, n) = w.box["lns"][n]
<1>1. \A f, m : ~ Has(<<>>, m) /\ ToLac(w, f, <<>>, t, n) = {x \in Message : x.from = n /\ Has(w.box["lac"][t], x)}
  <2>1. \A m : ~ Has(<<>>, m)
    BY DEF Has
  <2> QED
    BY <2>1 DEF ToLac
<1>2. \A f : ToLns(w, f, <<>>, n) = w.box["lns"][n]
  <2>1. w.box["lns"][n] \in Seq(Message)
    BY EndIs, WorldFields
  <2> QED
    BY <2>1 DEF ToLns
<1> QED
  BY <1>1, <1>2 DEF Talk

\* The tunnels whose talk it is not.
LEMMA OthersTalk ==
  ASSUME NEW w, NEW v, NEW e \in End, NEW s \in TunnelIds(e), Within(v, w, e, s),
         NEW t \in TunnelIds("lac"), NEW n \in TunnelIds("lns"), ~ Own(e, s, t, n),
         Sound(w, t, n), Talk(w, "lac", <<>>, t, n)
  PROVE  Talk(v, "lac", <<>>, t, n)
<1>1. ToLac(v, "lac", <<>>, t, n) = ToLac(w, "lac", <<>>, t, n)
  <2>1. CASE e = "lac"
    <3>1. v.box["lac"][t] = w.box["lac"][t]
      BY <2>1 DEF Within, Own
    <3> QED
      BY <3>1 DEF ToLac
  <2>2. CASE e = "lns"
    <3>1. \A m \in Message : m.from = n => (Has(v.box["lac"][t], m) <=> Has(w.box["lac"][t], m))
      BY <2>2 DEF Within, Own
    <3> QED
      BY <3>1 DEF ToLac
  <2> QED
    BY <2>1, <2>2, EndIs
<1>2. ToLns(v, "lac", <<>>, n) = ToLns(w, "lac", <<>>, n)
  <2>1. v.box["lns"][n] = w.box["lns"][n]
    BY EndIs DEF Within, Own, Sound
  <2> QED
    BY <2>1 DEF ToLns
<1>3. \A c \in CallIds("lac") : Follows(v.call["lac"][c], w.call["lac"][c], t)
  <2> SUFFICES ASSUME NEW c \in CallIds("lac") PROVE Follows(v.call["lac"][c], w.call["lac"][c], t)
    OBVIOUS
  <2>1. \/ v.call["lac"][c] = w.call["lac"][c]
        \/ s # t /\ Of(v.call["lac"][c], s) /\ Of(w.call["lac"][c], s)
    BY EndIs DEF Within, Own
  <2>2. w.call["lac"][c].state # "off" => v.call["lac"][c].state # "off"
    BY EndIs DEF Within
  <2> QED
    BY <2>1, <2>2 DEF Follows, Opens, Lives, Of
<1>4. \A d \in CallIds("lns") : Follows(v.call["lns"][d], w.call["lns"][d], n)
  <2> SUFFICES ASSUME NEW d \in CallIds("lns") PROVE Follows(v.call["lns"][d], w.call["lns"][d], n)
    OBVIOUS
  <2>1. \/ v.call["lns"][d] = w.call["lns"][d]
        \/ s # n /\ Of(v.call["lns"][d], s) /\ Of(w.call["lns"][d], s)
    BY EndIs DEF Within, Own
  <2>2. w.call["lns"][d].state # "off" => v.call["lns"][d].state # "off"
    BY EndIs DEF Within
  <2> QED
    BY <2>1, <2>2 DEF Follows, Opens, Lives, Of
<1>5. TalkOf(w.call["lac"], w.call["lns"], ToLac(v, "lac", <<>>, t, n), ToLns(v, "lac", <<>>, n), t, n)
  BY <1>1, <1>2 DEF Talk
<1>6. TalkOf(v.call["lac"], v.call["lns"], ToLac(v, "lac", <<>>, t, n), ToLns(v, "lac", <<>>, n), t, n)
  BY <1>3, <1>4, <1>5, StayTalk
<1> QED
  BY <1>6 DEF Talk

\* The tunnels agree after a step when those agree that take it.
LEMMA AgreedAfter ==
  ASSUME NEW w, Agreed(w), NEW v, NEW e \in End, NEW s \in TunnelIds(e), Within(v, w, e, s),
         Goes(v.tun[e][s], w.tun[e][s]),
         \A t \in TunnelIds("lac") : \A n \in TunnelIds("lns") :
           Own(e, s, t, n) /\ Sound(v, t, n) /\ Talk(w, "lac", <<>>, t, n) => Talk(v, "lac", <<>>, t, n)
  PROVE  Agreed(v)
<1>1. ASSUME NEW t \in TunnelIds("lac") PROVE Settles(v.tun["lac"][t])
  <2>1. Settles(w.tun["lac"][t])
    BY DEF Agreed
  <2>2. CASE e = "lac" /\ s = t
    BY <2>1, <2>2 DEF Settles, Goes
  <2>3. CASE e # "lac" \/ s # t
    BY <2>1, <2>3, EndIs DEF Settles, Within, Kin, SameTun, Doomed, Live
  <2> QED
    BY <2>2, <2>3
<1>2. ASSUME NEW t \in TunnelIds("lac"), NEW n \in TunnelIds("lns"), Sound(v, t, n)
      PROVE  Talk(v, "lac", <<>>, t, n)
  <2>1. Sound(w, t, n)
    BY <1>2, SoundBefore
  <2>2. Talk(w, "lac", <<>>, t, n)
    BY <2>1 DEF Agreed
  <2>3. CASE Own(e, s, t, n)
    BY <1>2, <2>2, <2>3
  <2>4. CASE ~ Own(e, s, t, n)
    BY <2>1, <2>2, <2>4, OthersTalk
  <2> QED
    BY <2>3, <2>4
<1> QED
  BY <1>1, <1>2 DEF Agreed

\* The tunnels agree after a step of a tunnel that was not sound before.
LEMMA AgreedHere ==
  ASSUME NEW w, Agreed(w), NEW v, NEW e \in End, NEW s \in TunnelIds(e), Within(v, w, e, s),
         e = "lac" => Settles(v.tun["lac"][s]),
         \A t \in TunnelIds("lac") : \A n \in TunnelIds("lns") :
           Own(e, s, t, n) /\ Sound(v, t, n) => Talk(v, "lac", <<>>, t, n)
  PROVE  Agreed(v)
<1>1. \A f \in End : \A x \in TunnelIds(f) : f # e \/ x # s => Kin(v.tun[f][x], w.tun[f][x])
  BY DEF Within
<1>2. ASSUME NEW t \in TunnelIds("lac") PROVE Settles(v.tun["lac"][t])
  <2>1. Settles(w.tun["lac"][t])
    BY DEF Agreed
  <2>2. CASE e = "lac" /\ t = s
    BY <2>2
  <2>3. CASE e # "lac" \/ t # s
    <3>1. Kin(v.tun["lac"][t], w.tun["lac"][t])
      BY <1>1, <2>3, EndIs
    <3> QED
      BY <2>1, <3>1 DEF Settles, Kin, SameTun, Doomed, Live
  <2> QED
    BY <2>2, <2>3
<1>3. ASSUME NEW t \in TunnelIds("lac"), NEW n \in TunnelIds("lns"), Sound(v, t, n)
      PROVE  Talk(v, "lac", <<>>, t, n)
  <2>1. CASE Own(e, s, t, n)
    BY <1>3, <2>1
  <2>2. CASE ~ Own(e, s, t, n)
    <3>1. Sound(w, t, n)
      <4>1. (e # "lac" \/ t # s) /\ (e # "lns" \/ n # s)
        BY <2>2 DEF Own
      <4>2. Kin(v.tun["lac"][t], w.tun["lac"][t]) /\ Kin(v.tun["lns"][n], w.tun["lns"][n])
        BY <1>1, <4>1, EndIs
      <4> QED
        BY Zenon, <1>3, <4>2 DEF Sound, Kin, SameTun, Doomed, Live
    <3>2. Talk(w, "lac", <<>>, t, n)
      BY <3>1 DEF Agreed
    <3> QED
      BY Zenon, <2>2, <3>1, <3>2, OthersTalk
  <2> QED
    BY <2>1, <2>2
<1> QED
  BY <1>2, <1>3 DEF Agreed

\* The same for a part of a handler.
LEMMA AgreedByTalks ==
  ASSUME NEW w, IsWorld(w), Agreed(w), NEW v, IsWorld(v), NEW e \in End, NEW s \in TunnelIds(e), Talks(v, w, e, s, <<>>)
  PROVE  Agreed(v)
<1>1. \A t \in TunnelIds("lac") : \A n \in TunnelIds("lns") :
        Own(e, s, t, n) /\ Sound(v, t, n) /\ Talk(w, "lac", <<>>, t, n) => Talk(v, "lac", <<>>, t, n)
  BY NothingInHand DEF Talks
<1> QED
  BY <1>1, AgreedAfter DEF Talks

\* A tunnel that is lost or closes has no talk.
LEMMA DoomedTalks ==
  ASSUME NEW w, NEW v, NEW e \in End, NEW s \in TunnelIds(e), Within(v, w, e, s), NEW h,
         Doomed(v.tun[e][s]) \/ ~ Live(v.tun[e][s])
  PROVE  Talks(v, w, e, s, h)
<1>1. \A t \in TunnelIds("lac") : \A n \in TunnelIds("lns") : Own(e, s, t, n) => ~ Sound(v, t, n)
  BY EndIs DEF Own, Sound
<1> QED
  BY <1>1 DEF Talks, Goes

\* The calls go on, and nothing is sent.
LEMMA CallsTalk ==
  ASSUME NEW w, NEW v, NEW e \in End, NEW s \in TunnelIds(e), Within(v, w, e, s), NEW h,
         Goes(v.tun[e][s], w.tun[e][s]), v.box = w.box,
         \A c \in CallIds(e) : Follows(v.call[e][c], w.call[e][c], s)
  PROVE  Talks(v, w, e, s, h)
<1>1. ASSUME NEW t \in TunnelIds("lac"), NEW n \in TunnelIds("lns"), Own(e, s, t, n), Talk(w, e, h, t, n)
      PROVE  Talk(v, e, h, t, n)
  <2>1. ToLac(v, e, h, t, n) = ToLac(w, e, h, t, n) /\ ToLns(v, e, h, n) = ToLns(w, e, h, n)
    BY DEF ToLac, ToLns
  <2>2. \A f \in End : \A c \in CallIds(f) :
          Follows(v.call[f][c], w.call[f][c], IF f = "lac" THEN t ELSE n)
    <3> SUFFICES ASSUME NEW f \in End, NEW c \in CallIds(f)
                 PROVE  Follows(v.call[f][c], w.call[f][c], IF f = "lac" THEN t ELSE n)
      OBVIOUS
    <3>1. CASE f = e
      BY <1>1, <3>1, EndIs DEF Own
    <3>2. CASE f # e
      <4>1. v.call[f][c] = w.call[f][c]
        BY <3>2 DEF Within
      <4> QED
        BY <4>1 DEF Follows
    <3> QED
      BY <3>1, <3>2
  <2>3. /\ \A c \in CallIds("lac") : Follows(v.call["lac"][c], w.call["lac"][c], t)
        /\ \A d \in CallIds("lns") : Follows(v.call["lns"][d], w.call["lns"][d], n)
    BY <2>2, EndIs
  <2>4. TalkOf(w.call["lac"], w.call["lns"], ToLac(v, e, h, t, n), ToLns(v, e, h, n), t, n)
    BY <1>1, <2>1 DEF Talk
  <2>5. TalkOf(v.call["lac"], v.call["lns"], ToLac(v, e, h, t, n), ToLns(v, e, h, n), t, n)
    BY Zenon, <2>3, <2>4, StayTalk
  <2> QED
    BY <2>5 DEF Talk
<1> QED
  BY <1>1 DEF Talks

\* A message is the last of those on their way, unless the tunnel is stuck.
LEMMA SentGoes ==
  ASSUME NEW w, NEW v, NEW e, NEW s, NEW m, Sent(v, w, e, s, m)
  PROVE  /\ Goes(v.tun[e][s], w.tun[e][s])
         /\ ~ Doomed(v.tun[e][s]) => v.tun = w.tun
BY Zenon DEF Sent, Goes, Doomed

\* The messages of a LAC after it has sent one more.
OneMore(v, w, h, t, n, m) ==
  /\ ToLac(v, "lac", h, t, n) = ToLac(w, "lac", h, t, n)
  /\ ToLns(v, "lac", h, n) = Append(ToLns(w, "lac", h, n), m)

\* What the LNS has yet to take is one message more.
LEMMA SentToLns ==
  ASSUME NEW w, NEW v, NEW t \in TunnelIds("lac"), NEW n \in TunnelIds("lns"), NEW h, NEW m,
         Sent(v, w, "lac", t, m), Sound(v, t, n)
  PROVE  OneMore(v, w, h, t, n, m)
<1>1. ~ v.tun["lac"][t].stuck /\ v.tun["lac"][t].tid = n
  BY Zenon DEF Sound, Doomed
<1>2. v.box["lns"][n] = Append(w.box["lns"][n], m) /\ v.box["lac"][t] = w.box["lac"][t]
  BY Zenon, <1>1, EndIs DEF Sent
<1> QED
  BY <1>2 DEF OneMore, ToLac, ToLns

\* The messages of an LNS after it has sent one more.
OneMoreSaid(v, w, h, t, n, m) ==
  /\ ToLns(v, "lns", h, n) = ToLns(w, "lns", h, n)
  /\ \A c, d : Agree(ToLac(v, "lns", h, t, n), c, d) <=>
                 Agree(ToLac(w, "lns", h, t, n), c, d) \/ (m.kind \in Agreeing /\ m.cid = c /\ m.id = d)
  /\ \A c, d : Refuse(ToLac(v, "lns", h, t, n), c, d) <=>
                 Refuse(ToLac(w, "lns", h, t, n), c, d) \/ (m.kind = "CDN" /\ m.cid = c /\ m.id = d)

\* What the LAC has yet to take is one message more.
LEMMA SentToLac ==
  ASSUME NEW w, IsWorld(w), NEW v, NEW t \in TunnelIds("lac"), NEW n \in TunnelIds("lns"), NEW h, NEW m \in Message,
         m.from = n, Sent(v, w, "lns", n, m), Sound(v, t, n)
  PROVE  OneMoreSaid(v, w, h, t, n, m)
<1>1. ~ v.tun["lns"][n].stuck /\ v.tun["lns"][n].tid = t
  BY Zenon DEF Sound, Doomed
<1>2. v.box["lac"][t] = Append(w.box["lac"][t], m) /\ v.box["lns"][n] = w.box["lns"][n]
  BY Zenon, <1>1, EndIs DEF Sent
<1>3. \A x : Has(v.box["lac"][t], x) <=> Has(w.box["lac"][t], x) \/ x = m
  <2> DEFINE b == w.box["lac"][t]
  <2>1. b \in Seq(Message) /\ Len(b) \in Nat
    BY EndIs, WorldFields
  <2> HIDE DEF b
  <2>2. /\ Len(Append(b, m)) = Len(b) + 1 /\ Append(b, m)[Len(b) + 1] = m
        /\ \A i \in 1 .. Len(b) : Append(b, m)[i] = b[i]
    BY <2>1, AppendProperties
  <2>3. \A i : i \in 1 .. Len(Append(b, m)) <=> i \in 1 .. Len(b) \/ i = Len(b) + 1
    BY <2>1, <2>2
  <2>4. \A x : Has(Append(b, m), x) <=> Has(b, x) \/ x = m
    BY <2>2, <2>3 DEF Has
  <2> QED
    BY <1>2, <2>4 DEF b
<1>4. ToLac(v, "lns", h, t, n) = ToLac(w, "lns", h, t, n) \cup {m}
  BY <1>3 DEF ToLac
<1>5. ToLns(v, "lns", h, n) = ToLns(w, "lns", h, n)
  BY <1>2 DEF ToLns
<1> QED
  BY <1>4, <1>5 DEF OneMoreSaid, Agree, Refuse

\* A message that says nothing of calls is sent.
LEMMA SendTalks ==
  ASSUME NEW w, IsWorld(w), NEW v, NEW e \in End, NEW s \in TunnelIds(e), Within(v, w, e, s), NEW h \in Seq(Message),
         NEW m, e = "lns" => m \in Message /\ m.from = s, m.kind \notin Asking \cup Agreeing \cup {"CDN"},
         Sent(v, w, e, s, m), \A c \in CallIds(e) : Follows(v.call[e][c], w.call[e][c], s)
  PROVE  Talks(v, w, e, s, h)
<1>1. ASSUME NEW t \in TunnelIds("lac"), NEW n \in TunnelIds("lns"), Own(e, s, t, n), Sound(v, t, n), Talk(w, e, h, t, n)
      PROVE  Talk(v, e, h, t, n)
  <2> DEFINE P == ToLac(w, e, h, t, n)
             q == ToLns(w, e, h, n)
             P2 == ToLac(v, e, h, t, n)
             q2 == ToLns(v, e, h, n)
  <2>1. \A f \in End : \A c \in CallIds(f) :
          Follows(v.call[f][c], w.call[f][c], IF f = "lac" THEN t ELSE n)
    <3> SUFFICES ASSUME NEW f \in End, NEW c \in CallIds(f)
                 PROVE  Follows(v.call[f][c], w.call[f][c], IF f = "lac" THEN t ELSE n)
      OBVIOUS
    <3>1. CASE f = e
      BY <1>1, <3>1, EndIs DEF Own
    <3>2. CASE f # e
      <4>1. v.call[f][c] = w.call[f][c]
        BY <3>2 DEF Within
      <4> QED
        BY <4>1 DEF Follows
    <3> QED
      BY <3>1, <3>2
  <2>2. /\ \A c \in CallIds("lac") : Follows(v.call["lac"][c], w.call["lac"][c], t)
        /\ \A d \in CallIds("lns") : Follows(v.call["lns"][d], w.call["lns"][d], n)
    BY <2>1, EndIs
  <2>3. TalkOf(w.call["lac"], w.call["lns"], P, q, t, n)
    BY <1>1 DEF Talk
  <2>4. q \in Seq(Message)
    <3>1. w.box["lns"][n] \in Seq(Message)
      BY EndIs, WorldFields
    <3> QED
      BY <3>1 DEF ToLns
  <2>5. CASE e = "lac"
    <3>1. P2 = P /\ q2 = Append(q, m)
      <4>1. s = t
        BY <1>1, <2>5 DEF Own
      <4>2. Sent(v, w, "lac", t, m)
        BY <2>5, <4>1
      <4>3. Sound(v, t, n) /\ Sent(v, w, "lac", t, m) /\ t \in TunnelIds("lac") /\ n \in TunnelIds("lns")
        BY <1>1, <4>2
      <4>4. OneMore(v, w, h, t, n, m)
        BY ONLY <4>3, SentToLns
      <4> QED
        BY <2>5, <4>4 DEF OneMore
    <3> HIDE DEF P, q, P2, q2
    <3>2. TalkOf(w.call["lac"], w.call["lns"], P2, q2, t, n)
      BY <2>3, <2>4, <3>1, AppendTalk
    <3>3. TalkOf(v.call["lac"], v.call["lns"], P2, q2, t, n)
      BY <2>2, <3>2, StayTalk
    <3> QED
      BY <3>3 DEF Talk, P2, q2
  <2>6. CASE e = "lns"
    <3>1. /\ q2 = q
          /\ \A c, d : (Agree(P2, c, d) <=> Agree(P, c, d)) /\ (Refuse(P2, c, d) <=> Refuse(P, c, d))
      <4>1. s = n
        BY <1>1, <2>6 DEF Own
      <4>2. OneMoreSaid(v, w, h, t, n, m)
        BY <1>1, <2>6, <4>1, SentToLac
      <4> QED
        BY <2>6, <4>2 DEF OneMoreSaid
    <3> HIDE DEF P, q, P2, q2
    <3>2. TalkOf(w.call["lac"], w.call["lns"], P2, q2, t, n)
      BY <2>3, <3>1, ToLacTalk
    <3>3. TalkOf(v.call["lac"], v.call["lns"], P2, q2, t, n)
      BY <2>2, <3>2, StayTalk
    <3> QED
      BY <3>3 DEF Talk, P2, q2
  <2> QED
    BY <2>5, <2>6, EndIs
<1>2. Goes(v.tun[e][s], w.tun[e][s])
  BY SentGoes
<1> QED
  BY <1>1, <1>2 DEF Talks

\* The calls of one end stay as they are.
LEMMA EachTalk ==
  ASSUME NEW k, NEW l, NEW P, NEW q, NEW t, NEW n, TalkOf(k, l, P, q, t, n), NEW k2, NEW l2,
         \A c \in CallIds("lac") : k2[c] = k[c], \A d \in CallIds("lns") : l2[d] = l[d]
  PROVE  TalkOf(k2, l2, P, q, t, n)
<1>1. \A c \in CallIds("lac") : Follows(k2[c], k[c], t)
  BY DEF Follows
<1>2. \A d \in CallIds("lns") : Follows(l2[d], l[d], n)
  BY DEF Follows
<1> QED
  BY <1>1, <1>2, StayTalk

\* What the LNS has yet to take is a sequence of messages.
LEMMA ToLnsIs ==
  ASSUME NEW w, IsWorld(w), NEW e, NEW h \in Seq(Message), NEW n \in TunnelIds("lns")
  PROVE  ToLns(w, e, h, n) \in Seq(Message)
<1>1. w.box["lns"][n] \in Seq(Message)
  BY EndIs, WorldFields
<1> QED
  BY <1>1 DEF ToLns

\* call_close of a call lets the talk go on.
LEMMA HangsTalks ==
  ASSUME CountAssumption, NEW w, IsWorld(w), NEW v, NEW e \in End, NEW s \in TunnelIds(e), Within(v, w, e, s),
         NEW h \in Seq(Message), NEW c \in CallIds(e), Lives(w.call[e][c], s), Closed(v, w, e, c)
  PROVE  Talks(v, w, e, s, h)
<1> DEFINE k == w.call[e][c]
           m == Farewell(k, c)
<1>1. k \in Call /\ k.tun = s /\ Live(k)
  BY WorldFields DEF Lives
<1>2. CASE k.closing
  <2>1. /\ v.tun = w.tun /\ v.box = w.box /\ v.call[e][c].state = "gone"
        /\ \A f \in End : \A d \in CallIds(f) : f # e \/ d # c => v.call[f][d] = w.call[f][d]
    BY <1>2 DEF Closed
  <2>2. Goes(v.tun[e][s], w.tun[e][s])
    BY <2>1 DEF Goes
  <2>3. \A d \in CallIds(e) : Follows(v.call[e][d], w.call[e][d], s)
    <3> SUFFICES ASSUME NEW d \in CallIds(e) PROVE Follows(v.call[e][d], w.call[e][d], s)
      OBVIOUS
    <3>1. CASE d = c
      BY <1>2, <2>1, <3>1 DEF Follows, Opens, Lives, Live
    <3>2. CASE d # c
      BY <2>1, <3>2 DEF Follows
    <3> QED
      BY <3>1, <3>2
  <2> QED
    BY <2>1, <2>2, <2>3, CallsTalk
<1>3. CASE ~ k.closing
  <2>1. /\ \A f \in End : \A d \in CallIds(f) : f # e \/ d # c => v.call[f][d] = w.call[f][d]
        /\ v.call[e][c] = [k EXCEPT !.closing = TRUE] /\ Sent(v, w, e, s, m)
    BY <1>1, <1>3 DEF Closed
  <2>2. m \in Message /\ m.kind = "CDN" /\ m.from = s /\ m.cid = k.cid /\ m.id = c
    <3>1. "CDN" \in Kind /\ s \in Nat /\ k.cid \in Nat /\ c \in Nat
      BY <1>1 DEF Kind, TunnelIds, CallIds, Call, CountAssumption
    <3> DEFINE to == k.cid
    <3>2. to \in Nat /\ m = Plain("CDN", s, to, c)
      BY <1>1, <3>1 DEF Farewell
    <3> HIDE DEF m, k, to
    <3>3. m \in Message /\ m.kind = "CDN" /\ m.from = s /\ m.cid = to /\ m.id = c
      BY <3>1, <3>2, PlainIs
    <3> QED
      BY <3>3 DEF to
  <2> HIDE DEF m
  <2>3. Opens(w.call[e][c], s) /\ Lives(v.call[e][c], s) /\ ~ Opens(v.call[e][c], s)
        /\ v.call[e][c].cid = w.call[e][c].cid /\ v.call[e][c].state # "off"
    BY <1>1, <1>3, <2>1 DEF Opens, Lives, Live, Call
  <2> HIDE DEF k
  <2>4. Goes(v.tun[e][s], w.tun[e][s])
    BY <2>1, SentGoes
  <2>5. ASSUME NEW t \in TunnelIds("lac"), NEW n \in TunnelIds("lns"), Own(e, s, t, n), Sound(v, t, n), Talk(w, e, h, t, n)
        PROVE  Talk(v, e, h, t, n)
    <3> DEFINE P == ToLac(w, e, h, t, n)
               q == ToLns(w, e, h, n)
               P2 == ToLac(v, e, h, t, n)
               q2 == ToLns(v, e, h, n)
    <3>1. TalkOf(w.call["lac"], w.call["lns"], P, q, t, n)
      BY <2>5 DEF Talk
    <3>2. q \in Seq(Message)
      BY ToLnsIs
    <3>3. CASE e = "lac"
      <4>1. s = t /\ Sent(v, w, "lac", t, m)
        BY <2>1, <2>5, <3>3 DEF Own
      <4>2. OneMore(v, w, h, t, n, m)
        <5> HIDE DEF P, q, P2, q2
        <5>1. Sound(v, t, n) /\ Sent(v, w, "lac", t, m) /\ t \in TunnelIds("lac") /\ n \in TunnelIds("lns")
          BY <2>5, <4>1
        <5> QED
          BY ONLY <5>1, SentToLns
      <4>3. P2 = P /\ q2 = Append(q, m)
        BY <3>3, <4>2 DEF OneMore
      <4> HIDE DEF P, q, P2, q2
      <4> DEFINE k1 == w.call["lac"]
                 k2 == v.call["lac"]
      <4>4. /\ c \in CallIds("lac") /\ Opens(k1[c], t) /\ k1[c].cid = m.cid
            /\ \A x \in CallIds("lac") \ {c} : k2[x] = k1[x]
            /\ Lives(k2[c], t) /\ k2[c].cid = k1[c].cid /\ ~ Opens(k2[c], t) /\ k2[c].state # "off"
        <5>1. m.cid = k1[c].cid
          BY <2>2, <3>3 DEF k
        <5>2. \A x \in CallIds("lac") \ {c} : k2[x] = k1[x]
          BY <2>1, <3>3, EndIs
        <5> QED
          BY <2>3, <3>3, <4>1, <5>1, <5>2
      <4>5. TalkOf(k1, w.call["lns"], P, q, t, n)
        BY <3>1
      <4> HIDE DEF k1, k2
      <4>6. TalkOf(k2, w.call["lns"], P2, q2, t, n)
        BY <2>2, <3>2, <4>3, <4>4, <4>5, LacHangsTalk
      <4>7. \A d \in CallIds("lns") : v.call["lns"][d] = w.call["lns"][d]
        BY <2>1, <3>3, EndIs
      <4>8. TalkOf(k2, v.call["lns"], P2, q2, t, n)
        BY <4>6, <4>7, EachTalk
      <4> QED
        BY <4>8 DEF Talk, P2, q2, k2
    <3>4. CASE e = "lns"
      <4>1. s = n /\ Sent(v, w, "lns", n, m) /\ m.from = n
        BY <2>1, <2>2, <2>5, <3>4 DEF Own
      <4>2. /\ ToLns(v, "lns", h, n) = ToLns(w, "lns", h, n)
            /\ \A x, d : Agree(ToLac(v, "lns", h, t, n), x, d) <=> Agree(ToLac(w, "lns", h, t, n), x, d)
            /\ \A x, d : Refuse(ToLac(v, "lns", h, t, n), x, d) <=>
                           Refuse(ToLac(w, "lns", h, t, n), x, d) \/ (m.cid = x /\ m.id = d)
        <5> HIDE DEF P, q, P2, q2
        <5>1. m.kind = "CDN" /\ m.kind \notin Agreeing
          BY <2>2 DEF Agreeing
        <5>2. /\ IsWorld(w) /\ t \in TunnelIds("lac") /\ n \in TunnelIds("lns") /\ m \in Message
              /\ m.from = n /\ Sent(v, w, "lns", n, m) /\ Sound(v, t, n)
          BY <2>2, <2>5, <4>1
        <5>3. OneMoreSaid(v, w, h, t, n, m)
          BY ONLY <5>2, SentToLac
        <5> QED
          BY ONLY <5>1, <5>3 DEF OneMoreSaid
      <4>3. /\ q2 = q
            /\ \A x, d : Agree(P2, x, d) <=> Agree(P, x, d)
            /\ \A x, d : Refuse(P2, x, d) <=> Refuse(P, x, d) \/ (x = w.call["lns"][c].cid /\ d = c)
        BY <2>2, <3>4, <4>2 DEF k
      <4> HIDE DEF P, q, P2, q2
      <4> DEFINE l1 == w.call["lns"]
                 l2 == v.call["lns"]
      <4>4. /\ c \in CallIds("lns") /\ Opens(l1[c], n)
            /\ \A x \in CallIds("lns") \ {c} : l2[x] = l1[x]
            /\ Lives(l2[c], n) /\ l2[c].cid = l1[c].cid /\ ~ Opens(l2[c], n) /\ l2[c].state # "off"
            /\ \A x, d : Refuse(P2, x, d) <=> Refuse(P, x, d) \/ (x = l1[c].cid /\ d = c)
        BY <2>1, <2>3, <3>4, <4>1, <4>3, EndIs
      <4>5. TalkOf(w.call["lac"], l1, P, q, t, n)
        BY <3>1
      <4> HIDE DEF l1, l2
      <4>6. TalkOf(w.call["lac"], l2, P2, q2, t, n)
        BY <4>3, <4>4, <4>5, LnsHangsTalk
      <4>7. \A d \in CallIds("lac") : v.call["lac"][d] = w.call["lac"][d]
        BY <2>1, <3>4, EndIs
      <4>8. TalkOf(v.call["lac"], l2, P2, q2, t, n)
        BY <4>6, <4>7, EachTalk
      <4> QED
        BY <4>8 DEF Talk, P2, q2, l2
    <3> QED
      BY <3>3, <3>4, EndIs
  <2> QED
    BY <2>4, <2>5 DEF Talks
<1> QED
  BY <1>2, <1>3

\* lac_call lets the talk go on.
LEMMA PlaceTalks ==
  ASSUME CountAssumption, NEW w, IsWorld(w), NEW v, NEW t \in TunnelIds("lac"), Within(v, w, "lac", t),
         NEW h \in Seq(Message), NEW c \in CallIds("lac"), w.call["lac"][c].state = "off", Placed(v, w, t, c)
  PROVE  Talks(v, w, "lac", t, h)
<1>1. PICK kind \in {"ICRQ", "OCRQ"} :
        /\ CallIs(v, w, "lac", c, [NoCall EXCEPT !.state = kind, !.tun = t])
        /\ Sent(v, w, "lac", t, Plain(kind, t, 0, c))
  BY DEF Placed
<1> DEFINE m == Plain(kind, t, 0, c)
           k1 == w.call["lac"]
           k2 == v.call["lac"]
<1>2. m.kind \in Asking /\ m.id = c
  BY DEF Asking, Plain
<1> HIDE DEF m
<1>3. /\ ~ Lives(k1[c], t)
      /\ \A x \in CallIds("lac") \ {c} : k2[x] = k1[x]
      /\ Opens(k2[c], t) /\ k2[c].cid = 0 /\ k2[c].state # "off"
  BY <1>1, EndIs DEF CallIs, Opens, Lives, Live, NoCall
<1>4. \A d \in CallIds("lns") : v.call["lns"][d] = w.call["lns"][d]
  BY <1>1, EndIs DEF CallIs
<1>5. Sent(v, w, "lac", t, m)
  BY <1>1 DEF m
<1>6. ASSUME NEW n \in TunnelIds("lns"), Sound(v, t, n), Talk(w, "lac", h, t, n)
      PROVE  Talk(v, "lac", h, t, n)
  <2> DEFINE P == ToLac(w, "lac", h, t, n)
             q == ToLns(w, "lac", h, n)
             P2 == ToLac(v, "lac", h, t, n)
             q2 == ToLns(v, "lac", h, n)
  <2>1. TalkOf(k1, w.call["lns"], P, q, t, n)
    BY <1>6 DEF Talk
  <2>2. q \in Seq(Message)
    BY ToLnsIs
  <2>3. P2 = P /\ q2 = Append(q, m)
    <3>1. Sound(v, t, n) /\ Sent(v, w, "lac", t, m) /\ t \in TunnelIds("lac") /\ n \in TunnelIds("lns")
      BY <1>5, <1>6
    <3>2. OneMore(v, w, h, t, n, m)
      BY ONLY <3>1, SentToLns
    <3> QED
      BY <3>2 DEF OneMore
  <2>4. k1[c].state = "off"
    OBVIOUS
  <2> HIDE DEF P, q, P2, q2, k1, k2
  <2>5. TalkOf(k2, w.call["lns"], P, Append(q, m), t, n)
    BY <1>2, <1>3, <2>1, <2>2, <2>4, PlaceTalk
  <2>6. TalkOf(k2, v.call["lns"], P2, q2, t, n)
    BY <1>4, <2>3, <2>5, EachTalk
  <2> QED
    BY <2>6 DEF Talk, P2, q2, k2
<1>7. Goes(v.tun["lac"][t], w.tun["lac"][t])
  BY <1>5, SentGoes
<1> QED
  BY <1>6, <1>7 DEF Talks, Own

\* A sequence with a first element.
LEMMA FirstOf ==
  ASSUME NEW S
  PROVE  /\ \A m \in S : \A b \in Seq(S) : LET q == <<m>> \o b IN q \in Seq(S) /\ q # <<>> /\ q[1] = m /\ Tail(q) = b
         /\ \A q \in Seq(S) : q # <<>> => <<Head(q)>> \o Tail(q) = q
<1>1. ASSUME NEW m \in S, NEW b \in Seq(S), NEW q, q = <<m>> \o b
      PROVE  q \in Seq(S) /\ q # <<>> /\ q[1] = m /\ Tail(q) = b
  BY <1>1
<1>2. ASSUME NEW q \in Seq(S), q # <<>> PROVE <<Head(q)>> \o Tail(q) = q
  BY <1>2
<1> QED
  BY <1>1, <1>2

\* A message is taken, and is in hand.
LEMMA InHand ==
  ASSUME NEW w, IsWorld(w), NEW e \in End, NEW s \in TunnelIds(e), NEW m, NEW v, v.call = w.call,
         w.box[e][s] # <<>>, m = Head(w.box[e][s]), v.box[e][s] = Tail(w.box[e][s]),
         \A f \in End : \A x \in TunnelIds(f) : f # e \/ x # s => v.box[f][x] = w.box[f][x],
         NEW t \in TunnelIds("lac"), NEW n \in TunnelIds("lns"), Own(e, s, t, n), Talk(w, e, <<>>, t, n)
  PROVE  Talk(v, e, <<m>>, t, n)
<1>1. w.box[e][s] \in Seq(Message)
  BY WorldFields
<1>2. CASE e = "lac"
  <2>1. v.box["lns"][n] = w.box["lns"][n]
    BY <1>2, EndIs
  <2>2. \A x : Has(v.box["lac"][t], x) \/ Has(<<m>>, x) <=> Has(w.box["lac"][t], x)
    <3> DEFINE q == w.box["lac"][t]
    <3>1. q \in Seq(Message) /\ q # <<>> /\ m = Head(q) /\ v.box["lac"][t] = Tail(q)
      BY <1>1, <1>2 DEF Own
    <3> HIDE DEF q
    <3>2. \A x : Has(Tail(q), x) \/ x = m <=> Has(q, x)
      <4>1. /\ Len(q) \in Nat \ {0} /\ Len(Tail(q)) = Len(q) - 1 /\ Head(q) = q[1]
            /\ \A i \in 1 .. Len(Tail(q)) : Tail(q)[i] = q[i + 1]
        BY <3>1
      <4>2. \A i \in 1 .. Len(q) : i = 1 \/ (i - 1 \in 1 .. Len(Tail(q)) /\ (i - 1) + 1 = i)
        BY <4>1
      <4>3. \A i \in 1 .. Len(Tail(q)) : i + 1 \in 1 .. Len(q)
        BY <4>1
      <4>4. 1 \in 1 .. Len(q)
        BY <4>1
      <4> SUFFICES ASSUME NEW x PROVE Has(Tail(q), x) \/ x = m <=> Has(q, x)
        OBVIOUS
      <4>5. Has(Tail(q), x) => Has(q, x)
        BY <4>1, <4>3 DEF Has
      <4>6. x = m => Has(q, x)
        BY <3>1, <4>1, <4>4 DEF Has
      <4>7. ASSUME NEW i \in 1 .. Len(q), q[i] = x PROVE Has(Tail(q), x) \/ x = m
        <5>1. CASE i = 1
          BY <3>1, <4>1, <4>7, <5>1
        <5>2. CASE i # 1
          <6>1. i - 1 \in 1 .. Len(Tail(q)) /\ (i - 1) + 1 = i
            BY <4>2, <5>2
          <6>2. Tail(q)[i - 1] = x
            BY <4>1, <4>7, <6>1
          <6> QED
            BY <6>1, <6>2 DEF Has
        <5> QED
          BY <5>1, <5>2
      <4> QED
        BY <4>5, <4>6, <4>7 DEF Has
    <3>3. \A x : Has(<<m>>, x) <=> x = m
      BY DEF Has
    <3> QED
      BY <3>1, <3>2, <3>3 DEF q
  <2>3. \A x : ~ Has(<<>>, x)
    BY DEF Has
  <2>4. ToLac(v, "lac", <<m>>, t, n) = ToLac(w, "lac", <<>>, t, n)
    BY <2>2, <2>3 DEF ToLac
  <2>5. ToLns(v, "lac", <<m>>, n) = ToLns(w, "lac", <<>>, n)
    BY <2>1 DEF ToLns
  <2> QED
    BY <1>2, <2>4, <2>5 DEF Talk
<1>3. CASE e = "lns"
  <2>1. v.box["lac"][t] = w.box["lac"][t] /\ s = n
    BY <1>3, EndIs DEF Own
  <2>2. ToLac(v, "lns", <<m>>, t, n) = ToLac(w, "lns", <<>>, t, n)
    BY <2>1 DEF ToLac
  <2>3. ToLns(v, "lns", <<m>>, n) = ToLns(w, "lns", <<>>, n)
    <3> DEFINE q == w.box["lns"][n]
    <3>1. q \in Seq(Message) /\ q # <<>> /\ m = Head(q) /\ v.box["lns"][n] = Tail(q)
      BY <1>1, <1>3, <2>1
    <3> HIDE DEF q
    <3>2. <<m>> \o Tail(q) = q /\ <<>> \o q = q
      BY <3>1, FirstOf
    <3> QED
      BY <3>1, <3>2 DEF q, ToLns
  <2> QED
    BY <1>3, <2>2, <2>3 DEF Talk
<1> QED
  BY <1>2, <1>3, EndIs

\* The LAC is done with a message when no open call has something to learn from it.
LEMMA LacDone ==
  ASSUME NEW w, IsWorld(w), NEW t \in TunnelIds("lac"), NEW n \in TunnelIds("lns"), NEW m \in Message,
         Talk(w, "lac", <<m>>, t, n),
         \A c \in CallIds("lac") : Opens(w.call["lac"][c], t) /\ ~ w.call["lac"][c].needclose /\ m.cid = c =>
           m.kind # "CDN" /\ (m.kind \in Agreeing => w.call["lac"][c].cid = m.id)
  PROVE  Talk(w, "lac", <<>>, t, n)
<1> DEFINE P == ToLac(w, "lac", <<m>>, t, n)
           P2 == ToLac(w, "lac", <<>>, t, n)
           q == ToLns(w, "lac", <<>>, n)
           k == w.call["lac"]
<1>1. \A x : (Has(<<m>>, x) <=> x = m) /\ ~ Has(<<>>, x)
  BY DEF Has
<1>2. P2 \subseteq P /\ P \subseteq P2 \cup {m}
  BY <1>1 DEF ToLac
<1>3. q = ToLns(w, "lac", <<m>>, n)
  BY DEF ToLns
<1>4. TalkOf(k, w.call["lns"], P, q, t, n)
  BY <1>3 DEF Talk
<1>5. \A c \in CallIds("lac") : Opens(k[c], t) /\ ~ k[c].needclose /\ m.cid = c =>
        m.kind # "CDN" /\ (m.kind \in Agreeing => k[c].cid = m.id)
  OBVIOUS
<1> HIDE DEF P, P2, q, k
<1>6. \A c, d : (Agree(P2, c, d) => Agree(P, c, d)) /\ (Refuse(P2, c, d) => Refuse(P, c, d))
  BY <1>2 DEF Agree, Refuse
<1>7. \A c \in CallIds("lac") : \A d : Opens(k[c], t) /\ ~ k[c].needclose =>
        (Agree(P, c, d) => k[c].cid = d \/ Agree(P2, c, d)) /\ (Refuse(P, c, d) => Refuse(P2, c, d))
  BY <1>2, <1>5 DEF Agree, Refuse
<1>8. TalkOf(k, w.call["lns"], P2, q, t, n)
  BY <1>4, <1>6, <1>7, ToLacTalk
<1> QED
  BY <1>8 DEF Talk, P2, q, k

\* The LNS is done with a message that is no request, and a CDN only for a call that is not open.
LEMMA LnsDone ==
  ASSUME NEW w, IsWorld(w), NEW t \in TunnelIds("lac"), NEW n \in TunnelIds("lns"), NEW m \in Message,
         Talk(w, "lns", <<m>>, t, n), m.kind \notin Asking,
         \A d \in CallIds("lns") : Opens(w.call["lns"][d], n) /\ m.kind = "CDN" /\ m.cid \in {0, d} =>
           w.call["lns"][d].cid # m.id
  PROVE  Talk(w, "lns", <<>>, t, n)
<1> DEFINE P == ToLac(w, "lns", <<>>, t, n)
           b == w.box["lns"][n]
           q == <<m>> \o b
           l == w.call["lns"]
<1>1. b \in Seq(Message)
  BY EndIs, WorldFields
<1>2. q \in Seq(Message) /\ q # <<>> /\ q[1] = m /\ Tail(q) = b
  <2> HIDE DEF b
  <2> QED
    BY <1>1, FirstOf
<1>3. TalkOf(w.call["lac"], l, P, q, t, n)
  <2>1. P = ToLac(w, "lns", <<m>>, t, n) /\ ToLns(w, "lns", <<m>>, n) = q
    BY DEF ToLac, ToLns
  <2> QED
    BY <2>1 DEF Talk
<1>4. \A d \in CallIds("lns") : Opens(l[d], n) /\ m.kind = "CDN" /\ m.cid \in {0, d} => l[d].cid # m.id
  OBVIOUS
<1>5. ToLns(w, "lns", <<>>, n) = b
  BY <1>1 DEF ToLns
<1> HIDE DEF P, b, q, l
<1>6. \A c : ~ Asks(q, 1, c)
  BY <1>2 DEF Asks
<1>7. \A d \in CallIds("lns") : Opens(l[d], n) => ~ Tells(q, 1, l[d].cid, 0) /\ ~ Tells(q, 1, l[d].cid, d)
  BY <1>2, <1>4 DEF Tells
<1>8. TalkOf(w.call["lac"], l, P, b, t, n)
  BY <1>2, <1>3, <1>6, <1>7, TailTalk
<1> QED
  BY <1>5, <1>8 DEF Talk, P, l

-----------------------------------------------------------------------------
(* The talk after a handler.                                                *)

\* No call has the id 0.
LEMMA NoCallZero == CountAssumption => \A e \in End : 0 \notin CallIds(e)
<1> SUFFICES ASSUME CountAssumption, NEW e \in End PROVE 0 \notin CallIds(e)
  OBVIOUS
<1>1. Calls[e] \in Nat
  BY DEF CountAssumption
<1> QED
  BY <1>1 DEF CallIds

\* The marks of a call say nothing to the other end, but for one that ends.
LEMMA MarksFollow ==
  ASSUME NEW k \in Call, NEW t
  PROVE  /\ Follows(MarkOf(k), k, t) /\ MarkOf(k).needclose
         /\ EndOf(k).closing /\ EndOf(k).state = k.state /\ EndOf(k).tun = k.tun /\ EndOf(k).cid = k.cid
         /\ \A h : Follows([k EXCEPT !.pppd = h], k, t)
<1>1. /\ MarkOf(k).state = k.state /\ MarkOf(k).tun = k.tun /\ MarkOf(k).cid = k.cid
      /\ MarkOf(k).closing = k.closing /\ MarkOf(k).needclose
  BY DEF MarkOf, Call
<1>2. EndOf(k).closing /\ EndOf(k).state = k.state /\ EndOf(k).tun = k.tun /\ EndOf(k).cid = k.cid
  BY DEF EndOf, Call
<1>3. ASSUME NEW h, NEW x, x = [k EXCEPT !.pppd = h] PROVE Follows(x, k, t)
  <2>1. /\ x.state = k.state /\ x.tun = k.tun /\ x.cid = k.cid
        /\ x.closing = k.closing /\ x.needclose = k.needclose
    BY <1>3 DEF Call
  <2> QED
    BY <2>1 DEF Follows, Opens, Lives, Live
<1> QED
  BY <1>1, <1>2, <1>3 DEF Follows, Opens, Lives, Live

\* One call changes and goes on.
LEMMA OneFollows ==
  ASSUME NEW w, NEW v, NEW e \in End, NEW t, NEW c \in CallIds(e), NEW k, OnlyCall(v, w, e, c, k),
         Follows(k, w.call[e][c], t)
  PROVE  \A d \in CallIds(e) : Follows(v.call[e][d], w.call[e][d], t)
<1> SUFFICES ASSUME NEW d \in CallIds(e) PROVE Follows(v.call[e][d], w.call[e][d], t)
  OBVIOUS
<1>1. CASE d = c
  BY <1>1 DEF OnlyCall
<1>2. CASE d # c
  BY <1>2 DEF OnlyCall, Follows
<1> QED
  BY <1>1, <1>2

\* Such a change of a call lets the talk go on.
LEMMA OneTalks ==
  ASSUME NEW w, NEW v, NEW e \in End, NEW s \in TunnelIds(e), Within(v, w, e, s), NEW h,
         NEW c \in CallIds(e), NEW k, OnlyCall(v, w, e, c, k), Follows(k, w.call[e][c], s)
  PROVE  Talks(v, w, e, s, h)
<1>1. \A d \in CallIds(e) : Follows(v.call[e][d], w.call[e][d], s)
  BY OneFollows
<1>2. v.box = w.box /\ v.tun = w.tun
  BY DEF OnlyCall
<1>3. Goes(v.tun[e][s], w.tun[e][s])
  BY <1>2 DEF Goes
<1> QED
  BY <1>1, <1>2, <1>3, CallsTalk

\* What the attributes give lets the talk go on when it is no id.
LEMMA TakenTalks ==
  ASSUME NEW w, IsWorld(w), NEW e \in End, NEW t \in TunnelIds(e), NEW c, CallIn(w, e, t, c), NEW m, NEW kept, NEW close,
         NEW new, kept = {} \/ m.kind \notin {"SCCRP", "SCCRQ", "ICRQ", "ICRP", "OCRP"},
         NEW x, Within(x, w, e, t), LikeTuns(x, w), TakenIs(x, w, e, t, c, m, kept, close, new), NEW h
  PROVE  /\ Talks(x, w, e, t, h)
         /\ close => IF c = 0 THEN x.tun[e][t].needclose ELSE x.call[e][c].needclose
         /\ ~ close => \A f \in End : \A d \in CallIds(f) : x.call[f][d] = w.call[f][d]
<1>1. PICK y, v : /\ MadeIs(y, w, e, t, m, kept, new)
                  /\ Within(v, y, e, t) /\ StoredIs(v, y, e, t, c, m, kept, new)
                  /\ Within(x, v, e, t) /\ IF close THEN MarkedIs(x, v, e, t, c) ELSE x = v
  BY DEF TakenIs
<1>2. y = w
  BY <1>1 DEF MadeIs
<1>3. /\ v.box = w.box /\ v.tun[e][t].tid = w.tun[e][t].tid
      /\ v.tun[e][t].needclose = w.tun[e][t].needclose /\ v.tun[e][t].closing = w.tun[e][t].closing
      /\ v.tun[e][t].stuck = w.tun[e][t].stuck
      /\ \A f \in End : \A d \in CallIds(f) : v.call[f][d] = w.call[f][d]
  BY <1>1, <1>2 DEF StoredIs, Opening
<1>4. x.tun[e][t].state = w.tun[e][t].state
  BY DEF LikeTuns
<1>5. CASE ~ close
  <2>1. x = v
    BY <1>1, <1>5
  <2>2. Goes(x.tun[e][t], w.tun[e][t])
    BY <1>3, <1>4, <2>1 DEF Goes, Live, Doomed
  <2>3. \A d \in CallIds(e) : Follows(x.call[e][d], w.call[e][d], t)
    BY <1>3, <2>1 DEF Follows
  <2> QED
    BY <1>3, <1>5, <2>1, <2>2, <2>3, CallsTalk
<1>6. CASE close /\ c = 0
  <2>1. x.tun[e][t].needclose
    BY <1>1, <1>6 DEF MarkedIs
  <2> QED
    BY <1>6, <2>1, DoomedTalks DEF Doomed
<1>7. CASE close /\ c # 0
  <2> DEFINE k == w.call[e][c]
  <2>1. c \in CallIds(e) /\ k \in Call
    BY <1>7, WorldFields DEF CallIn
  <2>2. OnlyCall(x, v, e, c, MarkOf(k))
    BY <1>1, <1>3, <1>7, <2>1 DEF MarkedIs
  <2>3. Goes(x.tun[e][t], w.tun[e][t]) /\ x.box = w.box
    BY <1>3, <1>4, <2>2 DEF Goes, Live, Doomed, OnlyCall
  <2>4. Follows(MarkOf(k), v.call[e][c], t) /\ MarkOf(k).needclose
    BY <1>3, <2>1, MarksFollow
  <2>5. \A d \in CallIds(e) : Follows(x.call[e][d], w.call[e][d], t)
    <3> DEFINE z == MarkOf(k)
    <3>1. e \in End /\ c \in CallIds(e) /\ OnlyCall(x, v, e, c, z) /\ Follows(z, v.call[e][c], t)
      BY <2>1, <2>2, <2>4
    <3> HIDE DEF z
    <3>2. \A d \in CallIds(e) : Follows(x.call[e][d], v.call[e][d], t)
      BY ONLY <3>1, OneFollows
    <3> QED
      BY <1>3, <3>2
  <2>6. x.call[e][c].needclose
    BY <2>2, <2>4 DEF OnlyCall
  <2> QED
    BY <1>7, <2>3, <2>5, <2>6, CallsTalk
<1> QED
  BY <1>5, <1>6, <1>7

\* A message in hand is done with, and the tunnel goes on.
Spoken(v, w, e, s, m) ==
  /\ Goes(v.tun[e][s], w.tun[e][s])
  /\ \A t \in TunnelIds("lac") : \A n \in TunnelIds("lns") :
       Own(e, s, t, n) /\ Sound(v, t, n) /\ Talk(w, e, <<m>>, t, n) => Talk(v, e, <<>>, t, n)

\* Nothing more is to be learnt from it.
Done(v, e, s, m) ==
  /\ e = "lac" =>
       \A c \in CallIds("lac") : Opens(v.call["lac"][c], s) /\ ~ v.call["lac"][c].needclose /\ m.cid = c =>
         m.kind # "CDN" /\ (m.kind \in Agreeing => v.call["lac"][c].cid = m.id)
  /\ e = "lns" =>
       /\ m.kind \notin Asking
       /\ \A d \in CallIds("lns") : Opens(v.call["lns"][d], s) /\ m.kind = "CDN" /\ m.cid \in {0, d} =>
            v.call["lns"][d].cid # m.id

\* So it is when nothing was to be done.
LEMMA DoneTalk ==
  ASSUME NEW v, IsWorld(v), NEW e \in End, NEW s, NEW m \in Message, Done(v, e, s, m),
         NEW t \in TunnelIds("lac"), NEW n \in TunnelIds("lns"), Own(e, s, t, n), Talk(v, e, <<m>>, t, n)
  PROVE  Talk(v, e, <<>>, t, n)
<1>1. CASE e = "lac"
  <2>1. s = t /\ Talk(v, "lac", <<m>>, t, n)
    BY <1>1 DEF Own
  <2>2. \A c \in CallIds("lac") : Opens(v.call["lac"][c], t) /\ ~ v.call["lac"][c].needclose /\ m.cid = c =>
          m.kind # "CDN" /\ (m.kind \in Agreeing => v.call["lac"][c].cid = m.id)
    BY <1>1, <2>1 DEF Done
  <2> QED
    BY <1>1, <2>1, <2>2, LacDone
<1>2. CASE e = "lns"
  <2>1. s = n /\ Talk(v, "lns", <<m>>, t, n)
    BY <1>2, EndIs DEF Own
  <2>2. /\ m.kind \notin Asking
        /\ \A d \in CallIds("lns") : Opens(v.call["lns"][d], n) /\ m.kind = "CDN" /\ m.cid \in {0, d} =>
             v.call["lns"][d].cid # m.id
    BY <1>2, <2>1 DEF Done
  <2> QED
    BY <1>2, <2>1, <2>2, LnsDone
<1> QED
  BY <1>1, <1>2, EndIs

\* A handler that lets the talk go on until nothing more is to be learnt.
LEMMA TalksDone ==
  ASSUME NEW w, NEW v, IsWorld(v), NEW e \in End, NEW s \in TunnelIds(e), NEW m \in Message,
         Talks(v, w, e, s, <<m>>), Done(v, e, s, m)
  PROVE  Spoken(v, w, e, s, m)
<1>1. ASSUME NEW t \in TunnelIds("lac"), NEW n \in TunnelIds("lns"), Own(e, s, t, n), Sound(v, t, n), Talk(w, e, <<m>>, t, n)
      PROVE  Talk(v, e, <<>>, t, n)
  <2>1. Talk(v, e, <<m>>, t, n)
    BY <1>1 DEF Talks
  <2> QED
    BY <1>1, <2>1, DoneTalk
<1> QED
  BY <1>1 DEF Spoken, Talks

\* A tunnel that is lost or closes.
LEMMA DoomedSpoken ==
  ASSUME NEW w, NEW v, NEW e \in End, NEW s, NEW m, Doomed(v.tun[e][s]) \/ ~ Live(v.tun[e][s])
  PROVE  Spoken(v, w, e, s, m)
<1>1. \A t \in TunnelIds("lac") : \A n \in TunnelIds("lns") : Own(e, s, t, n) => ~ Sound(v, t, n)
  BY EndIs DEF Own, Sound
<1> QED
  BY <1>1 DEF Spoken, Goes

\* Messages that say nothing of calls are done with.
LEMMA PlainDone ==
  ASSUME NEW v, NEW e, NEW s, NEW m, m.kind \notin Asking \cup Agreeing \cup {"CDN"}
  PROVE  Done(v, e, s, m)
BY DEF Done

\* The message m is in the hands of tunnel t of e, for call c.
InHands(w, e, t, c, m) ==
  /\ Good(w) /\ Live(w.tun[e][t]) /\ m \in Message /\ CallIn(w, e, t, c) /\ m.cid = c
  /\ MsgInv(w, e, t, m) /\ w.tun[e][t].heard = m.from

\* A message that may not come is refused, and the call or the tunnel is to close.
LEMMA RefusedSpoken ==
  ASSUME CountAssumption, NEW w, NEW e \in End, NEW t \in TunnelIds(e), NEW c, NEW m, InHands(w, e, t, c, m),
         ~ SaneFor(w, e, t, c, m), NEW new, NEW kept, kept = {}, NEW close, close,
         NEW x, IsWorld(x), Within(x, w, e, t), LikeTuns(x, w), TakenIs(x, w, e, t, c, m, kept, close, new)
  PROVE  Spoken(x, w, e, t, m)
<1> DEFINE h == <<m>>
<1>1. IsWorld(w) /\ CallIn(w, e, t, c)
  BY DEF InHands, Good
<1> HIDE DEF h
<1>3. /\ Talks(x, w, e, t, h)
      /\ close => IF c = 0 THEN x.tun[e][t].needclose ELSE x.call[e][c].needclose
  BY <1>1, TakenTalks
<1>4. CASE c = 0
  <2>1. Doomed(x.tun[e][t])
    BY <1>3, <1>4 DEF Doomed
  <2> QED
    BY <2>1, DoomedSpoken
<1>5. CASE c # 0
  <2>1. x.call[e][c].needclose /\ m.cid = c
    BY <1>3, <1>5 DEF InHands
  <2>2. e = "lns" => m.kind \notin Asking
    BY <1>5, <2>1 DEF InHands, MsgInv, LnsMsgInv, Asking
  <2>3. m.kind # "CDN"
    BY <1>5 DEF SaneFor, Sane
  <2>4. Done(x, e, t, m)
    BY <2>1, <2>2, <2>3 DEF Done
  <2>5. m \in Message
    BY DEF InHands
  <2> QED
    BY <1>3, <2>4, <2>5, TalksDone DEF h
<1> QED
  BY <1>4, <1>5

\* What a handler has taken of a message that may come.
Took(x, w, e, t, c, m, kept, new) ==
  /\ Good(x) /\ Within(x, w, e, t) /\ LikeTuns(x, w)
  /\ \E close : ~ close /\ TakenIs(x, w, e, t, c, m, kept, close, new)

\* It lets the talk go on when the message gives no id.
GivesNoId(m) == m.kind \notin {"SCCRP", "SCCRQ", "ICRQ", "ICRP", "OCRP"}
TookOnly(x, w, e, t, c, h) ==
  /\ Talks(x, w, e, t, h) /\ \A f \in End : \A d \in CallIds(f) : x.call[f][d] = w.call[f][d]
  /\ x.tun[e][t].state = w.tun[e][t].state /\ IsWorld(x) /\ CallIn(x, e, t, c)

\* The calls are as they were.
LEMMA TookTalks ==
  ASSUME NEW w, NEW e \in End, NEW t \in TunnelIds(e), NEW c, NEW m, InHands(w, e, t, c, m), NEW kept, NEW new,
         GivesNoId(m), NEW x, Took(x, w, e, t, c, m, kept, new), NEW h
  PROVE  TookOnly(x, w, e, t, c, h)
<1>1. PICK close : ~ close /\ TakenIs(x, w, e, t, c, m, kept, close, new)
  BY DEF Took
<1>2. IsWorld(w) /\ CallIn(w, e, t, c) /\ Within(x, w, e, t) /\ LikeTuns(x, w) /\ IsWorld(x)
  BY DEF InHands, Good, Took
<1>3. Talks(x, w, e, t, h) /\ \A f \in End : \A d \in CallIds(f) : x.call[f][d] = w.call[f][d]
  <2>1. m.kind \notin {"SCCRP", "SCCRQ", "ICRQ", "ICRP", "OCRP"}
    BY DEF GivesNoId
  <2> QED
    BY <1>1, <1>2, <2>1, TakenTalks
<1> QED
  BY <1>2, <1>3 DEF LikeTuns, CallIn, TookOnly
\* SCCCN, StopCCN and OCCN say nothing of the ids of calls.
LEMMA EasySpoken ==
  ASSUME NEW w, NEW e \in End, NEW t \in TunnelIds(e), NEW c, NEW m, InHands(w, e, t, c, m),
         SaneFor(w, e, t, c, m), m.kind \in {"SCCCN", "StopCCN", "OCCN"}, NEW kept, m.kind = "StopCCN" => "result code" \in kept,
         NEW new, NEW x, Took(x, w, e, t, c, m, kept, new), NEW dials,
         NEW v, Good(v), Within(v, x, e, t), Does(v, x, e, t, c, m, kept, dials, new)
  PROVE  Spoken(v, w, e, t, m)
<1> DEFINE h == <<m>>
<1> HIDE DEF h
<1>1. /\ Talks(x, w, e, t, h) /\ \A f \in End : \A d \in CallIds(f) : x.call[f][d] = w.call[f][d]
      /\ x.tun[e][t].state = w.tun[e][t].state /\ IsWorld(x) /\ CallIn(x, e, t, c)
  <2>1. GivesNoId(m)
    BY DEF GivesNoId
  <2>2. TookOnly(x, w, e, t, c, h)
    BY <2>1, TookTalks
  <2> QED
    BY <2>2 DEF TookOnly
<1>2. Done(v, e, t, m)
  BY PlainDone DEF Asking, Agreeing
<1>3. IsWorld(v) /\ m \in Message
  BY DEF Good, InHands
<1>4. ASSUME Talks(v, x, e, t, h) PROVE Spoken(v, w, e, t, m)
  <2>1. Talks(v, w, e, t, h)
    BY <1>1, <1>4, TalksAgain
  <2> QED
    BY <1>2, <1>3, <2>1, TalksDone DEF h
<1>5. CASE m.kind = "StopCCN"
  <2>1. v = x \/ v.tun[e][t].closing
    BY <1>5 DEF Does
  <2>2. CASE v = x
    BY <1>1, <1>2, <1>3, <2>2, TalksDone DEF h
  <2>3. CASE v.tun[e][t].closing
    BY <2>3, DoomedSpoken DEF Doomed
  <2> QED
    BY <2>1, <2>2, <2>3
<1>6. CASE m.kind = "SCCCN"
  <2>1. e = "lns" /\ (v.tun["lns"][t].needclose \/ SameTalk(v, x, "lns", t))
    BY <1>6 DEF Does
  <2>2. CASE v.tun[e][t].needclose
    BY <2>2, DoomedSpoken DEF Doomed
  <2>3. CASE SameTalk(v, x, e, t)
    <3>1. x.tun[e][t].state = "SCCRP"
      BY <1>1, <1>6 DEF SaneFor, Sane
    <3>2. Goes(v.tun[e][t], x.tun[e][t])
      BY <2>3, <3>1 DEF Goes, SameTalk, Stands, Live, Doomed
    <3>3. \A d \in CallIds(e) : Follows(v.call[e][d], x.call[e][d], t)
      BY <2>3 DEF SameTalk, Follows
    <3>4. v.box = x.box
      BY <2>3 DEF SameTalk
    <3> QED
      BY <1>4, <3>2, <3>3, <3>4, CallsTalk
  <2> QED
    BY <2>1, <2>2, <2>3
<1>7. CASE m.kind = "OCCN"
  <2>1. e = "lac" /\ PppdIs(v, x, "lac", c) /\ c # 0
    BY <1>7 DEF Does, SaneFor, Sane
  <2>2. c \in CallIds(e) /\ x.call[e][c] \in Call
    BY <1>1, <2>1, WorldFields DEF CallIn
  <2>3. PICK p : OnlyCall(v, x, e, c, [x.call[e][c] EXCEPT !.pppd = p])
    BY <2>1 DEF PppdIs
  <2>4. Follows([x.call[e][c] EXCEPT !.pppd = p], x.call[e][c], t)
    BY <2>2, MarksFollow
  <2>5. Talks(v, x, e, t, h)
    BY <2>2, <2>3, <2>4, OneTalks
  <2> QED
    BY <1>4, <2>5
<1> QED
  BY <1>5, <1>6, <1>7

\* ICCN: the call of the LNS is connected or closes.
LEMMA StartSpoken ==
  ASSUME CountAssumption, NEW w, NEW e \in End, NEW t \in TunnelIds(e), NEW c, NEW m, InHands(w, e, t, c, m),
         SaneFor(w, e, t, c, m), m.kind = "ICCN", NEW kept, NEW new, NEW x, Took(x, w, e, t, c, m, kept, new), NEW dials,
         NEW v, Good(v), Within(v, x, e, t), Does(v, x, e, t, c, m, kept, dials, new)
  PROVE  Spoken(v, w, e, t, m)
<1> DEFINE h == <<m>>
<1>1. h \in Seq(Message)
  BY DEF InHands
<1> HIDE DEF h
<1>2. /\ Talks(x, w, e, t, h) /\ \A f \in End : \A d \in CallIds(f) : x.call[f][d] = w.call[f][d]
      /\ IsWorld(x) /\ CallIn(x, e, t, c)
  <2>1. GivesNoId(m)
    BY DEF GivesNoId
  <2>2. TookOnly(x, w, e, t, c, h)
    BY <2>1, TookTalks
  <2> QED
    BY <2>2 DEF TookOnly
<1>3. e = "lns" /\ c # 0 /\ w.call[e][c].state = "ICRP" /\ Starts(v, x, t, c)
  BY DEF Does, SaneFor, Sane
<1> DEFINE k == x.call[e][c]
           k2 == [k EXCEPT !.state = "ICCN"]
<1>4. c \in CallIds(e) /\ Live(k) /\ k.tun = t /\ k \in Call /\ k.state = "ICRP"
  BY <1>2, <1>3, WorldFields DEF CallIn
<1>5. k2.state = "ICCN" /\ k2.tun = t /\ k2.cid = k.cid /\ k2.closing = k.closing /\ k2.needclose = k.needclose
  BY <1>4 DEF Call
<1>6. PICK y : /\ Good(y) /\ OnlyCall(y, x, e, c, k2) /\ Within(y, x, e, t) /\ Within(v, y, e, t)
               /\ Closed(v, y, e, c) \/ PppdIs(v, y, e, c)
  BY <1>3 DEF Starts
<1> HIDE DEF k, k2
<1>7. Follows(k2, x.call[e][c], t)
  BY <1>4, <1>5 DEF k, Follows, Opens, Lives, Live
<1>8. Talks(y, x, e, t, h)
  BY <1>4, <1>6, <1>7, OneTalks
<1>9. IsWorld(y) /\ y.call[e][c] = k2 /\ Lives(y.call[e][c], t)
  BY <1>5, <1>6 DEF Good, OnlyCall, Lives, Live
<1>10. Talks(v, y, e, t, h)
  <2>1. CASE Closed(v, y, e, c)
    BY <1>1, <1>4, <1>6, <1>9, <2>1, HangsTalks
  <2>2. CASE PppdIs(v, y, e, c)
    <3>1. y.call[e][c] \in Call
      BY <1>4, <1>9, WorldFields
    <3>2. PICK p : OnlyCall(v, y, e, c, [y.call[e][c] EXCEPT !.pppd = p])
      BY <2>2 DEF PppdIs
    <3>3. Follows([y.call[e][c] EXCEPT !.pppd = p], y.call[e][c], t)
      BY <3>1, MarksFollow
    <3> QED
      BY <1>4, <1>6, <3>2, <3>3, OneTalks
  <2> QED
    BY <1>6, <2>1, <2>2
<1>11. Talks(v, w, e, t, h)
  <2>1. Talks(y, w, e, t, h)
    BY <1>2, <1>8, TalksAgain
  <2> QED
    BY <1>10, <2>1, TalksAgain
<1>12. Done(v, e, t, m)
  BY PlainDone DEF Asking, Agreeing
<1> QED
  BY <1>11, <1>12, TalksDone DEF h, Good, InHands

\* A message in the hands of the LAC comes from its peer.
LEMMA FromPeer ==
  ASSUME NEW w, NEW t \in TunnelIds("lac"), NEW c, NEW m, InHands(w, "lac", t, c, m),
         NEW n \in TunnelIds("lns"), w.tun["lac"][t].tid = n
  PROVE  m \in ToLac(w, "lac", <<m>>, t, n)
<1>1. n # 0
  BY EndIs, IdsArePositive
<1>2. w.tun["lac"][t].heard = n
  <2>1. LacTunInv(w, t, w.tun["lac"][t])
    BY EndIs DEF InHands, Good, TunInv
  <2> QED
    BY <1>1, <2>1 DEF LacTunInv
<1>3. m \in Message /\ m.from = n
  BY <1>2 DEF InHands
<1>4. Has(<<m>>, m)
  BY DEF Has
<1> QED
  BY <1>3, <1>4 DEF ToLac

\* CDN: a call of the LAC ends.
LEMMA LacEndsSpoken ==
  ASSUME CountAssumption, NEW w, NEW t \in TunnelIds("lac"), NEW c \in CallIds("lac"), NEW m, InHands(w, "lac", t, c, m),
         m.kind = "CDN", NEW n \in TunnelIds("lns"), w.tun["lac"][t].tid = n, Talk(w, "lac", <<m>>, t, n),
         NEW v, IsWorld(v), OnlyCall(v, w, "lac", c, EndOf(w.call["lac"][c]))
  PROVE  Talk(v, "lac", <<>>, t, n)
<1> DEFINE P == ToLac(w, "lac", <<m>>, t, n)
           q == ToLns(w, "lac", <<m>>, n)
           k == w.call["lac"]
           k2 == v.call["lac"]
           id == m.id
<1>1. Refuse(P, c, id)
  <2>1. m \in P /\ m.cid = c
    BY FromPeer DEF InHands
  <2> HIDE DEF P
  <2> QED
    BY <2>1 DEF Refuse
<1>2. k2[c].closing /\ k2[c].state = k[c].state /\ k2[c].tun = k[c].tun /\ k2[c].cid = k[c].cid
  <2>1. w.call["lac"][c] \in Call
    BY EndIs, WorldFields DEF InHands, Good
  <2> QED
    BY <2>1, EndIs, MarksFollow DEF OnlyCall, InHands, CallIn
<1>3. Live(k[c]) /\ k[c].tun = t
  <2>1. c # 0
    BY EndIs DEF CallIds, CountAssumption
  <2> QED
    BY <2>1 DEF InHands, CallIn
<1>4. TalkOf(k, w.call["lns"], P, q, t, n)
  BY DEF Talk
<1>5. ToLac(v, "lac", <<m>>, t, n) = P /\ ToLns(v, "lac", <<m>>, n) = q
  BY DEF ToLac, ToLns, OnlyCall
<1>6. \A d \in CallIds("lns") : v.call["lns"][d] = w.call["lns"][d]
  BY EndIs DEF OnlyCall
<1>7. \A x \in CallIds("lac") \ {c} : k2[x] = k[x]
  BY EndIs DEF OnlyCall
<1> HIDE DEF P, q, k, k2, id
<1>8. (Lives(k2[c], t) => Lives(k[c], t) /\ k2[c].cid = k[c].cid) /\ ~ Opens(k2[c], t) /\ k2[c].state # "off"
  BY <1>2, <1>3 DEF Lives, Opens, Live
<1>9. TalkOf(k2, w.call["lns"], P, q, t, n)
  BY <1>1, <1>4, <1>7, <1>8, LacEndsTalk
<1>10. TalkOf(k2, v.call["lns"], P, q, t, n)
  BY <1>6, <1>9, EachTalk
<1>11. Talk(v, "lac", <<m>>, t, n)
  BY <1>5, <1>10 DEF Talk, k2
<1>12. Done(v, "lac", t, m)
  BY <1>8 DEF Done, InHands, k2
<1>13. Own("lac", t, t, n) /\ m \in Message
  BY DEF Own, InHands
<1> QED
  BY <1>11, <1>12, <1>13, EndIs, DoneTalk

\* CDN: a call of the LNS ends.
LEMMA LnsEndsSpoken ==
  ASSUME CountAssumption, NEW w, NEW n \in TunnelIds("lns"), NEW c \in CallIds("lns"), NEW m, InHands(w, "lns", n, c, m),
         m.kind = "CDN", w.call["lns"][c].cid \in {0, m.id}, NEW t \in TunnelIds("lac"), Talk(w, "lns", <<m>>, t, n),
         NEW v, IsWorld(v), OnlyCall(v, w, "lns", c, EndOf(w.call["lns"][c]))
  PROVE  Talk(v, "lns", <<>>, t, n)
<1> DEFINE P == ToLac(w, "lns", <<m>>, t, n)
           q == ToLns(w, "lns", <<m>>, n)
           l == w.call["lns"]
           l2 == v.call["lns"]
           id == m.id
<1>1. Tells(q, 1, id, c)
  <2> DEFINE b == w.box["lns"][n]
  <2>1. b \in Seq(Message) /\ m \in Message /\ m.cid = c
    BY EndIs, WorldFields DEF InHands, Good
  <2>2. q = <<m>> \o b
    BY DEF ToLns
  <2> HIDE DEF b, q
  <2>3. q \in Seq(Message) /\ q # <<>> /\ q[1] = m
    BY <2>1, <2>2, FirstOf
  <2>4. 1 \in 1 .. Len(q)
    BY <2>3
  <2> QED
    BY <2>1, <2>3, <2>4 DEF Tells
<1>2. c # 0 /\ 0 \notin CallIds("lac")
  BY EndIs DEF CallIds, CountAssumption
<1>3. /\ l2[c].closing /\ l2[c].state = l[c].state /\ l2[c].tun = l[c].tun /\ l2[c].cid = l[c].cid
      /\ Live(l[c]) /\ l[c].tun = n /\ l[c].cid \in {0, id}
  <2>1. w.call["lns"][c] \in Call
    BY EndIs, WorldFields DEF InHands, Good
  <2> QED
    BY <1>2, <2>1, EndIs, MarksFollow DEF OnlyCall, InHands, CallIn
<1>4. TalkOf(w.call["lac"], l, P, q, t, n)
  BY DEF Talk
<1>5. ToLac(v, "lns", <<m>>, t, n) = P /\ ToLns(v, "lns", <<m>>, n) = q
  BY DEF ToLac, ToLns, OnlyCall
<1>6. \A d \in CallIds("lac") : v.call["lac"][d] = w.call["lac"][d]
  BY EndIs DEF OnlyCall
<1>7. \A x \in CallIds("lns") \ {c} : l2[x] = l[x]
  BY EndIs DEF OnlyCall
<1> HIDE DEF P, q, l, l2, id
<1>8. (Lives(l2[c], n) => Lives(l[c], n) /\ l2[c].cid = l[c].cid) /\ ~ Opens(l2[c], n) /\ l2[c].state # "off"
  BY <1>3 DEF Lives, Opens, Live
<1>9. TalkOf(w.call["lac"], l2, P, q, t, n)
  BY <1>1, <1>2, <1>3, <1>4, <1>7, <1>8, LnsEndsTalk
<1>10. TalkOf(v.call["lac"], l2, P, q, t, n)
  BY <1>6, <1>9, EachTalk
<1>11. Talk(v, "lns", <<m>>, t, n)
  BY <1>5, <1>10 DEF Talk, l2
<1>12. Done(v, "lns", n, m)
  BY <1>2, <1>8 DEF Done, InHands, Asking, l2
<1>13. Own("lns", n, t, n) /\ m \in Message
  BY EndIs DEF Own, InHands
<1> QED
  BY <1>11, <1>12, <1>13, EndIs, DoneTalk

\* The message is still in hand when its attributes are read.
LEMMA StillInHands ==
  ASSUME NEW w, NEW e \in End, NEW t \in TunnelIds(e), NEW c, NEW m, InHands(w, e, t, c, m),
         NEW x, Good(x), Within(x, w, e, t), LikeTuns(x, w), CallIn(x, e, t, c)
  PROVE  InHands(x, e, t, c, m)
<1> DEFINE p == Peer(e)
<1>1. p \in End /\ p # e /\ m.from \in TunnelIds(p) /\ (Knows(w, p, m.from, t) \/ (e = "lns" /\ Odd))
  BY EndIs DEF InHands, MsgInv
<1>2. Knows(w, p, m.from, t) => Knows(x, p, m.from, t)
  <2>1. Kin(x.tun[p][m.from], w.tun[p][m.from])
    BY <1>1 DEF Within
  <2> QED
    BY <1>1, <2>1 DEF Knows, Kin, SameTun
<1>3. /\ \A s \in TunnelIds("lac") : Past(x, s) <=> Past(w, s)
      /\ \A f \in End : \A s \in TunnelIds(f) : Up(x, f, s) <=> Up(w, f, s)
  BY EndIs DEF LikeTuns, Past, Up
<1>4. e = "lac" => (LacMsgInv(w, t, m) => LacMsgInv(x, t, m))
  BY <1>3, EndIs DEF LacMsgInv
<1>5. e = "lns" => (LnsMsgInv(w, m) => LnsMsgInv(x, m))
  BY <1>1, <1>3, EndIs DEF LnsMsgInv
<1>6. x.tun[e][t].heard = w.tun[e][t].heard /\ Live(x.tun[e][t])
  BY DEF LikeTuns, InHands, Live
<1>7. MsgInv(x, e, t, m)
  BY <1>1, <1>2, <1>4, <1>5, <1>6 DEF MsgInv, InHands
<1> QED
  BY <1>6, <1>7 DEF InHands

\* CDN: it names a call that it ends, or there is none.
LEMMA HangSpoken ==
  ASSUME CountAssumption, NEW w, NEW e \in End, NEW t \in TunnelIds(e), NEW c, NEW m, InHands(w, e, t, c, m),
         m.kind = "CDN", NEW kept, "assigned call" \in kept, "result code" \in kept,
         NEW new, NEW x, Took(x, w, e, t, c, m, kept, new),
         NEW v, Good(v), Within(v, x, e, t), HungUp(v, x, e, t, c, m, kept)
  PROVE  Spoken(v, w, e, t, m)
<1> DEFINE h == <<m>>
<1>0. h = <<m>>
  OBVIOUS
<1> HIDE DEF h
<1>1. /\ Talks(x, w, e, t, h) /\ \A f \in End : \A d \in CallIds(f) : x.call[f][d] = w.call[f][d]
      /\ IsWorld(x) /\ CallIn(x, e, t, c)
  <2>1. GivesNoId(m)
    BY DEF GivesNoId
  <2>2. TookOnly(x, w, e, t, c, h)
    BY <2>1, TookTalks
  <2> QED
    BY <2>2 DEF TookOnly
<1>2. IsWorld(v) /\ m \in Message /\ m.cid = c
  BY DEF Good, InHands
<1>3. InHands(x, e, t, c, m)
  BY <1>1, StillInHands DEF Took
<1>4. 0 \notin CallIds("lac") /\ 0 \notin CallIds("lns")
  BY NoCallZero, EndIs
<1>5. CASE v.tun[e][t].closing
  BY <1>5, DoomedSpoken DEF Doomed
<1>6. ASSUME v.tun = x.tun,
             \A y \in TunnelIds("lac") : \A n \in TunnelIds("lns") :
               Own(e, t, y, n) /\ Sound(x, y, n) /\ Talk(x, e, <<m>>, y, n) => Talk(v, e, <<>>, y, n)
      PROVE  Spoken(v, w, e, t, m)
  <2>1. Goes(v.tun[e][t], w.tun[e][t])
    BY <1>1, <1>6 DEF Talks
  <2>2. ASSUME NEW y \in TunnelIds("lac"), NEW n \in TunnelIds("lns"), Own(e, t, y, n), Sound(v, y, n), Talk(w, e, <<m>>, y, n)
        PROVE  Talk(v, e, <<>>, y, n)
    <3>1. Sound(x, y, n)
      BY <1>6, <2>2 DEF Sound
    <3>2. Talk(x, e, <<m>>, y, n)
      BY <1>0, <1>1, <2>2, <3>1 DEF Talks
    <3> QED
      BY <1>6, <2>2, <3>1, <3>2
  <2> QED
    BY <2>1, <2>2 DEF Spoken
<1>7. CASE /\ v = x
           /\ c # 0 => x.call[e][c].cid \notin {0, m.id}
           /\ c = 0 => \A d \in CallsOf(x, e, t) : x.call[e][d].cid # m.id
  <2>1. CASE e = "lns"
    <3>1. Done(x, e, t, m)
      <4>1. m.kind \notin Asking
        BY DEF Asking
      <4>2. ASSUME NEW d \in CallIds("lns"), Opens(x.call["lns"][d], t), m.cid \in {0, d} PROVE x.call["lns"][d].cid # m.id
        <5>1. d # 0 /\ d \in CallsOf(x, e, t)
          BY <1>4, <2>1, <4>2 DEF CallsOf, Opens, Lives
        <5> QED
          BY <1>2, <1>7, <2>1, <4>2, <5>1
      <4> QED
        BY <2>1, <4>1, <4>2 DEF Done
    <3> QED
      BY <1>0, <1>1, <1>2, <1>7, <3>1, TalksDone
  <2>2. CASE e = "lac" /\ c = 0
    <3>1. Done(x, e, t, m)
      BY <1>2, <1>4, <2>2 DEF Done
    <3> QED
      BY <1>0, <1>1, <1>2, <1>7, <3>1, TalksDone
  <2>3. CASE e = "lac" /\ c # 0
    <3>1. ASSUME NEW n \in TunnelIds("lns"), Sound(x, t, n), Talk(x, "lac", <<m>>, t, n) PROVE FALSE
      <4> DEFINE P == ToLac(x, "lac", <<m>>, t, n)
                 q == ToLns(x, "lac", <<m>>, n)
                 k == x.call["lac"]
                 l == x.call["lns"]
                 id == m.id
      <4>1. m \in P
        <5>1. InHands(x, "lac", t, c, m) /\ t \in TunnelIds("lac") /\ x.tun["lac"][t].tid = n
          BY <1>3, <2>3, <3>1 DEF Sound
        <5> HIDE DEF P
        <5>2. m \in ToLac(x, "lac", <<m>>, t, n)
          BY <5>1, FromPeer
        <5> QED
          BY <5>2 DEF P
      <4>2. OneAnswer(k, l, P, t, n)
        BY <3>1 DEF Talk, TalkOf
      <4>3. c \in CallIds("lac") /\ Lives(k[c], t) /\ k[c].cid \notin {0, id}
        BY <1>1, <1>7, <2>3 DEF CallIn, Lives
      <4> HIDE DEF P, k, l
      <4>4. Named(k, l, P, t, n, c, k[c].cid)
        BY <4>3 DEF Named
      <4>5. Named(k, l, P, t, n, c, id)
        BY <1>2, <4>1 DEF Named, Refuse
      <4>6. k[c].cid = id
        BY <4>2, <4>3, <4>4, <4>5 DEF OneAnswer
      <4> QED
        BY <4>3, <4>6
    <3>2. \A y \in TunnelIds("lac") : \A n \in TunnelIds("lns") :
            Own(e, t, y, n) /\ Sound(x, y, n) /\ Talk(x, e, <<m>>, y, n) => Talk(v, e, <<>>, y, n)
      BY <2>3, <3>1 DEF Own
    <3> QED
      BY <1>6, <1>7, <3>2
  <2> QED
    BY <2>1, <2>2, <2>3, EndIs
<1>8. CASE c # 0 /\ OnlyCall(v, x, e, c, EndOf(x.call[e][c])) /\ x.call[e][c].cid \in {0, m.id}
  <2>1. c \in CallIds(e) /\ v.tun = x.tun
    BY <1>1, <1>8 DEF CallIn, OnlyCall
  <2>2. ASSUME NEW y \in TunnelIds("lac"), NEW n \in TunnelIds("lns"), Own(e, t, y, n), Sound(x, y, n), Talk(x, e, <<m>>, y, n)
        PROVE  Talk(v, e, <<>>, y, n)
    <3>1. CASE e = "lac"
      <4>1. /\ t = y /\ InHands(x, "lac", t, c, m) /\ x.tun["lac"][t].tid = n /\ Talk(x, "lac", <<m>>, t, n)
            /\ OnlyCall(v, x, "lac", c, EndOf(x.call["lac"][c])) /\ c \in CallIds("lac")
        BY <1>3, <1>8, <2>1, <2>2, <3>1 DEF Own, Sound
      <4>2. Talk(v, "lac", <<>>, t, n)
        BY <1>2, <4>1, LacEndsSpoken
      <4> QED
        BY <3>1, <4>1, <4>2
    <3>2. CASE e = "lns"
      <4>1. /\ t = n /\ InHands(x, "lns", n, c, m) /\ Talk(x, "lns", <<m>>, y, n)
            /\ OnlyCall(v, x, "lns", c, EndOf(x.call["lns"][c])) /\ c \in CallIds("lns")
            /\ x.call["lns"][c].cid \in {0, m.id}
        BY <1>3, <1>8, <2>1, <2>2, <3>2, EndIs DEF Own
      <4>2. Talk(v, "lns", <<>>, y, n)
        BY <1>2, <4>1, LnsEndsSpoken
      <4> QED
        BY <3>2, <4>2
    <3> QED
      BY <3>1, <3>2, EndIs
  <2> QED
    BY <1>6, <2>1, <2>2
<1>9. {"assigned call", "result code"} \ kept = {}
  OBVIOUS
<1> QED
  BY <1>5, <1>7, <1>8, <1>9 DEF HungUp

\* The LAC learns the id that the message m gives to call c, and may send a message that
\* says nothing of ids.
Learns(v, w, t, c, m) ==
  LET k == w.call["lac"][c]
      z == v.call["lac"][c]
  IN /\ z.cid = m.id /\ z.state \notin {"off", "ICRQ"} /\ Live(z) /\ z.tun = k.tun
     /\ z.closing = k.closing /\ z.needclose = k.needclose
     /\ \A d \in CallIds("lac") \ {c} : v.call["lac"][d] = w.call["lac"][d]
     /\ \A d \in CallIds("lns") : v.call["lns"][d] = w.call["lns"][d]
     /\ Goes(v.tun["lac"][t], w.tun["lac"][t])
     /\ \A n \in TunnelIds("lns") : Sound(v, t, n) =>
          /\ ToLac(v, "lac", <<m>>, t, n) = ToLac(w, "lac", <<m>>, t, n)
          /\ \/ ToLns(v, "lac", <<m>>, n) = ToLns(w, "lac", <<m>>, n)
             \/ \E x : /\ x.kind \notin Asking \cup {"CDN"}
                       /\ ToLns(v, "lac", <<m>>, n) = Append(ToLns(w, "lac", <<m>>, n), x)

\* An answer is done with when the LAC has learnt the id.
LEMMA LearntSpoken ==
  ASSUME CountAssumption, NEW w, NEW t \in TunnelIds("lac"), NEW c \in CallIds("lac"), NEW m, InHands(w, "lac", t, c, m),
         m.kind \in Agreeing, NEW v, IsWorld(v), Learns(v, w, t, c, m)
  PROVE  Spoken(v, w, "lac", t, m)
<1>1. IsWorld(w) /\ m \in Message /\ m.cid = c /\ c # 0 /\ Lives(w.call["lac"][c], t)
  <2>1. c # 0
    BY NoCallZero, EndIs
  <2> QED
    BY <2>1 DEF InHands, Good, CallIn, Lives
<1>2. 0 \notin CallIds("lns")
  BY NoCallZero, EndIs
<1>3. ASSUME NEW n \in TunnelIds("lns"), Sound(v, t, n), Talk(w, "lac", <<m>>, t, n) PROVE Talk(v, "lac", <<>>, t, n)
  <2> DEFINE P == ToLac(w, "lac", <<m>>, t, n)
             q == ToLns(w, "lac", <<m>>, n)
             q2 == ToLns(v, "lac", <<m>>, n)
             k == w.call["lac"]
             k2 == v.call["lac"]
             l == w.call["lns"]
             id == m.id
  <2>1. w.tun["lac"][t].tid = n
    BY <1>3 DEF Learns, Sound, Goes
  <2>2. Agree(P, c, id)
    <3>1. m \in P
      BY <2>1, FromPeer
    <3> HIDE DEF P
    <3> QED
      BY <1>1, <3>1 DEF Agree
  <2>3. TalkOf(k, l, P, q, t, n)
    BY <1>3 DEF Talk
  <2>4. /\ k2[c].cid = id /\ k2[c].state \notin {"off", "ICRQ"} /\ Live(k2[c]) /\ k2[c].tun = k[c].tun
        /\ k2[c].closing = k[c].closing /\ k2[c].needclose = k[c].needclose
        /\ \A d \in CallIds("lac") \ {c} : k2[d] = k[d]
    BY DEF Learns
  <2>5. Lives(k[c], t)
    BY <1>1
  <2>6. q2 = q \/ \E x : x.kind \notin Asking \cup {"CDN"} /\ q2 = Append(q, x)
    BY <1>3 DEF Learns
  <2>7. q \in Seq(Message)
    BY <1>1, EndIs, WorldFields DEF ToLns
  <2> HIDE DEF P, q, q2, k, k2, l, id
  <2>8. (Opens(k2[c], t) <=> Opens(k[c], t)) /\ (Opens(k2[c], t) /\ k[c].needclose => k2[c].needclose)
    BY <2>4, <2>5 DEF Opens, Lives
  <2>9. TalkOf(k2, l, P, q, t, n)
    BY <1>2, <2>2, <2>3, <2>4, <2>8, MetTalk
  <2>10. TalkOf(k2, l, P, q2, t, n)
    <3>1. CASE q2 = q
      BY <2>9, <3>1
    <3>2. ASSUME NEW x, x.kind \notin Asking \cup {"CDN"}, q2 = Append(q, x) PROVE TalkOf(k2, l, P, q2, t, n)
      <4>1. TalkOf(k2, l, P, Append(q, x), t, n)
        BY ONLY <2>7, <2>9, <3>2, AppendTalk
      <4> QED
        BY <3>2, <4>1
    <3> QED
      BY <2>6, <3>1, <3>2
  <2>11. TalkOf(k2, v.call["lns"], P, q2, t, n)
    BY <2>10, EachTalk DEF Learns, l
  <2>12. ToLac(v, "lac", <<m>>, t, n) = P
    BY <1>3 DEF Learns, P
  <2>13. Talk(v, "lac", <<m>>, t, n)
    BY <2>11, <2>12 DEF Talk, k2, q2
  <2>14. Done(v, "lac", t, m)
    <3>1. \A d \in CallIds("lac") : m.cid = d => v.call["lac"][d].cid = m.id
      BY <1>1 DEF Learns
    <3>2. m.kind # "CDN"
      BY DEF Agreeing
    <3> QED
      BY <3>1, <3>2 DEF Done
  <2>15. Own("lac", t, t, n)
    BY DEF Own
  <2> QED
    BY <1>1, <2>13, <2>14, <2>15, EndIs, DoneTalk
<1> QED
  BY <1>3 DEF Spoken, Own, Learns

\* ICRP and OCRP: what the attributes give to the call.
GaveId(x, w, t, c, m) ==
  /\ x.call["lac"][c] = [w.call["lac"][c] EXCEPT !.cid = m.id]
  /\ \A d \in CallIds("lac") \ {c} : x.call["lac"][d] = w.call["lac"][d]
  /\ \A d \in CallIds("lns") : x.call["lns"][d] = w.call["lns"][d]
  /\ x.box = w.box /\ Goes(x.tun["lac"][t], w.tun["lac"][t])

\* They give the id.
LEMMA TookId ==
  ASSUME NEW w, NEW t \in TunnelIds("lac"), NEW c, NEW m,
         m.kind \in Agreeing, NEW kept, "assigned call" \in kept, NEW new, NEW x, Took(x, w, "lac", t, c, m, kept, new)
  PROVE  GaveId(x, w, t, c, m)
<1>1. PICK close : ~ close /\ TakenIs(x, w, "lac", t, c, m, kept, close, new)
  BY DEF Took
<1>2. PICK y, v : /\ MadeIs(y, w, "lac", t, m, kept, new)
                  /\ StoredIs(v, y, "lac", t, c, m, kept, new) /\ x = v
  BY <1>1 DEF TakenIs
<1>3. y = w
  BY <1>2 DEF MadeIs, Agreeing
<1>4. StoredIs(x, w, "lac", t, c, m, kept, new) /\ m.kind \in {"ICRP", "OCRP"}
  BY <1>2, <1>3 DEF Agreeing
<1>5. x.tun["lac"][t].state = w.tun["lac"][t].state
  BY EndIs DEF Took, LikeTuns
<1>6. Goes(x.tun["lac"][t], w.tun["lac"][t])
  BY <1>4, <1>5 DEF StoredIs, Opening, Goes, Live, Doomed
<1> QED
  BY <1>4, <1>6, EndIs DEF StoredIs, GaveId

\* ICRP and OCRP: the LAC learns the id of the call of the LNS.
LEMMA AnswerSpoken ==
  ASSUME CountAssumption, NEW w, NEW t \in TunnelIds("lac"), NEW c, NEW m, InHands(w, "lac", t, c, m),
         SaneFor(w, "lac", t, c, m), m.kind \in Agreeing, NEW kept, "assigned call" \in kept, NEW new,
         NEW x, Took(x, w, "lac", t, c, m, kept, new), NEW dials,
         NEW v, Good(v), Does(v, x, "lac", t, c, m, kept, dials, new)
  PROVE  Spoken(v, w, "lac", t, m)
<1>1. c # 0 /\ w.call["lac"][c].state = IF m.kind = "OCRP" THEN "OCRQ" ELSE "ICRQ"
  BY DEF SaneFor, Sane, Agreeing
<1>2. c \in CallIds("lac") /\ w.call["lac"][c] \in Call /\ IsWorld(w) /\ IsWorld(v) /\ IsWorld(x)
  <2>1. c \in CallIds("lac") /\ IsWorld(w) /\ IsWorld(v) /\ IsWorld(x)
    BY <1>1 DEF InHands, CallIn, Good, Took
  <2> QED
    BY <2>1, EndIs, WorldFields
<1>3. GaveId(x, w, t, c, m)
  BY TookId
<1> DEFINE k == w.call["lac"][c]
           a == x.call["lac"][c]
           id == m.id
<1>4. a = [k EXCEPT !.cid = id]
  BY <1>3 DEF GaveId
<1>5. a \in Call
  BY <1>2, EndIs, WorldFields
<1>6. k \in Call
  BY <1>2
<1> HIDE DEF k, a, id
<1>7. a.cid = id /\ a.state = k.state /\ a.tun = k.tun /\ a.closing = k.closing /\ a.needclose = k.needclose
  BY <1>4, <1>6 DEF Call
<1>8. CASE m.kind = "OCRP"
  <2>1. v = x
    BY <1>8 DEF Does
  <2>2. a.state = "OCRQ"
    BY <1>1, <1>7, <1>8 DEF k
  <2>3. Live(a)
    BY <2>2 DEF Live
  <2>4. Learns(v, w, t, c, m)
    BY <1>3, <1>7, <2>1, <2>2, <2>3 DEF Learns, GaveId, k, a, id, ToLac, ToLns
  <2> QED
    BY <1>2, <2>4, LearntSpoken
<1>9. CASE m.kind = "ICRP"
  <2> DEFINE s == Plain("ICCN", t, a.cid, 0)
             z == v.call["lac"][c]
  <2>1. PICK started \in BOOLEAN : CallIs(v, x, "lac", c, Connected(a, started)) /\ Sent(v, x, "lac", t, s)
    BY <1>9 DEF Does, Connects, a
  <2>2. s.kind \notin Asking \cup {"CDN"}
    BY DEF Plain, Asking
  <2>3. z = Connected(a, started)
    BY <2>1 DEF CallIs
  <2> HIDE DEF s, z
  <2>4. z.cid = id /\ z.state = "ICCN" /\ z.tun = k.tun /\ z.closing = k.closing /\ z.needclose = k.needclose
    BY <1>5, <1>7, <2>3 DEF Connected, Call
  <2>5. Live(z)
    BY <2>4 DEF Live
  <2>6. /\ \A d \in CallIds("lac") \ {c} : v.call["lac"][d] = w.call["lac"][d]
        /\ \A d \in CallIds("lns") : v.call["lns"][d] = w.call["lns"][d]
    BY <1>3, <2>1, EndIs DEF CallIs, GaveId
  <2>7. Goes(v.tun["lac"][t], w.tun["lac"][t])
    <3>1. Goes(v.tun["lac"][t], x.tun["lac"][t])
      BY <2>1, SentGoes
    <3> QED
      BY <1>3, <3>1 DEF GaveId, Goes
  <2>8. ASSUME NEW n \in TunnelIds("lns"), Sound(v, t, n)
        PROVE  /\ ToLac(v, "lac", <<m>>, t, n) = ToLac(w, "lac", <<m>>, t, n)
               /\ ToLns(v, "lac", <<m>>, n) = Append(ToLns(w, "lac", <<m>>, n), s)
    <3> DEFINE h == <<m>>
    <3> HIDE DEF h
    <3>1. OneMore(v, x, h, t, n, s)
      BY <2>1, <2>8, SentToLns
    <3>2. ToLac(x, "lac", h, t, n) = ToLac(w, "lac", h, t, n) /\ ToLns(x, "lac", h, n) = ToLns(w, "lac", h, n)
      BY <1>3 DEF GaveId, ToLac, ToLns
    <3> QED
      BY <3>1, <3>2 DEF OneMore, h
  <2>9. Learns(v, w, t, c, m)
    BY <2>2, <2>4, <2>5, <2>6, <2>7, <2>8 DEF Learns, k, z, id
  <2> QED
    BY <1>2, <2>9, LearntSpoken
<1> QED
  BY <1>8, <1>9 DEF Agreeing

\* The LNS has answered the request m with s, by its new call d.
Answers(v, w, n, m, d, s) ==
  LET z == v.call["lns"][d]
  IN /\ w.call["lns"][d].state = "off"
     /\ Lives(z, n) /\ z.cid = m.id /\ z.state # "off"
     /\ s.kind \in Agreeing \cup {"CDN"} /\ (s.kind \in Agreeing <=> Opens(z, n))
     /\ s \in Message /\ s.from = n /\ s.cid = m.id /\ s.id = d
     /\ \A c \in CallIds("lns") \ {d} : v.call["lns"][c] = w.call["lns"][c]
     /\ \A c \in CallIds("lac") : v.call["lac"][c] = w.call["lac"][c]

\* The request m is the first of those that the LNS has yet to take.
AsksFirst(q, b, m) == q \in Seq(Message) /\ q # <<>> /\ Tail(q) = b /\ Asks(q, 1, m.id)
\* It is so when it is in hand.
LEMMA FirstAsks ==
  ASSUME NEW w, IsWorld(w), NEW n \in TunnelIds("lns"), NEW m \in Message, m.kind \in Asking
  PROVE  AsksFirst(ToLns(w, "lns", <<m>>, n), w.box["lns"][n], m)
<1> DEFINE b == w.box["lns"][n]
           q == <<m>> \o b
<1>1. b \in Seq(Message)
  BY EndIs, WorldFields
<1> HIDE DEF b
<1>2. q \in Seq(Message) /\ q # <<>> /\ q[1] = m /\ Tail(q) = b
  BY <1>1, FirstOf
<1>3. ToLns(w, "lns", <<m>>, n) = q
  BY DEF ToLns, b
<1> HIDE DEF q
<1>4. 1 \in 1 .. Len(q)
  BY <1>2
<1>5. AsksFirst(q, b, m)
  BY <1>2, <1>4 DEF AsksFirst, Asks
<1> QED
  BY <1>3, <1>5 DEF b

\* A request is done with when it is answered.
LEMMA ReplyDone ==
  ASSUME NEW w, IsWorld(w), NEW t \in TunnelIds("lac"), NEW n \in TunnelIds("lns"), NEW m \in Message, m.kind \in Asking,
         Talk(w, "lns", <<m>>, t, n), NEW d \in CallIds("lns"), NEW s, NEW v, Answers(v, w, n, m, d, s),
         NEW x, IsWorld(x), x.box = w.box, Sent(v, x, "lns", n, s), Sound(v, t, n)
  PROVE  Talk(v, "lns", <<>>, t, n)
<1> DEFINE P == ToLac(w, "lns", <<m>>, t, n)
           q == ToLns(w, "lns", <<m>>, n)
           b == w.box["lns"][n]
           P2 == ToLac(v, "lns", <<>>, t, n)
           k == w.call["lac"]
           l == w.call["lns"]
           l2 == v.call["lns"]
           id == m.id
           h == <<>>
<1>1. AsksFirst(q, b, m)
  BY FirstAsks
<1>2. h = <<>> /\ s \in Message /\ s.from = n
  BY DEF Answers
<1> HIDE DEF h
<1>3. OneMoreSaid(v, x, h, t, n, s)
  BY <1>2, SentToLac
<1>4. ToLac(x, "lns", h, t, n) = P
  BY DEF ToLac
<1>5. ToLns(v, "lns", h, n) = b
  <2>1. x.box["lns"][n] = b
    OBVIOUS
  <2>2. ToLns(x, "lns", <<>>, n) = x.box["lns"][n]
    BY EndIs, NothingInHand
  <2> QED
    BY <1>2, <1>3, <2>1, <2>2 DEF OneMoreSaid
<1>6. TalkOf(k, l, P, q, t, n)
  BY DEF Talk
<1>7. P2 = ToLac(v, "lns", h, t, n)
  BY <1>2
<1>8. /\ l[d].state = "off" /\ Lives(l2[d], n) /\ l2[d].cid = id /\ l2[d].state # "off"
      /\ s.kind \in Agreeing \cup {"CDN"} /\ (s.kind \in Agreeing <=> Opens(l2[d], n)) /\ s.cid = id /\ s.id = d
      /\ \A c \in CallIds("lns") \ {d} : l2[c] = l[c]
  BY DEF Answers
<1>9. q \in Seq(Message) /\ q # <<>> /\ Tail(q) = b /\ Asks(q, 1, id)
  BY <1>1 DEF AsksFirst
<1> HIDE DEF P, q, b, P2, k, l, l2, id
<1>10. "CDN" \notin Agreeing
  BY DEF Agreeing
<1>11. \A c, y : Agree(P2, c, y) <=> Agree(P, c, y) \/ (c = id /\ y = d /\ Opens(l2[d], n))
  BY <1>3, <1>4, <1>7, <1>8 DEF OneMoreSaid
<1>12. \A c, y : Refuse(P2, c, y) <=> Refuse(P, c, y) \/ (c = id /\ y = d /\ ~ Opens(l2[d], n))
  BY <1>3, <1>4, <1>7, <1>8, <1>10 DEF OneMoreSaid
<1>13. TalkOf(k, l2, P2, Tail(q), t, n)
  <2>1. /\ d \in CallIds("lns") /\ l[d].state = "off" /\ Lives(l2[d], n) /\ l2[d].cid = id /\ l2[d].state # "off"
        /\ \A c \in CallIds("lns") \ {d} : l2[c] = l[c]
    BY <1>8
  <2>2. q \in Seq(Message) /\ q # <<>> /\ Asks(q, 1, id)
    BY <1>9
  <2> QED
    BY ONLY <1>6, <1>11, <1>12, <2>1, <2>2, ReplyTalk
<1>14. TalkOf(v.call["lac"], l2, P2, Tail(q), t, n)
  BY <1>13, EachTalk DEF Answers, k
<1> QED
  BY <1>2, <1>5, <1>9, <1>14 DEF Talk, P2, l2

\* ICRQ: the new call knows the id of the call of the LAC.
AskedFor(x, w, n, m, d) ==
  LET k == x.call["lns"][d]
  IN /\ k \in Call /\ k.state = "idle" /\ k.tun = n /\ k.cid = m.id /\ ~ k.closing
     /\ \A c \in CallIds("lns") \ {d} : x.call["lns"][c] = w.call["lns"][c]
     /\ \A c \in CallIds("lac") : x.call["lac"][c] = w.call["lac"][c]
     /\ x.box = w.box /\ Goes(x.tun["lns"][n], w.tun["lns"][n])

\* The attributes give it.
LEMMA TookRequest ==
  ASSUME NEW w, NEW n \in TunnelIds("lns"), NEW m, m.kind = "ICRQ", NEW kept, "assigned call" \in kept, "message type" \in kept,
         NEW d \in CallIds("lns"), NEW x, Took(x, w, "lns", n, 0, m, kept, d)
  PROVE  AskedFor(x, w, n, m, d)
<1>1. PICK close : ~ close /\ TakenIs(x, w, "lns", n, 0, m, kept, close, d)
  BY DEF Took
<1>2. PICK y, v : MadeIs(y, w, "lns", n, m, kept, d) /\ StoredIs(v, y, "lns", n, 0, m, kept, d) /\ x = v /\ Good(y) /\ Good(v)
  BY <1>1 DEF TakenIs
<1>3. OnlyCall(y, w, "lns", d, NewCall(n)) /\ StoredIs(x, y, "lns", n, 0, m, kept, d)
  BY <1>2 DEF MadeIs
<1> DEFINE k == x.call["lns"][d]
           a == y.call["lns"][d]
           id == m.id
<1>4. k = [a EXCEPT !.cid = id] /\ a = NewCall(n) /\ x.box = w.box
  BY <1>3 DEF StoredIs, OnlyCall
<1>5. k \in Call /\ a \in Call
  BY <1>2, EndIs, WorldFields DEF Good
<1>6. a.state = "idle" /\ a.tun = n /\ ~ a.closing
  BY <1>4 DEF NewCall, NoCall
<1>7. Goes(x.tun["lns"][n], w.tun["lns"][n])
  <2>1. x.tun["lns"][n].state = w.tun["lns"][n].state
    BY EndIs DEF Took, LikeTuns
  <2> QED
    BY <1>3, <2>1 DEF StoredIs, OnlyCall, Opening, Goes, Live, Doomed
<1>8. /\ \A c \in CallIds("lns") \ {d} : x.call["lns"][c] = w.call["lns"][c]
      /\ \A c \in CallIds("lac") : x.call["lac"][c] = w.call["lac"][c]
  <2>1. \A f \in End : \A c \in CallIds(f) : f # "lns" \/ c # d => x.call[f][c] = y.call[f][c]
    BY <1>3 DEF StoredIs
  <2>2. \A f \in End : \A c \in CallIds(f) : f # "lns" \/ c # d => y.call[f][c] = w.call[f][c]
    BY <1>3 DEF OnlyCall
  <2>3. "lac" # "lns"
    OBVIOUS
  <2> HIDE DEF a, k, id
  <2>4. ASSUME NEW f \in End, NEW c \in CallIds(f), f # "lns" \/ c # d PROVE x.call[f][c] = w.call[f][c]
    BY ONLY <2>1, <2>2, <2>4
  <2>5. "lac" \in End /\ "lns" \in End
    BY EndIs
  <2> QED
    BY ONLY <2>3, <2>4, <2>5
<1> HIDE DEF a, k, id
<1>9. k.state = "idle" /\ k.tun = n /\ k.cid = id /\ ~ k.closing
  BY <1>4, <1>5, <1>6 DEF Call
<1> QED
  BY <1>4, <1>5, <1>7, <1>8, <1>9 DEF AskedFor, k, id

\* ICRQ: the LNS answers with ICRP, or has no address and refuses; it is no copy.
LEMMA AskSpoken ==
  ASSUME CountAssumption, NEW w, NEW n \in TunnelIds("lns"), NEW m, InHands(w, "lns", n, 0, m),
         m.kind = "ICRQ", NEW kept, "assigned call" \in kept, "message type" \in kept,
         NEW d \in CallIds("lns"), w.call["lns"][d].state = "off", NEW x, Took(x, w, "lns", n, 0, m, kept, d),
         NEW v, Good(v), Replies(v, x, n, d)
  PROVE  Spoken(v, w, "lns", n, m)
<1> DEFINE k == x.call["lns"][d]
           z == v.call["lns"][d]
           id == m.id
<1>1. /\ IsWorld(w) /\ IsWorld(x) /\ IsWorld(v) /\ m \in Message /\ m.kind \in Asking
      /\ n \in Nat /\ d \in Nat /\ id \in Nat
  <2>0. n \in Nat
    BY IdsArePositive, EndIs
  <2>1. d \in Nat
    <3>1. Calls["lns"] \in Nat /\ d \in 1 .. Calls["lns"]
      BY EndIs DEF CountAssumption, CallIds
    <3> QED
      BY ONLY <3>1
  <2>2. IsWorld(w) /\ IsWorld(x) /\ IsWorld(v) /\ m \in Message /\ m.kind \in Asking
    BY DEF InHands, Good, Took, Asking
  <2> QED
    BY <2>0, <2>1, <2>2 DEF Message
<1>2. AskedFor(x, w, n, m, d)
  BY TookRequest
<1>3. k \in Call /\ k.state = "idle" /\ k.tun = n /\ k.cid = id /\ ~ k.closing /\ x.box = w.box
  BY <1>2 DEF AskedFor
<1>4. /\ \A c \in CallIds("lns") \ {d} : x.call["lns"][c] = w.call["lns"][c]
      /\ \A c \in CallIds("lac") : x.call["lac"][c] = w.call["lac"][c]
      /\ Goes(x.tun["lns"][n], w.tun["lns"][n])
  BY <1>2 DEF AskedFor
<1>5. CASE v.tun = x.tun /\ \E y \in CallsOf(x, "lns", n) \ {d} : x.call["lns"][y].cid = id
  <2>1. PICK y \in CallsOf(x, "lns", n) \ {d} : x.call["lns"][y].cid = id
    BY <1>5
  <2>2. y \in CallIds("lns") /\ Lives(w.call["lns"][y], n) /\ w.call["lns"][y].cid = id
    BY <1>4, <2>1 DEF CallsOf, Lives
  <2>3. ASSUME NEW t \in TunnelIds("lac"), Talk(w, "lns", <<m>>, t, n) PROVE FALSE
    <3> DEFINE P == ToLac(w, "lns", <<m>>, t, n)
               q == ToLns(w, "lns", <<m>>, n)
               b == w.box["lns"][n]
               l == w.call["lns"]
    <3>1. AsksFirst(q, b, m)
      BY <1>1, FirstAsks
    <3>2. Requested(w.call["lac"], l, P, q, t, n)
      BY <2>3 DEF Talk, TalkOf
    <3>3. Named(w.call["lac"], l, P, t, n, id, y)
      BY <2>2 DEF Named
    <3> HIDE DEF P, q, b, l, id
    <3>4. Asks(q, 1, id)
      BY <3>1 DEF AsksFirst, id
    <3> QED
      BY <3>2, <3>3, <3>4 DEF Requested
  <2>4. Goes(v.tun["lns"][n], w.tun["lns"][n])
    BY <1>4, <1>5
  <2> QED
    BY <2>3, <2>4, EndIs DEF Spoken, Own
<1>6. ASSUME NEW s, Answers(v, w, n, m, d, s), Sent(v, x, "lns", n, s) PROVE Spoken(v, w, "lns", n, m)
  <2>1. Goes(v.tun["lns"][n], w.tun["lns"][n])
    <3>1. Goes(v.tun["lns"][n], x.tun["lns"][n])
      BY <1>6, SentGoes
    <3> QED
      BY <1>4, <3>1 DEF Goes
  <2>2. ASSUME NEW t \in TunnelIds("lac"), Sound(v, t, n), Talk(w, "lns", <<m>>, t, n) PROVE Talk(v, "lns", <<>>, t, n)
    <3>1. x.box = w.box
      BY <1>3
    <3> QED
      BY <1>1, <1>6, <2>2, <3>1, ReplyDone
  <2> QED
    BY <2>1, <2>2, EndIs DEF Spoken, Own
<1>7. CASE Closed(v, x, "lns", d)
  <2> DEFINE s == Plain("CDN", n, id, d)
  <2>1. s \in Message /\ s.kind = "CDN" /\ s.from = n /\ s.cid = id /\ s.id = d
    <3>1. "CDN" \in Kind /\ s = Plain("CDN", n, id, d) /\ n \in Nat /\ id \in Nat /\ d \in Nat
      BY <1>1 DEF Kind
    <3> HIDE DEF s, id
    <3> QED
      BY ONLY <3>1, PlainIs
  <2>2. z = [k EXCEPT !.closing = TRUE] /\ Sent(v, x, "lns", n, s)
    BY <1>3, <1>7 DEF Closed, Farewell
  <2>3. \A f \in End : \A c \in CallIds(f) : f # "lns" \/ c # d => v.call[f][c] = x.call[f][c]
    BY <1>7 DEF Closed
  <2> HIDE DEF s, z, k
  <2>4. z.closing /\ z.state = "idle" /\ z.tun = n /\ z.cid = id
    BY <1>3, <2>2 DEF Call
  <2>5. Lives(z, n) /\ ~ Opens(z, n) /\ z.state # "off" /\ "CDN" \notin Agreeing /\ "lns" # "lac"
    BY <2>4 DEF Lives, Live, Opens, Agreeing
  <2>6. Answers(v, w, n, m, d, s)
    BY <1>4, <2>1, <2>3, <2>4, <2>5, EndIs DEF Answers, z, id
  <2> QED
    BY <1>6, <2>2, <2>6
<1>8. CASE (\E a : CallIs(v, x, "lns", d, Answering(k, a))) /\ Sent(v, x, "lns", n, Plain("ICRP", n, k.cid, d))
  <2> DEFINE s == Plain("ICRP", n, id, d)
  <2>1. s \in Message /\ s.kind = "ICRP" /\ s.from = n /\ s.cid = id /\ s.id = d
    <3>1. "ICRP" \in Kind /\ s = Plain("ICRP", n, id, d) /\ n \in Nat /\ id \in Nat /\ d \in Nat
      BY <1>1 DEF Kind
    <3> HIDE DEF s, id
    <3> QED
      BY ONLY <3>1, PlainIs
  <2>2. PICK a : z = Answering(k, a)
    BY <1>8 DEF CallIs
  <2>3. Sent(v, x, "lns", n, s)
    BY <1>3, <1>8
  <2>4. \A f \in End : \A c \in CallIds(f) : f # "lns" \/ c # d => v.call[f][c] = x.call[f][c]
    BY <1>8 DEF CallIs
  <2> HIDE DEF s, z, k
  <2>5. ~ z.closing /\ z.state = "ICRP" /\ z.tun = n /\ z.cid = id
    BY <1>3, <2>2 DEF Call, Answering
  <2>6. Lives(z, n) /\ Opens(z, n) /\ z.state # "off" /\ "ICRP" \in Agreeing /\ "lns" # "lac"
    BY <2>5 DEF Lives, Live, Opens, Agreeing
  <2>7. Answers(v, w, n, m, d, s)
    BY <1>4, <2>1, <2>4, <2>5, <2>6, EndIs DEF Answers, z, id
  <2> QED
    BY <1>6, <2>3, <2>7
<1> QED
  BY <1>3, <1>5, <1>7, <1>8 DEF Replies

\* Before a tunnel of the LAC knows its peer, nothing is said of calls.
LEMMA NotYetTalk ==
  ASSUME CountAssumption, NEW w, Good(w), NEW t \in TunnelIds("lac"), NEW n \in TunnelIds("lns"),
         w.tun["lac"][t].state = "SCCRQ", w.tun["lac"][t].tid = 0, ~ w.tun["lac"][t].stuck, w.tun["lns"][n].tid = t,
         ~ Odd
  PROVE  Talk(w, "lac", <<>>, t, n)
<1> DEFINE P == ToLac(w, "lac", <<>>, t, n)
           q == w.box["lns"][n]
<1>1. IsWorld(w) /\ t # 0 /\ n # 0
  BY EndIs, IdsArePositive DEF Good
<1>2. w.tun["lns"][n].heard = t
  <2>1. LnsTunInv(w, w.tun["lns"][n])
    BY EndIs DEF Good, TunInv
  <2> QED
    BY <1>1, <2>1 DEF LnsTunInv
<1>3. ~ Past(w, t) /\ ~ Up(w, "lac", t)
  BY DEF Past, Up
<1>4. ~ Up(w, "lns", n)
  <2>1. LnsTunInv(w, w.tun["lns"][n])
    BY EndIs DEF Good, TunInv
  <2> QED
    BY <1>2, <1>3, <2>1 DEF LnsTunInv, Up
<1>5. \A c \in CallIds("lac") : ~ Lives(w.call["lac"][c], t)
  <2> SUFFICES ASSUME NEW c \in CallIds("lac"), Lives(w.call["lac"][c], t) PROVE FALSE
    OBVIOUS
  <2>1. CallInv(w, "lac", w.call["lac"][c])
    BY EndIs DEF Good
  <2> QED
    BY <2>1 DEF CallInv, Lives, Sends
<1>6. \A d \in CallIds("lns") : ~ Lives(w.call["lns"][d], n)
  <2> SUFFICES ASSUME NEW d \in CallIds("lns"), Lives(w.call["lns"][d], n) PROVE FALSE
    OBVIOUS
  <2>1. CallInv(w, "lns", w.call["lns"][d])
    BY EndIs DEF Good
  <2> QED
    BY <1>4, <2>1 DEF CallInv, Lives
<1>7. \A x \in P : x.kind \in {"SCCRP", "StopCCN"}
  <2> SUFFICES ASSUME NEW x, Has(w.box["lac"][t], x) PROVE x.kind \in {"SCCRP", "StopCCN"}
    BY DEF ToLac, Has
  <2>1. PICK i \in 1 .. Len(w.box["lac"][t]) : w.box["lac"][t][i] = x
    BY DEF Has
  <2>2. BoxInv(w, "lac", t)
    BY EndIs DEF Good
  <2>3. MsgInv(w, "lac", t, x)
    BY <2>1, <2>2 DEF BoxInv
  <2> QED
    BY <1>3, <2>3 DEF MsgInv, LacMsgInv
<1>8. \A i : i \notin 1 .. Len(q)
  <2> SUFFICES ASSUME NEW i \in 1 .. Len(q) PROVE FALSE
    OBVIOUS
  <2>1. BoxInv(w, "lns", n)
    BY EndIs DEF Good
  <2>2. MsgInv(w, "lns", n, q[i])
    BY <2>1 DEF BoxInv
  <2>3. q[i].from = t /\ Knows(w, "lac", t, n)
    BY <1>2, <2>2, EndIs DEF MsgInv
  <2> QED
    BY <1>1, <2>3 DEF Knows
<1>9. ToLns(w, "lac", <<>>, n) = q
  BY DEF ToLns
<1> DEFINE k == w.call["lac"]
           l == w.call["lns"]
<1>10. (\A c \in CallIds("lac") : ~ Lives(k[c], t)) /\ \A d \in CallIds("lns") : ~ Lives(l[d], n)
  BY <1>5, <1>6
<1> HIDE DEF P, q, k, l
<1>11. TalkOf(k, l, P, q, t, n)
  <2>1. \A c, d : ~ Agree(P, c, d) /\ ~ Refuse(P, c, d)
    BY <1>7 DEF Agree, Refuse, Agreeing
  <2>2. \A i, c : ~ Asks(q, i, c)
    BY <1>8 DEF Asks
  <2>3. \A i, c, d : ~ Tells(q, i, c, d)
    BY <1>8 DEF Tells
  <2> QED
    BY <1>10, <2>1, <2>2, <2>3, SilentTalk
<1> QED
  BY <1>9, <1>11 DEF Talk, P, k, l

\* The tunnel s of e has what Agreed asks.
Agrees(v, e, s) ==
  /\ e = "lac" => Settles(v.tun["lac"][s])
  /\ \A t \in TunnelIds("lac") : \A n \in TunnelIds("lns") :
       Own(e, s, t, n) /\ Sound(v, t, n) => Talk(v, "lac", <<>>, t, n)

\* A tunnel that is lost or closes does.
LEMMA DoomedAgrees ==
  ASSUME NEW v, NEW e \in End, NEW s, Doomed(v.tun[e][s]) \/ ~ Live(v.tun[e][s])
  PROVE  Agrees(v, e, s)
BY EndIs DEF Agrees, Settles, Own, Sound

\* SCCRP: what the attributes give of the peer.
Introduced(x, w, t) ==
  /\ x.box = w.box /\ \A f \in End : \A d \in CallIds(f) : x.call[f][d] = w.call[f][d]
  /\ ~ Doomed(x.tun["lac"][t]) => ~ Doomed(w.tun["lac"][t])

\* They say nothing of calls.
LEMMA TookPeer ==
  ASSUME NEW w, NEW t \in TunnelIds("lac"), NEW c, NEW m, m.kind = "SCCRP", NEW kept, NEW new,
         NEW x, Took(x, w, "lac", t, c, m, kept, new)
  PROVE  Introduced(x, w, t)
<1>1. PICK close : ~ close /\ TakenIs(x, w, "lac", t, c, m, kept, close, new)
  BY DEF Took
<1>2. PICK y, v : MadeIs(y, w, "lac", t, m, kept, new) /\ StoredIs(v, y, "lac", t, c, m, kept, new) /\ x = v
  BY <1>1 DEF TakenIs
<1>3. y = w
  BY <1>2 DEF MadeIs
<1> QED
  BY <1>2, <1>3 DEF StoredIs, Introduced, Doomed

\* SCCRP: the LAC is up and may have placed a call, or the tunnel is to close.
LEMMA UpAgrees ==
  ASSUME CountAssumption, NEW w, NEW t \in TunnelIds("lac"), NEW c, NEW m, InHands(w, "lac", t, c, m),
         SaneFor(w, "lac", t, c, m), m.kind = "SCCRP", Settles(w.tun["lac"][t]), ~ Odd, NEW kept, NEW new,
         NEW x, Took(x, w, "lac", t, c, m, kept, new), NEW dials,
         dials => new \in CallIds("lac") /\ w.call["lac"][new].state = "off",
         NEW v, Good(v), Within(v, x, "lac", t), Does(v, x, "lac", t, c, m, kept, dials, new)
  PROVE  Agrees(v, "lac", t)
<1> DEFINE u == v.tun["lac"][t]
<1>1. CASE u.needclose
  BY <1>1, EndIs, DoomedAgrees DEF Doomed
<1>2. ASSUME CameUp(v, x, t, dials, new), ~ Doomed(u) PROVE Agrees(v, "lac", t)
  <2>1. PICK y, z : /\ Good(y) /\ Good(z) /\ Up(y, "lac", t) /\ y.call = x.call /\ y.box = x.box /\ z.call = x.call
                    /\ Stands(y.tun["lac"][t], x.tun["lac"][t])
                    /\ Within(y, x, "lac", t) /\ Within(z, y, "lac", t) /\ Within(v, z, "lac", t)
                    /\ \E a : a.kind = "SCCCN" /\ a.from = t /\ Sent(z, y, "lac", t, a)
                    /\ v = z \/ (dials /\ Placed(v, z, t, new))
    BY <1>2 DEF CameUp
  <2>2. PICK a : a.kind = "SCCCN" /\ Sent(z, y, "lac", t, a)
    BY <2>1
  <2>3. Introduced(x, w, t)
    BY TookPeer
  <2>4. v.tun = z.tun
    BY <1>2, <2>1, SentGoes DEF Placed
  <2>5. z.tun = y.tun
    BY <1>2, <2>2, <2>4, SentGoes
  <2>6. u.state = "SCCCN" /\ u.tid = x.tun["lac"][t].tid /\ ~ Doomed(w.tun["lac"][t])
    BY <1>2, <2>1, <2>3, <2>4, <2>5 DEF Up, Stands, Introduced, Doomed
  <2>7. w.tun["lac"][t].state = "SCCRQ" /\ w.tun["lac"][t].tid = 0 /\ ~ w.tun["lac"][t].stuck
    BY <2>6 DEF SaneFor, Sane, Settles, Live, Doomed
  <2>8. ASSUME NEW n \in TunnelIds("lns"), Sound(v, t, n) PROVE Talk(v, "lac", <<>>, t, n)
    <3>1. w.tun["lns"][n].tid = t
      <4>1. Within(x, w, "lac", t)
        BY Zenon DEF Took
      <4>2. Within(y, x, "lac", t)
        BY <2>1
      <4>3. y.tun["lns"][n].tid = x.tun["lns"][n].tid
        BY ONLY <2>8, <4>2, EndIs DEF Within, Kin, SameTun
      <4>4. x.tun["lns"][n].tid = w.tun["lns"][n].tid
        BY ONLY <2>8, <4>1, EndIs DEF Within, Kin, SameTun
      <4>5. v.tun = y.tun
        BY <2>4, <2>5
      <4>6. v.tun["lns"][n].tid = t
        BY <2>8 DEF Sound
      <4> QED
        BY ONLY <4>3, <4>4, <4>5, <4>6
    <3>2. Talk(w, "lac", <<>>, t, n)
      BY <2>7, <3>1, NotYetTalk DEF InHands
    <3> DEFINE h == <<>>
    <3>3. h \in Seq(Message) /\ h = <<>>
      OBVIOUS
    <3> HIDE DEF h
    <3>4. Talk(y, "lac", h, t, n)
      <4>1. /\ \A d \in CallIds("lac") : y.call["lac"][d] = w.call["lac"][d]
            /\ \A d \in CallIds("lns") : y.call["lns"][d] = w.call["lns"][d]
        BY <2>1, <2>3, EndIs DEF Introduced
      <4>2. y.box = w.box
        BY <2>1, <2>3 DEF Introduced
      <4>3. ToLac(y, "lac", h, t, n) = ToLac(w, "lac", h, t, n) /\ ToLns(y, "lac", h, n) = ToLns(w, "lac", h, n)
        BY <4>2 DEF ToLac, ToLns
      <4>4. TalkOf(w.call["lac"], w.call["lns"], ToLac(w, "lac", h, t, n), ToLns(w, "lac", h, n), t, n)
        BY <3>2, <3>3 DEF Talk
      <4>5. TalkOf(y.call["lac"], y.call["lns"], ToLac(w, "lac", h, t, n), ToLns(w, "lac", h, n), t, n)
        BY <4>1, <4>4, EachTalk
      <4> QED
        BY <4>3, <4>5 DEF Talk
    <3>5. Sound(z, t, n) /\ Own("lac", t, t, n)
      BY <2>4, <2>8 DEF Sound, Own
    <3>6. Talk(z, "lac", h, t, n)
      <4>1. "lac" \in End /\ IsWorld(y) /\ "lac" # "lns"
        BY <2>1, EndIs DEF Good
      <4>2. \A d \in CallIds("lac") : Follows(z.call["lac"][d], y.call["lac"][d], t)
        BY <2>1 DEF Follows
      <4>3. a.kind \notin Asking \cup Agreeing \cup {"CDN"}
        BY <2>2 DEF Asking, Agreeing
      <4>4. Talks(z, y, "lac", t, h)
        BY <2>1, <2>2, <3>3, <4>1, <4>2, <4>3, SendTalks
      <4> QED
        BY <3>4, <3>5, <4>4 DEF Talks
    <3>7. CASE v = z
      BY <3>3, <3>6, <3>7
    <3>8. CASE dials /\ Placed(v, z, t, new)
      <4>1. IsWorld(z) /\ z.call["lac"][new].state = "off" /\ new \in CallIds("lac")
        BY <2>1, <2>3, <3>8, EndIs DEF Good, Introduced
      <4>2. Talks(v, z, "lac", t, h)
        BY <2>1, <3>3, <3>8, <4>1, PlaceTalks
      <4> QED
        BY <2>8, <3>3, <3>5, <3>6, <4>2 DEF Talks
    <3> QED
      BY <2>1, <3>7, <3>8
  <2> QED
    BY <2>6, <2>8 DEF Agrees, Settles, Own
<1>3. CASE Doomed(u)
  BY <1>3, EndIs, DoomedAgrees
<1> QED
  BY <1>1, <1>2, <1>3 DEF Does

\* A message without a flaw is done with when control_finish returns.
LEMMA HandleAgrees ==
  ASSUME CountAssumption, NEW w, NEW e \in End, NEW t \in TunnelIds(e), NEW c, NEW m, InHands(w, e, t, c, m),
         e = "lac" => Settles(w.tun["lac"][t]), ~ Odd, NEW dials, NEW new,
         dials \/ m.kind = "ICRQ" => new \in CallIds(e) /\ w.call[e][new].state = "off",
         NEW r, ReadWell(r, m.kind, SaneFor(w, e, t, c, m)),
         NEW v, Good(v), Did(v, w, e, t, c, m, r, dials, new)
  PROVE  Spoken(v, w, e, t, m) \/ Agrees(v, e, t)
<1>1. PICK x : /\ Good(x) /\ Within(x, w, e, t) /\ Within(v, x, e, t) /\ LikeTuns(x, w)
               /\ TakenIs(x, w, e, t, c, m, r.kept, r.close, new)
               /\ IF r.error THEN v = x ELSE Does(v, x, e, t, c, m, r.kept, dials, new)
  BY DEF Did
<1> DEFINE kept == r.kept
           close == r.close
<1>2. CASE ~ SaneFor(w, e, t, c, m)
  <2>1. v = x /\ kept = {} /\ close
    BY <1>1, <1>2 DEF ReadWell
  <2>2. TakenIs(x, w, e, t, c, m, kept, close, new) /\ IsWorld(x)
    BY <1>1 DEF Good
  <2> HIDE DEF kept, close
  <2> QED
    BY <1>1, <1>2, <2>1, <2>2, RefusedSpoken
<1>3. CASE SaneFor(w, e, t, c, m)
  <2>1. /\ ~ close /\ "message type" \in kept
        /\ m.kind \in {"CDN", "ICRP", "ICRQ", "OCRP"} => "assigned call" \in kept
        /\ m.kind \in {"CDN", "StopCCN"} => "result code" \in kept
        /\ Does(v, x, e, t, c, m, kept, dials, new)
    BY <1>1, <1>3 DEF ReadWell
  <2>2. TakenIs(x, w, e, t, c, m, kept, close, new)
    BY <1>1
  <2> HIDE DEF kept, close
  <2>3. Took(x, w, e, t, c, m, kept, new)
    BY <1>1, <2>1, <2>2 DEF Took
  <2>4. \/ m.kind \in {"SCCCN", "StopCCN", "OCCN"} \/ m.kind = "ICCN" \/ m.kind = "CDN"
        \/ m.kind \in Agreeing \/ m.kind = "ICRQ" \/ m.kind = "SCCRP"
    <3>1. m.kind # "OCRQ"
      BY <1>3 DEF SaneFor, Sane
    <3> QED
      BY Zenon, <3>1, EndIs DEF InHands, MsgInv, LacMsgInv, LnsMsgInv, Agreeing
  <2>5. CASE m.kind \in {"SCCCN", "StopCCN", "OCCN"}
    BY <1>1, <1>3, <2>1, <2>3, <2>5, EasySpoken
  <2>6. CASE m.kind = "ICCN"
    BY <1>1, <1>3, <2>1, <2>3, <2>6, StartSpoken
  <2>7. CASE m.kind = "CDN"
    <3>1. HungUp(v, x, e, t, c, m, kept)
      BY <2>1, <2>7 DEF Does
    <3> QED
      BY <1>1, <2>1, <2>3, <2>7, <3>1, HangSpoken
  <2>8. CASE m.kind \in Agreeing
    <3>1. e = "lac"
      BY <2>8, EndIs DEF InHands, MsgInv, LnsMsgInv, Agreeing
    <3>2. Spoken(v, w, "lac", t, m)
      BY <1>1, <1>3, <2>1, <2>3, <2>8, <3>1, AnswerSpoken DEF Agreeing
    <3> QED
      BY <3>1, <3>2
  <2>9. CASE m.kind = "ICRQ"
    <3>1. e = "lns" /\ c = 0 /\ new \in CallIds("lns") /\ w.call["lns"][new].state = "off" /\ Replies(v, x, t, new)
      BY <1>3, <2>1, <2>9 DEF Does, SaneFor, Sane
    <3>2. /\ t \in TunnelIds("lns") /\ InHands(w, "lns", t, 0, m) /\ Took(x, w, "lns", t, 0, m, kept, new)
          /\ "assigned call" \in kept /\ "message type" \in kept
      BY <2>1, <2>3, <2>9, <3>1
    <3>3. Spoken(v, w, "lns", t, m)
      BY ONLY <2>9, <3>1, <3>2, AskSpoken, CountAssumption, Good(v)
    <3> QED
      BY <3>1, <3>3
  <2>10. CASE m.kind = "SCCRP"
    <3>1. e = "lac" /\ (dials => new \in CallIds("lac") /\ w.call["lac"][new].state = "off")
      BY <2>1, <2>10 DEF Does
    <3>2. Agrees(v, "lac", t)
      BY <1>1, <1>3, <2>1, <2>3, <2>10, <3>1, UpAgrees
    <3> QED
      BY <3>1, <3>2
  <2> QED
    BY <2>4, <2>5, <2>6, <2>7, <2>8, <2>9, <2>10
<1> QED
  BY <1>2, <1>3

\* A step that lets the talk of one tunnel go on.
LEMMA StepAgrees ==
  ASSUME NEW w, IsWorld(w), NEW v, IsWorld(v), NEW e \in End, NEW s \in TunnelIds(e), NEW h, h = <<>>, Talks(v, w, e, s, h)
  PROVE  Agreed(w) => Agreed(v)
BY AgreedByTalks

\* A step by which a tunnel is lost or closes.
LEMMA LostAgrees ==
  ASSUME NEW w, IsWorld(w), NEW v, IsWorld(v), NEW e \in End, NEW s \in TunnelIds(e), Within(v, w, e, s),
         Doomed(v.tun[e][s]) \/ ~ Live(v.tun[e][s])
  PROVE  Agreed(w) => Agreed(v)
<1> DEFINE h == <<>>
<1>1. h = <<>>
  OBVIOUS
<1> HIDE DEF h
<1>2. Talks(v, w, e, s, h)
  BY DoomedTalks
<1> QED
  BY <1>1, <1>2, StepAgrees

\* A step that changes one call.
LEMMA OneAgrees ==
  ASSUME NEW w, IsWorld(w), NEW v, IsWorld(v), NEW e \in End, NEW s \in TunnelIds(e), Within(v, w, e, s),
         NEW c \in CallIds(e), NEW k, OnlyCall(v, w, e, c, k), Follows(k, w.call[e][c], s)
  PROVE  Agreed(w) => Agreed(v)
<1> DEFINE h == <<>>
<1>1. h = <<>>
  OBVIOUS
<1> HIDE DEF h
<1>2. Talks(v, w, e, s, h)
  BY OneTalks
<1> QED
  BY <1>1, <1>2, StepAgrees

\* A step that closes a call.
LEMMA HangAgrees ==
  ASSUME CountAssumption, NEW w, IsWorld(w), NEW v, IsWorld(v), NEW e \in End, NEW s \in TunnelIds(e), Within(v, w, e, s),
         NEW c \in CallIds(e), Lives(w.call[e][c], s), Closed(v, w, e, c)
  PROVE  Agreed(w) => Agreed(v)
<1> DEFINE h == <<>>
<1>1. h = <<>> /\ h \in Seq(Message)
  OBVIOUS
<1> HIDE DEF h
<1>2. Talks(v, w, e, s, h)
  BY <1>1, HangsTalks
<1> QED
  BY <1>1, <1>2, StepAgrees

\* A step that places a call.
LEMMA PlaceAgrees ==
  ASSUME CountAssumption, NEW w, IsWorld(w), NEW v, IsWorld(v), NEW t \in TunnelIds("lac"), Within(v, w, "lac", t),
         NEW c \in CallIds("lac"), w.call["lac"][c].state = "off", Placed(v, w, t, c)
  PROVE  Agreed(w) => Agreed(v)
<1> DEFINE h == <<>>
<1>1. h = <<>> /\ h \in Seq(Message) /\ "lac" \in End
  BY EndIs
<1> HIDE DEF h
<1>2. Talks(v, w, "lac", t, h)
  BY <1>1, PlaceTalks
<1> QED
  BY <1>1, <1>2, StepAgrees

\* The first message of tunnel t of e is in hand in w.
TakesFirst(w, r, e, t, m) ==
  /\ r.box[e][t] # <<>> /\ m = Head(r.box[e][t]) /\ w.box[e][t] = Tail(r.box[e][t])
  /\ \A f \in End : \A x \in TunnelIds(f) : f # e \/ x # t => w.box[f][x] = r.box[f][x]
  /\ w.call = r.call /\ Goes(w.tun[e][t], r.tun[e][t])

\* A step that takes a message.
LEMMA SpokenAgrees ==
  ASSUME NEW r, IsWorld(r), NEW e \in End, NEW s \in TunnelIds(e), NEW m, NEW w, TakesFirst(w, r, e, s, m),
         NEW v, IsWorld(v), Within(v, r, e, s), Spoken(v, w, e, s, m) \/ Agrees(v, e, s)
  PROVE  Agreed(r) => Agreed(v)
<1> SUFFICES ASSUME Agreed(r) PROVE Agreed(v)
  OBVIOUS
<1>1. CASE Agrees(v, e, s)
  BY <1>1, AgreedHere DEF Agrees
<1>2. CASE Spoken(v, w, e, s, m)
  <2>1. Goes(v.tun[e][s], r.tun[e][s])
    BY <1>2 DEF Spoken, TakesFirst, Goes
  <2>2. ASSUME NEW t \in TunnelIds("lac"), NEW n \in TunnelIds("lns"), Own(e, s, t, n), Sound(v, t, n), Talk(r, "lac", <<>>, t, n)
        PROVE  Talk(v, "lac", <<>>, t, n)
    <3>1. Talk(r, e, <<>>, t, n)
      BY <2>2, NothingInHand
    <3>2. Talk(w, e, <<m>>, t, n)
      <4> HIDE <2>2
      <4>1. /\ r.box[e][s] # <<>> /\ m = Head(r.box[e][s]) /\ w.box[e][s] = Tail(r.box[e][s])
            /\ \A f \in End : \A x \in TunnelIds(f) : f # e \/ x # s => w.box[f][x] = r.box[f][x]
            /\ w.call = r.call
        BY DEF TakesFirst
      <4>2. Own(e, s, t, n)
        BY <2>2
      <4> QED
        BY <3>1, <4>1, <4>2, InHand
    <3>3. Talk(v, e, <<>>, t, n)
      BY <1>2, <2>2, <3>2 DEF Spoken
    <3> QED
      BY <3>3, NothingInHand
  <2> QED
    BY <2>1, <2>2, AgreedAfter
<1> QED
  BY <1>1, <1>2

-----------------------------------------------------------------------------
(* The steps.                                                               *)

\* The state of the system is a world.
LEMMA BecomeIs ==
  ASSUME NEW v, IsWorld(v), Become(v)
  PROVE  World' = v
BY DEF IsWorld, Become, World

\* What is known of a message is about the world and the configuration.
LEMMA MsgStays ==
  ASSUME NEW v, IsWorld(v), Become(v), conf' = conf, mishaps' = 0 => mishaps = 0, NEW e, NEW t, NEW m, MsgInv(v, e, t, m)
  PROVE  MsgInv(World, e, t, m)'
<1>1. World' = v
  BY BecomeIs
<1>2. (Odd => Odd') /\ \A s : Past(v, s) => Past(World, s)'
  BY <1>1 DEF Past, Odd
<1>3. (Secret' <=> Secret) /\ (Up(World, "lac", t)' <=> Up(v, "lac", t))
  BY <1>1 DEF Secret, HasSecret, Up
<1>4. LacMsgInv(v, t, m) => LacMsgInv(World, t, m)'
  BY <1>2, <1>3 DEF LacMsgInv
<1>5. LnsMsgInv(v, m) => LnsMsgInv(World, m)'
  BY <1>2 DEF LnsMsgInv
<1> QED
  BY <1>1, <1>2, <1>4, <1>5 DEF MsgInv, Knows

\* The invariant is about the world and the configuration.
LEMMA BecomeEnds ==
  ASSUME NEW v, GoodEnds(v), Become(v), conf' = conf, mishaps' = 0 => mishaps = 0,
         \A e \in End : \A t \in TunnelIds(e) : BoxInv(World, e, t)'
  PROVE  Good(World)'
<1>1. World' = v
  BY BecomeIs DEF GoodEnds
<1>2. (Ill => Ill') /\ \A s : Past(v, s) => Past(World, s)'
  BY <1>1 DEF Past, Odd, Ill
<1>3. Secret' <=> Secret
  BY DEF Secret, HasSecret
<1>4. \A e, t : Up(World, e, t)' <=> Up(v, e, t)
  BY <1>1 DEF Up
<1>5. IsWorld(World)'
  BY <1>1 DEF GoodEnds, IsWorld
<1>6. \A e, t : TunInv(v, e, t, v.tun[e][t]) => TunInv(World, e, t, World.tun[e][t])'
  <2>1. \A t, u : LacTunInv(World, t, u)' <=> LacTunInv(v, t, u)
    BY <1>1, <1>3 DEF LacTunInv, Knows
  <2>2. \A u : LnsTunInv(v, u) => LnsTunInv(World, u)'
    BY <1>2 DEF LnsTunInv, HasSecret
  <2> QED
    BY <1>1, <2>1, <2>2 DEF TunInv
<1>7. \A t : Alone(v, t, v.tun["lns"][t]) => Alone(World, t, World.tun["lns"][t])'
  BY <1>1 DEF Alone
<1>8. \A e, c : CallInv(v, e, v.call[e][c]) => CallInv(World, e, World.call[e][c])'
  BY <1>1, <1>2, <1>4 DEF CallInv, Sends
<1>9. PoolInv(World)'
  BY <1>1 DEF GoodEnds, PoolInv, LiveCalls
<1> QED
  BY <1>5, <1>6, <1>7, <1>8, <1>9 DEF Good, GoodEnds

\* A step that makes a good world.
LEMMA BecomeGood ==
  ASSUME NEW v, Good(v), Become(v), conf' = conf, mishaps' = 0 => mishaps = 0
  PROVE  Good(World)'
<1>1. World' = v /\ IsWorld(v)
  BY BecomeIs DEF Good
<1>2. ASSUME NEW e, NEW t, BoxInv(v, e, t) PROVE BoxInv(World, e, t)'
  <2>1. ASSUME NEW m, MsgInv(v, e, t, m) PROVE MsgInv(World, e, t, m)'
    BY <1>1, <2>1, MsgStays
  <2> QED
    BY <1>1, <1>2, <2>1 DEF BoxInv
<1>3. GoodEnds(v) /\ \A e \in End : \A t \in TunnelIds(e) : BoxInv(World, e, t)'
  BY <1>2 DEF Good, GoodEnds
<1> QED
  BY <1>3, BecomeEnds

\* The world of the system is good, and its tunnels agree as long as no message had a flaw
\* or was unasked, and no ZLB was counted in.
Fine(w, f) == Good(w) /\ (f = 0 => Agreed(w))

\* An end is one ahead only when a ZLB was counted in.
AheadInv ==
  /\ ahead = [e \in End |-> ahead[e]] /\ \A e \in End : ahead[e] \in [TunnelIds(e) -> BOOLEAN]
  /\ \A e \in End : \A t \in TunnelIds(e) : ahead[e][t] => mishaps # 0
ZlbsInv == zlbs = [e \in End |-> zlbs[e]] /\ \A e \in End : zlbs[e] \in [TunnelIds(e) -> SUBSET Zlb]

\* The invariant of the system.
Rest == asked \in SUBSET TunnelIds("lac") /\ conf \in Confs /\ mishaps \in 0 .. MaxMishaps
IInv == Fine(World, mishaps) /\ AheadInv /\ ZlbsInv /\ Rest

\* The tunnels agree in the next state when they do in its world.
LEMMA BecomeAgreed ==
  ASSUME NEW v, IsWorld(v), Become(v), Agreed(v)
  PROVE  Agreed(World)'
<1>1. World' = v
  BY BecomeIs
<1> QED
  BY <1>1 DEF Agreed, Settles, Sound, Doomed, Live, Talk, ToLac, ToLns, Has

\* What a step has to show.
LEMMA BecomeFine ==
  ASSUME NEW v, Good(v), Become(v), conf' = conf, mishaps' = 0 => mishaps = 0 /\ Agreed(v)
  PROVE  Fine(World, mishaps)'
<1>1. Good(World)'
  BY BecomeGood
<1>2. ASSUME mishaps' = 0 PROVE Agreed(World)'
  BY <1>2, BecomeAgreed DEF Good
<1> QED
  BY <1>1, <1>2 DEF Fine

\* The world when it is not under change.
LEMMA WorldIs ==
  World.tun = tun /\ World.call = call /\ World.box = box /\ World.used = used /\ World.local = local
BY DEF World

\* What a handler does to the world w, with a call that is new when it makes one.
MayMake(w, e, m, dials, new) == dials \/ m.kind = "ICRQ" => new \in CallIds(e) /\ w.call[e][new].state = "off"
Ran(w, e, t, c, m) ==
  \E v, r, dials, new :
    /\ Good(v) /\ Within(v, w, e, t) /\ Become(v) /\ conf' = conf
    /\ MayMake(w, e, m, dials, new) /\ Did(v, w, e, t, c, m, r, dials, new)
    /\ mishaps' = 0 => mishaps = 0 /\ ReadWell(r, m.kind, SaneFor(w, e, t, c, m))

\* The message has no flaw when none had one after it.
LEMMA RunIs ==
  ASSUME CountAssumption, PoolAssumption, conf \in Conf, mishaps \in Nat, NEW w, Good(w), w.call = call, NEW e \in End,
         NEW t \in TunnelIds(e), NEW c, NEW m, Takes(w, e, t, c, m), NEW some, Run(w, e, t, c, m, some)
  PROVE  Ran(w, e, t, c, m)
<1>1. PICK flaw \in some, started \in BOOLEAN, dials \in BOOLEAN, new \in NewIds(e) \cup {0} :
        /\ dials => m.kind = "SCCRP"
        /\ (dials \/ m.kind = "ICRQ") <=> new # 0
        /\ Become(Handle(w, e, t, c, m, flaw, started, dials, new))
        /\ mishaps' = mishaps + (IF flaw = "none" THEN 0 ELSE 1)
        /\ conf' = conf
  BY DEF Run
<1>2. MayMake(w, e, m, dials, new) /\ Makes(w, e, m, dials, new)
  <2>1. ASSUME new # 0 PROVE new \in CallIds(e) /\ w.call[e][new].state = "off"
    BY <1>1, <2>1 DEF NewIds
  <2> QED
    BY <1>1, <2>1 DEF MayMake, Makes, Live
<1> DEFINE v == Handle(w, e, t, c, m, flaw, started, dials, new)
<1>3. v = Handle(w, e, t, c, m, flaw, started, dials, new) /\ Become(v) /\ conf' = conf /\ (dials => m.kind = "SCCRP")
  BY <1>1
<1> HIDE DEF v
<1> DEFINE r == ReadOf(w, e, t, c, m, flaw)
<1>4. Good(v) /\ Within(v, w, e, t) /\ Did(v, w, e, t, c, m, r, dials, new)
  BY <1>2, <1>3, HandleGood
<1>5. ASSUME mishaps' = 0 PROVE mishaps = 0 /\ ReadWell(r, m.kind, SaneFor(w, e, t, c, m))
  <2>1. flaw = "none" /\ mishaps = 0
    BY <1>1, <1>5
  <2>2. r = ReadOf(w, e, t, c, m, "none")
    BY <2>1
  <2> HIDE DEF r
  <2> QED
    BY <2>1, <2>2, ReadsWell
<1> HIDE DEF r
<1> QED
  BY <1>2, <1>3, <1>4, <1>5 DEF Ran

\* l2tp_call.
LEMMA OpenTunnelFine ==
  ASSUME CountAssumption, PoolAssumption, conf \in Conf, Good(World), mishaps = 0 => Agreed(World),
         NEW t \in TunnelIds("lac"), OpenTunnel(t)
  PROVE  Fine(World, mishaps)'
<1> DEFINE u == tun["lac"][t]
           h == conf.lacChallenges
           z == [[u EXCEPT !.state = "SCCRQ"] EXCEPT !.them = h]
           v == WithTun(World, "lac", t, z)
<1>1. u.state = "off" /\ "lac" \in End /\ h \in BOOLEAN /\ conf' = conf /\ mishaps' = mishaps /\ "SCCRQ" \in TunnelState
  BY EndIs DEF OpenTunnel, Conf, TunnelState
<1>2. IsWorld(World) /\ u \in Tunnel /\ TunInv(World, "lac", t, u)
  <2>1. World.tun["lac"][t] = u /\ IsWorld(World)
    BY WorldIs DEF Good
  <2> QED
    BY <1>1, <2>1, WorldFields DEF Good
<1>3. z \in Tunnel /\ z.state = "SCCRQ" /\ z.them = h /\ z.tid = u.tid
  BY <1>1, <1>2 DEF Tunnel
<1>4. Become(v)
  <2>1. WithStates(World, "lac", t, "SCCRQ", h) = v
    <3>1. "lac" \in End /\ h \in BOOLEAN /\ "SCCRQ" \in TunnelState
      BY <1>1
    <3> DEFINE s == "SCCRQ"
    <3>2. s \in TunnelState
      BY <3>1
    <3> HIDE DEF h, s
    <3>3. WithStates(World, "lac", t, s, h) = Stepped(World, "lac", t, s, h)
      BY <3>1, <3>2, TunSteps
    <3>4. Stepped(World, "lac", t, s, h) = WithTun(World, "lac", t, [[World.tun["lac"][t] EXCEPT !.state = s] EXCEPT !.them = h])
      BY DEF Stepped
    <3>5. World.tun["lac"][t] = u
      BY WorldIs
    <3> HIDE DEF u
    <3> QED
      BY <3>3, <3>4, <3>5 DEF s
  <2>2. Become(WithStates(World, "lac", t, "SCCRQ", h))
    BY DEF Become, WithStates, World, OpenTunnel
  <2> HIDE DEF v
  <2> QED
    BY <2>1, <2>2
<1>5. v = WithTun(World, "lac", t, z)
  OBVIOUS
<1> HIDE DEF z, v
<1>6. TunInv(World, "lac", t, z)
  BY <1>1, <1>2, <1>3, EndIs DEF TunInv, LacTunInv
<1>7. Good(v)
  <2>1. World.tun["lac"][t] = u
    BY WorldIs
  <2>2. u.tid = 0
    BY <1>1, <1>2 DEF TunInv, LacTunInv
  <2>3. z.stuck = u.stuck /\ z.heard = u.heard
    BY <1>2, <1>3 DEF Tunnel, z
  <2>4. Keeps(z, u)
    BY <1>1, <1>3, <2>2, <2>3 DEF Keeps, Live
  <2> QED
    BY <1>1, <1>3, <1>5, <1>6, <2>1, <2>4, TunGood
<1>8. Agreed(World) => Agreed(v)
  <2>1. z.tid = 0
    BY <1>1, <1>2, <1>3 DEF TunInv, LacTunInv
  <2>2. v.tun["lac"][t] = z /\ Within(v, World, "lac", t)
    <3>1. /\ v.tun["lac"][t] = z /\ v.call = World.call /\ v.box = World.box
          /\ \A f \in End : \A s \in TunnelIds(f) : f # "lac" \/ s # t => v.tun[f][s] = World.tun[f][s]
      BY <1>1, <1>2, <1>3, <1>5, TunFields
    <3> QED
      BY <1>1, <3>1, TunWithin
  <2>3. Settles(v.tun["lac"][t])
    BY <2>1, <2>2 DEF Settles
  <2>4. \A x \in TunnelIds("lac") : \A n \in TunnelIds("lns") : Own("lac", t, x, n) => ~ Sound(v, x, n)
    BY <2>1, <2>2, EndIs, IdsArePositive DEF Own, Sound
  <2> QED
    BY <1>1, <2>2, <2>3, <2>4, AgreedHere
<1> QED
  BY <1>1, <1>4, <1>7, <1>8, BecomeFine

\* get_call of a new tunnel, for an SCCRQ.
LEMMA TakeRequestFine ==
  ASSUME CountAssumption, PoolAssumption, conf \in Conf, Good(World), mishaps \in Nat, mishaps = 0 => Agreed(World),
         NEW t \in TunnelIds("lac"), NEW n \in TunnelIds("lns"), TakeRequest(t, n)
  PROVE  Fine(World, mishaps)'
<1> DEFINE u == tun["lns"][n]
           x == [u EXCEPT !.state = "idle"]
           z == [x EXCEPT !.heard = t]
           y == WithTun(World, "lns", n, x)
           w == WithTun(World, "lns", n, z)
           m == [Plain("SCCRQ", t, 0, t) EXCEPT !.chal = conf.lacChallenges]
<1>1. u.state = "off" /\ "lns" \in End /\ t \in Nat /\ t # 0 /\ conf.lacChallenges \in BOOLEAN
  <2>1. u.state = "off" /\ conf.lacChallenges \in BOOLEAN
    BY DEF TakeRequest, Conf
  <2> QED
    BY <2>1, EndIs DEF CountAssumption, TunnelIds, End
<1>2. IsWorld(World) /\ u \in Tunnel /\ TunInv(World, "lns", n, u) /\ World.tun["lns"][n] = u
  <2>1. World.tun["lns"][n] = u /\ IsWorld(World)
    BY WorldIs DEF Good
  <2> QED
    BY <1>1, <2>1, WorldFields DEF Good
<1>3. x \in Tunnel /\ z \in Tunnel /\ z.state = "idle" /\ z.heard = t /\ z.tid = u.tid /\ z.stuck = u.stuck
  BY <1>1, <1>2 DEF Tunnel, TunnelState
<1>4. [World EXCEPT !.tun["lns"][n].state = "idle", !.tun["lns"][n].heard = t] = w
  <2>1. [World EXCEPT !.tun["lns"][n].state = "idle", !.tun["lns"][n].heard = t]
           = WithTun(y, "lns", n, [y.tun["lns"][n] EXCEPT !.heard = t])
    BY <1>2 DEF WithTun
  <2> HIDE DEF x
  <2>2. y.tun["lns"][n] = x
    <3>1. y = WithTun(World, "lns", n, x)
      OBVIOUS
    <3> HIDE DEF y
    <3> QED
      BY <1>1, <1>2, <1>3, <3>1, TunFields
  <2>3. WithTun(y, "lns", n, z) = w
    <3> HIDE DEF z
    <3>1. "lns" \in End /\ IsWorld(World)
      BY <1>1, <1>2
    <3> QED
      BY <3>1, TunTwice
  <2> HIDE DEF y, w
  <2> QED
    BY <2>1, <2>2, <2>3
<1>5. \E some : Run(w, "lns", n, 0, m, some)
  <2> HIDE DEF w
  <2> QED
    BY <1>4 DEF TakeRequest
<1>6. w = WithTun(World, "lns", n, z)
  OBVIOUS
<1>7. m \in Message /\ m.kind = "SCCRQ" /\ m.id = t
  BY <1>1 DEF Plain, Message, Kind
<1> HIDE DEF x, z, w, m
<1>8. TunInv(World, "lns", n, z) /\ Alone(World, n, z) /\ Keeps(z, u)
  BY <1>1, <1>2, <1>3, EndIs, IdsArePositive DEF TunInv, LnsTunInv, Live, Alone, Answered, Keeps
<1>9. Good(w)
  BY <1>1, <1>2, <1>3, <1>6, <1>8, TunGood
<1>10. w.call = call /\ w.tun["lns"][n] = z
  BY <1>1, <1>2, <1>3, <1>6, TunFields, WorldIs
<1>11. Takes(w, "lns", n, 0, m)
  <2>1. w.tun["lns"][n].heard = m.id
    BY <1>3, <1>7, <1>10
  <2> QED
    BY <1>3, <1>7, <1>10, <2>1 DEF Takes, Live
<1>12. PICK v : Good(v) /\ Within(v, w, "lns", n) /\ Become(v) /\ conf' = conf /\ (mishaps' = 0 => mishaps = 0)
  <2>1. Ran(w, "lns", n, 0, m)
    BY <1>1, <1>5, <1>9, <1>10, <1>11, RunIs
  <2> QED
    BY <2>1 DEF Ran
<1>13. Agreed(World) => Agreed(v)
  <2>1. Within(v, World, "lns", n)
    <3>1. Within(w, World, "lns", n)
      <4>1. /\ w.call = World.call /\ w.box = World.box
            /\ \A f \in End : \A s \in TunnelIds(f) : f # "lns" \/ s # n => w.tun[f][s] = World.tun[f][s]
        BY <1>1, <1>2, <1>3, <1>6, TunFields
      <4> QED
        BY <1>1, <4>1, TunWithin
    <3> QED
      BY <1>1, <1>12, <3>1, WithinAgain
  <2>2. \A s \in TunnelIds("lac") : \A i \in TunnelIds("lns") : Own("lns", n, s, i) => ~ Sound(v, s, i)
    <3> SUFFICES ASSUME NEW s \in TunnelIds("lac"), v.tun["lac"][s].tid = n PROVE FALSE
      BY DEF Own, Sound
    <3>1. World.tun["lac"][s].tid = n /\ TunInv(World, "lac", s, World.tun["lac"][s])
      BY <2>1, EndIs DEF Within, Kin, SameTun, Good
    <3>2. Knows(World, "lns", n, s)
      BY <3>1, EndIs, IdsArePositive DEF TunInv, LacTunInv
    <3>3. u.tid = 0
      BY <1>1, <1>2, EndIs DEF TunInv, LnsTunInv
    <3> QED
      BY <1>1, <1>2, <3>2, <3>3, EndIs, IdsArePositive DEF Knows
  <2> QED
    BY <1>1, <2>1, <2>2, EndIs, AgreedHere
<1> QED
  BY <1>12, <1>13, BecomeFine

\* The messages that are left are as good, and the first one may be taken.
LEMMA TailGood ==
  ASSUME NEW w, Good(w), NEW e \in End, NEW t \in TunnelIds(e), w.box[e][t] # <<>>,
         NEW v, v = WithBox(w, e, t, Tail(w.box[e][t]))
  PROVE  /\ Good(v) /\ v.tun = w.tun /\ v.call = w.call /\ v.box[e][t] = Tail(w.box[e][t]) /\ Within(v, w, e, t)
         /\ Head(w.box[e][t]) \in Message /\ MsgInv(v, e, t, Head(w.box[e][t]))
         /\ TakesFirst(v, w, e, t, Head(w.box[e][t]))
<1> DEFINE b == w.box[e][t]
           r == Tail(b)
<1>1. IsWorld(w) /\ b \in Seq(Message) /\ BoxInv(w, e, t) /\ Len(b) \in Nat /\ b # <<>>
  BY WorldFields DEF Good
<1>2. \A i \in 1 .. Len(b) : MsgInv(w, e, t, b[i])
  BY <1>1 DEF BoxInv
<1>3. v = WithBox(w, e, t, r)
  OBVIOUS
<1> HIDE DEF b
<1>4. r \in Seq(Message) /\ Len(r) = Len(b) - 1 /\ \A i \in 1 .. Len(r) : r[i] = b[i + 1]
  BY <1>1, HeadTailProperties
<1>5. 1 \in 1 .. Len(b) /\ Head(b) = b[1] /\ Head(b) \in Message
  BY <1>1, HeadTailProperties, EmptySeq
<1> HIDE DEF r
<1>6. \A i \in 1 .. Len(r) : MsgInv(w, e, t, r[i])
  BY <1>1, <1>2, <1>4
<1>7. Good(v)
  BY <1>3, <1>4, <1>6, BoxGood
<1>8. /\ v.tun = w.tun /\ v.call = w.call /\ v.box[e][t] = r
      /\ \A f \in End : \A s \in TunnelIds(f) : f # e \/ s # t => v.box[f][s] = w.box[f][s]
  <2>1. IsWorld(w) /\ e \in End /\ t \in TunnelIds(e) /\ r \in Seq(Message) /\ v = WithBox(w, e, t, r)
    BY <1>1, <1>3, <1>4
  <2> QED
    BY ONLY <2>1, BoxFields
<1>9. ASSUME NEW m, MsgInv(w, e, t, m) PROVE MsgInv(v, e, t, m)
  <2>1. LacMsgInv(w, t, m) => LacMsgInv(v, t, m)
    BY <1>8 DEF LacMsgInv, Past, Up, Knows
  <2>2. LnsMsgInv(w, m) => LnsMsgInv(v, m)
    BY <1>8 DEF LnsMsgInv, Past, Up, Knows
  <2> QED
    BY <1>8, <1>9, <2>1, <2>2 DEF MsgInv, Knows
<1>10. Within(v, w, e, t)
  <2>1. /\ e \in End /\ v.tun = w.tun /\ v.call = w.call
        /\ \A f \in End : \A s \in TunnelIds(f) : f # e \/ s # t => v.box[f][s] = w.box[f][s]
    BY Zenon, <1>8
  <2> QED
    BY ONLY Zenon, <2>1, BoxWithin
<1>11. TakesFirst(v, w, e, t, Head(b))
  <2>1. Goes(v.tun[e][t], w.tun[e][t])
    BY <1>8 DEF Goes
  <2> QED
    BY ONLY Zenon, <1>1, <1>8, <2>1 DEF TakesFirst, b, r
<1> QED
  BY <1>2, <1>5, <1>7, <1>8, <1>9, <1>10, <1>11 DEF b, r

\* The states of the tunnels are the same.
LikeStates(v, w) == \A f \in End : \A s \in TunnelIds(f) : v.tun[f][s].state = w.tun[f][s].state

\* A tunnel changed to what it is.
LEMMA TunSelf ==
  ASSUME NEW w, IsWorld(w), NEW e \in End, NEW t \in TunnelIds(e)
  PROVE  WithTun(w, e, t, w.tun[e][t]) = w
<1> DEFINE h == w.tun
<1>1. /\ w = [tun |-> h, call |-> w.call, box |-> w.box, used |-> w.used, local |-> w.local]
      /\ h = [d \in End |-> h[d]] /\ h[e] \in [TunnelIds(e) -> Tunnel]
  BY DEF IsWorld
<1>2. WithTun(w, e, t, h[e][t]) = [w EXCEPT !.tun = [h EXCEPT ![e] = [h[e] EXCEPT ![t] = h[e][t]]]]
  BY DEF WithTun
<1> HIDE DEF h
<1>3. [h[e] EXCEPT ![t] = h[e][t]] = h[e]
  BY <1>1
<1>4. [h EXCEPT ![e] = h[e]] = h
  BY <1>1
<1>5. [w EXCEPT !.tun = h] = w
  BY <1>1
<1> QED
  BY <1>2, <1>3, <1>4, <1>5 DEF h

\* The messages of a peer come in sequence from now on.
Hears(w, e, t, h) == WithTun(w, e, t, [w.tun[e][t] EXCEPT !.heard = h])

\* An LNS has heard its peer when it made the tunnel, and a LAC when it knows its id.
LEMMA HearsGood ==
  ASSUME NEW w, Good(w), NEW e \in End, NEW t \in TunnelIds(e), NEW h \in Nat,
         e = "lns" => h = w.tun[e][t].heard, e = "lac" /\ w.tun[e][t].heard # 0 => h = w.tun[e][t].heard,
         NEW v, v = Hears(w, e, t, h)
  PROVE  /\ Good(v) /\ v.call = w.call /\ v.box = w.box /\ v.tun[e][t].heard = h /\ LikeStates(v, w)
         /\ Stands(v.tun[e][t], w.tun[e][t]) /\ Within(v, w, e, t)
         /\ \A f \in End : \A s \in TunnelIds(f) : v.tun[f][s].tid = w.tun[f][s].tid
<1> DEFINE u == w.tun[e][t]
           z == [u EXCEPT !.heard = h]
<1>1. IsWorld(w) /\ u \in Tunnel /\ TunInv(w, e, t, u) /\ (e = "lns" => Alone(w, t, u))
  BY WorldFields DEF Good
<1>2. z \in Tunnel /\ z.state = u.state /\ z.tid = u.tid /\ z.them = u.them /\ z.heard = h /\ Stands(z, u)
  BY <1>1 DEF Tunnel, Stands
<1>3. v = WithTun(w, e, t, z)
  BY DEF Hears
<1> HIDE DEF z
<1>4. TunInv(w, e, t, z)
  <2>1. CASE e = "lns"
    BY <1>1, <1>2, <2>1, EndIs DEF TunInv, LnsTunInv, Live
  <2>2. CASE e = "lac"
    <3>1. LacTunInv(w, t, u) /\ u.tid \in {0} \cup TunnelIds("lns")
      BY <1>1, <2>2, EndIs DEF TunInv
    <3>2. u.tid # 0 => h = u.tid
      BY <2>2, <3>1, EndIs, IdsArePositive DEF LacTunInv
    <3>3. LacTunInv(w, t, z)
      BY <1>2, <3>1, <3>2 DEF LacTunInv
    <3> QED
      BY <1>1, <1>2, <2>2, <3>3, EndIs DEF TunInv
  <2> QED
    BY <2>1, <2>2, EndIs
<1>5. e = "lns" => Alone(w, t, z)
  BY <1>1, <1>2 DEF Alone
<1>6. Good(v)
  <2>1. Keeps(z, u)
    BY <1>2, EndIs DEF Keeps, Live, Stands
  <2> QED
    BY <1>2, <1>3, <1>4, <1>5, <2>1, TunGood
<1>7. /\ v.call = w.call /\ v.tun[e][t] = z /\ v.box = w.box
      /\ \A f \in End : \A s \in TunnelIds(f) : f # e \/ s # t => v.tun[f][s] = w.tun[f][s]
  BY <1>1, <1>2, <1>3, TunFields
<1>8. Within(v, w, e, t)
  BY <1>7, TunWithin
<1> QED
  BY <1>2, <1>6, <1>7, <1>8 DEF LikeStates

\* A message that is dropped: it comes from a tunnel that is not the peer, or is for a call
\* that is gone.
LEMMA DropSpoken ==
  ASSUME CountAssumption, NEW y, Good(y), NEW e \in End, NEW t \in TunnelIds(e), NEW m \in Message, MsgInv(y, e, t, m),
         y.tun[e][t].heard \notin {0, m.from} \/ (m.cid # 0 /\ m.cid \notin CallsOf(y, e, t))
  PROVE  Spoken(y, y, e, t, m)
<1>1. Goes(y.tun[e][t], y.tun[e][t]) /\ Within(y, y, e, t)
  BY DEF Goes, Within, Kin, SameTun
<1>2. CASE y.tun[e][t].heard \notin {0, m.from}
  <2>1. e = "lac"
    BY <1>2, EndIs DEF MsgInv
  <2>2. ASSUME NEW n \in TunnelIds("lns"), Sound(y, t, n), Talk(y, e, <<m>>, t, n)
        PROVE  Talk(y, e, <<>>, t, n)
    <3>1. m.from # n
      <4>1. LacTunInv(y, t, y.tun["lac"][t]) /\ y.tun["lac"][t].tid = n /\ n # 0
        BY <2>1, <2>2, EndIs, IdsArePositive DEF Good, TunInv, Sound
      <4> QED
        BY <1>2, <2>1, <4>1 DEF LacTunInv
    <3>2. ToLac(y, e, <<m>>, t, n) = ToLac(y, e, <<>>, t, n)
      <4>1. \A x : Has(<<m>>, x) => x = m
        BY DEF Has
      <4>2. \A x : ~ Has(<<>>, x)
        BY DEF Has
      <4> DEFINE h == <<m>>
                 f == <<>>
      <4>3. (\A x : Has(h, x) => x = m) /\ (\A x : ~ Has(f, x))
        BY <4>1, <4>2
      <4> HIDE DEF h, f
      <4>4. ToLac(y, e, h, t, n) = ToLac(y, e, f, t, n)
        BY <3>1, <4>3 DEF ToLac
      <4> QED
        BY <4>4 DEF h, f
    <3>3. ToLns(y, e, <<m>>, n) = ToLns(y, e, <<>>, n)
      BY <2>1 DEF ToLns
    <3> QED
      BY <2>2, <3>2, <3>3 DEF Talk
  <2> QED
    BY <1>1, <2>1, <2>2 DEF Spoken, Own
<1>3. CASE m.cid # 0 /\ m.cid \notin CallsOf(y, e, t)
  <2>1. \A c \in CallIds(e) : Opens(y.call[e][c], t) => c # m.cid
    BY <1>3 DEF CallsOf, Opens, Lives
  <2>2. e = "lns" => m.kind \notin Asking
    BY <1>3 DEF MsgInv, LnsMsgInv, Asking
  <2>3. Done(y, e, t, m)
    BY <1>3, <2>1, <2>2 DEF Done
  <2> DEFINE h == <<m>>
  <2>4. Talks(y, y, e, t, h)
    <3> HIDE DEF h
    <3> QED
      BY <1>1 DEF Talks
  <2> QED
    BY <2>3, <2>4, TalksDone DEF Good
<1> QED
  BY <1>2, <1>3

\* check_control and handle_packet.
LEMMA ReceiveFine ==
  ASSUME CountAssumption, PoolAssumption, conf \in Conf, Good(World), mishaps \in Nat, mishaps = 0 => Agreed(World),
         NEW e \in End, NEW t \in TunnelIds(e), Receive(e, t), ahead[e][t] => mishaps # 0
  PROVE  Fine(World, mishaps)'
<1> DEFINE u == tun[e][t]
           m == Head(box[e][t])
           y == WithBox(World, e, t, Tail(World.box[e][t]))
           h == IF u.heard = 0 THEN m.from ELSE u.heard
           w == Hears(y, e, t, h)
           a == [World EXCEPT !.box[e][t] = Tail(@), !.tun[e][t].heard = IF @ = 0 THEN m.from ELSE @]
           other == ~ InSequence(e, t, m) \/ (m.cid # 0 /\ m.cid \notin CallsOf(World, e, t))
<1>1. /\ Live(u) /\ box[e][t] # <<>>
      /\ IF other THEN /\ Become([a EXCEPT !.tun[e][t].heard = tun[e][t].heard])
                       /\ conf' = conf /\ mishaps' = mishaps
         ELSE Run(a, e, t, m.cid, m, FlawsOf(m))
  BY DEF Receive
<1>2. IsWorld(World) /\ World.tun[e][t] = u /\ u \in Tunnel /\ World.box[e][t] = box[e][t] /\ TunInv(World, e, t, u)
  <2>1. IsWorld(World) /\ World.tun[e][t] = u /\ World.box[e][t] = box[e][t]
    BY WorldIs DEF Good
  <2> QED
    BY <2>1, WorldFields DEF Good
<1>3. /\ Good(y) /\ y.tun = World.tun /\ y.call = World.call /\ m \in Message /\ MsgInv(y, e, t, m)
      /\ Within(y, World, e, t) /\ TakesFirst(y, World, e, t, m)
  <2>1. y = WithBox(World, e, t, Tail(World.box[e][t])) /\ World.box[e][t] # <<>>
    BY <1>1, <1>2
  <2> HIDE DEF y
  <2>2. /\ Good(y) /\ y.tun = World.tun /\ y.call = World.call
        /\ Head(World.box[e][t]) \in Message /\ MsgInv(y, e, t, Head(World.box[e][t]))
        /\ Within(y, World, e, t) /\ TakesFirst(y, World, e, t, Head(World.box[e][t]))
    BY <2>1, TailGood
  <2> QED
    BY <1>2, <2>2
<1>4. h \in Nat
  BY <1>2, <1>3 DEF Tunnel, Message
<1>5. a = w
  <2>1. a = WithTun(y, e, t, [y.tun[e][t] EXCEPT !.heard = IF @ = 0 THEN m.from ELSE @])
    BY <1>2 DEF WithTun, WithBox
  <2>2. y.tun[e][t] = u
    BY <1>2, <1>3
  <2> HIDE DEF a, m, y
  <2>3. [y.tun[e][t] EXCEPT !.heard = IF @ = 0 THEN m.from ELSE @] = [y.tun[e][t] EXCEPT !.heard = h]
    BY <2>2
  <2> QED
    BY <2>1, <2>3 DEF Hears
<1> HIDE DEF a, y
<1>6. y.tun[e][t] = u /\ y.call = call
  BY <1>2, <1>3, WorldIs
<1>7. CASE other
  <2> DEFINE v == [a EXCEPT !.tun[e][t].heard = u.heard]
  <2>1. v = y
    <3> DEFINE z == [u EXCEPT !.heard = h]
    <3>1. z \in Tunnel /\ [z EXCEPT !.heard = u.heard] = u /\ IsWorld(y)
      BY <1>2, <1>3, <1>4 DEF Tunnel, Good
    <3>2. a = WithTun(y, e, t, z)
      BY <1>5, <1>6 DEF Hears
    <3> HIDE DEF z
    <3>3. a.tun[e][t] = z
      BY <3>1, <3>2, TunFields
    <3>4. v = WithTun(a, e, t, [a.tun[e][t] EXCEPT !.heard = u.heard])
      BY DEF WithTun
    <3>5. v = WithTun(a, e, t, u)
      BY <3>1, <3>3, <3>4
    <3> HIDE DEF v
    <3>6. v = WithTun(y, e, t, u)
      BY <3>1, <3>2, <3>5, TunTwice
    <3> QED
      BY <1>6, <3>1, <3>6, TunSelf
  <2>2. Become(v) /\ conf' = conf /\ mishaps' = mishaps
    BY <1>1, <1>7
  <2>3. ASSUME mishaps = 0 PROVE Spoken(y, y, e, t, m)
    <3>1. y.tun[e][t].heard \notin {0, m.from} \/ (m.cid # 0 /\ m.cid \notin CallsOf(y, e, t))
      BY <1>3, <1>6, <1>7, <2>3 DEF CallsOf, InSequence
    <3> HIDE DEF m
    <3> QED
      BY Zenon, <1>3, <3>1, DropSpoken
  <2> HIDE DEF v, m
  <2>4. mishaps = 0 => Agreed(y)
    BY <1>2, <1>3, <2>3, SpokenAgrees DEF Good
  <2> QED
    BY <1>3, <2>1, <2>2, <2>4, BecomeFine
<1>8. CASE ~ other
  <2>1. Run(w, e, t, m.cid, m, FlawsOf(m))
    BY <1>1, <1>5, <1>8
  <2>2. h = m.from /\ (u.heard # 0 => h = u.heard) /\ (e = "lns" => u.heard # 0)
    <3>1. e = "lns" => u.heard # 0
      BY <1>1, <1>2 DEF TunInv, LnsTunInv
    <3> QED
      BY <1>8, <3>1 DEF InSequence
  <2>3. m.cid # 0 => m.cid \in CallIds(e) /\ Live(call[e][m.cid]) /\ call[e][m.cid].tun = t
    <3>1. m.cid # 0 => m.cid \in CallsOf(World, e, t)
      BY <1>8
    <3> HIDE DEF m
    <3> QED
      BY <3>1, WorldIs DEF CallsOf
  <2>4. w = Hears(y, e, t, h)
    OBVIOUS
  <2> HIDE DEF w, h
  <2>5. /\ Good(w) /\ w.call = y.call /\ w.box = y.box /\ w.tun[e][t].heard = h /\ LikeStates(w, y)
        /\ Stands(w.tun[e][t], y.tun[e][t]) /\ Within(w, y, e, t)
        /\ \A f \in End : \A s \in TunnelIds(f) : w.tun[f][s].tid = y.tun[f][s].tid
    <3>1. (e = "lns" => h = y.tun[e][t].heard) /\ (e = "lac" /\ y.tun[e][t].heard # 0 => h = y.tun[e][t].heard)
      BY <1>6, <2>2
    <3>2. Good(y) /\ h \in Nat /\ e \in End /\ t \in TunnelIds(e) /\ w = Hears(y, e, t, h)
      BY <1>3, <1>4, <2>4
    <3> HIDE DEF u, m
    <3> QED
      BY ONLY <3>1, <3>2, HearsGood
  <2>6. MsgInv(w, e, t, m)
    <3>1. \A s \in TunnelIds("lac") : Past(y, s) => Past(w, s)
      BY <2>5, EndIs DEF LikeStates, Past
    <3>2. e = "lac" => (Up(y, e, t) => Up(w, e, t))
      BY <2>5 DEF LikeStates, Up
    <3>3. \A f \in End : \A s \in TunnelIds(f) : \A i : Knows(y, f, s, i) => Knows(w, f, s, i)
      BY <2>5 DEF LikeStates, Knows
    <3>4. e = "lns" => w.tun["lns"][t].heard = y.tun["lns"][t].heard
      BY <1>6, <2>2, <2>5
    <3> HIDE DEF m
    <3> QED
      BY <1>3, <3>1, <3>2, <3>3, <3>4, EndIs DEF MsgInv, LacMsgInv, LnsMsgInv
  <2>7. Live(w.tun[e][t])
    BY Zenon, <1>1, <1>6, <2>5 DEF LikeStates, Live
  <2> DEFINE c == m.cid
  <2>8. Takes(w, e, t, c, m)
    BY <1>3, <1>6, <2>2, <2>3, <2>5, <2>6, <2>7 DEF Takes
  <2>9. \E some : Run(w, e, t, c, m, some)
    BY <2>1
  <2>10. InHands(w, e, t, c, m)
    <3>1. CallIn(w, e, t, c)
      BY <1>6, <2>3, <2>5 DEF CallIn
    <3> QED
      BY <1>3, <2>2, <2>5, <2>6, <2>7, <3>1 DEF InHands
  <2> HIDE DEF c, m
  <2>11. Ran(w, e, t, c, m)
    BY <1>6, <2>5, <2>8, <2>9, RunIs
  <2>12. PICK v, r, dials, new :
           /\ Good(v) /\ Within(v, w, e, t) /\ Become(v) /\ conf' = conf
           /\ MayMake(w, e, m, dials, new) /\ Did(v, w, e, t, c, m, r, dials, new)
           /\ mishaps' = 0 => mishaps = 0 /\ ReadWell(r, m.kind, SaneFor(w, e, t, c, m))
    BY <2>11 DEF Ran
  <2>13. w.tun[e][t].state = World.tun[e][t].state /\ Stands(w.tun[e][t], World.tun[e][t])
    BY <1>3, <2>5 DEF LikeStates
  <2>14. TakesFirst(w, World, e, t, m)
    <3>1. Goes(w.tun[e][t], World.tun[e][t])
      BY <2>13 DEF Goes, Stands, Doomed, Live
    <3> QED
      BY <1>3, <2>5, <3>1 DEF TakesFirst
  <2>15. Within(v, World, e, t)
    <3>1. Within(w, World, e, t)
      BY <1>3, <2>5, WithinAgain
    <3> QED
      BY <2>12, <3>1, WithinAgain
  <2>16. ASSUME mishaps' = 0 PROVE Agreed(v)
    <3>1. Agreed(World) /\ ReadWell(r, m.kind, SaneFor(w, e, t, c, m)) /\ ~ Odd
      BY <2>12, <2>16 DEF Odd
    <3>2. e = "lac" => Settles(w.tun["lac"][t])
      BY <2>13, <3>1 DEF Agreed, Settles, Stands, Doomed, Live
    <3>3. dials \/ m.kind = "ICRQ" => new \in CallIds(e) /\ w.call[e][new].state = "off"
      BY <2>12 DEF MayMake
    <3>4. Spoken(v, w, e, t, m) \/ Agrees(v, e, t)
      BY <2>10, <2>12, <3>1, <3>2, <3>3, HandleAgrees
    <3>5. IsWorld(World) /\ IsWorld(v)
      BY <2>12 DEF Good
    <3> QED
      BY <2>14, <2>15, <3>1, <3>4, <3>5, SpokenAgrees
  <2> QED
    BY <2>12, <2>16, BecomeFine
<1> QED
  BY <1>7, <1>8

\* handle_special counts a ZLB in, or a Hello is refused.
LEMMA CountsFine ==
  ASSUME Good(World), mishaps \in Nat, mishaps = 0 => Agreed(World),
         NEW e \in End, NEW t \in TunnelIds(e), CountIn(e, t) \/ HelloRefused(e, t)
  PROVE  Fine(World, mishaps)'
<1>1. Become(World)
  BY WorldIs DEF CountIn, HelloRefused, Become
<1>2. conf' = conf /\ (mishaps' = mishaps \/ mishaps' = mishaps + 1)
  BY DEF CountIn, HelloRefused
<1>3. mishaps' = 0 => mishaps = 0
  BY <1>2
<1> QED
  BY <1>1, <1>2, <1>3, BecomeFine

\* An SCCCN comes to a tunnel of the LNS that knows the sender.
LEMMA UnaskedSCCCNFine ==
  ASSUME CountAssumption, Good(World), mishaps \in Nat,
         NEW t \in TunnelIds("lac"), NEW n \in TunnelIds("lns"), UnaskedSCCCN(t, n)
  PROVE  Fine(World, mishaps)'
<1> DEFINE m == Plain("SCCCN", t, 0, 0)
           b == World.box["lns"][n]
           a == Append(b, m)
           v == WithBox(World, "lns", n, a)
<1>1. /\ tun["lns"][n].tid = t /\ conf' = conf /\ mishaps' = mishaps + 1 /\ Become(v)
      /\ t \in Nat /\ t # 0 /\ "lns" \in End
  <2>1. Become(v)
    BY DEF UnaskedSCCCN, WithBox, World, Become
  <2> QED
    BY <2>1, EndIs, IdsArePositive DEF UnaskedSCCCN
<1>2. mishaps' # 0 /\ (mishaps' = 0 => mishaps = 0)
  BY <1>1
<1>3. m \in Message /\ m.kind = "SCCCN" /\ m.from = t /\ m.resp = "none"
  <2>1. "SCCCN" \in Kind /\ 0 \in Nat /\ m = Plain("SCCCN", t, 0, 0)
    BY DEF Kind
  <2> HIDE DEF m
  <2> QED
    BY <1>1, <2>1, PlainIs
<1>4. b \in Seq(Message) /\ World.tun["lns"][n].heard = t
  <2>1. World.tun["lns"][n] = tun["lns"][n] /\ b \in Seq(Message)
    BY <1>1, WorldIs, WorldFields DEF Good
  <2>2. TunInv(World, "lns", n, World.tun["lns"][n])
    BY <1>1 DEF Good
  <2> QED
    BY <1>1, <2>1, <2>2 DEF TunInv, LnsTunInv
<1> HIDE DEF m, b
<1>5. a \in Seq(Message) /\ \A i \in 1 .. Len(a) : a[i] = m \/ \E j \in 1 .. Len(b) : a[i] = b[j]
  BY <1>3, <1>4, AppendProperties
<1>6. v = WithBox(World, "lns", n, a)
  OBVIOUS
<1> HIDE DEF a, v
<1>7. /\ GoodEnds(v) /\ v.tun = World.tun /\ v.box["lns"][n] = a
      /\ \A f \in End : \A s \in TunnelIds(f) : f # "lns" \/ s # n => v.box[f][s] = World.box[f][s]
      /\ \A f \in End : \A s \in TunnelIds(f) : \A x : MsgInv(World, f, s, x) <=> MsgInv(v, f, s, x)
  BY <1>1, <1>5, <1>6, BoxEnds
<1>8. World' = v /\ IsWorld(v)
  BY <1>1, <1>7, BecomeIs DEF GoodEnds
<1>9. ASSUME NEW f \in End, NEW s \in TunnelIds(f), NEW x, MsgInv(World, f, s, x) PROVE MsgInv(World, f, s, x)'
  <2>1. MsgInv(v, f, s, x)
    BY <1>7, <1>9
  <2> QED
    BY <1>1, <1>2, <1>8, <2>1, MsgStays
<1>10. MsgInv(World, "lns", n, m)'
  <2>1. Odd'
    BY <1>2 DEF Odd
  <2>2. LnsMsgInv(World, m)'
    BY <1>3, <2>1 DEF LnsMsgInv, Past
  <2>3. World'.tun["lns"][n].heard = t
    BY <1>4, <1>7, <1>8
  <2> QED
    BY <1>3, <2>1, <2>2, <2>3, EndIs DEF MsgInv
<1>11. ASSUME NEW f \in End, NEW s \in TunnelIds(f) PROVE BoxInv(World, f, s)'
  <2>1. BoxInv(World, f, s)
    BY DEF Good
  <2>2. CASE f = "lns" /\ s = n
    BY <1>5, <1>7, <1>8, <1>9, <1>10, <2>1, <2>2 DEF BoxInv, b
  <2>3. CASE f # "lns" \/ s # n
    BY <1>7, <1>8, <1>9, <2>1, <2>3 DEF BoxInv
  <2> QED
    BY <2>2, <2>3
<1>12. Good(World)'
  BY <1>1, <1>2, <1>7, <1>11, BecomeEnds
<1> QED
  BY <1>2, <1>12 DEF Fine

\* Another implementation answers an OCRQ.
LEMMA AnswerOCRQFine ==
  ASSUME CountAssumption, PoolAssumption, conf \in Conf, Good(World), mishaps = 0 => Agreed(World),
         NEW n \in TunnelIds("lns"), NEW new \in CallIds("lns"), AnswerOCRQ(n, new)
  PROVE  Fine(World, mishaps)'
<1> DEFINE m == Head(box["lns"][n])
           id == Head(box["lns"][n]).id
           y == WithBox(World, "lns", n, Tail(World.box["lns"][n]))
           k == [NoCall EXCEPT !.state = "ICCN", !.tun = n, !.cid = id, !.pppd = TRUE]
           w == WithCall(y, "lns", new, k)
           a == [World EXCEPT !.box["lns"][n] = Tail(@), !.call["lns"][new] = k]
           m1 == Plain("OCRP", n, id, new)
           m2 == Plain("OCCN", n, id, 0)
           x == Send(w, "lns", n, m1)
           v == Send(x, "lns", n, m2)
<1>1. /\ tun["lns"][n].state = "SCCCN" /\ box["lns"][n] # <<>> /\ call["lns"][new].state = "off"
      /\ Become(Send(Send(a, "lns", n, m1), "lns", n, m2)) /\ conf' = conf /\ mishaps' = mishaps /\ m.kind = "OCRQ"
      /\ conf.outgoing
  BY DEF AnswerOCRQ, NewIds
<1>2. "lns" \in End /\ Peer("lns") = "lac" /\ n \in Nat /\ new \in Nat
  BY EndIs DEF CountAssumption, TunnelIds, CallIds, End
<1>3. /\ Good(y) /\ y.tun = tun /\ y.call = call /\ id \in Nat /\ m \in Message /\ id = m.id
      /\ Within(y, World, "lns", n) /\ TakesFirst(y, World, "lns", n, m)
  <2>1. y = WithBox(World, "lns", n, Tail(World.box["lns"][n])) /\ World.box["lns"][n] # <<>> /\ "lns" \in End
    BY <1>1, <1>2, WorldIs
  <2> HIDE DEF y
  <2>2. /\ Good(y) /\ y.tun = World.tun /\ y.call = World.call /\ Head(World.box["lns"][n]) \in Message
        /\ Within(y, World, "lns", n) /\ TakesFirst(y, World, "lns", n, Head(World.box["lns"][n]))
    BY <2>1, TailGood
  <2> QED
    BY <2>2, WorldIs DEF Message
<1>4. a = w
  BY DEF WithCall, WithBox
<1> HIDE DEF a, y, id, m
<1>5. k \in Call /\ k.state = "ICCN" /\ k.tun = n /\ k.addr = 0 /\ k.pppd = TRUE /\ k.cid = id /\ ~ k.closing
  BY <1>2, <1>3 DEF NoCall, Call, CallState
<1>6. w = WithCall(y, "lns", new, k)
  OBVIOUS
<1>7. m1 \in Message /\ m1.kind = "OCRP" /\ m1.from = n /\ m1.resp = "none" /\ m1.cid = id /\ m1.id = new
  <2>1. "OCRP" \in Kind /\ m1 = Plain("OCRP", n, id, new)
    BY DEF Kind
  <2> HIDE DEF m1
  <2> QED
    BY <1>2, <1>3, <2>1, PlainIs
<1>8. m2 \in Message /\ m2.kind = "OCCN" /\ m2.from = n /\ m2.resp = "none"
  <2>1. "OCCN" \in Kind /\ 0 \in Nat /\ m2 = Plain("OCCN", n, id, 0)
    BY DEF Kind
  <2> HIDE DEF m2
  <2> QED
    BY <1>2, <1>3, <2>1, PlainIs
<1>9. Become(v)
  BY <1>1, <1>4
<1> HIDE DEF k, w, m1, m2
<1>10. /\ Good(w) /\ w.tun = tun /\ w.box = y.box /\ w.call["lns"][new] = k
       /\ \A f \in End : \A d \in CallIds(f) : f # "lns" \/ d # new => w.call[f][d] = y.call[f][d]
       /\ Within(w, y, "lns", n)
  <2>1. CallInv(y, "lns", k)
    <3>1. Live(y.tun["lns"][n]) /\ Up(y, "lns", n)
      BY <1>1, <1>3 DEF Live, Up
    <3> QED
      BY <1>5, <3>1 DEF CallInv, Addr, Live
  <2>2. ~ Live(y.call["lns"][new])
    BY <1>1, <1>3 DEF Live
  <2>3. Good(w)
    BY <1>2, <1>3, <1>5, <1>6, <2>1, <2>2, CallGood
  <2>4. OnlyCall(w, y, "lns", new, k) /\ w.tun = tun
    BY <1>2, <1>3, <1>5, <1>6, CallFields DEF Good, OnlyCall
  <2>5. Of(k, n) /\ Of(y.call["lns"][new], n) /\ k.state # "off"
    BY <1>5, <2>2 DEF Of
  <2> QED
    BY <1>2, <2>3, <2>4, <2>5, OnlyCallWithin DEF OnlyCall
<1>11. MayGo(w, "lns", n, m1)
  BY <1>1, <1>7, <1>10 DEF MayGo, Up
<1>12. Good(x) /\ SameTuns(x, w) /\ x.call = w.call /\ Within(x, w, "lns", n) /\ Sent(x, w, "lns", n, m1)
  <2>1. x = Send(w, "lns", n, m1)
    OBVIOUS
  <2> HIDE DEF x
  <2> QED
    BY <1>2, <1>7, <1>10, <1>11, <2>1, SendGood
<1> HIDE DEF x
<1>13. Up(x, "lns", n)
  BY <1>1, <1>2, <1>10, <1>12 DEF SameTuns, SameTun, Up
<1>14. MayGo(x, "lns", n, m2)
  BY <1>1, <1>8, <1>13 DEF MayGo
<1> DEFINE s == Send(x, "lns", n, m2)
<1>15. Good(s) /\ s.call = x.call /\ Within(s, x, "lns", n) /\ Sent(s, x, "lns", n, m2)
  <2>1. s = Send(x, "lns", n, m2)
    OBVIOUS
  <2> HIDE DEF s
  <2> QED
    BY <1>2, <1>8, <1>12, <1>14, <2>1, SendGood
<1>16. Become(s)
  BY <1>9
<1> HIDE DEF s
<1>17. Answers(x, y, n, m, new, m1)
  <2>1. y.call["lns"][new].state = "off"
    BY <1>1, <1>3
  <2>2. x.call["lns"][new] = k
    BY <1>10, <1>12
  <2>3. \A f \in End : \A d \in CallIds(f) : f # "lns" \/ d # new => x.call[f][d] = y.call[f][d]
    BY <1>10, <1>12
  <2>4. Opens(k, n)
    BY <1>5 DEF Opens, Lives, Live
  <2> QED
    BY <1>3, <1>5, <1>7, <2>1, <2>2, <2>3, <2>4, EndIs DEF Answers, Agreeing, Opens
<1>18. Talks(s, x, "lns", n, <<>>)
  <2> DEFINE h == <<>>
  <2>1. h \in Seq(Message) /\ m2.kind \notin Asking \cup Agreeing \cup {"CDN"}
    BY <1>8 DEF Asking, Agreeing
  <2>2. \A c \in CallIds("lns") : Follows(s.call["lns"][c], x.call["lns"][c], n)
    BY <1>15 DEF Follows
  <2> HIDE DEF h
  <2>3. IsWorld(x)
    BY <1>12 DEF Good
  <2>4. Talks(s, x, "lns", n, h)
    BY <1>2, <1>8, <1>15, <2>1, <2>2, <2>3, SendTalks
  <2> QED
    BY <2>4 DEF h
<1>19. Spoken(s, y, "lns", n, m)
  <2>1. Goes(x.tun["lns"][n], y.tun["lns"][n])
    BY <1>3, <1>10, <1>12, SentGoes
  <2>2. Goes(s.tun["lns"][n], y.tun["lns"][n])
    BY <1>18, <2>1 DEF Talks, Goes
  <2>3. ASSUME NEW t \in TunnelIds("lac"), Sound(s, t, n), Talk(y, "lns", <<m>>, t, n)
        PROVE  Talk(s, "lns", <<>>, t, n)
    <3>1. Sound(x, t, n)
      BY <1>2, <1>15, <1>18, <2>3, SoundBefore DEF Talks
    <3>2. Talk(x, "lns", <<>>, t, n)
      <4>1. m.kind \in Asking /\ IsWorld(y) /\ IsWorld(w)
        BY <1>1, <1>3, <1>10 DEF Asking, Good
      <4> QED
        BY <1>3, <1>10, <1>12, <1>17, <2>3, <3>1, <4>1, ReplyDone
    <3> QED
      BY <1>18, <2>3, <3>2 DEF Talks, Own
  <2> QED
    BY <2>2, <2>3, EndIs DEF Spoken, Own
<1>20. Agreed(World) => Agreed(s)
  <2>1. Within(s, World, "lns", n)
    <3>1. Within(w, World, "lns", n)
      BY <1>2, <1>3, <1>10, WithinAgain
    <3>2. Within(x, World, "lns", n)
      BY <1>2, <1>12, <3>1, WithinAgain
    <3> QED
      BY <1>2, <1>15, <3>2, WithinAgain
  <2> QED
    BY <1>2, <1>3, <1>15, <1>19, <2>1, SpokenAgrees DEF Good
<1> QED
  BY <1>1, <1>15, <1>16, <1>20, BecomeFine

\* build_fdset closes a call.
LEMMA CloseUnsettledCallFine ==
  ASSUME CountAssumption, PoolAssumption, Good(World), mishaps = 0 => Agreed(World),
         NEW e \in End, NEW c \in CallIds(e), CloseUnsettledCall(e, c)
  PROVE  Fine(World, mishaps)'
<1> DEFINE v == CloseCall(World, e, c)
           t == World.call[e][c].tun
<1>1. Live(World.call[e][c]) /\ Become(v) /\ conf' = conf /\ mishaps' = mishaps /\ v = CloseCall(World, e, c)
  BY WorldIs DEF CloseUnsettledCall, Unsettled
<1> HIDE DEF v
<1>2. Good(v) /\ Within(v, World, e, t) /\ Closed(v, World, e, c)
  BY <1>1, CloseCallGood
<1>3. t \in TunnelIds(e) /\ Lives(World.call[e][c], t)
  BY <1>1 DEF Good, CallInv, Lives
<1> HIDE DEF t
<1>4. Agreed(World) => Agreed(v)
  BY <1>2, <1>3, HangAgrees DEF Good
<1> QED
  BY <1>1, <1>2, <1>4, BecomeFine

\* A tunnel is closed by the loop, by control_xmit or by a command, when its self call is
\* marked or not.
LEMMA ClosesFine ==
  ASSUME CountAssumption, PoolAssumption, Good(World), mishaps = 0 => Agreed(World),
         NEW e \in End, NEW t \in TunnelIds(e), NEW w, Good(w), Within(w, World, e, t), NEW n,
         Become(CloseTunnel(w, e, t, n)), conf' = conf, mishaps' = mishaps
  PROVE  Fine(World, mishaps)'
<1> DEFINE v == CloseTunnel(w, e, t, n)
<1>1. Become(v) /\ v = CloseTunnel(w, e, t, n)
  OBVIOUS
<1> HIDE DEF v
<1>2. Good(v) /\ Within(v, w, e, t) /\ (Live(v.tun[e][t]) => v.tun[e][t].closing)
  BY <1>1, CloseTunnelGood
<1>3. Within(v, World, e, t)
  BY <1>2, WithinAgain
<1>4. Agreed(World) => Agreed(v)
  BY <1>2, <1>3, LostAgrees DEF Good, Doomed
<1> QED
  BY <1>1, <1>2, <1>4, BecomeFine

\* build_fdset closes a tunnel.
LEMMA CloseUnsettledTunnelFine ==
  ASSUME CountAssumption, PoolAssumption, Good(World), mishaps = 0 => Agreed(World),
         NEW e \in End, NEW t \in TunnelIds(e), CloseUnsettledTunnel(e, t)
  PROVE  Fine(World, mishaps)'
<1>1. PICK n : Become(CloseTunnel(World, e, t, n)) /\ conf' = conf /\ mishaps' = mishaps
  BY DEF CloseUnsettledTunnel
<1>2. Within(World, World, e, t)
  BY DEF Within, Kin, SameTun
<1> QED
  BY <1>1, <1>2, ClosesFine

\* control_xmit gives up.
LEMMA GiveUpFine ==
  ASSUME CountAssumption, PoolAssumption, Good(World), mishaps = 0 => Agreed(World),
         NEW e \in End, NEW t \in TunnelIds(e), GiveUp(e, t)
  PROVE  Fine(World, mishaps)'
<1> DEFINE w == IF tun[e][t].needclose THEN Ended(World, e, t, 0) ELSE Marked(World, e, t, 0)
<1>1. PICK n : Become(CloseTunnel(w, e, t, n)) /\ conf' = conf /\ mishaps' = mishaps
  BY DEF GiveUp
<1>2. /\ Good(Ended(World, e, t, 0)) /\ Within(Ended(World, e, t, 0), World, e, t)
      /\ Good(Marked(World, e, t, 0)) /\ Within(Marked(World, e, t, 0), World, e, t)
  BY SelfMarked, SelfEnded
<1>3. Good(w) /\ Within(w, World, e, t)
  BY <1>2
<1> HIDE DEF w
<1> QED
  BY <1>1, <1>3, ClosesFine

\* lac_disconnect.
LEMMA DisconnectFine ==
  ASSUME CountAssumption, PoolAssumption, Good(World), mishaps = 0 => Agreed(World), NEW t \in TunnelIds("lac"), Disconnect(t)
  PROVE  Fine(World, mishaps)'
<1> DEFINE w == Marked(World, "lac", t, 0)
<1>1. PICK n : Become(CloseTunnel(w, "lac", t, n)) /\ conf' = conf /\ mishaps' = mishaps
  BY DEF Disconnect
<1>2. "lac" \in End
  BY EndIs
<1>3. Good(w) /\ Within(w, World, "lac", t)
  BY <1>2, SelfMarked
<1> HIDE DEF w
<1> QED
  BY <1>1, <1>2, <1>3, ClosesFine

\* A call of the LAC is hung up before it is answered.
LEMMA HangUpEarlyFine ==
  ASSUME CountAssumption, PoolAssumption, Good(World), mishaps = 0 => Agreed(World), NEW c \in CallIds("lac"), HangUpEarly(c)
  PROVE  Fine(World, mishaps)'
<1> DEFINE k == World.call["lac"][c]
           t == call["lac"][c].tun
           w == Marked(World, "lac", t, c)
           v == CloseCall(w, "lac", c)
<1>1. k.state = "ICRQ" /\ Become(v) /\ conf' = conf /\ mishaps' = mishaps
  BY WorldIs DEF HangUpEarly
<1>2. "lac" \in End /\ Live(k) /\ k.tun = t /\ k \in Call /\ IsWorld(World)
  <2>1. IsWorld(World) /\ "lac" \in End
    BY EndIs DEF Good
  <2>2. k \in Call
    BY <2>1, WorldFields
  <2> QED
    BY <1>1, <2>1, <2>2, WorldIs DEF Live
<1>3. t \in TunnelIds("lac") /\ c # 0
  <2>1. t \in TunnelIds("lac")
    BY <1>2 DEF Good, CallInv
  <2> QED
    BY <1>2, <2>1, NoCallZero
<1>4. v = CloseCall(w, "lac", c) /\ w = Marked(World, "lac", t, c)
  OBVIOUS
<1> HIDE DEF t, w, v
<1>5. Flagged(w, World) /\ OnlyCall(w, World, "lac", c, MarkOf(k)) /\ Within(w, World, "lac", t)
  BY <1>2, <1>3, <1>4, MarkedGood
<1>6. Good(w) /\ w.call["lac"][c] = MarkOf(k) /\ Lives(w.call["lac"][c], t)
  <2>1. MarkOf(k).state = k.state /\ MarkOf(k).tun = k.tun
    BY <1>2 DEF MarkOf, Call
  <2>2. Good(w) /\ w.call["lac"][c] = MarkOf(k)
    BY <1>5 DEF Flagged, OnlyCall
  <2> QED
    BY <1>2, <2>1, <2>2 DEF Lives, Live
<1>7. Good(v) /\ Within(v, w, "lac", t) /\ Closed(v, w, "lac", c)
  <2>1. Live(w.call["lac"][c]) /\ w.call["lac"][c].tun = t
    BY <1>6 DEF Lives
  <2> QED
    BY <1>2, <1>4, <1>6, <2>1, CloseCallGood
<1>8. Agreed(World) => Agreed(w)
  <2>1. Follows(MarkOf(k), k, t)
    BY <1>2, MarksFollow
  <2> DEFINE z == MarkOf(k)
  <2> HIDE DEF z
  <2>2. OnlyCall(w, World, "lac", c, z) /\ Follows(z, World.call["lac"][c], t)
    BY <1>5, <2>1 DEF z
  <2> QED
    BY <1>2, <1>3, <1>5, <1>6, <2>2, OneAgrees DEF Good
<1>9. Agreed(w) => Agreed(v)
  BY <1>2, <1>3, <1>6, <1>7, HangAgrees DEF Good
<1> QED
  BY <1>1, <1>7, <1>8, <1>9, BecomeFine

\* lac_call.
LEMMA CallingFine ==
  ASSUME CountAssumption, PoolAssumption, Good(World), mishaps = 0 => Agreed(World),
         NEW t \in TunnelIds("lac"), NEW c \in CallIds("lac"), Calling(t, c)
  PROVE  Fine(World, mishaps)'
<1> DEFINE v == PlaceCall(World, t, c)
<1>1. /\ World.call["lac"][c].state = "off" /\ ~ Live(World.call["lac"][c])
      /\ Become(v) /\ conf' = conf /\ mishaps' = mishaps /\ v = PlaceCall(World, t, c)
  BY WorldIs DEF Calling, NewIds, Live
<1> HIDE DEF v
<1>2. Live(World.tun["lac"][t])
  BY WorldIs DEF Calling, Live
<1>3. Good(v) /\ Within(v, World, "lac", t) /\ Placed(v, World, t, c)
  BY <1>1, <1>2, PlaceCallGood
<1>4. Agreed(World) => Agreed(v)
  BY <1>1, <1>3, PlaceAgrees DEF Good
<1> QED
  BY <1>1, <1>3, <1>4, BecomeFine

\* The wait for an acknowledgement is over.
LEMMA AckedFine ==
  ASSUME CountAssumption, PoolAssumption, Good(World), mishaps = 0 => Agreed(World),
         NEW e \in End, NEW t \in TunnelIds(e), NEW c, Acked(e, t, c)
  PROVE  Fine(World, mishaps)'
<1> DEFINE v == Ended(World, e, t, c)
           k == World.call[e][c]
<1>1. /\ c # 0 => c \in CallIds(e) /\ Live(k) /\ k.tun = t /\ k.closing
      /\ Become(v) /\ conf' = conf /\ mishaps' = mishaps /\ v = Ended(World, e, t, c)
  BY WorldIs DEF Acked, CallsOf
<1> HIDE DEF v
<1>2. Good(v) /\ Within(v, World, e, t)
  BY <1>1, EndedGood DEF Flagged
<1>3. Agreed(World) => Agreed(v)
  <2>1. CASE c = 0
    <3>1. v.tun[e][t].closing
      BY <1>1, <2>1, EndedGood
    <3> QED
      BY <1>2, <3>1, LostAgrees DEF Good, Doomed
  <2>2. CASE c # 0
    <3> DEFINE z == EndOf(k)
    <3>1. OnlyCall(v, World, e, c, z)
      BY <1>1, <2>2, EndedGood
    <3>2. Follows(z, k, t)
      <4>1. k \in Call
        BY <1>1, <2>2, WorldFields DEF Good
      <4>2. z.closing /\ z.state = k.state /\ z.tun = k.tun /\ z.cid = k.cid
        BY <4>1, MarksFollow
      <4> HIDE DEF z
      <4> QED
        BY <1>1, <2>2, <4>2 DEF Follows, Lives, Opens, Live
    <3>3. c \in CallIds(e)
      BY <1>1, <2>2
    <3> HIDE DEF z
    <3> QED
      BY <1>2, <3>1, <3>2, <3>3, OneAgrees DEF Good
  <2> QED
    BY <2>1, <2>2
<1> QED
  BY <1>1, <1>2, <1>3, BecomeFine

\* child_handler.
LEMMA PppdExitsFine ==
  ASSUME CountAssumption, PoolAssumption, Good(World), mishaps = 0 => Agreed(World),
         NEW e \in End, NEW c \in CallIds(e), PppdExits(e, c)
  PROVE  Fine(World, mishaps)'
<1> DEFINE k == call[e][c]
           x == [k EXCEPT !.pppd = FALSE]
           z == [x EXCEPT !.needclose = TRUE]
           r == [World EXCEPT !.call[e][c].pppd = FALSE, !.call[e][c].needclose = TRUE]
           y == WithCall(World, e, c, x)
           v == WithCall(World, e, c, z)
<1>1. k.pppd /\ Become(r) /\ conf' = conf /\ mishaps' = mishaps
  <2>1. /\ k.pppd /\ conf' = conf /\ mishaps' = mishaps /\ tun' = tun /\ box' = box /\ used' = used /\ local' = local
        /\ call' = [call EXCEPT ![e][c].pppd = FALSE, ![e][c].needclose = TRUE]
    BY DEF PppdExits
  <2> QED
    BY <2>1 DEF Become, World
<1>2. IsWorld(World) /\ World.call[e][c] = k /\ k \in Call /\ CallInv(World, e, k)
  <2>1. IsWorld(World) /\ World.call[e][c] = k
    BY WorldIs DEF Good
  <2> QED
    BY <2>1, WorldFields DEF Good
<1>3. Live(k)
  BY <1>1, <1>2 DEF CallInv
<1>4. x \in Call /\ z \in Call /\ SameCall(z, k)
  BY <1>2 DEF Call, SameCall
<1>5. r = v
  <2>1. r = WithCall(y, e, c, [y.call[e][c] EXCEPT !.needclose = TRUE])
    BY <1>2 DEF WithCall
  <2> HIDE DEF x
  <2>2. y.call[e][c] = x
    <3>1. y = WithCall(World, e, c, x)
      OBVIOUS
    <3> HIDE DEF y
    <3> QED
      BY <1>2, <1>4, <3>1, CallFields
  <2>3. WithCall(y, e, c, z) = v
    <3> HIDE DEF z
    <3> QED
      BY <1>2, CallTwice
  <2> HIDE DEF y, r, v
  <2> QED
    BY <2>1, <2>2, <2>3
<1>6. v = WithCall(World, e, c, z) /\ Follows(z, k, k.tun) /\ z.state = k.state
  BY <1>2 DEF Call, Follows, Lives, Opens, Live
<1> HIDE DEF z, r, v
<1>7. Good(v)
  BY <1>2, <1>3, <1>4, <1>6, SameCallGood
<1>8. Agreed(World) => Agreed(v)
  <2> DEFINE t == k.tun
  <2>1. t \in TunnelIds(e) /\ Follows(z, World.call[e][c], t)
    BY <1>2, <1>3, <1>6 DEF CallInv
  <2>2. OnlyCall(v, World, e, c, z)
    BY <1>2, <1>4, <1>6, CallFields DEF OnlyCall
  <2>3. Of(z, t) /\ Of(World.call[e][c], t) /\ z.state # "off"
    BY <1>2, <1>3, <1>4, <1>6 DEF Of, SameCall, Live
  <2> HIDE DEF t, k
  <2>4. Within(v, World, e, t)
    BY <2>2, <2>3, OnlyCallWithin
  <2> QED
    BY <1>2, <1>7, <2>1, <2>2, <2>4, OneAgrees DEF Good
<1> QED
  BY <1>1, <1>5, <1>7, <1>8, BecomeFine

-----------------------------------------------------------------------------
(* The theorems.                                                            *)

\* At the start there is no call and nothing on its way.
LEMMA InitFine == CountAssumption /\ PoolAssumption /\ Init => Fine(World, mishaps)
<1> SUFFICES ASSUME CountAssumption, PoolAssumption, Init PROVE Fine(World, mishaps)
  OBVIOUS
<1>1. /\ \A e \in End : \A t \in TunnelIds(e) : World.tun[e][t] = NoTunnel /\ World.box[e][t] = <<>>
      /\ \A e \in End : \A c \in CallIds(e) : World.call[e][c] = NoCall
      /\ World.used = {} /\ World.local = 0
  BY WorldIs DEF Init
<1>2. NoTunnel \in Tunnel /\ NoCall \in Call /\ <<>> \in Seq(Message) /\ Len(<<>>) = 0
  BY DEF NoTunnel, NoCall, Tunnel, Call
<1>3. IsWorld(World)
  <2>1. World = [tun |-> World.tun, call |-> World.call, box |-> World.box, used |-> World.used, local |-> World.local]
    BY DEF World
  <2>2. World.tun = [e \in End |-> World.tun[e]] /\ \A e \in End : World.tun[e] \in [TunnelIds(e) -> Tunnel]
    BY <1>2, WorldIs DEF Init
  <2>3. World.call = [e \in End |-> World.call[e]] /\ \A e \in End : World.call[e] \in [CallIds(e) -> Call]
    BY <1>2, WorldIs DEF Init
  <2>4. World.box = [e \in End |-> World.box[e]] /\ \A e \in End : World.box[e] \in [TunnelIds(e) -> Seq(Message)]
    BY <1>2, WorldIs DEF Init
  <2> QED
    BY <1>1, <2>1, <2>2, <2>3, <2>4 DEF IsWorld
<1>4. NoTunnel.state = "off" /\ NoTunnel.tid = 0 /\ NoTunnel.heard = 0 /\ ~ Live(NoTunnel)
  BY DEF NoTunnel, Live
<1>5. NoCall.state = "off" /\ NoCall.addr = 0 /\ NoCall.pppd = FALSE /\ ~ Live(NoCall)
  BY DEF NoCall, Live
<1>6. \A e \in End : \A t \in TunnelIds(e) : TunInv(World, e, t, World.tun[e][t])
  BY <1>1, <1>4, EndIs DEF TunInv, LacTunInv, LnsTunInv, Answered, Live
<1>7. \A t \in TunnelIds("lns") : Alone(World, t, World.tun["lns"][t])
  BY <1>1, <1>4, EndIs DEF Alone, Answered
<1>8. \A e \in End : \A t \in TunnelIds(e) : BoxInv(World, e, t)
  BY <1>1, <1>2 DEF BoxInv
<1>9. \A e \in End : \A c \in CallIds(e) : CallInv(World, e, World.call[e][c])
  BY <1>1, <1>5, EndIs DEF CallInv, Addr
<1>10. PoolInv(World)
  <2>1. LiveCalls(World) = {}
    BY <1>1, <1>5, EndIs DEF LiveCalls
  <2> QED
    BY <1>1, <2>1 DEF PoolInv
<1>11. Agreed(World)
  BY <1>1, <1>4, EndIs DEF Agreed, Settles, Sound
<1> QED
  BY <1>3, <1>6, <1>7, <1>8, <1>9, <1>10, <1>11 DEF Fine, Good

\* A message has a flaw only while the bound lasts.
LEMMA FlawsBound ==
  ASSUME ConfAssumption, UpsetAssumption, mishaps \in 0 .. MaxMishaps, NEW w, NEW e, NEW t, NEW c, NEW m,
         NEW some, some = FlawsOf(m) \/ some = {"none"}, Run(w, e, t, c, m, some)
  PROVE  mishaps' \in mishaps .. MaxMishaps
<1>1. PICK flaw \in some : mishaps' = mishaps + (IF flaw = "none" THEN 0 ELSE 1)
  BY DEF Run
<1>2. flaw # "none" => mishaps < MaxMishaps
  BY <1>1 DEF FlawsOf
<1> QED
  BY <1>1, <1>2 DEF ConfAssumption

\* Each step keeps the invariant.
LEMMA NextFine ==
  ASSUME CountAssumption, PoolAssumption, conf \in Conf, Good(World), mishaps \in Nat, mishaps = 0 => Agreed(World),
         AheadInv, Next
  PROVE  Fine(World, mishaps)'
<1>1. ASSUME NEW t \in TunnelIds("lac"), OpenTunnel(t) \/ Disconnect(t) PROVE Fine(World, mishaps)'
  BY <1>1, OpenTunnelFine, DisconnectFine
<1>2. ASSUME NEW t \in TunnelIds("lac"), NEW n \in TunnelIds("lns"), TakeRequest(t, n) \/ UnaskedSCCCN(t, n)
      PROVE Fine(World, mishaps)'
  BY <1>2, TakeRequestFine, UnaskedSCCCNFine
<1>3. ASSUME NEW t \in TunnelIds("lac"), NEW c \in CallIds("lac"), Calling(t, c) PROVE Fine(World, mishaps)'
  BY <1>3, CallingFine
<1>4. ASSUME NEW c \in CallIds("lac"), HangUpEarly(c) PROVE Fine(World, mishaps)'
  BY <1>4, HangUpEarlyFine
<1>5. ASSUME NEW n \in TunnelIds("lns"), NEW c \in CallIds("lns"), AnswerOCRQ(n, c) PROVE Fine(World, mishaps)'
  BY <1>5, AnswerOCRQFine
<1>6. ASSUME NEW e \in End, NEW t \in TunnelIds(e), Receive(e, t) \/ CloseUnsettledTunnel(e, t) \/ GiveUp(e, t)
      PROVE Fine(World, mishaps)'
  <2>1. ahead[e][t] => mishaps # 0
    BY DEF AheadInv
  <2> QED
    BY <1>6, <2>1, ReceiveFine, CloseUnsettledTunnelFine, GiveUpFine
<1>7. ASSUME NEW e \in End, NEW c \in CallIds(e), CloseUnsettledCall(e, c) \/ PppdExits(e, c)
      PROVE Fine(World, mishaps)'
  BY <1>7, CloseUnsettledCallFine, PppdExitsFine
<1>8. ASSUME NEW e \in End, NEW t \in TunnelIds(e), NEW c, Acked(e, t, c) PROVE Fine(World, mishaps)'
  BY <1>8, AckedFine
<1>9. ASSUME NEW e \in End, NEW t \in TunnelIds(e), CountIn(e, t) \/ HelloRefused(e, t) PROVE Fine(World, mishaps)'
  BY <1>9, CountsFine
<1> QED
  BY <1>1, <1>2, <1>3, <1>4, <1>5, <1>6, <1>7, <1>8, <1>9 DEF Next

\* What a step does to the rest.
LEMMA NextRest ==
  ASSUME ConfAssumption, UpsetAssumption, Rest, Next
  PROVE  Rest' /\ (mishaps' = 0 => mishaps = 0)
<1> USE DEF Rest
<1>1. ASSUME NEW t \in TunnelIds("lac"), OpenTunnel(t)
      PROVE  asked' \in SUBSET TunnelIds("lac") /\ conf' = conf /\ mishaps' = mishaps
  BY <1>1 DEF OpenTunnel
<1>2. ASSUME NEW t, NEW n, TakeRequest(t, n)
      PROVE  asked' = asked /\ conf' = conf /\ mishaps' \in mishaps .. MaxMishaps
  <2> DEFINE m == [Plain("SCCRQ", t, 0, t) EXCEPT !.chal = conf.lacChallenges]
             w == [World EXCEPT !.tun["lns"][n].state = "idle", !.tun["lns"][n].heard = t]
             some == IF n = 1 THEN FlawsOf(m) ELSE {"none"}
  <2>1. Run(w, "lns", n, 0, m, some) /\ asked' = asked
    BY <1>2 DEF TakeRequest
  <2>2. some = FlawsOf(m) \/ some = {"none"}
    OBVIOUS
  <2> HIDE DEF m, w, some
  <2>3. mishaps' \in mishaps .. MaxMishaps
    BY <2>1, <2>2, FlawsBound
  <2> QED
    BY <2>1, <2>3 DEF Run
<1>3. ASSUME NEW e, NEW t, Receive(e, t)
      PROVE  asked' = asked /\ conf' = conf /\ mishaps' \in mishaps .. MaxMishaps
  <2> DEFINE m == Head(box[e][t])
             a == [World EXCEPT !.box[e][t] = Tail(@), !.tun[e][t].heard = IF @ = 0 THEN m.from ELSE @]
             some == FlawsOf(m)
             c == m.cid
  <2>1. asked' = asked
    BY <1>3 DEF Receive
  <2>2. UNCHANGED <<conf, mishaps>> \/ Run(a, e, t, c, m, some)
    BY <1>3 DEF Receive
  <2>3. CASE UNCHANGED <<conf, mishaps>>
    BY <2>1, <2>3 DEF ConfAssumption
  <2>4. CASE Run(a, e, t, c, m, some)
    <3>1. some = FlawsOf(m)
      OBVIOUS
    <3> HIDE DEF m, a, some, c
    <3>2. mishaps' \in mishaps .. MaxMishaps
      BY <2>4, <3>1, FlawsBound
    <3> QED
      BY <2>1, <2>4, <3>2 DEF Run
  <2> QED
    BY <2>2, <2>3, <2>4
<1>4. ASSUME NEW t, NEW c, Disconnect(t) \/ Calling(t, c) \/ HangUpEarly(c) \/ AnswerOCRQ(t, c)
      PROVE  UNCHANGED <<asked, conf, mishaps>>
  BY <1>4 DEF Disconnect, Calling, HangUpEarly, AnswerOCRQ
<1>5. ASSUME NEW e, NEW t, NEW c, \/ CloseUnsettledTunnel(e, t) \/ GiveUp(e, t) \/ CloseUnsettledCall(e, c)
                                  \/ PppdExits(e, c) \/ Acked(e, t, c) \/ HelloRefused(e, t)
      PROVE  UNCHANGED <<asked, conf, mishaps>>
  BY <1>5 DEF CloseUnsettledTunnel, GiveUp, CloseUnsettledCall, PppdExits, Acked, HelloRefused
<1>6. ASSUME NEW e, NEW t, NEW n, CountIn(e, t) \/ UnaskedSCCCN(t, n)
      PROVE  asked' = asked /\ conf' = conf /\ mishaps' = mishaps + 1 /\ mishaps < MaxMishaps
  BY <1>6 DEF CountIn, UnaskedSCCCN
<1> DEFINE Goal == asked' \in SUBSET TunnelIds("lac") /\ conf' = conf /\ mishaps' \in mishaps .. MaxMishaps
<1>7. /\ mishaps \in mishaps .. MaxMishaps
      /\ mishaps < MaxMishaps => mishaps + 1 \in mishaps .. MaxMishaps
  BY DEF ConfAssumption
<1>8. /\ \A t \in TunnelIds("lac") : OpenTunnel(t) => Goal
      /\ \A t, n : TakeRequest(t, n) => Goal
      /\ \A e, t : Receive(e, t) => Goal
  BY <1>1, <1>2, <1>3, <1>7
<1>9. /\ \A t : Disconnect(t) => Goal
      /\ \A t, c : Calling(t, c) \/ AnswerOCRQ(t, c) => Goal
      /\ \A c : HangUpEarly(c) => Goal
  BY <1>4, <1>7
<1>10. /\ \A e, t : CloseUnsettledTunnel(e, t) \/ GiveUp(e, t) \/ HelloRefused(e, t) => Goal
       /\ \A e, c : CloseUnsettledCall(e, c) \/ PppdExits(e, c) => Goal
       /\ \A e, t, c : Acked(e, t, c) => Goal
  BY <1>5, <1>7
<1>11. (\A e, t : CountIn(e, t) => Goal) /\ \A t, n : UnaskedSCCCN(t, n) => Goal
  BY <1>6, <1>7
<1> HIDE DEF Goal
<1>12. Goal
  BY <1>8, <1>9, <1>10, <1>11 DEF Next
<1> QED
  BY <1>12 DEF ConfAssumption, Goal

\* One tunnel is ahead, or is not any more.
LEMMA AheadGoes ==
  ASSUME AheadInv, NEW e \in End, NEW t \in TunnelIds(e), NEW b \in BOOLEAN, ahead' = [ahead EXCEPT ![e][t] = b],
         b => mishaps' # 0, mishaps' = 0 => mishaps = 0
  PROVE  AheadInv'
<1>1. ahead' = [f \in End |-> IF f = e THEN [ahead[e] EXCEPT ![t] = b] ELSE ahead[f]]
  BY DEF AheadInv
<1>2. ahead[e] \in [TunnelIds(e) -> BOOLEAN]
  BY DEF AheadInv
<1>3. \A f \in End : ahead'[f] \in [TunnelIds(f) -> BOOLEAN]
  BY <1>1, <1>2 DEF AheadInv
<1>4. ASSUME NEW f \in End, NEW s \in TunnelIds(f), ahead'[f][s] PROVE mishaps' # 0
  <2>1. CASE f = e /\ s = t
    BY <1>1, <1>2, <1>4, <2>1
  <2>2. CASE f # e \/ s # t
    BY <1>1, <1>2, <1>4, <2>2 DEF AheadInv
  <2> QED
    BY <2>1, <2>2
<1> QED
  BY <1>1, <1>3, <1>4 DEF AheadInv

\* A ZLB goes out for the message that is taken.
LEMMA AckGoes ==
  ASSUME ZlbsInv, Good(World), IsWorld(World)', CountAssumption, NEW e \in End, NEW t \in TunnelIds(e), NEW m,
         m.from \in TunnelIds(Peer(e)), Acknowledge(e, t, m)
  PROVE  ZlbsInv'
<1> DEFINE p == Peer(e)
           f == m.from
           z == [from |-> t, call |-> IF m.cid \in CallsOf(World, e, t) THEN call'[e][m.cid].cid ELSE 0]
<1>1. p \in End /\ f \in TunnelIds(p) /\ t \in Nat
  BY EndIs, IdsArePositive
<1>2. z \in Zlb
  <2>1. ASSUME m.cid \in CallsOf(World, e, t) PROVE call'[e][m.cid].cid \in Nat
    <3>1. m.cid \in CallIds(e)
      BY <2>1 DEF CallsOf
    <3>2. call'[e] \in [CallIds(e) -> Call]
      BY DEF IsWorld, World
    <3> QED
      BY <3>1, <3>2 DEF Call
  <2> QED
    BY <1>1, <2>1 DEF Zlb
<1>3. zlbs' = zlbs \/ zlbs' = [zlbs EXCEPT ![p][f] = @ \cup {z}]
  BY DEF Acknowledge
<1> HIDE DEF p, f, z
<1>4. CASE zlbs' = zlbs
  BY <1>4 DEF ZlbsInv
<1>5. CASE zlbs' = [zlbs EXCEPT ![p][f] = @ \cup {z}]
  <2>1. zlbs[p] \in [TunnelIds(p) -> SUBSET Zlb]
    BY <1>1 DEF ZlbsInv
  <2>2. zlbs' = [d \in End |-> IF d = p THEN [zlbs[p] EXCEPT ![f] = @ \cup {z}] ELSE zlbs[d]]
    BY <1>5 DEF ZlbsInv
  <2>3. [zlbs[p] EXCEPT ![f] = @ \cup {z}] \in [TunnelIds(p) -> SUBSET Zlb]
    BY <1>1, <1>2, <2>1
  <2>4. \A d \in End : zlbs'[d] \in [TunnelIds(d) -> SUBSET Zlb]
    BY <2>2, <2>3 DEF ZlbsInv
  <2> QED
    BY <2>2, <2>4 DEF ZlbsInv
<1> QED
  BY <1>3, <1>4, <1>5

\* What a step does to the drift.
LEMMA NextDrift ==
  ASSUME CountAssumption, AheadInv, ZlbsInv, Good(World), IsWorld(World)', mishaps \in Nat, mishaps' = 0 => mishaps = 0, Next
  PROVE  AheadInv' /\ ZlbsInv'
<1>1. CASE UNCHANGED drift
  BY <1>1 DEF drift, AheadInv, ZlbsInv
<1>2. ASSUME NEW t, NEW n, OpenTunnel(t) \/ Disconnect(t) \/ TakeRequest(t, n) \/ UnaskedSCCCN(t, n) \/ Calling(t, n)
                           \/ HangUpEarly(n) \/ AnswerOCRQ(t, n)
      PROVE  UNCHANGED drift
  BY <1>2 DEF OpenTunnel, Disconnect, TakeRequest, UnaskedSCCCN, Calling, HangUpEarly, AnswerOCRQ
<1>3. ASSUME NEW e, NEW t, NEW c, \/ CloseUnsettledTunnel(e, t) \/ GiveUp(e, t) \/ CloseUnsettledCall(e, c)
                                  \/ PppdExits(e, c) \/ Acked(e, t, c)
      PROVE  UNCHANGED drift
  BY <1>3 DEF CloseUnsettledTunnel, GiveUp, CloseUnsettledCall, PppdExits, Acked
<1>4. ASSUME NEW e \in End, NEW t \in TunnelIds(e), CountIn(e, t) PROVE AheadInv' /\ ZlbsInv'
  <2>1. ahead' = [ahead EXCEPT ![e][t] = TRUE] /\ mishaps' = mishaps + 1 /\ zlbs' = zlbs
    BY <1>4 DEF CountIn
  <2>2. mishaps' # 0
    BY <2>1
  <2>3. AheadInv'
    BY <2>1, <2>2, AheadGoes
  <2> QED
    BY <2>1, <2>3 DEF ZlbsInv
<1>5. ASSUME NEW e \in End, NEW t \in TunnelIds(e), HelloRefused(e, t) PROVE AheadInv' /\ ZlbsInv'
  <2>1. ahead' = [ahead EXCEPT ![e][t] = FALSE] /\ zlbs' = zlbs
    BY <1>5 DEF HelloRefused
  <2>2. AheadInv'
    BY <2>1, AheadGoes
  <2> QED
    BY <2>1, <2>2 DEF ZlbsInv
<1>6. ASSUME NEW e \in End, NEW t \in TunnelIds(e), Receive(e, t) PROVE AheadInv' /\ ZlbsInv'
  <2> DEFINE m == Head(box[e][t])
             b == ahead[e][t] /\ tun[e][t].heard # m.from
  <2>1. box[e][t] # <<>> /\ Acknowledge(e, t, m) /\ ahead' = [ahead EXCEPT ![e][t] = b]
    BY <1>6 DEF Receive
  <2>2. b \in BOOLEAN /\ (b => mishaps' # 0)
    BY DEF AheadInv
  <2>3. m.from \in TunnelIds(Peer(e))
    <3>1. World.box[e][t] # <<>> /\ World.box[e][t] = box[e][t]
      BY <2>1, WorldIs
    <3>2. PICK v : MsgInv(v, e, t, Head(World.box[e][t]))
      BY <3>1, TailGood
    <3> QED
      BY <3>1, <3>2 DEF MsgInv
  <2> HIDE DEF m, b
  <2>4. AheadInv'
    BY <2>1, <2>2, AheadGoes
  <2>5. ZlbsInv'
    BY <2>1, <2>3, AckGoes
  <2> QED
    BY <2>4, <2>5
<1> QED
  BY <1>1, <1>2, <1>3, <1>4, <1>5, <1>6 DEF Next

\* The invariant is inductive.
LEMMA Invariant == CountAssumption /\ PoolAssumption /\ ConfAssumption /\ UpsetAssumption => (Spec => []IInv)
<1> SUFFICES ASSUME CountAssumption, PoolAssumption, ConfAssumption, UpsetAssumption PROVE Spec => []IInv
  OBVIOUS
<1>1. Init => IInv
  <2> SUFFICES ASSUME Init PROVE IInv
    OBVIOUS
  <2>1. AheadInv /\ ZlbsInv
    BY DEF Init, AheadInv, ZlbsInv
  <2>2. Rest
    BY DEF Init, Rest, ConfAssumption
  <2> QED
    BY <2>1, <2>2, InitFine DEF IInv
<1>2. IInv /\ [Next]_vars => IInv'
  <2> SUFFICES ASSUME IInv, [Next]_vars PROVE IInv'
    OBVIOUS
  <2>1. CASE Next
    <3>1. /\ conf \in Conf /\ mishaps \in Nat /\ Good(World) /\ (mishaps = 0 => Agreed(World))
          /\ AheadInv /\ ZlbsInv /\ Rest
      BY DEF IInv, Fine, Rest, ConfAssumption
    <3>2. Fine(World, mishaps)'
      BY <2>1, <3>1, NextFine
    <3>3. Rest' /\ (mishaps' = 0 => mishaps = 0)
      BY <2>1, <3>1, NextRest
    <3>4. IsWorld(World)'
      BY <3>2 DEF Fine, Good
    <3>5. AheadInv' /\ ZlbsInv'
      BY <2>1, <3>1, <3>3, <3>4, NextDrift
    <3> QED
      BY <3>2, <3>3, <3>5 DEF IInv
  <2>2. CASE UNCHANGED vars
    <3>1. Become(World) /\ UNCHANGED <<asked, conf, mishaps, ahead, zlbs>>
      BY <2>2, WorldIs DEF vars, drift, Become
    <3>2. Fine(World, mishaps)'
      BY <3>1, BecomeFine DEF IInv, Fine
    <3>3. AheadInv' /\ ZlbsInv' /\ Rest'
      BY <3>1 DEF IInv, AheadInv, ZlbsInv, Rest
    <3> QED
      BY <3>2, <3>3 DEF IInv
  <2> QED
    BY <2>1, <2>2
<1> QED
  BY <1>1, <1>2, PTL DEF Spec

\* What Agreed says of two sound tunnels when no message is on its way between them: an open
\* call of one has its call at the other.
LEMMA SilentAgree ==
  ASSUME Good(World), Agreed(World), NEW t \in TunnelIds("lac"), NEW n \in TunnelIds("lns"), Sound(World, t, n),
         box["lac"][t] = <<>>, box["lns"][n] = <<>>
  PROVE  /\ \A c \in CallIds("lac") : Opens(call["lac"][c], t) /\ ~ call["lac"][c].needclose =>
              \E d \in CallIds("lns") : Opens(call["lns"][d], n) /\ call["lns"][d].cid = c /\ call["lac"][c].cid = d
         /\ \A d \in CallIds("lns") : Opens(call["lns"][d], n) =>
              LET c == call["lns"][d].cid
              IN c \in CallIds("lac") /\ Opens(call["lac"][c], t) /\ (call["lac"][c].needclose \/ call["lac"][c].cid = d)
         /\ \A c \in CallIds("lac") :
              Opens(call["lac"][c], t) /\ ~ call["lac"][c].needclose /\ call["lac"][c].state = "ICRQ" => call["lac"][c].cid = 0
<1> DEFINE k == call["lac"]
           l == call["lns"]
           P == ToLac(World, "lac", <<>>, t, n)
           q == ToLns(World, "lac", <<>>, n)
<1>1. TalkOf(k, l, P, q, t, n)
  BY WorldIs DEF Agreed, Talk
<1>2. P = {} /\ q = <<>>
  <2>1. \A m : ~ Has(<<>>, m)
    BY DEF Has
  <2> DEFINE h == <<>>
  <2>2. (\A m : ~ Has(h, m)) /\ World.box["lac"][t] = h
    BY <2>1, WorldIs
  <2> HIDE DEF h
  <2>3. ToLac(World, "lac", h, t, n) = {}
    BY <2>2 DEF ToLac
  <2>4. q = <<>>
    BY WorldIs DEF ToLns
  <2> QED
    BY <2>3, <2>4 DEF h
<1> HIDE DEF k, l, P, q
<1>3. /\ \A c, d : ~ Agree(P, c, d) /\ ~ Refuse(P, c, d)
      /\ \A i, c : ~ Asks(q, i, c)
      /\ \A i, c, d : ~ Tells(q, i, c, d)
  BY <1>2 DEF Agree, Refuse, Asks, Tells
<1>4. LacServed(k, l, P, q, t, n) /\ LnsServed(k, l, P, q, t, n) /\ NoneYet(k, t)
  BY <1>1 DEF TalkOf
<1>5. \A c \in CallIds("lac") : Opens(k[c], t) /\ ~ k[c].needclose =>
        \E d \in CallIds("lns") : Opens(l[d], n) /\ l[d].cid = c /\ k[c].cid = d
  BY <1>3, <1>4 DEF LacServed, Meets
<1>6. \A d \in CallIds("lns") : Opens(l[d], n) =>
        l[d].cid \in CallIds("lac") /\ Opens(k[l[d].cid], t) /\ (k[l[d].cid].needclose \/ k[l[d].cid].cid = d)
  BY <1>3, <1>4 DEF LnsServed, Meets
<1> QED
  BY <1>4, <1>5, <1>6 DEF NoneYet, k, l

\* What does not close is not marked either, when the end is settled.
LEMMA SettledIs ==
  ASSUME Good(World), NEW e \in End, Settled(e)
  PROVE  /\ \A t \in TunnelIds(e) : Live(tun[e][t]) /\ ~ tun[e][t].closing => ~ tun[e][t].needclose
         /\ \A c \in CallIds(e) : Live(call[e][c]) /\ ~ call[e][c].closing => ~ call[e][c].needclose
<1>1. \A t \in TunnelIds(e) : tun[e][t].needclose \in BOOLEAN /\ tun[e][t].closing \in BOOLEAN
  BY WorldIs, WorldFields DEF Good, Tunnel
<1>2. \A c \in CallIds(e) : call[e][c].needclose \in BOOLEAN /\ call[e][c].closing \in BOOLEAN
  BY WorldIs, WorldFields DEF Good, Call
<1> QED
  BY <1>1, <1>2 DEF Settled, Unsettled

\* Two tunnels that are quiet are sound.
LEMMA QuietAgree ==
  ASSUME Good(World), Agreed(World), NEW t \in TunnelIds("lac"), NEW n \in TunnelIds("lns"), Quiet(t, n)
  PROVE  CallsAgree(t, n)
<1>1. /\ \A c \in CallIds("lac") : Live(call["lac"][c]) /\ ~ call["lac"][c].closing => ~ call["lac"][c].needclose
      /\ ~ tun["lac"][t].needclose /\ ~ tun["lns"][n].needclose
  BY EndIs, SettledIs DEF Quiet
<1>2. Sound(World, t, n)
  BY <1>1, WorldIs DEF Quiet, Sound, Doomed
<1>3. /\ \A c \in CallIds("lac") : Opens(call["lac"][c], t) /\ ~ call["lac"][c].needclose =>
           \E d \in CallIds("lns") : Opens(call["lns"][d], n) /\ call["lns"][d].cid = c /\ call["lac"][c].cid = d
      /\ \A d \in CallIds("lns") : Opens(call["lns"][d], n) =>
           LET c == call["lns"][d].cid
           IN c \in CallIds("lac") /\ Opens(call["lac"][c], t) /\ (call["lac"][c].needclose \/ call["lac"][c].cid = d)
  BY <1>2, SilentAgree DEF Quiet
<1>4. ASSUME NEW c \in CallsOf(World, "lac", t), Open("lac", c) PROVE Paired("lac", c)
  <2>1. c \in CallIds("lac") /\ Opens(call["lac"][c], t) /\ ~ call["lac"][c].needclose
    BY <1>1, <1>4, WorldIs DEF CallsOf, Open, Opens, Lives
  <2>2. PICK d \in CallIds("lns") : Opens(call["lns"][d], n) /\ call["lns"][d].cid = c /\ call["lac"][c].cid = d
    BY <1>3, <2>1
  <2> QED
    BY <2>2, EndIs DEF Paired, Opens, Lives
<1>5. ASSUME NEW d \in CallsOf(World, "lns", n), Open("lns", d) PROVE Paired("lns", d)
  <2> DEFINE c == call["lns"][d].cid
  <2>1. d \in CallIds("lns") /\ Opens(call["lns"][d], n)
    BY <1>5, WorldIs DEF CallsOf, Open, Opens, Lives
  <2>2. c \in CallIds("lac") /\ Opens(call["lac"][c], t) /\ (call["lac"][c].needclose \/ call["lac"][c].cid = d)
    BY <1>3, <2>1
  <2>3. Live(call["lac"][c]) /\ call["lac"][c].cid = d
    BY <1>1, <2>2 DEF Opens, Lives
  <2> QED
    BY <2>2, <2>3, EndIs DEF Paired
<1> QED
  BY <1>4, <1>5 DEF CallsAgree

\* At rest the tunnel of a call that waits would be sound, and have no answer to come.
LEMMA RestAnswers ==
  ASSUME CountAssumption, Good(World), Agreed(World), AtRest, NEW c \in CallIds("lac"), call["lac"][c].state = "ICRQ"
  PROVE  call["lac"][c].closing
<1> SUFFICES ASSUME ~ call["lac"][c].closing PROVE FALSE
  OBVIOUS
<1> DEFINE t == call["lac"][c].tun
           n == tun["lac"][t].tid
<1>1. Live(call["lac"][c])
  BY DEF Live
<1>2. t \in TunnelIds("lac") /\ Live(tun["lac"][t]) /\ (n # 0 \/ tun["lac"][t].stuck)
  BY <1>1, WorldIs, EndIs DEF Good, CallInv, Sends
<1>3. Settled("lac") /\ ~ call["lac"][c].needclose /\ ~ tun["lac"][t].needclose /\ ~ tun["lac"][t].closing
      /\ ~ tun["lac"][t].stuck /\ box["lac"][t] = <<>>
      /\ (tun["lac"][t].state = "SCCCN" => Live(tun["lns"][n]))
  <2>1. Settled("lac") /\ ~ tun["lac"][t].closing /\ ~ tun["lac"][t].stuck /\ box["lac"][t] = <<>>
        /\ (tun["lac"][t].state = "SCCCN" => Live(tun["lns"][n]))
    BY <1>2, EndIs DEF AtRest
  <2> HIDE DEF t
  <2> QED
    BY Zenon, <1>1, <1>2, <2>1, EndIs, SettledIs
<1>4. TunInv(World, "lac", t, tun["lac"][t]) /\ Settles(tun["lac"][t])
  BY <1>2, WorldIs, EndIs DEF Good, Agreed
<1> HIDE DEF t
<1>5. n \in TunnelIds("lns") /\ Live(tun["lns"][n])
  BY <1>2, <1>3, <1>4, EndIs DEF TunInv, Settles, Doomed
<1>6. tun["lns"][n].tid = t
  BY <1>2, <1>3, <1>4, <1>5, WorldIs, EndIs DEF TunInv, LacTunInv, Knows, Live
<1>7. ~ tun["lns"][n].needclose /\ ~ tun["lns"][n].closing /\ ~ tun["lns"][n].stuck /\ box["lns"][n] = <<>>
  <2>1. Settled("lns") /\ ~ tun["lns"][n].closing /\ ~ tun["lns"][n].stuck /\ box["lns"][n] = <<>>
    BY Zenon, <1>5, EndIs DEF AtRest
  <2> HIDE DEF n
  <2> QED
    BY <1>5, <2>1, EndIs, SettledIs
<1>8. Sound(World, t, n)
  BY <1>2, <1>3, <1>5, <1>6, <1>7, WorldIs DEF Sound, Doomed
<1>9. Opens(call["lac"][c], t)
  BY <1>1 DEF Opens, Lives, t
<1> HIDE DEF n
<1>10. PICK d \in CallIds("lns") : call["lac"][c].cid = d
  BY <1>2, <1>3, <1>5, <1>7, <1>8, <1>9, SilentAgree
<1>11. call["lac"][c].cid = 0
  BY <1>2, <1>3, <1>5, <1>7, <1>8, <1>9, SilentAgree
<1> QED
  BY <1>10, <1>11, EndIs, NoCallZero

\* The types of the tunnels, the calls, the messages and the pool, whatever a peer sends
\* (struct tunnel, struct call, uaddr[] of xl2tpd).
THEOREM TypesHold == Spec => []TypeOK
<1>1. IInv => TypeOK
  <2> SUFFICES ASSUME IInv PROVE TypeOK
    OBVIOUS
  <2>1. IsWorld(World)
    BY DEF IInv, Fine, Good
  <2>2. /\ \A e \in End : tun[e] \in [TunnelIds(e) -> Tunnel]
        /\ \A e \in End : call[e] \in [CallIds(e) -> Call]
        /\ \A e \in End : box[e] \in [TunnelIds(e) -> Seq(Message)]
        /\ used \in SUBSET (Pool \cup LocalPool) /\ local \in LocalPool \cup {0}
    BY <2>1, WorldIs DEF IsWorld
  <2>3. /\ \A e \in End : ahead[e] \in [TunnelIds(e) -> BOOLEAN]
        /\ \A e \in End : zlbs[e] \in [TunnelIds(e) -> SUBSET Zlb]
    BY DEF IInv, AheadInv, ZlbsInv
  <2> QED
    BY <2>2, <2>3 DEF IInv, Rest, TypeOK
<1> QED
  BY <1>1, Invariant, CountAssumption, PoolAssumption, ConfAssumption, UpsetAssumption, PTL

\* get_addr, unreserve_addr and destroy_call keep the addresses: those in use are those of
\* the calls, and no two calls have one.
THEOREM NoAddressIsLost == Spec => []AddressesConserved
<1>1. IInv => AddressesConserved
  <2> SUFFICES ASSUME IInv PROVE AddressesConserved
    OBVIOUS
  <2>1. PoolInv(World) /\ LiveCalls(World) = LnsCalls
    BY WorldIs DEF IInv, Fine, Good, LiveCalls, LnsCalls
  <2> QED
    BY <2>1, WorldIs DEF PoolInv, AddressesConserved
<1> QED
  BY <1>1, Invariant, CountAssumption, PoolAssumption, ConfAssumption, UpsetAssumption, PTL

\* handle_challenge and message_type_avp let no peer without the secret have a tunnel up
\* with an end that challenges it, also when its SCCCN is unasked, nor pppd run in a tunnel
\* that is not up.  The statement leaves out the LNS that challenges and has no secret for the
\* peer (control.c:502), and OCCN, which asks for no tunnel that is up (avp.c:293).
THEOREM OnlyWithTheSecret == Spec => []Authentic
<1>1. IInv => Authentic
  <2> SUFFICES ASSUME IInv PROVE Authentic
    OBVIOUS
  <2>1. \A e \in End : \A t \in TunnelIds(e) : TunInv(World, e, t, tun[e][t])
    BY WorldIs DEF IInv, Fine, Good
  <2>2. \A e \in End : \A c \in CallIds(e) : CallInv(World, e, call[e][c])
    BY WorldIs DEF IInv, Fine, Good
  <2>3. \A n \in TunnelIds("lns") :
          tun["lns"][n].state = "SCCCN" /\ conf.lnsChallenges /\ HasSecret("lns") => conf.secrets = "same"
    BY <2>1, EndIs DEF TunInv, LnsTunInv
  <2>4. \A t \in TunnelIds("lac") : tun["lac"][t].state = "SCCCN" /\ conf.lacChallenges => conf.secrets = "same"
    BY <2>1, EndIs DEF TunInv, LacTunInv
  <2>5. \A e \in End : \A c \in CallIds(e) : call[e][c].pppd =>
          tun[e][call[e][c].tun].state = "SCCCN" \/ (e = "lac" /\ conf.outgoing /\ mishaps # 0)
    BY <2>2, WorldIs DEF CallInv, Up, Ill, Odd
  <2> QED
    BY <2>3, <2>4, <2>5 DEF Authentic
<1> QED
  BY <1>1, Invariant, CountAssumption, PoolAssumption, ConfAssumption, UpsetAssumption, PTL

\* However often the SCCRQ of a tunnel comes, one tunnel of the LNS answers it (the first
\* part of EndsAgree; the look for other tunnels with the same id in control_finish).
THEOREM OneTunnelAnswers == Spec => []AnsweredOnce
<1>1. IInv => AnsweredOnce
  <2> SUFFICES ASSUME IInv PROVE AnsweredOnce
    OBVIOUS
  <2>1. \A t \in TunnelIds("lns") : Alone(World, t, tun["lns"][t])
    BY WorldIs DEF IInv, Fine, Good
  <2> QED
    BY <2>1, WorldIs DEF AnsweredOnce, Alone, Answered
<1> QED
  BY <1>1, Invariant, CountAssumption, PoolAssumption, ConfAssumption, UpsetAssumption, PTL

\* The ids of ICRQ, ICRP and OCRP reach their calls, and a call that one end closes is closed
\* at the other (control_finish, call_close): when two tunnels are quiet, and no message
\* lacked something or was unasked and no ZLB was counted in (control.c:1750), each open call
\* of one end has its call at the other, by both ids.
THEOREM EndsDoAgree == Spec => []EndsAgree
<1>1. IInv => EndsAgree
  <2> SUFFICES ASSUME IInv PROVE EndsAgree
    OBVIOUS
  <2>1. AnsweredOnce
    <3>1. \A t \in TunnelIds("lns") : Alone(World, t, tun["lns"][t])
      BY WorldIs DEF IInv, Fine, Good
    <3> QED
      BY <3>1, WorldIs DEF AnsweredOnce, Alone, Answered
  <2>2. ASSUME mishaps = 0, NEW t \in TunnelIds("lac"), NEW n \in TunnelIds("lns"), Quiet(t, n)
        PROVE  CallsAgree(t, n)
    BY <2>2, QuietAgree DEF IInv, Fine
  <2> QED
    BY <2>1, <2>2 DEF EndsAgree
<1> QED
  BY <1>1, Invariant, CountAssumption, PoolAssumption, ConfAssumption, UpsetAssumption, PTL

\* An ICRQ is answered or refused, or its call ends with the tunnel (message_type_avp,
\* control_finish, call_close, control_xmit): at rest no call of the LAC waits for an answer
\* that will not come, when no message lacked something or was unasked and no ZLB was counted
\* in (control.c:1750).
THEOREM NobodyWaits == Spec => []NoCallWaits
<1>1. IInv => NoCallWaits
  <2> SUFFICES ASSUME IInv, AtRest, mishaps = 0, NEW c \in CallIds("lac"), call["lac"][c].state = "ICRQ"
               PROVE  call["lac"][c].closing
    BY DEF NoCallWaits
  <2> QED
    BY CountAssumption, RestAnswers DEF IInv, Fine
<1> QED
  BY <1>1, Invariant, CountAssumption, PoolAssumption, ConfAssumption, UpsetAssumption, PTL
====

------------------------------ MODULE L2tpSetup ------------------------------
(***************************************************************************)
(* The set-up of L2TP tunnels and of the calls in them: control_finish of  *)
(* control.c for every message, between a LAC that opens tunnels and       *)
(* places calls and an LNS that answers, with the handling of attributes   *)
(* (L2tpAvp), the challenges and the addresses of aaa.c, pppd, and the     *)
(* ways a tunnel or a call ends (call_close, destroy_call).                *)
(*                                                                         *)
(* An end takes the messages of its peer in order and once (L2tpControl),  *)
(* so a tunnel here has a queue of messages to take.  What is lost is what *)
(* retransmission cannot help: a message to a tunnel that is gone or to    *)
(* tunnel 0, one tossed by a close, and the one that comes after a ZLB for *)
(* a closed call, which handle_special counts in.                          *)
(***************************************************************************)
EXTENDS L2tpAvp, FiniteSets, FiniteSetsExt, Selection

CONSTANTS
  Tunnels,     \* Tunnels[e] and Calls[e]: how many tunnels and calls the end e makes;
  Calls,       \*   their ids 1, 2, ... are never used again
  Pool,       \* the addresses an LNS hands out (lns->range)
  LocalPool,  \* and those it takes for itself (lns->localrange), if any
  Confs,       \* the configurations of the two ends
  Flaws,       \* what may be wrong with a message of another implementation
  MaxMishaps,  \* bound: messages with a flaw or unasked, and ZLBs counted in
  Upsets       \* what else may happen, of those UpsetKinds names

End == {"lac", "lns"}
Peer(e) == IF e = "lac" THEN "lns" ELSE "lac"

\* Who challenges whom; the secrets of the two ends ("same", "differ", or only one end
\* has one); whether get_lns lets the LAC in; whether calls are placed with OCRQ.
Conf == [lacChallenges : BOOLEAN, lnsChallenges : BOOLEAN,
         secrets : {"same", "differ", "lac", "lns"}, authorised : BOOLEAN, outgoing : BOOLEAN]

UpsetKinds == {"SCCRQ comes again", "pppd exits", "early call", "early hangup",
               "disconnect", "pppd fails", "ZLB counted in", "unasked SCCCN"}
FlawKinds  == {"q.931", "unknown", "no id", "size", "no framing", "no name"}

ASSUME CountAssumption == Tunnels \in [End -> Nat] /\ Calls \in [End -> Nat]
ASSUME PoolAssumption == /\ Pool \subseteq Nat \ {0} /\ LocalPool \subseteq Nat \ {0}
                          /\ IsFiniteSet(Pool) /\ IsFiniteSet(LocalPool)
                          /\ Pool \cap LocalPool = {}
ASSUME ConfAssumption  == Confs \subseteq Conf /\ MaxMishaps \in Nat
ASSUME UpsetAssumption == Upsets \subseteq UpsetKinds /\ Flaws \subseteq FlawKinds

VARIABLES
  tun,    \* tun[e][t]: struct tunnel and its self call
  call,   \* call[e][c]: struct call
  box,    \* box[e][t]: messages on their way to tunnel t of e, in order
  asked,  \* the tunnels of the LAC whose SCCRQ is on its way to the LNS, or was taken
  used,   \* the addresses in uaddr[]
  local,  \* lns->localaddr
  conf,   \* the configuration, which does not change
  mishaps, \* how many messages had a flaw or were unasked, and ZLBs were counted in
  ahead,  \* ahead[e][t]: tunnel t of e counts one message more than its peer has sent
  zlbs    \* zlbs[e][t]: the ZLBs for calls that may still come to tunnel t of e

drift == <<ahead, zlbs>>
vars  == <<tun, call, box, asked, used, local, conf, mishaps, drift>>

TunnelIds(e) == 1 .. Tunnels[e]
CallIds(e)   == 1 .. Calls[e]

\* A tunnel that was never made is "off", one that was destroyed "gone".
Tunnel ==
  [state : TunnelState \cup {"off", "gone"},
   tid : Nat,                              \* the peer's id, 0 while it is unknown (or -1)
   us : BOOLEAN, them : BOOLEAN,           \* chal_us.state, chal_them.state
   needclose : BOOLEAN, closing : BOOLEAN,
   heard : Nat,      \* the peer's tunnel whose messages come in sequence, 0 before the first
   stuck : BOOLEAN]  \* it has sent a message that will never be taken, nor what follows it

Call ==
  [state : CallState \cup {"off", "gone"}, tun : Nat, cid : Nat, addr : Nat, pppd : BOOLEAN,
   needclose : BOOLEAN, closing : BOOLEAN]

\* id: the assigned id it carries.  resp: the response to a challenge, "right" when it is
\* the one expected.  cid: the header's call id.  from: the tunnel of the sender.
Message ==
  [kind : Kind, from : Nat, cid : Nat, id : Nat, chal : BOOLEAN,
   resp : {"none", "right", "wrong"}]

\* A ZLB from a tunnel of the peer to call: one of ours, or 0 for none (handle_special).
Zlb == [from : Nat, call : Nat]

NoTunnel == [state |-> "off", tid |-> 0, us |-> FALSE, them |-> FALSE, needclose |-> FALSE,
             closing |-> FALSE, heard |-> 0, stuck |-> FALSE]
NoCall   == [state |-> "off", tun |-> 0, cid |-> 0, addr |-> 0, pppd |-> FALSE,
             needclose |-> FALSE, closing |-> FALSE]

Init ==
  /\ tun = [e \in End |-> [t \in TunnelIds(e) |-> NoTunnel]]
  /\ call = [e \in End |-> [c \in CallIds(e) |-> NoCall]]
  /\ box = [e \in End |-> [t \in TunnelIds(e) |-> <<>>]]
  /\ asked = {} /\ used = {} /\ local = 0 /\ mishaps = 0
  /\ ahead = [e \in End |-> [t \in TunnelIds(e) |-> FALSE]]
  /\ zlbs = [e \in End |-> [t \in TunnelIds(e) |-> {}]]
  /\ conf \in Confs

Live(x) == x.state \notin {"off", "gone"}

\* needclose ^ closing, of a tunnel (its self call) or of a call.
Unsettled(x) == Live(x) /\ x.needclose # x.closing
Settled(e) == /\ \A t \in TunnelIds(e) : ~ Unsettled(tun[e][t])
              /\ \A c \in CallIds(e) : ~ Unsettled(call[e][c])

-----------------------------------------------------------------------------
(* Handlers work on the record w of the state they may change.              *)
(* An operator X_Fault is X as a slip in the code would have it; the runs do not use it. *)

World == [tun |-> tun, call |-> call, box |-> box, used |-> used, local |-> local]
Become(w) ==
  tun' = w.tun /\ call' = w.call /\ box' = w.box /\ used' = w.used /\ local' = w.local

CallsOf(w, e, t) == {c \in CallIds(e) : Live(w.call[e][c]) /\ w.call[e][c].tun = t}

\* Who has a secret for the other end.
HasSecret(e) == conf.secrets \in {"same", "differ", e}

\* add_control_hdr and control_xmit: a message goes to tunnel t->tid.
Send(w, e, t, m) ==
  LET u == w.tun[e][t]
  IN IF u.stuck \/ u.tid = 0 \/ ~ Live(w.tun[Peer(e)][u.tid])
     THEN [w EXCEPT !.tun[e][t].stuck = TRUE]
     ELSE [w EXCEPT !.box[Peer(e)][u.tid] = Append(@, m)]

Plain(kind, t, cid, id) ==
  [kind |-> kind, from |-> t, cid |-> cid, id |-> id, chal |-> FALSE, resp |-> "none"]

\* unreserve_addr, for the addresses of the calls and for lns->localaddr.
Unreserved_Kept(w, e, cs) == w.used
Unreserved(w, e, cs) ==
  w.used \ ({w.call[e][c].addr : c \in cs}
               \cup (IF e = "lns" /\ LocalPool # {} /\ cs # {} THEN {w.local} ELSE {}))

\* destroy_call, for each of the calls: pppd is killed, the addresses come back.
DestroyCalls(w, e, cs) ==
  [w EXCEPT !.call[e] = [c \in CallIds(e) |-> IF c \in cs THEN [NoCall EXCEPT !.state = "gone"] ELSE @[c]],
            !.used = Unreserved(w, e, cs)]

DestroyCall(w, e, c) == DestroyCalls(w, e, {c})

\* call_close of a call.
CloseCall(w, e, c) ==
  LET k == w.call[e][c]
  IN IF k.closing THEN DestroyCall(w, e, c)
     ELSE [Send(w, e, k.tun, Plain("CDN", k.tun, k.cid, c)) EXCEPT !.call[e][c].closing = TRUE]

\* destroy_tunnel: what the peer still had on its way to it will never be acknowledged.
DestroyTunnel(w, e, t) ==
  LET strands(u) == \E i \in DOMAIN w.box[e][t] : w.box[e][t][i].from = u
  IN [DestroyCalls(w, e, CallsOf(w, e, t)) EXCEPT
        !.tun[e][t] = [NoTunnel EXCEPT !.state = "gone"],
        !.tun[Peer(e)] = [u \in TunnelIds(Peer(e)) |-> [w.tun[Peer(e)][u] EXCEPT !.stuck = @ \/ strands(u)]],
        !.box[e][t] = <<>>]

\* call_close tosses what the peer has not acknowledged, what it sent after the first n
\* messages the peer has yet to take (L2tpControl).
Tossed(w, e, t, n) ==
  LET u == w.tun[e][t]
      b == w.box[Peer(e)][u.tid]
      left == Selected(b, {i \in DOMAIN b : i <= n \/ b[i].from # t})
  IN IF u.tid = 0 \/ left = b THEN w
     ELSE [w EXCEPT !.box[Peer(e)][u.tid] = left, !.tun[e][t].stuck = TRUE]

\* call_close of the self call of a tunnel.
CloseTunnel(w, e, t, n) ==
  IF w.tun[e][t].closing THEN DestroyTunnel(w, e, t)
  ELSE [Send(DestroyCalls(Tossed(w, e, t, n), e, CallsOf(w, e, t)), e, t, Plain("StopCCN", t, 0, t))
          EXCEPT !.tun[e][t].closing = TRUE]

\* needclose = -1, and the end without a farewell (needclose = 0, closing = -1); the
\* self call of the tunnel is call 0.
Marked(w, e, t, c) ==
  IF c = 0 THEN [w EXCEPT !.tun[e][t].needclose = TRUE]
  ELSE [w EXCEPT !.call[e][c].needclose = TRUE]
Ended(w, e, t, c) ==
  IF c = 0 THEN [w EXCEPT !.tun[e][t].needclose = FALSE, !.tun[e][t].closing = TRUE]
  ELSE [w EXCEPT !.call[e][c].needclose = FALSE, !.call[e][c].closing = TRUE]

-----------------------------------------------------------------------------
(* control_finish, message by message: t is the tunnel, c the call (0: the   *)
(* self call), m the message, kept the attributes whose values were taken.   *)

\* l2tp_call: a tunnel with tid 0, whose SCCRQ goes to whoever listens there.
OpenTunnel(t) ==
  /\ Settled("lac")
  /\ tun["lac"][t].state = "off"
  /\ tun' = [tun EXCEPT !["lac"][t].state = "SCCRQ", !["lac"][t].them = conf.lacChallenges]
  /\ asked' = asked \cup {t}
  /\ UNCHANGED <<call, box, used, local, conf, mishaps, drift>>

\* lac_call: a new call, and ICRQ or OCRQ for it, whatever the state of the tunnel.
PlaceCall(w, t, c) ==
  LET kind == IF conf.outgoing THEN "OCRQ" ELSE "ICRQ"
  IN Send([w EXCEPT !.call["lac"][c] = [NoCall EXCEPT !.state = kind, !.tun = t]],
          "lac", t, Plain(kind, t, 0, c))

\* The response to the challenge of the peer, and whether it is the one expected.
Response(e) == IF conf.secrets = "same" THEN "right" ELSE "wrong"

\* Another tunnel of the same peer with the same id.
AskedTwice_Never(w, n) == FALSE
AskedTwice(w, n) ==
  \E y \in TunnelIds("lns") \ {n} : Live(w.tun["lns"][y]) /\ w.tun["lns"][y].tid = w.tun["lns"][n].tid

FinishSCCRQ(w, n, m, kept) ==
  LET u == w.tun["lns"][n]
      reply == [Plain("SCCRP", n, 0, n) EXCEPT
                  !.chal = conf.lnsChallenges, !.resp = IF u.us THEN Response("lns") ELSE "none"]
      begun == [w EXCEPT !.tun["lns"][n].state = "SCCRP", !.tun["lns"][n].them = conf.lnsChallenges]
  IN IF \/ u.tid = 0
        \/ ~ conf.authorised
        \/ "framing caps" \notin kept
        \/ "host name" \notin kept /\ (u.us \/ conf.lnsChallenges)
     THEN Marked(w, "lns", n, 0)
     ELSE IF AskedTwice(w, n) THEN Ended(w, "lns", n, 0)
     ELSE IF conf.lnsChallenges /\ ~ HasSecret("lns")
     THEN [w EXCEPT !.tun["lns"][n].state = "SCCRP"]
     ELSE Send(begun, "lns", n, reply)

\* The last part is magic_lac_dial, when the LAC is active and may still try.
FinishSCCRP(w, t, m, kept, dials, c) ==
  LET u == w.tun["lac"][t]
      reply == [Plain("SCCCN", t, 0, 0) EXCEPT !.resp = IF u.us THEN Response("lac") ELSE "none"]
      done == Send([w EXCEPT !.tun["lac"][t].state = "SCCCN"], "lac", t, reply)
  IN IF \/ "framing caps" \notin kept
        \/ "host name" \notin kept /\ (u.us \/ u.them)
        \/ u.tid = 0
        \/ u.them /\ (~ HasSecret("lac") \/ ~ ("response" \in kept /\ m.resp = "right"))
        \/ u.us /\ ~ HasSecret("lac")
     THEN Marked(w, "lac", t, 0)
     ELSE IF dials THEN PlaceCall(done, t, c) ELSE done

Proven_Any(u, m, kept) == TRUE
Proven(u, m, kept) == u.them => "response" \in kept /\ m.resp = "right"

FinishSCCCN(w, n, m, kept) ==
  IF Proven(w.tun["lns"][n], m, kept)
  THEN [w EXCEPT !.tun["lns"][n].state = "SCCCN"]
  ELSE Marked(w, "lns", n, 0)

FinishStopCCN(w, e, t, m, kept) ==
  LET v == [w EXCEPT !.tun[e][t].tid = m.id]
  IN IF "assigned tunnel" \notin kept \/ w.tun[e][t].tid \notin {0, m.id} THEN w
     ELSE IF "result code" \notin kept THEN v
     ELSE Ended(v, e, t, 0)

\* get_addr: the first address of the range that is not in use, 0 when there is none.
GetAddr_Past(range, taken) == IF range \subseteq taken THEN Max(range) + 1 ELSE Min(range \ taken)
GetAddr(range, taken) == IF range \subseteq taken THEN 0 ELSE Min(range \ taken)

\* p is the new call message_type_avp has put at the head of the tunnel's list.
FinishICRQ_Silent(w, n, p) ==
  LET a == GetAddr(Pool, w.used)
  IN IF a = 0 THEN DestroyCall(w, "lns", p)
     ELSE Send([w EXCEPT !.call["lns"][p].state = "ICRP", !.call["lns"][p].addr = a, !.used = @ \cup {a}],
               "lns", n, Plain("ICRP", n, w.call["lns"][p].cid, p))
FinishICRQ(w, n, p) ==
  LET k == w.call["lns"][p]
      a == GetAddr(Pool, w.used)
  IN IF \E z \in CallsOf(w, "lns", n) \ {p} : w.call["lns"][z].cid = k.cid
     THEN Ended(w, "lns", n, p)
     ELSE IF a = 0 THEN CloseCall(w, "lns", p)
     ELSE Send([w EXCEPT !.call["lns"][p].state = "ICRP", !.call["lns"][p].addr = a, !.used = @ \cup {a}],
               "lns", n, Plain("ICRP", n, k.cid, p))

FinishICRP(w, t, c, started) ==
  [Send(w, "lac", t, Plain("ICCN", t, w.call["lac"][c].cid, 0)) EXCEPT
     !.call["lac"][c].state = "ICCN", !.call["lac"][c].pppd = @ \/ started]

\* get_local_addr, which stores the address in the LNS.
FinishICCN(w, n, c, started) ==
  LET up == [w EXCEPT !.call["lns"][c].state = "ICCN"]
      a  == GetAddr(LocalPool, w.used)
      pppd(v) == [v EXCEPT !.call["lns"][c].pppd = @ \/ started]
  IN IF LocalPool = {} THEN pppd(up)
     ELSE IF a = 0 THEN [CloseCall(up, "lns", c) EXCEPT !.local = 0]
     ELSE pppd([up EXCEPT !.local = a, !.used = @ \cup {a}])

FinishOCCN(w, t, c, started) == [w EXCEPT !.call["lac"][c].pppd = @ \/ started]

\* CDN.  On the self call the code looks for the call that has the id, and then closes
\* the self call.
FinishCDN(w, e, t, c, m, kept) ==
  LET cs == IF c # 0 THEN {c} ELSE {d \in CallsOf(w, e, t) : w.call[e][d].cid = m.id}
  IN IF \/ "assigned call" \notin kept
        \/ \A d \in cs : w.call[e][d].cid \notin {0, m.id}
        \/ "result code" \notin kept
     THEN w
     ELSE Ended(w, e, t, c)

-----------------------------------------------------------------------------
(* handle_packet for a message of the control connection.                    *)

\* What another implementation may do to its attributes: one without a handler here, an
\* unknown one, no id, a length that is wrong, no framing capabilities or host name.
Without(avps, attrs) == Selected(avps, {i \in DOMAIN avps : avps[i].attr \notin attrs})
Spoilt(avps, flaw) ==
  CASE flaw = "q.931"   -> Append(avps, Mandatory("q.931 cause"))
    [] flaw = "unknown" -> Append(avps, Mandatory("unknown"))
    [] flaw = "no id"   -> Without(avps, {"assigned tunnel", "assigned call"})
    [] flaw = "size"    -> [avps EXCEPT ![Len(avps)].form = "size"]
    [] flaw = "no framing" -> Without(avps, {"framing caps"})
    [] flaw = "no name" -> Without(avps, {"host name"})
    [] OTHER -> avps

AvpsOf(m, flaw) == Spoilt(Carried(m.kind, m.chal, m.resp # "none"), flaw)

\* The values the handlers of avp.c store in the tunnel and the call.
Stored_AtHead(w0, e, t, c, m, kept, p) ==
  LET w == [w0 EXCEPT !.tun[e][t].tid = IF "assigned tunnel" \in kept /\ m.kind \in Opening THEN m.id ELSE @]
  IN IF "assigned call" \in kept /\ m.kind \in {"ICRQ", "ICRP", "OCRP"}
  THEN [w EXCEPT !.call[e][Max(CallsOf(w, e, t) \cup {1})].cid = m.id] ELSE w
Stored(w, e, t, c, m, kept, p) ==
  LET v == [w EXCEPT
              !.tun[e][t].tid = IF "assigned tunnel" \in kept /\ m.kind \in Opening THEN m.id ELSE @,
              !.tun[e][t].us = @ \/ "challenge" \in kept]
  IN CASE "assigned call" \in kept /\ m.kind = "ICRQ" -> [v EXCEPT !.call[e][p].cid = m.id]
       [] "assigned call" \in kept /\ m.kind \in {"ICRP", "OCRP"} -> [v EXCEPT !.call[e][c].cid = m.id]
       [] OTHER -> v

\* handle_avps, then control_finish unless it returned an error.  new is the id of the
\* call that message_type_avp or magic_lac_dial may make.
Handle(w, e, t, c, m, flaw, started, dials, new) ==
  LET r == HandleAvps(AvpsOf(m, flaw), m.kind, w.tun[e][t].state,
                      IF c = 0 THEN "idle" ELSE w.call[e][c].state, c # 0)
      made == IF m.kind = "ICRQ" /\ "message type" \in r.kept
              THEN [w EXCEPT !.call[e][new] = [NoCall EXCEPT !.state = "idle", !.tun = t]]
              ELSE w
      v == Stored(made, e, t, c, m, r.kept, new)
      x == IF r.close THEN Marked(v, e, t, c) ELSE v
  IN IF r.error THEN x
     ELSE CASE m.kind = "SCCRQ"   -> FinishSCCRQ(x, t, m, r.kept)
            [] m.kind = "SCCRP"   -> FinishSCCRP(x, t, m, r.kept, dials, new)
            [] m.kind = "SCCCN"   -> FinishSCCCN(x, t, m, r.kept)
            [] m.kind = "StopCCN" -> FinishStopCCN(x, e, t, m, r.kept)
            [] m.kind = "ICRQ"    -> FinishICRQ(x, t, new)
            [] m.kind = "ICRP"    -> FinishICRP(x, t, c, started)
            [] m.kind = "ICCN"    -> FinishICCN(x, t, c, started)
            [] m.kind = "OCCN"    -> FinishOCCN(x, t, c, started)
            [] m.kind = "CDN"     -> FinishCDN(x, e, t, c, m, r.kept)
            [] OTHER              -> x

\* The calls are made in the order of their ids.
NewIds(e) == {c \in CallIds(e) : call[e][c].state = "off" /\ \A d \in 1 .. (c - 1) : call[e][d].state # "off"}

\* The flaws a message with these attributes can have, while the bound lasts.
FlawsOf(m) ==
  {"none"} \cup {f \in Flaws : /\ mishaps < MaxMishaps
                               /\ f = "q.931" => m.kind = "CDN"
                               /\ Spoilt(AvpsOf(m, "none"), f) # AvpsOf(m, "none")}

\* A handler of the end e for message m, which has one of some flaws, on tunnel t and call c.
Run(w, e, t, c, m, some) ==
  \E flaw \in some, started \in BOOLEAN, dials \in BOOLEAN, new \in NewIds(e) \cup {0} :
    /\ ~ started => "pppd fails" \in Upsets /\ m.kind \in {"ICRP", "ICCN", "OCCN"}
    /\ dials => m.kind = "SCCRP"
    /\ (dials \/ m.kind = "ICRQ") <=> new # 0
    /\ Become(Handle(w, e, t, c, m, flaw, started, dials, new))
    /\ mishaps' = mishaps + (IF flaw = "none" THEN 0 ELSE 1)
    /\ UNCHANGED conf

\* get_call with tunnel 0 makes a new tunnel.  A copy of a request may come late.
TakeRequest(t, n) ==
  /\ Settled("lns")
  /\ t \in asked
  /\ tun["lns"][n].state = "off" /\ \A y \in 1 .. (n - 1) : tun["lns"][y].state # "off"
  /\ n = 1 \/ "SCCRQ comes again" \in Upsets
  /\ LET m == [Plain("SCCRQ", t, 0, t) EXCEPT !.chal = conf.lacChallenges]
         w == [World EXCEPT !.tun["lns"][n].state = "idle", !.tun["lns"][n].heard = t]
     IN Run(w, "lns", n, 0, m, IF n = 1 THEN FlawsOf(m) ELSE {"none"})
  /\ UNCHANGED <<asked, drift>>

\* check_control: messages of another tunnel of the peer, which counts from 0 too, are
\* not in sequence once one was taken; nor is the next message of the peer when a ZLB has
\* been counted in: it is taken for an old one, acknowledged, and tossed by its sender,
\* before it is sent at all or after (network.c:225).
InSequence(e, t, m) == tun[e][t].heard \in {0, m.from} /\ ~ ahead[e][t]

\* A message for a call is acknowledged, when it comes and whenever a copy of it does, with a
\* ZLB for the call of the peer, or for an id the peer does not know when our call is gone.
Acknowledge(e, t, m) ==
  LET z == [from |-> t, call |-> IF m.cid \in CallsOf(World, e, t) THEN call'[e][m.cid].cid ELSE 0]
  IN zlbs' = IF \/ m.cid = 0 \/ tun[e][t].tid # m.from
                \/ m.cid \in CallsOf(World, e, t) /\ z.call = 0
             THEN zlbs
             ELSE [zlbs EXCEPT ![Peer(e)][m.from] = @ \cup {z}]

\* A message for a call that is gone is only acknowledged (handle_special).
Receive(e, t) ==
  /\ Settled(e)
  /\ Live(tun[e][t])
  /\ box[e][t] # <<>>
  /\ LET m == Head(box[e][t])
         w == [World EXCEPT !.box[e][t] = Tail(@), !.tun[e][t].heard = IF @ = 0 THEN m.from ELSE @]
     IN /\ IF ~ InSequence(e, t, m) \/ (m.cid # 0 /\ m.cid \notin CallsOf(World, e, t))
           THEN /\ Become([w EXCEPT !.tun[e][t].heard = tun[e][t].heard])
                /\ UNCHANGED <<conf, mishaps>>
           ELSE Run(w, e, t, m.cid, m, FlawsOf(m))
        /\ Acknowledge(e, t, m)
        /\ ahead' = [ahead EXCEPT ![e][t] = @ /\ tun[e][t].heard # m.from]
  /\ UNCHANGED asked

\* Nothing of tunnel u of the peer is on its way to tunnel t of e, nor was it tossed.
Caught(e, t, u) ==
  /\ \A i \in DOMAIN box[e][t] : box[e][t][i].from # u
  /\ ~ tun[Peer(e)][u].stuck

\* handle_special: "If it's a ZLB, we ignore it" (control.c:1754), but check_control has
\* counted it (control.c:1750).  What the peer sends after the ZLB comes after it here too:
\* nothing can be taken between the two.
CountIn(e, t) ==
  /\ "ZLB counted in" \in Upsets /\ mishaps < MaxMishaps
  /\ Settled(e)
  /\ Live(tun[e][t]) /\ ~ ahead[e][t]
  /\ \E z \in zlbs[e][t] : /\ z.call = 0 \/ z.call \notin CallsOf(World, e, t)
                          /\ z.from = tun[e][t].heard /\ Caught(e, t, z.from)
  /\ ahead' = [ahead EXCEPT ![e][t] = TRUE]
  /\ mishaps' = mishaps + 1
  /\ UNCHANGED <<tun, call, box, asked, used, local, conf, zlbs>>

\* The message that is not in sequence is a Hello of the peer.
HelloRefused(e, t) ==
  /\ Settled(e)
  /\ Live(tun[e][t]) /\ ahead[e][t]
  /\ \E u \in TunnelIds(Peer(e)) :
       /\ u = tun[e][t].heard /\ Caught(e, t, u)
       /\ tun[Peer(e)][u].state = "SCCCN" /\ ~ tun[Peer(e)][u].closing
  /\ ahead' = [ahead EXCEPT ![e][t] = FALSE]
  /\ UNCHANGED <<tun, call, box, asked, used, local, conf, mishaps, zlbs>>

\* The LAC of another implementation does not wait for the SCCRP to send its SCCCN.
UnaskedSCCCN(t, n) ==
  /\ "unasked SCCCN" \in Upsets /\ mishaps < MaxMishaps
  /\ Settled("lac") /\ tun["lac"][t].state = "SCCRQ"
  /\ Live(tun["lns"][n]) /\ tun["lns"][n].tid = t
  /\ box' = [box EXCEPT !["lns"][n] = Append(@, Plain("SCCCN", t, 0, 0))]
  /\ mishaps' = mishaps + 1
  /\ UNCHANGED <<tun, call, asked, used, local, conf, drift>>

\* Another implementation answers an OCRQ at once with OCRP and OCCN.
AnswerOCRQ(n, new) ==
  /\ conf.outgoing /\ Settled("lns")
  /\ tun["lns"][n].state = "SCCCN" /\ ~ ahead["lns"][n]
  /\ box["lns"][n] # <<>> /\ Head(box["lns"][n]).kind = "OCRQ"
  /\ new \in NewIds("lns")
  /\ LET id == Head(box["lns"][n]).id
         w == [World EXCEPT !.box["lns"][n] = Tail(@),
                 !.call["lns"][new] = [NoCall EXCEPT !.state = "ICCN", !.tun = n, !.cid = id, !.pppd = TRUE]]
     IN Become(Send(Send(w, "lns", n, Plain("OCRP", n, id, new)), "lns", n, Plain("OCCN", n, id, 0)))
  /\ UNCHANGED <<asked, conf, mishaps, drift>>

-----------------------------------------------------------------------------
(* Commands, failures and the closing pass of the loop.                      *)

Calling(t, c) ==
  /\ Settled("lac")
  /\ tun["lac"][t].state \in {"SCCCN"} \cup (IF "early call" \in Upsets THEN {"SCCRQ"} ELSE {})
  /\ c \in NewIds("lac")
  /\ Become(PlaceCall(World, t, c))
  /\ UNCHANGED <<asked, conf, mishaps, drift>>

\* build_fdset: call_close for whatever is unsettled, calls first.
CloseUnsettledCall(e, c) ==
  /\ Unsettled(call[e][c])
  /\ Become(CloseCall(World, e, c))
  /\ UNCHANGED <<asked, conf, mishaps, drift>>

\* What the peer of tunnel t has not taken yet.
ToPeer(e, t) == IF tun[e][t].tid = 0 THEN <<>> ELSE box[Peer(e)][tun[e][t].tid]

CloseUnsettledTunnel(e, t) ==
  /\ Unsettled(tun[e][t])
  /\ \A c \in CallsOf(World, e, t) : ~ Unsettled(call[e][c])
  /\ \E n \in 0 .. Len(ToPeer(e, t)) : Become(CloseTunnel(World, e, t, n))
  /\ UNCHANGED <<asked, conf, mishaps, drift>>

\* child_handler, before build_fdset of the same pass.
PppdExits(e, c) ==
  /\ "pppd exits" \in Upsets
  /\ call[e][c].pppd
  /\ call' = [call EXCEPT ![e][c].pppd = FALSE, ![e][c].needclose = TRUE]
  /\ UNCHANGED <<tun, box, asked, used, local, conf, mishaps, drift>>

\* The ZLB that acknowledges the closing message: the wait is over.  Only a ZLB that is
\* addressed to the call counts for a CDN, and it may be lost for good (L2tpControl).  None
\* is in sequence for an end that is one ahead.
Acked(e, t, c) ==
  /\ Settled(e)
  /\ LET x == IF c = 0 THEN tun[e][t] ELSE call[e][c]
         u == tun[e][t]
     IN /\ c # 0 => c \in CallsOf(World, e, t)
        /\ Live(x) /\ x.needclose /\ x.closing
        /\ u.tid # 0 /\ ~ u.stuck /\ ~ ahead[e][t]
        /\ \A i \in DOMAIN ToPeer(e, t) : ToPeer(e, t)[i].from # t
  /\ Become(Ended(World, e, t, c))
  /\ UNCHANGED <<asked, conf, mishaps, drift>>

\* control_xmit gives up and closes the tunnel: a message that cannot be acknowledged, a
\* Hello to a tunnel that is gone, or either by an end that is one ahead, which refuses the
\* peer's ZLBs until the peer sends a message.
GiveUp(e, t) ==
  /\ Settled(e)
  /\ Live(tun[e][t])
  /\ \/ tun[e][t].stuck \/ ahead[e][t]
     \/ tun[e][t].state = "SCCCN" /\ ~ Live(tun[Peer(e)][tun[e][t].tid])
  /\ \E n \in 0 .. Len(ToPeer(e, t)) :
       Become(CloseTunnel(IF tun[e][t].needclose THEN Ended(World, e, t, 0)
                                                ELSE Marked(World, e, t, 0), e, t, n))
  /\ UNCHANGED <<asked, conf, mishaps, drift>>

\* lac_disconnect, or control_xmit when the LNS cannot be reached.
Disconnect(t) ==
  /\ "disconnect" \in Upsets
  /\ Settled("lac")
  /\ Live(tun["lac"][t]) /\ ~ tun["lac"][t].closing
  /\ \E n \in 0 .. Len(ToPeer("lac", t)) : Become(CloseTunnel(Marked(World, "lac", t, 0), "lac", t, n))
  /\ UNCHANGED <<asked, conf, mishaps, drift>>

\* Another implementation of a LAC gives up a call that is not answered yet.
HangUpEarly(c) ==
  /\ "early hangup" \in Upsets
  /\ Settled("lac")
  /\ call["lac"][c].state = "ICRQ" /\ ~ call["lac"][c].closing
  /\ Become(CloseCall(Marked(World, "lac", call["lac"][c].tun, c), "lac", c))
  /\ UNCHANGED <<asked, conf, mishaps, drift>>

Next ==
  \/ \E t \in TunnelIds("lac") : OpenTunnel(t) \/ Disconnect(t)
  \/ \E t \in TunnelIds("lac"), n \in TunnelIds("lns") : TakeRequest(t, n) \/ UnaskedSCCCN(t, n)
  \/ \E t \in TunnelIds("lac"), c \in CallIds("lac") : Calling(t, c)
  \/ \E c \in CallIds("lac") : HangUpEarly(c)
  \/ \E n \in TunnelIds("lns"), c \in CallIds("lns") : AnswerOCRQ(n, c)
  \/ \E e \in End : \/ \E t \in TunnelIds(e) : Receive(e, t) \/ CloseUnsettledTunnel(e, t) \/ GiveUp(e, t)
                    \/ \E t \in TunnelIds(e) : CountIn(e, t) \/ HelloRefused(e, t)
                    \/ \E c \in CallIds(e) : CloseUnsettledCall(e, c) \/ PppdExits(e, c)
                    \/ \E t \in TunnelIds(e), c \in CallIds(e) \cup {0} : Acked(e, t, c)

Spec == Init /\ [][Next]_vars

-----------------------------------------------------------------------------
(* Properties.                                                               *)

\* Types of the tunnels, the calls, the messages and the pool at both ends.
TypeOK ==
  /\ \A e \in End : tun[e] \in [TunnelIds(e) -> Tunnel]
  /\ \A e \in End : call[e] \in [CallIds(e) -> Call]
  /\ \A e \in End : box[e] \in [TunnelIds(e) -> Seq(Message)]
  /\ asked \subseteq TunnelIds("lac")
  /\ used \subseteq Pool \cup LocalPool /\ local \in LocalPool \cup {0}
  /\ conf \in Confs /\ mishaps \in 0 .. MaxMishaps
  /\ \A e \in End : ahead[e] \in [TunnelIds(e) -> BOOLEAN]
  /\ \A e \in End : zlbs[e] \in [TunnelIds(e) -> SUBSET Zlb]

LnsCalls == {c \in CallIds("lns") : Live(call["lns"][c])}

\* The addresses in use are those of the calls of the LNS, each call has its own, and
\* none is left in use when its call is gone, however it ended (get_addr, destroy_call).
AddressesConserved ==
  /\ used \cap Pool = {call["lns"][c].addr : c \in LnsCalls} \ {0}
  /\ \A c, d \in LnsCalls : c # d /\ call["lns"][c].addr # 0 => call["lns"][c].addr # call["lns"][d].addr

\* An end that challenges its peer has a tunnel up only with a peer that has its secret,
\* also when an SCCCN comes unasked, and pppd runs only in a tunnel that is up
\* (handle_challenge, message_type_avp).  The code has two gaps.  An LNS that has no secret
\* for the peer, though xl2tpd.conf.5:204 says "If set to 'yes', use challenge
\* authentication to authenticate peer", leaves its challenge unsent (control.c:502), keeps
\* SCCRP for its state and takes an SCCCN without a response (control.c:647).  And OCCN asks
\* for the state of its call only (avp.c:293), not for a tunnel that is up as OCRP does.
Authentic ==
  /\ \A n \in TunnelIds("lns") :
       tun["lns"][n].state = "SCCCN" /\ conf.lnsChallenges /\ HasSecret("lns") => conf.secrets = "same"
  /\ \A t \in TunnelIds("lac") : tun["lac"][t].state = "SCCCN" /\ conf.lacChallenges => conf.secrets = "same"
  /\ \A e \in End : \A c \in CallIds(e) : call[e][c].pppd =>
       tun[e][call[e][c].tun].state = "SCCCN" \/ (e = "lac" /\ conf.outgoing /\ mishaps # 0)

AnsweredOnce ==
  \A n1, n2 \in TunnelIds("lns") :
    /\ n1 # n2
    /\ tun["lns"][n1].state \in {"SCCRP", "SCCCN"} /\ tun["lns"][n2].state \in {"SCCRP", "SCCCN"}
    => tun["lns"][n1].tid # tun["lns"][n2].tid

\* Both ends of a tunnel have taken what the other one has sent and neither is closing
\* anything.
Quiet(t, n) ==
  /\ Live(tun["lac"][t]) /\ Live(tun["lns"][n])
  /\ tun["lac"][t].tid = n /\ tun["lns"][n].tid = t
  /\ box["lac"][t] = <<>> /\ box["lns"][n] = <<>>
  /\ Settled("lac") /\ Settled("lns")
  /\ ~ tun["lac"][t].closing /\ ~ tun["lns"][n].closing
  /\ ~ tun["lac"][t].stuck /\ ~ tun["lns"][n].stuck

Paired(e, c) ==
  \E d \in CallIds(Peer(e)) : /\ call[e][c].cid = d /\ call[Peer(e)][d].cid = c
                              /\ Live(call[Peer(e)][d])
Open(e, c) == Live(call[e][c]) /\ ~ call[e][c].closing

CallsAgree(t, n) ==
  /\ \A c \in CallsOf(World, "lac", t) : Open("lac", c) => Paired("lac", c)
  /\ \A c \in CallsOf(World, "lns", n) : Open("lns", c) => Paired("lns", c)

\* A tunnel of the LAC has one tunnel of the LNS that answers it, however often its SCCRQ
\* comes.  When the two are quiet, each open call of one end has its call at the other, and
\* they name each other (the assigned ids of ICRQ, ICRP and OCRP), unless a message of
\* another implementation lacked something or a ZLB was counted in (control.c:1750), which
\* costs the peer's next message.
EndsAgree ==
  /\ AnsweredOnce
  /\ mishaps = 0 => \A t \in TunnelIds("lac"), n \in TunnelIds("lns") : Quiet(t, n) => CallsAgree(t, n)

\* Nothing is left to do for either end: no message to take, nothing to close, and no peer
\* that is gone.  Each behaviour gets here, for the ids are bounded.
AtRest ==
  \A e \in End :
    /\ Settled(e)
    /\ \A t \in TunnelIds(e) : Live(tun[e][t]) =>
         /\ box[e][t] = <<>>
         /\ ~ tun[e][t].stuck /\ ~ tun[e][t].closing
         /\ tun[e][t].state = "SCCCN" => Live(tun[Peer(e)][tun[e][t].tid])

\* No call waits for an answer that will not come: a call for which the LAC has
\* sent an ICRQ goes on or ends (message_type_avp, FinishICRQ, call_close, control_xmit),
\* unless a message lacked something (a call whose ICRQ has no id is refused with a CDN
\* that no call answers to) or a ZLB was counted in (control.c:1750), and the LNS or the LAC
\* took the next message for an old one.
NoCallWaits ==
  AtRest /\ mishaps = 0 => \A c \in CallIds("lac") :
                           call["lac"][c].state = "ICRQ" => call["lac"][c].closing
=============================================================================

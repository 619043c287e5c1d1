----------------------------- MODULE L2tpControl -----------------------------
(***************************************************************************)
(* The L2TP control connection of xl2tpd: two daemons that share an        *)
(* established tunnel (and, when WithCall holds, one established call in   *)
(* it) exchange control messages over UDP.  The module models the reliable *)
(* delivery the daemon builds on top of it (control_xmit, check_control,   *)
(* handle_control, handle_special) and the closing handshake of tunnels    *)
(* and calls (call_close, build_fdset).                                    *)
(*                                                                         *)
(* Each daemon is one select() loop, so a handler runs to its end before   *)
(* the next one starts: every action below is one handler.                 *)
(***************************************************************************)
EXTENDS Integers, Sequences, FiniteSets

CONSTANTS
  End,         \* the two daemons
  SeqMod,      \* Ns and Nr are kept modulo SeqMod (65536: _u16)
  HalfSeq,     \* the window of "old" sequence numbers (32768)
  MaxRetries,  \* gconfig.max_retries: transmissions before giving up
  MaxSend,     \* bound: an end sends no Hello once it has sent this many messages,
  MaxQueue,    \*        nor while this many of its messages are unacknowledged
  WithCall,    \* whether a call is up in the tunnel to begin with,
  PppdAt,      \*   and the ends that have a pppd for it: start_pppd may have failed
  Upsets       \* the commands and failures that may happen, of those UpsetKinds names

ASSUME EndAssumption   == IsFiniteSet(End) /\ Cardinality(End) = 2
ASSUME SeqAssumption   == SeqMod \in Nat /\ HalfSeq \in Nat /\ 0 < HalfSeq /\ HalfSeq < SeqMod
ASSUME RetryAssumption == MaxRetries \in Nat \ {0}
ASSUME SendAssumption  == MaxSend \in Nat /\ MaxQueue \in Nat
ASSUME CallAssumption  == WithCall \in BOOLEAN /\ PppdAt \subseteq End

UpsetKinds == {"pppd exits", "pty fails", "disconnect", "SIGTERM", "crash"}
ASSUME UpsetAssumption == Upsets \subseteq UpsetKinds

VARIABLES
  tun,   \* tun[e]: what daemon e keeps of the tunnel (struct tunnel, its self call, its call)
  net    \* every packet ever sent: UDP may lose, duplicate, delay and reorder

vars == <<tun, net>>

Peer(e) == CHOOSE f \in End : f # e

Seqno == 0 .. SeqMod - 1
Kind  == {"Hello", "CDN", "StopCCN", "ZLB"}

\* The header's call id: 0 for the tunnel, the id the receiver gave the call, or
\* (handle_special) an id that is not the receiver's.
CallId == {"tunnel", "call", "foreign"}

\* nth counts the messages of its sender (a ghost: the wire has only Ns); 0 in a ZLB.
Packet == [from : End, nth : Nat, Ns : Seqno, Nr : Seqno, kind : Kind, cid : CallId]

\* A message that control_xmit keeps for retransmission, and buf->retries.
Buffer == [pkt : Packet, retries : 1 .. MaxRetries]

\* needclose, closing: see the table in call.h.  pppd: its pppd is alive.
Call   == [up : BOOLEAN, needclose : BOOLEAN, closing : BOOLEAN, closeSs : Seqno, pppd : BOOLEAN]
NoCall == [up |-> FALSE, needclose |-> FALSE, closing |-> FALSE, closeSs |-> 0, pppd |-> FALSE]

Tunnel ==
  [up : BOOLEAN, seq : Seqno, rec : Seqno, cLr : Seqno, queue : SUBSET Buffer,
   needclose : BOOLEAN, closing : BOOLEAN, closeSs : Seqno, cnu : BOOLEAN,
   call : Call,
   nsent : Nat,          \* ghost: messages sent so far
   taken : Seq(Nat)]     \* ghost: the nth of every message check_control let through

NewTunnel ==
  [up |-> TRUE, seq |-> 0, rec |-> 0, cLr |-> 0, queue |-> {},
   needclose |-> FALSE, closing |-> FALSE, closeSs |-> 0, cnu |-> FALSE,
   call |-> [NoCall EXCEPT !.up = WithCall, !.pppd = WithCall],
   nsent |-> 0, taken |-> <<>>]

Init ==
  /\ tun = [e \in End |-> [NewTunnel EXCEPT !.call.pppd = @ /\ e \in PppdAt]]
  /\ net = {}

-----------------------------------------------------------------------------
(* A handler turns a tunnel record into r.st and sends the packets r.out.   *)
(* An operator X_Fault is X as a slip in the code would have it; the runs do not use it. *)

Quietly(t)     == [st |-> t, out |-> {}]
Then(r, F(_))  == LET s == F(r.st) IN [st |-> s.st, out |-> r.out \cup s.out]

Do(e, r) ==
  /\ tun' = [tun EXCEPT ![e] = r.st]
  /\ net' = net \cup r.out

\* control_zlb: a header alone, which consumes no sequence number.
Zlb(t, e, cid) ==
  [from |-> e, nth |-> 0, Ns |-> t.seq, Nr |-> t.rec, kind |-> "ZLB", cid |-> cid]

\* control_xmit's test that the peer has a message: its header against t->cLr, as
\* plain integers.
HasReceived_OneTooMany(cLr, pkt) == pkt.Ns <= cLr
HasReceived(cLr, pkt) == pkt.Ns < cLr

\* add_control_hdr, then the first control_xmit of the buffer.
Send(t, e, kind, cid) ==
  LET pkt == [from |-> e, nth |-> t.nsent + 1, Ns |-> t.seq, Nr |-> t.rec,
              kind |-> kind, cid |-> cid]
      sent == [t EXCEPT !.seq = (@ + 1) % SeqMod, !.nsent = @ + 1]
  IN IF HasReceived(t.cLr, pkt)
     THEN Quietly(sent)
     ELSE [st  |-> [sent EXCEPT !.queue = @ \cup {[pkt |-> pkt, retries |-> 1]}],
           out |-> {pkt}]

\* destroy_tunnel: the record goes away with its calls; only the ghosts stay.
Destroyed(t) ==
  [NewTunnel EXCEPT !.up = FALSE, !.call = NoCall, !.nsent = t.nsent, !.taken = t.taken]

\* call_close on a call: destroy it when closing is set, else send the CDN.
CloseCall(t, e) ==
  IF t.call.closing
  THEN Quietly([t EXCEPT !.call = NoCall])
  ELSE LET r == Send([t EXCEPT !.call.closeSs = t.seq], e, "CDN", "call")
       IN [r EXCEPT !.st.call.closing = TRUE]

\* call_close on the tunnel's self call: every scheduled retransmission is tossed,
\* then the tunnel is destroyed when closing is set, else StopCCN is sent and the
\* calls are destroyed.
CloseTunnel(t, e) ==
  IF t.closing
  THEN Quietly(Destroyed(t))
  ELSE LET r == Send([t EXCEPT !.queue = {}, !.closeSs = t.seq], e, "StopCCN", "tunnel")
       IN [r EXCEPT !.st.closing = TRUE, !.st.call = NoCall]

-----------------------------------------------------------------------------
(* build_fdset, which every pass of network_thread runs after              *)
(* process_signal and before process_schedule.                             *)

\* needclose ^ closing
Unsettled(c) == c.needclose # c.closing
Settled(t)   == ~ Unsettled(t) /\ ~ Unsettled(t.call)

BuildFdset(t, e) ==
  Then(IF t.call.up /\ Unsettled(t.call) THEN CloseCall(t, e) ELSE Quietly(t),
       LAMBDA u : IF Unsettled(u) THEN CloseTunnel(u, e) ELSE Quietly(u))

CloseUnsettled(e) ==
  /\ tun[e].up
  /\ ~ Settled(tun[e])
  /\ Do(e, BuildFdset(tun[e], e))

\* child_handler: the call's pppd has died.  process_signal runs it just before
\* build_fdset.
PppdExit(e) ==
  /\ "pppd exits" \in Upsets
  /\ tun[e].up
  /\ tun[e].call.pppd
  /\ Do(e, BuildFdset([tun[e] EXCEPT !.call.needclose = TRUE, !.call.pppd = FALSE], e))

-----------------------------------------------------------------------------
(* process_schedule: it follows build_fdset, which has settled every call.  *)

\* hello.  call_close deschedules it.
HelloTimer(e) ==
  /\ tun[e].up
  /\ Settled(tun[e])
  /\ ~ tun[e].closing
  /\ tun[e].nsent < MaxSend
  /\ Cardinality(tun[e].queue) < MaxQueue
  /\ Do(e, Send(tun[e], e, "Hello", "tunnel"))

\* buf->retries <= gconfig.max_retries after the increment.
MayRetry(buf) == buf.retries < MaxRetries

\* Too many retries: destroy a tunnel that was being closed, close another one.
GiveUp_TossOnly(t, e) == Quietly(t)
GiveUp(t, e) ==
  IF t.needclose
  THEN CloseTunnel([t EXCEPT !.needclose = FALSE, !.closing = TRUE], e)
  ELSE CloseTunnel([t EXCEPT !.needclose = TRUE], e)

\* control_xmit of a queued buffer whose delay has passed.
ControlXmit(t, e, buf) ==
  LET rest == [t EXCEPT !.queue = @ \ {buf}]
  IN CASE HasReceived(t.cLr, buf.pkt) -> Quietly(rest)
       [] ~ HasReceived(t.cLr, buf.pkt) /\ MayRetry(buf) ->
            [st  |-> [rest EXCEPT !.queue = @ \cup {[buf EXCEPT !.retries = @ + 1]}],
             out |-> {buf.pkt}]
       [] ~ HasReceived(t.cLr, buf.pkt) /\ ~ MayRetry(buf) -> GiveUp(rest, e)

RetransmitTimer(e) ==
  /\ tun[e].up
  /\ Settled(tun[e])
  /\ \E buf \in tun[e].queue : Do(e, ControlXmit(tun[e], e, buf))

-----------------------------------------------------------------------------
(* Packets.                                                                 *)

\* check_control's test that the peer sent "a message we should have already
\* received", in the int arithmetic the C promotes the two _u16 to.
IsOld_Inverted(Ns, rec) == Ns > rec /\ Ns - rec < HalfSeq
IsOld(Ns, rec) ==
  \/ Ns < rec /\ rec - Ns < HalfSeq
  \/ Ns > rec /\ rec - Ns > HalfSeq

InSequence_OrAhead(t, pkt) == pkt.Ns >= t.rec
InSequence_OrLast(t, pkt) == t.rec \in {pkt.Ns, pkt.Ns + 1}
InSequence(t, pkt) == pkt.Ns = t.rec

\* check_control of a packet that is in sequence.
Take(t, pkt) ==
  [t EXCEPT !.rec = (@ + 1) % SeqMod, !.cLr = pkt.Nr,
            !.taken = IF pkt.kind = "ZLB" THEN @ ELSE Append(@, pkt.nth)]

\* handle_control's t->control_rec_seq_num-- for a ZLB, which has no number of its own.
GiveBack_Forgotten(t) == t
GiveBack(t) == [t EXCEPT !.rec = (@ - 1) % SeqMod]

\* check_control of one that is not; a ZLB is never answered.
Refuse(t, e, pkt, cid) ==
  [st  |-> t,
   out |-> IF IsOld(pkt.Ns, t.rec) /\ pkt.kind # "ZLB" THEN {Zlb(t, e, cid)} ELSE {}]

\* What handle_control does to the call (or self call) c of a ZLB: t.cLr is Nr.
ZlbClears(c, cLr) == c.needclose /\ c.closing /\ cLr >= c.closeSs

\* network_thread's last step: if (c->cnu) control_zlb (...); c->cnu = 0.
Acknowledge(t, e, cid) == [st |-> [t EXCEPT !.cnu = FALSE], out |-> {Zlb(t, e, cid)}]

\* handle_control for the tunnel's self call.
HandleOnTunnel(t, e, pkt) ==
  LET u == Take(t, pkt)
  IN CASE ~ InSequence(t, pkt) ->
            Then(Refuse(t, e, pkt, "tunnel"),
                 LAMBDA v : IF v.cnu THEN Acknowledge(v, e, "tunnel") ELSE Quietly(v))
       [] InSequence(t, pkt) /\ pkt.kind = "ZLB" ->
            Quietly([GiveBack(u) EXCEPT !.cnu = FALSE,
                                        !.needclose = @ /\ ~ ZlbClears(u, u.cLr)])
       [] InSequence(t, pkt) /\ pkt.kind = "Hello" ->
            Acknowledge(u, e, "tunnel")
       [] InSequence(t, pkt) /\ pkt.kind = "StopCCN" ->
            Acknowledge([u EXCEPT !.needclose = FALSE, !.closing = TRUE], e, "tunnel")

\* handle_control for the call.
HandleOnCall(t, e, pkt) ==
  LET u == Take(t, pkt)
  IN CASE ~ InSequence(t, pkt) -> Refuse(t, e, pkt, "call")
       [] InSequence(t, pkt) /\ pkt.kind = "ZLB" ->
            Quietly([GiveBack(u) EXCEPT !.call.needclose = @ /\ ~ ZlbClears(u.call, u.cLr)])
       [] InSequence(t, pkt) /\ pkt.kind = "CDN" ->
            [st  |-> [u EXCEPT !.call.needclose = FALSE, !.call.closing = TRUE],
             out |-> {Zlb(u, e, "call")}]

\* handle_special: the tunnel has no such call.  The self call takes the packet's
\* call id for the time of the answer, which is an id of ours and not of the peer's.
\* check_control sets cnu and nothing clears it before the next tunnel packet.
HandleSpecial(t, e, pkt) ==
  LET u == [Take(t, pkt) EXCEPT !.cnu = TRUE]
  IN CASE ~ InSequence(t, pkt)                   -> Refuse(t, e, pkt, "foreign")
       [] InSequence(t, pkt) /\ pkt.kind = "ZLB" -> Quietly(u)
       [] InSequence(t, pkt) /\ pkt.kind # "ZLB" -> [st |-> u, out |-> {Zlb(u, e, "foreign")}]

\* get_call, get_tunnel: a packet for a tunnel that is gone is dropped.
Receive(e) ==
  /\ tun[e].up
  /\ \E pkt \in net :
       /\ pkt.from = Peer(e)
       /\ \/ pkt.cid = "tunnel" /\ Do(e, HandleOnTunnel(tun[e], e, pkt))
          \/ pkt.cid = "call" /\ tun[e].call.up /\ Do(e, HandleOnCall(tun[e], e, pkt))
          \/ pkt.cid = "call" /\ ~ tun[e].call.up /\ Do(e, HandleSpecial(tun[e], e, pkt))
          \/ pkt.cid = "foreign" /\ Do(e, HandleSpecial(tun[e], e, pkt))

-----------------------------------------------------------------------------
(* Commands and failures.                                                   *)

\* lac_disconnect, from the control pipe.
Disconnect(e) ==
  /\ "disconnect" \in Upsets
  /\ tun[e].up
  /\ Do(e, CloseTunnel([tun[e] EXCEPT !.needclose = TRUE], e))

\* read_packet failed on the call's pty, in a pass whose build_fdset found the call
\* neither closing nor to be closed.
ReadError(e) ==
  /\ "pty fails" \in Upsets
  /\ tun[e].up
  /\ tun[e].call.pppd
  /\ ~ tun[e].call.needclose
  /\ Do(e, Quietly([tun[e] EXCEPT !.call.needclose = TRUE]))

\* death_handler: call_close twice, without waiting for the answer.  (Without kernel
\* support a SIGTERM closes nothing before the daemon exits: that is Crash.)
Terminate(e) ==
  /\ "SIGTERM" \in Upsets
  /\ tun[e].up
  /\ Do(e, Then(CloseTunnel(tun[e], e),
                LAMBDA t : IF t.up THEN CloseTunnel(t, e) ELSE Quietly(t)))

\* The daemon is killed, or its host is lost.
Crash(e) ==
  /\ "crash" \in Upsets
  /\ tun[e].up
  /\ Do(e, Quietly(Destroyed(tun[e])))

Next ==
  \E e \in End :
    \/ CloseUnsettled(e) \/ PppdExit(e)
    \/ HelloTimer(e) \/ RetransmitTimer(e)
    \/ Receive(e)
    \/ Disconnect(e) \/ ReadError(e) \/ Terminate(e) \/ Crash(e)

Spec == Init /\ [][Next]_vars

\* The select() loop keeps turning, so what build_fdset owes is done and a timer that
\* is due fires.  Nothing is assumed of the network.
Fairness == \A e \in End : WF_vars(CloseUnsettled(e)) /\ WF_vars(RetransmitTimer(e))

FairSpec == Spec /\ Fairness

-----------------------------------------------------------------------------
(* Properties.                                                              *)

\* Every variable, and every record in flight or queued, has its type.
TypeOK ==
  /\ tun \in [End -> Tunnel]
  /\ net \subseteq Packet

Nths(t) == {t.taken[i] : i \in DOMAIN t.taken}

\* Messages reach the handlers of the other end in the order they were sent, none of
\* them twice (check_control's Ns test), whatever the network duplicates or reorders.
TakenInOrder ==
  \A e \in End :
    /\ \A i, j \in DOMAIN tun[e].taken : i < j => tun[e].taken[i] < tun[e].taken[j]
    /\ \A n \in Nths(tun[e]) : n <= tun[Peer(e)].nsent

\* The tunnel implements the channel the code above it relies on: in a tunnel without
\* calls every message taken is the next one the peer sent.
Channel == INSTANCE ReliableChannel
             WITH sent  <- [e \in End |-> tun[e].nsent],
                  taken <- [e \in End |-> tun[e].taken]

ImplementsChannel == Channel!Spec

\* What an end tosses as received (Ns < t->cLr in control_xmit) was taken by the peer.
AckedWasTaken ==
  \A e \in End : tun[e].up => 1 .. tun[e].cLr \subseteq Nths(tun[Peer(e)])

\* Until the tunnel is closing, a message the peer has not taken stays queued for
\* retransmission: control_xmit tosses a buffer only when "it's been received"
\* (network.c:230).
KeptUntilTaken ==
  \A e \in End : tun[e].up /\ ~ tun[e].closing =>
    \A n \in 1 .. tun[e].nsent :
      n \in Nths(tun[Peer(e)]) \/ \E b \in tun[e].queue : b.pkt.nth = n

\* "a message we should have already received" (control.c:1217) is recognised as such when
\* it comes again, so that check_control answers it with the ZLB its sender waits for.
OldIsRecognised ==
  \A e \in End : tun[e].up =>
    \A pkt \in net :
      (/\ pkt.from = Peer(e) /\ pkt.nth \in Nths(tun[e])
       /\ Len(tun[e].taken) - (pkt.nth - 1) < HalfSeq)
        => IsOld(pkt.Ns, tun[e].rec)

\* With calls the receive counter may run ahead of what the peer sent, by one at most.
DriftAtMostOne ==
  \A e \in End : tun[e].up => tun[e].rec <= tun[Peer(e)].nsent + 1

\* Only handle_special counts in a ZLB, for a call that is gone (control.c:1750 against
\* control.c:1793): as long as the calls of both ends are there, every ZLB of theirs and of
\* the tunnel is counted out again, in whatever order the packets come.
CountedOutWhileCallsLive ==
  \A e \in End : (tun[e].call.up /\ tun[Peer(e)].call.up) => tun[e].rec = Len(tun[e].taken)

\* handle_special has let a packet through: it alone leaves cnu set.
TookSpecial(e) == tun[e].cnu

\* A tunnel that is closing is destroyed in the end, whatever the network loses: the
\* retransmissions of StopCCN are acknowledged or run out (network.c:235).  Only with
\* packets for a call that is gone this is not so: one whose Nr covers the StopCCN, because
\* its sender took it or because a ZLB was counted in (control.c:1750), has it tossed as
\* received (network.c:225), handle_special ends no wait (control.c:1795), and nothing is
\* left to retransmit.
ClosingEnds ==
  []~ (\E e \in End : TookSpecial(e)) =>
    \A e \in End : (tun[e].up /\ tun[e].closing) ~> ~ tun[e].up
=============================================================================

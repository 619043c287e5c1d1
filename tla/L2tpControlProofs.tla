-------------------------- MODULE L2tpControlProofs --------------------------
(***************************************************************************)
(* The L2TP control connection, for any number of messages and retries,    *)
(* whatever the network does.  With a call in the tunnel or without one,   *)
(* messages are taken in the order they were sent, none of them twice, and *)
(* the receive counter runs ahead of them by one at most, as long as the   *)
(* sequence numbers do not wrap (Few).  Without a call the tunnel keeps    *)
(* all the promises of ReliableChannel; with one it does not, for          *)
(* handle_special counts in the ZLB of a call that is gone.                *)
(***************************************************************************)
EXTENDS L2tpControl, FiniteSetTheorems, SequenceTheorems, TLAPS

\* Nothing wraps below the modulus.
LEMMA ModSmall ==
  ASSUME NEW n \in Nat, NEW m \in Nat, n < m
  PROVE  n % m = n
OBVIOUS

\* There are two ends.
LEMMA PeerIsOther ==
  ASSUME NEW e \in End
  PROVE  /\ Peer(e) \in End /\ Peer(e) # e
         /\ \A f \in End : f # e => f = Peer(e)
         /\ Peer(Peer(e)) = e
<1>1. IsFiniteSet(End \ {e}) /\ Cardinality(End \ {e}) = 1
  BY EndAssumption, FS_RemoveElement
<1>2. PICK x : End \ {e} = {x}
  BY <1>1, FS_Singleton
<1>3. End = {e, x} /\ x # e
  BY <1>2
<1>4. Peer(e) = x
  BY <1>3 DEF Peer
<1>5. Peer(x) = e
  BY <1>3 DEF Peer
<1> QED
  BY <1>3, <1>4, <1>5

\* The record of a call that is not there.
LEMMA NoCallFields ==
  /\ NoCall.up = FALSE /\ NoCall.needclose = FALSE /\ NoCall.closing = FALSE
  /\ NoCall.pppd = FALSE /\ NoCall \in Call
BY SeqAssumption DEF NoCall, Call, Seqno

\* new_tunnel makes a tunnel record.
LEMMA NewTunnelIsOne ==
  /\ NewTunnel \in Tunnel
  /\ NewTunnel.up = TRUE /\ NewTunnel.seq = 0 /\ NewTunnel.rec = 0 /\ NewTunnel.cLr = 0
  /\ NewTunnel.queue = {} /\ NewTunnel.nsent = 0 /\ NewTunnel.taken = <<>>
  /\ NewTunnel.closing = FALSE
  /\ NewTunnel.call = [NoCall EXCEPT !.up = WithCall, !.pppd = WithCall]
<1> DEFINE c == [NoCall EXCEPT !.up = WithCall, !.pppd = WithCall]
<1>1. c \in Call
  BY NoCallFields, CallAssumption DEF Call
<1>2. 0 \in Seqno
  BY SeqAssumption DEF Seqno
<1>3. <<>> \in Seq(Nat)
  OBVIOUS
<1> HIDE DEF c
<1>4. NewTunnel = [up |-> TRUE, seq |-> 0, rec |-> 0, cLr |-> 0, queue |-> {},
   needclose |-> FALSE, closing |-> FALSE, closeSs |-> 0, cnu |-> FALSE,
   call |-> c, nsent |-> 0, taken |-> <<>>]
  BY DEF NewTunnel, c
<1> DEFINE s == <<>>
<1>5. s \in Seq(Nat)
  BY <1>3
<1>6. NewTunnel = [up |-> TRUE, seq |-> 0, rec |-> 0, cLr |-> 0, queue |-> {},
   needclose |-> FALSE, closing |-> FALSE, closeSs |-> 0, cnu |-> FALSE,
   call |-> c, nsent |-> 0, taken |-> s]
  BY <1>4
<1> HIDE DEF s
<1>7. NewTunnel \in Tunnel
  BY <1>1, <1>2, <1>5, <1>6 DEF Tunnel
<1> QED
  BY <1>7, <1>6 DEF s, c

\* Both ends begin alike, but for the pppd of the call.
LEMMA StartOfEnd ==
  ASSUME Init, NEW e \in End
  PROVE  /\ tun[e] \in Tunnel
         /\ tun[e].up = TRUE /\ tun[e].seq = 0 /\ tun[e].rec = 0 /\ tun[e].cLr = 0
         /\ tun[e].queue = {} /\ tun[e].nsent = 0 /\ tun[e].taken = <<>>
         /\ tun[e].closing = FALSE
         /\ ~ WithCall => tun[e].call = NoCall
<1> DEFINE n == NewTunnel
           c == NewTunnel.call
           b == (c.pppd /\ e \in PppdAt)
<1>1. /\ n \in Tunnel /\ n.up = TRUE /\ n.seq = 0 /\ n.rec = 0 /\ n.cLr = 0
      /\ n.queue = {} /\ n.nsent = 0 /\ n.taken = <<>> /\ n.closing = FALSE
  BY NewTunnelIsOne
<1>2. n.call = c /\ c \in Call /\ b \in BOOLEAN
  BY <1>1 DEF Tunnel
<1>3. tun[e] = [n EXCEPT !.call = [c EXCEPT !.pppd = b]]
  BY <1>2 DEF Init
<1>4. ~ WithCall => [c EXCEPT !.pppd = b] = NoCall
  <2> SUFFICES ASSUME ~ WithCall PROVE [c EXCEPT !.pppd = b] = NoCall
    OBVIOUS
  <2>1. c = [NoCall EXCEPT !.up = WithCall, !.pppd = WithCall] /\ WithCall = FALSE
    BY NewTunnelIsOne, CallAssumption
  <2>2. c.pppd = FALSE /\ b = FALSE /\ c.up = FALSE
    BY <2>1, NoCallFields DEF Call
  <2> DEFINE d == NoCall
  <2>3. d \in Call /\ d.up = FALSE /\ d.pppd = FALSE
    BY NoCallFields
  <2>4. [[d EXCEPT !.up = FALSE, !.pppd = FALSE] EXCEPT !.pppd = FALSE] = d
    <3> HIDE DEF d
    <3> QED
      BY <2>3 DEF Call
  <2> QED
    BY <2>1, <2>2, <2>4
<1> HIDE DEF n, c, b
<1>5. [c EXCEPT !.pppd = b] \in Call
  BY <1>2 DEF Call
<1> QED
  BY <1>1, <1>3, <1>4, <1>5 DEF Tunnel

\* destroy_tunnel leaves a record with the ghosts alone.
LEMMA DestroyedIsOne ==
  ASSUME NEW t \in Tunnel
  PROVE  LET u == Destroyed(t) IN
     u \in Tunnel /\ u.up = FALSE /\ u.queue = {} /\ u.call = NoCall
        /\ u.nsent = t.nsent /\ u.taken = t.taken
<1> DEFINE n == NewTunnel k == t.nsent q == t.taken c == NoCall
<1>1. n \in Tunnel /\ k \in Nat /\ q \in Seq(Nat) /\ c \in Call /\ n.queue = {}
  BY NewTunnelIsOne, NoCallFields DEF Tunnel
<1>2. Destroyed(t) = [n EXCEPT !.up = FALSE, !.call = c, !.nsent = k, !.taken = q]
  BY DEF Destroyed
<1> HIDE DEF n, k, q, c
<1>3. [n EXCEPT !.up = FALSE, !.call = c, !.nsent = k, !.taken = q] \in Tunnel
  BY <1>1 DEF Tunnel
<1>4. LET u == [n EXCEPT !.up = FALSE, !.call = c, !.nsent = k, !.taken = q] IN
     u.up = FALSE /\ u.queue = {} /\ u.call = c /\ u.nsent = k /\ u.taken = q
  BY <1>1 DEF Tunnel
<1> QED
  BY <1>2, <1>3, <1>4 DEF k, q, c

-----------------------------------------------------------------------------
(* With a call.                                                             *)

\* What goes to the tunnel, to its call, and to no call of the receiver (handle_special).
Addressed(kind, cid) ==
  /\ cid = "tunnel"  => kind # "CDN"
  /\ cid = "call"    => kind \in {"CDN", "ZLB"}
  /\ cid = "foreign" => kind = "ZLB"

From(pkt, e)  == pkt \in Packet /\ pkt.from = e /\ Addressed(pkt.kind, pkt.cid)
Formed(t, e)  == t \in Tunnel /\ \A b \in t.queue : From(b.pkt, e) /\ b.pkt.kind # "ZLB"

\* No packet was ever sent for handle_special alone, and the end counts what it took.
NoForeign == \A pkt \in net : pkt.cid # "foreign"
Level(t)  == t.rec = Len(t.taken)

\* Its closing messages may still come: one StopCCN, one CDN.
StaysOpen(t) == t.up /\ ~ t.closing
CallOpen(t)  == t.call.up /\ ~ t.call.closing
Spent(t) == (IF StaysOpen(t) THEN 0 ELSE 1) + (IF CallOpen(t) THEN 0 ELSE 1)

\* A packet of an end that has sent n messages.
Numbered(pkt, n) ==
  pkt.Ns <= n /\ (pkt.kind # "ZLB" => pkt.nth = pkt.Ns + 1 /\ pkt.nth <= n)

\* The numbers of an end whose peer has sent N messages.  With a call the receive counter is
\* not the number of the messages taken, but what was taken is below it.
Numbers(t, N) ==
  /\ t.nsent <= MaxSend + Spent(t)
  /\ t.up => t.seq = t.nsent /\ t.rec <= N + 1
  /\ \A b \in t.queue : Numbered(b.pkt, t.nsent)
  /\ \A i \in 1 .. Len(t.taken) : t.taken[i] <= N /\ (t.up => t.taken[i] <= t.rec)
  /\ \A i, j \in 1 .. Len(t.taken) : i < j => t.taken[i] < t.taken[j]

\* No number wraps: besides MaxSend messages an end sends a CDN and a StopCCN, and the other
\* end may count one too many.
Few == MaxSend + 3 < SeqMod

\* As long as the call is there, the counter stays level, and nothing goes to handle_special.
Calmly(t, r) ==
  r.st.call.up => (Level(t) => Level(r.st)) /\ \A pkt \in r.out : pkt.cid # "foreign"

\* A handler's result r is a step of e, whose peer has sent N messages, from the record t.
Moves(t, r, e, N) ==
  /\ Formed(r.st, e) /\ \A pkt \in r.out : From(pkt, e)
  /\ r.st.call.up => t.call.up
  /\ Few /\ Numbers(t, N) => /\ Numbers(r.st, N) /\ t.nsent <= r.st.nsent
                             /\ \A pkt \in r.out : Numbered(pkt, r.st.nsent)
                             /\ NoForeign => Calmly(t, r)

\* From t to u nothing is sent or taken, and nothing new can be.
Quietens(t, u) ==
  /\ u \in Tunnel
  /\ u.up => t.up /\ u.seq = t.seq /\ u.rec = t.rec
  /\ u.nsent = t.nsent /\ u.taken = t.taken
  /\ \A b \in u.queue : \E d \in t.queue : b.pkt = d.pkt
  /\ StaysOpen(u) => StaysOpen(t)
  /\ CallOpen(u) => CallOpen(t)
  /\ u.call.up => t.call.up /\ u.rec = t.rec

\* Numbers stay as they are.
LEMMA QuietensNumbers ==
  ASSUME NEW e \in End, NEW N \in Nat, NEW t, Formed(t, e), NEW u, Quietens(t, u)
  PROVE  Formed(u, e) /\ (Numbers(t, N) => Numbers(u, N))
<1>1. Formed(u, e)
  BY DEF Formed, Quietens
<1>2. ASSUME Numbers(t, N) PROVE Numbers(u, N)
  <2>1. Spent(t) \in Nat /\ Spent(u) \in Nat /\ Spent(t) <= Spent(u) /\ t.nsent \in Nat
    BY DEF Spent, Quietens, Formed, Tunnel
  <2>2. u.nsent <= MaxSend + Spent(u)
    BY <1>2, <2>1, SendAssumption DEF Numbers, Quietens
  <2> QED
    BY <1>2, <2>2 DEF Numbers, Quietens
<1> QED
  BY <1>1, <1>2

\* A handler that sends nothing.
LEMMA QuietlyMoves ==
  ASSUME NEW e \in End, NEW N \in Nat, NEW t, Formed(t, e), NEW u, Quietens(t, u),
         NEW r, r = Quietly(u)
  PROVE  Moves(t, r, e, N)
<1>1. r.st = u /\ r.out = {}
  BY DEF Quietly
<1>2. t.nsent <= u.nsent
  BY DEF Quietens, Formed, Tunnel
<1> QED
  BY <1>1, <1>2, QuietensNumbers DEF Moves, Calmly, Level, Quietens

\* Handlers one after the other.
LEMMA MovesOn ==
  ASSUME NEW e \in End, NEW N \in Nat, NEW t, Formed(t, e),
         NEW q, Moves(t, q, e, N), NEW r, Moves(q.st, r, e, N),
         NEW s, s.st = r.st, s.out = q.out \cup r.out
  PROVE  Moves(t, s, e, N)
<1>1. Formed(s.st, e) /\ \A pkt \in s.out : From(pkt, e)
  BY DEF Moves
<1>2. ASSUME Few, Numbers(t, N)
      PROVE  /\ Numbers(s.st, N) /\ t.nsent <= s.st.nsent
             /\ \A pkt \in s.out : Numbered(pkt, s.st.nsent)
             /\ NoForeign => Calmly(t, s)
  <2>1. /\ Numbers(q.st, N) /\ t.nsent <= q.st.nsent /\ \A pkt \in q.out : Numbered(pkt, q.st.nsent)
        /\ Numbers(r.st, N) /\ q.st.nsent <= r.st.nsent /\ \A pkt \in r.out : Numbered(pkt, r.st.nsent)
    BY <1>2 DEF Moves
  <2>2. t.nsent \in Nat /\ q.st.nsent \in Nat /\ r.st.nsent \in Nat
    BY DEF Moves, Formed, Tunnel
  <2>3. \A pkt \in q.out : pkt.Ns \in Nat /\ pkt.nth \in Nat
    BY SeqAssumption DEF Moves, From, Packet, Seqno
  <2>4. \A pkt \in q.out : Numbered(pkt, r.st.nsent)
    BY <2>1, <2>2, <2>3 DEF Numbered
  <2>5. NoForeign => Calmly(t, s)
    BY <1>2, <2>1 DEF Moves, Calmly
  <2> QED
    BY <2>1, <2>2, <2>4, <2>5
<1>3. s.st.call.up => t.call.up
  BY DEF Moves
<1> QED
  BY <1>1, <1>2, <1>3 DEF Moves

\* A handler that sends and takes nothing before another one.
LEMMA MovesFromQuiet ==
  ASSUME NEW e \in End, NEW N \in Nat, NEW t, Formed(t, e), NEW u, Quietens(t, u),
         NEW r, Moves(u, r, e, N)
  PROVE  Moves(t, r, e, N)
<1> DEFINE q == [st |-> u, out |-> {}]
<1>1. Moves(t, q, e, N)
  BY QuietlyMoves DEF Quietly
<1>2. q.st = u /\ r.out = q.out \cup r.out
  OBVIOUS
<1> HIDE DEF q
<1> QED
  BY <1>1, <1>2, MovesOn

\* The result s of sending one message from the record t.
Sent(t, s, e, N) ==
  /\ Formed(s.st, e) /\ \A pkt \in s.out : From(pkt, e) /\ pkt.kind # "ZLB"
  /\ s.st.up = t.up /\ s.st.rec = t.rec /\ s.st.closing = t.closing /\ s.st.call = t.call
  /\ s.st.needclose = t.needclose
  /\ s.st.taken = t.taken /\ s.st.nsent = t.nsent + 1
  /\ Few /\ Numbers(t, N) =>
       /\ s.st.seq = s.st.nsent
       /\ \A b \in s.st.queue : Numbered(b.pkt, s.st.nsent)
       /\ \A pkt \in s.out : Numbered(pkt, s.st.nsent)

\* add_control_hdr with the first control_xmit: the message takes the next number.
LEMMA SendIsNumbered ==
  ASSUME NEW e \in End, NEW N \in Nat, NEW t, Formed(t, e), t.up,
         NEW kind \in Kind \ {"ZLB"}, NEW cid \in CallId,
         Addressed(kind, cid),
         NEW s, s = Send(t, e, kind, cid)
  PROVE  Sent(t, s, e, N)
<1> DEFINE pkt == [from |-> e, nth |-> t.nsent + 1, Ns |-> t.seq, Nr |-> t.rec,
                   kind |-> kind, cid |-> cid]
           buf == [pkt |-> pkt, retries |-> 1]
           n == (t.seq + 1) % SeqMod
           m == t.nsent + 1
           quiet == HasReceived(t.cLr, pkt)
           q == IF quiet THEN t.queue ELSE t.queue \cup {buf}
           u == [t EXCEPT !.seq = n, !.nsent = m, !.queue = q]
<1>1. /\ t \in Tunnel /\ t.seq \in Seqno /\ t.rec \in Seqno /\ t.nsent \in Nat
      /\ t.queue \subseteq Buffer /\ t.seq \in Nat
  BY SeqAssumption DEF Formed, Tunnel, Seqno
<1>2. n \in Seqno /\ m \in Nat
  BY <1>1, SeqAssumption DEF Seqno
<1>3. pkt \in Packet /\ From(pkt, e)
  BY <1>1, <1>2 DEF Packet, From, Addressed
<1>4. buf \in Buffer /\ buf.pkt = pkt
  BY <1>3, RetryAssumption DEF Buffer
<1>5. q \in SUBSET Buffer /\ \A b \in q : b \in t.queue \/ b.pkt = pkt
  BY <1>1, <1>4
<1>6. s.st = u /\ s.out \subseteq {pkt}
  <2> DEFINE sent == [t EXCEPT !.seq = n, !.nsent = m]
  <2>1. s = IF quiet THEN [st |-> sent, out |-> {}]
            ELSE [st |-> [sent EXCEPT !.queue = @ \cup {buf}], out |-> {pkt}]
    <3>1. sent = [t EXCEPT !.seq = (@ + 1) % SeqMod, !.nsent = @ + 1]
      BY <1>1 DEF Tunnel
    <3> HIDE DEF sent
    <3> QED
      BY <3>1, Zenon DEF Send, Quietly
  <2>2. sent.queue = t.queue
    BY <1>1 DEF Tunnel
  <2>3. sent = [sent EXCEPT !.queue = t.queue]
    BY <1>1 DEF Tunnel
  <2> HIDE DEF quiet, buf, pkt, n, m
  <2>4. [sent EXCEPT !.queue = @ \cup {buf}] = [sent EXCEPT !.queue = t.queue \cup {buf}]
    BY <2>2
  <2>5. CASE quiet
    <3>1. s.st = sent /\ s.out = {} /\ u = [sent EXCEPT !.queue = t.queue]
      BY <1>1, <2>1, <2>5 DEF Tunnel
    <3> QED
      BY <2>3, <3>1
  <2>6. CASE ~ quiet
    <3>1. s.st = [sent EXCEPT !.queue = t.queue \cup {buf}] /\ s.out = {pkt}
      BY <2>1, <2>4, <2>6
    <3>2. u = [sent EXCEPT !.queue = t.queue \cup {buf}]
      BY <1>1, <2>6 DEF Tunnel
    <3> QED
      BY <3>1, <3>2
  <2> QED
    BY <2>5, <2>6
<1>7. pkt.Ns = t.seq /\ pkt.nth = m /\ pkt.kind # "ZLB"
  OBVIOUS
<1> HIDE DEF n, m, q, buf, pkt, quiet
<1>8. /\ u \in Tunnel /\ u.up = t.up /\ u.rec = t.rec /\ u.closing = t.closing /\ u.call = t.call
      /\ u.needclose = t.needclose
      /\ u.taken = t.taken /\ u.nsent = m /\ u.seq = n /\ u.queue = q
  BY <1>1, <1>2, <1>5 DEF Tunnel
<1> HIDE DEF u
<1>9. Formed(u, e)
  BY <1>3, <1>5, <1>7, <1>8 DEF Formed
<1>10. ASSUME Few, Numbers(t, N)
       PROVE  n = m /\ Numbered(pkt, m) /\ \A b \in t.queue : Numbered(b.pkt, m)
  <2>1. t.seq = t.nsent /\ t.nsent <= MaxSend + 2
    BY <1>1, <1>10, SendAssumption DEF Numbers, Spent
  <2>2. m < SeqMod
    BY <1>1, <2>1, <1>10, SendAssumption, SeqAssumption DEF Few, m
  <2>3. n = m
    BY <1>1, <1>2, <2>1, <2>2, ModSmall, SeqAssumption DEF n, m
  <2>4. Numbered(pkt, m)
    BY <1>1, <1>7, <2>1 DEF Numbered, m
  <2>5. ASSUME NEW b \in t.queue PROVE Numbered(b.pkt, m)
    <3>1. b.pkt.Ns \in Nat /\ b.pkt.nth \in Nat /\ Numbered(b.pkt, t.nsent)
      BY <1>1, <1>10, SeqAssumption DEF Numbers, Buffer, Packet, Seqno
    <3> QED
      BY <1>1, <3>1 DEF Numbered, m
  <2> QED
    BY <2>3, <2>4, <2>5
<1> QED
  BY <1>3, <1>5, <1>6, <1>7, <1>8, <1>9, <1>10 DEF m, Sent

\* The sender's record u after the message leaves room for the messages that may still come.
LEMMA SendMoves ==
  ASSUME NEW e \in End, NEW N \in Nat, NEW t, Formed(t, e), t.up,
         NEW kind \in Kind \ {"ZLB"}, NEW cid \in CallId,
         Addressed(kind, cid),
         NEW s, s = Send(t, e, kind, cid),
         NEW u \in Tunnel, u.up = s.st.up, u.seq = s.st.seq, u.rec = s.st.rec,
         u.nsent = s.st.nsent, u.taken = s.st.taken, u.queue = s.st.queue,
         u.call.up => s.st.call.up,
         \/ t.nsent < MaxSend
         \/ Spent(t) + 1 <= Spent(u),
         NEW r, r.st = u, r.out = s.out
  PROVE  Moves(t, r, e, N)
<1>0. Sent(t, s, e, N)
  BY SendIsNumbered
<1>1. /\ Formed(s.st, e) /\ \A pkt \in s.out : From(pkt, e) /\ pkt.kind # "ZLB"
      /\ s.st.up = t.up /\ s.st.rec = t.rec /\ s.st.closing = t.closing /\ s.st.call = t.call
      /\ s.st.taken = t.taken /\ s.st.nsent = t.nsent + 1
      /\ Few /\ Numbers(t, N) =>
           /\ s.st.seq = s.st.nsent
           /\ \A b \in s.st.queue : Numbered(b.pkt, s.st.nsent)
           /\ \A pkt \in s.out : Numbered(pkt, s.st.nsent)
  BY <1>0 DEF Sent
<1>2. Formed(u, e)
  BY <1>1 DEF Formed
<1>3. t.nsent \in Nat /\ Spent(u) \in Nat /\ Spent(t) \in Nat
  BY DEF Formed, Tunnel, Spent
<1>4. ASSUME Few, Numbers(t, N) PROVE Numbers(u, N) /\ t.nsent <= u.nsent
  <2>1. u.nsent <= MaxSend + Spent(u)
    BY <1>1, <1>3, <1>4, SendAssumption DEF Numbers
  <2> QED
    BY <1>1, <1>3, <1>4, <2>1 DEF Numbers
<1>5. Calmly(t, r) /\ (u.call.up => t.call.up)
  BY <1>1 DEF Calmly, Level, From, Addressed
<1> QED
  BY <1>1, <1>2, <1>4, <1>5 DEF Moves

\* control_zlb.
LEMMA ZlbIsNumbered ==
  ASSUME NEW e \in End, NEW N \in Nat, NEW t, Formed(t, e), t.up, NEW cid \in CallId
  PROVE  From(Zlb(t, e, cid), e) /\ (Numbers(t, N) => Numbered(Zlb(t, e, cid), t.nsent))
<1>1. t.seq \in Seqno /\ t.rec \in Seqno /\ t.nsent \in Nat
  BY DEF Formed, Tunnel
<1>2. From(Zlb(t, e, cid), e) /\ Zlb(t, e, cid).Ns = t.seq /\ Zlb(t, e, cid).kind = "ZLB"
  BY <1>1, SeqAssumption DEF Zlb, From, Packet, Kind, Seqno, Addressed, CallId
<1> QED
  BY <1>1, <1>2 DEF Numbered, Numbers

-----------------------------------------------------------------------------

\* destroy_call.
LEMMA NoCallIsClosed ==
  ASSUME NEW t \in Tunnel
  PROVE  LET u == [t EXCEPT !.call = NoCall] IN u \in Tunnel /\ Quietens(t, u)
<1> DEFINE u == [t EXCEPT !.call = NoCall]
<1>1. /\ u \in Tunnel /\ u.up = t.up /\ u.seq = t.seq /\ u.rec = t.rec /\ u.nsent = t.nsent
      /\ u.taken = t.taken /\ u.queue = t.queue /\ u.closing = t.closing /\ u.call = NoCall
  BY NoCallFields DEF Tunnel
<1> HIDE DEF u
<1>2. Quietens(t, u)
  BY <1>1, NoCallFields DEF Quietens, StaysOpen, CallOpen
<1> QED
  BY <1>1, <1>2 DEF u

\* call_close on a call.
LEMMA CloseCallMoves ==
  ASSUME NEW e \in End, NEW N \in Nat, NEW t, Formed(t, e), t.up, t.call.up,
         NEW r, r = CloseCall(t, e)
  PROVE  Moves(t, r, e, N) /\ r.st.up
<1>1. t \in Tunnel /\ t.seq \in Seqno /\ t.call \in Call
  BY DEF Formed, Tunnel
<1>2. CASE t.call.closing
  <2> DEFINE u == [t EXCEPT !.call = NoCall]
  <2>1. r = Quietly(u)
    BY <1>2 DEF CloseCall
  <2>2. u \in Tunnel /\ Quietens(t, u) /\ u.up
    BY <1>1, NoCallIsClosed DEF Tunnel
  <2> HIDE DEF u
  <2>3. r.st = u
    BY <2>1 DEF Quietly
  <2> QED
    BY <2>1, <2>2, <2>3, QuietlyMoves
<1>3. CASE ~ t.call.closing
  <2> DEFINE c == [t.call EXCEPT !.closeSs = t.seq]
             v == [t EXCEPT !.call = c]
  <2>1. c \in Call /\ c.up = t.call.up /\ c.closing = t.call.closing
    BY <1>1 DEF Call
  <2>2. v = [t EXCEPT !.call.closeSs = t.seq]
    BY <1>1 DEF Tunnel, Call
  <2>3. PICK s : s = Send(v, e, "CDN", "call")
    OBVIOUS
  <2>4. r = [s EXCEPT !.st.call.closing = TRUE]
    BY <1>3, <2>2, <2>3 DEF CloseCall
  <2> HIDE DEF c
  <2>5. /\ v \in Tunnel /\ v.up = t.up /\ v.seq = t.seq /\ v.rec = t.rec /\ v.nsent = t.nsent
        /\ v.taken = t.taken /\ v.queue = t.queue /\ v.closing = t.closing /\ v.call = c
    BY <1>1, <2>1 DEF Tunnel
  <2> HIDE DEF v
  <2>6. Quietens(t, v) /\ Formed(v, e)
    BY <2>1, <2>5 DEF Quietens, StaysOpen, CallOpen, Formed
  <2>7. /\ Formed(s.st, e) /\ s.st.up = v.up /\ s.st.call = v.call /\ s.st.closing = v.closing
        /\ "CDN" \in Kind \ {"ZLB"} /\ "call" \in CallId
        /\ Addressed("CDN", "call")
    <3>1. "CDN" \in Kind \ {"ZLB"} /\ "call" \in CallId /\ Addressed("CDN", "call")
      BY DEF Kind, CallId, Addressed
    <3>2. Sent(v, s, e, N)
      BY <2>3, <2>5, <2>6, <3>1, SendIsNumbered
    <3> QED
      BY <3>1, <3>2 DEF Sent
  <2>8. DOMAIN s = {"st", "out"}
    BY <2>3 DEF Send, Quietly
  <2> DEFINE u == [s.st EXCEPT !.call.closing = TRUE]
  <2>9. r.st = u /\ r.out = s.out
    BY <2>4, <2>8
  <2> DEFINE d == [s.st.call EXCEPT !.closing = TRUE]
  <2>10. s.st \in Tunnel /\ u = [s.st EXCEPT !.call = d] /\ d \in Call /\ d.closing
         /\ d.up = s.st.call.up
    BY <2>7 DEF Formed, Tunnel, Call
  <2> HIDE DEF u, d
  <2>11. /\ u \in Tunnel /\ u.up = s.st.up /\ u.seq = s.st.seq /\ u.rec = s.st.rec
         /\ u.nsent = s.st.nsent /\ u.taken = s.st.taken /\ u.queue = s.st.queue
         /\ u.closing = s.st.closing /\ u.call.closing /\ u.call.up = s.st.call.up
    BY <2>10 DEF Tunnel
  <2>12. Spent(v) + 1 <= Spent(u)
    <3>1. (StaysOpen(v) <=> StaysOpen(u)) /\ CallOpen(v) /\ ~ CallOpen(u)
      BY <1>3, <2>1, <2>5, <2>7, <2>11 DEF StaysOpen, CallOpen
    <3> QED
      BY <3>1 DEF Spent
  <2>13. Moves(v, r, e, N)
    BY <2>3, <2>5, <2>6, <2>7, <2>9, <2>11, <2>12, SendMoves
  <2>14. Moves(t, r, e, N)
    BY <2>6, <2>13, MovesFromQuiet
  <2> QED
    BY <2>5, <2>7, <2>9, <2>11, <2>14
<1> QED
  BY <1>2, <1>3

\* destroy_tunnel.
LEMMA DestroyedMoves ==
  ASSUME NEW e \in End, NEW N \in Nat, NEW t, Formed(t, e), t.up,
         NEW r, r = Quietly(Destroyed(t))
  PROVE  Moves(t, r, e, N) /\ ~ r.st.up /\ r.st.taken = t.taken
<1> DEFINE u == Destroyed(t)
<1>1. /\ u \in Tunnel /\ u.up = FALSE /\ u.queue = {} /\ u.call = NoCall
      /\ u.nsent = t.nsent /\ u.taken = t.taken
  BY DestroyedIsOne DEF Formed
<1> HIDE DEF u
<1>2. Quietens(t, u)
  BY <1>1, NoCallFields DEF Quietens, StaysOpen, CallOpen
<1>3. r = Quietly(u)
  BY DEF u
<1>4. r.st = u
  BY <1>3 DEF Quietly
<1> QED
  BY <1>1, <1>2, <1>3, <1>4, QuietlyMoves

\* call_close on the self call.
LEMMA CloseTunnelMoves ==
  ASSUME NEW e \in End, NEW N \in Nat, NEW t, Formed(t, e), t.up,
         NEW r, r = CloseTunnel(t, e)
  PROVE  Moves(t, r, e, N) /\ r.st.taken = t.taken
<1>1. t \in Tunnel /\ t.seq \in Seqno /\ t.call \in Call
  BY DEF Formed, Tunnel
<1>2. CASE t.closing
  BY <1>2, DestroyedMoves DEF CloseTunnel
<1>3. CASE ~ t.closing
  <2> DEFINE none == {}
             v == [t EXCEPT !.queue = none, !.closeSs = t.seq]
             w == [t EXCEPT !.queue = {}, !.closeSs = t.seq]
  <2>1. none \in SUBSET Buffer /\ v = w
    OBVIOUS
  <2>2. PICK s : s = Send(w, e, "StopCCN", "tunnel")
    OBVIOUS
  <2>3. r = [s EXCEPT !.st.closing = TRUE, !.st.call = NoCall]
    BY <1>3, <2>2 DEF CloseTunnel
  <2>4. s = Send(v, e, "StopCCN", "tunnel")
    BY <2>1, <2>2
  <2> HIDE DEF none, w
  <2>5. /\ v \in Tunnel /\ v.up = t.up /\ v.seq = t.seq /\ v.rec = t.rec /\ v.nsent = t.nsent
        /\ v.taken = t.taken /\ v.queue = none /\ v.closing = t.closing /\ v.call = t.call
    BY <1>1, <2>1 DEF Tunnel
  <2> HIDE DEF v
  <2>6. Quietens(t, v) /\ Formed(v, e)
    BY <2>5 DEF Quietens, StaysOpen, CallOpen, Formed, none
  <2>7. "StopCCN" \in Kind \ {"ZLB"} /\ "tunnel" \in CallId /\ Addressed("StopCCN", "tunnel")
    BY DEF Kind, CallId, Addressed
  <2>8. Sent(v, s, e, N)
    BY <2>4, <2>5, <2>6, <2>7, SendIsNumbered
  <2>9. DOMAIN s = {"st", "out"}
    BY <2>4 DEF Send, Quietly
  <2> DEFINE none2 == NoCall
             u == [s.st EXCEPT !.closing = TRUE, !.call = none2]
  <2>10. r.st = u /\ r.out = s.out
    <3> DEFINE x == [s.st EXCEPT !.closing = TRUE]
    <3>1. r = [[s EXCEPT !.st = x] EXCEPT !.st.call = none2]
      BY <2>3, <2>9
    <3>2. u = [x EXCEPT !.call = none2]
      OBVIOUS
    <3> HIDE DEF x, none2, u
    <3> QED
      BY <2>9, <3>1, <3>2
  <2>11. none2 \in Call /\ s.st \in Tunnel /\ ~ none2.up /\ s.st.up = v.up /\ s.st.closing = v.closing
         /\ s.st.call = v.call /\ s.st.taken = v.taken
    BY <2>8, NoCallFields DEF Sent, Formed
  <2> HIDE DEF none2
  <2>12. u = [s.st EXCEPT !.closing = TRUE, !.call = none2]
    OBVIOUS
  <2> HIDE DEF u
  <2>13. /\ u \in Tunnel /\ u.up = s.st.up /\ u.seq = s.st.seq /\ u.rec = s.st.rec
         /\ u.nsent = s.st.nsent /\ u.taken = s.st.taken /\ u.queue = s.st.queue
         /\ u.closing = TRUE /\ u.call = none2
    BY <2>11, <2>12 DEF Tunnel
  <2>14. Spent(v) + 1 <= Spent(u)
    <3>1. StaysOpen(v) /\ ~ StaysOpen(u) /\ ~ CallOpen(u)
      BY <1>3, <2>5, <2>11, <2>13 DEF StaysOpen, CallOpen
    <3> QED
      BY <3>1 DEF Spent
  <2>15. Moves(v, r, e, N)
    BY <2>4, <2>5, <2>6, <2>7, <2>10, <2>11, <2>13, <2>14, SendMoves
  <2>16. Moves(t, r, e, N)
    BY <2>6, <2>15, MovesFromQuiet
  <2> QED
    BY <2>5, <2>10, <2>11, <2>13, <2>16
<1> QED
  BY <1>1, <1>2, <1>3 DEF Tunnel

\* A handler may set the marks of a tunnel and drop buffers before it closes it.
LEMMA CloseAlikeMoves ==
  ASSUME NEW e \in End, NEW N \in Nat, NEW t, Formed(t, e), t.up,
         NEW q \in SUBSET t.queue, NEW needclose \in BOOLEAN, NEW closing \in BOOLEAN,
         t.closing => closing,
         NEW r, r = CloseTunnel([t EXCEPT !.queue = q, !.needclose = needclose, !.closing = closing], e)
  PROVE  Moves(t, r, e, N)
<1>1. t \in Tunnel /\ q \in SUBSET Buffer
  BY DEF Formed, Tunnel
<1> DEFINE u == [t EXCEPT !.queue = q, !.needclose = needclose, !.closing = closing]
<1>2. /\ u \in Tunnel /\ u.up = t.up /\ u.seq = t.seq /\ u.rec = t.rec /\ u.nsent = t.nsent
      /\ u.taken = t.taken /\ u.queue = q /\ u.closing = closing /\ u.call = t.call
  BY <1>1 DEF Tunnel
<1> HIDE DEF u
<1>3. Quietens(t, u) /\ Formed(u, e)
  BY <1>2 DEF Quietens, StaysOpen, CallOpen, Formed
<1>4. Moves(u, r, e, N)
  BY <1>2, <1>3, CloseTunnelMoves DEF u
<1> QED
  BY <1>3, <1>4, MovesFromQuiet

\* build_fdset.
LEMMA BuildFdsetMoves ==
  ASSUME NEW e \in End, NEW N \in Nat, NEW t, Formed(t, e), t.up,
         NEW r, r = BuildFdset(t, e)
  PROVE  Moves(t, r, e, N)
<1>1. PICK q : q = IF t.call.up /\ Unsettled(t.call) THEN CloseCall(t, e) ELSE Quietly(t)
  OBVIOUS
<1>2. Quietens(t, t)
  BY DEF Quietens, Formed
<1>3. Moves(t, q, e, N) /\ q.st.up /\ Formed(q.st, e)
  <2>1. CASE t.call.up /\ Unsettled(t.call)
    BY <1>1, <2>1, CloseCallMoves DEF Moves
  <2>2. CASE ~ (t.call.up /\ Unsettled(t.call))
    <3>1. q = Quietly(t)
      BY <1>1, <2>2
    <3> QED
      BY <1>2, <3>1, QuietlyMoves DEF Quietly
  <2> QED
    BY <2>1, <2>2
<1>4. r = Then(q, LAMBDA u : IF Unsettled(u) THEN CloseTunnel(u, e) ELSE Quietly(u))
  BY <1>1 DEF BuildFdset
<1>5. CASE Unsettled(q.st)
  <2>1. PICK s : s = CloseTunnel(q.st, e)
    OBVIOUS
  <2>2. r.st = s.st /\ r.out = q.out \cup s.out
    BY <1>4, <1>5, <2>1 DEF Then
  <2>3. Moves(q.st, s, e, N)
    BY <1>3, <2>1, CloseTunnelMoves
  <2> QED
    BY <1>3, <2>2, <2>3, MovesOn
<1>6. CASE ~ Unsettled(q.st)
  <2>1. PICK s : s = Quietly(q.st)
    OBVIOUS
  <2>2. r.st = s.st /\ r.out = q.out \cup s.out
    BY <1>4, <1>6, <2>1 DEF Then
  <2>3. Quietens(q.st, q.st)
    BY <1>3 DEF Quietens, Formed
  <2>4. Moves(q.st, s, e, N)
    BY <1>3, <2>1, <2>3, QuietlyMoves
  <2> QED
    BY <1>3, <2>2, <2>4, MovesOn
<1> QED
  BY <1>5, <1>6

-----------------------------------------------------------------------------
(* Timers.                                                                  *)

\* hello.
LEMMA HelloMoves ==
  ASSUME NEW e \in End, NEW N \in Nat, NEW t, Formed(t, e), t.up, t.nsent < MaxSend,
         NEW r, r = Send(t, e, "Hello", "tunnel")
  PROVE  Moves(t, r, e, N)
<1>1. "Hello" \in Kind \ {"ZLB"} /\ "tunnel" \in CallId /\ Addressed("Hello", "tunnel")
  BY DEF Kind, CallId, Addressed
<1>2. Sent(t, r, e, N)
  BY <1>1, SendIsNumbered
<1>3. r.st \in Tunnel
  BY <1>2 DEF Sent, Formed
<1>4. PICK u : u = r.st
  OBVIOUS
<1> QED
  BY <1>1, <1>3, <1>4, SendMoves

\* Too many retries.
LEMMA GiveUpMoves ==
  ASSUME NEW e \in End, NEW N \in Nat, NEW t, Formed(t, e), t.up,
         NEW r, r = GiveUp(t, e)
  PROVE  Moves(t, r, e, N)
<1>1. t \in Tunnel /\ t.closing \in BOOLEAN /\ t.needclose \in BOOLEAN
  BY DEF Formed, Tunnel
<1> DEFINE q == t.queue
<1>2. q \in SUBSET t.queue
  OBVIOUS
<1>3. CASE t.needclose
  <2> DEFINE no == FALSE yes == TRUE
  <2>1. r = CloseTunnel([t EXCEPT !.needclose = no, !.closing = yes], e)
    BY <1>3 DEF GiveUp
  <2>2. no \in BOOLEAN /\ yes \in BOOLEAN /\ (t.closing => yes)
    OBVIOUS
  <2> HIDE DEF no, yes
  <2>3. [t EXCEPT !.queue = q, !.needclose = no, !.closing = yes]
          = [t EXCEPT !.needclose = no, !.closing = yes]
    BY <1>1 DEF Tunnel
  <2>4. r = CloseTunnel([t EXCEPT !.queue = q, !.needclose = no, !.closing = yes], e)
    BY <2>1, <2>3
  <2> QED
    BY <1>2, <2>2, <2>4, CloseAlikeMoves
<1>4. CASE ~ t.needclose
  <2> DEFINE closing == t.closing yes == TRUE
  <2>1. r = CloseTunnel([t EXCEPT !.needclose = yes], e)
    BY <1>4 DEF GiveUp
  <2>2. closing \in BOOLEAN /\ yes \in BOOLEAN /\ (t.closing => closing)
    BY <1>1
  <2>3. [t EXCEPT !.queue = q, !.needclose = yes, !.closing = closing]
          = [t EXCEPT !.needclose = yes]
    BY <1>1 DEF Tunnel
  <2> HIDE DEF closing, yes
  <2>4. r = CloseTunnel([t EXCEPT !.queue = q, !.needclose = yes, !.closing = closing], e)
    BY <2>1, <2>3
  <2> QED
    BY <1>2, <2>2, <2>4, CloseAlikeMoves
<1> QED
  BY <1>3, <1>4

\* control_xmit of a queued buffer.
LEMMA ControlXmitMoves ==
  ASSUME NEW e \in End, NEW N \in Nat, NEW t, Formed(t, e), t.up, NEW buf \in t.queue,
         NEW r, r = ControlXmit(t, e, buf)
  PROVE  Moves(t, r, e, N)
<1> DEFINE q == t.queue \ {buf}
           rest == [t EXCEPT !.queue = q]
<1>1. /\ t \in Tunnel /\ t.queue \subseteq Buffer /\ buf \in Buffer /\ From(buf.pkt, e)
      /\ buf.pkt.kind # "ZLB" /\ buf.retries \in 1 .. MaxRetries
  BY DEF Formed, Tunnel, Buffer
<1>2. q \in SUBSET Buffer /\ rest = [t EXCEPT !.queue = @ \ {buf}]
  BY <1>1 DEF Tunnel
<1>3. \A b \in q : b \in t.queue
  OBVIOUS
<1> DEFINE again == [buf EXCEPT !.retries = @ + 1]
           q2 == q \cup {again}
           u == [rest EXCEPT !.queue = q2]
<1>4. MayRetry(buf) => again \in Buffer /\ again.pkt = buf.pkt /\ q2 \in SUBSET Buffer
                       /\ \A b \in q2 : b \in t.queue \/ b.pkt = buf.pkt
  <2> SUFFICES ASSUME MayRetry(buf) PROVE again \in Buffer /\ again.pkt = buf.pkt
    BY <1>2, <1>3
  <2>1. buf.retries + 1 \in 1 .. MaxRetries
    BY <1>1, RetryAssumption DEF MayRetry
  <2> QED
    BY <1>1, <2>1 DEF Buffer
<1>5. /\ HasReceived(t.cLr, buf.pkt) => r = Quietly(rest)
      /\ ~ HasReceived(t.cLr, buf.pkt) /\ MayRetry(buf) =>
           r = [st |-> [rest EXCEPT !.queue = @ \cup {again}], out |-> {buf.pkt}]
      /\ ~ HasReceived(t.cLr, buf.pkt) /\ ~ MayRetry(buf) => r = GiveUp(rest, e)
  <2>1. rest = [t EXCEPT !.queue = @ \ {buf}]
    BY <1>2
  <2> HIDE DEF rest
  <2> QED
    BY <2>1 DEF ControlXmit
<1> HIDE DEF q, again, q2
<1>6. /\ rest \in Tunnel /\ rest.up = t.up /\ rest.seq = t.seq /\ rest.rec = t.rec
      /\ rest.nsent = t.nsent /\ rest.taken = t.taken /\ rest.queue = q
      /\ rest.closing = t.closing /\ rest.call = t.call
  BY <1>1, <1>2 DEF Tunnel
<1> HIDE DEF rest
<1>7. Quietens(t, rest) /\ Formed(rest, e)
  BY <1>1, <1>3, <1>6 DEF Quietens, StaysOpen, CallOpen, Formed
<1>8. CASE HasReceived(t.cLr, buf.pkt)
  BY <1>5, <1>7, <1>8, QuietlyMoves
<1>9. CASE ~ HasReceived(t.cLr, buf.pkt) /\ MayRetry(buf)
  <2>1. [rest EXCEPT !.queue = @ \cup {again}] = u
    BY <1>6 DEF q2
  <2>2. r.st = u /\ r.out = {buf.pkt}
    BY <1>5, <1>9, <2>1
  <2>3. /\ u \in Tunnel /\ u.up = t.up /\ u.seq = t.seq /\ u.rec = t.rec
        /\ u.nsent = t.nsent /\ u.taken = t.taken /\ u.queue = q2
        /\ u.closing = t.closing /\ u.call = t.call
    BY <1>4, <1>6, <1>9 DEF Tunnel
  <2> HIDE DEF u
  <2>4. Quietens(t, u)
    BY <1>4, <1>9, <2>3 DEF Quietens, StaysOpen, CallOpen
  <2>5. Formed(u, e) /\ (Numbers(t, N) => Numbers(u, N))
    BY <2>4, QuietensNumbers
  <2>6. Numbers(t, N) => Numbered(buf.pkt, u.nsent)
    BY <2>3 DEF Numbers
  <2>7. t.nsent <= u.nsent
    BY <1>1, <2>3 DEF Tunnel
  <2> QED
    BY <1>1, <2>2, <2>3, <2>5, <2>6, <2>7 DEF Moves, Calmly, Level, From, Addressed
<1>10. CASE ~ HasReceived(t.cLr, buf.pkt) /\ ~ MayRetry(buf)
  <2>1. Moves(rest, r, e, N)
    BY <1>5, <1>6, <1>7, <1>10, GiveUpMoves
  <2> QED
    BY <1>7, <2>1, MovesFromQuiet
<1> QED
  BY <1>8, <1>9, <1>10

-----------------------------------------------------------------------------
(* Packets.                                                                 *)

\* From t to u the packet pkt was taken, or, a ZLB, taken and given back.
Took(t, u, pkt) ==
  /\ u \in Tunnel
  /\ u.up = t.up /\ u.seq = t.seq /\ u.nsent = t.nsent /\ u.queue = t.queue
  /\ u.taken = IF pkt.kind = "ZLB" THEN t.taken ELSE Append(t.taken, pkt.nth)
  /\ \/ u.rec = (t.rec + 1) % SeqMod
     \/ pkt.kind = "ZLB" /\ u.rec = (((t.rec + 1) % SeqMod) - 1) % SeqMod
  /\ StaysOpen(u) => StaysOpen(t)
  /\ CallOpen(u) => CallOpen(t)
  /\ u.call.up => t.call.up

\* From t to u a ZLB was given back; handle_special does not.
CountedOut(t, u, pkt) ==
  NoForeign /\ t.call.up /\ pkt.kind = "ZLB" => u.rec = (((t.rec + 1) % SeqMod) - 1) % SeqMod

\* A packet of the peer, which has sent N messages.
Comes(pkt, e, N) ==
  /\ From(pkt, Peer(e))
  /\ Few => Numbered(pkt, N) /\ N <= MaxSend + 2

\* check_control lets a message through when its number is the next one.
LEMMA TookNumbers ==
  ASSUME NEW e \in End, NEW N \in Nat, NEW t, Formed(t, e), t.up,
         NEW pkt, Comes(pkt, e, N), InSequence(t, pkt), NEW u, Took(t, u, pkt)
  PROVE  /\ Formed(u, e) /\ (Few /\ Numbers(t, N) => Numbers(u, N))
         /\ Few /\ Numbers(t, N) /\ NoForeign /\ CountedOut(t, u, pkt) /\ t.call.up /\ Level(t) => Level(u)
<1>1. /\ t \in Tunnel /\ t.rec \in Nat /\ t.nsent \in Nat /\ t.taken \in Seq(Nat)
      /\ pkt.Ns \in Nat /\ pkt.nth \in Nat /\ pkt.Ns = t.rec /\ u \in Tunnel
  BY SeqAssumption DEF Formed, Tunnel, Comes, From, Packet, Seqno, InSequence, Took
<1>2. Formed(u, e)
  BY DEF Formed, Took
<1>3. ASSUME Few, Numbers(t, N)
      PROVE  Numbers(u, N) /\ (NoForeign /\ CountedOut(t, u, pkt) /\ t.call.up /\ Level(t) => Level(u))
  <2>1. t.rec <= N /\ N <= MaxSend + 2 /\ t.rec + 1 < SeqMod
    BY <1>1, <1>3, SendAssumption, SeqAssumption DEF Comes, Numbered, Few
  <2>2. (t.rec + 1) % SeqMod = t.rec + 1 /\ (((t.rec + 1) % SeqMod) - 1) % SeqMod = t.rec
    <3>1. (t.rec + 1) % SeqMod = t.rec + 1
      BY <1>1, <2>1, ModSmall, SeqAssumption
    <3>2. t.rec % SeqMod = t.rec
      BY <1>1, <2>1, ModSmall, SeqAssumption
    <3>3. PICK n : n = (t.rec + 1) % SeqMod
      OBVIOUS
    <3>4. n - 1 = t.rec
      BY <1>1, <3>1, <3>3
    <3> QED
      BY <3>1, <3>2, <3>3, <3>4, Zenon
  <2>3. u.nsent <= MaxSend + Spent(u)
    <3>1. Spent(t) \in Nat /\ Spent(u) \in Nat /\ Spent(t) <= Spent(u)
      BY DEF Spent, Took
    <3> QED
      BY <1>1, <1>3, <3>1, SendAssumption DEF Numbers, Took
  <2>4. u.up => u.seq = u.nsent /\ u.rec <= N + 1
    BY <1>1, <1>3, <2>1, <2>2 DEF Numbers, Took
  <2>5. \A b \in u.queue : Numbered(b.pkt, u.nsent)
    BY <1>3 DEF Numbers, Took
  <2>6. \A i \in 1 .. Len(t.taken) : t.taken[i] <= N /\ t.taken[i] <= t.rec /\ t.taken[i] \in Nat
    BY <1>1, <1>3 DEF Numbers
  <2>7. \A i, j \in 1 .. Len(t.taken) : i < j => t.taken[i] < t.taken[j]
    BY <1>3 DEF Numbers
  <2>8. /\ \A i \in 1 .. Len(u.taken) : u.taken[i] <= N /\ u.taken[i] <= u.rec
        /\ \A i, j \in 1 .. Len(u.taken) : i < j => u.taken[i] < u.taken[j]
    <3>1. CASE pkt.kind = "ZLB"
      <4>1. u.taken = t.taken /\ u.rec \in Nat /\ t.rec <= u.rec
        BY <1>1, <2>2, <3>1 DEF Took
      <4>2. \A i \in 1 .. Len(t.taken) : t.taken[i] <= u.rec
        BY <1>1, <2>6, <4>1
      <4> QED
        BY <2>6, <2>7, <4>1, <4>2
    <3>2. CASE pkt.kind # "ZLB"
      <4> DEFINE n == Len(t.taken)
      <4>1. u.taken = Append(t.taken, pkt.nth) /\ pkt.nth = t.rec + 1 /\ pkt.nth <= N
            /\ u.rec = t.rec + 1 /\ n \in Nat
        BY <1>1, <1>3, <2>2, <3>2, LenProperties DEF Took, Comes, Numbered
      <4>2. /\ Len(u.taken) = n + 1 /\ u.taken[n + 1] = t.rec + 1
            /\ \A i \in 1 .. n : u.taken[i] = t.taken[i]
        BY <1>1, <4>1, AppendProperties
      <4> HIDE DEF n
      <4>3. \A i \in 1 .. n : u.taken[i] <= N /\ u.taken[i] <= t.rec /\ u.taken[i] \in Nat
        BY <2>6, <4>2 DEF n
      <4>4. \A i, j \in 1 .. n : i < j => u.taken[i] < u.taken[j]
        BY <2>7, <4>2 DEF n
      <4>5. \A i \in 1 .. n + 1 : i \in 1 .. n \/ i = n + 1
        BY <4>1 DEF n
      <4>6. \A i \in 1 .. n + 1 : u.taken[i] <= N /\ u.taken[i] <= u.rec
        BY <1>1, <4>1, <4>2, <4>3, <4>5
      <4>7. \A i, j \in 1 .. n + 1 : i < j => u.taken[i] < u.taken[j]
        <5> SUFFICES ASSUME NEW i \in 1 .. n + 1, NEW j \in 1 .. n + 1, i < j
                     PROVE  u.taken[i] < u.taken[j]
          OBVIOUS
        <5>1. i \in 1 .. n
          BY <4>1 DEF n
        <5>2. CASE j \in 1 .. n
          BY <4>4, <5>1, <5>2
        <5>3. CASE j = n + 1
          BY <1>1, <4>2, <4>3, <5>1, <5>3
        <5> QED
          BY <4>5, <5>2, <5>3
      <4> QED
        BY <4>2, <4>6, <4>7
    <3> QED
      BY <3>1, <3>2
  <2>9. NoForeign /\ CountedOut(t, u, pkt) /\ t.call.up /\ Level(t) => Level(u)
    <3>1. CASE pkt.kind = "ZLB"
      BY <2>2, <3>1 DEF Took, CountedOut, Level
    <3>2. CASE pkt.kind # "ZLB"
      <4>1. u.taken = Append(t.taken, pkt.nth) /\ u.rec = t.rec + 1
        BY <2>2, <3>2 DEF Took
      <4>2. Len(u.taken) = Len(t.taken) + 1
        BY <1>1, <4>1, AppendProperties
      <4> QED
        BY <4>1, <4>2 DEF Level
    <3> QED
      BY <3>1, <3>2
  <2> QED
    BY <2>3, <2>4, <2>5, <2>8, <2>9 DEF Numbers
<1> QED
  BY <1>2, <1>3

\* The result r answers with a ZLB at most, and goes on from the record u.  Only
\* handle_special answers for a call that is not there.
Apt(u, cid) == NoForeign /\ u.call.up => cid # "foreign"
Answers(r, u, e) ==
  /\ r.st = u
  /\ \/ r.out = {}
     \/ \E v : \E cid \in CallId : /\ Formed(v, e) /\ v.up /\ v.seq = u.seq /\ Apt(u, cid)
                                /\ r.out = {Zlb(v, e, cid)}

\* A packet taken and answered is a move.
LEMMA TookMoves ==
  ASSUME NEW e \in End, NEW N \in Nat, NEW t, Formed(t, e), t.up,
         NEW pkt, Comes(pkt, e, N), InSequence(t, pkt), NEW u, Took(t, u, pkt),
         CountedOut(t, u, pkt),
         NEW r, Answers(r, u, e)
  PROVE  Moves(t, r, e, N)
<1>0. Formed(u, e) /\ (Few /\ Numbers(t, N) => Numbers(u, N))
  BY TookNumbers
<1>1. t.nsent = u.nsent /\ t.nsent \in Nat /\ u.up
  BY DEF Took, Formed, Tunnel
<1>2. \A p \in r.out : From(p, e) /\ p.kind = "ZLB" /\ p.Ns = u.seq
  BY ZlbIsNumbered DEF Zlb, Answers
<1>3. Few /\ Numbers(t, N) => \A p \in r.out : Numbered(p, u.nsent)
  BY <1>0, <1>1, <1>2 DEF Numbers, Numbered
<1>4. Few /\ Numbers(t, N) /\ NoForeign => Calmly(t, r)
  <2>1. NoForeign /\ u.call.up => \A p \in r.out : p.cid # "foreign"
    BY DEF Answers, Apt, Zlb
  <2>2. u.call.up => t.call.up
    BY DEF Took
  <2>3. Few /\ Numbers(t, N) /\ NoForeign /\ t.call.up /\ Level(t) => Level(u)
    BY TookNumbers
  <2>4. r.st = u
    BY DEF Answers
  <2> QED
    BY <2>1, <2>2, <2>3, <2>4 DEF Calmly
<1>5. r.st.call.up => t.call.up
  BY DEF Answers, Took
<1> QED
  BY <1>0, <1>1, <1>3, <1>2, <1>4, <1>5 DEF Moves, Answers

\* From t to u check_control let pkt through.
LetThrough(t, u, pkt) ==
  /\ u \in Tunnel /\ u.up = t.up /\ u.seq = t.seq /\ u.nsent = t.nsent
  /\ u.queue = t.queue /\ u.needclose = t.needclose /\ u.closing = t.closing
  /\ u.call = t.call /\ u.rec = (t.rec + 1) % SeqMod
  /\ u.taken = IF pkt.kind = "ZLB" THEN t.taken ELSE Append(t.taken, pkt.nth)

\* check_control of a packet in sequence.
LEMMA TakeFields ==
  ASSUME NEW t \in Tunnel, NEW pkt \in Packet
  PROVE  LetThrough(t, Take(t, pkt), pkt)
<1>0. PICK u : u = Take(t, pkt)
  OBVIOUS
<1> DEFINE n == (t.rec + 1) % SeqMod
           q == IF pkt.kind = "ZLB" THEN t.taken ELSE Append(t.taken, pkt.nth)
<1>1. /\ t.rec \in Nat /\ t.taken \in Seq(Nat) /\ pkt.nth \in Nat /\ pkt.Nr \in Seqno
  BY SeqAssumption DEF Tunnel, Packet, Seqno
<1>2. n \in Seqno
  BY <1>1, SeqAssumption DEF Seqno
<1>3. q \in Seq(Nat)
  BY <1>1, AppendProperties
<1>4. u = [t EXCEPT !.rec = n, !.cLr = pkt.Nr, !.taken = q]
  BY <1>0 DEF Take, Tunnel
<1> HIDE DEF n, q
<1>5. /\ u \in Tunnel /\ u.up = t.up /\ u.seq = t.seq /\ u.nsent = t.nsent
      /\ u.queue = t.queue /\ u.needclose = t.needclose /\ u.closing = t.closing
      /\ u.call = t.call /\ u.rec = n /\ u.taken = q
  BY <1>1, <1>2, <1>3, <1>4 DEF Tunnel
<1> QED
  BY <1>0, <1>5 DEF n, q, LetThrough

\* handle_control's t->control_rec_seq_num--.
LEMMA GiveBackFields ==
  ASSUME NEW t \in Tunnel, NEW u, u = GiveBack(t)
  PROVE  /\ u \in Tunnel /\ u.up = t.up /\ u.seq = t.seq /\ u.nsent = t.nsent
         /\ u.queue = t.queue /\ u.needclose = t.needclose /\ u.closing = t.closing
         /\ u.call = t.call /\ u.taken = t.taken /\ u.rec = (t.rec - 1) % SeqMod
<1> DEFINE n == (t.rec - 1) % SeqMod
<1>1. t.rec \in Nat
  BY SeqAssumption DEF Tunnel, Seqno
<1>2. n \in Seqno
  BY <1>1, SeqAssumption DEF Seqno
<1>3. u = [t EXCEPT !.rec = n]
  BY DEF GiveBack, Tunnel
<1> HIDE DEF n
<1>4. /\ u \in Tunnel /\ u.up = t.up /\ u.seq = t.seq /\ u.nsent = t.nsent
      /\ u.queue = t.queue /\ u.needclose = t.needclose /\ u.closing = t.closing
      /\ u.call = t.call /\ u.taken = t.taken /\ u.rec = n
  BY <1>2, <1>3 DEF Tunnel
<1> QED
  BY <1>4 DEF n

\* check_control of a packet out of sequence.
LEMMA RefuseMoves ==
  ASSUME NEW e \in End, NEW N \in Nat, NEW t, Formed(t, e), t.up, NEW pkt, NEW cid \in CallId,
         Apt(t, cid), NEW r, r = Refuse(t, e, pkt, cid)
  PROVE  Moves(t, r, e, N) /\ r.st = t
<1>1. r.st = t /\ r.out \subseteq {Zlb(t, e, cid)}
  BY DEF Refuse
<1>2. t.nsent <= t.nsent
  BY DEF Formed, Tunnel
<1>3. NoForeign => Calmly(t, r)
  BY <1>1 DEF Calmly, Apt, Zlb
<1> QED
  BY <1>1, <1>2, <1>3, ZlbIsNumbered DEF Moves

\* network_thread's answer to what handle_control left to acknowledge.
LEMMA AcknowledgeMoves ==
  ASSUME NEW e \in End, NEW N \in Nat, NEW t, Formed(t, e), t.up, NEW cid \in CallId,
         Apt(t, cid), NEW r, r = Acknowledge(t, e, cid)
  PROVE  Moves(t, r, e, N)
<1> DEFINE u == [t EXCEPT !.cnu = FALSE]
<1>1. r.st = u /\ r.out = {Zlb(t, e, cid)}
  BY DEF Acknowledge
<1>2. /\ u \in Tunnel /\ u.up = t.up /\ u.seq = t.seq /\ u.rec = t.rec /\ u.nsent = t.nsent
      /\ u.taken = t.taken /\ u.queue = t.queue /\ u.closing = t.closing /\ u.call = t.call
      /\ t.nsent \in Nat
  BY DEF Formed, Tunnel
<1> HIDE DEF u
<1>3. Quietens(t, u)
  BY <1>2 DEF Quietens, StaysOpen, CallOpen
<1>4. Formed(u, e) /\ (Numbers(t, N) => Numbers(u, N))
  BY <1>3, QuietensNumbers
<1>5. From(Zlb(t, e, cid), e) /\ (Numbers(t, N) => Numbered(Zlb(t, e, cid), u.nsent))
  BY <1>2, ZlbIsNumbered
<1>6. NoForeign => Calmly(t, r)
  BY <1>1, <1>2 DEF Calmly, Level, Apt, Zlb
<1> QED
  BY <1>1, <1>2, <1>4, <1>5, <1>6 DEF Moves

\* handle_control for the tunnel's self call.
LEMMA HandleOnTunnelMoves ==
  ASSUME NEW e \in End, NEW N \in Nat, NEW t, Formed(t, e), t.up,
         NEW pkt, Comes(pkt, e, N), pkt.cid = "tunnel",
         NEW r, r = HandleOnTunnel(t, e, pkt)
  PROVE  Moves(t, r, e, N)
<1>1. PICK u : u = Take(t, pkt)
  OBVIOUS
<1>2. t \in Tunnel /\ pkt \in Packet /\ pkt.kind \in {"Hello", "StopCCN", "ZLB"} /\ "tunnel" \in CallId
      /\ \A v : Apt(v, "tunnel")
  BY DEF Apt, Formed, Comes, From, Packet, Kind, Addressed, CallId
<1>3. /\ u \in Tunnel /\ u.up = t.up /\ u.seq = t.seq /\ u.nsent = t.nsent
      /\ u.queue = t.queue /\ u.needclose = t.needclose /\ u.closing = t.closing
      /\ u.call = t.call /\ u.rec = (t.rec + 1) % SeqMod
      /\ u.taken = IF pkt.kind = "ZLB" THEN t.taken ELSE Append(t.taken, pkt.nth)
  <2>1. LetThrough(t, u, pkt)
    BY <1>1, <1>2, TakeFields
  <2> QED
    BY <2>1 DEF LetThrough
<1>4. CASE ~ InSequence(t, pkt)
  <2>1. PICK q : q = Refuse(t, e, pkt, "tunnel")
    OBVIOUS
  <2>2. Moves(t, q, e, N) /\ q.st = t
    BY <1>2, <2>1, RefuseMoves
  <2>3. r = Then(q, LAMBDA v : IF v.cnu THEN Acknowledge(v, e, "tunnel") ELSE Quietly(v))
    BY <1>4, <2>1 DEF HandleOnTunnel
  <2>4. CASE t.cnu
    <3>1. PICK s : s = Acknowledge(t, e, "tunnel")
      OBVIOUS
    <3>2. r.st = s.st /\ r.out = q.out \cup s.out
      BY <2>2, <2>3, <2>4, <3>1 DEF Then
    <3>3. Moves(q.st, s, e, N)
      BY <1>2, <2>2, <3>1, AcknowledgeMoves
    <3> QED
      BY <2>2, <3>2, <3>3, MovesOn
  <2>5. CASE ~ t.cnu
    <3>1. r.st = q.st /\ r.out = q.out
      BY <2>2, <2>3, <2>5 DEF Then, Quietly
    <3> QED
      BY <2>2, <3>1 DEF Moves, Calmly
  <2> QED
    BY <2>4, <2>5
<1>5. CASE InSequence(t, pkt) /\ pkt.kind = "ZLB"
  <2>1. PICK g : g = GiveBack(u)
    OBVIOUS
  <2> DEFINE need == g.needclose /\ ~ ZlbClears(u, u.cLr)
             w == [g EXCEPT !.cnu = FALSE, !.needclose = need]
             x == [g EXCEPT !.cnu = FALSE, !.needclose = @ /\ ~ ZlbClears(u, u.cLr)]
  <2>2. r = Quietly(x)
    BY <1>1, <1>5, <2>1 DEF HandleOnTunnel
  <2>3. /\ g \in Tunnel /\ g.up = u.up /\ g.seq = u.seq /\ g.nsent = u.nsent
        /\ g.queue = u.queue /\ g.needclose = u.needclose /\ g.closing = u.closing
        /\ g.call = u.call /\ g.taken = u.taken /\ g.rec = (u.rec - 1) % SeqMod
    BY <1>3, <2>1, GiveBackFields
  <2>4. need \in BOOLEAN
    OBVIOUS
  <2>5. x = w
    BY <2>3 DEF Tunnel
  <2>6. r.st = w /\ r.out = {}
    BY <2>2, <2>5 DEF Quietly
  <2> HIDE DEF need
  <2>7. /\ w \in Tunnel /\ w.up = g.up /\ w.seq = g.seq /\ w.nsent = g.nsent
        /\ w.queue = g.queue /\ w.closing = g.closing
        /\ w.call = g.call /\ w.taken = g.taken /\ w.rec = g.rec
    BY <2>3, <2>4 DEF Tunnel
  <2> HIDE DEF w
  <2>8. Took(t, w, pkt) /\ CountedOut(t, w, pkt)
    BY <1>3, <1>5, <2>3, <2>7 DEF Took, CountedOut, StaysOpen, CallOpen
  <2> QED
    BY <1>5, <2>6, <2>8, TookMoves DEF Answers
<1>6. CASE InSequence(t, pkt) /\ pkt.kind = "Hello"
  <2>1. r = Acknowledge(u, e, "tunnel")
    BY <1>1, <1>6 DEF HandleOnTunnel
  <2> DEFINE w == [u EXCEPT !.cnu = FALSE]
  <2>2. r.st = w /\ r.out = {Zlb(u, e, "tunnel")}
    BY <2>1 DEF Acknowledge
  <2>3. /\ w \in Tunnel /\ w.up = u.up /\ w.seq = u.seq /\ w.nsent = u.nsent
        /\ w.queue = u.queue /\ w.closing = u.closing
        /\ w.call = u.call /\ w.taken = u.taken /\ w.rec = u.rec
    BY <1>3 DEF Tunnel
  <2> HIDE DEF w
  <2>4. Took(t, w, pkt) /\ CountedOut(t, w, pkt) /\ Formed(u, e) /\ u.up
    BY <1>3, <1>6, <2>3 DEF Took, CountedOut, StaysOpen, CallOpen, Formed
  <2>5. Answers(r, w, e)
    BY <1>2, <2>2, <2>3, <2>4 DEF Answers
  <2> QED
    BY <1>2, <1>6, <2>2, <2>3, <2>4, <2>5, TookMoves
<1>7. CASE InSequence(t, pkt) /\ pkt.kind = "StopCCN"
  <2> DEFINE v == [u EXCEPT !.needclose = FALSE, !.closing = TRUE]
             w == [v EXCEPT !.cnu = FALSE]
  <2>1. r = Acknowledge(v, e, "tunnel")
    BY <1>1, <1>7 DEF HandleOnTunnel
  <2>2. r.st = w /\ r.out = {Zlb(v, e, "tunnel")}
    BY <2>1 DEF Acknowledge
  <2>3. /\ v \in Tunnel /\ v.up = u.up /\ v.seq = u.seq /\ v.nsent = u.nsent
        /\ v.queue = u.queue /\ v.closing = TRUE
        /\ v.call = u.call /\ v.taken = u.taken /\ v.rec = u.rec
    BY <1>3 DEF Tunnel
  <2> HIDE DEF v
  <2>4. /\ w \in Tunnel /\ w.up = v.up /\ w.seq = v.seq /\ w.nsent = v.nsent
        /\ w.queue = v.queue /\ w.closing = TRUE
        /\ w.call = v.call /\ w.taken = v.taken /\ w.rec = v.rec
    BY <2>3 DEF Tunnel
  <2> HIDE DEF w
  <2>5. Took(t, w, pkt) /\ CountedOut(t, w, pkt) /\ Formed(v, e) /\ v.up
    BY <1>3, <1>7, <2>3, <2>4 DEF Took, CountedOut, StaysOpen, CallOpen, Formed
  <2>6. Answers(r, w, e)
    BY <1>2, <1>3, <2>2, <2>3, <2>4, <2>5 DEF Answers
  <2> QED
    BY <1>2, <1>7, <2>2, <2>3, <2>4, <2>5, <2>6, TookMoves
<1> QED
  BY <1>2, <1>4, <1>5, <1>6, <1>7

\* handle_control for the call.
LEMMA HandleOnCallMoves ==
  ASSUME NEW e \in End, NEW N \in Nat, NEW t, Formed(t, e), t.up,
         NEW pkt, Comes(pkt, e, N), pkt.cid = "call",
         NEW r, r = HandleOnCall(t, e, pkt)
  PROVE  Moves(t, r, e, N)
<1>1. PICK u : u = Take(t, pkt)
  OBVIOUS
<1>2. t \in Tunnel /\ pkt \in Packet /\ pkt.kind \in {"CDN", "ZLB"} /\ "call" \in CallId
      /\ \A v : Apt(v, "call")
  BY DEF Apt, Formed, Comes, From, Packet, Kind, Addressed, CallId
<1>3. /\ u \in Tunnel /\ u.up = t.up /\ u.seq = t.seq /\ u.nsent = t.nsent
      /\ u.queue = t.queue /\ u.needclose = t.needclose /\ u.closing = t.closing
      /\ u.call = t.call /\ u.rec = (t.rec + 1) % SeqMod
      /\ u.taken = IF pkt.kind = "ZLB" THEN t.taken ELSE Append(t.taken, pkt.nth)
      /\ u.call \in Call
  <2>1. LetThrough(t, u, pkt)
    BY <1>1, <1>2, TakeFields
  <2> QED
    BY <2>1 DEF LetThrough, Tunnel
<1>4. CASE ~ InSequence(t, pkt)
  <2>1. r = Refuse(t, e, pkt, "call")
    BY <1>4 DEF HandleOnCall
  <2> QED
    BY <1>2, <2>1, RefuseMoves
<1>5. CASE InSequence(t, pkt) /\ pkt.kind = "ZLB"
  <2>1. PICK g : g = GiveBack(u)
    OBVIOUS
  <2> DEFINE need == g.call.needclose /\ ~ ZlbClears(u.call, u.cLr)
             c == [g.call EXCEPT !.needclose = need]
             w == [g EXCEPT !.call = c]
             x == [g EXCEPT !.call.needclose = @ /\ ~ ZlbClears(u.call, u.cLr)]
  <2>2. r = Quietly(x)
    BY <1>1, <1>5, <2>1 DEF HandleOnCall
  <2>3. /\ g \in Tunnel /\ g.up = u.up /\ g.seq = u.seq /\ g.nsent = u.nsent
        /\ g.queue = u.queue /\ g.needclose = u.needclose /\ g.closing = u.closing
        /\ g.call = u.call /\ g.taken = u.taken /\ g.rec = (u.rec - 1) % SeqMod
    BY <1>3, <2>1, GiveBackFields
  <2>4. need \in BOOLEAN
    OBVIOUS
  <2>5. x = w
    BY <1>3, <2>3 DEF Tunnel, Call
  <2>6. r.st = w /\ r.out = {}
    BY <2>2, <2>5 DEF Quietly
  <2> HIDE DEF need
  <2>7. c \in Call /\ c.up = u.call.up /\ c.closing = u.call.closing
    BY <1>3, <2>3, <2>4 DEF Call
  <2> HIDE DEF c
  <2>8. /\ w \in Tunnel /\ w.up = g.up /\ w.seq = g.seq /\ w.nsent = g.nsent
        /\ w.queue = g.queue /\ w.closing = g.closing
        /\ w.call = c /\ w.taken = g.taken /\ w.rec = g.rec
    BY <2>3, <2>7 DEF Tunnel
  <2> HIDE DEF w
  <2>9. Took(t, w, pkt) /\ CountedOut(t, w, pkt)
    BY <1>3, <1>5, <2>3, <2>7, <2>8 DEF Took, CountedOut, StaysOpen, CallOpen
  <2> QED
    BY <1>5, <2>6, <2>9, TookMoves DEF Answers
<1>6. CASE InSequence(t, pkt) /\ pkt.kind = "CDN"
  <2> DEFINE c == [u.call EXCEPT !.needclose = FALSE, !.closing = TRUE]
             w == [u EXCEPT !.call = c]
  <2>1. [u EXCEPT !.call.needclose = FALSE, !.call.closing = TRUE] = w
    BY <1>3 DEF Tunnel, Call
  <2>2. r.st = w /\ r.out = {Zlb(u, e, "call")}
    BY <1>1, <1>6, <2>1 DEF HandleOnCall
  <2>3. c \in Call /\ c.up = u.call.up /\ c.closing = TRUE
    BY <1>3 DEF Call
  <2> HIDE DEF c
  <2>4. /\ w \in Tunnel /\ w.up = u.up /\ w.seq = u.seq /\ w.nsent = u.nsent
        /\ w.queue = u.queue /\ w.closing = u.closing
        /\ w.call = c /\ w.taken = u.taken /\ w.rec = u.rec
    BY <1>3, <2>3 DEF Tunnel
  <2> HIDE DEF w
  <2>5. Took(t, w, pkt) /\ CountedOut(t, w, pkt) /\ Formed(u, e) /\ u.up
    BY <1>3, <1>6, <2>3, <2>4 DEF Took, CountedOut, StaysOpen, CallOpen, Formed
  <2>6. Answers(r, w, e)
    BY <1>2, <1>3, <2>2, <2>4, <2>5 DEF Answers
  <2> QED
    BY <1>2, <1>6, <2>2, <2>4, <2>5, <2>6, TookMoves
<1> QED
  BY <1>2, <1>4, <1>5, <1>6

\* handle_special.
LEMMA HandleSpecialMoves ==
  ASSUME NEW e \in End, NEW N \in Nat, NEW t, Formed(t, e), t.up,
         NEW pkt \in net, Comes(pkt, e, N),
         pkt.cid = "foreign" \/ ~ t.call.up, NEW r, r = HandleSpecial(t, e, pkt)
  PROVE  Moves(t, r, e, N)
<1>1. PICK w : w = Take(t, pkt)
  OBVIOUS
<1>2. t \in Tunnel /\ pkt \in Packet /\ "foreign" \in CallId
  BY DEF Formed, Comes, From, CallId
<1>9. ~ (NoForeign /\ t.call.up)
  BY DEF NoForeign
<1>3. /\ w \in Tunnel /\ w.up = t.up /\ w.seq = t.seq /\ w.nsent = t.nsent
      /\ w.queue = t.queue /\ w.needclose = t.needclose /\ w.closing = t.closing
      /\ w.call = t.call /\ w.rec = (t.rec + 1) % SeqMod
      /\ w.taken = IF pkt.kind = "ZLB" THEN t.taken ELSE Append(t.taken, pkt.nth)
  <2>1. LetThrough(t, w, pkt)
    BY <1>1, <1>2, TakeFields
  <2> QED
    BY <2>1 DEF LetThrough
<1> DEFINE u == [w EXCEPT !.cnu = TRUE]
<1>4. /\ u \in Tunnel /\ u.up = w.up /\ u.seq = w.seq /\ u.nsent = w.nsent
      /\ u.queue = w.queue /\ u.closing = w.closing
      /\ u.call = w.call /\ u.taken = w.taken /\ u.rec = w.rec
  BY <1>3 DEF Tunnel
<1>5. /\ ~ InSequence(t, pkt) => r = Refuse(t, e, pkt, "foreign")
      /\ InSequence(t, pkt) => r.st = u /\ (r.out = {} \/ r.out = {Zlb(u, e, "foreign")})
  BY <1>1 DEF HandleSpecial, Quietly
<1> HIDE DEF u
<1>6. /\ Took(t, u, pkt) /\ CountedOut(t, u, pkt) /\ Formed(u, e) /\ u.up
      /\ Apt(t, "foreign") /\ Apt(u, "foreign")
  BY <1>3, <1>4, <1>9 DEF Took, CountedOut, StaysOpen, CallOpen, Formed, Apt
<1>7. CASE ~ InSequence(t, pkt)
  BY <1>2, <1>5, <1>6, <1>7, RefuseMoves
<1>8. CASE InSequence(t, pkt)
  <2>1. r.st = u /\ (r.out = {} \/ r.out = {Zlb(u, e, "foreign")})
    BY <1>5, <1>8
  <2>2. Answers(r, u, e)
    BY <1>2, <1>6, <2>1 DEF Answers
  <2> QED
    BY <1>6, <1>8, <2>2, TookMoves
<1> QED
  BY <1>7, <1>8

-----------------------------------------------------------------------------
(* The invariant with a call.                                               *)

NumbersInv ==
  /\ tun \in [End -> Tunnel]
  /\ \A e \in End : Formed(tun[e], e) /\ (Few => Numbers(tun[e], tun[Peer(e)].nsent))
  /\ \A pkt \in net : /\ pkt.from \in End /\ From(pkt, pkt.from)
                      /\ Few => Numbered(pkt, tun[pkt.from].nsent)

\* The end e does what r says.
DoesMove(e, r) == tun[e].up /\ Do(e, r) /\ Moves(tun[e], r, e, tun[Peer(e)].nsent)

\* The invariant holds at the start.
LEMMA NumbersInvInit == Init => NumbersInv
<1> SUFFICES ASSUME Init PROVE NumbersInv
  OBVIOUS
<1>1. net = {} /\ tun = [e \in End |-> tun[e]]
  BY DEF Init
<1>2. tun \in [End -> Tunnel]
  BY <1>1, StartOfEnd
<1>6. ASSUME NEW e \in End, NEW t, t = tun[e]
      PROVE  Formed(t, e) /\ Numbers(t, 0)
  <2>4. /\ t \in Tunnel /\ t.up /\ t.seq = 0 /\ t.rec = 0 /\ t.queue = {} /\ t.nsent = 0
        /\ t.taken = <<>>
    BY <1>6, StartOfEnd
  <2>6. Formed(t, e)
    BY <2>4 DEF Formed
  <2>1. Spent(t) \in Nat
    BY DEF Spent
  <2>2. t.nsent <= MaxSend + Spent(t)
    BY <2>1, <2>4, SendAssumption
  <2>3. Len(t.taken) = 0 /\ 1 .. 0 = {}
    BY <2>4
  <2>7. 1 .. Len(t.taken) = {}
    BY <2>3
  <2>5. t.seq = t.nsent /\ t.rec <= 0 + 1
    BY <2>4
  <2> QED
    BY <2>2, <2>4, <2>5, <2>6, <2>7 DEF Numbers
<1>7. \A e \in End : tun[Peer(e)].nsent = 0
  BY PeerIsOther, StartOfEnd
<1> QED
  BY <1>1, <1>2, <1>6, <1>7 DEF NumbersInv

\* Every step is a move of one end.
LEMMA NextIsMove ==
  ASSUME NumbersInv, Next
  PROVE  \E e \in End : \E r : DoesMove(e, r)
<1>1. PICK e \in End : \/ CloseUnsettled(e) \/ PppdExit(e)
                       \/ HelloTimer(e) \/ RetransmitTimer(e) \/ Receive(e)
                       \/ Disconnect(e) \/ ReadError(e) \/ Terminate(e) \/ Crash(e)
  BY DEF Next
<1>2. PICK t : t = tun[e]
  OBVIOUS
<1>3. PICK N : N = tun[Peer(e)].nsent
  OBVIOUS
<1>4. Formed(t, e) /\ t \in Tunnel /\ N \in Nat /\ t.call \in Call /\ (Few => N <= MaxSend + 2)
  <2>1. Formed(t, e) /\ Formed(tun[Peer(e)], Peer(e)) /\ (Few => Numbers(tun[Peer(e)], t.nsent))
    BY <1>2, PeerIsOther DEF NumbersInv
  <2>2. N \in Nat
    BY <1>3, <2>1 DEF Formed, Tunnel
  <2>3. ASSUME Few PROVE N <= MaxSend + 2
    <3>1. N <= MaxSend + Spent(tun[Peer(e)])
      BY <1>3, <2>1, <2>3 DEF Numbers
    <3>2. Spent(tun[Peer(e)]) \in 0 .. 2
      BY DEF Spent
    <3> QED
      BY <2>2, <3>1, <3>2, SendAssumption
  <2> QED
    BY <2>1, <2>2, <2>3 DEF Formed, Tunnel
<1>5. SUFFICES ASSUME t.up PROVE \E r : Do(e, r) /\ Moves(t, r, e, N)
  <2>1. t.up
    BY <1>1, <1>2 DEF CloseUnsettled, PppdExit, HelloTimer, RetransmitTimer, Receive,
                      Disconnect, ReadError, Terminate, Crash
  <2> QED
    BY <1>2, <1>3, <1>5, <2>1 DEF DoesMove
<1>6. CASE CloseUnsettled(e)
  <2>1. PICK r : r = BuildFdset(t, e) /\ Do(e, r)
    BY <1>2, <1>6 DEF CloseUnsettled
  <2> QED
    BY <1>4, <1>5, <2>1, BuildFdsetMoves
<1>7. CASE PppdExit(e)
  <2> DEFINE c == [t.call EXCEPT !.needclose = TRUE, !.pppd = FALSE]
             u == [t EXCEPT !.call = c]
  <2>1. [t EXCEPT !.call.needclose = TRUE, !.call.pppd = FALSE] = u
    BY <1>4 DEF Tunnel, Call
  <2>2. PICK r : r = BuildFdset(u, e) /\ Do(e, r)
    BY <1>2, <1>7, <2>1 DEF PppdExit
  <2>3. c \in Call /\ c.up = t.call.up /\ c.closing = t.call.closing
    BY <1>4 DEF Call
  <2> HIDE DEF c
  <2>4. /\ u \in Tunnel /\ u.up = t.up /\ u.seq = t.seq /\ u.rec = t.rec /\ u.nsent = t.nsent
        /\ u.taken = t.taken /\ u.queue = t.queue /\ u.closing = t.closing /\ u.call = c
    BY <1>4, <2>3 DEF Tunnel
  <2> HIDE DEF u
  <2>5. Quietens(t, u) /\ Formed(u, e)
    BY <1>4, <2>3, <2>4 DEF Quietens, StaysOpen, CallOpen, Formed
  <2>6. Moves(u, r, e, N)
    BY <1>4, <1>5, <2>2, <2>4, <2>5, BuildFdsetMoves
  <2>7. Moves(t, r, e, N)
    BY <1>4, <2>5, <2>6, MovesFromQuiet
  <2> QED
    BY <2>2, <2>7
<1>8. CASE HelloTimer(e)
  <2>1. PICK r : r = Send(t, e, "Hello", "tunnel") /\ Do(e, r)
    BY <1>2, <1>8 DEF HelloTimer
  <2>2. t.nsent < MaxSend
    BY <1>2, <1>8 DEF HelloTimer
  <2> QED
    BY <1>4, <1>5, <2>1, <2>2, HelloMoves
<1>9. CASE RetransmitTimer(e)
  <2>1. PICK buf \in t.queue : Do(e, ControlXmit(t, e, buf))
    BY <1>2, <1>9 DEF RetransmitTimer
  <2>2. PICK r : r = ControlXmit(t, e, buf) /\ Do(e, r)
    BY <2>1
  <2> QED
    BY <1>4, <1>5, <2>2, ControlXmitMoves
<1>10. CASE Receive(e)
  <2>1. PICK pkt \in net :
          /\ pkt.from = Peer(e)
          /\ \/ pkt.cid = "tunnel" /\ Do(e, HandleOnTunnel(t, e, pkt))
             \/ pkt.cid = "call" /\ t.call.up /\ Do(e, HandleOnCall(t, e, pkt))
             \/ pkt.cid = "call" /\ ~ t.call.up /\ Do(e, HandleSpecial(t, e, pkt))
             \/ pkt.cid = "foreign" /\ Do(e, HandleSpecial(t, e, pkt))
    BY <1>2, <1>10 DEF Receive
  <2>2. Comes(pkt, e, N)
    BY <1>3, <1>4, <2>1 DEF Comes, NumbersInv
  <2>3. CASE pkt.cid = "tunnel" /\ Do(e, HandleOnTunnel(t, e, pkt))
    <3>1. PICK r : r = HandleOnTunnel(t, e, pkt) /\ Do(e, r)
      BY <2>3
    <3> QED
      BY <1>4, <1>5, <2>2, <2>3, <3>1, HandleOnTunnelMoves
  <2>4. CASE pkt.cid = "call" /\ Do(e, HandleOnCall(t, e, pkt))
    <3>1. PICK r : r = HandleOnCall(t, e, pkt) /\ Do(e, r)
      BY <2>4
    <3> QED
      BY <1>4, <1>5, <2>2, <2>4, <3>1, HandleOnCallMoves
  <2>5. CASE (pkt.cid = "foreign" \/ ~ t.call.up) /\ Do(e, HandleSpecial(t, e, pkt))
    <3>1. PICK r : r = HandleSpecial(t, e, pkt) /\ Do(e, r)
      BY <2>5
    <3> QED
      BY <1>4, <1>5, <2>2, <2>5, <3>1, HandleSpecialMoves
  <2> QED
    BY <2>1, <2>3, <2>4, <2>5
<1>11. CASE Disconnect(e)
  <2> DEFINE q == t.queue
             closing == t.closing
  <2>1. PICK r : r = CloseTunnel([t EXCEPT !.needclose = TRUE], e) /\ Do(e, r)
    BY <1>2, <1>11 DEF Disconnect
  <2>2. [t EXCEPT !.queue = q, !.needclose = TRUE, !.closing = closing] = [t EXCEPT !.needclose = TRUE]
    BY <1>4 DEF Tunnel
  <2>3. q \in SUBSET t.queue /\ closing \in BOOLEAN /\ (t.closing => closing) /\ TRUE \in BOOLEAN
    BY <1>4 DEF Tunnel
  <2> HIDE DEF q, closing
  <2>4. r = CloseTunnel([t EXCEPT !.queue = q, !.needclose = TRUE, !.closing = closing], e)
    BY <2>1, <2>2
  <2>5. Moves(t, r, e, N)
    BY <1>4, <1>5, <2>3, <2>4, CloseAlikeMoves
  <2> QED
    BY <2>1, <2>5
<1>12. CASE ReadError(e)
  <2> DEFINE c == [t.call EXCEPT !.needclose = TRUE]
             u == [t EXCEPT !.call = c]
  <2>1. [t EXCEPT !.call.needclose = TRUE] = u
    BY <1>4 DEF Tunnel, Call
  <2>2. PICK r : r = Quietly(u) /\ Do(e, r)
    BY <1>2, <1>12, <2>1 DEF ReadError
  <2>3. c \in Call /\ c.up = t.call.up /\ c.closing = t.call.closing
    BY <1>4 DEF Call
  <2> HIDE DEF c
  <2>4. /\ u \in Tunnel /\ u.up = t.up /\ u.seq = t.seq /\ u.rec = t.rec /\ u.nsent = t.nsent
        /\ u.taken = t.taken /\ u.queue = t.queue /\ u.closing = t.closing /\ u.call = c
    BY <1>4, <2>3 DEF Tunnel
  <2> HIDE DEF u
  <2>5. Quietens(t, u)
    BY <2>3, <2>4 DEF Quietens, StaysOpen, CallOpen
  <2> QED
    BY <1>4, <2>2, <2>5, QuietlyMoves
<1>13. CASE Terminate(e)
  <2>1. PICK c : c = CloseTunnel(t, e)
    OBVIOUS
  <2>2. PICK r : /\ r = Then(c, LAMBDA u : IF u.up THEN CloseTunnel(u, e) ELSE Quietly(u))
                 /\ Do(e, r)
    BY <1>2, <1>13, <2>1 DEF Terminate
  <2>3. Moves(t, c, e, N) /\ Formed(c.st, e)
    BY <1>4, <1>5, <2>1, CloseTunnelMoves DEF Moves
  <2>4. CASE c.st.up
    <3>1. PICK d : d = CloseTunnel(c.st, e)
      OBVIOUS
    <3>2. r.st = d.st /\ r.out = c.out \cup d.out
      BY <2>2, <2>4, <3>1 DEF Then
    <3>3. Moves(c.st, d, e, N)
      BY <1>4, <2>3, <2>4, <3>1, CloseTunnelMoves
    <3>4. Moves(t, r, e, N)
      BY <1>4, <2>3, <3>2, <3>3, MovesOn
    <3> QED
      BY <2>2, <3>4
  <2>5. CASE ~ c.st.up
    <3>1. r.st = c.st /\ r.out = c.out
      BY <2>2, <2>5 DEF Then, Quietly
    <3>2. Moves(t, r, e, N)
      BY <2>3, <3>1 DEF Moves, Calmly
    <3> QED
      BY <2>2, <3>2
  <2> QED
    BY <2>4, <2>5
<1>14. CASE Crash(e)
  <2>1. PICK r : r = Quietly(Destroyed(t)) /\ Do(e, r)
    BY <1>2, <1>14 DEF Crash
  <2> QED
    BY <1>4, <1>5, <2>1, DestroyedMoves
<1> QED
  BY <1>1, <1>6, <1>7, <1>8, <1>9, <1>10, <1>11, <1>12, <1>13, <1>14

\* What the peer's numbers and the packets in flight say of an end only becomes truer.
LEMMA NumbersGrow ==
  ASSUME NEW t \in Tunnel, NEW m \in Nat, NEW n \in Nat, m <= n, Numbers(t, m)
  PROVE  Numbers(t, n)
<1>1. t.rec \in Nat /\ t.taken \in Seq(Nat)
  BY SeqAssumption DEF Tunnel, Seqno
<1>2. \A i \in 1 .. Len(t.taken) : t.taken[i] \in Nat
  BY <1>1
<1> QED
  BY <1>1, <1>2 DEF Numbers

\* A move of one end keeps what both promise, and what is said of the packets in flight.
LEMMA MoveKeepsNumbersInv ==
  ASSUME NumbersInv, NEW e \in End, NEW r, DoesMove(e, r)
  PROVE  NumbersInv'
<1>1. PICK p : p = Peer(e)
  OBVIOUS
<1>2. PICK t : t = tun[e]
  OBVIOUS
<1>3. PICK s : s = tun[p]
  OBVIOUS
<1>4. PICK u : u = r.st
  OBVIOUS
<1>5. /\ p \in End /\ p # e /\ Peer(p) = e /\ \A f \in End : f = e \/ f = p
  BY <1>1, PeerIsOther
<1>6. /\ Formed(t, e) /\ Formed(s, p)
      /\ Few => Numbers(t, s.nsent) /\ Numbers(s, t.nsent)
  BY <1>1, <1>2, <1>3, <1>5 DEF NumbersInv
<1>7. /\ tun' = [tun EXCEPT ![e] = u] /\ net' = net \cup r.out
      /\ Formed(u, e) /\ \A pkt \in r.out : From(pkt, e)
      /\ Few => /\ Numbers(u, s.nsent) /\ t.nsent <= u.nsent
                /\ \A pkt \in r.out : Numbered(pkt, u.nsent)
  BY <1>1, <1>2, <1>3, <1>4, <1>6 DEF DoesMove, Do, Moves
<1>8. /\ s \in Tunnel /\ u \in Tunnel /\ t \in Tunnel
      /\ s.nsent \in Nat /\ t.nsent \in Nat /\ u.nsent \in Nat
  BY <1>6, <1>7 DEF Formed, Tunnel
<1>9. tun'[e] = u /\ tun'[p] = s /\ tun' \in [End -> Tunnel]
  BY <1>3, <1>5, <1>7, <1>8 DEF NumbersInv
<1>10. Few => Numbers(s, u.nsent)
  BY <1>6, <1>7, <1>8, NumbersGrow
<1>11. \A f \in End : Formed(tun'[f], f) /\ (Few => Numbers(tun'[f], tun'[Peer(f)].nsent))
  BY <1>1, <1>5, <1>6, <1>7, <1>9, <1>10
<1>12. \A pkt \in net' : /\ pkt.from \in End /\ From(pkt, pkt.from)
                         /\ Few => Numbered(pkt, tun'[pkt.from].nsent)
  <2> SUFFICES ASSUME NEW pkt \in net'
               PROVE  /\ pkt.from \in End /\ From(pkt, pkt.from)
                      /\ Few => Numbered(pkt, tun'[pkt.from].nsent)
    OBVIOUS
  <2>1. CASE pkt \in r.out
    BY <1>7, <1>9, <2>1 DEF From
  <2>2. CASE pkt \in net
    <3>1. /\ pkt.from \in End /\ From(pkt, pkt.from)
          /\ Few => Numbered(pkt, tun[pkt.from].nsent)
      BY <2>2 DEF NumbersInv
    <3>2. pkt.Ns \in Nat /\ pkt.nth \in Nat
      BY <3>1, SeqAssumption DEF From, Packet, Seqno
    <3>3. CASE pkt.from = e
      <4>1. ASSUME Few PROVE Numbered(pkt, u.nsent)
        <5>1. Numbered(pkt, t.nsent) /\ t.nsent <= u.nsent
          BY <1>2, <1>7, <3>1, <3>3, <4>1
        <5> QED
          BY <1>8, <3>2, <5>1 DEF Numbered
      <4> QED
        BY <1>9, <3>1, <3>3, <4>1
    <3>4. CASE pkt.from = p
      BY <1>3, <1>9, <3>1, <3>4
    <3> QED
      BY <1>5, <3>1, <3>3, <3>4
  <2> QED
    BY <1>7, <2>1, <2>2
<1> QED
  BY <1>9, <1>11, <1>12 DEF NumbersInv

\* A stutter keeps the invariant.
LEMMA NumbersInvStutters == NumbersInv /\ UNCHANGED vars => NumbersInv'
BY DEF NumbersInv, vars

\* The invariant holds in every state, with or without a call.
LEMMA NumbersAreKept == Spec => []NumbersInv
<1>1. Init => NumbersInv
  BY NumbersInvInit
<1>2. NumbersInv /\ [Next]_vars => NumbersInv'
  BY NextIsMove, MoveKeepsNumbersInv, NumbersInvStutters
<1> QED
  BY <1>1, <1>2, PTL DEF Spec

\* Every variable keeps its type.
THEOREM TypeCorrect == Spec => []TypeOK
<1>1. NumbersInv => TypeOK
  BY DEF NumbersInv, TypeOK, From
<1> QED
  BY <1>1, NumbersAreKept, PTL

\* check_control lets every message through in the order it was sent, none of them twice,
\* also where a call's ZLBs move the receive counter.
THEOREM MessagesAreTakenInOrder == Few /\ Spec => []TakenInOrder
<1> SUFFICES ASSUME Few PROVE Spec => []TakenInOrder
  OBVIOUS
<1>1. NumbersInv => TakenInOrder
  <2> SUFFICES ASSUME NumbersInv, NEW e \in End
               PROVE  /\ \A i, j \in DOMAIN tun[e].taken : i < j => tun[e].taken[i] < tun[e].taken[j]
                      /\ \A n \in Nths(tun[e]) : n <= tun[Peer(e)].nsent
    BY DEF TakenInOrder
  <2>1. Numbers(tun[e], tun[Peer(e)].nsent) /\ tun[e].taken \in Seq(Nat)
    BY DEF NumbersInv, Tunnel
  <2>2. DOMAIN tun[e].taken = 1 .. Len(tun[e].taken)
    BY <2>1, LenProperties
  <2> QED
    BY <2>1, <2>2 DEF Numbers, Nths
<1> QED
  BY <1>1, NumbersAreKept, PTL

\* handle_control keeps one number of a call's ZLB at most: the receive counter runs ahead
\* of the peer's messages by one.
THEOREM CounterDriftsByOne == Few /\ Spec => []DriftAtMostOne
<1> SUFFICES ASSUME Few PROVE Spec => []DriftAtMostOne
  OBVIOUS
<1>1. NumbersInv => DriftAtMostOne
  BY DEF NumbersInv, Numbers, DriftAtMostOne
<1> QED
  BY <1>1, NumbersAreKept, PTL

\* While both calls are there, nothing went to handle_special yet.
BothUp == \A e \in End : tun[e].call.up
CalmInv == NumbersInv /\ (Few /\ BothUp => NoForeign /\ \A e \in End : Level(tun[e]))

\* A step of one end keeps that.
LEMMA MoveKeepsCalmInv ==
  ASSUME CalmInv, Few, NEW e \in End, NEW r, DoesMove(e, r)
  PROVE  CalmInv'
<1>1. NumbersInv'
  BY MoveKeepsNumbersInv DEF CalmInv
<1>2. /\ tun' = [tun EXCEPT ![e] = r.st] /\ net' = net \cup r.out
      /\ Moves(tun[e], r, e, tun[Peer(e)].nsent) /\ Numbers(tun[e], tun[Peer(e)].nsent)
      /\ tun \in [End -> Tunnel]
  BY DEF DoesMove, Do, CalmInv, NumbersInv
<1>3. ASSUME BothUp' PROVE NoForeign' /\ \A f \in End : Level(tun'[f])
  <2>1. r.st.call.up /\ \A f \in End : tun[f].call.up
    BY <1>2, <1>3 DEF BothUp, Moves
  <2>2. NoForeign /\ \A f \in End : Level(tun[f])
    BY <2>1 DEF CalmInv, BothUp
  <2>3. Level(r.st) /\ \A pkt \in r.out : pkt.cid # "foreign"
    BY <1>2, <2>1, <2>2 DEF Moves, Calmly
  <2> QED
    BY <1>2, <2>2, <2>3 DEF NoForeign
<1> QED
  BY <1>1, <1>3 DEF CalmInv, Level

\* handle_control counts every ZLB out again while both ends have the call, whatever is
\* lost, repeated or overtaken; only handle_special keeps one (control.c:1750).
THEOREM CountedOutWithCalls == Few /\ Spec => []CountedOutWhileCallsLive
<1> SUFFICES ASSUME Few PROVE Spec => []CountedOutWhileCallsLive
  OBVIOUS
<1>1. Init => CalmInv
  <2> SUFFICES ASSUME Init PROVE CalmInv
    OBVIOUS
  <2>1. NumbersInv /\ net = {}
    BY NumbersInvInit DEF Init
  <2>2. \A e \in End : tun[e].rec = 0 /\ tun[e].taken = <<>>
    BY StartOfEnd
  <2> QED
    BY <2>1, <2>2 DEF CalmInv, NoForeign, Level
<1>2. CalmInv /\ [Next]_vars => CalmInv'
  <2>1. CalmInv /\ Next => CalmInv'
    BY NextIsMove, MoveKeepsCalmInv DEF CalmInv
  <2>2. CalmInv /\ UNCHANGED vars => CalmInv'
    BY NumbersInvStutters DEF CalmInv, vars, BothUp, NoForeign, Level
  <2> QED
    BY <2>1, <2>2
<1>3. CalmInv => CountedOutWhileCallsLive
  <2> SUFFICES ASSUME CalmInv, NEW e \in End, tun[e].call.up, tun[Peer(e)].call.up
               PROVE  tun[e].rec = Len(tun[e].taken)
    BY DEF CountedOutWhileCallsLive
  <2>1. BothUp
    BY PeerIsOther DEF BothUp
  <2> QED
    BY <2>1 DEF CalmInv, Level
<1> QED
  BY <1>1, <1>2, <1>3, PTL DEF Spec

-----------------------------------------------------------------------------
(* Without a call.                                                          *)

\* The tunnels the theorems are about: an end sends at most MaxSend messages and StopCCN.
NoWrap == ~ WithCall /\ MaxSend + 1 < SeqMod

-----------------------------------------------------------------------------
(* The invariant, one tunnel at a time.                                     *)

\* A packet that the end with tunnel record t has sent.
SentBy(pkt, t) ==
  /\ pkt \in Packet
  /\ pkt.cid = "tunnel" /\ pkt.kind # "CDN"
  /\ pkt.Nr <= Len(t.taken)
  /\ pkt.kind # "ZLB" => pkt.nth = pkt.Ns + 1 /\ pkt.nth <= t.nsent
  /\ pkt.kind = "ZLB" => pkt.nth = 0

\* Its counters are the numbers of messages sent and taken, which come in order.
Counts(t) ==
  /\ t \in Tunnel
  /\ t.call = NoCall
  /\ t.nsent <= MaxSend + 1
  /\ \A i \in 1 .. Len(t.taken) : t.taken[i] = i
  /\ t.up => t.seq = t.nsent /\ t.rec = Len(t.taken)
  /\ t.up /\ ~ t.closing => t.nsent <= MaxSend
  /\ \A b \in t.queue : b.pkt.kind # "ZLB" /\ SentBy(b.pkt, t)

\* What it knows of its peer, which has taken T of its messages and has sent N.
Knows(t, T, N) ==
  /\ Len(t.taken) <= N
  /\ T <= t.nsent
  /\ t.up => t.cLr <= T

\* What the peer has not taken is queued, until the tunnel closes.
Keeps(t, T) ==
  t.up /\ ~ t.closing =>
    \A n \in 1 .. t.nsent : n <= T \/ \E b \in t.queue : b.pkt.nth = n

TunnelInv(t, T, N) == Counts(t) /\ Knows(t, T, N) /\ Keeps(t, T)

Inv ==
  /\ TypeOK
  /\ \A e \in End : LET p == Peer(e) IN
       TunnelInv(tun[e], Len(tun[p].taken), tun[p].nsent)
  /\ \A e \in End : \A b \in tun[e].queue : b.pkt.from = e
  /\ \A pkt \in net : pkt.from \in End /\ SentBy(pkt, tun[pkt.from])

-----------------------------------------------------------------------------
(* The handlers.                                                            *)

\* A handler's result r is a step of end e from the record t, of one of three kinds.
Sends(t, u)    == u.taken = t.taken /\ u.nsent = t.nsent + 1
Stays(t, u)    == u.taken = t.taken /\ u.nsent = t.nsent
Takes(t, u, N) == /\ u.taken = Append(t.taken, Len(t.taken) + 1) /\ u.nsent = t.nsent
                  /\ Len(t.taken) < N

StepOf(t, r, e, T, N) ==
  /\ TunnelInv(r.st, T, N)
  /\ Stays(t, r.st) \/ Sends(t, r.st) \/ Takes(t, r.st, N)
  /\ \A b \in r.st.queue : b.pkt.from = e
  /\ \A pkt \in r.out : pkt.from = e /\ SentBy(pkt, r.st)

\* A packet stays sent when its sender's counters grow.
LEMMA SentByGrows ==
  ASSUME NEW pkt, NEW t \in Tunnel, NEW u \in Tunnel, SentBy(pkt, t),
         Len(t.taken) <= Len(u.taken), t.nsent <= u.nsent
  PROVE  SentBy(pkt, u)
<1>1. Len(t.taken) \in Nat /\ Len(u.taken) \in Nat /\ t.nsent \in Nat /\ u.nsent \in Nat
  BY LenProperties DEF Tunnel
<1>2. pkt.Nr \in Nat /\ pkt.nth \in Nat
  BY SeqAssumption DEF SentBy, Packet, Seqno
<1> QED
  BY <1>1, <1>2 DEF SentBy

-----------------------------------------------------------------------------
(* Sending.                                                                 *)

\* r is the step from t to u that sends pkt, a message of e, and queues it.
Queues(t, r, e, kind, pkt, u) ==
  /\ pkt.from = e /\ pkt.nth = t.nsent + 1 /\ pkt.kind = kind
  /\ r = [st |-> u, out |-> {pkt}]
  /\ u = [t EXCEPT !.seq = t.nsent + 1, !.nsent = t.nsent + 1,
                   !.queue = t.queue \cup {[pkt |-> pkt, retries |-> 1]}]
  /\ SentBy(pkt, u)

\* add_control_hdr and control_xmit: the message takes the next number and is queued,
\* for the peer cannot have acknowledged it yet.
LEMMA SendQueues ==
  ASSUME NoWrap, NEW e \in End, NEW kind \in {"Hello", "StopCCN"},
         NEW t, Counts(t), t.up, t.nsent <= MaxSend, t.cLr <= t.nsent,
         NEW r, r = Send(t, e, kind, "tunnel")
  PROVE  \E pkt \in Packet, u \in Tunnel : Queues(t, r, e, kind, pkt, u)
<1> DEFINE pkt == [from |-> e, nth |-> t.nsent + 1, Ns |-> t.seq, Nr |-> t.rec,
                   kind |-> kind, cid |-> "tunnel"]
           buf == [pkt |-> pkt, retries |-> 1]
           sent == [t EXCEPT !.seq = (@ + 1) % SeqMod, !.nsent = @ + 1]
           st == [t EXCEPT !.seq = t.nsent + 1, !.nsent = t.nsent + 1,
                           !.queue = t.queue \cup {buf}]
<1>1. /\ t \in Tunnel /\ t.seq = t.nsent /\ t.rec = Len(t.taken)
      /\ t.nsent \in Nat /\ t.cLr \in Nat /\ t.seq \in Seqno /\ t.rec \in Seqno
      /\ t.queue \subseteq Buffer
  BY SeqAssumption DEF Counts, Tunnel, Seqno
<1>2. t.nsent + 1 < SeqMod /\ (t.seq + 1) % SeqMod = t.nsent + 1 /\ t.nsent + 1 \in Seqno
  <2>1. t.nsent + 1 \in Nat /\ t.nsent + 1 < SeqMod
    BY <1>1, SeqAssumption, SendAssumption DEF NoWrap
  <2>2. t.nsent + 1 \in Seqno
    BY <2>1, SeqAssumption DEF Seqno
  <2>3. (t.nsent + 1) % SeqMod = t.nsent + 1
    BY <2>1, ModSmall, SeqAssumption
  <2> QED
    BY <1>1, <2>1, <2>2, <2>3
<1>3. pkt \in Packet
  BY <1>1 DEF Packet, Kind, CallId
<1>4. buf \in Buffer
  BY <1>3, RetryAssumption DEF Buffer
<1>5. ~ HasReceived(t.cLr, pkt)
  BY <1>1 DEF HasReceived
<1>6. r = [st |-> [sent EXCEPT !.queue = @ \cup {buf}], out |-> {pkt}]
  BY <1>5 DEF Send
<1>7. [sent EXCEPT !.queue = @ \cup {buf}] = st
  BY <1>1, <1>2 DEF Tunnel
<1>8. r = [st |-> st, out |-> {pkt}]
  <2> HIDE DEF st, sent, buf, pkt
  <2> QED
    BY <1>6, <1>7
<1>9. st \in Tunnel
  <2> DEFINE q == t.queue \cup {buf}
             n == t.nsent + 1
  <2>1. q \in SUBSET Buffer /\ n \in Seqno /\ n \in Nat
    BY <1>1, <1>2, <1>4
  <2>2. st = [t EXCEPT !.seq = n, !.nsent = n, !.queue = q]
    OBVIOUS
  <2> HIDE DEF q, n, buf, st
  <2> QED
    BY <1>1, <2>1, <2>2 DEF Tunnel
<1>10. SentBy(pkt, st)
  <2>1. st.taken = t.taken /\ st.nsent = t.nsent + 1
    BY <1>1 DEF Tunnel
  <2>2. Len(t.taken) \in Nat
    BY <1>1, LenProperties DEF Tunnel
  <2> QED
    BY <1>1, <1>3, <2>1, <2>2 DEF SentBy
<1> QED
  <2>1. Queues(t, r, e, kind, pkt, st)
    BY <1>8, <1>10 DEF Queues
  <2> HIDE DEF pkt, st
  <2> QED
    BY <1>3, <1>9, <2>1
-----------------------------------------------------------------------------
(* Closing.                                                                 *)

\* A tunnel record that was destroyed keeps the invariant, with no promise left in it.
LEMMA GoneIsStep ==
  ASSUME NEW e \in End, NEW T \in Nat, NEW N \in Nat,
         NEW t, Counts(t), Knows(t, T, N), NEW r, r = Quietly(Destroyed(t))
  PROVE  /\ StepOf(t, r, e, T, N)
         /\ r = [st |-> Destroyed(t), out |-> {}]
         /\ ~ r.st.up /\ Stays(t, r.st)
<1> DEFINE u == Destroyed(t)
<1>1. /\ u \in Tunnel /\ u.up = FALSE /\ u.queue = {} /\ u.call = NoCall
      /\ u.nsent = t.nsent /\ u.taken = t.taken
  BY DestroyedIsOne DEF Counts
<1>2. r = [st |-> u, out |-> {}]
  BY DEF Quietly
<1> HIDE DEF u
<1>3. Counts(u)
  BY <1>1 DEF Counts
<1>4. Knows(u, T, N) /\ Keeps(u, T)
  BY <1>1 DEF Knows, Keeps
<1>5. StepOf(t, r, e, T, N) /\ ~ r.st.up /\ Stays(t, r.st)
  BY <1>1, <1>2, <1>3, <1>4 DEF StepOf, TunnelInv, Stays
<1> QED
  BY <1>2, <1>5 DEF u

\* call_close on the self call: a tunnel that was closing is destroyed, another one
\* sends its StopCCN and is closing then.
LEMMA CloseTunnelIsStep ==
  ASSUME NoWrap, NEW e \in End, NEW T \in Nat, NEW N \in Nat,
         NEW t, Counts(t), Knows(t, T, N), t.up,
         NEW r, r = CloseTunnel(t, e)
  PROVE  /\ StepOf(t, r, e, T, N)
         /\ t.closing => r = [st |-> Destroyed(t), out |-> {}] /\ ~ r.st.up /\ Stays(t, r.st)
         /\ ~ t.closing => r.st.up /\ r.st.closing /\ Sends(t, r.st)
<1>1. /\ t \in Tunnel /\ t.nsent \in Nat /\ t.cLr \in Nat /\ Len(t.taken) \in Nat
      /\ t.seq \in Seqno /\ t.seq = t.nsent
  BY SeqAssumption, LenProperties DEF Counts, Tunnel, Seqno
<1>2. CASE t.closing
  BY <1>2, GoneIsStep DEF CloseTunnel
<1>3. CASE ~ t.closing
  <2> DEFINE v == [t EXCEPT !.queue = {}, !.closeSs = t.seq]
             q == Send(v, e, "StopCCN", "tunnel")
  <2>1. /\ v \in Tunnel /\ v.up /\ v.closing = FALSE /\ v.nsent = t.nsent /\ v.cLr = t.cLr
        /\ v.taken = t.taken /\ v.seq = t.seq /\ v.rec = t.rec /\ v.queue = {}
        /\ v.call = t.call
    <3> DEFINE none == {}
    <3>1. none \in SUBSET Buffer
      OBVIOUS
    <3>2. v = [t EXCEPT !.queue = none, !.closeSs = t.seq]
      OBVIOUS
    <3> HIDE DEF none, v
    <3>3. /\ v \in Tunnel /\ v.up = t.up /\ v.closing = t.closing /\ v.nsent = t.nsent
          /\ v.cLr = t.cLr /\ v.taken = t.taken /\ v.seq = t.seq /\ v.rec = t.rec
          /\ v.queue = none /\ v.call = t.call
      BY <1>1, <3>1, <3>2 DEF Tunnel
    <3>4. t.closing \in BOOLEAN
      BY <1>1 DEF Tunnel
    <3> QED
      BY <1>3, <3>3, <3>4 DEF none
  <2>2. t.nsent <= MaxSend /\ t.cLr <= t.nsent
    <3>1. t.nsent <= MaxSend
      BY <1>3 DEF Counts
    <3>2. t.cLr <= T /\ T <= t.nsent
      BY DEF Knows
    <3> QED
      BY <1>1, <3>1, <3>2
  <2>3. r = [q EXCEPT !.st.closing = TRUE, !.st.call = NoCall]
    BY <1>3 DEF CloseTunnel
  <2> HIDE DEF v
  <2>4. Counts(v)
    BY <2>1, <2>2 DEF Counts
  <2>5. PICK pkt \in Packet, w \in Tunnel : Queues(v, q, e, "StopCCN", pkt, w)
    <3>1. q = Send(v, e, "StopCCN", "tunnel") /\ "StopCCN" \in {"Hello", "StopCCN"}
      OBVIOUS
    <3>2. v.nsent <= MaxSend /\ v.cLr <= v.nsent /\ v.up
      BY <2>1, <2>2
    <3> HIDE DEF q
    <3> QED
      BY <2>4, <3>1, <3>2, SendQueues
  <2> DEFINE buf == [pkt |-> pkt, retries |-> 1]
             u == [w EXCEPT !.closing = TRUE, !.call = NoCall]
  <2> HIDE DEF q
  <2>6. r = [st |-> u, out |-> {pkt}]
    <3> DEFINE out == {pkt}
               x == [w EXCEPT !.closing = TRUE]
    <3>1. q = [st |-> w, out |-> out] /\ q.st = w
      BY <2>5 DEF Queues
    <3> HIDE DEF out, u
    <3>2. r = [[q EXCEPT !.st = x] EXCEPT !.st.call = NoCall]
      BY <2>3, <3>1
    <3> HIDE DEF x
    <3>3. r = [st |-> [x EXCEPT !.call = NoCall], out |-> out]
      BY <3>1, <3>2
    <3> QED
      BY <3>3 DEF out, u, x
  <2>7. /\ w.up /\ w.seq = t.nsent + 1 /\ w.nsent = t.nsent + 1 /\ w.rec = t.rec
        /\ w.cLr = t.cLr /\ w.taken = t.taken /\ w.queue = {buf}
    BY <2>1, <2>5 DEF Tunnel, Queues
  <2>8. /\ u \in Tunnel /\ u.up = w.up /\ u.closing = TRUE /\ u.call = NoCall
        /\ u.seq = w.seq /\ u.nsent = w.nsent /\ u.rec = w.rec /\ u.cLr = w.cLr
        /\ u.taken = w.taken /\ u.queue = w.queue
    <3> DEFINE c == NoCall
    <3>1. c \in Call
      BY NoCallFields
    <3>2. u = [w EXCEPT !.closing = TRUE, !.call = c]
      OBVIOUS
    <3> HIDE DEF c, u
    <3>3. /\ u \in Tunnel /\ u.up = w.up /\ u.closing = TRUE /\ u.call = c
          /\ u.seq = w.seq /\ u.nsent = w.nsent /\ u.rec = w.rec /\ u.cLr = w.cLr
          /\ u.taken = w.taken /\ u.queue = w.queue
      BY <3>1, <3>2 DEF Tunnel
    <3> QED
      BY <3>3 DEF c
  <2> HIDE DEF u
  <2>9. SentBy(pkt, u)
    BY <2>5, <2>7, <2>8 DEF SentBy, Queues
  <2>10. buf.pkt = pkt /\ u.queue = {buf}
    BY <2>7, <2>8
  <2> HIDE DEF buf
  <2>11. Counts(u)
    BY <1>1, <2>2, <2>5, <2>7, <2>8, <2>9, <2>10, SendAssumption DEF Counts, Queues
  <2>12. Knows(u, T, N) /\ Keeps(u, T)
    BY <1>1, <2>7, <2>8 DEF Knows, Keeps
  <2>13. Sends(t, u)
    BY <2>7, <2>8 DEF Sends
  <2>14. r.st = u /\ r.out = {pkt}
    BY <2>6
  <2>15. StepOf(t, r, e, T, N)
    BY <2>5, <2>9, <2>10, <2>11, <2>12, <2>13, <2>14 DEF StepOf, TunnelInv, Queues
  <2> QED
    BY <1>3, <2>7, <2>8, <2>13, <2>14, <2>15
<1> QED
  BY <1>1, <1>2, <1>3 DEF Tunnel

-----------------------------------------------------------------------------
(* Timers.                                                                  *)

\* hello.
LEMMA HelloIsStep ==
  ASSUME NoWrap, NEW e \in End, NEW T \in Nat, NEW N \in Nat,
         NEW t, TunnelInv(t, T, N), t.up, ~ t.closing, t.nsent < MaxSend,
         \A b \in t.queue : b.pkt.from = e,
         NEW r, r = Send(t, e, "Hello", "tunnel")
  PROVE  StepOf(t, r, e, T, N)
<1>1. /\ t \in Tunnel /\ t.nsent \in Nat /\ t.cLr \in Nat /\ Len(t.taken) \in Nat
      /\ t.seq = t.nsent
  BY SeqAssumption, LenProperties DEF TunnelInv, Counts, Tunnel, Seqno
<1>2. Counts(t) /\ Knows(t, T, N) /\ Keeps(t, T) /\ t.cLr <= t.nsent /\ t.nsent <= MaxSend
  BY <1>1, SendAssumption DEF TunnelInv, Knows
<1>3. PICK pkt \in Packet, u \in Tunnel : Queues(t, r, e, "Hello", pkt, u)
  BY <1>2, SendQueues
<1> DEFINE buf == [pkt |-> pkt, retries |-> 1]
<1>4. /\ u.up = t.up /\ u.seq = t.nsent + 1 /\ u.nsent = t.nsent + 1 /\ u.rec = t.rec
      /\ u.cLr = t.cLr /\ u.taken = t.taken /\ u.queue = t.queue \cup {buf}
      /\ u.closing = t.closing /\ u.call = t.call
  BY <1>1, <1>3 DEF Queues, Tunnel
<1>5. /\ buf.pkt = pkt /\ pkt.from = e /\ pkt.kind = "Hello" /\ pkt.nth = t.nsent + 1
      /\ SentBy(pkt, u) /\ r.st = u /\ r.out = {pkt}
  BY <1>3 DEF Queues
<1> HIDE DEF buf
<1>6. \A b \in t.queue : SentBy(b.pkt, u)
  BY <1>1, <1>2, <1>4, SentByGrows DEF Counts
<1>7. Counts(u)
  BY <1>1, <1>2, <1>4, <1>5, <1>6, SendAssumption DEF Counts
<1>8. Knows(u, T, N)
  BY <1>1, <1>2, <1>4 DEF Knows
<1>9. Keeps(u, T)
  <2> SUFFICES ASSUME NEW n \in 1 .. t.nsent + 1, ~ (n <= T)
               PROVE  \E b \in u.queue : b.pkt.nth = n
    BY <1>4 DEF Keeps
  <2>1. CASE n = t.nsent + 1
    BY <1>4, <1>5, <2>1
  <2>2. CASE n # t.nsent + 1
    <3>1. n \in 1 .. t.nsent
      BY <1>1, <2>2
    <3> QED
      BY <1>2, <1>4, <3>1 DEF Keeps
  <2> QED
    BY <2>1, <2>2
<1> QED
  BY <1>4, <1>5, <1>7, <1>8, <1>9 DEF StepOf, TunnelInv, Sends

\* A handler that only drops buffers the peer has received, or closes the tunnel.
LEMMA QuietIsStep ==
  ASSUME NEW T \in Nat, NEW N \in Nat, NEW t, TunnelInv(t, T, N), t.up,
         NEW u \in Tunnel, u.up, u.seq = t.seq, u.rec = t.rec, u.cLr <= T,
         u.call = t.call, u.nsent = t.nsent, u.taken = t.taken, t.closing => u.closing,
         \A b \in u.queue : \E d \in t.queue : b.pkt = d.pkt,
         \A d \in t.queue : d.pkt.nth <= T \/ \E b \in u.queue : b.pkt = d.pkt
  PROVE  /\ TunnelInv(u, T, N) /\ Stays(t, u)
         /\ \A pkt : SentBy(pkt, t) => SentBy(pkt, u)
<1>1. \A pkt : SentBy(pkt, t) => SentBy(pkt, u)
  BY DEF SentBy
<1>2. Counts(u)
  BY <1>1 DEF Counts, TunnelInv
<1>3. Knows(u, T, N)
  BY DEF Knows, TunnelInv
<1>4. Keeps(u, T)
  BY DEF Keeps, TunnelInv
<1> QED
  BY <1>1, <1>2, <1>3, <1>4 DEF TunnelInv, Stays

\* A step counts the same from two records with the same ghosts.
LEMMA StepFromAlike ==
  ASSUME NEW t, NEW x, NEW r, NEW e, NEW T, NEW N, StepOf(x, r, e, T, N),
         x.taken = t.taken, x.nsent = t.nsent
  PROVE  StepOf(t, r, e, T, N)
BY DEF StepOf, Stays, Sends, Takes

\* call_close after control_xmit's last try, or after lac_disconnect: only the flags and
\* the queue of the tunnel have changed, and call_close does not look at the queue.
LEMMA CloseAlikeIsStep ==
  ASSUME NoWrap, NEW e \in End, NEW T \in Nat, NEW N \in Nat,
         NEW t, TunnelInv(t, T, N), t.up,
         NEW q \in SUBSET t.queue, NEW need \in BOOLEAN, NEW closing \in BOOLEAN,
         t.closing => closing,
         NEW r, r = CloseTunnel([t EXCEPT !.queue = q, !.needclose = need, !.closing = closing], e)
  PROVE  StepOf(t, r, e, T, N)
<1> DEFINE x == [t EXCEPT !.queue = q, !.needclose = need, !.closing = closing]
<1>1. t \in Tunnel /\ q \in SUBSET Buffer
  BY DEF TunnelInv, Counts, Tunnel
<1>2. /\ x \in Tunnel /\ x.up = t.up /\ x.seq = t.seq /\ x.rec = t.rec /\ x.cLr = t.cLr
      /\ x.call = t.call /\ x.nsent = t.nsent /\ x.taken = t.taken
      /\ x.closing = closing /\ x.queue = q
  BY <1>1 DEF Tunnel
<1>3. r = CloseTunnel(x, e)
  OBVIOUS
<1> HIDE DEF x
<1>4. \A b \in q : b.pkt.kind # "ZLB" /\ SentBy(b.pkt, x)
  BY <1>2 DEF TunnelInv, Counts, SentBy
<1>5. Counts(x) /\ Knows(x, T, N)
  BY <1>2, <1>4 DEF TunnelInv, Counts, Knows
<1>6. StepOf(x, r, e, T, N)
  BY <1>2, <1>3, <1>5, CloseTunnelIsStep
<1> QED
  BY <1>2, <1>6, StepFromAlike

\* control_xmit of a queued buffer, which drops it, sends it again or gives up.
LEMMA ControlXmitIsStep ==
  ASSUME NoWrap, NEW e \in End, NEW T \in Nat, NEW N \in Nat,
         NEW t, TunnelInv(t, T, N), t.up, \A b \in t.queue : b.pkt.from = e,
         NEW buf \in t.queue, NEW r, r = ControlXmit(t, e, buf)
  PROVE  StepOf(t, r, e, T, N)
<1> DEFINE rest == [t EXCEPT !.queue = @ \ {buf}]
           q == t.queue \ {buf}
<1>1. /\ t \in Tunnel /\ buf \in Buffer /\ buf.pkt \in Packet /\ buf.retries \in 1 .. MaxRetries
      /\ t.cLr <= T /\ t.cLr \in Nat /\ t.queue \in SUBSET Buffer
  BY SeqAssumption DEF TunnelInv, Counts, Knows, Tunnel, Buffer, Seqno
<1>2. buf.pkt.kind # "ZLB" /\ SentBy(buf.pkt, t) /\ buf.pkt.from = e
  BY DEF TunnelInv, Counts
<1>3. /\ rest \in Tunnel /\ rest.up = t.up /\ rest.seq = t.seq /\ rest.rec = t.rec
      /\ rest.cLr = t.cLr /\ rest.call = t.call /\ rest.nsent = t.nsent
      /\ rest.taken = t.taken /\ rest.closing = t.closing /\ rest.queue = q
  <2>1. q \in SUBSET Buffer /\ rest = [t EXCEPT !.queue = q]
    BY <1>1
  <2> HIDE DEF q, rest
  <2> QED
    BY <1>1, <2>1 DEF Tunnel
<1>4. CASE HasReceived(t.cLr, buf.pkt)
  <2>1. r = [st |-> rest, out |-> {}]
    BY <1>4 DEF ControlXmit, Quietly
  <2>2. buf.pkt.nth <= T
    <3>1. buf.pkt.Ns \in Nat /\ buf.pkt.Ns < t.cLr /\ buf.pkt.nth = buf.pkt.Ns + 1
      BY <1>1, <1>2, <1>4, SeqAssumption DEF HasReceived, SentBy, Packet, Seqno
    <3> QED
      BY <1>1, <3>1
  <2> HIDE DEF rest
  <2>3. TunnelInv(rest, T, N) /\ Stays(t, rest)
    BY <1>1, <1>3, <2>2, QuietIsStep
  <2> QED
    BY <1>3, <2>1, <2>3 DEF StepOf
<1>5. CASE ~ HasReceived(t.cLr, buf.pkt) /\ MayRetry(buf)
  <2> DEFINE again == [buf EXCEPT !.retries = @ + 1]
             u == [rest EXCEPT !.queue = @ \cup {again}]
             p == buf.pkt
  <2>1. again \in Buffer /\ again.pkt = p
    BY <1>1, <1>5, RetryAssumption DEF MayRetry, Buffer
  <2>2. r = [st |-> u, out |-> {p}]
    BY <1>5 DEF ControlXmit
  <2> HIDE DEF again, rest
  <2>3. /\ u \in Tunnel /\ u.up = t.up /\ u.seq = t.seq /\ u.rec = t.rec
        /\ u.cLr = t.cLr /\ u.call = t.call /\ u.nsent = t.nsent
        /\ u.taken = t.taken /\ u.closing = t.closing /\ u.queue = q \cup {again}
    <3> DEFINE k == q \cup {again}
    <3>1. k \in SUBSET Buffer /\ u = [rest EXCEPT !.queue = k]
      BY <1>1, <1>3, <2>1
    <3> HIDE DEF k, u
    <3>2. /\ u \in Tunnel /\ u.up = rest.up /\ u.seq = rest.seq /\ u.rec = rest.rec
          /\ u.cLr = rest.cLr /\ u.call = rest.call /\ u.nsent = rest.nsent
          /\ u.taken = rest.taken /\ u.closing = rest.closing /\ u.queue = k
      BY <1>3, <3>1 DEF Tunnel
    <3> QED
      BY <1>3, <3>2 DEF k
  <2> HIDE DEF u
  <2>4. /\ TunnelInv(u, T, N) /\ Stays(t, u)
        /\ \A pkt : SentBy(pkt, t) => SentBy(pkt, u)
    <3>1. \A b \in u.queue : \E d \in t.queue : b.pkt = d.pkt
      BY <1>1, <2>1, <2>3
    <3>2. \A d \in t.queue : d.pkt.nth <= T \/ \E b \in u.queue : b.pkt = d.pkt
      BY <2>1, <2>3
    <3>3. u.cLr <= T /\ u.up /\ (t.closing => u.closing)
      BY <1>1, <2>3 DEF TunnelInv, Knows
    <3> HIDE DEF p, q
    <3> QED
      BY <1>1, <2>3, <3>1, <3>2, <3>3, QuietIsStep
  <2> QED
    BY <1>2, <2>1, <2>2, <2>3, <2>4 DEF StepOf
<1>6. CASE ~ HasReceived(t.cLr, buf.pkt) /\ ~ MayRetry(buf)
  <2>1. r = GiveUp(rest, e)
    BY <1>6 DEF ControlXmit
  <2>2. CASE t.needclose
    <3>1. r = CloseTunnel([t EXCEPT !.queue = q, !.needclose = FALSE, !.closing = TRUE], e)
      BY <1>1, <2>1, <2>2 DEF GiveUp, Tunnel
    <3> QED
      BY <3>1, CloseAlikeIsStep
  <2>3. CASE ~ t.needclose
    <3> DEFINE c == t.closing
    <3>1. r = CloseTunnel([t EXCEPT !.queue = q, !.needclose = TRUE, !.closing = c], e)
      BY <1>1, <2>1, <2>3 DEF GiveUp, Tunnel
    <3>2. c \in BOOLEAN
      BY <1>1 DEF Tunnel
    <3> HIDE DEF c
    <3> QED
      BY <3>1, <3>2, CloseAlikeIsStep DEF c
  <2> QED
    BY <2>2, <2>3
<1> QED
  BY <1>4, <1>5, <1>6

-----------------------------------------------------------------------------
(* Packets.                                                                 *)

\* control_zlb.
LEMMA ZlbIsSent ==
  ASSUME NEW e \in End, NEW t, Counts(t), t.up
  PROVE  Zlb(t, e, "tunnel").from = e /\ SentBy(Zlb(t, e, "tunnel"), t)
<1> DEFINE z == Zlb(t, e, "tunnel")
<1>1. t.seq \in Seqno /\ t.rec \in Seqno /\ t.rec = Len(t.taken) /\ t.rec <= Len(t.taken)
  BY SeqAssumption DEF Counts, Tunnel, Seqno
<1>2. z = [from |-> e, nth |-> 0, Ns |-> t.seq, Nr |-> t.rec, kind |-> "ZLB", cid |-> "tunnel"]
  BY DEF Zlb
<1>3. z \in Packet
  BY <1>1, <1>2 DEF Packet, Kind, CallId
<1> QED
  BY <1>1, <1>2, <1>3 DEF SentBy

\* network_thread's last step acknowledges what u holds.
LEMMA AcknowledgeIsQuiet ==
  ASSUME NEW e \in End, NEW T \in Nat, NEW N \in Nat, NEW u, TunnelInv(u, T, N), u.up,
         NEW r, r = Acknowledge(u, e, "tunnel")
  PROVE  /\ TunnelInv(r.st, T, N) /\ Stays(u, r.st) /\ r.st.queue = u.queue
         /\ r.out = {Zlb(u, e, "tunnel")}
         /\ \A pkt \in r.out : pkt.from = e /\ SentBy(pkt, r.st)
<1> DEFINE v == [u EXCEPT !.cnu = FALSE]
<1>1. u \in Tunnel /\ Counts(u) /\ u.cLr <= T
  BY DEF TunnelInv, Counts, Knows
<1>2. r.st = v /\ r.out = {Zlb(u, e, "tunnel")}
  BY DEF Acknowledge
<1>3. /\ v \in Tunnel /\ v.up = u.up /\ v.seq = u.seq /\ v.rec = u.rec
      /\ v.cLr = u.cLr /\ v.call = u.call /\ v.nsent = u.nsent
      /\ v.taken = u.taken /\ v.closing = u.closing /\ v.queue = u.queue
  BY <1>1 DEF Tunnel
<1> HIDE DEF v
<1>4. /\ TunnelInv(v, T, N) /\ Stays(u, v)
      /\ \A pkt : SentBy(pkt, u) => SentBy(pkt, v)
  BY <1>1, <1>3, QuietIsStep
<1>5. Zlb(u, e, "tunnel").from = e /\ SentBy(Zlb(u, e, "tunnel"), u)
  BY <1>1, ZlbIsSent
<1> QED
  BY <1>2, <1>3, <1>4, <1>5

\* A message is let through, and its handler sets the flags of the tunnel.
TakeAnd(t, pkt, need, closing) ==
  [Take(t, pkt) EXCEPT !.needclose = need, !.closing = closing]

\* check_control lets a message through: it is the next one of the peer, which has
\* sent N of them.
LEMMA TakeTakesNext ==
  ASSUME NoWrap, NEW e \in End, NEW T \in Nat, NEW N \in Nat, N <= MaxSend + 1,
         NEW t, TunnelInv(t, T, N), t.up,
         NEW pkt \in Packet, InSequence(t, pkt), pkt.kind # "ZLB",
         pkt.nth = pkt.Ns + 1, pkt.nth <= N, pkt.Nr <= T,
         NEW need \in BOOLEAN, NEW closing \in BOOLEAN, t.closing => closing,
         NEW u, u = TakeAnd(t, pkt, need, closing)
  PROVE  TunnelInv(u, T, N) /\ u.up /\ Takes(t, u, N) /\ u.queue = t.queue
<1>1. /\ t \in Tunnel /\ Counts(t) /\ Knows(t, T, N) /\ Keeps(t, T)
      /\ t.taken \in Seq(Nat) /\ Len(t.taken) \in Nat /\ t.rec = Len(t.taken)
  BY LenProperties DEF TunnelInv, Counts, Tunnel
<1>2. pkt.Ns \in Nat /\ pkt.Nr \in Seqno /\ pkt.nth \in Nat
  BY SeqAssumption DEF Packet, Seqno
<1>3. pkt.Ns = Len(t.taken) /\ Len(t.taken) + 1 = pkt.nth /\ Len(t.taken) < N
  BY <1>1, <1>2 DEF InSequence
<1>4. Len(t.taken) + 1 < SeqMod
  BY <1>1, <1>3, SendAssumption, SeqAssumption DEF NoWrap
<1>5. (t.rec + 1) % SeqMod = Len(t.taken) + 1 /\ Len(t.taken) + 1 \in Seqno
  <2>1. Len(t.taken) + 1 \in Nat /\ SeqMod \in Nat
    BY <1>1, SeqAssumption
  <2>2. (Len(t.taken) + 1) % SeqMod = Len(t.taken) + 1
    BY <2>1, <1>4, ModSmall
  <2>3. (t.rec + 1) % SeqMod = Len(t.taken) + 1
    BY <1>1, <2>2, Zenon
  <2>4. Len(t.taken) + 1 \in Seqno
    BY <1>4, <2>1 DEF Seqno
  <2> QED
    BY <2>3, <2>4
<1> DEFINE n == Len(t.taken) + 1
           k == Append(t.taken, n)
           c == pkt.Nr
<1>6. k \in Seq(Nat) /\ Len(k) = n /\ k[n] = n /\ \A i \in 1 .. Len(t.taken) : k[i] = t.taken[i]
  BY <1>1, AppendProperties
<1>7. u = [t EXCEPT !.rec = n, !.cLr = c, !.taken = k, !.needclose = need, !.closing = closing]
  <2>1. Take(t, pkt) = [t EXCEPT !.rec = n, !.cLr = c, !.taken = k]
    BY <1>1, <1>3, <1>5 DEF Take, Tunnel
  <2> QED
    BY <2>1 DEF TakeAnd
<1> HIDE DEF k, c
<1>8. n \in Seqno /\ c \in Seqno /\ c \in Nat /\ c <= T
  BY <1>2, <1>5, SeqAssumption DEF c, Seqno
<1> DEFINE m == n
<1>9. m \in Seqno /\ u = [t EXCEPT !.rec = m, !.cLr = c, !.taken = k, !.needclose = need, !.closing = closing]
  BY <1>7, <1>8
<1> HIDE DEF m
<1>10. /\ u \in Tunnel /\ u.up = t.up /\ u.seq = t.seq /\ u.rec = m /\ u.cLr = c
       /\ u.call = t.call /\ u.nsent = t.nsent /\ u.taken = k /\ u.closing = closing
       /\ u.queue = t.queue
  BY ZenonT(40), <1>1, <1>6, <1>8, <1>9 DEF Tunnel
<1>11. m = n /\ m = Len(k) /\ n \in Nat /\ n <= N
  BY <1>1, <1>3, <1>6 DEF m
<1>12. \A b \in t.queue : SentBy(b.pkt, u)
  <2>1. Len(t.taken) <= Len(u.taken) /\ t.nsent <= u.nsent
    BY <1>1, <1>6, <1>10 DEF Tunnel
  <2>2. \A b \in t.queue : SentBy(b.pkt, t)
    BY <1>1 DEF Counts
  <2> QED
    BY <1>1, <1>10, <2>1, <2>2, SentByGrows
<1>13. \A i \in 1 .. Len(u.taken) : u.taken[i] = i
  <2> SUFFICES ASSUME NEW i \in 1 .. n PROVE k[i] = i
    BY <1>6, <1>10
  <2>1. CASE i = n
    BY <1>6, <2>1
  <2>2. CASE i # n
    <3>1. i \in 1 .. Len(t.taken)
      BY <1>1, <2>2
    <3> QED
      BY <1>1, <1>6, <3>1 DEF Counts
  <2> QED
    BY <2>1, <2>2
<1>14. Counts(u)
  BY <1>1, <1>10, <1>11, <1>12, <1>13 DEF Counts
<1>15. Knows(u, T, N)
  BY <1>1, <1>8, <1>10, <1>11 DEF Knows
<1>16. Keeps(u, T)
  BY <1>1, <1>10 DEF Keeps
<1> QED
  BY <1>3, <1>10, <1>14, <1>15, <1>16 DEF TunnelInv, Takes, k

\* The counter comes back to where it was, at the modulus too.
LEMMA ModBack ==
  ASSUME NEW m \in Nat, NEW n \in Nat, n < m
  PROVE  (((n + 1) % m) - 1) % m = n
<1>1. CASE n + 1 < m
  <2>1. (n + 1) % m = n + 1
    BY <1>1, ModSmall
  <2> QED
    BY <2>1, ModSmall
<1>2. CASE n + 1 = m
  <2>1. m % m = 0 /\ (0 - 1) % m = m - 1
    OBVIOUS
  <2> QED
    BY <1>2, <2>1
<1> QED
  BY <1>1, <1>2

\* check_control and handle_control of a packet of the peer, on the self call.
LEMMA HandleIsStep ==
  ASSUME NoWrap, NEW e \in End, NEW T \in Nat, NEW N \in Nat, N <= MaxSend + 1,
         NEW t, TunnelInv(t, T, N), t.up, \A b \in t.queue : b.pkt.from = e,
         NEW pkt \in Packet, pkt.kind # "CDN", pkt.Nr <= T,
         pkt.kind # "ZLB" => pkt.nth = pkt.Ns + 1 /\ pkt.nth <= N,
         NEW r, r = HandleOnTunnel(t, e, pkt)
  PROVE  StepOf(t, r, e, T, N)
<1>1. /\ t \in Tunnel /\ Counts(t) /\ Knows(t, T, N)
      /\ t.rec \in Nat /\ t.rec \in Seqno /\ t.rec < SeqMod /\ SeqMod \in Nat
      /\ t.needclose \in BOOLEAN /\ t.closing \in BOOLEAN
  BY SeqAssumption DEF TunnelInv, Counts, Tunnel, Seqno
<1>2. CASE ~ InSequence(t, pkt)
  <2> DEFINE z == Zlb(t, e, "tunnel")
             f == Refuse(t, e, pkt, "tunnel")
             a == Acknowledge(t, e, "tunnel")
  <2>1. f.st = t /\ f.out \subseteq {z} /\ z.from = e /\ SentBy(z, t)
    BY <1>1, ZlbIsSent DEF Refuse
  <2>2. r = [st  |-> IF t.cnu THEN a.st ELSE t,
             out |-> f.out \cup (IF t.cnu THEN a.out ELSE {})]
    BY <1>2, <2>1 DEF HandleOnTunnel, Then, Quietly
  <2>3. /\ TunnelInv(a.st, T, N) /\ Stays(t, a.st) /\ a.st.queue = t.queue
        /\ a.out = {z} /\ z.from = e /\ SentBy(z, a.st)
    BY <2>1, AcknowledgeIsQuiet
  <2> HIDE DEF z, f, a
  <2>4. CASE t.cnu
    <3>1. r.st = a.st /\ r.out \subseteq {z}
      BY <2>1, <2>2, <2>3, <2>4
    <3> QED
      BY <2>3, <3>1 DEF StepOf
  <2>5. CASE ~ t.cnu
    <3>1. r.st = t /\ r.out \subseteq {z}
      BY <2>1, <2>2, <2>5
    <3> QED
      BY <2>1, <3>1 DEF StepOf, Stays
  <2> QED
    BY <2>4, <2>5
<1>3. CASE InSequence(t, pkt) /\ pkt.kind = "ZLB"
  <2> DEFINE c == pkt.Nr
             need == t.needclose /\ ~ ZlbClears(Take(t, pkt), Take(t, pkt).cLr)
             u == [t EXCEPT !.cLr = c, !.cnu = FALSE, !.needclose = need]
  <2>1. (((t.rec + 1) % SeqMod) - 1) % SeqMod = t.rec
    BY <1>1, ModBack
  <2>2. GiveBack(Take(t, pkt)) = [t EXCEPT !.cLr = c]
    <3> DEFINE n == (t.rec + 1) % SeqMod
    <3>1. Take(t, pkt) = [t EXCEPT !.rec = n, !.cLr = c]
      BY <1>1, <1>3 DEF Take, Tunnel
    <3>2. GiveBack(Take(t, pkt)) = [Take(t, pkt) EXCEPT !.rec = (n - 1) % SeqMod]
      BY <1>1, <3>1 DEF GiveBack, Tunnel
    <3>3. (n - 1) % SeqMod = t.rec
      BY <2>1
    <3> HIDE DEF n, c
    <3> QED
      BY <1>1, <3>1, <3>2, <3>3 DEF Tunnel
  <2>3. r = [st |-> u, out |-> {}]
    <3> DEFINE g == GiveBack(Take(t, pkt))
               clears == ZlbClears(Take(t, pkt), Take(t, pkt).cLr)
    <3>1. r = Quietly([g EXCEPT !.cnu = FALSE, !.needclose = @ /\ ~ clears])
      BY <1>3 DEF HandleOnTunnel
    <3>2. g = [t EXCEPT !.cLr = c]
      BY <2>2
    <3> HIDE DEF g, clears, c
    <3>3. [g EXCEPT !.cnu = FALSE, !.needclose = @ /\ ~ clears]
            = [t EXCEPT !.cLr = c, !.cnu = FALSE, !.needclose = t.needclose /\ ~ clears]
      BY <1>1, <3>2 DEF Tunnel
    <3> QED
      BY <3>1, <3>3 DEF Quietly, clears
  <2>4. c \in Seqno /\ c <= T
    BY DEF Packet
  <2>5. need \in BOOLEAN
    OBVIOUS
  <2> HIDE DEF c, need
  <2>6. /\ u \in Tunnel /\ u.up = t.up /\ u.seq = t.seq /\ u.rec = t.rec
        /\ u.cLr = c /\ u.call = t.call /\ u.nsent = t.nsent
        /\ u.taken = t.taken /\ u.closing = t.closing /\ u.queue = t.queue
    BY <1>1, <2>4, <2>5 DEF Tunnel
  <2> HIDE DEF u
  <2>7. TunnelInv(u, T, N) /\ Stays(t, u)
    BY <2>4, <2>6, QuietIsStep
  <2> QED
    BY <2>3, <2>6, <2>7 DEF StepOf
<1>4. ASSUME InSequence(t, pkt), pkt.kind # "ZLB",
             NEW need \in BOOLEAN, NEW closing \in BOOLEAN, t.closing => closing,
             NEW u, u = TakeAnd(t, pkt, need, closing),
             r = Acknowledge(u, e, "tunnel")
      PROVE  StepOf(t, r, e, T, N)
  <2>1. TunnelInv(u, T, N) /\ u.up /\ Takes(t, u, N) /\ u.queue = t.queue
    BY <1>4, TakeTakesNext
  <2>2. /\ TunnelInv(r.st, T, N) /\ Stays(u, r.st) /\ r.st.queue = u.queue
        /\ \A p \in r.out : p.from = e /\ SentBy(p, r.st)
    BY <1>4, <2>1, AcknowledgeIsQuiet
  <2> QED
    BY <2>1, <2>2 DEF StepOf, Takes, Stays
<1>5. CASE InSequence(t, pkt) /\ pkt.kind = "Hello"
  <2> DEFINE u == Take(t, pkt)
             need == t.needclose
             closing == t.closing
  <2>1. r = Acknowledge(u, e, "tunnel")
    BY <1>5 DEF HandleOnTunnel
  <2>2. u = TakeAnd(t, pkt, need, closing)
    <3>1. u = [t EXCEPT !.rec = u.rec, !.cLr = u.cLr, !.taken = u.taken]
      BY <1>1 DEF Take, Tunnel
    <3>2. TakeAnd(t, pkt, need, closing) = [u EXCEPT !.needclose = need, !.closing = closing]
      BY DEF TakeAnd
    <3> HIDE DEF u
    <3> QED
      BY ZenonT(40), <1>1, <3>1, <3>2 DEF Tunnel
  <2> HIDE DEF need, closing
  <2>3. need \in BOOLEAN /\ closing \in BOOLEAN /\ (t.closing => closing)
    BY <1>1 DEF need, closing
  <2> QED
    BY <1>4, <1>5, <2>1, <2>2, <2>3
<1>6. CASE InSequence(t, pkt) /\ pkt.kind = "StopCCN"
  <2>1. r = Acknowledge(TakeAnd(t, pkt, FALSE, TRUE), e, "tunnel")
    BY <1>6 DEF HandleOnTunnel, TakeAnd
  <2> QED
    BY <1>4, <1>6, <2>1
<1>7. pkt.kind \in {"ZLB", "Hello", "StopCCN"}
  BY DEF Packet, Kind
<1> QED
  BY <1>2, <1>3, <1>5, <1>6, <1>7

-----------------------------------------------------------------------------
(* The steps of the system.                                                 *)

\* Every tunnel begins with nothing sent and nothing taken.
LEMMA InitInv == NoWrap /\ Init => Inv
<1> SUFFICES ASSUME NoWrap, Init PROVE Inv
  OBVIOUS
<1>1. ASSUME NEW e \in End, NEW n, n = tun[e]
      PROVE  n \in Tunnel /\ n.up = TRUE /\ n.nsent = 0 /\ n.queue = {} /\ TunnelInv(n, 0, 0)
             /\ Len(n.taken) = 0
  <2>1. /\ n \in Tunnel /\ n.up = TRUE /\ n.seq = 0 /\ n.rec = 0 /\ n.cLr = 0
        /\ n.queue = {} /\ n.nsent = 0 /\ n.taken = <<>> /\ n.closing = FALSE
    BY <1>1, StartOfEnd
  <2>2. n.call = NoCall
    BY <1>1, StartOfEnd DEF NoWrap
  <2>4. Len(n.taken) = 0
    BY <2>1, EmptySeq
  <2>5. Counts(n)
    BY <2>1, <2>2, <2>4, SendAssumption DEF Counts
  <2>6. Knows(n, 0, 0) /\ Keeps(n, 0)
    BY <2>1, <2>4 DEF Knows, Keeps
  <2> QED
    BY <2>1, <2>4, <2>5, <2>6 DEF TunnelInv
<1>3. tun = [e \in End |-> tun[e]] /\ net = {}
  BY DEF Init
<1>6. \A e \in End : Peer(e) \in End
  BY PeerIsOther
<1>7. TypeOK
  BY <1>1, <1>3 DEF TypeOK
<1> QED
  BY <1>1, <1>3, <1>6, <1>7 DEF Inv

\* The tunnel of e, its peer's counters, and the queue of e.
LEMMA InvOfEnd ==
  ASSUME Inv, NEW e \in End
  PROVE  LET p == Peer(e) IN
         /\ p \in End /\ p # e /\ Peer(p) = e
         /\ tun[e] \in Tunnel /\ tun[p] \in Tunnel
         /\ Len(tun[p].taken) \in Nat /\ tun[p].nsent \in Nat
         /\ tun[p].nsent <= MaxSend + 1
         /\ TunnelInv(tun[e], Len(tun[p].taken), tun[p].nsent)
         /\ TunnelInv(tun[p], Len(tun[e].taken), tun[e].nsent)
         /\ \A b \in tun[e].queue : b.pkt.from = e
<1> DEFINE p == Peer(e)
<1>1. p \in End /\ p # e /\ Peer(p) = e
  BY PeerIsOther
<1>2. /\ TunnelInv(tun[e], Len(tun[p].taken), tun[p].nsent)
      /\ TunnelInv(tun[p], Len(tun[e].taken), tun[e].nsent)
      /\ \A b \in tun[e].queue : b.pkt.from = e
  BY <1>1 DEF Inv
<1>3. tun[e] \in Tunnel /\ tun[p] \in Tunnel /\ tun[p].nsent <= MaxSend + 1
  BY <1>1, <1>2 DEF TunnelInv, Counts
<1>4. Len(tun[p].taken) \in Nat /\ tun[p].nsent \in Nat
  BY <1>3, LenProperties DEF Tunnel
<1> QED
  BY <1>1, <1>2, <1>3, <1>4

\* r is a step of daemon e, which sees what its peer has taken and sent.
DoesStep(e, r) ==
  /\ Do(e, r)
  /\ StepOf(tun[e], r, e, Len(tun[Peer(e)].taken), tun[Peer(e)].nsent)

\* A result counts as a step whatever record it is written in.
LEMMA StepToAlike ==
  ASSUME NEW t, NEW r, NEW s, NEW e, NEW T, NEW N, StepOf(t, s, e, T, N),
         r.st = s.st, r.out = s.out
  PROVE  StepOf(t, r, e, T, N)
BY DEF StepOf

\* The handlers above are all there is when there is no call.
LEMMA NextIsStep ==
  ASSUME NoWrap, Inv, Next
  PROVE  \E e \in End : \E r : DoesStep(e, r)
<1>1. PICK e \in End :
        \/ CloseUnsettled(e) \/ PppdExit(e)
        \/ HelloTimer(e) \/ RetransmitTimer(e)
        \/ Receive(e)
        \/ Disconnect(e) \/ ReadError(e) \/ Terminate(e) \/ Crash(e)
  BY DEF Next
<1>2. PICK t : t = tun[e]
  OBVIOUS
<1>3. PICK T : T = Len(tun[Peer(e)].taken)
  OBVIOUS
<1>4. PICK N : N = tun[Peer(e)].nsent
  OBVIOUS
<1>5. /\ TunnelInv(t, T, N) /\ Counts(t) /\ Knows(t, T, N) /\ t \in Tunnel
      /\ T \in Nat /\ N \in Nat /\ N <= MaxSend + 1
      /\ \A b \in t.queue : b.pkt.from = e
  BY <1>2, <1>3, <1>4, InvOfEnd DEF TunnelInv, Counts
<1>6. t.call = NoCall /\ ~ t.call.up /\ ~ t.call.pppd /\ ~ Unsettled(t.call)
  BY <1>5, NoCallFields DEF Counts, Unsettled
<1>7. SUFFICES ASSUME t.up PROVE \E r : Do(e, r) /\ StepOf(t, r, e, T, N)
  <2>1. t.up
    BY <1>1, <1>2 DEF CloseUnsettled, PppdExit, HelloTimer, RetransmitTimer, Receive,
                      Disconnect, ReadError, Terminate, Crash
  <2> QED
    BY <1>2, <1>3, <1>4, <1>7, <2>1 DEF DoesStep
<1>8. CASE CloseUnsettled(e)
  <2>1. PICK r : r = BuildFdset(t, e) /\ Do(e, r)
    BY <1>2, <1>8 DEF CloseUnsettled
  <2>2. Unsettled(t)
    BY <1>2, <1>6, <1>8 DEF CloseUnsettled, Settled
  <2>3. PICK c : c = CloseTunnel(t, e)
    OBVIOUS
  <2>4. r.st = c.st /\ r.out = c.out
    BY <1>6, <2>1, <2>2, <2>3 DEF BuildFdset, Then, Quietly
  <2>5. StepOf(t, c, e, T, N)
    BY <1>5, <1>7, <2>3, CloseTunnelIsStep
  <2>6. StepOf(t, r, e, T, N)
    BY <2>4, <2>5, StepToAlike
  <2> QED
    BY <2>1, <2>6
<1>9. CASE PppdExit(e)
  BY <1>2, <1>6, <1>9 DEF PppdExit
<1>10. CASE HelloTimer(e)
  <2>1. PICK r : r = Send(t, e, "Hello", "tunnel") /\ Do(e, r)
    BY <1>2, <1>10 DEF HelloTimer
  <2>2. ~ t.closing /\ t.nsent < MaxSend
    BY <1>2, <1>10 DEF HelloTimer
  <2>3. StepOf(t, r, e, T, N)
    BY <1>5, <1>7, <2>1, <2>2, HelloIsStep
  <2> QED
    BY <2>1, <2>3
<1>11. CASE RetransmitTimer(e)
  <2>1. PICK buf \in t.queue : Do(e, ControlXmit(t, e, buf))
    BY <1>2, <1>11 DEF RetransmitTimer
  <2>2. PICK r : r = ControlXmit(t, e, buf) /\ Do(e, r)
    BY <2>1
  <2>3. StepOf(t, r, e, T, N)
    BY <1>5, <1>7, <2>2, ControlXmitIsStep
  <2> QED
    BY <2>2, <2>3
<1>12. CASE Receive(e)
  <2>1. PICK pkt \in net : pkt.from = Peer(e) /\ (pkt.cid = "tunnel" => Do(e, HandleOnTunnel(t, e, pkt)))
    BY <1>2, <1>12 DEF Receive
  <2>2. SentBy(pkt, tun[Peer(e)])
    BY <2>1 DEF Inv
  <2>3. /\ pkt \in Packet /\ pkt.cid = "tunnel" /\ pkt.kind # "CDN" /\ pkt.Nr <= T
        /\ (pkt.kind # "ZLB" => pkt.nth = pkt.Ns + 1 /\ pkt.nth <= N)
    BY <1>3, <1>4, <2>2 DEF SentBy
  <2>4. PICK r : r = HandleOnTunnel(t, e, pkt) /\ Do(e, r)
    BY <2>1, <2>3
  <2>5. StepOf(t, r, e, T, N)
    BY <1>5, <1>7, <2>3, <2>4, HandleIsStep
  <2> QED
    BY <2>4, <2>5
<1>13. CASE Disconnect(e)
  <2> DEFINE q == t.queue
             closing == t.closing
  <2>1. PICK r : r = CloseTunnel([t EXCEPT !.needclose = TRUE], e) /\ Do(e, r)
    BY <1>2, <1>13 DEF Disconnect
  <2>2. [t EXCEPT !.queue = q, !.needclose = TRUE, !.closing = closing] = [t EXCEPT !.needclose = TRUE]
    BY <1>5 DEF Tunnel
  <2>3. q \in SUBSET t.queue /\ closing \in BOOLEAN /\ (t.closing => closing) /\ TRUE \in BOOLEAN
    BY <1>5 DEF Tunnel
  <2> HIDE DEF q, closing
  <2>4. r = CloseTunnel([t EXCEPT !.queue = q, !.needclose = TRUE, !.closing = closing], e)
    BY <2>1, <2>2
  <2>5. StepOf(t, r, e, T, N)
    BY <1>5, <1>7, <2>3, <2>4, CloseAlikeIsStep
  <2> QED
    BY <2>1, <2>5
<1>14. CASE ReadError(e)
  BY <1>2, <1>6, <1>14 DEF ReadError
<1>15. CASE Terminate(e)
  <2>1. PICK c : c = CloseTunnel(t, e)
    OBVIOUS
  <2>2. PICK r : /\ r = Then(c, LAMBDA u : IF u.up THEN CloseTunnel(u, e) ELSE Quietly(u))
                 /\ Do(e, r)
    BY <1>2, <1>15, <2>1 DEF Terminate
  <2>3. /\ StepOf(t, c, e, T, N)
        /\ t.closing => c = [st |-> Destroyed(t), out |-> {}] /\ ~ c.st.up /\ Stays(t, c.st)
        /\ ~ t.closing => c.st.up /\ c.st.closing /\ Sends(t, c.st)
    BY <1>5, <1>7, <2>1, CloseTunnelIsStep
  <2>4. CASE c.st.up
    <3>1. c.st.closing /\ Sends(t, c.st) /\ Counts(c.st) /\ Knows(c.st, T, N)
      BY <1>5, <2>3, <2>4 DEF StepOf, TunnelInv, Tunnel
    <3>2. PICK d : d = Quietly(Destroyed(c.st))
      OBVIOUS
    <3>3. /\ StepOf(c.st, d, e, T, N) /\ d = [st |-> Destroyed(c.st), out |-> {}]
          /\ Stays(c.st, d.st)
      BY <1>5, <3>1, <3>2, GoneIsStep
    <3>4. r.st = d.st /\ r.out = c.out
      BY <2>2, <2>4, <3>1, <3>2, <3>3 DEF Then, CloseTunnel
    <3>5. Sends(t, d.st)
      BY <3>1, <3>3 DEF Sends, Stays
    <3>6. \A pkt \in c.out : pkt.from = e /\ SentBy(pkt, d.st)
      BY <2>3, <3>3 DEF StepOf, SentBy, Stays
    <3>7. StepOf(t, r, e, T, N)
      BY <3>3, <3>4, <3>5, <3>6 DEF StepOf
    <3> QED
      BY <2>2, <3>7
  <2>5. CASE ~ c.st.up
    <3>1. r.st = c.st /\ r.out = c.out
      BY <2>2, <2>5 DEF Then, Quietly
    <3> QED
      BY <2>2, <2>3, <3>1, StepToAlike
  <2> QED
    BY <2>4, <2>5
<1>16. CASE Crash(e)
  <2>1. PICK r : r = Quietly(Destroyed(t)) /\ Do(e, r)
    BY <1>2, <1>16 DEF Crash
  <2>2. StepOf(t, r, e, T, N)
    BY <1>5, <2>1, GoneIsStep
  <2> QED
    BY <2>1, <2>2
<1> QED
  BY <1>1, <1>8, <1>9, <1>10, <1>11, <1>12, <1>13, <1>14, <1>15, <1>16

\* A step of e keeps the invariant: what it promises of itself holds by StepOf, and what
\* its peer and the packets in flight say of its counters only grows.
LEMMA StepKeepsInv ==
  ASSUME Inv, NEW e \in End, NEW r, DoesStep(e, r)
  PROVE  Inv'
<1>1. PICK p : p = Peer(e)
  OBVIOUS
<1>2. PICK t : t = tun[e]
  OBVIOUS
<1>3. PICK s : s = tun[p]
  OBVIOUS
<1>4. PICK u : u = r.st
  OBVIOUS
<1>5. /\ p \in End /\ p # e /\ Peer(p) = e /\ \A f \in End : f = e \/ f = p
      /\ t \in Tunnel /\ s \in Tunnel
      /\ TunnelInv(s, Len(t.taken), t.nsent)
      /\ Len(s.taken) \in Nat /\ Len(t.taken) \in Nat /\ s.nsent \in Nat /\ t.nsent \in Nat
  BY <1>1, <1>2, <1>3, InvOfEnd, PeerIsOther, LenProperties DEF Tunnel
<1>6. /\ tun' = [tun EXCEPT ![e] = u] /\ net' = net \cup r.out
      /\ TunnelInv(u, Len(s.taken), s.nsent)
      /\ Stays(t, u) \/ Sends(t, u) \/ Takes(t, u, s.nsent)
      /\ \A b \in u.queue : b.pkt.from = e
      /\ \A pkt \in r.out : pkt.from = e /\ SentBy(pkt, u)
  BY <1>1, <1>2, <1>3, <1>4 DEF DoesStep, Do, StepOf
<1>7. u \in Tunnel /\ u.taken \in Seq(Nat) /\ u.nsent \in Nat /\ Len(u.taken) \in Nat
  BY <1>6, LenProperties DEF TunnelInv, Counts, Tunnel
<1>8. /\ Len(t.taken) <= Len(u.taken) /\ t.nsent <= u.nsent
      /\ Len(u.taken) <= s.nsent
  <2>1. Len(Append(t.taken, Len(t.taken) + 1)) = Len(t.taken) + 1
    BY <1>5, AppendProperties DEF Tunnel
  <2>2. Len(u.taken) <= s.nsent
    BY <1>6 DEF TunnelInv, Knows
  <2> QED
    BY <1>5, <1>6, <2>1, <2>2 DEF Stays, Sends, Takes
<1>9. TunnelInv(s, Len(u.taken), u.nsent)
  <2>1. s.cLr \in Nat
    BY <1>5, SeqAssumption DEF Tunnel, Seqno
  <2>2. Counts(s) /\ Knows(s, Len(t.taken), t.nsent) /\ Keeps(s, Len(t.taken))
    BY <1>5 DEF TunnelInv
  <2>3. Knows(s, Len(u.taken), u.nsent)
    BY <1>5, <1>7, <1>8, <2>1, <2>2 DEF Knows
  <2>4. Keeps(s, Len(u.taken))
    <3> SUFFICES ASSUME s.up, ~ s.closing, NEW n \in 1 .. s.nsent
                 PROVE  n <= Len(u.taken) \/ \E b \in s.queue : b.pkt.nth = n
      BY DEF Keeps
    <3>1. n <= Len(t.taken) \/ \E b \in s.queue : b.pkt.nth = n
      BY <2>2 DEF Keeps
    <3> QED
      BY <1>5, <1>7, <1>8, <3>1
  <2> QED
    BY <2>2, <2>3, <2>4 DEF TunnelInv
<1>10. TypeOK /\ tun \in [End -> Tunnel]
  BY DEF Inv, TypeOK
<1>11. tun'[e] = u /\ tun'[p] = s /\ tun' \in [End -> Tunnel]
  BY <1>3, <1>5, <1>6, <1>7, <1>10
<1>12. TypeOK'
  BY <1>6, <1>10, <1>11 DEF TypeOK, SentBy
<1>13. \A f \in End : LET g == Peer(f) IN
         TunnelInv(tun'[f], Len(tun'[g].taken), tun'[g].nsent)
  BY <1>1, <1>5, <1>6, <1>9, <1>11
<1>14. \A f \in End : \A b \in tun'[f].queue : b.pkt.from = f
  <2>1. \A b \in s.queue : b.pkt.from = p
    BY <1>3, <1>5 DEF Inv
  <2> QED
    BY <1>5, <1>6, <1>11, <2>1
<1>15. \A pkt \in net' : pkt.from \in End /\ SentBy(pkt, tun'[pkt.from])
  <2> SUFFICES ASSUME NEW pkt \in net' PROVE pkt.from \in End /\ SentBy(pkt, tun'[pkt.from])
    OBVIOUS
  <2>1. CASE pkt \in r.out
    BY <1>6, <1>11, <2>1
  <2>2. CASE pkt \in net
    <3>1. pkt.from \in End /\ SentBy(pkt, tun[pkt.from])
      BY <2>2 DEF Inv
    <3>2. CASE pkt.from = e
      <4>1. SentBy(pkt, u)
        BY <1>2, <1>5, <1>7, <1>8, <3>1, <3>2, SentByGrows
      <4> QED
        BY <1>11, <3>1, <3>2, <4>1
    <3>3. CASE pkt.from = p
      BY <1>3, <1>11, <3>1, <3>3
    <3> QED
      BY <1>5, <3>1, <3>2, <3>3
  <2> QED
    BY <1>6, <2>1, <2>2
<1> QED
  BY <1>12, <1>13, <1>14, <1>15 DEF Inv

\* A stutter keeps the invariant.
LEMMA InvStutters == Inv /\ UNCHANGED vars => Inv'
BY DEF Inv, vars, TypeOK

\* The invariant holds in every state of a tunnel without calls and without wrapping.
LEMMA Invariance == NoWrap /\ Spec => []Inv
<1> SUFFICES ASSUME NoWrap PROVE Spec => []Inv
  OBVIOUS
<1>1. Init => Inv
  BY InitInv
<1>2. Inv /\ [Next]_vars => Inv'
  BY NextIsStep, StepKeepsInv, InvStutters
<1> QED
  BY <1>1, <1>2, PTL DEF Spec

-----------------------------------------------------------------------------
(* The theorems.                                                            *)

\* The messages an end has taken are the first ones of its peer.
LEMMA TakenAreFirst ==
  ASSUME Inv, NEW e \in End
  PROVE  /\ Nths(tun[e]) = 1 .. Len(tun[e].taken)
         /\ \A i \in DOMAIN tun[e].taken : tun[e].taken[i] = i
         /\ Len(tun[e].taken) \in Nat
<1>1. PICK k : k = tun[e].taken
  OBVIOUS
<1>2. k \in Seq(Nat) /\ \A i \in 1 .. Len(k) : k[i] = i
  BY <1>1, InvOfEnd DEF TunnelInv, Counts, Tunnel
<1>3. DOMAIN k = 1 .. Len(k) /\ Len(k) \in Nat
  BY <1>2, LenProperties
<1>4. {k[i] : i \in DOMAIN k} = 1 .. Len(k)
  BY <1>2, <1>3
<1>5. Nths(tun[e]) = {k[i] : i \in DOMAIN k}
  BY <1>1, Zenon DEF Nths
<1>6. \A i \in DOMAIN k : k[i] = i
  BY <1>2, <1>3
<1> QED
  BY <1>1, <1>3, <1>4, <1>5, <1>6, Zenon

\* control_xmit drops as received only what was taken.
THEOREM AcknowledgedWasTaken == NoWrap /\ Spec => []AckedWasTaken
<1>1. Inv => AckedWasTaken
  <2> SUFFICES ASSUME Inv, NEW e \in End, tun[e].up
               PROVE  1 .. tun[e].cLr \subseteq Nths(tun[Peer(e)])
    BY DEF AckedWasTaken
  <2>1. tun[e].cLr <= Len(tun[Peer(e)].taken) /\ tun[e].cLr \in Nat
    BY InvOfEnd, SeqAssumption DEF TunnelInv, Knows, Tunnel, Seqno
  <2>2. Nths(tun[Peer(e)]) = 1 .. Len(tun[Peer(e)].taken) /\ Len(tun[Peer(e)].taken) \in Nat
    BY InvOfEnd, TakenAreFirst
  <2> QED
    BY <2>1, <2>2
<1> QED
  BY <1>1, Invariance, PTL

\* Nothing is lost while the tunnel lives: what the peer has not taken is queued.
THEOREM MessagesAreKept == NoWrap /\ Spec => []KeptUntilTaken
<1>1. Inv => KeptUntilTaken
  <2> SUFFICES ASSUME Inv, NEW e \in End, tun[e].up, ~ tun[e].closing, NEW n \in 1 .. tun[e].nsent
               PROVE  n \in Nths(tun[Peer(e)]) \/ \E b \in tun[e].queue : b.pkt.nth = n
    BY DEF KeptUntilTaken
  <2>1. n <= Len(tun[Peer(e)].taken) \/ \E b \in tun[e].queue : b.pkt.nth = n
    BY InvOfEnd DEF TunnelInv, Keeps
  <2>2. Nths(tun[Peer(e)]) = 1 .. Len(tun[Peer(e)].taken) /\ Len(tun[Peer(e)].taken) \in Nat
    BY InvOfEnd, TakenAreFirst
  <2>3. n \in Nat /\ 1 <= n
    BY InvOfEnd DEF Tunnel
  <2> QED
    BY <2>1, <2>2, <2>3
<1> QED
  BY <1>1, Invariance, PTL

\* check_control knows a duplicate within half the window when it sees one.
THEOREM DuplicatesAreRecognised == NoWrap /\ Spec => []OldIsRecognised
<1>1. Inv => OldIsRecognised
  <2> SUFFICES ASSUME Inv, NEW e \in End, tun[e].up, NEW pkt \in net,
                      pkt.from = Peer(e), pkt.nth \in Nths(tun[e]),
                      Len(tun[e].taken) - (pkt.nth - 1) < HalfSeq
               PROVE  IsOld(pkt.Ns, tun[e].rec)
    BY DEF OldIsRecognised
  <2>1. /\ pkt \in Packet /\ (pkt.kind # "ZLB" => pkt.nth = pkt.Ns + 1)
        /\ (pkt.kind = "ZLB" => pkt.nth = 0)
    BY DEF Inv, SentBy
  <2>2. pkt.nth \in 1 .. Len(tun[e].taken) /\ Len(tun[e].taken) \in Nat
    BY TakenAreFirst
  <2>3. pkt.Ns \in Nat /\ pkt.nth = pkt.Ns + 1
    BY <2>1, <2>2, SeqAssumption DEF Packet, Seqno
  <2>4. tun[e].rec = Len(tun[e].taken)
    BY InvOfEnd DEF TunnelInv, Counts
  <2> QED
    BY <2>2, <2>3, <2>4, SeqAssumption DEF IsOld
<1> QED
  BY <1>1, Invariance, PTL

\* The control connection is the reliable channel that the code above it counts on.
THEOREM ImplementsReliableChannel == NoWrap /\ Spec => ImplementsChannel
<1> SUFFICES ASSUME NoWrap PROVE Spec => ImplementsChannel
  OBVIOUS
<1>1. Init => Channel!Init
  <2> SUFFICES ASSUME Init PROVE Channel!Init
    OBVIOUS
  <2>1. \A e \in End : tun[e].nsent = 0 /\ tun[e].taken = <<>>
    BY StartOfEnd
  <2> QED
    BY <2>1 DEF Channel!Init
<1>2. Inv /\ [Next]_vars => [Channel!Next]_(Channel!vars)
  <2>1. CASE UNCHANGED vars
    BY <2>1 DEF vars, Channel!vars
  <2>2. ASSUME Inv, NEW e \in End, NEW r, DoesStep(e, r)
        PROVE  [Channel!Next]_(Channel!vars)
    <3> DEFINE N == [f \in End |-> tun[f].nsent]
               K == [f \in End |-> tun[f].taken]
    <3>1. /\ tun' = [tun EXCEPT ![e] = r.st] /\ tun \in [End -> Tunnel]
          /\ \/ Stays(tun[e], r.st) \/ Sends(tun[e], r.st)
             \/ Takes(tun[e], r.st, tun[Peer(e)].nsent)
      BY <2>2 DEF DoesStep, Do, StepOf, Inv, TypeOK
    <3>2. N' = [N EXCEPT ![e] = r.st.nsent] /\ K' = [K EXCEPT ![e] = r.st.taken]
      BY <3>1
    <3>3. CASE Stays(tun[e], r.st)
      <4>1. N' = N /\ K' = K
        BY <3>2, <3>3 DEF Stays
      <4> QED
        BY <4>1 DEF Channel!vars
    <3>4. CASE Sends(tun[e], r.st)
      <4>1. N' = [N EXCEPT ![e] = @ + 1] /\ K' = K
        BY <3>2, <3>4 DEF Sends
      <4> QED
        BY <4>1 DEF Channel!Next, Channel!Send
    <3>5. CASE Takes(tun[e], r.st, tun[Peer(e)].nsent)
      <4>1. N' = N /\ K' = [K EXCEPT ![e] = Append(@, Len(@) + 1)] /\ Len(K[e]) < N[Peer(e)]
        BY <3>2, <3>5, PeerIsOther DEF Takes
      <4> QED
        BY <4>1 DEF Channel!Next, Channel!Take
    <3> QED
      BY <3>1, <3>3, <3>4, <3>5
  <2> QED
    BY <2>1, <2>2, NextIsStep
<1> QED
  BY <1>1, <1>2, Invariance, PTL DEF Spec, ImplementsChannel, Channel!Spec
=============================================================================

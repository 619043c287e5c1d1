-------------------------- MODULE ControlSocketProofs --------------------------
(***************************************************************************)
(* The control socket, for any clients, descriptors and lengths.  As the   *)
(* callbacks work on a world, so does the invariant, which is Good in the  *)
(* midst of a callback already: with the handler whose callback runs left  *)
(* out of account, and a client between two handlers.                      *)
(***************************************************************************)
EXTENDS ControlSocket, ListLemmas

\* The types of a walk and of a world.
Rounds == [at : Nat, rd : SUBSET ({0} \cup Fd), wr : SUBSET ({0} \cup Fd),
           ready : SUBSET (Client \cup {NoClient})]
Worlds == [list : Seq(Handler), round : Rounds, pending : BOOLEAN, open : SUBSET Fd,
           conn : [Client -> Conn], peer : [Client -> PeerType]]

-----------------------------------------------------------------------------
(* The invariant.                                                           *)

\* The handlers that count between two callbacks, and within one that will delete its handler:
\* the deleted do not, nor then the one that runs.
Live(w, b) == {i \in 1 .. Len(w.list) : ~ w.list[i].deleted /\ ~ (b = "within" /\ i = w.round.at)}

IsOpen(w, c) == w.conn[c].at = "open"

\* A handler is that of the acceptor, or it serves an open connection.
Serves(w, h) ==
  IF h.kind = "accept" THEN h.of = NoClient /\ h.fd = 0
  ELSE h.of \in Client /\ IsOpen(w, h.of) /\ h.fd = w.conn[h.of].fd

\* Descriptors: the open ones are those of the open connections, each of one.
FdInv(w) ==
  /\ w.open = {w.conn[c].fd : c \in {d \in Client : IsOpen(w, d)}}
  /\ \A c, d \in Client : IsOpen(w, c) /\ IsOpen(w, d) /\ c # d => w.conn[c].fd # w.conn[d].fd

\* Handlers: the clients in I have none, though they have a connection; any other has one
\* when it has a connection.
HandlerInv(w, b, I) ==
  /\ \A i \in Live(w, b) : Serves(w, w.list[i])
  /\ \A i, j \in Live(w, b) : w.list[i].of = w.list[j].of /\ w.list[i].of \in Client => i = j
  /\ \A c \in I : IsOpen(w, c) /\ \A i \in Live(w, b) : w.list[i].of # c
  /\ \A c \in Client \ I : IsOpen(w, c) => \E i \in Live(w, b) : w.list[i].of = c

\* What the walk has still to call was ready.
ReadyInv(w) ==
  \A i \in 1 .. Len(w.list) : i >= w.round.at /\ Due(w, w.list[i]) => w.list[i].of \in w.round.ready

Good(w, b, I) ==
  /\ w \in Worlds
  /\ w.round.at <= Len(w.list)
  /\ w.pending = (\E i \in 1 .. Len(w.list) : w.list[i].deleted)
  /\ FdInv(w) /\ HandlerInv(w, b, I) /\ ReadyInv(w)
  /\ \A c \in Client : w.peer[c].heard <= SendBuf

\* Between two callbacks.
Rests(w) ==
  /\ Good(w, "between", {})
  /\ w.round.at # 0 => ~ w.list[w.round.at].deleted
  /\ w.round.at = 0 => ~ w.pending /\ w.round = NoRound

IInv == Rests(World)

-----------------------------------------------------------------------------
(* Worlds.                                                                  *)

\* What a world is made of.
LEMMA WorldFields ==
  ASSUME NEW w \in Worlds
  PROVE  /\ w.list \in Seq(Handler) /\ Len(w.list) \in Nat /\ DOMAIN w.list = 1 .. Len(w.list)
         /\ \A i \in 1 .. Len(w.list) : w.list[i] \in Handler /\ w.list[i].n \in Nat
         /\ w.round \in Rounds /\ w.round.at \in Nat /\ w.pending \in BOOLEAN /\ w.open \in SUBSET Fd
         /\ w.conn \in [Client -> Conn] /\ w.peer \in [Client -> PeerType]
         /\ \A c \in Client : w.conn[c] \in Conn /\ w.peer[c] \in PeerType
         /\ \A c \in Client : /\ w.peer[c].said \in Seq(Piece) /\ Len(w.peer[c].said) \in Nat
                             /\ w.peer[c].heard \in Nat
<1>1. w.list \in Seq(Handler) /\ w.round \in Rounds
  BY DEF Worlds
<1>2. Len(w.list) \in Nat /\ DOMAIN w.list = 1 .. Len(w.list)
  BY <1>1, LenProperties
<1>3. \A i \in 1 .. Len(w.list) : w.list[i] \in Handler
  BY <1>1, ElementOfSeq
<1>4. w.round.at \in Nat
  BY <1>1 DEF Rounds
<1>5. \A i \in 1 .. Len(w.list) : w.list[i].n \in Nat
  BY <1>3 DEF Handler
<1>6. /\ w.pending \in BOOLEAN /\ w.open \in SUBSET Fd
      /\ w.conn \in [Client -> Conn] /\ w.peer \in [Client -> PeerType]
  BY DEF Worlds
<1>7. \A c \in Client : w.conn[c] \in Conn /\ w.peer[c] \in PeerType
  BY <1>6
<1>8. ASSUME NEW c \in Client
      PROVE  w.peer[c].said \in Seq(Piece) /\ Len(w.peer[c].said) \in Nat /\ w.peer[c].heard \in Nat
  <2>1. w.peer[c].said \in Seq(Piece) /\ w.peer[c].heard \in Nat
    BY <1>7 DEF PeerType
  <2> QED
    BY <2>1, LenProperties
<1> QED
  BY <1>1, <1>2, <1>3, <1>4, <1>5, <1>6, <1>7, <1>8

\* Only clients and what they have sent and heard may change, but not which connections
\* are open nor on which descriptors.
Alike(w, v) ==
  /\ v \in Worlds /\ v.list = w.list /\ v.round = w.round /\ v.pending = w.pending /\ v.open = w.open
  /\ \A c \in Client : /\ IsOpen(v, c) <=> IsOpen(w, c)
                       /\ IsOpen(w, c) => v.conn[c].fd = w.conn[c].fd
                       /\ v.peer[c].heard <= SendBuf

\* Such a change keeps a world good.
LEMMA AlikeIsGood ==
  ASSUME NEW w, NEW v, NEW b, NEW I \in SUBSET Client, Good(w, b, I), Alike(w, v)
  PROVE  Good(v, b, I)
<1>1. Live(v, b) = Live(w, b)
  BY DEF Live, Alike
<1>2. FdInv(v)
  <2>1. {d \in Client : IsOpen(v, d)} = {d \in Client : IsOpen(w, d)}
    BY DEF Alike
  <2>2. {v.conn[c].fd : c \in {d \in Client : IsOpen(v, d)}} = {w.conn[c].fd : c \in {d \in Client : IsOpen(w, d)}}
    BY <2>1 DEF Alike
  <2> QED
    BY <2>2 DEF Good, FdInv, Alike
<1>3. HandlerInv(v, b, I)
  <2>1. \A h \in Handler : Serves(w, h) => Serves(v, h)
    BY DEF Serves, Alike
  <2>2. \A i \in Live(w, b) : w.list[i] \in Handler
    BY WorldFields DEF Live, Good
  <2>3. v.list = w.list
    BY DEF Alike
  <2>4. \A i \in Live(v, b) : Serves(v, v.list[i])
    BY <1>1, <2>1, <2>2, <2>3 DEF Good, HandlerInv
  <2> QED
    BY <1>1, <2>3, <2>4 DEF Good, HandlerInv, Alike
<1>4. ReadyInv(v)
  BY DEF Good, ReadyInv, Due, Alike
<1> QED
  BY <1>2, <1>3, <1>4 DEF Good, Alike

\* control_socket_cleanup_client, when the client has no handler.
LEMMA CleanupIsGood ==
  ASSUME NEW w, NEW b, NEW c \in Client, Good(w, b, {c}), NEW v, v = Cleanup(w, c)
  PROVE  Good(v, b, {}) /\ v.list = w.list /\ v.round = w.round
<1> DEFINE fds == w.open \ {w.conn[c].fd}
           at == IF w.peer[c].there THEN [NoConn EXCEPT !.at = "closed"] ELSE NoConn
           conns == [w.conn EXCEPT ![c] = at]
           none == <<>>
           said == [w.peer[c] EXCEPT !.said = none]
           peers == [w.peer EXCEPT ![c] = said]
<1>1. w \in Worlds
  BY DEF Good
<1>2. fds \in SUBSET Fd /\ at \in Conn /\ at.at # "open" /\ said \in PeerType /\ said.heard = w.peer[c].heard
  <2>1. fds \in SUBSET Fd
    BY <1>1, WorldFields
  <2>2. at \in Conn /\ at.at # "open"
    BY DEF NoConn, Conn
  <2>3. none \in Seq(Piece) /\ w.peer[c] \in PeerType
    BY <1>1, WorldFields
  <2> HIDE DEF none
  <2>4. said \in PeerType /\ said.heard = w.peer[c].heard
    BY <2>3 DEF PeerType
  <2> QED
    BY <2>1, <2>2, <2>4
<1>3. v = [w EXCEPT !.open = fds, !.conn = conns, !.peer = peers]
  <2>1. [w.peer EXCEPT ![c].said = <<>>] = peers
    BY <1>1, WorldFields
  <2> QED
    BY <1>1, <2>1 DEF Cleanup, Worlds
<1> HIDE DEF fds, at, said
<1>4. conns \in [Client -> Conn] /\ peers \in [Client -> PeerType]
  BY <1>1, <1>2, WorldFields
<1>5. /\ conns[c] = at /\ peers[c] = said
      /\ \A d \in Client \ {c} : conns[d] = w.conn[d] /\ peers[d] = w.peer[d]
  BY <1>1, WorldFields
<1> HIDE DEF conns, peers
<1>6. /\ v \in Worlds /\ v.list = w.list /\ v.round = w.round /\ v.pending = w.pending
      /\ v.open = fds /\ v.conn = conns /\ v.peer = peers
  BY <1>1, <1>2, <1>3, <1>4 DEF Worlds
<1>7. \A d \in Client : IsOpen(v, d) <=> d # c /\ IsOpen(w, d)
  BY <1>2, <1>5, <1>6 DEF IsOpen
<1>8. \A d \in Client : IsOpen(v, d) => v.conn[d].fd = w.conn[d].fd
  BY <1>5, <1>6, <1>7
<1>9. Live(v, b) = Live(w, b)
  BY <1>6 DEF Live
<1>10. FdInv(v)
  <2>1. IsOpen(w, c)
    BY DEF Good, HandlerInv
  <2>2. w.open = {w.conn[d].fd : d \in {e \in Client : IsOpen(w, e)}}
    BY DEF Good, FdInv
  <2>3. \A d \in Client : IsOpen(v, d) => w.conn[d].fd # w.conn[c].fd
    BY <1>7, <2>1 DEF Good, FdInv
  <2>4. v.open = {v.conn[d].fd : d \in {e \in Client : IsOpen(v, e)}}
    BY <1>6, <1>7, <1>8, <2>2, <2>3 DEF fds
  <2> QED
    BY <1>7, <1>8, <2>4 DEF Good, FdInv
<1>11. HandlerInv(v, b, {})
  <2>1. \A i \in Live(w, b) : w.list[i].of # c /\ Serves(w, w.list[i])
    BY DEF Good, HandlerInv
  <2>2. \A i \in Live(v, b) : Serves(v, v.list[i])
    BY <1>6, <1>7, <1>8, <1>9, <2>1 DEF Serves
  <2>3. \A d \in Client : IsOpen(v, d) => \E i \in Live(v, b) : v.list[i].of = d
    BY <1>6, <1>7, <1>9 DEF Good, HandlerInv
  <2>4. \A i, j \in Live(v, b) : v.list[i].of = v.list[j].of /\ v.list[i].of \in Client => i = j
    BY <1>6, <1>9 DEF Good, HandlerInv
  <2> QED
    BY <2>2, <2>3, <2>4 DEF HandlerInv
<1>12. ReadyInv(v)
  BY <1>6 DEF Good, ReadyInv, Due
<1>13. \A d \in Client : v.peer[d].heard <= SendBuf
  BY <1>2, <1>5, <1>6 DEF Good
<1> QED
  BY <1>6, <1>10, <1>11, <1>12, <1>13 DEF Good

\* A sequence with one more element at its head.
LEMMA AtHead ==
  ASSUME NEW S, NEW s \in Seq(S), NEW h \in S, NEW q, q = <<h>> \o s
  PROVE  /\ q \in Seq(S) /\ Len(q) = Len(s) + 1 /\ q[1] = h
         /\ \A i \in 1 .. Len(s) : q[i + 1] = s[i]
<1> DEFINE one == <<h>>
<1>1. one \in Seq(S) /\ Len(one) = 1 /\ one[1] = h /\ q = one \o s /\ Len(s) \in Nat
  BY LenProperties
<1> HIDE DEF one
<1>2. /\ one \o s \in Seq(S) /\ Len(one \o s) = Len(one) + Len(s)
      /\ \A i \in 1 .. Len(one) + Len(s) : (one \o s)[i] = IF i <= Len(one) THEN one[i] ELSE s[i - Len(one)]
  BY <1>1, ConcatProperties
<1>3. \A i \in 1 .. Len(s) : /\ i + 1 \in 1 .. Len(one) + Len(s) /\ ~ (i + 1 <= Len(one))
                              /\ i + 1 - Len(one) = i
  BY <1>1
<1>4. 1 \in 1 .. Len(one) + Len(s) /\ 1 <= Len(one)
  BY <1>1
<1> QED
  BY <1>1, <1>2, <1>3, <1>4

\* Event_AddHandler, of a handler for a client that has none.
LEMMA AddIsGood ==
  ASSUME NEW w, NEW b, NEW c \in Client, Good(w, b, {c}), w.round.at # 0,
         NEW h \in Handler, ~ h.deleted, h.kind # "accept", h.of = c, h.fd = w.conn[c].fd,
         NEW v, v = Event_AddHandler(w, h)
  PROVE  /\ Good(v, b, {}) /\ v.round.at = w.round.at + 1
         /\ v.list[v.round.at] = w.list[w.round.at]
<1>1. w \in Worlds /\ w.list \in Seq(Handler) /\ Len(w.list) \in Nat /\ w.round \in Rounds /\ w.round.at \in Nat
      /\ w.round.at \in 1 .. Len(w.list)
  BY WorldFields DEF Good
<1> DEFINE one == <<h>>
           q == one \o w.list
           n == w.round.at + 1
           r == [w.round EXCEPT !.at = n]
<1>2. /\ q \in Seq(Handler) /\ Len(q) = Len(w.list) + 1 /\ q[1] = h
      /\ \A i \in 1 .. Len(w.list) : q[i + 1] = w.list[i]
  BY <1>1, AtHead
<1>3. v = [w EXCEPT !.list = q, !.round = r]
  BY <1>1 DEF Event_AddHandler, Worlds
<1> HIDE DEF one, q
<1>4. r \in Rounds /\ r.at = n /\ r.rd = w.round.rd /\ r.wr = w.round.wr /\ r.ready = w.round.ready
  BY <1>1 DEF Rounds
<1> HIDE DEF r
<1>5. /\ v \in Worlds /\ v.list = q /\ v.round = r /\ v.pending = w.pending /\ v.open = w.open
      /\ v.conn = w.conn /\ v.peer = w.peer
  BY <1>1, <1>2, <1>3, <1>4 DEF Worlds
<1>6. \A i \in 1 .. Len(q) : i # 1 => i - 1 \in 1 .. Len(w.list) /\ q[i] = w.list[i - 1]
  <2> SUFFICES ASSUME NEW i \in 1 .. Len(q), i # 1 PROVE i - 1 \in 1 .. Len(w.list) /\ q[i] = w.list[i - 1]
    OBVIOUS
  <2>1. i - 1 \in 1 .. Len(w.list) /\ (i - 1) + 1 = i
    BY <1>1, <1>2
  <2> QED
    BY <1>2, <2>1
<1>7. \A i \in 1 .. Len(w.list) : i + 1 \in 1 .. Len(q) /\ q[i + 1] = w.list[i]
  BY <1>1, <1>2
<1>8. 1 \in Live(v, b) /\ v.list[1] = h
  BY <1>1, <1>2, <1>4, <1>5 DEF Live
<1>9. \A i \in Live(v, b) : i # 1 => i - 1 \in Live(w, b) /\ v.list[i] = w.list[i - 1]
  <2> SUFFICES ASSUME NEW i \in Live(v, b), i # 1 PROVE i - 1 \in Live(w, b) /\ v.list[i] = w.list[i - 1]
    OBVIOUS
  <2>1. i \in 1 .. Len(q) /\ ~ q[i].deleted /\ ~ (b = "within" /\ i = n)
    BY <1>4, <1>5 DEF Live
  <2>2. i - 1 \in 1 .. Len(w.list) /\ q[i] = w.list[i - 1]
    BY <1>6, <2>1
  <2>3. i - 1 = w.round.at => i = n
    BY <1>1, <2>1, <2>2
  <2> QED
    BY <1>5, <2>1, <2>2, <2>3 DEF Live
<1>10. \A i \in Live(w, b) : i + 1 \in Live(v, b) /\ v.list[i + 1] = w.list[i]
  <2> SUFFICES ASSUME NEW i \in Live(w, b) PROVE i + 1 \in Live(v, b) /\ v.list[i + 1] = w.list[i]
    OBVIOUS
  <2>1. i \in 1 .. Len(w.list) /\ ~ w.list[i].deleted /\ ~ (b = "within" /\ i = w.round.at)
    BY DEF Live
  <2>2. i + 1 \in 1 .. Len(q) /\ q[i + 1] = w.list[i]
    BY <1>7, <2>1
  <2>3. i + 1 = n => i = w.round.at
    BY <1>1, <2>1
  <2> QED
    BY <1>4, <1>5, <2>1, <2>2, <2>3 DEF Live
<1>11. FdInv(v)
  BY <1>5 DEF Good, FdInv, IsOpen
<1>12. HandlerInv(v, b, {})
  <2>1. IsOpen(w, c) /\ \A i \in Live(w, b) : w.list[i].of # c /\ Serves(w, w.list[i])
    BY DEF Good, HandlerInv
  <2>2. \A g : Serves(v, g) <=> Serves(w, g)
    BY <1>5 DEF Serves, IsOpen
  <2>3. Serves(w, h)
    BY <2>1 DEF Serves
  <2>4. \A i \in Live(v, b) : Serves(v, v.list[i])
    BY <1>8, <1>9, <2>1, <2>2, <2>3
  <2>5. \A i, j \in Live(v, b) : v.list[i].of = v.list[j].of /\ v.list[i].of \in Client => i = j
    <3> SUFFICES ASSUME NEW i \in Live(v, b), NEW j \in Live(v, b),
                        v.list[i].of = v.list[j].of, v.list[i].of \in Client
                 PROVE  i = j
      OBVIOUS
    <3>1. CASE i = 1
      BY <1>8, <1>9, <2>1, <3>1
    <3>2. CASE j = 1
      BY <1>8, <1>9, <2>1, <3>2
    <3>3. CASE i # 1 /\ j # 1
      <4>1. i - 1 \in Live(w, b) /\ j - 1 \in Live(w, b) /\ v.list[i] = w.list[i - 1] /\ v.list[j] = w.list[j - 1]
        BY <1>9, <3>3
      <4>2. i - 1 = j - 1
        BY <4>1 DEF Good, HandlerInv
      <4>3. i \in Nat /\ j \in Nat
        BY DEF Live
      <4> QED
        BY <4>2, <4>3
    <3> QED
      BY <3>1, <3>2, <3>3
  <2>6. \A d \in Client : IsOpen(v, d) => \E i \in Live(v, b) : v.list[i].of = d
    <3> SUFFICES ASSUME NEW d \in Client, IsOpen(v, d) PROVE \E i \in Live(v, b) : v.list[i].of = d
      OBVIOUS
    <3>1. CASE d = c
      BY <1>8, <3>1
    <3>2. CASE d # c
      <4>1. PICK i \in Live(w, b) : w.list[i].of = d
        BY <1>5, <3>2 DEF Good, HandlerInv, IsOpen
      <4> QED
        BY <1>10, <4>1
    <3> QED
      BY <3>1, <3>2
  <2> QED
    BY <2>4, <2>5, <2>6 DEF HandlerInv
<1>13. ReadyInv(v)
  <2> SUFFICES ASSUME NEW i \in 1 .. Len(q), i >= n, Due(v, q[i]) PROVE q[i].of \in r.ready
    BY <1>4, <1>5 DEF ReadyInv
  <2>1. i # 1
    BY <1>1
  <2>2. i - 1 \in 1 .. Len(w.list) /\ q[i] = w.list[i - 1] /\ i - 1 >= w.round.at
    BY <1>1, <1>6, <2>1
  <2>3. Due(w, w.list[i - 1])
    BY <1>4, <1>5, <2>2 DEF Due
  <2> QED
    BY <1>4, <2>2, <2>3 DEF Good, ReadyInv
<1>14. v.pending = (\E i \in 1 .. Len(v.list) : v.list[i].deleted)
  <2>1. (\E i \in 1 .. Len(w.list) : w.list[i].deleted) <=> (\E i \in 1 .. Len(q) : q[i].deleted)
    BY <1>2, <1>6, <1>7
  <2> QED
    BY <1>5, <2>1 DEF Good
<1>15. v.list[v.round.at] = w.list[w.round.at] /\ v.round.at <= Len(v.list)
  BY <1>1, <1>2, <1>4, <1>5
<1> QED
  BY <1>4, <1>5, <1>11, <1>12, <1>13, <1>14, <1>15 DEF Good

\* The handler whose callback runs.
Runs(w, h) == w.round.at # 0 /\ h = w.list[w.round.at] /\ ~ h.deleted

\* The callback of a handler that reads or writes begins: it will delete the handler.
LEMMA HandlerLeft ==
  ASSUME NEW w, Good(w, "between", {}), NEW h, Runs(w, h), h.kind # "accept", NEW c, c = h.of
  PROVE  /\ c \in Client /\ Good(w, "within", {c}) /\ IsOpen(w, c)
         /\ w.round.at \in 1 .. Len(w.list) /\ h.n \in Nat
<1> DEFINE k == w.round.at
<1>1. k \in 1 .. Len(w.list) /\ k \in Live(w, "between") /\ h = w.list[k]
  BY WorldFields DEF Good, Live, Runs
<1>2. Live(w, "within") = Live(w, "between") \ {k}
  BY DEF Live
<1> HIDE DEF k
<1>3. Serves(w, w.list[k])
  BY <1>1 DEF Good, HandlerInv
<1>4. c \in Client /\ IsOpen(w, c)
  BY <1>1, <1>3 DEF Serves
<1>5. \A i \in Live(w, "within") : w.list[i].of # c
  BY <1>1, <1>2, <1>4 DEF Good, HandlerInv
<1>6. HandlerInv(w, "within", {c})
  BY <1>1, <1>2, <1>4, <1>5 DEF Good, HandlerInv
<1>7. h.n \in Nat
  BY <1>1, WorldFields DEF Good
<1> QED
  BY <1>1, <1>4, <1>6, <1>7 DEF Good, k

\* Event_DelHandler, of the handler that runs.
LEMMA DelIsGood ==
  ASSUME NEW w, Good(w, "within", {}), w.round.at # 0, NEW v, v = Event_DelHandler(w)
  PROVE  Good(v, "between", {}) /\ v.round.at # 0
<1> DEFINE k == w.round.at
           g == [w.list[k] EXCEPT !.deleted = TRUE]
           q == [w.list EXCEPT ![k] = g]
           yes == TRUE
<1>1. /\ w \in Worlds /\ w.list \in Seq(Handler) /\ Len(w.list) \in Nat /\ DOMAIN w.list = 1 .. Len(w.list)
      /\ k \in 1 .. Len(w.list) /\ \A i \in 1 .. Len(w.list) : w.list[i] \in Handler
  BY WorldFields DEF Good
<1>2. g \in Handler /\ g.deleted /\ g.of = w.list[k].of /\ g.kind = w.list[k].kind /\ g.fd = w.list[k].fd
  BY <1>1 DEF Handler
<1>3. v = [w EXCEPT !.list = q, !.pending = yes]
  BY <1>1 DEF Event_DelHandler, Worlds
<1> HIDE DEF g, k
<1>4. /\ q \in Seq(Handler) /\ Len(q) = Len(w.list) /\ q[k] = g
      /\ \A i \in 1 .. Len(w.list) : i # k => q[i] = w.list[i]
  BY <1>1, <1>2, ExceptSeq
<1> HIDE DEF q
<1>5. /\ v \in Worlds /\ v.list = q /\ v.round = w.round /\ v.pending = TRUE /\ v.open = w.open
      /\ v.conn = w.conn /\ v.peer = w.peer
  BY <1>1, <1>3, <1>4 DEF Worlds
<1>6. Live(v, "between") = Live(w, "within") /\ \A i \in Live(v, "between") : v.list[i] = w.list[i]
  BY <1>1, <1>2, <1>4, <1>5 DEF Live, k
<1>7. FdInv(v)
  BY <1>5 DEF Good, FdInv, IsOpen
<1>8. HandlerInv(v, "between", {})
  <2>1. HandlerInv(w, "within", {})
    BY DEF Good
  <2>2. \A f : Serves(v, f) <=> Serves(w, f)
    BY <1>5 DEF Serves, IsOpen
  <2>3. \A c \in Client : IsOpen(v, c) <=> IsOpen(w, c)
    BY <1>5 DEF IsOpen
  <2> QED
    BY <1>6, <2>1, <2>2, <2>3 DEF HandlerInv
<1>9. ReadyInv(v)
  <2> SUFFICES ASSUME NEW i \in 1 .. Len(q), i >= w.round.at, Due(v, q[i]) PROVE q[i].of \in w.round.ready
    BY <1>5 DEF ReadyInv
  <2>1. i # k /\ q[i] = w.list[i]
    BY <1>2, <1>4 DEF Due
  <2>2. Due(w, w.list[i])
    BY <1>5, <2>1 DEF Due
  <2> QED
    BY <1>4, <2>1, <2>2 DEF Good, ReadyInv
<1>10. v.pending = (\E i \in 1 .. Len(v.list) : v.list[i].deleted)
  BY <1>1, <1>2, <1>4, <1>5
<1>11. v.round.at <= Len(v.list) /\ \A d \in Client : v.peer[d].heard <= SendBuf
  BY <1>4, <1>5 DEF Good
<1> QED
  BY <1>5, <1>7, <1>8, <1>9, <1>10, <1>11 DEF Good

\* EventTcp_ReadBuf and EventTcp_WriteBuf, for a client without a handler.
LEMMA BufIsGood ==
  ASSUME NEW w, NEW b, NEW c \in Client, Good(w, b, {c}), w.round.at # 0, NEW n \in Nat, NEW fails,
         NEW v, v = ReadBuf(w, c, fails) \/ v = WriteBuf(w, c, n, fails)
  PROVE  Good(v, b, {}) /\ v.round.at # 0
<1> DEFINE r == [kind |-> "read", fd |-> w.conn[c].fd, of |-> c, n |-> 0, deleted |-> FALSE]
           s == [kind |-> "write", fd |-> w.conn[c].fd, of |-> c, n |-> n, deleted |-> FALSE]
<1>1. w.conn[c].fd \in {0} \cup Fd /\ w.round.at \in Nat
  BY WorldFields DEF Good, Conn
<1>2. r \in Handler /\ s \in Handler
  BY <1>1 DEF Handler
<1>3. CASE v = Cleanup(w, c)
  BY <1>3, CleanupIsGood
<1>4. CASE v = Event_AddHandler(w, r)
  <2>1. ~ r.deleted /\ r.kind # "accept" /\ r.of = c /\ r.fd = w.conn[c].fd
    OBVIOUS
  <2> HIDE DEF r
  <2>2. Good(v, b, {}) /\ v.round.at = w.round.at + 1
    BY <1>2, <1>4, <2>1, AddIsGood
  <2> QED
    BY <1>1, <2>2
<1>5. CASE v = Event_AddHandler(w, s)
  <2>1. ~ s.deleted /\ s.kind # "accept" /\ s.of = c /\ s.fd = w.conn[c].fd
    OBVIOUS
  <2> HIDE DEF s
  <2>2. Good(v, b, {}) /\ v.round.at = w.round.at + 1
    BY <1>2, <1>5, <2>1, AddIsGood
  <2> QED
    BY <1>1, <2>2
<1> QED
  BY <1>3, <1>4, <1>5 DEF ReadBuf, WriteBuf

\* What the lemmas below say of a world with other peers, a connection that is closing, or
\* another count of the handler that runs.
WithPeers(w, p) == [w EXCEPT !.peer = p]
Closing(w, c) == [w EXCEPT !.conn[c].closing = TRUE]
Counting(w, n) == [w EXCEPT !.list[w.round.at].n = n]

\* The clients may have sent and heard other things.
LEMMA PeersAreGood ==
  ASSUME NEW w, NEW b, NEW I \in SUBSET Client, Good(w, b, I),
         NEW p \in [Client -> PeerType], \A d \in Client : p[d].heard <= SendBuf,
         NEW v, v = WithPeers(w, p)
  PROVE  Good(v, b, I) /\ v.list = w.list /\ v.round = w.round /\ v.conn = w.conn /\ v.peer = p
<1>1. /\ v \in Worlds /\ v.list = w.list /\ v.round = w.round /\ v.pending = w.pending
      /\ v.open = w.open /\ v.conn = w.conn /\ v.peer = p
  BY DEF Good, Worlds, WithPeers
<1>2. Alike(w, v)
  BY <1>1 DEF Alike, IsOpen
<1> QED
  BY <1>1, <1>2, AlikeIsGood

\* A connection may be marked as closing.
LEMMA ClosingIsGood ==
  ASSUME NEW w, NEW b, NEW c \in Client, NEW I \in SUBSET Client, Good(w, b, I),
         NEW v, v = Closing(w, c)
  PROVE  Good(v, b, I) /\ v.list = w.list /\ v.round = w.round /\ v.peer = w.peer
<1> DEFINE k == [w.conn[c] EXCEPT !.closing = TRUE]
           p == [w.conn EXCEPT ![c] = k]
<1>1. w \in Worlds /\ w.conn \in [Client -> Conn]
  BY WorldFields DEF Good
<1>2. k \in Conn /\ k.at = w.conn[c].at /\ k.fd = w.conn[c].fd
  BY <1>1 DEF Conn
<1>3. v = [w EXCEPT !.conn = p]
  BY <1>1 DEF Worlds, Closing
<1> HIDE DEF k
<1>4. p \in [Client -> Conn] /\ \A d \in Client : p[d].at = w.conn[d].at /\ p[d].fd = w.conn[d].fd
  BY <1>1, <1>2
<1> HIDE DEF p
<1>5. /\ v \in Worlds /\ v.list = w.list /\ v.round = w.round /\ v.pending = w.pending
      /\ v.open = w.open /\ v.conn = p /\ v.peer = w.peer
  BY <1>1, <1>3, <1>4 DEF Worlds
<1>6. Alike(w, v)
  BY <1>4, <1>5 DEF Alike, IsOpen, Good
<1> QED
  BY <1>5, <1>6, AlikeIsGood

-----------------------------------------------------------------------------
(* The callbacks.                                                           *)

\* handle_accept: the number that accept returns is that of no other connection.
LEMMA AcceptIsGood ==
  ASSUME SocketAssumption, NEW w, Good(w, "between", {}), w.round.at # 0,
         NEW c \in Client, w.conn[c].at = "waiting", NEW fails, NEW v, v = handle_accept(w, c, fails)
  PROVE  Good(v, "between", {})
<1>1. w \in Worlds /\ w.conn \in [Client -> Conn] /\ w.open \in SUBSET Fd /\ w.conn[c] \in Conn
  BY WorldFields DEF Good
<1>2. CASE Fd \subseteq w.open
  BY <1>2 DEF handle_accept
<1>3. CASE ~ (Fd \subseteq w.open)
  <2> DEFINE fd == Min(Fd \ w.open)
             k == [[w.conn[c] EXCEPT !.at = "open"] EXCEPT !.fd = fd]
             p == [w.conn EXCEPT ![c] = k]
             fds == w.open \cup {fd}
             u == [w EXCEPT !.open = fds, !.conn = p]
  <2>1. fd \in Fd /\ fd \notin w.open
    <3>1. (Fd \ w.open) \subseteq Nat /\ Fd \ w.open # {}
      BY <1>3 DEF SocketAssumption
    <3>2. fd \in Fd \ w.open
      BY <3>1, MinIs
    <3> QED
      BY <3>2
  <2>2. v = ReadBuf([w EXCEPT !.open = @ \cup {fd}, !.conn[c].at = "open", !.conn[c].fd = fd], c, fails)
    BY <1>3 DEF handle_accept, control_socket_acceptor
  <2> HIDE DEF fd
  <2>3. [w EXCEPT !.open = @ \cup {fd}, !.conn[c].at = "open", !.conn[c].fd = fd] = u
    BY <1>1 DEF Worlds
  <2>4. k \in Conn /\ k.at = "open" /\ k.fd = fd
    BY <1>1, <2>1 DEF Conn
  <2> HIDE DEF k
  <2>5. p \in [Client -> Conn] /\ p[c] = k /\ \A d \in Client \ {c} : p[d] = w.conn[d]
    BY <1>1, <2>4
  <2>6. fds \in SUBSET Fd
    BY <1>1, <2>1
  <2> HIDE DEF p
  <2>7. /\ u \in Worlds /\ u.list = w.list /\ u.round = w.round /\ u.pending = w.pending
        /\ u.open = fds /\ u.conn = p /\ u.peer = w.peer
    BY <1>1, <2>5, <2>6 DEF Worlds
  <2> HIDE DEF u
  <2>8. Live(u, "between") = Live(w, "between")
    BY <2>7 DEF Live
  <2>9. ~ IsOpen(w, c) /\ IsOpen(u, c) /\ u.conn[c].fd = fd
    BY <2>4, <2>5, <2>7 DEF IsOpen
  <2>10. \A d \in Client \ {c} : (IsOpen(u, d) <=> IsOpen(w, d)) /\ u.conn[d].fd = w.conn[d].fd
    BY <2>5, <2>7 DEF IsOpen
  <2>11. FdInv(u)
    <3>1. w.open = {w.conn[d].fd : d \in {e \in Client : IsOpen(w, e)}}
      BY DEF Good, FdInv
    <3>2. \A d \in Client \ {c} : IsOpen(u, d) => u.conn[d].fd # fd
      BY <2>1, <2>10, <3>1
    <3>3. u.open = {u.conn[d].fd : d \in {e \in Client : IsOpen(u, e)}}
      BY <2>7, <2>9, <2>10, <3>1
    <3>4. \A d, e \in Client : IsOpen(u, d) /\ IsOpen(u, e) /\ d # e => u.conn[d].fd # u.conn[e].fd
      BY <2>9, <2>10, <3>2 DEF Good, FdInv
    <3> QED
      BY <3>3, <3>4 DEF FdInv
  <2>12. HandlerInv(u, "between", {c})
    <3>1. HandlerInv(w, "between", {})
      BY DEF Good
    <3>2. \A i \in Live(w, "between") : Serves(w, w.list[i]) /\ w.list[i] \in Handler
      BY <3>1, WorldFields DEF HandlerInv, Good, Live
    <3>3. NoClient \notin Client
      BY DEF SocketAssumption
    <3>4. \A i \in Live(w, "between") : w.list[i].of # c
      BY <2>9, <3>2, <3>3 DEF Serves
    <3>5. \A i \in Live(w, "between") : Serves(u, w.list[i])
      BY <2>10, <3>2, <3>4 DEF Serves
    <3> QED
      BY <2>7, <2>8, <2>9, <2>10, <3>1, <3>4, <3>5 DEF HandlerInv
  <2>13. ReadyInv(u)
    BY <2>7 DEF Good, ReadyInv, Due
  <2>14. Good(u, "between", {c})
    BY <2>7, <2>11, <2>12, <2>13 DEF Good
  <2>15. u.round.at # 0 /\ v = ReadBuf(u, c, fails)
    BY <2>2, <2>3, <2>7
  <2>16. 0 \in Nat
    OBVIOUS
  <2> QED
    BY <2>14, <2>15, <2>16, BufIsGood
<1> QED
  BY <1>2, <1>3

\* control_socket_read, for a client whose handler is about to be deleted.
LEMMA ReadIsGood ==
  ASSUME NEW w, NEW c \in Client, Good(w, "within", {c}), w.round.at # 0, NEW quits \in BOOLEAN,
         NEW n \in Nat, NEW fails, NEW v, v = control_socket_read(w, c, quits, n, fails)
  PROVE  Good(v, "within", {}) /\ v.round.at # 0
<1> DEFINE u == IF quits THEN Closing(w, c) ELSE w
<1>1. Good(u, "within", {c}) /\ u.round.at # 0
  <2>1. CASE ~ quits
    BY <2>1
  <2>2. CASE quits
    <3>1. u = Closing(w, c)
      BY <2>2
    <3> HIDE DEF u
    <3>2. Good(u, "within", {c}) /\ u.round = w.round
      <4>1. {c} \in SUBSET Client
        OBVIOUS
      <4> QED
        BY <3>1, <4>1, ClosingIsGood
    <3> QED
      BY <3>2
  <2> QED
    BY <2>1, <2>2
<1>2. v = WriteBuf(u, c, n, fails) \/ v = ReadBuf(u, c, fails) \/ v = Cleanup(u, c)
  BY DEF control_socket_read, Closing
<1> HIDE DEF u
<1>3. CASE v = Cleanup(u, c)
  BY <1>1, <1>3, CleanupIsGood
<1> QED
  BY <1>1, <1>2, <1>3, BufIsGood

\* The handler that runs may count other pieces.
LEMMA CountIsGood ==
  ASSUME NEW w, Good(w, "between", {}), w.round.at # 0, NEW n \in Nat,
         NEW v, v = Counting(w, n)
  PROVE  Good(v, "between", {})
<1> DEFINE k == w.round.at
           g == [w.list[k] EXCEPT !.n = n]
           q == [w.list EXCEPT ![k] = g]
<1>1. /\ w \in Worlds /\ w.list \in Seq(Handler) /\ Len(w.list) \in Nat /\ DOMAIN w.list = 1 .. Len(w.list)
      /\ k \in 1 .. Len(w.list) /\ \A i \in 1 .. Len(w.list) : w.list[i] \in Handler
  BY WorldFields DEF Good
<1>2. /\ g \in Handler /\ g.deleted = w.list[k].deleted /\ g.of = w.list[k].of
      /\ g.kind = w.list[k].kind /\ g.fd = w.list[k].fd
  BY <1>1 DEF Handler
<1>3. v = [w EXCEPT !.list = q]
  BY <1>1 DEF Worlds, Counting
<1> HIDE DEF g, k
<1>4. /\ q \in Seq(Handler) /\ Len(q) = Len(w.list)
      /\ \A i \in 1 .. Len(w.list) : /\ q[i].deleted = w.list[i].deleted /\ q[i].of = w.list[i].of
                                     /\ q[i].kind = w.list[i].kind /\ q[i].fd = w.list[i].fd
  BY <1>1, <1>2, ExceptSeq
<1> HIDE DEF q
<1>5. /\ v \in Worlds /\ v.list = q /\ v.round = w.round /\ v.pending = w.pending /\ v.open = w.open
      /\ v.conn = w.conn /\ v.peer = w.peer
  BY <1>1, <1>3, <1>4 DEF Worlds
<1>6. Live(v, "between") = Live(w, "between")
  BY <1>4, <1>5 DEF Live
<1>7. FdInv(v)
  BY <1>5 DEF Good, FdInv, IsOpen
<1>8. HandlerInv(v, "between", {})
  <2>1. HandlerInv(w, "between", {})
    BY DEF Good
  <2>2. \A i \in Live(w, "between") : Serves(v, q[i])
    BY <1>4, <1>5, <2>1 DEF Serves, IsOpen, Live, HandlerInv
  <2>3. \A i \in Live(w, "between") : q[i].of = w.list[i].of
    BY <1>4 DEF Live
  <2>4. \A c \in Client : IsOpen(v, c) <=> IsOpen(w, c)
    BY <1>5 DEF IsOpen
  <2>5. \A i \in Live(v, "between") : Serves(v, v.list[i])
    BY <1>5, <1>6, <2>2
  <2>6. \A i, j \in Live(v, "between") : v.list[i].of = v.list[j].of /\ v.list[i].of \in Client => i = j
    BY <1>5, <1>6, <2>1, <2>3 DEF HandlerInv
  <2>7. \A c \in Client : IsOpen(v, c) => \E i \in Live(v, "between") : v.list[i].of = c
    <3> SUFFICES ASSUME NEW c \in Client, IsOpen(v, c) PROVE \E i \in Live(v, "between") : v.list[i].of = c
      OBVIOUS
    <3>1. PICK i \in Live(w, "between") : w.list[i].of = c
      BY <2>1, <2>4 DEF HandlerInv
    <3> QED
      BY <1>5, <1>6, <2>3, <3>1
  <2> QED
    BY <2>5, <2>6, <2>7 DEF HandlerInv
<1>9. ReadyInv(v)
  <2> SUFFICES ASSUME NEW i \in 1 .. Len(q), i >= w.round.at, Due(v, q[i]) PROVE q[i].of \in w.round.ready
    BY <1>5 DEF ReadyInv
  <2>1. Due(w, w.list[i])
    BY <1>4, <1>5 DEF Due
  <2> QED
    BY <1>4, <2>1 DEF Good, ReadyInv
<1>10. v.pending = (\E i \in 1 .. Len(v.list) : v.list[i].deleted)
  BY <1>4, <1>5 DEF Good
<1>11. v.round.at <= Len(v.list) /\ \A d \in Client : v.peer[d].heard <= SendBuf
  BY <1>4, <1>5 DEF Good
<1> QED
  BY <1>5, <1>7, <1>8, <1>9, <1>10, <1>11 DEF Good

\* A callback that closes the connection and ends.
LEMMA ClosedIsGood ==
  ASSUME NEW w, NEW c \in Client, Good(w, "within", {c}), w.round.at # 0,
         NEW v, v = Event_DelHandler(Cleanup(w, c))
  PROVE  Good(v, "between", {})
<1> DEFINE x == Cleanup(w, c)
<1>1. Good(x, "within", {}) /\ x.round = w.round
  BY CleanupIsGood
<1> HIDE DEF x
<1>2. x.round.at # 0
  BY <1>1
<1> QED
  BY <1>1, <1>2, DelIsGood DEF x

\* handle_readable.
LEMMA ReadableIsGood ==
  ASSUME NEW w, Good(w, "between", {}), NEW h, Runs(w, h), h.kind = "read", NEW c, c = h.of,
         NEW said, said = w.peer[c].said, NEW n \in Nat, NEW fails,
         NEW v, v = handle_readable(w, h, n, fails)
  PROVE  Good(v, "between", {})
<1> DEFINE k == w.round.at
           last == Min(Whole(w, h))
           quits == h.n + last = 1 /\ said[last] = "quit"
           rest == SubSeq(said, last + 1, Len(said))
           u == [w EXCEPT !.peer[c].said = rest]
<1>1. /\ c \in Client /\ Good(w, "within", {c}) /\ k \in 1 .. Len(w.list) /\ h.n \in Nat /\ k # 0
      /\ w.list[k] = h
  BY HandlerLeft DEF Runs
<1>2. /\ w \in Worlds /\ w.peer[c] \in PeerType /\ said \in Seq(Piece)
      /\ w.peer \in [Client -> PeerType] /\ w.list \in Seq(Handler)
  BY <1>1, WorldFields DEF Good
<1>3. Len(said) \in Nat /\ h.n \in Nat /\ DOMAIN said = 1 .. Len(said)
  <2>1. Len(said) \in Nat /\ h.n \in Nat
    BY <1>1, <1>2, WorldFields
  <2> HIDE DEF k
  <2> QED
    BY <1>2, <2>1, LenProperties
<1>4. CASE Whole(w, h) # {}
  <2>1. Whole(w, h) \subseteq 1 .. Len(said)
    BY <1>3 DEF Whole
  <2>2. last \in 1 .. Len(said)
    BY <1>4, <2>1, MinIs
  <2> HIDE DEF last
  <2>3. rest \in Seq(Piece)
    <3>1. \A i \in last + 1 .. Len(said) : i \in DOMAIN said
      BY <1>3, <2>2
    <3>2. \A i \in last + 1 .. Len(said) : said[i] \in Piece
      BY <1>2, <1>3, <3>1, ElementOfSeq
    <3>3. last + 1 \in Nat \ {0}
      BY <1>3, <2>2
    <3> QED
      BY <1>2, <1>3, <3>2, <3>3, SubSeqProperties
  <2> HIDE DEF rest
  <2> DEFINE g == [w.peer[c] EXCEPT !.said = rest]
             p == [w.peer EXCEPT ![c] = g]
  <2>4. g \in PeerType /\ g.heard = w.peer[c].heard
    BY <1>2, <2>3 DEF PeerType
  <2>5. u = WithPeers(w, p)
    BY <1>1, <1>2 DEF Worlds, WithPeers
  <2> HIDE DEF g
  <2>6. p \in [Client -> PeerType] /\ \A d \in Client : p[d].heard <= SendBuf
    BY <1>1, <1>2, <2>4 DEF Good
  <2> HIDE DEF p, u
  <2>7. Good(u, "within", {c}) /\ u.round = w.round
    BY <1>1, <2>5, <2>6, PeersAreGood
  <2> DEFINE x == control_socket_read(u, c, quits, n, fails)
  <2>8. v = Event_DelHandler(x)
    BY <1>4 DEF handle_readable, u, rest, last
  <2>9. quits \in BOOLEAN
    OBVIOUS
  <2> HIDE DEF quits
  <2>10. Good(x, "within", {}) /\ x.round.at # 0
    BY <1>1, <2>7, <2>9, ReadIsGood
  <2> HIDE DEF x
  <2> QED
    BY <2>8, <2>10, DelIsGood
<1>5. CASE Whole(w, h) = {} /\ ~ w.peer[c].there
  <2>1. v = Event_DelHandler(Cleanup(w, c))
    BY <1>5 DEF handle_readable
  <2> QED
    BY <1>1, <2>1, ClosedIsGood
<1>6. CASE Whole(w, h) = {} /\ w.peer[c].there
  <2> DEFINE m == h.n + Len(said)
             none == <<>>
             g == [w.peer[c] EXCEPT !.said = none]
             p == [w.peer EXCEPT ![c] = g]
             x == WithPeers(w, p)
  <2>1. v = [w EXCEPT !.list[k].n = @ + Len(said), !.peer[c].said = <<>>]
    BY <1>6 DEF handle_readable
  <2>2. none \in Seq(Piece)
    OBVIOUS
  <2>3. [w EXCEPT !.list[k].n = @ + Len(said), !.peer[c].said = <<>>]
          = [w EXCEPT !.list[k].n = m, !.peer[c].said = none]
    BY <1>1, <1>2
  <2> HIDE DEF none
  <2>4. g \in PeerType /\ g.heard = w.peer[c].heard
    BY <1>2, <2>2 DEF PeerType
  <2> HIDE DEF m
  <2>5. v = Counting(x, m)
    <3>1. x.round.at = k
      BY <1>2 DEF Worlds, WithPeers
    <3>2. w \in Worlds /\ w.peer \in [Client -> PeerType] /\ c \in Client
      BY <1>1, <1>2
    <3> HIDE DEF k
    <3>3. [w EXCEPT !.list[k].n = m, !.peer[c].said = none] = [x EXCEPT !.list[k].n = m]
      BY <3>2 DEF Worlds, WithPeers
    <3> HIDE DEF x, m, g, p
    <3>4. v = [x EXCEPT !.list[k].n = m]
      BY <2>1, <2>3, <3>3
    <3> QED
      BY <3>1, <3>4 DEF Counting
  <2> HIDE DEF g
  <2>6. p \in [Client -> PeerType] /\ \A d \in Client : p[d].heard <= SendBuf
    BY <1>1, <1>2, <2>4 DEF Good
  <2> HIDE DEF p, x
  <2>7. Good(x, "between", {}) /\ x.round = w.round /\ x.list = w.list
    BY <1>1, <2>6, PeersAreGood DEF x
  <2>8. m \in Nat
    BY <1>3 DEF m
  <2> QED
    BY <1>1, <2>5, <2>7, <2>8, CountIsGood
<1> QED
  BY <1>4, <1>5, <1>6

\* What write takes is no more than there is left to write, nor than the socket has room for.
LEMMA TakenIs ==
  ASSUME NEW a \in Nat, NEW e \in Nat, NEW n, n = Min({a, e})
  PROVE  n \in Nat /\ n <= a /\ n <= e
<1> DEFINE both == {a, e}
<1>1. both \subseteq Nat /\ both # {} /\ a \in both /\ e \in both
  OBVIOUS
<1> HIDE DEF both
<1>2. Min(both) \in both /\ Min(both) <= a /\ Min(both) <= e
  BY <1>1, MinIs
<1> QED
  BY <1>1, <1>2 DEF both

\* control_socket_write_complete.
LEMMA CompleteIsGood ==
  ASSUME NEW w, NEW c \in Client, Good(w, "within", {c}), w.round.at # 0, NEW fails,
         NEW v, v = Event_DelHandler(write_complete(w, c, fails))
  PROVE  Good(v, "between", {})
<1> DEFINE x == write_complete(w, c, fails)
<1>1. x = Cleanup(w, c) \/ x = ReadBuf(w, c, fails)
  BY DEF write_complete
<1>2. v = Event_DelHandler(x)
  OBVIOUS
<1> HIDE DEF x
<1>3. CASE x = Cleanup(w, c)
  BY <1>2, <1>3, ClosedIsGood
<1>4. CASE x = ReadBuf(w, c, fails)
  <2>1. 0 \in Nat
    OBVIOUS
  <2>2. Good(x, "within", {}) /\ x.round.at # 0
    BY <1>4, <2>1, BufIsGood
  <2> QED
    BY <1>2, <2>2, DelIsGood
<1> QED
  BY <1>1, <1>3, <1>4

\* handle_writeable.
LEMMA WriteableIsGood ==
  ASSUME NEW w, Good(w, "between", {}), NEW h, Runs(w, h), h.kind = "write", NEW c, c = h.of, SendBuf \in Nat,
         NEW n \in Nat, n <= h.n, w.peer[c].heard + n <= SendBuf,
         NEW fails, NEW v, v = handle_writeable(w, h, n, fails)
  PROVE  Good(v, "between", {})
<1> DEFINE k == w.round.at
           m == w.peer[c].heard + n
           u == [w EXCEPT !.peer[c].heard = @ + n]
<1>1. /\ c \in Client /\ Good(w, "within", {c}) /\ k \in 1 .. Len(w.list) /\ h.n \in Nat /\ k # 0
      /\ w.list[k] = h
  BY HandlerLeft DEF Runs
<1>2. /\ w \in Worlds /\ w.peer[c] \in PeerType
      /\ w.peer \in [Client -> PeerType] /\ w.list \in Seq(Handler)
  BY <1>1, WorldFields DEF Good
<1>3. m \in Nat /\ m <= SendBuf /\ h.n - n \in Nat
  <2> DEFINE heard == w.peer[c].heard
             left == h.n
  <2>1. heard \in Nat /\ left \in Nat /\ heard + n <= SendBuf /\ n <= left
    BY <1>1, <1>2, WorldFields
  <2>2. m = heard + n /\ h.n = left
    OBVIOUS
  <2> HIDE DEF heard, left, m
  <2> QED
    BY <2>1, <2>2
<1> DEFINE g == [w.peer[c] EXCEPT !.heard = m]
           p == [w.peer EXCEPT ![c] = g]
<1>4. u = WithPeers(w, p)
  BY <1>1, <1>2 DEF Worlds, WithPeers
<1> HIDE DEF m
<1>5. g \in PeerType /\ g.heard = m
  BY <1>2, <1>3 DEF PeerType
<1> HIDE DEF g
<1>6. p \in [Client -> PeerType] /\ \A d \in Client : p[d].heard <= SendBuf
  BY <1>1, <1>2, <1>3, <1>5 DEF Good
<1> HIDE DEF p, u
<1>7. /\ Good(u, "within", {c}) /\ Good(u, "between", {}) /\ u.round = w.round /\ u.list = w.list
      /\ u.conn = w.conn
  BY <1>1, <1>4, <1>6, PeersAreGood
<1>8. CASE ~ w.peer[c].there
  <2>1. v = Event_DelHandler(Cleanup(w, c))
    BY <1>8 DEF handle_writeable
  <2> QED
    BY <1>1, <2>1, ClosedIsGood
<1>9. CASE w.peer[c].there /\ n = h.n
  <2>1. v = Event_DelHandler(write_complete(u, c, fails))
    BY <1>9 DEF handle_writeable, u
  <2>2. u.round.at # 0
    BY <1>1, <1>7
  <2> QED
    BY <1>1, <1>7, <2>1, <2>2, CompleteIsGood
<1>10. CASE w.peer[c].there /\ n # h.n
  <2> DEFINE l == h.n - n
  <2>1. v = [u EXCEPT !.list[u.round.at].n = @ - n]
    BY <1>10 DEF handle_writeable, Written, u
  <2>2. u.list[u.round.at].n = h.n /\ u \in Worlds /\ u.list \in Seq(Handler) /\ k \in DOMAIN u.list
    BY <1>1, <1>2, <1>7, WorldFields DEF Good
  <2>3. v = Counting(u, l)
    BY <1>7, <2>1, <2>2 DEF Worlds, Counting
  <2>4. l \in Nat
    BY <1>3
  <2> HIDE DEF l
  <2> QED
    BY <1>1, <1>7, <2>3, <2>4, CountIsGood
<1> QED
  BY <1>8, <1>9, <1>10

-----------------------------------------------------------------------------
(* The walk.                                                                *)

\* DoPendingChanges, at the end of a round.
LEMMA DoneIsGood ==
  ASSUME NEW w, Good(w, "between", {}), w.round = NoRound, NEW v, v = DoPendingChanges(w)
  PROVE  Rests(v)
<1> DEFINE I == Live(w, "between")
           gone == {i \in DOMAIN w.list : ~ w.list[i].deleted}
           q == IF w.pending THEN Selected(w.list, gone) ELSE w.list
           r(i) == IF w.pending THEN Rank(I, i) ELSE i
           no == FALSE
<1>1. /\ w \in Worlds /\ w.list \in Seq(Handler) /\ Len(w.list) \in Nat /\ DOMAIN w.list = 1 .. Len(w.list)
      /\ \A i \in 1 .. Len(w.list) : w.list[i] \in Handler
  BY WorldFields DEF Good
<1>2. /\ I \in SUBSET (1 .. Len(w.list)) /\ gone = I /\ \A i \in I : ~ w.list[i].deleted
      /\ w.pending = (\E i \in 1 .. Len(w.list) : w.list[i].deleted)
      /\ ~ w.pending => I = 1 .. Len(w.list)
  BY <1>1 DEF Live, Good
<1>3. /\ v = [w EXCEPT !.list = q, !.pending = no]
  <2>1. CASE w.pending
    BY <1>1, <2>1 DEF DoPendingChanges, Worlds
  <2>2. CASE ~ w.pending
    BY <1>1, <2>2 DEF DoPendingChanges, Worlds
  <2> QED
    BY <2>1, <2>2
<1> HIDE DEF I, gone
<1>4. /\ q \in Seq(Handler)
      /\ \A i \in I : r(i) \in 1 .. Len(q) /\ q[r(i)] = w.list[i]
      /\ \A k \in 1 .. Len(q) : \E i \in I : r(i) = k /\ q[k] = w.list[i]
  <2>1. CASE w.pending
    <3> DEFINE l == w.list
               s == Selected(l, I)
    <3>3. l \in Seq(Handler) /\ I \in SUBSET (1 .. Len(l)) /\ s = Selected(l, I)
      BY <1>1, <1>2
    <3> HIDE DEF l, s, q, r
    <3>4. /\ s \in Seq(Handler) /\ \A i \in I : Rank(I, i) \in 1 .. Len(s) /\ s[Rank(I, i)] = l[i]
          /\ \A k \in 1 .. Len(s) : \E i \in I : Rank(I, i) = k /\ s[k] = l[i]
      BY <3>3, SelectedIs
    <3>1. /\ s \in Seq(Handler) /\ \A i \in I : Rank(I, i) \in 1 .. Len(s) /\ s[Rank(I, i)] = w.list[i]
          /\ \A k \in 1 .. Len(s) : \E i \in I : Rank(I, i) = k /\ s[k] = w.list[i]
      BY <3>4 DEF l
    <3>2. q = s /\ \A i : r(i) = Rank(I, i)
      BY <1>2, <2>1 DEF q, r, s, l
    <3> QED
      BY <3>1, <3>2
  <2>2. CASE ~ w.pending
    BY <1>1, <1>2, <2>2
  <2> QED
    BY <2>1, <2>2
<1> HIDE DEF q, r
<1>5. /\ v \in Worlds /\ v.list = q /\ v.round = NoRound /\ v.pending = FALSE /\ v.open = w.open
      /\ v.conn = w.conn /\ v.peer = w.peer
  BY <1>1, <1>3, <1>4 DEF Worlds
<1>6. \A k \in 1 .. Len(q) : ~ q[k].deleted
  BY <1>2, <1>4
<1>7. Live(v, "between") = 1 .. Len(q)
  BY <1>5, <1>6 DEF Live
<1>8. FdInv(v)
  BY <1>5 DEF Good, FdInv, IsOpen
<1>9. HandlerInv(v, "between", {})
  <2>1. /\ \A i \in I : Serves(w, w.list[i])
        /\ \A i, j \in I : w.list[i].of = w.list[j].of /\ w.list[i].of \in Client => i = j
        /\ \A c \in Client : IsOpen(w, c) => \E i \in I : w.list[i].of = c
    BY DEF Good, HandlerInv, I
  <2>2. \A f : Serves(v, f) <=> Serves(w, f)
    BY <1>5 DEF Serves, IsOpen
  <2>3. \A k \in 1 .. Len(q) : Serves(v, q[k])
    BY <1>4, <2>1, <2>2
  <2>4. \A k, l \in 1 .. Len(q) : q[k].of = q[l].of /\ q[k].of \in Client => k = l
    <3> SUFFICES ASSUME NEW k \in 1 .. Len(q), NEW l \in 1 .. Len(q), q[k].of = q[l].of, q[k].of \in Client
                 PROVE  k = l
      OBVIOUS
    <3>1. PICK i \in I : r(i) = k /\ q[k] = w.list[i]
      BY <1>4
    <3>2. PICK j \in I : r(j) = l /\ q[l] = w.list[j]
      BY <1>4
    <3> QED
      BY <2>1, <3>1, <3>2
  <2>5. \A c \in Client : IsOpen(v, c) => \E k \in 1 .. Len(q) : q[k].of = c
    <3> SUFFICES ASSUME NEW c \in Client, IsOpen(v, c) PROVE \E k \in 1 .. Len(q) : q[k].of = c
      OBVIOUS
    <3>1. PICK i \in I : w.list[i].of = c
      BY <1>5, <2>1 DEF IsOpen
    <3> QED
      BY <1>4, <3>1
  <2> QED
    BY <1>5, <1>7, <2>3, <2>4, <2>5 DEF HandlerInv
<1>10. ReadyInv(v)
  BY <1>5 DEF ReadyInv, Due, NoRound
<1>11. v.round.at = 0 /\ 0 <= Len(q)
  <2>1. Len(q) \in Nat
    BY <1>4, LenProperties
  <2> QED
    BY <1>5, <2>1 DEF NoRound
<1>12. \A d \in Client : v.peer[d].heard <= SendBuf
  BY <1>5 DEF Good
<1>13. v.pending = (\E k \in 1 .. Len(v.list) : v.list[k].deleted)
  BY <1>5, <1>6
<1> QED
  BY <1>5, <1>8, <1>9, <1>10, <1>11, <1>12, <1>13 DEF Good, Rests

\* What a change of the round alone keeps.
LEMMA RoundIsGood ==
  ASSUME NEW w, Good(w, "between", {}), NEW r \in Rounds, r.at <= Len(w.list),
         NEW v, v = [w EXCEPT !.round = r], ReadyInv(v)
  PROVE  Good(v, "between", {}) /\ v.round = r /\ v.list = w.list
<1>1. /\ v \in Worlds /\ v.list = w.list /\ v.round = r /\ v.pending = w.pending /\ v.open = w.open
      /\ v.conn = w.conn /\ v.peer = w.peer
  BY DEF Good, Worlds
<1>2. Live(v, "between") = Live(w, "between")
  BY <1>1 DEF Live
<1>3. FdInv(v)
  BY <1>1 DEF Good, FdInv, IsOpen
<1>4. \A f : Serves(v, f) <=> Serves(w, f)
  BY <1>1 DEF Serves, IsOpen
<1>5. HandlerInv(v, "between", {})
  BY <1>1, <1>2, <1>4 DEF Good, HandlerInv, IsOpen
<1> QED
  BY <1>1, <1>3, <1>5 DEF Good

\* The walk goes on.
LEMMA WalksOnRests ==
  ASSUME NEW w, Good(w, "between", {}), NEW v, v = WalksOn(w)
  PROVE  Rests(v)
<1>1. /\ w \in Worlds /\ Len(w.list) \in Nat /\ w.round \in Rounds /\ w.round.at \in Nat
      /\ DOMAIN w.list = 1 .. Len(w.list)
  BY WorldFields DEF Good
<1>2. CASE Ahead(w) # {}
  <2> DEFINE m == Min(Ahead(w))
             r == [w.round EXCEPT !.at = m]
  <2>1. Ahead(w) \subseteq 1 .. Len(w.list)
    BY <1>1 DEF Ahead
  <2>2. m \in 1 .. Len(w.list) /\ m > w.round.at /\ Due(w, w.list[m])
    <3>1. m \in Ahead(w)
      BY <1>2, <2>1, MinIs
    <3> QED
      BY <2>1, <3>1 DEF Ahead
  <2>3. v = [w EXCEPT !.round = r]
    BY <1>1, <1>2 DEF WalksOn, Worlds
  <2> HIDE DEF m
  <2>4. r \in Rounds /\ r.at = m /\ r.rd = w.round.rd /\ r.wr = w.round.wr /\ r.ready = w.round.ready
    BY <1>1, <2>2 DEF Rounds
  <2> HIDE DEF r
  <2>5. v.list = w.list /\ v.round = r
    BY <1>1, <2>3 DEF Worlds
  <2>6. ReadyInv(v)
    <3> SUFFICES ASSUME NEW i \in 1 .. Len(w.list), i >= m, Due(v, w.list[i]) PROVE w.list[i].of \in w.round.ready
      BY <2>4, <2>5 DEF ReadyInv
    <3>1. i >= w.round.at
      BY <1>1, <2>2
    <3>2. Due(w, w.list[i])
      BY <2>4, <2>5 DEF Due
    <3> QED
      BY <3>1, <3>2 DEF Good, ReadyInv
  <2>7. Good(v, "between", {})
    BY <2>2, <2>3, <2>4, <2>6, RoundIsGood
  <2>8. ~ w.list[m].deleted /\ m # 0
    BY <2>2 DEF Due
  <2> QED
    BY <2>4, <2>5, <2>7, <2>8 DEF Rests
<1>3. CASE Ahead(w) = {}
  <2> DEFINE u == [w EXCEPT !.round = NoRound]
  <2>1. NoRound \in Rounds /\ NoRound.at = 0 /\ NoRound.rd = {} /\ NoRound.wr = {}
    BY DEF NoRound, Rounds
  <2>2. u.round = NoRound
    BY <1>1 DEF Worlds
  <2>3. v = DoPendingChanges(u)
    BY <1>3 DEF WalksOn
  <2>4. u = [w EXCEPT !.round = NoRound]
    OBVIOUS
  <2> HIDE DEF u
  <2>5. ReadyInv(u)
    BY <2>1, <2>2 DEF ReadyInv, Due
  <2>6. NoRound.at <= Len(w.list)
    BY <1>1, <2>1
  <2>7. Good(u, "between", {})
    BY <2>1, <2>4, <2>5, <2>6, RoundIsGood
  <2> QED
    BY <2>2, <2>3, <2>7, DoneIsGood
<1> QED
  BY <1>2, <1>3

\* The fields of the state's world.
LEMMA WorldIs ==
  /\ World.list = list /\ World.round = round /\ World.pending = pending /\ World.open = open
  /\ World.conn = conn /\ World.peer = peer
BY DEF World

\* select finds what is ready for every handler, and for no other connection.
LEMMA FoundIsGood ==
  ASSUME SocketAssumption, IInv, round.at = 0, NEW v, v = Found
  PROVE  Good(v, "between", {})
<1> DEFINE Rd(j) == list[j].kind \in {"accept", "read"}
           Wr(j) == list[j].kind \in {"write"}
           ready == {i \in DOMAIN list : Ready(list[i])}
           rd == {list[i].fd : i \in {j \in ready : Rd(j)}}
           wr == {list[i].fd : i \in {j \in ready : Wr(j)}}
           of == {list[i].of : i \in ready}
           r == [[[round EXCEPT !.rd = rd] EXCEPT !.wr = wr] EXCEPT !.ready = of]
           w == World
<1>1. v = [w EXCEPT !.round = r]
  BY DEF Found, World
<1>2. w \in Worlds /\ Good(w, "between", {}) /\ ~ pending
  BY WorldIs DEF IInv, Rests, Good
<1>3. /\ list \in Seq(Handler) /\ Len(list) \in Nat /\ DOMAIN list = 1 .. Len(list)
      /\ \A i \in 1 .. Len(list) : list[i] \in Handler /\ ~ list[i].deleted
      /\ round \in Rounds /\ open \in SUBSET Fd
  BY <1>2, WorldFields, WorldIs DEF Good
<1>4. ready \subseteq 1 .. Len(list)
  BY <1>3
<1> HIDE DEF ready, w
<1>5. rd \in SUBSET ({0} \cup Fd) /\ wr \in SUBSET ({0} \cup Fd) /\ of \in SUBSET (Client \cup {NoClient})
  <2>1. \A i \in 1 .. Len(list) : list[i].fd \in {0} \cup Fd /\ list[i].of \in Client \cup {NoClient}
    BY <1>3 DEF Handler
  <2> QED
    BY <1>4, <2>1
<1> HIDE DEF rd, wr, of
<1>6. r \in Rounds /\ r.at = round.at /\ r.rd = rd /\ r.wr = wr /\ r.ready = of
  BY <1>3, <1>5 DEF Rounds
<1> HIDE DEF r
<1>7. v.list = list /\ v.round = r
  BY <1>1, <1>2, WorldIs DEF Worlds, w
<1>8. \A i, j \in 1 .. Len(list) : list[i].fd = list[j].fd => list[i].of = list[j].of
  <2>1. \A i \in 1 .. Len(list) : Serves(w, list[i])
    BY <1>2, <1>3, WorldIs DEF Good, HandlerInv, Live, w
  <2>2. \A c \in Client : IsOpen(w, c) => w.conn[c].fd \in Fd
    BY <1>2, <1>3, WorldIs DEF Good, FdInv, w
  <2>3. \A c, d \in Client : IsOpen(w, c) /\ IsOpen(w, d) /\ w.conn[c].fd = w.conn[d].fd => c = d
    BY <1>2 DEF Good, FdInv
  <2>4. 0 \notin Fd
    BY DEF SocketAssumption
  <2> QED
    BY <2>1, <2>2, <2>3, <2>4 DEF Serves
<1>9. ReadyInv(v)
  <2> SUFFICES ASSUME NEW i \in 1 .. Len(list), Due(v, list[i]) PROVE list[i].of \in of
    BY <1>6, <1>7 DEF ReadyInv
  <2>1. list[i].fd \in rd \/ list[i].fd \in wr
    BY <1>6, <1>7 DEF Due
  <2>2. PICK j \in ready : list[i].fd = list[j].fd
    BY <2>1 DEF rd, wr
  <2> QED
    BY <1>4, <1>8, <2>2 DEF of
<1>10. r.at <= Len(w.list)
  BY <1>3, <1>6, WorldIs DEF w
<1> QED
  BY <1>1, <1>2, <1>6, <1>9, <1>10, RoundIsGood

-----------------------------------------------------------------------------
(* The steps.                                                               *)

\* The worlds that a state can become.
LEMMA BecomeIs ==
  ASSUME NEW w \in Worlds, Become(w)
  PROVE  World' = w
BY DEF Become, World, Worlds

\* At rest, and the same but for the clients.
LEMMA ClientsAreGood ==
  ASSUME IInv, Alike(World, World')
  PROVE  IInv'
<1> DEFINE w == World
           v == World'
<1>1. Rests(w) /\ Alike(w, v)
  BY DEF IInv
<1> HIDE DEF w, v
<1>2. {} \in SUBSET Client
  OBVIOUS
<1>3. Good(v, "between", {})
  BY <1>1, <1>2, AlikeIsGood DEF Rests
<1>4. Rests(v)
  BY <1>1, <1>3 DEF Rests, Alike
<1> QED
  BY <1>4 DEF IInv, v, Rests, World

\* It holds at the start.
LEMMA InitIsGood ==
  ASSUME SocketAssumption, Init
  PROVE  IInv
<1> DEFINE w == World
           one == <<Acceptor>>
           c0 == NoConn
           p0 == [there |-> FALSE, said |-> <<>>, heard |-> 0, sent |-> 0]
<1>1. /\ list = one /\ round = NoRound /\ pending = FALSE /\ open = {}
      /\ conn = [c \in Client |-> c0] /\ peer = [c \in Client |-> p0]
  BY DEF Init
<1>2. /\ Acceptor \in Handler /\ ~ Acceptor.deleted /\ Acceptor.kind = "accept" /\ Acceptor.of = NoClient
      /\ Acceptor.fd = 0
  BY DEF Acceptor, Handler
<1>3. one \in Seq(Handler) /\ Len(one) = 1 /\ one[1] = Acceptor
  BY <1>2
<1> HIDE DEF one
<1>4. /\ NoRound \in Rounds /\ NoRound.at = 0 /\ NoRound.rd = {} /\ NoRound.wr = {}
      /\ c0 \in Conn /\ c0.at # "open"
  BY DEF NoRound, Rounds, NoConn, Conn
<1>5. p0 \in PeerType /\ p0.heard = 0
  BY DEF PeerType
<1> HIDE DEF c0, p0
<1>6. w \in Worlds
  BY <1>1, <1>3, <1>4, <1>5 DEF World, Worlds
<1>7. \A c \in Client : ~ IsOpen(w, c) /\ w.peer[c].heard = 0
  BY <1>1, <1>4, <1>5, WorldIs DEF IsOpen, w
<1>8. w.list = one /\ w.round = NoRound /\ w.pending = FALSE /\ w.open = {}
  BY <1>1, WorldIs DEF w
<1> HIDE DEF w
<1>14. 1 .. Len(w.list) = {1} /\ w.list[1] = Acceptor
  <2>1. w.list = one
    BY <1>8
  <2>2. Len(w.list) = 1 /\ w.list[1] = Acceptor
    BY <1>3, <2>1
  <2>3. \A i \in 1 .. 1 : i = 1
    OBVIOUS
  <2> QED
    BY <2>2, <2>3
<1>9. FdInv(w)
  BY <1>7, <1>8 DEF FdInv
<1>10. HandlerInv(w, "between", {})
  <2>1. Live(w, "between") = {1}
    BY <1>2, <1>14 DEF Live
  <2>2. NoClient \notin Client
    BY DEF SocketAssumption
  <2>3. Serves(w, Acceptor)
    BY <1>2 DEF Serves
  <2> QED
    BY <1>2, <1>7, <1>14, <2>1, <2>2, <2>3 DEF HandlerInv
<1>11. ReadyInv(w)
  BY <1>4, <1>8 DEF ReadyInv, Due
<1>12. \A c \in Client : w.peer[c].heard <= SendBuf
  BY <1>7 DEF SocketAssumption
<1>13. w.pending = (\E i \in 1 .. Len(w.list) : w.list[i].deleted)
  BY <1>2, <1>8, <1>14
<1>15. Good(w, "between", {})
  <2>1. w.round.at <= Len(w.list)
    BY <1>3, <1>4, <1>8
  <2> QED
    BY <1>6, <1>9, <1>10, <1>11, <1>12, <1>13, <2>1 DEF Good
<1>16. Rests(w)
  BY <1>4, <1>8, <1>15 DEF Rests
<1> QED
  BY <1>16 DEF IInv, w

\* A change of one client and of its connection, which keeps the descriptor of an open one.
LEMMA ClientIsGood ==
  ASSUME IInv, NEW c \in Client, NEW k \in Conn, NEW p \in PeerType, UNCHANGED <<list, round, pending, open>>,
         conn' = [conn EXCEPT ![c] = k], peer' = [peer EXCEPT ![c] = p], p.heard <= SendBuf,
         k.at = "open" <=> conn[c].at = "open", k.at = "open" => k.fd = conn[c].fd
  PROVE  IInv'
<1>1. /\ list \in Seq(Handler) /\ round \in Rounds /\ pending \in BOOLEAN /\ open \in SUBSET Fd
      /\ conn \in [Client -> Conn] /\ peer \in [Client -> PeerType]
      /\ \A d \in Client : peer[d].heard <= SendBuf
  <2>1. Good(World, "between", {}) /\ World \in Worlds
    BY DEF IInv, Rests, Good
  <2> QED
    BY <2>1, WorldFields, WorldIs DEF Good
<1>2. /\ conn' \in [Client -> Conn] /\ peer' \in [Client -> PeerType]
      /\ conn'[c] = k /\ peer'[c] = p
      /\ \A d \in Client \ {c} : conn'[d] = conn[d] /\ peer'[d] = peer[d]
  BY <1>1
<1> DEFINE w == World
           v == World'
<1>3. /\ v.list = list /\ v.round = round /\ v.pending = pending /\ v.open = open
      /\ v.conn = conn' /\ v.peer = peer' /\ v \in Worlds
  BY <1>1, <1>2 DEF World, Worlds
<1>4. /\ w.list = list /\ w.round = round /\ w.pending = pending /\ w.open = open
      /\ w.conn = conn /\ w.peer = peer
  BY WorldIs
<1> HIDE DEF w, v
<1>5. \A d \in Client : /\ IsOpen(v, d) <=> IsOpen(w, d)
                        /\ IsOpen(w, d) => v.conn[d].fd = w.conn[d].fd
                        /\ v.peer[d].heard <= SendBuf
  <2> SUFFICES ASSUME NEW d \in Client
               PROVE  /\ IsOpen(v, d) <=> IsOpen(w, d)
                      /\ IsOpen(w, d) => v.conn[d].fd = w.conn[d].fd
                      /\ v.peer[d].heard <= SendBuf
    OBVIOUS
  <2>1. CASE d = c
    BY <1>2, <1>3, <1>4, <2>1 DEF IsOpen
  <2>2. CASE d # c
    BY <1>1, <1>2, <1>3, <1>4, <2>2 DEF IsOpen
  <2> QED
    BY <2>1, <2>2
<1>6. Alike(w, v)
  BY <1>3, <1>4, <1>5 DEF Alike
<1> QED
  BY <1>6, ClientsAreGood DEF w, v

\* What the invariant says of the state's variables.
LEMMA IInvTypes ==
  ASSUME IInv
  PROVE  /\ Good(World, "between", {}) /\ World \in Worlds
         /\ list \in Seq(Handler) /\ round \in Rounds /\ round.at \in Nat /\ pending \in BOOLEAN /\ open \in SUBSET Fd
         /\ Len(list) \in Nat /\ DOMAIN list = 1 .. Len(list)
         /\ conn \in [Client -> Conn] /\ peer \in [Client -> PeerType]
         /\ \A c \in Client : /\ conn[c] \in Conn /\ peer[c] \in PeerType
                             /\ peer[c].said \in Seq(Piece) /\ peer[c].heard \in Nat /\ peer[c].heard <= SendBuf
<1>1. Good(World, "between", {}) /\ World \in Worlds
  BY DEF IInv, Rests, Good
<1> QED
  BY <1>1, WorldFields, WorldIs DEF Good

\* The programs at the other ends.
LEMMA ConnectsIsGood ==
  ASSUME SocketAssumption, IInv, NEW c \in Client, Connects(c)
  PROVE  IInv'
<1> DEFINE k == [conn[c] EXCEPT !.at = "waiting"]
           none == <<>>
           p == [[[peer[c] EXCEPT !.there = TRUE] EXCEPT !.said = none] EXCEPT !.heard = 0]
<1>1. conn \in [Client -> Conn] /\ peer \in [Client -> PeerType] /\ conn[c] \in Conn /\ peer[c] \in PeerType
  BY IInvTypes
<1>2. conn[c].at # "open" /\ UNCHANGED <<list, round, pending, open>>
  BY DEF Connects
<1>3. conn' = [conn EXCEPT ![c] = k] /\ peer' = [peer EXCEPT ![c] = p]
  BY <1>1 DEF Connects
<1>4. k \in Conn /\ k.at # "open"
  BY <1>1 DEF Conn
<1>5. none \in Seq(Piece)
  OBVIOUS
<1> HIDE DEF k, none
<1>6. p \in PeerType /\ p.heard = 0
  BY <1>1, <1>5 DEF PeerType
<1>7. 0 <= SendBuf
  BY DEF SocketAssumption
<1> HIDE DEF p
<1> QED
  BY <1>2, <1>3, <1>4, <1>6, <1>7, ClientIsGood

\* A client sends a piece.
LEMMA SaysIsGood ==
  ASSUME IInv, NEW c \in Client, NEW piece \in Piece, Says(c, piece)
  PROVE  IInv'
<1> DEFINE k == conn[c]
           q == Append(peer[c].said, piece)
           n == peer[c].sent + 1
           p == [[peer[c] EXCEPT !.said = q] EXCEPT !.sent = n]
<1>1. /\ conn \in [Client -> Conn] /\ peer \in [Client -> PeerType] /\ k \in Conn /\ peer[c] \in PeerType
      /\ peer[c].said \in Seq(Piece) /\ peer[c].heard <= SendBuf
  BY IInvTypes
<1>2. UNCHANGED <<list, round, pending, open>> /\ conn' = [conn EXCEPT ![c] = k]
  BY <1>1 DEF Says
<1>3. peer' = [peer EXCEPT ![c] = p]
  BY <1>1 DEF Says
<1>4. q \in Seq(Piece)
  BY <1>1
<1>5. n \in Nat
  BY <1>1 DEF PeerType
<1> HIDE DEF k, q, n
<1>6. p \in PeerType /\ p.heard = peer[c].heard
  BY <1>1, <1>4, <1>5 DEF PeerType
<1> HIDE DEF p
<1>7. p.heard <= SendBuf
  BY <1>1, <1>6
<1> QED
  BY <1>1, <1>2, <1>3, <1>6, <1>7, ClientIsGood DEF k

\* A client reads what is on its way to it.
LEMMA ListensIsGood ==
  ASSUME SocketAssumption, IInv, NEW c \in Client, Listens(c)
  PROVE  IInv'
<1> DEFINE k == conn[c]
           p == [peer[c] EXCEPT !.heard = 0]
<1>1. conn \in [Client -> Conn] /\ peer \in [Client -> PeerType] /\ k \in Conn /\ peer[c] \in PeerType
  BY IInvTypes
<1>2. UNCHANGED <<list, round, pending, open>> /\ conn' = [conn EXCEPT ![c] = k] /\ peer' = [peer EXCEPT ![c] = p]
  BY <1>1 DEF Listens
<1>3. p \in PeerType /\ p.heard = 0
  BY <1>1 DEF PeerType
<1> HIDE DEF k, p
<1>4. p.heard <= SendBuf
  BY <1>3 DEF SocketAssumption
<1> QED
  BY <1>1, <1>2, <1>3, <1>4, ClientIsGood DEF k

\* A client leaves.
LEMMA LeavesIsGood ==
  ASSUME SocketAssumption, IInv, NEW c \in Client, Leaves(c)
  PROVE  IInv'
<1> DEFINE k == IF conn[c].at = "closed" THEN NoConn ELSE conn[c]
           p == [[peer[c] EXCEPT !.there = FALSE] EXCEPT !.heard = 0]
<1>1. conn \in [Client -> Conn] /\ peer \in [Client -> PeerType] /\ conn[c] \in Conn /\ peer[c] \in PeerType
  BY IInvTypes
<1>2. UNCHANGED <<list, round, pending, open>> /\ conn' = [conn EXCEPT ![c] = k] /\ peer' = [peer EXCEPT ![c] = p]
  BY <1>1 DEF Leaves
<1>3. k \in Conn /\ (k.at = "open" <=> conn[c].at = "open") /\ (k.at = "open" => k.fd = conn[c].fd)
  BY <1>1 DEF NoConn, Conn
<1>4. p \in PeerType /\ p.heard = 0
  BY <1>1 DEF PeerType
<1> HIDE DEF k, p
<1>5. p.heard <= SendBuf
  BY <1>4 DEF SocketAssumption
<1> QED
  BY <1>2, <1>3, <1>4, <1>5, ClientIsGood

\* The walk goes on from a good world.
LEMMA GoesOnIsGood ==
  ASSUME NEW w, Good(w, "between", {}), GoesOn(w)
  PROVE  IInv'
<1> DEFINE v == WalksOn(w)
<1>1. Become(v)
  BY DEF GoesOn
<1>2. v = WalksOn(w)
  OBVIOUS
<1> HIDE DEF v
<1>3. Rests(v)
  BY <1>2, WalksOnRests
<1>4. v \in Worlds
  BY <1>3 DEF Rests, Good
<1>5. World' = v
  BY <1>1, <1>4, BecomeIs
<1>6. Rests(World')
  BY <1>3, <1>5
<1> QED
  BY <1>6 DEF IInv, Rests, Good, World

\* Event_HandleEvent.
LEMMA SelectIsGood ==
  ASSUME SocketAssumption, IInv, Select
  PROVE  IInv'
<1> DEFINE v == Found
<1>1. round.at = 0 /\ GoesOn(v) /\ v = Found
  BY DEF Select
<1> HIDE DEF v
<1> QED
  BY <1>1, FoundIsGood, GoesOnIsGood

\* A callback, of each kind.
LEMMA CallbackIsGood ==
  ASSUME SocketAssumption, IInv, Callback
  PROVE  IInv'
<1> DEFINE w == World
           h == list[round.at]
<1>1. Good(w, "between", {}) /\ w \in Worlds
  BY IInvTypes
<1>2. w.round.at # 0 /\ Runs(w, h)
  BY WorldIs DEF Callback, IInv, Rests, Runs
<1>3. w.conn = conn /\ w.peer = peer
  BY WorldIs
<1>4. ASSUME NEW c \in Client, conn[c].at = "waiting", NEW fails, NEW v, v = handle_accept(World, c, fails), GoesOn(v)
      PROVE  IInv'
  <2>1. w.conn[c].at = "waiting" /\ v = handle_accept(w, c, fails)
    BY <1>3, <1>4
  <2> HIDE DEF w
  <2>2. Good(v, "between", {})
    BY <1>1, <1>2, <2>1, AcceptIsGood
  <2> QED
    BY <1>4, <2>2, GoesOnIsGood
<1>5. ASSUME h.kind = "read", NEW n \in 1 .. MaxReply, NEW fails, NEW v, v = handle_readable(World, h, n, fails), GoesOn(v)
      PROVE  IInv'
  <2>1. n \in Nat /\ v = handle_readable(w, h, n, fails)
    BY <1>5
  <2> HIDE DEF w, h
  <2>2. Good(v, "between", {})
    BY <1>1, <1>2, <1>5, <2>1, ReadableIsGood
  <2> QED
    BY <1>5, <2>2, GoesOnIsGood
<1>6. ASSUME h.kind = "write", NEW n, n = Min({h.n, SendBuf - peer[h.of].heard}), NEW fails,
             NEW v, v = handle_writeable(World, h, n, fails), GoesOn(v)
      PROVE  IInv'
  <2> DEFINE c == h.of
             a == h.n
             e == SendBuf - peer[c].heard
  <2>1. v = handle_writeable(w, h, n, fails) /\ c = h.of
    BY <1>6
  <2> HIDE DEF w, h, c
  <2>2. h.kind # "accept"
    BY <1>6
  <2>3. c \in Client /\ h.n \in Nat
    BY <1>1, <1>2, <2>1, <2>2, HandlerLeft
  <2>4. peer[c].heard \in Nat /\ peer[c].heard <= SendBuf /\ SendBuf \in Nat
    BY <2>3, IInvTypes DEF SocketAssumption
  <2>5. a \in Nat /\ e \in Nat
    BY <2>3, <2>4
  <2>6. n = Min({a, e})
    BY <1>6, <2>1
  <2>7. n \in Nat /\ n <= a /\ n <= e
    <3> HIDE DEF a, e
    <3> QED
      BY <2>5, <2>6, TakenIs
  <2>8. n \in Nat /\ n <= h.n /\ w.peer[c].heard + n <= SendBuf
    BY <1>3, <2>3, <2>4, <2>7
  <2>9. Good(v, "between", {})
    BY <1>1, <1>2, <1>6, <2>1, <2>4, <2>8, WriteableIsGood
  <2> QED
    BY <1>6, <2>9, GoesOnIsGood
<1> QED
  BY <1>4, <1>5, <1>6 DEF Callback

\* Every step keeps the invariant.
LEMMA NextIsGood ==
  ASSUME SocketAssumption, IInv, [Next]_vars
  PROVE  IInv'
<1>1. CASE \E c \in Client : Connects(c) \/ Listens(c) \/ Leaves(c)
  BY <1>1, ConnectsIsGood, ListensIsGood, LeavesIsGood
<1>2. CASE \E c \in Client, piece \in Piece : Says(c, piece)
  BY <1>2, SaysIsGood
<1>3. CASE Select
  BY <1>3, SelectIsGood
<1>4. CASE Callback
  BY <1>4, CallbackIsGood
<1>5. CASE UNCHANGED vars
  BY <1>5 DEF vars, IInv, World, Rests, Good, FdInv, HandlerInv, ReadyInv, IsOpen, Serves, Live, Due
<1> QED
  BY <1>1, <1>2, <1>3, <1>4, <1>5 DEF Next

\* What the invariant says of connections, descriptors and handlers.
LEMMA OneOperationHolds ==
  ASSUME SocketAssumption, IInv
  PROVE  OneOperation
<1> DEFINE w == World
<1>1. /\ list \in Seq(Handler) /\ conn \in [Client -> Conn] /\ peer \in [Client -> PeerType]
      /\ DOMAIN list = 1 .. Len(list) /\ FdInv(w) /\ HandlerInv(w, "between", {})
      /\ \A i \in 1 .. Len(list) : list[i] \in Handler
  BY IInvTypes, ElementOfSeq DEF Good
<1>2. pending = (\E i \in DOMAIN list : list[i].deleted) /\ (pending => round.at # 0)
  BY <1>1, WorldIs DEF IInv, Rests, Good
<1>3. \A c \in Client : IsOpen(w, c) <=> c \in OpenConns
  BY WorldIs DEF IsOpen, OpenConns
<1>4. Live(w, "between") = {i \in DOMAIN list : ~ list[i].deleted}
  BY <1>1, WorldIs DEF Live
<1>5. w.list = list /\ w.conn = conn /\ w.open = open
  BY WorldIs
<1> HIDE DEF w
<1>6. /\ \A i \in Live(w, "between") : Serves(w, list[i])
      /\ \A i, j \in Live(w, "between") : list[i].of = list[j].of /\ list[i].of \in Client => i = j
      /\ \A c \in Client : IsOpen(w, c) => \E i \in Live(w, "between") : list[i].of = c
  BY <1>1, <1>5 DEF HandlerInv
<1>7. NoClient \notin Client
  BY DEF SocketAssumption
<1>8. ASSUME NEW c \in OpenConns
      PROVE  \E i \in DOMAIN list : HandlersOf(c) = {i} /\ list[i].fd = conn[c].fd
  <2>1. c \in Client /\ IsOpen(w, c)
    BY <1>3 DEF OpenConns
  <2>2. PICK i \in Live(w, "between") : list[i].of = c
    BY <1>6, <2>1
  <2>3. i \in DOMAIN list /\ HandlersOf(c) = {i}
    BY <1>4, <1>6, <2>1, <2>2 DEF HandlersOf
  <2>4. list[i].fd = conn[c].fd
    BY <1>5, <1>6, <1>7, <2>1, <2>2 DEF Serves
  <2> QED
    BY <2>3, <2>4
<1>9. ASSUME NEW c \in Client \ OpenConns
      PROVE  HandlersOf(c) = {}
  BY <1>3, <1>4, <1>6, <1>7 DEF HandlersOf, Serves
<1>10. open = {conn[c].fd : c \in OpenConns}
  <2>1. {d \in Client : IsOpen(w, d)} = OpenConns
    BY <1>3 DEF OpenConns
  <2> QED
    BY <1>1, <1>5, <2>1 DEF FdInv
<1>11. \A c, d \in OpenConns : c # d => conn[c].fd # conn[d].fd
  BY <1>1, <1>3, <1>5 DEF FdInv, OpenConns
<1> QED
  BY <1>1, <1>2, <1>8, <1>9, <1>10, <1>11 DEF OneOperation

-----------------------------------------------------------------------------
(* The theorems.                                                            *)

\* Whatever number of clients connect, speak, stop in the midst of a command or of a reply,
\* or leave, and whenever memory is short: between two callbacks each open connection has one
\* descriptor that no other has, and exactly one handler, which reads or writes
\* (event_tcp.c, control_socket.c).
THEOREM EachConnectionHasOneOperation == Spec => []OneOperation
<1>1. Init => IInv
  BY InitIsGood, SocketAssumption
<1>2. IInv /\ [Next]_vars => IInv'
  BY NextIsGood, SocketAssumption
<1>3. IInv => OneOperation
  BY OneOperationHolds, SocketAssumption
<1> QED
  BY <1>1, <1>2, <1>3, PTL DEF Spec

\* Event_HandleEvent calls no handler of a connection that select has not found ready, though
\* a callback of the round may have closed one and another may have been given its number.
THEOREM NoCallBeforeReady == Spec => []CalledWhenReady
<1>1. Init => IInv
  BY InitIsGood, SocketAssumption
<1>2. IInv /\ [Next]_vars => IInv'
  BY NextIsGood, SocketAssumption
<1>3. IInv => CalledWhenReady
  <2> SUFFICES ASSUME IInv PROVE CalledWhenReady
    OBVIOUS
  <2>1. ReadyInv(World) /\ round.at \in Nat /\ Len(list) \in Nat
    BY IInvTypes DEF Good
  <2>2. ASSUME round.at # 0, NEW i \in round.at .. Len(list), Due(World, list[i])
        PROVE  list[i].of \in round.ready
    <3>1. i \in 1 .. Len(list) /\ i >= round.at
      BY <2>1, <2>2
    <3> QED
      BY <2>1, <2>2, <3>1, WorldIs DEF ReadyInv
  <2> QED
    BY <2>2 DEF CalledWhenReady
<1> QED
  BY <1>1, <1>2, <1>3, PTL DEF Spec
=============================================================================

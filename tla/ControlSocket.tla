----------------------------- MODULE ControlSocket -----------------------------
(***************************************************************************)
(* The control socket of pppoe-server: the selector of libevent (event.c), *)
(* its buffered reads and writes (event_tcp.c), the connections of         *)
(* control_socket.c, and the programs at their other ends.                 *)
(*                                                                         *)
(* A round of Event_HandleEvent is select, a walk along the list of        *)
(* handlers, and the deletions that were put off.  The programs go on      *)
(* between two callbacks, and the number of a descriptor that one callback *)
(* closes may be the number of the next connection in the same round.      *)
(***************************************************************************)
EXTENDS Integers, SequencesExt, Selection

CONSTANTS
  Client, NoClient,
  Fd,          \* the numbers that accept may return
  MaxLen,      \* MAX_CMD_LEN, in pieces of a command
  MaxReply,    \* the longest reply, in pieces
  SendBuf,     \* what the socket holds of a reply
  Patient,     \* the clients that read what they are sent
  MaxSent,     \* bound: the pieces that the clients send together
  Upsets       \* what may go wrong, of those UpsetKinds names

UpsetKinds == {"clients leave", "no memory"}

ASSUME SocketAssumption ==
  /\ IsFiniteSet(Client) /\ NoClient \notin Client /\ Patient \subseteq Client
  /\ Fd \subseteq Nat \ {0}
  /\ MaxLen \in Nat \ {0} /\ MaxReply \in Nat \ {0} /\ SendBuf \in Nat \ {0} /\ MaxSent \in Nat
  /\ Upsets \subseteq UpsetKinds

VARIABLES
  list,     \* es->handlers
  round,    \* the walk of Event_HandleEvent: its place in the list, 0 outside of it, and the
            \* sets that select has left; ghost: whose handlers were ready
  pending,  \* es->opsPending
  open,     \* the descriptors that are in use
  conn,     \* the server's end of the connection of each client (ClientConnection)
  peer      \* the client's end

vars == <<list, round, pending, open, conn, peer>>

\* "rest": a piece of a command without its end; "line", "quit": the last piece.
Piece == {"rest", "line", "quit"}

\* An EventHandler with the state (EventTcpState) that its data points at: n counts the
\* pieces that were read, or those that are left to write.
Handler == [kind : {"accept", "read", "write"}, fd : {0} \cup Fd, of : Client \cup {NoClient},
            n : Nat, deleted : BOOLEAN]

Conn == [at : {"none", "waiting", "open", "closed"}, fd : {0} \cup Fd, closing : BOOLEAN]
PeerType == [there : BOOLEAN, said : Seq(Piece), heard : Nat, sent : Nat]

Acceptor == [kind |-> "accept", fd |-> 0, of |-> NoClient, n |-> 0, deleted |-> FALSE]
NoRound  == [at |-> 0, rd |-> {}, wr |-> {}, ready |-> {}]
NoConn   == [at |-> "none", fd |-> 0, closing |-> FALSE]

\* control_socket_init.
Init ==
  /\ list = <<Acceptor>>
  /\ round = NoRound
  /\ pending = FALSE
  /\ open = {}
  /\ conn = [c \in Client |-> NoConn]
  /\ peer = [c \in Client |-> [there |-> FALSE, said |-> <<>>, heard |-> 0, sent |-> 0]]

-----------------------------------------------------------------------------
(* The clients.                                                             *)

Connects(c) ==
  /\ conn[c].at = "none"
  /\ conn' = [conn EXCEPT ![c].at = "waiting"]
  /\ peer' = [peer EXCEPT ![c].there = TRUE, ![c].said = <<>>, ![c].heard = 0]
  /\ UNCHANGED <<list, round, pending, open>>

Says(c, piece) ==
  /\ peer[c].there /\ conn[c].at \in {"waiting", "open"}
  /\ MapThenSumSet(LAMBDA d : peer[d].sent, Client) < MaxSent
  /\ peer' = [peer EXCEPT ![c].said = Append(@, piece), ![c].sent = @ + 1]
  /\ UNCHANGED <<list, round, pending, open, conn>>

\* The client reads what is on its way to it.
Listens(c) ==
  /\ peer[c].there /\ peer[c].heard > 0
  /\ peer' = [peer EXCEPT ![c].heard = 0]
  /\ UNCHANGED <<list, round, pending, open, conn>>

\* Of its own will, or because it has read the end of the connection.
Leaves(c) ==
  /\ peer[c].there
  /\ conn[c].at = "closed" \/ "clients leave" \in Upsets
  /\ peer' = [peer EXCEPT ![c].there = FALSE, ![c].heard = 0]
  /\ conn' = IF conn[c].at = "closed" THEN [conn EXCEPT ![c] = NoConn] ELSE conn
  /\ UNCHANGED <<list, round, pending, open>>

-----------------------------------------------------------------------------
(* event.c.  Callbacks work on the record w of what they may change.         *)
(* An operator X_Fault is X as a slip in the code would have it; the runs do not use it. *)

World == [list |-> list, round |-> round, pending |-> pending, open |-> open, conn |-> conn, peer |-> peer]

\* Event_AddHandler: at the head of the list, behind the walk.
Event_AddHandler(w, h) == [w EXCEPT !.list = <<h>> \o @, !.round.at = @ + 1]

\* Event_DelHandler of the handler whose callback runs, as free_state calls it.
Event_DelHandler_Forgotten(w) == w
Event_DelHandler(w) == [w EXCEPT !.list[w.round.at].deleted = TRUE, !.pending = TRUE]

\* What select finds out about the descriptor of a handler.
Ready(h) ==
  CASE h.kind = "accept" -> \E c \in Client : conn[c].at = "waiting"
    [] h.kind = "read"   -> peer[h.of].said # <<>> \/ ~ peer[h.of].there
    [] h.kind = "write"  -> peer[h.of].heard < SendBuf \/ ~ peer[h.of].there

\* Whether the walk calls a handler: it looks at numbers.
Due(w, h) == ~ h.deleted /\ h.fd \in (IF h.kind = "write" THEN w.round.wr ELSE w.round.rd)

\* DoPendingChanges: what is not deleted stays in its order.
DoPendingChanges(w) ==
  IF w.pending
  THEN [w EXCEPT !.list = Selected(@, {i \in DOMAIN @ : ~ @[i].deleted}), !.pending = FALSE]
  ELSE w

\* The walk goes on to the next handler that it calls, or the round is over.
Ahead_All(w) == {i \in DOMAIN w.list : i # w.round.at /\ Due(w, w.list[i])}
Ahead(w) == {i \in DOMAIN w.list : i > w.round.at /\ Due(w, w.list[i])}

WalksOn(w) ==
  IF Ahead(w) # {} THEN [w EXCEPT !.round.at = Min(Ahead(w))]
  ELSE DoPendingChanges([w EXCEPT !.round = NoRound])

Become(w) ==
  /\ list' = w.list /\ round' = w.round /\ pending' = w.pending
  /\ open' = w.open /\ conn' = w.conn /\ peer' = w.peer

GoesOn(v) == \E w \in {WalksOn(v)} : Become(w)

\* What select has found.
Found ==
  LET ready == {i \in DOMAIN list : Ready(list[i])}
      fds(kinds) == {list[i].fd : i \in {j \in ready : list[j].kind \in kinds}}
  IN [World EXCEPT !.round.rd = fds({"accept", "read"}), !.round.wr = fds({"write"}),
                   !.round.ready = {list[i].of : i \in ready}]

\* Event_HandleEvent, up to the first callback.
Select ==
  /\ round.at = 0
  /\ \E i \in DOMAIN list : Ready(list[i])
  /\ \E v \in {Found} : GoesOn(v)

-----------------------------------------------------------------------------
(* control_socket.c and event_tcp.c.                                         *)

\* fails: what there is no memory for, or "none".
Lack == {"none", "text", "error text", "buffer"}
Memory == IF "no memory" \in Upsets THEN Lack ELSE {"none"}

\* control_socket_cleanup_client.
Cleanup(w, c) ==
  [w EXCEPT !.open = @ \ {w.conn[c].fd},
            !.conn[c] = IF w.peer[c].there THEN [NoConn EXCEPT !.at = "closed"] ELSE NoConn,
            !.peer[c].said = <<>>]

\* EventTcp_ReadBuf and EventTcp_WriteBuf; without memory the connection is closed.
ReadBuf(w, c, fails) ==
  IF fails = "buffer" THEN Cleanup(w, c)
  ELSE Event_AddHandler(w, [kind |-> "read", fd |-> w.conn[c].fd, of |-> c, n |-> 0, deleted |-> FALSE])
WriteBuf(w, c, n, fails) ==
  IF fails = "buffer" THEN Cleanup(w, c)
  ELSE Event_AddHandler(w, [kind |-> "write", fd |-> w.conn[c].fd, of |-> c, n |-> n, deleted |-> FALSE])

control_socket_acceptor(w, c, fd, fails) ==
  ReadBuf([w EXCEPT !.open = @ \cup {fd}, !.conn[c].at = "open", !.conn[c].fd = fd], c, fails)

\* handle_accept: accept takes the lowest free number, and fails without one.
handle_accept(w, c, fails) ==
  IF Fd \subseteq w.open THEN w ELSE control_socket_acceptor(w, c, Min(Fd \ w.open), fails)

\* control_socket_read: a command has a reply of n pieces, "quit" is the whole of a command.
\* Without memory for the reply the connection is closed; but after "quit", or a command
\* with wrong quotes, it reads on.
control_socket_read(w, c, quits, n, fails) ==
  LET v == IF quits THEN [w EXCEPT !.conn[c].closing = TRUE] ELSE w
  IN IF fails \notin {"text", "error text"} THEN WriteBuf(v, c, n, fails)
     ELSE IF quits \/ fails = "error text" THEN ReadBuf(v, c, fails)
     ELSE Cleanup(v, c)

\* How many pieces there are to the end of a command, or until the buffer is full.
Whole(w, h) ==
  {i \in DOMAIN w.peer[h.of].said : w.peer[h.of].said[i] # "rest" \/ h.n + i = MaxLen}

\* handle_readable.
handle_readable(w, h, n, fails) ==
  LET c == h.of
      said == w.peer[c].said
      last == Min(Whole(w, h))
      v == [w EXCEPT !.peer[c].said = SubSeq(said, last + 1, Len(said))]
  IN IF Whole(w, h) # {}
     THEN Event_DelHandler(control_socket_read(v, c, h.n + last = 1 /\ said[last] = "quit", n, fails))
     ELSE IF w.peer[c].there
     THEN [w EXCEPT !.list[w.round.at].n = @ + Len(said), !.peer[c].said = <<>>]
     ELSE Event_DelHandler(Cleanup(w, c))

\* control_socket_write_complete.
write_complete(w, c, fails) == IF w.conn[c].closing THEN Cleanup(w, c) ELSE ReadBuf(w, c, fails)

\* handle_writeable: write takes n pieces, or fails when the client has left.
Written_Forgotten(w, n) == w
Written(w, n) == [w EXCEPT !.list[w.round.at].n = @ - n]

handle_writeable(w, h, n, fails) ==
  LET c == h.of
      v == [w EXCEPT !.peer[c].heard = @ + n]
  IN IF ~ w.peer[c].there THEN Event_DelHandler(Cleanup(w, c))
     ELSE IF n = h.n THEN Event_DelHandler(write_complete(v, c, fails))
     ELSE Written(v, n)

\* The callback of the handler that the walk has come to.
Callback ==
  /\ round.at # 0
  /\ LET h == list[round.at]
     IN \/ /\ h.kind = "accept"
           /\ \E c \in {d \in Client : conn[d].at = "waiting"}, fails \in Memory :
                \E v \in {handle_accept(World, c, fails)} : GoesOn(v)
        \/ /\ h.kind = "read"
           /\ \E n \in 1 .. MaxReply, fails \in Memory :
                \E v \in {handle_readable(World, h, n, fails)} : GoesOn(v)
        \/ /\ h.kind = "write"
           /\ \E n \in {Min({h.n, SendBuf - peer[h.of].heard})}, fails \in Memory :
                \E v \in {handle_writeable(World, h, n, fails)} : GoesOn(v)

Next ==
  \/ \E c \in Client : Connects(c) \/ Listens(c) \/ Leaves(c)
  \/ \E c \in Client, piece \in Piece : Says(c, piece)
  \/ Select \/ Callback

Spec == Init /\ [][Next]_vars

\* The loop of main goes on, and patient clients read.
FairSpec == Spec /\ WF_vars(Select) /\ WF_vars(Callback) /\ \A c \in Patient : WF_vars(Listens(c))

-----------------------------------------------------------------------------
(* Properties.                                                               *)

HandlersOf(c) == {i \in DOMAIN list : ~ list[i].deleted /\ list[i].of = c}
OpenConns == {c \in Client : conn[c].at = "open"}

\* Each open connection has a descriptor of its own and exactly one handler for it, which
\* reads or writes; no other descriptor is in use and no other handler is called, whatever
\* fails and whoever leaves, and what was deleted does not outlive its round (free_state,
\* control_socket_cleanup_client, DoPendingChanges).
OneOperation ==
  /\ list \in Seq(Handler) /\ conn \in [Client -> Conn] /\ peer \in [Client -> PeerType]
  /\ pending = (\E i \in DOMAIN list : list[i].deleted) /\ (pending => round.at # 0)
  /\ \A c \in OpenConns : \E i \in DOMAIN list : HandlersOf(c) = {i} /\ list[i].fd = conn[c].fd
  /\ \A c \in Client \ OpenConns : HandlersOf(c) = {}
  /\ open = {conn[c].fd : c \in OpenConns}
  /\ \A c, d \in OpenConns : c # d => conn[c].fd # conn[d].fd

\* A callback runs only for a connection that select has found ready, and not for one that
\* was given the number of another in the same round (Event_HandleEvent).
CalledWhenReady ==
  round.at # 0 =>
    \A i \in round.at .. Len(list) : Due(World, list[i]) => list[i].of \in round.ready

\* The server owes the client something: a reply, or an answer to what it has said in full.
Owes(c) ==
  /\ conn[c].at = "open"
  /\ \/ \E i \in DOMAIN peer[c].said : peer[c].said[i] # "rest"
     \/ \E i \in HandlersOf(c) : list[i].kind = "write"

\* A client that reads what it is sent is served, also when others stop in the midst of a
\* command or of a reply, and whatever number their connections have.
Served == \A c \in Patient : Owes(c) ~> ~ Owes(c)
=============================================================================

-------------------------------- MODULE LacDial --------------------------------
(***************************************************************************)
(* How xl2tpd dials: magic_lac_dial, lac_call and the commands of the      *)
(* control pipe (xl2tpd.c), the redials that destroy_tunnel and            *)
(* destroy_call schedule, and the queue of scheduler.c that holds them.    *)
(*                                                                         *)
(* L2tpSetup shows how a tunnel and a call come up and end; here they come *)
(* up or end, and what counts is what the LAC does about it.  The structs  *)
(* lac, tunnel and call point at each other: a LAC has at most one tunnel, *)
(* which has the LAC's name, and a call names the LAC of its tunnel.       *)
(***************************************************************************)
EXTENDS Integers, Sequences, FiniteSets, FiniteSetsExt, SequencesExt, Functions

CONSTANTS
  Lac, NoLac,
  Redial,     \* the LACs with "redial = yes"
  Rtimeout,   \* redial timeout, in ticks
  Rmax,       \* max redials, 0 for no limit
  Autodial,   \* the LACs with "autodial = yes"
  MaxCalls,   \* bound: calls at a time
  MaxTries,   \* bound: rtries is not counted further
  MaxEvents,  \* bound: redials scheduled at a time
  Commands    \* the commands that may come

CommandKinds == {"connect", "call", "disconnect", "add", "remove"}

ASSUME DialAssumption ==
  /\ NoLac \notin Lac /\ IsFiniteSet(Lac) /\ Redial \subseteq Lac /\ Autodial \subseteq Lac
  /\ Rtimeout \in [Lac -> Nat] /\ Rmax \in [Lac -> Nat]
  /\ MaxCalls \in Nat /\ MaxTries \in Nat \ {0} /\ MaxEvents \in Nat /\ Commands \subseteq CommandKinds

VARIABLES
  lac,       \* struct lac
  tun,       \* the tunnel lac->t, "none" when the pointer is NULL
  call,      \* struct call
  events     \* the queue of scheduler.c: the redials, with the time that is left

vars == <<lac, tun, call, events>>

CallId == 1 .. MaxCalls

\* rsched: the pointer is not NULL; c: lac->c, 0 when NULL.
LacType == [listed : BOOLEAN, active : BOOLEAN, rsched : BOOLEAN, rtries : Nat, c : {0} \cup CallId]
Phase   == {"none", "SCCRQ", "SCCCN", "closing"}

\* on: the LAC of its tunnel; lac: its own pointer, NoLac when a command placed it by the
\* number of the tunnel.
CallType == [on : Lac \cup {NoLac}, lac : Lac \cup {NoLac}, state : {"off", "asked", "up", "closing"}]

\* stale: the struct lac it points at was freed.
Event == [in : Nat, lac : Lac, stale : BOOLEAN]

NewLac  == [listed |-> TRUE, active |-> FALSE, rsched |-> FALSE, rtries |-> 0, c |-> 0]
NoCall  == [on |-> NoLac, lac |-> NoLac, state |-> "off"]

-----------------------------------------------------------------------------
(* Handlers work on the record w of what they may change.                   *)
(* An operator X_Fault is X as a slip in the code would have it; the runs do not use it. *)

World == [lac |-> lac, tun |-> tun, call |-> call, events |-> events]
Become(w) ==
  /\ Len(w.events) <= MaxEvents
  /\ lac' = w.lac /\ tun' = w.tun /\ call' = w.call /\ events' = w.events

\* schedule: before the first event that is due later.
schedule(q, e) ==
  LET later == {i \in DOMAIN q : e.in < q[i].in}
  IN InsertAt(q, IF later = {} THEN Len(q) + 1 ELSE Min(later), e)

\* What destroy_tunnel, destroy_call and l2tp_call do when a LAC has lost its connection.
RedialLater(w, l) ==
  IF l \notin Redial \/ Rtimeout[l] = 0 \/ w.lac[l].rsched \/ ~ w.lac[l].active THEN w
  ELSE [w EXCEPT !.lac[l].rsched = TRUE,
                 !.events = schedule(@, [in |-> Rtimeout[l], lac |-> l, stale |-> FALSE])]

\* destroy_call, of a call and of the self call of a tunnel, whose lac is l.
Unlinked_Kept(w, l) == RedialLater(w, l)
Unlinked(w, l) == RedialLater([w EXCEPT !.lac[l].c = 0], l)
DestroyCall(w, c) ==
  LET l == w.call[c].lac
      v == [w EXCEPT !.call[c] = NoCall]
  IN IF l = NoLac THEN v ELSE Unlinked(v, l)

CallsOn(w, l) == {c \in CallId : w.call[c].on = l}
\* The calls of a tunnel, in any order: the second redial finds the first one's rsched.
DestroyCalls(w, l) ==
  LET v == [w EXCEPT !.call = [c \in CallId |-> IF @[c].on = l THEN NoCall ELSE @[c]]]
  IN IF \E c \in CallsOn(w, l) : w.call[c].lac = l THEN Unlinked(v, l) ELSE v

destroy_tunnel(w, l) == Unlinked(RedialLater([DestroyCalls(w, l) EXCEPT !.tun[l] = "none"], l), l)

\* call_close of a call, and of the self call of a tunnel.
CloseCall(w, c) ==
  IF w.call[c].state = "closing" THEN DestroyCall(w, c) ELSE [w EXCEPT !.call[c].state = "closing"]
CloseTunnel(w, l) ==
  IF w.tun[l] = "closing" THEN destroy_tunnel(w, l)
  ELSE [DestroyCalls(w, l) EXCEPT !.tun[l] = "closing"]

\* lac_call: the tunnel may be in any state.  c is the call new_call makes.
lac_call(w, l, own, c) ==
  LET v == [w EXCEPT !.call[c] = [on |-> l, lac |-> own, state |-> "asked"]]
  IN IF own = NoLac THEN v ELSE [v EXCEPT !.lac[own].c = c]

\* magic_lac_dial, for a LAC that has an LNS.  found: gethostbyname finds it; c: the call
\* new_call would make.
Counted_Scheduled(w, l) == [w EXCEPT !.lac[l].rtries = Min({@ + 1, MaxTries})]
Counted(w, l) ==
  [w EXCEPT !.lac[l].rsched = FALSE, !.lac[l].rtries = Min({@ + 1, MaxTries})]
magic_lac_dial_Inactive(w, l, found, c) ==
  LET v == Counted(w, l)
  IN IF Rmax[l] > 0 /\ v.lac[l].rtries > Rmax[l] THEN v
     ELSE IF w.tun[l] # "none" THEN lac_call(v, l, l, c)
     ELSE [v EXCEPT !.tun[l] = "SCCRQ"]
magic_lac_dial(w, l, found, c) ==
  LET v == Counted(w, l)
  IN IF ~ w.lac[l].active THEN w
     ELSE IF Rmax[l] > 0 /\ v.lac[l].rtries > Rmax[l] THEN v
     ELSE IF w.tun[l] # "none" THEN lac_call(v, l, l, c)
     ELSE IF found THEN [v EXCEPT !.tun[l] = "SCCRQ"]
     ELSE RedialLater(v, l)

Free == {c \in CallId : call[c].state = "off"}

\* A dial of l from the world w.
Dial(w, l) ==
  /\ w.tun[l] = "none" \/ Free # {}
  /\ \E found \in BOOLEAN : Become(magic_lac_dial(w, l, found, IF Free = {} THEN 0 ELSE Min(Free)))

\* init: with the LACs of the configuration, after the autodials.
Init ==
  \E up \in SUBSET Autodial :
    LET lost == {l \in Autodial \ up : l \in Redial /\ Rtimeout[l] > 0}
    IN /\ lac = [l \in Lac |-> [NewLac EXCEPT !.active = l \in Autodial, !.rsched = l \in lost,
                                            !.rtries = IF l \in Autodial THEN 1 ELSE 0]]
       /\ tun = [l \in Lac |-> IF l \in up THEN "SCCRQ" ELSE "none"]
       /\ call = [c \in CallId |-> NoCall]
       /\ \E q \in Bijection(1 .. Cardinality(lost), lost) :
            /\ \A i, j \in DOMAIN q : i < j => Rtimeout[q[i]] <= Rtimeout[q[j]]
            /\ events = [i \in DOMAIN q |-> [in |-> Rtimeout[q[i]], lac |-> q[i], stale |-> FALSE]]

-----------------------------------------------------------------------------
(* The commands of the control pipe (do_control).                            *)

\* control_handle_lac_connect and control_handle_lac_outgoing_call, by name.  The second
\* differs in switch_io and dial_no_tmp, which decide on the kind of any later call.
Connect(l) ==
  /\ "connect" \in Commands
  /\ lac[l].listed
  /\ LET w == [World EXCEPT !.lac[l].active = TRUE, !.lac[l].rtries = 0]
     IN IF lac[l].c = 0 THEN Dial(w, l) ELSE Become(w)

\* The same by the number of a tunnel: a call without a LAC.
CallOnTunnel(l) ==
  /\ "call" \in Commands
  /\ tun[l] # "none" /\ Free # {}
  /\ Become(lac_call(World, l, NoLac, Min(Free)))

\* control_handle_lac_disconnect by name; by number it is TunnelCloses.
Disconnect(l) ==
  /\ "disconnect" \in Commands
  /\ lac[l].listed
  /\ LET w == [World EXCEPT !.lac[l].active = FALSE, !.lac[l].rtries = 0]
     IN Become(IF tun[l] = "none" THEN w ELSE CloseTunnel(w, l))

\* control_handle_lac_add_modify: it adds, and modifies nothing.
AddLac(l) ==
  /\ "add" \in Commands
  /\ ~ lac[l].listed
  /\ LET w == [World EXCEPT !.lac[l] = [NewLac EXCEPT !.active = l \in Autodial]]
     IN IF l \in Autodial THEN Dial(w, l) ELSE Become(w)

\* control_handle_lac_remove: the tunnel and the call at lac->c, with the calls behind it,
\* forget the LAC, the events do not.
Forgotten(w, l) ==
  [w EXCEPT !.lac[l] = [NewLac EXCEPT !.listed = FALSE],
            !.tun[l] = "none",
            !.call = [c \in CallId |-> IF w.lac[l].c # 0 /\ @[c].on = l THEN [@[c] EXCEPT !.lac = NoLac] ELSE @[c]],
            !.events = [i \in DOMAIN @ |-> IF @[i].lac = l THEN [@[i] EXCEPT !.stale = TRUE] ELSE @[i]]]
RemoveLac(l) ==
  /\ "remove" \in Commands
  /\ lac[l].listed
  /\ LET w == [World EXCEPT !.lac[l].active = FALSE, !.lac[l].rtries = 0]
     IN Become(Forgotten(IF tun[l] = "none" THEN w ELSE CloseTunnel(w, l), l))

-----------------------------------------------------------------------------
(* What happens to tunnels and calls, and the timers.                        *)

\* control_finish for SCCRP.
TunnelComesUp(l) ==
  /\ tun[l] = "SCCRQ"
  /\ Dial([World EXCEPT !.tun[l] = "SCCCN"], l)

\* The tunnel is closed here, by its number (control_handle_lac_disconnect) or for a
\* reason of its own, or its closing message is acknowledged or given up.
TunnelCloses(l) ==
  /\ tun[l] # "none"
  /\ Become(CloseTunnel(World, l))

\* StopCCN.
TunnelIsStopped(l) ==
  /\ tun[l] # "none"
  /\ Become(destroy_tunnel(World, l))

\* control_finish for ICRP and OCCN.
CallComesUp(c) ==
  /\ call[c].state = "asked" /\ tun[call[c].on] = "SCCCN"
  /\ call' = [call EXCEPT ![c].state = "up"]
  /\ lac' = IF call[c].lac = NoLac THEN lac ELSE [lac EXCEPT ![call[c].lac].rtries = 0]
  /\ UNCHANGED <<tun, events>>

\* pppd exits, of itself or after lac_hangup, or the wait for the acknowledgement of CDN is
\* over; and CDN from the peer.
CallCloses(c) ==
  /\ call[c].state \in {"up", "closing"}
  /\ Become(CloseCall(World, c))
CallIsStopped(c) ==
  /\ call[c].state # "off"
  /\ Become(DestroyCall(World, c))

\* process_schedule.  What a redial of a LAC that was freed does is not defined; here it
\* does nothing.
RunEvent ==
  /\ events # <<>> /\ Head(events).in = 0
  /\ LET w == [World EXCEPT !.events = Tail(@)]
     IN IF Head(events).stale THEN Become(w) ELSE Dial(w, Head(events).lac)

Tick ==
  /\ \E i \in DOMAIN events : events[i].in > 0
  /\ events' = [i \in DOMAIN events |-> [events[i] EXCEPT !.in = IF @ = 0 THEN 0 ELSE @ - 1]]
  /\ UNCHANGED <<lac, tun, call>>

Next ==
  \/ \E l \in Lac : Connect(l) \/ CallOnTunnel(l)
  \/ \E l \in Lac : Disconnect(l) \/ AddLac(l) \/ RemoveLac(l)
  \/ \E l \in Lac : TunnelComesUp(l) \/ TunnelCloses(l) \/ TunnelIsStopped(l)
  \/ \E c \in CallId : CallComesUp(c) \/ CallCloses(c) \/ CallIsStopped(c)
  \/ RunEvent \/ Tick

Spec == Init /\ [][Next]_vars

-----------------------------------------------------------------------------
(* Properties.                                                               *)

\* scheduler.c:86: "The queue should be in order of increasing time".
QueueOrdered == \A i, j \in DOMAIN events : i < j => events[i].in <= events[j].in

\* Types of the LACs, their tunnels and calls; the queue is in order and nothing in it is
\* due later than it was scheduled for (schedule, process_schedule).
TypeOK ==
  /\ lac \in [Lac -> LacType] /\ tun \in [Lac -> Phase] /\ call \in [CallId -> CallType]
  /\ events \in Seq(Event) /\ \A i \in DOMAIN events : events[i].in <= Rtimeout[events[i].lac]
  /\ QueueOrdered

Pending(l) == \E i \in DOMAIN events : events[i].lac = l /\ ~ events[i].stale
CallsFor(l) == {c \in CallId : call[c].lac = l}

\* A LAC that redials without limit is never left alone: while it is active a redial is
\* due, its tunnel is about to come up or to go, or it has a call.  Neither a stale
\* rsched nor a redial that ran early may end that (destroy_tunnel, magic_lac_dial).
NeverStranded ==
  \A l \in Redial :
    lac[l].active /\ Rtimeout[l] > 0 /\ Rmax[l] = 0
      => Pending(l) \/ tun[l] \in {"SCCRQ", "closing"} \/ CallsFor(l) # {}

\* Calls and LACs point at what exists: a call at a LAC that was not removed, a LAC at a
\* call of its own (destroy_call, control_handle_lac_remove).
PointersLive ==
  /\ \A c \in CallId : call[c].lac # NoLac => lac[call[c].lac].listed
  /\ \A l \in Lac : lac[l].c # 0 => call[lac[l].c].lac = l

\* A LAC that was disconnected or removed stays so until the next command: no redial that
\* is still scheduled opens a tunnel or places a call for it (magic_lac_dial).
StaysDisconnected ==
  [][\A l \in Lac : ~ lac[l].active /\ ~ lac'[l].active =>
       /\ tun[l] = "none" => tun'[l] = "none"
       /\ {c \in CallId : call'[c].lac = l} \subseteq CallsFor(l)]_vars
=============================================================================

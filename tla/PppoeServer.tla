----------------------------- MODULE PppoeServer -----------------------------
(***************************************************************************)
(* pppoe-server: the session slots, the discovery packets that open and    *)
(* stop sessions, the pppd child of each session and the drain mode.       *)
(*                                                                         *)
(* The server is one event loop: a handler runs to its end before the next *)
(* one starts.  The children run beside it, from the fork on, and their    *)
(* exits reach it as SIGCHLD, which only marks the signal as fired and     *)
(* leaves the work to the loop (event_sig.c).                              *)
(***************************************************************************)
EXTENDS Integers, Sequences, FiniteSets, Functions

CONSTANTS
  Slot,           \* the session slots, named by their session numbers
  Mac,            \* the clients' Ethernet addresses
  Pid,            \* process ids
  NoMac, NoPid, NoSlot,
  MaxSessionsPerMac,            \* -x; 0 for no limit
  IgnorePADIIfNoFreeSessions,   \* -i
  Upsets          \* what may go wrong, of UpsetKinds

UpsetKinds == {"fork fails", "child fails", "stale PADT", "SIGTERM"}

ASSUME SlotAssumption  == IsFiniteSet(Slot) /\ NoSlot \notin Slot
ASSUME MacAssumption   == NoMac \notin Mac
ASSUME PidAssumption   == NoPid \notin Pid
ASSUME LimitAssumption == MaxSessionsPerMac \in Nat
ASSUME OptionAssumption == IgnorePADIIfNoFreeSessions \in BOOLEAN /\ Upsets \subseteq UpsetKinds

VARIABLES
  free,       \* the FreeSessions list
  busy,       \* the BusySessions list: its order never matters
  active,     \* NumActiveSessions
  ses,        \* ses[s]: eth, pid and the two PADT flags of the slot
  proc,       \* proc[p]: the process p and its entry in child_process_table
  chld,       \* whether SIGCHLD has its handler, and whether it has fired
  draining,
  running,    \* the server process exists
  cookies,    \* the clients that hold a PADO's cookie
  known,      \* <<m, s>>: client m was given session number s in a PADS
  told        \* ghost: the slots whose last or present client was told of the end

\* An operator X_Fault is X as a slip in the code would have it; the runs do not use it.

slots == <<free, busy, active>>
vars == <<free, busy, active, ses, proc, chld, draining, running, cookies, known, told>>

\* forked: the child still has the server's signal handlers.  reset: it has set SIGTERM
\* back to the default.  pppd: it has sent the PADS and runs pppd.  term: SIGTERM reached it.
Stage   == {"none", "forked", "reset", "pppd", "zombie"}
Process == [stage : Stage, term : BOOLEAN, slot : Slot \cup {NoSlot}]
NoProcess == [stage |-> "none", term |-> FALSE, slot |-> NoSlot]

Session == [eth : Mac \cup {NoMac}, pid : Pid \cup {NoPid}, rcvd : BOOLEAN, sent : BOOLEAN]

\* The fields that allocating and freeing a slot both reset.
Cleared_KeepsFlags(r) == [r EXCEPT !.eth = NoMac, !.pid = NoPid]
Cleared(r) == [r EXCEPT !.eth = NoMac, !.pid = NoPid, !.rcvd = FALSE, !.sent = FALSE]

\* The sequences that list every element of S once.
Orders(S) == Bijection(1 .. Cardinality(S), S)

\* main: the slots in their order, or randomly permuted (-r).
Init ==
  /\ free \in Orders(Slot)
  /\ busy = {}
  /\ active = 0
  /\ ses = [s \in Slot |-> [eth |-> NoMac, pid |-> NoPid, rcvd |-> FALSE, sent |-> FALSE]]
  /\ proc = [p \in Pid |-> NoProcess]
  /\ chld = [installed |-> FALSE, fired |-> FALSE]
  /\ draining = "off"
  /\ running = TRUE
  /\ cookies = {}
  /\ known = {}
  /\ told = {}

-----------------------------------------------------------------------------
(* Discovery packets.                                                       *)

\* count_sessions_from_mac
SessionsOf(m) == {s \in busy : ses[s].eth = m}

BelowLimit_OneTooMany(m) == MaxSessionsPerMac = 0 \/ Cardinality(SessionsOf(m)) <= MaxSessionsPerMac
BelowLimit(m) == MaxSessionsPerMac = 0 \/ Cardinality(SessionsOf(m)) < MaxSessionsPerMac

\* The PADO carries the cookie, which never expires.
processPADI(m) ==
  /\ running
  /\ draining = "off"
  /\ IgnorePADIIfNoFreeSessions => free # <<>>
  /\ BelowLimit(m)
  /\ cookies' = cookies \cup {m}
  /\ UNCHANGED <<slots, ses, proc, chld, draining, running, known, told>>

FreeAgain_Leaked == Tail(free)
FreeAgain == Append(Tail(free), Head(free))

\* processPADR when fork fails: the slot goes from the head of the free list to its
\* tail, and an error PADS tells the client.
RefusePADR(m) ==
  /\ "fork fails" \in Upsets
  /\ running
  /\ m \in cookies
  /\ BelowLimit(m)
  /\ free # <<>>
  /\ free' = FreeAgain
  /\ ses' = [ses EXCEPT ![Head(free)] = Cleared(@)]
  /\ UNCHANGED <<busy, active, proc, chld, draining, running, cookies, known, told>>

\* processPADR with a PADR that has its cookie and a service we offer.  The child may be
\* dead already (pppd cannot be executed) when Event_HandleChildExit comes to register it:
\* SIGCHLD fires then only if an earlier session has installed its handler.
processPADR(m) ==
  /\ running
  /\ m \in cookies
  /\ BelowLimit(m)
  /\ free # <<>>
  /\ LET s == Head(free)
     IN \E p \in Pid, stage \in {"forked", "zombie"} :
          /\ proc[p].stage = "none"
          /\ stage = "zombie" => "child fails" \in Upsets
          /\ proc' = [proc EXCEPT ![p] = [stage |-> stage, term |-> FALSE, slot |-> s]]
          /\ ses' = [ses EXCEPT ![s] = [Cleared(@) EXCEPT !.eth = m, !.pid = p]]
          /\ chld' = [installed |-> TRUE,
                      fired |-> chld.fired \/ (chld.installed /\ stage = "zombie")]
          /\ known' = IF stage = "zombie" THEN known \cup {<<m, s>>} ELSE known
          /\ free' = Tail(free)
          /\ busy' = busy \cup {s}
          /\ active' = active + 1
          /\ told' = told \ {s}
  /\ UNCHANGED <<draining, running, cookies>>

\* kill (pid, SIGTERM): a child that has the server's handler still ignores it, for
\* sig_handler finds getpid () # MyPid.
Killed_Forgotten(r) == r
Killed(r) == IF r.stage \in {"reset", "pppd"} THEN [r EXCEPT !.term = TRUE] ELSE r

\* PppoeStopSession: the PADT goes out, the flag is set, pppd is killed.
StopSessions(S) ==
  /\ ses' = [s \in Slot |-> IF s \in S THEN [ses[s] EXCEPT !.sent = TRUE] ELSE ses[s]]
  /\ proc' = [p \in Pid |-> IF \E s \in S : ses[s].pid = p THEN Killed(proc[p]) ELSE proc[p]]
  /\ told' = told \cup S

IsOwner_AnyClient(m, s) == ses[s].eth # NoMac
IsOwner(m, s) == ses[s].eth = m

\* A client sends PADT for a session it was given; it may come late, when the number is
\* in use again.
processPADT(m, s) ==
  /\ running
  /\ <<m, s>> \in known
  /\ IsOwner(m, s)
  /\ \/ "stale PADT" \in Upsets
     \/ ses[s].pid \in Pid /\ proc[ses[s].pid].stage = "pppd"
  /\ LET p == ses[s].pid
     IN /\ ses' = [ses EXCEPT ![s].rcvd = TRUE, ![s].sent = TRUE]
        /\ proc' = IF p = NoPid THEN proc ELSE [proc EXCEPT ![p] = Killed(@)]
  /\ told' = told \cup {s}
  /\ UNCHANGED <<slots, chld, draining, running, cookies, known>>

-----------------------------------------------------------------------------
(* The children.                                                            *)

ChildResetsSignals(p) ==
  /\ proc[p].stage = "forked"
  /\ proc' = [proc EXCEPT ![p].stage = "reset"]
  /\ UNCHANGED <<slots, ses, chld, draining, running, cookies, known, told>>

\* The child sends the PADS from its copy of the session, then executes pppd.
ChildStartsPPPD(p) ==
  /\ proc[p].stage = "reset"
  /\ proc' = [proc EXCEPT ![p].stage = "pppd"]
  /\ known' = known \cup {<<ses[proc[p].slot].eth, proc[p].slot>>}
  /\ UNCHANGED <<slots, ses, chld, draining, running, cookies, told>>

\* A child ends on its own or because it was killed.  Without a server init reaps it.
ChildExits(p) ==
  /\ proc[p].stage \in {"reset", "pppd"}
  /\ proc[p].stage = "reset" => proc[p].term
  /\ proc' = [proc EXCEPT ![p] = IF running THEN [@ EXCEPT !.stage = "zombie"] ELSE NoProcess]
  /\ chld' = [chld EXCEPT !.fired = @ \/ (running /\ chld.installed)]
  /\ UNCHANGED <<slots, ses, draining, running, cookies, known, told>>

-----------------------------------------------------------------------------
(* The event loop.                                                          *)

\* What waitpid (WNOHANG) returns until it has nothing left.
Zombies_FirstOnly == {p \in Pid : p = CHOOSE z \in Pid : proc[z].stage = "zombie"}
Zombies == {p \in Pid : proc[p].stage = "zombie"}

EndedSlots_Stopped == {s \in busy : ses[s].sent \/ proc[ses[s].pid].stage = "zombie"}
EndedSlots == {proc[p].slot : p \in Zombies} \cap busy

\* DoPipe, child_handler and the childHandler of every child that waitpid returns, in any
\* order: a PADT unless one was sent, then pppoe_free_session.
ReapChildren ==
  /\ running
  /\ chld.fired
  /\ chld' = [chld EXCEPT !.fired = FALSE]
  /\ LET ended == EndedSlots
     IN /\ \E order \in Orders(ended) : free' = free \o order
        /\ busy' = busy \ ended
        /\ active' = active - Cardinality(ended)
        /\ ses' = [s \in Slot |-> IF s \in ended THEN Cleared(ses[s]) ELSE ses[s]]
        /\ told' = told \cup {s \in ended : ~ ses[s].sent}
  /\ proc' = [p \in Pid |-> IF p \in Zombies THEN NoProcess ELSE proc[p]]
  /\ UNCHANGED <<draining, running, cookies, known>>

\* handle_set_drain, from the control socket.
SetDrain ==
  /\ running
  /\ draining' \in {"off", "on", "quit"} \ {draining}
  /\ UNCHANGED <<slots, ses, proc, chld, running, cookies, known, told>>

\* pppoe_terminate: killAllSessions, then exit.
Shutdown ==
  /\ StopSessions(busy)
  /\ running' = FALSE
  /\ UNCHANGED <<slots, chld, draining, cookies, known>>

\* main's test after Event_HandleEvent, which runs the handlers of everything that was
\* ready: more than one may come between two tests.
Drained_Always == draining = "quit"
Drained == draining = "quit" /\ active = 0

QuitWhenDrained ==
  /\ running
  /\ Drained
  /\ Shutdown

\* SIGTERM or SIGINT, in DoPipe.
termHandler ==
  /\ "SIGTERM" \in Upsets
  /\ running
  /\ Shutdown

Next ==
  \/ \E m \in Mac : processPADI(m) \/ processPADR(m) \/ RefusePADR(m)
  \/ \E m \in Mac, s \in Slot : processPADT(m, s)
  \/ \E p \in Pid : ChildResetsSignals(p) \/ ChildStartsPPPD(p) \/ ChildExits(p)
  \/ ReapChildren \/ SetDrain \/ QuitWhenDrained \/ termHandler

Spec == Init /\ [][Next]_vars

\* The loop keeps turning, children get to run, and a pppd that SIGTERM reached exits.
\* No session ends, and no client asks for anything, by fairness.
Fairness ==
  /\ WF_vars(ReapChildren)
  /\ \A p \in Pid : /\ WF_vars(ChildResetsSignals(p))
                    /\ WF_vars(ChildStartsPPPD(p))
                    /\ WF_vars(proc[p].term /\ ChildExits(p))

FairSpec == Spec /\ Fairness

-----------------------------------------------------------------------------
(* Properties.                                                              *)

TypeOK ==
  /\ free \in Seq(Slot)
  /\ busy \subseteq Slot
  /\ active \in Nat
  /\ ses \in [Slot -> Session]
  /\ proc \in [Pid -> Process]
  /\ chld \in [installed : BOOLEAN, fired : BOOLEAN]
  /\ draining \in {"off", "on", "quit"}
  /\ running \in BOOLEAN
  /\ cookies \subseteq Mac
  /\ known \subseteq Mac \X Slot
  /\ told \subseteq Slot

\* No slot is lost, listed twice or both free and busy, whatever becomes of the sessions,
\* and NumActiveSessions counts the busy ones (pppoe_alloc_session, pppoe_free_session).
SlotsConserved ==
  /\ \A i, j \in DOMAIN free : i # j => free[i] # free[j]
  /\ \A s \in Slot : s \in busy <=> \A i \in DOMAIN free : free[i] # s
  /\ active = Cardinality(busy)

\* While the server runs, the busy slots and the children not yet reaped belong together
\* one to one: kill (ses->pid) in PppoeStopSession never hits a process of someone else,
\* and no pppd runs for a session the server has forgotten.
ChildPerSession ==
  running =>
    /\ \A s \in busy : /\ ses[s].pid \in Pid
                       /\ proc[ses[s].pid].stage # "none"
                       /\ proc[ses[s].pid].slot = s
    /\ \A p \in Pid : proc[p].stage # "none" => /\ proc[p].slot \in busy
                                                /\ ses[proc[p].slot].pid = p

\* A session is stopped by PADT only at the word of a client that was given its number.
StoppedByItsClient ==
  \A s \in busy : ses[s].rcvd => <<ses[s].eth, s>> \in known

\* No session ends in silence: when a slot leaves the busy list its client has been sent a
\* PADT, once FLAG_SENT_PADT and the slot's reuse have had their say (childHandler).
NoSilentEnd ==
  [][\A s \in busy : s \in busy' \/ s \in told']_vars

\* SIGTERM comes between a child's fork and its signal (SIGTERM, SIG_DFL) at
\* pppoe-server.c:984: the child has the server's handler still, which ignores what
\* killAllSessions sends it (event_sig.c:134).
ForkedUnderSIGTERM(p) == proc[p].stage = "forked" /\ ~ Drained

\* When the server exits every child it leaves behind is dead or dying: killAllSessions
\* "Kills all pppd processes (and hence all PPPoE sessions)", pppoe-server.c:316.  That is
\* so of all but the children SIGTERM catches just forked; a server that quits because it
\* has drained leaves not even those.
EndsWithItsChildren ==
  [][running /\ ~ running' =>
       \A p \in Pid : \/ proc'[p].stage \in {"none", "zombie"}
                     \/ proc'[p].term
                     \/ ForkedUnderSIGTERM(p)]_vars

\* To its clients the server is a pool of session numbers with one owner each.
Pool == INSTANCE SessionPool
          WITH Limit <- MaxSessionsPerMac, owner <- [s \in Slot |-> ses[s].eth]

ImplementsPool == Pool!Spec

\* A session its client has ended with PADT is freed, as long as the server runs.
StoppedEnds ==
  \A s \in Slot : (running /\ ses[s].rcvd) ~> (~ running \/ ~ ses[s].rcvd)

\* event_sig.c:287: Event_HandleChildExit "Sets things up so that when a child exits,
\* handler() will be called", so that its slot is freed.
ExitIsHandled ==
  \A p \in Pid : (running /\ proc[p].stage = "zombie") ~> (~ running \/ proc[p].stage # "zombie")
=============================================================================

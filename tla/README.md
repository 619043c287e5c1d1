# A TLA+ development of zy-agf

zy-agf builds a wireline access gateway out of two daemons it carries in source:
`src/xl2tpd` (L2TP, RFC 2661) and `src/rp-pppoe` (PPPoE, RFC 2516), glued by scripts
that start them with `pppd`. This directory holds TLA+ models of their control logic,
the TLC runs that check them, and theorems about them that TLAPS proves. References to
lines are to the files under `src/`.

The build the models follow is the one of `src/xl2tpd/Makefile`: `SANITY`, `USE_KERNEL`,
`IP_ALLOCATION`, `TRUST_PPPD_TO_DIE`, on Linux.

## 1. Inventory

| Component | State | Operations | Interaction | What makes it correct |
|---|---|---|---|---|
| xl2tpd control channel (`control.c`, `network.c`) | per tunnel: `control_seq_num`, `control_rec_seq_num`, `cLr`; scheduled buffers with `retries` | `control_xmit`, `check_control`, `handle_control`, `handle_special`, `control_zlb`, `hello` | UDP to the peer; the scheduler; the call state machine above it | messages are taken in order and once; nothing is tossed before the peer has it |
| xl2tpd closing (`call.c`, `network.c`, `xl2tpd.c`) | `needclose`, `closing`, `closeSs` per call and per tunnel | `call_close`, `build_fdset`, `destroy_tunnel`, `destroy_call`, `child_handler`, `death_handler` | sends StopCCN and CDN on the control channel; pppd's exit | what begins to close ends; StopCCN is delivered |
| xl2tpd set-up (`control_finish`, `avp.c`, `aaa.c`) | `state`, `tid`, `cid`, challenges per tunnel and call; `uaddr`, `lns->localaddr` | SCCRQ, SCCRP, SCCCN, ICRQ, ICRP, ICCN, OCRQ, OCRP, OCCN; attributes; `get_addr`, `unreserve_addr` | control channel, pppd | both ends agree on the tunnel and the call; a duplicate opens nothing; nobody comes up without the secret; addresses are conserved; nobody waits for ever |
| xl2tpd LAC dialling (`xl2tpd.c`) | per LAC: `active`, `t`, `c`, `rsched`, `rtries` | `magic_lac_dial`, `lac_call`, control pipe commands | scheduler, `destroy_call`, `destroy_tunnel` | an active LAC redials, a disconnected one does not; pointers live |
| xl2tpd scheduler (`scheduler.c`) | `events`, ordered by time | `schedule`, `deschedule`, `process_schedule` | every timer | events run in order, none early, none twice |
| xl2tpd payload (`control.c`, `call.c`) | `data_seq_num`, `data_rec_seq_num` | `expand_payload`, `handle_packet`, `add_payload_hdr` | pppd's pty, UDP | late payload is told from new |
| xl2tpd configuration, digests, pty, `xl2tpd-control` | - | parsing, formatting, I/O | - | not control logic |
| pppoe-server (`pppoe-server.c`) | `FreeSessions`, `BusySessions`, `NumActiveSessions`, the slots, `draining` | `processPADI`, `processPADR`, `processPADT`, `childHandler`, `PppoeStopSession`, `handle_set_drain`, `termHandler` | a forked child per session; SIGCHLD and SIGTERM; the control socket | no slot is lost; one client per number; a child per session; clients hear of the end |
| libevent signals (`event_sig.c`) | `SignalHandlers`, the pipe, `child_process_table` | `sig_handler`, `DoPipe`, `child_handler`, `Event_HandleChildExit` | the server's loop | every exit is handled once |
| libevent selector and buffers (`event.c`, `event_tcp.c`), the server's control socket (`control_socket.c`) | handlers, `opsPending`; the buffer of each; a connection each | `Event_HandleEvent`, add, delete; accept, read a line, write a reply | clients of the control socket | a handler is called for what is ready; one handler a connection; a slow client holds up no other |
| pppoe-relay (`relay.c`) | sessions, hash table, `Epoch`, `CleanCounter` | `relayHandlePADI/PADO/PADR/PADS/PADT`, `cleanSessions`, `alarmHandler` | clients on one side, servers on the other | the two directions of a session match; tables are conserved |
| pppoe client (`discovery.c`, `common.c`, `pppoe.c`, `plugin.c`) | `discoveryState`, attempts, `timeout`, the deadline, cookie and relay tag, `session` | `discovery`, `waitForPADO`, `waitForPADS`, `sendPADT`, signals | concentrators, pppd | PADR answers the right PADO; the session is its own; discovery ends; one PADT a session |
| gtpu test programs, scripts, packaging | - | - | - | not modelled |

**Where it is hard.** Everything is single-threaded, so a handler is atomic; the hard parts
are the network between two such daemons (loss, duplicates, reordering, and sequence
numbers that wrap), the processes beside them (a fork and the moments before the child is
itself, exits coalesced into one SIGCHLD, signals), closing (both ends close at once,
messages are tossed, retransmissions run out), timers that outlive what they were set for
(redials of a LAC that was disconnected, removed, or dialled by hand), and numbers that are
reused (the session slots of the server and of the relay, which stands between stations
that lose its frames, restart, and use late what they once learnt; descriptors that are
closed and given out again within one round of `select`).
`PROJECT.json` lists the hazards, each at its line, with the properties that watch it.

## 2. Modules

| Module | What it is |
|---|---|
| `L2tpControl` | two xl2tpd daemons on one established tunnel: control channel and closing handshake |
| `ReliableChannel` | what the control channel promises: messages taken in order, each once |
| `MCL2tpControl`, `L2tpControlProofs` | symmetry and constants for its runs; its theorems |
| `L2tpSetup` | a LAC and an LNS: set-up and end of tunnels and of calls, over such a channel |
| `L2tpAvp` | the attributes of messages and what the handlers of avp.c make of them; no state |
| `MCL2tpSetup`, `L2tpSetupProofs` | configurations for its run; its theorems |
| `LacDial` | LACs that dial and redial, the commands of the control pipe, the queue of the scheduler |
| `MCLacDial`, `LacDialProofs` | constants for its run; its theorems |
| `PppoeServer` | pppoe-server, its children, its clients |
| `SessionPool` | what the server promises: a number has one owner, a client has at most the limit |
| `MCPppoeServer`, `PppoeServerProofs` | symmetry for its runs; its theorems |
| `ControlSocket` | the server's control socket on libevent: selector, buffers, connections, clients |
| `MCControlSocket`, `ControlSocketProofs` | constants for its run; its theorems |
| `PppoeRelay` | pppoe-relay between clients and servers |
| `RelayedSessions` | what the relay promises: an end is joined to one other end at a time |
| `MCPppoeRelay`, `PppoeRelayProofs` | stations and symmetry for its runs; its theorems |
| `PppoeDiscovery` | a client between concentrators: discovery, its waits, and how the session ends |
| `MCPppoeDiscovery`, `PppoeDiscoveryProofs` | what may run, for its runs; its theorems |
| `Selection` | the elements of a sequence at chosen places, for `L2tpSetup` and `ControlSocket` |
| `ListLemmas` | lemmas about lists, chosen places and least numbers, for the proofs of all but `L2tpControl` and `PppoeDiscovery` |

How they fit together: `L2tpControl` shows that a tunnel's messages are taken in order and once,
also with a call that both ends may close, and that the receive counter may then run one ahead;
`L2tpSetup` rests on that, and has for a tunnel a queue of messages to take and whether its
counter is ahead, which costs the peer its next message; `LacDial` takes from `L2tpSetup` that
tunnels and calls come up and end, and looks at what the LAC does about it. `PppoeServer`,
`PppoeRelay` and `PppoeDiscovery` are the three parties of PPPoE; each has the others as an
environment that does whatever RFC 2516 lets it.

### L2tpControl

`tun[e]` is what daemon `e` keeps of the tunnel. The code's names: `seq` is
`control_seq_num`, `rec` is `control_rec_seq_num`, `cLr` is `cLr`, `queue` the buffers
scheduled for `control_xmit` with their `retries`, `needclose`/`closing`/`closeSs`/`cnu`
those of the tunnel's `self` call, `call` the one call in the tunnel (`PppdAt`: at which ends it
has a pppd). `nsent` and `taken`
are ghosts: how many messages the end has sent, and the numbers of those `check_control`
let through. `net` holds every packet ever sent: receiving does not remove it, so it may
arrive again, late, or never.

The tunnel starts established. Its counters start at 0; in the program they start at what
the handshake has used, and since numbers only matter by difference before they wrap,
nothing is lost by it.

| Action | Code |
|---|---|
| `CloseUnsettled`, `PppdExit` | `process_signal` and `build_fdset`, at the top of the loop; `child_handler` |
| `HelloTimer`, `RetransmitTimer` | `process_schedule`: `hello`, `control_xmit` |
| `Receive` | one packet: `get_call`, `get_tunnel`, `handle_packet` or `handle_special`, and the acknowledgement at the end |
| `Disconnect` | the control pipe's disconnect: `lac_disconnect` |
| `ReadError` | a read error on the pty, network.c:723-730 |
| `Terminate` | `death_handler` (with kernel support; without it SIGTERM just exits, which is `Crash`) |
| `Crash` | the daemon or its host is lost |

A handler is an operator from a tunnel record to a record `st` and the packets `out` it
sends; the action is `Do(e, handler)`. Timers are not timed: a scheduled retransmission may
fire whenever the loop turns, which covers every delay. Because `process_schedule` comes
after `build_fdset` in each pass, timers wait until what needs closing has been handled.

Abstracted: AVPs (a message is its kind; the answers to malformed ones are left out),
several calls in a tunnel, payload, `udp_fd` per tunnel.

### L2tpSetup and L2tpAvp

`tun[e][t]` and `call[e][c]` are the structs of end `e`, with ids that are never used again; `us`
and `them` are `chal_us.state` and `chal_them.state`. `box[e][t]` is the queue of messages that
tunnel `t` has yet to take. `zlbs[e][t]` are the ZLBs for calls that may still come to it, and
`ahead[e][t]` is whether one was counted in. `used` is `uaddr[]`, `local` is `lns->localaddr`.
`conf` is a configuration that does not change: who challenges whom, which end has which secret,
whether `get_lns` lets the LAC in, and whether calls are incoming or outgoing ones.

What the channel of `L2tpControl` cannot help stays: a message to a tunnel that is gone or to
tunnel 0, and what a closing end tosses, leaves the sender `stuck`, for its next messages are
then out of sequence too. `heard` is the peer's tunnel whose numbers a new tunnel has begun to
count: a second SCCRQ makes a second tunnel at the LNS, and both answer to the same one.

And there is the drift. Each message for a call is acknowledged with a ZLB that carries the
call's id (`Acknowledge`), again whenever a copy of the message comes. A ZLB that comes when its
call is gone may be counted in (`CountIn`, control.c:1750). From then on the tunnel is one
`ahead` of its peer: the peer's next message is taken for an old one, is acknowledged as if
taken, and is tossed by its sender, unsent or not (network.c:225), so `InSequence` has it
vanish; after that the counters are equal again. What `ahead` tells apart is only which message
is lost, so `CountIn` asks that nothing of the peer is on its way: nothing can be taken between
the ZLB and what was sent before it without the ZLB being in sequence no more, and a ZLB counted
in while later messages are on their way does what one does that was counted in before they
were sent. While it is ahead an end refuses the peer's ZLBs as well, so that a closing end may
have to give up (`Acked`, `GiveUp`). A Hello may be the message that is lost (`HelloRefused`).

| Action | Code |
|---|---|
| `OpenTunnel`, `Calling` | `l2tp_call`, `lac_call` |
| `TakeRequest` | SCCRQ to tunnel 0: `get_call`, `new_tunnel`, `handle_avps`, `control_finish`; again, when a copy comes late |
| `Receive` | any other message: `handle_avps`, `control_finish`, or `handle_special` when its call is gone |
| `CloseUnsettledCall`, `CloseUnsettledTunnel` | `build_fdset` and `call_close`, calls first |
| `Acked`, `GiveUp` | the ZLB that ends the wait of a closing end; `control_xmit` out of retries |
| `PppdExits`, `Disconnect` | `child_handler`; `lac_disconnect` |
| `CountIn`, `HelloRefused` | `handle_special` and its `control.c:1750`; a Hello that is lost to the drift |
| `HangUpEarly`, `AnswerOCRQ`, `UnaskedSCCCN` | another implementation: a LAC that gives up a call not yet answered, an LNS that answers OCRQ, which xl2tpd does not, a LAC that sends SCCCN without waiting for SCCRP |

A message is built with the attributes that `control.c` and `call.c` put into it
(`L2tpAvp!Carried`), another implementation may spoil one of them (`Flaws`), and
`HandleAvps` says which values are kept, whether the message is dropped, and whether the call
is marked for closing. Bytes, hidden values, digests and texts are left out. Findings on the
way: `new_call` sets `cid` to -1 and then to 0, so that the tests `cid < 0` for ICRQ and ICRP
are never true (a missing id is therefore not noticed, and the CDN that follows names no
call); an LNS that is to challenge but has no secret returns without an answer
(control.c:502) and leaves a half-open tunnel, while the LAC waits, and which an SCCCN that
comes unasked brings up; `start_pppd` may fail and leave a call without pppd.

### LacDial

`lac[l]` is struct lac (`listed`: it is in the list of the configuration; `rsched`: the
pointer is not NULL; `c`: `lac->c`), `tun[l]` the tunnel at `lac->t`, `call[c]` a call, and
`events` the queue of the scheduler with the redials and the time each has left. Time passes
in ticks; a redial that is due may wait for as long as the loop does something else.

| Action | Code |
|---|---|
| `Connect`, `CallOnTunnel`, `Disconnect`, `AddLac`, `RemoveLac` | the commands of the control pipe, by the name of a LAC or the number of a tunnel |
| `TunnelComesUp`, `CallComesUp` | `control_finish` for SCCRP; for ICRP and OCCN |
| `TunnelCloses`, `TunnelIsStopped`, `CallCloses`, `CallIsStopped` | `call_close`, `destroy_tunnel`, `destroy_call` and the redials they schedule |
| `RunEvent`, `Tick` | `process_schedule`; time |

What the model shows of the code besides its properties: `Rmax` counts the dials of a
command too, before the first (`rtries` is raised at the start of `magic_lac_dial`);
`switch_io` and `dial_no_tmp` are globals, so the last command decides on the kind of every
later call (xl2tpd.c:1256, xl2tpd.c:1313); connect on a tunnel that is not up yet places a
second call, and a call may be placed on a tunnel that is closing; and a redial that is
scheduled for a LAC that is removed keeps its pointer to it (xl2tpd.c:1488). What that redial
then does is not defined; the model marks it `stale` and gives it no effect, so that the
properties speak of the other LACs and of what comes of the LAC when it is added again.

### PppoeServer

`free`, `busy`, `active` are `FreeSessions`, `BusySessions`, `NumActiveSessions`; `ses[s]`
holds `eth`, `pid` and the two PADT flags of slot `s`. `proc[p]` is process `p`: where the
child is between `fork` and its end, whether SIGTERM reached it, and the slot its entry in
`child_process_table` points to. `chld` is whether SIGCHLD has its handler and whether
`fired` is set. `cookies` and `known` are what clients have learnt from PADO and PADS:
they may use it at any later time, which models delayed and duplicated frames. `told` is a
ghost.

| Action | Code |
|---|---|
| `processPADI`, `processPADR`, `processPADT` | the handlers of the same name |
| `RefusePADR` | `processPADR` when `fork` fails |
| `ChildResetsSignals`, `ChildStartsPPPD`, `ChildExits` | the child's half of `processPADR`, and the life of pppd |
| `ReapChildren` | `DoPipe`, `child_handler`, and `childHandler` for every child `waitpid` returns |
| `SetDrain` | `handle_set_drain` |
| `QuitWhenDrained`, `termHandler` | the end of the main loop; SIGTERM |

Packets that a handler drops without a change of state (wrong address, bad cookie, unknown
service) are not actions. A failure of `malloc` in `Event_HandleChildExit` is left out.

### ControlSocket

`list` is `es->handlers`, newest first; a handler carries the number of pieces its buffer
has read or has left to write (`EventTcpState`). `round` is the walk of `Event_HandleEvent`:
its place in the list and the two sets `select` has left; `ready`, a ghost, is for whom they
were set. `open` are the descriptors in use, `conn[c]` the server's end of the connection of
client `c`, `peer[c]` the client's end. A command is a sequence of pieces, a reply a number
of them; `SendBuf` of them fit into the socket.

| Action | Code |
|---|---|
| `Select` | `Event_HandleEvent` up to the first callback |
| `Callback` | one `eh->fn`: `handle_accept`, `handle_readable` or `handle_writeable` with the callbacks of `control_socket.c`; then on to the next handler, or `DoPendingChanges` |
| `Connects`, `Says`, `Listens`, `Leaves` | the client, between any two callbacks |

`nestLevel` is never above 1, as only `main` calls `Event_HandleEvent`, and deletions always
wait for the end of the round. Callbacks add handlers at the head of the list, behind the
walk: that, and not the sets of `select`, is why a new connection with a number that was
closed in the same round is not called. SIGPIPE is ignored (pppoe-server.c:1590), so that
`write` to a client that has left fails. Any allocation of a callback may fail, but
only one in each: a second one that fails has the connection closed
(`control_socket_cleanup_client`), and so has the second on its own. Every command handler
writes something, so that there is no output to send only where memory for it ran out. What the
model shows besides: a command longer than the buffer is cut, and its rest is taken for
another command; without memory for "Good bye." the connection reads on, and closes after
its next reply; when the last session has gone, "set drain quit" ends the server before the
reply is written (pppoe-server.c:1742).

### PppoeRelay

`free`, `active`, `count` are `FreeSessions`, `ActiveSessions`, `NumSessions`; `ses[s]` is
the slot that hands out number `s`: the server and its number (`ac`, `acSes`), the client
(`cli`), and `age`, the difference of `Epoch` and `epoch`. `table` is what hangs in
`Buckets`, `hashes` how many entries are on `FreeHashes`. `cleanCounter` and `cleanPipe`
are `CleanCounter` and the byte in `CleanPipe`.

The stations are not pppoe-relay's code: they are modelled by what RFC 2516 lets them send.
`asked`, `offered` and `requested` are the Relay-Session-Id tags they have been given by
PADI, PADO and PADR. They may send them back at any later time, any number of times, which
models delayed and duplicated frames. `owner[x]` is the client for which a server keeps
session `x`, `has[x]` the server's session that a client believes it has under a number
of the relay, and `padts` the PADTs that stations have sent and the relay has not read.

| Action | Code |
|---|---|
| `relayHandlePADI`, `relayHandlePADO`, `relayHandlePADR` | the handlers of the same name: which interfaces take part, and where the tag sends the frame |
| `relayHandlePADS` | the handler, with `findSession`, `createSession`, and the PADT and the error PADS of a relay that is full |
| `relayHandlePADT` | the handler, with `freeSession` and `unhash` |
| `relayGotSessionPacket` | the handler, for a station that uses a session it has |
| `alarmHandler`, `cleanSessions` | the alarm each second; the test of the pipe in `relayLoop`, and the cleaner |
| `ClientEnds`, `ServerEnds`, `ServerRestarts` | the stations |

Abstracted: a station is at one interface (`At`); the relay's own frames arrive at once, or
are lost when `"relay frame lost"` is among the `Upsets`; frames of stations that go through
one discovery socket are read in order (a server does not overtake its own PADT). Which of
several entries with one key `findSession` returns is left open, and `KeysUnique` shows that
there is only one. The fields of free slots are never read and are blanked. Frames that are
dropped without a change of state are not actions: bad lengths, no tag, an unknown session.
A station that is client and server at once, which `-B` would allow, is excluded by
`StationAssumption`. Ages stop at the first that is too old, and `cleanCounter` at
`CleanPeriod`, from where on the code does nothing with them that would tell them apart.

### PppoeDiscovery

`mode` is what runs, `pppoe`, `pppoe -A` ("probe") or the plugin of pppd with persist, whether
it asks with a Host-Uniq tag (the plugin does, `pppoe` only with `-U` or `-W`), and which
concentrators have the names asked for or send an error; it does not change. Other clients
of the host may be served by the same concentrators: of theirs there is one session at each,
whose packets `packetIsForMe` tells from the client's own by the tag only. `conn` is
`PPPoEConnection`, `wait` the locals of `discovery` and of the wait it is in: attempts,
timeout, ticks left until the deadline, and the part of a second that `gettimeofday` shows.
`air` are the packets on their way to the client, each of which may come at any time or never;
`given` and `ended` what the concentrators have done; `padr`, `padt` and `why` are ghosts.

| Action | Code |
|---|---|
| `TimesOut`, `Receives` | the turns of `waitForPADO` and `waitForPADS`, with what `discovery` does next (`AgainPADI`, `AgainPADR`, `sendPADI`, `sendPADR`) |
| `Tick` | time |
| `sessionDiscoveryPacket`, `Leaves` | the loop of `session`, as far as it ends |
| `sendPADT`, `sigPADT`, `Killed` | `sendPADT` from where it has put the session to zero; the signal handler, anywhere in it; a signal before the handlers are there |
| `ConnectsAgain` | pppd with persist: `PPPOEConnectDevice` with the conn it has |
| `AcEnds` | a concentrator ends a session |

What the model shows besides its properties: a `pppoe` whose PADIs ran out leaves the loop
and sends PADRs to the address zero, and then enters `session` with session 0; with persist
the counter begins at 0, so that one more attempt is made, with a timeout doubled once more;
a signal between `conn->session = 0` and `sendPacket` loses the PADT (and is why there are
never two); a signal before the handlers are installed leaves the session at the
concentrator; repeated PADRs open several sessions there, of which the client uses the first
it hears of.

Some operators come twice, once as `X` and once as `X_Fault` (`HasReceived` and
`HasReceived_OneTooMany`): the second is a slip that a programmer could make there. The
specifications never use it; putting it in the place of `X` must break a property, which
is how each property is known to depend on the code it is about.

## 3. Runs

Passing runs (numbers of distinct states in brackets):

| Run | Shows | Bounds |
|---|---|---|
| `l2tp_tunnel` | `AckedWasTaken`, `KeptUntilTaken`, `OldIsRecognised`, and that the tunnel implements `ReliableChannel` | no call; up to two Hellos per end besides StopCCN, two transmissions each, disconnect, SIGTERM and crash at any time; numbers do not wrap (223 491 states) |
| `l2tp_calls` | `TakenInOrder` also with a call that both ends may close, `DriftAtMostOne`, and `CountedOutWhileCallsLive`: ZLBs are counted in only for a call that is gone | one call; the messages are CDN and StopCCN (342 324 states) |
| `l2tp_closing` | `ClosingEnds`, of all behaviours in which no packet comes for a call that is gone | one call, with pppd at one end, three transmissions, disconnect, SIGTERM and crash at any time (13 593 states) |
| `setup` | `AddressesConserved`, `Authentic`, `EndsAgree`, `NoCallWaits` | a tunnel whose SCCRQ comes twice, two calls, one address for the peers and one of the LNS, eleven configurations, every upset, one mishap: a spoilt message, an SCCCN unasked or a ZLB counted in (453 195 states) |
| `dial` | `NeverStranded`, `PointersLive`, `StaysDisconnected` | two LACs, one dialled at the start, one with a limit of one redial; two calls, two redials scheduled, every command (392 353 states) |
| `server_sessions` | `SlotsConserved`, `ChildPerSession`, `StoppedByItsClient`, `NoSilentEnd`, `EndsWithItsChildren` under SIGTERM and when the server has drained, and that the server implements `SessionPool` | 3 slots, 2 clients, limit 2, 4 processes, every upset (144 450 states) |
| `server_sessions_end` | `StoppedEnds`, `ExitIsHandled` | 2 slots, forks may fail, no SIGTERM (23 816 states) |
| `control` | `OneOperation`, `CalledWhenReady`, `Served` | two clients that send three pieces together, a buffer and replies of two pieces, a socket that holds one; clients leave and come again, one may never read, allocations fail (172 359 states) |
| `relay` | `TablesConserved`, `KeysUnique`, `RelaysToOwner`, `RelaysToServer`, `ServersAreServed`, and that the relay implements `RelayedSessions` | 2 slots, 2 clients, a server with 3 numbers, sessions idle after one tick, clients' PADTs may be lost (116 316 states) |
| `relay_idle` | `IdleGoes` | 1 slot, 2 clients, a server with 2 numbers, cleaning every second tick, every upset (26 343 states) |
| `discovery` | `SessionIsOurs`, `AsksRightly`, `EndedByPeer`, `PadtOnce`, `DiscoveryEnds` | 2 concentrators with cookies, one behind a relay, modes with and without Host-Uniq, two attempts, seconds of two ticks, two sessions, one more connection with persist (590 901 states) |

Type invariants are proved for all constants, but for that of `PppoeDiscovery`, which its runs
check; the run `setup` checks that of `L2tpSetup` as well. In `control` the types of the list and
of both ends are the first conjuncts of `OneOperation`.

Why the bounds are enough to be of interest: two messages per end are the least that can
overtake each other, be acknowledged together and be tossed apart; two transmissions let
one be lost and one duplicated before the end gives up; a limit of two with three slots
lets a client reach its limit while slots are left, and three slots let a freed number go
round the list and be reused while another is busy. A server with more numbers than the
relay has slots fills the relay and is refused, and two slots and two clients let a slot be
freed and given to the other client while the first one's frames are still about. Two calls
in one tunnel with one address are the least in which one call may be stored, answered or
charged in place of the other, and two tunnels of the LNS the least for an SCCRQ that comes
twice. One mishap (`MaxMishaps`) lets each be seen alone; the properties that must hold
in spite of mishaps are proved for any number of them. Two LACs whose redials are not due at the same time let their redials overtake each
other; two redials scheduled let a stale one be about beside a new one. Two concentrators, one of
them wanted, let an answer come from the wrong one, with or without cookies and tags of its
own; two attempts let a first answer come in the second wait; seconds of two ticks tell the
two fields of `time_left` apart. Two clients of the control socket are the least for a
descriptor that goes from one to the other, and three pieces let a client send a command and
a half, or two commands at once, and make one that is longer than the buffer.
`MaxQueue` and `MaxSend` bound only the Hellos; SeqMod is 16, which is more than the messages
of a run.

One run expects a violation, of a statement of the repository that the code does not keep:

| Run | Property | What happens |
|---|---|---|
| `discovery_late` | `NeverInvalid` | `time_left` tests seconds and microseconds on their own (discovery.c:80): when the deadline passed in an earlier second of the clock it returns 1 and a negative time, although it "returns 0 if now >= \*expire_at". `select` refuses the time and the client exits in place of trying again. |

More disagreements of the same kind are visible in the models and have no run of their own:

- `handle_special` counts in a ZLB for a closed call (control.c:1750) and says it ignores it
  (control.c:1754): the peer's next message is refused as an old one and tossed by its sender
  as received. `DriftAtMostOne` bounds this and `CountedOutWhileCallsLive` says where it cannot
  happen. It is why `EndsAgree` and `NoCallWaits` speak of behaviours without mishaps: an ICRQ
  that follows may never be taken, and its call then waits for ever.
- A tunnel that is closing may stay for ever (against network.c:235, which ends it when
  retransmissions run out). Either a CDN is repeated after its call has gone, its ZLB is counted
  in, and the peer, acknowledged one message ahead, tosses its StopCCN unsent (network.c:225). Or
  the Nr that covers a StopCCN comes with a CDN that `handle_special` takes, which ends no wait
  (control.c:1795); the StopCCN is tossed, and no ZLB of the tunnel follows. `ClosingEnds`
  therefore excludes packets for a call that is gone (`TookSpecial`), and only those.
- "If set to 'yes', use challenge authentication to authenticate peer" (xl2tpd.conf.5:204): an
  LNS that has no secret for the peer stops at control.c:502 in state SCCRP, its challenge
  unsent; an SCCCN that comes nevertheless passes avp.c:209 and control.c:647, and the tunnel is
  up. `Authentic` asks nothing of an LNS without a secret.
- OCRP is taken in a tunnel that is up only, OCCN in any (avp.c:293): where a call is placed
  before the tunnel is up, and an SCCCN that came unasked has brought up the LNS, the answer of
  another implementation starts pppd in a tunnel that is not up.
- `pppoe` takes every packet for its MAC address when no Host-Uniq is used (discovery.c:133), and
  so another client's PADS for its own; pppoe.8:72 warns of it. `SessionIsOurs` says so.
- The second half of `check_control`'s test for old numbers is never true in `int`
  (control.c:1213 against the comment at control.c:1217): duplicates are told only until
  numbers wrap. `ns < t->cLr` (network.c:225) tosses an unreceived message across the wrap.
- pppd's exit or a pty error turns "actually close" into "waiting for closing notice"
  (call.h:67-69, xl2tpd.c:276), nobody will send one, and the call stays until the tunnel goes.
- `cLr >= closeSs` (control.c:1797) is true once the message before StopCCN is acknowledged;
  `call_close` tosses what must be delivered before StopCCN (call.c:226-263 against
  call.c:277-280).
- A call that ends gives back `lns->localaddr`, the address of the call that came last
  (call.c:406), so two live calls may share one; xl2tpd.conf.5:130-137 describes the range as
  a way to have a unique address for each.
- "max redials" counts the dial that is no redial (xl2tpd.conf.5:241).
- SIGTERM between `fork` and the child's `signal (SIGTERM, SIG_DFL)` (pppoe-server.c:984) is
  swallowed, for the handler of the parent only marks its pipe (event_sig.c:134). A child that
  was just forked when the server is told to quit thus outlives it, although `killAllSessions`
  "Kills all pppd processes (and hence all PPPoE sessions)" (pppoe-server.c:316);
  `EndsWithItsChildren` excepts such a child.
- A first child that dies before `Event_HandleChildExit` has installed the handler
  (event_sig.c:300) is not noticed.
- `processPADR` opens sessions in a server that drains (against pppoe-server.c:69).
- A server restarts and gives a number to another client: the relay takes the PADS for a
  duplicate (relay.c:1396) and goes on sending that session's frames to the client of before,
  although pppoe-relay.8:78-81 says that it relays each frame to the correct peer.

`CHECK_DEADLOCK` is `FALSE` for all but the relay, because they do stop: a daemon, a client or
a connection may be gone, all ids may have been used, or a bound is reached. The relay never
stops, and its runs check for deadlock.

**Fairness.** `l2tp_closing` assumes that the loop of each daemon keeps turning: what
`build_fdset` owes is done (`WF(CloseUnsettled)`), and a scheduled retransmission fires
(`WF(RetransmitTimer)`), since `select` is called with the time to the next event. Nothing
is assumed of the network: it may lose everything. `server_sessions_end` assumes that the
server's loop turns (`WF(ReapChildren)`), that children get the processor, and that a pppd
that SIGTERM has reached exits. It assumes no client, and no end of a session that was not
told to end. Where a late PADT may come while a new child of the same slot is still in its
first instructions, the child swallows the SIGTERM as said above; that is why
`server_sessions_end` has no `"stale PADT"`. `relay_idle` assumes that the alarm keeps
coming (`WF(alarmHandler)`: `alarm (1)` is renewed in the handler) and that `select` returns
when there is a byte in the pipe (`WF(cleanSessions)`); frames of every kind may be lost.
`discovery` assumes that time goes on (`WF(Tick)`) and that `select` returns when its time is
over (`WF(TimesOut)`); nothing is assumed of packets, which may keep coming and be the wrong
ones. `control` assumes that the loop of `main` goes on (`WF(Select)`, `WF(Callback)`) and
that the clients of whom `Served` speaks read what is in their socket; the others may stop at
any point for ever.

`setup` states no fairness. `NoCallWaits` is a safety property of the states in which nothing
is left to do (`AtRest`), and each behaviour comes to such a state, because ids are not used
twice.

## 4. Theorems

All are proved for every value of the constants, by the SMT, Zenon and LS4 backends, from the
named assumptions on constants that each module declares. No theorem speaks of a fair
specification.

**PppoeServerProofs.** For any finite set of slots, any clients, processes and limit:
`TypeCorrect`, `SlotsAreConserved`, `ChildrenPairWithSessions`, `OnlyClientsStop`,
`SessionsEndWithPADT`, `ImplementsSessionPool` and `ServerEndsWithItsChildren`
(`EndsWithItsChildren`), with every upset. The inductive invariant `IInv` is

- `TypeOK`;
- `SlotInv`: `free` lists, each once, exactly the slots that are not busy, and `active`
  is the number of busy ones;
- `OwnerInv`: a busy slot is owned by a client, any other by nobody;
- `ChildInv`: while the server runs, busy slots and unreaped processes pair up;
- `FlagInv`: the client of a busy slot whose flag says a PADT was sent was sent one (`told`);
- `StoppedByItsClient`.

These need each other: reaping frees the slots of dead processes, so that no slot is freed
twice only because of `ChildInv`; a session ends in silence unless `FlagInv` held since the
slot was last freed; a server that quits has killed the children of all busy slots, which
`ChildInv` says are all there are; the refinement needs `OwnerInv` to see that freeing is what
`SessionPool` calls `Close`.

**L2tpControlProofs**, with a call in the tunnel or without one. `TypeCorrect` has no
hypothesis; `MessagesAreTakenInOrder`, `CounterDriftsByOne` (`DriftAtMostOne`) and
`CountedOutWithCalls` (`CountedOutWhileCallsLive`) hold under
`Few == MaxSend + 3 < SeqMod`: no sequence number wraps, for besides `MaxSend` messages an end
sends one CDN and one StopCCN, and the receive counter may be one ahead. The inductive
invariant `NumbersInv` says of each end that it has sent no more than that (`Spent` counts the
closing messages it can no longer send), that what it took is in order, below its receive
counter and sent by its peer, that the counter is at most one above that, and of every packet
queued or in flight that its number is one its sender has reached. That is why a ZLB counted
in by `handle_special` does no more harm: with the counter one ahead, no packet in flight has
its number, and none is in sequence. A lemma for each operator says that it `Moves` a record
so; `MovesOn` puts them one after the other, as `BuildFdset` and `Terminate` do. For
`CountedOutWithCalls` the invariant is strengthened to `CalmInv`: while both ends have the call,
no packet was ever sent that only `handle_special` would take, and each counter is `Level` with
what was taken. A move keeps that as long as the call is there (`Calmly`), and no move brings a
call back.

The rest is about a tunnel without calls, under `NoWrap == ~ WithCall /\ MaxSend + 1 < SeqMod`:
`AcknowledgedWasTaken`, `MessagesAreKept`, `DuplicatesAreRecognised` and
`ImplementsReliableChannel`. Both halves of the assumption are about the code: `handle_special`
counts in a ZLB for a closed call (control.c:1750), and the test for old numbers at control.c:1213
fails once numbers wrap. The inductive invariant `Inv` says of each end that its counters equal
the messages sent and taken and that `taken` is `1, 2, .. n` (`Counts`), that `cLr` lies between
nothing and what the peer has taken, and that never exceeds what was sent (`Knows`), that a
message not taken is queued unless the tunnel is closing (`Keeps`), and of every packet in flight
that it carries a number and an acknowledgement its sender could have written (`SentBy`).

The argument: a lemma per handler shows that it makes one of three kinds of step (it
`Stays`, it `Sends` one message, it `Takes` the next one); `NextIsStep` puts them together;
`StepKeepsInv` shows that such a step keeps `Inv`, looking at the step's kind only. The
refinement maps the three kinds to a stutter, `Send` and `Take` of `ReliableChannel`.

**LacDialProofs.** For any LACs, numbers of calls, limits and lengths of the queue:
`TypeCorrect`, `NeverLeftAlone` (an active LAC that redials without limit has a call, a tunnel
that comes up or goes, or a redial scheduled: `NeverStranded`), `PointersAreLive` (`lac->c` is
a call of this LAC, and the LAC of a call is still in the list) and
`DisconnectedStaysSo` (no redial brings back a LAC that was disconnected). The inductive
invariant `IInv` is `Valid(World)` and that every LAC is `Alive`. `Valid` holds of a world, a
record of the whole state, what the commands and timers hand on to each other: the types, a
queue in order of time with no event in it earlier than now, calls on tunnels that exist, and
LACs that point at calls of their own. `Alive` has three parts: `Sched`, when `rsched` of an
active LAC is set then a redial for it is in the queue; `Kept`, the property itself; and
`Idle`, a LAC that is not active has no call.

The code destroys calls inside tunnels, schedules redials inside that, and dials inside those;
so the operators nest too, and the argument follows them: a lemma for each operator says that
from a valid world it makes a valid world that `Follows` it (what may have happened to the LACs
it was not called for), and the lemma for an action strings them together. `InsertAt` and the
removal of an event have lemmas of their own, which say that the queue stays in order.

**PppoeDiscoveryProofs.** For any concentrators, modes, timeouts and attempts:
`SessionsAreOurs`, `RightOnesAreAsked`, `PeersEndSessions` and `OnePadtPerSession`. The
inductive invariant `IInv` is the types and

- `GivenInv`: each concentrator has numbered its sessions 1, 2, and so on;
- `AirInv`: a PADS in the air names a session that was given and that the client has not yet
  ended; a PADT in the air, one that its concentrator has ended;
- `PlaceInv`: what `conn` holds at each place of the program;
- `SentInv`: only sessions that were given were sent a PADT;
- `WhyInv`: only the plugin goes on after a PADT;

and the four properties. `OnePadtPerSession` needs `AirInv`: without it, a PADS that comes
late, after a reconnection, could hand the client the session it has just ended.

**PppoeRelayProofs.** For any number of slots, any stations, interfaces and numbers:
`TypeCorrect`, `TablesAreConserved`, `KeysAreUnique` and `ImplementsRelayedSessions`; where
no server restarts, `RelayedToOwner`; where the relay's frames arrive, `RelayedToServer`
and `ServersStayServed`. The assumptions of the last three are about the stations and the
network only; that the first is needed is the last of the disagreements listed above.
`IInv` is

- `TablesInv`: `free` lists exactly the slots that are not active, counter, table and free
  hash entries follow from `active`, active slots have both ends, and no two of them the
  same server's;
- `TagInv`: the tags that servers hold lead to clients and the reverse, each to the
  interface where the station is;
- `PadtInv`: a server whose PADT has not been read does not use the number again;
- the types of the rest.

Uniqueness of the keys rests on `relayHandlePADS` looking for the server's end before it
takes a slot, and on `StationAssumption`, which tells the two sides' keys apart. For
`RelaysToOwner` the invariant is strengthened to `OwnerInv`: the server of an active slot
keeps its session for the slot's client, or its PADT is on the way; without the second half
a server could give the number to another client before the relay has let go of the slot.

**ControlSocketProofs.** For any clients, descriptors, lengths of commands and replies, and
allocations that fail: `EachConnectionHasOneOperation` (`OneOperation`) and
`NoCallBeforeReady` (`CalledWhenReady`). A callback deletes handlers, adds others, closes
descriptors and frees what they served, in an order of its own; half way through, neither
property holds of the list as it stands. The invariant `Good(w, b, I)` is therefore one of a
world, half way too: `b` says whether the handler whose callback runs still counts (in a
callback that is going to delete it, it does not), and `I` is the clients that have a
connection and, for the moment, no handler. Its parts are

- the types, and that `opsPending` is set exactly when a handler is marked as deleted;
- `FdInv`: the descriptors in use are those of the open connections, of each its own;
- `HandlerInv`: each handler that counts serves an open connection, by its descriptor, or
  accepts; no two serve one client; each open connection but those of `I` has one;
- `ReadyInv`: what the walk of `Event_HandleEvent` will still call was found ready by `select`.

One lemma per function of `event_tcp.c` and `control_socket.c` says which world it makes of
which. `IInv` is that the state `Rests`: good between two callbacks, with nobody in between.
`CalledWhenReady` needs both: a handler that is added stands before the walk, and a connection
that takes over a descriptor within the round has only handlers that were added.

**L2tpSetupProofs.** For any numbers of tunnels and calls, any addresses, configurations,
upsets and spoilt messages: `TypesHold` (`TypeOK`), `NoAddressIsLost`
(`AddressesConserved`), `OnlyWithTheSecret` (`Authentic`), `OneTunnelAnswers`
(`AnsweredOnce`, the first half of `EndsAgree`), `EndsDoAgree` (`EndsAgree`) and
`NobodyWaits` (`NoCallWaits`). The inductive invariant `IInv` is that the state is a `Fine`
world, and what is no part of a world: its types, and `AheadInv`, that no end is ahead before a
mishap. `Fine` is `Good`, and `Agreed` as long as there was no mishap. `Good` is

- `TunInv`: a tunnel whose end challenges, and at the LNS has a secret to challenge with, waits for
  a proof before it is up, and is up only when the secrets are the same; a tunnel of the LNS knows
  no id but that of the tunnel it was made for (`heard`), and when it is up that one was up before
  it, unless an SCCCN came unasked;
- `Alone`: of two tunnels of the LNS that have answered, the peers are not the same;
- `BoxInv`: of every message still to be taken, what its sender must have been to send it: a
  right response comes from an end with the same secret, an SCCRP from an LNS that has a
  secret when it challenges, and, unless there was a mishap, an SCCCN from a LAC whose tunnel was
  up and an OCCN to a tunnel that is up;
- `CallInv`: an address is one of the LNS's, a call with a pppd is in a tunnel that is up (but for
  the OCCN named above), and so is a call that the LNS has answered;
- `PoolInv`: the addresses in use are those of the calls, of each its own.

`Authentic` is inductive only with the messages: the end that comes up with a message does so
for what the message carries, and a spoilt message must not carry more than its sender had
(`Spoilt` adds no response and no id, and takes away or spoils what there is).
`AddressesConserved` needs no message, but it needs that a call keeps its address until it is
destroyed, and that `DestroyTunnel` gives back that of each call that goes with the tunnel.

The argument follows the code: `OnlyWhenSane` says of `handle_avps` that nothing is kept
unless the type of the message passed the table, and what was kept was in the message; one
lemma for each case of `control_finish` takes a good world, with what that says, to a good one;
the lemmas about `CloseCall`, `CloseTunnel` and `DestroyTunnel` are cited wherever a handler
closes something. Then there is one lemma per action.

`EndsAgree` and `NoCallWaits` speak of both ends and of all that is between them, and neither
is inductive: an id is known to one end long before it is to the other, a call may be closed at
one end while its answer is still to be taken, and a message in the hands of a handler is in no
box. `Agreed` is therefore about the whole talk of a tunnel of the LAC and one of the LNS that
are `Sound` (they live, know each other, and neither is closing, to be closed, or has lost a
message); of a tunnel that is not, nothing is asked until its calls go with it. Besides
`Settles` (a tunnel of the LAC that knows its peer is up), it is `TalkOf`, of the two ends'
calls, of what the LAC has yet to take (a set) and of what the LNS has yet to take (a sequence,
for the order in which an ICRQ and the CDN that ends its call are sent matters):

- `OneAnswer`: a call of the LAC has one call of the LNS, whichever way it is told: by the id
  that the call has, by an ICRP, OCRP or CDN on its way, or by the call of the LNS;
- `WasMade`, `Refused`, `ToldOff`: what names a call names one that was made, and a CDN on its
  way one that its sender no longer has open;
- `Requested`: a request is on its way once, no call of the LNS answers it yet, and its call
  is open or a CDN follows the request;
- `LacServed`: an open call of the LAC is to be closed, or its request, or a refusal, is on its
  way, or there is an open call of the LNS that it knows or is about to be told of;
- `LnsServed`: the same of an open call of the LNS;
- `NoneYet`: a call that waits for an ICRP has no peer.

When two tunnels are quiet they are sound and nothing is on its way, so `LacServed` and
`LnsServed` leave only the pairs that `EndsAgree` asks for. At rest, the tunnel of a call that
waits is sound too (`Settles`, and `AtRest` asks for a live peer), and `LacServed` would give
the call a peer, which `NoneYet` says it has not.

A handler takes its message first, then changes tunnels and calls one after the other, closes
some and answers. In between, the message it has in hand counts as one still to be taken
(`Talk(w, e, h, t, n)`, where `h` is what end `e` has in hand), and what a part of a handler
does is told by relations of the world before to the one after: `Within` (only calls of this
tunnel change, only this tunnel's messages are added), `Goes` (a tunnel that is sound
afterwards was so before), `Talks` (the talk goes on), `Spoken` (the message in hand has been
dealt with). The last is what one lemma per kind of message shows, and where `mishaps = 0` is
used: `ReadWell` says of `handle_avps` that the ids of such a message were read and kept. A
message that is spoilt, or that reaches a tunnel that is doomed, owes nothing.

**ListLemmas** has what these proofs need of lists without repetition (the free slots), of
places chosen from a sequence (handlers that stay in the list, messages that are not tossed),
and of least numbers (the address or the id that a loop finds first).

**Only model-checked**: the liveness properties (`ClosingEnds`, `StoppedEnds`,
`ExitIsHandled`, `IdleGoes`, `DiscoveryEnds`, `Served`), since liveness under fairness is
beyond the prover at hand; `L2tpControl` where numbers wrap; and
`TypeOK` of `PppoeDiscovery`, whose timeouts are powers of two: that they double from one attempt
to the next takes an induction on the exponent, which the provers cannot do. The types of its
other variables are part of the invariant of `PppoeDiscoveryProofs`.

## 5. What is left

In the order in which it matters:

1. `PppoeDiscovery` composed with `PppoeServer`: the concentrator of the first is an
   environment that does what RFC 2516 lets it, which the second should be shown to be.
2. The commands of the control pipe that change the LNS list, and status.
3. `PayloadSeq`: the numbers of payload packets in `expand_payload`.
4. `deschedule`, and the scheduler's and `time_left`'s arithmetic on `struct timeval` as pure
   operators against a reference.

Not modelled, and not planned, because they are conversions of data or I/O whose results the
models take as inputs: the bytes and the hiding of attributes; configuration files; MD5;
terminals and pppd itself; raw Ethernet and the byte stuffing of `pppoe`; `EventTcp_Connect`,
which no program here calls; `hash.c`; libevent's own timers; `xl2tpd-control`; test programs,
scripts and packaging.

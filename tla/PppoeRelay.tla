----------------------------- MODULE PppoeRelay -----------------------------
(***************************************************************************)
(* pppoe-relay (rp-pppoe/src/relay.c) between clients and servers.         *)
(*                                                                         *)
(* relayLoop handles one frame after another, so a handler is one action;  *)
(* alarmHandler interrupts it but touches only counters.  A station is at  *)
(* one interface.  What stations hold (tags, numbers) they may use at any  *)
(* later time, which stands for frames that are delayed or sent again.     *)
(***************************************************************************)
EXTENDS Integers, Sequences, FiniteSets, Functions

CONSTANTS
  Client, Server,     \* stations, by their Ethernet address
  Num,                \* the session numbers servers use
  At,                 \* the interface a station is at
  ClientOK, AcOK,     \* interfaces for clients (-C, -B), for servers (-S, -B)
  MaxSessions,        \* -n
  IdleTimeout,        \* -i, in ticks of the alarm; 0: sessions are never cleaned
  CleanPeriod,
  NoMac, NoEnd,
  Upsets              \* what may go wrong, see below

Upset == {"client frame lost", "relay frame lost", "server restarts"}

ASSUME StationAssumption == Client \cap Server = {} /\ NoMac \notin Client \cup Server
ASSUME BoundAssumption == /\ MaxSessions \in Nat \ {0}
                          /\ IdleTimeout \in Nat
                          /\ CleanPeriod \in Nat \ {0}
ASSUME UpsetAssumption == Upsets \subseteq Upset

Slot == 1 .. MaxSessions         \* AllSessions; slot s hands out the number s
ClientEnd == Client \X Slot      \* a client's session: its address, the relay's number
ServerEnd == Server \X Num       \* a server's session: its address, its own number

ASSUME EndAssumption == NoEnd \notin ServerEnd

VARIABLES
  free,          \* FreeSessions: a stack
  active,        \* the slots on ActiveSessions
  count,         \* NumSessions
  ses,           \* ses[s]: both ends of slot s, its interfaces, Epoch - epoch
  table,         \* the hash entries in Buckets
  hashes,        \* how many there are on FreeHashes
  cleanCounter,
  cleanPipe,     \* alarmHandler has written its byte
  asked,         \* <<a, tag>>: server a got a PADI with this Relay-Session-Id
  offered,       \* <<m, tag>>: client m got a PADO with it
  requested,     \* <<a, tag>>: server a got a PADR with it
  owner,         \* owner[x]: for whom a server opened its session x, or NoMac
  has,           \* has[x]: the server's session that client's session x is for, or NoEnd
  padts          \* PADTs on their way to the relay, by the end they come from

tables   == <<free, active, count, ses, table, hashes>>
cleaning == <<cleanCounter, cleanPipe>>
tags     == <<asked, offered, requested>>
stations == <<owner, has, padts>>
vars     == <<tables, cleaning, tags, stations>>

\* An operator X_Fault is X as a slip in the code would have it; the runs do not use it.

Interface == {At[x] : x \in Client \cup Server}

\* The payload of a Relay-Session-Id tag.
Tag == [if : Interface, mac : Client \cup Server]

\* Ages stop at the first that is too old.
MaxAge  == IdleTimeout + 1
Session == [ac : Server \cup {NoMac}, acSes : Num \cup {NoMac}, cli : Client \cup {NoMac},
            age : 0 .. MaxAge]
NoSession == [ac |-> NoMac, acSes |-> NoMac, cli |-> NoMac, age |-> 0]
Entry   == [ses : Slot, side : {"ac", "client"}]

AcEnd(s)  == <<ses[s].ac, ses[s].acSes>>
CliEnd(s) == <<ses[s].cli, s>>

\* initRelay
Init ==
  /\ free = [i \in Slot |-> i]
  /\ active = {}
  /\ count = 0
  /\ ses = [s \in Slot |-> NoSession]
  /\ table = {}
  /\ hashes = 2 * MaxSessions
  /\ cleanCounter = 0
  /\ cleanPipe = FALSE
  /\ asked = {} /\ offered = {} /\ requested = {}
  /\ owner = [x \in ServerEnd |-> NoMac]
  /\ has = [x \in ClientEnd |-> NoEnd]
  /\ padts = {}

-----------------------------------------------------------------------------
(* The tables.                                                              *)

Key(e) == IF e.side = "ac" THEN AcEnd(e.ses) ELSE CliEnd(e.ses)

\* findSession.  Of several entries with one key it finds the newest: the model leaves
\* open which, for KeysUnique shows that there are never several.
Find_ClientSide(x) == {e \in table : e.side = "client" /\ Key(e) = x}
Find_ByMac(x) == {e \in table : Key(e)[1] = x[1]}
Find(x) == {e \in table : Key(e) = x}

Entries(s) == [ses : {s}, side : {"ac", "client"}]

\* createSession; NumSessions is the only test, also of the free hash entries.
HasRoom == count < MaxSessions

createSession(s, ac, acSes, cli) ==
  /\ free' = Tail(free)
  /\ active' = active \cup {s}
  /\ count' = count + 1
  /\ ses' = [ses EXCEPT ![s] = [ac |-> ac, acSes |-> acSes, cli |-> cli, age |-> 0]]
  /\ hashes' = hashes - 2
  /\ table' = table \cup Entries(s)

Orders(S) == Bijection(1 .. Cardinality(S), S)

\* freeSession and unhash, of every session in S, one after another.  The fields of a
\* free slot are never read: the model blanks them.
Unhashed_AcOnly(S) == {e \in table : e.ses \in S /\ e.side = "ac"}
Unhashed(S) == {e \in table : e.ses \in S}

FreedHashes(S) == 2 * Cardinality(S)

FreeSessions(S) ==
  /\ \E order \in Orders(S) : free' = order \o free
  /\ active' = active \ S
  /\ count' = count - Cardinality(S)
  /\ ses' = [s \in Slot |-> IF s \in S THEN NoSession ELSE ses[s]]
  /\ hashes' = hashes + FreedHashes(S)
  /\ table' = table \ Unhashed(S)

-----------------------------------------------------------------------------
(* The stations.                                                            *)

\* The relay sends a PADT to each of the ends; each arrives or is lost.
TellEnds(ends) ==
  \E got \in SUBSET ends :
    /\ got = ends \/ "relay frame lost" \in Upsets
    /\ owner' = [x \in ServerEnd |-> IF x \in got THEN NoMac ELSE owner[x]]
    /\ has' = [x \in ClientEnd |-> IF x \in got THEN NoEnd ELSE has[x]]

\* A station ends its session x: its PADT is on its way or lost.  (That a server's is lost
\* is as if the server restarted.)
SendPADT(x) ==
  /\ \/ padts' = padts \cup {x}
     \/ "client frame lost" \in Upsets /\ x \in ClientEnd /\ padts' = padts
  /\ UNCHANGED <<tables, cleaning, tags>>

ClientEnds(x) ==
  /\ has[x] # NoEnd
  /\ has' = [has EXCEPT ![x] = NoEnd]
  /\ SendPADT(x)
  /\ UNCHANGED owner

ServerEnds(x) ==
  /\ owner[x] # NoMac
  /\ owner' = [owner EXCEPT ![x] = NoMac]
  /\ SendPADT(x)
  /\ UNCHANGED has

\* A server that starts anew has forgotten its sessions.
ServerRestarts(a) ==
  /\ "server restarts" \in Upsets
  /\ owner' = [x \in ServerEnd |-> IF x[1] = a THEN NoMac ELSE owner[x]]
  /\ UNCHANGED <<tables, cleaning, tags, has, padts>>

-----------------------------------------------------------------------------
(* Discovery frames.                                                        *)

\* The Relay-Session-Id of a frame from x: where an answer to it must go.  It is added to
\* a PADI, and takes the place of the other direction's in a PADO and a PADR.
RelayTag(x) == [if |-> At[x], mac |-> x]

\* relayHandlePADI: broadcast on every interface for servers but its own, with the tag.
relayHandlePADI(m) ==
  /\ At[m] \in ClientOK
  /\ asked' = asked \cup {<<a, RelayTag(m)>> : a \in {b \in Server : At[b] \in AcOK \ {At[m]}}}
  /\ UNCHANGED <<tables, cleaning, stations, offered, requested>>

\* A frame for station x that leaves on interface i.
Reaches(i, x) == At[x] = i

relayHandlePADO(a, tag) ==
  /\ <<a, tag>> \in asked
  /\ At[a] \in AcOK
  /\ tag.if \in ClientOK \ {At[a]}
  /\ Reaches(tag.if, tag.mac)
  /\ offered' = offered \cup {<<tag.mac, RelayTag(a)>>}
  /\ UNCHANGED <<tables, cleaning, stations, asked, requested>>

relayHandlePADR(m, tag) ==
  /\ <<m, tag>> \in offered
  /\ At[m] \in ClientOK
  /\ tag.if \in AcOK \ {At[m]}
  /\ Reaches(tag.if, tag.mac)
  /\ requested' = requested \cup {<<tag.mac, RelayTag(m)>>}
  /\ UNCHANGED <<tables, cleaning, stations, asked, offered>>

\* The client of the tag gets the PADS, with the number of slot s.
GetsPADS(s, tag, x) ==
  \/ Reaches(tag.if, tag.mac) /\ has' = [has EXCEPT ![<<tag.mac, s>>] = x]
  \/ (Reaches(tag.if, tag.mac) => "relay frame lost" \in Upsets) /\ has' = has

\* relayHandlePADS: server a opens its session n for a PADR it got, or answers the PADR
\* of an open session again.  Its PADT for the number's last use was read before, for
\* discovery frames of one interface come through one socket.
relayHandlePADS(a, tag, n) ==
  LET x == <<a, n>> IN
  /\ <<a, tag>> \in requested
  /\ x \notin padts
  /\ owner[x] \in {NoMac, tag.mac}
  /\ At[a] \in AcOK
  /\ tag.if \in ClientOK \ {At[a]}
  /\ \/ \E e \in Find(x) :
          /\ GetsPADS(e.ses, tag, x)
          /\ owner' = [owner EXCEPT ![x] = tag.mac]
          /\ UNCHANGED tables
     \/ /\ Find(x) = {}
        /\ HasRoom
        /\ createSession(Head(free), a, n, tag.mac)
        /\ GetsPADS(Head(free), tag, x)
        /\ owner' = [owner EXCEPT ![x] = tag.mac]
     \/ /\ Find(x) = {}
        /\ ~ HasRoom
        /\ \/ owner' = [owner EXCEPT ![x] = NoMac]
           \/ "relay frame lost" \in Upsets /\ owner' = [owner EXCEPT ![x] = tag.mac]
        /\ UNCHANGED <<tables, has>>
  /\ UNCHANGED <<cleaning, tags, padts>>

PeerEnd_Own(e) == Key(e)
PeerEnd(e) == IF e.side = "ac" THEN CliEnd(e.ses) ELSE AcEnd(e.ses)

Ended_None(e) == {}
Ended(e) == {e.ses}

\* relayHandlePADT: the peer is told, and the session is freed.
relayHandlePADT(x) ==
  /\ x \in padts
  /\ padts' = padts \ {x}
  /\ \/ Find(x) = {} /\ UNCHANGED <<tables, owner, has>>
     \/ \E e \in Find(x) :
          /\ TellEnds({PeerEnd(e)})
          /\ FreeSessions(Ended(e))
  /\ UNCHANGED <<cleaning, tags>>

-----------------------------------------------------------------------------
(* Session frames and the cleaner.                                          *)

\* relayGotSessionPacket: a frame of a station that has a session with this number.
relayGotSessionPacket(x) ==
  /\ \/ x \in ClientEnd /\ has[x] # NoEnd
     \/ x \in ServerEnd /\ owner[x] # NoMac
  /\ \E e \in Find(x) : ses' = [ses EXCEPT ![e.ses].age = 0]
  /\ UNCHANGED <<free, active, count, table, hashes, cleaning, tags, stations>>

\* alarmHandler, once a second.  From CleanPeriod on the counter only waits to be reset.
alarmHandler ==
  /\ ses' = [s \in Slot |-> IF s \in active /\ ses[s].age < MaxAge
                            THEN [ses[s] EXCEPT !.age = @ + 1] ELSE ses[s]]
  /\ cleanCounter' = IF cleanCounter < CleanPeriod THEN cleanCounter + 1 ELSE cleanCounter
  /\ cleanPipe' = (cleanPipe \/ cleanCounter + 1 = CleanPeriod)
  /\ UNCHANGED <<free, active, count, table, hashes, tags, stations>>

CounterReset_Forgotten == cleanCounter
CounterReset == 0

TooOld(s) == ses[s].age > IdleTimeout

\* relayLoop's test of the pipe, and cleanSessions.
cleanSessions ==
  /\ cleanPipe
  /\ cleanPipe' = FALSE
  /\ cleanCounter' = CounterReset
  /\ IF IdleTimeout = 0 THEN UNCHANGED <<tables, owner, has>>
     ELSE LET old == {s \in active : TooOld(s)}
          IN /\ FreeSessions(old)
             /\ TellEnds({AcEnd(s) : s \in old} \cup {CliEnd(s) : s \in old})
  /\ UNCHANGED <<tags, padts>>

Next ==
  \/ \E m \in Client : relayHandlePADI(m)
  \/ \E a \in Server, tag \in Tag : relayHandlePADO(a, tag)
  \/ \E m \in Client, tag \in Tag : relayHandlePADR(m, tag)
  \/ \E a \in Server, tag \in Tag, n \in Num : relayHandlePADS(a, tag, n)
  \/ \E x \in ClientEnd \cup ServerEnd : relayHandlePADT(x) \/ relayGotSessionPacket(x)
  \/ \E x \in ClientEnd : ClientEnds(x)
  \/ \E x \in ServerEnd : ServerEnds(x)
  \/ \E a \in Server : ServerRestarts(a)
  \/ alarmHandler \/ cleanSessions

Spec == Init /\ [][Next]_vars

\* The alarm comes every second, and select returns when the pipe has a byte.
FairSpec == Spec /\ WF_vars(alarmHandler) /\ WF_vars(cleanSessions)

-----------------------------------------------------------------------------
(* Properties.                                                              *)

TypeOK ==
  /\ free \in Seq(Slot)
  /\ active \subseteq Slot
  /\ count \in Nat
  /\ ses \in [Slot -> Session]
  /\ table \subseteq Entry
  /\ hashes \in Nat
  /\ cleanCounter \in 0 .. CleanPeriod
  /\ cleanPipe \in BOOLEAN
  /\ asked \subseteq Server \X Tag /\ requested \subseteq Server \X Tag
  /\ offered \subseteq Client \X Tag
  /\ owner \in [ServerEnd -> Client \cup {NoMac}]
  /\ has \in [ClientEnd -> ServerEnd \cup {NoEnd}]
  /\ padts \subseteq ClientEnd \cup ServerEnd

\* Sessions and hash entries are taken and given back together: no slot is lost, every
\* active one has both its entries, and there are always two free entries for a new one.
TablesConserved ==
  /\ \A i, j \in DOMAIN free : i # j => free[i] # free[j]
  /\ \A s \in Slot : s \in active <=> \A i \in DOMAIN free : free[i] # s
  /\ count = Cardinality(active)
  /\ table = [ses : active, side : {"ac", "client"}]
  /\ hashes = 2 * (MaxSessions - count)

\* "pppoe-relay must renumber sessions to avoid the possibility of duplicate session-ID's"
\* (pppoe-relay.8:77): what findSession finds is the only entry with its key.
KeysUnique == \A e, f \in table : Key(e) = Key(f) => e = f

\* The relay joins a client's session to one session of a server, each to one at a time.
Relayed == INSTANCE RelayedSessions
             WITH Limit <- MaxSessions,
                  joined <- {<<CliEnd(s), AcEnd(s)>> : s \in active}

ImplementsRelayed == Relayed!Spec

\* "relays the frame to the correct peer" (pppoe-relay.8:79): the frames of a session that
\* a server keeps for a client go to no other client.
RelaysToOwner ==
  \A s \in active : owner[AcEnd(s)] \in {NoMac, ses[s].cli}

\* The same seen from the client: its frames go to the session it was told it has.
RelaysToServer ==
  \A s \in active : has[CliEnd(s)] \in {NoEnd, AcEnd(s)}

\* As long as the relay's PADTs arrive, no server keeps a session the relay has no slot
\* for: when the relay is full or ends an idle session it tells the server so.
ServersAreServed ==
  \A x \in ServerEnd : owner[x] # NoMac => \E s \in active : AcEnd(s) = x

\* pppoe-relay.8:87: "removes old sessions from the hash table", as often as it takes.
IdleGoes == \A s \in Slot : (s \in active /\ TooOld(s)) ~> (s \notin active \/ ~ TooOld(s))
=============================================================================

-------------------------- MODULE PppoeRelayProofs --------------------------
(***************************************************************************)
(* Safety of pppoe-relay for any number of slots, stations and interfaces: *)
(* types, conservation of sessions and hash entries, uniqueness of the     *)
(* keys, that it implements RelayedSessions, and that it relays to the     *)
(* correct peers as long as the assumption of each theorem holds.          *)
(***************************************************************************)
EXTENDS PppoeRelay, ListLemmas

USE DEF tables, cleaning, tags, stations

\* The types of what the tables are built on; those of the lists and counters follow.
TablesType ==
  /\ active \subseteq Slot
  /\ ses \in [Slot -> Session]

\* The free slots are listed, and counter, hash entries and FreeHashes follow the active.
SlotInv ==
  /\ Lists(free, Slot \ active)
  /\ count = Cardinality(active)
  /\ table = [ses : active, side : {"ac", "client"}]
  /\ hashes = 2 * (MaxSessions - count)

\* Active slots have both ends, no two of them the same server's.
EndInv ==
  /\ \A s \in active : ses[s].ac \in Server /\ ses[s].acSes \in Num /\ ses[s].cli \in Client
  /\ \A s, t \in active : ses[s].ac = ses[t].ac /\ ses[s].acSes = ses[t].acSes => s = t

TablesInv == TablesType /\ SlotInv /\ EndInv

\* The tags a server sees lead to clients, the tags a client sees to servers.
TagInv ==
  /\ \A w \in asked \cup requested : w[2].mac \in Client
  /\ \A w \in offered : w[2].mac \in Server
  /\ \A w \in asked \cup requested \cup offered : w[2].if = At[w[2].mac]

\* A server's PADT is read before the number is used again.
PadtInv == \A x \in ServerEnd : x \in padts => owner[x] = NoMac

\* The part of TypeOK that is not about the tables.
RestType ==
  /\ cleanCounter \in 0 .. CleanPeriod
  /\ cleanPipe \in BOOLEAN
  /\ asked \subseteq Server \X Tag /\ requested \subseteq Server \X Tag
  /\ offered \subseteq Client \X Tag
  /\ owner \in [ServerEnd -> Client \cup {NoMac}]
  /\ has \in [ClientEnd -> ServerEnd \cup {NoEnd}]
  /\ padts \subseteq ClientEnd \cup ServerEnd

IInv == TablesInv /\ RestType /\ TagInv /\ PadtInv

\* The relay has MaxSessions slots.
LEMMA SlotsFinite == IsFiniteSet(Slot) /\ Cardinality(Slot) = MaxSessions
BY BoundAssumption, FS_Interval DEF Slot

\* The ends of clients and of servers are told apart by their addresses.
LEMMA EndsDiffer == ClientEnd \cap ServerEnd = {}
BY StationAssumption DEF ClientEnd, ServerEnd

\* What findSession finds for a server's end: the slot that has it, and the server's side.
LEMMA FindServerEnd ==
  ASSUME TablesInv, NEW x \in ServerEnd
  PROVE  /\ \A e \in Find(x) : /\ e.ses \in active /\ AcEnd(e.ses) = x
                              /\ PeerEnd(e) = CliEnd(e.ses)
         /\ \A s \in active : AcEnd(s) = x => Find(x) # {}
<1>1. x[1] \in Server
  BY DEF ServerEnd
<1>2. ASSUME NEW e \in Find(x)
      PROVE  e.ses \in active /\ AcEnd(e.ses) = x /\ PeerEnd(e) = CliEnd(e.ses)
  <2>1. e.ses \in active /\ e.side \in {"ac", "client"} /\ Key(e) = x
    BY DEF TablesInv, SlotInv, Find
  <2>2. e.side # "client"
    <3>1. SUFFICES ASSUME e.side = "client" PROVE FALSE
      OBVIOUS
    <3>2. x[1] = ses[e.ses].cli
      BY <2>1, <3>1 DEF Key, CliEnd
    <3> QED
      BY <1>1, <2>1, <3>2, StationAssumption DEF TablesInv, EndInv
  <2> QED
    BY <2>1, <2>2 DEF Key, PeerEnd
<1>3. ASSUME NEW s \in active, AcEnd(s) = x PROVE Find(x) # {}
  <2>1. [ses |-> s, side |-> "ac"] \in Find(x)
    BY <1>3 DEF TablesInv, SlotInv, Find, Key
  <2> QED
    BY <2>1
<1> QED
  BY <1>2, <1>3

\* What it finds for a client's end: the slot with the number, and the client's side.
LEMMA FindClientEnd ==
  ASSUME TablesInv, NEW x \in ClientEnd, NEW e \in Find(x)
  PROVE  e.ses \in active /\ CliEnd(e.ses) = x /\ PeerEnd(e) = AcEnd(e.ses)
<1>1. x[1] \in Client
  BY DEF ClientEnd
<1>2. e.ses \in active /\ e.side \in {"ac", "client"} /\ Key(e) = x
  BY DEF TablesInv, SlotInv, Find
<1>3. e.side # "ac"
  <2>1. SUFFICES ASSUME e.side = "ac" PROVE FALSE
    OBVIOUS
  <2>2. x[1] = ses[e.ses].ac
    BY <1>2, <2>1 DEF Key, AcEnd
  <2> QED
    BY <1>1, <1>2, <2>2, StationAssumption DEF TablesInv, EndInv
<1> QED
  BY <1>2, <1>3 DEF Key, PeerEnd

\* createSession takes the first free slot, which there is.
LEMMA CreateKeepsTables ==
  ASSUME TablesInv, HasRoom, NEW a \in Server, NEW n \in Num, NEW m \in Client,
         Find(<<a, n>>) = {}, createSession(Head(free), a, n, m)
  PROVE  /\ TablesInv'
         /\ Head(free) \in Slot \ active
         /\ active' = active \cup {Head(free)}
         /\ ses'[Head(free)].ac = a /\ ses'[Head(free)].acSes = n
         /\ ses'[Head(free)].cli = m
         /\ \A s \in Slot \ {Head(free)} : ses'[s] = ses[s]
<1> DEFINE h == Head(free)
<1> DEFINE new == [ac |-> a, acSes |-> n, cli |-> m, age |-> 0]
<1>1. /\ free' = Tail(free) /\ active' = active \cup {h} /\ count' = count + 1
      /\ ses' = [ses EXCEPT ![h] = new]
      /\ hashes' = hashes - 2 /\ table' = table \cup Entries(h)
  BY DEF createSession
<1>2. /\ active \subseteq Slot /\ ses \in [Slot -> Session]
      /\ Lists(free, Slot \ active) /\ count = Cardinality(active)
      /\ hashes = 2 * (MaxSessions - count)
      /\ table = [ses : active, side : {"ac", "client"}]
  BY DEF TablesInv, TablesType, SlotInv
<1>3. IsFiniteSet(active) /\ count \in Nat /\ MaxSessions \in Nat
  BY <1>2, SlotsFinite, FS_Subset, FS_CardinalityType, BoundAssumption
<1>4. free # <<>>
  <2>1. active # Slot
    <3>1. count # MaxSessions
      BY <1>3 DEF HasRoom
    <3> QED
      BY <1>2, <3>1, SlotsFinite
  <2>2. PICK s \in Slot \ active : TRUE
    BY <1>2, <2>1
  <2>3. PICK i \in 1 .. Len(free) : free[i] = s
    BY <1>2 DEF Lists
  <2>4. SUFFICES ASSUME free = <<>> PROVE FALSE
    OBVIOUS
  <2>5. 1 .. Len(free) = {}
    BY <2>4, EmptySeq
  <2> QED
    BY <2>3, <2>5
<1>5. h \in Slot \ active /\ Lists(Tail(free), (Slot \ active) \ {h})
  BY <1>2, <1>4, TailLists
<1>6. new \in Session /\ new.ac = a /\ new.acSes = n /\ new.cli = m
  BY BoundAssumption DEF Session, MaxAge
<1> HIDE DEF new
<1>7. /\ ses' \in [Slot -> Session] /\ ses'[h] = new
      /\ \A s \in Slot \ {h} : ses'[s] = ses[s]
  BY <1>1, <1>2, <1>5, <1>6
<1>8. TablesType'
  BY <1>1, <1>2, <1>5, <1>7 DEF TablesType
<1>9. SlotInv'
  <2>1. (Slot \ active) \ {h} = Slot \ active'
    BY <1>1
  <2>2. Lists(free', Slot \ active')
    BY <1>1, <1>5, <2>1
  <2>3. Cardinality(active') = Cardinality(active) + 1
    BY <1>1, <1>3, <1>5, FS_AddElement
  <2>4. table' = [ses : active', side : {"ac", "client"}]
    BY <1>1, <1>2 DEF Entries
  <2>5. hashes' = 2 * (MaxSessions - count')
    BY <1>1, <1>2, <1>3
  <2> QED
    BY <1>1, <1>2, <2>2, <2>3, <2>4, <2>5 DEF SlotInv, Lists
<1>10. \A s \in active : ~ (ses[s].ac = a /\ ses[s].acSes = n)
  <2>1. <<a, n>> \in ServerEnd
    BY DEF ServerEnd
  <2> QED
    BY <2>1, FindServerEnd DEF AcEnd
<1>11. EndInv'
  <2>1. \A s \in active' : s = h \/ (s \in active /\ ses'[s] = ses[s])
    BY <1>1, <1>2, <1>5, <1>7
  <2>2. \A s \in active' : ses'[s].ac \in Server /\ ses'[s].acSes \in Num
                           /\ ses'[s].cli \in Client
    BY <1>6, <1>7, <2>1 DEF TablesInv, EndInv
  <2>3. ASSUME NEW s \in active', NEW t \in active',
               ses'[s].ac = ses'[t].ac, ses'[s].acSes = ses'[t].acSes
        PROVE  s = t
    BY <1>6, <1>7, <1>10, <2>1, <2>3 DEF TablesInv, EndInv
  <2> QED
    BY <2>2, <2>3 DEF EndInv
<1> QED
  BY <1>1, <1>5, <1>6, <1>7, <1>8, <1>9, <1>11 DEF TablesInv

\* freeSession of some active slots puts them in front of the free ones.
LEMMA FreeKeepsTables ==
  ASSUME TablesInv, NEW S \in SUBSET active, FreeSessions(S)
  PROVE  /\ TablesInv'
         /\ active' = active \ S
         /\ \A s \in Slot \ S : ses'[s] = ses[s]
<1>1. PICK order \in Orders(S) : free' = order \o free
  BY DEF FreeSessions
<1>2. /\ active' = active \ S /\ count' = count - Cardinality(S)
      /\ ses' = [s \in Slot |-> IF s \in S THEN NoSession ELSE ses[s]]
      /\ hashes' = hashes + 2 * Cardinality(S)
      /\ table' = table \ {e \in table : e.ses \in S}
  BY DEF FreeSessions, FreedHashes, Unhashed
<1>3. /\ active \subseteq Slot /\ ses \in [Slot -> Session]
      /\ Lists(free, Slot \ active) /\ count = Cardinality(active)
      /\ hashes = 2 * (MaxSessions - count)
      /\ table = [ses : active, side : {"ac", "client"}]
  BY DEF TablesInv, TablesType, SlotInv
<1>4. /\ IsFiniteSet(active) /\ IsFiniteSet(S)
      /\ Cardinality(active) \in Nat /\ Cardinality(S) \in Nat
      /\ Cardinality(active \ S) = Cardinality(active) - Cardinality(S)
  <2>1. IsFiniteSet(active)
    BY <1>3, SlotsFinite, FS_Subset
  <2> QED
    BY <2>1, FewerLeft
<1>5. Lists(free', Slot \ active')
  <2>1. Lists(order, S)
    BY <1>1, <1>4, OrdersList DEF Orders
  <2>2. S \cap (Slot \ active) = {} /\ S \cup (Slot \ active) = Slot \ active'
    BY <1>2, <1>3
  <2>3. Lists(order \o free, S \cup (Slot \ active))
    BY <1>3, <2>1, <2>2, ConcatLists
  <2> QED
    BY <1>1, <2>2, <2>3
<1>6. NoSession \in Session
  BY BoundAssumption DEF NoSession, Session, MaxAge
<1>7. ses' \in [Slot -> Session] /\ \A s \in Slot \ S : ses'[s] = ses[s]
  BY <1>2, <1>3, <1>6
<1>8. SlotInv'
  <2>1. table' = [ses : active', side : {"ac", "client"}]
    BY <1>2, <1>3
  <2>2. MaxSessions \in Nat /\ hashes' = 2 * (MaxSessions - count')
    BY <1>2, <1>3, <1>4, BoundAssumption
  <2> QED
    BY <1>2, <1>3, <1>4, <1>5, <2>1, <2>2 DEF SlotInv, Lists
<1>9. EndInv' /\ TablesType'
  BY <1>2, <1>3, <1>7 DEF TablesInv, EndInv, TablesType
<1> QED
  BY <1>2, <1>7, <1>8, <1>9 DEF TablesInv

\* Steps that touch nothing of the tables but the ages.
LEMMA AgesKeepTables ==
  ASSUME TablesInv, UNCHANGED <<free, active, count, table, hashes>>,
         ses' \in [Slot -> Session],
         \A s \in Slot : /\ ses'[s].ac = ses[s].ac /\ ses'[s].acSes = ses[s].acSes
                         /\ ses'[s].cli = ses[s].cli
  PROVE  TablesInv'
<1>1. TablesType' /\ SlotInv'
  BY DEF TablesInv, TablesType, SlotInv, Lists
<1>2. EndInv'
  BY DEF TablesInv, TablesType, EndInv
<1> QED
  BY <1>1, <1>2 DEF TablesInv

-----------------------------------------------------------------------------

\* The tables as relayInit leaves them.
LEMMA InitIInv == Init => IInv
<1> SUFFICES ASSUME Init PROVE IInv
  OBVIOUS
<1>1. Lists(free, Slot)
  <2>1. free \in [1 .. MaxSessions -> Slot] /\ MaxSessions \in Nat
    BY BoundAssumption DEF Init, Slot
  <2>2. free \in Seq(Slot) /\ Len(free) = MaxSessions
    BY <2>1
  <2> QED
    BY <2>2 DEF Init, Slot, Lists
<1>2. TablesType /\ EndInv
  BY BoundAssumption DEF Init, TablesType, EndInv, NoSession, Session, MaxAge
<1>3. SlotInv
  BY <1>1, FS_EmptySet, BoundAssumption DEF Init, SlotInv
<1>4. RestType
  <2>1. 0 \in 0 .. CleanPeriod
    BY BoundAssumption
  <2>2. /\ owner \in [ServerEnd -> Client \cup {NoMac}]
        /\ has \in [ClientEnd -> ServerEnd \cup {NoEnd}]
    BY DEF Init
  <2> QED
    BY <2>1, <2>2 DEF Init, RestType
<1>5. TagInv /\ PadtInv
  BY DEF Init, TagInv, PadtInv
<1> QED
  BY <1>2, <1>3, <1>4, <1>5 DEF IInv, TablesInv

\* A tag the relay writes leads back to the station the frame came from.
LEMMA RelayTagType ==
  ASSUME NEW x \in Client \cup Server
  PROVE  RelayTag(x) \in Tag /\ RelayTag(x).mac = x /\ RelayTag(x).if = At[x]
BY DEF RelayTag, Tag, Interface

\* relayHandlePADI gives servers the tag of the client's interface.
LEMMA PADIKeepsIInv ==
  ASSUME IInv, NEW m \in Client, relayHandlePADI(m)
  PROVE  IInv'
<1>1. asked' = asked \cup {<<a, RelayTag(m)>> : a \in {b \in Server : At[b] \in AcOK \ {At[m]}}}
  BY DEF relayHandlePADI
<1>2. TablesInv'
  BY DEF relayHandlePADI, IInv, TablesInv, TablesType, SlotInv, EndInv, Lists
<1>3. \A w \in asked' : w \in asked \/ (w[1] \in Server /\ w = <<w[1], RelayTag(m)>>)
  BY <1>1
<1>4. RestType'
  BY <1>1, RelayTagType DEF relayHandlePADI, IInv, RestType
<1>5. TagInv'
  BY <1>3, RelayTagType DEF relayHandlePADI, IInv, TagInv
<1>6. PadtInv'
  BY DEF relayHandlePADI, IInv, PadtInv
<1> QED
  BY <1>2, <1>4, <1>5, <1>6 DEF IInv

\* relayHandlePADO gives the client the tag of the server's interface.
LEMMA PADOKeepsIInv ==
  ASSUME IInv, NEW a \in Server, NEW tag \in Tag, relayHandlePADO(a, tag)
  PROVE  IInv'
<1>1. offered' = offered \cup {<<tag.mac, RelayTag(a)>>} /\ <<a, tag>> \in asked
  BY DEF relayHandlePADO
<1>2. TablesInv'
  BY DEF relayHandlePADO, IInv, TablesInv, TablesType, SlotInv, EndInv, Lists
<1>3. tag.mac \in Client
  BY <1>1 DEF IInv, TagInv
<1>4. RestType'
  BY <1>1, <1>3, RelayTagType DEF relayHandlePADO, IInv, RestType
<1>5. TagInv'
  BY <1>1, RelayTagType DEF relayHandlePADO, IInv, TagInv
<1>6. PadtInv'
  BY DEF relayHandlePADO, IInv, PadtInv
<1> QED
  BY <1>2, <1>4, <1>5, <1>6 DEF IInv

\* relayHandlePADR goes where the tag leads.
LEMMA PADRKeepsIInv ==
  ASSUME IInv, NEW m \in Client, NEW tag \in Tag, relayHandlePADR(m, tag)
  PROVE  IInv'
<1>1. requested' = requested \cup {<<tag.mac, RelayTag(m)>>} /\ <<m, tag>> \in offered
  BY DEF relayHandlePADR
<1>2. TablesInv'
  BY DEF relayHandlePADR, IInv, TablesInv, TablesType, SlotInv, EndInv, Lists
<1>3. tag.mac \in Server
  BY <1>1 DEF IInv, TagInv
<1>4. RestType'
  BY <1>1, <1>3, RelayTagType DEF relayHandlePADR, IInv, RestType
<1>5. TagInv'
  BY <1>1, RelayTagType DEF relayHandlePADR, IInv, TagInv
<1>6. PadtInv'
  BY DEF relayHandlePADR, IInv, PadtInv
<1> QED
  BY <1>2, <1>4, <1>5, <1>6 DEF IInv

\* The tag of a PADR leads to the client the session is for.
LEMMA RequestedTag ==
  ASSUME IInv, NEW a \in Server, NEW tag \in Tag, <<a, tag>> \in requested
  PROVE  tag.mac \in Client /\ tag.if = At[tag.mac] /\ Reaches(tag.if, tag.mac)
BY DEF IInv, TagInv, Reaches

\* relayHandlePADS finds the session or takes a slot for it.
LEMMA PADSKeepsIInv ==
  ASSUME IInv, NEW a \in Server, NEW tag \in Tag, NEW n \in Num,
         relayHandlePADS(a, tag, n)
  PROVE  IInv'
<1> DEFINE x == <<a, n>>
<1>1. /\ <<a, tag>> \in requested /\ x \notin padts
      /\ UNCHANGED <<cleaning, tags, padts>>
  BY DEF relayHandlePADS
<1>2. x \in ServerEnd /\ tag.mac \in Client
  BY <1>1, RequestedTag DEF ServerEnd
<1>3. /\ owner \in [ServerEnd -> Client \cup {NoMac}]
      /\ has \in [ClientEnd -> ServerEnd \cup {NoEnd}]
      /\ active \subseteq Slot
  BY DEF IInv, RestType, TablesInv, TablesType
<1>4. \A s \in Slot : GetsPADS(s, tag, x) => has' \in [ClientEnd -> ServerEnd \cup {NoEnd}]
  BY <1>2, <1>3 DEF GetsPADS, ClientEnd
<1>5. PICK o \in {NoMac, tag.mac} : owner' = [owner EXCEPT ![x] = o]
  BY DEF relayHandlePADS
<1>6. TablesInv' /\ has' \in [ClientEnd -> ServerEnd \cup {NoEnd}]
  <2>1. ASSUME NEW e \in Find(x), GetsPADS(e.ses, tag, x), UNCHANGED tables
        PROVE  TablesInv' /\ has' \in [ClientEnd -> ServerEnd \cup {NoEnd}]
    <3>1. e.ses \in Slot
      BY <1>2, <1>3, FindServerEnd DEF IInv
    <3>2. TablesInv'
      BY <2>1 DEF IInv, TablesInv, TablesType, SlotInv, EndInv, Lists
    <3> QED
      BY <1>4, <2>1, <3>1, <3>2
  <2>2. ASSUME Find(x) = {}, HasRoom, createSession(Head(free), a, n, tag.mac),
               GetsPADS(Head(free), tag, x)
        PROVE  TablesInv' /\ has' \in [ClientEnd -> ServerEnd \cup {NoEnd}]
    <3>1. TablesInv' /\ Head(free) \in Slot
      BY <1>2, <2>2, CreateKeepsTables DEF IInv
    <3> QED
      BY <1>4, <2>2, <3>1
  <2>3. ASSUME UNCHANGED <<tables, has>>
        PROVE  TablesInv' /\ has' \in [ClientEnd -> ServerEnd \cup {NoEnd}]
    BY <1>3, <2>3 DEF IInv, TablesInv, TablesType, SlotInv, EndInv, Lists
  <2> QED
    BY <2>1, <2>2, <2>3 DEF relayHandlePADS
<1>7. RestType'
  BY <1>1, <1>2, <1>3, <1>5, <1>6 DEF IInv, RestType
<1>8. TagInv'
  BY <1>1 DEF IInv, TagInv
<1>9. PadtInv'
  BY <1>1, <1>2, <1>3, <1>5 DEF IInv, PadtInv
<1> QED
  BY <1>6, <1>7, <1>8, <1>9 DEF IInv

\* A PADT of the relay makes the stations forget the ends it names, and no others.
LEMMA ToldEnds ==
  ASSUME RestType, NEW ends, TellEnds(ends)
  PROVE  /\ owner' \in [ServerEnd -> Client \cup {NoMac}]
         /\ has' \in [ClientEnd -> ServerEnd \cup {NoEnd}]
         /\ \A x \in ServerEnd : owner'[x] \in {NoMac, owner[x]}
         /\ \A x \in ClientEnd : has'[x] \in {NoEnd, has[x]}
         /\ \A x \in ServerEnd \ ends : owner'[x] = owner[x]
         /\ "relay frame lost" \notin Upsets =>
              \A x \in ServerEnd \cap ends : owner'[x] = NoMac
BY DEF RestType, TellEnds

\* relayHandlePADT frees the slot of the session.
LEMMA PADTKeepsIInv ==
  ASSUME IInv, NEW x \in ClientEnd \cup ServerEnd, relayHandlePADT(x)
  PROVE  IInv'
<1>1. x \in padts /\ padts' = padts \ {x} /\ UNCHANGED <<cleaning, tags>>
  BY DEF relayHandlePADT
<1>2. /\ TablesInv'
      /\ owner' \in [ServerEnd -> Client \cup {NoMac}]
      /\ has' \in [ClientEnd -> ServerEnd \cup {NoEnd}]
      /\ \A y \in ServerEnd : owner'[y] \in {NoMac, owner[y]}
  <2>1. CASE UNCHANGED <<tables, owner, has>>
    <3>1. TablesInv'
      BY <2>1 DEF IInv, TablesInv, TablesType, SlotInv, EndInv, Lists
    <3> QED
      BY <2>1, <3>1 DEF IInv, RestType
  <2>2. ASSUME NEW e \in Find(x), TellEnds({PeerEnd(e)}), FreeSessions(Ended(e))
        PROVE  /\ TablesInv'
               /\ owner' \in [ServerEnd -> Client \cup {NoMac}]
               /\ has' \in [ClientEnd -> ServerEnd \cup {NoEnd}]
               /\ \A y \in ServerEnd : owner'[y] \in {NoMac, owner[y]}
    <3>1. e.ses \in active
      BY FindServerEnd, FindClientEnd DEF IInv
    <3>2. Ended(e) \in SUBSET active
      BY <3>1 DEF Ended
    <3>3. TablesInv'
      BY <2>2, <3>2, FreeKeepsTables DEF IInv
    <3> QED
      BY <2>2, <3>3, ToldEnds DEF IInv
  <2> QED
    BY <2>1, <2>2 DEF relayHandlePADT
<1>3. RestType'
  BY <1>1, <1>2 DEF IInv, RestType
<1>4. TagInv'
  BY <1>1 DEF IInv, TagInv
<1>5. PadtInv'
  BY <1>1, <1>2 DEF IInv, PadtInv
<1> QED
  BY <1>2, <1>3, <1>4, <1>5 DEF IInv

\* relayGotSessionPacket makes the session young.
LEMMA PacketKeepsIInv ==
  ASSUME IInv, NEW x \in ClientEnd \cup ServerEnd, relayGotSessionPacket(x)
  PROVE  IInv'
<1>1. UNCHANGED <<free, active, count, table, hashes, cleaning, tags, stations>>
  BY DEF relayGotSessionPacket
<1>2. PICK e \in Find(x) : ses' = [ses EXCEPT ![e.ses].age = 0]
  BY DEF relayGotSessionPacket
<1>3. ses \in [Slot -> Session] /\ 0 \in 0 .. MaxAge
  BY BoundAssumption DEF IInv, TablesInv, TablesType, MaxAge
<1>4. /\ ses' \in [Slot -> Session]
      /\ \A s \in Slot : /\ ses'[s].ac = ses[s].ac /\ ses'[s].acSes = ses[s].acSes
                        /\ ses'[s].cli = ses[s].cli
  BY ZenonT(40), <1>2, <1>3 DEF Session
<1>5. TablesInv'
  BY <1>1, <1>4, AgesKeepTables DEF IInv
<1>6. RestType' /\ TagInv' /\ PadtInv'
  BY <1>1 DEF IInv, RestType, TagInv, PadtInv
<1> QED
  BY <1>5, <1>6 DEF IInv

\* A station ends its session or a server restarts: the tables stay.
LEMMA StationKeepsIInv ==
  ASSUME IInv,
         \/ \E x \in ClientEnd : ClientEnds(x)
         \/ \E x \in ServerEnd : ServerEnds(x)
         \/ \E a \in Server : ServerRestarts(a)
  PROVE  IInv'
<1>1. UNCHANGED <<tables, cleaning, tags>>
  BY DEF ClientEnds, ServerEnds, ServerRestarts, SendPADT
<1>2. TablesInv'
  BY <1>1 DEF IInv, TablesInv, TablesType, SlotInv, EndInv, Lists
<1>3. TagInv'
  BY <1>1 DEF IInv, TagInv
<1>4. /\ owner \in [ServerEnd -> Client \cup {NoMac}]
      /\ has \in [ClientEnd -> ServerEnd \cup {NoEnd}]
      /\ padts \subseteq ClientEnd \cup ServerEnd
      /\ \A x \in ServerEnd : x \in padts => owner[x] = NoMac
  BY DEF IInv, RestType, PadtInv
<1> DEFINE StationsKept ==
             /\ owner' \in [ServerEnd -> Client \cup {NoMac}]
             /\ has' \in [ClientEnd -> ServerEnd \cup {NoEnd}]
             /\ padts' \subseteq ClientEnd \cup ServerEnd
             /\ \A x \in ServerEnd : x \in padts' => owner'[x] = NoMac
<1>5. StationsKept
  <2>1. ASSUME NEW x \in ClientEnd, ClientEnds(x) PROVE StationsKept
    BY <1>4, <2>1, EndsDiffer DEF ClientEnds, SendPADT
  <2>2. ASSUME NEW x \in ServerEnd, ServerEnds(x) PROVE StationsKept
    BY <1>4, <2>2, EndsDiffer DEF ServerEnds, SendPADT
  <2>3. ASSUME NEW a \in Server, ServerRestarts(a) PROVE StationsKept
    BY <1>4, <2>3 DEF ServerRestarts
  <2> HIDE DEF StationsKept
  <2> QED
    BY <2>1, <2>2, <2>3
<1> QED
  BY <1>1, <1>2, <1>3, <1>5 DEF IInv, RestType, PadtInv

\* alarmHandler counts and writes to the pipe.
LEMMA AlarmKeepsIInv ==
  ASSUME IInv, alarmHandler
  PROVE  IInv'
<1>1. UNCHANGED <<free, active, count, table, hashes, tags, stations>>
  BY DEF alarmHandler
<1>2. ses \in [Slot -> Session] /\ MaxAge \in Nat /\ CleanPeriod \in Nat
  BY BoundAssumption DEF IInv, TablesInv, TablesType, MaxAge
<1>3. /\ ses' \in [Slot -> Session]
      /\ \A s \in Slot : /\ ses'[s].ac = ses[s].ac /\ ses'[s].acSes = ses[s].acSes
                        /\ ses'[s].cli = ses[s].cli
  BY <1>2 DEF alarmHandler, Session
<1>4. cleanCounter' \in 0 .. CleanPeriod /\ cleanPipe' \in BOOLEAN
  BY <1>2 DEF alarmHandler, IInv, RestType
<1>5. TablesInv'
  BY <1>1, <1>3, AgesKeepTables DEF IInv
<1>6. RestType'
  BY <1>1, <1>4 DEF IInv, RestType
<1>7. TagInv' /\ PadtInv'
  BY <1>1 DEF IInv, TagInv, PadtInv
<1> QED
  BY <1>5, <1>6, <1>7 DEF IInv

\* cleanSessions frees what is too old.
LEMMA CleanKeepsIInv ==
  ASSUME IInv, cleanSessions
  PROVE  IInv'
<1> DEFINE old == {s \in active : TooOld(s)}
<1>1. cleanPipe' = FALSE /\ cleanCounter' = 0 /\ UNCHANGED <<tags, padts>>
  BY DEF cleanSessions, CounterReset
<1>2. /\ TablesInv'
      /\ owner' \in [ServerEnd -> Client \cup {NoMac}]
      /\ has' \in [ClientEnd -> ServerEnd \cup {NoEnd}]
      /\ \A y \in ServerEnd : owner'[y] \in {NoMac, owner[y]}
  <2>1. CASE UNCHANGED <<tables, owner, has>>
    <3>1. TablesInv'
      BY <2>1 DEF IInv, TablesInv, TablesType, SlotInv, EndInv, Lists
    <3> QED
      BY <2>1, <3>1 DEF IInv, RestType
  <2>2. CASE /\ FreeSessions(old)
             /\ TellEnds({AcEnd(s) : s \in old} \cup {CliEnd(s) : s \in old})
    <3>1. old \in SUBSET active
      OBVIOUS
    <3> HIDE DEF old
    <3>2. TablesInv'
      BY <2>2, <3>1, FreeKeepsTables DEF IInv
    <3> QED
      BY <2>2, <3>2, ToldEnds DEF IInv
  <2> QED
    BY <2>1, <2>2 DEF cleanSessions
<1>3. RestType'
  <2>1. 0 \in 0 .. CleanPeriod
    BY BoundAssumption
  <2> QED
    BY <1>1, <1>2, <2>1 DEF IInv, RestType
<1>4. TagInv' /\ PadtInv'
  BY <1>1, <1>2 DEF IInv, TagInv, PadtInv
<1> QED
  BY <1>2, <1>3, <1>4 DEF IInv

\* Every step keeps the invariant.
LEMMA NextKeepsIInv == IInv /\ [Next]_vars => IInv'
<1> SUFFICES ASSUME IInv, [Next]_vars PROVE IInv'
  OBVIOUS
<1>1. ASSUME NEW m \in Client, relayHandlePADI(m) PROVE IInv'
  BY <1>1, PADIKeepsIInv
<1>2. ASSUME NEW a \in Server, NEW tag \in Tag, relayHandlePADO(a, tag) PROVE IInv'
  BY <1>2, PADOKeepsIInv
<1>3. ASSUME NEW m \in Client, NEW tag \in Tag, relayHandlePADR(m, tag) PROVE IInv'
  BY <1>3, PADRKeepsIInv
<1>4. ASSUME NEW a \in Server, NEW tag \in Tag, NEW n \in Num, relayHandlePADS(a, tag, n)
      PROVE  IInv'
  BY <1>4, PADSKeepsIInv
<1>5. ASSUME NEW x \in ClientEnd \cup ServerEnd, relayHandlePADT(x) PROVE IInv'
  BY <1>5, PADTKeepsIInv
<1>6. ASSUME NEW x \in ClientEnd \cup ServerEnd, relayGotSessionPacket(x) PROVE IInv'
  BY <1>6, PacketKeepsIInv
<1>7. ASSUME \/ \E x \in ClientEnd : ClientEnds(x)
             \/ \E x \in ServerEnd : ServerEnds(x)
             \/ \E a \in Server : ServerRestarts(a)
      PROVE  IInv'
  BY <1>7, StationKeepsIInv
<1>8. ASSUME alarmHandler PROVE IInv'
  BY <1>8, AlarmKeepsIInv
<1>9. ASSUME cleanSessions PROVE IInv'
  BY <1>9, CleanKeepsIInv
<1>10. ASSUME UNCHANGED vars PROVE IInv'
  BY <1>10 DEF vars, IInv, TablesInv, TablesType, SlotInv, EndInv, Lists, RestType, TagInv,
               PadtInv
<1> QED
  BY <1>1, <1>2, <1>3, <1>4, <1>5, <1>6, <1>7, <1>8, <1>9, <1>10 DEF Next

\* The invariant holds always.
LEMMA AlwaysIInv == Spec => []IInv
BY InitIInv, NextKeepsIInv, PTL DEF Spec

-----------------------------------------------------------------------------

\* The variables of pppoe-relay keep their types.
THEOREM TypeCorrect == Spec => []TypeOK
<1>1. IInv => TypeOK
  <2>1. SUFFICES ASSUME IInv PROVE TypeOK
    OBVIOUS
  <2>2. /\ active \subseteq Slot /\ Lists(free, Slot \ active) /\ count = Cardinality(active)
        /\ table = [ses : active, side : {"ac", "client"}]
        /\ hashes = 2 * (MaxSessions - count)
    BY <2>1 DEF IInv, TablesInv, TablesType, SlotInv
  <2>3. free \in Seq(Slot)
    BY <2>2, ListsType
  <2>4. count \in Nat /\ count <= MaxSessions
    BY <2>2, SlotsFinite, FS_Subset, FS_CardinalityType
  <2>5. hashes \in Nat
    BY <2>2, <2>4, BoundAssumption
  <2>6. table \subseteq Entry
    BY <2>2 DEF Entry
  <2> QED
    BY <2>1, <2>3, <2>4, <2>5, <2>6 DEF IInv, TablesInv, TablesType, RestType, TypeOK
<1> QED
  BY <1>1, AlwaysIInv, PTL

\* createSession and freeSession never lose a slot or a hash entry, and a session has room
\* for both its entries whenever NumSessions allows it.
THEOREM TablesAreConserved == Spec => []TablesConserved
<1>1. IInv => TablesConserved
  <2>1. SUFFICES ASSUME IInv PROVE TablesConserved
    OBVIOUS
  <2>2. active \subseteq Slot /\ Lists(free, Slot \ active)
    BY <2>1 DEF IInv, TablesInv, TablesType, SlotInv
  <2>3. DOMAIN free = 1 .. Len(free) /\ \A i \in 1 .. Len(free) : free[i] \in Slot \ active
    BY <2>2, ListsType
  <2>4. \A s \in Slot : s \in active <=> \A i \in DOMAIN free : free[i] # s
    BY <2>2, <2>3 DEF Lists
  <2>5. \A i, j \in DOMAIN free : i # j => free[i] # free[j]
    BY <2>2, <2>3 DEF Lists
  <2> QED
    BY <2>1, <2>4, <2>5 DEF IInv, TablesInv, SlotInv, TablesConserved
<1> QED
  BY <1>1, AlwaysIInv, PTL

\* What findSession finds is the only session with that address and number.
THEOREM KeysAreUnique == Spec => []KeysUnique
<1>1. IInv => KeysUnique
  <2>1. SUFFICES ASSUME IInv, NEW e \in table, NEW f \in table, Key(e) = Key(f)
                 PROVE  e = f
    BY DEF KeysUnique
  <2>2. e \in [ses : active, side : {"ac", "client"}] /\ f \in [ses : active, side : {"ac", "client"}]
    BY <2>1 DEF IInv, TablesInv, SlotInv
  <2>3. /\ ses[e.ses].ac \in Server /\ ses[e.ses].cli \in Client
        /\ ses[f.ses].ac \in Server /\ ses[f.ses].cli \in Client
    BY <2>1, <2>2 DEF IInv, TablesInv, EndInv
  <2>4. e.side = f.side
    BY <2>1, <2>2, <2>3, StationAssumption DEF Key, AcEnd, CliEnd
  <2>5. e.ses = f.ses
    <3>1. CASE e.side = "client"
      BY <2>1, <2>4, <3>1 DEF Key, CliEnd
    <3>2. CASE e.side = "ac"
      <4>1. ses[e.ses].ac = ses[f.ses].ac /\ ses[e.ses].acSes = ses[f.ses].acSes
        BY <2>1, <2>4, <3>2 DEF Key, AcEnd
      <4> QED
        BY <2>1, <2>2, <4>1 DEF IInv, TablesInv, EndInv
    <3> QED
      BY <2>2, <3>1, <3>2
  <2> QED
    BY <2>2, <2>4, <2>5
<1> QED
  BY <1>1, AlwaysIInv, PTL

-----------------------------------------------------------------------------

\* The pairs of ends that the active slots join, by the fields of the slots.
joinedEnds == {<<CliEnd(s), AcEnd(s)>> : s \in active}

\* There are no more of them than active slots.
LEMMA JoinedAreCounted ==
  ASSUME TablesInv, HasRoom
  PROVE  Cardinality(joinedEnds) < MaxSessions
<1> DEFINE join == [s \in active |-> <<CliEnd(s), AcEnd(s)>>]
<1>1. join \in Surjection(active, joinedEnds)
  BY DEF Surjection, joinedEnds
<1>2. IsFiniteSet(active) /\ count = Cardinality(active) /\ Cardinality(active) \in Nat
  BY SlotsFinite, FS_Subset, FS_CardinalityType DEF TablesInv, TablesType, SlotInv
<1> HIDE DEF join
<1>3. /\ IsFiniteSet(joinedEnds) /\ Cardinality(joinedEnds) <= Cardinality(active)
      /\ Cardinality(joinedEnds) \in Nat
  BY <1>1, <1>2, FS_Surjection, FS_CardinalityType
<1> QED
  BY <1>2, <1>3, BoundAssumption DEF HasRoom

\* A session for a PADS joins two ends that were not joined.
LEMMA CreateJoins ==
  ASSUME TablesInv, HasRoom, NEW a \in Server, NEW n \in Num, NEW m \in Client,
         Find(<<a, n>>) = {}, createSession(Head(free), a, n, m)
  PROVE  Relayed!Next
<1> DEFINE h == Head(free)
<1>1. /\ h \in Slot \ active /\ active' = active \cup {h} /\ active \subseteq Slot
      /\ ses'[h].ac = a /\ ses'[h].acSes = n /\ ses'[h].cli = m
      /\ \A s \in Slot \ {h} : ses'[s] = ses[s]
  BY CreateKeepsTables DEF TablesInv, TablesType
<1>2. <<m, h>> \in ClientEnd /\ <<a, n>> \in ServerEnd
  BY <1>1 DEF ClientEnd, ServerEnd
<1> HIDE DEF h
<1>3. joinedEnds' = joinedEnds \cup {<<<<m, h>>, <<a, n>>>>}
  <2>1. joinedEnds' = {<<<<ses'[s].cli, s>>, <<ses'[s].ac, ses'[s].acSes>>>> : s \in active'}
    BY DEF joinedEnds, CliEnd, AcEnd
  <2>2. joinedEnds = {<<<<ses[s].cli, s>>, <<ses[s].ac, ses[s].acSes>>>> : s \in active}
    BY DEF joinedEnds, CliEnd, AcEnd
  <2>3. active' = active \cup {h} /\ \A s \in active : ses'[s] = ses[s]
    BY <1>1
  <2> QED
    BY <1>1, <2>1, <2>2, <2>3
<1>4. \A j \in joinedEnds : j[1] # <<m, h>> /\ j[2] # <<a, n>>
  <2>1. \A s \in active : AcEnd(s) # <<a, n>>
    BY <1>2, FindServerEnd
  <2>2. \A s \in active : CliEnd(s) # <<m, h>>
    BY <1>1 DEF CliEnd
  <2> QED
    BY <2>1, <2>2 DEF joinedEnds
<1>5. Relayed!Cardinality(joinedEnds) < MaxSessions
  <2>1. Relayed!Cardinality(joinedEnds) = Cardinality(joinedEnds)
    BY DEF Relayed!Cardinality, Cardinality   \* the same definition, instantiated
  <2> QED
    BY <2>1, JoinedAreCounted
<1>6. Relayed!Join(<<m, h>>, <<a, n>>)
  BY <1>3, <1>4, <1>5 DEF Relayed!Join, Relayed!Unused, joinedEnds
<1> QED
  BY <1>2, <1>6 DEF Relayed!Next

\* Freeing active slots cuts the ends they joined.
LEMMA FreeCuts ==
  ASSUME TablesInv, NEW S \in SUBSET active, FreeSessions(S)
  PROVE  Relayed!Next
<1> DEFINE J == {<<CliEnd(s), AcEnd(s)>> : s \in S}
<1>1. active' = active \ S /\ active \subseteq Slot /\ \A s \in Slot \ S : ses'[s] = ses[s]
  BY FreeKeepsTables DEF TablesInv, TablesType
<1>2. joinedEnds' = joinedEnds \ J
  <2>1. joinedEnds' = {<<<<ses'[s].cli, s>>, <<ses'[s].ac, ses'[s].acSes>>>> : s \in active'}
    BY DEF joinedEnds, CliEnd, AcEnd
  <2>2. joinedEnds = {<<<<ses[s].cli, s>>, <<ses[s].ac, ses[s].acSes>>>> : s \in active}
    BY DEF joinedEnds, CliEnd, AcEnd
  <2>3. J = {<<<<ses[s].cli, s>>, <<ses[s].ac, ses[s].acSes>>>> : s \in S}
    BY DEF CliEnd, AcEnd
  <2>4. active' = active \ S /\ S \subseteq active /\ \A s \in active \ S : ses'[s] = ses[s]
    BY <1>1
  <2> HIDE DEF J
  <2> QED
    BY <2>1, <2>2, <2>3, <2>4
<1>3. J \in SUBSET joinedEnds
  BY DEF joinedEnds
<1> HIDE DEF J
<1> QED
  BY <1>2, <1>3 DEF Relayed!Next, Relayed!Cut, joinedEnds

\* Each step joins two unused ends below the limit, cuts some, or changes no pair.
THEOREM ImplementsRelayedSessions == Spec => ImplementsRelayed
<1>1. Init => Relayed!Init
  BY DEF Init, Relayed!Init
<1>2. ASSUME IInv, [Next]_vars
      PROVE  [Relayed!Next]_(joinedEnds)
  <2> USE <1>2
  <2>0. /\ TablesInv /\ active \subseteq Slot /\ ses \in [Slot -> Session]
    BY DEF IInv, TablesInv, TablesType
  <2>1. ASSUME NEW a \in Server, NEW tag \in Tag, NEW n \in Num, relayHandlePADS(a, tag, n)
        PROVE  Relayed!Next \/ UNCHANGED joinedEnds
    <3>1. CASE /\ Find(<<a, n>>) = {} /\ HasRoom
               /\ createSession(Head(free), a, n, tag.mac)
      <4>1. tag.mac \in Client
        BY <2>1, RequestedTag DEF relayHandlePADS
      <4> QED
        BY <2>0, <3>1, <4>1, CreateJoins
    <3>2. CASE UNCHANGED tables
      BY <3>2 DEF joinedEnds, CliEnd, AcEnd
    <3> QED
      BY <2>1, <3>1, <3>2 DEF relayHandlePADS
  <2>2. ASSUME NEW x \in ClientEnd \cup ServerEnd, relayHandlePADT(x)
        PROVE  Relayed!Next \/ UNCHANGED joinedEnds
    <3>1. ASSUME NEW e \in Find(x), FreeSessions(Ended(e)) PROVE Relayed!Next
      <4>1. Ended(e) \in SUBSET active
        BY <2>0, FindServerEnd, FindClientEnd DEF Ended
      <4> QED
        BY <2>0, <3>1, <4>1, FreeCuts
    <3>2. CASE UNCHANGED tables
      BY <3>2 DEF joinedEnds, CliEnd, AcEnd
    <3> QED
      BY <2>2, <3>1, <3>2 DEF relayHandlePADT
  <2>3. ASSUME cleanSessions
        PROVE  Relayed!Next \/ UNCHANGED joinedEnds
    <3>1. PICK old \in SUBSET active : old = {s \in active : TooOld(s)}
      OBVIOUS
    <3>2. CASE FreeSessions(old)
      BY <2>0, <3>2, FreeCuts
    <3>3. CASE UNCHANGED tables
      BY <3>3 DEF joinedEnds, CliEnd, AcEnd
    <3> QED
      BY <2>3, <3>1, <3>2, <3>3 DEF cleanSessions
  <2>4. ASSUME UNCHANGED active,
               \A s \in active : /\ ses'[s].ac = ses[s].ac /\ ses'[s].acSes = ses[s].acSes
                                 /\ ses'[s].cli = ses[s].cli
        PROVE  UNCHANGED joinedEnds
    BY <2>4 DEF joinedEnds, CliEnd, AcEnd
  <2>5. ASSUME NEW x \in ClientEnd \cup ServerEnd, relayGotSessionPacket(x)
        PROVE  UNCHANGED joinedEnds
    <3>1. PICK e \in Find(x) : ses' = [ses EXCEPT ![e.ses].age = 0]
      BY <2>5 DEF relayGotSessionPacket
    <3>2. UNCHANGED active
      BY <2>5 DEF relayGotSessionPacket
    <3> QED
      BY <2>0, <2>4, <3>1, <3>2 DEF Session
  <2>6. ASSUME alarmHandler PROVE UNCHANGED joinedEnds
    BY <2>0, <2>4, <2>6 DEF alarmHandler, Session
  <2>7. ASSUME UNCHANGED tables PROVE UNCHANGED joinedEnds
    BY <2>7 DEF joinedEnds, CliEnd, AcEnd
  <2> QED
    BY <2>1, <2>2, <2>3, <2>5, <2>6, <2>7
    DEF Next, vars, relayHandlePADI, relayHandlePADO, relayHandlePADR, ClientEnds, ServerEnds,
        SendPADT, ServerRestarts
<1>3. IInv /\ [Next]_vars => [Relayed!Next]_({<<CliEnd(s), AcEnd(s)>> : s \in active})
  BY <1>2 DEF joinedEnds
<1> QED
  BY <1>1, <1>3, AlwaysIInv, PTL DEF Spec, ImplementsRelayed, Relayed!Spec

-----------------------------------------------------------------------------

\* What a step does to the active slots: PADS adds one, PADT and cleaner take some away.
\* The ends of a slot that stays are the same.
LEMMA ActiveKeepEnds ==
  ASSUME IInv, Next, NEW s \in active, s \in active'
  PROVE  AcEnd(s)' = AcEnd(s) /\ CliEnd(s)' = CliEnd(s)
<1>1. TablesInv /\ active \subseteq Slot /\ ses \in [Slot -> Session]
  BY DEF IInv, TablesInv, TablesType
<1>2. /\ \A S \in SUBSET active : FreeSessions(S) => s \notin S /\ ses'[s] = ses[s]
  BY <1>1, FreeKeepsTables
<1>3. CASE UNCHANGED ses
  BY <1>3 DEF AcEnd, CliEnd
<1>4. ASSUME NEW a \in Server, NEW tag \in Tag, NEW n \in Num, relayHandlePADS(a, tag, n),
             ~ UNCHANGED ses
      PROVE  ses'[s] = ses[s]
  <2>1. /\ Find(<<a, n>>) = {} /\ HasRoom /\ createSession(Head(free), a, n, tag.mac)
        /\ tag.mac \in Client
    BY <1>4, RequestedTag DEF relayHandlePADS
  <2>2. Head(free) \in Slot \ active /\ \A t \in Slot \ {Head(free)} : ses'[t] = ses[t]
    BY <1>1, <2>1, CreateKeepsTables
  <2> QED
    BY <1>1, <2>2
<1>5. ASSUME NEW x \in ClientEnd \cup ServerEnd, relayHandlePADT(x), ~ UNCHANGED ses
      PROVE  ses'[s] = ses[s]
  <2>1. PICK e \in Find(x) : FreeSessions(Ended(e))
    BY <1>5 DEF relayHandlePADT
  <2>2. Ended(e) \in SUBSET active
    BY <1>1, FindServerEnd, FindClientEnd DEF Ended
  <2> QED
    BY <1>2, <2>1, <2>2
<1>6. ASSUME cleanSessions, ~ UNCHANGED ses
      PROVE  ses'[s] = ses[s]
  <2>1. PICK old \in SUBSET active : FreeSessions(old)
    BY <1>6 DEF cleanSessions
  <2> QED
    BY <1>2, <2>1
<1>7. ASSUME NEW x \in ClientEnd \cup ServerEnd, relayGotSessionPacket(x)
      PROVE  AcEnd(s)' = AcEnd(s) /\ CliEnd(s)' = CliEnd(s)
  <2>1. PICK e \in Find(x) : ses' = [ses EXCEPT ![e.ses].age = 0]
    BY <1>7 DEF relayGotSessionPacket
  <2> QED
    BY <1>1, <2>1 DEF Session, AcEnd, CliEnd
<1>8. ASSUME alarmHandler PROVE AcEnd(s)' = AcEnd(s) /\ CliEnd(s)' = CliEnd(s)
  BY <1>1, <1>8 DEF alarmHandler, Session, AcEnd, CliEnd
<1>9. ASSUME ses'[s] = ses[s] PROVE AcEnd(s)' = AcEnd(s) /\ CliEnd(s)' = CliEnd(s)
  BY <1>9 DEF AcEnd, CliEnd
<1> QED
  BY <1>3, <1>4, <1>5, <1>6, <1>7, <1>8, <1>9
  DEF Next, relayHandlePADI, relayHandlePADO, relayHandlePADR, ClientEnds, ServerEnds,
      SendPADT, ServerRestarts

\* The step opens slot s for the PADS of server a with number n.
OpensSlot(s, a, tag, n) ==
  /\ relayHandlePADS(a, tag, n) /\ tag.mac \in Client
  /\ GetsPADS(s, tag, <<a, n>>)
  /\ owner' = [owner EXCEPT ![<<a, n>>] = tag.mac]
  /\ AcEnd(s)' = <<a, n>> /\ CliEnd(s)' = <<tag.mac, s>>

\* Only a PADS makes a slot active, with the ends it names.
LEMMA NewlyActive ==
  ASSUME IInv, Next, NEW s \in active', s \notin active
  PROVE  \E a \in Server, tag \in Tag, n \in Num : OpensSlot(s, a, tag, n)
<1>1. TablesInv
  BY DEF IInv
<1>2. PICK a \in Server, tag \in Tag, n \in Num : relayHandlePADS(a, tag, n)
  <2>1. SUFFICES ASSUME ~ \E a \in Server, tag \in Tag, n \in Num : relayHandlePADS(a, tag, n)
                 PROVE  active' \subseteq active
    OBVIOUS
  <2> QED
    BY <2>1 DEF Next, relayHandlePADI, relayHandlePADO, relayHandlePADR, relayHandlePADT,
                relayGotSessionPacket, ClientEnds, ServerEnds, SendPADT, ServerRestarts,
                alarmHandler, cleanSessions, FreeSessions
<1>3. /\ Find(<<a, n>>) = {} /\ HasRoom /\ createSession(Head(free), a, n, tag.mac)
      /\ GetsPADS(Head(free), tag, <<a, n>>)
      /\ owner' = [owner EXCEPT ![<<a, n>>] = tag.mac]
  BY <1>2 DEF relayHandlePADS
<1>4. tag.mac \in Client
  BY <1>2, RequestedTag DEF relayHandlePADS
<1>5. /\ active' = active \cup {Head(free)}
      /\ ses'[Head(free)].ac = a /\ ses'[Head(free)].acSes = n
      /\ ses'[Head(free)].cli = tag.mac
  BY <1>1, <1>3, <1>4, CreateKeepsTables
<1>6. s = Head(free)
  BY <1>5
<1> QED
  BY <1>2, <1>3, <1>4, <1>5, <1>6 DEF OpensSlot, AcEnd, CliEnd

\* The server of an active slot keeps its session for the slot's client, or has sent a PADT.
OwnerInv ==
  \A s \in active : \/ owner[AcEnd(s)] = ses[s].cli
                    \/ owner[AcEnd(s)] = NoMac /\ AcEnd(s) \in padts

\* The relay's PADTs and the removal of one from the socket spare the slots that stay.
LEMMA StayingKeepOwner ==
  ASSUME IInv, NEW s \in active, s \in active',
         cleanSessions \/ \E y \in ClientEnd \cup ServerEnd : relayHandlePADT(y)
  PROVE  owner'[AcEnd(s)] = owner[AcEnd(s)] /\ (AcEnd(s) \in padts => AcEnd(s) \in padts')
<1> DEFINE x == AcEnd(s)
<1>1. /\ TablesInv /\ RestType /\ x \in ServerEnd
      /\ \A t \in active : t # s => AcEnd(t) # x
      /\ \A t \in active, y \in ServerEnd : CliEnd(t) # y
  <2>1. TablesInv /\ RestType /\ EndInv
    BY DEF IInv, TablesInv
  <2>2. \A t \in active : t # s => AcEnd(t) # x
    BY <2>1 DEF EndInv, AcEnd
  <2>3. \A t \in active, y \in ServerEnd : CliEnd(t) # y
    BY <2>1, StationAssumption DEF EndInv, CliEnd, ServerEnd
  <2> QED
    BY <2>1, <2>2, <2>3 DEF EndInv, AcEnd, ServerEnd
<1>2. \A S \in SUBSET active : FreeSessions(S) => s \notin S
  BY <1>1, FreeKeepsTables
<1>3. ASSUME NEW y \in ClientEnd \cup ServerEnd, relayHandlePADT(y)
      PROVE  owner'[x] = owner[x] /\ (x \in padts => x \in padts')
  <2>1. padts' = padts \ {y}
    BY <1>3 DEF relayHandlePADT
  <2>2. CASE Find(y) = {} /\ UNCHANGED owner
    <3>1. y # x
      BY <1>1, <2>2, FindServerEnd
    <3> QED
      BY <2>1, <2>2, <3>1
  <2>3. ASSUME NEW e \in Find(y), TellEnds({PeerEnd(e)}), FreeSessions(Ended(e))
        PROVE  y # x /\ owner'[x] = owner[x]
    <3>1. e.ses \in active
      BY <1>1, FindServerEnd, FindClientEnd
    <3>2. e.ses # s
      BY <1>2, <2>3, <3>1 DEF Ended
    <3>3. y # x /\ PeerEnd(e) # x
      <4>1. CASE y \in ServerEnd
        BY <1>1, <3>1, <3>2, <4>1, FindServerEnd
      <4>2. CASE y \in ClientEnd
        <5>1. y # x
          BY <1>1, <4>2, EndsDiffer
        <5>2. PeerEnd(e) = AcEnd(e.ses)
          BY <1>1, <4>2, FindClientEnd
        <5> QED
          BY <1>1, <3>1, <3>2, <5>1, <5>2
      <4> QED
        BY <4>1, <4>2
    <3>4. x \in ServerEnd \ {PeerEnd(e)}
      BY <1>1, <3>3
    <3> HIDE DEF x
    <3> QED
      BY <1>1, <2>3, <3>3, <3>4, ToldEnds
  <2> QED
    BY <1>3, <2>1, <2>2, <2>3 DEF relayHandlePADT
<1>4. ASSUME cleanSessions
      PROVE  owner'[x] = owner[x] /\ (x \in padts => x \in padts')
  <2>1. UNCHANGED padts
    BY <1>4 DEF cleanSessions
  <2>2. PICK old \in SUBSET active : old = {t \in active : TooOld(t)}
    OBVIOUS
  <2>3. CASE /\ FreeSessions(old)
             /\ TellEnds({AcEnd(t) : t \in old} \cup {CliEnd(t) : t \in old})
    <3>1. s \notin old
      BY <1>2, <2>3
    <3>2. x \in ServerEnd \ ({AcEnd(t) : t \in old} \cup {CliEnd(t) : t \in old})
      BY <1>1, <3>1
    <3> HIDE DEF x
    <3> QED
      BY <1>1, <2>1, <2>3, <3>2, ToldEnds
  <2>4. CASE UNCHANGED owner
    BY <2>1, <2>4
  <2> QED
    BY <1>4, <2>2, <2>3, <2>4 DEF cleanSessions
<1> QED
  BY <1>3, <1>4

\* Where no server restarts, every step keeps the owners of the active slots.
LEMMA NextKeepsOwnerInv ==
  ASSUME IInv, OwnerInv, "server restarts" \notin Upsets, [Next]_vars
  PROVE  OwnerInv'
<1>1. CASE UNCHANGED vars
  BY <1>1 DEF vars, OwnerInv, AcEnd
<1>2. ASSUME Next, NEW s \in active', s \notin active
      PROVE  owner'[AcEnd(s)'] = ses'[s].cli
  <2>1. PICK a \in Server, tag \in Tag, n \in Num : OpensSlot(s, a, tag, n)
    BY <1>2, NewlyActive
  <2>2. ses'[s].cli = tag.mac /\ AcEnd(s)' = <<a, n>>
        /\ owner' = [owner EXCEPT ![<<a, n>>] = tag.mac]
    BY <2>1 DEF OpensSlot, CliEnd
  <2>3. <<a, n>> \in ServerEnd /\ owner \in [ServerEnd -> Client \cup {NoMac}]
    BY DEF ServerEnd, IInv, RestType
  <2> QED
    BY <2>1, <2>2, <2>3
<1>3. ASSUME Next, NEW s \in active', s \in active
      PROVE  \/ owner'[AcEnd(s)'] = ses'[s].cli
             \/ owner'[AcEnd(s)'] = NoMac /\ AcEnd(s)' \in padts'
  <2> DEFINE x == AcEnd(s)
  <2> DEFINE m == ses[s].cli
  <2>1. AcEnd(s)' = x /\ ses'[s].cli = m
    <3>1. AcEnd(s)' = x /\ CliEnd(s)' = CliEnd(s)
      BY <1>3, ActiveKeepEnds
    <3> QED
      BY <3>1 DEF CliEnd
  <2>2. /\ x \in ServerEnd /\ m \in Client
        /\ owner \in [ServerEnd -> Client \cup {NoMac}]
        /\ owner[x] = m \/ (owner[x] = NoMac /\ x \in padts)
    BY <1>3 DEF IInv, TablesInv, EndInv, RestType, OwnerInv, AcEnd, ServerEnd
  <2>3. Find(x) # {}
    BY <1>3, <2>2, FindServerEnd DEF IInv
  <2> HIDE DEF m
  <2>4. SUFFICES owner'[x] = m \/ (owner'[x] = NoMac /\ x \in padts')
    BY <2>1
  <2>5. CASE cleanSessions \/ \E y \in ClientEnd \cup ServerEnd : relayHandlePADT(y)
    BY <1>3, <2>2, <2>5, StayingKeepOwner
  <2> HIDE DEF x
  <2>6. ASSUME NEW a \in Server, NEW tag \in Tag, NEW n \in Num, relayHandlePADS(a, tag, n)
        PROVE  owner'[x] = m \/ (owner'[x] = NoMac /\ x \in padts')
    <3>1. CASE <<a, n>> = x
      <4>1. x \notin padts /\ owner[x] \in {NoMac, tag.mac}
        BY <2>6, <3>1 DEF relayHandlePADS
      <4>2. owner' = [owner EXCEPT ![x] = tag.mac]
        BY <2>3, <2>6, <3>1 DEF relayHandlePADS
      <4> QED
        BY <2>2, <4>1, <4>2, StationAssumption
    <3>2. CASE <<a, n>> # x
      <4>1. owner'[x] = owner[x] /\ padts' = padts
        BY <2>2, <2>6, <3>2 DEF relayHandlePADS
      <4> QED
        BY <2>2, <4>1
    <3> QED
      BY <3>1, <3>2
  <2>7. ASSUME NEW y \in ServerEnd, ServerEnds(y)
        PROVE  owner'[x] = m \/ (owner'[x] = NoMac /\ x \in padts')
    BY <2>2, <2>7, EndsDiffer DEF ServerEnds, SendPADT
  <2>8. ASSUME NEW y \in ClientEnd, ClientEnds(y)
        PROVE  owner'[x] = m \/ (owner'[x] = NoMac /\ x \in padts')
    BY <2>2, <2>8 DEF ClientEnds, SendPADT
  <2>9. CASE UNCHANGED <<owner, padts>>
    BY <2>2, <2>9
  <2> QED
    BY <1>3, <2>5, <2>6, <2>7, <2>8, <2>9
    DEF Next, relayHandlePADI, relayHandlePADO, relayHandlePADR, relayGotSessionPacket,
        ServerRestarts, alarmHandler
<1>4. ASSUME Next PROVE OwnerInv'
  BY <1>2, <1>3, <1>4 DEF OwnerInv
<1> QED
  BY <1>1, <1>4

\* As long as no server forgets its sessions, the frames of a session that a server keeps
\* for a client go to that client only.
THEOREM RelayedToOwner ==
  ASSUME "server restarts" \notin Upsets
  PROVE  Spec => []RelaysToOwner
<1>1. Init => OwnerInv
  BY DEF Init, OwnerInv
<1>2. IInv /\ OwnerInv /\ [Next]_vars => OwnerInv'
  BY NextKeepsOwnerInv
<1>3. OwnerInv => RelaysToOwner
  BY DEF OwnerInv, RelaysToOwner
<1> QED
  BY <1>1, <1>2, <1>3, AlwaysIInv, PTL DEF Spec

-----------------------------------------------------------------------------

\* Where the relay's frames arrive, frames of clients go on reaching the right server.
LEMMA NextKeepsRelaysToServer ==
  ASSUME IInv, RelaysToServer, "relay frame lost" \notin Upsets, [Next]_vars
  PROVE  RelaysToServer'
<1>0. /\ has \in [ClientEnd -> ServerEnd \cup {NoEnd}] /\ RestType /\ TablesInv
      /\ active \subseteq Slot
  BY DEF IInv, RestType, TablesInv, TablesType
<1>1. CASE UNCHANGED vars
  BY <1>1 DEF vars, RelaysToServer, AcEnd, CliEnd
<1>2. ASSUME Next, NEW s \in active', s \notin active
      PROVE  has'[CliEnd(s)'] = AcEnd(s)'
  <2>1. PICK a \in Server, tag \in Tag, n \in Num : OpensSlot(s, a, tag, n)
    BY <1>2, NewlyActive
  <2>2. <<a, tag>> \in requested /\ GetsPADS(s, tag, <<a, n>>)
        /\ AcEnd(s)' = <<a, n>> /\ CliEnd(s)' = <<tag.mac, s>>
    BY <2>1 DEF OpensSlot, relayHandlePADS
  <2>3. has' = [has EXCEPT ![<<tag.mac, s>>] = <<a, n>>]
    BY <2>2, RequestedTag DEF GetsPADS
  <2>4. <<tag.mac, s>> \in ClientEnd
    <3>1. s \in Slot /\ tag.mac \in Client
      <4>1. TablesType'
        BY <1>2, NextKeepsIInv DEF IInv, TablesInv
      <4> QED
        BY <1>2, <2>1, <4>1 DEF TablesType, OpensSlot
    <3> QED
      BY <3>1 DEF ClientEnd
  <2> QED
    BY <1>0, <2>2, <2>3, <2>4
<1>3. ASSUME Next, NEW s \in active', s \in active
      PROVE  has'[CliEnd(s)'] \in {NoEnd, AcEnd(s)'}
  <2> DEFINE c == CliEnd(s)
  <2>1. AcEnd(s)' = AcEnd(s) /\ CliEnd(s)' = c
    BY <1>3, ActiveKeepEnds
  <2>2. c \in ClientEnd /\ has[c] \in {NoEnd, AcEnd(s)}
    BY <1>3 DEF IInv, TablesInv, TablesType, EndInv, RelaysToServer, CliEnd, ClientEnd
  <2>3. c = <<ses[s].cli, s>>
    BY DEF CliEnd
  <2> HIDE DEF c
  <2>4. SUFFICES has'[c] \in {NoEnd, AcEnd(s)}
    BY <2>1
  <2>5. ASSUME NEW a \in Server, NEW tag \in Tag, NEW n \in Num, relayHandlePADS(a, tag, n)
        PROVE  has'[c] \in {NoEnd, AcEnd(s)}
    <3>1. CASE UNCHANGED has
      BY <2>2, <3>1
    <3>2. ASSUME NEW e \in Find(<<a, n>>), GetsPADS(e.ses, tag, <<a, n>>)
          PROVE  has'[c] \in {NoEnd, AcEnd(s)}
      <4>1. AcEnd(e.ses) = <<a, n>> /\ e.ses \in active
        <5>1. <<a, n>> \in ServerEnd
          BY DEF ServerEnd
        <5> QED
          BY <1>0, <5>1, FindServerEnd
      <4>2. CASE c = <<tag.mac, e.ses>>
        <5>1. e.ses = s
          <6>1. c[2] = s
            BY <2>3
          <6>2. c[2] = e.ses
            BY <4>2
          <6> QED
            BY <6>1, <6>2
        <5>2. AcEnd(s) = <<a, n>>
          BY <4>1, <5>1
        <5>3. CASE has' = has
          BY <2>2, <5>3
        <5>4. CASE has' = [has EXCEPT ![<<tag.mac, e.ses>>] = <<a, n>>]
          BY <1>0, <2>2, <4>2, <5>2, <5>4
        <5> QED
          BY <3>2, <5>3, <5>4 DEF GetsPADS
      <4>3. CASE c # <<tag.mac, e.ses>>
        BY <1>0, <2>2, <3>2, <4>3 DEF GetsPADS
      <4> QED
        BY <4>2, <4>3
    <3>3. ASSUME Find(<<a, n>>) = {}, HasRoom, createSession(Head(free), a, n, tag.mac),
                 GetsPADS(Head(free), tag, <<a, n>>)
          PROVE  has'[c] \in {NoEnd, AcEnd(s)}
      <4>1. tag.mac \in Client
        BY <2>5, RequestedTag DEF relayHandlePADS
      <4>2. Head(free) # s
        BY <1>0, <1>3, <3>3, <4>1, CreateKeepsTables
      <4>3. c # <<tag.mac, Head(free)>>
        BY <2>3, <4>2
      <4> QED
        BY <1>0, <2>2, <3>3, <4>3 DEF GetsPADS
    <3> QED
      BY <2>5, <3>1, <3>2, <3>3 DEF relayHandlePADS
  <2>6. ASSUME has'[c] \in {NoEnd, has[c]} PROVE has'[c] \in {NoEnd, AcEnd(s)}
    BY <2>2, <2>6
  <2>7. ASSUME NEW ends, TellEnds(ends) PROVE has'[c] \in {NoEnd, has[c]}
    BY <1>0, <2>2, <2>7, ToldEnds
  <2>8. ASSUME NEW y \in ClientEnd \cup ServerEnd, relayHandlePADT(y)
        PROVE  has'[c] \in {NoEnd, has[c]}
    BY <2>7, <2>8 DEF relayHandlePADT
  <2>9. ASSUME cleanSessions PROVE has'[c] \in {NoEnd, has[c]}
    BY <2>7, <2>9 DEF cleanSessions
  <2>10. ASSUME NEW y \in ClientEnd, ClientEnds(y) PROVE has'[c] \in {NoEnd, has[c]}
    BY <1>0, <2>2, <2>10 DEF ClientEnds
  <2>11. ASSUME UNCHANGED has PROVE has'[c] \in {NoEnd, has[c]}
    BY <2>11
  <2> QED
    BY <1>3, <2>5, <2>6, <2>8, <2>9, <2>10, <2>11
    DEF Next, relayHandlePADI, relayHandlePADO, relayHandlePADR, relayGotSessionPacket,
        ServerEnds, ServerRestarts, alarmHandler
<1>4. ASSUME Next PROVE RelaysToServer'
  <2>1. \A s \in active' : has'[CliEnd(s)'] \in {NoEnd, AcEnd(s)'}
    BY <1>2, <1>3, <1>4
  <2> QED
    BY <2>1 DEF RelaysToServer, CliEnd, AcEnd
<1> QED
  BY <1>1, <1>4

\* As long as the relay's frames arrive, the frames of a client's session go to the session
\* of the server that the client was told of.
THEOREM RelayedToServer ==
  ASSUME "relay frame lost" \notin Upsets
  PROVE  Spec => []RelaysToServer
<1>1. Init => RelaysToServer
  BY DEF Init, RelaysToServer
<1>2. IInv /\ RelaysToServer /\ [Next]_vars => RelaysToServer'
  BY NextKeepsRelaysToServer
<1> QED
  BY <1>1, <1>2, AlwaysIInv, PTL DEF Spec

-----------------------------------------------------------------------------

\* What the relay's PADTs leave to the server of a slot that a step frees: nothing.
LEMMA FreedAreTold ==
  ASSUME IInv, "relay frame lost" \notin Upsets, NEW s \in active, s \notin active', Next
  PROVE  owner'[AcEnd(s)] = NoMac
<1> DEFINE x == AcEnd(s)
<1>1. TablesInv /\ RestType /\ x \in ServerEnd
  BY DEF IInv, TablesInv, EndInv, AcEnd, ServerEnd
<1>2. \A S \in SUBSET active : FreeSessions(S) => s \in S
  BY <1>1, FreeKeepsTables
<1>3. ASSUME NEW y \in ClientEnd \cup ServerEnd, relayHandlePADT(y)
      PROVE  owner'[x] = NoMac
  <2>1. PICK e \in Find(y) : TellEnds({PeerEnd(e)}) /\ FreeSessions(Ended(e))
    BY <1>3 DEF relayHandlePADT
  <2>2. e.ses \in active
    BY <1>1, FindServerEnd, FindClientEnd
  <2>3. e.ses = s
    BY <1>2, <2>1, <2>2 DEF Ended
  <2>4. CASE y \in ServerEnd
    <3>1. y = x
      BY <1>1, <2>3, <2>4, FindServerEnd
    <3>2. owner[x] = NoMac
      BY <1>1, <1>3, <3>1 DEF IInv, PadtInv, relayHandlePADT
    <3>3. owner'[x] \in {NoMac, owner[x]}
      BY <1>1, <2>1, ToldEnds
    <3> QED
      BY <3>2, <3>3
  <2>5. CASE y \in ClientEnd
    <3>1. x \in ServerEnd \cap {PeerEnd(e)}
      BY <1>1, <2>3, <2>5, FindClientEnd
    <3> HIDE DEF x
    <3> QED
      BY <1>1, <2>1, <3>1, ToldEnds
  <2> QED
    BY <2>4, <2>5
<1>4. ASSUME cleanSessions
      PROVE  owner'[x] = NoMac
  <2>1. PICK old \in SUBSET active :
          /\ FreeSessions(old)
          /\ TellEnds({AcEnd(t) : t \in old} \cup {CliEnd(t) : t \in old})
    BY <1>4 DEF cleanSessions
  <2>2. x \in ServerEnd \cap ({AcEnd(t) : t \in old} \cup {CliEnd(t) : t \in old})
    BY <1>1, <1>2, <2>1
  <2> HIDE DEF x
  <2> QED
    BY ZenonT(40), <1>1, <2>1, <2>2, ToldEnds
<1>5. ASSUME NEW a \in Server, NEW tag \in Tag, NEW n \in Num, relayHandlePADS(a, tag, n)
      PROVE  active \subseteq active'
  BY <1>5 DEF relayHandlePADS, createSession
<1> QED
  BY <1>3, <1>4, <1>5
  DEF Next, relayHandlePADI, relayHandlePADO, relayHandlePADR, relayGotSessionPacket,
      ClientEnds, ServerEnds, SendPADT, ServerRestarts, alarmHandler

\* Where the relay's frames arrive, a server with a session keeps its slot.
LEMMA NextKeepsServersServed ==
  ASSUME IInv, ServersAreServed, "relay frame lost" \notin Upsets, [Next]_vars
  PROVE  ServersAreServed'
<1>1. CASE UNCHANGED vars
  BY <1>1 DEF vars, ServersAreServed, AcEnd
<1>2. RestType /\ TablesInv
  BY DEF IInv
<1>3. ASSUME Next, NEW x \in ServerEnd, owner'[x] # NoMac
      PROVE  \E s \in active' : AcEnd(s)' = x
  <2>1. ASSUME owner[x] # NoMac PROVE \E s \in active' : AcEnd(s)' = x
    <3>1. PICK s \in active : AcEnd(s) = x
      BY <2>1 DEF ServersAreServed
    <3>2. s \in active'
      BY <1>3, <3>1, FreedAreTold
    <3>3. AcEnd(s)' = x
      BY <1>3, <3>1, <3>2, ActiveKeepEnds
    <3> QED
      BY <3>2, <3>3
  <2>2. ASSUME NEW a \in Server, NEW tag \in Tag, NEW n \in Num, relayHandlePADS(a, tag, n),
               owner[x] = NoMac
        PROVE  \E s \in active' : AcEnd(s)' = x
    <3>1. owner \in [ServerEnd -> Client \cup {NoMac}] /\ <<a, n>> \in ServerEnd
      BY <1>2 DEF RestType, ServerEnd
    <3>2. x = <<a, n>>
      BY <1>3, <2>2, <3>1 DEF relayHandlePADS
    <3>3. CASE Find(x) # {}
      <4>1. PICK e \in Find(x) : UNCHANGED tables
        BY <2>2, <3>2, <3>3 DEF relayHandlePADS
      <4>2. e.ses \in active /\ AcEnd(e.ses) = x
        BY <1>2, <1>3, FindServerEnd
      <4>3. PICK s \in active : AcEnd(s) = x
        BY <4>2
      <4> QED
        BY <4>1, <4>3 DEF AcEnd
    <3>4. CASE Find(x) = {}
      <4>1. HasRoom
        BY <1>3, <2>2, <3>1, <3>2, <3>4 DEF relayHandlePADS
      <4>2. createSession(Head(free), a, n, tag.mac) /\ tag.mac \in Client
        BY <2>2, <3>2, <3>4, <4>1, RequestedTag DEF relayHandlePADS
      <4>3. /\ active' = active \cup {Head(free)} /\ Head(free) \in Slot
            /\ ses'[Head(free)].ac = a /\ ses'[Head(free)].acSes = n
        BY <1>2, <3>2, <3>4, <4>1, <4>2, CreateKeepsTables
      <4>4. PICK s \in Slot : s = Head(free)
        BY <4>3
      <4> QED
        BY <3>2, <4>3, <4>4 DEF AcEnd
    <3> QED
      BY <3>3, <3>4
  <2>3. ASSUME NEW ends, TellEnds(ends) PROVE owner'[x] \in {NoMac, owner[x]}
    BY <1>2, <2>3, ToldEnds
  <2>4. \/ owner'[x] \in {NoMac, owner[x]}
        \/ \E a \in Server, tag \in Tag, n \in Num : relayHandlePADS(a, tag, n)
    <3>1. owner \in [ServerEnd -> Client \cup {NoMac}]
      BY <1>2 DEF RestType
    <3>2. ASSUME NEW y \in ServerEnd, ServerEnds(y) PROVE owner'[x] \in {NoMac, owner[x]}
      BY <3>1, <3>2 DEF ServerEnds
    <3>3. ASSUME NEW a \in Server, ServerRestarts(a) PROVE owner'[x] \in {NoMac, owner[x]}
      BY <3>1, <3>3 DEF ServerRestarts
    <3>4. ASSUME NEW y \in ClientEnd \cup ServerEnd, relayHandlePADT(y)
          PROVE  owner'[x] \in {NoMac, owner[x]}
      BY <2>3, <3>4 DEF relayHandlePADT
    <3>5. ASSUME cleanSessions PROVE owner'[x] \in {NoMac, owner[x]}
      BY <2>3, <3>5 DEF cleanSessions
    <3>6. ASSUME UNCHANGED owner PROVE owner'[x] \in {NoMac, owner[x]}
      BY <3>6
    <3> QED
      BY <1>3, <3>2, <3>3, <3>4, <3>5, <3>6
      DEF Next, relayHandlePADI, relayHandlePADO, relayHandlePADR, relayGotSessionPacket,
          ClientEnds, alarmHandler
  <2> QED
    BY <1>3, <2>1, <2>2, <2>4
<1>4. ASSUME Next PROVE ServersAreServed'
  <2>1. \A x \in ServerEnd : owner'[x] # NoMac => \E s \in active' : AcEnd(s)' = x
    BY <1>3, <1>4
  <2> QED
    BY <2>1 DEF ServersAreServed, AcEnd
<1> QED
  BY <1>1, <1>4

\* As long as the relay's PADTs arrive, it tells a server of every session it has no slot for.
THEOREM ServersStayServed ==
  ASSUME "relay frame lost" \notin Upsets
  PROVE  Spec => []ServersAreServed
<1>1. Init => ServersAreServed
  BY DEF Init, ServersAreServed
<1>2. IInv /\ ServersAreServed /\ [Next]_vars => ServersAreServed'
  BY NextKeepsServersServed
<1> QED
  BY <1>1, <1>2, AlwaysIInv, PTL DEF Spec
=============================================================================

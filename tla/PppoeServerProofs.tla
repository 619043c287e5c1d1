-------------------------- MODULE PppoeServerProofs --------------------------
(***************************************************************************)
(* Safety of pppoe-server for any number of slots, clients and processes:  *)
(* types, conservation of the slots, the pairing of sessions and children, *)
(* and that the server implements the pool of session numbers.             *)
(***************************************************************************)
EXTENDS PppoeServer, ListLemmas

-----------------------------------------------------------------------------

\* The free list lists what is not busy, and the counter counts what is.
SlotInv ==
  /\ Lists(free, Slot \ busy)
  /\ active = Cardinality(busy)

\* A slot holds a client exactly while it is busy.
OwnerInv ==
  /\ \A s \in busy : ses[s].eth \in Mac
  /\ \A s \in Slot \ busy : ses[s].eth = NoMac

\* Sessions and children pair up; the children's half outlives the server.
ChildInv ==
  /\ running => \A s \in busy : /\ ses[s].pid \in Pid
                                /\ proc[ses[s].pid].stage # "none"
                                /\ proc[ses[s].pid].slot = s
  /\ \A p \in Pid : proc[p].stage # "none" => /\ proc[p].slot \in busy
                                              /\ ses[proc[p].slot].pid = p

\* FLAG_SENT_PADT of a busy slot tells the truth.
FlagInv == \A s \in busy : ses[s].sent => s \in told

IInv == TypeOK /\ SlotInv /\ OwnerInv /\ ChildInv /\ FlagInv /\ StoppedByItsClient

USE DEF slots

\* All slots are free and no child has been forked.
LEMMA InitIInv == Init => IInv
<1> SUFFICES ASSUME Init PROVE IInv
  OBVIOUS
<1>1. Lists(free, Slot)
  BY SlotAssumption, OrdersList DEF Init, Orders
<1>2. TypeOK
  BY <1>1 DEF Init, TypeOK, Session, Process, Stage, NoProcess, Lists
<1>3. SlotInv
  BY <1>1, FS_EmptySet DEF Init, SlotInv
<1>4. OwnerInv /\ ChildInv /\ FlagInv /\ StoppedByItsClient
  BY DEF Init, OwnerInv, ChildInv, FlagInv, StoppedByItsClient, NoProcess
<1> QED
  BY <1>2, <1>3, <1>4 DEF IInv

\* processPADI gives a cookie and changes nothing else.
LEMMA PADIKeepsIInv ==
  ASSUME IInv, NEW m \in Mac, processPADI(m)
  PROVE  IInv'
BY DEF IInv, TypeOK, SlotInv, OwnerInv, ChildInv, FlagInv, StoppedByItsClient, Lists,
       processPADI

\* processPADT stops a session of the client that sends it.
LEMMA PADTKeepsIInv ==
  ASSUME IInv, NEW m \in Mac, NEW s \in Slot, processPADT(m, s)
  PROVE  IInv'
<1>0. UNCHANGED <<free, busy, active, running, known>> /\ told' = told \cup {s}
  BY DEF processPADT
<1>1. ses \in [Slot -> Session] /\ proc \in [Pid -> Process] /\ busy \subseteq Slot
  BY DEF IInv, TypeOK
<1>2. ses[s].eth = m /\ s \in busy
  BY MacAssumption DEF IInv, OwnerInv, processPADT, IsOwner
<1>3. ses' = [ses EXCEPT ![s] = [@ EXCEPT !.rcvd = TRUE, !.sent = TRUE]]
  BY DEF processPADT
<1>4. /\ ses' \in [Slot -> Session]
      /\ \A x \in Slot : ses'[x].eth = ses[x].eth /\ ses'[x].pid = ses[x].pid
      /\ \A x \in Slot \ {s} : ses'[x] = ses[x]
  BY <1>1, <1>3 DEF Session
<1>5. /\ proc' \in [Pid -> Process]
      /\ \A p \in Pid : proc'[p].stage = proc[p].stage /\ proc'[p].slot = proc[p].slot
  BY ZenonT(40), <1>1 DEF processPADT, Killed, Process, Session
<1>6. TypeOK'
  BY <1>4, <1>5 DEF IInv, TypeOK, processPADT
<1>7. SlotInv' /\ OwnerInv'
  <2>1. SlotInv'
    BY <1>0 DEF IInv, SlotInv, Lists
  <2>2. OwnerInv'
    BY <1>0, <1>1, <1>4 DEF IInv, OwnerInv
  <2> QED
    BY <2>1, <2>2
<1>8. ChildInv'
  <2>1. ASSUME running, NEW x \in busy
        PROVE  /\ ses'[x].pid \in Pid
               /\ proc'[ses'[x].pid].stage # "none"
               /\ proc'[ses'[x].pid].slot = x
    BY <1>1, <1>4, <1>5, <2>1 DEF IInv, ChildInv
  <2>2. ASSUME NEW p \in Pid, proc'[p].stage # "none"
        PROVE  proc'[p].slot \in busy /\ ses'[proc'[p].slot].pid = p
    BY <1>1, <1>4, <1>5, <2>2 DEF IInv, ChildInv
  <2> QED
    BY <1>0, <2>1, <2>2 DEF ChildInv
<1>9. FlagInv'
  BY <1>0, <1>1, <1>4 DEF IInv, FlagInv
<1>10. StoppedByItsClient'
  <2>1. <<ses[s].eth, s>> \in known
    BY <1>2 DEF processPADT
  <2> QED
    BY <1>0, <1>1, <1>4, <2>1 DEF IInv, StoppedByItsClient
<1> QED
  BY <1>6, <1>7, <1>8, <1>9, <1>10 DEF IInv

\* What resetting a slot leaves in it.
LEMMA ClearedSession ==
  ASSUME NEW r \in Session
  PROVE  /\ Cleared(r) \in Session
         /\ Cleared(r).eth = NoMac
         /\ ~ Cleared(r).sent /\ ~ Cleared(r).rcvd
         /\ \A m \in Mac, p \in Pid :
              LET o == [Cleared(r) EXCEPT !.eth = m, !.pid = p]
              IN o \in Session /\ o.eth = m /\ o.pid = p /\ ~ o.sent /\ ~ o.rcvd
BY DEF Cleared, Session

\* A failed fork moves the first free slot to the end of the list.
LEMMA RefuseKeepsIInv ==
  ASSUME IInv, NEW m \in Mac, RefusePADR(m)
  PROVE  IInv'
<1> DEFINE h == Head(free)
<1>1. /\ UNCHANGED <<busy, active, proc, chld, draining, running, cookies, known, told>>
      /\ ses' = [ses EXCEPT ![h] = Cleared(@)]
      /\ free # <<>> /\ free' = Append(Tail(free), h)
  BY DEF RefusePADR, FreeAgain
<1>2. ses \in [Slot -> Session] /\ busy \subseteq Slot
  BY DEF IInv, TypeOK
<1>3. h \in Slot \ busy /\ Lists(Tail(free), (Slot \ busy) \ {h})
  BY <1>1, TailLists DEF IInv, SlotInv
<1>4. Lists(free', Slot \ busy)
  <2>1. h \in Slot \ ((Slot \ busy) \ {h})
    BY <1>3
  <2>2. Lists(Append(Tail(free), h), ((Slot \ busy) \ {h}) \cup {h})
    BY <1>3, <2>1, AppendLists
  <2>3. ((Slot \ busy) \ {h}) \cup {h} = Slot \ busy
    BY <1>3
  <2> QED
    BY <1>1, <2>2, <2>3
<1>5. /\ ses' \in [Slot -> Session]
      /\ ses'[h].eth = NoMac
      /\ \A x \in Slot \ {h} : ses'[x] = ses[x]
  BY <1>1, <1>2, <1>3, ClearedSession
<1>6. TypeOK'
  <2>1. free' \in Seq(Slot)
    BY <1>4, ListsType
  <2> QED
    BY <1>1, <1>5, <2>1 DEF IInv, TypeOK
<1>7. SlotInv'
  BY <1>1, <1>4 DEF IInv, SlotInv, Lists
<1>8. OwnerInv' /\ FlagInv' /\ StoppedByItsClient'
  BY <1>1, <1>2, <1>3, <1>5 DEF IInv, OwnerInv, FlagInv, StoppedByItsClient
<1>9. ChildInv'
  BY <1>1, <1>2, <1>3, <1>5 DEF IInv, ChildInv
<1> QED
  BY <1>6, <1>7, <1>8, <1>9 DEF IInv

\* processPADR moves the first free slot to the busy ones and gives it a child.
LEMMA PADRKeepsIInv ==
  ASSUME IInv, NEW m \in Mac, processPADR(m)
  PROVE  IInv'
<1> DEFINE h == Head(free)
<1>1. PICK p \in Pid, stage \in {"forked", "zombie"} :
        /\ proc[p].stage = "none"
        /\ proc' = [proc EXCEPT ![p] = [stage |-> stage, term |-> FALSE, slot |-> h]]
        /\ ses' = [ses EXCEPT ![h] = [Cleared(@) EXCEPT !.eth = m, !.pid = p]]
        /\ chld' = [installed |-> TRUE,
                    fired |-> chld.fired \/ (chld.installed /\ stage = "zombie")]
        /\ known' = IF stage = "zombie" THEN known \cup {<<m, h>>} ELSE known
        /\ free' = Tail(free)
        /\ busy' = busy \cup {h}
        /\ active' = active + 1
        /\ told' = told \ {h}
  BY DEF processPADR
<1>2. free # <<>> /\ UNCHANGED <<draining, running, cookies>>
  BY DEF processPADR
<1>3. /\ ses \in [Slot -> Session] /\ proc \in [Pid -> Process] /\ busy \subseteq Slot
      /\ known \subseteq Mac \X Slot /\ told \subseteq Slot
      /\ chld \in [installed : BOOLEAN, fired : BOOLEAN]
  BY DEF IInv, TypeOK
<1>4. h \in Slot \ busy /\ Lists(Tail(free), (Slot \ busy) \ {h})
  BY <1>2, TailLists DEF IInv, SlotInv
<1>5. /\ ses' \in [Slot -> Session]
      /\ ses'[h].eth = m /\ ses'[h].pid = p /\ ~ ses'[h].sent /\ ~ ses'[h].rcvd
      /\ \A x \in Slot \ {h} : ses'[x] = ses[x]
  <2> DEFINE o == [Cleared(ses[h]) EXCEPT !.eth = m, !.pid = p]
  <2>1. ses[h] \in Session
    BY <1>3, <1>4
  <2>2. o \in Session /\ o.eth = m /\ o.pid = p /\ ~ o.sent /\ ~ o.rcvd
    BY <2>1, ClearedSession
  <2>3. ses' = [ses EXCEPT ![h] = o]
    BY <1>1
  <2> HIDE DEF o
  <2> QED
    BY <1>3, <1>4, <2>2, <2>3
<1>6. /\ proc' \in [Pid -> Process]
      /\ proc'[p].stage # "none" /\ proc'[p].slot = h
      /\ \A q \in Pid \ {p} : proc'[q] = proc[q]
  BY <1>1, <1>3, <1>4 DEF Process, Stage
<1>7. SlotInv'
  <2>1. (Slot \ busy) \ {h} = Slot \ busy'
    BY <1>1
  <2>2. Lists(free', Slot \ busy')
    BY <1>1, <1>4, <2>1
  <2>3. IsFiniteSet(busy)
    BY <1>3, SlotAssumption, FS_Subset
  <2>4. Cardinality(busy') = Cardinality(busy) + 1
    BY <1>1, <1>4, <2>3, FS_AddElement
  <2> QED
    BY <1>1, <2>2, <2>4 DEF IInv, SlotInv, Lists
<1>8. TypeOK'
  <2>1. free' \in Seq(Slot) /\ busy' \subseteq Slot /\ active' \in Nat
    BY <1>1, <1>3, <1>4 DEF IInv, TypeOK, Lists
  <2>2. /\ chld' \in [installed : BOOLEAN, fired : BOOLEAN]
        /\ known' \subseteq Mac \X Slot /\ told' \subseteq Slot
    BY <1>1, <1>3, <1>4
  <2> QED
    BY <1>2, <1>5, <1>6, <2>1, <2>2 DEF IInv, TypeOK
<1>9. OwnerInv' /\ FlagInv' /\ StoppedByItsClient'
  <2>1. OwnerInv'
    BY <1>1, <1>3, <1>4, <1>5 DEF IInv, OwnerInv
  <2>2. FlagInv'
    BY <1>1, <1>3, <1>4, <1>5 DEF IInv, FlagInv
  <2>3. known \subseteq known'
    BY <1>1
  <2>4. StoppedByItsClient'
    BY <1>1, <1>3, <1>4, <1>5, <2>3 DEF IInv, StoppedByItsClient
  <2> QED
    BY <2>1, <2>2, <2>4
<1>10. ChildInv'
  <2>1. ASSUME running, NEW x \in busy'
        PROVE  /\ ses'[x].pid \in Pid
               /\ proc'[ses'[x].pid].stage # "none"
               /\ proc'[ses'[x].pid].slot = x
    BY <1>1, <1>3, <1>4, <1>5, <1>6, <2>1 DEF IInv, ChildInv
  <2>2. ASSUME NEW q \in Pid, proc'[q].stage # "none"
        PROVE  proc'[q].slot \in busy' /\ ses'[proc'[q].slot].pid = q
    BY <1>1, <1>3, <1>4, <1>5, <1>6, <2>2 DEF IInv, ChildInv
  <2> QED
    BY <1>2, <2>1, <2>2 DEF ChildInv
<1> QED
  BY <1>7, <1>8, <1>9, <1>10 DEF IInv

\* A step of a child leaves the slots alone.
LEMMA ResetKeepsIInv ==
  ASSUME IInv, NEW p \in Pid, ChildResetsSignals(p)
  PROVE  IInv'
<1>1. /\ UNCHANGED <<free, busy, active, ses, chld, draining, running, cookies, known, told>>
      /\ proc[p].stage = "forked"
      /\ proc' = [proc EXCEPT ![p] = [@ EXCEPT !.stage = "reset"]]
  BY DEF ChildResetsSignals
<1>2. proc \in [Pid -> Process] /\ busy \subseteq Slot
  BY DEF IInv, TypeOK
<1>3. /\ proc' \in [Pid -> Process]
      /\ \A q \in Pid : /\ proc'[q].slot = proc[q].slot
                       /\ proc'[q].stage # "none" <=> proc[q].stage # "none"
  BY <1>1, <1>2 DEF Process, Stage
<1>4. TypeOK'
  BY <1>1, <1>3 DEF IInv, TypeOK
<1>5. SlotInv' /\ OwnerInv' /\ FlagInv' /\ StoppedByItsClient'
  BY <1>1 DEF IInv, SlotInv, Lists, OwnerInv, FlagInv, StoppedByItsClient
<1>6. ChildInv'
  BY <1>1, <1>3 DEF IInv, ChildInv
<1> QED
  BY <1>4, <1>5, <1>6 DEF IInv

\* The child starts pppd, and its client learns of the session.
LEMMA StartKeepsIInv ==
  ASSUME IInv, NEW p \in Pid, ChildStartsPPPD(p)
  PROVE  IInv'
<1> DEFINE s == proc[p].slot
<1>1. /\ UNCHANGED <<free, busy, active, ses, chld, draining, running, cookies, told>>
      /\ proc[p].stage = "reset"
      /\ proc' = [proc EXCEPT ![p] = [@ EXCEPT !.stage = "pppd"]]
      /\ known' = known \cup {<<ses[s].eth, s>>}
  BY DEF ChildStartsPPPD
<1>2. proc \in [Pid -> Process] /\ busy \subseteq Slot /\ known \subseteq Mac \X Slot
  BY DEF IInv, TypeOK
<1>3. /\ proc' \in [Pid -> Process]
      /\ \A q \in Pid : /\ proc'[q].slot = proc[q].slot
                       /\ proc'[q].stage # "none" <=> proc[q].stage # "none"
  BY <1>1, <1>2 DEF Process, Stage
<1>4. s \in busy /\ ses[s].eth \in Mac
  BY <1>1 DEF IInv, ChildInv, OwnerInv
<1>5. known' \subseteq Mac \X Slot
  BY <1>1, <1>2, <1>4
<1>6. TypeOK'
  BY <1>1, <1>3, <1>5 DEF IInv, TypeOK
<1>7. SlotInv' /\ OwnerInv' /\ FlagInv' /\ StoppedByItsClient'
  BY <1>1 DEF IInv, SlotInv, Lists, OwnerInv, FlagInv, StoppedByItsClient
<1>8. ChildInv'
  BY <1>1, <1>3 DEF IInv, ChildInv
<1> QED
  BY <1>6, <1>7, <1>8 DEF IInv

\* A child exits and SIGCHLD is marked.
LEMMA ExitKeepsIInv ==
  ASSUME IInv, NEW p \in Pid, ChildExits(p)
  PROVE  IInv'
<1>1. /\ UNCHANGED <<free, busy, active, ses, draining, running, cookies, known, told>>
      /\ proc[p].stage \in {"reset", "pppd"}
      /\ proc' = [proc EXCEPT ![p] = IF running THEN [@ EXCEPT !.stage = "zombie"]
                                                 ELSE NoProcess]
      /\ chld' = [chld EXCEPT !.fired = @ \/ (running /\ chld.installed)]
  BY DEF ChildExits
<1>2. /\ proc \in [Pid -> Process] /\ busy \subseteq Slot
      /\ chld \in [installed : BOOLEAN, fired : BOOLEAN]
  BY DEF IInv, TypeOK
<1>3. /\ proc' \in [Pid -> Process]
      /\ chld' \in [installed : BOOLEAN, fired : BOOLEAN]
      /\ \A q \in Pid : proc'[q].stage # "none" => /\ proc'[q].slot = proc[q].slot
                                                  /\ proc[q].stage # "none"
      /\ running => \A q \in Pid : /\ proc'[q].slot = proc[q].slot
                                   /\ proc[q].stage # "none" => proc'[q].stage # "none"
  BY <1>1, <1>2 DEF Process, Stage, NoProcess
<1>4. TypeOK'
  BY <1>1, <1>3 DEF IInv, TypeOK
<1>5. SlotInv' /\ OwnerInv' /\ FlagInv' /\ StoppedByItsClient'
  BY <1>1 DEF IInv, SlotInv, Lists, OwnerInv, FlagInv, StoppedByItsClient
<1>6. ChildInv'
  BY <1>1, <1>3 DEF IInv, ChildInv
<1> QED
  BY <1>4, <1>5, <1>6 DEF IInv

\* handle_set_drain.
LEMMA DrainKeepsIInv ==
  ASSUME IInv, SetDrain
  PROVE  IInv'
BY DEF IInv, TypeOK, SlotInv, OwnerInv, ChildInv, FlagInv, StoppedByItsClient, Lists,
       SetDrain

\* killAllSessions changes flags and signals children, no more.
LEMMA ShutdownKeepsIInv ==
  ASSUME IInv, Shutdown
  PROVE  IInv'
<1>1. /\ UNCHANGED <<free, busy, active, chld, draining, cookies, known>>
      /\ running' = FALSE
      /\ told' = told \cup busy
      /\ ses' = [s \in Slot |-> IF s \in busy THEN [ses[s] EXCEPT !.sent = TRUE] ELSE ses[s]]
      /\ proc' = [p \in Pid |-> IF \E s \in busy : ses[s].pid = p THEN Killed(proc[p])
                                                             ELSE proc[p]]
  BY DEF Shutdown, StopSessions
<1>2. /\ ses \in [Slot -> Session] /\ proc \in [Pid -> Process]
      /\ busy \subseteq Slot /\ told \subseteq Slot
  BY DEF IInv, TypeOK
<1>3. /\ ses' \in [Slot -> Session]
      /\ \A s \in Slot : /\ ses'[s].eth = ses[s].eth /\ ses'[s].pid = ses[s].pid
                        /\ ses'[s].rcvd = ses[s].rcvd
  BY <1>1, <1>2 DEF Session
<1>4. /\ proc' \in [Pid -> Process]
      /\ \A p \in Pid : proc'[p].stage = proc[p].stage /\ proc'[p].slot = proc[p].slot
  BY <1>1, <1>2 DEF Process, Killed
<1>5. TypeOK'
  BY <1>1, <1>2, <1>3, <1>4 DEF IInv, TypeOK
<1>6. SlotInv'
  BY <1>1 DEF IInv, SlotInv, Lists
<1>7. OwnerInv' /\ FlagInv' /\ StoppedByItsClient'
  BY <1>1, <1>2, <1>3 DEF IInv, OwnerInv, FlagInv, StoppedByItsClient
<1>8. ChildInv'
  <2>1. running' = FALSE /\ busy' = busy
    BY <1>1
  <2>2. ASSUME NEW p \in Pid, proc'[p].stage # "none"
        PROVE  proc'[p].slot \in busy /\ ses'[proc'[p].slot].pid = p
    <3>1. /\ proc[p].stage # "none" /\ proc'[p].slot = proc[p].slot
      BY <1>4, <2>2
    <3>2. proc[p].slot \in busy /\ ses[proc[p].slot].pid = p
      BY <3>1 DEF IInv, ChildInv
    <3> QED
      BY <1>2, <1>3, <3>1, <3>2
  <2> QED
    BY <2>1, <2>2 DEF ChildInv
<1> QED
  BY <1>5, <1>6, <1>7, <1>8 DEF IInv

\* The childHandler of every dead child: its slot goes back to the free list.
LEMMA ReapKeepsIInv ==
  ASSUME IInv, ReapChildren
  PROVE  IInv'
<1> DEFINE ended == EndedSlots
<1>1. PICK order \in Orders(ended) : free' = free \o order
  BY DEF ReapChildren
<1>2. /\ running
      /\ chld' = [chld EXCEPT !.fired = FALSE]
      /\ busy' = busy \ ended
      /\ active' = active - Cardinality(ended)
      /\ ses' = [s \in Slot |-> IF s \in ended THEN Cleared(ses[s]) ELSE ses[s]]
      /\ told' = told \cup {s \in ended : ~ ses[s].sent}
      /\ proc' = [p \in Pid |-> IF p \in Zombies THEN NoProcess ELSE proc[p]]
      /\ UNCHANGED <<draining, running, cookies, known>>
  BY DEF ReapChildren
<1>3. /\ ses \in [Slot -> Session] /\ proc \in [Pid -> Process] /\ busy \subseteq Slot
      /\ chld \in [installed : BOOLEAN, fired : BOOLEAN] /\ told \subseteq Slot
  BY DEF IInv, TypeOK
<1>4. ended \subseteq busy /\ ended \in SUBSET Slot
  BY <1>3 DEF EndedSlots
<1>5. \A p \in Pid : proc[p].stage = "zombie" => proc[p].slot \in ended
  BY DEF EndedSlots, Zombies, IInv, ChildInv
<1>6. \A s \in ended : \E p \in Pid : proc[p].stage = "zombie" /\ proc[p].slot = s
  BY DEF EndedSlots, Zombies
<1> HIDE DEF ended
<1>7. SlotInv'
  <2>1. Lists(order, ended)
    BY <1>4, SlotAssumption, FS_Subset, OrdersList DEF Orders
  <2>2. Lists(free', (Slot \ busy) \cup ended)
    BY <1>1, <1>4, <2>1, ConcatLists DEF IInv, SlotInv
  <2>3. (Slot \ busy) \cup ended = Slot \ busy'
    BY <1>2, <1>4
  <2>4. IsFiniteSet(busy) /\ busy \cap ended = ended
    BY <1>3, <1>4, SlotAssumption, FS_Subset
  <2>5. Cardinality(busy') = Cardinality(busy) - Cardinality(ended)
    <3>1. Cardinality(busy \ ended) = Cardinality(busy) - Cardinality(busy \cap ended)
      BY <2>4, FS_Difference
    <3> QED
      BY <1>2, <2>4, <3>1
  <2> QED
    BY <1>2, <2>2, <2>3, <2>5 DEF IInv, SlotInv, Lists
<1>8. /\ ses' \in [Slot -> Session]
      /\ \A s \in ended : ses'[s].eth = NoMac
      /\ \A s \in Slot \ ended : ses'[s] = ses[s]
  BY <1>2, <1>3, <1>4, ClearedSession
<1>9. /\ proc' \in [Pid -> Process]
      /\ \A p \in Pid : IF proc[p].stage = "zombie" THEN proc'[p].stage = "none"
                                                  ELSE proc'[p] = proc[p]
  BY <1>2, <1>3 DEF Zombies, NoProcess, Process, Stage
<1>10. TypeOK'
  <2>1. free' \in Seq(Slot)
    BY <1>7 DEF SlotInv, Lists
  <2>2. IsFiniteSet(busy')
    BY <1>2, <1>3, SlotAssumption, FS_Subset
  <2>3. active' \in Nat
    BY <1>7, <2>2, FS_CardinalityType DEF SlotInv
  <2>4. /\ busy' \subseteq Slot /\ told' \subseteq Slot
        /\ chld' \in [installed : BOOLEAN, fired : BOOLEAN]
    BY <1>2, <1>3, <1>4
  <2> QED
    BY <1>2, <1>8, <1>9, <2>1, <2>3, <2>4 DEF IInv, TypeOK
<1>11. OwnerInv'
  BY <1>2, <1>3, <1>4, <1>8 DEF IInv, OwnerInv
<1>12. FlagInv' /\ StoppedByItsClient'
  BY <1>2, <1>3, <1>4, <1>8 DEF IInv, FlagInv, StoppedByItsClient
<1>13. ChildInv'
  <2>1. ASSUME NEW s \in busy'
        PROVE  /\ ses'[s].pid \in Pid
               /\ proc'[ses'[s].pid].stage # "none"
               /\ proc'[ses'[s].pid].slot = s
    <3>1. s \in busy /\ s \notin ended /\ ses'[s] = ses[s]
      BY <1>2, <1>3, <1>8, <2>1
    <3>2. ses[s].pid \in Pid /\ proc[ses[s].pid].stage # "none" /\ proc[ses[s].pid].slot = s
      BY <1>2, <3>1 DEF IInv, ChildInv
    <3>3. proc[ses[s].pid].stage # "zombie"
      BY <1>5, <3>1, <3>2
    <3> QED
      BY <1>9, <3>1, <3>2, <3>3
  <2>2. ASSUME NEW p \in Pid, proc'[p].stage # "none"
        PROVE  proc'[p].slot \in busy' /\ ses'[proc'[p].slot].pid = p
    <3>1. proc[p].stage # "zombie" /\ proc'[p] = proc[p] /\ proc[p].stage # "none"
      BY <1>9, <2>2
    <3>2. proc[p].slot \in busy /\ ses[proc[p].slot].pid = p
      BY <3>1 DEF IInv, ChildInv
    <3>3. proc[p].slot \notin ended
      <4>1. SUFFICES ASSUME proc[p].slot \in ended PROVE FALSE
        OBVIOUS
      <4>2. PICK q \in Pid : proc[q].stage = "zombie" /\ proc[q].slot = proc[p].slot
        BY <1>6, <4>1
      <4>3. ses[proc[q].slot].pid = q
        BY <4>2 DEF IInv, ChildInv
      <4> QED
        BY <3>1, <3>2, <4>2, <4>3
    <3> QED
      BY <1>2, <1>3, <1>8, <3>1, <3>2, <3>3
  <2> QED
    BY <2>1, <2>2 DEF ChildInv
<1> QED
  BY <1>7, <1>10, <1>11, <1>12, <1>13 DEF IInv

\* Every step keeps the invariant.
LEMMA NextKeepsIInv == IInv /\ [Next]_vars => IInv'
<1> SUFFICES ASSUME IInv, [Next]_vars PROVE IInv'
  OBVIOUS
<1>1. ASSUME NEW m \in Mac, processPADI(m) PROVE IInv'
  BY <1>1, PADIKeepsIInv
<1>2. ASSUME NEW m \in Mac, processPADR(m) PROVE IInv'
  BY <1>2, PADRKeepsIInv
<1>3. ASSUME NEW m \in Mac, RefusePADR(m) PROVE IInv'
  BY <1>3, RefuseKeepsIInv
<1>4. ASSUME NEW m \in Mac, NEW s \in Slot, processPADT(m, s) PROVE IInv'
  BY <1>4, PADTKeepsIInv
<1>5. ASSUME NEW p \in Pid, ChildResetsSignals(p) PROVE IInv'
  BY <1>5, ResetKeepsIInv
<1>6. ASSUME NEW p \in Pid, ChildStartsPPPD(p) PROVE IInv'
  BY <1>6, StartKeepsIInv
<1>7. ASSUME NEW p \in Pid, ChildExits(p) PROVE IInv'
  BY <1>7, ExitKeepsIInv
<1>8. ASSUME ReapChildren PROVE IInv'
  BY <1>8, ReapKeepsIInv
<1>9. ASSUME SetDrain PROVE IInv'
  BY <1>9, DrainKeepsIInv
<1>10. ASSUME QuitWhenDrained \/ termHandler PROVE IInv'
  BY <1>10, ShutdownKeepsIInv DEF QuitWhenDrained, termHandler
<1>11. ASSUME UNCHANGED vars PROVE IInv'
  BY <1>11 DEF vars, IInv, TypeOK, SlotInv, Lists, OwnerInv, ChildInv, FlagInv,
               StoppedByItsClient
<1> QED
  BY <1>1, <1>2, <1>3, <1>4, <1>5, <1>6, <1>7, <1>8, <1>9, <1>10, <1>11 DEF Next

\* The invariant holds always.
LEMMA AlwaysIInv == Spec => []IInv
BY InitIInv, NextKeepsIInv, PTL DEF Spec

-----------------------------------------------------------------------------

\* The variables of pppoe-server keep their types.
THEOREM TypeCorrect == Spec => []TypeOK
<1>1. IInv => TypeOK
  BY DEF IInv
<1> QED
  BY <1>1, AlwaysIInv, PTL

\* pppoe_alloc_session and pppoe_free_session never lose or duplicate a slot.
THEOREM SlotsAreConserved == Spec => []SlotsConserved
<1>1. IInv => SlotsConserved
  <2>1. SUFFICES ASSUME IInv PROVE SlotsConserved
    OBVIOUS
  <2>2. Lists(free, Slot \ busy) /\ active = Cardinality(busy) /\ busy \subseteq Slot
    BY <2>1 DEF IInv, SlotInv, TypeOK
  <2>3. DOMAIN free = 1 .. Len(free)
    BY <2>2, LenProperties DEF Lists
  <2> QED
    BY <2>2, <2>3 DEF SlotsConserved, Lists
<1> QED
  BY <1>1, AlwaysIInv, PTL

\* kill (ses->pid) only ever reaches the child of the session.
THEOREM ChildrenPairWithSessions == Spec => []ChildPerSession
<1>1. IInv => ChildPerSession
  BY DEF IInv, ChildInv, ChildPerSession
<1> QED
  BY <1>1, AlwaysIInv, PTL

\* processPADT stops a session only for a client that was given its number.
THEOREM OnlyClientsStop == Spec => []StoppedByItsClient
<1>1. IInv => StoppedByItsClient
  BY DEF IInv
<1> QED
  BY <1>1, AlwaysIInv, PTL

\* childHandler sends a PADT for every session it frees, unless one was sent before.
THEOREM SessionsEndWithPADT == Spec => NoSilentEnd
<1>1. IInv /\ [Next]_vars => [\A s \in busy : s \in busy' \/ s \in told']_vars
  <2>1. SUFFICES ASSUME IInv, Next, NEW s \in busy, s \notin busy'
                 PROVE  s \in told'
    OBVIOUS
  <2>2. ReapChildren
    BY <2>1 DEF Next, processPADI, processPADR, RefusePADR, processPADT, ChildResetsSignals,
                ChildStartsPPPD, ChildExits, SetDrain, QuitWhenDrained, termHandler, Shutdown
  <2>3. s \in EndedSlots /\ told' = told \cup {x \in EndedSlots : ~ ses[x].sent}
    BY <2>1, <2>2 DEF ReapChildren
  <2>4. ses[s].sent => s \in told
    BY <2>1 DEF IInv, FlagInv
  <2> QED
    BY <2>3, <2>4
<1> QED
  BY <1>1, AlwaysIInv, PTL DEF Spec, NoSilentEnd

\* Each step opens one session for a client below its limit, ends some, or changes no
\* owner at all.
THEOREM ImplementsSessionPool == Spec => ImplementsPool
<1> DEFINE owner == [s \in Slot |-> ses[s].eth]
<1>1. Init => Pool!Init
  BY DEF Init, Pool!Init
<1>2. ASSUME IInv, [Next]_vars
      PROVE  [Pool!Next]_(owner)
  <2> USE <1>2
  <2>1. ses \in [Slot -> Session] /\ busy \subseteq Slot
    BY DEF IInv, TypeOK
  <2>2. ASSUME NEW m \in Mac, processPADR(m) PROVE Pool!Next
    <3> DEFINE h == Head(free)
    <3>1. PICK p \in Pid : ses' = [ses EXCEPT ![h] = [Cleared(@) EXCEPT !.eth = m, !.pid = p]]
      BY <2>2 DEF processPADR
    <3>2. free # <<>> /\ BelowLimit(m)
      BY <2>2 DEF processPADR
    <3>3. h \in Slot \ busy
      BY <3>2, TailLists DEF IInv, SlotInv
    <3>4. owner[h] = NoMac
      BY <3>3 DEF IInv, OwnerInv
    <3>5. Pool!Held(m) = SessionsOf(m)
      BY <2>1, MacAssumption DEF Pool!Held, SessionsOf, IInv, OwnerInv
    <3>6. owner' = [owner EXCEPT ![h] = m]
      <4>1. ses'[h].eth = m
        BY <2>1, <3>1, <3>3 DEF Cleared, Session
      <4>2. \A s \in Slot \ {h} : ses'[s] = ses[s]
        BY <2>1, <3>1, <3>3
      <4> QED
        BY <3>3, <4>1, <4>2
    <3>7. Pool!Open(h, m)
      <4>1. Pool!Cardinality(Pool!Held(m)) = Cardinality(SessionsOf(m))
        BY <3>5 DEF Pool!Cardinality, Cardinality   \* the same definition, instantiated
      <4> QED
        BY <3>2, <3>4, <3>6, <4>1 DEF Pool!Open, BelowLimit
    <3> QED
      BY <3>3, <3>7 DEF Pool!Next
  <2>3. ASSUME ReapChildren PROVE Pool!Next
    <3>1. PICK S \in SUBSET Slot : S = EndedSlots
      BY <2>1 DEF EndedSlots
    <3>2. ses' = [s \in Slot |-> IF s \in S THEN Cleared(ses[s]) ELSE ses[s]]
      BY <2>3, <3>1 DEF ReapChildren
    <3>3. \A s \in S : owner[s] # NoMac
      BY <2>1, <3>1, MacAssumption DEF EndedSlots, IInv, OwnerInv
    <3>4. owner' = [s \in Slot |-> IF s \in S THEN NoMac ELSE owner[s]]
      <4>1. \A s \in Slot : ses'[s].eth = IF s \in S THEN NoMac ELSE ses[s].eth
        BY <2>1, <3>2, ClearedSession
      <4> QED
        BY <4>1
    <3>5. Pool!Close(S)
      BY <3>3, <3>4 DEF Pool!Close
    <3> QED
      BY <3>5 DEF Pool!Next
  <2>4. ASSUME NEW m \in Mac, RefusePADR(m) PROVE UNCHANGED owner
    <3> DEFINE h == Head(free)
    <3>1. ses' = [ses EXCEPT ![h] = Cleared(@)] /\ free # <<>>
      BY <2>4 DEF RefusePADR
    <3>2. h \in Slot \ busy
      BY <3>1, TailLists DEF IInv, SlotInv
    <3>3. ses[h].eth = NoMac
      BY <3>2 DEF IInv, OwnerInv
    <3> QED
      BY <2>1, <3>1, <3>2, <3>3, ClearedSession
  <2>5. ASSUME NEW m \in Mac, NEW s \in Slot, processPADT(m, s) PROVE UNCHANGED owner
    BY <2>1, <2>5 DEF processPADT, Session
  <2>6. ASSUME Shutdown PROVE UNCHANGED owner
    BY <2>1, <2>6 DEF Shutdown, StopSessions, Session
  <2>7. ASSUME UNCHANGED ses PROVE UNCHANGED owner
    BY <2>7
  <2> QED
    BY <2>2, <2>3, <2>4, <2>5, <2>6, <2>7
    DEF Next, vars, processPADI, ChildResetsSignals, ChildStartsPPPD, ChildExits, SetDrain,
        QuitWhenDrained, termHandler
<1> QED
  BY <1>1, <1>2, AlwaysIInv, PTL DEF Spec, ImplementsPool, Pool!Spec

\* Shutdown kills every child that listens to it, for each belongs to a busy slot; main's
\* test of NumActiveSessions misses none.
THEOREM ServerEndsWithItsChildren == Spec => EndsWithItsChildren
<1>1. ASSUME IInv, Next, running, ~ running', NEW p \in Pid,
             proc[p].stage \notin {"none", "zombie"}
      PROVE  proc'[p].term \/ ForkedUnderSIGTERM(p)
  <2>1. CASE QuitWhenDrained
    <3>1. Cardinality(busy) = 0 /\ IsFiniteSet(busy)
      BY <1>1, <2>1, SlotAssumption, FS_Subset
      DEF QuitWhenDrained, Drained, IInv, SlotInv, TypeOK
    <3>2. busy = {}
      BY <3>1, FS_EmptySet
    <3> QED
      BY <1>1, <3>2 DEF IInv, ChildInv
  <2>2. CASE termHandler /\ Drained
    <3>1. QuitWhenDrained
      BY <2>2 DEF termHandler, QuitWhenDrained
    <3> QED
      BY <2>1, <3>1
  <2>3. CASE termHandler /\ ~ Drained
    <3>1. Shutdown
      BY <2>3 DEF termHandler
    <3>2. proc[p].slot \in busy /\ ses[proc[p].slot].pid = p
      BY <1>1 DEF IInv, ChildInv
    <3>3. proc'[p] = Killed(proc[p])
      BY <3>1, <3>2 DEF Shutdown, StopSessions
    <3>4. proc[p].stage \in {"forked", "reset", "pppd"} /\ proc[p] \in Process
      BY <1>1 DEF IInv, TypeOK, Process, Stage
    <3>5. CASE proc[p].stage = "forked"
      BY <2>3, <3>5 DEF ForkedUnderSIGTERM
    <3>6. CASE proc[p].stage \in {"reset", "pppd"}
      BY <3>3, <3>4, <3>6 DEF Killed, Process
    <3> QED
      BY <3>4, <3>5, <3>6
  <2>4. QuitWhenDrained \/ termHandler
    BY <1>1 DEF Next, processPADI, processPADR, RefusePADR, processPADT, ChildResetsSignals,
                ChildStartsPPPD, ChildExits, ReapChildren, SetDrain
  <2> QED
    BY <2>1, <2>2, <2>3, <2>4
<1>2. ASSUME IInv, Next, running, ~ running', NEW p \in Pid
      PROVE  \/ proc'[p].stage \in {"none", "zombie"}
             \/ proc'[p].term
             \/ ForkedUnderSIGTERM(p)
  <2>1. CASE proc[p].stage \in {"none", "zombie"}
    <3>1. Shutdown
      BY <1>2 DEF Next, processPADI, processPADR, RefusePADR, processPADT, ChildResetsSignals,
                  ChildStartsPPPD, ChildExits, ReapChildren, SetDrain, termHandler,
                  QuitWhenDrained
    <3>2. proc'[p] \in {proc[p], Killed(proc[p])}
      BY <3>1 DEF Shutdown, StopSessions
    <3>3. Killed(proc[p]) = proc[p]
      BY <2>1 DEF Killed
    <3> QED
      BY <2>1, <3>2, <3>3
  <2> QED
    BY <1>1, <1>2, <2>1
<1>3. IInv /\ [Next]_vars =>
        [running /\ ~ running' =>
           \A p \in Pid : \/ proc'[p].stage \in {"none", "zombie"}
                         \/ proc'[p].term
                         \/ ForkedUnderSIGTERM(p)]_vars
  BY <1>2
<1> QED
  BY <1>3, AlwaysIInv, PTL DEF Spec, EndsWithItsChildren
=============================================================================

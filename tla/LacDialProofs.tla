----------------------------- MODULE LacDialProofs -----------------------------
(***************************************************************************)
(* Safety of dialling, for any LACs, timeouts, limits and commands.  The   *)
(* invariant is a predicate of a world, the record the handlers work on, so *)
(* that a lemma per operator can say what it does to any world; an action  *)
(* then only strings operators together.                                   *)
(***************************************************************************)
EXTENDS LacDial, ListLemmas

\* The type of a world.
WorldT == [lac : [Lac -> LacType], tun : [Lac -> Phase], call : [CallId -> CallType],
           events : Seq(Event)]

-----------------------------------------------------------------------------
(* The inductive invariant.                                                  *)

\* The queue is in order, and nothing is due later than it was scheduled for.
Timely(q) ==
  /\ \A i \in DOMAIN q : q[i].in <= Rtimeout[q[i].lac]
  /\ \A i, j \in DOMAIN q : i < j => q[i].in <= q[j].in

\* A call that exists is on a tunnel that exists, and its LAC is that of the tunnel or none.
CallsValid(w) ==
  \A c \in CallId :
    /\ w.call[c].state = "off" <=> w.call[c].on = NoLac
    /\ w.call[c].lac \in {NoLac, w.call[c].on}
    /\ w.call[c].on # NoLac => w.tun[w.call[c].on] # "none"

\* A LAC points at a call of its own; one with a tunnel, or an active one, was not removed.
LacsValid(w) ==
  \A l \in Lac :
    /\ w.lac[l].c # 0 => w.call[w.lac[l].c].lac = l
    /\ w.tun[l] # "none" => w.lac[l].listed
    /\ w.lac[l].active => w.lac[l].listed

Valid(w) == w \in WorldT /\ Timely(w.events) /\ CallsValid(w) /\ LacsValid(w)

\* A redial of l is in the queue; l has a call of its own.
Due(w, l)     == \E i \in DOMAIN w.events : w.events[i].lac = l /\ ~ w.events[i].stale
Calling(w, l) == \E c \in CallId : w.call[c].lac = l

\* Where an active LAC believes that a redial is due, one is; NeverStranded, of a world; and
\* a LAC that is not active has no call.
Sched(w, l) == w.lac[l].active /\ w.lac[l].rsched => Due(w, l)
Kept(w, l) ==
  l \in Redial /\ w.lac[l].active /\ Rtimeout[l] > 0 /\ Rmax[l] = 0
    => Due(w, l) \/ w.tun[l] \in {"SCCRQ", "closing"} \/ Calling(w, l)
Idle(w, l)  == ~ w.lac[l].active => ~ Calling(w, l)
Alive(w, l) == Sched(w, l) /\ Kept(w, l) /\ Idle(w, l)

IInv == Valid(World) /\ \A l \in Lac : Alive(World, l)

\* What an operator does to a world w at l: it makes no LAC active or inactive, and opens a
\* tunnel only for an active one; and at the LACs it is not about it keeps what was good.
Quiet(w, v, l) ==
  /\ v.lac[l].active = w.lac[l].active
  /\ w.tun[l] = "none" => v.tun[l] = "none" \/ v.lac[l].active
Follows(w, v) == \A l \in Lac : Quiet(w, v, l) /\ (Alive(w, l) => Alive(v, l))

-----------------------------------------------------------------------------
(* Sequences.                                                                *)

\* A sequence with an element put in at a position.
LEMMA InsertAtIs ==
  ASSUME NEW E, NEW q \in Seq(E), NEW e \in E, NEW k \in 1 .. (Len(q) + 1)
  PROVE  /\ InsertAt(q, k, e) \in Seq(E) /\ Len(InsertAt(q, k, e)) = Len(q) + 1
         /\ \A i \in 1 .. (Len(q) + 1) :
              InsertAt(q, k, e)[i] = IF i < k THEN q[i] ELSE IF i = k THEN e ELSE q[i - 1]
<1> DEFINE a == SubSeq(q, 1, k - 1)
           b == <<e>>
           c == SubSeq(q, k, Len(q))
<1>0. Len(q) \in Nat /\ k \in Nat /\ k >= 1 /\ k - 1 <= Len(q)
  BY LenProperties
<1>1. a \in Seq(E) /\ Len(a) = k - 1 /\ \A i \in 1 .. (k - 1) : a[i] = q[i]
  <2>1. \A i \in 1 .. (k - 1) : q[i] \in E
    BY <1>0, ElementOfSeq
  <2> QED
    BY <1>0, <2>1, SubSeqProperties
<1>2. b \in Seq(E) /\ Len(b) = 1 /\ b[1] = e
  OBVIOUS
<1>3. c \in Seq(E) /\ Len(c) = Len(q) - k + 1 /\ \A i \in 1 .. (Len(q) - k + 1) : c[i] = q[k + i - 1]
  <2>1. \A i \in k .. Len(q) : q[i] \in E
    BY <1>0, ElementOfSeq
  <2> QED
    BY <1>0, <2>1, SubSeqProperties
<1>4. InsertAt(q, k, e) = (a \o b) \o c
  BY DEF InsertAt
<1> HIDE DEF a, b, c
<1>5. a \o b \in Seq(E) /\ Len(a \o b) = k /\ \A i \in 1 .. k : (a \o b)[i] = IF i < k THEN q[i] ELSE e
  <2>1. a \o b \in Seq(E) /\ Len(a \o b) = Len(a) + Len(b)
    BY <1>1, <1>2, ConcatProperties
  <2>2. \A i \in 1 .. Len(a) + Len(b) : (a \o b)[i] = IF i <= Len(a) THEN a[i] ELSE b[i - Len(a)]
    BY <1>1, <1>2, ConcatProperties
  <2> QED
    BY <1>0, <1>1, <1>2, <2>1, <2>2
<1>6. (a \o b) \o c \in Seq(E) /\ Len((a \o b) \o c) = Len(q) + 1
  <2>1. (a \o b) \o c \in Seq(E) /\ Len((a \o b) \o c) = Len(a \o b) + Len(c)
    BY <1>3, <1>5, ConcatProperties
  <2> QED
    BY SMTT(30), <1>0, <1>3, <1>5, <2>1
<1>7. \A i \in 1 .. Len(q) + 1 : ((a \o b) \o c)[i] = IF i <= k THEN (a \o b)[i] ELSE c[i - k]
  BY SMTT(30), <1>0, <1>3, <1>5, ConcatProperties
<1>8. \A i \in 1 .. (Len(q) + 1) : k < i => c[i - k] = q[i - 1]
  <2> SUFFICES ASSUME NEW i \in 1 .. (Len(q) + 1), k < i PROVE c[i - k] = q[i - 1]
    OBVIOUS
  <2>1. i - k \in 1 .. (Len(q) - k + 1) /\ k + (i - k) - 1 = i - 1
    BY <1>0
  <2> QED
    BY <1>3, <2>1
<1> QED
  BY <1>0, <1>4, <1>5, <1>6, <1>7, <1>8

\* schedule (scheduler.c) keeps the queue in order, and loses nothing.
LEMMA ScheduleIs ==
  ASSUME NEW q \in Seq(Event), Timely(q), NEW e \in Event, e.in <= Rtimeout[e.lac], e.lac \in Lac
  PROVE  /\ schedule(q, e) \in Seq(Event) /\ Timely(schedule(q, e))
         /\ \E i \in DOMAIN schedule(q, e) : schedule(q, e)[i] = e
         /\ \A i \in DOMAIN q : \E j \in DOMAIN schedule(q, e) : schedule(q, e)[j] = q[i]
<1> DEFINE later == {i \in DOMAIN q : e.in < q[i].in}
           k == IF later = {} THEN Len(q) + 1 ELSE Min(later)
           s == schedule(q, e)
<1>0. /\ DOMAIN q = 1 .. Len(q) /\ Len(q) \in Nat /\ e.in \in Nat
      /\ \A i \in DOMAIN q : q[i] \in Event /\ q[i].in \in Nat
  <2>1. DOMAIN q = 1 .. Len(q) /\ Len(q) \in Nat /\ \A i \in DOMAIN q : q[i] \in Event
    BY LenProperties, ElementOfSeq
  <2>2. \A x \in Event : x.in \in Nat
    BY DEF Event
  <2> QED
    BY <2>1, <2>2
<1>1. /\ k \in 1 .. (Len(q) + 1)
      /\ \A i \in DOMAIN q : i < k => q[i].in <= e.in
      /\ \A i \in DOMAIN q : k <= i => e.in < q[i].in
  <2>1. later \subseteq Nat /\ later \subseteq DOMAIN q /\ \A i \in DOMAIN q : i \in later <=> e.in < q[i].in
    BY <1>0
  <2>2. k = IF later = {} THEN Len(q) + 1 ELSE Min(later)
    OBVIOUS
  <2> HIDE DEF later, k
  <2>3. CASE later = {}
    BY <1>0, <2>1, <2>2, <2>3
  <2>4. CASE later # {}
    <3>1. k \in later /\ \A x \in later : k <= x
      BY <2>1, <2>2, <2>4, MinIs
    <3>0. k \in DOMAIN q /\ k \in 1 .. Len(q) /\ e.in < q[k].in
      BY <1>0, <2>1, <3>1
    <3>3. ASSUME NEW i \in DOMAIN q, k <= i PROVE e.in < q[i].in
      <4>1. k = i \/ k < i
        BY <1>0, <3>0, <3>3
      <4>2. k < i => q[k].in <= q[i].in
        BY <3>0 DEF Timely
      <4>3. q[k].in \in Nat /\ q[i].in \in Nat
        BY <1>0, <3>0
      <4> QED
        BY <1>0, <3>0, <4>1, <4>2, <4>3
    <3>4. ASSUME NEW i \in DOMAIN q, i < k PROVE q[i].in <= e.in
      <4>1. i \notin later
        BY <1>0, <3>0, <3>1, <3>4
      <4>2. ~ (e.in < q[i].in) /\ q[i].in \in Nat
        BY <1>0, <2>1, <4>1
      <4> QED
        BY <1>0, <4>2
    <3> QED
      BY <1>0, <3>0, <3>3, <3>4
  <2> QED
    BY <2>3, <2>4
<1>2. s = InsertAt(q, k, e)
  BY DEF schedule
<1> HIDE DEF k, s
<1>3. /\ s \in Seq(Event) /\ DOMAIN s = 1 .. (Len(q) + 1)
      /\ \A i \in 1 .. (Len(q) + 1) : s[i] = IF i < k THEN q[i] ELSE IF i = k THEN e ELSE q[i - 1]
  <2>1. /\ InsertAt(q, k, e) \in Seq(Event) /\ Len(InsertAt(q, k, e)) = Len(q) + 1
        /\ \A i \in 1 .. (Len(q) + 1) :
             InsertAt(q, k, e)[i] = IF i < k THEN q[i] ELSE IF i = k THEN e ELSE q[i - 1]
    <3>1. k \in 1 .. (Len(q) + 1)
      BY <1>1
    <3> QED
      BY <3>1, InsertAtIs
  <2>2. /\ s \in Seq(Event) /\ Len(s) = Len(q) + 1
        /\ \A i \in 1 .. (Len(q) + 1) : s[i] = IF i < k THEN q[i] ELSE IF i = k THEN e ELSE q[i - 1]
    BY <1>2, <2>1
  <2> QED
    BY <2>2, LenProperties
<1>4. \A i \in DOMAIN s : s[i].in <= Rtimeout[s[i].lac]
  <2> SUFFICES ASSUME NEW i \in DOMAIN s PROVE s[i].in <= Rtimeout[s[i].lac]
    OBVIOUS
  <2>1. \/ i \in DOMAIN q /\ s[i] = q[i]
        \/ s[i] = e
        \/ (i - 1) \in DOMAIN q /\ s[i] = q[i - 1]
    BY <1>0, <1>1, <1>3
  <2> QED
    BY <2>1 DEF Timely
<1>5. \A i, j \in DOMAIN s : i < j => s[i].in <= s[j].in
  <2> SUFFICES ASSUME NEW i \in DOMAIN s, NEW j \in DOMAIN s, i < j PROVE s[i].in <= s[j].in
    OBVIOUS
  <2>1. CASE j < k
    <3>1. s[i] = q[i] /\ s[j] = q[j] /\ i \in DOMAIN q /\ j \in DOMAIN q
      BY <1>0, <1>1, <1>3, <2>1
    <3> QED
      BY <3>1 DEF Timely
  <2>2. CASE j = k
    BY <1>0, <1>1, <1>3, <2>2
  <2>3. CASE i < k /\ k < j
    <3>1. s[i] = q[i] /\ s[j] = q[j - 1] /\ i \in DOMAIN q /\ (j - 1) \in DOMAIN q /\ i < k /\ k <= j - 1
      BY <1>0, <1>1, <1>3, <2>3
    <3> QED
      BY <1>0, <1>1, <3>1
  <2>4. CASE i = k
    <3>1. s[i] = e /\ s[j] = q[j - 1] /\ (j - 1) \in DOMAIN q /\ k <= j - 1
      BY <1>0, <1>1, <1>3, <2>4
    <3> QED
      BY <1>0, <1>1, <3>1
  <2>5. CASE k < i
    <3>1. s[i] = q[i - 1] /\ s[j] = q[j - 1] /\ (i - 1) \in DOMAIN q /\ (j - 1) \in DOMAIN q /\ i - 1 < j - 1
      BY <1>0, <1>1, <1>3, <2>5
    <3> QED
      BY <3>1 DEF Timely
  <2> QED
    BY <1>1, <1>3, <2>1, <2>2, <2>3, <2>4, <2>5
<1>6. k \in DOMAIN s /\ s[k] = e
  BY <1>1, <1>3
<1>7. \A i \in DOMAIN q : \E j \in DOMAIN s : s[j] = q[i]
  <2> SUFFICES ASSUME NEW i \in DOMAIN q PROVE \E j \in DOMAIN s : s[j] = q[i]
    OBVIOUS
  <2>1. CASE i < k
    BY <1>1, <1>3, <2>1
  <2>2. CASE k <= i
    <3>1. i + 1 \in DOMAIN s /\ s[i + 1] = q[i]
      BY <1>0, <1>1, <1>3, <2>2
    <3> QED
      BY <3>1
  <2> QED
    BY <1>1, <2>1, <2>2
<1> QED
  BY <1>3, <1>4, <1>5, <1>6, <1>7 DEF Timely, s

-----------------------------------------------------------------------------
(* What the operators do to a world.                                         *)

\* A world is its fields, and a change of some of them is one again.
LEMMA Changed ==
  ASSUME NEW w \in WorldT
  PROVE  /\ w.lac \in [Lac -> LacType] /\ w.tun \in [Lac -> Phase]
         /\ w.call \in [CallId -> CallType] /\ w.events \in Seq(Event)
         /\ \A a : LET v == [w EXCEPT !.lac = a]
                   IN /\ v.lac = a /\ v.tun = w.tun /\ v.call = w.call /\ v.events = w.events
                      /\ a \in [Lac -> LacType] => v \in WorldT
         /\ \A a : LET v == [w EXCEPT !.tun = a]
                   IN /\ v.tun = a /\ v.lac = w.lac /\ v.call = w.call /\ v.events = w.events
                      /\ a \in [Lac -> Phase] => v \in WorldT
         /\ \A a : LET v == [w EXCEPT !.call = a]
                   IN /\ v.call = a /\ v.lac = w.lac /\ v.tun = w.tun /\ v.events = w.events
                      /\ a \in [CallId -> CallType] => v \in WorldT
         /\ \A a : LET v == [w EXCEPT !.events = a]
                   IN /\ v.events = a /\ v.lac = w.lac /\ v.tun = w.tun /\ v.call = w.call
                      /\ a \in Seq(Event) => v \in WorldT
BY DEF WorldT

\* So is a change of a LAC.
LEMMA LacChanged ==
  ASSUME NEW r \in LacType
  PROVE  /\ \A b \in BOOLEAN : [r EXCEPT !.active = b] \in LacType /\ [r EXCEPT !.rsched = b] \in LacType
         /\ \A n \in Nat : [r EXCEPT !.rtries = n] \in LacType
         /\ \A c \in {0} \cup CallId : [r EXCEPT !.c = c] \in LacType
BY DEF LacType

\* From w to v nothing but the queue and the record of l changed; no redial was lost, and
\* where l wants one and believes in the right ones it has one.
Redialled(w, v, l) ==
  /\ v \in WorldT /\ Timely(v.events) /\ v.tun = w.tun /\ v.call = w.call
  /\ \A k \in Lac : /\ v.lac[k].active = w.lac[k].active /\ v.lac[k].listed = w.lac[k].listed
                    /\ k # l => v.lac[k].c = w.lac[k].c
                    /\ Due(w, k) => Due(v, k)
                    /\ Sched(w, k) => Sched(v, k)
  /\ l \in Redial /\ Rtimeout[l] > 0 /\ w.lac[l].active /\ Sched(w, l) => Due(v, l)

\* RedialLater schedules a redial where one is wanted (destroy_tunnel, destroy_call).
LEMMA RedialLaterIs ==
  ASSUME NEW w \in WorldT, Timely(w.events), NEW l \in Lac, NEW v, v = RedialLater(w, l)
  PROVE  Redialled(w, v, l) /\ v.lac[l].c = w.lac[l].c
<1>1. CASE l \notin Redial \/ Rtimeout[l] = 0 \/ w.lac[l].rsched \/ ~ w.lac[l].active
  <2>1. v = w
    BY <1>1 DEF RedialLater
  <2> QED
    BY <1>1, <2>1, DialAssumption DEF Redialled, Sched
<1>2. CASE ~ (l \notin Redial \/ Rtimeout[l] = 0 \/ w.lac[l].rsched \/ ~ w.lac[l].active)
  <2> DEFINE e == [in |-> Rtimeout[l], lac |-> l, stale |-> FALSE]
             q == schedule(w.events, e)
  <2>1. v = [w EXCEPT !.lac[l].rsched = TRUE, !.events = q]
    BY <1>2 DEF RedialLater
  <2>2. e \in Event /\ e.lac = l /\ e.in = Rtimeout[e.lac] /\ ~ e.stale /\ Rtimeout[e.lac] \in Nat
    BY DialAssumption DEF Event
  <2>3. w.events \in Seq(Event)
    BY DEF WorldT
  <2>4. /\ q \in Seq(Event) /\ Timely(q)
        /\ \E i \in DOMAIN q : q[i] = e
        /\ \A i \in DOMAIN w.events : \E j \in DOMAIN q : q[j] = w.events[i]
    <3>1. e.in <= Rtimeout[e.lac] /\ e.lac \in Lac
      BY <2>2
    <3> HIDE DEF e
    <3> QED
      BY <2>2, <2>3, <3>1, ScheduleIs
  <2> HIDE DEF e, q
  <2>5. v \in WorldT /\ v.events = q /\ v.tun = w.tun /\ v.call = w.call
    <3> DEFINE a == [w.lac EXCEPT ![l].rsched = TRUE]
               u == [w EXCEPT !.lac = a]
    <3>1. a \in [Lac -> LacType]
      <4>1. w.lac[l] \in LacType
        BY Changed
      <4>2. [w.lac[l] EXCEPT !.rsched = TRUE] \in LacType
        BY <4>1, LacChanged
      <4> QED
        BY <4>2, Changed
    <3>2. v = [u EXCEPT !.events = q]
      BY <2>1
    <3> HIDE DEF a
    <3>3. u \in WorldT /\ u.tun = w.tun /\ u.call = w.call
      BY <3>1, Changed
    <3> HIDE DEF u
    <3> QED
      BY <2>4, <3>2, <3>3, Changed
  <2>6. \A k \in Lac : /\ v.lac[k].active = w.lac[k].active /\ v.lac[k].listed = w.lac[k].listed
                       /\ v.lac[k].c = w.lac[k].c /\ (k # l => v.lac[k] = w.lac[k])
    BY <2>1 DEF WorldT, LacType
  <2>7. Due(v, l)
    BY <2>2, <2>4, <2>5 DEF Due
  <2>8. \A k \in Lac : Due(w, k) => Due(v, k)
    BY <2>4, <2>5 DEF Due
  <2>9. \A k \in Lac : Sched(w, k) => Sched(v, k)
    BY <2>6, <2>7, <2>8 DEF Sched
  <2> QED
    BY <2>4, <2>5, <2>6, <2>7, <2>8, <2>9 DEF Redialled
<1> QED
  BY <1>1, <1>2

\* Unlinked: the same, and l has no call at lac->c.
LEMMA UnlinkedIs ==
  ASSUME NEW w \in WorldT, Timely(w.events), NEW l \in Lac, NEW v, v = Unlinked(w, l)
  PROVE  Redialled(w, v, l) /\ v.lac[l].c = 0
<1> DEFINE a == [w.lac EXCEPT ![l].c = 0]
           u == [w EXCEPT !.lac = a]
<1>1. v = RedialLater(u, l)
  BY DEF Unlinked
<1>2. a \in [Lac -> LacType]
  <2>1. w.lac[l] \in LacType
    BY Changed
  <2>2. [w.lac[l] EXCEPT !.c = 0] \in LacType
    BY <2>1, LacChanged
  <2> QED
    BY <2>2, Changed
<1>3. /\ a[l].c = 0
      /\ \A k \in Lac : a[k].active = w.lac[k].active /\ a[k].listed = w.lac[k].listed /\ a[k].rsched = w.lac[k].rsched
      /\ \A k \in Lac : k # l => a[k].c = w.lac[k].c
  <2>1. \A k \in Lac : w.lac[k] \in LacType
    BY Changed
  <2> QED
    BY <2>1, Changed DEF LacType
<1> HIDE DEF a
<1>4. u \in WorldT /\ u.lac = a /\ u.tun = w.tun /\ u.call = w.call /\ u.events = w.events
  BY <1>2, Changed
<1> HIDE DEF u
<1>5. Redialled(u, v, l) /\ v.lac[l].c = u.lac[l].c
  BY <1>1, <1>4, RedialLaterIs
<1>6. \A k \in Lac : (Due(u, k) <=> Due(w, k)) /\ (Sched(u, k) <=> Sched(w, k))
  BY <1>3, <1>4 DEF Due, Sched
<1> QED
  BY <1>3, <1>4, <1>5, <1>6 DEF Redialled

\* DestroyCalls leaves no call on l, and otherwise only calls and LACs as they should be.
LEMMA DestroyCallsIs ==
  ASSUME NEW w, Valid(w), NEW l \in Lac, NEW v, v = DestroyCalls(w, l)
  PROVE  /\ Valid(v) /\ v.tun = w.tun /\ Follows(w, v)
         /\ \A c \in CallId : v.call[c].on # l /\ v.call[c].lac # l
         /\ Sched(w, l) => Sched(v, l)
<1> DEFINE a == [c \in CallId |-> IF w.call[c].on = l THEN NoCall ELSE w.call[c]]
           u == [w EXCEPT !.call = a]
<1>0. w \in WorldT /\ Timely(w.events) /\ CallsValid(w) /\ LacsValid(w)
  BY DEF Valid
<1>1. v = IF \E c \in CallsOn(w, l) : w.call[c].lac = l THEN Unlinked(u, l) ELSE u
  BY DEF DestroyCalls
<1>2. NoCall \in CallType /\ NoCall.on = NoLac /\ NoCall.lac = NoLac /\ NoCall.state = "off"
  BY DEF NoCall, CallType
<1>3. a \in [CallId -> CallType]
  BY <1>0, <1>2, Changed
<1>4. \A c \in CallId : \/ w.call[c].on = l /\ a[c] = NoCall
                        \/ w.call[c].on # l /\ a[c] = w.call[c]
  OBVIOUS
<1> HIDE DEF a
<1>5. u \in WorldT /\ u.lac = w.lac /\ u.tun = w.tun /\ u.call = a /\ u.events = w.events
  BY <1>0, <1>3, Changed
<1> HIDE DEF u
<1>6. \A k \in Lac : (Due(u, k) <=> Due(w, k)) /\ (Sched(u, k) <=> Sched(w, k))
  BY <1>5 DEF Due, Sched
<1>7. \A c \in CallId : a[c].on # l /\ a[c].lac # l
  BY <1>0, <1>2, <1>4, DialAssumption DEF CallsValid
<1>8. \A k \in Lac \ {l} : Calling(w, k) <=> Calling(u, k)
  BY <1>0, <1>2, <1>4, <1>5, DialAssumption DEF CallsValid, Calling
<1>9. CallsValid(u)
  BY <1>0, <1>2, <1>4, <1>5, DialAssumption DEF CallsValid
<1>10. /\ \/ Redialled(u, v, l) /\ v.lac[l].c = 0
          \/ v = u /\ ~ Calling(w, l) /\ v.lac[l].c = 0
       /\ v \in WorldT /\ Timely(v.events)
  <2>1. CASE \E c \in CallsOn(w, l) : w.call[c].lac = l
    <3>1. v = Unlinked(u, l)
      BY <1>1, <2>1
    <3>2. Timely(u.events)
      BY <1>0, <1>5
    <3>3. Redialled(u, v, l) /\ v.lac[l].c = 0
      BY <1>5, <3>1, <3>2, UnlinkedIs
    <3> QED
      BY <3>3 DEF Redialled
  <2>2. CASE ~ \E c \in CallsOn(w, l) : w.call[c].lac = l
    <3>1. v = u
      BY <1>1, <2>2
    <3>2. ~ Calling(w, l)
      BY <1>0, <2>2, DialAssumption DEF Calling, CallsOn, CallsValid
    <3>3. w.lac[l].c \in {0} \cup CallId
      BY <1>0, Changed DEF LacType
    <3>4. w.lac[l].c = 0
      BY <1>0, <3>2, <3>3 DEF LacsValid, Calling
    <3> QED
      BY <1>0, <1>5, <3>1, <3>2, <3>4
  <2> QED
    BY <2>1, <2>2
<1>11. /\ v.tun = w.tun /\ v.call = a
       /\ \A k \in Lac : /\ v.lac[k].active = w.lac[k].active /\ v.lac[k].listed = w.lac[k].listed
                         /\ k # l => v.lac[k].c = w.lac[k].c
                         /\ Due(w, k) => Due(v, k)
                         /\ Sched(w, k) => Sched(v, k)
  BY <1>5, <1>6, <1>10 DEF Redialled
<1>12. CallsValid(v)
  BY <1>5, <1>9, <1>11 DEF CallsValid
<1>13. LacsValid(v)
  <2> SUFFICES ASSUME NEW k \in Lac
               PROVE /\ v.lac[k].c # 0 => v.call[v.lac[k].c].lac = k
                     /\ v.tun[k] # "none" => v.lac[k].listed
                     /\ v.lac[k].active => v.lac[k].listed
    BY DEF LacsValid
  <2>1. v.lac[k].c # 0 => v.call[v.lac[k].c].lac = k
    <3> SUFFICES ASSUME v.lac[k].c # 0 PROVE v.call[v.lac[k].c].lac = k
      OBVIOUS
    <3>1. k # l /\ v.lac[k].c = w.lac[k].c
      BY <1>10, <1>11
    <3>2. w.lac[k].c \in CallId /\ w.call[w.lac[k].c].lac = k
      <4>1. w.lac[k].c \in {0} \cup CallId
        BY <1>0, Changed DEF LacType
      <4> QED
        BY <1>0, <3>1, <4>1 DEF LacsValid
    <3>3. w.call[w.lac[k].c].on = k
      BY <1>0, <3>2, DialAssumption DEF CallsValid
    <3> QED
      BY <1>4, <1>11, <3>1, <3>2, <3>3
  <2> QED
    BY <1>0, <1>11, <2>1 DEF LacsValid
<1>14. \A k \in Lac : Alive(w, k) => Alive(v, k)
  <2>1. ASSUME NEW k \in Lac, k # l, Alive(w, k) PROVE Alive(v, k)
    BY <1>5, <1>8, <1>11, <2>1 DEF Alive, Kept, Idle, Calling
  <2>2. ASSUME Alive(w, l) PROVE Alive(v, l)
    <3>1. ~ Calling(v, l)
      BY <1>7, <1>11 DEF Calling
    <3>2. Sched(v, l) /\ Idle(v, l)
      BY <1>11, <2>2, <3>1 DEF Alive, Idle
    <3>3. Kept(v, l)
      BY <1>5, <1>6, <1>10, <1>11, <2>2 DEF Alive, Kept, Redialled
    <3> QED
      BY <3>2, <3>3 DEF Alive
  <2> QED
    BY <2>1, <2>2
<1> QED
  BY <1>7, <1>10, <1>11, <1>12, <1>13, <1>14 DEF Valid, Follows, Quiet

\* A redial that is scheduled keeps all that was good.
LEMMA RedialledKeeps ==
  ASSUME NEW w, Valid(w), NEW l \in Lac, NEW v, Redialled(w, v, l), v.lac[l].c \in {0, w.lac[l].c}
  PROVE  Valid(v) /\ Follows(w, v)
<1>1. v.tun = w.tun /\ v.call = w.call /\ CallsValid(w) /\ LacsValid(w)
  BY DEF Redialled, Valid
<1>2. \A k \in Lac : /\ v.lac[k].active = w.lac[k].active /\ v.lac[k].listed = w.lac[k].listed
                     /\ v.lac[k].c \in {0, w.lac[k].c}
                     /\ Due(w, k) => Due(v, k)
                     /\ Sched(w, k) => Sched(v, k)
  BY DEF Redialled
<1>3. CallsValid(v) /\ LacsValid(v)
  BY <1>1, <1>2 DEF CallsValid, LacsValid
<1>4. \A k \in Lac : Alive(w, k) => Alive(v, k)
  BY <1>1, <1>2 DEF Alive, Kept, Idle, Calling
<1>5. v \in WorldT /\ Timely(v.events)
  BY DEF Redialled
<1> QED
  BY <1>1, <1>2, <1>3, <1>4, <1>5 DEF Valid, Follows, Quiet

\* What becomes of w where the tunnel of l ends: no call is left on l, and l is alive if
\* what it believes of its redials was right.
Ended(w, v, l) ==
  /\ Valid(v)
  /\ \A c \in CallId : v.call[c].on # l /\ v.call[c].lac # l
  /\ \A k \in Lac : Quiet(w, v, k) /\ (k # l => (Alive(w, k) => Alive(v, k)))
  /\ Sched(w, l) => Alive(v, l)

\* A world where one tunnel, call or LAC changed.
WithTunnel(w, l, p) == [w EXCEPT !.tun[l] = p]

\* What a change of one tunnel leaves alone.
LEMMA TunnelSet ==
  ASSUME NEW w, Valid(w), NEW l \in Lac, NEW p \in Phase, NEW v, v = WithTunnel(w, l, p),
         p = "none" => \A c \in CallId : w.call[c].on # l,
         p # "none" => w.lac[l].listed
  PROVE  /\ Valid(v) /\ v.lac = w.lac /\ v.call = w.call /\ v.events = w.events
         /\ v.tun[l] = p /\ \A k \in Lac : k # l => v.tun[k] = w.tun[k]
         /\ \A k \in Lac : (Due(v, k) <=> Due(w, k)) /\ (Sched(v, k) <=> Sched(w, k))
         /\ \A k \in Lac : k # l => (Alive(v, k) <=> Alive(w, k))
<1> DEFINE a == [w.tun EXCEPT ![l] = p]
<1>0. w \in WorldT /\ Timely(w.events) /\ CallsValid(w) /\ LacsValid(w)
  BY DEF Valid
<1>1. v = [w EXCEPT !.tun = a]
  BY DEF WithTunnel
<1>2. a \in [Lac -> Phase] /\ a[l] = p /\ \A k \in Lac : k # l => a[k] = w.tun[k]
  BY <1>0, Changed
<1> HIDE DEF a
<1>3. v \in WorldT /\ v.lac = w.lac /\ v.call = w.call /\ v.events = w.events /\ v.tun = a
  BY <1>0, <1>1, <1>2, Changed
<1>4. \A c \in CallId : w.call[c].on \in Lac \cup {NoLac}
  BY <1>0, Changed DEF CallType
<1>5. CallsValid(v)
  BY <1>0, <1>2, <1>3, <1>4 DEF CallsValid
<1>6. LacsValid(v)
  BY <1>0, <1>2, <1>3 DEF LacsValid
<1>7. \A k \in Lac : (Due(v, k) <=> Due(w, k)) /\ (Sched(v, k) <=> Sched(w, k))
  BY <1>3 DEF Due, Sched
<1>8. \A k \in Lac : k # l => (Alive(v, k) <=> Alive(w, k))
  BY <1>2, <1>3, <1>7 DEF Alive, Kept, Idle, Calling
<1> QED
  BY <1>0, <1>2, <1>3, <1>5, <1>6, <1>7, <1>8 DEF Valid

\* destroy_tunnel.
LEMMA DestroyTunnelIs ==
  ASSUME NEW w, Valid(w), NEW l \in Lac, NEW v, v = destroy_tunnel(w, l)
  PROVE  Ended(w, v, l)
<1> DEFINE u == DestroyCalls(w, l)
           t == [u EXCEPT !.tun[l] = "none"]
           x == RedialLater(t, l)
<1>1. v = Unlinked(x, l)
  BY DEF destroy_tunnel
<1>2. /\ Valid(u) /\ u.tun = w.tun /\ Follows(w, u)
      /\ \A c \in CallId : u.call[c].on # l /\ u.call[c].lac # l
      /\ Sched(w, l) => Sched(u, l)
  BY DestroyCallsIs
<1> HIDE DEF u
<1>3. /\ Valid(t) /\ t.lac = u.lac /\ t.call = u.call
      /\ t.tun[l] = "none" /\ \A k \in Lac : k # l => t.tun[k] = u.tun[k]
      /\ \A k \in Lac : Sched(t, k) <=> Sched(u, k)
      /\ \A k \in Lac : k # l => (Alive(t, k) <=> Alive(u, k))
  <2>1. "none" \in Phase /\ Valid(u) /\ t = WithTunnel(u, l, "none")
    BY <1>2 DEF Phase, WithTunnel
  <2> HIDE DEF t
  <2> QED
    BY <1>2, <2>1, TunnelSet
<1> HIDE DEF t
<1>4. Redialled(t, x, l) /\ x.lac[l].c = t.lac[l].c
  BY <1>3, RedialLaterIs DEF Valid
<1>5. Valid(x) /\ Follows(t, x)
  BY <1>3, <1>4, RedialledKeeps
<1> HIDE DEF x
<1>6. Redialled(x, v, l) /\ v.lac[l].c = 0
  BY <1>1, <1>5, UnlinkedIs DEF Valid
<1>7. Valid(v) /\ Follows(x, v)
  BY <1>5, <1>6, RedialledKeeps
<1>8. v.call = u.call /\ v.tun = t.tun
  BY <1>3, <1>4, <1>6 DEF Redialled
<1>9. \A k \in Lac : v.lac[k].active = w.lac[k].active /\ Quiet(w, v, k)
  BY <1>2, <1>3, <1>5, <1>7, <1>8 DEF Follows, Quiet
<1>10. \A k \in Lac : k # l => (Alive(w, k) => Alive(v, k))
  BY <1>2, <1>3, <1>5, <1>7 DEF Follows
<1>11. ASSUME Sched(w, l) PROVE Alive(v, l)
  <2>1. ~ Calling(v, l)
    BY <1>2, <1>8 DEF Calling
  <2>2. Sched(t, l) /\ Sched(v, l)
    BY <1>2, <1>3, <1>4, <1>6, <1>11 DEF Redialled
  <2>3. t.lac[l].active = v.lac[l].active
    BY <1>4, <1>6 DEF Redialled
  <2>4. l \in Redial /\ Rtimeout[l] > 0 /\ v.lac[l].active => Due(v, l)
    BY <1>4, <1>6, <2>2, <2>3 DEF Redialled
  <2> QED
    BY <2>1, <2>2, <2>4 DEF Alive, Kept, Idle
<1> QED
  BY <1>2, <1>7, <1>8, <1>9, <1>10, <1>11 DEF Ended

\* call_close of the self call of a tunnel.
LEMMA CloseTunnelIs ==
  ASSUME NEW w, Valid(w), NEW l \in Lac, w.tun[l] # "none", NEW v, v = CloseTunnel(w, l)
  PROVE  Ended(w, v, l)
<1>1. CASE w.tun[l] = "closing"
  BY <1>1, DestroyTunnelIs DEF CloseTunnel
<1>2. CASE w.tun[l] # "closing"
  <2> DEFINE u == DestroyCalls(w, l)
  <2>1. v = WithTunnel(u, l, "closing")
    BY <1>2 DEF CloseTunnel, WithTunnel
  <2>2. /\ Valid(u) /\ u.tun = w.tun /\ Follows(w, u)
        /\ \A c \in CallId : u.call[c].on # l /\ u.call[c].lac # l
        /\ Sched(w, l) => Sched(u, l)
    BY DestroyCallsIs
  <2> HIDE DEF u
  <2>3. u.lac[l].listed
    BY <2>2 DEF Valid, LacsValid
  <2>4. /\ Valid(v) /\ v.lac = u.lac /\ v.call = u.call
        /\ v.tun[l] = "closing" /\ \A k \in Lac : k # l => v.tun[k] = u.tun[k]
        /\ \A k \in Lac : Sched(v, k) <=> Sched(u, k)
        /\ \A k \in Lac : k # l => (Alive(v, k) <=> Alive(u, k))
    BY <2>1, <2>2, <2>3, TunnelSet DEF Phase
  <2>5. \A k \in Lac : Quiet(w, v, k)
    BY <2>2, <2>4 DEF Follows, Quiet
  <2>6. \A k \in Lac : k # l => (Alive(w, k) => Alive(v, k))
    BY <2>2, <2>4 DEF Follows
  <2>7. Sched(w, l) => Alive(v, l)
    BY <2>2, <2>4 DEF Alive, Kept, Idle, Calling
  <2> QED
    BY <2>2, <2>4, <2>5, <2>6, <2>7 DEF Ended
<1> QED
  BY <1>1, <1>2

WithCall(w, c, r) == [w EXCEPT !.call[c] = r]

\* What a change of one call leaves alone.
LEMMA CallSet ==
  ASSUME NEW w, Valid(w), NEW c \in CallId, NEW r \in CallType, NEW v, v = WithCall(w, c, r)
  PROVE  /\ v \in WorldT /\ v.lac = w.lac /\ v.tun = w.tun /\ v.events = w.events
         /\ v.call[c] = r /\ \A d \in CallId : d # c => v.call[d] = w.call[d]
         /\ \A k \in Lac : (Due(v, k) <=> Due(w, k)) /\ (Sched(v, k) <=> Sched(w, k))
<1> DEFINE a == [w.call EXCEPT ![c] = r]
<1>0. w \in WorldT
  BY DEF Valid
<1>1. v = [w EXCEPT !.call = a]
  BY DEF WithCall
<1>2. a \in [CallId -> CallType] /\ a[c] = r /\ \A d \in CallId : d # c => a[d] = w.call[d]
  BY <1>0, Changed
<1> HIDE DEF a
<1>3. v \in WorldT /\ v.lac = w.lac /\ v.tun = w.tun /\ v.events = w.events /\ v.call = a
  BY <1>0, <1>1, <1>2, Changed
<1> QED
  BY <1>2, <1>3 DEF Due, Sched

\* destroy_call: a LAC that loses its call has a redial, or did not want one.
LEMMA DestroyCallIs ==
  ASSUME NEW w, Valid(w), NEW c \in CallId, w.call[c].state # "off", NEW v, v = DestroyCall(w, c)
  PROVE  Valid(v) /\ Follows(w, v)
<1> DEFINE l == w.call[c].lac
           u == [w EXCEPT !.call[c] = NoCall]
<1>0. w \in WorldT /\ Timely(w.events) /\ CallsValid(w) /\ LacsValid(w)
  BY DEF Valid
<1>1. v = IF l = NoLac THEN u ELSE Unlinked(u, l)
  BY DEF DestroyCall
<1>2. NoCall \in CallType /\ NoCall.on = NoLac /\ NoCall.lac = NoLac /\ NoCall.state = "off"
  BY DEF NoCall, CallType
<1>3. w.call[c].lac \in Lac \cup {NoLac}
  BY <1>0, Changed DEF CallType
<1>4. /\ u \in WorldT /\ u.lac = w.lac /\ u.tun = w.tun /\ u.events = w.events
      /\ u.call[c] = NoCall /\ \A d \in CallId : d # c => u.call[d] = w.call[d]
      /\ \A k \in Lac : (Due(u, k) <=> Due(w, k)) /\ (Sched(u, k) <=> Sched(w, k))
  <2>1. u = WithCall(w, c, NoCall)
    BY DEF WithCall
  <2> HIDE DEF u
  <2> QED
    BY <1>2, <2>1, CallSet
<1> HIDE DEF u
<1>5. CallsValid(u)
  BY <1>0, <1>2, <1>4, DialAssumption DEF CallsValid
<1>6. \A k \in Lac : k # l => (Calling(u, k) <=> Calling(w, k))
  BY <1>2, <1>4, DialAssumption DEF Calling
<1>7. \A k \in Lac : Calling(u, k) => Calling(w, k)
  BY <1>2, <1>4, DialAssumption DEF Calling
<1>8. \A k \in Lac : w.lac[k].c \in {0} \cup CallId
  BY <1>0, Changed DEF LacType
<1>9. CASE l = NoLac
  <2>1. v = u /\ \A k \in Lac : k # l
    BY <1>1, <1>9, DialAssumption
  <2> HIDE DEF l
  <2>2. LacsValid(v)
    BY <1>0, <1>2, <1>4, <1>8, <1>9, <2>1 DEF LacsValid, l
  <2>3. \A k \in Lac : Alive(w, k) <=> Alive(v, k)
    BY <1>4, <1>6, <2>1 DEF Alive, Kept, Idle
  <2> QED
    BY <1>0, <1>4, <1>5, <2>1, <2>2, <2>3 DEF Valid, Follows, Quiet
<1>10. CASE l # NoLac
  <2>1. l \in Lac /\ v = Unlinked(u, l)
    BY <1>1, <1>3, <1>10
  <2>2. Timely(u.events)
    BY <1>0, <1>4
  <2>l. w.call[c].lac = l
    OBVIOUS
  <2> HIDE DEF l
  <2>3. Redialled(u, v, l) /\ v.lac[l].c = 0
    BY <1>4, <2>1, <2>2, UnlinkedIs
  <2>4. /\ v \in WorldT /\ Timely(v.events) /\ v.tun = w.tun /\ v.call = u.call
        /\ \A k \in Lac : /\ v.lac[k].active = w.lac[k].active /\ v.lac[k].listed = w.lac[k].listed
                          /\ k # l => v.lac[k].c = w.lac[k].c
                          /\ Due(w, k) => Due(v, k)
                          /\ Sched(w, k) => Sched(v, k)
        /\ l \in Redial /\ Rtimeout[l] > 0 /\ w.lac[l].active /\ Sched(w, l) => Due(v, l)
    BY <1>4, <2>1, <2>3 DEF Redialled
  <2>5. CallsValid(v)
    BY <1>4, <1>5, <2>4 DEF CallsValid
  <2>6. LacsValid(v)
    <3>1. ASSUME NEW k \in Lac, v.lac[k].c # 0 PROVE v.call[v.lac[k].c].lac = k
      <4>1. k # l /\ v.lac[k].c = w.lac[k].c
        BY <2>3, <2>4, <3>1
      <4>2. w.lac[k].c \in CallId /\ w.call[w.lac[k].c].lac = k
        BY <1>0, <1>8, <3>1, <4>1 DEF LacsValid
      <4>3. w.lac[k].c # c
        BY <2>l, <4>1, <4>2
      <4> QED
        BY <1>4, <2>4, <4>1, <4>2, <4>3
    <3> QED
      BY <1>0, <2>4, <3>1 DEF LacsValid
  <2>7. \A k \in Lac : Quiet(w, v, k)
    BY <2>4 DEF Quiet
  <2>8. \A k \in Lac : k # l => (Alive(w, k) => Alive(v, k))
    <3>1. \A k \in Lac : k # l => (Calling(v, k) <=> Calling(w, k))
      BY <1>6, <2>4 DEF Calling
    <3> QED
      BY <2>4, <3>1 DEF Alive, Kept, Idle
  <2>9. Alive(w, l) => Alive(v, l)
    <3>1. Calling(v, l) => Calling(w, l)
      BY <1>7, <2>1, <2>4 DEF Calling
    <3> QED
      BY <2>1, <2>4, <3>1 DEF Alive, Kept, Idle
  <2> QED
    BY <2>4, <2>5, <2>6, <2>7, <2>8, <2>9 DEF Valid, Follows
<1> QED
  BY <1>9, <1>10

\* call_close of a call.
LEMMA CloseCallIs ==
  ASSUME NEW w, Valid(w), NEW c \in CallId, w.call[c].state # "off", NEW v, v = CloseCall(w, c)
  PROVE  Valid(v) /\ Follows(w, v)
<1>1. CASE w.call[c].state = "closing"
  BY <1>1, DestroyCallIs DEF CloseCall
<1>2. CASE w.call[c].state # "closing"
  <2> DEFINE r == [w.call[c] EXCEPT !.state = "closing"]
  <2>0. w \in WorldT /\ Timely(w.events) /\ CallsValid(w) /\ LacsValid(w) /\ w.call[c] \in CallType
    BY Changed DEF Valid
  <2>1. r \in CallType /\ r.on = w.call[c].on /\ r.lac = w.call[c].lac /\ r.state = "closing"
    BY <2>0 DEF CallType
  <2>2. v = WithCall(w, c, r)
    BY <1>2 DEF CloseCall, WithCall
  <2> HIDE DEF r
  <2>3. /\ v \in WorldT /\ v.lac = w.lac /\ v.tun = w.tun /\ v.events = w.events
        /\ v.call[c] = r /\ \A d \in CallId : d # c => v.call[d] = w.call[d]
        /\ \A k \in Lac : (Due(v, k) <=> Due(w, k)) /\ (Sched(v, k) <=> Sched(w, k))
    BY <2>1, <2>2, CallSet
  <2>4. \A d \in CallId : /\ v.call[d].on = w.call[d].on /\ v.call[d].lac = w.call[d].lac
                          /\ v.call[d].state = "off" <=> w.call[d].state = "off"
    BY <2>1, <2>3
  <2>5. CallsValid(v)
    BY <2>0, <2>3, <2>4 DEF CallsValid
  <2>6. LacsValid(v)
    <3>1. \A k \in Lac : w.lac[k].c \in {0} \cup CallId
      BY <2>0, Changed DEF LacType
    <3> QED
      BY <2>0, <2>3, <2>4, <3>1 DEF LacsValid
  <2>7. \A k \in Lac : Alive(v, k) <=> Alive(w, k)
    BY <2>3, <2>4 DEF Alive, Kept, Idle, Calling
  <2> QED
    BY <2>0, <2>3, <2>5, <2>6, <2>7 DEF Valid, Follows, Quiet
<1> QED
  BY <1>1, <1>2

WithLac(w, l, r) == [w EXCEPT !.lac[l] = r]

\* What a change of one LAC leaves alone.
LEMMA LacSet ==
  ASSUME NEW w, Valid(w), NEW l \in Lac, NEW r \in LacType, NEW v, v = WithLac(w, l, r),
         r.active \/ w.tun[l] # "none" => r.listed,
         r.c # 0 => w.call[r.c].lac = l
  PROVE  /\ Valid(v) /\ v.tun = w.tun /\ v.call = w.call /\ v.events = w.events
         /\ v.lac[l] = r /\ \A k \in Lac : k # l => v.lac[k] = w.lac[k]
         /\ \A k \in Lac : (Due(v, k) <=> Due(w, k)) /\ (Calling(v, k) <=> Calling(w, k))
         /\ \A k \in Lac : k # l => (Alive(v, k) <=> Alive(w, k))
<1> DEFINE a == [w.lac EXCEPT ![l] = r]
<1>0. w \in WorldT /\ Timely(w.events) /\ CallsValid(w) /\ LacsValid(w)
  BY DEF Valid
<1>1. v = [w EXCEPT !.lac = a]
  BY DEF WithLac
<1>2. a \in [Lac -> LacType] /\ a[l] = r /\ \A k \in Lac : k # l => a[k] = w.lac[k]
  BY <1>0, Changed
<1> HIDE DEF a
<1>3. v \in WorldT /\ v.tun = w.tun /\ v.call = w.call /\ v.events = w.events /\ v.lac = a
  BY <1>0, <1>1, <1>2, Changed
<1>4. CallsValid(v) /\ LacsValid(v)
  BY <1>0, <1>2, <1>3 DEF CallsValid, LacsValid
<1>5. \A k \in Lac : (Due(v, k) <=> Due(w, k)) /\ (Calling(v, k) <=> Calling(w, k))
  BY <1>3 DEF Due, Calling
<1>6. \A k \in Lac : k # l => (Alive(v, k) <=> Alive(w, k))
  BY <1>2, <1>3, <1>5 DEF Alive, Sched, Kept, Idle
<1> QED
  BY <1>0, <1>2, <1>3, <1>4, <1>5, <1>6 DEF Valid

\* lac_call.
LEMMA LacCallIs ==
  ASSUME NEW w, Valid(w), NEW l \in Lac, w.tun[l] # "none", NEW own \in {NoLac, l},
         NEW c \in CallId, w.call[c].state = "off", NEW v, v = lac_call(w, l, own, c)
  PROVE  /\ Valid(v) /\ v.tun = w.tun /\ v.events = w.events
         /\ \A k \in Lac : v.lac[k].active = w.lac[k].active /\ v.lac[k].rsched = w.lac[k].rsched
         /\ \A k \in Lac : k # own => (Calling(v, k) <=> Calling(w, k))
         /\ own = l => Calling(v, l)
<1> DEFINE r == [on |-> l, lac |-> own, state |-> "asked"]
           u == WithCall(w, c, r)
<1>0. w \in WorldT /\ Timely(w.events) /\ CallsValid(w) /\ LacsValid(w)
  BY DEF Valid
<1>1. r \in CallType /\ r.on = l /\ r.lac = own /\ r.state = "asked"
  BY DEF CallType
<1>2. v = IF own = NoLac THEN u ELSE [u EXCEPT !.lac[own].c = c]
  BY DEF lac_call, WithCall
<1>3. w.call[c].lac = NoLac
  BY <1>0 DEF CallsValid
<1> HIDE DEF r
<1>4. /\ u \in WorldT /\ u.lac = w.lac /\ u.tun = w.tun /\ u.events = w.events
      /\ u.call[c] = r /\ \A d \in CallId : d # c => u.call[d] = w.call[d]
  BY <1>1, CallSet
<1> HIDE DEF u
<1>5. CallsValid(u)
  BY <1>0, <1>1, <1>4, DialAssumption DEF CallsValid
<1>6. LacsValid(u)
  <2>1. \A k \in Lac : w.lac[k].c \in {0} \cup CallId
    BY <1>0, Changed DEF LacType
  <2>2. \A k \in Lac : w.lac[k].c # c
    BY <1>0, <1>3, <2>1, DialAssumption DEF LacsValid, CallId
  <2> QED
    BY <1>0, <1>4, <2>1, <2>2 DEF LacsValid
<1>7. Valid(u)
  BY <1>0, <1>4, <1>5, <1>6 DEF Valid
<1>8. /\ \A k \in Lac : k # own => (Calling(u, k) <=> Calling(w, k))
      /\ own = l => Calling(u, l)
  BY <1>1, <1>3, <1>4, DialAssumption DEF Calling
<1>9. CASE own = NoLac
  BY <1>2, <1>4, <1>7, <1>8, <1>9, DialAssumption
<1>10. CASE own # NoLac
  <2> DEFINE s == [u.lac[l] EXCEPT !.c = c]
  <2>1. own = l /\ u.lac[l] \in LacType
    BY <1>4, <1>10, Changed
  <2>2. s \in LacType
    BY <2>1, LacChanged
  <2>3. s.c = c /\ s.listed = u.lac[l].listed /\ s.active = u.lac[l].active /\ s.rsched = u.lac[l].rsched
    BY <2>1 DEF LacType
  <2>4. v = WithLac(u, l, s)
    BY <1>2, <1>10, <2>1 DEF WithLac
  <2>5. u.call[s.c].lac = l /\ (s.active \/ u.tun[l] # "none" => s.listed)
    BY <1>1, <1>4, <1>7, <2>1, <2>3 DEF Valid, LacsValid
  <2> HIDE DEF s
  <2>6. /\ Valid(v) /\ v.tun = u.tun /\ v.call = u.call /\ v.events = u.events
        /\ v.lac[l] = s /\ \A k \in Lac : k # l => v.lac[k] = u.lac[k]
        /\ \A k \in Lac : Calling(v, k) <=> Calling(u, k)
    BY <1>7, <2>2, <2>4, <2>5, LacSet
  <2>7. \A k \in Lac : v.lac[k].active = w.lac[k].active /\ v.lac[k].rsched = w.lac[k].rsched
    BY <1>4, <2>3, <2>6
  <2> QED
    BY <1>4, <1>8, <2>6, <2>7
<1> QED
  BY <1>9, <1>10

\* What a dial of l does: nothing to others, and an active LAC has what it needs.
Dialled(w, v, l) ==
  /\ Valid(v)
  /\ \A k \in Lac : Quiet(w, v, k) /\ (k # l => (Alive(w, k) => Alive(v, k)))
  /\ Idle(w, l) => Alive(v, l)

\* magic_lac_dial forgets the redial and counts the attempt.
LEMMA CountedIs ==
  ASSUME NEW w, Valid(w), NEW l \in Lac, NEW v, v = Counted(w, l)
  PROVE  /\ Valid(v) /\ v.tun = w.tun /\ v.call = w.call /\ v.events = w.events
         /\ \A k \in Lac : v.lac[k].active = w.lac[k].active
         /\ ~ v.lac[l].rsched /\ v.lac[l].rtries \in Nat
         /\ \A k \in Lac : k # l => (Alive(w, k) => Alive(v, k))
<1> DEFINE n == Min({w.lac[l].rtries + 1, MaxTries})
           r == [w.lac[l] EXCEPT !.rsched = FALSE, !.rtries = n]
<1>1. w.lac[l] \in LacType
  BY Changed DEF Valid
<1>2. n \in Nat
  <2> DEFINE S == {w.lac[l].rtries + 1, MaxTries}
  <2>1. S \subseteq Nat /\ S # {}
    BY <1>1, DialAssumption DEF LacType
  <2>2. n = Min(S)
    OBVIOUS
  <2> HIDE DEF S
  <2>3. Min(S) \in S
    BY <2>1, MinIs
  <2> QED
    BY <2>1, <2>2, <2>3
<1>3. v = WithLac(w, l, r)
  BY DEF Counted, WithLac
<1> HIDE DEF n
<1>4. r \in LacType /\ r.c = w.lac[l].c /\ r.active = w.lac[l].active /\ r.listed = w.lac[l].listed
      /\ r.rsched = FALSE /\ r.rtries = n
  BY <1>1, <1>2 DEF LacType
<1> HIDE DEF r
<1>5. (r.active \/ w.tun[l] # "none" => r.listed) /\ (r.c # 0 => w.call[r.c].lac = l)
  BY <1>4 DEF Valid, LacsValid
<1>6. /\ Valid(v) /\ v.tun = w.tun /\ v.call = w.call /\ v.events = w.events
      /\ v.lac[l] = r /\ \A k \in Lac : k # l => v.lac[k] = w.lac[k]
      /\ \A k \in Lac : k # l => (Alive(v, k) <=> Alive(w, k))
  BY <1>3, <1>4, <1>5, LacSet
<1> QED
  BY <1>2, <1>4, <1>6

\* magic_lac_dial, whatever it decides.
LEMMA MagicIs ==
  ASSUME NEW w, Valid(w), NEW l \in Lac, NEW found \in BOOLEAN, NEW c,
         w.tun[l] # "none" => c \in CallId /\ w.call[c].state = "off",
         NEW v, v = magic_lac_dial(w, l, found, c)
  PROVE  Dialled(w, v, l)
<1> DEFINE u == Counted(w, l)
<1>1. CASE ~ w.lac[l].active
  <2>1. v = w
    BY <1>1 DEF magic_lac_dial
  <2> QED
    BY <1>1, <2>1 DEF Dialled, Quiet, Alive, Sched, Kept
<1>2. CASE w.lac[l].active
  <2>1. /\ Valid(u) /\ u.tun = w.tun /\ u.call = w.call /\ u.events = w.events
        /\ \A k \in Lac : u.lac[k].active = w.lac[k].active
        /\ ~ u.lac[l].rsched /\ u.lac[l].rtries \in Nat
        /\ \A k \in Lac : k # l => (Alive(w, k) => Alive(u, k))
    BY CountedIs
  <2>2. v = IF Rmax[l] > 0 /\ u.lac[l].rtries > Rmax[l] THEN u
            ELSE IF w.tun[l] # "none" THEN lac_call(u, l, l, c)
            ELSE IF found THEN WithTunnel(u, l, "SCCRQ") ELSE RedialLater(u, l)
    BY <1>2 DEF magic_lac_dial, WithTunnel
  <2> HIDE DEF u
  <2>3. u.lac[l].active /\ Sched(u, l) /\ Idle(u, l)
    BY <1>2, <2>1 DEF Sched, Idle
  <2>4. CASE v = u /\ Rmax[l] > 0
    BY <2>1, <2>3, <2>4, DialAssumption DEF Dialled, Quiet, Alive, Kept
  <2>5. CASE w.tun[l] # "none" /\ v = lac_call(u, l, l, c)
    <3>1. /\ Valid(v) /\ v.tun = u.tun /\ v.events = u.events
          /\ \A k \in Lac : v.lac[k].active = u.lac[k].active /\ v.lac[k].rsched = u.lac[k].rsched
          /\ \A k \in Lac : k # l => (Calling(v, k) <=> Calling(u, k))
          /\ Calling(v, l)
      BY <2>1, <2>5, LacCallIs
    <3>2. \A k \in Lac : Due(v, k) <=> Due(u, k)
      BY <3>1 DEF Due
    <3>3. \A k \in Lac : k # l => (Alive(u, k) => Alive(v, k))
      BY <3>1, <3>2 DEF Alive, Sched, Kept, Idle
    <3>4. Alive(v, l)
      BY <2>1, <2>3, <3>1 DEF Alive, Sched, Kept, Idle
    <3> QED
      BY <2>1, <3>1, <3>3, <3>4 DEF Dialled, Quiet
  <2>6. CASE w.tun[l] = "none" /\ v = WithTunnel(u, l, "SCCRQ")
    <3>1. u.lac[l].listed /\ "SCCRQ" \in Phase
      BY <2>1, <2>3 DEF Valid, LacsValid, Phase
    <3>2. /\ Valid(v) /\ v.lac = u.lac /\ v.call = u.call /\ v.events = u.events
          /\ v.tun[l] = "SCCRQ" /\ \A k \in Lac : k # l => v.tun[k] = u.tun[k]
          /\ \A k \in Lac : Sched(v, k) <=> Sched(u, k)
          /\ \A k \in Lac : k # l => (Alive(v, k) <=> Alive(u, k))
      BY <2>1, <2>6, <3>1, TunnelSet
    <3>3. Alive(v, l)
      BY <2>3, <3>2 DEF Alive, Kept, Idle
    <3> QED
      BY <2>1, <2>3, <3>2, <3>3 DEF Dialled, Quiet
  <2>7. CASE v = RedialLater(u, l)
    <3>1. Redialled(u, v, l) /\ v.lac[l].c = u.lac[l].c
      BY <2>1, <2>7, RedialLaterIs DEF Valid
    <3>2. Valid(v) /\ Follows(u, v)
      BY <2>1, <3>1, RedialledKeeps
    <3>3. Alive(v, l)
      BY <2>3, <3>1 DEF Alive, Kept, Idle, Redialled
    <3> QED
      BY <2>1, <3>2, <3>3 DEF Dialled, Follows, Quiet
  <2> QED
    BY <2>2, <2>4, <2>5, <2>6, <2>7
<1> QED
  BY <1>1, <1>2

-----------------------------------------------------------------------------
(* The actions.                                                              *)

\* The next world is the one a handler made.
LEMMA BecomeIs ==
  ASSUME NEW v, v \in WorldT, Become(v)
  PROVE  World' = v
BY DEF Become, World, WorldT

\* An action that dials.
LEMMA DialIs ==
  ASSUME NEW w, Valid(w), w.call = call, NEW l \in Lac, Dial(w, l)
  PROVE  Dialled(w, World', l)
<1> DEFINE d == IF Free = {} THEN 0 ELSE Min(Free)
<1>1. PICK found \in BOOLEAN : Become(magic_lac_dial(w, l, found, d))
  BY DEF Dial
<1>2. w.tun[l] # "none" => d \in CallId /\ w.call[d].state = "off"
  <2> SUFFICES ASSUME w.tun[l] # "none" PROVE d \in CallId /\ w.call[d].state = "off"
    OBVIOUS
  <2>1. Free # {} /\ Free \subseteq Nat /\ \A x \in Free : x \in CallId /\ w.call[x].state = "off"
    BY DEF Dial, Free, CallId
  <2>2. d = Min(Free)
    BY <2>1
  <2>3. Min(Free) \in Free
    BY <2>1, MinIs
  <2> QED
    BY <2>1, <2>2, <2>3
<1> HIDE DEF d
<1> DEFINE v == magic_lac_dial(w, l, found, d)
<1>3. Dialled(w, v, l)
  BY <1>2, MagicIs
<1>4. Become(v)
  BY <1>1
<1> HIDE DEF v
<1>5. World' = v
  BY <1>3, <1>4, BecomeIs DEF Dialled, Valid
<1> QED
  BY <1>3, <1>5

\* What every action keeps: the invariant, and a LAC that nobody dials has no tunnel.
Good ==
  /\ Valid(World')
  /\ \A l \in Lac :
       /\ Alive(World', l)
       /\ ~ lac[l].active /\ ~ lac'[l].active /\ tun[l] = "none" => tun'[l] = "none"

\* The fields of the world are the variables.
LEMMA WorldIs ==
  /\ World.lac = lac /\ World.tun = tun /\ World.call = call /\ World.events = events
  /\ World'.lac = lac' /\ World'.tun = tun' /\ World'.call = call' /\ World'.events = events'
BY DEF World

\* The world of a command that makes l active, or not.
Activated(l)   == [World EXCEPT !.lac[l].active = TRUE, !.lac[l].rtries = 0]
Deactivated(l) == [World EXCEPT !.lac[l].active = FALSE, !.lac[l].rtries = 0]

\* Such a world changes one LAC.
LEMMA CommandSets ==
  ASSUME NEW l \in Lac, NEW b
  PROVE  [World EXCEPT !.lac[l].active = b, !.lac[l].rtries = 0]
           = WithLac(World, l, [lac[l] EXCEPT !.active = b, !.rtries = 0])
BY DEF World, WithLac

\* It is valid, and only at l it need not be alive.
LEMMA CommandIs ==
  ASSUME IInv, NEW l \in Lac, lac[l].listed, NEW w, w = Activated(l) \/ w = Deactivated(l)
  PROVE  /\ Valid(w) /\ w.tun = tun /\ w.call = call
         /\ w = Activated(l) => w.lac[l].active
         /\ w = Deactivated(l) => ~ w.lac[l].active
         /\ w.lac[l].rsched = lac[l].rsched /\ w.lac[l].c = lac[l].c
         /\ \A k \in Lac : k # l => w.lac[k] = lac[k]
         /\ \A k \in Lac : k # l => Alive(w, k)
         /\ \A k \in Lac : (Due(w, k) <=> Due(World, k)) /\ (Calling(w, k) <=> Calling(World, k))
<1> DEFINE r == IF w = Activated(l) THEN [lac[l] EXCEPT !.active = TRUE, !.rtries = 0]
                ELSE [lac[l] EXCEPT !.active = FALSE, !.rtries = 0]
<1>1. Valid(World) /\ World.lac[l] \in LacType
  BY Changed DEF IInv, Valid
<1>2. w = WithLac(World, l, r)
  <2>1. Activated(l) = WithLac(World, l, [lac[l] EXCEPT !.active = TRUE, !.rtries = 0])
    BY CommandSets DEF Activated
  <2>2. Deactivated(l) = WithLac(World, l, [lac[l] EXCEPT !.active = FALSE, !.rtries = 0])
    BY CommandSets DEF Deactivated
  <2>3. CASE w = Activated(l)
    BY <2>1, <2>3
  <2>4. CASE w # Activated(l)
    BY <2>2, <2>4
  <2> QED
    BY <2>3, <2>4
<1>3. /\ r \in LacType /\ r.c = lac[l].c /\ r.listed /\ r.rsched = lac[l].rsched
      /\ w = Activated(l) => r.active
      /\ w # Activated(l) => ~ r.active
  BY <1>1, WorldIs DEF LacType
<1> HIDE DEF r
<1>4. r.c # 0 => World.call[r.c].lac = l
  BY <1>1, <1>3, WorldIs DEF Valid, LacsValid
<1>5. /\ Valid(w) /\ w.tun = World.tun /\ w.call = World.call /\ w.events = World.events
      /\ w.lac[l] = r /\ \A k \in Lac : k # l => w.lac[k] = World.lac[k]
      /\ \A k \in Lac : (Due(w, k) <=> Due(World, k)) /\ (Calling(w, k) <=> Calling(World, k))
      /\ \A k \in Lac : k # l => (Alive(w, k) <=> Alive(World, k))
  BY <1>1, <1>2, <1>3, <1>4, LacSet
<1>6. Activated(l) # Deactivated(l)
  <2>1. Activated(l).lac[l].active /\ ~ Deactivated(l).lac[l].active
    BY <1>1, WorldIs, Changed DEF Activated, Deactivated, IInv, Valid, LacType, WorldT
  <2> QED
    BY <2>1
<1> QED
  BY <1>3, <1>5, <1>6, WorldIs DEF IInv

\* control_handle_lac_connect.
LEMMA ConnectIs ==
  ASSUME IInv, NEW l \in Lac, Connect(l)
  PROVE  Good
<1> DEFINE w == Activated(l)
<1>1. /\ Valid(w) /\ w.tun = tun /\ w.call = call
      /\ w.lac[l].active /\ w.lac[l].rsched = lac[l].rsched /\ w.lac[l].c = lac[l].c
      /\ \A k \in Lac : k # l => w.lac[k] = lac[k]
      /\ \A k \in Lac : k # l => Alive(w, k)
      /\ \A k \in Lac : (Due(w, k) <=> Due(World, k)) /\ (Calling(w, k) <=> Calling(World, k))
  <2>1. lac[l].listed /\ w = Activated(l)
    BY DEF Connect
  <2> HIDE DEF w
  <2> QED
    BY <2>1, CommandIs
<1>2. (lac[l].c = 0 /\ Dial(w, l)) \/ (lac[l].c # 0 /\ Become(w))
  BY DEF Connect, Activated
<1> HIDE DEF w
<1>3. CASE lac[l].c = 0 /\ Dial(w, l)
  <2>1. Dialled(w, World', l)
    BY <1>1, <1>3, DialIs
  <2>2. Idle(w, l)
    BY <1>1 DEF Idle
  <2> QED
    BY <1>1, <2>1, <2>2, WorldIs DEF Good, Dialled, Quiet
<1>4. CASE lac[l].c # 0 /\ Become(w)
  <2>1. World' = w
    BY <1>1, <1>4, BecomeIs DEF Valid
  <2>2. Calling(World, l) /\ lac[l].active
    <3>1. lac[l].c \in CallId
      BY <1>4, WorldIs, Changed DEF IInv, Valid, LacType
    <3>2. Calling(World, l)
      BY <1>4, <3>1, WorldIs DEF IInv, Valid, LacsValid, Calling
    <3> QED
      BY <3>2, WorldIs DEF IInv, Alive, Idle
  <2>3. Alive(w, l)
    BY <1>1, <2>2, WorldIs DEF IInv, Alive, Sched, Kept, Idle
  <2> QED
    BY <1>1, <2>1, <2>3, WorldIs DEF Good
<1> QED
  BY <1>2, <1>3, <1>4

\* control_handle_lac_outgoing_call by the number of a tunnel.
LEMMA CallOnTunnelIs ==
  ASSUME IInv, NEW l \in Lac, CallOnTunnel(l)
  PROVE  Good
<1> DEFINE c == Min(Free)
           v == lac_call(World, l, NoLac, c)
<1>1. tun[l] # "none" /\ Free # {} /\ Become(v)
  BY DEF CallOnTunnel
<1>2. c \in CallId /\ call[c].state = "off"
  <2>1. Free \subseteq Nat
    BY DEF Free, CallId
  <2>2. Min(Free) \in Free
    BY <1>1, <2>1, MinIs
  <2> QED
    BY <2>2 DEF Free
<1> HIDE DEF c
<1>3. /\ Valid(v) /\ v.tun = World.tun /\ v.events = World.events
      /\ \A k \in Lac : v.lac[k].active = World.lac[k].active /\ v.lac[k].rsched = World.lac[k].rsched
      /\ \A k \in Lac : k # NoLac => (Calling(v, k) <=> Calling(World, k))
  BY <1>1, <1>2, WorldIs, LacCallIs DEF IInv
<1> HIDE DEF v
<1>4. World' = v
  BY <1>1, <1>3, BecomeIs DEF Valid
<1>5. \A k \in Lac : Alive(v, k)
  <2>1. \A k \in Lac : Due(v, k) <=> Due(World, k)
    BY <1>3 DEF Due
  <2>2. \A k \in Lac : k # NoLac
    BY DialAssumption
  <2> QED
    BY <1>3, <2>1, <2>2 DEF IInv, Alive, Sched, Kept, Idle
<1> QED
  BY <1>3, <1>4, <1>5, WorldIs DEF Good

\* control_handle_lac_disconnect.
LEMMA DisconnectIs ==
  ASSUME IInv, NEW l \in Lac, Disconnect(l)
  PROVE  Good
<1> DEFINE w == Deactivated(l)
           v == CloseTunnel(w, l)
<1>1. /\ Valid(w) /\ w.tun = tun /\ w.call = call /\ ~ w.lac[l].active
      /\ \A k \in Lac : k # l => w.lac[k] = lac[k]
      /\ \A k \in Lac : k # l => Alive(w, k)
  <2>1. lac[l].listed /\ w = Deactivated(l)
    BY DEF Disconnect
  <2> HIDE DEF w
  <2> QED
    BY <2>1, CommandIs
<1>2. (tun[l] = "none" /\ Become(w)) \/ (tun[l] # "none" /\ Become(v))
  BY DEF Disconnect, Deactivated
<1> HIDE DEF w
<1>3. CASE tun[l] = "none" /\ Become(w)
  <2>1. World' = w
    BY <1>1, <1>3, BecomeIs DEF Valid
  <2>2. ~ Calling(w, l)
    BY <1>1, <1>3, DialAssumption DEF Valid, CallsValid, Calling
  <2>3. Alive(w, l)
    BY <1>1, <2>2 DEF Alive, Sched, Kept, Idle
  <2> QED
    BY <1>1, <2>1, <2>3, WorldIs DEF Good
<1>4. CASE tun[l] # "none" /\ Become(v)
  <2>1. Ended(w, v, l)
    BY <1>1, <1>4, CloseTunnelIs
  <2> HIDE DEF v
  <2>2. World' = v
    BY <1>4, <2>1, BecomeIs DEF Ended, Valid
  <2>3. Sched(w, l)
    BY <1>1 DEF Sched
  <2> QED
    BY <1>1, <1>4, <2>1, <2>2, <2>3, WorldIs DEF Good, Ended, Quiet
<1> QED
  BY <1>2, <1>3, <1>4

\* control_handle_lac_add_modify.
LEMMA AddLacIs ==
  ASSUME IInv, NEW l \in Lac, AddLac(l)
  PROVE  Good
<1> DEFINE r == [NewLac EXCEPT !.active = l \in Autodial]
           w == WithLac(World, l, r)
<1>1. ~ lac[l].listed /\ IF l \in Autodial THEN Dial(w, l) ELSE Become(w)
  BY DEF AddLac, World, WithLac
<1>2. /\ r \in LacType /\ r.c = 0 /\ r.listed /\ ~ r.rsched
      /\ r.active <=> l \in Autodial
  <2>1. CASE l \in Autodial
    <3>1. r = [NewLac EXCEPT !.active = TRUE]
      BY <2>1
    <3> HIDE DEF r
    <3> QED
      BY <2>1, <3>1 DEF NewLac, LacType
  <2>2. CASE l \notin Autodial
    <3>0. (l \in Autodial) = FALSE
      BY <2>2
    <3>1. r = [NewLac EXCEPT !.active = FALSE]
      BY <3>0, Zenon
    <3> HIDE DEF r
    <3> QED
      BY <2>2, <3>1 DEF NewLac, LacType
  <2> QED
    BY <2>1, <2>2
<1> HIDE DEF r
<1>3. tun[l] = "none" /\ ~ lac[l].active
  BY <1>1, WorldIs DEF IInv, Valid, LacsValid
<1>4. /\ Valid(w) /\ w.tun = tun /\ w.call = call
      /\ w.lac[l] = r /\ \A k \in Lac : k # l => w.lac[k] = lac[k]
      /\ \A k \in Lac : Calling(w, k) <=> Calling(World, k)
      /\ \A k \in Lac : k # l => Alive(w, k)
  <2>1. /\ Valid(w) /\ w.tun = World.tun /\ w.call = World.call
        /\ w.lac[l] = r /\ \A k \in Lac : k # l => w.lac[k] = World.lac[k]
        /\ \A k \in Lac : Calling(w, k) <=> Calling(World, k)
        /\ \A k \in Lac : k # l => (Alive(w, k) <=> Alive(World, k))
    BY <1>2, LacSet DEF IInv
  <2> QED
    BY <2>1, WorldIs DEF IInv
<1> HIDE DEF w
<1>5. Idle(w, l)
  BY <1>3, <1>4, WorldIs DEF IInv, Alive, Idle
<1>6. CASE l \in Autodial
  <2>1. Dialled(w, World', l)
    BY <1>1, <1>4, <1>6, DialIs
  <2> QED
    BY <1>2, <1>4, <1>5, <1>6, <2>1, WorldIs DEF Good, Dialled, Quiet
<1>7. CASE l \notin Autodial
  <2>1. World' = w
    BY <1>1, <1>4, <1>7, BecomeIs DEF Valid
  <2>2. Alive(w, l)
    BY <1>2, <1>4, <1>5, <1>7 DEF Alive, Sched, Kept
  <2> QED
    BY <1>2, <1>4, <1>7, <2>1, <2>2, WorldIs DEF Good
<1> QED
  BY <1>6, <1>7

\* control_handle_lac_remove, once the tunnel has no call.
LEMMA ForgottenIs ==
  ASSUME NEW w, Valid(w), NEW l \in Lac, \A c \in CallId : w.call[c].on # l /\ w.call[c].lac # l,
         NEW v, v = Forgotten(w, l)
  PROVE  /\ Valid(v) /\ ~ v.lac[l].active /\ v.tun[l] = "none" /\ Alive(v, l)
         /\ \A k \in Lac : k # l => v.lac[k] = w.lac[k] /\ v.tun[k] = w.tun[k] /\ (Alive(w, k) => Alive(v, k))
<1> DEFINE r == [NewLac EXCEPT !.listed = FALSE]
           a == [w.lac EXCEPT ![l] = r]
           t == [w.tun EXCEPT ![l] = "none"]
           q == [i \in DOMAIN w.events |-> IF w.events[i].lac = l THEN [w.events[i] EXCEPT !.stale = TRUE]
                                       ELSE w.events[i]]
<1>0. /\ w \in WorldT /\ Timely(w.events) /\ CallsValid(w) /\ LacsValid(w)
      /\ w.lac \in [Lac -> LacType] /\ w.tun \in [Lac -> Phase]
      /\ w.call \in [CallId -> CallType] /\ w.events \in Seq(Event)
  BY Changed DEF Valid
<1>1. /\ v.lac = a /\ v.tun = t /\ v.events = q
      /\ v.call = [c \in CallId |-> IF w.lac[l].c # 0 /\ w.call[c].on = l
                                    THEN [w.call[c] EXCEPT !.lac = NoLac] ELSE w.call[c]]
      /\ v = [lac |-> v.lac, tun |-> v.tun, call |-> v.call, events |-> v.events]
  <2> DEFINE d == [c \in CallId |-> IF w.lac[l].c # 0 /\ w.call[c].on = l
                                  THEN [w.call[c] EXCEPT !.lac = NoLac] ELSE w.call[c]]
             w1 == [w EXCEPT !.lac = a]
             w2 == [w1 EXCEPT !.tun = t]
             w3 == [w2 EXCEPT !.call = d]
  <2>1. v = [w3 EXCEPT !.events = q]
    BY DEF Forgotten
  <2> HIDE DEF a, t, q, d
  <2>2. /\ v.lac = a /\ v.tun = t /\ v.events = q /\ v.call = d
        /\ v = [lac |-> v.lac, tun |-> v.tun, call |-> v.call, events |-> v.events]
    BY <1>0, <2>1 DEF WorldT
  <2> QED
    BY <2>2 DEF d
<1>2. v.call = w.call
  BY <1>0, <1>1
<1>3. r \in LacType /\ ~ r.active /\ ~ r.rsched /\ r.c = 0 /\ ~ r.listed
  BY DEF NewLac, LacType
<1> HIDE DEF r
<1>4. a \in [Lac -> LacType] /\ a[l] = r /\ \A k \in Lac : k # l => a[k] = w.lac[k]
  BY <1>0, <1>3
<1>5. t \in [Lac -> Phase] /\ t[l] = "none" /\ \A k \in Lac : k # l => t[k] = w.tun[k]
  BY <1>0 DEF Phase
<1> HIDE DEF a, t
<1>6. /\ q \in Seq(Event) /\ DOMAIN q = DOMAIN w.events
      /\ \A i \in DOMAIN q : /\ q[i].in = w.events[i].in /\ q[i].lac = w.events[i].lac
                             /\ q[i].stale <=> w.events[i].stale \/ w.events[i].lac = l
  <2>1. DOMAIN w.events = 1 .. Len(w.events) /\ Len(w.events) \in Nat /\ \A i \in DOMAIN w.events : w.events[i] \in Event
    BY <1>0, LenProperties, ElementOfSeq
  <2>2. \A i \in DOMAIN w.events : /\ q[i] \in Event
                                   /\ q[i].in = w.events[i].in /\ q[i].lac = w.events[i].lac
                                   /\ q[i].stale <=> w.events[i].stale \/ w.events[i].lac = l
    BY <2>1 DEF Event
  <2>3. DOMAIN q = 1 .. Len(w.events)
    BY <2>1
  <2>4. q \in [1 .. Len(w.events) -> Event]
    BY <2>1, <2>2
  <2>5. q \in Seq(Event)
    BY <2>1, <2>4, SeqDef
  <2> QED
    BY <2>1, <2>2, <2>3, <2>5
<1> HIDE DEF q
<1>7. v \in WorldT
  BY <1>0, <1>1, <1>2, <1>4, <1>5, <1>6 DEF WorldT
<1>8. Timely(v.events)
  BY <1>0, <1>1, <1>6 DEF Timely
<1>9. CallsValid(v)
  <2>1. \A c \in CallId : w.call[c].on \in Lac \cup {NoLac}
    BY <1>0 DEF CallType
  <2> QED
    BY <1>0, <1>1, <1>2, <1>5, <2>1 DEF CallsValid
<1>10. LacsValid(v)
  BY <1>0, <1>1, <1>2, <1>3, <1>4, <1>5 DEF LacsValid
<1>11. Alive(v, l)
  BY <1>1, <1>2, <1>3, <1>4 DEF Alive, Sched, Kept, Idle, Calling
<1>12. \A k \in Lac : k # l => (Alive(w, k) => Alive(v, k))
  <2>1. \A k \in Lac : k # l => (Due(w, k) => Due(v, k))
    BY <1>1, <1>6 DEF Due
  <2> QED
    BY <1>1, <1>2, <1>4, <1>5, <2>1 DEF Alive, Sched, Kept, Idle, Calling
<1> QED
  BY <1>1, <1>3, <1>4, <1>5, <1>7, <1>8, <1>9, <1>10, <1>11, <1>12 DEF Valid

\* control_handle_lac_remove.
LEMMA RemoveLacIs ==
  ASSUME IInv, NEW l \in Lac, RemoveLac(l)
  PROVE  Good
<1> DEFINE w == Deactivated(l)
           u == IF tun[l] = "none" THEN w ELSE CloseTunnel(w, l)
           v == Forgotten(u, l)
<1>1. Become(v)
  BY DEF RemoveLac, Deactivated
<1>2. /\ Valid(w) /\ w.tun = tun /\ w.call = call /\ ~ w.lac[l].active
      /\ \A k \in Lac : k # l => w.lac[k] = lac[k]
      /\ \A k \in Lac : k # l => Alive(w, k)
  <2>1. lac[l].listed /\ w = Deactivated(l)
    BY DEF RemoveLac
  <2> HIDE DEF w
  <2> QED
    BY <2>1, CommandIs
<1> HIDE DEF w
<1>3. /\ Valid(u) /\ \A c \in CallId : u.call[c].on # l /\ u.call[c].lac # l
      /\ \A k \in Lac : k # l => Quiet(w, u, k) /\ Alive(u, k)
  <2>1. CASE tun[l] = "none"
    BY <1>2, <2>1, DialAssumption DEF Valid, CallsValid, Quiet
  <2>2. CASE tun[l] # "none"
    <3>1. Ended(w, u, l)
      BY <1>2, <2>2, CloseTunnelIs
    <3> QED
      BY <1>2, <3>1 DEF Ended
  <2> QED
    BY <2>1, <2>2
<1> HIDE DEF u
<1>4. /\ Valid(v) /\ ~ v.lac[l].active /\ v.tun[l] = "none" /\ Alive(v, l)
      /\ \A k \in Lac : k # l => v.lac[k] = u.lac[k] /\ v.tun[k] = u.tun[k] /\ (Alive(u, k) => Alive(v, k))
  BY <1>3, ForgottenIs
<1> HIDE DEF v
<1>5. World' = v
  BY <1>1, <1>4, BecomeIs DEF Valid
<1> QED
  BY <1>2, <1>3, <1>4, <1>5, WorldIs DEF Good, Quiet

\* A tunnel comes up, is closed or is stopped.
LEMMA TunnelActionsAre ==
  ASSUME IInv, NEW l \in Lac, TunnelComesUp(l) \/ TunnelCloses(l) \/ TunnelIsStopped(l)
  PROVE  Good
<1>0. Valid(World) /\ \A k \in Lac : Alive(World, k)
  BY DEF IInv
<1>1. CASE TunnelComesUp(l)
  <2> DEFINE w == WithTunnel(World, l, "SCCCN")
  <2>1. tun[l] = "SCCRQ" /\ Dial(w, l)
    BY <1>1 DEF TunnelComesUp, WithTunnel
  <2>2. World.lac[l].listed /\ "SCCCN" \in Phase
    BY <1>0, <2>1, WorldIs DEF Valid, LacsValid, Phase
  <2> HIDE DEF w
  <2>3. /\ Valid(w) /\ w.lac = lac /\ w.call = call
        /\ \A k \in Lac : k # l => w.tun[k] = tun[k]
        /\ \A k \in Lac : k # l => Alive(w, k)
    <3>1. /\ Valid(w) /\ w.lac = World.lac /\ w.call = World.call
          /\ \A k \in Lac : k # l => w.tun[k] = World.tun[k]
          /\ \A k \in Lac : k # l => (Alive(w, k) <=> Alive(World, k))
      BY <1>0, <2>2, TunnelSet DEF w
    <3> QED
      BY <1>0, <3>1, WorldIs
  <2>4. Idle(w, l)
    BY <1>0, <2>3, WorldIs DEF Alive, Idle, Calling
  <2>5. Dialled(w, World', l)
    BY <2>1, <2>3, DialIs
  <2> QED
    BY <2>1, <2>3, <2>4, <2>5, WorldIs DEF Good, Dialled, Quiet
<1>2. ASSUME NEW v, Ended(World, v, l), Become(v)
      PROVE  Good
  <2>1. World' = v
    BY <1>2, BecomeIs DEF Ended, Valid
  <2> QED
    BY <1>0, <1>2, <2>1, WorldIs DEF Good, Ended, Quiet, Alive
<1>3. CASE TunnelCloses(l)
  <2> DEFINE v == CloseTunnel(World, l)
  <2>1. tun[l] # "none" /\ Become(v)
    BY <1>3 DEF TunnelCloses
  <2>2. Ended(World, v, l)
    BY <1>0, <2>1, WorldIs, CloseTunnelIs
  <2> QED
    BY <1>2, <2>1, <2>2
<1>4. CASE TunnelIsStopped(l)
  <2> DEFINE v == destroy_tunnel(World, l)
  <2>1. Become(v)
    BY <1>4 DEF TunnelIsStopped
  <2>2. Ended(World, v, l)
    BY <1>0, DestroyTunnelIs
  <2> QED
    BY <1>2, <2>1, <2>2
<1> QED
  BY <1>1, <1>3, <1>4

\* A call comes up.
LEMMA CallComesUpIs ==
  ASSUME IInv, NEW c \in CallId, CallComesUp(c)
  PROVE  Good
<1>0. /\ Valid(World) /\ \A k \in Lac : Alive(World, k)
      /\ lac \in [Lac -> LacType] /\ call \in [CallId -> CallType] /\ World' = [lac |-> lac', tun |-> tun', call |-> call', events |-> events']
  BY WorldIs, Changed DEF IInv, Valid, World
<1>1. tun' = tun /\ events' = events /\ call[c].state = "asked"
  BY DEF CallComesUp
<1>2. /\ call' \in [CallId -> CallType]
      /\ \A d \in CallId : /\ call'[d].on = call[d].on /\ call'[d].lac = call[d].lac
                           /\ call'[d].state = "off" <=> call[d].state = "off"
  <2>1. /\ [call[c] EXCEPT !.state = "up"] \in CallType
        /\ [call[c] EXCEPT !.state = "up"].on = call[c].on /\ [call[c] EXCEPT !.state = "up"].lac = call[c].lac
        /\ [call[c] EXCEPT !.state = "up"].state = "up"
    BY <1>0 DEF CallType
  <2>2. call' = [call EXCEPT ![c] = [call[c] EXCEPT !.state = "up"]]
    BY DEF CallComesUp
  <2> QED
    BY <1>0, <1>1, <2>1, <2>2
<1>3. /\ lac' \in [Lac -> LacType]
      /\ \A k \in Lac : /\ lac'[k].active = lac[k].active /\ lac'[k].listed = lac[k].listed
                        /\ lac'[k].rsched = lac[k].rsched /\ lac'[k].c = lac[k].c
  <2>1. CASE call[c].lac = NoLac
    BY <1>0, <2>1 DEF CallComesUp
  <2>2. CASE call[c].lac # NoLac
    <3> DEFINE l == call[c].lac
               r == [lac[l] EXCEPT !.rtries = 0]
    <3>1. l \in Lac /\ lac[l] \in LacType
      BY <1>0, <2>2 DEF CallType
    <3>2. lac' = [lac EXCEPT ![l] = r]
      BY <2>2 DEF CallComesUp
    <3>3. r \in LacType /\ r.active = lac[l].active /\ r.listed = lac[l].listed /\ r.rsched = lac[l].rsched /\ r.c = lac[l].c
      BY <3>1 DEF LacType
    <3> HIDE DEF l, r
    <3> QED
      BY <1>0, <3>1, <3>2, <3>3
  <2> QED
    BY <2>1, <2>2
<1>4. World' \in WorldT /\ Timely(World'.events)
  BY <1>0, <1>1, <1>2, <1>3, WorldIs DEF Valid, WorldT
<1>5. CallsValid(World')
  BY <1>0, <1>1, <1>2, WorldIs DEF Valid, CallsValid
<1>6. LacsValid(World')
  <2>1. \A k \in Lac : lac[k].c \in {0} \cup CallId
    BY <1>0 DEF LacType
  <2> QED
    BY <1>0, <1>1, <1>2, <1>3, <2>1, WorldIs DEF Valid, LacsValid
<1>7. \A k \in Lac : Alive(World', k)
  <2>1. \A k \in Lac : (Due(World', k) <=> Due(World, k)) /\ (Calling(World', k) <=> Calling(World, k))
    BY <1>1, <1>2, WorldIs DEF Due, Calling
  <2> QED
    BY <1>0, <1>1, <1>3, <2>1, WorldIs DEF Alive, Sched, Kept, Idle
<1> QED
  BY <1>1, <1>4, <1>5, <1>6, <1>7 DEF Good, Valid

\* A call is closed or stopped.
LEMMA CallEndsAre ==
  ASSUME IInv, NEW c \in CallId, CallCloses(c) \/ CallIsStopped(c)
  PROVE  Good
<1>0. Valid(World) /\ \A k \in Lac : Alive(World, k)
  BY DEF IInv
<1>1. call[c].state # "off"
  BY DEF CallCloses, CallIsStopped
<1>2. ASSUME NEW v, Valid(v), Follows(World, v), Become(v)
      PROVE  Good
  <2>1. World' = v
    BY <1>2, BecomeIs DEF Valid
  <2> QED
    BY <1>0, <1>2, <2>1, WorldIs DEF Good, Follows, Quiet
<1>3. CASE CallCloses(c)
  <2> DEFINE v == CloseCall(World, c)
  <2>1. Become(v)
    BY <1>3 DEF CallCloses
  <2>2. Valid(v) /\ Follows(World, v)
    BY <1>0, <1>1, WorldIs, CloseCallIs
  <2> QED
    BY <1>2, <2>1, <2>2
<1>4. CASE CallIsStopped(c)
  <2> DEFINE v == DestroyCall(World, c)
  <2>1. Become(v)
    BY <1>4 DEF CallIsStopped
  <2>2. Valid(v) /\ Follows(World, v)
    BY <1>0, <1>1, WorldIs, DestroyCallIs
  <2> QED
    BY <1>2, <2>1, <2>2
<1> QED
  BY <1>3, <1>4

\* process_schedule.
LEMMA RunEventIs ==
  ASSUME IInv, RunEvent
  PROVE  Good
<1> DEFINE w == [World EXCEPT !.events = Tail(events)]
           e == Head(events)
<1>0. /\ Valid(World) /\ \A k \in Lac : Alive(World, k)
      /\ World \in WorldT /\ events \in Seq(Event) /\ events # <<>>
  BY WorldIs, Changed DEF IInv, Valid, RunEvent
<1>1. IF e.stale THEN Become(w) ELSE Dial(w, e.lac)
  BY DEF RunEvent, World
<1>2. /\ e \in Event /\ e = events[1] /\ Tail(events) \in Seq(Event)
      /\ DOMAIN events = 1 .. Len(events) /\ Len(events) \in Nat \ {0}
      /\ DOMAIN Tail(events) = 1 .. (Len(events) - 1)
      /\ \A i \in DOMAIN Tail(events) : Tail(events)[i] = events[i + 1]
  <2>1. e \in Event /\ Tail(events) \in Seq(Event) /\ Len(Tail(events)) = Len(events) - 1
        /\ \A i \in 1 .. Len(Tail(events)) : Tail(events)[i] = events[i + 1]
    BY <1>0, HeadTailProperties
  <2>2. DOMAIN Tail(events) = 1 .. Len(Tail(events)) /\ DOMAIN events = 1 .. Len(events)
    BY <1>0, <2>1, LenProperties
  <2>3. Len(events) \in Nat \ {0}
    BY <1>0, EmptySeq
  <2>4. e = events[1]
    BY <1>0
  <2> QED
    BY <2>1, <2>2, <2>3, <2>4
<1>3. w \in WorldT /\ w.lac = lac /\ w.tun = tun /\ w.call = call /\ w.events = Tail(events)
  BY <1>0, <1>2, WorldIs DEF WorldT
<1> HIDE DEF w, e
<1>4. Timely(w.events)
  BY <1>0, <1>2, <1>3, WorldIs DEF Valid, Timely
<1>5. Valid(w)
  BY <1>0, <1>3, <1>4, WorldIs DEF Valid, CallsValid, LacsValid
<1>6. \A k \in Lac : e.stale \/ e.lac # k => (Due(World, k) => Due(w, k))
  <2> SUFFICES ASSUME NEW k \in Lac, e.stale \/ e.lac # k, Due(World, k)
               PROVE  Due(w, k)
    OBVIOUS
  <2>1. PICK i \in DOMAIN events : events[i].lac = k /\ ~ events[i].stale
    BY WorldIs DEF Due
  <2>2. i # 1
    BY <1>2, <2>1
  <2>3. (i - 1) \in DOMAIN Tail(events) /\ Tail(events)[i - 1] = events[i]
    BY <1>2, <2>1, <2>2
  <2> QED
    BY <1>3, <2>1, <2>3 DEF Due
<1>7. \A k \in Lac : e.stale \/ e.lac # k => Alive(w, k)
  BY <1>0, <1>3, <1>6, WorldIs DEF Alive, Sched, Kept, Idle, Calling
<1>8. CASE e.stale
  <2>1. World' = w
    BY <1>1, <1>3, <1>8, BecomeIs
  <2> QED
    BY <1>3, <1>5, <1>7, <1>8, <2>1, WorldIs DEF Good
<1>9. CASE ~ e.stale
  <2> DEFINE l == e.lac
  <2>1. l \in Lac
    BY <1>2 DEF Event
  <2>2. Dial(w, l)
    BY <1>1, <1>9
  <2>3. Dialled(w, World', l)
    BY <1>3, <1>5, <2>1, <2>2, DialIs
  <2>4. Idle(w, l)
    BY <1>0, <1>3, <2>1, WorldIs DEF Alive, Idle, Calling
  <2> QED
    BY <1>3, <1>7, <2>1, <2>3, <2>4, WorldIs DEF Good, Dialled, Quiet
<1> QED
  BY <1>8, <1>9

\* Time goes on.
LEMMA TickIs ==
  ASSUME IInv, Tick
  PROVE  Good
<1>0. /\ Valid(World) /\ \A k \in Lac : Alive(World, k)
      /\ World \in WorldT /\ events \in Seq(Event) /\ World' = [lac |-> lac', tun |-> tun', call |-> call', events |-> events']
  BY WorldIs, Changed DEF IInv, Valid, World
<1>1. lac' = lac /\ tun' = tun /\ call' = call
  BY DEF Tick
<1>2. DOMAIN events = 1 .. Len(events) /\ Len(events) \in Nat /\ \A i \in DOMAIN events : events[i] \in Event
  BY <1>0, LenProperties, ElementOfSeq
<1>3. /\ DOMAIN events' = DOMAIN events
      /\ \A i \in DOMAIN events :
           /\ events'[i] \in Event /\ events'[i].lac = events[i].lac /\ events'[i].stale = events[i].stale
           /\ events[i].in \in Nat /\ events'[i].in = IF events[i].in = 0 THEN 0 ELSE events[i].in - 1
  BY <1>2 DEF Tick, Event
<1>4. events' \in Seq(Event)
  <2>1. events' \in [1 .. Len(events) -> Event]
    BY <1>2, <1>3 DEF Tick
  <2> QED
    BY <1>2, <2>1, SeqDef
<1>5. World' \in WorldT
  BY <1>0, <1>1, <1>4, WorldIs DEF WorldT
<1>6. Timely(events')
  <2>1. \A i \in DOMAIN events : events[i].in <= Rtimeout[events[i].lac] /\ Rtimeout[events[i].lac] \in Nat
    BY <1>0, <1>2, WorldIs, DialAssumption DEF Valid, Timely, Event
  <2>2. \A i, j \in DOMAIN events : i < j => events[i].in <= events[j].in
    BY <1>0, WorldIs DEF Valid, Timely
  <2>3. \A i \in DOMAIN events' : events'[i].in <= Rtimeout[events'[i].lac]
    BY <1>3, <2>1
  <2>4. \A i, j \in DOMAIN events' : i < j => events'[i].in <= events'[j].in
    BY <1>3, <2>2
  <2> QED
    BY <2>3, <2>4 DEF Timely
<1>7. \A k \in Lac : (Due(World', k) <=> Due(World, k)) /\ (Calling(World', k) <=> Calling(World, k))
  BY <1>1, <1>3, WorldIs DEF Due, Calling
<1>8. \A k \in Lac : Alive(World', k)
  BY <1>0, <1>1, <1>7, WorldIs DEF Alive, Sched, Kept, Idle
<1>9. Valid(World')
  BY <1>0, <1>1, <1>5, <1>6, WorldIs DEF Valid, CallsValid, LacsValid
<1> QED
  BY <1>1, <1>8, <1>9 DEF Good

-----------------------------------------------------------------------------
(* The invariant, and what follows from it.                                  *)

\* The LACs of the configuration, after the autodials.
LEMMA Initial == Init => IInv
<1> SUFFICES ASSUME Init PROVE IInv
  OBVIOUS
<1>1. PICK up \in SUBSET Autodial :
        LET lost == {l \in Autodial \ up : l \in Redial /\ Rtimeout[l] > 0}
        IN /\ lac = [l \in Lac |-> [NewLac EXCEPT !.active = l \in Autodial, !.rsched = l \in lost,
                                                !.rtries = IF l \in Autodial THEN 1 ELSE 0]]
           /\ tun = [l \in Lac |-> IF l \in up THEN "SCCRQ" ELSE "none"]
           /\ call = [c \in CallId |-> NoCall]
           /\ \E q \in Bijection(1 .. Cardinality(lost), lost) :
                /\ \A i, j \in DOMAIN q : i < j => Rtimeout[q[i]] <= Rtimeout[q[j]]
                /\ events = [i \in DOMAIN q |-> [in |-> Rtimeout[q[i]], lac |-> q[i], stale |-> FALSE]]
  BY DEF Init
<1> DEFINE lost == {l \in Autodial \ up : l \in Redial /\ Rtimeout[l] > 0}
           n == Cardinality(lost)
<1>2. PICK q \in Bijection(1 .. n, lost) :
        /\ \A i, j \in DOMAIN q : i < j => Rtimeout[q[i]] <= Rtimeout[q[j]]
        /\ events = [i \in DOMAIN q |-> [in |-> Rtimeout[q[i]], lac |-> q[i], stale |-> FALSE]]
  BY <1>1
<1>3. lost \subseteq Lac /\ n \in Nat
  <2>1. lost \subseteq Lac
    BY DialAssumption
  <2> QED
    BY <2>1, DialAssumption, FS_Subset, FS_CardinalityType
<1>4. q \in [1 .. n -> lost] /\ \A l \in lost : \E i \in 1 .. n : q[i] = l
  BY DEF Bijection, Injection, Surjection
<1>5. \A l \in Lac : l \in lost <=> l \in Autodial /\ l \notin up /\ l \in Redial /\ Rtimeout[l] > 0
  OBVIOUS
<1>6. /\ \A l \in Lac : lac[l] = [listed |-> TRUE, active |-> l \in Autodial, rsched |-> l \in lost,
                                  rtries |-> IF l \in Autodial THEN 1 ELSE 0, c |-> 0]
      /\ lac = [l \in Lac |-> lac[l]]
  BY <1>1 DEF NewLac
<1> HIDE DEF lost, n
<1>7. \A l \in Lac : /\ lac[l] \in LacType /\ lac[l].listed /\ lac[l].c = 0
                     /\ (lac[l].active <=> l \in Autodial) /\ (lac[l].rsched <=> l \in lost)
  <2> SUFFICES ASSUME NEW l \in Lac
               PROVE  /\ lac[l] \in LacType /\ lac[l].listed /\ lac[l].c = 0
                      /\ (lac[l].active <=> l \in Autodial) /\ (lac[l].rsched <=> l \in lost)
    OBVIOUS
  <2>1. PICK r \in Nat : lac[l] = [listed |-> TRUE, active |-> l \in Autodial, rsched |-> l \in lost,
                                  rtries |-> r, c |-> 0]
    <3>1. (IF l \in Autodial THEN 1 ELSE 0) \in Nat
      OBVIOUS
    <3> QED
      BY <1>6, <3>1, Zenon
  <2>2. CASE l \in Autodial /\ l \in lost
    <3>1. (l \in Autodial) = TRUE /\ (l \in lost) = TRUE
      BY <2>2
    <3>2. lac[l] = [listed |-> TRUE, active |-> TRUE, rsched |-> TRUE, rtries |-> r, c |-> 0]
      BY <2>1, <3>1, Zenon
    <3> QED
      BY <2>2, <3>2 DEF LacType
  <2>3. CASE l \in Autodial /\ l \notin lost
    <3>1. (l \in Autodial) = TRUE /\ (l \in lost) = FALSE
      BY <2>3
    <3>2. lac[l] = [listed |-> TRUE, active |-> TRUE, rsched |-> FALSE, rtries |-> r, c |-> 0]
      BY <2>1, <3>1, Zenon
    <3> QED
      BY <2>3, <3>2 DEF LacType
  <2>4. CASE l \notin Autodial
    <3>1. (l \in Autodial) = FALSE /\ (l \in lost) = FALSE /\ l \notin lost
      BY <1>5, <2>4
    <3>2. lac[l] = [listed |-> TRUE, active |-> FALSE, rsched |-> FALSE, rtries |-> r, c |-> 0]
      BY <2>1, <3>1, Zenon
    <3> QED
      BY <2>4, <3>1, <3>2 DEF LacType
  <2> QED
    BY <2>2, <2>3, <2>4
<1>8. lac \in [Lac -> LacType]
  BY <1>6, <1>7
<1>9. /\ tun \in [Lac -> Phase] /\ call \in [CallId -> CallType]
      /\ \A l \in Lac : tun[l] = IF l \in up THEN "SCCRQ" ELSE "none"
      /\ \A c \in CallId : call[c].on = NoLac /\ call[c].lac = NoLac /\ call[c].state = "off"
  BY <1>1 DEF Phase, CallType, NoCall
<1>10. /\ events \in Seq(Event) /\ DOMAIN events = 1 .. n
       /\ \A i \in 1 .. n : events[i].in = Rtimeout[q[i]] /\ events[i].lac = q[i] /\ events[i].stale = FALSE
  <2>1. \A i \in 1 .. n : q[i] \in Lac /\ Rtimeout[q[i]] \in Nat
    BY <1>3, <1>4, DialAssumption
  <2>2. events = [i \in 1 .. n |-> [in |-> Rtimeout[q[i]], lac |-> q[i], stale |-> FALSE]]
    BY <1>2, <1>4
  <2>3. events \in [1 .. n -> Event]
    BY <2>1, <2>2 DEF Event
  <2>4. events \in Seq(Event)
    BY <1>3, <2>3, SeqDef
  <2> QED
    BY <2>2, <2>4
<1>11. Timely(events)
  <2>1. \A i \in 1 .. n : Rtimeout[q[i]] \in Nat
    BY <1>3, <1>4, DialAssumption
  <2>2. \A i, j \in 1 .. n : i < j => Rtimeout[q[i]] <= Rtimeout[q[j]]
    BY <1>2, <1>4
  <2> QED
    BY <1>10, <2>1, <2>2 DEF Timely
<1>12. World \in WorldT
  BY <1>8, <1>9, <1>10 DEF World, WorldT
<1>13. CallsValid(World) /\ LacsValid(World)
  BY <1>7, <1>9, WorldIs DEF CallsValid, LacsValid
<1>14. \A l \in lost : Due(World, l)
  BY <1>4, <1>10, WorldIs DEF Due
<1>15. \A l \in Lac : Alive(World, l)
  <2>1. \A l \in Lac : ~ Calling(World, l)
    BY <1>9, WorldIs, DialAssumption DEF Calling
  <2> QED
    BY <1>5, <1>7, <1>9, <1>14, <2>1, WorldIs DEF Alive, Sched, Kept, Idle
<1> QED
  BY <1>11, <1>12, <1>13, <1>15, WorldIs DEF IInv, Valid

\* The invariant holds initially and every action keeps it.
THEOREM Invariance == Spec => []IInv
<1>1. Init => IInv
  BY Initial
<1>2. IInv /\ [Next]_vars => IInv'
  <2> SUFFICES ASSUME IInv, [Next]_vars PROVE IInv'
    OBVIOUS
  <2>1. CASE Next
    <3>1. Good
      BY <2>1, ConnectIs, CallOnTunnelIs, DisconnectIs, AddLacIs, RemoveLacIs, TunnelActionsAre,
         CallComesUpIs, CallEndsAre, RunEventIs, TickIs DEF Next
    <3> QED
      BY <3>1 DEF Good, IInv
  <2>2. CASE UNCHANGED vars
    BY <2>2 DEF vars, IInv, Valid, Alive, Sched, Kept, Idle, Calling, Due, World, CallsValid, LacsValid
  <2> QED
    BY <2>1, <2>2
<1> QED
  BY <1>1, <1>2, PTL DEF Spec

\* The types of LACs, tunnels, calls and redials, and the order of the queue (scheduler.c).
THEOREM TypeCorrect == Spec => []TypeOK
<1>1. IInv => TypeOK
  BY WorldIs, Changed DEF IInv, Valid, Timely, TypeOK, QueueOrdered
<1> QED
  BY <1>1, Invariance, PTL

\* An active LAC without a limit on redials always has one due, or a tunnel that comes or
\* goes, or a call (destroy_tunnel, destroy_call, magic_lac_dial).
THEOREM NeverLeftAlone == Spec => []NeverStranded
<1>1. IInv => NeverStranded
  <2> SUFFICES ASSUME IInv, NEW l \in Redial, lac[l].active, Rtimeout[l] > 0, Rmax[l] = 0
               PROVE  Pending(l) \/ tun[l] \in {"SCCRQ", "closing"} \/ CallsFor(l) # {}
    BY DEF NeverStranded
  <2>1. l \in Lac
    BY DialAssumption
  <2>2. Due(World, l) \/ tun[l] \in {"SCCRQ", "closing"} \/ Calling(World, l)
    BY <2>1, WorldIs DEF IInv, Alive, Kept
  <2> QED
    BY <2>2, WorldIs DEF Due, Calling, Pending, CallsFor
<1> QED
  BY <1>1, Invariance, PTL

\* No call points at a LAC that was removed, and no LAC at a call of another
\* (control_handle_lac_remove, destroy_call).
THEOREM PointersAreLive == Spec => []PointersLive
<1>1. IInv => PointersLive
  <2> SUFFICES ASSUME IInv PROVE PointersLive
    OBVIOUS
  <2>1. \A c \in CallId : call[c].lac \in Lac \cup {NoLac}
    BY WorldIs, Changed DEF IInv, Valid, CallType
  <2>2. \A c \in CallId : call[c].lac # NoLac => lac[call[c].lac].listed
    BY <2>1, WorldIs DEF IInv, Valid, CallsValid, LacsValid
  <2>3. \A l \in Lac : lac[l].c # 0 => call[lac[l].c].lac = l
    BY WorldIs DEF IInv, Valid, LacsValid
  <2> QED
    BY <2>2, <2>3 DEF PointersLive
<1> QED
  BY <1>1, Invariance, PTL

\* Nothing dials for a LAC that was disconnected, until the next command (magic_lac_dial).
THEOREM DisconnectedStaysSo == Spec => StaysDisconnected
<1> DEFINE Quietly ==
      \A l \in Lac : ~ lac[l].active /\ ~ lac'[l].active =>
        /\ tun[l] = "none" => tun'[l] = "none"
        /\ {c \in CallId : call'[c].lac = l} \subseteq CallsFor(l)
<1>1. IInv /\ [Next]_vars => [Quietly]_vars
  <2> SUFFICES ASSUME IInv, Next PROVE Quietly
    BY DEF vars
  <2>1. Good
    BY ConnectIs, CallOnTunnelIs, DisconnectIs, AddLacIs, RemoveLacIs, TunnelActionsAre,
       CallComesUpIs, CallEndsAre, RunEventIs, TickIs DEF Next
  <2>2. \A l \in Lac : ~ lac'[l].active => ~ \E c \in CallId : call'[c].lac = l
    BY <2>1, WorldIs DEF Good, Alive, Idle, Calling
  <2> QED
    BY <2>1, <2>2 DEF Good
<1> QED
  BY <1>1, Invariance, PTL DEF Spec, StaysDisconnected
=============================================================================

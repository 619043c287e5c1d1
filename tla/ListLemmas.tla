------------------------------ MODULE ListLemmas ------------------------------
(***************************************************************************)
(* Facts about least numbers, about chosen places of a sequence, and about *)
(* lists that hold each element of a set once, such as the free slots of   *)
(* the server and of the relay.                                            *)
(***************************************************************************)
EXTENDS Integers, Sequences, FiniteSetsExt, Functions, Selection,
        FiniteSetTheorems, SequenceTheorems, WellFoundedInduction, TLAPS

\* The order of the natural numbers.
Less == {ss \in Nat \X Nat : ss[1] < ss[2]}

\* It is well-founded.
LEMMA LessWellFounded == IsWellFoundedOn(Less, Nat)
BY NatLessThanWellFounded DEF OpToRel, Less

\* Every set of natural numbers has a least one, which Min chooses.
LEMMA MinIs ==
  ASSUME NEW S, S \subseteq Nat, S # {}
  PROVE  Min(S) \in S /\ \A x \in S : Min(S) <= x
<1>1. PICK m \in S : \A x \in S : ~ (<<x, m>> \in Less)
  BY LessWellFounded, WFMin
<1>2. \A x \in S : m <= x
  <2> SUFFICES ASSUME NEW x \in S PROVE m <= x
    OBVIOUS
  <2>1. <<x, m>> \in Nat \X Nat /\ <<x, m>>[1] = x /\ <<x, m>>[2] = m
    OBVIOUS
  <2>2. ~ (x < m)
    BY <1>1, <2>1 DEF Less
  <2> QED
    BY <2>2
<1> QED
  BY <1>2 DEF Min

\* Rank numbers the places of a finite set of them, in their order.
LEMMA RankIs ==
  ASSUME NEW m \in Nat, NEW I \in SUBSET (1 .. m)
  PROVE  /\ IsFiniteSet(I) /\ Cardinality(I) \in Nat
         /\ \A i \in I : Rank(I, i) \in 1 .. Cardinality(I)
         /\ \A i, j \in I : i < j => Rank(I, i) < Rank(I, j)
         /\ \A k \in 1 .. Cardinality(I) : \E i \in I : Rank(I, i) = k
<1>1. IsFiniteSet(1 .. m) /\ \A i \in I : i \in Nat
  BY FS_Interval
<1>2. IsFiniteSet(I) /\ Cardinality(I) \in Nat
  BY <1>1, FS_Subset, FS_CardinalityType
<1> DEFINE upTo(i) == {j \in I : j <= i}
<1>3. \A i \in I : /\ upTo(i) \in SUBSET I /\ IsFiniteSet(upTo(i)) /\ Cardinality(upTo(i)) \in Nat
                   /\ Cardinality(upTo(i)) <= Cardinality(I) /\ Rank(I, i) = Cardinality(upTo(i))
  BY <1>2, FS_Subset, FS_CardinalityType DEF Rank
<1>4. ASSUME NEW i \in I PROVE Rank(I, i) \in 1 .. Cardinality(I)
  <2>1. i \in upTo(i)
    OBVIOUS
  <2> HIDE DEF upTo
  <2>2. Cardinality(upTo(i)) # 0
    BY <1>3, <2>1, FS_EmptySet
  <2> QED
    BY <1>2, <1>3, <2>2
<1>5. ASSUME NEW i \in I, NEW j \in I, i < j PROVE Rank(I, i) < Rank(I, j)
  <2>1. upTo(i) \in SUBSET upTo(j) /\ j \in upTo(j) /\ j \notin upTo(i)
    <3>1. i \in Nat /\ j \in Nat /\ j <= j /\ ~ (j <= i)
      BY <1>1, <1>5
    <3>2. \A k \in I : k <= i => k <= j
      BY <1>1, <1>5, <3>1
    <3> QED
      BY <3>1, <3>2
  <2> HIDE DEF upTo
  <2>2. /\ Cardinality(upTo(i)) <= Cardinality(upTo(j))
        /\ Cardinality(upTo(i)) # Cardinality(upTo(j))
    BY <1>3, <2>1, FS_Subset
  <2> QED
    BY <1>3, <2>2
<1>6. \A k \in 1 .. Cardinality(I) : \E i \in I : Rank(I, i) = k
  <2> DEFINE n == Cardinality(I)
             f == [i \in I |-> Rank(I, i)]
  <2>1. f \in [I -> 1 .. n]
    BY <1>4
  <2>2. \A i, j \in I : i # j => Rank(I, i) # Rank(I, j)
    <3> SUFFICES ASSUME NEW i \in I, NEW j \in I, i # j PROVE Rank(I, i) # Rank(I, j)
      OBVIOUS
    <3>1. (i < j \/ j < i) /\ Rank(I, i) \in Nat /\ Rank(I, j) \in Nat
      BY <1>1, <1>2, <1>4
    <3> QED
      BY <1>5, <3>1
  <2>3. f \in Injection(I, 1 .. n)
    BY <2>1, <2>2 DEF Injection, IsInjective
  <2>4. IsFiniteSet(1 .. n) /\ Cardinality(1 .. n) = n
    BY <1>2, FS_Interval
  <2> HIDE DEF f
  <2>5. f \in Surjection(I, 1 .. n)
    BY <2>3, <2>4, FS_Injection
  <2> QED
    BY <2>5 DEF Surjection, f
<1> QED
  BY <1>2, <1>4, <1>5, <1>6

\* What is selected from a sequence: what it has at the chosen places, in their order.
LEMMA SelectedIs ==
  ASSUME NEW S, NEW q \in Seq(S), NEW I \in SUBSET (1 .. Len(q)), NEW s, s = Selected(q, I)
  PROVE  /\ s \in Seq(S) /\ Len(s) = Cardinality(I) /\ Cardinality(I) \in Nat
         /\ \A i \in I : Rank(I, i) \in 1 .. Len(s) /\ s[Rank(I, i)] = q[i]
         /\ \A i, j \in I : i < j => Rank(I, i) < Rank(I, j)
         /\ \A k \in 1 .. Len(s) : \E i \in I : Rank(I, i) = k /\ s[k] = q[i]
<1> DEFINE n == Cardinality(I)
           place(k) == CHOOSE i \in I : Rank(I, i) = k
<1>1. /\ n \in Nat /\ IsFiniteSet(I) /\ Len(q) \in Nat
      /\ \A i \in I : Rank(I, i) \in 1 .. n
      /\ \A i, j \in I : i < j => Rank(I, i) < Rank(I, j)
      /\ \A k \in 1 .. n : \E i \in I : Rank(I, i) = k
  BY RankIs, LenProperties
<1>2. \A k \in 1 .. n : place(k) \in I /\ Rank(I, place(k)) = k
  BY <1>1
<1>3. s = [k \in 1 .. n |-> q[place(k)]]
  BY DEF Selected
<1> HIDE DEF n, place
<1>4. \A k \in 1 .. n : q[place(k)] \in S
  BY <1>2, ElementOfSeq
<1>5. s \in [1 .. n -> S]
  BY <1>3, <1>4
<1>6. s \in Seq(S) /\ Len(s) = n
  BY <1>1, <1>5
<1>7. ASSUME NEW i \in I PROVE place(Rank(I, i)) = i
  <2>1. PICK j : j = place(Rank(I, i))
    OBVIOUS
  <2>2. j \in I /\ Rank(I, j) = Rank(I, i) /\ Rank(I, i) \in Nat
    BY <1>1, <1>2, <2>1
  <2>3. ~ (i < j) /\ ~ (j < i)
    BY <1>1, <2>2
  <2>4. i \in Nat /\ j \in Nat
    BY <2>2
  <2> QED
    BY <2>1, <2>3, <2>4
<1>8. \A i \in I : s[Rank(I, i)] = q[i]
  BY <1>1, <1>3, <1>7
<1>9. \A k \in 1 .. n : \E i \in I : Rank(I, i) = k /\ s[k] = q[i]
  BY <1>2, <1>3
<1> QED
  BY <1>1, <1>6, <1>8, <1>9 DEF n

\* The sequence q lists each element of S once and nothing else.
Lists(q, S) ==
  /\ q \in Seq(S)
  /\ \A i, j \in 1 .. Len(q) : i # j => q[i] # q[j]
  /\ \A s \in S : \E i \in 1 .. Len(q) : q[i] = s

\* A list is also a sequence over any larger set.
LEMMA ListsType ==
  ASSUME NEW U, NEW S \in SUBSET U, NEW q, Lists(q, S)
  PROVE  /\ q \in Seq(U)
         /\ Len(q) \in Nat
         /\ DOMAIN q = 1 .. Len(q)
         /\ \A i \in 1 .. Len(q) : q[i] \in S
<1>1. q \in Seq(S) /\ Len(q) \in Nat /\ DOMAIN q = 1 .. Len(q)
  BY LenProperties DEF Lists
<1>2. \A i \in 1 .. Len(q) : q[i] \in S
  BY <1>1, ElementOfSeq
<1> QED
  BY <1>1, <1>2, SeqDef

\* Taking the head off a list (pppoe_alloc_session, createSession).
LEMMA TailLists ==
  ASSUME NEW S, NEW q, Lists(q, S), q # <<>>
  PROVE  Head(q) \in S /\ Lists(Tail(q), S \ {Head(q)})
<1>1. q \in Seq(S) /\ Len(q) \in Nat \ {0} /\ q[1] = Head(q)
  BY EmptySeq DEF Lists
<1>2. /\ Tail(q) \in Seq(S)
      /\ Len(Tail(q)) = Len(q) - 1
      /\ \A i \in 1 .. Len(Tail(q)) : Tail(q)[i] = q[i + 1]
  BY <1>1, HeadTailProperties
<1>3. Head(q) \in S
  BY <1>1, HeadTailProperties
<1>4. \A i, j \in 1 .. Len(Tail(q)) : i # j => Tail(q)[i] # Tail(q)[j]
  BY <1>1, <1>2 DEF Lists
<1>5. Tail(q) \in Seq(S \ {Head(q)})
  <2>1. \A i \in 1 .. Len(Tail(q)) : Tail(q)[i] \in S \ {Head(q)}
    BY <1>1, <1>2 DEF Lists
  <2>2. Tail(q) \in [1 .. Len(Tail(q)) -> S] /\ Len(Tail(q)) \in Nat
    BY <1>2, LenProperties
  <2>3. Tail(q) \in [1 .. Len(Tail(q)) -> S \ {Head(q)}]
    BY <2>1, <2>2
  <2> QED
    BY <2>2, <2>3, SeqDef
<1>6. \A s \in S \ {Head(q)} : \E i \in 1 .. Len(Tail(q)) : Tail(q)[i] = s
  <2>1. SUFFICES ASSUME NEW s \in S \ {Head(q)}
                 PROVE  \E i \in 1 .. Len(Tail(q)) : Tail(q)[i] = s
    OBVIOUS
  <2>2. PICK k \in 1 .. Len(q) : q[k] = s
    BY DEF Lists
  <2>3. k # 1
    BY <1>1, <2>1, <2>2
  <2>4. k - 1 \in 1 .. Len(Tail(q)) /\ Tail(q)[k - 1] = q[k]
    BY <1>1, <1>2, <2>3
  <2> QED
    BY <2>2, <2>4
<1> QED
  BY <1>3, <1>4, <1>5, <1>6 DEF Lists

\* Freed slots join the free ones, at either end.
LEMMA ConcatLists ==
  ASSUME NEW S, NEW T, S \cap T = {}, NEW q, Lists(q, S), NEW r, Lists(r, T)
  PROVE  Lists(q \o r, S \cup T)
<1>1. /\ q \in Seq(S \cup T) /\ Len(q) \in Nat
      /\ \A i \in 1 .. Len(q) : q[i] \in S
  <2>1. S \in SUBSET (S \cup T)
    OBVIOUS
  <2> QED
    BY <2>1, ListsType
<1>2. /\ r \in Seq(S \cup T) /\ Len(r) \in Nat
      /\ \A i \in 1 .. Len(r) : r[i] \in T
  <2>1. T \in SUBSET (S \cup T)
    OBVIOUS
  <2> QED
    BY <2>1, ListsType
<1>3. /\ q \o r \in Seq(S \cup T)
      /\ Len(q \o r) = Len(q) + Len(r)
      /\ \A i \in 1 .. Len(q) + Len(r) :
           (q \o r)[i] = IF i <= Len(q) THEN q[i] ELSE r[i - Len(q)]
  BY <1>1, <1>2, ConcatProperties
<1>4. ASSUME NEW i \in 1 .. Len(q \o r), NEW j \in 1 .. Len(q \o r), i < j
      PROVE  (q \o r)[i] # (q \o r)[j]
  <2>1. CASE j <= Len(q)
    BY <1>1, <1>3, <1>4, <2>1 DEF Lists
  <2>2. CASE i > Len(q)
    <3>1. /\ i - Len(q) \in 1 .. Len(r) /\ j - Len(q) \in 1 .. Len(r)
          /\ (q \o r)[i] = r[i - Len(q)] /\ (q \o r)[j] = r[j - Len(q)]
      BY <1>1, <1>2, <1>3, <1>4, <2>2
    <3>2. i - Len(q) # j - Len(q)
      BY <1>1, <1>4
    <3>3. \A k, m \in 1 .. Len(r) : k # m => r[k] # r[m]
      BY DEF Lists
    <3>4. r[i - Len(q)] # r[j - Len(q)]
      BY <3>1, <3>2, <3>3
    <3> QED
      BY <3>1, <3>4
  <2>3. CASE i <= Len(q) /\ j > Len(q)
    <3>1. (q \o r)[i] \in S /\ (q \o r)[j] \in T
      BY <1>1, <1>2, <1>3, <1>4, <2>3
    <3> QED
      BY <3>1
  <2> QED
    BY <1>1, <1>2, <1>3, <1>4, <2>1, <2>2, <2>3
<1>5. ASSUME NEW s \in S PROVE \E i \in 1 .. Len(q \o r) : (q \o r)[i] = s
  BY <1>1, <1>2, <1>3 DEF Lists
<1>6. ASSUME NEW s \in T PROVE \E i \in 1 .. Len(q \o r) : (q \o r)[i] = s
  <2>1. PICK k \in 1 .. Len(r) : r[k] = s
    BY DEF Lists
  <2>2. Len(q) + k \in 1 .. Len(q \o r) /\ (q \o r)[Len(q) + k] = r[k]
    BY <1>1, <1>2, <1>3
  <2> QED
    BY <2>1, <2>2
<1> QED
  <2>1. \A i, j \in 1 .. Len(q \o r) : i # j => (q \o r)[i] # (q \o r)[j]
    BY <1>1, <1>2, <1>3, <1>4
  <2> QED
    BY <1>3, <1>5, <1>6, <2>1 DEF Lists

\* A single freed slot goes to the end (pppoe_free_session).
LEMMA AppendLists ==
  ASSUME NEW S, NEW x, x \notin S, NEW q, Lists(q, S)
  PROVE  Lists(Append(q, x), S \cup {x})
<1>1. /\ q \in Seq(S \cup {x}) /\ Len(q) \in Nat
      /\ \A i \in 1 .. Len(q) : q[i] \in S
  <2>1. S \in SUBSET (S \cup {x})
    OBVIOUS
  <2> QED
    BY <2>1, ListsType
<1>2. /\ Append(q, x) \in Seq(S \cup {x})
      /\ Len(Append(q, x)) = Len(q) + 1
      /\ \A i \in 1 .. Len(q) : Append(q, x)[i] = q[i]
      /\ Append(q, x)[Len(q) + 1] = x
  BY <1>1, AppendProperties
<1> DEFINE r == Append(q, x)
<1> HIDE DEF r
<1>3. /\ \A i, j \in 1 .. Len(q) : i # j => q[i] # q[j]
      /\ \A s \in S : \E i \in 1 .. Len(q) : q[i] = s
  BY DEF Lists
<1>4. /\ r \in Seq(S \cup {x}) /\ Len(r) = Len(q) + 1
      /\ \A i \in 1 .. Len(q) : r[i] = q[i] /\ r[i] \in S
      /\ r[Len(q) + 1] = x
  BY <1>1, <1>2 DEF r
<1>5. ASSUME NEW i \in 1 .. Len(r), NEW j \in 1 .. Len(r), i # j
      PROVE  r[i] # r[j]
  <2>1. \A k \in 1 .. Len(r) : k \in 1 .. Len(q) \/ k = Len(q) + 1
    BY <1>1, <1>4
  <2>2. CASE i \in 1 .. Len(q) /\ j \in 1 .. Len(q)
    BY <1>3, <1>4, <1>5, <2>2
  <2>3. CASE i \in 1 .. Len(q) /\ j = Len(q) + 1
    BY <1>4, <2>3
  <2>4. CASE i = Len(q) + 1 /\ j \in 1 .. Len(q)
    BY <1>4, <2>4
  <2> QED
    BY <1>5, <2>1, <2>2, <2>3, <2>4
<1>6. ASSUME NEW s \in S \cup {x} PROVE \E i \in 1 .. Len(r) : r[i] = s
  <2>1. CASE s \in S
    <3>1. PICK k \in 1 .. Len(q) : q[k] = s
      BY <1>3, <2>1
    <3>2. k \in 1 .. Len(r) /\ r[k] = s
      BY <1>1, <1>4, <3>1
    <3> QED
      BY <3>2
  <2>2. CASE s = x
    <3>1. Len(q) + 1 \in 1 .. Len(r)
      BY <1>1, <1>4
    <3> QED
      BY <1>4, <2>2, <3>1
  <2> QED
    BY <1>6, <2>1, <2>2
<1>7. Lists(r, S \cup {x})
  BY <1>4, <1>5, <1>6 DEF Lists
<1> QED
  BY <1>7 DEF r

\* An enumeration lists its set.
LEMMA OrdersList ==
  ASSUME NEW S, IsFiniteSet(S), NEW q \in Bijection(1 .. Cardinality(S), S)
  PROVE  Lists(q, S)
<1>1. Cardinality(S) \in Nat
  BY FS_CardinalityType
<1>2. q \in [1 .. Cardinality(S) -> S]
  BY DEF Bijection, Injection
<1>3. q \in Seq(S) /\ Len(q) = Cardinality(S)
  BY <1>1, <1>2
<1>4. \A i, j \in 1 .. Len(q) : i # j => q[i] # q[j]
  BY <1>3 DEF Bijection, Injection, IsInjective
<1>5. \A s \in S : \E i \in 1 .. Len(q) : q[i] = s
  BY <1>3 DEF Bijection, Surjection
<1> QED
  BY <1>3, <1>4, <1>5 DEF Lists

\* The slots on two lists that share none: there are as many as on both.
LEMMA FewerLeft ==
  ASSUME NEW S, IsFiniteSet(S), NEW T \in SUBSET S
  PROVE  /\ IsFiniteSet(T) /\ IsFiniteSet(S \ T)
         /\ Cardinality(T) \in Nat /\ Cardinality(S) \in Nat
         /\ Cardinality(S \ T) = Cardinality(S) - Cardinality(T)
<1>1. IsFiniteSet(T) /\ IsFiniteSet(S \ T) /\ S \cap T = T
  BY FS_Subset
<1>2. Cardinality(S \ T) = Cardinality(S) - Cardinality(S \cap T)
  BY FS_Difference
<1> QED
  BY <1>1, <1>2, FS_CardinalityType
=============================================================================

----------------------------- MODULE MsSetProofs -----------------------------
(***************************************************************************)
(* Proofs about MsSet, for any items, any hashes, however they collide,    *)
(* any number of sets and tables of any size: the tables are sound after   *)
(* any history, the operators, the methods and the comparisons are those   *)
(* of set theory, equal frozensets have equal hashes, and the tables       *)
(* implement sets.                                                         *)
(*                                                                         *)
(* The table is that of MsMap without values.  What is new here are the    *)
(* loops over a table: each is a function from the number of turns to what *)
(* the loop has made (Turns), and what it has made so far is said by an    *)
(* induction on that number (Upto).                                        *)
(***************************************************************************)
EXTENDS MsSet, MsNumbers, FiniteSetTheorems

----------------------------------------------------------------------------
(* Numbers. *)

LEMMA MinFacts ==
  ASSUME NEW S \in SUBSET Nat, S # {}
  PROVE  Min(S) \in S /\ \A k \in S : Min(S) <= k
  BY LeastNumber DEF Min

LEMMA Upto ==
  ASSUME NEW n \in Nat, NEW S, 0 \in S, \A s \in 0..n - 1 : s \in S => s + 1 \in S
  PROVE  n \in S
<1> DEFINE T == {k \in Nat : k <= n => k \in S}
<1>1. 0 \in T
  OBVIOUS
<1>2. ASSUME NEW k \in T PROVE k + 1 \in T
  <2> SUFFICES ASSUME k + 1 <= n PROVE k + 1 \in S
    OBVIOUS
  <2>1. k \in 0..n - 1 /\ k \in S
    OBVIOUS
  <2> QED BY <2>1
<1>3. T = Nat
  <2>1. T \in SUBSET Nat
    OBVIOUS
  <2> HIDE DEF T
  <2> QED BY <1>1, <1>2, <2>1, Induction
<1> QED BY <1>3

(* There is a size for every number of items, *)
LEMMA RoundUpFacts ==
  ASSUME SetAssumption, NEW n \in Nat
  PROVE  /\ roundUpPow2(n) \in Nat /\ roundUpPow2(n) >= MinCap
         /\ PowerOfTwo(roundUpPow2(n))
<1> DEFINE P(m) == {p \in MinCap..MinCap + 2 * m : PowerOfTwo(p) /\ p >= m}
           S == {m \in Nat : P(m) # {}}
<1>1. MinCap \in Nat /\ MinCap >= 4 /\ PowerOfTwo(MinCap)
  BY DEF SetAssumption
<1>2. S = Nat
  <2>1. 0 \in S
    <3>1. MinCap \in P(0)
      BY <1>1
    <3> QED BY <3>1
  <2>2. ASSUME NEW m \in S PROVE m + 1 \in S
    <3>1. PICK p \in P(m) : TRUE
      OBVIOUS
    <3>2. CASE p >= m + 1
      <4>1. p \in P(m + 1)
        BY <1>1, <3>1, <3>2
      <4> QED BY <4>1
    <3>3. CASE p = m
      <4>1. 2 * p \in P(m + 1)
        <5>1. PowerOfTwo(2 * p)
          BY <1>1, <3>1, PowerDoubles
        <5> QED BY <1>1, <3>1, <3>3, <5>1
      <4> QED BY <4>1
    <3> QED BY <1>1, <3>1, <3>2, <3>3
  <2> HIDE DEF S
  <2> QED BY <2>1, <2>2, Induction DEF S
<1>3. P(n) \in SUBSET Nat /\ P(n) # {}
  BY <1>1, <1>2
<1>4. roundUpPow2(n) = Min(P(n))
  BY DEF roundUpPow2
<1>5. roundUpPow2(n) \in P(n)
  <2> HIDE DEF P
  <2> QED BY <1>3, <1>4, MinFacts
<1> QED BY <1>1, <1>5

(* and a table that is copied has one of its own. *)
LEMMA RoundUpSame ==
  ASSUME SetAssumption, NEW c \in Nat, c >= MinCap, PowerOfTwo(c)
  PROVE  roundUpPow2(c) = c
<1> DEFINE P == {p \in MinCap..MinCap + 2 * c : PowerOfTwo(p) /\ p >= c}
<1>1. MinCap \in Nat
  BY DEF SetAssumption
<1>2. c \in P /\ P \in SUBSET Nat /\ \A p \in P : p >= c
  BY <1>1
<1>3. roundUpPow2(c) = Min(P)
  BY DEF roundUpPow2
<1>4. Min(P) \in P /\ Min(P) <= c
  <2> HIDE DEF P
  <2> QED BY <1>2, MinFacts
<1> QED BY <1>2, <1>3, <1>4

----------------------------------------------------------------------------
(* Probing a table. *)

Table(e, c) == c \in Nat \ {0} /\ e \in [0..c - 1 -> Items \cup {Never, Tombstone}]

Taken(e) == {s \in DOMAIN e : e[s] \in Items}
Gone(e) == {s \in DOMAIN e : e[s] = Tombstone}
ItemsOf(e) == {e[s] : s \in Taken(e)}

LEMMA ItemsInIs ==
  ASSUME NEW t
  PROVE  ItemsIn(t) = ItemsOf(t.entries)
  BY DEF ItemsIn, ItemsOf, Taken

LEMMA SlotFacts ==
  ASSUME SetAssumption
  PROVE  Never \notin Items /\ Tombstone \notin Items /\ Never # Tombstone
  BY DEF SetAssumption

LEMMA ProbeIs ==
  ASSUME NEW e, NEW c, Table(e, c), NEW x, NEW n
  PROVE  Probe(e, x, n) = (HashOf[x] + n) % c
<1>1. c \in Nat \ {0} /\ DOMAIN e = 0..c - 1
  BY DEF Table
<1>2. Cardinality(0..c - 1) = c
  BY <1>1, FS_Interval
<1> QED BY <1>1, <1>2 DEF Probe

LEMMA ProbeRange ==
  ASSUME SetAssumption, NEW e, NEW c, Table(e, c), NEW x \in Items, NEW n \in Nat
  PROVE  Probe(e, x, n) \in 0..c - 1
<1>1. HashOf[x] + n \in Nat /\ c \in Nat \ {0}
  BY DEF SetAssumption, Table
<1>2. (HashOf[x] + n) % c \in 0..c - 1
  BY <1>1
<1> QED BY <1>2, ProbeIs

(* A search that does not stop passes over every slot. *)
LEMMA ProbeAll ==
  ASSUME SetAssumption, NEW e, NEW c, Table(e, c), NEW x \in Items, NEW s \in 0..c - 1
  PROVE  \E n \in 0..c - 1 : Probe(e, x, n) = s
<1> DEFINE h == HashOf[x]
<1>1. h \in Nat /\ c \in Nat \ {0}
  BY DEF SetAssumption, Table
<1>2. PICK q \in Int, r \in 0..c - 1 : h = c * q + r
  BY <1>1, Division
<1> HIDE DEF h
<1>3. CASE s >= r
  <2>1. s - r \in 0..c - 1 /\ h + (s - r) = c * q + s
    BY <1>1, <1>2, <1>3
  <2>2. (h + (s - r)) % c = s
    BY <1>1, <2>1, Remainder
  <2> QED BY <2>1, <2>2, ProbeIs DEF h
<1>4. CASE s < r
  <2>1. s - r + c \in 0..c - 1 /\ h + (s - r + c) = c * (q + 1) + s /\ q + 1 \in Int
    BY <1>1, <1>2, <1>4
  <2>2. (c * (q + 1) + s) % c = s
    BY <1>1, <2>1, Remainder
  <2>3. (h + (s - r + c)) % c = s
    BY <2>1, <2>2
  <2> QED BY <2>1, <2>3, ProbeIs DEF h
<1> QED BY <1>1, <1>2, <1>3, <1>4

(* Where the search stops. *)
Last(e, x) == Min({n \in DOMAIN e : StopsAt(e, x, n)})

LEMMA LastFacts ==
  ASSUME NEW e, NEW c, Table(e, c), NEW x, ProbeEnds(e, x)
  PROVE  /\ Last(e, x) \in 0..c - 1
         /\ StopsAt(e, x, Last(e, x))
         /\ \A m \in 0..Last(e, x) - 1 : ~StopsAt(e, x, m)
<1> DEFINE S == {n \in DOMAIN e : StopsAt(e, x, n)}
<1>1. c \in Nat \ {0} /\ DOMAIN e = 0..c - 1
  BY DEF Table
<1>2. S \in SUBSET Nat /\ S # {} /\ S \subseteq 0..c - 1
  BY <1>1 DEF ProbeEnds
<1>3. Min(S) \in S /\ \A k \in S : Min(S) <= k
  <2> HIDE DEF S
  <2> QED BY <1>2, MinFacts
<1> PICK n : n = Min(S)
  OBVIOUS
<1>4. n \in 0..c - 1 /\ StopsAt(e, x, n) /\ \A k \in 0..c - 1 : StopsAt(e, x, k) => n <= k
  BY <1>1, <1>3
<1>5. \A m \in 0..n - 1 : ~StopsAt(e, x, m)
  BY <1>1, <1>4
<1>6. Last(e, x) = n
  BY DEF Last
<1> QED BY <1>4, <1>5, <1>6

(* A table that is not full has a slot where every search stops. *)
LEMMA RoomFacts ==
  ASSUME SetAssumption, NEW e, NEW c, Table(e, c),
         Cardinality(Taken(e)) + Cardinality(Gone(e)) < c
  PROVE  \A x \in Items : ProbeEnds(e, x)
<1>1. c \in Nat \ {0} /\ e \in [0..c - 1 -> Items \cup {Never, Tombstone}] /\ DOMAIN e = 0..c - 1
  BY DEF Table
<1>2. \E s \in 0..c - 1 : e[s] = Never
  <2> SUFFICES ASSUME \A s \in 0..c - 1 : e[s] # Never
               PROVE  FALSE
    OBVIOUS
  <2>1. Taken(e) \cup Gone(e) = 0..c - 1
    <3>1. \A s \in 0..c - 1 : e[s] \in Items \/ e[s] = Tombstone
      BY <1>1
    <3> QED BY <1>1, <3>1 DEF Taken, Gone
  <2>2. IsFiniteSet(0..c - 1) /\ Cardinality(0..c - 1) = c
    BY <1>1, FS_Interval
  <2>3. /\ IsFiniteSet(Taken(e)) /\ Cardinality(Taken(e)) \in Nat
        /\ IsFiniteSet(Gone(e)) /\ Cardinality(Gone(e)) \in Nat
    BY <2>1, <2>2, FS_Subset, FS_CardinalityType
  <2>4. IsFiniteSet(Taken(e) \cap Gone(e)) /\ Cardinality(Taken(e) \cap Gone(e)) \in Nat
    BY <2>3, FS_Intersection, FS_CardinalityType
  <2>5. c = Cardinality(Taken(e)) + Cardinality(Gone(e)) - Cardinality(Taken(e) \cap Gone(e))
    BY <2>1, <2>2, <2>3, FS_Union
  <2> QED BY <1>1, <2>3, <2>4, <2>5
<1>3. PICK s \in 0..c - 1 : e[s] = Never
  BY <1>2
<1>4. ASSUME NEW x \in Items PROVE ProbeEnds(e, x)
  <2>1. PICK n \in 0..c - 1 : Probe(e, x, n) = s
    BY ProbeAll
  <2>2. StopsAt(e, x, n)
    BY <1>3, <2>1 DEF StopsAt
  <2> QED BY <1>1, <2>2 DEF ProbeEnds
<1> QED BY <1>4

(* No item is twice in the table, and a search for it comes to its slot. *)
Reachable(e, c) ==
  /\ \A s, t \in Taken(e) : e[s] = e[t] => s = t
  /\ \A s \in Taken(e) : \E n \in 0..c - 1 : /\ Probe(e, e[s], n) = s
                                             /\ \A m \in 0..n - 1 : ~StopsAt(e, e[s], m)

(* The slot f is where findSlot looks for x, and what there is. *)
Found(e, c, x, f) ==
  /\ f \in 0..c - 1
  /\ e[f] \in Items <=> x \in ItemsOf(e)
  /\ e[f] \in {x, Never, Tombstone}
  /\ \A s \in Taken(e) : e[s] = x <=> s = f /\ e[f] \in Items
  /\ \E n \in 0..c - 1 :
       /\ Probe(e, x, n) = f
       /\ \A m \in 0..n - 1 : ~StopsAt(e, x, m) /\ Probe(e, x, m) # f

LEMMA FindFacts ==
  ASSUME SetAssumption, NEW e, NEW c, Table(e, c), NEW x \in Items, ProbeEnds(e, x), Reachable(e, c)
  PROVE  Found(e, c, x, findSlot(e, x))
<1> DEFINE last == Last(e, x)
           end == Probe(e, x, last)
           passed == {n \in 0..last - 1 : e[Probe(e, x, n)] = Tombstone}
           f == findSlot(e, x)
<1>1. c \in Nat \ {0} /\ e \in [0..c - 1 -> Items \cup {Never, Tombstone}] /\ DOMAIN e = 0..c - 1
  BY DEF Table
<1>2. /\ last \in 0..c - 1 /\ StopsAt(e, x, last)
      /\ \A m \in 0..last - 1 : ~StopsAt(e, x, m)
  BY LastFacts
<1>3. end \in 0..c - 1
  BY <1>1, <1>2, ProbeRange
<1>4. f = IF e[end] = Never /\ passed # {} THEN Probe(e, x, Min(passed)) ELSE end
  BY DEF findSlot, Last
<1>5. e[end] = Never \/ e[end] = x
  BY <1>2 DEF StopsAt
<1>s. Never \notin Items /\ Tombstone \notin Items /\ Never # Tombstone
  BY SlotFacts
<1> SUFFICES Found(e, c, x, f)
  OBVIOUS
<1> HIDE DEF f
<1>6. ASSUME NEW s \in Taken(e), e[s] = x PROVE s = end
  <2>1. PICK n \in 0..c - 1 : Probe(e, x, n) = s /\ \A m \in 0..n - 1 : ~StopsAt(e, x, m)
    BY <1>6 DEF Reachable
  <2>2. StopsAt(e, x, n)
    BY <1>6, <2>1 DEF StopsAt
  <2>3. n = last
    <3>1. n \notin 0..last - 1 /\ last \notin 0..n - 1
      BY <1>2, <2>1, <2>2
    <3> HIDE DEF last
    <3> QED BY <1>1, <1>2, <3>1
  <2> QED BY <2>1, <2>3
<1>7. CASE e[end] = x
  <2>1. f = end /\ e[f] = x /\ end \in Taken(e)
    BY <1>1, <1>3, <1>4, <1>7, <1>s DEF Taken
  <2>2. \A m \in 0..last - 1 : Probe(e, x, m) # f
    BY <1>2, <1>7, <2>1 DEF StopsAt
  <2>3. x \in ItemsOf(e)
    BY <2>1 DEF ItemsOf
  <2>4. \A s \in Taken(e) : e[s] = x <=> s = f /\ e[f] \in Items
    BY <1>6, <2>1
  <2>5. \E n \in 0..c - 1 : /\ Probe(e, x, n) = f
                            /\ \A m \in 0..n - 1 : ~StopsAt(e, x, m) /\ Probe(e, x, m) # f
    BY <1>2, <2>1, <2>2
  <2> HIDE DEF end, last
  <2> QED BY <1>3, <2>1, <2>3, <2>4, <2>5 DEF Found
<1>8. CASE e[end] = Never
  <2>1. \A s \in Taken(e) : e[s] # x
    BY <1>6, <1>8, <1>s DEF Taken
  <2>2. CASE passed # {}
    <3>1. passed \in SUBSET Nat
      BY <1>2
    <3>2. Min(passed) \in passed /\ \A m \in passed : Min(passed) <= m
      <4> HIDE DEF passed
      <4> QED BY <2>2, <3>1, MinFacts
    <3> PICK k : k = Min(passed)
      OBVIOUS
    <3>3. f = Probe(e, x, k) /\ e[f] = Tombstone /\ k \in 0..last - 1
      BY <1>4, <1>8, <2>2, <3>2
    <3> HIDE DEF end
    <3>4. k \in 0..c - 1 /\ \A m \in 0..k - 1 : m \in 0..last - 1
      <4> HIDE DEF passed, last
      <4> QED BY <1>1, <1>2, <3>3
    <3>5. f \in 0..c - 1
      <4>1. k \in Nat
        BY <3>4
      <4> QED BY <3>3, <4>1, ProbeRange
    <3>6. \A m \in 0..k - 1 : Probe(e, x, m) # f
      <4> TAKE m \in 0..k - 1
      <4>1. m \notin passed
        <5>1. ~(k <= m)
          BY <3>4
        <5> QED BY <3>2, <5>1
      <4>2. e[Probe(e, x, m)] # Tombstone
        BY <3>4, <4>1
      <4> QED BY <3>3, <4>2
    <3>7. \A m \in 0..k - 1 : ~StopsAt(e, x, m)
      BY <1>2, <3>4
    <3>8. x \notin ItemsOf(e)
      BY <2>1 DEF ItemsOf
    <3>9. \E n \in 0..c - 1 : /\ Probe(e, x, n) = f
                              /\ \A m \in 0..n - 1 : ~StopsAt(e, x, m) /\ Probe(e, x, m) # f
      BY <3>3, <3>4, <3>6, <3>7
    <3>10. e[f] \notin Items /\ e[f] \in {x, Never, Tombstone}
      BY <1>s, <3>3
    <3> QED BY <2>1, <3>5, <3>8, <3>9, <3>10 DEF Found
  <2>3. CASE passed = {}
    <3>1. f = end
      BY <1>4, <2>3
    <3>2. \A m \in 0..last - 1 : Probe(e, x, m) # f
      BY <1>2, <1>8, <3>1, <1>s DEF StopsAt
    <3>3. x \notin ItemsOf(e)
      BY <2>1 DEF ItemsOf
    <3>4. e[f] = Never /\ f \in 0..c - 1 /\ Probe(e, x, last) = f
      BY <1>3, <1>8, <3>1
    <3>5. \E n \in 0..c - 1 : /\ Probe(e, x, n) = f
                              /\ \A m \in 0..n - 1 : ~StopsAt(e, x, m) /\ Probe(e, x, m) # f
      BY <1>2, <3>2, <3>4
    <3>6. e[f] \notin Items /\ e[f] \in {x, Never, Tombstone}
      BY <1>s, <3>4
    <3> HIDE DEF last, end, passed
    <3> QED BY <2>1, <3>3, <3>4, <3>5, <3>6 DEF Found
  <2> QED BY <2>2, <2>3
<1> QED BY <1>5, <1>7, <1>8

----------------------------------------------------------------------------
(* Changing a table. *)

LEMMA CountFacts ==
  ASSUME NEW e, NEW c, Table(e, c)
  PROVE  /\ Taken(e) \subseteq 0..c - 1 /\ Gone(e) \subseteq 0..c - 1
         /\ IsFiniteSet(Taken(e)) /\ Cardinality(Taken(e)) \in Nat
         /\ IsFiniteSet(Gone(e)) /\ Cardinality(Gone(e)) \in Nat
<1>1. c \in Nat \ {0} /\ DOMAIN e = 0..c - 1
  BY DEF Table
<1>2. Taken(e) \subseteq 0..c - 1 /\ Gone(e) \subseteq 0..c - 1
  BY <1>1 DEF Taken, Gone
<1>3. IsFiniteSet(0..c - 1)
  BY <1>1, FS_Interval
<1> QED BY <1>2, <1>3, FS_Subset, FS_CardinalityType

LEMMA EmptyFacts ==
  ASSUME SetAssumption, NEW c \in Nat \ {0}
  PROVE  /\ Table(Empty(c), c) /\ Taken(Empty(c)) = {} /\ Gone(Empty(c)) = {}
         /\ ItemsOf(Empty(c)) = {} /\ Reachable(Empty(c), c)
<1>1. Never \notin Items /\ Tombstone \notin Items /\ Never # Tombstone
  BY SlotFacts
<1>2. Table(Empty(c), c) /\ Taken(Empty(c)) = {} /\ Gone(Empty(c)) = {}
  BY <1>1 DEF Table, Empty, Taken, Gone
<1> QED BY <1>2 DEF ItemsOf, Reachable

(* Searches that did not stop at a slot pass it as long as it holds neither *)
(* what they look for nor Never. *)
GoesOn(e, x, n) == \A m \in 0..n - 1 : ~StopsAt(e, x, m)

SameBut(e2, e, c, f) == \A s \in 0..c - 1 : s # f => e2[s] = e[s]

LEMMA PassesOn ==
  ASSUME SetAssumption, NEW e, NEW c, Table(e, c), NEW e2, Table(e2, c), NEW x \in Items, NEW n \in Nat,
         NEW f, e2[f] \notin {x, Never}, SameBut(e2, e, c, f), GoesOn(e, x, n)
  PROVE  GoesOn(e2, x, n)
<1> SUFFICES ASSUME NEW m \in 0..n - 1 PROVE ~StopsAt(e2, x, m)
  BY DEF GoesOn
<1> m \in Nat
  OBVIOUS
<1>1. Probe(e, x, m) \in 0..c - 1 /\ Probe(e2, x, m) = Probe(e, x, m)
  BY ProbeRange, ProbeIs
<1> PICK s : s = Probe(e, x, m)
  OBVIOUS
<1>2. ~StopsAt(e, x, m)
  BY DEF GoesOn
<1>3. s \in 0..c - 1 /\ Probe(e2, x, m) = s /\ e[s] \notin {Never, x}
  BY <1>1, <1>2 DEF StopsAt
<1>4. e2[s] \notin {Never, x}
  BY <1>3 DEF SameBut
<1> QED BY <1>3, <1>4 DEF StopsAt

(* An item is put where findSlot says. *)
Put(e, x) == [e EXCEPT ![findSlot(e, x)] = x]

Placed(e, c, x, f, e2) ==
  /\ Table(e2, c) /\ f \in 0..c - 1
  /\ Taken(e2) = Taken(e) \cup {f} /\ Gone(e2) = Gone(e) \ {f}
  /\ f \in Taken(e) <=> e[f] = x
  /\ f \in Gone(e) <=> e[f] = Tombstone
  /\ f \in Taken(e) <=> x \in ItemsOf(e)
  /\ Reachable(e2, c)
  /\ e2[f] = x /\ \A s \in 0..c - 1 : s # f => e2[s] = e[s]
  /\ ItemsOf(e2) = ItemsOf(e) \cup {x}

LEMMA PutFacts ==
  ASSUME SetAssumption, NEW e, NEW c, Table(e, c), NEW x \in Items, ProbeEnds(e, x), Reachable(e, c),
         NEW f, f = findSlot(e, x), NEW e2, e2 = Put(e, x)
  PROVE  Placed(e, c, x, f, e2)
<1>1. c \in Nat \ {0} /\ e \in [0..c - 1 -> Items \cup {Never, Tombstone}] /\ DOMAIN e = 0..c - 1
  BY DEF Table
<1>2. Found(e, c, x, f)
  BY FindFacts
<1>3. /\ f \in 0..c - 1
      /\ e[f] \in Items <=> x \in ItemsOf(e)
      /\ e[f] \in {x, Never, Tombstone}
      /\ \A s \in Taken(e) : e[s] = x <=> s = f /\ e[f] \in Items
  BY <1>2 DEF Found
<1>4. PICK n \in 0..c - 1 : Probe(e, x, n) = f /\ \A m \in 0..n - 1 : ~StopsAt(e, x, m) /\ Probe(e, x, m) # f
  BY <1>2 DEF Found
<1>s. Never \notin Items /\ Tombstone \notin Items /\ Never # Tombstone
  BY SlotFacts
<1>5. /\ e2 \in [0..c - 1 -> Items \cup {Never, Tombstone}] /\ DOMAIN e2 = 0..c - 1
      /\ e2[f] = x /\ \A s \in 0..c - 1 : s # f => e2[s] = e[s]
  BY <1>1, <1>3 DEF Put
<1>6. Table(e2, c)
  BY <1>1, <1>5 DEF Table
<1>7. /\ Taken(e2) = Taken(e) \cup {f} /\ Gone(e2) = Gone(e) \ {f}
      /\ f \in Taken(e) <=> e[f] \in Items
      /\ f \in Gone(e) <=> e[f] = Tombstone
  BY <1>1, <1>3, <1>5, <1>s DEF Taken, Gone
<1>8. \A s \in Taken(e2) : s # f => s \in Taken(e) /\ e2[s] = e[s] /\ e2[s] # x /\ s \in 0..c - 1 /\ e[s] \in Items
  BY <1>1, <1>3, <1>5, <1>7 DEF Taken
<1>9. Reachable(e2, c)
  <2>1. ASSUME NEW s \in Taken(e2), NEW t \in Taken(e2), e2[s] = e2[t] PROVE s = t
    <3>1. CASE s = f \/ t = f
      BY <1>5, <1>8, <2>1, <3>1
    <3>2. CASE s # f /\ t # f
      BY <1>8, <2>1, <3>2 DEF Reachable
    <3> QED BY <3>1, <3>2
  <2>2. \E k \in 0..c - 1 : Probe(e2, e2[f], k) = f /\ \A m \in 0..k - 1 : ~StopsAt(e2, e2[f], m)
    <3>1. Probe(e2, x, n) = f
      BY <1>4, <1>6, ProbeIs
    <3>2. ASSUME NEW m \in 0..n - 1 PROVE ~StopsAt(e2, x, m)
      <4> m \in Nat
        BY <1>1
      <4>1. Probe(e, x, m) \in 0..c - 1 /\ Probe(e2, x, m) = Probe(e, x, m)
        BY <1>6, ProbeRange, ProbeIs
      <4>2. e2[Probe(e, x, m)] = e[Probe(e, x, m)]
        BY <1>4, <1>5, <4>1
      <4> QED BY <1>4, <4>1, <4>2 DEF StopsAt
    <3> QED BY <1>5, <3>1, <3>2
  <2>3. ASSUME NEW s \in Taken(e2), s # f
        PROVE  \E k \in 0..c - 1 : Probe(e2, e2[s], k) = s /\ \A m \in 0..k - 1 : ~StopsAt(e2, e2[s], m)
    <3> PICK y : y = e[s]
      OBVIOUS
    <3>1. s \in Taken(e) /\ e2[s] = y /\ y # x /\ y \in Items
      BY <1>8, <2>3
    <3>2. PICK k \in 0..c - 1 : Probe(e, y, k) = s /\ \A m \in 0..k - 1 : ~StopsAt(e, y, m)
      BY <3>1 DEF Reachable
    <3>3. Probe(e2, y, k) = s
      BY <1>6, <3>2, ProbeIs
    <3>4. \A m \in 0..k - 1 : ~StopsAt(e2, y, m)
      <4>1. k \in Nat /\ e2[f] \notin {y, Never}
        BY <1>1, <1>5, <1>s, <3>1
      <4>2. SameBut(e2, e, c, f) /\ GoesOn(e, y, k)
        BY <1>5, <3>2 DEF SameBut, GoesOn
      <4>3. GoesOn(e2, y, k)
        BY <1>6, <3>1, <4>1, <4>2, PassesOn
      <4> QED BY <4>3 DEF GoesOn
    <3> QED BY <3>1, <3>3, <3>4
  <2> QED BY <2>1, <2>2, <2>3 DEF Reachable
<1>10. ItemsOf(e2) = ItemsOf(e) \cup {x}
  <2>1. f \in Taken(e) => e[f] = x
    BY <1>3, <1>7, <1>s
  <2>2. ItemsOf(e2) \subseteq ItemsOf(e) \cup {x}
    BY <1>5, <1>8 DEF ItemsOf
  <2>3. \A s \in Taken(e) : s # f => s \in Taken(e2) /\ e2[s] = e[s]
    BY <1>7, <1>8
  <2>4. f \in Taken(e2)
    BY <1>7
  <2>5. ItemsOf(e) \subseteq ItemsOf(e2) /\ x \in ItemsOf(e2)
    BY <1>5, <2>1, <2>3, <2>4 DEF ItemsOf
  <2> QED BY <2>2, <2>5
<1>11. e[f] \in Items <=> e[f] = x
  BY <1>3, <1>s
<1> QED BY <1>3, <1>5, <1>6, <1>7, <1>9, <1>10, <1>11 DEF Placed

(* A removed item's slot is still passed by the searches that passed it. *)
Erased(e, f) == [e EXCEPT ![f] = Tombstone]

Removed(e, c, f, e2) ==
  /\ Table(e2, c) /\ Reachable(e2, c) /\ f \in 0..c - 1
  /\ Taken(e2) = Taken(e) \ {f} /\ Gone(e2) = Gone(e) \cup {f} /\ f \notin Gone(e)
  /\ e2[f] = Tombstone /\ \A s \in 0..c - 1 : s # f => e2[s] = e[s]
  /\ ItemsOf(e2) = ItemsOf(e) \ {e[f]}

LEMMA EraseFacts ==
  ASSUME SetAssumption, NEW e, NEW c, Table(e, c), Reachable(e, c), NEW f \in Taken(e),
         NEW e2, e2 = Erased(e, f)
  PROVE  Removed(e, c, f, e2)
<1>1. /\ c \in Nat \ {0} /\ e \in [0..c - 1 -> Items \cup {Never, Tombstone}] /\ DOMAIN e = 0..c - 1
      /\ f \in 0..c - 1 /\ e[f] \in Items
  BY DEF Table, Taken
<1>s. Never \notin Items /\ Tombstone \notin Items /\ Never # Tombstone
  BY SlotFacts
<1>2. /\ e2 \in [0..c - 1 -> Items \cup {Never, Tombstone}] /\ DOMAIN e2 = 0..c - 1
      /\ e2[f] = Tombstone /\ \A s \in 0..c - 1 : s # f => e2[s] = e[s]
  BY <1>1 DEF Erased
<1>3. Table(e2, c)
  BY <1>1, <1>2 DEF Table
<1>4. Taken(e2) = Taken(e) \ {f} /\ Gone(e2) = Gone(e) \cup {f} /\ f \notin Gone(e)
  BY <1>1, <1>2, <1>s DEF Taken, Gone
<1>5. \A s \in Taken(e2) : e2[s] = e[s] /\ s \in Taken(e) /\ s # f /\ s \in 0..c - 1 /\ e[s] \in Items
  BY <1>1, <1>2, <1>4 DEF Taken
<1>6. Reachable(e2, c)
  <2>1. \A s, t \in Taken(e2) : e2[s] = e2[t] => s = t
    BY <1>5 DEF Reachable
  <2>2. ASSUME NEW s \in Taken(e2)
        PROVE  \E k \in 0..c - 1 : Probe(e2, e2[s], k) = s /\ \A m \in 0..k - 1 : ~StopsAt(e2, e2[s], m)
    <3> PICK y : y = e[s]
      OBVIOUS
    <3>1. s \in Taken(e) /\ e2[s] = y /\ y \in Items
      BY <1>5
    <3>2. PICK k \in 0..c - 1 : Probe(e, y, k) = s /\ \A m \in 0..k - 1 : ~StopsAt(e, y, m)
      BY <3>1 DEF Reachable
    <3>3. Probe(e2, y, k) = s
      BY <1>3, <3>2, ProbeIs
    <3>4. \A m \in 0..k - 1 : ~StopsAt(e2, y, m)
      <4>1. k \in Nat /\ e2[f] \notin {y, Never}
        BY <1>1, <1>2, <1>s, <3>1
      <4>2. SameBut(e2, e, c, f) /\ GoesOn(e, y, k)
        BY <1>2, <3>2 DEF SameBut, GoesOn
      <4>3. GoesOn(e2, y, k)
        BY <1>3, <3>1, <4>1, <4>2, PassesOn
      <4> QED BY <4>3 DEF GoesOn
    <3> QED BY <3>1, <3>3, <3>4
  <2> QED BY <2>1, <2>2 DEF Reachable
<1>7. ItemsOf(e2) = ItemsOf(e) \ {e[f]}
  <2>1. \A s \in Taken(e) : s # f => e[s] # e[f]
    BY DEF Reachable
  <2> QED BY <1>4, <1>5, <2>1 DEF ItemsOf
<1> QED BY <1>1, <1>2, <1>3, <1>4, <1>6, <1>7 DEF Removed

----------------------------------------------------------------------------
(* Sound tables. *)

Good(e, c, l, g) ==
  /\ Table(e, c) /\ c >= MinCap /\ PowerOfTwo(c)
  /\ l = Cardinality(Taken(e)) /\ g = Cardinality(Gone(e))
  /\ (l + g) * 4 <= c * 3
  /\ \A x \in Items : ProbeEnds(e, x)
  /\ Reachable(e, c)

(* A struct MsSetObj. *)
Shaped(t) == t = [cap |-> t.cap, entries |-> t.entries, len |-> t.len, tombstones |-> t.tombstones]

(* findSlot finds the items that are there where they are. *)
LEMMA ReachableIs ==
  ASSUME SetAssumption, NEW e, NEW c, Table(e, c), \A x \in Items : ProbeEnds(e, x)
  PROVE  Reachable(e, c) <=> \A s \in DOMAIN e : e[s] \in Items => findSlot(e, e[s]) = s
<1>1. c \in Nat \ {0} /\ DOMAIN e = 0..c - 1
  BY DEF Table
<1>s. Never \notin Items /\ Tombstone \notin Items /\ Never # Tombstone
  BY SlotFacts
<1>2. ASSUME Reachable(e, c), NEW s \in DOMAIN e, e[s] \in Items PROVE findSlot(e, e[s]) = s
  <2> PICK x : x = e[s]
    OBVIOUS
  <2>1. Found(e, c, x, findSlot(e, x))
    BY <1>2, FindFacts
  <2>2. s \in Taken(e)
    BY <1>2 DEF Taken
  <2> QED BY <2>1, <2>2 DEF Found
<1>3. ASSUME \A s \in DOMAIN e : e[s] \in Items => findSlot(e, e[s]) = s PROVE Reachable(e, c)
  <2>1. \A s, t \in Taken(e) : e[s] = e[t] => s = t
    BY <1>3 DEF Taken
  <2>2. ASSUME NEW s \in Taken(e)
        PROVE  \E n \in 0..c - 1 : Probe(e, e[s], n) = s /\ \A m \in 0..n - 1 : ~StopsAt(e, e[s], m)
    <3> PICK x : x = e[s]
      OBVIOUS
    <3> DEFINE last == Last(e, x)
               passed == {n \in 0..last - 1 : e[Probe(e, x, n)] = Tombstone}
    <3>1. x \in Items /\ findSlot(e, x) = s /\ s \in DOMAIN e
      BY <1>3 DEF Taken
    <3>2. last \in 0..c - 1 /\ StopsAt(e, x, last) /\ \A m \in 0..last - 1 : ~StopsAt(e, x, m)
      BY <3>1, LastFacts
    <3>3. s = IF e[Probe(e, x, last)] = Never /\ passed # {} THEN Probe(e, x, Min(passed)) ELSE Probe(e, x, last)
      BY <3>1 DEF findSlot, Last
    <3>4. CASE e[Probe(e, x, last)] = Never /\ passed # {}
      <4>1. passed \in SUBSET Nat
        BY <3>2
      <4>2. Min(passed) \in passed
        <5> HIDE DEF passed
        <5> QED BY <3>4, <4>1, MinFacts
      <4>3. e[s] = Tombstone
        BY <3>3, <3>4, <4>2
      <4> QED BY <1>s, <3>1, <4>3
    <3>5. CASE ~(e[Probe(e, x, last)] = Never /\ passed # {})
      <4>1. Probe(e, x, last) = s
        BY <3>3, <3>5
      <4> HIDE DEF last, passed
      <4> QED BY <3>2, <4>1
    <3> QED BY <3>4, <3>5
  <2> QED BY <2>1, <2>2 DEF Reachable
<1> QED BY <1>2, <1>3

LEMMA SoundIs ==
  ASSUME SetAssumption, NEW t
  PROVE  Sound(t) <=> Shaped(t) /\ Good(t.entries, t.cap, t.len, t.tombstones)
<1> PICK e : e = t.entries
  OBVIOUS
<1> PICK c : c = t.cap
  OBVIOUS
<1>1. Sound(t) => Table(e, c)
  <2> SUFFICES ASSUME Sound(t) PROVE Table(e, c)
    OBVIOUS
  <2>1. c \in Nat /\ c >= MinCap /\ e \in [0..c - 1 -> Items \cup {Never, Tombstone}] /\ MinCap \in Nat /\ MinCap >= 4
    BY DEF Sound, SetAssumption
  <2>2. c # 0
    BY <2>1
  <2> QED BY <2>1, <2>2 DEF Table
<1>2. CASE Table(e, c) /\ \A x \in Items : ProbeEnds(e, x)
  <2>1. Reachable(e, c) <=> \A s \in DOMAIN e : e[s] \in Items => findSlot(e, e[s]) = s
    BY <1>2, ReachableIs
  <2>2. c \in Nat /\ e \in [0..c - 1 -> Items \cup {Never, Tombstone}]
    BY <1>2 DEF Table
  <2> QED BY <1>2, <2>1, <2>2 DEF Sound, Shaped, Good, Taken, Gone
<1>3. CASE ~(Table(e, c) /\ \A x \in Items : ProbeEnds(e, x))
  <2>1. ~Good(e, c, t.len, t.tombstones)
    BY <1>3 DEF Good
  <2>2. ~Sound(t)
    BY <1>1, <1>3 DEF Sound
  <2> QED BY <2>1, <2>2
<1> QED BY <1>2, <1>3

LEMMA GoodFacts ==
  ASSUME SetAssumption, NEW e, NEW c, NEW l, NEW g, Good(e, c, l, g)
  PROVE  /\ c \in Nat /\ c >= 4 /\ e \in [0..c - 1 -> Items \cup {Never, Tombstone}] /\ DOMAIN e = 0..c - 1
         /\ l \in Nat /\ g \in Nat
         /\ \A s \in Taken(e) : s \in 0..c - 1 /\ e[s] \in Items
<1>1. /\ c \in Nat /\ c >= 4 /\ e \in [0..c - 1 -> Items \cup {Never, Tombstone}] /\ DOMAIN e = 0..c - 1
  BY DEF SetAssumption, Good, Table
<1>2. l \in Nat /\ g \in Nat
  BY CountFacts DEF Good
<1> QED BY <1>1, <1>2 DEF Taken

(* There is room left for the searches to end in. *)
LEMMA GoodRoom ==
  ASSUME SetAssumption, NEW e, NEW c, NEW l, NEW g,
         Table(e, c), l = Cardinality(Taken(e)), g = Cardinality(Gone(e)), (l + g) * 4 <= c * 3
  PROVE  \A x \in Items : ProbeEnds(e, x)
<1>1. c \in Nat \ {0} /\ l \in Nat /\ g \in Nat
  BY CountFacts DEF Table
<1>2. Cardinality(Taken(e)) + Cardinality(Gone(e)) < c
  BY <1>1
<1> QED BY <1>2, RoomFacts

LEMMA GoodPut ==
  ASSUME SetAssumption, NEW e, NEW c, NEW l, NEW g, Good(e, c, l, g), (l + g + 1) * 4 <= c * 3,
         NEW x \in Items, NEW e2, e2 = Put(e, x),
         NEW l2, l2 = IF e[findSlot(e, x)] = x THEN l ELSE l + 1,
         NEW g2, g2 = IF e[findSlot(e, x)] = Tombstone THEN g - 1 ELSE g
  PROVE  Good(e2, c, l2, g2) /\ ItemsOf(e2) = ItemsOf(e) \cup {x}
<1> PICK f : f = findSlot(e, x)
  OBVIOUS
<1>1. Placed(e, c, x, f, e2)
  <2>1. Table(e, c) /\ ProbeEnds(e, x) /\ Reachable(e, c)
    BY DEF Good
  <2> QED BY <2>1, PutFacts
<1>2. /\ Table(e2, c)
      /\ Taken(e2) = Taken(e) \cup {f} /\ Gone(e2) = Gone(e) \ {f}
      /\ f \in Taken(e) <=> e[f] = x
      /\ f \in Gone(e) <=> e[f] = Tombstone
      /\ Reachable(e2, c)
      /\ ItemsOf(e2) = ItemsOf(e) \cup {x}
  BY <1>1 DEF Placed
<1>3. IsFiniteSet(Taken(e)) /\ IsFiniteSet(Gone(e))
  BY CountFacts DEF Good
<1>4. l2 = Cardinality(Taken(e2))
  <2>1. Cardinality(Taken(e) \cup {f})
        = IF f \in Taken(e) THEN Cardinality(Taken(e)) ELSE Cardinality(Taken(e)) + 1
    BY <1>3, FS_AddElement
  <2> QED BY <1>2, <2>1 DEF Good
<1>5. g2 = Cardinality(Gone(e2))
  <2>1. Cardinality(Gone(e) \ {f})
        = IF f \in Gone(e) THEN Cardinality(Gone(e)) - 1 ELSE Cardinality(Gone(e))
    BY <1>3, FS_RemoveElement
  <2> QED BY <1>2, <2>1 DEF Good
<1>6. (l2 + g2) * 4 <= c * 3
  <2>1. c \in Nat /\ l \in Nat /\ g \in Nat
    BY GoodFacts
  <2>2. l2 \in {l, l + 1} /\ g2 \in {g, g - 1}
    OBVIOUS
  <2> QED BY <2>1, <2>2
<1>7. \A y \in Items : ProbeEnds(e2, y)
  BY <1>2, <1>4, <1>5, <1>6, GoodRoom
<1> QED BY <1>2, <1>4, <1>5, <1>6, <1>7 DEF Good

LEMMA GoodErase ==
  ASSUME SetAssumption, NEW e, NEW c, NEW l, NEW g, Good(e, c, l, g), NEW f \in Taken(e),
         NEW e2, e2 = Erased(e, f)
  PROVE  Good(e2, c, l - 1, g + 1) /\ Removed(e, c, f, e2)
<1>1. Removed(e, c, f, e2)
  <2>1. Table(e, c) /\ Reachable(e, c)
    BY DEF Good
  <2> QED BY <2>1, EraseFacts
<1>2. /\ Table(e2, c) /\ Reachable(e2, c)
      /\ Taken(e2) = Taken(e) \ {f} /\ Gone(e2) = Gone(e) \cup {f} /\ f \notin Gone(e)
  BY <1>1 DEF Removed
<1>3. IsFiniteSet(Taken(e)) /\ IsFiniteSet(Gone(e))
  BY CountFacts DEF Good
<1>4. l - 1 = Cardinality(Taken(e2)) /\ g + 1 = Cardinality(Gone(e2))
  <2>1. Cardinality(Taken(e2)) = Cardinality(Taken(e)) - 1
    BY <1>2, <1>3, FS_RemoveElement
  <2>2. Cardinality(Gone(e2)) = Cardinality(Gone(e)) + 1
    BY <1>2, <1>3, FS_AddElement
  <2> QED BY <2>1, <2>2 DEF Good
<1>5. ((l - 1) + (g + 1)) * 4 <= c * 3
  <2>1. l \in Nat /\ g \in Nat
    BY GoodFacts
  <2>2. (l - 1) + (g + 1) = l + g
    BY <2>1
  <2> QED BY <2>2 DEF Good
<1>6. \A x \in Items : ProbeEnds(e2, x)
  BY <1>2, <1>4, <1>5, GoodRoom
<1> QED BY <1>1, <1>2, <1>4, <1>5, <1>6 DEF Good

LEMMA GoodEmpty ==
  ASSUME SetAssumption, NEW c \in Nat, c >= MinCap, PowerOfTwo(c)
  PROVE  Good(Empty(c), c, 0, 0) /\ ItemsOf(Empty(c)) = {}
<1>1. c \in Nat \ {0}
  BY DEF SetAssumption
<1>2. /\ Table(Empty(c), c) /\ Taken(Empty(c)) = {} /\ Gone(Empty(c)) = {}
      /\ Reachable(Empty(c), c) /\ ItemsOf(Empty(c)) = {}
  BY <1>1, EmptyFacts
<1>3. Cardinality({}) = 0
  BY FS_EmptySet
<1>4. (0 + 0) * 4 <= c * 3
  BY <1>1
<1>5. \A x \in Items : ProbeEnds(Empty(c), x)
  BY <1>2, <1>3, <1>4, GoodRoom
<1> QED BY <1>2, <1>3, <1>4, <1>5 DEF Good

----------------------------------------------------------------------------
(* Loops over a table.  w.loop says which: "rehash" of msSetResize,        *)
(* "insert" of frozensetInsertAll, "filter" of frozensetFilterInto and     *)
(* "hash" of frozensetHash, over the table w.t; "update", "keep", "drop"   *)
(* and "toggle" of the methods that change the set w.v, over the table of  *)
(* w.v or w.o as it is at that turn. *)

(* What the turn at slot s - 1 makes of h. *)
Turn(w, h, s) ==
  CASE w.loop = "rehash" -> IF w.t.entries[s - 1] \in Items
                            THEN [h EXCEPT ![findSlot(h, w.t.entries[s - 1])] = w.t.entries[s - 1]] ELSE h
    [] w.loop = "insert" -> IF w.t.entries[s - 1] \in Items THEN msSetAddHashed(h, w.t.entries[s - 1]) ELSE h
    [] w.loop = "filter" -> IF w.t.entries[s - 1] \in Items
                            THEN IF msSetFindInSet(w.other, w.t.entries[s - 1]) = w.wanted
                                 THEN msSetAddHashed(h, w.t.entries[s - 1]) ELSE h
                            ELSE h
    [] w.loop = "hash"   -> IF w.t.entries[s - 1] \in Items
                            THEN (h \ {HashOf[w.t.entries[s - 1]]}) \cup ({HashOf[w.t.entries[s - 1]]} \ h) ELSE h
    [] w.loop = "update" -> IF s <= h[w.o].cap /\ h[w.o].entries[s - 1] \in Items
                            THEN [h EXCEPT ![w.v] = msSetAddHashed(@, h[w.o].entries[s - 1])] ELSE h
    [] w.loop = "keep"   -> IF s <= h[w.v].cap /\ h[w.v].entries[s - 1] \in Items
                            THEN IF msSetFindInSet(h[w.o], h[w.v].entries[s - 1]) THEN h
                                 ELSE [h EXCEPT ![w.v] = msSetDiscard(@, h[w.v].entries[s - 1])]
                            ELSE h
    [] w.loop = "drop"   -> IF s <= h[w.v].cap /\ h[w.v].entries[s - 1] \in Items
                            THEN IF msSetFindInSet(h[w.o], h[w.v].entries[s - 1])
                                 THEN [h EXCEPT ![w.v] = msSetDiscard(@, h[w.v].entries[s - 1])] ELSE h
                            ELSE h
    [] w.loop = "toggle" -> IF s <= h[w.o].cap /\ h[w.o].entries[s - 1] \in Items
                            THEN IF msSetFindInSet(h[w.v], h[w.o].entries[s - 1])
                                 THEN [h EXCEPT ![w.v] = msSetDiscard(@, h[w.o].entries[s - 1])]
                                 ELSE [h EXCEPT ![w.v] = msSetAddHashed(@, h[w.o].entries[s - 1])]
                            ELSE h

(* f[s] is what the first s turns make of base. *)
Turns(f, n, base, w) == f = [s \in 0..n |-> IF s = 0 THEN base ELSE Turn(w, f[s - 1], s)]

LEMMA TurnsExist ==
  ASSUME NEW n \in Nat, NEW base, NEW w
  PROVE  \E f : Turns(f, n, base, w)
<1> DEFINE S == {k \in Nat : \E f : Turns(f, k, base, w)}
<1>1. 0 \in S
  <2> DEFINE f == [s \in 0..0 |-> base]
  <2>1. Turns(f, 0, base, w)
    BY DEF Turns
  <2> HIDE DEF f
  <2> QED BY <2>1
<1>2. ASSUME NEW k \in S PROVE k + 1 \in S
  <2>1. PICK f : Turns(f, k, base, w)
    OBVIOUS
  <2> DEFINE x == Turn(w, f[k], k + 1)
             g == [s \in 0..k + 1 |-> IF s = k + 1 THEN x ELSE f[s]]
  <2>2. \A s \in 0..k : f[s] = IF s = 0 THEN base ELSE Turn(w, f[s - 1], s)
    BY <2>1 DEF Turns
  <2> HIDE DEF x
  <2>3. \A s \in 0..k + 1 : g[s] = IF s = k + 1 THEN x ELSE f[s]
    OBVIOUS
  <2>4. ASSUME NEW s \in 0..k + 1 PROVE g[s] = IF s = 0 THEN base ELSE Turn(w, g[s - 1], s)
    <3>1. CASE s = k + 1
      <4>1. g[k] = f[k] /\ (k + 1) - 1 = k /\ k + 1 # 0
        BY <2>3
      <4> QED BY <2>3, <3>1, <4>1 DEF x
    <3>2. CASE s = 0
      BY <2>2, <2>3, <3>2
    <3>3. CASE s # 0 /\ s # k + 1
      <4>1. s \in 0..k /\ s - 1 \in 0..k + 1 /\ s - 1 # k + 1
        BY <3>3
      <4>2. g[s - 1] = f[s - 1] /\ g[s] = f[s]
        BY <2>3, <3>3, <4>1
      <4> QED BY <2>2, <3>3, <4>1, <4>2
    <3> QED BY <3>1, <3>2, <3>3
  <2>5. Turns(g, k + 1, base, w)
    BY <2>4 DEF Turns
  <2> HIDE DEF g
  <2> QED BY <2>5
<1>3. S = Nat
  <2>1. S \in SUBSET Nat
    OBVIOUS
  <2> HIDE DEF S
  <2> QED BY <1>1, <1>2, <2>1, Induction
<1> QED BY <1>3

LEMMA TurnsFacts ==
  ASSUME NEW n \in Nat, NEW base, NEW w, NEW f, Turns(f, n, base, w)
  PROVE  /\ f[0] = base
         /\ \A s \in 0..n - 1 : f[s + 1] = Turn(w, f[s], s + 1)
<1>1. f[0] = base
  BY DEF Turns
<1>2. ASSUME NEW s \in 0..n - 1 PROVE f[s + 1] = Turn(w, f[s], s + 1)
  <2>1. s + 1 \in 0..n /\ s + 1 # 0 /\ (s + 1) - 1 = s
    OBVIOUS
  <2> QED BY <2>1 DEF Turns
<1> QED BY <1>1, <1>2

(* Each loop is one of these. *)
LEMMA RehashTurns ==
  ASSUME NEW t, t.cap \in Nat, NEW c,
         NEW w, w = [loop |-> "rehash", t |-> t]
  PROVE  \E f : Turns(f, t.cap, Empty(c), w) /\ msSetResize(t, c).entries = f[t.cap]
<1> DEFINE Made(h, s) ==
             IF t.entries[s - 1] \in Items THEN [h EXCEPT ![findSlot(h, t.entries[s - 1])] = t.entries[s - 1]] ELSE h
           Is(f) == f = [s \in 0..t.cap |-> IF s = 0 THEN Empty(c) ELSE Made(f[s - 1], s)]
<1>1. \A h, s : Turn(w, h, s) = Made(h, s)
  <2>1. w.loop = "rehash" /\ w.t = t
    OBVIOUS
  <2> QED BY ONLY <2>1 DEF Turn, Made
<1>2. msSetResize(t, c).entries = (CHOOSE f : Is(f))[t.cap]
  BY DEF msSetResize, Fold
<1>3. \A f : Is(f) <=> Turns(f, t.cap, Empty(c), w)
  <2> HIDE DEF Made
  <2> QED BY <1>1 DEF Turns
<1> HIDE DEF Is
<1>4. \E f : Is(f)
  BY <1>3, TurnsExist
<1>5. Is(CHOOSE f : Is(f))
  BY Zenon, <1>4
<1> QED BY <1>2, <1>3, <1>5

LEMMA InsertTurns ==
  ASSUME NEW r, NEW t, t.cap \in Nat,
         NEW w, w = [loop |-> "insert", t |-> t]
  PROVE  \E f : Turns(f, t.cap, r, w) /\ InsertAll(r, t) = f[t.cap]
<1> DEFINE Made(h, s) ==
             IF t.entries[s - 1] \in Items THEN msSetAddHashed(h, t.entries[s - 1]) ELSE h
           Is(f) == f = [s \in 0..t.cap |-> IF s = 0 THEN r ELSE Made(f[s - 1], s)]
<1>1. \A h, s : Turn(w, h, s) = Made(h, s)
  <2>1. w.loop = "insert" /\ w.t = t
    OBVIOUS
  <2> QED BY ONLY <2>1 DEF Turn, Made
<1>2. InsertAll(r, t) = (CHOOSE f : Is(f))[t.cap]
  BY DEF InsertAll, Fold
<1>3. \A f : Is(f) <=> Turns(f, t.cap, r, w)
  <2> HIDE DEF Made
  <2> QED BY <1>1 DEF Turns
<1> HIDE DEF Is
<1>4. \E f : Is(f)
  BY <1>3, TurnsExist
<1>5. Is(CHOOSE f : Is(f))
  BY Zenon, <1>4
<1> QED BY <1>2, <1>3, <1>5

LEMMA FilterTurns ==
  ASSUME NEW r, NEW t, t.cap \in Nat, NEW other, NEW wanted,
         NEW w, w = [loop |-> "filter", t |-> t, other |-> other, wanted |-> wanted]
  PROVE  \E f : Turns(f, t.cap, r, w) /\ FilterInto(r, t, other, wanted) = f[t.cap]
<1> DEFINE Made(h, s) ==
             IF t.entries[s - 1] \in Items
             THEN IF msSetFindInSet(other, t.entries[s - 1]) = wanted THEN msSetAddHashed(h, t.entries[s - 1]) ELSE h
             ELSE h
           Is(f) == f = [s \in 0..t.cap |-> IF s = 0 THEN r ELSE Made(f[s - 1], s)]
<1>1. \A h, s : Turn(w, h, s) = Made(h, s)
  <2>1. w.loop = "filter" /\ w.t = t /\ w.other = other /\ w.wanted = wanted
    OBVIOUS
  <2> QED BY ONLY <2>1 DEF Turn, Made
<1>2. FilterInto(r, t, other, wanted) = (CHOOSE f : Is(f))[t.cap]
  BY DEF FilterInto, Fold
<1>3. \A f : Is(f) <=> Turns(f, t.cap, r, w)
  <2> HIDE DEF Made
  <2> QED BY <1>1 DEF Turns
<1> HIDE DEF Is
<1>4. \E f : Is(f)
  BY <1>3, TurnsExist
<1>5. Is(CHOOSE f : Is(f))
  BY Zenon, <1>4
<1> QED BY <1>2, <1>3, <1>5

LEMMA HashTurns ==
  ASSUME NEW t, t.cap \in Nat,
         NEW w, w = [loop |-> "hash", t |-> t]
  PROVE  \E f : Turns(f, t.cap, {}, w) /\ frozensetHash(t) = f[t.cap]
<1> DEFINE Made(h, s) ==
             IF t.entries[s - 1] \in Items
             THEN (h \ {HashOf[t.entries[s - 1]]}) \cup ({HashOf[t.entries[s - 1]]} \ h) ELSE h
           Is(f) == f = [s \in 0..t.cap |-> IF s = 0 THEN {} ELSE Made(f[s - 1], s)]
<1>1. \A h, s : Turn(w, h, s) = Made(h, s)
  <2>1. w.loop = "hash" /\ w.t = t
    OBVIOUS
  <2> QED BY ONLY <2>1 DEF Turn, Made
<1>2. frozensetHash(t) = (CHOOSE f : Is(f))[t.cap]
  BY DEF frozensetHash, Fold
<1>3. \A f : Is(f) <=> Turns(f, t.cap, {}, w)
  <2> HIDE DEF Made
  <2> QED BY <1>1 DEF Turns
<1> HIDE DEF Is
<1>4. \E f : Is(f)
  BY <1>3, TurnsExist
<1>5. Is(CHOOSE f : Is(f))
  BY Zenon, <1>4
<1> QED BY <1>2, <1>3, <1>5

LEMMA UpdateTurns ==
  ASSUME NEW v, NEW o, 2 * heap[o].cap \in Nat,
         NEW w, w = [loop |-> "update", v |-> v, o |-> o]
  PROVE  \E f : Turns(f, 2 * heap[o].cap, heap, w) /\ msSetUpdate(v, o) = f[2 * heap[o].cap]
<1> DEFINE Made(h, s) ==
             IF s <= h[o].cap /\ h[o].entries[s - 1] \in Items
             THEN [h EXCEPT ![v] = msSetAddHashed(@, h[o].entries[s - 1])]
             ELSE h
           Is(f) == f = [s \in 0..2 * heap[o].cap |-> IF s = 0 THEN heap ELSE Made(f[s - 1], s)]
<1>1. \A h, s : Turn(w, h, s) = Made(h, s)
  <2>1. w.loop = "update" /\ w.v = v /\ w.o = o
    OBVIOUS
  <2> QED BY ONLY <2>1 DEF Turn, Made
<1>2. msSetUpdate(v, o) = (CHOOSE f : Is(f))[2 * heap[o].cap]
  BY DEF msSetUpdate, Walk
<1>3. \A f : Is(f) <=> Turns(f, 2 * heap[o].cap, heap, w)
  <2> HIDE DEF Made
  <2> QED BY <1>1 DEF Turns
<1> HIDE DEF Is
<1>4. \E f : Is(f)
  BY <1>3, TurnsExist
<1>5. Is(CHOOSE f : Is(f))
  BY Zenon, <1>4
<1> QED BY <1>2, <1>3, <1>5

LEMMA KeepTurns ==
  ASSUME NEW v, NEW o, 2 * heap[v].cap \in Nat,
         NEW w, w = [loop |-> "keep", v |-> v, o |-> o]
  PROVE  \E f : Turns(f, 2 * heap[v].cap, heap, w) /\ msSetIntersectionUpdate(v, o) = f[2 * heap[v].cap]
<1> DEFINE Made(h, s) ==
             IF s <= h[v].cap /\ h[v].entries[s - 1] \in Items
             THEN IF msSetFindInSet(h[o], h[v].entries[s - 1]) THEN h ELSE [h EXCEPT ![v] = msSetDiscard(@, h[v].entries[s - 1])]
             ELSE h
           Is(f) == f = [s \in 0..2 * heap[v].cap |-> IF s = 0 THEN heap ELSE Made(f[s - 1], s)]
<1>1. \A h, s : Turn(w, h, s) = Made(h, s)
  <2>1. w.loop = "keep" /\ w.v = v /\ w.o = o
    OBVIOUS
  <2> QED BY ONLY <2>1 DEF Turn, Made
<1>2. msSetIntersectionUpdate(v, o) = (CHOOSE f : Is(f))[2 * heap[v].cap]
  BY DEF msSetIntersectionUpdate, Walk
<1>3. \A f : Is(f) <=> Turns(f, 2 * heap[v].cap, heap, w)
  <2> HIDE DEF Made
  <2> QED BY <1>1 DEF Turns
<1> HIDE DEF Is
<1>4. \E f : Is(f)
  BY <1>3, TurnsExist
<1>5. Is(CHOOSE f : Is(f))
  BY Zenon, <1>4
<1> QED BY <1>2, <1>3, <1>5

LEMMA DropTurns ==
  ASSUME NEW v, NEW o, 2 * heap[v].cap \in Nat,
         NEW w, w = [loop |-> "drop", v |-> v, o |-> o]
  PROVE  \E f : Turns(f, 2 * heap[v].cap, heap, w) /\ msSetDifferenceUpdate(v, o) = f[2 * heap[v].cap]
<1> DEFINE Made(h, s) ==
             IF s <= h[v].cap /\ h[v].entries[s - 1] \in Items
             THEN IF msSetFindInSet(h[o], h[v].entries[s - 1]) THEN [h EXCEPT ![v] = msSetDiscard(@, h[v].entries[s - 1])] ELSE h
             ELSE h
           Is(f) == f = [s \in 0..2 * heap[v].cap |-> IF s = 0 THEN heap ELSE Made(f[s - 1], s)]
<1>1. \A h, s : Turn(w, h, s) = Made(h, s)
  <2>1. w.loop = "drop" /\ w.v = v /\ w.o = o
    OBVIOUS
  <2> QED BY ONLY <2>1 DEF Turn, Made
<1>2. msSetDifferenceUpdate(v, o) = (CHOOSE f : Is(f))[2 * heap[v].cap]
  BY DEF msSetDifferenceUpdate, Walk
<1>3. \A f : Is(f) <=> Turns(f, 2 * heap[v].cap, heap, w)
  <2> HIDE DEF Made
  <2> QED BY <1>1 DEF Turns
<1> HIDE DEF Is
<1>4. \E f : Is(f)
  BY <1>3, TurnsExist
<1>5. Is(CHOOSE f : Is(f))
  BY Zenon, <1>4
<1> QED BY <1>2, <1>3, <1>5

LEMMA ToggleTurns ==
  ASSUME NEW v, NEW o, 2 * heap[o].cap \in Nat,
         NEW w, w = [loop |-> "toggle", v |-> v, o |-> o]
  PROVE  \E f : Turns(f, 2 * heap[o].cap, heap, w) /\ msSetSymmetricDifferenceUpdate(v, o) = f[2 * heap[o].cap]
<1> DEFINE Made(h, s) ==
             IF s <= h[o].cap /\ h[o].entries[s - 1] \in Items
             THEN IF msSetFindInSet(h[v], h[o].entries[s - 1]) THEN [h EXCEPT ![v] = msSetDiscard(@, h[o].entries[s - 1])]
                  ELSE [h EXCEPT ![v] = msSetAddHashed(@, h[o].entries[s - 1])]
             ELSE h
           Is(f) == f = [s \in 0..2 * heap[o].cap |-> IF s = 0 THEN heap ELSE Made(f[s - 1], s)]
<1>1. \A h, s : Turn(w, h, s) = Made(h, s)
  <2>1. w.loop = "toggle" /\ w.v = v /\ w.o = o
    OBVIOUS
  <2> QED BY ONLY <2>1 DEF Turn, Made
<1>2. msSetSymmetricDifferenceUpdate(v, o) = (CHOOSE f : Is(f))[2 * heap[o].cap]
  BY DEF msSetSymmetricDifferenceUpdate, Walk
<1>3. \A f : Is(f) <=> Turns(f, 2 * heap[o].cap, heap, w)
  <2> HIDE DEF Made
  <2> QED BY <1>1 DEF Turns
<1> HIDE DEF Is
<1>4. \E f : Is(f)
  BY <1>3, TurnsExist
<1>5. Is(CHOOSE f : Is(f))
  BY Zenon, <1>4
<1> QED BY <1>2, <1>3, <1>5

----------------------------------------------------------------------------
(* What a loop has seen after s turns. *)
Before(e, s) == {q \in Taken(e) : q < s}
Below(e, s) == {e[q] : q \in Before(e, s)}

LEMMA BelowFacts ==
  ASSUME NEW e, NEW c, Table(e, c)
  PROVE  /\ Before(e, 0) = {} /\ Below(e, 0) = {}
         /\ \A s \in Nat : s >= c => Before(e, s) = Taken(e) /\ Below(e, s) = ItemsOf(e)
         /\ \A s \in Nat : /\ IsFiniteSet(Before(e, s)) /\ Cardinality(Before(e, s)) \in Nat
                           /\ Cardinality(Before(e, s)) <= Cardinality(Taken(e))
         /\ \A s \in Nat : s \notin Taken(e) => Before(e, s + 1) = Before(e, s) /\ Below(e, s + 1) = Below(e, s)
         /\ \A s \in Taken(e) :
              /\ Before(e, s + 1) = Before(e, s) \cup {s} /\ s \notin Before(e, s)
              /\ Below(e, s + 1) = Below(e, s) \cup {e[s]}
              /\ Cardinality(Before(e, s + 1)) = Cardinality(Before(e, s)) + 1
<1>1. c \in Nat \ {0} /\ Taken(e) \subseteq 0..c - 1 /\ IsFiniteSet(Taken(e))
  BY CountFacts DEF Table
<1>2. Before(e, 0) = {} /\ Below(e, 0) = {}
  BY <1>1 DEF Before, Below
<1>3. ASSUME NEW s \in Nat, s >= c PROVE Before(e, s) = Taken(e) /\ Below(e, s) = ItemsOf(e)
  <2>1. \A q \in Taken(e) : q < s
    BY <1>1, <1>3
  <2> QED BY <2>1 DEF Before, Below, ItemsOf
<1>4. ASSUME NEW s PROVE /\ IsFiniteSet(Before(e, s)) /\ Cardinality(Before(e, s)) \in Nat
                         /\ Cardinality(Before(e, s)) <= Cardinality(Taken(e))
  <2>1. Before(e, s) \subseteq Taken(e)
    BY DEF Before
  <2> QED BY <1>1, <2>1, FS_Subset, FS_CardinalityType
<1>5. ASSUME NEW s \in Nat, s \notin Taken(e) PROVE Before(e, s + 1) = Before(e, s) /\ Below(e, s + 1) = Below(e, s)
  <2>1. \A q \in Taken(e) : q < s + 1 <=> q < s
    BY <1>1, <1>5
  <2>2. Before(e, s + 1) = Before(e, s)
    BY <2>1 DEF Before
  <2> QED BY <2>2 DEF Below
<1>6. ASSUME NEW s \in Taken(e)
      PROVE  /\ Before(e, s + 1) = Before(e, s) \cup {s} /\ s \notin Before(e, s)
             /\ Below(e, s + 1) = Below(e, s) \cup {e[s]}
             /\ Cardinality(Before(e, s + 1)) = Cardinality(Before(e, s)) + 1
  <2>1. s < s + 1 /\ ~(s < s) /\ \A q \in Taken(e) : q < s + 1 <=> q < s \/ q = s
    BY <1>1
  <2>2. Before(e, s + 1) = Before(e, s) \cup {s} /\ s \notin Before(e, s)
    BY <2>1 DEF Before
  <2>3. Cardinality(Before(e, s + 1)) = Cardinality(Before(e, s)) + 1
    BY <1>4, <2>2, FS_AddElement
  <2> QED BY <2>2, <2>3 DEF Below
<1> QED BY <1>2, <1>3, <1>4, <1>5, <1>6

(* A loop sees no item twice. *)
LEMMA SeenOnce ==
  ASSUME NEW e, NEW c, Table(e, c), Reachable(e, c), NEW s \in Taken(e)
  PROVE  e[s] \notin Below(e, s)
<1> SUFFICES ASSUME NEW q \in Before(e, s), e[q] = e[s] PROVE FALSE
  BY DEF Below
<1>1. q \in Taken(e) /\ q < s /\ s \in Nat
  BY CountFacts DEF Before
<1>2. q = s
  BY <1>1 DEF Reachable
<1> QED BY <1>1, <1>2

(* A new item in a table without tombstones. *)
LEMMA GoodNew ==
  ASSUME SetAssumption, NEW e, NEW c, NEW l, Good(e, c, l, 0), (l + 1) * 4 <= c * 3,
         NEW x \in Items, x \notin ItemsOf(e)
  PROVE  Good(Put(e, x), c, l + 1, 0) /\ ItemsOf(Put(e, x)) = ItemsOf(e) \cup {x}
<1> PICK f : f = findSlot(e, x)
  OBVIOUS
<1>1. Table(e, c) /\ ProbeEnds(e, x) /\ Reachable(e, c) /\ 0 = Cardinality(Gone(e)) /\ l \in Nat
  BY GoodFacts DEF Good
<1>2. Found(e, c, x, f)
  BY <1>1, FindFacts
<1>3. e[f] # x
  BY <1>2 DEF Found
<1>4. Gone(e) = {}
  BY <1>1, CountFacts, FS_EmptySet
<1>5. e[f] # Tombstone
  BY <1>1, <1>2, <1>4 DEF Found, Gone, Table
<1>6. (l + 0 + 1) * 4 <= c * 3
  BY <1>1
<1> PICK e2 : e2 = Put(e, x)
  OBVIOUS
<1>7. l + 1 = (IF e[findSlot(e, x)] = x THEN l ELSE l + 1) /\ 0 = (IF e[findSlot(e, x)] = Tombstone THEN 0 - 1 ELSE 0)
  BY <1>3, <1>5
<1>8. Good(e2, c, l + 1, 0) /\ ItemsOf(e2) = ItemsOf(e) \cup {x}
  BY <1>6, <1>7, GoodPut
<1> QED BY <1>8

----------------------------------------------------------------------------
(* The table of twice the size that msSetResize makes, after s turns. *)
Rehashed(m, e, c, s) ==
  Good(m, 2 * c, Cardinality(Before(e, s)), 0) /\ ItemsOf(m) = Below(e, s)

LEMMA RehashTurn ==
  ASSUME SetAssumption, NEW t, NEW e, e = t.entries, NEW c, NEW l, NEW g, Good(e, c, l, g),
         NEW s \in 0..c - 1, NEW m, Rehashed(m, e, c, s),
         NEW w, w = [loop |-> "rehash", t |-> t]
  PROVE  Rehashed(Turn(w, m, s + 1), e, c, s + 1)
<1>1. c \in Nat /\ c >= 4 /\ Table(e, c) /\ Reachable(e, c) /\ l \in Nat /\ g \in Nat /\ s \in Nat /\ DOMAIN e = 0..c - 1
  BY GoodFacts DEF Good
<1> PICK m2 : m2 = Turn(w, m, s + 1)
  OBVIOUS
<1>2. m2 = IF e[s] \in Items THEN [m EXCEPT ![findSlot(m, e[s])] = e[s]] ELSE m
  <2>1. w.loop = "rehash" /\ w.t.entries = e
    OBVIOUS
  <2>2. (s + 1) - 1 = s
    BY <1>1
  <2> QED BY <2>1, <2>2 DEF Turn
<1>3. CASE e[s] \notin Items
  <2>1. s \notin Taken(e)
    BY <1>3 DEF Taken
  <2>2. Before(e, s + 1) = Before(e, s) /\ Below(e, s + 1) = Below(e, s)
    BY <1>1, <2>1, BelowFacts
  <2> QED BY <1>2, <1>3, <2>2 DEF Rehashed
<1>4. CASE e[s] \in Items
  <2> PICK x : x = e[s]
    OBVIOUS
  <2> PICK k : k = Cardinality(Before(e, s))
    OBVIOUS
  <2>1. s \in Taken(e)
    BY <1>1, <1>4 DEF Taken
  <2>2. /\ Below(e, s + 1) = Below(e, s) \cup {x} /\ Cardinality(Before(e, s + 1)) = k + 1
        /\ k \in Nat /\ k + 1 <= l
    <3>1. l = Cardinality(Taken(e)) /\ s + 1 \in Nat
      BY <1>1 DEF Good
    <3>2. /\ Below(e, s + 1) = Below(e, s) \cup {x} /\ Cardinality(Before(e, s + 1)) = k + 1
      BY <1>1, <2>1, BelowFacts
    <3>3. k \in Nat /\ Cardinality(Before(e, s + 1)) <= Cardinality(Taken(e))
      BY <1>1, <3>1, BelowFacts
    <3> QED BY <3>1, <3>2, <3>3
  <2>3. x \notin ItemsOf(m)
    BY <1>1, <2>1, SeenOnce DEF Rehashed
  <2>4. (k + 1) * 4 <= (2 * c) * 3
    <3>1. (l + g) * 4 <= c * 3
      BY DEF Good
    <3>2. (k + 1) * 4 <= (l + g) * 4
      BY <1>1, <2>2
    <3>3. (k + 1) * 4 <= c * 3
      BY <1>1, <2>2, <3>1, <3>2
    <3>4. c * 3 <= (2 * c) * 3
      BY <1>1
    <3> QED BY <1>1, <2>2, <3>3, <3>4
  <2>5. Good(m, 2 * c, k, 0)
    BY DEF Rehashed
  <2>6. Good(Put(m, x), 2 * c, k + 1, 0) /\ ItemsOf(Put(m, x)) = ItemsOf(m) \cup {x}
    BY <1>4, <2>3, <2>4, <2>5, GoodNew
  <2>7. m2 = Put(m, x)
    BY <1>2, <1>4 DEF Put
  <2> QED BY <2>2, <2>6, <2>7 DEF Rehashed
<1> QED BY <1>3, <1>4

(* msSetResize keeps the items and drops the tombstones. *)
LEMMA ResizeFacts ==
  ASSUME SetAssumption, NEW t, NEW e, e = t.entries, NEW c, c = t.cap, NEW l, l = t.len, NEW g, Good(e, c, l, g)
  PROVE  LET r == msSetResize(t, 2 * c) IN
         Shaped(r) /\ Good(r.entries, 2 * c, l, 0) /\ ItemsOf(r.entries) = ItemsOf(e)
         /\ r.cap = 2 * c /\ r.len = l /\ r.tombstones = 0
<1> PICK r : r = msSetResize(t, 2 * c)
  OBVIOUS
<1>1. c \in Nat \ {0} /\ c >= MinCap /\ MinCap \in Nat /\ Table(e, c) /\ PowerOfTwo(c) /\ l = Cardinality(Taken(e))
  BY GoodFacts DEF Good, SetAssumption, Table
<1> PICK w : w = [loop |-> "rehash", t |-> t]
  OBVIOUS
<1>2. PICK f : Turns(f, c, Empty(2 * c), w) /\ r.entries = f[c]
  BY <1>1, RehashTurns
<1>3. f[0] = Empty(2 * c) /\ \A s \in 0..c - 1 : f[s + 1] = Turn(w, f[s], s + 1)
  BY <1>1, <1>2, TurnsFacts
<1> DEFINE S == {s \in 0..c : Rehashed(f[s], e, c, s)}
<1>4. 0 \in S
  <2>1. PowerOfTwo(2 * c)
    BY <1>1, PowerDoubles
  <2>2. 2 * c \in Nat /\ 2 * c >= MinCap /\ 0 \in 0..c
    BY <1>1
  <2>3. Good(Empty(2 * c), 2 * c, 0, 0) /\ ItemsOf(Empty(2 * c)) = {}
    BY <2>1, <2>2, GoodEmpty
  <2>4. Cardinality(Before(e, 0)) = 0 /\ Below(e, 0) = {}
    BY <1>1, BelowFacts, FS_EmptySet
  <2>5. Rehashed(f[0], e, c, 0)
    BY <1>3, <2>3, <2>4 DEF Rehashed
  <2> QED BY <2>2, <2>5
<1>5. ASSUME NEW s \in 0..c - 1, s \in S PROVE s + 1 \in S
  <2>1. Rehashed(Turn(w, f[s], s + 1), e, c, s + 1)
    BY <1>5, RehashTurn
  <2>2. s + 1 \in 0..c
    BY <1>1
  <2> QED BY <1>3, <2>1, <2>2
<1>6. Rehashed(f[c], e, c, c)
  <2>1. c \in S
    <3> HIDE DEF S
    <3> QED BY <1>1, <1>4, <1>5, Upto
  <2> QED BY <2>1
<1>7. Before(e, c) = Taken(e) /\ Below(e, c) = ItemsOf(e)
  BY <1>1, BelowFacts
<1>8. Good(r.entries, 2 * c, l, 0) /\ ItemsOf(r.entries) = ItemsOf(e)
  BY <1>1, <1>2, <1>6, <1>7 DEF Rehashed
<1>9. Shaped(r) /\ r.cap = 2 * c /\ r.len = l /\ r.tombstones = 0
  BY DEF msSetResize, Shaped
<1> QED BY <1>8, <1>9

----------------------------------------------------------------------------
(* The methods of one table. *)

(* The table t is sound and holds the items X. *)
Holds(t, X) == Sound(t) /\ ItemsIn(t) = X

LEMMA HoldsIs ==
  ASSUME SetAssumption, NEW t, NEW X
  PROVE  Holds(t, X) <=> Shaped(t) /\ Good(t.entries, t.cap, t.len, t.tombstones) /\ ItemsOf(t.entries) = X
BY SoundIs, ItemsInIs DEF Holds

LEMMA HoldsFacts ==
  ASSUME SetAssumption, NEW t, NEW X, Holds(t, X)
  PROVE  /\ X \subseteq Items /\ IsFiniteSet(X) /\ t.len = Cardinality(X) /\ t.len \in Nat
         /\ t.cap \in Nat /\ t.cap >= MinCap /\ t.cap >= 4 /\ PowerOfTwo(t.cap)
         /\ DOMAIN t.entries = 0..t.cap - 1
         /\ Table(t.entries, t.cap) /\ Reachable(t.entries, t.cap)
<1> PICK e : e = t.entries
  OBVIOUS
<1>1. Good(e, t.cap, t.len, t.tombstones) /\ X = ItemsOf(e)
  BY HoldsIs
<1>2. /\ t.cap \in Nat /\ t.cap >= 4 /\ t.len \in Nat /\ DOMAIN e = 0..t.cap - 1
      /\ \A s \in Taken(e) : s \in 0..t.cap - 1 /\ e[s] \in Items
  BY <1>1, GoodFacts
<1>3. Table(e, t.cap) /\ Reachable(e, t.cap) /\ t.cap >= MinCap /\ PowerOfTwo(t.cap) /\ t.len = Cardinality(Taken(e))
  BY <1>1 DEF Good
<1>4. IsFiniteSet(Taken(e))
  BY <1>3, CountFacts
<1>5. X \subseteq Items
  BY <1>1, <1>2 DEF ItemsOf
<1>6. IsFiniteSet(X) /\ Cardinality(X) = Cardinality(Taken(e))
  <2> DEFINE b == [s \in Taken(e) |-> e[s]]
  <2>1. b \in Bijection(Taken(e), X)
    <3>1. b \in [Taken(e) -> X]
      BY <1>1 DEF ItemsOf
    <3>2. \A s, q \in Taken(e) : b[s] = b[q] => s = q
      BY <1>3 DEF Reachable
    <3>3. \A x \in X : \E s \in Taken(e) : b[s] = x
      BY <1>1 DEF ItemsOf
    <3> HIDE DEF b
    <3> QED BY <3>1, <3>2, <3>3 DEF Bijection, Injection, Surjection, IsInjective
  <2> HIDE DEF b
  <2>2. ExistsBijection(Taken(e), X)
    BY <2>1 DEF ExistsBijection
  <2> QED BY <1>4, <2>2, FS_Bijection
<1> QED BY <1>2, <1>3, <1>5, <1>6

(* msSetFindInSet and findSlot. *)
LEMMA FindHolds ==
  ASSUME SetAssumption, NEW t, NEW X, Holds(t, X), NEW x \in Items
  PROVE  /\ msSetFindInSet(t, x) = (x \in X)
         /\ Found(t.entries, t.cap, x, findSlot(t.entries, x))
<1> PICK e : e = t.entries
  OBVIOUS
<1> PICK f : f = findSlot(e, x)
  OBVIOUS
<1>1. Good(e, t.cap, t.len, t.tombstones) /\ ItemsOf(e) = X
  BY HoldsIs
<1>2. Found(e, t.cap, x, f)
  BY <1>1, FindFacts DEF Good
<1>3. e[f] = x <=> x \in X
  BY <1>1, <1>2, SlotFacts DEF Found
<1>4. x \in X => t.len > 0
  <2>1. IsFiniteSet(X) /\ t.len = Cardinality(X) /\ t.len \in Nat
    BY HoldsFacts
  <2>2. x \in X => t.len # 0
    BY <2>1, FS_EmptySet
  <2> QED BY <2>1, <2>2
<1>5. msSetFindInSet(t, x) = (t.len > 0 /\ e[f] = x)
  BY DEF msSetFindInSet
<1> QED BY <1>2, <1>3, <1>4, <1>5

LEMMA NewHolds ==
  ASSUME SetAssumption, NEW n \in Nat
  PROVE  Holds(msNewSet(n), {})
<1> PICK c : c = roundUpPow2(n)
  OBVIOUS
<1>1. c \in Nat /\ c >= MinCap /\ PowerOfTwo(c)
  BY RoundUpFacts
<1>2. Good(Empty(c), c, 0, 0) /\ ItemsOf(Empty(c)) = {}
  BY <1>1, GoodEmpty
<1>3. msNewSet(n) = [cap |-> c, entries |-> Empty(c), len |-> 0, tombstones |-> 0]
  BY DEF msNewSet
<1> PICK t : t = msNewSet(n)
  OBVIOUS
<1>4. Shaped(t) /\ t.entries = Empty(c) /\ t.cap = c /\ t.len = 0 /\ t.tombstones = 0
  BY <1>3 DEF Shaped
<1> QED BY <1>2, <1>4, HoldsIs

LEMMA InsertHolds ==
  ASSUME SetAssumption, NEW t, NEW X, Holds(t, X), NEW x \in Items, ~MustGrow(t)
  PROVE  Holds(Insert(t, x), X \cup {x})
<1> PICK e : e = t.entries
  OBVIOUS
<1> PICK f : f = findSlot(e, x)
  OBVIOUS
<1> PICK r : r = Insert(t, x)
  OBVIOUS
<1>1. Shaped(t) /\ Good(e, t.cap, t.len, t.tombstones) /\ ItemsOf(e) = X
  BY HoldsIs
<1>2. (t.len + t.tombstones + 1) * 4 <= t.cap * 3
  <2>1. t.len \in Nat /\ t.tombstones \in Nat /\ t.cap \in Nat
    BY <1>1, GoodFacts
  <2> QED BY <2>1 DEF MustGrow
<1>3. /\ Shaped(r) /\ r.entries = Put(e, x) /\ r.cap = t.cap
      /\ r.len = IF e[f] = x THEN t.len ELSE t.len + 1
      /\ r.tombstones = IF e[f] = Tombstone THEN t.tombstones - 1 ELSE t.tombstones
  <2>1. t = [cap |-> t.cap, entries |-> e, len |-> t.len, tombstones |-> t.tombstones]
    BY <1>1 DEF Shaped
  <2>2. r = [t EXCEPT !.entries[f] = x,
                      !.len = IF e[f] = x THEN @ ELSE @ + 1,
                      !.tombstones = IF e[f] = Tombstone THEN @ - 1 ELSE @]
    BY DEF Insert
  <2>3. r = [cap |-> t.cap, entries |-> [e EXCEPT ![f] = x],
             len |-> IF e[f] = x THEN t.len ELSE t.len + 1,
             tombstones |-> IF e[f] = Tombstone THEN t.tombstones - 1 ELSE t.tombstones]
    BY <2>1, <2>2
  <2> QED BY <2>3 DEF Shaped, Put
<1>4. Good(r.entries, r.cap, r.len, r.tombstones) /\ ItemsOf(r.entries) = ItemsOf(e) \cup {x}
  BY <1>1, <1>2, <1>3, GoodPut
<1> QED BY <1>1, <1>3, <1>4, HoldsIs

LEMMA AddHolds ==
  ASSUME SetAssumption, NEW t, NEW X, Holds(t, X), NEW x \in Items
  PROVE  Holds(msSetAddHashed(t, x), X \cup {x})
<1>1. CASE ~MustGrow(t)
  BY <1>1, InsertHolds DEF msSetAddHashed
<1>2. CASE MustGrow(t)
  <2> PICK r : r = msSetResize(t, 2 * t.cap)
    OBVIOUS
  <2>1. Good(t.entries, t.cap, t.len, t.tombstones) /\ ItemsOf(t.entries) = X
    BY HoldsIs
  <2>2. /\ Shaped(r) /\ Good(r.entries, 2 * t.cap, t.len, 0) /\ ItemsOf(r.entries) = X
        /\ r.cap = 2 * t.cap /\ r.len = t.len /\ r.tombstones = 0
    BY <2>1, ResizeFacts
  <2>3. Holds(r, X)
    BY <2>2, HoldsIs
  <2>4. ~MustGrow(r)
    <3>1. t.len \in Nat /\ t.tombstones \in Nat /\ t.cap \in Nat /\ t.cap >= 4 /\ (t.len + t.tombstones) * 4 <= t.cap * 3
      BY <2>1, GoodFacts DEF Good
    <3>2. (t.len + 0 + 1) * 4 <= 2 * t.cap * 3
      BY <3>1
    <3>3. MustGrow(r) <=> (t.len + 0 + 1) * 4 > 2 * t.cap * 3
      BY <2>2 DEF MustGrow
    <3> QED BY <3>1, <3>2, <3>3
  <2>5. msSetAddHashed(t, x) = Insert(r, x)
    BY <1>2 DEF msSetAddHashed
  <2> QED BY <2>3, <2>4, <2>5, InsertHolds
<1> QED BY <1>1, <1>2

(* An item that is there already: the table is as it was, or has been      *)
(* replaced by one of twice the size without tombstones. *)
LEMMA InsertHere ==
  ASSUME SetAssumption, NEW t, NEW X, Holds(t, X), NEW x \in X
  PROVE  Insert(t, x).cap = t.cap /\ Insert(t, x).tombstones = t.tombstones
<1> PICK e : e = t.entries
  OBVIOUS
<1> PICK f : f = findSlot(e, x)
  OBVIOUS
<1>1. x \in Items /\ x # Tombstone /\ DOMAIN e = 0..t.cap - 1
  BY HoldsFacts DEF SetAssumption
<1>2. ItemsOf(e) = X /\ Shaped(t)
  BY HoldsIs
<1>3. Found(e, t.cap, x, f)
  BY <1>1, FindHolds
<1>4. e[f] = x
  BY <1>1, <1>2, <1>3, SlotFacts DEF Found
<1>5. t = [cap |-> t.cap, entries |-> e, len |-> t.len, tombstones |-> t.tombstones]
  BY <1>2 DEF Shaped
<1>6. Insert(t, x) = [t EXCEPT !.entries[f] = x, !.len = IF e[f] = x THEN @ ELSE @ + 1,
                               !.tombstones = IF e[f] = Tombstone THEN @ - 1 ELSE @]
  BY DEF Insert
<1>7. e[f] # Tombstone
  BY <1>1, <1>4
<1> QED BY <1>5, <1>6, <1>7

LEMMA AddHere ==
  ASSUME SetAssumption, NEW t, NEW X, Holds(t, X), NEW x \in X, NEW r, r = msSetAddHashed(t, x)
  PROVE  IF MustGrow(t) THEN r.cap = 2 * t.cap /\ r.tombstones = 0
                        ELSE r.cap = t.cap /\ r.tombstones = t.tombstones
<1>1. CASE ~MustGrow(t)
  BY <1>1, InsertHere DEF msSetAddHashed
<1>2. CASE MustGrow(t)
  <2> PICK q : q = msSetResize(t, 2 * t.cap)
    OBVIOUS
  <2>1. Good(t.entries, t.cap, t.len, t.tombstones) /\ ItemsOf(t.entries) = X
    BY HoldsIs
  <2>2. /\ Shaped(q) /\ Good(q.entries, 2 * t.cap, t.len, 0) /\ ItemsOf(q.entries) = X
        /\ q.cap = 2 * t.cap /\ q.len = t.len /\ q.tombstones = 0
    BY <2>1, ResizeFacts
  <2>3. Holds(q, X)
    BY <2>2, HoldsIs
  <2>4. r = Insert(q, x)
    BY <1>2 DEF msSetAddHashed
  <2>5. r.cap = q.cap /\ r.tombstones = q.tombstones
    BY <2>3, <2>4, InsertHere
  <2> QED BY <1>2, <2>2, <2>5
<1> QED BY <1>1, <1>2

(* A slot is emptied, and no other. *)
LEMMA EraseHolds ==
  ASSUME SetAssumption, NEW t, NEW X, Holds(t, X), NEW f \in Taken(t.entries),
         NEW r, r = Erase(t, f)
  PROVE  /\ Holds(r, X \ {t.entries[f]}) /\ t.entries[f] \in X
         /\ r.cap = t.cap /\ \A s \in 0..t.cap - 1 : s # f => r.entries[s] = t.entries[s]
<1> PICK e : e = t.entries
  OBVIOUS
<1>1. Shaped(t) /\ Good(e, t.cap, t.len, t.tombstones) /\ ItemsOf(e) = X
  BY HoldsIs
<1>2. /\ Shaped(r) /\ r.entries = Erased(e, f) /\ r.cap = t.cap
      /\ r.len = t.len - 1 /\ r.tombstones = t.tombstones + 1
  <2>1. t = [cap |-> t.cap, entries |-> e, len |-> t.len, tombstones |-> t.tombstones]
    BY <1>1 DEF Shaped
  <2>2. r = [cap |-> t.cap, entries |-> [e EXCEPT ![f] = Tombstone],
             len |-> t.len - 1, tombstones |-> t.tombstones + 1]
    BY <2>1 DEF Erase
  <2> QED BY <2>2 DEF Shaped, Erased
<1>3. Good(r.entries, r.cap, r.len, r.tombstones) /\ Removed(e, t.cap, f, r.entries)
  BY <1>1, <1>2, GoodErase
<1>4. ItemsOf(r.entries) = X \ {e[f]} /\ \A s \in 0..t.cap - 1 : s # f => r.entries[s] = e[s]
  BY <1>1, <1>3 DEF Removed
<1>5. e[f] \in X
  BY <1>1 DEF ItemsOf
<1>6. Holds(r, X \ {e[f]})
  BY <1>2, <1>3, <1>4, HoldsIs
<1> QED BY <1>2, <1>4, <1>5, <1>6

LEMMA DiscardHolds ==
  ASSUME SetAssumption, NEW t, NEW X, Holds(t, X), NEW x \in Items
  PROVE  Holds(msSetDiscard(t, x), X \ {x})
<1> PICK f : f = findSlot(t.entries, x)
  OBVIOUS
<1>1. msSetFindInSet(t, x) = (x \in X) /\ Found(t.entries, t.cap, x, f)
  BY FindHolds
<1>2. CASE x \notin X
  <2>1. msSetDiscard(t, x) = t /\ X \ {x} = X
    BY <1>1, <1>2 DEF msSetDiscard
  <2> QED BY <2>1
<1>3. CASE x \in X
  <2>1. msSetDiscard(t, x) = Erase(t, f)
    BY <1>1, <1>3 DEF msSetDiscard
  <2>2. f \in Taken(t.entries) /\ t.entries[f] = x
    <3>1. ItemsOf(t.entries) = X /\ DOMAIN t.entries = 0..t.cap - 1
      BY HoldsIs, HoldsFacts
    <3> QED BY <1>1, <1>3, <3>1, SlotFacts DEF Found, Taken
  <2> QED BY <2>1, <2>2, EraseHolds
<1> QED BY <1>2, <1>3

(* The item is where a loop over the table has come across it. *)
LEMMA DiscardHere ==
  ASSUME SetAssumption, NEW t, NEW X, Holds(t, X), NEW s \in Taken(t.entries),
         NEW r, r = msSetDiscard(t, t.entries[s])
  PROVE  /\ Holds(r, X \ {t.entries[s]}) /\ t.entries[s] \in X /\ t.entries[s] \in Items
         /\ r.cap = t.cap /\ \A q \in 0..t.cap - 1 : q # s => r.entries[q] = t.entries[q]
<1> PICK x : x = t.entries[s]
  OBVIOUS
<1>1. x \in Items
  BY DEF Taken
<1>2. msSetFindInSet(t, x) = (x \in X) /\ Found(t.entries, t.cap, x, findSlot(t.entries, x))
  BY <1>1, FindHolds
<1>3. findSlot(t.entries, x) = s
  BY <1>2 DEF Found
<1>4. x \in X
  BY HoldsIs DEF ItemsOf
<1>5. r = Erase(t, s)
  <2>1. r = IF msSetFindInSet(t, x) THEN Erase(t, findSlot(t.entries, x)) ELSE t
    BY DEF msSetDiscard
  <2> QED BY <1>2, <1>3, <1>4, <2>1
<1> QED BY <1>1, <1>4, <1>5, EraseHolds

LEMMA PopHolds ==
  ASSUME SetAssumption, NEW t, NEW X, Holds(t, X), t.len > 0
  PROVE  \E x \in X : Holds(msSetPop(t), X \ {x})
<1> DEFINE S == {s \in DOMAIN t.entries : t.entries[s] \in Items}
<1>1. IsFiniteSet(X) /\ t.len = Cardinality(X) /\ X # {} /\ DOMAIN t.entries = 0..t.cap - 1 /\ ItemsOf(t.entries) = X
  BY HoldsFacts, HoldsIs, FS_EmptySet
<1>2. S \in SUBSET Nat /\ S # {}
  BY <1>1 DEF ItemsOf, Taken
<1>3. Min(S) \in S
  <2> HIDE DEF S
  <2> QED BY <1>2, MinFacts
<1> PICK f : f = Min(S)
  OBVIOUS
<1> PICK r : r = msSetPop(t)
  OBVIOUS
<1>4. f \in Taken(t.entries) /\ r = Erase(t, f)
  BY <1>3 DEF Taken, msSetPop
<1> HIDE DEF S
<1>5. Holds(r, X \ {t.entries[f]}) /\ t.entries[f] \in X
  BY <1>4, EraseHolds
<1> QED BY <1>5

LEMMA ClearHolds ==
  ASSUME SetAssumption, NEW t, NEW X, Holds(t, X)
  PROVE  Holds(msSetClear(t), {})
<1> PICK r : r = msSetClear(t)
  OBVIOUS
<1>1. t.cap \in Nat /\ t.cap >= MinCap /\ PowerOfTwo(t.cap)
  BY HoldsFacts
<1>2. Good(Empty(t.cap), t.cap, 0, 0) /\ ItemsOf(Empty(t.cap)) = {}
  BY <1>1, GoodEmpty
<1>3. Shaped(r) /\ r.entries = Empty(t.cap) /\ r.cap = t.cap /\ r.len = 0 /\ r.tombstones = 0
  <2>1. t = [cap |-> t.cap, entries |-> t.entries, len |-> t.len, tombstones |-> t.tombstones]
    BY HoldsIs DEF Shaped
  <2>2. r = [cap |-> t.cap, entries |-> Empty(t.cap), len |-> 0, tombstones |-> 0]
    BY <2>1 DEF msSetClear
  <2> QED BY <2>2 DEF Shaped
<1> QED BY <1>2, <1>3, HoldsIs

(* A copy has the slots of the table that it is a copy of. *)
LEMMA CopyHolds ==
  ASSUME SetAssumption, NEW t, NEW X, Holds(t, X)
  PROVE  Holds(msSetCopy(t), X)
<1>1. t.cap \in Nat /\ t.cap >= MinCap /\ PowerOfTwo(t.cap) /\ Table(t.entries, t.cap)
  BY HoldsFacts
<1> PICK r : r = msNewSet(t.cap)
  OBVIOUS
<1>2. r.cap = t.cap /\ r = [cap |-> r.cap, entries |-> r.entries, len |-> r.len, tombstones |-> r.tombstones]
  <2>1. Holds(r, {}) /\ r.cap = t.cap
    BY <1>1, RoundUpSame, NewHolds DEF msNewSet
  <2> QED BY <2>1, HoldsIs DEF Shaped
<1> PICK e : e = [s \in 0..r.cap - 1 |-> IF s < t.cap THEN t.entries[s] ELSE Never]
  OBVIOUS
<1>3. e = t.entries
  <2>1. r.cap = t.cap /\ r.cap \in Nat
    BY <1>1, <1>2
  <2>2. t.entries = [s \in 0..r.cap - 1 |-> t.entries[s]]
    BY <1>1, <2>1 DEF Table
  <2>3. \A s \in 0..r.cap - 1 : s < t.cap
    BY <2>1
  <2> QED BY <2>2, <2>3
<1> PICK q : q = msSetCopy(t)
  OBVIOUS
<1>4. q = [r EXCEPT !.entries = e, !.len = t.len, !.tombstones = t.tombstones]
  BY DEF msSetCopy
<1>5. q = [cap |-> t.cap, entries |-> e, len |-> t.len, tombstones |-> t.tombstones]
  BY ONLY <1>2, <1>4
<1>6. q = t
  BY <1>3, <1>5, HoldsIs DEF Shaped
<1> QED BY <1>6

----------------------------------------------------------------------------
(* Loops over a table that put its items into another: at each turn, the   *)
(* other table holds what it held and the wanted ones among the items that *)
(* the loop has seen. *)
Chosen(e, s, W) == Below(e, s) \cap W

Given(m, Y, e, s, W) == Holds(m, Y \cup Chosen(e, s, W))

Taking(w, W) ==
  \/ w.loop = "insert" /\ W = Items
  \/ /\ w.loop = "filter" /\ \A x \in Items : (msSetFindInSet(w.other, x) = w.wanted) <=> x \in W

LEMMA TakingTurn ==
  ASSUME SetAssumption, NEW t, NEW X, Holds(t, X), NEW Y, NEW W,
         NEW s \in 0..t.cap - 1, NEW m, Given(m, Y, t.entries, s, W),
         NEW w, w.t = t, Taking(w, W)
  PROVE  Given(Turn(w, m, s + 1), Y, t.entries, s + 1, W)
<1> PICK e : e = t.entries
  OBVIOUS
<1> PICK m2 : m2 = Turn(w, m, s + 1)
  OBVIOUS
<1>1. Table(e, t.cap) /\ DOMAIN e = 0..t.cap - 1 /\ s \in Nat
  BY HoldsFacts
<1>2. /\ w.loop = "insert" => m2 = IF e[s] \in Items THEN msSetAddHashed(m, e[s]) ELSE m
      /\ w.loop = "filter" => m2 = IF e[s] \in Items
                                   THEN IF msSetFindInSet(w.other, e[s]) = w.wanted THEN msSetAddHashed(m, e[s]) ELSE m
                                   ELSE m
  <2>1. (s + 1) - 1 = s
    BY <1>1
  <2> QED BY <2>1 DEF Turn
<1>3. m2 = IF e[s] \in Items /\ e[s] \in W THEN msSetAddHashed(m, e[s]) ELSE m
  BY <1>2 DEF Taking
<1>4. CASE e[s] \notin Items
  <2>1. Below(e, s + 1) = Below(e, s)
    BY <1>1, <1>4, BelowFacts DEF Taken
  <2> QED BY <1>3, <1>4, <2>1 DEF Chosen, Given
<1>5. CASE e[s] \in Items
  <2>1. Below(e, s + 1) = Below(e, s) \cup {e[s]}
    <3>1. s \in Taken(e)
      BY <1>1, <1>5 DEF Taken
    <3> QED BY <1>1, <3>1, BelowFacts
  <2>2. CASE e[s] \notin W
    <3>1. Chosen(e, s + 1, W) = Chosen(e, s, W)
      BY <2>1, <2>2 DEF Chosen
    <3> QED BY <1>3, <2>2, <3>1 DEF Given
  <2>3. CASE e[s] \in W
    <3>1. Y \cup Chosen(e, s + 1, W) = (Y \cup Chosen(e, s, W)) \cup {e[s]}
      BY <2>1, <2>3 DEF Chosen
    <3>2. Holds(m2, (Y \cup Chosen(e, s, W)) \cup {e[s]})
      BY <1>3, <1>5, <2>3, AddHolds DEF Given
    <3> QED BY <3>1, <3>2 DEF Given
  <2> QED BY <2>2, <2>3
<1> QED BY <1>4, <1>5

LEMMA TakingHolds ==
  ASSUME SetAssumption, NEW t, NEW X, Holds(t, X), NEW r, NEW Y, Holds(r, Y), NEW W,
         NEW w, w.t = t, Taking(w, W), NEW f, Turns(f, t.cap, r, w)
  PROVE  Holds(f[t.cap], Y \cup (X \cap W))
<1> PICK c : c = t.cap
  OBVIOUS
<1> PICK e : e = t.entries
  OBVIOUS
<1>1. c \in Nat /\ Table(e, c)
  BY HoldsFacts
<1>2. f[0] = r /\ \A s \in 0..c - 1 : f[s + 1] = Turn(w, f[s], s + 1)
  BY <1>1, TurnsFacts
<1> DEFINE S == {s \in 0..c : Given(f[s], Y, e, s, W)}
<1>3. 0 \in S
  <2>1. Y \cup Chosen(e, 0, W) = Y
    BY <1>1, BelowFacts DEF Chosen
  <2>2. Holds(f[0], Y) /\ 0 \in 0..c
    BY <1>1, <1>2
  <2>3. Given(f[0], Y, e, 0, W)
    BY Zenon, <2>1, <2>2 DEF Given
  <2> QED BY <2>2, <2>3
<1>4. ASSUME NEW s \in 0..c - 1, s \in S PROVE s + 1 \in S
  <2>1. Given(Turn(w, f[s], s + 1), Y, e, s + 1, W)
    BY <1>4, TakingTurn
  <2>2. s + 1 \in 0..c
    BY <1>1
  <2> QED BY <1>2, <2>1, <2>2
<1>5. Given(f[c], Y, e, c, W)
  <2>1. c \in S
    <3> HIDE DEF S
    <3> QED BY <1>1, <1>3, <1>4, Upto
  <2> QED BY <2>1
<1>6. Chosen(e, c, W) = X \cap W
  BY <1>1, BelowFacts, HoldsIs DEF Chosen
<1> QED BY <1>5, <1>6 DEF Given

(* frozensetInsertAll *)
LEMMA InsertAllHolds ==
  ASSUME SetAssumption, NEW t, NEW X, Holds(t, X), NEW r, NEW Y, Holds(r, Y)
  PROVE  Holds(InsertAll(r, t), Y \cup X)
<1> PICK w : w = [loop |-> "insert", t |-> t]
  OBVIOUS
<1>1. t.cap \in Nat /\ X \subseteq Items
  BY HoldsFacts
<1>2. PICK f : Turns(f, t.cap, r, w) /\ InsertAll(r, t) = f[t.cap]
  BY <1>1, InsertTurns
<1>3. w.t = t /\ Taking(w, Items) /\ X \cap Items = X
  BY <1>1 DEF Taking
<1>4. Holds(f[t.cap], Y \cup (X \cap Items))
  BY <1>2, <1>3, TakingHolds
<1> QED BY <1>2, <1>3, <1>4

(* frozensetFilterInto *)
LEMMA FilterIntoHolds ==
  ASSUME SetAssumption, NEW t, NEW X, Holds(t, X), NEW r, NEW Y, Holds(r, Y), NEW u, NEW Z, Holds(u, Z)
  PROVE  /\ Holds(FilterInto(r, t, u, TRUE), Y \cup (X \cap Z))
         /\ Holds(FilterInto(r, t, u, FALSE), Y \cup (X \ Z))
<1>1. t.cap \in Nat /\ X \subseteq Items /\ \A x \in Items : msSetFindInSet(u, x) = (x \in Z)
  BY HoldsFacts, FindHolds
<1>2. Holds(FilterInto(r, t, u, TRUE), Y \cup (X \cap Z))
  <2> PICK w : w = [loop |-> "filter", t |-> t, other |-> u, wanted |-> TRUE]
    OBVIOUS
  <2>1. PICK f : Turns(f, t.cap, r, w) /\ FilterInto(r, t, u, TRUE) = f[t.cap]
    BY <1>1, FilterTurns
  <2>2. w.t = t /\ w.loop = "filter" /\ w.other = u /\ w.wanted = TRUE
    OBVIOUS
  <2>3. Taking(w, Z)
    BY <1>1, <2>2 DEF Taking
  <2>4. Holds(f[t.cap], Y \cup (X \cap Z))
    BY <2>1, <2>2, <2>3, TakingHolds
  <2> QED BY <2>1, <2>4
<1>3. Holds(FilterInto(r, t, u, FALSE), Y \cup (X \ Z))
  <2> PICK w : w = [loop |-> "filter", t |-> t, other |-> u, wanted |-> FALSE]
    OBVIOUS
  <2>1. PICK f : Turns(f, t.cap, r, w) /\ FilterInto(r, t, u, FALSE) = f[t.cap]
    BY <1>1, FilterTurns
  <2>2. w.t = t /\ w.loop = "filter" /\ w.other = u /\ w.wanted = FALSE
    OBVIOUS
  <2>3. Taking(w, Items \ Z)
    <3>1. ASSUME NEW x \in Items PROVE (msSetFindInSet(u, x) = FALSE) <=> x \in Items \ Z
      <4>1. msSetFindInSet(u, x) = (x \in Z)
        BY <1>1
      <4>2. msSetFindInSet(u, x) \in BOOLEAN
        BY <4>1
      <4>3. msSetFindInSet(u, x) <=> x \in Z
        BY <4>1
      <4> QED BY <4>2, <4>3
    <3>2. \A x \in Items : (msSetFindInSet(w.other, x) = w.wanted) <=> x \in Items \ Z
      BY <2>2, <3>1
    <3> QED BY <2>2, <3>2 DEF Taking
  <2>4. Holds(f[t.cap], Y \cup (X \cap (Items \ Z)))
    BY <2>1, <2>2, <2>3, TakingHolds
  <2>5. X \cap (Items \ Z) = X \ Z
    BY <1>1
  <2> QED BY <2>1, <2>4, <2>5
<1> QED BY <1>2, <1>3

(* The new sets that are made from others. *)
LEMMA NewSetsHold ==
  ASSUME SetAssumption, NEW a, NEW A, Holds(a, A), NEW b, NEW B, Holds(b, B)
  PROVE  /\ Holds(msSetUnion(a, b), A \cup B)
         /\ Holds(msSetDiff(a, b), A \ B)
         /\ Holds(msSetSymDiff(a, b), (A \ B) \cup (B \ A))
         /\ Holds(msSetIntersect(a, b), A \cap B)
         /\ Holds(msNewFrozensetFromIter(a), A)
<1>1. a.len \in Nat /\ b.len \in Nat /\ a.len + b.len \in Nat /\ Min({a.len, b.len}) \in Nat
  <2>1. a.len \in Nat /\ b.len \in Nat
    BY HoldsFacts
  <2>2. {a.len, b.len} \in SUBSET Nat /\ {a.len, b.len} # {}
    BY <2>1
  <2>3. Min({a.len, b.len}) \in {a.len, b.len}
    BY <2>2, MinFacts
  <2> QED BY <2>1, <2>3
<1>2. \A n \in Nat : Holds(msNewSet(n), {})
  BY NewHolds
<1>3. Holds(msSetUnion(a, b), A \cup B)
  <2>1. Holds(InsertAll(msNewSet(a.len + b.len), a), {} \cup A)
    BY <1>1, <1>2, InsertAllHolds
  <2>2. Holds(InsertAll(InsertAll(msNewSet(a.len + b.len), a), b), ({} \cup A) \cup B)
    BY <2>1, InsertAllHolds
  <2>3. ({} \cup A) \cup B = A \cup B
    OBVIOUS
  <2> QED BY <2>2, <2>3 DEF msSetUnion
<1>4. Holds(msSetDiff(a, b), A \ B)
  <2>1. Holds(FilterInto(msNewSet(a.len), a, b, FALSE), {} \cup (A \ B))
    BY <1>1, <1>2, FilterIntoHolds
  <2>2. {} \cup (A \ B) = A \ B
    OBVIOUS
  <2> QED BY <2>1, <2>2 DEF msSetDiff
<1>5. Holds(msSetSymDiff(a, b), (A \ B) \cup (B \ A))
  <2>1. Holds(FilterInto(msNewSet(a.len + b.len), a, b, FALSE), {} \cup (A \ B))
    BY <1>1, <1>2, FilterIntoHolds
  <2>2. Holds(FilterInto(FilterInto(msNewSet(a.len + b.len), a, b, FALSE), b, a, FALSE), ({} \cup (A \ B)) \cup (B \ A))
    BY <2>1, FilterIntoHolds
  <2>3. ({} \cup (A \ B)) \cup (B \ A) = (A \ B) \cup (B \ A)
    OBVIOUS
  <2> QED BY <2>2, <2>3 DEF msSetSymDiff
<1>6. Holds(msSetIntersect(a, b), A \cap B)
  <2>1. Holds(FilterInto(msNewSet(Min({a.len, b.len})), a, b, TRUE), {} \cup (A \cap B))
    BY <1>1, <1>2, FilterIntoHolds
  <2>2. {} \cup (A \cap B) = A \cap B
    OBVIOUS
  <2> QED BY <2>1, <2>2 DEF msSetIntersect
<1>7. Holds(msNewFrozensetFromIter(a), A)
  <2>1. Holds(InsertAll(msNewSet(a.len), a), {} \cup A)
    BY <1>1, <1>2, InsertAllHolds
  <2>2. {} \cup A = A
    OBVIOUS
  <2> QED BY <2>1, <2>2 DEF msNewFrozensetFromIter
<1> QED BY <1>3, <1>4, <1>5, <1>6, <1>7

----------------------------------------------------------------------------
(* The comparisons. *)
LEMMA ComparisonsHold ==
  ASSUME SetAssumption, NEW a, NEW A, Holds(a, A), NEW b, NEW B, Holds(b, B)
  PROVE  /\ msSetIsSubset(a, b) <=> A \subseteq B
         /\ msSetIsProperSubset(a, b) <=> A \subseteq B /\ A # B
         /\ setEq(a, b) <=> A = B
         /\ msSetIsDisjoint(a, b) <=> A \cap B = {}
<1>1. /\ A \subseteq Items /\ IsFiniteSet(A) /\ a.len = Cardinality(A) /\ a.len \in Nat
      /\ IsFiniteSet(B) /\ b.len = Cardinality(B) /\ b.len \in Nat
      /\ \A x \in Items : msSetFindInSet(b, x) = (x \in B)
  BY HoldsFacts, FindHolds
<1>2. A = {a.entries[s] : s \in DOMAIN a.entries} \cap Items
  BY DEF Holds, ItemsIn
<1>3. A \subseteq B => a.len <= b.len
  BY <1>1, FS_Subset
<1>4. A \subseteq B /\ a.len = b.len => A = B
  BY <1>1, FS_Subset
<1>5. msSetIsSubset(a, b) <=> A \subseteq B
  <2>1. (\A s \in DOMAIN a.entries : a.entries[s] \in Items => msSetFindInSet(b, a.entries[s])) <=> A \subseteq B
    BY <1>1, <1>2
  <2> QED BY <1>3, <2>1 DEF msSetIsSubset
<1>6. msSetIsProperSubset(a, b) <=> A \subseteq B /\ A # B
  <2>1. a.len <= b.len /\ a.len # b.len <=> a.len < b.len
    BY <1>1
  <2>2. A = B => a.len = b.len
    BY <1>1
  <2> QED BY <1>3, <1>4, <1>5, <2>1, <2>2 DEF msSetIsProperSubset
<1>7. setEq(a, b) <=> A = B
  BY <1>1, <1>4, <1>5 DEF setEq
<1>8. msSetIsDisjoint(a, b) <=> A \cap B = {}
  BY <1>1, <1>2 DEF msSetIsDisjoint
<1> QED BY <1>5, <1>6, <1>7, <1>8

----------------------------------------------------------------------------
(* Methods that change a set while they walk over a table. *)

(* The set v holds X, and no other set has changed. *)
Changed(h, v, X) ==
  /\ DOMAIN h = Objs
  /\ \A u \in Objs : u # v => h[u] = heap[u]
  /\ Holds(h[v], X)

LEMMA HeapFacts ==
  ASSUME SetAssumption, TablesSound, NEW v \in Objs
  PROVE  /\ Holds(heap[v], ItemsIn(heap[v])) /\ DOMAIN heap = Objs
         /\ heap[v].cap \in Nat \ {0} /\ DOMAIN heap[v].entries = 0..heap[v].cap - 1
         /\ Table(heap[v].entries, heap[v].cap) /\ Reachable(heap[v].entries, heap[v].cap)
         /\ ItemsOf(heap[v].entries) = ItemsIn(heap[v])
<1>1. Holds(heap[v], ItemsIn(heap[v])) /\ DOMAIN heap = Objs
  BY DEF TablesSound, Holds
<1>2. heap[v].cap \in Nat \ {0}
  BY <1>1, HoldsFacts
<1> QED BY <1>1, <1>2, HoldsFacts, HoldsIs

(* Walking over v and discarding the items D as they come up: the slots    *)
(* that the walk has not come to are as they were. *)
Erasing(h, v, D, s) ==
  /\ Changed(h, v, ItemsIn(heap[v]) \ (Below(heap[v].entries, s) \cap D))
  /\ h[v].cap = heap[v].cap
  /\ \A q \in Nat : s <= q /\ q < heap[v].cap => h[v].entries[q] = heap[v].entries[q]

ErasingTurn(h, v, D, s, h2) ==
  h2 = IF s < h[v].cap /\ h[v].entries[s] \in Items /\ h[v].entries[s] \in D
       THEN [h EXCEPT ![v] = msSetDiscard(@, h[v].entries[s])] ELSE h

LEMMA ErasingStep ==
  ASSUME SetAssumption, TablesSound, NEW v \in Objs, NEW D, NEW s \in Nat, NEW h, Erasing(h, v, D, s),
         NEW h2, ErasingTurn(h, v, D, s, h2)
  PROVE  Erasing(h2, v, D, s + 1)
<1> PICK e : e = heap[v].entries
  OBVIOUS
<1> PICK c : c = heap[v].cap
  OBVIOUS
<1> PICK X : X = ItemsIn(heap[v])
  OBVIOUS
<1> PICK t : t = h[v]
  OBVIOUS
<1> PICK Y : Y = X \ (Below(e, s) \cap D)
  OBVIOUS
<1>1. c \in Nat \ {0} /\ DOMAIN e = 0..c - 1 /\ Table(e, c)
  BY HeapFacts
<1>2. /\ DOMAIN h = Objs /\ \A u \in Objs : u # v => h[u] = heap[u]
      /\ t.cap = c /\ \A q \in Nat : s <= q /\ q < c => t.entries[q] = e[q]
  BY DEF Erasing, Changed
<1>3. Holds(t, Y)
  BY DEF Erasing, Changed
<1>4. \A q \in Nat : s + 1 <= q /\ q < c => t.entries[q] = e[q] /\ q # s
  <2>1. \A q \in Nat : s + 1 <= q => s <= q /\ q # s
    OBVIOUS
  <2> QED BY <1>2, <2>1
<1>5. CASE ~(s < c /\ e[s] \in Items /\ e[s] \in D)
  <2>1. h2 = h
    BY <1>2, <1>5 DEF ErasingTurn
  <2>2. Below(e, s + 1) \cap D = Below(e, s) \cap D
    <3>1. CASE s \in Taken(e)
      <4>1. s < c /\ e[s] \in Items
        BY <1>1, <3>1 DEF Taken
      <4>2. Below(e, s + 1) = Below(e, s) \cup {e[s]}
        BY <1>1, <3>1, BelowFacts
      <4> QED BY <1>5, <4>1, <4>2
    <3>2. CASE s \notin Taken(e)
      BY <1>1, <3>2, BelowFacts
    <3> QED BY <3>1, <3>2
  <2>3. Y = X \ (Below(e, s + 1) \cap D)
    BY <2>2
  <2>4. Holds(h2[v], X \ (Below(e, s + 1) \cap D))
    BY Zenon, <1>3, <2>1, <2>3
  <2> QED BY <1>2, <1>4, <2>1, <2>4 DEF Erasing, Changed
<1>6. CASE s < c /\ e[s] \in Items /\ e[s] \in D
  <2> PICK x : x = e[s]
    OBVIOUS
  <2> PICK r : r = msSetDiscard(t, t.entries[s])
    OBVIOUS
  <2>1. t.entries[s] = x
    BY <1>2, <1>6
  <2>2. h2 = [h EXCEPT ![v] = r]
    BY <1>2, <1>6, <2>1 DEF ErasingTurn
  <2>3. s \in Taken(t.entries) /\ s \in Taken(e)
    <3>1. DOMAIN t.entries = 0..c - 1
      BY <1>2, <1>3, HoldsFacts
    <3>2. s \in 0..c - 1
      BY <1>1, <1>6
    <3> QED BY <1>1, <1>6, <2>1, <3>1, <3>2 DEF Taken
  <2>4. Holds(r, Y \ {x}) /\ r.cap = c /\ \A q \in 0..c - 1 : q # s => r.entries[q] = t.entries[q]
    <3>1. /\ Holds(r, Y \ {t.entries[s]})
          /\ r.cap = t.cap /\ \A q \in 0..t.cap - 1 : q # s => r.entries[q] = t.entries[q]
      BY <1>3, <2>3, DiscardHere
    <3> QED BY <1>2, <2>1, <3>1
  <2>5. Below(e, s + 1) = Below(e, s) \cup {x}
    BY <1>1, <2>3, BelowFacts
  <2>6. Y \ {x} = X \ (Below(e, s + 1) \cap D)
    BY <1>6, <2>5
  <2>7. h2[v] = r /\ DOMAIN h2 = Objs /\ \A u \in Objs : u # v => h2[u] = heap[u]
    BY <1>2, <2>2
  <2>8. Holds(h2[v], X \ (Below(e, s + 1) \cap D))
    BY Zenon, <2>4, <2>6, <2>7
  <2>9. \A q \in Nat : s + 1 <= q /\ q < c => h2[v].entries[q] = e[q]
    <3>1. \A q \in Nat : q < c => q \in 0..c - 1
      BY <1>1
    <3> QED BY <1>4, <2>4, <2>7, <3>1
  <2> QED BY <2>4, <2>7, <2>8, <2>9 DEF Erasing, Changed
<1> QED BY <1>5, <1>6

(* The items that a method discards: those that the other set does not     *)
(* have, those that it has, and, of the symmetric difference of a set and  *)
(* itself, all. *)
Discards(w, v, o, D) ==
  /\ w.v = v /\ w.o = o
  /\ \/ w.loop = "keep" /\ D = ItemsIn(heap[v]) \ ItemsIn(heap[o])
     \/ w.loop = "drop" /\ D = ItemsIn(heap[o])
     \/ w.loop = "toggle" /\ v = o /\ D = ItemsIn(heap[o])

LEMMA DiscardsTurn ==
  ASSUME SetAssumption, TablesSound, NEW v \in Objs, NEW o \in Objs, NEW D, NEW w, Discards(w, v, o, D),
         NEW s \in Nat, NEW h, Erasing(h, v, D, s)
  PROVE  ErasingTurn(h, v, D, s, Turn(w, h, s + 1))
<1> PICK t : t = h[v]
  OBVIOUS
<1> PICK x : x = t.entries[s]
  OBVIOUS
<1> PICK h2 : h2 = Turn(w, h, s + 1)
  OBVIOUS
<1> PICK found : found = msSetFindInSet(h[o], x)
  OBVIOUS
<1> PICK r : r = [h EXCEPT ![v] = msSetDiscard(@, x)]
  OBVIOUS
<1>1. /\ w.loop = "keep" => h2 = IF s < t.cap /\ x \in Items THEN IF found THEN h ELSE r ELSE h
      /\ w.loop = "drop" => h2 = IF s < t.cap /\ x \in Items THEN IF found THEN r ELSE h ELSE h
      /\ w.loop = "toggle" => h2 = IF s < t.cap /\ x \in Items
                                   THEN IF found THEN r ELSE [h EXCEPT ![v] = msSetAddHashed(@, x)] ELSE h
  <2>1. w.v = v /\ w.o = o /\ (w.loop = "toggle" => v = o) /\ (s + 1) - 1 = s
    BY DEF Discards
  <2>2. s + 1 <= t.cap <=> s < t.cap
    <3>1. t.cap \in Nat
      BY HeapFacts DEF Erasing
    <3> QED BY <3>1
  <2> QED BY <2>1, <2>2 DEF Turn
<1>2. CASE s < t.cap /\ x \in Items
  <2>1. DOMAIN t.entries = 0..t.cap - 1 /\ t.cap = heap[v].cap /\ t.cap \in Nat
    <3>1. t.cap = heap[v].cap /\ heap[v].cap \in Nat
      BY HeapFacts DEF Erasing
    <3>2. DOMAIN t.entries = 0..t.cap - 1
      BY HoldsFacts DEF Erasing, Changed
    <3> QED BY <3>1, <3>2
  <2>2. x = heap[v].entries[s] /\ s \in DOMAIN heap[v].entries /\ s \in DOMAIN t.entries
    <3>1. s \in 0..t.cap - 1
      BY <1>2, <2>1
    <3> QED BY <1>2, <2>1, <3>1, HeapFacts DEF Erasing
  <2>3. x \in ItemsIn(heap[v]) /\ x \in ItemsIn(t)
    BY <1>2, <2>2 DEF ItemsIn
  <2>4. CASE o = v
    <3>1. found = TRUE
      <4>1. found = (x \in ItemsIn(t))
        BY <1>2, <2>4, FindHolds DEF Erasing, Changed, Holds
      <4> QED BY <2>3, <4>1
    <3> QED BY <1>1, <1>2, <2>3, <2>4, <3>1 DEF Discards, ErasingTurn
  <2>5. CASE o # v
    <3>1. h[o] = heap[o]
      BY <2>5 DEF Erasing, Changed
    <3>2. found <=> x \in ItemsIn(heap[o])
      <4>1. found = (x \in ItemsIn(heap[o]))
        BY <1>2, <3>1, FindHolds, HeapFacts
      <4> QED BY <4>1
    <3> QED BY <1>1, <1>2, <2>3, <2>5, <3>2 DEF Discards, ErasingTurn
  <2> QED BY <2>4, <2>5
<1>3. CASE ~(s < t.cap /\ x \in Items)
  BY <1>1, <1>3 DEF Discards, ErasingTurn
<1> QED BY <1>2, <1>3

LEMMA DiscardsHolds ==
  ASSUME SetAssumption, TablesSound, NEW v \in Objs, NEW o \in Objs, NEW D, NEW w, Discards(w, v, o, D),
         NEW f, Turns(f, 2 * heap[v].cap, heap, w)
  PROVE  /\ Changed(f[2 * heap[v].cap], v, ItemsIn(heap[v]) \ D)
         /\ f[2 * heap[v].cap][v].cap = heap[v].cap
<1> PICK e : e = heap[v].entries
  OBVIOUS
<1> PICK c : c = heap[v].cap
  OBVIOUS
<1> PICK X : X = ItemsIn(heap[v])
  OBVIOUS
<1> PICK n : n = 2 * c
  OBVIOUS
<1>1. c \in Nat \ {0} /\ n \in Nat /\ n >= c /\ Table(e, c) /\ Holds(heap[v], X) /\ ItemsOf(e) = X /\ DOMAIN heap = Objs
  BY HeapFacts
<1>2. f[0] = heap /\ \A s \in 0..n - 1 : f[s + 1] = Turn(w, f[s], s + 1)
  BY <1>1, TurnsFacts
<1> DEFINE S == {s \in Nat : Erasing(f[s], v, D, s)}
<1>3. 0 \in S
  <2>1. X \ (Below(e, 0) \cap D) = X
    BY <1>1, BelowFacts
  <2>2. Holds(heap[v], X \ (Below(e, 0) \cap D))
    BY Zenon, <1>1, <2>1
  <2>3. Erasing(heap, v, D, 0)
    BY <1>1, <2>2 DEF Erasing, Changed
  <2> QED BY <1>2, <2>3
<1>4. ASSUME NEW s \in 0..n - 1, s \in S PROVE s + 1 \in S
  <2> PICK h : h = f[s]
    OBVIOUS
  <2>1. s \in Nat /\ Erasing(h, v, D, s)
    BY <1>4
  <2>2. ErasingTurn(h, v, D, s, f[s + 1])
    BY <1>2, <2>1, DiscardsTurn
  <2>3. Erasing(f[s + 1], v, D, s + 1)
    BY <2>1, <2>2, ErasingStep
  <2> QED BY <2>1, <2>3
<1>5. Erasing(f[n], v, D, n)
  <2>1. n \in S
    <3> HIDE DEF S
    <3> QED BY <1>1, <1>3, <1>4, Upto
  <2> QED BY <2>1
<1>6. X \ (Below(e, n) \cap D) = X \ D
  BY <1>1, BelowFacts
<1>7. Holds(f[n][v], X \ D)
  <2>1. Holds(f[n][v], X \ (Below(e, n) \cap D))
    BY <1>5 DEF Erasing, Changed
  <2> QED BY Zenon, <1>6, <2>1
<1> QED BY <1>5, <1>7 DEF Erasing, Changed

(* Walking over another table o, and changing v by each item.  (The set   *)
(* that is walked over may be v itself in msSetUpdate: it then grows to no *)
(* purpose and keeps its items.) *)
UpTo(w, v, o, s) ==
  LET X == ItemsIn(heap[v])  B == Below(heap[o].entries, s) IN
  IF w.loop = "update" THEN X \cup B ELSE (X \ B) \cup (B \ X)

Walks(w, v, o) == w.v = v /\ w.o = o /\ v # o /\ w.loop \in {"update", "toggle"}

LEMMA WalksStep ==
  ASSUME SetAssumption, TablesSound, NEW v \in Objs, NEW o \in Objs, NEW w, Walks(w, v, o),
         NEW s \in Nat, NEW h, Changed(h, v, UpTo(w, v, o, s))
  PROVE  Changed(Turn(w, h, s + 1), v, UpTo(w, v, o, s + 1))
<1> PICK t : t = heap[o]
  OBVIOUS
<1> PICK e : e = t.entries
  OBVIOUS
<1> PICK x : x = e[s]
  OBVIOUS
<1> PICK X : X = ItemsIn(heap[v])
  OBVIOUS
<1> PICK Y : Y = UpTo(w, v, o, s)
  OBVIOUS
<1> PICK h2 : h2 = Turn(w, h, s + 1)
  OBVIOUS
<1> PICK added : added = msSetAddHashed(h[v], x)
  OBVIOUS
<1> PICK dropped : dropped = msSetDiscard(h[v], x)
  OBVIOUS
<1>1. /\ t.cap \in Nat \ {0} /\ DOMAIN e = 0..t.cap - 1 /\ Table(e, t.cap) /\ Reachable(e, t.cap) /\ h[o] = t
      /\ DOMAIN h = Objs /\ (\A u \in Objs : u # v => h[u] = heap[u]) /\ Holds(h[v], Y)
  BY HeapFacts DEF Changed, Walks
<1>2. /\ w.loop = "update" => h2 = IF s < t.cap /\ x \in Items THEN [h EXCEPT ![v] = added] ELSE h
      /\ w.loop = "toggle" => h2 = IF s < t.cap /\ x \in Items
                                   THEN IF msSetFindInSet(h[v], x) THEN [h EXCEPT ![v] = dropped]
                                        ELSE [h EXCEPT ![v] = added]
                                   ELSE h
  <2>1. w.v = v /\ w.o = o /\ (s + 1) - 1 = s /\ (s + 1 <= t.cap <=> s < t.cap)
    BY <1>1 DEF Walks
  <2> QED BY <1>1, <2>1 DEF Turn
<1>3. CASE ~(s < t.cap /\ x \in Items)
  <2>1. h2 = h
    BY <1>2, <1>3 DEF Walks
  <2>2. s \notin Taken(e)
    BY <1>1, <1>3 DEF Taken
  <2>3. Below(e, s + 1) = Below(e, s)
    BY <1>1, <2>2, BelowFacts
  <2>4. UpTo(w, v, o, s + 1) = Y
    BY <2>3 DEF UpTo
  <2> QED BY <2>1, <2>4
<1>4. CASE s < t.cap /\ x \in Items
  <2>1. s \in Taken(e)
    BY <1>1, <1>4 DEF Taken
  <2>2. Below(e, s + 1) = Below(e, s) \cup {x} /\ x \notin Below(e, s)
    BY <1>1, <2>1, BelowFacts, SeenOnce
  <2>3. Holds(added, Y \cup {x}) /\ Holds(dropped, Y \ {x}) /\ msSetFindInSet(h[v], x) = (x \in Y)
    BY <1>1, <1>4, AddHolds, DiscardHolds, FindHolds
  <2> PICK B : B = Below(e, s)
    OBVIOUS
  <2>4. CASE w.loop = "update"
    <3>1. Y = X \cup B /\ UpTo(w, v, o, s + 1) = X \cup (B \cup {x})
      BY <2>2, <2>4 DEF UpTo
    <3>2. UpTo(w, v, o, s + 1) = Y \cup {x}
      BY <3>1
    <3>3. h2 = [h EXCEPT ![v] = added]
      BY <1>2, <1>4, <2>4
    <3>4. Holds(added, UpTo(w, v, o, s + 1))
      BY Zenon, <2>3, <3>2
    <3> QED BY <1>1, <3>3, <3>4 DEF Changed
  <2>5. CASE w.loop = "toggle"
    <3>1. Y = (X \ B) \cup (B \ X) /\ UpTo(w, v, o, s + 1) = (X \ (B \cup {x})) \cup ((B \cup {x}) \ X)
      BY <2>2, <2>5 DEF UpTo
    <3>2. CASE x \in X
      <4>1. UpTo(w, v, o, s + 1) = Y \ {x} /\ x \in Y
        BY <2>2, <3>1, <3>2
      <4>2. h2 = [h EXCEPT ![v] = dropped]
        BY <1>2, <1>4, <2>3, <2>5, <4>1
      <4>3. Holds(dropped, UpTo(w, v, o, s + 1))
        BY Zenon, <2>3, <4>1
      <4> QED BY <1>1, <4>2, <4>3 DEF Changed
    <3>3. CASE x \notin X
      <4>1. UpTo(w, v, o, s + 1) = Y \cup {x} /\ x \notin Y
        BY <2>2, <3>1, <3>3
      <4>2. h2 = [h EXCEPT ![v] = added]
        BY <1>2, <1>4, <2>3, <2>5, <4>1
      <4>3. Holds(added, UpTo(w, v, o, s + 1))
        BY Zenon, <2>3, <4>1
      <4> QED BY <1>1, <4>2, <4>3 DEF Changed
    <3> QED BY <3>2, <3>3
  <2> QED BY <2>4, <2>5 DEF Walks
<1> QED BY <1>3, <1>4

LEMMA WalksHolds ==
  ASSUME SetAssumption, TablesSound, NEW v \in Objs, NEW o \in Objs, NEW w, Walks(w, v, o),
         NEW f, Turns(f, 2 * heap[o].cap, heap, w)
  PROVE  /\ w.loop = "update" => Changed(f[2 * heap[o].cap], v, ItemsIn(heap[v]) \cup ItemsIn(heap[o]))
         /\ w.loop = "toggle" => Changed(f[2 * heap[o].cap], v, (ItemsIn(heap[v]) \ ItemsIn(heap[o]))
                                                                \cup (ItemsIn(heap[o]) \ ItemsIn(heap[v])))
<1> PICK e : e = heap[o].entries
  OBVIOUS
<1> PICK c : c = heap[o].cap
  OBVIOUS
<1> PICK n : n = 2 * c
  OBVIOUS
<1>1. c \in Nat \ {0} /\ n \in Nat /\ n >= c /\ Table(e, c) /\ ItemsOf(e) = ItemsIn(heap[o])
  BY HeapFacts
<1>2. f[0] = heap /\ \A s \in 0..n - 1 : f[s + 1] = Turn(w, f[s], s + 1)
  BY <1>1, TurnsFacts
<1> DEFINE S == {s \in Nat : Changed(f[s], v, UpTo(w, v, o, s))}
<1>3. 0 \in S
  <2>1. UpTo(w, v, o, 0) = ItemsIn(heap[v])
    BY <1>1, BelowFacts DEF UpTo
  <2>2. Changed(heap, v, ItemsIn(heap[v]))
    BY HeapFacts DEF Changed
  <2> QED BY <1>2, <2>1, <2>2
<1>4. ASSUME NEW s \in 0..n - 1, s \in S PROVE s + 1 \in S
  <2>1. s \in Nat /\ Changed(f[s], v, UpTo(w, v, o, s))
    BY <1>4
  <2>2. Changed(Turn(w, f[s], s + 1), v, UpTo(w, v, o, s + 1))
    BY <2>1, WalksStep
  <2> QED BY <1>2, <2>1, <2>2
<1>5. Changed(f[n], v, UpTo(w, v, o, n))
  <2>1. n \in S
    <3> HIDE DEF S
    <3> QED BY <1>1, <1>3, <1>4, Upto
  <2> QED BY <2>1
<1>6. Below(e, n) = ItemsIn(heap[o])
  BY <1>1, BelowFacts
<1> QED BY <1>5, <1>6 DEF UpTo

(* While s.update(s) runs, its table has grown once at most: without       *)
(* tombstones and at twice the size it need not grow. *)
OnceGrown(t, c) == t.cap = c \/ (t.cap = 2 * c /\ t.tombstones = 0)

LEMMA UpdateSelf ==
  ASSUME SetAssumption, TablesSound, NEW v \in Objs, NEW w, w.loop = "update", w.v = v, w.o = v,
         NEW f, Turns(f, 2 * heap[v].cap, heap, w)
  PROVE  /\ Changed(f[2 * heap[v].cap], v, ItemsIn(heap[v]))
         /\ f[2 * heap[v].cap][v].cap <= 2 * heap[v].cap
<1> PICK n : n = 2 * heap[v].cap
  OBVIOUS
<1> PICK X : X = ItemsIn(heap[v])
  OBVIOUS
<1> PICK c : c = heap[v].cap
  OBVIOUS
<1>1. n \in Nat /\ c \in Nat /\ n = 2 * c
  BY HeapFacts
<1>0. c >= 4 /\ heap[v].len = Cardinality(X) /\ heap[v].len \in Nat /\ heap[v].len * 4 <= c * 3
  <2>1. Holds(heap[v], X)
    BY HeapFacts
  <2>2. c >= 4 /\ heap[v].len = Cardinality(X) /\ heap[v].len \in Nat
    BY <2>1, HoldsFacts
  <2>3. Good(heap[v].entries, c, heap[v].len, heap[v].tombstones)
    BY <2>1, HoldsIs
  <2>4. heap[v].tombstones \in Nat /\ (heap[v].len + heap[v].tombstones) * 4 <= c * 3
    BY <2>3, GoodFacts DEF Good
  <2> QED BY <1>1, <2>2, <2>4
<1>2. f[0] = heap /\ \A s \in 0..n - 1 : f[s + 1] = Turn(w, f[s], s + 1)
  BY <1>1, TurnsFacts
<1> DEFINE S == {s \in Nat : Changed(f[s], v, X) /\ OnceGrown(f[s][v], c)}
<1>3. 0 \in S
  BY <1>2, HeapFacts DEF Changed, OnceGrown
<1>4. ASSUME NEW s \in 0..n - 1, s \in S PROVE s + 1 \in S
  <2> PICK h : h = f[s]
    OBVIOUS
  <2> PICK t : t = h[v]
    OBVIOUS
  <2> PICK x : x = t.entries[s]
    OBVIOUS
  <2> PICK r : r = msSetAddHashed(t, x)
    OBVIOUS
  <2>1. s \in Nat /\ Changed(h, v, X) /\ OnceGrown(t, c)
    BY <1>4
  <2>2. /\ DOMAIN h = Objs /\ (\A u \in Objs : u # v => h[u] = heap[u]) /\ Holds(t, X)
        /\ t.cap \in Nat /\ DOMAIN t.entries = 0..t.cap - 1
    BY <2>1, HoldsFacts DEF Changed
  <2>3. f[s + 1] = IF s < t.cap /\ x \in Items THEN [h EXCEPT ![v] = r] ELSE h
    <3>1. (s + 1) - 1 = s /\ (s + 1 <= t.cap <=> s < t.cap)
      BY <2>1, <2>2
    <3>2. f[s + 1] = Turn(w, h, s + 1)
      BY <1>2
    <3> QED BY <3>1, <3>2 DEF Turn
  <2>4. CASE s < t.cap /\ x \in Items
    <3>1. s \in DOMAIN t.entries
      BY <2>1, <2>2, <2>4
    <3>2. x \in X
      BY <2>2, <2>4, <3>1 DEF Holds, ItemsIn
    <3>3. Holds(r, X \cup {x})
      BY <2>2, <2>4, AddHolds
    <3>4. X \cup {x} = X
      BY <3>2
    <3>5. Holds(r, X)
      BY Zenon, <3>3, <3>4
    <3>6. Changed(f[s + 1], v, X)
      BY <2>2, <2>3, <2>4, <3>5 DEF Changed
    <3>7. IF MustGrow(t) THEN r.cap = 2 * t.cap /\ r.tombstones = 0
                         ELSE r.cap = t.cap /\ r.tombstones = t.tombstones
      BY <2>2, <3>2, AddHere
    <3>8. OnceGrown(r, c)
      <4>1. CASE t.cap = c
        BY <3>7, <4>1 DEF OnceGrown
      <4>2. CASE t.cap = 2 * c /\ t.tombstones = 0
        <5>1. t.len = Cardinality(X)
          BY <2>2, HoldsFacts
        <5>2. (heap[v].len + 0 + 1) * 4 <= (2 * c) * 3
          BY <1>0, <1>1
        <5>3. ~((heap[v].len + 0 + 1) * 4 > (2 * c) * 3)
          BY <1>0, <1>1, <5>2
        <5>4. ~MustGrow(t)
          BY <1>0, <4>2, <5>1, <5>3 DEF MustGrow
        <5> QED BY <3>7, <4>2, <5>4 DEF OnceGrown
      <4> QED BY <2>1, <4>1, <4>2 DEF OnceGrown
    <3>9. f[s + 1][v] = r
      BY <2>2, <2>3, <2>4
    <3> QED BY <2>1, <3>6, <3>8, <3>9
  <2>5. CASE ~(s < t.cap /\ x \in Items)
    BY <2>1, <2>3, <2>5
  <2> QED BY <2>4, <2>5
<1>5. n \in S
  <2> HIDE DEF S
  <2> QED BY <1>1, <1>3, <1>4, Upto
<1>6. Changed(f[n], v, X) /\ OnceGrown(f[n][v], c)
  BY <1>5
<1>7. f[n][v].cap <= 2 * c
  BY <1>1, <1>6 DEF OnceGrown
<1> QED BY <1>6, <1>7

(* Each method changes the set that it is called on as set theory says, and *)
(* no other. *)
LEMMA MethodsHold ==
  ASSUME SetAssumption, TablesSound, NEW v \in Objs, NEW o \in Objs
  PROVE  /\ Changed(msSetUpdate(v, o), v, ItemsIn(heap[v]) \cup ItemsIn(heap[o]))
         /\ Changed(msSetIntersectionUpdate(v, o), v, ItemsIn(heap[v]) \cap ItemsIn(heap[o]))
         /\ Changed(msSetDifferenceUpdate(v, o), v, ItemsIn(heap[v]) \ ItemsIn(heap[o]))
         /\ Changed(msSetSymmetricDifferenceUpdate(v, o), v, (ItemsIn(heap[v]) \ ItemsIn(heap[o]))
                                                             \cup (ItemsIn(heap[o]) \ ItemsIn(heap[v])))
<1> PICK X : X = ItemsIn(heap[v])
  OBVIOUS
<1> PICK Z : Z = ItemsIn(heap[o])
  OBVIOUS
<1>1. 2 * heap[v].cap \in Nat /\ 2 * heap[o].cap \in Nat
  BY HeapFacts
<1>2. Changed(msSetUpdate(v, o), v, X \cup Z)
  <2> PICK w : w = [loop |-> "update", v |-> v, o |-> o]
    OBVIOUS
  <2>1. w.loop = "update" /\ w.v = v /\ w.o = o
    OBVIOUS
  <2>2. PICK f : Turns(f, 2 * heap[o].cap, heap, w) /\ msSetUpdate(v, o) = f[2 * heap[o].cap]
    BY <1>1, UpdateTurns
  <2>3. CASE v = o
    <3>1. Changed(msSetUpdate(v, o), v, X)
      BY <2>1, <2>2, <2>3, UpdateSelf
    <3>2. X \cup Z = X
      BY <2>3
    <3> QED BY Zenon, <3>1, <3>2
  <2>4. CASE v # o
    <3>1. Walks(w, v, o)
      BY <2>1, <2>4 DEF Walks
    <3>2. Changed(f[2 * heap[o].cap], v, X \cup Z)
      BY <2>1, <2>2, <3>1, WalksHolds
    <3> QED BY <2>2, <3>2
  <2> QED BY <2>3, <2>4
<1>3. Changed(msSetIntersectionUpdate(v, o), v, X \cap Z)
  <2> PICK w : w = [loop |-> "keep", v |-> v, o |-> o]
    OBVIOUS
  <2>1. PICK f : Turns(f, 2 * heap[v].cap, heap, w) /\ msSetIntersectionUpdate(v, o) = f[2 * heap[v].cap]
    BY <1>1, KeepTurns
  <2>2. Discards(w, v, o, X \ Z)
    BY DEF Discards
  <2>3. Changed(f[2 * heap[v].cap], v, X \ (X \ Z))
    BY <2>1, <2>2, DiscardsHolds
  <2>4. X \ (X \ Z) = X \cap Z
    OBVIOUS
  <2>5. Changed(f[2 * heap[v].cap], v, X \cap Z)
    BY Zenon, <2>3, <2>4
  <2> QED BY <2>1, <2>5
<1>4. Changed(msSetDifferenceUpdate(v, o), v, X \ Z)
  <2> PICK w : w = [loop |-> "drop", v |-> v, o |-> o]
    OBVIOUS
  <2>1. PICK f : Turns(f, 2 * heap[v].cap, heap, w) /\ msSetDifferenceUpdate(v, o) = f[2 * heap[v].cap]
    BY <1>1, DropTurns
  <2>2. Discards(w, v, o, Z)
    BY DEF Discards
  <2>3. Changed(f[2 * heap[v].cap], v, X \ Z)
    BY <2>1, <2>2, DiscardsHolds
  <2> QED BY <2>1, <2>3
<1>5. Changed(msSetSymmetricDifferenceUpdate(v, o), v, (X \ Z) \cup (Z \ X))
  <2> PICK w : w = [loop |-> "toggle", v |-> v, o |-> o]
    OBVIOUS
  <2>1. w.loop = "toggle" /\ w.v = v /\ w.o = o
    OBVIOUS
  <2>2. PICK f : Turns(f, 2 * heap[o].cap, heap, w) /\ msSetSymmetricDifferenceUpdate(v, o) = f[2 * heap[o].cap]
    BY <1>1, ToggleTurns
  <2>3. CASE v = o
    <3>1. Discards(w, v, o, Z)
      BY <2>1, <2>3 DEF Discards
    <3>2. Changed(f[2 * heap[o].cap], v, X \ Z)
      BY <2>2, <2>3, <3>1, DiscardsHolds
    <3>3. (X \ Z) \cup (Z \ X) = X \ Z
      BY <2>3
    <3>4. Changed(f[2 * heap[o].cap], v, (X \ Z) \cup (Z \ X))
      BY Zenon, <3>2, <3>3
    <3> QED BY <2>2, <3>4
  <2>4. CASE v # o
    <3>1. Walks(w, v, o)
      BY <2>1, <2>4 DEF Walks
    <3>2. Changed(f[2 * heap[o].cap], v, (X \ Z) \cup (Z \ X))
      BY <2>1, <2>2, <3>1, WalksHolds
    <3> QED BY <2>2, <3>2
  <2> QED BY <2>3, <2>4
<1> QED BY <1>2, <1>3, <1>4, <1>5

(* The table that a method walks over has doubled at the most, so that the  *)
(* 2 * cap turns which Walk gives the loop are all that it takes in C. *)
WalksEnd ==
  \A v, o \in Objs :
    /\ msSetUpdate(v, o)[o].cap <= 2 * heap[o].cap
    /\ msSetIntersectionUpdate(v, o)[v].cap <= 2 * heap[v].cap
    /\ msSetDifferenceUpdate(v, o)[v].cap <= 2 * heap[v].cap
    /\ msSetSymmetricDifferenceUpdate(v, o)[o].cap <= 2 * heap[o].cap

LEMMA MethodsEnd == ASSUME SetAssumption, TablesSound PROVE WalksEnd
<1> SUFFICES ASSUME NEW v \in Objs, NEW o \in Objs
             PROVE  /\ msSetUpdate(v, o)[o].cap <= 2 * heap[o].cap
                    /\ msSetIntersectionUpdate(v, o)[v].cap <= 2 * heap[v].cap
                    /\ msSetDifferenceUpdate(v, o)[v].cap <= 2 * heap[v].cap
                    /\ msSetSymmetricDifferenceUpdate(v, o)[o].cap <= 2 * heap[o].cap
  BY DEF WalksEnd
<1>1. heap[v].cap \in Nat /\ 2 * heap[v].cap \in Nat /\ heap[v].cap <= 2 * heap[v].cap
  BY HeapFacts
<1>2. heap[o].cap \in Nat /\ 2 * heap[o].cap \in Nat /\ heap[o].cap <= 2 * heap[o].cap
  BY HeapFacts
<1>3. msSetUpdate(v, o)[o].cap <= 2 * heap[o].cap
  <2>1. CASE v = o
    <3> PICK w : w = [loop |-> "update", v |-> v, o |-> o]
      OBVIOUS
    <3>1. w.loop = "update" /\ w.v = v /\ w.o = v
      BY <2>1
    <3>2. PICK f : Turns(f, 2 * heap[o].cap, heap, w) /\ msSetUpdate(v, o) = f[2 * heap[o].cap]
      BY <1>2, UpdateTurns
    <3>3. f[2 * heap[v].cap][v].cap <= 2 * heap[v].cap
      BY <2>1, <3>1, <3>2, UpdateSelf
    <3> QED BY <2>1, <3>2, <3>3
  <2>2. CASE v # o
    <3>1. msSetUpdate(v, o)[o] = heap[o]
      BY <2>2, MethodsHold DEF Changed
    <3> QED BY <1>2, <3>1
  <2> QED BY <2>1, <2>2
<1>4. msSetIntersectionUpdate(v, o)[v].cap <= 2 * heap[v].cap
  <2> PICK w : w = [loop |-> "keep", v |-> v, o |-> o]
    OBVIOUS
  <2>1. PICK f : Turns(f, 2 * heap[v].cap, heap, w) /\ msSetIntersectionUpdate(v, o) = f[2 * heap[v].cap]
    BY <1>1, KeepTurns
  <2>2. PICK D : Discards(w, v, o, D)
    BY DEF Discards
  <2>3. f[2 * heap[v].cap][v].cap = heap[v].cap
    BY <2>1, <2>2, DiscardsHolds
  <2> QED BY <1>1, <2>1, <2>3
<1>5. msSetDifferenceUpdate(v, o)[v].cap <= 2 * heap[v].cap
  <2> PICK w : w = [loop |-> "drop", v |-> v, o |-> o]
    OBVIOUS
  <2>1. PICK f : Turns(f, 2 * heap[v].cap, heap, w) /\ msSetDifferenceUpdate(v, o) = f[2 * heap[v].cap]
    BY <1>1, DropTurns
  <2>2. PICK D : Discards(w, v, o, D)
    BY DEF Discards
  <2>3. f[2 * heap[v].cap][v].cap = heap[v].cap
    BY <2>1, <2>2, DiscardsHolds
  <2> QED BY <1>1, <2>1, <2>3
<1>6. msSetSymmetricDifferenceUpdate(v, o)[o].cap <= 2 * heap[o].cap
  <2>1. CASE v = o
    <3> PICK w : w = [loop |-> "toggle", v |-> v, o |-> o]
      OBVIOUS
    <3>1. PICK f : Turns(f, 2 * heap[o].cap, heap, w) /\ msSetSymmetricDifferenceUpdate(v, o) = f[2 * heap[o].cap]
      BY <1>2, ToggleTurns
    <3>2. PICK D : Discards(w, v, o, D)
      BY <2>1 DEF Discards
    <3>3. Turns(f, 2 * heap[v].cap, heap, w)
      BY <2>1, <3>1
    <3>4. f[2 * heap[v].cap][v].cap = heap[v].cap
      BY <3>2, <3>3, DiscardsHolds
    <3> QED BY <1>2, <2>1, <3>1, <3>4
  <2>2. CASE v # o
    <3>1. msSetSymmetricDifferenceUpdate(v, o)[o] = heap[o]
      BY <2>2, MethodsHold DEF Changed
    <3> QED BY <1>2, <3>1
  <2> QED BY <2>1, <2>2
<1> QED BY <1>3, <1>4, <1>5, <1>6

----------------------------------------------------------------------------
(* The hash of a frozenset: those that an odd number of its items have. *)
With(Y, h) == {y \in Y : HashOf[y] = h}
Odd(Y) == {h \in Nat : Cardinality(With(Y, h)) % 2 = 1}

LEMMA OddFacts ==
  ASSUME SetAssumption, NEW Y, Y \subseteq Items, IsFiniteSet(Y), NEW x \in Items, x \notin Y
  PROVE  Odd(Y \cup {x}) = (Odd(Y) \ {HashOf[x]}) \cup ({HashOf[x]} \ Odd(Y))
<1>1. HashOf[x] \in Nat
  BY DEF SetAssumption
<1>2. ASSUME NEW h \in Nat PROVE h \in Odd(Y \cup {x}) <=> IF h = HashOf[x] THEN h \notin Odd(Y) ELSE h \in Odd(Y)
  <2> PICK k : k = Cardinality(With(Y, h))
    OBVIOUS
  <2>1. IsFiniteSet(With(Y, h)) /\ k \in Nat
    <3>1. With(Y, h) \subseteq Y
      BY DEF With
    <3> QED BY <3>1, FS_Subset, FS_CardinalityType
  <2>2. CASE h = HashOf[x]
    <3>1. With(Y \cup {x}, h) = With(Y, h) \cup {x} /\ x \notin With(Y, h)
      BY <2>2 DEF With
    <3>2. Cardinality(With(Y \cup {x}, h)) = k + 1
      BY <2>1, <3>1, FS_AddElement
    <3>3. (k + 1) % 2 = 1 <=> k % 2 # 1
      BY <2>1
    <3> QED BY <2>2, <3>2, <3>3 DEF Odd
  <2>3. CASE h # HashOf[x]
    <3>1. With(Y \cup {x}, h) = With(Y, h)
      BY <2>3 DEF With
    <3> QED BY <2>3, <3>1 DEF Odd
  <2> QED BY <2>2, <2>3
<1>3. Odd(Y) \subseteq Nat /\ Odd(Y \cup {x}) \subseteq Nat
  BY DEF Odd
<1> QED BY <1>1, <1>2, <1>3

LEMMA HashHolds ==
  ASSUME SetAssumption, NEW t, NEW X, Holds(t, X)
  PROVE  frozensetHash(t) = Odd(X)
<1> PICK e : e = t.entries
  OBVIOUS
<1> PICK c : c = t.cap
  OBVIOUS
<1>1. /\ c \in Nat \ {0} /\ DOMAIN e = 0..c - 1 /\ Table(e, c) /\ Reachable(e, c) /\ ItemsOf(e) = X
      /\ X \subseteq Items /\ IsFiniteSet(X)
  BY HoldsFacts, HoldsIs
<1> PICK w : w = [loop |-> "hash", t |-> t]
  OBVIOUS
<1>2. PICK f : Turns(f, c, {}, w) /\ frozensetHash(t) = f[c]
  BY <1>1, HashTurns
<1>3. f[0] = {} /\ \A s \in 0..c - 1 : f[s + 1] = Turn(w, f[s], s + 1)
  BY <1>1, <1>2, TurnsFacts
<1> DEFINE S == {s \in 0..c : f[s] = Odd(Below(e, s))}
<1>4. 0 \in S
  <2>1. Odd({}) = {}
    <3>1. \A h : With({}, h) = {}
      BY DEF With
    <3>2. Cardinality({}) % 2 # 1
      BY FS_EmptySet
    <3> QED BY <3>1, <3>2 DEF Odd
  <2>2. Below(e, 0) = {} /\ 0 \in 0..c
    BY <1>1, BelowFacts
  <2>3. f[0] = Odd(Below(e, 0))
    BY Zenon, <1>3, <2>1, <2>2
  <2> QED BY <2>2, <2>3
<1>5. ASSUME NEW s \in 0..c - 1, s \in S PROVE s + 1 \in S
  <2> PICK x : x = e[s]
    OBVIOUS
  <2> PICK B : B = Below(e, s)
    OBVIOUS
  <2> PICK h : h = f[s]
    OBVIOUS
  <2>1. s \in Nat /\ h = Odd(B) /\ s + 1 \in 0..c
    BY <1>1, <1>5
  <2>2. f[s + 1] = IF x \in Items THEN (h \ {HashOf[x]}) \cup ({HashOf[x]} \ h) ELSE h
    <3>1. f[s + 1] = Turn(w, h, s + 1)
      BY <1>3
    <3>2. Turn(w, h, s + 1) = IF e[(s + 1) - 1] \in Items
                              THEN (h \ {HashOf[e[(s + 1) - 1]]}) \cup ({HashOf[e[(s + 1) - 1]]} \ h) ELSE h
      <4>1. w.loop = "hash" /\ w.t.entries = e
        OBVIOUS
      <4> QED BY ONLY <4>1 DEF Turn
    <3>3. (s + 1) - 1 = s
      BY <2>1
    <3> QED BY <3>1, <3>2, <3>3
  <2>3. CASE x \notin Items
    <3>1. Below(e, s + 1) = B
      BY <1>1, <2>1, <2>3, BelowFacts DEF Taken
    <3>2. f[s + 1] = Odd(Below(e, s + 1))
      BY Zenon, <2>1, <2>2, <2>3, <3>1
    <3> QED BY <2>1, <3>2
  <2>4. CASE x \in Items
    <3>1. s \in Taken(e)
      BY <1>1, <2>4 DEF Taken
    <3>2. Below(e, s + 1) = B \cup {x} /\ x \notin B
      BY <1>1, <3>1, BelowFacts, SeenOnce
    <3>3. B \subseteq X
      BY <1>1 DEF Below, Before, ItemsOf
    <3>4. B \subseteq Items /\ IsFiniteSet(B)
      BY <1>1, <3>3, FS_Subset
    <3>5. Odd(B \cup {x}) = (Odd(B) \ {HashOf[x]}) \cup ({HashOf[x]} \ Odd(B))
      BY <2>4, <3>2, <3>4, OddFacts
    <3>6. f[s + 1] = Odd(B \cup {x})
      BY <2>1, <2>2, <2>4, <3>5
    <3>7. f[s + 1] = Odd(Below(e, s + 1))
      BY Zenon, <3>2, <3>6
    <3> QED BY <2>1, <3>7
  <2> QED BY <2>3, <2>4
<1>6. f[c] = Odd(Below(e, c))
  <2>1. c \in S
    <3> HIDE DEF S
    <3> QED BY <1>1, <1>4, <1>5, Upto
  <2> QED BY <2>1
<1>7. Below(e, c) = X
  BY <1>1, BelowFacts
<1> QED BY <1>2, <1>6, <1>7

----------------------------------------------------------------------------
(* The actions. *)

(* A method that changes v, *)
LEMMA ChangedStep ==
  ASSUME TablesSound, NEW v \in Objs, NEW X, Changed(heap', v, X), frozen' \in [Objs -> BOOLEAN]
  PROVE  TablesSound' /\ Contents' = [Contents EXCEPT ![v] = X]
<1>1. DOMAIN heap' = Objs /\ \A u \in Objs : Sound(heap'[u])
  BY DEF Changed, Holds, TablesSound
<1>2. \A u \in Objs : ItemsIn(heap'[u]) = IF u = v THEN X ELSE ItemsIn(heap[u])
  BY DEF Changed, Holds
<1>3. Contents' = [Contents EXCEPT ![v] = X]
  BY <1>2 DEF Contents
<1> QED BY <1>1, <1>3 DEF TablesSound

(* and a variable v that gets a table t. *)
LEMMA AssignStep ==
  ASSUME TablesSound, NEW v \in Objs, NEW t, NEW X, Holds(t, X), heap' = [heap EXCEPT ![v] = t],
         frozen' \in [Objs -> BOOLEAN]
  PROVE  TablesSound' /\ Contents' = [Contents EXCEPT ![v] = X]
<1>1. Changed(heap', v, X)
  BY DEF TablesSound, Changed
<1> QED BY <1>1, ChangedStep

SetStep == TablesSound' /\ [Abstract!Next]_<<Contents, frozen>>

LEMMA ContentsFacts ==
  ASSUME SetAssumption, TablesSound, NEW v \in Objs
  PROVE  Contents[v] = ItemsIn(heap[v]) /\ Holds(heap[v], Contents[v])
BY DEF Contents, TablesSound, Holds

(* The methods that change a set by one item or empty it. *)
LEMMA ItemStep ==
  ASSUME SetAssumption, TablesSound, NEW v \in Objs,
         \/ \E x \in Items : Add(v, x) \/ Discard(v, x)
         \/ Pop(v) \/ Clear(v)
  PROVE  SetStep
<1>1. Holds(heap[v], Contents[v])
  BY ContentsFacts
<1>2. frozen \in [Objs -> BOOLEAN]
  BY DEF TablesSound
<1>3. ASSUME NEW t, NEW X, Holds(t, X), Becomes(v, t),
             \/ \E x \in Items : X = Contents[v] \cup {x} \/ X = Contents[v] \ {x}
             \/ X = {}
      PROVE  SetStep
  <2>1. ~frozen[v] /\ heap' = [heap EXCEPT ![v] = t] /\ frozen' = frozen
    BY <1>3 DEF Becomes
  <2>2. TablesSound' /\ Contents' = [Contents EXCEPT ![v] = X]
    BY <1>2, <1>3, <2>1, AssignStep
  <2>3. Abstract!Change(v)
    BY <1>3, <2>1, <2>2 DEF Abstract!Change
  <2> QED BY <2>2, <2>3 DEF SetStep, Abstract!Next
<1>4. ASSUME NEW x \in Items, Add(v, x) PROVE SetStep
  <2>1. Holds(msSetAddHashed(heap[v], x), Contents[v] \cup {x})
    BY <1>1, AddHolds
  <2> QED BY <1>3, <1>4, <2>1 DEF Add
<1>5. ASSUME NEW x \in Items, Discard(v, x) PROVE SetStep
  <2>1. Holds(msSetDiscard(heap[v], x), Contents[v] \ {x})
    BY <1>1, DiscardHolds
  <2> QED BY <1>3, <1>5, <2>1 DEF Discard
<1>6. ASSUME Pop(v) PROVE SetStep
  <2>1. heap[v].len > 0 /\ Becomes(v, msSetPop(heap[v]))
    BY <1>6 DEF Pop
  <2>2. PICK x \in Contents[v] : Holds(msSetPop(heap[v]), Contents[v] \ {x})
    BY <1>1, <2>1, PopHolds
  <2>3. x \in Items
    BY <1>1, <2>2, HoldsFacts
  <2> QED BY <1>3, <2>1, <2>2, <2>3
<1>7. ASSUME Clear(v) PROVE SetStep
  <2>1. Holds(msSetClear(heap[v]), {})
    BY <1>1, ClearHolds
  <2> QED BY <1>3, <1>7, <2>1 DEF Clear
<1> QED BY <1>4, <1>5, <1>6, <1>7

(* The methods that change a set by another. *)
LEMMA InPlaceStep ==
  ASSUME SetAssumption, TablesSound, NEW v \in Objs, NEW o \in Objs, InPlace(v, o)
  PROVE  SetStep
<1> PICK X : X = Contents[v]
  OBVIOUS
<1> PICK Z : Z = Contents[o]
  OBVIOUS
<1>1. X = ItemsIn(heap[v]) /\ Z = ItemsIn(heap[o])
  BY ContentsFacts
<1>2. ~frozen[v] /\ ~frozen[o] /\ frozen' = frozen /\ frozen' \in [Objs -> BOOLEAN]
  BY DEF InPlace, TablesSound
<1>3. \/ Changed(heap', v, X \cup Z) \/ Changed(heap', v, X \cap Z) \/ Changed(heap', v, X \ Z)
      \/ Changed(heap', v, (X \ Z) \cup (Z \ X))
  <2>1. \/ heap' = msSetUpdate(v, o) \/ heap' = msSetIntersectionUpdate(v, o)
        \/ heap' = msSetDifferenceUpdate(v, o) \/ heap' = msSetSymmetricDifferenceUpdate(v, o)
    BY DEF InPlace
  <2> QED BY <1>1, <2>1, MethodsHold
<1>4. PICK R \in Abstract!Results(X, Z) : Changed(heap', v, R)
  BY <1>3 DEF Abstract!Results, Abstract!SymDiff
<1>5. TablesSound' /\ Contents' = [Contents EXCEPT ![v] = R]
  BY <1>2, <1>4, ChangedStep
<1>6. Abstract!Change(v)
  BY <1>2, <1>4, <1>5 DEF Abstract!Change
<1> QED BY <1>5, <1>6 DEF SetStep, Abstract!Next

(* A variable gets a new set. *)
LEMMA CreateStep ==
  ASSUME SetAssumption, TablesSound, NEW v \in Objs,
         \/ NewSet(v)
         \/ \E a \in Objs : Copy(v, a) \/ Freeze(v, a)
         \/ \E a, b \in Objs : Binary(v, a, b)
  PROVE  SetStep
<1>1. frozen \in [Objs -> BOOLEAN]
  BY DEF TablesSound
<1>2. ASSUME NEW t, NEW X, Holds(t, X), NEW i \in BOOLEAN, Assign(v, t, i)
      PROVE  /\ TablesSound' /\ Contents' = [Contents EXCEPT ![v] = X]
             /\ frozen' = [frozen EXCEPT ![v] = i]
  <2>1. heap' = [heap EXCEPT ![v] = t] /\ frozen' = [frozen EXCEPT ![v] = i] /\ frozen' \in [Objs -> BOOLEAN]
    BY <1>1, <1>2 DEF Assign
  <2> QED BY <1>2, <2>1, AssignStep
<1>3. ASSUME NewSet(v) PROVE SetStep
  <2>1. Holds(msNewSet(0), {})
    BY NewHolds
  <2>2. TablesSound' /\ Contents' = [Contents EXCEPT ![v] = {}] /\ frozen' = [frozen EXCEPT ![v] = FALSE]
    BY <1>2, <1>3, <2>1 DEF NewSet
  <2>3. Abstract!Create(v)
    BY <2>2 DEF Abstract!Create
  <2> QED BY <2>2, <2>3 DEF SetStep, Abstract!Next
<1>4. ASSUME NEW a \in Objs, Copy(v, a) PROVE SetStep
  <2>1. Holds(msSetCopy(heap[a]), Contents[a])
    BY ContentsFacts, CopyHolds
  <2>2. ~frozen[a] /\ Assign(v, msSetCopy(heap[a]), FALSE)
    BY <1>4 DEF Copy
  <2>3. TablesSound' /\ Contents' = [Contents EXCEPT ![v] = Contents[a]] /\ frozen' = [frozen EXCEPT ![v] = FALSE]
    BY <1>2, <2>1, <2>2
  <2>4. frozen[a] = FALSE
    BY <1>1, <2>2
  <2>5. Abstract!Create(v)
    BY <2>3, <2>4 DEF Abstract!Create
  <2> QED BY <2>3, <2>5 DEF SetStep, Abstract!Next
<1>5. ASSUME NEW a \in Objs, Freeze(v, a) PROVE SetStep
  <2>1. Holds(msNewFrozensetFromIter(heap[a]), Contents[a])
    BY ContentsFacts, NewSetsHold
  <2>2. TablesSound' /\ Contents' = [Contents EXCEPT ![v] = Contents[a]] /\ frozen' = [frozen EXCEPT ![v] = TRUE]
    BY <1>2, <1>5, <2>1 DEF Freeze
  <2>3. Abstract!Create(v)
    BY <2>2 DEF Abstract!Create
  <2> QED BY <2>2, <2>3 DEF SetStep, Abstract!Next
<1>6. ASSUME NEW a \in Objs, NEW b \in Objs, Binary(v, a, b) PROVE SetStep
  <2> PICK A : A = Contents[a]
    OBVIOUS
  <2> PICK B : B = Contents[b]
    OBVIOUS
  <2>1. frozen[a] = frozen[b] /\ frozen[a] \in BOOLEAN
    BY <1>1, <1>6 DEF Binary
  <2>2. PICK t : /\ Assign(v, t, frozen[a])
                 /\ \/ t = msSetUnion(heap[a], heap[b]) \/ t = msSetDiff(heap[a], heap[b])
                    \/ t = msSetSymDiff(heap[a], heap[b]) \/ t = msSetIntersect(heap[a], heap[b])
    BY <1>6 DEF Binary
  <2>3. Holds(heap[a], A) /\ Holds(heap[b], B)
    BY ContentsFacts
  <2>4. Holds(t, A \cup B) \/ Holds(t, A \cap B) \/ Holds(t, A \ B) \/ Holds(t, (A \ B) \cup (B \ A))
    <3>1. /\ Holds(msSetUnion(heap[a], heap[b]), A \cup B)
          /\ Holds(msSetDiff(heap[a], heap[b]), A \ B)
          /\ Holds(msSetSymDiff(heap[a], heap[b]), (A \ B) \cup (B \ A))
          /\ Holds(msSetIntersect(heap[a], heap[b]), A \cap B)
      BY <2>3, NewSetsHold
    <3> QED BY <2>2, <3>1
  <2>5. PICK R \in Abstract!Results(A, B) : Holds(t, R)
    BY <2>4 DEF Abstract!Results, Abstract!SymDiff
  <2>6. TablesSound' /\ Contents' = [Contents EXCEPT ![v] = R] /\ frozen' = [frozen EXCEPT ![v] = frozen[a]]
    <3>1. Holds(t, R) /\ Assign(v, t, frozen[a]) /\ frozen[a] \in BOOLEAN
      BY <2>1, <2>2, <2>5
    <3> QED BY ONLY <1>2, <3>1
  <2>7. Abstract!Create(v)
    BY <2>1, <2>5, <2>6 DEF Abstract!Create
  <2> QED BY <2>6, <2>7 DEF SetStep, Abstract!Next
<1> QED BY <1>3, <1>4, <1>5, <1>6

LEMMA NextStep == ASSUME SetAssumption, TablesSound, [Next]_vars PROVE SetStep
<1>1. CASE UNCHANGED vars
  BY <1>1 DEF vars, TablesSound, SetStep, Contents
<1>2. CASE Next
  <2>1. PICK v \in Objs :
          \/ \E x \in Items : Add(v, x) \/ Discard(v, x)
          \/ Pop(v) \/ Clear(v) \/ NewSet(v)
          \/ \E a \in Objs : InPlace(v, a) \/ Copy(v, a) \/ Freeze(v, a)
          \/ \E a, b \in Objs : Binary(v, a, b)
    BY <1>2 DEF Next
  <2> QED BY <2>1, ItemStep, InPlaceStep, CreateStep
<1> QED BY <1>1, <1>2

LEMMA Start == ASSUME SetAssumption, Init PROVE TablesSound /\ Contents = [o \in Objs |-> {}]
<1>1. Holds(msNewSet(0), {})
  BY NewHolds
<1> QED BY <1>1 DEF Init, TablesSound, Contents, Holds

----------------------------------------------------------------------------
(* The theorems. *)

(* After any history of the methods of ms_set.c and ms_frozenset.c, every  *)
(* table's counters are exact, every search of findSlot ends, and an item  *)
(* that is there is found where it is.                                     *)
THEOREM TablesStaySound == ASSUME SetAssumption PROVE Spec => []TablesSound
<1>1. Init => TablesSound
  BY Start
<1>2. TablesSound /\ [Next]_vars => TablesSound'
  BY NextStep DEF SetStep
<1> QED BY <1>1, <1>2, PTL DEF Spec

(* No method that changes a set while it walks over a table, be it its own  *)
(* (s.update(s) in ms_set.c), is kept going by the growth of that table.   *)
THEOREM WalksAlwaysEnd == ASSUME SetAssumption PROVE Spec => []WalksEnd
<1>1. TablesSound => WalksEnd
  BY MethodsEnd
<1> QED BY <1>1, TablesStaySound, PTL

(* The operators, the methods that change a set by another, or by itself,  *)
(* and the comparisons are those of set theory.                            *)
THEOREM AlgebraIsExact == ASSUME SetAssumption PROVE Spec => []AlgebraExact
<1>1. TablesSound => AlgebraExact
  <2> SUFFICES ASSUME TablesSound PROVE OperatorsExact /\ ComparisonsExact
    BY DEF AlgebraExact
  <2>1. OperatorsExact
    <3> SUFFICES ASSUME NEW a \in Objs, NEW b \in Objs
                 PROVE  LET A == ItemsIn(heap[a]) B == ItemsIn(heap[b])
                            InA(h) == ItemsIn(h[a]) IN
                        /\ ItemsIn(msSetUnion(heap[a], heap[b])) = A \cup B
                        /\ ItemsIn(msSetDiff(heap[a], heap[b])) = A \ B
                        /\ ItemsIn(msSetSymDiff(heap[a], heap[b])) = (A \ B) \cup (B \ A)
                        /\ ItemsIn(msSetIntersect(heap[a], heap[b])) = A \cap B
                        /\ InA(msSetUpdate(a, b)) = A \cup B
                        /\ InA(msSetDifferenceUpdate(a, b)) = A \ B
                        /\ InA(msSetSymmetricDifferenceUpdate(a, b)) = (A \ B) \cup (B \ A)
                        /\ InA(msSetIntersectionUpdate(a, b)) = A \cap B
      BY DEF OperatorsExact
    <3> PICK A : A = ItemsIn(heap[a])
      OBVIOUS
    <3> PICK B : B = ItemsIn(heap[b])
      OBVIOUS
    <3>1. Holds(heap[a], A) /\ Holds(heap[b], B)
      BY HeapFacts
    <3>2. /\ Holds(msSetUnion(heap[a], heap[b]), A \cup B)
          /\ Holds(msSetDiff(heap[a], heap[b]), A \ B)
          /\ Holds(msSetSymDiff(heap[a], heap[b]), (A \ B) \cup (B \ A))
          /\ Holds(msSetIntersect(heap[a], heap[b]), A \cap B)
      BY <3>1, NewSetsHold
    <3>3. /\ Changed(msSetUpdate(a, b), a, A \cup B)
          /\ Changed(msSetIntersectionUpdate(a, b), a, A \cap B)
          /\ Changed(msSetDifferenceUpdate(a, b), a, A \ B)
          /\ Changed(msSetSymmetricDifferenceUpdate(a, b), a, (A \ B) \cup (B \ A))
      BY MethodsHold
    <3> QED BY <3>2, <3>3 DEF Changed, Holds
  <2>2. ComparisonsExact
    BY HeapFacts, ComparisonsHold DEF ComparisonsExact
  <2> QED BY <2>1, <2>2
<1> QED BY <1>1, TablesStaySound, PTL

(* Equal frozensets have equal hashes (frozensetHash in ms_frozenset.c),   *)
(* whatever the order of their slots, which depends on how they were made. *)
THEOREM EqualSetsHashEqual == ASSUME SetAssumption PROVE Spec => []EqualHashEqual
<1>1. TablesSound => EqualHashEqual
  <2> SUFFICES ASSUME TablesSound, NEW a \in Objs, NEW b \in Objs, setEq(heap[a], heap[b])
               PROVE  frozensetHash(heap[a]) = frozensetHash(heap[b])
    BY DEF EqualHashEqual
  <2>1. Holds(heap[a], ItemsIn(heap[a])) /\ Holds(heap[b], ItemsIn(heap[b]))
    BY HeapFacts
  <2>2. ItemsIn(heap[a]) = ItemsIn(heap[b])
    BY <2>1, ComparisonsHold
  <2>3. frozensetHash(heap[a]) = Odd(ItemsIn(heap[a])) /\ frozensetHash(heap[b]) = Odd(ItemsIn(heap[b]))
    BY <2>1, HashHolds
  <2> QED BY Zenon, <2>2, <2>3
<1> QED BY <1>1, TablesStaySound, PTL

(* Every step of the tables is one of the abstract sets: a method changes  *)
(* the set that it is called on as set theory says, and no other set.      *)
THEOREM RefinesSets == ASSUME SetAssumption PROVE Spec => ImplementsSets
<1>1. Init => Abstract!Init
  BY Start DEF Abstract!Init, Init
<1>2. TablesSound /\ [Next]_vars => [Abstract!Next]_<<Contents, frozen>>
  BY NextStep DEF SetStep
<1>3. Spec => Init /\ [][Next]_vars
  BY DEF Spec
<1> QED BY <1>1, <1>2, <1>3, TablesStaySound, PTL DEF ImplementsSets, Abstract!Spec, Abstract!vars
===============================================================================

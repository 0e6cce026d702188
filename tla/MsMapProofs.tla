----------------------------- MODULE MsMapProofs -----------------------------
(***************************************************************************)
(* Proofs about MsMap, for any keys, any hashes, however they collide, and *)
(* tables of any size: the inductive invariant, which is what makes every  *)
(* search of the table end, that a loop over the keys that only deletes    *)
(* meets each key once, and that the table implements a function from keys *)
(* to values.                                                              *)
(***************************************************************************)
EXTENDS MsMap, MsNumbers, FiniteSetTheorems

----------------------------------------------------------------------------
(* Numbers. *)

LEMMA MinFacts ==
  ASSUME NEW S \in SUBSET Nat, S # {}
  PROVE  Min(S) \in S /\ \A k \in S : Min(S) <= k
  BY LeastNumber DEF Min

(* There is a size for every number of entries, *)
LEMMA RoundUpFacts ==
  ASSUME NEW n \in Nat
  PROVE  /\ roundUpPow2(n) \in Nat /\ roundUpPow2(n) >= MinCap
         /\ PowerOfTwo(roundUpPow2(n))
<1> DEFINE P(m) == {p \in MinCap..MinCap + 2 * m : PowerOfTwo(p) /\ p >= m}
           S == {m \in Nat : P(m) # {}}
<1>1. MinCap \in Nat /\ MinCap >= 4 /\ PowerOfTwo(MinCap)
  BY MapAssumption
<1>2. S = Nat
  <2>1. 0 \in S
    <3>1. MinCap \in P(0)
      BY <1>1
    <3> QED BY <3>1
  <2>2. ASSUME NEW m \in S PROVE m + 1 \in S
    <3>1. PICK p \in P(m) : TRUE
      OBVIOUS
    <3>2. CASE p >= m + 1
      <4>1. p \in P(m + 1)
        BY <1>1, <3>1, <3>2
      <4> QED BY <4>1
    <3>3. CASE p = m
      <4>1. 2 * p \in P(m + 1)
        <5>1. PowerOfTwo(2 * p)
          BY <1>1, <3>1, PowerDoubles
        <5> QED BY <1>1, <3>1, <3>3, <5>1
      <4> QED BY <4>1
    <3> QED BY <1>1, <3>1, <3>2, <3>3
  <2> HIDE DEF S
  <2> QED BY <2>1, <2>2, Induction DEF S
<1>3. P(n) \in SUBSET Nat /\ P(n) # {}
  BY <1>1, <1>2
<1>4. roundUpPow2(n) = Min(P(n))
  BY DEF roundUpPow2
<1>5. roundUpPow2(n) \in P(n)
  <2> HIDE DEF P
  <2> QED BY <1>3, <1>4, MinFacts
<1> QED BY <1>1, <1>5

(* and a table that is copied has one of its own. *)
LEMMA RoundUpSame ==
  ASSUME NEW c \in Nat, c >= MinCap, PowerOfTwo(c)
  PROVE  roundUpPow2(c) = c
<1> DEFINE P == {p \in MinCap..MinCap + 2 * c : PowerOfTwo(p) /\ p >= c}
<1>1. MinCap \in Nat
  BY MapAssumption
<1>2. c \in P /\ P \in SUBSET Nat /\ \A p \in P : p >= c
  BY <1>1
<1>3. roundUpPow2(c) = Min(P)
  BY DEF roundUpPow2
<1>4. Min(P) \in P /\ Min(P) <= c
  <2> HIDE DEF P
  <2> QED BY <1>2, MinFacts
<1> QED BY <1>2, <1>3, <1>4

----------------------------------------------------------------------------
(* Probing a table. *)

Table(e, c) == c \in Nat \ {0} /\ e \in [0..c - 1 -> Entry]

LEMMA EntryFacts ==
  ASSUME NEW x \in Entry
  PROVE  /\ x.state \in {"never", "tombstone", "occupied"}
         /\ x.state = "never" <=> x = Never
         /\ x.state = "tombstone" <=> x = Tombstone
         /\ x.state = "occupied" => /\ x.key \in Keys /\ x.value \in Values
                                    /\ x = Occupied(x.key, x.value)
  BY DEF Entry, Never, Tombstone, Occupied

LEMMA OccupiedFacts ==
  ASSUME NEW k \in Keys, NEW v \in Values
  PROVE  /\ Occupied(k, v) \in Entry /\ Occupied(k, v).state = "occupied"
         /\ Occupied(k, v).key = k /\ Occupied(k, v).value = v
  BY DEF Entry, Occupied

LEMMA ErasedFacts ==
  /\ Never \in Entry /\ Never.state = "never"
  /\ Tombstone \in Entry /\ Tombstone.state = "tombstone"
  BY DEF Entry, Never, Tombstone

LEMMA ProbeRange ==
  ASSUME NEW c \in Nat \ {0}, NEW k \in Keys, NEW n \in Nat
  PROVE  Probe(c, k, n) \in 0..c - 1
<1>1. HashOf[k] + n \in Nat
  BY MapAssumption
<1> QED BY <1>1 DEF Probe

(* A search that does not stop passes over every slot. *)
LEMMA ProbeAll ==
  ASSUME NEW c \in Nat \ {0}, NEW k \in Keys, NEW s \in 0..c - 1
  PROVE  \E n \in 0..c - 1 : Probe(c, k, n) = s
<1> DEFINE h == HashOf[k]
<1>1. h \in Nat
  BY MapAssumption
<1>2. PICK q \in Int, r \in 0..c - 1 : h = c * q + r
  BY <1>1, Division
<1>3. CASE s >= r
  <2>1. s - r \in 0..c - 1 /\ h + (s - r) = c * q + s
    BY <1>2, <1>3
  <2> QED BY <2>1, Remainder DEF Probe
<1>4. CASE s < r
  <2>1. s - r + c \in 0..c - 1 /\ h + (s - r + c) = c * (q + 1) + s /\ q + 1 \in Int
    BY <1>2, <1>4
  <2>2. (c * (q + 1) + s) % c = s
    BY <2>1, Remainder
  <2> QED BY <2>1, <2>2 DEF Probe
<1> QED BY <1>3, <1>4

(* Where the search stops. *)
LEMMA StepsFacts ==
  ASSUME NEW e, NEW c \in Nat \ {0}, NEW k \in Keys, ProbeEnds(e, c, k)
  PROVE  /\ Steps(e, c, k) \in 0..c - 1
         /\ StopsAt(e, c, k, Steps(e, c, k))
         /\ \A m \in 0..Steps(e, c, k) - 1 : ~StopsAt(e, c, k, m)
<1> DEFINE S == {n \in 0..c - 1 : StopsAt(e, c, k, n)}
<1>1. S \in SUBSET Nat /\ S # {}
  BY DEF ProbeEnds
<1>2. PICK n \in S : \A m \in S : n <= m
  <2> HIDE DEF S
  <2> QED BY <1>1, LeastNumber
<1>3. \A m \in 0..n - 1 : ~StopsAt(e, c, k, m)
  BY <1>2
<1> QED BY <1>2, <1>3 DEF Steps

(* A table that is not full has a slot where every search stops. *)
LEMMA RoomFacts ==
  ASSUME NEW e, NEW c, Table(e, c),
         Cardinality(Live(e)) + Cardinality(Deleted(e)) < c
  PROVE  \A k \in Keys : ProbeEnds(e, c, k)
<1>1. c \in Nat \ {0} /\ e \in [0..c - 1 -> Entry] /\ DOMAIN e = 0..c - 1
  BY DEF Table
<1>2. \E s \in 0..c - 1 : e[s].state = "never"
  <2> SUFFICES ASSUME \A s \in 0..c - 1 : e[s].state # "never"
               PROVE  FALSE
    OBVIOUS
  <2>1. Live(e) \cup Deleted(e) = 0..c - 1
    <3>1. \A s \in 0..c - 1 : e[s].state \in {"tombstone", "occupied"}
      BY <1>1, EntryFacts
    <3> QED BY <1>1, <3>1 DEF Live, Deleted
  <2>2. IsFiniteSet(0..c - 1) /\ Cardinality(0..c - 1) = c
    BY <1>1, FS_Interval
  <2>3. /\ IsFiniteSet(Live(e)) /\ Cardinality(Live(e)) \in Nat
        /\ IsFiniteSet(Deleted(e)) /\ Cardinality(Deleted(e)) \in Nat
    BY <2>1, <2>2, FS_Subset, FS_CardinalityType
  <2>4. IsFiniteSet(Live(e) \cap Deleted(e)) /\ Cardinality(Live(e) \cap Deleted(e)) \in Nat
    BY <2>3, FS_Intersection, FS_CardinalityType
  <2>5. c = Cardinality(Live(e)) + Cardinality(Deleted(e)) - Cardinality(Live(e) \cap Deleted(e))
    BY <2>1, <2>2, <2>3, FS_Union
  <2> QED BY <1>1, <2>3, <2>4, <2>5
<1>3. PICK s \in 0..c - 1 : e[s].state = "never"
  BY <1>2
<1>4. ASSUME NEW k \in Keys PROVE ProbeEnds(e, c, k)
  <2>1. PICK n \in 0..c - 1 : Probe(c, k, n) = s
    BY <1>1, ProbeAll
  <2>2. StopsAt(e, c, k, n)
    BY <1>3, <2>1 DEF StopsAt
  <2> QED BY <2>2 DEF ProbeEnds
<1> QED BY <1>4

(* What findSlot finds. *)
LEMMA FindFacts ==
  ASSUME NEW e, NEW c, Table(e, c), NEW k \in Keys, ProbeEnds(e, c, k), Reachable(e, c)
  PROVE  LET f == findSlot(e, c, k) IN
         /\ f \in 0..c - 1
         /\ e[f].state = "occupied" <=> k \in KeysIn(e)
         /\ e[f].state = "occupied" => e[f].key = k
         /\ \A s \in Live(e) : e[s].key = k <=> s = f /\ e[f].state = "occupied"
         /\ \E n \in 0..c - 1 :
              /\ Probe(c, k, n) = f
              /\ \A m \in 0..n - 1 : ~StopsAt(e, c, k, m) /\ Probe(c, k, m) # f
<1> DEFINE last == Steps(e, c, k)
           end == Probe(c, k, last)
           passed == {n \in 0..last - 1 : e[Probe(c, k, n)].state = "tombstone"}
           f == findSlot(e, c, k)
<1>1. c \in Nat \ {0} /\ e \in [0..c - 1 -> Entry] /\ DOMAIN e = 0..c - 1
  BY DEF Table
<1>2. /\ last \in 0..c - 1 /\ StopsAt(e, c, k, last)
      /\ \A m \in 0..last - 1 : ~StopsAt(e, c, k, m)
  BY <1>1, StepsFacts
<1>3. end \in 0..c - 1
  BY <1>1, <1>2, ProbeRange
<1>4. f = IF e[end].state = "never" /\ passed # {} THEN Probe(c, k, Min(passed)) ELSE end
  BY DEF findSlot
<1>5. e[end].state = "never" \/ (e[end].state = "occupied" /\ e[end].key = k)
  BY <1>2 DEF StopsAt
<1>6. ASSUME NEW s \in Live(e), e[s].key = k PROVE s = end
  <2>1. PICK n \in 0..c - 1 : Probe(c, k, n) = s /\ \A m \in 0..n - 1 : ~StopsAt(e, c, k, m)
    BY <1>6 DEF Reachable
  <2>2. StopsAt(e, c, k, n)
    BY <1>6, <2>1 DEF StopsAt, Live
  <2>3. n = last
    <3>1. n \notin 0..last - 1 /\ last \notin 0..n - 1
      BY <1>2, <2>1, <2>2
    <3> QED BY <1>1, <1>2, <3>1
  <2> QED BY <2>1, <2>3
<1>7. CASE e[end].state = "occupied"
  <2>1. f = end /\ e[f].key = k /\ end \in Live(e)
    BY <1>1, <1>3, <1>4, <1>5, <1>7 DEF Live
  <2>2. \A m \in 0..last - 1 : Probe(c, k, m) # f
    BY <1>2, <1>7, <2>1 DEF StopsAt
  <2> QED BY <1>2, <1>3, <1>6, <1>7, <2>1, <2>2 DEF KeysIn
<1>8. CASE e[end].state = "never"
  <2>1. ~\E s \in Live(e) : e[s].key = k
    BY <1>6, <1>8 DEF Live
  <2>2. CASE passed # {}
    <3>1. passed \in SUBSET Nat
      BY <1>2
    <3>2. Min(passed) \in passed
      <4> HIDE DEF passed
      <4> QED BY <2>2, <3>1, MinFacts
    <3>3. f = Probe(c, k, Min(passed)) /\ e[f].state = "tombstone" /\ Min(passed) \in 0..last - 1
      BY <1>4, <1>8, <2>2, <3>2
    <3>4. Min(passed) \in 0..c - 1 /\ \A m \in 0..Min(passed) - 1 : m \in 0..last - 1
      <4> HIDE DEF passed, last
      <4> QED BY <1>1, <1>2, <3>3
    <3>5. f \in 0..c - 1
      BY <1>1, <3>3, <3>4, ProbeRange
    <3>6. \A m \in 0..Min(passed) - 1 : Probe(c, k, m) # f
      <4>1. \A m \in passed : Min(passed) <= m
        <5> HIDE DEF passed
        <5> QED BY <2>2, <3>1, MinFacts
      <4> TAKE m \in 0..Min(passed) - 1
      <4>2. m \notin passed
        <5>1. ~(Min(passed) <= m)
          <6> HIDE DEF passed
          <6> QED BY <3>4
        <5> QED BY <4>1, <5>1
      <4>3. e[Probe(c, k, m)].state # "tombstone"
        BY <3>4, <4>2
      <4> QED BY <3>3, <4>3
    <3> HIDE DEF passed, last
    <3> QED BY <1>2, <2>1, <3>3, <3>4, <3>5, <3>6 DEF KeysIn
  <2>3. CASE passed = {}
    <3>1. f = end
      BY <1>4, <2>3
    <3>2. \A m \in 0..last - 1 : Probe(c, k, m) # f
      BY <1>2, <1>8, <3>1 DEF StopsAt
    <3> QED BY <1>2, <1>3, <1>8, <2>1, <3>1, <3>2 DEF KeysIn
  <2> QED BY <2>2, <2>3
<1> QED BY <1>5, <1>7, <1>8

----------------------------------------------------------------------------
(* Changing a table. *)

LEMMA CountFacts ==
  ASSUME NEW e, NEW c, Table(e, c)
  PROVE  /\ Live(e) \subseteq 0..c - 1 /\ Deleted(e) \subseteq 0..c - 1
         /\ IsFiniteSet(Live(e)) /\ Cardinality(Live(e)) \in Nat
         /\ IsFiniteSet(Deleted(e)) /\ Cardinality(Deleted(e)) \in Nat
<1>1. c \in Nat \ {0} /\ DOMAIN e = 0..c - 1
  BY DEF Table
<1>2. Live(e) \subseteq 0..c - 1 /\ Deleted(e) \subseteq 0..c - 1
  BY <1>1 DEF Live, Deleted
<1>3. IsFiniteSet(0..c - 1)
  BY <1>1, FS_Interval
<1> QED BY <1>2, <1>3, FS_Subset, FS_CardinalityType

(* What the table says of a key. *)
Lookup(e, k) ==
  IF k \in KeysIn(e) THEN e[CHOOSE s \in Live(e) : e[s].key = k].value ELSE Absent

LEMMA LookupFacts ==
  ASSUME NEW e, NEW c, Reachable(e, c)
  PROVE  \A s \in Live(e) : Lookup(e, e[s].key) = e[s].value /\ e[s].key \in KeysIn(e)
<1> TAKE s \in Live(e)
<1>1. \A t \in Live(e) : e[t].key = e[s].key <=> t = s
  BY DEF Reachable
<1>2. (CHOOSE t \in Live(e) : e[t].key = e[s].key) = s
  BY <1>1
<1> QED BY <1>2 DEF Lookup, KeysIn

(* Two tables with the same pairs say the same. *)
LEMMA SamePairs ==
  ASSUME NEW e, NEW c, NEW e2, NEW c2, Reachable(e, c), Reachable(e2, c2),
         {e[s] : s \in Live(e)} = {e2[s] : s \in Live(e2)}
  PROVE  /\ KeysIn(e) = KeysIn(e2)
         /\ \A k : Lookup(e, k) = Lookup(e2, k)
<1>1. KeysIn(e) = {x.key : x \in {e[s] : s \in Live(e)}}
  BY DEF KeysIn
<1>2. KeysIn(e2) = {x.key : x \in {e2[s] : s \in Live(e2)}}
  BY DEF KeysIn
<1>3. KeysIn(e) = KeysIn(e2)
  BY <1>1, <1>2
<1>4. ASSUME NEW k, k \in KeysIn(e) PROVE Lookup(e, k) = Lookup(e2, k)
  <2>1. PICK s \in Live(e) : e[s].key = k
    BY <1>4 DEF KeysIn
  <2>2. PICK t \in Live(e2) : e2[t] = e[s]
    OBVIOUS
  <2>3. Lookup(e, e[s].key) = e[s].value /\ Lookup(e2, e2[t].key) = e2[t].value
    BY LookupFacts
  <2> QED BY <2>1, <2>2, <2>3
<1>5. ASSUME NEW k, k \notin KeysIn(e) PROVE Lookup(e, k) = Lookup(e2, k)
  BY <1>3, <1>5 DEF Lookup
<1> QED BY <1>3, <1>4, <1>5

LEMMA EmptyFacts ==
  ASSUME NEW c \in Nat \ {0}
  PROVE  /\ Table(Empty(c), c) /\ Live(Empty(c)) = {} /\ Deleted(Empty(c)) = {}
         /\ KeysIn(Empty(c)) = {} /\ Reachable(Empty(c), c)
         /\ \A k : Lookup(Empty(c), k) = Absent
<1>1. /\ Table(Empty(c), c) /\ Live(Empty(c)) = {} /\ Deleted(Empty(c)) = {}
  BY ErasedFacts DEF Table, Empty, Live, Deleted
<1> QED BY <1>1 DEF KeysIn, Reachable, Lookup

(* A key is put where findSlot says. *)
Put(e, c, k, v) == [e EXCEPT ![findSlot(e, c, k)] = Occupied(k, v)]

LEMMA PutFacts ==
  ASSUME NEW e, NEW c, Table(e, c), NEW k \in Keys, NEW v \in Values,
         ProbeEnds(e, c, k), Reachable(e, c),
         NEW f, f = findSlot(e, c, k), NEW e2, e2 = Put(e, c, k, v)
  PROVE  /\ Table(e2, c) /\ f \in 0..c - 1
         /\ Live(e2) = Live(e) \cup {f} /\ Deleted(e2) = Deleted(e) \ {f}
         /\ f \in Live(e) <=> e[f].state = "occupied"
         /\ f \in Deleted(e) <=> e[f].state = "tombstone"
         /\ f \in Live(e) <=> k \in KeysIn(e)
         /\ Reachable(e2, c)
         /\ e2[f] = Occupied(k, v) /\ \A s \in 0..c - 1 : s # f => e2[s] = e[s]
         /\ f \in Live(e) => e[f].key = k
         /\ \A j : Lookup(e2, j) = IF j = k THEN v ELSE Lookup(e, j)
<1>1. c \in Nat \ {0} /\ e \in [0..c - 1 -> Entry] /\ DOMAIN e = 0..c - 1
  BY DEF Table
<1>2. /\ f \in 0..c - 1
      /\ e[f].state = "occupied" <=> k \in KeysIn(e)
      /\ e[f].state = "occupied" => e[f].key = k
      /\ \A s \in Live(e) : e[s].key = k <=> s = f /\ e[f].state = "occupied"
      /\ \E n \in 0..c - 1 :
           /\ Probe(c, k, n) = f
           /\ \A m \in 0..n - 1 : ~StopsAt(e, c, k, m) /\ Probe(c, k, m) # f
  BY FindFacts
<1>3. /\ Occupied(k, v) \in Entry /\ Occupied(k, v).state = "occupied"
      /\ Occupied(k, v).key = k /\ Occupied(k, v).value = v
  BY OccupiedFacts
<1>4. /\ e2 \in [0..c - 1 -> Entry] /\ DOMAIN e2 = 0..c - 1
      /\ e2[f] = Occupied(k, v) /\ \A s \in 0..c - 1 : s # f => e2[s] = e[s]
  BY <1>1, <1>2, <1>3 DEF Put
<1>5. Live(e2) = Live(e) \cup {f} /\ Deleted(e2) = Deleted(e) \ {f}
      /\ (f \in Live(e) <=> e[f].state = "occupied")
      /\ (f \in Deleted(e) <=> e[f].state = "tombstone")
  BY <1>1, <1>2, <1>3, <1>4 DEF Live, Deleted
<1>6. ASSUME NEW s \in Live(e), s # f PROVE e2[s] = e[s] /\ e[s].key # k /\ s \in 0..c - 1
  BY <1>1, <1>2, <1>4, <1>6 DEF Live
<1>7. Reachable(e2, c)
  <2>1. ASSUME NEW s \in Live(e2), NEW t \in Live(e2), e2[s].key = e2[t].key PROVE s = t
    <3>1. \A x \in Live(e2) : x # f => x \in Live(e) /\ e2[x] = e[x] /\ e2[x].key # k
      BY <1>5, <1>6
    <3>2. e2[f].key = k
      BY <1>3, <1>4
    <3>3. CASE s = f \/ t = f
      BY <2>1, <3>1, <3>2, <3>3
    <3>4. CASE s # f /\ t # f
      BY <2>1, <3>1, <3>4 DEF Reachable
    <3> QED BY <3>3, <3>4
  <2>2. \E n \in 0..c - 1 : Probe(c, e2[f].key, n) = f /\ \A m \in 0..n - 1 : ~StopsAt(e2, c, e2[f].key, m)
    <3>1. PICK n \in 0..c - 1 :
            /\ Probe(c, k, n) = f
            /\ \A m \in 0..n - 1 : ~StopsAt(e, c, k, m) /\ Probe(c, k, m) # f
      BY <1>2
    <3>2. ASSUME NEW m \in 0..n - 1 PROVE ~StopsAt(e2, c, k, m)
      <4> m \in Nat
        BY <1>1
      <4>1. Probe(c, k, m) \in 0..c - 1
        BY <1>1, ProbeRange
      <4>2. e2[Probe(c, k, m)] = e[Probe(c, k, m)]
        BY <1>4, <3>1, <4>1
      <4> QED BY <3>1, <4>2 DEF StopsAt
    <3> QED BY <1>3, <1>4, <3>1, <3>2
  <2>3. ASSUME NEW s \in Live(e), s # f
        PROVE  \E n \in 0..c - 1 : Probe(c, e2[s].key, n) = s /\ \A m \in 0..n - 1 : ~StopsAt(e2, c, e2[s].key, m)
    <3> DEFINE j == e[s].key
    <3>1. e2[s] = e[s] /\ j # k /\ j \in Keys
      <4>1. s \in 0..c - 1 /\ e[s].state = "occupied"
        BY <1>1 DEF Live
      <4> QED BY <1>1, <1>6, <2>3, <4>1, EntryFacts
    <3>2. PICK n \in 0..c - 1 : Probe(c, j, n) = s /\ \A m \in 0..n - 1 : ~StopsAt(e, c, j, m)
      BY DEF Reachable
    <3> HIDE DEF j
    <3>3. ASSUME NEW m \in 0..n - 1 PROVE ~StopsAt(e2, c, j, m)
      <4> m \in Nat
        BY <1>1
      <4>1. Probe(c, j, m) \in 0..c - 1
        BY <1>1, <3>1, ProbeRange
      <4>2. CASE Probe(c, j, m) = f
        BY <1>3, <1>4, <3>1, <4>2 DEF StopsAt
      <4>3. CASE Probe(c, j, m) # f
        <5>1. e2[Probe(c, j, m)] = e[Probe(c, j, m)]
          BY <1>4, <4>1, <4>3
        <5> QED BY <3>2, <5>1 DEF StopsAt
      <4> QED BY <4>2, <4>3
    <3> QED BY <3>1, <3>2, <3>3 DEF j
  <2>4. \A s \in Live(e2) : s = f \/ (s \in Live(e) /\ s # f)
    BY <1>5
  <2> QED BY <2>1, <2>2, <2>3, <2>4 DEF Reachable
<1>8. ASSUME NEW j PROVE Lookup(e2, j) = IF j = k THEN v ELSE Lookup(e, j)
  <2>1. /\ \A s \in Live(e) : Lookup(e, e[s].key) = e[s].value /\ e[s].key \in KeysIn(e)
        /\ \A s \in Live(e2) : Lookup(e2, e2[s].key) = e2[s].value /\ e2[s].key \in KeysIn(e2)
    BY <1>7, LookupFacts
  <2>2. CASE j = k
    <3>1. f \in Live(e2) /\ e2[f].key = k /\ e2[f].value = v
      BY <1>3, <1>4, <1>5
    <3>2. Lookup(e2, e2[f].key) = e2[f].value
      BY <2>1, <3>1
    <3> QED BY <2>2, <3>1, <3>2
  <2>3. CASE j # k /\ j \in KeysIn(e)
    <3>1. PICK s \in Live(e) : e[s].key = j
      BY <2>3 DEF KeysIn
    <3>2. s # f
      BY <1>2, <1>5, <2>3, <3>1
    <3>3. s \in Live(e2) /\ e2[s] = e[s]
      BY <1>5, <1>6, <3>2
    <3> QED BY <2>1, <2>3, <3>1, <3>3
  <2>4. CASE j # k /\ j \notin KeysIn(e)
    <3>1. j \notin KeysIn(e2)
      <4> SUFFICES ASSUME NEW s \in Live(e2), e2[s].key = j PROVE FALSE
        BY DEF KeysIn
      <4>1. s # f
        BY <1>3, <1>4, <2>4
      <4>2. s \in Live(e) /\ e[s].key = j
        BY <1>5, <1>6, <4>1
      <4> QED BY <2>1, <2>4, <4>2
    <3> QED BY <2>4, <3>1 DEF Lookup
  <2> QED BY <2>2, <2>3, <2>4
<1> QED BY <1>1, <1>2, <1>4, <1>5, <1>7, <1>8 DEF Table

(* A deleted entry is still passed over by the searches that passed it. *)
Erase(e, f) == [e EXCEPT ![f] = Tombstone]

LEMMA EraseFacts ==
  ASSUME NEW e, NEW c, Table(e, c), Reachable(e, c), NEW f \in Live(e),
         NEW e2, e2 = Erase(e, f)
  PROVE  /\ Table(e2, c) /\ Reachable(e2, c)
         /\ Live(e2) = Live(e) \ {f} /\ Deleted(e2) = Deleted(e) \cup {f} /\ f \notin Deleted(e)
         /\ \A s \in Live(e2) : e2[s] = e[s]
         /\ \A j : Lookup(e2, j) = IF j = e[f].key THEN Absent ELSE Lookup(e, j)
         /\ KeysIn(e2) = KeysIn(e) \ {e[f].key}
<1>1. /\ c \in Nat \ {0} /\ e \in [0..c - 1 -> Entry] /\ DOMAIN e = 0..c - 1
      /\ f \in 0..c - 1 /\ e[f].state = "occupied"
  BY DEF Table, Live
<1>2. /\ e2 \in [0..c - 1 -> Entry] /\ DOMAIN e2 = 0..c - 1
      /\ e2[f] = Tombstone /\ e2[f].state = "tombstone" /\ \A s \in 0..c - 1 : s # f => e2[s] = e[s]
  BY <1>1, ErasedFacts DEF Erase
<1>3. Live(e2) = Live(e) \ {f} /\ Deleted(e2) = Deleted(e) \cup {f} /\ f \notin Deleted(e)
  BY <1>1, <1>2 DEF Live, Deleted
<1>4. \A s \in Live(e2) : e2[s] = e[s] /\ s \in Live(e) /\ s # f
  BY <1>1, <1>2, <1>3 DEF Live
<1>5. Reachable(e2, c)
  <2>1. \A s, t \in Live(e2) : e2[s].key = e2[t].key => s = t
    BY <1>4 DEF Reachable
  <2>2. ASSUME NEW s \in Live(e2)
        PROVE  \E n \in 0..c - 1 : Probe(c, e2[s].key, n) = s /\ \A m \in 0..n - 1 : ~StopsAt(e2, c, e2[s].key, m)
    <3> DEFINE j == e[s].key
    <3>1. e2[s] = e[s] /\ j \in Keys /\ s \in Live(e)
      <4>1. s \in 0..c - 1 /\ e[s].state = "occupied"
        BY <1>1, <1>4 DEF Live
      <4> QED BY <1>1, <1>4, <4>1, EntryFacts
    <3>2. PICK n \in 0..c - 1 : Probe(c, j, n) = s /\ \A m \in 0..n - 1 : ~StopsAt(e, c, j, m)
      BY <3>1 DEF Reachable
    <3> HIDE DEF j
    <3>3. ASSUME NEW m \in 0..n - 1 PROVE ~StopsAt(e2, c, j, m)
      <4> m \in Nat
        BY <1>1
      <4>1. Probe(c, j, m) \in 0..c - 1
        BY <1>1, <3>1, ProbeRange
      <4>2. CASE Probe(c, j, m) = f
        BY <1>2, <4>2 DEF StopsAt
      <4>3. CASE Probe(c, j, m) # f
        <5>1. e2[Probe(c, j, m)] = e[Probe(c, j, m)]
          BY <1>2, <4>1, <4>3
        <5> QED BY <3>2, <5>1 DEF StopsAt
      <4> QED BY <4>2, <4>3
    <3> QED BY <3>1, <3>2, <3>3 DEF j
  <2> QED BY <2>1, <2>2 DEF Reachable
<1>6. KeysIn(e2) = KeysIn(e) \ {e[f].key}
  <2>1. \A s \in Live(e) : s # f => e[s].key # e[f].key
    BY DEF Reachable
  <2> QED BY <1>3, <1>4, <2>1 DEF KeysIn
<1>7. ASSUME NEW j PROVE Lookup(e2, j) = IF j = e[f].key THEN Absent ELSE Lookup(e, j)
  <2>1. CASE j \in KeysIn(e2)
    <3>1. PICK s \in Live(e2) : e2[s].key = j
      BY <2>1 DEF KeysIn
    <3>2. Lookup(e, e[s].key) = e[s].value /\ Lookup(e2, e2[s].key) = e2[s].value
      BY <1>4, <1>5, LookupFacts
    <3> QED BY <1>4, <1>6, <2>1, <3>1, <3>2
  <2>2. CASE j \notin KeysIn(e2)
    BY <1>6, <2>2 DEF Lookup
  <2> QED BY <2>1, <2>2
<1> QED BY <1>1, <1>2, <1>3, <1>4, <1>5, <1>6, <1>7 DEF Table

----------------------------------------------------------------------------
(* The parts of the invariant: the table, *)
Sound(e, c, l, t) ==
  /\ Table(e, c) /\ c >= MinCap /\ PowerOfTwo(c)
  /\ l = Cardinality(Live(e)) /\ t = Cardinality(Deleted(e))
  /\ (l + t) * 4 <= c * 3
  /\ \A k \in Keys : ProbeEnds(e, c, k)
  /\ Reachable(e, c)

(* a call of mapSetHashed that is not over, *)
Setting ==
  /\ pc \in {"idle", "resize", "insert"}
  /\ newEntries \in [0..(IF pc = "resize" THEN 2 * cap ELSE 0) - 1 -> Entry]
  /\ i \in 0..cap
  /\ argKey \in Keys \cup {NoKey} /\ argVal \in Values \cup {Absent}
  /\ pc = "insert" => (len + tombstones + 1) * 4 <= cap * 3
  /\ pc = "resize" => /\ \A k \in Keys : ProbeEnds(newEntries, 2 * cap, k)
                      /\ Reachable(newEntries, 2 * cap)
  /\ ResizeInv

(* and the loops. *)
LoopsInv ==
  /\ update \in Nat \cup {None} /\ slotIdx \in Nat \cup {None}
  /\ kept \subseteq Keys /\ seen \subseteq Keys /\ repeated \in BOOLEAN
  /\ IterInv

SoundTable == Sound(entries, cap, len, tombstones)

LEMMA Parts == Inv <=> SoundTable /\ Setting /\ LoopsInv
<1>1. Inv => SoundTable /\ Setting /\ LoopsInv
  BY DEF Inv, TypeOK, CountInv, ProbesEnd, SoundTable, Sound, Table, Setting, LoopsInv
<1>2. SoundTable => len \in Nat /\ tombstones \in Nat
  BY CountFacts DEF SoundTable, Sound
<1>3. SoundTable /\ Setting /\ LoopsInv => Inv
  BY <1>2 DEF Inv, TypeOK, CountInv, ProbesEnd, SoundTable, Sound, Table, Setting, LoopsInv
<1> QED BY <1>1, <1>3

LEMMA SoundFacts ==
  ASSUME NEW e, NEW c, NEW l, NEW t, Sound(e, c, l, t)
  PROVE  /\ c \in Nat /\ c >= 4 /\ e \in [0..c - 1 -> Entry] /\ DOMAIN e = 0..c - 1
         /\ l \in Nat /\ t \in Nat
         /\ \A s \in Live(e) : /\ s \in 0..c - 1 /\ e[s].state = "occupied"
                               /\ e[s].key \in Keys /\ e[s].value \in Values
<1>1. /\ c \in Nat /\ c >= 4 /\ e \in [0..c - 1 -> Entry] /\ DOMAIN e = 0..c - 1
  BY MapAssumption DEF Sound, Table
<1>2. l \in Nat /\ t \in Nat
  BY CountFacts DEF Sound
<1>3. ASSUME NEW s \in Live(e)
      PROVE  /\ s \in 0..c - 1 /\ e[s].state = "occupied"
             /\ e[s].key \in Keys /\ e[s].value \in Values
  <2>1. s \in 0..c - 1 /\ e[s].state = "occupied" /\ e[s] \in Entry
    BY <1>1 DEF Live
  <2> QED BY <2>1, EntryFacts
<1> QED BY <1>1, <1>2, <1>3

(* There is room left for the searches to end in. *)
LEMMA SoundRoom ==
  ASSUME NEW e, NEW c, NEW l, NEW t,
         Table(e, c), l = Cardinality(Live(e)), t = Cardinality(Deleted(e)),
         (l + t) * 4 <= c * 3
  PROVE  \A k \in Keys : ProbeEnds(e, c, k)
<1>1. c \in Nat \ {0} /\ l \in Nat /\ t \in Nat
  BY CountFacts DEF Table
<1>2. Cardinality(Live(e)) + Cardinality(Deleted(e)) < c
  BY <1>1
<1> QED BY <1>2, RoomFacts

LEMMA SoundPut ==
  ASSUME NEW e, NEW c, NEW l, NEW t, Sound(e, c, l, t), (l + t + 1) * 4 <= c * 3,
         NEW k \in Keys, NEW v \in Values,
         NEW e2, e2 = Put(e, c, k, v),
         NEW l2, l2 = IF e[findSlot(e, c, k)].state = "occupied" THEN l ELSE l + 1,
         NEW t2, t2 = IF e[findSlot(e, c, k)].state = "tombstone" THEN t - 1 ELSE t
  PROVE  /\ Sound(e2, c, l2, t2)
         /\ \A j : Lookup(e2, j) = IF j = k THEN v ELSE Lookup(e, j)
<1> PICK f : f = findSlot(e, c, k)
  OBVIOUS
<1>1. /\ Table(e2, c) /\ f \in 0..c - 1
      /\ Live(e2) = Live(e) \cup {f} /\ Deleted(e2) = Deleted(e) \ {f}
      /\ f \in Live(e) <=> e[f].state = "occupied"
      /\ f \in Deleted(e) <=> e[f].state = "tombstone"
      /\ Reachable(e2, c)
      /\ \A j : Lookup(e2, j) = IF j = k THEN v ELSE Lookup(e, j)
  <2>1. Table(e, c) /\ ProbeEnds(e, c, k) /\ Reachable(e, c)
    BY DEF Sound
  <2> QED BY <2>1, PutFacts
<1>2. IsFiniteSet(Live(e)) /\ IsFiniteSet(Deleted(e))
  BY CountFacts DEF Sound
<1>3. l2 = Cardinality(Live(e2))
  <2>1. Cardinality(Live(e) \cup {f})
        = IF f \in Live(e) THEN Cardinality(Live(e)) ELSE Cardinality(Live(e)) + 1
    BY <1>2, FS_AddElement
  <2> QED BY <1>1, <2>1 DEF Sound
<1>4. t2 = Cardinality(Deleted(e2))
  <2>1. Cardinality(Deleted(e) \ {f})
        = IF f \in Deleted(e) THEN Cardinality(Deleted(e)) - 1 ELSE Cardinality(Deleted(e))
    BY <1>2, FS_RemoveElement
  <2> QED BY <1>1, <2>1 DEF Sound
<1>5. (l2 + t2) * 4 <= c * 3
  <2>1. c \in Nat /\ l \in Nat /\ t \in Nat
    BY SoundFacts
  <2>2. l2 \in {l, l + 1} /\ t2 \in {t, t - 1}
    OBVIOUS
  <2> QED BY <2>1, <2>2
<1>6. \A j \in Keys : ProbeEnds(e2, c, j)
  BY <1>1, <1>3, <1>4, <1>5, SoundRoom
<1> QED BY <1>1, <1>3, <1>4, <1>5, <1>6 DEF Sound

LEMMA SoundErase ==
  ASSUME NEW e, NEW c, NEW l, NEW t, Sound(e, c, l, t), NEW f \in Live(e),
         NEW e2, e2 = Erase(e, f)
  PROVE  Sound(e2, c, l - 1, t + 1)
<1>1. /\ Table(e2, c) /\ Reachable(e2, c)
      /\ Live(e2) = Live(e) \ {f} /\ Deleted(e2) = Deleted(e) \cup {f} /\ f \notin Deleted(e)
  <2>1. Table(e, c) /\ Reachable(e, c)
    BY DEF Sound
  <2> QED BY <2>1, EraseFacts
<1>2. IsFiniteSet(Live(e)) /\ IsFiniteSet(Deleted(e))
  BY CountFacts DEF Sound
<1>3. l - 1 = Cardinality(Live(e2)) /\ t + 1 = Cardinality(Deleted(e2))
  <2>1. Cardinality(Live(e2)) = Cardinality(Live(e)) - 1
    BY <1>1, <1>2, FS_RemoveElement
  <2>2. Cardinality(Deleted(e2)) = Cardinality(Deleted(e)) + 1
    BY <1>1, <1>2, FS_AddElement
  <2> QED BY <2>1, <2>2 DEF Sound
<1>4. ((l - 1) + (t + 1)) * 4 <= c * 3
  <2>1. l \in Nat /\ t \in Nat
    BY SoundFacts
  <2>2. (l - 1) + (t + 1) = l + t
    BY <2>1
  <2> QED BY <2>2 DEF Sound
<1>5. \A j \in Keys : ProbeEnds(e2, c, j)
  BY <1>1, <1>3, <1>4, SoundRoom
<1> QED BY <1>1, <1>3, <1>4, <1>5 DEF Sound

LEMMA SoundEmpty ==
  ASSUME NEW c \in Nat, c >= MinCap, PowerOfTwo(c)
  PROVE  Sound(Empty(c), c, 0, 0)
<1>1. c \in Nat \ {0}
  BY MapAssumption
<1>2. /\ Table(Empty(c), c) /\ Live(Empty(c)) = {} /\ Deleted(Empty(c)) = {}
      /\ Reachable(Empty(c), c)
  BY <1>1, EmptyFacts
<1>3. Cardinality({}) = 0
  BY FS_EmptySet
<1>4. (0 + 0) * 4 <= c * 3
  BY <1>1
<1>5. \A j \in Keys : ProbeEnds(Empty(c), c, j)
  BY <1>2, <1>3, <1>4, SoundRoom
<1> QED BY <1>2, <1>3, <1>4, <1>5 DEF Sound

----------------------------------------------------------------------------
(* The map that the table stands for. *)

StandsFor == \A k \in Keys : msMapGet(k) = Lookup(entries, k)

LEMMA DictOf == SoundTable => StandsFor
<1> SUFFICES ASSUME SoundTable, NEW k \in Keys PROVE msMapGet(k) = Lookup(entries, k)
  BY DEF StandsFor
<1>1. /\ Table(entries, cap) /\ ProbeEnds(entries, cap, k) /\ Reachable(entries, cap)
      /\ len = Cardinality(Live(entries))
  BY DEF SoundTable, Sound
<1>2. CASE len = 0
  <2>1. IsFiniteSet(Live(entries))
    BY <1>1, CountFacts
  <2>2. Live(entries) = {}
    BY <1>1, <1>2, <2>1, FS_EmptySet
  <2> QED BY <1>2, <2>2 DEF msMapGet, Lookup, KeysIn
<1>3. CASE len # 0
  <2> PICK f : f = findSlot(entries, cap, k)
    OBVIOUS
  <2>1. /\ entries[f].state = "occupied" <=> k \in KeysIn(entries)
        /\ entries[f].state = "occupied" => f \in Live(entries) /\ entries[f].key = k
    BY <1>1, FindFacts DEF Live, Table
  <2>2. msMapGet(k) = IF entries[f].state = "occupied" THEN entries[f].value ELSE Absent
    BY <1>3 DEF msMapGet
  <2>3. CASE entries[f].state = "occupied"
    <3>1. Lookup(entries, entries[f].key) = entries[f].value
      BY <1>1, <2>1, <2>3, LookupFacts
    <3> QED BY <2>1, <2>2, <2>3, <3>1
  <2>4. CASE entries[f].state # "occupied"
    BY <2>1, <2>2, <2>4 DEF Lookup
  <2> QED BY <2>3, <2>4
<1> QED BY <1>2, <1>3

(* A key that the map has is where findSlot says. *)
LEMMA HasFacts ==
  ASSUME SoundTable, NEW k \in Keys, Has(k)
  PROVE  LET f == findSlot(entries, cap, k) IN f \in Live(entries) /\ entries[f].key = k
<1>1. /\ Table(entries, cap) /\ ProbeEnds(entries, cap, k) /\ Reachable(entries, cap)
  BY DEF SoundTable, Sound
<1> PICK f : f = findSlot(entries, cap, k)
  OBVIOUS
<1>2. k \in KeysIn(entries)
  BY DictOf DEF StandsFor, Has, Lookup
<1>3. f \in 0..cap - 1 /\ entries[f].state = "occupied" /\ entries[f].key = k
  BY <1>1, <1>2, FindFacts
<1> QED BY <1>1, <1>3 DEF Live, Table

----------------------------------------------------------------------------
(* Setting. *)

Room == (len + tombstones + 1) * 4 <= cap * 3

LEMMA InsertFacts ==
  ASSUME SoundTable, Room, NEW k \in Keys, NEW v \in Values, Insert(k, v)
  PROVE  /\ SoundTable' /\ cap' = cap
         /\ \A j : Lookup(entries', j) = IF j = k THEN v ELSE Lookup(entries, j)
<1>1. entries' = Put(entries, cap, k, v)
  BY DEF Insert, Put
<1>2. /\ len' = IF entries[findSlot(entries, cap, k)].state = "occupied" THEN len ELSE len + 1
      /\ tombstones' = IF entries[findSlot(entries, cap, k)].state = "tombstone"
                       THEN tombstones - 1 ELSE tombstones
      /\ cap' = cap
  BY DEF Insert, Reclaimed
<1>3. Sound(entries, cap, len, tombstones) /\ (len + tombstones + 1) * 4 <= cap * 3
  BY DEF SoundTable, Room
<1>4. /\ Sound(entries', cap, len', tombstones')
      /\ \A j : Lookup(entries', j) = IF j = k THEN v ELSE Lookup(entries, j)
  BY <1>1, <1>2, <1>3, SoundPut
<1> QED BY <1>2, <1>4 DEF SoundTable

LEMMA SettingKept ==
  ASSUME Setting, pc = "idle", UNCHANGED setting, cap' = cap
  PROVE  Setting'
  BY DEF Setting, ResizeInv, setting

LEMMA mapSetHashedFacts ==
  ASSUME SoundTable, Setting, pc = "idle", NEW k \in Keys, NEW v \in Values, mapSetHashed(k, v)
  PROVE  /\ SoundTable' /\ Setting'
         /\ \/ UNCHANGED table
            \/ \A j : Lookup(entries', j) = IF j = k THEN v ELSE Lookup(entries, j)
<1>1. /\ cap \in Nat /\ cap >= 4 /\ len \in Nat /\ tombstones \in Nat
      /\ \A s \in Live(entries) : s \in 0..cap - 1
  BY SoundFacts DEF SoundTable
<1>2. CASE MustGrow
  <2>1. /\ pc' = "resize" /\ newEntries' = Empty(2 * cap) /\ i' = 0
        /\ argKey' = k /\ argVal' = v /\ UNCHANGED table
    BY <1>2 DEF mapSetHashed
  <2>2. SoundTable'
    BY <2>1 DEF SoundTable, table
  <2>3. Moved' = {}
    BY <1>1, <2>1 DEF Moved, table
  <2>4. /\ 2 * cap \in Nat \ {0} /\ 2 * cap >= MinCap /\ PowerOfTwo(2 * cap)
    BY <1>1, PowerDoubles, MapAssumption DEF SoundTable, Sound
  <2>5. /\ Table(Empty(2 * cap), 2 * cap)
        /\ Live(Empty(2 * cap)) = {} /\ Deleted(Empty(2 * cap)) = {}
        /\ Reachable(Empty(2 * cap), 2 * cap)
    BY <2>4, EmptyFacts
  <2>6. \A j \in Keys : ProbeEnds(Empty(2 * cap), 2 * cap, j)
    BY <2>4, SoundEmpty DEF Sound
  <2>7. /\ pc' = "resize" /\ newEntries' = Empty(2 * cap) /\ i' = 0 /\ cap' = cap
        /\ argKey' = k /\ argVal' = v
    BY <2>1 DEF table
  <2>8. ResizeInv'
    BY <2>3, <2>5, <2>7 DEF ResizeInv
  <2>9. newEntries' \in [0..2 * cap' - 1 -> Entry] /\ i' \in 0..cap'
    BY <1>1, <2>5, <2>7 DEF Table
  <2>10. Setting'
    BY <2>5, <2>6, <2>7, <2>8, <2>9 DEF Setting
  <2> QED BY <2>1, <2>2, <2>10
<1>3. CASE ~MustGrow
  <2>1. Insert(k, v) /\ UNCHANGED setting
    BY <1>3 DEF mapSetHashed
  <2>2. Room
    BY <1>1, <1>3 DEF MustGrow, Room
  <2>3. /\ SoundTable' /\ cap' = cap
        /\ \A j : Lookup(entries', j) = IF j = k THEN v ELSE Lookup(entries, j)
    BY <2>1, <2>2, InsertFacts
  <2>4. Setting'
    BY <2>1, <2>3, SettingKept
  <2> QED BY <2>3, <2>4
<1> QED BY <1>2, <1>3

LEMMA ResizeFacts ==
  ASSUME SoundTable, Setting, pc = "resize"
  PROVE  /\ Table(newEntries, 2 * cap) /\ Reachable(newEntries, 2 * cap)
         /\ \A k \in Keys : ProbeEnds(newEntries, 2 * cap, k)
         /\ Deleted(newEntries) = {}
         /\ Cardinality(Live(newEntries)) = Cardinality(Moved)
         /\ {newEntries[t] : t \in Live(newEntries)} = {entries[s] : s \in Moved}
         /\ argKey \in Keys /\ argVal \in Values
<1>1. 2 * cap \in Nat \ {0}
  BY SoundFacts DEF SoundTable
<1>2. newEntries \in [0..2 * cap - 1 -> Entry]
  BY DEF Setting
<1>3. /\ Reachable(newEntries, 2 * cap)
      /\ \A k \in Keys : ProbeEnds(newEntries, 2 * cap, k)
  BY DEF Setting
<1>4. /\ Deleted(newEntries) = {}
      /\ Cardinality(Live(newEntries)) = Cardinality(Moved)
      /\ {newEntries[t] : t \in Live(newEntries)} = {entries[s] : s \in Moved}
      /\ argKey \in Keys /\ argVal \in Values
  BY DEF Setting, ResizeInv
<1> QED BY <1>1, <1>2, <1>3, <1>4 DEF Table

(* The key of the entry that msMapResize has come to is not in the new *)
(* table yet. *)
LEMMA RehashFacts ==
  ASSUME SoundTable, Setting, Rehash
  PROVE  SoundTable' /\ Setting'
<1>1. /\ cap \in Nat /\ cap >= 4 /\ entries \in [0..cap - 1 -> Entry]
      /\ \A s \in Live(entries) : /\ s \in 0..cap - 1 /\ entries[s].state = "occupied"
                                  /\ entries[s].key \in Keys /\ entries[s].value \in Values
      /\ len \in Nat /\ len * 4 <= cap * 3 /\ len = Cardinality(Live(entries))
  BY SoundFacts DEF SoundTable, Sound
<1>2. /\ pc = "resize" /\ i < cap /\ i' = i + 1 /\ i \in 0..cap
      /\ newEntries' =
           IF entries[i].state = "occupied"
           THEN [newEntries EXCEPT ![findSlot(newEntries, 2 * cap, entries[i].key)] = entries[i]]
           ELSE newEntries
      /\ UNCHANGED <<table, pc, argKey, argVal>>
  BY DEF Rehash, NextOld, Setting
<1>3. SoundTable' /\ cap' = cap /\ entries' = entries
  BY <1>2 DEF SoundTable, table
<1>4. /\ Table(newEntries, 2 * cap) /\ Reachable(newEntries, 2 * cap)
      /\ \A k \in Keys : ProbeEnds(newEntries, 2 * cap, k)
      /\ Deleted(newEntries) = {}
      /\ Cardinality(Live(newEntries)) = Cardinality(Moved)
      /\ {newEntries[t] : t \in Live(newEntries)} = {entries[s] : s \in Moved}
      /\ argKey \in Keys /\ argVal \in Values
  BY <1>2, ResizeFacts
<1>5. CASE entries[i].state # "occupied"
  <2>1. i \notin Live(entries)
    BY <1>5 DEF Live
  <2>2. Moved' = Moved
    BY <1>1, <1>2, <1>3, <2>1 DEF Moved
  <2>3. newEntries' = newEntries
    BY <1>2, <1>5
  <2>4. ResizeInv'
    BY <1>2, <1>3, <1>4, <2>2, <2>3 DEF ResizeInv
  <2>5. newEntries' \in [0..2 * cap' - 1 -> Entry] /\ i' \in 0..cap' /\ pc' = "resize"
    <3>1. newEntries' \in [0..2 * cap' - 1 -> Entry]
      BY <1>3, <1>4, <2>3 DEF Table
    <3>2. i' \in 0..cap' /\ pc' = "resize"
      BY <1>1, <1>2, <1>3
    <3> QED BY <3>1, <3>2
  <2>6. /\ argKey' \in Keys /\ argVal' \in Values
        /\ Reachable(newEntries', 2 * cap') /\ \A k \in Keys : ProbeEnds(newEntries', 2 * cap', k)
    BY <1>2, <1>3, <1>4, <2>3
  <2>7. Setting'
    BY <2>4, <2>5, <2>6 DEF Setting
  <2> QED BY <1>3, <2>7
<1>6. CASE entries[i].state = "occupied"
  <2> DEFINE k == entries[i].key
             v == entries[i].value
  <2>1. i \in Live(entries) /\ k \in Keys /\ v \in Values /\ entries[i] = Occupied(k, v)
    <3>1. i \in 0..cap - 1
      BY <1>1, <1>2
    <3>2. i \in Live(entries) /\ entries[i] \in Entry
      BY <1>1, <1>6, <3>1 DEF Live
    <3> QED BY <1>6, <3>2, EntryFacts
  <2>2. newEntries' = Put(newEntries, 2 * cap, k, v)
    BY <1>2, <1>6, <2>1 DEF Put
  <2>3. k \notin KeysIn(newEntries)
    <3> SUFFICES ASSUME NEW t \in Live(newEntries), newEntries[t].key = k PROVE FALSE
      BY DEF KeysIn
    <3>1. PICK s \in Moved : newEntries[t] = entries[s]
      BY <1>4
    <3>2. s \in Live(entries) /\ s < i /\ entries[s].key = entries[i].key
      BY <3>1 DEF Moved
    <3>3. s = i
      BY <2>1, <3>2 DEF SoundTable, Sound, Reachable
    <3> QED BY <1>2, <3>2, <3>3
  <2> HIDE DEF k, v
  <2> PICK f : f = findSlot(newEntries, 2 * cap, k)
    OBVIOUS
  <2>4. /\ Table(newEntries', 2 * cap)
        /\ Live(newEntries') = Live(newEntries) \cup {f}
        /\ Deleted(newEntries') = Deleted(newEntries) \ {f}
        /\ f \in Live(newEntries) <=> k \in KeysIn(newEntries)
        /\ Reachable(newEntries', 2 * cap)
        /\ newEntries'[f] = Occupied(k, v)
        /\ \A s \in 0..2 * cap - 1 : s # f => newEntries'[s] = newEntries[s]
    BY <1>4, <2>1, <2>2, PutFacts
  <2>5. Moved' = Moved \cup {i} /\ i \notin Moved
    BY SMTT(30), <1>1, <1>2, <1>3, <2>1 DEF Moved
  <2>6. /\ IsFiniteSet(Live(newEntries)) /\ IsFiniteSet(Live(entries))
        /\ Live(newEntries) \subseteq 0..2 * cap - 1
        /\ Live(newEntries') \subseteq 0..2 * cap - 1
    BY <1>4, <2>4, CountFacts DEF SoundTable, Sound
  <2>7. IsFiniteSet(Moved)
    BY <2>6, FS_Subset DEF Moved
  <2>8. Cardinality(Live(newEntries')) = Cardinality(Moved')
    <3>1. Cardinality(Live(newEntries) \cup {f}) = Cardinality(Live(newEntries)) + 1
      BY <2>3, <2>4, <2>6, FS_AddElement
    <3>2. Cardinality(Moved \cup {i}) = Cardinality(Moved) + 1
      BY <2>5, <2>7, FS_AddElement
    <3> QED BY <1>4, <2>4, <2>5, <3>1, <3>2
  <2>9. Deleted(newEntries') = {}
    BY <1>4, <2>4
  <2>10. {newEntries'[t] : t \in Live(newEntries')} = {entries'[s] : s \in Moved'}
    <3>1. {newEntries'[t] : t \in Live(newEntries')}
          = {newEntries[t] : t \in Live(newEntries)} \cup {Occupied(k, v)}
      <4>1. \A t \in Live(newEntries) : t # f /\ t \in 0..2 * cap - 1
        BY <2>3, <2>4, <2>6
      <4> QED BY <2>4, <4>1
    <3>2. {entries'[s] : s \in Moved'} = {entries[s] : s \in Moved} \cup {Occupied(k, v)}
      BY <1>3, <2>1, <2>5
    <3> QED BY <1>4, <3>1, <3>2
  <2>11. \A j \in Keys : ProbeEnds(newEntries', 2 * cap, j)
    <3>1. Cardinality(Moved') <= len
      <4>1. Moved' \subseteq Live(entries)
        BY <1>3 DEF Moved
      <4> QED BY <1>1, <2>6, <4>1, FS_Subset
    <3>2. Cardinality(Live(newEntries')) \in Nat /\ Cardinality({}) = 0
      BY <2>4, CountFacts, FS_EmptySet
    <3>3. Cardinality(Live(newEntries')) + Cardinality(Deleted(newEntries')) < 2 * cap
      BY <1>1, <2>8, <2>9, <3>1, <3>2
    <3> QED BY <2>4, <3>3, RoomFacts
  <2>12. ResizeInv'
    BY <1>2, <1>4, <2>8, <2>9, <2>10 DEF ResizeInv
  <2>13. newEntries' \in [0..2 * cap' - 1 -> Entry]
    BY <1>3, <2>4 DEF Table
  <2>14. i' \in 0..cap' /\ pc' = "resize"
    BY <1>1, <1>2, <1>3
  <2>15. /\ argKey' \in Keys /\ argVal' \in Values
         /\ Reachable(newEntries', 2 * cap') /\ \A j \in Keys : ProbeEnds(newEntries', 2 * cap', j)
    BY <1>2, <1>3, <1>4, <2>4, <2>11
  <2>16. Setting'
    BY <2>12, <2>13, <2>14, <2>15 DEF Setting
  <2> QED BY <1>3, <2>16
<1> QED BY <1>5, <1>6

LEMMA RehashedFacts ==
  ASSUME SoundTable, Setting, Rehashed
  PROVE  /\ SoundTable' /\ Setting'
         /\ \A j : Lookup(entries', j) = Lookup(entries, j)
<1>1. /\ cap \in Nat /\ cap >= 4 /\ len \in Nat
      /\ \A s \in Live(entries) : s \in 0..cap - 1
  BY SoundFacts DEF SoundTable
<1>2. /\ pc = "resize" /\ i = cap
      /\ entries' = newEntries /\ cap' = 2 * cap /\ tombstones' = 0 /\ len' = len
      /\ pc' = "insert" /\ newEntries' = Empty(0) /\ i' = 0
      /\ UNCHANGED <<argKey, argVal>>
  BY DEF Rehashed
<1>3. /\ Table(newEntries, 2 * cap) /\ Reachable(newEntries, 2 * cap)
      /\ \A k \in Keys : ProbeEnds(newEntries, 2 * cap, k)
      /\ Deleted(newEntries) = {}
      /\ Cardinality(Live(newEntries)) = Cardinality(Moved)
      /\ {newEntries[t] : t \in Live(newEntries)} = {entries[s] : s \in Moved}
      /\ argKey \in Keys /\ argVal \in Values
  BY <1>2, ResizeFacts
<1>4. Moved = Live(entries)
  BY <1>1, <1>2 DEF Moved
<1>5. /\ len = Cardinality(Live(entries)) /\ tombstones \in Nat
      /\ (len + tombstones) * 4 <= cap * 3
      /\ cap >= MinCap /\ PowerOfTwo(cap) /\ Reachable(entries, cap)
  BY SoundFacts DEF SoundTable, Sound
<1>6. SoundTable'
  <2>1. 2 * cap >= MinCap /\ PowerOfTwo(2 * cap)
    BY <1>1, <1>5, PowerDoubles, MapAssumption
  <2>2. (len + 0) * 4 <= (2 * cap) * 3
    BY <1>1, <1>5
  <2>3. Cardinality(Deleted(newEntries)) = 0
    BY <1>3, FS_EmptySet
  <2>4. Sound(newEntries, 2 * cap, len, 0)
    BY <1>3, <1>4, <1>5, <2>1, <2>2, <2>3 DEF Sound
  <2> QED BY <1>2, <2>4 DEF SoundTable
<1>7. \A j : Lookup(entries', j) = Lookup(entries, j)
  <2>1. {entries'[s] : s \in Live(entries')} = {entries[s] : s \in Live(entries)}
    BY <1>2, <1>3, <1>4
  <2>2. Reachable(entries', 2 * cap)
    BY <1>2, <1>3
  <2> QED BY SMTT(30), <1>5, <2>1, <2>2, SamePairs
<1>8. Setting'
  <2>1. newEntries' \in [0..0 - 1 -> Entry]
    BY <1>2 DEF Empty
  <2>2. (len + 0 + 1) * 4 <= (2 * cap) * 3
    BY <1>1, <1>5
  <2>3. ResizeInv'
    BY <1>2, <1>3 DEF ResizeInv
  <2> QED BY <1>1, <1>2, <1>3, <2>1, <2>2, <2>3 DEF Setting
<1> QED BY <1>6, <1>7, <1>8

LEMMA InsertAfterResizeFacts ==
  ASSUME SoundTable, Setting, InsertAfterResize
  PROVE  /\ SoundTable' /\ Setting' /\ argKey \in Keys /\ argVal \in Values
         /\ \A j : Lookup(entries', j) = IF j = argKey THEN argVal ELSE Lookup(entries, j)
<1>1. /\ pc = "insert" /\ Insert(argKey, argVal)
      /\ pc' = "idle" /\ argKey' = NoKey /\ argVal' = Absent
      /\ UNCHANGED <<newEntries, i>>
  BY DEF InsertAfterResize
<1>2. Room /\ argKey \in Keys /\ argVal \in Values
  BY <1>1 DEF Setting, ResizeInv, Room
<1>3. /\ SoundTable' /\ cap' = cap
      /\ \A j : Lookup(entries', j) = IF j = argKey THEN argVal ELSE Lookup(entries, j)
  BY <1>1, <1>2, InsertFacts
<1>4. Setting'
  BY <1>1, <1>3 DEF Setting, ResizeInv
<1> QED BY <1>2, <1>3, <1>4

----------------------------------------------------------------------------
(* The invariant. *)

LEMMA InitInv == Init => Inv
<1> SUFFICES ASSUME Init PROVE Inv
  OBVIOUS
<1>1. cap \in Nat /\ cap >= MinCap /\ PowerOfTwo(cap)
  <2>1. PICK c \in InitCaps : cap = roundUpPow2(c)
    BY DEF Init
  <2> QED BY <2>1, RoundUpFacts, MapAssumption
<1>2. SoundTable
  <2>1. Sound(Empty(cap), cap, 0, 0)
    BY <1>1, SoundEmpty
  <2> QED BY <2>1 DEF Init, SoundTable
<1>3. Setting
  <2>1. newEntries \in [0..0 - 1 -> Entry] /\ i \in 0..cap
    BY <1>1 DEF Init, Empty
  <2> QED BY <2>1 DEF Init, Setting, ResizeInv
<1>4. LoopsInv
  BY DEF Init, LoopsInv, IterInv
<1> QED BY <1>2, <1>3, <1>4, Parts

(* Between two iterations the map may be changed as the program likes. *)
LEMMA LoopsKept ==
  ASSUME LoopsInv, UNCHANGED iterator, update' \in Nat \cup {None},
         slotIdx # None => ~Idle \/ Overwrites
  PROVE  LoopsInv'
BY DEF LoopsInv, IterInv, iterator

LEMMA msMapSetKeeps ==
  ASSUME Inv, NEW k \in Keys, NEW v \in Values, msMapSet(k, v) \/ msMapSetDefault(k, v)
  PROVE  Inv'
<1>1. SoundTable /\ Setting /\ LoopsInv
  BY Parts
<1>2. /\ Idle /\ mapSetHashed(k, v) /\ UNCHANGED <<update, iterator>>
      /\ slotIdx # None => Overwrites
  BY DEF msMapSet, msMapSetDefault
<1>3. SoundTable' /\ Setting'
  BY <1>1, <1>2, mapSetHashedFacts DEF Idle
<1>4. LoopsInv'
  BY <1>1, <1>2, LoopsKept DEF LoopsInv
<1> QED BY <1>3, <1>4, Parts, PTL

LEMMA msMapDelKeeps ==
  ASSUME Inv, NEW k \in Keys, msMapDel(k)
  PROVE  Inv'
<1>1. SoundTable /\ Setting /\ LoopsInv
  BY Parts
<1> PICK f : f = findSlot(entries, cap, k)
  OBVIOUS
<1>2. f \in Live(entries) /\ entries[f].key = k
  BY <1>1, HasFacts DEF msMapDel
<1>3. entries' = Erase(entries, f) /\ len' = len - 1 /\ tombstones' = tombstones + 1 /\ cap' = cap
  BY DEF msMapDel, Erase, erased
<1>4. SoundTable'
  BY <1>1, <1>2, <1>3, SoundErase DEF SoundTable
<1>5. Setting'
  BY <1>1, <1>3, SettingKept DEF msMapDel, Idle
<1>6. LoopsInv'
  <2>1. /\ \A s \in Live(entries') : entries'[s] = entries[s] /\ s \in Live(entries)
        /\ KeysIn(entries') = KeysIn(entries) \ {k}
    BY <1>1, <1>2, <1>3, EraseFacts DEF SoundTable, Sound
  <2>2. /\ Idle /\ Idle' /\ kept' = kept \ {k}
        /\ UNCHANGED <<update, slotIdx, seen, repeated>>
    BY DEF msMapDel, Idle, setting
  <2>3. IterInv'
    BY <1>1, <2>1, <2>2 DEF LoopsInv, IterInv
  <2> QED BY <1>1, <2>2, <2>3 DEF LoopsInv
<1> QED BY <1>4, <1>5, <1>6, Parts, PTL

LEMMA msMapClearKeeps == Inv /\ msMapClear => Inv'
<1> SUFFICES ASSUME Inv, msMapClear PROVE Inv'
  OBVIOUS
<1>1. SoundTable /\ Setting /\ LoopsInv
  BY Parts
<1>2. /\ entries' = Empty(cap) /\ len' = 0 /\ tombstones' = 0 /\ cap' = cap
      /\ Idle /\ Idle' /\ kept' = {}
      /\ UNCHANGED <<setting, update, slotIdx, seen, repeated>>
  BY DEF msMapClear, Idle, setting
<1>3. cap \in Nat \ {0} /\ cap >= MinCap /\ PowerOfTwo(cap)
  BY <1>1, SoundFacts DEF SoundTable, Sound
<1>4. SoundTable'
  BY <1>2, <1>3, SoundEmpty DEF SoundTable
<1>5. Setting'
  BY <1>1, <1>2, SettingKept DEF Idle
<1>6. LoopsInv'
  <2>1. Live(entries') = {} /\ KeysIn(entries') = {}
    BY <1>2, <1>3, EmptyFacts
  <2>2. IterInv'
    BY <1>1, <1>2, <2>1 DEF LoopsInv, IterInv
  <2> QED BY <1>1, <1>2, <2>2 DEF LoopsInv
<1> QED BY <1>4, <1>5, <1>6, Parts, PTL

(* The copy's table is the original's. *)
LEMMA CopyFacts ==
  ASSUME SoundTable, msMapCopy
  PROVE  UNCHANGED table
<1>1. cap \in Nat /\ cap >= MinCap /\ PowerOfTwo(cap) /\ entries \in [0..cap - 1 -> Entry]
  BY SoundFacts DEF SoundTable, Sound
<1>2. cap' = cap
  BY <1>1, RoundUpSame DEF msMapCopy
<1>3. entries' = [s \in 0..cap - 1 |-> IF s < cap THEN entries[s] ELSE Never]
  BY <1>2 DEF msMapCopy
<1>4. \A s \in 0..cap - 1 : s < cap
  BY <1>1
<1>5. entries' = [s \in 0..cap - 1 |-> entries[s]]
  BY <1>3, <1>4
<1>6. entries' = entries
  BY <1>1, <1>5
<1> QED BY <1>2, <1>6 DEF msMapCopy, table

(* A step that changes nothing keeps the invariant. *)
LEMMA StutterKeepsInv ==
  ASSUME Inv, UNCHANGED vars
  PROVE  Inv'
<1>1. UNCHANGED table /\ UNCHANGED setting /\ UNCHANGED update /\ UNCHANGED iterator
  BY DEF vars
<1>2. TypeOK'
  BY <1>1 DEF Inv, TypeOK, table, setting, iterator
<1>3. CountInv' /\ ProbesEnd'
  BY <1>1 DEF Inv, CountInv, ProbesEnd, table, setting, iterator
<1>4. ResizeInv'
  BY <1>1 DEF Inv, ResizeInv, Moved, table, setting, iterator
<1>5. IterInv'
  BY <1>1 DEF Inv, IterInv, Idle, table, setting, iterator
<1>6. /\ cap' >= MinCap /\ PowerOfTwo(cap') /\ Reachable(entries', cap')
      /\ pc' = "resize" => Reachable(newEntries', 2 * cap')
  BY <1>1 DEF Inv, table, setting, iterator
<1> QED BY <1>2, <1>3, <1>4, <1>5, <1>6 DEF Inv

LEMMA msMapCopyKeeps == Inv /\ msMapCopy => Inv'
<1> SUFFICES ASSUME Inv, msMapCopy PROVE Inv'
  OBVIOUS
<1>1. SoundTable /\ Setting /\ LoopsInv
  BY Parts
<1>2. UNCHANGED vars
  BY <1>1, CopyFacts DEF msMapCopy, vars
<1> QED BY <1>2, StutterKeepsInv

LEMMA LoopsOfUpdateKeep ==
  ASSUME Inv, UpdateStart \/ UpdateStep \/ UpdateEnd
  PROVE  Inv'
<1>1. SoundTable /\ Setting /\ LoopsInv
  BY Parts
<1>2. SoundTable' /\ Setting'
  <2>1. CASE UpdateStart \/ UpdateEnd
    BY <1>1, <2>1, SettingKept DEF UpdateStart, UpdateEnd, Idle, SoundTable, table
  <2>2. CASE UpdateStep
    <3>1. CASE entries[update].state = "occupied"
      <4>1. update \in Live(entries)
        <5>1. update \in 0..cap - 1 /\ DOMAIN entries = 0..cap - 1
          BY <1>1, <2>2, SoundFacts DEF UpdateStep, LoopsInv, SoundTable
        <5> QED BY <3>1, <5>1 DEF Live
      <4>2. entries[update].key \in Keys /\ entries[update].value \in Values
        BY <1>1, <4>1, SoundFacts DEF SoundTable
      <4>3. mapSetHashed(entries[update].key, entries[update].value) /\ pc = "idle"
        BY <2>2, <3>1 DEF UpdateStep
      <4> QED BY <1>1, <4>2, <4>3, mapSetHashedFacts
    <3>2. CASE entries[update].state # "occupied"
      BY <1>1, <2>2, <3>2, SettingKept DEF UpdateStep, SoundTable, table
    <3> QED BY <3>1, <3>2
  <2> QED BY <2>1, <2>2
<1>3. UNCHANGED iterator /\ update' \in Nat \cup {None}
  BY <1>1 DEF UpdateStart, UpdateStep, UpdateEnd, LoopsInv
<1>4. slotIdx # None => ~Idle \/ Overwrites
  BY DEF UpdateStart, UpdateStep, UpdateEnd, Idle
<1>5. LoopsInv'
  BY <1>1, <1>3, <1>4, LoopsKept
<1> QED BY <1>2, <1>5, Parts, PTL

LEMMA LoopsOfResizeKeep ==
  ASSUME Inv, Rehash \/ Rehashed \/ InsertAfterResize
  PROVE  Inv'
<1>1. SoundTable /\ Setting /\ LoopsInv
  BY Parts
<1>2. SoundTable' /\ Setting'
  BY <1>1, RehashFacts, RehashedFacts, InsertAfterResizeFacts
<1>3. UNCHANGED <<update, iterator>> /\ ~Idle
  BY DEF Rehash, Rehashed, InsertAfterResize, Idle
<1>4. LoopsInv'
  BY <1>1, <1>3, LoopsKept DEF LoopsInv
<1> QED BY <1>2, <1>4, Parts, PTL

(* The keys that the iterator has passed are the keys it has returned. *)
LEMMA IteratorKeeps ==
  ASSUME Inv, mapIter \/ mapIterNext \/ IterEnd
  PROVE  Inv'
<1>1. SoundTable /\ Setting /\ LoopsInv
  BY Parts
<1>2. SoundTable' /\ Setting'
  BY <1>1, SettingKept DEF mapIter, mapIterNext, IterEnd, Idle, SoundTable, table
<1>3. /\ \A s \in Live(entries) : s \in Nat /\ entries[s].key \in Keys
      /\ \A s, t \in Live(entries) : entries[s].key = entries[t].key => s = t
  BY <1>1, SoundFacts DEF SoundTable, Sound, Reachable
<1>4. UNCHANGED <<entries, pc, update>> /\ Idle
  BY DEF mapIter, mapIterNext, IterEnd, table, setting, Idle
<1>5. LoopsInv'
  <2>1. CASE mapIter
    <3>1. slotIdx' = 0 /\ kept' = KeysIn(entries) /\ seen' = {} /\ repeated' = FALSE
      BY <2>1 DEF mapIter
    <3>2. kept' \subseteq Keys /\ \A s \in Live(entries) : ~(s < 0)
      BY <1>3, <3>1 DEF KeysIn
    <3>3. IterInv'
      BY <1>4, <3>1, <3>2 DEF IterInv, Idle
    <3> QED BY <1>1, <1>4, <3>1, <3>2, <3>3 DEF LoopsInv
  <2>2. CASE mapIterNext
    <3> DEFINE s == Min(Ahead)
    <3>1. slotIdx \in Nat /\ Ahead # {} /\ Returned = entries[s].key /\ Returned # Nil
      BY <1>1, <2>2 DEF mapIterNext, LoopsInv, Returned
    <3>2. Ahead \in SUBSET Nat
      BY <1>3 DEF Ahead
    <3>3. s \in Ahead /\ \A t \in Ahead : s <= t
      BY <3>1, <3>2, MinFacts
    <3>4. /\ slotIdx' = s + 1 /\ seen' = seen \cup {entries[s].key} /\ kept' = kept
          /\ repeated' = (repeated \/ entries[s].key \in seen)
      BY <2>2, <3>1 DEF mapIterNext, Advanced
    <3> HIDE DEF s
    <3>5. s \in Live(entries) /\ s \in Nat /\ s >= slotIdx /\ entries[s].key \in Keys
      BY <1>3, <3>3 DEF Ahead
    <3>6. \A t \in Live(entries) : t >= slotIdx => s <= t
      BY <3>3 DEF Ahead
    <3>7. repeated' \in BOOLEAN
      BY <1>1, <3>4 DEF LoopsInv
    <3>8. IterInv'
      <4> SUFFICES ASSUME ~Overwrites
                   PROVE  /\ ~repeated' /\ kept' = KeysIn(entries) /\ Nil \notin seen'
                          /\ \A t \in Live(entries) : entries[t].key \in seen' <=> t < slotIdx'
        BY <1>4 DEF IterInv, Idle
      <4>1. /\ ~repeated /\ kept = KeysIn(entries) /\ Nil \notin seen
            /\ \A t \in Live(entries) : entries[t].key \in seen <=> t < slotIdx
        BY <1>1, <2>2 DEF LoopsInv, IterInv, mapIterNext
      <4>2. entries[s].key \notin seen
        BY <3>1, <3>5, <4>1
      <4>3. ASSUME NEW t \in Live(entries) PROVE entries[t].key \in seen' <=> t < slotIdx'
        <5>1. t \in Nat
          BY <1>3
        <5>2. entries[t].key \in seen' <=> t < slotIdx \/ t = s
          BY <1>3, <3>4, <3>5, <4>1
        <5>3. t < s + 1 <=> t < slotIdx \/ t = s
          BY <3>1, <3>5, <3>6, <5>1
        <5> QED BY <3>4, <5>2, <5>3
      <4> QED BY <3>1, <3>4, <4>1, <4>2, <4>3
    <3> QED BY <1>1, <1>4, <3>4, <3>5, <3>7, <3>8 DEF LoopsInv
  <2>3. CASE IterEnd
    BY <1>1, <2>3 DEF IterEnd, LoopsInv, IterInv
  <2> QED BY <2>1, <2>2, <2>3
<1> QED BY <1>2, <1>5, Parts, PTL

LEMMA StepKeepsInv == Inv /\ [Next]_vars => Inv'
<1> SUFFICES ASSUME Inv, [Next]_vars PROVE Inv'
  OBVIOUS
<1>1. CASE UNCHANGED vars
  BY <1>1, StutterKeepsInv
<1>2. CASE Program
  <2>1. ASSUME NEW k \in Keys, NEW v \in Values, msMapSet(k, v) \/ msMapSetDefault(k, v)
        PROVE  Inv'
    BY <2>1, msMapSetKeeps
  <2>2. ASSUME NEW k \in Keys, msMapDel(k) PROVE Inv'
    BY <2>2, msMapDelKeeps
  <2> QED BY <1>2, <2>1, <2>2, msMapClearKeeps, msMapCopyKeeps, LoopsOfUpdateKeep,
             IteratorKeeps DEF Program
<1>3. CASE Loops
  BY <1>3, LoopsOfUpdateKeep, LoopsOfResizeKeep DEF Loops
<1> QED BY <1>1, <1>2, <1>3 DEF Next

(* Every search that an operation can start ends, and at the key if the     *)
(* table has it; the counters are exact: for all keys and hashes, and after *)
(* any sequence of insertions, deletions, copies and resizes.               *)
THEOREM Invariance == Spec => []Inv
<1> QED BY InitInv, StepKeepsInv, PTL DEF Spec

(* A loop over the keys whose body only deletes meets each key that stays  *)
(* in a slot before the key nil's, or in any slot if nil is not a key, and *)
(* none twice.                                                             *)
THEOREM IteratesUpToNil == ASSUME ~Overwrites PROVE Spec => []IterationExact
<1>1. Inv => IterationExact
  <2> SUFFICES ASSUME Inv, LoopOver
               PROVE  ~repeated /\ kept \cap seen = {entries[s].key : s \in BeforeNil}
    BY DEF IterationExact
  <2>1. SoundTable /\ LoopsInv /\ slotIdx \in Nat /\ Returned = Nil
    BY Parts DEF LoopOver, LoopsInv
  <2>2. /\ ~repeated /\ kept = KeysIn(entries) /\ Nil \notin seen
        /\ \A s \in Live(entries) : entries[s].key \in seen <=> s < slotIdx
    BY <2>1 DEF LoopsInv, IterInv, LoopOver
  <2>3. \A s \in Live(entries) : s \in Nat
    BY <2>1, SoundFacts DEF SoundTable
  <2>4. \A s \in Live(entries) : s < slotIdx <=> s \in BeforeNil
    <3>1. CASE Ahead = {}
      <4>1. \A s \in Live(entries) : s < slotIdx
        BY <2>1, <2>3, <3>1 DEF Ahead
      <4>2. \A s \in Live(entries) : entries[s].key # Nil
        BY <2>2, <4>1
      <4> QED BY <4>1, <4>2 DEF BeforeNil
    <3>2. CASE Ahead # {}
      <4> DEFINE m == Min(Ahead)
      <4>1. Ahead \in SUBSET Nat
        BY <2>3 DEF Ahead
      <4>2. m \in Ahead /\ \A t \in Ahead : m <= t
        BY <3>2, <4>1, MinFacts
      <4>3. entries[m].key = Nil
        BY <2>1, <3>2 DEF Returned
      <4> HIDE DEF m
      <4>4. m \in Live(entries) /\ m \in Nat /\ m >= slotIdx
        BY <2>3, <4>2 DEF Ahead
      <4>5. \A t \in Live(entries) : entries[t].key = Nil => t = m
        BY <2>1, <4>3, <4>4 DEF SoundTable, Sound, Reachable
      <4>6. \A s \in Live(entries) : s < slotIdx <=> s < m
        BY <2>1, <2>3, <4>2, <4>4 DEF Ahead
      <4>7. \A s \in Live(entries) : s \in BeforeNil <=> s < m
        BY <4>3, <4>4, <4>5 DEF BeforeNil
      <4> QED BY <4>6, <4>7
    <3> QED BY <3>1, <3>2
  <2>5. kept \cap seen = {entries[s].key : s \in BeforeNil}
    BY <2>2, <2>4 DEF KeysIn, BeforeNil
  <2> QED BY <2>2, <2>5
<1> QED BY Invariance, <1>1, PTL

----------------------------------------------------------------------------
(* The refinement. *)

TheDict == [k \in Keys |-> msMapGet(k)]

(* A step that says the same of every key is none of the dictionary's. *)
LEMMA SameDict ==
  ASSUME SoundTable, SoundTable', \A j : Lookup(entries', j) = Lookup(entries, j)
  PROVE  UNCHANGED TheDict
<1>1. StandsFor /\ StandsFor'
  BY DictOf, PTL
<1>2. \A k \in Keys : msMapGet(k) = Lookup(entries, k) /\ msMapGet(k)' = Lookup(entries', k)
  BY <1>1 DEF StandsFor, Lookup, KeysIn, Live
<1> QED BY <1>2 DEF TheDict

LEMMA OneKey ==
  ASSUME SoundTable, SoundTable', NEW k \in Keys, NEW v,
         \A j : Lookup(entries', j) = IF j = k THEN v ELSE Lookup(entries, j)
  PROVE  TheDict' = [TheDict EXCEPT ![k] = v]
<1>1. StandsFor /\ StandsFor'
  BY DictOf, PTL
<1>2. \A j \in Keys : msMapGet(j) = Lookup(entries, j) /\ msMapGet(j)' = Lookup(entries', j)
  BY <1>1 DEF StandsFor, Lookup, KeysIn, Live
<1> QED BY <1>2 DEF TheDict

(* Insertion puts, deletion removes; the steps of a resize change nothing. *)
THEOREM RefinesDict == Spec => ImplementsDict
<1>1. Init => Dict!Init
  <2> SUFFICES ASSUME Init PROVE TheDict = [k \in Keys |-> Absent]
    BY DEF Dict!Init, TheDict
  <2> QED BY DEF Init, TheDict, msMapGet
<1>2. Inv /\ Inv' /\ [Next]_vars => [Dict!Next]_TheDict
  <2> SUFFICES ASSUME Inv, Inv', [Next]_vars PROVE [Dict!Next]_TheDict
    OBVIOUS
  <2>1. SoundTable /\ Setting /\ LoopsInv /\ SoundTable'
    BY Parts, PTL
  <2>2. UNCHANGED table => UNCHANGED TheDict
    BY <2>1, SameDict DEF table
  <2>3. ASSUME NEW k \in Keys, NEW v \in Values, TheDict' = [TheDict EXCEPT ![k] = v]
        PROVE  Dict!Next
    BY <2>3 DEF Dict!Next, Dict!Put, TheDict
  <2>4. ASSUME NEW k \in Keys, NEW v \in Values, pc = "idle", mapSetHashed(k, v)
        PROVE  [Dict!Next]_TheDict
    BY <2>1, <2>2, <2>3, <2>4, mapSetHashedFacts, OneKey
  <2>5. CASE UNCHANGED vars
    BY <2>2, <2>5 DEF vars
  <2>6. CASE \E k \in Keys, v \in Values : msMapSet(k, v) \/ msMapSetDefault(k, v)
    BY <2>4, <2>6 DEF msMapSet, msMapSetDefault, Idle
  <2>7. ASSUME NEW k \in Keys, msMapDel(k) PROVE Dict!Next
    <3> PICK f : f = findSlot(entries, cap, k)
      OBVIOUS
    <3>1. f \in Live(entries) /\ entries[f].key = k
      BY <2>1, <2>7, HasFacts DEF msMapDel
    <3>2. entries' = Erase(entries, f)
      BY <2>7 DEF msMapDel, Erase, erased
    <3>3. \A j : Lookup(entries', j) = IF j = k THEN Absent ELSE Lookup(entries, j)
      BY <2>1, <3>1, <3>2, EraseFacts DEF SoundTable, Sound
    <3>4. TheDict' = [TheDict EXCEPT ![k] = Absent]
      BY <2>1, <3>3, OneKey
    <3> QED BY <3>4 DEF Dict!Next, Dict!Remove, TheDict
  <2>8. CASE msMapClear
    <3>1. TheDict' = [k \in Keys |-> Absent]
      BY <2>8 DEF msMapClear, TheDict, msMapGet
    <3> QED BY <3>1 DEF Dict!Next, Dict!Clear, TheDict
  <2>9. CASE msMapCopy
    BY <2>1, <2>2, <2>9, CopyFacts
  <2>10. CASE UpdateStart \/ mapIter \/ mapIterNext \/ IterEnd \/ UpdateEnd \/ Rehash
    BY <2>2, <2>10 DEF UpdateStart, mapIter, mapIterNext, IterEnd, UpdateEnd, Rehash
  <2>11. CASE Rehashed
    BY <2>1, <2>11, RehashedFacts, SameDict
  <2>12. CASE InsertAfterResize
    BY <2>1, <2>3, <2>12, InsertAfterResizeFacts, OneKey
  <2>13. CASE UpdateStep
    <3>1. CASE entries[update].state = "occupied"
      <4>1. update \in 0..cap - 1 /\ DOMAIN entries = 0..cap - 1
        BY <2>1, <2>13, SoundFacts DEF UpdateStep, LoopsInv, SoundTable
      <4>2. update \in Live(entries)
        BY <3>1, <4>1 DEF Live
      <4>3. entries[update].key \in Keys /\ entries[update].value \in Values
        BY <2>1, <4>2, SoundFacts DEF SoundTable
      <4> QED BY <2>4, <2>13, <3>1, <4>3 DEF UpdateStep
    <3>2. CASE entries[update].state # "occupied"
      BY <2>2, <2>13, <3>2 DEF UpdateStep
    <3> QED BY <3>1, <3>2
  <2> QED BY <2>5, <2>6, <2>7, <2>8, <2>9, <2>10, <2>11, <2>12, <2>13 DEF Next, Program, Loops
<1> QED BY Invariance, <1>1, <1>2, PTL DEF Spec, ImplementsDict, Dict!Spec, TheDict

=============================================================================

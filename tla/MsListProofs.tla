---------------------------- MODULE MsListProofs ----------------------------
(***************************************************************************)
(* Proofs about MsList, for any items, any number of lists and lists of    *)
(* any length: the arrays implement sequences, and a loop over a list      *)
(* returns its elements once and in order while its body appends and       *)
(* assigns.                                                                *)
(***************************************************************************)
EXTENDS MsList, MsNumbers, FiniteSetTheorems, Functions

----------------------------------------------------------------------------
(* Numbers. *)

LEMMA MinFacts ==
  ASSUME NEW S \in SUBSET Nat, S # {}
  PROVE  Min(S) \in S /\ \A k \in S : Min(S) <= k
  BY LeastNumber DEF Min

(* Whatever a list grows by, some doubling is enough. *)
LEMMA EnoughDoublings ==
  ASSUME NEW n \in Nat
  PROVE  \E p \in 1..2 * (n + 1) : PowerOfTwo(p) /\ p >= n + 1
<1> DEFINE P(m) == {p \in 1..2 * (m + 1) : PowerOfTwo(p) /\ p >= m + 1}
           S == {m \in Nat : P(m) # {}}
<1>1. 0 \in S
  <2>1. PowerOfTwo(1)
    BY DEF PowerOfTwo
  <2>2. 1 \in P(0)
    BY <2>1
  <2> QED BY <2>2
<1>2. ASSUME NEW m \in S PROVE m + 1 \in S
  <2>1. PICK p \in P(m) : TRUE
    OBVIOUS
  <2>2. CASE p >= m + 2
    <3>1. p \in P(m + 1)
      BY <2>1, <2>2
    <3> QED BY <3>1
  <2>3. CASE p = m + 1
    <3>1. PowerOfTwo(2 * p)
      BY <2>1, PowerDoubles
    <3>2. 2 * p \in P(m + 1)
      BY <2>1, <2>3, <3>1
    <3> QED BY <3>2
  <2> QED BY <2>1, <2>2, <2>3
<1>3. S = Nat
  <2> HIDE DEF S
  <2> QED BY <1>1, <1>2, Induction DEF S
<1> QED BY <1>3

----------------------------------------------------------------------------
(* The arrays. *)

Blocks == UNION {[0..c - 1 -> Items \cup {Junk}] : c \in Nat}
Records == [len : Nat, cap : Nat, items : Blocks]

Array(l) ==
  /\ l \in Records
  /\ l.cap \in Nat /\ l.len \in 0..l.cap
  /\ l.items \in [0..l.cap - 1 -> Items \cup {Junk}]
  /\ \A k \in 0..l.len - 1 : l.items[k] \in Items

(* Assigning to the fields of a list. *)
LEMMA SetLen ==
  ASSUME NEW l \in Records, NEW n \in Nat
  PROVE  LET r == [l EXCEPT !.len = n] IN r \in Records /\ r.len = n /\ r.cap = l.cap /\ r.items = l.items
  BY DEF Records

LEMMA SetItems ==
  ASSUME NEW l \in Records, NEW c \in Nat, NEW e \in [0..c - 1 -> Items \cup {Junk}]
  PROVE  LET r == [l EXCEPT !.items = e] IN r \in Records /\ r.len = l.len /\ r.cap = l.cap /\ r.items = e
<1>1. e \in Blocks
  BY DEF Blocks
<1> QED BY <1>1 DEF Records

LEMMA ContentsFacts ==
  ASSUME NEW l, Array(l)
  PROVE  /\ Contents(l) \in Seq(Items) /\ Len(Contents(l)) = l.len
         /\ \A k \in 0..l.len - 1 : At(l, k) = l.items[k] /\ At(l, k) \in Items /\ Contents(l)[k + 1] = l.items[k]
         /\ \A k \in 1..l.len : Contents(l)[k] = l.items[k - 1]
         /\ \A k \in Int : At(l, k) \in Items \cup {Junk}
<1>1. l.cap \in Nat /\ l.len \in 0..l.cap /\ DOMAIN l.items = 0..l.cap - 1
  BY DEF Array
<1>2. \A k \in 0..l.len - 1 : At(l, k) = l.items[k] /\ At(l, k) \in Items
  BY <1>1 DEF Array, At
<1>3. Contents(l) \in [1..l.len -> Items]
  BY <1>1, <1>2 DEF Contents
<1>4. Contents(l) \in Seq(Items) /\ Len(Contents(l)) = l.len
  BY <1>1, <1>3
<1>5. \A k \in 1..l.len : Contents(l)[k] = l.items[k - 1]
  BY <1>1, <1>2 DEF Contents
<1>6. \A k \in Int : At(l, k) \in Items \cup {Junk}
  BY <1>1 DEF Array, At
<1> QED BY <1>1, <1>2, <1>4, <1>5, <1>6

(* A list whose array has more slots. *)
Ensured(g, l, needed) ==
  /\ Array(g) /\ g.len = l.len /\ g.cap >= needed /\ g.cap >= l.cap
  /\ \A k \in 0..l.len - 1 : g.items[k] = l.items[k]

LEMMA EnsureFacts ==
  ASSUME ListAssumption, NEW l, Array(l), NEW needed \in Nat, NEW g, g = listEnsureCap(l, needed)
  PROVE  Ensured(g, l, needed)
<1>1. CASE needed <= l.cap
  BY <1>1 DEF listEnsureCap, Array, Ensured
<1>2. CASE ~(needed <= l.cap)
  <2> DEFINE first == IF l.cap < FirstCap THEN FirstCap ELSE l.cap * 2
             times == {p \in 1..2 * needed : PowerOfTwo(p) /\ first * p >= needed}
  <2>1. l.cap \in Nat /\ l.len \in 0..l.cap /\ FirstCap \in Nat \ {0}
    BY DEF Array, ListAssumption
  <2>2. first \in Nat \ {0} /\ first >= l.cap
    BY <2>1
  <2> HIDE DEF first
  <2>3. times # {}
    <3>1. PICK p \in 1..2 * ((needed - 1) + 1) : PowerOfTwo(p) /\ p >= (needed - 1) + 1
      <4>1. needed - 1 \in Nat
        BY <1>2, <2>1
      <4> QED BY <4>1, EnoughDoublings
    <3>2. p \in 1..2 * needed /\ p >= needed
      BY <3>1
    <3>3. first * p >= p
      BY <2>2, <3>2
    <3>4. p \in times
      BY <2>2, <3>1, <3>2, <3>3
    <3> QED BY <3>4
  <2>4. Min(times) \in times
    <3>1. times \in SUBSET Nat
      OBVIOUS
    <3> HIDE DEF times
    <3> QED BY <2>3, <3>1, MinFacts
  <2> DEFINE c == first * Min(times)
  <2>5. c \in Nat /\ c >= needed /\ c >= l.cap
    <3>1. Min(times) \in Nat \ {0} /\ first * Min(times) >= needed
      BY <2>4
    <3> QED BY <1>2, <2>1, <2>2, <3>1
  <2>6. g = Realloc(l, c)
    BY <1>2 DEF listEnsureCap, first
  <2> HIDE DEF c
  <2> DEFINE e == [k \in 0..c - 1 |-> At(l, k)]
  <2>7. e \in [0..c - 1 -> Items \cup {Junk}]
    BY <2>5, ContentsFacts
  <2>8. g \in Records /\ g.len = l.len /\ g.cap = c /\ g.items = e
    <3> HIDE DEF e
    <3>1. g = [len |-> l.len, cap |-> c, items |-> e]
      BY <2>6 DEF Realloc, e
    <3>2. e \in Blocks
      BY <2>5, <2>7 DEF Blocks
    <3> QED BY <2>1, <2>5, <3>1, <3>2 DEF Records
  <2>9. \A k \in 0..l.len - 1 : k \in 0..c - 1 /\ At(l, k) = l.items[k] /\ At(l, k) \in Items
    BY <2>1, <2>5, ContentsFacts
  <2> QED BY <2>1, <2>5, <2>7, <2>8, <2>9 DEF Array, Ensured
<1> QED BY <1>1, <1>2

----------------------------------------------------------------------------
(* The steps that methods are made of.  Half way through a method a slot in *)
(* use may hold anything. *)

Block(l) ==
  /\ l \in Records
  /\ l.cap \in Nat /\ l.len \in Nat
  /\ l.items \in [0..l.cap - 1 -> Items \cup {Junk}]

LEMMA ArrayIsBlock ==
  ASSUME NEW l, Array(l)
  PROVE  Block(l) /\ l.len <= l.cap
  BY DEF Array, Block

LEMMA AtFacts ==
  ASSUME NEW l, Block(l), NEW k \in Int
  PROVE  At(l, k) \in Items \cup {Junk} /\ (k \in 0..l.cap - 1 => At(l, k) = l.items[k])
  BY DEF Block, At

LEMMA NewFacts ==
  ASSUME NEW c \in Nat, NEW r, r = New(c)
  PROVE  Block(r) /\ r.len = 0 /\ r.cap = c
<1>1. [k \in 0..c - 1 |-> Junk] \in Blocks
  BY DEF Blocks
<1> QED BY <1>1 DEF New, Block, Records

LEMMA Rebuilt ==
  ASSUME NEW l, Block(l), NEW e \in [0..l.cap - 1 -> Items \cup {Junk}], NEW r, r = [l EXCEPT !.items = e]
  PROVE  Block(r) /\ r.len = l.len /\ r.cap = l.cap /\ r.items = e
  BY SetItems DEF Block

LEMMA LongerFacts ==
  ASSUME NEW l, Block(l), NEW n \in Int, l.len + n \in Nat, NEW r, r = Longer(l, n)
  PROVE  Block(r) /\ r.len = l.len + n /\ r.cap = l.cap /\ r.items = l.items
<1>1. r = [l EXCEPT !.len = l.len + n]
  BY DEF Longer
<1>2. l \in Records /\ l.len + n \in Nat
  BY DEF Block
<1>3. r \in Records /\ r.len = l.len + n /\ r.cap = l.cap /\ r.items = l.items
  BY <1>1, <1>2, SetLen
<1> QED BY <1>3 DEF Block

LEMMA StoreFacts ==
  ASSUME NEW l, Block(l), NEW k \in Int, NEW x \in Items, NEW r, r = Store(l, k, x)
  PROVE  /\ Block(r) /\ r.len = l.len /\ r.cap = l.cap
         /\ \A j \in 0..l.cap - 1 : r.items[j] = IF j = k THEN x ELSE l.items[j]
<1> DEFINE e == [j \in DOMAIN l.items |-> IF j = k THEN x ELSE l.items[j]]
<1>1. e \in [0..l.cap - 1 -> Items \cup {Junk}]
  BY DEF Block
<1>2. r = [l EXCEPT !.items = e]
  BY DEF Store
<1>3. \A j \in 0..l.cap - 1 : e[j] = IF j = k THEN x ELSE l.items[j]
  BY DEF Block
<1> HIDE DEF e
<1> QED BY <1>1, <1>2, <1>3, Rebuilt

(* l with n elements of src from the slot from on in the place of its own.  *)
Moved(r, l, to, src, from, n) ==
  /\ Block(r) /\ r.len = l.len /\ r.cap = l.cap
  /\ \A j \in 0..l.cap - 1 : r.items[j] = IF j \in to..to + n - 1 THEN At(src, (j - to) + from) ELSE l.items[j]

LEMMA MoveFacts ==
  ASSUME NEW l, Block(l), NEW src, Block(src), NEW to \in Int, NEW from \in Int, NEW n \in Int,
         NEW r, r = Move(l, to, src, from, n)
  PROVE  /\ Block(r) /\ r.len = l.len /\ r.cap = l.cap
         /\ \A j \in 0..l.cap - 1 : r.items[j] = IF j \in to..to + n - 1 THEN At(src, (j - to) + from) ELSE l.items[j]
<1> DEFINE e == [j \in DOMAIN l.items |-> IF j \in to..to + n - 1 THEN At(src, (j - to) + from) ELSE l.items[j]]
<1>1. e \in [0..l.cap - 1 -> Items \cup {Junk}]
  <2>1. \A j \in 0..l.cap - 1 : At(src, (j - to) + from) \in Items \cup {Junk}
    BY AtFacts DEF Block
  <2> QED BY <2>1 DEF Block
<1>2. r = [l EXCEPT !.items = e]
  BY DEF Move
<1>3. \A j \in 0..l.cap - 1 : e[j] = IF j \in to..to + n - 1 THEN At(src, (j - to) + from) ELSE l.items[j]
  BY DEF Block
<1> HIDE DEF e
<1> QED BY <1>1, <1>2, <1>3, Rebuilt

LEMMA TrimFacts ==
  ASSUME NEW l, Block(l), NEW r, r = Trim(l)
  PROVE  /\ Block(r) /\ r.len = l.len /\ r.cap = l.cap
         /\ \A j \in 0..l.cap - 1 : j < l.len => r.items[j] = l.items[j]
<1> DEFINE e == [j \in DOMAIN l.items |-> IF j < l.len THEN l.items[j] ELSE Junk]
<1>1. e \in [0..l.cap - 1 -> Items \cup {Junk}]
  BY DEF Block
<1>2. r = [l EXCEPT !.items = e]
  BY DEF Trim
<1>3. \A j \in 0..l.cap - 1 : j < l.len => e[j] = l.items[j]
  BY DEF Block
<1> HIDE DEF e
<1> QED BY <1>1, <1>2, <1>3, Rebuilt

----------------------------------------------------------------------------
(* What a method is shown to do: the array it leaves holds q. *)
Holds(l, q) == Array(l) /\ Contents(l) = q

LEMMA Holding ==
  ASSUME NEW l, Block(l), l.len <= l.cap,
         NEW q \in Seq(Items), Len(q) = l.len, \A k \in 1..l.len : l.items[k - 1] = q[k]
  PROVE  Holds(l, q)
<1>1. \A k \in 0..l.len - 1 : l.items[k] \in Items
  <2> SUFFICES ASSUME NEW k \in 0..l.len - 1 PROVE l.items[k] \in Items
    OBVIOUS
  <2>1. k + 1 \in 1..l.len /\ (k + 1) - 1 = k
    BY DEF Block
  <2> QED BY <2>1
<1>2. Array(l)
  BY <1>1 DEF Block, Array
<1>3. Contents(l) \in Seq(Items) /\ Len(Contents(l)) = l.len /\ \A k \in 1..l.len : Contents(l)[k] = l.items[k - 1]
  BY <1>2, ContentsFacts
<1>4. Contents(l) = q
  BY <1>3
<1> QED BY <1>2, <1>4 DEF Holds

----------------------------------------------------------------------------
(* The methods. *)

LEMMA AppendHolds ==
  ASSUME ListAssumption, NEW l, Array(l), NEW x \in Items
  PROVE  Holds(msListAppend(l, x), Append(Contents(l), x))
<1> DEFINE g == listEnsureCap(l, l.len + 1)
           h == Store(g, l.len, x)
           r == msListAppend(l, x)
<1>1. l.len \in Nat /\ l.cap \in Nat
  BY DEF Array
<1>2. Array(g) /\ g.len = l.len /\ g.cap >= l.len + 1 /\ \A k \in 0..l.len - 1 : g.items[k] = l.items[k]
  <2> PICK n : n = l.len + 1
    OBVIOUS
  <2>2. n \in Nat /\ g = listEnsureCap(l, n)
    BY <1>1
  <2> HIDE DEF g
  <2>3. Ensured(g, l, n)
    BY <2>2, EnsureFacts
  <2> QED BY <1>1, <2>3 DEF Ensured
<1>3. Block(g) /\ g.cap \in Nat
  BY <1>2, ArrayIsBlock DEF Block
<1> HIDE DEF g
<1>4. Block(h) /\ h.len = l.len /\ h.cap = g.cap /\ \A j \in 0..g.cap - 1 : h.items[j] = IF j = l.len THEN x ELSE g.items[j]
  <2>1. l.len \in Int
    BY <1>1
  <2> QED BY <1>2, <1>3, <2>1, StoreFacts
<1>5. r = Longer(h, 1)
  BY DEF msListAppend, g
<1> HIDE DEF h, r
<1>6. Block(r) /\ r.len = l.len + 1 /\ r.cap = g.cap /\ r.items = h.items
  BY <1>1, <1>4, <1>5, LongerFacts
<1>7. Contents(l) \in Seq(Items) /\ Len(Contents(l)) = l.len /\ \A k \in 1..l.len : Contents(l)[k] = l.items[k - 1]
  BY ContentsFacts
<1>8. Append(Contents(l), x) \in Seq(Items) /\ Len(Append(Contents(l), x)) = r.len
  BY <1>1, <1>6, <1>7
<1>9. \A k \in 1..r.len : r.items[k - 1] = Append(Contents(l), x)[k]
  <2> SUFFICES ASSUME NEW k \in 1..r.len PROVE r.items[k - 1] = Append(Contents(l), x)[k]
    OBVIOUS
  <2>1. k - 1 \in 0..g.cap - 1
    BY <1>1, <1>2, <1>3, <1>6
  <2>2. CASE k = l.len + 1
    <3>1. r.items[k - 1] = x
      BY <1>1, <1>4, <1>6, <2>1, <2>2
    <3>2. Append(Contents(l), x)[k] = x
      BY <1>1, <1>7, <2>2
    <3> QED BY <3>1, <3>2
  <2>3. CASE k \in 1..l.len
    <3>1. k - 1 # l.len /\ k - 1 \in 0..l.len - 1
      BY <1>1, <2>3
    <3>2. r.items[k - 1] = l.items[k - 1]
      BY <1>2, <1>4, <1>6, <2>1, <3>1
    <3>3. Append(Contents(l), x)[k] = Contents(l)[k]
      BY <1>1, <1>7, <2>3
    <3> QED BY <1>7, <2>3, <3>2, <3>3
  <2>4. k = l.len + 1 \/ k \in 1..l.len
    BY <1>1, <1>6
  <2> QED BY <2>2, <2>3, <2>4
<1> QED BY <1>1, <1>2, <1>3, <1>6, <1>8, <1>9, Holding DEF r

LEMMA IndexFacts ==
  ASSUME NEW l, Array(l), NEW i \in Int
  PROVE  LET k == normalizeIndex(l, i)
             p == Abstract!At(Contents(l), i) IN
         /\ k \in -1..l.len - 1
         /\ k >= 0 => p = k + 1
         /\ p \in DOMAIN Contents(l) <=> k >= 0
<1>1. l.len \in Nat /\ Contents(l) \in Seq(Items) /\ Len(Contents(l)) = l.len
  BY ContentsFacts DEF Array
<1> QED BY <1>1 DEF normalizeIndex, Abstract!At

LEMMA SetHolds ==
  ASSUME NEW l, Array(l), NEW i \in Int, NEW x \in Items
  PROVE  Holds(msListSet(l, i, x), Abstract!Assigned(Contents(l), i, x))
<1> DEFINE k == normalizeIndex(l, i)
           p == Abstract!At(Contents(l), i)
           r == Store(l, k, x)
           q == [Contents(l) EXCEPT ![p] = x]
<1>1. k \in -1..l.len - 1 /\ (k >= 0 => p = k + 1) /\ (p \in DOMAIN Contents(l) <=> k >= 0)
  BY IndexFacts
<1>2. CASE k < 0
  <2>1. msListSet(l, i, x) = l
    BY <1>2 DEF msListSet
  <2>2. Abstract!Assigned(Contents(l), i, x) = Contents(l)
    BY <1>1, <1>2 DEF Abstract!Assigned
  <2> QED BY <2>1, <2>2 DEF Holds
<1>3. CASE k >= 0
  <2>1. l.len \in Nat /\ l.cap \in Nat /\ Block(l) /\ l.len <= l.cap
    BY ArrayIsBlock DEF Array
  <2>2. Contents(l) \in Seq(Items) /\ Len(Contents(l)) = l.len /\ \A j \in 1..l.len : Contents(l)[j] = l.items[j - 1]
    BY ContentsFacts
  <2>3. msListSet(l, i, x) = r
    BY <1>1, <1>3 DEF msListSet
  <2>4. Abstract!Assigned(Contents(l), i, x) = q
    BY <1>1, <1>3 DEF Abstract!Assigned
  <2> HIDE DEF k, p
  <2>5. Block(r) /\ r.len = l.len /\ r.cap = l.cap /\ \A j \in 0..l.cap - 1 : r.items[j] = IF j = k THEN x ELSE l.items[j]
    BY <1>1, <1>3, <2>1, StoreFacts
  <2> HIDE DEF r
  <2>6. q \in Seq(Items) /\ Len(q) = r.len
    BY <1>1, <1>3, <2>2, <2>5
  <2>7. \A j \in 1..r.len : r.items[j - 1] = q[j]
    <3> SUFFICES ASSUME NEW j \in 1..r.len PROVE r.items[j - 1] = q[j]
      OBVIOUS
    <3>1. j - 1 \in 0..l.cap - 1
      BY <2>1, <2>5
    <3>2. r.items[j - 1] = IF j - 1 = k THEN x ELSE l.items[j - 1]
      BY <2>5, <3>1
    <3>3. q[j] = IF j = p THEN x ELSE l.items[j - 1]
      BY <2>2, <2>5
    <3> QED BY <1>1, <1>3, <3>2, <3>3
  <2> HIDE DEF q
  <2> QED BY <2>1, <2>3, <2>4, <2>5, <2>6, <2>7, Holding
<1> QED BY <1>1, <1>2, <1>3

LEMMA Joined ==
  ASSUME NEW S, NEW a \in Seq(S), NEW b \in Seq(S), NEW q, q = a \o b
  PROVE  /\ q \in Seq(S) /\ Len(q) = Len(a) + Len(b)
         /\ \A j \in 1..Len(a) : q[j] = a[j]
         /\ \A j \in Len(a) + 1..Len(a) + Len(b) : q[j] = b[j - Len(a)]
  OBVIOUS

LEMMA Part ==
  ASSUME NEW S, NEW c \in Seq(S), NEW m \in 1..Len(c) + 1, NEW n \in 0..Len(c), n >= m - 1, NEW q, q = SubSeq(c, m, n)
  PROVE  q \in Seq(S) /\ Len(q) = (n - m) + 1 /\ \A j \in 1..(n - m) + 1 : q[j] = c[(m + j) - 1]
  OBVIOUS

LEMMA RemoveHolds ==
  ASSUME NEW l, Array(l), NEW k \in 0..l.len - 1
  PROVE  Holds(RemoveItem(l, k), Abstract!RemoveAt(Contents(l), k + 1))
<1> DEFINE c == Contents(l)
           m == Move(l, k, l, k + 1, l.len - k - 1)
           h == Longer(m, -1)
           r == RemoveItem(l, k)
           q == Abstract!RemoveAt(c, k + 1)
<1>1. l.len \in Nat /\ l.cap \in Nat /\ Block(l) /\ l.len <= l.cap
  BY ArrayIsBlock DEF Array
<1>2. c \in Seq(Items) /\ Len(c) = l.len /\ \A j \in 1..l.len : c[j] = l.items[j - 1]
  BY ContentsFacts
<1>3. \A j \in 0..l.len - 1 : At(l, j) = l.items[j]
  BY ContentsFacts
<1> HIDE DEF c
<1>4. /\ Block(m) /\ m.len = l.len /\ m.cap = l.cap
      /\ \A j \in 0..l.cap - 1 : m.items[j] = IF j \in k..k + (l.len - k - 1) - 1 THEN At(l, (j - k) + (k + 1)) ELSE l.items[j]
  <2>1. l.len - k - 1 \in Int /\ k + 1 \in Int
    BY <1>1
  <2> QED BY <1>1, <2>1, MoveFacts
<1> HIDE DEF m
<1>5. Block(h) /\ h.len = l.len - 1 /\ h.cap = l.cap /\ h.items = m.items
  <2>1. m.len + (-1) \in Nat
    BY <1>1, <1>4
  <2> QED BY <1>1, <1>4, <2>1, LongerFacts
<1>6. r = Trim(h)
  BY DEF RemoveItem, m
<1> HIDE DEF h, r
<1>7. /\ Block(r) /\ r.len = l.len - 1 /\ r.cap = l.cap
      /\ \A j \in 0..l.cap - 1 : j < l.len - 1 => r.items[j] = m.items[j]
  BY <1>5, <1>6, TrimFacts
<1>8. q \in Seq(Items) /\ Len(q) = l.len - 1 /\ \A j \in 1..l.len - 1 : q[j] = IF j <= k THEN c[j] ELSE c[j + 1]
  <2> DEFINE a == SubSeq(c, 1, k)
             b == SubSeq(c, k + 2, l.len)
  <2>1. a \in Seq(Items) /\ Len(a) = k /\ \A j \in 1..k : a[j] = c[j]
    BY <1>1, <1>2
  <2>2. b \in Seq(Items) /\ Len(b) = l.len - k - 1 /\ \A j \in 1..l.len - k - 1 : b[j] = c[k + 1 + j]
    BY <1>1, <1>2
  <2>3. q = a \o b
    <3>1. (k + 1) - 1 = k /\ (k + 1) + 1 = k + 2
      OBVIOUS
    <3> QED BY <1>2, <3>1 DEF Abstract!RemoveAt
  <2> HIDE DEF a, b, q
  <2>4. /\ q \in Seq(Items) /\ Len(q) = Len(a) + Len(b)
        /\ \A j \in 1..Len(a) : q[j] = a[j]
        /\ \A j \in Len(a) + 1..Len(a) + Len(b) : q[j] = b[j - Len(a)]
    <3>1. a \in Seq(Items) /\ b \in Seq(Items)
      BY <2>1, <2>2
    <3> QED BY <2>3, <3>1, Joined
  <2>5. Len(q) = l.len - 1
    BY <1>1, <2>1, <2>2, <2>4
  <2>6. \A j \in 1..l.len - 1 : q[j] = IF j <= k THEN c[j] ELSE c[j + 1]
    <3> SUFFICES ASSUME NEW j \in 1..l.len - 1 PROVE q[j] = IF j <= k THEN c[j] ELSE c[j + 1]
      OBVIOUS
    <3>1. CASE j <= k
      BY <1>1, <2>1, <2>4, <3>1
    <3>2. CASE ~(j <= k)
      <4>1. j \in Len(a) + 1..Len(a) + Len(b) /\ j - k \in 1..l.len - k - 1 /\ k + 1 + (j - k) = j + 1
        BY <1>1, <2>1, <2>2, <3>2
      <4>2. q[j] = b[j - k]
        BY <2>1, <2>4, <4>1
      <4> QED BY <2>2, <3>2, <4>1, <4>2
    <3> QED BY <3>1, <3>2
  <2> QED BY <2>4, <2>5, <2>6
<1> HIDE DEF q
<1>9. \A j \in 1..r.len : r.items[j - 1] = q[j]
  <2> SUFFICES ASSUME NEW j \in 1..r.len PROVE r.items[j - 1] = q[j]
    OBVIOUS
  <2>1. j - 1 \in 0..l.cap - 1 /\ j - 1 < l.len - 1 /\ j \in 1..l.len - 1
    BY <1>1, <1>7
  <2>2. r.items[j - 1] = IF j - 1 \in k..k + (l.len - k - 1) - 1 THEN At(l, ((j - 1) - k) + (k + 1)) ELSE l.items[j - 1]
    BY <1>4, <1>7, <2>1
  <2>3. CASE j <= k
    <3>1. j - 1 \notin k..k + (l.len - k - 1) - 1
      BY <1>1, <2>1, <2>3
    <3>2. r.items[j - 1] = l.items[j - 1]
      BY <2>2, <3>1
    <3>3. q[j] = c[j] /\ c[j] = l.items[j - 1]
      <4>1. j \in 1..l.len
        BY ONLY <1>1, <2>1
      <4>2. q[j] = c[j]
        BY ONLY <1>8, <2>1, <2>3
      <4>3. c[j] = l.items[j - 1]
        BY ONLY <1>2, <4>1
      <4> QED BY <4>2, <4>3
    <3> QED BY <3>2, <3>3
  <2>4. CASE ~(j <= k)
    <3>1. j - 1 \in k..k + (l.len - k - 1) - 1 /\ ((j - 1) - k) + (k + 1) = j /\ j \in 0..l.len - 1
      BY <1>1, <2>1, <2>4
    <3>2. r.items[j - 1] = l.items[j]
      BY <1>3, <2>2, <3>1
    <3>3. q[j] = c[j + 1] /\ c[j + 1] = l.items[(j + 1) - 1]
      <4>1. j + 1 \in 1..l.len
        BY ONLY <1>1, <2>1
      <4>2. q[j] = c[j + 1]
        BY ONLY <1>8, <2>1, <2>4
      <4>3. c[j + 1] = l.items[(j + 1) - 1]
        BY ONLY <1>2, <4>1
      <4> QED BY <4>2, <4>3
    <3> QED BY <3>2, <3>3
  <2> QED BY <2>3, <2>4
<1> QED BY <1>1, <1>7, <1>8, <1>9, Holding DEF r, q, c

LEMMA PopHolds ==
  ASSUME NEW l, Array(l), NEW i \in Int
  PROVE  Holds(msListPop(l, i), Abstract!Popped(Contents(l), i))
<1> DEFINE k == normalizeIndex(l, i)
           p == Abstract!At(Contents(l), i)
<1>1. k \in -1..l.len - 1 /\ (k >= 0 => p = k + 1) /\ (p \in DOMAIN Contents(l) <=> k >= 0)
  BY IndexFacts
<1>2. CASE k < 0
  <2>1. msListPop(l, i) = l
    BY <1>2 DEF msListPop
  <2>2. Abstract!Popped(Contents(l), i) = Contents(l)
    BY <1>1, <1>2 DEF Abstract!Popped
  <2> QED BY <2>1, <2>2 DEF Holds
<1>3. CASE k >= 0
  <2>1. msListPop(l, i) = RemoveItem(l, k)
    BY <1>1, <1>3 DEF msListPop
  <2>2. Abstract!Popped(Contents(l), i) = Abstract!RemoveAt(Contents(l), k + 1)
    BY <1>1, <1>3 DEF Abstract!Popped
  <2>3. k \in 0..l.len - 1
    BY <1>1, <1>3 DEF Array
  <2> HIDE DEF k, p
  <2> QED BY <2>1, <2>2, <2>3, RemoveHolds
<1> QED BY <1>1, <1>2, <1>3

LEMMA RemoveFirstHolds ==
  ASSUME NEW l, Array(l), NEW x
  PROVE  Holds(msListRemove(l, x), Abstract!RemoveFirst(Contents(l), x))
<1> DEFINE c == Contents(l)
           found == {k \in 0..l.len - 1 : At(l, k) = x}
           I == {i \in 1..Len(c) : c[i] = x}
<1>1. l.len \in Nat /\ Len(c) = l.len /\ \A k \in 0..l.len - 1 : c[k + 1] = At(l, k)
  BY ContentsFacts DEF Array
<1>2. \A k \in 0..l.len - 1 : k \in found <=> k + 1 \in I
  BY <1>1
<1>3. \A i \in I : i - 1 \in found
  BY <1>1
<1>4. CASE found = {}
  <2>1. I = {}
    BY <1>3, <1>4
  <2>2. Abstract!RemoveFirst(c, x) = c
    BY <2>1 DEF Abstract!RemoveFirst
  <2>3. msListRemove(l, x) = l
    BY <1>4 DEF msListRemove
  <2> QED BY <2>2, <2>3 DEF Holds
<1>5. CASE found # {}
  <2>1. I # {}
    BY <1>2, <1>5
  <2>2. found \in SUBSET Nat /\ I \in SUBSET Nat
    BY <1>1
  <2>3. msListRemove(l, x) = RemoveItem(l, Min(found))
    BY <1>5 DEF msListRemove
  <2>4. Abstract!RemoveFirst(c, x) = Abstract!RemoveAt(c, Abstract!Min(I))
    BY <2>1 DEF Abstract!RemoveFirst, Abstract!SelectInSeq
  <2>5. Abstract!Min(I) = Min(I)
    BY DEF Abstract!Min, Min
  <2>6. Min(found) \in found /\ \A k \in found : Min(found) <= k
    <3> HIDE DEF found
    <3> QED BY <1>5, <2>2, MinFacts
  <2>7. Min(I) \in I /\ \A k \in I : Min(I) <= k
    <3> HIDE DEF I
    <3> QED BY <2>1, <2>2, MinFacts
  <2>8. Min(I) = Min(found) + 1
    <3>1. Min(found) + 1 \in I /\ Min(I) - 1 \in found
      BY <1>2, <1>3, <2>6, <2>7
    <3>2. Min(I) <= Min(found) + 1 /\ Min(found) <= Min(I) - 1
      BY <2>6, <2>7, <3>1
    <3>3. Min(I) \in Int /\ Min(found) \in Int
      BY <2>2, <2>6, <2>7
    <3> QED BY <3>2, <3>3
  <2>9. Min(found) \in 0..l.len - 1
    BY <2>6
  <2> HIDE DEF found, I
  <2> QED BY <2>3, <2>4, <2>5, <2>8, <2>9, RemoveHolds
<1> QED BY <1>4, <1>5

LEMMA HoldsNothing ==
  ASSUME NEW r, Block(r), r.len = 0
  PROVE  Holds(r, <<>>)
<1> DEFINE q == <<>>
<1>1. q \in Seq(Items) /\ Len(q) = 0
  OBVIOUS
<1>2. r.len <= r.cap
  BY DEF Block
<1> HIDE DEF q
<1>3. \A k \in 1..r.len : r.items[k - 1] = q[k]
  OBVIOUS
<1>4. Holds(r, q)
  BY <1>1, <1>2, <1>3, Holding
<1> QED BY <1>4 DEF q

LEMMA ClearHolds ==
  ASSUME NEW l, Array(l)
  PROVE  Holds(msListClear(l), <<>>)
<1> DEFINE h == [l EXCEPT !.len = 0]
           r == msListClear(l)
<1>1. l \in Records /\ Block(l) /\ l.cap \in Nat
  BY ArrayIsBlock DEF Array
<1>2. h \in Records /\ h.len = 0 /\ h.cap = l.cap /\ h.items = l.items
  BY <1>1, SetLen
<1>3. Block(h)
  BY <1>1, <1>2 DEF Block
<1>4. r = Trim(h)
  BY DEF msListClear
<1> HIDE DEF h, r
<1>5. Block(r) /\ r.len = 0 /\ r.cap = l.cap
  BY <1>2, <1>3, <1>4, TrimFacts
<1> QED BY <1>5, HoldsNothing DEF r

LEMMA NewHolds ==
  ASSUME NEW c \in Nat
  PROVE  Holds(New(c), <<>>)
<1> DEFINE r == New(c)
<1>1. Block(r) /\ r.len = 0 /\ r.cap = c
  BY NewFacts
<1> HIDE DEF r
<1> QED BY <1>1, HoldsNothing DEF r

LEMMA ReverseHolds ==
  ASSUME NEW l, Array(l)
  PROVE  Holds(msListReverse(l), Abstract!Reverse(Contents(l)))
<1> DEFINE c == Contents(l)
           Mirror(k) == l.len - 1 - k
           Swapped == UNION {{i, Mirror(i)} : i \in {i \in 0..l.len - 1 : i + 1 < l.len - i}}
           e == [k \in DOMAIN l.items |-> IF k \in Swapped THEN At(l, Mirror(k)) ELSE l.items[k]]
           r == msListReverse(l)
           q == Abstract!Reverse(c)
<1>1. l.len \in Nat /\ l.cap \in Nat /\ Block(l) /\ l.len <= l.cap /\ DOMAIN l.items = 0..l.cap - 1
  BY ArrayIsBlock DEF Array
<1>2. c \in Seq(Items) /\ Len(c) = l.len /\ \A j \in 1..l.len : c[j] = l.items[j - 1]
  BY ContentsFacts
<1>3. \A k \in 0..l.len - 1 : k \in Swapped \/ k = Mirror(k)
  <2> SUFFICES ASSUME NEW k \in 0..l.len - 1, k # Mirror(k) PROVE k \in Swapped
    OBVIOUS
  <2>1. CASE k + 1 < l.len - k
    BY <2>1
  <2>2. CASE ~(k + 1 < l.len - k)
    <3>1. Mirror(k) \in 0..l.len - 1 /\ Mirror(k) + 1 < l.len - Mirror(k) /\ Mirror(Mirror(k)) = k
      <4>1. k \in Int /\ 0 <= k /\ k <= l.len - 1 /\ k # l.len - 1 - k /\ ~(k + 1 < l.len - k) /\ l.len \in Int
        BY ONLY <1>1, <2>2, k # Mirror(k), k \in 0..l.len - 1 DEF Mirror
      <4> QED BY ONLY <4>1
    <3> QED BY <3>1
  <2> QED BY <2>1, <2>2
<1>4. e \in [0..l.cap - 1 -> Items \cup {Junk}]
  <2>1. \A k \in 0..l.cap - 1 : At(l, Mirror(k)) \in Items \cup {Junk}
    <3> SUFFICES ASSUME NEW k \in 0..l.cap - 1 PROVE At(l, Mirror(k)) \in Items \cup {Junk}
      OBVIOUS
    <3>1. Mirror(k) \in Int
      BY <1>1
    <3> QED BY <1>1, <3>1, AtFacts
  <2>2. \A k \in 0..l.cap - 1 : l.items[k] \in Items \cup {Junk}
    BY <1>1 DEF Block
  <2> HIDE DEF Mirror, Swapped
  <2> QED BY <1>1, <2>1, <2>2
<1>5. \A k \in 0..l.len - 1 : e[k] = l.items[l.len - 1 - k]
  <2> SUFFICES ASSUME NEW k \in 0..l.len - 1 PROVE e[k] = l.items[l.len - 1 - k]
    OBVIOUS
  <2>1. Mirror(k) \in 0..l.len - 1 /\ Mirror(k) = l.len - 1 - k /\ k \in 0..l.cap - 1
    BY <1>1
  <2>2. At(l, Mirror(k)) = l.items[Mirror(k)]
    BY <2>1, ContentsFacts
  <2>3. e[k] = IF k \in Swapped THEN At(l, Mirror(k)) ELSE l.items[k]
    BY <1>1, <2>1
  <2> HIDE DEF Mirror, Swapped, e
  <2> QED BY <1>3, <2>1, <2>2, <2>3
<1>6. r = [l EXCEPT !.items = e]
  BY DEF msListReverse
<1> HIDE DEF e, r, c
<1>7. Block(r) /\ r.len = l.len /\ r.cap = l.cap /\ r.items = e
  BY <1>1, <1>4, <1>6, Rebuilt
<1>8. q \in Seq(Items) /\ Len(q) = l.len /\ \A j \in 1..l.len : q[j] = l.items[l.len - j]
  <2>1. q = [j \in 1..l.len |-> c[(l.len - j) + 1]]
    BY <1>2 DEF Abstract!Reverse
  <2>2. \A j \in 1..l.len : (l.len - j) + 1 \in 1..l.len /\ ((l.len - j) + 1) - 1 = l.len - j
    BY <1>1
  <2>3. \A j \in 1..l.len : c[(l.len - j) + 1] = l.items[l.len - j] /\ c[(l.len - j) + 1] \in Items
    <3> SUFFICES ASSUME NEW j \in 1..l.len PROVE c[(l.len - j) + 1] = l.items[l.len - j] /\ c[(l.len - j) + 1] \in Items
      OBVIOUS
    <3>1. (l.len - j) + 1 \in 1..Len(c)
      BY <1>2, <2>2
    <3>2. c[(l.len - j) + 1] \in Items
      BY <1>2, <3>1
    <3> QED BY <1>2, <2>2, <3>2
  <2> HIDE DEF q
  <2>4. q \in [1..l.len -> Items]
    BY <2>1, <2>3
  <2>5. q \in Seq(Items) /\ Len(q) = l.len
    BY <1>1, <2>4
  <2> QED BY <2>1, <2>3, <2>5
<1> HIDE DEF q
<1>9. \A j \in 1..r.len : r.items[j - 1] = q[j]
  <2> SUFFICES ASSUME NEW j \in 1..r.len PROVE r.items[j - 1] = q[j]
    OBVIOUS
  <2>1. j - 1 \in 0..l.len - 1 /\ l.len - 1 - (j - 1) = l.len - j
    BY <1>1, <1>7
  <2> QED BY <1>5, <1>7, <1>8, <2>1
<1> QED BY <1>1, <1>7, <1>8, <1>9, Holding DEF r, q, c

LEMMA Clamps ==
  ASSUME NEW a \in Int, NEW b \in Int
  PROVE  /\ Max({a, b}) = IF a >= b THEN a ELSE b
         /\ Min({a, b}) = IF a <= b THEN a ELSE b
<1>1. Max({a, b}) = CHOOSE m \in {a, b} : m >= a /\ m >= b
  BY DEF Max
<1>2. Min({a, b}) = CHOOSE m \in {a, b} : m <= a /\ m <= b
  BY DEF Min
<1> QED BY <1>1, <1>2

LEMMA InsertHolds ==
  ASSUME ListAssumption, NEW l, Array(l), NEW i \in Int, NEW x \in Items
  PROVE  Holds(msListInsert(l, i, x), Abstract!Inserted(Contents(l), i, x))
<1> DEFINE c == Contents(l)
           k == IF i < 0 THEN Max({i + l.len, 0}) ELSE Min({i, l.len})
           g == listEnsureCap(l, l.len + 1)
           m == Move(g, k + 1, g, k, g.len - k)
           h == Store(m, k, x)
           r == msListInsert(l, i, x)
           q == Abstract!Inserted(c, i, x)
<1>1. l.len \in Nat /\ l.cap \in Nat
  BY DEF Array
<1>2. c \in Seq(Items) /\ Len(c) = l.len /\ \A j \in 1..l.len : c[j] = l.items[j - 1]
  BY ContentsFacts
<1>3. Array(g) /\ g.len = l.len /\ g.cap >= l.len + 1 /\ \A j \in 0..l.len - 1 : g.items[j] = l.items[j]
  <2> PICK n : n = l.len + 1
    OBVIOUS
  <2>2. n \in Nat /\ g = listEnsureCap(l, n)
    BY <1>1
  <2> HIDE DEF g
  <2>3. Ensured(g, l, n)
    BY <2>2, EnsureFacts
  <2> QED BY <1>1, <2>3 DEF Ensured
<1>4. Block(g) /\ g.cap \in Nat
  BY <1>3, ArrayIsBlock DEF Block
<1>f. k = IF i < 0 THEN (IF i + l.len >= 0 THEN i + l.len ELSE 0) ELSE (IF i <= l.len THEN i ELSE l.len)
  <2>1. i + l.len \in Int /\ l.len \in Int /\ 0 \in Int
    BY <1>1
  <2>2. Max({i + l.len, 0}) = IF i + l.len >= 0 THEN i + l.len ELSE 0
    BY <2>1, Clamps
  <2>3. Min({i, l.len}) = IF i <= l.len THEN i ELSE l.len
    BY <2>1, Clamps
  <2> QED BY <2>2, <2>3
<1>5. k \in 0..l.len
  <2> HIDE DEF k
  <2> QED BY <1>1, <1>f
<1>6. q = Abstract!InsertAt(c, k + 1, x)
  <2>2. Abstract!At(c, i) = IF i < 0 THEN i + l.len + 1 ELSE i + 1
    BY <1>2 DEF Abstract!At
  <2> DEFINE p == IF Abstract!At(c, i) < 1 THEN 1 ELSE IF Abstract!At(c, i) > Len(c) + 1 THEN Len(c) + 1 ELSE Abstract!At(c, i)
  <2>3. q = Abstract!InsertAt(c, p, x)
    BY DEF Abstract!Inserted
  <2> HIDE DEF k, c, q
  <2>4. p = k + 1
    BY <1>1, <1>2, <1>f, <2>2
  <2> QED BY <2>3, <2>4
<1>7. r = Longer(h, 1)
  BY DEF msListInsert
<1> HIDE DEF g, k, c, q, r
<1>8. /\ Block(m) /\ m.len = l.len /\ m.cap = g.cap
      /\ \A j \in 0..g.cap - 1 : m.items[j] = IF j \in k + 1..(k + 1) + (g.len - k) - 1 THEN At(g, (j - (k + 1)) + k) ELSE g.items[j]
  <2> PICK to : to = k + 1
    OBVIOUS
  <2> PICK n : n = g.len - k
    OBVIOUS
  <2>1. to \in Int /\ k \in Int /\ n \in Int /\ to = k + 1 /\ n = g.len - k
    BY <1>1, <1>3, <1>5
  <2>2. m = Move(g, to, g, k, n)
    BY <2>1
  <2> HIDE DEF m
  <2>3. Moved(m, g, to, g, k, n)
    BY ONLY <1>4, <2>1, <2>2, MoveFacts DEF Moved
  <2>4. /\ Block(m) /\ m.len = g.len /\ m.cap = g.cap
        /\ \A j \in 0..g.cap - 1 : m.items[j] = IF j \in to..to + n - 1 THEN At(g, (j - to) + k) ELSE g.items[j]
    BY ONLY <2>3 DEF Moved
  <2> QED BY <1>3, <2>1, <2>4
<1> HIDE DEF m
<1>9. /\ Block(h) /\ h.len = l.len /\ h.cap = g.cap
      /\ \A j \in 0..g.cap - 1 : h.items[j] = IF j = k THEN x ELSE m.items[j]
  <2>1. k \in Int
    BY <1>5
  <2> QED BY <1>8, <2>1, StoreFacts
<1> HIDE DEF h
<1>10. Block(r) /\ r.len = l.len + 1 /\ r.cap = g.cap /\ r.items = h.items
  BY <1>1, <1>7, <1>9, LongerFacts
<1>11. q \in Seq(Items) /\ Len(q) = l.len + 1
       /\ \A j \in 1..l.len + 1 : q[j] = IF j <= k THEN c[j] ELSE IF j = k + 1 THEN x ELSE c[j - 1]
  <2> DEFINE a == SubSeq(c, 1, k)
             b == SubSeq(c, k + 1, l.len)
             ax == a \o <<x>>
  <2>1. a \in Seq(Items) /\ Len(a) = k /\ \A j \in 1..k : a[j] = c[j]
    BY <1>1, <1>2, <1>5
  <2>2. b \in Seq(Items) /\ Len(b) = l.len - k /\ \A j \in 1..l.len - k : b[j] = c[k + j]
    BY <1>1, <1>2, <1>5
  <2>3. q = ax \o b
    <3>1. (k + 1) - 1 = k
      BY <1>5
    <3> QED BY <1>2, <1>6, <3>1 DEF Abstract!InsertAt
  <2> HIDE DEF a, b
  <2>4. /\ ax \in Seq(Items) /\ Len(ax) = k + 1
        /\ \A j \in 1..k : ax[j] = c[j]
        /\ ax[k + 1] = x
    <3>1. <<x>> \in Seq(Items) /\ Len(<<x>>) = 1 /\ <<x>>[1] = x
      OBVIOUS
    <3>2. /\ ax \in Seq(Items) /\ Len(ax) = Len(a) + Len(<<x>>)
          /\ \A j \in 1..Len(a) : ax[j] = a[j]
          /\ \A j \in Len(a) + 1..Len(a) + Len(<<x>>) : ax[j] = <<x>>[j - Len(a)]
      BY <2>1, <3>1, Joined
    <3> HIDE DEF ax
    <3>3. k + 1 \in Len(a) + 1..Len(a) + Len(<<x>>) /\ (k + 1) - Len(a) = 1
      BY <1>5, <2>1, <3>1
    <3> QED BY <2>1, <3>1, <3>2, <3>3
  <2> HIDE DEF ax
  <2>5. /\ q \in Seq(Items) /\ Len(q) = Len(ax) + Len(b)
        /\ \A j \in 1..Len(ax) : q[j] = ax[j]
        /\ \A j \in Len(ax) + 1..Len(ax) + Len(b) : q[j] = b[j - Len(ax)]
    <3>1. ax \in Seq(Items) /\ b \in Seq(Items)
      BY <2>2, <2>4
    <3> QED BY <2>3, <3>1, Joined
  <2>6. Len(q) = l.len + 1
    BY <1>1, <1>5, <2>2, <2>4, <2>5
  <2>7. ASSUME NEW j \in 1..l.len + 1 PROVE q[j] = IF j <= k THEN c[j] ELSE IF j = k + 1 THEN x ELSE c[j - 1]
    <3>1. CASE j <= k
      <4>1. j \in 1..k /\ j \in 1..Len(ax)
        BY <1>5, <2>4, <3>1
      <4> QED BY <2>4, <2>5, <3>1, <4>1
    <3>2. CASE j = k + 1
      <4>1. j \in 1..Len(ax) /\ ~(j <= k)
        BY <1>5, <2>4, <3>2
      <4> QED BY <2>4, <2>5, <3>2, <4>1
    <3>3. CASE j > k + 1
      <4>1. j \in Len(ax) + 1..Len(ax) + Len(b) /\ j - (k + 1) \in 1..l.len - k /\ k + (j - (k + 1)) = j - 1
        BY <1>1, <1>5, <2>2, <2>4, <3>3
      <4>2. q[j] = b[j - (k + 1)]
        BY <2>4, <2>5, <4>1
      <4>3. ~(j <= k) /\ j # k + 1
        BY <1>5, <3>3
      <4> QED BY <2>2, <4>1, <4>2, <4>3
    <3> QED BY <1>5, <3>1, <3>2, <3>3
  <2> QED BY <2>5, <2>6, <2>7
<1>12. \A j \in 1..r.len : r.items[j - 1] = q[j]
  <2> SUFFICES ASSUME NEW j \in 1..r.len PROVE r.items[j - 1] = q[j]
    OBVIOUS
  <2>1. j \in 1..l.len + 1 /\ j - 1 \in 0..g.cap - 1
    BY <1>1, <1>3, <1>4, <1>10
  <2>2. r.items[j - 1] = IF j - 1 = k THEN x ELSE m.items[j - 1]
    BY <1>9, <1>10, <2>1
  <2>3. m.items[j - 1] = IF j - 1 \in k + 1..(k + 1) + (l.len - k) - 1 THEN At(g, ((j - 1) - (k + 1)) + k) ELSE g.items[j - 1]
    BY <1>3, <1>8, <2>1
  <2>4. CASE j <= k
    <3>1. j - 1 # k /\ j - 1 \notin k + 1..(k + 1) + (l.len - k) - 1 /\ j - 1 \in 0..l.len - 1 /\ j \in 1..l.len
      BY <1>1, <1>5, <2>4
    <3>2. r.items[j - 1] = l.items[j - 1]
      BY <1>3, <2>2, <2>3, <3>1
    <3> QED BY <1>2, <1>11, <2>1, <2>4, <3>1, <3>2
  <2>5. CASE j = k + 1
    <3>1. j - 1 = k /\ ~(j <= k)
      BY <1>5, <2>5
    <3> QED BY <1>11, <2>1, <2>2, <2>5, <3>1
  <2>6. CASE j > k + 1
    <3>1. /\ j - 1 # k /\ j - 1 \in k + 1..(k + 1) + (l.len - k) - 1 /\ ((j - 1) - (k + 1)) + k = j - 2
          /\ j - 2 \in 0..l.len - 1 /\ j - 2 \in 0..g.cap - 1 /\ j - 1 \in 1..l.len /\ (j - 1) - 1 = j - 2
          /\ ~(j <= k) /\ j # k + 1
      BY <1>1, <1>3, <1>4, <1>5, <2>1, <2>6
    <3>2. At(g, j - 2) = g.items[j - 2]
      BY <1>4, <3>1, AtFacts
    <3>3. r.items[j - 1] = l.items[j - 2]
      BY <1>3, <2>2, <2>3, <3>1, <3>2
    <3>4. q[j] = c[j - 1] /\ c[j - 1] = l.items[j - 2]
      BY <1>2, <1>11, <2>1, <3>1
    <3> QED BY <3>3, <3>4
  <2>7. j <= k \/ j = k + 1 \/ j > k + 1
    BY <1>5, <2>1
  <2> QED BY <2>4, <2>5, <2>6, <2>7
<1> QED BY <1>1, <1>3, <1>4, <1>10, <1>11, <1>12, Holding DEF r, q, c

(* The elements of src are put behind those that g has. *)
LEMMA AppendAll ==
  ASSUME NEW g, Block(g), NEW p \in Seq(Items), \A j \in 1..Len(p) : g.items[j - 1] = p[j],
         NEW src, Array(src), g.cap >= Len(p) + src.len,
         NEW m, m = Move(g, Len(p), src, 0, src.len),
         NEW r, Block(r), r.len = Len(p) + src.len, r.cap = g.cap, r.items = m.items
  PROVE  Holds(r, p \o Contents(src))
<1> DEFINE c == Contents(src)
           q == p \o c
<1>1. Len(p) \in Nat /\ src.len \in Nat /\ g.cap \in Nat /\ Block(src)
  BY ArrayIsBlock DEF Array, Block
<1>2. c \in Seq(Items) /\ Len(c) = src.len /\ \A j \in 0..src.len - 1 : At(src, j) = c[j + 1]
  BY ContentsFacts
<1> HIDE DEF c
<1>3. \A j \in 0..g.cap - 1 : m.items[j] = IF j \in Len(p)..Len(p) + src.len - 1 THEN At(src, (j - Len(p)) + 0) ELSE g.items[j]
  <2> PICK to : to = Len(p)
    OBVIOUS
  <2> PICK n : n = src.len
    OBVIOUS
  <2>1. to \in Int /\ 0 \in Int /\ n \in Int /\ to = Len(p) /\ n = src.len
    BY <1>1
  <2>2. m = Move(g, to, src, 0, n)
    BY <2>1
  <2>3. Block(g) /\ Block(src)
    BY <1>1
  <2>4. Moved(m, g, to, src, 0, n)
    BY ONLY <2>1, <2>2, <2>3, MoveFacts DEF Moved
  <2>5. \A j \in 0..g.cap - 1 : m.items[j] = IF j \in to..to + n - 1 THEN At(src, (j - to) + 0) ELSE g.items[j]
    BY ONLY <2>4 DEF Moved
  <2> QED BY ONLY <2>1, <2>5
<1>4. /\ q \in Seq(Items) /\ Len(q) = Len(p) + Len(c)
      /\ \A j \in 1..Len(p) : q[j] = p[j]
      /\ \A j \in Len(p) + 1..Len(p) + Len(c) : q[j] = c[j - Len(p)]
  <2>1. q = p \o c
    OBVIOUS
  <2> HIDE DEF q
  <2> QED BY <1>2, <2>1, Joined
<1> HIDE DEF q
<1>5. ASSUME NEW j \in 1..r.len PROVE r.items[j - 1] = q[j]
  <2>1. j - 1 \in 0..g.cap - 1 /\ j \in 1..Len(p) + src.len
    BY <1>1
  <2>2. r.items[j - 1] = IF j - 1 \in Len(p)..Len(p) + src.len - 1 THEN At(src, ((j - 1) - Len(p)) + 0) ELSE g.items[j - 1]
    BY <1>3, <2>1
  <2>3. CASE j <= Len(p)
    <3>1. j - 1 \notin Len(p)..Len(p) + src.len - 1 /\ j \in 1..Len(p)
      BY <1>1, <2>1, <2>3
    <3> QED BY <1>4, <2>2, <3>1
  <2>4. CASE ~(j <= Len(p))
    <3>1. /\ j - 1 \in Len(p)..Len(p) + src.len - 1 /\ ((j - 1) - Len(p)) + 0 \in 0..src.len - 1
          /\ j \in Len(p) + 1..Len(p) + Len(c) /\ (((j - 1) - Len(p)) + 0) + 1 = j - Len(p)
      <4>1. Len(p) \in Nat /\ src.len \in Nat /\ Len(c) = src.len /\ j \in 1..Len(p) + src.len
        BY <1>1, <1>2, <2>1
      <4> PICK a : a = Len(p)
        OBVIOUS
      <4> PICK b : b = src.len
        OBVIOUS
      <4>2. a \in Nat /\ b \in Nat /\ j \in 1..a + b /\ ~(j <= a)
        BY <2>4, <4>1
      <4>3. /\ j - 1 \in a..a + b - 1 /\ ((j - 1) - a) + 0 \in 0..b - 1
            /\ j \in a + 1..a + b /\ (((j - 1) - a) + 0) + 1 = j - a
        BY ONLY <4>2
      <4> QED BY <4>1, <4>3
    <3>2. r.items[j - 1] = c[(((j - 1) - Len(p)) + 0) + 1]
      BY <1>2, <2>2, <3>1
    <3> QED BY <1>4, <3>1, <3>2
  <2> QED BY <2>3, <2>4
<1>6. r.len <= r.cap /\ q \in Seq(Items) /\ Len(q) = r.len
  BY <1>2, <1>4
<1>7. Holds(r, q)
  BY <1>5, <1>6, Holding
<1> QED BY <1>7 DEF q, c

LEMMA ExtendHolds ==
  ASSUME ListAssumption, NEW v \in Objs, NEW o \in Objs, Array(lists[v]), Array(lists[o])
  PROVE  Holds(msListExtend(v, o), Contents(lists[v]) \o Contents(lists[o]))
<1> DEFINE l == listEnsureCap(lists[v], lists[v].len + lists[o].len)
           src == IF v = o THEN l ELSE lists[o]
           m == Move(l, l.len, src, 0, src.len)
           r == msListExtend(v, o)
           p == Contents(lists[v])
<1>1. lists[v].len + lists[o].len \in Nat
  BY DEF Array
<1>2. r = Longer(m, src.len)
  BY DEF msListExtend
<1> HIDE DEF l, r
<1>3. /\ Array(l) /\ l.len = lists[v].len /\ l.cap >= lists[v].len + lists[o].len
      /\ \A k \in 0..l.len - 1 : l.items[k] = lists[v].items[k]
  <2>1. l = listEnsureCap(lists[v], lists[v].len + lists[o].len)
    BY DEF l
  <2> DEFINE d == lists[v]
             n == lists[v].len + lists[o].len
  <2>2. Array(d) /\ n \in Nat /\ l = listEnsureCap(d, n)
    BY <1>1, <2>1
  <2> HIDE DEF d, n
  <2>3. Ensured(l, d, n)
    BY <2>2, EnsureFacts
  <2> QED BY <2>3 DEF Ensured, d, n
<1>4. p \in Seq(Items) /\ Len(p) = lists[v].len /\ \A j \in 1..lists[v].len : p[j] = lists[v].items[j - 1]
  BY ContentsFacts
<1>5. \A j \in 1..Len(p) : l.items[j - 1] = p[j]
  <2> SUFFICES ASSUME NEW j \in 1..Len(p) PROVE l.items[j - 1] = p[j]
    OBVIOUS
  <2>1. j - 1 \in 0..l.len - 1 /\ j \in 1..lists[v].len
    BY <1>3, <1>4 DEF Array
  <2> QED BY <1>3, <1>4, <2>1
<1>6. Contents(l) = p
  <2>1. Contents(l) \in Seq(Items) /\ Len(Contents(l)) = l.len /\ \A j \in 1..l.len : Contents(l)[j] = l.items[j - 1]
    BY <1>3, ContentsFacts
  <2> HIDE DEF p
  <2> QED BY <1>3, <1>4, <1>5, <2>1
<1>7. Array(src) /\ Contents(src) = Contents(lists[o]) /\ src.len = lists[o].len
  BY <1>3, <1>6
<1> HIDE DEF p, src
<1>8. Block(l) /\ Block(src) /\ l.len \in Nat /\ src.len \in Nat
  BY <1>3, <1>7, ArrayIsBlock DEF Block
<1>9. Block(m) /\ m.len = l.len /\ m.cap = l.cap
  BY <1>8, MoveFacts
<1>10. Block(r) /\ r.len = l.len + src.len /\ r.cap = l.cap /\ r.items = m.items
  <2> HIDE DEF m
  <2>1. m.len + src.len \in Nat /\ src.len \in Int
    BY <1>8, <1>9
  <2> QED BY <1>2, <1>9, <2>1, LongerFacts
<1>11. m = Move(l, Len(p), src, 0, src.len)
  BY <1>3, <1>4
<1> HIDE DEF m
<1>12. Holds(r, p \o Contents(src))
  <2>1. l.cap >= Len(p) + src.len /\ r.len = Len(p) + src.len
    BY <1>3, <1>4, <1>7, <1>10
  <2> QED BY <1>4, <1>5, <1>7, <1>8, <1>10, <1>11, <2>1, AppendAll
<1> QED BY <1>7, <1>12 DEF r, p

LEMMA CopyHolds ==
  ASSUME NEW l, Array(l)
  PROVE  Holds(msListCopy(l), Contents(l))
<1> DEFINE g == New(l.len)
           m == Move(g, 0, l, 0, l.len)
           r == msListCopy(l)
           p == <<>>
<1>1. l.len \in Nat /\ Contents(l) \in Seq(Items)
  BY ContentsFacts DEF Array
<1>2. Block(g) /\ g.len = 0 /\ g.cap = l.len
  BY <1>1, NewFacts
<1>3. r = Longer(m, l.len)
  BY DEF msListCopy
<1>4. p \in Seq(Items) /\ Len(p) = 0 /\ p \o Contents(l) = Contents(l)
  BY <1>1
<1> HIDE DEF g, r, p
<1>5. m = Move(g, Len(p), l, 0, l.len)
  BY <1>4
<1>6. Block(m) /\ m.len = 0 /\ m.cap = l.len
  BY <1>1, <1>2, ArrayIsBlock, MoveFacts
<1> HIDE DEF m
<1>7. Block(r) /\ r.len = l.len /\ r.cap = l.len /\ r.items = m.items
  <2>1. m.len + l.len \in Nat /\ m.len + l.len = l.len /\ l.len \in Int
    BY <1>1, <1>6
  <2> QED BY <1>3, <1>6, <2>1, LongerFacts
<1>8. \A j \in 1..Len(p) : g.items[j - 1] = p[j]
  BY <1>4
<1>9. Holds(r, p \o Contents(l))
  <2>1. g.cap >= Len(p) + l.len /\ r.len = Len(p) + l.len /\ r.cap = g.cap
    BY <1>1, <1>2, <1>4, <1>7
  <2> QED BY <1>2, <1>4, <1>5, <1>7, <1>8, <2>1, AppendAll
<1> QED BY <1>4, <1>9 DEF r

LEMMA ConcatHolds ==
  ASSUME NEW a, NEW b, Array(a), Array(b)
  PROVE  Holds(listConcat(a, b), Contents(a) \o Contents(b))
<1> DEFINE g == New(a.len + b.len)
           h == Move(g, 0, a, 0, a.len)
           m == Move(h, a.len, b, 0, b.len)
           r == listConcat(a, b)
           p == Contents(a)
<1>1. a.len \in Nat /\ b.len \in Nat /\ Block(a) /\ Block(b)
  BY ArrayIsBlock DEF Array
<1>2. p \in Seq(Items) /\ Len(p) = a.len /\ \A j \in 0..a.len - 1 : At(a, j) = p[j + 1]
  <2>1. /\ Contents(a) \in Seq(Items) /\ Len(Contents(a)) = a.len
        /\ \A j \in 0..a.len - 1 : At(a, j) = a.items[j] /\ Contents(a)[j + 1] = a.items[j]
    BY ContentsFacts
  <2> QED BY <2>1
<1>3. Block(g) /\ g.len = 0 /\ g.cap = a.len + b.len
  <2>1. a.len + b.len \in Nat
    BY <1>1
  <2> QED BY <2>1, NewFacts
<1>4. r = Longer(m, a.len + b.len)
  BY DEF listConcat
<1> HIDE DEF g, r, p
<1>5. /\ Block(h) /\ h.len = 0 /\ h.cap = a.len + b.len
      /\ \A j \in 0..g.cap - 1 : h.items[j] = IF j \in 0..0 + a.len - 1 THEN At(a, (j - 0) + 0) ELSE g.items[j]
  BY <1>1, <1>3, MoveFacts
<1>6. \A j \in 1..Len(p) : h.items[j - 1] = p[j]
  <2> SUFFICES ASSUME NEW j \in 1..Len(p) PROVE h.items[j - 1] = p[j]
    OBVIOUS
  <2>1. j - 1 \in 0..g.cap - 1 /\ j - 1 \in 0..0 + a.len - 1 /\ ((j - 1) - 0) + 0 = j - 1 /\ (j - 1) + 1 = j
    BY <1>1, <1>2, <1>3
  <2> QED BY <1>2, <1>5, <2>1
<1> HIDE DEF h
<1>7. Block(m) /\ m.len = 0 /\ m.cap = a.len + b.len
  BY <1>1, <1>5, MoveFacts
<1>8. m = Move(h, Len(p), b, 0, b.len)
  BY <1>2
<1> HIDE DEF m
<1>9. Block(r) /\ r.len = a.len + b.len /\ r.cap = a.len + b.len /\ r.items = m.items
  <2>1. a.len + b.len \in Nat
    BY <1>1
  <2> QED BY <1>4, <1>7, <2>1, LongerFacts
<1>10. Holds(r, p \o Contents(b))
  <2>1. h.cap >= Len(p) + b.len /\ r.len = Len(p) + b.len /\ r.cap = h.cap
    BY <1>1, <1>2, <1>5, <1>9
  <2> QED BY <1>2, <1>5, <1>6, <1>8, <1>9, <2>1, AppendAll
<1> QED BY <1>10 DEF r, p

LEMMA RepeatHolds ==
  ASSUME NEW l, Array(l), NEW n \in Int
  PROVE  IF n <= 0 \/ l.len = 0 THEN Holds(listRepeat(l, n), <<>>)
                                 ELSE Holds(listRepeat(l, n), Abstract!Repeated(Contents(l), n))
<1> DEFINE c == Contents(l)
           size == l.len * n
           g == New(size)
           e == [k \in DOMAIN g.items |-> At(l, k % l.len)]
           m == [g EXCEPT !.items = e]
           r == listRepeat(l, n)
           q == Abstract!Repeated(c, n)
<1>1. CASE n <= 0 \/ l.len = 0
  <2>1. r = New(0)
    BY <1>1 DEF listRepeat
  <2> HIDE DEF r
  <2> QED BY <1>1, <2>1, NewHolds DEF r
<1>2. CASE ~(n <= 0 \/ l.len = 0)
  <2>1. l.len \in Nat \ {0} /\ n \in Nat \ {0}
    BY <1>2 DEF Array
  <2>2. size \in Nat
    BY <2>1
  <2>3. c \in Seq(Items) /\ Len(c) = l.len /\ \A j \in 0..l.len - 1 : At(l, j) = c[j + 1] /\ At(l, j) \in Items
    <3>1. /\ Contents(l) \in Seq(Items) /\ Len(Contents(l)) = l.len
          /\ \A j \in 0..l.len - 1 : At(l, j) = l.items[j] /\ At(l, j) \in Items /\ Contents(l)[j + 1] = l.items[j]
      BY ContentsFacts
    <3> QED BY <3>1
  <2>4. r = Longer(m, size)
    BY <1>2 DEF listRepeat
  <2> HIDE DEF c, size, g, r
  <2>5. Block(g) /\ g.len = 0 /\ g.cap = size /\ DOMAIN g.items = 0..size - 1
    <3>1. Block(g) /\ g.len = 0 /\ g.cap = size
      BY <2>2, NewFacts DEF g
    <3> QED BY <3>1 DEF Block
  <2>6. \A k \in Nat : k % l.len \in 0..l.len - 1
    BY <2>1
  <2>7. /\ e \in [0..g.cap - 1 -> Items \cup {Junk}]
        /\ \A k \in 0..size - 1 : e[k] = c[(k % l.len) + 1] /\ e[k] \in Items
    <3>1. \A k \in 0..size - 1 : At(l, k % l.len) = c[(k % l.len) + 1] /\ At(l, k % l.len) \in Items
      <4> SUFFICES ASSUME NEW k \in 0..size - 1
                   PROVE  At(l, k % l.len) = c[(k % l.len) + 1] /\ At(l, k % l.len) \in Items
        OBVIOUS
      <4>1. k % l.len \in 0..l.len - 1
        BY <2>2, <2>6
      <4> QED BY <2>3, <4>1
    <3> QED BY <2>5, <3>1
  <2> HIDE DEF e
  <2>8. Block(m) /\ m.len = 0 /\ m.cap = size /\ m.items = e
    BY <2>5, <2>7, Rebuilt
  <2> HIDE DEF m
  <2>9. Block(r) /\ r.len = size /\ r.cap = size /\ r.items = e
    <3>1. m.len + size \in Nat /\ m.len + size = size /\ size \in Int
      BY <2>2, <2>8
    <3> QED BY <2>4, <2>8, <3>1, LongerFacts
  <2>10. q = [j \in 1..size |-> c[((j - 1) % l.len) + 1]]
    BY <2>3 DEF Abstract!Repeated, size
  <2>11. \A j \in 1..size : j - 1 \in 0..size - 1 /\ e[j - 1] = c[((j - 1) % l.len) + 1] /\ c[((j - 1) % l.len) + 1] \in Items
    <3> SUFFICES ASSUME NEW j \in 1..size
                 PROVE  j - 1 \in 0..size - 1 /\ e[j - 1] = c[((j - 1) % l.len) + 1] /\ c[((j - 1) % l.len) + 1] \in Items
      OBVIOUS
    <3>1. j - 1 \in 0..size - 1
      BY <2>2
    <3> QED BY <2>7, <3>1
  <2> HIDE DEF q
  <2>12. q \in Seq(Items) /\ Len(q) = size /\ \A j \in 1..size : r.items[j - 1] = q[j]
    <3>1. q \in [1..size -> Items]
      BY <2>10, <2>11
    <3> QED BY <2>2, <2>9, <2>10, <2>11, <3>1
  <2>13. Holds(r, q)
    BY <2>2, <2>9, <2>12, Holding
  <2> QED BY <1>2, <2>13 DEF r, q, c
<1> QED BY <1>1, <1>2

(* An injection of the positions into themselves is a permutation. *)
LEMMA Permutes ==
  ASSUME NEW n \in Nat, NEW f \in [1..n -> 1..n], \A a, b \in 1..n : f[a] = f[b] => a = b
  PROVE  f \in Abstract!Bijection(1..n, 1..n)
<1>1. f \in Injection(1..n, 1..n)
  BY DEF Injection, IsInjective
<1>2. IsFiniteSet(1..n)
  BY FS_Interval
<1>3. f \in Surjection(1..n, 1..n)
  BY <1>1, <1>2, FS_Injection
<1>4. \A t \in 1..n : \E s \in 1..n : f[s] = t
  BY <1>3 DEF Surjection
<1> QED BY <1>4 DEF Abstract!Bijection, Abstract!Injection, Abstract!IsInjective, Abstract!Surjection

LEMMA SortHolds ==
  ASSUME ListAssumption, NEW l, Array(l), NEW reverse \in BOOLEAN, NEW r \in msListSort(l, reverse)
  PROVE  \E t \in Abstract!Sorted(Contents(l)) : Holds(r, t) \/ Holds(r, Abstract!Reverse(t))
<1> DEFINE c == Contents(l)
           N == l.len
           Perms == {p \in [0..l.len - 1 -> 0..l.len - 1] :
                       /\ \A a, b \in 0..l.len - 1 : p[a] = p[b] => a = b
                       /\ \A a \in 0..l.len - 2 : IF reverse THEN At(l, p[a]) >= At(l, p[a + 1])
                                                            ELSE At(l, p[a]) <= At(l, p[a + 1])}
           F(p) == [k \in DOMAIN l.items |-> IF k < l.len THEN At(l, p[k]) ELSE l.items[k]]
<1>1. N \in Nat /\ l.len = N /\ l.cap \in Nat /\ N <= l.cap /\ Block(l) /\ DOMAIN l.items = 0..l.cap - 1
  BY ArrayIsBlock DEF Array
<1>2. c \in Seq(Items) /\ Len(c) = N /\ \A j \in 0..N - 1 : At(l, j) = c[j + 1] /\ At(l, j) \in Items
  <2>1. /\ Contents(l) \in Seq(Items) /\ Len(Contents(l)) = l.len
        /\ \A j \in 0..l.len - 1 : At(l, j) = l.items[j] /\ At(l, j) \in Items /\ Contents(l)[j + 1] = l.items[j]
    BY ContentsFacts
  <2> QED BY <2>1
<1>3. PICK p \in Perms : r = [l EXCEPT !.items = F(p)]
  BY DEF msListSort
<1>4. /\ p \in [0..N - 1 -> 0..N - 1]
      /\ \A a, b \in 0..N - 1 : p[a] = p[b] => a = b
      /\ \A a \in 0..N - 2 : IF reverse THEN At(l, p[a]) >= At(l, p[a + 1]) ELSE At(l, p[a]) <= At(l, p[a + 1])
  BY <1>3
<1> DEFINE e == F(p)
<1>5. e \in [0..l.cap - 1 -> Items \cup {Junk}] /\ \A k \in 0..N - 1 : e[k] = c[p[k] + 1]
  <2>1. \A k \in 0..N - 1 : At(l, p[k]) = c[p[k] + 1] /\ At(l, p[k]) \in Items
    BY <1>2, <1>4
  <2>2. \A k \in 0..l.cap - 1 : l.items[k] \in Items \cup {Junk}
    BY DEF Array
  <2> QED BY <1>1, <2>1, <2>2
<1>6. r = [l EXCEPT !.items = e]
  BY <1>3
<1> HIDE DEF e, c, Perms, N
<1>7. Block(r) /\ r.len = N /\ r.cap = l.cap /\ r.items = e
  BY <1>1, <1>5, <1>6, Rebuilt
<1> DEFINE w == [j \in 1..N |-> c[p[j - 1] + 1]]
<1>8. \A j \in 1..N : j - 1 \in 0..N - 1 /\ p[j - 1] + 1 \in 1..N /\ c[p[j - 1] + 1] \in Items
  <2> SUFFICES ASSUME NEW j \in 1..N PROVE j - 1 \in 0..N - 1 /\ p[j - 1] + 1 \in 1..N /\ c[p[j - 1] + 1] \in Items
    OBVIOUS
  <2>1. j - 1 \in 0..N - 1
    BY <1>1
  <2>2. p[j - 1] \in 0..N - 1
    BY <1>4, <2>1
  <2>3. p[j - 1] + 1 \in 1..N
    BY <1>1, <2>2
  <2> QED BY <1>2, <2>1, <2>3
<1>9. w \in Seq(Items) /\ Len(w) = N /\ DOMAIN w = 1..N
  <2>1. w \in [1..N -> Items]
    BY <1>8
  <2> QED BY <1>1, <2>1
<1>10. Holds(r, w)
  <2>1. \A j \in 1..r.len : r.items[j - 1] = w[j]
    BY <1>5, <1>7, <1>8
  <2> HIDE DEF w
  <2> QED BY <1>1, <1>7, <1>9, <2>1, Holding
<1>11. CASE ~reverse
  <2> DEFINE f == [j \in 1..N |-> p[j - 1] + 1]
  <2>1. f \in [1..N -> 1..N]
    BY <1>8
  <2>2. \A a, b \in 1..N : f[a] = f[b] => a = b
    <3> SUFFICES ASSUME NEW a \in 1..N, NEW b \in 1..N, f[a] = f[b] PROVE a = b
      OBVIOUS
    <3> DEFINE x == p[a - 1]
               y == p[b - 1]
    <3>3. a - 1 \in 0..N - 1 /\ b - 1 \in 0..N - 1
      BY <1>8
    <3>4. x \in 0..N - 1 /\ y \in 0..N - 1
      BY <1>4, <3>3
    <3>5. f[a] = x + 1 /\ f[b] = y + 1
      OBVIOUS
    <3>1. p[a - 1] = p[b - 1]
      <4> HIDE DEF x, y, f
      <4>2. x \in Int /\ y \in Int
        BY <1>1, <3>4
      <4>3. x + 1 = y + 1
        BY <3>5
      <4>1. x = y
        BY <4>2, <4>3
      <4> QED BY <4>1 DEF x, y
    <3>2. a - 1 = b - 1
      BY <1>4, <1>8, <3>1
    <3> QED BY <3>2
  <2>3. f \in Abstract!Bijection(1..N, 1..N)
    <3> HIDE DEF f
    <3> QED BY <1>1, <2>1, <2>2, Permutes
  <2>4. w = [j \in 1..N |-> c[f[j]]]
    OBVIOUS
  <2>5. ASSUME NEW j \in 1..Len(w) - 1 PROVE w[j] <= w[j + 1]
    <3>1. j \in 1..N /\ j + 1 \in 1..N /\ j - 1 \in 0..N - 2 /\ (j - 1) + 1 = j /\ (j + 1) - 1 = j
      BY <1>1, <1>9
    <3>2. At(l, p[j - 1]) <= At(l, p[j])
      BY <1>4, <1>11, <3>1
    <3>3. p[j - 1] \in 0..N - 1 /\ p[j] \in 0..N - 1
      BY <1>1, <1>4, <3>1
    <3>4. w[j] = c[p[j - 1] + 1] /\ w[j + 1] = c[p[j] + 1]
      BY <3>1
    <3> HIDE DEF w
    <3> QED BY <1>2, <3>2, <3>3, <3>4
  <2>6. DOMAIN c = 1..N
    BY <1>2
  <2>7. w \in {[j \in DOMAIN c |-> c[g[j]]] : g \in Abstract!Bijection(DOMAIN c, DOMAIN c)}
    <3> HIDE DEF f, w
    <3> QED BY <2>3, <2>4, <2>6
  <2>8. w \in Abstract!Sorted(c)
    <3> HIDE DEF w
    <3>1. \A j \in 1..Len(w) - 1 : w[j] <= w[j + 1]
      BY <2>5
    <3> QED BY <2>7, <3>1 DEF Abstract!Sorted
  <2> QED BY <1>10, <2>8 DEF c
<1>12. CASE reverse
  <2> DEFINE f == [j \in 1..N |-> p[N - j] + 1]
             t == [j \in 1..N |-> c[f[j]]]
  <2>1. \A j \in 1..N : N - j \in 0..N - 1 /\ p[N - j] \in 0..N - 1 /\ p[N - j] + 1 \in 1..N
    <3> SUFFICES ASSUME NEW j \in 1..N PROVE N - j \in 0..N - 1 /\ p[N - j] \in 0..N - 1 /\ p[N - j] + 1 \in 1..N
      OBVIOUS
    <3>1. N - j \in 0..N - 1
      BY <1>1
    <3>2. p[N - j] \in 0..N - 1
      BY <1>4, <3>1
    <3> QED BY <1>1, <3>1, <3>2
  <2>2. f \in [1..N -> 1..N]
    BY <2>1
  <2>3. \A a, b \in 1..N : f[a] = f[b] => a = b
    <3> SUFFICES ASSUME NEW a \in 1..N, NEW b \in 1..N, f[a] = f[b] PROVE a = b
      OBVIOUS
    <3>1. p[N - a] = p[N - b]
      BY <2>1
    <3>2. N - a = N - b
      BY <1>4, <2>1, <3>1
    <3> QED BY <1>1, <3>2
  <2>4. f \in Abstract!Bijection(1..N, 1..N)
    <3> HIDE DEF f
    <3> QED BY <1>1, <2>2, <2>3, Permutes
  <2>5. \A j \in 1..N : t[j] = c[p[N - j] + 1] /\ t[j] = At(l, p[N - j]) /\ t[j] \in Items
    <3> SUFFICES ASSUME NEW j \in 1..N PROVE t[j] = c[p[N - j] + 1] /\ t[j] = At(l, p[N - j]) /\ t[j] \in Items
      OBVIOUS
    <3>1. t[j] = c[p[N - j] + 1]
      OBVIOUS
    <3> HIDE DEF t
    <3> QED BY <1>2, <2>1, <3>1
  <2>6. DOMAIN t = 1..N /\ Len(t) = N /\ t \in Seq(Items)
    <3>1. t \in [1..N -> Items]
      BY <2>5
    <3> QED BY <1>1, <3>1
  <2>7. ASSUME NEW j \in 1..Len(t) - 1 PROVE t[j] <= t[j + 1]
    <3>1. j \in 1..N /\ j + 1 \in 1..N /\ N - (j + 1) \in 0..N - 2 /\ (N - (j + 1)) + 1 = N - j
      BY <1>1, <2>6
    <3>2. At(l, p[N - (j + 1)]) >= At(l, p[N - j])
      BY <1>4, <1>12, <3>1
    <3>3. t[j] = At(l, p[N - j]) /\ t[j + 1] = At(l, p[N - (j + 1)]) /\ t[j] \in Int /\ t[j + 1] \in Int
      BY <2>5, <3>1 DEF ListAssumption
    <3> HIDE DEF t
    <3> QED BY <3>2, <3>3
  <2>8. DOMAIN c = 1..N
    BY <1>2
  <2>9. t \in {[j \in DOMAIN c |-> c[g[j]]] : g \in Abstract!Bijection(DOMAIN c, DOMAIN c)}
    <3>1. t = [j \in 1..N |-> c[f[j]]]
      OBVIOUS
    <3> HIDE DEF f, t
    <3> QED BY <2>4, <2>8, <3>1
  <2>10. t \in Abstract!Sorted(c)
    <3> HIDE DEF t
    <3>1. \A j \in 1..Len(t) - 1 : t[j] <= t[j + 1]
      BY <2>7
    <3> QED BY <2>9, <3>1 DEF Abstract!Sorted
  <2>11. Abstract!Reverse(t) = w
    <3>1. Abstract!Reverse(t) = [i \in 1..N |-> t[(N - i) + 1]]
      <4> HIDE DEF t
      <4> QED BY <2>6 DEF Abstract!Reverse
    <3>2. \A i \in 1..N : (N - i) + 1 \in 1..N /\ N - ((N - i) + 1) = i - 1
      BY <1>1
    <3>3. \A i \in 1..N : t[(N - i) + 1] = c[p[i - 1] + 1]
      BY <2>5, <3>2
    <3> HIDE DEF t
    <3> QED BY <3>1, <3>3
  <2> QED BY <1>10, <2>10, <2>11 DEF c
<1> QED BY <1>11, <1>12

----------------------------------------------------------------------------
(* The loop. *)

Rest(v, k) == [j \in 1..lists[v].len - k |-> Contents(lists[v])[k + j]]

ArraysInv == lists \in [Objs -> Records] /\ \A v \in Objs : Array(lists[v])

(* `due' is what the list holds from the iterator's index on. *)
LoopInv ==
  \/ iter = NoIter
  \/ /\ iter \in [list : Objs, idx : Nat]
     /\ iter.idx <= lists[iter.list].len
     /\ due = Rest(iter.list, iter.idx)

ListInv == ArraysInv /\ LoopInv

LEMMA RestFacts ==
  ASSUME ArraysInv, NEW v \in Objs, NEW k \in 0..lists[v].len
  PROVE  /\ Rest(v, k) \in Seq(Items) /\ Len(Rest(v, k)) = lists[v].len - k
         /\ \A j \in 1..lists[v].len - k : Rest(v, k)[j] = Contents(lists[v])[k + j]
<1> DEFINE l == lists[v]
<1>1. Array(l)
  BY DEF ArraysInv
<1>2. l.len \in Nat
  BY <1>1 DEF Array
<1>3. Contents(l) \in Seq(Items) /\ Len(Contents(l)) = l.len
  BY <1>1, ContentsFacts
<1> HIDE DEF l
<1>4. k \in 0..l.len
  BY DEF l
<1>5. Rest(v, k) = [j \in 1..l.len - k |-> Contents(l)[k + j]]
  BY DEF Rest, l
<1>6. \A j \in 1..l.len - k : Contents(l)[k + j] \in Items
  BY <1>2, <1>3, <1>4
<1>7. Rest(v, k) \in [1..l.len - k -> Items]
  BY <1>5, <1>6
<1>8. Rest(v, k) \in Seq(Items) /\ Len(Rest(v, k)) = l.len - k
  BY <1>2, <1>4, <1>7
<1> QED BY <1>5, <1>8 DEF l

Seqs == [o \in Objs |-> Contents(lists[o])]

(* A step that leaves an array holding q in v. *)
LEMMA Changed ==
  ASSUME ArraysInv, NEW v \in Objs, NEW r, NEW q, Becomes(v, r), Holds(r, q)
  PROVE  /\ ArraysInv' /\ lists'[v] = r /\ \A o \in Objs \ {v} : lists'[o] = lists[o]
         /\ Seqs' = [Seqs EXCEPT ![v] = q]
<1>1. lists' = [lists EXCEPT ![v] = r] /\ Array(r) /\ r \in Records /\ Contents(r) = q
  BY DEF Becomes, Holds, Array
<1>2. lists' \in [Objs -> Records] /\ lists'[v] = r /\ \A o \in Objs \ {v} : lists'[o] = lists[o]
  BY <1>1 DEF ArraysInv
<1>3. ArraysInv'
  BY <1>1, <1>2 DEF ArraysInv
<1>4. \A o \in Objs : Contents(lists'[o]) = IF o = v THEN q ELSE Contents(lists[o])
  BY <1>1, <1>2
<1>5. Seqs' = [Seqs EXCEPT ![v] = q]
  BY <1>4 DEF Seqs
<1> QED BY <1>2, <1>3, <1>5

(* The loop's list is not v. *)
LEMMA LoopUndisturbed ==
  ASSUME ListInv, NEW v \in Objs, Undisturbed(v), \A o \in Objs \ {v} : lists'[o] = lists[o]
  PROVE  LoopInv'
<1>1. iter' = iter /\ due' = due /\ iter.list # v
  BY DEF Undisturbed
<1>2. CASE iter = NoIter
  BY <1>1, <1>2 DEF LoopInv, NoIter
<1>3. CASE iter # NoIter
  <2>1. iter \in [list : Objs, idx : Nat] /\ iter.idx <= lists[iter.list].len /\ due = Rest(iter.list, iter.idx)
    BY <1>3 DEF ListInv, LoopInv
  <2>2. lists'[iter.list] = lists[iter.list]
    BY <1>1, <2>1
  <2>3. Rest(iter.list, iter.idx)' = Rest(iter.list, iter.idx)
    BY <1>1, <2>2 DEF Rest
  <2> QED BY <1>1, <2>1, <2>2, <2>3 DEF LoopInv
<1> QED BY <1>2, <1>3

(* What a step does to the lists: v alone is another, and its array sound. *)
Only(v) == ArraysInv' /\ \A o \in Objs \ {v} : lists'[o] = lists[o]

(* Each method takes v to what a sequence's method makes of its contents. *)
LEMMA ChangesStep ==
  ASSUME ListAssumption, ArraysInv, NEW v \in Objs, Changes(v)
  PROVE  Only(v) /\ Abstract!Change(v)
<1> DEFINE l == lists[v]
           c == Contents(l)
<1>1. Array(l) /\ l.len \in Nat /\ c \in Seq(Items) /\ Len(c) = l.len
  BY ContentsFacts DEF ArraysInv, Array
<1>2. Seqs[v] = c /\ \A o \in Objs : Seqs[o] = Contents(lists[o])
  BY DEF Seqs
<1>3. ASSUME NEW r, NEW q, Becomes(v, r), Holds(r, q)
      PROVE  Only(v) /\ Seqs' = [Seqs EXCEPT ![v] = q]
  BY <1>3, Changed DEF Only
<1> HIDE DEF l, c
<1>4. ASSUME NEW i \in -l.len - 1..l.len + 1, NEW x \in Items, Becomes(v, msListInsert(l, i, x))
      PROVE  Only(v) /\ Abstract!Change(v)
  <2>1. Holds(msListInsert(l, i, x), Abstract!Inserted(c, i, x))
    BY <1>1, <1>4, InsertHolds DEF c
  <2>2. Only(v) /\ Seqs' = [Seqs EXCEPT ![v] = Abstract!Inserted(c, i, x)]
    BY <1>3, <1>4, <2>1
  <2>3. i \in -Len(Seqs[v]) - 1..Len(Seqs[v]) + 1
    BY <1>1, <1>2, <1>4
  <2> QED BY <1>2, <2>2, <2>3 DEF Abstract!Change, Seqs
<1>5. ASSUME NEW i \in -l.len..l.len - 1, Becomes(v, msListPop(l, i))
      PROVE  Only(v) /\ Abstract!Change(v)
  <2>1. Holds(msListPop(l, i), Abstract!Popped(c, i))
    BY <1>1, <1>5, PopHolds DEF c
  <2>2. Only(v) /\ Seqs' = [Seqs EXCEPT ![v] = Abstract!Popped(c, i)]
    BY <1>3, <1>5, <2>1
  <2>3. i \in -Len(Seqs[v])..Len(Seqs[v])
    BY <1>1, <1>2, <1>5
  <2> QED BY <1>2, <2>2, <2>3 DEF Abstract!Change, Seqs
<1>6. ASSUME NEW x \in Items, Becomes(v, msListRemove(l, x))
      PROVE  Only(v) /\ Abstract!Change(v)
  <2>1. Holds(msListRemove(l, x), Abstract!RemoveFirst(c, x))
    BY <1>1, RemoveFirstHolds DEF c
  <2>2. Only(v) /\ Seqs' = [Seqs EXCEPT ![v] = Abstract!RemoveFirst(c, x)]
    BY <1>3, <1>6, <2>1
  <2> QED BY <1>2, <2>2 DEF Abstract!Change, Seqs
<1>7. ASSUME Becomes(v, msListReverse(l)) PROVE Only(v) /\ Abstract!Change(v)
  <2>1. Holds(msListReverse(l), Abstract!Reverse(c))
    BY <1>1, ReverseHolds DEF c
  <2>2. Only(v) /\ Seqs' = [Seqs EXCEPT ![v] = Abstract!Reverse(c)]
    BY <1>3, <1>7, <2>1
  <2> QED BY <1>2, <2>2 DEF Abstract!Change, Seqs
<1>8. ASSUME Becomes(v, msListClear(l)) PROVE Only(v) /\ Abstract!Change(v)
  <2>1. Only(v) /\ Seqs' = [Seqs EXCEPT ![v] = <<>>]
    BY <1>1, <1>3, <1>8, ClearHolds
  <2> QED BY <2>1 DEF Abstract!Change, Seqs
<1>9. ASSUME NEW reverse \in BOOLEAN, NEW r \in msListSort(l, reverse), Becomes(v, r)
      PROVE  Only(v) /\ Abstract!Change(v)
  <2>1. PICK t \in Abstract!Sorted(c) : Holds(r, t) \/ Holds(r, Abstract!Reverse(t))
    BY <1>1, SortHolds DEF c
  <2>2. Only(v) /\ (Seqs' = [Seqs EXCEPT ![v] = t] \/ Seqs' = [Seqs EXCEPT ![v] = Abstract!Reverse(t)])
    BY <1>3, <1>9, <2>1
  <2> QED BY <1>2, <2>1, <2>2 DEF Abstract!Change, Seqs
<1>10. ASSUME NEW o \in Objs, Becomes(v, msListExtend(v, o)) PROVE Only(v) /\ Abstract!Change(v)
  <2>1. Array(lists[v]) /\ Array(lists[o])
    BY DEF ArraysInv
  <2>2. Holds(msListExtend(v, o), Contents(lists[v]) \o Contents(lists[o]))
    BY <2>1, ExtendHolds
  <2>3. Only(v) /\ Seqs' = [Seqs EXCEPT ![v] = Seqs[v] \o Seqs[o]]
    BY <1>2, <1>3, <1>10, <2>2 DEF c, l
  <2> QED BY <2>3 DEF Abstract!Change, Seqs
<1> QED BY <1>4, <1>5, <1>6, <1>7, <1>8, <1>9, <1>10 DEF Changes, l

LEMMA CreatesStep ==
  ASSUME ListAssumption, ArraysInv, NEW v \in Objs, Creates(v)
  PROVE  Only(v) /\ Abstract!Create(v)
<1>1. \A o \in Objs : Array(lists[o]) /\ Seqs[o] = Contents(lists[o])
  BY DEF ArraysInv, Seqs
<1>2. ASSUME NEW r, NEW q, Becomes(v, r), Holds(r, q)
      PROVE  Only(v) /\ Seqs' = [Seqs EXCEPT ![v] = q]
  BY <1>2, Changed DEF Only
<1>3. ASSUME NEW r, Becomes(v, r), Holds(r, <<>>) PROVE Only(v) /\ Abstract!Create(v)
  <2>1. Only(v) /\ Seqs' = [Seqs EXCEPT ![v] = <<>>]
    BY <1>2, <1>3
  <2> QED BY <2>1 DEF Abstract!Create, Seqs
<1>4. ASSUME NEW initCap \in 0..1, Becomes(v, New(initCap)) PROVE Only(v) /\ Abstract!Create(v)
  BY <1>3, <1>4, NewHolds
<1>5. ASSUME NEW a \in Objs, NEW b \in Objs, Becomes(v, listConcat(lists[a], lists[b]))
      PROVE  Only(v) /\ Abstract!Create(v)
  <2>1. Holds(listConcat(lists[a], lists[b]), Contents(lists[a]) \o Contents(lists[b]))
    BY <1>1, ConcatHolds
  <2>2. Only(v) /\ Seqs' = [Seqs EXCEPT ![v] = Seqs[a] \o Seqs[b]]
    BY <1>1, <1>2, <1>5, <2>1
  <2> QED BY <2>2 DEF Abstract!Create, Seqs
<1>6. ASSUME NEW a \in Objs, NEW n \in -1..2, Becomes(v, listRepeat(lists[a], n))
      PROVE  Only(v) /\ Abstract!Create(v)
  <2>1. CASE Holds(listRepeat(lists[a], n), <<>>)
    BY <1>3, <1>6, <2>1
  <2>2. CASE n > 0 /\ Holds(listRepeat(lists[a], n), Abstract!Repeated(Contents(lists[a]), n))
    <3>1. Only(v) /\ Seqs' = [Seqs EXCEPT ![v] = Abstract!Repeated(Seqs[a], n)]
      BY <1>1, <1>2, <1>6, <2>2
    <3>2. n \in 0..2
      BY <2>2
    <3> QED BY <3>1, <3>2 DEF Abstract!Create, Seqs
  <2> QED BY <1>1, <2>1, <2>2, RepeatHolds
<1>7. ASSUME NEW a \in Objs, Becomes(v, msListCopy(lists[a])) PROVE Only(v) /\ Abstract!Create(v)
  <2>1. Holds(msListCopy(lists[a]), Contents(lists[a]))
    BY <1>1, CopyHolds
  <2>2. Only(v) /\ Seqs' = [Seqs EXCEPT ![v] = Seqs[a]]
    BY <1>1, <1>2, <1>7, <2>1
  <2> QED BY <2>2 DEF Abstract!Create, Seqs
<1> QED BY <1>4, <1>5, <1>6, <1>7 DEF Creates

(* The loop's own list may change: one element more, or another in place. *)
LEMMA AppendStep ==
  ASSUME ListAssumption, ListInv, NEW v \in Objs, NEW x \in Items, Append_(v, x)
  PROVE  ListInv' /\ Abstract!Change(v)
<1> DEFINE l == lists[v]
           q == Append(Contents(lists[v]), x)
<1>1. Array(l) /\ ArraysInv /\ l.len \in Nat
  BY DEF ListInv, ArraysInv, Array
<1>2. Contents(l) \in Seq(Items) /\ Len(Contents(l)) = l.len
  BY <1>1, ContentsFacts
<1>3. Holds(msListAppend(l, x), q)
  BY <1>1, AppendHolds
<1>4. Becomes(v, msListAppend(l, x))
  BY DEF Append_
<1>5. /\ ArraysInv' /\ lists'[v] = msListAppend(l, x) /\ \A o \in Objs \ {v} : lists'[o] = lists[o]
      /\ Seqs' = [Seqs EXCEPT ![v] = q]
  <2> HIDE DEF l, q
  <2> QED BY <1>1, <1>3, <1>4, Changed
<1>6. Seqs[v] = Contents(lists[v])
  BY DEF Seqs
<1>7. Abstract!Change(v)
  BY <1>5, <1>6 DEF Abstract!Change, Seqs
<1>8. CASE iter.list # v
  BY <1>5, <1>7, <1>8, LoopUndisturbed DEF Append_, Undisturbed, ListInv
<1>9. CASE iter.list = v
  <2>1. iter # NoIter
    BY <1>9 DEF NoIter, ListAssumption
  <2>2. iter \in [list : Objs, idx : Nat] /\ iter.idx \in 0..l.len /\ due = Rest(v, iter.idx)
    BY <1>1, <1>9, <2>1 DEF ListInv, LoopInv
  <2>3. /\ due \in Seq(Items) /\ Len(due) = l.len - iter.idx
        /\ \A j \in 1..l.len - iter.idx : due[j] = Contents(l)[iter.idx + j]
    BY <1>1, <2>2, RestFacts
  <2>4. Contents(lists'[v]) = q /\ Array(lists'[v])
    BY <1>3, <1>5 DEF Holds
  <2> HIDE DEF l
  <2>5. Len(q) = l.len + 1 /\ q \in Seq(Items) /\ q[l.len + 1] = x /\ \A j \in 1..l.len : q[j] = Contents(l)[j]
    BY <1>1, <1>2 DEF l
  <2>6. lists'[v].len = l.len + 1
    BY <2>4, <2>5, ContentsFacts
  <2> DEFINE i == iter.idx
             d == due
  <2> HIDE DEF q, i, d
  <2>7. due' = Append(d, x) /\ iter' = iter
    BY <1>9 DEF Append_, d
  <2>8. i \in 0..l.len /\ d \in Seq(Items) /\ Len(d) = l.len - i /\ \A j \in 1..l.len - i : d[j] = Contents(l)[i + j]
    BY <2>2, <2>3 DEF i, d
  <2>9. Append(d, x) = [j \in 1..(l.len + 1) - i |-> q[i + j]]
    <3>1. Append(d, x) \in Seq(Items) /\ Len(Append(d, x)) = (l.len + 1) - i
      BY <1>1, <2>8
    <3>2. l.len \in Nat
      BY <1>1 DEF l
    <3>3. ASSUME NEW j \in 1..(l.len + 1) - i PROVE Append(d, x)[j] = q[i + j]
      <4>1. CASE j \in 1..l.len - i
        <5>1. i + j \in 1..l.len
          BY <2>8, <3>2, <4>1
        <5> QED BY <2>5, <2>8, <4>1, <5>1
      <4>2. CASE j = (l.len - i) + 1
        <5>1. i + j = l.len + 1 /\ j = Len(d) + 1
          BY <2>8, <3>2, <4>2
        <5>2. Append(d, x)[j] = x
          BY <2>8, <5>1
        <5>3. q[i + j] = x
          BY <2>5, <5>1
        <5> QED BY <5>2, <5>3
      <4>3. i \in Nat /\ j \in Nat /\ l.len \in Nat /\ j >= 1 /\ j <= (l.len + 1) - i
        BY <2>8, <3>2
      <4>4. j \in 1..l.len - i \/ j = (l.len - i) + 1
        BY ONLY <4>3
      <4> QED BY <4>1, <4>2, <4>4
    <3> DEFINE f == Append(d, x)
    <3>4. f \in Seq(Items) /\ Len(f) = (l.len + 1) - i /\ \A j \in 1..(l.len + 1) - i : f[j] = q[i + j]
      BY <3>1, <3>3
    <3> HIDE DEF f
    <3>5. f = [j \in 1..(l.len + 1) - i |-> q[i + j]]
      BY <3>4
    <3> QED BY <3>5 DEF f
  <2>10. due' = Rest(v, iter.idx)'
    BY <2>4, <2>6, <2>7, <2>9 DEF Rest, i
  <2>11. iter'.idx <= lists'[v].len /\ iter' \in [list : Objs, idx : Nat] /\ iter'.list = v
    BY <1>1, <1>9, <2>2, <2>6, <2>7 DEF l
  <2>12. LoopInv'
    BY <2>7, <2>10, <2>11 DEF LoopInv
  <2> QED BY <1>5, <1>7, <2>12 DEF ListInv
<1> QED BY <1>5, <1>7, <1>8, <1>9 DEF ListInv

LEMMA SetItemStep ==
  ASSUME ListAssumption, ListInv, NEW v \in Objs, NEW x \in Items,
         NEW i \in -lists[v].len..lists[v].len - 1, SetItem(v, i, x)
  PROVE  ListInv' /\ Abstract!Change(v)
<1> DEFINE l == lists[v]
           c == Contents(l)
           q == Abstract!Assigned(c, i, x)
           k == normalizeIndex(l, i)
           p == Abstract!At(c, i)
<1>1. Array(l) /\ ArraysInv /\ l.len \in Nat /\ i \in Int
  BY DEF ListInv, ArraysInv, Array
<1>2. c \in Seq(Items) /\ Len(c) = l.len /\ DOMAIN c = 1..l.len
  BY <1>1, ContentsFacts
<1>3. Holds(msListSet(l, i, x), q)
  BY <1>1, SetHolds
<1>4. Becomes(v, msListSet(l, i, x))
  BY DEF SetItem
<1>5. /\ ArraysInv' /\ \A o \in Objs \ {v} : lists'[o] = lists[o]
      /\ Seqs' = [Seqs EXCEPT ![v] = q] /\ Contents(lists'[v]) = q /\ Array(lists'[v])
  <2> HIDE DEF l, q
  <2>1. /\ ArraysInv' /\ lists'[v] = msListSet(l, i, x) /\ \A o \in Objs \ {v} : lists'[o] = lists[o]
        /\ Seqs' = [Seqs EXCEPT ![v] = q]
    BY <1>1, <1>3, <1>4, Changed
  <2> QED BY <1>3, <2>1 DEF Holds
<1>6. Seqs[v] = c
  BY DEF Seqs
<1>7. Abstract!Change(v)
  <2>1. i \in -Len(Seqs[v])..Len(Seqs[v])
    BY <1>1, <1>2, <1>6
  <2> QED BY <1>5, <1>6, <2>1 DEF Abstract!Change, Seqs
<1>8. CASE iter.list # v
  BY <1>5, <1>7, <1>8, LoopUndisturbed DEF SetItem, Undisturbed, ListInv
<1>9. CASE iter.list = v
  <2>1. iter # NoIter
    BY <1>9 DEF NoIter, ListAssumption
  <2>2. iter \in [list : Objs, idx : Nat] /\ iter.idx \in 0..l.len /\ due = Rest(v, iter.idx)
    BY <1>1, <1>9, <2>1 DEF ListInv, LoopInv
  <2> DEFINE n == iter.idx
             d == due
  <2>3. /\ d \in Seq(Items) /\ Len(d) = l.len - n /\ n \in 0..l.len
        /\ \A j \in 1..l.len - n : d[j] = c[n + j]
    BY <1>1, <2>2, RestFacts
  <2>4. k \in 0..l.len - 1 /\ p = k + 1 /\ p \in DOMAIN c
    <3>1. k \in -1..l.len - 1 /\ (k >= 0 => p = k + 1)
      BY <1>1, IndexFacts
    <3>2. k >= 0
      BY <1>1 DEF normalizeIndex
    <3> HIDE DEF l, k, p, c
    <3> QED BY <1>1, <1>2, <3>1, <3>2
  <2>5. q = [c EXCEPT ![p] = x]
    BY <2>4 DEF Abstract!Assigned
  <2>6. due' = (IF k >= n THEN [d EXCEPT ![k - n + 1] = x] ELSE d) /\ iter' = iter
    BY <1>9 DEF SetItem
  <2> HIDE DEF l, k, p, c, q, n, d
  <2>7. q \in Seq(Items) /\ Len(q) = l.len /\ \A j \in 1..l.len : q[j] = IF j = k + 1 THEN x ELSE c[j]
    BY <1>2, <2>4, <2>5
  <2>8. lists'[v].len = l.len
    BY <1>5, <2>7, ContentsFacts
  <2>9. due' = [j \in 1..l.len - n |-> q[n + j]]
    <3>1. l.len \in Nat /\ n \in 0..l.len /\ DOMAIN d = 1..l.len - n
      BY <1>1, <2>3
    <3>2. CASE k >= n
      <4>1. k - n + 1 \in 1..l.len - n
        BY <2>4, <3>1, <3>2
      <4>2. ASSUME NEW j \in 1..l.len - n PROVE q[n + j] = IF j = k - n + 1 THEN x ELSE d[j]
        <5>1. n + j \in 1..l.len /\ (n + j = k + 1 <=> j = k - n + 1)
          BY <2>4, <3>1, <4>2
        <5> QED BY <2>3, <2>7, <5>1
      <4>3. [d EXCEPT ![k - n + 1] = x] = [j \in 1..l.len - n |-> IF j = k - n + 1 THEN x ELSE d[j]]
        BY <2>3, <3>1
      <4> QED BY <2>6, <3>2, <4>2, <4>3
    <3>3. CASE k < n
      <4>1. ASSUME NEW j \in 1..l.len - n PROVE q[n + j] = d[j]
        <5>1. n + j \in 1..l.len /\ n + j # k + 1
          BY <2>4, <3>1, <3>3, <4>1
        <5> QED BY <2>3, <2>7, <5>1
      <4>2. due' = d
        BY <2>4, <2>6, <3>1, <3>3
      <4> QED BY <2>3, <3>1, <4>1, <4>2
    <3> QED BY <2>4, <3>1, <3>2, <3>3
  <2>10. due' = Rest(v, iter.idx)'
    BY <1>5, <2>6, <2>8, <2>9 DEF Rest, n
  <2>11. iter'.idx <= lists'[v].len /\ iter' \in [list : Objs, idx : Nat] /\ iter'.list = v
    BY <1>1, <1>9, <2>2, <2>6, <2>8 DEF l
  <2>12. LoopInv'
    BY <2>6, <2>10, <2>11 DEF LoopInv
  <2> QED BY <1>5, <1>7, <2>12 DEF ListInv
<1> QED BY <1>8, <1>9

----------------------------------------------------------------------------
(* The iterator. *)

LEMMA SameLists ==
  ASSUME ArraysInv, lists' = lists
  PROVE  ArraysInv' /\ Seqs' = Seqs /\ \A v \in Objs : \A k : Rest(v, k)' = Rest(v, k)
<1>1. ArraysInv' /\ Seqs' = Seqs
  BY DEF ArraysInv, Seqs
<1>2. \A v \in Objs : \A k : Rest(v, k)' = Rest(v, k)
  BY DEF Rest
<1> QED BY <1>1, <1>2

LEMMA IterStep ==
  ASSUME ListAssumption, ListInv, (\E v \in Objs : listIter(v)) \/ listIterNext \/ IterEnd
  PROVE  ListInv' /\ Seqs' = Seqs
<1>1. ArraysInv /\ lists' = lists
  BY DEF ListInv, listIter, listIterNext, IterEnd
<1>2. ArraysInv' /\ Seqs' = Seqs
  BY <1>1, SameLists
<1>3. ASSUME NEW v \in Objs, listIter(v) PROVE LoopInv'
  <2>1. Array(lists[v]) /\ lists[v].len \in Nat
    BY <1>1 DEF ArraysInv, Array
  <2>2. Contents(lists[v]) \in Seq(Items) /\ Len(Contents(lists[v])) = lists[v].len
    BY <2>1, ContentsFacts
  <2> DEFINE c == Contents(lists[v])
             n == lists[v].len
  <2>3. c = [j \in 1..n - 0 |-> c[0 + j]]
    <3> HIDE DEF c, n
    <3>1. c \in Seq(Items) /\ Len(c) = n /\ n \in Nat
      BY <2>1, <2>2 DEF c, n
    <3> QED BY <3>1
  <2>4. c = Rest(v, 0)
    BY <2>3 DEF Rest
  <2>5. iter' = [list |-> v, idx |-> 0] /\ due' = c /\ lists' = lists
    BY <1>3 DEF listIter
  <2>6. due' = Rest(iter.list, iter.idx)'
    <3>1. Rest(iter.list, iter.idx)' = Rest(v, 0)
      BY <2>5 DEF Rest
    <3> QED BY <2>4, <2>5, <3>1
  <2>7. iter' \in [list : Objs, idx : Nat] /\ iter'.idx <= lists'[iter'.list].len
    BY <2>1, <2>5
  <2> QED BY <2>6, <2>7 DEF LoopInv
<1>4. ASSUME listIterNext PROVE LoopInv'
  <2>1. iter # NoIter /\ iter.idx < lists[iter.list].len
    <3>1. iter \in [list : Objs, idx : Nat] /\ lists[iter.list].len \in Nat
      BY <1>1, <1>4 DEF ListInv, LoopInv, listIterNext, ArraysInv, Array
    <3> QED BY <1>4, <3>1 DEF listIterNext, Returned
  <2>2. iter \in [list : Objs, idx : Nat] /\ due = Rest(iter.list, iter.idx)
    BY <2>1 DEF ListInv, LoopInv
  <2> DEFINE v == iter.list
             k == iter.idx
             n == lists[v].len
  <2>3. n \in Nat /\ k \in 0..n - 1 /\ v \in Objs
    BY <1>1, <2>1, <2>2 DEF ArraysInv, Array
  <2>4. iter' = [list |-> v, idx |-> k + 1] /\ due' = Tail(Rest(v, k)) /\ lists' = lists
    BY <1>4, <2>2 DEF listIterNext
  <2> DEFINE r == Rest(v, k)
             s == Rest(v, k + 1)
  <2> HIDE DEF v, k, n
  <2>5. r \in Seq(Items) /\ Len(r) = n - k /\ \A j \in 1..n - k : r[j] = Contents(lists[v])[k + j]
    BY <1>1, <2>3, RestFacts DEF n
  <2>6. s \in Seq(Items) /\ Len(s) = n - (k + 1) /\ \A j \in 1..n - (k + 1) : s[j] = Contents(lists[v])[(k + 1) + j]
    <3>1. k + 1 \in 0..lists[v].len
      BY <2>3 DEF n
    <3> QED BY <1>1, <2>3, <3>1, RestFacts DEF n
  <2>7. Tail(r) = s
    <3> HIDE DEF r, s
    <3>1. Tail(r) \in Seq(Items) /\ Len(Tail(r)) = n - (k + 1)
      BY <2>3, <2>5
    <3>2. \A j \in 1..n - (k + 1) : Tail(r)[j] = r[j + 1] /\ r[j + 1] = s[j]
      BY <2>3, <2>5, <2>6
    <3> DEFINE t == Tail(r)
    <3> HIDE DEF t
    <3>3. t \in Seq(Items) /\ Len(t) = Len(s) /\ \A j \in 1..Len(s) : t[j] = s[j]
      BY <2>6, <3>1, <3>2 DEF t
    <3>4. t = s
      BY <2>6, <3>3
    <3> QED BY <3>4 DEF t
  <2>8. due' = Rest(iter.list, iter.idx)'
    <3>1. Rest(iter.list, iter.idx)' = s
      BY <2>4 DEF Rest
    <3> QED BY <2>4, <2>7, <3>1
  <2>9. iter' \in [list : Objs, idx : Nat] /\ iter'.idx <= lists'[iter'.list].len
    BY <2>3, <2>4 DEF n
  <2> QED BY <2>8, <2>9 DEF LoopInv
<1>5. ASSUME IterEnd PROVE LoopInv'
  BY <1>5 DEF IterEnd, LoopInv, NoIter
<1> QED BY <1>2, <1>3, <1>4, <1>5 DEF ListInv

----------------------------------------------------------------------------
(* The theorems. *)

LEMMA ListStep ==
  ASSUME ListAssumption, ListInv, [Next]_vars
  PROVE  ListInv' /\ [Abstract!Next]_Seqs
<1>1. CASE UNCHANGED vars
  BY <1>1 DEF vars, ListInv, ArraysInv, LoopInv, Rest, Seqs, NoIter
<1>2. ASSUME NEW v \in Objs, NEW x \in Items, Append_(v, x) PROVE ListInv' /\ [Abstract!Next]_Seqs
  BY <1>2, AppendStep DEF Abstract!Next
<1>3. ASSUME NEW v \in Objs, NEW x \in Items, NEW i \in -lists[v].len..lists[v].len - 1, SetItem(v, i, x)
      PROVE  ListInv' /\ [Abstract!Next]_Seqs
  BY <1>3, SetItemStep DEF Abstract!Next
<1>4. ASSUME NEW v \in Objs, Changes(v) \/ Creates(v), Undisturbed(v) PROVE ListInv' /\ [Abstract!Next]_Seqs
  <2>1. Only(v) /\ (Abstract!Change(v) \/ Abstract!Create(v))
    BY <1>4, ChangesStep, CreatesStep DEF ListInv
  <2>2. LoopInv'
    BY <1>4, <2>1, LoopUndisturbed DEF Only
  <2> QED BY <2>1, <2>2 DEF ListInv, Only, Abstract!Next
<1>5. ASSUME (\E v \in Objs : listIter(v)) \/ listIterNext \/ IterEnd PROVE ListInv' /\ [Abstract!Next]_Seqs
  BY <1>5, IterStep
<1> QED BY <1>1, <1>2, <1>3, <1>4, <1>5 DEF Next

LEMMA ListStart == ASSUME ListAssumption, Init PROVE ListInv
<1>1. New(0) \in Records /\ Array(New(0))
  BY NewHolds DEF Holds, Array
<1> QED BY <1>1 DEF Init, ListInv, ArraysInv, LoopInv

LEMMA ListInvariance == ASSUME ListAssumption PROVE Spec => []ListInv
<1>1. Init => ListInv
  BY ListStart
<1>2. ListInv /\ [Next]_vars => ListInv'
  BY ListStep
<1> QED BY <1>1, <1>2, PTL DEF Spec

(* Wherever the array of a list has been moved to, whatever the body of a  *)
(* loop appends and assigns: listIterNext (ms_list.c) returns the elements *)
(* of the list in order, each once, and the loop is over when there are no *)
(* more or the next one is nil, which OP_FOR_ITER takes for the end.       *)
THEOREM LoopsReturnUpToNil == ASSUME ListAssumption PROVE Spec => []LoopsInOrder
<1>1. ListInv => LoopsInOrder
  <2> SUFFICES ASSUME ListInv, iter # NoIter
               PROVE  /\ Returned # Nil => due # <<>> /\ Returned = Head(due)
                      /\ Returned = Nil => due = <<>> \/ Head(due) = Nil
    BY DEF LoopsInOrder, LoopOver
  <2> DEFINE v == iter.list
             k == iter.idx
             n == lists[v].len
  <2>1. v \in Objs /\ k \in Nat /\ k <= n /\ due = Rest(v, k) /\ Array(lists[v]) /\ n \in Nat
    BY DEF ListInv, LoopInv, ArraysInv, Array
  <2>2. k >= n => Returned = Nil
    BY DEF Returned
  <2>3. k < n => Returned = At(lists[v], k)
    BY <2>1 DEF Returned
  <2>4. \A j \in 0..n - 1 : At(lists[v], j) = Contents(lists[v])[j + 1]
    <3> HIDE DEF v
    <3>1. \A j \in 0..lists[v].len - 1 : At(lists[v], j) = lists[v].items[j] /\ Contents(lists[v])[j + 1] = lists[v].items[j]
      BY <2>1, ContentsFacts
    <3> QED BY <3>1
  <2>5. /\ due \in Seq(Items) /\ Len(due) = n - k
        /\ \A j \in 1..n - k : due[j] = Contents(lists[v])[k + j]
    <3>1. ArraysInv /\ v \in Objs /\ k \in 0..lists[v].len
      BY <2>1 DEF ListInv
    <3> HIDE DEF v, k
    <3>2. /\ Rest(v, k) \in Seq(Items) /\ Len(Rest(v, k)) = lists[v].len - k
          /\ \A j \in 1..lists[v].len - k : Rest(v, k)[j] = Contents(lists[v])[k + j]
      BY ONLY <3>1, RestFacts
    <3> QED BY <2>1, <3>2
  <2> HIDE DEF v, k, n
  <2>6. CASE k >= n
    <3>1. Len(due) = 0
      BY <2>1, <2>5, <2>6
    <3> QED BY <2>2, <2>5, <2>6, <3>1
  <2>7. CASE k < n
    <3>1. k \in 0..n - 1 /\ 1 \in 1..n - k
      BY <2>1, <2>7
    <3>2. due[1] = Returned
      BY <2>1, <2>3, <2>4, <2>5, <2>7, <3>1
    <3>3. due # <<>> /\ Head(due) = due[1]
      BY <2>5, <3>1
    <3> QED BY <3>2, <3>3
  <2> QED BY <2>1, <2>6, <2>7
<1> QED BY ListInvariance, <1>1, PTL

(* Every method of a list (ms_list.c) does to its array what the operation *)
(* on sequences of that name does to its contents, for lists of any        *)
(* length, through any growth, and no other list changes.                  *)
THEOREM RefinesSeqs == ASSUME ListAssumption PROVE Spec => ImplementsSeqs
<1>1. Init => Abstract!Init
  <2> SUFFICES ASSUME Init PROVE Seqs = [o \in Objs |-> <<>>]
    BY DEF Abstract!Init, Seqs
  <2>1. Contents(New(0)) = <<>>
    BY NewHolds DEF Holds
  <2> QED BY <2>1 DEF Init, Seqs
<1>2. ListInv /\ [Next]_vars => [Abstract!Next]_Seqs
  BY ListStep
<1> QED BY ListInvariance, <1>1, <1>2, PTL DEF Spec, ImplementsSeqs, Abstract!Spec, Seqs

=============================================================================

----------------------------- MODULE MsNumbers -----------------------------
(***************************************************************************)
(* What the proofs about several components use of the natural numbers: a   *)
(* search that ends at the first place of some kind and induction, both    *)
(* for sets of numbers, division, and powers of two.                       *)
(***************************************************************************)
EXTENDS Integers, MsPowers, WellFoundedInduction, TLAPS

(* A set of numbers that is not empty has a least element. *)
LEMMA LeastNumber ==
  ASSUME NEW S \in SUBSET Nat, S # {}
  PROVE  \E m \in S : \A k \in S : m <= k
<1> DEFINE R == {ss \in Nat \X Nat : ss[1] < ss[2]}
<1>1. IsWellFoundedOn(R, Nat)
  BY NatLessThanWellFounded DEF OpToRel
<1>2. PICK m \in S : \A k \in S : <<k, m>> \notin R
  <2> HIDE DEF R
  <2> QED BY <1>1, WFMin
<1>3. \A k \in S : ~(k < m)
  BY <1>2
<1> QED BY <1>3

(* A set of numbers that holds 0 and the successor of each of its elements *)
(* holds them all. *)
LEMMA Induction ==
  ASSUME NEW S \in SUBSET Nat, 0 \in S, \A n \in S : n + 1 \in S
  PROVE  S = Nat
<1> SUFFICES ASSUME S # Nat PROVE FALSE
  OBVIOUS
<1> DEFINE T == Nat \ S
<1>1. PICK m \in T : \A k \in T : m <= k
  <2> T \in SUBSET Nat /\ T # {}
    OBVIOUS
  <2> HIDE DEF T
  <2> QED BY LeastNumber
<1>2. m - 1 \in Nat
  OBVIOUS
<1>3. m - 1 \in S
  BY <1>1, <1>2
<1> QED BY <1>1, <1>2, <1>3

(* Division with a remainder. *)
LEMMA Division ==
  ASSUME NEW c \in Nat \ {0}, NEW h \in Nat
  PROVE  \E q \in Int : \E r \in 0..c - 1 : h = c * q + r /\ r = h % c
<1>1. h = (c * (h \div c)) + (h % c)
  OBVIOUS
<1>2. h \div c \in Int /\ h % c \in 0..c - 1
  OBVIOUS
<1> QED BY <1>1, <1>2

LEMMA Remainder ==
  ASSUME NEW c \in Nat \ {0}, NEW q \in Int, NEW s \in 0..c - 1
  PROVE  (c * q + s) % c = s
  OBVIOUS

(* Twice a power of two is one. *)
LEMMA PowerDoubles ==
  ASSUME NEW p \in Nat \ {0}, PowerOfTwo(p)
  PROVE  PowerOfTwo(2 * p)
<1> SUFFICES ASSUME NEW d \in 2..2 * p, (2 * p) % d = 0, d % 2 # 0
             PROVE  FALSE
  BY DEF PowerOfTwo
<1>1. PICK e \in Int : 2 * p = d * e
  <2>1. 2 * p \in Nat /\ d \in Nat \ {0}
    OBVIOUS
  <2> QED BY <2>1, Division
<1>2. PICK a \in Int : d = 2 * a + 1
  <2>1. d = (2 * (d \div 2)) + (d % 2)
    OBVIOUS
  <2> QED BY <2>1
<1>3. e = 2 * (p - a * e)
  BY <1>1, <1>2
<1>4. PICK f \in Int : e = 2 * f
  <2>1. p - a * e \in Int
    OBVIOUS
  <2> QED BY <1>3, <2>1
<1>5. p = d * f
  BY <1>1, <1>4
<1>6. p % d = 0
  <2>1. p = d * f + 0 /\ 0 \in 0..d - 1 /\ d \in Nat \ {0}
    BY <1>5
  <2> HIDE <1>5
  <2> QED BY <2>1, Remainder
<1>7. d <= p
  BY <1>5
<1> QED BY <1>6, <1>7 DEF PowerOfTwo

=============================================================================

--------------------------------- MODULE MsSet ---------------------------------
(***************************************************************************)
(* The sets and frozensets of src/runtime/ms_set.c and ms_frozenset.c:     *)
(* open-addressing tables with tombstones, the operations that make a new  *)
(* table from two others, and those that change a table while they walk    *)
(* over one, which may be the same.                                        *)
(*                                                                         *)
(* An item stands for all values that msValueEqual takes to be the same.   *)
(* `heap' holds the tables of the program's variables; a frozenset is the  *)
(* same table with another type.                                           *)
(***************************************************************************)
EXTENDS Integers, Sequences, FiniteSets, FiniteSetsExt, MsPowers

CONSTANTS
  Items,
  HashOf,          \* HashOf[x]: the hash of item x
  Never, Tombstone,\* a slot that was never used; one whose item was removed
  Objs,            \* the program's sets
  MinCap,          \* the smallest table (8)
  MaxCap           \* bound on the size of the tables

SetAssumption ==
  /\ HashOf \in [Items -> Nat]
  /\ {Never, Tombstone} \cap Items = {} /\ Never # Tombstone
  /\ MinCap \in Nat /\ MinCap >= 4 /\ PowerOfTwo(MinCap)
  /\ MaxCap \in Nat

VARIABLES heap,    \* struct MsSetObj, for every object
          frozen   \* msFrozensetType rather than msSetType

vars == <<heap, frozen>>

ItemsIn(t) == {t.entries[s] : s \in DOMAIN t.entries} \cap Items

----------------------------------------------------------------------------
(* The table. *)

(* The n-th slot that findSlot looks at. *)
Probe(e, x, n) == (HashOf[x] + n) % Cardinality(DOMAIN e)

StopsAt(e, x, n) == e[Probe(e, x, n)] \in {Never, x}

ProbeEnds(e, x) == \E n \in DOMAIN e : StopsAt(e, x, n)

(***************************************************************************)
(* findSlot: the slot of the item, or else the first tombstone on the way, *)
(* or else the never-used slot.                                            *)
(***************************************************************************)
findSlot(e, x) ==
  LET last == Min({n \in DOMAIN e : StopsAt(e, x, n)})
      passed == {n \in 0..last - 1 : e[Probe(e, x, n)] = Tombstone} IN
  IF e[Probe(e, x, last)] = Never /\ passed # {}
  THEN Probe(e, x, Min(passed))
  ELSE Probe(e, x, last)

(* msSetFindInSet and lookupEntry, with their callers' test of `occupied'. *)
msSetFindInSet(t, x) == t.len > 0 /\ t.entries[findSlot(t.entries, x)] = x

(* The least power of two that is MinCap or more, and n or more. *)
roundUpPow2(n) == Min({p \in MinCap..MinCap + 2 * n : PowerOfTwo(p) /\ p >= n})

Empty(c) == [s \in 0..c - 1 |-> Never]

msNewSet(initCap) ==
  LET c == roundUpPow2(initCap) IN [cap |-> c, entries |-> Empty(c), len |-> 0, tombstones |-> 0]

(* A loop over the items of a table that does not change meanwhile. *)
Fold(t, Visit(_, _), base) ==
  LET upTo[s \in 0..t.cap] ==
        IF s = 0 THEN base
        ELSE LET r == upTo[s - 1] IN IF t.entries[s - 1] \in Items THEN Visit(r, t.entries[s - 1]) ELSE r IN
  upTo[t.cap]

msSetResize(t, newCap) ==
  [cap |-> newCap, len |-> t.len, tombstones |-> 0,
   entries |-> Fold(t, LAMBDA e, x : [e EXCEPT ![findSlot(e, x)] = x], Empty(newCap))]

MustGrow(t) == (t.len + t.tombstones + 1) * 4 > t.cap * 3

(* Mutant: a tombstone that is reused still counts as one. *)
Insert_StillCounted(t, x) ==
  LET slot == findSlot(t.entries, x) IN
  [t EXCEPT !.entries[slot] = x,
            !.len = IF t.entries[slot] = x THEN @ ELSE @ + 1]

Insert(t, x) ==
  LET slot == findSlot(t.entries, x) IN
  [t EXCEPT !.entries[slot] = x,
            !.len = IF t.entries[slot] = x THEN @ ELSE @ + 1,
            !.tombstones = IF t.entries[slot] = Tombstone THEN @ - 1 ELSE @]

(* msSetAddHashed, and msSetAdd *)
msSetAddHashed(t, x) == Insert(IF MustGrow(t) THEN msSetResize(t, 2 * t.cap) ELSE t, x)

Erase(t, slot) == [t EXCEPT !.entries[slot] = Tombstone, !.len = @ - 1, !.tombstones = @ + 1]

(* msSetDiscard; msSetRemove, where an item that is not there is an error *)
msSetDiscard(t, x) == IF msSetFindInSet(t, x) THEN Erase(t, findSlot(t.entries, x)) ELSE t

(* The item in the first slot that is taken. *)
msSetPop(t) == Erase(t, Min({s \in DOMAIN t.entries : t.entries[s] \in Items}))

(* Mutant: the counters are reset, the slots are not. *)
msSetClear_CountersOnly(t) == [t EXCEPT !.len = 0, !.tombstones = 0]

msSetClear(t) == [t EXCEPT !.entries = Empty(t.cap), !.len = 0, !.tombstones = 0]

msSetCopy(t) ==
  LET r == msNewSet(t.cap) IN
  [r EXCEPT !.entries = [s \in 0..r.cap - 1 |-> IF s < t.cap THEN t.entries[s] ELSE Never],
            !.len = t.len, !.tombstones = t.tombstones]

----------------------------------------------------------------------------
(* New sets from two others: the frozensets' functions walk over the same  *)
(* tables in the same order. *)

(* frozensetInsertAll *)
InsertAll(r, t) == Fold(t, msSetAddHashed, r)

(* frozensetFilterInto *)
FilterInto(r, t, other, wantPresent) ==
  Fold(t, LAMBDA u, x : IF msSetFindInSet(other, x) = wantPresent THEN msSetAddHashed(u, x) ELSE u, r)

msSetUnion(a, b) == InsertAll(InsertAll(msNewSet(a.len + b.len), a), b)

msSetDiff(a, b) == FilterInto(msNewSet(a.len), a, b, FALSE)

msSetSymDiff(a, b) == FilterInto(FilterInto(msNewSet(a.len + b.len), a, b, FALSE), b, a, FALSE)

msSetIntersect(a, b) == FilterInto(msNewSet(Min({a.len, b.len})), a, b, TRUE)

(* msNewFrozensetFromIter, from a set of either kind *)
msNewFrozensetFromIter(t) == InsertAll(msNewSet(t.len), t)

----------------------------------------------------------------------------
(* Comparing. *)

msSetIsSubset(a, b) ==
  a.len <= b.len /\ \A s \in DOMAIN a.entries : a.entries[s] \in Items => msSetFindInSet(b, a.entries[s])

msSetIsProperSubset(a, b) == a.len < b.len /\ msSetIsSubset(a, b)

msSetIsDisjoint(a, b) ==
  \A s \in DOMAIN a.entries : a.entries[s] \in Items => ~msSetFindInSet(b, a.entries[s])

(* Mutant: a subset is taken for an equal set. *)
setEq_Subset(a, b) == msSetIsSubset(a, b)

setEq(a, b) == a.len = b.len /\ msSetIsSubset(a, b)

(* Mutant: the hashes are combined in the order of the slots. *)
frozensetHash_Ordered(t) == Fold(t, LAMBDA h, x : Append(h, HashOf[x]), <<>>)

(* The exclusive or of the hashes: which hashes occur an odd number of times. *)
frozensetHash(t) == Fold(t, LAMBDA h, x : (h \ {HashOf[x]}) \cup ({HashOf[x]} \ h), {})

----------------------------------------------------------------------------
(***************************************************************************)
(* Methods that change v while they walk over a table.  The loop reads the *)
(* table again at each turn: when v is `other', it is the one that the     *)
(* loop's body has changed or replaced.  (One resize doubles the table and     *)
(* drops its tombstones; there is none after it.)                          *)
(***************************************************************************)
Walk(h0, o, Visit(_, _)) ==
  LET upTo[s \in 0..2 * h0[o].cap] ==
        IF s = 0 THEN h0
        ELSE LET h == upTo[s - 1] IN
             IF s <= h[o].cap /\ h[o].entries[s - 1] \in Items THEN Visit(h, h[o].entries[s - 1]) ELSE h IN
  upTo[2 * h0[o].cap]

msSetUpdate(v, o) ==
  Walk(heap, o, LAMBDA h, x : [h EXCEPT ![v] = msSetAddHashed(@, x)])

msSetIntersectionUpdate(v, o) ==
  Walk(heap, v, LAMBDA h, x : IF msSetFindInSet(h[o], x) THEN h ELSE [h EXCEPT ![v] = msSetDiscard(@, x)])

msSetDifferenceUpdate(v, o) ==
  Walk(heap, v, LAMBDA h, x : IF msSetFindInSet(h[o], x) THEN [h EXCEPT ![v] = msSetDiscard(@, x)] ELSE h)

msSetSymmetricDifferenceUpdate(v, o) ==
  Walk(heap, o, LAMBDA h, x : IF msSetFindInSet(h[v], x)
                              THEN [h EXCEPT ![v] = msSetDiscard(@, x)]
                              ELSE [h EXCEPT ![v] = msSetAddHashed(@, x)])

----------------------------------------------------------------------------
(* The program. *)

Init == /\ heap = [o \in Objs |-> msNewSet(0)]
        /\ frozen = [o \in Objs |-> FALSE]

Fits(h) == \A o \in Objs : h[o].cap <= MaxCap

(* A method of the set v, which is not frozen, changes it. *)
Becomes(v, t) == /\ ~frozen[v]
                 /\ heap' = [heap EXCEPT ![v] = t]
                 /\ frozen' = frozen

Add(v, x) == Becomes(v, msSetAddHashed(heap[v], x))

Discard(v, x) == Becomes(v, msSetDiscard(heap[v], x))

Pop(v) == heap[v].len > 0 /\ Becomes(v, msSetPop(heap[v]))

Clear(v) == Becomes(v, msSetClear(heap[v]))

(* `other' must be a set; a frozenset is a TypeError. *)
InPlace(v, o) ==
  /\ ~frozen[v] /\ ~frozen[o]
  /\ heap' \in {msSetUpdate(v, o), msSetIntersectionUpdate(v, o), msSetDifferenceUpdate(v, o),
                msSetSymmetricDifferenceUpdate(v, o)}
  /\ frozen' = frozen

(* The variable v is given a new object. *)
Assign(v, t, isFrozen) ==
  /\ heap' = [heap EXCEPT ![v] = t]
  /\ frozen' = [frozen EXCEPT ![v] = isFrozen]

(* Both operands must be of the same type. *)
Binary(v, a, b) ==
  /\ frozen[a] = frozen[b]
  /\ \E t \in {msSetUnion(heap[a], heap[b]), msSetDiff(heap[a], heap[b]),
               msSetSymDiff(heap[a], heap[b]), msSetIntersect(heap[a], heap[b])} : Assign(v, t, frozen[a])

NewSet(v) == Assign(v, msNewSet(0), FALSE)

Copy(v, a) == ~frozen[a] /\ Assign(v, msSetCopy(heap[a]), FALSE)

Freeze(v, a) == Assign(v, msNewFrozensetFromIter(heap[a]), TRUE)

Next == /\ \E v \in Objs :
             \/ \E x \in Items : Add(v, x) \/ Discard(v, x)
             \/ Pop(v) \/ Clear(v) \/ NewSet(v)
             \/ \E a \in Objs : InPlace(v, a) \/ Copy(v, a) \/ Freeze(v, a)
             \/ \E a, b \in Objs : Binary(v, a, b)
        /\ Fits(heap')

Spec == Init /\ [][Next]_vars

----------------------------------------------------------------------------
(* Properties. *)

(* The table is sound: its counters are exact, a quarter of it has never   *)
(* been used, so that findSlot's endless loop ends, and an item is in one  *)
(* slot with no never-used slot before it on its probe sequence.  Its size *)
(* is one that msNewSet would have chosen, so that msSetCopy can take over *)
(* the slots as they are. *)
Sound(t) ==
  LET e == t.entries IN
  /\ t = [cap |-> t.cap, entries |-> e, len |-> t.len, tombstones |-> t.tombstones]
  /\ t.cap \in Nat /\ t.cap >= MinCap /\ PowerOfTwo(t.cap)
  /\ e \in [0..t.cap - 1 -> Items \cup {Never, Tombstone}]
  /\ t.len = Cardinality({s \in DOMAIN e : e[s] \in Items})
  /\ t.tombstones = Cardinality({s \in DOMAIN e : e[s] = Tombstone})
  /\ (t.len + t.tombstones) * 4 <= t.cap * 3
  /\ \A x \in Items : ProbeEnds(e, x)
  /\ \A s \in DOMAIN e : e[s] \in Items => findSlot(e, e[s]) = s

(* Every table is sound after any history of operations (TypeOK of the     *)
(* module is part of it). *)
TablesSound == /\ DOMAIN heap = Objs
               /\ frozen \in [Objs -> BOOLEAN]
               /\ \A o \in Objs : Sound(heap[o])

OperatorsExact ==
  \A a, b \in Objs :
    LET A == ItemsIn(heap[a]) B == ItemsIn(heap[b])
        InA(h) == ItemsIn(h[a]) IN
    /\ ItemsIn(msSetUnion(heap[a], heap[b])) = A \cup B
    /\ ItemsIn(msSetDiff(heap[a], heap[b])) = A \ B
    /\ ItemsIn(msSetSymDiff(heap[a], heap[b])) = (A \ B) \cup (B \ A)
    /\ ItemsIn(msSetIntersect(heap[a], heap[b])) = A \cap B
    /\ InA(msSetUpdate(a, b)) = A \cup B
    /\ InA(msSetDifferenceUpdate(a, b)) = A \ B
    /\ InA(msSetSymmetricDifferenceUpdate(a, b)) = (A \ B) \cup (B \ A)
    /\ InA(msSetIntersectionUpdate(a, b)) = A \cap B

ComparisonsExact ==
  \A a, b \in Objs :
    LET A == ItemsIn(heap[a]) B == ItemsIn(heap[b]) IN
    /\ msSetIsSubset(heap[a], heap[b]) <=> A \subseteq B
    /\ msSetIsProperSubset(heap[a], heap[b]) <=> A \subseteq B /\ A # B
    /\ setEq(heap[a], heap[b]) <=> A = B
    /\ msSetIsDisjoint(heap[a], heap[b]) <=> A \cap B = {}

(* The operators, the methods that change a set in place and the           *)
(* comparisons, which walk over one table and probe another, give what set *)
(* theory says, whatever sizes and tombstones the tables have from their   *)
(* history, and when both operands are the same object. *)
AlgebraExact == OperatorsExact /\ ComparisonsExact

(* Frozensets that are equal have the same hash, in whatever order and     *)
(* from whatever tables they were made: they can be keys. *)
EqualHashEqual ==
  \A a, b \in Objs : frozen[a] /\ frozen[b] /\ setEq(heap[a], heap[b])
                     => frozensetHash(heap[a]) = frozensetHash(heap[b])

(* What the tables hold. *)
Contents == [o \in Objs |-> ItemsIn(heap[o])]
Abstract == INSTANCE MsSets WITH sets <- Contents

(* The tables behave as sets: a method changes the set it is called on as  *)
(* set theory says, and no other. *)
ImplementsSets == Abstract!Spec
===============================================================================

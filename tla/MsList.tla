-------------------------------- MODULE MsList --------------------------------
(***************************************************************************)
(* The lists of src/runtime/ms_list.c: arrays with spare slots that double *)
(* when they are full, whose elements methods move by memmove, and the     *)
(* iterator, which remembers an index.                                     *)
(***************************************************************************)
EXTENDS Integers, FiniteSets, Sequences, FiniteSetsExt, MsPowers

CONSTANTS
  Items,      \* integers
  Nil,        \* the one of them that stands for nil
  Junk,       \* a slot at `len' or above: never written, or no longer in use
  Objs,       \* the program's lists
  FirstCap,   \* the capacity of a list that grows for the first time (4)
  MaxLen,     \* bound on the length of a list
  MaxPair,    \* bound on the length of two lists together
  Looped      \* the lists that the program loops over

ListAssumption ==
  /\ Items \cup {Nil} \subseteq Int /\ Junk \notin Items \cup Objs
  /\ FirstCap \in Nat \ {0} /\ MaxLen \in Nat /\ MaxPair \in Nat

VARIABLES lists,           \* struct MsListObj, for every list
          iter,            \* MsListIterObj: the list and the index, or NoIter
          due              \* the elements that the loop has still to return

vars == <<lists, iter, due>>

NoIter == [list |-> Junk, idx |-> 0]

----------------------------------------------------------------------------
(* The array. *)

New(initCap) == [len |-> 0, cap |-> initCap, items |-> [k \in 0..initCap - 1 |-> Junk]]

At(l, k) == IF k \in DOMAIN l.items THEN l.items[k] ELSE Junk

Contents(l) == [k \in 1..l.len |-> At(l, k - 1)]

(* Slots from `len' on are not in use any more. *)
Trim(l) == [l EXCEPT !.items = [k \in DOMAIN l.items |-> IF k < l.len THEN l.items[k] ELSE Junk]]

Realloc(l, newCap) == [len |-> l.len, cap |-> newCap, items |-> [k \in 0..newCap - 1 |-> At(l, k)]]

(* The capacity is doubled, more than once if need be. *)
listEnsureCap(l, needed) ==
  IF needed <= l.cap THEN l
  ELSE LET first == IF l.cap < FirstCap THEN FirstCap ELSE l.cap * 2
           times == {p \in 1..2 * needed : PowerOfTwo(p) /\ first * p >= needed} IN
       Realloc(l, first * Min(times))

(* memmove and memcpy of n elements of src to l. *)
Move(l, to, src, from, n) ==
  [l EXCEPT !.items = [k \in DOMAIN l.items |-> IF k \in to..to + n - 1 THEN At(src, k - to + from) ELSE l.items[k]]]

Store(l, k, x) == [l EXCEPT !.items = [j \in DOMAIN l.items |-> IF j = k THEN x ELSE l.items[j]]]

(* Python-style: a negative index counts from the end; -1 if outside. *)
normalizeIndex(l, i) ==
  LET k == IF i < 0 THEN i + l.len ELSE i IN IF k < 0 \/ k >= l.len THEN -1 ELSE k

Longer(l, n) == [l EXCEPT !.len = @ + n]

----------------------------------------------------------------------------
(* Methods. *)

msListAppend(l, x) == Longer(Store(listEnsureCap(l, l.len + 1), l.len, x), 1)

msListSet(l, i, x) == IF normalizeIndex(l, i) < 0 THEN l ELSE Store(l, normalizeIndex(l, i), x)

msListInsert(l, i, x) ==
  LET k == IF i < 0 THEN Max({i + l.len, 0}) ELSE Min({i, l.len})
      g == listEnsureCap(l, l.len + 1) IN
  Longer(Store(Move(g, k + 1, g, k, g.len - k), k, x), 1)

RemoveItem(l, k) == Trim(Longer(Move(l, k, l, k + 1, l.len - k - 1), -1))

msListPop(l, i) == IF normalizeIndex(l, i) < 0 THEN l ELSE RemoveItem(l, normalizeIndex(l, i))

msListRemove(l, x) ==
  LET found == {k \in 0..l.len - 1 : At(l, k) = x} IN IF found = {} THEN l ELSE RemoveItem(l, Min(found))

(* The loop swaps the elements at i and at its mirror image. *)
msListReverse(l) ==
  LET Mirror(k) == l.len - 1 - k
      Swapped == UNION {{i, Mirror(i)} : i \in {i \in 0..l.len - 1 : i + 1 < l.len - i}} IN
  [l EXCEPT !.items = [k \in DOMAIN l.items |-> IF k \in Swapped THEN At(l, Mirror(k)) ELSE l.items[k]]]

msListClear(l) == Trim([l EXCEPT !.len = 0])

(* qsort, with listCompare: any order of the elements that is sorted.  (A   *)
(* list with a nil is not sorted here: listCompare is not symmetric in it.) *)
msListSort(l, reverse) ==
  {[l EXCEPT !.items = [k \in DOMAIN l.items |-> IF k < l.len THEN At(l, p[k]) ELSE l.items[k]]] :
     p \in {p \in [0..l.len - 1 -> 0..l.len - 1] :
              /\ \A a, b \in 0..l.len - 1 : p[a] = p[b] => a = b
              /\ \A a \in 0..l.len - 2 : IF reverse THEN At(l, p[a]) >= At(l, p[a + 1])
                                                    ELSE At(l, p[a]) <= At(l, p[a + 1])}}

(* Mutant: the other list's array is read before it is moved by realloc, in *)
(* a list that is extended by itself. *)
msListExtend_Stale(v, o) ==
  LET l == listEnsureCap(lists[v], lists[v].len + lists[o].len)
      src == IF v = o /\ l.cap # lists[v].cap THEN New(0) ELSE lists[o] IN
  Longer(Move(l, l.len, src, 0, lists[o].len), lists[o].len)

(* o may be v itself: its array is the one that listEnsureCap has moved. *)
msListExtend(v, o) ==
  LET l == listEnsureCap(lists[v], lists[v].len + lists[o].len)
      src == IF v = o THEN l ELSE lists[o] IN
  Longer(Move(l, l.len, src, 0, src.len), src.len)

listConcat(a, b) ==
  LET r == New(a.len + b.len) IN
  Longer(Move(Move(r, 0, a, 0, a.len), a.len, b, 0, b.len), a.len + b.len)

(* l is copied n times, one copy behind the other. *)
listRepeat(l, n) ==
  IF n <= 0 \/ l.len = 0 THEN New(0)
  ELSE LET r == New(l.len * n) IN
       Longer([r EXCEPT !.items = [k \in DOMAIN r.items |-> At(l, k % l.len)]], l.len * n)

msListCopy(l) == Longer(Move(New(l.len), 0, l, 0, l.len), l.len)

----------------------------------------------------------------------------
(* The program. *)

Init == /\ lists = [o \in Objs |-> New(0)]
        /\ iter = NoIter
        /\ due = <<>>

(* A method changes the list v.  While a loop runs over the list, its body *)
(* may append to it and assign to elements, as `due' records. *)
Becomes(v, l) ==
  /\ l.len <= MaxLen /\ \A o \in Objs \ {v} : l.len + lists[o].len <= MaxPair
  /\ lists' = [lists EXCEPT ![v] = l]

Undisturbed(v) == iter.list # v /\ UNCHANGED <<iter, due>>

Append_(v, x) ==
  /\ Becomes(v, msListAppend(lists[v], x))
  /\ due' = IF iter.list = v THEN Append(due, x) ELSE due
  /\ iter' = iter

SetItem(v, i, x) ==
  LET k == normalizeIndex(lists[v], i) IN
  /\ Becomes(v, msListSet(lists[v], i, x))
  /\ due' = IF iter.list = v /\ k >= iter.idx THEN [due EXCEPT ![k - iter.idx + 1] = x] ELSE due
  /\ iter' = iter

Changes(v) ==
  LET l == lists[v] IN
  \/ \E i \in -l.len - 1..l.len + 1, x \in Items : Becomes(v, msListInsert(l, i, x))
  \/ \E i \in -l.len..l.len - 1 : Becomes(v, msListPop(l, i))
  \/ \E x \in Items : Becomes(v, msListRemove(l, x))
  \/ Becomes(v, msListReverse(l))
  \/ Becomes(v, msListClear(l))
  \/ /\ \A k \in 0..l.len - 1 : At(l, k) # Nil
     /\ \E reverse \in BOOLEAN : \E s \in msListSort(l, reverse) : Becomes(v, s)
  \/ \E o \in Objs : Becomes(v, msListExtend(v, o))

(* The variable v is given a new list. *)
Creates(v) ==
  \/ \E initCap \in 0..1 : Becomes(v, New(initCap))
  \/ \E a, b \in Objs : Becomes(v, listConcat(lists[a], lists[b]))
  \/ \E a \in Objs, n \in -1..2 : Becomes(v, listRepeat(lists[a], n))
  \/ \E a \in Objs : Becomes(v, msListCopy(lists[a]))

listIter(v) ==
  /\ iter = NoIter /\ v \in Looped
  /\ iter' = [list |-> v, idx |-> 0]
  /\ due' = Contents(lists[v])
  /\ lists' = lists

(* Mutant: the index is moved before the element is read. *)
Returned_Next == IF iter.idx >= lists[iter.list].len THEN Nil ELSE At(lists[iter.list], iter.idx + 1)

(* What listIterNext returns: the next element, or nil behind the last one. *)
Returned == IF iter.idx >= lists[iter.list].len THEN Nil ELSE At(lists[iter.list], iter.idx)

listIterNext ==
  /\ iter # NoIter /\ Returned # Nil
  /\ iter' = [iter EXCEPT !.idx = @ + 1]
  /\ due' = Tail(due)
  /\ lists' = lists

(* OP_FOR_ITER takes nil for the end, an element that is nil as well. *)
LoopOver == iter # NoIter /\ Returned = Nil

IterEnd ==
  /\ LoopOver
  /\ iter' = NoIter /\ due' = <<>>
  /\ lists' = lists

Next == \/ \E v \in Objs :
             \/ \E x \in Items : Append_(v, x)
             \/ \E x \in Items, i \in -lists[v].len..lists[v].len - 1 : SetItem(v, i, x)
             \/ (Changes(v) \/ Creates(v)) /\ Undisturbed(v)
             \/ listIter(v)
        \/ listIterNext \/ IterEnd

Spec == Init /\ [][Next]_vars

----------------------------------------------------------------------------
(* Properties. *)

(* A loop over a list returns each element once and in order, those        *)
(* included that its body appends, with the values that its body assigns,  *)
(* wherever the array has moved to; it is over at the first nil, or else   *)
(* at the end (the known limitation of the iteration protocol). *)
LoopsInOrder ==
  /\ iter # NoIter /\ Returned # Nil => due # <<>> /\ Returned = Head(due)
  /\ LoopOver => due = <<>> \/ Head(due) = Nil

(* The arrays behave as sequences: what methods move is what they should,  *)
(* through growth, and no list but theirs changes. *)
Abstract == INSTANCE MsSeqs WITH seqs <- [o \in Objs |-> Contents(lists[o])]
ImplementsSeqs == Abstract!Spec
===============================================================================

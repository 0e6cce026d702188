-------------------------------- MODULE MsSeqs --------------------------------
(***************************************************************************)
(* What mslang's lists promise: they are sequences, and a method changes   *)
(* the list it is called on and no other.  MsList, the growing arrays of   *)
(* src/runtime/ms_list.c, implements it.                                   *)
(***************************************************************************)
EXTENDS Integers, Sequences, SequencesExt, Functions

CONSTANTS Items, Objs

VARIABLE seqs

Init == seqs = [o \in Objs |-> <<>>]

(* Indices count from 0, negative ones from the end. *)
At(s, i) == IF i < 0 THEN i + Len(s) + 1 ELSE i + 1

(* What a method of s, called with x, i or another list t, can make of it. *)
Assigned(s, i, x) == IF At(s, i) \in DOMAIN s THEN [s EXCEPT ![At(s, i)] = x] ELSE s
Inserted(s, i, x) == LET p == IF At(s, i) < 1 THEN 1 ELSE IF At(s, i) > Len(s) + 1 THEN Len(s) + 1 ELSE At(s, i) IN
                     InsertAt(s, p, x)
Popped(s, i) == IF At(s, i) \in DOMAIN s THEN RemoveAt(s, At(s, i)) ELSE s
Repeated(s, k) == [j \in 1..Len(s) * k |-> s[((j - 1) % Len(s)) + 1]]

Sorted(s) ==
  {t \in {[j \in DOMAIN s |-> s[p[j]]] : p \in Bijection(DOMAIN s, DOMAIN s)} :
     \A j \in 1..Len(s) - 1 : t[j] <= t[j + 1]}

Change(o) ==
  LET s == seqs[o]
      Becomes(t) == seqs' = [seqs EXCEPT ![o] = t] IN
  \/ \E x \in Items : Becomes(Append(s, x)) \/ Becomes(RemoveFirst(s, x))
  \/ \E i \in -Len(s)..Len(s) : Becomes(Popped(s, i)) \/ \E x \in Items : Becomes(Assigned(s, i, x))
  \/ \E i \in -Len(s) - 1..Len(s) + 1, x \in Items : Becomes(Inserted(s, i, x))
  \/ \E p \in Objs : Becomes(s \o seqs[p])
  \/ Becomes(Reverse(s)) \/ Becomes(<<>>)
  \/ \E t \in Sorted(s) : Becomes(t) \/ Becomes(Reverse(t))

Create(o) ==
  LET Becomes(t) == seqs' = [seqs EXCEPT ![o] = t] IN
  \/ Becomes(<<>>)
  \/ \E p \in Objs : Becomes(seqs[p]) \/ \E k \in 0..2 : Becomes(Repeated(seqs[p], k))
  \/ \E p, q \in Objs : Becomes(seqs[p] \o seqs[q])

Next == \E o \in Objs : Change(o) \/ Create(o)

Spec == Init /\ [][Next]_seqs
===============================================================================

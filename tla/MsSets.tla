-------------------------------- MODULE MsSets --------------------------------
(***************************************************************************)
(* What mslang's sets promise: they are finite sets, every operation is    *)
(* the one of set theory, also on a set and itself, and only the set that  *)
(* a method is called on changes.  MsSet, the tables of                    *)
(* src/runtime/ms_set.c and ms_frozenset.c, implements it.                 *)
(***************************************************************************)
CONSTANTS Items, Objs

VARIABLES sets, frozen

vars == <<sets, frozen>>

Init == /\ sets = [o \in Objs |-> {}]
        /\ frozen = [o \in Objs |-> FALSE]

SymDiff(a, b) == (a \ b) \cup (b \ a)

Results(a, b) == {a \cup b, a \cap b, a \ b, SymDiff(a, b)}

(* A method changes the set it is called on. *)
Change(o) ==
  /\ ~frozen[o]
  /\ \/ \E x \in Items : sets' = [sets EXCEPT ![o] = @ \cup {x}] \/ sets' = [sets EXCEPT ![o] = @ \ {x}]
     \/ sets' = [sets EXCEPT ![o] = {}]
     \/ \E p \in Objs : ~frozen[p] /\ \E r \in Results(sets[o], sets[p]) : sets' = [sets EXCEPT ![o] = r]
  /\ frozen' = frozen

(* A variable is given a new set, made from two sets of its kind, or from *)
(* one of either kind. *)
Create(o) ==
  \E p, q \in Objs :
    \/ /\ frozen[p] = frozen[q]
       /\ \E r \in Results(sets[p], sets[q]) : sets' = [sets EXCEPT ![o] = r]
       /\ frozen' = [frozen EXCEPT ![o] = frozen[p]]
    \/ /\ sets' = [sets EXCEPT ![o] = sets[p]]
       /\ frozen' = [frozen EXCEPT ![o] = TRUE]
    \/ /\ sets' = [sets EXCEPT ![o] = sets[p]]
       /\ frozen' = [frozen EXCEPT ![o] = frozen[p]]
    \/ /\ sets' = [sets EXCEPT ![o] = {}]
       /\ frozen' = [frozen EXCEPT ![o] = FALSE]

Next == \E o \in Objs : Change(o) \/ Create(o)

Spec == Init /\ [][Next]_vars
===============================================================================

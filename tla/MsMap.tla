-------------------------------- MODULE MsMap --------------------------------
(***************************************************************************)
(* The open-addressing hash table of src/runtime/ms_map.c: linear probing, *)
(* tombstones for deleted entries, a new table of twice the size when      *)
(* three quarters are used up, the update of one map from another (itself  *)
(* included), and the key iterator, which remembers a slot number.         *)
(*                                                                         *)
(* A key stands for all values that msValueEqual takes to be the same; the *)
(* loops of msMapResize and msMapUpdate are taken one entry at a time.     *)
(***************************************************************************)
EXTENDS Integers, FiniteSets, FiniteSetsExt, MsPowers

CONSTANTS
  Keys, Values,
  HashOf,          \* HashOf[k]: the hash of key k
  NoKey, Absent,   \* no key; nil for a key that is not there
  Nil,             \* nil, which may be a key
  MinCap,          \* the smallest table (8)
  InitCaps,        \* the arguments of msNewMap
  MaxCap,          \* bound on the size of the table
  Overwrites       \* the program may assign to existing keys while it iterates

ASSUME MapAssumption ==
  /\ HashOf \in [Keys -> Nat]
  /\ NoKey \notin Keys /\ Absent \notin Values
  /\ MinCap \in Nat /\ MinCap >= 4 /\ PowerOfTwo(MinCap)
  /\ InitCaps \subseteq Nat
  /\ MaxCap \in Nat
  /\ Overwrites \in BOOLEAN

VARIABLES
  cap, entries, len, tombstones,   \* struct MsMapObj
  pc,                              \* "idle", or "resize" in mapSetHashed
  newEntries, i,                   \* msMapResize's table and loop variable
  argKey, argVal,                  \* mapSetHashed's arguments
  update,                          \* msMapUpdate's loop variable, or None
  slotIdx,                         \* the iterator's position, or None
  kept, seen, repeated             \* keys there since the iterator was made; keys it returned

table == <<cap, entries, len, tombstones>>
setting == <<pc, newEntries, i, argKey, argVal>>
iterator == <<slotIdx, kept, seen, repeated>>
vars == <<table, setting, update, iterator>>

None == -1
Never == [state |-> "never", key |-> NoKey, value |-> Absent]
Tombstone == [state |-> "tombstone", key |-> NoKey, value |-> Absent]
Occupied(k, v) == [state |-> "occupied", key |-> k, value |-> v]

Empty(c) == [s \in 0..c - 1 |-> Never]
Live(e) == {s \in DOMAIN e : e[s].state = "occupied"}
Deleted(e) == {s \in DOMAIN e : e[s].state = "tombstone"}
KeysIn(e) == {e[s].key : s \in Live(e)}

----------------------------------------------------------------------------
(* Probing. *)

(* The n-th slot that findSlot looks at in a table of c slots. *)
Probe(c, k, n) == (HashOf[k] + n) % c

(* findSlot stops at the key itself and at a slot that was never used. *)
StopsAt(e, c, k, n) ==
  \/ e[Probe(c, k, n)].state = "never"
  \/ e[Probe(c, k, n)].state = "occupied" /\ e[Probe(c, k, n)].key = k

ProbeEnds(e, c, k) == \E n \in 0..c - 1 : StopsAt(e, c, k, n)

Steps(e, c, k) ==
  CHOOSE n \in 0..c - 1 : StopsAt(e, c, k, n) /\ \A m \in 0..n - 1 : ~StopsAt(e, c, k, m)

(***************************************************************************)
(* findSlot: the slot of the key, or else the first tombstone on the way,  *)
(* or else the never-used slot.                                            *)
(***************************************************************************)
findSlot(e, c, k) ==
  LET last == Steps(e, c, k)
      passed == {n \in 0..last - 1 : e[Probe(c, k, n)].state = "tombstone"} IN
  IF e[Probe(c, k, last)].state = "never" /\ passed # {}
  THEN Probe(c, k, Min(passed))
  ELSE Probe(c, k, last)

(* msMapGet, through lookupEntry. *)
msMapGet(k) ==
  IF len = 0 THEN Absent
  ELSE LET e == entries[findSlot(entries, cap, k)] IN
       IF e.state = "occupied" THEN e.value ELSE Absent

Has(k) == msMapGet(k) # Absent

Dict == INSTANCE MsDict WITH dict <- [k \in Keys |-> msMapGet(k)]

----------------------------------------------------------------------------
(* The least power of two that is MinCap or more, and n or more. *)
roundUpPow2(n) == Min({p \in MinCap..MinCap + 2 * n : PowerOfTwo(p) /\ p >= n})

(* msNewMap *)
Init ==
  /\ cap \in {roundUpPow2(c) : c \in InitCaps}
  /\ entries = Empty(cap)
  /\ len = 0 /\ tombstones = 0
  /\ pc = "idle" /\ newEntries = Empty(0) /\ i = 0
  /\ argKey = NoKey /\ argVal = Absent
  /\ update = None
  /\ slotIdx = None /\ kept = {} /\ seen = {} /\ repeated = FALSE

Idle == pc = "idle" /\ update = None

----------------------------------------------------------------------------
(* Setting. *)

(* Mutant: tombstones are not counted against the load. *)
MustGrow_IgnoresTombstones == (len + 1) * 4 > cap * 3

MustGrow == (len + tombstones + 1) * 4 > cap * 3

Reclaimed(slot) == IF entries[slot].state = "tombstone" THEN tombstones - 1 ELSE tombstones

(* mapSetHashed, below the resize. *)
Insert(k, v) ==
  LET slot == findSlot(entries, cap, k) IN
  /\ entries' = [entries EXCEPT ![slot] = Occupied(k, v)]
  /\ len' = IF entries[slot].state = "occupied" THEN len ELSE len + 1
  /\ tombstones' = Reclaimed(slot)
  /\ cap' = cap

(* mapSetHashed, up to the resize. *)
mapSetHashed(k, v) ==
  IF MustGrow
  THEN /\ 2 * cap <= MaxCap
       /\ pc' = "resize" /\ newEntries' = Empty(2 * cap) /\ i' = 0
       /\ argKey' = k /\ argVal' = v
       /\ UNCHANGED table
  ELSE /\ Insert(k, v)
       /\ UNCHANGED setting

(* Mutant: the loop passes only over entries that it has moved. *)
NextOld_IfMoved == IF entries[i].state = "occupied" THEN i + 1 ELSE i

NextOld == i + 1

(* msMapResize: one entry of the old table goes to the new one. *)
Rehash ==
  /\ pc = "resize" /\ i < cap
  /\ i' = NextOld
  /\ newEntries' =
       IF entries[i].state = "occupied"
       THEN [newEntries EXCEPT ![findSlot(newEntries, 2 * cap, entries[i].key)] = entries[i]]
       ELSE newEntries
  /\ UNCHANGED <<table, pc, argKey, argVal, update, iterator>>

(* The end of msMapResize. *)
Rehashed ==
  /\ pc = "resize" /\ i = cap
  /\ entries' = newEntries /\ cap' = 2 * cap /\ tombstones' = 0 /\ len' = len
  /\ pc' = "insert" /\ newEntries' = Empty(0) /\ i' = 0
  /\ UNCHANGED <<argKey, argVal, update, iterator>>

(* The rest of mapSetHashed. *)
InsertAfterResize ==
  /\ pc = "insert"
  /\ Insert(argKey, argVal)
  /\ pc' = "idle" /\ argKey' = NoKey /\ argVal' = Absent
  /\ UNCHANGED <<newEntries, i, update, iterator>>

msMapSet(k, v) ==
  /\ Idle
  /\ slotIdx # None => Overwrites /\ Has(k)
  /\ mapSetHashed(k, v)
  /\ UNCHANGED <<update, iterator>>

(* A key that is there keeps its value. *)
msMapSetDefault(k, v) ==
  /\ Idle /\ slotIdx = None
  /\ ~Has(k)
  /\ mapSetHashed(k, v)
  /\ UNCHANGED <<update, iterator>>

----------------------------------------------------------------------------
(* Deleting. *)

(* Mutant: the deleted slot becomes one that was never used. *)
erased_Never == Never

erased == Tombstone

(* msMapDel and msMapPop; for a key that is not there they change nothing. *)
msMapDel(k) ==
  /\ Idle
  /\ Has(k)
  /\ entries' = [entries EXCEPT ![findSlot(entries, cap, k)] = erased]
  /\ len' = len - 1 /\ tombstones' = tombstones + 1 /\ cap' = cap
  /\ kept' = kept \ {k}
  /\ UNCHANGED <<setting, update, slotIdx, seen, repeated>>

msMapClear ==
  /\ Idle
  /\ entries' = Empty(cap)
  /\ len' = 0 /\ tombstones' = 0 /\ cap' = cap
  /\ kept' = {}
  /\ UNCHANGED <<setting, update, slotIdx, seen, repeated>>

(* The program goes on with a copy.  msNewMap is asked for as many slots as *)
(* the original has, and all of them are copied, tombstones included. *)
msMapCopy ==
  /\ Idle /\ slotIdx = None
  /\ cap' = roundUpPow2(cap)
  /\ entries' = [s \in 0..cap' - 1 |-> IF s < cap THEN entries[s] ELSE Never]
  /\ UNCHANGED <<len, tombstones, setting, update, iterator>>

----------------------------------------------------------------------------
(* msMapUpdate(v, other), where other is v itself: every entry is set      *)
(* again, in a table that may be replaced under the loop.  (An update from *)
(* another map is a series of msMapSet.) *)
UpdateStart ==
  /\ Idle /\ slotIdx = None /\ len > 0
  /\ update' = 0
  /\ UNCHANGED <<table, setting, iterator>>

UpdateStep ==
  /\ pc = "idle" /\ update # None /\ update < cap
  /\ update' = update + 1
  /\ IF entries[update].state = "occupied"
     THEN mapSetHashed(entries[update].key, entries[update].value)
     ELSE UNCHANGED <<table, setting>>
  /\ UNCHANGED <<iterator>>

UpdateEnd ==
  /\ pc = "idle" /\ update # None /\ update >= cap
  /\ update' = None
  /\ UNCHANGED <<table, setting, iterator>>

----------------------------------------------------------------------------
(* Iterating. *)

mapIter ==
  /\ Idle /\ slotIdx = None /\ len > 0
  /\ slotIdx' = 0
  /\ kept' = KeysIn(entries) /\ seen' = {} /\ repeated' = FALSE
  /\ UNCHANGED <<table, setting, update>>

Ahead == {s \in Live(entries) : s >= slotIdx}

(* Mutant: the position is that of the entry returned, not the next one. *)
Advanced_Not(s) == s

Advanced(s) == s + 1

(* What mapIterNext returns: the next key, or nil behind the last one. *)
Returned == IF Ahead = {} THEN Nil ELSE entries[Min(Ahead)].key

mapIterNext ==
  /\ Idle /\ slotIdx # None /\ Returned # Nil
  /\ slotIdx' = Advanced(Min(Ahead))
  /\ repeated' = (repeated \/ Returned \in seen)
  /\ seen' = seen \cup {Returned}
  /\ UNCHANGED <<table, setting, update, kept>>

(* OP_FOR_ITER takes nil for the end, the key nil as well. *)
LoopOver == slotIdx # None /\ Returned = Nil

IterEnd ==
  /\ Idle /\ LoopOver
  /\ slotIdx' = None /\ kept' = {} /\ seen' = {} /\ repeated' = FALSE
  /\ UNCHANGED <<table, setting, update>>

----------------------------------------------------------------------------
Program == \/ \E k \in Keys, v \in Values : msMapSet(k, v) \/ msMapSetDefault(k, v)
           \/ \E k \in Keys : msMapDel(k)
           \/ msMapClear \/ msMapCopy \/ UpdateStart \/ mapIter \/ mapIterNext \/ IterEnd

Loops == Rehash \/ Rehashed \/ InsertAfterResize \/ UpdateStep \/ UpdateEnd

Next == Program \/ Loops

Spec == Init /\ [][Next]_vars

(* Once entered, the C functions run. *)
FairSpec == Spec /\ WF_vars(Loops)

----------------------------------------------------------------------------
Entry == {Never, Tombstone} \cup {Occupied(k, v) : k \in Keys, v \in Values}

TypeOK ==
  /\ cap \in Nat \ {0}
  /\ entries \in [0..cap - 1 -> Entry]
  /\ len \in Nat /\ tombstones \in Nat
  /\ pc \in {"idle", "resize", "insert"}
  /\ newEntries \in [0..(IF pc = "resize" THEN 2 * cap ELSE 0) - 1 -> Entry]
  /\ i \in 0..cap
  /\ argKey \in Keys \cup {NoKey} /\ argVal \in Values \cup {Absent}
  /\ update \in Nat \cup {None} /\ slotIdx \in Nat \cup {None}
  /\ kept \subseteq Keys /\ seen \subseteq Keys /\ repeated \in BOOLEAN

(* The counters are exact, and a quarter of the table has never been used: *)
(* this is what findSlot's endless loop needs in order to end. *)
CountInv ==
  /\ len = Cardinality(Live(entries))
  /\ tombstones = Cardinality(Deleted(entries))
  /\ (len + tombstones) * 4 <= cap * 3
  /\ pc = "insert" => (len + tombstones + 1) * 4 <= cap * 3

(* A key is in one slot, and no never-used slot lies before it on its      *)
(* probe sequence. *)
Reachable(e, c) ==
  /\ \A s, t \in Live(e) : e[s].key = e[t].key => s = t
  /\ \A s \in Live(e) : \E n \in 0..c - 1 :
       /\ Probe(c, e[s].key, n) = s
       /\ \A m \in 0..n - 1 : ~StopsAt(e, c, e[s].key, m)

(* Every probe that an operation can start ends. *)
ProbesEnd == /\ \A k \in Keys : ProbeEnds(entries, cap, k)
             /\ pc = "resize" => \A k \in Keys : ProbeEnds(newEntries, 2 * cap, k)

(* The new table has the pairs that msMapResize has come to, and no        *)
(* tombstones; a call that is not over keeps its arguments. *)
Moved == {s \in Live(entries) : s < i}

ResizeInv ==
  /\ pc = "resize" =>
       /\ Deleted(newEntries) = {}
       /\ Cardinality(Live(newEntries)) = Cardinality(Moved)
       /\ {newEntries[t] : t \in Live(newEntries)} = {entries[s] : s \in Moved}
  /\ pc # "idle" => argKey \in Keys /\ argVal \in Values

(* A loop that only deletes has seen the keys in the slots that it has     *)
(* passed, and no other one that is still there. *)
IterInv ==
  ~Overwrites /\ slotIdx # None =>
    /\ Idle /\ ~repeated
    /\ kept = KeysIn(entries) /\ Nil \notin seen
    /\ \A s \in Live(entries) : entries[s].key \in seen <=> s < slotIdx

Inv == /\ TypeOK
       /\ cap >= MinCap /\ PowerOfTwo(cap)
       /\ CountInv
       /\ ProbesEnd
       /\ Reachable(entries, cap)
       /\ pc = "resize" => Reachable(newEntries, 2 * cap)
       /\ ResizeInv
       /\ IterInv

(* The map is a function from keys to values, in every history of          *)
(* insertions, deletions, resizes and self-updates. *)
ImplementsDict == Dict!Spec

BeforeNil == {s \in Live(entries) : \A t \in Live(entries) : entries[t].key = Nil => s < t}

(* A loop whose body only deletes meets each key that stays in the map and *)
(* none twice, except that it is over at the key nil: the keys behind that *)
(* one are not met (the known limitation of the iteration protocol). *)
IterationExact == LoopOver => ~repeated /\ kept \cap seen = {entries[s].key : s \in BeforeNil}

(* Every operation ends: the loop of msMapUpdate does although the table   *)
(* it runs over can double meanwhile. *)
OperationsEnd == ~Idle ~> Idle
===============================================================================

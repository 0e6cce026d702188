----------------------------- MODULE MsGCProofs -----------------------------
(***************************************************************************)
(* Proofs about MsGC, for any set of addresses, any sizes and thresholds:  *)
(* the type invariant, the tri-colour invariant, and from them that no     *)
(* reachable object is ever freed and that the collector dereferences only *)
(* allocated memory.                                                       *)
(***************************************************************************)
EXTENDS MsGC, SequenceTheorems, FiniteSetTheorems, TLAPS

----------------------------------------------------------------------------
(* Facts about reachability. *)

(* The reachable objects are themselves a root-containing closed set. *)
LEMMA ReachIsClosed ==
  ASSUME NEW rs \in SUBSET Objects, NEW e \in [Objects -> SUBSET Objects]
  PROVE  /\ rs \subseteq Heap!ReachFrom(rs, e)
         /\ Heap!Closed(Heap!ReachFrom(rs, e), e)
  BY DEF Heap!ReachFrom, Heap!Closed

(* They are the least such set. *)
LEMMA ReachIsLeast ==
  ASSUME NEW rs \in SUBSET Objects, NEW e \in [Objects -> SUBSET Objects],
         NEW S \in SUBSET Objects, rs \subseteq S, Heap!Closed(S, e)
  PROVE  Heap!ReachFrom(rs, e) \subseteq S
  BY DEF Heap!ReachFrom

(* What happens to the references of unreachable objects does not matter. *)
LEMMA ReachIgnoresGarbage ==
  ASSUME NEW rs \in SUBSET Objects,
         NEW e \in [Objects -> SUBSET Objects],
         NEW f \in [Objects -> SUBSET Objects],
         \A o \in Heap!ReachFrom(rs, e) : f[o] = e[o]
  PROVE  Heap!ReachFrom(rs, f) = Heap!ReachFrom(rs, e)
<1> DEFINE R == Heap!ReachFrom(rs, e)
           Q == Heap!ReachFrom(rs, f)
<1>1. R \in SUBSET Objects /\ Q \in SUBSET Objects
  BY DEF Heap!ReachFrom
<1>2. rs \subseteq R /\ Heap!Closed(R, e)
  BY ReachIsClosed
<1>3. Heap!Closed(R, f)
  BY <1>2 DEF Heap!Closed
<1>4. Q \subseteq R
  BY <1>1, <1>2, <1>3, ReachIsLeast
<1>5. rs \subseteq Q /\ Heap!Closed(Q, f)
  BY ReachIsClosed
<1>6. Heap!Closed(Q, e)
  BY <1>4, <1>5 DEF Heap!Closed
<1>7. R \subseteq Q
  BY <1>1, <1>5, <1>6, ReachIsLeast
<1> QED BY <1>4, <1>7

----------------------------------------------------------------------------
(* Types of the derived quantities. *)

LEMMA DerivedTypes ==
  TypeOK =>
         /\ Edges \in [Objects -> SUBSET Objects]
         /\ Held \in SUBSET Objects
         /\ Running => Reach = Heap!ReachFrom(Held, Edges)
         /\ Reach \in SUBSET Objects
<1> HAVE TypeOK
<1>1. Edges \in [Objects -> SUBSET Objects]
  BY DEF TypeOK, Edges
<1>2. Held \in SUBSET Objects
  BY DEF TypeOK, Held, Entries
<1>3. Reach \in SUBSET Objects
  BY DEF Reach, Heap!Reach, Heap!ReachFrom
<1>4. Running => Reach = Heap!ReachFrom(Held, Edges)
  BY DEF Reach, Heap!Reach
<1> QED BY <1>1, <1>2, <1>3, <1>4

(* traverse visits exactly the references, markRoots exactly the roots. *)
LEMMA VisitsAll ==
  TypeOK =>
         /\ \A o \in Objects : traverse(o) = Edges[o]
         /\ markRoots = Held
<1> HAVE TypeOK
<1>1. ASSUME NEW o \in Objects PROVE traverse(o) = Edges[o]
  BY DEF TypeOK, traverse, Edges
<1>2. {open[s] : s \in {u \in Slots : open[u] # Null}} = {open[s] : s \in Slots} \cap Objects
  BY SMTT(30), GCAssumption DEF TypeOK
<1>3. (IF globals = Null THEN {} ELSE {globals}) = {globals} \cap Objects
  BY GCAssumption DEF TypeOK
<1> QED BY <1>1, <1>2, <1>3 DEF markRoots, Held

(* A root-containing closed set contains what is reachable. *)
LEMMA ClosedSetReach ==
  TypeOK /\ Running =>
    \A S \in SUBSET Objects : ClosedSet(S) => Reach \subseteq S
  BY DerivedTypes, ReachIsLeast DEF ClosedSet, Heap!Closed

LEMMA ReachClosedSet ==
  TypeOK /\ Running => ClosedSet(Reach)
  BY DerivedTypes, ReachIsClosed DEF ClosedSet, Heap!Closed

----------------------------------------------------------------------------
(* The type invariant. *)

LEMMA DeadSizeType == DeadSize \in Sizes
  BY GCAssumption DEF DeadSize

LEMMA InitTypeOK == Init => TypeOK
<1> SUFFICES ASSUME Init PROVE TypeOK
  OBVIOUS
<1>1. size \in [Objects -> Sizes]
  BY DeadSizeType DEF Init
<1>2. req \in Reqs
  BY DEF Init, Reqs
<1> QED
  BY <1>1, <1>2, GCAssumption DEF Init, TypeOK, Types, StaticTypes, Slots, Phases

LEMMA ShorterSeq ==
  ASSUME NEW S, NEW s \in Seq(S), NEW n \in Nat, n <= Len(s)
  PROVE  /\ SubSeq(s, 1, n) \in Seq(S)
         /\ Len(SubSeq(s, 1, n)) = n
         /\ \A k \in 1..n : SubSeq(s, 1, n)[k] = s[k]
  OBVIOUS

LEMMA PopSeq ==
  ASSUME NEW S, NEW s \in Seq(S), Len(s) > 0
  PROVE  /\ SubSeq(s, 1, Len(s) - 1) \in Seq(S)
         /\ Len(SubSeq(s, 1, Len(s) - 1)) = Len(s) - 1
         /\ \A k \in 1..(Len(s) - 1) : SubSeq(s, 1, Len(s) - 1)[k] = s[k]
<1>1. Len(s) - 1 \in Nat /\ Len(s) - 1 <= Len(s)
  OBVIOUS
<1> QED BY <1>1, ShorterSeq

(* Freed memory is typed. *)
LEMMA ScrubTypes ==
  ASSUME TypeOK, NEW o, Scrub(o)
  PROVE  /\ type' \in [Objects -> Types]
         /\ refs' \in [Objects -> SUBSET Objects]
         /\ size' \in [Objects -> Sizes]
<1>1. type' \in [Objects -> Types]
  BY DEF TypeOK, Scrub, Types, StaticTypes
<1>2. refs' \in [Objects -> SUBSET Objects]
  BY DEF TypeOK, Scrub
<1>3. size' \in [Objects -> Sizes]
  BY DeadSizeType DEF TypeOK, Scrub
<1> QED BY <1>1, <1>2, <1>3

(* It needs the list invariant (the compaction index stays inside          *)
(* allObjects) and the request invariant (there is room on the stack for   *)
(* the object that is being allocated). *)
LEMMA NextTypeOK == Inv /\ [Next]_vars => TypeOK'
<1> SUFFICES ASSUME TypeOK, ListInv, ReqInv, [Next]_vars PROVE TypeOK'
  BY DEF Inv
<1> USE DEF TypeOK, heap, vm, account, loop
<1>1. ASSUME NEW v \in Objects, Push(v) PROVE TypeOK'
  BY <1>1, GCAssumption DEF Push
<1>2. ASSUME NEW v \in Objects, msGCPushRoot(v) PROVE TypeOK'
  BY <1>2 DEF msGCPushRoot, Phases
<1>3. ASSUME NEW o \in Objects, NEW v \in Objects, Store(o, v) PROVE TypeOK'
  BY <1>3 DEF Store, Phases
<1>4. CASE Pop
  <2>1. stack' \in Seq(Objects) /\ Len(stack') <= MaxStack
    BY <1>4, PopSeq, GCAssumption DEF Pop
  <2> QED BY <1>4, <2>1 DEF Pop
<1>5. CASE CloseUpvalue
  <2>1. stack' \in Seq(Objects) /\ Len(stack') <= MaxStack
    BY <1>5, PopSeq, GCAssumption DEF CloseUpvalue
  <2>2. Len(stack) \in Slots /\ stack[Len(stack)] \in Objects
    BY <1>5, GCAssumption DEF CloseUpvalue, Slots
  <2>3. open[Len(stack)] \in Objects
    BY <1>5, <2>2 DEF CloseUpvalue
  <2>4. refs' \in [Objects -> SUBSET Objects]
    BY <1>5, <2>2 DEF CloseUpvalue, closedVal
  <2>5. open' \in [Slots -> Objects \cup {Null}]
    BY <1>5, <2>2 DEF CloseUpvalue
  <2> QED BY <1>5, <2>1, <2>4, <2>5 DEF CloseUpvalue
<1>6. CASE msGCPopRoot
  BY <1>6, PopSeq DEF msGCPopRoot
<1>7. ASSUME NEW o \in Objects, NEW r \in Objects, Drop(o, r) PROVE TypeOK'
  BY <1>7 DEF Drop
<1>8. ASSUME NEW t \in Types, NEW sz \in Sizes, NEW s \in 0..MaxStack,
             msGCAlloc(t, sz, s)
      PROVE  TypeOK'
  <2>1. req' \in Reqs
    BY <1>8 DEF msGCAlloc, Reqs
  <2>2. gray' \subseteq Objects /\ phase' \in Phases
    BY <1>8, VisitsAll, DerivedTypes DEF msGCAlloc, StartCollect, Phases
  <2> QED BY <1>8, <2>1, <2>2 DEF msGCAlloc
<1>9. CASE msGCCollect
  BY <1>9, VisitsAll, DerivedTypes DEF msGCCollect, StartCollect, Phases
<1>10. CASE msGCShutdown
  BY <1>10 DEF msGCShutdown, Phases
<1>11. ASSUME NEW o \in Objects, markObject(o) PROVE TypeOK'
  <2>1. traverse(o) \subseteq Objects
    BY DEF traverse
  <2> QED BY <1>11, <2>1 DEF markObject, Phases
<1>12. CASE MarkDone
  BY <1>12 DEF MarkDone, Phases
<1>13. CASE SweepTally
  <2>1. allObjects[i] \in Objects
    BY <1>13 DEF SweepTally
  <2>2. objectSize(allObjects[i]) \in Nat
    BY <2>1, GCAssumption DEF objectSize
  <2>3. freedBytes' \in Nat /\ freedCount' \in Nat
    BY <1>13, <2>2 DEF SweepTally
  <2> QED BY <1>13, <2>3 DEF SweepTally, destroy
<1>14. CASE TallyDone
  BY <1>14 DEF TallyDone, Phases
<1>15. CASE SweepFree
  <2>1. CASE allObjects[i] \in mark
    <3>1. allObjects[i] \in Objects /\ writeIdx + 1 \in 1..Len(allObjects)
      BY SMTT(30), <1>15 DEF SweepFree, ListInv
    <3>2. allObjects' = [allObjects EXCEPT ![writeIdx + 1] = allObjects[i]]
      BY <1>15, <2>1 DEF SweepFree
    <3>3. allObjects' \in Seq(Objects)
      BY <3>1, <3>2, ExceptSeq
    <3>4. mark' \subseteq Objects /\ i' \in Nat \ {0} /\ writeIdx' \in Nat
      BY SMTT(30), <1>15, <2>1 DEF SweepFree, unmark
    <3>5. UNCHANGED <<heap, roots, account, vm, phase, gray, freedBytes, freedCount, req>>
      BY <1>15, <2>1 DEF SweepFree
    <3> QED BY <3>3, <3>4, <3>5
  <2>2. CASE allObjects[i] \notin mark
    BY <1>15, <2>2, ScrubTypes DEF SweepFree
  <2> QED BY <2>1, <2>2
<1>16. CASE SweepDone
  <2>1. allObjects' \in Seq(Objects)
    <3>1. writeIdx <= Len(allObjects)
      BY <1>16 DEF SweepDone, ListInv
    <3> QED BY <1>16, <3>1, ShorterSeq DEF SweepDone
  <2>2. bytesAlloc' \in Int /\ nextGC' \in Int /\ numObjects' \in Int
    BY <1>16, GCAssumption DEF SweepDone
  <2> QED BY <1>16, <2>1, <2>2 DEF SweepDone, Phases
<1>17. ASSUME NEW o \in Objects, AllocObject(o) PROVE TypeOK'
  <2>1. req.type \in Types /\ req.size \in Sizes /\ req.slot \in 0..MaxStack
    BY <1>17 DEF AllocObject, Reqs, ReqInv
  <2>2. stack' \in Seq(Objects) /\ Len(stack') <= MaxStack
    <3>1. CASE req.slot = 0
      <4>1. Len(stack) < MaxStack
        BY <1>17, <3>1 DEF AllocObject, ReqInv
      <4>2. stack' = Append(stack, o)
        BY <1>17, <3>1 DEF AllocObject
      <4> QED BY <4>1, <4>2, GCAssumption
    <3>2. CASE req.slot # 0
      BY <1>17, <3>2 DEF AllocObject
    <3> QED BY <3>1, <3>2
  <2>3. open' \in [Slots -> Objects \cup {Null}]
    BY <1>17, <2>1 DEF AllocObject
  <2>4. /\ type' \in [Objects -> Types]
        /\ refs' \in [Objects -> SUBSET Objects]
        /\ size' \in [Objects -> Sizes]
    BY <1>17, <2>1 DEF AllocObject
  <2>5. allObjects' \in Seq(Objects) /\ bytesAlloc' \in Int /\ numObjects' \in Int
    BY <1>17, <2>1, GCAssumption DEF AllocObject, registered
  <2> QED BY <1>17, <2>2, <2>3, <2>4, <2>5 DEF AllocObject, Phases, Reqs
<1>18. CASE msAllocAborts
  BY <1>18 DEF msAllocAborts, Phases
<1>19. CASE ShutdownDestroy
  BY <1>19 DEF ShutdownDestroy, Phases
<1>20. CASE ShutdownFree
  <2>1. CASE MoreObjects
    BY <1>20, <2>1, ScrubTypes DEF ShutdownFree
  <2>2. CASE ~MoreObjects
    BY <1>20, <2>2 DEF ShutdownFree, Phases
  <2> QED BY <2>1, <2>2
<1>21. CASE UNCHANGED vars
  BY <1>21 DEF vars
<1> QED
  BY <1>1, <1>2, <1>3, <1>4, <1>5, <1>6, <1>7, <1>8, <1>9, <1>10, <1>11, <1>12,
     <1>13, <1>14, <1>15, <1>16, <1>17, <1>18, <1>19, <1>20, <1>21
  DEF Next, Mutator, Collector

----------------------------------------------------------------------------
(* Sequences whose elements are distinct. *)

LEMMA NextEntry ==
  ASSUME NEW S, NEW q \in Seq(S), NEW n \in 1..Len(q), Distinct(q, n, Len(q))
  PROVE  /\ q[n] \in Entries(q, n, Len(q))
         /\ Entries(q, n + 1, Len(q)) = Entries(q, n, Len(q)) \ {q[n]}
         /\ Distinct(q, n + 1, Len(q))
  BY DEF Entries, Distinct

(* One survivor moved down in place: q[n] to index w + 1 <= n. *)
MovedDown(p, q, n, w) ==
  /\ Len(p) = Len(q)
  /\ Entries(p, 1, w + 1) = Entries(q, 1, w) \cup {q[n]}
  /\ Entries(p, n + 1, Len(p)) = Entries(q, n, Len(q)) \ {q[n]}
  /\ Distinct(p, 1, w + 1)
  /\ Distinct(p, n + 1, Len(p))

LEMMA MoveDown ==
  ASSUME NEW S, NEW q \in Seq(S), NEW n \in 1..Len(q), NEW w \in 0..(n - 1),
         Distinct(q, 1, w), Distinct(q, n, Len(q)),
         Entries(q, 1, w) \cap Entries(q, n, Len(q)) = {},
         NEW p, p = [q EXCEPT ![w + 1] = q[n]]
  PROVE  MovedDown(p, q, n, w)
<1>1. w + 1 \in 1..Len(q) /\ q[n] \in S
  OBVIOUS
<1>2. /\ Len(p) = Len(q)
      /\ \A j \in 1..Len(q) : p[j] = IF j = w + 1 THEN q[n] ELSE q[j]
  BY <1>1, ExceptSeq
<1>3. \A j \in 1..w : p[j] = q[j]
  BY <1>2
<1>4. p[w + 1] = q[n]
  BY <1>1, <1>2
<1>5. \A j \in (n + 1)..Len(q) : p[j] = q[j]
  BY <1>2
<1>6. Entries(p, 1, w + 1) = Entries(q, 1, w) \cup {q[n]}
  <2>1. 1..(w + 1) = (1..w) \cup {w + 1}
    OBVIOUS
  <2> QED BY <1>3, <1>4, <2>1 DEF Entries
<1>7. Entries(p, n + 1, Len(p)) = Entries(q, n + 1, Len(q))
  BY <1>2, <1>5 DEF Entries
<1>8. ASSUME NEW j \in 1..w PROVE q[j] # q[n]
  <2>1. q[j] \in Entries(q, 1, w) /\ q[n] \in Entries(q, n, Len(q))
    BY DEF Entries
  <2> QED BY <2>1
<1>9. Distinct(p, 1, w + 1)
  BY <1>3, <1>4, <1>8 DEF Distinct
<1>10. Distinct(p, n + 1, Len(p))
  <2>1. Distinct(q, n + 1, Len(q))
    BY NextEntry
  <2> QED BY <1>2, <1>5, <2>1 DEF Distinct
<1> QED BY <1>2, <1>6, <1>7, <1>9, <1>10, NextEntry DEF MovedDown

LEMMA AddEntry ==
  ASSUME NEW S, NEW q \in Seq(S), NEW v \in S, Distinct(q, 1, Len(q)),
         v \notin Entries(q, 1, Len(q)), NEW p, p = Append(q, v)
  PROVE  /\ Entries(p, 1, Len(p)) = Entries(q, 1, Len(q)) \cup {v}
         /\ Distinct(p, 1, Len(p))
<1>1. /\ Len(p) = Len(q) + 1 /\ p[Len(q) + 1] = v
      /\ \A j \in 1..Len(q) : p[j] = q[j]
  OBVIOUS
<1>2. 1..(Len(q) + 1) = (1..Len(q)) \cup {Len(q) + 1}
  OBVIOUS
<1> QED BY <1>1, <1>2 DEF Entries, Distinct

LEMMA PushEntry ==
  ASSUME NEW S, NEW q \in Seq(S), NEW v \in S
  PROVE  Entries(Append(q, v), 1, Len(Append(q, v))) = Entries(q, 1, Len(q)) \cup {v}
<1>1. /\ Len(Append(q, v)) = Len(q) + 1 /\ Append(q, v)[Len(q) + 1] = v
      /\ \A j \in 1..Len(q) : Append(q, v)[j] = q[j]
  OBVIOUS
<1>2. 1..(Len(q) + 1) = (1..Len(q)) \cup {Len(q) + 1}
  OBVIOUS
<1> QED BY <1>1, <1>2 DEF Entries

LEMMA PopEntry ==
  ASSUME NEW S, NEW q \in Seq(S), Len(q) > 0, NEW p, p = SubSeq(q, 1, Len(q) - 1)
  PROVE  Entries(p, 1, Len(p)) \subseteq Entries(q, 1, Len(q))
<1>1. Len(p) = Len(q) - 1 /\ \A k \in 1..(Len(q) - 1) : p[k] = q[k]
  BY PopSeq
<1> QED BY <1>1 DEF Entries

LEMMA CutEntries ==
  ASSUME NEW S, NEW q \in Seq(S), NEW w \in 0..Len(q), Distinct(q, 1, w),
         NEW p, p = SubSeq(q, 1, w)
  PROVE  /\ Entries(p, 1, Len(p)) = Entries(q, 1, w)
         /\ Distinct(p, 1, Len(p))
<1>1. Len(p) = w /\ \A j \in 1..w : p[j] = q[j]
  BY ShorterSeq
<1> QED BY <1>1 DEF Entries, Distinct

----------------------------------------------------------------------------
(* allObjects lists each allocated object once. *)

LEMMA NextListInv == Inv /\ [Next]_vars => ListInv'
<1> SUFFICES ASSUME Inv, [Next]_vars PROVE ListInv'
  OBVIOUS
<1>0. TypeOK /\ ListInv /\ ColourInv /\ TypeOK'
  BY NextTypeOK DEF Inv
<1>a. /\ allObjects \in Seq(Objects) /\ Len(allObjects) \in Nat
      /\ i \in Nat \ {0} /\ writeIdx \in Nat
  BY <1>0 DEF TypeOK
<1>1. CASE UNCHANGED <<mem, allObjects, phase, i, writeIdx, mark>>
  <2>1. Listed' = Listed /\ Kept' = Kept /\ Rest' = Rest
    BY <1>1 DEF Listed, Kept, Rest
  <2> QED BY <1>0, <1>1, <2>1 DEF ListInv
<1>b. CASE /\ UNCHANGED <<mem, allObjects>>
           /\ phase \notin {"free", "release", "down"}
           /\ phase' \notin {"free", "release", "down"}
  <2>1. Listed' = Listed
    BY <1>b DEF Listed
  <2> QED BY <1>0, <1>b, <2>1 DEF ListInv
<1>2. ASSUME NEW t \in Types, NEW sz \in Sizes, NEW s \in 0..MaxStack,
             msGCAlloc(t, sz, s)
      PROVE  ListInv'
  BY <1>2, <1>b DEF msGCAlloc, StartCollect, heap
<1>3. CASE msGCCollect
  BY <1>3, <1>b DEF msGCCollect, StartCollect, heap
<1>4. CASE msGCShutdown
  BY <1>4, <1>b DEF msGCShutdown, heap
<1>5. ASSUME NEW o \in Objects, markObject(o) PROVE ListInv'
  BY <1>5, <1>b DEF markObject, heap
<1>6. CASE MarkDone
  BY <1>6, <1>b DEF MarkDone, heap
<1>7. CASE SweepTally
  BY <1>7, <1>b DEF SweepTally, destroy, heap
<1>8. CASE TallyDone
  <2>1. /\ phase = "tally" /\ phase' = "free" /\ i' = 1 /\ writeIdx' = 0
        /\ UNCHANGED <<mem, allObjects, mark>>
    BY <1>8 DEF TallyDone, heap
  <2>2. Listed = mem /\ Distinct(allObjects, 1, Len(allObjects)) /\ mark \subseteq mem
    <3>1. Reach \subseteq mem
      BY <1>0, <2>1, ClosedSetReach DEF ColourInv, Running, TypeOK
    <3> QED BY <1>0, <2>1, <3>1 DEF ListInv, ColourInv
  <2>3. Rest' = Listed /\ Kept' = {}
    BY <2>1 DEF Rest, Kept, Listed, Entries
  <2>4. Distinct(allObjects, 1, writeIdx)' /\ Distinct(allObjects, i, Len(allObjects))'
    BY <2>1, <2>2 DEF Distinct
  <2>5. writeIdx' < i' /\ i' <= Len(allObjects') + 1
    BY <1>a, <2>1
  <2> QED BY <2>1, <2>2, <2>3, <2>4, <2>5 DEF ListInv
<1>9. CASE SweepFree
  <2> DEFINE obj == allObjects[i]
  <2>1. /\ phase = "free" /\ phase' = "free" /\ i \in 1..Len(allObjects) /\ i' = i + 1
    BY <1>9, <1>a DEF SweepFree
  <2>2. /\ writeIdx \in 0..(i - 1) /\ mem = Kept \cup Rest /\ Kept \cap Rest = {}
        /\ Distinct(allObjects, 1, writeIdx) /\ Distinct(allObjects, i, Len(allObjects))
        /\ mark \subseteq Rest
    BY <1>0, <1>a, <2>1 DEF ListInv
  <2>3. obj \in Rest /\ obj \notin Kept
    BY <1>a, <2>1, <2>2, NextEntry DEF Rest
  <2>4. CASE obj \in mark
    <3>1. /\ allObjects' = [allObjects EXCEPT ![writeIdx + 1] = obj]
          /\ writeIdx' = writeIdx + 1 /\ mem' = mem /\ mark' = mark \ {obj}
      BY <1>9, <2>4 DEF SweepFree, unmark, heap
    <3>2. /\ Len(allObjects') = Len(allObjects)
          /\ Entries(allObjects', 1, writeIdx + 1) = Kept \cup {obj}
          /\ Entries(allObjects', i + 1, Len(allObjects')) = Rest \ {obj}
          /\ Distinct(allObjects', 1, writeIdx + 1)
          /\ Distinct(allObjects', i + 1, Len(allObjects'))
      <4> PICK q : q = allObjects
        OBVIOUS
      <4> PICK p : p = allObjects'
        OBVIOUS
      <4> PICK n, w : n = i /\ w = writeIdx
        OBVIOUS
      <4>1. /\ q \in Seq(Objects) /\ n \in 1..Len(q) /\ w \in 0..(n - 1)
            /\ Distinct(q, 1, w) /\ Distinct(q, n, Len(q))
            /\ p = [q EXCEPT ![w + 1] = q[n]]
        BY <1>a, <2>1, <2>2, <3>1
      <4>2. Kept = Entries(q, 1, w) /\ Rest = Entries(q, n, Len(q))
        BY DEF Kept, Rest
      <4>3. Entries(q, 1, w) \cap Entries(q, n, Len(q)) = {}
        BY <2>2, <4>2
      <4>4. MovedDown(p, q, n, w)
        BY <4>1, <4>3, MoveDown
      <4> QED BY <4>1, <4>2, <4>4 DEF MovedDown
    <3>3. Kept' = Kept \cup {obj} /\ Rest' = Rest \ {obj}
      BY <2>1, <3>1, <3>2 DEF Kept, Rest
    <3>4. writeIdx' < i' /\ i' <= Len(allObjects') + 1
      BY <1>a, <2>1, <2>2, <3>1, <3>2
    <3> QED BY <2>1, <2>2, <2>3, <3>1, <3>2, <3>3, <3>4 DEF ListInv
  <2>5. CASE obj \notin mark
    <3>1. mem' = mem \ {obj} /\ UNCHANGED <<mark, allObjects, writeIdx>>
      BY <1>9, <2>5 DEF SweepFree
    <3>2. /\ Rest' = Rest \ {obj} /\ Kept' = Kept
          /\ Distinct(allObjects, i, Len(allObjects))'
      BY <1>a, <2>1, <2>2, <3>1, NextEntry DEF Rest, Kept
    <3>3. Distinct(allObjects, 1, writeIdx)'
      BY <2>2, <3>1
    <3>4. writeIdx' < i' /\ i' <= Len(allObjects') + 1
      BY <1>a, <2>1, <2>2, <3>1
    <3> QED BY <2>1, <2>2, <2>3, <2>5, <3>1, <3>2, <3>3, <3>4 DEF ListInv
  <2> QED BY <2>4, <2>5
<1>10. CASE SweepDone
  <2>1. /\ phase = "free" /\ i > Len(allObjects)
        /\ allObjects' = SubSeq(allObjects, 1, writeIdx) /\ mem' = mem
        /\ phase' \in {"run", "alloc"}
    BY <1>10 DEF SweepDone, heap
  <2>2. /\ writeIdx \in 0..Len(allObjects) /\ mem = Kept \cup Rest
        /\ Distinct(allObjects, 1, writeIdx)
    BY <1>0, <1>a, <2>1 DEF ListInv
  <2>3. Rest = {}
    BY <1>a, <2>1 DEF Rest, Entries
  <2>4. Listed' = Kept /\ Distinct(allObjects, 1, Len(allObjects))'
    BY <1>a, <2>1, <2>2, CutEntries DEF Listed, Kept
  <2> QED BY <2>1, <2>2, <2>3, <2>4 DEF ListInv
<1>11. ASSUME NEW o \in Objects, AllocObject(o) PROVE ListInv'
  <2>1. /\ phase = "alloc" /\ phase' = "run" /\ o \notin mem /\ mem' = mem \cup {o}
        /\ allObjects' = Append(allObjects, o)
    BY <1>11 DEF AllocObject, registered
  <2>2. Listed = mem /\ Distinct(allObjects, 1, Len(allObjects))
    BY <1>0, <2>1 DEF ListInv
  <2>3. Listed' = Listed \cup {o} /\ Distinct(allObjects, 1, Len(allObjects))'
    <3>1. o \notin Entries(allObjects, 1, Len(allObjects))
      BY <2>1, <2>2 DEF Listed
    <3>2. /\ Entries(allObjects', 1, Len(allObjects')) = Entries(allObjects, 1, Len(allObjects)) \cup {o}
          /\ Distinct(allObjects', 1, Len(allObjects'))
      <4>1. PICK q : q = allObjects
        OBVIOUS
      <4>2. PICK p : p = allObjects'
        OBVIOUS
      <4>3. q \in Seq(Objects) /\ o \in Objects /\ p = Append(q, o)
        BY <1>a, <2>1, <4>1, <4>2
      <4>4. Distinct(q, 1, Len(q)) /\ o \notin Entries(q, 1, Len(q))
        BY <2>2, <3>1, <4>1
      <4>5. Entries(p, 1, Len(p)) = Entries(q, 1, Len(q)) \cup {o} /\ Distinct(p, 1, Len(p))
        BY ONLY Zenon, <4>3, <4>4, AddEntry
      <4> QED BY <4>1, <4>2, <4>5
    <3> QED BY <3>2 DEF Listed, Entries, Distinct
  <2> QED BY <2>1, <2>2, <2>3 DEF ListInv
<1>12. CASE msAllocAborts
  BY <1>12, <1>b DEF msAllocAborts, heap
<1>13. CASE ShutdownDestroy
  <2>1. CASE MoreObjects
    BY <1>13, <1>b, <2>1 DEF ShutdownDestroy, heap
  <2>2. CASE ~MoreObjects
    <3>1. /\ phase = "destroy" /\ phase' = "release" /\ i' = 1
          /\ UNCHANGED <<mem, allObjects>>
      BY <1>13, <2>2 DEF ShutdownDestroy, heap
    <3>2. Listed = mem /\ Distinct(allObjects, 1, Len(allObjects))
      BY <1>0, <3>1 DEF ListInv
    <3>3. Rest' = Listed
      BY <3>1 DEF Rest, Listed
    <3> QED BY <3>1, <3>2, <3>3 DEF ListInv
  <2> QED BY <2>1, <2>2
<1>14. CASE ShutdownFree
  <2>1. CASE MoreObjects
    <3>1. /\ phase = "release" /\ phase' = "release" /\ i \in 1..Len(allObjects)
          /\ i' = i + 1 /\ allObjects' = allObjects /\ mem' = mem \ {allObjects[i]}
      BY <1>14, <1>a, <2>1 DEF ShutdownFree, MoreObjects
    <3>2. mem = Rest /\ Distinct(allObjects, i, Len(allObjects))
      BY <1>0, <3>1 DEF ListInv
    <3>3. Rest' = Rest \ {allObjects[i]} /\ Distinct(allObjects, i, Len(allObjects))'
      BY <1>a, <3>1, <3>2, NextEntry DEF Rest
    <3> QED BY <3>1, <3>2, <3>3 DEF ListInv
  <2>2. CASE ~MoreObjects
    <3>1. phase = "release" /\ phase' = "down" /\ mem' = mem /\ i > Len(allObjects)
      BY <1>14, <1>a, <2>2 DEF ShutdownFree, MoreObjects, heap
    <3>2. mem = {}
      BY <1>0, <1>a, <3>1 DEF ListInv, Rest, Entries
    <3> QED BY <3>1, <3>2 DEF ListInv
  <2> QED BY <2>1, <2>2
<1>15. ASSUME NEW v \in Objects, Push(v) \/ msGCPushRoot(v)
       PROVE  UNCHANGED <<mem, allObjects, phase, i, writeIdx, mark>>
  BY <1>15 DEF heap, loop, Push, msGCPushRoot
<1>16. ASSUME NEW o \in Objects, NEW r \in Objects, Store(o, r) \/ Drop(o, r)
       PROVE  UNCHANGED <<mem, allObjects, phase, i, writeIdx, mark>>
  BY <1>16 DEF heap, loop, Store, Drop
<1>17. ASSUME Pop \/ CloseUpvalue \/ msGCPopRoot
       PROVE  UNCHANGED <<mem, allObjects, phase, i, writeIdx, mark>>
  BY <1>17 DEF heap, loop, Pop, CloseUpvalue, msGCPopRoot
<1>18. CASE UNCHANGED vars
  BY <1>1, <1>18 DEF vars, heap, loop
<1> QED
  BY <1>1, <1>2, <1>3, <1>4, <1>5, <1>6, <1>7, <1>8, <1>9, <1>10, <1>11, <1>12,
     <1>13, <1>14, <1>15, <1>16, <1>17, <1>18
  DEF Next, Mutator, Collector

----------------------------------------------------------------------------
(* A pending allocation stays well formed. *)

LEMMA NextReqInv == Inv /\ [Next]_vars => ReqInv'
<1> SUFFICES ASSUME Inv, [Next]_vars PROVE ReqInv'
  OBVIOUS
<1>0. TypeOK /\ ReqInv /\ TypeOK'
  BY NextTypeOK DEF Inv
<1> USE <1>0 DEF TypeOK, vm
<1>1. CASE phase = "run" /\ phase' = "run" /\ UNCHANGED req
  BY <1>1 DEF ReqInv
<1>2. CASE UNCHANGED <<stack, roots, globals, open, req>>
           /\ \/ phase' = phase
              \/ phase' \in {"mark", "tally", "free", "aborted"}
              \/ phase \in {"run", "destroy"} /\ phase' \in {"destroy", "release"}
  BY <1>2 DEF ReqInv, Held
<1>3. ASSUME NEW t \in Types, NEW sz \in Sizes, NEW s \in 0..MaxStack,
             msGCAlloc(t, sz, s)
      PROVE  ReqInv'
  <2>1. /\ req' = [type |-> t, size |-> sz, slot |-> s] /\ phase' \in {"mark", "alloc"}
        /\ UNCHANGED <<stack, roots, globals, open>>
    BY <1>3 DEF msGCAlloc, StartCollect
  <2>2. req' # NoReq
    <3>1. req'.size \in Nat \ {0}
      BY <2>1, GCAssumption
    <3> QED BY <3>1 DEF NoReq
  <2>a. req'.type = t /\ req'.slot = s
    BY <2>1
  <2>3. t \in Objects => t \in Held'
    BY <1>3, <2>1 DEF msGCAlloc, Held, Entries
  <2>4. s = 0 => Len(stack) < MaxStack
    BY <1>3, GCAssumption DEF msGCAlloc, StaticTypes, Types
  <2> QED BY <2>1, <2>2, <2>a, <2>3, <2>4 DEF ReqInv
<1>4. CASE SweepDone
  BY <1>4 DEF SweepDone, ReqInv, Held
<1>5. ASSUME NEW o \in Objects, AllocObject(o) PROVE ReqInv'
  BY <1>5 DEF AllocObject, ReqInv
<1>6. ASSUME NEW v \in Objects, Push(v) \/ msGCPushRoot(v)
      PROVE  phase = "run" /\ phase' = "run" /\ UNCHANGED req
  BY <1>6 DEF Push, msGCPushRoot
<1>7. ASSUME NEW o \in Objects, NEW r \in Objects, Store(o, r) \/ Drop(o, r)
      PROVE  phase = "run" /\ phase' = "run" /\ UNCHANGED req
  BY <1>7 DEF Store, Drop
<1>8. ASSUME Pop \/ CloseUpvalue \/ msGCPopRoot
      PROVE  phase = "run" /\ phase' = "run" /\ UNCHANGED req
  BY <1>8 DEF Pop, CloseUpvalue, msGCPopRoot
<1>9. ASSUME NEW o \in Objects, markObject(o)
      PROVE  UNCHANGED <<stack, roots, globals, open, req, phase>>
  BY <1>9 DEF markObject
<1>10. ASSUME \/ SweepTally \/ SweepFree \/ UNCHANGED vars
       PROVE  UNCHANGED <<stack, roots, globals, open, req, phase>>
  BY <1>10 DEF SweepTally, SweepFree, vars
<1>11. ASSUME msGCCollect \/ MarkDone \/ TallyDone \/ msAllocAborts
       PROVE  /\ UNCHANGED <<stack, roots, globals, open, req>>
              /\ phase' \in {"mark", "tally", "free", "aborted"}
  BY <1>11 DEF msGCCollect, StartCollect, MarkDone, TallyDone, msAllocAborts
<1>12. ASSUME msGCShutdown \/ ShutdownDestroy
       PROVE  /\ UNCHANGED <<stack, roots, globals, open, req>>
              /\ phase \in {"run", "destroy"} /\ phase' \in {"destroy", "release"}
  BY <1>12 DEF msGCShutdown, ShutdownDestroy
<1>13. CASE ShutdownFree
  BY <1>13, GCAssumption DEF ShutdownFree, ReqInv
<1> QED
  BY <1>1, <1>2, <1>3, <1>4, <1>5, <1>6, <1>7, <1>8, <1>9, <1>10, <1>11, <1>12, <1>13
  DEF Next, Mutator, Collector

----------------------------------------------------------------------------
(* The tri-colour invariant. *)

(* A new object refers to nothing but its class, which is a root. *)
LEMMA AllocGraph ==
  ASSUME Inv, TypeOK', NEW o \in Objects, AllocObject(o)
  PROVE  /\ Held' \subseteq Held \cup {o}
         /\ Edges'[o] \subseteq Held
         /\ \A p \in Objects \ {o} : Edges'[p] = Edges[p]
<1>1. /\ phase = "alloc" /\ UNCHANGED <<roots, globals>>
      /\ type' = [type EXCEPT ![o] = req.type] /\ refs' = [refs EXCEPT ![o] = {}]
  BY DEF AllocObject
<1>2. TypeOK /\ ReqInv
  BY DEF Inv
<1>3. Held' \subseteq Held \cup {o}
  <2>1. CASE req.slot = 0
    <3>1. stack' = Append(stack, o) /\ open' = open
      BY <2>1 DEF AllocObject
    <3>2. Entries(stack', 1, Len(stack')) = Entries(stack, 1, Len(stack)) \cup {o}
      BY SMTT(30), <1>2, <3>1, PushEntry DEF TypeOK
    <3> QED BY <1>1, <3>1, <3>2 DEF Held
  <2>2. CASE req.slot # 0
    <3>1. open' = [open EXCEPT ![req.slot] = o] /\ stack' = stack
      BY <2>2 DEF AllocObject
    <3>2. {open'[s] : s \in Slots} \subseteq {open[s] : s \in Slots} \cup {o}
      BY <1>2, <3>1 DEF TypeOK
    <3> QED BY <1>1, <3>1, <3>2 DEF Held
  <2> QED BY <2>1, <2>2
<1>4. Edges'[o] \subseteq Held
  <2>1. req.type \in Objects => req.type \in Held
    BY <1>1, <1>2 DEF ReqInv
  <2>2. type'[o] = req.type /\ refs'[o] = {}
    BY <1>1, <1>2 DEF TypeOK
  <2> QED BY <2>1, <2>2 DEF Edges
<1>5. \A p \in Objects \ {o} : Edges'[p] = Edges[p]
  BY <1>1, <1>2 DEF Edges, TypeOK
<1> QED BY <1>3, <1>4, <1>5

(* A survivor that sweep moves down joins the kept. *)
LEMMA KeptGrows ==
  ASSUME TypeOK, ListInv, SweepFree, i \in 1..Len(allObjects), allObjects[i] \in mark
  PROVE  Kept' = Kept \cup {allObjects[i]} /\ mark' = mark \ {allObjects[i]}
<1>1. /\ phase = "free" /\ writeIdx' = writeIdx + 1
      /\ allObjects' = [allObjects EXCEPT ![writeIdx + 1] = allObjects[i]]
      /\ mark' = mark \ {allObjects[i]}
  BY DEF SweepFree, unmark
<1>2. /\ allObjects \in Seq(Objects) /\ writeIdx \in 0..(i - 1)
      /\ Distinct(allObjects, 1, writeIdx) /\ Distinct(allObjects, i, Len(allObjects))
      /\ Kept \cap Rest = {}
  BY <1>1 DEF TypeOK, ListInv
<1>3. /\ Len(allObjects') = Len(allObjects)
      /\ Entries(allObjects', 1, writeIdx + 1) = Kept \cup {allObjects[i]}
      /\ Entries(allObjects', i + 1, Len(allObjects')) = Rest \ {allObjects[i]}
      /\ Distinct(allObjects', 1, writeIdx + 1)
      /\ Distinct(allObjects', i + 1, Len(allObjects'))
  <2> PICK q : q = allObjects
    OBVIOUS
  <2> PICK p : p = allObjects'
    OBVIOUS
  <2> PICK n, w : n = i /\ w = writeIdx
    OBVIOUS
  <2>1. /\ q \in Seq(Objects) /\ n \in 1..Len(q) /\ w \in 0..(n - 1)
        /\ Distinct(q, 1, w) /\ Distinct(q, n, Len(q))
        /\ p = [q EXCEPT ![w + 1] = q[n]]
    BY <1>1, <1>2
  <2>2. Kept = Entries(q, 1, w) /\ Rest = Entries(q, n, Len(q))
    BY DEF Kept, Rest
  <2>3. Entries(q, 1, w) \cap Entries(q, n, Len(q)) = {}
    BY <1>2, <2>2
  <2>4. MovedDown(p, q, n, w)
    BY <2>1, <2>3, MoveDown
  <2> QED BY <2>1, <2>2, <2>4 DEF MovedDown
<1> QED BY <1>1, <1>3 DEF Kept

(* The collector's steps leave the graph alone. *)
LEMMA SameGraph ==
  ASSUME UNCHANGED <<type, refs, roots, stack, globals, open>>
  PROVE  /\ Edges' = Edges /\ Held' = Held
         /\ Running' = Running => Reach' = Reach
<1>1. Edges' = Edges /\ Held' = Held
  BY DEF Edges, Held
<1> QED BY <1>1 DEF Reach, Heap!Reach, Heap!ReachFrom, Heap!Closed

(* A step of the interpreter that takes its new roots and references from  *)
(* what is reachable keeps memory closed and the reachable set from        *)
(* growing. *)
LEMMA MutatorStep ==
  ASSUME Inv, TypeOK', phase = "run", phase' = "run", mem' = mem,
         UNCHANGED <<mark, gray>>,
         Held' \subseteq Reach,
         \A o \in Objects : Edges'[o] \subseteq Edges[o] \cup Reach,
         \A o \in Objects \ Reach : Edges'[o] = Edges[o]
  PROVE  ColourInv' /\ Reach' \subseteq Reach
<1>1. TypeOK /\ Running /\ ClosedSet(mem) /\ ClosedSet(Reach) /\ mark = {} /\ gray = {}
  BY ReachClosedSet DEF Inv, ColourInv, Running
<1>2. Reach \subseteq mem
  BY <1>1, ClosedSetReach DEF TypeOK
<1>3. ClosedSet(mem)'
  <2>1. Held' \subseteq mem'
    BY <1>2
  <2>2. ASSUME NEW o \in mem PROVE Edges'[o] \subseteq mem
    BY <1>1, <1>2 DEF ClosedSet, TypeOK
  <2> QED BY <2>1, <2>2 DEF ClosedSet
<1>4. ColourInv'
  BY <1>1, <1>3 DEF ColourInv
<1>5. Held' \in SUBSET Objects /\ Edges' \in [Objects -> SUBSET Objects]
  BY DEF TypeOK, Edges, Held, Entries
<1>6. Reach \in SUBSET Objects /\ \A o \in Reach : Edges[o] \subseteq Reach
  BY <1>1, DerivedTypes DEF ClosedSet
<1>7. \A o \in Reach : Edges'[o] \subseteq Reach
  BY <1>6
<1>8. Heap!ReachFrom(Held', Edges') \subseteq Reach
  BY <1>5, <1>6, <1>7, ReachIsLeast DEF Heap!Closed
<1>9. Reach' = Heap!ReachFrom(Held', Edges')
  BY DEF Reach, Heap!Reach, Heap!ReachFrom, Heap!Closed, Running
<1> QED BY <1>4, <1>8, <1>9

(* The steps of the interpreter that do not call the collector. *)
Interpreter == \/ \E v \in Objects : Push(v) \/ msGCPushRoot(v)
               \/ Pop \/ CloseUpvalue \/ msGCPopRoot
               \/ \E o, r \in Objects : Store(o, r) \/ Drop(o, r)

LEMMA InterpreterStep ==
  ASSUME Inv, TypeOK', Interpreter
  PROVE  ColourInv' /\ Reach' \subseteq Reach
<1> DEFINE Goal == /\ Held' \subseteq Reach
                   /\ \A o \in Objects : Edges'[o] \subseteq Edges[o] \cup Reach
                   /\ \A o \in Objects \ Reach : Edges'[o] = Edges[o]
<1>1. TypeOK /\ phase = "run" /\ phase' = "run" /\ mem' = mem /\ UNCHANGED <<mark, gray>>
  BY DEF Inv, Interpreter, Push, msGCPushRoot, Pop, CloseUpvalue, msGCPopRoot, Store, Drop,
         heap
<1>2. Held \subseteq Reach
  BY <1>1, ReachClosedSet DEF Running, ClosedSet
<1>3. ASSUME NEW v \in Objects, Push(v) PROVE Goal
  <2>1. Edges' = Edges
    BY <1>3 DEF Push, heap, Edges
  <2>2. Held' \subseteq Held \cup {v}
    <3>1. Entries(stack', 1, Len(stack')) = Entries(stack, 1, Len(stack)) \cup {v}
      BY SMTT(30), <1>1, <1>3, PushEntry DEF Push, TypeOK
    <3> QED BY <1>3, <3>1 DEF Push, Held
  <2> QED BY <1>2, <1>3, <2>1, <2>2 DEF Push
<1>4. ASSUME NEW v \in Objects, msGCPushRoot(v) PROVE Goal
  <2>1. Edges' = Edges
    BY <1>4 DEF msGCPushRoot, heap, Edges
  <2>2. Held' \subseteq Held \cup {v}
    <3>1. Entries(roots', 1, Len(roots')) = Entries(roots, 1, Len(roots)) \cup {v}
      BY SMTT(30), <1>1, <1>4, PushEntry DEF msGCPushRoot, TypeOK
    <3> QED BY <1>4, <3>1 DEF msGCPushRoot, vm, Held
  <2> QED BY <1>2, <1>4, <2>1, <2>2 DEF msGCPushRoot
<1>5. ASSUME Pop PROVE Goal
  <2>1. Edges' = Edges
    BY <1>5 DEF Pop, heap, Edges
  <2>2. stack' = SubSeq(stack, 1, Len(stack) - 1) /\ UNCHANGED <<roots, globals, open>>
    BY <1>5 DEF Pop
  <2>3. Held' \subseteq Held
    <3>1. Entries(stack', 1, Len(stack')) \subseteq Entries(stack, 1, Len(stack))
      BY <1>1, <1>5, <2>2, PopEntry DEF Pop, TypeOK
    <3> QED BY <2>2, <3>1 DEF Held
  <2> QED BY <1>2, <2>1, <2>3
<1>6. ASSUME msGCPopRoot PROVE Goal
  <2>1. Edges' = Edges
    BY <1>6 DEF msGCPopRoot, heap, Edges
  <2>2. roots' = SubSeq(roots, 1, Len(roots) - 1) /\ UNCHANGED <<stack, globals, open>>
    BY <1>6 DEF msGCPopRoot, vm
  <2>3. Held' \subseteq Held
    <3>1. Entries(roots', 1, Len(roots')) \subseteq Entries(roots, 1, Len(roots))
      BY <1>1, <1>6, <2>2, PopEntry DEF msGCPopRoot, TypeOK
    <3> QED BY <2>2, <3>1 DEF Held
  <2> QED BY <1>2, <2>1, <2>3
<1>7. ASSUME CloseUpvalue PROVE Goal
  <2> DEFINE top == Len(stack)
             uv == open[top]
  <2>1. /\ top \in Slots /\ top > 0 /\ uv # Null /\ stack[top] \in Objects
        /\ refs' = [refs EXCEPT ![uv] = {stack[top]}] /\ type' = type
        /\ open' = [open EXCEPT ![top] = Null]
        /\ stack' = SubSeq(stack, 1, top - 1)
        /\ UNCHANGED <<roots, globals>>
    BY <1>1, <1>7, GCAssumption DEF CloseUpvalue, closedVal, TypeOK, Slots
  <2>2. uv \in Objects /\ uv \in Held /\ stack[top] \in Held
    <3>1. uv \in Objects /\ uv \in {open[s] : s \in Slots}
      BY <1>1, <2>1 DEF TypeOK
    <3>2. stack[top] \in Entries(stack, 1, Len(stack))
      <4>1. top \in 1..Len(stack)
        BY <1>1, <2>1 DEF TypeOK
      <4> QED BY <4>1 DEF Entries
    <3> QED BY <3>1, <3>2 DEF Held
  <2>3. Entries(stack', 1, Len(stack')) \subseteq Entries(stack, 1, Len(stack))
    BY <1>1, <2>1, PopEntry DEF TypeOK
  <2>4. {open'[s] : s \in Slots} \cap Objects \subseteq {open[s] : s \in Slots}
    BY <1>1, <2>1, GCAssumption DEF TypeOK
  <2>5. Held' \subseteq Held
    BY <2>1, <2>3, <2>4 DEF Held
  <2>6. \A o \in Objects : Edges'[o] \subseteq Edges[o] \cup Reach
    BY SMTT(30), <1>1, <1>2, <2>1, <2>2 DEF Edges, TypeOK
  <2>7. \A o \in Objects \ Reach : Edges'[o] = Edges[o]
    BY SMTT(30), <1>1, <1>2, <2>1, <2>2 DEF Edges, TypeOK
  <2> QED BY <1>2, <2>5, <2>6, <2>7
<1>8. ASSUME NEW o \in Objects, NEW v \in Objects, Store(o, v) PROVE Goal
  <2>1. o \in Reach /\ refs' = [refs EXCEPT ![o] = @ \cup {v}] /\ type' = type
        /\ UNCHANGED <<stack, roots, globals, open>>
    BY <1>8 DEF Store, vm
  <2>2. v \in Reach
    <3>1. Len(stack) > 0 => stack[Len(stack)] \in Entries(stack, 1, Len(stack))
      BY SMTT(30), <1>1 DEF TypeOK, Entries
    <3>2. Entries(stack, 1, Len(stack)) \subseteq Held
      BY DEF Held
    <3> QED BY <1>2, <1>8, <3>1, <3>2 DEF Store
  <2>3. Held' = Held
    BY <2>1 DEF Held
  <2>4. \A p \in Objects : Edges'[p] \subseteq Edges[p] \cup Reach
    BY <1>1, <2>1, <2>2 DEF Edges, TypeOK
  <2>5. \A p \in Objects \ Reach : Edges'[p] = Edges[p]
    BY <1>1, <2>1 DEF Edges, TypeOK
  <2> QED BY <1>2, <2>3, <2>4, <2>5
<1>9. ASSUME NEW o \in Objects, NEW r \in Objects, Drop(o, r) PROVE Goal
  <2>1. o \in Reach /\ refs' = [refs EXCEPT ![o] = @ \ {r}] /\ type' = type
        /\ UNCHANGED <<stack, roots, globals, open>>
    BY <1>9 DEF Drop, vm
  <2>2. Held' = Held
    BY <2>1 DEF Held
  <2>3. \A p \in Objects : Edges'[p] \subseteq Edges[p] \cup Reach
    BY <1>1, <2>1 DEF Edges, TypeOK
  <2>4. \A p \in Objects \ Reach : Edges'[p] = Edges[p]
    BY <1>1, <2>1 DEF Edges, TypeOK
  <2> QED BY <1>2, <2>2, <2>3, <2>4
<1>10. Goal
  BY <1>3, <1>4, <1>5, <1>6, <1>7, <1>8, <1>9 DEF Interpreter
<1> QED BY <1>1, <1>10, MutatorStep

LEMMA NextColourInv == Inv /\ [Next]_vars => ColourInv'
<1> SUFFICES ASSUME Inv, [Next]_vars PROVE ColourInv'
  OBVIOUS
<1>0. TypeOK /\ ListInv /\ ColourInv /\ ReqInv /\ TypeOK' /\ ListInv'
  BY NextTypeOK, NextListInv DEF Inv
<1> DEFINE Still == UNCHANGED <<type, refs, roots, stack, globals, open>>
<1>1. CASE Interpreter
  BY <1>0, <1>1, InterpreterStep
<1>2. ASSUME Still, UNCHANGED <<mem, mark, gray>>, phase \in {"run", "alloc"},
             phase' \in {"alloc", "aborted", "destroy", "run"}
      PROVE  ColourInv'
  <2>1. Held' = Held /\ Edges' = Edges
    BY <1>2, SameGraph
  <2> QED BY <1>0, <1>2, <2>1 DEF ColourInv, ClosedSet
<1>3. ASSUME Still, UNCHANGED <<mem, mark>>, phase = "run", phase' = "mark",
             gray' = markRoots
      PROVE  ColourInv'
  <2>1. Held' = Held /\ Edges' = Edges /\ Reach' = Reach /\ gray' = Held
    BY <1>0, <1>3, SameGraph, VisitsAll DEF Running
  <2>2. Held \subseteq Reach /\ mark = {} /\ ClosedSet(mem)
    BY <1>0, <1>3, ReachClosedSet DEF ColourInv, Running, ClosedSet
  <2> QED BY <1>3, <2>1, <2>2 DEF ColourInv, ClosedSet
<1>4. ASSUME NEW t \in Types, NEW sz \in Sizes, NEW s \in 0..MaxStack,
             msGCAlloc(t, sz, s)
      PROVE  ColourInv'
  BY <1>2, <1>3, <1>4 DEF msGCAlloc, StartCollect, heap, vm
<1>5. CASE msGCCollect
  BY <1>3, <1>5 DEF msGCCollect, StartCollect, heap, vm
<1>6. CASE msGCShutdown
  BY <1>2, <1>6 DEF msGCShutdown, heap, vm
<1>7. CASE msAllocAborts
  BY <1>2, <1>7 DEF msAllocAborts, heap, vm
<1>8. ASSUME NEW o \in Objects, markObject(o) PROVE ColourInv'
  <2>1. /\ phase = "mark" /\ phase' = "mark" /\ o \in gray /\ mem' = mem
        /\ Still
    BY <1>8 DEF markObject, heap, vm
  <2>2. Held' = Held /\ Edges' = Edges /\ Reach' = Reach
    BY <2>1, SameGraph DEF Running
  <2>3. traverse(o) = Edges[o]
    BY <1>0, VisitsAll
  <2>4. o \in Reach /\ Edges[o] \subseteq Reach
    BY <1>0, <2>1, ReachClosedSet DEF ColourInv, Running, ClosedSet
  <2>5. CASE o \in mark
    BY <1>0, <1>8, <2>1, <2>2, <2>5 DEF markObject, Skips, ColourInv, ClosedSet
  <2>6. CASE o \notin mark
    <3>1. mark' = mark \cup {o} /\ gray' = (gray \ {o}) \cup Edges[o]
      BY <1>8, <2>3, <2>6 DEF markObject, Skips
    <3> QED BY <1>0, <2>1, <2>2, <2>4, <3>1 DEF ColourInv, ClosedSet
  <2> QED BY <2>5, <2>6
<1>9. CASE MarkDone
  <2>1. /\ phase = "mark" /\ phase' = "tally" /\ gray = {} /\ gray' = {}
        /\ UNCHANGED <<mem, mark>> /\ Still
    BY <1>9 DEF MarkDone, heap, vm
  <2>2. Held' = Held /\ Edges' = Edges /\ Reach' = Reach
    BY <2>1, SameGraph DEF Running
  <2> QED BY <1>0, <2>1, <2>2 DEF ColourInv, ClosedSet
<1>10. CASE SweepTally
  <2>1. phase = "tally" /\ phase' = "tally" /\ UNCHANGED <<mem, mark, gray>> /\ Still
    BY <1>10 DEF SweepTally, destroy, heap, vm
  <2>2. Held' = Held /\ Edges' = Edges /\ Reach' = Reach
    BY <2>1, SameGraph DEF Running
  <2> QED BY <1>0, <2>1, <2>2 DEF ColourInv, ClosedSet
<1>11. CASE TallyDone
  <2>1. /\ phase = "tally" /\ phase' = "free" /\ UNCHANGED <<mem, mark, gray>> /\ Still
        /\ writeIdx' = 0 /\ gray = {}
    BY <1>0, <1>11 DEF TallyDone, heap, vm, ColourInv
  <2>2. Held' = Held /\ Edges' = Edges /\ Reach' = Reach
    BY <2>1, SameGraph DEF Running
  <2>3. Kept' = {}
    BY <2>1 DEF Kept, Entries
  <2> QED BY <1>0, <2>1, <2>2, <2>3 DEF ColourInv, ClosedSet
<1>12. CASE SweepFree
  <2> DEFINE obj == allObjects[i]
             Alive == Kept \cup mark
  <2>1. /\ phase = "free" /\ phase' = "free" /\ i \in 1..Len(allObjects)
        /\ UNCHANGED <<roots, stack, globals, open, gray>>
    BY SMTT(30), <1>0, <1>12 DEF SweepFree, vm, TypeOK
  <2>2. /\ ClosedSet(Alive) /\ Alive \subseteq Reach /\ gray = {}
        /\ obj \in Rest /\ Kept \cap Rest = {}
    BY <1>0, <2>1, NextEntry DEF ColourInv, ListInv, Rest, TypeOK
  <2>3. Held' = Held /\ Held \subseteq Alive
    BY <2>1, <2>2 DEF Held, ClosedSet
  <2>4. CASE obj \in mark
    <3>1. Still
      BY <1>12, <2>1, <2>4 DEF SweepFree, heap
    <3>2. Edges' = Edges /\ Reach' = Reach
      BY <2>1, <3>1, SameGraph DEF Running
    <3>3. Kept' = Kept \cup {obj} /\ mark' = mark \ {obj}
      BY <1>0, <1>12, <2>1, <2>4, KeptGrows
    <3>4. Alive' = Alive
      BY <2>4, <3>3
    <3> QED BY <2>1, <2>2, <2>3, <3>2, <3>4 DEF ColourInv, ClosedSet
  <2>5. CASE obj \notin mark
    <3>1. UNCHANGED <<mark, allObjects, writeIdx>> /\ Scrub(obj)
      BY <1>12, <2>5 DEF SweepFree
    <3>2. obj \notin Alive /\ Alive' = Alive
      BY <2>2, <2>5, <3>1 DEF Kept
    <3>3. \A p \in Objects : p # obj => Edges'[p] = Edges[p]
      BY <1>0, <3>1 DEF Scrub, Edges, TypeOK
    <3>4. Reach \subseteq Alive
      <4>1. Alive \in SUBSET Objects
        BY <1>0, <2>2, DerivedTypes
      <4> QED BY <1>0, <2>1, <2>2, <4>1, ClosedSetReach DEF Running
    <3>5. Reach' = Reach
      <4>1. /\ Held \in SUBSET Objects /\ Edges \in [Objects -> SUBSET Objects]
            /\ Reach = Heap!ReachFrom(Held, Edges)
        BY <1>0, <2>1, DerivedTypes DEF Running
      <4>2. Edges' \in [Objects -> SUBSET Objects]
        BY <1>0 DEF TypeOK, Edges
      <4>3. \A p \in Reach : Edges'[p] = Edges[p]
        BY <3>2, <3>3, <3>4, <4>1 DEF Heap!ReachFrom
      <4>4. Heap!ReachFrom(Held, Edges') = Reach
        BY <4>1, <4>2, <4>3, ReachIgnoresGarbage
      <4> QED BY <2>1, <2>3, <4>4 DEF Reach, Heap!Reach, Heap!ReachFrom, Heap!Closed, Running
    <3>6. ClosedSet(Alive)'
      <4>1. Alive \in SUBSET Objects
        BY <1>0, <2>2, DerivedTypes
      <4> QED BY <2>2, <2>3, <3>2, <3>3, <4>1 DEF ClosedSet
    <3> QED BY <2>1, <2>2, <3>2, <3>5, <3>6 DEF ColourInv
  <2> QED BY <2>4, <2>5
<1>13. CASE SweepDone
  <2>1. /\ phase = "free" /\ phase' \in {"run", "alloc"} /\ i > Len(allObjects)
        /\ UNCHANGED <<mem, mark, gray>> /\ Still
    BY <1>13 DEF SweepDone, heap, vm
  <2>2. Held' = Held /\ Edges' = Edges
    BY <2>1, SameGraph
  <2>3. Rest = {}
    BY <1>0, <2>1 DEF Rest, Entries, TypeOK
  <2>4. mark = {} /\ mem = Kept
    BY <1>0, <2>1, <2>3 DEF ListInv
  <2> QED BY <1>0, <2>1, <2>2, <2>4 DEF ColourInv, ClosedSet
<1>14. ASSUME NEW o \in Objects, AllocObject(o) PROVE ColourInv'
  <2>1. /\ phase = "alloc" /\ phase' = "run" /\ o \notin mem /\ mem' = mem \cup {o}
        /\ UNCHANGED <<mark, gray, roots, globals>>
        /\ type' = [type EXCEPT ![o] = req.type] /\ refs' = [refs EXCEPT ![o] = {}]
    BY <1>14 DEF AllocObject
  <2>2. ClosedSet(mem) /\ mark = {} /\ gray = {} /\ req # NoReq
    BY <1>0, <2>1 DEF ColourInv, ReqInv
  <2>4. Held' \subseteq Held \cup {o}
    BY <1>0, <1>14, AllocGraph DEF Inv
  <2>5. \A p \in Objects \ {o} : Edges'[p] = Edges[p]
    BY <1>0, <1>14, AllocGraph DEF Inv
  <2>6. Edges'[o] \subseteq mem
    BY <1>0, <1>14, <2>2, AllocGraph DEF Inv, ClosedSet
  <2>7. ClosedSet(mem)'
    BY <1>0, <2>1, <2>2, <2>4, <2>5, <2>6 DEF ClosedSet, TypeOK
  <2> QED BY <2>1, <2>2, <2>7 DEF ColourInv
<1>15. CASE ShutdownDestroy
  <2>1. phase = "destroy" /\ phase' \in {"destroy", "release"} /\ Still
        /\ UNCHANGED <<mem, mark, gray>>
    BY <1>15 DEF ShutdownDestroy, heap, vm
  <2>2. Held' = Held /\ Edges' = Edges
    BY <2>1, SameGraph
  <2> QED BY <1>0, <2>1, <2>2 DEF ColourInv
<1>16. CASE ShutdownFree
  BY <1>0, <1>16 DEF ShutdownFree, ColourInv
<1>17. CASE UNCHANGED vars
  <2>1. Held' = Held /\ Edges' = Edges /\ Reach' = Reach /\ Kept' = Kept
    BY <1>17, SameGraph DEF vars, heap, vm, loop, Running, Kept
  <2> QED BY <1>0, <1>17, <2>1 DEF ColourInv, ClosedSet, vars, heap, vm, loop
<1> QED
  BY <1>1, <1>4, <1>5, <1>6, <1>7, <1>8, <1>9, <1>10, <1>11, <1>12, <1>13, <1>14,
     <1>15, <1>16, <1>17
  DEF Next, Mutator, Collector, Interpreter

----------------------------------------------------------------------------
(* The theorems. *)

LEMMA InitInv == Init => Inv
<1> SUFFICES ASSUME Init PROVE Inv
  OBVIOUS
<1>1. TypeOK
  BY InitTypeOK
<1>2. Listed = {globals} /\ Distinct(allObjects, 1, Len(allObjects))
  BY DEF Init, Listed, Entries, Distinct
<1>3. Held = {globals}
  BY GCAssumption DEF Init, Held, Entries
<1>4. \A o \in Objects : Edges[o] = {}
  BY GCAssumption DEF Init, Edges, StaticTypes
<1> QED BY <1>1, <1>2, <1>3, <1>4
  DEF Init, Inv, ListInv, ColourInv, ReqInv, ClosedSet

LEMMA NextInv == Inv /\ [Next]_vars => Inv'
  BY NextTypeOK, NextListInv, NextColourInv, NextReqInv DEF Inv

(* The tri-colour invariant holds in every state of every execution. *)
THEOREM InvCorrect == Spec => []Inv
  BY InitInv, NextInv, PTL DEF Spec

(* Every variable of the collector keeps its type. *)
THEOREM TypeCorrect == Spec => []TypeOK
<1>1. Inv => TypeOK
  BY DEF Inv
<1> QED BY <1>1, InvCorrect, PTL

(* What the program can reach is allocated: at every moment, also in the   *)
(* middle of a sweep. *)
LEMMA InvReachable == Inv => ReachableIsAllocated
<1> SUFFICES ASSUME Inv PROVE Reach \subseteq mem
  BY DEF ReachableIsAllocated
<1>1. CASE phase \in {"run", "mark", "tally", "alloc"}
  BY <1>1, ClosedSetReach DEF Inv, TypeOK, ColourInv, Running
<1>2. CASE phase = "free"
  <2>1. ClosedSet(Kept \cup mark) /\ Kept \cup mark \subseteq mem
    BY <1>2 DEF Inv, ColourInv, ListInv
  <2>2. Kept \cup mark \in SUBSET Objects
    BY <2>1 DEF Inv, TypeOK
  <2> QED BY <1>2, <2>1, <2>2, ClosedSetReach DEF Inv, Running
<1>3. CASE ~Running
  <2>1. Reach = Heap!ReachFrom({}, Edges)
    BY <1>3 DEF Reach, Heap!Reach
  <2>2. Edges \in [Objects -> SUBSET Objects]
    BY DerivedTypes DEF Inv
  <2>3. Heap!Closed({}, Edges)
    BY DEF Heap!Closed
  <2> QED BY <2>1, <2>2, <2>3, ReachIsLeast
<1> QED BY <1>1, <1>2, <1>3 DEF Inv, TypeOK, Phases, Running

THEOREM ReachableCorrect == Spec => []ReachableIsAllocated
  BY InvCorrect, InvReachable, PTL

(* Every object that markObject, the sweep passes and the shutdown passes  *)
(* dereference is allocated, and so is the type they follow. *)
LEMMA InvNoDangling == Inv => NoDanglingAccess
<1> SUFFICES ASSUME Inv PROVE NoDanglingAccess
  OBVIOUS
<1>0. TypeOK /\ ListInv /\ ColourInv /\ Reach \subseteq mem
  BY InvReachable DEF Inv, ReachableIsAllocated
<1>1. ASSUME phase = "mark", NEW o \in gray PROVE Intact(o)
  <2>1. o \in mem /\ o \in Objects
    BY <1>0, <1>1 DEF ColourInv, TypeOK
  <2>2. Edges[o] \subseteq mem
    BY <1>0, <1>1, <2>1 DEF ColourInv, ClosedSet
  <2> QED BY <2>1, <2>2 DEF Intact, Edges
<1>2. ASSUME phase \in {"tally", "destroy"}, i <= Len(allObjects)
      PROVE  Intact(allObjects[i])
  <2>1. allObjects[i] \in mem /\ allObjects[i] \in Objects
    BY <1>0, <1>2 DEF ListInv, Listed, Entries, TypeOK
  <2>2. Edges[allObjects[i]] \subseteq mem
    BY <1>0, <1>2, <2>1 DEF ColourInv, ClosedSet
  <2> QED BY <2>1, <2>2 DEF Intact, Edges
<1>3. ASSUME phase \in {"free", "release"}, i <= Len(allObjects)
      PROVE  allObjects[i] \in mem
  <2>1. Rest \subseteq mem
    BY <1>0, <1>3 DEF ListInv
  <2>2. i \in i..Len(allObjects)
    BY <1>0, <1>3 DEF TypeOK
  <2> QED BY <2>1, <2>2 DEF Rest, Entries
<1> QED BY <1>1, <1>2, <1>3 DEF NoDanglingAccess

THEOREM NoDanglingCorrect == Spec => []NoDanglingAccess
  BY InvCorrect, InvNoDangling, PTL

(* When a collection returns, exactly the reachable objects are left, with *)
(* their marks cleared, each listed once. *)
THEOREM CollectionExactCorrect == Spec => CollectionExact
<1> DEFINE Exact == SweepDone => /\ mem = Reach
                                /\ mark' = {}
                                /\ Listed' = mem
                                /\ Distinct(allObjects', 1, Len(allObjects'))
<1>1. Inv /\ [Next]_vars => [Exact]_vars
  <2> SUFFICES ASSUME Inv, [Next]_vars, SweepDone PROVE Exact
    OBVIOUS
  <2>1. /\ phase = "free" /\ phase' \in {"run", "alloc"} /\ i > Len(allObjects)
        /\ mem' = mem /\ mark' = mark
    BY DEF SweepDone, heap
  <2>2. ListInv /\ ListInv' /\ ColourInv /\ Reach \subseteq mem /\ TypeOK
    BY NextListInv, InvReachable DEF Inv, ReachableIsAllocated
  <2>3. Rest = {}
    BY <2>1, <2>2 DEF Rest, Entries, TypeOK
  <2>4. mem = Kept /\ mark = {} /\ Kept \subseteq Reach
    BY <2>1, <2>2, <2>3 DEF ListInv, ColourInv
  <2>5. Listed' = mem' /\ Distinct(allObjects', 1, Len(allObjects'))
    BY <2>1, <2>2 DEF ListInv
  <2> QED BY <2>1, <2>2, <2>4, <2>5
<1>2. [][Exact]_vars => CollectionExact
  BY PTL DEF CollectionExact
<1> QED BY <1>1, <1>2, InvCorrect, PTL DEF Spec

----------------------------------------------------------------------------
(* MsGC implements MsHeap. *)

(* Without roots nothing is reachable. *)
LEMMA NothingHeldNow ==
  ASSUME Edges \in [Objects -> SUBSET Objects], ~Running
  PROVE  Reach = {}
<1>1. Reach = Heap!ReachFrom({}, Edges)
  BY DEF Reach, Heap!Reach
<1>2. Heap!Closed({}, Edges)
  BY DEF Heap!Closed
<1> QED BY <1>1, <1>2, ReachIsLeast

LEMMA NothingHeld ==
  ASSUME Edges' \in [Objects -> SUBSET Objects], ~Running'
  PROVE  Reach' = {}
<1>1. Reach' = Heap!ReachFrom({}, Edges')
  BY DEF Reach, Heap!Reach, Heap!ReachFrom, Heap!Closed
<1>2. Heap!Closed({}, Edges')
  BY DEF Heap!Closed
<1> QED BY <1>1, <1>2, ReachIsLeast

(* An allocation adds one object to what is reachable. *)
LEMMA AllocReach ==
  ASSUME Inv, TypeOK', NEW o \in Objects, AllocObject(o)
  PROVE  Reach' \subseteq Reach \cup {o}
<1> DEFINE S == Reach \cup {o}
<1>1. /\ phase = "alloc" /\ phase' = "run" /\ o \notin mem
      /\ TypeOK /\ ClosedSet(Reach) /\ Reach \subseteq mem
  BY InvReachable, ReachClosedSet
     DEF AllocObject, Inv, ReachableIsAllocated, Running
<1>2. /\ Held' \subseteq S /\ Edges'[o] \subseteq S
      /\ \A p \in Objects \ {o} : Edges'[p] = Edges[p]
  BY <1>1, AllocGraph DEF ClosedSet
<1>3. S \in SUBSET Objects /\ o \notin Reach
  BY <1>1 DEF TypeOK
<1>4. \A p \in S : Edges'[p] \subseteq S
  BY <1>1, <1>2, <1>3 DEF ClosedSet
<1>5. Held' \in SUBSET Objects /\ Edges' \in [Objects -> SUBSET Objects]
  BY DEF TypeOK, Edges, Held, Entries
<1>6. Heap!ReachFrom(Held', Edges') \subseteq S
  BY <1>2, <1>3, <1>4, <1>5, ReachIsLeast DEF Heap!Closed
<1>7. Reach' = Heap!ReachFrom(Held', Edges')
  BY <1>1 DEF Reach, Heap!Reach, Heap!ReachFrom, Heap!Closed, Running
<1> QED BY <1>6, <1>7

LEMMA HeapInit == Init => Heap!Init
<1> SUFFICES ASSUME Init PROVE Heap!Init
  OBVIOUS
<1>1. Inv
  BY InitInv
<1>2. /\ Edges \in [Objects -> SUBSET Objects] /\ Held \in SUBSET Objects
      /\ mem \subseteq Objects
  BY <1>1, DerivedTypes DEF Inv, TypeOK
<1>3. ClosedSet(mem) /\ Running
  BY <1>1 DEF Init, Inv, ColourInv, Running
<1> QED BY <1>2, <1>3 DEF Heap!Init, Heap!TypeOK, Heap!Closed, ClosedSet

(* A step maps to the mutation of the graph, to the appearance or the      *)
(* release of one object, or to nothing. *)
LEMMA HeapNext == Inv /\ [Next]_vars => [Heap!Next]_(Heap!hvars)
<1> SUFFICES ASSUME Inv, [Next]_vars PROVE [Heap!Next]_(Heap!hvars)
  OBVIOUS
<1> DEFINE rs == IF Running THEN Held ELSE {}
<1>0. /\ TypeOK /\ TypeOK' /\ ColourInv /\ ListInv /\ Inv'
      /\ Edges' \in [Objects -> SUBSET Objects] /\ Held' \in SUBSET Objects
      /\ rs' \in SUBSET Objects
  <2>1. TypeOK /\ TypeOK' /\ ColourInv /\ ListInv /\ Inv'
    BY NextInv DEF Inv
  <2>2. TypeOK'
    BY <2>1
  <2>3. Edges' \in [Objects -> SUBSET Objects]
    BY <2>2 DEF TypeOK, Edges
  <2>4. Held' \in SUBSET Objects
    BY <2>2 DEF TypeOK, Held, Entries
  <2> QED BY <2>1, <2>3, <2>4
<1>1. ASSUME mem' = mem, Reach' \subseteq Reach PROVE Heap!Next
  <2>1. Heap!Reach' \subseteq Heap!Reach
    BY <1>1 DEF Reach
  <2> QED BY <1>0, <1>1, <2>1 DEF Heap!Next, Heap!Mutate
<1>2. CASE Interpreter
  BY <1>0, <1>1, <1>2, InterpreterStep
     DEF Interpreter, Push, msGCPushRoot, Pop, CloseUpvalue, msGCPopRoot, Store, Drop, heap
<1>3. CASE UNCHANGED <<mem, type, refs, roots, stack, globals, open>> /\ Running' = Running
  <2>1. Edges' = Edges /\ rs' = rs
    BY <1>3, SameGraph
  <2> QED BY <1>3, <2>1 DEF Heap!hvars
<1>4. ASSUME NEW t \in Types, NEW sz \in Sizes, NEW s \in 0..MaxStack,
             msGCAlloc(t, sz, s)
      PROVE  [Heap!Next]_(Heap!hvars)
  BY <1>3, <1>4 DEF msGCAlloc, StartCollect, heap, vm, Running
<1>5. CASE msGCCollect \/ MarkDone \/ TallyDone \/ SweepDone
  BY <1>3, <1>5
     DEF msGCCollect, StartCollect, MarkDone, TallyDone, SweepDone, heap, vm, Running
<1>6. ASSUME NEW o \in Objects, markObject(o) PROVE [Heap!Next]_(Heap!hvars)
  BY <1>3, <1>6 DEF markObject, heap, vm, Running
<1>7. CASE SweepTally
  BY <1>3, <1>7 DEF SweepTally, destroy, heap, vm, Running
<1>8. CASE SweepFree
  <2> DEFINE obj == allObjects[i]
  <2>1. /\ phase = "free" /\ phase' = "free" /\ i \in 1..Len(allObjects)
        /\ UNCHANGED <<roots, stack, globals, open>>
    BY SMTT(30), <1>0, <1>8 DEF SweepFree, vm, TypeOK
  <2>2. CASE obj \in mark
    BY <1>3, <1>8, <2>1, <2>2 DEF SweepFree, heap, Running
  <2>3. CASE obj \notin mark
    <3>1. mem' = mem \ {obj} /\ Scrub(obj) /\ obj \in Objects
      BY <1>0, <1>8, <2>1, <2>3 DEF SweepFree, TypeOK
    <3>2. ClosedSet(Kept \cup mark) /\ Kept \cup mark \in SUBSET Objects
      <4>1. ClosedSet(Kept \cup mark) /\ Kept \cup mark \subseteq mem
        BY <1>0, <2>1 DEF ColourInv, ListInv
      <4> QED BY <1>0, <4>1 DEF TypeOK
    <3>3. obj \in Rest /\ Kept \cap Rest = {} /\ Rest \subseteq mem
      BY <1>0, <2>1, NextEntry DEF ListInv, Rest, TypeOK
    <3>4. obj \in mem \ Reach
      BY <1>0, <2>1, <2>3, <3>2, <3>3, ClosedSetReach DEF Running
    <3>5. \A p \in Reach : Edges'[p] = Edges[p]
      <4>1. \A p \in Objects : p # obj => Edges'[p] = Edges[p]
        BY <1>0, <3>1 DEF Scrub, Edges, TypeOK
      <4> QED BY <1>0, <3>4, <4>1, DerivedTypes
    <3>6. rs' = rs
      BY <2>1 DEF Running, Held
    <3>7. Heap!Free(obj)
      BY <1>0, <3>1, <3>4, <3>5, <3>6 DEF Heap!Free, Reach
    <3> QED BY <3>1, <3>7 DEF Heap!Next
  <2> QED BY <2>2, <2>3
<1>9. ASSUME NEW o \in Objects, AllocObject(o) PROVE [Heap!Next]_(Heap!hvars)
  <2>1. o \notin mem /\ mem' = mem \cup {o}
    BY <1>9 DEF AllocObject
  <2>2. Reach' \subseteq Reach \cup {o}
    BY <1>0, <1>9, AllocReach DEF Inv
  <2> QED BY <1>0, <2>1, <2>2 DEF Heap!Next, Heap!New, Reach
<1>10. CASE ~Running' /\ mem' = mem
  <2>1. Reach' \subseteq Reach
    BY <1>0, <1>10, NothingHeld
  <2> QED BY <1>1, <1>10, <2>1
<1>11. CASE msGCShutdown \/ msAllocAborts \/ ShutdownDestroy
  BY <1>10, <1>11 DEF msGCShutdown, msAllocAborts, ShutdownDestroy, heap, Running
<1>12. CASE ShutdownFree
  <2>1. CASE MoreObjects
    <3>1. /\ phase = "release" /\ phase' = "release" /\ i \in 1..Len(allObjects)
          /\ mem' = mem \ {allObjects[i]}
      BY <1>0, <1>12, <2>1 DEF ShutdownFree, MoreObjects, TypeOK
    <3>2. allObjects[i] \in mem /\ allObjects[i] \in Objects
      BY <1>0, <3>1, NextEntry DEF ListInv, Rest, TypeOK
    <3>3. Reach = {} /\ rs = {} /\ rs' = {}
      BY <1>0, <3>1, DerivedTypes, NothingHeldNow DEF Running
    <3>4. Heap!Free(allObjects[i])
      BY <1>0, <3>1, <3>2, <3>3 DEF Heap!Free, Reach
    <3> QED BY <3>2, <3>4 DEF Heap!Next
  <2>2. CASE ~MoreObjects
    BY <1>10, <1>12, <2>2 DEF ShutdownFree, heap, Running
  <2> QED BY <2>1, <2>2
<1>13. CASE UNCHANGED vars
  BY <1>3, <1>13 DEF vars, heap, vm, Running
<1> QED
  BY <1>2, <1>4, <1>5, <1>6, <1>7, <1>8, <1>9, <1>11, <1>12, <1>13
  DEF Next, Mutator, Collector, Interpreter

(* Whatever the program does, the collector takes away only unreachable    *)
(* objects, and no step of the machine makes an object reachable again     *)
(* that was not. *)
THEOREM HeapCorrect == Spec => ImplementsHeap
<1>1. Spec => Heap!Init /\ [][Heap!Next]_(Heap!hvars)
  BY HeapInit, HeapNext, InvCorrect, PTL DEF Spec
<1> QED BY <1>1 DEF ImplementsHeap, Heap!Spec

----------------------------------------------------------------------------
(* The order of allObjects. *)

LEMMA OrderStep == Inv /\ ClassBeforeInstance /\ [Next]_vars => ClassBeforeInstance'
<1> SUFFICES ASSUME Inv, ClassBeforeInstance, [Next]_vars PROVE ClassBeforeInstance'
  OBVIOUS
<1>0. TypeOK /\ ListInv /\ ColourInv /\ ReqInv
  BY DEF Inv
<1>a. /\ allObjects \in Seq(Objects) /\ Len(allObjects) \in Nat
      /\ i \in Nat \ {0} /\ writeIdx \in Nat
  BY <1>0 DEF TypeOK
<1>b. CASE /\ phase \notin {"free", "release", "down"} /\ phase' # "free"
           /\ UNCHANGED <<type, allObjects>>
  BY <1>b DEF ClassBeforeInstance, Positions
<1>1. CASE phase' \in {"release", "down"}
  BY <1>1 DEF ClassBeforeInstance
<1>2. ASSUME Interpreter \/ msGCCollect \/ msGCShutdown \/ UNCHANGED vars
      PROVE  ClassBeforeInstance'
  <2>1. CASE UNCHANGED vars
    BY <2>1 DEF vars, heap, loop, ClassBeforeInstance, Positions
  <2>2. CASE Interpreter
    <3>1. phase = "run" /\ phase' = "run" /\ UNCHANGED <<type, allObjects>>
      BY <2>2 DEF Interpreter, Push, msGCPushRoot, Pop, CloseUpvalue, msGCPopRoot, Store, Drop, heap
    <3> QED BY <1>b, <3>1
  <2> QED BY <1>2, <1>b, <2>1, <2>2 DEF msGCCollect, StartCollect, msGCShutdown, heap
<1>3. ASSUME NEW t \in Types, NEW sz \in Sizes, NEW s \in 0..MaxStack, msGCAlloc(t, sz, s)
      PROVE  ClassBeforeInstance'
  BY <1>3, <1>b DEF msGCAlloc, StartCollect, heap
<1>4. ASSUME NEW o \in Objects, markObject(o) PROVE ClassBeforeInstance'
  BY <1>4, <1>b DEF markObject, heap
<1>5. CASE MarkDone \/ SweepTally \/ msAllocAborts
  BY <1>5, <1>b DEF MarkDone, SweepTally, destroy, msAllocAborts, heap
<1>6. CASE TallyDone
  <2>1. /\ phase = "tally" /\ phase' = "free" /\ i' = 1 /\ writeIdx' = 0
        /\ UNCHANGED <<type, allObjects>>
    BY <1>6 DEF TallyDone, heap
  <2>2. Positions' = Positions
    BY <1>a, <2>1 DEF Positions
  <2> QED BY <2>1, <2>2 DEF ClassBeforeInstance
<1>7. CASE SweepFree
  <2> DEFINE obj == allObjects[i]
             Before(q, ty, P) == \A j, k \in P : ty[q[j]] = q[k] => k < j
  <2>1. /\ phase = "free" /\ phase' = "free" /\ i \in 1..Len(allObjects) /\ i' = i + 1
    BY <1>7, <1>a DEF SweepFree
  <2>2. /\ writeIdx \in 0..(i - 1) /\ Kept \cap Rest = {}
        /\ Distinct(allObjects, i, Len(allObjects))
    BY <1>0, <1>a, <2>1 DEF ListInv
  <2>3. \A j, k \in (1..writeIdx) \cup (i..Len(allObjects)) :
          type[allObjects[j]] = allObjects[k] => k < j
    BY <2>1 DEF ClassBeforeInstance, Positions
  <2>4. CASE obj \in mark
    <3>1. /\ allObjects' = [allObjects EXCEPT ![writeIdx + 1] = obj]
          /\ writeIdx' = writeIdx + 1 /\ type' = type
      BY <1>7, <2>4 DEF SweepFree, heap
    <3>2. /\ Len(allObjects') = Len(allObjects) /\ allObjects'[writeIdx + 1] = obj
          /\ \A k \in 1..Len(allObjects) : k # writeIdx + 1 => allObjects'[k] = allObjects[k]
      BY <1>a, <2>1, <2>2, <3>1
    <3>3. ASSUME NEW j \in (1..writeIdx + 1) \cup (i + 1..Len(allObjects)),
                 NEW k \in (1..writeIdx + 1) \cup (i + 1..Len(allObjects)),
                 type[allObjects'[j]] = allObjects'[k]
          PROVE  k < j
      <4> DEFINE From(n) == IF n = writeIdx + 1 THEN i ELSE n
      <4>1. /\ From(j) \in (1..writeIdx) \cup (i..Len(allObjects))
            /\ From(k) \in (1..writeIdx) \cup (i..Len(allObjects))
        BY <1>a, <2>1, <2>2
      <4>2. allObjects'[j] = allObjects[From(j)] /\ allObjects'[k] = allObjects[From(k)]
        BY <1>a, <2>1, <2>2, <3>2
      <4>3. From(k) < From(j)
        <5> HIDE DEF From
        <5> QED BY <2>3, <3>3, <4>1, <4>2
      <4> QED BY <1>a, <2>1, <2>2, <4>3
    <3> QED BY <1>a, <2>1, <3>1, <3>2, <3>3 DEF ClassBeforeInstance, Positions
  <2>5. CASE obj \notin mark
    <3>1. /\ UNCHANGED <<allObjects, writeIdx>> /\ type' = [type EXCEPT ![obj] = Builtin]
      BY <1>7, <2>5 DEF SweepFree, Scrub
    <3>2. ASSUME NEW j \in (1..writeIdx) \cup (i + 1..Len(allObjects))
          PROVE  /\ j \in (1..writeIdx) \cup (i..Len(allObjects))
                 /\ type'[allObjects[j]] = type[allObjects[j]]
      <4>1. j \in (1..writeIdx) \cup (i..Len(allObjects)) /\ j \in 1..Len(allObjects) /\ j # i
        BY <1>a, <2>1, <2>2
      <4>2. allObjects[j] # obj
        <5>1. CASE j \in 1..writeIdx
          <6>1. allObjects[j] \in Kept /\ obj \in Rest
            BY <1>a, <2>1, <5>1 DEF Kept, Rest, Entries
          <6> QED BY <2>2, <6>1
        <5>2. CASE j \in i..Len(allObjects)
          BY <1>a, <2>1, <2>2, <4>1, <5>2 DEF Distinct
        <5> QED BY <4>1, <5>1, <5>2
      <4> QED BY <1>0, <1>a, <3>1, <4>1, <4>2 DEF TypeOK
    <3>3. Positions' = (1..writeIdx) \cup (i + 1..Len(allObjects)) /\ allObjects' = allObjects
      BY <2>1, <3>1 DEF Positions
    <3> QED BY <2>3, <3>2, <3>3 DEF ClassBeforeInstance
  <2> QED BY <2>4, <2>5
<1>8. CASE SweepDone
  <2>1. /\ phase = "free" /\ i > Len(allObjects) /\ type' = type
        /\ allObjects' = SubSeq(allObjects, 1, writeIdx) /\ phase' \in {"run", "alloc"}
    BY <1>8 DEF SweepDone, heap
  <2>2. writeIdx \in 0..Len(allObjects)
    BY <1>0, <1>a, <2>1 DEF ListInv
  <2>3. Len(allObjects') = writeIdx /\ \A k \in 1..writeIdx : allObjects'[k] = allObjects[k]
    BY <1>a, <2>1, <2>2
  <2>4. Positions' = 1..writeIdx /\ 1..writeIdx \subseteq Positions
    BY <2>1, <2>3 DEF Positions
  <2>5. \A k \in Positions' : k \in Positions /\ allObjects'[k] = allObjects[k]
    BY <2>3, <2>4
  <2> QED BY <2>1, <2>5 DEF ClassBeforeInstance
<1>9. ASSUME NEW o \in Objects, AllocObject(o) PROVE ClassBeforeInstance'
  <2> DEFINE n == Len(allObjects)
  <2>1. /\ phase = "alloc" /\ phase' = "run" /\ o \notin mem
        /\ allObjects' = Append(allObjects, o) /\ type' = [type EXCEPT ![o] = req.type]
    BY <1>9 DEF AllocObject, registered
  <2>2. /\ Len(allObjects') = n + 1 /\ allObjects'[n + 1] = o
        /\ \A k \in 1..n : allObjects'[k] = allObjects[k]
    BY <1>a, <2>1
  <2>3. Positions' = 1..n + 1 /\ Positions = 1..n
    BY <2>1, <2>2 DEF Positions
  <2>4. \A k \in 1..n : allObjects[k] \in mem /\ allObjects[k] \in Objects
    BY <1>0, <1>a, <2>1 DEF ListInv, Listed, Entries, TypeOK
  <2>5. /\ \A k \in 1..n : type'[allObjects'[k]] = type[allObjects[k]]
        /\ type'[o] = req.type
    BY <1>0, <2>1, <2>2, <2>4 DEF TypeOK
  <2>6. \A k \in 1..n : type[allObjects[k]] # o
    BY <1>0, <2>1, <2>4 DEF ColourInv, ClosedSet, Edges
  <2>7. req.type # o
    BY <1>0, <2>1 DEF ColourInv, ClosedSet, ReqInv
  <2>8. ASSUME NEW j \in 1..n + 1, NEW k \in 1..n + 1, type'[allObjects'[j]] = allObjects'[k]
        PROVE  k < j
    <3>1. k # n + 1
      BY <1>a, <2>2, <2>5, <2>6, <2>7, <2>8
    <3>2. CASE j = n + 1
      BY <1>a, <3>1, <3>2
    <3>3. CASE j # n + 1
      <4>1. j \in 1..n /\ k \in 1..n
        BY <1>a, <3>1, <3>3
      <4> QED BY <2>1, <2>2, <2>3, <2>5, <2>8, <4>1 DEF ClassBeforeInstance
    <3> QED BY <3>2, <3>3
  <2> QED BY <2>3, <2>8 DEF ClassBeforeInstance
<1>10. CASE ShutdownDestroy \/ ShutdownFree
  <2>1. CASE phase' \in {"release", "down"}
    BY <1>1, <2>1
  <2>2. CASE phase' \notin {"release", "down"}
    BY <1>10, <1>b, <2>2 DEF ShutdownDestroy, ShutdownFree, heap
  <2> QED BY <2>1, <2>2
<1> QED
  BY <1>2, <1>3, <1>4, <1>5, <1>6, <1>7, <1>8, <1>9, <1>10
  DEF Next, Mutator, Collector, Interpreter

(* The order that sweep's comment relies on: a class was allocated before  *)
(* its instances, an address that is used again is last in the list, and   *)
(* the survivors move down in step. *)
THEOREM OrderCorrect == Spec => []ClassBeforeInstance
<1>1. Init => ClassBeforeInstance
  <2> SUFFICES ASSUME Init PROVE ClassBeforeInstance
    OBVIOUS
  <2>1. \A o \in Objects : type[o] \notin Objects
    BY GCAssumption DEF Init, StaticTypes
  <2> QED BY <2>1 DEF Init, ClassBeforeInstance, Positions
<1> QED BY InvCorrect, OrderStep, <1>1, PTL DEF Spec

----------------------------------------------------------------------------
(* The counters. *)

BytesOf(S, z) == UNION {{o} \X (1..z[o]) : o \in S}

LEMMA OneObject ==
  ASSUME NEW o, NEW n \in Nat
  PROVE  IsFiniteSet({o} \X (1..n)) /\ Cardinality({o} \X (1..n)) = n
<1>1. IsFiniteSet(1..n) /\ Cardinality(1..n) = n
  BY FS_Interval
<1>2. IsFiniteSet({o}) /\ Cardinality({o}) = 1
  BY FS_Singleton
<1>3. /\ IsFiniteSet({o} \X (1..n))
      /\ Cardinality({o} \X (1..n)) = Cardinality({o}) * Cardinality(1..n)
  BY <1>1, <1>2, FS_Product
<1> QED BY <1>1, <1>2, <1>3

LEMMA BytesFinite ==
  ASSUME NEW S, IsFiniteSet(S), NEW z, \A o \in S : z[o] \in Nat
  PROVE  IsFiniteSet(BytesOf(S, z))
<1> DEFINE F == [o \in S |-> {o} \X (1..z[o])]
           T == {{o} \X (1..z[o]) : o \in S}
<1>1. F \in Surjection(S, T)
  BY DEF Surjection
<1>2. IsFiniteSet(T)
  BY <1>1, FS_Surjection
<1>3. \A X \in T : IsFiniteSet(X)
  <2>1. \A o \in S : IsFiniteSet({o} \X (1..z[o]))
    BY OneObject
  <2> QED BY <2>1
<1>4. IsFiniteSet(UNION T)
  <2> HIDE DEF T
  <2> QED BY <1>2, <1>3, FS_UNION
<1> QED BY <1>4 DEF BytesOf

(* Two sets without a common element count for themselves. *)
LEMMA Disjoint ==
  ASSUME NEW S, NEW T, IsFiniteSet(S), IsFiniteSet(T), S \cap T = {}
  PROVE  /\ Cardinality(S) \in Nat /\ Cardinality(T) \in Nat
         /\ Cardinality(S \cup T) = Cardinality(S) + Cardinality(T)
<1>1. Cardinality(S) \in Nat /\ Cardinality(T) \in Nat
  BY FS_CardinalityType
<1>2. Cardinality(S \cap T) = 0
  BY FS_EmptySet
<1>3. Cardinality(S \cup T) = Cardinality(S) + Cardinality(T) - Cardinality(S \cap T)
  BY FS_Union
<1> QED BY <1>1, <1>2, <1>3

LEMMA BytesSplit ==
  ASSUME NEW S, NEW T, IsFiniteSet(S), IsFiniteSet(T), S \cap T = {},
         NEW z, \A o \in S \cup T : z[o] \in Nat
  PROVE  /\ Cardinality(S) \in Nat /\ Cardinality(T) \in Nat
         /\ Cardinality(S \cup T) = Cardinality(S) + Cardinality(T)
         /\ Cardinality(BytesOf(S, z)) \in Nat /\ Cardinality(BytesOf(T, z)) \in Nat
         /\ Cardinality(BytesOf(S \cup T, z)) = Cardinality(BytesOf(S, z)) + Cardinality(BytesOf(T, z))
<1>1. /\ Cardinality(S) \in Nat /\ Cardinality(T) \in Nat
      /\ Cardinality(S \cup T) = Cardinality(S) + Cardinality(T)
  BY Disjoint
<1>2. IsFiniteSet(BytesOf(S, z)) /\ IsFiniteSet(BytesOf(T, z))
  BY BytesFinite
<1>3. BytesOf(S \cup T, z) = BytesOf(S, z) \cup BytesOf(T, z)
  BY DEF BytesOf
<1>4. BytesOf(S, z) \cap BytesOf(T, z) = {}
  BY DEF BytesOf
<1>5. /\ Cardinality(BytesOf(S, z)) \in Nat /\ Cardinality(BytesOf(T, z)) \in Nat
      /\ Cardinality(BytesOf(S, z) \cup BytesOf(T, z))
         = Cardinality(BytesOf(S, z)) + Cardinality(BytesOf(T, z))
  BY <1>2, <1>4, Disjoint
<1> QED BY <1>1, <1>3, <1>5

LEMMA BytesAdd ==
  ASSUME NEW S, IsFiniteSet(S), NEW o, o \notin S,
         NEW z, \A p \in S \cup {o} : z[p] \in Nat
  PROVE  /\ Cardinality(S \cup {o}) = Cardinality(S) + 1
         /\ Cardinality(BytesOf(S \cup {o}, z)) = Cardinality(BytesOf(S, z)) + z[o]
<1>1. IsFiniteSet({o}) /\ Cardinality({o}) = 1 /\ S \cap {o} = {}
  BY FS_Singleton
<1>2. BytesOf({o}, z) = {o} \X (1..z[o])
  BY DEF BytesOf
<1>3. Cardinality(BytesOf({o}, z)) = z[o]
  BY <1>2, OneObject
<1>4. \A p \in S \cup {o} : z[p] \in Nat
  OBVIOUS
<1>5. /\ Cardinality(S \cup {o}) = Cardinality(S) + Cardinality({o})
      /\ Cardinality(BytesOf(S \cup {o}, z))
         = Cardinality(BytesOf(S, z)) + Cardinality(BytesOf({o}, z))
  BY <1>1, <1>4, BytesSplit
<1> QED BY <1>1, <1>3, <1>5

LEMMA BytesSame ==
  ASSUME NEW S, NEW z, NEW y, \A o \in S : z[o] = y[o]
  PROVE  BytesOf(S, z) = BytesOf(S, y)
<1>1. {{o} \X (1..z[o]) : o \in S} = {{o} \X (1..y[o]) : o \in S}
  OBVIOUS
<1> QED BY <1>1 DEF BytesOf

LEMMA NoBytes ==
  ASSUME NEW z
  PROVE  Cardinality(BytesOf({}, z)) = 0 /\ Cardinality({}) = 0
<1>1. BytesOf({}, z) = {}
  BY DEF BytesOf
<1> QED BY <1>1, FS_EmptySet

LEMMA EntriesFinite ==
  ASSUME NEW q, NEW lo \in Int, NEW hi \in Int
  PROVE  IsFiniteSet(Entries(q, lo, hi))
<1> DEFINE F == [k \in lo..hi |-> q[k]]
<1>1. F \in Surjection(lo..hi, Entries(q, lo, hi))
  BY DEF Surjection, Entries
<1>2. IsFiniteSet(lo..hi)
  BY FS_Interval
<1> QED BY <1>1, <1>2, FS_Surjection

LEMMA MemFinite == Inv => IsFiniteSet(mem)
<1> SUFFICES ASSUME Inv PROVE IsFiniteSet(mem)
  OBVIOUS
<1>1. Len(allObjects) \in Int /\ i \in Int /\ writeIdx \in Int
  BY DEF Inv, TypeOK
<1>2. IsFiniteSet(Listed) /\ IsFiniteSet(Kept) /\ IsFiniteSet(Rest)
  BY <1>1, EntriesFinite DEF Listed, Kept, Rest
<1>3. IsFiniteSet(Kept \cup Rest) /\ IsFiniteSet({})
  BY <1>2, FS_Union, FS_EmptySet
<1> QED BY <1>2, <1>3 DEF Inv, ListInv

(* What each step does to the counters. *)
LEMMA AccountStep == Inv /\ Inv' /\ Accounting /\ [Next]_vars => Accounting'
<1> SUFFICES ASSUME Inv, Inv', Accounting, [Next]_vars PROVE Accounting'
  OBVIOUS
<1>0. TypeOK /\ ListInv /\ ColourInv /\ ReqInv /\ IsFiniteSet(mem) /\ TypeOK'
  BY MemFinite DEF Inv
<1>a. /\ allObjects \in Seq(Objects) /\ Len(allObjects) \in Nat
      /\ i \in Nat \ {0} /\ writeIdx \in Nat
      /\ \A o \in Objects : size[o] \in Nat
      /\ mem \subseteq Objects /\ mark \subseteq Objects
  <2>1. \A o \in Objects : size[o] \in Nat
    BY <1>0, GCAssumption DEF TypeOK
  <2> QED BY SMTT(30), <1>0, <2>1 DEF TypeOK
<1>b. /\ \A S : Bytes(S) = BytesOf(S, size)
      /\ \A S, b, n : Counted(S, b, n) <=> b = Cardinality(BytesOf(S, size)) /\ n = Cardinality(S)
  BY DEF Counted, Bytes, BytesOf
<1>c. /\ Counted(mem, bytesAlloc, numObjects)'
         <=> bytesAlloc' = Cardinality(BytesOf(mem', size')) /\ numObjects' = Cardinality(mem')
      /\ Counted(Condemned, freedBytes, freedCount)'
         <=> freedBytes' = Cardinality(BytesOf(Condemned', size')) /\ freedCount' = Cardinality(Condemned')
      /\ Counted(Kept \cup mark, bytesAlloc - freedBytes, numObjects - freedCount)'
         <=> /\ bytesAlloc' - freedBytes' = Cardinality(BytesOf(Kept' \cup mark', size'))
             /\ numObjects' - freedCount' = Cardinality(Kept' \cup mark')
  BY DEF Counted, Bytes, BytesOf
<1>d. CASE /\ phase \in {"run", "mark", "alloc"} /\ phase' \notin {"tally", "free"}
           /\ UNCHANGED <<mem, size, bytesAlloc, numObjects>>
  BY <1>b, <1>c, <1>d DEF Accounting
<1>1. CASE phase' \in {"destroy", "release", "down", "aborted"}
  BY <1>1 DEF Accounting
<1>2. ASSUME Interpreter \/ msGCCollect \/ msGCShutdown PROVE Accounting'
  <2>1. CASE Interpreter
    <3>1. phase = "run" /\ phase' = "run" /\ UNCHANGED <<mem, size, account>>
      BY <2>1 DEF Interpreter, Push, msGCPushRoot, Pop, CloseUpvalue, msGCPopRoot, Store, Drop, heap
    <3> QED BY <1>d, <3>1 DEF account
  <2> QED BY <1>2, <1>1, <1>d, <2>1 DEF msGCCollect, StartCollect, msGCShutdown, heap, account
<1>3. ASSUME NEW t \in Types, NEW sz \in Sizes, NEW s \in 0..MaxStack, msGCAlloc(t, sz, s)
      PROVE  Accounting'
  BY <1>3, <1>d DEF msGCAlloc, StartCollect, heap, account
<1>4. ASSUME NEW o \in Objects, markObject(o) PROVE Accounting'
  BY <1>4, <1>d DEF markObject, heap, account
<1>5. CASE msAllocAborts
  BY <1>1, <1>5 DEF msAllocAborts
<1>6. CASE MarkDone
  <2>1. /\ phase = "mark" /\ phase' = "tally" /\ i' = 1 /\ freedBytes' = 0 /\ freedCount' = 0
        /\ UNCHANGED <<mem, size, mark, allObjects, bytesAlloc, numObjects>>
    BY <1>6 DEF MarkDone, heap, account
  <2>2. Condemned' = {}
    BY <2>1 DEF Condemned, Entries
  <2>3. i' <= Len(allObjects') + 1
    BY <1>a, <2>1
  <2> QED BY <1>b, <1>c, <2>1, <2>2, <2>3, NoBytes DEF Accounting
<1>7. CASE SweepTally
  <2> DEFINE obj == allObjects[i]
  <2>1. /\ phase = "tally" /\ phase' = "tally" /\ i \in 1..Len(allObjects) /\ i' = i + 1
        /\ UNCHANGED <<mem, size, mark, allObjects, bytesAlloc, numObjects>>
    BY <1>7, <1>a DEF SweepTally, destroy, heap, account
  <2>2. /\ Counted(mem, bytesAlloc, numObjects) /\ Counted(Condemned, freedBytes, freedCount)
        /\ Distinct(allObjects, 1, Len(allObjects))
    BY <1>0, <2>1 DEF Accounting, ListInv
  <2>3. Counted(mem, bytesAlloc, numObjects)' /\ i' <= Len(allObjects') + 1
    BY <1>a, <1>b, <1>c, <2>1, <2>2
  <2>4. Condemned' = (Entries(allObjects, 1, i - 1) \cup {obj}) \ mark
    <3>1. 1..((i + 1) - 1) = 1..(i - 1) \cup {i}
      BY <1>a
    <3> QED BY <2>1, <3>1 DEF Condemned, Entries
  <2>5. Counted(Condemned, freedBytes, freedCount)'
    <3>1. CASE obj \in mark
      <4>1. Condemned' = Condemned /\ UNCHANGED <<freedBytes, freedCount>>
        BY <1>7, <2>4, <3>1 DEF Condemned, SweepTally
      <4> QED BY <1>b, <1>c, <2>1, <2>2, <4>1
    <3>2. CASE obj \notin mark
      <4>1. freedBytes' = freedBytes + size[obj] /\ freedCount' = freedCount + 1
        BY <1>7, <3>2 DEF SweepTally, objectSize
      <4>2. Condemned' = Condemned \cup {obj}
        BY <2>4, <3>2 DEF Condemned
      <4>3. obj \notin Condemned
        <5> SUFFICES ASSUME NEW k \in 1..(i - 1) PROVE allObjects[k] # obj
          BY DEF Condemned, Entries
        <5> QED BY <1>a, <2>1, <2>2 DEF Distinct
      <4>4. IsFiniteSet(Condemned)
        <5>1. IsFiniteSet(Entries(allObjects, 1, i - 1))
          BY <1>a, EntriesFinite
        <5> QED BY <5>1, FS_Difference DEF Condemned
      <4>5. \A p \in Condemned \cup {obj} : size[p] \in Nat
        BY <1>a, <2>1 DEF Condemned, Entries
      <4> HIDE DEF obj
      <4>6. /\ Cardinality(Condemned \cup {obj}) = Cardinality(Condemned) + 1
            /\ Cardinality(BytesOf(Condemned \cup {obj}, size))
               = Cardinality(BytesOf(Condemned, size)) + size[obj]
        BY <4>3, <4>4, <4>5, BytesAdd
      <4> QED BY <1>b, <1>c, <2>1, <2>2, <4>1, <4>2, <4>6
    <3> QED BY <3>1, <3>2
  <2> QED BY <2>1, <2>3, <2>5 DEF Accounting
<1>8. CASE TallyDone
  <2>1. /\ phase = "tally" /\ phase' = "free" /\ i > Len(allObjects) /\ writeIdx' = 0
        /\ UNCHANGED <<mem, size, mark, allObjects, bytesAlloc, numObjects, freedBytes, freedCount>>
    BY <1>8 DEF TallyDone, heap, account
  <2>2. /\ Counted(mem, bytesAlloc, numObjects) /\ Counted(Condemned, freedBytes, freedCount)
        /\ Listed = mem /\ i <= Len(allObjects) + 1
    BY <1>0, <2>1 DEF Accounting, ListInv
  <2>3. Condemned = mem \ mark
    <3>1. i - 1 = Len(allObjects)
      BY <1>a, <2>1, <2>2
    <3> QED BY <2>2, <3>1 DEF Condemned, Listed
  <2>4. mark \subseteq mem
    <3>1. Reach \subseteq mem
      BY <1>0, <2>1, ClosedSetReach DEF ColourInv, Running, TypeOK
    <3> QED BY <1>0, <2>1, <3>1 DEF ColourInv
  <2>5. /\ mem = Condemned \cup mark /\ Condemned \cap mark = {}
        /\ IsFiniteSet(Condemned) /\ IsFiniteSet(mark)
    BY <1>0, <2>3, <2>4, FS_Subset
  <2>6. /\ Cardinality(mem) = Cardinality(Condemned) + Cardinality(mark)
        /\ Cardinality(Condemned) \in Nat /\ Cardinality(mark) \in Nat
        /\ Cardinality(BytesOf(Condemned, size)) \in Nat /\ Cardinality(BytesOf(mark, size)) \in Nat
        /\ Cardinality(BytesOf(mem, size))
           = Cardinality(BytesOf(Condemned, size)) + Cardinality(BytesOf(mark, size))
    <3>1. \A o \in Condemned \cup mark : size[o] \in Nat
      BY <1>a, <2>5
    <3> QED BY <2>5, <3>1, BytesSplit
  <2>7. Kept' \cup mark' = mark
    BY <2>1 DEF Kept, Entries
  <2>8. /\ bytesAlloc = Cardinality(BytesOf(mem, size)) /\ numObjects = Cardinality(mem)
        /\ freedBytes = Cardinality(BytesOf(Condemned, size)) /\ freedCount = Cardinality(Condemned)
    BY <1>b, <2>2
  <2>9. /\ bytesAlloc - freedBytes = Cardinality(BytesOf(mark, size))
        /\ numObjects - freedCount = Cardinality(mark)
    BY <2>6, <2>8
  <2>10. Counted(Kept \cup mark, bytesAlloc - freedBytes, numObjects - freedCount)'
    BY <1>c, <2>1, <2>7, <2>9
  <2> QED BY <2>1, <2>10 DEF Accounting
<1>9. CASE SweepFree
  <2> DEFINE obj == allObjects[i]
  <2>1. /\ phase = "free" /\ phase' = "free" /\ i \in 1..Len(allObjects)
        /\ UNCHANGED <<bytesAlloc, numObjects, freedBytes, freedCount>>
    BY <1>9, <1>a DEF SweepFree, account
  <2>2. /\ Counted(Kept \cup mark, bytesAlloc - freedBytes, numObjects - freedCount)
        /\ Kept \cap Rest = {} /\ mark \subseteq Rest
    BY <1>0, <2>1 DEF Accounting, ListInv
  <2>3. CASE obj \in mark
    <3>1. Kept' \cup mark' = Kept \cup mark
      <4>1. Kept' = Kept \cup {obj} /\ mark' = mark \ {obj}
        BY <1>0, <1>9, <2>1, <2>3, KeptGrows
      <4> QED BY <2>3, <4>1
    <3>2. size' = size
      BY <1>9, <2>3 DEF SweepFree, heap
    <3> QED BY <1>b, <1>c, <2>1, <2>2, <3>1, <3>2 DEF Accounting
  <2>4. CASE obj \notin mark
    <3>1. /\ UNCHANGED <<mark, allObjects, writeIdx>> /\ size' = [size EXCEPT ![obj] = DeadSize]
      BY <1>9, <2>4 DEF SweepFree, Scrub
    <3>2. Kept' \cup mark' = Kept \cup mark
      BY <3>1 DEF Kept
    <3>3. obj \in Rest
      BY <1>a, <2>1 DEF Rest, Entries
    <3>4. \A o \in Kept \cup mark : size'[o] = size[o]
      <4>1. \A o \in Kept \cup mark : o # obj
        BY <2>2, <2>4, <3>3
      <4>2. size \in [Objects -> Sizes] /\ Kept \cup mark \subseteq Objects
        <5>1. mem \subseteq Objects /\ Kept \subseteq mem
          BY <1>0, <1>a, <2>1 DEF ListInv
        <5> QED BY <1>0, <1>a, <5>1 DEF TypeOK
      <4> QED BY <3>1, <4>1, <4>2
    <3>5. BytesOf(Kept \cup mark, size') = BytesOf(Kept \cup mark, size)
      BY <3>4, BytesSame
    <3> QED BY <1>b, <1>c, <2>1, <2>2, <3>2, <3>5 DEF Accounting
  <2> QED BY <2>3, <2>4
<1>10. CASE SweepDone
  <2>1. /\ phase = "free" /\ i > Len(allObjects) /\ phase' \in {"run", "alloc"}
        /\ bytesAlloc' = bytesAlloc - freedBytes /\ numObjects' = numObjects - freedCount
        /\ UNCHANGED <<mem, size>>
    BY <1>10 DEF SweepDone, heap
  <2>2. /\ Counted(Kept \cup mark, bytesAlloc - freedBytes, numObjects - freedCount)
        /\ mem = Kept \cup Rest /\ mark \subseteq Rest
    BY <1>0, <2>1 DEF Accounting, ListInv
  <2>3. Rest = {}
    BY <1>a, <2>1 DEF Rest, Entries
  <2>4. Kept \cup mark = mem
    BY <2>2, <2>3
  <2> QED BY <1>b, <1>c, <2>1, <2>2, <2>4 DEF Accounting
<1>11. ASSUME NEW o \in Objects, AllocObject(o) PROVE Accounting'
  <2>1. /\ phase = "alloc" /\ phase' = "run" /\ o \notin mem /\ mem' = mem \cup {o}
        /\ size' = [size EXCEPT ![o] = req.size]
        /\ bytesAlloc' = bytesAlloc + req.size /\ numObjects' = numObjects + 1
    BY <1>11 DEF AllocObject
  <2>2. Counted(mem, bytesAlloc, numObjects)
    BY <2>1 DEF Accounting
  <2>3. size'[o] = req.size /\ \A p \in mem : size'[p] = size[p]
    BY <1>0, <1>a, <2>1 DEF TypeOK
  <2>4. \A p \in mem \cup {o} : size'[p] \in Nat
    BY <1>0, <1>a, GCAssumption DEF TypeOK
  <2>5. /\ Cardinality(mem \cup {o}) = Cardinality(mem) + 1
        /\ Cardinality(BytesOf(mem \cup {o}, size')) = Cardinality(BytesOf(mem, size')) + size'[o]
    BY <1>0, <2>1, <2>4, BytesAdd
  <2>6. BytesOf(mem, size') = BytesOf(mem, size)
    BY <2>3, BytesSame
  <2> QED BY <1>b, <1>c, <2>1, <2>2, <2>3, <2>5, <2>6 DEF Accounting
<1>12. CASE ShutdownDestroy \/ ShutdownFree
  BY <1>1, <1>12 DEF ShutdownDestroy, ShutdownFree
<1>13. CASE UNCHANGED vars
  <2>1. /\ UNCHANGED <<phase, mem, size, bytesAlloc, numObjects, freedBytes, freedCount, i, allObjects>>
        /\ Condemned' = Condemned /\ Kept' \cup mark' = Kept \cup mark
    BY <1>13 DEF vars, heap, account, loop, Condemned, Kept
  <2> QED BY <1>b, <1>c, <2>1 DEF Accounting
<1> QED
  BY <1>2, <1>3, <1>4, <1>5, <1>6, <1>7, <1>8, <1>9, <1>10, <1>11, <1>12, <1>13
  DEF Next, Mutator, Collector, Interpreter

(* bytesAlloc and numObjects are, whenever the program or the allocator    *)
(* reads them, those of the objects that are allocated. *)
THEOREM AccountingCorrect == Spec => []Accounting
<1>1. Init => Accounting
  <2> SUFFICES ASSUME Init PROVE Accounting
    OBVIOUS
  <2>1. /\ phase = "run" /\ mem = {globals} /\ globals \in Objects
        /\ bytesAlloc = size[globals] /\ numObjects = 1
    BY DEF Init
  <2>2. size[globals] \in Nat
    BY InitTypeOK, <2>1, GCAssumption DEF TypeOK
  <2>3. Bytes(mem) = {globals} \X (1..size[globals])
    BY <2>1 DEF Bytes
  <2>4. Cardinality(Bytes(mem)) = size[globals]
    BY <2>2, <2>3, OneObject
  <2>5. Cardinality(mem) = 1
    BY <2>1, FS_Singleton
  <2> QED BY <2>1, <2>4, <2>5 DEF Accounting, Counted
<1> QED BY InvCorrect, AccountStep, <1>1, PTL DEF Spec

=============================================================================

-------------------------------- MODULE MsGC --------------------------------
(***************************************************************************)
(* The stop-the-world mark-sweep collector of src/gc/ms_gc.c, together     *)
(* with the part of the VM that it reads (operand stack, globals, open     *)
(* upvalues) and the operations by which the interpreter changes the       *)
(* object graph.  One collector step handles one object, so the in-place   *)
(* compaction of allObjects and the two sweep passes are visible.          *)
(*                                                                         *)
(* Objects are addresses: an address that has been freed can be returned   *)
(* again by a later allocation.  Freed memory is given one fixed content;  *)
(* NoDanglingAccess shows that it is never read.                           *)
(***************************************************************************)
EXTENDS Integers, Sequences, FiniteSets, FiniteSetsExt

CONSTANTS
  Objects,            \* addresses
  Null,               \* the NULL pointer / a nil value
  Builtin,            \* a static MsType of a built-in (list, map, closure ...)
  Meta,               \* &msMetaType: the object is a user-defined class
  UpvalueT,           \* &msUpvalueType
  Sizes,              \* the sizes, in abstract bytes, that objects come in
  InitialThreshold,   \* MS_GC_INITIAL_THRESHOLD
  MaxThreshold,       \* MS_GC_MAX_THRESHOLD
  MaxStack,           \* bound on the operand stack
  MaxRoots,           \* bound on gGC.roots
  MaxRefs             \* bound on the references one object holds

StaticTypes == {Builtin, Meta, UpvalueT}

ASSUME GCAssumption ==
  /\ Null \notin Objects
  /\ StaticTypes \cap (Objects \cup {Null}) = {}
  /\ Builtin # Meta /\ Builtin # UpvalueT /\ Meta # UpvalueT
  /\ Sizes \subseteq Nat \ {0} /\ Sizes # {}
  /\ InitialThreshold \in Nat /\ MaxThreshold \in Nat
  /\ MaxStack \in Nat /\ MaxRoots \in Nat /\ MaxRefs \in Nat

VARIABLES
  mem,          \* the objects whose memory is allocated
  type,         \* type[o]: obj->type; for an instance, the class object it points into
  refs,         \* refs[o]: what o's traverse visits, besides an instance's class
  size,         \* size[o]: the bytes msGCAlloc was asked for
  mark,         \* the objects whose MS_GC_MARK bit is set
  allObjects,   \* gGC.allObjects
  roots,        \* gGC.roots
  bytesAlloc, nextGC, numObjects,
  stack,        \* t->stack[0 .. sp)
  globals,      \* t->globals
  open,         \* open[s]: the open upvalue whose location is stack slot s
  phase,        \* where the (single) thread is
  gray,         \* values markValue is still to be called with
  i, writeIdx,  \* loop variables of sweep and msGCShutdown
  freedBytes, freedCount,
  req           \* the arguments of the msGCAlloc call in progress

heap == <<mem, type, refs, size>>
vm == <<stack, globals, open>>
account == <<bytesAlloc, nextGC, numObjects>>
loop == <<i, writeIdx, freedBytes, freedCount>>
vars == <<heap, mark, allObjects, roots, account, vm, phase, gray, loop, req>>

Types == StaticTypes \cup Objects
Slots == 1..MaxStack
DeadSize == CHOOSE sz \in Sizes : TRUE
NoReq == [type |-> Null, size |-> 0, slot |-> 0]
Reqs == [type : Types, size : Sizes, slot : 0..MaxStack] \cup {NoReq}
Phases == {"run", "mark", "tally", "free", "alloc", "destroy", "release", "down", "aborted"}

----------------------------------------------------------------------------
(* What the program can reach, and what the collector looks at. *)

(* The references that the interpreter can follow out of an object. *)
Edges == [o \in Objects |-> refs[o] \cup ({type[o]} \cap Objects)]

(* The elements of a part of a sequence. *)
Entries(q, lo, hi) == {q[k] : k \in lo..hi}

(* What it holds directly: registered roots, the live operand stack, the   *)
(* globals, and the list of open upvalues. *)
Held == Entries(roots, 1, Len(roots))
        \cup Entries(stack, 1, Len(stack))
        \cup ({globals} \cap Objects)
        \cup ({open[s] : s \in Slots} \cap Objects)

Running == phase \notin {"destroy", "release", "down", "aborted"}

(* The heap as its users see it. *)
Heap == INSTANCE MsHeap WITH
          edges <- Edges,
          rootset <- IF Running THEN Held ELSE {}

Reach == Heap!Reach

(* Mutant: instanceTraverse without the visit of the owning class. *)
traverse_NoClass(o) == refs[o]

(***************************************************************************)
(* The visits of type->traverse(obj): instanceTraverse visits the class    *)
(* that head.type points into, every other traverse only the fields (an    *)
(* upvalue's closedVal, once it is closed).                                *)
(***************************************************************************)
traverse(o) == refs[o] \cup (IF type[o] \in Objects THEN {type[o]} ELSE {})

(* Mutant: the open upvalues are not enumerated. *)
markRoots_NoOpen == Entries(roots, 1, Len(roots))
                    \cup Entries(stack, 1, Len(stack))
                    \cup (IF globals = Null THEN {} ELSE {globals})

(***************************************************************************)
(* markRoots: the values that it hands to markValue.                       *)
(***************************************************************************)
markRoots == Entries(roots, 1, Len(roots))
             \cup Entries(stack, 1, Len(stack))
             \cup (IF globals = Null THEN {} ELSE {globals})
             \cup {open[s] : s \in {u \in Slots : open[u] # Null}}

----------------------------------------------------------------------------
(* Initial state: msGCInit and msVMInit's creation of the globals map. *)

Init ==
  /\ globals \in Objects
  /\ mem = {globals}
  /\ type = [o \in Objects |-> Builtin]
  /\ refs = [o \in Objects |-> {}]
  /\ size = [o \in Objects |-> DeadSize]
  /\ mark = {}
  /\ allObjects = <<globals>>
  /\ roots = <<>>
  /\ bytesAlloc = size[globals]
  /\ nextGC = InitialThreshold
  /\ numObjects = 1
  /\ stack = <<>>
  /\ open = [s \in Slots |-> Null]
  /\ phase = "run"
  /\ gray = {}
  /\ i = 1 /\ writeIdx = 0 /\ freedBytes = 0 /\ freedCount = 0
  /\ req = NoReq

----------------------------------------------------------------------------
(* The interpreter, while no collection is in progress. *)

(* PUSH of a value read out of something reachable (OP_LOAD_LOCAL,        *)
(* OP_GET_ATTR, OP_GET_INDEX, OP_LOAD_GLOBAL ...). *)
Push(v) ==
  /\ phase = "run"
  /\ Len(stack) < MaxStack
  /\ v \in Reach /\ type[v] # UpvalueT
  /\ stack' = Append(stack, v)
  /\ UNCHANGED <<heap, mark, allObjects, roots, account, globals, open, phase, gray, loop, req>>

(* OP_POP: the compiler emits it for a slot that no closure captured. *)
Pop ==
  /\ phase = "run"
  /\ Len(stack) > 0
  /\ open[Len(stack)] = Null
  /\ stack' = SubSeq(stack, 1, Len(stack) - 1)
  /\ UNCHANGED <<heap, mark, allObjects, roots, account, globals, open, phase, gray, loop, req>>

(* A store into a container, an instance's attributes or the globals       *)
(* (msListAppend, msMapSet, instanceSetAttr, OP_STORE_GLOBAL): the value   *)
(* on top of the stack becomes a reference of a reachable object; or       *)
(* OP_MAKE_FUNC puts an upvalue into a closure. *)
Store(o, v) ==
  /\ phase = "run"
  /\ o \in Reach /\ type[o] # UpvalueT
  /\ \/ Len(stack) > 0 /\ v = stack[Len(stack)]
     \/ v \in Reach /\ type[v] = UpvalueT /\ type[o] = Builtin
  /\ v \notin refs[o]
  /\ Cardinality(refs[o]) < MaxRefs
  /\ refs' = [refs EXCEPT ![o] = @ \cup {v}]
  /\ UNCHANGED <<mem, type, size, mark, allObjects, roots, account, vm, phase, gray, loop, req>>

(* A reference is overwritten or deleted (msMapDel, msListPop ...). *)
Drop(o, r) ==
  /\ phase = "run"
  /\ o \in Reach /\ r \in refs[o]
  /\ refs' = [refs EXCEPT ![o] = @ \ {r}]
  /\ UNCHANGED <<mem, type, size, mark, allObjects, roots, account, vm, phase, gray, loop, req>>

(* uv->closedVal = *uv->location *)
closedVal(slot) == {stack[slot]}

(* OP_CLOSE_UPVALUE: msCloseUpvalues of the top slot, then POP. *)
CloseUpvalue ==
  LET top == Len(stack) IN
  /\ phase = "run"
  /\ top > 0
  /\ open[top] # Null
  /\ refs' = [refs EXCEPT ![open[top]] = closedVal(top)]
  /\ open' = [open EXCEPT ![top] = Null]
  /\ stack' = SubSeq(stack, 1, top - 1)
  /\ UNCHANGED <<mem, type, size, mark, allObjects, roots, account, globals, phase, gray, loop, req>>

msGCPushRoot(v) ==
  /\ phase = "run"
  /\ Len(roots) < MaxRoots
  /\ v \in Reach /\ type[v] # UpvalueT
  /\ roots' = Append(roots, v)
  /\ UNCHANGED <<heap, mark, allObjects, account, vm, phase, gray, loop, req>>

msGCPopRoot ==
  /\ phase = "run"
  /\ Len(roots) > 0
  /\ roots' = SubSeq(roots, 1, Len(roots) - 1)
  /\ UNCHANGED <<heap, mark, allObjects, account, vm, phase, gray, loop, req>>

----------------------------------------------------------------------------
(* Allocation and collection. *)

(***************************************************************************)
(* msGCCollect is entered: markRoots starts from every root.  The C code   *)
(* walks depth first by recursion; here the values still to be visited     *)
(* form the set gray and are taken in any order.                           *)
(***************************************************************************)
StartCollect == phase' = "mark" /\ gray' = markRoots

(***************************************************************************)
(* msGCAlloc(type, size) is called.  The object will be pushed on the      *)
(* operand stack (slot 0) or be linked as the open upvalue of a slot.  An  *)
(* instance is created from a class on the stack, the callee               *)
(* (dispatchClassCall).                                                    *)
(***************************************************************************)
msGCAlloc(t, sz, slot) ==
  /\ phase = "run"
  /\ t \in Objects => \E k \in 1..Len(stack) : stack[k] = t /\ type[t] = Meta
  /\ IF t = UpvalueT THEN slot \in 1..Len(stack) /\ open[slot] = Null
                     ELSE slot = 0 /\ Len(stack) < MaxStack
  /\ req' = [type |-> t, size |-> sz, slot |-> slot]
  /\ IF bytesAlloc + sz > nextGC
     THEN StartCollect
     ELSE phase' = "alloc" /\ UNCHANGED gray
  /\ UNCHANGED <<heap, mark, allObjects, roots, account, vm, loop>>

(* A direct call of the exported msGCCollect. *)
msGCCollect ==
  /\ phase = "run"
  /\ StartCollect
  /\ UNCHANGED <<heap, mark, allObjects, roots, account, vm, loop, req>>

(* Mutant: no early return for a marked object. *)
Skips_Never(o) == FALSE

(* markObject's early return. *)
Skips(o) == o \in mark

(* markObject: a marked object returns at once, any other one is marked    *)
(* before its references are visited. *)
markObject(o) ==
  /\ phase = "mark"
  /\ o \in gray
  /\ IF Skips(o)
     THEN gray' = gray \ {o} /\ UNCHANGED mark
     ELSE /\ mark' = mark \cup {o}
          /\ gray' = (gray \ {o}) \cup traverse(o)
  /\ UNCHANGED <<heap, allObjects, roots, account, vm, phase, loop, req>>

(* markRoots returns and sweep begins. *)
MarkDone ==
  /\ phase = "mark" /\ gray = {}
  /\ phase' = "tally"
  /\ i' = 1 /\ writeIdx' = 0 /\ freedBytes' = 0 /\ freedCount' = 0
  /\ UNCHANGED <<heap, mark, allObjects, roots, account, vm, gray, req>>

(* The content of an address nobody owns. *)
Scrub(o) == /\ type' = [type EXCEPT ![o] = Builtin]
            /\ refs' = [refs EXCEPT ![o] = {}]
            /\ size' = [size EXCEPT ![o] = DeadSize]

(* Mutant: a variable-size object is sized up by its type's objSize. *)
objectSize_Fixed(o) == Min(Sizes)

(* varSize(obj), or objSize: the size msGCAlloc was called with, as each   *)
(* type's slots compute it. *)
objectSize(o) == size[o]

(* Mutant: a dead object is freed as soon as it has been sized up. *)
destroy_Frees(o) == mem' = mem \ {o} /\ UNCHANGED <<type, refs, size>>

(* type->destroy(obj) frees the buffers the object owns, not the object. *)
destroy(o) == UNCHANGED heap

(* sweep, first pass: size up (through obj->type) and destroy the dead. *)
SweepTally ==
  LET obj == allObjects[i] IN
  /\ phase = "tally" /\ i <= Len(allObjects)
  /\ IF obj \in mark
     THEN UNCHANGED <<heap, freedBytes, freedCount>>
     ELSE /\ freedBytes' = freedBytes + objectSize(obj)
          /\ freedCount' = freedCount + 1
          /\ destroy(obj)
  /\ i' = i + 1
  /\ UNCHANGED <<mark, allObjects, roots, account, vm, phase, gray, writeIdx, req>>

TallyDone ==
  /\ phase = "tally" /\ i > Len(allObjects)
  /\ phase' = "free" /\ i' = 1 /\ writeIdx' = 0
  /\ UNCHANGED <<heap, mark, allObjects, roots, account, vm, gray, freedBytes, freedCount, req>>

(* Mutant: a survivor keeps its mark bit. *)
unmark_Not(o) == mark

unmark(o) == mark \ {o}

(* sweep, second pass: a survivor loses its mark and moves down, a dead    *)
(* object is freed. *)
SweepFree ==
  LET obj == allObjects[i] IN
  /\ phase = "free" /\ i <= Len(allObjects)
  /\ IF obj \in mark
     THEN /\ mark' = unmark(obj)
          /\ allObjects' = [allObjects EXCEPT ![writeIdx + 1] = obj]
          /\ writeIdx' = writeIdx + 1
          /\ UNCHANGED heap
     ELSE /\ mem' = mem \ {obj}
          /\ Scrub(obj)
          /\ UNCHANGED <<mark, allObjects, writeIdx>>
  /\ i' = i + 1
  /\ UNCHANGED <<roots, account, vm, phase, gray, freedBytes, freedCount, req>>

(* The end of sweep and of msGCCollect (its statistic numCollects is left  *)
(* out); an allocation that was waiting for the collection goes on. *)
SweepDone ==
  /\ phase = "free" /\ i > Len(allObjects)
  /\ allObjects' = SubSeq(allObjects, 1, writeIdx)
  /\ bytesAlloc' = bytesAlloc - freedBytes
  /\ numObjects' = numObjects - freedCount
  /\ nextGC' = IF 2 * bytesAlloc' < MaxThreshold THEN 2 * bytesAlloc' ELSE MaxThreshold
  /\ i' = 1 /\ writeIdx' = 0 /\ freedBytes' = 0 /\ freedCount' = 0
  /\ phase' = IF req = NoReq THEN "run" ELSE "alloc"
  /\ UNCHANGED <<heap, mark, roots, vm, gray, req>>

(* Mutant: a new object is put in front of the others. *)
registered_Front(o) == <<o>> \o allObjects

(* MsVecPush(&gGC.allObjects, obj) *)
registered(o) == Append(allObjects, o)

(* The rest of msGCAlloc: any free address, zeroed, registered; and what   *)
(* its caller does with the object first: PUSH, or msCaptureUpvalue's link *)
(* into t->openUpvalues. *)
AllocObject(o) ==
  /\ phase = "alloc"
  /\ o \in Objects \ mem
  /\ mem' = mem \cup {o}
  /\ type' = [type EXCEPT ![o] = req.type]
  /\ refs' = [refs EXCEPT ![o] = {}]
  /\ size' = [size EXCEPT ![o] = req.size]
  /\ allObjects' = registered(o)
  /\ bytesAlloc' = bytesAlloc + req.size
  /\ numObjects' = numObjects + 1
  /\ IF req.slot = 0
     THEN stack' = Append(stack, o) /\ UNCHANGED open
     ELSE open' = [open EXCEPT ![req.slot] = o] /\ UNCHANGED stack
  /\ req' = NoReq
  /\ phase' = "run"
  /\ UNCHANGED <<mark, roots, nextGC, globals, gray, loop>>

(* Every address is in use: msAlloc has no memory and aborts the process. *)
msAllocAborts ==
  /\ phase = "alloc"
  /\ mem = Objects
  /\ phase' = "aborted"
  /\ UNCHANGED <<heap, mark, allObjects, roots, account, vm, gray, loop, req>>

----------------------------------------------------------------------------
(* msGCShutdown: destroy all, then free all. *)

msGCShutdown ==
  /\ phase = "run"
  /\ phase' = "destroy" /\ i' = 1
  /\ UNCHANGED <<heap, mark, allObjects, roots, account, vm, gray, writeIdx, freedBytes, freedCount, req>>

(* The loop condition of both passes. *)
MoreObjects == i <= Len(allObjects)

ShutdownDestroy ==
  /\ phase = "destroy"
  /\ IF MoreObjects
     THEN i' = i + 1 /\ UNCHANGED phase
     ELSE i' = 1 /\ phase' = "release"
  /\ UNCHANGED <<heap, mark, allObjects, roots, account, vm, gray, writeIdx, freedBytes, freedCount, req>>

ShutdownFree ==
  /\ phase = "release"
  /\ IF MoreObjects
     THEN /\ mem' = mem \ {allObjects[i]}
          /\ Scrub(allObjects[i])
          /\ i' = i + 1
          /\ UNCHANGED <<phase, allObjects, roots>>
     ELSE /\ phase' = "down" /\ i' = 1
          /\ allObjects' = <<>> /\ roots' = <<>>
          /\ UNCHANGED heap
  /\ UNCHANGED <<mark, account, vm, gray, writeIdx, freedBytes, freedCount, req>>

----------------------------------------------------------------------------
Mutator == \/ \E v \in Objects : Push(v) \/ msGCPushRoot(v)
           \/ Pop \/ CloseUpvalue \/ msGCPopRoot
           \/ \E o, r \in Objects : Store(o, r) \/ Drop(o, r)
           \/ \E t \in Types, sz \in Sizes, s \in 0..MaxStack : msGCAlloc(t, sz, s)
           \/ msGCCollect \/ msGCShutdown

Collector == \/ \E o \in Objects : markObject(o)
             \/ MarkDone \/ SweepTally \/ TallyDone \/ SweepFree \/ SweepDone
             \/ \E o \in Objects : AllocObject(o)
             \/ msAllocAborts \/ ShutdownDestroy \/ ShutdownFree

Next == Mutator \/ Collector

Spec == Init /\ [][Next]_vars

(* A collection, an allocation and the shutdown are straight-line code of  *)
(* the one interpreter thread: once entered they run to their end. *)
FairSpec == Spec /\ WF_vars(Collector)

----------------------------------------------------------------------------
(* Type invariant. *)
TypeOK ==
  /\ mem \subseteq Objects
  /\ type \in [Objects -> Types]
  /\ refs \in [Objects -> SUBSET Objects]
  /\ size \in [Objects -> Sizes]
  /\ mark \subseteq Objects
  /\ allObjects \in Seq(Objects)
  /\ roots \in Seq(Objects)
  /\ bytesAlloc \in Int /\ nextGC \in Int /\ numObjects \in Int
  /\ stack \in Seq(Objects) /\ Len(stack) <= MaxStack
  /\ globals \in Objects \cup {Null}
  /\ open \in [Slots -> Objects \cup {Null}]
  /\ phase \in Phases
  /\ gray \subseteq Objects
  /\ i \in Nat \ {0} /\ writeIdx \in Nat
  /\ freedBytes \in Nat /\ freedCount \in Nat
  /\ req \in Reqs

----------------------------------------------------------------------------
(* The inductive invariant behind the safety properties. *)

(* allObjects[1..writeIdx], what sweep's second pass has kept, and the     *)
(* part of allObjects it has still to look at. *)
Distinct(q, lo, hi) == \A j, k \in lo..hi : j # k => q[j] # q[k]

Listed == Entries(allObjects, 1, Len(allObjects))
Kept == Entries(allObjects, 1, writeIdx)
Rest == Entries(allObjects, i, Len(allObjects))

ClosedSet(S) == Held \subseteq S /\ \A o \in S : Edges[o] \subseteq S

(* allObjects lists each allocated object once; in the second pass it is   *)
(* split into what was kept and what is to come. *)
ListInv ==
  /\ phase \notin {"free", "release", "down"} =>
       Listed = mem /\ Distinct(allObjects, 1, Len(allObjects))
  /\ phase = "free" =>
       /\ writeIdx < i /\ i <= Len(allObjects) + 1
       /\ mem = Kept \cup Rest /\ Kept \cap Rest = {}
       /\ Distinct(allObjects, 1, writeIdx) /\ Distinct(allObjects, i, Len(allObjects))
       /\ mark \subseteq Rest
  /\ phase = "release" => mem = Rest /\ Distinct(allObjects, i, Len(allObjects))
  /\ phase = "down" => mem = {}

(* The set that holds every root and that no reference leaves: all of      *)
(* memory between collections; during marking, what is marked up to the    *)
(* gray frontier; during sweeping, the survivors. *)
ColourInv ==
  /\ phase \in {"run", "mark", "tally", "alloc"} => ClosedSet(mem)
  /\ phase = "destroy" => \A o \in mem : Edges[o] \subseteq mem
  /\ phase \in {"run", "alloc"} => mark = {}
  /\ phase # "mark" => gray = {}
  /\ phase = "mark" => /\ Held \subseteq mark \cup gray
                       /\ \A o \in mark : Edges[o] \subseteq mark \cup gray
                       /\ mark \cup gray \subseteq Reach
  /\ phase = "tally" => ClosedSet(mark) /\ mark \subseteq Reach
  /\ phase = "free" => ClosedSet(Kept \cup mark) /\ Kept \cup mark \subseteq Reach

(* A pending allocation is well formed: the class of an instance to be     *)
(* created is still on the stack. *)
ReqInv ==
  /\ phase \in {"run", "destroy", "release", "down"} => req = NoReq
  /\ phase = "alloc" => req # NoReq
  /\ req # NoReq /\ req.type \in Objects => req.type \in Held
  /\ req # NoReq /\ req.slot = 0 => Len(stack) < MaxStack

Inv == TypeOK /\ ListInv /\ ColourInv /\ ReqInv

----------------------------------------------------------------------------
(* Properties. *)

(* No collection frees an object the program can still reach: not in the   *)
(* middle of a sweep, not when a chain of references leads to it through a *)
(* class, a closed upvalue or another object, not after compaction moved   *)
(* it down (ms_gc.c markRoots, sweep). *)
ReachableIsAllocated == Reach \subseteq mem

(* Nothing the collector dereferences has been freed: markObject reads an  *)
(* object and its type, the first sweep pass reads the type of the dead (a *)
(* class that may die in the same sweep), the shutdown passes do the same  *)
(* (the reason for "two passes" in sweep and msGCShutdown). *)
Intact(o) == o \in mem /\ (type[o] \in Objects => type[o] \in mem)

NoDanglingAccess ==
  /\ phase = "mark" => \A o \in gray : Intact(o)
  /\ phase \in {"tally", "destroy"} /\ i <= Len(allObjects) => Intact(allObjects[i])
  /\ phase \in {"free", "release"} /\ i <= Len(allObjects) => allObjects[i] \in mem

(* A finished collection is exact: what is left is what is reachable, with *)
(* all mark bits clear for the next collection, and allObjects lists each  *)
(* survivor once (sweep's second pass). *)
CollectionExact ==
  [][SweepDone => /\ mem = Reach
                  /\ mark' = {}
                  /\ Listed' = mem
                  /\ Distinct(allObjects', 1, Len(allObjects'))]_vars

(* A class precedes its instances in allObjects, and compaction keeps it   *)
(* so at each of its steps (the comment in sweep relies on it).  While     *)
(* sweep's second pass runs, the entries between writeIdx and i are stale. *)
Positions == IF phase = "free" THEN (1..writeIdx) \cup (i..Len(allObjects))
                               ELSE 1..Len(allObjects)

ClassBeforeInstance ==
  phase \notin {"release", "down"} =>
    \A j, k \in Positions : type[allObjects[j]] = allObjects[k] => k < j

(* The byte and object counters never drift from what is allocated: the    *)
(* size tallied through the type of a dead object is the size it was       *)
(* allocated with, so that, when sweep subtracts its tally, what remains   *)
(* is the count of the survivors, and bytesAlloc cannot wrap below zero. *)
Bytes(S) == UNION {{o} \X (1..size[o]) : o \in S}

Counted(S, bytes, count) == bytes = Cardinality(Bytes(S)) /\ count = Cardinality(S)

(* The dead that sweep's first pass has come to. *)
Condemned == Entries(allObjects, 1, i - 1) \ mark

Accounting ==
  /\ phase \in {"run", "mark", "tally", "alloc"} => Counted(mem, bytesAlloc, numObjects)
  /\ phase = "tally" => /\ i <= Len(allObjects) + 1
                        /\ Counted(Condemned, freedBytes, freedCount)
  /\ phase = "free" => Counted(Kept \cup mark, bytesAlloc - freedBytes, numObjects - freedCount)

(* The promise of MsHeap. *)
ImplementsHeap == Heap!Spec

(* Every collection or allocation that was started comes to its end and    *)
(* gives control back to the interpreter: marking terminates on any graph, *)
(* cyclic ones included, and sweep's loops end. *)
CollectionEnds == phase \in {"mark", "tally", "free", "alloc"} ~> phase \in {"run", "aborted"}

=============================================================================

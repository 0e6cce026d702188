------------------------------ MODULE MsUpvalue ------------------------------
(***************************************************************************)
(* Closure variables: the open and closed upvalues of                      *)
(* src/runtime/ms_upvalue.c, and the instructions of src/vm/ms_vm.c that   *)
(* capture, read, write and close them, over an operand stack whose slots  *)
(* are reused.  MsVariables is what they promise; cell and ucell are       *)
(* auxiliary variables that name the variable a slot or an upvalue stands  *)
(* for, and that nothing else depends on.                                  *)
(*                                                                         *)
(* The bytecode is any that keeps the slots of the compiler's scopes and   *)
(* those of the stack together: a slot whose variable some nested function *)
(* mentions (MsLocal.captured) is dropped with OP_CLOSE_UPVALUE, any other *)
(* one with OP_POP, except that compileForIn drops the loop variable with  *)
(* OP_POP in either case.  The bottom frame, the script's, stands for that *)
(* of a function whose caller does not matter.                             *)
(***************************************************************************)
EXTENDS Naturals, Sequences, FiniteSets

CONSTANTS
  Values,        \* what a slot can hold
  Fn, Nil,       \* the value that is a function; nil
  Upvalues,      \* addresses of MsUpvalue objects
  Closures,      \* MsClosure objects
  Cells, NoCell, \* names for variables, and none of them
  Null,          \* the NULL pointer
  MaxSlots,      \* bound on the stack
  MaxFrames,     \* bound on the depth of calls
  MaxCaptured,   \* bound on upvalCount
  ForIn,         \* the program may capture the variable of a for-in loop
  Errors         \* a run may fail and be followed by another msVMRun

ASSUME UpvalueAssumption ==
  /\ Fn \in Values /\ Nil \in Values
  /\ Null \notin Closures /\ NoCell \notin Cells
  /\ MaxSlots \in Nat /\ MaxFrames \in Nat /\ MaxCaptured \in Nat
  /\ ForIn \in BOOLEAN /\ Errors \in BOOLEAN

VARIABLES
  stack,         \* t->stack; what was popped stays in it
  sp,            \* number of slots in use
  kind,          \* kind[s]: what the compiler knows of the variable in slot s <= sp
  frames,        \* the frame chain, innermost last
  heap,          \* the upvalues that are allocated
  location,      \* location[u]: a slot, or Closed for &uv->closedVal
  closedVal,
  openUpvalues,  \* the list t->openUpvalues, head first
  upvalues,      \* upvalues[k]: the array of closure k
  making,        \* the closure that OP_MAKE_FUNC is filling in, or Null
  cell, ucell    \* auxiliary: the variable of a slot, of an upvalue

vm == <<stack, sp, kind, frames>>
objects == <<heap, location, closedVal, openUpvalues>>
vars == <<vm, objects, upvalues, making, cell, ucell>>

Slots == 1..MaxSlots
Closed == 0
Live == 1..sp
Kinds == {"plain", "captured", "loop"}
Frames == [slots : 1..MaxSlots + 1, rewind : 0..MaxSlots - 1, closure : Closures \cup {Null}]

Elements(q) == {q[n] : n \in 1..Len(q)}
frame == frames[Len(frames)]

----------------------------------------------------------------------------
(* The auxiliary names. *)

UsedCells == {cell[s] : s \in Live} \cup {ucell[u] : u \in heap}
fresh == CHOOSE c \in Cells : c \notin UsedCells
CellAvailable == \E c \in Cells : c \notin UsedCells

(***************************************************************************)
(* What is in cell c: what its upvalue shows if it was captured, and the   *)
(* stack slot otherwise.                                                   *)
(***************************************************************************)
deref(u) == IF location[u] = Closed THEN closedVal[u] ELSE stack[location[u]]

CellValue(c) ==
  IF \E u \in heap : ucell[u] = c
  THEN deref(CHOOSE u \in heap : ucell[u] = c)
  ELSE IF \E s \in Live : cell[s] = c
       THEN stack[CHOOSE s \in Live : cell[s] = c]
       ELSE Nil

Variables == INSTANCE MsVariables WITH
               scope <- cell,
               value <- [c \in Cells |-> CellValue(c)],
               captures <- [k \in Closures |-> [n \in DOMAIN upvalues[k] |-> ucell[upvalues[k][n]]]]

----------------------------------------------------------------------------
(* msVMRun: one reserved slot, and the top-level frame above it. *)
topFrame == [slots |-> 2, rewind |-> 0, closure |-> Null]

Init ==
  /\ stack = [s \in Slots |-> Nil]
  /\ sp = 0
  /\ kind = <<>>
  /\ frames = <<>>
  /\ heap = {}
  /\ location = [u \in Upvalues |-> Closed]
  /\ closedVal = [u \in Upvalues |-> Nil]
  /\ openUpvalues = <<>>
  /\ upvalues = [k \in Closures |-> <<>>]
  /\ making = Null
  /\ cell = <<>>
  /\ ucell = [u \in Upvalues |-> NoCell]

Running == frames # <<>> /\ making = Null

(* PUSH of a value, as the variable or temporary that the compiler takes it for *)
PUSH(v, kd) ==
  /\ sp < MaxSlots /\ CellAvailable
  /\ stack' = [stack EXCEPT ![sp + 1] = v]
  /\ kind' = Append(kind, kd)
  /\ cell' = Append(cell, fresh)
  /\ sp' = sp + 1

(* t->sp is set back to n slots *)
Rewind(n) == sp' = n /\ kind' = SubSeq(kind, 1, n) /\ cell' = SubSeq(cell, 1, n)

(* Mutant: a new run goes on with the list that the last one left. *)
OpenAtStart_Kept == openUpvalues

OpenAtStart == <<>>

msVMRun ==
  /\ frames = <<>>
  /\ sp = 0
  /\ PUSH(Nil, "plain")
  /\ frames' = <<topFrame>>
  /\ openUpvalues' = OpenAtStart
  /\ UNCHANGED <<heap, location, closedVal, upvalues, making, ucell>>

Push(v, kd) ==
  /\ Running
  /\ kd = "loop" => ForIn
  /\ PUSH(v, kd)
  /\ UNCHANGED <<frames, objects, upvalues, making, ucell>>

(* OP_GET_LOCAL and OP_SET_LOCAL *)
GetLocal(s) ==
  /\ Running
  /\ s \in frame.slots..sp
  /\ PUSH(stack[s], "plain")
  /\ UNCHANGED <<frames, objects, upvalues, making, ucell>>

SetLocal(s) ==
  /\ Running
  /\ s \in frame.slots..sp
  /\ stack' = [stack EXCEPT ![s] = stack[sp]]
  /\ UNCHANGED <<sp, kind, frames, objects, upvalues, making, cell, ucell>>

GetUpvalue(idx) ==
  /\ Running
  /\ frame.closure # Null
  /\ idx \in 1..Len(upvalues[frame.closure])
  /\ PUSH(deref(upvalues[frame.closure][idx]), "plain")
  /\ UNCHANGED <<frames, objects, upvalues, making, ucell>>

(* The value stored stays on the stack: PEEK(0). *)
SetUpvalue(idx) ==
  LET u == upvalues[frame.closure][idx] IN
  /\ Running
  /\ frame.closure # Null
  /\ idx \in 1..Len(upvalues[frame.closure])
  /\ sp >= frame.slots
  /\ IF location[u] = Closed
     THEN closedVal' = [closedVal EXCEPT ![u] = stack[sp]] /\ UNCHANGED stack
     ELSE stack' = [stack EXCEPT ![location[u]] = stack[sp]] /\ UNCHANGED closedVal
  /\ UNCHANGED <<sp, kind, frames, heap, location, openUpvalues, upvalues, making, cell, ucell>>

----------------------------------------------------------------------------
(* Closing. *)

(* Mutant: the upvalue of the slot itself stays open. *)
Closing_Strict(slot) ==
  CHOOSE n \in 0..Len(openUpvalues) :
    /\ \A j \in 1..n : location[openUpvalues[j]] > slot
    /\ n < Len(openUpvalues) => ~(location[openUpvalues[n + 1]] > slot)

(***************************************************************************)
(* msCloseUpvalues(t, slot): open upvalues are taken off the front of the  *)
(* list as long as they point at slot or above it.                         *)
(***************************************************************************)
Closing(slot) ==
  CHOOSE n \in 0..Len(openUpvalues) :
    /\ \A j \in 1..n : location[openUpvalues[j]] >= slot
    /\ n < Len(openUpvalues) => location[openUpvalues[n + 1]] < slot

msCloseUpvalues(slot) ==
  LET n == Closing(slot)
      closing == {openUpvalues[j] : j \in 1..n} IN
  /\ closedVal' = [u \in Upvalues |-> IF u \in closing THEN stack[location[u]] ELSE closedVal[u]]
  /\ location' = [u \in Upvalues |-> IF u \in closing THEN Closed ELSE location[u]]
  /\ openUpvalues' = SubSeq(openUpvalues, n + 1, Len(openUpvalues))

(* OP_POP, for a variable that is not captured, and for any loop variable. *)
Pop ==
  /\ Running
  /\ sp >= frame.slots
  /\ kind[sp] \in {"plain", "loop"}
  /\ Rewind(sp - 1)
  /\ UNCHANGED <<stack, frames, objects, upvalues, making, ucell>>

CloseUpvalue ==
  /\ Running
  /\ sp >= frame.slots
  /\ kind[sp] = "captured"
  /\ msCloseUpvalues(sp)
  /\ Rewind(sp - 1)
  /\ UNCHANGED <<stack, frames, heap, upvalues, making, ucell>>

----------------------------------------------------------------------------
(* Capturing. *)

(* OP_MAKE_FUNC: msNewClosure. *)
BeginMakeFunc(k) ==
  /\ Running
  /\ upvalues[k] = <<>>
  /\ \A n \in 1..Len(frames) : frames[n].closure # k
  /\ sp < MaxSlots /\ CellAvailable
  /\ making' = k
  /\ UNCHANGED <<vm, objects, upvalues, cell, ucell>>

(***************************************************************************)
(* msCaptureUpvalue(t, slot) walks the list past the upvalues of higher    *)
(* slots; it reuses the one it then meets if that is for the slot, and     *)
(* puts a new one in front of it otherwise.                                *)
(***************************************************************************)
Ahead(slot) ==
  CHOOSE n \in 0..Len(openUpvalues) :
    /\ \A j \in 1..n : location[openUpvalues[j]] > slot
    /\ n < Len(openUpvalues) => ~(location[openUpvalues[n + 1]] > slot)

IsOpen(slot) == LET n == Ahead(slot) IN
                n < Len(openUpvalues) /\ location[openUpvalues[n + 1]] = slot

Add(u) == upvalues' = [upvalues EXCEPT ![making] = Append(@, u)]

(* Mutant: a new upvalue always becomes the head of the list. *)
Linked_AtHead(n, u) == <<u>> \o openUpvalues

(* u is linked behind the first n. *)
Linked(n, u) == SubSeq(openUpvalues, 1, n) \o <<u>>
                \o SubSeq(openUpvalues, n + 1, Len(openUpvalues))

Reuse(slot) ==
  /\ IsOpen(slot)
  /\ Add(openUpvalues[Ahead(slot) + 1])
  /\ UNCHANGED <<objects, ucell>>

NewUpvalue(slot, u) ==
  LET n == Ahead(slot) IN
  /\ ~IsOpen(slot)
  /\ u \in Upvalues \ heap
  /\ heap' = heap \cup {u}
  /\ location' = [location EXCEPT ![u] = slot]
  /\ closedVal' = [closedVal EXCEPT ![u] = Nil]
  /\ openUpvalues' = Linked(n, u)
  /\ ucell' = [ucell EXCEPT ![u] = cell[slot]]
  /\ Add(u)

(* One descriptor of OP_MAKE_FUNC with isLocal = 1: the compiler has marked *)
(* the variable captured. *)
CaptureLocal(slot, u) ==
  /\ making # Null
  /\ Len(upvalues[making]) < MaxCaptured
  /\ slot \in frame.slots..sp
  /\ kind[slot] \in {"captured", "loop"}
  /\ Reuse(slot) \/ NewUpvalue(slot, u)
  /\ UNCHANGED <<vm, making, cell>>

(* One with isLocal = 0. *)
CaptureEnclosing(idx) ==
  /\ making # Null
  /\ Len(upvalues[making]) < MaxCaptured
  /\ frame.closure # Null
  /\ idx \in 1..Len(upvalues[frame.closure])
  /\ Add(upvalues[frame.closure][idx])
  /\ UNCHANGED <<vm, objects, making, cell, ucell>>

EndMakeFunc ==
  /\ making # Null
  /\ making' = Null
  /\ PUSH(Fn, "plain")
  /\ UNCHANGED <<frames, objects, upvalues, ucell>>

----------------------------------------------------------------------------
(* Calls. *)

(***************************************************************************)
(* A closure is called with the n values on top of the stack; callee and   *)
(* arguments are temporaries of the caller.  The arguments become the      *)
(* callee's first variables, of which it may capture those in P.           *)
(***************************************************************************)
EnterFrame(k, callee, first, P) ==
  /\ Running
  /\ Len(frames) < MaxFrames
  /\ callee >= frame.slots
  /\ \A s \in callee..sp : kind[s] = "plain"
  /\ P \subseteq first..sp
  /\ kind' = [s \in Live |-> IF s \in P THEN "captured" ELSE kind[s]]
  /\ frames' = Append(frames, [slots |-> first, rewind |-> callee - 1, closure |-> k])
  /\ UNCHANGED <<sp, objects, upvalues, making, cell, ucell>>

(* msClosureCall *)
Call(k, n, P) ==
  /\ EnterFrame(k, sp - n, sp - n + 1, P)
  /\ stack[sp - n] = Fn
  /\ UNCHANGED stack

(* A bound method or a constructor: the receiver v overwrites the callee    *)
(* and is the callee's first variable. *)
CallWithReceiver(k, n, v, P) ==
  /\ EnterFrame(k, sp - n, sp - n, P)
  /\ stack[sp - n] = Fn
  /\ stack' = [stack EXCEPT ![sp - n] = v]

(* Mutant: the frame is taken to begin above its callee's slot, as that of *)
(* a plain call does. *)
FirstSlot_PlainCall == frame.rewind + 2

FirstSlot == frame.slots

(* The frame of a called function goes: its upvalues are closed, its slots *)
(* and the callee's go, and the result is pushed for the caller. *)
LeaveFrame(result) ==
  /\ Running /\ CellAvailable
  /\ Len(frames) > 1
  /\ msCloseUpvalues(FirstSlot)
  /\ frames' = SubSeq(frames, 1, Len(frames) - 1)
  /\ stack' = [stack EXCEPT ![frame.rewind + 1] = result]
  /\ kind' = Append(SubSeq(kind, 1, frame.rewind), "plain")
  /\ cell' = Append(SubSeq(cell, 1, frame.rewind), fresh)
  /\ sp' = frame.rewind + 1
  /\ UNCHANGED <<heap, upvalues, making, ucell>>

Return == Running /\ sp >= frame.slots /\ LeaveFrame(stack[sp])
ReturnNil == LeaveFrame(Nil)

(* The return from the top-level frame ends the run. *)
ReturnTop ==
  /\ Running
  /\ Len(frames) = 1
  /\ msCloseUpvalues(FirstSlot)
  /\ frames' = <<>>
  /\ Rewind(0)
  /\ UNCHANGED <<stack, heap, upvalues, making, ucell>>

(* eval returns MS_ERROR_VALUE and leaves everything as it is; the next     *)
(* msVMRun starts over at the bottom of the stack, whose slots nothing but  *)
(* the abandoned upvalues refers to. *)
Fail ==
  /\ Errors
  /\ Running
  /\ frames' = <<>>
  /\ Rewind(0)
  /\ UNCHANGED <<stack, objects, upvalues, making, ucell>>

----------------------------------------------------------------------------
(* Nothing refers to a closure any more, or to an upvalue that is neither  *)
(* open nor in a closure: the collector may take it (see MsGC). *)
Forget(k) ==
  /\ making = Null
  /\ upvalues[k] # <<>>
  /\ \A n \in 1..Len(frames) : frames[n].closure # k
  /\ upvalues' = [upvalues EXCEPT ![k] = <<>>]
  /\ UNCHANGED <<vm, objects, making, cell, ucell>>

Collect(u) ==
  /\ making = Null
  /\ u \in heap \ Elements(openUpvalues)
  /\ \A k \in Closures : u \notin Elements(upvalues[k])
  /\ heap' = heap \ {u}
  /\ location' = [location EXCEPT ![u] = Closed]
  /\ closedVal' = [closedVal EXCEPT ![u] = Nil]
  /\ ucell' = [ucell EXCEPT ![u] = NoCell]
  /\ UNCHANGED <<vm, openUpvalues, upvalues, making, cell>>

Next == \/ msVMRun
        \/ \E v \in Values, kd \in Kinds : Push(v, kd)
        \/ \E s \in Slots : GetLocal(s) \/ SetLocal(s)
        \/ \E idx \in 1..MaxCaptured : GetUpvalue(idx) \/ SetUpvalue(idx) \/ CaptureEnclosing(idx)
        \/ Pop \/ CloseUpvalue
        \/ \E k \in Closures : BeginMakeFunc(k) \/ Forget(k)
        \/ \E s \in Slots, u \in Upvalues : CaptureLocal(s, u)
        \/ EndMakeFunc
        \/ \E k \in Closures, n \in 0..MaxSlots :
             \E P \in SUBSET ((sp - n)..sp) :
               Call(k, n, P) \/ \E v \in Values : CallWithReceiver(k, n, v, P)
        \/ Return \/ ReturnNil \/ ReturnTop \/ Fail
        \/ \E u \in Upvalues : Collect(u)

Spec == Init /\ [][Next]_vars

----------------------------------------------------------------------------
TypeOK ==
  /\ stack \in [Slots -> Values]
  /\ sp \in 0..MaxSlots
  /\ kind \in Seq(Kinds) /\ Len(kind) = sp
  /\ frames \in Seq(Frames)
  /\ heap \subseteq Upvalues
  /\ location \in [Upvalues -> Slots \cup {Closed}]
  /\ closedVal \in [Upvalues -> Values]
  /\ openUpvalues \in Seq(Upvalues)
  /\ upvalues \in [Closures -> Seq(Upvalues)]
  /\ making \in Closures \cup {Null}
  /\ cell \in Seq(Cells) /\ Len(cell) = sp
  /\ ucell \in [Upvalues -> Cells \cup {NoCell}] /\ \A u \in heap : ucell[u] \in Cells

(* The list holds open upvalues, those of higher slots first; while the    *)
(* program runs each is for a captured variable on the stack, and unless a *)
(* run has failed, no other upvalue is open. *)
OpenInv ==
  /\ \A j, k \in 1..Len(openUpvalues) :
       j < k => location[openUpvalues[j]] > location[openUpvalues[k]]
  /\ \A u \in Elements(openUpvalues) :
       /\ u \in heap /\ location[u] # Closed
       /\ frames # <<>> => location[u] \in Live /\ kind[location[u]] = "captured"
  /\ ~Errors => \A u \in heap :
       location[u] # Closed => frames # <<>> /\ u \in Elements(openUpvalues)
  /\ ~ForIn => \A s \in Live : kind[s] # "loop"

(* A variable has one slot at most and one upvalue at most, which all of   *)
(* its closures share, however late and from whatever call depth they      *)
(* captured it; if both, the upvalue is open and points at the slot. *)
CellInv ==
  /\ \A s, r \in Live : cell[s] = cell[r] => s = r
  /\ \A u, w \in heap : ucell[u] = ucell[w] => u = w
  /\ \A u \in heap, s \in Live :
       ucell[u] = cell[s] <=> u \in Elements(openUpvalues) /\ location[u] = s

(* The variables of a frame lie above those of the frames around it.  What *)
(* lies between a frame's first slot and the slot its caller goes on with  *)
(* is the callee, which nothing captures. *)
FrameInv ==
  /\ IF frames = <<>> THEN sp = 0 /\ making = Null ELSE frames[1].rewind = 0
  /\ \A n \in 1..Len(frames) :
       /\ frames[n].rewind < frames[n].slots /\ frames[n].slots <= sp + 1
       /\ \A s \in frames[n].rewind + 1..frames[n].slots - 1 : kind[s] = "plain"
       /\ \A m \in 1..n - 1 : frames[m].slots <= frames[n].rewind + 1
  /\ making # Null => sp < MaxSlots /\ CellAvailable

HeldInv == \A k \in Closures : Elements(upvalues[k]) \subseteq heap

Inv == TypeOK /\ OpenInv /\ CellInv /\ FrameInv /\ HeldInv

(* An upvalue that a closure holds never points at a slot that is not in   *)
(* use, or that another variable has taken over (msCloseUpvalues is called *)
(* before "the stack region about to become invalid" does). *)
NoDangling ==
  \A k \in Closures : \A u \in Elements(upvalues[k]) :
    location[u] # Closed => location[u] \in Live /\ cell[location[u]] = ucell[u]

(* Whatever an earlier run that failed has left behind, the list only has   *)
(* entries for variables of this run (msVMRun: an abandoned frame "could    *)
(* leave stale entries pointing at stack slots this run reuses"). *)
NoStaleEntries ==
  frames # <<>> => \A n \in 1..Len(openUpvalues) :
    LET u == openUpvalues[n] IN
    u \in heap /\ location[u] \in Live /\ cell[location[u]] = ucell[u]

(* Variables behave as cells of their own. *)
ImplementsVariables == Variables!Spec

=============================================================================

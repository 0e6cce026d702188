-------------------------------- MODULE MsCall --------------------------------
(***************************************************************************)
(* Calls as src/runtime/ms_func.c and the evaluation loop of               *)
(* src/vm/ms_vm.c make them: one operand stack for all activations, of     *)
(* which a frame knows where its slots begin; frames from a pool that is   *)
(* itself a stack, and from malloc once it is used up; and flags in frames *)
(* that say how to return, since eval does not call itself.  MsActivations *)
(* is what they promise.                                                   *)
(*                                                                         *)
(* The bytecode is any that leaves the parameters of its function where    *)
(* they are.  Upvalues are left to MsUpvalue, what is a GC root to MsGC.   *)
(***************************************************************************)
EXTENDS MsCallables, FiniteSetsExt

CONSTANTS
  NoDefaults, Nothing, \* as in MsActivations
  Pushed,       \* the values that instructions other than calls push
  PoolSize,     \* FRAME_POOL_SIZE
  MaxMalloc,    \* bound on the frames from msAlloc
  MaxStack,     \* bound on the stack
  ArgcLimit,    \* 256: a number of arguments is a byte
  AssignSelf,   \* an __init__ may assign to its first parameter
  LongSpreads   \* a list with ArgcLimit items or more may be spread

ASSUME CallAssumption ==
  /\ PoolSize \in Nat /\ MaxMalloc \in Nat /\ MaxStack \in Nat
  /\ ArgcLimit \in Nat \ {0}
  /\ AssignSelf \in BOOLEAN /\ LongSpreads \in BOOLEAN
  /\ \A v \in Pushed : IsValue(v) /\ v # Fn
  /\ NoDefaults \notin Seq(Scalars) /\ Nothing # Instance

VARIABLES
  proto,          \* MsFuncProto of the function, without its defaults
  defaults,       \* proto->defaults, or NoDefaults
  stack,          \* t->stack up to t->sp
  chain,          \* the frames from msVMRun's to t->topFrame
  frames,         \* the contents of all frames; new is auxiliary: what a constructor is to give
  gFramePoolTop,
  malloced        \* the frames allocated by msAlloc

vars == <<proto, defaults, stack, chain, frames, gFramePoolTop, malloced>>

TopLevel == 0   \* the frame in msVMRun's C stack frame
Pool == 1..PoolSize
Mallocs == PoolSize + 1..PoolSize + MaxMalloc
Addresses == {TopLevel} \cup Pool \cup Mallocs

sp == Len(stack)
topFrame == Last(chain)
frame == frames[topFrame]

(* The slot below which the stack belongs to the caller. *)
Base(f) == IF f.isCtor \/ f.boundCall THEN f.slots ELSE f.slots - 1

Waits(f) == IF f.forIterPending THEN "iterate" ELSE IF f.discardReturn THEN "discard" ELSE "push"

(* Operands of the n-th frame: what is above them is its callee's. *)
Operands(n) ==
  SubSeq(stack, frames[chain[n]].slots,
         IF n = Len(chain) THEN sp ELSE Base(frames[chain[n + 1]]) - 1)

(* What MsActivations has instead of stack and frames, and of the order in *)
(* which the defaults are kept. *)
Shown == [n \in 1..Len(chain) |->
            [operands |-> Operands(n), waits |-> Waits(frames[chain[n]]), gives |-> frames[chain[n]].new]]

InOrder == IF defaults = NoDefaults THEN NoDefaults ELSE Reverse(defaults)

Activations == INSTANCE MsActivations WITH defaults <- InOrder, calls <- Shown

----------------------------------------------------------------------------
(* Mutant: a frame that was a constructor's stays one. *)
Cleared_StaysCtor(f) == [f EXCEPT !.boundCall = FALSE, !.discardReturn = FALSE,
                                  !.forIterPending = FALSE, !.new = Nothing]

(* The flags as msNewFrame and msVMRun set them. *)
Cleared(f) == [f EXCEPT !.isCtor = FALSE, !.boundCall = FALSE,
                        !.discardReturn = FALSE, !.forIterPending = FALSE, !.new = Nothing]

(* dispatchClassCall sets isCtor, dispatchBoundMethodCall and               *)
(* dispatchMagicCall set boundCall; nobody resets them. *)
Called(f, slots, how) ==
  LET fresh == Cleared(f) IN
  [fresh EXCEPT !.slots = slots,
                !.isCtor = fresh.isCtor \/ how = "ctor",
                !.boundCall = fresh.boundCall \/ how = "bound",
                !.new = IF how = "ctor" THEN Instance ELSE Nothing]

Init ==
  /\ proto \in Signatures
  /\ defaults = NoDefaults
  /\ stack = <<>>
  /\ chain = <<>>
  /\ frames = [a \in Addresses |-> [slots |-> 1, isCtor |-> FALSE, boundCall |-> FALSE,
                                    discardReturn |-> FALSE, forIterPending |-> FALSE, new |-> Nothing]]
  /\ gFramePoolTop = 0
  /\ malloced = {}

Running == chain # <<>>
program == <<proto, defaults>>
pool == <<gFramePoolTop, malloced>>

msVMRun ==
  /\ ~Running
  /\ stack' = <<Nil>>
  /\ chain' = <<TopLevel>>
  /\ frames' = [frames EXCEPT ![TopLevel] = Called(@, 2, "plain")]
  /\ UNCHANGED <<program, pool>>

----------------------------------------------------------------------------
(* Instructions that call nothing.  Those that differ only in what they    *)
(* push or how often they pop are one. *)

InFunction == topFrame # TopLevel

(* The code of a frame may take n operands off: they are not parameters. *)
Takes(n) == Running /\ sp - n >= frame.slots - 1 + (IF InFunction THEN ParamCount(proto) ELSE 0)

(* t->sp[-1 - n] *)
PEEK(n) == stack[sp - n]
Dropped(n) == SubSeq(stack, 1, sp - n)
Args(n) == SubSeq(stack, sp - n + 1, sp)

SetStack(s) == Len(s) <= MaxStack /\ stack' = s
Local == UNCHANGED <<program, chain, frames, pool>>

Push(v) == Takes(0) /\ SetStack(Append(stack, v)) /\ Local

(* The closure is there once OP_MAKE_FUNC has been executed. *)
Const == \E v \in Pushed \cup (IF defaults = NoDefaults THEN {} ELSE {Fn}) : Push(v)

GetLocal == Running /\ \E s \in frame.slots..sp : Push(stack[s])

SetLocal ==
  /\ Takes(1)
  /\ \E s \in frame.slots..sp :
       /\ AssignSelf \/ s # frame.slots \/ ~frame.isCtor
       /\ stack' = [stack EXCEPT ![s] = PEEK(0)]
  /\ Local

Pop == Takes(1) /\ SetStack(Dropped(1)) /\ Local

(* The result r of n operands: a slot of a built-in type, or a function in *)
(* C with n - 1 arguments. *)
Native == \E n \in 1..3, r \in Pushed \cap Scalars :
            Takes(n) /\ SetStack(Append(Dropped(n), r)) /\ Local

(* OP_GET_ATTR finds a method of the instance. *)
GetAttr ==
  /\ Takes(1)
  /\ PEEK(0) = Instance /\ IsPlain(proto) /\ defaults # NoDefaults
  /\ SetStack(Append(Dropped(1), Method(Instance)))
  /\ Local

(* Mutant: the values are popped as if the first one were on top. *)
Popped_InOrder(n) == Args(n)

(* defaults[i] = POP() *)
Popped(n) == Reverse(Args(n))

(* OP_MAKE_FUNC, in the script: evaluates the defaults and makes a closure. *)
MakeFunc ==
  LET n == defaultCount(proto) IN
  /\ Takes(n) /\ ~InFunction
  /\ Range(Args(n)) \subseteq Scalars
  /\ defaults' = Popped(n)
  /\ SetStack(Append(Dropped(n), Fn))
  /\ UNCHANGED <<proto, chain, frames, pool>>

----------------------------------------------------------------------------
(* Frames. *)

(* Mutant: the pool is one frame larger than it is. *)
PoolTop_OneMore == PoolSize + 1

PoolTop == PoolSize

(* The frame a comes from the pool, or from msAlloc. *)
msNewFrame(a) ==
  IF gFramePoolTop < PoolTop
  THEN a = gFramePoolTop + 1 /\ gFramePoolTop' = a /\ UNCHANGED malloced
  ELSE a \in Mallocs \ malloced /\ malloced' = malloced \cup {a} /\ UNCHANGED gFramePoolTop

msFreeFrame(a) ==
  IF a \in Pool
  THEN gFramePoolTop' = gFramePoolTop - 1 /\ UNCHANGED malloced
  ELSE malloced' = malloced \ {a} /\ UNCHANGED gFramePoolTop

Waiting(f, waits) == [f EXCEPT !.forIterPending = f.forIterPending \/ waits = "iterate",
                               !.discardReturn = f.discardReturn \/ waits = "discard"]

(* A frame whose first slots are params, above the part kept of the stack. *)
Enter(kept, params, how, waits) ==
  /\ \E a \in Addresses :
       /\ msNewFrame(a)
       /\ chain' = Append(chain, a)
       /\ frames' = [frames EXCEPT
            ![topFrame] = Waiting(@, waits),
            ![a] = Called(@, Len(kept) + 1, how)]
  /\ SetStack(kept \o params)
  /\ UNCHANGED program

----------------------------------------------------------------------------
(* Parameters. *)

(* The parameter with index i, counted from 0, has a default. *)
HasDefault(i) == i >= proto.arity /\ defaultCount(proto) - 1 - (i - proto.arity) \in 0..defaultCount(proto) - 1
paramDefaultAt(i) == defaults[defaultCount(proto) - 1 - (i - proto.arity) + 1]

DefaultOrNil(i) == IF HasDefault(i) THEN paramDefaultAt(i) ELSE Nil

(* The arguments args and the defaults, those that are left over, and the  *)
(* parameters they become. *)
Filled(args) == args \o [j \in 1..arityMax(proto) - Len(args) |-> DefaultOrNil(Len(args) + j - 1)]
Extra(args) == SubSeq(Filled(args), arityMax(proto) + 1, Len(Filled(args)))

Collected(args) ==
  IF proto.hasVararg THEN Append(SubSeq(Filled(args), 1, arityMax(proto)), List(Extra(args))) ELSE Filled(args)

Positional(args) == IF proto.hasKwarg THEN Append(Collected(args), Map(NoKeywords)) ELSE Collected(args)

(* msClosureCall: the arguments args are on the stack, above the part kept. *)
msClosureCall(kept, args, how, waits) ==
  /\ defaults # NoDefaults
  /\ Len(args) >= proto.arity
  /\ proto.hasVararg \/ Len(args) <= arityMax(proto)
  /\ proto.hasVararg => Range(Extra(args)) \subseteq Scalars
  /\ Enter(kept, Positional(args), how, waits)

(* msFindParamSlot, or 0 *)
ParamSlot(name) == Max({0} \cup {i \in 1..arityMax(proto) : proto.names[i] = name})

Unknown(km) == {name \in DOMAIN km : ParamSlot(name) = 0}
Named(km) == {ParamSlot(name) : name \in DOMAIN km \ Unknown(km)}

SlotVals(pos, km) ==
  [i \in 1..arityMax(proto) |-> IF i <= Len(pos) THEN pos[i]
                                ELSE IF i \in Named(km) THEN km[proto.names[i]]
                                ELSE DefaultOrNil(i - 1)]

ByName(pos, km) ==
  IF proto.hasKwarg THEN Append(SlotVals(pos, km), Map([name \in Unknown(km) |-> km[name]])) ELSE SlotVals(pos, km)

(* msClosureCallKw, with arguments pos and km by name *)
msClosureCallKw(kept, pos, km) ==
  /\ defaults # NoDefaults
  /\ ~proto.hasVararg
  /\ Len(pos) <= arityMax(proto)
  /\ Unknown(km) = {} \/ proto.hasKwarg
  /\ \A i \in Named(km) : i > Len(pos)
  /\ \A i \in Len(pos) + 1..arityMax(proto) : i \in Named(km) \/ HasDefault(i - 1)
  /\ Enter(kept, ByName(pos, km), "plain", "push")

----------------------------------------------------------------------------
(* Calls. *)

IsMethodOfClass == IsPlain(proto) /\ defaults # NoDefaults

(***************************************************************************)
(* dispatchCall, with argc arguments on top of the stack st.  For a class  *)
(* that has an __init__, and for a bound method, the callee's slot gets    *)
(* the instance and is the first one of the new frame.                     *)
(***************************************************************************)
dispatchCall(st, argc) ==
  LET base == Len(st) - argc
      callee == st[base]
      below == SubSeq(st, 1, base - 1)
      args == SubSeq(st, base + 1, Len(st)) IN
  \/ callee = Fn /\ msClosureCall(Append(below, Fn), args, "plain", "push")
  \/ callee = Class /\ IsMethodOfClass /\ msClosureCall(below, <<Instance>> \o args, "ctor", "push")
  \/ callee = Class /\ argc = 0 /\ SetStack(Append(below, Instance)) /\ Local
  \/ IsMethod(callee) /\ msClosureCall(below, <<callee.self>> \o args, "bound", "push")

Call == \E argc \in 0..sp : Takes(argc + 1) /\ dispatchCall(stack, argc)

(* The items are pushed as the list's iterator gives them, and nil is taken *)
(* for its end: an item that is nil, and all that follow it, are dropped. *)
msExpandToStack(items) ==
  SubSeq(items, 1, Min({i \in 0..Len(items) : i = Len(items) \/ items[i + 1] = Nil}))

CallEx ==
  LET items == msExpandToStack(PEEK(0).items) IN
  /\ Takes(2)
  /\ IsList(PEEK(0))
  /\ LongSpreads \/ Len(items) < ArgcLimit
  /\ dispatchCall(Dropped(1) \o items, Len(items) % ArgcLimit)

CallKw ==
  \E posArgc \in 0..sp :
    /\ Takes(posArgc + 2)
    /\ PEEK(posArgc + 1) = Fn /\ IsMap(PEEK(0))
    /\ msClosureCallKw(Dropped(posArgc + 1), SubSeq(stack, sp - posArgc, sp - 1), PEEK(0).entries)

(* dispatchMagicCall: argv are pushed again, or once more. *)
dispatchMagicCall(kept, argv, waits) ==
  /\ argv[1] = Instance /\ IsMethodOfClass
  /\ msClosureCall(kept, argv, "bound", waits)

Unary == Takes(1) /\ dispatchMagicCall(Dropped(1), <<PEEK(0)>>, "push")

(* An operator, or a reverse operator, or OP_IN *)
Binary ==
  /\ Takes(2)
  /\ \E argv \in {<<PEEK(1), PEEK(0)>>, <<PEEK(0), PEEK(1)>>} : dispatchMagicCall(Dropped(2), argv, "push")

SetItem == Takes(3) /\ dispatchMagicCall(Dropped(3), <<PEEK(1), PEEK(0), PEEK(2)>>, "push")
DelItem == Takes(2) /\ dispatchMagicCall(Dropped(2), <<PEEK(1), PEEK(0)>>, "discard")

(* The iterator stays on the stack. *)
ForIter == Takes(1) /\ dispatchMagicCall(stack, <<PEEK(0)>>, "iterate")

----------------------------------------------------------------------------
(* Returns. *)

(* The stack of the caller f, above which is nothing, with the result. *)
completeMagicReturn(f, below, result) ==
  IF f.forIterPending
  THEN IF result = Nil THEN Front(below) ELSE Append(below, result)
  ELSE IF f.discardReturn THEN below
  ELSE Append(below, result)

Resumed(f) == [f EXCEPT !.forIterPending = FALSE, !.discardReturn = FALSE]

(* A frame that is not in use keeps its flags.  Its slots are forgotten:   *)
(* every use sets them. *)
Unused(f) == [f EXCEPT !.slots = 1, !.new = Nothing]

LeaveFrame(value) ==
  LET below == SubSeq(stack, 1, Base(frame) - 1)
      result == IF frame.isCtor THEN stack[frame.slots] ELSE value
      caller == chain[Len(chain) - 1] IN
  /\ InFunction
  /\ SetStack(completeMagicReturn(frames[caller], below, result))
  /\ chain' = Front(chain)
  /\ frames' = [frames EXCEPT ![caller] = Resumed(@), ![topFrame] = Unused(@)]
  /\ msFreeFrame(topFrame)
  /\ UNCHANGED program

Return == Takes(1) /\ LeaveFrame(PEEK(0))
ReturnNil == Running /\ LeaveFrame(Nil)

Stop ==
  /\ stack' = <<>> /\ chain' = <<>>
  /\ frames' = [a \in Addresses |-> Unused(frames[a])]
  /\ UNCHANGED <<program, pool>>

ReturnTop == Running /\ ~InFunction /\ Stop

(* eval returns MS_ERROR_VALUE, from whatever depth; the frames stay where  *)
(* they are, and the next run starts over at the bottom of the stack. *)
Fail == Running /\ Stop

Next ==
  \/ msVMRun \/ Const \/ GetLocal \/ SetLocal \/ Pop \/ Native \/ GetAttr \/ MakeFunc
  \/ Call \/ CallEx \/ CallKw
  \/ Unary \/ Binary \/ SetItem \/ DelItem \/ ForIter
  \/ Return \/ ReturnNil \/ ReturnTop \/ Fail

Spec == Init /\ [][Next]_vars

----------------------------------------------------------------------------
PoolTypeOK ==
  /\ chain \in Seq(Addresses)
  /\ gFramePoolTop \in 0..PoolSize
  /\ malloced \subseteq Mallocs

Depths == 1..Len(chain)

OnlyOutermostIsTopLevel == \A n \in Depths : chain[n] = TopLevel <=> n = 1

(* The frame above in the pool is the next one called, or there is none. *)
NextInPool(n) == n < Len(chain) /\ chain[n + 1] \in Pool
PoolInOrder ==
  \A n \in Depths : chain[n] \in Pool =>
    IF NextInPool(n) THEN chain[n + 1] = chain[n] + 1 ELSE chain[n] = gFramePoolTop

NoFrameTwice == \A m, n \in Depths : m < n => chain[m] # chain[n] /\ (chain[n] \in Pool => chain[m] < chain[n])
MallocsLast == \A n \in Depths : chain[n] \in Mallocs => chain[n] \in malloced /\ gFramePoolTop = PoolSize

(* The frame that returns is the one that the pool can take back: its      *)
(* frames are in use in the order in which they lie there, the innermost   *)
(* one on top, and what comes from msAlloc was got last; whatever a run    *)
(* that failed has left there.  So no two activations share a frame. *)
PoolIsStack == OnlyOutermostIsTopLevel /\ PoolInOrder /\ NoFrameTwice /\ MallocsLast

(* A frame waits in one way at a time, and only while it has called; no    *)
(* flag is left over from another activation, or another run, that had the *)
(* same frame. *)
FlagsWhileWaiting ==
  \A n \in Depths : LET f == frames[chain[n]] IN
    /\ ~(f.forIterPending /\ f.discardReturn)
    /\ f.forIterPending \/ f.discardReturn => n < Len(chain) /\ frames[chain[n + 1]].boundCall
    /\ ~(f.isCtor /\ f.boundCall)

(* Every activation has operands of its own. *)
ImplementsActivations == Activations!Spec
===============================================================================

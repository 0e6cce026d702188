---------------------------- MODULE MsActivations ----------------------------
(***************************************************************************)
(* What calls promise to a mslang program: every activation has operands   *)
(* of its own, which begin with its parameters and which nothing that it   *)
(* calls can touch; a call takes callee and arguments off its caller's     *)
(* operands, and its return does with the result what the caller waits     *)
(* for.  There is no stack to be shared, no frame to be reused and no flag *)
(* to be left over.  MsCall implements this.                               *)
(***************************************************************************)
EXTENDS MsCallables

CONSTANTS
  NoDefaults,  \* the function is not made yet
  Nothing      \* an activation gives what its code returns

VARIABLES
  proto,     \* the function's parameter list
  defaults,  \* the default values of its last parameters, or NoDefaults
  calls      \* the activations, innermost last

avars == <<proto, defaults, calls>>

(* gives is the instance that the activation constructs and will give its  *)
(* caller, whatever its code returns, or Nothing. *)
Activation(operands, waits, gives) == [operands |-> operands, waits |-> waits, gives |-> gives]

Init == proto \in Signatures /\ defaults = NoDefaults /\ calls = <<>>

Callers == Front(calls)
this == calls[Len(calls)]

(* The program starts over, whatever became of the last run. *)
Start == calls = <<>> /\ calls' = <<Activation(<<>>, "push", Nothing)>> /\ UNCHANGED <<proto, defaults>>

Fail == calls' = <<>> /\ UNCHANGED <<proto, defaults>>

(* An instruction that calls nothing works on the innermost operands. *)
Work ==
  /\ UNCHANGED <<proto, defaults>>
  /\ calls # <<>> /\ Len(calls') = Len(calls)
  /\ Front(calls') = Callers
  /\ calls'[Len(calls)] = [this EXCEPT !.operands = calls'[Len(calls)].operands]

(* The function is made: its last operands become the default values. *)
Make ==
  LET rest == Len(this.operands) - defaultCount(proto) IN
  /\ UNCHANGED proto
  /\ calls # <<>> /\ rest >= 0
  /\ defaults' = SubSeq(this.operands, rest + 1, Len(this.operands))
  /\ calls' = Append(Callers, [this EXCEPT !.operands = Append(SubSeq(@, 1, rest), Fn)])

----------------------------------------------------------------------------
Positions == 1..arityMax(proto)
ByKeyword(i, kw) == proto.names[i] \in DOMAIN kw

(* Every parameter without a default is given a value, none is given two,  *)
(* and nothing is given that has no parameter to go to. *)
Accepts(pos, kw) ==
  /\ \A i \in Positions : ~(i <= Len(pos) /\ ByKeyword(i, kw))
  /\ \A i \in 1..proto.arity : i <= Len(pos) \/ ByKeyword(i, kw)
  /\ Len(pos) > arityMax(proto) => proto.hasVararg
  /\ DOMAIN kw \subseteq Range(proto.names) \/ proto.hasKwarg

Value(i, pos, kw) ==
  IF i <= Len(pos) THEN pos[i]
  ELSE IF ByKeyword(i, kw) THEN kw[proto.names[i]]
  ELSE defaults[i - proto.arity]

(* What the callee begins with. *)
Parameters(pos, kw) ==
  [i \in Positions |-> Value(i, pos, kw)]
  \o (IF proto.hasVararg THEN <<List(SubSeq(pos, arityMax(proto) + 1, Len(pos)))>> ELSE <<>>)
  \o (IF proto.hasKwarg THEN <<Map(Restrict(kw, DOMAIN kw \ Range(proto.names)))>> ELSE <<>>)

(* The function is called; its caller keeps the operands kept and then     *)
(* waits. *)
Enter(pos, kw, kept, waits, gives) ==
  /\ UNCHANGED <<proto, defaults>>
  /\ defaults # NoDefaults /\ Accepts(pos, kw)
  /\ calls' = Callers \o << Activation(kept, waits, this.gives),
                            Activation(Parameters(pos, kw), "push", gives) >>

Callee(callee, pos, kept) ==
  \/ callee = Fn /\ Enter(pos, NoKeywords, kept, "push", Nothing)
  \/ callee = Class /\ Enter(<<Instance>> \o pos, NoKeywords, kept, "push", Instance)
  \/ IsMethod(callee) /\ Enter(<<callee.self>> \o pos, NoKeywords, kept, "push", Nothing)

(* A loop, or a spread, gives the first n items of a list: all of them, or *)
(* those before the first nil, by which the iteration protocol tells its   *)
(* end. *)
Iterates(items, n) ==
  /\ \A i \in 1..n : items[i] # Nil
  /\ n < Len(items) => items[n + 1] = Nil

(* A call with arguments, with the items of a list, or with keywords: the  *)
(* callee is the first of the operands taken off. *)
Call(kept, taken) ==
  LET callee == Head(taken)  args == Tail(taken) IN
  \/ Callee(callee, args, kept)
  \/ Len(args) = 1 /\ IsList(args[1])
     /\ \E n \in 0..Len(args[1].items) :
          Iterates(args[1].items, n) /\ Callee(callee, SubSeq(args[1].items, 1, n), kept)
  \/ /\ callee = Fn /\ args # <<>> /\ IsMap(Last(args))
     /\ Enter(Front(args), Last(args).entries, kept, "push", Nothing)

(***************************************************************************)
(* A method of the instance among the operands does the work of an         *)
(* operator.  Reverse operators and "in" have the instance last, and an    *)
(* assignment to an item has the value first.  A deletion has no result,   *)
(* and a loop keeps its iterator until it yields nil.                      *)
(***************************************************************************)
Operator(kept, taken) ==
  \/ /\ Len(taken) \in 1..2
     /\ \E args \in {taken, Reverse(taken)} :
          Head(args) = Instance /\ Enter(args, NoKeywords, kept, "push", Nothing)
  \/ /\ Len(taken) = 3 /\ taken[2] = Instance
     /\ Enter(<<taken[2], taken[3], taken[1]>>, NoKeywords, kept, "push", Nothing)
  \/ /\ Len(taken) = 2 /\ Head(taken) = Instance
     /\ Enter(taken, NoKeywords, kept, "discard", Nothing)
  \/ /\ taken = <<Instance>>
     /\ Enter(taken, NoKeywords, kept \o taken, "iterate", Nothing)

Invoke ==
  /\ calls # <<>>
  /\ \E n \in 0..Len(this.operands) - 1 :
       LET kept == SubSeq(this.operands, 1, n)
           taken == SubSeq(this.operands, n + 1, Len(this.operands)) IN
       Call(kept, taken) \/ Operator(kept, taken)

----------------------------------------------------------------------------
(* The operands that an activation goes on with when what it called has    *)
(* given it the value v. *)
Resumed(a, v) ==
  CASE a.waits = "push" -> Append(a.operands, v)
    [] a.waits = "discard" -> a.operands
    [] a.waits = "iterate" -> IF v = Nil THEN Front(a.operands) ELSE Append(a.operands, v)

Return ==
  /\ UNCHANGED <<proto, defaults>>
  /\ calls # <<>>
  /\ \E v \in {Nil} \cup Range(this.operands) :
       LET given == IF this.gives # Nothing THEN this.gives ELSE v IN
       /\ v = Nil \/ v = Last(this.operands)
       /\ calls' = IF Callers = <<>> THEN <<>>
                   ELSE Append(Front(Callers), Activation(Resumed(Last(Callers), given), "push", Last(Callers).gives))

Next == Start \/ Fail \/ Work \/ Make \/ Invoke \/ Return

Spec == Init /\ [][Next]_avars
===============================================================================

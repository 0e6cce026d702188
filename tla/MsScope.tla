------------------------------ MODULE MsScope ------------------------------
(***************************************************************************)
(* The compiler's bookkeeping: compiler/ms_scope.c and the emitting helpers *)
(* of ms_compiler.c.  A compiler c holds the functions that are being       *)
(* compiled, the innermost last (MsCompiler.enclosing), whether an error    *)
(* was reported, and the chunks that are finished.  A variable is a pair of *)
(* the name the source spells and the level of the block that declares it:  *)
(* the compiler sees the name only, the level says which variable is meant. *)
(***************************************************************************)
EXTENDS Integers, SequencesExt

CONSTANTS MaxLocals, MaxUpvalues     \* both 256 in the code

ASSUME LimitsAssumption == MaxLocals \in Nat /\ MaxUpvalues \in Nat

Spelled(x) == x[1]
Temp == <<"temporary", 0>>           \* a value that no variable holds
Hidden == <<"", 0>>                  \* the iterator of a for-in loop
NotFound == -1

-----------------------------------------------------------------------------
(* The compiler's state.                                                    *)

msCompilerInit(isFunction, isMethod) ==
  [code |-> <<>>, locals |-> <<>>, scopeDepth |-> 0, upvalues |-> <<>>, loops |-> <<>>,
   isFunction |-> isFunction, isMethod |-> isMethod]

Open(c, isMethod) == [c EXCEPT !.fns = Append(@, msCompilerInit(TRUE, isMethod))]
Cur(c) == Last(c.fns)
Edit(c, f) == [c EXCEPT !.fns[Len(c.fns)] = f]

compilerError(c) == [c EXCEPT !.hadError = TRUE]

-----------------------------------------------------------------------------
(* Instructions.  a is the operand, v the variable that the source means    *)
(* and caps the upvalue descriptors of OP_MAKE_FUNC.  LINE and NAME are no  *)
(* instructions but notes: a statement starts here with a locals; the value *)
(* that was pushed last is now the variable v.                              *)

Instr(op, a, v) == [op |-> op, a |-> a, v |-> v, caps |-> <<>>]
Op(op) == Instr(op, 0, Temp)

EmitAll(c, is) == Edit(c, [Cur(c) EXCEPT !.code = @ \o is])
Emit(c, i) == EmitAll(c, <<i>>)
EmitOp(c, op) == Emit(c, Op(op))

Here(c) == Len(Cur(c).code) + 1      \* where the next instruction goes

Unpatched == 0
emitJump(c, op) == Emit(c, Instr(op, Unpatched, Temp))
patchJumpTo(c, at, target) == Edit(c, [Cur(c) EXCEPT !.code[at].a = target])
patchJump(c, at) == patchJumpTo(c, at, Here(c))
emitBackJump(c, loopStart) == Emit(c, Instr("JUMP", loopStart, Temp))

RECURSIVE PatchAll(_, _, _)
PatchAll(c, patches, target) ==
  IF patches = <<>> THEN c
  ELSE PatchAll(patchJumpTo(c, Head(patches), target), Tail(patches), target)
PatchAllHere(c, patches) == PatchAll(c, patches, Here(c))

-----------------------------------------------------------------------------
(* Scopes.                                                                  *)

msScopeBegin(c) == Edit(c, [Cur(c) EXCEPT !.scopeDepth = @ + 1])

\* what takes a local from the stack
Leave(local) == Op(IF local.captured THEN "CLOSE_UPVALUE" ELSE "POP")

\* the code that takes the locals from index n + 1 on from the stack
Unwind(locals, n) == Reverse([i \in 1..Len(locals) - n |-> Leave(locals[n + i])])

msScopeEnd(c) ==
  LET f == Cur(c)
      kept == CHOOSE n \in 0..Len(f.locals) :
                /\ \A i \in n + 1..Len(f.locals) : f.locals[i].depth = f.scopeDepth
                /\ n > 0 => f.locals[n].depth # f.scopeDepth
  IN Edit(c, [f EXCEPT !.code = @ \o Unwind(f.locals, kept),
                       !.locals = SubSeq(@, 1, kept), !.scopeDepth = @ - 1])

\* Mutant: a name that any enclosing block declares is taken.
CanDeclare_AnyDepth(f, x) ==
  /\ Len(f.locals) < MaxLocals
  /\ \A i \in DOMAIN f.locals : f.locals[i].name # Spelled(x)

\* the two checks of msScopeDeclareLocal: room, and no namesake in this scope
CanDeclare(f, x) ==
  /\ Len(f.locals) < MaxLocals
  /\ \A i \in DOMAIN f.locals :
       f.locals[i].name = Spelled(x) =>
         \E j \in i..Len(f.locals) : f.locals[j].depth # -1 /\ f.locals[j].depth < f.scopeDepth

msScopeDeclareLocal(f, x) ==
  IF CanDeclare(f, x)
  THEN [f EXCEPT !.locals = Append(@, [name |-> Spelled(x), depth |-> -1, captured |-> FALSE])]
  ELSE f

msScopeMarkInitialized(f) == [f EXCEPT !.locals[Len(f.locals)].depth = f.scopeDepth]

\* declare a local, or report that it cannot be declared
Declare(c, x) ==
  IF CanDeclare(Cur(c), x)
  THEN Edit(c, msScopeMarkInitialized(msScopeDeclareLocal(Cur(c), x)))
  ELSE compilerError(c)

DropLocal(c) ==
  Edit(c, [Cur(c) EXCEPT !.locals = IF @ = <<>> THEN @ ELSE Front(@)])

-----------------------------------------------------------------------------
(* Names.  Slots and upvalue indices start at 0.                            *)

Namesakes(f, x) == {i \in DOMAIN f.locals : f.locals[i].name = Spelled(x)}

\* Mutant: the outermost variable of a name is found instead of the innermost.
msScopeResolveLocal_Outermost(f, x) ==
  IF Namesakes(f, x) = {} THEN NotFound ELSE Min(Namesakes(f, x)) - 1

msScopeResolveLocal(f, x) ==
  LET i == Max(Namesakes(f, x))
  IN IF Namesakes(f, x) = {} \/ f.locals[i].depth = -1 THEN NotFound ELSE i - 1

\* [c, idx]: the upvalue of the kth function, and the compiler that has it
msScopeAddUpvalue(c, k, index, isLocal, x) ==
  LET ups == c.fns[k].upvalues
      same == {i \in DOMAIN ups : ups[i].index = index /\ ups[i].isLocal = isLocal}
  IN CASE same # {} -> [c |-> c, idx |-> Min(same) - 1]
       [] same = {} /\ Len(ups) >= MaxUpvalues -> [c |-> c, idx |-> NotFound]
       [] OTHER -> [c |-> [c EXCEPT !.fns[k].upvalues =
                             Append(@, [isLocal |-> isLocal, index |-> index, v |-> x])],
                    idx |-> Len(ups)]

\* the upvalue for a local of the function around, whose slot it is
CaptureLocal(c, k, slot, x) ==
  msScopeAddUpvalue([c EXCEPT !.fns[k - 1].locals[slot + 1].captured = TRUE], k, slot, TRUE, x)

\* the upvalue for an upvalue of the function around
PassOn(up, k, x) ==
  IF up.idx = NotFound THEN up ELSE msScopeAddUpvalue(up.c, k, up.idx, FALSE, x)

RECURSIVE msScopeResolveUpvalue(_, _, _)
msScopeResolveUpvalue(c, k, x) ==
  LET slot == msScopeResolveLocal(c.fns[k - 1], x)
  IN CASE k = 1 -> [c |-> c, idx |-> NotFound]
       [] k > 1 /\ slot # NotFound -> CaptureLocal(c, k, slot, x)
       [] OTHER -> PassOn(msScopeResolveUpvalue(c, k - 1, x), k, x)

\* [c, scope, idx]: where a variable is that is not a local
Outside(up) == IF up.idx # NotFound THEN [c |-> up.c, scope |-> "UPVALUE", idx |-> up.idx]
               ELSE [c |-> up.c, scope |-> "GLOBAL", idx |-> 0]

\* [c, scope, idx]: where the variable is
resolveVar(c, x) ==
  LET slot == msScopeResolveLocal(Cur(c), x)
  IN IF slot # NotFound THEN [c |-> c, scope |-> "LOCAL", idx |-> slot]
     ELSE Outside(msScopeResolveUpvalue(c, Len(c.fns), x))

emitGetVar(c, loc, x) ==
  Emit(c, Instr([LOCAL |-> "GET_LOCAL", UPVALUE |-> "GET_UPVALUE", GLOBAL |-> "GET_GLOBAL"][loc.scope],
                loc.idx, x))

emitSetVar(c, loc, x) ==
  Emit(c, Instr([LOCAL |-> "SET_LOCAL", UPVALUE |-> "SET_UPVALUE", GLOBAL |-> "SET_GLOBAL"][loc.scope],
                loc.idx, x))

=============================================================================

----------------------------- MODULE MsCompiler -----------------------------
(***************************************************************************)
(* The compiler: compiler/ms_compiler.c, one operator per compile function. *)
(* Each takes a compiler and a node of the tree and returns the compiler    *)
(* with the node's code emitted.  A node is a record with its kind; a part  *)
(* that is missing is Absent, a list of nodes a sequence.  Constants,       *)
(* operators and names of attributes and globals are left out: what counts  *)
(* is what an instruction does to the stack, to the variables and to ip.    *)
(***************************************************************************)
EXTENDS MsScope

CONSTANTS
  MaxPatches,      \* MS_MAX_LOOP_PATCHES, 256
  MaxFilters,      \* MS_MAX_TYPE_FILTERS, 16
  MaxCatches,      \* MS_MAX_CATCH_PATCHES, 32
  MaxCount,        \* UINT8_MAX: elements of a literal
  MaxMethods       \* 255

Absent == [kind |-> "ABSENT"]
Globals == 0       \* the level of global variables

\* forward declarations
RECURSIVE compileExpr(_, _), compileExprs(_, _), compileStmt(_, _), compileStmts(_, _)

compileExprs(c, ns) ==
  IF ns = <<>> THEN c ELSE compileExprs(compileExpr(c, Head(ns)), Tail(ns))

\* the expression if there is one, else the instruction
ExprOr(c, n, op) == IF n = Absent THEN EmitOp(c, op) ELSE compileExpr(c, n)

-----------------------------------------------------------------------------
(* Blocks, names and functions.                                             *)

EndBlock(c) == IF c.hadError THEN c ELSE msScopeEnd(c)

\* statements up to the first error
compileStmts(c, ss) ==
  IF c.hadError \/ ss = <<>> THEN c ELSE compileStmts(compileStmt(c, Head(ss)), Tail(ss))

\* a block that an error ends leaves its scope open
compileBlock(c, n) ==
  CASE n = Absent -> c
    [] n # Absent /\ n.kind # "BLOCK" -> compileStmt(c, n)
    [] OTHER -> EndBlock(compileStmts(msScopeBegin(c), n.stmts))

compileIdent(c, n) ==
  LET loc == resolveVar(c, n.v) IN emitGetVar(loc.c, loc, n.v)

\* the value on the stack becomes a local or a global
bindDeclName(c, x) ==
  LET d == IF Cur(c).isFunction THEN Declare(c, x) ELSE c
      loc == IF Cur(c).isFunction
             THEN [scope |-> "LOCAL", idx |-> Len(Cur(d).locals) - 1]
             ELSE [scope |-> "GLOBAL", idx |-> 0]
  IN IF d.hadError THEN d ELSE EmitOp(emitSetVar(d, loc, x), "POP")

\* a note that a statement starts, with as many locals as there are
Line(c) == Emit(c, Instr("LINE", Len(Cur(c).locals), Temp))

\* close the function: its chunk is finished
Finish(c, params, upvalues) ==
  LET d == EmitOp(Line(c), "RETURN_NIL")
      chunk == [code |-> Cur(d).code, params |-> params, upvalues |-> upvalues]
  IN [d EXCEPT !.fns = Front(@), !.chunks = Append(@, chunk)]

Params(n) == [i \in DOMAIN n.params |-> n.params[i].v]

Abandon(c) == [c EXCEPT !.fns = Front(@)]

\* the body of a method, whose parameters are declared in f
ProtoBody(f, n) ==
  IF f.hadError THEN Abandon(f) ELSE Finish(compileBlock(f, n.body), Params(n), <<>>)

\* a method: no default values, and no instruction that makes a closure of it
compileFuncProto(c, n) ==
  LET Param(d, p) == IF p.plain THEN Declare(d, p.v) ELSE compilerError(d)
  IN ProtoBody(FoldLeft(Param, Open(c, TRUE), n.params), n)

Defaults(n) ==
  SelectSeq([i \in DOMAIN n.params |-> n.params[i].default], LAMBDA e : e # Absent)

\* the default values, and a closure with what the body has captured
Closure(c, n, caps) ==
  Emit(compileExprs(Finish(c, Params(n), caps), Defaults(n)),
       [Instr("MAKE_FUNC", Len(Defaults(n)), Temp) EXCEPT !.caps = caps])

FuncBody(f, n) ==
  LET body == compileBlock(f, n.body)
  IN IF f.hadError THEN Abandon(f) ELSE Closure(body, n, Cur(body).upvalues)

compileFuncToConst(c, n) ==
  FuncBody(FoldLeft(LAMBDA d, p : Declare(d, p.v), Open(c, FALSE), n.params), n)

\* what is on the stack gets its name, if it has one
Bind(c, n) == IF n.name = Absent THEN c ELSE bindDeclName(c, n.name.v)

compileFuncDecl(c, n) == Bind(compileFuncToConst(c, n), n)

MakeClass(c, n) ==
  IF c.hadError THEN c
  ELSE Bind(Emit(c, Instr("MAKE_CLASS", IF n.base = Absent THEN 0 ELSE 1, Temp)), n)

compileClassDecl(c, n) ==
  LET Member(d, m) ==
        CASE d.hadError -> d
          [] ~d.hadError /\ m.kind # "FUNC_DECL" -> compilerError(d)
          [] OTHER -> compileFuncProto(d, m)
      based == IF n.base = Absent THEN c ELSE compileExpr(c, n.base)
  IN MakeClass(IF Len(n.body) > MaxMethods THEN compilerError(based)
               ELSE FoldLeft(Member, based, n.body), n)

-----------------------------------------------------------------------------
(* Expressions.                                                             *)

compileStringOrBytes(c, n) ==
  EmitOp(IF n.valid THEN c ELSE compilerError(c), "CONST")

\* ~, - and not; a + leaves no instruction
compileUnary(c, n) ==
  LET d == compileExpr(c, n.operand)
  IN IF n.op = "PLUS" THEN d ELSE EmitOp(d, "UNARY")

compileBinary(c, n) ==
  LET l == compileExpr(c, n.left)
      jump == IF n.op = "AND" THEN "AND_JMP" ELSE "OR_JMP"
  IN IF n.op \in {"AND", "OR"}
     THEN patchJump(compileExpr(emitJump(l, jump), n.right), Here(l))
     ELSE EmitOp(compileExpr(l, n.right), "BINARY")

Build(c, n, op, count) ==
  IF count > MaxCount THEN compilerError(c) ELSE Emit(c, Instr(op, count, Temp))

compileContainerElems(c, n) == Build(compileExprs(c, n.elems), n, "BUILD", Len(n.elems))

compileList(c, n) ==
  LET Elem(d, e) == IF e.kind = "STAR_EXPR" THEN compilerError(d) ELSE compileExpr(d, e)
  IN Build(FoldLeft(Elem, c, n.elems), n, "BUILD", Len(n.elems))

compileMap(c, n) ==
  LET Pair(d, p) == IF p.kind = "DOUBLESTAR_EXPR" THEN compilerError(d)
                    ELSE compileExpr(compileExpr(d, p.left), p.right)
  IN Build(FoldLeft(Pair, c, n.pairs), n, "BUILD_MAP", Len(n.pairs))

compileSliceExpr(c, n) ==
  LET parts == SelectSeq(<<n.lo, n.hi, n.step>>, LAMBDA e : e # Absent)
  IN EmitAll(compileExprs(compileExpr(c, n.obj), parts),
             <<Instr("BUILD", Len(parts), Temp), Op("BINARY")>>)

compileFString(c, n) ==
  LET Part(d, p) == IF p.kind = "STRING" THEN compileExpr(d, p)
                    ELSE EmitOp(compileExpr(d, p), "TO_STR")
  IN Emit(FoldLeft(Part, c, n.parts), Instr("BUILD_STR", Len(n.parts), Temp))

isSingleDoublestarKwargs(n) == Len(n.kwargs) = 1 /\ n.kwargs[1].kind = "DOUBLESTAR_EXPR"

compileCallKw(c, n) ==
  LET d == compileExprs(c, n.args)
      Pair(e, kw) == compileExpr(EmitOp(e, "CONST"), kw.value)
      kwargs == IF isSingleDoublestarKwargs(n) THEN compileExpr(d, n.kwargs[1].expr)
                ELSE Emit(FoldLeft(Pair, d, n.kwargs), Instr("BUILD_MAP", Len(n.kwargs), Temp))
  IN Emit(kwargs, Instr("CALL_KW", Len(n.args), Temp))

\* arguments with a *sequence; plain ones are collected in lists
compileCallEx(c, n) ==
  LET Collect(s) == IF s.plain = 0 THEN s.c ELSE Emit(s.c, Instr("BUILD", s.plain, Temp))
      Arg(s, a) == IF a.kind = "STAR_EXPR" THEN [c |-> compileExpr(Collect(s), a.expr), plain |-> 0]
                   ELSE [c |-> compileExpr(s.c, a), plain |-> s.plain + 1]
  IN IF n.kwargs # <<>> THEN compilerError(c)
     ELSE EmitOp(Collect(FoldLeft(Arg, [c |-> c, plain |-> 0], n.args)), "CALL_EX")

compileCall(c, n) ==
  LET callee == compileExpr(c, n.callee)
      hasStar == \E i \in DOMAIN n.args : n.args[i].kind = "STAR_EXPR"
      hasDoublestar == \E i \in DOMAIN n.kwargs : n.kwargs[i].kind = "DOUBLESTAR_EXPR"
  IN CASE n.callee.kind = "SUPER" /\ (~Cur(c).isMethod \/ n.args # <<>> \/ n.kwargs # <<>>) ->
            compilerError(c)
       [] n.callee.kind = "SUPER" -> EmitOp(c, "LOAD_SUPER")
       [] hasStar \/ (hasDoublestar /\ ~isSingleDoublestarKwargs(n)) -> compileCallEx(callee, n)
       [] n.kwargs # <<>> -> compileCallKw(callee, n)
       [] OTHER -> Emit(compileExprs(callee, n.args), Instr("CALL", Len(n.args), Temp))

compileExpr(c, n) ==
  CASE n.kind = "CONST" -> EmitOp(c, "CONST")
    [] n.kind = "STRING" -> compileStringOrBytes(c, n)
    [] n.kind = "IDENT" -> compileIdent(c, n)
    [] n.kind = "UNARY" -> compileUnary(c, n)
    [] n.kind = "BINARY" -> compileBinary(c, n)
    [] n.kind = "FSTRING" -> compileFString(c, n)
    [] n.kind = "LIST" -> compileList(c, n)
    [] n.kind = "MAP" -> compileMap(c, n)
    [] n.kind \in {"SET", "TUPLE"} -> compileContainerElems(c, n)
    [] n.kind = "INDEX" -> EmitOp(compileExpr(compileExpr(c, n.obj), n.key), "BINARY")
    [] n.kind = "SLICE" -> compileSliceExpr(c, n)
    [] n.kind = "ATTR" -> EmitOp(compileExpr(c, n.obj), "UNARY")
    [] n.kind = "FUNC_DECL" -> compileFuncDecl(c, n)
    [] n.kind = "CALL" -> compileCall(c, n)
    [] n.kind = "AWAIT" -> EmitOp(compileExpr(c, n.expr), "AWAIT")
    [] OTHER -> compilerError(c)

-----------------------------------------------------------------------------
(* Simple statements.                                                       *)

\* the value on the stack is the variable x
BindTop(c, x) == Emit(Declare(c, x), Instr("NAME", 0, x))

compileVarDecl(c, n) ==
  LET d == ExprOr(c, n.init, "CONST")
  IN IF Cur(c).isFunction THEN BindTop(d, n.v)
     ELSE EmitAll(d, <<Instr("SET_GLOBAL", 0, n.v), Op("POP")>>)

AssignTo(c, t) ==
  LET loc == resolveVar(c, t.v)
  IN CASE t.kind = "IDENT" -> emitSetVar(loc.c, loc, t.v)
       [] t.kind = "ATTR" -> EmitOp(compileExpr(c, t.obj), "BINARY")
       [] t.kind = "INDEX" -> EmitOp(compileExpr(compileExpr(c, t.obj), t.key), "SET_ITEM")
       [] OTHER -> compilerError(c)

compileAssign(c, n) == EmitOp(AssignTo(compileExpr(c, n.value), n.target), "POP")

\* read the variable x at loc, combine it with e, write it
Update(loc, x, e) ==
  emitSetVar(EmitOp(compileExpr(emitGetVar(loc.c, loc, x), e), "BINARY"), loc, x)

\* x op= e, for a name only
compileCompoundAssign(c, n) ==
  IF n.left.kind # "IDENT" THEN compilerError(c)
  ELSE EmitOp(Update(resolveVar(c, n.left.v), n.left.v, n.right), "POP")

compileDel(c, n) ==
  LET t == n.expr
      loc == resolveVar(c, t.v)
  IN CASE t.kind = "IDENT" -> IF loc.scope = "GLOBAL" THEN EmitOp(loc.c, "DEL_GLOBAL")
                              ELSE compilerError(loc.c)
       [] t.kind = "ATTR" -> EmitOp(compileExpr(c, t.obj), "DEL_ATTR")
       [] t.kind = "INDEX" -> EmitOp(compileExpr(compileExpr(c, t.obj), t.key), "DEL_ITEM")
       [] OTHER -> compilerError(c)

compileReturn(c, n) ==
  IF ~Cur(c).isFunction THEN compilerError(c)
  ELSE EmitOp(ExprOr(c, n.expr, "CONST"), "RETURN")

compileRaise(c, n) ==
  IF n.expr = Absent THEN EmitOp(c, "RERAISE") ELSE EmitOp(compileExpr(c, n.expr), "RAISE")

compileAssert(c, n) ==
  LET d == compileExpr(c, n.expr)
      j == emitJump(d, "JUMP_IF_TRUE")
      m == IF n.expr2 = Absent THEN j ELSE compileExpr(j, n.expr2)
  IN patchJump(EmitOp(m, "RAISE_ASSERT"), Here(d))

compileGo(c, n) ==
  Emit(compileExprs(compileExpr(c, n.call.callee), n.call.args),
       Instr("GO", Len(n.call.args), Temp))

compileSend(c, n) == EmitOp(compileExpr(compileExpr(c, n.chan), n.val), "CHAN_SEND")

\* also in a function the module becomes a global
compileImport(c, n) ==
  EmitAll(c, <<Op("IMPORT"), Instr("SET_GLOBAL", 0, n.v), Op("POP")>>)

-----------------------------------------------------------------------------
(* Loops.  A loop knows the jumps of its breaks and continues, which are    *)
(* patched when their targets are known, and the locals when it starts.     *)

NewLoop(c) == [breaks |-> <<>>, continues |-> <<>>, base |-> Len(Cur(c).locals)]
Loop(c) == Last(Cur(c).loops)
EnterLoop(c) == Edit(c, [Cur(c) EXCEPT !.loops = Append(@, NewLoop(c))])
LeaveLoop(c) == Edit(c, [Cur(c) EXCEPT !.loops = Front(@)])
EditLoop(c, l) == Edit(c, [Cur(c) EXCEPT !.loops[Len(Cur(c).loops)] = l])

compileBind(c, target) ==
  IF target.kind = "IDENT" THEN BindTop(c, target.v)
  ELSE compilerError(c)

\* the iterator is a local without a name; whether it fits is not asked
DeclareHidden(c) ==
  Emit(Edit(c, msScopeMarkInitialized(msScopeDeclareLocal(Cur(c), Hidden))),
       Instr("NAME", 0, Hidden))

\* continue leads to the instruction that pops the iteration variable
EndForIn(body, loopStart) ==
  LET next == PatchAll(DropLocal(EmitOp(body, "POP")), Loop(body).continues, Here(body))
  IN msScopeEnd(DropLocal(patchJump(emitBackJump(next, loopStart), loopStart)))

ForInBody(c, n) ==
  EndForIn(compileBlock(compileBind(emitJump(c, "FOR_ITER"), n.target), n.body), Here(c))

compileForIn(c, n) ==
  ForInBody(DeclareHidden(EmitOp(compileExpr(msScopeBegin(c), n.iter), "GET_ITER")), n)

\* the loop goes back to its start, and so does continue
Back(body, start) == emitBackJump(PatchAll(body, Loop(body).continues, start), start)

WhileBody(cond, n, start) ==
  patchJump(Back(compileBlock(emitJump(cond, "JUMP_IF_FALSE"), n.body), start), Here(cond))

compileWhile(c, n) == WhileBody(compileExpr(c, n.cond), n, Here(c))

compileInfiniteLoop(c, n) == Back(compileBlock(c, n.body), Here(c))

EndFor(c) == LeaveLoop(PatchAllHere(c, Loop(c).breaks))

compileFor(c, n) ==
  EndFor(CASE n.target # Absent -> compileForIn(EnterLoop(c), n)
           [] n.target = Absent /\ n.cond # Absent -> compileWhile(EnterLoop(c), n)
           [] OTHER -> compileInfiniteLoop(EnterLoop(c), n))

\* Mutant: the locals of the loop stay on the stack.
compileBreak_NoUnwind(c) ==
  IF Cur(c).loops = <<>> \/ Len(Loop(c).breaks) >= MaxPatches THEN compilerError(c)
  ELSE emitJump(EditLoop(c, [Loop(c) EXCEPT !.breaks = Append(@, Here(c))]), "JUMP")

\* Mutant: a break pops captured locals like any other.
compileBreak_Pops(c) ==
  IF Cur(c).loops = <<>> \/ Len(Loop(c).breaks) >= MaxPatches THEN compilerError(c)
  ELSE LET d == EmitAll(c, [i \in 1..Len(Cur(c).locals) - Loop(c).base |-> Op("POP")])
       IN emitJump(EditLoop(d, [Loop(d) EXCEPT !.breaks = Append(@, Here(d))]), "JUMP")

\* the locals of the loop go first, as at the end of their scopes
compileBreak(c) ==
  IF Cur(c).loops = <<>> \/ Len(Loop(c).breaks) >= MaxPatches THEN compilerError(c)
  ELSE LET d == EmitAll(c, Unwind(Cur(c).locals, Loop(c).base))
       IN emitJump(EditLoop(d, [Loop(d) EXCEPT !.breaks = Append(@, Here(d))]), "JUMP")

\* no local goes
compileContinue(c) ==
  IF Cur(c).loops = <<>> \/ Len(Loop(c).continues) >= MaxPatches THEN compilerError(c)
  ELSE emitJump(EditLoop(c, [Loop(c) EXCEPT !.continues = Append(@, Here(c))]), "JUMP")

-----------------------------------------------------------------------------
(* Other compound statements.                                               *)

\* A jump from the end of d to a place not known yet: s holds the compiler
\* and such jumps so far.
AddJump(s, d, op) == [c |-> emitJump(d, op), jumps |-> Append(s.jumps, Here(d))]

\* the same, but when there are too many there is none
JumpOut(s, op) == IF Len(s.jumps) < MaxPatches THEN AddJump(s, s.c, op) ELSE s

compileSwitch(c, n) ==
  LET hasExpr == n.expr # Absent
      PopExpr(d) == IF hasExpr THEN EmitOp(d, "POP") ELSE d
      Value(s, v) ==
        JumpOut([s EXCEPT !.c = IF hasExpr THEN EmitOp(compileExpr(EmitOp(@, "DUP"), v), "BINARY")
                                ELSE compileExpr(@, v)],
                "JUMP_IF_TRUE")
      Body(s, match, k) ==
        LET matched == PopExpr(PatchAllHere(emitJump(match.c, "JUMP"), match.jumps))
        IN [JumpOut([s EXCEPT !.c = compileBlock(matched, k.body)], "JUMP")
              EXCEPT !.c = patchJump(@, Here(match.c))]
      Case(s, k) == Body(s, FoldLeft(Value, [c |-> s.c, jumps |-> <<>>], k.values), k)
      defaults == SelectSeq(n.cases, LAMBDA k : k.values = <<>>)
      Default(d) == IF defaults = <<>> THEN d ELSE compileBlock(d, Last(defaults).body)
      End(s) == PatchAllHere(Default(PopExpr(s.c)), s.jumps)
  IN End(FoldLeft(Case, [c |-> IF hasExpr THEN compileExpr(c, n.expr) ELSE c, jumps |-> <<>>],
                  SelectSeq(n.cases, LAMBDA k : k.values # <<>>)))

Else(then, n, skip) ==
  IF n.elseBlock = Absent THEN patchJump(then, skip)
  ELSE patchJump(compileStmt(patchJump(emitJump(then, "JUMP"), skip), n.elseBlock), Here(then))

Then(cond, n) ==
  Else(compileBlock(emitJump(cond, "JUMP_IF_FALSE"), n.thenBlock), n, Here(cond))

compileIf(c, n) == Then(compileExpr(c, n.cond), n)

\* behind the body: over the handler, which is where skip leads
EndWith(exit, skip) ==
  patchJump(EmitOp(patchJump(emitJump(exit, "JUMP"), skip), "WITH_EXIT"), Here(exit))

WithBody(c, n) ==
  IF c.hadError THEN c
  ELSE EndWith(EmitAll(msScopeEnd(compileBlock(emitJump(c, "PUSH_EXCEPT"), n.body)),
                       <<Op("POP_EXCEPT"), Op("WITH_EXIT")>>), Here(c))

compileWith(c, n) ==
  LET enter == msScopeBegin(EmitOp(compileExpr(c, n.expr), "WITH_ENTER"))
  IN WithBody(IF n.asName = Absent THEN EmitOp(enter, "POP") ELSE BindTop(enter, n.asName.v), n)

compileSelectCaseComm(c, comm) ==
  CASE comm = Absent -> c
    [] comm.kind = "SEND" ->
         EmitOp(compileExpr(compileExpr(c, comm.chan), comm.val), "SELECT_CASE_SEND")
    [] comm.kind = "RECV" -> EmitOp(compileExpr(c, comm.chan), "SELECT_CASE_RECV")
    [] comm.kind = "SHORT_DECL" /\ comm.init.kind = "RECV" ->
         EmitOp(compileExpr(c, comm.init.chan), "SELECT_CASE_RECV")
    [] OTHER -> compilerError(c)

\* The value a case receives is declared as a local, and nothing in this
\* code pushes it: that is left to an OP_SELECT_END that does not exist yet.
compileSelect(c, n) ==
  LET Comm(d, k) == compileSelectCaseComm(d, k.comm)
      Body(s, d, k) ==
        IF d.hadError THEN [s EXCEPT !.c = d]
        ELSE JumpOut([s EXCEPT !.c = msScopeEnd(compileBlock(d, k.body))], "JUMP")
      Case(s, k) ==
        Body(s, IF k.comm.kind = "SHORT_DECL" THEN Declare(msScopeBegin(s.c), k.comm.v)
                ELSE msScopeBegin(s.c), k)
      End(s) == PatchAllHere(s.c, s.jumps)
      comms == FoldLeft(Comm, Emit(c, Instr("SELECT_BEGIN", Len(n.cases), Temp)), n.cases)
  IN End(FoldLeft(Case, [c |-> EmitOp(comms, "SELECT_END"), jumps |-> <<>>], n.cases))

\* Mutant: a handler that does not match goes on to none.
ToNextHandler_Lost(c, next) == c

\* the jumps of a handler that does not match lead here, to the next one
ToNextHandler(c, next) == PatchAllHere(c, next)

Finally(c, n) == IF n.finallyBlock = Absent THEN c ELSE compileBlock(c, n.finallyBlock)

Test(c, t) == EmitOp(compileExpr(EmitOp(c, "LOAD_EXCEPTION"), t), "ISINSTANCE")

\* the last test jumps to the next handler; those before it jump behind it
LastTest(s, last) ==
  [c |-> PatchAllHere(emitJump(last, "JUMP_IF_FALSE"), s.jumps), jumps |-> <<Here(last)>>]

Tests(c, types) ==
  LET none == [c |-> c, jumps |-> <<>>]
      Some(s) == LastTest(s, Test(s.c, Last(types)))
  IN IF types = <<>> THEN none
     ELSE Some(FoldLeft(LAMBDA s, t : AddJump(s, Test(s.c, t), "JUMP_IF_TRUE"), none, Front(types)))

\* what jumps behind the try statement goes to s, what jumps to the next handler to next
HandlerBody(s, d, next, h, n) ==
  LET End(e) == [AddJump(s, e, "JUMP") EXCEPT !.c = ToNextHandler(@, next)]
  IN IF \/ d.hadError
        \/ Len(h.typeFilter) > MaxFilters + 1
        \/ Len(s.jumps) >= MaxCatches
     THEN [s EXCEPT !.c = compilerError(@)]
     ELSE End(Finally(EmitOp(msScopeEnd(compileBlock(EmitOp(d, "CLEAR_EXCEPTION"), h.body)),
                             "POP_EXCEPT"), n))

Catch(s, h, n) ==
  LET Named(c) == IF h.asName = Absent THEN c
                  ELSE BindTop(EmitOp(c, "LOAD_EXCEPTION"), h.asName.v)
      Body(tests) == HandlerBody(s, Named(msScopeBegin(tests.c)), tests.jumps, h, n)
  IN IF s.c.hadError THEN s ELSE Body(Tests(s.c, h.typeFilter))

EndTry(s, n) == PatchAllHere(EmitOp(Finally(s.c, n), "RERAISE"), s.jumps)

Handlers(tried, n, start) ==
  patchJump(EndTry(FoldLeft(LAMBDA s, h : Catch(s, h, n),
                            [c |-> patchJump(emitJump(tried, "JUMP"), start), jumps |-> <<>>],
                            n.handlers), n),
            Here(tried))

compileTry(c, n) ==
  Handlers(Finally(EmitOp(compileBlock(emitJump(c, "PUSH_EXCEPT"), n.body), "POP_EXCEPT"), n),
           n, Here(c))

-----------------------------------------------------------------------------
(* Statements and programs.                                                 *)

compileStmt(c0, n) ==
  LET c == Line(c0)
  IN CASE n.kind = "EXPR_STMT" -> EmitOp(compileExpr(c, n.expr), "POP")
       [] n.kind \in {"VAR_DECL", "SHORT_DECL"} -> compileVarDecl(c, n)
       [] n.kind = "ASSIGN" -> compileAssign(c, n)
       [] n.kind = "COMPOUND_ASSIGN" -> compileCompoundAssign(c, n)
       [] n.kind = "DEL" -> compileDel(c, n)
       [] n.kind = "IF" -> compileIf(c, n)
       [] n.kind = "FOR" -> compileFor(c, n)
       [] n.kind = "SWITCH" -> compileSwitch(c, n)
       [] n.kind = "BREAK" -> compileBreak(c)
       [] n.kind = "CONTINUE" -> compileContinue(c)
       [] n.kind = "BLOCK" -> compileBlock(c, n)
       [] n.kind = "PASS" -> c
       [] n.kind = "FUNC_DECL" -> compileFuncDecl(c, n)
       [] n.kind = "CLASS_DECL" -> compileClassDecl(c, n)
       [] n.kind = "RETURN" -> compileReturn(c, n)
       [] n.kind = "TRY" -> compileTry(c, n)
       [] n.kind = "RAISE" -> compileRaise(c, n)
       [] n.kind = "ASSERT" -> compileAssert(c, n)
       [] n.kind = "WITH" -> compileWith(c, n)
       [] n.kind = "GO" -> compileGo(c, n)
       [] n.kind = "SELECT" -> compileSelect(c, n)
       [] n.kind = "SEND" -> compileSend(c, n)
       [] n.kind = "IMPORT" -> compileImport(c, n)
       [] OTHER -> compilerError(c)

\* [hadError, chunks]; the module's own chunk is the last
msCompile(stmts) ==
  LET c == [fns |-> <<msCompilerInit(FALSE, FALSE)>>, hadError |-> FALSE, chunks |-> <<>>]
      End(d) == IF d.hadError THEN d ELSE Finish(d, <<>>, <<>>)
  IN End(compileStmts(c, stmts))

=============================================================================

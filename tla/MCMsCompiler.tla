---------------------------- MODULE MCMsCompiler ----------------------------
(* MsEval over programs that are built form by form.  Nest is how deep the   *)
(* compound statements of a function nest.  With AnyContinue a loop may be    *)
(* continued where its body has locals, which goes wrong.  With Divergences   *)
(* there are also programs that the documents and the compiler judge          *)
(* differently, which makes RejectsTheIllegal fail.                           *)
EXTENDS MsEval

CONSTANTS Nest, AnyContinue, Divergences

None == Absent
Const == [kind |-> "CONST"]
Id(v) == [kind |-> "IDENT", v |-> v]
Block(ss) == [kind |-> "BLOCK", stmts |-> ss]
Giving(e) == [kind |-> "RETURN", expr |-> e]
Decl(v, e) == [kind |-> "SHORT_DECL", v |-> v, init |-> e]
Assign(t, e) == [kind |-> "ASSIGN", target |-> t, value |-> e]
Param(v) == [v |-> v, default |-> None, plain |-> TRUE]
Func(name, params, ss) ==
  [kind |-> "FUNC_DECL", name |-> name, params |-> params, body |-> Block(ss)]
Call(args) == [kind |-> "CALL", callee |-> Id(<<"g", Globals>>), args |-> args, kwargs |-> <<>>]
Do(e) == [kind |-> "EXPR_STMT", expr |-> e]

Node(kind) == [kind |-> kind]

g == <<"g", Globals>>
Use(v) == Do(Call(<<Id(v)>>))
\* a closure over v that is kept after the block that declares v
Keep(v) == Assign(Id(g), Func(None, <<>>, <<Giving(Id(v))>>))

-----------------------------------------------------------------------------
(* Function bodies.  E: the variables in sight, those of them that closures  *)
(* may capture, and whether break and continue may stand here.               *)

Sees(E, v, capturable) ==
  [E EXCEPT !.sees = {u \in @ : u[1] # v[1]} \cup {v},
            !.keeps = {u \in @ : u[1] # v[1]} \cup (IF capturable THEN {v} ELSE {}),
            !.continues = @ /\ AnyContinue]

Simple(E) ==
  {Use(v) : v \in E.sees} \cup {Keep(v) : v \in E.keeps} \cup {Assign(Id(v), Const) : v \in E.sees}
  \cup (IF E.breaks THEN {Node("BREAK")} ELSE {})
  \cup (IF E.continues THEN {Node("CONTINUE")} ELSE {})

InLoop(E) == [E EXCEPT !.breaks = TRUE, !.continues = TRUE]

If(then, else) == [kind |-> "IF", cond |-> Const, thenBlock |-> then, elseBlock |-> else]
For(target, iter, cond, body) ==
  [kind |-> "FOR", target |-> target, iter |-> iter, cond |-> cond, body |-> body]
Switch(expr, cases) == [kind |-> "SWITCH", expr |-> expr, cases |-> cases]
Case(values, ss) == [values |-> values, body |-> Block(ss)]

\* A loop is left after a variable has been captured, or before it is: the
\* compiler then finds it captured only after the code of the break.
CaptureAndLeave(x, E, D) ==
  {<<Keep(v), Node("BREAK")>> : v \in E.keeps}
  \cup {<<Decl(x, Const), Keep(v), Node("BREAK")>> : v \in D.keeps}
  \cup {<<Decl(x, Const), If(Block(<<Node("BREAK")>>), None), Keep(v)>> : v \in D.keeps}

RECURSIVE Blocks(_, _, _)

\* compound statements in a block of level l
Compound(d, l, E) ==
  LET B == {Block(b) : b \in Blocks(d - 1, l + 1, E)}
      L == {Block(b) : b \in Blocks(d - 1, l + 1, InLoop(E))}
      v == <<"y", l + 1>>
      F == {Block(b) : b \in Blocks(d - 1, l + 2, [Sees(E, v, FALSE) EXCEPT !.breaks = TRUE,
                                                                           !.continues = TRUE])}
      u == Use(CHOOSE w \in E.sees : TRUE)
  IN {If(b, None) : b \in B} \cup {If(Block(<<u>>), b) : b \in B}
     \cup {For(None, None, Const, b) : b \in L} \cup {For(None, None, None, b) : b \in L}
     \cup {For(Id(v), Const, None, b) : b \in F}
     \cup {Switch(Const, <<Case(<<>>, <<u>>), [values |-> <<Const, Const>>, body |-> b]>>) : b \in B}
     \cup {Switch(None, <<[values |-> <<Const>>, body |-> b], Case(<<Const>>, <<u>>)>>) : b \in B}

\* the statements of a block of level l
Blocks(d, l, E) ==
  LET x == <<"x", l>>
      D == Sees(E, x, TRUE)
  IN IF d = 0 THEN {<<s>> : s \in Simple(E)} \cup {<<Decl(x, Const), s>> : s \in Simple(D)}
                   \cup (IF E.breaks THEN CaptureAndLeave(x, E, D) ELSE {})
     ELSE {<<s>> : s \in Compound(d, l, E)}
          \cup {<<Decl(x, Const), s, Use(x)>> : s \in Compound(d, l, D)}

InFunction(b) == <<Func(Id(<<"f", Globals>>), <<Param(<<"x", 1>>)>>, b)>>

Nested ==
  {InFunction(b) : b \in Blocks(Nest, 2, [sees |-> {<<"x", 1>>}, keeps |-> {<<"x", 1>>},
                                         breaks |-> FALSE, continues |-> FALSE])}

-----------------------------------------------------------------------------
(* The other forms, each in the places where it may stand.                   *)

x1 == Id(<<"x", 1>>)
Lit(kind, es) == [kind |-> kind, elems |-> es]
Pair(l, r) == [kind |-> "BINARY", op |-> "PLUS", left |-> l, right |-> r]
Logic(op) == [kind |-> "BINARY", op |-> op, left |-> x1, right |-> Pair(x1, Const)]
Map(ps) == [kind |-> "MAP", pairs |-> ps]
Slice(lo, hi, step) == [kind |-> "SLICE", obj |-> x1, lo |-> lo, hi |-> hi, step |-> step]
Attr == [kind |-> "ATTR", obj |-> x1]
Index == [kind |-> "INDEX", obj |-> x1, key |-> Const]
Star == [kind |-> "STAR_EXPR", expr |-> x1]
DoubleStar == [kind |-> "DOUBLESTAR_EXPR", expr |-> x1]
Keyword == [kind |-> "KWARG_PAIR", value |-> x1]
CallOf(args, kwargs) == [Call(args) EXCEPT !.kwargs = kwargs]
Super(args) == [Call(args) EXCEPT !.callee = Node("SUPER")]
Default(v, e) == [Param(v) EXCEPT !.default = e, !.plain = FALSE]
y2 == <<"y", 3>>
\* a function in a function that counts in x, and passes it on
Counter ==
  Func(None, <<Default(y2, Pair(x1, x1))>>,
       <<[kind |-> "COMPOUND_ASSIGN", left |-> x1, right |-> Id(y2)],
         Giving(Func(None, <<>>, <<Assign(x1, Id(y2)), Giving(Pair(Id(y2), x1))>>))>>)

Expressions ==
  {[kind |-> "STRING", valid |-> TRUE], [kind |-> "UNARY", op |-> "PLUS", operand |-> x1],
   [kind |-> "UNARY", op |-> "NOT", operand |-> x1], Pair(Pair(x1, Const), x1),
   Lit("LIST", <<x1, Const, Pair(x1, x1)>>), Lit("SET", <<x1>>), Lit("TUPLE", <<x1, Const>>),
   Map(<<Pair(x1, Const), Pair(x1, x1)>>), Index, Attr,
   Slice(None, None, None), Slice(x1, None, Const), Slice(x1, Const, x1),
   Call(<<>>), Call(<<x1, Call(<<Const>>)>>), CallOf(<<x1>>, <<Keyword, Keyword>>),
   CallOf(<<x1>>, <<DoubleStar>>), Call(<<Star>>), Counter,
   [kind |-> "FSTRING", parts |-> <<[kind |-> "STRING", valid |-> TRUE], x1>>]}

Handler(filters, name, ss) == [typeFilter |-> filters, asName |-> name, body |-> Block(ss)]
Try(handlers, finally) ==
  [kind |-> "TRY", body |-> Block(<<Use(<<"x", 1>>)>>), handlers |-> handlers, finallyBlock |-> finally]
SelectCase(comm) == [comm |-> comm, body |-> Block(<<Use(<<"x", 1>>)>>)]
Send == [kind |-> "SEND", chan |-> x1, val |-> Const]
Recv == [kind |-> "RECV", chan |-> x1]
e3 == Id(<<"e", 3>>)

Statements ==
  {Assign(Attr, x1), Assign(Index, Const), [kind |-> "COMPOUND_ASSIGN", left |-> x1, right |-> Const],
   [kind |-> "DEL", expr |-> Attr], [kind |-> "DEL", expr |-> Index], [kind |-> "DEL", expr |-> Id(g)],
   [kind |-> "RAISE", expr |-> None], [kind |-> "RAISE", expr |-> x1],
   [kind |-> "ASSERT", expr |-> x1, expr2 |-> None], [kind |-> "ASSERT", expr |-> x1, expr2 |-> Const],
   [kind |-> "GO", call |-> Call(<<x1, x1>>)], Send, Node("PASS"),
   [kind |-> "WITH", expr |-> x1, asName |-> None, body |-> Block(<<>>)],
   [kind |-> "WITH", expr |-> x1, asName |-> e3, body |-> Block(<<Do(e3)>>)],
   [kind |-> "SELECT", cases |-> <<SelectCase(Send), SelectCase(Recv), SelectCase(None),
                                  SelectCase(Decl(<<"e", 3>>, Recv))>>],
   Try(<<>>, Block(<<Use(<<"x", 1>>)>>)), Try(<<Handler(<<>>, e3, <<>>)>>, None),
   Try(<<Handler(<<Id(g), x1>>, e3, <<Do(e3)>>), Handler(<<x1>>, e3, <<Node("PASS")>>)>>,
       Block(<<Node("PASS")>>)),
   Giving(None), Giving(Logic("AND")), Giving(Logic("OR"))}

Class(base, members) ==
  [kind |-> "CLASS_DECL", name |-> Id(g), base |-> base, body |-> members]
Method(ss) == Func(Id(<<"m", Globals>>), <<Param(<<"x", 1>>)>>, ss)

\* s in a loop between the use of variables, and a way out
Around(s) ==
  InFunction(<<Decl(<<"z", 2>>, Const),
               For(Id(<<"y", 3>>), Const, None,
                   Block(<<Decl(<<"w", 4>>, x1), s, Use(<<"y", 3>>), If(Block(<<Node("BREAK")>>), None)>>)),
               Use(<<"z", 2>>)>>)

Legal ==
  Nested
  \cup {InFunction(<<Decl(<<"z", 2>>, e), Use(<<"z", 2>>), Giving(e)>>) : e \in Expressions}
  \cup {InFunction(<<s, Use(<<"x", 1>>)>>) : s \in Statements}
  \cup {<<Decl(g, None), For(Id(<<"y", 1>>), Id(g), None, Block(<<Use(<<"y", 1>>), Assign(Id(g), Const)>>))>>,
        <<Class(None, <<Method(<<Giving(Super(<<>>))>>), Method(<<>>)>>)>>,
        <<Class(Id(g), <<>>), Func(Id(g), <<>>, <<>>), Use(g)>>,
        <<[kind |-> "IMPORT", v |-> g], Use(g)>>}

(* What the documents call legal and illegal: the grammar and the rules of   *)
(* docs/language/syntax.md, type-system.md and errors.md.                      *)

InBody(ss) == {InFunction(<<s>>) : s \in ss}

\* not in the grammar, or where break, continue, return, fallthrough, super()
\* and a second parameter of the same name may not stand
Illegal ==
  InBody(
    {Node("BREAK"), Node("CONTINUE"), Node("FALLTHROUGH"), Do(Super(<<>>)),
     Do([kind |-> "STRING", valid |-> FALSE]), Do(Lit("LIST", <<Star>>)), Do(Map(<<DoubleStar>>)),
     Assign(Lit("TUPLE", <<x1, x1>>), Const), Assign(Const, Const), [kind |-> "DEL", expr |-> Const],
     For(None, None, None, Block(<<Do(Func(None, <<>>, <<Node("BREAK")>>))>>)),
     Do(Func(None, <<Param(<<"y", 3>>), Param(<<"y", 3>>)>>, <<>>)),
     [kind |-> "SELECT", cases |-> <<SelectCase(x1)>>],
     [kind |-> "SELECT", cases |-> <<SelectCase(Decl(<<"e", 3>>, x1))>>]})
  \cup {<<Giving(None)>>, <<Class(None, <<Method(<<Do(Super(<<x1>>))>>)>>)>>}

\* one more than an implementation limit of the compiler
TooLarge ==
  InBody(
    {Do(Lit("SET", [i \in 1..MaxCount + 1 |-> x1])),
     For(None, None, None, Block([i \in 1..MaxPatches + 1 |-> Node("BREAK")])),
     Block([i \in 1..MaxLocals |-> Decl(<<ToString(i), 3>>, None)]),
     Try(<<Handler([i \in 1..MaxFilters + 2 |-> x1], e3, <<>>)>>, None),
     Try([i \in 1..MaxCatches + 1 |-> Handler(<<>>, e3, <<>>)], None)})
  \cup {<<Class(None, [i \in 1..MaxMethods + 1 |-> Method(<<>>)])>>}

\* legal in the documents, and rejected by the compiler: a.b += c and a.b++
\* (syntax.md:176-178, 218), del of a local (193), conditional expression (241),
\* receive (252, 286), keyword or ** after a spread (257), make (285), a second
\* := of a name (302), fallthrough (195), two loop variables (185, 315),
\* defaults of a method (142-145), attributes of a class (type-system.md:404)
Divergent ==
  InBody(
    {[kind |-> "COMPOUND_ASSIGN", left |-> Attr, right |-> x1], Do(Node("INC_DEC")),
     [kind |-> "DEL", expr |-> x1], Do(Func(None, <<>>, <<[kind |-> "DEL", expr |-> x1]>>)),
     Do(Node("IF_EXPR")), Do(Recv), Do(CallOf(<<Star>>, <<Keyword>>)),
     Do(CallOf(<<>>, <<Keyword, DoubleStar>>)), Do(Node("MAKE")),
     For(Id(<<"y", 3>>), Const, None, Block(<<Decl(<<"z", 4>>, None), Decl(<<"z", 4>>, None)>>)),
     Switch(Const, <<Case(<<Const>>, <<Node("FALLTHROUGH")>>), Case(<<Const>>, <<>>)>>),
     For(Lit("TUPLE", <<x1, x1>>), Const, None, Block(<<>>))})
  \cup {<<Class(None, <<Func(Id(g), <<Default(<<"x", 1>>, Const)>>, <<>>)>>)>>,
        <<Class(None, <<Decl(g, None)>>)>>}

\* accepted, and not in the grammar: import is a form of the module only
Accepted == InBody({[kind |-> "IMPORT", v |-> g]})

MCPrograms ==
  {[stmts |-> ss, legal |-> TRUE] :
     ss \in Legal \cup {Around(s) : s \in Statements} \cup (IF Divergences THEN Divergent ELSE {})}
  \cup {[stmts |-> ss, legal |-> FALSE] :
     ss \in Illegal \cup TooLarge \cup (IF Divergences THEN Accepted ELSE {})}
=============================================================================

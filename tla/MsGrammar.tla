------------------------------ MODULE MsGrammar ------------------------------
(***************************************************************************)
(* The parse functions of parser/ms_parser.c and ms_parse_expr.c as        *)
(* programs over the parser's helpers: a program is a sequence of           *)
(* instructions, and MsParser runs them.  What a function does with its     *)
(* tokens is all here; of the node it returns only its kind is, as far as   *)
(* another function looks at it.  A token is its kind, written as in the    *)
(* source; "IDENT", "NEWLINE", "ERROR", "EOF" and the literals are the      *)
(* kinds without a spelling.                                                *)
(***************************************************************************)
EXTENDS Sequences, Naturals

Null == "Null"         \* what a parse function returns: no node,
Ident == "Ident"       \* a name,
Some == "Some"         \* or any other node

Ends == {"NEWLINE", ";"}
Literals == {"INT", "FLOAT", "STRING", "BYTES", "true", "false", "nil"}
CompoundAssign == {"+=", "-=", "*=", "/=", "%=", "&=", "|=", "^=", "<<=", ">>="}

-----------------------------------------------------------------------------
(* Instructions.                                                            *)

Expect(t) == <<"Expect", t>>
Match(T, A, B) == <<"Match", T, A, B>>       \* consume one of T and do A, else do B
Check(T, A, B) == <<"Check", T, A, B>>       \* the same, and nothing is consumed
Peek(t, T, A, B) == <<"Peek", t, T, A, B>>   \* is it t, with one of T behind it?
Until(T, A) == <<"Until", T, A>>             \* while none of T is next, do A
Dispatch(f, B) == <<"Dispatch", f, B>>       \* Match for each kind f has a program for
Is(k, A, B) == <<"Is", k, A, B>>             \* what was returned last is a k
Uses == <<"Uses">>                           \* ... and a field of it is read
Make(k) == <<"Make", k>>                     \* return a k
Advance == <<"Advance">>
Error == <<"Error">>
Recover == <<"Recover">>                     \* see MsParser
Stmt == <<"Stmt">>
Params(f) == <<"Params", f>>
Prec(n) == <<"Prec", n>>                     \* parsePrecedence(n)
Climb(n) == <<"Climb", n>>                   \* its loop
Do(name) == <<"Do", name>>                   \* call a function by its name

Opt(T, A) == Match(T, A, <<>>)
Unless(T, A) == Check(T, <<>>, A)
When(c, A) == IF c THEN A ELSE <<>>
Lines == Do("Lines")                         \* line ends, as many as there are

-----------------------------------------------------------------------------
(* Expressions.                                                             *)

PREC_IF_EXPR == 1
PREC_OR == 2
PREC_NOT == 4
PREC_COMPARE == 5
PREC_UNARY == 12
PREC_POWER == 13
PREC_CALL == 14

\* the binding power of an operator between operands; 0 for other tokens
PrecOf(t) ==
  CASE t = "if" -> PREC_IF_EXPR
    [] t = "or" -> PREC_OR
    [] t = "and" -> 3
    [] t \in {"not", "==", "!=", "<", ">", "<=", ">=", "is", "in"} -> PREC_COMPARE
    [] t = "|" -> 6
    [] t = "^" -> 7
    [] t = "&" -> 8
    [] t \in {"<<", ">>"} -> 9
    [] t \in {"+", "-"} -> 10
    [] t \in {"*", "/", "%"} -> 11
    [] t = "**" -> PREC_POWER
    [] t \in {".", "[", "(", "++", "--"} -> PREC_CALL
    [] OTHER -> 0

Expr == Prec(PREC_IF_EXPR)

\* the statements of a block, behind its opening brace
msParseBlock == <<Lines, Until({"}", "EOF"}, <<Stmt, Lines>>), Expect("}"), Make(Some)>>

Body == <<Expect("{"), Do("Block")>>
Exprs == <<Expr, Opt({","}, <<Do("Exprs")>>)>>
Names == <<Expect("IDENT"), Opt({","}, <<Do("Names")>>)>>

\* up to the closing bracket, with or without a comma at the end
Items(close, item, name) ==
  <<Check({close, "EOF"}, <<>>, item \o <<Opt({","}, <<Do(name)>>)>>)>>

parseUnary(op) == <<Prec(IF op = "not" THEN PREC_NOT ELSE PREC_POWER), Make(Some)>>
parseListLit == <<Do("List"), Expect("]"), Make(Some)>>
Pairs == <<Opt({","}, <<Unless({"}"}, <<Expr, Uses, Expect(":"), Expr, Do("Pairs")>>)>>)>>
Members == <<Opt({","}, <<Unless({"}"}, <<Expr, Do("Members")>>)>>)>>
parseMapOrSetLit ==
  <<Match({"}"}, <<>>,
      <<Expr, Match({":"}, <<Uses, Expr, Do("Pairs")>>, <<Do("Members")>>), Expect("}")>>),
    Make(Some)>>
parseGroupOrTuple ==
  <<Match({")"}, <<Make(Some)>>,
      <<Expr, Match({","}, <<Do("Tuple"), Expect(")"), Make(Some)>>, <<Expect(")")>>)>>)>>

\* one parameter, after others: a keyword collector kw, a rest va, a default df, any
Param(f) ==
  LET rest(g) == <<Opt({","}, <<Params([g EXCEPT !.any = TRUE])>>)>>
      late == When(f.kw, <<Error>>) \o When(f.va, <<Error>>)
  IN <<Match({"**"}, When(f.kw, <<Error>>) \o <<Expect("IDENT")>> \o rest([f EXCEPT !.kw = TRUE]),
       <<Match({"..."}, late \o When(~f.any, <<Error>>) \o <<Expect("IDENT")>>
                          \o rest([f EXCEPT !.va = TRUE]),
               late \o <<Expect("IDENT"),
                         Match({"="}, <<Expr>> \o rest([f EXCEPT !.df = TRUE]),
                               When(f.df, <<Error>>) \o rest(f))>>)>>)>>

msParseParamList == Params([kw |-> FALSE, va |-> FALSE, df |-> FALSE, any |-> FALSE])
parseFuncLit == <<Expect("("), msParseParamList, Expect(")")>> \o Body \o <<Make(Some)>>
parseAsyncFuncLit == <<Expect("func")>> \o parseFuncLit
parseMake ==
  <<Expect("("), Expect("chan"), Opt({","}, <<Expr>>), Expect(")"), Make(Some)>>
parseRecv == <<Prec(PREC_UNARY), Make(Some)>>

\* what can start an expression, and how it goes on
HasPrefix(t) ==
  t \in Literals \cup {"IDENT", "-", "+", "~", "not", "[", "(", "{", "func", "async", "make", "<-"}

Prefix(t) ==
  CASE t \in Literals -> <<Make(Some)>>
    [] t = "IDENT" -> <<Make(Ident)>>
    [] t \in {"-", "+", "~", "not"} -> parseUnary(t)
    [] t = "[" -> parseListLit
    [] t = "(" -> parseGroupOrTuple
    [] t = "{" -> parseMapOrSetLit
    [] t = "func" -> parseFuncLit
    [] t = "async" -> parseAsyncFuncLit
    [] t = "make" -> parseMake
    [] t = "<-" -> parseRecv

parseBinary(op) == <<Prec(IF op = "**" THEN PREC_POWER ELSE PrecOf(op) + 1), Make(Some)>>
parseIsIn(op) ==
  (CASE op = "is" -> <<Opt({"not"}, <<>>)>>
     [] op = "not" -> <<Expect("in")>>
     [] op = "in" -> <<>>) \o <<Prec(PREC_COMPARE + 1), Make(Some)>>
parseIfExpr == <<Expr, Expect("else"), Expr, Make(Some)>>
parseAttr == <<Expect("IDENT"), Make(Some)>>

\* Mutant: a slice need not be closed.
Slice_Open ==
  <<Unless({":", "]"}, <<Expr>>), Opt({":"}, <<Unless({"]"}, <<Expr>>)>>), Opt({"]"}, <<>>), Make(Some)>>

Slice ==
  <<Unless({":", "]"}, <<Expr>>), Opt({":"}, <<Unless({"]"}, <<Expr>>)>>), Expect("]"), Make(Some)>>

parseIndex ==
  <<Make(Null), Unless({":", "]"}, <<Expr>>),
    Match({":"}, Slice, <<Is(Null, <<Error, Make(Null)>>, <<Expect("]"), Make(Some)>>)>>)>>

Argument ==
  <<Match({"*", "**"}, <<Expr>>,
      <<Peek("IDENT", {"="}, <<Advance, Advance, Expr>>, <<Expr>>)>>)>>
parseCall == <<Do("Arguments"), Expect(")"), Make(Some)>>

Infix(t) ==
  CASE t = "." -> parseAttr
    [] t = "[" -> parseIndex
    [] t = "(" -> parseCall
    [] t \in {"++", "--"} -> <<Make(Some)>>
    [] t = "if" -> parseIfExpr
    [] t \in {"is", "in", "not"} -> parseIsIn(t)
    [] OTHER -> parseBinary(t)

-----------------------------------------------------------------------------
(* Statements.                                                              *)

finishStmt == <<Opt({"NEWLINE"}, <<>>), Opt({";"}, <<>>), Recover>>
Simple(A) == A \o <<Make(Some)>> \o finishStmt

parseVarDecl == <<Expect("IDENT"), Opt({"="}, <<Expr>>)>>

parseIfStmt ==
  <<Prec(PREC_OR)>> \o Body
    \o <<Opt({"else"}, <<Match({"if"}, <<Do("If")>>, Body)>>), Make(Some)>>

ForIn == <<Advance, Opt({","}, <<Do("Names")>>), Expect("in"), Expr>> \o Body
ForThree == <<Unless({";"}, <<Expr>>), Expect(";"), Unless({"{"}, <<Expr>>)>> \o Body
ForExpr == <<Expr, Is(Ident, <<Opt({":="}, <<Expr>>)>>, <<>>), Match({";"}, ForThree, Body)>>

\* Mutant: a name with a comma behind it is taken for a condition.
parseForStmt_OneName ==
  <<Check({"{"}, Body, <<Peek("IDENT", {"in"}, ForIn, ForExpr)>>), Make(Some)>>

parseForStmt ==
  <<Check({"{"}, Body, <<Peek("IDENT", {"in", ","}, ForIn, ForExpr)>>), Make(Some)>>

\* the statements of a case, and the next one
Cases(name) ==
  <<Lines, Until({"case", "default", "}", "EOF"}, <<Stmt, Lines>>),
    Unless({"}", "EOF"}, <<Do(name)>>)>>

Case ==
  <<Match({"case"}, Exprs \o <<Expect(":")>> \o Cases("Case"),
      <<Match({"default"}, <<Expect(":")>> \o Cases("Case"), <<Error>>)>>)>>
parseSwitchStmt ==
  <<Unless({"{"}, <<Expr>>), Expect("{"), Lines, Unless({"}", "EOF"}, <<Do("Case")>>),
    Expect("}"), Make(Some)>>

Catch ==
  <<Expect("("), Expect("IDENT"), Opt({":"}, Exprs), Expect(")")>> \o Body
    \o <<Lines, Match({"catch"}, <<Do("Catch")>>, <<Opt({"finally"}, Body)>>)>>
parseTryStmt ==
  Body \o <<Lines, Match({"catch"}, Catch, <<Match({"finally"}, Body, <<Error>>)>>), Make(Some)>>

parseRaiseStmt == <<Unless(Ends \cup {"EOF"}, <<Expr>>)>>
parseGoStmt == <<Expr>>

Comm ==
  <<Check({"<-"}, <<Advance, Expr>>,
      <<Expr, Match({":="}, <<Uses, Expr>>, <<Match({"<-"}, <<Expr>>, <<Error>>)>>)>>)>>
SelectCase ==
  <<Match({"default"}, <<Expect(":")>> \o Cases("SelectCase"),
      <<Match({"case"}, Comm \o <<Expect(":")>> \o Cases("SelectCase"), <<Error>>)>>)>>
parseSelectStmt ==
  <<Expect("{"), Lines, Unless({"}", "EOF"}, <<Do("SelectCase")>>), Expect("}"), Make(Some)>>

parseWithStmt == <<Expr, Opt({"as"}, <<Expect("IDENT")>>)>> \o Body \o <<Make(Some)>>
parseDottedName == <<Expect("IDENT"), Opt({"."}, <<Do("Dotted")>>)>>
parseImportStmt == parseDottedName \o <<Opt({"as"}, <<Expect("IDENT")>>)>>
parseFuncDecl == <<Expect("IDENT")>> \o parseFuncLit
parseClassDecl ==
  <<Expect("IDENT"), Opt({"extends"}, <<Expect("IDENT")>>), Expect("{"), Lines,
    Until({"}", "EOF"}, <<Stmt, Lines>>), Expect("}"), Make(Some)>>

Keywords ==
  [var |-> Simple(parseVarDecl), if |-> parseIfStmt, for |-> parseForStmt,
   switch |-> parseSwitchStmt, fallthrough |-> Simple(<<>>),
   return |-> Simple(<<Unless(Ends \cup {"EOF"}, <<Expr>>)>>),
   break |-> Simple(<<>>), continue |-> Simple(<<>>), pass |-> Simple(<<>>),
   del |-> Simple(<<Expr>>), assert |-> Simple(<<Expr, Opt({","}, <<Expr>>)>>),
   try |-> parseTryStmt, raise |-> Simple(parseRaiseStmt), go |-> Simple(parseGoStmt),
   select |-> parseSelectStmt, with |-> parseWithStmt, import |-> Simple(parseImportStmt),
   class |-> parseClassDecl]

\* an expression, a declaration or an assignment
ExprStmt ==
  LET nothing == finishStmt \o <<Make(Null)>>
  IN <<Expr,
       Is(Null, nothing,
          <<Check({":="}, <<Is(Ident, <<Advance, Expr>> \o Simple(<<>>), <<Error>> \o nothing)>>,
                  <<Opt({"="} \cup CompoundAssign, <<Expr>>)>> \o Simple(<<>>))>>)>>

AsyncStmt ==
  <<Advance, Peek("func", {"IDENT"}, <<Expect("func")>> \o parseFuncDecl,
                  parseAsyncFuncLit \o finishStmt)>>

msParseStmt ==
  <<Dispatch(Keywords,
      <<Peek("func", {"IDENT"}, <<Advance>> \o parseFuncDecl,
             <<Peek("async", {"func"}, AsyncStmt, ExprStmt)>>)>>)>>

msParseProgram == <<Until({"EOF"}, <<Match(Ends, <<>>, <<Stmt>>)>>)>>

Function ==
  [Lines |-> <<Opt(Ends, <<Lines>>)>>, Block |-> msParseBlock, Exprs |-> Exprs, Names |-> Names,
   List |-> Items("]", <<Expr>>, "List"), Tuple |-> Items(")", <<Expr>>, "Tuple"),
   Arguments |-> Items(")", Argument, "Arguments"), Pairs |-> Pairs, Members |-> Members,
   If |-> parseIfStmt, Case |-> Case, Catch |-> Catch, SelectCase |-> SelectCase,
   Dotted |-> parseDottedName]
=============================================================================

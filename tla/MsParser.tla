------------------------------ MODULE MsParser ------------------------------
(***************************************************************************)
(* The parser: parser/ms_parser.c runs the parse functions of MsGrammar     *)
(* over a source, one helper call per step.  The C stack is the sequence    *)
(* todo of what is left to do.  A source is a record: toks, its tokens;     *)
(* bad, the index of the token in which it differs from a correct program,  *)
(* or 0; and starts, the indices at which statements of that program start. *)
(***************************************************************************)
EXTENDS MsGrammar, SequencesExt

CONSTANT Sources

VARIABLES
  src,           \* the source that is parsed
  pos,           \* index of the current token, cur
  todo,          \* what the functions that are running have left to do
  node,          \* what a parse function returned last
  hadError, panicMode,
  errs,          \* where errors were reported, in order
  linked,        \* where the statements start that are in the tree
  crashed        \* a field of a null node was read

vars == <<src, pos, todo, node, hadError, panicMode, errs, linked, crashed>>

\* The lexer repeats the last token: EOF, or ERROR in an f-string that does not end.
Index(i) == IF i < Len(src.toks) THEN i ELSE Len(src.toks)
Tok(i) == src.toks[Index(i)]
cur == Tok(pos)

-----------------------------------------------------------------------------
(* Helpers.                                                                 *)

\* msParserError at the token with index i
Report(i) ==
  IF panicMode THEN UNCHANGED <<hadError, panicMode, errs>>
  ELSE hadError' = TRUE /\ panicMode' = TRUE /\ errs' = Append(errs, i)

Quiet == UNCHANGED <<hadError, panicMode, errs>>

\* msParserAdvance; at the last token nothing moves on
Consume ==
  /\ pos' = Index(pos + 1)
  /\ IF Tok(pos + 1) = "ERROR" THEN Report(Index(pos + 1)) ELSE Quiet

Continue(code) == todo' = code \o Tail(todo)
Rest == <<src, linked, crashed>>

Init ==
  /\ src \in Sources
  /\ pos = 1
  /\ todo = msParseProgram
  /\ node = Null
  /\ hadError = FALSE /\ panicMode = FALSE
  /\ errs = <<>>
  /\ linked = {}
  /\ crashed = FALSE

-----------------------------------------------------------------------------
(* One action per helper.                                                   *)

At(name) == todo # <<>> /\ Head(todo)[1] = name
Arg(i) == Head(todo)[i]

msParserMatch ==
  /\ At("Match")
  /\ IF cur \in Arg(2) THEN Consume /\ Continue(Arg(3))
     ELSE Continue(Arg(4)) /\ Quiet /\ UNCHANGED pos
  /\ UNCHANGED <<Rest, node>>

msParserExpect ==
  /\ At("Expect")
  /\ IF cur = Arg(2) THEN Consume ELSE Report(pos) /\ UNCHANGED pos
  /\ Continue(<<>>)
  /\ UNCHANGED <<Rest, node>>

msParserAdvance ==
  /\ At("Advance")
  /\ Consume
  /\ Continue(<<>>)
  /\ UNCHANGED <<Rest, node>>

\* the conditions of if and while
Choose ==
  /\ \/ At("Check") /\ Continue(IF cur \in Arg(2) THEN Arg(3) ELSE Arg(4))
     \/ /\ At("Peek")
        /\ Continue(IF cur = Arg(2) /\ Tok(pos + 1) \in Arg(3) THEN Arg(4) ELSE Arg(5))
     \/ At("Is") /\ Continue(IF node = Arg(2) THEN Arg(3) ELSE Arg(4))
     \/ At("Until") /\ Continue(IF cur \in Arg(2) THEN <<>> ELSE Append(Arg(3), Head(todo)))
     \/ At("Do") /\ Continue(Function[Arg(2)])
     \/ /\ At("Params")
        /\ Continue(IF cur \in {")", "EOF"} THEN <<>> ELSE Param(Arg(2)))
  /\ UNCHANGED <<Rest, pos, node, hadError, panicMode, errs>>

ReturnNode ==
  /\ At("Make")
  /\ node' = Arg(2)
  /\ Continue(<<>>)
  /\ UNCHANGED <<Rest, pos, hadError, panicMode, errs>>

msParserError ==
  /\ At("Error")
  /\ Report(pos)
  /\ Continue(<<>>)
  /\ UNCHANGED <<Rest, pos, node>>

ReadField ==
  /\ At("Uses")
  /\ crashed' = (node = Null)
  /\ IF node = Null THEN todo' = <<>> ELSE Continue(<<>>)
  /\ UNCHANGED <<src, linked, pos, node, hadError, panicMode, errs>>

-----------------------------------------------------------------------------
(* Expressions.                                                             *)

\* parsePrecedence: take a token, and what starts with it
parsePrecedence ==
  /\ At("Prec")
  /\ IF HasPrefix(cur)
     THEN /\ Consume
          /\ Continue(Prefix(cur) \o <<Climb(Arg(2))>>)
          /\ UNCHANGED node
     ELSE /\ pos' = Index(pos + 1) /\ Report(Index(pos + 1))
          /\ Continue(<<>>)
          /\ node' = Null
  /\ UNCHANGED Rest

\* its loop: operators that bind as tightly as asked for
ClimbOperators ==
  /\ At("Climb")
  /\ IF panicMode \/ PrecOf(cur) < Arg(2)
     THEN Continue(<<>>) /\ Quiet /\ UNCHANGED pos
     ELSE Consume /\ Continue(Infix(cur) \o <<Head(todo)>>)
  /\ UNCHANGED <<Rest, node>>

-----------------------------------------------------------------------------
(* Statements and recovery.                                                 *)

\* a statement, and the caller's step of linking it
Statement ==
  /\ At("Stmt")
  /\ Continue(msParseStmt \o << <<"Link", pos>> >>)
  /\ UNCHANGED <<Rest, pos, node, hadError, panicMode, errs>>

Chosen(table) == IF cur \in DOMAIN table THEN table[cur] ELSE Arg(3)

ChooseStatement ==
  /\ At("Dispatch")
  /\ IF cur \in DOMAIN Arg(2) THEN Consume ELSE Quiet /\ UNCHANGED pos
  /\ Continue(Chosen(Arg(2)))
  /\ UNCHANGED <<Rest, node>>

msNodeListAppend ==
  /\ At("Link")
  /\ linked' = IF node = Null THEN linked ELSE linked \cup {Arg(2)}
  /\ Continue(<<>>)
  /\ UNCHANGED <<src, crashed, pos, node, hadError, panicMode, errs>>

\* Mutant: skip without asking for an error.
SyncNow_Always(yes) == << <<"Sync">> >>

\* the end of finishStmt: after any error, skip to where a statement may start
SyncNow(yes) == IF yes THEN << <<"Sync">> >> ELSE <<>>

FinishStmt ==
  /\ At("Recover")
  /\ panicMode' = (panicMode /\ ~hadError)
  /\ Continue(SyncNow(hadError))
  /\ UNCHANGED <<Rest, pos, node, hadError, errs>>

SyncKinds == {"func", "class", "for", "if", "return", "var"}

\* Mutant: skipping goes on at the end of the source.
SyncStop_PastEnd(t) == IF t \in Ends THEN "behind" ELSE IF t \in SyncKinds THEN "here" ELSE "no"

\* where msParserSyncError stops, and whether behind the token or before it
SyncStop(t) == IF t \in Ends THEN "behind" ELSE IF t \in SyncKinds \cup {"EOF"} THEN "here" ELSE "no"

msParserSyncError ==
  /\ At("Sync")
  /\ CASE SyncStop(cur) = "here" -> Continue(<<>>) /\ Quiet /\ UNCHANGED pos
       [] SyncStop(cur) = "behind" -> Consume /\ Continue(<<>>)
       [] SyncStop(cur) = "no" -> Consume /\ UNCHANGED todo
  /\ UNCHANGED <<Rest, node>>

Next ==
  \/ msParserMatch \/ msParserExpect \/ msParserAdvance \/ Choose \/ ReturnNode \/ msParserError
  \/ ReadField \/ parsePrecedence \/ ClimbOperators \/ Statement \/ ChooseStatement \/ msNodeListAppend
  \/ FinishStmt \/ msParserSyncError

Spec == Init /\ [][Next]_vars
\* the parser is C code that has been entered: it goes on while it has something to do
FairSpec == Spec /\ WF_vars(Next)

-----------------------------------------------------------------------------
(* Properties.                                                              *)

Done == todo = <<>> /\ ~crashed

\* Panic only after an error, errors where there are tokens, each reported once.
TypeOK ==
  /\ pos \in 1..Len(src.toks)
  /\ panicMode => hadError
  /\ hadError <=> errs # <<>>
  /\ \A i \in 1..Len(errs) : errs[i] \in 1..Len(src.toks)
  /\ linked \subseteq 1..Len(src.toks)

\* A correct program has no error, and in any other one no error is reported
\* before the token that makes it wrong: no function of the parser, and no choice by
\* lookahead, turns away what could still become a program.
ErrorNotEarly == \A i \in 1..Len(errs) : src.bad # 0 /\ errs[i] >= src.bad

Opening == [t \in {")", "]", "}"} |-> CASE t = ")" -> "(" [] t = "]" -> "[" [] t = "}" -> "{"]

\* the brackets that are open behind the tokens s; <<"?">> if one was closed wrongly
OpenBrackets(s) ==
  FoldLeft(LAMBDA open, t :
             CASE t \in {"(", "[", "{"} -> Append(open, t)
               [] t \in DOMAIN Opening ->
                    IF open # <<>> /\ Last(open) = Opening[t] THEN Front(open) ELSE <<"?">>
               [] OTHER -> open,
           <<>>, s)

\* What the parser accepts has each bracket closed by its counterpart: none is
\* taken for another one, skipped, or left open at the end of the source.
AcceptsBalanced == Done /\ ~hadError => OpenBrackets(src.toks) = <<>>

\* The errors reported and the panic they cause go together, and what is accepted
\* is balanced.
Inv == TypeOK /\ AcceptsBalanced

\* The statements of a correct program are all in the tree, and those in front of
\* an error stay in it, also when the error is inside a nested statement.
StatementsKept == Done => src.starts \subseteq linked

\* A source that ends in EOF, correct or not, is parsed to its end, if no null node
\* is read on the way: every loop of a parse function, and recovery, takes a token
\* or stops.  Behind an f-string that does not end there is no EOF, and recovery
\* waits for it for ever.
ParsingEnds == Last(src.toks) = "EOF" /\ []~crashed => <>Done
=============================================================================

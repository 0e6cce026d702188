------------------------------ MODULE MsScanner ------------------------------
(***************************************************************************)
(* The scanner of src/lexer/ms_lexer.c as if it had no lookahead: lexScan, *)
(* and msLexerNext when no token has been peeked.  MsLexer adds the        *)
(* lookahead and implements this.                                          *)
(*                                                                         *)
(* A character stands for a class of bytes: "word" is part of a name,     *)
(* number or keyword after which a line may end a statement, "operator"    *)
(* any operator or keyword after which it may not, "blank" a blank or a    *)
(* comment, "open" and "close" a brace.  A token is its kind.              *)
(***************************************************************************)
EXTENDS Integers, Sequences

CONSTANT Sources   \* the sources to be scanned

Chars == {"word", "operator", "blank", "newline", "open", "close", "dollar", "quote",
          "backslash"}
Kinds == {"IDENT", "STRING", "OPERATOR", "LBRACE", "RBRACE", "NEWLINE", "EOF", "ERROR",
          "FSTRING_START", "EXPR_START", "EXPR_END", "FSTRING_PART", "FSTRING_END"}

ASSUME ScannerAssumption == Sources \subseteq Seq(Chars)

VARIABLES
  src,        \* the source
  lexer,      \* struct MsLexer:
              \*   pos: the number of characters consumed
              \*   prevKind: the kind that decides whether a line ends a statement
              \*   fstrState, fstrDepth: where in an f-string
              \*   rescanned (auxiliary): a line end was passed in its expression
  out         \* the tokens returned, an ERROR right after another one left out

scanVars == <<src, lexer, out>>

(* Values of fstrDepth for a token that is due without reading anything. *)
EndPending == -1
StartPending == -2

----------------------------------------------------------------------------
Char(p) == IF p < Len(src) THEN src[p + 1] ELSE "end"

(* The first position from p on whose character is not in C. *)
Skip(p, C) == CHOOSE q \in p..Len(src) :
                (\A r \in p..q - 1 : Char(r) \in C) /\ Char(q) \notin C

(* asiShouldInsert *)
EndsStatement(kind) == kind \in {"IDENT", "STRING", "FSTRING_END", "RBRACE"}

(* Two characters that the text of a literal takes together. *)
Escaped(p) == Char(p) = "backslash" /\ Char(p + 1) \notin {"newline", "end"}

Doubled(p) == Char(p) \in {"open", "close"} /\ Char(p + 1) = Char(p)

(***************************************************************************)
(* Where the text of a literal ends that goes on at p: at a quote, a line  *)
(* end or the end of the source; for an f-string also at a brace.  A       *)
(* backslash that escapes nothing is the last of it.  Pairs has the        *)
(* positions of characters that are taken together with the next one.      *)
(***************************************************************************)
TextEnd(p, Stops, Pairs) ==
  LET end[q \in 0..Len(src) + 1] ==
        IF q \in Pairs THEN end[q + 2]
        ELSE IF Char(q) = "backslash" THEN q + 1
        ELSE IF Char(q) \in Stops THEN q
        ELSE end[q + 1]
  IN end[p]

StringEnd(p) == TextEnd(p, {"quote", "newline", "end"}, {q \in 0..Len(src) : Escaped(q)})

FragmentEnd(p) == TextEnd(p, {"quote", "newline", "end", "open", "close"},
                          {q \in 0..Len(src) : Escaped(q) \/ Doubled(q)})

----------------------------------------------------------------------------
(* The token that lexScan returns when the lexer is s, and where it leaves *)
(* the lexer. *)
Token(kind, p, state, depth) == [kind |-> kind, pos |-> p, fstrState |-> state, fstrDepth |-> depth]

Plain(s, kind, p) == Token(kind, p, s.fstrState, s.fstrDepth)

(* The tokens of an f-string that read nothing. *)
EndIsDue(s) == s.fstrState = "NONE" /\ s.fstrDepth = EndPending
StartIsDue(s) == s.fstrState = "INNER" /\ s.fstrDepth = StartPending

(* lexScanFStringOuter: the fragment that begins at p, to be returned as frag. *)
Fragment(p, frag) ==
  LET e == FragmentEnd(p) IN
  CASE Char(e) = "open"  -> Token(frag, e + 1, "INNER", StartPending)
    [] Char(e) = "quote" -> Token(frag, e + 1, "NONE", EndPending)
    [] OTHER             -> Token("ERROR", e, "OUTER", 0)

(* Mutant: an unterminated string is not passed over. *)
String_Stays(s, p) ==
  LET e == StringEnd(p) IN
  IF Char(e) = "quote" THEN Plain(s, "STRING", e + 1) ELSE Plain(s, "ERROR", p - 1)

(* lexScanString, behind the opening quote *)
String(s, p) ==
  LET e == StringEnd(p) IN
  IF Char(e) = "quote" THEN Plain(s, "STRING", e + 1) ELSE Plain(s, "ERROR", e)

(* The tokens of one character. *)
Single(c) == CASE c = "newline" -> "NEWLINE" [] c = "open" -> "LBRACE" [] c = "close" -> "RBRACE"
               [] c = "operator" -> "OPERATOR" [] OTHER -> "ERROR"

FStringAt(p) == Char(p) = "dollar" /\ Char(p + 1) = "quote"

(* The token at q, which is neither a blank nor a line end to be passed over. *)
TokenAt(s, q) ==
  CASE Char(q) = "end"   -> Plain(s, "EOF", q)
    [] Char(q) = "word"  -> Plain(s, "IDENT", Skip(q, {"word"}))
    [] Char(q) = "quote" -> String(s, q + 1)
    [] FStringAt(q)      -> Fragment(q + 2, "FSTRING_START")
    [] OTHER             -> Plain(s, Single(Char(q)), q + 1)

(* Mutant: no line end is passed over. *)
Blanks_NoLines(prev) == {"blank"}

(* What the loop of lexScan passes over: line ends too, if they end nothing. *)
Blanks(prev) == IF EndsStatement(prev) THEN {"blank"} ELSE {"blank", "newline"}

Normal(s, p) == TokenAt(s, Skip(p, Blanks(s.prevKind)))

(* Mutant: the inner brace that closes a map ends the expression. *)
Closed_Any(depth) == TRUE

Closed(depth) == depth = 0

(* Inside the expression of an f-string, at p. *)
Inner(s, p) ==
  CASE Char(p) = "end"   -> Plain(s, "ERROR", p)
    [] FStringAt(p)      -> Plain(s, "ERROR", p + 1)
    [] Char(p) = "open"  -> Token("LBRACE", p + 1, "INNER", s.fstrDepth + 1)
    [] Char(p) = "close" -> IF Closed(s.fstrDepth - 1) THEN Token("EXPR_END", p + 1, "OUTER", s.fstrDepth - 1)
                                                       ELSE Token("RBRACE", p + 1, "INNER", s.fstrDepth - 1)
    [] OTHER             -> Normal(s, p)

lexScan(s) ==
  CASE EndIsDue(s)             -> Token("FSTRING_END", s.pos, "NONE", 0)
    [] StartIsDue(s)           -> Token("EXPR_START", s.pos, "INNER", 1)
    [] s.fstrState = "OUTER"   -> Fragment(s.pos, "FSTRING_PART")
    [] s.fstrState = "INNER" /\ ~StartIsDue(s) -> Inner(s, Skip(s.pos, {"blank"}))
    [] s.fstrState = "NONE" /\ ~EndIsDue(s)    -> Normal(s, s.pos)

Rescans(s) ==
  /\ s.fstrState = "INNER" /\ ~StartIsDue(s)
  /\ Char(Skip(s.pos, {"blank"})) = "newline" /\ lexScan(s).kind # "NEWLINE"

(* The lexer behind that token. *)
Behind(s, prev) ==
  LET t == lexScan(s) IN
  [pos |-> t.pos, prevKind |-> prev, fstrState |-> t.fstrState, fstrDepth |-> t.fstrDepth,
   rescanned |-> s.rescanned \/ Rescans(s)]

----------------------------------------------------------------------------
Latest == IF out = <<>> THEN "none" ELSE out[Len(out)]
Deliver(t) == out' = IF t = "ERROR" /\ Latest = "ERROR" THEN out ELSE Append(out, t)

ScanInit ==
  /\ src \in Sources
  /\ lexer = [pos |-> 0, prevKind |-> "EOF", fstrState |-> "NONE", fstrDepth |-> 0, rescanned |-> FALSE]
  /\ out = <<>>

(* msLexerNext, until the end of the source. *)
ScanNext ==
  LET t == lexScan(lexer).kind IN
  /\ Latest # "EOF"
  /\ lexer' = Behind(lexer, t) /\ Deliver(t)
  /\ UNCHANGED src

ScanSpec == ScanInit /\ [][ScanNext]_scanVars
===============================================================================

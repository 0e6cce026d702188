------------------------------- MODULE MsLexer -------------------------------
(***************************************************************************)
(* The lexer of src/lexer/ms_lexer.c as the parser uses it: msLexerNext,   *)
(* and msLexerPeek at any time between, over the scanner's state.          *)
(***************************************************************************)
EXTENDS MsScanner, FiniteSets, FiniteSetsExt

VARIABLES
  hasPeek, peek,   \* the cached token
  before           \* auxiliary: the lexer before that token

vars == <<scanVars, hasPeek, peek, before>>

(* What a lexer is that knows nothing of the token ahead. *)
Visible == IF hasPeek THEN before ELSE lexer

Scanner == INSTANCE MsScanner WITH lexer <- Visible

----------------------------------------------------------------------------
(* msLexerInit *)
Init == ScanInit /\ hasPeek = FALSE /\ peek = "EOF" /\ before = lexer

(* Mutant: lexScan leaves prevKind alone. *)
Marked_Not(t, kind) == kind

(* lexScan sets prevKind itself if it returns NEWLINE, so that the line    *)
(* end is not taken for another one; msLexerNext sets it for other kinds.  *)
Marked(t, kind) == IF t = "NEWLINE" THEN t ELSE kind

Exit(t, kind) == IF t = "NEWLINE" THEN kind ELSE t

NextPeeked ==
  /\ hasPeek
  /\ lexer' = [lexer EXCEPT !.prevKind = Exit(peek, @)]
  /\ Deliver(peek)

NextScanned ==
  LET t == lexScan(lexer).kind IN
  /\ ~hasPeek
  /\ lexer' = Behind(lexer, Exit(t, Marked(t, lexer.prevKind)))
  /\ Deliver(t)

msLexerNext ==
  /\ Latest # "EOF"
  /\ NextPeeked \/ NextScanned
  /\ hasPeek' = FALSE /\ peek' = "EOF" /\ before' = lexer'
  /\ UNCHANGED src

msLexerPeek ==
  LET t == lexScan(lexer).kind IN
  /\ Latest # "EOF"
  /\ ~hasPeek
  /\ lexer' = Behind(lexer, Marked(t, lexer.prevKind))
  /\ hasPeek' = TRUE /\ peek' = t /\ before' = lexer
  /\ UNCHANGED <<src, out>>

Next == msLexerNext \/ msLexerPeek

Spec == Init /\ [][Next]_vars

(* "Return next token; call repeatedly until MS_TOK_EOF": the callers,     *)
(* msParseProgram and cmdTokens, do. *)
FairSpec == Spec /\ WF_vars(msLexerNext)

----------------------------------------------------------------------------
Lexers == [pos : 0..Len(src), prevKind : Kinds, fstrState : {"NONE", "OUTER", "INNER"},
           fstrDepth : -2..Len(src), rescanned : BOOLEAN]

TypeOK ==
  /\ src \in Sources
  /\ lexer \in Lexers /\ before \in Lexers
  /\ out \in Seq(Kinds)
  /\ hasPeek \in BOOLEAN /\ peek \in Kinds

(* A line end gives a token only behind one that can end a statement, and  *)
(* so never two in a row, whether it was peeked at or not. *)
LinesEndStatements ==
  \A j \in 1..Len(out) : out[j] = "NEWLINE" => j > 1 /\ EndsStatement(out[j - 1])

(* The scanner has met no error, and no line end inside an expression.  *)
Regular == "ERROR" \notin {out[j] : j \in 1..Len(out)} /\ ~Visible.rescanned

Count(kind, i, j) == Cardinality({n \in i..j : out[n] = kind})

(* The last EXPR_START before j, or 0. *)
Opening(j) == Max({0} \cup {i \in 1..j - 1 : out[i] = "EXPR_START"})

(***************************************************************************)
(* The tokens of an f-string: its fragments and expressions alternate, an  *)
(* expression ends at the brace that matches its first one, however many   *)
(* maps are in it, and the source does not end inside.                     *)
(***************************************************************************)
WellFormed(j) ==
  /\ out[j] \in {"EXPR_START", "FSTRING_END"} => j > 1 /\ out[j - 1] \in {"FSTRING_START", "FSTRING_PART"}
  /\ out[j] = "FSTRING_PART" => j > 1 /\ out[j - 1] = "EXPR_END"
  /\ out[j] = "EXPR_END" =>
       LET i == Opening(j) IN
       /\ i > 0 /\ Count("EXPR_END", i, j - 1) = 0
       /\ Count("LBRACE", i, j) = Count("RBRACE", i, j)
       /\ \A n \in i..j : Count("LBRACE", i, n) >= Count("RBRACE", i, n)
  /\ out[j] = "EOF" =>
       /\ Count("FSTRING_START", 1, j) = Count("FSTRING_END", 1, j)
       /\ Count("EXPR_START", 1, j) = Count("EXPR_END", 1, j)

FStringsNest == Regular => \A j \in 1..Len(out) : WellFormed(j)

(* The state is one of the lexer, and f-strings nest in what it returned. *)
Inv == TypeOK /\ FStringsNest

(* Peeking changes nothing: the tokens returned are those of a scanner     *)
(* that is never asked for the token ahead. *)
ImplementsScanner == Scanner!ScanSpec

(* The only place that scanning can fail to get away from. *)
InBrokenFString == Latest = "ERROR" /\ lexer.fstrState # "NONE"

(* Outside broken f-strings, scanning goes on past an error and reaches the *)
(* end of the source. *)
EndsUnlessBroken == <>(Latest = "EOF" \/ InBrokenFString)

(* "The lexer goes on, past the bytes in question" (P1-T006, 3); "call     *)
(* repeatedly until MS_TOK_EOF" (ms_lexer.h). *)
Ends == <>(Latest = "EOF")
===============================================================================

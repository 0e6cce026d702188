---------------------------- MODULE MsLexerProofs ----------------------------
(***************************************************************************)
(* Proofs about MsLexer, for sources of any length: the lexer's state is   *)
(* sound, line ends end statements, f-strings nest, and peeking at a token *)
(* changes none of those that are returned.                                *)
(***************************************************************************)
EXTENDS MsLexer, MsNumbers, FiniteSetTheorems, TLAPS

----------------------------------------------------------------------------
(* Characters. *)

Source == src \in Seq(Chars)

LEMMA SourceFacts ==
  ASSUME Source
  PROVE  /\ Len(src) \in Nat
         /\ \A p \in Nat : p < Len(src) => Char(p) \in Chars
         /\ \A p \in Nat : p >= Len(src) => Char(p) = "end"
         /\ \A p \in Nat : Char(p) # "end" => p < Len(src)
<1>1. Len(src) \in Nat
  BY DEF Source
<1>2. \A p \in Nat : p < Len(src) => Char(p) \in Chars
  BY DEF Source, Char
<1>3. \A p \in Nat : p >= Len(src) => Char(p) = "end"
  BY <1>1 DEF Char
<1> QED BY <1>1, <1>2, <1>3

(* Skip stops, at the latest at the end. *)
LEMMA SkipFacts ==
  ASSUME Source, NEW C, "end" \notin C, NEW p \in 0..Len(src), NEW q, q = Skip(p, C)
  PROVE  q \in p..Len(src) /\ (\A r \in p..q - 1 : Char(r) \in C) /\ Char(q) \notin C
<1> DEFINE S == {r \in Nat : r >= p /\ Char(r) \notin C}
<1>1. Len(src) \in S
  BY SourceFacts
<1>2. PICK m \in S : \A k \in S : m <= k
  <2> HIDE DEF S
  <2>1. S \subseteq Nat
    BY DEF S
  <2> QED BY <1>1, <2>1, LeastNumber
<1>3. m \in p..Len(src) /\ Char(m) \notin C
  <2>1. m <= Len(src)
    BY <1>1, <1>2
  <2> QED BY <1>2, <2>1, SourceFacts
<1>4. \A r \in p..m - 1 : Char(r) \in C
  <2> SUFFICES ASSUME NEW r \in p..m - 1 PROVE Char(r) \in C
    OBVIOUS
  <2>1. r \in Nat /\ r >= p /\ r < m
    BY <1>3, SourceFacts
  <2> QED BY <1>2, <2>1
<1>5. \E k \in p..Len(src) : (\A r \in p..k - 1 : Char(r) \in C) /\ Char(k) \notin C
  BY <1>3, <1>4
<1> QED BY <1>5 DEF Skip

----------------------------------------------------------------------------
(* The text of a literal. *)

Rule(f, q, Stops, Pairs) ==
  IF q \in Pairs THEN f[q + 2]
  ELSE IF Char(q) = "backslash" THEN q + 1
  ELSE IF Char(q) \in Stops THEN q
  ELSE f[q + 1]

Ends_All(Stops, Pairs) == CHOOSE f : f = [q \in 0..Len(src) + 1 |-> Rule(f, q, Stops, Pairs)]

LEMMA TextEndIs ==
  ASSUME NEW p, NEW Stops, NEW Pairs
  PROVE  TextEnd(p, Stops, Pairs) = Ends_All(Stops, Pairs)[p]
  BY DEF TextEnd, Ends_All, Rule

(* Characters that are taken together with the next one, which is there. *)
Paired(Stops, Pairs) ==
  /\ "end" \in Stops
  /\ Pairs \subseteq 0..Len(src) /\ \A q \in Pairs : q + 2 <= Len(src)

(* The recursion is one from the end of the source to its beginning. *)
LEMMA EndsExist ==
  ASSUME Source, NEW Stops, NEW Pairs, Paired(Stops, Pairs)
  PROVE  \E f : f = [q \in 0..Len(src) + 1 |-> Rule(f, q, Stops, Pairs)]
<1> DEFINE N == Len(src) + 1
           Solves(f, k) == f \in [N - k..N -> Nat] /\ \A q \in N - k..N : f[q] = Rule(f, q, Stops, Pairs)
           S == {k \in Nat : k <= N => \E f : Solves(f, k)}
<1>1. N \in Nat /\ \A q \in Pairs : q \in Nat /\ q + 2 < N
  BY SourceFacts DEF Paired
<1>2. 0 \in S
  <2> DEFINE f == [q \in N - 0..N |-> N]
  <2>1. f \in [N - 0..N -> Nat] /\ f[N] = N
    BY <1>1
  <2>2. N \notin Pairs /\ Char(N) = "end"
    BY <1>1, SourceFacts
  <2>3. Rule(f, N, Stops, Pairs) = N
    BY <2>2 DEF Rule, Paired
  <2> HIDE DEF f
  <2>4. Solves(f, 0)
    BY <1>1, <2>1, <2>3
  <2> QED BY <2>4
<1>3. ASSUME NEW k \in S PROVE k + 1 \in S
  <2> SUFFICES ASSUME k + 1 <= N PROVE \E f : Solves(f, k + 1)
    OBVIOUS
  <2>1. PICK f : Solves(f, k)
    BY <1>1
  <2> DEFINE a == N - (k + 1)
             x == Rule(f, a, Stops, Pairs)
             g == [q \in a..N |-> IF q = a THEN x ELSE f[q]]
  <2>2. a \in Nat /\ k \in Nat /\ N - k = a + 1 /\ a + 1 <= N
    BY <1>1
  <2>3. f \in [a + 1..N -> Nat] /\ \A q \in a + 1..N : f[q] = Rule(f, q, Stops, Pairs)
    BY <2>1, <2>2
  <2> HIDE DEF N, a
  <2>4. x \in Nat
    <3>1. a \in Pairs => a + 2 \in a + 1..N
      BY <1>1, <2>2
    <3>2. a + 1 \in a + 1..N
      BY <1>1, <2>2
    <3> QED BY <2>2, <2>3, <3>1, <3>2 DEF Rule
  <2> HIDE DEF x
  <2>5. g \in [a..N -> Nat] /\ g[a] = x /\ \A q \in a + 1..N : g[q] = f[q]
    BY <1>1, <2>2, <2>3, <2>4
  <2> HIDE DEF g
  <2>6. ASSUME NEW q \in a..N PROVE Rule(g, q, Stops, Pairs) = Rule(f, q, Stops, Pairs)
    <3>1. CASE q = N
      <4>1. q \notin Pairs /\ Char(q) = "end" /\ "end" \in Stops
        BY <1>1, <3>1, SourceFacts DEF Paired, N
      <4> QED BY <4>1 DEF Rule
    <3>2. CASE q # N
      <4>1. q + 1 \in a + 1..N
        BY <1>1, <2>2, <3>2
      <4>2. q \in Pairs => q + 2 \in a + 1..N
        BY <1>1, <2>2
      <4> QED BY <2>5, <4>1, <4>2 DEF Rule
    <3> QED BY <3>1, <3>2
  <2>7. ASSUME NEW q \in a..N PROVE g[q] = Rule(g, q, Stops, Pairs)
    <3>1. CASE q = a
      BY <2>5, <2>6, <3>1 DEF x
    <3>2. CASE q # a
      <4>1. q \in a + 1..N
        BY <1>1, <2>2, <3>2
      <4> QED BY <2>3, <2>5, <2>6, <4>1
    <3> QED BY <3>1, <3>2
  <2>8. Solves(g, k + 1)
    BY <2>5, <2>7 DEF a
  <2> QED BY <2>8
<1>4. S = Nat
  <2> HIDE DEF S
  <2>1. S \subseteq Nat
    BY DEF S
  <2> QED BY <1>2, <1>3, <2>1, Induction
<1>5. PICK f : Solves(f, N)
  BY <1>1, <1>4
<1>6. f \in [0..N -> Nat] /\ \A q \in 0..N : f[q] = Rule(f, q, Stops, Pairs)
  BY <1>1, <1>5
<1> HIDE DEF N, Solves
<1>7. f = [q \in 0..N |-> Rule(f, q, Stops, Pairs)]
  BY <1>6
<1> QED BY <1>7 DEF N

(* The text that goes on at p ends in the source, at p or behind it. *)
LEMMA TextEndFacts ==
  ASSUME Source, NEW Stops, NEW Pairs, Paired(Stops, Pairs), NEW p \in 0..Len(src)
  PROVE  TextEnd(p, Stops, Pairs) \in p..Len(src)
<1> DEFINE f == Ends_All(Stops, Pairs)
           L == Len(src)
           S == {k \in Nat : k <= L => f[L - k] \in L - k..L}
<1>1. L \in Nat /\ \A q \in Pairs : q \in Nat /\ q + 2 <= L
  BY SourceFacts DEF Paired
<1>2. f = [q \in 0..L + 1 |-> Rule(f, q, Stops, Pairs)]
  <2>1. \E g : g = [q \in 0..Len(src) + 1 |-> Rule(g, q, Stops, Pairs)]
    BY EndsExist
  <2>2. Ends_All(Stops, Pairs) = [q \in 0..Len(src) + 1 |-> Rule(Ends_All(Stops, Pairs), q, Stops, Pairs)]
    BY ONLY <2>1, Zenon DEF Ends_All
  <2> QED BY ONLY <2>2
<1> HIDE DEF f
<1>3. \A q \in 0..L + 1 : f[q] = Rule(f, q, Stops, Pairs)
  BY <1>2
<1>4. f[L] = L
  <2>1. L \notin Pairs /\ Char(L) = "end" /\ "end" \in Stops
    BY <1>1, SourceFacts DEF Paired
  <2> QED BY <1>1, <1>3, <2>1 DEF Rule
<1> DEFINE T == {k \in Nat : \A j \in 0..k : j <= L => f[L - j] \in L - j..L}
<1> HIDE DEF L
<1>5. 0 \in T
  BY <1>1, <1>4
<1>6. ASSUME NEW k \in T PROVE k + 1 \in T
  <2> SUFFICES ASSUME k + 1 <= L PROVE f[L - (k + 1)] \in L - (k + 1)..L
    BY <1>1
  <2> DEFINE q == L - (k + 1)
  <2>1. q \in 0..L - 1 /\ k \in Nat /\ q + 1 = L - k
    BY <1>1
  <2>2. f[q + 1] \in q..L
    BY <1>1, <2>1
  <2>3. q \in Pairs => f[q + 2] \in q..L
    <3> SUFFICES ASSUME q \in Pairs PROVE f[q + 2] \in q..L
      OBVIOUS
    <3>1. k >= 1 /\ k - 1 \in 0..k /\ q + 2 = L - (k - 1)
      BY <1>1, <2>1
    <3>2. f[L - (k - 1)] \in L - (k - 1)..L
      <4>1. \A j \in 0..k : j <= L => f[L - j] \in L - j..L
        OBVIOUS
      <4> DEFINE j == k - 1
      <4>2. j \in 0..k /\ j <= L
        BY <1>1, <2>1, <3>1
      <4> HIDE DEF T, j
      <4> QED BY <4>1, <4>2 DEF j
    <3> QED BY <1>1, <2>1, <3>1, <3>2
  <2> HIDE DEF q
  <2>4. f[q] = Rule(f, q, Stops, Pairs)
    BY <1>1, <1>3, <2>1
  <2>5. f[q] \in q..L
    BY <1>1, <2>1, <2>2, <2>3, <2>4 DEF Rule
  <2> QED BY <2>5 DEF q
<1>7. T = Nat
  <2> HIDE DEF T
  <2>1. T \subseteq Nat
    BY DEF T
  <2> QED BY <1>5, <1>6, <2>1, Induction
<1>8. p \in 0..L /\ L - p \in Nat /\ L - (L - p) = p
  BY <1>1 DEF L
<1>9. f[p] \in p..L
  <2>1. L - p \in T
    BY <1>7, <1>8
  <2>2. f[L - (L - p)] \in L - (L - p)..L
    <3> DEFINE k == L - p
    <3>1. k \in Nat /\ \A j \in 0..k : j <= L => f[L - j] \in L - j..L
      BY <2>1
    <3>2. k \in 0..k /\ k <= L
      BY <1>1, <1>8
    <3> HIDE DEF T, k
    <3>3. f[L - k] \in L - k..L
      BY <3>1, <3>2
    <3> QED BY <3>3 DEF k
  <2> QED BY <1>8, <2>2
<1> QED BY <1>9, TextEndIs DEF f, L

LEMMA StringEndFacts ==
  ASSUME Source, NEW p \in 0..Len(src)
  PROVE  StringEnd(p) \in p..Len(src)
<1> DEFINE Pairs == {q \in 0..Len(src) : Escaped(q)}
           Stops == {"quote", "newline", "end"}
<1>1. \A q \in Pairs : q + 2 <= Len(src)
  <2> SUFFICES ASSUME NEW q \in Pairs PROVE q + 2 <= Len(src)
    OBVIOUS
  <2>1. q + 1 \in Nat /\ Char(q + 1) # "end"
    BY DEF Escaped
  <2> QED BY <2>1, SourceFacts
<1>2. Paired(Stops, Pairs)
  BY <1>1 DEF Paired
<1> HIDE DEF Pairs, Stops
<1>3. TextEnd(p, Stops, Pairs) \in p..Len(src)
  BY <1>2, TextEndFacts
<1> QED BY <1>3 DEF StringEnd, Pairs, Stops

LEMMA FragmentEndFacts ==
  ASSUME Source, NEW p \in 0..Len(src)
  PROVE  FragmentEnd(p) \in p..Len(src)
<1> DEFINE Pairs == {q \in 0..Len(src) : Escaped(q) \/ Doubled(q)}
           Stops == {"quote", "newline", "end", "open", "close"}
<1>1. \A q \in Pairs : q + 2 <= Len(src)
  <2> SUFFICES ASSUME NEW q \in Pairs PROVE q + 2 <= Len(src)
    OBVIOUS
  <2>1. q + 1 \in Nat /\ (Escaped(q) \/ Doubled(q))
    BY SourceFacts
  <2>2. Escaped(q) => Char(q + 1) # "end"
    BY DEF Escaped
  <2>3. Doubled(q) => Char(q + 1) # "end"
    BY DEF Doubled
  <2> QED BY <2>1, <2>2, <2>3, SourceFacts
<1>2. Paired(Stops, Pairs)
  BY <1>1 DEF Paired
<1> HIDE DEF Pairs, Stops
<1>3. TextEnd(p, Stops, Pairs) \in p..Len(src)
  BY <1>2, TextEndFacts
<1> QED BY <1>3 DEF FragmentEnd, Pairs, Stops

----------------------------------------------------------------------------
(* What lexScan returns, by the state that it is called in. *)

(* The state of an f-string: between its tokens, where the token that ends *)
(* it or begins an expression may be due, or inside as many braces. *)
Sound(s) ==
  /\ s \in Lexers
  /\ s.fstrState = "NONE" => s.fstrDepth \in {0, EndPending}
  /\ s.fstrState = "OUTER" => s.fstrDepth = 0
  /\ s.fstrState = "INNER" => s.pos > 0 /\ (s.fstrDepth = StartPending \/ s.fstrDepth \in 1..s.pos)

PlainKinds == {"IDENT", "STRING", "OPERATOR", "NEWLINE"}

(* A fragment of an f-string, or an error in it. *)
IsFragment(t, frag, p) ==
  /\ t.pos \in p..Len(src)
  /\ \/ t.kind = frag /\ t.fstrState = "INNER" /\ t.fstrDepth = StartPending /\ t.pos > p
     \/ t.kind = frag /\ t.fstrState = "NONE" /\ t.fstrDepth = EndPending
     \/ t.kind = "ERROR" /\ t.fstrState = "OUTER" /\ t.fstrDepth = 0

LEMMA FragmentFacts ==
  ASSUME Source, NEW p \in 0..Len(src), NEW frag
  PROVE  IsFragment(Fragment(p, frag), frag, p)
<1> DEFINE e == FragmentEnd(p)
<1>1. e \in p..Len(src)
  BY FragmentEndFacts
<1>2. Char(e) # "end" => e + 1 \in p..Len(src) /\ e + 1 > p
  BY <1>1, SourceFacts
<1>3. Fragment(p, frag) = CASE Char(e) = "open"  -> Token(frag, e + 1, "INNER", StartPending)
                            [] Char(e) = "quote" -> Token(frag, e + 1, "NONE", EndPending)
                            [] OTHER             -> Token("ERROR", e, "OUTER", 0)
  BY DEF Fragment
<1> HIDE DEF e
<1>4. CASE Char(e) = "open"
  BY <1>2, <1>3, <1>4 DEF IsFragment, Token
<1>5. CASE Char(e) = "quote"
  BY <1>2, <1>3, <1>5 DEF IsFragment, Token
<1>6. CASE Char(e) # "open" /\ Char(e) # "quote"
  BY <1>1, <1>3, <1>6 DEF IsFragment, Token
<1> QED BY <1>4, <1>5, <1>6

(* A token outside literals. *)
IsPlain(t, s, kinds, p) ==
  /\ t.pos \in p..Len(src) /\ t.kind \in kinds
  /\ t.fstrState = s.fstrState /\ t.fstrDepth = s.fstrDepth

LEMMA StringFacts ==
  ASSUME Source, NEW s, NEW p \in 0..Len(src)
  PROVE  IsPlain(String(s, p), s, {"STRING", "ERROR"}, p)
<1> DEFINE e == StringEnd(p)
<1>1. e \in p..Len(src)
  BY StringEndFacts
<1>2. Char(e) = "quote" => e + 1 \in p..Len(src)
  BY <1>1, SourceFacts
<1>3. String(s, p) = IF Char(e) = "quote" THEN Plain(s, "STRING", e + 1) ELSE Plain(s, "ERROR", e)
  BY DEF String
<1> HIDE DEF e
<1> QED BY <1>1, <1>2, <1>3 DEF IsPlain, Plain, Token

(* The token at a place where no blank is. *)
LEMMA TokenFacts ==
  ASSUME Source, NEW s, NEW q \in 0..Len(src), Char(q) # "blank", NEW t, t = TokenAt(s, q)
  PROVE  /\ FStringAt(q) => IsFragment(t, "FSTRING_START", q)
         /\ ~FStringAt(q) => IsPlain(t, s, PlainKinds \cup {"LBRACE", "RBRACE", "EOF", "ERROR"}, q)
         /\ t.kind = "NEWLINE" <=> Char(q) = "newline"
         /\ t.kind = "EOF" <=> Char(q) = "end"
         /\ t.kind = "LBRACE" <=> Char(q) = "open"
         /\ t.kind = "RBRACE" <=> Char(q) = "close"
<1>1. CASE Char(q) = "end"
  <2>1. t = Plain(s, "EOF", q)
    BY <1>1 DEF TokenAt, FStringAt
  <2> QED BY <1>1, <2>1 DEF Plain, Token, IsPlain, FStringAt
<1>2. Char(q) # "end" => q + 1 \in q..Len(src)
  BY SourceFacts
<1>3. CASE Char(q) = "word"
  <2>1. t = Plain(s, "IDENT", Skip(q, {"word"}))
    BY <1>3 DEF TokenAt, FStringAt
  <2>2. Skip(q, {"word"}) \in q..Len(src)
    BY SkipFacts
  <2> QED BY <1>3, <2>1, <2>2 DEF Plain, Token, IsPlain, FStringAt, PlainKinds
<1>4. CASE Char(q) = "quote"
  <2>1. t = String(s, q + 1)
    BY <1>4 DEF TokenAt, FStringAt
  <2>2. q + 1 \in 0..Len(src)
    BY <1>2, <1>4
  <2>3. IsPlain(t, s, {"STRING", "ERROR"}, q + 1)
    BY <2>1, <2>2, StringFacts
  <2>4. t.pos \in q..Len(src)
    BY <2>3, SourceFacts DEF IsPlain
  <2> QED BY <1>4, <2>3, <2>4 DEF IsPlain, FStringAt, PlainKinds
<1>5. CASE FStringAt(q)
  <2>1. Char(q) = "dollar" /\ Char(q + 1) = "quote" /\ t = Fragment(q + 2, "FSTRING_START")
    BY <1>5 DEF TokenAt, FStringAt
  <2>2. q + 2 \in 0..Len(src)
    BY <2>1, SourceFacts
  <2>3. IsFragment(t, "FSTRING_START", q + 2)
    BY <2>1, <2>2, FragmentFacts
  <2>4. t.pos \in q..Len(src) /\ (t.pos > q + 2 => t.pos > q)
    BY <2>3, SourceFacts DEF IsFragment
  <2> QED BY <1>5, <2>1, <2>3, <2>4 DEF IsFragment
<1>6. CASE Char(q) \notin {"end", "word", "quote"} /\ ~FStringAt(q)
  <2>1. t = Plain(s, Single(Char(q)), q + 1)
    BY <1>6 DEF TokenAt
  <2>2. t.kind = Single(Char(q)) /\ IsPlain(t, s, {Single(Char(q))}, q)
    BY <1>2, <1>6, <2>1 DEF Plain, Token, IsPlain
  <2>3. \/ Char(q) = "newline" /\ Single(Char(q)) = "NEWLINE"
        \/ Char(q) = "open" /\ Single(Char(q)) = "LBRACE"
        \/ Char(q) = "close" /\ Single(Char(q)) = "RBRACE"
        \/ Char(q) = "operator" /\ Single(Char(q)) = "OPERATOR"
        \/ Char(q) \notin {"newline", "open", "close", "operator"} /\ Single(Char(q)) = "ERROR"
    BY DEF Single
  <2> QED BY <1>6, <2>2, <2>3 DEF IsPlain, PlainKinds
<1> QED BY <1>1, <1>3, <1>4, <1>5, <1>6

LEMMA NormalFacts ==
  ASSUME Source, NEW s, NEW p \in 0..Len(src), NEW t, t = Normal(s, p)
  PROVE  /\ \/ IsFragment(t, "FSTRING_START", p)
            \/ IsPlain(t, s, PlainKinds \cup {"LBRACE", "RBRACE", "EOF", "ERROR"}, p)
         /\ t.kind = "NEWLINE" => EndsStatement(s.prevKind)
         /\ \/ Char(p) \in {"blank", "end", "open", "close"} \/ FStringAt(p) \/ IsPlain(t, s, PlainKinds \cup {"ERROR"}, p)
            \/ Char(p) = "newline" /\ t.kind # "NEWLINE"
<1> DEFINE B == Blanks(s.prevKind)
           q == Skip(p, B)
<1>1. B = IF EndsStatement(s.prevKind) THEN {"blank"} ELSE {"blank", "newline"}
  BY DEF Blanks
<1>2. "end" \notin B /\ "blank" \in B
  BY <1>1
<1> HIDE DEF B
<1>3. q \in p..Len(src) /\ (\A r \in p..q - 1 : Char(r) \in B) /\ Char(q) \notin B
  BY <1>2, SkipFacts
<1>4. t = TokenAt(s, q)
  BY DEF Normal, B
<1> HIDE DEF q
<1>5. q \in 0..Len(src) /\ Char(q) # "blank"
  BY <1>2, <1>3, SourceFacts
<1>6. /\ FStringAt(q) => IsFragment(t, "FSTRING_START", q)
      /\ ~FStringAt(q) => IsPlain(t, s, PlainKinds \cup {"LBRACE", "RBRACE", "EOF", "ERROR"}, q)
      /\ t.kind = "NEWLINE" <=> Char(q) = "newline"
      /\ t.kind = "EOF" <=> Char(q) = "end"
      /\ t.kind = "LBRACE" <=> Char(q) = "open"
      /\ t.kind = "RBRACE" <=> Char(q) = "close"
  BY <1>4, <1>5, TokenFacts
<1>7. \A r \in q..Len(src) : r \in p..Len(src) /\ (r > q => r > p)
  BY <1>3, SourceFacts
<1>8. \/ IsFragment(t, "FSTRING_START", p)
      \/ IsPlain(t, s, PlainKinds \cup {"LBRACE", "RBRACE", "EOF", "ERROR"}, p)
  BY <1>6, <1>7 DEF IsFragment, IsPlain
<1>9. t.kind = "NEWLINE" => EndsStatement(s.prevKind)
  BY <1>1, <1>3, <1>6
<1>10. \/ Char(p) \in {"blank", "end", "open", "close"} \/ FStringAt(p) \/ IsPlain(t, s, PlainKinds \cup {"ERROR"}, p)
       \/ Char(p) = "newline" /\ t.kind # "NEWLINE"
  <2> SUFFICES ASSUME Char(p) \notin {"blank", "end", "open", "close"}, ~FStringAt(p), Char(p) = "newline" => t.kind = "NEWLINE"
               PROVE  IsPlain(t, s, PlainKinds \cup {"ERROR"}, p)
    OBVIOUS
  <2>1. CASE q = p
    <3>1. IsPlain(t, s, PlainKinds \cup {"LBRACE", "RBRACE", "EOF", "ERROR"}, p)
      BY <1>6, <2>1
    <3>2. t.kind \notin {"LBRACE", "RBRACE", "EOF"}
      BY <1>6, <2>1
    <3> QED BY <3>1, <3>2 DEF IsPlain
  <2>2. CASE q # p
    <3>1. Char(p) \in B
      BY <1>3, <2>2, SourceFacts
    <3>2. Char(p) = "newline" /\ B = {"blank", "newline"}
      BY <1>1, <3>1
    <3>3. t.kind # "NEWLINE"
      BY <1>3, <1>6, <3>2
    <3> QED BY <3>2, <3>3
  <2> QED BY <2>1, <2>2
<1> QED BY <1>8, <1>9, <1>10

(* Inside an expression.  Unless it passes over a line end, a token there  *)
(* is a brace, which counts, or none that f-strings are made of. *)
InnerOutcome(s, t) ==
  \/ t.kind = "LBRACE" /\ t.fstrState = "INNER" /\ t.fstrDepth = s.fstrDepth + 1 /\ t.pos > s.pos
  \/ t.kind = "EXPR_END" /\ s.fstrDepth = 1 /\ t.fstrState = "OUTER" /\ t.fstrDepth = 0
  \/ t.kind = "RBRACE" /\ s.fstrDepth > 1 /\ t.fstrState = "INNER" /\ t.fstrDepth = s.fstrDepth - 1
  \/ t.kind \in PlainKinds \cup {"ERROR"} /\ t.fstrState = "INNER" /\ t.fstrDepth = s.fstrDepth

LEMMA InnerFacts ==
  ASSUME Source, NEW s, Sound(s), s.fstrState = "INNER", s.fstrDepth # StartPending,
         NEW p, p = Skip(s.pos, {"blank"}), NEW t, t = Inner(s, p)
  PROVE  /\ t.pos \in s.pos..Len(src)
         /\ \/ InnerOutcome(s, t)
            \/ /\ Char(p) = "newline" /\ t.kind # "NEWLINE"
               /\ \/ IsFragment(t, "FSTRING_START", s.pos)
                  \/ IsPlain(t, s, PlainKinds \cup {"LBRACE", "RBRACE", "EOF", "ERROR"}, s.pos)
         /\ t.kind = "NEWLINE" => EndsStatement(s.prevKind)
<1>1. s.pos \in 0..Len(src) /\ s.fstrDepth \in Nat /\ s.fstrDepth >= 1 /\ s.fstrState = "INNER"
  BY SourceFacts DEF Sound, Lexers
<1>2. p \in s.pos..Len(src) /\ Char(p) # "blank"
  <2> DEFINE C == {"blank"}
  <2>1. "end" \notin C /\ p = Skip(s.pos, C)
    OBVIOUS
  <2> HIDE DEF C
  <2>2. p \in s.pos..Len(src) /\ Char(p) \notin C
    BY <1>1, <2>1, SkipFacts
  <2> QED BY <2>2 DEF C
<1>3. p \in 0..Len(src) /\ \A r \in p..Len(src) : r \in s.pos..Len(src) /\ (r > p => r > s.pos)
  BY <1>1, <1>2, SourceFacts
<1>4. CASE Char(p) = "end"
  <2>1. t = Plain(s, "ERROR", p)
    BY <1>4 DEF Inner, FStringAt
  <2> QED BY <1>1, <1>2, <2>1 DEF Plain, Token, InnerOutcome
<1>5. Char(p) # "end" => p + 1 \in s.pos + 1..Len(src)
  BY <1>1, <1>2, <1>3, SourceFacts
<1>6. CASE FStringAt(p)
  <2>1. t = Plain(s, "ERROR", p + 1) /\ Char(p) # "end"
    BY <1>6 DEF Inner, FStringAt
  <2> QED BY <1>1, <1>5, <2>1 DEF Plain, Token, InnerOutcome
<1>7. CASE Char(p) = "open"
  <2>1. t = Token("LBRACE", p + 1, "INNER", s.fstrDepth + 1)
    BY <1>7 DEF Inner, FStringAt
  <2> QED BY <1>1, <1>5, <1>7, <2>1 DEF Token, InnerOutcome
<1>8. CASE Char(p) = "close"
  <2>1. t = IF Closed(s.fstrDepth - 1) THEN Token("EXPR_END", p + 1, "OUTER", s.fstrDepth - 1)
                                       ELSE Token("RBRACE", p + 1, "INNER", s.fstrDepth - 1)
    BY <1>8 DEF Inner, FStringAt
  <2>2. p + 1 \in s.pos..Len(src)
    BY <1>1, <1>5, <1>8
  <2>3. CASE s.fstrDepth = 1
    <3>1. t = Token("EXPR_END", p + 1, "OUTER", 0)
      BY <2>1, <2>3 DEF Closed
    <3> QED BY <2>2, <2>3, <3>1 DEF Token, InnerOutcome
  <2>4. CASE s.fstrDepth > 1
    <3>1. t = Token("RBRACE", p + 1, "INNER", s.fstrDepth - 1)
      BY <1>1, <2>1, <2>4 DEF Closed
    <3> QED BY <2>2, <2>4, <3>1 DEF Token, InnerOutcome
  <2> QED BY <1>1, <2>3, <2>4
<1>9. CASE Char(p) \notin {"end", "open", "close"} /\ ~FStringAt(p)
  <2>1. t = Normal(s, p)
    BY <1>9 DEF Inner
  <2>2. /\ \/ IsFragment(t, "FSTRING_START", p)
           \/ IsPlain(t, s, PlainKinds \cup {"LBRACE", "RBRACE", "EOF", "ERROR"}, p)
        /\ t.kind = "NEWLINE" => EndsStatement(s.prevKind)
        /\ \/ Char(p) \in {"blank", "end", "open", "close"} \/ FStringAt(p) \/ IsPlain(t, s, PlainKinds \cup {"ERROR"}, p)
           \/ Char(p) = "newline" /\ t.kind # "NEWLINE"
    BY <1>3, <2>1, NormalFacts
  <2>3. \/ IsFragment(t, "FSTRING_START", s.pos)
        \/ IsPlain(t, s, PlainKinds \cup {"LBRACE", "RBRACE", "EOF", "ERROR"}, s.pos)
    BY <1>3, <2>2 DEF IsFragment, IsPlain
  <2>4. t.pos \in s.pos..Len(src)
    BY <2>3 DEF IsFragment, IsPlain
  <2>5. IsPlain(t, s, PlainKinds \cup {"ERROR"}, p) => InnerOutcome(s, t)
    BY <1>1 DEF IsPlain, InnerOutcome
  <2> QED BY <1>2, <1>9, <2>2, <2>3, <2>4, <2>5
<1> QED BY <1>4, <1>6, <1>7, <1>8, <1>9

(* Every token and the state behind it. *)
Outcome(s, t) ==
  \/ /\ EndIsDue(s)
     /\ t.kind = "FSTRING_END" /\ t.fstrState = "NONE" /\ t.fstrDepth = 0
  \/ /\ StartIsDue(s)
     /\ t.kind = "EXPR_START" /\ t.fstrState = "INNER" /\ t.fstrDepth = 1
  \/ s.fstrState = "OUTER" /\ IsFragment(t, "FSTRING_PART", s.pos)
  \/ /\ s.fstrState = "NONE" /\ ~EndIsDue(s)
     /\ \/ IsFragment(t, "FSTRING_START", s.pos)
        \/ IsPlain(t, s, PlainKinds \cup {"LBRACE", "RBRACE", "EOF", "ERROR"}, s.pos)
  \/ s.fstrState = "INNER" /\ ~StartIsDue(s) /\ InnerOutcome(s, t)
  \/ /\ Rescans(s)
     /\ \/ IsFragment(t, "FSTRING_START", s.pos)
        \/ IsPlain(t, s, PlainKinds \cup {"LBRACE", "RBRACE", "EOF", "ERROR"}, s.pos)

LEMMA ScanFacts ==
  ASSUME Source, NEW s, Sound(s), NEW t, t = lexScan(s)
  PROVE  /\ Outcome(s, t)
         /\ t.pos \in s.pos..Len(src)
         /\ t.kind = "NEWLINE" => EndsStatement(s.prevKind)
<1>1. s.pos \in 0..Len(src) /\ s.pos \in s.pos..Len(src) /\ s.fstrState \in {"NONE", "OUTER", "INNER"}
  BY SourceFacts DEF Sound, Lexers
<1>2. CASE EndIsDue(s)
  <2>1. t = Token("FSTRING_END", s.pos, "NONE", 0)
    BY <1>2 DEF lexScan, EndIsDue, StartIsDue
  <2> QED BY <1>1, <1>2, <2>1 DEF Token, Outcome
<1>3. CASE StartIsDue(s)
  <2>1. t = Token("EXPR_START", s.pos, "INNER", 1)
    BY <1>3 DEF lexScan, EndIsDue, StartIsDue
  <2> QED BY <1>1, <1>3, <2>1 DEF Token, Outcome
<1>4. CASE s.fstrState = "OUTER"
  <2>1. t = Fragment(s.pos, "FSTRING_PART")
    BY <1>4 DEF lexScan, EndIsDue, StartIsDue
  <2>2. IsFragment(t, "FSTRING_PART", s.pos)
    BY <1>1, <2>1, FragmentFacts
  <2>3. t.pos \in s.pos..Len(src) /\ t.kind # "NEWLINE"
    BY <2>2 DEF IsFragment
  <2> QED BY <1>4, <2>2, <2>3 DEF Outcome
<1>5. CASE s.fstrState = "INNER" /\ ~StartIsDue(s)
  <2> DEFINE p == Skip(s.pos, {"blank"})
  <2>1. t = Inner(s, p)
    BY <1>5 DEF lexScan, EndIsDue
  <2>2. s.fstrDepth # StartPending
    BY <1>5 DEF StartIsDue
  <2>3. Rescans(s) <=> Char(p) = "newline" /\ t.kind # "NEWLINE"
    BY <1>5 DEF Rescans
  <2>4. p = Skip(s.pos, {"blank"})
    OBVIOUS
  <2> HIDE DEF p
  <2>5. /\ t.pos \in s.pos..Len(src)
        /\ \/ InnerOutcome(s, t)
           \/ /\ Char(p) = "newline" /\ t.kind # "NEWLINE"
              /\ \/ IsFragment(t, "FSTRING_START", s.pos)
                 \/ IsPlain(t, s, PlainKinds \cup {"LBRACE", "RBRACE", "EOF", "ERROR"}, s.pos)
        /\ t.kind = "NEWLINE" => EndsStatement(s.prevKind)
    BY <1>5, <2>1, <2>2, <2>4, InnerFacts
  <2> QED BY <1>5, <2>3, <2>5 DEF Outcome
<1>6. CASE s.fstrState = "NONE" /\ ~EndIsDue(s)
  <2>1. t = Normal(s, s.pos)
    BY <1>6 DEF lexScan, StartIsDue
  <2>2. /\ \/ IsFragment(t, "FSTRING_START", s.pos)
           \/ IsPlain(t, s, PlainKinds \cup {"LBRACE", "RBRACE", "EOF", "ERROR"}, s.pos)
        /\ t.kind = "NEWLINE" => EndsStatement(s.prevKind)
    BY <1>1, <2>1, NormalFacts
  <2>3. t.pos \in s.pos..Len(src)
    BY <2>2 DEF IsFragment, IsPlain
  <2> QED BY <1>6, <2>2, <2>3 DEF Outcome
<1> QED BY <1>1, <1>2, <1>3, <1>4, <1>5, <1>6

(* Behind a token the lexer is sound again. *)
LEMMA BehindSound ==
  ASSUME Source, NEW s, Sound(s), NEW prev \in Kinds
  PROVE  Sound(Behind(s, prev)) /\ lexScan(s).kind \in Kinds
<1> DEFINE t == lexScan(s)
           r == Behind(s, prev)
<1>1. Outcome(s, t) /\ t.pos \in s.pos..Len(src)
  BY ScanFacts
<1>2. r = [pos |-> t.pos, prevKind |-> prev, fstrState |-> t.fstrState, fstrDepth |-> t.fstrDepth,
           rescanned |-> s.rescanned \/ Rescans(s)]
  BY DEF Behind
<1>3. Len(src) \in Nat /\ s.pos \in 0..Len(src)
  BY SourceFacts DEF Sound, Lexers
<1> HIDE DEF t
<1>4. t.pos \in 0..Len(src)
  BY <1>1, <1>3
<1> DEFINE Good == /\ t.fstrState = "NONE" => t.fstrDepth \in {0, EndPending}
                   /\ t.fstrState = "OUTER" => t.fstrDepth = 0
                   /\ t.fstrState = "INNER" => t.pos > 0 /\ (t.fstrDepth = StartPending \/ t.fstrDepth \in 1..t.pos)
                   /\ t.fstrState \in {"NONE", "OUTER", "INNER"}
<1>5. Good
  <2>1. /\ s.fstrState \in {"NONE", "OUTER", "INNER"}
        /\ s.fstrState = "NONE" => s.fstrDepth \in {0, EndPending}
        /\ s.fstrState = "OUTER" => s.fstrDepth = 0
        /\ s.fstrState = "INNER" => s.pos > 0 /\ (s.fstrDepth = StartPending \/ s.fstrDepth \in 1..s.pos)
    BY DEF Sound, Lexers
  <2>2. t.pos >= s.pos /\ t.pos \in Nat /\ s.pos \in Nat
    BY <1>1, <1>3, <1>4
  <2>3. ASSUME NEW frag, IsFragment(t, frag, s.pos) PROVE Good
    BY <2>2, <2>3 DEF IsFragment
  <2>4. ASSUME NEW K, IsPlain(t, s, K, s.pos) PROVE Good
    BY <2>1, <2>2, <2>4 DEF IsPlain
  <2>5. ASSUME InnerOutcome(s, t), s.fstrState = "INNER", ~StartIsDue(s) PROVE Good
    <3>1. s.fstrDepth \in 1..s.pos
      BY <2>1, <2>5 DEF StartIsDue
    <3> QED BY <2>2, <2>5, <3>1 DEF InnerOutcome
  <2>6. ASSUME EndIsDue(s), t.fstrState = "NONE", t.fstrDepth = 0 PROVE Good
    BY <2>6
  <2>7. ASSUME StartIsDue(s), t.fstrState = "INNER", t.fstrDepth = 1 PROVE Good
    BY <2>1, <2>2, <2>7 DEF StartIsDue
  <2> HIDE DEF Good
  <2> QED BY <1>1, <2>3, <2>4, <2>5, <2>6, <2>7 DEF Outcome
<1>6. t.fstrDepth \in -2..Len(src)
  BY <1>3, <1>4, <1>5 DEF EndPending, StartPending
<1>7. t.kind \in Kinds
  BY <1>1 DEF Outcome, InnerOutcome, IsFragment, IsPlain, PlainKinds, Kinds
<1>8. r \in Lexers
  BY <1>2, <1>4, <1>5, <1>6 DEF Lexers, Sound
<1> QED BY <1>2, <1>5, <1>7, <1>8 DEF Sound, t

----------------------------------------------------------------------------
(* The state, and what the cached token is: the one that a scanner without *)
(* lookahead would find. *)

PeekInv ==
  IF hasPeek
  THEN /\ peek = lexScan(before).kind
       /\ lexer = Behind(before, Marked(peek, before.prevKind))
  ELSE before = lexer

StateInv == TypeOK /\ Sound(lexer) /\ Sound(before) /\ PeekInv

(* As long as the source is the same, lexScan is. *)
LEMMA SameChar == ASSUME src' = src PROVE \A p : Char(p)' = Char(p)
  BY DEF Char

LEMMA SameSkip == ASSUME src' = src PROVE \A p, C : Skip(p, C)' = Skip(p, C)
  BY DEF Skip, Char

LEMMA SameEnds ==
  ASSUME src' = src
  PROVE  \A p : StringEnd(p)' = StringEnd(p) /\ FragmentEnd(p)' = FragmentEnd(p)
  BY DEF StringEnd, FragmentEnd, Escaped, Doubled, TextEnd, Char

LEMMA SameScan ==
  ASSUME src' = src
  PROVE  \A s : lexScan(s)' = lexScan(s) /\ \A prev : Behind(s, prev)' = Behind(s, prev)
<1>1. \A p, frag : Fragment(p, frag)' = Fragment(p, frag)
  BY SameChar, SameEnds DEF Fragment
<1>2. \A s, p : String(s, p)' = String(s, p)
  BY SameChar, SameEnds DEF String, Plain
<1>3. \A s, q : TokenAt(s, q)' = TokenAt(s, q)
  BY <1>1, <1>2, SameChar, SameSkip DEF TokenAt, FStringAt, Plain
<1>4. \A s, p : Normal(s, p)' = Normal(s, p)
  BY <1>3, SameSkip DEF Normal
<1>5. \A s, p : Inner(s, p)' = Inner(s, p)
  BY <1>4, SameChar DEF Inner, FStringAt, Plain
<1>6. \A s : lexScan(s)' = lexScan(s)
  BY <1>1, <1>4, <1>5, SameSkip DEF lexScan
<1>7. \A s, prev : Behind(s, prev)' = Behind(s, prev)
  BY <1>6, SameChar, SameSkip DEF Behind, Rescans
<1> QED BY <1>6, <1>7

LEMMA SourceOK == ASSUME src \in Sources PROVE Source
  BY ScannerAssumption DEF Source

LEMMA KindsOK ==
  /\ \A t, k \in Kinds : Marked(t, k) \in Kinds /\ Exit(t, k) \in Kinds
  /\ "EOF" \in Kinds
  BY DEF Marked, Exit, Kinds

LEMMA DeliverOK ==
  ASSUME out \in Seq(Kinds), NEW t \in Kinds, Deliver(t)
  PROVE  out' \in Seq(Kinds)
  BY DEF Deliver

(* prevKind does not count for what is sound. *)
LEMMA PrevKind ==
  ASSUME NEW s, NEW k \in Kinds, Sound(s)
  PROVE  Sound([s EXCEPT !.prevKind = k])
  BY DEF Sound, Lexers

LEMMA StateStart == ASSUME Init PROVE StateInv
<1>1. Source /\ src \in Sources
  BY SourceOK DEF Init, ScanInit
<1>2. 0 \in 0..Len(src) /\ 0 \in -2..Len(src)
  BY <1>1, SourceFacts
<1>3. lexer \in Lexers /\ lexer.fstrState = "NONE" /\ lexer.fstrDepth = 0
  BY <1>2, KindsOK DEF Init, ScanInit, Lexers
<1>4. Sound(lexer)
  BY <1>3 DEF Sound
<1>5. before = lexer /\ out \in Seq(Kinds) /\ hasPeek = FALSE /\ peek \in Kinds
  BY KindsOK DEF Init, ScanInit
<1> QED BY <1>1, <1>3, <1>4, <1>5 DEF StateInv, TypeOK, PeekInv

(* What a step is to those who see the tokens only. *)
Seen ==
  LET t == lexScan(Visible).kind IN
  /\ Latest # "EOF"
  /\ Visible' = Behind(Visible, t) /\ Deliver(t)
  /\ UNCHANGED src

LEMMA StateStep ==
  ASSUME StateInv, [Next]_vars
  PROVE  StateInv' /\ (Seen \/ UNCHANGED <<src, Visible, out>>)
<1>1. Source /\ src \in Sources /\ lexer \in Lexers /\ before \in Lexers /\ out \in Seq(Kinds) /\ peek \in Kinds
  BY SourceOK DEF StateInv, TypeOK
<1>2. Sound(lexer) /\ Sound(before) /\ lexer.prevKind \in Kinds
  BY <1>1 DEF StateInv, Lexers
<1>3. CASE UNCHANGED vars
  <2>1. src' = src /\ lexer' = lexer /\ out' = out /\ hasPeek' = hasPeek /\ peek' = peek /\ before' = before
    BY <1>3 DEF vars, scanVars
  <2>2. TypeOK' /\ Sound(lexer)' /\ Sound(before)' /\ Visible' = Visible
    BY <2>1 DEF StateInv, TypeOK, Sound, Visible, Lexers
  <2>3. lexScan(before)' = lexScan(before) /\ Marked(peek, before.prevKind)' = Marked(peek, before.prevKind)
    BY <2>1, SameScan DEF Marked
  <2>4. Behind(before, Marked(peek, before.prevKind))' = Behind(before, Marked(peek, before.prevKind))
    BY <2>1, <2>3, SameScan
  <2> QED BY <2>1, <2>2, <2>3, <2>4 DEF StateInv, PeekInv
<1>4. ASSUME msLexerNext, NextPeeked PROVE StateInv' /\ Seen
  <2> DEFINE k == Exit(peek, lexer.prevKind)
  <2>1. /\ hasPeek /\ lexer' = [lexer EXCEPT !.prevKind = k] /\ Deliver(peek)
        /\ Latest # "EOF" /\ hasPeek' = FALSE /\ peek' = "EOF" /\ before' = lexer' /\ src' = src
    BY <1>4 DEF msLexerNext, NextPeeked
  <2>2. k \in Kinds
    BY <1>1, <1>2, KindsOK
  <2>3. Sound(lexer)' /\ Sound(before)'
    <3> DEFINE r == [lexer EXCEPT !.prevKind = k]
    <3>1. Sound(r)
      <4> HIDE DEF k
      <4> QED BY <1>2, <2>2, PrevKind
    <3> HIDE DEF r
    <3>2. lexer' = r /\ before' = r /\ src' = src
      BY <2>1 DEF r
    <3> QED BY <3>1, <3>2 DEF Sound, Lexers
  <2>4. StateInv'
    <3>1. out' \in Seq(Kinds)
      BY <1>1, <2>1, DeliverOK
    <3> QED BY <1>1, <2>1, <2>3, <3>1, KindsOK DEF StateInv, TypeOK, PeekInv, Sound
  <2>5. peek = lexScan(before).kind /\ lexer = Behind(before, Marked(peek, before.prevKind))
    BY <2>1 DEF StateInv, PeekInv
  <2>6. k = peek
    <3>1. lexer.prevKind = Marked(peek, before.prevKind)
      BY <2>5 DEF Behind
    <3> QED BY <3>1 DEF Marked, Exit
  <2>7. lexer' = Behind(before, peek)
    <3> HIDE DEF k
    <3> QED BY <2>1, <2>5, <2>6 DEF Behind
  <2>8. Visible = before /\ Visible' = lexer'
    BY <2>1 DEF Visible
  <2> QED BY <2>1, <2>4, <2>5, <2>7, <2>8 DEF Seen
<1>5. ASSUME msLexerNext, NextScanned PROVE StateInv' /\ Seen
  <2> DEFINE t == lexScan(lexer).kind
             k == Exit(t, Marked(t, lexer.prevKind))
  <2>1. /\ ~hasPeek /\ lexer' = Behind(lexer, k) /\ Deliver(t)
        /\ Latest # "EOF" /\ hasPeek' = FALSE /\ peek' = "EOF" /\ before' = lexer' /\ src' = src
    BY <1>5 DEF msLexerNext, NextScanned
  <2>2. k = t
    BY DEF Exit, Marked
  <2> HIDE DEF k
  <2>3. t \in Kinds /\ Sound(Behind(lexer, t))
    <3>1. t \in Kinds
      BY <1>1, <1>2, BehindSound
    <3> HIDE DEF t
    <3> QED BY <1>1, <1>2, <3>1, BehindSound
  <2> DEFINE r == Behind(lexer, t)
  <2> HIDE DEF r
  <2>4. Sound(lexer)' /\ Sound(before)'
    <3>1. lexer' = r /\ before' = r /\ src' = src
      BY <2>1, <2>2 DEF r
    <3>2. Sound(r)
      BY <2>3 DEF r
    <3> QED BY <3>1, <3>2 DEF Sound, Lexers
  <2> HIDE DEF t
  <2>5. out' \in Seq(Kinds)
    BY <1>1, <2>1, <2>3, DeliverOK
  <2>6. StateInv'
    BY <1>1, <2>1, <2>4, <2>5, KindsOK DEF StateInv, TypeOK, PeekInv, Sound
  <2>7. Visible = lexer /\ Visible' = lexer'
    BY <2>1 DEF Visible
  <2> QED BY <2>1, <2>2, <2>6, <2>7 DEF Seen, t
<1>6. ASSUME msLexerPeek PROVE StateInv' /\ UNCHANGED <<src, Visible, out>>
  <2> DEFINE t == lexScan(lexer).kind
             k == Marked(t, lexer.prevKind)
             r == Behind(lexer, k)
  <2>1. ~hasPeek /\ lexer' = r /\ hasPeek' = TRUE /\ peek' = t /\ before' = lexer /\ src' = src /\ out' = out
    BY <1>6 DEF msLexerPeek
  <2>2. t \in Kinds
    BY <1>1, <1>2, BehindSound
  <2>3. k \in Kinds
    <3> HIDE DEF t
    <3> QED BY <1>2, <2>2, KindsOK
  <2>4. Sound(r)
    <3> HIDE DEF t, k
    <3> QED BY <1>1, <1>2, <2>3, BehindSound
  <2> HIDE DEF r
  <2>5. Sound(lexer)' /\ Sound(before)'
    BY <1>2, <2>1, <2>4 DEF Sound, Lexers
  <2>6. PeekInv'
    <3>1. lexScan(before)' = lexScan(lexer)
      BY <2>1, SameScan
    <3>2. Marked(peek, before.prevKind)' = k
      BY <2>1 DEF Marked
    <3>3. Behind(before, Marked(peek, before.prevKind))' = Behind(lexer, k)
      <4> HIDE DEF k
      <4> QED BY <2>1, <3>2, SameScan
    <3> HIDE DEF k
    <3> QED BY <2>1, <3>1, <3>3 DEF PeekInv, r
  <2>7. TypeOK'
    BY <1>1, <2>1, <2>2, <2>5 DEF TypeOK, Sound
  <2>8. Visible' = Visible
    BY <2>1 DEF Visible
  <2> QED BY <2>1, <2>5, <2>6, <2>7, <2>8 DEF StateInv
<1> QED BY <1>3, <1>4, <1>5, <1>6 DEF Next, msLexerNext

LEMMA StateInvariance == Spec => []StateInv
  BY StateStart, StateStep, PTL DEF Spec

(* lexScan is the same in MsScanner and in the instance of it. *)
LEMMA SameScanner ==
  /\ \A s : Scanner!lexScan(s) = lexScan(s)
  /\ \A s, prev : Scanner!Behind(s, prev) = Behind(s, prev)
<1>1. \A p : Scanner!Char(p) = Char(p)
  BY DEF Char, Scanner!Char
<1>2. \A p, C : Scanner!Skip(p, C) = Skip(p, C)
  BY DEF Skip, Scanner!Skip, Char, Scanner!Char
<1>3. \A s : Scanner!lexScan(s) = lexScan(s)
  <2>1. \A p, Stops, Pairs : Scanner!TextEnd(p, Stops, Pairs) = TextEnd(p, Stops, Pairs)
    BY DEF TextEnd, Scanner!TextEnd, Char, Scanner!Char
  <2>2. \A q : Scanner!Escaped(q) = Escaped(q) /\ Scanner!Doubled(q) = Doubled(q)
    BY DEF Escaped, Scanner!Escaped, Doubled, Scanner!Doubled, Char, Scanner!Char
  <2>3. \A p : Scanner!StringEnd(p) = StringEnd(p) /\ Scanner!FragmentEnd(p) = FragmentEnd(p)
    BY <2>1, <2>2 DEF StringEnd, Scanner!StringEnd, FragmentEnd, Scanner!FragmentEnd
  <2>4. \A s, kind, p, state, depth :
           Scanner!Token(kind, p, state, depth) = Token(kind, p, state, depth) /\ Scanner!Plain(s, kind, p) = Plain(s, kind, p)
    BY DEF Token, Scanner!Token, Plain, Scanner!Plain
  <2>5. \A s : (Scanner!EndIsDue(s) <=> EndIsDue(s)) /\ (Scanner!StartIsDue(s) <=> StartIsDue(s))
    BY DEF EndIsDue, Scanner!EndIsDue, StartIsDue, Scanner!StartIsDue, EndPending, Scanner!EndPending,
           StartPending, Scanner!StartPending
  <2>6. \A p, frag : Scanner!Fragment(p, frag) = Fragment(p, frag)
    BY <1>1, <2>3, <2>4 DEF Fragment, Scanner!Fragment, EndPending, Scanner!EndPending, StartPending, Scanner!StartPending
  <2>7. \A s, p : Scanner!String(s, p) = String(s, p)
    BY <1>1, <2>3, <2>4 DEF String, Scanner!String
  <2>8. \A s, q : Scanner!TokenAt(s, q) = TokenAt(s, q)
    BY <1>1, <1>2, <2>4, <2>6, <2>7 DEF TokenAt, Scanner!TokenAt, FStringAt, Scanner!FStringAt, Single, Scanner!Single
  <2>9. \A s, p : Scanner!Normal(s, p) = Normal(s, p)
    BY <1>2, <2>8 DEF Normal, Scanner!Normal, Blanks, Scanner!Blanks, EndsStatement, Scanner!EndsStatement
  <2>10. \A s, p : Scanner!Inner(s, p) = Inner(s, p)
    BY <1>1, <2>4, <2>9 DEF Inner, Scanner!Inner, Closed, Scanner!Closed, FStringAt, Scanner!FStringAt
  <2> SUFFICES ASSUME NEW s PROVE Scanner!lexScan(s) = lexScan(s)
    OBVIOUS
  <2>11. Scanner!Inner(s, Scanner!Skip(s.pos, {"blank"})) = Inner(s, Skip(s.pos, {"blank"}))
    BY <1>2, <2>10
  <2>12. Scanner!EndIsDue(s) = EndIsDue(s) /\ Scanner!StartIsDue(s) = StartIsDue(s)
    BY <2>5 DEF EndIsDue, Scanner!EndIsDue, StartIsDue, Scanner!StartIsDue
  <2> QED BY <2>4, <2>6, <2>9, <2>11, <2>12 DEF lexScan, Scanner!lexScan
<1>4. \A s : Scanner!Rescans(s) = Rescans(s)
  BY <1>1, <1>2, <1>3 DEF Rescans, Scanner!Rescans, StartIsDue, Scanner!StartIsDue, StartPending, Scanner!StartPending
<1>5. \A s, prev : Scanner!Behind(s, prev) = Behind(s, prev)
  BY <1>3, <1>4 DEF Behind, Scanner!Behind
<1> QED BY <1>3, <1>5

(* "Return next token" (ms_lexer.h) whether or not msLexerPeek was asked   *)
(* for it before: what prevKind, the f-string's state and the position are *)
(* after a peek decides nothing about the tokens that msLexerNext returns. *)
THEOREM PeekingIsUnseen == Spec => ImplementsScanner
<1>1. Init => Scanner!ScanInit
  BY DEF Init, ScanInit, Scanner!ScanInit, Visible
<1>2. StateInv /\ [Next]_vars => [Scanner!ScanNext]_<<src, Visible, out>>
  <2> SUFFICES ASSUME Seen PROVE Scanner!ScanNext
    BY StateStep DEF Scanner!scanVars
  <2> QED BY SameScanner DEF Seen, Scanner!ScanNext, Latest, Scanner!Latest, Deliver, Scanner!Deliver
<1> QED BY StateInvariance, <1>1, <1>2, PTL DEF Spec, ImplementsScanner, Scanner!ScanSpec, Scanner!scanVars

----------------------------------------------------------------------------
(* Line ends. *)

LineInv ==
  /\ Visible.prevKind = IF out = <<>> THEN "EOF" ELSE Latest
  /\ LinesEndStatements

LEMMA VisibleFacts ==
  ASSUME StateInv
  PROVE  Source /\ Sound(Visible) /\ out \in Seq(Kinds) /\ Visible.prevKind \in Kinds
<1>1. Source /\ out \in Seq(Kinds)
  BY SourceOK DEF StateInv, TypeOK
<1>2. Sound(Visible)
  BY DEF StateInv, Visible
<1> QED BY <1>1, <1>2 DEF Sound, Lexers

LEMMA LineStep ==
  ASSUME StateInv, LineInv, Seen \/ UNCHANGED <<src, Visible, out>>
  PROVE  LineInv'
<1> DEFINE t == lexScan(Visible).kind
<1>1. CASE UNCHANGED <<src, Visible, out>>
  BY <1>1 DEF LineInv, Latest, LinesEndStatements
<1>2. CASE Seen
  <2>1. t \in Kinds /\ (t = "NEWLINE" => EndsStatement(Visible.prevKind))
    BY VisibleFacts, BehindSound, ScanFacts
  <2>2. Visible'.prevKind = t /\ Deliver(t)
    BY <1>2 DEF Seen, Behind
  <2> HIDE DEF t
  <2>3. out \in Seq(Kinds)
    BY VisibleFacts
  <2>4. CASE t = "ERROR" /\ Latest = "ERROR"
    <3>1. out' = out /\ out # <<>>
      BY <2>2, <2>4 DEF Deliver, Latest
    <3> QED BY <2>2, <2>4, <3>1 DEF LineInv, LinesEndStatements, Latest
  <2>5. CASE ~(t = "ERROR" /\ Latest = "ERROR")
    <3>1. out' = Append(out, t)
      BY <2>2, <2>5 DEF Deliver
    <3>2. /\ Len(out') = Len(out) + 1 /\ out' # <<>> /\ out'[Len(out) + 1] = t /\ Len(out) \in Nat
          /\ \A j \in 1..Len(out) : out'[j] = out[j]
      BY <2>1, <2>3, <3>1
    <3>3. Latest' = t
      BY <3>2 DEF Latest
    <3>4. ASSUME NEW j \in 1..Len(out'), out'[j] = "NEWLINE" PROVE j > 1 /\ EndsStatement(out'[j - 1])
      <4>1. CASE j \in 1..Len(out)
        <5>1. j > 1 /\ EndsStatement(out[j - 1])
          BY <3>2, <3>4, <4>1 DEF LineInv, LinesEndStatements
        <5>2. j - 1 \in 1..Len(out)
          BY <4>1, <5>1
        <5> QED BY <3>2, <5>1, <5>2
      <4>2. CASE j = Len(out) + 1
        <5>1. EndsStatement(Visible.prevKind)
          BY <2>1, <3>2, <3>4, <4>2
        <5>2. out # <<>> /\ Visible.prevKind = out[Len(out)]
          BY <5>1 DEF LineInv, EndsStatement, Latest
        <5>3. Len(out) \in 1..Len(out)
          BY <2>3, <5>2
        <5> QED BY <3>2, <4>2, <5>1, <5>2, <5>3
      <4> QED BY <3>2, <4>1, <4>2
    <3>5. LinesEndStatements'
      BY <3>4 DEF LinesEndStatements, EndsStatement
    <3> QED BY <2>2, <3>2, <3>3, <3>5 DEF LineInv
  <2> QED BY <2>4, <2>5
<1> QED BY <1>1, <1>2

(* A line end in the source becomes a NEWLINE only behind a token that can *)
(* end a statement, and never two of them in a row, however many lines are *)
(* empty and whatever was peeked at (asiShouldInsert, ms_lexer.c).         *)
THEOREM NewlinesEndStatements == Spec => []LinesEndStatements
<1>1. Init => LineInv
  BY DEF Init, ScanInit, LineInv, LinesEndStatements, Visible
<1>2. StateInv /\ LineInv /\ [Next]_vars => LineInv'
  BY StateStep, LineStep
<1>3. LineInv => LinesEndStatements
  BY DEF LineInv
<1> QED BY StateInvariance, <1>1, <1>2, <1>3, PTL DEF Spec

----------------------------------------------------------------------------
(* Counting tokens. *)

LEMMA CountedSet ==
  ASSUME NEW kind, NEW i \in Nat, NEW j \in Nat
  PROVE  IsFiniteSet({n \in i..j : out[n] = kind})
<1> DEFINE S == {n \in i..j : out[n] = kind}
<1>1. S \in SUBSET (i..j) /\ IsFiniteSet(i..j)
  BY FS_Interval
<1> HIDE DEF S
<1>2. IsFiniteSet(S)
  BY <1>1, FS_Subset
<1> QED BY <1>2 DEF S

LEMMA CountFacts ==
  ASSUME NEW kind, NEW i \in Nat, NEW j \in Nat
  PROVE  Count(kind, i, j) \in Nat /\ (j < i => Count(kind, i, j) = 0)
<1> DEFINE S == {n \in i..j : out[n] = kind}
<1>1. IsFiniteSet(S)
  BY CountedSet
<1>3. j < i => S = {}
  OBVIOUS
<1> HIDE DEF S
<1>2. Cardinality(S) \in Nat /\ (j < i => Cardinality(S) = 0)
  BY <1>1, <1>3, FS_CardinalityType, FS_EmptySet
<1> QED BY <1>2 DEF Count, S

(* A step returns t as the token number N + 1. *)
Appends(t, N) == out \in Seq(Kinds) /\ Len(out) = N /\ t \in Kinds /\ out' = Append(out, t)

LEMMA AppendsFacts ==
  ASSUME NEW t, NEW N, Appends(t, N)
  PROVE  /\ N \in Nat /\ Len(out') = N + 1 /\ out'[N + 1] = t
         /\ \A j \in 1..N : out'[j] = out[j]
  BY DEF Appends

LEMMA SameCount ==
  ASSUME NEW t, NEW N, Appends(t, N), NEW kind, NEW i \in Nat \ {0}, NEW j \in 0..N
  PROVE  Count(kind, i, j)' = Count(kind, i, j)
<1>1. \A n \in i..j : n \in 1..N
  BY AppendsFacts
<1>2. {n \in i..j : out'[n] = kind} = {n \in i..j : out[n] = kind}
  BY <1>1, AppendsFacts
<1> QED BY <1>2 DEF Count

LEMMA CountStep ==
  ASSUME NEW t, NEW N, Appends(t, N), NEW kind, NEW i \in 1..N + 1
  PROVE  Count(kind, i, N + 1)' = Count(kind, i, N) + (IF t = kind THEN 1 ELSE 0)
<1> DEFINE S == {n \in i..N : out[n] = kind}
           T == {n \in i..N + 1 : out'[n] = kind}
<1>1. N \in Nat /\ i \in 1..N + 1 /\ out'[N + 1] = t /\ \A j \in 1..N : out'[j] = out[j]
  BY AppendsFacts
<1>2. T = IF t = kind THEN S \cup {N + 1} ELSE S
  BY <1>1
<1>3. IsFiniteSet(S) /\ N + 1 \notin S
  <2>1. i \in Nat
    BY <1>1
  <2>2. N + 1 \notin S
    BY <1>1
  <2> QED BY <1>1, <2>1, <2>2, CountedSet
<1>4. Cardinality(S) \in Nat /\ Cardinality(T) = Cardinality(S) + (IF t = kind THEN 1 ELSE 0)
  <2> HIDE DEF S, T
  <2>1. Cardinality(S) \in Nat /\ Cardinality(S \cup {N + 1}) = Cardinality(S) + 1
    BY <1>3, FS_AddElement, FS_CardinalityType
  <2> QED BY <1>2, <2>1
<1>5. Count(kind, i, N + 1)' = Cardinality(T) /\ Count(kind, i, N) = Cardinality(S)
  BY DEF Count
<1> QED BY <1>4, <1>5

(* The greatest of some numbers up to n. *)
LEMMA Greatest ==
  ASSUME NEW n \in Nat, NEW S \in SUBSET (0..n), S # {}
  PROVE  Max(S) \in S /\ \A k \in S : k <= Max(S)
<1> DEFINE T == {n - k : k \in S}
<1>1. T \in SUBSET Nat /\ T # {}
  <2>1. \A k \in S : n - k \in Nat
    OBVIOUS
  <2>2. T \in SUBSET Nat
    BY <2>1, ZenonT(30)
  <2>3. PICK j \in S : TRUE
    OBVIOUS
  <2>4. n - j \in T
    BY <2>3, ZenonT(30)
  <2> QED BY <2>2, <2>4
<1>2. PICK m \in T : \A k \in T : m <= k
  <2> HIDE DEF T
  <2> QED BY <1>1, LeastNumber
<1>3. PICK x \in S : m = n - x
  BY <1>2
<1>4. \A k \in S : k <= x
  <2> SUFFICES ASSUME NEW k \in S PROVE k <= x
    OBVIOUS
  <2>1. n - x <= n - k
    BY <1>2, <1>3
  <2> QED BY <2>1
<1>5. \E y \in S : \A k \in S : k <= y
  BY <1>4
<1> QED BY <1>5 DEF Max

LEMMA OpeningFacts ==
  ASSUME NEW j \in Nat \ {0}
  PROVE  /\ Opening(j) \in 0..j - 1
         /\ Opening(j) > 0 => out[Opening(j)] = "EXPR_START"
         /\ \A i \in 1..j - 1 : out[i] = "EXPR_START" => i <= Opening(j)
<1> DEFINE S == {0} \cup {i \in 1..j - 1 : out[i] = "EXPR_START"}
<1>1. S \in SUBSET (0..j - 1) /\ S # {} /\ j - 1 \in Nat
  OBVIOUS
<1>2. Max(S) \in S /\ \A k \in S : k <= Max(S)
  <2> HIDE DEF S
  <2> QED BY <1>1, Greatest
<1>3. Opening(j) = Max(S)
  BY DEF Opening
<1> QED BY <1>1, <1>2, <1>3

LEMMA SameOpening ==
  ASSUME NEW t, NEW N, Appends(t, N), NEW j \in 1..N + 1
  PROVE  Opening(j)' = Opening(j)
<1>1. \A i \in 1..j - 1 : i \in 1..N
  BY AppendsFacts
<1>2. {i \in 1..j - 1 : out'[i] = "EXPR_START"} = {i \in 1..j - 1 : out[i] = "EXPR_START"}
  BY <1>1, AppendsFacts
<1> QED BY <1>2 DEF Opening

LEMMA OpeningStep ==
  ASSUME NEW t, NEW N, Appends(t, N)
  PROVE  Opening(N + 2)' = IF t = "EXPR_START" THEN N + 1 ELSE Opening(N + 1)
<1>1. N \in Nat /\ out'[N + 1] = t /\ \A j \in 1..N : out'[j] = out[j]
  BY AppendsFacts
<1> DEFINE S == {0} \cup {i \in 1..(N + 1) - 1 : out[i] = "EXPR_START"}
           T == {0} \cup {i \in 1..(N + 2) - 1 : out'[i] = "EXPR_START"}
<1>2. Opening(N + 1) = Max(S) /\ Opening(N + 2)' = Max(T)
  BY DEF Opening
<1>3. CASE t = "EXPR_START"
  <2>1. N + 1 \in T /\ T \in SUBSET (0..N + 1) /\ N + 1 \in Nat
    BY <1>1, <1>3
  <2> HIDE DEF T
  <2>2. Max(T) \in T /\ \A k \in T : k <= Max(T)
    BY <2>1, Greatest
  <2>4. Max(T) \in 0..N + 1 /\ N + 1 <= Max(T)
    BY <2>1, <2>2
  <2>3. Max(T) = N + 1
    BY <1>1, <2>4
  <2> QED BY <1>2, <1>3, <2>3
<1>4. CASE t # "EXPR_START"
  <2>1. \A i \in 1..(N + 2) - 1 : i \in 1..N \/ i = N + 1
    BY <1>1
  <2>2. T = S
    BY <1>1, <1>4, <2>1
  <2> HIDE DEF S, T
  <2> QED BY <1>2, <1>4, <2>2
<1> QED BY <1>3, <1>4

LEMMA SameWellFormed ==
  ASSUME NEW t, NEW N, Appends(t, N), NEW j \in 1..N
  PROVE  WellFormed(j)' <=> WellFormed(j)
<1>1. N \in Nat /\ out'[j] = out[j] /\ (j > 1 => out'[j - 1] = out[j - 1]) /\ j - 1 \in 0..N
  BY AppendsFacts
<1>2. Opening(j)' = Opening(j) /\ Opening(j) \in 0..j - 1
  BY <1>1, SameOpening, OpeningFacts
<1>3. \A kind : Count(kind, 1, j)' = Count(kind, 1, j)
  BY <1>1, SameCount
<1>4. ASSUME NEW i \in 1..j - 1, NEW kind
      PROVE  /\ Count(kind, i, j - 1)' = Count(kind, i, j - 1)
             /\ \A n \in i..j : Count(kind, i, n)' = Count(kind, i, n)
  BY <1>1, SameCount
<1> DEFINE Bal(i) == /\ i > 0 /\ Count("EXPR_END", i, j - 1) = 0
                     /\ Count("LBRACE", i, j) = Count("RBRACE", i, j)
                     /\ \A n \in i..j : Count("LBRACE", i, n) >= Count("RBRACE", i, n)
<1>5. ASSUME NEW i \in 0..j - 1 PROVE Bal(i)' <=> Bal(i)
  <2>1. CASE i = 0
    BY <2>1
  <2>2. CASE i \in 1..j - 1
    <3>1. j \in i..j
      BY <2>2
    <3> QED BY <1>4, <2>2, <3>1
  <2> QED BY <2>1, <2>2
<1> DEFINE W(i) ==
        /\ out[j] \in {"EXPR_START", "FSTRING_END"} => j > 1 /\ out[j - 1] \in {"FSTRING_START", "FSTRING_PART"}
        /\ out[j] = "FSTRING_PART" => j > 1 /\ out[j - 1] = "EXPR_END"
        /\ out[j] = "EXPR_END" => Bal(i)
        /\ out[j] = "EOF" => /\ Count("FSTRING_START", 1, j) = Count("FSTRING_END", 1, j)
                             /\ Count("EXPR_START", 1, j) = Count("EXPR_END", 1, j)
<1>6. PICK o \in 0..j - 1 : o = Opening(j)
  BY <1>2
<1>7. (WellFormed(j) <=> W(o)) /\ (WellFormed(j)' <=> W(o)')
  BY <1>2, <1>6 DEF WellFormed
<1>8. Bal(o)' <=> Bal(o)
  BY <1>5
<1>9. W(o)' <=> W(o)
  <2> HIDE DEF Bal
  <2> QED BY <1>1, <1>3, <1>8
<1> QED BY <1>7, <1>9

----------------------------------------------------------------------------
(* F-strings. *)

OpenStrings(n) == Count("FSTRING_START", 1, n) - Count("FSTRING_END", 1, n)
OpenExprs(n) == Count("EXPR_START", 1, n) - Count("EXPR_END", 1, n)
OpenBraces(i, n) == Count("LBRACE", i, n) - Count("RBRACE", i, n)

LEMMA OpenSteps ==
  ASSUME NEW t, NEW N, Appends(t, N)
  PROVE  /\ OpenStrings(N) \in Int /\ OpenExprs(N) \in Int
         /\ OpenStrings(N + 1)' = OpenStrings(N) + (IF t = "FSTRING_START" THEN 1 ELSE IF t = "FSTRING_END" THEN -1 ELSE 0)
         /\ OpenExprs(N + 1)' = OpenExprs(N) + (IF t = "EXPR_START" THEN 1 ELSE IF t = "EXPR_END" THEN -1 ELSE 0)
<1>1. N \in Nat /\ 1 \in Nat /\ 1 \in 1..N + 1
  BY AppendsFacts
<1>2. \A kind : Count(kind, 1, N) \in Nat
  BY <1>1, CountFacts
<1>3. \A kind : Count(kind, 1, N + 1)' = Count(kind, 1, N) + (IF t = kind THEN 1 ELSE 0)
  BY <1>1, CountStep
<1> QED BY <1>2, <1>3 DEF OpenStrings, OpenExprs

LEMMA OpenBracesSteps ==
  ASSUME NEW t, NEW N, Appends(t, N), NEW i \in 1..N + 1
  PROVE  /\ OpenBraces(i, N) \in Int
         /\ OpenBraces(i, N + 1)' = OpenBraces(i, N) + (IF t = "LBRACE" THEN 1 ELSE IF t = "RBRACE" THEN -1 ELSE 0)
         /\ \A n \in i..N : OpenBraces(i, n)' = OpenBraces(i, n)
         /\ i = N + 1 => OpenBraces(i, N) = 0
<1>1. N \in Nat /\ i \in Nat \ {0}
  BY AppendsFacts
<1>2. \A kind : Count(kind, i, N) \in Nat /\ (N < i => Count(kind, i, N) = 0)
  BY <1>1, CountFacts
<1>3. \A kind : Count(kind, i, N + 1)' = Count(kind, i, N) + (IF t = kind THEN 1 ELSE 0)
  BY CountStep
<1>4. \A kind : \A n \in i..N : Count(kind, i, n)' = Count(kind, i, n)
  BY <1>1, SameCount
<1>5. \A n \in i..N : OpenBraces(i, n)' = OpenBraces(i, n)
  BY <1>4 DEF OpenBraces
<1>6. i = N + 1 => OpenBraces(i, N) = 0
  BY <1>1, <1>2 DEF OpenBraces
<1> QED BY <1>2, <1>3, <1>5, <1>6 DEF OpenBraces

(* Where a lexer v is that has returned n tokens without an error. *)
InText(n) == n >= 1 /\ out[n] \in {"FSTRING_START", "FSTRING_PART"}

InExpr(i, n, depth) ==
  /\ Count("EXPR_END", i, n) = 0
  /\ OpenBraces(i, n) = depth - 1
  /\ \A k \in i..n : OpenBraces(i, k) >= 0

Place(v, n) ==
  \/ /\ v.fstrState = "NONE" /\ v.fstrDepth = 0
     /\ OpenStrings(n) = 0 /\ OpenExprs(n) = 0
  \/ /\ EndIsDue(v) \/ StartIsDue(v)
     /\ OpenStrings(n) = 1 /\ OpenExprs(n) = 0 /\ InText(n)
  \/ /\ v.fstrState = "OUTER"
     /\ OpenStrings(n) = 1 /\ OpenExprs(n) = 0 /\ n >= 1 /\ out[n] = "EXPR_END"
  \/ /\ v.fstrState = "INNER" /\ v.fstrDepth >= 1
     /\ OpenStrings(n) = 1 /\ OpenExprs(n) = 1
     /\ \E i \in 1..n : i = Opening(n + 1) /\ InExpr(i, n, v.fstrDepth)

(* The last token is well-formed if the brackets that it closes are. *)
LEMMA NewWellFormed ==
  ASSUME NEW t, NEW N, Appends(t, N),
         t \in {"EXPR_START", "FSTRING_END"} => InText(N),
         t = "FSTRING_PART" => N >= 1 /\ out[N] = "EXPR_END",
         t = "EXPR_END" => \E i \in 1..N : i = Opening(N + 1) /\ InExpr(i, N, 1),
         t = "EOF" => OpenStrings(N) = 0 /\ OpenExprs(N) = 0
  PROVE  WellFormed(N + 1)'
<1>1. N \in Nat /\ out'[N + 1] = t /\ (N >= 1 => out'[N] = out[N]) /\ (N + 1) - 1 = N
  BY AppendsFacts
<1>2. t \in {"EXPR_START", "FSTRING_END"} => N + 1 > 1 /\ out'[(N + 1) - 1] \in {"FSTRING_START", "FSTRING_PART"}
  BY <1>1 DEF InText
<1>3. t = "FSTRING_PART" => N + 1 > 1 /\ out'[(N + 1) - 1] = "EXPR_END"
  BY <1>1
<1>4. t = "EOF" => /\ Count("FSTRING_START", 1, N + 1)' = Count("FSTRING_END", 1, N + 1)'
                   /\ Count("EXPR_START", 1, N + 1)' = Count("EXPR_END", 1, N + 1)'
  <2>1. 1 \in Nat /\ 1 \in 1..N + 1
    BY <1>1
  <2>2. \A kind : Count(kind, 1, N) \in Nat
    BY <1>1, <2>1, CountFacts
  <2>3. \A kind : Count(kind, 1, N + 1)' = Count(kind, 1, N) + (IF t = kind THEN 1 ELSE 0)
    BY <2>1, CountStep
  <2>4. t = "EOF" => \A kind \in {"FSTRING_START", "FSTRING_END", "EXPR_START", "EXPR_END"} :
                       Count(kind, 1, N + 1)' = Count(kind, 1, N)
    BY <2>2, <2>3
  <2>5. t = "EOF" => /\ Count("FSTRING_START", 1, N) = Count("FSTRING_END", 1, N)
                     /\ Count("EXPR_START", 1, N) = Count("EXPR_END", 1, N)
    <3>1. t = "EOF" => /\ Count("FSTRING_START", 1, N) - Count("FSTRING_END", 1, N) = 0
                       /\ Count("EXPR_START", 1, N) - Count("EXPR_END", 1, N) = 0
      BY DEF OpenStrings, OpenExprs
    <3> QED BY <2>2, <3>1
  <2> QED BY <2>4, <2>5
<1> DEFINE Bal(i) == /\ i > 0 /\ Count("EXPR_END", i, N)' = 0
                     /\ Count("LBRACE", i, N + 1)' = Count("RBRACE", i, N + 1)'
                     /\ \A n \in i..N + 1 : Count("LBRACE", i, n)' >= Count("RBRACE", i, n)'
<1>5. ASSUME t = "EXPR_END" PROVE \E o \in 1..N : o = Opening(N + 1)' /\ Bal(o)
  <2>1. PICK i \in 1..N : i = Opening(N + 1) /\ InExpr(i, N, 1)
    BY <1>5
  <2>2. i = Opening(N + 1)'
    BY <1>1, <2>1, SameOpening
  <2>3. Count("EXPR_END", i, N)' = 0
    BY <1>1, <2>1, SameCount DEF InExpr
  <2>4. i \in Nat /\ i \in 1..N + 1 /\ N + 1 \in Nat /\ N \in i..N
    BY <1>1, <2>1
  <2>5. \A kind : \A n \in Nat : Count(kind, i, n) \in Nat
    BY <2>4, CountFacts
  <2>6. Count("LBRACE", i, N + 1)' = Count("LBRACE", i, N) /\ Count("RBRACE", i, N + 1)' = Count("RBRACE", i, N)
    <3>1. \A kind : Count(kind, i, N + 1)' = Count(kind, i, N) + (IF t = kind THEN 1 ELSE 0)
      BY <2>4, CountStep
    <3> QED BY <1>1, <1>5, <2>5, <3>1
  <2>7. \A n \in i..N : /\ Count("LBRACE", i, n)' = Count("LBRACE", i, n)
                        /\ Count("RBRACE", i, n)' = Count("RBRACE", i, n)
                        /\ Count("LBRACE", i, n) >= Count("RBRACE", i, n)
    <3>1. \A n \in i..N : /\ Count("LBRACE", i, n)' = Count("LBRACE", i, n)
                          /\ Count("RBRACE", i, n)' = Count("RBRACE", i, n)
      BY <1>1, <2>4, SameCount
    <3>2. \A n \in i..N : n \in Nat /\ Count("LBRACE", i, n) - Count("RBRACE", i, n) >= 0
      BY <2>1, <2>4 DEF InExpr, OpenBraces
    <3>3. \A n \in i..N : Count("LBRACE", i, n) >= Count("RBRACE", i, n)
      BY <2>5, <3>2
    <3> QED BY <3>1, <3>3
  <2>8. Count("LBRACE", i, N) = Count("RBRACE", i, N)
    <3>1. Count("LBRACE", i, N) - Count("RBRACE", i, N) = 1 - 1
      BY <2>1 DEF InExpr, OpenBraces
    <3> QED BY <1>1, <2>5, <3>1
  <2>9. \A n \in i..N + 1 : Count("LBRACE", i, n)' >= Count("RBRACE", i, n)'
    <3>1. \A n \in i..N + 1 : n \in i..N \/ n = N + 1
      BY <2>4
    <3>2. Count("LBRACE", i, N + 1)' >= Count("RBRACE", i, N + 1)'
      BY <1>1, <2>5, <2>6, <2>8
    <3>3. \A n \in i..N : Count("LBRACE", i, n)' >= Count("RBRACE", i, n)'
      BY <2>7
    <3> QED BY <3>1, <3>2, <3>3
  <2> QED BY <2>1, <2>2, <2>3, <2>6, <2>8, <2>9
<1>6. PICK o : o = Opening(N + 1)'
  OBVIOUS
<1>7. t = "EXPR_END" => Bal(o)
  BY <1>5, <1>6
<1> DEFINE W(i) ==
        /\ out[N + 1] \in {"EXPR_START", "FSTRING_END"} =>
              N + 1 > 1 /\ out[(N + 1) - 1] \in {"FSTRING_START", "FSTRING_PART"}
        /\ out[N + 1] = "FSTRING_PART" => N + 1 > 1 /\ out[(N + 1) - 1] = "EXPR_END"
        /\ out[N + 1] = "EXPR_END" =>
              /\ i > 0 /\ Count("EXPR_END", i, (N + 1) - 1) = 0
              /\ Count("LBRACE", i, N + 1) = Count("RBRACE", i, N + 1)
              /\ \A n \in i..N + 1 : Count("LBRACE", i, n) >= Count("RBRACE", i, n)
        /\ out[N + 1] = "EOF" => /\ Count("FSTRING_START", 1, N + 1) = Count("FSTRING_END", 1, N + 1)
                                 /\ Count("EXPR_START", 1, N + 1) = Count("EXPR_END", 1, N + 1)
<1>8. WellFormed(N + 1)' <=> W(o)'
  BY <1>6 DEF WellFormed
<1>9. W(o)'
  BY <1>1, <1>2, <1>3, <1>4, <1>7
<1> QED BY <1>8, <1>9

LEMMA PlaceStep ==
  ASSUME NEW N, NEW v, NEW t, Appends(t.kind, N), v.fstrDepth \in Int,
         Place(v, N), Outcome(v, t), ~Rescans(v), t.kind # "ERROR",
         NEW w, w.fstrState = t.fstrState, w.fstrDepth = t.fstrDepth
  PROVE  Place(w, N + 1)' /\ WellFormed(N + 1)'
<1> DEFINE k == t.kind
<1>1. /\ N \in Nat /\ N + 1 >= 1 /\ out'[N + 1] = k /\ N + 1 \in 1..N + 1 /\ (N + 1) + 1 = N + 2
  BY AppendsFacts
<1>2. /\ OpenStrings(N) \in Int /\ OpenExprs(N) \in Int
      /\ OpenStrings(N + 1)' = OpenStrings(N) + (IF k = "FSTRING_START" THEN 1 ELSE IF k = "FSTRING_END" THEN -1 ELSE 0)
      /\ OpenExprs(N + 1)' = OpenExprs(N) + (IF k = "EXPR_START" THEN 1 ELSE IF k = "EXPR_END" THEN -1 ELSE 0)
  BY OpenSteps
<1>3. Opening(N + 2)' = IF k = "EXPR_START" THEN N + 1 ELSE Opening(N + 1)
  BY OpeningStep
<1>4. (\/ k \notin {"EXPR_START", "EXPR_END", "FSTRING_PART", "FSTRING_END", "EOF"}
       \/ k \in {"EXPR_START", "FSTRING_END"} /\ InText(N)
       \/ k = "FSTRING_PART" /\ N >= 1 /\ out[N] = "EXPR_END"
       \/ k = "EXPR_END" /\ \E i \in 1..N : i = Opening(N + 1) /\ InExpr(i, N, 1)
       \/ k = "EOF" /\ OpenStrings(N) = 0 /\ OpenExprs(N) = 0)
      => WellFormed(N + 1)'
  BY NewWellFormed
<1>5. CASE EndIsDue(v)
  <2>1. OpenStrings(N) = 1 /\ OpenExprs(N) = 0 /\ InText(N)
    BY <1>5 DEF Place, EndIsDue, EndPending
  <2>2. k = "FSTRING_END" /\ w.fstrState = "NONE" /\ w.fstrDepth = 0
    BY <1>5 DEF Outcome, EndIsDue, StartIsDue, Rescans
  <2> HIDE DEF k
  <2>3. OpenStrings(N + 1)' = 0 /\ OpenExprs(N + 1)' = 0
    BY <1>2, <2>1, <2>2
  <2> QED BY <1>4, <2>1, <2>2, <2>3 DEF Place
<1>6. CASE StartIsDue(v)
  <2>1. OpenStrings(N) = 1 /\ OpenExprs(N) = 0 /\ InText(N)
    BY <1>6 DEF Place, StartIsDue, StartPending
  <2>2. k = "EXPR_START" /\ w.fstrState = "INNER" /\ w.fstrDepth = 1
    BY <1>6 DEF Outcome, EndIsDue, StartIsDue, Rescans
  <2> HIDE DEF k
  <2>3. OpenStrings(N + 1)' = 1 /\ OpenExprs(N + 1)' = 1
    BY <1>2, <2>1, <2>2
  <2>4. Opening(N + 2)' = N + 1
    BY <1>3, <2>2
  <2>5. InExpr(N + 1, N + 1, 1)'
    <3>1. OpenBraces(N + 1, N) = 0 /\ OpenBraces(N + 1, N + 1)' = OpenBraces(N + 1, N)
      <4>1. /\ OpenBraces(N + 1, N) = 0 /\ OpenBraces(N + 1, N) \in Int
            /\ OpenBraces(N + 1, N + 1)'
                 = OpenBraces(N + 1, N) + (IF k = "LBRACE" THEN 1 ELSE IF k = "RBRACE" THEN -1 ELSE 0)
        BY <1>1, OpenBracesSteps DEF k
      <4> QED BY <2>2, <4>1
    <3>2. Count("EXPR_END", N + 1, N + 1)' = 0
      <4>1. Count("EXPR_END", N + 1, N) = 0
        BY <1>1, CountFacts
      <4>2. Count("EXPR_END", N + 1, N + 1)' = Count("EXPR_END", N + 1, N) + (IF k = "EXPR_END" THEN 1 ELSE 0)
        BY <1>1, CountStep DEF k
      <4> QED BY <2>2, <4>1, <4>2
    <3>3. \A n \in N + 1..N + 1 : n = N + 1
      BY <1>1
    <3> QED BY <3>1, <3>2, <3>3 DEF InExpr
  <2>6. \E i \in 1..N + 1 : i = Opening((N + 1) + 1)' /\ InExpr(i, N + 1, w.fstrDepth)'
    BY <1>1, <2>2, <2>4, <2>5
  <2> QED BY <1>4, <2>1, <2>2, <2>3, <2>6 DEF Place
<1>7. CASE v.fstrState = "OUTER"
  <2>1. OpenStrings(N) = 1 /\ OpenExprs(N) = 0 /\ N >= 1 /\ out[N] = "EXPR_END"
    BY <1>7 DEF Place, EndIsDue, StartIsDue
  <2>2. k = "FSTRING_PART" /\ (EndIsDue(w) \/ StartIsDue(w))
    BY <1>7 DEF Outcome, IsFragment, EndIsDue, StartIsDue, Rescans
  <2> HIDE DEF k
  <2>3. OpenStrings(N + 1)' = 1 /\ OpenExprs(N + 1)' = 0 /\ InText(N + 1)'
    BY <1>1, <1>2, <2>1, <2>2 DEF InText
  <2> QED BY <1>4, <2>1, <2>2, <2>3 DEF Place, EndIsDue, StartIsDue
<1>8. CASE v.fstrState = "NONE" /\ ~EndIsDue(v)
  <2>1. OpenStrings(N) = 0 /\ OpenExprs(N) = 0 /\ v.fstrDepth = 0
    BY <1>8 DEF Place, EndIsDue, StartIsDue
  <2>2. \/ k = "FSTRING_START" /\ (EndIsDue(w) \/ StartIsDue(w))
        \/ k \in PlainKinds \cup {"LBRACE", "RBRACE", "EOF"} /\ w.fstrState = "NONE" /\ w.fstrDepth = 0
    BY <1>8, <2>1 DEF Outcome, IsFragment, IsPlain, EndIsDue, StartIsDue, Rescans
  <2> HIDE DEF k
  <2>3. CASE k = "FSTRING_START"
    <3>1. OpenStrings(N + 1)' = 1 /\ OpenExprs(N + 1)' = 0 /\ InText(N + 1)'
      BY <1>1, <1>2, <2>1, <2>3 DEF InText
    <3>2. EndIsDue(w) \/ StartIsDue(w)
      BY <2>2, <2>3 DEF PlainKinds
    <3> QED BY <1>4, <2>3, <3>1, <3>2 DEF Place, EndIsDue, StartIsDue
  <2>4. CASE k # "FSTRING_START"
    <3>1. k \in PlainKinds \cup {"LBRACE", "RBRACE", "EOF"} /\ w.fstrState = "NONE" /\ w.fstrDepth = 0
      BY <2>2, <2>4
    <3>2. k \notin {"EXPR_START", "EXPR_END", "FSTRING_START", "FSTRING_PART", "FSTRING_END"}
      BY <3>1 DEF PlainKinds
    <3>3. OpenStrings(N + 1)' = 0 /\ OpenExprs(N + 1)' = 0
      BY <1>2, <2>1, <3>2
    <3> QED BY <1>4, <2>1, <3>1, <3>2, <3>3 DEF Place
  <2> QED BY <2>3, <2>4
<1>9. CASE v.fstrState = "INNER" /\ ~StartIsDue(v)
  <2>1. /\ v.fstrDepth >= 1 /\ OpenStrings(N) = 1 /\ OpenExprs(N) = 1
        /\ \E i \in 1..N : i = Opening(N + 1) /\ InExpr(i, N, v.fstrDepth)
    BY <1>9 DEF Place, EndIsDue, StartIsDue
  <2>2. PICK i \in 1..N : i = Opening(N + 1) /\ InExpr(i, N, v.fstrDepth)
    BY <2>1
  <2>3. InnerOutcome(v, t)
    BY <1>9 DEF Outcome, EndIsDue, StartIsDue
  <2>4. CASE k = "EXPR_END"
    <3>1. v.fstrDepth = 1 /\ w.fstrState = "OUTER"
      BY <2>3, <2>4 DEF InnerOutcome, PlainKinds
    <3> HIDE DEF k
    <3>2. OpenStrings(N + 1)' = 1 /\ OpenExprs(N + 1)' = 0
      BY <1>2, <2>1, <2>4
    <3> QED BY <1>1, <1>4, <2>2, <2>4, <3>1, <3>2 DEF Place
  <2>5. CASE k # "EXPR_END"
    <3>1. /\ k \in PlainKinds \cup {"LBRACE", "RBRACE"} /\ w.fstrState = "INNER" /\ w.fstrDepth >= 1
          /\ w.fstrDepth = v.fstrDepth + (IF k = "LBRACE" THEN 1 ELSE IF k = "RBRACE" THEN -1 ELSE 0)
      BY <2>1, <2>3, <2>5 DEF InnerOutcome, PlainKinds
    <3>2. k \notin {"EXPR_START", "EXPR_END", "FSTRING_START", "FSTRING_PART", "FSTRING_END", "EOF"}
      BY <3>1 DEF PlainKinds
    <3>3. OpenStrings(N + 1)' = 1 /\ OpenExprs(N + 1)' = 1 /\ Opening(N + 2)' = i
      BY <1>2, <1>3, <2>1, <2>2, <3>2
    <3>4. InExpr(i, N + 1, w.fstrDepth)'
      <4>1. i \in 1..N + 1 /\ N + 1 \in i..N + 1 /\ \A n \in i..N + 1 : n \in i..N \/ n = N + 1
        BY <1>1
      <4>2. Count("EXPR_END", i, N + 1)' = 0
        <5>1. Count("EXPR_END", i, N + 1)' = Count("EXPR_END", i, N) + (IF k = "EXPR_END" THEN 1 ELSE 0)
          BY <4>1, CountStep
        <5> HIDE DEF k
        <5> QED BY <2>2, <3>2, <5>1 DEF InExpr
      <4>3. /\ OpenBraces(i, N) \in Int
            /\ OpenBraces(i, N + 1)' = OpenBraces(i, N) + (IF k = "LBRACE" THEN 1 ELSE IF k = "RBRACE" THEN -1 ELSE 0)
            /\ \A n \in i..N : OpenBraces(i, n)' = OpenBraces(i, n)
        BY <4>1, OpenBracesSteps
      <4>4. OpenBraces(i, N) = v.fstrDepth - 1 /\ \A n \in i..N : OpenBraces(i, n) >= 0
        BY <2>2 DEF InExpr
      <4> HIDE DEF k
      <4>5. OpenBraces(i, N + 1)' = w.fstrDepth - 1
        BY <3>1, <4>3, <4>4
      <4>6. \A n \in i..N + 1 : OpenBraces(i, n)' >= 0
        <5>1. OpenBraces(i, N + 1)' >= 0
          BY <3>1, <4>3, <4>4, <4>5
        <5> QED BY <4>1, <4>3, <4>4, <5>1
      <4> QED BY <4>2, <4>5, <4>6 DEF InExpr
    <3>5. \E o \in 1..N + 1 : o = Opening((N + 1) + 1)' /\ InExpr(o, N + 1, w.fstrDepth)'
      BY <1>1, <3>3, <3>4
    <3> HIDE DEF k
    <3> QED BY <1>4, <3>1, <3>2, <3>3, <3>5 DEF Place
  <2> QED BY <2>4, <2>5
<1> QED BY <1>5, <1>6, <1>7, <1>8, <1>9 DEF Place, EndIsDue, StartIsDue

(* As long as the scanner is regular, it is in a place that the tokens tell. *)
NestInv == Regular => FStringsNest /\ Place(Visible, Len(out))

LEMMA NestStart == ASSUME Init PROVE NestInv
<1>1. out = <<>> /\ Len(out) = 0 /\ Visible.fstrState = "NONE" /\ Visible.fstrDepth = 0
  BY DEF Init, ScanInit, Visible
<1>2. \A kind : Count(kind, 1, Len(out)) = 0
  <2>1. 1 \in Nat /\ 0 \in Nat /\ 0 < 1
    OBVIOUS
  <2> QED BY <1>1, <2>1, CountFacts
<1>3. Place(Visible, Len(out))
  BY <1>1, <1>2 DEF Place, OpenStrings, OpenExprs
<1>4. FStringsNest
  BY <1>1 DEF FStringsNest
<1> QED BY <1>3, <1>4 DEF NestInv

LEMMA SameNest ==
  ASSUME NestInv, UNCHANGED <<src, Visible, out>>
  PROVE  NestInv'
<1>1. out' = out /\ Visible' = Visible
  OBVIOUS
<1>2. \A kind, i, j : Count(kind, i, j)' = Count(kind, i, j)
  BY <1>1 DEF Count
<1>3. \A j : Opening(j)' = Opening(j)
  BY <1>1 DEF Opening
<1>4. \A j : WellFormed(j)' <=> WellFormed(j)
  <2> SUFFICES ASSUME NEW j PROVE WellFormed(j)' <=> WellFormed(j)
    OBVIOUS
  <2>1. PICK o : o = Opening(j)
    OBVIOUS
  <2>2. o = Opening(j)'
    BY <1>3, <2>1
  <2> QED BY <1>1, <1>2, <2>1, <2>2 DEF WellFormed
<1>5. Place(Visible, Len(out))' <=> Place(Visible, Len(out))
  <2>1. PICK n, v, o : n = Len(out) /\ v = Visible /\ o = Opening(n + 1)
    OBVIOUS
  <2>2. Place(v, n)' <=> Place(v, n)
    <3>1. o = Opening(n + 1)'
      BY <1>3, <2>1
    <3> QED BY <1>1, <1>2, <2>1, <3>1 DEF Place, OpenStrings, OpenExprs, InText, InExpr, OpenBraces
  <2>3. n = Len(out)' /\ v = Visible'
    BY <1>1, <2>1
  <2> QED BY <2>1, <2>2, <2>3
<1>6. Regular' <=> Regular
  BY <1>1 DEF Regular
<1> QED BY <1>1, <1>4, <1>5, <1>6 DEF NestInv, FStringsNest

LEMMA NestStep ==
  ASSUME StateInv, NestInv, Seen
  PROVE  NestInv'
<1> SUFFICES ASSUME Regular'
             PROVE  FStringsNest' /\ Place(Visible, Len(out))'
  BY DEF NestInv
<1>1. PICK N, v, t, w : N = Len(out) /\ v = Visible /\ t = lexScan(Visible) /\ w = Visible'
  OBVIOUS
<1>2. Source /\ Sound(v) /\ out \in Seq(Kinds) /\ v.prevKind \in Kinds
  BY <1>1, VisibleFacts
<1>3. Outcome(v, t) /\ t.kind \in Kinds
  BY <1>1, <1>2, ScanFacts, BehindSound
<1>4. /\ Deliver(t.kind)
      /\ w.fstrState = t.fstrState /\ w.fstrDepth = t.fstrDepth
      /\ w.rescanned = (v.rescanned \/ Rescans(v))
  BY <1>1 DEF Seen, Behind
<1>5. \A j \in 1..Len(out) : out[j] = "ERROR" => ~Regular
  BY DEF Regular
<1>6. t.kind # "ERROR" /\ Appends(t.kind, N)
  <2>1. CASE t.kind = "ERROR" /\ Latest = "ERROR"
    <3>1. out' = out /\ Len(out) \in 1..Len(out) /\ out[Len(out)] = "ERROR"
      BY <1>2, <1>4, <2>1 DEF Deliver, Latest
    <3> QED BY <3>1 DEF Regular
  <2>2. CASE ~(t.kind = "ERROR" /\ Latest = "ERROR")
    <3>1. out' = Append(out, t.kind)
      BY <1>4, <2>2 DEF Deliver
    <3>2. Len(out') \in 1..Len(out') /\ out'[Len(out')] = t.kind
      BY <1>2, <1>3, <3>1
    <3>3. t.kind # "ERROR"
      BY <3>2 DEF Regular
    <3> QED BY <1>1, <1>2, <1>3, <3>1, <3>3 DEF Appends
  <2> QED BY <2>1, <2>2
<1>7. N \in Nat /\ Len(out') = N + 1 /\ \A j \in 1..N : out'[j] = out[j]
  BY <1>6, AppendsFacts
<1>8. Regular /\ ~Rescans(v)
  <2>1. ~v.rescanned /\ ~Rescans(v)
    BY <1>1, <1>4 DEF Regular
  <2>2. \A j \in 1..Len(out) : out[j] # "ERROR"
    <3> SUFFICES ASSUME NEW j \in 1..Len(out) PROVE out[j] # "ERROR"
      OBVIOUS
    <3>1. j \in 1..Len(out') /\ out'[j] = out[j]
      BY <1>1, <1>7
    <3> QED BY <3>1 DEF Regular
  <2> QED BY <1>1, <2>1, <2>2 DEF Regular
<1>9. Place(v, N) /\ \A j \in 1..N : WellFormed(j)
  BY <1>1, <1>8 DEF NestInv, FStringsNest
<1>10. Place(w, N + 1)' /\ WellFormed(N + 1)'
  <2>1. v.fstrDepth \in Int
    BY <1>2 DEF Sound, Lexers
  <2> QED BY <1>3, <1>4, <1>6, <1>8, <1>9, <2>1, PlaceStep
<1>11. \A j \in 1..N : WellFormed(j)'
  BY <1>6, <1>9, SameWellFormed
<1>12. \A j \in 1..N + 1 : WellFormed(j)'
  <2>1. \A j \in 1..N + 1 : j \in 1..N \/ j = N + 1
    BY <1>7
  <2>2. PICK M : M = N + 1
    OBVIOUS
  <2> QED BY <1>10, <1>11, <2>1, <2>2
<1>13. FStringsNest'
  BY <1>7, <1>12 DEF FStringsNest
<1>14. PICK M : M = N + 1
  OBVIOUS
<1>15. Place(w, M)'
  BY <1>10, <1>14
<1>16. M = Len(out)' /\ w = Visible'
  BY <1>1, <1>7, <1>14
<1> QED BY <1>13, <1>15, <1>16

(* The lexer's state is sound in every state, and as long as it has met no *)
(* error and passed no line end inside an expression, the tokens of        *)
(* f-strings nest: fragments and expressions alternate, an expression ends *)
(* at the brace that matches its first one, however many maps are in it,   *)
(* and the source does not end inside (lexScan, fstrDepth).                *)
THEOREM FStringsAlwaysNest == Spec => []Inv
<1>1. Init => NestInv
  BY NestStart
<1>2. StateInv /\ NestInv /\ [Next]_vars => NestInv'
  BY StateStep, NestStep, SameNest
<1>3. StateInv /\ NestInv => Inv
  BY DEF StateInv, NestInv, Inv, FStringsNest
<1> QED BY StateInvariance, <1>1, <1>2, <1>3, PTL DEF Spec

=============================================================================

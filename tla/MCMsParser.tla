----------------------------- MODULE MCMsParser -----------------------------
(* TLC instance of MsParser: a statement of each kind, between two others,  *)
(* as it is and with one token replaced, dropped or put in; or cut off at   *)
(* an f-string that does not end, from where on the lexer gives errors. *)
EXTENDS MsParser, TLC

x == "IDENT"
NL == "NEWLINE"
Blk == <<"{", x, ";", "}">>

Statements == {
  <<x, "=", x, "+", "-", "INT", "**", x, ";">>,
  <<x, "+=", x, "[", "INT", ":", x, "]", ";">>,
  <<x, ":=", "[", x, ",", "INT", "]", ";">>,
  <<"(", x, ",", x, ")", ".", x, "++", ";">>,
  <<x, "(", x, ",", "*", x, ",", x, "=", x, ")", ";">>,
  <<"{", x, ":", x, ",", x, ":", x, "}", ";">>,
  <<"{", x, ",", x, "}", ";">>,
  <<x, "is", "not", x, "not", "in", x, ";">>,
  <<x, "if", "not", x, "else", x, "[", x, "]", ";">>,
  <<"var", x, "=", "<-", x, ";">>,
  <<x, "=", "func", "(", x, ",", x, "=", x, ",", "...", x, ",", "**", x, ")">> \o Blk \o <<";">>,
  <<"async", "func", "(", ")">> \o Blk \o <<";">>,
  <<"async", "func", x, "(", ")">> \o Blk \o <<NL>>,
  <<"func", x, "(", x, ")", "{", NL, "return", x, NL, "}", NL>>,
  <<"if", x>> \o Blk \o <<"else", "if", x>> \o Blk \o <<"else">> \o Blk \o <<NL>>,
  <<"for">> \o Blk \o <<NL>>,
  <<"for", x, ",", x, "in", x>> \o Blk \o <<NL>>,
  <<"for", x, ":=", x, ";", x, ";", x, "++">> \o Blk \o <<NL>>,
  <<"for", x, "{", "continue", NL, "break", NL, "}", NL>>,
  <<"switch", x, "{", NL, "case", x, ",", x, ":", "fallthrough", NL, "default", ":", NL, "pass", NL, "}", NL>>,
  <<"try">> \o Blk \o <<"catch", "(", x, ":", x, ",", x, ")">> \o Blk \o <<NL, "finally">> \o Blk \o <<NL>>,
  <<"raise", x, ";", "go", x, "(", ")", ";">>,
  <<"select", "{", "case", "<-", x, ":", NL, "case", x, ":=", x, ":", x, ";", "default", ":", NL, "}", NL>>,
  <<"with", "make", "(", "chan", ",", "INT", ")", "as", x>> \o Blk \o <<NL>>,
  <<"import", x, ".", x, "as", x, NL>>,
  <<"class", x, "extends", x, "{", NL, "func", x, "(", ")">> \o Blk \o <<NL, "}", NL>>,
  <<"del", x, ";", "assert", x, ",", x, ";">> }

Wrong == {")", "}", "{", ":", ",", ";", "=", "+", "if", "ERROR", x}
Before == <<x, ";">>
After == <<x, NL, "EOF">>

Correct(s) ==
  [toks |-> Before \o s \o After, bad |-> 0, starts |-> {1, 3, 3 + Len(s)}]
Broken(s, i, t) ==
  [toks |-> Before \o t \o After, bad |-> 2 + i, starts |-> {1}]

Endless(s, i) ==
  [toks |-> Before \o SubSeq(s, 1, i - 1) \o <<"ERROR">>, bad |-> 2 + i, starts |-> {1}]

AllSources ==
  {Correct(s) : s \in Statements} \cup
  UNION {{Broken(s, i, ReplaceAt(s, i, k)) : i \in 1..Len(s), k \in Wrong} : s \in Statements} \cup
  UNION {{Broken(s, i, InsertAt(s, i, k)) : i \in 1..Len(s), k \in Wrong} : s \in Statements} \cup
  UNION {{Broken(s, i, RemoveAt(s, i)) : i \in 1..Len(s)} : s \in Statements} \cup
  UNION {{Endless(s, i) : i \in 1..Len(s)} : s \in Statements}
=============================================================================

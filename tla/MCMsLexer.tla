------------------------------ MODULE MCMsLexer ------------------------------
(* TLC instance of MsLexer: all short sources over every kind of character, *)
(* and longer ones that begin inside the expression of an f-string. *)
EXTENDS MsLexer, SequencesExt

Opened == <<"dollar", "quote", "open">>
InExpression == {"word", "operator", "newline", "open", "close", "quote"}

SmallSources == BoundedSeq(Chars, 4) \cup {Opened \o s : s \in BoundedSeq(InExpression, 4)}
TinySources == BoundedSeq({"word", "newline", "dollar", "quote"}, 3)
===============================================================================

------------------------------- MODULE MCMsCall -------------------------------
(* TLC instance of MsCall. *)
EXTENDS MsCall

CONSTANTS a, b, c

Plain(names) == [names |-> names, arity |-> Len(names), hasVararg |-> FALSE, hasKwarg |-> FALSE]

ParameterLists == {
  Plain(<<a>>), Plain(<<a, b>>), Plain(<<a, b, c>>),
  [names |-> <<a, b>>, arity |-> 0, hasVararg |-> FALSE, hasKwarg |-> FALSE],
  [names |-> <<a>>, arity |-> 1, hasVararg |-> TRUE, hasKwarg |-> FALSE],
  [names |-> <<a>>, arity |-> 0, hasVararg |-> FALSE, hasKwarg |-> TRUE]}

(* What instructions push: a list with a nil and maps to call with, too. *)
Literals == {Nil, Class, Instance, List(<<Class, Class, Nil, Instance>>), Map([n \in {b} |-> Class]), Map([n \in {a, b} |-> Nil])}
===============================================================================

----------------------------- MODULE MsCallables -----------------------------
(***************************************************************************)
(* The values that calls of mslang functions are about, as MsActivations   *)
(* and MsCall share them.  The program has one function with parameters,   *)
(* one class and one instance of it: Fn stands for every closure made from *)
(* the function, Instance for every instance.  If the function can be a    *)
(* method, it may be found for any name that is looked up in the class.    *)
(***************************************************************************)
EXTENDS Integers, Sequences, SequencesExt, Functions

CONSTANTS
  Nil, Fn, Class, Instance,  \* nil; the closure; the class; an instance
  Others,                    \* other values that hold no values
  Names,                     \* names of parameters and of keywords
  Signatures                 \* the parameter lists that the function may have

Scalars == {Nil, Fn, Class, Instance} \cup Others

(* Lists and maps hold scalars only: a bound on the nesting of data. *)
List(items) == [items |-> items]
Map(entries) == [entries |-> entries]
Method(self) == [self |-> self]

Keywords == UNION {[D -> Scalars] : D \in SUBSET Names}
NoKeywords == [n \in {} |-> Nil]

IsList(v) == v \notin Scalars /\ "items" \in DOMAIN v
IsMap(v) == v \notin Scalars /\ "entries" \in DOMAIN v
IsMethod(v) == v \notin Scalars /\ "self" \in DOMAIN v

(* A value, whatever it is, holds no other data than these.                 *)
IsValue(v) == /\ IsList(v) => v.items \in Seq(Scalars)
              /\ IsMap(v) => v.entries \in Keywords
              /\ IsMethod(v) => v.self = Instance

(* What the compiler puts into MsFuncProto: the first arity parameters have *)
(* no default, the others have one; methods have plain parameters.         *)
arityMax(p) == Len(p.names)
defaultCount(p) == arityMax(p) - p.arity
IsPlain(p) == defaultCount(p) = 0 /\ ~p.hasVararg /\ ~p.hasKwarg
ParamCount(p) == arityMax(p) + (IF p.hasVararg THEN 1 ELSE 0) + (IF p.hasKwarg THEN 1 ELSE 0)

ASSUME CallablesAssumption ==
  /\ Signatures \subseteq [names : Seq(Names), arity : Nat, hasVararg : BOOLEAN, hasKwarg : BOOLEAN]
  /\ \A p \in Signatures : p.arity <= arityMax(p) /\ IsInjective(p.names)
===============================================================================

---------------------------- MODULE MCMsUpvalue ----------------------------
(* TLC instance of MsUpvalue: names of variables are numbers, so that the  *)
(* choice of a fresh one is the same for equal states. *)
EXTENDS MsUpvalue, TLC

CellNames == 1..MaxSlots + Cardinality(Upvalues) + 1
Interchangeable == Permutations(Upvalues) \cup Permutations(Closures)
=============================================================================

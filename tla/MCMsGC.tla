------------------------------- MODULE MCMsGC -------------------------------
(* TLC instance of MsGC: addresses are interchangeable model values. *)
EXTENDS MsGC, TLC

ObjectSymmetry == Permutations(Objects)
=============================================================================

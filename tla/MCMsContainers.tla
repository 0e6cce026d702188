---------------------------- MODULE MCMsContainers ----------------------------
(***************************************************************************)
(* TLC instances of the container types.  A behaviour is about one of      *)
(* them: a map, two sets, two lists, or a slice or a range.                *)
(*                                                                         *)
(* The hashes collide, with each other and, in the small table, at its     *)
(* last slot, so that probes wrap around.                                  *)
(***************************************************************************)
EXTENDS MsMap, TLC

CONSTANTS k1, k2, k3, v1, v2, o1, o2, SetNever, SetTombstone, Junk

VARIABLES part,
          heap, frozen,          \* MsSet
          lists, iter, due,      \* MsList
          arg, cur, n            \* MsSlice

Hashes == (k1 :> 3) @@ (k2 :> 3) @@ (k3 :> 7) @@ (Nil :> 0)

Sets == INSTANCE MsSet WITH
  Items <- {k1, k2, k3}, HashOf <- (k1 :> 3) @@ (k2 :> 3) @@ (k3 :> 7),
  Never <- SetNever, Tombstone <- SetTombstone, Objs <- {o1, o2}, MaxCap <- 8

Lists == INSTANCE MsList WITH Items <- {0, 1, 2}, Nil <- 0, Objs <- {o1, o2},
  FirstCap <- 2, MaxLen <- 3, MaxPair <- 3, Looped <- {o1}

Slices == INSTANCE MsSlice WITH Width <- 4, MaxLen <- 4, Extremes <- FALSE

ASSUME Sets!SetAssumption /\ Lists!ListAssumption /\ Slices!SliceAssumption

setVars == <<heap, frozen>>
listVars == <<lists, iter, due>>
sliceVars == <<arg, cur, n>>

IdleSlice == arg = [start |-> 0, stop |-> 0, step |-> 1] /\ cur = 0 /\ n = 0
IdleMap == /\ Init /\ cap = MinCap

PartInit ==
  \/ part = "map" /\ Init /\ Sets!Init /\ Lists!Init /\ IdleSlice
  \/ part = "sets" /\ IdleMap /\ Sets!Init /\ Lists!Init /\ IdleSlice
  \/ part = "lists" /\ IdleMap /\ Sets!Init /\ Lists!Init /\ IdleSlice
  \/ part = "slices" /\ IdleMap /\ Sets!Init /\ Lists!Init /\ Slices!Init

PartNext ==
  /\ part' = part
  /\ \/ part = "map" /\ Next /\ UNCHANGED <<setVars, listVars, sliceVars>>
     \/ part = "sets" /\ Sets!Next /\ UNCHANGED <<vars, listVars, sliceVars>>
     \/ part = "lists" /\ Lists!Next /\ UNCHANGED <<vars, setVars, sliceVars>>
     \/ part = "slices" /\ Slices!Next /\ UNCHANGED <<vars, setVars, listVars>>
     \/ part = "slices" /\ UNCHANGED <<vars, setVars, listVars, sliceVars>>   \* its loop may be over

PartSpec == /\ PartInit /\ [][PartNext]_<<part, vars, setVars, listVars, sliceVars>>
            /\ WF_vars(part = "map" /\ Loops)

(* The properties of MsSet. *)
TablesSound == part = "sets" => Sets!TablesSound
AlgebraExact == part = "sets" => Sets!AlgebraExact
EqualHashEqual == part = "sets" => Sets!EqualHashEqual
ImplementsSets == Sets!ImplementsSets

(* The properties of MsList. *)
LoopsInOrder == part = "lists" => Lists!LoopsInOrder
ImplementsSeqs == Lists!ImplementsSeqs

(* The properties of MsSlice. *)
SlicesExact == Slices!SlicesExact
RangesExact == Slices!RangesExact
===============================================================================

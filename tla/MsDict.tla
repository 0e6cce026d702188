-------------------------------- MODULE MsDict --------------------------------
(***************************************************************************)
(* What a mslang map promises: it is a finite function from keys to        *)
(* values.  MsMap, the open-addressing table of src/runtime/ms_map.c,      *)
(* implements it.                                                          *)
(***************************************************************************)
CONSTANTS Keys, Values, Absent

VARIABLE dict

Init == dict = [k \in Keys |-> Absent]

Put(k, v) == dict' = [dict EXCEPT ![k] = v]
Remove(k) == dict' = [dict EXCEPT ![k] = Absent]
Clear == dict' = [k \in Keys |-> Absent]

Next == \/ \E k \in Keys : Remove(k) \/ \E v \in Values : Put(k, v)
        \/ Clear

Spec == Init /\ [][Next]_dict
===============================================================================

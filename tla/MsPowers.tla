------------------------------- MODULE MsPowers -------------------------------
(* Capacities that are doubled until they are large enough: of the hash     *)
(* tables (roundUpPow2 in src/runtime/ms_map.c) and of the lists            *)
(* (listEnsureCap in src/runtime/ms_list.c). *)
EXTENDS Integers

(* A power of two has no odd divisor but one. *)
PowerOfTwo(n) == \A d \in 2..n : n % d = 0 => d % 2 = 0
===============================================================================

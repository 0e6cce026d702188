------------------------------- MODULE MsHeap -------------------------------
(***************************************************************************)
(* What the collector of mslang promises the rest of the program: a heap   *)
(* in which the program can build any graph out of what it can reach, and  *)
(* from which only unreachable objects disappear.  MsGC, the model of      *)
(* src/gc/ms_gc.c, is shown to implement this specification.               *)
(***************************************************************************)
CONSTANT Objects    \* addresses of heap objects (struct MsObject *)

VARIABLES mem,      \* the objects whose memory is allocated
          edges,    \* edges[o]: the objects that o's traverse slot visits
          rootset   \* what the program holds directly

hvars == <<mem, edges, rootset>>

(***************************************************************************)
(* The objects every root-containing, edge-closed set contains: the least  *)
(* such set.                                                               *)
(***************************************************************************)
Closed(S, e) == \A o \in S : e[o] \subseteq S

ReachFrom(rs, e) ==
  {o \in Objects :
     \A S \in SUBSET Objects : rs \subseteq S /\ Closed(S, e) => o \in S}

Reach == ReachFrom(rootset, edges)

TypeOK == /\ mem \subseteq Objects
          /\ edges \in [Objects -> SUBSET Objects]
          /\ rootset \subseteq Objects

Init == /\ TypeOK
        /\ rootset \subseteq mem
        /\ Closed(mem, edges)

(***************************************************************************)
(* The program rearranges roots and references; it cannot conjure up an    *)
(* object that it could not already reach.                                 *)
(***************************************************************************)
Mutate == /\ mem' = mem
          /\ edges' \in [Objects -> SUBSET Objects]
          /\ rootset' \in SUBSET Objects
          /\ Reach' \subseteq Reach

(***************************************************************************)
(* A fresh address comes into use; nothing else becomes reachable.         *)
(***************************************************************************)
New(o) == /\ o \notin mem
          /\ mem' = mem \cup {o}
          /\ edges' \in [Objects -> SUBSET Objects]
          /\ rootset' \in SUBSET Objects
          /\ Reach' \subseteq Reach \cup {o}

(***************************************************************************)
(* Memory is given back, for an object nobody can reach; what it and other *)
(* unreachable objects refer to no longer matters.                         *)
(***************************************************************************)
Free(o) == /\ o \in mem \ Reach
           /\ mem' = mem \ {o}
           /\ edges' \in [Objects -> SUBSET Objects]
           /\ \A p \in Reach : edges'[p] = edges[p]
           /\ rootset' = rootset

Next == \/ Mutate
        \/ \E o \in Objects : New(o) \/ Free(o)

Spec == Init /\ [][Next]_hvars

=============================================================================

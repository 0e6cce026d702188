---------------------------- MODULE MsVariables ----------------------------
(***************************************************************************)
(* What closures promise to a mslang program: a variable is a cell of its  *)
(* own.  It comes into being, is read and assigned by the code in whose    *)
(* scope it is and by every closure that captured it, and keeps its value  *)
(* for those closures after its scope has ended.  There is no stack slot   *)
(* to be reused and no upvalue to be closed.  MsUpvalue implements this.   *)
(***************************************************************************)
EXTENDS Naturals, Sequences

CONSTANTS Cells, Values, Nil, Closures

VARIABLES scope,     \* the variables and temporaries in scope, innermost last
          value,     \* value[c]: the value of cell c
          captures   \* captures[k]: the variables that closure k captured

avars == <<scope, value, captures>>

InScope == {scope[n] : n \in 1..Len(scope)}
Captured(k) == {captures[k][n] : n \in 1..Len(captures[k])}
Live == InScope \cup UNION {Captured(k) : k \in Closures}

(* What was live and still is keeps its value; other cells may hold        *)
(* anything. *)
KeepsLive == \A c \in Live : c \in Live' => value'[c] = value[c]

Init == /\ scope = <<>>
        /\ value \in [Cells -> Values]
        /\ captures = [k \in Closures |-> <<>>]

(* A variable that nothing else refers to comes into scope. *)
Enter(c, v) == /\ scope' = Append(scope, c)
               /\ captures' = captures
               /\ c \notin Live
               /\ value' \in [Cells -> Values]
               /\ value'[c] = v /\ KeepsLive

(* Assignment changes this variable, for everybody, and no other one. *)
Assign(c, v) == /\ UNCHANGED <<scope, captures>>
                /\ c \in Live
                /\ value' \in [Cells -> Values]
                /\ value'[c] = v
                /\ \A d \in Live \ {c} : value'[d] = value[d]

(* The scope of all but the first n variables ends. *)
Leave(n) == /\ scope' = SubSeq(scope, 1, n)
            /\ captures' = captures
            /\ value' \in [Cells -> Values] /\ KeepsLive

(* A call returns the value of the innermost variable, or nil, to the      *)
(* scope of its caller, as a new variable. *)
Return(n, c) == /\ n < Len(scope)
                /\ scope' = Append(SubSeq(scope, 1, n), c)
                /\ captures' = captures
                /\ c \notin Live
                /\ value' \in [Cells -> Values]
                /\ value'[c] \in {value[scope[Len(scope)]], Nil} /\ KeepsLive

Capture(k, c) == /\ scope' = scope
                 /\ captures' = [captures EXCEPT ![k] = Append(@, c)]
                 /\ c \in Live
                 /\ value' \in [Cells -> Values] /\ KeepsLive

(* Nothing refers to closure k any more. *)
Forget(k) == /\ scope' = scope
             /\ captures' = [captures EXCEPT ![k] = <<>>]
             /\ value' \in [Cells -> Values] /\ KeepsLive

Next == \/ \E c \in Cells, v \in Values : Enter(c, v) \/ Assign(c, v)
        \/ \E n \in 0..Len(scope) : Leave(n) \/ \E c \in Cells : Return(n, c)
        \/ \E k \in Closures : Forget(k) \/ \E c \in Cells : Capture(k, c)

Spec == Init /\ [][Next]_avars

=============================================================================

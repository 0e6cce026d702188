--------------------------- MODULE MsUpvalueProofs ---------------------------
(***************************************************************************)
(* Proofs about MsUpvalue, for any stack, any numbers of upvalues and      *)
(* closures and any depth of calls: the inductive invariant, that no       *)
(* closure's variable dangles, that a run that failed leaves nothing in    *)
(* the list of the next one, and that variables behave as cells of their   *)
(* own.  That no closure captures the variable of a for-in loop is assumed *)
(* where it is needed: with one, TLC refutes NoDangling.                   *)
(***************************************************************************)
EXTENDS MsUpvalue, MsNumbers, SequenceTheorems

----------------------------------------------------------------------------
(* Sequences. *)

LEMMA AppendFacts ==
  ASSUME NEW S, NEW q \in Seq(S), NEW x \in S
  PROVE  /\ Append(q, x) \in Seq(S) /\ Len(Append(q, x)) = Len(q) + 1
         /\ \A n \in 1..Len(q) : Append(q, x)[n] = q[n]
         /\ Append(q, x)[Len(q) + 1] = x
  OBVIOUS

LEMMA PrefixFacts ==
  ASSUME NEW S, NEW q \in Seq(S), NEW n \in 0..Len(q)
  PROVE  /\ SubSeq(q, 1, n) \in Seq(S) /\ Len(SubSeq(q, 1, n)) = n
         /\ \A j \in 1..n : SubSeq(q, 1, n)[j] = q[j]
<1>1. \A j \in 1..n : q[j] \in S
  OBVIOUS
<1> QED BY <1>1, SubSeqProperties

LEMMA SuffixFacts ==
  ASSUME NEW S, NEW q \in Seq(S), NEW n \in 0..Len(q)
  PROVE  LET r == SubSeq(q, n + 1, Len(q)) IN
         /\ r \in Seq(S) /\ Len(r) = Len(q) - n
         /\ \A j \in 1..Len(r) : r[j] = q[n + j]
<1>1. \A j \in n + 1..Len(q) : q[j] \in S
  OBVIOUS
<1> QED BY <1>1, SubSeqProperties

----------------------------------------------------------------------------
(* The searches through the list of open upvalues. *)

Sorted == \A j, k \in 1..Len(openUpvalues) :
            j < k => location[openUpvalues[j]] > location[openUpvalues[k]]

(* In a sorted list, the entries for slots from a bound on come first. *)
LEMMA SplitPoint ==
  ASSUME TypeOK, Sorted, NEW bound \in Nat
  PROVE  \E n \in 0..Len(openUpvalues) :
           /\ \A j \in 1..n : location[openUpvalues[j]] >= bound
           /\ \A j \in n + 1..Len(openUpvalues) : location[openUpvalues[j]] < bound
<1> DEFINE L == Len(openUpvalues)
           T == {j \in 1..L : location[openUpvalues[j]] < bound}
<1>1. /\ L \in Nat
      /\ \A j \in 1..L : location[openUpvalues[j]] \in Nat
  BY DEF TypeOK, Slots, Closed
<1>2. CASE T = {}
  <2>1. L \in 0..L /\ \A j \in 1..L : location[openUpvalues[j]] >= bound
    BY <1>1, <1>2
  <2> QED BY <1>1, <2>1
<1>3. CASE T # {}
  <2>1. PICK m \in T : \A k \in T : m <= k
    <3> T \in SUBSET Nat
      BY <1>1
    <3> HIDE DEF T
    <3> QED BY <1>3, LeastNumber
  <2>2. m - 1 \in 0..L
    BY <1>1, <2>1
  <2>3. \A j \in 1..m - 1 : location[openUpvalues[j]] >= bound
    BY <1>1, <2>1
  <2>4. \A j \in m - 1 + 1..L : location[openUpvalues[j]] < bound
    BY SMTT(30), <1>1, <2>1 DEF Sorted
  <2> QED BY <2>2, <2>3, <2>4
<1> QED BY <1>2, <1>3

(* msCloseUpvalues finds that place. *)
LEMMA ClosingFacts ==
  ASSUME TypeOK, Sorted, NEW slot \in Nat
  PROVE  /\ Closing(slot) \in 0..Len(openUpvalues)
         /\ \A j \in 1..Closing(slot) : location[openUpvalues[j]] >= slot
         /\ \A j \in Closing(slot) + 1..Len(openUpvalues) : location[openUpvalues[j]] < slot
<1> DEFINE L == Len(openUpvalues)
           P(n) == /\ \A j \in 1..n : location[openUpvalues[j]] >= slot
                   /\ n < L => location[openUpvalues[n + 1]] < slot
<1>1. /\ L \in Nat
      /\ \A j \in 1..L : location[openUpvalues[j]] \in Nat
  BY DEF TypeOK, Slots, Closed
<1>2. \E n \in 0..L : P(n)
  <2>1. PICK n \in 0..L :
           /\ \A j \in 1..n : location[openUpvalues[j]] >= slot
           /\ \A j \in n + 1..L : location[openUpvalues[j]] < slot
    BY SplitPoint
  <2>2. n < L => n + 1 \in n + 1..L
    BY <1>1
  <2> QED BY <2>1, <2>2
<1>3. Closing(slot) \in 0..L /\ P(Closing(slot))
  <2>1. Closing(slot) = CHOOSE n \in 0..L : P(n)
    BY DEF Closing
  <2> HIDE DEF P
  <2> QED BY <1>2, <2>1
<1>4. ASSUME NEW j \in Closing(slot) + 1..L PROVE location[openUpvalues[j]] < slot
  BY <1>1, <1>3 DEF Sorted
<1> QED BY <1>3, <1>4

(* So does msCaptureUpvalue, which goes past the slot's own upvalue only.  *)
LEMMA AheadFacts ==
  ASSUME TypeOK, Sorted, NEW slot \in Slots
  PROVE  /\ Ahead(slot) \in 0..Len(openUpvalues)
         /\ \A j \in 1..Ahead(slot) : location[openUpvalues[j]] > slot
         /\ \A j \in Ahead(slot) + 1..Len(openUpvalues) : location[openUpvalues[j]] <= slot
<1> DEFINE L == Len(openUpvalues)
           P(n) == /\ \A j \in 1..n : location[openUpvalues[j]] > slot
                   /\ n < L => ~(location[openUpvalues[n + 1]] > slot)
<1>1. /\ L \in Nat /\ slot \in Nat /\ slot + 1 \in Nat
      /\ \A j \in 1..L : location[openUpvalues[j]] \in Nat
  BY UpvalueAssumption DEF TypeOK, Slots, Closed
<1>2. \E n \in 0..L : P(n)
  <2>1. PICK n \in 0..L :
           /\ \A j \in 1..n : location[openUpvalues[j]] >= slot + 1
           /\ \A j \in n + 1..L : location[openUpvalues[j]] < slot + 1
    BY <1>1, SplitPoint
  <2>2. n < L => n + 1 \in n + 1..L /\ n + 1 \in 1..L
    BY <1>1
  <2>3. \A j \in 1..n : j \in 1..L
    BY <1>1
  <2> QED BY <1>1, <2>1, <2>2, <2>3
<1>3. Ahead(slot) \in 0..L /\ P(Ahead(slot))
  <2>1. Ahead(slot) = CHOOSE n \in 0..L : P(n)
    BY DEF Ahead
  <2> HIDE DEF P
  <2> QED BY <1>2, <2>1
<1>4. ASSUME NEW j \in Ahead(slot) + 1..L PROVE location[openUpvalues[j]] <= slot
  <2> DEFINE n == Ahead(slot)
  <2>1. n \in Nat /\ n < L /\ n + 1 \in 1..L /\ j \in 1..L
    BY <1>1, <1>3
  <2>2. location[openUpvalues[n + 1]] <= slot
    BY <1>1, <1>3, <2>1
  <2>3. j = n + 1 \/ location[openUpvalues[n + 1]] > location[openUpvalues[j]]
    BY <2>1 DEF Sorted
  <2> QED BY <1>1, <2>1, <2>2, <2>3
<1> QED BY <1>3, <1>4

----------------------------------------------------------------------------
(* What the operations on the list do to it. *)

Open == Elements(openUpvalues)

LEMMA OpenIsTyped ==
  ASSUME TypeOK
  PROVE  Open \subseteq Upvalues
  BY DEF TypeOK, Open, Elements

(* Closing at a slot closes the upvalues for that slot and those above. *)
LEMMA CloseEffect ==
  ASSUME TypeOK, Sorted, NEW slot \in Nat, msCloseUpvalues(slot)
  PROVE  /\ openUpvalues' \in Seq(Upvalues) /\ Sorted'
         /\ Open' = {u \in Open : location[u] < slot}
         /\ location' = [u \in Upvalues |-> IF u \in Open /\ location[u] >= slot
                                             THEN Closed ELSE location[u]]
         /\ closedVal' = [u \in Upvalues |-> IF u \in Open /\ location[u] >= slot
                                              THEN stack[location[u]] ELSE closedVal[u]]
<1> DEFINE L == Len(openUpvalues)
           n == Closing(slot)
           closing == {openUpvalues[j] : j \in 1..n}
<1>1. /\ L \in Nat /\ openUpvalues \in [1..L -> Upvalues]
      /\ \A u \in Upvalues : location[u] \in Nat
  BY UpvalueAssumption DEF TypeOK, Slots, Closed
<1>2. /\ n \in 0..L
      /\ \A j \in 1..n : location[openUpvalues[j]] >= slot
      /\ \A j \in n + 1..L : location[openUpvalues[j]] < slot
  BY ClosingFacts
<1>3. closing = {u \in Open : location[u] >= slot}
  <2>1. ASSUME NEW u \in closing PROVE u \in Open /\ location[u] >= slot
    BY <1>1, <1>2 DEF Open, Elements
  <2>2. ASSUME NEW u \in Open, location[u] >= slot PROVE u \in closing
    <3>1. PICK j \in 1..L : u = openUpvalues[j]
      BY DEF Open, Elements
    <3>2. j \in 1..n
      BY <1>1, <1>2, <2>2, <3>1
    <3> QED BY <3>1, <3>2
  <2> QED BY <2>1, <2>2
<1>4. /\ location' = [u \in Upvalues |-> IF u \in closing THEN Closed ELSE location[u]]
      /\ closedVal' = [u \in Upvalues |-> IF u \in closing THEN stack[location[u]]
                                          ELSE closedVal[u]]
      /\ openUpvalues' = SubSeq(openUpvalues, n + 1, L)
  BY DEF msCloseUpvalues
<1>5. /\ openUpvalues' \in Seq(Upvalues) /\ Len(openUpvalues') = L - n
      /\ \A j \in 1..L - n : openUpvalues'[j] = openUpvalues[n + j]
  BY <1>2, <1>4, SuffixFacts DEF TypeOK
<1>6. Open' = {u \in Open : location[u] < slot}
  <2>1. ASSUME NEW u \in Open' PROVE u \in Open /\ location[u] < slot
    <3>1. PICK j \in 1..L - n : u = openUpvalues'[j]
      BY <1>5 DEF Open, Elements
    <3>2. n + j \in n + 1..L /\ n + j \in 1..L /\ u = openUpvalues[n + j]
      BY <1>1, <1>2, <1>5, <3>1
    <3> QED BY <1>2, <3>2 DEF Open, Elements
  <2>2. ASSUME NEW u \in Open, location[u] < slot PROVE u \in Open'
    <3>1. PICK j \in 1..L : u = openUpvalues[j]
      BY DEF Open, Elements
    <3>2. j - n \in 1..L - n /\ j = n + (j - n)
      BY <1>1, <1>2, <2>2, <3>1
    <3>3. u = openUpvalues'[j - n]
      BY <1>5, <3>1, <3>2
    <3> QED BY <1>5, <3>2, <3>3 DEF Open, Elements
  <2> QED BY <2>1, <2>2
<1>7. Sorted'
  <2> SUFFICES ASSUME NEW j \in 1..L - n, NEW k \in 1..L - n, j < k
               PROVE  location'[openUpvalues'[j]] > location'[openUpvalues'[k]]
    BY <1>5 DEF Sorted
  <2>1. n + j \in 1..L /\ n + k \in 1..L /\ n + j < n + k /\ n + j \in n + 1..L /\ n + k \in n + 1..L
    BY <1>1, <1>2
  <2>2. location[openUpvalues[n + j]] > location[openUpvalues[n + k]]
    BY <2>1 DEF Sorted
  <2>3. openUpvalues[n + j] \notin closing /\ openUpvalues[n + k] \notin closing
    BY SMTT(30), <1>1, <1>2, <1>3, <2>1
  <2>4. /\ location'[openUpvalues[n + j]] = location[openUpvalues[n + j]]
        /\ location'[openUpvalues[n + k]] = location[openUpvalues[n + k]]
    BY <1>1, <1>4, <2>1, <2>3
  <2> QED BY <1>5, <2>2, <2>4
<1> QED BY <1>3, <1>4, <1>5, <1>6, <1>7

(* A new upvalue is linked in where its slot belongs. *)
LEMMA LinkEffect ==
  ASSUME TypeOK, Sorted, Open \subseteq heap, NEW slot \in Slots, NEW u \in Upvalues,
         NewUpvalue(slot, u)
  PROVE  /\ openUpvalues' \in Seq(Upvalues) /\ Sorted'
         /\ Open' = Open \cup {u}
         /\ \A w \in Open : location[w] # slot
<1> DEFINE L == Len(openUpvalues)
           n == Ahead(slot)
           front == SubSeq(openUpvalues, 1, n)
           back == SubSeq(openUpvalues, n + 1, L)
<1>1. /\ L \in Nat /\ openUpvalues \in [1..L -> Upvalues]
      /\ \A w \in Upvalues : location[w] \in Nat
      /\ slot \in Nat
  BY UpvalueAssumption DEF TypeOK, Slots, Closed
<1>2. /\ n \in 0..L
      /\ \A j \in 1..n : location[openUpvalues[j]] > slot
      /\ \A j \in n + 1..L : location[openUpvalues[j]] <= slot
  BY AheadFacts
<1>3. \A j \in n + 1..L : location[openUpvalues[j]] < slot
  <2> SUFFICES ASSUME NEW j \in n + 1..L PROVE location[openUpvalues[j]] # slot
    BY <1>1, <1>2
  <2>1. n < L /\ n + 1 \in n + 1..L /\ n + 1 \in 1..L /\ j \in 1..L
    BY <1>1, <1>2
  <2>2. location[openUpvalues[n + 1]] # slot
    BY <2>1 DEF NewUpvalue, IsOpen
  <2>3. location[openUpvalues[n + 1]] < slot
    BY <1>1, <1>2, <2>1, <2>2
  <2>4. j = n + 1 \/ location[openUpvalues[n + 1]] > location[openUpvalues[j]]
    BY <2>1 DEF Sorted
  <2> QED BY <1>1, <2>1, <2>3, <2>4
<1>4. \A w \in Open : location[w] # slot
  BY <1>1, <1>2, <1>3 DEF Open, Elements
<1>5. u \notin heap /\ u \notin Open /\ openUpvalues' = (front \o <<u>>) \o back
      /\ location' = [location EXCEPT ![u] = slot]
  BY DEF NewUpvalue, Linked
<1>6. /\ front \in Seq(Upvalues) /\ Len(front) = n
      /\ \A j \in 1..n : front[j] = openUpvalues[j]
  BY <1>2, PrefixFacts DEF TypeOK
<1>7. /\ back \in Seq(Upvalues) /\ Len(back) = L - n
      /\ \A j \in 1..L - n : back[j] = openUpvalues[n + j]
  BY <1>2, SuffixFacts DEF TypeOK
<1>8. /\ front \o <<u>> \in Seq(Upvalues) /\ Len(front \o <<u>>) = n + 1
      /\ \A j \in 1..n + 1 : (front \o <<u>>)[j] = IF j <= n THEN front[j] ELSE u
  <2>1. <<u>> \in Seq(Upvalues) /\ Len(<<u>>) = 1 /\ <<u>>[1] = u
    OBVIOUS
  <2> HIDE DEF front
  <2>2. /\ front \o <<u>> \in Seq(Upvalues) /\ Len(front \o <<u>>) = n + 1
        /\ \A j \in 1..n + 1 : (front \o <<u>>)[j] = IF j <= n THEN front[j] ELSE <<u>>[j - n]
    BY <1>6, <2>1, ConcatProperties
  <2>3. \A j \in 1..n + 1 : ~(j <= n) => j - n = 1
    BY <1>1, <1>2
  <2> QED BY <2>1, <2>2, <2>3
<1>9. /\ openUpvalues' \in Seq(Upvalues) /\ Len(openUpvalues') = L + 1
      /\ \A j \in 1..L + 1 : openUpvalues'[j] =
           IF j <= n THEN openUpvalues[j] ELSE IF j = n + 1 THEN u ELSE openUpvalues[j - 1]
  <2> DEFINE head == front \o <<u>>
  <2>1. head \in Seq(Upvalues) /\ back \in Seq(Upvalues) /\ openUpvalues' = head \o back
        /\ Len(head) = n + 1 /\ Len(back) = L - n
    BY <1>5, <1>7, <1>8
  <2>2. /\ head \o back \in Seq(Upvalues) /\ Len(head \o back) = (n + 1) + (L - n)
        /\ \A j \in 1..(n + 1) + (L - n) :
             (head \o back)[j] = IF j <= n + 1 THEN head[j] ELSE back[j - (n + 1)]
    <3> HIDE DEF head, back
    <3> QED BY <2>1, ConcatProperties
  <2>3. \A j \in 1..n + 1 : head[j] = IF j <= n THEN openUpvalues[j] ELSE u
    BY <1>2, <1>6, <1>8
  <2>4. \A j \in n + 2..L + 1 : back[j - (n + 1)] = openUpvalues[j - 1]
    <3> TAKE j \in n + 2..L + 1
    <3>1. j - (n + 1) \in 1..L - n /\ n + (j - (n + 1)) = j - 1
      BY <1>1, <1>2
    <3> HIDE DEF back
    <3> QED BY <1>7, <3>1
  <2> HIDE DEF head, back, n, L
  <2>5. n \in Nat /\ L \in Nat /\ n <= L /\ (n + 1) + (L - n) = L + 1
    BY <1>1, <1>2
  <2>6. ASSUME NEW j \in 1..L + 1
        PROVE  openUpvalues'[j] = IF j <= n THEN openUpvalues[j]
                                  ELSE IF j = n + 1 THEN u ELSE openUpvalues[j - 1]
    <3>1. (head \o back)[j] = IF j <= n + 1 THEN head[j] ELSE back[j - (n + 1)]
      BY <2>2, <2>5
    <3>2. CASE j <= n + 1
      <4>1. j \in 1..n + 1
        BY <2>5, <3>2
      <4>2. openUpvalues'[j] = IF j <= n THEN openUpvalues[j] ELSE u
        BY <2>1, <2>3, <3>1, <3>2, <4>1
      <4> QED BY <2>5, <3>2, <4>2
    <3>3. CASE j > n + 1
      <4>1. j \in n + 2..L + 1
        BY <2>5, <3>3
      <4>2. openUpvalues'[j] = openUpvalues[j - 1]
        BY <2>1, <2>4, <2>5, <3>1, <3>3, <4>1
      <4> QED BY <2>5, <3>3, <4>2
    <3> QED BY <2>5, <3>2, <3>3
  <2> QED BY <2>1, <2>2, <2>5, <2>6
<1>10. Open' = Open \cup {u}
  <2>1. ASSUME NEW w \in Open' PROVE w \in Open \cup {u}
    <3>1. PICK j \in 1..L + 1 : w = openUpvalues'[j]
      BY <1>9 DEF Open, Elements
    <3>2. (j <= n => j \in 1..L) /\ (~(j <= n) /\ j # n + 1 => j - 1 \in 1..L)
      BY <1>1, <1>2
    <3> QED BY <1>9, <3>1, <3>2 DEF Open, Elements
  <2>2. ASSUME NEW w \in Open PROVE w \in Open'
    <3>1. PICK j \in 1..L : w = openUpvalues[j]
      BY DEF Open, Elements
    <3>2. CASE j <= n
      <4>1. j \in 1..L + 1 /\ w = openUpvalues'[j]
        BY <1>1, <1>9, <3>1, <3>2
      <4> QED BY <1>9, <4>1 DEF Open, Elements
    <3>3. CASE j > n
      <4>1. j + 1 \in 1..L + 1 /\ w = openUpvalues'[j + 1]
        BY <1>1, <1>2, <1>9, <3>1, <3>3
      <4> QED BY <1>9, <4>1 DEF Open, Elements
    <3> QED BY <1>1, <1>2, <3>2, <3>3
  <2>3. u \in Open'
    <3>1. n + 1 \in 1..L + 1 /\ u = openUpvalues'[n + 1]
      BY <1>1, <1>2, <1>9
    <3> QED BY <1>9, <3>1 DEF Open, Elements
  <2> QED BY <2>1, <2>2, <2>3
<1>11. Sorted'
  <2> SUFFICES ASSUME NEW j \in 1..L + 1, NEW k \in 1..L + 1, j < k
               PROVE  location'[openUpvalues'[j]] > location'[openUpvalues'[k]]
    BY <1>9 DEF Sorted
  <2>1. /\ \A w \in Open : location'[w] = location[w]
        /\ location'[u] = slot
    BY <1>5 DEF TypeOK
  <2>2. /\ \A m \in 1..L : openUpvalues[m] \in Open
        /\ \A m \in 1..L : location'[openUpvalues[m]] = location[openUpvalues[m]]
    BY <2>1 DEF Open, Elements
  <2>3. CASE j <= n /\ k <= n
    <3>1. j \in 1..L /\ k \in 1..L
      BY <1>1, <1>2, <2>3
    <3> QED BY <1>9, <2>2, <2>3, <3>1 DEF Sorted
  <2>4. CASE j <= n /\ k = n + 1
    <3>1. j \in 1..L /\ j \in 1..n
      BY <1>1, <1>2, <2>4
    <3> QED BY <1>1, <1>2, <1>9, <2>1, <2>2, <2>4, <3>1
  <2>5. CASE j <= n /\ k > n + 1
    <3>1. j \in 1..L /\ k - 1 \in 1..L /\ j < k - 1
      BY <1>1, <1>2, <2>5
    <3>2. openUpvalues'[j] = openUpvalues[j] /\ openUpvalues'[k] = openUpvalues[k - 1]
      BY <1>1, <1>2, <1>9, <2>5
    <3> QED BY <2>2, <3>1, <3>2 DEF Sorted
  <2>6. CASE j = n + 1
    <3>1. k - 1 \in 1..L /\ k - 1 \in n + 1..L
      BY <1>1, <1>2, <2>6
    <3>2. openUpvalues'[j] = u /\ openUpvalues'[k] = openUpvalues[k - 1]
      BY <1>1, <1>2, <1>9, <2>6
    <3> QED BY <1>1, <1>3, <2>1, <2>2, <3>1, <3>2
  <2>7. CASE j > n + 1
    <3>1. j - 1 \in 1..L /\ k - 1 \in 1..L /\ j - 1 < k - 1
      BY <1>1, <1>2, <2>7
    <3>2. openUpvalues'[j] = openUpvalues[j - 1] /\ openUpvalues'[k] = openUpvalues[k - 1]
      BY <1>1, <1>2, <1>9, <2>7
    <3> QED BY <2>2, <3>1, <3>2 DEF Sorted
  <2> QED BY <1>1, <1>2, <2>3, <2>4, <2>5, <2>6, <2>7
<1> QED BY <1>4, <1>9, <1>10, <1>11

----------------------------------------------------------------------------
(* What a step does to the stack. *)

LEMMA PushEffect ==
  ASSUME TypeOK, NEW v \in Values, NEW kd \in Kinds, PUSH(v, kd)
  PROVE  /\ sp' = sp + 1 /\ sp' \in 0..MaxSlots /\ sp + 1 \in Slots
         /\ stack' \in [Slots -> Values] /\ stack'[sp + 1] = v
         /\ \A s \in Slots \ {sp + 1} : stack'[s] = stack[s]
         /\ kind' \in Seq(Kinds) /\ Len(kind') = sp + 1 /\ kind'[sp + 1] = kd
         /\ \A s \in Live : kind'[s] = kind[s]
         /\ cell' \in Seq(Cells) /\ Len(cell') = sp + 1
         /\ cell'[sp + 1] \in Cells /\ cell'[sp + 1] \notin UsedCells
         /\ \A s \in Live : cell'[s] = cell[s]
         /\ Live' = Live \cup {sp + 1} /\ sp + 1 \notin Live
<1>1. sp \in Nat /\ MaxSlots \in Nat /\ sp < MaxSlots
  BY UpvalueAssumption DEF TypeOK, PUSH
<1>2. fresh \in Cells /\ fresh \notin UsedCells
  BY DEF PUSH, CellAvailable, fresh
<1>3. sp' = sp + 1 /\ sp' \in 0..MaxSlots /\ sp + 1 \in Slots /\ Live' = Live \cup {sp + 1}
      /\ sp + 1 \notin Live
  BY <1>1 DEF PUSH, Live, Slots
<1>4. stack' \in [Slots -> Values] /\ stack'[sp + 1] = v
      /\ \A s \in Slots \ {sp + 1} : stack'[s] = stack[s]
  BY <1>3 DEF PUSH, TypeOK
<1>5. kind' \in Seq(Kinds) /\ Len(kind') = sp + 1 /\ kind'[sp + 1] = kd
      /\ \A s \in Live : kind'[s] = kind[s]
  BY AppendFacts DEF PUSH, TypeOK, Live
<1>6. cell' \in Seq(Cells) /\ Len(cell') = sp + 1 /\ cell'[sp + 1] = fresh
      /\ \A s \in Live : cell'[s] = cell[s]
  BY <1>2, AppendFacts DEF PUSH, TypeOK, Live
<1> QED BY <1>2, <1>3, <1>4, <1>5, <1>6

LEMMA RewindEffect ==
  ASSUME TypeOK, NEW n \in 0..sp, Rewind(n)
  PROVE  /\ sp' = n /\ sp' \in 0..MaxSlots
         /\ kind' \in Seq(Kinds) /\ Len(kind') = n
         /\ \A s \in 1..n : kind'[s] = kind[s]
         /\ cell' \in Seq(Cells) /\ Len(cell') = n
         /\ \A s \in 1..n : cell'[s] = cell[s]
         /\ Live' = 1..n /\ Live' \subseteq Live
<1>1. sp \in 0..MaxSlots /\ MaxSlots \in Nat /\ n \in 0..Len(kind) /\ n \in 0..Len(cell)
  BY UpvalueAssumption DEF TypeOK
<1>2. sp' = n /\ sp' \in 0..MaxSlots /\ Live' = 1..n /\ Live' \subseteq Live
  BY <1>1 DEF Rewind, Live
<1> QED BY <1>1, <1>2, PrefixFacts DEF Rewind, TypeOK

LEMMA FrameType ==
  ASSUME TypeOK
  PROVE  /\ Len(frames) \in Nat
         /\ \A n \in 1..Len(frames) :
              /\ frames[n] \in Frames
              /\ frames[n].rewind \in 0..MaxSlots - 1 /\ frames[n].rewind \in Nat
              /\ frames[n].slots \in 1..MaxSlots + 1 /\ frames[n].slots \in Nat
              /\ frames[n].closure \in Closures \cup {Null}
<1>1. \A n \in 1..Len(frames) : frames[n] \in Frames
  BY DEF TypeOK
<1>2. MaxSlots \in Nat
  BY UpvalueAssumption
<1> QED BY SMTT(30), <1>1, <1>2 DEF Frames, TypeOK

(* Steps that push a value and leave the rest of the state alone. *)
LEMMA PushKeepsInv ==
  ASSUME ~ForIn, Inv, frames # <<>>, NEW v \in Values, NEW kd \in Kinds \ {"loop"}, PUSH(v, kd),
         making' = Null, UNCHANGED <<frames, objects, upvalues, ucell>>
  PROVE  Inv'
<1> DEFINE top == sp + 1
<1>1. TypeOK /\ sp \in Nat /\ Len(frames) \in Nat
  BY UpvalueAssumption DEF Inv, TypeOK
<1>2. /\ sp' = top /\ sp' \in 0..MaxSlots /\ top \in Slots
      /\ stack' \in [Slots -> Values]
      /\ kind' \in Seq(Kinds) /\ Len(kind') = top /\ kind'[top] = kd
      /\ \A s \in Live : kind'[s] = kind[s]
      /\ cell' \in Seq(Cells) /\ Len(cell') = top
      /\ cell'[top] \in Cells /\ cell'[top] \notin UsedCells
      /\ \A s \in Live : cell'[s] = cell[s]
      /\ Live' = Live \cup {top} /\ top \notin Live
  BY <1>1, PushEffect
<1>3. /\ heap' = heap /\ location' = location /\ closedVal' = closedVal
      /\ openUpvalues' = openUpvalues /\ upvalues' = upvalues /\ ucell' = ucell
      /\ frames' = frames
  BY DEF objects
<1>4. TypeOK'
  BY <1>1, <1>2, <1>3 DEF TypeOK
<1>5. OpenInv'
  BY <1>2, <1>3 DEF Inv, OpenInv, Elements
<1>6. CellInv'
  <2>1. /\ \A s \in Live : cell'[top] # cell[s]
        /\ \A u \in heap : cell'[top] # ucell[u]
    BY <1>2 DEF UsedCells
  <2>2. \A u \in Elements(openUpvalues) : location[u] # top
    BY <1>2 DEF Inv, OpenInv
  <2>3. Elements(openUpvalues)' = Elements(openUpvalues)
    BY <1>3 DEF Elements
  <2>4. CellInv
    BY DEF Inv
  <2>5. ASSUME NEW s \in Live', NEW r \in Live', cell'[s] = cell'[r]
        PROVE  s = r
    <3>1. CASE s \in Live /\ r \in Live
      BY <1>2, <2>4, <2>5, <3>1 DEF CellInv
    <3>2. CASE s = top \/ r = top
      BY <1>2, <2>1, <2>5, <3>2
    <3> QED BY <1>2, <3>1, <3>2
  <2>6. ASSUME NEW u \in heap, NEW s \in Live'
        PROVE  ucell[u] = cell'[s] <=> u \in Elements(openUpvalues) /\ location[u] = s
    <3>1. CASE s \in Live
      BY <1>2, <2>4, <3>1 DEF CellInv
    <3>2. CASE s = top
      BY <1>2, <2>1, <2>2, <3>2
    <3> QED BY <1>2, <3>1, <3>2
  <2> QED BY <1>3, <2>3, <2>4, <2>5, <2>6 DEF CellInv
<1>7. FrameInv'
  <2> SUFFICES ASSUME NEW n \in 1..Len(frames)
               PROVE  /\ frames[n].rewind < frames[n].slots /\ frames[n].slots <= top + 1
                      /\ \A s \in frames[n].rewind + 1..frames[n].slots - 1 : kind'[s] = "plain"
                      /\ \A m \in 1..n - 1 : frames[m].slots <= frames[n].rewind + 1
    BY <1>2, <1>3 DEF Inv, FrameInv
  <2>1. frames[n].rewind \in Nat /\ frames[n].slots \in Nat
    BY <1>1, FrameType
  <2>2. /\ frames[n].rewind < frames[n].slots /\ frames[n].slots <= sp + 1
        /\ \A s \in frames[n].rewind + 1..frames[n].slots - 1 : kind[s] = "plain"
        /\ \A m \in 1..n - 1 : frames[m].slots <= frames[n].rewind + 1
    BY DEF Inv, FrameInv
  <2>3. \A s \in frames[n].rewind + 1..frames[n].slots - 1 : s \in Live
    BY <1>1, <2>1, <2>2 DEF Live
  <2>4. frames[n].slots <= top + 1
    BY <1>1, <2>1, <2>2
  <2> QED BY <1>2, <2>2, <2>3, <2>4
<1>8. HeldInv'
  BY <1>3 DEF Inv, HeldInv, Elements
<1> QED BY <1>4, <1>5, <1>6, <1>7, <1>8 DEF Inv

(* Steps after which the stack ends at a lower place, in the frame that    *)
(* runs, and the upvalues above that place are no longer open.             *)
LEMMA ShrinkKeepsInv ==
  ASSUME ~ForIn, Inv, frames # <<>>, NEW n \in 0..sp, Rewind(n), frame.slots <= n + 1,
         making' = Null, UNCHANGED <<stack, frames, heap, upvalues, ucell>>,
         openUpvalues' \in Seq(Upvalues), Sorted',
         location' \in [Upvalues -> Slots \cup {Closed}], closedVal' \in [Upvalues -> Values],
         Open' = {u \in Open : location[u] <= n},
         \A u \in Upvalues : location'[u] = IF u \in Open \ Open' THEN Closed ELSE location[u]
  PROVE  Inv'
<1>1. TypeOK /\ OpenInv /\ CellInv /\ FrameInv /\ HeldInv
  BY DEF Inv
<1>2. /\ sp' = n /\ sp' \in 0..MaxSlots
      /\ kind' \in Seq(Kinds) /\ Len(kind') = n
      /\ \A s \in 1..n : kind'[s] = kind[s]
      /\ cell' \in Seq(Cells) /\ Len(cell') = n
      /\ \A s \in 1..n : cell'[s] = cell[s]
      /\ Live' = 1..n /\ Live' \subseteq Live
  BY <1>1, RewindEffect
<1>3. /\ Open \subseteq heap /\ Open \subseteq Upvalues /\ heap \subseteq Upvalues
      /\ n \in Nat
      /\ \A u \in Upvalues : location[u] \in Nat
      /\ \A u \in Open : location[u] # Closed /\ location[u] \in Live /\ kind[location[u]] = "captured"
  BY <1>1, OpenIsTyped, UpvalueAssumption DEF OpenInv, Open, TypeOK, Slots, Closed
<1>4. \A u \in Open' : u \in Open /\ location'[u] = location[u] /\ location[u] \in 1..n
  BY <1>3 DEF Live
<1>5. TypeOK'
  BY <1>1, <1>2 DEF TypeOK
<1>6. OpenInv'
  <2>1. \A u \in Open' : /\ u \in heap /\ location'[u] # Closed
                          /\ location'[u] \in Live' /\ kind'[location'[u]] = "captured"
    BY <1>2, <1>3, <1>4
  <2>2. ASSUME ~Errors, NEW u \in heap, location'[u] # Closed
        PROVE  frames' # <<>> /\ u \in Open'
    <3>1. u \in Upvalues /\ (u \in Open' \/ u \notin Open) /\ location[u] # Closed
      BY <1>3, <1>4, <2>2
    <3>2. u \in Open
      BY <1>1, <2>2, <3>1 DEF OpenInv, Open
    <3> QED BY <3>1, <3>2
  <2>3. \A s \in Live' : kind'[s] # "loop"
    BY <1>1, <1>2 DEF OpenInv
  <2> QED BY <2>1, <2>2, <2>3 DEF OpenInv, Open, Sorted
<1>7. CellInv'
  <2>1. ASSUME NEW u \in heap, NEW s \in Live'
        PROVE  ucell[u] = cell'[s] <=> u \in Open' /\ location'[u] = s
    <3>1. ucell[u] = cell[s] <=> u \in Open /\ location[u] = s
      BY <1>1, <1>2 DEF CellInv, Open
    <3>2. cell'[s] = cell[s] /\ s \in 1..n /\ s <= n
      BY <1>2, <1>3
    <3>3. u \in Open /\ location[u] = s => u \in Open' /\ location'[u] = s
      BY <1>3, <1>4, <3>2
    <3> QED BY <1>4, <3>1, <3>2, <3>3
  <2>2. ASSUME NEW s \in Live', NEW r \in Live', cell'[s] = cell'[r]
        PROVE  s = r
    <3>1. s \in Live /\ r \in Live /\ cell[s] = cell[r]
      BY <1>2, <2>2
    <3> QED BY <1>1, <3>1 DEF CellInv
  <2> QED BY <1>1, <2>1, <2>2 DEF CellInv, Open
<1>8. FrameInv'
  <2>1. Len(frames) \in Nat /\ Len(frames) > 0
    BY <1>1 DEF TypeOK
  <2> DEFINE L == Len(frames)
  <2> SUFFICES ASSUME NEW j \in 1..L
               PROVE  /\ frames[j].rewind < frames[j].slots /\ frames[j].slots <= n + 1
                      /\ \A s \in frames[j].rewind + 1..frames[j].slots - 1 : kind'[s] = "plain"
                      /\ \A m \in 1..j - 1 : frames[m].slots <= frames[j].rewind + 1
    BY <1>1, <1>2 DEF FrameInv
  <2>2. /\ frames[j].rewind \in Nat /\ frames[j].slots \in Nat
        /\ frames[L].rewind \in Nat /\ frames[L].slots \in Nat
    BY <1>1, <2>1, FrameType
  <2>3. /\ frames[j].rewind < frames[j].slots
        /\ \A s \in frames[j].rewind + 1..frames[j].slots - 1 : kind[s] = "plain"
        /\ \A m \in 1..j - 1 : frames[m].slots <= frames[j].rewind + 1
    BY <1>1 DEF FrameInv
  <2>4. /\ frames[L].rewind < frames[L].slots
        /\ j \in 1..L - 1 => frames[j].slots <= frames[L].rewind + 1
    BY <1>1, <2>1 DEF FrameInv
  <2>5. frames[j].slots <= n + 1
    BY <1>3, <2>1, <2>2, <2>4 DEF frame
  <2>6. \A s \in frames[j].rewind + 1..frames[j].slots - 1 : s \in 1..n
    BY <1>3, <2>2, <2>5
  <2> QED BY <1>2, <2>3, <2>5, <2>6
<1>9. HeldInv'
  BY <1>1 DEF HeldInv, Elements
<1> QED BY <1>5, <1>6, <1>7, <1>8, <1>9 DEF Inv

LEMMA RunningFacts ==
  ASSUME Inv, Running
  PROVE  /\ TypeOK /\ Sorted /\ frames # <<>> /\ making = Null /\ sp \in Nat
         /\ Len(frames) \in 1..Len(frames) /\ Len(frames) \in Nat
         /\ frame.slots \in Nat \ {0} /\ frame.rewind \in Nat /\ frame.rewind < MaxSlots
         /\ frame.rewind < frame.slots /\ frame.slots <= sp + 1
         /\ frame.closure \in Closures \cup {Null}
<1>1. TypeOK /\ Sorted /\ frames # <<>> /\ making = Null /\ sp \in Nat
  BY UpvalueAssumption DEF Inv, Running, OpenInv, Sorted, TypeOK
<1>2. Len(frames) \in 1..Len(frames) /\ Len(frames) \in Nat
  BY <1>1 DEF TypeOK
<1>3. frame.rewind < frame.slots /\ frame.slots <= sp + 1
  BY <1>2 DEF Inv, FrameInv, frame
<1>4. /\ frame.slots \in Nat \ {0} /\ frame.rewind \in Nat /\ frame.rewind < MaxSlots
      /\ frame.closure \in Closures \cup {Null}
  BY <1>1, <1>2, FrameType, UpvalueAssumption DEF frame
<1> QED BY <1>1, <1>2, <1>3, <1>4

LEMMA PopKeepsInv ==
  ASSUME ~ForIn, Inv, Pop
  PROVE  Inv'
<1>1. /\ TypeOK /\ Sorted /\ frames # <<>> /\ making = Null /\ sp \in Nat
      /\ frame.slots \in Nat \ {0}
  BY RunningFacts DEF Pop
<1>2. /\ sp >= frame.slots /\ kind[sp] \in {"plain", "loop"} /\ Rewind(sp - 1)
      /\ UNCHANGED <<stack, frames, objects, upvalues, making, ucell>>
  BY DEF Pop
<1>3. sp - 1 \in 0..sp /\ frame.slots <= sp - 1 + 1
  BY <1>1, <1>2
<1>4. Open' = {u \in Open : location[u] <= sp - 1}
  <2>1. \A u \in Open : location[u] \in 1..sp /\ location[u] # sp
    BY <1>1, <1>2 DEF Inv, OpenInv, Open, Live
  <2>2. Open' = Open
    BY <1>2 DEF Open, Elements, objects
  <2> QED BY <1>1, <2>1, <2>2
<1>5. Open' = Open /\ openUpvalues' = openUpvalues /\ location' = location /\ closedVal' = closedVal
      /\ heap' = heap
  BY <1>2 DEF Open, Elements, objects
<1>6. Sorted'
  BY <1>1, <1>5 DEF Sorted
<1> QED BY <1>1, <1>2, <1>3, <1>4, <1>5, <1>6, ShrinkKeepsInv DEF TypeOK

LEMMA CloseUpvalueKeepsInv ==
  ASSUME ~ForIn, Inv, CloseUpvalue
  PROVE  Inv'
<1>1. /\ TypeOK /\ Sorted /\ frames # <<>> /\ making = Null /\ sp \in Nat
      /\ frame.slots \in Nat \ {0}
  BY RunningFacts DEF CloseUpvalue
<1>2. /\ sp >= frame.slots /\ msCloseUpvalues(sp) /\ Rewind(sp - 1)
      /\ UNCHANGED <<stack, frames, heap, upvalues, making, ucell>>
  BY DEF CloseUpvalue
<1>3. sp - 1 \in 0..sp /\ frame.slots <= sp - 1 + 1
  BY <1>1, <1>2
<1>4. /\ openUpvalues' \in Seq(Upvalues) /\ Sorted'
      /\ Open' = {u \in Open : location[u] < sp}
      /\ location' = [u \in Upvalues |-> IF u \in Open /\ location[u] >= sp THEN Closed ELSE location[u]]
      /\ closedVal' = [u \in Upvalues |-> IF u \in Open /\ location[u] >= sp
                                           THEN stack[location[u]] ELSE closedVal[u]]
  BY <1>1, <1>2, CloseEffect
<1>5. \A u \in Open : u \in Upvalues /\ location[u] \in Nat /\ location[u] \in Slots
  BY <1>1, OpenIsTyped, UpvalueAssumption DEF Inv, OpenInv, Open, TypeOK, Slots, Closed
<1>6. /\ location' \in [Upvalues -> Slots \cup {Closed}] /\ closedVal' \in [Upvalues -> Values]
  BY <1>1, <1>4, <1>5 DEF TypeOK
<1>7. Open' = {u \in Open : location[u] <= sp - 1}
  BY <1>1, <1>4, <1>5
<1>8. \A u \in Upvalues : location'[u] = IF u \in Open \ Open' THEN Closed ELSE location[u]
  BY <1>1, <1>4, <1>5
<1> QED BY <1>1, <1>2, <1>3, <1>4, <1>6, <1>7, <1>8, ShrinkKeepsInv

(* The return from a call: the callee's slots and its own go, and the      *)
(* result takes the place of the callee.                                   *)
LEMMA LeaveFrameKeepsInv ==
  ASSUME ~ForIn, Inv, NEW result \in Values, LeaveFrame(result)
  PROVE  Inv'
<1> DEFINE n == frame.rewind
           top == n + 1
           L == Len(frames)
<1>1. /\ TypeOK /\ Sorted /\ frames # <<>> /\ making = Null /\ sp \in Nat
      /\ L \in Nat
      /\ frame.slots \in Nat \ {0} /\ n \in Nat /\ n < MaxSlots
      /\ n < frame.slots /\ frame.slots <= sp + 1
      /\ OpenInv /\ CellInv /\ FrameInv /\ HeldInv /\ MaxSlots \in Nat
  BY RunningFacts, UpvalueAssumption DEF LeaveFrame, Inv
<1>2. /\ CellAvailable /\ L > 1 /\ msCloseUpvalues(frame.slots)
      /\ frames' = SubSeq(frames, 1, L - 1)
      /\ stack' = [stack EXCEPT ![top] = result]
      /\ kind' = Append(SubSeq(kind, 1, n), "plain")
      /\ cell' = Append(SubSeq(cell, 1, n), fresh)
      /\ sp' = top
      /\ UNCHANGED <<heap, upvalues, making, ucell>>
  BY DEF LeaveFrame, FirstSlot
<1>3. fresh \in Cells /\ fresh \notin UsedCells
  BY <1>2 DEF CellAvailable, fresh
<1>4. n \in 0..sp /\ n \in 0..Len(kind) /\ n \in 0..Len(cell) /\ top \in Slots /\ Live' = 1..top
  BY SMTT(30), <1>1, <1>2 DEF TypeOK, Slots, Live
<1>5. /\ kind' \in Seq(Kinds) /\ Len(kind') = top /\ kind'[top] = "plain"
      /\ \A s \in 1..n : kind'[s] = kind[s]
  <2>1. /\ SubSeq(kind, 1, n) \in Seq(Kinds) /\ Len(SubSeq(kind, 1, n)) = n
        /\ \A j \in 1..n : SubSeq(kind, 1, n)[j] = kind[j]
    BY <1>1, <1>4, PrefixFacts DEF TypeOK
  <2> QED BY <1>2, <2>1, AppendFacts DEF Kinds
<1>6. /\ cell' \in Seq(Cells) /\ Len(cell') = top /\ cell'[top] = fresh
      /\ \A s \in 1..n : cell'[s] = cell[s]
  <2>1. /\ SubSeq(cell, 1, n) \in Seq(Cells) /\ Len(SubSeq(cell, 1, n)) = n
        /\ \A j \in 1..n : SubSeq(cell, 1, n)[j] = cell[j]
    BY <1>1, <1>4, PrefixFacts DEF TypeOK
  <2> QED BY <1>2, <1>3, <2>1, AppendFacts
<1>7. /\ frames' \in Seq(Frames) /\ Len(frames') = L - 1 /\ frames' # <<>>
      /\ \A j \in 1..L - 1 : frames'[j] = frames[j]
  <2>1. /\ frames' \in Seq(Frames) /\ Len(frames') = L - 1
        /\ \A j \in 1..L - 1 : frames'[j] = frames[j]
    <3>1. frames \in Seq(Frames) /\ L - 1 \in 0..Len(frames)
      BY <1>1, <1>2 DEF TypeOK
    <3> QED BY <1>2, <3>1, PrefixFacts
  <2>2. L - 1 # 0
    <3>1. L \in Nat /\ L > 1
      BY <1>1, <1>2
    <3> HIDE DEF L
    <3> QED BY <3>1
  <2>3. Len(<<>>) = 0
    OBVIOUS
  <2> QED BY <2>1, <2>2, <2>3
<1>8. /\ openUpvalues' \in Seq(Upvalues) /\ Sorted'
      /\ Open' = {u \in Open : location[u] < frame.slots}
      /\ location' = [u \in Upvalues |-> IF u \in Open /\ location[u] >= frame.slots
                                          THEN Closed ELSE location[u]]
      /\ closedVal' = [u \in Upvalues |-> IF u \in Open /\ location[u] >= frame.slots
                                           THEN stack[location[u]] ELSE closedVal[u]]
  BY <1>1, <1>2, CloseEffect
<1>9. /\ Open \subseteq heap /\ Open \subseteq Upvalues /\ heap \subseteq Upvalues
      /\ \A u \in Upvalues : location[u] \in Nat
      /\ \A u \in Open : /\ location[u] # Closed /\ location[u] \in Live /\ location[u] \in Slots
                           /\ kind[location[u]] = "captured"
  BY <1>1, OpenIsTyped, UpvalueAssumption DEF OpenInv, Open, TypeOK, Slots, Closed
<1>10. \A u \in Open' : u \in Open /\ location'[u] = location[u] /\ location[u] \in 1..n
  <2> SUFFICES ASSUME NEW u \in Open' PROVE u \in Open /\ location'[u] = location[u] /\ location[u] \in 1..n
    OBVIOUS
  <2>1. u \in Open /\ location[u] < frame.slots /\ location'[u] = location[u] /\ location[u] \in Nat \ {0}
    BY <1>1, <1>8, <1>9 DEF Closed
  <2>2. location[u] \notin n + 1..frame.slots - 1
    <3>1. \A s \in n + 1..frame.slots - 1 : kind[s] = "plain"
      BY <1>1 DEF FrameInv, frame
    <3> QED BY <1>9, <2>1, <3>1
  <2> QED BY <1>1, <2>1, <2>2
<1>11. TypeOK'
  <2>1. /\ location' \in [Upvalues -> Slots \cup {Closed}] /\ closedVal' \in [Upvalues -> Values]
    BY <1>1, <1>8, <1>9 DEF TypeOK
  <2>2. stack' \in [Slots -> Values] /\ sp' \in 0..MaxSlots
    BY <1>1, <1>2, <1>4 DEF TypeOK
  <2> QED BY <1>1, <1>2, <1>5, <1>6, <1>7, <1>8, <2>1, <2>2 DEF TypeOK
<1>12. OpenInv'
  <2>1. \A u \in Open' : /\ u \in heap /\ location'[u] # Closed
                          /\ location'[u] \in Live' /\ kind'[location'[u]] = "captured"
    <3> TAKE u \in Open'
    <3>1. u \in Open /\ location'[u] = location[u] /\ location[u] \in 1..n
      BY <1>10
    <3>2. location[u] \in 1..top
      BY <1>1, <3>1
    <3>3. kind'[location[u]] = kind[location[u]]
      BY <1>5, <3>1
    <3> QED BY <1>4, <1>9, <3>1, <3>2, <3>3
  <2>2. ASSUME ~Errors, NEW u \in heap, location'[u] # Closed
        PROVE  u \in Open'
    <3>1. u \in Upvalues /\ ~(u \in Open /\ location[u] >= frame.slots) /\ location[u] # Closed
      BY <1>8, <1>9, <2>2
    <3>2. u \in Open
      BY <1>1, <2>2, <3>1 DEF OpenInv, Open
    <3> QED BY <1>1, <1>8, <1>9, <3>1, <3>2
  <2>3. \A s \in Live' : kind'[s] # "loop"
    <3>1. \A s \in 1..n : kind[s] # "loop"
      BY <1>1, <1>4 DEF OpenInv, Live
    <3> QED BY <1>1, <1>4, <1>5, <3>1
  <2> QED BY <1>2, <1>7, <1>8, <2>1, <2>2, <2>3 DEF OpenInv, Open, Sorted
<1>13. CellInv'
  <2>1. \A s \in 1..n : s \in Live
    BY <1>1, <1>4 DEF Live
  <2>2. /\ \A s \in 1..n : cell'[s] # fresh
        /\ \A u \in heap : ucell[u] # fresh
    BY <1>3, <1>6, <2>1 DEF UsedCells
  <2>3. \A s \in Live' : s \in 1..n \/ s = top
    BY <1>1, <1>4
  <2>4. ASSUME NEW s \in Live', NEW r \in Live', cell'[s] = cell'[r]
        PROVE  s = r
    <3>1. CASE s \in 1..n /\ r \in 1..n
      BY <1>1, <1>6, <2>1, <2>4, <3>1 DEF CellInv
    <3>2. CASE s = top \/ r = top
      BY <1>6, <2>2, <2>3, <2>4, <3>2
    <3> QED BY <2>3, <3>1, <3>2
  <2>5. ASSUME NEW u \in heap, NEW s \in Live'
        PROVE  ucell[u] = cell'[s] <=> u \in Open' /\ location'[u] = s
    <3>1. CASE s \in 1..n
      <4>1. ucell[u] = cell[s] <=> u \in Open /\ location[u] = s
        BY <1>1, <2>1, <3>1 DEF CellInv, Open
      <4>2. u \in Open /\ location[u] = s => u \in Open' /\ location'[u] = s
        BY <1>1, <1>8, <1>9, <3>1
      <4> QED BY <1>6, <1>10, <3>1, <4>1, <4>2
    <3>2. CASE s = top
      BY <1>1, <1>6, <1>10, <2>2, <3>2
    <3> QED BY <2>3, <3>1, <3>2
  <2>6. \A u, w \in heap : ucell[u] = ucell[w] => u = w
    BY <1>1 DEF CellInv
  <2>7. heap' = heap /\ ucell' = ucell
    BY <1>2
  <2> HIDE DEF top, n, L
  <2> QED BY <2>4, <2>5, <2>6, <2>7 DEF CellInv, Open
<1>14. FrameInv'
  <2> SUFFICES ASSUME NEW j \in 1..L - 1
               PROVE  /\ frames[j].rewind < frames[j].slots /\ frames[j].slots <= top + 1
                      /\ \A s \in frames[j].rewind + 1..frames[j].slots - 1 : kind'[s] = "plain"
                      /\ \A m \in 1..j - 1 : frames[m].slots <= frames[j].rewind + 1
    <3>1. /\ frames' # <<>> /\ making' = Null /\ sp' = top /\ Len(frames') = L - 1
      BY <1>1, <1>2, <1>7
    <3>2. /\ \A j \in 1..L - 1 : \A m \in 1..j - 1 : m \in 1..L - 1
          /\ 1 \in 1..L - 1
      BY <1>1, <1>2
    <3>3. frames'[1].rewind = 0
      BY <1>1, <1>7, <3>2 DEF FrameInv
    <3> HIDE DEF top, L, n
    <3> QED BY <1>7, <3>1, <3>2, <3>3 DEF FrameInv
  <2>1. j \in 1..L /\ L \in 1..L
    BY <1>1, <1>2
  <2>2. /\ frames[j].rewind \in Nat /\ frames[j].slots \in Nat
    BY <1>1, <2>1, FrameType
  <2>3. /\ frames[j].rewind < frames[j].slots
        /\ \A s \in frames[j].rewind + 1..frames[j].slots - 1 : kind[s] = "plain"
        /\ \A m \in 1..j - 1 : frames[m].slots <= frames[j].rewind + 1
    BY <1>1, <2>1 DEF FrameInv
  <2>4. frames[j].slots <= n + 1
    BY <1>1, <2>1 DEF FrameInv, frame
  <2>5. \A s \in frames[j].rewind + 1..frames[j].slots - 1 : s \in 1..n
    BY <1>1, <2>2, <2>4
  <2>6. frames[j].slots <= top + 1
    BY <1>1, <2>2, <2>4
  <2> QED BY <1>5, <2>3, <2>5, <2>6
<1>15. HeldInv'
  BY <1>1, <1>2 DEF HeldInv, Elements
<1> QED BY <1>11, <1>12, <1>13, <1>14, <1>15 DEF Inv

(* The end of a run closes every upvalue: the first frame's slots begin    *)
(* above the one slot that lies below them.                                *)
LEMMA ReturnTopKeepsInv ==
  ASSUME ~ForIn, Inv, ReturnTop
  PROVE  Inv'
<1>1. /\ TypeOK /\ Sorted /\ frames # <<>> /\ making = Null /\ sp \in Nat
      /\ frame.slots \in Nat \ {0} /\ frame.rewind \in Nat
      /\ OpenInv /\ CellInv /\ FrameInv /\ HeldInv
  BY RunningFacts, UpvalueAssumption DEF ReturnTop, Inv
<1>2. /\ Len(frames) = 1 /\ msCloseUpvalues(frame.slots) /\ frames' = <<>> /\ Rewind(0)
      /\ UNCHANGED <<stack, heap, upvalues, making, ucell>>
  BY DEF ReturnTop, FirstSlot
<1>3. /\ openUpvalues' \in Seq(Upvalues) /\ Sorted'
      /\ Open' = {u \in Open : location[u] < frame.slots}
      /\ location' = [u \in Upvalues |-> IF u \in Open /\ location[u] >= frame.slots
                                          THEN Closed ELSE location[u]]
      /\ closedVal' = [u \in Upvalues |-> IF u \in Open /\ location[u] >= frame.slots
                                           THEN stack[location[u]] ELSE closedVal[u]]
  BY <1>1, <1>2, CloseEffect
<1>4. /\ Open \subseteq Upvalues /\ heap \subseteq Upvalues
      /\ \A u \in Upvalues : location[u] \in Nat
      /\ \A u \in Open : u \in heap /\ location[u] # Closed /\ location[u] \in Slots
  BY <1>1, OpenIsTyped, UpvalueAssumption DEF OpenInv, Open, TypeOK, Slots, Closed
<1>5. 0 \in 0..sp
  BY <1>1
<1>6. /\ sp' = 0 /\ sp' \in 0..MaxSlots /\ Live' = 1..0
      /\ kind' \in Seq(Kinds) /\ Len(kind') = 0 /\ cell' \in Seq(Cells) /\ Len(cell') = 0
  BY <1>1, <1>2, <1>5, RewindEffect
<1>7. TypeOK'
  <2>1. /\ location' \in [Upvalues -> Slots \cup {Closed}] /\ closedVal' \in [Upvalues -> Values]
    BY <1>1, <1>3, <1>4 DEF TypeOK
  <2> QED BY <1>1, <1>2, <1>3, <1>6, <2>1 DEF TypeOK
<1>8. OpenInv'
  <2>1. \A u \in Open' : u \in heap /\ location'[u] # Closed
    BY <1>1, <1>3, <1>4
  <2>2. ASSUME ~Errors, NEW u \in heap PROVE location'[u] = Closed
    <3> SUFFICES ASSUME location[u] # Closed PROVE location'[u] = Closed
      BY <1>3, <1>4
    <3>1. u \in Open /\ location[u] \in Live /\ kind[location[u]] = "captured"
      BY <1>1, <2>2 DEF OpenInv, Open
    <3>2. frames[1].rewind < frames[1].slots /\ frame = frames[1]
          /\ \A s \in frames[1].rewind + 1..frames[1].slots - 1 : kind[s] = "plain"
      BY <1>1, <1>2 DEF FrameInv, frame
    <3>3. frames[1].rewind = 0
      BY <1>1 DEF FrameInv
    <3>4. location[u] \in Nat \ {0} /\ location[u] \notin 1..frame.slots - 1
      BY <1>4, <3>1, <3>2, <3>3 DEF Closed
    <3>5. location[u] >= frame.slots
      BY <1>1, <3>4
    <3> QED BY <1>3, <1>4, <3>1, <3>5
  <2>3. heap' = heap /\ frames' = <<>> /\ \A s \in Live' : FALSE
    BY <1>2, <1>6
  <2>4. /\ \A u \in Elements(openUpvalues)' : u \in heap' /\ location'[u] # Closed
        /\ \A j, k \in 1..Len(openUpvalues') :
             j < k => location'[openUpvalues'[j]] > location'[openUpvalues'[k]]
    BY <1>3, <2>1, <2>3 DEF Open, Sorted
  <2>5. ~Errors => \A u \in heap' : location'[u] = Closed
    BY <2>2, <2>3
  <2> QED BY <2>3, <2>4, <2>5 DEF OpenInv
<1>9. CellInv' /\ HeldInv'
  BY <1>1, <1>2, <1>6 DEF CellInv, HeldInv, Elements
<1>10. FrameInv'
  <2>1. Len(frames') = 0
    BY <1>2
  <2> QED BY <1>1, <1>2, <1>6, <2>1 DEF FrameInv
<1> QED BY <1>7, <1>8, <1>9, <1>10 DEF Inv


----------------------------------------------------------------------------
(* Steps that leave the variables where they are. *)

LEMMA QuietKeepsInv ==
  ASSUME Inv, TypeOK', HeldInv',
         making' = Null \/ (frames # <<>> /\ sp < MaxSlots /\ CellAvailable),
         UNCHANGED <<sp, kind, frames, heap, location, openUpvalues, cell, ucell>>
  PROVE  Inv'
<1>1. /\ Live' = Live /\ UsedCells' = UsedCells
      /\ Elements(openUpvalues)' = Elements(openUpvalues)
  BY DEF Live, UsedCells, Elements
<1>2. OpenInv' /\ CellInv'
  BY <1>1 DEF Inv, OpenInv, CellInv
<1>3. FrameInv'
  <2>1. making' # Null => sp' < MaxSlots /\ CellAvailable'
    BY <1>1 DEF CellAvailable
  <2>2. frames = <<>> => sp = 0 /\ making' = Null
    BY DEF Inv, FrameInv
  <2> QED BY <2>1, <2>2 DEF Inv, FrameInv
<1> QED BY <1>2, <1>3 DEF Inv

LEMMA SetLocalKeepsInv ==
  ASSUME Inv, NEW s \in Slots, SetLocal(s)
  PROVE  Inv'
<1>1. /\ making' = Null /\ stack' = [stack EXCEPT ![s] = stack[sp]]
      /\ UNCHANGED <<sp, kind, frames, heap, location, closedVal, openUpvalues, upvalues, making,
                     cell, ucell>>
  BY DEF SetLocal, Running, objects
<1>2. sp \in Slots
  <2>1. sp \in Nat /\ MaxSlots \in Nat /\ frame.slots \in Nat /\ frame.slots > 0
        /\ s \in frame.slots..sp /\ sp <= MaxSlots
    BY RunningFacts, UpvalueAssumption DEF SetLocal, TypeOK
  <2> QED BY <2>1 DEF Slots
<1>3. TypeOK' /\ HeldInv'
  <2>1. stack' \in [Slots -> Values]
    BY <1>1, <1>2 DEF Inv, TypeOK
  <2> QED BY <1>1, <2>1 DEF Inv, TypeOK, HeldInv, Elements
<1> QED BY <1>1, <1>3, QuietKeepsInv

(* What the running closure has captured. *)
LEMMA CapturedFacts ==
  ASSUME Inv, frames # <<>>, frame.closure # Null, NEW idx \in 1..Len(upvalues[frame.closure])
  PROVE  LET u == upvalues[frame.closure][idx] IN
         /\ frame.closure \in Closures /\ u \in heap /\ u \in Upvalues
         /\ location[u] \in Slots \cup {Closed} /\ deref(u) \in Values
<1> DEFINE k == frame.closure
           u == upvalues[k][idx]
<1>1. TypeOK /\ HeldInv /\ Len(frames) \in 1..Len(frames)
  BY DEF Inv, TypeOK
<1>2. k \in Closures
  BY <1>1, FrameType DEF frame
<1>3. u \in heap /\ u \in Upvalues
  BY <1>1, <1>2 DEF HeldInv, Elements, TypeOK
<1>4. location[u] \in Slots \cup {Closed} /\ deref(u) \in Values
  BY <1>1, <1>3 DEF TypeOK, deref
<1> QED BY <1>2, <1>3, <1>4

LEMMA SetUpvalueKeepsInv ==
  ASSUME Inv, NEW idx \in 1..MaxCaptured, SetUpvalue(idx)
  PROVE  Inv'
<1> DEFINE u == upvalues[frame.closure][idx]
<1>1. /\ frames # <<>> /\ making' = Null
      /\ IF location[u] = Closed
         THEN closedVal' = [closedVal EXCEPT ![u] = stack[sp]] /\ UNCHANGED stack
         ELSE stack' = [stack EXCEPT ![location[u]] = stack[sp]] /\ UNCHANGED closedVal
      /\ UNCHANGED <<sp, kind, frames, heap, location, openUpvalues, upvalues, making, cell, ucell>>
  BY DEF SetUpvalue, Running
<1>2. sp \in Slots
  <2>1. sp \in Nat /\ MaxSlots \in Nat /\ frame.slots \in Nat /\ frame.slots > 0
        /\ sp >= frame.slots /\ sp <= MaxSlots
    BY RunningFacts, UpvalueAssumption DEF SetUpvalue, TypeOK
  <2> QED BY <2>1 DEF Slots
<1>3. u \in Upvalues /\ location[u] \in Slots \cup {Closed}
  BY <1>1, CapturedFacts DEF SetUpvalue
<1>4. TypeOK' /\ HeldInv'
  <2>1. stack \in [Slots -> Values] /\ closedVal \in [Upvalues -> Values] /\ stack[sp] \in Values
    BY <1>2 DEF Inv, TypeOK
  <2>2. stack' \in [Slots -> Values] /\ closedVal' \in [Upvalues -> Values]
    <3> HIDE DEF u
    <3>1. CASE location[u] = Closed
      BY <1>1, <1>3, <2>1, <3>1
    <3>2. CASE location[u] # Closed
      BY <1>1, <1>3, <2>1, <3>2
    <3> QED BY <3>1, <3>2
  <2> QED BY <1>1, <2>2 DEF Inv, TypeOK, HeldInv, Elements
<1> QED BY <1>1, <1>4, QuietKeepsInv

LEMMA BeginMakeFuncKeepsInv ==
  ASSUME Inv, NEW k \in Closures, BeginMakeFunc(k)
  PROVE  Inv'
<1>1. /\ frames # <<>> /\ sp < MaxSlots /\ CellAvailable /\ making' = k
      /\ UNCHANGED <<stack, sp, kind, frames, heap, location, closedVal, openUpvalues, upvalues,
                     cell, ucell>>
  BY DEF BeginMakeFunc, Running, vm, objects
<1>2. TypeOK' /\ HeldInv'
  BY <1>1 DEF Inv, TypeOK, HeldInv, Elements
<1> QED BY <1>1, <1>2, QuietKeepsInv

(* While a closure is being made there is a frame, and room for it. *)
LEMMA MakingFacts ==
  ASSUME Inv, making # Null
  PROVE  frames # <<>> /\ sp < MaxSlots /\ CellAvailable /\ making \in Closures
  BY DEF Inv, FrameInv, TypeOK

(* An upvalue that is already there is added to the closure. *)
LEMMA AddFacts ==
  ASSUME TypeOK, HeldInv, making \in Closures, NEW u \in Upvalues, Add(u)
  PROVE  /\ upvalues' \in [Closures -> Seq(Upvalues)]
         /\ \A k \in Closures : Elements(upvalues'[k]) \subseteq heap \cup {u}
<1>1. Append(upvalues[making], u) \in Seq(Upvalues)
  BY DEF TypeOK
<1>2. upvalues' \in [Closures -> Seq(Upvalues)]
  BY <1>1 DEF TypeOK, Add
<1>3. ASSUME NEW k \in Closures, NEW w \in Elements(upvalues'[k]) PROVE w \in heap \cup {u}
  <2>1. upvalues[k] \in Seq(Upvalues)
    BY DEF TypeOK
  <2>2. upvalues'[k] = IF k = making THEN Append(upvalues[k], u) ELSE upvalues[k]
    BY DEF Add, TypeOK
  <2>3. PICK n \in 1..Len(upvalues'[k]) : w = upvalues'[k][n]
    BY <1>3 DEF Elements
  <2>4. CASE n \in 1..Len(upvalues[k])
    <3>1. w = upvalues[k][n]
      BY <2>1, <2>2, <2>3, <2>4, AppendFacts
    <3> QED BY <2>4, <3>1 DEF HeldInv, Elements
  <2>5. CASE n \notin 1..Len(upvalues[k])
    <3>1. n = Len(upvalues[k]) + 1 /\ k = making
      BY <2>1, <2>2, <2>3, <2>5, AppendFacts
    <3> QED BY <2>1, <2>2, <2>3, <3>1, AppendFacts
  <2> QED BY <2>4, <2>5
<1> QED BY <1>2, <1>3

LEMMA CaptureEnclosingKeepsInv ==
  ASSUME Inv, NEW idx \in 1..MaxCaptured, CaptureEnclosing(idx)
  PROVE  Inv'
<1> DEFINE u == upvalues[frame.closure][idx]
<1>1. /\ making # Null /\ Add(u)
      /\ UNCHANGED <<stack, sp, kind, frames, heap, location, closedVal, openUpvalues, making,
                     cell, ucell>>
  BY DEF CaptureEnclosing, vm, objects
<1>2. /\ frames # <<>> /\ sp < MaxSlots /\ CellAvailable /\ making \in Closures
      /\ TypeOK /\ HeldInv
  BY <1>1, MakingFacts DEF Inv
<1>3. u \in heap /\ u \in Upvalues
  BY <1>2, CapturedFacts DEF CaptureEnclosing
<1>4. /\ upvalues' \in [Closures -> Seq(Upvalues)]
      /\ \A k \in Closures : Elements(upvalues'[k]) \subseteq heap
  <2> HIDE DEF u
  <2> QED BY <1>1, <1>2, <1>3, AddFacts
<1>5. TypeOK' /\ HeldInv'
  BY <1>1, <1>2, <1>4 DEF TypeOK, HeldInv, Elements
<1> QED BY <1>1, <1>2, <1>5, QuietKeepsInv

LEMMA ForgetKeepsInv ==
  ASSUME Inv, NEW k \in Closures, Forget(k)
  PROVE  Inv'
<1>1. /\ making' = Null /\ upvalues' = [upvalues EXCEPT ![k] = <<>>]
      /\ UNCHANGED <<stack, sp, kind, frames, heap, location, closedVal, openUpvalues, making,
                     cell, ucell>>
  BY DEF Forget, vm, objects
<1>2. TypeOK'
  BY <1>1 DEF Inv, TypeOK
<1>3. HeldInv'
  <2>1. \A j \in Closures : upvalues'[j] = upvalues[j] \/ upvalues'[j] = <<>>
    BY <1>1 DEF Inv, TypeOK
  <2>2. Elements(<<>>) = {}
    BY DEF Elements
  <2>3. \A j \in Closures : Elements(upvalues[j]) \subseteq heap
    BY DEF Inv, HeldInv
  <2>4. \A j \in Closures : Elements(upvalues'[j]) \subseteq heap
    BY <2>1, <2>2, <2>3
  <2> QED BY <1>1, <2>4 DEF HeldInv, Elements
<1> QED BY <1>1, <1>2, <1>3, QuietKeepsInv


----------------------------------------------------------------------------
(* Capturing a variable of the running function. *)

LEMMA CaptureLocalKeepsInv ==
  ASSUME ~ForIn, Inv, NEW slot \in Slots, NEW u \in Upvalues, CaptureLocal(slot, u)
  PROVE  Inv'
<1>1. /\ making # Null /\ slot \in frame.slots..sp /\ kind[slot] \in {"captured", "loop"}
      /\ UNCHANGED <<stack, sp, kind, frames, making, cell>>
  BY DEF CaptureLocal, vm
<1>2. /\ frames # <<>> /\ sp < MaxSlots /\ CellAvailable /\ making \in Closures
      /\ TypeOK /\ OpenInv /\ CellInv /\ FrameInv /\ HeldInv /\ Sorted
  BY <1>1, MakingFacts DEF Inv, OpenInv, Sorted
<1>3. slot \in Live /\ kind[slot] = "captured"
  <2>1. sp \in Nat /\ slot \in Nat /\ slot >= 1 /\ slot <= sp
    <3>1. frame.slots \in Nat
      BY <1>2, FrameType DEF frame, TypeOK
    <3> QED BY <1>1, <1>2, <3>1, UpvalueAssumption DEF TypeOK, Slots
  <2>2. slot \in Live
    BY <2>1 DEF Live
  <2> QED BY <1>1, <1>2, <2>2 DEF OpenInv
<1>4. CASE Reuse(slot)
  <2> DEFINE w == openUpvalues[Ahead(slot) + 1]
  <2>1. /\ Add(w) /\ UNCHANGED <<heap, location, closedVal, openUpvalues, ucell>>
    BY <1>4 DEF Reuse, objects
  <2>2. w \in Open /\ w \in Upvalues /\ w \in heap
    <3>1. Ahead(slot) \in 0..Len(openUpvalues) /\ Ahead(slot) < Len(openUpvalues)
      BY <1>2, <1>4, AheadFacts DEF Reuse, IsOpen
    <3>2. Ahead(slot) + 1 \in 1..Len(openUpvalues)
      BY <1>2, <3>1 DEF TypeOK
    <3> QED BY <1>2, <3>2 DEF Open, Elements, OpenInv, TypeOK
  <2>3. /\ upvalues' \in [Closures -> Seq(Upvalues)]
        /\ \A k \in Closures : Elements(upvalues'[k]) \subseteq heap
    <3> HIDE DEF w
    <3> QED BY <1>2, <2>1, <2>2, AddFacts
  <2>4. TypeOK' /\ HeldInv'
    BY <1>1, <1>2, <2>1, <2>3 DEF TypeOK, HeldInv, Elements
  <2> QED BY <1>1, <1>2, <2>1, <2>4, QuietKeepsInv
<1>5. CASE NewUpvalue(slot, u)
  <2>1. /\ u \notin heap /\ heap' = heap \cup {u}
        /\ location' = [location EXCEPT ![u] = slot]
        /\ closedVal' = [closedVal EXCEPT ![u] = Nil]
        /\ ucell' = [ucell EXCEPT ![u] = cell[slot]]
        /\ Add(u)
    BY <1>5 DEF NewUpvalue
  <2>2. Open \subseteq heap /\ heap \subseteq Upvalues
    BY <1>2 DEF OpenInv, Open, TypeOK
  <2>3. /\ openUpvalues' \in Seq(Upvalues) /\ Sorted' /\ Open' = Open \cup {u}
        /\ \A w \in Open : location[w] # slot
    BY <1>2, <1>5, <2>2, LinkEffect
  <2>4. /\ \A w \in heap : location'[w] = location[w] /\ ucell'[w] = ucell[w] /\ w # u
        /\ location'[u] = slot /\ ucell'[u] = cell[slot] /\ cell[slot] \in Cells
    BY <1>2, <1>3, <2>1 DEF TypeOK, Live
  <2>5. /\ upvalues' \in [Closures -> Seq(Upvalues)]
        /\ \A k \in Closures : Elements(upvalues'[k]) \subseteq heap'
    BY <1>2, <2>1, AddFacts
  <2>6. TypeOK'
    <3>1. /\ heap' \subseteq Upvalues
          /\ location' \in [Upvalues -> Slots \cup {Closed}]
          /\ ucell' \in [Upvalues -> Cells \cup {NoCell}]
          /\ \A w \in heap' : ucell'[w] \in Cells
      BY <1>2, <2>1, <2>4 DEF TypeOK
    <3>2. closedVal' \in [Upvalues -> Values]
      BY <1>2, <2>1, UpvalueAssumption DEF TypeOK
    <3> QED BY <1>1, <1>2, <2>3, <2>5, <3>1, <3>2 DEF TypeOK
  <2>7. Live' = Live /\ slot # Closed
    BY <1>1, UpvalueAssumption DEF Live, Slots, Closed
  <2>8. OpenInv'
    <3>1. ASSUME NEW w \in Open'
          PROVE  w \in heap' /\ location'[w] # Closed /\ location'[w] \in Live
                 /\ kind[location'[w]] = "captured"
      BY <1>2, <1>3, <2>1, <2>2, <2>3, <2>4, <2>7 DEF OpenInv, Open
    <3>2. ASSUME ~Errors, NEW w \in heap', location'[w] # Closed
          PROVE  w \in Open'
      BY <1>2, <2>1, <2>3, <2>4, <3>2 DEF OpenInv, Open
    <3> QED BY <1>1, <1>2, <2>3, <2>7, <3>1, <3>2 DEF OpenInv, Open, Sorted
  <2>9. CellInv'
    <3>1. ASSUME NEW w \in heap PROVE ucell[w] # cell[slot]
      BY <1>2, <1>3, <2>3 DEF CellInv, Open
    <3>2. \A v, w \in heap' : ucell'[v] = ucell'[w] => v = w
      BY <1>2, <2>1, <2>4, <3>1 DEF CellInv
    <3>3. ASSUME NEW w \in heap', NEW s \in Live
          PROVE  ucell'[w] = cell[s] <=> w \in Open' /\ location'[w] = s
      <4>1. CASE w = u
        <5>1. cell[slot] = cell[s] <=> slot = s
          BY <1>2, <1>3 DEF CellInv
        <5> QED BY <2>3, <2>4, <4>1, <5>1
      <4>2. CASE w # u
        <5>1. w \in heap /\ (w \in Open' <=> w \in Open)
          BY <2>1, <2>3, <4>2
        <5> QED BY <1>2, <2>4, <5>1 DEF CellInv, Open
      <4> QED BY <4>1, <4>2
    <3>4. \A s, r \in Live : cell[s] = cell[r] => s = r
      BY <1>2 DEF CellInv
    <3> QED BY <1>1, <2>7, <3>2, <3>3, <3>4 DEF CellInv, Open
  <2>10. FrameInv'
    <3>1. UsedCells' = UsedCells
      <4>1. \A w \in heap' : ucell'[w] \in UsedCells
        BY <1>3, <2>1, <2>4 DEF UsedCells
      <4>2. \A w \in heap : ucell'[w] = ucell[w] /\ w \in heap'
        BY <2>1, <2>4
      <4> QED BY <1>1, <2>7, <4>1, <4>2 DEF UsedCells
    <3>2. CellAvailable'
      BY <1>2, <3>1 DEF CellAvailable
    <3> QED BY <1>1, <1>2, <3>2 DEF FrameInv
  <2>11. HeldInv'
    BY <2>5 DEF HeldInv, Elements
  <2> QED BY <2>6, <2>8, <2>9, <2>10, <2>11 DEF Inv
<1> QED BY <1>4, <1>5 DEF CaptureLocal

----------------------------------------------------------------------------
(* Calls, runs and collections. *)

LEMMA EnterFrameKeepsInv ==
  ASSUME ~ForIn, Inv, NEW k \in Closures, NEW callee \in Int, NEW first \in {callee, callee + 1},
         NEW P, EnterFrame(k, callee, first, P), callee <= sp, stack' \in [Slots -> Values]
  PROVE  Inv'
<1> DEFINE L == Len(frames)
           new == [slots |-> first, rewind |-> callee - 1, closure |-> k]
<1>1. /\ TypeOK /\ Sorted /\ frames # <<>> /\ making = Null /\ sp \in Nat
      /\ L \in Nat /\ L \in 1..L
      /\ frame.slots \in Nat \ {0} /\ frame.rewind \in Nat /\ frame.rewind < frame.slots
      /\ OpenInv /\ CellInv /\ FrameInv /\ HeldInv /\ MaxSlots \in Nat /\ sp <= MaxSlots
  BY SMTT(30), RunningFacts, UpvalueAssumption DEF EnterFrame, Inv, TypeOK
<1>2. /\ callee >= frame.slots /\ \A s \in callee..sp : kind[s] = "plain"
      /\ P \subseteq first..sp
      /\ kind' = [s \in Live |-> IF s \in P THEN "captured" ELSE kind[s]]
      /\ frames' = Append(frames, new)
      /\ UNCHANGED <<sp, heap, location, closedVal, openUpvalues, upvalues, making, cell, ucell>>
  BY DEF EnterFrame, objects
<1>3. /\ callee \in 1..sp /\ first \in 1..sp + 1 /\ callee \in Nat /\ first \in Nat
      /\ callee <= first
  BY <1>1, <1>2
<1>4. new \in Frames
  BY <1>1, <1>3 DEF Frames
<1>5. /\ frames' \in Seq(Frames) /\ Len(frames') = L + 1 /\ frames' # <<>>
      /\ \A j \in 1..L : frames'[j] = frames[j]
      /\ frames'[L + 1] = new
  <2>1. frames \in Seq(Frames)
    BY <1>1 DEF TypeOK
  <2>2. /\ frames' \in Seq(Frames) /\ Len(frames') = L + 1
        /\ \A j \in 1..L : frames'[j] = frames[j]
        /\ frames'[L + 1] = new
    <3> HIDE DEF new
    <3> QED BY <1>2, <1>4, <2>1, AppendFacts
  <2>3. L + 1 # 0 /\ Len(<<>>) = 0
    BY <1>1
  <2> QED BY <2>2, <2>3
<1>6. /\ kind' \in Seq(Kinds) /\ Len(kind') = sp
      /\ \A s \in Live : kind'[s] = IF s \in P THEN "captured" ELSE kind[s]
  <2>1. kind \in [1..sp -> Kinds]
    BY <1>1 DEF TypeOK
  <2>2. kind' \in [1..sp -> Kinds]
    BY <1>2, <2>1 DEF Live, Kinds
  <2>3. kind' \in Seq(Kinds)
    BY <1>1, <2>2 DEF Live
  <2>4. Len(kind') = sp
    BY <1>1, <2>2, <2>3
  <2> QED BY <1>2, <2>3, <2>4
<1>7. TypeOK'
  BY <1>1, <1>2, <1>5, <1>6 DEF TypeOK
<1>8. Live' = Live /\ Elements(openUpvalues)' = Elements(openUpvalues)
  BY <1>2 DEF Live, Elements
<1>9. OpenInv'
  BY <1>1, <1>2, <1>5, <1>6, <1>8 DEF OpenInv
<1>10. CellInv' /\ HeldInv'
  BY <1>1, <1>2, <1>8 DEF CellInv, HeldInv, Elements
<1>11. FrameInv'
  <2>1. ASSUME NEW j \in 1..L
        PROVE  /\ frames[j].rewind < frames[j].slots /\ frames[j].slots <= sp + 1
               /\ \A s \in frames[j].rewind + 1..frames[j].slots - 1 : kind'[s] = "plain"
               /\ \A m \in 1..j - 1 : frames[m].slots <= frames[j].rewind + 1
               /\ frames[j].slots <= callee
    <3>1. frames[j].rewind \in Nat /\ frames[j].slots \in Nat
      BY <1>1, FrameType
    <3>2. /\ frames[j].rewind < frames[j].slots /\ frames[j].slots <= sp + 1
          /\ \A s \in frames[j].rewind + 1..frames[j].slots - 1 : kind[s] = "plain"
          /\ \A m \in 1..j - 1 : frames[m].slots <= frames[j].rewind + 1
      BY <1>1 DEF FrameInv
    <3>3. frames[j].slots <= callee
      <4>1. CASE j = L
        BY <1>2, <4>1 DEF frame
      <4>2. CASE j # L
        <5>1. j \in 1..L - 1
          BY <1>1, <4>2
        <5>2. frames[j].slots <= frame.rewind + 1
          BY <1>1, <5>1 DEF FrameInv, frame
        <5> QED BY <1>1, <1>2, <1>3, <3>1, <5>2
      <4> QED BY <4>1, <4>2
    <3>4. ASSUME NEW s \in frames[j].rewind + 1..frames[j].slots - 1
          PROVE  kind'[s] = "plain"
      <4>1. s \in Live /\ s < first
        BY <1>1, <1>3, <3>1, <3>2, <3>3 DEF Live
      <4>2. s \notin P
        BY <1>2, <1>3, <4>1
      <4> QED BY <1>6, <3>2, <4>1, <4>2
    <3> QED BY <3>2, <3>3, <3>4
  <2>2. /\ new.rewind < new.slots /\ new.slots <= sp + 1
        /\ \A s \in new.rewind + 1..new.slots - 1 : kind'[s] = "plain"
        /\ \A m \in 1..L : frames[m].slots <= new.rewind + 1
    <3>1. new.rewind = callee - 1 /\ new.slots = first /\ callee - 1 + 1 = callee
      BY <1>3
    <3>2. ASSUME NEW s \in callee..first - 1 PROVE kind'[s] = "plain"
      <4>1. s = callee /\ s \in Live /\ s < first
        BY <1>1, <1>3 DEF Live
      <4>2. s \notin P /\ s \in callee..sp
        BY <1>1, <1>2, <1>3, <4>1
      <4> QED BY <1>2, <1>6, <4>1, <4>2
    <3> HIDE DEF new
    <3> QED BY <1>3, <2>1, <3>1, <3>2
  <2>3. frames'[1].rewind = 0
    <3>1. 1 \in 1..L
      BY <1>1
    <3> QED BY <1>1, <1>5, <3>1 DEF FrameInv
  <2>4. ASSUME NEW j \in 1..L + 1
        PROVE  /\ frames'[j].rewind < frames'[j].slots /\ frames'[j].slots <= sp + 1
               /\ \A s \in frames'[j].rewind + 1..frames'[j].slots - 1 : kind'[s] = "plain"
               /\ \A m \in 1..j - 1 : frames'[m].slots <= frames'[j].rewind + 1
    <3>1. CASE j \in 1..L
      <4>1. \A m \in 1..j - 1 : m \in 1..L
        BY <1>1, <3>1
      <4> QED BY <1>5, <2>1, <3>1, <4>1
    <3>2. CASE j = L + 1
      <4>1. j - 1 = L
        BY <1>1, <3>2
      <4> HIDE DEF new, L
      <4> QED BY <1>5, <2>2, <3>2, <4>1
    <3> QED BY <1>1, <3>1, <3>2
  <2> HIDE DEF new, L
  <2> QED BY <1>1, <1>2, <1>5, <2>3, <2>4 DEF FrameInv
<1> QED BY <1>7, <1>9, <1>10, <1>11 DEF Inv

LEMMA CallKeepsInv ==
  ASSUME ~ForIn, Inv, NEW k \in Closures, NEW n \in 0..MaxSlots, NEW P,
         Call(k, n, P) \/ \E v \in Values : CallWithReceiver(k, n, v, P)
  PROVE  Inv'
<1>1. sp \in Nat /\ n \in Nat /\ TypeOK
  BY UpvalueAssumption DEF Inv, TypeOK
<1>2. sp - n \in Int /\ sp - n <= sp
  BY <1>1
<1>3. CASE Call(k, n, P)
  <2>1. EnterFrame(k, sp - n, sp - n + 1, P) /\ stack' \in [Slots -> Values]
    BY <1>1, <1>3 DEF Call, TypeOK
  <2> QED BY <1>2, <2>1, EnterFrameKeepsInv
<1>4. CASE \E v \in Values : CallWithReceiver(k, n, v, P)
  <2>1. EnterFrame(k, sp - n, sp - n, P) /\ stack' \in [Slots -> Values]
    BY <1>1, <1>4 DEF CallWithReceiver, TypeOK
  <2> QED BY <1>2, <2>1, EnterFrameKeepsInv
<1> QED BY <1>3, <1>4

LEMMA msVMRunKeepsInv ==
  ASSUME Inv, msVMRun
  PROVE  Inv'
<1>1. /\ frames = <<>> /\ sp = 0 /\ PUSH(Nil, "plain") /\ frames' = <<topFrame>>
      /\ openUpvalues' = <<>>
      /\ UNCHANGED <<heap, location, closedVal, upvalues, making, ucell>>
  BY DEF msVMRun, OpenAtStart
<1>2. TypeOK /\ OpenInv /\ CellInv /\ FrameInv /\ HeldInv /\ Nil \in Values /\ "plain" \in Kinds
  BY UpvalueAssumption DEF Inv, Kinds
<1>3. /\ sp' = 1 /\ sp' \in 0..MaxSlots
      /\ stack' \in [Slots -> Values]
      /\ kind' \in Seq(Kinds) /\ Len(kind') = 1 /\ kind'[1] = "plain"
      /\ cell' \in Seq(Cells) /\ Len(cell') = 1
      /\ cell'[1] \notin UsedCells
      /\ Live' = 1..1
  BY <1>1, <1>2, PushEffect DEF Live
<1>4. topFrame \in Frames
  BY <1>1, UpvalueAssumption DEF topFrame, Frames, PUSH
<1>5. /\ frames' \in Seq(Frames) /\ Len(frames') = 1 /\ frames'[1] = topFrame /\ frames' # <<>>
  BY <1>1, <1>4
<1>6. /\ Len(openUpvalues') = 0 /\ openUpvalues' \in Seq(Upvalues)
      /\ Elements(openUpvalues)' = {}
  BY <1>1 DEF Elements
<1>7. TypeOK'
  BY <1>1, <1>2, <1>3, <1>5, <1>6 DEF TypeOK
<1>8. OpenInv'
  <2>1. ~Errors => \A u \in heap : location[u] = Closed
    BY <1>1, <1>2 DEF OpenInv
  <2>2. \A s \in Live' : kind'[s] # "loop"
    BY <1>3
  <2> QED BY <1>1, <1>6, <2>1, <2>2 DEF OpenInv
<1>9. CellInv'
  <2>1. /\ \A u \in heap : ucell[u] # cell'[1]
        /\ \A s \in Live' : s = 1
    BY <1>3 DEF UsedCells
  <2> QED BY <1>1, <1>2, <1>6, <2>1 DEF CellInv
<1>10. FrameInv'
  <2>1. topFrame.rewind = 0 /\ topFrame.slots = 2
    BY DEF topFrame
  <2>2. making' = Null
    BY <1>1, <1>2 DEF FrameInv
  <2>3. \A s \in topFrame.rewind + 1..topFrame.slots - 1 : kind'[s] = "plain"
    BY <1>3, <2>1
  <2>4. \A n \in 1..Len(frames') : n = 1
    BY <1>5
  <2> QED BY <1>3, <1>5, <2>1, <2>2, <2>3, <2>4 DEF FrameInv
<1>11. HeldInv'
  BY <1>1, <1>2 DEF HeldInv, Elements
<1> QED BY <1>7, <1>8, <1>9, <1>10, <1>11 DEF Inv

(* A run that fails leaves its upvalues as they are; the list is still one *)
(* of open upvalues, but not of slots in use. *)
LEMMA FailKeepsInv ==
  ASSUME Inv, Fail
  PROVE  Inv'
<1>1. /\ Errors /\ frames # <<>> /\ making = Null /\ frames' = <<>> /\ Rewind(0)
      /\ UNCHANGED <<stack, heap, location, closedVal, openUpvalues, upvalues, making, ucell>>
  BY DEF Fail, Running, objects
<1>2. TypeOK /\ OpenInv /\ CellInv /\ FrameInv /\ HeldInv /\ 0 \in 0..sp
  BY UpvalueAssumption DEF Inv, TypeOK
<1>3. /\ sp' = 0 /\ sp' \in 0..MaxSlots /\ Live' = 1..0
      /\ kind' \in Seq(Kinds) /\ Len(kind') = 0 /\ cell' \in Seq(Cells) /\ Len(cell') = 0
  BY <1>1, <1>2, RewindEffect
<1>4. TypeOK'
  BY <1>1, <1>2, <1>3 DEF TypeOK
<1>5. OpenInv'
  <2>1. \A s \in Live' : FALSE
    BY <1>3
  <2>2. Elements(openUpvalues)' = Elements(openUpvalues)
    BY <1>1 DEF Elements
  <2> QED BY <1>1, <1>2, <2>1, <2>2 DEF OpenInv
<1>6. CellInv' /\ HeldInv'
  BY <1>1, <1>2, <1>3 DEF CellInv, HeldInv, Elements
<1>7. FrameInv'
  <2>1. Len(frames') = 0
    BY <1>1
  <2> QED BY <1>1, <1>3, <2>1 DEF FrameInv
<1> QED BY <1>4, <1>5, <1>6, <1>7 DEF Inv

LEMMA CollectKeepsInv ==
  ASSUME Inv, NEW u \in Upvalues, Collect(u)
  PROVE  Inv'
<1>1. /\ making = Null /\ u \in heap /\ u \notin Elements(openUpvalues)
      /\ \A k \in Closures : u \notin Elements(upvalues[k])
      /\ heap' = heap \ {u}
      /\ location' = [location EXCEPT ![u] = Closed]
      /\ closedVal' = [closedVal EXCEPT ![u] = Nil]
      /\ ucell' = [ucell EXCEPT ![u] = NoCell]
      /\ UNCHANGED <<stack, sp, kind, frames, openUpvalues, upvalues, making, cell>>
  BY DEF Collect, vm
<1>2. TypeOK /\ OpenInv /\ CellInv /\ FrameInv /\ HeldInv
  BY DEF Inv
<1>3. /\ \A w \in Upvalues \ {u} : location'[w] = location[w] /\ ucell'[w] = ucell[w]
      /\ location'[u] = Closed /\ heap \subseteq Upvalues
      /\ \A w \in Elements(openUpvalues) : w \in Upvalues \ {u}
      /\ Live' = Live /\ Elements(openUpvalues)' = Elements(openUpvalues)
  BY <1>1, <1>2 DEF TypeOK, Elements, Live
<1>4. TypeOK'
  <2>1. closedVal' \in [Upvalues -> Values]
    BY <1>1, <1>2, UpvalueAssumption DEF TypeOK
  <2>2. /\ location' \in [Upvalues -> Slots \cup {Closed}]
        /\ ucell' \in [Upvalues -> Cells \cup {NoCell}]
        /\ heap' \subseteq Upvalues /\ \A w \in heap' : ucell'[w] \in Cells
    BY <1>1, <1>2, <1>3 DEF TypeOK
  <2> QED BY <1>1, <1>2, <2>1, <2>2 DEF TypeOK
<1>5. OpenInv'
  <2>1. \A j \in 1..Len(openUpvalues) : location'[openUpvalues[j]] = location[openUpvalues[j]]
    BY <1>3 DEF Elements
  <2>2. ASSUME NEW w \in Elements(openUpvalues) PROVE w \in heap' /\ location'[w] = location[w]
    BY <1>1, <1>2, <1>3 DEF OpenInv
  <2>3. ASSUME NEW w \in heap' PROVE w \in heap /\ location'[w] = location[w]
    BY <1>1, <1>2, <1>3
  <2> QED BY <1>1, <1>2, <1>3, <2>1, <2>2, <2>3 DEF OpenInv
<1>6. CellInv'
  <2>1. \A w \in heap' : w \in heap /\ location'[w] = location[w] /\ ucell'[w] = ucell[w]
    BY <1>1, <1>3
  <2>2. /\ \A w, x \in heap' : ucell'[w] = ucell'[x] => w = x
        /\ \A s, r \in Live : cell[s] = cell[r] => s = r
        /\ \A w \in heap', s \in Live :
             ucell'[w] = cell[s] <=> w \in Elements(openUpvalues) /\ location'[w] = s
    BY <1>2, <2>1 DEF CellInv
  <2> QED BY <1>1, <1>3, <2>2 DEF CellInv
<1>7. FrameInv' /\ HeldInv'
  BY <1>1, <1>2 DEF FrameInv, HeldInv, Elements
<1> QED BY <1>4, <1>5, <1>6, <1>7 DEF Inv


----------------------------------------------------------------------------
(* The invariant. *)

LEMMA InitInv == Init => Inv
<1> SUFFICES ASSUME Init PROVE Inv
  OBVIOUS
<1>1. /\ Len(kind) = 0 /\ Len(cell) = 0 /\ Len(frames) = 0 /\ Len(openUpvalues) = 0
      /\ kind \in Seq(Kinds) /\ cell \in Seq(Cells) /\ frames \in Seq(Frames)
      /\ openUpvalues \in Seq(Upvalues) /\ <<>> \in Seq(Upvalues)
  BY DEF Init
<1>2. \A k \in Closures : Elements(upvalues[k]) = {}
  BY DEF Init, Elements
<1>3. \A s \in Live : FALSE
  BY DEF Init, Live
<1>4. TypeOK
  BY <1>1, UpvalueAssumption DEF Init, TypeOK
<1>5. OpenInv
  BY <1>1, <1>3 DEF Init, OpenInv, Elements
<1>6. CellInv
  BY <1>3 DEF Init, CellInv
<1>7. FrameInv
  BY <1>1 DEF Init, FrameInv
<1>8. HeldInv
  BY <1>2 DEF HeldInv
<1> QED BY <1>4, <1>5, <1>6, <1>7, <1>8 DEF Inv

LEMMA StepKeepsInv ==
  ASSUME ~ForIn, Inv, [Next]_vars
  PROVE  Inv'
<1>1. /\ "plain" \in Kinds \ {"loop"} /\ Fn \in Values /\ Nil \in Values
      /\ stack \in [Slots -> Values] /\ sp \in 0..MaxSlots /\ MaxSlots \in Nat
  BY UpvalueAssumption DEF Kinds, Inv, TypeOK
<1>2. CASE msVMRun
  BY <1>2, msVMRunKeepsInv
<1>3. ASSUME NEW v \in Values, NEW kd \in Kinds, Push(v, kd) PROVE Inv'
  <2>1. /\ frames # <<>> /\ making' = Null /\ kd \in Kinds \ {"loop"} /\ PUSH(v, kd)
        /\ UNCHANGED <<frames, objects, upvalues, ucell>>
    BY <1>3 DEF Push, Running
  <2> QED BY <2>1, PushKeepsInv
<1>4. ASSUME NEW s \in Slots, GetLocal(s) PROVE Inv'
  <2>1. /\ frames # <<>> /\ making' = Null /\ PUSH(stack[s], "plain")
        /\ UNCHANGED <<frames, objects, upvalues, ucell>>
    BY <1>4 DEF GetLocal, Running
  <2>2. stack[s] \in Values
    BY <1>1
  <2> QED BY <1>1, <2>1, <2>2, PushKeepsInv
<1>5. ASSUME NEW s \in Slots, SetLocal(s) PROVE Inv'
  BY <1>5, SetLocalKeepsInv
<1>6. ASSUME NEW idx \in 1..MaxCaptured, GetUpvalue(idx) PROVE Inv'
  <2> DEFINE v == deref(upvalues[frame.closure][idx])
  <2>1. /\ frames # <<>> /\ making' = Null /\ PUSH(v, "plain")
        /\ UNCHANGED <<frames, objects, upvalues, ucell>>
    BY <1>6 DEF GetUpvalue, Running
  <2>2. v \in Values
    BY <1>6, <2>1, CapturedFacts DEF GetUpvalue
  <2> HIDE DEF v
  <2> QED BY <1>1, <2>1, <2>2, PushKeepsInv
<1>7. ASSUME NEW idx \in 1..MaxCaptured, SetUpvalue(idx) PROVE Inv'
  BY <1>7, SetUpvalueKeepsInv
<1>8. ASSUME NEW idx \in 1..MaxCaptured, CaptureEnclosing(idx) PROVE Inv'
  BY <1>8, CaptureEnclosingKeepsInv
<1>9. CASE Pop
  BY <1>9, PopKeepsInv
<1>10. CASE CloseUpvalue
  BY <1>10, CloseUpvalueKeepsInv
<1>11. ASSUME NEW k \in Closures, BeginMakeFunc(k) PROVE Inv'
  BY <1>11, BeginMakeFuncKeepsInv
<1>12. ASSUME NEW k \in Closures, Forget(k) PROVE Inv'
  BY <1>12, ForgetKeepsInv
<1>13. ASSUME NEW s \in Slots, NEW u \in Upvalues, CaptureLocal(s, u) PROVE Inv'
  BY <1>13, CaptureLocalKeepsInv
<1>14. CASE EndMakeFunc
  <2>1. /\ making # Null /\ making' = Null /\ PUSH(Fn, "plain")
        /\ UNCHANGED <<frames, objects, upvalues, ucell>>
    BY <1>14 DEF EndMakeFunc
  <2> QED BY <1>1, <2>1, MakingFacts, PushKeepsInv
<1>15. ASSUME NEW k \in Closures, NEW n \in 0..MaxSlots, NEW P \in SUBSET ((sp - n)..sp),
              Call(k, n, P) \/ \E v \in Values : CallWithReceiver(k, n, v, P)
       PROVE  Inv'
  BY <1>15, CallKeepsInv
<1>16. CASE Return
  <2>1. LeaveFrame(stack[sp]) /\ Running /\ sp >= frame.slots
    BY <1>16 DEF Return
  <2>2. sp \in Slots
    <3>1. frame.slots \in Nat \ {0}
      BY <2>1, RunningFacts
    <3> QED BY <1>1, <2>1, <3>1 DEF Slots
  <2> QED BY <1>1, <2>1, <2>2, LeaveFrameKeepsInv
<1>17. CASE ReturnNil
  BY <1>1, <1>17, LeaveFrameKeepsInv DEF ReturnNil
<1>18. CASE ReturnTop
  BY <1>18, ReturnTopKeepsInv
<1>19. CASE Fail
  BY <1>19, FailKeepsInv
<1>20. ASSUME NEW u \in Upvalues, Collect(u) PROVE Inv'
  BY <1>20, CollectKeepsInv
<1>21. CASE UNCHANGED vars
  <2>1. UNCHANGED <<stack, sp, kind, frames, heap, location, closedVal, openUpvalues, upvalues,
                    making, cell, ucell>>
    BY <1>21 DEF vars, vm, objects
  <2>2. TypeOK' /\ HeldInv'
    BY <2>1 DEF Inv, TypeOK, HeldInv, Elements
  <2>3. making' = Null \/ (frames # <<>> /\ sp < MaxSlots /\ CellAvailable)
    BY <2>1, MakingFacts
  <2> QED BY <2>1, <2>2, <2>3, QuietKeepsInv
<1> QED
  BY <1>2, <1>3, <1>4, <1>5, <1>6, <1>7, <1>8, <1>9, <1>10, <1>11, <1>12, <1>13, <1>14,
     <1>15, <1>16, <1>17, <1>18, <1>19, <1>20, <1>21 DEF Next

(* The variables of the functions that run and those that their closures    *)
(* have captured stay what they are through every push, capture, call,      *)
(* return, failure and collection, as long as no closure captures the       *)
(* variable of a for-in loop.                                               *)
THEOREM Invariance == ASSUME ~ForIn PROVE Spec => []Inv
<1>1. Inv /\ [Next]_vars => Inv'
  BY StepKeepsInv
<1> QED BY InitInv, <1>1, PTL DEF Spec

(* In a program whose runs do not fail, what a closure has captured is      *)
(* either in the closure's upvalue or in the slot of a variable that is     *)
(* still that variable.                                                     *)
THEOREM NothingDangles == ASSUME ~ForIn, ~Errors PROVE Spec => []NoDangling
<1>1. Inv => NoDangling
  <2> SUFFICES ASSUME Inv, NEW k \in Closures, NEW u \in Elements(upvalues[k]),
                      location[u] # Closed
               PROVE  location[u] \in Live /\ cell[location[u]] = ucell[u]
    BY DEF NoDangling
  <2>1. u \in heap
    BY DEF Inv, HeldInv
  <2>2. u \in Elements(openUpvalues) /\ location[u] \in Live
    BY <2>1 DEF Inv, OpenInv
  <2> QED BY <2>1, <2>2 DEF Inv, CellInv
<1> QED BY Invariance, <1>1, PTL

(* Whatever runs have failed before, the list of open upvalues is one of    *)
(* the variables of this run.                                               *)
THEOREM NothingStale == ASSUME ~ForIn PROVE Spec => []NoStaleEntries
<1>1. Inv => NoStaleEntries
  <2> SUFFICES ASSUME Inv, frames # <<>>, NEW n \in 1..Len(openUpvalues)
               PROVE  LET u == openUpvalues[n] IN
                      u \in heap /\ location[u] \in Live /\ cell[location[u]] = ucell[u]
    BY DEF NoStaleEntries
  <2>1. openUpvalues[n] \in Elements(openUpvalues)
    BY DEF Elements
  <2>2. openUpvalues[n] \in heap /\ location[openUpvalues[n]] \in Live
    BY <2>1 DEF Inv, OpenInv
  <2> QED BY <2>1, <2>2 DEF Inv, CellInv
<1> QED BY Invariance, <1>1, PTL


----------------------------------------------------------------------------
(* Variables as cells of their own: what is in a cell. *)

Held == UNION {Elements(upvalues[k]) : k \in Closures}

(* A captured variable is in its upvalue, one in scope in its slot, and if  *)
(* it is both then these are the same place.                                *)
CellsHoldValues ==
  /\ \A u \in heap : ucell[u] \in Cells /\ CellValue(ucell[u]) = deref(u)
  /\ \A s \in Live : s \in Slots /\ cell[s] \in Cells /\ CellValue(cell[s]) = stack[s]
  /\ \A c \in Cells : CellValue(c) \in Values
  /\ UsedCells \subseteq Cells

LEMMA CellValues == Inv => CellsHoldValues
<1> SUFFICES ASSUME Inv PROVE CellsHoldValues
  OBVIOUS
<1>1. TypeOK /\ OpenInv /\ CellInv
  BY DEF Inv
<1>2. \A s \in Live : s \in Slots /\ cell[s] \in Cells
  BY <1>1, UpvalueAssumption DEF TypeOK, Live, Slots
<1>3. \A u \in heap : u \in Upvalues /\ ucell[u] \in Cells
  BY <1>1 DEF TypeOK
<1>4. ASSUME NEW u \in heap PROVE CellValue(ucell[u]) = deref(u)
  <2>1. \A w \in heap : ucell[w] = ucell[u] <=> w = u
    BY <1>1 DEF CellInv
  <2>2. (CHOOSE w \in heap : ucell[w] = ucell[u]) = u
    BY <2>1
  <2> QED BY <2>2 DEF CellValue
<1>5. ASSUME NEW s \in Live PROVE CellValue(cell[s]) = stack[s]
  <2>1. CASE \E u \in heap : ucell[u] = cell[s]
    <3>1. PICK u \in heap : ucell[u] = cell[s]
      BY <2>1
    <3>2. location[u] = s
      BY <1>1, <3>1 DEF CellInv
    <3>3. s # Closed
      BY <1>2, UpvalueAssumption DEF Slots, Closed
    <3> QED BY <1>4, <3>1, <3>2, <3>3 DEF deref
  <2>2. CASE ~\E u \in heap : ucell[u] = cell[s]
    <3>1. \A r \in Live : cell[r] = cell[s] <=> r = s
      BY <1>1 DEF CellInv
    <3>2. (CHOOSE r \in Live : cell[r] = cell[s]) = s
      BY <3>1
    <3> QED BY <2>2, <3>2 DEF CellValue
  <2> QED BY <2>1, <2>2
<1>6. ASSUME NEW u \in heap PROVE deref(u) \in Values
  <2>1. u \in Upvalues /\ (location[u] = Closed \/ location[u] \in Slots)
    BY <1>1, <1>3 DEF TypeOK
  <2> QED BY <1>1, <2>1 DEF TypeOK, deref
<1>7. ASSUME NEW c \in Cells PROVE CellValue(c) \in Values
  <2>1. CASE \E u \in heap : ucell[u] = c
    BY <1>4, <1>6, <2>1
  <2>2. CASE ~(\E u \in heap : ucell[u] = c) /\ \E s \in Live : cell[s] = c
    <3>1. PICK s \in Live : cell[s] = c
      BY <2>2
    <3> QED BY <1>1, <1>2, <1>5, <3>1 DEF TypeOK
  <2>3. CASE ~(\E u \in heap : ucell[u] = c) /\ ~\E s \in Live : cell[s] = c
    BY <2>3, UpvalueAssumption DEF CellValue
  <2> QED BY <2>1, <2>2, <2>3
<1>8. UsedCells \subseteq Cells
  BY <1>2, <1>3 DEF UsedCells
<1> QED BY <1>2, <1>3, <1>4, <1>5, <1>7, <1>8 DEF CellsHoldValues

LEMMA CellValuesNext == Inv' => CellsHoldValues'
  BY CellValues, PTL

(* The state of MsVariables, as MsUpvalue has it. *)
avalue == [c \in Cells |-> CellValue(c)]
acaptures == [k \in Closures |-> [n \in DOMAIN upvalues[k] |-> ucell[upvalues[k][n]]]]

(* What is live in MsVariables is in use here. *)
AllLiveUsed == Variables!Live \subseteq UsedCells

LEMMA LiveIsUsed == Inv => AllLiveUsed
<1> SUFFICES ASSUME Inv, NEW c \in Variables!Live PROVE c \in UsedCells
  BY DEF AllLiveUsed
<1>1. TypeOK /\ HeldInv
  BY DEF Inv
<1>2. CASE c \in Variables!InScope
  <2>1. \A n \in 1..Len(cell) : n \in Live
    BY <1>1 DEF TypeOK, Live
  <2> QED BY <1>2, <2>1 DEF Variables!InScope, UsedCells
<1>3. ASSUME NEW k \in Closures, c \in Variables!Captured(k) PROVE c \in UsedCells
  <2> DEFINE q == [n \in DOMAIN upvalues[k] |-> ucell[upvalues[k][n]]]
  <2>1. upvalues[k] \in Seq(Upvalues) /\ acaptures[k] = q
    BY <1>1 DEF TypeOK, acaptures
  <2>2. Len(q) = Len(upvalues[k]) /\ DOMAIN upvalues[k] = 1..Len(upvalues[k])
    BY <2>1
  <2>3. PICK n \in 1..Len(q) : c = q[n]
    BY <1>3, <2>1 DEF Variables!Captured
  <2>4. c = ucell[upvalues[k][n]] /\ upvalues[k][n] \in heap
    BY <1>1, <2>2, <2>3 DEF HeldInv, Elements
  <2> QED BY <2>4 DEF UsedCells
<1> QED BY <1>2, <1>3 DEF Variables!Live

LEMMA LiveIsUsedNext == Inv' => AllLiveUsed'
  BY LiveIsUsed, PTL

(* A slot's variable and a captured one are live there. *)
LEMMA IsLive ==
  ASSUME Inv
  PROVE  /\ \A s \in Live : cell[s] \in Variables!Live
         /\ \A k \in Closures : \A n \in 1..Len(upvalues[k]) :
              ucell[upvalues[k][n]] \in Variables!Live
<1>1. TypeOK
  BY DEF Inv
<1>2. ASSUME NEW s \in Live PROVE cell[s] \in Variables!Live
  <2>1. s \in 1..Len(cell)
    BY <1>1 DEF TypeOK, Live
  <2> QED BY <2>1 DEF Variables!Live, Variables!InScope
<1>3. ASSUME NEW k \in Closures, NEW n \in 1..Len(upvalues[k])
      PROVE  ucell[upvalues[k][n]] \in Variables!Live
  <2> DEFINE q == [m \in DOMAIN upvalues[k] |-> ucell[upvalues[k][m]]]
  <2>1. upvalues[k] \in Seq(Upvalues)
    BY <1>1 DEF TypeOK
  <2>2. n \in 1..Len(q) /\ q[n] = ucell[upvalues[k][n]]
    BY <2>1
  <2>3. ucell[upvalues[k][n]] \in Variables!Captured(k)
    BY <2>2 DEF Variables!Captured
  <2> QED BY <2>3 DEF Variables!Live
<1> QED BY <1>2, <1>3

(* A step in which every slot and every upvalue keeps its variable and the  *)
(* variable its value, or begins with a variable of its own or of a slot,   *)
(* keeps the values of all variables that go on.                            *)
LEMMA ValuesKept ==
  ASSUME Inv, Inv',
         \A s \in Live' : \/ s \in Live /\ cell'[s] = cell[s] /\ stack'[s] = stack[s]
                          \/ cell'[s] \notin UsedCells,
         \A u \in heap' : \/ u \in heap /\ ucell'[u] = ucell[u] /\ deref(u)' = deref(u)
                          \/ \E s \in Live' : ucell'[u] = cell'[s]
  PROVE  /\ avalue' \in [Cells -> Values]
         /\ Variables!KeepsLive
<1>1. CellsHoldValues /\ CellsHoldValues'
  BY CellValues, CellValuesNext
<1>2. avalue' \in [Cells -> Values]
  <2>1. \A c \in Cells : CellValue(c)' \in Values
    BY <1>1 DEF CellsHoldValues
  <2> QED BY <2>1 DEF avalue
<1>3. ASSUME NEW s \in Live', cell'[s] \in UsedCells
      PROVE  CellValue(cell[s])' = CellValue(cell'[s])
  <2>1. s \in Live /\ cell'[s] = cell[s] /\ stack'[s] = stack[s]
    BY <1>3
  <2>2. CellValue(cell[s])' = stack'[s] /\ CellValue(cell[s]) = stack[s]
    BY <1>1, <1>3, <2>1 DEF CellsHoldValues
  <2> QED BY <2>1, <2>2
<1>4. ASSUME NEW c \in UsedCells, c \in UsedCells' PROVE CellValue(c)' = CellValue(c)
  <2>1. ASSUME NEW s \in Live', c = cell'[s] PROVE CellValue(c)' = CellValue(c)
    <3>1. CellValue(c)' = CellValue(cell[s])'
      BY <2>1
    <3> QED BY <1>3, <2>1, <3>1
  <2>2. ASSUME NEW u \in heap', c = ucell'[u] PROVE CellValue(c)' = CellValue(c)
    <3>1. CASE u \in heap /\ ucell'[u] = ucell[u] /\ deref(u)' = deref(u)
      <4>1. CellValue(ucell[u])' = deref(u)' /\ CellValue(ucell[u]) = deref(u)
        BY <1>1, <2>2, <3>1 DEF CellsHoldValues
      <4>2. CellValue(c)' = CellValue(ucell[u])'
        BY <2>2
      <4> QED BY <2>2, <3>1, <4>1, <4>2
    <3>2. CASE \E s \in Live' : ucell'[u] = cell'[s]
      BY <2>1, <2>2, <3>2
    <3> QED BY <3>1, <3>2
  <2> QED BY <1>4, <2>1, <2>2 DEF UsedCells
<1>5. ASSUME NEW c \in Variables!Live, c \in Variables!Live' PROVE avalue'[c] = avalue[c]
  <2>1. c \in UsedCells /\ c \in UsedCells' /\ c \in Cells
    BY <1>1, <1>5, LiveIsUsed, LiveIsUsedNext DEF CellsHoldValues, AllLiveUsed
  <2>2. CellValue(c)' = CellValue(c)
    BY <1>4, <2>1
  <2> QED BY <2>1, <2>2 DEF avalue
<1>6. Variables!KeepsLive
  BY <1>5 DEF Variables!KeepsLive, avalue
<1> QED BY <1>2, <1>6


----------------------------------------------------------------------------
(* Variables as cells of their own: the steps. *)

(* Without failed runs, an upvalue is closed or for a captured variable. *)
LEMMA OpenOrClosed ==
  ASSUME ~Errors, Inv
  PROVE  \A u \in heap : /\ u \in Upvalues /\ location[u] \in Nat
                         /\ \/ location[u] = Closed
                            \/ /\ frames # <<>> /\ u \in Open /\ location[u] \in Live
                               /\ kind[location[u]] = "captured"
                               /\ cell[location[u]] = ucell[u] /\ location[u] # Closed
<1>1. TypeOK /\ OpenInv /\ CellInv
  BY DEF Inv
<1> SUFFICES ASSUME NEW u \in heap
             PROVE  /\ u \in Upvalues /\ location[u] \in Nat
                    /\ location[u] # Closed =>
                         /\ frames # <<>> /\ u \in Open /\ location[u] \in Live
                         /\ kind[location[u]] = "captured" /\ cell[location[u]] = ucell[u]
  OBVIOUS
<1>2. u \in Upvalues /\ location[u] \in Nat
  BY <1>1, UpvalueAssumption DEF TypeOK, Slots, Closed
<1>3. location[u] # Closed =>
        /\ frames # <<>> /\ u \in Open /\ location[u] \in Live /\ kind[location[u]] = "captured"
  BY <1>1 DEF OpenInv, Open
<1>4. location[u] # Closed => cell[location[u]] = ucell[u]
  BY <1>1, <1>3 DEF CellInv, Open
<1> QED BY <1>2, <1>3, <1>4

LEMMA CapturesKept ==
  ASSUME UNCHANGED upvalues, \A k \in Closures : \A n \in DOMAIN upvalues[k] :
                               ucell'[upvalues[k][n]] = ucell[upvalues[k][n]]
  PROVE  acaptures' = acaptures
  BY DEF acaptures

(* What MsVariables has in the variable of a slot, before and after a step. *)
LEMMA SlotValue ==
  ASSUME Inv, NEW s \in Live
  PROVE  avalue[cell[s]] = stack[s]
  BY CellValues DEF CellsHoldValues, avalue

LEMMA SlotValueNext ==
  ASSUME Inv', NEW s \in Live'
  PROVE  avalue'[cell'[s]] = stack'[s]
<1> SUFFICES ASSUME NEW c, c = cell'[s] PROVE avalue'[c] = stack'[s]
  OBVIOUS
<1>1. CellValue(cell[s])' = stack'[s] /\ c \in Cells
  BY CellValuesNext DEF CellsHoldValues
<1>2. CellValue(c)' = CellValue(cell[s])'
  OBVIOUS
<1> QED BY <1>1, <1>2 DEF avalue

LEMMA PushEnters ==
  ASSUME ~Errors, Inv, Inv', NEW v \in Values, NEW kd \in Kinds, PUSH(v, kd),
         UNCHANGED <<heap, location, closedVal, upvalues, ucell>>
  PROVE  Variables!Next
<1>1. /\ stack'[sp + 1] = v /\ \A s \in Live : s \in Slots /\ stack'[s] = stack[s]
      /\ cell'[sp + 1] \in Cells /\ cell'[sp + 1] \notin UsedCells
      /\ \A s \in Live : cell'[s] = cell[s]
      /\ Live' = Live \cup {sp + 1} /\ sp + 1 \notin Live
      /\ cell' = Append(cell, fresh) /\ cell'[sp + 1] = fresh
  <2>1. TypeOK /\ CellsHoldValues
    BY CellValues DEF Inv
  <2>2. cell' = Append(cell, fresh) /\ cell'[sp + 1] = fresh
    <3>1. fresh \in Cells
      BY DEF PUSH, CellAvailable, fresh
    <3> QED BY <2>1, <3>1, AppendFacts DEF PUSH, TypeOK
  <2> QED BY <2>1, <2>2, PushEffect DEF CellsHoldValues
<1>2. \A u \in heap : deref(u)' = deref(u)
  <2> SUFFICES ASSUME NEW u \in heap PROVE deref(u)' = deref(u)
    OBVIOUS
  <2>1. location[u] = Closed \/ location[u] \in Live
    BY OpenOrClosed
  <2> QED BY <1>1, <2>1 DEF deref
<1>3. avalue' \in [Cells -> Values] /\ Variables!KeepsLive
  BY <1>1, <1>2, ValuesKept
<1>4. avalue'[fresh] = v
  <2>1. sp + 1 \in Live'
    BY <1>1
  <2> QED BY <1>1, <2>1, SlotValueNext
<1>5. fresh \in Cells /\ fresh \notin Variables!Live
  BY <1>1, LiveIsUsed DEF AllLiveUsed
<1>6. acaptures' = acaptures
  BY CapturesKept
<1>7. ASSUME NEW c \in Cells, c = fresh PROVE Variables!Enter(c, v)
  BY <1>1, <1>3, <1>4, <1>5, <1>6, <1>7 DEF Variables!Enter, avalue, acaptures
<1> QED BY <1>5, <1>7 DEF Variables!Next

(* A variable in scope is assigned through its slot, *)
LEMMA SlotAssigns ==
  ASSUME ~Errors, Inv, Inv', NEW s \in Live, NEW v \in Values, stack' = [stack EXCEPT ![s] = v],
         UNCHANGED <<sp, heap, location, closedVal, upvalues, cell, ucell>>
  PROVE  Variables!Next
<1>1. CellsHoldValues /\ CellsHoldValues' /\ Live' = Live
  BY CellValues, CellValuesNext DEF Live
<1>2. stack'[s] = v /\ \A r \in Live \ {s} : stack'[r] = stack[r]
  <2>1. stack \in [Slots -> Values] /\ \A r \in Live : r \in Slots
    BY <1>1 DEF CellsHoldValues, Inv, TypeOK
  <2> QED BY <2>1
<1>3. ASSUME NEW c \in UsedCells \ {cell[s]} PROVE CellValue(c)' = CellValue(c)
  <2>1. ASSUME NEW r \in Live, c = cell[r] PROVE CellValue(c)' = CellValue(c)
    <3>1. CellValue(cell[r])' = stack'[r] /\ CellValue(cell[r]) = stack[r] /\ r # s
      BY <1>1, <1>3, <2>1 DEF CellsHoldValues
    <3>2. CellValue(c)' = CellValue(cell[r])'
      BY <2>1
    <3> QED BY <1>2, <2>1, <3>1, <3>2
  <2>2. ASSUME NEW u \in heap, c = ucell[u] PROVE CellValue(c)' = CellValue(c)
    <3>1. CellValue(ucell[u])' = deref(u)' /\ CellValue(ucell[u]) = deref(u)
      BY <1>1 DEF CellsHoldValues
    <3>2. CellValue(c)' = CellValue(ucell[u])'
      BY <2>2
    <3>3. location[u] = Closed \/ location[u] \in Live \ {s}
      BY <1>3, <2>2, OpenOrClosed
    <3>4. deref(u)' = deref(u)
      BY <1>2, <3>3 DEF deref
    <3> QED BY <2>2, <3>1, <3>2, <3>4
  <2> QED BY <2>1, <2>2 DEF UsedCells
<1>4. avalue' \in [Cells -> Values] /\ avalue'[cell[s]] = v
  <2>1. avalue' \in [Cells -> Values]
    <3>1. \A c \in Cells : CellValue(c)' \in Values
      BY <1>1 DEF CellsHoldValues
    <3> QED BY <3>1 DEF avalue
  <2> QED BY <1>1, <1>2, <2>1, SlotValueNext
<1>5. \A d \in Variables!Live \ {cell[s]} : avalue'[d] = avalue[d]
  <2> TAKE d \in Variables!Live \ {cell[s]}
  <2>1. d \in UsedCells /\ d \in Cells
    BY <1>1, LiveIsUsed DEF AllLiveUsed, CellsHoldValues
  <2>2. CellValue(d)' = CellValue(d)
    BY <1>3, <2>1
  <2> QED BY <2>1, <2>2 DEF avalue
<1>6. acaptures' = acaptures
  BY CapturesKept
<1>7. cell[s] \in Cells /\ cell[s] \in Variables!Live
  BY <1>1, IsLive DEF CellsHoldValues
<1>8. ASSUME NEW c \in Cells, c = cell[s] PROVE Variables!Assign(c, v)
  BY <1>4, <1>5, <1>6, <1>7, <1>8 DEF Variables!Assign, avalue, acaptures
<1> QED BY <1>7, <1>8 DEF Variables!Next

(* or through an upvalue, which may be that of a closed variable.           *)
LEMMA UpvalueAssigns ==
  ASSUME ~Errors, Inv, Inv', NEW idx \in 1..MaxCaptured, SetUpvalue(idx)
  PROVE  Variables!Next
<1> DEFINE u == upvalues[frame.closure][idx]
           v == stack[sp]
<1>1. /\ frames # <<>> /\ frame.closure # Null /\ idx \in 1..Len(upvalues[frame.closure])
      /\ IF location[u] = Closed
         THEN closedVal' = [closedVal EXCEPT ![u] = v] /\ UNCHANGED stack
         ELSE stack' = [stack EXCEPT ![location[u]] = v] /\ UNCHANGED closedVal
      /\ sp >= frame.slots
      /\ UNCHANGED <<sp, heap, location, upvalues, cell, ucell>>
  BY DEF SetUpvalue, Running
<1>2. u \in heap /\ u \in Upvalues /\ frame.closure \in Closures
  BY <1>1, CapturedFacts
<1>3. v \in Values
  <2>1. sp \in Nat /\ frame.slots \in Nat /\ frame.slots > 0
    BY RunningFacts DEF SetUpvalue
  <2>2. sp \in Live
    BY <1>1, <2>1 DEF Live
  <2> QED BY <2>2, CellValues DEF CellsHoldValues, Inv, TypeOK
<1>4. CASE location[u] # Closed
  <2>1. location[u] \in Live
    BY <1>2, <1>4, OpenOrClosed
  <2>2. stack' = [stack EXCEPT ![location[u]] = v] /\ UNCHANGED closedVal
    BY <1>1, <1>4
  <2>3. \A s \in Live : s = location[u] => Variables!Next
    <3> HIDE DEF u, v
    <3> QED BY <1>1, <1>3, <2>2, SlotAssigns
  <2> QED BY <2>1, <2>3
<1>5. CASE location[u] = Closed
  <2>1. closedVal' = [closedVal EXCEPT ![u] = v] /\ UNCHANGED stack
    BY <1>1, <1>5
  <2>2. CellsHoldValues /\ CellsHoldValues' /\ CellInv
    BY CellValues, CellValuesNext DEF Inv
  <2>3. closedVal'[u] = v /\ \A w \in heap \ {u} : closedVal'[w] = closedVal[w]
    <3>1. closedVal \in [Upvalues -> Values] /\ heap \subseteq Upvalues
      BY DEF Inv, TypeOK
    <3> HIDE DEF u, v
    <3> QED BY <1>2, <2>1, <3>1
  <2>4. ASSUME NEW w \in heap
        PROVE  deref(w)' = IF w = u THEN v ELSE deref(w)
    BY <1>1, <1>5, <2>1, <2>3 DEF deref
  <2>5. \A w \in heap : CellValue(ucell[w])' = IF w = u THEN v ELSE CellValue(ucell[w])
    <3> TAKE w \in heap
    <3>1. CellValue(ucell[w])' = deref(w)' /\ CellValue(ucell[w]) = deref(w)
      BY <1>1, <2>2 DEF CellsHoldValues
    <3> QED BY <2>4, <3>1
  <2>6. \A s \in Live : CellValue(cell[s])' = CellValue(cell[s])
    <3> TAKE s \in Live
    <3>1. s \in Live' /\ stack'[s] = stack[s]
      BY <1>1, <2>1 DEF Live
    <3>2. CellValue(cell[s])' = stack'[s] /\ CellValue(cell[s]) = stack[s]
      BY <2>2, <3>1 DEF CellsHoldValues
    <3> QED BY <3>1, <3>2
  <2>7. ASSUME NEW c \in UsedCells
        PROVE  CellValue(c)' = IF c = ucell[u] THEN v ELSE CellValue(c)
    <3>1. ASSUME NEW w \in heap, c = ucell[w]
          PROVE  CellValue(c)' = IF c = ucell[u] THEN v ELSE CellValue(c)
      <4>1. CellValue(c)' = CellValue(ucell[w])'
        BY <1>1, <3>1
      <4>2. c = ucell[u] <=> w = u
        BY <1>2, <2>2, <3>1 DEF CellInv
      <4> QED BY <2>5, <3>1, <4>1, <4>2
    <3>2. ASSUME NEW s \in Live, c = cell[s]
          PROVE  CellValue(c)' = IF c = ucell[u] THEN v ELSE CellValue(c)
      <4>1. CellValue(c)' = CellValue(cell[s])'
        BY <1>1, <3>2
      <4>2. c # ucell[u]
        <5>1. s \in Slots /\ s # Closed
          BY <2>2, UpvalueAssumption DEF CellsHoldValues, Slots, Closed
        <5> QED BY <1>2, <1>5, <2>2, <3>2, <5>1 DEF CellInv
      <4> QED BY <2>6, <3>2, <4>1, <4>2
    <3> QED BY <3>1, <3>2 DEF UsedCells
  <2>8. avalue' \in [Cells -> Values]
    <3>1. \A c \in Cells : CellValue(c)' \in Values
      BY <2>2 DEF CellsHoldValues
    <3> QED BY <3>1 DEF avalue
  <2>9. \A d \in Variables!Live : avalue'[d] = IF d = ucell[u] THEN v ELSE avalue[d]
    <3> TAKE d \in Variables!Live
    <3>1. d \in UsedCells /\ d \in Cells
      BY <2>2, LiveIsUsed DEF AllLiveUsed, CellsHoldValues
    <3>2. CellValue(d)' = IF d = ucell[u] THEN v ELSE CellValue(d)
      BY <2>7, <3>1
    <3> QED BY <3>1, <3>2 DEF avalue
  <2>10. ucell[u] \in Cells /\ ucell[u] \in Variables!Live
    BY <1>1, <1>2, <2>2, IsLive DEF CellsHoldValues
  <2>11. acaptures' = acaptures
    BY <1>1, CapturesKept
  <2>12. ASSUME NEW c \in Cells, c = ucell[u], NEW x \in Values, x = v
         PROVE  Variables!Assign(c, x)
    <3> HIDE DEF u, v
    <3> QED BY <1>1, <2>8, <2>9, <2>10, <2>11, <2>12 DEF Variables!Assign, avalue, acaptures
  <2> QED BY <1>3, <2>10, <2>12 DEF Variables!Next
<1> QED BY <1>4, <1>5

(* The variables above a place go out of scope, the captured ones closed.   *)
LEMMA ShrinkLeaves ==
  ASSUME Inv, Inv', NEW n \in 0..sp, Rewind(n), UNCHANGED <<stack, heap, upvalues, ucell>>,
         \A u \in heap : deref(u)' = deref(u)
  PROVE  Variables!Next
<1>1. TypeOK
  BY DEF Inv
<1>2. /\ \A s \in 1..n : cell'[s] = cell[s]
      /\ Live' = 1..n /\ Live' \subseteq Live
  BY <1>1, RewindEffect
<1>3. avalue' \in [Cells -> Values] /\ Variables!KeepsLive
  BY <1>2, ValuesKept
<1>4. acaptures' = acaptures
  BY CapturesKept
<1>5. n \in 0..Len(cell) /\ cell' = SubSeq(cell, 1, n)
  BY <1>1 DEF TypeOK, Rewind
<1>6. Variables!Leave(n)
  BY <1>3, <1>4, <1>5 DEF Variables!Leave, avalue, acaptures
<1> QED BY <1>5, <1>6 DEF Variables!Next

(* Closing moves the value with the variable. *)
LEMMA ClosingKeepsValues ==
  ASSUME ~Errors, Inv, NEW slot \in Nat, msCloseUpvalues(slot),
         \A s \in Live : s < slot => stack'[s] = stack[s] \/ kind[s] # "captured"
  PROVE  \A u \in heap : deref(u)' = deref(u)
<1> SUFFICES ASSUME NEW u \in heap PROVE deref(u)' = deref(u)
  OBVIOUS
<1>1. TypeOK /\ Sorted
  BY DEF Inv, OpenInv, Sorted
<1>2. /\ location' = [w \in Upvalues |-> IF w \in Open /\ location[w] >= slot
                                          THEN Closed ELSE location[w]]
      /\ closedVal' = [w \in Upvalues |-> IF w \in Open /\ location[w] >= slot
                                           THEN stack[location[w]] ELSE closedVal[w]]
  BY <1>1, CloseEffect
<1>3. /\ u \in Upvalues /\ location[u] \in Nat
      /\ location[u] # Closed => u \in Open /\ location[u] \in Live /\ kind[location[u]] = "captured"
  BY OpenOrClosed
<1>4. CASE u \in Open /\ location[u] >= slot
  <2>1. location[u] # Closed
    BY <1>4 DEF Inv, OpenInv, Open
  <2> QED BY <1>2, <1>3, <1>4, <2>1 DEF deref
<1>5. CASE ~(u \in Open /\ location[u] >= slot)
  <2>1. location'[u] = location[u] /\ closedVal'[u] = closedVal[u]
    BY <1>2, <1>3, <1>5
  <2>2. CASE location[u] = Closed
    BY <2>1, <2>2 DEF deref
  <2>3. CASE location[u] # Closed
    <3>1. location[u] \in Live /\ location[u] < slot /\ kind[location[u]] = "captured"
      BY <1>3, <1>5, <2>3
    <3>2. stack'[location[u]] = stack[location[u]]
      BY <3>1
    <3> QED BY <2>1, <2>3, <3>2 DEF deref
  <2> QED BY <2>2, <2>3
<1> QED BY <1>4, <1>5

LEMMA PopLeaves ==
  ASSUME Inv, Inv', Pop
  PROVE  Variables!Next
<1>1. /\ sp \in Nat /\ frame.slots \in Nat \ {0} /\ sp >= frame.slots /\ Rewind(sp - 1)
      /\ UNCHANGED <<stack, location, closedVal, heap, upvalues, ucell>>
  BY RunningFacts DEF Pop, objects
<1>2. sp - 1 \in 0..sp
  BY <1>1
<1>3. \A u \in heap : deref(u)' = deref(u)
  BY <1>1 DEF deref
<1> QED BY <1>1, <1>2, <1>3, ShrinkLeaves

LEMMA CloseUpvalueLeaves ==
  ASSUME ~Errors, Inv, Inv', CloseUpvalue
  PROVE  Variables!Next
<1>1. /\ sp \in Nat /\ frame.slots \in Nat \ {0} /\ sp >= frame.slots /\ Rewind(sp - 1)
      /\ msCloseUpvalues(sp)
      /\ UNCHANGED <<stack, heap, upvalues, ucell>>
  BY RunningFacts DEF CloseUpvalue
<1>2. sp - 1 \in 0..sp
  BY <1>1
<1>3. \A u \in heap : deref(u)' = deref(u)
  BY <1>1, ClosingKeepsValues
<1> QED BY <1>1, <1>2, <1>3, ShrinkLeaves

LEMMA ReturnTopLeaves ==
  ASSUME ~Errors, Inv, Inv', ReturnTop
  PROVE  Variables!Next
<1>1. /\ sp \in Nat /\ frame.slots \in Nat /\ Rewind(0) /\ msCloseUpvalues(frame.slots)
      /\ UNCHANGED <<stack, heap, upvalues, ucell>>
  BY RunningFacts DEF ReturnTop, FirstSlot
<1>2. 0 \in 0..sp
  BY <1>1
<1>3. \A u \in heap : deref(u)' = deref(u)
  BY <1>1, ClosingKeepsValues
<1> QED BY <1>1, <1>2, <1>3, ShrinkLeaves

(* A call's variables go out of scope, and its result comes into it. *)
LEMMA LeaveFrameReturns ==
  ASSUME ~Errors, Inv, Inv', NEW result \in Values, LeaveFrame(result),
         result = Nil \/ (sp >= frame.slots /\ result = stack[sp])
  PROVE  Variables!Next
<1> DEFINE n == frame.rewind
           top == n + 1
<1>1. /\ TypeOK /\ sp \in Nat /\ n \in Nat /\ frame.slots \in Nat /\ n < frame.slots
      /\ n < MaxSlots /\ MaxSlots \in Nat /\ frame.slots <= sp + 1
      /\ CellsHoldValues /\ FrameInv /\ Len(frames) \in 1..Len(frames)
  BY RunningFacts, CellValues, UpvalueAssumption DEF LeaveFrame, Inv
<1>2. /\ CellAvailable /\ msCloseUpvalues(frame.slots)
      /\ stack' = [stack EXCEPT ![top] = result]
      /\ cell' = Append(SubSeq(cell, 1, n), fresh)
      /\ sp' = top
      /\ UNCHANGED <<heap, upvalues, ucell>>
  BY DEF LeaveFrame, FirstSlot
<1>3. fresh \in Cells /\ fresh \notin UsedCells /\ fresh \notin Variables!Live
  BY <1>2, LiveIsUsed DEF CellAvailable, fresh, AllLiveUsed
<1>4. n \in 0..sp /\ n \in 0..Len(cell) /\ top \in Slots /\ Live' = 1..top /\ Len(cell) = sp
  BY <1>1, <1>2 DEF TypeOK, Slots, Live
<1>5. cell'[top] = fresh /\ \A s \in 1..n : cell'[s] = cell[s]
  <2>1. /\ SubSeq(cell, 1, n) \in Seq(Cells) /\ Len(SubSeq(cell, 1, n)) = n
        /\ \A j \in 1..n : SubSeq(cell, 1, n)[j] = cell[j]
    BY <1>1, <1>4, PrefixFacts DEF TypeOK
  <2> QED BY <1>2, <1>3, <2>1, AppendFacts
<1>6. stack'[top] = result /\ \A s \in Slots \ {top} : stack'[s] = stack[s]
  BY <1>1, <1>2, <1>4 DEF TypeOK
<1>7. \A u \in heap : deref(u)' = deref(u)
  <2>1. \A s \in Live : s < frame.slots => stack'[s] = stack[s] \/ kind[s] # "captured"
    <3> TAKE s \in Live
    <3>1. s \in Slots /\ s \in Nat
      BY <1>1 DEF CellsHoldValues, Live
    <3>2. s = top /\ s < frame.slots => kind[s] = "plain"
      <4>1. \A r \in n + 1..frame.slots - 1 : kind[r] = "plain"
        BY <1>1 DEF FrameInv, frame
      <4>2. s = top /\ s < frame.slots => s \in n + 1..frame.slots - 1
        BY <1>1
      <4> HIDE DEF top, n
      <4> QED BY <4>1, <4>2
    <3> QED BY <1>6, <3>1, <3>2
  <2> QED BY <1>1, <1>2, <2>1, ClosingKeepsValues
<1>8. avalue' \in [Cells -> Values] /\ Variables!KeepsLive
  <2>1. ASSUME NEW s \in Live'
        PROVE  \/ s \in Live /\ cell'[s] = cell[s] /\ stack'[s] = stack[s]
               \/ cell'[s] \notin UsedCells
    <3>1. s \in 1..n \/ s = top
      BY <1>1, <1>4
    <3>2. CASE s \in 1..n
      <4>1. s \in Live /\ s \in Slots \ {top}
        BY <1>1, <1>4, <3>2 DEF CellsHoldValues, Live
      <4> QED BY <1>5, <1>6, <3>2, <4>1
    <3>3. CASE s = top
      BY <1>3, <1>5, <3>3
    <3> QED BY <3>1, <3>2, <3>3
  <2> QED BY <1>2, <1>7, <2>1, ValuesKept
<1>9. avalue'[fresh] = result
  <2>1. top \in Live'
    BY <1>1, <1>4
  <2>2. avalue'[cell'[top]] = stack'[top]
    <3> HIDE DEF top
    <3> QED BY <2>1, SlotValueNext
  <2> QED BY <1>5, <1>6, <2>2
<1>10. acaptures' = acaptures
  BY <1>2, CapturesKept
<1>11. CASE n < sp
  <2>1. result \in {avalue[cell[Len(cell)]], Nil}
    <3>1. sp \in Live
      BY <1>1, <1>11 DEF Live
    <3> QED BY <1>4, <3>1, SlotValue
  <2>2. ASSUME NEW c \in Cells, c = fresh, NEW m \in 0..Len(cell), m = n
        PROVE  Variables!Return(m, c)
    <3> HIDE DEF n
    <3> QED BY <1>2, <1>3, <1>4, <1>8, <1>9, <1>10, <1>11, <2>1, <2>2
            DEF Variables!Return, avalue, acaptures
  <2> QED BY <1>3, <1>4, <2>2 DEF Variables!Next
<1>12. CASE n = sp
  <2>1. result = Nil
    BY <1>1, <1>12
  <2>2. SubSeq(cell, 1, n) = cell
    BY <1>1, <1>4, <1>12 DEF TypeOK
  <2>3. ASSUME NEW c \in Cells, c = fresh PROVE Variables!Enter(c, result)
    <3> HIDE DEF n
    <3> QED BY <1>2, <1>3, <1>8, <1>9, <1>10, <2>2, <2>3 DEF Variables!Enter, avalue, acaptures
  <2> QED BY <1>3, <2>3 DEF Variables!Next
<1> QED BY <1>1, <1>11, <1>12

(* A closure captures a variable that its maker knows. *)
LEMMA AddCaptures ==
  ASSUME Inv, Inv', making \in Closures, NEW u \in Upvalues, Add(u), ucell'[u] \in Variables!Live,
         UNCHANGED <<stack, sp, cell>>,
         \A w \in heap : ucell'[w] = ucell[w] /\ deref(w)' = deref(w),
         \A w \in heap' : w \in heap \/ \E s \in Live : ucell'[w] = cell[s]
  PROVE  Variables!Next
<1>1. TypeOK /\ HeldInv /\ Live' = Live
  BY DEF Inv, Live
<1>2. avalue' \in [Cells -> Values] /\ Variables!KeepsLive
  BY <1>1, ValuesKept
<1>3. ASSUME NEW c, c = ucell'[u]
      PROVE  acaptures' = [acaptures EXCEPT ![making] = Append(@, c)]
  <2>1. upvalues' = [upvalues EXCEPT ![making] = Append(@, u)] /\ upvalues \in [Closures -> Seq(Upvalues)]
    BY <1>1 DEF Add, TypeOK
  <2>2. ASSUME NEW k \in Closures, NEW n \in DOMAIN upvalues[k]
        PROVE  ucell'[upvalues[k][n]] = ucell[upvalues[k][n]]
    <3>1. upvalues[k] \in Seq(Upvalues)
      BY <2>1
    <3>2. upvalues[k][n] \in heap
      BY <1>1, <2>2, <3>1 DEF HeldInv, Elements
    <3> QED BY <3>2
  <2>3. ASSUME NEW k \in Closures, k # making PROVE acaptures'[k] = acaptures[k]
    <3>1. upvalues'[k] = upvalues[k]
      BY <2>1, <2>3
    <3> QED BY <2>2, <3>1 DEF acaptures
  <2>4. acaptures'[making] = Append(acaptures[making], c)
    <3> DEFINE q == upvalues[making]
               r == [n \in DOMAIN q |-> ucell[q[n]]]
    <3>1. q \in Seq(Upvalues) /\ upvalues'[making] = Append(q, u) /\ Len(q) \in Nat
      BY <2>1
    <3>2. acaptures[making] = r /\ r \in Seq({ucell[w] : w \in Upvalues}) /\ Len(r) = Len(q)
      BY <3>1 DEF acaptures
    <3>3. DOMAIN upvalues'[making] = 1..Len(q) + 1
      BY <3>1
    <3>4. acaptures'[making] = [n \in 1..Len(q) + 1 |-> ucell'[Append(q, u)[n]]]
      BY <3>1, <3>3 DEF acaptures
    <3>5. \A n \in 1..Len(q) + 1 : ucell'[Append(q, u)[n]] = Append(r, c)[n]
      <4> TAKE n \in 1..Len(q) + 1
      <4>1. CASE n \in 1..Len(q)
        <5>1. Append(q, u)[n] = q[n] /\ Append(r, c)[n] = r[n] /\ n \in DOMAIN q
          BY <3>1, <3>2, <4>1
        <5> QED BY <2>2, <5>1
      <4>2. CASE n = Len(q) + 1
        BY <1>3, <3>1, <3>2, <4>2
      <4> QED BY <3>1, <4>1, <4>2
    <3>6. Append(r, c) = [n \in 1..Len(q) + 1 |-> Append(r, c)[n]]
      BY SMTT(30), <3>2
    <3> HIDE DEF q, r
    <3> QED BY <3>2, <3>4, <3>5, <3>6
  <2>5. /\ acaptures' = [k \in Closures |-> acaptures'[k]]
        /\ [acaptures EXCEPT ![making] = Append(@, c)]
             = [k \in Closures |-> IF k = making THEN Append(acaptures[k], c) ELSE acaptures[k]]
    BY DEF acaptures
  <2> QED BY <2>3, <2>4, <2>5
<1>4. ASSUME NEW c \in Cells, c = ucell'[u], NEW k \in Closures, k = making
      PROVE  Variables!Capture(k, c)
  <2>1. cell' = cell /\ c \in Variables!Live
    BY <1>4
  <2>2. acaptures' = [acaptures EXCEPT ![k] = Append(@, c)]
    BY <1>3, <1>4
  <2> QED BY <1>2, <2>1, <2>2 DEF Variables!Capture, avalue, acaptures
<1>5. ucell'[u] \in Cells
  BY LiveIsUsed, CellValues DEF AllLiveUsed, CellsHoldValues
<1> QED BY <1>4, <1>5 DEF Variables!Next

LEMMA CaptureLocalCaptures ==
  ASSUME ~ForIn, ~Errors, Inv, Inv', NEW slot \in Slots, NEW u \in Upvalues, CaptureLocal(slot, u)
  PROVE  Variables!Next
<1>1. /\ making # Null /\ slot \in frame.slots..sp
      /\ UNCHANGED <<stack, sp, kind, frames, making, cell>>
  BY DEF CaptureLocal, vm
<1>2. /\ frames # <<>> /\ making \in Closures /\ TypeOK /\ OpenInv /\ CellInv /\ Sorted
  BY <1>1, MakingFacts DEF Inv, OpenInv, Sorted
<1>3. slot \in Live /\ cell[slot] \in Variables!Live
  <2>1. sp \in Nat /\ slot \in Nat /\ slot >= 1 /\ slot <= sp
    <3>1. frame.slots \in Nat
      BY <1>2, FrameType DEF frame, TypeOK
    <3> QED BY <1>1, <1>2, <3>1, UpvalueAssumption DEF TypeOK, Slots
  <2>2. slot \in Live
    BY <2>1 DEF Live
  <2> QED BY <2>2, IsLive
<1>4. CASE Reuse(slot)
  <2> DEFINE w == openUpvalues[Ahead(slot) + 1]
  <2>1. /\ Add(w) /\ UNCHANGED <<heap, location, closedVal, openUpvalues, ucell>>
    BY <1>4 DEF Reuse, objects
  <2>2. w \in Open /\ w \in Upvalues /\ w \in heap /\ location[w] = slot
    <3>1. Ahead(slot) \in 0..Len(openUpvalues) /\ Ahead(slot) < Len(openUpvalues)
          /\ location[w] = slot
      BY <1>2, <1>4, AheadFacts DEF Reuse, IsOpen
    <3>2. Ahead(slot) + 1 \in 1..Len(openUpvalues)
      BY <1>2, <3>1 DEF TypeOK
    <3> QED BY <1>2, <3>1, <3>2 DEF Open, Elements, OpenInv, TypeOK
  <2>3. ucell'[w] = cell[slot]
    BY <1>2, <1>3, <2>1, <2>2 DEF CellInv, Open
  <2>4. \A x \in heap : ucell'[x] = ucell[x] /\ deref(x)' = deref(x)
    BY <1>1, <2>1 DEF deref
  <2> HIDE DEF w
  <2> QED BY <1>1, <1>2, <1>3, <2>1, <2>2, <2>3, <2>4, AddCaptures
<1>5. CASE NewUpvalue(slot, u)
  <2>1. /\ u \notin heap /\ heap' = heap \cup {u}
        /\ location' = [location EXCEPT ![u] = slot]
        /\ closedVal' = [closedVal EXCEPT ![u] = Nil]
        /\ ucell' = [ucell EXCEPT ![u] = cell[slot]]
        /\ Add(u)
    BY <1>5 DEF NewUpvalue
  <2>2. ucell'[u] = cell[slot]
    BY <1>2, <2>1 DEF TypeOK
  <2>3. \A x \in heap : ucell'[x] = ucell[x] /\ deref(x)' = deref(x)
    <3> TAKE x \in heap
    <3>1. ucell'[x] = ucell[x] /\ location'[x] = location[x] /\ closedVal'[x] = closedVal[x]
      BY <1>2, <2>1 DEF TypeOK
    <3> QED BY <1>1, <3>1 DEF deref
  <2> QED BY <1>1, <1>2, <1>3, <2>1, <2>2, <2>3, AddCaptures
<1> QED BY <1>4, <1>5 DEF CaptureLocal

LEMMA CaptureEnclosingCaptures ==
  ASSUME Inv, Inv', NEW idx \in 1..MaxCaptured, CaptureEnclosing(idx)
  PROVE  Variables!Next
<1> DEFINE u == upvalues[frame.closure][idx]
<1>1. /\ making # Null /\ Add(u) /\ frame.closure # Null
      /\ idx \in 1..Len(upvalues[frame.closure])
      /\ UNCHANGED <<stack, sp, kind, frames, heap, location, closedVal, openUpvalues, making,
                     cell, ucell>>
  BY DEF CaptureEnclosing, vm, objects
<1>2. frames # <<>> /\ making \in Closures
  BY <1>1, MakingFacts
<1>3. u \in Upvalues /\ ucell[u] \in Variables!Live
  BY <1>1, <1>2, CapturedFacts, IsLive
<1>4. \A x \in heap : ucell'[x] = ucell[x] /\ deref(x)' = deref(x)
  BY <1>1 DEF deref
<1> HIDE DEF u
<1> QED BY <1>1, <1>2, <1>3, <1>4, AddCaptures

LEMMA ForgetForgets ==
  ASSUME Inv, Inv', NEW k \in Closures, Forget(k)
  PROVE  Variables!Next
<1>1. /\ upvalues' = [upvalues EXCEPT ![k] = <<>>]
      /\ UNCHANGED <<stack, sp, heap, location, closedVal, cell, ucell>>
  BY DEF Forget, vm, objects
<1>2. avalue' \in [Cells -> Values] /\ Variables!KeepsLive
  <2>1. Live' = Live /\ \A u \in heap : deref(u)' = deref(u)
    BY <1>1 DEF Live, deref
  <2> QED BY <1>1, <2>1, ValuesKept
<1>3. acaptures' = [acaptures EXCEPT ![k] = <<>>]
  <2>1. upvalues \in [Closures -> Seq(Upvalues)]
    BY DEF Inv, TypeOK
  <2>2. [n \in DOMAIN <<>> |-> ucell[<<>>[n]]] = <<>>
    OBVIOUS
  <2>3. \A j \in Closures : upvalues'[j] = IF j = k THEN <<>> ELSE upvalues[j]
    BY <1>1, <2>1
  <2>4. ASSUME NEW j \in Closures, j # k PROVE acaptures'[j] = acaptures[j]
    <3>1. upvalues'[j] = upvalues[j]
      BY <2>3, <2>4
    <3> QED BY <1>1, <3>1 DEF acaptures
  <2>5. acaptures'[k] = <<>>
    <3>1. upvalues'[k] = <<>>
      BY <2>3
    <3>2. acaptures'[k] = [n \in DOMAIN upvalues'[k] |-> ucell'[upvalues'[k][n]]]
      BY DEF acaptures
    <3> QED BY <1>1, <2>2, <3>1, <3>2
  <2>6. /\ acaptures' = [j \in Closures |-> acaptures'[j]]
        /\ [acaptures EXCEPT ![k] = <<>>]
             = [j \in Closures |-> IF j = k THEN <<>> ELSE acaptures[j]]
    BY DEF acaptures
  <2> QED BY <2>4, <2>5, <2>6
<1>4. Variables!Forget(k)
  BY <1>1, <1>2, <1>3 DEF Variables!Forget, avalue, acaptures
<1> QED BY <1>4 DEF Variables!Next

(* An upvalue that is freed was nobody's. *)
LEMMA CollectLeaves ==
  ASSUME Inv, Inv', NEW u \in Upvalues, Collect(u)
  PROVE  Variables!Next
<1>1. /\ u \in heap /\ \A k \in Closures : u \notin Elements(upvalues[k])
      /\ heap' = heap \ {u}
      /\ location' = [location EXCEPT ![u] = Closed]
      /\ closedVal' = [closedVal EXCEPT ![u] = Nil]
      /\ ucell' = [ucell EXCEPT ![u] = NoCell]
      /\ UNCHANGED <<stack, sp, upvalues, cell>>
  BY DEF Collect, vm
<1>2. TypeOK
  BY DEF Inv
<1>3. \A w \in Upvalues \ {u} :
        ucell'[w] = ucell[w] /\ location'[w] = location[w] /\ closedVal'[w] = closedVal[w]
  BY <1>1, <1>2 DEF TypeOK
<1>4. avalue' \in [Cells -> Values] /\ Variables!KeepsLive
  <2>1. Live' = Live
    BY <1>1 DEF Live
  <2>2. ASSUME NEW w \in heap' PROVE w \in heap /\ ucell'[w] = ucell[w] /\ deref(w)' = deref(w)
    <3>1. w \in heap /\ w \in Upvalues \ {u}
      BY <1>1, <1>2, <2>2 DEF TypeOK
    <3> QED BY <1>1, <1>3, <3>1 DEF deref
  <2> QED BY <1>1, <2>1, <2>2, ValuesKept
<1>5. acaptures' = acaptures
  <2>1. ASSUME NEW k \in Closures, NEW n \in DOMAIN upvalues[k]
        PROVE  ucell'[upvalues[k][n]] = ucell[upvalues[k][n]]
    <3>1. upvalues[k] \in Seq(Upvalues)
      BY <1>2 DEF TypeOK
    <3>2. upvalues[k][n] \in Elements(upvalues[k]) /\ upvalues[k][n] \in Upvalues
      BY <3>1 DEF Elements
    <3> QED BY <1>1, <1>3, <3>2
  <2> QED BY <1>1, <2>1, CapturesKept
<1>6. Len(cell) \in 0..Len(cell) /\ cell' = SubSeq(cell, 1, Len(cell))
  BY <1>1, <1>2 DEF TypeOK
<1>7. ASSUME NEW m \in 0..Len(cell), m = Len(cell) PROVE Variables!Leave(m)
  BY <1>4, <1>5, <1>6, <1>7 DEF Variables!Leave, avalue, acaptures
<1> QED BY <1>6, <1>7 DEF Variables!Next

(* A call with a receiver assigns it to the callee's slot, any other only   *)
(* begins a frame. *)
LEMMA CallAssigns ==
  ASSUME ~Errors, Inv, Inv', NEW k \in Closures, NEW n \in 0..MaxSlots, NEW P,
         Call(k, n, P) \/ \E v \in Values : CallWithReceiver(k, n, v, P)
  PROVE  [Variables!Next]_(Variables!avars)
<1>1. CASE Call(k, n, P)
  <2>1. UNCHANGED <<stack, sp, heap, location, closedVal, upvalues, cell, ucell>>
    BY <1>1 DEF Call, EnterFrame, objects
  <2>2. avalue' = avalue /\ acaptures' = acaptures
    <3>1. acaptures' = acaptures
      BY <2>1, CapturesKept
    <3>2. \A c \in Cells : CellValue(c)' = CellValue(c)
      BY <2>1 DEF CellValue, deref, Live
    <3> QED BY <3>1, <3>2 DEF avalue
  <2> QED BY <2>1, <2>2 DEF Variables!avars, avalue, acaptures
<1>2. ASSUME NEW v \in Values, CallWithReceiver(k, n, v, P) PROVE Variables!Next
  <2>1. /\ EnterFrame(k, sp - n, sp - n, P) /\ stack' = [stack EXCEPT ![sp - n] = v]
        /\ Running /\ sp - n >= frame.slots
        /\ UNCHANGED <<sp, heap, location, closedVal, upvalues, cell, ucell>>
    BY <1>2 DEF CallWithReceiver, EnterFrame, objects
  <2>2. sp - n \in Live
    <3>1. sp \in Nat /\ frame.slots \in Nat \ {0} /\ n \in Nat
      BY <2>1, RunningFacts, UpvalueAssumption
    <3> QED BY <2>1, <3>1 DEF Live
  <2>3. \A s \in Live : s = sp - n => Variables!Next
    BY <2>1, SlotAssigns
  <2> QED BY <2>2, <2>3
<1> QED BY <1>1, <1>2

LEMMA VariablesInit == Init => Variables!Init
<1> SUFFICES ASSUME Init PROVE Variables!Init
  OBVIOUS
<1>1. cell = <<>> /\ upvalues = [k \in Closures |-> <<>>]
  BY DEF Init
<1>2. avalue \in [Cells -> Values]
  BY InitInv, CellValues DEF CellsHoldValues, avalue
<1>3. acaptures = [k \in Closures |-> <<>>]
  <2>1. [n \in DOMAIN <<>> |-> ucell[<<>>[n]]] = <<>>
    OBVIOUS
  <2>2. \A k \in Closures : upvalues[k] = <<>>
    BY <1>1
  <2>3. \A k \in Closures : acaptures[k] = <<>>
    BY <2>1, <2>2 DEF acaptures
  <2> QED BY <2>3 DEF acaptures
<1> QED BY <1>1, <1>2, <1>3 DEF Variables!Init, avalue, acaptures

LEMMA VariablesNext ==
  ASSUME ~ForIn, ~Errors, Inv, Inv', [Next]_vars
  PROVE  [Variables!Next]_(Variables!avars)
<1>1. /\ "plain" \in Kinds /\ Fn \in Values /\ Nil \in Values
      /\ stack \in [Slots -> Values] /\ sp \in 0..MaxSlots /\ MaxSlots \in Nat
      /\ \A s \in Live : s \in Slots
  BY UpvalueAssumption, CellValues DEF Kinds, Inv, TypeOK, CellsHoldValues
<1>2. CASE msVMRun
  BY <1>1, <1>2, PushEnters DEF msVMRun
<1>3. ASSUME NEW v \in Values, NEW kd \in Kinds, Push(v, kd) PROVE Variables!Next
  BY <1>3, PushEnters DEF Push, objects
<1>4. ASSUME NEW s \in Slots, GetLocal(s) PROVE Variables!Next
  <2>1. PUSH(stack[s], "plain") /\ stack[s] \in Values
        /\ UNCHANGED <<heap, location, closedVal, upvalues, ucell>>
    BY <1>1, <1>4 DEF GetLocal, objects
  <2> QED BY <1>1, <2>1, PushEnters
<1>5. ASSUME NEW s \in Slots, SetLocal(s) PROVE Variables!Next
  <2>1. /\ Running /\ s \in frame.slots..sp /\ stack' = [stack EXCEPT ![s] = stack[sp]]
        /\ UNCHANGED <<sp, heap, location, closedVal, upvalues, cell, ucell>>
    BY <1>5 DEF SetLocal, objects
  <2>2. s \in Live /\ stack[sp] \in Values
    <3>1. sp \in Nat /\ frame.slots \in Nat \ {0}
      BY <2>1, RunningFacts
    <3>2. s \in Live /\ sp \in Live
      BY <2>1, <3>1 DEF Live
    <3> QED BY <1>1, <3>2
  <2> QED BY <2>1, <2>2, SlotAssigns
<1>6. ASSUME NEW idx \in 1..MaxCaptured, GetUpvalue(idx) PROVE Variables!Next
  <2> DEFINE v == deref(upvalues[frame.closure][idx])
  <2>1. PUSH(v, "plain") /\ UNCHANGED <<heap, location, closedVal, upvalues, ucell>>
    BY <1>6 DEF GetUpvalue, objects
  <2>2. v \in Values
    BY <1>6, CapturedFacts DEF GetUpvalue, Running
  <2> HIDE DEF v
  <2> QED BY <1>1, <2>1, <2>2, PushEnters
<1>7. ASSUME NEW idx \in 1..MaxCaptured, SetUpvalue(idx) PROVE Variables!Next
  BY <1>7, UpvalueAssigns
<1>8. ASSUME NEW idx \in 1..MaxCaptured, CaptureEnclosing(idx) PROVE Variables!Next
  BY <1>8, CaptureEnclosingCaptures
<1>9. CASE Pop
  BY <1>9, PopLeaves
<1>10. CASE CloseUpvalue
  BY <1>10, CloseUpvalueLeaves
<1>11. ASSUME UNCHANGED <<stack, sp, heap, location, closedVal, upvalues, cell, ucell>>
       PROVE  UNCHANGED Variables!avars
  <2>1. acaptures' = acaptures
    BY <1>11, CapturesKept
  <2>2. \A c \in Cells : CellValue(c)' = CellValue(c)
    BY <1>11 DEF CellValue, deref, Live
  <2>3. avalue' = avalue
    BY <2>2 DEF avalue
  <2> QED BY <1>11, <2>1, <2>3 DEF Variables!avars, avalue, acaptures
<1>12. ASSUME NEW k \in Closures, BeginMakeFunc(k) PROVE UNCHANGED Variables!avars
  BY <1>11, <1>12 DEF BeginMakeFunc, vm, objects
<1>13. ASSUME NEW k \in Closures, Forget(k) PROVE Variables!Next
  BY <1>13, ForgetForgets
<1>14. ASSUME NEW s \in Slots, NEW u \in Upvalues, CaptureLocal(s, u) PROVE Variables!Next
  BY <1>14, CaptureLocalCaptures
<1>15. CASE EndMakeFunc
  BY <1>1, <1>15, PushEnters DEF EndMakeFunc, objects
<1>16. ASSUME NEW k \in Closures, NEW n \in 0..MaxSlots, NEW P \in SUBSET ((sp - n)..sp),
              Call(k, n, P) \/ \E v \in Values : CallWithReceiver(k, n, v, P)
       PROVE  [Variables!Next]_(Variables!avars)
  BY <1>16, CallAssigns
<1>17. CASE Return
  <2>1. LeaveFrame(stack[sp]) /\ Running /\ sp >= frame.slots
    BY <1>17 DEF Return
  <2>2. stack[sp] \in Values
    <3>1. sp \in Nat /\ frame.slots \in Nat \ {0}
      BY <2>1, RunningFacts
    <3>2. sp \in Live
      BY <2>1, <3>1 DEF Live
    <3> QED BY <1>1, <3>2
  <2> QED BY <2>1, <2>2, LeaveFrameReturns
<1>18. CASE ReturnNil
  BY <1>1, <1>18, LeaveFrameReturns DEF ReturnNil
<1>19. CASE ReturnTop
  BY <1>19, ReturnTopLeaves
<1>20. ~Fail
  BY DEF Fail
<1>21. ASSUME NEW u \in Upvalues, Collect(u) PROVE Variables!Next
  BY <1>21, CollectLeaves
<1>22. CASE UNCHANGED vars
  BY <1>11, <1>22 DEF vars, vm, objects
<1> QED
  BY <1>2, <1>3, <1>4, <1>5, <1>6, <1>7, <1>8, <1>9, <1>10, <1>12, <1>13, <1>14, <1>15,
     <1>16, <1>17, <1>18, <1>19, <1>20, <1>21, <1>22 DEF Next

(* Every variable is a cell of its own: whatever pushes, calls and returns  *)
(* do to the stack, a program whose closures capture no variable of a       *)
(* for-in loop, and whose runs do not fail, sees of each variable only its  *)
(* own assignments, through whichever closure they are made.                *)
THEOREM VariablesAreCells == ASSUME ~ForIn, ~Errors PROVE Spec => ImplementsVariables
<1>1. Inv /\ Inv' /\ [Next]_vars => [Variables!Next]_(Variables!avars)
  BY VariablesNext
<1>2. Spec => Variables!Init /\ [][Variables!Next]_(Variables!avars)
  BY VariablesInit, <1>1, Invariance, PTL DEF Spec
<1> QED BY <1>2 DEF ImplementsVariables, Variables!Spec

=============================================================================

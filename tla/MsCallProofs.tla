---------------------------- MODULE MsCallProofs ----------------------------
(***************************************************************************)
(* Proofs about MsCall, for any size of the pool, any number of frames     *)
(* from msAlloc, any stack and any program.  First the frames: those in    *)
(* use are always in the order in which msFreeFrame can take them back,    *)
(* and their flags are those of the calls that are waited for.  Then that  *)
(* MsCall implements MsActivations: see CallsAreActivations at the end.    *)
(* The second proof follows the actions.  What a step that calls nothing   *)
(* does to the operands of the innermost frame is Works, what a call does  *)
(* is EntersAt and what a return does FramesLeft and LeftAt; of each of    *)
(* them it is shown once that the invariant stays and what becomes of the  *)
(* activations.                                                            *)
(***************************************************************************)
EXTENDS MsCall, MsNumbers, TLAPS

----------------------------------------------------------------------------
(* What a step does to the frames in use, to their flags and to the pool:   *)
(* one of these. *)

Stays == UNCHANGED <<chain, pool, frames>>
Starts == /\ chain' = <<TopLevel>> /\ UNCHANGED pool
          /\ frames' = [frames EXCEPT ![TopLevel] = Called(@, 2, "plain")]
Stops == /\ chain' = <<>> /\ UNCHANGED pool
         /\ frames' = [a \in Addresses |-> Unused(frames[a])]

Calls(a, slots, how, waits) ==
  /\ msNewFrame(a)
  /\ chain' = Append(chain, a)
  /\ frames' = [frames EXCEPT ![topFrame] = Waiting(@, waits), ![a] = Called(@, slots, how)]

(* Only a dunder method is waited for otherwise than by a push. *)
Enters ==
  /\ chain # <<>>
  /\ \E a \in Addresses : \E slots, how, waits :
       Calls(a, slots, how, waits) /\ (waits = "push" \/ how = "bound")

Leaves ==
  /\ chain # <<>> /\ topFrame # TopLevel
  /\ chain' = Front(chain)
  /\ frames' = [frames EXCEPT ![chain[Len(chain) - 1]] = Resumed(@), ![topFrame] = Unused(@)]
  /\ msFreeFrame(topFrame)

(* A call of a closure enters one frame. *)
LEMMA EnterEnters ==
  ASSUME NEW kept, NEW params, NEW how, NEW waits, Running, Enter(kept, params, how, waits),
         waits = "push" \/ how = "bound"
  PROVE  Enters
<1>1. PICK a \in Addresses : Calls(a, Len(kept) + 1, how, waits)
  BY DEF Enter, Calls
<1> QED
  BY <1>1 DEF Enters, Running

LEMMA CallEnters ==
  ASSUME NEW kept, NEW args, NEW how, NEW waits, Running, msClosureCall(kept, args, how, waits),
         waits = "push" \/ how = "bound"
  PROVE  Enters
BY EnterEnters DEF msClosureCall

(* So does a call with keywords. *)
LEMMA CallKwEnters ==
  ASSUME NEW kept, NEW pos, NEW km, Running, msClosureCallKw(kept, pos, km)
  PROVE  Enters
BY EnterEnters DEF msClosureCallKw

(* A call enters a frame, unless it makes an instance without __init__. *)
LEMMA DispatchEnters ==
  ASSUME NEW st, NEW argc, Running, dispatchCall(st, argc)
  PROVE  Enters \/ Stays
BY CallEnters DEF dispatchCall, Local, Stays

(* The method of an operator is entered, too. *)
LEMMA MagicEnters ==
  ASSUME NEW kept, NEW argv, NEW waits, Running, dispatchMagicCall(kept, argv, waits)
  PROVE  Enters
BY CallEnters DEF dispatchMagicCall

(* A return leaves the innermost frame. *)
LEMMA ReturnLeaves ==
  ASSUME NEW value, Running, LeaveFrame(value)
  PROVE  Leaves
BY DEF LeaveFrame, Leaves, Running, InFunction

(* Every step is of one of the five kinds. *)
LEMMA Kinds ==
  ASSUME [Next]_vars
  PROVE  Stays \/ Starts \/ Stops \/ Enters \/ Leaves
<1>1. CASE UNCHANGED vars
  BY <1>1 DEF vars, Stays, pool
<1>2. CASE msVMRun
  BY <1>2 DEF msVMRun, Starts
<1>3. CASE Const \/ GetLocal \/ SetLocal \/ Pop \/ Native \/ GetAttr
  BY <1>3 DEF Const, GetLocal, SetLocal, Pop, Native, GetAttr, Push, Local, Stays
<1>4. CASE MakeFunc
  BY <1>4 DEF MakeFunc, Stays
<1>5. CASE Call
  BY <1>5, DispatchEnters DEF Call, Takes
<1>6. CASE CallEx
  BY <1>6, DispatchEnters DEF CallEx, Takes
<1>7. CASE CallKw
  BY <1>7, CallKwEnters DEF CallKw, Takes
<1>8. CASE Unary \/ SetItem \/ DelItem \/ ForIter
  BY <1>8, MagicEnters DEF Unary, SetItem, DelItem, ForIter, Takes
<1>9. CASE Binary
  BY <1>9, MagicEnters DEF Binary, Takes
<1>10. CASE Return \/ ReturnNil
  BY <1>10, ReturnLeaves DEF Return, ReturnNil, Takes
<1>11. CASE ReturnTop \/ Fail
  BY <1>11 DEF ReturnTop, Fail, Stop, Stops
<1> QED
  BY <1>1, <1>2, <1>3, <1>4, <1>5, <1>6, <1>7, <1>8, <1>9, <1>10, <1>11 DEF Next

----------------------------------------------------------------------------
(* Sequences. *)

(* A sequence with one more element, and one with one less. *)
LEMMA AppendFacts ==
  ASSUME NEW S, NEW c \in Seq(S), NEW a \in S
  PROVE  /\ Append(c, a) \in Seq(S)
         /\ Len(Append(c, a)) = Len(c) + 1
         /\ \A n \in 1..Len(c) : Append(c, a)[n] = c[n]
         /\ Append(c, a)[Len(c) + 1] = a
OBVIOUS

LEMMA FrontFacts ==
  ASSUME NEW S, NEW c \in Seq(S), c # <<>>
  PROVE  /\ Len(c) \in Nat /\ Len(c) >= 1
         /\ Front(c) \in Seq(S)
         /\ Len(Front(c)) = Len(c) - 1
         /\ \A n \in 1..Len(c) - 1 : Front(c)[n] = c[n]
         /\ Last(c) = c[Len(c)]
<1>1. c \in [1..Len(c) -> S] /\ Len(c) \in Nat
  OBVIOUS
<1>2. Len(c) # 0
  OBVIOUS
<1>3. Len(c) - 1 \in 0..Len(c)
  BY <1>1, <1>2
<1>4. /\ SubSeq(c, 1, Len(c) - 1) \in Seq(S)
      /\ Len(SubSeq(c, 1, Len(c) - 1)) = Len(c) - 1
      /\ \A n \in 1..Len(c) - 1 : SubSeq(c, 1, Len(c) - 1)[n] = c[n]
  BY <1>1, <1>3
<1> QED
  BY <1>1, <1>2, <1>4 DEF Front, Last

----------------------------------------------------------------------------
(* The type part of the invariant, and the invariant. *)

PoolInv == PoolTypeOK /\ PoolIsStack

(* The addresses of frames are numbers; the three kinds are disjoint. *)
LEMMA AddressKinds ==
  /\ Addresses \subseteq Nat
  /\ \A a \in Addresses : \/ a = TopLevel /\ a \notin Pool /\ a \notin Mallocs
                          \/ a # TopLevel /\ a \in Pool /\ a \notin Mallocs
                          \/ a # TopLevel /\ a \notin Pool /\ a \in Mallocs
  /\ \A a \in Pool, b \in Mallocs : a < b
<1> USE DEF Addresses, TopLevel, Pool, Mallocs
<1>1. PoolSize \in Nat /\ MaxMalloc \in Nat
  BY CallAssumption
<1>2. \A a \in Pool : a \in Nat /\ a >= 1 /\ a <= PoolSize
  BY <1>1
<1>3. \A a \in Mallocs : a \in Nat /\ a >= PoolSize + 1
  BY <1>1
<1>4. Pool \cap Mallocs = {} /\ 0 \notin Pool /\ 0 \notin Mallocs
  BY <1>1, <1>2, <1>3
<1>5. \A a \in Pool, b \in Mallocs : a < b
  BY <1>1, <1>2, <1>3
<1> HIDE DEF Pool, Mallocs
<1> QED
  BY <1>2, <1>3, <1>4, <1>5

(* Nothing is in use at the start. *)
LEMMA InitPool == Init => PoolInv
<1> SUFFICES ASSUME Init PROVE PoolInv
  OBVIOUS
<1>1. PoolTypeOK
  BY CallAssumption DEF Init, PoolTypeOK
<1>2. Depths = {}
  BY DEF Init, Depths
<1> QED
  BY <1>1, <1>2 DEF PoolInv, PoolIsStack, OnlyOutermostIsTopLevel, PoolInOrder, NoFrameTwice, MallocsLast

(* A run starts with its own frame. *)
LEMMA StartsKeeps ==
  ASSUME PoolInv, Starts
  PROVE  PoolInv'
<1>1. Len(chain') = 1 /\ chain'[1] = TopLevel
  BY DEF Starts
<1>2. TopLevel \in Addresses /\ TopLevel \notin Pool /\ TopLevel \notin Mallocs
  BY AddressKinds DEF Addresses
<1>3. PoolTypeOK'
  BY <1>2 DEF PoolInv, PoolTypeOK, Starts, pool
<1>4. Depths' = {1}
  BY <1>1 DEF Depths
<1>5. PoolIsStack'
  BY <1>1, <1>2, <1>4 DEF PoolIsStack, OnlyOutermostIsTopLevel, PoolInOrder, NoFrameTwice, MallocsLast
<1> QED
  BY <1>3, <1>5 DEF PoolInv

(* A run ends with nothing in use. *)
LEMMA StopsKeeps ==
  ASSUME PoolInv, Stops
  PROVE  PoolInv'
<1>1. PoolTypeOK'
  BY DEF PoolInv, PoolTypeOK, Stops, pool
<1>2. Depths' = {}
  BY DEF Stops, Depths
<1> QED
  BY <1>1, <1>2 DEF PoolInv, PoolIsStack, OnlyOutermostIsTopLevel, PoolInOrder, NoFrameTwice, MallocsLast

(* Instructions that call nothing disturb nothing. *)
LEMMA StaysKeeps ==
  ASSUME PoolInv, Stays
  PROVE  PoolInv'
BY DEF PoolInv, PoolTypeOK, PoolIsStack, OnlyOutermostIsTopLevel, PoolInOrder, NoFrameTwice, MallocsLast, NextInPool, Depths, Stays, pool

(* Every address in use is below the next one of the pool, if there is one; *)
(* for then nothing from msAlloc is in use. *)
LEMMA PoolIsAbove ==
  ASSUME PoolInv, gFramePoolTop < PoolSize
  PROVE  \A n \in Depths : chain[n] \in 0..gFramePoolTop /\ chain[n] \notin Mallocs
<1> SUFFICES ASSUME NEW n \in Depths
             PROVE  chain[n] \in 0..gFramePoolTop /\ chain[n] \notin Mallocs
  OBVIOUS
<1>1. /\ chain[n] \in Addresses
      /\ gFramePoolTop \in Nat /\ PoolSize \in Nat
  BY CallAssumption DEF PoolInv, PoolTypeOK, Depths
<1>2. chain[n] \notin Mallocs
  BY <1>1 DEF PoolInv, PoolIsStack, MallocsLast
<1>3. CASE chain[n] = TopLevel
  BY <1>1, <1>2, <1>3 DEF TopLevel
<1>4. CASE chain[n] \in Pool
  <2> DEFINE L == Len(chain)
  <2>1. n \in 1..L /\ L \in Nat
    BY DEF Depths, PoolInv, PoolTypeOK
  <2>2. chain[L] \in Pool
    <3>1. chain[L] \in Addresses /\ chain[L] \notin Mallocs
      BY <1>1, <2>1 DEF PoolInv, PoolTypeOK, PoolIsStack, MallocsLast, Depths
    <3>2. chain[L] # TopLevel
      <4>1. CASE L = n
        BY <1>4, <4>1, AddressKinds, <1>1
      <4>2. CASE L # n
        BY <2>1, <4>2 DEF PoolInv, PoolIsStack, OnlyOutermostIsTopLevel, Depths
      <4> QED
        BY <4>1, <4>2
    <3> QED
      BY <3>1, <3>2, AddressKinds
  <2>3. chain[L] = gFramePoolTop
    BY <2>1, <2>2 DEF PoolInv, PoolIsStack, PoolInOrder, NextInPool, Depths
  <2>4. n = L \/ chain[n] < chain[L]
    BY <2>1, <2>2 DEF PoolInv, PoolIsStack, NoFrameTwice, Depths
  <2>5. chain[n] \in Nat
    BY <1>1, AddressKinds
  <2> QED
    BY <1>1, <1>2, <2>3, <2>4, <2>5
<1> QED
  BY <1>1, <1>2, <1>3, <1>4, AddressKinds

(* What a call makes of the pool, in the terms of the invariant: the frame  *)
(* a that it enters is new, and the next one up if it is the pool's. *)
FitsAbove(a) ==
  /\ a # TopLevel
  /\ \A n \in Depths : chain[n] # a /\ (a \in Pool => chain[n] < a)
  /\ \A n \in Depths : chain[n] \in Pool /\ ~NextInPool(n) =>
       IF n = Len(chain) /\ a \in Pool THEN a = chain[n] + 1 ELSE chain[n] = gFramePoolTop'
  /\ \A b \in {a} \cup {chain[n] : n \in Depths} :
       b \in Mallocs => b \in malloced' /\ gFramePoolTop' = PoolSize

LEMMA NewFrameFits ==
  ASSUME PoolInv, NEW a \in Addresses, msNewFrame(a)
  PROVE  FitsAbove(a) /\ gFramePoolTop' \in 0..PoolSize /\ malloced' \subseteq Mallocs
<1>1. /\ gFramePoolTop \in Nat /\ PoolSize \in Nat /\ gFramePoolTop <= PoolSize
      /\ malloced \subseteq Mallocs
      /\ Len(chain) \in Nat
      /\ \A n \in Depths : n \in Nat /\ chain[n] \in Addresses
  BY CallAssumption DEF PoolInv, PoolTypeOK, Depths
<1>2. CASE gFramePoolTop < PoolSize
  <2>1. a = gFramePoolTop + 1 /\ gFramePoolTop' = a /\ malloced' = malloced
    BY <1>2 DEF msNewFrame, PoolTop
  <2>2. a \in Pool /\ a \notin Mallocs /\ a # TopLevel
    BY <1>1, <1>2, <2>1, AddressKinds DEF Pool
  <2>3. \A n \in Depths : chain[n] < a /\ chain[n] # a /\ chain[n] \notin Mallocs
    BY <1>1, <1>2, <2>1, PoolIsAbove
  <2>4. ASSUME NEW n \in Depths, chain[n] \in Pool, ~NextInPool(n)
        PROVE  n = Len(chain) /\ a = chain[n] + 1
    <3>1. chain[n] = gFramePoolTop
      BY <2>4 DEF PoolInv, PoolIsStack, PoolInOrder
    <3>2. CASE n = Len(chain)
      BY <2>1, <3>1, <3>2
    <3>3. CASE n # Len(chain)
      <4>1. n + 1 \in Depths /\ n + 1 # 1 /\ chain[n + 1] \notin Pool
        BY <1>1, <2>4, <3>3 DEF NextInPool, Depths
      <4>2. chain[n + 1] # TopLevel
        BY <4>1 DEF PoolInv, PoolIsStack, OnlyOutermostIsTopLevel
      <4> QED
        BY <1>1, <2>3, <4>1, <4>2, AddressKinds
    <3> QED
      BY <3>2, <3>3
  <2> QED
    BY <1>1, <1>2, <2>1, <2>2, <2>3, <2>4 DEF FitsAbove
<1>3. CASE ~(gFramePoolTop < PoolSize)
  <2>1. /\ a \in Mallocs /\ a \notin malloced
        /\ malloced' = malloced \cup {a} /\ gFramePoolTop' = gFramePoolTop
        /\ gFramePoolTop = PoolSize
    BY <1>1, <1>3 DEF msNewFrame, PoolTop
  <2>2. a # TopLevel /\ a \notin Pool
    BY <2>1, AddressKinds
  <2>3. \A n \in Depths : chain[n] \in Mallocs => chain[n] \in malloced
    BY DEF PoolInv, PoolIsStack, MallocsLast
  <2>4. \A n \in Depths : chain[n] \in Pool /\ ~NextInPool(n) => chain[n] = gFramePoolTop
    BY DEF PoolInv, PoolIsStack, PoolInOrder
  <2> QED
    BY <1>1, <2>1, <2>2, <2>3, <2>4 DEF FitsAbove
<1> QED
  BY <1>2, <1>3

(* A call keeps the order. *)
LEMMA EntersKeeps ==
  ASSUME PoolInv, Enters
  PROVE  PoolInv'
<1>1. PICK a \in Addresses : msNewFrame(a) /\ chain' = Append(chain, a)
  BY DEF Enters, Calls
<1> DEFINE L == Len(chain)
<1>2. /\ chain' \in Seq(Addresses) /\ L \in Nat /\ L # 0
      /\ Len(chain') = L + 1
      /\ \A n \in Depths : n \in 1..L + 1 /\ chain'[n] = chain[n]
      /\ chain'[L + 1] = a
  <2>1. chain \in Seq(Addresses) /\ chain # <<>>
    BY DEF PoolInv, PoolTypeOK, Enters
  <2> QED
    BY <1>1, <2>1, AppendFacts, FrontFacts DEF Depths
<1>3. FitsAbove(a) /\ gFramePoolTop' \in 0..PoolSize /\ malloced' \subseteq Mallocs
  BY <1>1, NewFrameFits
<1>4. Depths' = Depths \cup {L + 1} /\ Depths = 1..L /\ 1 \in Depths /\ L + 1 \notin Depths
  BY <1>2 DEF Depths
<1>5. PoolTypeOK'
  BY <1>2, <1>3 DEF PoolTypeOK
<1>6. OnlyOutermostIsTopLevel'
  BY <1>2, <1>3, <1>4 DEF PoolInv, PoolIsStack, OnlyOutermostIsTopLevel, FitsAbove
<1>7. ASSUME NEW n \in Depths', chain'[n] \in Pool
      PROVE  IF NextInPool(n)' THEN chain'[n + 1] = chain'[n] + 1 ELSE chain'[n] = gFramePoolTop'
  <2>1. NextInPool(n)' <=> n < L + 1 /\ chain'[n + 1] \in Pool
    BY <1>2 DEF NextInPool, Pool
  <2>2. CASE n = L + 1
    <3>1. a \in Pool /\ gFramePoolTop' = a
      BY <1>1, <1>2, <1>7, <2>2, AddressKinds DEF msNewFrame
    <3> QED
      BY <1>2, <2>1, <2>2, <3>1
  <2>3. CASE n = L
    BY <1>2, <1>3, <1>4, <1>7, <2>1, <2>3 DEF PoolInv, PoolIsStack, PoolInOrder, NextInPool, FitsAbove
  <2>4. CASE n \in Depths /\ n # L
    <3>1. n + 1 \in Depths /\ n < L
      BY <1>2, <1>4, <2>4
    <3>2. chain[n] \in Pool /\ chain'[n] = chain[n] /\ chain'[n + 1] = chain[n + 1]
      BY <1>2, <1>7, <2>4, <3>1
    <3>3. NextInPool(n)' <=> NextInPool(n)
      BY <1>2, <1>4, <2>1, <2>4, <3>1, <3>2 DEF NextInPool
    <3> QED
      BY <1>3, <2>4, <3>2, <3>3 DEF PoolInv, PoolIsStack, PoolInOrder, FitsAbove
  <2> QED
    BY <1>4, <2>2, <2>3, <2>4
<1>8. PoolInOrder'
  BY <1>7 DEF PoolInOrder, Pool
<1>9. NoFrameTwice'
  <2> SUFFICES ASSUME NEW m \in Depths', NEW n \in Depths', m < n
               PROVE  chain'[m] # chain'[n] /\ (chain'[n] \in Pool => chain'[m] < chain'[n])
    BY DEF NoFrameTwice, Pool
  <2>1. m \in Depths /\ chain'[m] = chain[m]
    BY <1>2, <1>4
  <2>2. CASE n = L + 1
    BY <1>2, <1>3, <2>1, <2>2 DEF FitsAbove
  <2>3. CASE n \in Depths
    BY <1>2, <2>1, <2>3 DEF PoolInv, PoolIsStack, NoFrameTwice
  <2> QED
    BY <1>4, <2>2, <2>3
<1>10. MallocsLast'
  BY <1>2, <1>3, <1>4 DEF MallocsLast, FitsAbove, Mallocs
<1> QED
  BY <1>5, <1>6, <1>8, <1>9, <1>10 DEF PoolInv, PoolIsStack

(* A return keeps the order: what returns is on top of the pool, or was     *)
(* got from msAlloc last. *)
LEMMA LeavesKeeps ==
  ASSUME PoolInv, Leaves
  PROVE  PoolInv'
<1> DEFINE L == Len(chain)
<1>1. /\ chain \in Seq(Addresses) /\ chain # <<>>
      /\ L \in Nat /\ L >= 1 /\ topFrame = chain[L]
      /\ chain' \in Seq(Addresses) /\ Len(chain') = L - 1
      /\ \A n \in 1..L - 1 : chain'[n] = chain[n]
  BY FrontFacts DEF PoolInv, PoolTypeOK, Leaves, topFrame
<1>2. Depths = 1..L /\ Depths' = 1..L - 1 /\ L \in Depths
  BY <1>1 DEF Depths
<1>3. \A n \in Depths' : n \in Depths /\ n < L /\ chain'[n] = chain[n] /\ chain[n] \in Addresses
  BY <1>1, <1>2
<1>4. chain[L] \in Addresses /\ chain[L] # TopLevel /\ msFreeFrame(chain[L])
  BY <1>1, <1>2 DEF Leaves
<1>5. OnlyOutermostIsTopLevel'
  BY <1>3 DEF PoolInv, PoolIsStack, OnlyOutermostIsTopLevel
<1>6. NoFrameTwice'
  BY <1>3 DEF PoolInv, PoolIsStack, NoFrameTwice, Pool
<1>7. CASE chain[L] \in Pool
  <2>1. chain[L] = gFramePoolTop
    BY <1>1, <1>2, <1>7 DEF PoolInv, PoolIsStack, PoolInOrder, NextInPool
  <2>2. gFramePoolTop' = gFramePoolTop - 1 /\ malloced' = malloced
    BY <1>4, <1>7 DEF msFreeFrame
  <2>3. PoolTypeOK'
    <3>1. gFramePoolTop \in 1..PoolSize /\ PoolSize \in Nat
      BY <1>7, <2>1, CallAssumption DEF Pool
    <3> QED
      BY <1>1, <2>2, <3>1 DEF PoolInv, PoolTypeOK
  <2>4. \A n \in Depths' : chain[n] < chain[L] /\ chain[n] \notin Mallocs
    <3>1. \A n \in Depths' : chain[n] < chain[L]
      BY <1>2, <1>3, <1>7 DEF PoolInv, PoolIsStack, NoFrameTwice
    <3>2. \A n \in Depths' : chain[n] \in Mallocs => chain[L] < chain[n]
      BY <1>7, AddressKinds
    <3>3. \A n \in Depths' : chain[n] \in Nat /\ chain[L] \in Nat
      BY <1>3, <1>4, AddressKinds
    <3> QED
      BY <3>1, <3>2, <3>3
  <2>5. ASSUME NEW n \in Depths', chain'[n] \in Pool
        PROVE  IF NextInPool(n)' THEN chain'[n + 1] = chain'[n] + 1 ELSE chain'[n] = gFramePoolTop'
    <3>1. NextInPool(n)' <=> n < L - 1 /\ chain'[n + 1] \in Pool
      BY <1>1 DEF NextInPool, Pool
    <3>2. n \in Depths /\ n + 1 \in Depths /\ n \in Nat /\ chain[n] = chain'[n]
      BY <1>1, <1>2, <1>3
    <3>3. chain[n + 1] \in Pool
      <4>1. chain[n + 1] \in Addresses /\ chain[n + 1] # TopLevel
        BY <1>1, <1>2, <3>2 DEF PoolInv, PoolIsStack, OnlyOutermostIsTopLevel
      <4>2. n + 1 = L \/ n + 1 \in Depths'
        BY <1>1, <1>2, <3>2
      <4> QED
        BY <1>7, <2>4, <4>1, <4>2, AddressKinds
    <3>4. chain[n + 1] = chain[n] + 1
      BY <1>1, <1>2, <1>3, <2>5, <3>2, <3>3 DEF PoolInv, PoolIsStack, PoolInOrder, NextInPool
    <3>5. CASE n = L - 1
      <4>1. chain[n] \in Nat
        BY <1>3, AddressKinds
      <4> QED
        BY <1>1, <2>1, <2>2, <3>1, <3>2, <3>4, <3>5, <4>1
    <3>6. CASE n # L - 1
      <4>1. n < L - 1 /\ chain'[n + 1] = chain[n + 1]
        BY <1>1, <1>2, <3>6
      <4> QED
        BY <3>1, <3>2, <3>3, <3>4, <4>1
    <3> QED
      BY <3>5, <3>6
  <2>6. PoolInOrder'
    BY <2>5 DEF PoolInOrder, Pool
  <2>7. MallocsLast'
    BY <1>3, <2>4 DEF MallocsLast, Mallocs
  <2> QED
    BY <1>5, <1>6, <2>3, <2>6, <2>7 DEF PoolInv, PoolIsStack
<1>8. CASE chain[L] \notin Pool
  <2>1. gFramePoolTop' = gFramePoolTop /\ malloced' = malloced \ {chain[L]}
    BY <1>4, <1>8 DEF msFreeFrame
  <2>2. PoolTypeOK'
    BY <1>1, <2>1 DEF PoolInv, PoolTypeOK
  <2>3. ASSUME NEW n \in Depths', chain'[n] \in Pool
        PROVE  IF NextInPool(n)' THEN chain'[n + 1] = chain'[n] + 1 ELSE chain'[n] = gFramePoolTop'
    <3>1. NextInPool(n)' <=> n < L - 1 /\ chain'[n + 1] \in Pool
      BY <1>1 DEF NextInPool, Pool
    <3>2. n \in Depths /\ chain[n] = chain'[n]
      BY <1>3
    <3>3. NextInPool(n)' <=> NextInPool(n)
      <4>1. CASE n = L - 1
        BY <1>1, <1>8, <3>1, <4>1 DEF NextInPool
      <4>2. CASE n # L - 1
        <5>1. n < L - 1 /\ chain'[n + 1] = chain[n + 1]
          BY <1>1, <1>2, <4>2
        <5> QED
          BY <1>1, <1>2, <3>1, <5>1 DEF NextInPool
      <4> QED
        BY <4>1, <4>2
    <3>4. NextInPool(n) => chain'[n + 1] = chain[n + 1]
      BY <1>1, <1>2, <1>8 DEF NextInPool
    <3> QED
      BY <2>1, <2>3, <3>2, <3>3, <3>4 DEF PoolInv, PoolIsStack, PoolInOrder
  <2>4. PoolInOrder'
    BY <2>3 DEF PoolInOrder, Pool
  <2>5. MallocsLast'
    BY <1>2, <1>3, <2>1 DEF PoolInv, PoolIsStack, NoFrameTwice, MallocsLast, Mallocs
  <2> QED
    BY <1>5, <1>6, <2>2, <2>4, <2>5 DEF PoolInv, PoolIsStack
<1> QED
  BY <1>7, <1>8

----------------------------------------------------------------------------
(* Whatever is called, however it returns or fails, the innermost frame of  *)
(* the pool is the one below gFramePoolTop, so that msFreeFrame gives back  *)
(* the frame it is given, and no two activations have the same frame. *)
THEOREM PoolSafety == Spec => []PoolIsStack
<1>1. Init => PoolInv
  BY InitPool
<1>2. PoolInv /\ [Next]_vars => PoolInv'
  BY Kinds, StaysKeeps, StartsKeeps, StopsKeeps, EntersKeeps, LeavesKeeps
<1>3. PoolInv => PoolIsStack
  BY DEF PoolInv
<1> QED
  BY <1>1, <1>2, <1>3, PTL DEF Spec

----------------------------------------------------------------------------
(* Flags. *)

(* Slots and instance may be anything. *)
FrameOf(S, N) == [slots : S, isCtor : BOOLEAN, boundCall : BOOLEAN,
                  discardReturn : BOOLEAN, forIterPending : BOOLEAN, new : N]
IsFrame(f) == \E S, N : f \in FrameOf(S, N)

Awaits(f) == f.forIterPending \/ f.discardReturn

(* The frame of a call begins with no flag but the one of its kind. *)
LEMMA CalledFlags ==
  ASSUME NEW f, IsFrame(f), NEW slots, NEW how
  PROVE  LET g == Called(f, slots, how) IN
         /\ IsFrame(g)
         /\ ~Awaits(g)
         /\ ~(g.isCtor /\ g.boundCall)
         /\ how = "bound" => g.boundCall
<1>1. PICK S, N : f \in FrameOf(S, N)
  BY DEF IsFrame
<1> DEFINE c == Cleared(f)
           g == Called(f, slots, how)
<1>2. c \in FrameOf(S, N \cup {Nothing}) /\ ~c.isCtor /\ ~c.boundCall /\ ~Awaits(c)
  BY <1>1 DEF FrameOf, Cleared, Awaits
<1> DEFINE T == S \cup {slots}
           M == N \cup {Nothing, Instance}
<1>3. g = [c EXCEPT !.slots = slots, !.isCtor = c.isCtor \/ how = "ctor",
                    !.boundCall = c.boundCall \/ how = "bound",
                    !.new = IF how = "ctor" THEN Instance ELSE Nothing]
  BY DEF Called
<1> HIDE DEF c, g
<1>4. /\ g \in FrameOf(T, M)
      /\ g.isCtor = (how = "ctor") /\ g.boundCall = (how = "bound")
      /\ g.forIterPending = c.forIterPending /\ g.discardReturn = c.discardReturn
  BY <1>2, <1>3 DEF FrameOf
<1> QED
  BY <1>2, <1>4 DEF IsFrame, Awaits, g

(* A frame that did not wait waits in one way, and only if it was told to. *)
LEMMA WaitingFlags ==
  ASSUME NEW f, IsFrame(f), NEW waits
  PROVE  LET g == Waiting(f, waits) IN
         /\ IsFrame(g)
         /\ g.isCtor = f.isCtor /\ g.boundCall = f.boundCall
         /\ ~Awaits(f) => /\ ~(g.forIterPending /\ g.discardReturn)
                          /\ Awaits(g) => waits # "push"
<1>1. PICK S, N : f \in FrameOf(S, N)
  BY DEF IsFrame
<1>2. Waiting(f, waits) \in FrameOf(S, N)
  BY <1>1 DEF FrameOf, Waiting
<1> QED
  BY <1>1, <1>2 DEF IsFrame, Waiting, Awaits, FrameOf

LEMMA ResumedFlags ==
  ASSUME NEW f, IsFrame(f)
  PROVE  LET g == Resumed(f) IN
         IsFrame(g) /\ ~Awaits(g) /\ g.isCtor = f.isCtor /\ g.boundCall = f.boundCall
<1>1. PICK S, N : f \in FrameOf(S, N)
  BY DEF IsFrame
<1>2. Resumed(f) \in FrameOf(S, N)
  BY <1>1 DEF FrameOf, Resumed
<1> QED
  BY <1>1, <1>2 DEF IsFrame, Resumed, Awaits, FrameOf

LEMMA UnusedFlags ==
  ASSUME NEW f, IsFrame(f)
  PROVE  IsFrame(Unused(f))
<1>1. PICK S, N : f \in FrameOf(S, N)
  BY DEF IsFrame
<1>2. Unused(f) \in FrameOf(S \cup {1}, N \cup {Nothing})
  BY <1>1 DEF FrameOf, Unused
<1> QED
  BY <1>2 DEF IsFrame

(* Every frame is one.  What it holds is told by the flags only. *)
FramesOK == frames = [a \in Addresses |-> frames[a]] /\ \A a \in Addresses : IsFrame(frames[a])

FlagsInv == PoolInv /\ FramesOK /\ FlagsWhileWaiting

LEMMA InitFlags == Init => FlagsInv
<1> SUFFICES ASSUME Init PROVE FlagsInv
  OBVIOUS
<1>1. \A a \in Addresses : frames[a] \in FrameOf({1}, {Nothing})
  BY DEF Init, FrameOf
<1>2. FramesOK
  BY <1>1 DEF Init, FramesOK, IsFrame
<1>3. FlagsWhileWaiting
  BY DEF Init, FlagsWhileWaiting, Depths
<1> QED
  BY <1>2, <1>3, InitPool DEF FlagsInv

(* The first frame of a run waits for nothing, whatever the last one left. *)
LEMMA StartsFlags ==
  ASSUME FlagsInv, Starts
  PROVE  FramesOK' /\ FlagsWhileWaiting'
<1>1. TopLevel \in Addresses
  BY DEF Addresses
<1>2. /\ frames' = [a \in Addresses |-> IF a = TopLevel THEN Called(frames[a], 2, "plain") ELSE frames[a]]
      /\ \A a \in Addresses : IsFrame(frames[a])
  BY <1>1 DEF FlagsInv, FramesOK, Starts
<1>3. FramesOK'
  BY <1>2, CalledFlags DEF FramesOK, Addresses, Pool, Mallocs
<1>4. Len(chain') = 1 /\ chain'[1] = TopLevel
  BY DEF Starts
<1>5. FlagsWhileWaiting'
  <2>1. ~Awaits(frames'[TopLevel]) /\ ~(frames'[TopLevel].isCtor /\ frames'[TopLevel].boundCall)
    BY <1>1, <1>2, CalledFlags
  <2> QED
    BY <1>4, <2>1 DEF FlagsWhileWaiting, Depths, Awaits
<1> QED
  BY <1>3, <1>5

LEMMA StopsFlags ==
  ASSUME FlagsInv, Stops
  PROVE  FramesOK' /\ FlagsWhileWaiting'
<1>1. FramesOK'
  BY UnusedFlags DEF FlagsInv, FramesOK, Stops, Addresses, Pool, Mallocs
<1>2. FlagsWhileWaiting'
  BY DEF Stops, FlagsWhileWaiting, Depths
<1> QED
  BY <1>1, <1>2

(* The two frames of a call are different ones, and nobody else's. *)
LEMMA EntersFlags ==
  ASSUME FlagsInv, Enters
  PROVE  FramesOK' /\ FlagsWhileWaiting'
<1>1. PICK a \in Addresses : \E slots, how, waits :
        Calls(a, slots, how, waits) /\ (waits = "push" \/ how = "bound")
  BY DEF Enters
<1>2. PICK slots, how, waits : Calls(a, slots, how, waits) /\ (waits = "push" \/ how = "bound")
  BY <1>1
<1> DEFINE L == Len(chain)
<1>3. /\ L \in Nat /\ L # 0 /\ topFrame = chain[L]
      /\ Len(chain') = L + 1
      /\ \A n \in 1..L : chain'[n] = chain[n] /\ chain[n] \in Addresses
      /\ chain'[L + 1] = a
  <2>1. chain \in Seq(Addresses) /\ chain # <<>>
    BY DEF FlagsInv, PoolInv, PoolTypeOK, Enters
  <2>2. chain' = Append(chain, a)
    BY <1>2 DEF Calls
  <2>3. L \in Nat /\ L >= 1 /\ topFrame = chain[L]
    BY <2>1, FrontFacts DEF topFrame
  <2>4. /\ Len(chain') = L + 1 /\ chain'[L + 1] = a
        /\ \A n \in 1..L : chain'[n] = chain[n]
    BY <2>1, <2>2, AppendFacts
  <2>5. \A n \in 1..L : chain[n] \in Addresses
    BY <2>1
  <2> QED
    BY <2>3, <2>4, <2>5
<1>4. Depths = 1..L /\ Depths' = 1..L + 1 /\ L \in Depths
  BY <1>3 DEF Depths
<1>5. \A n \in Depths : chain[n] # a /\ (n # L => chain[n] # topFrame)
  <2>1. \A n \in Depths : chain[n] # a
    BY <1>2, NewFrameFits DEF Calls, FitsAbove, FlagsInv
  <2>2. \A n \in Depths : n # L => chain[n] # topFrame
    BY <1>3, <1>4 DEF FlagsInv, PoolInv, PoolIsStack, NoFrameTwice
  <2> QED
    BY <2>1, <2>2
<1>6. /\ frames' = [b \in Addresses |-> IF b = a THEN Called(frames[b], slots, how)
                                        ELSE IF b = topFrame THEN Waiting(frames[b], waits) ELSE frames[b]]
      /\ \A b \in Addresses : IsFrame(frames[b])
  <2>1. topFrame \in Addresses /\ topFrame # a
    BY <1>3, <1>4, <1>5
  <2> QED
    BY <1>2, <2>1 DEF Calls, FlagsInv, FramesOK
<1>7. FramesOK'
  BY <1>6, CalledFlags, WaitingFlags DEF FramesOK, Addresses, Pool, Mallocs
<1>8. ASSUME NEW n \in Depths'
      PROVE  LET f == frames'[chain'[n]] IN
             /\ ~(f.forIterPending /\ f.discardReturn)
             /\ Awaits(f) => n < L + 1 /\ frames'[chain'[n + 1]].boundCall
             /\ ~(f.isCtor /\ f.boundCall)
  <2>1. CASE n = L + 1
    <3>1. frames'[chain'[n]] = Called(frames[a], slots, how) /\ IsFrame(frames[a])
      BY <1>3, <1>6, <2>1
    <3> QED
      BY <3>1, CalledFlags DEF Awaits
  <2>2. CASE n = L
    <3>1. /\ frames'[chain'[n]] = Waiting(frames[topFrame], waits) /\ IsFrame(frames[topFrame])
          /\ frames'[chain'[n + 1]] = Called(frames[a], slots, how) /\ IsFrame(frames[a])
      BY <1>3, <1>4, <1>5, <1>6, <2>2
    <3>2. ~Awaits(frames[topFrame]) /\ ~(frames[topFrame].isCtor /\ frames[topFrame].boundCall)
      BY <1>3, <1>4 DEF FlagsInv, FlagsWhileWaiting, Awaits
    <3> QED
      BY <1>2, <1>3, <2>2, <3>1, <3>2, CalledFlags, WaitingFlags
  <2>3. CASE n \in 1..L /\ n # L
    <3>1. n \in Depths /\ n + 1 \in Depths /\ n < L
      BY <1>3, <1>4, <2>3
    <3>2. frames'[chain'[n]] = frames[chain[n]]
      BY <1>3, <1>4, <1>5, <1>6, <2>3
    <3>3. frames'[chain'[n + 1]].boundCall = frames[chain[n + 1]].boundCall
      BY <1>3, <1>4, <1>5, <1>6, <3>1, WaitingFlags
    <3>4. /\ ~(frames[chain[n]].forIterPending /\ frames[chain[n]].discardReturn)
          /\ Awaits(frames[chain[n]]) => frames[chain[n + 1]].boundCall
          /\ ~(frames[chain[n]].isCtor /\ frames[chain[n]].boundCall)
      BY <3>1 DEF FlagsInv, FlagsWhileWaiting, Awaits
    <3>5. n < L + 1
      BY <1>3, <2>3
    <3> QED
      BY <3>2, <3>3, <3>4, <3>5
  <2> QED
    BY <1>3, <1>4, <2>1, <2>2, <2>3
<1>9. FlagsWhileWaiting'
  BY <1>3, <1>8 DEF FlagsWhileWaiting, Awaits
<1> QED
  BY <1>7, <1>9

(* A return leaves the caller, which is not waiting any more, on top. *)
LEMMA LeavesFlags ==
  ASSUME FlagsInv, Leaves
  PROVE  FramesOK' /\ FlagsWhileWaiting'
<1> DEFINE L == Len(chain)
           caller == chain[L - 1]
<1>1. /\ chain \in Seq(Addresses) /\ chain # <<>>
      /\ L \in Nat /\ L >= 1 /\ topFrame = chain[L]
      /\ Len(chain') = L - 1
      /\ \A n \in 1..L - 1 : chain'[n] = chain[n]
  BY FrontFacts DEF FlagsInv, PoolInv, PoolTypeOK, Leaves, topFrame
<1>2. Depths = 1..L /\ Depths' = 1..L - 1 /\ \A n \in Depths : chain[n] \in Addresses
  BY <1>1 DEF Depths
<1>3. L # 1
  BY <1>1, <1>2 DEF Leaves, FlagsInv, PoolInv, PoolIsStack, OnlyOutermostIsTopLevel
<1>4. \A n \in Depths' : n \in Depths /\ chain[n] # topFrame /\ (n # L - 1 => chain[n] # caller)
  BY <1>1, <1>2, <1>3 DEF FlagsInv, PoolInv, PoolIsStack, NoFrameTwice
<1>5. /\ frames' = [b \in Addresses |-> IF b = topFrame THEN Unused(frames[b])
                                        ELSE IF b = caller THEN Resumed(frames[b]) ELSE frames[b]]
      /\ \A b \in Addresses : IsFrame(frames[b])
  <2>1. topFrame \in Addresses /\ caller \in Addresses /\ topFrame # caller
    BY <1>1, <1>2, <1>3, <1>4
  <2> QED
    BY <2>1 DEF Leaves, FlagsInv, FramesOK
<1>6. FramesOK'
  BY <1>5, UnusedFlags, ResumedFlags DEF FramesOK, Addresses, Pool, Mallocs
<1>7. ASSUME NEW n \in Depths'
      PROVE  LET f == frames'[chain'[n]] IN
             /\ ~(f.forIterPending /\ f.discardReturn)
             /\ Awaits(f) => n < L - 1 /\ frames'[chain'[n + 1]].boundCall
             /\ ~(f.isCtor /\ f.boundCall)
  <2>1. CASE n = L - 1
    <3>1. frames'[chain'[n]] = Resumed(frames[caller]) /\ IsFrame(frames[caller])
      BY <1>1, <1>2, <1>4, <1>5, <2>1
    <3>2. ~(frames[caller].isCtor /\ frames[caller].boundCall)
      BY <1>1, <1>2, <1>3 DEF FlagsInv, FlagsWhileWaiting
    <3> QED
      BY <3>1, <3>2, ResumedFlags DEF Awaits
  <2>2. CASE n # L - 1
    <3>1. n \in Depths /\ n + 1 \in Depths' /\ n + 1 \in Depths /\ n < L - 1
      BY <1>1, <1>2, <2>2
    <3>2. frames'[chain'[n]] = frames[chain[n]]
      BY <1>1, <1>2, <1>4, <1>5, <2>2
    <3>3. frames'[chain'[n + 1]].boundCall = frames[chain[n + 1]].boundCall
      BY <1>1, <1>2, <1>4, <1>5, <3>1, ResumedFlags
    <3> QED
      BY <1>1, <3>1, <3>2, <3>3 DEF FlagsInv, FlagsWhileWaiting, Awaits
  <2> QED
    BY <2>1, <2>2
<1>8. FlagsWhileWaiting'
  BY <1>1, <1>7 DEF FlagsWhileWaiting, Awaits
<1> QED
  BY <1>6, <1>8

(* A step keeps the flags. *)
LEMMA NextFlags ==
  ASSUME FlagsInv, [Next]_vars
  PROVE  FlagsInv'
<1>1. PoolInv'
  BY Kinds, StaysKeeps, StartsKeeps, StopsKeeps, EntersKeeps, LeavesKeeps DEF FlagsInv
<1>2. CASE Stays
  <2>1. chain' = chain /\ frames' = frames
    BY <1>2 DEF Stays
  <2>2. FramesOK'
    BY <2>1 DEF FlagsInv, FramesOK, Addresses, Pool, Mallocs
  <2>3. FlagsWhileWaiting'
    BY <2>1 DEF FlagsInv, FlagsWhileWaiting, Depths
  <2> QED
    BY <1>1, <2>2, <2>3 DEF FlagsInv
<1> QED
  BY <1>1, <1>2, Kinds, StartsFlags, StopsFlags, EntersFlags, LeavesFlags DEF FlagsInv

(* Whatever frames earlier calls and failed runs have left their flags in,  *)
(* an activation waits in one way, for the dunder method that it has        *)
(* called, and none is both a constructor's and a method's. *)
THEOREM FlagsSafety == Spec => []FlagsWhileWaiting
<1>1. Init => FlagsInv
  BY InitFlags
<1>2. FlagsInv /\ [Next]_vars => FlagsInv'
  BY NextFlags
<1>3. FlagsInv => FlagsWhileWaiting
  BY DEF FlagsInv
<1> QED
  BY <1>1, <1>2, <1>3, PTL DEF Spec


----------------------------------------------------------------------------
(* The stack: sequences of whatever values. *)

IsSeq(s) == \E V : s \in Seq(V)

(* A sequence is the function on the numbers from 1 to its length.          *)
LEMMA SeqFacts ==
  ASSUME NEW s, IsSeq(s)
  PROVE  Len(s) \in Nat /\ DOMAIN s = 1..Len(s) /\ s = [i \in 1..Len(s) |-> s[i]]
<1>1. PICK V : s \in Seq(V)
  BY DEF IsSeq
<1> QED BY <1>1

(* Such a function is a sequence.                                           *)
LEMMA SeqIs ==
  ASSUME NEW n \in Nat, NEW f, f = [i \in 1..n |-> f[i]]
  PROVE  IsSeq(f) /\ Len(f) = n
<1> DEFINE V == {f[i] : i \in 1..n}
<1>1. f \in [1..n -> V]
  OBVIOUS
<1> HIDE DEF V
<1>2. f \in Seq(V) /\ Len(f) = n
  BY <1>1
<1> QED BY <1>2 DEF IsSeq

(* Two of them are the same if their elements are. *)
LEMMA SeqEq ==
  ASSUME NEW s, NEW t, IsSeq(s), IsSeq(t), Len(s) = Len(t), \A i \in 1..Len(s) : s[i] = t[i]
  PROVE  s = t
<1>1. s = [i \in 1..Len(s) |-> s[i]] /\ t = [i \in 1..Len(t) |-> t[i]]
  BY SeqFacts
<1>2. [i \in 1..Len(s) |-> s[i]] = [i \in 1..Len(t) |-> t[i]]
  OBVIOUS
<1> QED BY <1>1, <1>2

(* The sequence of nothing.                                                 *)
LEMMA EmptyFacts == IsSeq(<<>>) /\ Len(<<>>) = 0
<1>1. <<>> \in Seq({})
  OBVIOUS
<1> QED BY <1>1 DEF IsSeq

(* The sequence of one value.                                               *)
LEMMA PairFacts ==
  ASSUME NEW x
  PROVE  IsSeq(<<x>>) /\ Len(<<x>>) = 1 /\ <<x>>[1] = x
<1>1. <<x>> \in Seq({x})
  OBVIOUS
<1> QED BY <1>1 DEF IsSeq

(* What SubSeq returns.                                                     *)
LEMMA SubFacts ==
  ASSUME NEW s, IsSeq(s), NEW a \in Int, NEW b \in Int, 1 <= a, a <= b + 1, b <= Len(s)
  PROVE  /\ IsSeq(SubSeq(s, a, b)) /\ Len(SubSeq(s, a, b)) = b - a + 1
         /\ \A i \in 1..b - a + 1 : SubSeq(s, a, b)[i] = s[a + i - 1]
<1>1. PICK V : s \in Seq(V)
  BY DEF IsSeq
<1>2. \A i \in a..b : s[i] \in V
  BY <1>1
<1>3. SubSeq(s, a, b) = [i \in 1..b - a + 1 |-> s[a + i - 1]]
  BY <1>1
<1> DEFINE f == SubSeq(s, a, b)
<1>4. f = [i \in 1..b - a + 1 |-> f[i]] /\ \A i \in 1..b - a + 1 : f[i] = s[a + i - 1]
  BY <1>3
<1>5. b - a + 1 \in Nat
  BY <1>1
<1> HIDE DEF f
<1>6. IsSeq(f) /\ Len(f) = b - a + 1
  BY <1>4, <1>5, SeqIs
<1> QED BY <1>4, <1>6 DEF f

(* What Append returns.                                                     *)
LEMMA AddFacts ==
  ASSUME NEW s, IsSeq(s), NEW x
  PROVE  /\ IsSeq(Append(s, x)) /\ Len(Append(s, x)) = Len(s) + 1
         /\ Append(s, x)[Len(s) + 1] = x
         /\ \A i \in 1..Len(s) : Append(s, x)[i] = s[i]
<1>1. PICK V : s \in Seq(V)
  BY DEF IsSeq
<1>2. s \in Seq(V \cup {x}) /\ x \in V \cup {x}
  BY <1>1
<1> DEFINE W == V \cup {x}
<1> HIDE DEF W
<1>3. s \in Seq(W) /\ x \in W
  BY <1>2 DEF W
<1>4. Append(s, x) \in Seq(W)
  BY <1>3
<1> QED BY <1>3, <1>4, AppendFacts DEF IsSeq

(* What \o returns.                                                         *)
LEMMA CatFacts ==
  ASSUME NEW s, IsSeq(s), NEW t, IsSeq(t)
  PROVE  /\ IsSeq(s \o t) /\ Len(s \o t) = Len(s) + Len(t)
         /\ \A i \in 1..Len(s) : (s \o t)[i] = s[i]
         /\ \A i \in 1..Len(t) : (s \o t)[Len(s) + i] = t[i]
<1>1. PICK V : s \in Seq(V)
  BY DEF IsSeq
<1>2. PICK W : t \in Seq(W)
  BY DEF IsSeq
<1> DEFINE U == V \cup W
<1>3. s \in Seq(U) /\ t \in Seq(U)
  BY <1>1, <1>2
<1> HIDE DEF U
<1>4. s \o t \in Seq(U)
  BY <1>3
<1>5. /\ Len(s \o t) = Len(s) + Len(t)
      /\ \A i \in 1..Len(s) : (s \o t)[i] = s[i]
      /\ \A i \in 1..Len(t) : (s \o t)[Len(s) + i] = t[i]
  BY <1>3
<1> QED BY <1>4, <1>5 DEF IsSeq

(* What Reverse returns, and that it undoes itself.                         *)
LEMMA ReverseFacts ==
  ASSUME NEW s, IsSeq(s)
  PROVE  /\ IsSeq(Reverse(s)) /\ Len(Reverse(s)) = Len(s)
         /\ \A i \in 1..Len(s) : Reverse(s)[i] = s[Len(s) - i + 1]
         /\ Reverse(Reverse(s)) = s
<1>1. Len(s) \in Nat
  BY SeqFacts
<1>2. \A t : Reverse(t) = [i \in 1..Len(t) |-> t[Len(t) - i + 1]]
  BY DEF Reverse
<1> DEFINE r == Reverse(s)
<1>3. r = [i \in 1..Len(s) |-> r[i]] /\ \A i \in 1..Len(s) : r[i] = s[Len(s) - i + 1]
  BY <1>2
<1> HIDE DEF r
<1>4. IsSeq(r) /\ Len(r) = Len(s)
  BY <1>1, <1>3, SeqIs
<1> DEFINE q == Reverse(r)
<1>5. q = [i \in 1..Len(s) |-> q[i]] /\ \A i \in 1..Len(s) : q[i] = r[Len(s) - i + 1]
  BY <1>2, <1>4
<1> HIDE DEF q
<1>6. IsSeq(q) /\ Len(q) = Len(s)
  BY <1>1, <1>5, SeqIs
<1>7. \A i \in 1..Len(s) : q[i] = s[i]
  <2> SUFFICES ASSUME NEW i \in 1..Len(s) PROVE q[i] = s[i]
    OBVIOUS
  <2>1. Len(s) - i + 1 \in 1..Len(s) /\ Len(s) - (Len(s) - i + 1) + 1 = i
    BY <1>1
  <2> QED BY <1>3, <1>5, <2>1
<1>8. q = s
  BY <1>6, <1>7, SeqEq
<1> QED BY <1>3, <1>4, <1>8 DEF q, r

----------------------------------------------------------------------------
(* The operators that MsActivations and MsCall share. *)

LEMMA SameCallables ==
  /\ \A x : Activations!List(x) = List(x) /\ Activations!Map(x) = Map(x)
  /\ \A p : Activations!arityMax(p) = arityMax(p) /\ Activations!defaultCount(p) = defaultCount(p)
  /\ \A v : /\ Activations!IsList(v) <=> IsList(v)
            /\ Activations!IsMap(v) <=> IsMap(v)
            /\ Activations!IsMethod(v) <=> IsMethod(v)
  /\ Activations!NoKeywords = NoKeywords
  /\ \A s : /\ Activations!Front(s) = Front(s) /\ Activations!Last(s) = Last(s)
            /\ Activations!Reverse(s) = Reverse(s) /\ Activations!Range(s) = Range(s)
  /\ \A f, S : Activations!Restrict(f, S) = [x \in S |-> f[x]]
BY DEF Activations!List, List, Activations!Map, Map, Activations!arityMax, arityMax,
       Activations!defaultCount, defaultCount, Activations!IsList, IsList, Activations!IsMap, IsMap,
       Activations!IsMethod, IsMethod, Activations!NoKeywords, NoKeywords, Activations!Front, Front,
       Activations!Last, Last, Activations!Reverse, Reverse, Activations!Range, Range,
       Activations!Restrict, Activations!Scalars, Scalars

----------------------------------------------------------------------------
(* Parameters. *)

ProgramInv ==
  /\ proto \in Signatures
  /\ defaults # NoDefaults => defaults \in Seq(Scalars) /\ Len(defaults) = defaultCount(proto)

(* The numbers of a parameter list.                                         *)
LEMMA ProtoFacts ==
  ASSUME proto \in Signatures
  PROVE  /\ arityMax(proto) \in Nat /\ proto.arity \in 0..arityMax(proto)
         /\ defaultCount(proto) \in Nat /\ defaultCount(proto) = arityMax(proto) - proto.arity
         /\ proto.names = [i \in 1..arityMax(proto) |-> proto.names[i]]
         /\ \A i \in 1..arityMax(proto) : proto.names[i] \in Names
         /\ \A i, j \in 1..arityMax(proto) : proto.names[i] = proto.names[j] => i = j
         /\ proto.hasVararg \in BOOLEAN /\ proto.hasKwarg \in BOOLEAN
         /\ ParamCount(proto) = arityMax(proto) + (IF proto.hasVararg THEN 1 ELSE 0) + (IF proto.hasKwarg THEN 1 ELSE 0)
<1>1. /\ proto \in [names : Seq(Names), arity : Nat, hasVararg : BOOLEAN, hasKwarg : BOOLEAN]
      /\ proto.arity <= arityMax(proto) /\ IsInjective(proto.names)
  BY CallablesAssumption
<1>2. proto.names \in Seq(Names) /\ proto.arity \in Nat /\ proto.hasVararg \in BOOLEAN /\ proto.hasKwarg \in BOOLEAN
  BY <1>1
<1>3. proto.names \in [1..arityMax(proto) -> Names] /\ arityMax(proto) \in Nat
  BY <1>2 DEF arityMax
<1>4. DOMAIN proto.names = 1..arityMax(proto)
  BY <1>3
<1>5. \A i, j \in 1..arityMax(proto) : proto.names[i] = proto.names[j] => i = j
  BY <1>1, <1>4 DEF IsInjective
<1> QED BY <1>1, <1>2, <1>3, <1>5 DEF defaultCount, ParamCount

(* Values of programs.                                                      *)
LEMMA ScalarIsValue == \A v \in Scalars : IsValue(v)
  BY DEF IsValue, IsList, IsMap, IsMethod

(* Lists and maps of scalars are values, and so are the methods.            *)
LEMMA CollectionsAreValues ==
  /\ \A s \in Seq(Scalars) : IsValue(List(s))
  /\ \A e \in Keywords : IsValue(Map(e))
  /\ IsValue(Method(Instance))
  /\ NoKeywords \in Keywords
<1>1. ASSUME NEW s \in Seq(Scalars) PROVE IsValue(List(s))
  BY DEF IsValue, IsList, IsMap, IsMethod, List
<1>2. ASSUME NEW e \in Keywords PROVE IsValue(Map(e))
  BY DEF IsValue, IsList, IsMap, IsMethod, Map
<1>3. IsValue(Method(Instance))
  BY DEF IsValue, IsList, IsMap, IsMethod, Method
<1>4. NoKeywords \in [{} -> Scalars]
  BY DEF NoKeywords
<1>5. {} \in SUBSET Names
  OBVIOUS
<1>6. [{} -> Scalars] \in {[D -> Scalars] : D \in SUBSET Names}
  BY <1>5
<1>7. NoKeywords \in Keywords
  BY <1>4, <1>6 DEF Keywords
<1> QED BY <1>1, <1>2, <1>3, <1>7

(* The default of the parameter with index i. *)
LEMMA DefaultFacts ==
  ASSUME ProgramInv, defaults # NoDefaults, NEW i \in 0..arityMax(proto) - 1
  PROVE  /\ HasDefault(i) <=> i >= proto.arity
         /\ i >= proto.arity => /\ DefaultOrNil(i) = InOrder[i + 1 - proto.arity]
                                /\ DefaultOrNil(i) \in Scalars
<1> DEFINE dc == defaultCount(proto)
<1>1. /\ proto.arity \in Nat /\ arityMax(proto) \in Nat /\ dc \in Nat /\ dc = arityMax(proto) - proto.arity
      /\ defaults \in Seq(Scalars) /\ Len(defaults) = dc
  BY ProtoFacts DEF ProgramInv
<1>2. InOrder = Reverse(defaults)
  BY DEF InOrder
<1>3. IsSeq(defaults)
  BY <1>1 DEF IsSeq
<1>4. HasDefault(i) <=> i >= proto.arity
  <2>1. HasDefault(i) <=> i >= proto.arity /\ dc - 1 - (i - proto.arity) \in 0..dc - 1
    BY DEF HasDefault
  <2> HIDE DEF dc
  <2> QED BY <1>1, <2>1, SMTT(30)
<1>5. ASSUME i >= proto.arity PROVE DefaultOrNil(i) = InOrder[i + 1 - proto.arity] /\ DefaultOrNil(i) \in Scalars
  <2>1. DefaultOrNil(i) = defaults[dc - 1 - (i - proto.arity) + 1]
    BY <1>4, <1>5 DEF DefaultOrNil, paramDefaultAt
  <2>2. PICK j : j = i + 1 - proto.arity
    OBVIOUS
  <2>3. PICK k : k = dc - 1 - (i - proto.arity) + 1
    OBVIOUS
  <2> HIDE DEF dc
  <2>4. j \in 1..Len(defaults) /\ k \in 1..Len(defaults) /\ k = Len(defaults) - j + 1
    <3>1. /\ proto.arity \in Nat /\ arityMax(proto) \in Nat /\ dc = arityMax(proto) - proto.arity
          /\ Len(defaults) = dc /\ i \in 0..arityMax(proto) - 1
      BY <1>1
    <3>2. j \in 1..dc /\ k \in 1..dc /\ k = dc - j + 1
      <4>1. \A a, m \in Nat : \A x \in 0..m - 1 :
              a <= x => /\ x + 1 - a \in 1..m - a
                        /\ (m - a) - 1 - (x - a) + 1 \in 1..m - a
                        /\ (m - a) - 1 - (x - a) + 1 = (m - a) - (x + 1 - a) + 1
        OBVIOUS
      <4>2. proto.arity <= i
        BY <1>5, <3>1
      <4> QED BY <2>2, <2>3, <3>1, <4>1, <4>2
    <3> QED BY <3>1, <3>2
  <2>5. Reverse(defaults)[j] = defaults[Len(defaults) - j + 1]
    BY <1>3, <2>4, ReverseFacts
  <2>6. InOrder[j] = defaults[k] /\ defaults[k] \in Scalars
    BY <1>1, <1>2, <2>4, <2>5
  <2> QED BY <2>1, <2>2, <2>3, <2>6
<1> QED BY <1>4, <1>5

(* Concatenation with nothing, and with one value.                          *)
LEMMA CatEmpty ==
  ASSUME NEW s, IsSeq(s)
  PROVE  s \o <<>> = s
<1>1. IsSeq(s \o <<>>) /\ Len(s \o <<>>) = Len(s) /\ \A i \in 1..Len(s) : (s \o <<>>)[i] = s[i]
  BY EmptyFacts, CatFacts, SeqFacts
<1> QED BY <1>1, SeqEq

LEMMA CatOne ==
  ASSUME NEW s, IsSeq(s), NEW x
  PROVE  s \o <<x>> = Append(s, x)
<1>1. Len(s) \in Nat
  BY SeqFacts
<1>2. /\ IsSeq(s \o <<x>>) /\ Len(s \o <<x>>) = Len(s) + 1 /\ (s \o <<x>>)[Len(s) + 1] = x
      /\ \A i \in 1..Len(s) : (s \o <<x>>)[i] = s[i]
  <2>1. 1 \in 1..1
    OBVIOUS
  <2> QED BY <2>1, PairFacts, CatFacts
<1>3. /\ IsSeq(Append(s, x)) /\ Len(Append(s, x)) = Len(s) + 1 /\ Append(s, x)[Len(s) + 1] = x
      /\ \A i \in 1..Len(s) : Append(s, x)[i] = s[i]
  BY AddFacts
<1>4. \A i \in 1..Len(s) + 1 : i \in 1..Len(s) \/ i = Len(s) + 1
  BY <1>1
<1> QED BY <1>2, <1>3, <1>4, SeqEq

(* The arguments and the defaults behind them. *)
LEMMA FilledFacts ==
  ASSUME ProgramInv, defaults # NoDefaults, NEW args, IsSeq(args), Len(args) >= proto.arity
  PROVE  /\ IsSeq(Filled(args))
         /\ Len(Filled(args)) = IF Len(args) <= arityMax(proto) THEN arityMax(proto) ELSE Len(args)
         /\ \A i \in 1..Len(args) : Filled(args)[i] = args[i]
         /\ \A i \in Len(args) + 1..arityMax(proto) :
              Filled(args)[i] = InOrder[i - proto.arity] /\ Filled(args)[i] \in Scalars
<1> DEFINE n == Len(args)
           k == arityMax(proto)
<1>1. n \in Nat /\ k \in Nat /\ proto.arity \in 0..k /\ n >= proto.arity
  BY SeqFacts, ProtoFacts DEF ProgramInv
<1> DEFINE tail == [j \in 1..k - n |-> DefaultOrNil(n + j - 1)]
<1>2. Filled(args) = args \o tail
  BY DEF Filled
<1>3. IsSeq(tail) /\ Len(tail) = IF n <= k THEN k - n ELSE 0
  <2>1. PICK m \in Nat : m = (IF n <= k THEN k - n ELSE 0) /\ 1..m = 1..k - n
    <3> HIDE DEF n, k
    <3>1. CASE n <= k
      <4>1. k - n \in Nat
        BY <1>1, <3>1
      <4> QED BY <3>1, <4>1
    <3>2. CASE ~(n <= k)
      <4>1. 1..0 = 1..k - n
        BY <1>1, <3>2
      <4> QED BY <3>2, <4>1
    <3> QED BY <3>1, <3>2
  <2>2. tail = [j \in 1..m |-> tail[j]]
    BY <2>1
  <2> HIDE DEF tail
  <2>3. IsSeq(tail) /\ Len(tail) = m
    BY <2>2, SeqIs
  <2> QED BY <2>1, <2>3
<1>4. \A j \in 1..k - n : tail[j] = DefaultOrNil(n + j - 1)
  OBVIOUS
<1> HIDE DEF tail
<1>5. /\ IsSeq(args \o tail) /\ Len(args \o tail) = n + Len(tail)
      /\ \A i \in 1..n : (args \o tail)[i] = args[i]
      /\ \A i \in 1..Len(tail) : (args \o tail)[n + i] = tail[i]
  <2>1. IsSeq(tail)
    BY <1>3
  <2> QED BY <2>1, CatFacts
<1>6. ASSUME NEW i \in n + 1..k
      PROVE  Filled(args)[i] = InOrder[i - proto.arity] /\ Filled(args)[i] \in Scalars
  <2> DEFINE j == i - n
             d == i - 1
  <2>1. j \in 1..k - n /\ n <= k /\ n + j = i /\ n + j - 1 = d /\ d \in 0..k - 1 /\ d >= proto.arity
        /\ d + 1 - proto.arity = i - proto.arity
    BY <1>1
  <2> HIDE DEF j, d
  <2>2. Filled(args)[i] = DefaultOrNil(d)
    BY <1>1, <1>2, <1>3, <1>4, <1>5, <2>1
  <2>3. DefaultOrNil(d) = InOrder[d + 1 - proto.arity] /\ DefaultOrNil(d) \in Scalars
    BY <2>1, DefaultFacts
  <2> QED BY <2>1, <2>2, <2>3
<1> HIDE DEF n, k
<1>7. n + Len(tail) = IF n <= k THEN k ELSE n
  BY <1>1, <1>3
<1> QED BY <1>2, <1>5, <1>6, <1>7 DEF n, k

(* A subsequence that ends before it begins.                                *)
LEMMA SubEmpty ==
  ASSUME NEW s, IsSeq(s), NEW a \in Int, NEW b \in Int, b < a
  PROVE  SubSeq(s, a, b) = <<>>
<1>1. PICK V : s \in Seq(V)
  BY DEF IsSeq
<1> QED BY <1>1

(* Parameters, and behind them what collects the others. *)
Assembled(P, x, y) ==
  LET c == IF proto.hasVararg THEN Append(P, x) ELSE P IN
  IF proto.hasKwarg THEN Append(c, y) ELSE c

(* They are as many as the function has, and values.                        *)
LEMMA AssembledFacts ==
  ASSUME proto \in Signatures, NEW P, IsSeq(P), Len(P) = arityMax(proto), NEW x, NEW y,
         \A i \in 1..arityMax(proto) : IsValue(P[i]),
         proto.hasVararg => IsValue(x),
         proto.hasKwarg => IsValue(y)
  PROVE  /\ Assembled(P, x, y) = P \o (IF proto.hasVararg THEN <<x>> ELSE <<>>)
                                   \o (IF proto.hasKwarg THEN <<y>> ELSE <<>>)
         /\ IsSeq(Assembled(P, x, y)) /\ Len(Assembled(P, x, y)) = ParamCount(proto)
         /\ \A i \in 1..arityMax(proto) : Assembled(P, x, y)[i] = P[i]
         /\ \A i \in 1..ParamCount(proto) : IsValue(Assembled(P, x, y)[i])
<1> DEFINE k == arityMax(proto)
           c == IF proto.hasVararg THEN Append(P, x) ELSE P
           l == k + (IF proto.hasVararg THEN 1 ELSE 0)
           r == IF proto.hasKwarg THEN Append(c, y) ELSE c
<1>1. /\ k \in Nat /\ proto.hasVararg \in BOOLEAN /\ proto.hasKwarg \in BOOLEAN
      /\ ParamCount(proto) = k + (IF proto.hasVararg THEN 1 ELSE 0) + (IF proto.hasKwarg THEN 1 ELSE 0)
  BY ProtoFacts
<1>2. /\ c = P \o (IF proto.hasVararg THEN <<x>> ELSE <<>>)
      /\ IsSeq(c) /\ Len(c) = l
      /\ \A i \in 1..k : c[i] = P[i]
      /\ \A i \in 1..l : IsValue(c[i])
  <2>1. CASE proto.hasVararg
    <3>1. c = Append(P, x) /\ l = k + 1
      BY <2>1
    <3>2. /\ IsSeq(Append(P, x)) /\ Len(Append(P, x)) = k + 1 /\ Append(P, x)[k + 1] = x
          /\ \A i \in 1..k : Append(P, x)[i] = P[i]
          /\ P \o <<x>> = Append(P, x)
      BY AddFacts, CatOne
    <3>3. \A i \in 1..k + 1 : i \in 1..k \/ i = k + 1
      BY <1>1
    <3> HIDE DEF c, l, k
    <3> QED BY <2>1, <3>1, <3>2, <3>3 DEF k
  <2>2. CASE ~proto.hasVararg
    <3>1. c = P /\ l = k
      BY <1>1, <2>2
    <3>2. P \o <<>> = P
      BY CatEmpty
    <3> HIDE DEF c, l, k
    <3> QED BY <2>2, <3>1, <3>2 DEF k
  <2> QED BY <2>1, <2>2
<1>3. Assembled(P, x, y) = r /\ l \in Nat /\ k <= l
  BY <1>1 DEF Assembled
<1>4. ParamCount(proto) = l + (IF proto.hasKwarg THEN 1 ELSE 0)
  BY <1>1
<1> HIDE DEF c, l
<1>5. /\ r = c \o (IF proto.hasKwarg THEN <<y>> ELSE <<>>)
      /\ IsSeq(r) /\ Len(r) = ParamCount(proto)
      /\ \A i \in 1..l : r[i] = c[i]
      /\ \A i \in 1..ParamCount(proto) : IsValue(r[i])
  <2>1. CASE proto.hasKwarg
    <3>1. r = Append(c, y) /\ ParamCount(proto) = l + 1
      BY <1>4, <2>1
    <3>2. /\ IsSeq(Append(c, y)) /\ Len(Append(c, y)) = l + 1 /\ Append(c, y)[l + 1] = y
          /\ \A i \in 1..l : Append(c, y)[i] = c[i]
          /\ c \o <<y>> = Append(c, y)
      <4>1. IsSeq(c) /\ Len(c) = l
        BY <1>2
      <4> QED BY <4>1, AddFacts, CatOne
    <3>3. \A i \in 1..l + 1 : i \in 1..l \/ i = l + 1
      BY <1>3
    <3> HIDE DEF r
    <3> QED BY <1>2, <2>1, <3>1, <3>2, <3>3
  <2>2. CASE ~proto.hasKwarg
    <3>1. r = c /\ ParamCount(proto) = l
      BY <1>3, <1>4, <2>2
    <3>2. c \o <<>> = c
      BY <1>2, CatEmpty
    <3> HIDE DEF r
    <3> QED BY <1>2, <2>2, <3>1, <3>2
  <2> QED BY <2>1, <2>2
<1> HIDE DEF r
<1>6. \A i \in 1..k : i \in 1..l
  BY <1>1, <1>3
<1> HIDE DEF k
<1> QED BY <1>2, <1>3, <1>5, <1>6 DEF k

(* A parameter by position, and whether a call without keywords is         *)
(* accepted. *)
LEMMA ValueByPosition ==
  ASSUME NEW args, NEW i
  PROVE  Activations!Value(i, args, NoKeywords) = IF i <= Len(args) THEN args[i] ELSE InOrder[i - proto.arity]
<1>1. DOMAIN NoKeywords = {}
  BY DEF NoKeywords
<1> QED BY <1>1 DEF Activations!Value, Activations!ByKeyword

(* The arguments left over, if the function collects them. *)
LEMMA ExtraFacts ==
  ASSUME ProgramInv, defaults # NoDefaults, NEW args, IsSeq(args), Len(args) >= proto.arity
  PROVE  /\ Extra(args) = SubSeq(args, arityMax(proto) + 1, Len(args))
         /\ Range(Extra(args)) \subseteq Scalars => Extra(args) \in Seq(Scalars)
<1> DEFINE n == Len(args)
           k == arityMax(proto)
           f == Filled(args)
<1>1. n \in Nat /\ k \in Nat
  BY SeqFacts, ProtoFacts DEF ProgramInv
<1>2. IsSeq(f) /\ Len(f) = (IF n <= k THEN k ELSE n) /\ \A i \in 1..n : f[i] = args[i]
  BY FilledFacts
<1>3. Extra(args) = SubSeq(f, k + 1, Len(f))
  BY DEF Extra
<1> HIDE DEF f
<1>4. CASE n <= k
  <2>1. Len(f) = k /\ k < k + 1 /\ n < k + 1 /\ k + 1 \in Int /\ k \in Int /\ n \in Int
    BY <1>1, <1>2, <1>4
  <2> HIDE DEF n, k
  <2>2. SubSeq(f, k + 1, k) = <<>>
    BY <1>2, <2>1, SubEmpty
  <2>3. SubSeq(args, k + 1, n) = <<>>
    BY <2>1, SubEmpty
  <2>4. <<>> \in Seq(Scalars)
    OBVIOUS
  <2> QED BY <1>3, <2>1, <2>2, <2>3, <2>4 DEF n, k
<1>5. CASE ~(n <= k)
  <2>1. Len(f) = n /\ 1 <= k + 1 /\ k + 1 <= n + 1 /\ k + 1 \in Int /\ n \in Int
    BY <1>1, <1>2, <1>5
  <2>2. PICK a \in Int : a = k + 1
    BY <2>1
  <2> HIDE DEF k
  <2>3. /\ IsSeq(SubSeq(f, a, n)) /\ Len(SubSeq(f, a, n)) = n - a + 1
        /\ \A i \in 1..n - a + 1 : SubSeq(f, a, n)[i] = f[a + i - 1]
    BY <1>2, <2>1, <2>2, SubFacts
  <2>4. /\ IsSeq(SubSeq(args, a, n)) /\ Len(SubSeq(args, a, n)) = n - a + 1
        /\ \A i \in 1..n - a + 1 : SubSeq(args, a, n)[i] = args[a + i - 1]
    BY <2>1, <2>2, SubFacts
  <2> DEFINE e == SubSeq(f, a, n)
             t == SubSeq(args, a, n)
  <2> HIDE DEF e, t
  <2>5. \A i \in 1..n - a + 1 : a + i - 1 \in 1..n
    BY <1>1, <2>1, <2>2
  <2>6. \A i \in 1..n - a + 1 : e[i] = t[i]
    BY <1>2, <2>3, <2>4, <2>5 DEF e, t
  <2>7. IsSeq(e) /\ IsSeq(t) /\ Len(e) = n - a + 1 /\ Len(t) = n - a + 1
    BY <2>3, <2>4 DEF e, t
  <2>8. e = t
    BY <2>6, <2>7, SeqEq
  <2>9. Extra(args) = e
    BY <1>3, <2>1, <2>2 DEF e, k
  <2>10. Range(e) \subseteq Scalars => e \in Seq(Scalars)
    <3>1. PICK V : e \in Seq(V)
      BY <2>7 DEF IsSeq
    <3>2. Range(e) = {e[i] : i \in DOMAIN e}
      BY DEF Range
    <3>3. Len(e) \in Nat /\ DOMAIN e = 1..Len(e) /\ e = [i \in 1..Len(e) |-> e[i]]
      BY <2>7, SeqFacts
    <3>4. ASSUME Range(e) \subseteq Scalars PROVE e \in Seq(Scalars)
      <4>1. \A i \in 1..Len(e) : e[i] \in Scalars
        BY <3>2, <3>3, <3>4
      <4>2. e \in [1..Len(e) -> Scalars]
        BY <3>3, <4>1
      <4> QED BY <3>3, <4>2
    <3> QED BY <3>4
  <2> QED BY <2>2, <2>8, <2>9, <2>10 DEF t, k
<1> QED BY <1>4, <1>5

(* msClosureCall gives the parameters that a call promises. *)
LEMMA PositionalFacts ==
  ASSUME ProgramInv, defaults # NoDefaults, NEW args, IsSeq(args),
         \A i \in 1..Len(args) : IsValue(args[i]),
         Len(args) >= proto.arity, proto.hasVararg \/ Len(args) <= arityMax(proto),
         proto.hasVararg => Range(Extra(args)) \subseteq Scalars
  PROVE  /\ Positional(args) = Activations!Parameters(args, NoKeywords)
         /\ Activations!Accepts(args, NoKeywords)
         /\ IsSeq(Positional(args)) /\ Len(Positional(args)) = ParamCount(proto)
         /\ \A i \in 1..ParamCount(proto) : IsValue(Positional(args)[i])
         /\ 1 <= Len(args) /\ 1 <= arityMax(proto) => Positional(args)[1] = args[1]
<1> DEFINE n == Len(args)
           k == arityMax(proto)
           f == Filled(args)
           P == [i \in 1..k |-> Activations!Value(i, args, NoKeywords)]
           x == List(Extra(args))
           y == Map(NoKeywords)
<1>1. n \in Nat /\ k \in Nat /\ proto.arity \in 0..k /\ proto \in Signatures
  BY SeqFacts, ProtoFacts DEF ProgramInv
<1>2. /\ IsSeq(f) /\ Len(f) = (IF n <= k THEN k ELSE n)
      /\ \A i \in 1..n : f[i] = args[i]
      /\ \A i \in n + 1..k : f[i] = InOrder[i - proto.arity] /\ f[i] \in Scalars
  BY FilledFacts
<1>3. P = [i \in 1..k |-> P[i]] /\ \A i \in 1..k : P[i] = Activations!Value(i, args, NoKeywords)
  OBVIOUS
<1> HIDE DEF P, f
<1>4. IsSeq(P) /\ Len(P) = k
  BY <1>1, <1>3, SeqIs
<1>5. \A i \in 1..k : P[i] = f[i] /\ IsValue(P[i])
  <2> SUFFICES ASSUME NEW i \in 1..k PROVE P[i] = f[i] /\ IsValue(P[i])
    OBVIOUS
  <2>1. P[i] = IF i <= n THEN args[i] ELSE InOrder[i - proto.arity]
    BY <1>3, ValueByPosition
  <2>2. CASE i <= n
    <3>1. i \in 1..n
      BY <1>1, <2>2
    <3> QED BY <1>2, <2>1, <2>2, <3>1
  <2>3. CASE ~(i <= n)
    <3>1. i \in n + 1..k
      BY <1>1, <2>3
    <3> QED BY <1>2, <2>1, <2>3, <3>1, ScalarIsValue
  <2> QED BY <2>2, <2>3
<1>6. Extra(args) = SubSeq(args, k + 1, n) /\ (proto.hasVararg => IsValue(x))
  BY ExtraFacts, CollectionsAreValues
<1>7. IsValue(y)
  BY CollectionsAreValues
<1>8. Collected(args) = IF proto.hasVararg THEN Append(P, x) ELSE P
  <2>1. Collected(args) = IF proto.hasVararg THEN Append(SubSeq(f, 1, k), x) ELSE f
    BY DEF Collected, f
  <2>2. Len(f) >= k /\ Len(f) \in Nat
    BY <1>1, <1>2
  <2> DEFINE g == SubSeq(f, 1, k)
  <2>3. IsSeq(g) /\ Len(g) = k - 1 + 1 /\ \A i \in 1..k - 1 + 1 : g[i] = f[1 + i - 1]
    <3>1. 1 \in Int /\ k \in Int /\ 1 <= 1 /\ 1 <= k + 1 /\ k <= Len(f)
      BY <1>1, <2>2
    <3> HIDE DEF k
    <3> QED BY <1>2, <3>1, SubFacts
  <2> HIDE DEF g
  <2>4. k - 1 + 1 = k /\ \A i \in 1..k : 1 + i - 1 = i
    BY <1>1
  <2>5. Len(g) = k /\ \A i \in 1..k : g[i] = P[i]
    BY <1>5, <2>3, <2>4
  <2>6. g = P
    BY <1>4, <2>3, <2>5, SeqEq
  <2>7. ~proto.hasVararg => f = P
    <3>1. ~proto.hasVararg => Len(f) = k
      BY <1>2
    <3> QED BY <1>2, <1>4, <1>5, <3>1, SeqEq
  <2> QED BY <2>1, <2>6, <2>7 DEF g
<1>9. Positional(args) = Assembled(P, x, y)
  BY <1>8 DEF Positional, Assembled
<1>10. Activations!Parameters(args, NoKeywords)
         = P \o (IF proto.hasVararg THEN <<x>> ELSE <<>>) \o (IF proto.hasKwarg THEN <<y>> ELSE <<>>)
  <2>1. DOMAIN NoKeywords = {} /\ NoKeywords = [z \in {} |-> NoKeywords[z]]
    BY DEF NoKeywords
  <2>2. \A S : Activations!Restrict(NoKeywords, DOMAIN NoKeywords \ S) = NoKeywords
    BY <2>1, SameCallables
  <2>3. Activations!Positions = 1..k
    BY SameCallables DEF Activations!Positions
  <2>4. Activations!Parameters(args, NoKeywords)
          = [i \in Activations!Positions |-> Activations!Value(i, args, NoKeywords)]
            \o (IF proto.hasVararg
                THEN <<Activations!List(SubSeq(args, Activations!arityMax(proto) + 1, Len(args)))>> ELSE <<>>)
            \o (IF proto.hasKwarg
                THEN <<Activations!Map(Activations!Restrict(NoKeywords,
                         DOMAIN NoKeywords \ Activations!Range(proto.names)))>> ELSE <<>>)
    BY DEF Activations!Parameters
  <2>5. [i \in Activations!Positions |-> Activations!Value(i, args, NoKeywords)] = P
    BY <2>3 DEF P
  <2>6. Activations!List(SubSeq(args, Activations!arityMax(proto) + 1, Len(args))) = x
    BY <1>6, SameCallables
  <2>7. Activations!Map(Activations!Restrict(NoKeywords, DOMAIN NoKeywords \ Activations!Range(proto.names))) = y
    <3> DEFINE S == Activations!Range(proto.names)
    <3> HIDE DEF S
    <3>1. Activations!Restrict(NoKeywords, DOMAIN NoKeywords \ S) = NoKeywords
      BY <2>2
    <3> QED BY <3>1, SameCallables DEF S
  <2> HIDE DEF x, y
  <2> QED BY <2>4, <2>5, <2>6, <2>7
<1>11. Activations!Accepts(args, NoKeywords)
  <2>1. DOMAIN NoKeywords = {}
    BY DEF NoKeywords
  <2>2. \A i \in 1..proto.arity : i <= Len(args)
    BY <1>1
  <2>3. Len(args) > arityMax(proto) => proto.hasVararg
    BY <1>1
  <2> QED BY <2>1, <2>2, <2>3, SameCallables DEF Activations!Accepts, Activations!ByKeyword
<1> DEFINE r == Assembled(P, x, y)
<1>12. /\ r = P \o (IF proto.hasVararg THEN <<x>> ELSE <<>>) \o (IF proto.hasKwarg THEN <<y>> ELSE <<>>)
       /\ IsSeq(r) /\ Len(r) = ParamCount(proto)
       /\ \A i \in 1..k : r[i] = P[i]
       /\ \A i \in 1..ParamCount(proto) : IsValue(r[i])
  <2> HIDE DEF x, y
  <2>1. \A i \in 1..k : IsValue(P[i])
    BY <1>5
  <2> QED BY <1>1, <1>4, <1>6, <1>7, <2>1, AssembledFacts
<1> HIDE DEF r
<1>13. 1 <= n /\ 1 <= k => r[1] = args[1]
  <2> SUFFICES ASSUME 1 <= n, 1 <= k PROVE r[1] = args[1]
    OBVIOUS
  <2>1. 1 \in 1..n /\ 1 \in 1..k
    BY <1>1
  <2>2. r[1] = P[1]
    BY <1>12, <2>1
  <2>3. P[1] = f[1] /\ f[1] = args[1]
    BY <1>2, <1>5, <2>1
  <2> QED BY <2>2, <2>3
<1> QED BY <1>9, <1>10, <1>11, <1>12, <1>13 DEF r

(* The slot of the parameter that has a name, which is the only one. *)
LEMMA ParamSlotFacts ==
  ASSUME proto \in Signatures, NEW name
  PROVE  /\ \A i \in 1..arityMax(proto) : proto.names[i] = name => ParamSlot(name) = i
         /\ (\A i \in 1..arityMax(proto) : proto.names[i] # name) => ParamSlot(name) = 0
<1> DEFINE S == {i \in 1..arityMax(proto) : proto.names[i] = name}
<1>1. /\ arityMax(proto) \in Nat
      /\ \A i, j \in 1..arityMax(proto) : proto.names[i] = proto.names[j] => i = j
  BY ProtoFacts
<1>2. ParamSlot(name) = Max({0} \cup S)
  BY DEF ParamSlot
<1>3. ASSUME NEW i \in 1..arityMax(proto), proto.names[i] = name PROVE ParamSlot(name) = i
  <2>1. S = {i}
    BY <1>1, <1>3
  <2>2. {0} \cup S = {0, i} /\ i \in Nat /\ i >= 0
    BY <1>1, <2>1
  <2>3. \A x \in {0, i} : (\A y \in {0, i} : x >= y) => x = i
    BY <2>2
  <2>4. \A y \in {0, i} : i >= y
    BY <2>2
  <2>5. Max({0, i}) = CHOOSE x \in {0, i} : \A y \in {0, i} : x >= y
    BY DEF Max
  <2> QED BY <1>2, <2>2, <2>3, <2>4, <2>5
<1>4. ASSUME \A i \in 1..arityMax(proto) : proto.names[i] # name PROVE ParamSlot(name) = 0
  <2>1. {0} \cup S = {0}
    BY <1>4
  <2>2. \A y \in {0} : 0 >= y
    OBVIOUS
  <2>3. Max({0}) = CHOOSE x \in {0} : \A y \in {0} : x >= y
    BY DEF Max
  <2> QED BY <1>2, <2>1, <2>2, <2>3
<1> QED BY <1>3, <1>4

(* A keyword that is not unknown names one parameter.                       *)
LEMMA NamedFacts ==
  ASSUME proto \in Signatures, NEW km
  PROVE  /\ Range(proto.names) = {proto.names[i] : i \in 1..arityMax(proto)}
         /\ Unknown(km) = DOMAIN km \ Range(proto.names)
         /\ Named(km) = {i \in 1..arityMax(proto) : proto.names[i] \in DOMAIN km}
<1>1. /\ proto.names = [i \in 1..arityMax(proto) |-> proto.names[i]]
      /\ arityMax(proto) \in Nat
  BY ProtoFacts
<1>2. DOMAIN proto.names = 1..arityMax(proto)
  BY <1>1
<1>3. Range(proto.names) = {proto.names[i] : i \in 1..arityMax(proto)}
  BY <1>2 DEF Range
<1>4. \A name : name \in Range(proto.names) => ParamSlot(name) # 0
  <2> SUFFICES ASSUME NEW i \in 1..arityMax(proto) PROVE ParamSlot(proto.names[i]) # 0
    BY <1>3
  <2>1. ParamSlot(proto.names[i]) = i
    BY ParamSlotFacts
  <2> QED BY <1>1, <2>1
<1>5. \A name : name \notin Range(proto.names) => ParamSlot(name) = 0
  BY <1>3, ParamSlotFacts
<1>6. Unknown(km) = DOMAIN km \ Range(proto.names)
  BY <1>4, <1>5 DEF Unknown
<1>7. \A i \in 1..arityMax(proto) : ParamSlot(proto.names[i]) = i
  BY ParamSlotFacts
<1>8. Named(km) = {ParamSlot(name) : name \in DOMAIN km \cap Range(proto.names)}
  <2>1. DOMAIN km \ Unknown(km) = DOMAIN km \cap Range(proto.names)
    BY <1>6
  <2> QED BY <2>1 DEF Named
<1>9. ASSUME NEW i \in Named(km)
      PROVE  i \in 1..arityMax(proto) /\ proto.names[i] \in DOMAIN km
  <2>1. PICK j \in 1..arityMax(proto) : proto.names[j] \in DOMAIN km /\ i = ParamSlot(proto.names[j])
    BY <1>3, <1>8
  <2> QED BY <1>7, <2>1
<1>10. ASSUME NEW i \in 1..arityMax(proto), proto.names[i] \in DOMAIN km
       PROVE  i \in Named(km)
  <2>1. proto.names[i] \in DOMAIN km \cap Range(proto.names) /\ ParamSlot(proto.names[i]) = i
    BY <1>3, <1>7, <1>10
  <2> QED BY <1>8, <2>1
<1>11. Named(km) = {i \in 1..arityMax(proto) : proto.names[i] \in DOMAIN km}
  BY <1>9, <1>10
<1> QED BY <1>3, <1>6, <1>11

(* msClosureCallKw gives the parameters that a call promises. *)
LEMMA ByNameFacts ==
  ASSUME ProgramInv, defaults # NoDefaults, NEW pos, IsSeq(pos),
         \A i \in 1..Len(pos) : IsValue(pos[i]),
         NEW km \in Keywords,
         ~proto.hasVararg, Len(pos) <= arityMax(proto),
         Unknown(km) = {} \/ proto.hasKwarg,
         \A i \in Named(km) : i > Len(pos),
         \A i \in Len(pos) + 1..arityMax(proto) : i \in Named(km) \/ HasDefault(i - 1)
  PROVE  /\ ByName(pos, km) = Activations!Parameters(pos, km)
         /\ Activations!Accepts(pos, km)
         /\ IsSeq(ByName(pos, km)) /\ Len(ByName(pos, km)) = ParamCount(proto)
         /\ \A i \in 1..ParamCount(proto) : IsValue(ByName(pos, km)[i])
<1> DEFINE n == Len(pos)
           k == arityMax(proto)
           P == [i \in 1..k |-> Activations!Value(i, pos, km)]
           z == [name \in Unknown(km) |-> km[name]]
           x == List(SubSeq(pos, k + 1, n))
           y == Map(z)
<1>1. n \in Nat /\ k \in Nat /\ proto.arity \in 0..k /\ proto \in Signatures
  BY SeqFacts, ProtoFacts DEF ProgramInv
<1>2. /\ Range(proto.names) = {proto.names[i] : i \in 1..k}
      /\ Unknown(km) = DOMAIN km \ Range(proto.names)
      /\ Named(km) = {i \in 1..k : proto.names[i] \in DOMAIN km}
  BY <1>1, NamedFacts
<1>3. P = [i \in 1..k |-> P[i]] /\ \A i \in 1..k : P[i] = Activations!Value(i, pos, km)
  OBVIOUS
<1> HIDE DEF P
<1>4. IsSeq(P) /\ Len(P) = k
  BY <1>1, <1>3, SeqIs
<1>5. PICK D \in SUBSET Names : km \in [D -> Scalars]
  BY DEF Keywords
<1>6. DOMAIN km = D /\ \A name \in D : km[name] \in Scalars
  BY <1>5
<1>7. \A i \in n + 1..k : i \in Named(km) \/ i - 1 >= proto.arity
  <2> SUFFICES ASSUME NEW i \in n + 1..k, HasDefault(i - 1) PROVE i - 1 >= proto.arity
    OBVIOUS
  <2>1. i - 1 \in 0..k - 1
    BY <1>1
  <2> QED BY <2>1, DefaultFacts
<1>8. \A i \in 1..k : P[i] = SlotVals(pos, km)[i] /\ IsValue(P[i])
  <2> SUFFICES ASSUME NEW i \in 1..k PROVE P[i] = SlotVals(pos, km)[i] /\ IsValue(P[i])
    OBVIOUS
  <2>1. P[i] = IF i <= n THEN pos[i]
               ELSE IF proto.names[i] \in DOMAIN km THEN km[proto.names[i]] ELSE InOrder[i - proto.arity]
    BY <1>3 DEF Activations!Value, Activations!ByKeyword
  <2>2. SlotVals(pos, km)[i] = IF i <= n THEN pos[i]
                               ELSE IF i \in Named(km) THEN km[proto.names[i]] ELSE DefaultOrNil(i - 1)
    BY DEF SlotVals
  <2>3. i \in Named(km) <=> proto.names[i] \in DOMAIN km
    BY <1>2
  <2>4. CASE i <= n
    <3>1. i \in 1..n
      BY <1>1, <2>4
    <3> QED BY <2>1, <2>2, <2>4, <3>1
  <2>5. CASE ~(i <= n) /\ i \in Named(km)
    <3>1. km[proto.names[i]] \in Scalars
      BY <1>6, <2>3, <2>5
    <3> QED BY <2>1, <2>2, <2>3, <2>5, <3>1, ScalarIsValue
  <2>6. CASE ~(i <= n) /\ i \notin Named(km)
    <3>1. i \in n + 1..k
      BY <1>1, <2>6
    <3>2. PICK d : d = i - 1
      OBVIOUS
    <3>3. d >= proto.arity /\ d \in 0..k - 1 /\ d + 1 - proto.arity = i - proto.arity
      <4>1. i - 1 \in 0..k - 1 /\ i - 1 + 1 - proto.arity = i - proto.arity
        BY <1>1
      <4> QED BY <1>7, <2>6, <3>1, <3>2, <4>1
    <3>4. DefaultOrNil(d) = InOrder[d + 1 - proto.arity] /\ DefaultOrNil(d) \in Scalars
      BY <3>3, DefaultFacts
    <3> QED BY <2>1, <2>2, <2>3, <2>6, <3>2, <3>3, <3>4, ScalarIsValue
  <2> QED BY <2>4, <2>5, <2>6
<1>9. SlotVals(pos, km) = P
  <2>1. SlotVals(pos, km) = [i \in 1..k |-> SlotVals(pos, km)[i]]
    BY DEF SlotVals
  <2> QED BY <1>3, <1>8, <2>1
<1>10. IsValue(y)
  <2>1. Unknown(km) \in SUBSET Names /\ z \in [Unknown(km) -> Scalars]
    BY <1>2, <1>6
  <2>2. [Unknown(km) -> Scalars] \in {[E -> Scalars] : E \in SUBSET Names}
    BY <2>1
  <2>3. z \in Keywords
    BY <2>1, <2>2 DEF Keywords
  <2> HIDE DEF z
  <2> QED BY <2>3, CollectionsAreValues
<1>11. ByName(pos, km) = Assembled(P, x, y)
  BY <1>9 DEF ByName, Assembled
<1>12. Activations!Parameters(pos, km)
         = P \o (IF proto.hasVararg THEN <<x>> ELSE <<>>) \o (IF proto.hasKwarg THEN <<y>> ELSE <<>>)
  <2>1. Activations!Positions = 1..k
    BY SameCallables DEF Activations!Positions
  <2>2. Activations!Parameters(pos, km)
          = [i \in Activations!Positions |-> Activations!Value(i, pos, km)]
            \o (IF proto.hasVararg
                THEN <<Activations!List(SubSeq(pos, Activations!arityMax(proto) + 1, Len(pos)))>> ELSE <<>>)
            \o (IF proto.hasKwarg
                THEN <<Activations!Map(Activations!Restrict(km,
                         DOMAIN km \ Activations!Range(proto.names)))>> ELSE <<>>)
    BY DEF Activations!Parameters
  <2>3. [i \in Activations!Positions |-> Activations!Value(i, pos, km)] = P
    BY <2>1 DEF P
  <2>4. Activations!List(SubSeq(pos, Activations!arityMax(proto) + 1, Len(pos))) = x
    BY SameCallables
  <2>5. Activations!Map(Activations!Restrict(km, DOMAIN km \ Activations!Range(proto.names))) = y
    <3>1. Activations!Range(proto.names) = Range(proto.names)
      BY SameCallables
    <3>2. DOMAIN km \ Range(proto.names) = Unknown(km)
      BY <1>2
    <3>3. Activations!Restrict(km, Unknown(km)) = z
      BY SameCallables
    <3> HIDE DEF z
    <3> QED BY <3>1, <3>2, <3>3, SameCallables
  <2> HIDE DEF x, y
  <2> QED BY <2>2, <2>3, <2>4, <2>5
<1>13. Activations!Accepts(pos, km)
  <2>1. \A i \in 1..k : Activations!ByKeyword(i, km) <=> i \in Named(km)
    BY <1>2 DEF Activations!ByKeyword
  <2>2. Activations!Positions = 1..k /\ Activations!arityMax(proto) = k
    BY SameCallables DEF Activations!Positions
  <2>3. \A i \in 1..k : ~(i <= n /\ i \in Named(km))
    <3>1. \A i \in Named(km) : i \in 1..k /\ i > n
      BY <1>2
    <3> QED BY <1>1, <3>1
  <2>4. \A i \in 1..proto.arity : i <= n \/ i \in Named(km)
    <3> SUFFICES ASSUME NEW i \in 1..proto.arity, ~(i <= n) PROVE i \in Named(km)
      OBVIOUS
    <3>1. i \in n + 1..k /\ ~(i - 1 >= proto.arity)
      BY <1>1
    <3> QED BY <1>7, <3>1
  <2>5. \A i \in 1..proto.arity : i \in 1..k
    BY <1>1
  <2>6. ~(n > k)
    BY <1>1
  <2>7. DOMAIN km \subseteq Activations!Range(proto.names) \/ proto.hasKwarg
    BY <1>2, SameCallables
  <2> HIDE DEF k
  <2> QED BY <2>1, <2>2, <2>3, <2>4, <2>5, <2>6, <2>7 DEF Activations!Accepts
<1> DEFINE r == Assembled(P, x, y)
<1>14. /\ r = P \o (IF proto.hasVararg THEN <<x>> ELSE <<>>) \o (IF proto.hasKwarg THEN <<y>> ELSE <<>>)
       /\ IsSeq(r) /\ Len(r) = ParamCount(proto)
       /\ \A i \in 1..ParamCount(proto) : IsValue(r[i])
  <2> HIDE DEF x, y
  <2>1. \A i \in 1..k : IsValue(P[i])
    BY <1>8
  <2> QED BY <1>1, <1>4, <1>10, <2>1, AssembledFacts
<1> HIDE DEF r
<1> QED BY <1>11, <1>12, <1>13, <1>14 DEF r
----------------------------------------------------------------------------
(* The stack. *)

Slots(n) == frames[chain[n]].slots

(* The last operand of the n-th frame, and the last of them that its code  *)
(* cannot take off. *)
Top(n) == IF n = Len(chain) THEN sp ELSE Base(frames[chain[n + 1]]) - 1
Floor(n) == Slots(n) - 1 + (IF n = 1 THEN 0 ELSE ParamCount(proto))

(* A frame holds its parameters, of which a constructor's first one is the *)
(* instance; while it loops, the iterator lies above them.  Its operands   *)
(* are above those of its callers. *)
FrameInv(n) ==
  /\ Slots(n) \in Nat /\ Slots(n) >= 1
  /\ frames[chain[n]].new = IF frames[chain[n]].isCtor THEN Instance ELSE Nothing
  /\ Floor(n) <= Top(n)
  /\ frames[chain[n]].forIterPending => Floor(n) < Top(n)
  /\ frames[chain[n]].isCtor => n # 1 /\ ParamCount(proto) >= 1 /\ stack[Slots(n)] = Instance
  /\ \A m \in 1..n - 1 : Top(m) < Slots(n)

StackInv ==
  /\ IsSeq(stack)
  /\ \A i \in 1..sp : IsValue(stack[i])
  /\ \A n \in Depths : FrameInv(n)

CallInv == FlagsInv /\ ProgramInv /\ StackInv

(* What the fields of frames become. *)
LEMMA CalledFields ==
  ASSUME NEW f, IsFrame(f), NEW slots, NEW how
  PROVE  /\ Called(f, slots, how).slots = slots
         /\ Called(f, slots, how).isCtor = (how = "ctor")
         /\ Called(f, slots, how).boundCall = (how = "bound")
         /\ ~Called(f, slots, how).forIterPending
         /\ Called(f, slots, how).new = IF how = "ctor" THEN Instance ELSE Nothing
         /\ Waits(Called(f, slots, how)) = "push"
<1>1. PICK S, N : f \in FrameOf(S, N)
  BY DEF IsFrame
<1> DEFINE c == Cleared(f)
           g == Called(f, slots, how)
<1>2. c \in FrameOf(S, N \cup {Nothing}) /\ c.isCtor = FALSE /\ c.boundCall = FALSE
      /\ c.forIterPending = FALSE /\ c.discardReturn = FALSE
  BY <1>1 DEF FrameOf, Cleared
<1>3. g = [c EXCEPT !.slots = slots, !.isCtor = c.isCtor \/ how = "ctor",
                    !.boundCall = c.boundCall \/ how = "bound",
                    !.new = IF how = "ctor" THEN Instance ELSE Nothing]
  BY DEF Called
<1> HIDE DEF c, g
<1>4. /\ g.slots = slots /\ g.isCtor = (how = "ctor") /\ g.boundCall = (how = "bound")
      /\ g.forIterPending = FALSE /\ g.discardReturn = FALSE
      /\ g.new = IF how = "ctor" THEN Instance ELSE Nothing
  BY <1>2, <1>3 DEF FrameOf
<1> QED BY <1>4 DEF Waits, g

(* What waiting changes of a frame.                                         *)
LEMMA WaitingFields ==
  ASSUME NEW f, IsFrame(f), NEW waits \in {"push", "discard", "iterate"}, ~Awaits(f)
  PROVE  /\ Waiting(f, waits).slots = f.slots
         /\ Waiting(f, waits).isCtor = f.isCtor
         /\ Waiting(f, waits).boundCall = f.boundCall
         /\ Waiting(f, waits).forIterPending = (waits = "iterate")
         /\ Waiting(f, waits).new = f.new
         /\ Waits(Waiting(f, waits)) = waits
<1>1. PICK S, N : f \in FrameOf(S, N)
  BY DEF IsFrame
<1> DEFINE g == Waiting(f, waits)
<1>2. /\ g.slots = f.slots /\ g.isCtor = f.isCtor /\ g.boundCall = f.boundCall /\ g.new = f.new
      /\ g.forIterPending = (waits = "iterate") /\ g.discardReturn = (waits = "discard")
  BY <1>1 DEF FrameOf, Waiting, Awaits
<1> HIDE DEF g
<1> QED BY <1>2 DEF Waits, g

(* What going on changes of a frame.                                        *)
LEMMA ResumedFields ==
  ASSUME NEW f, IsFrame(f)
  PROVE  /\ Resumed(f).slots = f.slots
         /\ Resumed(f).isCtor = f.isCtor
         /\ Resumed(f).boundCall = f.boundCall
         /\ ~Resumed(f).forIterPending
         /\ Resumed(f).new = f.new
         /\ Waits(Resumed(f)) = "push"
<1>1. PICK S, N : f \in FrameOf(S, N)
  BY DEF IsFrame
<1> DEFINE g == Resumed(f)
<1>2. /\ g.slots = f.slots /\ g.isCtor = f.isCtor /\ g.boundCall = f.boundCall /\ g.new = f.new
      /\ g.forIterPending = FALSE /\ g.discardReturn = FALSE
  BY <1>1 DEF FrameOf, Resumed
<1> HIDE DEF g
<1> QED BY <1>2 DEF Waits, g

(* Where the frames in use have their operands. *)
LEMMA RunFacts ==
  ASSUME CallInv, Running
  PROVE  /\ Len(chain) \in Nat /\ Len(chain) >= 1
         /\ topFrame = chain[Len(chain)] /\ frame = frames[chain[Len(chain)]]
         /\ Depths = 1..Len(chain)
         /\ InFunction <=> Len(chain) # 1
         /\ sp \in Nat /\ Top(Len(chain)) = sp
         /\ ParamCount(proto) \in Nat
         /\ \A n \in 1..Len(chain) :
              /\ FrameInv(n) /\ chain[n] \in Addresses /\ IsFrame(frames[chain[n]])
              /\ Floor(n) \in Nat /\ Top(n) \in Nat /\ Slots(n) - 1 <= Floor(n)
              /\ Top(n) <= sp /\ (n # Len(chain) => Top(n) < Slots(Len(chain)))
<1> DEFINE L == Len(chain)
<1>1. chain \in Seq(Addresses) /\ chain # <<>>
  BY DEF CallInv, FlagsInv, PoolInv, PoolTypeOK, Running
<1>2. L \in Nat /\ L >= 1 /\ topFrame = chain[L] /\ \A n \in 1..L : chain[n] \in Addresses
  <2>1. L \in Nat /\ L >= 1 /\ Last(chain) = chain[L]
    BY <1>1, FrontFacts
  <2>2. \A n \in 1..L : chain[n] \in Addresses
    BY <1>1
  <2> QED BY <2>1, <2>2 DEF topFrame
<1>3. Depths = 1..L /\ frame = frames[chain[L]]
  BY <1>2 DEF Depths, frame
<1>4. InFunction <=> L # 1
  <2>1. L \in Depths
    BY <1>2, <1>3
  <2> QED BY <1>2, <2>1 DEF InFunction, CallInv, FlagsInv, PoolInv, PoolIsStack, OnlyOutermostIsTopLevel
<1>5. sp \in Nat
  BY SeqFacts DEF CallInv, StackInv, sp
<1>6. ParamCount(proto) \in Nat
  BY ProtoFacts DEF CallInv, ProgramInv
<1>7. \A n \in 1..L : FrameInv(n) /\ IsFrame(frames[chain[n]])
  BY <1>2, <1>3 DEF CallInv, StackInv, FlagsInv, FramesOK
<1>8. Top(L) = sp
  BY DEF Top
<1>9. \A n \in 1..L : n \in Nat /\ Floor(n) \in Nat /\ Slots(n) - 1 <= Floor(n) /\ Floor(n) <= Top(n)
  BY <1>2, <1>6, <1>7 DEF FrameInv, Floor
<1>10. \A n \in 1..L : Top(n) \in Int
  <2> SUFFICES ASSUME NEW n \in 1..L PROVE Top(n) \in Int
    OBVIOUS
  <2>1. CASE n = L
    BY <1>5, <1>8, <2>1
  <2>2. CASE n # L
    <3>1. n + 1 \in 1..L
      BY <1>2, <2>2
    <3>2. Slots(n + 1) \in Nat
      BY <1>7, <3>1 DEF FrameInv
    <3>3. Base(frames[chain[n + 1]]) \in {Slots(n + 1), Slots(n + 1) - 1}
      BY DEF Base, Slots
    <3> QED BY <2>2, <3>2, <3>3 DEF Top
  <2> QED BY <2>1, <2>2
<1>11. ASSUME NEW n \in 1..L, n # L PROVE Top(n) < Slots(L)
  <2>1. L \in 1..L /\ n \in 1..L - 1
    BY <1>2, <1>11
  <2> QED BY <1>7, <2>1 DEF FrameInv
<1>12. \A n \in 1..L : Top(n) \in Nat /\ Top(n) <= sp
  <2> SUFFICES ASSUME NEW n \in 1..L PROVE Top(n) \in Nat /\ Top(n) <= sp
    OBVIOUS
  <2>1. Top(n) \in Nat
    BY <1>9, <1>10
  <2>2. CASE n = L
    BY <1>5, <1>8, <2>1, <2>2
  <2>3. CASE n # L
    <3>1. L \in 1..L
      BY <1>2
    <3>2. Slots(L) \in Nat
      BY <1>7, <3>1 DEF FrameInv
    <3>3. Slots(L) - 1 <= Floor(L) /\ Floor(L) <= sp /\ Floor(L) \in Nat
      BY <1>8, <1>9, <3>1
    <3> QED BY <1>5, <1>11, <2>1, <2>3, <3>2, <3>3
  <2> QED BY <2>2, <2>3
<1> HIDE DEF L
<1> QED BY <1>2, <1>3, <1>4, <1>5, <1>6, <1>7, <1>8, <1>9, <1>11, <1>12 DEF L

(* What the code of the innermost frame may take off. *)
LEMMA TakesFacts ==
  ASSUME CallInv, NEW k \in Nat, Takes(k)
  PROVE  Running /\ sp - k \in Nat /\ sp - k >= Floor(Len(chain))
<1>1. Running
  BY DEF Takes
<1>2. /\ Len(chain) \in Nat /\ Len(chain) >= 1 /\ frame = frames[chain[Len(chain)]]
      /\ (InFunction <=> Len(chain) # 1) /\ sp \in Nat
      /\ Floor(Len(chain)) \in Nat
  <2>1. Len(chain) \in 1..Len(chain)
    BY <1>1, RunFacts
  <2> QED BY <1>1, <2>1, RunFacts
<1>3. sp - k >= Slots(Len(chain)) - 1 + (IF InFunction THEN ParamCount(proto) ELSE 0)
  BY <1>2 DEF Takes, Slots
<1>4. sp - k >= Floor(Len(chain))
  BY <1>2, <1>3 DEF Floor
<1> QED BY <1>1, <1>2, <1>4
----------------------------------------------------------------------------
(* What is shown of it. *)

LEMMA SubSame ==
  ASSUME NEW s, IsSeq(s), NEW t, IsSeq(t), NEW a \in Int, NEW b \in Int, 1 <= a, a <= b + 1,
         b <= Len(s), b <= Len(t), \A i \in 1..b : s[i] = t[i]
  PROVE  SubSeq(s, a, b) = SubSeq(t, a, b)
<1> DEFINE x == SubSeq(s, a, b)
           y == SubSeq(t, a, b)
<1>1. IsSeq(x) /\ Len(x) = b - a + 1 /\ \A i \in 1..b - a + 1 : x[i] = s[a + i - 1]
  BY SubFacts
<1>2. IsSeq(y) /\ Len(y) = b - a + 1 /\ \A i \in 1..b - a + 1 : y[i] = t[a + i - 1]
  BY SubFacts
<1> HIDE DEF x, y
<1>3. \A i \in 1..b - a + 1 : a + i - 1 \in 1..b
  OBVIOUS
<1>4. \A i \in 1..Len(x) : x[i] = y[i]
  BY <1>1, <1>2, <1>3
<1>5. x = y
  BY <1>1, <1>2, <1>4, SeqEq
<1> QED BY <1>5 DEF x, y

(* The n-th activation. *)
Act(n) == [operands |-> SubSeq(stack, Slots(n), Top(n)),
           waits |-> Waits(frames[chain[n]]), gives |-> frames[chain[n]].new]

(* The n-th activation shown is Act(n), before a step and after it.         *)
LEMMA ShownFacts ==
  /\ Len(chain) \in Nat => IsSeq(Shown) /\ Len(Shown) = Len(chain)
  /\ \A n \in 1..Len(chain) : Shown[n] = Act(n)
<1>1. Shown = [n \in 1..Len(chain) |-> Shown[n]]
  BY DEF Shown
<1>2. \A n \in 1..Len(chain) : Shown[n] = Act(n)
  BY DEF Shown, Act, Operands, Slots, Top
<1> HIDE DEF Shown
<1> QED BY <1>1, <1>2, SeqIs

LEMMA NextShownFacts ==
  /\ Len(chain') \in Nat => IsSeq(Shown') /\ Len(Shown') = Len(chain')
  /\ \A n \in 1..Len(chain') : Shown'[n] = Act(n)'
<1>1. Shown' = [n \in 1..Len(chain') |-> Shown'[n]]
  BY DEF Shown
<1>2. \A n \in 1..Len(chain') : Shown'[n] = Act(n)'
  BY DEF Shown, Act, Operands, Slots, Top
<1> HIDE DEF Shown
<1> QED BY <1>1, <1>2, SeqIs

(* An activation with other operands.                                       *)
LEMMA WithOperands ==
  ASSUME NEW o, NEW p, NEW w, NEW g
  PROVE  [[operands |-> o, waits |-> w, gives |-> g] EXCEPT !.operands = p]
           = [operands |-> p, waits |-> w, gives |-> g]
OBVIOUS

(* A step of the innermost activation that calls nothing: the stack below  *)
(* its slots stays, and so do the parameters' places and the instance.     *)
Works ==
  /\ UNCHANGED <<proto, chain, frames>>
  /\ IsSeq(stack') /\ Len(stack') >= Floor(Len(chain))
  /\ \A i \in 1..Slots(Len(chain)) - 1 : stack'[i] = stack[i]
  /\ frames[chain[Len(chain)]].isCtor => stack'[Slots(Len(chain))] = Instance
  /\ \A i \in 1..Len(stack') : IsValue(stack'[i])

(* It keeps the invariant of the stack.                                     *)
LEMMA WorksKeeps ==
  ASSUME CallInv, Running, Works
  PROVE  StackInv'
<1>0. PICK L : L = Len(chain)
  OBVIOUS
<1>1. /\ L \in Nat /\ L >= 1 /\ Depths = 1..L /\ sp \in Nat /\ Top(L) = sp
      /\ \A n \in 1..L : /\ FrameInv(n) /\ Floor(n) \in Nat /\ Top(n) \in Nat /\ Slots(n) - 1 <= Floor(n)
                         /\ Top(n) <= sp /\ (n # L => Top(n) < Slots(L))
  BY <1>0, RunFacts
<1>2. L \in 1..L
  BY <1>1
<1>3. chain' = chain /\ frames' = frames /\ proto' = proto
  BY DEF Works
<1>4. Depths' = 1..L /\ Len(stack') \in Nat
  <2>1. IsSeq(stack')
    BY DEF Works
  <2> QED BY <1>0, <1>3, <2>1, SeqFacts DEF Depths
<1>5. \A n \in 1..L : Slots(n)' = Slots(n) /\ Floor(n)' = Floor(n)
  BY <1>3 DEF Slots, Floor
<1>6. \A n \in 1..L : Top(n)' = IF n = L THEN Len(stack') ELSE Top(n)
  BY <1>0, <1>3 DEF Top, sp
<1>7. ~frames[chain[L]].forIterPending
  BY <1>0, <1>1, <1>2 DEF CallInv, FlagsInv, FlagsWhileWaiting
<1>8. ASSUME NEW n \in 1..L PROVE FrameInv(n)'
  <2>1. \A m \in 1..n - 1 : m \in 1..L /\ m # L /\ Top(m) < Slots(n)
    <3>1. \A m \in 1..n - 1 : m \in 1..L /\ m # L
      BY <1>1
    <3> QED BY <1>1, <3>1 DEF FrameInv
  <2>2. \A m \in 1..n - 1 : Top(m)' < Slots(n)'
    BY <1>5, <1>6, <2>1
  <2>3. Floor(n)' <= Top(n)' /\ (frames[chain[n]].forIterPending => Floor(n)' < Top(n)')
    <3>1. Len(stack') >= Floor(L) /\ Floor(L) \in Nat
      BY <1>0, <1>1, <1>2 DEF Works
    <3>2. CASE n = L
      BY <1>4, <1>5, <1>6, <1>7, <3>1, <3>2
    <3>3. CASE n # L
      BY <1>1, <1>5, <1>6, <3>3 DEF FrameInv
    <3> QED BY <3>2, <3>3
  <2>4. ASSUME frames[chain[n]].isCtor
        PROVE  n # 1 /\ ParamCount(proto) >= 1 /\ stack'[Slots(n)] = Instance
    <3>1. n # 1 /\ ParamCount(proto) >= 1 /\ stack[Slots(n)] = Instance /\ Slots(n) \in Nat /\ Slots(n) >= 1
      BY <1>1, <2>4 DEF FrameInv
    <3>2. CASE n = L
      BY <1>0, <2>4, <3>1, <3>2 DEF Works
    <3>3. CASE n # L
      <4>1. Slots(n) <= Floor(n)
        <5>1. ParamCount(proto) \in Nat
          BY RunFacts
        <5> QED BY <3>1, <5>1 DEF Floor
      <4>2. Floor(n) <= Top(n) /\ Top(n) < Slots(L) /\ Floor(n) \in Nat /\ Top(n) \in Nat /\ Slots(L) \in Nat
        BY <1>1, <1>2, <3>3 DEF FrameInv
      <4>3. Slots(n) \in 1..Slots(L) - 1
        BY <3>1, <4>1, <4>2
      <4> QED BY <1>0, <3>1, <4>3 DEF Works
    <3> QED BY <3>2, <3>3
  <2>5. /\ Slots(n) \in Nat /\ Slots(n) >= 1
        /\ frames[chain[n]].new = IF frames[chain[n]].isCtor THEN Instance ELSE Nothing
    BY <1>1 DEF FrameInv
  <2> QED BY <1>3, <1>5, <2>2, <2>3, <2>4, <2>5 DEF FrameInv
<1> QED BY <1>4, <1>8 DEF Works, StackInv, sp

(* It changes the operands of the innermost activation only.                *)
LEMMA WorksShows ==
  ASSUME CallInv, Running, Works
  PROVE  /\ IsSeq(Shown) /\ Len(Shown) = Len(chain) /\ IsSeq(Shown') /\ Len(Shown') = Len(chain)
         /\ \A n \in 1..Len(chain) - 1 : Shown'[n] = Shown[n]
         /\ Shown[Len(chain)].operands = SubSeq(stack, Slots(Len(chain)), sp)
         /\ Shown'[Len(chain)] = [Shown[Len(chain)] EXCEPT !.operands = SubSeq(stack', Slots(Len(chain)), Len(stack'))]
<1>0. PICK L : L = Len(chain)
  OBVIOUS
<1>1. /\ L \in Nat /\ L >= 1 /\ sp \in Nat /\ Top(L) = sp
      /\ \A n \in 1..L : /\ FrameInv(n) /\ Floor(n) \in Nat /\ Top(n) \in Nat /\ Slots(n) - 1 <= Floor(n)
                         /\ Top(n) <= sp /\ (n # L => Top(n) < Slots(L))
  BY <1>0, RunFacts
<1>2. L \in 1..L /\ IsSeq(stack)
  BY <1>1 DEF CallInv, StackInv
<1>3. chain' = chain /\ frames' = frames
  BY DEF Works
<1>4. /\ IsSeq(Shown) /\ Len(Shown) = L /\ IsSeq(Shown') /\ Len(Shown') = L
      /\ \A n \in 1..L : Shown[n] = Act(n) /\ Shown'[n] = Act(n)'
  BY <1>0, <1>1, <1>3, ShownFacts, NextShownFacts
<1>5. \A n \in 1..L : Slots(n)' = Slots(n)
  BY <1>3 DEF Slots
<1>6. \A n \in 1..L : Top(n)' = IF n = L THEN Len(stack') ELSE Top(n)
  BY <1>0, <1>3 DEF Top, sp
<1>7. Act(L) = [operands |-> SubSeq(stack, Slots(L), sp), waits |-> Waits(frames[chain[L]]), gives |-> frames[chain[L]].new]
  BY <1>1 DEF Act
<1>8. Act(L)' = [operands |-> SubSeq(stack', Slots(L), Len(stack')), waits |-> Waits(frames[chain[L]]), gives |-> frames[chain[L]].new]
  <2>1. Slots(L)' = Slots(L) /\ Top(L)' = Len(stack')
    BY <1>2, <1>5, <1>6
  <2> QED BY <1>3, <2>1 DEF Act
<1>9. ASSUME NEW n \in 1..L - 1 PROVE Act(n)' = Act(n)
  <2>1. n \in 1..L /\ n # L
    BY <1>1
  <2>2. /\ Slots(n) \in Nat /\ Slots(n) >= 1 /\ Slots(n) - 1 <= Top(n) /\ Top(n) <= Slots(L) - 1
        /\ Top(n) \in Nat /\ Top(n) <= sp /\ Slots(L) \in Nat
    <3>1. Slots(n) \in Nat /\ Slots(n) >= 1 /\ Floor(n) <= Top(n) /\ Slots(L) \in Nat
      BY <1>1, <1>2, <2>1 DEF FrameInv
    <3>2. /\ Floor(n) \in Nat /\ Top(n) \in Nat /\ Slots(n) - 1 <= Floor(n)
          /\ Top(n) <= sp /\ Top(n) < Slots(L)
      BY <1>1, <2>1
    <3> QED BY <3>1, <3>2
  <2>3. Slots(L) - 1 <= Len(stack') /\ Len(stack') \in Nat
    <3>1. IsSeq(stack') /\ Len(stack') >= Floor(L) /\ Floor(L) >= Slots(L) - 1 /\ Floor(L) \in Nat
      BY <1>0, <1>1, <1>2 DEF Works
    <3>2. Len(stack') \in Nat
      BY <3>1, SeqFacts
    <3> QED BY <2>2, <3>1, <3>2
  <2>4. SubSeq(stack', Slots(n), Top(n)) = SubSeq(stack, Slots(n), Top(n))
    <3>1. \A i \in 1..Top(n) : stack'[i] = stack[i]
      BY <1>0, <2>2 DEF Works
    <3>2. /\ Slots(n) \in Int /\ Top(n) \in Int /\ 1 <= Slots(n) /\ Slots(n) <= Top(n) + 1
          /\ Top(n) <= Len(stack) /\ Top(n) <= Len(stack')
      BY <2>2, <2>3, <1>1 DEF sp
    <3>3. IsSeq(stack')
      BY DEF Works
    <3> QED BY <1>2, <3>1, <3>2, <3>3, SubSame, SMTT(30)
  <2>5. Slots(n)' = Slots(n) /\ Top(n)' = Top(n)
    BY <1>5, <1>6, <2>1
  <2> QED BY <1>3, <2>4, <2>5 DEF Act
<1>10. \A n \in 1..L - 1 : n \in 1..L
  BY <1>1
<1>11. \A n \in 1..L - 1 : Shown'[n] = Shown[n]
  BY <1>4, <1>9, <1>10
<1>12. Shown[L].operands = SubSeq(stack, Slots(L), sp)
  BY <1>2, <1>4, <1>7
<1>13. Shown'[L] = [Shown[L] EXCEPT !.operands = SubSeq(stack', Slots(L), Len(stack'))]
  BY <1>2, <1>4, <1>7, <1>8, WithOperands
<1> QED BY <1>0, <1>4, <1>11, <1>12, <1>13

(* A call: the part kept of the stack holds the operands that the caller   *)
(* keeps, the last of which is at b, and above them the closure unless the *)
(* callee's first parameter is in its place. *)
EntersAt(b, kept, params, how, waits) ==
  /\ Enter(kept, params, how, waits)
  /\ how \in {"plain", "ctor", "bound"} /\ waits \in {"push", "discard", "iterate"}
  /\ waits = "push" \/ how = "bound"
  /\ b \in Nat /\ Floor(Len(chain)) <= b /\ b <= sp
  /\ IsSeq(kept) /\ Len(kept) = b + (IF how = "plain" THEN 1 ELSE 0)
  /\ \A i \in 1..b : kept[i] = stack[i]
  /\ \A i \in 1..Len(kept) : IsValue(kept[i])
  /\ IsSeq(params) /\ Len(params) = ParamCount(proto)
  /\ \A i \in 1..Len(params) : IsValue(params[i])
  /\ how = "ctor" => Len(params) >= 1 /\ params[1] = Instance
  /\ waits = "iterate" => Floor(Len(chain)) < b

(* What it makes of the frames: the L-th one waits, the N-th one is new    *)
(* and has its slots at c. *)
FramesEntered(L, N, c, kept, params, how, waits) ==
  /\ Len(chain') = N
  /\ \A n \in 1..L : chain'[n] = chain[n]
  /\ \A n \in 1..L - 1 : frames'[chain'[n]] = frames[chain[n]]
  /\ ~Awaits(frames[chain[L]])
  /\ \E f : IsFrame(f) /\ frames'[chain'[N]] = Called(f, c, how)
  /\ frames'[chain'[L]] = Waiting(frames[chain[L]], waits)
  /\ proto' = proto /\ stack' = kept \o params

(* The frames of a call are these.                                          *)
LEMMA EnterFrames ==
  ASSUME CallInv, Running, NEW b, NEW kept, NEW params, NEW how, NEW waits, EntersAt(b, kept, params, how, waits),
         NEW L, L = Len(chain), NEW N, N = L + 1, NEW s, s = Len(kept) + 1
  PROVE  FramesEntered(L, N, s, kept, params, how, waits)
<1>1. PICK a \in Addresses : Calls(a, s, how, waits)
  BY DEF EntersAt, Enter, Calls
<1>2. /\ L \in Nat /\ L >= 1 /\ topFrame = chain[L] /\ Depths = 1..L
      /\ \A n \in 1..L : chain[n] \in Addresses /\ IsFrame(frames[chain[n]])
  BY RunFacts
<1>3. Len(chain') = N /\ chain'[N] = a /\ \A n \in 1..L : chain'[n] = chain[n]
  <2>1. chain \in Seq(Addresses) /\ chain' = Append(chain, a)
    BY <1>1 DEF CallInv, FlagsInv, PoolInv, PoolTypeOK, Calls
  <2> QED BY <2>1, AppendFacts
<1>4. L \in 1..L
  BY <1>2
<1>5. \A n \in 1..L : chain[n] # a /\ (n # L => chain[n] # topFrame)
  <2>1. \A n \in 1..L : chain[n] # a
    BY <1>1, <1>2, NewFrameFits DEF Calls, FitsAbove, CallInv, FlagsInv
  <2>2. \A n \in 1..L : n # L => chain[n] # topFrame
    BY <1>2, <1>4 DEF CallInv, FlagsInv, PoolInv, PoolIsStack, NoFrameTwice
  <2> QED BY <2>1, <2>2
<1>6. /\ frames' = [c \in Addresses |-> IF c = a THEN Called(frames[c], s, how)
                                        ELSE IF c = topFrame THEN Waiting(frames[c], waits) ELSE frames[c]]
      /\ \A c \in Addresses : IsFrame(frames[c])
  <2>1. topFrame \in Addresses /\ topFrame # a
    BY <1>2, <1>4, <1>5
  <2> QED BY <1>1, <2>1 DEF Calls, CallInv, FlagsInv, FramesOK
<1>7. ~Awaits(frames[chain[L]])
  BY <1>2, <1>4 DEF CallInv, FlagsInv, FlagsWhileWaiting, Awaits
<1>8. \A n \in 1..L - 1 : frames'[chain'[n]] = frames[chain[n]]
  <2> SUFFICES ASSUME NEW n \in 1..L - 1 PROVE frames'[chain'[n]] = frames[chain[n]]
    OBVIOUS
  <2>1. n \in 1..L /\ n # L
    BY <1>2
  <2> QED BY <1>2, <1>3, <1>5, <1>6, <2>1
<1>9. frames'[chain'[N]] = Called(frames[a], s, how) /\ IsFrame(frames[a])
  BY <1>3, <1>6
<1>10. frames'[chain'[L]] = Waiting(frames[chain[L]], waits)
  BY <1>2, <1>3, <1>4, <1>5, <1>6
<1>11. proto' = proto /\ stack' = kept \o params
  BY DEF EntersAt, Enter, program, SetStack
<1> QED BY <1>3, <1>7, <1>8, <1>9, <1>10, <1>11 DEF FramesEntered

(* Where the operands are afterwards. *)
PlacesEntered(L, N, c, b, kept, params) ==
  /\ \A n \in 1..L : Slots(n)' = Slots(n) /\ Floor(n)' = Floor(n)
  /\ Slots(N)' = c /\ Floor(N)' = Len(kept) + ParamCount(proto)
  /\ \A n \in 1..L - 1 : Top(n)' = Top(n)
  /\ Top(L)' = b /\ Top(N)' = Len(stack')
  /\ Len(stack') = Len(kept) + ParamCount(proto) /\ IsSeq(stack')
  /\ \A i \in 1..Len(kept) : stack'[i] = kept[i]
  /\ \A i \in 1..b : stack'[i] = stack[i]
  /\ \A i \in 1..ParamCount(proto) : stack'[Len(kept) + i] = params[i]
  /\ Len(kept) \in Nat /\ b <= Len(kept)

(* So are its places.                                                       *)
LEMMA EnterPlaces ==
  ASSUME CallInv, Running, NEW b, NEW kept, NEW params, NEW how, NEW waits, EntersAt(b, kept, params, how, waits),
         NEW L, L = Len(chain), NEW N, N = L + 1, NEW s, s = Len(kept) + 1
  PROVE  PlacesEntered(L, N, s, b, kept, params)
<1>0. FramesEntered(L, N, s, kept, params, how, waits)
  BY EnterFrames
<1>1. /\ Len(chain') = N
      /\ \A n \in 1..L : chain'[n] = chain[n]
      /\ \A n \in 1..L - 1 : frames'[chain'[n]] = frames[chain[n]]
      /\ ~Awaits(frames[chain[L]])
      /\ frames'[chain'[L]] = Waiting(frames[chain[L]], waits)
      /\ proto' = proto /\ stack' = kept \o params
  BY <1>0 DEF FramesEntered
<1>2. PICK f : IsFrame(f) /\ frames'[chain'[N]] = Called(f, s, how)
  BY <1>0 DEF FramesEntered
<1>3. /\ L \in Nat /\ L >= 1 /\ ParamCount(proto) \in Nat /\ sp \in Nat
      /\ \A n \in 1..L : FrameInv(n) /\ IsFrame(frames[chain[n]])
  BY RunFacts
<1>4. /\ waits \in {"push", "discard", "iterate"} /\ how \in {"plain", "ctor", "bound"}
      /\ IsSeq(kept) /\ IsSeq(params) /\ Len(params) = ParamCount(proto)
      /\ b \in Nat /\ Len(kept) = b + (IF how = "plain" THEN 1 ELSE 0)
      /\ \A i \in 1..b : kept[i] = stack[i]
  BY DEF EntersAt
<1>5. \A n \in 1..L - 1 : n \in 1..L /\ n + 1 \in 1..L /\ n # L /\ n # N /\ (n + 1 # L => n + 1 \in 1..L - 1)
  BY <1>3
<1>6. L \in 1..L /\ L # N /\ N # 1 /\ IsFrame(frames[chain[L]])
  BY <1>3
<1> DEFINE W == Waiting(frames[chain[L]], waits)
           C == Called(f, s, how)
<1>7. W.slots = Slots(L) /\ W.isCtor = frames[chain[L]].isCtor /\ W.boundCall = frames[chain[L]].boundCall
  BY <1>1, <1>4, <1>6, WaitingFields DEF Slots
<1>8. C.slots = s /\ C.isCtor = (how = "ctor") /\ C.boundCall = (how = "bound")
  BY <1>2, CalledFields
<1> HIDE DEF W, C
<1>9. frames'[chain'[L]] = W /\ frames'[chain'[N]] = C
  BY <1>1, <1>2 DEF W, C
<1>10. \A n \in 1..L : Slots(n)' = Slots(n)
  <2> SUFFICES ASSUME NEW n \in 1..L PROVE Slots(n)' = Slots(n)
    OBVIOUS
  <2>1. CASE n = L
    BY <1>7, <1>9, <2>1 DEF Slots
  <2>2. CASE n # L
    <3>1. n \in 1..L - 1
      BY <1>3, <2>2
    <3> QED BY <1>1, <3>1 DEF Slots
  <2> QED BY <2>1, <2>2
<1>11. \A n \in 1..L : Floor(n)' = Floor(n)
  BY <1>1, <1>10 DEF Floor
<1>12. Slots(N)' = s
  BY <1>8, <1>9 DEF Slots
<1>13. Len(kept) \in Nat /\ b <= Len(kept)
  BY <1>4
<1>14. Floor(N)' = Len(kept) + ParamCount(proto)
  <2>1. Floor(N)' = Slots(N)' - 1 + ParamCount(proto)
    BY <1>1, <1>6 DEF Floor
  <2> QED BY <1>3, <1>12, <1>13, <2>1
<1>15. ASSUME NEW n \in 1..L - 1 PROVE Top(n)' = Top(n)
  <2>1. Top(n)' = Base(frames'[chain'[n + 1]]) - 1 /\ Top(n) = Base(frames[chain[n + 1]]) - 1
    BY <1>1, <1>5 DEF Top
  <2>2. CASE n + 1 = L
    <3>1. frames'[chain'[n + 1]] = W
      BY <1>9, <2>2
    <3>2. Base(W) = Base(frames[chain[L]])
      BY <1>7 DEF Base, Slots
    <3> QED BY <2>1, <2>2, <3>1, <3>2
  <2>3. CASE n + 1 # L
    <3>1. n + 1 \in 1..L - 1
      BY <1>5, <2>3
    <3> QED BY <1>1, <2>1, <3>1
  <2> QED BY <2>2, <2>3
<1>16. Top(L)' = b
  <2>1. Top(L)' = Base(C) - 1
    BY <1>1, <1>6, <1>9 DEF Top
  <2>2. C.isCtor \/ C.boundCall <=> how # "plain"
    BY <1>4, <1>8
  <2>3. Base(C) = IF how # "plain" THEN s ELSE s - 1
    BY <1>8, <2>2 DEF Base
  <2> QED BY <1>4, <2>1, <2>3
<1>17. Top(N)' = Len(stack')
  BY <1>1 DEF Top, sp
<1>18. /\ Len(stack') = Len(kept) + ParamCount(proto) /\ IsSeq(stack')
       /\ \A i \in 1..Len(kept) : stack'[i] = kept[i]
       /\ \A i \in 1..ParamCount(proto) : stack'[Len(kept) + i] = params[i]
  <2>1. IsSeq(kept) /\ IsSeq(params)
    BY <1>4
  <2>2. /\ Len(kept \o params) = Len(kept) + Len(params) /\ IsSeq(kept \o params)
        /\ \A i \in 1..Len(kept) : (kept \o params)[i] = kept[i]
        /\ \A i \in 1..Len(params) : (kept \o params)[Len(kept) + i] = params[i]
    BY <2>1, CatFacts
  <2> QED BY <1>1, <1>4, <2>2
<1>19. \A i \in 1..b : stack'[i] = stack[i]
  <2>1. \A i \in 1..b : i \in 1..Len(kept)
    BY <1>4, <1>13
  <2> QED BY <1>4, <1>18, <2>1
<1> QED BY <1>10, <1>11, <1>12, <1>13, <1>14, <1>15, <1>16, <1>17, <1>18, <1>19 DEF PlacesEntered

(* A call keeps the invariant of the stack.                                 *)
LEMMA EnterKeeps ==
  ASSUME CallInv, Running, NEW b, NEW kept, NEW params, NEW how, NEW waits, EntersAt(b, kept, params, how, waits)
  PROVE  StackInv'
<1>1. PICK L : L = Len(chain)
  OBVIOUS
<1> PICK N : N = L + 1
  OBVIOUS
<1> PICK s : s = Len(kept) + 1
  OBVIOUS
<1>a. FramesEntered(L, N, s, kept, params, how, waits) /\ PlacesEntered(L, N, s, b, kept, params)
  BY <1>1, EnterFrames, EnterPlaces
<1>2. /\ Len(chain') = N
      /\ \A n \in 1..L : chain'[n] = chain[n]
      /\ \A n \in 1..L - 1 : frames'[chain'[n]] = frames[chain[n]]
      /\ ~Awaits(frames[chain[L]])
      /\ frames'[chain'[L]] = Waiting(frames[chain[L]], waits)
      /\ proto' = proto /\ stack' = kept \o params
  BY <1>a DEF FramesEntered
<1>3. PICK f : IsFrame(f) /\ frames'[chain'[N]] = Called(f, s, how)
  BY <1>a DEF FramesEntered
<1>4. /\ \A n \in 1..L : Slots(n)' = Slots(n) /\ Floor(n)' = Floor(n)
      /\ Slots(N)' = s /\ Floor(N)' = Len(kept) + ParamCount(proto)
      /\ \A n \in 1..L - 1 : Top(n)' = Top(n)
      /\ Top(L)' = b /\ Top(N)' = Len(stack')
      /\ Len(stack') = Len(kept) + ParamCount(proto) /\ IsSeq(stack')
      /\ \A i \in 1..Len(kept) : stack'[i] = kept[i]
      /\ \A i \in 1..b : stack'[i] = stack[i]
      /\ \A i \in 1..ParamCount(proto) : stack'[Len(kept) + i] = params[i]
      /\ Len(kept) \in Nat /\ b <= Len(kept)
  BY <1>a DEF PlacesEntered
<1>5. /\ L \in Nat /\ L >= 1 /\ ParamCount(proto) \in Nat
      /\ \A n \in 1..L : /\ FrameInv(n) /\ IsFrame(frames[chain[n]])
                         /\ Floor(n) \in Nat /\ Top(n) \in Nat /\ Slots(n) - 1 <= Floor(n)
                         /\ (n # L => Top(n) < Slots(L))
  BY <1>1, RunFacts
<1>6. L \in 1..L
  BY <1>5
<1>7. /\ how \in {"plain", "ctor", "bound"} /\ waits \in {"push", "discard", "iterate"}
      /\ b \in Nat /\ Floor(L) <= b
      /\ \A i \in 1..Len(kept) : IsValue(kept[i])
      /\ IsSeq(kept) /\ IsSeq(params) /\ Len(params) = ParamCount(proto)
      /\ \A i \in 1..Len(params) : IsValue(params[i])
      /\ how = "ctor" => Len(params) >= 1 /\ params[1] = Instance
      /\ waits = "iterate" => Floor(L) < b
  BY <1>1 DEF EntersAt
<1>8. \A n \in 1..L : /\ Slots(n) \in Nat /\ Slots(n) >= 1 /\ Slots(n) - 1 <= b
                      /\ (n # L => Top(n) <= b /\ Top(n) <= Len(kept))
  <2> SUFFICES ASSUME NEW n \in 1..L
               PROVE  /\ Slots(n) \in Nat /\ Slots(n) >= 1 /\ Slots(n) - 1 <= b
                      /\ (n # L => Top(n) <= b /\ Top(n) <= Len(kept))
    OBVIOUS
  <2>1. Slots(n) \in Nat /\ Slots(n) >= 1 /\ Slots(L) \in Nat /\ Floor(n) <= Top(n)
    BY <1>5, <1>6 DEF FrameInv
  <2>2. Slots(L) - 1 <= Floor(L) /\ Slots(n) - 1 <= Floor(n) /\ Floor(L) \in Nat /\ Floor(n) \in Nat /\ Top(n) \in Nat
    BY <1>5, <1>6
  <2>3. n # L => Top(n) < Slots(L)
    BY <1>5
  <2> QED BY <1>4, <1>7, <2>1, <2>2, <2>3, SMTT(30)
<1>9. \A i \in 1..Len(stack') : IsValue(stack'[i])
  <2> SUFFICES ASSUME NEW i \in 1..Len(stack') PROVE IsValue(stack'[i])
    OBVIOUS
  <2>1. CASE i <= Len(kept)
    <3>1. i \in 1..Len(kept)
      BY <1>4, <2>1
    <3>2. stack'[i] = kept[i]
      BY <1>4, <3>1
    <3> QED BY <1>7, <3>1, <3>2
  <2>2. CASE ~(i <= Len(kept))
    <3>1. PICK j : j = i - Len(kept)
      OBVIOUS
    <3>2. j \in 1..ParamCount(proto) /\ i = Len(kept) + j
      BY <1>4, <1>5, <2>2, <3>1
    <3> QED BY <1>4, <1>7, <3>2
  <2> QED BY <2>1, <2>2
<1>10. FrameInv(N)'
  <2>1. /\ frames'[chain'[N]].isCtor = (how = "ctor")
        /\ ~frames'[chain'[N]].forIterPending
        /\ frames'[chain'[N]].new = IF how = "ctor" THEN Instance ELSE Nothing
    BY <1>3, CalledFields
  <2>2. \A m \in 1..N - 1 : Top(m)' < Slots(N)'
    <3> SUFFICES ASSUME NEW m \in 1..N - 1 PROVE Top(m)' < Slots(N)'
      OBVIOUS
    <3>1. m \in 1..L
      BY <1>5
    <3>2. CASE m = L
      <4>1. Top(m)' = b
        BY <1>4, <3>2
      <4> QED BY <1>4, <1>7, <4>1
    <3>3. CASE m # L
      <4>1. m \in 1..L - 1
        BY <1>5, <3>1, <3>3
      <4>2. Top(m)' = Top(m) /\ Top(m) <= Len(kept) /\ Top(m) \in Nat
        BY <1>4, <1>5, <1>8, <3>1, <3>3, <4>1
      <4> QED BY <1>4, <4>2
    <3> QED BY <3>2, <3>3
  <2>3. Slots(N)' \in Nat /\ Slots(N)' >= 1 /\ Floor(N)' <= Top(N)'
    BY <1>4, <1>5
  <2>4. how = "ctor" => N # 1 /\ ParamCount(proto) >= 1 /\ stack'[Slots(N)'] = Instance
    <3> SUFFICES ASSUME how = "ctor" PROVE N # 1 /\ ParamCount(proto) >= 1 /\ stack'[Slots(N)'] = Instance
      OBVIOUS
    <3>1. ParamCount(proto) >= 1 /\ params[1] = Instance /\ 1 \in 1..ParamCount(proto)
      BY <1>5, <1>7
    <3>2. stack'[Len(kept) + 1] = Instance
      BY <1>4, <3>1
    <3> QED BY <1>4, <1>5, <3>1, <3>2
  <2> QED BY <1>2, <2>1, <2>2, <2>3, <2>4 DEF FrameInv
<1>11. ASSUME NEW n \in 1..L PROVE FrameInv(n)'
  <2>1. /\ frames'[chain'[n]].isCtor = frames[chain[n]].isCtor
        /\ frames'[chain'[n]].new = frames[chain[n]].new
        /\ frames'[chain'[n]].forIterPending = IF n = L THEN waits = "iterate" ELSE frames[chain[n]].forIterPending
    <3>1. CASE n = L
      BY <1>2, <1>5, <1>6, <1>7, <3>1, WaitingFields
    <3>2. CASE n # L
      <4>1. n \in 1..L - 1
        BY <1>5, <3>2
      <4> QED BY <1>2, <3>2, <4>1
    <3> QED BY <3>1, <3>2
  <2>2. Floor(n)' <= Top(n)' /\ (frames'[chain'[n]].forIterPending => Floor(n)' < Top(n)')
    <3>1. CASE n = L
      <4>1. Floor(n)' = Floor(L) /\ Top(n)' = b
        BY <1>4, <1>6, <3>1
      <4> QED BY <1>7, <2>1, <3>1, <4>1
    <3>2. CASE n # L
      <4>1. n \in 1..L - 1
        BY <1>5, <3>2
      <4>2. Floor(n)' = Floor(n) /\ Top(n)' = Top(n)
        BY <1>4, <4>1
      <4> QED BY <1>5, <2>1, <3>2, <4>2 DEF FrameInv
    <3> QED BY <3>1, <3>2
  <2>3. \A m \in 1..n - 1 : Top(m)' < Slots(n)'
    <3>1. \A m \in 1..n - 1 : m \in 1..L - 1
      BY <1>5
    <3> QED BY <1>4, <1>5, <3>1 DEF FrameInv
  <2>4. ASSUME frames[chain[n]].isCtor
        PROVE  n # 1 /\ ParamCount(proto) >= 1 /\ stack'[Slots(n)'] = Instance
    <3>1. n # 1 /\ ParamCount(proto) >= 1 /\ stack[Slots(n)] = Instance /\ Slots(n) \in Nat /\ Slots(n) >= 1
      BY <1>5, <2>4 DEF FrameInv
    <3>2. Slots(n) <= b
      <4>1. Slots(n) <= Floor(n) /\ Floor(n) \in Nat
        BY <1>5, <3>1 DEF Floor
      <4>2. CASE n = L
        BY <1>7, <3>1, <4>1, <4>2
      <4>3. CASE n # L
        <5>1. Floor(n) <= Top(n) /\ Top(n) \in Nat /\ Top(n) <= b
          BY <1>5, <1>8, <4>3 DEF FrameInv
        <5> QED BY <1>7, <3>1, <4>1, <5>1
      <4> QED BY <4>2, <4>3
    <3>3. Slots(n) \in 1..b /\ Slots(n)' = Slots(n)
      BY <1>4, <1>7, <3>1, <3>2
    <3> QED BY <1>4, <3>1, <3>3
  <2>5. /\ Slots(n)' \in Nat /\ Slots(n)' >= 1
        /\ frames[chain[n]].new = IF frames[chain[n]].isCtor THEN Instance ELSE Nothing
    BY <1>4, <1>5 DEF FrameInv
  <2> QED BY <1>2, <2>1, <2>2, <2>3, <2>4, <2>5 DEF FrameInv
<1>12. \A n \in 1..N : n \in 1..L \/ n = N
  BY <1>5
<1>13. Depths' = 1..N
  BY <1>2 DEF Depths
<1>14. \A n \in Depths' : FrameInv(n)'
  BY <1>10, <1>11, <1>12, <1>13
<1> QED BY <1>4, <1>9, <1>14 DEF StackInv, sp

(* The sequence of two values.                                              *)
LEMMA CoupleFacts ==
  ASSUME NEW x, NEW y
  PROVE  IsSeq(<<x, y>>) /\ Len(<<x, y>>) = 2 /\ <<x, y>>[1] = x /\ <<x, y>>[2] = y
<1>1. <<x, y>> \in Seq({x, y})
  OBVIOUS
<1> QED BY <1>1 DEF IsSeq

(* What Front and Last return.                                              *)
LEMMA FrontIs ==
  ASSUME NEW s, IsSeq(s), Len(s) >= 1
  PROVE  /\ IsSeq(Front(s)) /\ Len(Front(s)) = Len(s) - 1
         /\ \A i \in 1..Len(s) - 1 : Front(s)[i] = s[i]
         /\ Last(s) = s[Len(s)]
<1>1. PICK V : s \in Seq(V)
  BY DEF IsSeq
<1>2. s # <<>>
  BY EmptyFacts
<1>3. /\ Front(s) \in Seq(V) /\ Len(Front(s)) = Len(s) - 1
      /\ \A i \in 1..Len(s) - 1 : Front(s)[i] = s[i] /\ Last(s) = s[Len(s)]
      /\ Last(s) = s[Len(s)]
  BY <1>1, <1>2, FrontFacts
<1> QED BY <1>3 DEF IsSeq

(* A call makes two activations of the innermost one: the one that waits,   *)
(* and its callee.                                                          *)
LEMMA EnterShows ==
  ASSUME CallInv, Running, NEW b, NEW kept, NEW params, NEW how, NEW waits, EntersAt(b, kept, params, how, waits)
  PROVE  /\ IsSeq(Shown) /\ Len(Shown) = Len(chain) /\ Len(chain) >= 1
         /\ Shown' = Front(Shown) \o
              << [operands |-> SubSeq(stack, Slots(Len(chain)), b), waits |-> waits, gives |-> Shown[Len(chain)].gives],
                 [operands |-> params, waits |-> "push", gives |-> IF how = "ctor" THEN Instance ELSE Nothing] >>
<1>1. PICK L : L = Len(chain)
  OBVIOUS
<1> PICK N : N = L + 1
  OBVIOUS
<1> PICK s : s = Len(kept) + 1
  OBVIOUS
<1>a. FramesEntered(L, N, s, kept, params, how, waits) /\ PlacesEntered(L, N, s, b, kept, params)
  BY <1>1, EnterFrames, EnterPlaces
<1>2. /\ Len(chain') = N
      /\ \A n \in 1..L : chain'[n] = chain[n]
      /\ \A n \in 1..L - 1 : frames'[chain'[n]] = frames[chain[n]]
      /\ ~Awaits(frames[chain[L]])
      /\ frames'[chain'[L]] = Waiting(frames[chain[L]], waits)
  BY <1>a DEF FramesEntered
<1>3. PICK f : IsFrame(f) /\ frames'[chain'[N]] = Called(f, s, how)
  BY <1>a DEF FramesEntered
<1>4. /\ \A n \in 1..L : Slots(n)' = Slots(n)
      /\ Slots(N)' = s
      /\ \A n \in 1..L - 1 : Top(n)' = Top(n)
      /\ Top(L)' = b /\ Top(N)' = Len(stack')
      /\ Len(stack') = Len(kept) + ParamCount(proto) /\ IsSeq(stack')
      /\ \A i \in 1..b : stack'[i] = stack[i]
      /\ \A i \in 1..ParamCount(proto) : stack'[Len(kept) + i] = params[i]
      /\ Len(kept) \in Nat /\ b <= Len(kept)
  BY <1>a DEF PlacesEntered
<1>5. /\ L \in Nat /\ L >= 1 /\ ParamCount(proto) \in Nat /\ sp \in Nat /\ IsSeq(stack)
      /\ \A n \in 1..L : /\ FrameInv(n) /\ IsFrame(frames[chain[n]])
                         /\ Floor(n) \in Nat /\ Top(n) \in Nat /\ Slots(n) - 1 <= Floor(n)
                         /\ (n # L => Top(n) < Slots(L))
  BY <1>1, RunFacts DEF CallInv, StackInv
<1>6. L \in 1..L
  BY <1>5
<1>7. /\ how \in {"plain", "ctor", "bound"} /\ waits \in {"push", "discard", "iterate"}
      /\ b \in Nat /\ Floor(L) <= b /\ b <= sp
      /\ IsSeq(params) /\ Len(params) = ParamCount(proto)
  BY <1>1 DEF EntersAt
<1>8. \A n \in 1..L : /\ Slots(n) \in Nat /\ Slots(n) >= 1
                      /\ (n = L => Slots(n) - 1 <= b)
                      /\ (n # L => Top(n) <= b /\ Slots(n) - 1 <= Top(n))
  <2> SUFFICES ASSUME NEW n \in 1..L
               PROVE  /\ Slots(n) \in Nat /\ Slots(n) >= 1
                      /\ (n = L => Slots(n) - 1 <= b)
                      /\ (n # L => Top(n) <= b /\ Slots(n) - 1 <= Top(n))
    OBVIOUS
  <2>1. Slots(n) \in Nat /\ Slots(n) >= 1 /\ Slots(L) \in Nat /\ Floor(n) <= Top(n)
    BY <1>5, <1>6 DEF FrameInv
  <2>2. Slots(L) - 1 <= Floor(L) /\ Slots(n) - 1 <= Floor(n) /\ Floor(L) \in Nat /\ Floor(n) \in Nat /\ Top(n) \in Nat
    BY <1>5, <1>6
  <2>3. n # L => Top(n) < Slots(L)
    BY <1>5
  <2> QED BY <1>7, <2>1, <2>2, <2>3
<1>9. \A t \in 1..b + 1, u \in 0..b : t <= u + 1 => SubSeq(stack', t, u) = SubSeq(stack, t, u)
  <2> SUFFICES ASSUME NEW t \in 1..b + 1, NEW u \in 0..b, t <= u + 1 PROVE SubSeq(stack', t, u) = SubSeq(stack, t, u)
    OBVIOUS
  <2>1. /\ t \in Int /\ u \in Int /\ 1 <= t /\ u <= Len(stack) /\ u <= Len(stack')
        /\ \A i \in 1..u : stack'[i] = stack[i]
    BY <1>4, <1>5, <1>7 DEF sp
  <2> QED BY <1>4, <1>5, <2>1, SubSame, SMTT(30)
<1>10. /\ IsSeq(Shown) /\ Len(Shown) = L /\ IsSeq(Shown') /\ Len(Shown') = N
       /\ \A n \in 1..L : Shown[n] = Act(n)
       /\ \A n \in 1..N : Shown'[n] = Act(n)'
  BY <1>1, <1>2, <1>5, ShownFacts, NextShownFacts
<1>11. ASSUME NEW n \in 1..L - 1 PROVE Shown'[n] = Shown[n]
  <2>1. n \in 1..L /\ n # L /\ n \in 1..N
    BY <1>5
  <2>2. Slots(n) \in 1..b + 1 /\ Top(n) \in 0..b /\ Slots(n) <= Top(n) + 1
    <3>1. Slots(n) \in Nat /\ Slots(n) >= 1 /\ Top(n) \in Nat /\ Top(n) <= b /\ Slots(n) - 1 <= Top(n)
      BY <1>5, <1>8, <2>1
    <3> QED BY <1>7, <3>1
  <2>3. SubSeq(stack', Slots(n), Top(n)) = SubSeq(stack, Slots(n), Top(n))
    BY <1>9, <2>2
  <2>4. Act(n)' = Act(n)
    BY <1>2, <1>4, <2>1, <2>3 DEF Act
  <2> QED BY <1>10, <2>1, <2>4
<1>12. Shown'[L] = [operands |-> SubSeq(stack, Slots(L), b), waits |-> waits, gives |-> Shown[L].gives]
  <2>1. Act(L) = [operands |-> SubSeq(stack, Slots(L), Top(L)), waits |-> Waits(frames[chain[L]]), gives |-> frames[chain[L]].new]
    BY DEF Act
  <2>2. Slots(L) \in 1..b + 1 /\ b \in 0..b /\ Slots(L) <= b + 1
    BY <1>6, <1>7, <1>8
  <2>3. SubSeq(stack', Slots(L), b) = SubSeq(stack, Slots(L), b)
    BY <1>9, <2>2
  <2>4. Waits(frames'[chain'[L]]) = waits /\ frames'[chain'[L]].new = frames[chain[L]].new
    BY <1>2, <1>5, <1>6, <1>7, WaitingFields
  <2>5. Act(L)' = [operands |-> SubSeq(stack, Slots(L), b), waits |-> waits, gives |-> frames[chain[L]].new]
    <3>1. Slots(L)' = Slots(L) /\ Top(L)' = b
      BY <1>4, <1>6
    <3>2. Act(L)' = [operands |-> SubSeq(stack', Slots(L)', Top(L)'), waits |-> Waits(frames'[chain'[L]]), gives |-> frames'[chain'[L]].new]
      BY DEF Act, Waits
    <3> QED BY <2>3, <2>4, <3>1, <3>2
  <2>6. L \in 1..N
    BY <1>5
  <2> QED BY <1>6, <1>10, <2>1, <2>5, <2>6
<1>13. Shown'[N] = [operands |-> params, waits |-> "push", gives |-> IF how = "ctor" THEN Instance ELSE Nothing]
  <2>1. Waits(frames'[chain'[N]]) = "push"
    BY <1>3, CalledFields
  <2>2. frames'[chain'[N]].new = IF how = "ctor" THEN Instance ELSE Nothing
    BY <1>3, CalledFields
  <2> DEFINE o == SubSeq(stack', s, Len(stack'))
  <2>3. IsSeq(o) /\ Len(o) = Len(stack') - s + 1 /\ \A i \in 1..Len(stack') - s + 1 : o[i] = stack'[s + i - 1]
    <3>1. s \in Int /\ Len(stack') \in Int /\ 1 <= s /\ s <= Len(stack') + 1 /\ Len(stack') <= Len(stack')
      BY <1>4, <1>5
    <3> QED BY <1>4, <3>1, SubFacts
  <2> HIDE DEF o
  <2>4. Len(o) = ParamCount(proto)
    BY <1>4, <1>5, <2>3, SMTT(30)
  <2>5. \A i \in 1..ParamCount(proto) : o[i] = params[i]
    <3> SUFFICES ASSUME NEW i \in 1..ParamCount(proto) PROVE o[i] = params[i]
      OBVIOUS
    <3>1. i \in 1..Len(stack') - s + 1 /\ s + i - 1 = Len(kept) + i
      BY <1>4, <1>5
    <3>2. o[i] = stack'[s + i - 1]
      BY <2>3, <3>1
    <3> QED BY <1>4, <3>1, <3>2
  <2>6. o = params
    BY <1>7, <2>3, <2>4, <2>5, SeqEq
  <2>7. Act(N)' = [operands |-> SubSeq(stack', Slots(N)', Top(N)'), waits |-> Waits(frames'[chain'[N]]), gives |-> frames'[chain'[N]].new]
    BY DEF Act, Waits
  <2>8. Act(N)' = [operands |-> params, waits |-> "push", gives |-> IF how = "ctor" THEN Instance ELSE Nothing]
    BY <1>4, <2>1, <2>2, <2>6, <2>7 DEF o
  <2>9. N \in 1..N
    BY <1>5
  <2> QED BY <1>10, <2>8, <2>9
<1> DEFINE x == [operands |-> SubSeq(stack, Slots(L), b), waits |-> waits, gives |-> Shown[L].gives]
           y == [operands |-> params, waits |-> "push", gives |-> IF how = "ctor" THEN Instance ELSE Nothing]
           r == Front(Shown) \o <<x, y>>
<1> HIDE DEF x, y
<1>14. /\ IsSeq(Front(Shown)) /\ Len(Front(Shown)) = L - 1
       /\ \A i \in 1..L - 1 : Front(Shown)[i] = Shown[i]
  BY <1>5, <1>10, FrontIs
<1>15. IsSeq(<<x, y>>) /\ Len(<<x, y>>) = 2 /\ <<x, y>>[1] = x /\ <<x, y>>[2] = y
  BY CoupleFacts
<1>16. /\ IsSeq(r) /\ Len(r) = Len(Front(Shown)) + Len(<<x, y>>)
       /\ \A i \in 1..Len(Front(Shown)) : r[i] = Front(Shown)[i]
       /\ \A i \in 1..Len(<<x, y>>) : r[Len(Front(Shown)) + i] = <<x, y>>[i]
  BY <1>14, <1>15, CatFacts
<1> HIDE DEF r
<1>17. Len(r) = N /\ r[L] = x /\ r[N] = y /\ \A i \in 1..L - 1 : r[i] = Shown[i]
  <2>1. 1 \in 1..2 /\ 2 \in 1..2 /\ L - 1 + 1 = L /\ L - 1 + 2 = N
    BY <1>5
  <2>2. r[L - 1 + 1] = x /\ r[L - 1 + 2] = y
    BY <1>14, <1>15, <1>16, <2>1
  <2>3. Len(r) = L - 1 + 2
    BY <1>14, <1>15, <1>16
  <2> QED BY <1>14, <1>16, <2>1, <2>2, <2>3
<1>18. \A i \in 1..N : i \in 1..L - 1 \/ i = L \/ i = N
  BY <1>5
<1>19. \A i \in 1..N : Shown'[i] = r[i]
  BY <1>11, <1>12, <1>13, <1>17, <1>18 DEF x, y
<1>20. Shown' = r
  BY <1>10, <1>16, <1>17, <1>19, SeqEq
<1> QED BY <1>1, <1>5, <1>10, <1>20 DEF r, x, y

(* A call with the arguments pos and kw, and what it keeps of the caller's  *)
(* operands. *)
EntersWith(b, kept, params, how, waits, pos, kw, gives, ops) ==
  /\ EntersAt(b, kept, params, how, waits)
  /\ defaults # NoDefaults /\ defaults' = defaults
  /\ params = Activations!Parameters(pos, kw) /\ Activations!Accepts(pos, kw)
  /\ gives = IF how = "ctor" THEN Instance ELSE Nothing
  /\ ops = SubSeq(stack, Slots(Len(chain)), b)

(* It is the call that MsActivations has.                                   *)
LEMMA EnterIs ==
  ASSUME CallInv, Running, NEW b, NEW kept, NEW params, NEW how, NEW waits, NEW pos, NEW kw, NEW gives, NEW ops,
         EntersWith(b, kept, params, how, waits, pos, kw, gives, ops)
  PROVE  Activations!Enter(pos, kw, ops, waits, gives)
<1>0. /\ EntersAt(b, kept, params, how, waits)
      /\ defaults # NoDefaults /\ defaults' = defaults
      /\ params = Activations!Parameters(pos, kw) /\ Activations!Accepts(pos, kw)
      /\ gives = IF how = "ctor" THEN Instance ELSE Nothing
      /\ ops = SubSeq(stack, Slots(Len(chain)), b)
  BY DEF EntersWith
<1> USE <1>0
<1>1. /\ IsSeq(Shown) /\ Len(Shown) = Len(chain) /\ Len(chain) >= 1
      /\ Shown' = Front(Shown) \o
              << [operands |-> ops, waits |-> waits, gives |-> Shown[Len(chain)].gives],
                 [operands |-> params, waits |-> "push", gives |-> gives] >>
  <2>1. /\ IsSeq(Shown) /\ Len(Shown) = Len(chain) /\ Len(chain) >= 1
        /\ Shown' = Front(Shown) \o
              << [operands |-> SubSeq(stack, Slots(Len(chain)), b), waits |-> waits, gives |-> Shown[Len(chain)].gives],
                 [operands |-> params, waits |-> "push", gives |-> IF how = "ctor" THEN Instance ELSE Nothing] >>
    BY EnterShows
  <2> QED BY <2>1
<1>2. InOrder # NoDefaults /\ InOrder' = InOrder
  <2>1. defaults \in Seq(Scalars)
    BY DEF CallInv, ProgramInv
  <2>2. Reverse(defaults) \in Seq(Scalars)
    <3>1. /\ Len(defaults) \in Nat /\ \A i \in 1..Len(defaults) : defaults[i] \in Scalars
          /\ IsSeq(defaults)
      BY <2>1 DEF IsSeq
    <3>2. /\ IsSeq(Reverse(defaults)) /\ Len(Reverse(defaults)) = Len(defaults)
          /\ \A i \in 1..Len(defaults) : Reverse(defaults)[i] = defaults[Len(defaults) - i + 1]
      BY <3>1, ReverseFacts
    <3> DEFINE r == Reverse(defaults)
    <3> HIDE DEF r
    <3>3. \A i \in 1..Len(defaults) : Len(defaults) - i + 1 \in 1..Len(defaults)
      BY <3>1
    <3>4. \A i \in 1..Len(r) : r[i] \in Scalars
      BY <3>1, <3>2, <3>3 DEF r
    <3>5. IsSeq(r) /\ Len(r) \in Nat
      BY <3>1, <3>2 DEF r
    <3>6. r = [i \in 1..Len(r) |-> r[i]]
      BY <3>5, SeqFacts
    <3>7. r \in [1..Len(r) -> Scalars]
      BY <3>4, <3>6
    <3>8. r \in Seq(Scalars)
      BY <3>5, <3>7
    <3> QED BY <3>8 DEF r
  <2> QED BY <2>2, CallAssumption DEF InOrder
<1>3. proto' = proto
  BY DEF EntersAt, Enter, program
<1>4. Activations!Callers = Front(Shown) /\ Activations!this = Shown[Len(chain)]
  BY <1>1, SameCallables DEF Activations!Callers, Activations!this
<1>5. \A o, w, g : Activations!Activation(o, w, g) = [operands |-> o, waits |-> w, gives |-> g]
  BY DEF Activations!Activation
<1> QED BY <1>1, <1>2, <1>3, <1>4, <1>5 DEF Activations!Enter
----------------------------------------------------------------------------
(* What a call takes off. *)

LEMMA SubSub ==
  ASSUME NEW s, IsSeq(s), NEW a \in Int, NEW b \in Int, 1 <= a, a <= b + 1, b <= Len(s),
         NEW c \in Int, NEW d \in Int, 1 <= c, c <= d + 1, d <= b - a + 1,
         NEW x, x = a + c - 1, NEW y, y = a + d - 1
  PROVE  SubSeq(SubSeq(s, a, b), c, d) = SubSeq(s, x, y)
<1> DEFINE t == SubSeq(s, a, b)
           u == SubSeq(t, c, d)
           v == SubSeq(s, x, y)
<1>1. IsSeq(t) /\ Len(t) = b - a + 1 /\ \A i \in 1..b - a + 1 : t[i] = s[a + i - 1]
  BY SubFacts
<1> HIDE DEF t
<1>2. IsSeq(u) /\ Len(u) = d - c + 1 /\ \A i \in 1..d - c + 1 : u[i] = t[c + i - 1]
  BY <1>1, SubFacts
<1>3. IsSeq(v) /\ Len(v) = y - x + 1 /\ \A i \in 1..y - x + 1 : v[i] = s[x + i - 1]
  <2>1. x \in Int /\ y \in Int /\ 1 <= x /\ x <= y + 1 /\ y <= Len(s)
    <3>1. Len(s) \in Nat
      BY SeqFacts
    <3> QED BY <3>1
  <2> QED BY <2>1, SubFacts, SMTT(30)
<1> HIDE DEF u, v
<1>4. \A i \in 1..d - c + 1 : u[i] = v[i]
  <2> SUFFICES ASSUME NEW i \in 1..d - c + 1 PROVE u[i] = v[i]
    OBVIOUS
  <2>1. PICK j : j = c + i - 1
    OBVIOUS
  <2>2. j \in 1..b - a + 1 /\ a + j - 1 = x + i - 1 /\ i \in 1..y - x + 1
    BY <2>1
  <2>3. u[i] = t[j] /\ t[j] = s[a + j - 1] /\ v[i] = s[x + i - 1]
    BY <1>1, <1>2, <1>3, <2>1, <2>2
  <2> QED BY <2>2, <2>3
<1>5. Len(u) = Len(v)
  BY <1>2, <1>3, SMTT(30)
<1>6. u = v
  BY <1>2, <1>3, <1>4, <1>5, SeqEq
<1> QED BY <1>6 DEF t, u, v

(* What Head and Tail return.                                               *)
LEMMA HeadTailFacts ==
  ASSUME NEW s, IsSeq(s), Len(s) >= 1
  PROVE  /\ Head(s) = s[1] /\ IsSeq(Tail(s)) /\ Len(Tail(s)) = Len(s) - 1
         /\ \A i \in 1..Len(s) - 1 : Tail(s)[i] = s[i + 1]
<1>1. PICK V : s \in Seq(V)
  BY DEF IsSeq
<1>2. Len(s) \in Nat /\ s # <<>>
  BY <1>1
<1>3. Tail(s) \in Seq(V) /\ Head(s) = s[1] /\ Len(Tail(s)) = Len(s) - 1
  BY <1>1, <1>2
<1>4. \A i \in 1..Len(s) - 1 : Tail(s)[i] = s[i + 1]
  BY <1>1, <1>2
<1> QED BY <1>3, <1>4 DEF IsSeq

(* The operands taken off, and the stack without them.                      *)
LEMMA ArgsFacts ==
  ASSUME CallInv, NEW k \in Nat, Takes(k)
  PROVE  /\ IsSeq(Args(k)) /\ Len(Args(k)) = k
         /\ \A i \in 1..k : Args(k)[i] = stack[sp - k + i] /\ IsValue(Args(k)[i])
         /\ IsSeq(Dropped(k)) /\ Len(Dropped(k)) = sp - k
         /\ \A i \in 1..sp - k : Dropped(k)[i] = stack[i] /\ IsValue(Dropped(k)[i])
<1>1. /\ IsSeq(stack) /\ sp \in Nat /\ sp - k \in Nat /\ Len(stack) = sp
      /\ \A i \in 1..sp : IsValue(stack[i])
  <2>1. Running /\ sp - k \in Nat
    BY TakesFacts
  <2> QED BY <2>1, RunFacts DEF CallInv, StackInv, sp
<1>2. PICK a \in Int : a = sp - k + 1
  BY <1>1
<1>3. /\ IsSeq(SubSeq(stack, a, sp)) /\ Len(SubSeq(stack, a, sp)) = sp - a + 1
      /\ \A i \in 1..sp - a + 1 : SubSeq(stack, a, sp)[i] = stack[a + i - 1]
  <2>1. sp \in Int /\ 1 <= a /\ a <= sp + 1 /\ sp <= Len(stack)
    BY <1>1, <1>2
  <2> HIDE DEF sp
  <2> QED BY <1>1, <2>1, SubFacts
<1>4. Args(k) = SubSeq(stack, a, sp)
  BY <1>2 DEF Args
<1> DEFINE r == Args(k)
<1> HIDE DEF r
<1>5. IsSeq(r) /\ Len(r) = sp - a + 1 /\ \A i \in 1..sp - a + 1 : r[i] = stack[a + i - 1]
  BY <1>3, <1>4 DEF r
<1>6. sp - a + 1 = k /\ \A i \in 1..k : a + i - 1 = sp - k + i /\ sp - k + i \in 1..sp
  BY <1>1, <1>2
<1>7. IsSeq(r) /\ Len(r) = k /\ \A i \in 1..k : r[i] = stack[sp - k + i] /\ IsValue(r[i])
  BY <1>1, <1>5, <1>6
<1>8. PICK c \in Int : c = sp - k
  BY <1>1
<1>9. /\ IsSeq(SubSeq(stack, 1, c)) /\ Len(SubSeq(stack, 1, c)) = c - 1 + 1
      /\ \A i \in 1..c - 1 + 1 : SubSeq(stack, 1, c)[i] = stack[1 + i - 1]
  <2>1. 1 \in Int /\ 1 <= 1 /\ 1 <= c + 1 /\ c <= Len(stack)
    BY <1>1, <1>8
  <2> QED BY <1>1, <2>1, SubFacts
<1>10. Dropped(k) = SubSeq(stack, 1, c)
  BY <1>8 DEF Dropped
<1> DEFINE q == Dropped(k)
<1> HIDE DEF q
<1>11. IsSeq(q) /\ Len(q) = c - 1 + 1 /\ \A i \in 1..c - 1 + 1 : q[i] = stack[1 + i - 1]
  BY <1>9, <1>10 DEF q
<1>12. c - 1 + 1 = c /\ \A i \in 1..c : 1 + i - 1 = i /\ i \in 1..sp
  BY <1>1, <1>8
<1>13. IsSeq(q) /\ Len(q) = c /\ \A i \in 1..c : q[i] = stack[i] /\ IsValue(q[i])
  BY <1>1, <1>11, <1>12
<1> QED BY <1>7, <1>8, <1>13 DEF r, q

(* A step that calls nothing is one of the abstract activation's. *)
LEMMA WorkIs ==
  ASSUME CallInv, Running, Works, defaults' = defaults
  PROVE  Activations!Work
<1>1. PICK L : L = Len(chain)
  OBVIOUS
<1>2. /\ IsSeq(Shown) /\ Len(Shown) = L /\ IsSeq(Shown') /\ Len(Shown') = L
      /\ \A n \in 1..L - 1 : Shown'[n] = Shown[n]
      /\ Shown'[L] = [Shown[L] EXCEPT !.operands = SubSeq(stack', Slots(L), Len(stack'))]
  BY <1>1, WorksShows
<1>3. L \in 1..L /\ L >= 1 /\ L \in Nat
  BY <1>1, RunFacts
<1>4. Shown[L] = [operands |-> SubSeq(stack, Slots(L), Top(L)), waits |-> Waits(frames[chain[L]]), gives |-> frames[chain[L]].new]
  BY <1>1, <1>3, ShownFacts DEF Act
<1>5. Shown'[L] = [Shown[L] EXCEPT !.operands = Shown'[L].operands]
  <2> DEFINE p == SubSeq(stack', Slots(L), Len(stack'))
             x == SubSeq(stack, Slots(L), Top(L))
             w == Waits(frames[chain[L]])
             g == frames[chain[L]].new
  <2> HIDE DEF p, x, w, g
  <2>1. Shown'[L] = [Shown[L] EXCEPT !.operands = p] /\ Shown[L] = [operands |-> x, waits |-> w, gives |-> g]
    BY <1>2, <1>4 DEF p, x, w, g
  <2>2. Shown'[L] = [operands |-> p, waits |-> w, gives |-> g]
    BY <2>1, WithOperands
  <2> QED BY <2>1, <2>2
<1>6. Front(Shown') = Front(Shown)
  <2>1. /\ IsSeq(Front(Shown)) /\ Len(Front(Shown)) = L - 1
        /\ \A i \in 1..L - 1 : Front(Shown)[i] = Shown[i]
    BY <1>2, <1>3, FrontIs
  <2> DEFINE t == Shown'
  <2> HIDE DEF t
  <2>2. IsSeq(t) /\ Len(t) = L
    BY <1>2 DEF t
  <2>3. /\ IsSeq(Front(t)) /\ Len(Front(t)) = L - 1
        /\ \A i \in 1..L - 1 : Front(t)[i] = t[i]
    BY <1>3, <2>2, FrontIs
  <2>4. \A i \in 1..L - 1 : Front(t)[i] = Front(Shown)[i]
    BY <1>2, <2>1, <2>3 DEF t
  <2>5. Front(t) = Front(Shown)
    BY <2>1, <2>3, <2>4, SeqEq
  <2> QED BY <2>5 DEF t
<1>7. Activations!Callers = Front(Shown) /\ Activations!this = Shown[L] /\ Activations!Front(Shown') = Front(Shown')
  BY <1>2, SameCallables DEF Activations!Callers, Activations!this
<1>8. Shown # <<>>
  BY <1>2, <1>3, EmptyFacts
<1>9. proto' = proto /\ InOrder' = InOrder
  BY DEF Works, InOrder
<1> QED BY <1>2, <1>5, <1>6, <1>7, <1>8, <1>9 DEF Activations!Work

(* A sequence split into what is kept and what is taken off. *)
SplitAt(s, z, c, a, t, ops) ==
  \E n \in 0..Len(ops) - 1 : SubSeq(ops, 1, n) = SubSeq(s, z, c) /\ SubSeq(ops, n + 1, Len(ops)) = SubSeq(s, a, t)

(* The operands split where those taken off begin.                          *)
LEMMA SplitFacts ==
  ASSUME NEW s, IsSeq(s), NEW z \in Nat, NEW c \in Nat, NEW t \in Nat, z >= 1, z - 1 <= c, c < t, t = Len(s),
         NEW a, a = c + 1, NEW ops, ops = SubSeq(s, z, t)
  PROVE  SplitAt(s, z, c, a, t, ops)
<1> PICK n : n = c - z + 1
  OBVIOUS
<1> PICK m : m = n + 1
  OBVIOUS
<1> PICK e : e = t - z + 1
  OBVIOUS
<1>1. n \in 0..e - 1 /\ n \in Int /\ m \in Int /\ e \in Int
  OBVIOUS
<1>2. IsSeq(ops) /\ Len(ops) = e
  BY SubFacts
<1>3. SubSeq(ops, 1, n) = SubSeq(s, z, c)
  <2>1. 1 \in Int /\ 1 <= 1 /\ 1 <= n + 1 /\ n <= t - z + 1 /\ z = z + 1 - 1 /\ c = z + n - 1 /\ z <= t + 1 /\ t <= Len(s)
    OBVIOUS
  <2> QED BY <1>1, <2>1, SubSub
<1>4. SubSeq(ops, m, e) = SubSeq(s, a, t)
  <2>1. 1 <= m /\ m <= e + 1 /\ e <= t - z + 1 /\ a = z + m - 1 /\ t = z + e - 1 /\ z <= t + 1 /\ t <= Len(s)
    OBVIOUS
  <2> QED BY <1>1, <2>1, SubSub
<1> QED BY <1>1, <1>2, <1>3, <1>4 DEF SplitAt

(* Those operands, and those that the caller keeps. *)
LEMMA InvokeIs ==
  ASSUME CallInv, NEW k \in Nat, k >= 1, Takes(k),
         NEW kept, kept = SubSeq(stack, Slots(Len(chain)), sp - k),
         Activations!Call(kept, Args(k)) \/ Activations!Operator(kept, Args(k))
  PROVE  Activations!Invoke
<1>1. PICK L : L = Len(chain)
  OBVIOUS
<1> PICK c : c = sp - k
  OBVIOUS
<1> PICK a : a = c + 1
  OBVIOUS
<1> PICK z : z = Slots(L)
  OBVIOUS
<1> PICK t : t = sp
  OBVIOUS
<1>2. /\ L \in 1..L /\ L >= 1 /\ L \in Nat /\ t \in Nat /\ IsSeq(stack) /\ Len(stack) = t
      /\ z \in Nat /\ z >= 1 /\ z - 1 <= c /\ c \in Nat /\ c < t
  <2>1. Running /\ c \in Nat /\ c >= Floor(L)
    BY <1>1, TakesFacts
  <2>2. L \in Nat /\ L >= 1 /\ sp \in Nat
    BY <1>1, <2>1, RunFacts
  <2>3. L \in 1..L
    BY <2>2
  <2>4. FrameInv(L) /\ Slots(L) - 1 <= Floor(L) /\ Floor(L) \in Nat
    BY <1>1, <2>1, <2>3, RunFacts
  <2>5. Slots(L) \in Nat /\ Slots(L) >= 1
    BY <2>4 DEF FrameInv
  <2> QED BY <2>1, <2>2, <2>3, <2>4, <2>5 DEF CallInv, StackInv, sp
<1> PICK ops : ops = SubSeq(stack, z, t)
  OBVIOUS
<1>3. Activations!this.operands = ops /\ Shown # <<>>
  <2>1. IsSeq(Shown) /\ Len(Shown) = L /\ Shown[L] = Act(L)
    BY <1>1, <1>2, ShownFacts
  <2>2. Activations!this = Shown[L]
    BY <2>1 DEF Activations!this
  <2>3. Shown # <<>>
    BY <1>2, <2>1, EmptyFacts
  <2>4. Top(L) = t
    BY <1>1 DEF Top
  <2> HIDE DEF Shown
  <2>5. Shown[L].operands = ops
    <3> DEFINE w == Waits(frames[chain[L]])
               g == frames[chain[L]].new
    <3> HIDE DEF w, g
    <3>1. Shown[L] = [operands |-> ops, waits |-> w, gives |-> g]
      BY <2>1, <2>4 DEF Act, w, g
    <3>2. PICK x : x = Shown[L]
      OBVIOUS
    <3>3. x = [operands |-> ops, waits |-> w, gives |-> g]
      BY <3>1, <3>2
    <3>4. x.operands = ops
      BY ONLY <3>3
    <3> QED BY <3>2, <3>4
  <2> QED BY <2>2, <2>3, <2>5
<1>4. Args(k) = SubSeq(stack, a, t)
  <2> HIDE DEF sp
  <2>1. a = sp - k + 1
    OBVIOUS
  <2>2. Args(k) = SubSeq(stack, sp - k + 1, sp)
    BY DEF Args
  <2> QED BY <2>1, <2>2
<1>5. kept = SubSeq(stack, z, c)
  BY <1>1
<1>6. PICK n \in 0..Len(ops) - 1 : SubSeq(ops, 1, n) = kept /\ SubSeq(ops, n + 1, Len(ops)) = Args(k)
  <2>1. SplitAt(stack, z, c, a, t, ops)
    BY <1>2, SplitFacts
  <2>2. \E n \in 0..Len(ops) - 1 : SubSeq(ops, 1, n) = SubSeq(stack, z, c)
                                 /\ SubSeq(ops, n + 1, Len(ops)) = SubSeq(stack, a, t)
    BY ONLY <2>1, ZenonT(30) DEF SplitAt
  <2> QED BY ONLY <1>4, <1>5, <2>2, ZenonT(30)
<1>7. \/ Activations!Call(SubSeq(ops, 1, n), SubSeq(ops, n + 1, Len(ops)))
      \/ Activations!Operator(SubSeq(ops, 1, n), SubSeq(ops, n + 1, Len(ops)))
  BY <1>6
<1> QED BY <1>3, <1>6, <1>7 DEF Activations!Invoke

----------------------------------------------------------------------------
(* Calls of a closure. *)

(* An instruction that leaves the first m places of the stack, which no    *)
(* code of the frame takes off, works on its operands. *)
LEMMA WorksAt ==
  ASSUME CallInv, Running, UNCHANGED <<proto, chain, frames>>, IsSeq(stack'),
         \A i \in 1..Len(stack') : IsValue(stack'[i]),
         NEW m \in Nat, Floor(Len(chain)) <= m, m <= Len(stack'),
         \A i \in 1..m : stack'[i] = stack[i]
  PROVE  Works
<1>1. PICK L : L = Len(chain)
  OBVIOUS
<1>2. /\ L \in 1..L /\ Floor(L) \in Nat /\ Slots(L) - 1 <= Floor(L) /\ FrameInv(L) /\ ParamCount(proto) \in Nat
      /\ Slots(L) \in Nat /\ Slots(L) >= 1
  <2>1. L \in Nat /\ L >= 1
    BY <1>1, RunFacts
  <2>2. L \in 1..L
    BY <2>1
  <2> QED BY <1>1, <2>2, RunFacts DEF FrameInv
<1>3. Len(stack') \in Nat
  BY SeqFacts
<1> PICK z : z = Slots(L)
  OBVIOUS
<1>4. \A i \in 1..z - 1 : stack'[i] = stack[i]
  <2>1. \A i \in 1..z - 1 : i \in 1..m
    BY <1>1, <1>2
  <2> QED BY <2>1
<1>5. ASSUME frames[chain[L]].isCtor PROVE stack'[z] = Instance
  <2>1. L # 1 /\ ParamCount(proto) >= 1 /\ stack[z] = Instance
    BY <1>2, <1>5 DEF FrameInv
  <2>2. Floor(L) = z - 1 + ParamCount(proto)
    BY <2>1 DEF Floor
  <2>3. z \in 1..m
    BY <1>1, <1>2, <2>1, <2>2
  <2> QED BY <2>1, <2>3
<1>6. Len(stack') >= Floor(L)
  BY <1>1, <1>2, <1>3
<1> QED BY <1>1, <1>4, <1>5, <1>6 DEF Works

(* What a call keeps of the stack, as EntersAt has it. *)
Keeps(b, kept, how, waits) ==
  /\ how \in {"plain", "ctor", "bound"} /\ waits \in {"push", "discard", "iterate"}
  /\ waits = "push" \/ how = "bound"
  /\ b \in Nat /\ Floor(Len(chain)) <= b /\ b <= sp
  /\ IsSeq(kept) /\ Len(kept) = b + (IF how = "plain" THEN 1 ELSE 0)
  /\ \A i \in 1..b : kept[i] = stack[i]
  /\ \A i \in 1..Len(kept) : IsValue(kept[i])
  /\ waits = "iterate" => Floor(Len(chain)) < b

(* A call of the closure with arguments args, of which the caller keeps    *)
(* the operands ops. *)
CallsClosure(b, kept, args, how, waits, gives, ops) ==
  /\ msClosureCall(kept, args, how, waits)
  /\ Keeps(b, kept, how, waits)
  /\ IsSeq(args) /\ \A i \in 1..Len(args) : IsValue(args[i])
  /\ how = "ctor" => IsPlain(proto) /\ Len(args) >= 1 /\ args[1] = Instance
  /\ gives = IF how = "ctor" THEN Instance ELSE Nothing
  /\ ops = SubSeq(stack, Slots(Len(chain)), b)

(* It enters the function with them. *)
LEMMA ClosureIs ==
  ASSUME CallInv, Running, NEW b, NEW kept, NEW args, NEW how, NEW waits, NEW gives, NEW ops,
         CallsClosure(b, kept, args, how, waits, gives, ops)
  PROVE  StackInv' /\ Activations!Enter(args, NoKeywords, ops, waits, gives)
<1>0. /\ msClosureCall(kept, args, how, waits)
      /\ Keeps(b, kept, how, waits)
      /\ IsSeq(args) /\ \A i \in 1..Len(args) : IsValue(args[i])
      /\ how = "ctor" => IsPlain(proto) /\ Len(args) >= 1 /\ args[1] = Instance
      /\ gives = IF how = "ctor" THEN Instance ELSE Nothing
      /\ ops = SubSeq(stack, Slots(Len(chain)), b)
  BY DEF CallsClosure
<1> USE <1>0
<1> PICK params : params = Positional(args)
  OBVIOUS
<1>1. /\ defaults # NoDefaults /\ Len(args) >= proto.arity
      /\ proto.hasVararg \/ Len(args) <= arityMax(proto)
      /\ proto.hasVararg => Range(Extra(args)) \subseteq Scalars
      /\ Enter(kept, params, how, waits)
  BY DEF msClosureCall
<1>2. ProgramInv /\ proto \in Signatures
  BY DEF CallInv, ProgramInv
<1>3. /\ params = Activations!Parameters(args, NoKeywords)
      /\ Activations!Accepts(args, NoKeywords)
      /\ IsSeq(params) /\ Len(params) = ParamCount(proto)
      /\ \A i \in 1..ParamCount(proto) : IsValue(params[i])
      /\ 1 <= Len(args) /\ 1 <= arityMax(proto) => params[1] = args[1]
  BY <1>1, <1>2, PositionalFacts
<1>4. how = "ctor" => Len(params) >= 1 /\ params[1] = Instance
  <2> SUFFICES ASSUME how = "ctor" PROVE Len(params) >= 1 /\ params[1] = Instance
    OBVIOUS
  <2>1. ~proto.hasVararg /\ ~proto.hasKwarg
    BY DEF IsPlain
  <2>2. Len(args) \in Nat /\ arityMax(proto) \in Nat /\ ParamCount(proto) = arityMax(proto)
    <3>1. Len(args) \in Nat
      BY SeqFacts
    <3> QED BY <1>2, <2>1, <3>1, ProtoFacts
  <2>3. 1 <= Len(args) /\ 1 <= arityMax(proto)
    BY <1>1, <2>1, <2>2
  <2> QED BY <1>3, <2>2, <2>3
<1>5. EntersAt(b, kept, params, how, waits)
  BY <1>1, <1>3, <1>4 DEF EntersAt, Keeps
<1>6. defaults' = defaults
  BY <1>1 DEF Enter, program
<1>7. StackInv'
  BY <1>5, EnterKeeps
<1>8. Activations!Enter(args, NoKeywords, ops, waits, gives)
  <2> PICK kw : kw = NoKeywords
    OBVIOUS
  <2>1. params = Activations!Parameters(args, kw) /\ Activations!Accepts(args, kw) /\ defaults # NoDefaults
    BY <1>1, <1>3
  <2>2. EntersWith(b, kept, params, how, waits, args, kw, gives, ops)
    BY <1>5, <1>6, <2>1 DEF EntersWith
  <2>3. Activations!Enter(args, kw, ops, waits, gives)
    BY <2>2, EnterIs
  <2> QED BY <2>3
<1> QED BY <1>7, <1>8

(* What a call finds on the stack st, which is the frame's up to the        *)
(* callee: the callee at b + 1, and above it argc arguments. *)
Arguments(st, argc, b) ==
  /\ IsSeq(st) /\ argc \in Nat /\ b \in Nat
  /\ Len(st) = b + 1 + argc
  /\ \A i \in 1..Len(st) : IsValue(st[i])
  /\ \A i \in 1..b + 1 : st[i] = stack[i]
  /\ Floor(Len(chain)) <= b /\ b + 1 <= sp

(* The part of the stack below the callee. *)
LEMMA BelowFacts ==
  ASSUME NEW st, NEW argc, NEW b, Arguments(st, argc, b), NEW below, below = SubSeq(st, 1, b)
  PROVE  /\ IsSeq(below) /\ Len(below) = b
         /\ \A i \in 1..b : below[i] = stack[i] /\ IsValue(below[i])
<1>1. /\ IsSeq(st) /\ b \in Nat /\ argc \in Nat /\ Len(st) = b + 1 + argc
      /\ \A i \in 1..Len(st) : IsValue(st[i])
      /\ \A i \in 1..b + 1 : st[i] = stack[i]
  BY DEF Arguments
<1>2. 1 \in Int /\ b \in Int /\ 1 <= 1 /\ 1 <= b + 1 /\ b <= Len(st)
  BY <1>1
<1>3. IsSeq(below) /\ Len(below) = b - 1 + 1 /\ \A i \in 1..b - 1 + 1 : below[i] = st[1 + i - 1]
  BY <1>1, <1>2, SubFacts
<1>4. b - 1 + 1 = b /\ \A i \in 1..b : 1 + i - 1 = i /\ i \in 1..b + 1 /\ i \in 1..Len(st)
  BY <1>1
<1> QED BY <1>1, <1>3, <1>4

Above(args, st, argc, b) ==
  /\ IsSeq(args) /\ Len(args) = argc
  /\ \A i \in 1..argc : args[i] = st[b + 1 + i] /\ IsValue(args[i])

(* The arguments are the values above the callee.                           *)
LEMMA AboveFacts ==
  ASSUME NEW st, NEW argc, NEW b, Arguments(st, argc, b), NEW args, args = SubSeq(st, b + 2, Len(st))
  PROVE  Above(args, st, argc, b)
<1>1. /\ IsSeq(st) /\ b \in Nat /\ argc \in Nat /\ Len(st) = b + 1 + argc
      /\ \A i \in 1..Len(st) : IsValue(st[i])
  BY DEF Arguments
<1> PICK x : x = b + 2
  OBVIOUS
<1> PICK y : y = Len(st)
  OBVIOUS
<1>2. x \in Int /\ y \in Int /\ 1 <= x /\ x <= y + 1 /\ y <= Len(st)
  BY <1>1
<1>3. IsSeq(args) /\ Len(args) = y - x + 1 /\ \A i \in 1..y - x + 1 : args[i] = st[x + i - 1]
  BY <1>1, <1>2, SubFacts
<1>4. y - x + 1 = argc /\ \A i \in 1..argc : x + i - 1 = b + 1 + i /\ b + 1 + i \in 1..Len(st)
  BY <1>1
<1> QED BY <1>1, <1>3, <1>4 DEF Above

(* Such a part is what a call keeps. *)
LEMMA KeepsBelow ==
  ASSUME NEW b, NEW below, b \in Nat, Floor(Len(chain)) <= b, b + 1 <= sp, sp \in Nat,
         IsSeq(below), Len(below) = b,
         \A i \in 1..b : below[i] = stack[i] /\ IsValue(below[i])
  PROVE  /\ Keeps(b, below, "ctor", "push") /\ Keeps(b, below, "bound", "push") /\ Keeps(b, below, "bound", "discard")
         /\ Keeps(b, Append(below, Fn), "plain", "push")
<1>1. b <= sp
  <2> HIDE DEF sp
  <2> QED OBVIOUS
<1>2. \A how \in {"ctor", "bound"}, waits \in {"push", "discard"} :
         waits = "push" \/ how = "bound" => Keeps(b, below, how, waits)
  <2> SUFFICES ASSUME NEW how \in {"ctor", "bound"}, NEW waits \in {"push", "discard"}, waits = "push" \/ how = "bound"
               PROVE  Keeps(b, below, how, waits)
    OBVIOUS
  <2>1. how # "plain" /\ waits # "iterate" /\ b + 0 = b
    OBVIOUS
  <2> QED BY <1>1, <2>1 DEF Keeps
<1> PICK q : q = Append(below, Fn)
  OBVIOUS
<1>3. IsSeq(q) /\ Len(q) = b + 1 /\ q[b + 1] = Fn /\ \A i \in 1..b : q[i] = below[i]
  BY AddFacts
<1>4. IsValue(Fn)
  BY ScalarIsValue DEF Scalars
<1>5. \A i \in 1..Len(q) : IsValue(q[i])
  <2> SUFFICES ASSUME NEW i \in 1..Len(q) PROVE IsValue(q[i])
    OBVIOUS
  <2>1. i \in 1..b \/ i = b + 1
    BY <1>3
  <2> QED BY <1>3, <1>4, <2>1
<1>6. Keeps(b, q, "plain", "push")
  BY <1>1, <1>3, <1>5 DEF Keeps
<1> QED BY <1>2, <1>6

IsCat(r, s, t) ==
  /\ IsSeq(r) /\ Len(r) = Len(s) + Len(t)
  /\ \A i \in 1..Len(s) : r[i] = s[i]
  /\ \A i \in 1..Len(t) : r[Len(s) + i] = t[i]

(* Concatenation, in these terms.                                           *)
LEMMA Cat == ASSUME NEW s, IsSeq(s), NEW t, IsSeq(t) PROVE IsCat(s \o t, s, t)
BY CatFacts DEF IsCat

IsAdd(r, s, x) ==
  /\ IsSeq(r) /\ Len(r) = Len(s) + 1 /\ r[Len(s) + 1] = x
  /\ \A i \in 1..Len(s) : r[i] = s[i]

(* Append, in these terms.                                                  *)
LEMMA Add == ASSUME NEW s, IsSeq(s), NEW x PROVE IsAdd(Append(s, x), s, x)
BY AddFacts DEF IsAdd

(* One more argument, in front.                                             *)
LEMMA ConsFacts ==
  ASSUME NEW x, NEW s, IsSeq(s), IsValue(x), \A i \in 1..Len(s) : IsValue(s[i])
  PROVE  /\ IsSeq(<<x>> \o s) /\ Len(<<x>> \o s) >= 1 /\ (<<x>> \o s)[1] = x
         /\ \A i \in 1..Len(<<x>> \o s) : IsValue((<<x>> \o s)[i])
<1> PICK t : t = <<x>>
  OBVIOUS
<1>1. IsSeq(t) /\ Len(t) = 1 /\ t[1] = x
  BY PairFacts
<1> PICK r : r = t \o s
  OBVIOUS
<1>2. /\ IsSeq(r) /\ Len(r) = Len(t) + Len(s)
      /\ \A i \in 1..Len(t) : r[i] = t[i]
      /\ \A i \in 1..Len(s) : r[Len(t) + i] = s[i]
  <2>1. IsCat(r, t, s)
    BY <1>1, Cat
  <2> QED BY <2>1 DEF IsCat
<1>3. Len(s) \in Nat
  BY SeqFacts
<1>4. \A i \in 1..Len(r) : IsValue(r[i])
  <2> SUFFICES ASSUME NEW i \in 1..Len(r) PROVE IsValue(r[i])
    OBVIOUS
  <2>1. CASE i = 1
    BY <1>1, <1>2, <2>1
  <2>2. CASE i # 1
    <3>1. PICK j : j = i - 1
      OBVIOUS
    <3>2. j \in 1..Len(s) /\ i = Len(t) + j
      BY <1>1, <1>2, <1>3, <2>2, <3>1
    <3> QED BY <1>2, <3>2
  <2> QED BY <2>1, <2>2
<1> QED BY <1>1, <1>2, <1>3, <1>4

(* dispatchCall calls what a call promises, or makes an instance in place   *)
(* of the class. *)
LEMMA DispatchIs ==
  ASSUME CallInv, Running, NEW st, NEW argc, NEW b, dispatchCall(st, argc), Arguments(st, argc, b),
         NEW callee, callee = stack[b + 1],
         NEW args, args = SubSeq(st, b + 2, Len(st)),
         NEW ops, ops = SubSeq(stack, Slots(Len(chain)), b)
  PROVE  \/ StackInv' /\ Activations!Callee(callee, args, ops)
         \/ Works /\ defaults' = defaults
<1> PICK below : below = SubSeq(st, 1, b)
  OBVIOUS
<1>1. /\ IsSeq(st) /\ argc \in Nat /\ b \in Nat /\ Len(st) = b + 1 + argc
      /\ \A i \in 1..Len(st) : IsValue(st[i])
      /\ \A i \in 1..b + 1 : st[i] = stack[i]
      /\ Floor(Len(chain)) <= b /\ b + 1 <= sp
  BY DEF Arguments
<1>2. /\ IsSeq(below) /\ Len(below) = b
      /\ \A i \in 1..b : below[i] = stack[i] /\ IsValue(below[i])
  <2>1. Arguments(st, argc, b) /\ below = SubSeq(st, 1, b)
    OBVIOUS
  <2> QED BY ONLY <2>1, BelowFacts, ZenonT(30)
<1>3. /\ IsSeq(args) /\ Len(args) = argc
      /\ \A i \in 1..Len(args) : IsValue(args[i])
  <2>1. Above(args, st, argc, b)
    BY AboveFacts
  <2> QED BY <2>1 DEF Above
<1>4. callee = st[b + 1] /\ IsValue(callee)
  <2>1. b + 1 \in 1..b + 1 /\ b + 1 \in 1..Len(st)
    BY <1>1
  <2> QED BY <1>1, <2>1
<1>5. \/ callee = Fn /\ msClosureCall(Append(below, Fn), args, "plain", "push")
      \/ callee = Class /\ IsMethodOfClass /\ msClosureCall(below, <<Instance>> \o args, "ctor", "push")
      \/ callee = Class /\ argc = 0 /\ SetStack(Append(below, Instance)) /\ Local
      \/ IsMethod(callee) /\ msClosureCall(below, <<callee.self>> \o args, "bound", "push")
  <2> PICK base : base = b + 1
    OBVIOUS
  <2>1. base = Len(st) - argc /\ base - 1 = b /\ base + 1 = b + 2
    BY <1>1
  <2>2. dispatchCall(st, argc) =
          \/ st[base] = Fn /\ msClosureCall(Append(SubSeq(st, 1, base - 1), Fn), SubSeq(st, base + 1, Len(st)), "plain", "push")
          \/ st[base] = Class /\ IsMethodOfClass
             /\ msClosureCall(SubSeq(st, 1, base - 1), <<Instance>> \o SubSeq(st, base + 1, Len(st)), "ctor", "push")
          \/ st[base] = Class /\ argc = 0 /\ SetStack(Append(SubSeq(st, 1, base - 1), Instance)) /\ Local
          \/ IsMethod(st[base])
             /\ msClosureCall(SubSeq(st, 1, base - 1), <<st[base].self>> \o SubSeq(st, base + 1, Len(st)), "bound", "push")
    BY <2>1 DEF dispatchCall
  <2>3. st[base] = callee /\ SubSeq(st, 1, base - 1) = below /\ SubSeq(st, base + 1, Len(st)) = args
    BY <1>4, <2>1
  <2> QED BY <2>2, <2>3
<1>6. sp \in Nat
  BY RunFacts
<1>7. /\ Keeps(b, below, "ctor", "push") /\ Keeps(b, below, "bound", "push")
      /\ Keeps(b, Append(below, Fn), "plain", "push")
  BY <1>1, <1>2, <1>6, KeepsBelow
<1>8. IsValue(Instance)
  BY ScalarIsValue DEF Scalars
<1>9. ASSUME callee = Fn, msClosureCall(Append(below, Fn), args, "plain", "push")
      PROVE  StackInv' /\ Activations!Callee(callee, args, ops)
  <2>1. CallsClosure(b, Append(below, Fn), args, "plain", "push", Nothing, ops)
    BY <1>3, <1>7, <1>9 DEF CallsClosure
  <2>2. StackInv' /\ Activations!Enter(args, NoKeywords, ops, "push", Nothing)
    BY <2>1, ClosureIs
  <2> QED BY <1>9, <2>2, SameCallables DEF Activations!Callee
<1>10. ASSUME callee = Class, IsMethodOfClass, msClosureCall(below, <<Instance>> \o args, "ctor", "push")
       PROVE  StackInv' /\ Activations!Callee(callee, args, ops)
  <2> PICK all : all = <<Instance>> \o args
    OBVIOUS
  <2>1. IsSeq(all) /\ Len(all) >= 1 /\ all[1] = Instance /\ \A i \in 1..Len(all) : IsValue(all[i])
    BY <1>3, <1>8, ConsFacts
  <2>2. CallsClosure(b, below, all, "ctor", "push", Instance, ops)
    BY <1>7, <1>10, <2>1 DEF CallsClosure, IsMethodOfClass
  <2>3. StackInv' /\ Activations!Enter(all, NoKeywords, ops, "push", Instance)
    BY <2>2, ClosureIs
  <2> QED BY <1>10, <2>3, SameCallables DEF Activations!Callee
<1>11. ASSUME IsMethod(callee), msClosureCall(below, <<callee.self>> \o args, "bound", "push")
       PROVE  StackInv' /\ Activations!Callee(callee, args, ops)
  <2> PICK all : all = <<callee.self>> \o args
    OBVIOUS
  <2>1. callee.self = Instance
    BY <1>4, <1>11 DEF IsValue
  <2>2. IsSeq(all) /\ \A i \in 1..Len(all) : IsValue(all[i])
    BY <1>3, <1>8, <2>1, ConsFacts
  <2>3. CallsClosure(b, below, all, "bound", "push", Nothing, ops)
    BY <1>7, <1>11, <2>2 DEF CallsClosure
  <2>4. StackInv' /\ Activations!Enter(all, NoKeywords, ops, "push", Nothing)
    BY <2>3, ClosureIs
  <2> QED BY <1>11, <2>4, SameCallables DEF Activations!Callee
<1>12. ASSUME SetStack(Append(below, Instance)), Local
       PROVE  Works /\ defaults' = defaults
  <2>1. UNCHANGED <<proto, chain, frames>> /\ defaults' = defaults /\ stack' = Append(below, Instance)
    BY <1>12 DEF Local, program, SetStack
  <2>2. IsSeq(stack') /\ Len(stack') = b + 1 /\ stack'[b + 1] = Instance /\ \A i \in 1..b : stack'[i] = below[i]
    <3> PICK q : q = Append(below, Instance)
      OBVIOUS
    <3>1. IsSeq(q) /\ Len(q) = b + 1 /\ q[b + 1] = Instance /\ \A i \in 1..b : q[i] = below[i]
      <4>1. IsAdd(q, below, Instance)
        BY <1>2, Add
      <4> QED BY <1>2, <4>1 DEF IsAdd
    <3> QED BY <2>1, <3>1
  <2>3. \A i \in 1..Len(stack') : IsValue(stack'[i])
    <3> SUFFICES ASSUME NEW i \in 1..Len(stack') PROVE IsValue(stack'[i])
      OBVIOUS
    <3>1. i \in 1..b \/ i = b + 1
      BY <1>1, <2>2
    <3> QED BY <1>2, <1>8, <2>2, <3>1
  <2>4. b <= Len(stack') /\ \A i \in 1..b : stack'[i] = stack[i]
    BY <1>1, <1>2, <2>2
  <2> QED BY <1>1, <2>1, <2>2, <2>3, <2>4, WorksAt
<1> QED BY <1>5, <1>9, <1>10, <1>11, <1>12

----------------------------------------------------------------------------
(* The instructions that call. *)

(* The place below the k operands that the code takes off, and what the     *)
(* caller keeps. *)
LEMMA PlaceFacts ==
  ASSUME CallInv, NEW k \in Nat, Takes(k), NEW b, b = sp - k
  PROVE  /\ Running /\ sp \in Nat /\ b \in Nat /\ b = sp - k /\ Floor(Len(chain)) <= b
         /\ IsSeq(stack) /\ Len(stack) = sp
         /\ \A i \in 1..sp : IsValue(stack[i])
<1>1. Running /\ b \in Nat /\ b >= Floor(Len(chain))
  BY TakesFacts
<1>2. sp \in Nat /\ Len(chain) \in 1..Len(chain)
  BY <1>1, RunFacts
<1>3. Floor(Len(chain)) \in Nat
  BY <1>1, <1>2, RunFacts
<1> QED BY <1>1, <1>2, <1>3 DEF CallInv, StackInv, sp

Dispatched(k, args) ==
  \/ Works /\ defaults' = defaults
  \/ /\ StackInv'
     /\ Activations!Callee(Head(Args(k)), args, SubSeq(stack, Slots(Len(chain)), sp - k))

(* dispatchCall does one of the two.                                        *)
LEMMA DispatchedIs ==
  ASSUME CallInv, NEW k \in Nat, k >= 1, Takes(k), NEW b, b = sp - k,
         NEW st, NEW argc, dispatchCall(st, argc), Arguments(st, argc, b),
         NEW args, args = SubSeq(st, b + 2, Len(st))
  PROVE  Dispatched(k, args)
<1>1. /\ Running /\ sp \in Nat /\ b \in Nat
  BY PlaceFacts
<1>2. Head(Args(k)) = stack[b + 1]
  <2>1. IsSeq(Args(k)) /\ Len(Args(k)) = k /\ \A i \in 1..k : Args(k)[i] = stack[sp - k + i]
    BY ArgsFacts
  <2>2. Head(Args(k)) = Args(k)[1]
    BY <2>1, HeadTailFacts
  <2>3. 1 \in 1..k /\ sp - k + 1 = b + 1
    BY <1>1
  <2> QED BY <2>1, <2>2, <2>3
<1> PICK callee : callee = stack[b + 1]
  OBVIOUS
<1> PICK ops : ops = SubSeq(stack, Slots(Len(chain)), b)
  OBVIOUS
<1>3. \/ StackInv' /\ Activations!Callee(callee, args, ops)
      \/ Works /\ defaults' = defaults
  BY <1>1, DispatchIs
<1>4. callee = Head(Args(k)) /\ ops = SubSeq(stack, Slots(Len(chain)), sp - k)
  BY <1>2
<1> QED BY <1>3, <1>4 DEF Dispatched

(* A step that calls keeps what is to be kept, and is one of those that     *)
(* MsActivations has. *)
Implements == StackInv' /\ (Activations!Invoke \/ Activations!Work)

(* A step that calls nothing is such a step.                                *)
LEMMA WorkImplements ==
  ASSUME CallInv, Running, Works, defaults' = defaults
  PROVE  Implements
BY WorksKeeps, WorkIs DEF Implements

(* OP_CALL.                                                                 *)
LEMMA CallIs ==
  ASSUME CallInv, Call
  PROVE  Implements
<1>1. PICK argc \in 0..sp : Takes(argc + 1) /\ dispatchCall(stack, argc)
  BY DEF Call
<1> PICK k : k = argc + 1
  OBVIOUS
<1> PICK b : b = sp - k
  OBVIOUS
<1>2. argc \in Nat /\ k \in Nat /\ k >= 1 /\ Takes(k)
  BY <1>1
<1>3. /\ Running /\ sp \in Nat /\ b \in Nat /\ b = sp - k /\ Floor(Len(chain)) <= b
      /\ IsSeq(stack) /\ Len(stack) = sp
      /\ \A i \in 1..sp : IsValue(stack[i])
  BY <1>2, PlaceFacts
<1>4. Arguments(stack, argc, b)
  <2>1. sp = b + 1 + argc /\ b + 1 <= sp
    BY <1>2, <1>3
  <2> QED BY <1>2, <1>3, <2>1 DEF Arguments
<1> PICK args : args = SubSeq(stack, b + 2, Len(stack))
  OBVIOUS
<1>5. Dispatched(k, args)
  BY <1>1, <1>2, <1>3, <1>4, DispatchedIs
<1>6. args = Tail(Args(k))
  <2>1. Above(args, stack, argc, b)
    BY <1>4, AboveFacts
  <2>2. IsSeq(args) /\ Len(args) = argc /\ \A i \in 1..argc : args[i] = stack[b + 1 + i]
    BY <2>1 DEF Above
  <2>3. IsSeq(Args(k)) /\ Len(Args(k)) = k /\ \A i \in 1..k : Args(k)[i] = stack[sp - k + i]
    BY <1>2, ArgsFacts
  <2> DEFINE s == Args(k)
             t == Tail(s)
  <2> HIDE DEF s
  <2>4. IsSeq(t) /\ Len(t) = k - 1 /\ \A i \in 1..k - 1 : t[i] = s[i + 1]
    BY <1>2, <2>3, HeadTailFacts DEF s
  <2> HIDE DEF t
  <2>5. \A i \in 1..argc : i \in 1..k - 1 /\ i + 1 \in 1..k /\ sp - k + (i + 1) = b + 1 + i
    BY <1>2, <1>3
  <2>6. \A i \in 1..argc : t[i] = args[i]
    <3> SUFFICES ASSUME NEW i \in 1..argc PROVE t[i] = args[i]
      OBVIOUS
    <3>1. PICK j : j = i + 1
      OBVIOUS
    <3>2. t[i] = s[j] /\ s[j] = stack[sp - k + j]
      BY <2>3, <2>4, <2>5, <3>1 DEF s
    <3>3. sp - k + j = b + 1 + i
      BY <2>5, <3>1
    <3> QED BY <2>2, <3>2, <3>3
  <2>7. Len(t) = argc
    BY <1>2, <2>4
  <2>8. t = args
    BY <2>2, <2>4, <2>6, <2>7, SeqEq
  <2> QED BY <2>8 DEF t, s
<1>7. CASE Works /\ defaults' = defaults
  BY <1>3, <1>7, WorkImplements
<1>8. CASE StackInv' /\ Activations!Callee(Head(Args(k)), args, SubSeq(stack, Slots(Len(chain)), sp - k))
  <2> PICK ops : ops = SubSeq(stack, Slots(Len(chain)), sp - k)
    OBVIOUS
  <2>1. Activations!Call(ops, Args(k))
    BY <1>6, <1>8 DEF Activations!Call
  <2>2. Activations!Invoke
    BY <1>2, <2>1, InvokeIs
  <2> QED BY <1>8, <2>2 DEF Implements
<1> QED BY <1>5, <1>7, <1>8 DEF Dispatched

(* The items that a spread pushes are the first ones of the list, up to its *)
(* first nil.                                                               *)
LEMMA ExpandFacts ==
  ASSUME NEW whole \in Seq(Scalars)
  PROVE  /\ msExpandToStack(whole) \in Seq(Scalars)
         /\ \E n \in 0..Len(whole) : /\ msExpandToStack(whole) = SubSeq(whole, 1, n)
                                     /\ Activations!Iterates(whole, n)
<1> DEFINE S == {i \in 0..Len(whole) : i = Len(whole) \/ whole[i + 1] = Nil}
           n == Min(S)
<1>1. S \in SUBSET Nat /\ Len(whole) \in S
  OBVIOUS
<1>2. n \in S /\ \A i \in S : n <= i
  <2> HIDE DEF S
  <2>1. \E m \in S : \A i \in S : m <= i
    BY <1>1, LeastNumber
  <2> QED BY <2>1 DEF Min
<1>3. msExpandToStack(whole) = SubSeq(whole, 1, n)
  BY DEF msExpandToStack
<1> HIDE DEF n
<1>4. n \in 0..Len(whole) /\ (n < Len(whole) => whole[n + 1] = Nil)
  BY <1>2
<1>5. ASSUME NEW i \in 1..n PROVE whole[i] # Nil
  <2>1. i - 1 \in 0..Len(whole) /\ ~(n <= i - 1) /\ (i - 1) + 1 = i
    BY <1>4
  <2>2. i - 1 \notin S
    BY <1>1, <1>2, <2>1
  <2> QED BY <2>1, <2>2
<1>6. Activations!Iterates(whole, n)
  BY <1>4, <1>5 DEF Activations!Iterates
<1>7. SubSeq(whole, 1, n) \in Seq(Scalars)
  <2>1. \A i \in 1..n : whole[i] \in Scalars
    BY <1>4
  <2> QED BY <1>4, <2>1
<1> QED BY <1>3, <1>4, <1>6, <1>7

(* OP_CALL_EX, with fewer items than the byte for their number has room for. *)
LEMMA CallExIs ==
  ASSUME ~LongSpreads, CallInv, CallEx
  PROVE  Implements
<1> PICK k : k = 2
  OBVIOUS
<1> PICK b : b = sp - k
  OBVIOUS
<1> PICK list : list = PEEK(0)
  OBVIOUS
<1> PICK whole : whole = list.items
  OBVIOUS
<1> PICK items : items = msExpandToStack(whole)
  OBVIOUS
<1> PICK argc : argc = Len(items)
  OBVIOUS
<1> PICK st : st = Dropped(1) \o items
  OBVIOUS
<1>1. /\ k \in Nat /\ k >= 1 /\ Takes(k) /\ IsList(list)
      /\ argc < ArgcLimit /\ dispatchCall(st, argc % ArgcLimit)
  BY DEF CallEx
<1>2. /\ Running /\ sp \in Nat /\ b \in Nat /\ b = sp - k /\ Floor(Len(chain)) <= b
      /\ IsSeq(stack) /\ Len(stack) = sp
      /\ \A i \in 1..sp : IsValue(stack[i])
  BY <1>1, PlaceFacts
<1>3. list = stack[sp] /\ sp \in 1..sp /\ sp - 0 = sp
  <2>1. sp - 0 = sp /\ sp \in 1..sp
    BY <1>2
  <2> QED BY <2>1 DEF PEEK
<1>4. whole \in Seq(Scalars) /\ items \in Seq(Scalars)
  <2>1. whole \in Seq(Scalars)
    BY <1>1, <1>2, <1>3 DEF IsValue
  <2> QED BY <2>1, ExpandFacts
<1>5. IsSeq(items) /\ argc \in Nat /\ \A i \in 1..argc : IsValue(items[i])
  <2>1. \A i \in 1..argc : items[i] \in Scalars
    BY <1>4
  <2> QED BY <1>4, <2>1, ScalarIsValue DEF IsSeq
<1>6. argc % ArgcLimit = argc
  <2>1. \A x \in Nat, y \in Nat \ {0} : x < y => x % y = x
    OBVIOUS
  <2> QED BY <1>1, <1>5, <2>1, CallAssumption
<1>7. dispatchCall(st, argc)
  BY <1>1, <1>6
<1>8. Takes(1)
  <2>1. \A x, y \in Int : x - 2 >= y => x - 1 >= y
    OBVIOUS
  <2>2. Floor(Len(chain)) \in Nat /\ Running
    <3>1. Len(chain) \in 1..Len(chain)
      BY <1>2, RunFacts
    <3> QED BY <1>2, <3>1, RunFacts
  <2>3. frame.slots - 1 + (IF InFunction THEN ParamCount(proto) ELSE 0) \in Int
    <3>1. /\ frame = frames[chain[Len(chain)]] /\ Len(chain) \in 1..Len(chain) /\ ParamCount(proto) \in Nat
      BY <1>2, RunFacts
    <3>2. frame.slots \in Nat
      BY <1>2, <3>1, RunFacts DEF FrameInv, Slots
    <3> QED BY <3>1, <3>2
  <2>4. sp - 2 >= frame.slots - 1 + (IF InFunction THEN ParamCount(proto) ELSE 0)
    BY <1>1 DEF Takes
  <2> QED BY <1>2, <2>1, <2>3, <2>4 DEF Takes
<1> PICK low : low = Dropped(1)
  OBVIOUS
<1>9. IsSeq(low) /\ Len(low) = b + 1 /\ \A i \in 1..b + 1 : low[i] = stack[i] /\ IsValue(low[i])
  <2>1. /\ IsSeq(Dropped(1)) /\ Len(Dropped(1)) = sp - 1
        /\ \A i \in 1..sp - 1 : Dropped(1)[i] = stack[i] /\ IsValue(Dropped(1)[i])
    BY <1>8, ArgsFacts
  <2>2. sp - 1 = b + 1
    BY <1>2
  <2> QED BY <2>1, <2>2
<1>10. /\ IsSeq(st) /\ Len(st) = b + 1 + argc /\ \A i \in 1..b + 1 : st[i] = stack[i]
       /\ \A i \in 1..argc : st[b + 1 + i] = items[i]
  <2>1. IsCat(st, low, items)
    BY <1>5, <1>9, Cat
  <2>2. /\ IsSeq(st) /\ Len(st) = Len(low) + argc /\ \A i \in 1..Len(low) : st[i] = low[i]
        /\ \A i \in 1..argc : st[Len(low) + i] = items[i]
    BY <2>1 DEF IsCat
  <2>3. Len(low) = b + 1 /\ \A i \in 1..b + 1 : low[i] = stack[i]
    BY <1>9
  <2> HIDE DEF sp
  <2>4. \A i \in 1..argc : st[b + 1 + i] = items[i]
    <3> SUFFICES ASSUME NEW i \in 1..argc PROVE st[b + 1 + i] = items[i]
      OBVIOUS
    <3>1. Len(low) + i = b + 1 + i
      BY <2>3
    <3> QED BY <2>2, <3>1
  <2>5. \A i \in 1..b + 1 : st[i] = stack[i]
    BY <2>2, <2>3
  <2> QED BY <2>2, <2>3, <2>4, <2>5
<1>11. Arguments(st, argc, b)
  <2>1. \A i \in 1..Len(st) : IsValue(st[i])
    <3> SUFFICES ASSUME NEW i \in 1..Len(st) PROVE IsValue(st[i])
      OBVIOUS
    <3>1. CASE i \in 1..b + 1
      BY <1>9, <1>10, <3>1
    <3>2. CASE i \notin 1..b + 1
      <4>1. PICK j : j = i - (b + 1)
        OBVIOUS
      <4>2. j \in 1..argc /\ i = b + 1 + j
        BY <1>2, <1>5, <1>10, <3>2, <4>1
      <4> QED BY <1>5, <1>10, <4>2
    <3> QED BY <3>1, <3>2
  <2>2. b + 1 <= sp
    BY <1>2
  <2> QED BY <1>2, <1>5, <1>10, <2>1, <2>2 DEF Arguments
<1> PICK args : args = SubSeq(st, b + 2, Len(st))
  OBVIOUS
<1>12. Dispatched(k, args)
  BY <1>1, <1>7, <1>11, DispatchedIs
<1>13. args = items
  <2>1. Above(args, st, argc, b)
    BY <1>11, AboveFacts
  <2>2. IsSeq(args) /\ Len(args) = argc /\ \A i \in 1..argc : args[i] = st[b + 1 + i]
    BY <2>1 DEF Above
  <2>3. \A i \in 1..argc : args[i] = items[i]
    BY <1>10, <2>2
  <2>4. IsSeq(items) /\ Len(items) = argc
    BY <1>5
  <2>5. IsSeq(args) /\ Len(args) = Len(items) /\ \A i \in 1..Len(args) : args[i] = items[i]
    BY ONLY <2>2, <2>3, <2>4, ZenonT(30)
  <2> QED BY ONLY <2>4, <2>5, SeqEq, ZenonT(30)
<1>14. Len(Tail(Args(k))) = 1 /\ Tail(Args(k))[1] = list
  <2>1. IsSeq(Args(k)) /\ Len(Args(k)) = k /\ \A i \in 1..k : Args(k)[i] = stack[sp - k + i]
    BY <1>1, ArgsFacts
  <2>2. Len(Tail(Args(k))) = k - 1 /\ \A i \in 1..k - 1 : Tail(Args(k))[i] = Args(k)[i + 1]
    BY <1>1, <2>1, HeadTailFacts
  <2>3. 1 \in 1..k - 1 /\ 1 + 1 = 2 /\ 2 \in 1..k /\ sp - k + 2 = sp /\ k - 1 = 1
    BY <1>2
  <2>4. Tail(Args(k))[1] = Args(k)[2] /\ Args(k)[2] = stack[sp - k + 2]
    BY <2>1, <2>2, <2>3
  <2> QED BY <1>3, <2>2, <2>3, <2>4
<1>15. CASE Works /\ defaults' = defaults
  BY <1>2, <1>15, WorkImplements
<1>16. CASE StackInv' /\ Activations!Callee(Head(Args(k)), args, SubSeq(stack, Slots(Len(chain)), sp - k))
  <2> PICK ops : ops = SubSeq(stack, Slots(Len(chain)), sp - k)
    OBVIOUS
  <2>1. Activations!IsList(Tail(Args(k))[1]) /\ Tail(Args(k))[1].items = whole
    BY <1>1, <1>14, SameCallables
  <2>2. PICK n \in 0..Len(whole) : items = SubSeq(whole, 1, n) /\ Activations!Iterates(whole, n)
    BY <1>4, ExpandFacts
  <2>3. Activations!Call(ops, Args(k))
    BY <1>13, <1>14, <1>16, <2>1, <2>2 DEF Activations!Call
  <2>4. Activations!Invoke
    BY <1>1, <2>3, InvokeIs
  <2> QED BY <1>16, <2>4 DEF Implements
<1> QED BY <1>12, <1>15, <1>16 DEF Dispatched

IsSub(r, s, a, b) ==
  /\ IsSeq(r) /\ Len(r) = b - a + 1
  /\ \A i \in 1..b - a + 1 : r[i] = s[a + i - 1]

(* SubSeq, in these terms.                                                  *)
LEMMA Sub ==
  ASSUME NEW s, IsSeq(s), NEW a \in Int, NEW b \in Int, 1 <= a, a <= b + 1, b <= Len(s)
  PROVE  IsSub(SubSeq(s, a, b), s, a, b)
BY SubFacts DEF IsSub

(* What takes k operands off can take fewer. *)
LEMMA TakesLess ==
  ASSUME CallInv, NEW k \in Nat, Takes(k), NEW j \in Nat, j <= k
  PROVE  Takes(j)
<1>1. Running /\ sp \in Nat
  <2>1. Running
    BY TakesFacts
  <2> QED BY <2>1, RunFacts
<1>2. PICK m : m = frame.slots - 1 + (IF InFunction THEN ParamCount(proto) ELSE 0)
  OBVIOUS
<1>3. m \in Int
  <2>1. /\ frame = frames[chain[Len(chain)]] /\ Len(chain) \in 1..Len(chain) /\ ParamCount(proto) \in Nat
    BY <1>1, RunFacts
  <2>2. frame.slots \in Nat
    BY <1>1, <2>1, RunFacts DEF FrameInv, Slots
  <2> QED BY <1>2, <2>1, <2>2
<1>4. \A x, y \in Int : x - k >= y => x - j >= y
  OBVIOUS
<1>5. sp - k >= m
  BY <1>2 DEF Takes
<1>6. sp - j >= m
  <2> PICK x : x = sp
    OBVIOUS
  <2>1. x \in Int /\ x - k >= m
    BY <1>1, <1>5
  <2>2. x - j >= m
    BY <1>3, <1>4, <2>1
  <2> QED BY <2>2
<1> QED BY <1>1, <1>2, <1>6 DEF Takes

(* OP_CALL_KW *)
LEMMA CallKwIs ==
  ASSUME CallInv, CallKw
  PROVE  Implements
<1>1. PICK posArgc \in 0..sp :
        /\ Takes(posArgc + 2)
        /\ PEEK(posArgc + 1) = Fn /\ IsMap(PEEK(0))
        /\ msClosureCallKw(Dropped(posArgc + 1), SubSeq(stack, sp - posArgc, sp - 1), PEEK(0).entries)
  BY DEF CallKw
<1> PICK k : k = posArgc + 2
  OBVIOUS
<1> PICK b : b = sp - k
  OBVIOUS
<1> PICK j : j = posArgc + 1
  OBVIOUS
<1> PICK kept : kept = Dropped(j)
  OBVIOUS
<1> PICK pos : pos = SubSeq(stack, sp - posArgc, sp - 1)
  OBVIOUS
<1> PICK map : map = PEEK(0)
  OBVIOUS
<1> PICK km : km = map.entries
  OBVIOUS
<1>2. /\ posArgc \in Nat /\ k \in Nat /\ k >= 1 /\ Takes(k) /\ j \in Nat /\ j <= k
      /\ IsMap(map) /\ msClosureCallKw(kept, pos, km)
  BY <1>1
<1>3. /\ Running /\ sp \in Nat /\ b \in Nat /\ b = sp - k /\ Floor(Len(chain)) <= b
      /\ IsSeq(stack) /\ Len(stack) = sp
      /\ \A i \in 1..sp : IsValue(stack[i])
  BY <1>2, PlaceFacts
<1>4. /\ map = stack[sp] /\ stack[b + 1] = Fn /\ sp \in 1..sp
  <2>1. sp - 0 = sp /\ sp \in 1..sp /\ sp - (posArgc + 1) = b + 1
    BY <1>2, <1>3
  <2> QED BY <1>1, <2>1 DEF PEEK
<1>5. km \in Keywords
  BY <1>2, <1>3, <1>4 DEF IsValue
<1>6. IsSeq(kept) /\ Len(kept) = b + 1 /\ \A i \in 1..b + 1 : kept[i] = stack[i] /\ IsValue(kept[i])
  <2>1. Takes(j)
    BY <1>2, TakesLess
  <2>2. /\ IsSeq(Dropped(j)) /\ Len(Dropped(j)) = sp - j
        /\ \A i \in 1..sp - j : Dropped(j)[i] = stack[i] /\ IsValue(Dropped(j)[i])
    BY <1>2, <2>1, ArgsFacts
  <2>3. sp - j = b + 1
    BY <1>2, <1>3
  <2> QED BY <2>2, <2>3
<1>7. /\ IsSeq(pos) /\ Len(pos) = posArgc
      /\ \A i \in 1..posArgc : pos[i] = stack[b + 1 + i] /\ IsValue(pos[i])
  <2> PICK x : x = sp - posArgc
    OBVIOUS
  <2> PICK y : y = sp - 1
    OBVIOUS
  <2>1. x \in Int /\ y \in Int /\ 1 <= x /\ x <= y + 1 /\ y <= Len(stack)
    BY <1>2, <1>3
  <2>2. IsSeq(pos) /\ Len(pos) = y - x + 1 /\ \A i \in 1..y - x + 1 : pos[i] = stack[x + i - 1]
    <3>1. IsSub(SubSeq(stack, x, y), stack, x, y)
      BY <1>3, <2>1, Sub
    <3>2. SubSeq(stack, x, y) = pos
      OBVIOUS
    <3>3. IsSub(pos, stack, x, y)
      BY <3>1, <3>2
    <3> QED BY <3>3 DEF IsSub
  <2>3. y - x + 1 = posArgc /\ \A i \in 1..posArgc : x + i - 1 = b + 1 + i /\ b + 1 + i \in 1..sp
    BY <1>2, <1>3
  <2> QED BY <1>3, <2>2, <2>3
<1> PICK params : params = ByName(pos, km)
  OBVIOUS
<1>8. /\ defaults # NoDefaults
      /\ ~proto.hasVararg /\ Len(pos) <= arityMax(proto)
      /\ Unknown(km) = {} \/ proto.hasKwarg
      /\ \A i \in Named(km) : i > Len(pos)
      /\ \A i \in Len(pos) + 1..arityMax(proto) : i \in Named(km) \/ HasDefault(i - 1)
      /\ Enter(kept, params, "plain", "push")
  BY <1>2 DEF msClosureCallKw
<1>9. /\ params = Activations!Parameters(pos, km)
      /\ Activations!Accepts(pos, km)
      /\ IsSeq(params) /\ Len(params) = ParamCount(proto)
      /\ \A i \in 1..ParamCount(proto) : IsValue(params[i])
  <2>1. ProgramInv /\ \A i \in 1..Len(pos) : IsValue(pos[i])
    BY <1>7 DEF CallInv
  <2> QED BY <1>5, <1>7, <1>8, <2>1, ByNameFacts
<1>10. EntersAt(b, kept, params, "plain", "push")
  <2>1. b <= sp /\ \A i \in 1..b : i \in 1..b + 1
    BY <1>2, <1>3
  <2>2. \A i \in 1..b : kept[i] = stack[i]
    BY <1>6, <2>1
  <2> QED BY <1>3, <1>6, <1>8, <1>9, <2>1, <2>2 DEF EntersAt
<1> PICK ops : ops = SubSeq(stack, Slots(Len(chain)), b)
  OBVIOUS
<1>11. StackInv' /\ Activations!Enter(pos, km, ops, "push", Nothing)
  <2>1. defaults' = defaults
    BY <1>8 DEF Enter, program
  <2>2. EntersWith(b, kept, params, "plain", "push", pos, km, Nothing, ops)
    BY <1>8, <1>9, <1>10, <2>1 DEF EntersWith
  <2> QED BY <1>3, <1>10, <2>2, EnterKeeps, EnterIs
<1> PICK s : s = Args(k)
  OBVIOUS
<1> PICK t : t = Tail(s)
  OBVIOUS
<1>12. /\ Head(s) = Fn /\ IsSeq(t) /\ Len(t) = j
       /\ \A i \in 1..j : t[i] = stack[b + 1 + i]
  <2>1. IsSeq(s) /\ Len(s) = k /\ \A i \in 1..k : s[i] = stack[sp - k + i]
    BY <1>2, ArgsFacts
  <2>2. Head(s) = s[1] /\ IsSeq(t) /\ Len(t) = k - 1 /\ \A i \in 1..k - 1 : t[i] = s[i + 1]
    BY <1>2, <2>1, HeadTailFacts
  <2>3. k - 1 = j /\ 1 \in 1..k /\ sp - k + 1 = b + 1
    BY <1>2, <1>3
  <2>4. \A i \in 1..j : t[i] = stack[b + 1 + i]
    <3> SUFFICES ASSUME NEW i \in 1..j PROVE t[i] = stack[b + 1 + i]
      OBVIOUS
    <3>1. PICK m : m = i + 1
      OBVIOUS
    <3>2. m \in 1..k /\ sp - k + m = b + 1 + i /\ i \in 1..k - 1
      BY <1>2, <1>3, <3>1
    <3>3. t[i] = s[m] /\ s[m] = stack[sp - k + m]
      BY <2>1, <2>2, <3>1, <3>2
    <3> QED BY <3>2, <3>3
  <2> QED BY <1>4, <2>1, <2>2, <2>3, <2>4
<1>13. t # <<>> /\ Front(t) = pos /\ Last(t) = map
  <2>1. Len(t) >= 1 /\ Len(t) = j
    BY <1>2, <1>12
  <2>2. /\ IsSeq(Front(t)) /\ Len(Front(t)) = Len(t) - 1
        /\ \A i \in 1..Len(t) - 1 : Front(t)[i] = t[i]
        /\ Last(t) = t[Len(t)]
    <3>1. IsSeq(t) /\ Len(t) >= 1
      BY <1>12, <2>1
    <3> QED BY ONLY <3>1, FrontIs
  <2>3. Len(t) - 1 = posArgc /\ \A i \in 1..posArgc : i \in 1..j
    BY <1>2, <2>1
  <2> DEFINE u == Front(t)
  <2> HIDE DEF u
  <2>4. IsSeq(u) /\ Len(u) = posArgc /\ \A i \in 1..posArgc : u[i] = pos[i]
    <3>1. \A i \in 1..posArgc : t[i] = stack[b + 1 + i] /\ pos[i] = stack[b + 1 + i]
      BY <1>7, <1>12, <2>3
    <3>2. IsSeq(u) /\ Len(u) = posArgc /\ \A i \in 1..posArgc : u[i] = t[i]
      BY <2>2, <2>3 DEF u
    <3> QED BY ONLY <3>1, <3>2, ZenonT(30)
  <2>5. u = pos
    BY <1>7, <2>4, SeqEq
  <2>6. Last(t) = map
    <3>1. b + 1 + j = sp /\ j \in 1..j
      BY <1>2, <1>3
    <3>2. t[j] = stack[b + 1 + j]
      BY <1>12, <3>1
    <3> QED BY <1>4, <2>1, <2>2, <3>1, <3>2
  <2>7. t # <<>>
    <3>1. Len(<<>>) = 0 /\ (t = <<>> => Len(t) = Len(<<>>))
      BY EmptyFacts
    <3>2. ~(0 >= 1)
      OBVIOUS
    <3> QED BY ONLY <2>1, <3>1, <3>2, Zenon
  <2> QED BY <2>5, <2>6, <2>7 DEF u
<1>14. Activations!Call(ops, s)
  <2>1. Activations!IsMap(Last(t)) /\ Last(t).entries = km
    BY <1>2, <1>13, SameCallables
  <2> QED BY <1>11, <1>12, <1>13, <2>1, SameCallables DEF Activations!Call
<1>15. Activations!Invoke
  <2>1. ops = SubSeq(stack, Slots(Len(chain)), sp - k)
    OBVIOUS
  <2> QED BY <1>2, <1>14, <2>1, InvokeIs
<1> QED BY <1>11, <1>15 DEF Implements

----------------------------------------------------------------------------
(* Operators. *)

LEMMA TripleFacts ==
  ASSUME NEW x, NEW y, NEW z
  PROVE  /\ IsSeq(<<x, y, z>>) /\ Len(<<x, y, z>>) = 3
         /\ <<x, y, z>>[1] = x /\ <<x, y, z>>[2] = y /\ <<x, y, z>>[3] = z
<1>1. <<x, y, z>> \in Seq({x, y, z})
  OBVIOUS
<1> QED BY <1>1 DEF IsSeq

(* Up to three operands, by their places. *)
LEMMA OperandFacts ==
  ASSUME CallInv, NEW k \in 1..3, Takes(k)
  PROVE  /\ \A i \in 0..k - 1 : IsValue(PEEK(i))
         /\ k = 1 => Args(k) = <<PEEK(0)>>
         /\ k = 2 => Args(k) = <<PEEK(1), PEEK(0)>>
         /\ k = 3 => Args(k) = <<PEEK(2), PEEK(1), PEEK(0)>>
<1> PICK s : s = Args(k)
  OBVIOUS
<1>1. k \in Nat /\ k >= 1
  OBVIOUS
<1>2. IsSeq(s) /\ Len(s) = k /\ \A i \in 1..k : s[i] = stack[sp - k + i] /\ IsValue(s[i])
  BY <1>1, ArgsFacts
<1>3. sp \in Nat
  BY <1>1, PlaceFacts
<1>4. \A i \in 0..k - 1 : PEEK(i) = s[k - i]
  <2> SUFFICES ASSUME NEW i \in 0..k - 1 PROVE PEEK(i) = s[k - i]
    OBVIOUS
  <2>1. PICK j : j = k - i
    OBVIOUS
  <2>2. j \in 1..k /\ sp - k + j = sp - i
    BY <1>3, <2>1
  <2>3. s[j] = stack[sp - k + j]
    BY <1>2, <2>2
  <2> QED BY <2>1, <2>2, <2>3 DEF PEEK
<1>5. \A i \in 0..k - 1 : IsValue(PEEK(i))
  <2>1. \A i \in 0..k - 1 : k - i \in 1..k
    OBVIOUS
  <2> QED BY <1>2, <1>4, <2>1
<1>6. CASE k = 1
  <2>1. PEEK(0) = s[1]
    BY <1>4, <1>6
  <2> PICK t : t = <<PEEK(0)>>
    OBVIOUS
  <2>2. IsSeq(t) /\ Len(t) = 1 /\ t[1] = PEEK(0)
    BY PairFacts
  <2>3. \A i \in 1..Len(s) : s[i] = t[i]
    BY <1>2, <1>6, <2>1, <2>2
  <2>4. s = t
    BY <1>2, <1>6, <2>2, <2>3, SeqEq
  <2> QED BY <1>5, <1>6, <2>4
<1>7. CASE k = 2
  <2>1. PEEK(1) = s[1] /\ PEEK(0) = s[2]
    BY <1>4, <1>7
  <2> PICK t : t = <<PEEK(1), PEEK(0)>>
    OBVIOUS
  <2>2. IsSeq(t) /\ Len(t) = 2 /\ t[1] = PEEK(1) /\ t[2] = PEEK(0)
    BY CoupleFacts
  <2>3. \A i \in 1..Len(s) : s[i] = t[i]
    BY <1>2, <1>7, <2>1, <2>2
  <2>4. s = t
    BY <1>2, <1>7, <2>2, <2>3, SeqEq
  <2> QED BY <1>5, <1>7, <2>4
<1>8. CASE k = 3
  <2>1. PEEK(2) = s[1] /\ PEEK(1) = s[2] /\ PEEK(0) = s[3]
    BY <1>4, <1>8
  <2> PICK t : t = <<PEEK(2), PEEK(1), PEEK(0)>>
    OBVIOUS
  <2>2. IsSeq(t) /\ Len(t) = 3 /\ t[1] = PEEK(2) /\ t[2] = PEEK(1) /\ t[3] = PEEK(0)
    BY TripleFacts
  <2>3. \A i \in 1..Len(s) : s[i] = t[i]
    BY <1>2, <1>8, <2>1, <2>2
  <2>4. s = t
    BY <1>2, <1>8, <2>2, <2>3, SeqEq
  <2> QED BY <1>5, <1>8, <2>4
<1> QED BY <1>6, <1>7, <1>8

(* A method called in place of an operator that takes k operands off. *)
LEMMA MagicIs ==
  ASSUME CallInv, NEW k \in Nat, k >= 1, Takes(k), NEW b, b = sp - k,
         NEW argv, NEW waits \in {"push", "discard"}, dispatchMagicCall(Dropped(k), argv, waits),
         IsSeq(argv), \A i \in 1..Len(argv) : IsValue(argv[i]),
         NEW ops, ops = SubSeq(stack, Slots(Len(chain)), b)
  PROVE  StackInv' /\ Activations!Enter(argv, NoKeywords, ops, waits, Nothing) /\ argv[1] = Instance
<1> PICK below : below = Dropped(k)
  OBVIOUS
<1>1. argv[1] = Instance /\ msClosureCall(below, argv, "bound", waits)
  BY DEF dispatchMagicCall
<1>2. Running /\ sp \in Nat /\ b \in Nat /\ Floor(Len(chain)) <= b
  BY PlaceFacts
<1>3. /\ IsSeq(below) /\ Len(below) = b
      /\ \A i \in 1..b : below[i] = stack[i] /\ IsValue(below[i])
  BY ArgsFacts
<1>4. b + 1 <= sp
  BY <1>2
<1>5. Keeps(b, below, "bound", waits)
  BY <1>2, <1>3, <1>4, KeepsBelow
<1>6. CallsClosure(b, below, argv, "bound", waits, Nothing, ops)
  BY <1>1, <1>5 DEF CallsClosure
<1> QED BY <1>1, <1>2, <1>6, ClosureIs

(* A unary operator.                                                        *)
LEMMA UnaryIs ==
  ASSUME CallInv, Unary
  PROVE  Implements
<1> PICK k : k = 1
  OBVIOUS
<1> PICK b : b = sp - k
  OBVIOUS
<1> PICK ops : ops = SubSeq(stack, Slots(Len(chain)), b)
  OBVIOUS
<1> PICK argv : argv = <<PEEK(0)>>
  OBVIOUS
<1>1. k \in Nat /\ k >= 1 /\ k \in 1..3 /\ Takes(k) /\ dispatchMagicCall(Dropped(k), argv, "push")
  BY DEF Unary
<1>2. IsValue(PEEK(0)) /\ Args(k) = argv
  <2>1. 0 \in 0..k - 1
    OBVIOUS
  <2> QED BY <1>1, <2>1, OperandFacts
<1>3. IsSeq(argv) /\ Len(argv) = 1 /\ argv[1] = PEEK(0)
  BY PairFacts
<1>4. \A i \in 1..Len(argv) : IsValue(argv[i])
  BY <1>2, <1>3
<1>5. StackInv' /\ Activations!Enter(argv, NoKeywords, ops, "push", Nothing) /\ argv[1] = Instance
  BY <1>1, <1>3, <1>4, MagicIs
<1>6. Activations!Operator(ops, Args(k))
  <2>1. Head(argv) = argv[1] /\ Len(argv) \in 1..2
    BY <1>3, HeadTailFacts
  <2> QED BY <1>2, <1>5, <2>1, SameCallables DEF Activations!Operator
<1>7. Activations!Invoke
  BY <1>1, <1>6, InvokeIs
<1> QED BY <1>5, <1>7 DEF Implements

(* A binary operator, either way round.                                     *)
LEMMA BinaryIs ==
  ASSUME CallInv, Binary
  PROVE  Implements
<1> PICK k : k = 2
  OBVIOUS
<1> PICK b : b = sp - k
  OBVIOUS
<1> PICK ops : ops = SubSeq(stack, Slots(Len(chain)), b)
  OBVIOUS
<1> PICK x : x = PEEK(1)
  OBVIOUS
<1> PICK y : y = PEEK(0)
  OBVIOUS
<1>1. PICK argv \in {<<x, y>>, <<y, x>>} : dispatchMagicCall(Dropped(k), argv, "push")
  BY DEF Binary
<1>2. k \in Nat /\ k >= 1 /\ k \in 1..3 /\ Takes(k)
  BY DEF Binary
<1>3. IsValue(x) /\ IsValue(y) /\ Args(k) = <<x, y>>
  <2>1. 0 \in 0..k - 1 /\ 1 \in 0..k - 1
    OBVIOUS
  <2> QED BY <1>2, <2>1, OperandFacts
<1>4. IsSeq(argv) /\ Len(argv) = 2 /\ \A i \in 1..Len(argv) : IsValue(argv[i])
  <2>1. PICK v, w : argv = <<v, w>> /\ IsValue(v) /\ IsValue(w)
    BY <1>1, <1>3
  <2>2. IsSeq(argv) /\ Len(argv) = 2 /\ argv[1] = v /\ argv[2] = w
    BY <2>1, CoupleFacts
  <2> QED BY <2>1, <2>2
<1>5. StackInv' /\ Activations!Enter(argv, NoKeywords, ops, "push", Nothing) /\ argv[1] = Instance
  BY <1>1, <1>2, <1>4, MagicIs
<1>6. argv \in {Args(k), Reverse(Args(k))}
  <2>1. CASE argv = <<x, y>>
    BY <1>3, <2>1
  <2>2. CASE argv = <<y, x>>
    <3> PICK s : s = <<x, y>>
      OBVIOUS
    <3> PICK r : r = Reverse(s)
      OBVIOUS
    <3>1. IsSeq(s) /\ Len(s) = 2 /\ s[1] = x /\ s[2] = y
      BY CoupleFacts
    <3>2. IsSeq(r) /\ Len(r) = 2 /\ \A i \in 1..2 : r[i] = s[2 - i + 1]
      BY <3>1, ReverseFacts
    <3>3. r[1] = y /\ r[2] = x
      <4>1. 2 - 1 + 1 = 2 /\ 2 - 2 + 1 = 1 /\ 1 \in 1..2 /\ 2 \in 1..2
        OBVIOUS
      <4> QED BY <3>1, <3>2, <4>1
    <3>4. argv[1] = y /\ argv[2] = x
      BY <2>2, CoupleFacts
    <3>5. \A i \in 1..Len(r) : r[i] = argv[i]
      BY <3>2, <3>3, <3>4
    <3>6. r = argv
      BY <1>4, <3>2, <3>5, SeqEq
    <3> QED BY <1>3, <3>6
  <2> QED BY <1>1, <2>1, <2>2
<1>7. Activations!Operator(ops, Args(k))
  <2>1. Head(argv) = argv[1] /\ Len(Args(k)) \in 1..2
    BY <1>3, <1>4, HeadTailFacts, CoupleFacts
  <2> QED BY <1>5, <1>6, <2>1, SameCallables DEF Activations!Operator
<1>8. Activations!Invoke
  BY <1>2, <1>7, InvokeIs
<1> QED BY <1>5, <1>8 DEF Implements

(* An assignment to an item.                                                *)
LEMMA SetItemIs ==
  ASSUME CallInv, SetItem
  PROVE  Implements
<1> PICK k : k = 3
  OBVIOUS
<1> PICK b : b = sp - k
  OBVIOUS
<1> PICK ops : ops = SubSeq(stack, Slots(Len(chain)), b)
  OBVIOUS
<1> PICK x : x = PEEK(2)
  OBVIOUS
<1> PICK y : y = PEEK(1)
  OBVIOUS
<1> PICK z : z = PEEK(0)
  OBVIOUS
<1> PICK argv : argv = <<y, z, x>>
  OBVIOUS
<1> PICK s : s = Args(k)
  OBVIOUS
<1>1. k \in Nat /\ k >= 1 /\ k \in 1..3 /\ Takes(k) /\ dispatchMagicCall(Dropped(k), argv, "push")
  BY DEF SetItem
<1>2. IsValue(x) /\ IsValue(y) /\ IsValue(z) /\ s = <<x, y, z>>
  <2>1. 0 \in 0..k - 1 /\ 1 \in 0..k - 1 /\ 2 \in 0..k - 1
    OBVIOUS
  <2> QED BY <1>1, <2>1, OperandFacts
<1>3. /\ IsSeq(argv) /\ Len(argv) = 3 /\ argv[1] = y /\ argv[2] = z /\ argv[3] = x
      /\ \A i \in 1..Len(argv) : IsValue(argv[i])
  <2>1. IsSeq(argv) /\ Len(argv) = 3 /\ argv[1] = y /\ argv[2] = z /\ argv[3] = x
    BY TripleFacts
  <2> QED BY <1>2, <2>1
<1>4. StackInv' /\ Activations!Enter(argv, NoKeywords, ops, "push", Nothing) /\ argv[1] = Instance
  BY <1>1, <1>3, MagicIs
<1>5. Len(s) = 3 /\ s[1] = x /\ s[2] = y /\ s[3] = z
  BY <1>2, TripleFacts
<1>6. s[2] = Instance /\ <<s[2], s[3], s[1]>> = argv
  BY <1>3, <1>4, <1>5
<1>7. Activations!Operator(ops, s)
  BY <1>4, <1>5, <1>6, SameCallables DEF Activations!Operator
<1>8. Activations!Invoke
  BY <1>1, <1>7, InvokeIs
<1> QED BY <1>4, <1>8 DEF Implements

(* A deletion of an item.                                                   *)
LEMMA DelItemIs ==
  ASSUME CallInv, DelItem
  PROVE  Implements
<1> PICK k : k = 2
  OBVIOUS
<1> PICK b : b = sp - k
  OBVIOUS
<1> PICK ops : ops = SubSeq(stack, Slots(Len(chain)), b)
  OBVIOUS
<1> PICK argv : argv = <<PEEK(1), PEEK(0)>>
  OBVIOUS
<1>1. k \in Nat /\ k >= 1 /\ k \in 1..3 /\ Takes(k) /\ dispatchMagicCall(Dropped(k), argv, "discard")
  BY DEF DelItem
<1>2. IsValue(PEEK(0)) /\ IsValue(PEEK(1)) /\ Args(k) = argv
  <2>1. 0 \in 0..k - 1 /\ 1 \in 0..k - 1
    OBVIOUS
  <2> QED BY <1>1, <2>1, OperandFacts
<1>3. IsSeq(argv) /\ Len(argv) = 2 /\ argv[1] = PEEK(1) /\ argv[2] = PEEK(0)
  BY CoupleFacts
<1>4. \A i \in 1..Len(argv) : IsValue(argv[i])
  BY <1>2, <1>3
<1>5. StackInv' /\ Activations!Enter(argv, NoKeywords, ops, "discard", Nothing) /\ argv[1] = Instance
  BY <1>1, <1>3, <1>4, MagicIs
<1>6. Activations!Operator(ops, Args(k))
  <2>1. Head(argv) = argv[1]
    BY <1>3, HeadTailFacts
  <2> QED BY <1>2, <1>3, <1>5, <2>1, SameCallables DEF Activations!Operator
<1>7. Activations!Invoke
  BY <1>1, <1>6, InvokeIs
<1> QED BY <1>5, <1>7 DEF Implements

(* The iterator is taken off and kept. *)
LEMMA ForIterIs ==
  ASSUME CallInv, ForIter
  PROVE  Implements
<1> PICK k : k = 1
  OBVIOUS
<1> PICK c : c = sp - k
  OBVIOUS
<1> PICK b : b = sp
  OBVIOUS
<1> PICK z : z = Slots(Len(chain))
  OBVIOUS
<1> PICK kept : kept = SubSeq(stack, z, c)
  OBVIOUS
<1> PICK ops : ops = SubSeq(stack, z, b)
  OBVIOUS
<1> PICK argv : argv = <<PEEK(0)>>
  OBVIOUS
<1>1. k \in Nat /\ k >= 1 /\ k \in 1..3 /\ Takes(k) /\ dispatchMagicCall(stack, argv, "iterate")
  BY DEF ForIter
<1>2. IsValue(PEEK(0)) /\ Args(k) = argv /\ PEEK(0) = stack[b]
  <2>1. 0 \in 0..k - 1
    OBVIOUS
  <2>2. sp \in Nat
    BY <1>1, PlaceFacts
  <2>3. sp - 0 = b
    BY <2>2
  <2> QED BY <1>1, <2>1, <2>3, OperandFacts DEF PEEK
<1>3. IsSeq(argv) /\ Len(argv) = 1 /\ argv[1] = PEEK(0)
  BY PairFacts
<1>4. /\ Running /\ b \in Nat /\ c \in Nat /\ c = b - 1 /\ Floor(Len(chain)) <= c
      /\ IsSeq(stack) /\ Len(stack) = b /\ \A i \in 1..b : IsValue(stack[i])
  BY <1>1, PlaceFacts
<1>5. /\ z \in Nat /\ z >= 1 /\ z - 1 <= c /\ Floor(Len(chain)) \in Nat
  <2>1. Len(chain) \in 1..Len(chain)
    BY <1>4, RunFacts
  <2>2. FrameInv(Len(chain)) /\ z - 1 <= Floor(Len(chain)) /\ Floor(Len(chain)) \in Nat
    BY <1>4, <2>1, RunFacts
  <2>3. z \in Nat /\ z >= 1
    BY <2>2 DEF FrameInv
  <2> QED BY <1>4, <2>2, <2>3
<1>6. Keeps(b, stack, "bound", "iterate")
  <2>1. Floor(Len(chain)) <= b /\ Floor(Len(chain)) < b /\ b <= sp /\ b + 0 = b
    BY <1>4, <1>5
  <2> QED BY <1>4, <2>1 DEF Keeps
<1>7. argv[1] = Instance /\ msClosureCall(stack, argv, "bound", "iterate")
  BY <1>1 DEF dispatchMagicCall
<1>8. CallsClosure(b, stack, argv, "bound", "iterate", Nothing, ops)
  BY <1>2, <1>3, <1>6, <1>7 DEF CallsClosure
<1>9. StackInv' /\ Activations!Enter(argv, NoKeywords, ops, "iterate", Nothing)
  BY <1>4, <1>8, ClosureIs
<1>10. ops = kept \o argv
  <2>1. IsSub(SubSeq(stack, z, c), stack, z, c)
    <3>1. z \in Int /\ c \in Int /\ 1 <= z /\ z <= c + 1 /\ c <= Len(stack)
      BY <1>4, <1>5
    <3> QED BY <1>4, <3>1, Sub
  <2>2. IsSub(SubSeq(stack, z, b), stack, z, b)
    <3>1. z \in Int /\ b \in Int /\ 1 <= z /\ z <= b + 1 /\ b <= Len(stack)
      BY <1>4, <1>5
    <3> QED BY <1>4, <3>1, Sub
  <2> PICK r : r = kept \o argv
    OBVIOUS
  <2>3. IsSeq(kept) /\ Len(kept) = c - z + 1 /\ \A i \in 1..c - z + 1 : kept[i] = stack[z + i - 1]
    BY <2>1 DEF IsSub
  <2>4. IsSeq(ops) /\ Len(ops) = b - z + 1 /\ \A i \in 1..b - z + 1 : ops[i] = stack[z + i - 1]
    BY <2>2 DEF IsSub
  <2>5. IsCat(r, kept, argv)
    BY <1>3, <2>3, Cat
  <2>6. /\ IsSeq(r) /\ Len(r) = Len(kept) + 1 /\ \A i \in 1..Len(kept) : r[i] = kept[i]
        /\ \A i \in 1..1 : r[Len(kept) + i] = argv[i]
    BY <1>3, <2>5 DEF IsCat
  <2>7. r[Len(kept) + 1] = stack[b]
    <3>1. 1 \in 1..1
      OBVIOUS
    <3> QED BY <1>2, <1>3, <2>6, <3>1
  <2> PICK n : n = Len(kept)
    OBVIOUS
  <2>8. n = c - z + 1 /\ n \in Nat /\ b - z + 1 = n + 1 /\ z + (n + 1) - 1 = b
    BY <1>4, <1>5, <2>3, SMTT(30)
  <2>9. \A i \in 1..Len(ops) : ops[i] = r[i]
    <3> SUFFICES ASSUME NEW i \in 1..Len(ops) PROVE ops[i] = r[i]
      OBVIOUS
    <3>1. i \in 1..n + 1 /\ i \in 1..b - z + 1
      BY <2>4, <2>8
    <3>2. CASE i = n + 1
      <4>1. z + i - 1 = b
        BY <2>8, <3>2
      <4> QED BY <2>4, <2>7, <3>1, <3>2, <4>1
    <3>3. CASE i # n + 1
      <4>1. \A m \in Nat : \A j \in 1..m + 1 : j # m + 1 => j \in 1..m
        OBVIOUS
      <4>2. i \in 1..n
        BY <2>8, <3>1, <3>3, <4>1
      <4>3. i \in 1..c - z + 1 /\ i \in 1..Len(kept)
        BY <2>8, <4>2
      <4>4. r[i] = kept[i] /\ kept[i] = stack[z + i - 1]
        BY <2>3, <2>6, <4>3
      <4>5. ops[i] = stack[z + i - 1]
        BY <2>4, <3>1
      <4> QED BY <4>4, <4>5
    <3> QED BY <3>2, <3>3
  <2>10. Len(ops) = Len(r)
    BY <2>4, <2>6, <2>8
  <2> QED BY <2>4, <2>6, <2>9, <2>10, SeqEq
<1>11. Activations!Operator(kept, Args(k))
  <2>1. argv = <<Instance>>
    BY <1>3, <1>7
  <2>2. Activations!Enter(argv, NoKeywords, kept \o argv, "iterate", Nothing)
    BY <1>9, <1>10
  <2> QED BY <1>2, <2>1, <2>2, SameCallables DEF Activations!Operator
<1>12. Activations!Invoke
  BY <1>1, <1>11, InvokeIs
<1> QED BY <1>9, <1>12 DEF Implements

----------------------------------------------------------------------------
(* The instructions that call nothing. *)

(* Taking k operands off and pushing a value, or none. *)
LEMMA ReplaceIs ==
  ASSUME CallInv, NEW k \in Nat, Takes(k), Local, NEW v, IsValue(v),
         stack' = Dropped(k) \/ stack' = Append(Dropped(k), v)
  PROVE  Implements
<1> PICK b : b = sp - k
  OBVIOUS
<1> PICK low : low = Dropped(k)
  OBVIOUS
<1>1. /\ Running /\ sp \in Nat /\ b \in Nat /\ Floor(Len(chain)) <= b
  BY PlaceFacts
<1>2. IsSeq(low) /\ Len(low) = b /\ \A i \in 1..b : low[i] = stack[i] /\ IsValue(low[i])
  BY ArgsFacts
<1>3. UNCHANGED <<proto, chain, frames>> /\ defaults' = defaults
  BY DEF Local, program
<1>4. CASE stack' = low
  <2>1. /\ IsSeq(stack') /\ \A i \in 1..Len(stack') : IsValue(stack'[i])
        /\ b <= Len(stack') /\ \A i \in 1..b : stack'[i] = stack[i]
    BY <1>1, <1>2, <1>4
  <2>2. Works
    BY <1>1, <1>3, <2>1, WorksAt
  <2> QED BY <1>1, <1>3, <2>2, WorkImplements
<1>5. CASE stack' = Append(low, v)
  <2>1. IsAdd(stack', low, v)
    <3>1. IsAdd(Append(low, v), low, v)
      BY <1>2, Add
    <3> QED BY <1>5, <3>1
  <2>2. IsSeq(stack') /\ Len(stack') = b + 1 /\ stack'[b + 1] = v /\ \A i \in 1..b : stack'[i] = low[i]
    BY <1>2, <2>1 DEF IsAdd
  <2>3. \A i \in 1..Len(stack') : IsValue(stack'[i])
    <3> SUFFICES ASSUME NEW i \in 1..Len(stack') PROVE IsValue(stack'[i])
      OBVIOUS
    <3>1. i \in 1..b \/ i = b + 1
      BY <1>1, <2>2
    <3> QED BY <1>2, <2>2, <3>1
  <2>4. b <= Len(stack') /\ \A i \in 1..b : stack'[i] = stack[i]
    BY <1>1, <1>2, <2>2
  <2>5. Works
    BY <1>1, <1>3, <2>2, <2>3, <2>4, WorksAt
  <2> QED BY <1>1, <1>3, <2>5, WorkImplements
<1> QED BY <1>4, <1>5

(* Pushing a value is work, whichever it is.                                *)
LEMMA PushIs ==
  ASSUME CallInv, NEW v, IsValue(v), Push(v)
  PROVE  Implements
<1>1. Takes(0) /\ Local /\ stack' = Append(stack, v) /\ 0 \in Nat
  BY DEF Push, SetStack
<1>2. Dropped(0) = stack
  <2>1. /\ IsSeq(Dropped(0)) /\ Len(Dropped(0)) = sp - 0
        /\ \A i \in 1..sp - 0 : Dropped(0)[i] = stack[i]
    BY <1>1, ArgsFacts
  <2>2. IsSeq(stack) /\ Len(stack) = sp /\ sp \in Nat
    BY <1>1, PlaceFacts
  <2>3. sp - 0 = sp
    BY <2>2
  <2> DEFINE q == Dropped(0)
  <2> HIDE DEF q
  <2>4. IsSeq(q) /\ Len(q) = Len(stack) /\ \A i \in 1..Len(q) : q[i] = stack[i]
    BY <2>1, <2>2, <2>3 DEF q
  <2>5. q = stack
    BY <2>2, <2>4, SeqEq
  <2> QED BY <2>5 DEF q
<1> QED BY <1>1, <1>2, ReplaceIs

(* A constant.                                                              *)
LEMMA ConstIs ==
  ASSUME CallInv, Const
  PROVE  Implements
<1>1. PICK v \in Pushed \cup (IF defaults = NoDefaults THEN {} ELSE {Fn}) : Push(v)
  BY DEF Const
<1>2. IsValue(v)
  <2>1. v \in Pushed \/ v = Fn
    BY <1>1
  <2> QED BY <2>1, CallAssumption, ScalarIsValue DEF Scalars
<1> QED BY <1>1, <1>2, PushIs

(* A local variable that is read.                                           *)
LEMMA GetLocalIs ==
  ASSUME CallInv, GetLocal
  PROVE  Implements
<1>1. PICK s \in frame.slots..sp : Push(stack[s]) /\ Running
  BY DEF GetLocal
<1>2. IsValue(stack[s])
  <2>1. Len(chain) \in 1..Len(chain) /\ frame = frames[chain[Len(chain)]] /\ sp \in Nat
    BY <1>1, RunFacts
  <2>2. FrameInv(Len(chain))
    BY <1>1, <2>1, RunFacts
  <2>3. frame.slots \in Nat /\ frame.slots >= 1
    BY <2>1, <2>2 DEF FrameInv, Slots
  <2>4. s \in 1..sp
    <3> PICK z : z = frame.slots
      OBVIOUS
    <3>1. z \in Nat /\ z >= 1 /\ s \in z..sp
      BY <1>1, <2>3
    <3> QED BY <2>1, <3>1
  <2> QED BY <2>4 DEF CallInv, StackInv
<1> QED BY <1>1, <1>2, PushIs

(* A value that is dropped.                                                 *)
LEMMA PopIs ==
  ASSUME CallInv, Pop
  PROVE  Implements
<1>1. Takes(1) /\ Local /\ stack' = Dropped(1) /\ 1 \in Nat
  BY DEF Pop, SetStack
<1>2. IsValue(Fn)
  BY ScalarIsValue DEF Scalars
<1> QED BY <1>1, <1>2, ReplaceIs

(* A built-in operation.                                                    *)
LEMMA NativeIs ==
  ASSUME CallInv, Native
  PROVE  Implements
<1>1. PICK n \in 1..3, r \in Pushed \cap Scalars : Takes(n) /\ SetStack(Append(Dropped(n), r)) /\ Local
  BY DEF Native
<1>2. n \in Nat /\ IsValue(r) /\ stack' = Append(Dropped(n), r)
  BY <1>1, ScalarIsValue DEF SetStack
<1> QED BY <1>1, <1>2, ReplaceIs

(* A method that is looked up.                                              *)
LEMMA GetAttrIs ==
  ASSUME CallInv, GetAttr
  PROVE  Implements
<1> PICK v : v = Method(Instance)
  OBVIOUS
<1>1. 1 \in Nat /\ Takes(1) /\ Local /\ stack' = Append(Dropped(1), v)
  BY DEF GetAttr, SetStack
<1>2. IsValue(v)
  BY CollectionsAreValues
<1> QED BY <1>1, <1>2, ReplaceIs

(* OP_SET_LOCAL, which leaves the instance under construction where it is. *)
LEMMA SetLocalIs ==
  ASSUME ~AssignSelf, CallInv, SetLocal
  PROVE  Implements
<1>1. PICK s \in frame.slots..sp : (s # frame.slots \/ ~frame.isCtor) /\ stack' = [stack EXCEPT ![s] = PEEK(0)]
  BY DEF SetLocal
<1>2. Takes(1) /\ 1 \in Nat /\ Local
  BY DEF SetLocal
<1> PICK L : L = Len(chain)
  OBVIOUS
<1> PICK z : z = Slots(L)
  OBVIOUS
<1> PICK t : t = sp
  OBVIOUS
<1>3. /\ Running /\ t \in Nat /\ t >= 1 /\ t - 1 >= Floor(L) /\ IsSeq(stack) /\ Len(stack) = t
      /\ \A i \in 1..t : IsValue(stack[i])
  <2> PICK b : b = sp - 1
    OBVIOUS
  <2>1. /\ Running /\ sp \in Nat /\ b \in Nat /\ Floor(L) <= b
        /\ IsSeq(stack) /\ Len(stack) = sp /\ \A i \in 1..sp : IsValue(stack[i])
    BY <1>2, PlaceFacts
  <2>2. t \in Nat /\ t >= 1 /\ t - 1 = b
    BY <2>1
  <2> QED BY <2>1, <2>2
<1>4. /\ L \in 1..L /\ FrameInv(L) /\ frame = frames[chain[L]] /\ z = frame.slots
      /\ z \in Nat /\ z >= 1 /\ Floor(L) \in Nat
  <2>1. L \in 1..L /\ frame = frames[chain[L]]
    BY <1>3, RunFacts
  <2>2. FrameInv(L) /\ Floor(L) \in Nat
    BY <1>3, <2>1, RunFacts
  <2> QED BY <2>1, <2>2 DEF FrameInv, Slots
<1>5. s \in z..t /\ s \in 1..t
  BY <1>1, <1>3, <1>4
<1> PICK v : v = PEEK(0)
  OBVIOUS
<1>6. IsValue(v)
  <2>1. v = stack[t] /\ t \in 1..t
    <3>1. sp - 0 = t
      BY <1>3
    <3> QED BY <1>3, <3>1 DEF PEEK
  <2> QED BY <1>3, <2>1
<1> PICK q : q = [stack EXCEPT ![s] = v]
  OBVIOUS
<1>7. IsSeq(q) /\ Len(q) = t /\ \A i \in 1..t : q[i] = IF i = s THEN v ELSE stack[i]
  <2>1. stack = [i \in 1..t |-> stack[i]]
    BY <1>3, SeqFacts
  <2>2. q = [i \in 1..t |-> IF i = s THEN v ELSE stack[i]]
    BY <1>5, <2>1
  <2>3. q = [i \in 1..t |-> q[i]]
    BY <2>2
  <2>4. IsSeq(q) /\ Len(q) = t
    BY <1>3, <2>3, SeqIs
  <2> QED BY <2>2, <2>4
<1>8. stack' = q
  BY <1>1
<1>9. UNCHANGED <<proto, chain, frames>> /\ defaults' = defaults
  BY <1>2 DEF Local, program
<1>10. /\ IsSeq(stack') /\ Len(stack') >= Floor(L)
       /\ \A i \in 1..Len(stack') : IsValue(stack'[i])
  BY <1>3, <1>4, <1>6, <1>7, <1>8
<1>11. \A i \in 1..z - 1 : stack'[i] = stack[i]
  <2>1. \A i \in 1..z - 1 : i \in 1..t /\ i # s
    BY <1>3, <1>4, <1>5
  <2> QED BY <1>7, <1>8, <2>1
<1>12. ASSUME frames[chain[L]].isCtor PROVE stack'[z] = Instance
  <2>1. s # z /\ stack[z] = Instance
    BY <1>1, <1>4, <1>12 DEF FrameInv
  <2>2. z \in 1..t
    BY <1>3, <1>4, <1>5
  <2> QED BY <1>7, <1>8, <2>1, <2>2
<1>13. Works
  BY <1>9, <1>10, <1>11, <1>12 DEF Works
<1> QED BY <1>3, <1>9, <1>13, WorkImplements

----------------------------------------------------------------------------
(* The function is made. *)

(* A sequence with one more element than another one. *)
LEMMA SnocIs ==
  ASSUME NEW s, IsSeq(s), NEW t, IsSeq(t), Len(t) = Len(s) + 1, \A i \in 1..Len(s) : t[i] = s[i],
         NEW x, t[Len(s) + 1] = x
  PROVE  t = Append(s, x)
<1> PICK r : r = Append(s, x)
  OBVIOUS
<1> PICK n : n = Len(s)
  OBVIOUS
<1>0. n \in Nat
  BY SeqFacts
<1>1. IsAdd(r, s, x)
  BY Add
<1>2. IsSeq(r) /\ Len(r) = n + 1 /\ r[n + 1] = x /\ \A i \in 1..n : r[i] = s[i]
  BY <1>1 DEF IsAdd
<1>3. \A i \in 1..Len(t) : t[i] = r[i]
  <2> SUFFICES ASSUME NEW i \in 1..Len(t) PROVE t[i] = r[i]
    OBVIOUS
  <2>1. i \in 1..n \/ i = n + 1
    BY <1>0
  <2> QED BY <1>2, <2>1
<1>4. Len(t) = Len(r)
  BY <1>2
<1> QED BY <1>2, <1>3, <1>4, SeqEq

(* The operands, when one is pushed: the stack t is s up to n and has one   *)
(* more. *)
Longer(s, t, z, n, m) ==
  /\ IsSeq(s) /\ IsSeq(t) /\ z \in Nat /\ n \in Nat /\ 1 <= z /\ z <= m /\ m = n + 1
  /\ n <= Len(s) /\ Len(t) = m /\ \A i \in 1..n : t[i] = s[i]

OneMore(s, t, z, n, m) == SubSeq(t, z, m) = Append(SubSeq(s, z, n), t[m])

LEMMA SubSnoc ==
  ASSUME NEW s, NEW t, NEW z, NEW n, NEW m, Longer(s, t, z, n, m)
  PROVE  OneMore(s, t, z, n, m)
<1>0. /\ IsSeq(s) /\ IsSeq(t) /\ z \in Nat /\ n \in Nat /\ 1 <= z /\ z <= m /\ m = n + 1
      /\ n <= Len(s) /\ Len(t) = m /\ \A i \in 1..n : t[i] = s[i]
  BY DEF Longer
<1> USE <1>0
<1> PICK p : p = SubSeq(s, z, n)
  OBVIOUS
<1> PICK q : q = SubSeq(t, z, m)
  OBVIOUS
<1>1. IsSub(p, s, z, n)
  BY Sub
<1>2. IsSub(q, t, z, m)
  <2>1. z \in Int /\ m \in Int /\ 1 <= z /\ z <= m + 1 /\ m <= Len(t)
    OBVIOUS
  <2> QED BY <2>1, Sub
<1>3. IsSeq(p) /\ Len(p) = n - z + 1 /\ \A i \in 1..n - z + 1 : p[i] = s[z + i - 1]
  BY <1>1 DEF IsSub
<1>4. IsSeq(q) /\ Len(q) = m - z + 1 /\ \A i \in 1..m - z + 1 : q[i] = t[z + i - 1]
  BY <1>2 DEF IsSub
<1> PICK e : e = n - z + 1
  OBVIOUS
<1>5. e \in Nat /\ m - z + 1 = e + 1 /\ z + (e + 1) - 1 = m /\ e + 1 \in 1..m - z + 1
  OBVIOUS
<1>6. \A i \in 1..e : q[i] = p[i]
  <2> SUFFICES ASSUME NEW i \in 1..e PROVE q[i] = p[i]
    OBVIOUS
  <2>1. i \in 1..m - z + 1 /\ i \in 1..n - z + 1 /\ z + i - 1 \in 1..n
    BY <1>5
  <2> QED BY <1>3, <1>4, <2>1
<1>7. q[e + 1] = t[m]
  BY <1>4, <1>5
<1>8. Len(p) = e /\ Len(q) = e + 1
  BY <1>3, <1>4, <1>5
<1>9. q = Append(p, t[m])
  BY <1>3, <1>4, <1>6, <1>7, <1>8, SnocIs
<1> QED BY <1>9 DEF OneMore

(* A sequence of scalars, reversed.                                         *)
LEMMA ReversedIn ==
  ASSUME NEW s, IsSeq(s), Range(s) \subseteq Scalars
  PROVE  Reverse(s) \in Seq(Scalars) /\ Len(Reverse(s)) = Len(s)
<1>1. Len(s) \in Nat /\ DOMAIN s = 1..Len(s)
  BY SeqFacts
<1>2. \A i \in 1..Len(s) : s[i] \in Scalars
  BY <1>1 DEF Range
<1> PICK r : r = Reverse(s)
  OBVIOUS
<1>3. IsSeq(r) /\ Len(r) = Len(s) /\ \A i \in 1..Len(s) : r[i] = s[Len(s) - i + 1]
  BY ReverseFacts
<1>4. \A i \in 1..Len(s) : Len(s) - i + 1 \in 1..Len(s)
  BY <1>1
<1>5. \A i \in 1..Len(r) : r[i] \in Scalars
  BY <1>2, <1>3, <1>4
<1>6. r = [i \in 1..Len(r) |-> r[i]] /\ Len(r) \in Nat
  BY <1>1, <1>3, SeqFacts
<1>7. r \in Seq(Scalars)
  BY <1>5, <1>6
<1> QED BY <1>3, <1>7

(* k operands taken off and one pushed, as the frame with its slots at z    *)
(* has them. *)
Replaced(s, q, z, t, b, k, v) ==
  LET ops == SubSeq(s, z, t)
      rest == Len(ops) - k IN
  /\ IsSeq(ops) /\ rest \in Nat /\ rest >= 0
  /\ SubSeq(ops, rest + 1, Len(ops)) = SubSeq(s, t - k + 1, t)
  /\ SubSeq(q, z, b + 1) = Append(SubSeq(ops, 1, rest), v)

(* The operands of the frame are the first rest ones and the one pushed.    *)
LEMMA ReplacedFacts ==
  ASSUME NEW k \in Nat, NEW b \in Nat, NEW t \in Nat, b = t - k,
         NEW z \in Nat, z >= 1, z - 1 <= b,
         NEW s, IsSeq(s), Len(s) = t,
         NEW q, IsSeq(q), Len(q) = b + 1, \A i \in 1..b : q[i] = s[i], NEW v, q[b + 1] = v
  PROVE  Replaced(s, q, z, t, b, k, v)
<1> PICK rest : rest = b - z + 1
  OBVIOUS
<1> PICK e : e = t - z + 1
  OBVIOUS
<1> PICK m : m = rest + 1
  OBVIOUS
<1> PICK a : a = b + 1
  OBVIOUS
<1>1. rest \in Nat /\ e \in Nat /\ rest = e - k /\ rest <= e /\ a = t - k + 1
  OBVIOUS
<1>2. /\ z \in Int /\ t \in Int /\ 1 <= z /\ z <= t + 1 /\ t <= Len(s)
      /\ 1 \in Int /\ rest \in Int /\ 1 <= 1 /\ 1 <= rest + 1 /\ rest <= t - z + 1
      /\ z = z + 1 - 1 /\ b = z + rest - 1
  BY <1>1
<1>3. /\ m \in Int /\ e \in Int /\ 1 <= m /\ m <= e + 1 /\ e <= t - z + 1
      /\ a = z + m - 1 /\ t = z + e - 1
  BY <1>1
<1>4. 1 <= z /\ z <= b + 1 /\ b <= Len(s)
  OBVIOUS
<1> PICK ops : ops = SubSeq(s, z, t)
  OBVIOUS
<1>5. IsSub(ops, s, z, t)
  BY <1>2, Sub
<1>6. IsSeq(ops) /\ Len(ops) = e
  BY <1>5 DEF IsSub
<1>7. SubSeq(ops, 1, rest) = SubSeq(s, z, b)
  BY <1>2, SubSub
<1>8. SubSeq(ops, m, e) = SubSeq(s, a, t)
  BY <1>2, <1>3, SubSub
<1>9. SubSeq(q, z, b + 1) = Append(SubSeq(s, z, b), q[b + 1])
  <2>1. Longer(s, q, z, b, a)
    BY <1>1, <1>4 DEF Longer
  <2>2. OneMore(s, q, z, b, a)
    BY <2>1, SubSnoc
  <2>3. SubSeq(q, z, a) = Append(SubSeq(s, z, b), q[a])
    BY <2>2 DEF OneMore
  <2> QED BY <2>3
<1> QED BY <1>1, <1>6, <1>7, <1>8, <1>9 DEF Replaced

(* OP_MAKE_FUNC makes the function of MsActivations: the defaults, which it *)
(* keeps in the reverse order, are the last operands.                       *)
LEMMA MakeIs ==
  ASSUME CallInv, MakeFunc
  PROVE  StackInv' /\ ProgramInv' /\ Activations!Make
<1> PICK k : k = defaultCount(proto)
  OBVIOUS
<1> PICK b : b = sp - k
  OBVIOUS
<1> PICK t : t = sp
  OBVIOUS
<1> PICK L : L = Len(chain)
  OBVIOUS
<1> PICK z : z = Slots(L)
  OBVIOUS
<1> PICK low : low = Dropped(k)
  OBVIOUS
<1>1. /\ Takes(k) /\ Range(Args(k)) \subseteq Scalars /\ defaults' = Reverse(Args(k))
      /\ stack' = Append(low, Fn) /\ UNCHANGED <<proto, chain, frames>>
  BY DEF MakeFunc, Popped, SetStack
<1>2. k \in Nat /\ proto \in Signatures
  BY ProtoFacts DEF CallInv, ProgramInv
<1>3. /\ Running /\ t \in Nat /\ b \in Nat /\ b = t - k /\ Floor(L) <= b
      /\ IsSeq(stack) /\ Len(stack) = t
      /\ \A i \in 1..t : IsValue(stack[i])
  BY <1>1, <1>2, PlaceFacts
<1>4. IsSeq(low) /\ Len(low) = b /\ \A i \in 1..b : low[i] = stack[i] /\ IsValue(low[i])
  BY <1>1, <1>2, ArgsFacts
<1>5. /\ L \in Nat /\ L >= 1 /\ L \in 1..L /\ z \in Nat /\ z >= 1 /\ z - 1 <= b /\ Floor(L) \in Nat
  <2>1. L \in Nat /\ L >= 1
    BY <1>3, RunFacts
  <2>2. L \in 1..L
    BY <2>1
  <2>3. FrameInv(L) /\ z - 1 <= Floor(L) /\ Floor(L) \in Nat
    BY <1>3, <2>2, RunFacts
  <2>4. z \in Nat /\ z >= 1
    BY <2>3 DEF FrameInv
  <2> QED BY <1>3, <2>1, <2>2, <2>3, <2>4
<1>6. IsSeq(stack') /\ Len(stack') = b + 1 /\ stack'[b + 1] = Fn /\ \A i \in 1..b : stack'[i] = stack[i]
  <2>1. IsAdd(stack', low, Fn)
    <3>1. IsAdd(Append(low, Fn), low, Fn)
      BY <1>4, Add
    <3> QED BY <1>1, <3>1
  <2> QED BY <1>4, <2>1 DEF IsAdd
<1>7. Works
  <2>1. \A i \in 1..Len(stack') : IsValue(stack'[i])
    <3> SUFFICES ASSUME NEW i \in 1..Len(stack') PROVE IsValue(stack'[i])
      OBVIOUS
    <3>1. i \in 1..b \/ i = b + 1
      BY <1>3, <1>6
    <3>2. IsValue(Fn)
      BY ScalarIsValue DEF Scalars
    <3> QED BY <1>4, <1>6, <3>1, <3>2
  <2>2. b <= Len(stack') /\ Floor(Len(chain)) <= b
    BY <1>3, <1>6
  <2> QED BY <1>1, <1>3, <1>6, <2>1, <2>2, WorksAt
<1>8. StackInv'
  BY <1>3, <1>7, WorksKeeps
<1> PICK taken : taken = Args(k)
  OBVIOUS
<1>9. IsSeq(taken) /\ Len(taken) = k
  BY <1>1, <1>2, ArgsFacts
<1>10. defaults' \in Seq(Scalars) /\ Len(defaults') = k /\ Reverse(defaults') = taken
  <2>1. Reverse(taken) \in Seq(Scalars) /\ Len(Reverse(taken)) = Len(taken)
    BY <1>1, <1>9, ReversedIn
  <2>2. Reverse(Reverse(taken)) = taken
    BY <1>9, ReverseFacts
  <2> QED BY <1>1, <1>9, <2>1, <2>2
<1>11. ProgramInv'
  <2>1. defaultCount(proto') = k /\ proto' \in Signatures
    BY <1>1, <1>2
  <2> QED BY <1>10, <2>1 DEF ProgramInv
<1>12. InOrder' = taken
  <2>1. defaults' # NoDefaults
    BY <1>10, CallAssumption
  <2> QED BY <1>10, <2>1 DEF InOrder
<1> PICK ops : ops = SubSeq(stack, z, t)
  OBVIOUS
<1> PICK e : e = Len(ops)
  OBVIOUS
<1> PICK rest : rest = e - k
  OBVIOUS
<1>13. Replaced(stack, stack', z, t, b, k, Fn)
  BY <1>2, <1>3, <1>5, <1>6, ReplacedFacts
<1>14. /\ rest >= 0 /\ Len(ops) = e
       /\ SubSeq(ops, rest + 1, e) = SubSeq(stack, t - k + 1, t)
       /\ SubSeq(stack', z, b + 1) = Append(SubSeq(ops, 1, rest), Fn)
  BY <1>13 DEF Replaced
<1>17. SubSeq(ops, rest + 1, e) = taken
  BY <1>14 DEF Args
<1>18. SubSeq(stack', z, Len(stack')) = Append(SubSeq(ops, 1, rest), Fn)
  BY <1>6, <1>14
<1>19. /\ IsSeq(Shown) /\ Len(Shown) = L /\ IsSeq(Shown') /\ Len(Shown') = L
       /\ \A n \in 1..L - 1 : Shown'[n] = Shown[n]
       /\ Shown[L].operands = ops
       /\ Shown'[L] = [Shown[L] EXCEPT !.operands = Append(SubSeq(ops, 1, rest), Fn)]
  <2>1. /\ IsSeq(Shown) /\ Len(Shown) = Len(chain) /\ IsSeq(Shown') /\ Len(Shown') = Len(chain)
        /\ \A n \in 1..Len(chain) - 1 : Shown'[n] = Shown[n]
        /\ Shown[Len(chain)].operands = SubSeq(stack, Slots(Len(chain)), sp)
        /\ Shown'[Len(chain)] = [Shown[Len(chain)] EXCEPT !.operands = SubSeq(stack', Slots(Len(chain)), Len(stack'))]
    BY <1>3, <1>7, WorksShows
  <2>0. Slots(Len(chain)) = z
    BY DEF Slots
  <2>2. SubSeq(stack', Slots(Len(chain)), Len(stack')) = Append(SubSeq(ops, 1, rest), Fn)
    BY <1>18, <2>0
  <2> DEFINE old == SubSeq(stack', Slots(Len(chain)), Len(stack'))
             new == Append(SubSeq(ops, 1, rest), Fn)
             sh == Shown'
  <2> HIDE DEF old, new, sh
  <2>3. sh[Len(chain)] = [Shown[Len(chain)] EXCEPT !.operands = old] /\ old = new
    <3>1. Shown'[Len(chain)] = [Shown[Len(chain)] EXCEPT !.operands = SubSeq(stack', Slots(Len(chain)), Len(stack'))]
      BY <2>1
    <3>2. sh[Len(chain)] = [Shown[Len(chain)] EXCEPT !.operands = old]
      BY <3>1 DEF old, sh
    <3> QED BY <3>2, <2>2 DEF old, new
  <2>4. sh[L] = [Shown[L] EXCEPT !.operands = new]
    <3>1. sh[L] = [Shown[L] EXCEPT !.operands = old]
      BY <2>3
    <3> QED BY <2>3, <3>1
  <2>5. Shown[L].operands = ops
    <3>1. Shown[Len(chain)].operands = SubSeq(stack, Slots(Len(chain)), sp)
      BY <2>1
    <3> QED BY <2>0, <3>1
  <2>6. Len(Shown) = L /\ Len(sh) = L /\ \A n \in 1..L - 1 : sh[n] = Shown[n]
    BY <2>1 DEF sh
  <2> QED BY <2>1, <2>4, <2>5, <2>6 DEF sh, new
<1>20. Shown' = Append(Front(Shown), Shown'[L])
  <2>1. IsSeq(Front(Shown)) /\ Len(Front(Shown)) = L - 1 /\ \A i \in 1..L - 1 : Front(Shown)[i] = Shown[i]
    BY <1>5, <1>19, FrontIs
  <2> DEFINE f == Front(Shown)
             s == Shown'
  <2> HIDE DEF f, s
  <2>2. IsSeq(f) /\ Len(f) = L - 1 /\ \A i \in 1..L - 1 : s[i] = f[i]
    BY <1>19, <2>1 DEF f, s
  <2>3. IsSeq(s) /\ Len(s) = Len(f) + 1 /\ Len(f) + 1 = L
    BY <1>5, <1>19, <2>2 DEF s
  <2>4. s = Append(f, s[L])
    BY <2>2, <2>3, SnocIs
  <2> QED BY <2>4 DEF f, s
<1>21. Activations!this = Shown[L] /\ Activations!Callers = Front(Shown) /\ Shown # <<>>
  BY <1>5, <1>19, EmptyFacts, SameCallables DEF Activations!this, Activations!Callers
<1>22. Shown' = Append(Front(Shown), [Shown[L] EXCEPT !.operands = Append(SubSeq(@, 1, rest), Fn)])
  <2>1. Shown'[L] = [Shown[L] EXCEPT !.operands = Append(SubSeq(@, 1, rest), Fn)]
    BY <1>19
  <2> QED BY <1>20, <2>1
<1>23. Activations!Make
  <2>1. Len(Activations!this.operands) = e /\ Activations!defaultCount(proto) = k
    BY <1>14, <1>19, <1>21, SameCallables
  <2>2. InOrder' = SubSeq(Activations!this.operands, rest + 1, Len(Activations!this.operands))
    BY <1>12, <1>17, <1>19, <1>21, <2>1
  <2>3. Shown' = Append(Activations!Callers, [Activations!this EXCEPT !.operands = Append(SubSeq(@, 1, rest), Fn)])
    BY <1>21, <1>22
  <2>4. Len(Activations!this.operands) - Activations!defaultCount(proto) = rest /\ rest >= 0
    BY <1>14, <2>1
  <2> QED BY <1>1, <1>21, <2>2, <2>3, <2>4 DEF Activations!Make
<1> QED BY <1>8, <1>11, <1>23

----------------------------------------------------------------------------
(* Where a run starts and ends. *)

LEMMA NothingShown ==
  /\ chain = <<>> => Shown = <<>>
  /\ chain' = <<>> => Shown' = <<>>
<1>1. Len(<<>>) \in Nat /\ Len(<<>>) = 0 /\ 1..0 = {}
  OBVIOUS
<1>2. ASSUME chain = <<>> PROVE Shown = <<>>
  <2>1. IsSeq(Shown) /\ Len(Shown) = 0
    BY <1>1, <1>2, ShownFacts
  <2> QED BY <1>1, <2>1, EmptyFacts, SeqEq
<1>3. ASSUME chain' = <<>> PROVE Shown' = <<>>
  <2> DEFINE s == Shown'
  <2> HIDE DEF s
  <2>1. IsSeq(s) /\ Len(s) = 0
    BY <1>1, <1>3, NextShownFacts DEF s
  <2>2. s = <<>>
    BY <1>1, <2>1, EmptyFacts, SeqEq
  <2> QED BY <2>2 DEF s
<1> QED BY <1>2, <1>3

(* msVMRun starts with one activation, whatever the last run left.          *)
LEMMA StartIs ==
  ASSUME CallInv, msVMRun
  PROVE  StackInv' /\ Activations!Start
<1>1. /\ chain = <<>> /\ stack' = <<Nil>> /\ chain' = <<TopLevel>>
      /\ frames' = [frames EXCEPT ![TopLevel] = Called(@, 2, "plain")]
      /\ proto' = proto /\ defaults' = defaults
  BY DEF msVMRun, Running, program
<1>2. Len(chain') = 1 /\ chain'[1] = TopLevel /\ IsSeq(stack') /\ Len(stack') = 1 /\ stack'[1] = Nil
  BY <1>1, PairFacts
<1>3. IsFrame(frames[TopLevel]) /\ frames'[TopLevel] = Called(frames[TopLevel], 2, "plain")
  <2>1. TopLevel \in Addresses
    BY DEF Addresses
  <2>2. frames = [a \in Addresses |-> frames[a]] /\ IsFrame(frames[TopLevel])
    BY <2>1 DEF CallInv, FlagsInv, FramesOK
  <2> QED BY <1>1, <2>1, <2>2
<1> PICK f : f = frames'[chain'[1]]
  OBVIOUS
<1>4. f.slots = 2 /\ ~f.isCtor /\ ~f.forIterPending /\ f.new = Nothing /\ Waits(f) = "push"
  <2> PICK g : g = Called(frames[TopLevel], 2, "plain")
    OBVIOUS
  <2>1. /\ g.slots = 2 /\ g.isCtor = ("plain" = "ctor") /\ ~g.forIterPending
        /\ g.new = (IF "plain" = "ctor" THEN Instance ELSE Nothing) /\ Waits(g) = "push"
    BY <1>3, CalledFields
  <2>2. ~("plain" = "ctor")
    OBVIOUS
  <2>3. f = g
    BY <1>2, <1>3
  <2> QED BY <2>1, <2>2, <2>3
<1>5. Slots(1)' = 2 /\ Top(1)' = 1 /\ Floor(1)' = 1
  BY <1>2, <1>4 DEF Slots, Top, Floor, sp
<1>6. FrameInv(1)'
  BY <1>4, <1>5 DEF FrameInv
<1>7. StackInv'
  <2>1. \A n \in Depths' : n = 1
    BY <1>2 DEF Depths
  <2>2. IsValue(Nil)
    BY ScalarIsValue DEF Scalars
  <2>3. \A i \in 1..Len(stack') : IsValue(stack'[i])
    BY <1>2, <2>2
  <2>4. \A n \in Depths' : FrameInv(n)'
    BY <1>6, <2>1
  <2> QED BY <1>2, <2>3, <2>4 DEF StackInv, sp
<1>8. Shown' = <<Activations!Activation(<<>>, "push", Nothing)>>
  <2> DEFINE s == Shown'
             x == [operands |-> <<>>, waits |-> "push", gives |-> Nothing]
  <2>1. SubSeq(stack', 2, 1) = <<>>
    BY <1>2, SubEmpty
  <2>2. Act(1)' = [operands |-> SubSeq(stack', Slots(1)', Top(1)'), waits |-> Waits(f), gives |-> f.new]
    BY DEF Act, Waits
  <2>3. Act(1)' = x
    BY <1>4, <1>5, <2>1, <2>2
  <2>4. IsSeq(Shown') /\ Len(Shown') = 1 /\ Shown'[1] = Act(1)'
    <3>1. Len(chain') \in Nat /\ 1 \in 1..Len(chain')
      BY <1>2
    <3> QED BY <1>2, <3>1, NextShownFacts
  <2>5. Activations!Activation(<<>>, "push", Nothing) = x
    BY DEF Activations!Activation
  <2> HIDE DEF s, x
  <2>6. IsSeq(s) /\ Len(s) = 1 /\ s[1] = x
    BY <2>3, <2>4 DEF s
  <2>7. s = <<x>>
    <3>1. \A i \in 1..1 : i = 1
      OBVIOUS
    <3>2. IsSeq(<<x>>) /\ Len(<<x>>) = 1 /\ <<x>>[1] = x
      BY PairFacts
    <3>3. \A i \in 1..Len(s) : s[i] = <<x>>[i]
      BY <2>6, <3>1, <3>2
    <3> QED BY <2>6, <3>2, <3>3, SeqEq
  <2> QED BY <2>5, <2>7 DEF s
<1>9. Shown = <<>>
  BY <1>1, NothingShown
<1> QED BY <1>1, <1>7, <1>8, <1>9 DEF Activations!Start, InOrder

(* The end of a run leaves no activation.                                   *)
LEMMA StopIs ==
  ASSUME Stop
  PROVE  StackInv' /\ Activations!Fail
<1>1. stack' = <<>> /\ chain' = <<>> /\ proto' = proto /\ defaults' = defaults
  BY DEF Stop, program
<1>2. Len(stack') = 0 /\ Len(chain') = 0 /\ 1..0 = {} /\ IsSeq(stack')
  BY <1>1, EmptyFacts
<1>3. StackInv'
  BY <1>2 DEF StackInv, Depths, sp
<1>4. Shown' = <<>>
  BY <1>1, NothingShown
<1> QED BY <1>1, <1>3, <1>4 DEF Activations!Fail, InOrder

----------------------------------------------------------------------------
(* A return. *)

(* What it makes of the frames: the M-th one goes on. *)
FramesLeft(M) ==
  /\ Len(chain') = M
  /\ \A n \in 1..M : chain'[n] = chain[n]
  /\ \A n \in 1..M - 1 : frames'[chain'[n]] = frames[chain[n]]
  /\ frames'[chain'[M]] = Resumed(frames[chain[M]])
  /\ proto' = proto /\ defaults' = defaults

(* The frames of a return are these.                                        *)
LEMMA LeaveFrames ==
  ASSUME CallInv, Running, NEW value, LeaveFrame(value), NEW M, M = Len(chain) - 1
  PROVE  M \in Nat /\ M >= 1 /\ FramesLeft(M)
<1> PICK L : L = Len(chain)
  OBVIOUS
<1>1. /\ L \in Nat /\ L >= 1 /\ topFrame = chain[L] /\ L # 1
      /\ \A n \in 1..L : chain[n] \in Addresses
  BY RunFacts DEF LeaveFrame
<1>2. M \in Nat /\ M >= 1 /\ M = L - 1 /\ L \in 1..L /\ M \in 1..L
  BY <1>1
<1>3. chain \in Seq(Addresses) /\ chain # <<>>
  BY DEF CallInv, FlagsInv, PoolInv, PoolTypeOK, Running
<1>4. Len(Front(chain)) = M /\ \A n \in 1..M : Front(chain)[n] = chain[n]
  BY <1>2, <1>3, FrontFacts
<1>5. /\ chain' = Front(chain) /\ proto' = proto /\ defaults' = defaults
      /\ frames' = [frames EXCEPT ![chain[M]] = Resumed(@), ![topFrame] = Unused(@)]
  BY <1>2 DEF LeaveFrame, program
<1>6. \A i, j \in 1..L : i < j => chain[i] # chain[j]
  BY DEF CallInv, FlagsInv, PoolInv, PoolIsStack, NoFrameTwice, Depths
<1>7. frames = [a \in Addresses |-> frames[a]]
  BY DEF CallInv, FlagsInv, FramesOK
<1>8. chain[M] # topFrame /\ chain[M] \in Addresses /\ topFrame \in Addresses
  BY <1>1, <1>2, <1>6
<1>9. frames' = [a \in Addresses |-> IF a = topFrame THEN Unused(frames[a])
                                     ELSE IF a = chain[M] THEN Resumed(frames[a]) ELSE frames[a]]
  BY <1>5, <1>7, <1>8
<1>10. frames'[chain[M]] = Resumed(frames[chain[M]])
  BY <1>8, <1>9
<1>11. \A n \in 1..M - 1 : frames'[chain[n]] = frames[chain[n]]
  <2> SUFFICES ASSUME NEW n \in 1..M - 1 PROVE frames'[chain[n]] = frames[chain[n]]
    OBVIOUS
  <2>1. n \in 1..L /\ n < M /\ n < L
    BY <1>2
  <2>2. chain[n] # chain[M] /\ chain[n] # topFrame /\ chain[n] \in Addresses
    BY <1>1, <1>2, <1>6, <2>1
  <2> QED BY <1>9, <2>2
<1>12. \A n \in 1..M - 1 : n \in 1..M
  BY <1>2
<1>13. M \in 1..M
  BY <1>2
<1> QED BY <1>2, <1>4, <1>5, <1>10, <1>11, <1>12, <1>13 DEF FramesLeft

(* Where that leaves the operands. *)
LEMMA LeavePlaces ==
  ASSUME CallInv, Running, NEW M \in Nat, M >= 1, M = Len(chain) - 1, FramesLeft(M)
  PROVE  /\ \A n \in 1..M : Slots(n)' = Slots(n) /\ Floor(n)' = Floor(n)
         /\ \A n \in 1..M - 1 : Top(n)' = Top(n)
         /\ Top(M)' = Len(stack')
<1> PICK L : L = Len(chain)
  OBVIOUS
<1>1. /\ L \in Nat /\ L = M + 1 /\ Len(chain') = M /\ ParamCount(proto') = ParamCount(proto)
      /\ \A n \in 1..L : IsFrame(frames[chain[n]])
  BY RunFacts DEF FramesLeft
<1>2. \A n \in 1..M : n \in 1..L /\ (n = M \/ n \in 1..M - 1)
  BY <1>1
<1>3. \A n \in 1..M : /\ frames'[chain'[n]].slots = frames[chain[n]].slots
                      /\ frames'[chain'[n]].isCtor = frames[chain[n]].isCtor
                      /\ frames'[chain'[n]].boundCall = frames[chain[n]].boundCall
  <2> SUFFICES ASSUME NEW n \in 1..M
               PROVE  /\ frames'[chain'[n]].slots = frames[chain[n]].slots
                      /\ frames'[chain'[n]].isCtor = frames[chain[n]].isCtor
                      /\ frames'[chain'[n]].boundCall = frames[chain[n]].boundCall
    OBVIOUS
  <2>1. IsFrame(frames[chain[n]])
    BY <1>1, <1>2
  <2>2. frames'[chain'[n]] = frames[chain[n]] \/ frames'[chain'[n]] = Resumed(frames[chain[n]])
    BY <1>2 DEF FramesLeft
  <2> QED BY <2>1, <2>2, ResumedFields
<1>4. \A n \in 1..M : Slots(n)' = Slots(n)
  BY <1>3 DEF Slots
<1>5. \A n \in 1..M : Floor(n)' = Floor(n)
  <2> SUFFICES ASSUME NEW n \in 1..M PROVE Floor(n)' = Floor(n)
    OBVIOUS
  <2>1. frames'[chain'[n]].slots = frames[chain[n]].slots
    BY <1>3
  <2> QED BY <1>1, <2>1 DEF Floor, Slots
<1>6. Top(M)' = Len(stack')
  BY <1>1 DEF Top, sp
<1>7. ASSUME NEW n \in 1..M - 1 PROVE Top(n)' = Top(n)
  <2>1. n # M /\ n # L /\ n + 1 \in 1..M
    BY <1>1
  <2> PICK m : m = n + 1
    OBVIOUS
  <2>2. Base(frames'[chain'[m]]) = Base(frames[chain[m]])
    BY <1>3, <2>1 DEF Base
  <2>3. Top(n)' = Base(frames'[chain'[m]]) - 1
    BY <1>1, <2>1 DEF Top, Base
  <2>4. Top(n) = Base(frames[chain[m]]) - 1
    BY <2>1 DEF Top
  <2> QED BY <2>2, <2>3, <2>4
<1> QED BY <1>4, <1>5, <1>6, <1>7

(* The operands of the caller up to m stay. *)
LeftAt(M, m) ==
  /\ IsSeq(stack') /\ \A i \in 1..Len(stack') : IsValue(stack'[i])
  /\ m \in Nat /\ Floor(M) <= m /\ m <= Top(M) /\ m <= Len(stack')
  /\ \A i \in 1..m : stack'[i] = stack[i]

(* A return keeps the invariant of the stack.                               *)
LEMMA LeaveKeeps ==
  ASSUME CallInv, Running, NEW M \in Nat, M >= 1, M = Len(chain) - 1, FramesLeft(M), NEW m, LeftAt(M, m)
  PROVE  StackInv'
<1> PICK L : L = Len(chain)
  OBVIOUS
<1>1. /\ L \in Nat /\ L = M + 1 /\ Len(chain') = M /\ proto' = proto /\ ParamCount(proto) \in Nat
      /\ \A n \in 1..L : /\ FrameInv(n) /\ Floor(n) \in Nat /\ Top(n) \in Nat /\ Slots(n) - 1 <= Floor(n)
                         /\ IsFrame(frames[chain[n]])
  BY RunFacts DEF FramesLeft
<1>2. /\ \A n \in 1..M : Slots(n)' = Slots(n) /\ Floor(n)' = Floor(n)
      /\ \A n \in 1..M - 1 : Top(n)' = Top(n)
      /\ Top(M)' = Len(stack')
  BY LeavePlaces
<1> PICK t : t = Len(stack')
  OBVIOUS
<1>3. /\ IsSeq(stack') /\ t \in Nat /\ m \in Nat /\ Floor(M) <= m /\ m <= Top(M) /\ m <= t
      /\ \A i \in 1..m : stack'[i] = stack[i]
      /\ \A i \in 1..t : IsValue(stack'[i])
  BY SeqFacts DEF LeftAt
<1>4. ASSUME NEW n \in 1..M PROVE FrameInv(n)'
  <2>1. n \in 1..L /\ M \in 1..L /\ n <= M /\ (n = M \/ (n \in 1..M - 1 /\ n < M))
    BY <1>1
  <2>2. FrameInv(n) /\ Floor(n) \in Nat /\ Top(n) \in Nat /\ IsFrame(frames[chain[n]]) /\ Slots(n) - 1 <= Floor(n)
        /\ Slots(n)' = Slots(n) /\ Floor(n)' = Floor(n)
    BY <1>1, <1>2, <2>1
  <2> PICK f : f = frames[chain[n]]
    OBVIOUS
  <2> PICK g : g = frames'[chain'[n]]
    OBVIOUS
  <2>3. /\ g.isCtor = f.isCtor /\ g.new = f.new
        /\ g.forIterPending => n < M /\ f.forIterPending
    <3>1. CASE n = M
      <4>1. g = Resumed(f) /\ IsFrame(f)
        BY <2>2, <3>1 DEF FramesLeft
      <4> QED BY <4>1, ResumedFields
    <3>2. CASE n \in 1..M - 1 /\ n < M
      BY <3>2 DEF FramesLeft
    <3> QED BY <2>1, <3>1, <3>2
  <2>4. /\ Slots(n) \in Nat /\ Slots(n) >= 1
        /\ f.new = IF f.isCtor THEN Instance ELSE Nothing
        /\ Floor(n) <= Top(n)
        /\ f.forIterPending => Floor(n) < Top(n)
        /\ f.isCtor => n # 1 /\ ParamCount(proto) >= 1 /\ stack[Slots(n)] = Instance
        /\ \A i \in 1..n - 1 : Top(i) < Slots(n)
    BY <2>2 DEF FrameInv
  <2>5. Floor(n) <= m
    <3>1. CASE n = M
      BY <1>3, <3>1
    <3>2. CASE n \in 1..M - 1 /\ n < M
      <4>1. FrameInv(M) /\ Slots(M) - 1 <= Floor(M) /\ Floor(M) \in Nat
        BY <1>1, <2>1
      <4>2. n \in 1..M - 1 /\ Slots(M) \in Nat /\ Top(n) < Slots(M)
        BY <3>2, <4>1 DEF FrameInv
      <4> QED BY <1>3, <2>2, <2>4, <4>1, <4>2, SMTT(30)
    <3> QED BY <2>1, <3>1, <3>2
  <2>6. Floor(n)' <= Top(n)' /\ (g.forIterPending => Floor(n)' < Top(n)')
    <3>1. CASE n = M
      <4>1. Top(n)' = t
        BY <1>2, <3>1
      <4>2. ~g.forIterPending
        BY <2>3, <3>1
      <4> QED BY <1>3, <2>2, <2>5, <4>1, <4>2
    <3>2. CASE n \in 1..M - 1 /\ n < M
      <4>1. Top(n)' = Top(n)
        BY <1>2, <3>2
      <4> QED BY <2>2, <2>3, <2>4, <4>1
    <3> QED BY <2>1, <3>1, <3>2
  <2>7. g.isCtor => n # 1 /\ ParamCount(proto') >= 1 /\ stack'[Slots(n)] = Instance
    <3> SUFFICES ASSUME f.isCtor PROVE n # 1 /\ ParamCount(proto') >= 1 /\ stack'[Slots(n)] = Instance
      BY <2>3
    <3>1. n # 1 /\ ParamCount(proto) >= 1 /\ stack[Slots(n)] = Instance
      BY <2>4
    <3>2. Floor(n) = Slots(n) - 1 + ParamCount(proto)
      BY <3>1 DEF Floor
    <3> PICK z : z = Slots(n)
      OBVIOUS
    <3>3. z \in 1..m
      BY <1>1, <1>3, <2>2, <2>4, <2>5, <3>1, <3>2, SMTT(30)
    <3>4. stack'[z] = stack[z]
      BY <1>3, <3>3
    <3> QED BY <1>1, <3>1, <3>4
  <2>8. \A i \in 1..n - 1 : Top(i)' < Slots(n)'
    <3> SUFFICES ASSUME NEW i \in 1..n - 1 PROVE Top(i)' < Slots(n)'
      OBVIOUS
    <3>1. i \in 1..M - 1
      BY <2>1
    <3> QED BY <1>2, <2>2, <2>4, <3>1
  <2>9. g.new = IF g.isCtor THEN Instance ELSE Nothing
    BY <2>3, <2>4
  <2>10. Slots(n)' \in Nat /\ Slots(n)' >= 1
    BY <2>2, <2>4
  <2>11. g.isCtor => n # 1 /\ ParamCount(proto') >= 1 /\ stack'[Slots(n)'] = Instance
    BY <2>2, <2>7
  <2> QED BY <2>6, <2>8, <2>9, <2>10, <2>11 DEF FrameInv
<1>5. Depths' = 1..M
  BY <1>1 DEF Depths
<1> QED BY <1>3, <1>4, <1>5 DEF StackInv, sp

(* The activations that are left: the caller has the operands q, and waits  *)
(* no more. *)
ShownLeft(M, q) ==
  /\ IsSeq(Shown) /\ Len(Shown) = M + 1 /\ IsSeq(Shown') /\ Len(Shown') = M
  /\ \A n \in 1..M - 1 : Shown'[n] = Shown[n]
  /\ Shown[M] = [operands |-> SubSeq(stack, Slots(M), Top(M)), waits |-> Waits(frames[chain[M]]),
                 gives |-> frames[chain[M]].new]
  /\ Shown'[M] = [operands |-> q, waits |-> "push", gives |-> frames[chain[M]].new]

(* A return shows the activations below it, the last one with new operands. *)
LEMMA LeaveShows ==
  ASSUME CallInv, Running, NEW M \in Nat, M >= 1, M = Len(chain) - 1, FramesLeft(M), NEW m, LeftAt(M, m),
         NEW q, q = SubSeq(stack', Slots(M), Len(stack'))
  PROVE  ShownLeft(M, q)
<1> PICK L : L = Len(chain)
  OBVIOUS
<1>1. /\ L \in Nat /\ L = M + 1 /\ Len(chain') = M /\ IsSeq(stack)
      /\ \A n \in 1..L : /\ FrameInv(n) /\ Floor(n) \in Nat /\ Top(n) \in Nat /\ Slots(n) - 1 <= Floor(n)
                         /\ IsFrame(frames[chain[n]]) /\ Top(n) <= sp
  BY RunFacts DEF FramesLeft, CallInv, StackInv
<1>2. /\ \A n \in 1..M : Slots(n)' = Slots(n)
      /\ \A n \in 1..M - 1 : Top(n)' = Top(n)
      /\ Top(M)' = Len(stack')
  BY LeavePlaces
<1>3. /\ IsSeq(Shown) /\ Len(Shown) = M + 1 /\ IsSeq(Shown') /\ Len(Shown') = M
      /\ \A n \in 1..L : Shown[n] = Act(n)
      /\ \A n \in 1..M : Shown'[n] = Act(n)'
  BY <1>1, ShownFacts, NextShownFacts
<1>4. M \in 1..L /\ M \in 1..M
  BY <1>1
<1>5. Shown[M] = [operands |-> SubSeq(stack, Slots(M), Top(M)), waits |-> Waits(frames[chain[M]]),
                  gives |-> frames[chain[M]].new]
  BY <1>3, <1>4 DEF Act
<1>6. Shown'[M] = [operands |-> q, waits |-> "push", gives |-> frames[chain[M]].new]
  <2> PICK f : f = frames[chain[M]]
    OBVIOUS
  <2> PICK g : g = frames'[chain'[M]]
    OBVIOUS
  <2>1. Waits(g) = "push" /\ g.new = f.new
    <3>1. g = Resumed(f) /\ IsFrame(f)
      BY <1>1, <1>4 DEF FramesLeft
    <3> QED BY <3>1, ResumedFields
  <2>2. Act(M)' = [operands |-> SubSeq(stack', Slots(M)', Top(M)'), waits |-> Waits(g), gives |-> g.new]
    BY DEF Act, Waits
  <2>3. Slots(M)' = Slots(M) /\ Top(M)' = Len(stack')
    BY <1>2, <1>4
  <2>4. Act(M)' = [operands |-> q, waits |-> "push", gives |-> f.new]
    BY <2>1, <2>2, <2>3
  <2>5. Shown'[M] = Act(M)'
    BY <1>3, <1>4
  <2>6. f.new = frames[chain[M]].new
    OBVIOUS
  <2> QED BY ONLY <2>4, <2>5, <2>6, ZenonT(30)
<1>7. \A n \in 1..M - 1 : Shown'[n] = Shown[n]
  <2> SUFFICES ASSUME NEW n \in 1..M - 1 PROVE Shown'[n] = Shown[n]
    OBVIOUS
  <2>1. n \in 1..L /\ n \in 1..M /\ n < M /\ M \in 1..L
    <3>1. L \in Nat /\ L = M + 1 /\ M \in Nat /\ M >= 1 /\ n \in 1..M - 1
      BY <1>1
    <3> QED BY ONLY <3>1
  <2> PICK z : z = Slots(n)
    OBVIOUS
  <2> PICK t : t = Top(n)
    OBVIOUS
  <2>2. z \in Nat /\ z >= 1 /\ t \in Nat /\ z - 1 <= t /\ t <= sp
    <3>1. FrameInv(n) /\ Floor(n) \in Nat /\ Top(n) \in Nat /\ Slots(n) - 1 <= Floor(n) /\ Top(n) <= sp
      BY <1>1, <2>1
    <3>2. Slots(n) \in Nat /\ Slots(n) >= 1 /\ Floor(n) <= Top(n)
      BY <3>1 DEF FrameInv
    <3> QED BY <3>1, <3>2
  <2>3. t <= m
    <3>1. FrameInv(M) /\ Slots(M) - 1 <= Floor(M) /\ Floor(M) \in Nat
      BY <1>1, <2>1
    <3>2. Slots(M) \in Nat /\ Top(n) < Slots(M)
      BY <3>1 DEF FrameInv
    <3>3. Floor(M) <= m /\ m \in Nat
      BY DEF LeftAt
    <3> QED BY <2>2, <3>1, <3>2, <3>3, SMTT(30)
  <2>4. /\ IsSeq(stack') /\ m \in Nat /\ m <= Len(stack') /\ Len(stack') \in Nat
        /\ \A i \in 1..m : stack'[i] = stack[i]
    BY SeqFacts DEF LeftAt
  <2>5. SubSeq(stack, z, t) = SubSeq(stack', z, t)
    <3> DEFINE r == stack'
    <3> HIDE DEF r
    <3>1. z \in Int /\ t \in Int /\ 1 <= z /\ z <= t + 1 /\ t <= Len(stack) /\ t <= Len(r)
      BY <2>2, <2>3, <2>4, SMTT(30) DEF sp, r
    <3>2. \A i \in 1..t : stack[i] = r[i]
      BY <2>2, <2>3, <2>4, SMTT(30) DEF r
    <3>3. IsSeq(r)
      BY <2>4 DEF r
    <3>4. SubSeq(stack, z, t) = SubSeq(r, z, t)
      <4> DEFINE s == stack
      <4> HIDE DEF s
      <4>1. /\ IsSeq(s) /\ IsSeq(r) /\ z \in Int /\ t \in Int /\ 1 <= z /\ z <= t + 1 /\ t <= Len(s) /\ t <= Len(r)
            /\ \A i \in 1..t : s[i] = r[i]
        BY <1>1, <3>1, <3>2, <3>3 DEF s
      <4>2. SubSeq(s, z, t) = SubSeq(r, z, t)
        BY ONLY <4>1, SubSame
      <4> QED BY <4>2 DEF s
    <3> QED BY <3>4 DEF r
  <2>6. frames'[chain'[n]] = frames[chain[n]] /\ Slots(n)' = z /\ Top(n)' = t
    BY <1>2, <2>1 DEF FramesLeft
  <2>7. Act(n)' = [operands |-> SubSeq(stack', Slots(n)', Top(n)'), waits |-> Waits(frames'[chain'[n]]), gives |-> frames'[chain'[n]].new]
    BY DEF Act, Waits
  <2>8. Act(n) = [operands |-> SubSeq(stack, z, t), waits |-> Waits(frames[chain[n]]), gives |-> frames[chain[n]].new]
    BY DEF Act
  <2>9. Act(n)' = Act(n)
    BY <2>5, <2>6, <2>7, <2>8
  <2> QED BY <1>3, <2>1, <2>9
<1> QED BY <1>3, <1>5, <1>6, <1>7 DEF ShownLeft

(* The lowest slots of a stack.                                             *)
LEMMA SubOne ==
  ASSUME NEW s, IsSeq(s), NEW t \in Nat, t <= Len(s)
  PROVE  /\ IsSeq(SubSeq(s, 1, t)) /\ Len(SubSeq(s, 1, t)) = t
         /\ \A i \in 1..t : SubSeq(s, 1, t)[i] = s[i]
<1> PICK r : r = SubSeq(s, 1, t)
  OBVIOUS
<1>1. IsSub(r, s, 1, t)
  <2>1. 1 \in Int /\ t \in Int /\ 1 <= 1 /\ 1 <= t + 1
    OBVIOUS
  <2> QED BY <2>1, Sub
<1>2. IsSeq(r) /\ Len(r) = t - 1 + 1 /\ \A i \in 1..t - 1 + 1 : r[i] = s[1 + i - 1]
  BY <1>1 DEF IsSub
<1>3. t - 1 + 1 = t /\ \A i \in 1..t : 1 + i - 1 = i
  OBVIOUS
<1> QED BY <1>2, <1>3

(* The stack r goes on from T slots of the stack s: with v pushed. *)
GoesOn(r, s, z, T, m, q) ==
  /\ IsSeq(r) /\ m \in Nat /\ m <= Len(r) /\ m <= T /\ Len(r) <= T + 1
  /\ \A i \in 1..m : r[i] = s[i]
  /\ SubSeq(r, z, Len(r)) = q

(* With v pushed, the last of its slots.                                    *)
OnePushed(r, s, z, T, v, q) ==
  GoesOn(r, s, z, T, T, q) /\ Len(r) = T + 1 /\ r[Len(r)] = v

(* It has one operand more.                                                 *)
LEMMA GoesOnPush ==
  ASSUME NEW s, IsSeq(s), NEW z \in Nat, z >= 1, NEW T \in Nat, z - 1 <= T, T <= Len(s), NEW v,
         NEW ops, ops = SubSeq(s, z, T), NEW r, r = Append(SubSeq(s, 1, T), v), NEW q, q = Append(ops, v)
  PROVE  OnePushed(r, s, z, T, v, q)
<1> PICK l : l = SubSeq(s, 1, T)
  OBVIOUS
<1> PICK m : m = T + 1
  OBVIOUS
<1>1. IsSeq(l) /\ Len(l) = T /\ \A i \in 1..T : l[i] = s[i]
  BY SubOne
<1>2. IsAdd(r, l, v)
  <2>1. IsAdd(Append(l, v), l, v)
    BY <1>1, Add
  <2> QED BY <2>1
<1>3. IsSeq(r) /\ Len(r) = m /\ r[m] = v /\ \A i \in 1..T : r[i] = l[i]
  BY <1>1, <1>2 DEF IsAdd
<1>4. \A i \in 1..T : r[i] = s[i]
  BY <1>1, <1>3
<1>5. SubSeq(r, z, m) = Append(SubSeq(s, z, T), r[m])
  <2>1. 1 <= z /\ z <= m
    OBVIOUS
  <2>2. Longer(s, r, z, T, m)
    BY <1>3, <1>4, <2>1 DEF Longer
  <2>3. OneMore(s, r, z, T, m)
    BY <2>2, SubSnoc
  <2> QED BY <2>3 DEF OneMore
<1> PICK p : p = SubSeq(r, z, Len(r))
  OBVIOUS
<1>6. p = q
  <2>1. p = SubSeq(r, z, m)
    BY <1>3
  <2>2. p = Append(SubSeq(s, z, T), r[m])
    BY <1>5, <2>1
  <2> QED BY <1>3, <2>2
<1>7. SubSeq(r, z, Len(r)) = q
  BY <1>6
<1>8. T \in Nat /\ T <= Len(r) /\ T <= T /\ Len(r) <= T + 1
  BY <1>3
<1>9. GoesOn(r, s, z, T, T, q)
  BY ONLY <1>3, <1>4, <1>7, <1>8 DEF GoesOn
<1>10. Len(r) = T + 1 /\ r[Len(r)] = v
  BY <1>3
<1> QED BY ONLY <1>9, <1>10 DEF OnePushed

(* With nothing pushed. *)
LEMMA GoesOnSame ==
  ASSUME NEW s, IsSeq(s), NEW z \in Nat, z >= 1, NEW T \in Nat, z - 1 <= T, T <= Len(s),
         NEW r, r = SubSeq(s, 1, T)
  PROVE  GoesOn(r, s, z, T, T, SubSeq(s, z, T)) /\ Len(r) = T
<1>1. IsSeq(r) /\ Len(r) = T /\ \A i \in 1..T : r[i] = s[i]
  BY SubOne
<1>2. SubSeq(r, z, T) = SubSeq(s, z, T)
  <2>1. z \in Int /\ T \in Int /\ 1 <= z /\ z <= T + 1 /\ T <= Len(r) /\ T <= Len(s)
    BY <1>1
  <2> QED BY <1>1, <2>1, SubSame
<1> QED BY <1>1, <1>2 DEF GoesOn

(* Without the last of them. *)
LEMMA GoesOnLess ==
  ASSUME NEW s, IsSeq(s), NEW z \in Nat, z >= 1, NEW T \in Nat, z - 1 < T, T <= Len(s),
         NEW r, r = Front(SubSeq(s, 1, T))
  PROVE  GoesOn(r, s, z, T, T - 1, Front(SubSeq(s, z, T))) /\ Len(r) = T - 1
<1> PICK l : l = SubSeq(s, 1, T)
  OBVIOUS
<1> PICK c : c = T - 1
  OBVIOUS
<1> PICK ops : ops = SubSeq(s, z, T)
  OBVIOUS
<1>1. IsSeq(l) /\ Len(l) = T /\ \A i \in 1..T : l[i] = s[i]
  BY SubOne
<1>2. /\ T >= 1 /\ c \in Nat /\ T \in Int /\ c \in Int /\ z \in Int /\ 1 <= z /\ z <= c + 1 /\ z <= T + 1
      /\ c <= T
  OBVIOUS
<1>3. IsSeq(r) /\ Len(r) = c /\ \A i \in 1..c : r[i] = l[i]
  BY <1>1, <1>2, FrontIs
<1>4. \A i \in 1..c : r[i] = s[i]
  BY <1>1, <1>2, <1>3
<1>5. IsSub(ops, s, z, T)
  BY <1>2, Sub
<1> PICK e : e = T - z + 1
  OBVIOUS
<1>6. IsSeq(ops) /\ Len(ops) = e /\ e >= 1 /\ e \in Nat
  BY <1>2, <1>5 DEF IsSub
<1>7. Front(ops) = SubSeq(ops, 1, e - 1)
  BY <1>6 DEF Front
<1>8. SubSeq(ops, 1, e - 1) = SubSeq(s, z, c)
  <2> PICK d : d = e - 1
    OBVIOUS
  <2>1. /\ 1 \in Int /\ d \in Int /\ 1 <= 1 /\ 1 <= d + 1 /\ d <= T - z + 1 /\ z = z + 1 - 1 /\ c = z + d - 1
    BY <1>2, <1>6
  <2>2. SubSeq(SubSeq(s, z, T), 1, d) = SubSeq(s, z, c)
    BY <1>2, <2>1, SubSub
  <2> QED BY <2>2
<1>9. SubSeq(r, z, c) = SubSeq(s, z, c)
  <2>1. c <= Len(r) /\ c <= Len(s)
    BY <1>2, <1>3
  <2> QED BY <1>2, <1>3, <1>4, <2>1, SubSame
<1>10. c <= T + 1 /\ c <= c
  BY <1>2
<1>11. SubSeq(r, z, Len(r)) = Front(ops)
  BY <1>3, <1>7, <1>8, <1>9
<1>12. GoesOn(r, s, z, T, c, Front(ops))
  BY <1>2, <1>3, <1>4, <1>10, <1>11 DEF GoesOn
<1> QED BY <1>3, <1>12

(* What the caller goes on with, from the operands ops. *)
Resumes(f, ops, v, q) ==
  /\ Waits(f) = "push" => q = Append(ops, v)
  /\ Waits(f) = "discard" => q = ops
  /\ Waits(f) = "iterate" => q = IF v = Nil THEN Front(ops) ELSE Append(ops, v)

(* Its operands up to m stay, and the others are such that it has q. *)
Goes(M, z, T, f, ops, v) ==
  \E m, q : GoesOn(stack', stack, z, T, m, q) /\ LeftAt(M, m) /\ Resumes(f, ops, v, q)

(* Then the operands of the caller up to m stay.                            *)
LEMMA GoesOnLeft ==
  ASSUME NEW M, NEW z, NEW T \in Nat, T = Top(M), T <= sp, sp \in Nat, \A i \in 1..sp : IsValue(stack[i]),
         NEW m, NEW q, GoesOn(stack', stack, z, T, m, q), Floor(M) <= m,
         Len(stack') = m \/ (Len(stack') = m + 1 /\ IsValue(stack'[Len(stack')]))
  PROVE  LeftAt(M, m)
<1> PICK t : t = Len(stack')
  OBVIOUS
<1>1. /\ IsSeq(stack') /\ m \in Nat /\ m <= t /\ m <= T /\ t <= T + 1
      /\ \A i \in 1..m : stack'[i] = stack[i]
  BY DEF GoesOn
<1>2. t \in Nat
  BY <1>1, SeqFacts
<1>3. ASSUME NEW i \in 1..t PROVE IsValue(stack'[i])
  <2>1. i \in 1..m \/ ~(i <= m)
    BY <1>1, <1>2
  <2>2. CASE i \in 1..m
    <3>1. i \in 1..sp
      BY <1>1, <2>2
    <3> QED BY <1>1, <2>2, <3>1
  <2>3. CASE ~(i <= m)
    <3>1. i = t /\ t # m
      BY <1>1, <1>2, <2>3
    <3> QED BY <3>1
  <2> QED BY <2>1, <2>2, <2>3
<1> QED BY <1>1, <1>3 DEF LeftAt

(* What completeMagicReturn leaves of the stack is what the caller goes on  *)
(* with.                                                                    *)
LEMMA LeaveStack ==
  ASSUME CallInv, Running, NEW value, IsValue(value), LeaveFrame(value),
         NEW M \in Nat, M >= 1, M = Len(chain) - 1,
         NEW v, v = IF frame.isCtor THEN Instance ELSE value,
         NEW z, z = Slots(M), NEW T, T = Top(M), NEW f, f = frames[chain[M]],
         NEW ops, ops = SubSeq(stack, z, T)
  PROVE  Goes(M, z, T, f, ops, v)
<1> PICK L : L = Len(chain)
  OBVIOUS
<1>1. /\ L \in Nat /\ L = M + 1 /\ frame = frames[chain[L]] /\ sp \in Nat
      /\ \A n \in 1..L : /\ FrameInv(n) /\ Floor(n) \in Nat /\ Top(n) \in Nat /\ Slots(n) - 1 <= Floor(n)
                         /\ Top(n) <= sp
  BY RunFacts
<1>2. M \in 1..L /\ L \in 1..L
  BY <1>1
<1> PICK e : e = Floor(M)
  OBVIOUS
<1>3. /\ FrameInv(M) /\ e \in Nat /\ T \in Nat /\ z - 1 <= e /\ T <= sp
  BY <1>1, <1>2
<1>4. z \in Nat /\ z >= 1 /\ e <= T /\ (f.forIterPending => e < T)
  BY <1>3 DEF FrameInv
<1>5. IsSeq(stack) /\ Len(stack) = sp /\ \A i \in 1..sp : IsValue(stack[i])
  BY DEF CallInv, StackInv, sp
<1> PICK below : below = SubSeq(stack, 1, T)
  OBVIOUS
<1>6. stack' = completeMagicReturn(f, below, v)
  <2>1. T = Base(frame) - 1
    BY <1>1 DEF Top
  <2>2. (IF frame.isCtor THEN stack[frame.slots] ELSE value) = v
    <3>1. frame.isCtor => stack[frame.slots] = Instance
      BY <1>1, <1>2 DEF FrameInv, Slots
    <3> QED BY <3>1
  <2>3. chain[Len(chain) - 1] = chain[M]
    OBVIOUS
  <2>4. stack' = completeMagicReturn(frames[chain[Len(chain) - 1]], SubSeq(stack, 1, Base(frame) - 1),
                                     IF frame.isCtor THEN stack[frame.slots] ELSE value)
    BY DEF LeaveFrame, SetStack
  <2> QED BY <2>1, <2>2, <2>3, <2>4
<1>7. IsValue(v)
  <2>1. IsValue(Instance)
    BY ScalarIsValue DEF Scalars
  <2> QED BY <2>1
<1>8. /\ IsSeq(stack) /\ z \in Nat /\ z >= 1 /\ T \in Nat /\ z - 1 <= T /\ T <= Len(stack)
      /\ e < T => z - 1 < T
  BY <1>3, <1>4, <1>5, SMTT(30)
<1>9. ASSUME stack' = Append(below, v), Waits(f) # "discard", Waits(f) = "iterate" => v # Nil
      PROVE  Goes(M, z, T, f, ops, v)
  <2> DEFINE r == stack'
  <2> HIDE DEF r
  <2>1. r = Append(SubSeq(stack, 1, T), v)
    BY <1>9 DEF r
  <2> PICK q : q = Append(ops, v)
    OBVIOUS
  <2>2. OnePushed(r, stack, z, T, v, q)
    <3>1. ops = SubSeq(stack, z, T) /\ q = Append(ops, v)
      OBVIOUS
    <3> QED BY ONLY <1>8, <2>1, <3>1, GoesOnPush
  <2>3. GoesOn(stack', stack, z, T, T, q) /\ Len(stack') = T + 1 /\ stack'[Len(stack')] = v
    <3>1. GoesOn(r, stack, z, T, T, q) /\ Len(r) = T + 1 /\ r[Len(r)] = v
      BY ONLY <2>2 DEF OnePushed
    <3> QED BY <3>1 DEF r
  <2>4. LeftAt(M, T)
    <3>1. /\ T \in Nat /\ T = Top(M) /\ T <= sp /\ sp \in Nat /\ (\A i \in 1..sp : IsValue(stack[i]))
          /\ Floor(M) <= T /\ (Len(stack') = T \/ (Len(stack') = T + 1 /\ IsValue(stack'[Len(stack')])))
      BY <1>1, <1>3, <1>4, <1>5, <1>7, <2>3
    <3> QED BY ONLY <2>3, <3>1, GoesOnLeft
  <2>5. Resumes(f, ops, v, q)
    BY <1>9 DEF Resumes
  <2> QED BY ONLY <2>3, <2>4, <2>5 DEF Goes
<1>10. ASSUME stack' = below, Waits(f) = "discard"
       PROVE  Goes(M, z, T, f, ops, v)
  <2> DEFINE r == stack'
  <2> HIDE DEF r
  <2>1. r = SubSeq(stack, 1, T)
    BY <1>10 DEF r
  <2>2. GoesOn(r, stack, z, T, T, SubSeq(stack, z, T)) /\ Len(r) = T
    BY ONLY <1>8, <2>1, GoesOnSame
  <2>3. GoesOn(stack', stack, z, T, T, ops) /\ Len(stack') = T
    BY <2>2 DEF r
  <2>4. LeftAt(M, T)
    BY <1>3, <1>4, <1>5, <2>3, GoesOnLeft
  <2>5. Resumes(f, ops, v, ops)
    BY <1>10 DEF Resumes
  <2> QED BY <2>3, <2>4, <2>5 DEF Goes
<1>11. ASSUME stack' = Front(below), Waits(f) = "iterate", v = Nil, e < T
       PROVE  Goes(M, z, T, f, ops, v)
  <2> DEFINE r == stack'
  <2> HIDE DEF r
  <2>1. r = Front(SubSeq(stack, 1, T))
    BY <1>11 DEF r
  <2>2. GoesOn(r, stack, z, T, T - 1, Front(SubSeq(stack, z, T))) /\ Len(r) = T - 1
    <3>1. z - 1 < T
      BY <1>8, <1>11
    <3> QED BY ONLY <1>8, <2>1, <3>1, GoesOnLess
  <2>3. GoesOn(stack', stack, z, T, T - 1, Front(ops)) /\ Len(stack') = T - 1
    BY <2>2 DEF r
  <2>4. LeftAt(M, T - 1)
    <3>1. Floor(M) <= T - 1
      BY <1>3, <1>11
    <3> QED BY <1>3, <1>5, <2>3, <3>1, GoesOnLeft
  <2>5. Resumes(f, ops, v, Front(ops))
    BY <1>11 DEF Resumes
  <2> QED BY <2>3, <2>4, <2>5 DEF Goes
<1>12. CASE f.forIterPending
  <2>1. Waits(f) = "iterate" /\ e < T
    BY <1>4, <1>12 DEF Waits
  <2>2. CASE v = Nil
    BY <1>6, <1>11, <1>12, <2>1, <2>2 DEF completeMagicReturn
  <2>3. CASE v # Nil
    BY <1>6, <1>9, <1>12, <2>1, <2>3 DEF completeMagicReturn
  <2> QED BY <2>2, <2>3
<1>13. CASE ~f.forIterPending /\ f.discardReturn
  BY <1>6, <1>10, <1>13 DEF completeMagicReturn, Waits
<1>14. CASE ~f.forIterPending /\ ~f.discardReturn
  BY <1>6, <1>9, <1>14 DEF completeMagicReturn, Waits
<1> QED BY <1>12, <1>13, <1>14

(* The value that is returned is nil or the last operand. *)
LEMMA ValueFacts ==
  ASSUME CallInv, Running, NEW value, value = Nil \/ (Takes(1) /\ value = PEEK(0)),
         NEW o, o = SubSeq(stack, Slots(Len(chain)), sp)
  PROVE  /\ IsValue(value)
         /\ value \in {Nil} \cup Range(o) /\ (value = Nil \/ value = Last(o))
<1>1. CASE value = Nil
  BY <1>1, ScalarIsValue DEF Scalars
<1>2. CASE Takes(1) /\ value = PEEK(0)
  <2> PICK L : L = Len(chain)
    OBVIOUS
  <2> PICK z : z = Slots(L)
    OBVIOUS
  <2> PICK t : t = sp
    OBVIOUS
  <2>1. /\ L \in 1..L /\ FrameInv(L) /\ z - 1 <= Floor(L) /\ Floor(L) \in Nat
    BY RunFacts
  <2>2. t \in Nat /\ t - 1 \in Nat /\ t - 1 >= Floor(L)
    BY <1>2, TakesFacts, RunFacts
  <2>3. z \in Nat /\ z >= 1
    BY <2>1 DEF FrameInv
  <2>4. IsSeq(stack) /\ Len(stack) = t /\ \A i \in 1..t : IsValue(stack[i])
    BY DEF CallInv, StackInv, sp
  <2>5. z \in Int /\ t \in Int /\ 1 <= z /\ z <= t /\ z <= t + 1 /\ t <= Len(stack) /\ t \in 1..t
    BY <2>1, <2>2, <2>3, <2>4
  <2> PICK n : n = t - z + 1
    OBVIOUS
  <2>6. IsSub(o, stack, z, t)
    <3>1. o = SubSeq(stack, z, t)
      BY DEF Slots
    <3> QED BY <2>4, <2>5, <3>1, Sub
  <2>7. IsSeq(o) /\ Len(o) = n /\ \A i \in 1..n : o[i] = stack[z + i - 1]
    BY <2>6 DEF IsSub
  <2>8. n \in 1..n /\ z + n - 1 = t /\ n >= 1
    BY <2>5
  <2>9. o[n] = stack[t] /\ value = stack[t]
    <3>1. value = stack[sp - 0]
      BY <1>2 DEF PEEK
    <3>2. sp - 0 = t
      BY <2>2
    <3> QED BY <2>7, <2>8, <3>1, <3>2
  <2>10. Last(o) = o[n] /\ DOMAIN o = 1..n
    BY <2>7, <2>8, FrontIs, SeqFacts
  <2>11. o[n] \in Range(o)
    BY <2>8, <2>10 DEF Range
  <2>12. IsValue(stack[t])
    BY <2>4, <2>5
  <2> QED BY <2>9, <2>10, <2>11, <2>12
<1> QED BY <1>1, <1>2

(* The operands that the caller goes on with are those that it is promised. *)
LEMMA ResumesIs ==
  ASSUME NEW f, NEW ops, NEW v, NEW q, Resumes(f, ops, v, q), NEW g,
         NEW a, a = [operands |-> ops, waits |-> Waits(f), gives |-> g]
  PROVE  Activations!Resumed(a, v) = q
<1> PICK w : w = Waits(f)
  OBVIOUS
<1>1. w = "push" \/ w = "discard" \/ w = "iterate"
  BY DEF Waits
<1>2. a.operands = ops /\ a.waits = w
  OBVIOUS
<1>3. CASE w = "push"
  BY <1>2, <1>3 DEF Activations!Resumed, Resumes
<1>4. CASE w = "discard"
  BY <1>2, <1>4 DEF Activations!Resumed, Resumes
<1>5. CASE w = "iterate"
  BY <1>2, <1>5, SameCallables DEF Activations!Resumed, Resumes
<1> QED BY <1>1, <1>3, <1>4, <1>5

(* OP_RETURN and OP_RETURN_NIL.                                             *)
LEMMA LeaveIs ==
  ASSUME CallInv, Running, NEW value, LeaveFrame(value), value = Nil \/ (Takes(1) /\ value = PEEK(0))
  PROVE  StackInv' /\ Activations!Return
<1> PICK L : L = Len(chain)
  OBVIOUS
<1> PICK M : M = L - 1
  OBVIOUS
<1>1. M \in Nat /\ M >= 1 /\ M = Len(chain) - 1 /\ FramesLeft(M)
  BY LeaveFrames
<1>2. L \in Nat /\ L = M + 1 /\ frame = frames[chain[L]] /\ FrameInv(L) /\ Top(L) = sp
  <2>1. L \in 1..L
    BY RunFacts
  <2> QED BY <2>1, RunFacts
<1> PICK o : o = SubSeq(stack, Slots(L), sp)
  OBVIOUS
<1>3. IsValue(value) /\ value \in {Nil} \cup Range(o) /\ (value = Nil \/ value = Last(o))
  <2>1. o = SubSeq(stack, Slots(Len(chain)), sp)
    BY DEF Slots
  <2> QED BY <2>1, ValueFacts
<1> PICK v : v = IF frame.isCtor THEN Instance ELSE value
  OBVIOUS
<1> PICK z : z = Slots(M)
  OBVIOUS
<1> PICK T : T = Top(M)
  OBVIOUS
<1> PICK f : f = frames[chain[M]]
  OBVIOUS
<1> PICK ops : ops = SubSeq(stack, z, T)
  OBVIOUS
<1>4. Goes(M, z, T, f, ops, v)
  BY <1>1, <1>3, LeaveStack
<1>5. PICK m, q : GoesOn(stack', stack, z, T, m, q) /\ LeftAt(M, m) /\ Resumes(f, ops, v, q)
  BY <1>4 DEF Goes
<1>6. StackInv'
  BY <1>1, <1>5, LeaveKeeps
<1>7. q = SubSeq(stack', Slots(M), Len(stack'))
  BY <1>5 DEF GoesOn
<1>8. ShownLeft(M, q)
  BY <1>1, <1>5, <1>7, LeaveShows
<1> PICK a : a = Shown[M]
  OBVIOUS
<1>9. /\ IsSeq(Shown) /\ Len(Shown) = L /\ IsSeq(Shown') /\ Len(Shown') = M
      /\ \A n \in 1..M - 1 : Shown'[n] = Shown[n]
      /\ a = [operands |-> ops, waits |-> Waits(f), gives |-> f.new]
      /\ Shown'[M] = [operands |-> q, waits |-> "push", gives |-> f.new]
  BY <1>2, <1>8 DEF ShownLeft
<1>10. Shown[L] = [operands |-> o, waits |-> Waits(frame), gives |-> frame.new]
  <2>1. L \in 1..L
    BY <1>1, <1>2
  <2> QED BY <1>2, <2>1, ShownFacts DEF Act
<1> PICK c : c = Front(Shown)
  OBVIOUS
<1>11. IsSeq(c) /\ Len(c) = M /\ c # <<>> /\ \A n \in 1..M : c[n] = Shown[n]
  BY <1>1, <1>2, <1>9, FrontIs, EmptyFacts
<1>12. IsSeq(Front(c)) /\ Len(Front(c)) = M - 1 /\ Last(c) = a /\ \A n \in 1..M - 1 : Front(c)[n] = Shown[n]
  <2>1. IsSeq(Front(c)) /\ Len(Front(c)) = M - 1 /\ Last(c) = c[M] /\ \A n \in 1..M - 1 : Front(c)[n] = c[n]
    BY <1>1, <1>11, FrontIs
  <2>2. M \in 1..M /\ \A n \in 1..M - 1 : n \in 1..M
    BY <1>1
  <2> QED BY <1>11, <2>1, <2>2
<1> PICK x : x = Activations!Activation(q, "push", a.gives)
  OBVIOUS
<1>13. Shown' = Append(Front(c), x)
  <2>1. x = Shown'[M]
    BY <1>9 DEF Activations!Activation
  <2> DEFINE s == Shown'
             d == Front(c)
  <2> HIDE DEF s, d
  <2>2. IsSeq(d) /\ IsSeq(s) /\ Len(s) = Len(d) + 1 /\ s[Len(d) + 1] = x /\ \A i \in 1..Len(d) : s[i] = d[i]
    <3>1. Len(d) = M - 1 /\ Len(d) + 1 = M /\ Len(s) = M /\ IsSeq(s) /\ IsSeq(d)
      BY <1>1, <1>9, <1>12 DEF s, d
    <3>2. s[M] = x
      BY <2>1 DEF s
    <3>3. \A i \in 1..M - 1 : s[i] = d[i]
      BY <1>9, <1>12 DEF s, d
    <3> QED BY <3>1, <3>2, <3>3
  <2>3. s = Append(d, x)
    BY ONLY <2>2, SnocIs
  <2> QED BY <2>3 DEF s, d
<1>14. Activations!Callers = c /\ Activations!this = Shown[L]
  BY <1>9, SameCallables DEF Activations!this, Activations!Callers
<1>15. Activations!Front(c) = Front(c) /\ Activations!Last(c) = a /\ Activations!Last(o) = Last(o)
       /\ Activations!Range(o) = Range(o)
  BY <1>12, SameCallables
<1>16. Activations!Resumed(a, v) = q
  <2>1. Resumes(f, ops, v, q)
    BY <1>5
  <2>2. a = [operands |-> ops, waits |-> Waits(f), gives |-> f.new]
    BY <1>9
  <2> QED BY ONLY <2>1, <2>2, ResumesIs
<1>17. v = IF frame.new # Nothing THEN frame.new ELSE value
  <2>1. frame.new = IF frame.isCtor THEN Instance ELSE Nothing
    BY <1>2 DEF FrameInv
  <2> QED BY <2>1, CallAssumption
<1>18. Shown # <<>> /\ proto' = proto /\ InOrder' = InOrder
  <2>1. Shown # <<>>
    BY <1>1, <1>2, <1>9, EmptyFacts
  <2> QED BY <1>1, <2>1 DEF FramesLeft, InOrder
<1> PICK this : this = Shown[L]
  OBVIOUS
<1>19. this.operands = o /\ this.gives = frame.new
  <2>1. this = [operands |-> o, waits |-> Waits(frame), gives |-> frame.new]
    BY <1>10
  <2> QED BY ONLY <2>1
<1>20. Activations!Return
  <2>1. value \in {Nil} \cup Activations!Range(Activations!this.operands)
    BY <1>3, <1>14, <1>15, <1>19
  <2>2. value = Nil \/ value = Activations!Last(Activations!this.operands)
    BY <1>3, <1>14, <1>15, <1>19
  <2>3. (IF Activations!this.gives # Nothing THEN Activations!this.gives ELSE value) = v
    BY <1>14, <1>17, <1>19
  <2>4. Shown' = Append(Activations!Front(Activations!Callers),
                        Activations!Activation(Activations!Resumed(Activations!Last(Activations!Callers), v), "push",
                                               Activations!Last(Activations!Callers).gives))
    BY <1>13, <1>14, <1>15, <1>16
  <2>5. Activations!Callers # <<>>
    BY <1>11, <1>14
  <2> QED BY <1>18, <2>1, <2>2, <2>3, <2>4, <2>5 DEF Activations!Return
<1> QED BY <1>6, <1>20

----------------------------------------------------------------------------
(* The program is made once. *)

LEMMA CallStays ==
  ASSUME NEW kept, NEW args, NEW how, NEW waits, msClosureCall(kept, args, how, waits)
  PROVE  UNCHANGED program
BY DEF msClosureCall, Enter

(* Only OP_MAKE_FUNC changes it.                                            *)
LEMMA ProgramStays ==
  ASSUME [Next]_vars, ~MakeFunc
  PROVE  proto' = proto /\ defaults' = defaults
<1>1. CASE UNCHANGED vars
  BY <1>1 DEF vars
<1>2. CASE msVMRun
  BY <1>2 DEF msVMRun, program
<1>3. CASE Const \/ GetLocal \/ SetLocal \/ Pop \/ Native \/ GetAttr
  BY <1>3 DEF Const, GetLocal, SetLocal, Pop, Native, GetAttr, Push, Local, program
<1>4. CASE Call \/ CallEx
  BY <1>4, CallStays DEF Call, CallEx, dispatchCall, Local, program
<1>5. CASE CallKw
  BY <1>5 DEF CallKw, msClosureCallKw, Enter, program
<1>6. CASE Unary \/ Binary \/ SetItem \/ DelItem \/ ForIter
  BY <1>6, CallStays DEF Unary, Binary, SetItem, DelItem, ForIter, dispatchMagicCall, program
<1>7. CASE Return \/ ReturnNil
  BY <1>7 DEF Return, ReturnNil, LeaveFrame, program
<1>8. CASE ReturnTop \/ Fail
  BY <1>8 DEF ReturnTop, Fail, Stop, program
<1> QED BY <1>1, <1>2, <1>3, <1>4, <1>5, <1>6, <1>7, <1>8 DEF Next

----------------------------------------------------------------------------
(* The refinement. *)

LEMMA CallInit == Init => CallInv /\ Activations!Init
<1> SUFFICES ASSUME Init PROVE CallInv /\ Activations!Init
  OBVIOUS
<1>1. proto \in Signatures /\ defaults = NoDefaults /\ stack = <<>> /\ chain = <<>>
  BY DEF Init
<1>2. Len(stack) = 0 /\ Len(chain) = 0 /\ 1..0 = {} /\ IsSeq(stack)
  BY <1>1, EmptyFacts
<1>3. StackInv
  BY <1>2 DEF StackInv, Depths, sp
<1>4. ProgramInv
  BY <1>1 DEF ProgramInv
<1>5. Shown = <<>>
  BY <1>1, NothingShown
<1> QED BY <1>1, <1>3, <1>4, <1>5, InitFlags DEF CallInv, Activations!Init, InOrder

(* What a step does of what MsActivations lets a step do. *)
Promised == StackInv' /\ [Activations!Next]_(Activations!avars)

(* A call or a piece of work is one.                                        *)
LEMMA ImplementsIs ==
  ASSUME Implements
  PROVE  Promised
BY DEF Implements, Promised, Activations!Next

(* So is a step that changes nothing.                                       *)
LEMMA StutterIs ==
  ASSUME StackInv, UNCHANGED vars
  PROVE  Promised
<1>1. /\ proto' = proto /\ defaults' = defaults /\ stack' = stack /\ chain' = chain /\ frames' = frames
  BY DEF vars
<1>2. StackInv'
  BY <1>1 DEF StackInv, FrameInv, Depths, Floor, Top, Slots, Base, sp
<1>3. Shown' = Shown
  BY <1>1 DEF Shown, Operands, Waits, Base, sp
<1>4. InOrder' = InOrder
  BY <1>1 DEF InOrder
<1> QED BY <1>1, <1>2, <1>3, <1>4 DEF Promised, Activations!avars

(* Every step is one.                                                       *)
LEMMA StepIs ==
  ASSUME ~AssignSelf, ~LongSpreads, CallInv, [Next]_vars
  PROVE  Promised
<1>1. CASE UNCHANGED vars
  BY <1>1, StutterIs DEF CallInv
<1>2. CASE msVMRun
  BY <1>2, StartIs DEF Promised, Activations!Next
<1>3. CASE Const \/ GetLocal \/ SetLocal
  BY <1>3, ConstIs, GetLocalIs, SetLocalIs, ImplementsIs
<1>4. CASE Pop \/ Native \/ GetAttr
  BY <1>4, PopIs, NativeIs, GetAttrIs, ImplementsIs
<1>5. CASE MakeFunc
  BY <1>5, MakeIs DEF Promised, Activations!Next
<1>6. CASE Call \/ CallEx \/ CallKw
  BY <1>6, CallIs, CallExIs, CallKwIs, ImplementsIs
<1>7. CASE Unary \/ Binary \/ SetItem
  BY <1>7, UnaryIs, BinaryIs, SetItemIs, ImplementsIs
<1>8. CASE DelItem \/ ForIter
  BY <1>8, DelItemIs, ForIterIs, ImplementsIs
<1>9. CASE Return
  <2>1. Running /\ Takes(1) /\ LeaveFrame(PEEK(0))
    BY <1>9 DEF Return, Takes
  <2> QED BY <2>1, LeaveIs DEF Promised, Activations!Next
<1>10. CASE ReturnNil
  <2>1. Running /\ LeaveFrame(Nil)
    BY <1>10 DEF ReturnNil
  <2> QED BY <2>1, LeaveIs DEF Promised, Activations!Next
<1>11. CASE ReturnTop \/ Fail
  BY <1>11, StopIs DEF ReturnTop, Fail, Promised, Activations!Next
<1> QED BY <1>1, <1>2, <1>3, <1>4, <1>5, <1>6, <1>7, <1>8, <1>9, <1>10, <1>11 DEF Next

(* The invariant is inductive.                                              *)
LEMMA CallKeeps ==
  ASSUME ~AssignSelf, ~LongSpreads, CallInv, [Next]_vars
  PROVE  CallInv'
<1>1. StackInv'
  BY StepIs DEF Promised
<1>2. FlagsInv'
  BY NextFlags DEF CallInv
<1>3. ProgramInv'
  <2>1. CASE MakeFunc
    BY <2>1, MakeIs
  <2>2. CASE ~MakeFunc
    BY <2>2, ProgramStays DEF CallInv, ProgramInv
  <2> QED BY <2>1, <2>2
<1> QED BY <1>1, <1>2, <1>3 DEF CallInv

(* However calls nest, whatever they are given and however they return,     *)
(* every activation has operands of its own on the one stack, begins with   *)
(* its parameters, and gives its caller what that waits for: the frames,    *)
(* their flags and the overlapping slots of ms_vm.c are unseen.  It is so   *)
(* unless an __init__ assigns to self or 256 arguments are unpacked: TLC    *)
(* refutes it if either may be.                                             *)
THEOREM CallsAreActivations == ASSUME ~AssignSelf, ~LongSpreads PROVE Spec => ImplementsActivations
<1>1. Init => CallInv /\ Activations!Init
  BY CallInit
<1>2. CallInv /\ [Next]_vars => CallInv'
  BY CallKeeps
<1>3. CallInv /\ [Next]_vars => [Activations!Next]_(Activations!avars)
  BY StepIs DEF Promised
<1>4. Spec => Activations!Init /\ [][Activations!Next]_(Activations!avars)
  BY <1>1, <1>2, <1>3, PTL DEF Spec
<1> QED BY <1>4 DEF ImplementsActivations, Activations!Spec
=================================================================================

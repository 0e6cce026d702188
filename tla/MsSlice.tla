-------------------------------- MODULE MsSlice --------------------------------
(***************************************************************************)
(* The integer arithmetic of slices (src/runtime/ms_slice.c) and ranges    *)
(* (ms_range.c), at a small width, and the loop over a range.  A signed    *)
(* sum that leaves the width is undefined in C; here it wraps around, as   *)
(* it does in the usual build.                                             *)
(***************************************************************************)
EXTENDS Integers, FiniteSets, Sequences, FiniteSetsExt

CONSTANTS
  Width,      \* bits of an int (64)
  Nil,        \* a component that is left out
  MaxLen,     \* bound on the length of the sequence that is sliced
  Extremes    \* arguments whose sums leave the width are used too

MaxInt == 2^(Width - 1) - 1
MinInt == -2^(Width - 1)
Ints == MinInt..MaxInt

SliceAssumption == Width \in Nat /\ Width >= 2 /\ Nil \notin Ints /\ MaxLen \in 0..MaxInt /\ Extremes \in BOOLEAN

VARIABLES
  arg,        \* the range, or the slice with the length of what it is applied to
  cur, n      \* the range iterator's position; how many integers it has returned

vars == <<arg, cur, n>>

Wrap(x) == ((x - MinInt) % 2^Width) + MinInt

(* Division in C truncates. *)
Quot(a, b) ==
  LET q == (IF a < 0 THEN -a ELSE a) \div (IF b < 0 THEN -b ELSE b) IN
  Wrap(IF (a < 0) = (b < 0) THEN q ELSE -q)

----------------------------------------------------------------------------
(* Slices. *)

clampBound(idx, lower, upper) == IF idx < lower THEN lower ELSE IF idx > upper THEN upper ELSE idx

resolveIndex(idx, len, lower, upper) == clampBound(IF idx < 0 THEN Wrap(idx + len) ELSE idx, lower, upper)

(* Mutant: a slice with a negative step starts from the same bounds as one  *)
(* with a positive step. *)
Bounds_Positive(step, len) == <<0, len>>

Bounds(step, len) == IF step > 0 THEN <<0, len>> ELSE <<-1, len - 1>>

msSliceNormalize(s) ==
  LET step == IF s.step = Nil THEN 1 ELSE s.step
      lower == Bounds(step, s.len)[1]
      upper == Bounds(step, s.len)[2]
      Resolved(idx, default) == IF idx = Nil THEN default ELSE resolveIndex(idx, s.len, lower, upper) IN
  [start |-> Resolved(s.start, IF step > 0 THEN lower ELSE upper),
   stop |-> Resolved(s.stop, IF step > 0 THEN upper ELSE lower),
   step |-> step]

msSliceCount(r) ==
  IF r.step > 0
  THEN IF r.start < r.stop THEN Quot(Wrap(Wrap(Wrap(r.stop - r.start) + r.step) - 1), r.step) ELSE 0
  ELSE IF r.start > r.stop THEN Quot(Wrap(Wrap(Wrap(r.start - r.stop) - r.step) - 1), Wrap(-r.step)) ELSE 0

(***************************************************************************)
(* The indices that msSliceFillValues reads, in order, up to one that is   *)
(* outside.  (The memcpy for a step of 1 reads the same ones.)             *)
(***************************************************************************)
RECURSIVE FillFrom(_, _)
FillFrom(i, r) ==
  IF IF r.step > 0 THEN i < r.stop ELSE i > r.stop
  THEN <<i>> \o (IF i \in 0..MaxLen - 1 THEN FillFrom(Wrap(i + r.step), r) ELSE <<>>)
  ELSE <<>>

msSliceFillValues(r) == FillFrom(r.start, r)

----------------------------------------------------------------------------
(* Ranges. *)

rangeExhausted(at, r) == (r.step > 0 /\ at >= r.stop) \/ (r.step < 0 /\ at <= r.stop)

(* Mutant: the count is rounded up for positive steps only. *)
rangeLen_RoundsDown(r) ==
  IF rangeExhausted(r.start, r) THEN 0
  ELSE LET q == Quot(Wrap(Wrap(Wrap(r.stop - r.start) + r.step) - 1), r.step) IN IF q > 0 THEN q ELSE 0

rangeLen(r) ==
  IF rangeExhausted(r.start, r) THEN 0
  ELSE LET q == Quot(Wrap(Wrap(Wrap(r.stop - r.start) + r.step) - (IF r.step > 0 THEN 1 ELSE -1)), r.step) IN
       IF q > 0 THEN q ELSE 0

(* r[idx], or Nil for an IndexError. *)
rangeGetItem(r, idx) ==
  LET i == IF idx < 0 THEN Wrap(idx + rangeLen(r)) ELSE idx IN
  IF i < 0 \/ i >= rangeLen(r) THEN Nil ELSE Wrap(r.start + Wrap(i * r.step))

rangeContains(r, x) ==
  IF r.step > 0
  THEN x >= r.start /\ x < r.stop /\ Wrap(x - r.start) % r.step = 0
  ELSE x <= r.start /\ x > r.stop /\ Wrap(r.start - x) % (-r.step) = 0

rangeEq(r, q) ==
  /\ rangeLen(r) = rangeLen(q)
  /\ \/ rangeLen(r) = 0
     \/ r.start = q.start /\ (rangeLen(r) = 1 \/ r.step = q.step)

----------------------------------------------------------------------------
(* The program: it slices, or loops over a range. *)

SlicesOf(len) == [len : {len}, start : Ints \cup {Nil}, stop : Ints \cup {Nil}, step : (Ints \ {0}) \cup {Nil}]

(* msBuiltinRange refuses the step 0. *)
Ranges == [start : Ints, stop : Ints, step : Ints \ {0}]

(* No sum on the way leaves the width. *)
SliceFits(s) == s.step = Nil \/ (s.len + s.step \in Ints /\ s.len - s.step \in Ints)
RangeFits(r) == /\ r.stop - r.start + r.step \in MinInt + 1..MaxInt
                /\ r.stop - r.start \in Ints
                /\ r.stop + r.step \in Ints

IsRange == DOMAIN arg = {"start", "stop", "step"}

(* rangeIter *)
Init == /\ \/ \E len \in 0..MaxLen : arg \in {s \in SlicesOf(len) : Extremes \/ SliceFits(s)}
           \/ arg \in {r \in Ranges : Extremes \/ RangeFits(r)}
        /\ cur = IF IsRange THEN arg.start ELSE 0
        /\ n = 0

Looping == IsRange /\ ~rangeExhausted(cur, arg)

rangeIterNext == /\ Looping
                 /\ n < 2^Width
                 /\ cur' = Wrap(cur + arg.step) /\ n' = n + 1 /\ arg' = arg

Next == rangeIterNext

Spec == Init /\ [][Next]_vars

----------------------------------------------------------------------------
(* Properties. *)

(* The indices of s[start:stop:step], by the definition of the language:   *)
(* of the positions start, start + step, ... up to stop, those that exist, *)
(* where negative bounds count from the end and a bound that is outside is *)
(* moved to the end it lies beyond. *)
Selected(s) ==
  LET step == IF s.step = Nil THEN 1 ELSE s.step
      From(idx) == IF idx < 0 THEN idx + s.len ELSE idx
      first == IF s.start = Nil THEN (IF step > 0 THEN 0 ELSE s.len - 1)
               ELSE IF step > 0 THEN Max({From(s.start), 0}) ELSE Min({From(s.start), s.len - 1})
      Before(i) == s.stop = Nil \/ (IF step > 0 THEN i < From(s.stop) ELSE i > From(s.stop)) IN
  {i \in 0..s.len - 1 : /\ Before(i)
                        /\ IF step > 0 THEN i >= first /\ (i - first) % step = 0
                                       ELSE i <= first /\ (first - i) % (-step) = 0}

(* A slice has the positions of the definition, each once and in the       *)
(* direction of the step, and msSliceCount, which sizes the new list, says *)
(* how many there are: the loop that fills it never leaves it or what it   *)
(* reads from (ms_list.c: "msSliceCount sizes the result list exactly"). *)
SlicesExact ==
  ~IsRange => LET r == msSliceNormalize(arg)
                  read == msSliceFillValues(r) IN
              /\ Len(read) = msSliceCount(r)
              /\ {read[k] : k \in 1..Len(read)} = Selected(arg)
              /\ \A k \in 1..Len(read) - 1 : read[k + 1] - read[k] = r.step

(* What the loop over a range returns, its len, its items, from the front  *)
(* and the back, and `in' agree, two ranges with the same items are equal, *)
(* and the loop does not go on after the last item. *)
RangesExact ==
  IsRange =>
    LET len == rangeLen(arg)
        items == {arg.start + k * arg.step : k \in 0..len - 1} IN
    /\ n <= len
    /\ ~rangeExhausted(cur, arg) => n < len /\ cur = rangeGetItem(arg, n) /\ cur = rangeGetItem(arg, n - len)
    /\ rangeExhausted(cur, arg) => n = len
    /\ \A x \in Ints : rangeContains(arg, x) <=> x \in items
    /\ rangeGetItem(arg, len) = Nil /\ rangeGetItem(arg, -len - 1) = Nil
    /\ len > 0 => rangeEq(arg, [arg EXCEPT !.stop = arg.start + (len - 1) * arg.step
                                                     + (IF arg.step > 0 THEN 1 ELSE -1)])
    /\ len > 1 => ~rangeEq(arg, [arg EXCEPT !.stop = arg.start + arg.step])
===============================================================================

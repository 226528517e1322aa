------------------------------ MODULE Hll8Array ------------------------------
(***************************************************************************)
(* The dense HLL_8 sketch: one byte per slot holding the largest value     *)
(* offered to that slot, the count of slots still at zero (kept in         *)
(* numAtCurMin) and the two KxQ accumulators that every estimator reads.   *)
(* HLL_6 runs the same handler over 6-bit slots.                           *)
(*                                                                         *)
(* A coupon is abstracted to the pair (slot, value) it selects: the slot   *)
(* is low26 & configKmask, the value its upper six bits.  An accumulator   *)
(* is held as the integer KxQ * 2^MaxValue, so 2^-v becomes                *)
(* 2^(MaxValue - v) and the arithmetic is exact, as it is in the doubles   *)
(* of the code for the value range of each register.                       *)
(***************************************************************************)
EXTENDS Integers, FiniteSets, FiniteSetsExt

CONSTANTS
  Slots,      \* the slot numbers 0 .. configK-1
  MaxValue,   \* the largest coupon value (63 in the code)
  KxQSplit    \* values from here on are summed in kxq1 (32 in the code)

VARIABLES
  hllByteArr,   \* slot -> value, 0 when the slot is empty
  numAtCurMin,  \* number of zero slots (curMin stays 0 in HLL_8 and HLL_6)
  kxq0, kxq1    \* scaled sums of 2^-value for values < and >= KxQSplit

vars == <<hllByteArr, numAtCurMin, kxq0, kxq1>>

Values    == 1 .. MaxValue
Registers == [Slots -> 0 .. MaxValue]

InvPow2(e) == 2 ^ (MaxValue - e)

\* The scaled sums over a whole array, split as the two accumulators are.
KxQ0Of(r) == MapThenSumSet(LAMBDA s : InvPow2(r[s]), {s \in Slots : r[s] < KxQSplit})
KxQ1Of(r) == MapThenSumSet(LAMBDA s : InvPow2(r[s]), {s \in Slots : r[s] >= KxQSplit})

----------------------------------------------------------------------------
(* What hipAndKxQIncrementalUpdate does to the accumulators. *)

KxQ0After(old, new) ==
  kxq0 + (IF new < KxQSplit THEN InvPow2(new) ELSE 0)
       - (IF old < KxQSplit THEN InvPow2(old) ELSE 0)

KxQ1After(old, new) ==
  kxq1 + (IF new >= KxQSplit THEN InvPow2(new) ELSE 0)
       - (IF old >= KxQSplit THEN InvPow2(old) ELSE 0)

Init ==
  /\ hllByteArr = [s \in Slots |-> 0]
  /\ numAtCurMin = Cardinality(Slots)
  /\ kxq0 = KxQ0Of(hllByteArr)
  /\ kxq1 = KxQ1Of(hllByteArr)

\* Only a larger value changes the slot; the first value of a slot takes it
\* out of the count of zeros.
couponUpdate(s, v) ==
  /\ v > hllByteArr[s]
  /\ hllByteArr' = [hllByteArr EXCEPT ![s] = v]
  /\ kxq0' = KxQ0After(hllByteArr[s], v)
  /\ kxq1' = KxQ1After(hllByteArr[s], v)
  /\ numAtCurMin' = IF hllByteArr[s] = 0 THEN numAtCurMin - 1 ELSE numAtCurMin

\* Builds a fresh array from the non-zero registers of another one and counts
\* the zeros it left out.
convertToHll8 ==
  /\ \A s \in Slots : hllByteArr[s] = 0
  /\ \E src \in Registers :
       /\ hllByteArr' = src
       /\ numAtCurMin' = Cardinality({s \in Slots : src[s] = 0})
       /\ kxq0' = KxQ0Of(src)
       /\ kxq1' = KxQ1Of(src)

Next ==
  \/ \E s \in Slots, v \in Values : couponUpdate(s, v)
  \/ convertToHll8

Spec == Init /\ [][Next]_vars

----------------------------------------------------------------------------
(* The incrementally maintained accumulators always equal the sums over    *)
(* the registers they summarise (HllArray.cpp hipAndKxQIncrementalUpdate): *)
(* a drift here silently biases every estimate.                            *)
KxQExact == kxq0 = KxQ0Of(hllByteArr) /\ kxq1 = KxQ1Of(hllByteArr)
=============================================================================

------------------------------ MODULE Hll4Array ------------------------------
(***************************************************************************)
(* The dense HLL_4 sketch.  A slot's value is kept as a nibble relative to *)
(* curMin; a value AuxToken or more above curMin is an exception: its      *)
(* nibble is the reserved AuxToken and the value itself is in auxHashMap.  *)
(* When the last slot at curMin is raised, the array is shifted: curMin    *)
(* goes up by one, the nibbles down by one, and exceptions that now fit    *)
(* leave the map.                                                          *)
(*                                                                         *)
(* auxHashMap is a partial function here; module AuxHashMap shows that the *)
(* probed table behaves like one.  A null map and an empty one are the     *)
(* same partial function: the code only ever holds null or a filled map.   *)
(* One call of couponUpdate is the step couponUpdate followed by one step  *)
(* shiftToBiggerCurMin for each turn of its while loop; pc keeps every     *)
(* other operation out until the loop has ended.  A throw leaves the state *)
(* as it was and sets fault.                                               *)
(***************************************************************************)
EXTENDS Integers, FiniteSets

CONSTANTS
  Slots,      \* the slot numbers 0 .. configK-1
  MaxValue,   \* the largest coupon value (63 in the code)
  KxQSplit,   \* values from here on are summed in kxq1 (32 in the code)
  AuxToken    \* the nibble that marks an exception (15 in the code)

ASSUME Hll4Assumption ==
  /\ IsFiniteSet(Slots) /\ Slots # {}
  /\ MaxValue \in Nat \ {0}
  /\ KxQSplit \in Nat
  /\ AuxToken \in Nat /\ AuxToken >= 2
  /\ \A e \in 0 .. MaxValue : 2 ^ (MaxValue - e) \in Nat

VARIABLES
  nibble,       \* hllByteArr seen as one nibble per slot
  auxHashMap,   \* slot -> value, for the exceptions only
  curMin,       \* no slot is below curMin ...
  numAtCurMin,  \* ... and this many are at it
  kxq0, kxq1,   \* the accumulators, scaled as in Hll8Array
  pc,           \* "ready", or "shift" inside the while loop of an update
  fault,        \* TRUE once a throw of the code was reached
  offered       \* history: the largest value offered to each slot

vars == <<nibble, auxHashMap, curMin, numAtCurMin, kxq0, kxq1, pc, fault, offered>>

\* The value of every slot, as Hll4Iterator::value reads it.
Decoded ==
  [s \in Slots |-> IF nibble[s] = AuxToken THEN auxHashMap[s] ELSE nibble[s] + curMin]

\* The HLL_8 sketch that this one stands for.
Hll8 == INSTANCE Hll8Array WITH
  hllByteArr  <- Decoded,
  numAtCurMin <- Cardinality({s \in Slots : Decoded[s] = 0})

TokenSlots == {s \in Slots : nibble[s] = AuxToken}

TypeOK ==
  /\ nibble \in [Slots -> 0 .. AuxToken]
  /\ DOMAIN auxHashMap \subseteq Slots
  /\ \A s \in DOMAIN auxHashMap : auxHashMap[s] \in 0 .. MaxValue
  /\ curMin \in 0 .. MaxValue
  /\ numAtCurMin \in 0 .. Cardinality(Slots)
  /\ pc \in {"ready", "shift"}
  /\ fault \in BOOLEAN
  /\ offered \in [Slots -> 0 .. MaxValue]

Init ==
  /\ nibble = [s \in Slots |-> 0]
  /\ auxHashMap = [s \in {} |-> 0]
  /\ curMin = 0
  /\ numAtCurMin = Cardinality(Slots)
  /\ kxq0 = Hll8!KxQ0Of([s \in Slots |-> 0])
  /\ kxq1 = Hll8!KxQ1Of([s \in Slots |-> 0])
  /\ pc = "ready"
  /\ fault = FALSE
  /\ offered = [s \in Slots |-> 0]

throw ==
  /\ fault' = TRUE
  /\ UNCHANGED <<nibble, auxHashMap, curMin, numAtCurMin, kxq0, kxq1, pc>>

----------------------------------------------------------------------------
(* couponUpdate and internalHll4Update *)

\* The lower bound on a slot's value that the nibble alone gives.
lbOnOldValue(s) == nibble[s] + curMin

actualOldValue(s) ==
  IF nibble[s] < AuxToken THEN lbOnOldValue(s) ELSE auxHashMap[s]

\* mustFindValueFor throws when an exception has no entry.
missing(s) == nibble[s] = AuxToken /\ s \notin DOMAIN auxHashMap

\* The two cheap rejections, by curMin and by the nibble, and the exact one.
\* Slip: the quick rejection also drops curMin + 1.
changesLate(s, v) == v > curMin + 1 /\ v > lbOnOldValue(s) /\ v > actualOldValue(s)

changes(s, v) == v > curMin /\ v > lbOnOldValue(s) /\ v > actualOldValue(s)

\* The throws of a call that changes the array: a replacement by a value that
\* is no exception, a second entry for the slot, no slot left at curMin.
UpdateThrows(s, v) ==
  \/ v < curMin
  \/ nibble[s] = AuxToken /\ v - curMin < AuxToken
  \/ nibble[s] # AuxToken /\ v - curMin >= AuxToken /\ s \in DOMAIN auxHashMap
  \/ actualOldValue(s) = curMin /\ numAtCurMin < 1

\* mustReplace and mustAdd both leave s bound to v.
AuxWith(s, v) ==
  [t \in DOMAIN auxHashMap \union {s} |-> IF t = s THEN v ELSE auxHashMap[t]]

\* Slip: exceptions are not recognised.
storeNoToken(s, v) ==
  nibble' = [nibble EXCEPT ![s] = v - curMin] /\ UNCHANGED auxHashMap

\* The four cases of the code: exception or not before, exception or not now.
store(s, v) ==
  IF v - curMin >= AuxToken
  THEN nibble' = [nibble EXCEPT ![s] = AuxToken] /\ auxHashMap' = AuxWith(s, v)
  ELSE nibble' = [nibble EXCEPT ![s] = v - curMin] /\ UNCHANGED auxHashMap

\* What the call does from hipAndKxQIncrementalUpdate on, given the old value.
\* Slip: every growing slot is taken off the count of slots at curMin.
raiseOvercounting(s, old, v) ==
  /\ store(s, v)
  /\ kxq0' = Hll8!KxQ0After(old, v)
  /\ kxq1' = Hll8!KxQ1After(old, v)
  /\ numAtCurMin' = numAtCurMin - 1
  /\ pc' = IF numAtCurMin' = 0 THEN "shift" ELSE "ready"
  /\ UNCHANGED <<curMin, fault>>

\* Slip: the accumulators drop the nibble's lower bound, not the old value.
raiseFromLowerBound(s, old, v) ==
  /\ store(s, v)
  /\ kxq0' = Hll8!KxQ0After(lbOnOldValue(s), v)
  /\ kxq1' = Hll8!KxQ1After(lbOnOldValue(s), v)
  /\ numAtCurMin' = numAtCurMin - (IF old = curMin THEN 1 ELSE 0)
  /\ pc' = IF numAtCurMin' = 0 THEN "shift" ELSE "ready"
  /\ UNCHANGED <<curMin, fault>>

raise(s, old, v) ==
  /\ store(s, v)
  /\ kxq0' = Hll8!KxQ0After(old, v)
  /\ kxq1' = Hll8!KxQ1After(old, v)
  /\ numAtCurMin' = numAtCurMin - (IF old = curMin THEN 1 ELSE 0)
  /\ pc' = IF old = curMin /\ numAtCurMin' = 0 THEN "shift" ELSE "ready"
  /\ UNCHANGED <<curMin, fault>>

couponUpdate(s, v) ==
  /\ pc = "ready" /\ ~ fault
  /\ offered' = [offered EXCEPT ![s] = IF v > @ THEN v ELSE @]
  /\ \/ missing(s) /\ v > lbOnOldValue(s) /\ throw
     \/ /\ ~ missing(s) /\ changes(s, v)
        /\ \/ UpdateThrows(s, v) /\ throw
           \/ ~ UpdateThrows(s, v) /\ raise(s, actualOldValue(s), v)
     \/ /\ v <= lbOnOldValue(s) \/ (~ missing(s) /\ ~ changes(s, v))
        /\ UNCHANGED <<nibble, auxHashMap, curMin, numAtCurMin, kxq0, kxq1, pc, fault>>

----------------------------------------------------------------------------
(* shiftToBiggerCurMin: one turn of the loop *)

\* The exceptions that stay exceptions relative to the next curMin, and the
\* others, which get a nibble again.
\* Slip: the values are compared with the curMin of before the shift.
KeptByOldMin == {s \in DOMAIN auxHashMap : auxHashMap[s] - curMin >= AuxToken}

Kept    == {s \in DOMAIN auxHashMap : auxHashMap[s] - (curMin + 1) >= AuxToken}
Dropped == DOMAIN auxHashMap \ Kept

ShiftThrows ==
  \/ \E s \in Slots : nibble[s] = 0
  \/ DOMAIN auxHashMap = {} /\ TokenSlots # {}
  \/ \E s \in DOMAIN auxHashMap :
       \/ auxHashMap[s] < curMin + 1
       \/ nibble[s] # AuxToken
       \/ s \in Dropped /\ auxHashMap[s] - (curMin + 1) # AuxToken - 1
  \/ Kept # {} /\ Cardinality(Kept) # Cardinality(TokenSlots) - Cardinality(Dropped)

\* The nibble of a slot after the shift.
\* Slip: an exception that fits again leaves the map but keeps its token.
shiftedKeepingToken(s) == IF nibble[s] = AuxToken THEN AuxToken ELSE nibble[s] - 1

\* Slip: only the exceptions are corrected, the other nibbles stay.
shiftedExceptionsOnly(s) ==
  IF s \in Dropped THEN auxHashMap[s] - (curMin + 1) ELSE nibble[s]

shifted(s) ==
  IF s \in Dropped THEN auxHashMap[s] - (curMin + 1)
  ELSE IF nibble[s] = AuxToken THEN AuxToken ELSE nibble[s] - 1

\* Slip: the slots at the new curMin are not counted.
shiftWithoutCount ==
  /\ pc = "shift" /\ ~ fault
  /\ \/ ShiftThrows /\ throw
     \/ /\ ~ ShiftThrows
        /\ nibble' = [s \in Slots |-> shifted(s)]
        /\ auxHashMap' = [s \in Kept |-> auxHashMap[s]]
        /\ curMin' = curMin + 1
        /\ UNCHANGED <<numAtCurMin, kxq0, kxq1, pc, fault>>
  /\ UNCHANGED offered

shiftToBiggerCurMin ==
  /\ pc = "shift" /\ ~ fault
  /\ \/ ShiftThrows /\ throw
     \/ /\ ~ ShiftThrows
        /\ nibble' = [s \in Slots |-> shifted(s)]
        /\ auxHashMap' = [s \in Kept |-> auxHashMap[s]]
        /\ curMin' = curMin + 1
        /\ numAtCurMin' = Cardinality({s \in Slots : nibble[s] = 1})
        /\ pc' = IF numAtCurMin' = 0 THEN "shift" ELSE "ready"
        /\ UNCHANGED <<kxq0, kxq1, fault>>
  /\ UNCHANGED offered

----------------------------------------------------------------------------
(* Conversions::convertToHll4: a fresh array filled from the registers of  *)
(* an HLL_6 or HLL_8 one, in two passes: curMinAndNum, then the slots.     *)

curMinOf(src) == CHOOSE m \in 0 .. MaxValue :
                    /\ \E s \in Slots : src[s] = m
                    /\ \A s \in Slots : src[s] >= m

exceptionsOf(src) == {s \in Slots : src[s] >= curMinOf(src) + AuxToken}

convertToHll4 ==
  /\ pc = "ready" /\ ~ fault
  /\ \A s \in Slots : Decoded[s] = 0
  /\ \E src \in Hll8!Registers :
       /\ nibble' = [s \in Slots |->
                       IF s \in exceptionsOf(src) THEN AuxToken ELSE src[s] - curMinOf(src)]
       /\ auxHashMap' = [s \in exceptionsOf(src) |-> src[s]]
       /\ curMin' = curMinOf(src)
       /\ numAtCurMin' = Cardinality({s \in Slots : src[s] = curMinOf(src)})
       /\ kxq0' = Hll8!KxQ0Of(src)
       /\ kxq1' = Hll8!KxQ1Of(src)
       /\ offered' = src
  /\ UNCHANGED <<pc, fault>>

Next ==
  \/ \E s \in Slots, v \in Hll8!Values : couponUpdate(s, v)
  \/ shiftToBiggerCurMin
  \/ convertToHll4

Spec == Init /\ [][Next]_vars

\* The loop runs inside the call that entered it.
FairSpec == Spec /\ WF_vars(shiftToBiggerCurMin)

----------------------------------------------------------------------------
(* Properties *)

(* No throw in Hll4Array.cpp (lookups of exceptions that must exist,       *)
(* insertions that must be new, counts that must agree, "Impossible case") *)
(* can be reached by any sequence of updates and conversions.              *)
NoThrow == ~ fault

(* The representation depends on nothing but the registers it stands for   *)
(* and curMin: a slot carries the token exactly when its value does not    *)
(* fit a nibble, and exactly those slots are in the exception map.         *)
Canonical ==
  /\ nibble = [s \in Slots |-> IF offered[s] >= curMin + AuxToken
                              THEN AuxToken ELSE offered[s] - curMin]
  /\ auxHashMap = [s \in {t \in Slots : offered[t] >= curMin + AuxToken} |-> offered[s]]

(* curMin is a lower bound of every slot and numAtCurMin counts the slots  *)
(* at it; between calls there is at least one, so curMin is the minimum.   *)
(* The quick rejection of values <= curMin is sound only because of this.  *)
CurMinIsMinimum ==
  /\ \A s \in Slots : offered[s] >= curMin
  /\ numAtCurMin = Cardinality({s \in Slots : offered[s] = curMin})
  /\ pc = "ready" <=> numAtCurMin > 0

(* No coupon is lost or invented: every slot decodes to the largest value  *)
(* offered to it, in spite of the rejections of couponUpdate that look at  *)
(* curMin and at the nibble only.                                          *)
HoldsMaximum == Decoded = offered

(* The accumulators of the HLL_4 sketch are those of its decoded registers. *)
KxQExact == Hll8!KxQExact

(* HLL_4 implements HLL_8: the same coupons give the same registers and    *)
(* the same accumulators, hence the same estimates, whatever curMin and    *)
(* the exceptions went through.                                            *)
ImplementsHll8 == Hll8!Spec

(* The while loop around shiftToBiggerCurMin ends. *)
ShiftEnds == pc = "shift" ~> pc = "ready"
=============================================================================

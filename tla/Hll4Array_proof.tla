--------------------------- MODULE Hll4Array_proof ---------------------------
(***************************************************************************)
(* Proofs about Hll4Array for every number of slots, every value range and *)
(* every token.  The inductive invariant says that the representation is   *)
(* the canonical one for the values offered so far.                        *)
(***************************************************************************)
EXTENDS Hll4Array, TLAPS, FiniteSetTheorems, WellFoundedInduction

IInv == TypeOK /\ NoThrow /\ Canonical /\ CurMinIsMinimum

(* A non-empty set of naturals has a least element. *)
LEMMA LeastNatural ==
  ASSUME NEW T, T \subseteq Nat, T # {}
  PROVE  \E x \in T : \A y \in T : x <= y
<1>1. PICK x \in T : \A y \in T : ~ (<<y, x>> \in OpToRel(<, Nat))
  BY NatLessThanWellFounded, WFMin
<1>2. \A y \in T : ~ (y < x)
  BY <1>1 DEF OpToRel
<1>. QED BY <1>2

(* curMinAndNum finds the minimum of any array of registers. *)
LEMMA CurMinOfIsMinimum ==
  ASSUME NEW src \in [Slots -> 0 .. MaxValue]
  PROVE  /\ curMinOf(src) \in 0 .. MaxValue
         /\ \E s \in Slots : src[s] = curMinOf(src)
         /\ \A s \in Slots : src[s] >= curMinOf(src)
<1>. DEFINE T == {src[s] : s \in Slots}
<1>1. T \subseteq Nat /\ T # {}
  BY Hll4Assumption
<1>. HIDE DEF T
<1>2. PICK x \in T : \A y \in T : x <= y
  BY <1>1, LeastNatural
<1>3. x \in 0 .. MaxValue /\ (\E s \in Slots : src[s] = x) /\ (\A s \in Slots : src[s] >= x)
  BY <1>2, Hll4Assumption DEF T
<1>. QED BY <1>3 DEF curMinOf

(* Facts of every state of the invariant, used by each step below. *)
LEMMA Representation ==
  ASSUME IInv, NEW s \in Slots
  PROVE  /\ offered[s] \in 0 .. MaxValue /\ curMin \in 0 .. MaxValue
         /\ offered[s] >= curMin
         /\ nibble[s] = AuxToken <=> offered[s] >= curMin + AuxToken
         /\ nibble[s] # AuxToken => nibble[s] = offered[s] - curMin
         /\ s \in DOMAIN auxHashMap <=> nibble[s] = AuxToken
         /\ s \in DOMAIN auxHashMap => auxHashMap[s] = offered[s]
         /\ Decoded[s] = offered[s]
         /\ actualOldValue(s) = offered[s]
         /\ lbOnOldValue(s) <= offered[s]
         /\ ~ missing(s)
<1>1. /\ offered[s] \in 0 .. MaxValue /\ curMin \in 0 .. MaxValue
      /\ offered[s] >= curMin
  BY DEF IInv, TypeOK, CurMinIsMinimum
<1>2. /\ nibble[s] = AuxToken <=> offered[s] >= curMin + AuxToken
      /\ nibble[s] # AuxToken => nibble[s] = offered[s] - curMin
      /\ nibble[s] \in 0 .. AuxToken
  BY <1>1, Hll4Assumption DEF IInv, Canonical, TypeOK
<1>3. /\ s \in DOMAIN auxHashMap <=> nibble[s] = AuxToken
      /\ s \in DOMAIN auxHashMap => auxHashMap[s] = offered[s]
  BY <1>2 DEF IInv, Canonical
<1>. QED
  BY <1>1, <1>2, <1>3, Hll4Assumption DEF Decoded, actualOldValue, lbOnOldValue, missing

\* The registers read from the nibbles are the values offered.
LEMMA DecodedIsOffered == IInv => Decoded = offered
<1>. SUFFICES ASSUME IInv PROVE Decoded = offered
  OBVIOUS
<1>1. offered \in [Slots -> 0 .. MaxValue]
  BY DEF IInv, TypeOK
<1>2. \A s \in Slots : Decoded[s] = offered[s]
  BY Representation
<1>. QED BY <1>1, <1>2 DEF Decoded

\* The inductive invariant holds at first.
LEMMA InitEstablishes == Init => IInv
<1>. SUFFICES ASSUME Init PROVE IInv
  OBVIOUS
<1>0. /\ nibble = [s \in Slots |-> 0] /\ auxHashMap = [s \in {} |-> 0]
      /\ curMin = 0 /\ numAtCurMin = Cardinality(Slots)
      /\ pc = "ready" /\ fault = FALSE /\ offered = [s \in Slots |-> 0]
  BY DEF Init
<1>1. Cardinality(Slots) \in Nat /\ Cardinality(Slots) > 0
  BY Hll4Assumption, FS_CardinalityType, FS_EmptySet
<1>2. {s \in Slots : offered[s] = curMin} = Slots
  BY <1>0
<1>3. TypeOK /\ NoThrow
  <2>1. nibble \in [Slots -> 0 .. AuxToken] /\ offered \in [Slots -> 0 .. MaxValue]
    BY <1>0, Hll4Assumption
  <2>2. fault \in BOOLEAN /\ ~ fault /\ pc \in {"ready", "shift"}
    BY <1>0
  <2>3. curMin \in 0 .. MaxValue /\ numAtCurMin \in 0 .. Cardinality(Slots)
    BY <1>0, <1>1, Hll4Assumption
  <2>4. DOMAIN auxHashMap = {}
    BY <1>0
  <2>. QED BY <2>1, <2>2, <2>3, <2>4 DEF TypeOK, NoThrow
<1>4. Canonical
  BY <1>0, Hll4Assumption DEF Canonical
<1>5. CurMinIsMinimum
  <2>1. \A s \in Slots : offered[s] >= curMin
    BY <1>0
  <2>2. numAtCurMin = Cardinality({s \in Slots : offered[s] = curMin})
    BY <1>0, <1>2
  <2>3. pc = "ready" /\ numAtCurMin > 0
    BY <1>0, <1>1
  <2>. QED BY <2>1, <2>2, <2>3 DEF CurMinIsMinimum
<1>. QED BY <1>3, <1>4, <1>5 DEF IInv

(* An update that changes the array: the slot is rewritten in whichever of *)
(* the four cases applies, and leaves the slots at curMin if it was there. *)
LEMMA RaisePreserves ==
  ASSUME IInv, NEW s \in Slots, NEW v \in 1 .. MaxValue, pc = "ready",
         changes(s, v), raise(s, actualOldValue(s), v),
         offered' = [offered EXCEPT ![s] = IF v > @ THEN v ELSE @]
  PROVE  IInv'
<1>0. /\ offered[s] \in 0 .. MaxValue /\ curMin \in 0 .. MaxValue /\ offered[s] >= curMin
      /\ actualOldValue(s) = offered[s] /\ v > offered[s] /\ v > curMin
  BY Representation DEF changes
<1>1. offered' = [offered EXCEPT ![s] = v] /\ offered' \in [Slots -> 0 .. MaxValue]
  BY <1>0 DEF IInv, TypeOK
<1>2. curMin' = curMin /\ fault' = fault /\ store(s, v)
  BY DEF raise
<1>3. Canonical'
  <2>1. nibble \in [Slots -> 0 .. AuxToken] /\ offered \in [Slots -> 0 .. MaxValue]
    BY DEF IInv, TypeOK
  <2>2. CASE v - curMin >= AuxToken
    <3>1. nibble' = [nibble EXCEPT ![s] = AuxToken] /\ auxHashMap' = AuxWith(s, v)
      BY <1>2, <2>2 DEF store
    <3>2. nibble' = [t \in Slots |-> IF offered'[t] >= curMin + AuxToken
                                    THEN AuxToken ELSE offered'[t] - curMin]
      BY <1>0, <1>1, <2>1, <2>2, <3>1, Hll4Assumption DEF IInv, Canonical
    <3>3. DOMAIN auxHashMap \union {s} = {t \in Slots : offered'[t] >= curMin + AuxToken}
      BY <1>0, <1>1, <2>1, <2>2, Hll4Assumption DEF IInv, Canonical
    <3>4. auxHashMap' = [t \in {u \in Slots : offered'[u] >= curMin + AuxToken} |-> offered'[t]]
      BY <1>0, <1>1, <2>1, <3>1, <3>3 DEF IInv, Canonical, AuxWith
    <3>. QED BY <1>2, <3>2, <3>4 DEF Canonical
  <2>3. CASE ~ (v - curMin >= AuxToken)
    <3>1. nibble' = [nibble EXCEPT ![s] = v - curMin] /\ auxHashMap' = auxHashMap
      BY <1>2, <2>3 DEF store
    <3>2. nibble' = [t \in Slots |-> IF offered'[t] >= curMin + AuxToken
                                    THEN AuxToken ELSE offered'[t] - curMin]
      BY <1>0, <1>1, <2>1, <2>3, <3>1, Hll4Assumption DEF IInv, Canonical
    <3>3. DOMAIN auxHashMap = {t \in Slots : offered'[t] >= curMin + AuxToken}
      BY <1>0, <1>1, <2>1, <2>3, Hll4Assumption DEF IInv, Canonical
    <3>4. auxHashMap' = [t \in {u \in Slots : offered'[u] >= curMin + AuxToken} |-> offered'[t]]
      BY <1>0, <1>1, <2>1, <2>3, <3>1, <3>3 DEF IInv, Canonical
    <3>. QED BY <1>2, <3>2, <3>4 DEF Canonical
  <2>. QED BY <2>2, <2>3
<1>4. CurMinIsMinimum' /\ numAtCurMin' \in 0 .. Cardinality(Slots) /\ pc' \in {"ready", "shift"}
  <2>. DEFINE A == {t \in Slots : offered[t] = curMin}
              B == {t \in Slots : offered'[t] = curMin}
  <2>1. IsFiniteSet(A) /\ Cardinality(A) \in Nat /\ Cardinality(A) <= Cardinality(Slots)
    BY Hll4Assumption, FS_Subset, FS_CardinalityType
  <2>2. B = A \ {s}
    BY <1>0, <1>1
  <2>3. Cardinality(B) = Cardinality(A) - (IF offered[s] = curMin THEN 1 ELSE 0)
    <3>1. Cardinality(A \ {s}) = IF s \in A THEN Cardinality(A) - 1 ELSE Cardinality(A)
      BY <2>1, FS_RemoveElement
    <3>2. s \in A <=> offered[s] = curMin
      OBVIOUS
    <3>. HIDE DEF A, B
    <3>. QED BY <2>1, <2>2, <3>1, <3>2
  <2>4. Cardinality(B) \in Nat
    <3>1. IsFiniteSet(A \ {s})
      BY <2>1, FS_RemoveElement
    <3>2. Cardinality(A \ {s}) \in Nat
      BY <3>1, FS_CardinalityType
    <3>. QED BY <2>2, <3>2
  <2>5. numAtCurMin = Cardinality(A) /\ numAtCurMin > 0
    BY DEF IInv, CurMinIsMinimum
  <2>6. numAtCurMin' = numAtCurMin - (IF offered[s] = curMin THEN 1 ELSE 0)
    BY <1>0 DEF raise
  <2>7. numAtCurMin' = Cardinality(B)
    BY <2>3, <2>5, <2>6
  <2>8. pc' = IF offered[s] = curMin /\ numAtCurMin' = 0 THEN "shift" ELSE "ready"
    BY <1>0 DEF raise
  <2>9. pc' = "ready" <=> numAtCurMin' > 0
    BY <2>1, <2>4, <2>5, <2>6, <2>7, <2>8
  <2>10. \A t \in Slots : offered'[t] >= curMin
    BY <1>0, <1>1 DEF IInv, CurMinIsMinimum
  <2>11. B = {t \in Slots : offered'[t] = curMin'}
    BY <1>2
  <2>12. numAtCurMin' = Cardinality({t \in Slots : offered'[t] = curMin'})
    BY <2>7, <2>11
  <2>13. numAtCurMin' \in 0 .. Cardinality(Slots)
    BY <2>1, <2>4, <2>5, <2>6, <2>7, Hll4Assumption, FS_CardinalityType
  <2>. QED BY <1>2, <2>8, <2>9, <2>10, <2>12, <2>13 DEF CurMinIsMinimum
<1>5. TypeOK' /\ NoThrow'
  <2>1. nibble' \in [Slots -> 0 .. AuxToken]
    BY <1>0, <1>2, Hll4Assumption DEF IInv, TypeOK, store
  <2>2. DOMAIN auxHashMap' \subseteq Slots /\ \A t \in DOMAIN auxHashMap' : auxHashMap'[t] \in 0 .. MaxValue
    BY <1>1, <1>3 DEF Canonical
  <2>. QED BY <1>0, <1>1, <1>2, <1>4, <2>1, <2>2 DEF IInv, TypeOK, NoThrow
<1>. QED BY <1>3, <1>4, <1>5 DEF IInv

(* One turn of the shift loop: with no slot left at curMin, lowering every *)
(* nibble by one and re-homing the exceptions that fit again gives the     *)
(* canonical representation for curMin + 1.                                *)
LEMMA ShiftPreserves ==
  ASSUME IInv, shiftToBiggerCurMin
  PROVE  IInv'
<1>1. pc = "shift" /\ offered' = offered
  BY DEF shiftToBiggerCurMin
<1>2. \A s \in Slots : /\ offered[s] \in 0 .. MaxValue /\ curMin \in 0 .. MaxValue
                       /\ offered[s] >= curMin + 1
                       /\ nibble[s] = AuxToken <=> offered[s] >= curMin + AuxToken
                       /\ nibble[s] # AuxToken => nibble[s] = offered[s] - curMin
                       /\ s \in DOMAIN auxHashMap <=> nibble[s] = AuxToken
                       /\ s \in DOMAIN auxHashMap => auxHashMap[s] = offered[s]
  <2>. DEFINE A == {t \in Slots : offered[t] = curMin}
  <2>1. IsFiniteSet(A) /\ Cardinality(A) = 0
    <3>1. numAtCurMin = Cardinality(A) /\ ~ (numAtCurMin > 0)
      BY <1>1 DEF IInv, CurMinIsMinimum
    <3>2. numAtCurMin \in 0 .. Cardinality(Slots)
      BY DEF IInv, TypeOK
    <3>3. Cardinality(Slots) \in Nat
      BY Hll4Assumption, FS_CardinalityType
    <3>. QED BY <3>1, <3>2, <3>3, Hll4Assumption, FS_Subset
  <2>2. A = {}
    BY <2>1, FS_EmptySet
  <2>. QED BY <2>2, Representation
<1>3. DOMAIN auxHashMap = TokenSlots /\ TokenSlots \subseteq Slots
  BY <1>2 DEF IInv, TypeOK, TokenSlots
<1>4. ~ ShiftThrows
  <2>1. \A s \in Slots : nibble[s] # 0
    BY <1>2, Hll4Assumption
  <2>2. \A s \in DOMAIN auxHashMap :
          /\ ~ (auxHashMap[s] < curMin + 1) /\ nibble[s] = AuxToken
          /\ s \in Dropped => auxHashMap[s] - (curMin + 1) = AuxToken - 1
    BY <1>2, <1>3, Hll4Assumption DEF Dropped, Kept
  <2>3. Cardinality(Kept) = Cardinality(TokenSlots) - Cardinality(Dropped)
    <3>1. IsFiniteSet(TokenSlots) /\ IsFiniteSet(Dropped) /\ Dropped \subseteq TokenSlots
      BY <1>3, Hll4Assumption, FS_Subset DEF Dropped
    <3>2. Kept = TokenSlots \ Dropped /\ TokenSlots \intersect Dropped = Dropped
      BY <1>3 DEF Dropped, Kept
    <3>. QED BY <3>1, <3>2, FS_Difference
  <2>. QED BY <1>3, <2>1, <2>2, <2>3 DEF ShiftThrows
<1>5. /\ nibble' = [s \in Slots |-> shifted(s)]
      /\ auxHashMap' = [s \in Kept |-> auxHashMap[s]]
      /\ curMin' = curMin + 1
      /\ numAtCurMin' = Cardinality({s \in Slots : nibble[s] = 1})
      /\ pc' = IF numAtCurMin' = 0 THEN "shift" ELSE "ready"
      /\ fault' = fault
  BY <1>4 DEF shiftToBiggerCurMin
<1>6. Canonical'
  <2>1. \A s \in Slots : shifted(s) = IF offered[s] >= (curMin + 1) + AuxToken
                                     THEN AuxToken ELSE offered[s] - (curMin + 1)
    BY <1>2, Hll4Assumption DEF shifted, Dropped, Kept
  <2>2. Kept = {t \in Slots : offered[t] >= (curMin + 1) + AuxToken}
    BY <1>2, <1>3, Hll4Assumption DEF Kept, IInv, TypeOK
  <2>3. \A s \in Kept : auxHashMap[s] = offered[s]
    BY <1>2, <1>3 DEF Kept
  <2>. QED BY <1>1, <1>5, <2>1, <2>2, <2>3 DEF Canonical
<1>7. curMin' \in 0 .. MaxValue
  BY <1>2, <1>5, Hll4Assumption
<1>8. CurMinIsMinimum' /\ numAtCurMin' \in 0 .. Cardinality(Slots)
  <2>. DEFINE B == {t \in Slots : offered'[t] = curMin'}
  <2>1. B = {s \in Slots : nibble[s] = 1}
    BY <1>1, <1>2, <1>5, Hll4Assumption
  <2>2. numAtCurMin' = Cardinality(B)
    BY <1>5, <2>1
  <2>3. Cardinality(B) \in Nat /\ Cardinality(B) <= Cardinality(Slots) /\ Cardinality(Slots) \in Nat
    BY Hll4Assumption, FS_Subset, FS_CardinalityType
  <2>4. \A t \in Slots : offered'[t] >= curMin'
    BY <1>1, <1>2, <1>5
  <2>5. pc' = "ready" <=> numAtCurMin' > 0
    BY <1>5, <2>2, <2>3
  <2>. QED BY <2>2, <2>3, <2>4, <2>5 DEF CurMinIsMinimum
<1>9. TypeOK' /\ NoThrow'
  <2>1. nibble' \in [Slots -> 0 .. AuxToken]
    BY <1>1, <1>2, <1>5, <1>6, <1>7, Hll4Assumption DEF Canonical
  <2>2. DOMAIN auxHashMap' \subseteq Slots /\ \A t \in DOMAIN auxHashMap' : auxHashMap'[t] \in 0 .. MaxValue
    BY <1>1, <1>2, <1>6 DEF Canonical
  <2>. QED BY <1>1, <1>5, <1>7, <1>8, <2>1, <2>2 DEF IInv, TypeOK, NoThrow
<1>. QED BY <1>6, <1>8, <1>9 DEF IInv

(* A conversion fills the array canonically for the minimum it computed. *)
LEMMA ConvertPreserves ==
  ASSUME IInv, convertToHll4
  PROVE  IInv'
<1>1. PICK src \in [Slots -> 0 .. MaxValue] :
        /\ nibble' = [s \in Slots |->
                        IF s \in exceptionsOf(src) THEN AuxToken ELSE src[s] - curMinOf(src)]
        /\ auxHashMap' = [s \in exceptionsOf(src) |-> src[s]]
        /\ curMin' = curMinOf(src)
        /\ numAtCurMin' = Cardinality({s \in Slots : src[s] = curMinOf(src)})
        /\ offered' = src
  BY DEF convertToHll4, Hll8!Registers
<1>2. pc = "ready" /\ pc' = pc /\ fault' = fault
  BY DEF convertToHll4
<1>. DEFINE m == curMinOf(src)
            B == {s \in Slots : src[s] = m}
<1>3. m \in 0 .. MaxValue /\ (\E s \in Slots : src[s] = m) /\ (\A s \in Slots : src[s] >= m)
  BY CurMinOfIsMinimum
<1>4. Canonical'
  BY <1>1, <1>3, Hll4Assumption DEF Canonical, exceptionsOf
<1>5. /\ Cardinality(B) \in Nat /\ Cardinality(B) <= Cardinality(Slots)
      /\ Cardinality(B) > 0 /\ Cardinality(Slots) \in Nat
  <2>1. IsFiniteSet(B) /\ Cardinality(B) <= Cardinality(Slots)
    BY Hll4Assumption, FS_Subset
  <2>2. B # {}
    BY <1>3
  <2>3. Cardinality(B) # 0
    BY <2>1, <2>2, FS_EmptySet
  <2>4. Cardinality(B) \in Nat /\ Cardinality(Slots) \in Nat
    BY <2>1, Hll4Assumption, FS_CardinalityType
  <2>. QED BY <2>1, <2>3, <2>4
<1>6. CurMinIsMinimum'
  BY <1>1, <1>2, <1>3, <1>5 DEF CurMinIsMinimum
<1>7. TypeOK' /\ NoThrow'
  <2>1. nibble' \in [Slots -> 0 .. AuxToken]
    BY <1>1, <1>3, Hll4Assumption DEF exceptionsOf
  <2>2. DOMAIN auxHashMap' \subseteq Slots /\ \A t \in DOMAIN auxHashMap' : auxHashMap'[t] \in 0 .. MaxValue
    BY <1>1 DEF exceptionsOf
  <2>. QED BY <1>1, <1>2, <1>3, <1>5, <2>1, <2>2 DEF IInv, TypeOK, NoThrow
<1>. QED BY <1>4, <1>6, <1>7 DEF IInv

(* An update never throws, and one that is rejected had nothing to add. *)
LEMMA UpdatePreserves ==
  ASSUME IInv, NEW s \in Slots, NEW v \in 1 .. MaxValue, couponUpdate(s, v)
  PROVE  IInv'
<1>1. pc = "ready" /\ offered' = [offered EXCEPT ![s] = IF v > @ THEN v ELSE @]
  BY DEF couponUpdate
<1>2. /\ offered[s] \in 0 .. MaxValue /\ curMin \in 0 .. MaxValue /\ offered[s] >= curMin
      /\ actualOldValue(s) = offered[s] /\ lbOnOldValue(s) <= offered[s] /\ ~ missing(s)
      /\ nibble[s] = AuxToken <=> offered[s] >= curMin + AuxToken
      /\ s \in DOMAIN auxHashMap <=> nibble[s] = AuxToken
      /\ lbOnOldValue(s) \in Int
  BY Representation, Hll4Assumption DEF lbOnOldValue, IInv, TypeOK
<1>3. CASE changes(s, v)
  <2>1. v > offered[s] /\ v > curMin /\ v > lbOnOldValue(s)
    BY <1>2, <1>3 DEF changes
  <2>2. offered[s] = curMin => numAtCurMin >= 1
    BY <1>1 DEF IInv, TypeOK, CurMinIsMinimum
  <2>3. ~ UpdateThrows(s, v)
    BY <1>2, <2>1, <2>2, Hll4Assumption DEF UpdateThrows, IInv, TypeOK
  <2>4. raise(s, actualOldValue(s), v)
    BY <1>2, <1>3, <2>1, <2>3 DEF couponUpdate
  <2>. QED BY <1>1, <1>3, <2>4, RaisePreserves
<1>4. CASE ~ changes(s, v)
  <2>1. UNCHANGED <<nibble, auxHashMap, curMin, numAtCurMin, kxq0, kxq1, pc, fault>>
    BY <1>2, <1>4 DEF couponUpdate
  <2>2. ~ (v > offered[s])
    BY <1>2, <1>4 DEF changes
  <2>3. offered' = offered
    BY <1>1, <2>2 DEF IInv, TypeOK
  <2>. QED
    BY <2>1, <2>3 DEF IInv, TypeOK, NoThrow, Canonical, CurMinIsMinimum
<1>. QED BY <1>3, <1>4

\* ... and every step keeps it.
LEMMA Inductive == IInv /\ [Next]_vars => IInv'
<1>. SUFFICES ASSUME IInv, [Next]_vars PROVE IInv'
  OBVIOUS
<1>1. ASSUME NEW s \in Slots, NEW v \in Hll8!Values, couponUpdate(s, v) PROVE IInv'
  BY <1>1, UpdatePreserves DEF Hll8!Values
<1>2. CASE shiftToBiggerCurMin
  BY <1>2, ShiftPreserves
<1>3. CASE convertToHll4
  BY <1>3, ConvertPreserves
<1>4. CASE UNCHANGED vars
  BY <1>4 DEF vars, IInv, TypeOK, NoThrow, Canonical, CurMinIsMinimum
<1>. QED BY <1>1, <1>2, <1>3, <1>4 DEF Next

\* So it holds always.
LEMMA Invariance == Spec => []IInv
BY InitEstablishes, Inductive, PTL DEF Spec

(* The state of an HLL_4 sketch is always well typed: in particular curMin *)
(* never passes the largest value and no nibble overflows.                 *)
THEOREM TypeCorrect == Spec => []TypeOK
<1>1. IInv => TypeOK
  BY DEF IInv
<1>. QED BY <1>1, Invariance, PTL

(* No throw of Hll4Array.cpp is reachable. *)
THEOREM NeverThrows == Spec => []NoThrow
<1>1. IInv => NoThrow
  BY DEF IInv
<1>. QED BY <1>1, Invariance, PTL

(* Every slot decodes to the largest value ever offered to it. *)
THEOREM MaximumHeld == Spec => []HoldsMaximum
<1>1. IInv => HoldsMaximum
  BY DecodedIsOffered DEF HoldsMaximum
<1>. QED BY <1>1, Invariance, PTL

(* The nibbles and the exceptions are those that the registers and curMin  *)
(* call for, whatever order the values came in.                            *)
THEOREM RepresentationExact == Spec => []Canonical
<1>1. IInv => Canonical
  BY DEF IInv
<1>. QED BY <1>1, Invariance, PTL

(* curMin is the minimum of the registers between calls, and numAtCurMin   *)
(* the number of slots that are at it.                                     *)
THEOREM MinimumExact == Spec => []CurMinIsMinimum
<1>1. IInv => CurMinIsMinimum
  BY DEF IInv
<1>. QED BY <1>1, Invariance, PTL

----------------------------------------------------------------------------
(* Refinement: the decoded registers and the accumulators form an HLL_8    *)
(* sketch.                                                                 *)

(* The two instances of the standard module count alike. *)
LEMMA SameCardinality ==
  ASSUME NEW S PROVE Hll8!Cardinality(S) = Cardinality(S)
BY DEF Cardinality, Hll8!Cardinality

\* The first state is one of HLL_8.
LEMMA InitRefines == Init => Hll8!Init
<1>. SUFFICES ASSUME Init PROVE Hll8!Init
  OBVIOUS
<1>1. offered = [s \in Slots |-> 0] /\ Decoded = offered
  BY InitEstablishes, DecodedIsOffered DEF Init
<1>2. {s \in Slots : Decoded[s] = 0} = Slots
  BY <1>1
<1>3. kxq0 = Hll8!KxQ0Of(Decoded) /\ kxq1 = Hll8!KxQ1Of(Decoded)
  BY <1>1 DEF Init
<1>4. Decoded = [s \in Slots |-> 0]
  BY <1>1
<1>5. Cardinality({s \in Slots : Decoded[s] = 0}) = Cardinality(Slots)
  BY <1>2
<1>. QED BY <1>3, <1>4, <1>5, SameCardinality DEF Hll8!Init

\* DecodedIsOffered, of the next state.
LEMMA DecodedIsOfferedNext == IInv' => Decoded' = offered'
<1>1. (IInv => Decoded = offered)'
  BY DecodedIsOffered, PTL
<1>. QED BY <1>1

(* A step that leaves the registers and the accumulators alone stutters. *)
LEMMA Stutters ==
  ASSUME IInv, IInv', UNCHANGED <<offered, kxq0, kxq1>>
  PROVE  UNCHANGED Hll8!vars
<1>1. Decoded = offered
  BY DecodedIsOffered
<1>2. Decoded' = offered'
  BY DecodedIsOfferedNext
<1>. QED BY <1>1, <1>2 DEF Hll8!vars

(* Raising a slot of the HLL_4 array is the HLL_8 update of that slot. *)
LEMMA UpdateRefines ==
  ASSUME IInv, IInv', NEW s \in Slots, NEW v \in 1 .. MaxValue, couponUpdate(s, v)
  PROVE  Hll8!couponUpdate(s, v) \/ UNCHANGED Hll8!vars
<1>1. Decoded = offered /\ Decoded' = offered'
  BY DecodedIsOffered, DecodedIsOfferedNext
<1>2. /\ offered \in [Slots -> 0 .. MaxValue] /\ actualOldValue(s) = offered[s] /\ ~ missing(s)
      /\ curMin \in 0 .. MaxValue /\ offered[s] >= curMin
      /\ lbOnOldValue(s) \in Int /\ lbOnOldValue(s) <= offered[s]
  BY Representation, Hll4Assumption DEF IInv, TypeOK, lbOnOldValue
<1>3. offered' = [offered EXCEPT ![s] = IF v > @ THEN v ELSE @]
  BY DEF couponUpdate
<1>4. CASE v > offered[s]
  <2>1. offered' = [offered EXCEPT ![s] = v]
    BY <1>2, <1>3, <1>4
  <2>2. changes(s, v) /\ ~ (v <= lbOnOldValue(s))
    BY <1>2, <1>4 DEF changes
  <2>3. fault' = FALSE
    BY DEF IInv, NoThrow
  <2>4. raise(s, offered[s], v)
    BY <1>2, <2>2, <2>3 DEF couponUpdate, throw
  <2>5. kxq0' = Hll8!KxQ0After(offered[s], v) /\ kxq1' = Hll8!KxQ1After(offered[s], v)
    BY <2>4 DEF raise
  <2>6. Cardinality({t \in Slots : offered'[t] = 0}) =
          IF offered[s] = 0 THEN Cardinality({t \in Slots : offered[t] = 0}) - 1
          ELSE Cardinality({t \in Slots : offered[t] = 0})
    <3>. DEFINE Z == {t \in Slots : offered[t] = 0}
                Y == {t \in Slots : offered'[t] = 0}
    <3>1. IsFiniteSet(Z)
      BY Hll4Assumption, FS_Subset
    <3>2. Y = Z \ {s} /\ (s \in Z <=> offered[s] = 0)
      BY <1>2, <1>4, <2>1
    <3>. HIDE DEF Y, Z
    <3>3. Cardinality(Z \ {s}) = IF s \in Z THEN Cardinality(Z) - 1 ELSE Cardinality(Z)
      BY <3>1, FS_RemoveElement
    <3>4. Cardinality(Y) = IF offered[s] = 0 THEN Cardinality(Z) - 1 ELSE Cardinality(Z)
      BY <3>2, <3>3
    <3>. QED BY <3>4 DEF Y, Z
  <2>. QED BY <1>1, <1>4, <2>1, <2>5, <2>6 DEF Hll8!couponUpdate
<1>5. CASE ~ (v > offered[s])
  <2>1. offered' = offered
    BY <1>2, <1>3, <1>5
  <2>2. ~ changes(s, v)
    BY <1>2, <1>5 DEF changes
  <2>3. kxq0' = kxq0 /\ kxq1' = kxq1
    BY <1>2, <2>2 DEF couponUpdate, throw
  <2>. QED BY <2>1, <2>3, Stutters
<1>. QED BY <1>4, <1>5

\* A conversion is one of HLL_8.
LEMMA ConvertRefines ==
  ASSUME IInv, IInv', convertToHll4
  PROVE  Hll8!convertToHll8
<1>1. Decoded = offered /\ Decoded' = offered'
  BY DecodedIsOffered, DecodedIsOfferedNext
<1>2. \A s \in Slots : Decoded[s] = 0
  BY DEF convertToHll4
<1>3. PICK src \in Hll8!Registers :
        offered' = src /\ kxq0' = Hll8!KxQ0Of(src) /\ kxq1' = Hll8!KxQ1Of(src)
  BY DEF convertToHll4
<1>4. Cardinality({s \in Slots : Decoded[s] = 0})' = Hll8!Cardinality({s \in Slots : src[s] = 0})
  BY <1>1, <1>3, SameCardinality
<1>. QED BY <1>1, <1>2, <1>3, <1>4 DEF Hll8!convertToHll8

\* Every step is one of HLL_8 or changes nothing of it.
LEMMA StepRefines == IInv /\ IInv' /\ [Next]_vars => [Hll8!Next]_(Hll8!vars)
<1>. SUFFICES ASSUME IInv, IInv', [Next]_vars PROVE Hll8!Next \/ UNCHANGED Hll8!vars
  OBVIOUS
<1>1. ASSUME NEW s \in Slots, NEW v \in Hll8!Values, couponUpdate(s, v)
      PROVE  Hll8!Next \/ UNCHANGED Hll8!vars
  BY <1>1, UpdateRefines DEF Hll8!Values, Hll8!Next
<1>2. CASE shiftToBiggerCurMin
  BY <1>2, Stutters DEF shiftToBiggerCurMin, throw
<1>3. CASE convertToHll4
  BY <1>3, ConvertRefines DEF Hll8!Next
<1>4. CASE UNCHANGED vars
  BY <1>4, Stutters DEF vars
<1>. QED BY <1>1, <1>2, <1>3, <1>4 DEF Next

(* HLL_4 implements HLL_8: the shifts of curMin and the exceptions are     *)
(* invisible in the registers and in the accumulators.                     *)
THEOREM Refinement == Spec => ImplementsHll8
BY InitRefines, StepRefines, Invariance, PTL DEF Spec, ImplementsHll8, Hll8!Spec

----------------------------------------------------------------------------
(* The accumulators: an HLL_4 step is an HLL_8 one or a stutter, and those *)
(* keep them the sums over the registers.  FoldTheorems has the sums; what *)
(* is left is which slots an update takes into and out of the two.         *)

\* The powers that the sums are made of are integers.
LEMMA PowersAre == \A e \in 0 .. MaxValue : Hll8!InvPow2(e) \in Int
BY Hll4Assumption DEF Hll8!InvPow2

\* What the slot s of the registers r adds to a sum.
share(r, s)             == Hll8!InvPow2(r[s])
sharing(r, q, s, acc)   == share(r, s) + acc
chosen(S)               == CHOOSE s \in S : TRUE
anything(p, q, n, acc)  == TRUE

Shares == INSTANCE FoldTheorems WITH step <- sharing, choose <- chosen, Good <- anything

\* The slots that kxq0 sums, and those that kxq1 does.
Low(r)  == {s \in Slots : r[s] < KxQSplit}
High(r) == {s \in Slots : r[s] >= KxQSplit}

\* An accumulator is a sum of FoldTheorems.
LEMMA KxQIsSum ==
  \A r : Hll8!KxQ0Of(r) = Shares!Sum(r, Low(r)) /\ Hll8!KxQ1Of(r) = Shares!Sum(r, High(r))
BY DEF Hll8!KxQ0Of, Hll8!KxQ1Of, Low, High, Shares!Sum, Shares!Fold, Hll8!MapThenSumSet,
       Hll8!MapThenFoldSet, Shares!MapThenFoldSet, share, sharing, chosen

\* The sums choose as FoldTheorems wants it.
LEMMA SharesChoose == Shares!ChoosesSome
BY DEF Shares!ChoosesSome, Shares!Chosen, chosen

\* What the slots add are integers.
LEMMA SharesAre ==
  ASSUME NEW r \in Hll8!Registers, NEW S, S \subseteq Slots
  PROVE  Shares!Ints(r, S) /\ \A s \in S : Shares!val(r, s) = share(r, s)
<1>1. \A s \in S : share(r, s) \in Int
  BY PowersAre DEF Hll8!Registers, share
<1>2. \A s \in S : Shares!val(r, s) = share(r, s)
  BY <1>1 DEF Shares!val, sharing
<1>. QED BY <1>1, <1>2 DEF Shares!Ints, sharing

\* The instance of FoldTheorems has a copy of its own of IsFiniteSet.
LEMMA SameFinite == \A S : IsFiniteSet(S) = Shares!IsFiniteSet(S)
BY DEF IsFiniteSet, Shares!IsFiniteSet

\* The sum over some of the slots, with and without one of them.
LEMMA SumOfSome ==
  ASSUME NEW r \in Hll8!Registers, NEW S, S \subseteq Slots
  PROVE  /\ Shares!Sum(r, S) \in Int
         /\ \A s \in S : Shares!Sum(r, S) = Shares!Sum(r, Shares!Without(S, s)) + Hll8!InvPow2(r[s])
<1>1. Shares!IsFiniteSet(S)
  <2>1. IsFiniteSet(S)
    BY FS_Subset, Hll4Assumption
  <2>. QED BY <2>1, SameFinite
<1>2. Shares!Ints(r, S)
  BY SharesAre
<1>3. Shares!SumIsInt(S) /\ Shares!SumSplits(S)
  BY <1>1, SharesChoose, Shares!SumType, Shares!SumSplit
<1>. QED BY <1>2, <1>3, SharesAre DEF Shares!SumIsInt, Shares!SumSplits, share

\* The registers q and r differ in the slot s at most.
AlikeBut(q, r, s) == \A t \in Slots : t # s => q[t] = r[t]

\* The sum over slots that do not change stays what it was.
LEMMA SumOfOthers ==
  ASSUME NEW r \in Hll8!Registers, NEW q \in Hll8!Registers, NEW s \in Slots, AlikeBut(q, r, s),
         NEW S, S \subseteq Slots
  PROVE  Shares!Sum(q, Shares!Without(S, s)) = Shares!Sum(r, Shares!Without(S, s))
<1>1. Shares!IsFiniteSet(Shares!Without(S, s))
  <2>1. IsFiniteSet(Shares!Without(S, s))
    BY FS_Subset, Hll4Assumption DEF Shares!Without
  <2>. QED BY <2>1, SameFinite
<1>2. Shares!SumsAgree(Shares!Without(S, s))
  BY <1>1, SharesChoose, Shares!SumSame
<1>3. \A t \in Shares!Without(S, s) : share(q, t) = share(r, t)
  BY DEF share, Shares!Without, AlikeBut
<1>4. Shares!Without(S, s) \subseteq Slots
  BY DEF Shares!Without
<1>. QED BY <1>2, <1>3, <1>4, SharesAre DEF Shares!SumsAgree

\* What a slot adds to a sum over the slots that are in T.
Part(r, s, T) == IF s \in T THEN Hll8!InvPow2(r[s]) ELSE 0

\* The slots that an update does not reach are in the sum they were in.
LEMMA SumWithout ==
  ASSUME NEW r \in Hll8!Registers, NEW S, S \subseteq Slots, NEW s \in Slots
  PROVE  /\ Shares!Sum(r, S) = Shares!Sum(r, Shares!Without(S, s)) + Part(r, s, S)
         /\ Shares!Sum(r, Shares!Without(S, s)) \in Int
         /\ Part(r, s, S) \in Int
<1>1. Shares!Without(S, s) \subseteq Slots
  BY DEF Shares!Without
<1>2. Shares!Sum(r, Shares!Without(S, s)) \in Int /\ Shares!Sum(r, S) \in Int
  BY <1>1, SumOfSome
<1>3. Part(r, s, S) \in Int
  BY PowersAre DEF Part, Hll8!Registers
<1>4. CASE s \in S
  <2>1. Shares!Sum(r, S) = Shares!Sum(r, Shares!Without(S, s)) + Hll8!InvPow2(r[s])
    BY <1>4, SumOfSome
  <2>2. Part(r, s, S) = Hll8!InvPow2(r[s])
    BY <1>4 DEF Part
  <2>. QED BY <1>2, <1>3, <2>1, <2>2
<1>5. CASE s \notin S
  <2>1. Shares!Without(S, s) = S
    BY <1>5 DEF Shares!Without
  <2>. QED BY <1>2, <1>5, <2>1 DEF Part
<1>. QED BY <1>2, <1>3, <1>4, <1>5

\* The registers r with v in the slot s.
Changed(r, s, v) == [r EXCEPT ![s] = v]

\* An accumulator k after a register went from old to new: kxq0 and kxq1.
Moved0(k, old, new) == k + (IF new < KxQSplit THEN Hll8!InvPow2(new) ELSE 0)
                         - (IF old < KxQSplit THEN Hll8!InvPow2(old) ELSE 0)
Moved1(k, old, new) == k + (IF new >= KxQSplit THEN Hll8!InvPow2(new) ELSE 0)
                         - (IF old >= KxQSplit THEN Hll8!InvPow2(old) ELSE 0)

\* Changing one register changes the two sums by what that register adds to each.
LEMMA KxQChange ==
  ASSUME NEW r \in Hll8!Registers, NEW s \in Slots, NEW v \in 0 .. MaxValue
  PROVE  /\ Changed(r, s, v) \in Hll8!Registers
         /\ Hll8!KxQ0Of(Changed(r, s, v)) = Moved0(Hll8!KxQ0Of(r), r[s], v)
         /\ Hll8!KxQ1Of(Changed(r, s, v)) = Moved1(Hll8!KxQ1Of(r), r[s], v)
<1>. DEFINE q == Changed(r, s, v)
<1>1. q \in Hll8!Registers /\ q[s] = v /\ \A t \in Slots : t # s => q[t] = r[t]
  BY DEF Hll8!Registers, Changed
<1>. HIDE DEF q
<1>2. /\ Low(r) \subseteq Slots /\ Low(q) \subseteq Slots
      /\ High(r) \subseteq Slots /\ High(q) \subseteq Slots
      /\ Shares!Without(Low(q), s) = Shares!Without(Low(r), s)
      /\ Shares!Without(High(q), s) = Shares!Without(High(r), s)
      /\ Shares!Without(Low(r), s) \subseteq Slots
      /\ Shares!Without(High(r), s) \subseteq Slots
  BY <1>1 DEF Low, High, Shares!Without
<1>3. /\ Shares!Sum(q, Shares!Without(Low(r), s)) = Shares!Sum(r, Shares!Without(Low(r), s))
      /\ Shares!Sum(q, Shares!Without(High(r), s)) = Shares!Sum(r, Shares!Without(High(r), s))
  <2>0. AlikeBut(q, r, s)
    BY <1>1 DEF AlikeBut
  <2>1. ASSUME NEW S, S \subseteq Slots
        PROVE  Shares!Sum(q, Shares!Without(S, s)) = Shares!Sum(r, Shares!Without(S, s))
    <3>1. q \in Hll8!Registers
      BY <1>1
    <3>. QED BY <2>1, <2>0, <3>1, SumOfOthers
  <2>. QED BY <1>2, <2>1
<1>4. /\ Part(r, s, Low(r)) = IF r[s] < KxQSplit THEN Hll8!InvPow2(r[s]) ELSE 0
      /\ Part(q, s, Low(q)) = IF v < KxQSplit THEN Hll8!InvPow2(v) ELSE 0
      /\ Part(r, s, High(r)) = IF r[s] >= KxQSplit THEN Hll8!InvPow2(r[s]) ELSE 0
      /\ Part(q, s, High(q)) = IF v >= KxQSplit THEN Hll8!InvPow2(v) ELSE 0
  BY <1>1 DEF Part, Low, High
<1>5. /\ Hll8!KxQ0Of(r) = Shares!Sum(r, Shares!Without(Low(r), s)) + Part(r, s, Low(r))
      /\ Hll8!KxQ0Of(q) = Shares!Sum(q, Shares!Without(Low(q), s)) + Part(q, s, Low(q))
      /\ Shares!Sum(r, Shares!Without(Low(r), s)) \in Int
      /\ Part(r, s, Low(r)) \in Int /\ Part(q, s, Low(q)) \in Int
  BY <1>1, <1>2, SumWithout, KxQIsSum
<1>6. /\ Hll8!KxQ1Of(r) = Shares!Sum(r, Shares!Without(High(r), s)) + Part(r, s, High(r))
      /\ Hll8!KxQ1Of(q) = Shares!Sum(q, Shares!Without(High(q), s)) + Part(q, s, High(q))
      /\ Shares!Sum(r, Shares!Without(High(r), s)) \in Int
      /\ Part(r, s, High(r)) \in Int /\ Part(q, s, High(q)) \in Int
  BY <1>1, <1>2, SumWithout, KxQIsSum
<1>7. /\ Hll8!KxQ0Of(r) \in Int
      /\ Hll8!KxQ0Of(q) = Hll8!KxQ0Of(r) + Part(q, s, Low(q)) - Part(r, s, Low(r))
  <2>1. Shares!Sum(q, Shares!Without(Low(q), s)) = Shares!Sum(r, Shares!Without(Low(r), s))
    BY <1>2, <1>3
  <2>. QED BY <1>5, <2>1
<1>8. /\ Hll8!KxQ1Of(r) \in Int
      /\ Hll8!KxQ1Of(q) = Hll8!KxQ1Of(r) + Part(q, s, High(q)) - Part(r, s, High(r))
  <2>1. Shares!Sum(q, Shares!Without(High(q), s)) = Shares!Sum(r, Shares!Without(High(r), s))
    BY <1>2, <1>3
  <2>. QED BY <1>6, <2>1
<1>. QED BY <1>1, <1>4, <1>7, <1>8 DEF q, Moved0, Moved1

\* A step of the HLL_8 sketch keeps the accumulators.
LEMMA SumsPreserved ==
  ASSUME Decoded \in [Slots -> 0 .. MaxValue], KxQExact, [Hll8!Next]_(Hll8!vars)
  PROVE  KxQExact'
<1>1. kxq0 = Hll8!KxQ0Of(Decoded) /\ kxq1 = Hll8!KxQ1Of(Decoded)
  BY DEF KxQExact, Hll8!KxQExact
<1>2. SUFFICES kxq0' = Hll8!KxQ0Of(Decoded') /\ kxq1' = Hll8!KxQ1Of(Decoded')
  BY DEF KxQExact, Hll8!KxQExact
<1>3. ASSUME NEW s \in Slots, NEW v \in Hll8!Values, Hll8!couponUpdate(s, v)
      PROVE  kxq0' = Hll8!KxQ0Of(Decoded') /\ kxq1' = Hll8!KxQ1Of(Decoded')
  <2>1. /\ Decoded' = [Decoded EXCEPT ![s] = v] /\ v \in 0 .. MaxValue
        /\ kxq0' = Hll8!KxQ0After(Decoded[s], v) /\ kxq1' = Hll8!KxQ1After(Decoded[s], v)
    BY <1>3, Hll4Assumption DEF Hll8!couponUpdate, Hll8!Values
  <2>2. /\ Hll8!KxQ0Of(Decoded') = Hll8!KxQ0After(Decoded[s], v)
        /\ Hll8!KxQ1Of(Decoded') = Hll8!KxQ1After(Decoded[s], v)
    <3>1. Decoded \in Hll8!Registers
      BY DEF Hll8!Registers
    <3>2. /\ Hll8!KxQ0Of(Changed(Decoded, s, v)) = Moved0(Hll8!KxQ0Of(Decoded), Decoded[s], v)
          /\ Hll8!KxQ1Of(Changed(Decoded, s, v)) = Moved1(Hll8!KxQ1Of(Decoded), Decoded[s], v)
      BY <2>1, <3>1, KxQChange
    <3>3. Changed(Decoded, s, v) = Decoded'
      BY <2>1 DEF Changed
    <3>. QED BY <1>1, <3>2, <3>3 DEF Hll8!KxQ0After, Hll8!KxQ1After, Moved0, Moved1
  <2>. QED BY <2>1, <2>2
<1>4. ASSUME Hll8!convertToHll8
      PROVE  kxq0' = Hll8!KxQ0Of(Decoded') /\ kxq1' = Hll8!KxQ1Of(Decoded')
  BY <1>4 DEF Hll8!convertToHll8
<1>5. ASSUME UNCHANGED Hll8!vars
      PROVE  kxq0' = Hll8!KxQ0Of(Decoded') /\ kxq1' = Hll8!KxQ1Of(Decoded')
  BY <1>1, <1>5 DEF Hll8!vars
<1>. QED BY <1>3, <1>4, <1>5 DEF Hll8!Next

(* The accumulators of an HLL_4 sketch are the sums over the registers it  *)
(* decodes to, through the replaced exceptions and the shifts of curMin.   *)
THEOREM KxQStaysExact == Spec => []KxQExact
<1>1. Init => KxQExact
  <2>. SUFFICES ASSUME Init PROVE KxQExact
    OBVIOUS
  <2>1. Decoded = [s \in Slots |-> 0]
    BY InitEstablishes, DecodedIsOffered DEF Init
  <2>. QED BY <2>1 DEF Init, KxQExact, Hll8!KxQExact
<1>2. IInv /\ IInv' /\ KxQExact /\ [Next]_vars => KxQExact'
  <2>. SUFFICES ASSUME IInv, IInv', KxQExact, [Next]_vars PROVE KxQExact'
    OBVIOUS
  <2>1. Decoded \in [Slots -> 0 .. MaxValue]
    BY DecodedIsOffered DEF IInv, TypeOK
  <2>. QED BY <2>1, StepRefines, SumsPreserved
<1>. QED BY <1>1, <1>2, Invariance, PTL DEF Spec
=============================================================================

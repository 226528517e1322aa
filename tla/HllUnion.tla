------------------------------ MODULE HllUnion ------------------------------
(***************************************************************************)
(* The union operator: a gadget, which is an HLL_8 sketch that starts with *)
(* lgMaxK, and the merging of any sketch into it.  Which of the two is     *)
(* walked and which is written depends on the modes of both; an HLL array  *)
(* of a larger lgConfigK is brought down to the smaller one.               *)
(*                                                                         *)
(* source is the sketch that the caller builds and merges; it may also be  *)
(* the result of the union itself (getResult), as unions of unions do.     *)
(* The image of a union is that of its gadget, and a union may be read     *)
(* from the image of any sketch.                                           *)
(***************************************************************************)
EXTENDS HllImage

CONSTANTS
  Coupons,    \* the coupons offered, pairs <<key, value>>
  LgConfigKs  \* the values of lgMaxK and of the sources' lgConfigK

ASSUME HllUnionAssumption ==
  /\ Coupons \subseteq Nat \X (1 .. 63)
  /\ LgConfigKs \subseteq Nat /\ \A lgK \in LgConfigKs : lgK >= 2 /\ Powers(lgK + 1)

VARIABLES
  lgMaxK,
  gadget,        \* gadget->hllSketchImpl
  source,        \* the sketch to merge next
  unionInput,    \* history: the coupons offered to the union since its reset,
  sourceInput,   \* ... and to source
  unionHip,      \* history: the HIP accumulator of gadget was only ever
  sourceHip,     \* ... updated by coupons in order; the same of source
  merged,        \* history: the lgConfigKs of the HLL arrays merged since then
  everMerged     \* ... and of all HLL arrays ever merged

vars == <<lgMaxK, gadget, source, unionInput, sourceInput, unionHip, sourceHip,
          merged, everMerged>>

lesser(a, b) == IF a <= b THEN a ELSE b

Init ==
  /\ lgMaxK \in LgConfigKs
  /\ gadget = newList(lgMaxK)
  /\ \E lgK \in LgConfigKs : source = newList(lgK)
  /\ unionInput = {} /\ sourceInput = {}
  /\ unionHip = TRUE /\ sourceHip = TRUE
  /\ merged = {} /\ everMerged = {}

----------------------------------------------------------------------------
(* unionImpl *)

\* couponUpdate of k with each valid pair of src.
takeAll(k, src) == FoldLeft(couponUpdate, k, pairs(src))

\* Slip: an array of a larger lgConfigK keeps it.
copyHll(src, tgtLgK) == src

copyOrDownsampleHll(src, tgtLgK) ==
  IF src.lgK <= tgtLgK THEN src
  ELSE [takeAll(newHll(tgtLgK), src) EXCEPT !.ooo = src.ooo]

(* The switch on the gadget's mode, or its being empty, and the source's mode *)

\* Slip: two arrays are merged without a look at their lgConfigKs.
unionOfUnlevelled(g, src) == [takeAll(g, src) EXCEPT !.ooo = TRUE]

\* Slip: the union of two arrays keeps the gadget's flag.
unionOfInOrder(g, src) ==
  takeAll(IF src.lgK < g.lgK THEN copyOrDownsampleHll(g, src.lgK) ELSE g, src)

\* case 10
unionOfHlls(g, src) ==
  [takeAll(IF src.lgK < g.lgK THEN copyOrDownsampleHll(g, src.lgK) ELSE g, src)
     EXCEPT !.ooo = TRUE]

\* cases 2, 6 and 14: the source, brought down to lgMaxK, takes the coupons of
\* the gadget, of which an empty one has none.
unionIntoHll(g, src, maxLgK) ==
  LET dst == copyOrDownsampleHll(src, maxLgK)
  IN  [takeAll(dst, g) EXCEPT !.ooo = g.ooo \/ dst.ooo]

\* cases 0, 1, 4, 5, 8, 9, 12 and 13: the gadget takes the source's coupons.
unionOfCoupons(g, src) ==
  LET dst == takeAll(g, src)
  IN  [dst EXCEPT !.ooo = IF isEmpty(g) THEN src.ooo
                          ELSE IF g.mode = "SET" THEN TRUE ELSE dst.ooo \/ src.ooo]

unionImpl(g, src, maxLgK) ==
  IF src.mode # "HLL" THEN unionOfCoupons(g, src)
  ELSE IF g.mode # "HLL" THEN unionIntoHll(g, src, maxLgK)
  ELSE unionOfHlls(g, src)

\* update(sketch): an empty source changes nothing.
updateWithSketch ==
  /\ ~ isEmpty(source)
  /\ gadget' = unionImpl(gadget, source, lgMaxK)
  /\ unionInput' = unionInput \union sourceInput
  /\ unionHip' = IF source.mode # "HLL" THEN unionHip
                 ELSE IF gadget.mode # "HLL" THEN sourceHip
                 ELSE FALSE
  /\ merged' = IF source.mode = "HLL" THEN merged \union {source.lgK} ELSE merged
  /\ everMerged' = everMerged \union merged'
  /\ UNCHANGED <<lgMaxK, source, sourceInput, sourceHip>>

----------------------------------------------------------------------------
(* The other operations on the union *)

updateWithCoupon(c) ==
  /\ gadget' = couponUpdate(gadget, c)
  /\ unionInput' = unionInput \union {c}
  /\ UNCHANGED <<lgMaxK, source, sourceInput, unionHip, sourceHip, merged, everMerged>>

\* The gadget keeps the lgConfigK that it has come down to.
reset ==
  /\ gadget' = newList(gadget.lgK)
  /\ unionInput' = {} /\ unionHip' = TRUE /\ merged' = {}
  /\ UNCHANGED <<lgMaxK, source, sourceInput, sourceHip, everMerged>>

getResult ==
  /\ source' = gadget
  /\ sourceInput' = unionInput /\ sourceHip' = unionHip
  /\ UNCHANGED <<lgMaxK, gadget, unionInput, unionHip, merged, everMerged>>

----------------------------------------------------------------------------
(* serialize and deserialize.  The image has one lgConfigK, from which the  *)
(* union read takes its lgMaxK.  An HLL_8 sketch is wrapped as it is, any   *)
(* other is merged into a new gadget.                                       *)

unionOfImage(im, stream) ==
  LET sk == deserialized(im, stream, EMPTY)
  IN  IF im.type = "HLL_8" THEN sk
      ELSE IF isEmpty(sk) THEN newList(sk.lgK)
      ELSE unionImpl(newList(sk.lgK), sk, sk.lgK)

\* Every image and reader but that of HllSketch!deserializeUpdatableBytes.
reload(compact, stream) ==
  /\ compact \/ stream \/ gadget.mode # "SET"
  /\ gadget' = unionOfImage(serialize(gadget, "HLL_8", compact), stream)
  /\ lgMaxK' = gadget.lgK
  /\ UNCHANGED <<source, unionInput, sourceInput, unionHip, sourceHip, merged, everMerged>>

\* A union is read from the image of the caller's sketch, of any type.
deserializeSource(type, compact, stream) ==
  /\ compact \/ stream \/ source.mode # "SET"
  /\ gadget' = unionOfImage(serialize(source, type, compact), stream)
  /\ lgMaxK' = source.lgK
  /\ unionInput' = sourceInput /\ unionHip' = sourceHip
  /\ merged' = IF source.mode = "HLL" THEN {source.lgK} ELSE {}
  /\ everMerged' = everMerged \union merged'
  /\ UNCHANGED <<source, sourceInput, sourceHip>>

----------------------------------------------------------------------------
(* The caller's sketch *)

sourceUpdate(c) ==
  /\ source' = couponUpdate(source, c)
  /\ sourceInput' = sourceInput \union {c}
  /\ UNCHANGED <<lgMaxK, gadget, unionInput, unionHip, sourceHip, merged, everMerged>>

newSource(lgK) ==
  /\ source' = newList(lgK)
  /\ sourceInput' = {} /\ sourceHip' = TRUE
  /\ UNCHANGED <<lgMaxK, gadget, unionInput, unionHip, merged, everMerged>>

Next ==
  \/ updateWithSketch
  \/ reset
  \/ getResult
  \/ \E c \in Coupons : updateWithCoupon(c) \/ sourceUpdate(c)
  \/ \E lgK \in LgConfigKs : newSource(lgK)
  \/ \E compact, stream \in BOOLEAN :
       \/ reload(compact, stream)
       \/ \E type \in TgtHllTypes : deserializeSource(type, compact, stream)

Spec == Init /\ [][Next]_vars

----------------------------------------------------------------------------
(* Properties *)

\* What a sketch of these coupons must hold.
Holds(k, coupons) ==
  IF k.mode = "HLL"
  THEN \A s \in SlotsOf(k.lgK) :
         LET values == {c[2] : c \in {d \in coupons : d[1] % (2 ^ k.lgK) = s}}
         IN  IF values = {} THEN k.reg[s] = 0
             ELSE k.reg[s] \in values /\ \A v \in values : v <= k.reg[s]
  ELSE {k.arr[i] : i \in Cells(k.lg)} \ {EMPTY} = coupons

(* The union is that of the inputs: whatever the modes and lgConfigKs of   *)
(* the sketches and the order in which they came, the gadget is the sketch *)
(* of all coupons that went into any of them, at the lgConfigK it has.     *)
HoldsUnion == Holds(gadget, unionInput) /\ Holds(source, sourceInput)

(* The gadget is never finer than lgMaxK or than any HLL array that went   *)
(* into it, and it is no coarser than one of those, since its creation, has *)
(* made it: a merge in the wrong direction would invent resolution or      *)
(* throw it away.                                                          *)
EffectiveK ==
  /\ gadget.lgK <= lgMaxK
  /\ \A lgK \in merged : gadget.lgK <= lgK
  /\ gadget.lgK \in {lgMaxK} \union everMerged

(* getEstimate trusts the HIP accumulator of an array whose out-of-order   *)
(* flag is off (HllArray.cpp getEstimate).  That flag is on in every array *)
(* that has taken in the registers of another one, also when it has been   *)
(* copied, brought down or merged again since.                             *)
HipOnlyInOrder ==
  /\ gadget.mode = "HLL" /\ ~ gadget.ooo => unionHip
  /\ source.mode = "HLL" /\ ~ source.ooo => sourceHip
=============================================================================

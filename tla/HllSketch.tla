----------------------------- MODULE HllSketch -----------------------------
(***************************************************************************)
(* A sketch over its life: updates in any order and with repetitions,      *)
(* resets, copies as another target type, and replacement by what is read  *)
(* back from any of its serialized images.                                 *)
(***************************************************************************)
EXTENDS HllImage

CONSTANTS
  Coupons,   \* the coupons offered, pairs <<key, value>>
  LgConfigKs \* the values lgConfigK may have

ASSUME HllSketchAssumption ==
  /\ Coupons \subseteq Nat \X (1 .. 63)
  /\ LgConfigKs \subseteq Nat /\ \A lgK \in LgConfigKs : lgK >= 2 /\ Powers(lgK + 1)

(* No list and no set is larger than an array: in the code 8 and 12 bytes  *)
(* and four for each of 8 and 2^(lgConfigK - 3) cells, against 40 bytes    *)
(* and half a byte or more for each slot.                                  *)
ASSUME SizesAssumption ==
  \A lgK \in LgConfigKs :
    /\ 8 + 4 * 2 ^ LgList <= 40 + 2 ^ (lgK - 1)
    /\ lgK >= MinSetLgK => 12 + 4 * 2 ^ (lgK - SetMargin) <= 40 + 2 ^ (lgK - 1)

VARIABLES
  impl,       \* hllSketchImpl
  tgtHllType, \* ... its target type
  fault,      \* TRUE once a throw was reached
  offered     \* history: the coupons offered since the last reset

vars == <<impl, tgtHllType, fault, offered>>

Init ==
  /\ \E lgK \in LgConfigKs : impl = newList(lgK)
  /\ tgtHllType \in TgtHllTypes
  /\ fault = FALSE
  /\ offered = {}

update(c) ==
  /\ ~ fault
  /\ offered' = offered \union {c}
  /\ \/ updateThrows(impl, c) /\ fault' = TRUE /\ UNCHANGED impl
     \/ ~ updateThrows(impl, c) /\ impl' = couponUpdate(impl, c) /\ UNCHANGED fault
  /\ UNCHANGED tgtHllType

reset ==
  /\ impl' = newList(impl.lgK)
  /\ offered' = {} /\ fault' = FALSE
  /\ UNCHANGED tgtHllType

\* Coupons are copied as they are, registers are converted (Hll4Array,
\* Hll8Array); the out-of-order flag goes along.
copyAs(type) ==
  /\ ~ fault
  /\ type # tgtHllType
  /\ tgtHllType' = type
  /\ UNCHANGED <<impl, fault, offered>>

----------------------------------------------------------------------------
(* Replacing the sketch by deserialize(serialize(sketch)). *)

replaceBy(im, stream, rest) ==
  \/ deserializeThrows(im, stream) /\ fault' = TRUE /\ UNCHANGED <<impl, tgtHllType>>
  \/ /\ ~ deserializeThrows(im, stream)
     /\ impl' = deserialized(im, stream, rest)
     /\ tgtHllType' = im.type
     /\ UNCHANGED fault

\* Every image and reader but one.
deserialize(compact, stream) ==
  /\ ~ fault
  /\ compact \/ stream \/ impl.mode # "SET"
  /\ replaceBy(serialize(impl, tgtHllType, compact), stream, EMPTY)
  /\ UNCHANGED offered

\* The updatable image of a set read from a byte array: the reader copies the
\* first couponCount cells ("only need to read valid coupons") into an array
\* that it has just allocated.  What the others hold is not initialized; here
\* they all hold the same thing.
deserializeUpdatableBytes ==
  /\ ~ fault
  /\ impl.mode = "SET"
  /\ \E uninitialized \in {EMPTY} \union Coupons :
       replaceBy(serialize(impl, tgtHllType, FALSE), FALSE, uninitialized)
  /\ UNCHANGED offered

Next ==
  \/ \E c \in Coupons : update(c)
  \/ reset
  \/ \E type \in TgtHllTypes : copyAs(type)
  \/ \E compact, stream \in BOOLEAN : deserialize(compact, stream)

Spec == Init /\ [][Next]_vars

\* The program as it is, with the byte-array reader of updatable sets.
SpecWithBytes == Init /\ [][Next \/ deserializeUpdatableBytes]_vars

----------------------------------------------------------------------------
(* Properties *)

\* The coupons in the array of a coupon mode.
Held == {impl.arr[i] : i \in Cells(impl.lg)} \ {EMPTY}

(* The sketch depends on the coupons offered as a set: the coupon modes    *)
(* hold each of them exactly once, the array holds the maximum of each     *)
(* slot, through every promotion, growth and round trip.                   *)
HoldsOffered ==
  IF impl.mode = "HLL"
  THEN \A s \in SlotsOf(impl.lgK) :
         LET values == {c[2] : c \in {d \in offered : d[1] % (2 ^ impl.lgK) = s}}
         IN  IF values = {} THEN impl.reg[s] = 0
             ELSE impl.reg[s] \in values /\ \A v \in values : v <= impl.reg[s]
  ELSE /\ Held = offered
       /\ impl.count = Cardinality(offered)
       /\ Cardinality({i \in Cells(impl.lg) : impl.arr[i] # EMPTY}) = impl.count

(* The mode and the size of the table are functions of the number of       *)
(* distinct coupons and of lgConfigK, whatever order, repetition or round  *)
(* trip led there: two sketches of the same input are of the same kind.    *)
ModeByCount ==
  LET n   == Cardinality(offered)
      top == impl.lgK - SetMargin
  IN  /\ impl.mode = "LIST" <=> n < 2 ^ LgList
      /\ impl.mode = "SET" <=>
           n >= 2 ^ LgList /\ impl.lgK >= MinSetLgK /\ ~ overloaded(n, top)
      /\ impl.mode = "SET" =>
           /\ impl.lg \in LgInitSet .. top
           /\ ~ overloaded(n, impl.lg)
           /\ impl.lg > LgInitSet => overloaded(n, impl.lg - 1)

(* The next update finds what it needs: a list, or a set, with an empty    *)
(* cell left, a coupon of a set at its own cell, and an empty cell for one *)
(* that is not in it.  A repeated coupon is recognised, a new one has a    *)
(* place, and no search of this program or of a reader of an image throws. *)
FindsExactly ==
  /\ ~ fault
  /\ \A c \in Coupons :
       /\ ~ updateThrows(impl, c)
       /\ impl.mode = "SET" =>
            impl.arr[cellOf(impl, c)] = (IF c \in offered THEN c ELSE EMPTY)

(* An image may be followed by others in its stream, and be measured       *)
(* before it is written.  Each image is as long as the sketch says, in     *)
(* every mode and type, and the reader leaves the stream at its end, with  *)
(* two exceptions: the empty cells of an updatable empty list, and the     *)
(* room for exceptions of an updatable HLL_4 array that has none, which    *)
(* the reader does not take.  The maximum that is promised for lgConfigK   *)
(* and type holds unless the exceptions of an HLL_4 array outgrow it.      *)
StreamPositions ==
  \A compact \in BOOLEAN :
    LET im      == serialize(impl, tgtHllType, compact)
        written == bytesOf(im, Len(im.ints))
        unread  == IF compact THEN 0
                   ELSE CASE impl.mode = "LIST" /\ im.emptyFlag -> 2 ^ LgList
                          [] impl.mode = "HLL" /\ tgtHllType = "HLL_4" /\ im.count = 0 ->
                               2 ^ LgAuxInit
                          [] OTHER -> 0
    IN  /\ written = (IF compact THEN getCompactSerializationBytes(impl, tgtHllType)
                      ELSE getUpdatableSerializationBytes(impl, tgtHllType))
        /\ bytesOf(im, intsRead(im, TRUE)) = written - 4 * unread
        /\ \/ written <= getMaxUpdatableSerializationBytes(impl.lgK, tgtHllType)
           \/ im.count > 0 /\ im.lgArr > LgAuxInit /\ impl.mode = "HLL"

(* What the byte-array reader says of updatable sets: reading the first    *)
(* couponCount cells reads the valid coupons (CouponHashSet.cpp:89).       *)
ReadsValidCoupons == impl.mode = "SET" => offered \subseteq Held
=============================================================================

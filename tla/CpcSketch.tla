----------------------------- MODULE CpcSketch -----------------------------
(***************************************************************************)
(* A cpc_sketch: coupons are offered to it, and it is written to bytes and *)
(* read back at any moment.                                                *)
(***************************************************************************)
EXTENDS CpcImage

CONSTANT LgKs   \* the sizes a sketch may be made with

ASSUME CpcSketchAssumption ==
  /\ LgKs \subseteq {n \in Nat : n >= MinLgK}
  /\ \A lgK \in LgKs : lgK = MinLgK \/ (SparseLimit * 2 ^ lgK) % 32 = 0

\* No window is a null pointer.
ASSUME NullAssumption ==
  \A lgK \in LgKs : NULL \notin [Rows(lgK) -> SUBSET (0 .. WindowWidth - 1)]

\* The powers of two that the sizes and the weights are.
ASSUME PowersAssumption ==
  \A lgK \in LgKs : \A n \in 0 .. lgK + Columns :
    2 ^ n \in Nat \ {0} /\ 2 ^ (n + 1) = 2 * 2 ^ n

VARIABLES
  sketch,   \* the object
  offered   \* the coupons it was offered (a history variable)

vars == <<sketch, offered>>

----------------------------------------------------------------------------

Init == offered = {} /\ \E lgK \in LgKs : sketch = fm85Make(lgK)

update(rc) ==
  /\ sketch' = fm85Update(sketch, rc)
  /\ offered' = offered \union {rc}

\* A round trip through bytes; one that throws leaves the sketch alone.
reload ==
  /\ ~ serializeThrows(sketch)
  /\ ~ deserializeThrows(serialize(sketch))
  /\ sketch' = deserialize(serialize(sketch))
  /\ UNCHANGED offered

Next == (\E rc \in Coupons(sketch.lgK) : update(rc)) \/ reload

Spec == Init /\ [][Next]_vars

----------------------------------------------------------------------------
(* Properties *)

(* The sketch is past the last coupon that the offsets up to MaxOffset     *)
(* leave room for, 475/8 K of the 64 K there are: from then on an update   *)
(* that reaches updateWindowed throws.                                     *)
Saturated == 32 * Cardinality(offered) >= (SlideStart + 32 + 32 * MaxOffset) * 2 ^ sketch.lgK

(* The stored window and surprises are those of exactly the coupons that   *)
(* were offered, in whatever order: no coupon is lost by the shortcut for  *)
(* columns below the first interesting one, none is counted twice because  *)
(* a shift of the window forgot it.  numCoupons is what validate() checks. *)
MatrixExact ==
  ~ Saturated => /\ bitMatrixOfSketch(sketch) = offered
                 /\ sketch.numCoupons = Cardinality(offered)

(* The window is where deserialization will assume it is, there is one     *)
(* from HYBRID on, and only surprises are in the table.                    *)
WindowInPlace ==
  ~ Saturated =>
    /\ sketch.windowOffset = determineCorrectOffset(sketch.lgK, sketch.numCoupons)
    /\ (sketch.window = NULL) = (determineSketchFlavor(sketch) \in {"EMPTY", "SPARSE"})
    /\ sketch.window # NULL =>
         \A rc \in sketch.table : rc[2] - sketch.windowOffset \notin 0 .. WindowWidth - 1

(* kxp, which every HIP estimate divides by, is the weight of the zeros of *)
(* the matrix: exactly until it is first recomputed from the matrix, and   *)
(* from then on short of what lies right of the last column in each row.   *)
KxpExact ==
  ~ Saturated =>
    sketch.kxp + (IF sketch.windowOffset < RefreshEvery THEN 0 ELSE 2 ^ sketch.lgK)
      = 2 ^ (sketch.lgK + Columns) - MapThenSumSet(weight, offered)

(* No update throws before saturation, although the thresholds of the      *)
(* smallest K are not whole and the offsets are checked at every turn.     *)
ThrowsOnlySaturated == sketch.thrown => Saturated

(* A sketch of any flavor comes back from its bytes as it was.  On the way *)
(* no code is longer than the buffer allocated for it, and no reader peeks *)
(* past the last word, whatever the pairs, K and the phase of the tables.  *)
SurvivesBytes ==
  ~ Saturated =>
    /\ ~ serializeThrows(sketch)
    /\ buffersSuffice(fm85Compress(sketch))
    /\ ~ deserializeThrows(serialize(sketch))
    /\ deserialize(serialize(sketch)) = sketch
=============================================================================

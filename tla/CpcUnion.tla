------------------------------ MODULE CpcUnion ------------------------------
(***************************************************************************)
(* A cpc_union: the UG85 object that sketches of any size and flavor are   *)
(* merged into, and the sketch it gives as its result.  While everything   *)
(* merged is sparse it holds a sketch (the accumulator), afterwards a bit  *)
(* matrix.  It shrinks to the K of the smallest sketch that was merged.    *)
(***************************************************************************)
EXTENDS CpcImage

CONSTANTS
  LgKs,       \* the sizes a union may be made with
  Sources,    \* the sketches that may be merged: pairs of lgK and the coupons offered
  MaxMerges   \* bound on the number of merges

VARIABLES
  union,      \* the object: [lgK, accumulator, bitMatrix] and whether a call threw
  gathered,   \* the coupons of the merged sketches (a history variable)
  smallest,   \* the least lgK so far, that of the union included (history)
  merges      \* the number of merges

vars == <<union, gathered, smallest, merges>>

ug85Make(lgK) ==
  [lgK |-> lgK, accumulator |-> fm85Make(lgK), bitMatrix |-> NULL, thrown |-> FALSE]

\* Rows are the low bits of a hash, so fewer bits name the row of a smaller K.
downsample(coupons, lgK) == {<<rc[1] % 2 ^ lgK, rc[2]>> : rc \in coupons}

\* The order of the walk, which the stride only scatters, is not modelled: it
\* shows in no result.
walkTableUpdatingSketch(dest, table) ==
  FoldSet(LAMBDA rc, s : IF s.thrown THEN s ELSE fm85RowColUpdate(s, rc),
          dest, downsample(table, dest.lgK))

orIntoMatrix(u, coupons) == [u EXCEPT !.bitMatrix = @ \union downsample(coupons, u.lgK)]

pastSparse(s) == determineSketchFlavor(s) \notin {"EMPTY", "SPARSE"}

\* The accumulator gives way to its bit matrix.
toBitMatrix(u) == [u EXCEPT !.bitMatrix = bitMatrixOfSketch(u.accumulator), !.accumulator = NULL]

\* Slip: a sketch that the smaller K takes past SPARSE stays the accumulator.
settleNever(u) == [u EXCEPT !.thrown = u.accumulator.thrown]

settle(u) ==
  LET v == [u EXCEPT !.thrown = u.accumulator.thrown]
  IN  IF pastSparse(u.accumulator) THEN toBitMatrix(v) ELSE v

ug85ReduceK(u, lgK) ==
  IF u.bitMatrix # NULL
  THEN [u EXCEPT !.bitMatrix = downsample(@, lgK), !.lgK = lgK]
  ELSE IF u.accumulator.numCoupons = 0
  THEN [u EXCEPT !.accumulator.lgK = lgK, !.lgK = lgK]
  ELSE settle([u EXCEPT !.accumulator = walkTableUpdatingSketch(fm85Make(lgK), @.table),
                        !.lgK = lgK])

\* Case A: a sparse sketch into an accumulator, which is replaced by the sketch
\* when it is empty and no larger.
mergeSparse(u, s) ==
  LET start == IF u.accumulator.numCoupons = 0 /\ u.lgK = s.lgK THEN s ELSE u.accumulator
  IN  settle([u EXCEPT !.accumulator = walkTableUpdatingSketch(start, s.table)])

\* Cases B to D.  Only a sketch whose window has not moved can be OR'ed in parts:
\* the table of a sliding one also holds zeros.
windowBits(s) ==
  IF s.window = NULL THEN {}
  ELSE UNION {{<<r, c + s.windowOffset>> : c \in s.window[r]} : r \in Rows(s.lgK)}

covered(s) ==
  IF determineSketchFlavor(s) = "SLIDING" THEN bitMatrixOfSketch(s)
  ELSE s.table \union windowBits(s)

mergeIntoMatrix(u, s) == orIntoMatrix(IF u.bitMatrix = NULL THEN toBitMatrix(u) ELSE u, covered(s))

ug85MergeInto(u, s) ==
  LET reduced == IF s.lgK < u.lgK THEN ug85ReduceK(u, s.lgK) ELSE u
  IN  IF s.numCoupons = 0 THEN u
      ELSE IF reduced.thrown THEN reduced
      ELSE IF ~ pastSparse(s) /\ reduced.accumulator # NULL THEN mergeSparse(reduced, s)
      ELSE mergeIntoMatrix(reduced, s)

\* "wrong flavor": a bit matrix of so few coupons that a sketch would be sparse.
ug85GetResultThrows(u) ==
  IF u.bitMatrix = NULL
  THEN pastSparse(u.accumulator)
  ELSE determineFlavor(u.lgK, Cardinality(u.bitMatrix)) \in {"EMPTY", "SPARSE"}

\* Slip: the accumulator is handed out as it is.
getResultUnflagged(u) ==
  LET c == Cardinality(u.bitMatrix)
  IN  IF u.bitMatrix = NULL THEN u.accumulator
      ELSE place([fm85Make(u.lgK) EXCEPT !.numCoupons = c, !.mergeFlag = TRUE],
                 u.bitMatrix, determineCorrectOffset(u.lgK, c))

ug85GetResult(u) ==
  LET made == [fm85Make(u.lgK) EXCEPT !.mergeFlag = TRUE]
      c    == Cardinality(u.bitMatrix)
  IN  IF u.bitMatrix = NULL
      THEN IF u.accumulator.numCoupons = 0 THEN made
           ELSE [u.accumulator EXCEPT !.mergeFlag = TRUE]
      ELSE place([made EXCEPT !.numCoupons = c], u.bitMatrix, determineCorrectOffset(u.lgK, c))

----------------------------------------------------------------------------

\* The sketch that was offered these coupons.
built(source) == FoldLeft(fm85Update, fm85Make(source[1]), source[2])

Init ==
  \E lgK \in LgKs :
    /\ union = ug85Make(lgK)
    /\ smallest = lgK
    /\ gathered = {}
    /\ merges = 0

update(source) ==
  /\ merges < MaxMerges
  /\ union' = ug85MergeInto(union, built(source))
  /\ gathered' = gathered \union {source[2][i] : i \in DOMAIN source[2]}
  /\ smallest' = IF source[2] = <<>> THEN smallest ELSE SetMin({smallest, source[1]})
  /\ merges' = merges + 1

\* The result is taken, written to bytes, read back and merged into a new union.
passOn(lgK) ==
  LET bytes == serialize(ug85GetResult(union))
  IN  /\ merges < MaxMerges
      /\ ~ ug85GetResultThrows(union)
      /\ ~ deserializeThrows(bytes)
      /\ union' = ug85MergeInto(ug85Make(lgK), deserialize(bytes))
      /\ smallest' = IF gathered = {} THEN lgK ELSE SetMin({smallest, lgK})
      /\ merges' = merges + 1
      /\ UNCHANGED gathered

Next == (\E source \in Sources : update(source)) \/ (\E lgK \in LgKs : passOn(lgK))

Spec == Init /\ [][Next]_vars

----------------------------------------------------------------------------
(* Properties *)

image  == downsample(gathered, smallest)
result == ug85GetResult(union)

(* The union holds the coupons of everything merged, at the smallest K of  *)
(* a sketch that had any.  It holds them in one form only, as a sketch     *)
(* exactly while they are sparse at that K, whatever the order in which    *)
(* flavors and sizes came in: the exceptions of the merge and of           *)
(* ug85GetResult say so.                                                   *)
HoldsUnion ==
  /\ union.lgK = smallest
  /\ ~ union.thrown
  /\ (union.accumulator = NULL) # (union.bitMatrix = NULL)
  /\ (IF union.bitMatrix = NULL THEN bitMatrixOfSketch(union.accumulator) ELSE union.bitMatrix)
       = image
  /\ ~ ug85GetResultThrows(union)

(* The result is a proper sketch of those coupons: its window is where its *)
(* count wants it, it says that it was merged (the HIP estimate of a union *)
(* is void), and it survives its bytes.                                    *)
ResultFaithful ==
  /\ bitMatrixOfSketch(result) = image
  /\ result.numCoupons = Cardinality(image)
  /\ result.mergeFlag
  /\ ~ serializeThrows(result)
  /\ buffersSuffice(fm85Compress(result))
  /\ ~ deserializeThrows(serialize(result))
  /\ deserialize(serialize(result)) = [result EXCEPT !.kxp = 2 ^ (result.lgK + Columns)]

(* Updating goes on from the result as from any sketch: no coupon is taken *)
(* for an old one, none makes it throw.                                    *)
ResultUsable ==
  \A rc \in Coupons(union.lgK) :
    LET next == fm85Update(result, rc)
    IN  /\ ~ next.thrown
        /\ bitMatrixOfSketch(next) = image \union {rc}
        /\ next.numCoupons = Cardinality(image \union {rc})
=============================================================================

-------------------------------- MODULE Fm85 --------------------------------
(***************************************************************************)
(* The FM85 object behind a cpc_sketch, as a value and the functions that  *)
(* make a new value of it.  The sketch stands for a matrix of bits, 2^lgK  *)
(* rows by Columns columns.  It stores a window of WindowWidth columns     *)
(* that slides to the right as the matrix fills, and a table of surprises: *)
(* the zeros to the left of the window and the ones to its right.          *)
(*                                                                         *)
(* The thresholds on the number of coupons are counted in 32nds of K.      *)
(* The table is the set that U32Table is shown to implement.  A coupon is  *)
(* a pair <<row, col>>.  kxp is counted in units of 2^-Columns, so that it *)
(* is exact; the sums of reciprocals that make the HIP estimate are not    *)
(* modelled.                                                               *)
(***************************************************************************)
EXTENDS Integers, FiniteSets, FiniteSetsExt

CONSTANTS
  NULL,          \* a pointer to nothing
  Columns,       \* 64
  WindowWidth,   \* 8
  SparseLimit,   \* 3: a sketch of fewer than 3K/32 coupons is SPARSE
  HybridLimit,   \* 16: of fewer than K/2, HYBRID
  SlideStart,    \* 76: the window slides at 19K/8 coupons past each multiple of K
  MinLgK,        \* 4: the one K of which 3K/32 is not whole
  RefreshEvery   \* 8: the shifts after which kxp is recomputed

ASSUME Fm85Assumption ==
  /\ {Columns, WindowWidth, SparseLimit, HybridLimit, SlideStart, RefreshEvery}
       \subseteq Nat \ {0}
  /\ WindowWidth < Columns
  /\ SparseLimit < HybridLimit /\ HybridLimit <= SlideStart + 32
  /\ SparseLimit <= SlideStart
  /\ MinLgK \in Nat

MaxOffset == Columns - WindowWidth   \* 56

Rows(lgK)    == 0 .. 2 ^ lgK - 1
Coupons(lgK) == Rows(lgK) \X (0 .. Columns - 1)

SetMin(S) == CHOOSE x \in S : \A y \in S : x <= y

----------------------------------------------------------------------------
(* The flavor and the place of the window are functions of K and C. *)

determineFlavor(lgK, c) ==
  LET below(limit) == 32 * c < limit * 2 ^ lgK
  IN  IF c = 0                     THEN "EMPTY"
      ELSE IF below(SparseLimit)   THEN "SPARSE"
      ELSE IF below(HybridLimit)   THEN "HYBRID"
      ELSE IF below(SlideStart + 32) THEN "PINNED"
      ELSE "SLIDING"

determineSketchFlavor(s) == determineFlavor(s.lgK, s.numCoupons)

determineCorrectOffset(lgK, c) ==
  LET past == 32 * c - SlideStart * 2 ^ lgK
  IN  IF past < 0 THEN 0 ELSE past \div (32 * 2 ^ lgK)

\* The object made by fm85Make; "thrown" says whether the last call threw.
fm85Make(lgK) ==
  [lgK |-> lgK, numCoupons |-> 0, windowOffset |-> 0, window |-> NULL, table |-> NULL,
   firstInterestingColumn |-> 0, kxp |-> 2 ^ (lgK + Columns), mergeFlag |-> FALSE,
   thrown |-> FALSE]

throwing(s) == [s EXCEPT !.thrown = TRUE]

----------------------------------------------------------------------------
(* Between the matrix and what is stored of it. *)

bitMatrixThrows(s) ==
  s.windowOffset > MaxOffset \/ (s.numCoupons > 0 /\ s.table = NULL)

bitMatrixOfSketch(s) ==
  LET early    == Rows(s.lgK) \X (0 .. s.windowOffset - 1)
      inWindow == IF s.window = NULL THEN {}
                  ELSE UNION {{<<r, c + s.windowOffset>> : c \in s.window[r]} : r \in Rows(s.lgK)}
      default  == early \union inWindow
  IN  IF s.numCoupons = 0 THEN early
      ELSE (default \ s.table) \union (s.table \ default)

\* Slip: the "corner case" of no surprise to the left of the window.
placeUnclipped(s, matrix, offset) ==
  LET surprises == {rc \in Coupons(s.lgK) :
                      \/ rc[2] < offset /\ rc \notin matrix
                      \/ rc[2] >= offset + WindowWidth /\ rc \in matrix}
  IN  [s EXCEPT
         !.windowOffset = offset,
         !.window = [r \in Rows(s.lgK) |->
                       {c \in 0 .. WindowWidth - 1 : <<r, c + offset>> \in matrix}],
         !.table = surprises,
         !.firstInterestingColumn = SetMin({rc[2] : rc \in surprises} \union {Columns})]

\* The window at an offset, the surprises around it and the first column that
\* has one, as modifyOffset and ug85GetResult compute them.
place(s, matrix, offset) ==
  LET p == placeUnclipped(s, matrix, offset)
  IN  [p EXCEPT !.firstInterestingColumn = SetMin({@, offset})]

\* The weight of a coupon, and kxp summed afresh over the zeros of the matrix.
weight(rc) == 2 ^ (Columns - 1 - rc[2])

refreshKXP(s, matrix) ==
  [s EXCEPT !.kxp = MapThenSumSet(weight, (Coupons(s.lgK)) \ matrix)]

\* The one use of kxp that the model keeps: each new coupon lowers it.
updateHIP(s, rc) == [s EXCEPT !.kxp = @ - weight(rc)]

----------------------------------------------------------------------------
(* Updates. *)

promoteEmptyToSparse(s) == [s EXCEPT !.table = {}]

\* Slip: the exception for the smallest K is forgotten.
promoteWhenWhole(s) ==
  LET near == {rc \in s.table : rc[2] < WindowWidth}
  IN  IF 32 * s.numCoupons # SparseLimit * 2 ^ s.lgK THEN throwing(s)
      ELSE [s EXCEPT !.table = @ \ near,
                     !.window = [r \in Rows(s.lgK) |-> {rc[2] : rc \in {n \in near : n[1] = r}}]]

promoteSparseToWindowed(s) ==
  LET near  == {rc \in s.table : rc[2] < WindowWidth}
      whole == 32 * s.numCoupons = SparseLimit * 2 ^ s.lgK
      past  == s.lgK = MinLgK /\ 32 * s.numCoupons > SparseLimit * 2 ^ s.lgK
  IN  IF ~ (whole \/ past) THEN throwing(s)
      ELSE [s EXCEPT !.table = @ \ near,
                     !.window = [r \in Rows(s.lgK) |-> {rc[2] : rc \in {n \in near : n[1] = r}}]]

\* The window is moved by one column and everything is stored afresh.
modifyOffset(s, newOffset) ==
  IF \/ newOffset > MaxOffset
     \/ newOffset # determineCorrectOffset(s.lgK, s.numCoupons)
  THEN throwing(s)
  ELSE LET matrix == bitMatrixOfSketch(s)
       IN  place(IF newOffset % RefreshEvery = 0 THEN refreshKXP(s, matrix) ELSE s,
                 matrix, newOffset)

updateSparse(s, rc) ==
  IF rc \in s.table THEN s
  ELSE LET n == updateHIP([s EXCEPT !.table = @ \union {rc}, !.numCoupons = @ + 1], rc)
       IN  IF 32 * n.numCoupons >= SparseLimit * 2 ^ n.lgK THEN promoteSparseToWindowed(n) ELSE n

\* Slip: it waits for one more.
slideDueLate(s) == 32 * s.numCoupons > (SlideStart + 32 + 32 * s.windowOffset) * 2 ^ s.lgK

\* The sketch has the coupons that move the window one further.
slideDue(s) == 32 * s.numCoupons >= (SlideStart + 32 + 32 * s.windowOffset) * 2 ^ s.lgK

\* The bit of a coupon is set: to the left of the window by the removal of a
\* surprising zero, to its right by the insertion of a surprising one.
setBit(s, rc) ==
  LET at == rc[2] - s.windowOffset
  IN  IF at < 0 THEN [s EXCEPT !.table = @ \ {rc}]
      ELSE IF at < WindowWidth THEN [s EXCEPT !.window[rc[1]] = @ \union {at}]
      ELSE [s EXCEPT !.table = @ \union {rc}]

\* Slip: the window moves before the coupon is accounted for.
updateWindowedLate(s, rc) ==
  LET n       == setBit(s, rc)
      counted == [n EXCEPT !.numCoupons = @ + 1]
  IN  IF slideDue(s) THEN throwing(s)
      ELSE IF n = s THEN s
      ELSE updateHIP(IF slideDue(counted) THEN modifyOffset(counted, s.windowOffset + 1)
                     ELSE counted, rc)

updateWindowed(s, rc) ==
  LET n       == setBit(s, rc)
      counted == updateHIP([n EXCEPT !.numCoupons = @ + 1], rc)
      moved   == modifyOffset(counted, s.windowOffset + 1)
  IN  IF s.windowOffset > MaxOffset \/ slideDue(s) THEN throwing(s)
      ELSE IF n = s THEN s
      ELSE IF ~ slideDue(counted) THEN counted
      ELSE IF slideDue(moved) THEN throwing(moved)
      ELSE moved

fm85RowColUpdate(s, rc) ==
  LET started == IF s.numCoupons = 0 THEN promoteEmptyToSparse(s) ELSE s
  IN  IF rc[2] < s.firstInterestingColumn THEN s
      ELSE IF 32 * s.numCoupons < SparseLimit * 2 ^ s.lgK THEN updateSparse(started, rc)
      ELSE updateWindowed(s, rc)

fm85Update(s, rc) == fm85RowColUpdate([s EXCEPT !.thrown = FALSE], rc)
=============================================================================

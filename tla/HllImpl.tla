------------------------------ MODULE HllImpl ------------------------------
(***************************************************************************)
(* The values behind an HLL sketch and what couponUpdate makes of them.    *)
(* A sketch starts as a LIST of coupons, becomes a SET (a hash table of    *)
(* coupons) when the list is full, and an HLL array when the set is full;  *)
(* with a small lgConfigK the list turns into the array directly.          *)
(*                                                                         *)
(* A coupon is the pair <<key, value>> of its 26 address bits and its six  *)
(* value bits.  The HLL array is held as its registers: Hll4Array and      *)
(* Hll8Array are about how it keeps them.                                  *)
(***************************************************************************)
EXTENDS ProbeTable

CONSTANTS
  LgList,       \* LG_INIT_LIST_SIZE (3)
  LgInitSet,    \* LG_INIT_SET_SIZE (5)
  MinSetLgK,    \* the smallest lgConfigK with a SET mode (8)
  SetMargin     \* a set grows up to lgConfigK - SetMargin (3)

ASSUME HllImplAssumption ==
  /\ LgList \in Nat /\ LgInitSet \in Nat /\ SetMargin \in Nat
  /\ MinSetLgK \in Nat /\ MinSetLgK - SetMargin >= LgInitSet
  /\ Powers(LgList) /\ ~ overloaded(2 ^ LgList, LgInitSet)

SlotsOf(lgK) == 0 .. 2 ^ lgK - 1

\* A coupon mode: the array of coupons, its log size and its count.
newCoupons(lgK, mode, lg) ==
  [lgK |-> lgK, mode |-> mode, ooo |-> mode = "SET",
   arr |-> EmptyTable(lg), lg |-> lg, count |-> 0]

newList(lgK) == newCoupons(lgK, "LIST", LgList)
newSet(lgK)  == newCoupons(lgK, "SET", LgInitSet)

newHll(lgK) == [lgK |-> lgK, mode |-> "HLL", ooo |-> FALSE,
                reg |-> [s \in SlotsOf(lgK) |-> 0]]

isEmpty(k) == IF k.mode = "HLL" THEN \A s \in SlotsOf(k.lgK) : k.reg[s] = 0
              ELSE k.count = 0

----------------------------------------------------------------------------
(* HllArray: the slot is the low lgK bits of the key. *)

hllUpdate(k, c) ==
  LET s == c[1] % (2 ^ k.lgK)
  IN  [k EXCEPT !.reg[s] = IF c[2] > @ THEN c[2] ELSE @]

\* The valid pairs of a sketch in the order of its iterator, which takes a
\* register of zero for an empty cell.
pairs(k) ==
  IF k.mode = "HLL"
  THEN Entries([s \in SlotsOf(k.lgK) |-> IF k.reg[s] = 0 THEN EMPTY ELSE <<s, k.reg[s]>>],
               k.lgK)
  ELSE Entries(k.arr, k.lg)

promoteHeapListOrSetToHll(k) ==
  FoldLeft(LAMBDA h, c : hllUpdate(h, c), newHll(k.lgK), pairs(k))

----------------------------------------------------------------------------
(* CouponHashSet: coupons are compared whole, but probed for by their key,  *)
(* so that coupons of one key share a walk.                                 *)

cellOf(k, c) == findCell(k.arr, k.lg, c[1], LAMBDA cell : cell = c)

putCoupon(k, c) == [k EXCEPT !.arr[cellOf(k, c)] = c]

\* Slip: the set may grow once more.
atMaxSizeLate(k) == k.lg = k.lgK - SetMargin + 1

atMaxSize(k) == k.lg = k.lgK - SetMargin

growHashSet(k) ==
  FoldLeft(LAMBDA n, c : putCoupon(n, c),
           [k EXCEPT !.arr = EmptyTable(k.lg + 1), !.lg = k.lg + 1], pairs(k))

\* The set after its couponUpdate, the promotion left aside.
\* Slip: two coupons with the same key are taken for duplicates.
setInsertByKey(k, c) ==
  LET cell == findCell(k.arr, k.lg, c[1], LAMBDA d : d[1] = c[1])
      n    == [k EXCEPT !.arr[cell] = c, !.count = @ + 1]
  IN  IF k.arr[cell] # EMPTY THEN k
      ELSE IF overloaded(n.count, n.lg) /\ ~ atMaxSize(n) THEN growHashSet(n) ELSE n

setInsert(k, c) ==
  LET n == [putCoupon(k, c) EXCEPT !.count = @ + 1]
  IN  IF k.arr[cellOf(k, c)] # EMPTY THEN k
      ELSE IF overloaded(n.count, n.lg) /\ ~ atMaxSize(n) THEN growHashSet(n) ELSE n

\* checkGrowOrPromote: only the call that inserts promotes.
setUpdate(k, c) ==
  LET n == setInsert(k, c)
  IN  IF n.count > k.count /\ overloaded(n.count, n.lg) /\ atMaxSize(n)
      THEN promoteHeapListOrSetToHll(n) ELSE n

----------------------------------------------------------------------------
(* CouponList: a linear search that ends at the first empty cell. *)

\* The promotions that the insertions into the new set might ask for are
\* not looked at.
promoteHeapListToSet(k) == FoldLeft(setInsert, newSet(k.lgK), pairs(k))

listStops(k, c) == {i \in Cells(k.lg) : k.arr[i] = EMPTY \/ k.arr[i] = c}

\* "Array invalid: no empties and no duplicates".
listThrows(k, c) == listStops(k, c) = {}

\* Slip: the list is promoted by the coupon that no longer fits.
listUpdateLate(k, c) ==
  LET i == CHOOSE j \in listStops(k, c) : \A m \in listStops(k, c) : j <= m
      n == [k EXCEPT !.arr[i] = c, !.count = @ + 1]
  IN  IF k.arr[i] # EMPTY THEN k
      ELSE IF n.count <= 2 ^ k.lg THEN n
      ELSE IF k.lgK < MinSetLgK THEN promoteHeapListOrSetToHll(n)
      ELSE promoteHeapListToSet(n)

listUpdate(k, c) ==
  LET i == CHOOSE j \in listStops(k, c) : \A m \in listStops(k, c) : j <= m
      n == [k EXCEPT !.arr[i] = c, !.count = @ + 1]
  IN  IF k.arr[i] # EMPTY THEN k
      ELSE IF n.count < 2 ^ k.lg THEN n
      ELSE IF k.lgK < MinSetLgK THEN promoteHeapListOrSetToHll(n)
      ELSE promoteHeapListToSet(n)

----------------------------------------------------------------------------

updateThrows(k, c) ==
  CASE k.mode = "LIST" -> listThrows(k, c)
    [] k.mode = "SET"  -> findThrows(k.arr, k.lg, c[1], LAMBDA cell : cell = c)
    [] k.mode = "HLL"  -> FALSE

couponUpdate(k, c) ==
  CASE k.mode = "LIST" -> listUpdate(k, c)
    [] k.mode = "SET"  -> setUpdate(k, c)
    [] k.mode = "HLL"  -> hllUpdate(k, c)
=============================================================================

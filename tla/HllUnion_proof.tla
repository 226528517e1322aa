--------------------------- MODULE HllUnion_proof ---------------------------
(***************************************************************************)
(* What is proved of HllUnion (HllUnion.cpp, with the sketches and images  *)
(* that it handles).                                                       *)
(***************************************************************************)
EXTENDS HllUnion, TLAPS, SequenceTheorems, FiniteSetTheorems

----------------------------------------------------------------------------
(* Folds.  Each has a step of its own, and keeps what its step keeps.      *)

\* What a fold that starts from k makes of it.  A set grows, so that only its
\* lgConfigK and mode are kept; an array keeps its out-of-order flag too.
CouponFields == {"lgK", "mode", "ooo", "arr", "lg", "count"}
HllFields    == {"lgK", "mode", "ooo", "reg"}

IsList(k) ==
  /\ k = [f \in CouponFields |-> k[f]]
  /\ k.lgK \in Nat /\ Powers(k.lgK) /\ k.count \in Nat
  /\ k.mode = "LIST" /\ k.lg = LgList

IsSet(k) ==
  /\ k = [f \in CouponFields |-> k[f]]
  /\ k.lgK \in Nat /\ Powers(k.lgK) /\ k.count \in Nat
  /\ k.mode = "SET" /\ k.lgK >= MinSetLgK /\ k.lg \in LgInitSet .. k.lgK - SetMargin

IsHll(k) ==
  /\ k = [f \in HllFields |-> k[f]]
  /\ k.lgK \in Nat /\ Powers(k.lgK) /\ k.mode = "HLL"

IsImpl(k) == IsList(k) \/ IsSet(k) \/ IsHll(k)

\* m is a set, or an array, that came from k.
SetFrom(k, m) == IsSet(m) /\ m.lgK = k.lgK
HllFrom(k, m) == IsHll(m) /\ m.lgK = k.lgK /\ m.ooo = k.ooo

ImplFrom(k, m) == IsImpl(m) /\ m.lgK = k.lgK /\ (IsHll(k) => HllFrom(k, m))

lastOf(S) == CHOOSE x \in S : \A y \in S : x >= y

picking(p, q, i, acc)   == IF q[i] = EMPTY THEN acc ELSE Append(acc, q[i])
recording(p, q, i, acc) == hllUpdate(acc, q[i])
putting(p, q, i, acc)   == putCoupon(acc, q[i])
inserting(p, q, i, acc) == setInsert(acc, q[i])
taking(p, q, i, acc)    == couponUpdate(acc, q[i])

isSeqOf(p, q, n, acc)    == acc \in Seq(p)
isHllFrom(p, q, n, acc)  == HllFrom(p, acc)
isSetFrom(p, q, n, acc)  == SetFrom(p, acc)
isImplFrom(p, q, n, acc) == ImplFrom(p, acc)

Picks   == INSTANCE FoldTheorems WITH step <- picking,   choose <- lastOf, Good <- isSeqOf
Records == INSTANCE FoldTheorems WITH step <- recording, choose <- lastOf, Good <- isHllFrom
Puts    == INSTANCE FoldTheorems WITH step <- putting,   choose <- lastOf, Good <- isSetFrom
Inserts == INSTANCE FoldTheorems WITH step <- inserting, choose <- lastOf, Good <- isSetFrom
Takes   == INSTANCE FoldTheorems WITH step <- taking,    choose <- lastOf, Good <- isImplFrom

\* The folds run over a sequence in order: the last index is taken off first.
LEMMA FoldsChooseLast ==
  /\ Picks!ChoosesLast /\ Records!ChoosesLast /\ Puts!ChoosesLast
  /\ Inserts!ChoosesLast /\ Takes!ChoosesLast
BY DEF Picks!ChoosesLast, Records!ChoosesLast, Puts!ChoosesLast, Inserts!ChoosesLast,
       Takes!ChoosesLast, lastOf

\* A sequence, by its domain alone.
IsSeq(s) == \E n \in Nat : DOMAIN s = 1 .. n

\* valid of a sequence as a fold of this module.
LEMMA ValidIsFold ==
  ASSUME NEW s, NEW p, NEW n \in Nat, DOMAIN s = 1 .. n
  PROVE  valid(s) = Picks!Left(p, s, <<>>, n)
BY DEF valid, FoldLeft, MapThenFoldSet, Max, Picks!Left, Picks!Fold, Picks!MapThenFoldSet,
       picking, lastOf

\* The valid cells of a sequence are a sequence.
LEMMA ValidIsSeq ==
  ASSUME NEW s, IsSeq(s)
  PROVE  IsSeq(valid(s))
<1>1. PICK n \in Nat : DOMAIN s = 1 .. n
  BY DEF IsSeq
<1>. DEFINE p == {s[i] : i \in 1 .. n}
<1>2. \A i \in 1 .. n : s[i] \in p
  OBVIOUS
<1>. HIDE DEF p
<1>3. Picks!Preserves(p, s, n)
  <2>1. ASSUME NEW i \in 1 .. n, NEW acc, isSeqOf(p, s, i - 1, acc)
        PROVE  isSeqOf(p, s, i, picking(p, s, i, acc))
    BY <2>1, <1>2 DEF isSeqOf, picking
  <2>. QED BY <2>1 DEF Picks!Preserves
<1>4. isSeqOf(p, s, 0, <<>>)
  BY DEF isSeqOf
<1>5. isSeqOf(p, s, n, Picks!Left(p, s, <<>>, n))
  BY <1>3, <1>4, FoldsChooseLast, Picks!LeftKeeps
<1>6. valid(s) \in Seq(p)
  BY <1>1, <1>5, ValidIsFold DEF isSeqOf
<1>. QED BY <1>6 DEF IsSeq

\* What an update of an array leaves alone.
LEMMA HllUpdateKeeps ==
  ASSUME NEW k, IsHll(k), NEW c
  PROVE  HllFrom(k, hllUpdate(k, c))
BY DEF IsHll, HllFields, HllFrom, hllUpdate

\* ... and what putting a coupon into a set leaves alone,
LEMMA PutKeeps ==
  ASSUME NEW k, IsSet(k), NEW c
  PROVE  SetFrom(k, putCoupon(k, c))
BY DEF IsSet, CouponFields, SetFrom, putCoupon

\* ... and so does a sequence of them.
LEMMA RecordsKeep ==
  ASSUME NEW k, IsHll(k), NEW s, IsSeq(s)
  PROVE  HllFrom(k, FoldLeft(LAMBDA h, c : hllUpdate(h, c), k, s))
<1>1. PICK n \in Nat : DOMAIN s = 1 .. n
  BY DEF IsSeq
<1>2. FoldLeft(LAMBDA h, c : hllUpdate(h, c), k, s) = Records!Left(k, s, k, n)
  BY <1>1 DEF FoldLeft, MapThenFoldSet, Max, Records!Left, Records!Fold,
              Records!MapThenFoldSet, recording, lastOf
<1>3. Records!Preserves(k, s, n)
  <2>1. ASSUME NEW i \in 1 .. n, NEW acc, isHllFrom(k, s, i - 1, acc)
        PROVE  isHllFrom(k, s, i, recording(k, s, i, acc))
    <3>1. IsHll(acc) /\ HllFrom(k, acc)
      BY <2>1 DEF isHllFrom, HllFrom
    <3>2. HllFrom(acc, hllUpdate(acc, s[i]))
      BY <3>1, HllUpdateKeeps
    <3>. QED BY <3>1, <3>2 DEF isHllFrom, recording, HllFrom
  <2>. QED BY <2>1 DEF Records!Preserves
<1>4. isHllFrom(k, s, 0, k)
  BY DEF isHllFrom, HllFrom
<1>5. isHllFrom(k, s, n, Records!Left(k, s, k, n))
  BY <1>3, <1>4, FoldsChooseLast, Records!LeftKeeps
<1>. QED BY <1>2, <1>5 DEF isHllFrom

\* A sequence of coupons put into a set.
LEMMA PutsKeep ==
  ASSUME NEW k, IsSet(k), NEW s, IsSeq(s)
  PROVE  SetFrom(k, FoldLeft(LAMBDA o, c : putCoupon(o, c), k, s))
<1>1. PICK n \in Nat : DOMAIN s = 1 .. n
  BY DEF IsSeq
<1>2. FoldLeft(LAMBDA o, c : putCoupon(o, c), k, s) = Puts!Left(k, s, k, n)
  BY <1>1 DEF FoldLeft, MapThenFoldSet, Max, Puts!Left, Puts!Fold,
              Puts!MapThenFoldSet, putting, lastOf
<1>3. Puts!Preserves(k, s, n)
  <2>1. ASSUME NEW i \in 1 .. n, NEW acc, isSetFrom(k, s, i - 1, acc)
        PROVE  isSetFrom(k, s, i, putting(k, s, i, acc))
    <3>1. IsSet(acc) /\ SetFrom(k, acc)
      BY <2>1 DEF isSetFrom, SetFrom
    <3>2. SetFrom(acc, putCoupon(acc, s[i]))
      BY <3>1, PutKeeps
    <3>. QED BY <3>1, <3>2 DEF isSetFrom, putting, SetFrom
  <2>. QED BY <2>1 DEF Puts!Preserves
<1>4. isSetFrom(k, s, 0, k)
  BY DEF isSetFrom, SetFrom
<1>5. isSetFrom(k, s, n, Puts!Left(k, s, k, n))
  BY <1>3, <1>4, FoldsChooseLast, Puts!LeftKeeps
<1>. QED BY <1>2, <1>5 DEF isSetFrom

\* The pairs of a sketch are a sequence.
LEMMA PairsAreSeq ==
  ASSUME NEW k, IsImpl(k)
  PROVE  IsSeq(pairs(k))
<1>1. ASSUME NEW lg, 2 ^ lg \in Nat, NEW arr PROVE IsSeq(Entries(arr, lg))
  <2>. DEFINE s == [i \in 1 .. 2 ^ lg |-> arr[i - 1]]
  <2>1. IsSeq(s)
    BY <1>1 DEF IsSeq
  <2>. HIDE DEF s
  <2>2. IsSeq(valid(s))
    BY <2>1, ValidIsSeq
  <2>. QED BY <2>2 DEF Entries, s
<1>2. CASE IsHll(k)
  <2>1. 2 ^ k.lgK \in Nat /\ k.mode = "HLL"
    <3>1. k.lgK \in 0 .. k.lgK
      BY <1>2 DEF IsHll
    <3>. QED BY <1>2, <3>1 DEF IsHll, Powers
  <2>. QED BY <2>1, <1>1 DEF pairs
<1>3. CASE IsList(k)
  <2>1. 2 ^ k.lg \in Nat /\ k.mode # "HLL"
    <3>1. LgList \in Nat /\ Powers(LgList)
      BY HllImplAssumption
    <3>. QED BY <1>3, <3>1 DEF IsList, Powers
  <2>. QED BY <2>1, <1>1 DEF pairs
<1>4. CASE IsSet(k)
  <2>1. k.lg \in 0 .. k.lgK
    BY <1>4, HllImplAssumption DEF IsSet
  <2>2. 2 ^ k.lg \in Nat /\ k.mode # "HLL"
    BY <1>4, <2>1 DEF IsSet, Powers
  <2>. QED BY <2>2, <1>1 DEF pairs
<1>. QED BY <1>2, <1>3, <1>4 DEF IsImpl

\* A new array and a new set.
LEMMA NewAre ==
  ASSUME NEW lgK \in Nat, Powers(lgK)
  PROVE  /\ IsHll(newHll(lgK)) /\ newHll(lgK).lgK = lgK
         /\ IsList(newList(lgK)) /\ newList(lgK).lgK = lgK
         /\ lgK >= MinSetLgK => IsSet(newSet(lgK)) /\ newSet(lgK).lgK = lgK
<1>1. IsHll(newHll(lgK)) /\ newHll(lgK).lgK = lgK
  BY DEF newHll, IsHll, HllFields
<1>2. IsList(newList(lgK)) /\ newList(lgK).lgK = lgK
  BY DEF newList, newCoupons, IsList, CouponFields
<1>3. ASSUME lgK >= MinSetLgK PROVE IsSet(newSet(lgK)) /\ newSet(lgK).lgK = lgK
  <2>1. LgInitSet \in LgInitSet .. lgK - SetMargin
    BY <1>3, HllImplAssumption
  <2>. QED BY <1>3, <2>1 DEF newSet, newCoupons, IsSet, CouponFields
<1>. QED BY <1>1, <1>2, <1>3

\* A promotion to an array keeps the lgConfigK.
LEMMA PromoteKeeps ==
  ASSUME NEW k, IsImpl(k)
  PROVE  IsHll(promoteHeapListOrSetToHll(k)) /\ promoteHeapListOrSetToHll(k).lgK = k.lgK
<1>1. IsHll(newHll(k.lgK)) /\ newHll(k.lgK).lgK = k.lgK /\ IsSeq(pairs(k))
  BY NewAre, PairsAreSeq DEF IsImpl, IsHll, IsList, IsSet
<1>. DEFINE h == newHll(k.lgK)
            s == pairs(k)
            m == FoldLeft(LAMBDA g, c : hllUpdate(g, c), h, s)
<1>2. HllFrom(h, m)
  <2>. HIDE DEF h, s
  <2>. QED BY <1>1, RecordsKeep DEF h, s
<1>. QED BY <1>1, <1>2 DEF HllFrom, promoteHeapListOrSetToHll

\* A set that may grow grows to a set of an allowed size.
LEMMA GrowKeeps ==
  ASSUME NEW k, IsSet(k), ~ atMaxSize(k)
  PROVE  SetFrom(k, growHashSet(k))
<1>. DEFINE n == [k EXCEPT !.arr = EmptyTable(k.lg + 1), !.lg = k.lg + 1]
            s == pairs(k)
<1>1. SetFrom(k, n)
  <2>1. k.lg + 1 \in LgInitSet .. k.lgK - SetMargin
    BY HllImplAssumption DEF IsSet, atMaxSize
  <2>2. /\ n = [f \in CouponFields |-> n[f]] /\ n.lg = k.lg + 1
        /\ n.lgK = k.lgK /\ n.count = k.count /\ n.mode = k.mode
    BY DEF IsSet, CouponFields
  <2>. HIDE DEF n
  <2>. QED BY <2>1, <2>2 DEF IsSet, SetFrom
<1>2. IsSeq(s)
  BY PairsAreSeq DEF IsImpl
<1>. DEFINE m == FoldLeft(LAMBDA g, c : putCoupon(g, c), n, s)
<1>3. SetFrom(n, m)
  <2>. HIDE DEF n, s
  <2>. QED BY <1>1, <1>2, PutsKeep DEF SetFrom
<1>. QED BY <1>1, <1>3 DEF SetFrom, growHashSet

\* The insertion into a set, with the growth that it may ask for.
LEMMA SetInsertKeeps ==
  ASSUME NEW k, IsSet(k), NEW c
  PROVE  SetFrom(k, setInsert(k, c))
<1>. DEFINE n == [putCoupon(k, c) EXCEPT !.count = @ + 1]
<1>1. SetFrom(k, n)
  <2>1. SetFrom(k, putCoupon(k, c))
    BY PutKeeps
  <2>. DEFINE q == putCoupon(k, c)
  <2>2. SetFrom(k, [q EXCEPT !.count = @ + 1])
    <3>. HIDE DEF q
    <3>1. SetFrom(k, q)
      BY <2>1 DEF q
    <3>. QED BY <3>1 DEF SetFrom, IsSet, CouponFields
  <2>. QED BY <2>2
<1>. HIDE DEF n
<1>2. ~ atMaxSize(n) => SetFrom(k, growHashSet(n))
  BY <1>1, GrowKeeps DEF SetFrom
<1>3. SetFrom(k, k)
  BY DEF SetFrom
<1>. QED BY <1>1, <1>2, <1>3 DEF setInsert, n

\* A sequence of coupons inserted into a set.
LEMMA InsertsKeep ==
  ASSUME NEW k, IsSet(k), NEW s, IsSeq(s)
  PROVE  SetFrom(k, FoldLeft(setInsert, k, s))
<1>1. PICK n \in Nat : DOMAIN s = 1 .. n
  BY DEF IsSeq
<1>2. FoldLeft(setInsert, k, s) = Inserts!Left(k, s, k, n)
  BY <1>1 DEF FoldLeft, MapThenFoldSet, Max, Inserts!Left, Inserts!Fold,
              Inserts!MapThenFoldSet, inserting, lastOf
<1>3. Inserts!Preserves(k, s, n)
  <2>1. ASSUME NEW i \in 1 .. n, NEW acc, isSetFrom(k, s, i - 1, acc)
        PROVE  isSetFrom(k, s, i, inserting(k, s, i, acc))
    <3>1. IsSet(acc) /\ SetFrom(k, acc)
      BY <2>1 DEF isSetFrom, SetFrom
    <3>2. SetFrom(acc, setInsert(acc, s[i]))
      BY <3>1, SetInsertKeeps
    <3>. QED BY <3>1, <3>2 DEF isSetFrom, inserting, SetFrom
  <2>. QED BY <2>1 DEF Inserts!Preserves
<1>4. isSetFrom(k, s, 0, k)
  BY DEF isSetFrom, SetFrom
<1>5. isSetFrom(k, s, n, Inserts!Left(k, s, k, n))
  BY <1>3, <1>4, FoldsChooseLast, Inserts!LeftKeeps
<1>. QED BY <1>2, <1>5 DEF isSetFrom

\* couponUpdate, whatever the mode.
LEMMA UpdateKeeps ==
  ASSUME NEW k, IsImpl(k), NEW c
  PROVE  ImplFrom(k, couponUpdate(k, c))
<1>1. CASE IsHll(k)
  <2>1. k.mode = "HLL" /\ HllFrom(k, hllUpdate(k, c))
    BY <1>1, HllUpdateKeeps DEF IsHll
  <2>. QED BY <1>1, <2>1 DEF couponUpdate, ImplFrom, IsImpl, HllFrom
<1>2. CASE IsSet(k)
  <2>0. k.mode = "SET" /\ ~ IsHll(k)
    BY <1>2 DEF IsSet, IsHll
  <2>. DEFINE n == setInsert(k, c)
  <2>1. SetFrom(k, n)
    BY <1>2, SetInsertKeeps
  <2>. HIDE DEF n
  <2>2. IsImpl(n) /\ n.lgK = k.lgK
    BY <2>1 DEF SetFrom, IsImpl
  <2>3. IsHll(promoteHeapListOrSetToHll(n)) /\ promoteHeapListOrSetToHll(n).lgK = k.lgK
    BY <2>2, PromoteKeeps
  <2>4. couponUpdate(k, c) = setUpdate(k, c)
    BY <2>0 DEF couponUpdate
  <2>5. couponUpdate(k, c) \in {n, promoteHeapListOrSetToHll(n)}
    BY <2>4 DEF setUpdate, n
  <2>. QED BY <2>0, <2>2, <2>3, <2>5 DEF ImplFrom, IsImpl
<1>3. CASE IsList(k)
  <2>0. k.mode = "LIST" /\ ~ IsHll(k)
    BY <1>3 DEF IsList, IsHll
  <2>. DEFINE i == CHOOSE j \in listStops(k, c) : \A m \in listStops(k, c) : j <= m
              n == [k EXCEPT !.arr[i] = c, !.count = @ + 1]
  <2>1. IsList(n) /\ n.lgK = k.lgK
    <3>. DEFINE q == [k EXCEPT !.arr[i] = c]
    <3>1. IsList(q) /\ q.lgK = k.lgK
      <4>. HIDE DEF i
      <4>. QED BY <1>3 DEF IsList, CouponFields
    <3>2. n = [q EXCEPT !.count = @ + 1]
      <4>. HIDE DEF i
      <4>. QED BY <1>3 DEF IsList, CouponFields
    <3>3. ASSUME NEW r, IsList(r)
          PROVE  IsList([r EXCEPT !.count = @ + 1]) /\ [r EXCEPT !.count = @ + 1].lgK = r.lgK
      BY <3>3 DEF IsList, CouponFields
    <3>. HIDE DEF q, n
    <3>. QED BY <3>1, <3>2, <3>3
  <2>2. couponUpdate(k, c) = listUpdate(k, c)
    BY <2>0 DEF couponUpdate
  <2>. HIDE DEF n
  <2>3. \/ couponUpdate(k, c) \in {k, n, promoteHeapListOrSetToHll(n)}
        \/ couponUpdate(k, c) = promoteHeapListToSet(n) /\ k.lgK >= MinSetLgK
    <3>1. MinSetLgK \in Nat /\ k.lgK \in Nat
      BY <1>3, HllImplAssumption DEF IsList
    <3>. QED BY <2>2, <3>1 DEF listUpdate, n
  <2>4. IsHll(promoteHeapListOrSetToHll(n)) /\ promoteHeapListOrSetToHll(n).lgK = k.lgK
    BY <2>1, PromoteKeeps DEF IsImpl
  <2>5. k.lgK >= MinSetLgK =>
          IsSet(promoteHeapListToSet(n)) /\ promoteHeapListToSet(n).lgK = k.lgK
    <3>. SUFFICES ASSUME k.lgK >= MinSetLgK
                  PROVE  IsSet(promoteHeapListToSet(n)) /\ promoteHeapListToSet(n).lgK = k.lgK
      OBVIOUS
    <3>. DEFINE e == newSet(n.lgK)
                s == pairs(n)
    <3>1. IsSet(e) /\ e.lgK = n.lgK /\ IsSeq(s)
      BY <1>3, <2>1, NewAre, PairsAreSeq DEF IsList, IsImpl
    <3>2. SetFrom(e, FoldLeft(setInsert, e, s))
      <4>. HIDE DEF e, s
      <4>. QED BY <3>1, InsertsKeep
    <3>. QED BY <2>1, <3>1, <3>2 DEF SetFrom, promoteHeapListToSet
  <2>. QED BY <1>3, <2>0, <2>1, <2>3, <2>4, <2>5 DEF ImplFrom, IsImpl
<1>. QED BY <1>1, <1>2, <1>3 DEF IsImpl

\* A sequence of updates.
LEMMA TakesKeep ==
  ASSUME NEW k, IsImpl(k), NEW s, IsSeq(s)
  PROVE  ImplFrom(k, FoldLeft(couponUpdate, k, s))
<1>1. PICK n \in Nat : DOMAIN s = 1 .. n
  BY DEF IsSeq
<1>2. FoldLeft(couponUpdate, k, s) = Takes!Left(k, s, k, n)
  BY <1>1 DEF FoldLeft, MapThenFoldSet, Max, Takes!Left, Takes!Fold,
              Takes!MapThenFoldSet, taking, lastOf
<1>3. Takes!Preserves(k, s, n)
  <2>1. ASSUME NEW i \in 1 .. n, NEW acc, isImplFrom(k, s, i - 1, acc)
        PROVE  isImplFrom(k, s, i, taking(k, s, i, acc))
    <3>1. IsImpl(acc) /\ ImplFrom(k, acc)
      BY <2>1 DEF isImplFrom, ImplFrom
    <3>2. ImplFrom(acc, couponUpdate(acc, s[i]))
      BY <3>1, UpdateKeeps
    <3>. QED BY <3>1, <3>2 DEF isImplFrom, taking, ImplFrom, HllFrom
  <2>. QED BY <2>1 DEF Takes!Preserves
<1>4. isImplFrom(k, s, 0, k)
  BY DEF isImplFrom, ImplFrom, HllFrom
<1>5. isImplFrom(k, s, n, Takes!Left(k, s, k, n))
  BY <1>3, <1>4, FoldsChooseLast, Takes!LeftKeeps
<1>. QED BY <1>2, <1>5 DEF isImplFrom

\* A sequence of coupons through couponUpdate.
LEMMA TakeAllKeeps ==
  ASSUME NEW k, IsImpl(k), NEW src, IsImpl(src)
  PROVE  ImplFrom(k, takeAll(k, src))
BY PairsAreSeq, TakesKeep DEF takeAll

----------------------------------------------------------------------------
(* The merging of sketches. *)

\* An array with another out-of-order flag.
LEMMA Flagged ==
  ASSUME NEW k, IsHll(k), NEW flag
  PROVE  /\ IsHll([k EXCEPT !.ooo = flag]) /\ [k EXCEPT !.ooo = flag].lgK = k.lgK
         /\ [k EXCEPT !.ooo = flag].ooo = flag
BY DEF IsHll, HllFields

\* A coupon mode with another flag.
LEMMA FlaggedCoupons ==
  ASSUME NEW k, IsList(k) \/ IsSet(k), NEW flag
  PROVE  /\ IsList([k EXCEPT !.ooo = flag]) \/ IsSet([k EXCEPT !.ooo = flag])
         /\ [k EXCEPT !.ooo = flag].lgK = k.lgK
         /\ [k EXCEPT !.ooo = flag].mode = k.mode
<1>1. CASE IsList(k)
  BY <1>1 DEF IsList, CouponFields
<1>2. CASE IsSet(k)
  BY <1>2 DEF IsSet, CouponFields
<1>. QED BY <1>1, <1>2

\* An array that was brought down to tgtLgK is not finer than that.
LEMMA DownsampleKeeps ==
  ASSUME NEW src, IsHll(src), NEW tgtLgK \in Nat, Powers(tgtLgK)
  PROVE  /\ IsHll(copyOrDownsampleHll(src, tgtLgK))
         /\ copyOrDownsampleHll(src, tgtLgK).ooo = src.ooo
         /\ copyOrDownsampleHll(src, tgtLgK).lgK = lesser(src.lgK, tgtLgK)
<1>1. CASE src.lgK <= tgtLgK
  BY <1>1 DEF copyOrDownsampleHll, lesser
<1>2. CASE ~ (src.lgK <= tgtLgK)
  <2>. DEFINE k == takeAll(newHll(tgtLgK), src)
  <2>1. IsHll(k) /\ k.lgK = tgtLgK
    BY NewAre, TakeAllKeeps DEF ImplFrom, HllFrom, IsImpl
  <2>2. copyOrDownsampleHll(src, tgtLgK) = [k EXCEPT !.ooo = src.ooo]
    BY <1>2 DEF copyOrDownsampleHll
  <2>. HIDE DEF k
  <2>. QED BY <1>2, <2>1, <2>2, Flagged DEF lesser
<1>. QED BY <1>1, <1>2

\* u can be what a merge makes of the gadget g.
UnionOf(u, g, src, maxLgK) ==
  /\ IsImpl(u)
  /\ src.mode # "HLL" => u.lgK = g.lgK /\ (g.mode = "HLL" => u.mode = "HLL")
  /\ src.mode # "HLL" /\ g.mode = "HLL" /\ ~ isEmpty(g) => (g.ooo => u.ooo)
  /\ src.mode = "HLL" /\ g.mode # "HLL" =>
       IsHll(u) /\ u.lgK = lesser(src.lgK, maxLgK) /\ (~ u.ooo => ~ src.ooo)
  /\ src.mode = "HLL" /\ g.mode = "HLL" =>
       IsHll(u) /\ u.lgK = lesser(src.lgK, g.lgK) /\ u.ooo

\* All cases of unionImpl.
LEMMA UnionKeeps ==
  ASSUME NEW g, IsImpl(g), NEW src, IsImpl(src), NEW maxLgK \in Nat, Powers(maxLgK)
  PROVE  UnionOf(unionImpl(g, src, maxLgK), g, src, maxLgK)
<1>. DEFINE u == unionImpl(g, src, maxLgK)
<1>0. /\ IsHll(g) <=> g.mode = "HLL"
      /\ IsHll(src) <=> src.mode = "HLL"
      /\ g.lgK \in Nat /\ Powers(g.lgK) /\ src.lgK \in Nat /\ Powers(src.lgK)
  BY DEF IsImpl, IsHll, IsList, IsSet
<1>1. CASE src.mode # "HLL"
  <2>. DEFINE k == takeAll(g, src)
  <2>1. ImplFrom(g, k)
    BY TakeAllKeeps
  <2>. DEFINE flag == IF isEmpty(g) THEN src.ooo
                     ELSE IF g.mode = "SET" THEN TRUE ELSE k.ooo \/ src.ooo
  <2>2. u = [k EXCEPT !.ooo = flag]
    BY <1>1 DEF unionImpl, unionOfCoupons
  <2>3. g.mode = "HLL" /\ ~ isEmpty(g) => (k.ooo => flag)
    OBVIOUS
  <2>. HIDE DEF k, u, flag
  <2>4. IsImpl(u) /\ u.lgK = k.lgK /\ (IsHll(k) => IsHll(u) /\ u.ooo = flag)
    BY <2>1, <2>2, Flagged, FlaggedCoupons DEF IsImpl, ImplFrom
  <2>. QED BY <1>0, <1>1, <2>1, <2>3, <2>4 DEF UnionOf, ImplFrom, IsHll, HllFrom, u
<1>2. CASE src.mode = "HLL" /\ g.mode # "HLL"
  <2>. DEFINE d == copyOrDownsampleHll(src, maxLgK)
              k == takeAll(d, g)
  <2>1. IsHll(d) /\ d.ooo = src.ooo /\ d.lgK = lesser(src.lgK, maxLgK)
    BY <1>0, <1>2, DownsampleKeeps
  <2>. HIDE DEF d
  <2>2. IsHll(k) /\ k.lgK = d.lgK
    BY <2>1, TakeAllKeeps DEF ImplFrom, HllFrom, IsImpl
  <2>3. u = [k EXCEPT !.ooo = g.ooo \/ d.ooo]
    BY <1>2 DEF unionImpl, unionIntoHll, d
  <2>. HIDE DEF k, u
  <2>4. IsHll(u) /\ u.lgK = k.lgK /\ u.ooo = (g.ooo \/ d.ooo)
    BY <2>2, <2>3, Flagged
  <2>. QED BY <1>2, <2>1, <2>2, <2>4 DEF UnionOf, u, IsImpl
<1>3. CASE src.mode = "HLL" /\ g.mode = "HLL"
  <2>. DEFINE d == IF src.lgK < g.lgK THEN copyOrDownsampleHll(g, src.lgK) ELSE g
              k == takeAll(d, src)
  <2>1. IsHll(d) /\ d.lgK = lesser(src.lgK, g.lgK)
    <3>. DEFINE e == copyOrDownsampleHll(g, src.lgK)
    <3>1. IsHll(e) /\ e.lgK = lesser(g.lgK, src.lgK)
      BY <1>0, <1>3, DownsampleKeeps
    <3>. HIDE DEF e
    <3>2. d = IF src.lgK < g.lgK THEN e ELSE g
      BY DEF e
    <3>. QED BY <1>0, <1>3, <3>1, <3>2 DEF lesser
  <2>. HIDE DEF d
  <2>2. IsHll(k) /\ k.lgK = d.lgK
    BY <2>1, TakeAllKeeps DEF ImplFrom, HllFrom, IsImpl
  <2>3. u = [k EXCEPT !.ooo = TRUE]
    BY <1>3 DEF unionImpl, unionOfHlls, d
  <2>. HIDE DEF k, u
  <2>4. IsHll(u) /\ u.lgK = k.lgK /\ u.ooo
    BY <2>2, <2>3, Flagged
  <2>. QED BY <1>3, <2>1, <2>2, <2>4 DEF UnionOf, u, IsImpl
<1>. QED BY <1>1, <1>2, <1>3

----------------------------------------------------------------------------
(* The images. *)

\* A list, a set and an array with other contents.
ListWith(l, a, n, flag) == [l EXCEPT !.arr = a, !.count = n, !.ooo = flag]
SetWith(l, lg, n, a)    == [l EXCEPT !.lg = lg, !.count = n, !.arr = a]
HllWith(h, r, flag)     == [h EXCEPT !.reg = r, !.ooo = flag]

\* A list whose cells and count were exchanged is a list.
LEMMA ListWithIs ==
  ASSUME NEW l, IsList(l), NEW a, NEW n \in Nat, NEW flag
  PROVE  IsList(ListWith(l, a, n, flag)) /\ ListWith(l, a, n, flag).lgK = l.lgK
BY DEF IsList, CouponFields, ListWith

\* A set whose cells, size and count were exchanged is a set.
LEMMA SetWithIs ==
  ASSUME NEW l, IsSet(l), NEW lg \in LgInitSet .. l.lgK - SetMargin, NEW n \in Nat, NEW a
  PROVE  IsSet(SetWith(l, lg, n, a)) /\ SetWith(l, lg, n, a).lgK = l.lgK
BY DEF IsSet, CouponFields, SetWith

\* An array whose registers were exchanged is an array.
LEMMA HllWithIs ==
  ASSUME NEW h, IsHll(h), NEW r, NEW flag
  PROVE  /\ IsHll(HllWith(h, r, flag)) /\ HllWith(h, r, flag).lgK = h.lgK
         /\ HllWith(h, r, flag).ooo = flag
BY DEF IsHll, HllFields, HllWith

\* What is read back is of the mode and the lgConfigK that were written, and,
\* for an array, in or out of order as it was.
AlikeOutside(k, m) ==
  IsImpl(m) /\ m.mode = k.mode /\ m.lgK = k.lgK /\ (IsHll(k) => m.ooo = k.ooo)

\* What the readers make of an image keeps lgConfigK, mode and flag.
LEMMA ReadBack ==
  ASSUME NEW k, IsImpl(k), NEW type, NEW compact \in BOOLEAN, NEW stream \in BOOLEAN
  PROVE  AlikeOutside(k, deserialized(serialize(k, type, compact), stream, EMPTY))
<1>. DEFINE im == serialize(k, type, compact)
            m  == deserialized(im, stream, EMPTY)
<1>1. /\ im.preInts = PreInts[k.mode] /\ im.lgK = k.lgK /\ im.oooFlag = k.ooo
      /\ im.compactFlag = compact
      /\ k.mode # "HLL" => im.lgArr = k.lg /\ im.count = k.count
  BY DEF serialize, serializeCoupons, serializeHll
<1>. HIDE DEF im, m
<1>. SUFFICES AlikeOutside(k, m)
  BY DEF im, m
<1>2. modeOf(im) = k.mode
  <2>1. k.mode \in {"LIST", "SET", "HLL"}
    BY DEF IsImpl, IsList, IsSet, IsHll
  <2>2. \A a, b \in {"LIST", "SET", "HLL"} : PreInts[a] = PreInts[b] => a = b
    BY DEF PreInts
  <2>. QED BY <1>1, <2>1, <2>2 DEF modeOf
<1>3. CASE IsList(k)
  <2>1. m = ListWith(newList(im.lgK),
                     filledArr(LgList, SubSeq(im.ints, 1, intsRead(im, stream)), EMPTY),
                     im.count, im.oooFlag)
    BY <1>2, <1>3 DEF m, IsList, deserialized, ListWith
  <2>2. IsList(newList(im.lgK)) /\ newList(im.lgK).lgK = im.lgK
    BY <1>1, <1>3, NewAre DEF IsList
  <2>4. im.count \in Nat
    BY <1>1, <1>3 DEF IsList
  <2>5. IsList(m) /\ m.lgK = im.lgK
    BY <2>1, <2>2, <2>4, ListWithIs
  <2>. QED BY <1>1, <1>3, <2>5 DEF AlikeOutside, IsList, IsHll, IsImpl
<1>4. CASE IsSet(k) /\ compact
  <2>. DEFINE s == SubSeq(im.ints, 1, intsRead(im, stream))
              e == newSet(im.lgK)
  <2>0. k.mode = "SET" /\ k.lgK \in Nat /\ Powers(k.lgK) /\ k.lgK >= MinSetLgK /\ k.count \in Nat
    BY <1>4 DEF IsSet
  <2>1. m = FoldLeft(setInsert, e, s)
    BY <1>1, <1>2, <1>4, <2>0 DEF m, deserialized
  <2>2. intsRead(im, stream) \in Nat
    BY <1>1, <1>2, <1>4, <2>0 DEF intsRead
  <2>3. IsSeq(s)
    BY <2>2 DEF IsSeq
  <2>4. IsSet(e) /\ e.lgK = k.lgK
    BY <1>1, <2>0, NewAre
  <2>. HIDE DEF s, e
  <2>5. SetFrom(e, m)
    BY <2>1, <2>3, <2>4, InsertsKeep
  <2>. QED BY <2>0, <2>4, <2>5 DEF AlikeOutside, SetFrom, IsSet, IsImpl, IsHll
<1>5. CASE IsSet(k) /\ ~ compact
  <2>0. k.mode = "SET" /\ k.lgK \in Nat /\ Powers(k.lgK) /\ k.lgK >= MinSetLgK /\ k.count \in Nat
    BY <1>5 DEF IsSet
  <2>1. m = SetWith(newSet(im.lgK), setLg(im), im.count,
                    filledArr(setLg(im), SubSeq(im.ints, 1, intsRead(im, stream)), EMPTY))
    BY <1>1, <1>2, <1>5, <2>0 DEF m, deserialized, SetWith
  <2>2. setLg(im) = k.lg /\ k.lg \in LgInitSet .. k.lgK - SetMargin /\ im.count \in Nat
    BY <1>1, <1>5, <2>0, HllImplAssumption DEF setLg, IsSet
  <2>3. IsSet(newSet(im.lgK)) /\ newSet(im.lgK).lgK = k.lgK
    BY <1>1, <2>0, NewAre
  <2>5. IsSet(m) /\ m.lgK = k.lgK
    BY <2>1, <2>2, <2>3, SetWithIs
  <2>. QED BY <2>0, <2>5 DEF AlikeOutside, IsSet, IsImpl, IsHll
<1>6. CASE IsHll(k)
  <2>0. k.mode = "HLL" /\ k.lgK \in Nat /\ Powers(k.lgK)
    BY <1>6 DEF IsHll
  <2>1. m = HllWith(newHll(im.lgK),
                    registers(im, valid(SubSeq(im.ints, 1, intsRead(im, stream)))),
                    im.oooFlag)
    BY <1>2, <2>0 DEF m, deserialized, HllWith
  <2>2. IsHll(newHll(im.lgK)) /\ newHll(im.lgK).lgK = k.lgK
    BY <1>1, <2>0, NewAre
  <2>4. IsHll(m) /\ m.lgK = k.lgK /\ m.ooo = im.oooFlag
    BY <2>1, <2>2, HllWithIs
  <2>. QED BY <1>1, <2>0, <2>4 DEF AlikeOutside, IsHll, IsImpl
<1>. QED BY <1>3, <1>4, <1>5, <1>6 DEF IsImpl

\* A union read from the image of a sketch has its lgConfigK.  What it holds is
\* an array if that was one, unless nothing was read.
ReadFrom(u, k, type) ==
  /\ IsImpl(u) /\ u.lgK = k.lgK
  /\ type = "HLL_8" => u.mode = k.mode
  /\ IsHll(k) => \/ type # "HLL_8" /\ u = newList(k.lgK)
                 \/ IsHll(u) /\ (~ u.ooo => ~ k.ooo)

\* What reading a union from an image makes of the gadget.
LEMMA UnionReadBack ==
  ASSUME NEW k, IsImpl(k), NEW type, NEW compact \in BOOLEAN, NEW stream \in BOOLEAN
  PROVE  ReadFrom(unionOfImage(serialize(k, type, compact), stream), k, type)
<1>. DEFINE im == serialize(k, type, compact)
            sk == deserialized(im, stream, EMPTY)
            u  == unionOfImage(im, stream)
<1>1. IsImpl(sk) /\ sk.mode = k.mode /\ sk.lgK = k.lgK /\ (IsHll(k) => sk.ooo = k.ooo)
  BY ReadBack DEF AlikeOutside
<1>2. im.type = type
  BY DEF serialize, serializeCoupons, serializeHll
<1>3. u = IF im.type = "HLL_8" THEN sk
          ELSE IF isEmpty(sk) THEN newList(sk.lgK)
          ELSE unionImpl(newList(sk.lgK), sk, sk.lgK)
  BY DEF unionOfImage
<1>4. k.lgK \in Nat /\ Powers(k.lgK)
  BY DEF IsImpl, IsHll, IsList, IsSet
<1>. DEFINE l == newList(k.lgK)
            v == unionImpl(l, sk, k.lgK)
<1>5. IsList(l) /\ l.lgK = k.lgK
  BY <1>4, NewAre
<1>. HIDE DEF sk, l
<1>6. /\ IsImpl(v)
      /\ sk.mode # "HLL" => v.lgK = l.lgK
      /\ sk.mode = "HLL" => IsHll(v) /\ v.lgK = lesser(sk.lgK, k.lgK) /\ (~ v.ooo => ~ sk.ooo)
  <2>1. l.mode # "HLL" /\ IsImpl(l)
    BY <1>5 DEF IsList, IsImpl
  <2>2. UnionOf(v, l, sk, k.lgK)
    BY <1>1, <1>4, <2>1, UnionKeeps
  <2>. HIDE DEF v
  <2>. QED BY <2>1, <2>2 DEF UnionOf
<1>. HIDE DEF v
<1>7. IF type = "HLL_8" THEN u = sk ELSE u \in {l, v}
  BY <1>1, <1>2, <1>3 DEF l, v
<1>8. lesser(sk.lgK, k.lgK) = k.lgK
  BY <1>1, <1>4 DEF lesser
<1>9. IsHll(sk) <=> IsHll(k)
  BY <1>1 DEF IsImpl, IsHll, IsList, IsSet
<1>10. IsImpl(u) /\ u.lgK = k.lgK /\ (type = "HLL_8" => u.mode = k.mode)
  BY <1>1, <1>5, <1>6, <1>7, <1>8 DEF IsImpl
<1>11. IsHll(k) => \/ type # "HLL_8" /\ u = l
                   \/ IsHll(u) /\ (~ u.ooo => ~ k.ooo)
  BY <1>1, <1>6, <1>7, <1>9 DEF IsHll
<1>. QED BY <1>10, <1>11 DEF l, ReadFrom

----------------------------------------------------------------------------
(* The lgConfigK of the gadget. *)

\* The sketches are what they should be.
Typed ==
  /\ IsImpl(gadget) /\ gadget.lgK \in LgConfigKs
  /\ IsImpl(source) /\ source.lgK \in LgConfigKs
  /\ lgMaxK \in LgConfigKs

\* A gadget that came down and was reset may go up again to lgMaxK, but the
\* arrays that went into it since then do not forbid that.
KInv ==
  /\ Typed
  /\ merged \subseteq LgConfigKs
  /\ EffectiveK
  /\ gadget.mode # "HLL" => \A lgK \in merged : lgMaxK <= lgK

\* What is assumed of every lgConfigK.
LEMMA Ks == \A lgK \in LgConfigKs : lgK \in Nat /\ Powers(lgK)
<1>1. \A lgK \in LgConfigKs : lgK \in Nat /\ Powers(lgK + 1)
  BY HllUnionAssumption
<1>2. \A lgK \in Nat : \A e \in 0 .. lgK : e \in 0 .. lgK + 1
  OBVIOUS
<1>. QED BY <1>1, <1>2 DEF Powers

\* The mode tells the arrays from the other objects.
LEMMA Modes == \A k : IsImpl(k) => (IsHll(k) <=> k.mode = "HLL")
BY DEF IsImpl, IsHll, IsList, IsSet

\* A new list.
LEMMA NewListAt ==
  ASSUME NEW lgK \in LgConfigKs
  PROVE  IsImpl(newList(lgK)) /\ newList(lgK).lgK = lgK /\ newList(lgK).mode # "HLL"
<1>1. IsList(newList(lgK)) /\ newList(lgK).lgK = lgK
  BY Ks, NewAre
<1>. QED BY <1>1 DEF IsImpl, IsList

\* What the steps make of the gadget and the source.
LEMMA StepsKeep ==
  ASSUME Typed
  PROVE  /\ UnionOf(unionImpl(gadget, source, lgMaxK), gadget, source, lgMaxK)
         /\ \A c : ImplFrom(gadget, couponUpdate(gadget, c))
         /\ \A c : ImplFrom(source, couponUpdate(source, c))
BY Ks, UnionKeeps, UpdateKeeps DEF Typed

(* The types of the two sketches are kept by every step. *)
LEMMA TypedStep ==
  ASSUME Typed, [Next]_vars
  PROVE  Typed'
<1>1. CASE updateWithSketch
  <2>. DEFINE u == unionImpl(gadget, source, lgMaxK)
  <2>1. UnionOf(u, gadget, source, lgMaxK)
    BY StepsKeep
  <2>. HIDE DEF u
  <2>2. IsImpl(u) /\ u.lgK \in {gadget.lgK, source.lgK, lgMaxK}
    BY <2>1 DEF UnionOf, lesser
  <2>. QED BY <1>1, <2>2 DEF updateWithSketch, Typed, u
<1>2. CASE reset
  BY <1>2, NewListAt DEF reset, Typed
<1>3. CASE getResult
  BY <1>3 DEF getResult, Typed
<1>4. ASSUME NEW c \in Coupons, updateWithCoupon(c) PROVE Typed'
  BY <1>4, StepsKeep DEF updateWithCoupon, Typed, ImplFrom
<1>5. ASSUME NEW c \in Coupons, sourceUpdate(c) PROVE Typed'
  BY <1>5, StepsKeep DEF sourceUpdate, Typed, ImplFrom
<1>6. ASSUME NEW lgK \in LgConfigKs, newSource(lgK) PROVE Typed'
  BY <1>6, NewListAt DEF newSource, Typed
<1>7. ASSUME NEW compact \in BOOLEAN, NEW stream \in BOOLEAN, reload(compact, stream)
      PROVE  Typed'
  <2>1. ReadFrom(gadget', gadget, "HLL_8")
    BY <1>7, UnionReadBack DEF reload, Typed
  <2>. QED BY <1>7, <2>1 DEF reload, Typed, ReadFrom
<1>8. ASSUME NEW compact \in BOOLEAN, NEW stream \in BOOLEAN, NEW type \in TgtHllTypes,
             deserializeSource(type, compact, stream)
      PROVE  Typed'
  <2>1. ReadFrom(gadget', source, type)
    BY <1>8, UnionReadBack DEF deserializeSource, Typed
  <2>. QED BY <1>8, <2>1 DEF deserializeSource, Typed, ReadFrom
<1>9. CASE UNCHANGED vars
  BY <1>9 DEF vars, Typed
<1>. QED BY <1>1, <1>2, <1>3, <1>4, <1>5, <1>6, <1>7, <1>8, <1>9 DEF Next

\* KInv holds at first.
LEMMA KInvInit == Init => KInv
<1>. SUFFICES ASSUME Init PROVE KInv
  OBVIOUS
<1>1. Typed /\ gadget.lgK = lgMaxK
  BY NewListAt DEF Init, Typed
<1>. QED BY <1>1, Ks DEF Init, KInv, EffectiveK, Typed

\* ... and every step keeps it.
LEMMA KInvStep ==
  ASSUME KInv, [Next]_vars
  PROVE  KInv'
<1>0. Typed /\ Typed'
  BY TypedStep DEF KInv
<1>00. /\ gadget.lgK \in Nat /\ source.lgK \in Nat /\ lgMaxK \in Nat
       /\ \A lgK \in merged : lgK \in Nat
  BY Ks DEF KInv, Typed
<1>1. CASE updateWithSketch
  <2>. DEFINE u == unionImpl(gadget, source, lgMaxK)
  <2>1. UnionOf(u, gadget, source, lgMaxK)
    BY <1>0, StepsKeep
  <2>2. gadget' = u /\ UNCHANGED <<lgMaxK, source>>
    BY <1>1 DEF updateWithSketch
  <2>. HIDE DEF u
  <2>3. CASE source.mode # "HLL"
    <3>1. merged' = merged /\ everMerged' = everMerged \union merged
      BY <1>1, <2>3 DEF updateWithSketch
    <3>. QED BY <1>0, <2>1, <2>2, <2>3, <3>1 DEF KInv, EffectiveK, UnionOf
  <2>4. CASE source.mode = "HLL"
    <3>1. merged' = merged \union {source.lgK} /\ everMerged' = everMerged \union merged'
      BY <1>1, <2>4 DEF updateWithSketch
    <3>2. /\ IsHll(u)
          /\ u.lgK = lesser(source.lgK, IF gadget.mode = "HLL" THEN gadget.lgK ELSE lgMaxK)
      BY <2>1, <2>4 DEF UnionOf
    <3>3. u.mode = "HLL"
      BY <3>2 DEF IsHll
    <3>4. CASE gadget.mode = "HLL"
      <4>1. u.lgK = lesser(source.lgK, gadget.lgK)
        BY <3>2, <3>4
      <4>2. u.lgK <= source.lgK /\ u.lgK <= gadget.lgK /\ u.lgK \in {source.lgK, gadget.lgK}
        BY <1>00, <4>1 DEF lesser
      <4>3. \A lgK \in merged' : u.lgK <= lgK
        BY <1>00, <3>1, <4>2 DEF KInv, EffectiveK
      <4>4. u.lgK <= lgMaxK /\ u.lgK \in {lgMaxK} \union everMerged'
        BY <1>00, <3>1, <4>2 DEF KInv, EffectiveK
      <4>. QED BY <1>0, <2>2, <3>1, <3>3, <4>3, <4>4 DEF KInv, EffectiveK, Typed
    <3>5. CASE gadget.mode # "HLL"
      <4>1. u.lgK = lesser(source.lgK, lgMaxK)
        BY <3>2, <3>5
      <4>2. u.lgK <= source.lgK /\ u.lgK <= lgMaxK /\ u.lgK \in {source.lgK, lgMaxK}
        BY <1>00, <4>1 DEF lesser
      <4>3. \A lgK \in merged' : u.lgK <= lgK
        BY <1>00, <3>1, <3>5, <4>2 DEF KInv
      <4>4. u.lgK \in {lgMaxK} \union everMerged'
        BY <3>1, <4>2
      <4>. QED BY <1>0, <2>2, <3>1, <3>3, <4>2, <4>3, <4>4 DEF KInv, EffectiveK, Typed
    <3>. QED BY <3>4, <3>5
  <2>. QED BY <2>3, <2>4
<1>2. CASE reset
  <2>1. newList(gadget.lgK).lgK = gadget.lgK
    BY <1>0, NewListAt DEF Typed
  <2>. QED BY <1>0, <1>2, <2>1 DEF reset, KInv, EffectiveK
<1>3. CASE getResult
  BY <1>0, <1>3 DEF getResult, KInv, EffectiveK
<1>4. ASSUME NEW c \in Coupons, updateWithCoupon(c) PROVE KInv'
  <2>1. gadget'.lgK = gadget.lgK /\ (gadget.mode = "HLL" => gadget'.mode = "HLL")
    BY <1>0, <1>4, StepsKeep, Modes DEF updateWithCoupon, ImplFrom, HllFrom, Typed
  <2>. QED BY <1>0, <1>4, <2>1 DEF updateWithCoupon, KInv, EffectiveK
<1>5. ASSUME NEW c \in Coupons, sourceUpdate(c) PROVE KInv'
  BY <1>0, <1>5 DEF sourceUpdate, KInv, EffectiveK
<1>6. ASSUME NEW lgK \in LgConfigKs, newSource(lgK) PROVE KInv'
  BY <1>0, <1>6 DEF newSource, KInv, EffectiveK
<1>7. ASSUME NEW compact \in BOOLEAN, NEW stream \in BOOLEAN, reload(compact, stream)
      PROVE  KInv'
  <2>1. ReadFrom(gadget', gadget, "HLL_8")
    BY <1>0, <1>7, UnionReadBack DEF reload, Typed
  <2>2. gadget'.lgK = gadget.lgK /\ lgMaxK' = gadget.lgK /\ UNCHANGED <<merged, everMerged>>
    BY <1>7, <2>1 DEF reload, ReadFrom
  <2>. QED BY <1>0, <1>00, <2>2 DEF KInv, EffectiveK
<1>8. ASSUME NEW compact \in BOOLEAN, NEW stream \in BOOLEAN, NEW type \in TgtHllTypes,
             deserializeSource(type, compact, stream)
      PROVE  KInv'
  <2>1. ReadFrom(gadget', source, type)
    BY <1>0, <1>8, UnionReadBack DEF deserializeSource, Typed
  <2>2. /\ gadget'.lgK = source.lgK /\ lgMaxK' = source.lgK
        /\ merged' \subseteq {source.lgK}
    BY <1>8, <2>1 DEF deserializeSource, ReadFrom
  <2>. QED BY <1>0, <1>00, <2>2 DEF KInv, EffectiveK, Typed
<1>9. CASE UNCHANGED vars
  BY <1>0, <1>9 DEF vars, KInv, EffectiveK
<1>. QED BY <1>1, <1>2, <1>3, <1>4, <1>5, <1>6, <1>7, <1>8, <1>9 DEF Next

(* The gadget is never finer than lgMaxK or an array that went into it, and *)
(* no coarser than one of those has made it.                                *)
THEOREM ResolutionIsRight == Spec => []EffectiveK
<1>1. Spec => []KInv
  BY KInvInit, KInvStep, PTL DEF Spec
<1>2. KInv => EffectiveK
  BY DEF KInv
<1>. QED BY <1>1, <1>2, PTL

----------------------------------------------------------------------------
(* What HllSketch_proof shows of objects and images is about definitions   *)
(* of its own, which are the ones of HllImage that this module has.  The   *)
(* life of a sketch, which LgConfigKs begins, is not among what is used.   *)

Sketch == INSTANCE HllSketch_proof WITH
            LgConfigKs <- {}, impl <- gadget, tgtHllType <- "HLL_8", fault <- FALSE, offered <- unionInput

\* New objects.
LEMMA SameNew ==
  \A lgK : /\ newList(lgK) = Sketch!newList(lgK) /\ newSet(lgK) = Sketch!newSet(lgK)
           /\ newHll(lgK) = Sketch!newHll(lgK) /\ EmptyTable(lgK) = Sketch!EmptyTable(lgK)
           /\ Cells(lgK) = Sketch!Cells(lgK) /\ SlotsOf(lgK) = Sketch!SlotsOf(lgK)
BY DEF newList, newSet, newHll, newCoupons, EmptyTable, Cells, SlotsOf, EMPTY,
       Sketch!newList, Sketch!newSet, Sketch!newHll, Sketch!newCoupons, Sketch!EmptyTable,
       Sketch!Cells, Sketch!SlotsOf, Sketch!EMPTY

\* The valid cells, and the pairs.
LEMMA SameValid == \A q : valid(q) = Sketch!valid(q)
BY DEF valid, FoldLeft, MapThenFoldSet, Max, EMPTY,
       Sketch!valid, Sketch!FoldLeft, Sketch!MapThenFoldSet, Sketch!Max, Sketch!EMPTY

\* ... of an array.
LEMMA SameEntries == \A arr, lg : Entries(arr, lg) = Sketch!Entries(arr, lg)
BY SameValid DEF Entries, Sketch!Entries

\* ... and of an object.
LEMMA SamePairs == \A k : pairs(k) = Sketch!pairs(k) /\ isEmpty(k) = Sketch!isEmpty(k)
BY SameEntries DEF pairs, SlotsOf, EMPTY, isEmpty,
                   Sketch!pairs, Sketch!SlotsOf, Sketch!EMPTY, Sketch!isEmpty

\* The search, and a coupon put where it ends.
LEMMA SameSearch ==
  \A k, c : cellOf(k, c) = Sketch!cellOf(k, c) /\ putCoupon(k, c) = Sketch!putCoupon(k, c)
<1>1. \A k, c : cellOf(k, c) = Sketch!cellOf(k, c)
  BY DEF cellOf, findCell, Stops, probe, stride, EMPTY,
         Sketch!cellOf, Sketch!findCell, Sketch!Stops, Sketch!probe, Sketch!stride, Sketch!EMPTY
<1>. QED BY <1>1 DEF putCoupon, Sketch!putCoupon

\* The coupons q put into k, and taken by the array k.
allPut(k, q)  == FoldLeft(LAMBDA n, c : putCoupon(n, c), k, q)
allHeld(k, q) == FoldLeft(LAMBDA h, c : hllUpdate(h, c), k, q)
putThere(k, q)  == Sketch!FoldLeft(LAMBDA n, c : Sketch!putCoupon(n, c), k, q)
heldThere(k, q) == Sketch!FoldLeft(LAMBDA h, c : Sketch!hllUpdate(h, c), k, q)

\* These are the same.
LEMMA SameFolds == \A k, q : allPut(k, q) = putThere(k, q) /\ allHeld(k, q) = heldThere(k, q)
<1>1. \A k, q : allPut(k, q) = putThere(k, q)
  BY DEF allPut, FoldLeft, MapThenFoldSet, Max, putCoupon, cellOf, findCell, Stops, probe, stride, EMPTY,
         putThere, Sketch!FoldLeft, Sketch!MapThenFoldSet, Sketch!Max, Sketch!putCoupon,
         Sketch!cellOf, Sketch!findCell, Sketch!Stops, Sketch!probe, Sketch!stride, Sketch!EMPTY
<1>2. \A k, q : allHeld(k, q) = heldThere(k, q)
  BY DEF allHeld, FoldLeft, MapThenFoldSet, Max, hllUpdate,
         heldThere, Sketch!FoldLeft, Sketch!MapThenFoldSet, Sketch!Max, Sketch!hllUpdate
<1>. QED BY <1>1, <1>2

\* Growth and promotion.
LEMMA SameGrowth ==
  \A k : /\ growHashSet(k) = Sketch!growHashSet(k)
         /\ promoteHeapListOrSetToHll(k) = Sketch!promoteHeapListOrSetToHll(k)
<1>1. \A k : growHashSet(k) = allPut([k EXCEPT !.arr = EmptyTable(k.lg + 1), !.lg = k.lg + 1], pairs(k))
  BY DEF allPut, growHashSet
<1>2. \A k : Sketch!growHashSet(k)
               = putThere([k EXCEPT !.arr = Sketch!EmptyTable(k.lg + 1), !.lg = k.lg + 1], Sketch!pairs(k))
  BY DEF putThere, Sketch!growHashSet
<1>3. \A k : /\ promoteHeapListOrSetToHll(k) = allHeld(newHll(k.lgK), pairs(k))
             /\ Sketch!promoteHeapListOrSetToHll(k) = heldThere(Sketch!newHll(k.lgK), Sketch!pairs(k))
  BY DEF allHeld, heldThere, promoteHeapListOrSetToHll, Sketch!promoteHeapListOrSetToHll
<1>. QED BY <1>1, <1>2, <1>3, SameFolds, SameNew, SamePairs

\* The insertion into a set, and the update of one.
LEMMA SameInsert ==
  \A k, c : /\ setInsert(k, c) = Sketch!setInsert(k, c)
            /\ setUpdate(k, c) = Sketch!setUpdate(k, c)
            /\ hllUpdate(k, c) = Sketch!hllUpdate(k, c)
<1>1. \A k, c : setInsert(k, c) = Sketch!setInsert(k, c)
  BY SameSearch, SameGrowth
     DEF setInsert, overloaded, atMaxSize, EMPTY,
         Sketch!setInsert, Sketch!overloaded, Sketch!atMaxSize, Sketch!EMPTY
<1>2. \A k, c : setUpdate(k, c) = Sketch!setUpdate(k, c)
  BY <1>1, SameGrowth
     DEF setUpdate, overloaded, atMaxSize, Sketch!setUpdate, Sketch!overloaded, Sketch!atMaxSize
<1>3. \A k, c : hllUpdate(k, c) = Sketch!hllUpdate(k, c)
  BY DEF hllUpdate, Sketch!hllUpdate
<1>. QED BY <1>1, <1>2, <1>3

\* A set filled there, as far as it is filled here.
insertingThere(p, q, i, acc) == Sketch!setInsert(acc, q[i])
insertedHere(p, q, n, acc)   == acc = Inserts!Left(p, q, p, n)

InsertsThere == INSTANCE FoldTheorems
                  WITH step <- insertingThere, choose <- lastOf, Good <- insertedHere

\* A sequence of insertions.
LEMMA SameInserts ==
  ASSUME NEW k, NEW q, IsSeq(q)
  PROVE  FoldLeft(setInsert, k, q) = Sketch!FoldLeft(Sketch!setInsert, k, q)
<1>1. PICK n \in Nat : DOMAIN q = 1 .. n
  BY DEF IsSeq
<1>2. FoldLeft(setInsert, k, q) = Inserts!Left(k, q, k, n)
  BY <1>1 DEF FoldLeft, MapThenFoldSet, Max, Inserts!Left, Inserts!Fold,
              Inserts!MapThenFoldSet, inserting, lastOf
<1>3. Sketch!FoldLeft(Sketch!setInsert, k, q) = InsertsThere!Left(k, q, k, n)
  BY <1>1 DEF Sketch!FoldLeft, Sketch!MapThenFoldSet, Sketch!Max, InsertsThere!Left,
              InsertsThere!Fold, InsertsThere!MapThenFoldSet, insertingThere, lastOf
<1>4. Inserts!ChoosesLast /\ InsertsThere!ChoosesLast
  BY DEF Inserts!ChoosesLast, InsertsThere!ChoosesLast, lastOf
<1>5. insertedHere(k, q, 0, k)
  BY <1>4, Inserts!LeftOfNone DEF insertedHere
<1>6. InsertsThere!Preserves(k, q, n)
  <2>1. ASSUME NEW i \in 1 .. n, NEW acc, insertedHere(k, q, i - 1, acc)
        PROVE  insertedHere(k, q, i, insertingThere(k, q, i, acc))
    <3>1. i - 1 \in Nat /\ (i - 1) + 1 = i
      OBVIOUS
    <3>2. Inserts!Left(k, q, k, (i - 1) + 1)
            = inserting(k, q, (i - 1) + 1, Inserts!Left(k, q, k, i - 1))
      BY <1>4, <3>1, Inserts!LeftOfMore
    <3>3. Inserts!Left(k, q, k, i) = setInsert(acc, q[i])
      BY <2>1, <3>1, <3>2 DEF inserting, insertedHere
    <3>. QED BY <3>3, SameInsert DEF insertedHere, insertingThere
  <2>. QED BY <2>1 DEF InsertsThere!Preserves
<1>7. insertedHere(k, q, n, InsertsThere!Left(k, q, k, n))
  BY <1>4, <1>5, <1>6, InsertsThere!LeftKeeps
<1>. QED BY <1>2, <1>3, <1>7 DEF insertedHere


\* A list becomes a set.
LEMMA SameSetOfList ==
  ASSUME NEW m, 2 ^ m.lg \in Nat, m.mode # "HLL"
  PROVE  promoteHeapListToSet(m) = Sketch!promoteHeapListToSet(m)
<1>1. IsSeq(pairs(m))
  <2>. DEFINE s == [i \in 1 .. 2 ^ m.lg |-> m.arr[i - 1]]
  <2>1. IsSeq(s)
    BY DEF IsSeq
  <2>. HIDE DEF s
  <2>2. IsSeq(valid(s))
    BY <2>1, ValidIsSeq
  <2>. QED BY <2>2 DEF pairs, Entries, s
<1>. DEFINE e == newSet(m.lgK)
            q == pairs(m)
<1>2. e = Sketch!newSet(m.lgK) /\ q = Sketch!pairs(m)
  BY SameNew, SamePairs
<1>3. FoldLeft(setInsert, e, q) = Sketch!FoldLeft(Sketch!setInsert, e, q)
  <2>. HIDE DEF e, q
  <2>. QED BY <1>1, SameInserts DEF q
<1>. QED BY <1>2, <1>3 DEF promoteHeapListToSet, Sketch!promoteHeapListToSet

\* A list's update.
LEMMA SameListUpdate ==
  ASSUME NEW k, 2 ^ k.lg \in Nat, k = [f \in CouponFields |-> k[f]], k.mode = "LIST", NEW c
  PROVE  listUpdate(k, c) = Sketch!listUpdate(k, c)
<1>. DEFINE i == CHOOSE j \in listStops(k, c) : \A m \in listStops(k, c) : j <= m
            h == CHOOSE j \in Sketch!listStops(k, c) : \A m \in Sketch!listStops(k, c) : j <= m
            n == [k EXCEPT !.arr[i] = c, !.count = @ + 1]
            s == promoteHeapListToSet(n)
            t == Sketch!promoteHeapListToSet(n)
            a == promoteHeapListOrSetToHll(n)
            b == Sketch!promoteHeapListOrSetToHll(n)
<1>1. i = h
  BY DEF listStops, Cells, EMPTY, Sketch!listStops, Sketch!Cells, Sketch!EMPTY
<1>2. s = t
  <2>1. n.lg = k.lg /\ n.mode = k.mode
    <3>. HIDE DEF i
    <3>. QED BY DEF CouponFields
  <2>. HIDE DEF n
  <2>2. promoteHeapListToSet(n) = Sketch!promoteHeapListToSet(n)
    BY <2>1, SameSetOfList
  <2>. QED BY <2>2
<1>3. a = b
  BY SameGrowth
<1>4. listUpdate(k, c) = IF k.arr[i] # EMPTY THEN k
                         ELSE IF n.count < 2 ^ k.lg THEN n
                         ELSE IF k.lgK < MinSetLgK THEN a ELSE s
  BY DEF listUpdate
<1>. DEFINE n2 == [k EXCEPT !.arr[h] = c, !.count = @ + 1]
            t2 == Sketch!promoteHeapListToSet(n2)
            b2 == Sketch!promoteHeapListOrSetToHll(n2)
<1>5. Sketch!listUpdate(k, c) = IF k.arr[h] # Sketch!EMPTY THEN k
                                ELSE IF n2.count < 2 ^ k.lg THEN n2
                                ELSE IF k.lgK < MinSetLgK THEN b2 ELSE t2
  BY DEF Sketch!listUpdate
<1>6. n = n2 /\ b = b2 /\ t = t2
  BY <1>1
<1>7. EMPTY = Sketch!EMPTY
  BY DEF EMPTY, Sketch!EMPTY
<1>. HIDE DEF a, b, s, t, n, i, h, n2, t2, b2
<1>. QED BY <1>1, <1>2, <1>3, <1>4, <1>5, <1>6, <1>7

\* An object whose updates and images are the same there.
Shaped(k) ==
  \/ k = [f \in CouponFields |-> k[f]] /\ k.mode \in {"LIST", "SET"} /\ 2 ^ k.lg \in Nat
  \/ k.mode = "HLL" /\ 2 ^ k.lgK \in Nat

\* Any update.
LEMMA SameUpdate ==
  ASSUME NEW k, Shaped(k), NEW c
  PROVE  couponUpdate(k, c) = Sketch!couponUpdate(k, c)
<1>1. CASE k.mode = "LIST"
  BY <1>1, SameListUpdate DEF Shaped, couponUpdate, Sketch!couponUpdate
<1>2. CASE k.mode = "SET"
  BY <1>2, SameInsert DEF couponUpdate, Sketch!couponUpdate
<1>3. CASE k.mode = "HLL"
  BY <1>3, SameInsert DEF couponUpdate, Sketch!couponUpdate
<1>. QED BY <1>1, <1>2, <1>3 DEF Shaped

\* The exceptions of an array, and its curMin.
LEMMA SameExceptions ==
  \A k, type : /\ curMinOf(k, type) = Sketch!curMinOf(k, type)
               /\ exceptions(k, type) = Sketch!exceptions(k, type)
<1>1. \A k, type : curMinOf(k, type) = Sketch!curMinOf(k, type)
  BY DEF curMinOf, Min, SlotsOf, Sketch!curMinOf, Sketch!Min, Sketch!SlotsOf
<1>2. \A k : [s \in SlotsOf(k.lgK) |->
                IF k.reg[s] - curMinOf(k, "HLL_4") >= AuxToken THEN <<s, k.reg[s]>> ELSE EMPTY]
             = [s \in Sketch!SlotsOf(k.lgK) |->
                IF k.reg[s] - Sketch!curMinOf(k, "HLL_4") >= AuxToken
                THEN <<s, k.reg[s]>> ELSE Sketch!EMPTY]
  BY <1>1 DEF SlotsOf, EMPTY, Sketch!SlotsOf, Sketch!EMPTY
<1>3. \A k : exceptions(k, "HLL_4") = Sketch!exceptions(k, "HLL_4")
  BY <1>2, SameEntries DEF exceptions, Sketch!exceptions
<1>4. \A k, type : type # "HLL_4" => exceptions(k, type) = Sketch!exceptions(k, type)
  BY DEF exceptions, Sketch!exceptions
<1>. QED BY <1>1, <1>3, <1>4

\* The exceptions q put into a table t, and the pairs q into the bytes b.
allAux(t, q, lg) == FoldLeft(LAMBDA u, e : [u EXCEPT ![findCell(u, lg, e[1], LAMBDA c : c[1] = e[1])] = e],
                             t, q)
allSix(b, q)     == FoldLeft(LAMBDA d, p : putSlot6(d, p[1], p[2]), b, q)
auxThere(t, q, lg) ==
  Sketch!FoldLeft(LAMBDA u, e : [u EXCEPT ![Sketch!findCell(u, lg, e[1], LAMBDA c : c[1] = e[1])] = e],
                  t, q)
sixThere(b, q)     == Sketch!FoldLeft(LAMBDA d, p : Sketch!putSlot6(d, p[1], p[2]), b, q)

\* These are the same.
LEMMA SameImageFolds ==
  /\ \A t, q, lg : allAux(t, q, lg) = auxThere(t, q, lg)
  /\ \A b, q : allSix(b, q) = sixThere(b, q)
<1>1. \A t, q, lg : allAux(t, q, lg) = auxThere(t, q, lg)
  BY DEF allAux, FoldLeft, MapThenFoldSet, Max, findCell, Stops, probe, stride, EMPTY,
         auxThere, Sketch!FoldLeft, Sketch!MapThenFoldSet, Sketch!Max,
         Sketch!findCell, Sketch!Stops, Sketch!probe, Sketch!stride, Sketch!EMPTY
<1>2. \A b, q : allSix(b, q) = sixThere(b, q)
  BY DEF allSix, FoldLeft, MapThenFoldSet, Max, putSlot6, getSlot6, twoBytes, shift,
         sixThere, Sketch!FoldLeft, Sketch!MapThenFoldSet, Sketch!Max, Sketch!putSlot6,
         Sketch!getSlot6, Sketch!twoBytes, Sketch!shift
<1>. QED BY <1>1, <1>2

\* The size of an exception table.
LEMMA SameSizes ==
  \A n : lgFor(n) = Sketch!lgFor(n) /\ lgAux(n) = Sketch!lgAux(n)
<1>1. \A n : lgFor(n) = Sketch!lgFor(n)
  BY DEF lgFor, overloaded, Sketch!lgFor, Sketch!overloaded
<1>. QED BY <1>1 DEF lgAux, larger, Sketch!lgAux, Sketch!larger

\* The parts of an array's image.
LEMMA SameArrayImage ==
  /\ \A q, lg : /\ auxTable(q, lg) = Sketch!auxTable(q, lg)
                /\ cellSeq(q, lg) = Sketch!cellSeq(q, lg)
  /\ \A k : \A type \in TgtHllTypes : hllByteArr(k, type) = Sketch!hllByteArr(k, type)
<1>1. \A q, lg : /\ auxTable(q, lg) = allAux(EmptyTable(lg), q, lg)
                 /\ Sketch!auxTable(q, lg) = auxThere(Sketch!EmptyTable(lg), q, lg)
  BY DEF auxTable, allAux, Sketch!auxTable, auxThere
<1>2. \A q, lg : auxTable(q, lg) = Sketch!auxTable(q, lg)
  BY <1>1, SameImageFolds, SameNew
<1>3. \A q, lg : cellSeq(q, lg) = Sketch!cellSeq(q, lg)
  BY DEF cellSeq, Sketch!cellSeq
<1>4. \A lgK, type : hllByteArrBytes(lgK, type) = Sketch!hllByteArrBytes(lgK, type)
  BY DEF hllByteArrBytes, Sketch!hllByteArrBytes
<1>. DEFINE bytes(k)  == [i \in 0 .. hllByteArrBytes(k.lgK, "HLL_6") - 1 |-> 0]
            bytes2(k) == [i \in 0 .. Sketch!hllByteArrBytes(k.lgK, "HLL_6") - 1 |-> 0]
            nibbles(k) == [s \in SlotsOf(k.lgK) |->
              IF k.reg[s] - curMinOf(k, "HLL_4") >= AuxToken THEN AuxToken
              ELSE k.reg[s] - curMinOf(k, "HLL_4")]
            nibbles2(k) == [s \in Sketch!SlotsOf(k.lgK) |->
              IF k.reg[s] - Sketch!curMinOf(k, "HLL_4") >= AuxToken THEN AuxToken
              ELSE k.reg[s] - Sketch!curMinOf(k, "HLL_4")]
<1>5. \A k : bytes(k) = bytes2(k)
  BY <1>4
<1>6. \A k : nibbles(k) = nibbles2(k)
  BY SameExceptions, SameNew
<1>7. \A k : /\ hllByteArr(k, "HLL_6") = allSix(bytes(k), pairs(k))
             /\ Sketch!hllByteArr(k, "HLL_6") = sixThere(bytes2(k), Sketch!pairs(k))
  BY DEF hllByteArr, allSix, Sketch!hllByteArr, sixThere
<1>8. \A k : /\ hllByteArr(k, "HLL_4") = nibbles(k)
             /\ Sketch!hllByteArr(k, "HLL_4") = nibbles2(k)
             /\ hllByteArr(k, "HLL_8") = k.reg
             /\ Sketch!hllByteArr(k, "HLL_8") = k.reg
  BY DEF hllByteArr, Sketch!hllByteArr
<1>9. \A k, type : type \in TgtHllTypes => hllByteArr(k, type) = Sketch!hllByteArr(k, type)
  <2>. HIDE DEF bytes, bytes2, nibbles, nibbles2
  <2>. QED BY <1>5, <1>6, <1>7, <1>8, SameImageFolds, SamePairs DEF TgtHllTypes
<1>. QED BY <1>2, <1>3, <1>9

\* The image.
LEMMA SameImage ==
  ASSUME NEW k, NEW type \in TgtHllTypes, NEW compact
  PROVE  serialize(k, type, compact) = Sketch!serialize(k, type, compact)
<1>1. serializeCoupons(k, type, compact) = Sketch!serializeCoupons(k, type, compact)
  BY SamePairs, SameArrayImage
     DEF serializeCoupons, PreInts, Sketch!serializeCoupons, Sketch!PreInts
<1>. DEFINE aux  == exceptions(k, type)
            lg   == lgAux(Len(aux))
            aux2 == Sketch!exceptions(k, type)
            lg2  == Sketch!lgAux(Len(aux2))
            ints == IF compact THEN Entries(auxTable(aux, lg), lg)
                    ELSE IF type = "HLL_4" THEN cellSeq(auxTable(aux, lg), lg)
                    ELSE <<>>
            ints2 == IF compact THEN Sketch!Entries(Sketch!auxTable(aux2, lg2), lg2)
                     ELSE IF type = "HLL_4" THEN Sketch!cellSeq(Sketch!auxTable(aux2, lg2), lg2)
                     ELSE <<>>
<1>2. aux = aux2 /\ lg = lg2
  BY SameExceptions, SameSizes
<1>3. ints = ints2
  <2>. HIDE DEF aux, lg, aux2, lg2
  <2>. QED BY <1>2, SameArrayImage, SameEntries
<1>4. serializeHll(k, type, compact) = Sketch!serializeHll(k, type, compact)
  <2>1. serializeHll(k, type, compact) =
          [preInts |-> PreInts[k.mode], type |-> type, lgK |-> k.lgK,
           lgArr |-> IF aux = <<>> THEN 0 ELSE lg,
           emptyFlag |-> isEmpty(k), compactFlag |-> compact, oooFlag |-> k.ooo,
           count |-> Len(aux), curMin |-> curMinOf(k, type), array |-> hllByteArr(k, type),
           ints |-> ints]
    BY DEF serializeHll
  <2>2. Sketch!serializeHll(k, type, compact) =
          [preInts |-> Sketch!PreInts[k.mode], type |-> type, lgK |-> k.lgK,
           lgArr |-> IF aux2 = <<>> THEN 0 ELSE lg2,
           emptyFlag |-> Sketch!isEmpty(k), compactFlag |-> compact, oooFlag |-> k.ooo,
           count |-> Len(aux2), curMin |-> Sketch!curMinOf(k, type),
           array |-> Sketch!hllByteArr(k, type), ints |-> ints2]
    BY DEF Sketch!serializeHll
  <2>3. /\ PreInts[k.mode] = Sketch!PreInts[k.mode] /\ isEmpty(k) = Sketch!isEmpty(k)
        /\ curMinOf(k, type) = Sketch!curMinOf(k, type)
        /\ hllByteArr(k, type) = Sketch!hllByteArr(k, type)
    BY SamePairs, SameExceptions, SameArrayImage DEF PreInts, Sketch!PreInts
  <2>. HIDE DEF aux, lg, aux2, lg2, ints, ints2
  <2>. QED BY <1>2, <1>3, <2>1, <2>2, <2>3
<1>. QED BY <1>1, <1>4 DEF serialize, Sketch!serialize

\* What the readers read of an image.
LEMMA SameRead ==
  ASSUME NEW im, NEW stream
  PROVE  /\ modeOf(im) = Sketch!modeOf(im) /\ setLg(im) = Sketch!setLg(im)
         /\ intsRead(im, stream) = Sketch!intsRead(im, stream)
<1>1. modeOf(im) = Sketch!modeOf(im)
  BY DEF modeOf, PreInts, Sketch!modeOf, Sketch!PreInts
<1>2. setLg(im) = Sketch!setLg(im)
  BY SameSizes DEF setLg, larger, Sketch!setLg, Sketch!larger
<1>3. intsRead(im, stream) = Sketch!intsRead(im, stream)
  BY <1>1, <1>2 DEF intsRead, Sketch!intsRead
<1>. QED BY <1>1, <1>2, <1>3

\* ... and make of the ints and the array.
LEMMA SameFilling ==
  \A im, aux, lg, ints, rest :
    /\ registers(im, aux) = Sketch!registers(im, aux)
    /\ filledArr(lg, ints, rest) = Sketch!filledArr(lg, ints, rest)
<1>1. \A im, aux : registers(im, aux) = Sketch!registers(im, aux)
  BY DEF registers, SlotsOf, getSlot6, twoBytes, shift, Range,
         Sketch!registers, Sketch!SlotsOf, Sketch!getSlot6, Sketch!twoBytes, Sketch!shift, Sketch!Range
<1>2. \A lg, ints, rest : filledArr(lg, ints, rest) = Sketch!filledArr(lg, ints, rest)
  BY DEF filledArr, Cells, Sketch!filledArr, Sketch!Cells
<1>. QED BY <1>1, <1>2

\* The sketch read back.
LEMMA SameReadBack ==
  ASSUME NEW im, modeOf(im) \in {"LIST", "SET", "HLL"}, modeOf(im) = "SET" => im.count \in Nat,
         im.compactFlag \in BOOLEAN, NEW stream
  PROVE  deserialized(im, stream, EMPTY) = Sketch!deserialized(im, stream, Sketch!EMPTY)
<1>. DEFINE ints  == SubSeq(im.ints, 1, intsRead(im, stream))
            ints2 == SubSeq(im.ints, 1, Sketch!intsRead(im, stream))
<1>0. /\ ints = ints2 /\ modeOf(im) = Sketch!modeOf(im) /\ setLg(im) = Sketch!setLg(im)
      /\ EMPTY = Sketch!EMPTY
  BY SameRead DEF EMPTY, Sketch!EMPTY
<1>1. CASE modeOf(im) = "LIST"
  <2>. DEFINE a == filledArr(LgList, ints, EMPTY)
              b == Sketch!filledArr(LgList, ints2, Sketch!EMPTY)
              n == newList(im.lgK)
              m == Sketch!newList(im.lgK)
  <2>1. a = b /\ n = m
    <3>. HIDE DEF ints, ints2
    <3>. QED BY <1>0, SameFilling, SameNew
  <2>2. deserialized(im, stream, EMPTY) = [n EXCEPT !.arr = a, !.count = im.count, !.ooo = im.oooFlag]
    BY <1>1 DEF deserialized
  <2>3. Sketch!deserialized(im, stream, Sketch!EMPTY)
          = [m EXCEPT !.arr = b, !.count = im.count, !.ooo = im.oooFlag]
    BY <1>0, <1>1 DEF Sketch!deserialized
  <2>. HIDE DEF a, b, n, m
  <2>. QED BY <2>1, <2>2, <2>3
<1>2. CASE modeOf(im) = "SET" /\ im.compactFlag
  <2>. DEFINE n == newSet(im.lgK)
              m == Sketch!newSet(im.lgK)
  <2>1. intsRead(im, stream) \in Nat
    BY <1>2 DEF intsRead
  <2>2. IsSeq(ints)
    BY <2>1 DEF IsSeq
  <2>3. n = m
    BY SameNew
  <2>4. deserialized(im, stream, EMPTY) = FoldLeft(setInsert, n, ints)
    BY <1>2 DEF deserialized
  <2>5. Sketch!deserialized(im, stream, Sketch!EMPTY) = Sketch!FoldLeft(Sketch!setInsert, m, ints2)
    BY <1>0, <1>2 DEF Sketch!deserialized
  <2>. HIDE DEF ints, ints2, n, m
  <2>. QED BY <1>0, <2>2, <2>3, <2>4, <2>5, SameInserts
<1>3. CASE modeOf(im) = "SET" /\ ~ im.compactFlag
  <2>. DEFINE a == filledArr(setLg(im), ints, EMPTY)
              b == Sketch!filledArr(Sketch!setLg(im), ints2, Sketch!EMPTY)
              n == newSet(im.lgK)
              m == Sketch!newSet(im.lgK)
  <2>1. a = b /\ n = m
    <3>. HIDE DEF ints, ints2
    <3>. QED BY <1>0, SameFilling, SameNew
  <2>2. deserialized(im, stream, EMPTY) = [n EXCEPT !.lg = setLg(im), !.count = im.count, !.arr = a]
    BY <1>3 DEF deserialized
  <2>3. Sketch!deserialized(im, stream, Sketch!EMPTY)
          = [m EXCEPT !.lg = Sketch!setLg(im), !.count = im.count, !.arr = b]
    BY <1>0, <1>3 DEF Sketch!deserialized
  <2>. HIDE DEF a, b, n, m
  <2>. QED BY <1>0, <2>1, <2>2, <2>3
<1>4. CASE modeOf(im) = "HLL"
  <2>. DEFINE a == registers(im, valid(ints))
              b == Sketch!registers(im, Sketch!valid(ints2))
              n == newHll(im.lgK)
              m == Sketch!newHll(im.lgK)
  <2>1. a = b /\ n = m
    <3>. HIDE DEF ints, ints2
    <3>. QED BY <1>0, SameFilling, SameNew, SameValid
  <2>2. deserialized(im, stream, EMPTY) = [n EXCEPT !.reg = a, !.ooo = im.oooFlag]
    BY <1>4 DEF deserialized
  <2>3. Sketch!deserialized(im, stream, Sketch!EMPTY) = [m EXCEPT !.reg = b, !.ooo = im.oooFlag]
    BY <1>0, <1>4 DEF Sketch!deserialized
  <2>. HIDE DEF a, b, n, m
  <2>. QED BY <2>1, <2>2, <2>3
<1>. QED BY <1>1, <1>2, <1>3, <1>4

----------------------------------------------------------------------------
(* What a merge holds. *)

\* What HllSketch_proof assumes is assumed here.
LEMMA Premises ==
  /\ Sketch!HllImplAssumption /\ Sketch!HllImageAssumption
  /\ Sketch!HllSketchAssumption /\ Sketch!SizesAssumption
<1>1. Sketch!HllImplAssumption
  BY HllImplAssumption
     DEF Sketch!HllImplAssumption, Powers, Sketch!Powers, overloaded, Sketch!overloaded
<1>2. Sketch!HllImageAssumption
  BY HllImageAssumption DEF Sketch!HllImageAssumption, Powers, Sketch!Powers
<1>3. Sketch!HllSketchAssumption
  BY HllUnionAssumption DEF Sketch!HllSketchAssumption, Powers, Sketch!Powers
<1>4. Sketch!SizesAssumption
  BY DEF Sketch!SizesAssumption
<1>. QED BY <1>1, <1>2, <1>3, <1>4

\* An object of coupons is of one of the shapes.
LEMMA ShapeIs ==
  ASSUME NEW k, NEW D, Sketch!IsOf(k, D)
  PROVE  Shaped(k)
<1>1. CASE Sketch!IsList(k, D)
  <2>1. 2 ^ LgList \in Nat
    BY HllImplAssumption DEF Powers
  <2>. QED BY <1>1, <2>1 DEF Sketch!IsList, Sketch!IsCoupons, Sketch!CouponFields, CouponFields, Shaped
<1>2. CASE Sketch!IsSet(k, D)
  <2>1. /\ k.lgK >= MinSetLgK /\ k.lg \in LgInitSet .. k.lgK - SetMargin
        /\ Sketch!IsCoupons(k, D) /\ k.mode = "SET"
    BY <1>2 DEF Sketch!IsSet, Sketch!IsTableOf
  <2>2. Sketch!IsLgK(k.lgK)
    BY <2>1 DEF Sketch!IsCoupons
  <2>3. 2 ^ k.lg \in Nat
    BY <2>1, <2>2, Premises, Sketch!SizesAre
  <2>. QED BY <2>1, <2>3 DEF Sketch!IsCoupons, Sketch!CouponFields, CouponFields, Shaped
<1>3. CASE Sketch!IsHll(k, D)
  <2>1. Sketch!IsLgK(k.lgK) /\ k.mode = "HLL"
    BY <1>3 DEF Sketch!IsHll
  <2>2. 2 ^ k.lgK \in Nat
    BY <2>1, Premises, Sketch!SizesAre
  <2>. QED BY <2>1, <2>2 DEF Shaped
<1>. QED BY <1>1, <1>2, <1>3 DEF Sketch!IsOf

\* An update adds a coupon.
LEMMA UpdateAdds ==
  ASSUME NEW k, NEW D, Sketch!IsOf(k, D), NEW c \in Sketch!Coupon
  PROVE  /\ Sketch!IsOf(couponUpdate(k, c), D \union {c})
         /\ couponUpdate(k, c).lgK = k.lgK
         /\ Sketch!IsHll(k, D) => Sketch!IsHll(couponUpdate(k, c), D \union {c})
<1>1. couponUpdate(k, c) = Sketch!couponUpdate(k, c)
  BY ShapeIs, SameUpdate
<1>2. /\ Sketch!IsOf(Sketch!couponUpdate(k, c), D \union {c})
      /\ Sketch!couponUpdate(k, c).lgK = k.lgK
  BY Premises, Sketch!UpdateIs
<1>3. ASSUME Sketch!IsHll(k, D)
      PROVE  Sketch!IsHll(couponUpdate(k, c), D \union {c})
  <2>1. k.mode = "HLL"
    BY <1>3 DEF Sketch!IsHll
  <2>2. Sketch!couponUpdate(k, c) = Sketch!hllUpdate(k, c)
    BY <2>1 DEF Sketch!couponUpdate
  <2>. QED BY <1>1, <1>3, <2>2, Premises, Sketch!HllUpdated
<1>. QED BY <1>1, <1>2, <1>3

\* The coupons of the pairs q, taken so far by the object p.k of the coupons p.D.
takenUpTo(p, q, n, acc) ==
  LET E == p.D \union Sketch!FirstOf(q, n)
  IN  /\ Sketch!IsOf(acc, E) /\ acc.lgK = p.k.lgK
      /\ Sketch!IsHll(p.k, p.D) => Sketch!IsHll(acc, E)

Additions == INSTANCE FoldTheorems WITH step <- taking, choose <- lastOf, Good <- takenUpTo

\* One after the other they are added.
LEMMA TakesAdd ==
  ASSUME NEW k, NEW D, Sketch!IsOf(k, D), NEW q, NEW E, NEW key,
         Sketch!Lists(q, E, key, Sketch!Coupon)
  PROVE  LET u == FoldLeft(couponUpdate, k, q)
         IN  /\ Sketch!IsOf(u, D \union E) /\ u.lgK = k.lgK
             /\ Sketch!IsHll(k, D) => Sketch!IsHll(u, D \union E)
<1>. DEFINE p == [k |-> k, D |-> D]
            n == Len(q)
<1>1. /\ Sketch!FirstOf(q, 0) = {} /\ Sketch!FirstOf(q, n) = E
      /\ n \in Nat /\ DOMAIN q = 1 .. n
  BY Premises, Sketch!NoneAndAll
<1>2. p.k = k /\ p.D = D
  OBVIOUS
<1>. HIDE DEF p, n
<1>3. FoldLeft(couponUpdate, k, q) = Additions!Left(p, q, k, n)
  BY <1>1 DEF FoldLeft, MapThenFoldSet, Max, Additions!Left, Additions!Fold,
              Additions!MapThenFoldSet, taking, lastOf
<1>4. Additions!ChoosesLast
  BY DEF Additions!ChoosesLast, lastOf
<1>5. takenUpTo(p, q, 0, k)
  <2>1. D \union Sketch!FirstOf(q, 0) = D
    BY <1>1
  <2>. QED BY <1>2, <2>1 DEF takenUpTo
<1>6. Additions!Preserves(p, q, n)
  <2>1. ASSUME NEW i \in 1 .. n, NEW acc, takenUpTo(p, q, i - 1, acc)
        PROVE  takenUpTo(p, q, i, taking(p, q, i, acc))
    <3>. DEFINE F == D \union Sketch!FirstOf(q, i - 1)
                G == D \union Sketch!FirstOf(q, i)
    <3>1. q[i] \in Sketch!Coupon /\ G = F \union {q[i]}
      <4>1. /\ q[i] \in Sketch!Coupon
            /\ Sketch!FirstOf(q, i) = Sketch!FirstOf(q, i - 1) \union {q[i]}
        BY <2>1, Premises, Sketch!NextOf DEF n
      <4>. QED BY <4>1
    <3>2. /\ Sketch!IsOf(acc, F) /\ acc.lgK = k.lgK
          /\ Sketch!IsHll(k, D) => Sketch!IsHll(acc, F)
      BY <1>2, <2>1 DEF takenUpTo
    <3>. HIDE DEF F, G
    <3>3. /\ Sketch!IsOf(couponUpdate(acc, q[i]), G) /\ couponUpdate(acc, q[i]).lgK = k.lgK
          /\ Sketch!IsHll(k, D) => Sketch!IsHll(couponUpdate(acc, q[i]), G)
      BY <3>1, <3>2, UpdateAdds
    <3>. QED BY <1>2, <3>3 DEF takenUpTo, taking, G
  <2>. QED BY <2>1 DEF Additions!Preserves
<1>7. takenUpTo(p, q, n, Additions!Left(p, q, k, n))
  BY <1>1, <1>4, <1>5, <1>6, Additions!LeftKeeps
<1>. QED BY <1>1, <1>2, <1>3, <1>7 DEF takenUpTo

\* The coupons of a list or a set are taken as they are.
LEMMA CouponsTaken ==
  ASSUME NEW k, NEW D, Sketch!IsOf(k, D), NEW src, NEW E, Sketch!IsOf(src, E), src.mode # "HLL"
  PROVE  LET u == takeAll(k, src)
         IN  /\ Sketch!IsOf(u, D \union E) /\ u.lgK = k.lgK
             /\ Sketch!IsHll(k, D) => Sketch!IsHll(u, D \union E)
<1>1. Sketch!IsCoupons(src, E)
  BY Premises, Sketch!TableHolds
     DEF Sketch!IsOf, Sketch!IsList, Sketch!IsSet, Sketch!IsHll
<1>2. Sketch!Lists(pairs(src), E, Sketch!itself, Sketch!Coupon)
  BY <1>1, SamePairs, Premises, Sketch!PairsAre DEF Sketch!IsCoupons
<1>. QED BY <1>2, TakesAdd DEF takeAll

\* A power of two is a multiple of the smaller ones.
LEMMA Multiples ==
  ASSUME NEW lg \in Nat, Powers(lg), NEW a \in Nat, a <= lg
  PROVE  \E m \in Nat : 2 ^ lg = 2 ^ a * m
<1>. DEFINE Mult(e) == a + e <= lg => \E m \in Nat : 2 ^ (a + e) = 2 ^ a * m
            T == {e \in Nat : Mult(e)}
<1>0. 2 ^ a \in Nat
  BY DEF Powers
<1>1. Mult(0)
  <2>1. 2 ^ (a + 0) = 2 ^ a * 1
    BY <1>0
  <2>. QED BY <2>1
<1>2. ASSUME NEW e \in Nat, Mult(e) PROVE Mult(e + 1)
  <2>. SUFFICES ASSUME a + (e + 1) <= lg
                PROVE  \E m \in Nat : 2 ^ (a + (e + 1)) = 2 ^ a * m
    OBVIOUS
  <2>1. a + e <= lg /\ a + e \in 0 .. lg /\ a + (e + 1) = (a + e) + 1
    OBVIOUS
  <2>2. PICK m \in Nat : 2 ^ (a + e) = 2 ^ a * m
    BY <1>2, <2>1
  <2>3. 2 ^ ((a + e) + 1) = 2 * 2 ^ (a + e)
    BY <2>1 DEF Powers
  <2>. DEFINE p == 2 ^ a
              r == 2 ^ (a + e)
              t == 2 ^ (a + (e + 1))
  <2>4. t = p * (2 * m)
    <3>1. p \in Nat /\ r = p * m /\ t = 2 * r
      BY <1>0, <2>1, <2>2, <2>3
    <3>. HIDE DEF p, r, t
    <3>2. t = 2 * (p * m)
      BY <3>1
    <3>. QED BY <3>1, <3>2
  <2>5. 2 * m \in Nat
    OBVIOUS
  <2>. QED BY <2>4, <2>5
<1>3. \A e \in Nat : e \in T
  <2>1. 0 \in T /\ \A e \in Nat : e \in T => e + 1 \in T
    <3>. HIDE DEF Mult
    <3>. QED BY <1>1, <1>2
  <2>. HIDE DEF T
  <2>. QED BY <2>1, Takes!OverNaturals
<1>4. lg - a \in Nat /\ a + (lg - a) = lg
  OBVIOUS
<1>5. Mult(lg - a)
  BY <1>3, <1>4
<1>. QED BY <1>4, <1>5

\* The slot of a key is that of its slot in a larger array.
LEMMA SlotOfSlot ==
  ASSUME NEW lg \in Nat, Powers(lg), NEW a \in Nat, a <= lg, NEW x \in Nat
  PROVE  (x % (2 ^ lg)) % (2 ^ a) = x % (2 ^ a)
<1>. DEFINE p == 2 ^ a
            r == 2 ^ lg
            y == x % r
            c == y % p
<1>1. p \in Nat \ {0} /\ r \in Nat \ {0}
  BY DEF Powers
<1>2. PICK m \in Nat : r = p * m
  BY Multiples
<1>. HIDE DEF p, r
<1>3. y \in Nat /\ x \div r \in Int /\ x = r * (x \div r) + y
  BY <1>1
<1>. HIDE DEF y
<1>4. c \in 0 .. p - 1 /\ y \div p \in Int /\ y = p * (y \div p) + c
  BY <1>1, <1>3
<1>. HIDE DEF c
<1>5. x = c + p * (m * (x \div r) + (y \div p))
  <2>. DEFINE u == x \div r
              v == y \div p
  <2>1. u \in Int /\ v \in Int /\ x = r * u + y /\ y = p * v + c
    BY <1>3, <1>4
  <2>. HIDE DEF u, v
  <2>2. x = (p * m) * u + (p * v + c)
    BY <1>2, <2>1
  <2>3. (p * m) * u = p * (m * u)
    BY <1>1, <2>1
  <2>4. p * (m * u) + p * v = p * (m * u + v)
    BY <1>1, <2>1
  <2>5. p * (m * u) \in Int /\ p * v \in Int /\ p * (m * u + v) \in Int /\ c \in Int
    BY <1>1, <1>4, <2>1
  <2>6. x = c + p * (m * u + v)
    BY <2>2, <2>3, <2>4, <2>5
  <2>. QED BY <2>6 DEF u, v
<1>6. m * (x \div r) + (y \div p) \in Int
  BY <1>3, <1>4
<1>7. x % p = c
  <2>. DEFINE z == m * (x \div r) + (y \div p)
  <2>1. z \in Int /\ x = c + p * z
    BY <1>5, <1>6
  <2>. HIDE DEF z
  <2>2. x \in Int
    OBVIOUS
  <2>. QED BY <1>1, <1>4, <2>1, <2>2, Takes!Remainder
<1>. QED BY <1>7 DEF p, r, c, y

\* The pairs of the array src, of each slot that has a value its value.
SlotsTaken(src) == Sketch!SlotPairs(Sketch!regPairs(src), src.lgK, src.reg)

\* The array src of the coupons E makes the same of the slots s of a smaller one.
LEMMA PairsStand ==
  ASSUME NEW src, NEW E, Sketch!IsHll(src, E), NEW D, D \subseteq Sketch!Coupon,
         NEW a \in Nat, a <= src.lgK, NEW s, NEW v \in 0 .. 63,
         Sketch!Register(D \union SlotsTaken(src), a, s, v)
  PROVE  Sketch!Register(D \union E, a, s, v)
<1>. DEFINE P == SlotsTaken(src)
            b == src.lgK
<1>1. /\ \A e \in P : e[1] \in SlotsOf(b) /\ e[2] = src.reg[e[1]] /\ e[2] \in 1 .. 63
      /\ \A t \in SlotsOf(b) : (\A e \in P : e[1] # t) => src.reg[t] = 0
  BY Premises, Sketch!HllPairs, SameNew DEF SlotsTaken
<1>2. /\ b \in Nat /\ Powers(b) /\ 2 ^ b \in Nat \ {0}
  <2>1. Sketch!IsLgK(b)
    BY DEF Sketch!IsHll
  <2>. QED BY <2>1, Premises, Sketch!SizesAre DEF Powers, Sketch!Powers
<1>3. \A x \in Nat : (x % (2 ^ b)) % (2 ^ a) = x % (2 ^ a)
  BY <1>2, SlotOfSlot
<1>4. \A t \in SlotsOf(b) : Sketch!Register(E, b, t, src.reg[t])
  BY SameNew DEF Sketch!IsHll
<1>5. \A d \in E : d[1] \in Nat /\ d[2] \in 1 .. 63
  BY Premises, Sketch!CouponsHaveKeys DEF Sketch!IsHll
<1>6. /\ \A d \in D \union P : d[1] % (2 ^ a) = s => d[2] <= v
      /\ v = 0 \/ \E d \in D \union P : d[1] % (2 ^ a) = s /\ d[2] = v
  BY DEF Sketch!Register
<1>. HIDE DEF P, b
<1>7. ASSUME NEW d \in E, d[1] % (2 ^ a) = s PROVE d[2] <= v
  <2>. DEFINE t == d[1] % (2 ^ b)
  <2>1. t \in SlotsOf(b) /\ d[1] \in Nat /\ d[2] \in 1 .. 63
    BY <1>2, <1>5 DEF SlotsOf
  <2>2. d[2] <= src.reg[t]
    BY <1>4, <2>1 DEF Sketch!Register
  <2>3. src.reg[t] # 0
    BY <2>1, <2>2
  <2>4. PICK e \in P : e[1] = t
    BY <1>1, <2>1, <2>3
  <2>5. e[2] = src.reg[t] /\ e[1] % (2 ^ a) = s
    BY <1>1, <1>3, <1>7, <2>1, <2>4
  <2>6. e[2] <= v
    BY <1>6, <2>5
  <2>7. d[2] <= e[2] /\ e[2] \in Int
    BY <1>1, <2>2, <2>5
  <2>. QED BY <2>1, <2>6, <2>7
<1>8. ASSUME NEW e \in P, e[1] % (2 ^ a) = s, e[2] = v
      PROVE  \E d \in E : d[1] % (2 ^ a) = s /\ d[2] = v
  <2>1. e[1] \in SlotsOf(b) /\ e[2] = src.reg[e[1]] /\ e[2] # 0
    BY <1>1
  <2>2. PICK d \in E : d[1] % (2 ^ b) = e[1] /\ d[2] = e[2]
    BY <1>4, <2>1 DEF Sketch!Register
  <2>3. (d[1] % (2 ^ b)) % (2 ^ a) = d[1] % (2 ^ a)
    BY <1>3, <1>5
  <2>. QED BY <1>8, <2>2, <2>3
<1>. QED BY <1>6, <1>7, <1>8 DEF Sketch!Register

\* An array of at least that resolution is taken by an array.
LEMMA ArrayTaken ==
  ASSUME NEW k, NEW D, Sketch!IsOf(k, D), Sketch!IsHll(k, D),
         NEW src, NEW E, Sketch!IsHll(src, E), k.lgK <= src.lgK
  PROVE  LET u == takeAll(k, src)
         IN  Sketch!IsHll(u, D \union E) /\ u.lgK = k.lgK
<1>. DEFINE P == SlotsTaken(src)
            u == takeAll(k, src)
<1>1. Sketch!Lists(pairs(src), P, Sketch!addressOf, Sketch!Coupon)
  BY SamePairs, Premises, Sketch!HllPairs DEF SlotsTaken
<1>2. Sketch!IsHll(u, D \union P) /\ u.lgK = k.lgK
  BY <1>1, TakesAdd DEF takeAll
<1>. HIDE DEF u, P
<1>3. D \subseteq Sketch!Coupon /\ E \subseteq Sketch!Coupon /\ k.lgK \in Nat
  BY DEF Sketch!IsHll, Sketch!IsLgK
<1>4. \A s : \A v \in 0 .. 63 :
        Sketch!Register(D \union P, u.lgK, s, v) => Sketch!Register(D \union E, u.lgK, s, v)
  BY <1>2, <1>3, PairsStand DEF P
<1>5. Sketch!IsHll(u, D \union E)
  BY <1>2, <1>3, <1>4 DEF Sketch!IsHll
<1>. QED BY <1>2, <1>5 DEF u

\* An array is an object.
LEMMA ArrayIs ==
  ASSUME NEW k, NEW D, Sketch!IsHll(k, D), IsFiniteSet(D)
  PROVE  Sketch!IsOf(k, D)
BY DEF IsFiniteSet, Sketch!IsFiniteSet, Sketch!IsOf, Sketch!IsHll

\* An array brought down has the coupons that it had.
LEMMA BroughtDown ==
  ASSUME NEW src, NEW E, Sketch!IsHll(src, E), IsFiniteSet(E), NEW lgK, Sketch!IsLgK(lgK)
  PROVE  LET k == copyOrDownsampleHll(src, lgK)
         IN  Sketch!IsHll(k, E) /\ k.lgK <= lgK /\ k.lgK <= src.lgK
<1>0. lgK \in Nat /\ src.lgK \in Nat
  BY DEF Sketch!IsHll, Sketch!IsLgK
<1>1. CASE src.lgK <= lgK
  BY <1>0, <1>1 DEF copyOrDownsampleHll
<1>2. CASE ~ (src.lgK <= lgK)
  <2>. DEFINE n == newHll(lgK)
              u == takeAll(n, src)
              w == [u EXCEPT !.ooo = src.ooo]
  <2>1. Sketch!IsHll(n, {}) /\ n.lgK = lgK
    BY Premises, Sketch!NewHllIs, SameNew
  <2>2. IsFiniteSet({})
    BY FS_EmptySet
  <2>. HIDE DEF n
  <2>3. Sketch!IsOf(n, {}) /\ n.lgK <= src.lgK
    BY <1>0, <1>2, <2>1, <2>2, ArrayIs
  <2>4. Sketch!IsHll(u, {} \union E) /\ u.lgK = lgK
    BY <2>1, <2>3, ArrayTaken
  <2>. HIDE DEF u
  <2>5. Sketch!IsHll(u, E)
    BY <2>4
  <2>6. Sketch!IsHll(w, E) /\ w.lgK = lgK
    BY <2>4, <2>5 DEF Sketch!IsHll, Sketch!HllFields
  <2>7. copyOrDownsampleHll(src, lgK) = w
    BY <1>2 DEF copyOrDownsampleHll, u, n
  <2>. HIDE DEF w
  <2>. QED BY <1>0, <1>2, <2>6, <2>7
<1>. QED BY <1>1, <1>2

\* The out-of-order flag is not about the coupons.
LEMMA FlagIs ==
  ASSUME NEW k, NEW D, Sketch!IsOf(k, D), NEW flag
  PROVE  Sketch!IsOf([k EXCEPT !.ooo = flag], D) /\ [k EXCEPT !.ooo = flag].lgK = k.lgK
<1>. DEFINE r == [k EXCEPT !.ooo = flag]
<1>1. ASSUME k = [f \in Sketch!CouponFields |-> k[f]]
      PROVE  /\ r = [f \in Sketch!CouponFields |-> r[f]] /\ r.mode = k.mode /\ r.lgK = k.lgK
             /\ r.lg = k.lg /\ r.arr = k.arr /\ r.count = k.count
  BY <1>1 DEF Sketch!CouponFields
<1>2. CASE Sketch!IsList(k, D)
  <2>1. k = [f \in Sketch!CouponFields |-> k[f]] /\ k.mode = "LIST"
    BY <1>2 DEF Sketch!IsList, Sketch!IsCoupons
  <2>. HIDE DEF r
  <2>2. Sketch!IsList(r, D)
    BY <1>1, <1>2, <2>1, Premises, Sketch!LikeList
  <2>. QED BY <1>1, <2>1, <2>2 DEF Sketch!IsOf, r
<1>3. CASE Sketch!IsSet(k, D)
  <2>1. k = [f \in Sketch!CouponFields |-> k[f]] /\ k.mode = "SET"
    BY <1>3 DEF Sketch!IsSet, Sketch!IsTableOf, Sketch!IsCoupons
  <2>. HIDE DEF r
  <2>2. Sketch!IsSet(r, D)
    BY <1>1, <1>3, <2>1, Premises, Sketch!LikeSet
  <2>. QED BY <1>1, <2>1, <2>2 DEF Sketch!IsOf, r
<1>4. CASE Sketch!IsHll(k, D)
  BY <1>4 DEF Sketch!IsOf, Sketch!IsHll, Sketch!HllFields
<1>. QED BY <1>2, <1>3, <1>4 DEF Sketch!IsOf

\* A merge holds the coupons of both.
LEMMA UnionIs ==
  ASSUME NEW g, NEW D, Sketch!IsOf(g, D), NEW src, NEW E, Sketch!IsOf(src, E),
         NEW maxLgK, Sketch!IsLgK(maxLgK)
  PROVE  Sketch!IsOf(unionImpl(g, src, maxLgK), D \union E)
<1>. DEFINE u == unionImpl(g, src, maxLgK)
<1>0. /\ Sketch!IsHll(g, D) <=> g.mode = "HLL"
      /\ Sketch!IsHll(src, E) <=> src.mode = "HLL"
      /\ IsFiniteSet(D) /\ IsFiniteSet(E)
  <2>1. IsFiniteSet(D) /\ IsFiniteSet(E)
    BY DEF IsFiniteSet, Sketch!IsFiniteSet, Sketch!IsOf
  <2>2. /\ Sketch!IsList(g, D) => g.mode = "LIST"
        /\ Sketch!IsSet(g, D) => g.mode = "SET"
        /\ Sketch!IsHll(g, D) => g.mode = "HLL"
        /\ Sketch!IsList(src, E) => src.mode = "LIST"
        /\ Sketch!IsSet(src, E) => src.mode = "SET"
        /\ Sketch!IsHll(src, E) => src.mode = "HLL"
    BY Premises, Sketch!ModesAre
  <2>. QED BY <2>1, <2>2 DEF Sketch!IsOf
<1>1. CASE src.mode # "HLL"
  <2>. DEFINE k == takeAll(g, src)
              flag == IF isEmpty(g) THEN src.ooo
                      ELSE IF g.mode = "SET" THEN TRUE ELSE k.ooo \/ src.ooo
  <2>1. Sketch!IsOf(k, D \union E)
    BY <1>1, CouponsTaken
  <2>2. u = [k EXCEPT !.ooo = flag]
    BY <1>1 DEF unionImpl, unionOfCoupons
  <2>. HIDE DEF k, flag, u
  <2>3. Sketch!IsOf(u, D \union E)
    BY <2>1, <2>2, FlagIs
  <2>. QED BY <2>3 DEF u
<1>2. CASE src.mode = "HLL" /\ g.mode # "HLL"
  <2>. DEFINE d == copyOrDownsampleHll(src, maxLgK)
              k == takeAll(d, g)
              flag == g.ooo \/ d.ooo
  <2>1. Sketch!IsHll(d, E)
    BY <1>0, <1>2, BroughtDown
  <2>. HIDE DEF d
  <2>2. Sketch!IsOf(k, E \union D)
    BY <1>0, <1>2, <2>1, ArrayIs, CouponsTaken
  <2>3. u = [k EXCEPT !.ooo = flag]
    BY <1>2 DEF unionImpl, unionIntoHll, d
  <2>4. E \union D = D \union E
    OBVIOUS
  <2>. HIDE DEF k, flag, u
  <2>5. Sketch!IsOf(u, D \union E)
    BY <2>2, <2>3, <2>4, FlagIs
  <2>. QED BY <2>5 DEF u
<1>3. CASE src.mode = "HLL" /\ g.mode = "HLL"
  <2>. DEFINE e == copyOrDownsampleHll(g, src.lgK)
              d == IF src.lgK < g.lgK THEN e ELSE g
              k == takeAll(d, src)
  <2>0. Sketch!IsLgK(src.lgK) /\ src.lgK \in Nat /\ g.lgK \in Nat
    BY <1>0, <1>3 DEF Sketch!IsHll, Sketch!IsLgK
  <2>1. Sketch!IsHll(e, D) /\ e.lgK <= src.lgK
    BY <1>0, <1>3, <2>0, BroughtDown
  <2>. HIDE DEF e
  <2>2. Sketch!IsHll(d, D) /\ d.lgK <= src.lgK
    BY <1>0, <1>3, <2>0, <2>1
  <2>3. u = [k EXCEPT !.ooo = TRUE]
    BY <1>3 DEF unionImpl, unionOfHlls, d, e
  <2>. HIDE DEF d
  <2>4. Sketch!IsHll(k, D \union E)
    BY <1>0, <1>3, <2>2, ArrayIs, ArrayTaken
  <2>. HIDE DEF k
  <2>5. Sketch!IsOf(k, D \union E)
    BY <1>0, <2>4, FS_Union, ArrayIs
  <2>. HIDE DEF u
  <2>6. Sketch!IsOf(u, D \union E)
    BY <2>3, <2>5, FlagIs
  <2>. QED BY <2>6 DEF u
<1>. QED BY <1>1, <1>2, <1>3

\* An object that says that it is empty has no coupons.
LEMMA NothingIn ==
  ASSUME NEW k, NEW D, Sketch!IsOf(k, D), isEmpty(k)
  PROVE  D = {}
<1>1. CASE k.mode # "HLL"
  <2>1. Sketch!IsCoupons(k, D)
    BY <1>1, Premises, Sketch!TableHolds
       DEF Sketch!IsOf, Sketch!IsList, Sketch!IsSet, Sketch!IsHll
  <2>2. Sketch!Cardinality(D) = 0
    BY <1>1, <2>1 DEF isEmpty, Sketch!IsCoupons
  <2>3. Cardinality(D) = 0 /\ IsFiniteSet(D)
    BY <2>2 DEF Cardinality, Sketch!Cardinality, IsFiniteSet, Sketch!IsFiniteSet, Sketch!IsOf
  <2>. QED BY <2>3, FS_EmptySet
<1>2. CASE k.mode = "HLL"
  <2>1. Sketch!IsHll(k, D)
    BY <1>2 DEF Sketch!IsOf, Sketch!IsList, Sketch!IsSet, Sketch!IsTableOf, Sketch!IsCoupons
  <2>2. 2 ^ k.lgK \in Nat \ {0}
    <3>1. Sketch!IsLgK(k.lgK)
      BY <2>1 DEF Sketch!IsHll
    <3>. QED BY <3>1, Premises, Sketch!SizesAre
  <2>3. ASSUME NEW d \in D PROVE FALSE
    <3>. DEFINE t == d[1] % (2 ^ k.lgK)
    <3>1. d[1] \in Nat /\ d[2] \in 1 .. 63
      BY <2>1, Premises, Sketch!CouponsHaveKeys DEF Sketch!IsHll
    <3>2. t \in SlotsOf(k.lgK)
      BY <2>2, <3>1 DEF SlotsOf
    <3>3. d[2] <= k.reg[t]
      <4>1. Sketch!Register(D, k.lgK, t, k.reg[t])
        BY <2>1, <3>2, SameNew DEF Sketch!IsHll
      <4>. QED BY <4>1 DEF Sketch!Register
    <3>4. k.reg[t] = 0
      BY <1>2, <3>2 DEF isEmpty
    <3>. QED BY <3>1, <3>3, <3>4
  <2>. QED BY <2>3
<1>. QED BY <1>1, <1>2

\* A new list has no coupons.
LEMMA NewListIs ==
  ASSUME NEW lgK, Sketch!IsLgK(lgK)
  PROVE  Sketch!IsOf(newList(lgK), {})
BY Premises, Sketch!NewListIs, SameNew

\* A sketch that was read back has the coupons that were written.
LEMMA SketchRead ==
  ASSUME NEW k, NEW D, Sketch!IsOf(k, D), NEW type \in TgtHllTypes,
         NEW compact \in BOOLEAN, NEW stream \in BOOLEAN, compact \/ stream \/ k.mode # "SET"
  PROVE  LET im == serialize(k, type, compact)
             r  == deserialized(im, stream, EMPTY)
         IN  im.type = type /\ Sketch!IsOf(r, D) /\ r.lgK = k.lgK
<1>. DEFINE im == serialize(k, type, compact)
            r  == deserialized(im, stream, EMPTY)
<1>1. /\ im.preInts = PreInts[k.mode] /\ im.compactFlag = compact /\ im.type = type
      /\ k.mode # "HLL" => im.count = k.count
  BY DEF serialize, serializeCoupons, serializeHll
<1>2. k.mode \in {"LIST", "SET", "HLL"} /\ (k.mode = "SET" => k.count \in Nat)
  <2>1. /\ Sketch!IsList(k, D) => k.mode = "LIST"
        /\ Sketch!IsHll(k, D) => k.mode = "HLL"
    BY Premises, Sketch!ModesAre
  <2>2. Sketch!IsSet(k, D) => k.mode = "SET" /\ k.count \in Nat
    BY Premises, Sketch!TableHolds DEF Sketch!IsSet
  <2>. QED BY <2>1, <2>2 DEF Sketch!IsOf
<1>3. im = Sketch!serialize(k, type, compact)
  BY SameImage
<1>. HIDE DEF im
<1>4. modeOf(im) = k.mode
  <2>1. \A a, b \in {"LIST", "SET", "HLL"} : PreInts[a] = PreInts[b] => a = b
    BY DEF PreInts
  <2>. QED BY <1>1, <1>2, <2>1 DEF modeOf
<1>5. r = Sketch!deserialized(im, stream, Sketch!EMPTY)
  BY <1>1, <1>2, <1>4, SameReadBack
<1>. HIDE DEF r
<1>6. r = Sketch!readBack(k, type, compact, stream, Sketch!EMPTY)
  BY <1>3, <1>5 DEF Sketch!readBack
<1>7. type \in Sketch!TgtHllTypes
  BY DEF TgtHllTypes, Sketch!TgtHllTypes
<1>8. Sketch!IsOf(r, D) /\ r.lgK = k.lgK
  BY <1>6, <1>7, Premises, Sketch!ReadBackIs
<1>. QED BY <1>1, <1>8 DEF im, r

\* ... and so has a union.
LEMMA UnionRead ==
  ASSUME NEW k, NEW D, Sketch!IsOf(k, D), Sketch!IsLgK(k.lgK), NEW type \in TgtHllTypes,
         NEW compact \in BOOLEAN, NEW stream \in BOOLEAN, compact \/ stream \/ k.mode # "SET"
  PROVE  Sketch!IsOf(unionOfImage(serialize(k, type, compact), stream), D)
<1>. DEFINE im == serialize(k, type, compact)
            r  == deserialized(im, stream, EMPTY)
            l  == newList(r.lgK)
            v  == unionImpl(l, r, r.lgK)
            u  == unionOfImage(im, stream)
<1>1. im.type = type /\ Sketch!IsOf(r, D) /\ r.lgK = k.lgK
  BY SketchRead
<1>2. u = IF im.type = "HLL_8" THEN r ELSE IF isEmpty(r) THEN l ELSE v
  BY DEF unionOfImage
<1>. HIDE DEF im, r
<1>3. Sketch!IsOf(l, {})
  BY <1>1, NewListIs
<1>. HIDE DEF l
<1>4. Sketch!IsOf(v, D)
  <2>1. Sketch!IsOf(v, {} \union D)
    BY <1>1, <1>3, UnionIs
  <2>2. {} \union D = D
    OBVIOUS
  <2>. HIDE DEF v
  <2>. QED BY <2>1, <2>2
<1>5. isEmpty(r) => D = {}
  BY <1>1, NothingIn
<1>. HIDE DEF v, u
<1>6. Sketch!IsOf(u, D)
  BY <1>1, <1>2, <1>3, <1>4, <1>5
<1>. QED BY <1>6 DEF u, im

----------------------------------------------------------------------------
(* The coupons in the gadget and in the source. *)

\* Each is a sketch of what went into it.
UnionInv ==
  /\ Typed
  /\ unionInput \subseteq Coupons /\ sourceInput \subseteq Coupons
  /\ Sketch!IsOf(gadget, unionInput) /\ Sketch!IsOf(source, sourceInput)

\* What is offered, and at what resolution.
LEMMA Offered ==
  /\ Coupons \subseteq Sketch!Coupon
  /\ \A lgK \in LgConfigKs : Sketch!IsLgK(lgK)
<1>1. Coupons \subseteq Sketch!Coupon
  BY HllUnionAssumption DEF Sketch!Coupon
<1>2. \A lgK \in LgConfigKs : Sketch!IsLgK(lgK)
  BY HllUnionAssumption DEF Sketch!IsLgK, Powers, Sketch!Powers
<1>. QED BY <1>1, <1>2

\* UnionInv holds at first,
LEMMA UnionInvInit == Init => UnionInv
<1>. SUFFICES ASSUME Init PROVE UnionInv
  OBVIOUS
<1>1. Typed
  BY NewListAt DEF Init, Typed
<1>2. \A lgK \in LgConfigKs : Sketch!IsOf(newList(lgK), {})
  BY Offered, NewListIs
<1>. QED BY <1>1, <1>2 DEF Init, UnionInv

\* ... and every step keeps it.
LEMMA UnionInvStep ==
  ASSUME UnionInv, [Next]_vars
  PROVE  UnionInv'
<1>0. Typed /\ Typed'
  BY TypedStep DEF UnionInv
<1>00. Sketch!IsLgK(gadget.lgK) /\ Sketch!IsLgK(source.lgK) /\ Sketch!IsLgK(lgMaxK)
  BY <1>0, Offered DEF Typed
<1>1. CASE updateWithSketch
  <2>1. Sketch!IsOf(unionImpl(gadget, source, lgMaxK), unionInput \union sourceInput)
    BY <1>00, UnionIs DEF UnionInv
  <2>2. /\ Sketch!IsOf(gadget', unionInput') /\ unionInput' = unionInput \union sourceInput
        /\ UNCHANGED <<source, sourceInput>>
    BY <1>1, <2>1 DEF updateWithSketch
  <2>. QED BY <1>0, <2>2 DEF UnionInv
<1>2. CASE reset
  <2>1. Sketch!IsOf(gadget', unionInput') /\ unionInput' = {} /\ UNCHANGED <<source, sourceInput>>
    BY <1>2, <1>00, NewListIs DEF reset
  <2>. QED BY <1>0, <2>1 DEF UnionInv
<1>3. CASE getResult
  BY <1>0, <1>3 DEF getResult, UnionInv
<1>4. ASSUME NEW c \in Coupons, updateWithCoupon(c) PROVE UnionInv'
  <2>1. Sketch!IsOf(couponUpdate(gadget, c), unionInput \union {c})
    BY Offered, UpdateAdds DEF UnionInv
  <2>2. /\ Sketch!IsOf(gadget', unionInput') /\ unionInput' = unionInput \union {c}
        /\ UNCHANGED <<source, sourceInput>>
    BY <1>4, <2>1 DEF updateWithCoupon
  <2>. QED BY <1>0, <2>2 DEF UnionInv
<1>5. ASSUME NEW c \in Coupons, sourceUpdate(c) PROVE UnionInv'
  <2>1. Sketch!IsOf(couponUpdate(source, c), sourceInput \union {c})
    BY Offered, UpdateAdds DEF UnionInv
  <2>2. /\ Sketch!IsOf(source', sourceInput') /\ sourceInput' = sourceInput \union {c}
        /\ UNCHANGED <<gadget, unionInput>>
    BY <1>5, <2>1 DEF sourceUpdate
  <2>. QED BY <1>0, <2>2 DEF UnionInv
<1>6. ASSUME NEW lgK \in LgConfigKs, newSource(lgK) PROVE UnionInv'
  <2>1. /\ Sketch!IsOf(source', sourceInput') /\ sourceInput' = {}
        /\ UNCHANGED <<gadget, unionInput>>
    BY <1>6, Offered, NewListIs DEF newSource
  <2>. QED BY <1>0, <2>1 DEF UnionInv
<1>7. ASSUME NEW compact \in BOOLEAN, NEW stream \in BOOLEAN, reload(compact, stream)
      PROVE  UnionInv'
  <2>1. "HLL_8" \in TgtHllTypes
    BY DEF TgtHllTypes
  <2>2. compact \/ stream \/ gadget.mode # "SET"
    BY <1>7 DEF reload
  <2>3. Sketch!IsOf(unionOfImage(serialize(gadget, "HLL_8", compact), stream), unionInput)
    BY <1>00, <2>1, <2>2, UnionRead DEF UnionInv
  <2>4. Sketch!IsOf(gadget', unionInput') /\ UNCHANGED <<source, unionInput, sourceInput>>
    BY <1>7, <2>3 DEF reload
  <2>. QED BY <1>0, <2>4 DEF UnionInv
<1>8. ASSUME NEW compact \in BOOLEAN, NEW stream \in BOOLEAN, NEW type \in TgtHllTypes,
             deserializeSource(type, compact, stream)
      PROVE  UnionInv'
  <2>1. compact \/ stream \/ source.mode # "SET"
    BY <1>8 DEF deserializeSource
  <2>2. Sketch!IsOf(unionOfImage(serialize(source, type, compact), stream), sourceInput)
    BY <1>00, <2>1, UnionRead DEF UnionInv
  <2>3. /\ Sketch!IsOf(gadget', unionInput') /\ unionInput' = sourceInput
        /\ UNCHANGED <<source, sourceInput>>
    BY <1>8, <2>2 DEF deserializeSource
  <2>. QED BY <1>0, <2>3 DEF UnionInv
<1>9. CASE UNCHANGED vars
  BY <1>0, <1>9 DEF vars, UnionInv
<1>. QED BY <1>1, <1>2, <1>3, <1>4, <1>5, <1>6, <1>7, <1>8, <1>9 DEF Next

\* A sketch of these coupons holds them.
LEMMA IsOfHolds ==
  ASSUME NEW k, NEW D, Sketch!IsOf(k, D)
  PROVE  Holds(k, D)
<1>1. Sketch!Holding(k, D)
  BY Premises, Sketch!IsHolding
<1>. QED BY <1>1 DEF Holds, SlotsOf, Cells, EMPTY,
            Sketch!Holding, Sketch!SlotsOf, Sketch!Cells, Sketch!EMPTY

(* The union is that of the inputs, whatever the modes and lgConfigKs of    *)
(* the sketches and the order in which they came.                           *)
THEOREM UnionHoldsInput == Spec => []HoldsUnion
<1>1. Spec => []UnionInv
  BY UnionInvInit, UnionInvStep, PTL DEF Spec
<1>2. UnionInv => HoldsUnion
  BY IsOfHolds DEF UnionInv, HoldsUnion
<1>. QED BY <1>1, <1>2, PTL

----------------------------------------------------------------------------
(* The out-of-order flag. *)

\* A sketch that has not the HIP accumulator of its own coupons is an array that
\* has taken in some.
HipInv ==
  /\ Typed
  /\ unionInput \subseteq Coupons /\ sourceInput \subseteq Coupons
  /\ ~ unionHip => gadget.mode = "HLL" /\ gadget.ooo /\ unionInput # {}
  /\ ~ sourceHip => source.mode = "HLL" /\ source.ooo /\ sourceInput # {}

\* An array that holds what it should is empty if and only if that is nothing.
LEMMA EmptyArray ==
  ASSUME NEW k, IsHll(k), NEW coupons, coupons \subseteq Coupons, Holds(k, coupons)
  PROVE  isEmpty(k) <=> coupons = {}
<1>0. k.mode = "HLL" /\ 2 ^ k.lgK \in Nat \ {0}
  <2>1. k.lgK \in 0 .. k.lgK
    BY DEF IsHll
  <2>. QED BY <2>1 DEF IsHll, Powers
<1>. DEFINE values(s) == {c[2] : c \in {d \in coupons : d[1] % (2 ^ k.lgK) = s}}
<1>1. ASSUME NEW s \in SlotsOf(k.lgK)
      PROVE  IF values(s) = {} THEN k.reg[s] = 0
             ELSE k.reg[s] \in values(s)
  BY <1>0 DEF Holds
<1>2. ASSUME NEW c \in coupons, isEmpty(k) PROVE FALSE
  <2>1. c[1] \in Nat
    BY HllUnionAssumption
  <2>2. c[1] % (2 ^ k.lgK) \in SlotsOf(k.lgK)
    BY <1>0, <2>1 DEF SlotsOf
  <2>. DEFINE s == c[1] % (2 ^ k.lgK)
  <2>3. c[2] \in values(s)
    OBVIOUS
  <2>4. k.reg[s] \in values(s)
    BY <1>1, <2>2, <2>3
  <2>5. \A v \in values(s) : v # 0
    BY HllUnionAssumption
  <2>6. k.reg[s] = 0
    BY <1>0, <1>2, <2>2 DEF isEmpty
  <2>. QED BY <2>4, <2>5, <2>6
<1>3. ASSUME coupons = {} PROVE isEmpty(k)
  <2>1. \A s \in SlotsOf(k.lgK) : values(s) = {}
    BY <1>3
  <2>2. \A s \in SlotsOf(k.lgK) : k.reg[s] = 0
    BY <1>1, <2>1
  <2>. QED BY <1>0, <2>2 DEF isEmpty
<1>. QED BY <1>2, <1>3

\* A new list holds nothing.
LEMMA NewListHolds ==
  ASSUME NEW lgK, NEW coupons, Holds(newList(lgK), coupons)
  PROVE  coupons = {}
<1>1. newList(lgK).mode = "LIST" /\ newList(lgK).arr = EmptyTable(LgList)
      /\ newList(lgK).lg = LgList
  BY DEF newList, newCoupons
<1>2. \A i \in Cells(LgList) : EmptyTable(LgList)[i] = EMPTY
  BY DEF EmptyTable
<1>3. {newList(lgK).arr[i] : i \in Cells(newList(lgK).lg)} \ {EMPTY} = coupons
  BY <1>1 DEF Holds
<1>. QED BY <1>1, <1>2, <1>3

\* HipInv holds at first.
LEMMA HipInvInit == Init => HipInv
<1>. SUFFICES ASSUME Init PROVE HipInv
  OBVIOUS
<1>1. Typed
  BY NewListAt DEF Init, Typed
<1>. QED BY <1>1 DEF Init, HipInv

\* ... and every step keeps it, as long as the sketches hold what went in.
LEMMA HipInvStep ==
  ASSUME HipInv, HoldsUnion, HoldsUnion', [Next]_vars
  PROVE  HipInv'
<1>0. Typed /\ Typed'
  BY TypedStep DEF HipInv
<1>1. CASE updateWithSketch
  <2>. DEFINE u == unionImpl(gadget, source, lgMaxK)
  <2>1. UnionOf(u, gadget, source, lgMaxK)
    BY <1>0, StepsKeep
  <2>2. /\ gadget' = u /\ UNCHANGED <<source, sourceInput, sourceHip>>
        /\ unionInput' = unionInput \union sourceInput /\ ~ isEmpty(source)
    BY <1>1 DEF updateWithSketch
  <2>. HIDE DEF u
  <2>3. CASE source.mode # "HLL"
    <3>1. unionHip' = unionHip
      BY <1>1, <2>3 DEF updateWithSketch
    <3>2. ASSUME ~ unionHip PROVE u.mode = "HLL" /\ u.ooo
      <4>1. gadget.mode = "HLL" /\ gadget.ooo /\ unionInput # {}
        BY <3>2 DEF HipInv
      <4>2. ~ isEmpty(gadget)
        BY <1>0, <4>1, EmptyArray, Modes DEF HipInv, HoldsUnion, Typed
      <4>. QED BY <2>1, <2>3, <4>1, <4>2 DEF UnionOf
    <3>. QED BY <1>0, <2>2, <3>1, <3>2 DEF HipInv
  <2>4. CASE source.mode = "HLL" /\ gadget.mode # "HLL"
    <3>1. unionHip' = sourceHip
      BY <1>1, <2>4 DEF updateWithSketch
    <3>2. IsHll(u) /\ (~ u.ooo => ~ source.ooo)
      BY <2>1, <2>4 DEF UnionOf
    <3>. QED BY <1>0, <2>2, <3>1, <3>2 DEF HipInv, IsHll
  <2>5. CASE source.mode = "HLL" /\ gadget.mode = "HLL"
    <3>1. sourceInput # {}
      BY <1>0, <2>2, <2>5, EmptyArray, Modes DEF HipInv, HoldsUnion, Typed
    <3>2. IsHll(u) /\ u.ooo
      BY <2>1, <2>5 DEF UnionOf
    <3>. QED BY <1>0, <2>2, <3>1, <3>2 DEF HipInv, IsHll
  <2>. QED BY <2>3, <2>4, <2>5
<1>2. CASE reset
  BY <1>0, <1>2 DEF reset, HipInv
<1>3. CASE getResult
  BY <1>0, <1>3 DEF getResult, HipInv
<1>4. ASSUME NEW c \in Coupons, updateWithCoupon(c) PROVE HipInv'
  <2>1. gadget.mode = "HLL" => gadget'.mode = "HLL" /\ gadget'.ooo = gadget.ooo
    BY <1>0, <1>4, StepsKeep, Modes DEF updateWithCoupon, ImplFrom, HllFrom, Typed
  <2>. QED BY <1>0, <1>4, <2>1 DEF updateWithCoupon, HipInv
<1>5. ASSUME NEW c \in Coupons, sourceUpdate(c) PROVE HipInv'
  <2>1. source.mode = "HLL" => source'.mode = "HLL" /\ source'.ooo = source.ooo
    BY <1>0, <1>5, StepsKeep, Modes DEF sourceUpdate, ImplFrom, HllFrom, Typed
  <2>. QED BY <1>0, <1>5, <2>1 DEF sourceUpdate, HipInv
<1>6. ASSUME NEW lgK \in LgConfigKs, newSource(lgK) PROVE HipInv'
  BY <1>0, <1>6 DEF newSource, HipInv
<1>7. ASSUME NEW compact \in BOOLEAN, NEW stream \in BOOLEAN, reload(compact, stream)
      PROVE  HipInv'
  <2>1. ReadFrom(gadget', gadget, "HLL_8")
    BY <1>0, <1>7, UnionReadBack DEF reload, Typed
  <2>2. gadget.mode = "HLL" => gadget'.mode = "HLL" /\ (~ gadget'.ooo => ~ gadget.ooo)
    BY <1>0, <2>1, Modes DEF ReadFrom, Typed
  <2>. QED BY <1>0, <1>7, <2>2 DEF reload, HipInv
<1>8. ASSUME NEW compact \in BOOLEAN, NEW stream \in BOOLEAN, NEW type \in TgtHllTypes,
             deserializeSource(type, compact, stream)
      PROVE  HipInv'
  <2>1. ReadFrom(gadget', source, type)
    BY <1>0, <1>8, UnionReadBack DEF deserializeSource, Typed
  <2>2. /\ unionInput' = sourceInput /\ unionHip' = sourceHip
        /\ UNCHANGED <<source, sourceInput, sourceHip>>
    BY <1>8 DEF deserializeSource
  <2>3. ASSUME ~ sourceHip PROVE gadget'.mode = "HLL" /\ gadget'.ooo
    <3>1. source.mode = "HLL" /\ source.ooo /\ sourceInput # {}
      BY <2>3 DEF HipInv
    <3>2. gadget' # newList(source.lgK)
      BY <2>2, <3>1, NewListHolds DEF HoldsUnion
    <3>3. IsHll(source)
      BY <1>0, <3>1, Modes DEF Typed
    <3>. QED BY <2>1, <3>1, <3>2, <3>3 DEF ReadFrom, IsHll
  <2>. QED BY <1>0, <2>2, <2>3 DEF HipInv
<1>9. CASE UNCHANGED vars
  BY <1>0, <1>9 DEF vars, HipInv
<1>. QED BY <1>1, <1>2, <1>3, <1>4, <1>5, <1>6, <1>7, <1>8, <1>9 DEF Next

(* An array whose out-of-order flag is off has only ever been updated by    *)
(* coupons.                                                                 *)
THEOREM EstimatorIsRight == Spec => []HipOnlyInOrder
<1>1. HipInv /\ HoldsUnion /\ HoldsUnion' /\ [Next]_vars => HipInv'
  BY HipInvStep
<1>2. Spec /\ []HoldsUnion => []HipInv
  BY HipInvInit, <1>1, PTL DEF Spec
<1>3. HipInv => HipOnlyInOrder
  BY DEF HipInv, HipOnlyInOrder
<1>. QED BY <1>2, <1>3, UnionHoldsInput, PTL
=============================================================================

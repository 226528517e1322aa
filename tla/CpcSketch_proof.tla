-------------------------- MODULE CpcSketch_proof --------------------------
(***************************************************************************)
(* What is proved of CpcSketch (src/cpc/src/fm85.cpp), for every size of   *)
(* sketch and every sequence of coupons: the sketch holds exactly the      *)
(* coupons that were offered to it, until saturation.                      *)
(*                                                                         *)
(* The argument: IInv says of every field of the sketch what the set of    *)
(* offered coupons makes it.  An update is followed through its cases (the *)
(* skipped column, the sparse table, the promotion, the window, the shift) *)
(* and kxp through the sums of FoldTheorems.                               *)
(***************************************************************************)
EXTENDS CpcSketch, TLAPS, FiniteSetTheorems, WellFoundedInduction

Fields == {"lgK", "numCoupons", "windowOffset", "window", "table",
           "firstInterestingColumn", "kxp", "mergeFlag", "thrown"}

\* A record with the fields of a sketch.
IsSketch(s) == s = [f \in Fields |-> s[f]]

\* The window at the offset of a sketch of the coupons M.
WindowOf(lgK, M, offset) ==
  [r \in Rows(lgK) |-> {c \in 0 .. WindowWidth - 1 : <<r, c + offset>> \in M}]

\* The surprises, unset bits before the window and set ones after it.
SurprisesOf(lgK, M, offset) ==
  {rc \in Coupons(lgK) : \/ rc[2] < offset /\ rc \notin M
                         \/ rc[2] >= offset + WindowWidth /\ rc \in M}

\* A sketch with a window: neither EMPTY nor SPARSE.
Windowed(s) == 32 * s.numCoupons >= SparseLimit * 2 ^ s.lgK

\* The table and the window say M.
Stores(s, M) ==
  /\ ~ Windowed(s) => s.window = NULL /\ (M # {} => s.table = M)
  /\ Windowed(s) =>
       /\ s.window = WindowOf(s.lgK, M, s.windowOffset)
       /\ s.table = SurprisesOf(s.lgK, M, s.windowOffset)

\* Every row is set up to the first interesting column.
Full(s, M) ==
  /\ s.firstInterestingColumn \in Nat
  /\ \A rc \in Coupons(s.lgK) : rc[2] < s.firstInterestingColumn => rc \in M

----------------------------------------------------------------------------
(* Arithmetic. *)

\* A sketch has a positive number of rows.
LEMMA Sizes ==
  ASSUME NEW lgK \in LgKs
  PROVE  lgK \in Nat /\ 2 ^ lgK \in Nat \ {0}
<1>1. lgK \in Nat /\ lgK \in 0 .. lgK + Columns
  BY CpcSketchAssumption, Fm85Assumption
<1>. QED BY <1>1, PowersAssumption

\* Products by the same positive number are ordered as their factors are.
LEMMA Times ==
  ASSUME NEW a \in Int, NEW b \in Int, NEW k \in Nat \ {0}
  PROVE  /\ a <= b => a * k <= b * k
         /\ a < b => a * k + k <= b * k
         /\ a * k < b * k => a < b
         /\ a * k \in Int
<1>1. a <= b => a * k <= b * k
  OBVIOUS
<1>2. (a + 1) * k = a * k + k
  OBVIOUS
<1>3. a < b => (a + 1) * k <= b * k
  OBVIOUS
<1>4. b <= a => b * k <= a * k
  OBVIOUS
<1>. QED BY <1>1, <1>2, <1>3, <1>4

\* The bounds of an integer quotient.
LEMMA Quotient ==
  ASSUME NEW x \in Int, NEW d \in Nat \ {0}
  PROVE  /\ x \div d \in Int
         /\ (x \div d) * d <= x
         /\ x < (x \div d) * d + d
OBVIOUS

\* The window is never behind the count of coupons, nor ahead of it.
LEMMA OffsetBounds ==
  ASSUME NEW lgK \in LgKs, NEW c \in Nat
  PROVE  LET o == determineCorrectOffset(lgK, c)
         IN  /\ o \in Nat
             /\ 32 * c < (SlideStart + 32 + 32 * o) * 2 ^ lgK
             /\ o # 0 => (SlideStart + 32 * o) * 2 ^ lgK <= 32 * c
<1>. DEFINE K == 2 ^ lgK
            past == 32 * c - SlideStart * K
            q == past \div (32 * K)
            o == determineCorrectOffset(lgK, c)
<1>1. K \in Nat \ {0} /\ SlideStart \in Nat
  BY Sizes, Fm85Assumption
<1>. HIDE DEF K
<1>2. past \in Int /\ 32 * K \in Nat \ {0}
  BY <1>1
<1>3. o = IF past < 0 THEN 0 ELSE q
  BY DEF determineCorrectOffset, K
<1>. HIDE DEF o
<1>4. CASE past < 0
  <2>1. o = 0
    BY <1>3, <1>4
  <2>2. 32 * c < SlideStart * K + 32 * K
    BY <1>1, <1>4
  <2>. QED BY <1>1, <2>1, <2>2 DEF o, K
<1>5. CASE past >= 0
  <2>1. o = q
    BY <1>2, <1>3, <1>5
  <2>2. q \in Int /\ q * (32 * K) <= past /\ past < q * (32 * K) + 32 * K
    BY <1>2, Quotient
  <2>. HIDE DEF q
  <2>3. q >= 0
    <3>1. SUFFICES ASSUME q < 0 PROVE FALSE
      BY <2>2
    <3>2. q * (32 * K) + 32 * K <= 0 * (32 * K)
      BY <1>2, <2>2, <3>1, Times
    <3>. QED BY <1>2, <1>5, <2>2, <3>2
  <2>4. (SlideStart + 32 * q) * K = SlideStart * K + q * (32 * K)
    BY <1>1, <2>2
  <2>5. (SlideStart + 32 + 32 * q) * K = SlideStart * K + q * (32 * K) + 32 * K
    BY <1>1, <2>2
  <2>. QED BY <1>1, <1>2, <2>1, <2>2, <2>3, <2>4, <2>5 DEF o, K
<1>. QED BY <1>2, <1>4, <1>5

\* An offset that is neither behind the count of coupons nor ahead of it is the
\* correct one.
LEMMA OffsetIs ==
  ASSUME NEW lgK \in LgKs, NEW c \in Nat, NEW q \in Nat,
         32 * c < (SlideStart + 32 + 32 * q) * 2 ^ lgK,
         q # 0 => (SlideStart + 32 * q) * 2 ^ lgK <= 32 * c
  PROVE  determineCorrectOffset(lgK, c) = q
<1>. DEFINE K == 2 ^ lgK
            o == determineCorrectOffset(lgK, c)
<1>1. K \in Nat \ {0} /\ SlideStart \in Nat
  BY Sizes, Fm85Assumption
<1>2. /\ o \in Nat
      /\ 32 * c < (SlideStart + 32 + 32 * o) * K
      /\ o # 0 => (SlideStart + 32 * o) * K <= 32 * c
  BY OffsetBounds
<1>3. /\ 32 * c < (SlideStart + 32 + 32 * q) * K
      /\ q # 0 => (SlideStart + 32 * q) * K <= 32 * c
  OBVIOUS
<1>. HIDE DEF K, o
<1>4. o # 0 => o <= q
  <2>1. SUFFICES ASSUME o # 0 PROVE o <= q
    OBVIOUS
  <2>2. (SlideStart + 32 * o) * K < (SlideStart + 32 + 32 * q) * K
    <3>1. (SlideStart + 32 * o) * K \in Int /\ (SlideStart + 32 + 32 * q) * K \in Int
      BY <1>1, <1>2
    <3>. QED BY <1>2, <1>3, <2>1, <3>1
  <2>3. SlideStart + 32 * o < SlideStart + 32 + 32 * q
    BY <1>1, <1>2, <2>2, Times
  <2>. QED BY <1>1, <1>2, <2>3
<1>5. q # 0 => q <= o
  <2>1. SUFFICES ASSUME q # 0 PROVE q <= o
    OBVIOUS
  <2>2. (SlideStart + 32 * q) * K < (SlideStart + 32 + 32 * o) * K
    <3>1. (SlideStart + 32 * q) * K \in Int /\ (SlideStart + 32 + 32 * o) * K \in Int
      BY <1>1, <1>2
    <3>. QED BY <1>2, <1>3, <2>1, <3>1
  <2>3. SlideStart + 32 * q < SlideStart + 32 + 32 * o
    BY <1>1, <1>2, <2>2, Times
  <2>. QED BY <1>1, <1>2, <2>3
<1>6. o = q
  BY <1>2, <1>4, <1>5
<1>. QED BY <1>6 DEF o

----------------------------------------------------------------------------
(* Records. *)

\* The first interesting column that a placement of the window computes.
FirstSurprise(lgK, M, o) == SetMin({rc[2] : rc \in SurprisesOf(lgK, M, o)} \union {Columns})
FirstColumn(lgK, M, o) == SetMin({FirstSurprise(lgK, M, o), o})

\* What placing a window at the offset o for the coupons M sets, and leaves.
LEMMA PlaceKeeps ==
  ASSUME NEW s, IsSketch(s), NEW M, NEW o
  PROVE  LET p == place(s, M, o)
         IN  /\ IsSketch(p)
             /\ p.lgK = s.lgK /\ p.numCoupons = s.numCoupons /\ p.thrown = s.thrown
             /\ p.kxp = s.kxp /\ p.windowOffset = o
             /\ p.window = WindowOf(s.lgK, M, o)
             /\ p.table = SurprisesOf(s.lgK, M, o)
             /\ p.firstInterestingColumn = FirstColumn(s.lgK, M, o)
<1>. DEFINE u == placeUnclipped(s, M, o)
<1>1. /\ IsSketch(u)
      /\ u.lgK = s.lgK /\ u.numCoupons = s.numCoupons /\ u.thrown = s.thrown
      /\ u.kxp = s.kxp /\ u.windowOffset = o
      /\ u.window = WindowOf(s.lgK, M, o)
      /\ u.table = SurprisesOf(s.lgK, M, o)
      /\ u.firstInterestingColumn = FirstSurprise(s.lgK, M, o)
  BY DEF placeUnclipped, IsSketch, Fields, WindowOf, SurprisesOf, FirstSurprise
<1>2. place(s, M, o) =
        [u EXCEPT !.firstInterestingColumn = SetMin({u.firstInterestingColumn, o})]
  BY DEF place
<1>. HIDE DEF u
<1>. QED BY <1>1, <1>2 DEF IsSketch, Fields, FirstColumn

\* The weight of coupons, and of the zeros of a matrix.
Weight(M) == MapThenSumSet(weight, M)
ZerosWeigh(lgK, M) == Weight(Coupons(lgK) \ M)

\* A refresh changes kxp alone, to the weight of the zeros.
LEMMA RefreshKeeps ==
  ASSUME NEW s, IsSketch(s), NEW M
  PROVE  LET n == refreshKXP(s, M)
         IN  /\ IsSketch(n) /\ n.kxp = ZerosWeigh(s.lgK, M)
             /\ \A f \in Fields : f # "kxp" => n[f] = s[f]
BY DEF refreshKXP, IsSketch, Fields, ZerosWeigh, Weight

\* The HIP update changes kxp alone, by the weight of the coupon.
LEMMA HIPKeeps ==
  ASSUME NEW s, IsSketch(s), NEW rc
  PROVE  LET n == updateHIP(s, rc)
         IN  /\ IsSketch(n)
             /\ n.kxp = s.kxp - weight(rc)
             /\ \A f \in Fields : f # "kxp" => n[f] = s[f]
BY DEF updateHIP, IsSketch, Fields

\* Throwing leaves everything else as it was.
LEMMA ThrowingKeeps ==
  ASSUME NEW s, IsSketch(s)
  PROVE  LET n == throwing(s)
         IN  IsSketch(n) /\ n.thrown /\ \A f \in Fields : f # "thrown" => n[f] = s[f]
BY DEF throwing, IsSketch, Fields

\* Moving the window leaves a sketch of the same size.
LEMMA ModifyKeeps ==
  ASSUME NEW s, IsSketch(s), NEW o
  PROVE  IsSketch(modifyOffset(s, o)) /\ modifyOffset(s, o).lgK = s.lgK
<1>1. ASSUME NEW M PROVE IsSketch(refreshKXP(s, M)) /\ refreshKXP(s, M).lgK = s.lgK
  BY RefreshKeeps DEF Fields
<1>2. ASSUME NEW n, IsSketch(n), NEW M
      PROVE  IsSketch(place(n, M, o)) /\ place(n, M, o).lgK = n.lgK
  BY <1>2, PlaceKeeps
<1>3. IsSketch(throwing(s)) /\ throwing(s).lgK = s.lgK
  BY ThrowingKeeps DEF Fields
<1>. QED BY <1>1, <1>2, <1>3 DEF modifyOffset

\* Setting a bit changes the table or the window, and nothing else.
LEMMA SetBitKeeps ==
  ASSUME NEW s, IsSketch(s), NEW rc
  PROVE  LET n == setBit(s, rc)
         IN  IsSketch(n) /\ \A f \in Fields : f \notin {"table", "window"} => n[f] = s[f]
BY DEF setBit, IsSketch, Fields

\* One more coupon is counted.
Counted(s) == [s EXCEPT !.numCoupons = @ + 1]

\* Counting a coupon changes the count alone.
LEMMA CountedKeeps ==
  ASSUME NEW s, IsSketch(s)
  PROVE  /\ IsSketch(Counted(s)) /\ Counted(s).numCoupons = s.numCoupons + 1
         /\ \A f \in Fields : f # "numCoupons" => Counted(s)[f] = s[f]
BY DEF Counted, IsSketch, Fields

\* A promotion leaves a sketch of the same size.
LEMMA PromoteKeeps ==
  ASSUME NEW s, IsSketch(s)
  PROVE  LET n == promoteSparseToWindowed(s)
         IN  IsSketch(n) /\ n.lgK = s.lgK
<1>1. IsSketch(throwing(s)) /\ throwing(s).lgK = s.lgK
  BY ThrowingKeeps DEF Fields
<1>2. ASSUME NEW near, NEW w
      PROVE  LET n == [s EXCEPT !.table = @ \ near, !.window = w]
             IN  IsSketch(n) /\ n.lgK = s.lgK
  BY DEF IsSketch, Fields
<1>. QED BY <1>1, <1>2 DEF promoteSparseToWindowed

\* An update of a sparse sketch leaves a sketch of the same size.
LEMMA UpdateSparseKeeps ==
  ASSUME NEW s, IsSketch(s), NEW rc
  PROVE  LET n == updateSparse(s, rc)
         IN  IsSketch(n) /\ n.lgK = s.lgK
<1>. DEFINE a == [s EXCEPT !.table = @ \union {rc}, !.numCoupons = @ + 1]
            n == updateHIP(a, rc)
<1>1. IsSketch(a) /\ a.lgK = s.lgK
  BY DEF IsSketch, Fields
<1>2. IsSketch(n) /\ n.lgK = s.lgK
  <2>. HIDE DEF a
  <2>. QED BY <1>1, HIPKeeps DEF Fields
<1>3. updateSparse(s, rc) \in {s, promoteSparseToWindowed(n), n}
  BY DEF updateSparse
<1>. HIDE DEF n
<1>. QED BY <1>2, <1>3, PromoteKeeps

\* An update of a windowed sketch leaves a sketch of the same size.
LEMMA UpdateWindowedKeeps ==
  ASSUME NEW s, IsSketch(s), NEW rc
  PROVE  LET n == updateWindowed(s, rc)
         IN  IsSketch(n) /\ n.lgK = s.lgK
<1>. DEFINE b == setBit(s, rc)
            c == updateHIP(Counted(b), rc)
            m == modifyOffset(c, s.windowOffset + 1)
<1>1. IsSketch(b) /\ b.lgK = s.lgK
  BY SetBitKeeps DEF Fields
<1>2. IsSketch(Counted(b)) /\ Counted(b).lgK = s.lgK
  BY <1>1, CountedKeeps DEF Fields
<1>3. IsSketch(c) /\ c.lgK = s.lgK
  BY <1>2, HIPKeeps DEF Fields
<1>4. updateWindowed(s, rc) \in {throwing(s), s, c, throwing(m), m}
  BY DEF updateWindowed, Counted
<1>. HIDE DEF c
<1>5. IsSketch(m) /\ m.lgK = s.lgK
  BY <1>3, ModifyKeeps
<1>. HIDE DEF m
<1>6. \A x \in {s, m} : IsSketch(throwing(x)) /\ throwing(x).lgK = x.lgK
  BY <1>5, ThrowingKeeps DEF Fields
<1>. QED BY <1>3, <1>4, <1>5, <1>6

\* Any update, at saturation too, leaves a sketch of the same size.
LEMMA UpdateKeeps ==
  ASSUME NEW s, IsSketch(s), NEW rc
  PROVE  LET n == fm85Update(s, rc)
         IN  IsSketch(n) /\ n.lgK = s.lgK
<1>. DEFINE r == [s EXCEPT !.thrown = FALSE]
            p == promoteEmptyToSparse(r)
<1>1. IsSketch(r) /\ r.lgK = s.lgK
  BY DEF IsSketch, Fields
<1>2. fm85Update(s, rc) \in {r, updateSparse(r, rc), updateSparse(p, rc), updateWindowed(r, rc)}
  BY DEF fm85Update, fm85RowColUpdate
<1>. HIDE DEF r
<1>3. IsSketch(p) /\ p.lgK = s.lgK
  BY <1>1 DEF promoteEmptyToSparse, IsSketch, Fields
<1>. HIDE DEF p
<1>. QED BY <1>1, <1>2, <1>3, UpdateSparseKeeps, UpdateWindowedKeeps

----------------------------------------------------------------------------
(* Sets of coupons. *)

\* There are finitely many coupons.
LEMMA CouponsFinite ==
  ASSUME NEW lgK \in LgKs, NEW M, M \subseteq Coupons(lgK)
  PROVE  IsFiniteSet(M) /\ Cardinality(M) \in Nat
<1>1. 2 ^ lgK \in Nat /\ Columns \in Nat
  BY Sizes, Fm85Assumption
<1>2. IsFiniteSet(Rows(lgK)) /\ IsFiniteSet(0 .. Columns - 1)
  BY <1>1, FS_Interval DEF Rows
<1>3. IsFiniteSet(Coupons(lgK))
  BY <1>2, FS_Product DEF Coupons
<1>. QED BY <1>3, FS_Subset, FS_CardinalityType

\* What is offered after a coupon is.
With(M, rc) == M \union {rc}

\* A coupon that is offered is one more, or was among them.
LEMMA OneMore ==
  ASSUME NEW lgK \in LgKs, NEW M, M \subseteq Coupons(lgK), NEW rc \in Coupons(lgK)
  PROVE  /\ With(M, rc) \subseteq Coupons(lgK)
         /\ rc \in M => With(M, rc) = M
         /\ rc \notin M => Cardinality(With(M, rc)) = Cardinality(M) + 1
         /\ Cardinality(M) \in Nat /\ Cardinality(With(M, rc)) \in Nat
         /\ Cardinality(M) <= Cardinality(With(M, rc))
<1>1. With(M, rc) \subseteq Coupons(lgK) /\ (rc \in M => With(M, rc) = M)
  BY DEF With
<1>2. IsFiniteSet(M) /\ Cardinality(M) \in Nat /\ Cardinality(With(M, rc)) \in Nat
  BY <1>1, CouponsFinite
<1>3. rc \notin M => Cardinality(With(M, rc)) = Cardinality(M) + 1
  BY <1>2, FS_AddElement DEF With
<1>. QED BY <1>1, <1>2, <1>3

\* A coupon is a row and a column.
LEMMA Pairs ==
  ASSUME NEW lgK, NEW rc
  PROVE  rc \in Coupons(lgK) <=> /\ rc = <<rc[1], rc[2]>>
                                 /\ rc[1] \in Rows(lgK) /\ rc[2] \in 0 .. Columns - 1
BY DEF Coupons

\* Setting the bit of a coupon makes the window and the surprises those of one more.
LEMMA SetBitStores ==
  ASSUME NEW s, IsSketch(s), s.lgK \in LgKs, s.windowOffset \in Nat,
         NEW M, NEW rc \in Coupons(s.lgK),
         s.window = WindowOf(s.lgK, M, s.windowOffset),
         s.table = SurprisesOf(s.lgK, M, s.windowOffset)
  PROVE  LET n == setBit(s, rc)
         IN  /\ n.window = WindowOf(s.lgK, With(M, rc), s.windowOffset)
             /\ n.table = SurprisesOf(s.lgK, With(M, rc), s.windowOffset)
<1>. DEFINE lgK == s.lgK
            o == s.windowOffset
            at == rc[2] - o
            N == With(M, rc)
<1>1. rc = <<rc[1], rc[2]>> /\ rc[1] \in Rows(lgK) /\ rc[2] \in 0 .. Columns - 1
  BY Pairs
<1>2. at \in Int /\ WindowWidth \in Nat \ {0} /\ rc[2] = at + o
  BY <1>1, Fm85Assumption
<1>3. /\ lgK \in LgKs /\ o \in Nat /\ rc \in Coupons(lgK)
      /\ s.window = WindowOf(lgK, M, o) /\ s.table = SurprisesOf(lgK, M, o)
  OBVIOUS
<1>4. \A x : x \in N <=> x \in M \/ x = rc
  BY DEF With
<1>5. /\ at < 0 => setBit(s, rc) = [s EXCEPT !.table = @ \ {rc}]
      /\ at \in 0 .. WindowWidth - 1 => setBit(s, rc) = [s EXCEPT !.window[rc[1]] = @ \union {at}]
      /\ at >= WindowWidth => setBit(s, rc) = [s EXCEPT !.table = @ \union {rc}]
  BY <1>2 DEF setBit
<1>. HIDE DEF lgK, o, N
<1>6. \A r, c : c \in Int => (<<r, c + o>> \in N <=> <<r, c + o>> \in M \/ (r = rc[1] /\ c = at))
  BY <1>1, <1>2, <1>3, <1>4
<1>. HIDE DEF at
<1>7. ASSUME at \notin 0 .. WindowWidth - 1 PROVE WindowOf(lgK, N, o) = WindowOf(lgK, M, o)
  <2>1. \A r \in Rows(lgK), c \in 0 .. WindowWidth - 1 : <<r, c + o>> \in N <=> <<r, c + o>> \in M
    BY <1>2, <1>6, <1>7
  <2>2. \A r \in Rows(lgK) : {c \in 0 .. WindowWidth - 1 : <<r, c + o>> \in N}
                             = {c \in 0 .. WindowWidth - 1 : <<r, c + o>> \in M}
    BY <2>1
  <2>. QED BY <2>2 DEF WindowOf
<1>8. CASE at < 0
  <2>1. rc[2] < o /\ ~ (rc[2] >= o + WindowWidth) /\ at \notin 0 .. WindowWidth - 1
    BY <1>1, <1>2, <1>3, <1>8
  <2>2. SurprisesOf(lgK, N, o) = SurprisesOf(lgK, M, o) \ {rc}
    BY <1>4, <2>1 DEF SurprisesOf
  <2>3. setBit(s, rc).table = SurprisesOf(lgK, N, o) /\ setBit(s, rc).window = s.window
    BY <1>3, <1>5, <1>8, <2>2 DEF IsSketch, Fields
  <2>. QED BY <1>3, <1>7, <2>1, <2>3 DEF lgK, o, N
<1>9. CASE at \in 0 .. WindowWidth - 1
  <2>1. ~ (rc[2] < o) /\ ~ (rc[2] >= o + WindowWidth)
    BY <1>1, <1>2, <1>3, <1>9
  <2>2. SurprisesOf(lgK, N, o) = SurprisesOf(lgK, M, o)
    BY <1>4, <2>1 DEF SurprisesOf
  <2>3. \A r \in Rows(lgK), c \in 0 .. WindowWidth - 1 :
          <<r, c + o>> \in N <=> <<r, c + o>> \in M \/ (r = rc[1] /\ c = at)
    BY <1>2, <1>6
  <2>4. \A r \in Rows(lgK) :
          {c \in 0 .. WindowWidth - 1 : <<r, c + o>> \in N}
          = IF r = rc[1] THEN {c \in 0 .. WindowWidth - 1 : <<r, c + o>> \in M} \union {at}
            ELSE {c \in 0 .. WindowWidth - 1 : <<r, c + o>> \in M}
    BY <1>9, <2>3
  <2>5. WindowOf(lgK, N, o) = [WindowOf(lgK, M, o) EXCEPT ![rc[1]] = @ \union {at}]
    BY <1>1, <2>4 DEF WindowOf
  <2>6. /\ setBit(s, rc).table = s.table
        /\ setBit(s, rc).window = [s.window EXCEPT ![rc[1]] = @ \union {at}]
    BY <1>5, <1>9 DEF IsSketch, Fields
  <2>. QED BY <1>3, <2>2, <2>5, <2>6 DEF lgK, o, N
<1>10. CASE at >= WindowWidth
  <2>1. ~ (rc[2] < o) /\ rc[2] >= o + WindowWidth /\ at \notin 0 .. WindowWidth - 1
    BY <1>1, <1>2, <1>3, <1>10
  <2>2. SurprisesOf(lgK, N, o) = SurprisesOf(lgK, M, o) \union {rc}
    BY <1>3, <1>4, <2>1 DEF SurprisesOf
  <2>3. setBit(s, rc).table = SurprisesOf(lgK, N, o) /\ setBit(s, rc).window = s.window
    BY <1>3, <1>5, <1>10, <2>2 DEF IsSketch, Fields
  <2>. QED BY <1>3, <1>7, <2>1, <2>3 DEF lgK, o, N
<1>. QED BY <1>2, <1>8, <1>9, <1>10

(* A matrix is what its window and surprises say. *)
LEMMA MatrixDecoded ==
  ASSUME NEW s, s.lgK \in LgKs, s.windowOffset \in 0 .. MaxOffset, s.numCoupons # 0,
         NEW M, M \subseteq Coupons(s.lgK),
         s.window = WindowOf(s.lgK, M, s.windowOffset), s.window # NULL,
         s.table = SurprisesOf(s.lgK, M, s.windowOffset)
  PROVE  bitMatrixOfSketch(s) = M
<1>. DEFINE lgK == s.lgK
            o == s.windowOffset
            early == Rows(lgK) \X (0 .. o - 1)
            inWindow == UNION {{<<r, c + o>> : c \in s.window[r]} : r \in Rows(lgK)}
            default == early \union inWindow
<1>1. bitMatrixOfSketch(s) = (default \ s.table) \union (s.table \ default)
  BY DEF bitMatrixOfSketch
<1>2. /\ o \in Nat /\ o + WindowWidth <= Columns /\ WindowWidth \in Nat \ {0} /\ Columns \in Nat
      /\ M \subseteq Coupons(lgK)
      /\ s.table = SurprisesOf(lgK, M, o) /\ s.window = WindowOf(lgK, M, o)
  BY Fm85Assumption DEF MaxOffset
<1>3. ASSUME NEW x
      PROVE  x \in inWindow <=> x \in M /\ x[2] \in o .. o + WindowWidth - 1
  <2>1. x \in inWindow <=> \E r \in Rows(lgK) : \E c \in s.window[r] : x = <<r, c + o>>
    OBVIOUS
  <2>. HIDE DEF inWindow, lgK, o
  <2>2. ASSUME NEW r \in Rows(lgK)
        PROVE  s.window[r] = {c \in 0 .. WindowWidth - 1 : <<r, c + o>> \in M}
    BY <1>2 DEF WindowOf
  <2>3. x \in inWindow <=> \E r \in Rows(lgK) : \E c \in 0 .. WindowWidth - 1 :
                             x = <<r, c + o>> /\ <<r, c + o>> \in M
    BY <2>1, <2>2
  <2>4. ASSUME x \in M, x[2] \in o .. o + WindowWidth - 1 PROVE x \in inWindow
    <3>1. x = <<x[1], x[2]>> /\ x[1] \in Rows(lgK) /\ x[2] \in Int
      BY <1>2, <2>4, Pairs
    <3>2. x[2] - o \in 0 .. WindowWidth - 1 /\ (x[2] - o) + o = x[2]
      BY <1>2, <2>4, <3>1
    <3>. QED BY <2>3, <2>4, <3>1, <3>2
  <2>5. ASSUME x \in inWindow PROVE x \in M /\ x[2] \in o .. o + WindowWidth - 1
    <3>1. PICK r \in Rows(lgK), c \in 0 .. WindowWidth - 1 : x = <<r, c + o>> /\ <<r, c + o>> \in M
      BY <2>3, <2>5
    <3>2. x[2] = c + o
      BY <3>1
    <3>. QED BY <1>2, <3>1, <3>2
  <2>. QED BY <2>4, <2>5
<1>4. ASSUME NEW x
      PROVE  x \in early <=> x \in Coupons(lgK) /\ x[2] < o
  <2>1. 0 .. o - 1 \subseteq 0 .. Columns - 1
    BY <1>2
  <2>. QED BY <1>2, <2>1 DEF Coupons
<1>. HIDE DEF early, inWindow, lgK, o
<1>5. ASSUME NEW x
      PROVE  x \in SurprisesOf(lgK, M, o) <=>
               x \in Coupons(lgK) /\ \/ x[2] < o /\ x \notin M
                                     \/ x[2] >= o + WindowWidth /\ x \in M
  BY DEF SurprisesOf
<1>6. ASSUME NEW x PROVE x \in default <=> \/ x \in Coupons(lgK) /\ x[2] < o
                                           \/ x \in M /\ x[2] \in o .. o + WindowWidth - 1
  BY <1>3, <1>4
<1>. HIDE DEF default
<1>7. ASSUME NEW x
      PROVE  (x \in default <=> x \notin SurprisesOf(lgK, M, o)) <=> x \in M
  <2>1. x \in M => x \in Coupons(lgK)
    BY <1>2
  <2>2. x \in Coupons(lgK) => x[2] \in Int
    BY Pairs
  <2>. QED BY <1>2, <1>5, <1>6, <2>1, <2>2
<1>. QED BY <1>1, <1>2, <1>7

(* A non-empty set of naturals has a least element. *)
LEMMA LeastNatural ==
  ASSUME NEW T, T \subseteq Nat, T # {}
  PROVE  \E x \in T : \A y \in T : x <= y
<1>1. PICK x \in T : \A y \in T : ~ (<<y, x>> \in OpToRel(<, Nat))
  BY NatLessThanWellFounded, WFMin
<1>2. \A y \in T : ~ (y < x)
  BY <1>1 DEF OpToRel
<1>. QED BY <1>2

\* SetMin is the least element.
LEMMA SetMinIsLeast ==
  ASSUME NEW T, T \subseteq Nat, T # {}
  PROVE  SetMin(T) \in T /\ \A y \in T : SetMin(T) <= y
BY LeastNatural DEF SetMin

\* A row is full up to the column that the placement of the window computes.
LEMMA FirstColumnFull ==
  ASSUME NEW lgK \in LgKs, NEW M, NEW o \in Nat
  PROVE  /\ FirstColumn(lgK, M, o) \in Nat
         /\ \A rc \in Coupons(lgK) : rc[2] < FirstColumn(lgK, M, o) => rc \in M
<1>. DEFINE T == {rc[2] : rc \in SurprisesOf(lgK, M, o)} \union {Columns}
            first == FirstSurprise(lgK, M, o)
            U == {first, o}
<1>1. \A rc \in SurprisesOf(lgK, M, o) : rc[2] \in Nat
  BY Pairs DEF SurprisesOf
<1>2. T \subseteq Nat /\ T # {}
  BY <1>1, Fm85Assumption
<1>3. first \in T /\ \A y \in T : first <= y
  <2>1. first = SetMin(T)
    BY DEF FirstSurprise
  <2>. HIDE DEF T, first
  <2>. QED BY <1>2, <2>1, SetMinIsLeast
<1>4. first \in Nat /\ \A rc \in SurprisesOf(lgK, M, o) : first <= rc[2]
  BY <1>2, <1>3
<1>5. FirstColumn(lgK, M, o) \in U /\ \A y \in U : FirstColumn(lgK, M, o) <= y
  <2>1. FirstColumn(lgK, M, o) = SetMin(U)
    BY DEF FirstColumn
  <2>2. U \subseteq Nat /\ U # {}
    BY <1>4
  <2>. HIDE DEF U
  <2>. QED BY <2>1, <2>2, SetMinIsLeast
<1>. HIDE DEF first
<1>6. /\ FirstColumn(lgK, M, o) \in Nat
      /\ FirstColumn(lgK, M, o) <= first /\ FirstColumn(lgK, M, o) <= o
  BY <1>4, <1>5
<1>7. ASSUME NEW rc \in Coupons(lgK), rc[2] < FirstColumn(lgK, M, o) PROVE rc \in M
  <2>1. rc[2] \in Nat /\ rc[2] < o /\ rc[2] < first
    BY <1>4, <1>6, <1>7, Pairs
  <2>2. rc \notin SurprisesOf(lgK, M, o)
    BY <1>4, <2>1
  <2>. QED BY <2>1, <2>2 DEF SurprisesOf
<1>. QED BY <1>6, <1>7

----------------------------------------------------------------------------
(* The weight of coupons. *)

\* The weights of coupons as FoldTheorems adds them.
weighing(p, q, rc, acc) == weight(rc) + acc
chosen(S)               == CHOOSE rc \in S : TRUE
anything(p, q, n, acc)  == TRUE

Weights == INSTANCE FoldTheorems WITH step <- weighing, choose <- chosen, Good <- anything

\* The weight of a set of coupons is a sum of FoldTheorems.
LEMMA WeightIsSum == \A M : Weight(M) = Weights!Sum(0, M)
BY DEF Weight, Weights!Sum, Weights!Fold, MapThenSumSet, MapThenFoldSet, Weights!MapThenFoldSet,
       weighing, chosen

\* The sums choose as FoldTheorems wants it.
LEMMA WeightsChoose == Weights!ChoosesSome
BY DEF Weights!ChoosesSome, Weights!Chosen, chosen

\* What a coupon adds is its weight.
LEMMA WeightIsValue ==
  ASSUME NEW rc, weight(rc) \in Int
  PROVE  Weights!val(0, rc) = weight(rc)
BY DEF Weights!val, weighing

\* The instance of FoldTheorems has a copy of its own of IsFiniteSet.
LEMMA SameFinite == \A M : IsFiniteSet(M) = Weights!IsFiniteSet(M)
BY DEF IsFiniteSet, Weights!IsFiniteSet

\* The powers of two are what they should be.
LEMMA Power ==
  ASSUME NEW lgK \in LgKs, NEW n \in 0 .. lgK + Columns
  PROVE  2 ^ n \in Nat \ {0} /\ 2 ^ (n + 1) = 2 * 2 ^ n
BY PowersAssumption

\* The weight of a coupon is an integer.
LEMMA WeightType ==
  ASSUME NEW lgK \in LgKs, NEW rc \in Coupons(lgK)
  PROVE  weight(rc) \in Int
<1>1. lgK \in Nat /\ Columns \in Nat /\ rc[2] \in 0 .. Columns - 1
  BY Sizes, Pairs, Fm85Assumption
<1>2. Columns - 1 - rc[2] \in 0 .. lgK + Columns
  BY <1>1
<1>. QED BY <1>2, Power DEF weight

\* The weight of a set of coupons is an integer.
LEMMA WeightsAre ==
  ASSUME NEW lgK \in LgKs, NEW M, M \subseteq Coupons(lgK)
  PROVE  IsFiniteSet(M) /\ Weights!Ints(0, M) /\ Weight(M) \in Int
<1>1. IsFiniteSet(M) /\ Weights!IsFiniteSet(M)
  BY CouponsFinite, SameFinite
<1>2. Weights!Ints(0, M)
  <2>1. \A rc \in M : weight(rc) \in Int
    BY WeightType
  <2>. QED BY <2>1, WeightIsValue DEF Weights!Ints, weighing
<1>. QED BY <1>1, <1>2, WeightIsSum, WeightsChoose, Weights!SumType DEF Weights!SumIsInt

\* One more coupon weighs its weight more.
LEMMA WeightOneMore ==
  ASSUME NEW lgK \in LgKs, NEW M, M \subseteq Coupons(lgK),
         NEW rc \in Coupons(lgK), rc \notin M
  PROVE  Weight(With(M, rc)) = Weight(M) + weight(rc)
<1>1. Weights!IsFiniteSet(M) /\ weight(rc) \in Int
  BY WeightsAre, WeightType, SameFinite
<1>2. Weights!Ints(0, Weights!With(M, rc))
  <2>1. Weights!With(M, rc) \subseteq Coupons(lgK)
    BY DEF Weights!With
  <2>. QED BY <2>1, WeightsAre
<1>3. Weights!Sum(0, Weights!With(M, rc)) = Weights!Sum(0, M) + Weights!val(0, rc)
  BY <1>1, <1>2, WeightsChoose, Weights!SumWith
<1>. QED BY <1>1, <1>3, WeightIsSum, WeightIsValue DEF Weights!With, With

\* Coupons that are apart weigh the sum of their weights.
LEMMA WeightUnion ==
  ASSUME NEW lgK \in LgKs, NEW M, NEW N, M \subseteq Coupons(lgK), N \subseteq Coupons(lgK),
         \A rc \in M : rc \notin N
  PROVE  Weight(M \union N) = Weight(M) + Weight(N)
<1>1. /\ Weights!IsFiniteSet(M) /\ Weights!Ints(0, M)
      /\ Weights!IsFiniteSet(N) /\ Weights!Ints(0, N)
  BY WeightsAre, SameFinite
<1>2. Weights!Sum(0, Weights!Plus(M, N)) = Weights!Sum(0, M) + Weights!Sum(0, N)
  BY <1>1, WeightsChoose, Weights!SumUnion DEF Weights!SumsUnite
<1>. QED BY <1>2, WeightIsSum DEF Weights!Plus

\* The induction hypothesis of PowerOfSum.
PowersAdd(n) == \A lgK \in LgKs : n <= Columns => 2 ^ (lgK + n) = 2 ^ lgK * 2 ^ n

\* 2 ^ (lgK + n) is 2 ^ lgK times 2 ^ n.
LEMMA PowerOfSum == \A n \in Nat : PowersAdd(n)
<1>1. PowersAdd(0)
  <2>1. ASSUME NEW lgK \in LgKs PROVE 2 ^ (lgK + 0) = 2 ^ lgK * 2 ^ 0
    <3>1. lgK + 0 = lgK /\ 2 ^ 0 = 1 /\ 2 ^ lgK \in Nat
      BY Sizes
    <3>. QED BY <3>1
  <2>. QED BY <2>1 DEF PowersAdd
<1>2. ASSUME NEW n \in Nat, PowersAdd(n) PROVE PowersAdd(n + 1)
  <2>. SUFFICES ASSUME NEW lgK \in LgKs, n + 1 <= Columns
                PROVE  2 ^ (lgK + (n + 1)) = 2 ^ lgK * 2 ^ (n + 1)
    BY DEF PowersAdd
  <2>1. lgK \in Nat /\ Columns \in Nat
    BY Sizes, Fm85Assumption
  <2>2. n \in 0 .. lgK + Columns /\ lgK + n \in 0 .. lgK + Columns /\ lgK \in 0 .. lgK + Columns
    BY <2>1
  <2>3. 2 ^ n \in Nat /\ 2 ^ lgK \in Nat /\ 2 ^ (n + 1) = 2 * 2 ^ n
    BY <2>2, Power
  <2>4. 2 ^ ((lgK + n) + 1) = 2 * 2 ^ (lgK + n)
    BY <2>2, Power
  <2>5. 2 ^ (lgK + n) = 2 ^ lgK * 2 ^ n
    BY <1>2, <2>1 DEF PowersAdd
  <2>6. lgK + (n + 1) = (lgK + n) + 1
    BY <2>1
  <2>. DEFINE a == 2 ^ lgK
              b == 2 ^ n
  <2>7. 2 * (a * b) = a * (2 * b)
    <3>. HIDE DEF a, b
    <3>1. a \in Nat /\ b \in Nat
      BY <2>3 DEF a, b
    <3>. QED BY <3>1
  <2>. QED BY <2>3, <2>4, <2>5, <2>6, <2>7
<1>3. \A n \in Nat : PowersAdd(n) => PowersAdd(n + 1)
  BY <1>2
<1>. DEFINE T == {n \in Nat : PowersAdd(n)}
<1>4. 0 \in T /\ \A n \in Nat : n \in T => n + 1 \in T
  BY <1>1, <1>3
<1>5. \A n \in Nat : n \in T
  <2>. HIDE DEF T
  <2>. QED BY <1>4, Weights!OverNaturals
<1>. QED BY <1>5

\* The coupons of the first n columns.
FirstColumns(lgK, n) == Rows(lgK) \X (0 .. n - 1)

\* The induction hypothesis of WeightOfColumns.
ColumnsWeigh(n) ==
  \A lgK \in LgKs : n <= Columns =>
    Weight(FirstColumns(lgK, n)) = 2 ^ lgK * (2 ^ Columns - 2 ^ (Columns - n))

\* The weight of the first n columns, by induction on n.
LEMMA WeightOfColumns == \A n \in Nat : ColumnsWeigh(n)
<1>1. ColumnsWeigh(0)
  <2>. SUFFICES ASSUME NEW lgK \in LgKs
                PROVE  Weight(FirstColumns(lgK, 0)) = 2 ^ lgK * (2 ^ Columns - 2 ^ (Columns - 0))
    BY DEF ColumnsWeigh
  <2>1. Columns \in Nat /\ 2 ^ Columns \in Nat /\ 2 ^ lgK \in Nat /\ Columns - 0 = Columns
    <3>1. lgK \in Nat /\ Columns \in Nat
      BY Sizes, Fm85Assumption
    <3>2. Columns \in 0 .. lgK + Columns
      BY <3>1
    <3>. QED BY <3>1, <3>2, Power, Sizes
  <2>2. \A x : x \notin FirstColumns(lgK, 0)
    BY DEF FirstColumns
  <2>3. Weight(FirstColumns(lgK, 0)) = 0
    BY <2>2, WeightIsSum, WeightsChoose, Weights!SumEmpty
  <2>4. 2 ^ Columns - 2 ^ (Columns - 0) = 0
    BY <2>1
  <2>. QED BY <2>1, <2>3, <2>4
<1>2. ASSUME NEW n \in Nat, ColumnsWeigh(n) PROVE ColumnsWeigh(n + 1)
  <2>. SUFFICES ASSUME NEW lgK \in LgKs, n + 1 <= Columns
                PROVE  Weight(FirstColumns(lgK, n + 1))
                       = 2 ^ lgK * (2 ^ Columns - 2 ^ (Columns - (n + 1)))
    BY DEF ColumnsWeigh
  <2>. DEFINE A == FirstColumns(lgK, n)
              B == Rows(lgK) \X {n}
              w == 2 ^ (Columns - 1 - n)
              K == 2 ^ lgK
              C == 2 ^ Columns
  <2>1. lgK \in Nat /\ Columns \in Nat /\ K \in Nat \ {0}
    BY Sizes, Fm85Assumption
  <2>2. Columns - 1 - n \in 0 .. lgK + Columns /\ Columns \in 0 .. lgK + Columns
        /\ (Columns - 1 - n) + 1 = Columns - n /\ Columns - (n + 1) = Columns - 1 - n
    BY <2>1
  <2>3. w \in Nat /\ C \in Nat /\ 2 ^ (Columns - n) = 2 * w
    BY <2>2, Power
  <2>4. FirstColumns(lgK, n + 1) = A \union B
    <3>1. 0 .. (n + 1) - 1 = (0 .. n - 1) \union {n}
      OBVIOUS
    <3>. QED BY <3>1 DEF FirstColumns
  <2>5. A \subseteq Coupons(lgK) /\ B \subseteq Coupons(lgK) /\ \A rc \in A : rc \notin B
    <3>1. n \in 0 .. Columns - 1 /\ n \notin 0 .. n - 1
          /\ 0 .. n - 1 \subseteq 0 .. Columns - 1
      BY <2>1
    <3>. QED BY <3>1 DEF FirstColumns, Coupons
  <2>6. Weight(A \union B) = Weight(A) + Weight(B)
    <3>. HIDE DEF A, B
    <3>. QED BY <2>5, WeightUnion
  <2>7. Weight(B) = w * K
    <3>1. IsFiniteSet(Rows(lgK)) /\ Cardinality(Rows(lgK)) = K
      BY <2>1, FS_Interval DEF Rows
    <3>2. IsFiniteSet({n}) /\ Cardinality({n}) = 1
      BY FS_Singleton
    <3>3. IsFiniteSet(B) /\ Cardinality(B) = K * 1
      BY <3>1, <3>2, FS_Product
    <3>4. \A rc \in B : weight(rc) = w
      BY DEF weight
    <3>. HIDE DEF B, w, K
    <3>5. Weights!IsFiniteSet(B) /\ Weights!Cardinality(B) = Cardinality(B)
      BY <3>3 DEF IsFiniteSet, Weights!IsFiniteSet, Cardinality, Weights!Cardinality
    <3>6. Weights!Sum(0, B) = w * Weights!Cardinality(B)
      <4>1. \A rc \in B : Weights!val(0, rc) = w
        BY <2>3, <3>4, WeightIsValue
      <4>2. Weights!Ints(0, B)
        BY <2>5, WeightsAre
      <4>. QED BY <2>3, <3>5, <4>1, <4>2, WeightsChoose, Weights!SumConstant DEF Weights!SumIsProduct
    <3>. QED BY <2>1, <3>3, <3>5, <3>6, WeightIsSum
  <2>8. Weight(A) = K * (C - 2 * w)
    <3>1. n <= Columns
      BY <2>1
    <3>. QED BY <1>2, <2>3, <3>1 DEF ColumnsWeigh
  <2>9. K * (C - 2 * w) + w * K = K * (C - w)
    <3>. HIDE DEF K, C, w
    <3>. QED BY <2>1, <2>3
  <2>. QED BY <2>2, <2>4, <2>6, <2>7, <2>8, <2>9
<1>3. \A n \in Nat : ColumnsWeigh(n) => ColumnsWeigh(n + 1)
  BY <1>2
<1>. DEFINE T == {n \in Nat : ColumnsWeigh(n)}
<1>4. 0 \in T /\ \A n \in Nat : n \in T => n + 1 \in T
  BY <1>1, <1>3
<1>5. \A n \in Nat : n \in T
  <2>. HIDE DEF T
  <2>. QED BY <1>4, Weights!OverNaturals
<1>. QED BY <1>5

\* The weight of all coupons: the initial kxp, but for the rows that no column adds.
LEMMA WeightOfAll ==
  ASSUME NEW lgK \in LgKs
  PROVE  /\ 2 ^ (lgK + Columns) \in Nat
         /\ Weight(Coupons(lgK)) = 2 ^ (lgK + Columns) - 2 ^ lgK
<1>. DEFINE K == 2 ^ lgK
            C == 2 ^ Columns
<1>1. lgK \in Nat /\ Columns \in Nat /\ K \in Nat /\ Columns <= Columns
  BY Sizes, Fm85Assumption
<1>2. Columns \in 0 .. lgK + Columns /\ lgK + Columns \in 0 .. lgK + Columns
  BY <1>1
<1>3. C \in Nat /\ 2 ^ (lgK + Columns) \in Nat
  BY <1>2, Power
<1>4. Weight(FirstColumns(lgK, Columns)) = K * (C - 2 ^ (Columns - Columns))
  BY <1>1, WeightOfColumns DEF ColumnsWeigh
<1>5. Columns - Columns = 0 /\ 2 ^ 0 = 1
  BY <1>1
<1>6. 2 ^ (lgK + Columns) = K * C
  BY <1>1, PowerOfSum DEF PowersAdd
<1>7. K * (C - 1) = K * C - K
  <2>. HIDE DEF K, C
  <2>. QED BY <1>1, <1>3
<1>8. FirstColumns(lgK, Columns) = Coupons(lgK)
  BY DEF FirstColumns, Coupons
<1>. QED BY <1>3, <1>4, <1>5, <1>6, <1>7, <1>8

(* kxp summed afresh over the zeros of a matrix. *)
LEMMA WeightOfZeros ==
  ASSUME NEW lgK \in LgKs, NEW M, M \subseteq Coupons(lgK)
  PROVE  Weight(Coupons(lgK) \ M) = 2 ^ (lgK + Columns) - 2 ^ lgK - Weight(M)
<1>. DEFINE Z == Coupons(lgK) \ M
<1>1. Z \subseteq Coupons(lgK) /\ (\A rc \in Z : rc \notin M) /\ Z \union M = Coupons(lgK)
  OBVIOUS
<1>. HIDE DEF Z
<1>2. Weight(Z \union M) = Weight(Z) + Weight(M)
  BY <1>1, WeightUnion
<1>3. Weight(Z) \in Int /\ Weight(M) \in Int
  BY <1>1, WeightsAre
<1>4. 2 ^ lgK \in Nat /\ 2 ^ (lgK + Columns) \in Nat
  BY Sizes, WeightOfAll
<1>5. Weight(Z) + Weight(M) = 2 ^ (lgK + Columns) - 2 ^ lgK
  BY <1>1, <1>2, WeightOfAll
<1>6. Weight(Z) = 2 ^ (lgK + Columns) - 2 ^ lgK - Weight(M)
  BY <1>3, <1>4, <1>5
<1>. QED BY <1>6 DEF Z

\* What kxp is for the coupons M while the window is at the offset o.
KxpOf(lgK, M, o) ==
  2 ^ (lgK + Columns) - Weight(M) - (IF o < RefreshEvery THEN 0 ELSE 2 ^ lgK)

\* One more coupon takes its weight from kxp.
LEMMA KxpOneMore ==
  ASSUME NEW lgK \in LgKs, NEW M, M \subseteq Coupons(lgK),
         NEW rc \in Coupons(lgK), rc \notin M, NEW o
  PROVE  KxpOf(lgK, With(M, rc), o) = KxpOf(lgK, M, o) - weight(rc)
<1>1. /\ 2 ^ lgK \in Nat /\ 2 ^ (lgK + Columns) \in Nat
      /\ Weight(M) \in Int /\ weight(rc) \in Int
  BY Sizes, WeightOfAll, WeightsAre, WeightType
<1>2. Weight(With(M, rc)) = Weight(M) + weight(rc)
  BY WeightOneMore
<1>. QED BY <1>1, <1>2 DEF KxpOf

\* A shift that does not refresh kxp leaves the last column out as it was; one
\* that does leaves it out.
LEMMA KxpSlides ==
  ASSUME NEW lgK \in LgKs, NEW M, M \subseteq Coupons(lgK), NEW o \in Nat
  PROVE  /\ (o + 1) % RefreshEvery # 0 => KxpOf(lgK, M, o + 1) = KxpOf(lgK, M, o)
         /\ (o + 1) % RefreshEvery = 0 => KxpOf(lgK, M, o + 1) = ZerosWeigh(lgK, M)
<1>1. RefreshEvery \in Nat \ {0}
  BY Fm85Assumption
<1>2. ASSUME (o + 1) % RefreshEvery # 0 PROVE o < RefreshEvery <=> o + 1 < RefreshEvery
  <2>1. o + 1 # RefreshEvery
    BY <1>1, <1>2
  <2>. QED BY <1>1, <2>1
<1>3. ASSUME (o + 1) % RefreshEvery = 0 PROVE ~ (o + 1 < RefreshEvery)
  BY <1>1, <1>3
<1>4. /\ 2 ^ lgK \in Nat /\ 2 ^ (lgK + Columns) \in Nat /\ Weight(M) \in Int
      /\ Weight(Coupons(lgK) \ M) = 2 ^ (lgK + Columns) - 2 ^ lgK - Weight(M)
  BY Sizes, WeightOfAll, WeightsAre, WeightOfZeros
<1>. QED BY <1>2, <1>3, <1>4 DEF KxpOf, ZerosWeigh

\* Every field of the sketch s is the one that the set M of coupons says.
Holds(s, M) ==
  /\ s.thrown = FALSE
  /\ s.kxp = KxpOf(s.lgK, M, s.windowOffset)
  /\ s.numCoupons = Cardinality(M)
  /\ s.windowOffset = determineCorrectOffset(s.lgK, s.numCoupons)
  /\ Full(s, M)
  /\ Stores(s, M)

\* The inductive invariant.  MatrixExact alone is not inductive: the next update also
\* reads where the window is (WindowInPlace), which columns may be skipped (Full), and
\* which of window and table says what of a column (Stores).
IInv ==
  /\ IsSketch(sketch)
  /\ sketch.lgK \in LgKs
  /\ offered \subseteq Coupons(sketch.lgK)
  /\ ~ Saturated => Holds(sketch, offered)

----------------------------------------------------------------------------
(* Updates. *)

\* The sketch of lgK that c coupons saturate.
BelowLast(lgK, c) == 32 * c < (SlideStart + 32 + 32 * MaxOffset) * 2 ^ lgK

\* A sketch without a window has fewer coupons than a window takes.
LEMMA SparseIs ==
  ASSUME NEW s, s.lgK \in LgKs, s.numCoupons \in Nat, ~ Windowed(s)
  PROVE  32 * s.numCoupons < SparseLimit * 2 ^ s.lgK + 32
<1>1. SparseLimit * 2 ^ s.lgK \in Int
  BY Sizes, Fm85Assumption
<1>. QED BY <1>1 DEF Windowed

\* The facts about a windowed sketch that holds the coupons M.
LEMMA WindowedFacts ==
  ASSUME NEW s, s.lgK \in LgKs, NEW M, M \subseteq Coupons(s.lgK),
         Holds(s, M), Windowed(s), BelowLast(s.lgK, Cardinality(M))
  PROVE  /\ s.numCoupons \in Nat \ {0}
         /\ s.windowOffset \in 0 .. MaxOffset
         /\ ~ slideDue(s)
         /\ s.window = WindowOf(s.lgK, M, s.windowOffset) /\ s.window # NULL
         /\ s.table = SurprisesOf(s.lgK, M, s.windowOffset)
         /\ s.windowOffset # 0 => (SlideStart + 32 * s.windowOffset) * 2 ^ s.lgK <= 32 * s.numCoupons
<1>. DEFINE K == 2 ^ s.lgK
            o == s.windowOffset
            c == s.numCoupons
<1>1. /\ K \in Nat \ {0} /\ SlideStart \in Nat \ {0} /\ SparseLimit \in Nat \ {0}
      /\ MaxOffset \in Nat
  BY Sizes, Fm85Assumption DEF MaxOffset
<1>2. c = Cardinality(M) /\ c \in Nat
  BY CouponsFinite DEF Holds
<1>3. c # 0
  <2>1. 32 * c >= SparseLimit * K
    BY DEF Windowed
  <2>. HIDE DEF K, c
  <2>2. SparseLimit * K \in Int /\ 0 < SparseLimit * K
    BY <1>1, Times
  <2>. QED BY <1>2, <2>1, <2>2
<1>4. o = determineCorrectOffset(s.lgK, c)
  BY DEF Holds
<1>5. /\ o \in Nat
      /\ 32 * c < (SlideStart + 32 + 32 * o) * K
      /\ o # 0 => (SlideStart + 32 * o) * K <= 32 * c
  BY <1>2, <1>4, OffsetBounds
<1>6. o <= MaxOffset
  <2>1. CASE o = 0
    BY <1>1, <2>1
  <2>2. CASE o # 0
    <3>1. 32 * c < (SlideStart + 32 + 32 * MaxOffset) * K
      BY <1>2 DEF BelowLast
    <3>2. SlideStart + 32 * o \in Int /\ SlideStart + 32 + 32 * MaxOffset \in Int
      BY <1>1, <1>5
    <3>. HIDE DEF K, o, c
    <3>3. (SlideStart + 32 * o) * K \in Int /\ (SlideStart + 32 + 32 * MaxOffset) * K \in Int
      BY <1>1, <3>2, Times
    <3>4. (SlideStart + 32 * o) * K < (SlideStart + 32 + 32 * MaxOffset) * K
      BY <1>2, <1>5, <2>2, <3>1, <3>3
    <3>5. SlideStart + 32 * o < SlideStart + 32 + 32 * MaxOffset
      BY <1>1, <3>2, <3>4, Times
    <3>. QED BY <1>1, <1>5, <3>5
  <2>. QED BY <2>1, <2>2
<1>7. ~ slideDue(s)
  <2>1. (SlideStart + 32 + 32 * o) * K \in Int
    BY <1>1, <1>5
  <2>. QED BY <1>2, <1>5, <2>1 DEF slideDue
<1>8. s.window = WindowOf(s.lgK, M, o) /\ s.table = SurprisesOf(s.lgK, M, o)
  BY DEF Holds, Stores
<1>9. WindowOf(s.lgK, M, o) \in [Rows(s.lgK) -> SUBSET (0 .. WindowWidth - 1)]
  BY DEF WindowOf
<1>10. s.window # NULL
  BY <1>8, <1>9, NullAssumption
<1>. QED BY <1>2, <1>3, <1>5, <1>6, <1>7, <1>8, <1>10

\* The window is moved by one column.
LEMMA SlideHolds ==
  ASSUME NEW s, IsSketch(s), s.lgK \in LgKs, s.thrown = FALSE,
         NEW N, N \subseteq Coupons(s.lgK), s.numCoupons = Cardinality(N), N # {},
         NEW o \in 0 .. MaxOffset, s.windowOffset = o, o + 1 <= MaxOffset,
         s.window = WindowOf(s.lgK, N, o), s.table = SurprisesOf(s.lgK, N, o),
         Windowed(s), o + 1 = determineCorrectOffset(s.lgK, s.numCoupons),
         s.kxp = KxpOf(s.lgK, N, o)
  PROVE  Holds(modifyOffset(s, o + 1), N) /\ modifyOffset(s, o + 1).windowOffset = o + 1
<1>. DEFINE m == modifyOffset(s, o + 1)
            n == IF (o + 1) % RefreshEvery = 0 THEN refreshKXP(s, N) ELSE s
<1>1. s.numCoupons # 0
  BY CouponsFinite, FS_EmptySet
<1>2. s.window # NULL
  <2>1. WindowOf(s.lgK, N, o) \in [Rows(s.lgK) -> SUBSET (0 .. WindowWidth - 1)]
    BY DEF WindowOf
  <2>. QED BY <2>1, NullAssumption
<1>3. bitMatrixOfSketch(s) = N
  BY <1>1, <1>2, MatrixDecoded
<1>4. ~ (o + 1 > MaxOffset)
  BY Fm85Assumption DEF MaxOffset
<1>5. m = place(n, N, o + 1)
  BY <1>3, <1>4 DEF modifyOffset
<1>6. /\ IsSketch(n)
      /\ n.lgK = s.lgK /\ n.numCoupons = s.numCoupons /\ n.thrown = s.thrown
      /\ n.kxp = KxpOf(s.lgK, N, o + 1)
  <2>1. CASE (o + 1) % RefreshEvery = 0
    BY <2>1, KxpSlides, RefreshKeeps DEF Fields
  <2>2. CASE (o + 1) % RefreshEvery # 0
    BY <2>2, KxpSlides
  <2>. QED BY <2>1, <2>2
<1>. HIDE DEF n, m
<1>7. /\ m.lgK = s.lgK /\ m.numCoupons = s.numCoupons /\ m.thrown = s.thrown
      /\ m.windowOffset = o + 1 /\ m.kxp = KxpOf(s.lgK, N, o + 1)
      /\ m.window = WindowOf(s.lgK, N, o + 1)
      /\ m.table = SurprisesOf(s.lgK, N, o + 1)
      /\ m.firstInterestingColumn = FirstColumn(s.lgK, N, o + 1)
  BY <1>5, <1>6, PlaceKeeps
<1>8. Full(m, N)
  <2>1. o + 1 \in Nat
    OBVIOUS
  <2>. QED BY <1>7, <2>1, FirstColumnFull DEF Full
<1>9. Windowed(m)
  BY <1>7 DEF Windowed
<1>10. Stores(m, N)
  BY <1>7, <1>9 DEF Stores
<1>. QED BY <1>7, <1>8, <1>10 DEF Holds, m

\* An update of a windowed sketch: fm85.cpp updates the table or the window, counts,
\* updates the HIP sum and then moves the window when the count calls for it.
LEMMA UpdateWindowedHolds ==
  ASSUME NEW s, IsSketch(s), s.lgK \in LgKs, NEW M, M \subseteq Coupons(s.lgK),
         NEW rc \in Coupons(s.lgK), Holds(s, M), Windowed(s),
         BelowLast(s.lgK, Cardinality(With(M, rc)))
  PROVE  Holds(updateWindowed(s, rc), With(M, rc))
<1>. DEFINE N == With(M, rc)
            K == 2 ^ s.lgK
            o == s.windowOffset
            b == setBit(s, rc)
            c == updateHIP(Counted(b), rc)
            m == modifyOffset(c, o + 1)
<1>1. /\ N \subseteq Coupons(s.lgK)
      /\ rc \in M => N = M
      /\ rc \notin M => Cardinality(N) = Cardinality(M) + 1
      /\ Cardinality(M) \in Nat /\ Cardinality(N) \in Nat
      /\ Cardinality(M) <= Cardinality(N)
  BY OneMore
<1>2. BelowLast(s.lgK, Cardinality(M))
  <2>1. (SlideStart + 32 + 32 * MaxOffset) * 2 ^ s.lgK \in Int
    BY Sizes, Fm85Assumption DEF MaxOffset
  <2>. QED BY <1>1, <2>1 DEF BelowLast
<1>3. /\ s.numCoupons \in Nat \ {0}
      /\ o \in 0 .. MaxOffset
      /\ ~ slideDue(s)
      /\ s.window = WindowOf(s.lgK, M, o) /\ s.window # NULL
      /\ s.table = SurprisesOf(s.lgK, M, o)
      /\ o # 0 => (SlideStart + 32 * o) * K <= 32 * s.numCoupons
  BY <1>2, WindowedFacts
<1>4. /\ MaxOffset \in Nat /\ o \in Nat /\ K \in Nat \ {0} /\ SlideStart \in Nat
      /\ SparseLimit \in Nat
  BY <1>3, Sizes, Fm85Assumption DEF MaxOffset
<1>5. /\ IsSketch(b) /\ \A f \in Fields : f \notin {"table", "window"} => b[f] = s[f]
      /\ b.window = WindowOf(s.lgK, N, o) /\ b.table = SurprisesOf(s.lgK, N, o)
  BY <1>3, <1>4, SetBitKeeps, SetBitStores
<1>6. updateWindowed(s, rc) = IF b = s THEN s
                              ELSE IF ~ slideDue(c) THEN c
                              ELSE IF slideDue(m) THEN throwing(m) ELSE m
  <2>1. ~ (o > MaxOffset)
    BY <1>3, <1>4
  <2>. QED BY <1>3, <2>1 DEF updateWindowed, Counted
<1>7. s.thrown = FALSE /\ s.numCoupons = Cardinality(M) /\ o = determineCorrectOffset(s.lgK, s.numCoupons)
      /\ Full(s, M) /\ s.kxp = KxpOf(s.lgK, M, o)
  BY DEF Holds
<1>8. CASE rc \in M
  <2>1. N = M
    BY <1>1, <1>8
  <2>2. \A f \in Fields : b[f] = s[f]
    BY <1>3, <1>5, <2>1 DEF Fields
  <2>3. b = s
    <3>. HIDE DEF b
    <3>. QED BY <1>5, <2>2 DEF IsSketch
  <2>. HIDE DEF b, c, m, N
  <2>. QED BY <1>6, <2>1, <2>3 DEF N
<1>9. CASE rc \notin M
  <2>1. Cardinality(N) = s.numCoupons + 1 /\ N # {} /\ N # M
    BY <1>1, <1>7, <1>9 DEF With
  <2>2. b # s
    <3>1. SUFFICES ASSUME b = s PROVE FALSE
      OBVIOUS
    <3>2. s.window = WindowOf(s.lgK, N, o) /\ s.table = SurprisesOf(s.lgK, N, o)
      BY <1>5, <3>1
    <3>. HIDE DEF N, b
    <3>3. bitMatrixOfSketch(s) = N
      BY <1>1, <1>3, <3>2, MatrixDecoded
    <3>4. bitMatrixOfSketch(s) = M
      BY <1>1, <1>3, MatrixDecoded
    <3>. QED BY <2>1, <3>3, <3>4
  <2>. HIDE DEF b
  <2>3. /\ IsSketch(Counted(b)) /\ Counted(b).numCoupons = b.numCoupons + 1
        /\ \A f \in Fields : f # "numCoupons" => Counted(b)[f] = b[f]
    BY <1>5, CountedKeeps
  <2>4. /\ IsSketch(c)
        /\ c.lgK = s.lgK /\ c.numCoupons = Cardinality(N) /\ c.thrown = s.thrown
        /\ c.windowOffset = o /\ c.firstInterestingColumn = s.firstInterestingColumn
        /\ c.window = WindowOf(s.lgK, N, o) /\ c.table = SurprisesOf(s.lgK, N, o)
        /\ c.kxp = KxpOf(s.lgK, N, o)
    <3>1. /\ IsSketch(c) /\ \A f \in Fields : f # "kxp" => c[f] = Counted(b)[f]
          /\ c.kxp = Counted(b).kxp - weight(rc)
      BY <2>3, HIPKeeps
    <3>2. KxpOf(s.lgK, N, o) = s.kxp - weight(rc)
      BY <1>7, <1>9, KxpOneMore
    <3>. HIDE DEF c
    <3>. QED BY <1>5, <2>1, <2>3, <3>1, <3>2 DEF Fields
  <2>. HIDE DEF c
  <2>5. Windowed(c)
    <3>1. 32 * s.numCoupons >= SparseLimit * K /\ SparseLimit * K \in Int
      BY <1>4, Times DEF Windowed
    <3>2. 32 * Cardinality(N) >= SparseLimit * K
      BY <1>1, <1>7, <2>1, <3>1
    <3>. QED BY <2>4, <3>2 DEF Windowed
  <2>6. 32 * s.numCoupons < (SlideStart + 32 + 32 * o) * K
    <3>1. (SlideStart + 32 + 32 * o) * K \in Int
      BY <1>4
    <3>. QED BY <1>3, <3>1 DEF slideDue
  <2>7. CASE ~ slideDue(c)
    <3>1. 32 * Cardinality(N) < (SlideStart + 32 + 32 * o) * K
      <4>1. (SlideStart + 32 + 32 * o) * K \in Int
        BY <1>4
      <4>. QED BY <1>1, <2>4, <2>7, <4>1 DEF slideDue
    <3>2. o # 0 => (SlideStart + 32 * o) * K <= 32 * Cardinality(N)
      <4>1. (SlideStart + 32 * o) * K \in Int
        BY <1>4
      <4>. QED BY <1>1, <1>3, <1>7, <4>1
    <3>. HIDE DEF N
    <3>3. determineCorrectOffset(s.lgK, Cardinality(N)) = o
      BY <1>1, <1>4, <3>1, <3>2, OffsetIs
    <3>4. Full(c, N)
      BY <1>7, <2>4 DEF Full, With, N
    <3>5. Stores(c, N)
      BY <2>4, <2>5 DEF Stores
    <3>6. Holds(c, N)
      BY <1>7, <2>4, <3>3, <3>4, <3>5 DEF Holds
    <3>. HIDE DEF m
    <3>. QED BY <1>6, <2>2, <2>7, <3>6 DEF N
  <2>8. CASE slideDue(c)
    <3>1. (SlideStart + 32 + 32 * o) * K <= 32 * Cardinality(N)
      BY <1>4, <2>4, <2>8 DEF slideDue
    <3>2. 32 * Cardinality(N) < (SlideStart + 32 + 32 * MaxOffset) * K
      BY DEF BelowLast
    <3>3. /\ SlideStart + 32 + 32 * o \in Int /\ SlideStart + 32 + 32 * MaxOffset \in Int
          /\ SlideStart + 32 * (o + 1) = SlideStart + 32 + 32 * o
          /\ SlideStart + 32 + 32 * (o + 1) = (SlideStart + 32 + 32 * o) + 32
      BY <1>4
    <3>. HIDE DEF N, K
    <3>4. (SlideStart + 32 + 32 * o) * K < (SlideStart + 32 + 32 * MaxOffset) * K
      BY <1>1, <1>4, <3>1, <3>2, <3>3, Times
    <3>5. SlideStart + 32 + 32 * o < SlideStart + 32 + 32 * MaxOffset
      BY <1>4, <3>3, <3>4, Times
    <3>6. o + 1 <= MaxOffset
      BY <1>4, <3>5
    <3>7. 32 * Cardinality(N) < (SlideStart + 32 + 32 * (o + 1)) * K
      <4>. DEFINE a == SlideStart + 32 + 32 * o
      <4>1. a \in Int /\ (a + 32) * K = a * K + 32 * K /\ a * K \in Int
        BY <1>4
      <4>2. 32 * s.numCoupons < a * K
        BY <2>6
      <4>. HIDE DEF a
      <4>3. 32 * Cardinality(N) < (a + 32) * K
        BY <1>1, <1>3, <1>4, <2>1, <4>1, <4>2
      <4>. QED BY <3>3, <4>3 DEF a
    <3>8. determineCorrectOffset(s.lgK, Cardinality(N)) = o + 1
      <4>1. o + 1 \in Nat
        BY <1>4
      <4>2. (SlideStart + 32 * (o + 1)) * K <= 32 * Cardinality(N)
        BY <3>1, <3>3
      <4>. QED BY <1>1, <3>7, <4>1, <4>2, OffsetIs DEF K
    <3>9. Holds(m, N) /\ m.windowOffset = o + 1
      <4>1. c.lgK \in LgKs /\ c.thrown = FALSE
        BY <1>7, <2>4
      <4>2. o + 1 = determineCorrectOffset(c.lgK, c.numCoupons)
        BY <2>4, <3>8
      <4>3. N \subseteq Coupons(c.lgK) /\ c.window = WindowOf(c.lgK, N, o)
            /\ c.table = SurprisesOf(c.lgK, N, o)
        BY <1>1, <2>4
      <4>. QED BY <1>3, <2>1, <2>4, <2>5, <3>6, <4>1, <4>2, <4>3, SlideHolds
    <3>10. m.lgK = s.lgK
      BY <2>4, ModifyKeeps
    <3>. HIDE DEF m
    <3>11. ~ slideDue(m)
      <4>1. m.numCoupons = Cardinality(N)
        BY <3>9 DEF Holds
      <4>2. (SlideStart + 32 + 32 * (o + 1)) * K \in Int
        BY <1>4
      <4>. QED BY <1>1, <3>7, <3>9, <3>10, <4>1, <4>2 DEF slideDue, K
    <3>. QED BY <1>6, <2>2, <2>8, <3>9, <3>11 DEF N
  <2>. QED BY <2>7, <2>8
<1>. QED BY <1>8, <1>9

\* Fewer coupons than a window takes leave the offset at 0.
LEMMA SparseOffset ==
  ASSUME NEW lgK \in LgKs, NEW c \in Nat, 32 * c < SparseLimit * 2 ^ lgK + 32
  PROVE  determineCorrectOffset(lgK, c) = 0
<1>. DEFINE K == 2 ^ lgK
<1>1. /\ K \in Nat \ {0} /\ SparseLimit \in Nat \ {0} /\ SlideStart \in Nat
      /\ SparseLimit <= SlideStart
  BY Sizes, Fm85Assumption
<1>2. (SlideStart + 32 + 32 * 0) * K = SlideStart * K + 32 * K
  BY <1>1
<1>3. SparseLimit * K <= SlideStart * K /\ SparseLimit * K \in Int /\ SlideStart * K \in Int
      /\ 32 <= 32 * K
  BY <1>1, Times
<1>4. 32 * c < (SlideStart + 32 + 32 * 0) * K
  <2>1. 32 * c < SparseLimit * K + 32
    OBVIOUS
  <2>. HIDE DEF K
  <2>. QED BY <1>1, <1>2, <1>3, <2>1
<1>5. 0 \in Nat /\ (0 # 0 => (SlideStart + 32 * 0) * 2 ^ lgK <= 32 * c)
  OBVIOUS
<1>. QED BY <1>4, <1>5, OffsetIs

\* The window that a sparse sketch is given.
LEMMA PromoteHolds ==
  ASSUME NEW s, IsSketch(s), s.lgK \in LgKs, s.thrown = FALSE,
         NEW N, N \subseteq Coupons(s.lgK), s.numCoupons = Cardinality(N),
         s.table = N, s.windowOffset = 0, Full(s, N),
         Windowed(s), 32 * s.numCoupons < SparseLimit * 2 ^ s.lgK + 32,
         s.kxp = KxpOf(s.lgK, N, 0)
  PROVE  Holds(promoteSparseToWindowed(s), N)
<1>. DEFINE K == 2 ^ s.lgK
            near == {rc \in s.table : rc[2] < WindowWidth}
            window == [r \in Rows(s.lgK) |-> {rc[2] : rc \in {n \in near : n[1] = r}}]
            w == [s EXCEPT !.table = @ \ near, !.window = window]
            p == promoteSparseToWindowed(s)
<1>1. /\ K \in Nat \ {0} /\ SparseLimit \in Nat /\ SlideStart \in Nat /\ SparseLimit <= SlideStart
      /\ WindowWidth \in Nat \ {0} /\ s.numCoupons \in Nat
  BY Sizes, Fm85Assumption, CouponsFinite
<1>2. 32 * s.numCoupons >= SparseLimit * K /\ 32 * s.numCoupons < SparseLimit * K + 32
      /\ SparseLimit * K \in Int
  BY <1>1 DEF Windowed
<1>3. \/ 32 * s.numCoupons = SparseLimit * K
      \/ s.lgK = MinLgK /\ 32 * s.numCoupons > SparseLimit * K
  <2>1. s.lgK = MinLgK \/ (SparseLimit * K) % 32 = 0
    BY CpcSketchAssumption
  <2>. HIDE DEF K
  <2>. QED BY <1>1, <1>2, <2>1
<1>4. p = w
  BY <1>3 DEF promoteSparseToWindowed
<1>5. window = WindowOf(s.lgK, N, 0)
  <2>1. ASSUME NEW r \in Rows(s.lgK)
        PROVE  {rc[2] : rc \in {n \in near : n[1] = r}}
               = {c \in 0 .. WindowWidth - 1 : <<r, c + 0>> \in N}
    <3>1. ASSUME NEW c
          PROVE  c \in {rc[2] : rc \in {n \in near : n[1] = r}} <=>
                 \E rc \in N : rc[2] < WindowWidth /\ rc[1] = r /\ c = rc[2]
      OBVIOUS
    <3>2. ASSUME NEW c
          PROVE  (\E rc \in N : rc[2] < WindowWidth /\ rc[1] = r /\ c = rc[2]) <=>
                 c \in 0 .. WindowWidth - 1 /\ <<r, c>> \in N
      <4>1. ASSUME NEW rc \in N, rc[2] < WindowWidth, rc[1] = r, c = rc[2]
            PROVE  c \in 0 .. WindowWidth - 1 /\ <<r, c>> \in N
        <5>1. rc = <<rc[1], rc[2]>> /\ rc[2] \in 0 .. Columns - 1
          BY Pairs
        <5>. QED BY <1>1, <4>1, <5>1, Fm85Assumption
      <4>2. ASSUME c \in 0 .. WindowWidth - 1, <<r, c>> \in N
            PROVE  \E rc \in N : rc[2] < WindowWidth /\ rc[1] = r /\ c = rc[2]
        <5>1. <<r, c>>[1] = r /\ <<r, c>>[2] = c /\ c < WindowWidth
          BY <1>1, <4>2
        <5>. QED BY <4>2, <5>1
      <4>. QED BY <4>1, <4>2
    <3>3. \A c \in 0 .. WindowWidth - 1 : c + 0 = c
      OBVIOUS
    <3>. QED BY <3>1, <3>2, <3>3
  <2>. QED BY <2>1 DEF WindowOf
<1>6. s.table \ near = SurprisesOf(s.lgK, N, 0)
  <2>1. \A rc \in N : rc \in Coupons(s.lgK) /\ rc[2] \in Nat
    BY Pairs
  <2>2. \A rc \in Coupons(s.lgK) : rc[2] \in Nat
    BY Pairs
  <2>. QED BY <1>1, <2>1, <2>2 DEF SurprisesOf
<1>7. /\ w.lgK = s.lgK /\ w.numCoupons = s.numCoupons /\ w.thrown = s.thrown /\ w.windowOffset = 0
      /\ w.firstInterestingColumn = s.firstInterestingColumn
      /\ w.window = window /\ w.table = s.table \ near /\ w.kxp = s.kxp
  <2>. HIDE DEF near, window
  <2>. QED BY DEF IsSketch, Fields
<1>. HIDE DEF near, window, w, p
<1>8. determineCorrectOffset(s.lgK, s.numCoupons) = 0
  BY <1>1, <1>2, SparseOffset
<1>9. Windowed(w) /\ Full(w, N)
  BY <1>7 DEF Windowed, Full
<1>10. Stores(w, N)
  BY <1>5, <1>6, <1>7, <1>9 DEF Stores
<1>. QED BY <1>4, <1>7, <1>8, <1>9, <1>10 DEF Holds, p

\* An update of a sparse sketch, which may give it a window.
LEMMA UpdateSparseHolds ==
  ASSUME NEW s, IsSketch(s), s.lgK \in LgKs, s.thrown = FALSE,
         NEW M, M \subseteq Coupons(s.lgK), NEW rc \in Coupons(s.lgK),
         Full(s, M), s.window = NULL, s.table = M, s.windowOffset = 0,
         s.numCoupons = Cardinality(M), ~ Windowed(s), s.kxp = KxpOf(s.lgK, M, 0)
  PROVE  Holds(updateSparse(s, rc), With(M, rc))
<1>. DEFINE K == 2 ^ s.lgK
            N == With(M, rc)
            a == [s EXCEPT !.table = @ \union {rc}, !.numCoupons = @ + 1]
            n == updateHIP(a, rc)
<1>1. /\ N \subseteq Coupons(s.lgK)
      /\ rc \in M => N = M
      /\ rc \notin M => Cardinality(N) = Cardinality(M) + 1
      /\ Cardinality(M) \in Nat /\ Cardinality(N) \in Nat
  BY OneMore
<1>2. /\ K \in Nat \ {0} /\ SparseLimit \in Nat \ {0} /\ SlideStart \in Nat
      /\ SparseLimit <= SlideStart
  BY Sizes, Fm85Assumption
<1>3. 32 * Cardinality(M) < SparseLimit * K /\ SparseLimit * K \in Int
  BY <1>1, <1>2 DEF Windowed
<1>4. ASSUME NEW c \in Nat, 32 * c < SparseLimit * K PROVE determineCorrectOffset(s.lgK, c) = 0
  BY <1>3, <1>4, SparseOffset
<1>5. CASE rc \in M
  <2>1. updateSparse(s, rc) = s /\ N = M
    BY <1>1, <1>5 DEF updateSparse
  <2>2. Stores(s, M)
    BY DEF Stores
  <2>3. determineCorrectOffset(s.lgK, s.numCoupons) = 0
    BY <1>1, <1>3, <1>4
  <2>. QED BY <2>1, <2>2, <2>3 DEF Holds
<1>6. CASE rc \notin M
  <2>1. /\ IsSketch(a)
        /\ a.lgK = s.lgK /\ a.thrown = s.thrown /\ a.windowOffset = 0 /\ a.window = NULL
        /\ a.firstInterestingColumn = s.firstInterestingColumn
        /\ a.table = N /\ a.numCoupons = Cardinality(M) + 1 /\ a.kxp = s.kxp
    BY DEF IsSketch, Fields, With
  <2>2. updateSparse(s, rc) =
          IF 32 * n.numCoupons >= SparseLimit * 2 ^ n.lgK THEN promoteSparseToWindowed(n) ELSE n
    BY <1>6 DEF updateSparse
  <2>. HIDE DEF a
  <2>3. /\ IsSketch(n) /\ \A f \in Fields : f # "kxp" => n[f] = a[f]
        /\ n.kxp = a.kxp - weight(rc)
    BY <2>1, HIPKeeps
  <2>. HIDE DEF n
  <2>4. /\ n.lgK = s.lgK /\ n.thrown = FALSE /\ n.windowOffset = 0 /\ n.window = NULL
        /\ n.firstInterestingColumn = s.firstInterestingColumn
        /\ n.table = N /\ n.numCoupons = Cardinality(N)
        /\ n.kxp = KxpOf(s.lgK, N, 0)
    <3>1. KxpOf(s.lgK, N, 0) = s.kxp - weight(rc)
      BY <1>6, KxpOneMore
    <3>. QED BY <1>1, <1>6, <2>1, <2>3, <3>1 DEF Fields
  <2>5. Full(n, N)
    BY <2>4 DEF Full, With
  <2>6. CASE Windowed(n)
    <3>1. 32 * n.numCoupons < SparseLimit * 2 ^ n.lgK + 32
      BY <1>1, <1>3, <1>6, <2>4
    <3>. HIDE DEF N
    <3>2. Holds(promoteSparseToWindowed(n), N)
      BY <1>1, <2>3, <2>4, <2>5, <2>6, <3>1, PromoteHolds
    <3>. QED BY <2>2, <2>6, <3>2 DEF Windowed, N
  <2>7. CASE ~ Windowed(n)
    <3>1. 32 * Cardinality(N) < SparseLimit * K
      BY <1>1, <1>3, <2>4, <2>7 DEF Windowed
    <3>. HIDE DEF N
    <3>2. determineCorrectOffset(n.lgK, n.numCoupons) = 0
      BY <1>1, <1>4, <2>4, <3>1
    <3>3. Stores(n, N)
      BY <2>4, <2>7 DEF Stores
    <3>. QED BY <2>2, <2>4, <2>5, <2>7, <3>2, <3>3 DEF Holds, Windowed, N
  <2>. QED BY <2>6, <2>7
<1>. QED BY <1>5, <1>6

\* An update of a sketch that holds M, to below saturation.
LEMMA UpdateHolds ==
  ASSUME NEW s, IsSketch(s), s.lgK \in LgKs, NEW M, M \subseteq Coupons(s.lgK),
         NEW rc \in Coupons(s.lgK), Holds(s, M),
         BelowLast(s.lgK, Cardinality(With(M, rc)))
  PROVE  Holds(fm85Update(s, rc), With(M, rc))
<1>. DEFINE N == With(M, rc)
            p == promoteEmptyToSparse(s)
            started == IF s.numCoupons = 0 THEN p ELSE s
<1>1. /\ s.thrown = FALSE /\ s.numCoupons = Cardinality(M) /\ Full(s, M) /\ Stores(s, M)
      /\ s.windowOffset = determineCorrectOffset(s.lgK, s.numCoupons)
      /\ s.firstInterestingColumn \in Nat /\ s.numCoupons \in Nat
      /\ s.kxp = KxpOf(s.lgK, M, s.windowOffset)
  BY CouponsFinite DEF Holds, Full
<1>2. fm85Update(s, rc) = fm85RowColUpdate(s, rc)
  <2>1. [s EXCEPT !.thrown = FALSE] = s
    BY <1>1 DEF IsSketch, Fields
  <2>. QED BY <2>1 DEF fm85Update
<1>3. fm85Update(s, rc) = IF rc[2] < s.firstInterestingColumn THEN s
                          ELSE IF ~ Windowed(s) THEN updateSparse(started, rc)
                          ELSE updateWindowed(s, rc)
  <2>1. 32 * s.numCoupons < SparseLimit * 2 ^ s.lgK <=> ~ Windowed(s)
    BY <1>1, Sizes, Fm85Assumption DEF Windowed
  <2>. QED BY <1>2, <2>1 DEF fm85RowColUpdate
<1>4. CASE rc[2] < s.firstInterestingColumn
  <2>1. N = M
    BY <1>1, <1>4 DEF Full, With
  <2>. QED BY <1>3, <1>4, <2>1
<1>5. CASE ~ (rc[2] < s.firstInterestingColumn) /\ ~ Windowed(s)
  <2>1. s.windowOffset = 0
    BY <1>1, <1>5, SparseIs, SparseOffset
  <2>2. s.window = NULL /\ (M # {} => s.table = M)
    BY <1>1, <1>5 DEF Stores
  <2>3. s.numCoupons = 0 <=> M = {}
    BY <1>1, CouponsFinite, FS_EmptySet
  <2>4. /\ IsSketch(started)
        /\ started.lgK = s.lgK /\ started.thrown = FALSE /\ started.window = NULL
        /\ started.windowOffset = 0 /\ started.numCoupons = s.numCoupons
        /\ started.firstInterestingColumn = s.firstInterestingColumn
        /\ started.table = M /\ started.kxp = KxpOf(s.lgK, M, 0)
    <3>1. CASE s.numCoupons = 0
      BY <1>1, <2>1, <2>2, <2>3, <3>1 DEF promoteEmptyToSparse, IsSketch, Fields
    <3>2. CASE s.numCoupons # 0
      BY <1>1, <2>1, <2>2, <2>3, <3>2
    <3>. QED BY <3>1, <3>2
  <2>5. updateSparse(started, rc) = fm85Update(s, rc)
    BY <1>3, <1>5
  <2>. HIDE DEF started
  <2>6. Full(started, M) /\ ~ Windowed(started)
    BY <1>1, <1>5, <2>4 DEF Full, Windowed
  <2>7. Holds(updateSparse(started, rc), With(M, rc))
    BY <1>1, <2>4, <2>6, UpdateSparseHolds
  <2>. QED BY <2>5, <2>7
<1>6. CASE ~ (rc[2] < s.firstInterestingColumn) /\ Windowed(s)
  BY <1>3, <1>6, UpdateWindowedHolds
<1>. QED BY <1>4, <1>5, <1>6

----------------------------------------------------------------------------
(* The theorems. *)

\* A new sketch holds no coupon.
LEMMA InitEstablishes == Init => IInv
<1>. SUFFICES ASSUME Init PROVE IInv
  OBVIOUS
<1>1. PICK lgK \in LgKs : sketch = fm85Make(lgK)
  BY DEF Init
<1>2. offered = {} /\ Cardinality(offered) = 0
  BY FS_EmptySet DEF Init
<1>3. /\ IsSketch(sketch) /\ sketch.lgK = lgK /\ sketch.numCoupons = 0 /\ sketch.windowOffset = 0
      /\ sketch.window = NULL /\ sketch.thrown = FALSE /\ sketch.firstInterestingColumn = 0
      /\ sketch.kxp = 2 ^ (lgK + Columns)
  BY <1>1 DEF fm85Make, IsSketch, Fields
<1>. DEFINE K == 2 ^ lgK
<1>4. K \in Nat \ {0} /\ SparseLimit \in Nat \ {0} /\ SlideStart \in Nat \ {0}
  BY Sizes, Fm85Assumption
<1>5. 32 * 0 < SparseLimit * K /\ 32 * 0 < (SlideStart + 32 + 32 * 0) * K
  <2>1. 0 * K < SparseLimit * K /\ 0 * K < (SlideStart + 32 + 32 * 0) * K
    <3>. HIDE DEF K
    <3>1. 0 * K + K <= SparseLimit * K /\ 0 * K + K <= (SlideStart + 32 + 32 * 0) * K
      BY <1>4, Times
    <3>. QED BY <1>4, <3>1
  <2>. QED BY <1>4, <2>1
<1>6. determineCorrectOffset(lgK, 0) = 0
  <2>1. 0 \in Nat /\ (0 # 0 => (SlideStart + 32 * 0) * 2 ^ lgK <= 32 * 0)
    OBVIOUS
  <2>. QED BY <1>5, <2>1, OffsetIs
<1>7. ~ Windowed(sketch)
  BY <1>3, <1>4, <1>5 DEF Windowed
<1>8. Full(sketch, offered) /\ Stores(sketch, offered)
  BY <1>2, <1>3, <1>7, Pairs DEF Full, Stores
<1>9. sketch.kxp = KxpOf(lgK, offered, 0)
  <2>1. Weight(offered) = 0
    BY <1>2, WeightIsSum, WeightsChoose, Weights!SumEmpty
  <2>2. 2 ^ (lgK + Columns) \in Nat /\ 0 < RefreshEvery
    BY WeightOfAll, Fm85Assumption
  <2>. QED BY <1>3, <2>1, <2>2 DEF KxpOf
<1>10. Holds(sketch, offered)
  BY <1>2, <1>3, <1>6, <1>8, <1>9 DEF Holds
<1>. QED BY <1>2, <1>3, <1>10 DEF IInv

\* Saturation, as a bound on the number of coupons that were offered.
LEMMA SaturatedIs == IInv => (Saturated <=> ~ BelowLast(sketch.lgK, Cardinality(offered)))
<1>. SUFFICES ASSUME IInv PROVE Saturated <=> ~ BelowLast(sketch.lgK, Cardinality(offered))
  OBVIOUS
<1>1. Cardinality(offered) \in Nat
  BY CouponsFinite DEF IInv
<1>2. (SlideStart + 32 + 32 * MaxOffset) * 2 ^ sketch.lgK \in Int
  BY Sizes, Fm85Assumption DEF IInv, MaxOffset
<1>. QED BY <1>1, <1>2 DEF Saturated, BelowLast

\* An update preserves the invariant, and once saturated a sketch stays so.
LEMMA UpdatePreserves ==
  ASSUME IInv, NEW rc \in Coupons(sketch.lgK), update(rc)
  PROVE  IInv'
<1>1. IsSketch(sketch) /\ sketch.lgK \in LgKs /\ offered \subseteq Coupons(sketch.lgK)
  BY DEF IInv
<1>2. sketch' = fm85Update(sketch, rc) /\ offered' = With(offered, rc)
  BY DEF update, With
<1>3. IsSketch(sketch') /\ sketch'.lgK = sketch.lgK
  BY <1>1, <1>2, UpdateKeeps
<1>4. /\ offered' \subseteq Coupons(sketch'.lgK)
      /\ Cardinality(offered) \in Nat /\ Cardinality(offered') \in Nat
      /\ Cardinality(offered) <= Cardinality(offered')
  BY <1>1, <1>2, <1>3, OneMore
<1>5. ASSUME ~ Saturated' PROVE Holds(sketch', offered')
  <2>1. (SlideStart + 32 + 32 * MaxOffset) * 2 ^ sketch.lgK \in Int
    BY <1>1, Sizes, Fm85Assumption DEF MaxOffset
  <2>2. BelowLast(sketch.lgK, Cardinality(offered'))
    BY <1>3, <1>4, <1>5, <2>1 DEF Saturated, BelowLast
  <2>3. ~ Saturated
    BY <1>4, <2>1, <2>2 DEF Saturated, BelowLast
  <2>4. Holds(sketch, offered)
    BY <2>3 DEF IInv
  <2>. QED BY <1>1, <1>2, <2>2, <2>4, UpdateHolds
<1>. QED BY <1>1, <1>3, <1>4, <1>5 DEF IInv

\* Compressing and writing keep the size of a sketch, whatever else they make of it.
LEMMA CompressedSize == \A s : serialize(s).lgK = s.lgK
<1>1. ASSUME NEW s, NEW pairs PROVE compressed(s, pairs).lgK = s.lgK
  <2>. DEFINE bare == [lgK |-> s.lgK, numCoupons |-> s.numCoupons,
                       firstInterestingColumn |-> s.firstInterestingColumn,
                       mergeFlag |-> s.mergeFlag, kxp |-> s.kxp,
                       compressedWindow |-> NULL, cwLength |-> 0,
                       compressedSurprisingValues |-> NULL, numCompressedSurprisingValues |-> 0,
                       csvLength |-> 0]
              full == IF determineSketchFlavor(s) \in {"PINNED", "SLIDING"}
                      THEN withWindow(bare, compressTheWindow(s)) ELSE bare
              code == compressTheSurprisingValues(s.lgK, pairs)
  <2>1. bare.lgK = s.lgK /\ "lgK" \in DOMAIN bare
    OBVIOUS
  <2>2. compressed(s, pairs) = withSurprisingValues(full, pairs, code)
    BY DEF compressed
  <2>. HIDE DEF bare, code
  <2>3. full.lgK = s.lgK /\ "lgK" \in DOMAIN full
    BY <2>1 DEF withWindow
  <2>. HIDE DEF full
  <2>4. withSurprisingValues(full, pairs, code).lgK = s.lgK
    BY <2>3 DEF withSurprisingValues
  <2>. QED BY <2>2, <2>4
<1>. QED BY <1>1 DEF serialize, written, fm85Compress

\* Whatever bytes are read, a sketch of their size is what comes of them.
LEMMA ReadIsSketch ==
  ASSUME NEW image
  PROVE  IsSketch(deserialize(image)) /\ deserialize(image).lgK = image.lgK
<1>1. readCompressed(image).lgK = image.lgK
  BY DEF readCompressed
<1>2. ASSUME NEW c, NEW offset, NEW pairs, NEW window
      PROVE  IsSketch(uncompressed(c, offset, pairs, window))
             /\ uncompressed(c, offset, pairs, window).lgK = c.lgK
  <2>. DEFINE sketchOf(w, table) ==
                [lgK |-> c.lgK, numCoupons |-> c.numCoupons, windowOffset |-> offset,
                 window |-> w, table |-> table,
                 firstInterestingColumn |-> c.firstInterestingColumn,
                 kxp |-> c.kxp, mergeFlag |-> c.mergeFlag, thrown |-> FALSE]
  <2>1. \A w, table : IsSketch(sketchOf(w, table)) /\ sketchOf(w, table).lgK = c.lgK
    BY DEF IsSketch, Fields
  <2>2. determineFlavor(c.lgK, c.numCoupons) \in {"EMPTY", "SPARSE", "HYBRID", "PINNED", "SLIDING"}
    BY DEF determineFlavor
  <2>3. \E w, table : uncompressed(c, offset, pairs, window) = sketchOf(w, table)
    BY <2>2 DEF uncompressed
  <2>. HIDE DEF sketchOf
  <2>. QED BY <2>1, <2>3
<1>. QED BY <1>1, <1>2 DEF deserialize, updatable, fm85Uncompress

\* A sketch that comes back from its bytes as it was, or is past saturation.
LEMMA ReloadPreserves ==
  ASSUME IInv, SurvivesBytes, reload
  PROVE  IInv'
<1>1. IsSketch(sketch) /\ sketch.lgK \in LgKs /\ offered \subseteq Coupons(sketch.lgK)
  BY DEF IInv
<1>2. sketch' = deserialize(serialize(sketch)) /\ offered' = offered
  BY DEF reload
<1>3. CASE ~ Saturated
  <2>1. sketch' = sketch
    BY <1>2, <1>3 DEF SurvivesBytes
  <2>. QED BY <1>2, <1>3, <2>1 DEF IInv, Saturated
<1>4. CASE Saturated
  <2>1. IsSketch(sketch') /\ sketch'.lgK = sketch.lgK
    BY <1>2, CompressedSize, ReadIsSketch
  <2>2. Saturated'
    BY <1>2, <1>4, <2>1 DEF Saturated
  <2>. QED BY <1>1, <1>2, <2>1, <2>2 DEF IInv
<1>. QED BY <1>3, <1>4

\* A sketch that holds the offered coupons decodes to exactly them, has its window
\* where their number puts it, and has not thrown.
LEMMA InvariantImplies == IInv => MatrixExact /\ WindowInPlace /\ ThrowsOnlySaturated
<1>. SUFFICES ASSUME IInv PROVE MatrixExact /\ WindowInPlace /\ ThrowsOnlySaturated
  OBVIOUS
<1>. DEFINE K == 2 ^ sketch.lgK
            o == sketch.windowOffset
            c == sketch.numCoupons
<1>1. IsSketch(sketch) /\ sketch.lgK \in LgKs /\ offered \subseteq Coupons(sketch.lgK)
  BY DEF IInv
<1>2. K \in Nat \ {0} /\ SparseLimit \in Nat \ {0} /\ WindowWidth \in Nat \ {0}
  BY <1>1, Sizes, Fm85Assumption
<1>3. SUFFICES ASSUME ~ Saturated
               PROVE  /\ bitMatrixOfSketch(sketch) = offered
                      /\ sketch.numCoupons = Cardinality(offered)
                      /\ sketch.windowOffset = determineCorrectOffset(sketch.lgK, sketch.numCoupons)
                      /\ (sketch.window = NULL) = (determineSketchFlavor(sketch) \in {"EMPTY", "SPARSE"})
                      /\ sketch.window # NULL =>
                           \A rc \in sketch.table : rc[2] - sketch.windowOffset \notin 0 .. WindowWidth - 1
                      /\ sketch.thrown = FALSE
  BY DEF MatrixExact, WindowInPlace, ThrowsOnlySaturated
<1>4. Holds(sketch, offered) /\ BelowLast(sketch.lgK, Cardinality(offered))
  BY <1>3, SaturatedIs DEF IInv
<1>5. /\ c = Cardinality(offered) /\ o = determineCorrectOffset(sketch.lgK, c)
      /\ sketch.thrown = FALSE /\ c \in Nat /\ (c = 0 <=> offered = {})
  BY <1>1, <1>4, CouponsFinite, FS_EmptySet DEF Holds
<1>6. determineSketchFlavor(sketch) \in {"EMPTY", "SPARSE"} <=> ~ Windowed(sketch)
  <2>1. SparseLimit * K \in Int /\ 32 * 0 < SparseLimit * K
    BY <1>2
  <2>2. ~ Windowed(sketch) <=> 32 * c < SparseLimit * K
    BY <1>5, <2>1 DEF Windowed
  <2>3. /\ c = 0 => determineSketchFlavor(sketch) = "EMPTY"
        /\ c # 0 /\ 32 * c < SparseLimit * K => determineSketchFlavor(sketch) = "SPARSE"
        /\ c # 0 /\ ~ (32 * c < SparseLimit * K) =>
             determineSketchFlavor(sketch) \in {"HYBRID", "PINNED", "SLIDING"}
    BY DEF determineSketchFlavor, determineFlavor
  <2>4. c = 0 => 32 * c < SparseLimit * K
    BY <2>1
  <2>. HIDE DEF c, K
  <2>. QED BY <2>2, <2>3, <2>4
<1>7. CASE Windowed(sketch)
  <2>1. /\ c \in Nat \ {0} /\ o \in 0 .. MaxOffset
        /\ sketch.window = WindowOf(sketch.lgK, offered, o) /\ sketch.window # NULL
        /\ sketch.table = SurprisesOf(sketch.lgK, offered, o)
    BY <1>1, <1>4, <1>7, WindowedFacts
  <2>2. bitMatrixOfSketch(sketch) = offered
    BY <1>1, <2>1, MatrixDecoded
  <2>3. \A rc \in sketch.table : rc[2] - o \notin 0 .. WindowWidth - 1
    <3>1. SUFFICES ASSUME NEW rc \in SurprisesOf(sketch.lgK, offered, o)
                   PROVE  rc[2] - o \notin 0 .. WindowWidth - 1
      BY <2>1
    <3>2. rc[2] \in Int /\ o \in Int /\ (rc[2] < o \/ rc[2] >= o + WindowWidth)
      BY <2>1, Pairs DEF SurprisesOf
    <3>. QED BY <1>2, <3>2
  <2>. QED BY <1>5, <1>6, <1>7, <2>1, <2>2, <2>3
<1>8. CASE ~ Windowed(sketch)
  <2>1. sketch.window = NULL /\ (offered # {} => sketch.table = offered)
    BY <1>4, <1>8 DEF Holds, Stores
  <2>2. o = 0
    BY <1>1, <1>5, <1>8, SparseIs, SparseOffset
  <2>3. Rows(sketch.lgK) \X (0 .. o - 1) = {}
    BY <2>2
  <2>4. bitMatrixOfSketch(sketch) = offered
    BY <1>5, <2>1, <2>3 DEF bitMatrixOfSketch
  <2>. QED BY <1>5, <1>6, <1>8, <2>1, <2>4
<1>. QED BY <1>7, <1>8

\* A sketch that holds the offered coupons has the kxp of those.
LEMMA InvariantGivesKxp == IInv => KxpExact
<1>. SUFFICES ASSUME IInv, ~ Saturated
              PROVE  sketch.kxp + (IF sketch.windowOffset < RefreshEvery THEN 0 ELSE 2 ^ sketch.lgK)
                       = 2 ^ (sketch.lgK + Columns) - Weight(offered)
  BY DEF KxpExact, Weight
<1>1. sketch.lgK \in LgKs /\ offered \subseteq Coupons(sketch.lgK) /\ Holds(sketch, offered)
  BY DEF IInv
<1>2. sketch.kxp = KxpOf(sketch.lgK, offered, sketch.windowOffset)
  BY <1>1 DEF Holds
<1>3. 2 ^ sketch.lgK \in Nat /\ 2 ^ (sketch.lgK + Columns) \in Nat /\ Weight(offered) \in Int
  BY <1>1, Sizes, WeightOfAll, WeightsAre
<1>. QED BY <1>2, <1>3 DEF KxpOf

\* Every step of the sketch preserves the invariant, provided that it survives its bytes.
LEMMA NextPreserves == IInv /\ SurvivesBytes /\ [Next]_vars => IInv'
<1>. SUFFICES ASSUME IInv, SurvivesBytes, [Next]_vars PROVE IInv'
  OBVIOUS
<1>1. ASSUME NEW rc \in Coupons(sketch.lgK), update(rc) PROVE IInv'
  BY <1>1, UpdatePreserves
<1>2. ASSUME reload PROVE IInv'
  BY <1>2, ReloadPreserves
<1>3. ASSUME UNCHANGED vars PROVE IInv'
  BY <1>3 DEF vars, IInv, Saturated
<1>. QED BY <1>1, <1>2, <1>3 DEF Next

\* A sketch that is only updated, and never saved and restored.
Updates == Init /\ [][\E rc \in Coupons(sketch.lgK) : update(rc)]_vars

\* However many coupons are offered and in whatever order, fm85RowColUpdate keeps
\* every field of an unsaturated sketch the one that the set of offered coupons says.
THEOREM UpdatesInvariant == Updates => []IInv
<1>1. IInv /\ [\E rc \in Coupons(sketch.lgK) : update(rc)]_vars => IInv'
  <2>. SUFFICES ASSUME IInv, [\E rc \in Coupons(sketch.lgK) : update(rc)]_vars PROVE IInv'
    OBVIOUS
  <2>1. ASSUME UNCHANGED vars PROVE IInv'
    BY <2>1 DEF vars, IInv, Saturated
  <2>. QED BY <2>1, UpdatePreserves
<1>. QED BY <1>1, InitEstablishes, PTL DEF Updates

\* So does any interleaving of updates with fm85Compress, writing, reading and
\* fm85Uncompress, provided that a sketch survives its bytes (SurvivesBytes, which
\* TLC checks: the compression is a fold over rows, codes and bits).
THEOREM SketchInvariant == Spec /\ []SurvivesBytes => []IInv
BY InitEstablishes, NextPreserves, PTL DEF Spec

\* The bit matrix that bitMatrixOfSketch rebuilds from window and table is the set of
\* offered coupons, and numCoupons their number, through every promotion, shift of the
\* window and inversion of surprises.
THEOREM MatrixStaysExact == Spec /\ []SurvivesBytes => []MatrixExact
BY SketchInvariant, InvariantImplies, PTL

\* The window is where determineCorrectOffset puts it, there is one exactly in the
\* flavors that have one, and no surprise lies under it.
THEOREM WindowStaysInPlace == Spec /\ []SurvivesBytes => []WindowInPlace
BY SketchInvariant, InvariantImplies, PTL

\* The exceptions of modifyOffset and updateWindowed are out of reach below saturation.
THEOREM ThrowsWhenSaturated == Spec /\ []SurvivesBytes => []ThrowsOnlySaturated
BY SketchInvariant, InvariantImplies, PTL

\* The incrementally kept kxp is the weight of the unset bits, as refreshKXP counts it.
THEOREM KxpStaysExact == Spec /\ []SurvivesBytes => []KxpExact
BY SketchInvariant, InvariantGivesKxp, PTL

\* For a sketch that is only updated the four hold with no proviso.
THEOREM UpdatesExact == Updates => [](MatrixExact /\ WindowInPlace /\ KxpExact /\ ThrowsOnlySaturated)
BY UpdatesInvariant, InvariantImplies, InvariantGivesKxp, PTL
=============================================================================

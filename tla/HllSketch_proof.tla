--------------------------- MODULE HllSketch_proof ---------------------------
(***************************************************************************)
(* What is proved of an HLL sketch: that the objects of all three modes    *)
(* hold the coupons they were given, each at its place, through            *)
(* promotions, growth and every image but one, and that the mode follows   *)
(* from the number of coupons.  The lemmas speak of any object k and any   *)
(* set of coupons D, for the unions to use.                                *)
(***************************************************************************)
EXTENDS HllSketch, ProbedTable, TLAPS, FiniteSetTheorems, FunctionTheorems, SequenceTheorems

----------------------------------------------------------------------------
(* What is proved of the table of exceptions, of which that of coupons is  *)
(* no other.                                                               *)

Table == INSTANCE AuxHashMap_proof WITH Slots <- {}, Values <- {}, LgInit <- 6, aux <- 0, answer <- 0

\* Its assumptions hold of a table that starts with 64 cells, and nothing in it.
LEMMA TablePremises == Table!AuxAssumption
<1>1. Cardinality({}) = 0 /\ IsFiniteSet({}) /\ 6 + 0 = 6
  BY FS_EmptySet
<1>2. Table!Cardinality({}) = 0 /\ Table!IsFiniteSet({})
  BY <1>1 DEF Cardinality, Table!Cardinality, IsFiniteSet, Table!IsFiniteSet
<1>3. Table!Powers(6)
  BY HllImageAssumption DEF Powers, Table!Powers
<1>. QED BY <1>1, <1>2, <1>3 DEF Table!AuxAssumption

\* The same operators,
LEMMA SameProbe ==
  /\ EMPTY = Table!EMPTY
  /\ \A lg : Cells(lg) = Table!Cells(lg) /\ (Powers(lg) <=> Table!Powers(lg))
  /\ \A k, lg, i : probe(k, lg, i) = Table!probe(k, lg, i)
BY DEF EMPTY, Cells, Powers, probe, stride, Table!EMPTY, Table!Cells, Table!Powers, Table!probe, Table!stride

\* ... what is said of a table with them,
LEMMA SameTable ==
  /\ \A arr, lg, E : Filled(arr, lg, E) <=> Table!Filled(arr, lg, E)
  /\ \A arr, lg, key, E : Sound(arr, lg, key, E) <=> Table!Sound(arr, lg, key, E)
  /\ \A arr, lg, k, c : Reaches(arr, lg, k, c) <=> Table!Reaches(arr, lg, k, c)
  /\ \A arr, lg, key : Probed(arr, lg, key) <=> Table!Probed(arr, lg, key)
  /\ \A arr, lg, k, M : /\ StopsAt(arr, lg, k, M) = Table!StopsAt(arr, lg, k, M)
                        /\ cellAt(arr, lg, k, M) = Table!cellAt(arr, lg, k, M)
<1>1. \A arr, lg, E : IsTable(arr, lg, E) <=> Table!IsTable(arr, lg, E)
  BY SameProbe DEF IsTable, Table!IsTable
<1>2. \A arr, lg, E : Filled(arr, lg, E) <=> Table!Filled(arr, lg, E)
  BY <1>1, SameProbe DEF Filled, Table!Filled
<1>3. \A arr, lg, key, E : Sound(arr, lg, key, E) <=> Table!Sound(arr, lg, key, E)
  BY <1>2 DEF Sound, Table!Sound
<1>4. \A arr, lg, k, c : Reaches(arr, lg, k, c) <=> Table!Reaches(arr, lg, k, c)
  BY SameProbe DEF Reaches, Table!Reaches
<1>5. \A arr, lg, key : Probed(arr, lg, key) <=> Table!Probed(arr, lg, key)
  BY <1>4, SameProbe DEF Probed, Table!Probed
<1>6. \A arr, lg, k, M : StopsAt(arr, lg, k, M) = Table!StopsAt(arr, lg, k, M)
  BY SameProbe DEF StopsAt, Table!StopsAt
<1>7. \A arr, lg, k, M : cellAt(arr, lg, k, M) = Table!cellAt(arr, lg, k, M)
  BY <1>6, SameProbe DEF cellAt, Table!cellAt
<1>. QED BY <1>2, <1>3, <1>4, <1>5, <1>6, <1>7

\* ... and of what it holds.
LEMMA SameEntries ==
  /\ \A arr, lg : /\ InUse(arr, lg) = Table!InUse(arr, lg) /\ Entered(arr, lg) = Table!Entered(arr, lg)
                  /\ Entries(arr, lg) = Table!Entries(arr, lg)
  /\ \A arr, lg, key : Distinct(arr, lg, key) <=> Table!Distinct(arr, lg, key)
  /\ \A s, H, key, E : Lists(s, H, key, E) <=> Table!Lists(s, H, key, E)
  /\ \A q : valid(q) = Table!valid(q)
<1>1. \A arr, lg : InUse(arr, lg) = Table!InUse(arr, lg)
  BY SameProbe DEF InUse, Table!InUse
<1>2. \A arr, lg : Entered(arr, lg) = Table!Entered(arr, lg)
  BY <1>1 DEF Entered, Table!Entered
<1>3. \A arr, lg, key : Distinct(arr, lg, key) <=> Table!Distinct(arr, lg, key)
  BY <1>1 DEF Distinct, Table!Distinct
<1>4. \A s, H, key, E : Lists(s, H, key, E) <=> Table!Lists(s, H, key, E)
  BY DEF Lists, ElementsOf, Table!Lists, Table!ElementsOf
<1>5. \A q : valid(q) = Table!valid(q)
  BY DEF valid, FoldLeft, MapThenFoldSet, Max, EMPTY,
         Table!valid, Table!FoldLeft, Table!MapThenFoldSet, Table!Max, Table!EMPTY
<1>6. \A arr, lg : Entries(arr, lg) = Table!Entries(arr, lg)
  BY <1>5 DEF Entries, Table!Entries
<1>. QED BY <1>1, <1>2, <1>3, <1>4, <1>5, <1>6

\* Sets are counted in the same way.
LEMMA SameCount ==
  \A S : Cardinality(S) = Table!Cardinality(S) /\ (IsFiniteSet(S) <=> Table!IsFiniteSet(S))
BY DEF Cardinality, Table!Cardinality, IsFiniteSet, Table!IsFiniteSet

(* Its lemmas, of the table of coupons. *)

\* Powers of two grow with their exponent,
LEMMA PowersOrdered ==
  ASSUME NEW lg \in Nat, Powers(lg), NEW a \in Nat, NEW b \in Nat, a <= b, b <= lg
  PROVE  2 ^ a <= 2 ^ b
BY TablePremises, SameProbe, Table!PowersOrdered

\* A table of the size computed for its entries is not overloaded, and one of
\* a larger size is not either.
LEMMA LgForHolds ==
  ASSUME NEW count \in Nat, NEW lg \in Nat, Powers(lg), count + 1 <= lg
  PROVE  lgFor(count) \in 0 .. count + 1 /\ ~ overloaded(count, lgFor(count))
BY TablePremises, SameProbe, Table!LgForHolds DEF overloaded, Table!overloaded, lgFor, Table!lgFor

\* What does not overload a table does not overload a larger one.
LEMMA LargerHolds ==
  ASSUME NEW lg \in Nat, Powers(lg), NEW a \in Nat, NEW b \in Nat, a <= b, b <= lg,
         NEW count \in Nat, ~ overloaded(count, a)
  PROVE  ~ overloaded(count, b)
BY TablePremises, SameProbe, Table!LargerHolds DEF overloaded, Table!overloaded

\* The walk comes by every cell, and by no other.
LEMMA WalkCovers ==
  ASSUME NEW lg \in Nat, Powers(lg), NEW key \in Nat
  PROVE  /\ \A i \in Cells(lg) : probe(key, lg, i) \in Cells(lg)
         /\ \A c \in Cells(lg) : \E i \in Cells(lg) : probe(key, lg, i) = c
BY TablePremises, SameProbe, Table!WalkCovers

\* The search ends at the first cell of the walk that is empty or matches.
LEMMA SearchEnds ==
  ASSUME NEW arr, NEW lg, NEW key, NEW E, Sound(arr, lg, key, E),
         NEW k \in Nat, NEW M, \E c \in Cells(lg) : arr[c] = EMPTY \/ arr[c] \in M
  PROVE  /\ StopsAt(arr, lg, k, M) # {}
         /\ \E i \in Cells(lg) :
              /\ probe(k, lg, i) = cellAt(arr, lg, k, M)
              /\ arr[probe(k, lg, i)] = EMPTY \/ arr[probe(k, lg, i)] \in M
              /\ \A j \in Cells(lg) : j < i => arr[probe(k, lg, j)] # EMPTY /\ arr[probe(k, lg, j)] \notin M
BY TablePremises, SameProbe, SameTable, Table!SearchEnds

\* ... which is the cell of an entry that matches, if there is one.
LEMMA SearchFinds ==
  ASSUME NEW arr, NEW lg, NEW key, NEW E, Sound(arr, lg, key, E), Probed(arr, lg, key),
         NEW k \in Nat, NEW M, \A e \in M : e \in E /\ key[e] = k,
         NEW c \in Cells(lg), arr[c] \in M,
         \A d \in Cells(lg) : arr[d] \in M => d = c
  PROVE  cellAt(arr, lg, k, M) = c
BY TablePremises, SameProbe, SameTable, Table!SearchFinds

\* ... and an empty one if there is none.
LEMMA SearchMisses ==
  ASSUME NEW arr, NEW lg, NEW key, NEW E, Sound(arr, lg, key, E),
         NEW k \in Nat, NEW M, \A d \in Cells(lg) : arr[d] \notin M,
         \E c \in Cells(lg) : arr[c] = EMPTY
  PROVE  /\ cellAt(arr, lg, k, M) \in Cells(lg)
         /\ arr[cellAt(arr, lg, k, M)] = EMPTY
         /\ Reaches(arr, lg, k, cellAt(arr, lg, k, M))
BY TablePremises, SameProbe, SameTable, Table!SearchMisses

\* An entry put where its walk comes, into an empty cell or in place of an entry
\* with its key, leaves every entry to be found.
LEMMA PutKeepsProbed ==
  ASSUME NEW arr, NEW lg, NEW key, NEW E, Sound(arr, lg, key, E), Probed(arr, lg, key),
         NEW e \in E, NEW c \in Cells(lg), Reaches(arr, lg, key[e], c)
  PROVE  Sound([arr EXCEPT ![c] = e], lg, key, E) /\ Probed([arr EXCEPT ![c] = e], lg, key)
BY TablePremises, SameProbe, SameTable, Table!PutKeepsProbed

\* A table holds a finite number of entries, one per cell in use.
LEMMA HeldCount ==
  ASSUME NEW arr, NEW lg, NEW key, NEW E, Filled(arr, lg, E), Distinct(arr, lg, key)
  PROVE  /\ Entered(arr, lg) \subseteq E
         /\ IsFiniteSet(InUse(arr, lg)) /\ IsFiniteSet(Entered(arr, lg))
         /\ Cardinality(InUse(arr, lg)) = Cardinality(Entered(arr, lg))
         /\ Cardinality(Entered(arr, lg)) \in Nat
         /\ (\A c \in Cells(lg) : arr[c] # EMPTY) => Cardinality(Entered(arr, lg)) = 2 ^ lg
BY TablePremises, SameProbe, SameTable, SameEntries, SameCount, Table!HeldCount

\* A table with fewer entries than cells has an empty one.
LEMMA Room ==
  ASSUME NEW arr, NEW lg, NEW key, NEW E, Filled(arr, lg, E), Distinct(arr, lg, key),
         Cardinality(Entered(arr, lg)) # 2 ^ lg
  PROVE  \E c \in Cells(lg) : arr[c] = EMPTY
BY TablePremises, SameProbe, SameTable, SameEntries, SameCount, Table!Room

\* An entry with a new key in an empty cell is one more.
LEMMA OneMore ==
  ASSUME NEW arr, NEW lg, NEW key, NEW E, Filled(arr, lg, E), Distinct(arr, lg, key),
         NEW e \in E, NEW c \in Cells(lg), arr[c] = EMPTY,
         \A x \in Entered(arr, lg) : key[x] # key[e]
  PROVE  /\ Distinct([arr EXCEPT ![c] = e], lg, key)
         /\ Entered([arr EXCEPT ![c] = e], lg) = Entered(arr, lg) \union {e}
<1>. DEFINE new == [arr EXCEPT ![c] = e]
<1>1. \A d \in Cells(lg) : new[d] = IF d = c THEN e ELSE arr[d]
  BY DEF Filled, IsTable
<1>2. e # EMPTY
  BY DEF Filled
<1>. HIDE DEF new
<1>3. InUse(new, lg) = InUse(arr, lg) \union {c}
  BY <1>1, <1>2 DEF InUse
<1>4. \A d \in InUse(arr, lg) : d # c /\ new[d] = arr[d] /\ arr[d] \in Entered(arr, lg)
  BY <1>1 DEF InUse, Entered
<1>5. new[c] = e
  BY <1>1
<1>6. Entered(new, lg) = Entered(arr, lg) \union {e}
  <2>1. ASSUME NEW x \in Entered(new, lg) PROVE x \in Entered(arr, lg) \union {e}
    <3>1. PICK d \in InUse(new, lg) : x = new[d]
      BY DEF Entered
    <3>. QED BY <1>3, <1>4, <1>5, <3>1
  <2>2. ASSUME NEW x \in Entered(arr, lg) PROVE x \in Entered(new, lg)
    <3>1. PICK d \in InUse(arr, lg) : x = arr[d]
      BY DEF Entered
    <3>. QED BY <1>3, <1>4, <3>1 DEF Entered
  <2>3. e \in Entered(new, lg)
    BY <1>3, <1>5 DEF Entered
  <2>. QED BY <2>1, <2>2, <2>3
<1>7. Distinct(new, lg, key)
  BY <1>3, <1>4, <1>5 DEF Distinct
<1>. QED BY <1>6, <1>7 DEF new

\* The scan of a sequence of cells with distinct keys.
LEMMA Scanned ==
  ASSUME NEW q, NEW n \in Nat, DOMAIN q = 1 .. n, NEW key, NEW E, EMPTY \notin E,
         \A i \in 1 .. n : q[i] \in E \union {EMPTY},
         \A i, j \in 1 .. n : q[i] # EMPTY /\ q[j] # EMPTY /\ key[q[i]] = key[q[j]] => i = j
  PROVE  Lists(valid(q), {q[i] : i \in 1 .. n} \ {EMPTY}, key, E)
BY TablePremises, SameProbe, SameEntries, Table!Scanned

\* ... and of a table.
LEMMA EntriesAreHeld ==
  ASSUME NEW arr, NEW lg, NEW key, NEW E, Filled(arr, lg, E), Distinct(arr, lg, key)
  PROVE  Lists(Entries(arr, lg), Entered(arr, lg), key, E)
BY TablePremises, SameTable, SameEntries, Table!EntriesAreHeld

----------------------------------------------------------------------------
(* What a sketch of the coupons D is. *)

\* A coupon; the pairs of an array, of a slot and its register, are of this form.
Coupon    == Nat \X (1 .. 63)
addressOf == [c \in Coupon |-> c[1]]
itself    == [c \in Coupon |-> c]

CouponFields == {"lgK", "mode", "ooo", "arr", "lg", "count"}
HllFields    == {"lgK", "mode", "ooo", "reg"}

IsLgK(lgK) == lgK \in Nat /\ lgK >= 2 /\ Powers(lgK + 1)

\* An object of a coupon mode, whose cells hold the coupons D, each once.
IsCoupons(k, D) ==
  /\ k = [f \in CouponFields |-> k[f]]
  /\ IsLgK(k.lgK) /\ k.mode \in {"LIST", "SET"}
  /\ Filled(k.arr, k.lg, Coupon) /\ Distinct(k.arr, k.lg, itself)
  /\ Entered(k.arr, k.lg) = D /\ k.count = Cardinality(D)

\* A list fills its cells from the first on and always has one left.
IsList(k, D) ==
  /\ IsCoupons(k, D) /\ k.mode = "LIST" /\ k.lg = LgList
  /\ \A i \in Cells(LgList) : k.arr[i] # EMPTY <=> i < k.count
  /\ k.count < 2 ^ LgList

\* A table in which every coupon is found.
IsTableOf(k, D) ==
  /\ IsCoupons(k, D) /\ k.mode = "SET"
  /\ Probed(k.arr, k.lg, addressOf)
  /\ k.lgK >= MinSetLgK /\ k.lg \in LgInitSet .. k.lgK - SetMargin

\* A set is a table that is not overloaded, and no larger than that.
Loaded(k) == ~ overloaded(k.count, k.lg) /\ (k.lg > LgInitSet => overloaded(k.count, k.lg - 1))

IsSet(k, D) == IsTableOf(k, D) /\ Loaded(k)

\* The register of slot s that the coupons D make.
Register(D, lgK, s, v) ==
  /\ \A d \in D : d[1] % (2 ^ lgK) = s => d[2] <= v
  /\ v = 0 \/ \E d \in D : d[1] % (2 ^ lgK) = s /\ d[2] = v

IsHll(k, D) ==
  /\ D \subseteq Coupon /\ k = [f \in HllFields |-> k[f]]
  /\ IsLgK(k.lgK) /\ k.mode = "HLL"
  /\ k.reg = [s \in SlotsOf(k.lgK) |-> k.reg[s]]
  /\ \A s \in SlotsOf(k.lgK) : k.reg[s] \in 0 .. 63 /\ Register(D, k.lgK, s, k.reg[s])

\* A sketch of D.
IsOf(k, D) ==
  /\ D \subseteq Coupon /\ IsFiniteSet(D)
  /\ IsList(k, D) \/ IsSet(k, D) \/ IsHll(k, D)

----------------------------------------------------------------------------
(* Sizes. *)

\* The powers of two up to a smaller exponent.
LEMMA PowersBelow ==
  ASSUME NEW lg \in Nat, Powers(lg), NEW a \in Nat, a <= lg
  PROVE  Powers(a) /\ 2 ^ a \in Nat \ {0} /\ 2 ^ (a + 1) = 2 * 2 ^ a
<1>1. a \in 0 .. lg /\ \A n \in 0 .. a : n \in 0 .. lg
  OBVIOUS
<1>. QED BY <1>1 DEF Powers

\* The sizes of an object.
LEMMA SizesAre ==
  ASSUME NEW lgK, IsLgK(lgK)
  PROVE  /\ lgK \in Nat /\ Powers(lgK) /\ 2 ^ lgK \in Nat \ {0}
         /\ 2 ^ (lgK + 1) = 2 * 2 ^ lgK
         /\ lgK >= MinSetLgK => /\ LgInitSet \in LgInitSet .. lgK - SetMargin
                                /\ \A lg \in LgInitSet .. lgK - SetMargin :
                                     /\ lg \in Nat /\ lg <= lgK /\ Powers(lg)
                                     /\ 2 ^ lg \in Nat \ {0} /\ 2 ^ (lg + 1) = 2 * 2 ^ lg
<1>1. lgK \in Nat /\ lgK + 1 \in Nat /\ Powers(lgK + 1)
  BY DEF IsLgK
<1>2. Powers(lgK) /\ 2 ^ lgK \in Nat \ {0} /\ 2 ^ (lgK + 1) = 2 * 2 ^ lgK
  BY <1>1, PowersBelow
<1>3. ASSUME lgK >= MinSetLgK, NEW lg \in LgInitSet .. lgK - SetMargin
      PROVE  /\ lg \in Nat /\ lg <= lgK /\ Powers(lg)
             /\ 2 ^ lg \in Nat \ {0} /\ 2 ^ (lg + 1) = 2 * 2 ^ lg
  <2>1. lg \in Nat /\ lg <= lgK
    BY <1>1, HllImplAssumption
  <2>. QED BY <1>1, <1>2, <2>1, PowersBelow
<1>4. lgK >= MinSetLgK => LgInitSet \in LgInitSet .. lgK - SetMargin
  BY <1>1, HllImplAssumption
<1>. QED BY <1>1, <1>2, <1>3, <1>4

\* The keys of coupons.
LEMMA CouponsHaveKeys ==
  /\ EMPTY \notin Coupon
  /\ \A c \in Coupon : /\ addressOf[c] = c[1] /\ itself[c] = c /\ c = <<c[1], c[2]>>
                       /\ c[1] \in Nat /\ c[2] \in 1 .. 63
  /\ addressOf = [c \in Coupon |-> addressOf[c]]
<1>1. \A c \in Coupon : addressOf[c] = c[1] /\ itself[c] = c
  BY DEF addressOf, itself
<1>2. \A c \in Coupon : c = <<c[1], c[2]>> /\ c[1] \in Nat /\ c[2] \in 1 .. 63
  BY DEF Coupon
<1>3. EMPTY \notin Coupon
  BY DEF Coupon, EMPTY
<1>4. addressOf = [c \in Coupon |-> addressOf[c]]
  BY DEF addressOf
<1>. QED BY <1>1, <1>2, <1>3, <1>4

\* A table of coupons is one that searches by address can be made in.
LEMMA FilledIsSound ==
  ASSUME NEW arr, NEW lg, Filled(arr, lg, Coupon)
  PROVE  Sound(arr, lg, addressOf, Coupon)
BY CouponsHaveKeys DEF Sound

\* Coupons that are held once.
LEMMA CouponsAre ==
  ASSUME NEW k, NEW D, IsCoupons(k, D)
  PROVE  /\ D \subseteq Coupon /\ IsFiniteSet(D) /\ k.count \in Nat
         /\ \A i \in Cells(k.lg) : k.arr[i] # EMPTY => k.arr[i] \in D
         /\ \A i, j \in Cells(k.lg) : k.arr[i] # EMPTY /\ k.arr[i] = k.arr[j] => i = j
         /\ \A c \in D : \E i \in Cells(k.lg) : k.arr[i] = c /\ k.arr[i] # EMPTY
<1>1. D \subseteq Coupon /\ IsFiniteSet(D) /\ Cardinality(D) \in Nat
  BY HeldCount DEF IsCoupons
<1>2. \A i \in Cells(k.lg) : k.arr[i] # EMPTY => k.arr[i] \in D
  BY DEF IsCoupons, Entered, InUse
<1>3. \A i, j \in Cells(k.lg) : k.arr[i] # EMPTY /\ k.arr[i] = k.arr[j] => i = j
  <2>1. ASSUME NEW i \in Cells(k.lg), NEW j \in Cells(k.lg), k.arr[i] # EMPTY, k.arr[i] = k.arr[j]
        PROVE  i = j
    BY <2>1 DEF IsCoupons, Distinct, InUse
  <2>. QED BY <2>1
<1>4. \A c \in D : \E i \in Cells(k.lg) : k.arr[i] = c /\ k.arr[i] # EMPTY
  BY DEF IsCoupons, Entered, InUse
<1>5. k.count \in Nat
  BY <1>1 DEF IsCoupons
<1>. QED BY <1>1, <1>2, <1>3, <1>4, <1>5

----------------------------------------------------------------------------
(* The hash tables of coupons. *)

\* A table that holds D, no two entries with the same value of key.
IsTab(arr, lg, key, D) ==
  /\ Filled(arr, lg, Coupon) /\ Distinct(arr, lg, key) /\ Probed(arr, lg, addressOf)
  /\ Entered(arr, lg) = D

\* What it holds.
LEMMA TabHolds ==
  ASSUME NEW arr, NEW lg, NEW key, NEW D, IsTab(arr, lg, key, D)
  PROVE  /\ D \subseteq Coupon /\ IsFiniteSet(D) /\ Cardinality(D) \in Nat
         /\ Cardinality(D) # 2 ^ lg => \E c \in Cells(lg) : arr[c] = EMPTY
         /\ \A i \in Cells(lg) : arr[i] # EMPTY => arr[i] \in D
         /\ \A c \in D : \E i \in Cells(lg) : arr[i] = c /\ arr[i] # EMPTY
<1>1. D \subseteq Coupon /\ IsFiniteSet(D) /\ Cardinality(D) \in Nat
  BY HeldCount DEF IsTab
<1>2. Cardinality(D) # 2 ^ lg => \E c \in Cells(lg) : arr[c] = EMPTY
  BY Room DEF IsTab
<1>3. /\ \A i \in Cells(lg) : arr[i] # EMPTY => arr[i] \in D
      /\ \A c \in D : \E i \in Cells(lg) : arr[i] = c /\ arr[i] # EMPTY
  BY DEF IsTab, Entered, InUse
<1>. QED BY <1>1, <1>2, <1>3

\* An empty table.
LEMMA EmptyTab ==
  ASSUME NEW lg \in Nat, Powers(lg), NEW key
  PROVE  IsTab(EmptyTable(lg), lg, key, {})
<1>1. Filled(EmptyTable(lg), lg, Coupon)
  BY CouponsHaveKeys DEF Filled, IsTable, EmptyTable
<1>2. InUse(EmptyTable(lg), lg) = {}
  BY DEF InUse, EmptyTable
<1>3. \A c \in Cells(lg) : EmptyTable(lg)[c] = EMPTY
  BY DEF EmptyTable
<1>. QED BY <1>1, <1>2, <1>3 DEF IsTab, Entered, Distinct, Probed

\* The search for a new entry ends at an empty cell,
LEMMA NewPlace ==
  ASSUME NEW arr, NEW lg, NEW key, NEW D, IsTab(arr, lg, key, D), Cardinality(D) # 2 ^ lg,
         NEW e \in Coupon, NEW M, \A d \in D : d \notin M
  PROVE  /\ StopsAt(arr, lg, e[1], M) # {}
         /\ cellAt(arr, lg, e[1], M) \in Cells(lg)
         /\ arr[cellAt(arr, lg, e[1], M)] = EMPTY
         /\ Reaches(arr, lg, e[1], cellAt(arr, lg, e[1], M))
<1>. DEFINE c == cellAt(arr, lg, e[1], M)
<1>0. e[1] \in Nat
  BY CouponsHaveKeys
<1>1. Sound(arr, lg, addressOf, Coupon)
  BY FilledIsSound DEF IsTab
<1>2. \E d \in Cells(lg) : arr[d] = EMPTY
  BY TabHolds
<1>4. StopsAt(arr, lg, e[1], M) # {}
  BY <1>0, <1>1, <1>2, SearchEnds
<1>6. c \in Cells(lg) /\ arr[c] = EMPTY /\ Reaches(arr, lg, e[1], c)
  <2>1. CASE \A d \in Cells(lg) : arr[d] \notin M
    BY <1>0, <1>1, <1>2, <2>1, SearchMisses
  <2>2. CASE EMPTY \in M
    <3>1. PICK i \in Cells(lg) :
              /\ probe(e[1], lg, i) = c
              /\ arr[probe(e[1], lg, i)] = EMPTY \/ arr[probe(e[1], lg, i)] \in M
              /\ \A j \in Cells(lg) : j < i => arr[probe(e[1], lg, j)] # EMPTY /\ arr[probe(e[1], lg, j)] \notin M
      BY <1>0, <1>1, <1>2, SearchEnds
    <3>2. c \in Cells(lg)
      BY <1>0, <3>1, WalkCovers DEF Filled, IsTab
    <3>3. arr[c] = EMPTY
      BY <3>1, <3>2, TabHolds
    <3>. QED BY <3>1, <3>2, <3>3 DEF Reaches
  <2>3. ASSUME NEW d \in Cells(lg), arr[d] \in M PROVE EMPTY \in M
    BY <2>3, TabHolds
  <2>. QED BY <2>1, <2>2, <2>3
<1>. QED BY <1>4, <1>6

\* ... and it can be put there.
LEMMA Placed ==
  ASSUME NEW arr, NEW lg, NEW key, NEW D, IsTab(arr, lg, key, D), NEW e \in Coupon,
         \A d \in D : key[d] # key[e],
         NEW c \in Cells(lg), arr[c] = EMPTY, Reaches(arr, lg, e[1], c)
  PROVE  IsTab([arr EXCEPT ![c] = e], lg, key, D \union {e})
<1>. DEFINE new == [arr EXCEPT ![c] = e]
<1>1. Sound(arr, lg, addressOf, Coupon) /\ Probed(arr, lg, addressOf)
  BY FilledIsSound DEF IsTab
<1>2. Filled(arr, lg, Coupon) /\ Distinct(arr, lg, key) /\ Entered(arr, lg) = D
  BY DEF IsTab
<1>3. Reaches(arr, lg, addressOf[e], c)
  BY CouponsHaveKeys
<1>4. Sound(new, lg, addressOf, Coupon) /\ Probed(new, lg, addressOf)
  BY <1>1, <1>3, PutKeepsProbed
<1>5. \A x \in Entered(arr, lg) : key[x] # key[e]
  BY <1>2
<1>6. Distinct(new, lg, key)
  BY <1>2, <1>5, OneMore
<1>7. Entered(new, lg) = Entered(arr, lg) \union {e}
  BY <1>2, <1>5, OneMore
<1>. QED BY <1>2, <1>4, <1>6, <1>7 DEF IsTab, Sound

\* The search for a coupon, as the search for a set.
searchThrows(k, c) == findThrows(k.arr, k.lg, c[1], LAMBDA cell : cell = c)

\* The search for a coupon is a search for one of its set.
LEMMA CellOfIs ==
  ASSUME NEW k, NEW c
  PROVE  /\ cellOf(k, c) = cellAt(k.arr, k.lg, c[1], {c})
         /\ searchThrows(k, c) <=> StopsAt(k.arr, k.lg, c[1], {c}) = {}
<1>1. Stops(k.arr, k.lg, c[1], LAMBDA cell : cell = c) = StopsAt(k.arr, k.lg, c[1], {c})
  BY DEF Stops, StopsAt, Cells
<1>. QED BY <1>1 DEF cellOf, searchThrows, findThrows, findCell, cellAt

\* An object whose array is such a table.
IsCouponTab(k, D) ==
  /\ k = [f \in CouponFields |-> k[f]]
  /\ IsTab(k.arr, k.lg, itself, D)

\* The search for a coupon.
LEMMA CellOfFinds ==
  ASSUME NEW k, NEW D, IsCouponTab(k, D), Cardinality(D) # 2 ^ k.lg, NEW c \in Coupon
  PROVE  /\ ~ searchThrows(k, c)
         /\ k.arr[cellOf(k, c)] = IF c \in D THEN c ELSE EMPTY
         /\ c \notin D => cellOf(k, c) \in Cells(k.lg)
<1>. DEFINE arr == k.arr
            lg  == k.lg
<1>0. c[1] \in Nat /\ addressOf[c] = c[1] /\ itself[c] = c /\ \A d \in Coupon : itself[d] = d
  BY CouponsHaveKeys
<1>1. IsTab(arr, lg, itself, D) /\ Sound(arr, lg, addressOf, Coupon) /\ Probed(arr, lg, addressOf)
  BY FilledIsSound DEF IsTab, IsCouponTab
<1>2. CASE c \in D
  <2>1. PICK i \in Cells(lg) : arr[i] = c
    BY <1>1, <1>2, TabHolds
  <2>2. \A d \in Cells(lg) : arr[d] \in {c} => d = i
    <3>1. ASSUME NEW d \in Cells(lg), arr[d] \in {c} PROVE d = i
      <4>1. d \in InUse(arr, lg) /\ i \in InUse(arr, lg)
        BY <2>1, <3>1, CouponsHaveKeys DEF InUse
      <4>2. itself[arr[d]] = itself[arr[i]]
        BY <2>1, <3>1
      <4>. QED BY <1>1, <4>1, <4>2 DEF IsTab, Distinct
    <3>. QED BY <3>1
  <2>3. \A e \in {c} : e \in Coupon /\ addressOf[e] = c[1]
    BY <1>0
  <2>4. arr[i] \in {c}
    BY <2>1
  <2>5. cellAt(arr, lg, c[1], {c}) = i
    <3>. DEFINE M == {c}
    <3>. HIDE DEF M
    <3>. QED BY <1>0, <1>1, <2>2, <2>3, <2>4, SearchFinds DEF M
  <2>6. StopsAt(arr, lg, c[1], {c}) # {}
    <3>. DEFINE M == {c}
    <3>. HIDE DEF M
    <3>. QED BY <1>0, <1>1, <2>4, SearchEnds DEF M
  <2>. QED BY <1>2, <2>1, <2>5, <2>6, CellOfIs
<1>3. CASE c \notin D
  <2>2. \A d \in D : d \notin {c}
    BY <1>3
  <2>3. /\ StopsAt(arr, lg, c[1], {c}) # {}
        /\ cellAt(arr, lg, c[1], {c}) \in Cells(lg)
        /\ arr[cellAt(arr, lg, c[1], {c})] = EMPTY
    <3>. DEFINE M == {c}
    <3>1. \A d \in D : d \notin M
      BY <2>2
    <3>. HIDE DEF M
    <3>2. /\ StopsAt(arr, lg, c[1], M) # {}
          /\ cellAt(arr, lg, c[1], M) \in Cells(lg)
          /\ arr[cellAt(arr, lg, c[1], M)] = EMPTY
      BY <1>1, <3>1, NewPlace
    <3>. QED BY <3>2 DEF M
  <2>. QED BY <1>3, <2>3, CellOfIs
<1>. QED BY <1>2, <1>3

\* A coupon put at its cell.
LEMMA PutIs ==
  ASSUME NEW k, NEW D, IsCouponTab(k, D), Cardinality(D) # 2 ^ k.lg, NEW c \in Coupon, c \notin D
  PROVE  /\ IsCouponTab(putCoupon(k, c), D \union {c})
         /\ putCoupon(k, c).lg = k.lg /\ putCoupon(k, c).lgK = k.lgK
         /\ putCoupon(k, c).mode = k.mode /\ putCoupon(k, c).ooo = k.ooo
         /\ putCoupon(k, c).count = k.count
<1>. DEFINE x == cellOf(k, c)
            new == [k.arr EXCEPT ![x] = c]
            n == putCoupon(k, c)
<1>1. IsTab(k.arr, k.lg, itself, D)
  BY DEF IsCouponTab
<1>2. \A d \in D : itself[d] # itself[c]
  BY <1>1, CouponsHaveKeys, TabHolds
<1>4. IsTab(new, k.lg, itself, D \union {c})
  <2>. DEFINE M == {c}
              y == cellAt(k.arr, k.lg, c[1], M)
  <2>1. x = y
    BY CellOfIs
  <2>2. \A d \in D : d \notin M
    OBVIOUS
  <2>. HIDE DEF M
  <2>3. y \in Cells(k.lg) /\ k.arr[y] = EMPTY /\ Reaches(k.arr, k.lg, c[1], y)
    BY <1>1, <2>2, NewPlace
  <2>. HIDE DEF y, x
  <2>. QED BY <1>1, <1>2, <2>1, <2>3, Placed
<1>5. /\ n = [f \in CouponFields |-> n[f]]
      /\ n.arr = new /\ n.lg = k.lg /\ n.lgK = k.lgK /\ n.mode = k.mode /\ n.ooo = k.ooo
      /\ n.count = k.count
  <2>1. n = [k EXCEPT !.arr[x] = c]
    BY DEF putCoupon
  <2>. HIDE DEF x, n
  <2>. QED BY <2>1 DEF IsCouponTab, CouponFields
<1>. QED BY <1>4, <1>5 DEF IsCouponTab

----------------------------------------------------------------------------
(* Growing. *)

\* The first n of a list of coupons.
FirstOf(q, n) == {q[j] : j \in 1 .. n}

\* Coupon i of a list is one more than those before it.
LEMMA NextOf ==
  ASSUME NEW q, NEW H, NEW key, Lists(q, H, key, Coupon), NEW i \in 1 .. Len(q)
  PROVE  /\ q[i] \in H /\ q[i] \in Coupon
         /\ FirstOf(q, i) = FirstOf(q, i - 1) \union {q[i]}
         /\ FirstOf(q, i) \subseteq H /\ FirstOf(q, i - 1) \subseteq H
         /\ \A e \in FirstOf(q, i - 1) : key[e] # key[q[i]]
<1>. DEFINE P == {q[j] : j \in 1 .. (i - 1)}
            Q == {q[j] : j \in 1 .. i}
<1>1. q \in Seq(Coupon) /\ Len(q) \in Nat /\ ElementsOf(q) = H
  BY DEF Lists
<1>2. /\ i \in Nat /\ 1 .. i = 1 .. (i - 1) \union {i}
      /\ \A j \in 1 .. (i - 1) : j \in 1 .. Len(q) /\ j # i
      /\ \A j \in 1 .. i : j \in 1 .. Len(q)
  BY <1>1
<1>3. \A j \in 1 .. Len(q) : q[j] \in H /\ q[j] \in Coupon
  BY <1>1 DEF ElementsOf
<1>4. \A j \in 1 .. (i - 1) : key[q[j]] # key[q[i]]
  BY <1>2 DEF Lists
<1>5. Q = P \union {q[i]} /\ P \subseteq H /\ Q \subseteq H
  BY <1>2, <1>3
<1>. QED BY <1>3, <1>4, <1>5 DEF FirstOf

\* None and all of them.
LEMMA NoneAndAll ==
  ASSUME NEW q, NEW H, NEW key, Lists(q, H, key, Coupon)
  PROVE  /\ FirstOf(q, 0) = {} /\ FirstOf(q, Len(q)) = H
         /\ Len(q) \in Nat /\ DOMAIN q = 1 .. Len(q)
<1>1. 1 .. 0 = {}
  OBVIOUS
<1>. QED BY <1>1 DEF Lists, ElementsOf, FirstOf

\* The pairs of an object of a coupon mode.
LEMMA PairsAre ==
  ASSUME NEW k, NEW key, k.mode # "HLL", Filled(k.arr, k.lg, Coupon), Distinct(k.arr, k.lg, key)
  PROVE  Lists(pairs(k), Entered(k.arr, k.lg), key, Coupon)
BY EntriesAreHeld DEF pairs

\* The fields that a change of the table leaves alone.
SameBut(k, n) == n.lgK = k.lgK /\ n.mode = k.mode /\ n.ooo = k.ooo

\* What growing makes of q, the coupons of p, after n of them were put.
putting(p, q, i, acc) == putCoupon(acc, q[i])

putUpTo(p, q, n, acc) ==
  /\ IsCouponTab(acc, FirstOf(q, n)) /\ SameBut(p, acc)
  /\ acc.lg = p.lg /\ acc.count = p.count

Puts == INSTANCE FoldTheorems WITH step <- putting, choose <- lastOf, Good <- putUpTo

\* A grown set has the coupons it had, in a table of twice the cells.
LEMMA GrownIs ==
  ASSUME NEW k, NEW D, IsCouponTab(k, D), k.mode # "HLL", k.lg + 1 \in Nat, Powers(k.lg + 1),
         Cardinality(D) < 2 ^ (k.lg + 1)
  PROVE  /\ IsCouponTab(growHashSet(k), D) /\ SameBut(k, growHashSet(k))
         /\ growHashSet(k).lg = k.lg + 1 /\ growHashSet(k).count = k.count
<1>. DEFINE b == [k EXCEPT !.arr = EmptyTable(k.lg + 1), !.lg = k.lg + 1]
            q == pairs(k)
            n == Len(q)
            l == k.lg + 1
<1>1. IsTab(k.arr, k.lg, itself, D)
  BY DEF IsCouponTab
<1>2. Lists(q, D, itself, Coupon)
  BY <1>1, PairsAre DEF IsTab
<1>3. b = [f \in CouponFields |-> b[f]] /\ SameBut(k, b) /\ b.lg = l /\ b.count = k.count
      /\ b.arr = EmptyTable(l)
  <2>1. k = [f \in CouponFields |-> k[f]]
    BY DEF IsCouponTab
  <2>. QED BY <2>1 DEF CouponFields, SameBut
<1>4. growHashSet(k) = FoldLeft(LAMBDA acc, c : putCoupon(acc, c), b, q)
  BY DEF growHashSet
<1>. HIDE DEF b, q, l
<1>5. IsTab(EmptyTable(l), l, itself, {})
  BY EmptyTab DEF l
<1>6. n \in Nat /\ DOMAIN q = 1 .. n /\ FirstOf(q, 0) = {} /\ FirstOf(q, n) = D
  BY <1>2, NoneAndAll
<1>7. growHashSet(k) = Puts!Left(b, q, b, n)
  BY <1>4, <1>6 DEF FoldLeft, MapThenFoldSet, Max, Puts!Left, Puts!Fold,
         Puts!MapThenFoldSet, putting, lastOf
<1>8. Puts!ChoosesLast
  BY DEF Puts!ChoosesLast, lastOf
<1>9. ASSUME NEW i \in 1 .. n, NEW acc, putUpTo(b, q, i - 1, acc)
      PROVE  putUpTo(b, q, i, putting(b, q, i, acc))
  <2>. DEFINE P == FirstOf(q, i - 1)
  <2>1. /\ q[i] \in Coupon /\ FirstOf(q, i) = P \union {q[i]} /\ P \subseteq D
        /\ \A e \in P : itself[e] # itself[q[i]]
    BY <1>2, NextOf
  <2>2. IsCouponTab(acc, P) /\ SameBut(b, acc) /\ acc.lg = l /\ acc.count = b.count
    BY <1>3, <1>9 DEF putUpTo
  <2>. HIDE DEF P
  <2>3. q[i] \notin P
    BY <2>1
  <2>4. Cardinality(P) # 2 ^ acc.lg
    <3>1. IsFiniteSet(D) /\ Cardinality(D) \in Nat
      BY <1>1, TabHolds
    <3>2. Cardinality(P) <= Cardinality(D) /\ Cardinality(P) \in Nat
      BY <2>1, <3>1, FS_Subset, FS_CardinalityType
    <3>3. 2 ^ l \in Nat
      BY DEF Powers, l
    <3>. QED BY <2>2, <3>1, <3>2, <3>3 DEF l
  <2>5. /\ IsCouponTab(putCoupon(acc, q[i]), P \union {q[i]})
        /\ putCoupon(acc, q[i]).lg = acc.lg /\ putCoupon(acc, q[i]).count = acc.count
        /\ SameBut(acc, putCoupon(acc, q[i]))
    BY <2>1, <2>2, <2>3, <2>4, PutIs DEF SameBut
  <2>6. SameBut(b, putCoupon(acc, q[i]))
    BY <2>2, <2>5 DEF SameBut
  <2>. QED BY <1>3, <2>1, <2>2, <2>5, <2>6 DEF putUpTo, putting
<1>10. Puts!Preserves(b, q, n)
  BY <1>9 DEF Puts!Preserves
<1>11. putUpTo(b, q, 0, b)
  BY <1>3, <1>5, <1>6 DEF putUpTo, IsCouponTab, SameBut
<1>12. putUpTo(b, q, n, Puts!Left(b, q, b, n))
  BY <1>6, <1>8, <1>10, <1>11, Puts!LeftKeeps
<1>. QED BY <1>3, <1>6, <1>7, <1>12 DEF putUpTo, SameBut, l

----------------------------------------------------------------------------
(* Insertions into a set. *)

\* A set is a table.
LEMMA TableIs ==
  ASSUME NEW k, NEW D
  PROVE  IsTableOf(k, D) <=>
           /\ IsCouponTab(k, D) /\ IsLgK(k.lgK) /\ k.mode = "SET" /\ k.count = Cardinality(D)
           /\ k.lgK >= MinSetLgK /\ k.lg \in LgInitSet .. k.lgK - SetMargin
BY DEF IsTableOf, IsCoupons, IsCouponTab, IsTab

\* The table is full enough for its size,
FullEnough(k) == k.lg > LgInitSet => overloaded(k.count, k.lg - 1)

\* A load is that of fewer coupons, or of fewer cells.
LEMMA LoadsAre ==
  ASSUME NEW lgK, IsLgK(lgK), lgK >= MinSetLgK, NEW lg \in LgInitSet .. lgK - SetMargin,
         NEW n \in Nat
  PROVE  /\ ~ overloaded(n, lg) => n < 2 ^ lg /\ n + 1 < 2 ^ (lg + 1) /\ ~ overloaded(n + 1, lg + 1)
         /\ lg > LgInitSet /\ overloaded(n, lg - 1) => overloaded(n + 1, lg - 1)
<1>. DEFINE x == 2 ^ lg
<1>1. LgInitSet \in Nat /\ lgK \in Nat /\ SetMargin \in Nat
  BY SizesAre, HllImplAssumption
<1>2. x \in Nat \ {0} /\ 2 ^ (lg + 1) = 2 * x
  BY SizesAre
<1>3. 4 <= 3 * x
  <2>1. 2 ^ LgInitSet <= x
    <3>1. lg \in Nat /\ LgInitSet <= lg /\ lg <= lgK /\ Powers(lgK)
      BY <1>1, SizesAre
    <3>. QED BY <1>1, <3>1, PowersOrdered
  <2>2. 4 * 2 ^ LgList <= 3 * 2 ^ LgInitSet /\ 2 ^ LgList \in Nat \ {0} /\ 2 ^ LgInitSet \in Nat
    <3>1. LgInitSet \in LgInitSet .. lgK - SetMargin
      BY SizesAre
    <3>2. 2 ^ LgInitSet \in Nat
      BY <3>1, SizesAre
    <3>3. LgList \in Nat /\ Powers(LgList)
      BY HllImplAssumption
    <3>4. 2 ^ LgList \in Nat \ {0}
      BY <3>3 DEF Powers
    <3>5. ~ overloaded(2 ^ LgList, LgInitSet)
      BY HllImplAssumption
    <3>. QED BY <3>2, <3>4, <3>5 DEF overloaded
  <2>. HIDE DEF x
  <2>. DEFINE a == 2 ^ LgInitSet
              b == 2 ^ LgList
  <2>3. a <= x /\ 4 * b <= 3 * a /\ b \in Nat \ {0} /\ a \in Nat
    BY <2>1, <2>2
  <2>. HIDE DEF a, b
  <2>. QED BY <1>2, <2>3
<1>4. ~ overloaded(n, lg) => n < 2 ^ lg /\ n + 1 < 2 ^ (lg + 1) /\ ~ overloaded(n + 1, lg + 1)
  <2>1. overloaded(n, lg) <=> 4 * n > 3 * x
    BY DEF overloaded
  <2>2. overloaded(n + 1, lg + 1) <=> 4 * (n + 1) > 3 * (2 * x)
    BY <1>2 DEF overloaded
  <2>3. 4 * n <= 3 * x => n < x /\ n + 1 < 2 * x /\ 4 * (n + 1) <= 3 * (2 * x)
    <3>. HIDE DEF x
    <3>. QED BY <1>2, <1>3
  <2>4. 2 * x \in Nat
    <3>. HIDE DEF x
    <3>. QED BY <1>2
  <2>. QED BY <1>2, <2>1, <2>2, <2>3, <2>4
<1>5. ASSUME lg > LgInitSet, overloaded(n, lg - 1) PROVE overloaded(n + 1, lg - 1)
  <2>1. lg - 1 \in LgInitSet .. lgK - SetMargin
    BY <1>1, <1>5
  <2>2. 2 ^ (lg - 1) \in Nat
    BY <2>1, SizesAre
  <2>. DEFINE y == 2 ^ (lg - 1)
  <2>3. y \in Nat /\ 4 * n > 3 * y
    BY <1>5, <2>2 DEF overloaded
  <2>4. 4 * (n + 1) > 3 * y
    <3>. HIDE DEF y
    <3>. QED BY <2>3
  <2>. QED BY <2>4 DEF overloaded
<1>. QED BY <1>4, <1>5

\* A coupon inserted into a set.
LEMMA InsertedIs ==
  ASSUME NEW k, NEW D, IsSet(k, D), NEW c \in Coupon
  PROVE  /\ IsTableOf(setInsert(k, c), D \union {c}) /\ SameBut(k, setInsert(k, c))
         /\ c \in D => setInsert(k, c) = k
         /\ c \notin D => setInsert(k, c).count = k.count + 1
         /\ FullEnough(setInsert(k, c))
         /\ overloaded(setInsert(k, c).count, setInsert(k, c).lg)
              => setInsert(k, c).lg = k.lgK - SetMargin
<1>. DEFINE lg  == k.lg
            cnt == k.count
            top == k.lgK - SetMargin
            p   == putCoupon(k, c)
            n   == [p EXCEPT !.count = @ + 1]
            m   == setInsert(k, c)
            E   == D \union {c}
<1>1. /\ IsCouponTab(k, D) /\ IsLgK(k.lgK) /\ k.mode = "SET" /\ cnt = Cardinality(D)
      /\ k.lgK >= MinSetLgK /\ lg \in LgInitSet .. top /\ ~ overloaded(cnt, lg) /\ FullEnough(k)
  BY TableIs DEF IsSet, Loaded, FullEnough
<1>2. D \subseteq Coupon /\ IsFiniteSet(D) /\ cnt \in Nat
  BY <1>1, TabHolds DEF IsCouponTab
<1>3. LgInitSet \in Nat /\ k.lgK \in Nat /\ SetMargin \in Nat /\ top \in Int /\ lg \in Nat
  BY <1>1, SizesAre, HllImplAssumption
<1>4. cnt < 2 ^ lg /\ cnt + 1 < 2 ^ (lg + 1) /\ ~ overloaded(cnt + 1, lg + 1)
      /\ (lg > LgInitSet /\ overloaded(cnt, lg - 1) => overloaded(cnt + 1, lg - 1))
  BY <1>1, <1>2, LoadsAre
<1>5. 2 ^ lg \in Nat
  BY <1>1, SizesAre
<1>6. Cardinality(D) # 2 ^ lg
  BY <1>1, <1>2, <1>4, <1>5
<1>7. k.arr[cellOf(k, c)] = IF c \in D THEN c ELSE EMPTY
  BY <1>1, <1>6, CellOfFinds
<1>8. CASE c \in D
  <2>1. k.arr[cellOf(k, c)] # EMPTY
    BY <1>7, <1>8, CouponsHaveKeys
  <2>2. m = k
    BY <2>1 DEF setInsert
  <2>3. E = D
    BY <1>8
  <2>4. IsTableOf(k, D)
    BY DEF IsSet
  <2>. QED BY <1>1, <1>8, <2>2, <2>3, <2>4 DEF SameBut
<1>9. CASE c \notin D
  <2>1. k.arr[cellOf(k, c)] = EMPTY
    BY <1>7, <1>9
  <2>2. m = IF overloaded(n.count, n.lg) /\ ~ atMaxSize(n) THEN growHashSet(n) ELSE n
    BY <2>1 DEF setInsert
  <2>3. IsCouponTab(p, E) /\ p.lg = lg /\ p.count = cnt /\ SameBut(k, p)
    BY <1>1, <1>6, <1>9, PutIs DEF SameBut
  <2>4. Cardinality(E) = cnt + 1
    BY <1>1, <1>2, <1>9, FS_AddElement
  <2>. HIDE DEF p
  <2>5. n = [f \in CouponFields |-> n[f]] /\ n.arr = p.arr /\ n.lg = lg /\ n.count = cnt + 1
        /\ n.lgK = k.lgK /\ n.mode = "SET" /\ n.ooo = k.ooo
    <3>1. p = [f \in CouponFields |-> p[f]]
      BY <2>3 DEF IsCouponTab
    <3>. QED BY <1>1, <2>3, <3>1 DEF CouponFields, SameBut
  <2>. HIDE DEF n
  <2>6. IsCouponTab(n, E) /\ SameBut(k, n)
    BY <1>1, <2>3, <2>5 DEF IsCouponTab, SameBut
  <2>7. m = IF overloaded(cnt + 1, lg) /\ lg # top THEN growHashSet(n) ELSE n
    BY <2>2, <2>5 DEF atMaxSize
  <2>. HIDE DEF m, E
  <2>8. CASE ~ (overloaded(cnt + 1, lg) /\ lg # top)
    <3>1. m = n
      BY <2>7, <2>8
    <3>2. IsTableOf(n, E)
      BY <1>1, <2>4, <2>5, <2>6, TableIs
    <3>3. FullEnough(n)
      BY <1>1, <1>4, <2>5 DEF FullEnough
    <3>. QED BY <1>9, <2>5, <2>6, <2>8, <3>1, <3>2, <3>3 DEF m, E
  <2>9. CASE overloaded(cnt + 1, lg) /\ lg # top
    <3>1. m = growHashSet(n)
      BY <2>7, <2>9
    <3>2. lg + 1 \in LgInitSet .. top /\ (lg + 1) - 1 = lg
      BY <1>1, <1>3, <2>9
    <3>3. Powers(lg + 1) /\ lg + 1 \in Nat
      BY <1>1, <3>2, SizesAre
    <3>4. IsCouponTab(m, E) /\ SameBut(n, m) /\ m.lg = lg + 1 /\ m.count = cnt + 1
      BY <1>4, <2>4, <2>5, <2>6, <3>1, <3>3, GrownIs
    <3>5. IsTableOf(m, E) /\ SameBut(k, m)
      BY <1>1, <2>4, <2>5, <3>2, <3>4, TableIs DEF SameBut
    <3>6. FullEnough(m)
      BY <2>9, <3>2, <3>4 DEF FullEnough
    <3>. QED BY <1>4, <1>9, <3>4, <3>5, <3>6 DEF m, E
  <2>. QED BY <2>8, <2>9
<1>. QED BY <1>8, <1>9

\* A set is made by insertions: p has its lgConfigK and the number to come.
inserting(p, q, i, acc) == setInsert(acc, q[i])

insertedUpTo(p, q, n, acc) == IsSet(acc, FirstOf(q, n)) /\ acc.lgK = p.lgK /\ acc.ooo = TRUE

Inserts == INSTANCE FoldTheorems WITH step <- inserting, choose <- lastOf, Good <- insertedUpTo

\* An empty set.
LEMMA NewSetIs ==
  ASSUME NEW lgK, IsLgK(lgK), lgK >= MinSetLgK
  PROVE  IsSet(newSet(lgK), {}) /\ newSet(lgK).lgK = lgK /\ newSet(lgK).ooo = TRUE
<1>. DEFINE k == newSet(lgK)
<1>1. /\ k = [f \in CouponFields |-> k[f]]
      /\ k.lgK = lgK /\ k.mode = "SET" /\ k.ooo = TRUE /\ k.arr = EmptyTable(LgInitSet)
      /\ k.lg = LgInitSet /\ k.count = 0
  BY DEF newSet, newCoupons, CouponFields
<1>. HIDE DEF k
<1>2. LgInitSet \in LgInitSet .. lgK - SetMargin /\ LgInitSet \in Nat /\ Powers(LgInitSet)
      /\ 2 ^ LgInitSet \in Nat \ {0}
  BY SizesAre
<1>3. IsTab(EmptyTable(LgInitSet), LgInitSet, itself, {})
  BY <1>2, EmptyTab
<1>4. Cardinality({}) = 0
  BY FS_EmptySet
<1>5. IsTableOf(k, {})
  BY <1>1, <1>2, <1>3, <1>4, TableIs DEF IsCouponTab
<1>6. ~ overloaded(0, LgInitSet)
  BY <1>2 DEF overloaded
<1>7. ~ (LgInitSet > LgInitSet)
  BY <1>2
<1>8. Loaded(k)
  BY <1>1, <1>6, <1>7 DEF Loaded
<1>. QED BY <1>1, <1>5, <1>8 DEF IsSet, k

\* Coupons that fit into the largest set make a set.
LEMMA SetOfList ==
  ASSUME NEW lgK, IsLgK(lgK), lgK >= MinSetLgK,
         NEW q, NEW H, Lists(q, H, itself, Coupon),
         IsFiniteSet(H), ~ overloaded(Cardinality(H), lgK - SetMargin)
  PROVE  /\ IsSet(FoldLeft(setInsert, newSet(lgK), q), H)
         /\ FoldLeft(setInsert, newSet(lgK), q).lgK = lgK
         /\ FoldLeft(setInsert, newSet(lgK), q).ooo = TRUE
<1>. DEFINE b == newSet(lgK)
            n == Len(q)
            k == FoldLeft(setInsert, b, q)
<1>1. IsSet(b, {}) /\ b.lgK = lgK /\ b.ooo = TRUE
  BY NewSetIs
<1>. HIDE DEF b
<1>2. n \in Nat /\ DOMAIN q = 1 .. n /\ FirstOf(q, 0) = {} /\ FirstOf(q, n) = H
  BY NoneAndAll
<1>3. k = Inserts!Left(b, q, b, n)
  BY <1>2 DEF FoldLeft, MapThenFoldSet, Max, Inserts!Left, Inserts!Fold,
         Inserts!MapThenFoldSet, inserting, lastOf
<1>4. Inserts!ChoosesLast
  BY DEF Inserts!ChoosesLast, lastOf
<1>5. ASSUME NEW i \in 1 .. n, NEW acc, insertedUpTo(b, q, i - 1, acc)
      PROVE  insertedUpTo(b, q, i, inserting(b, q, i, acc))
  <2>. DEFINE P == FirstOf(q, i - 1)
              E == FirstOf(q, i)
              m == setInsert(acc, q[i])
  <2>1. /\ q[i] \in Coupon /\ E = P \union {q[i]} /\ E \subseteq H
        /\ \A e \in P : itself[e] # itself[q[i]]
    BY NextOf
  <2>2. IsSet(acc, P) /\ acc.lgK = lgK /\ acc.ooo = TRUE
    BY <1>1, <1>5 DEF insertedUpTo
  <2>. HIDE DEF P, E
  <2>3. /\ IsTableOf(m, E) /\ SameBut(acc, m) /\ FullEnough(m)
        /\ overloaded(m.count, m.lg) => m.lg = acc.lgK - SetMargin
    BY <2>1, <2>2, InsertedIs
  <2>. HIDE DEF m
  <2>4. m.lgK = lgK /\ m.ooo = TRUE
    BY <2>2, <2>3 DEF SameBut
  <2>5. Cardinality(E) <= Cardinality(H) /\ Cardinality(E) \in Nat /\ Cardinality(H) \in Nat
    BY <2>1, FS_Subset, FS_CardinalityType
  <2>6. ~ overloaded(Cardinality(E), lgK - SetMargin)
    <3>. DEFINE x == 3 * 2 ^ (lgK - SetMargin)
    <3>1. lgK - SetMargin \in LgInitSet .. lgK - SetMargin
      BY SizesAre, HllImplAssumption
    <3>2. 2 ^ (lgK - SetMargin) \in Nat
      BY <3>1, SizesAre
    <3>3. x \in Int
      BY <3>2
    <3>4. ~ (4 * Cardinality(H) > x)
      BY DEF overloaded
    <3>. HIDE DEF x
    <3>5. ~ (4 * Cardinality(E) > x)
      BY <2>5, <3>3, <3>4
    <3>. QED BY <3>5 DEF overloaded, x
  <2>7. m.count = Cardinality(E)
    BY <2>3, TableIs
  <2>8. ~ overloaded(m.count, m.lg)
    BY <2>2, <2>3, <2>6, <2>7
  <2>9. IsSet(m, E)
    BY <2>3, <2>8 DEF IsSet, Loaded, FullEnough
  <2>. QED BY <1>1, <2>4, <2>9 DEF insertedUpTo, inserting, E, m
<1>6. Inserts!Preserves(b, q, n)
  BY <1>5 DEF Inserts!Preserves
<1>7. insertedUpTo(b, q, 0, b)
  BY <1>1, <1>2 DEF insertedUpTo
<1>8. insertedUpTo(b, q, n, Inserts!Left(b, q, b, n))
  BY <1>2, <1>4, <1>6, <1>7, Inserts!LeftKeeps
<1>. QED BY <1>1, <1>2, <1>3, <1>8 DEF insertedUpTo, b

----------------------------------------------------------------------------
(* HLL arrays. *)

\* An array without coupons.
LEMMA NewHllIs ==
  ASSUME NEW lgK, IsLgK(lgK)
  PROVE  IsHll(newHll(lgK), {}) /\ newHll(lgK).lgK = lgK
<1>. DEFINE k == newHll(lgK)
<1>1. /\ k = [f \in HllFields |-> k[f]]
      /\ k.lgK = lgK /\ k.mode = "HLL" /\ k.reg = [s \in SlotsOf(lgK) |-> 0]
  BY DEF newHll, HllFields
<1>. HIDE DEF k
<1>2. k.reg = [s \in SlotsOf(lgK) |-> k.reg[s]] /\ \A s \in SlotsOf(lgK) : k.reg[s] = 0
  BY <1>1
<1>. QED BY <1>1, <1>2 DEF IsHll, Register, k

\* An array that takes a coupon.
LEMMA HllUpdated ==
  ASSUME NEW k, NEW D, IsHll(k, D), NEW c \in Coupon
  PROVE  /\ IsHll(hllUpdate(k, c), D \union {c})
         /\ hllUpdate(k, c).lgK = k.lgK /\ hllUpdate(k, c).ooo = k.ooo
<1>. DEFINE s == c[1] % (2 ^ k.lgK)
            v == IF c[2] > k.reg[s] THEN c[2] ELSE k.reg[s]
            n == hllUpdate(k, c)
<1>1. c[1] \in Nat /\ c[2] \in 1 .. 63 /\ 2 ^ k.lgK \in Nat \ {0}
  BY CouponsHaveKeys, SizesAre DEF IsHll
<1>2. s \in SlotsOf(k.lgK)
  BY <1>1 DEF SlotsOf
<1>3. /\ D \subseteq Coupon
      /\ k = [f \in HllFields |-> k[f]] /\ IsLgK(k.lgK) /\ k.mode = "HLL"
      /\ k.reg = [t \in SlotsOf(k.lgK) |-> k.reg[t]]
      /\ \A t \in SlotsOf(k.lgK) : k.reg[t] \in 0 .. 63 /\ Register(D, k.lgK, t, k.reg[t])
  BY DEF IsHll
<1>4. n = [k EXCEPT !.reg[s] = v]
  BY <1>2, <1>3 DEF hllUpdate, HllFields
<1>5. v \in 0 .. 63 /\ v >= c[2] /\ v >= k.reg[s] /\ (v = c[2] \/ v = k.reg[s])
  <2>1. k.reg[s] \in 0 .. 63
    BY <1>2, <1>3
  <2>2. \A x \in 1 .. 63, y \in 0 .. 63 :
          LET z == IF x > y THEN x ELSE y IN z \in 0 .. 63 /\ z >= x /\ z >= y /\ (z = x \/ z = y)
    OBVIOUS
  <2>. HIDE DEF s
  <2>. QED BY <1>1, <2>1, <2>2
<1>. HIDE DEF v, n
<1>6. /\ n = [f \in HllFields |-> n[f]] /\ n.lgK = k.lgK /\ n.mode = "HLL" /\ n.ooo = k.ooo
      /\ n.reg = [k.reg EXCEPT ![s] = v]
  <2>. HIDE DEF s
  <2>. QED BY <1>3, <1>4 DEF HllFields
<1>7. /\ n.reg = [t \in SlotsOf(k.lgK) |-> n.reg[t]]
      /\ \A t \in SlotsOf(k.lgK) : n.reg[t] = IF t = s THEN v ELSE k.reg[t]
  <2>. HIDE DEF s
  <2>. QED BY <1>2, <1>3, <1>6
<1>8. ASSUME NEW t \in SlotsOf(k.lgK)
      PROVE  n.reg[t] \in 0 .. 63 /\ Register(D \union {c}, k.lgK, t, n.reg[t])
  <2>. DEFINE M == 2 ^ k.lgK
              w == k.reg[t]
  <2>1. /\ w \in 0 .. 63 /\ \A d \in D : d[1] % M = t => d[2] <= w
        /\ w = 0 \/ \E d \in D : d[1] % M = t /\ d[2] = w
    BY <1>3 DEF Register
  <2>3. CASE t # s
    <3>1. n.reg[t] = w
      BY <1>7, <2>3
    <3>2. \A d \in D \union {c} : d[1] % M = t => d \in D
      BY <2>3
    <3>. QED BY <2>1, <3>1, <3>2 DEF Register
  <2>4. CASE t = s
    <3>1. n.reg[t] = v
      BY <1>7, <2>4
    <3>2. w = k.reg[s]
      BY <2>4
    <3>. HIDE DEF w, M
    <3>3. \A d \in D : d[1] % M = t => d[2] <= v
      <4>1. ASSUME NEW d \in D, d[1] % M = t PROVE d[2] <= v
        <5>1. d[2] <= w
          BY <2>1, <4>1
        <5>2. d[2] \in 1 .. 63
          BY <1>3, CouponsHaveKeys
        <5>. QED BY <1>5, <2>1, <3>2, <5>1, <5>2
      <4>. QED BY <4>1
    <3>4. c[1] % M = t /\ c[2] <= v
      BY <1>1, <1>5, <2>4 DEF M
    <3>5. v = 0 \/ \E d \in D \union {c} : d[1] % M = t /\ d[2] = v
      BY <1>5, <2>1, <3>2, <3>4
    <3>6. Register(D \union {c}, k.lgK, t, v)
      BY <3>3, <3>4, <3>5 DEF Register, M
    <3>. QED BY <1>5, <3>1, <3>6
  <2>. QED BY <2>3, <2>4
<1>. QED BY <1>3, <1>6, <1>7, <1>8 DEF IsHll, n

\* An array is made of a list's or a set's coupons.
promoting(p, q, i, acc) == hllUpdate(acc, q[i])

promotedUpTo(p, q, n, acc) == IsHll(acc, FirstOf(q, n)) /\ acc.lgK = p.lgK

Promotes == INSTANCE FoldTheorems WITH step <- promoting, choose <- lastOf, Good <- promotedUpTo

\* The array that a list or a set becomes has its coupons.
LEMMA PromotedIs ==
  ASSUME NEW k, NEW D, IsCoupons(k, D)
  PROVE  /\ IsHll(promoteHeapListOrSetToHll(k), D)
         /\ promoteHeapListOrSetToHll(k).lgK = k.lgK
<1>. DEFINE b == newHll(k.lgK)
            q == pairs(k)
            n == Len(q)
            h == promoteHeapListOrSetToHll(k)
<1>1. IsHll(b, {}) /\ b.lgK = k.lgK
  BY NewHllIs DEF IsCoupons
<1>2. k.mode # "HLL"
  BY DEF IsCoupons
<1>3. Lists(q, D, itself, Coupon)
  BY <1>2, PairsAre DEF IsCoupons
<1>4. h = FoldLeft(LAMBDA acc, c : hllUpdate(acc, c), b, q)
  BY DEF promoteHeapListOrSetToHll
<1>. HIDE DEF b, q, h
<1>5. n \in Nat /\ DOMAIN q = 1 .. n /\ FirstOf(q, 0) = {} /\ FirstOf(q, n) = D
  BY <1>3, NoneAndAll
<1>6. h = Promotes!Left(b, q, b, n)
  BY <1>4, <1>5 DEF FoldLeft, MapThenFoldSet, Max, Promotes!Left, Promotes!Fold,
         Promotes!MapThenFoldSet, promoting, lastOf
<1>7. Promotes!ChoosesLast
  BY DEF Promotes!ChoosesLast, lastOf
<1>8. ASSUME NEW i \in 1 .. n, NEW acc, promotedUpTo(b, q, i - 1, acc)
      PROVE  promotedUpTo(b, q, i, promoting(b, q, i, acc))
  <2>1. q[i] \in Coupon /\ FirstOf(q, i) = FirstOf(q, i - 1) \union {q[i]}
    BY <1>3, NextOf
  <2>2. IsHll(acc, FirstOf(q, i - 1)) /\ acc.lgK = b.lgK
    BY <1>8 DEF promotedUpTo
  <2>3. IsHll(hllUpdate(acc, q[i]), FirstOf(q, i - 1) \union {q[i]})
        /\ hllUpdate(acc, q[i]).lgK = b.lgK
    BY <2>1, <2>2, HllUpdated
  <2>. QED BY <2>1, <2>3 DEF promotedUpTo, promoting
<1>9. Promotes!Preserves(b, q, n)
  BY <1>8 DEF Promotes!Preserves
<1>10. promotedUpTo(b, q, 0, b)
  BY <1>1, <1>5 DEF promotedUpTo
<1>11. promotedUpTo(b, q, n, Promotes!Left(b, q, b, n))
  BY <1>5, <1>7, <1>9, <1>10, Promotes!LeftKeeps
<1>. QED BY <1>1, <1>5, <1>6, <1>11 DEF promotedUpTo, h

----------------------------------------------------------------------------
(* couponUpdate. *)

\* The modes follow from the number of coupons.
Right(k, n) ==
  /\ k.mode # "LIST" => n >= 2 ^ LgList
  /\ k.mode = "HLL" /\ k.lgK >= MinSetLgK => overloaded(n, k.lgK - SetMargin)

\* The first cell of a list that is empty or has the coupon.
stopOf(k, c) == CHOOSE j \in listStops(k, c) : \A m \in listStops(k, c) : j <= m

\* The search of a list ends at the coupon, or behind the last one.
LEMMA ListSearch ==
  ASSUME NEW k, NEW D, IsList(k, D), NEW c \in Coupon
  PROVE  /\ ~ listThrows(k, c)
         /\ c \in D => k.arr[stopOf(k, c)] = c
         /\ c \notin D => stopOf(k, c) = k.count
         /\ k.count \in Cells(k.lg) /\ k.arr[k.count] = EMPTY
<1>. DEFINE S == listStops(k, c)
<1>0. /\ IsCoupons(k, D) /\ k.lg = LgList /\ k.count < 2 ^ LgList
      /\ \A i \in Cells(LgList) : k.arr[i] # EMPTY <=> i < k.count
  BY DEF IsList
<1>1. /\ k.count \in Nat /\ 2 ^ LgList \in Nat
      /\ \A i \in Cells(k.lg) : k.arr[i] # EMPTY => k.arr[i] \in D
      /\ \A e \in D : \E i \in Cells(k.lg) : k.arr[i] = e /\ k.arr[i] # EMPTY
      /\ \A i, j \in Cells(k.lg) : k.arr[i] # EMPTY /\ k.arr[i] = k.arr[j] => i = j
  <2>1. 2 ^ LgList \in Nat
    BY HllImplAssumption DEF Powers
  <2>. QED BY <1>0, <2>1, CouponsAre
<1>2. k.count \in Cells(k.lg) /\ k.arr[k.count] = EMPTY
  BY <1>0, <1>1 DEF Cells
<1>3. k.count \in S /\ S \subseteq Nat /\ S \subseteq Cells(k.lg)
  BY <1>0, <1>1, <1>2 DEF listStops, Cells
<1>4. stopOf(k, c) \in S /\ \A m \in S : stopOf(k, c) <= m
  <2>1. \E x \in S : \A y \in S : x <= y
    <3>. HIDE DEF S
    <3>. QED BY <1>3, Puts!LeastElement
  <2>. QED BY <2>1 DEF stopOf
<1>5. stopOf(k, c) <= k.count /\ stopOf(k, c) \in Nat /\ stopOf(k, c) \in Cells(k.lg)
  BY <1>3, <1>4
<1>6. ASSUME c \in D PROVE k.arr[stopOf(k, c)] = c
  <2>1. PICK i \in Cells(k.lg) : k.arr[i] = c /\ k.arr[i] # EMPTY
    BY <1>1, <1>6
  <2>2. i \in S /\ i < k.count
    BY <1>0, <2>1 DEF listStops
  <2>3. stopOf(k, c) < k.count
    <3>1. stopOf(k, c) <= i /\ i \in Nat
      BY <1>3, <1>4, <2>2
    <3>. QED BY <1>1, <1>5, <2>2, <3>1
  <2>4. k.arr[stopOf(k, c)] # EMPTY
    BY <1>0, <1>5, <2>3
  <2>. QED BY <1>4, <2>4 DEF listStops
<1>7. ASSUME c \notin D PROVE stopOf(k, c) = k.count
  <2>1. k.arr[stopOf(k, c)] = EMPTY
    BY <1>1, <1>4, <1>5, <1>7 DEF listStops
  <2>2. ~ (stopOf(k, c) < k.count)
    BY <1>0, <1>5, <2>1
  <2>. QED BY <1>1, <1>5, <2>2
<1>8. ~ listThrows(k, c)
  BY <1>3 DEF listThrows
<1>. QED BY <1>2, <1>6, <1>7, <1>8

\* A coupon taken by a list.
LEMMA ListUpdated ==
  ASSUME NEW k, NEW D, IsList(k, D), NEW c \in Coupon
  PROVE  LET u == listUpdate(k, c)
             E == D \union {c}
         IN  /\ IsList(u, E) \/ IsSet(u, E) \/ IsHll(u, E)
             /\ u.lgK = k.lgK /\ Right(u, Cardinality(E))
<1>. DEFINE u == listUpdate(k, c)
            E == D \union {c}
            x == stopOf(k, c)
            n == [k EXCEPT !.arr[x] = c, !.count = @ + 1]
<1>0. /\ IsCoupons(k, D) /\ k.lg = LgList /\ k.count < 2 ^ LgList /\ k.mode = "LIST"
      /\ \A i \in Cells(LgList) : k.arr[i] # EMPTY <=> i < k.count
  BY DEF IsList
<1>1. /\ c \in D => k.arr[x] = c
      /\ c \notin D => x = k.count
      /\ k.count \in Cells(k.lg) /\ k.arr[k.count] = EMPTY
  BY ListSearch
<1>2. u = IF k.arr[x] # EMPTY THEN k
          ELSE IF n.count < 2 ^ k.lg THEN n
          ELSE IF k.lgK < MinSetLgK THEN promoteHeapListOrSetToHll(n)
          ELSE promoteHeapListToSet(n)
  BY DEF listUpdate, stopOf
<1>3. CASE c \in D
  <2>1. u = k /\ E = D
    BY <1>1, <1>2, <1>3, CouponsHaveKeys
  <2>2. Right(k, Cardinality(D))
    BY <1>0 DEF Right
  <2>. QED BY <2>1, <2>2
<1>4. CASE c \notin D
  <2>0. /\ k = [f \in CouponFields |-> k[f]] /\ IsLgK(k.lgK)
        /\ Filled(k.arr, k.lg, Coupon) /\ Distinct(k.arr, k.lg, itself)
        /\ Entered(k.arr, k.lg) = D /\ k.count = Cardinality(D)
    BY <1>0 DEF IsCoupons
  <2>1. D \subseteq Coupon /\ IsFiniteSet(D) /\ k.count \in Nat
    BY <1>0, CouponsAre
  <2>. DEFINE y   == k.count
              new == [k.arr EXCEPT ![y] = c]
  <2>2. n = [k EXCEPT !.arr[y] = c, !.count = @ + 1]
    BY <1>1, <1>4
  <2>. HIDE DEF n
  <2>3. /\ n = [f \in CouponFields |-> n[f]] /\ n.lgK = k.lgK /\ n.mode = "LIST"
        /\ n.arr = new /\ n.lg = k.lg /\ n.count = y + 1
    BY <1>0, <2>0, <2>2 DEF CouponFields
  <2>4. Filled(new, k.lg, Coupon)
    <3>1. k.arr = [i \in Cells(k.lg) |-> k.arr[i]] /\ \A i \in Cells(k.lg) : k.arr[i] \in Coupon \union {EMPTY}
      BY <2>0 DEF Filled, IsTable
    <3>2. IsTable(new, k.lg, Coupon)
      BY <3>1 DEF IsTable
    <3>. QED BY <2>0, <3>2 DEF Filled
  <2>5. \A d \in Entered(k.arr, k.lg) : itself[d] # itself[c]
    BY <1>4, <2>0, <2>1, CouponsHaveKeys
  <2>6. Distinct(new, k.lg, itself)
    BY <1>1, <2>0, <2>5, OneMore
  <2>7. Entered(new, k.lg) = Entered(k.arr, k.lg) \union {c}
    BY <1>1, <2>0, <2>5, OneMore
  <2>8. Cardinality(E) = y + 1
    BY <1>4, <2>0, <2>1, FS_AddElement
  <2>9. \A i \in Cells(LgList) : new[i] # EMPTY <=> i < y + 1
    <3>1. \A i \in Cells(LgList) : new[i] = IF i = y THEN c ELSE k.arr[i]
      BY <1>0, <2>0 DEF Filled, IsTable
    <3>2. \A i \in Cells(LgList) : i \in Int
      BY DEF Cells
    <3>. HIDE DEF new
    <3>3. ASSUME NEW i \in Cells(LgList) PROVE new[i] # EMPTY <=> i < y + 1
      <4>1. new[i] # EMPTY <=> i = y \/ i < y
        BY <1>0, <3>1, CouponsHaveKeys
      <4>2. i = y \/ i < y <=> i < y + 1
        BY <2>1, <3>2
      <4>. QED BY <4>1, <4>2
    <3>. QED BY <3>3
  <2>. HIDE DEF new
  <2>10. IsCoupons(n, E)
    BY <2>0, <2>3, <2>4, <2>6, <2>7, <2>8 DEF IsCoupons
  <2>11. 2 ^ LgList \in Nat
    BY HllImplAssumption DEF Powers
  <2>12. u = IF y + 1 < 2 ^ LgList THEN n
             ELSE IF k.lgK < MinSetLgK THEN promoteHeapListOrSetToHll(n)
             ELSE promoteHeapListToSet(n)
    BY <1>0, <1>1, <1>2, <1>4, <2>3
  <2>. HIDE DEF u, E
  <2>13. CASE y + 1 < 2 ^ LgList
    <3>1. IsList(n, E)
      BY <1>0, <2>3, <2>9, <2>10, <2>13 DEF IsList
    <3>2. Right(n, Cardinality(E))
      BY <2>3 DEF Right
    <3>. QED BY <2>3, <2>12, <2>13, <3>1, <3>2 DEF u, E
  <2>14. CASE ~ (y + 1 < 2 ^ LgList)
    <3>1. Cardinality(E) = 2 ^ LgList /\ Cardinality(E) >= 2 ^ LgList
      BY <1>0, <2>1, <2>8, <2>11, <2>14
    <3>2. CASE k.lgK < MinSetLgK
      <4>1. u = promoteHeapListOrSetToHll(n)
        BY <2>12, <2>14, <3>2
      <4>2. IsHll(u, E) /\ u.lgK = k.lgK
        BY <2>3, <2>10, <4>1, PromotedIs
      <4>3. ~ (u.lgK >= MinSetLgK)
        BY <2>0, <3>2, <4>2, SizesAre, HllImplAssumption
      <4>. QED BY <3>1, <4>2, <4>3 DEF Right, u, E
    <3>3. CASE ~ (k.lgK < MinSetLgK)
      <4>1. u = FoldLeft(setInsert, newSet(k.lgK), pairs(n))
        BY <2>3, <2>12, <2>14, <3>3 DEF promoteHeapListToSet
      <4>2. k.lgK >= MinSetLgK
        BY <2>0, <3>3, SizesAre, HllImplAssumption
      <4>3. Lists(pairs(n), E, itself, Coupon)
        BY <2>3, <2>10, PairsAre DEF IsCoupons
      <4>4. ~ overloaded(Cardinality(E), k.lgK - SetMargin)
        <5>1. /\ LgInitSet \in LgInitSet .. k.lgK - SetMargin
              /\ k.lgK - SetMargin \in LgInitSet .. k.lgK - SetMargin
              /\ LgInitSet \in Nat
          BY <2>0, <4>2, SizesAre, HllImplAssumption
        <5>2. k.lgK - SetMargin \in Nat /\ Powers(k.lgK - SetMargin) /\ LgInitSet <= k.lgK - SetMargin
          BY <2>0, <4>2, <5>1, SizesAre
        <5>3. ~ overloaded(Cardinality(E), LgInitSet)
          BY <3>1, HllImplAssumption
        <5>4. Cardinality(E) \in Nat
          BY <2>11, <3>1
        <5>. QED BY <5>1, <5>2, <5>3, <5>4, LargerHolds
      <4>5. IsFiniteSet(E)
        BY <2>1, FS_AddElement DEF E
      <4>6. IsSet(u, E) /\ u.lgK = k.lgK
        BY <2>0, <4>1, <4>2, <4>3, <4>4, <4>5, SetOfList
      <4>7. u.mode # "HLL"
        BY <4>6, TableIs DEF IsSet
      <4>. QED BY <3>1, <4>6, <4>7 DEF Right, u, E
    <3>. QED BY <3>2, <3>3
  <2>. QED BY <2>13, <2>14
<1>. QED BY <1>3, <1>4

\* A table is an object of a coupon mode.
LEMMA TableHolds ==
  ASSUME NEW k, NEW D, IsTableOf(k, D)
  PROVE  /\ IsCoupons(k, D) /\ k.mode = "SET" /\ k.count = Cardinality(D)
         /\ D \subseteq Coupon /\ IsFiniteSet(D) /\ k.count \in Nat
BY CouponsAre DEF IsTableOf, IsCoupons

\* More coupons.
LEMMA CountOf ==
  ASSUME NEW D, IsFiniteSet(D), NEW c
  PROVE  /\ IsFiniteSet(D \union {c}) /\ Cardinality(D) \in Nat /\ Cardinality(D \union {c}) \in Nat
         /\ Cardinality(D \union {c}) = IF c \in D THEN Cardinality(D) ELSE Cardinality(D) + 1
BY FS_AddElement, FS_CardinalityType

\* A coupon taken by a set.
LEMMA SetUpdated ==
  ASSUME NEW k, NEW D, IsSet(k, D), NEW c \in Coupon
  PROVE  LET u == setUpdate(k, c)
             E == D \union {c}
         IN  /\ IsSet(u, E) \/ IsHll(u, E)
             /\ u.lgK = k.lgK
             /\ Right(k, Cardinality(D)) => Right(u, Cardinality(E))
<1>. DEFINE u == setUpdate(k, c)
            n == setInsert(k, c)
            E == D \union {c}
<1>1. /\ IsTableOf(n, E) /\ SameBut(k, n) /\ FullEnough(n)
      /\ c \in D => n = k
      /\ c \notin D => n.count = k.count + 1
      /\ overloaded(n.count, n.lg) => n.lg = k.lgK - SetMargin
  BY InsertedIs
<1>2. u = IF n.count > k.count /\ overloaded(n.count, n.lg) /\ n.lg = n.lgK - SetMargin
          THEN promoteHeapListOrSetToHll(n) ELSE n
  BY DEF setUpdate, atMaxSize
<1>3. IsFiniteSet(D) /\ k.count \in Nat /\ k.count = Cardinality(D) /\ k.mode = "SET"
  BY TableHolds DEF IsSet
<1>. HIDE DEF u, n
<1>4. CASE c \in D
  <2>1. n = k /\ E = D /\ ~ (k.count > k.count)
    BY <1>1, <1>3, <1>4
  <2>2. u = k
    BY <1>2, <2>1
  <2>. QED BY <2>1, <2>2 DEF u
<1>5. CASE c \notin D
  <2>1. n.count = k.count + 1 /\ n.count > k.count /\ n.lgK = k.lgK
    BY <1>1, <1>3, <1>5 DEF SameBut
  <2>2. Cardinality(E) = k.count + 1
    BY <1>3, <1>5, CountOf
  <2>3. u = IF overloaded(n.count, n.lg) THEN promoteHeapListOrSetToHll(n) ELSE n
    BY <1>1, <1>2, <2>1
  <2>4. IsCoupons(n, E) /\ n.mode = "SET" /\ n.count = Cardinality(E)
    BY <1>1, TableHolds
  <2>5. Right(k, Cardinality(D)) => Cardinality(E) >= 2 ^ LgList
    <3>1. 2 ^ LgList \in Nat
      BY HllImplAssumption DEF Powers
    <3>. QED BY <1>3, <2>2, <3>1 DEF Right
  <2>. HIDE DEF E
  <2>6. CASE overloaded(n.count, n.lg)
    <3>1. u = promoteHeapListOrSetToHll(n)
      BY <2>3, <2>6
    <3>2. IsHll(u, E) /\ u.lgK = k.lgK
      BY <2>1, <2>4, <3>1, PromotedIs
    <3>3. overloaded(Cardinality(E), u.lgK - SetMargin)
      BY <1>1, <2>4, <2>6, <3>2
    <3>. QED BY <2>5, <3>2, <3>3 DEF Right, u, E
  <2>7. CASE ~ overloaded(n.count, n.lg)
    <3>1. u = n
      BY <2>3, <2>7
    <3>2. IsSet(n, E)
      BY <1>1, <2>7 DEF IsSet, Loaded, FullEnough
    <3>. QED BY <2>1, <2>4, <2>5, <3>1, <3>2 DEF Right, u, E
  <2>. QED BY <2>6, <2>7
<1>. QED BY <1>4, <1>5

\* The mode of an object.
LEMMA ModesAre ==
  ASSUME NEW k, NEW D
  PROVE  /\ IsList(k, D) => k.mode = "LIST" /\ IsLgK(k.lgK)
         /\ IsSet(k, D) => k.mode = "SET" /\ IsLgK(k.lgK)
         /\ IsHll(k, D) => k.mode = "HLL" /\ IsLgK(k.lgK)
<1>1. IsSet(k, D) => k.mode = "SET" /\ IsLgK(k.lgK)
  BY TableIs DEF IsSet
<1>2. IsList(k, D) => k.mode = "LIST" /\ IsLgK(k.lgK)
  BY DEF IsList, IsCoupons
<1>. QED BY <1>1, <1>2 DEF IsHll

\* Any of them.
LEMMA UpdateIs ==
  ASSUME NEW k, NEW D, IsOf(k, D), NEW c \in Coupon
  PROVE  /\ ~ updateThrows(k, c)
         /\ IsOf(couponUpdate(k, c), D \union {c}) /\ couponUpdate(k, c).lgK = k.lgK
         /\ Right(k, Cardinality(D)) => Right(couponUpdate(k, c), Cardinality(D \union {c}))
<1>. DEFINE E == D \union {c}
            u == couponUpdate(k, c)
<1>0. D \subseteq Coupon /\ IsFiniteSet(D) /\ E \subseteq Coupon /\ IsFiniteSet(E)
  BY CountOf DEF IsOf
<1>1. CASE IsList(k, D)
  <2>1. k.mode = "LIST"
    BY <1>1, ModesAre
  <2>2. u = listUpdate(k, c) /\ (updateThrows(k, c) <=> listThrows(k, c))
    BY <2>1 DEF couponUpdate, updateThrows
  <2>3. /\ IsList(u, E) \/ IsSet(u, E) \/ IsHll(u, E)
        /\ u.lgK = k.lgK /\ Right(u, Cardinality(E))
    BY <1>1, <2>2, ListUpdated
  <2>4. ~ updateThrows(k, c)
    BY <1>1, <2>2, ListSearch
  <2>. QED BY <1>0, <2>3, <2>4 DEF IsOf
<1>2. CASE IsSet(k, D)
  <2>1. k.mode = "SET"
    BY <1>2, ModesAre
  <2>2. u = setUpdate(k, c) /\ (updateThrows(k, c) <=> searchThrows(k, c))
    BY <2>1 DEF couponUpdate, updateThrows, searchThrows
  <2>3. /\ IsSet(u, E) \/ IsHll(u, E)
        /\ u.lgK = k.lgK /\ (Right(k, Cardinality(D)) => Right(u, Cardinality(E)))
    BY <1>2, <2>2, SetUpdated
  <2>4. /\ IsCouponTab(k, D) /\ IsLgK(k.lgK) /\ k.count = Cardinality(D)
        /\ k.lgK >= MinSetLgK /\ k.lg \in LgInitSet .. k.lgK - SetMargin /\ ~ overloaded(k.count, k.lg)
    BY <1>2, TableIs DEF IsSet, Loaded
  <2>5. Cardinality(D) # 2 ^ k.lg
    <3>1. Cardinality(D) \in Nat
      BY <1>0, FS_CardinalityType
    <3>2. Cardinality(D) < 2 ^ k.lg /\ 2 ^ k.lg \in Nat
      BY <2>4, <3>1, LoadsAre, SizesAre
    <3>. QED BY <3>1, <3>2
  <2>6. ~ updateThrows(k, c)
    BY <2>2, <2>4, <2>5, CellOfFinds
  <2>. QED BY <1>0, <2>3, <2>6 DEF IsOf
<1>3. CASE IsHll(k, D)
  <2>1. k.mode = "HLL"
    BY <1>3, ModesAre
  <2>2. u = hllUpdate(k, c) /\ ~ updateThrows(k, c)
    BY <2>1 DEF couponUpdate, updateThrows
  <2>3. IsHll(u, E) /\ u.lgK = k.lgK
    BY <1>3, <2>2, HllUpdated
  <2>4. ASSUME Right(k, Cardinality(D)) PROVE Right(u, Cardinality(E))
    <3>1. u.mode = "HLL" /\ IsLgK(u.lgK)
      BY <2>3, ModesAre
    <3>2. Cardinality(D) \in Nat /\ Cardinality(E) \in Nat /\ Cardinality(D) <= Cardinality(E)
      <4>1. Cardinality(D) \in Nat /\ Cardinality(E) \in Nat
        BY <1>0, FS_CardinalityType
      <4>. QED BY <1>0, <4>1, CountOf
    <3>3. Cardinality(E) >= 2 ^ LgList
      <4>1. 2 ^ LgList \in Nat
        BY HllImplAssumption DEF Powers
      <4>. QED BY <2>1, <2>4, <3>2, <4>1 DEF Right
    <3>4. ASSUME u.lgK >= MinSetLgK PROVE overloaded(Cardinality(E), u.lgK - SetMargin)
      <4>1. overloaded(Cardinality(D), u.lgK - SetMargin)
        BY <2>1, <2>3, <2>4, <3>4 DEF Right
      <4>2. u.lgK - SetMargin \in LgInitSet .. u.lgK - SetMargin
        BY <3>1, <3>4, SizesAre, HllImplAssumption
      <4>3. 2 ^ (u.lgK - SetMargin) \in Nat
        BY <3>1, <3>4, <4>2, SizesAre
      <4>4. 4 * Cardinality(D) > 3 * 2 ^ (u.lgK - SetMargin)
        BY <4>1 DEF overloaded
      <4>. DEFINE x == 2 ^ (u.lgK - SetMargin)
      <4>5. x \in Nat /\ 4 * Cardinality(D) > 3 * x
        BY <4>3, <4>4
      <4>6. 4 * Cardinality(E) > 3 * x
        <5>. HIDE DEF x, E
        <5>. QED BY <3>2, <4>5
      <4>. QED BY <4>6 DEF overloaded
    <3>. QED BY <3>1, <3>3, <3>4 DEF Right
  <2>. QED BY <1>0, <2>2, <2>3, <2>4 DEF IsOf
<1>. QED BY <1>1, <1>2, <1>3 DEF IsOf

\* A new sketch.
LEMMA NewListIs ==
  ASSUME NEW lgK, IsLgK(lgK)
  PROVE  IsOf(newList(lgK), {}) /\ newList(lgK).lgK = lgK /\ Right(newList(lgK), 0)
         /\ newList(lgK).mode = "LIST"
<1>. DEFINE k == newList(lgK)
<1>1. /\ k = [f \in CouponFields |-> k[f]]
      /\ k.lgK = lgK /\ k.mode = "LIST" /\ k.arr = EmptyTable(LgList)
      /\ k.lg = LgList /\ k.count = 0
  BY DEF newList, newCoupons, CouponFields
<1>. HIDE DEF k
<1>2. LgList \in Nat /\ Powers(LgList) /\ 2 ^ LgList \in Nat \ {0}
  BY HllImplAssumption DEF Powers
<1>3. IsTab(EmptyTable(LgList), LgList, itself, {})
  BY <1>2, EmptyTab
<1>4. Cardinality({}) = 0 /\ IsFiniteSet({})
  BY FS_EmptySet
<1>5. IsCoupons(k, {})
  BY <1>1, <1>3, <1>4 DEF IsCoupons, IsTab
<1>6. \A i \in Cells(LgList) : k.arr[i] # EMPTY <=> i < k.count
  BY <1>1, <1>2 DEF EmptyTable, Cells
<1>7. IsList(k, {})
  BY <1>1, <1>2, <1>5, <1>6 DEF IsList
<1>. QED BY <1>1, <1>4, <1>7 DEF IsOf, Right, k

----------------------------------------------------------------------------
(* The images of the coupon modes. *)

\* A list of coupons, each once, is as long as they are many.
LEMMA ListedCount ==
  ASSUME NEW q, NEW H, NEW key, Lists(q, H, key, Coupon)
  PROVE  Len(q) = Cardinality(H) /\ IsFiniteSet(H)
<1>. DEFINE n == Len(q)
            f == [i \in 1 .. n |-> q[i]]
<1>1. n \in Nat /\ H = {q[i] : i \in 1 .. n} /\ \A i, j \in 1 .. n : q[i] = q[j] => i = j
  BY DEF Lists, ElementsOf
<1>2. f \in [1 .. n -> H] /\ (\A i, j \in 1 .. n : f[i] = f[j] => i = j)
      /\ \A x \in H : \E i \in 1 .. n : f[i] = x
  BY <1>1
<1>3. f \in Bijection(1 .. n, H)
  <2>. HIDE DEF f
  <2>. QED BY <1>2, Fun_IsBij
<1>4. ExistsBijection(1 .. n, H)
  BY <1>3 DEF ExistsBijection
<1>5. IsFiniteSet(1 .. n)
  BY <1>1, FS_Interval
<1>. HIDE DEF n
<1>6. Cardinality(H) = n
  BY <1>1, <1>4, FS_CountingElements
<1>. QED BY <1>4, <1>5, <1>6, FS_Bijection DEF n

\* What is read back from an image.
readBack(k, type, compact, stream, rest) == deserialized(serialize(k, type, compact), stream, rest)
readThrows(k, type, compact, stream)     == deserializeThrows(serialize(k, type, compact), stream)

\* The modes are told apart.
LEMMA ModeOfIs ==
  ASSUME NEW im, NEW mode \in {"LIST", "SET", "HLL"}, im.preInts = PreInts[mode]
  PROVE  modeOf(im) = mode
<1>1. \A m \in {"LIST", "SET", "HLL"} : PreInts[m] = PreInts[mode] => m = mode
  BY DEF PreInts
<1>. QED BY <1>1 DEF modeOf

\* The image of an object of a coupon mode.
LEMMA CouponImage ==
  ASSUME NEW k, NEW D, IsCoupons(k, D), NEW type, NEW compact \in BOOLEAN
  PROVE  LET im == serialize(k, type, compact)
         IN  /\ modeOf(im) = k.mode /\ im.lgK = k.lgK /\ im.lgArr = k.lg /\ im.type = type
             /\ (im.emptyFlag <=> k.count = 0) /\ im.compactFlag = compact /\ im.oooFlag = k.ooo
             /\ im.count = k.count
             /\ im.ints = IF compact THEN pairs(k) ELSE cellSeq(k.arr, k.lg)
<1>1. k.mode \in {"LIST", "SET"} /\ k.mode # "HLL"
  BY DEF IsCoupons
<1>. DEFINE im == serialize(k, type, compact)
<1>2. im = serializeCoupons(k, type, compact)
  BY <1>1 DEF serialize
<1>3. /\ im.preInts = PreInts[k.mode] /\ im.lgK = k.lgK /\ im.lgArr = k.lg /\ im.type = type
      /\ im.emptyFlag = isEmpty(k) /\ im.compactFlag = compact /\ im.oooFlag = k.ooo
      /\ im.count = k.count
      /\ im.ints = IF compact THEN pairs(k) ELSE cellSeq(k.arr, k.lg)
  BY <1>2 DEF serializeCoupons
<1>. HIDE DEF im
<1>4. modeOf(im) = k.mode
  BY <1>1, <1>3, ModeOfIs
<1>5. isEmpty(k) <=> k.count = 0
  BY <1>1 DEF isEmpty
<1>. QED BY <1>3, <1>4, <1>5 DEF im

\* An array of cells read whole, or up to cell r when the others are empty.
LEMMA CellsRead ==
  ASSUME NEW arr, NEW lg, Filled(arr, lg, Coupon), NEW r \in 0 .. 2 ^ lg, NEW rest,
         \A i \in Cells(lg) : i >= r => arr[i] = rest
  PROVE  filledArr(lg, SubSeq(cellSeq(arr, lg), 1, r), rest) = arr
<1>. DEFINE q == cellSeq(arr, lg)
            s == SubSeq(q, 1, r)
            S == Coupon \union {EMPTY}
            N == 2 ^ lg
<1>1. N \in Nat /\ r \in Int /\ r \in Nat /\ r <= N
  BY DEF Filled, Powers
<1>2. arr = [i \in Cells(lg) |-> arr[i]] /\ \A i \in Cells(lg) : arr[i] \in S
  BY DEF Filled, IsTable
<1>3. \A i \in 1 .. N : i - 1 \in Cells(lg) /\ q[i] = arr[i - 1]
  BY <1>1 DEF Cells, cellSeq
<1>. HIDE DEF q, S
<1>4. \A i \in 1 .. r : q[i] \in S
  <2>. HIDE DEF N
  <2>1. \A i \in 1 .. r : i \in 1 .. N
    BY <1>1
  <2>. QED BY <1>2, <1>3, <2>1
<1>5. Len(s) = r /\ \A i \in 1 .. r : s[i] = q[i]
  <2>1. /\ Len(s) = IF 1 <= r THEN r - 1 + 1 ELSE 0
        /\ \A i \in 1 .. r - 1 + 1 : s[i] = q[1 + i - 1]
    BY <1>1, <1>4, SubSeqProperties
  <2>. HIDE DEF s
  <2>2. \A i \in 1 .. r : i \in 1 .. r - 1 + 1 /\ 1 + i - 1 = i
    BY <1>1
  <2>3. Len(s) = r
    BY <1>1, <2>1
  <2>. QED BY <2>1, <2>2, <2>3
<1>. HIDE DEF s
<1>6. ASSUME NEW i \in Cells(lg)
      PROVE  (IF i < Len(s) THEN s[i + 1] ELSE rest) = arr[i]
  <2>1. i \in Nat /\ i \in Int /\ i < N
    BY <1>1 DEF Cells
  <2>2. CASE i < r
    <3>1. i + 1 \in 1 .. r /\ i + 1 \in 1 .. N /\ (i + 1) - 1 = i
      <4>. HIDE DEF N
      <4>. QED BY <1>1, <2>1, <2>2
    <3>. QED BY <1>3, <1>5, <2>2, <3>1
  <2>3. CASE ~ (i < r)
    <3>1. i >= r
      BY <1>1, <2>1, <2>3
    <3>. QED BY <1>5, <2>3, <3>1
  <2>. QED BY <2>2, <2>3
<1>7. filledArr(lg, s, rest) = [i \in Cells(lg) |-> arr[i]]
  BY <1>6 DEF filledArr
<1>. QED BY <1>2, <1>7 DEF s, q

\* A list made of listed coupons.
LEMMA ListMade ==
  ASSUME NEW q, NEW D, Lists(q, D, itself, Coupon), Len(q) < 2 ^ LgList,
         NEW k, k = [f \in CouponFields |-> k[f]], k.mode = "LIST", k.lg = LgList, IsLgK(k.lgK),
         k.arr = filledArr(LgList, q, EMPTY), k.count = Len(q)
  PROVE  IsList(k, D)
<1>. DEFINE n   == Len(q)
            arr == k.arr
<1>1. /\ n \in Nat /\ n = Cardinality(D) /\ q \in Seq(Coupon)
      /\ \A j \in 1 .. n : q[j] \in D
      /\ \A e \in D : \E j \in 1 .. n : e = q[j]
      /\ \A i, j \in 1 .. n : q[i] = q[j] => i = j
      /\ n < 2 ^ LgList
  <2>1. n = Cardinality(D)
    BY ListedCount
  <2>2. q \in Seq(Coupon) /\ n \in Nat /\ D = {q[j] : j \in 1 .. n}
    BY DEF Lists, ElementsOf
  <2>3. \A i, j \in 1 .. n : q[i] = q[j] => i = j
    BY DEF Lists
  <2>. QED BY <2>1, <2>2, <2>3
<1>2. LgList \in Nat /\ Powers(LgList) /\ 2 ^ LgList \in Nat
  BY HllImplAssumption DEF Powers
<1>3. \A i \in 1 .. n : q[i] \in Coupon
  BY <1>1
<1>4. arr = [i \in Cells(LgList) |-> IF i < n THEN q[i + 1] ELSE EMPTY]
  BY DEF filledArr
<1>. HIDE DEF n
<1>5. ASSUME NEW i \in Cells(LgList)
      PROVE  /\ i < n => i + 1 \in 1 .. n /\ arr[i] = q[i + 1] /\ arr[i] \in Coupon /\ arr[i] # EMPTY
             /\ ~ (i < n) => arr[i] = EMPTY
  <2>1. i \in Nat
    BY <1>2 DEF Cells
  <2>2. arr[i] = IF i < n THEN q[i + 1] ELSE EMPTY
    BY <1>4
  <2>3. i < n => i + 1 \in 1 .. n
    BY <1>1, <2>1
  <2>. QED BY <1>3, <2>2, <2>3, CouponsHaveKeys
<1>6. arr = [i \in Cells(LgList) |-> arr[i]]
  BY <1>4
<1>. HIDE DEF arr
<1>7. Filled(arr, LgList, Coupon)
  BY <1>2, <1>5, <1>6, CouponsHaveKeys DEF Filled, IsTable
<1>8. InUse(arr, LgList) = {i \in Cells(LgList) : i < n}
  BY <1>5 DEF InUse
<1>9. Distinct(arr, LgList, itself)
  <2>1. ASSUME NEW i \in InUse(arr, LgList), NEW j \in InUse(arr, LgList), itself[arr[i]] = itself[arr[j]]
        PROVE  i = j
    <3>1. i \in Cells(LgList) /\ j \in Cells(LgList) /\ i < n /\ j < n
      BY <1>8
    <3>2. arr[i] = arr[j]
      BY <1>5, <2>1, <3>1, CouponsHaveKeys
    <3>3. i + 1 \in 1 .. n /\ j + 1 \in 1 .. n /\ q[i + 1] = q[j + 1]
      BY <1>5, <3>1, <3>2
    <3>4. i + 1 = j + 1
      BY <1>1, <3>3
    <3>. QED BY <1>2, <3>1, <3>4 DEF Cells
  <2>. QED BY <2>1 DEF Distinct
<1>10. Entered(arr, LgList) = D
  <2>1. ASSUME NEW e \in Entered(arr, LgList) PROVE e \in D
    <3>1. PICK i \in InUse(arr, LgList) : e = arr[i]
      BY DEF Entered
    <3>2. i \in Cells(LgList) /\ i < n
      BY <1>8
    <3>3. i + 1 \in 1 .. n /\ e = q[i + 1]
      BY <1>5, <3>1, <3>2
    <3>. QED BY <1>1, <3>3
  <2>2. ASSUME NEW e \in D PROVE e \in Entered(arr, LgList)
    <3>1. PICK j \in 1 .. n : e = q[j]
      BY <1>1
    <3>2. j - 1 \in Cells(LgList) /\ j - 1 < n /\ (j - 1) + 1 = j
      <4>. DEFINE N == 2 ^ LgList
      <4>1. N \in Nat /\ n \in Nat /\ n < N
        BY <1>1, <1>2
      <4>. HIDE DEF N
      <4>2. j - 1 \in 0 .. N - 1 /\ j - 1 < n /\ (j - 1) + 1 = j
        BY <4>1
      <4>. QED BY <4>2 DEF Cells, N
    <3>3. j - 1 \in InUse(arr, LgList) /\ arr[j - 1] = e
      BY <1>5, <1>8, <3>1, <3>2
    <3>. QED BY <3>3 DEF Entered
  <2>. QED BY <2>1, <2>2
<1>11. IsCoupons(k, D)
  BY <1>1, <1>7, <1>9, <1>10 DEF IsCoupons, arr, n
<1>. QED BY <1>5, <1>11 DEF IsList, arr, n

\* An object that agrees with a list in all but the flag.
LEMMA LikeList ==
  ASSUME NEW k, NEW D, IsList(k, D),
         NEW r, r = [f \in CouponFields |-> r[f]], r.mode = "LIST", r.lgK = k.lgK, r.lg = k.lg,
         r.arr = k.arr, r.count = k.count
  PROVE  IsList(r, D)
BY DEF IsList, IsCoupons

\* A list read back.
LEMMA ListReadBack ==
  ASSUME NEW k, NEW D, IsList(k, D),
         NEW type, NEW compact \in BOOLEAN, NEW stream \in BOOLEAN, NEW rest
  PROVE  /\ IsList(readBack(k, type, compact, stream, rest), D)
         /\ readBack(k, type, compact, stream, rest).lgK = k.lgK
         /\ ~ readThrows(k, type, compact, stream)
<1>. DEFINE im == serialize(k, type, compact)
            n  == intsRead(im, stream)
            s  == SubSeq(im.ints, 1, n)
            r  == deserialized(im, stream, rest)
<1>0. /\ IsCoupons(k, D) /\ k.lg = LgList /\ k.count < 2 ^ LgList /\ k.mode = "LIST"
      /\ \A i \in Cells(LgList) : k.arr[i] # EMPTY <=> i < k.count
  BY DEF IsList
<1>1. /\ modeOf(im) = k.mode /\ im.lgK = k.lgK /\ im.lgArr = k.lg
      /\ (im.emptyFlag <=> k.count = 0) /\ im.compactFlag = compact /\ im.oooFlag = k.ooo
      /\ im.count = k.count
      /\ im.ints = IF compact THEN pairs(k) ELSE cellSeq(k.arr, k.lg)
  BY <1>0, CouponImage
<1>2. k.count \in Nat /\ 2 ^ LgList \in Nat /\ IsLgK(k.lgK) /\ Filled(k.arr, LgList, Coupon)
      /\ k.count = Cardinality(D)
  <2>1. 2 ^ LgList \in Nat
    BY HllImplAssumption DEF Powers
  <2>. QED BY <1>0, <2>1, CouponsAre DEF IsCoupons
<1>. HIDE DEF im
<1>3. /\ n = k.count \/ (~ compact /\ n = 2 ^ LgList)
      /\ n \in 0 .. 2 ^ LgList
  <2>1. n = IF im.emptyFlag THEN 0
            ELSE IF im.compactFlag \/ ~ stream THEN im.count ELSE 2 ^ LgList
    BY <1>0, <1>1 DEF intsRead
  <2>2. n = k.count \/ (~ compact /\ n = 2 ^ LgList)
    BY <1>1, <2>1
  <2>. QED BY <1>0, <1>2, <2>2
<1>. HIDE DEF n
<1>4. r = [newList(im.lgK) EXCEPT !.arr = filledArr(LgList, s, EMPTY),
                                  !.count = im.count, !.ooo = im.oooFlag]
  BY <1>0, <1>1 DEF deserialized, n
<1>5. /\ r = [f \in CouponFields |-> r[f]] /\ r.mode = "LIST" /\ r.lgK = k.lgK /\ r.lg = LgList
      /\ r.arr = filledArr(LgList, s, EMPTY) /\ r.count = k.count
  <2>. HIDE DEF s, r
  <2>. QED BY <1>1, <1>4 DEF newList, newCoupons, CouponFields
<1>6. ~ deserializeThrows(im, stream)
  BY <1>0, <1>1 DEF deserializeThrows
<1>. HIDE DEF r
<1>7. IsList(r, D)
  <2>1. CASE compact
    <3>1. k.mode # "HLL" /\ Filled(k.arr, k.lg, Coupon) /\ Distinct(k.arr, k.lg, itself)
          /\ Entered(k.arr, k.lg) = D
      BY <1>0 DEF IsCoupons
    <3>2. Lists(pairs(k), D, itself, Coupon)
      BY <3>1, PairsAre
    <3>3. Len(pairs(k)) = k.count /\ pairs(k) \in Seq(Coupon)
      BY <1>2, <3>2, ListedCount DEF Lists
    <3>4. s = pairs(k)
      BY <1>1, <1>3, <2>1, <3>3, SubSeqFull
    <3>. HIDE DEF s
    <3>. QED BY <1>0, <1>2, <1>5, <3>2, <3>3, <3>4, ListMade
  <2>2. CASE ~ compact
    <3>1. s = SubSeq(cellSeq(k.arr, LgList), 1, n)
      BY <1>0, <1>1, <2>2
    <3>. HIDE DEF s
    <3>2. \A i \in Cells(LgList) : i >= n => k.arr[i] = EMPTY
      <4>1. ASSUME NEW i \in Cells(LgList), i >= n PROVE k.arr[i] = EMPTY
        <5>1. i \in Int /\ i < 2 ^ LgList
          BY <1>2 DEF Cells
        <5>2. ~ (i < k.count)
          BY <1>2, <1>3, <4>1, <5>1
        <5>. QED BY <1>0, <5>2
      <4>. QED BY <4>1
    <3>3. filledArr(LgList, s, EMPTY) = k.arr
      BY <1>2, <1>3, <3>1, <3>2, CellsRead
    <3>. QED BY <1>0, <1>5, <3>3, LikeList
  <2>. QED BY <2>1, <2>2
<1>. QED BY <1>5, <1>6, <1>7 DEF readBack, readThrows, im, r

\* An object that agrees with a set in all but the flag.
LEMMA LikeSet ==
  ASSUME NEW k, NEW D, IsSet(k, D),
         NEW r, r = [f \in CouponFields |-> r[f]], r.mode = "SET", r.lgK = k.lgK, r.lg = k.lg,
         r.arr = k.arr, r.count = k.count
  PROVE  IsSet(r, D)
BY DEF IsSet, IsTableOf, IsCoupons, Loaded, FullEnough

\* A set read back from any image but an updatable byte array.
LEMMA SetReadBack ==
  ASSUME NEW k, NEW D, IsSet(k, D),
         NEW type, NEW compact \in BOOLEAN, NEW stream \in BOOLEAN, compact \/ stream, NEW rest
  PROVE  /\ IsSet(readBack(k, type, compact, stream, rest), D)
         /\ readBack(k, type, compact, stream, rest).lgK = k.lgK
         /\ ~ readThrows(k, type, compact, stream)
<1>. DEFINE im == serialize(k, type, compact)
            n  == intsRead(im, stream)
            s  == SubSeq(im.ints, 1, n)
            r  == deserialized(im, stream, rest)
            lg == k.lg
<1>0. /\ IsCouponTab(k, D) /\ IsLgK(k.lgK) /\ k.mode = "SET" /\ k.count = Cardinality(D)
      /\ k.lgK >= MinSetLgK /\ lg \in LgInitSet .. k.lgK - SetMargin /\ ~ overloaded(k.count, lg)
      /\ IsCoupons(k, D)
  BY TableIs, TableHolds DEF IsSet, Loaded
<1>1. /\ modeOf(im) = k.mode /\ im.lgK = k.lgK /\ im.lgArr = k.lg
      /\ im.compactFlag = compact /\ im.count = k.count
      /\ im.ints = IF compact THEN pairs(k) ELSE cellSeq(k.arr, k.lg)
  BY <1>0, CouponImage
<1>2. k.count \in Nat /\ IsFiniteSet(D) /\ Filled(k.arr, lg, Coupon) /\ Distinct(k.arr, lg, itself)
      /\ Entered(k.arr, lg) = D
  BY <1>0, CouponsAre DEF IsCoupons
<1>3. lg \in Nat /\ 2 ^ lg \in Nat /\ Powers(lg) /\ LgInitSet \in Nat /\ k.lgK \in Nat /\ SetMargin \in Nat
  BY <1>0, SizesAre, HllImplAssumption
<1>. HIDE DEF im
<1>4. ~ deserializeThrows(im, stream)
  BY <1>0, <1>1 DEF deserializeThrows
<1>5. CASE compact
  <2>1. Lists(pairs(k), D, itself, Coupon)
    BY <1>0, <1>2, PairsAre
  <2>2. Len(pairs(k)) = k.count /\ pairs(k) \in Seq(Coupon)
    BY <1>0, <2>1, ListedCount DEF Lists
  <2>3. n = k.count
    BY <1>0, <1>1, <1>5 DEF intsRead
  <2>4. s = pairs(k)
    BY <1>1, <1>5, <2>2, <2>3, SubSeqFull
  <2>5. r = FoldLeft(setInsert, newSet(k.lgK), s)
    BY <1>0, <1>1, <1>5 DEF deserialized
  <2>. HIDE DEF r, s
  <2>6. ~ overloaded(Cardinality(D), k.lgK - SetMargin)
    <3>1. k.lgK - SetMargin \in LgInitSet .. k.lgK - SetMargin /\ lg <= k.lgK - SetMargin
      BY <1>0, <1>3
    <3>2. k.lgK - SetMargin \in Nat /\ Powers(k.lgK - SetMargin)
      BY <1>0, <3>1, SizesAre
    <3>. QED BY <1>0, <1>2, <1>3, <3>1, <3>2, LargerHolds
  <2>7. IsSet(r, D) /\ r.lgK = k.lgK
    BY <1>0, <1>2, <2>1, <2>4, <2>5, <2>6, SetOfList
  <2>. QED BY <1>4, <2>7 DEF readBack, readThrows, im, r
<1>6. CASE ~ compact
  <2>1. setLg(im) = lg
    <3>1. ~ (lg < LgInitSet)
      BY <1>0, <1>3
    <3>. QED BY <1>1, <3>1 DEF setLg
  <2>2. n = 2 ^ lg
    BY <1>0, <1>1, <1>6, <2>1 DEF intsRead
  <2>3. s = SubSeq(cellSeq(k.arr, lg), 1, n)
    BY <1>1, <1>6
  <2>4. r = [newSet(im.lgK) EXCEPT !.lg = setLg(im), !.count = im.count,
                                   !.arr = filledArr(setLg(im), s, rest)]
    BY <1>0, <1>1, <1>6 DEF deserialized
  <2>. HIDE DEF r, s
  <2>5. /\ r = [f \in CouponFields |-> r[f]] /\ r.mode = "SET" /\ r.lgK = k.lgK /\ r.lg = lg
        /\ r.arr = filledArr(lg, s, rest) /\ r.count = k.count
    BY <1>1, <2>1, <2>4 DEF newSet, newCoupons, CouponFields
  <2>6. filledArr(lg, s, rest) = k.arr
    <3>1. n \in 0 .. 2 ^ lg
      BY <1>3, <2>2
    <3>2. \A i \in Cells(lg) : i >= n => k.arr[i] = rest
      <4>1. \A i \in Cells(lg) : i \in Int /\ i < 2 ^ lg
        BY <1>3 DEF Cells
      <4>2. \A i \in Cells(lg) : ~ (i >= n)
        <5>. DEFINE N == 2 ^ lg
        <5>1. \A x \in Int : x < N => ~ (x >= N)
          <6>1. N \in Nat
            BY <1>3
          <6>. HIDE DEF N
          <6>. QED BY <6>1
        <5>. QED BY <2>2, <4>1, <5>1
      <4>. QED BY <4>2
    <3>. HIDE DEF n, lg
    <3>. QED BY <1>2, <2>3, <3>1, <3>2, CellsRead
  <2>7. IsSet(r, D)
    BY <2>5, <2>6, LikeSet
  <2>. QED BY <1>4, <2>5, <2>7 DEF readBack, readThrows, im, r
<1>. QED BY <1>5, <1>6

----------------------------------------------------------------------------
(* The images of an array: its exceptions. *)

\* An array of some of the slots, each with its register.
IsSlotArr(arr, lgK, reg) ==
  /\ arr = [s \in SlotsOf(lgK) |-> arr[s]]
  /\ \A s \in SlotsOf(lgK) : arr[s] # EMPTY => arr[s] = <<s, reg[s]>> /\ reg[s] \in 1 .. 63

\* The slots in use, and what is there.
SlotPairs(arr, lgK, reg) == {<<s, reg[s]>> : s \in {t \in SlotsOf(lgK) : arr[t] # EMPTY}}

\* A pass over the slots lists the registers in use, each once.
LEMMA SlotsListed ==
  ASSUME NEW lgK, IsLgK(lgK), NEW arr, NEW reg, IsSlotArr(arr, lgK, reg)
  PROVE  /\ Lists(Entries(arr, lgK), SlotPairs(arr, lgK, reg), addressOf, Coupon)
         /\ Cardinality(SlotPairs(arr, lgK, reg)) \in Nat
         /\ Cardinality(SlotPairs(arr, lgK, reg)) <= 2 ^ lgK
<1>1. lgK \in Nat /\ Powers(lgK) /\ 2 ^ lgK \in Nat \ {0} /\ SlotsOf(lgK) = Cells(lgK)
  BY SizesAre DEF SlotsOf, Cells
<1>2. \A s \in Cells(lgK) : s \in Nat
  BY <1>1 DEF Cells
<1>3. \A s \in Cells(lgK) : arr[s] # EMPTY => arr[s] \in Coupon /\ addressOf[arr[s]] = s
                                              /\ arr[s] = <<s, reg[s]>>
  <2>1. ASSUME NEW s \in Cells(lgK), arr[s] # EMPTY
        PROVE  arr[s] \in Coupon /\ addressOf[arr[s]] = s /\ arr[s] = <<s, reg[s]>>
    <3>1. arr[s] = <<s, reg[s]>> /\ reg[s] \in 1 .. 63 /\ s \in Nat
      BY <1>1, <1>2, <2>1 DEF IsSlotArr
    <3>2. arr[s] \in Coupon
      BY <3>1 DEF Coupon
    <3>. QED BY <3>1, <3>2, CouponsHaveKeys
  <2>. QED BY <2>1
<1>4. Filled(arr, lgK, Coupon)
  <2>1. arr = [s \in Cells(lgK) |-> arr[s]]
    BY <1>1 DEF IsSlotArr
  <2>. QED BY <1>1, <1>3, <2>1, CouponsHaveKeys DEF Filled, IsTable
<1>5. Distinct(arr, lgK, addressOf)
  BY <1>3 DEF Distinct, InUse
<1>6. Entered(arr, lgK) = SlotPairs(arr, lgK, reg)
  <2>1. ASSUME NEW e \in Entered(arr, lgK) PROVE e \in SlotPairs(arr, lgK, reg)
    <3>1. PICK s \in Cells(lgK) : arr[s] # EMPTY /\ e = arr[s]
      BY DEF Entered, InUse
    <3>. QED BY <1>1, <1>3, <3>1 DEF SlotPairs
  <2>2. ASSUME NEW e \in SlotPairs(arr, lgK, reg) PROVE e \in Entered(arr, lgK)
    <3>1. PICK s \in Cells(lgK) : arr[s] # EMPTY /\ e = <<s, reg[s]>>
      BY <1>1 DEF SlotPairs
    <3>2. e = arr[s]
      BY <1>3, <3>1
    <3>. QED BY <3>1, <3>2 DEF Entered, InUse
  <2>. QED BY <2>1, <2>2
<1>7. Lists(Entries(arr, lgK), Entered(arr, lgK), addressOf, Coupon)
  BY <1>4, <1>5, EntriesAreHeld
<1>8. Cardinality(Entered(arr, lgK)) \in Nat /\ Cardinality(Entered(arr, lgK)) <= 2 ^ lgK
  <2>1. /\ Cardinality(InUse(arr, lgK)) = Cardinality(Entered(arr, lgK))
        /\ Cardinality(Entered(arr, lgK)) \in Nat
    BY <1>4, <1>5, HeldCount
  <2>2. IsFiniteSet(Cells(lgK)) /\ Cardinality(Cells(lgK)) = 2 ^ lgK
    <3>. DEFINE N == 2 ^ lgK
    <3>1. N \in Nat \ {0} /\ 0 \in Int /\ N - 1 \in Int
      BY <1>1
    <3>. HIDE DEF N
    <3>2. IsFiniteSet(0 .. N - 1)
          /\ Cardinality(0 .. N - 1) = IF 0 > N - 1 THEN 0 ELSE (N - 1) - 0 + 1
      BY <3>1, FS_Interval
    <3>3. Cardinality(0 .. N - 1) = N
      BY <3>1, <3>2
    <3>. QED BY <3>2, <3>3 DEF Cells, N
  <2>3. InUse(arr, lgK) \subseteq Cells(lgK)
    BY DEF InUse
  <2>. QED BY <2>1, <2>2, <2>3, FS_Subset
<1>. QED BY <1>6, <1>7, <1>8

\* The table of exceptions has room.
LEMMA AuxSize ==
  ASSUME NEW lgK, IsLgK(lgK), NEW n \in Nat, n <= 2 ^ lgK
  PROVE  lgAux(n) \in Nat /\ Powers(lgAux(n)) /\ n < 2 ^ lgAux(n) /\ 2 ^ lgAux(n) \in Nat
<1>. DEFINE Fits(l) == ~ overloaded(n, l) /\ \A k \in 0 .. l - 1 : overloaded(n, k)
            K == lgK + 1
            T == {l \in 0 .. n + 1 : ~ overloaded(n, l)}
<1>0. lgK \in Nat /\ 2 ^ lgK \in Nat \ {0} /\ 2 ^ K = 2 * 2 ^ lgK
  BY SizesAre
<1>1. lgK \in Nat /\ Powers(K) /\ K \in Nat /\ 2 ^ lgK \in Nat \ {0} /\ 2 ^ K = 2 * 2 ^ lgK
  <2>1. Powers(K)
    BY DEF IsLgK
  <2>. QED BY <1>0, <2>1
<1>2. ~ overloaded(n, K)
  <2>. DEFINE x == 2 ^ lgK
  <2>1. x \in Nat /\ n <= x
    BY <1>1
  <2>2. ~ (4 * n > 3 * (2 * x))
    <3>. HIDE DEF x
    <3>. QED BY <2>1
  <2>. QED BY <1>1, <2>2 DEF overloaded
<1>3. T # {} /\ T \subseteq Nat
  <2>1. CASE n + 1 <= K
    <3>1. lgFor(n) \in 0 .. n + 1 /\ ~ overloaded(n, lgFor(n))
      BY <1>1, <2>1, LgForHolds
    <3>. QED BY <3>1
  <2>2. CASE ~ (n + 1 <= K)
    <3>1. K \in 0 .. n + 1
      BY <1>1, <2>2
    <3>. QED BY <1>2, <3>1
  <2>. QED BY <2>1, <2>2
<1>4. PICK l \in T : \A m \in T : l <= m
  <2>. HIDE DEF T
  <2>. QED BY <1>3, Puts!LeastElement
<1>5. l \in 0 .. n + 1 /\ Fits(l)
  <2>1. l \in 0 .. n + 1 /\ ~ overloaded(n, l)
    BY <1>4
  <2>2. ASSUME NEW k \in 0 .. l - 1, ~ overloaded(n, k) PROVE FALSE
    <3>1. k \in 0 .. n + 1 /\ ~ (l <= k)
      BY <2>1
    <3>2. k \in T
      BY <2>2, <3>1
    <3>. QED BY <1>4, <3>1, <3>2
  <2>. QED BY <2>1, <2>2
<1>6. lgFor(n) \in 0 .. n + 1 /\ Fits(lgFor(n))
  <2>1. lgFor(n) = CHOOSE m \in 0 .. n + 1 : Fits(m)
    BY DEF lgFor
  <2>. HIDE DEF Fits
  <2>. QED BY <1>5, <2>1
<1>7. lgFor(n) \in Nat /\ lgFor(n) <= K /\ ~ overloaded(n, lgFor(n))
  <2>1. ASSUME ~ (lgFor(n) <= K) PROVE FALSE
    <3>1. K \in 0 .. lgFor(n) - 1
      BY <1>1, <1>6, <2>1
    <3>. QED BY <1>2, <1>6, <3>1
  <2>. QED BY <1>6, <2>1
<1>8. LgAuxInit \in Nat /\ Powers(LgAuxInit)
  BY HllImageAssumption
<1>9. lgAux(n) \in Nat /\ Powers(lgAux(n)) /\ ~ overloaded(n, lgAux(n))
  <2>. DEFINE a == lgFor(n)
  <2>1. lgAux(n) = IF LgAuxInit >= a THEN LgAuxInit ELSE a
    BY DEF lgAux, larger
  <2>2. CASE LgAuxInit >= a
    <3>1. a <= LgAuxInit /\ a \in Nat /\ ~ overloaded(n, a)
      BY <1>7, <1>8, <2>2
    <3>. HIDE DEF a
    <3>. QED BY <1>8, <2>1, <2>2, <3>1, LargerHolds
  <2>3. CASE ~ (LgAuxInit >= a)
    BY <1>1, <1>7, <2>1, <2>3, PowersBelow
  <2>. QED BY <2>2, <2>3
<1>. DEFINE y == 2 ^ lgAux(n)
<1>10. y \in Nat \ {0} /\ ~ (4 * n > 3 * y)
  BY <1>9 DEF Powers, overloaded
<1>11. n < y
  <2>. HIDE DEF y
  <2>. QED BY <1>10
<1>. QED BY <1>9, <1>10, <1>11

\* The cell for an exception, which is searched by its slot.
auxCell(t, lg, e) == findCell(t, lg, e[1], LAMBDA c : c[1] = e[1])
sameSlot(e)       == {c \in Coupon : c[1] = e[1]}

\* The search for an exception is a search for one of its slot.
LEMMA AuxCellIs ==
  ASSUME NEW t, NEW lg, Filled(t, lg, Coupon), NEW e \in Coupon
  PROVE  auxCell(t, lg, e) = cellAt(t, lg, e[1], sameSlot(e))
<1>1. e[1] \in Nat
  BY CouponsHaveKeys
<1>2. ASSUME NEW i \in Cells(lg)
      PROVE  (t[probe(e[1], lg, i)] = EMPTY \/ t[probe(e[1], lg, i)][1] = e[1])
             <=> (t[probe(e[1], lg, i)] = EMPTY \/ t[probe(e[1], lg, i)] \in sameSlot(e))
  <2>1. probe(e[1], lg, i) \in Cells(lg)
    BY <1>1, WalkCovers DEF Filled
  <2>2. t[probe(e[1], lg, i)] \in Coupon \union {EMPTY}
    BY <2>1 DEF Filled, IsTable
  <2>. QED BY <2>2 DEF sameSlot
<1>3. Stops(t, lg, e[1], LAMBDA c : c[1] = e[1]) = StopsAt(t, lg, e[1], sameSlot(e))
  BY <1>2 DEF Stops, StopsAt, Cells
<1>. QED BY <1>3 DEF auxCell, findCell, cellAt

\* The table of the exceptions of an image, p.lg being its size.
auxing(p, q, i, acc) == [acc EXCEPT ![auxCell(acc, p.lg, q[i])] = q[i]]

auxedUpTo(p, q, n, acc) == IsTab(acc, p.lg, addressOf, FirstOf(q, n))

Auxes == INSTANCE FoldTheorems WITH step <- auxing, choose <- lastOf, Good <- auxedUpTo

\* A table filled with a list of exceptions has the exceptions of the list.
LEMMA AuxTableIs ==
  ASSUME NEW q, NEW X, Lists(q, X, addressOf, Coupon), NEW lg \in Nat, Powers(lg),
         Len(q) < 2 ^ lg
  PROVE  IsTab(auxTable(q, lg), lg, addressOf, X)
<1>. DEFINE b == EmptyTable(lg)
            n == Len(q)
            p == [lg |-> lg]
            t == auxTable(q, lg)
<1>0. p.lg = lg
  OBVIOUS
<1>1. IsTab(b, lg, addressOf, {})
  BY EmptyTab
<1>2. n \in Nat /\ DOMAIN q = 1 .. n /\ FirstOf(q, 0) = {} /\ FirstOf(q, n) = X
  BY NoneAndAll
<1>3. n = Cardinality(X) /\ IsFiniteSet(X) /\ 2 ^ lg \in Nat
  BY ListedCount DEF Powers
<1>4. t = FoldLeft(LAMBDA acc, e : [acc EXCEPT ![auxCell(acc, lg, e)] = e], b, q)
  BY DEF auxTable, auxCell
<1>. HIDE DEF b, p, t
<1>5. t = Auxes!Left(p, q, b, n)
  BY <1>0, <1>2, <1>4 DEF FoldLeft, MapThenFoldSet, Max, Auxes!Left, Auxes!Fold,
         Auxes!MapThenFoldSet, auxing, lastOf
<1>6. Auxes!ChoosesLast
  BY DEF Auxes!ChoosesLast, lastOf
<1>7. ASSUME NEW i \in 1 .. n, NEW acc, auxedUpTo(p, q, i - 1, acc)
      PROVE  auxedUpTo(p, q, i, auxing(p, q, i, acc))
  <2>. DEFINE P == FirstOf(q, i - 1)
              e == q[i]
              c == auxCell(acc, lg, e)
  <2>1. /\ e \in Coupon /\ FirstOf(q, i) = P \union {e} /\ P \subseteq X
        /\ \A d \in P : addressOf[d] # addressOf[e]
    BY NextOf
  <2>2. IsTab(acc, lg, addressOf, P)
    BY <1>0, <1>7 DEF auxedUpTo
  <2>3. Filled(acc, lg, Coupon)
    BY <2>2 DEF IsTab
  <2>. HIDE DEF P, e
  <2>4. c = cellAt(acc, lg, e[1], sameSlot(e))
    BY <2>1, <2>3, AuxCellIs
  <2>5. \A d \in P : d \notin sameSlot(e)
    <3>1. P \subseteq Coupon
      BY <2>2, TabHolds
    <3>2. \A d \in P : d[1] # e[1]
      BY <2>1, <3>1, CouponsHaveKeys
    <3>. QED BY <3>2 DEF sameSlot
  <2>6. Cardinality(P) # 2 ^ lg
    <3>1. Cardinality(P) <= Cardinality(X) /\ Cardinality(P) \in Nat
      BY <1>3, <2>1, FS_Subset, FS_CardinalityType
    <3>. QED BY <1>2, <1>3, <3>1
  <2>. DEFINE M == sameSlot(e)
  <2>. HIDE DEF c, M
  <2>7. c = cellAt(acc, lg, e[1], M) /\ \A d \in P : d \notin M
    BY <2>4, <2>5 DEF M
  <2>8. c \in Cells(lg) /\ acc[c] = EMPTY /\ Reaches(acc, lg, e[1], c)
    BY <2>1, <2>2, <2>6, <2>7, NewPlace
  <2>9. IsTab([acc EXCEPT ![c] = e], lg, addressOf, P \union {e})
    BY <2>1, <2>2, <2>8, Placed
  <2>. QED BY <1>0, <2>1, <2>9 DEF auxedUpTo, auxing, c, e
<1>8. Auxes!Preserves(p, q, n)
  BY <1>7 DEF Auxes!Preserves
<1>9. auxedUpTo(p, q, 0, b)
  BY <1>0, <1>1, <1>2 DEF auxedUpTo
<1>10. auxedUpTo(p, q, n, Auxes!Left(p, q, b, n))
  BY <1>2, <1>6, <1>8, <1>9, Auxes!LeftKeeps
<1>. QED BY <1>0, <1>2, <1>5, <1>10 DEF auxedUpTo, t

----------------------------------------------------------------------------
(* The images of an array: the six-bit slots.  Four slots share three      *)
(* bytes, of 6 + 2, 4 + 4 and 2 + 6 bits.                                  *)

IsBytes(b, n) == b = [i \in 0 .. n - 1 |-> b[i]] /\ \A i \in 0 .. n - 1 : b[i] \in 0 .. 255

\* Where the bits of a slot begin.
LEMMA BitsAt ==
  ASSUME NEW g \in Nat
  PROVE  /\ (6 * (4 * g)) \div 8 = 3 * g /\ shift(4 * g) = 1
         /\ (6 * (4 * g + 1)) \div 8 = 3 * g /\ shift(4 * g + 1) = 64
         /\ (6 * (4 * g + 2)) \div 8 = 3 * g + 1 /\ shift(4 * g + 2) = 16
         /\ (6 * (4 * g + 3)) \div 8 = 3 * g + 2 /\ shift(4 * g + 3) = 4
<1>1. 2 ^ 0 = 1 /\ 2 ^ 2 = 4 /\ 2 ^ 4 = 16 /\ 2 ^ 6 = 64
  <2>1. 2 ^ 0 = 1 /\ \A n \in 0 .. 6 : 2 ^ (n + 1) = 2 * 2 ^ n
    BY HllImageAssumption DEF Powers
  <2>2. /\ 2 ^ (0 + 1) = 2 * 2 ^ 0 /\ 2 ^ (1 + 1) = 2 * 2 ^ 1 /\ 2 ^ (2 + 1) = 2 * 2 ^ 2
        /\ 2 ^ (3 + 1) = 2 * 2 ^ 3 /\ 2 ^ (4 + 1) = 2 * 2 ^ 4 /\ 2 ^ (5 + 1) = 2 * 2 ^ 5
    BY <2>1
  <2>3. /\ 0 + 1 = 1 /\ 1 + 1 = 2 /\ 2 + 1 = 3 /\ 3 + 1 = 4 /\ 4 + 1 = 5 /\ 5 + 1 = 6
    OBVIOUS
  <2>4. 2 ^ 1 = 2
    BY <2>1, <2>2, <2>3
  <2>5. 2 ^ 2 = 4
    BY <2>2, <2>3, <2>4
  <2>6. 2 ^ 3 = 8
    BY <2>2, <2>3, <2>5
  <2>7. 2 ^ 4 = 16
    BY <2>2, <2>3, <2>6
  <2>8. 2 ^ 5 = 32
    BY <2>2, <2>3, <2>7
  <2>9. 2 ^ 6 = 64
    BY <2>2, <2>3, <2>8
  <2>. QED BY <2>1, <2>5, <2>7, <2>9
<1>2. (6 * (4 * g)) \div 8 = 3 * g /\ (6 * (4 * g)) % 8 = 0
  OBVIOUS
<1>3. (6 * (4 * g + 1)) \div 8 = 3 * g /\ (6 * (4 * g + 1)) % 8 = 6
  OBVIOUS
<1>4. (6 * (4 * g + 2)) \div 8 = 3 * g + 1 /\ (6 * (4 * g + 2)) % 8 = 4
  OBVIOUS
<1>5. (6 * (4 * g + 3)) \div 8 = 3 * g + 2 /\ (6 * (4 * g + 3)) % 8 = 2
  OBVIOUS
<1>. QED BY <1>1, <1>2, <1>3, <1>4, <1>5 DEF shift

\* A slot is one of four in a group of three bytes.
LEMMA SlotIs ==
  ASSUME NEW n \in Nat, NEW s \in 0 .. 4 * n - 1
  PROVE  \E g \in 0 .. n - 1 : s = 4 * g \/ s = 4 * g + 1 \/ s = 4 * g + 2 \/ s = 4 * g + 3
<1>1. s \div 4 \in 0 .. n - 1 /\ s % 4 \in 0 .. 3 /\ s = 4 * (s \div 4) + (s % 4)
  OBVIOUS
<1>. QED BY <1>1

\* The bytes of group g.
LEMMA GroupIs ==
  ASSUME NEW n \in Nat, NEW b, IsBytes(b, 3 * n + 1), NEW g \in 0 .. n - 1
  PROVE  /\ g \in Nat /\ 3 * g \in 0 .. 3 * n /\ 3 * g + 1 \in 0 .. 3 * n
         /\ 3 * g + 2 \in 0 .. 3 * n /\ 3 * g + 3 \in 0 .. 3 * n
         /\ b[3 * g] \in 0 .. 255 /\ b[3 * g + 1] \in 0 .. 255 /\ b[3 * g + 2] \in 0 .. 255
         /\ b[3 * g + 3] \in 0 .. 255
<1>1. /\ g \in Nat /\ 3 * g \in 0 .. 3 * n /\ 3 * g + 1 \in 0 .. 3 * n
      /\ 3 * g + 2 \in 0 .. 3 * n /\ 3 * g + 3 \in 0 .. 3 * n
      /\ (3 * n + 1) - 1 = 3 * n
  OBVIOUS
<1>. QED BY <1>1 DEF IsBytes

\* What getSlot6 makes of the bits.
LEMMA GetIs ==
  ASSUME NEW n \in Nat, NEW b, IsBytes(b, 3 * n + 1), NEW g \in 0 .. n - 1
  PROVE  /\ getSlot6(b, 4 * g) = b[3 * g] % 64
         /\ getSlot6(b, 4 * g + 1) = b[3 * g] \div 64 + 4 * (b[3 * g + 1] % 16)
         /\ getSlot6(b, 4 * g + 2) = b[3 * g + 1] \div 16 + 16 * (b[3 * g + 2] % 4)
         /\ getSlot6(b, 4 * g + 3) = b[3 * g + 2] \div 4
<1>0. /\ g \in Nat /\ b[3 * g] \in 0 .. 255 /\ b[3 * g + 1] \in 0 .. 255
      /\ b[3 * g + 2] \in 0 .. 255 /\ b[3 * g + 3] \in 0 .. 255
  BY GroupIs
<1>1. \A x, y \in 0 .. 255 : ((256 * y + x) \div 1) % 64 = x % 64
  OBVIOUS
<1>2. \A x, y \in 0 .. 255 : ((256 * y + x) \div 64) % 64 = x \div 64 + 4 * (y % 16)
  OBVIOUS
<1>3. \A x, y \in 0 .. 255 : ((256 * y + x) \div 16) % 64 = x \div 16 + 16 * (y % 4)
  OBVIOUS
<1>4. \A x, y \in 0 .. 255 : ((256 * y + x) \div 4) % 64 = x \div 4
  OBVIOUS
<1>5. 3 * g + 1 + 1 = 3 * g + 2 /\ 3 * g + 2 + 1 = 3 * g + 3
  BY <1>0
<1>6. getSlot6(b, 4 * g) = ((256 * b[3 * g + 1] + b[3 * g]) \div 1) % 64
  BY <1>0, BitsAt DEF getSlot6, twoBytes
<1>7. getSlot6(b, 4 * g + 1) = ((256 * b[3 * g + 1] + b[3 * g]) \div 64) % 64
  BY <1>0, BitsAt DEF getSlot6, twoBytes
<1>8. getSlot6(b, 4 * g + 2) = ((256 * b[3 * g + 2] + b[3 * g + 1]) \div 16) % 64
  BY <1>0, <1>5, BitsAt DEF getSlot6, twoBytes
<1>9. getSlot6(b, 4 * g + 3) = ((256 * b[3 * g + 3] + b[3 * g + 2]) \div 4) % 64
  BY <1>0, <1>5, BitsAt DEF getSlot6, twoBytes
<1>10. getSlot6(b, 4 * g) = b[3 * g] % 64
  <2>. DEFINE x == b[3 * g]
              y == b[3 * g + 1]
  <2>1. x \in 0 .. 255 /\ y \in 0 .. 255
    BY <1>0
  <2>2. getSlot6(b, 4 * g) = ((256 * y + x) \div 1) % 64
    BY <1>6
  <2>3. ((256 * y + x) \div 1) % 64 = x % 64
    <3>. HIDE DEF x, y
    <3>. QED BY <1>1, <2>1
  <2>. QED BY <2>2, <2>3
<1>11. getSlot6(b, 4 * g + 1) = b[3 * g] \div 64 + 4 * (b[3 * g + 1] % 16)
  <2>. DEFINE x == b[3 * g]
              y == b[3 * g + 1]
  <2>1. x \in 0 .. 255 /\ y \in 0 .. 255
    BY <1>0
  <2>2. getSlot6(b, 4 * g + 1) = ((256 * y + x) \div 64) % 64
    BY <1>7
  <2>3. ((256 * y + x) \div 64) % 64 = x \div 64 + 4 * (y % 16)
    <3>. HIDE DEF x, y
    <3>. QED BY <1>2, <2>1
  <2>. QED BY <2>2, <2>3
<1>12. getSlot6(b, 4 * g + 2) = b[3 * g + 1] \div 16 + 16 * (b[3 * g + 2] % 4)
  <2>. DEFINE x == b[3 * g + 1]
              y == b[3 * g + 2]
  <2>1. x \in 0 .. 255 /\ y \in 0 .. 255
    BY <1>0
  <2>2. getSlot6(b, 4 * g + 2) = ((256 * y + x) \div 16) % 64
    BY <1>8
  <2>3. ((256 * y + x) \div 16) % 64 = x \div 16 + 16 * (y % 4)
    <3>. HIDE DEF x, y
    <3>. QED BY <1>3, <2>1
  <2>. QED BY <2>2, <2>3
<1>13. getSlot6(b, 4 * g + 3) = b[3 * g + 2] \div 4
  <2>. DEFINE x == b[3 * g + 2]
              y == b[3 * g + 3]
  <2>1. x \in 0 .. 255 /\ y \in 0 .. 255
    BY <1>0
  <2>2. getSlot6(b, 4 * g + 3) = ((256 * y + x) \div 4) % 64
    BY <1>9
  <2>3. ((256 * y + x) \div 4) % 64 = x \div 4
    <3>. HIDE DEF x, y
    <3>. QED BY <1>4, <2>1
  <2>. QED BY <2>2, <2>3
<1>. QED BY <1>10, <1>11, <1>12, <1>13

\* Two bytes written.
Written(b, i, x, y) == [b EXCEPT ![i] = x, ![i + 1] = y]

IsWritten(w, b, n, i, x, y) ==
  \A j \in 0 .. n - 1 : w[j] = IF j = i THEN x ELSE IF j = i + 1 THEN y ELSE b[j]

\* Two bytes written are there, and the others are what they were.
LEMMA WrittenIs ==
  ASSUME NEW n \in Nat, NEW b, IsBytes(b, n), NEW i \in 0 .. n - 1, i + 1 \in 0 .. n - 1,
         NEW x \in 0 .. 255, NEW y \in 0 .. 255
  PROVE  /\ IsBytes(Written(b, i, x, y), n)
         /\ IsWritten(Written(b, i, x, y), b, n, i, x, y)
<1>. DEFINE w == Written(b, i, x, y)
<1>1. w = [j \in 0 .. n - 1 |-> IF j = i + 1 THEN y ELSE IF j = i THEN x ELSE b[j]]
  BY DEF Written, IsBytes
<1>2. i # i + 1
  OBVIOUS
<1>. HIDE DEF w
<1>3. \A j \in 0 .. n - 1 : w[j] = IF j = i THEN x ELSE IF j = i + 1 THEN y ELSE b[j]
  BY <1>1, <1>2
<1>4. IsBytes(w, n)
  <2>1. w = [j \in 0 .. n - 1 |-> w[j]]
    BY <1>1
  <2>2. \A j \in 0 .. n - 1 : w[j] \in 0 .. 255
    BY <1>3 DEF IsBytes
  <2>. QED BY <2>1, <2>2 DEF IsBytes
<1>. QED BY <1>3, <1>4 DEF w, IsWritten

\* What putSlot6 makes of two bytes, by the place of the slot in its group.
insertion(x, y, old, v, sh) == 256 * y + x + (v - old) * sh

PutRight(x, y, v) ==
  /\ insertion(x, y, x % 64, v, 1) % 256 = v + 64 * (x \div 64)
  /\ insertion(x, y, x % 64, v, 1) \div 256 = y
  /\ insertion(x, y, x \div 64 + 4 * (y % 16), v, 64) % 256 = (x % 64) + 64 * (v % 4)
  /\ insertion(x, y, x \div 64 + 4 * (y % 16), v, 64) \div 256 = v \div 4 + 16 * (y \div 16)
  /\ insertion(x, y, x \div 16 + 16 * (y % 4), v, 16) % 256 = (x % 16) + 16 * (v % 16)
  /\ insertion(x, y, x \div 16 + 16 * (y % 4), v, 16) \div 256 = v \div 16 + 4 * (y \div 4)
  /\ insertion(x, y, x \div 4, v, 4) % 256 = (x % 4) + 4 * v
  /\ insertion(x, y, x \div 4, v, 4) \div 256 = y

\* The two bytes that a slot shares keep the bits that are not its own.
LEMMA PutArithmetic ==
  ASSUME NEW x \in 0 .. 255, NEW y \in 0 .. 255, NEW v \in 0 .. 63
  PROVE  PutRight(x, y, v)
<1>1. /\ insertion(x, y, x % 64, v, 1) % 256 = v + 64 * (x \div 64)
      /\ insertion(x, y, x % 64, v, 1) \div 256 = y
  BY DEF insertion
<1>2. /\ insertion(x, y, x \div 64 + 4 * (y % 16), v, 64) % 256 = (x % 64) + 64 * (v % 4)
      /\ insertion(x, y, x \div 64 + 4 * (y % 16), v, 64) \div 256 = v \div 4 + 16 * (y \div 16)
  BY DEF insertion
<1>3. /\ insertion(x, y, x \div 16 + 16 * (y % 4), v, 16) % 256 = (x % 16) + 16 * (v % 16)
      /\ insertion(x, y, x \div 16 + 16 * (y % 4), v, 16) \div 256 = v \div 16 + 4 * (y \div 4)
  BY DEF insertion
<1>4. /\ insertion(x, y, x \div 4, v, 4) % 256 = (x % 4) + 4 * v
      /\ insertion(x, y, x \div 4, v, 4) \div 256 = y
  BY DEF insertion
<1>. QED BY <1>1, <1>2, <1>3, <1>4 DEF PutRight

\* One slot, written into the two bytes x and y at i that it shares.
putInto(b, i, x, y, old, v, sh) ==
  Written(b, i, insertion(x, y, old, v, sh) % 256, insertion(x, y, old, v, sh) \div 256)

\* Writing a slot of six bits writes two bytes.
LEMMA PutInto ==
  ASSUME NEW b, NEW s, NEW v \in 0 .. 63
  PROVE  putSlot6(b, s, v)
           = putInto(b, (6 * s) \div 8, b[(6 * s) \div 8], b[(6 * s) \div 8 + 1],
                     getSlot6(b, s), v, shift(s))
<1>1. v % 64 = v
  OBVIOUS
<1>. QED BY <1>1 DEF putSlot6, putInto, Written, insertion, twoBytes

\* The bytes that putSlot6 writes.
LEMMA PutWrites ==
  ASSUME NEW n \in Nat, NEW b, IsBytes(b, 3 * n + 1), NEW g \in 0 .. n - 1, NEW v \in 0 .. 63,
         NEW A, NEW B, NEW C, NEW D,
         A = b[3 * g], B = b[3 * g + 1], C = b[3 * g + 2], D = b[3 * g + 3]
  PROVE  /\ putSlot6(b, 4 * g, v) = Written(b, 3 * g, v + 64 * (A \div 64), B)
         /\ putSlot6(b, 4 * g + 1, v)
              = Written(b, 3 * g, (A % 64) + 64 * (v % 4), v \div 4 + 16 * (B \div 16))
         /\ putSlot6(b, 4 * g + 2, v)
              = Written(b, 3 * g + 1, (B % 16) + 16 * (v % 16), v \div 16 + 4 * (C \div 4))
         /\ putSlot6(b, 4 * g + 3, v) = Written(b, 3 * g + 2, (C % 4) + 4 * v, D)
<1>0. g \in Nat /\ A \in 0 .. 255 /\ B \in 0 .. 255 /\ C \in 0 .. 255 /\ D \in 0 .. 255
  BY GroupIs
<1>3. 3 * g + 1 + 1 = 3 * g + 2 /\ 3 * g + 2 + 1 = 3 * g + 3
  BY <1>0
<1>4. /\ getSlot6(b, 4 * g) = A % 64
      /\ getSlot6(b, 4 * g + 1) = A \div 64 + 4 * (B % 16)
      /\ getSlot6(b, 4 * g + 2) = B \div 16 + 16 * (C % 4)
      /\ getSlot6(b, 4 * g + 3) = C \div 4
  BY GetIs
<1>. DEFINE s0 == 4 * g
            s1 == 4 * g + 1
            s2 == 4 * g + 2
            s3 == 4 * g + 3
            r0 == A % 64
            r1 == A \div 64 + 4 * (B % 16)
            r2 == B \div 16 + 16 * (C % 4)
            r3 == C \div 4
<1>5. putSlot6(b, s0, v) = putInto(b, 3 * g, A, B, r0, v, 1)
  <2>1. (6 * s0) \div 8 = 3 * g /\ shift(s0) = 1 /\ getSlot6(b, s0) = r0
    BY <1>0, <1>4, BitsAt
  <2>. HIDE DEF s0, r0
  <2>. QED BY <2>1, PutInto
<1>6. putSlot6(b, s1, v) = putInto(b, 3 * g, A, B, r1, v, 64)
  <2>1. (6 * s1) \div 8 = 3 * g /\ shift(s1) = 64 /\ getSlot6(b, s1) = r1
    BY <1>0, <1>4, BitsAt
  <2>. HIDE DEF s1, r1
  <2>. QED BY <2>1, PutInto
<1>7. putSlot6(b, s2, v) = putInto(b, 3 * g + 1, B, C, r2, v, 16)
  <2>1. (6 * s2) \div 8 = 3 * g + 1 /\ shift(s2) = 16 /\ getSlot6(b, s2) = r2
    BY <1>0, <1>4, BitsAt
  <2>. HIDE DEF s2, r2
  <2>. QED BY <2>1, <1>3, PutInto
<1>8. putSlot6(b, s3, v) = putInto(b, 3 * g + 2, C, D, r3, v, 4)
  <2>1. (6 * s3) \div 8 = 3 * g + 2 /\ shift(s3) = 4 /\ getSlot6(b, s3) = r3
    BY <1>0, <1>4, BitsAt
  <2>. HIDE DEF s3, r3
  <2>. QED BY <2>1, <1>3, PutInto
<1>9. PutRight(A, B, v) /\ PutRight(B, C, v) /\ PutRight(C, D, v)
  BY <1>0, PutArithmetic
<1>10. /\ insertion(A, B, r0, v, 1) % 256 = v + 64 * (A \div 64)
       /\ insertion(A, B, r0, v, 1) \div 256 = B
       /\ insertion(A, B, r1, v, 64) % 256 = (A % 64) + 64 * (v % 4)
       /\ insertion(A, B, r1, v, 64) \div 256 = v \div 4 + 16 * (B \div 16)
  BY <1>9 DEF PutRight
<1>11. /\ insertion(B, C, r2, v, 16) % 256 = (B % 16) + 16 * (v % 16)
       /\ insertion(B, C, r2, v, 16) \div 256 = v \div 16 + 4 * (C \div 4)
  BY <1>9 DEF PutRight
<1>12. /\ insertion(C, D, r3, v, 4) % 256 = (C % 4) + 4 * v
       /\ insertion(C, D, r3, v, 4) \div 256 = D
  BY <1>9 DEF PutRight
<1>. HIDE DEF r0, r1, r2, r3
<1>. QED BY <1>5, <1>6, <1>7, <1>8, <1>10, <1>11, <1>12 DEF putInto

----------------------------------------------------------------------------
\* Group g of w holds x, y and z, and the other groups are those of b.
IsRegrouped(w, b, g, n, x, y, z) ==
  /\ IsBytes(w, 3 * n + 1)
  /\ w[3 * g] = x /\ w[3 * g + 1] = y /\ w[3 * g + 2] = z
  /\ \A h \in 0 .. n - 1 :
       h # g => w[3 * h] = b[3 * h] /\ w[3 * h + 1] = b[3 * h + 1] /\ w[3 * h + 2] = b[3 * h + 2]

\* Places of different groups are different.
LEMMA Apart ==
  ASSUME NEW g \in Nat, NEW h \in Nat, h # g
  PROVE  \A p, q \in 0 .. 2 : 3 * h + p # 3 * g + q
OBVIOUS

\* Writing the first two bytes of a group.
LEMMA FrontWritten ==
  ASSUME NEW n \in Nat, NEW b, IsBytes(b, 3 * n + 1), NEW g \in 0 .. n - 1,
         NEW x \in 0 .. 255, NEW y \in 0 .. 255
  PROVE  IsRegrouped(Written(b, 3 * g, x, y), b, g, n, x, y, b[3 * g + 2])
<1>. DEFINE N == 3 * n + 1
            i == 3 * g
            w == Written(b, i, x, y)
<1>0. N \in Nat /\ i \in 0 .. N - 1 /\ i + 1 \in 0 .. N - 1 /\ i + 2 \in 0 .. N - 1 /\ g \in Nat
  OBVIOUS
<1>1. IsBytes(w, N) /\ IsWritten(w, b, N, i, x, y)
  <2>1. IsBytes(b, N)
    OBVIOUS
  <2>. HIDE DEF N, i
  <2>. QED BY <1>0, <2>1, WrittenIs
<1>2. w[i] = x /\ w[i + 1] = y /\ w[i + 2] = b[i + 2]
  <2>. HIDE DEF N, i, w
  <2>1. i + 1 # i /\ i + 2 # i /\ i + 2 # i + 1
    BY <1>0
  <2>. QED BY <1>0, <1>1, <2>1 DEF IsWritten
<1>3. ASSUME NEW h \in 0 .. n - 1, h # g
      PROVE  w[3 * h] = b[3 * h] /\ w[3 * h + 1] = b[3 * h + 1] /\ w[3 * h + 2] = b[3 * h + 2]
  <2>1. h \in Nat /\ 3 * h \in 0 .. N - 1 /\ 3 * h + 1 \in 0 .. N - 1 /\ 3 * h + 2 \in 0 .. N - 1
    OBVIOUS
  <2>2. /\ 3 * h # i /\ 3 * h + 1 # i /\ 3 * h + 2 # i
        /\ 3 * h # i + 1 /\ 3 * h + 1 # i + 1 /\ 3 * h + 2 # i + 1
    BY <1>3
  <2>. HIDE DEF N, i, w
  <2>. QED BY <1>1, <2>1, <2>2 DEF IsWritten
<1>. QED BY <1>1, <1>2, <1>3 DEF IsRegrouped

\* Writing the last two bytes of a group.
LEMMA MiddleWritten ==
  ASSUME NEW n \in Nat, NEW b, IsBytes(b, 3 * n + 1), NEW g \in 0 .. n - 1,
         NEW x \in 0 .. 255, NEW y \in 0 .. 255
  PROVE  IsRegrouped(Written(b, 3 * g + 1, x, y), b, g, n, b[3 * g], x, y)
<1>. DEFINE N == 3 * n + 1
            i == 3 * g + 1
            w == Written(b, i, x, y)
<1>0. /\ N \in Nat /\ i \in 0 .. N - 1 /\ i + 1 \in 0 .. N - 1 /\ g \in Nat
      /\ 3 * g \in 0 .. N - 1 /\ i + 1 = 3 * g + 2 /\ 3 * g # i /\ 3 * g # i + 1 /\ i + 1 # i
  OBVIOUS
<1>1. IsBytes(w, N) /\ IsWritten(w, b, N, i, x, y)
  <2>1. IsBytes(b, N)
    OBVIOUS
  <2>. HIDE DEF N, i
  <2>. QED BY <1>0, <2>1, WrittenIs
<1>2. w[3 * g] = b[3 * g] /\ w[i] = x /\ w[i + 1] = y
  <2>. HIDE DEF N, i, w
  <2>. QED BY <1>0, <1>1 DEF IsWritten
<1>3. ASSUME NEW h \in 0 .. n - 1, h # g
      PROVE  w[3 * h] = b[3 * h] /\ w[3 * h + 1] = b[3 * h + 1] /\ w[3 * h + 2] = b[3 * h + 2]
  <2>1. h \in Nat /\ 3 * h \in 0 .. N - 1 /\ 3 * h + 1 \in 0 .. N - 1 /\ 3 * h + 2 \in 0 .. N - 1
    OBVIOUS
  <2>2. /\ 3 * h # i /\ 3 * h + 1 # i /\ 3 * h + 2 # i
        /\ 3 * h # i + 1 /\ 3 * h + 1 # i + 1 /\ 3 * h + 2 # i + 1
    BY <1>3
  <2>. HIDE DEF N, i, w
  <2>. QED BY <1>1, <2>1, <2>2 DEF IsWritten
<1>4. w[3 * g + 2] = y
  <2>. HIDE DEF i, w
  <2>. QED BY <1>0, <1>2
<1>. QED BY <1>1, <1>2, <1>3, <1>4 DEF IsRegrouped

\* Writing the last byte of a group, and the one behind it as it was.
LEMMA BackWritten ==
  ASSUME NEW n \in Nat, NEW b, IsBytes(b, 3 * n + 1), NEW g \in 0 .. n - 1, NEW x \in 0 .. 255
  PROVE  IsRegrouped(Written(b, 3 * g + 2, x, b[3 * g + 3]), b, g, n,
                     b[3 * g], b[3 * g + 1], x)
<1>. DEFINE N == 3 * n + 1
            i == 3 * g + 2
            w == Written(b, i, x, b[i + 1])
<1>0. /\ N \in Nat /\ i \in 0 .. N - 1 /\ i + 1 \in 0 .. N - 1 /\ g \in Nat
      /\ 3 * g \in 0 .. N - 1 /\ 3 * g + 1 \in 0 .. N - 1 /\ i + 1 = 3 * g + 3
      /\ 3 * g # i /\ 3 * g + 1 # i
  OBVIOUS
<1>1. b[i + 1] \in 0 .. 255
  <2>. HIDE DEF N, i
  <2>. QED BY <1>0 DEF IsBytes, N
<1>2. IsBytes(w, N) /\ IsWritten(w, b, N, i, x, b[i + 1])
  <2>1. IsBytes(b, N)
    OBVIOUS
  <2>. HIDE DEF N, i
  <2>. QED BY <1>0, <1>1, <2>1, WrittenIs
<1>3. \A j \in 0 .. N - 1 : j # i => w[j] = b[j]
  <2>. HIDE DEF N, i, w
  <2>. QED BY <1>2 DEF IsWritten
<1>4. w[i] = x
  <2>. HIDE DEF N, i, w
  <2>. QED BY <1>0, <1>2 DEF IsWritten
<1>5. w[3 * g] = b[3 * g] /\ w[3 * g + 1] = b[3 * g + 1]
  <2>. HIDE DEF N, i, w
  <2>. QED BY <1>0, <1>3
<1>6. ASSUME NEW h \in 0 .. n - 1, h # g
      PROVE  w[3 * h] = b[3 * h] /\ w[3 * h + 1] = b[3 * h + 1] /\ w[3 * h + 2] = b[3 * h + 2]
  <2>1. h \in Nat /\ 3 * h \in 0 .. N - 1 /\ 3 * h + 1 \in 0 .. N - 1 /\ 3 * h + 2 \in 0 .. N - 1
    OBVIOUS
  <2>2. 3 * h # i /\ 3 * h + 1 # i /\ 3 * h + 2 # i
    BY <1>6
  <2>. HIDE DEF N, i, w
  <2>. QED BY <1>3, <2>1, <2>2
<1>7. w = Written(b, 3 * g + 2, x, b[3 * g + 3])
  BY <1>0
<1>. HIDE DEF w
<1>. QED BY <1>2, <1>4, <1>5, <1>6, <1>7 DEF IsRegrouped

\* The four slots of three bytes.
slotOf(x, y, z, q) ==
  IF q = 0 THEN x % 64
  ELSE IF q = 1 THEN x \div 64 + 4 * (y % 16)
  ELSE IF q = 2 THEN y \div 16 + 16 * (z % 4)
  ELSE z \div 4

\* What getSlot6 finds in a group.
LEMMA GetOf ==
  ASSUME NEW n \in Nat, NEW b, IsBytes(b, 3 * n + 1), NEW g \in 0 .. n - 1, NEW q \in 0 .. 3
  PROVE  getSlot6(b, 4 * g + q) = slotOf(b[3 * g], b[3 * g + 1], b[3 * g + 2], q)
<1>0. 4 * g + 0 = 4 * g /\ (q = 0 \/ q = 1 \/ q = 2 \/ q = 3)
  OBVIOUS
<1>. DEFINE A == b[3 * g]
            B == b[3 * g + 1]
            C == b[3 * g + 2]
<1>1. /\ getSlot6(b, 4 * g) = A % 64
      /\ getSlot6(b, 4 * g + 1) = A \div 64 + 4 * (B % 16)
      /\ getSlot6(b, 4 * g + 2) = B \div 16 + 16 * (C % 4)
      /\ getSlot6(b, 4 * g + 3) = C \div 4
  BY GetIs
<1>. HIDE DEF A, B, C
<1>2. CASE q = 0
  BY <1>0, <1>1, <1>2 DEF slotOf, A
<1>3. CASE q = 1
  BY <1>0, <1>1, <1>3 DEF slotOf, A, B
<1>4. CASE q = 2
  BY <1>0, <1>1, <1>4 DEF slotOf, B, C
<1>5. CASE q = 3
  BY <1>0, <1>1, <1>5 DEF slotOf, C
<1>. QED BY <1>0, <1>2, <1>3, <1>4, <1>5

\* The bytes of a group with the slot q of it replaced.
SlotReplaced(x, y, z, x1, y1, z1, q, v) ==
  \A p \in 0 .. 3 : slotOf(x1, y1, z1, p) = IF p = q THEN v ELSE slotOf(x, y, z, p)

\* Of the four slots in three bytes a write replaces one.
LEMMA SlotsReplaced ==
  ASSUME NEW x \in 0 .. 255, NEW y \in 0 .. 255, NEW z \in 0 .. 255, NEW v \in 0 .. 63
  PROVE  /\ SlotReplaced(x, y, z, v + 64 * (x \div 64), y, z, 0, v)
         /\ SlotReplaced(x, y, z, (x % 64) + 64 * (v % 4), v \div 4 + 16 * (y \div 16), z, 1, v)
         /\ SlotReplaced(x, y, z, x, (y % 16) + 16 * (v % 16), v \div 16 + 4 * (z \div 4), 2, v)
         /\ SlotReplaced(x, y, z, x, y, (z % 4) + 4 * v, 3, v)
<1>0. \A p \in 0 .. 3 : p = 0 \/ p = 1 \/ p = 2 \/ p = 3
  OBVIOUS
<1>1. SlotReplaced(x, y, z, v + 64 * (x \div 64), y, z, 0, v)
  BY DEF SlotReplaced, slotOf
<1>2. SlotReplaced(x, y, z, (x % 64) + 64 * (v % 4), v \div 4 + 16 * (y \div 16), z, 1, v)
  BY DEF SlotReplaced, slotOf
<1>3. SlotReplaced(x, y, z, x, (y % 16) + 16 * (v % 16), v \div 16 + 4 * (z \div 4), 2, v)
  BY DEF SlotReplaced, slotOf
<1>4. SlotReplaced(x, y, z, x, y, (z % 4) + 4 * v, 3, v)
  BY DEF SlotReplaced, slotOf
<1>. QED BY <1>1, <1>2, <1>3, <1>4

\* Bytes again.
LEMMA StillBytes ==
  ASSUME NEW x \in 0 .. 255, NEW v \in 0 .. 63
  PROVE  /\ v + 64 * (x \div 64) \in 0 .. 255
         /\ (x % 64) + 64 * (v % 4) \in 0 .. 255 /\ v \div 4 + 16 * (x \div 16) \in 0 .. 255
         /\ (x % 16) + 16 * (v % 16) \in 0 .. 255 /\ v \div 16 + 4 * (x \div 4) \in 0 .. 255
         /\ (x % 4) + 4 * v \in 0 .. 255
<1>1. v + 64 * (x \div 64) \in 0 .. 255
  OBVIOUS
<1>2. (x % 64) + 64 * (v % 4) \in 0 .. 255
  OBVIOUS
<1>3. v \div 4 + 16 * (x \div 16) \in 0 .. 255
  OBVIOUS
<1>4. (x % 16) + 16 * (v % 16) \in 0 .. 255
  OBVIOUS
<1>5. v \div 16 + 4 * (x \div 4) \in 0 .. 255
  OBVIOUS
<1>6. (x % 4) + 4 * v \in 0 .. 255
  OBVIOUS
<1>. QED BY <1>1, <1>2, <1>3, <1>4, <1>5, <1>6

\* A regrouped array, slot by slot.
IsPut(w, b, g, n, q, v) ==
  /\ IsBytes(b, 3 * n + 1)
  /\ \E x, y, z : /\ IsRegrouped(w, b, g, n, x, y, z)
                  /\ SlotReplaced(b[3 * g], b[3 * g + 1], b[3 * g + 2], x, y, z, q, v)

IsSlotAfter(w, b, g, q, v, h, p) ==
  /\ (h = g /\ p = q) => getSlot6(w, 4 * h + p) = v
  /\ ~ (h = g /\ p = q) => getSlot6(w, 4 * h + p) = getSlot6(b, 4 * h + p)

\* A write into one group of four slots reaches no slot but its own.
LEMMA Regrouped ==
  ASSUME NEW n \in Nat, NEW b, NEW w, NEW g \in 0 .. n - 1, NEW q \in 0 .. 3, NEW v,
         IsPut(w, b, g, n, q, v), NEW h \in 0 .. n - 1, NEW p \in 0 .. 3
  PROVE  IsSlotAfter(w, b, g, q, v, h, p)
<1>0. IsBytes(b, 3 * n + 1)
  BY DEF IsPut
<1>. PICK x, y, z : /\ IsRegrouped(w, b, g, n, x, y, z)
                    /\ SlotReplaced(b[3 * g], b[3 * g + 1], b[3 * g + 2], x, y, z, q, v)
  BY DEF IsPut
<1>1. IsBytes(w, 3 * n + 1)
  BY DEF IsRegrouped
<1>2. getSlot6(w, 4 * h + p) = slotOf(w[3 * h], w[3 * h + 1], w[3 * h + 2], p)
  BY <1>1, GetOf
<1>3. getSlot6(b, 4 * h + p) = slotOf(b[3 * h], b[3 * h + 1], b[3 * h + 2], p)
  BY <1>0, GetOf
<1>4. CASE h = g
  <2>1. w[3 * h] = x /\ w[3 * h + 1] = y /\ w[3 * h + 2] = z
    BY <1>4 DEF IsRegrouped
  <2>2. slotOf(x, y, z, p) = IF p = q THEN v ELSE slotOf(b[3 * g], b[3 * g + 1], b[3 * g + 2], p)
    BY DEF SlotReplaced
  <2>. QED BY <1>2, <1>3, <1>4, <2>1, <2>2 DEF IsSlotAfter
<1>5. CASE h # g
  <2>1. w[3 * h] = b[3 * h] /\ w[3 * h + 1] = b[3 * h + 1] /\ w[3 * h + 2] = b[3 * h + 2]
    BY <1>5 DEF IsRegrouped
  <2>. QED BY <1>2, <1>3, <1>5, <2>1 DEF IsSlotAfter
<1>. QED BY <1>4, <1>5

\* putSlot6 regroups.
LEMMA PutRegroups ==
  ASSUME NEW n \in Nat, NEW b, IsBytes(b, 3 * n + 1), NEW g \in 0 .. n - 1, NEW v \in 0 .. 63,
         NEW q \in 0 .. 3
  PROVE  IsPut(putSlot6(b, 4 * g + q, v), b, g, n, q, v)
<1>. DEFINE A == b[3 * g]
            B == b[3 * g + 1]
            C == b[3 * g + 2]
            D == b[3 * g + 3]
<1>0. /\ A \in 0 .. 255 /\ B \in 0 .. 255 /\ C \in 0 .. 255 /\ D \in 0 .. 255
      /\ 4 * g + 0 = 4 * g /\ (q = 0 \/ q = 1 \/ q = 2 \/ q = 3)
  <2>1. A \in 0 .. 255 /\ B \in 0 .. 255 /\ C \in 0 .. 255 /\ D \in 0 .. 255
    BY GroupIs
  <2>2. 4 * g + 0 = 4 * g /\ (q = 0 \/ q = 1 \/ q = 2 \/ q = 3)
    OBVIOUS
  <2>. QED BY <2>1, <2>2
<1>1. /\ putSlot6(b, 4 * g, v) = Written(b, 3 * g, v + 64 * (A \div 64), B)
      /\ putSlot6(b, 4 * g + 1, v)
           = Written(b, 3 * g, (A % 64) + 64 * (v % 4), v \div 4 + 16 * (B \div 16))
      /\ putSlot6(b, 4 * g + 2, v)
           = Written(b, 3 * g + 1, (B % 16) + 16 * (v % 16), v \div 16 + 4 * (C \div 4))
      /\ putSlot6(b, 4 * g + 3, v) = Written(b, 3 * g + 2, (C % 4) + 4 * v, D)
  BY PutWrites
<1>2. /\ SlotReplaced(A, B, C, v + 64 * (A \div 64), B, C, 0, v)
      /\ SlotReplaced(A, B, C, (A % 64) + 64 * (v % 4), v \div 4 + 16 * (B \div 16), C, 1, v)
      /\ SlotReplaced(A, B, C, A, (B % 16) + 16 * (v % 16), v \div 16 + 4 * (C \div 4), 2, v)
      /\ SlotReplaced(A, B, C, A, B, (C % 4) + 4 * v, 3, v)
  <2>. HIDE DEF A, B, C
  <2>. QED BY <1>0, SlotsReplaced
<1>. DEFINE x0 == v + 64 * (A \div 64)
            x1 == (A % 64) + 64 * (v % 4)
            y1 == v \div 4 + 16 * (B \div 16)
            y2 == (B % 16) + 16 * (v % 16)
            z2 == v \div 16 + 4 * (C \div 4)
            z3 == (C % 4) + 4 * v
<1>3. /\ x0 \in 0 .. 255 /\ x1 \in 0 .. 255 /\ y1 \in 0 .. 255 /\ y2 \in 0 .. 255
      /\ z2 \in 0 .. 255 /\ z3 \in 0 .. 255
  <2>. HIDE DEF A, B, C
  <2>1. x0 \in 0 .. 255 /\ x1 \in 0 .. 255
    BY <1>0, StillBytes
  <2>2. y1 \in 0 .. 255 /\ y2 \in 0 .. 255
    BY <1>0, StillBytes
  <2>3. z2 \in 0 .. 255 /\ z3 \in 0 .. 255
    BY <1>0, StillBytes
  <2>. QED BY <2>1, <2>2, <2>3
<1>. HIDE DEF x0, x1, y1, y2, z2, z3
<1>4. CASE q = 0
  <2>1. IsRegrouped(Written(b, 3 * g, x0, B), b, g, n, x0, B, C)
    BY <1>0, <1>3, FrontWritten
  <2>2. putSlot6(b, 4 * g + q, v) = Written(b, 3 * g, x0, B)
    BY <1>0, <1>1, <1>4 DEF x0
  <2>3. SlotReplaced(A, B, C, x0, B, C, q, v)
    BY <1>2, <1>4 DEF x0
  <2>. QED BY <2>1, <2>2, <2>3 DEF IsPut
<1>5. CASE q = 1
  <2>1. IsRegrouped(Written(b, 3 * g, x1, y1), b, g, n, x1, y1, C)
    BY <1>0, <1>3, FrontWritten
  <2>2. putSlot6(b, 4 * g + q, v) = Written(b, 3 * g, x1, y1)
    BY <1>1, <1>5 DEF x1, y1
  <2>3. SlotReplaced(A, B, C, x1, y1, C, q, v)
    BY <1>2, <1>5 DEF x1, y1
  <2>. QED BY <2>1, <2>2, <2>3 DEF IsPut
<1>6. CASE q = 2
  <2>1. IsRegrouped(Written(b, 3 * g + 1, y2, z2), b, g, n, A, y2, z2)
    BY <1>0, <1>3, MiddleWritten
  <2>2. putSlot6(b, 4 * g + q, v) = Written(b, 3 * g + 1, y2, z2)
    BY <1>1, <1>6 DEF y2, z2
  <2>3. SlotReplaced(A, B, C, A, y2, z2, q, v)
    BY <1>2, <1>6 DEF y2, z2
  <2>. QED BY <2>1, <2>2, <2>3 DEF IsPut
<1>7. CASE q = 3
  <2>1. IsRegrouped(Written(b, 3 * g + 2, z3, D), b, g, n, A, B, z3)
    BY <1>0, <1>3, BackWritten
  <2>2. putSlot6(b, 4 * g + q, v) = Written(b, 3 * g + 2, z3, D)
    BY <1>1, <1>7 DEF z3
  <2>3. SlotReplaced(A, B, C, A, B, z3, q, v)
    BY <1>2, <1>7 DEF z3
  <2>. QED BY <2>1, <2>2, <2>3 DEF IsPut
<1>. QED BY <1>0, <1>4, <1>5, <1>6, <1>7

\* A slot put is there, and the others stay.
IsSlotPut(w, b, n, s, v) ==
  /\ IsBytes(w, 3 * n + 1)
  /\ \A t \in 0 .. 4 * n - 1 : getSlot6(w, t) = IF t = s THEN v ELSE getSlot6(b, t)

\* Writing slot s is seen at s and at no other slot.
LEMMA SlotPut ==
  ASSUME NEW n \in Nat, NEW b, IsBytes(b, 3 * n + 1), NEW s \in 0 .. 4 * n - 1, NEW v \in 0 .. 63
  PROVE  IsSlotPut(putSlot6(b, s, v), b, n, s, v)
<1>1. \A t \in 0 .. 4 * n - 1 : \E h \in 0 .. n - 1, p \in 0 .. 3 : t = 4 * h + p
  <2>. SUFFICES ASSUME NEW t \in 0 .. 4 * n - 1
                PROVE  \E h \in 0 .. n - 1, p \in 0 .. 3 : t = 4 * h + p
    OBVIOUS
  <2>1. t \div 4 \in 0 .. n - 1 /\ t % 4 \in 0 .. 3 /\ t = 4 * (t \div 4) + (t % 4)
    OBVIOUS
  <2>. QED BY <2>1
<1>2. PICK g \in 0 .. n - 1, q \in 0 .. 3 : s = 4 * g + q
  BY <1>1
<1>. DEFINE w == putSlot6(b, s, v)
<1>3. IsPut(w, b, g, n, q, v)
  BY <1>2, PutRegroups
<1>4. IsBytes(w, 3 * n + 1)
  BY <1>3 DEF IsPut, IsRegrouped
<1>5. ASSUME NEW t \in 0 .. 4 * n - 1
      PROVE  getSlot6(putSlot6(b, s, v), t) = IF t = s THEN v ELSE getSlot6(b, t)
  <2>1. PICK h \in 0 .. n - 1, p \in 0 .. 3 : t = 4 * h + p
    BY <1>1
  <2>2. /\ (h = g /\ p = q) => getSlot6(w, 4 * h + p) = v
        /\ ~ (h = g /\ p = q) => getSlot6(w, 4 * h + p) = getSlot6(b, 4 * h + p)
    <3>. HIDE DEF w
    <3>1. IsSlotAfter(w, b, g, q, v, h, p)
      BY <1>3, Regrouped
    <3>. QED BY <3>1 DEF IsSlotAfter
  <2>3. (h = g /\ p = q) <=> (4 * h + p = 4 * g + q)
    OBVIOUS
  <2>. QED BY <1>2, <2>1, <2>2, <2>3
<1>. QED BY <1>4, <1>5 DEF IsSlotPut

----------------------------------------------------------------------------
\* The registers of an array as exceptions, of which all are.
regPairs(k) == [s \in SlotsOf(k.lgK) |-> IF k.reg[s] = 0 THEN EMPTY ELSE <<s, k.reg[s]>>]

\* The pairs of an array are its slots with a value.
LEMMA HllPairs ==
  ASSUME NEW k, NEW D, IsHll(k, D)
  PROVE  /\ Lists(pairs(k), SlotPairs(regPairs(k), k.lgK, k.reg), addressOf, Coupon)
         /\ \A e \in SlotPairs(regPairs(k), k.lgK, k.reg) :
              e[1] \in SlotsOf(k.lgK) /\ e[2] = k.reg[e[1]] /\ e[2] \in 1 .. 63
         /\ \A s \in SlotsOf(k.lgK) :
              (\A e \in SlotPairs(regPairs(k), k.lgK, k.reg) : e[1] # s) => k.reg[s] = 0
<1>. DEFINE arr == regPairs(k)
            E == SlotPairs(arr, k.lgK, k.reg)
<1>1. IsLgK(k.lgK) /\ k.mode = "HLL" /\ \A s \in SlotsOf(k.lgK) : k.reg[s] \in 0 .. 63
  BY DEF IsHll
<1>2. /\ arr = [s \in SlotsOf(k.lgK) |-> arr[s]]
      /\ \A s \in SlotsOf(k.lgK) : arr[s] = IF k.reg[s] = 0 THEN EMPTY ELSE <<s, k.reg[s]>>
  BY DEF regPairs
<1>3. pairs(k) = Entries(arr, k.lgK)
  BY <1>1 DEF pairs, regPairs
<1>. HIDE DEF arr
<1>4. \A s \in SlotsOf(k.lgK) : (arr[s] = EMPTY <=> k.reg[s] = 0)
                              /\ (arr[s] # EMPTY => arr[s] = <<s, k.reg[s]>> /\ k.reg[s] \in 1 .. 63)
  <2>1. ASSUME NEW s \in SlotsOf(k.lgK)
        PROVE  (arr[s] = EMPTY <=> k.reg[s] = 0)
               /\ (arr[s] # EMPTY => arr[s] = <<s, k.reg[s]>> /\ k.reg[s] \in 1 .. 63)
    <3>1. <<s, k.reg[s]>> # EMPTY
      BY DEF EMPTY
    <3>2. k.reg[s] \in 0 .. 63
      BY <1>1
    <3>3. k.reg[s] # 0 => k.reg[s] \in 1 .. 63
      BY <3>2
    <3>. QED BY <1>2, <3>1, <3>3
  <2>. QED BY <2>1
<1>5. IsSlotArr(arr, k.lgK, k.reg)
  BY <1>2, <1>4 DEF IsSlotArr
<1>6. Lists(pairs(k), E, addressOf, Coupon)
  BY <1>1, <1>3, <1>5, SlotsListed
<1>7. E = {<<s, k.reg[s]>> : s \in {t \in SlotsOf(k.lgK) : arr[t] # EMPTY}}
  BY DEF SlotPairs
<1>. HIDE DEF E
<1>8. \A e \in E : e[1] \in SlotsOf(k.lgK) /\ e[2] = k.reg[e[1]] /\ e[2] \in 1 .. 63
  BY <1>4, <1>7
<1>9. \A s \in SlotsOf(k.lgK) : k.reg[s] = 0 \/ <<s, k.reg[s]>> \in E
  BY <1>4, <1>7
<1>10. \A s \in SlotsOf(k.lgK) : (\A e \in E : e[1] # s) => k.reg[s] = 0
  BY <1>9
<1>. QED BY <1>6, <1>8, <1>10 DEF E, arr

\* The array of the slots, after n of the pairs q were put.
slotting(p, q, i, acc) == putSlot6(acc, q[i][1], q[i][2])

SlotHas(b, P, t) ==
  /\ \A e \in P : e[1] = t => getSlot6(b, t) = e[2]
  /\ (\A e \in P : e[1] # t) => getSlot6(b, t) = 0

slottedUpTo(p, q, n, acc) ==
  /\ IsBytes(acc, 3 * p + 1)
  /\ \A t \in 0 .. 4 * p - 1 : SlotHas(acc, FirstOf(q, n), t)

Slottings == INSTANCE FoldTheorems WITH step <- slotting, choose <- lastOf, Good <- slottedUpTo

\* Zeros.
LEMMA ZeroSlots ==
  ASSUME NEW n \in Nat, NEW b, b = [i \in 0 .. (3 * n + 1) - 1 |-> 0]
  PROVE  IsBytes(b, 3 * n + 1) /\ \A t \in 0 .. 4 * n - 1 : getSlot6(b, t) = 0
<1>1. IsBytes(b, 3 * n + 1) /\ \A i \in 0 .. (3 * n + 1) - 1 : b[i] = 0
  BY DEF IsBytes
<1>2. ASSUME NEW t \in 0 .. 4 * n - 1 PROVE getSlot6(b, t) = 0
  <2>1. t \div 4 \in 0 .. n - 1 /\ t % 4 \in 0 .. 3 /\ t = 4 * (t \div 4) + (t % 4)
    OBVIOUS
  <2>2. PICK h \in 0 .. n - 1, p \in 0 .. 3 : t = 4 * h + p
    BY <2>1
  <2>3. /\ 3 * h \in 0 .. (3 * n + 1) - 1 /\ 3 * h + 1 \in 0 .. (3 * n + 1) - 1
        /\ 3 * h + 2 \in 0 .. (3 * n + 1) - 1
    OBVIOUS
  <2>4. b[3 * h] = 0 /\ b[3 * h + 1] = 0 /\ b[3 * h + 2] = 0
    BY <1>1, <2>3
  <2>5. getSlot6(b, 4 * h + p) = slotOf(b[3 * h], b[3 * h + 1], b[3 * h + 2], p)
    BY <1>1, GetOf
  <2>6. slotOf(0, 0, 0, p) = 0
    BY DEF slotOf
  <2>. QED BY <2>2, <2>4, <2>5, <2>6
<1>. QED BY <1>1, <1>2

\* Four slots of an array, three bytes.
LEMMA Quarter ==
  ASSUME NEW lgK, IsLgK(lgK)
  PROVE  \E n \in Nat : /\ 2 ^ lgK = 4 * n /\ SlotsOf(lgK) = 0 .. 4 * n - 1
                        /\ hllByteArrBytes(lgK, "HLL_6") = 3 * n + 1
<1>. DEFINE a == lgK - 2
            n == 2 ^ a
<1>1. lgK \in Nat /\ lgK >= 2 /\ Powers(lgK)
  BY SizesAre DEF IsLgK
<1>2. a \in Nat /\ a + 1 \in Nat /\ a <= lgK /\ a + 1 <= lgK /\ (a + 1) + 1 = lgK
  BY <1>1
<1>3. n \in Nat /\ 2 ^ (a + 1) = 2 * n
  BY <1>1, <1>2, PowersBelow
<1>4. 2 ^ lgK = 2 * 2 ^ (a + 1)
  BY <1>1, <1>2, PowersBelow
<1>5. 2 ^ lgK = 4 * n
  <2>. HIDE DEF n
  <2>. QED BY <1>3, <1>4
<1>. HIDE DEF n
<1>6. (3 * (4 * n)) \div 4 + 1 = 3 * n + 1
  BY <1>3
<1>7. hllByteArrBytes(lgK, "HLL_6") = 3 * n + 1
  BY <1>5, <1>6 DEF hllByteArrBytes
<1>. QED BY <1>3, <1>5, <1>7 DEF SlotsOf

\* What the array of six-bit slots holds.
LEMMA SixHolds ==
  ASSUME NEW k, NEW D, IsHll(k, D), NEW s \in SlotsOf(k.lgK)
  PROVE  getSlot6(hllByteArr(k, "HLL_6"), s) = k.reg[s]
<1>1. PICK m \in Nat : /\ 2 ^ k.lgK = 4 * m /\ SlotsOf(k.lgK) = 0 .. 4 * m - 1
                       /\ hllByteArrBytes(k.lgK, "HLL_6") = 3 * m + 1
  BY Quarter DEF IsHll
<1>. DEFINE E == SlotPairs(regPairs(k), k.lgK, k.reg)
            q == pairs(k)
            n == Len(q)
            b == [i \in 0 .. (3 * m + 1) - 1 |-> 0]
            h == hllByteArr(k, "HLL_6")
<1>2. /\ Lists(q, E, addressOf, Coupon)
      /\ \A e \in E : e[1] \in SlotsOf(k.lgK) /\ e[2] = k.reg[e[1]] /\ e[2] \in 1 .. 63
      /\ (\A e \in E : e[1] # s) => k.reg[s] = 0
  BY HllPairs
<1>3. n \in Nat /\ DOMAIN q = 1 .. n /\ FirstOf(q, 0) = {} /\ FirstOf(q, n) = E
  BY <1>2, NoneAndAll
<1>4. h = FoldLeft(LAMBDA acc, p : putSlot6(acc, p[1], p[2]), b, q)
  BY <1>1 DEF hllByteArr
<1>5. IsBytes(b, 3 * m + 1) /\ \A t \in 0 .. 4 * m - 1 : getSlot6(b, t) = 0
  BY ZeroSlots
<1>. HIDE DEF b, q, h, E
<1>6. h = Slottings!Left(m, q, b, n)
  BY <1>3, <1>4 DEF FoldLeft, MapThenFoldSet, Max, Slottings!Left, Slottings!Fold,
         Slottings!MapThenFoldSet, slotting, lastOf
<1>7. Slottings!ChoosesLast
  BY DEF Slottings!ChoosesLast, lastOf
<1>8. ASSUME NEW i \in 1 .. n, NEW acc, slottedUpTo(m, q, i - 1, acc)
      PROVE  slottedUpTo(m, q, i, slotting(m, q, i, acc))
  <2>. DEFINE P == FirstOf(q, i - 1)
              u == q[i][1]
              v == q[i][2]
              w == putSlot6(acc, u, v)
  <2>1. /\ q[i] \in E /\ q[i] \in Coupon /\ FirstOf(q, i) = P \union {q[i]} /\ P \subseteq E
        /\ \A e \in P : addressOf[e] # addressOf[q[i]]
    BY <1>2, NextOf
  <2>2. u \in 0 .. 4 * m - 1 /\ v \in 0 .. 63
    <3>1. u \in SlotsOf(k.lgK) /\ v \in 1 .. 63
      BY <1>2, <2>1
    <3>. QED BY <1>1, <3>1
  <2>3. \A e \in P : e[1] # u
    <3>1. E \subseteq Coupon
      BY <1>2 DEF Lists, ElementsOf
    <3>. QED BY <2>1, <3>1, CouponsHaveKeys
  <2>4. IsBytes(acc, 3 * m + 1) /\ \A t \in 0 .. 4 * m - 1 : SlotHas(acc, P, t)
    BY <1>8 DEF slottedUpTo
  <2>. HIDE DEF P, u, v
  <2>5. /\ IsBytes(w, 3 * m + 1)
        /\ \A t \in 0 .. 4 * m - 1 : getSlot6(w, t) = IF t = u THEN v ELSE getSlot6(acc, t)
    <3>1. IsSlotPut(w, acc, m, u, v)
      BY <2>2, <2>4, SlotPut
    <3>. QED BY <3>1 DEF IsSlotPut
  <2>. HIDE DEF w
  <2>6. ASSUME NEW t \in 0 .. 4 * m - 1 PROVE SlotHas(w, P \union {q[i]}, t)
    <3>1. SlotHas(acc, P, t) /\ getSlot6(w, t) = IF t = u THEN v ELSE getSlot6(acc, t)
      BY <2>4, <2>5
    <3>2. \A e \in P \union {q[i]} : e[1] = t => getSlot6(w, t) = e[2]
      BY <2>3, <3>1 DEF SlotHas, u, v
    <3>3. (\A e \in P \union {q[i]} : e[1] # t) => getSlot6(w, t) = 0
      BY <3>1 DEF SlotHas, u
    <3>. QED BY <3>2, <3>3 DEF SlotHas
  <2>. QED BY <2>1, <2>5, <2>6 DEF slottedUpTo, slotting, u, v, w
<1>9. Slottings!Preserves(m, q, n)
  BY <1>8 DEF Slottings!Preserves
<1>10. slottedUpTo(m, q, 0, b)
  BY <1>3, <1>5 DEF slottedUpTo, SlotHas
<1>11. slottedUpTo(m, q, n, Slottings!Left(m, q, b, n))
  BY <1>3, <1>7, <1>9, <1>10, Slottings!LeftKeeps
<1>12. SlotHas(h, E, s)
  BY <1>1, <1>3, <1>6, <1>11 DEF slottedUpTo
<1>. QED BY <1>2, <1>12 DEF SlotHas, h

----------------------------------------------------------------------------
(* What is read of the exceptions. *)

\* A list of entries, scanned again.
LEMMA ListedAgain ==
  ASSUME NEW q, NEW H, NEW key, Lists(q, H, key, Coupon)
  PROVE  Lists(valid(q), H, key, Coupon)
<1>. DEFINE n == Len(q)
<1>1. /\ q \in Seq(Coupon) /\ n \in Nat /\ DOMAIN q = 1 .. n /\ H = {q[i] : i \in 1 .. n}
      /\ \A i \in 1 .. n : q[i] \in Coupon
      /\ \A i, j \in 1 .. n : key[q[i]] = key[q[j]] => i = j
  BY DEF Lists, ElementsOf
<1>. HIDE DEF n
<1>2. /\ \A i \in 1 .. n : q[i] \in Coupon \union {EMPTY}
      /\ \A i, j \in 1 .. n : q[i] # EMPTY /\ q[j] # EMPTY /\ key[q[i]] = key[q[j]] => i = j
  BY <1>1
<1>3. Lists(valid(q), {q[i] : i \in 1 .. n} \ {EMPTY}, key, Coupon)
  BY <1>1, <1>2, CouponsHaveKeys, Scanned
<1>4. {q[i] : i \in 1 .. n} \ {EMPTY} = H
  BY <1>1, CouponsHaveKeys
<1>. QED BY <1>3, <1>4

\* The cells of a table, read whole.
LEMMA WholeRead ==
  ASSUME NEW arr, NEW lg, Filled(arr, lg, Coupon)
  PROVE  valid(SubSeq(cellSeq(arr, lg), 1, 2 ^ lg)) = Entries(arr, lg)
<1>. DEFINE N == 2 ^ lg
            S == Coupon \union {EMPTY}
            q == cellSeq(arr, lg)
<1>1. N \in Nat \ {0} /\ \A i \in Cells(lg) : arr[i] \in S
  BY DEF Filled, IsTable, Powers
<1>. HIDE DEF S
<1>2. \A i \in 1 .. N : i - 1 \in Cells(lg)
  BY <1>1 DEF Cells
<1>3. q = [i \in 1 .. N |-> arr[i - 1]]
  BY DEF cellSeq
<1>4. Entries(arr, lg) = valid(q)
  BY <1>3 DEF Entries
<1>. HIDE DEF N, q
<1>5. q \in Seq(S) /\ Len(q) = N
  <2>1. q \in [1 .. N -> S]
    BY <1>1, <1>2, <1>3
  <2>. QED BY <1>1, <2>1
<1>6. SubSeq(q, 1, N) = q
  BY <1>1, <1>5, SubSeqFull
<1>. QED BY <1>4, <1>6 DEF N, q

\* Nothing.
LEMMA NothingListed ==
  ASSUME NEW q, NEW key
  PROVE  Lists(valid(SubSeq(q, 1, 0)), {}, key, Coupon)
<1>1. SubSeq(q, 1, 0) = <<>>
  OBVIOUS
<1>2. Lists(<<>>, {}, key, Coupon)
  BY DEF Lists, ElementsOf
<1>. QED BY <1>1, <1>2, ListedAgain

\* The least register.
LEMMA CurMinOfIs ==
  ASSUME NEW k, NEW D, IsHll(k, D)
  PROVE  /\ curMinOf(k, "HLL_4") \in 0 .. 63
         /\ \A s \in SlotsOf(k.lgK) : curMinOf(k, "HLL_4") <= k.reg[s]
<1>. DEFINE T == {k.reg[s] : s \in SlotsOf(k.lgK)}
<1>1. \A s \in SlotsOf(k.lgK) : k.reg[s] \in 0 .. 63
  BY DEF IsHll
<1>2. 0 \in SlotsOf(k.lgK)
  <2>1. 2 ^ k.lgK \in Nat \ {0}
    BY SizesAre DEF IsHll
  <2>. QED BY <2>1 DEF SlotsOf
<1>3. T # {} /\ T \subseteq Nat /\ T \subseteq 0 .. 63
  BY <1>1, <1>2
<1>4. curMinOf(k, "HLL_4") = CHOOSE x \in T : \A y \in T : x <= y
  BY DEF curMinOf, Min
<1>5. curMinOf(k, "HLL_4") \in T /\ \A y \in T : curMinOf(k, "HLL_4") <= y
  <2>. HIDE DEF T
  <2>1. \E x \in T : \A y \in T : x <= y
    BY <1>3, Puts!LeastElement
  <2>. QED BY <1>4, <2>1
<1>. QED BY <1>3, <1>5

\* The exceptions of an HLL_4 array.
isException(k, s) == k.reg[s] - curMinOf(k, "HLL_4") >= AuxToken

exceptionArr(k) == [s \in SlotsOf(k.lgK) |-> IF isException(k, s) THEN <<s, k.reg[s]>> ELSE EMPTY]

exceptionSet(k) == SlotPairs(exceptionArr(k), k.lgK, k.reg)

\* The exceptions of an array are listed once each, and are those of its registers.
LEMMA ExceptionsAre ==
  ASSUME NEW k, NEW D, IsHll(k, D)
  PROVE  /\ Lists(exceptions(k, "HLL_4"), exceptionSet(k), addressOf, Coupon)
         /\ Len(exceptions(k, "HLL_4")) \in Nat /\ Len(exceptions(k, "HLL_4")) <= 2 ^ k.lgK
         /\ \A e \in exceptionSet(k) : e[1] \in SlotsOf(k.lgK) /\ e[2] = k.reg[e[1]]
         /\ \A s \in SlotsOf(k.lgK) : isException(k, s) => <<s, k.reg[s]>> \in exceptionSet(k)
<1>. DEFINE arr == exceptionArr(k)
            E == exceptionSet(k)
            m == curMinOf(k, "HLL_4")
<1>1. IsLgK(k.lgK) /\ \A s \in SlotsOf(k.lgK) : k.reg[s] \in 0 .. 63
  BY DEF IsHll
<1>2. /\ arr = [s \in SlotsOf(k.lgK) |-> arr[s]]
      /\ \A s \in SlotsOf(k.lgK) : arr[s] = IF isException(k, s) THEN <<s, k.reg[s]>> ELSE EMPTY
  BY DEF exceptionArr
<1>3. exceptions(k, "HLL_4") = Entries(arr, k.lgK)
  BY DEF exceptions, exceptionArr, isException
<1>4. \A s \in SlotsOf(k.lgK) : isException(k, s) => k.reg[s] \in 1 .. 63
  <2>1. m \in 0 .. 63 /\ AuxToken \in Nat \ {0}
    BY CurMinOfIs, HllImageAssumption
  <2>. HIDE DEF m
  <2>2. ASSUME NEW s \in SlotsOf(k.lgK), k.reg[s] - m >= AuxToken PROVE k.reg[s] \in 1 .. 63
    <3>1. k.reg[s] \in 0 .. 63
      BY <1>1
    <3>. QED BY <2>1, <2>2, <3>1
  <2>. QED BY <2>2 DEF isException, m
<1>. HIDE DEF arr
<1>5. \A s \in SlotsOf(k.lgK) :
        (arr[s] # EMPTY <=> isException(k, s)) /\ (arr[s] # EMPTY => arr[s] = <<s, k.reg[s]>>)
  <2>1. \A s \in SlotsOf(k.lgK) : <<s, k.reg[s]>> # EMPTY
    BY DEF EMPTY
  <2>. QED BY <1>2, <2>1
<1>6. IsSlotArr(arr, k.lgK, k.reg)
  BY <1>2, <1>4, <1>5 DEF IsSlotArr
<1>7. /\ Lists(exceptions(k, "HLL_4"), E, addressOf, Coupon)
      /\ Cardinality(E) \in Nat /\ Cardinality(E) <= 2 ^ k.lgK
  BY <1>1, <1>3, <1>6, SlotsListed DEF exceptionSet, arr
<1>8. Len(exceptions(k, "HLL_4")) = Cardinality(E)
  BY <1>7, ListedCount
<1>9. E = {<<s, k.reg[s]>> : s \in {t \in SlotsOf(k.lgK) : arr[t] # EMPTY}}
  BY DEF SlotPairs, exceptionSet, arr
<1>. HIDE DEF E
<1>10. \A e \in E : e[1] \in SlotsOf(k.lgK) /\ e[2] = k.reg[e[1]]
  BY <1>9
<1>11. \A s \in SlotsOf(k.lgK) : isException(k, s) => <<s, k.reg[s]>> \in E
  BY <1>5, <1>9
<1>. QED BY <1>7, <1>8, <1>10, <1>11 DEF E

\* The image of an array.
LEMMA HllImageIs ==
  ASSUME NEW k, NEW D, IsHll(k, D), NEW type, NEW compact \in BOOLEAN,
         NEW im, im = serialize(k, type, compact),
         NEW aux, aux = exceptions(k, type), NEW lg, lg = lgAux(Len(aux))
  PROVE  /\ modeOf(im) = "HLL" /\ im.type = type /\ im.lgK = k.lgK
         /\ im.lgArr = (IF aux = <<>> THEN 0 ELSE lg)
         /\ im.compactFlag = compact /\ im.oooFlag = k.ooo
         /\ im.count = Len(aux) /\ im.curMin = curMinOf(k, type) /\ im.array = hllByteArr(k, type)
         /\ im.ints = IF compact THEN Entries(auxTable(aux, lg), lg)
                      ELSE IF type = "HLL_4" THEN cellSeq(auxTable(aux, lg), lg)
                      ELSE <<>>
<1>1. k.mode = "HLL"
  BY DEF IsHll
<1>2. im = serializeHll(k, type, compact)
  BY <1>1 DEF serialize
<1>3. /\ im.preInts = PreInts[k.mode] /\ im.type = type /\ im.lgK = k.lgK
      /\ im.lgArr = (IF aux = <<>> THEN 0 ELSE lg)
      /\ im.compactFlag = compact /\ im.oooFlag = k.ooo
      /\ im.count = Len(aux) /\ im.curMin = curMinOf(k, type) /\ im.array = hllByteArr(k, type)
      /\ im.ints = IF compact THEN Entries(auxTable(aux, lg), lg)
                   ELSE IF type = "HLL_4" THEN cellSeq(auxTable(aux, lg), lg)
                   ELSE <<>>
  BY <1>2 DEF serializeHll
<1>4. modeOf(im) = "HLL"
  BY <1>1, <1>3, ModeOfIs
<1>. QED BY <1>3, <1>4

\* The exceptions that a type has.
auxSet(k, type) == IF type = "HLL_4" THEN exceptionSet(k) ELSE {}

\* The exceptions of a type, and the size of their table.
LEMMA AuxCounted ==
  ASSUME NEW k, NEW D, IsHll(k, D), NEW type,
         NEW aux, aux = exceptions(k, type), NEW n, n = Len(aux), NEW lg, lg = lgAux(n)
  PROVE  /\ Lists(aux, auxSet(k, type), addressOf, Coupon) /\ n \in Nat /\ n <= 2 ^ k.lgK
         /\ type # "HLL_4" => aux = <<>>
         /\ aux = <<>> <=> n = 0
         /\ lg \in Nat /\ Powers(lg) /\ n < 2 ^ lg /\ 2 ^ lg \in Nat
<1>. DEFINE X == auxSet(k, type)
<1>1. Lists(aux, X, addressOf, Coupon) /\ n \in Nat /\ n <= 2 ^ k.lgK /\ (type # "HLL_4" => aux = <<>>)
  <2>1. CASE type = "HLL_4"
    BY <2>1, ExceptionsAre DEF auxSet
  <2>2. CASE type # "HLL_4"
    <3>1. aux = <<>> /\ X = {}
      BY <2>2 DEF exceptions, auxSet
    <3>2. Lists(<<>>, {}, addressOf, Coupon)
      BY DEF Lists, ElementsOf
    <3>3. Len(<<>>) = 0
      OBVIOUS
    <3>4. 2 ^ k.lgK \in Nat
      BY SizesAre DEF IsHll
    <3>. HIDE DEF X
    <3>. QED BY <3>1, <3>2, <3>3, <3>4
  <2>. QED BY <2>1, <2>2
<1>. HIDE DEF X
<1>2. aux = <<>> <=> n = 0
  <2>1. aux \in Seq(Coupon)
    BY <1>1 DEF Lists
  <2>. QED BY <2>1
<1>3. lg \in Nat /\ Powers(lg) /\ n < 2 ^ lg /\ 2 ^ lg \in Nat
  <2>1. IsLgK(k.lgK)
    BY DEF IsHll
  <2>. QED BY <1>1, <2>1, AuxSize
<1>. QED BY <1>1, <1>2, <1>3 DEF X

auxRead(im, stream) == valid(SubSeq(im.ints, 1, intsRead(im, stream)))

\* The exceptions read from an image are those that were written.
LEMMA AuxRead ==
  ASSUME NEW k, NEW D, IsHll(k, D), NEW type \in TgtHllTypes,
         NEW compact \in BOOLEAN, NEW stream \in BOOLEAN,
         NEW im, im = serialize(k, type, compact)
  PROVE  /\ Lists(auxRead(im, stream), auxSet(k, type), addressOf, Coupon)
         /\ Len(auxRead(im, stream)) = im.count
<1>. DEFINE aux == exceptions(k, type)
            lg  == lgAux(Len(aux))
            t   == auxTable(aux, lg)
            n   == intsRead(im, stream)
            A   == auxRead(im, stream)
            X   == auxSet(k, type)
<1>1. /\ modeOf(im) = "HLL" /\ im.lgArr = (IF aux = <<>> THEN 0 ELSE lg)
      /\ im.compactFlag = compact /\ im.count = Len(aux)
      /\ im.ints = IF compact THEN Entries(t, lg)
                   ELSE IF type = "HLL_4" THEN cellSeq(t, lg) ELSE <<>>
  BY HllImageIs
<1>2. Lists(aux, X, addressOf, Coupon) /\ Len(aux) \in Nat /\ Len(aux) <= 2 ^ k.lgK
  BY AuxCounted
<1>. HIDE DEF X
<1>3. n = IF im.count = 0 THEN 0 ELSE IF im.compactFlag THEN im.count ELSE 2 ^ im.lgArr
  BY <1>1 DEF intsRead
<1>4. A = valid(SubSeq(im.ints, 1, n))
  BY DEF auxRead
<1>. HIDE DEF n, A
<1>5. CASE im.count = 0
  <2>1. Len(aux) = 0 /\ n = 0
    BY <1>1, <1>3, <1>5
  <2>2. X = {}
    <3>1. Len(aux) = Cardinality(X) /\ IsFiniteSet(X)
      BY <1>2, ListedCount
    <3>. QED BY <2>1, <3>1, FS_EmptySet
  <2>3. Lists(A, {}, addressOf, Coupon)
    BY <1>4, <2>1, NothingListed
  <2>4. Len(A) = Cardinality({})
    BY <2>3, ListedCount
  <2>5. Cardinality({}) = 0
    BY FS_EmptySet
  <2>. QED BY <1>5, <2>2, <2>3, <2>4, <2>5 DEF A, X
<1>6. CASE im.count # 0
  <2>1. type = "HLL_4" /\ aux # <<>>
    <3>1. Len(<<>>) = 0
      OBVIOUS
    <3>2. aux # <<>>
      <4>. HIDE DEF aux
      <4>. QED BY <1>1, <1>6, <3>1
    <3>. QED BY <3>2 DEF exceptions
  <2>2. lg \in Nat /\ Powers(lg) /\ Len(aux) < 2 ^ lg
    <3>1. IsLgK(k.lgK)
      BY DEF IsHll
    <3>. HIDE DEF aux
    <3>. QED BY <1>2, <3>1, AuxSize DEF lg
  <2>. HIDE DEF aux, lg
  <2>3. IsTab(t, lg, addressOf, X)
    BY <1>2, <2>2, AuxTableIs
  <2>. HIDE DEF t
  <2>4. Lists(Entries(t, lg), X, addressOf, Coupon)
    BY <2>3, EntriesAreHeld DEF IsTab
  <2>5. Len(Entries(t, lg)) = Len(aux) /\ Entries(t, lg) \in Seq(Coupon)
    <3>1. Len(Entries(t, lg)) = Cardinality(X) /\ Len(aux) = Cardinality(X)
      BY <1>2, <2>4, ListedCount
    <3>. QED BY <2>4, <3>1 DEF Lists
  <2>6. CASE compact
    <3>1. im.ints = Entries(t, lg) /\ n = Len(Entries(t, lg))
      BY <1>1, <1>3, <1>6, <2>5, <2>6
    <3>2. A = valid(Entries(t, lg))
      BY <1>4, <2>5, <3>1, SubSeqFull
    <3>3. Lists(A, X, addressOf, Coupon)
      BY <2>4, <3>2, ListedAgain
    <3>4. Len(A) = Len(aux)
      BY <1>2, <3>3, ListedCount
    <3>. QED BY <1>1, <3>3, <3>4 DEF A, X
  <2>7. CASE ~ compact
    <3>1. im.ints = cellSeq(t, lg) /\ n = 2 ^ lg
      BY <1>1, <1>3, <1>6, <2>1, <2>7
    <3>2. A = Entries(t, lg)
      BY <1>4, <2>3, <3>1, WholeRead DEF IsTab
    <3>. QED BY <1>1, <2>4, <2>5, <3>2 DEF A, X
  <2>. QED BY <2>6, <2>7
<1>. QED BY <1>5, <1>6

\* The keys of a list, each once.
LEMMA KeysCounted ==
  ASSUME NEW q, NEW H, Lists(q, H, addressOf, Coupon)
  PROVE  Cardinality({q[i][1] : i \in DOMAIN q}) = Len(q)
<1>. DEFINE n == Len(q)
            K == {q[i][1] : i \in DOMAIN q}
            f == [i \in 1 .. n |-> q[i][1]]
<1>1. /\ n \in Nat /\ DOMAIN q = 1 .. n
      /\ \A i \in 1 .. n : q[i] \in Coupon
      /\ \A i, j \in 1 .. n : addressOf[q[i]] = addressOf[q[j]] => i = j
  BY DEF Lists, ElementsOf
<1>2. \A i, j \in 1 .. n : q[i][1] = q[j][1] => i = j
  <2>. HIDE DEF n
  <2>1. \A i \in 1 .. n : addressOf[q[i]] = q[i][1]
    BY <1>1, CouponsHaveKeys
  <2>. QED BY <1>1, <2>1
<1>3. f \in [1 .. n -> K] /\ (\A i, j \in 1 .. n : f[i] = f[j] => i = j)
      /\ \A x \in K : \E i \in 1 .. n : f[i] = x
  BY <1>1, <1>2
<1>4. f \in Bijection(1 .. n, K)
  <2>. HIDE DEF f, K
  <2>. QED BY <1>3, Fun_IsBij
<1>5. ExistsBijection(1 .. n, K)
  BY <1>4 DEF ExistsBijection
<1>. HIDE DEF n, K
<1>6. Cardinality(K) = n
  BY <1>1, <1>5, FS_CountingElements
<1>. QED BY <1>6 DEF n, K

\* The image of an array is not refused,
LEMMA HllNotRefused ==
  ASSUME NEW k, NEW D, IsHll(k, D), NEW type \in TgtHllTypes,
         NEW compact \in BOOLEAN, NEW stream \in BOOLEAN
  PROVE  ~ readThrows(k, type, compact, stream)
<1>. DEFINE im == serialize(k, type, compact)
            A  == auxRead(im, stream)
<1>1. Lists(A, auxSet(k, type), addressOf, Coupon) /\ Len(A) = im.count
  BY AuxRead
<1>2. Cardinality({A[i][1] : i \in DOMAIN A}) = Len(A)
  <2>. HIDE DEF A
  <2>. QED BY <1>1, KeysCounted
<1>3. deserializeThrows(im, stream)
        <=> modeOf(im) = "HLL"
            /\ (Len(A) # im.count \/ Cardinality({A[i][1] : i \in DOMAIN A}) # Len(A))
  BY DEF deserializeThrows, auxRead
<1>. QED BY <1>1, <1>2, <1>3 DEF readThrows

\* ... and every register is what it was.
LEMMA RegistersRead ==
  ASSUME NEW k, NEW D, IsHll(k, D), NEW type \in TgtHllTypes,
         NEW compact \in BOOLEAN, NEW stream \in BOOLEAN,
         NEW im, im = serialize(k, type, compact)
  PROVE  registers(im, auxRead(im, stream)) = [s \in SlotsOf(k.lgK) |-> k.reg[s]]
<1>. DEFINE A == auxRead(im, stream)
            m == curMinOf(k, "HLL_4")
            M == 2 ^ k.lgK
<1>1. im.type = type /\ im.lgK = k.lgK /\ im.curMin = curMinOf(k, type) /\ im.array = hllByteArr(k, type)
  BY HllImageIs
<1>2. \A s \in SlotsOf(k.lgK) : k.reg[s] \in 0 .. 63
  BY DEF IsHll
<1>3. Lists(A, auxSet(k, type), addressOf, Coupon)
  BY AuxRead
<1>. HIDE DEF A
<1>4. ASSUME NEW s \in SlotsOf(k.lgK)
      PROVE  (CASE im.type = "HLL_6" -> getSlot6(im.array, s)
                [] im.type = "HLL_4" /\ im.array[s] = AuxToken ->
                     (CHOOSE e \in Range(A) : e[1] % (2 ^ im.lgK) = s)[2]
                [] OTHER -> im.array[s] + im.curMin) = k.reg[s]
  <2>0. k.reg[s] \in 0 .. 63
    BY <1>2
  <2>1. CASE type = "HLL_6"
    <3>1. getSlot6(im.array, s) = k.reg[s]
      BY <1>1, <2>1, SixHolds
    <3>. QED BY <1>1, <2>1, <3>1
  <2>2. CASE type = "HLL_8"
    <3>1. im.array = k.reg /\ im.curMin = 0
      BY <1>1, <2>2 DEF hllByteArr, curMinOf
    <3>. QED BY <1>1, <2>0, <2>2, <3>1
  <2>3. CASE type = "HLL_4"
    <3>1. im.array[s] = IF isException(k, s) THEN AuxToken ELSE k.reg[s] - m
      BY <1>1, <2>3 DEF hllByteArr, isException
    <3>2. m \in 0 .. 63 /\ m <= k.reg[s] /\ AuxToken \in Nat \ {0} /\ im.curMin = m
      BY <1>1, <2>3, CurMinOfIs, HllImageAssumption
    <3>. HIDE DEF m
    <3>3. CASE isException(k, s)
      <4>. DEFINE c == CHOOSE e \in Range(A) : e[1] % M = s
      <4>1. Range(A) = exceptionSet(k)
        <5>1. Range(A) = ElementsOf(A)
          BY <1>3 DEF Range, ElementsOf, Lists
        <5>. QED BY <1>3, <2>3, <5>1 DEF Lists, auxSet
      <4>2. M \in Nat \ {0} /\ SlotsOf(k.lgK) = 0 .. M - 1
        BY SizesAre DEF IsHll, SlotsOf
      <4>3. \A u \in SlotsOf(k.lgK) : u % M = u
        <5>. HIDE DEF M
        <5>. QED BY <4>2
      <4>4. /\ \A e \in exceptionSet(k) : e[1] \in SlotsOf(k.lgK) /\ e[2] = k.reg[e[1]]
            /\ <<s, k.reg[s]>> \in exceptionSet(k)
        BY <3>3, ExceptionsAre
      <4>. HIDE DEF M
      <4>5. \E e \in Range(A) : e[1] % M = s
        <5>1. <<s, k.reg[s]>>[1] % M = s
          BY <4>3
        <5>. QED BY <4>1, <4>4, <5>1
      <4>6. c \in Range(A) /\ c[1] % M = s
        BY <4>5
      <4>7. c[2] = k.reg[s]
        <5>. HIDE DEF c
        <5>. QED BY <4>1, <4>3, <4>4, <4>6
      <4>. QED BY <1>1, <2>3, <3>1, <3>3, <4>7 DEF M
    <3>4. CASE ~ isException(k, s)
      <4>1. ~ (k.reg[s] - m >= AuxToken)
        BY <3>4 DEF isException, m
      <4>2. k.reg[s] - m # AuxToken /\ k.reg[s] - m + m = k.reg[s]
        BY <2>0, <3>2, <4>1
      <4>. QED BY <1>1, <2>3, <3>1, <3>2, <3>4, <4>2
    <3>. QED BY <3>3, <3>4
  <2>. QED BY <2>1, <2>2, <2>3 DEF TgtHllTypes
<1>5. registers(im, A) = [s \in SlotsOf(im.lgK) |->
        CASE im.type = "HLL_6" -> getSlot6(im.array, s)
          [] im.type = "HLL_4" /\ im.array[s] = AuxToken ->
               (CHOOSE e \in Range(A) : e[1] % (2 ^ im.lgK) = s)[2]
          [] OTHER -> im.array[s] + im.curMin]
  BY DEF registers
<1>. QED BY <1>1, <1>4, <1>5 DEF A

\* An array read back.
LEMMA HllReadBack ==
  ASSUME NEW k, NEW D, IsHll(k, D), NEW type \in TgtHllTypes,
         NEW compact \in BOOLEAN, NEW stream \in BOOLEAN, NEW rest
  PROVE  /\ IsHll(readBack(k, type, compact, stream, rest), D)
         /\ readBack(k, type, compact, stream, rest).lgK = k.lgK
         /\ ~ readThrows(k, type, compact, stream)
<1>. DEFINE im == serialize(k, type, compact)
            A  == auxRead(im, stream)
            r  == deserialized(im, stream, rest)
<1>1. modeOf(im) = "HLL" /\ im.lgK = k.lgK
  BY HllImageIs
<1>2. registers(im, A) = [s \in SlotsOf(k.lgK) |-> k.reg[s]]
  BY RegistersRead
<1>3. k.reg = [s \in SlotsOf(k.lgK) |-> k.reg[s]]
  BY DEF IsHll
<1>. HIDE DEF im
<1>4. r = [newHll(im.lgK) EXCEPT !.reg = registers(im, A), !.ooo = im.oooFlag]
  BY <1>1 DEF deserialized, auxRead
<1>5. r = [newHll(k.lgK) EXCEPT !.reg = k.reg, !.ooo = im.oooFlag]
  <2>. HIDE DEF A, r
  <2>. QED BY <1>1, <1>2, <1>3, <1>4
<1>. HIDE DEF r, A
<1>6. r = [f \in HllFields |-> r[f]] /\ r.lgK = k.lgK /\ r.mode = "HLL" /\ r.reg = k.reg
  BY <1>5 DEF newHll, HllFields
<1>7. IsHll(r, D)
  BY <1>6 DEF IsHll
<1>8. ~ readThrows(k, type, compact, stream)
  BY HllNotRefused
<1>. QED BY <1>6, <1>7, <1>8 DEF readBack, r, im

----------------------------------------------------------------------------
(* Any object and any image of it, but one. *)

\* The type goes along.
LEMMA TypeRead ==
  ASSUME NEW k, NEW D, IsOf(k, D), NEW type, NEW compact \in BOOLEAN
  PROVE  serialize(k, type, compact).type = type
<1>1. CASE IsList(k, D)
  BY <1>1, CouponImage DEF IsList
<1>2. CASE IsSet(k, D)
  <2>1. IsCoupons(k, D)
    BY <1>2, TableHolds DEF IsSet
  <2>. QED BY <2>1, CouponImage
<1>3. CASE IsHll(k, D)
  BY <1>3, HllImageIs
<1>. QED BY <1>1, <1>2, <1>3 DEF IsOf

\* What is read back is a sketch of the same coupons, of the same kind.
LEMMA ReadBackIs ==
  ASSUME NEW k, NEW D, IsOf(k, D), NEW type \in TgtHllTypes,
         NEW compact \in BOOLEAN, NEW stream \in BOOLEAN, compact \/ stream \/ k.mode # "SET",
         NEW rest, NEW r, r = readBack(k, type, compact, stream, rest)
  PROVE  /\ IsOf(r, D) /\ r.lgK = k.lgK /\ r.mode = k.mode
         /\ ~ readThrows(k, type, compact, stream)
<1>1. CASE IsList(k, D)
  <2>1. IsList(r, D) /\ r.lgK = k.lgK /\ ~ readThrows(k, type, compact, stream)
    BY <1>1, ListReadBack
  <2>. QED BY <1>1, <2>1, ModesAre DEF IsOf
<1>2. CASE IsSet(k, D)
  <2>1. compact \/ stream
    BY <1>2, ModesAre
  <2>2. IsSet(r, D) /\ r.lgK = k.lgK /\ ~ readThrows(k, type, compact, stream)
    BY <1>2, <2>1, SetReadBack
  <2>. QED BY <1>2, <2>2, ModesAre DEF IsOf
<1>3. CASE IsHll(k, D)
  <2>1. IsHll(r, D) /\ r.lgK = k.lgK /\ ~ readThrows(k, type, compact, stream)
    BY <1>3, HllReadBack
  <2>. QED BY <1>3, <2>1, ModesAre DEF IsOf
<1>. QED BY <1>1, <1>2, <1>3 DEF IsOf

----------------------------------------------------------------------------
(* What the properties say of an object. *)

\* It holds D.
Holding(k, D) ==
  IF k.mode = "HLL"
  THEN \A s \in SlotsOf(k.lgK) :
         LET values == {c[2] : c \in {d \in D : d[1] % (2 ^ k.lgK) = s}}
         IN  IF values = {} THEN k.reg[s] = 0
             ELSE k.reg[s] \in values /\ \A v \in values : v <= k.reg[s]
  ELSE /\ {k.arr[i] : i \in Cells(k.lg)} \ {EMPTY} = D
       /\ k.count = Cardinality(D)
       /\ Cardinality({i \in Cells(k.lg) : k.arr[i] # EMPTY}) = k.count

\* A list or a set holds its coupons as HoldsOffered says.
LEMMA CouponsHold ==
  ASSUME NEW k, NEW D, IsCoupons(k, D)
  PROVE  Holding(k, D)
<1>1. k.mode # "HLL" /\ k.count = Cardinality(D) /\ Entered(k.arr, k.lg) = D
      /\ Cardinality(InUse(k.arr, k.lg)) = Cardinality(Entered(k.arr, k.lg))
  BY HeldCount DEF IsCoupons
<1>2. {k.arr[i] : i \in Cells(k.lg)} \ {EMPTY} = D
  BY CouponsAre
<1>. QED BY <1>1, <1>2 DEF Holding, InUse

\* An object of D holds D as HoldsOffered says.
LEMMA IsHolding ==
  ASSUME NEW k, NEW D, IsOf(k, D)
  PROVE  Holding(k, D)
<1>1. CASE IsList(k, D)
  BY <1>1, CouponsHold DEF IsList
<1>2. CASE IsSet(k, D)
  BY <1>2, TableHolds, CouponsHold DEF IsSet
<1>3. CASE IsHll(k, D)
  <2>1. ASSUME NEW s \in SlotsOf(k.lgK),
               NEW values, values = {c[2] : c \in {d \in D : d[1] % (2 ^ k.lgK) = s}}
        PROVE  IF values = {} THEN k.reg[s] = 0
               ELSE k.reg[s] \in values /\ \A v \in values : v <= k.reg[s]
    <3>. DEFINE M == 2 ^ k.lgK
    <3>1. Register(D, k.lgK, s, k.reg[s])
      BY <1>3 DEF IsHll
    <3>2. /\ \A d \in D : d[1] % M = s => d[2] <= k.reg[s]
          /\ k.reg[s] = 0 \/ \E d \in D : d[1] % M = s /\ d[2] = k.reg[s]
      BY <3>1 DEF Register
    <3>3. \A d \in D : d[2] \in 1 .. 63
      BY <1>3, CouponsHaveKeys DEF IsHll
    <3>. HIDE DEF M
    <3>4. values = {c[2] : c \in {d \in D : d[1] % M = s}}
      BY <2>1 DEF M
    <3>5. \A v \in values : v <= k.reg[s] /\ v \in 1 .. 63
      BY <3>2, <3>3, <3>4
    <3>6. k.reg[s] = 0 \/ k.reg[s] \in values
      BY <3>2, <3>4
    <3>7. k.reg[s] = 0 => values = {}
      BY <3>5
    <3>. QED BY <3>5, <3>6, <3>7
  <2>2. k.mode = "HLL"
    BY <1>3, ModesAre
  <2>. QED BY <2>1, <2>2 DEF Holding
<1>. QED BY <1>1, <1>2, <1>3 DEF IsOf

\* The mode and the size follow from the number n of its coupons.
ModeFor(k, n) ==
  LET top == k.lgK - SetMargin
  IN  /\ k.mode = "LIST" <=> n < 2 ^ LgList
      /\ k.mode = "SET" <=> n >= 2 ^ LgList /\ k.lgK >= MinSetLgK /\ ~ overloaded(n, top)
      /\ k.mode = "SET" => /\ k.lg \in LgInitSet .. top
                           /\ ~ overloaded(n, k.lg)
                           /\ k.lg > LgInitSet => overloaded(n, k.lg - 1)

\* An object whose mode is right is in the mode that ModeByCount says.
LEMMA IsOfMode ==
  ASSUME NEW k, NEW D, IsOf(k, D), Right(k, Cardinality(D))
  PROVE  ModeFor(k, Cardinality(D))
<1>. DEFINE n == Cardinality(D)
            top == k.lgK - SetMargin
<1>0. n \in Nat /\ 2 ^ LgList \in Nat
  BY FS_CardinalityType, HllImplAssumption DEF IsOf, Powers
<1>1. CASE IsList(k, D)
  <2>1. k.mode = "LIST" /\ k.count < 2 ^ LgList /\ k.count = n
    BY <1>1 DEF IsList, IsCoupons
  <2>2. ~ (n >= 2 ^ LgList)
    BY <1>0, <2>1
  <2>. QED BY <2>1, <2>2 DEF ModeFor
<1>2. CASE IsSet(k, D)
  <2>1. k.mode = "SET" /\ k.count = n /\ n >= 2 ^ LgList
    BY <1>2, TableHolds DEF IsSet, Right
  <2>2. /\ k.lgK >= MinSetLgK /\ k.lg \in LgInitSet .. top /\ IsLgK(k.lgK)
        /\ ~ overloaded(n, k.lg) /\ (k.lg > LgInitSet => overloaded(n, k.lg - 1))
    BY <1>2, <2>1, TableIs DEF IsSet, Loaded
  <2>3. ~ overloaded(n, top)
    <3>1. top \in LgInitSet .. top /\ top \in Nat /\ Powers(top) /\ k.lg \in Nat
      <4>1. \A l \in LgInitSet .. top : l \in Nat /\ Powers(l)
        BY <2>2, SizesAre
      <4>2. LgInitSet \in Nat /\ k.lgK \in Nat /\ SetMargin \in Nat
        BY <2>2, SizesAre, HllImplAssumption
      <4>3. top \in LgInitSet .. top
        BY <2>2, <4>2
      <4>. HIDE DEF top
      <4>. QED BY <2>2, <4>1, <4>3
    <3>2. k.lg <= top
      BY <2>2, <3>1
    <3>. HIDE DEF top, n
    <3>. QED BY <1>0, <2>2, <3>1, <3>2, LargerHolds
  <2>4. ~ (n < 2 ^ LgList)
    BY <1>0, <2>1
  <2>. QED BY <2>1, <2>2, <2>3, <2>4 DEF ModeFor
<1>3. CASE IsHll(k, D)
  <2>1. k.mode = "HLL" /\ n >= 2 ^ LgList /\ (k.lgK >= MinSetLgK => overloaded(n, top))
    BY <1>3, ModesAre DEF Right
  <2>2. ~ (n < 2 ^ LgList)
    BY <1>0, <2>1
  <2>. QED BY <2>1, <2>2 DEF ModeFor
<1>. QED BY <1>1, <1>2, <1>3 DEF IsOf

\* Searches end where they should.
Findable(k, D, c) ==
  /\ ~ updateThrows(k, c)
  /\ k.mode = "SET" => k.arr[cellOf(k, c)] = (IF c \in D THEN c ELSE EMPTY)

\* The search for any coupon ends, and where FindsExactly says.
LEMMA IsFindable ==
  ASSUME NEW k, NEW D, IsOf(k, D), NEW c \in Coupon
  PROVE  Findable(k, D, c)
<1>1. ~ updateThrows(k, c)
  BY UpdateIs
<1>2. ASSUME k.mode = "SET" PROVE k.arr[cellOf(k, c)] = (IF c \in D THEN c ELSE EMPTY)
  <2>1. IsSet(k, D)
    BY <1>2, ModesAre DEF IsOf
  <2>2. /\ IsCouponTab(k, D) /\ IsLgK(k.lgK) /\ k.count = Cardinality(D)
        /\ k.lgK >= MinSetLgK /\ k.lg \in LgInitSet .. k.lgK - SetMargin /\ ~ overloaded(k.count, k.lg)
    BY <2>1, TableIs DEF IsSet, Loaded
  <2>3. Cardinality(D) # 2 ^ k.lg
    <3>1. Cardinality(D) \in Nat
      BY FS_CardinalityType DEF IsOf
    <3>2. Cardinality(D) < 2 ^ k.lg /\ 2 ^ k.lg \in Nat
      BY <2>2, <3>1, LoadsAre, SizesAre
    <3>. QED BY <3>1, <3>2
  <2>. QED BY <2>2, <2>3, CellOfFinds
<1>. QED BY <1>1, <1>2 DEF Findable

----------------------------------------------------------------------------
(* The sketch over its life. *)

\* The inductive invariant.
SketchInv ==
  /\ IsOf(impl, offered) /\ Right(impl, Cardinality(offered))
  /\ offered \subseteq Coupons /\ impl.lgK \in LgConfigKs
  /\ tgtHllType \in TgtHllTypes /\ fault = FALSE

\* A new sketch is one of no coupons.
LEMMA InitSketch == Init => SketchInv
<1>. SUFFICES ASSUME Init PROVE SketchInv
  OBVIOUS
<1>1. PICK lgK \in LgConfigKs : impl = newList(lgK)
  BY DEF Init
<1>2. IsLgK(lgK)
  BY HllSketchAssumption DEF IsLgK
<1>3. IsOf(impl, {}) /\ Right(impl, 0) /\ impl.lgK = lgK
  BY <1>1, <1>2, NewListIs
<1>4. Cardinality({}) = 0
  BY FS_EmptySet
<1>. QED BY <1>1, <1>3, <1>4 DEF Init, SketchInv

\* The coupons offered are coupons.
LEMMA CouponsOffered ==
  \A c \in Coupons : c \in Coupon
BY HllSketchAssumption DEF Coupon

\* update
LEMMA UpdateKeeps ==
  ASSUME SketchInv, NEW c \in Coupons, update(c)
  PROVE  SketchInv'
<1>1. c \in Coupon /\ IsOf(impl, offered) /\ Right(impl, Cardinality(offered))
  BY CouponsOffered DEF SketchInv
<1>2. /\ ~ updateThrows(impl, c)
      /\ IsOf(couponUpdate(impl, c), offered \union {c})
      /\ Right(couponUpdate(impl, c), Cardinality(offered \union {c}))
      /\ couponUpdate(impl, c).lgK = impl.lgK
  BY <1>1, UpdateIs
<1>3. /\ offered' = offered \union {c} /\ impl' = couponUpdate(impl, c)
      /\ fault' = fault /\ tgtHllType' = tgtHllType
  BY <1>2 DEF update
<1>. QED BY <1>2, <1>3 DEF SketchInv

\* reset
LEMMA ResetKeeps ==
  ASSUME SketchInv, reset
  PROVE  SketchInv'
<1>1. IsLgK(impl.lgK)
  BY ModesAre DEF SketchInv, IsOf
<1>2. IsOf(impl', {}) /\ Right(impl', 0) /\ impl'.lgK = impl.lgK
  BY <1>1, NewListIs DEF reset
<1>3. Cardinality({}) = 0
  BY FS_EmptySet
<1>. QED BY <1>2, <1>3 DEF SketchInv, reset

\* deserialize
LEMMA DeserializeKeeps ==
  ASSUME SketchInv, NEW compact \in BOOLEAN, NEW stream \in BOOLEAN, deserialize(compact, stream)
  PROVE  SketchInv'
<1>. DEFINE im == serialize(impl, tgtHllType, compact)
            r  == readBack(impl, tgtHllType, compact, stream, EMPTY)
<1>1. IsOf(impl, offered) /\ tgtHllType \in TgtHllTypes /\ Right(impl, Cardinality(offered))
  BY DEF SketchInv
<1>2. compact \/ stream \/ impl.mode # "SET"
  BY DEF deserialize
<1>3. /\ IsOf(r, offered) /\ r.lgK = impl.lgK /\ r.mode = impl.mode
      /\ ~ readThrows(impl, tgtHllType, compact, stream)
  BY <1>1, <1>2, ReadBackIs
<1>4. im.type = tgtHllType
  BY <1>1, TypeRead
<1>5. Right(r, Cardinality(offered))
  BY <1>1, <1>3 DEF Right
<1>6. /\ ~ deserializeThrows(im, stream) /\ r = deserialized(im, stream, EMPTY)
      /\ replaceBy(im, stream, EMPTY) /\ offered' = offered
  BY <1>3 DEF readThrows, readBack, deserialize
<1>. HIDE DEF im, r
<1>7. impl' = r /\ tgtHllType' = tgtHllType /\ fault' = fault
  BY <1>4, <1>6 DEF replaceBy
<1>. QED BY <1>3, <1>5, <1>6, <1>7 DEF SketchInv

\* Every step.
LEMMA NextSketch == SketchInv /\ [Next]_vars => SketchInv'
<1>. SUFFICES ASSUME SketchInv, [Next]_vars PROVE SketchInv'
  OBVIOUS
<1>1. ASSUME NEW c \in Coupons, update(c) PROVE SketchInv'
  BY <1>1, UpdateKeeps
<1>2. ASSUME reset PROVE SketchInv'
  BY <1>2, ResetKeeps
<1>3. ASSUME NEW type \in TgtHllTypes, copyAs(type) PROVE SketchInv'
  BY <1>3 DEF copyAs, SketchInv
<1>4. ASSUME NEW compact \in BOOLEAN, NEW stream \in BOOLEAN, deserialize(compact, stream)
      PROVE  SketchInv'
  BY <1>4, DeserializeKeeps
<1>5. CASE UNCHANGED vars
  BY <1>5 DEF SketchInv, vars
<1>. QED BY <1>1, <1>2, <1>3, <1>4, <1>5 DEF Next

\* ... of every behaviour.
LEMMA SketchKept == Spec => []SketchInv
<1>. QED BY InitSketch, NextSketch, PTL DEF Spec

(* The sketch depends on the coupons offered as a set: through every       *)
(* promotion of CouponList and CouponHashSet, every growth and every       *)
(* image, it holds each of them, once, or the maximum of each slot.        *)
THEOREM SketchHoldsOffered == Spec => []HoldsOffered
<1>1. SketchInv => HoldsOffered
  <2>. SUFFICES ASSUME SketchInv PROVE HoldsOffered
    OBVIOUS
  <2>1. Holding(impl, offered)
    BY IsHolding DEF SketchInv
  <2>. QED BY <2>1 DEF Holding, HoldsOffered, Held
<1>. QED BY <1>1, SketchKept, PTL

(* The mode, and the size of the table of a set, follow from lgConfigK and *)
(* the number of distinct coupons: whatever order, repetition or round     *)
(* trip led there.                                                         *)
THEOREM SketchModeByCount == Spec => []ModeByCount
<1>1. SketchInv => ModeByCount
  <2>. SUFFICES ASSUME SketchInv PROVE ModeByCount
    OBVIOUS
  <2>1. ModeFor(impl, Cardinality(offered))
    BY IsOfMode DEF SketchInv
  <2>. QED BY <2>1 DEF ModeFor, ModeByCount
<1>. QED BY <1>1, SketchKept, PTL

(* The next update finds what it needs: no search throws, a coupon of a    *)
(* set is found at its own cell, and a new one has an empty one.           *)
THEOREM SketchFindsExactly == Spec => []FindsExactly
<1>1. SketchInv => FindsExactly
  <2>. SUFFICES ASSUME SketchInv PROVE FindsExactly
    OBVIOUS
  <2>1. \A c \in Coupons : Findable(impl, offered, c)
    BY IsFindable, CouponsOffered DEF SketchInv
  <2>. QED BY <2>1 DEF Findable, FindsExactly, SketchInv
<1>. QED BY <1>1, SketchKept, PTL

(* Each image is as long as the sketch says, and the stream reader leaves  *)
(* the stream at its end: serialize, the two getSerializationBytes and the *)
(* readers of CouponList, CouponHashSet and HllArray agree, but for the    *)
(* cells that an updatable empty list and an array without exceptions      *)
(* leave unread.  The promised maximum holds unless exceptions outgrow it. *)
THEOREM ImagesHaveTheirLength == Spec => []StreamPositions
<1>. DEFINE
       \* The ints that the stream reader leaves.
       unreadOf(k, im, type, compact) ==
         IF compact THEN 0
         ELSE CASE k.mode = "LIST" /\ im.emptyFlag -> 2 ^ LgList
                [] k.mode = "HLL" /\ type = "HLL_4" /\ im.count = 0 -> 2 ^ LgAuxInit
                [] OTHER -> 0
       \* What StreamPositions says of an object.
       Positioned(k, type, compact) ==
         LET im      == serialize(k, type, compact)
             written == bytesOf(im, Len(im.ints))
         IN  /\ written = (IF compact THEN getCompactSerializationBytes(k, type)
                           ELSE getUpdatableSerializationBytes(k, type))
             /\ bytesOf(im, intsRead(im, TRUE)) = written - 4 * unreadOf(k, im, type, compact)
             /\ \/ written <= getMaxUpdatableSerializationBytes(k.lgK, type)
                \/ im.count > 0 /\ im.lgArr > LgAuxInit /\ k.mode = "HLL"
       \* Cells that fill no more than an array of half a byte for each slot.
       Short(h, lg, lgK) == h + 4 * 2 ^ lg <= 40 + 2 ^ (lgK - 1)
       \* n exceptions, in a table of size lg, in an image.
       HllIntsAre(k, type, compact, im, n, lg) ==
         /\ Len(im.ints) = (IF compact THEN n ELSE IF type = "HLL_4" THEN 2 ^ lg ELSE 0)
         /\ intsRead(im, TRUE) = (IF n = 0 THEN 0 ELSE IF compact THEN n ELSE 2 ^ lg)
         /\ unreadOf(k, im, type, compact) =
              (IF ~ compact /\ type = "HLL_4" /\ n = 0 THEN 2 ^ LgAuxInit ELSE 0)
         /\ im.count = n /\ modeOf(im) = "HLL" /\ im.lgK = k.lgK /\ im.type = type
         /\ n # 0 => im.lgArr = lg
<1>. HIDE DEF unreadOf, Positioned, Short, HllIntsAre
\* The bytes of an array are half as many as its slots, or more.
<1>1. ASSUME NEW lgK, IsLgK(lgK), NEW type \in TgtHllTypes
      PROVE  /\ hllByteArrBytes(lgK, type) \in Nat /\ 2 ^ (lgK - 1) \in Nat
             /\ 2 ^ (lgK - 1) <= hllByteArrBytes(lgK, type)
  <2>. USE <1>1
  <2>. DEFINE p == 2 ^ (lgK - 1)
  <2>1. lgK \in Nat /\ lgK >= 2 /\ Powers(lgK)
    BY SizesAre DEF IsLgK
  <2>2. lgK - 1 \in Nat /\ lgK - 1 <= lgK /\ (lgK - 1) + 1 = lgK
    BY <2>1
  <2>3. p \in Nat \ {0} /\ 2 ^ lgK = 2 * p
    BY <2>1, <2>2, PowersBelow
  <2>. HIDE DEF p
  <2>4. CASE type = "HLL_4"
    <3>1. hllByteArrBytes(lgK, type) = p
      BY <2>4 DEF hllByteArrBytes, p
    <3>. QED BY <2>3, <3>1 DEF p
  <2>5. CASE type = "HLL_6"
    <3>1. hllByteArrBytes(lgK, type) = (3 * (2 * p)) \div 4 + 1
      BY <2>3, <2>5 DEF hllByteArrBytes
    <3>2. (3 * (2 * p)) \div 4 + 1 \in Nat /\ p <= (3 * (2 * p)) \div 4 + 1
      BY <2>3
    <3>. QED BY <2>3, <3>1, <3>2 DEF p
  <2>6. CASE type = "HLL_8"
    <3>1. hllByteArrBytes(lgK, type) = 2 * p
      BY <2>3, <2>6 DEF hllByteArrBytes
    <3>2. 2 * p \in Nat /\ p <= 2 * p
      BY <2>3
    <3>. QED BY <2>3, <3>1, <3>2 DEF p
  <2>. QED BY <2>4, <2>5, <2>6 DEF TgtHllTypes
\* A sketch is promised as many bytes as an array without exceptions, or more.
<1>2. ASSUME NEW lgK, IsLgK(lgK), NEW type \in TgtHllTypes
      PROVE  /\ getMaxUpdatableSerializationBytes(lgK, type) \in Nat
             /\ 40 + 2 ^ (lgK - 1) <= getMaxUpdatableSerializationBytes(lgK, type)
  <2>. USE <1>2
  <2>. DEFINE b == hllByteArrBytes(lgK, type)
              x == IF type = "HLL_4" THEN 4 * 2 ^ LgAuxInit ELSE 0
              p == 2 ^ (lgK - 1)
  <2>1. b \in Nat /\ p \in Nat /\ p <= b
    BY <1>1
  <2>2. x \in Nat
    <3>. DEFINE y == 2 ^ LgAuxInit
    <3>1. y \in Nat
      BY HllImageAssumption DEF Powers
    <3>2. 4 * y \in Nat
      <4>. HIDE DEF y
      <4>. QED BY <3>1
    <3>. QED BY <3>2
  <2>3. getMaxUpdatableSerializationBytes(lgK, type) = 40 + b + x
    BY DEF getMaxUpdatableSerializationBytes, HeaderBytes
  <2>. HIDE DEF b, x, p
  <2>4. 40 + b + x \in Nat /\ 40 + p <= 40 + b + x
    BY <2>1, <2>2
  <2>. QED BY <2>3, <2>4 DEF p
\* The ints of a list or of a set.
<1>3. ASSUME NEW k, NEW D, IsCoupons(k, D), NEW type, NEW compact \in BOOLEAN,
             NEW im, im = serialize(k, type, compact)
      PROVE  /\ Len(im.ints) = (IF compact THEN k.count ELSE 2 ^ k.lg)
             /\ k.count \in Nat /\ 2 ^ k.lg \in Nat /\ k.count <= 2 ^ k.lg
  <2>. USE <1>3
  <2>1. im.ints = IF compact THEN pairs(k) ELSE cellSeq(k.arr, k.lg)
    BY CouponImage
  <2>2. /\ Filled(k.arr, k.lg, Coupon) /\ Distinct(k.arr, k.lg, itself)
        /\ Entered(k.arr, k.lg) = D /\ k.count = Cardinality(D) /\ k.mode # "HLL"
    BY DEF IsCoupons
  <2>3. 2 ^ k.lg \in Nat
    BY <2>2 DEF Filled, Powers
  <2>4. Len(pairs(k)) = k.count /\ k.count \in Nat
    <3>1. Lists(pairs(k), D, itself, Coupon)
      BY <2>2, PairsAre
    <3>. QED BY <2>2, <3>1, ListedCount, CouponsAre
  <2>5. Len(cellSeq(k.arr, k.lg)) = 2 ^ k.lg
    BY <2>3, LenProperties DEF cellSeq
  <2>6. k.count <= 2 ^ k.lg
    <3>. DEFINE N == 2 ^ k.lg
    <3>1. /\ Cells(k.lg) = 0 .. N - 1 /\ InUse(k.arr, k.lg) \subseteq Cells(k.lg)
      BY DEF Cells, InUse
    <3>2. Cardinality(InUse(k.arr, k.lg)) = k.count
      BY <2>2, HeldCount
    <3>3. IsFiniteSet(0 .. N - 1) /\ Cardinality(0 .. N - 1) = N
      <4>. HIDE DEF N
      <4>1. N \in Nat
        BY <2>3 DEF N
      <4>2. /\ IsFiniteSet(0 .. N - 1)
            /\ Cardinality(0 .. N - 1) = IF 0 > N - 1 THEN 0 ELSE (N - 1) - 0 + 1
        BY <4>1, FS_Interval
      <4>. QED BY <4>1, <4>2
    <3>. HIDE DEF N
    <3>4. Cardinality(InUse(k.arr, k.lg)) <= Cardinality(0 .. N - 1)
      <4>1. InUse(k.arr, k.lg) \in SUBSET (0 .. N - 1)
        BY <3>1
      <4>. HIDE <1>3
      <4>. QED BY <3>3, <4>1, FS_Subset
    <3>. QED BY <3>2, <3>3, <3>4 DEF N
  <2>. QED BY <2>1, <2>3, <2>4, <2>5, <2>6
\* The ints of an image, of which the last may not be read, and its bytes.
<1>4. ASSUME NEW h \in Nat, NEW l \in Nat, NEW r \in Nat, NEW u \in Nat, r = l - u,
             NEW N \in Nat, l <= N, NEW most \in Nat, h + 4 * N <= most
      PROVE  h + 4 * r + 0 = (h + 4 * l + 0) - 4 * u /\ h + 4 * l + 0 <= most /\ h + 4 * l + 0 = h + 4 * l
  BY <1>4
\* The image of an object of a coupon mode: h bytes of a header, and four for each int.
<1>5. ASSUME NEW k, NEW D, IsCoupons(k, D), NEW type \in TgtHllTypes, NEW compact \in BOOLEAN,
             NEW h \in Nat, HeaderBytes[k.mode] = h, Short(h, k.lg, k.lgK),
             NEW im, im = serialize(k, type, compact),
             NEW r \in Nat, NEW u \in Nat, intsRead(im, TRUE) = r, unreadOf(k, im, type, compact) = u,
             NEW l \in Nat, Len(im.ints) = l, r = l - u
      PROVE  Positioned(k, type, compact)
  <2>. USE <1>5
  <2>. DEFINE N == 2 ^ k.lg
              most == getMaxUpdatableSerializationBytes(k.lgK, type)
              p == 2 ^ (k.lgK - 1)
  <2>1. k.mode \in {"LIST", "SET"} /\ k.mode # "HLL" /\ IsLgK(k.lgK)
    BY DEF IsCoupons
  <2>2. k.count \in Nat /\ N \in Nat /\ k.count <= N
    BY <1>3
  <2>3. /\ compact => l = k.count
        /\ ~ compact => l = N
    BY <1>3
  <2>4. modeOf(im) = k.mode
    BY CouponImage
  <2>5. bytesOf(im, l) = h + 4 * l + 0 /\ bytesOf(im, r) = h + 4 * r + 0
    BY <2>1, <2>4 DEF bytesOf
  <2>6. /\ getCompactSerializationBytes(k, type) = h + 4 * k.count
        /\ getUpdatableSerializationBytes(k, type) = h + 4 * N
    BY <2>1 DEF getCompactSerializationBytes, getUpdatableSerializationBytes
  <2>7. most \in Nat /\ 40 + p <= most /\ p \in Nat
    BY <2>1, <1>2, <1>1
  <2>8. h + 4 * N <= 40 + p
    BY DEF Short
  <2>. HIDE DEF N, most, p
  <2>9. l <= N
    <3>1. CASE compact
      <4>1. l = k.count
        BY <2>3, <3>1
      <4>. QED BY <2>2, <4>1
    <3>2. CASE ~ compact
      <4>1. l = N
        BY <2>3, <3>2
      <4>. QED BY <2>2, <4>1
    <3>. QED BY <3>1, <3>2
  <2>10. h + 4 * N <= most
    BY <2>2, <2>7, <2>8
  <2>12. /\ h + 4 * r + 0 = (h + 4 * l + 0) - 4 * u /\ h + 4 * l + 0 <= most
         /\ h + 4 * l + 0 = h + 4 * l
    BY <2>2, <2>7, <2>9, <2>10, <1>4
  <2>13. bytesOf(im, l) = IF compact THEN getCompactSerializationBytes(k, type)
                          ELSE getUpdatableSerializationBytes(k, type)
    BY <2>3, <2>5, <2>6, <2>12
  <2>. QED BY <2>5, <2>12, <2>13 DEF Positioned, most
\* A list.
<1>6. ASSUME NEW k, NEW D, IsList(k, D), NEW type \in TgtHllTypes, NEW compact \in BOOLEAN,
             Short(8, LgList, k.lgK)
      PROVE  Positioned(k, type, compact)
  <2>. USE <1>6
  <2>. DEFINE im == serialize(k, type, compact)
              u == unreadOf(k, im, type, compact)
              r == intsRead(im, TRUE)
              l == Len(im.ints)
              N == 2 ^ LgList
  <2>1. IsCoupons(k, D) /\ k.mode = "LIST" /\ k.lg = LgList
    BY DEF IsList
  <2>2. /\ k.count \in Nat /\ N \in Nat
        /\ compact => l = k.count
        /\ ~ compact => l = N
    BY <2>1, <1>3
  <2>3. /\ modeOf(im) = "LIST" /\ (im.emptyFlag <=> k.count = 0) /\ im.compactFlag = compact
        /\ im.count = k.count
    BY <2>1, CouponImage
  <2>4. r = IF im.emptyFlag THEN 0 ELSE IF compact THEN k.count ELSE N
    BY <2>3 DEF intsRead
  <2>5. u = IF ~ compact /\ im.emptyFlag THEN N ELSE 0
    BY <2>1 DEF unreadOf
  <2>6. HeaderBytes[k.mode] = 8
    BY <2>1 DEF HeaderBytes
  <2>7. PICK a, b, c : a = r /\ b = u /\ c = l
    OBVIOUS
  <2>8. a \in Nat /\ b \in Nat /\ c \in Nat /\ a = c - b
    <3>1. CASE compact
      <4>1. b = 0 /\ c = k.count /\ a = (IF im.emptyFlag THEN 0 ELSE k.count)
        BY <2>2, <2>4, <2>5, <2>7, <3>1
      <4>2. a = k.count
        BY <2>3, <4>1
      <4>. HIDE DEF im, u, r, l, N
      <4>. QED BY <2>2, <4>1, <4>2
    <3>2. CASE ~ compact /\ im.emptyFlag
      <4>1. b = N /\ c = N /\ a = 0
        BY <2>2, <2>4, <2>5, <2>7, <3>2
      <4>. HIDE DEF im, u, r, l, N
      <4>. QED BY <2>2, <4>1
    <3>3. CASE ~ compact /\ ~ im.emptyFlag
      <4>1. b = 0 /\ c = N /\ a = N
        BY <2>2, <2>4, <2>5, <2>7, <3>3
      <4>. HIDE DEF im, u, r, l, N
      <4>. QED BY <2>2, <4>1
    <3>. QED BY <3>1, <3>2, <3>3
  <2>. HIDE DEF im
  <2>. QED BY <2>1, <2>6, <2>7, <2>8, <1>5 DEF im
\* A set.
<1>7. ASSUME NEW k, NEW D, IsSet(k, D), NEW type \in TgtHllTypes, NEW compact \in BOOLEAN,
             Short(12, k.lgK - SetMargin, k.lgK)
      PROVE  Positioned(k, type, compact)
  <2>. USE <1>7
  <2>. DEFINE im == serialize(k, type, compact)
              unread == unreadOf(k, im, type, compact)
              N == 2 ^ k.lg
              top == k.lgK - SetMargin
              M == 2 ^ top
              p == 2 ^ (k.lgK - 1)
  <2>1. /\ IsCoupons(k, D) /\ k.mode = "SET" /\ k.lgK >= MinSetLgK
        /\ k.lg \in LgInitSet .. top /\ IsLgK(k.lgK)
    BY DEF IsSet, IsTableOf, IsCoupons
  <2>2. /\ Len(im.ints) = (IF compact THEN k.count ELSE N) /\ k.count \in Nat /\ N \in Nat
    BY <2>1, <1>3
  <2>3. /\ modeOf(im) = "SET" /\ im.compactFlag = compact /\ im.lgArr = k.lg
        /\ im.count = k.count
    BY <2>1, CouponImage
  <2>4. k.lg \in Nat /\ LgInitSet \in Nat /\ SetMargin \in Nat /\ k.lgK \in Nat
    BY <2>1, SizesAre, HllImplAssumption
  <2>5. setLg(im) = k.lg
    <3>1. ~ (k.lg < LgInitSet)
      BY <2>1, <2>4
    <3>. QED BY <2>3, <3>1 DEF setLg
  <2>6. intsRead(im, TRUE) = IF compact THEN k.count ELSE N
    BY <2>3, <2>5 DEF intsRead
  <2>7. unread = 0
    BY <2>1 DEF unreadOf
  <2>8. HeaderBytes[k.mode] = 12
    BY <2>1 DEF HeaderBytes
  <2>9. N <= M /\ M \in Nat
    <3>1. PICK a, b : a = k.lg /\ b = top
      OBVIOUS
    <3>2. a \in Nat /\ b \in Nat /\ a <= b /\ b \in LgInitSet .. top
      BY <2>1, <2>4, <3>1
    <3>3. Powers(b)
      BY <2>1, <3>2, SizesAre
    <3>4. b <= b
      BY <3>2
    <3>5. 2 ^ a <= 2 ^ b /\ 2 ^ b \in Nat
      BY <3>2, <3>3, <3>4, PowersOrdered DEF Powers
    <3>. QED BY <3>1, <3>5
  <2>10. p \in Nat
    BY <2>1, <1>1
  <2>11. Short(12, k.lg, k.lgK)
    <3>1. 12 + 4 * M <= 40 + p
      BY DEF Short
    <3>2. 12 + 4 * N <= 40 + p
      <4>. HIDE DEF N, M, p
      <4>. QED BY <2>2, <2>9, <2>10, <3>1
    <3>. QED BY <3>2 DEF Short
  <2>12. PICK a, b, c : a = intsRead(im, TRUE) /\ b = unread /\ c = Len(im.ints)
    OBVIOUS
  <2>13. a = c /\ b = 0 /\ c \in {k.count, N}
    <3>1. CASE compact
      BY <2>2, <2>6, <2>7, <2>12, <3>1
    <3>2. CASE ~ compact
      BY <2>2, <2>6, <2>7, <2>12, <3>2
    <3>. QED BY <3>1, <3>2
  <2>. HIDE DEF N, im, unread
  <2>14. a \in Nat /\ b \in Nat /\ c \in Nat /\ a = c - b
    BY <2>2, <2>13
  <2>. QED BY <2>1, <2>8, <2>11, <2>12, <2>14, <1>5 DEF im, unread
\* A table for exceptions is of the initial size at least, and of that size without any.
<1>8. ASSUME NEW n \in Nat, lgAux(n) \in Nat
      PROVE  /\ lgAux(n) = LgAuxInit \/ lgAux(n) > LgAuxInit
             /\ n = 0 => lgAux(n) = LgAuxInit
             /\ LgAuxInit \in Nat /\ 2 ^ LgAuxInit \in Nat
  <2>. USE <1>8
  <2>1. LgAuxInit \in Nat /\ 2 ^ LgAuxInit \in Nat /\ 2 ^ 0 \in Nat
    BY HllImageAssumption DEF Powers
  <2>2. lgFor(0) = 0
    <3>1. ~ overloaded(0, 0)
      BY <2>1 DEF overloaded
    <3>. DEFINE Fits(l) == ~ overloaded(0, l) /\ \A j \in 0 .. l - 1 : overloaded(0, j)
    <3>2. Fits(0)
      BY <3>1
    <3>3. \A l \in 0 .. 0 + 1 : Fits(l) => l = 0
      BY <3>1
    <3>4. lgFor(0) = CHOOSE l \in 0 .. 0 + 1 : Fits(l)
      BY DEF lgFor
    <3>5. \E l \in 0 .. 0 + 1 : Fits(l)
      BY <3>2
    <3>. HIDE DEF Fits
    <3>6. lgFor(0) \in 0 .. 0 + 1 /\ Fits(lgFor(0))
      BY <3>4, <3>5
    <3>. QED BY <3>3, <3>6
  <2>3. lgAux(n) = IF LgAuxInit >= lgFor(n) THEN LgAuxInit ELSE lgFor(n)
    BY DEF lgAux, larger
  <2>4. n = 0 => lgAux(n) = LgAuxInit
    BY <2>1, <2>2, <2>3
  <2>5. lgAux(n) = LgAuxInit \/ lgAux(n) > LgAuxInit
    <3>1. CASE LgAuxInit >= lgFor(n)
      BY <2>3, <3>1
    <3>2. CASE ~ (LgAuxInit >= lgFor(n))
      <4>1. lgAux(n) = lgFor(n)
        BY <2>3, <3>2
      <4>2. ~ (LgAuxInit >= lgAux(n))
        BY <3>2, <4>1
      <4>. QED BY <2>1, <4>2
    <3>. QED BY <3>1, <3>2
  <2>. QED BY <2>1, <2>4, <2>5
\* The ints of an array's image: how many are written, read, and not read.
<1>9. ASSUME NEW k, NEW D, IsHll(k, D), NEW type \in TgtHllTypes, NEW compact \in BOOLEAN,
             NEW im, im = serialize(k, type, compact),
             NEW n, n = Len(exceptions(k, type)), NEW lg, lg = lgAux(n)
      PROVE  HllIntsAre(k, type, compact, im, n, lg)
  <2>. USE <1>9
  <2>. DEFINE aux == exceptions(k, type)
              t   == auxTable(aux, lg)
              X   == auxSet(k, type)
  <2>1. /\ Lists(aux, X, addressOf, Coupon) /\ n \in Nat
        /\ type # "HLL_4" => aux = <<>>
        /\ aux = <<>> <=> n = 0
        /\ lg \in Nat /\ Powers(lg) /\ n < 2 ^ lg /\ 2 ^ lg \in Nat
    BY AuxCounted
  <2>2. /\ modeOf(im) = "HLL" /\ im.type = type /\ im.lgK = k.lgK
        /\ im.lgArr = (IF aux = <<>> THEN 0 ELSE lg)
        /\ im.compactFlag = compact /\ im.count = n
        /\ im.ints = IF compact THEN Entries(t, lg)
                     ELSE IF type = "HLL_4" THEN cellSeq(t, lg) ELSE <<>>
    BY HllImageIs
  <2>3. k.mode = "HLL"
    BY DEF IsHll
  <2>. HIDE DEF X
  <2>4. n = Len(aux)
    OBVIOUS
  <2>. HIDE DEF aux
  <2>5. IsTab(t, lg, addressOf, X)
    BY <2>1, <2>4, AuxTableIs
  <2>. HIDE DEF t
  <2>6. Len(Entries(t, lg)) = n
    <3>1. Lists(Entries(t, lg), X, addressOf, Coupon)
      BY <2>5, EntriesAreHeld DEF IsTab
    <3>. QED BY <2>1, <2>4, <3>1, ListedCount
  <2>7. Len(cellSeq(t, lg)) = 2 ^ lg
    BY <2>1, LenProperties DEF cellSeq
  <2>8. Len(<<>>) = 0
    OBVIOUS
  <2>9. Len(im.ints) = IF compact THEN n ELSE IF type = "HLL_4" THEN 2 ^ lg ELSE 0
    BY <2>2, <2>6, <2>7, <2>8
  <2>10. n # 0 => im.lgArr = lg
    BY <2>1, <2>2
  <2>11. intsRead(im, TRUE) = IF n = 0 THEN 0 ELSE IF compact THEN n ELSE 2 ^ lg
    <3>1. intsRead(im, TRUE) = IF im.count = 0 THEN 0 ELSE IF im.compactFlag THEN im.count ELSE 2 ^ im.lgArr
      BY <2>2 DEF intsRead
    <3>. QED BY <2>2, <2>10, <3>1
  <2>12. unreadOf(k, im, type, compact) =
           IF ~ compact /\ type = "HLL_4" /\ n = 0 THEN 2 ^ LgAuxInit ELSE 0
    BY <2>2, <2>3 DEF unreadOf
  <2>13. im.count = n /\ modeOf(im) = "HLL" /\ im.lgK = k.lgK /\ im.type = type
    BY <2>2
  <2>. HIDE <1>9
  <2>. QED BY <2>9, <2>10, <2>11, <2>12, <2>13 DEF HllIntsAre
\* An array.
<1>10. ASSUME NEW k, NEW D, IsHll(k, D), NEW type \in TgtHllTypes, NEW compact \in BOOLEAN
       PROVE  Positioned(k, type, compact)
  <2>. USE <1>10
  <2>. DEFINE im == serialize(k, type, compact)
              n  == Len(exceptions(k, type))
              lg == lgAux(n)
              T  == 2 ^ lg
              U  == 2 ^ LgAuxInit
              b  == hllByteArrBytes(k.lgK, type)
              l  == Len(im.ints)
              r  == intsRead(im, TRUE)
              u  == unreadOf(k, im, type, compact)
  <2>1. n \in Nat /\ lg \in Nat /\ n < T /\ T \in Nat /\ (type # "HLL_4" => n = 0)
    BY AuxCounted
  <2>2. /\ l = (IF compact THEN n ELSE IF type = "HLL_4" THEN T ELSE 0)
        /\ r = (IF n = 0 THEN 0 ELSE IF compact THEN n ELSE T)
        /\ u = (IF ~ compact /\ type = "HLL_4" /\ n = 0 THEN U ELSE 0)
        /\ im.count = n /\ modeOf(im) = "HLL" /\ im.lgK = k.lgK /\ im.type = type
        /\ n # 0 => im.lgArr = lg
    <3>1. im = serialize(k, type, compact) /\ n = Len(exceptions(k, type)) /\ lg = lgAux(n)
      OBVIOUS
    <3>. HIDE DEF im, n, lg, T, U
    <3>2. HllIntsAre(k, type, compact, im, n, lg)
      BY <3>1, <1>9
    <3>. QED BY <3>2 DEF HllIntsAre, T, U
  <2>3. /\ lg = LgAuxInit \/ lg > LgAuxInit
        /\ n = 0 => lg = LgAuxInit
        /\ LgAuxInit \in Nat /\ U \in Nat
    <3>. HIDE DEF n
    <3>. QED BY <2>1, <1>8
  <2>4. lg = LgAuxInit => T = U
    OBVIOUS
  <2>5. b \in Nat /\ k.mode = "HLL"
    BY <1>1 DEF IsHll
  <2>6. bytesOf(im, l) = 40 + 4 * l + b /\ bytesOf(im, r) = 40 + 4 * r + b
    BY <2>2 DEF bytesOf, HeaderBytes
  <2>7. /\ getCompactSerializationBytes(k, type) = 40 + (b + 4 * n)
        /\ getUpdatableSerializationBytes(k, type) = 40 + (IF type = "HLL_4" THEN b + 4 * T ELSE b)
        /\ getMaxUpdatableSerializationBytes(k.lgK, type) = 40 + b + (IF type = "HLL_4" THEN 4 * U ELSE 0)
    BY <2>5 DEF getCompactSerializationBytes, getUpdatableSerializationBytes,
                getMaxUpdatableSerializationBytes, HeaderBytes
  <2>. HIDE DEF im, n, lg, T, U, b, l, r, u
  <2>8. bytesOf(im, l) = IF compact THEN getCompactSerializationBytes(k, type)
                         ELSE getUpdatableSerializationBytes(k, type)
    <3>1. CASE compact
      BY <2>1, <2>2, <2>5, <2>6, <2>7, <3>1
    <3>2. CASE ~ compact /\ type = "HLL_4"
      BY <2>1, <2>2, <2>5, <2>6, <2>7, <3>2
    <3>3. CASE ~ compact /\ type # "HLL_4"
      BY <2>1, <2>2, <2>5, <2>6, <2>7, <3>3
    <3>. QED BY <3>1, <3>2, <3>3
  <2>9. bytesOf(im, r) = bytesOf(im, l) - 4 * u
    <3>1. CASE compact
      <4>1. l = n /\ r = n /\ u = 0
        BY <2>2, <3>1
      <4>. QED BY <2>1, <2>5, <2>6, <4>1
    <3>2. CASE ~ compact /\ type = "HLL_4" /\ n = 0
      <4>1. l = U /\ r = 0 /\ u = U
        BY <2>2, <2>3, <2>4, <3>2
      <4>. QED BY <2>3, <2>5, <2>6, <4>1
    <3>3. CASE ~ compact /\ type = "HLL_4" /\ n # 0
      <4>1. l = T /\ r = T /\ u = 0
        BY <2>2, <3>3
      <4>. QED BY <2>1, <2>5, <2>6, <4>1
    <3>4. CASE ~ compact /\ type # "HLL_4"
      <4>1. l = 0 /\ r = 0 /\ u = 0
        BY <2>1, <2>2, <3>4
      <4>. QED BY <2>5, <2>6, <4>1
    <3>. QED BY <3>1, <3>2, <3>3, <3>4
  <2>10. \/ bytesOf(im, l) <= getMaxUpdatableSerializationBytes(k.lgK, type)
         \/ im.count > 0 /\ im.lgArr > LgAuxInit /\ k.mode = "HLL"
    <3>1. CASE lg > LgAuxInit
      <4>1. n # 0
        BY <2>1, <2>3, <3>1
      <4>. QED BY <2>1, <2>2, <2>5, <3>1, <4>1
    <3>2. CASE lg = LgAuxInit /\ type = "HLL_4"
      <4>1. l \in Nat /\ l <= U
        <5>1. l \in {n, T}
          BY <2>2, <3>2
        <5>2. T = U
          BY <2>4, <3>2
        <5>. QED BY <2>1, <5>1, <5>2
      <4>2. getMaxUpdatableSerializationBytes(k.lgK, type) = 40 + b + 4 * U
        BY <2>7, <3>2
      <4>. QED BY <2>3, <2>5, <2>6, <4>1, <4>2
    <3>3. CASE type # "HLL_4"
      <4>1. l = 0 /\ getMaxUpdatableSerializationBytes(k.lgK, type) = 40 + b + 0
        BY <2>1, <2>2, <2>7, <3>3
      <4>. QED BY <2>5, <2>6, <4>1
    <3>. QED BY <2>3, <3>1, <3>2, <3>3
  <2>. QED BY <2>8, <2>9, <2>10 DEF Positioned, im, l, r, u
<1>11. SketchInv => StreamPositions
  <2>. SUFFICES ASSUME SketchInv PROVE StreamPositions
    OBVIOUS
  <2>1. /\ IsOf(impl, offered) /\ tgtHllType \in TgtHllTypes
        /\ 8 + 4 * 2 ^ LgList <= 40 + 2 ^ (impl.lgK - 1)
        /\ impl.lgK >= MinSetLgK => 12 + 4 * 2 ^ (impl.lgK - SetMargin) <= 40 + 2 ^ (impl.lgK - 1)
    BY SizesAssumption DEF SketchInv
  <2>2. ASSUME NEW compact \in BOOLEAN PROVE Positioned(impl, tgtHllType, compact)
    <3>1. CASE IsList(impl, offered)
      BY <2>1, <3>1, <1>6 DEF Short
    <3>2. CASE IsSet(impl, offered)
      <4>1. impl.lgK >= MinSetLgK
        BY <3>2 DEF IsSet, IsTableOf
      <4>. QED BY <2>1, <3>2, <4>1, <1>7 DEF Short
    <3>3. CASE IsHll(impl, offered)
      BY <2>1, <3>3, <1>10
    <3>. QED BY <2>1, <3>1, <3>2, <3>3 DEF IsOf
  <2>. QED BY <2>2 DEF Positioned, unreadOf, StreamPositions
<1>. QED BY <1>11, SketchKept, PTL
=============================================================================

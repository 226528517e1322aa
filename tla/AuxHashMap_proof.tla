-------------------------- MODULE AuxHashMap_proof --------------------------
(***************************************************************************)
(* What is proved of a table of ProbeTable: an odd stride comes by every   *)
(* cell, so that a search that has an empty cell to end at finds what it   *)
(* looks for, and an insertion at that cell leaves every other entry to be *)
(* found.  And of AuxHashMap (AuxHashMap.cpp): its searches find what the  *)
(* table holds, the table is never too full for them, and it implements    *)
(* ExceptionMap.                                                           *)
(***************************************************************************)
EXTENDS AuxHashMap, ProbedTable, TLAPS, FiniteSetTheorems, FunctionTheorems

----------------------------------------------------------------------------
(* The instance of FoldTheorems for the scan of a table; its lemmas on     *)
(* induction serve the other proofs as well.                               *)

\* Cell i of q is appended; p has the keys and the set of entries.
collecting(p, q, i, found) == IF q[i] = EMPTY THEN found ELSE Append(found, q[i])

collected(p, q, n, found) == Lists(found, {q[i] : i \in 1 .. n} \ {EMPTY}, p.key, p.E)

Collects == INSTANCE FoldTheorems WITH step <- collecting, choose <- lastOf, Good <- collected

----------------------------------------------------------------------------
(* Sizes. *)

\* Powers of two grow with their exponent,
LEMMA PowersOrdered ==
  ASSUME NEW lg \in Nat, Powers(lg), NEW a \in Nat, NEW b \in Nat, a <= b, b <= lg
  PROVE  2 ^ a <= 2 ^ b
<1>. DEFINE T == {d \in Nat : a + d <= lg => 2 ^ a <= 2 ^ (a + d)}
<1>1. 0 \in T
  <2>1. a \in 0 .. lg /\ a + 0 = a
    OBVIOUS
  <2>. QED BY <2>1 DEF Powers
<1>2. ASSUME NEW d \in Nat, d \in T PROVE d + 1 \in T
  <2>1. SUFFICES ASSUME a + d + 1 <= lg PROVE 2 ^ a <= 2 ^ (a + d + 1)
    OBVIOUS
  <2>2. a + d \in 0 .. lg /\ a \in 0 .. lg /\ 2 ^ a <= 2 ^ (a + d)
    BY <1>2, <2>1
  <2>3. 2 ^ (a + d) \in Nat /\ 2 ^ a \in Nat /\ 2 ^ (a + d + 1) = 2 * 2 ^ (a + d)
    BY <2>2 DEF Powers
  <2>. QED BY <2>2, <2>3
<1>. HIDE DEF T
<1>3. \A d \in Nat : d \in T
  BY <1>1, <1>2, Collects!OverNaturals
<1>4. b - a \in Nat /\ a + (b - a) = b
  OBVIOUS
<1>. QED BY <1>3, <1>4 DEF T

\* ... and exceed it.
LEMMA PowersExceed ==
  ASSUME NEW lg \in Nat, Powers(lg), NEW n \in Nat, n <= lg
  PROVE  2 ^ n >= n + 1 /\ 2 ^ (n + 1) >= 2 * (n + 1)
<1>. DEFINE T == {d \in Nat : d <= lg => 2 ^ d >= d + 1}
<1>1. 0 \in T
  BY DEF Powers
<1>2. ASSUME NEW d \in Nat, d \in T PROVE d + 1 \in T
  <2>1. SUFFICES ASSUME d + 1 <= lg PROVE 2 ^ (d + 1) >= d + 1 + 1
    OBVIOUS
  <2>2. d \in 0 .. lg /\ 2 ^ d >= d + 1
    BY <1>2, <2>1
  <2>3. 2 ^ d \in Nat /\ 2 ^ (d + 1) = 2 * 2 ^ d
    BY <2>2 DEF Powers
  <2>. QED BY <2>2, <2>3
<1>. HIDE DEF T
<1>3. n \in T
  BY <1>1, <1>2, Collects!OverNaturals
<1>4. 2 ^ n \in Nat /\ 2 ^ (n + 1) = 2 * 2 ^ n
  BY DEF Powers
<1>. QED BY <1>3, <1>4 DEF T

\* A table of the size computed for its entries is not overloaded, and one of
\* a larger size is not either.
LEMMA LgForHolds ==
  ASSUME NEW count \in Nat, NEW lg \in Nat, Powers(lg), count + 1 <= lg
  PROVE  lgFor(count) \in 0 .. count + 1 /\ ~ overloaded(count, lgFor(count))
<1>. DEFINE fits == {l \in 0 .. count + 1 : ~ overloaded(count, l)}
<1>1. count + 1 \in fits
  <2>1. 2 ^ (count + 1) >= 2 * (count + 1)
    BY PowersExceed
  <2>2. 2 ^ (count + 1) \in Nat
    BY DEF Powers
  <2>. QED BY <2>1, <2>2 DEF overloaded
<1>2. PICK l \in fits : \A k \in fits : l <= k
  <2>1. fits \subseteq Nat /\ fits # {}
    BY <1>1
  <2>. HIDE DEF fits
  <2>. QED BY <2>1, Collects!LeastElement
<1>3. \A k \in 0 .. l - 1 : overloaded(count, k)
  BY <1>2
<1>. QED BY <1>2, <1>3 DEF lgFor

\* What does not overload a table does not overload a larger one.
LEMMA LargerHolds ==
  ASSUME NEW lg \in Nat, Powers(lg), NEW a \in Nat, NEW b \in Nat, a <= b, b <= lg,
         NEW count \in Nat, ~ overloaded(count, a)
  PROVE  ~ overloaded(count, b)
<1>1. 2 ^ a <= 2 ^ b /\ 2 ^ a \in Nat /\ 2 ^ b \in Nat
  BY PowersOrdered DEF Powers
<1>. QED BY <1>1 DEF overloaded

----------------------------------------------------------------------------
(* The walk. *)

\* The walk comes by every cell, and by no other.
THEOREM WalkCovers ==
  ASSUME NEW lg \in Nat, Powers(lg), NEW key \in Nat
  PROVE  /\ \A i \in Cells(lg) : probe(key, lg, i) \in Cells(lg)
         /\ \A c \in Cells(lg) : \E i \in Cells(lg) : probe(key, lg, i) = c
<1>. DEFINE n == 2 ^ lg
<1>1. n \in Nat \ {0}
  BY DEF Powers
<1>2. PICK h \in Int : stride(key, lg) = 2 * h + 1
  <2>. DEFINE q == key \div n
  <2>1. q \in Int
    BY <1>1
  <2>. HIDE DEF q
  <2>2. q % 2 = 0 => q + 1 = 2 * (q \div 2) + 1
    BY <2>1
  <2>3. q % 2 # 0 => q = 2 * (q \div 2) + 1
    BY <2>1
  <2>4. stride(key, lg) = IF q % 2 = 0 THEN q + 1 ELSE q
    BY DEF stride, q
  <2>5. q \div 2 \in Int
    BY <2>1
  <2>. QED BY <2>2, <2>3, <2>4, <2>5
<1>. DEFINE a == key % n
<1>3. a \in Int
  BY <1>1
<1>4. ASSUME NEW i \in Cells(lg)
      PROVE  probe(key, lg, i) = (a + i * (2 * h + 1)) % n
  BY <1>2 DEF probe
<1>. HIDE DEF a
<1>5. ASSUME NEW i \in Cells(lg) PROVE probe(key, lg, i) \in Cells(lg)
  <2>. DEFINE x == a + i * (2 * h + 1)
  <2>1. x \in Int
    BY <1>1, <1>3 DEF Cells
  <2>. HIDE DEF x
  <2>2. x % n \in 0 .. n - 1
    BY <1>1, <2>1
  <2>. QED BY <1>4, <2>2 DEF Cells, x
<1>6. ASSUME NEW c \in Cells(lg) PROVE \E i \in Cells(lg) : probe(key, lg, i) = c
  <2>0. c \in 0 .. n - 1 /\ c \in Int
    BY <1>1 DEF Cells
  <2>1. PICK i \in 0 .. n - 1 : Collects!At(a, h, i, c, n)
    <3>1. Collects!Doubles(lg)
      BY DEF Powers, Collects!Doubles
    <3>. QED BY <1>2, <1>3, <2>0, <3>1, Collects!OddStrideReaches
  <2>1a. PICK m \in Int : a + i * (2 * h + 1) = c + n * m
    BY <2>1 DEF Collects!At
  <2>. DEFINE x == a + i * (2 * h + 1)
  <2>2. x \in Int /\ i \in Cells(lg)
    BY <1>1, <1>2, <1>3, <2>1 DEF Cells
  <2>3. x = c + n * m
    BY <2>1a
  <2>. HIDE DEF x, n
  <2>4. x % n = c
    BY <1>1, <2>0, <2>1a, <2>2, <2>3, Collects!Remainder
  <2>. QED BY <1>4, <2>2, <2>4 DEF x
<1>. QED BY <1>5, <1>6

----------------------------------------------------------------------------
(* The search. *)

\* The search ends at the first cell of the walk that is empty or matches.
LEMMA SearchEnds ==
  ASSUME NEW arr, NEW lg, NEW key, NEW E, Sound(arr, lg, key, E),
         NEW k \in Nat, NEW M, \E c \in Cells(lg) : arr[c] = EMPTY \/ arr[c] \in M
  PROVE  /\ StopsAt(arr, lg, k, M) # {}
         /\ \E i \in Cells(lg) :
              /\ probe(k, lg, i) = cellAt(arr, lg, k, M)
              /\ arr[probe(k, lg, i)] = EMPTY \/ arr[probe(k, lg, i)] \in M
              /\ \A j \in Cells(lg) : j < i => arr[probe(k, lg, j)] # EMPTY /\ arr[probe(k, lg, j)] \notin M
<1>. DEFINE S == StopsAt(arr, lg, k, M)
<1>0. lg \in Nat /\ Powers(lg) /\ 2 ^ lg \in Nat
  BY DEF Sound, Filled, Powers
<1>1. PICK c \in Cells(lg) : arr[c] = EMPTY \/ arr[c] \in M
  OBVIOUS
<1>2. PICK i \in Cells(lg) : probe(k, lg, i) = c
  BY <1>0, WalkCovers
<1>3. i \in S
  BY <1>1, <1>2 DEF StopsAt
<1>4. S \subseteq Nat /\ S # {} /\ S \subseteq Cells(lg)
  BY <1>0, <1>3 DEF StopsAt, Cells
<1>. DEFINE f == CHOOSE x \in S : \A j \in S : x <= j
<1>5. f \in S /\ \A j \in S : f <= j
  <2>. HIDE DEF S
  <2>1. \E x \in S : \A j \in S : x <= j
    BY <1>4, Collects!LeastElement
  <2>. QED BY <2>1
<1>6. cellAt(arr, lg, k, M) = probe(k, lg, f)
  BY DEF cellAt
<1>. HIDE DEF f
<1>7. ASSUME NEW j \in Cells(lg), j < f PROVE j \notin S
  BY <1>0, <1>4, <1>5, <1>7 DEF Cells
<1>8. f \in Cells(lg) /\ (arr[probe(k, lg, f)] = EMPTY \/ arr[probe(k, lg, f)] \in M)
  BY <1>5 DEF StopsAt
<1>9. \A j \in Cells(lg) : j < f => arr[probe(k, lg, j)] # EMPTY /\ arr[probe(k, lg, j)] \notin M
  BY <1>7 DEF StopsAt
<1>. QED BY <1>4, <1>6, <1>8, <1>9

\* ... which is the cell of an entry that matches, if there is one.
LEMMA SearchFinds ==
  ASSUME NEW arr, NEW lg, NEW key, NEW E, Sound(arr, lg, key, E), Probed(arr, lg, key),
         NEW k \in Nat, NEW M, \A e \in M : e \in E /\ key[e] = k,
         NEW c \in Cells(lg), arr[c] \in M,
         \A d \in Cells(lg) : arr[d] \in M => d = c
  PROVE  cellAt(arr, lg, k, M) = c
<1>1. PICK i \in Cells(lg) :
              /\ probe(k, lg, i) = cellAt(arr, lg, k, M)
              /\ arr[probe(k, lg, i)] = EMPTY \/ arr[probe(k, lg, i)] \in M
              /\ \A j \in Cells(lg) : j < i => arr[probe(k, lg, j)] # EMPTY /\ arr[probe(k, lg, j)] \notin M
  BY SearchEnds
<1>2. arr[c] # EMPTY /\ key[arr[c]] = k
  BY DEF Sound, Filled
<1>3. PICK h \in Cells(lg) : /\ probe(k, lg, h) = c
                             /\ \A j \in Cells(lg) : j < h => arr[probe(k, lg, j)] # EMPTY
  BY <1>2 DEF Probed, Reaches
<1>4. lg \in Nat /\ Powers(lg) /\ i \in Nat /\ h \in Nat
  BY DEF Sound, Filled, Powers, Cells
<1>5. ~ (h < i)
  BY <1>1, <1>3
<1>6. ~ (i < h) \/ arr[probe(k, lg, i)] \in M
  BY <1>1, <1>3
<1>7. CASE arr[probe(k, lg, i)] \in M
  <2>1. probe(k, lg, i) \in Cells(lg)
    BY <1>4, WalkCovers
  <2>. QED BY <1>1, <1>7, <2>1
<1>8. CASE ~ (i < h)
  <2>1. i = h
    BY <1>4, <1>5, <1>8
  <2>. QED BY <1>1, <1>3, <2>1
<1>. QED BY <1>6, <1>7, <1>8

\* ... and an empty one if there is none.
LEMMA SearchMisses ==
  ASSUME NEW arr, NEW lg, NEW key, NEW E, Sound(arr, lg, key, E),
         NEW k \in Nat, NEW M, \A d \in Cells(lg) : arr[d] \notin M,
         \E c \in Cells(lg) : arr[c] = EMPTY
  PROVE  /\ cellAt(arr, lg, k, M) \in Cells(lg)
         /\ arr[cellAt(arr, lg, k, M)] = EMPTY
         /\ Reaches(arr, lg, k, cellAt(arr, lg, k, M))
<1>1. PICK i \in Cells(lg) :
              /\ probe(k, lg, i) = cellAt(arr, lg, k, M)
              /\ arr[probe(k, lg, i)] = EMPTY \/ arr[probe(k, lg, i)] \in M
              /\ \A j \in Cells(lg) : j < i => arr[probe(k, lg, j)] # EMPTY /\ arr[probe(k, lg, j)] \notin M
  BY SearchEnds
<1>2. probe(k, lg, i) \in Cells(lg)
  BY WalkCovers DEF Sound, Filled
<1>3. Reaches(arr, lg, k, probe(k, lg, i))
  BY <1>1 DEF Reaches
<1>. QED BY <1>1, <1>2, <1>3

\* An entry put where its walk comes, into an empty cell or in place of an entry
\* with its key, leaves every entry to be found.
LEMMA PutKeepsProbed ==
  ASSUME NEW arr, NEW lg, NEW key, NEW E, Sound(arr, lg, key, E), Probed(arr, lg, key),
         NEW e \in E, NEW c \in Cells(lg), Reaches(arr, lg, key[e], c)
  PROVE  Sound([arr EXCEPT ![c] = e], lg, key, E) /\ Probed([arr EXCEPT ![c] = e], lg, key)
<1>. DEFINE new == [arr EXCEPT ![c] = e]
<1>1. new = [d \in Cells(lg) |-> new[d]] /\ \A d \in Cells(lg) : new[d] = IF d = c THEN e ELSE arr[d]
  BY DEF Sound, Filled, IsTable
<1>2. e # EMPTY
  BY DEF Sound, Filled
<1>. HIDE DEF new
<1>3. Sound(new, lg, key, E)
  BY <1>1 DEF Sound, Filled, IsTable
<1>4. \A k \in Nat : \A j \in Cells(lg) : probe(k, lg, j) \in Cells(lg)
  BY WalkCovers DEF Sound, Filled
<1>5. ASSUME NEW k \in Nat, NEW d, Reaches(arr, lg, k, d) PROVE Reaches(new, lg, k, d)
  BY <1>1, <1>2, <1>4, <1>5 DEF Reaches
<1>6. ASSUME NEW d \in Cells(lg), new[d] # EMPTY PROVE Reaches(new, lg, key[new[d]], d)
  <2>1. \A x \in E : key[x] \in Nat
    BY DEF Sound, Filled
  <2>2. CASE d = c
    BY <1>1, <1>5, <2>1, <2>2
  <2>3. CASE d # c
    <3>1. new[d] = arr[d] /\ arr[d] \in E
      BY <1>1, <1>6, <2>3 DEF Sound, Filled, IsTable
    <3>. QED BY <1>5, <1>6, <2>1, <3>1 DEF Probed
  <2>. QED BY <2>2, <2>3
<1>7. Probed(new, lg, key)
  BY <1>6 DEF Probed
<1>. QED BY <1>3, <1>7 DEF new

----------------------------------------------------------------------------
(* What a table holds. *)

\* A table holds a finite number of entries, one per cell in use.
LEMMA HeldCount ==
  ASSUME NEW arr, NEW lg, NEW key, NEW E, Filled(arr, lg, E), Distinct(arr, lg, key)
  PROVE  /\ Entered(arr, lg) \subseteq E
         /\ IsFiniteSet(InUse(arr, lg)) /\ IsFiniteSet(Entered(arr, lg))
         /\ Cardinality(InUse(arr, lg)) = Cardinality(Entered(arr, lg))
         /\ Cardinality(Entered(arr, lg)) \in Nat
         /\ (\A c \in Cells(lg) : arr[c] # EMPTY) => Cardinality(Entered(arr, lg)) = 2 ^ lg
<1>. DEFINE U == InUse(arr, lg)
            H == Entered(arr, lg)
            f == [c \in U |-> arr[c]]
<1>1. 2 ^ lg \in Nat \ {0}
  BY DEF Filled, Powers
<1>2. IsFiniteSet(Cells(lg)) /\ Cardinality(Cells(lg)) = 2 ^ lg
  <2>. DEFINE n == 2 ^ lg
  <2>1. n \in Nat \ {0} /\ Cells(lg) = 0 .. n - 1
    BY <1>1 DEF Cells
  <2>. HIDE DEF n
  <2>2. IsFiniteSet(0 .. n - 1) /\ Cardinality(0 .. n - 1) = n
    <3>1. n - 1 \in Int /\ 0 \in Int /\ ~ (0 > n - 1) /\ n - 1 - 0 + 1 = n
      BY <2>1
    <3>2. Cardinality(0 .. n - 1) = n - 1 - 0 + 1
      BY <3>1, FS_Interval
    <3>. QED BY <3>1, <3>2, FS_Interval
  <2>. QED BY <2>1, <2>2 DEF n
<1>3. U \subseteq Cells(lg) /\ H \subseteq E
  BY DEF InUse, Entered, Filled, IsTable
<1>4. IsFiniteSet(U)
  BY <1>2, <1>3, FS_Subset
<1>5. f \in Bijection(U, H)
  <2>1. f \in [U -> H] /\ (\A a, b \in U : f[a] = f[b] => a = b) /\ \A e \in H : \E a \in U : f[a] = e
    BY DEF Entered, Distinct
  <2>. HIDE DEF f, U, H
  <2>. QED BY <2>1, Fun_IsBij
<1>6. IsFiniteSet(H) /\ Cardinality(H) = Cardinality(U)
  <2>1. ExistsBijection(U, H)
    BY <1>5 DEF ExistsBijection
  <2>. HIDE DEF U, H
  <2>. QED BY <1>4, <2>1, FS_Bijection
<1>7. Cardinality(H) \in Nat
  BY <1>6, FS_CardinalityType
<1>8. (\A c \in Cells(lg) : arr[c] # EMPTY) => U = Cells(lg)
  BY DEF InUse
<1>. QED BY <1>2, <1>3, <1>4, <1>6, <1>7, <1>8

\* A table with fewer entries than cells has an empty one.
LEMMA Room ==
  ASSUME NEW arr, NEW lg, NEW key, NEW E, Filled(arr, lg, E), Distinct(arr, lg, key),
         Cardinality(Entered(arr, lg)) # 2 ^ lg
  PROVE  \E c \in Cells(lg) : arr[c] = EMPTY
BY HeldCount

\* An entry with a new key in an empty cell is one more.
LEMMA OneMore ==
  ASSUME NEW arr, NEW lg, NEW key, NEW E, Filled(arr, lg, E), Distinct(arr, lg, key),
         NEW e \in E, NEW c \in Cells(lg), arr[c] = EMPTY,
         \A x \in Entered(arr, lg) : key[x] # key[e]
  PROVE  /\ Distinct([arr EXCEPT ![c] = e], lg, key)
         /\ Entered([arr EXCEPT ![c] = e], lg) = Entered(arr, lg) \union {e}
<1>. DEFINE new == [arr EXCEPT ![c] = e]
<1>1. \A d \in Cells(lg) : new[d] = IF d = c THEN e ELSE arr[d]
  BY DEF Filled, IsTable
<1>2. e # EMPTY
  BY DEF Filled
<1>. HIDE DEF new
<1>3. InUse(new, lg) = InUse(arr, lg) \union {c}
  BY <1>1, <1>2 DEF InUse
<1>4. \A d \in InUse(arr, lg) : d # c /\ new[d] = arr[d] /\ arr[d] \in Entered(arr, lg)
  BY <1>1 DEF InUse, Entered
<1>5. new[c] = e
  BY <1>1
<1>6. Entered(new, lg) = Entered(arr, lg) \union {e}
  <2>1. ASSUME NEW x \in Entered(new, lg) PROVE x \in Entered(arr, lg) \union {e}
    <3>1. PICK d \in InUse(new, lg) : x = new[d]
      BY DEF Entered
    <3>. QED BY <1>3, <1>4, <1>5, <3>1
  <2>2. ASSUME NEW x \in Entered(arr, lg) PROVE x \in Entered(new, lg)
    <3>1. PICK d \in InUse(arr, lg) : x = arr[d]
      BY DEF Entered
    <3>. QED BY <1>3, <1>4, <3>1 DEF Entered
  <2>3. e \in Entered(new, lg)
    BY <1>3, <1>5 DEF Entered
  <2>. QED BY <2>1, <2>2, <2>3
<1>7. Distinct(new, lg, key)
  BY <1>3, <1>4, <1>5 DEF Distinct
<1>. QED BY <1>6, <1>7 DEF new

\* An entry in place of the one with its key.
LEMMA Exchanged ==
  ASSUME NEW arr, NEW lg, NEW key, NEW E, Filled(arr, lg, E), Distinct(arr, lg, key),
         NEW e \in E, NEW c \in Cells(lg), arr[c] # EMPTY, key[arr[c]] = key[e]
  PROVE  /\ Distinct([arr EXCEPT ![c] = e], lg, key)
         /\ Entered([arr EXCEPT ![c] = e], lg) = {x \in Entered(arr, lg) : key[x] # key[e]} \union {e}
         /\ Cardinality(Entered([arr EXCEPT ![c] = e], lg)) = Cardinality(Entered(arr, lg))
<1>. DEFINE new == [arr EXCEPT ![c] = e]
<1>0. new = [d \in Cells(lg) |-> new[d]] /\ \A d \in Cells(lg) : new[d] = IF d = c THEN e ELSE arr[d]
  BY DEF Filled, IsTable
<1>2. e # EMPTY
  BY DEF Filled
<1>. HIDE DEF new
<1>3. InUse(new, lg) = InUse(arr, lg) /\ c \in InUse(arr, lg)
  BY <1>0, <1>2 DEF InUse
<1>4. \A d \in InUse(arr, lg) : new[d] = IF d = c THEN e ELSE arr[d]
  BY <1>0 DEF InUse
<1>5. Distinct(new, lg, key)
  BY <1>3, <1>4 DEF Distinct
<1>6. Entered(new, lg) = {x \in Entered(arr, lg) : key[x] # key[e]} \union {e}
  <2>1. ASSUME NEW x \in Entered(new, lg), x # e PROVE x \in Entered(arr, lg) /\ key[x] # key[e]
    <3>1. PICK d \in InUse(arr, lg) : x = new[d]
      BY <1>3 DEF Entered
    <3>2. d # c /\ x = arr[d]
      BY <1>4, <2>1, <3>1
    <3>. QED BY <1>3, <3>2 DEF Entered, Distinct
  <2>2. ASSUME NEW x \in Entered(arr, lg), key[x] # key[e] PROVE x \in Entered(new, lg)
    <3>1. PICK d \in InUse(arr, lg) : x = arr[d]
      BY DEF Entered
    <3>2. d # c
      BY <2>2, <3>1
    <3>. QED BY <1>3, <1>4, <3>1, <3>2 DEF Entered
  <2>3. e \in Entered(new, lg)
    BY <1>3, <1>4 DEF Entered
  <2>. QED BY <2>1, <2>2, <2>3
<1>7. Cardinality(Entered(new, lg)) = Cardinality(Entered(arr, lg))
  <2>1. Filled(new, lg, E)
    BY <1>0 DEF Filled, IsTable
  <2>2. Cardinality(InUse(new, lg)) = Cardinality(Entered(new, lg))
    BY <1>5, <2>1, HeldCount
  <2>3. Cardinality(InUse(arr, lg)) = Cardinality(Entered(arr, lg))
    BY HeldCount
  <2>. QED BY <1>3, <2>2, <2>3
<1>. QED BY <1>5, <1>6, <1>7 DEF new

----------------------------------------------------------------------------
(* The scan of a table. *)

\* One entry more.
LEMMA Appended ==
  ASSUME NEW s, NEW H, NEW key, NEW E, Lists(s, H, key, E),
         NEW e \in E, \A x \in H : key[x] # key[e]
  PROVE  Lists(Append(s, e), H \union {e}, key, E)
<1>. DEFINE t == Append(s, e)
<1>1. s \in Seq(E) /\ Len(s) \in Nat /\ \A i \in 1 .. Len(s) : s[i] \in H
  BY DEF Lists, ElementsOf
<1>2. t \in Seq(E) /\ Len(t) = Len(s) + 1
  BY <1>1
<1>3. t[Len(s) + 1] = e /\ \A i \in 1 .. Len(s) : t[i] = s[i]
  BY <1>1
<1>. HIDE DEF t
<1>4. 1 .. Len(t) = 1 .. Len(s) \union {Len(s) + 1}
  BY <1>1, <1>2
<1>5. ElementsOf(t) = H \union {e}
  <2>1. ASSUME NEW x \in ElementsOf(t) PROVE x \in H \union {e}
    BY <1>1, <1>3, <1>4 DEF ElementsOf
  <2>2. ASSUME NEW x \in H PROVE x \in ElementsOf(t)
    <3>1. PICK j \in 1 .. Len(s) : x = s[j]
      BY DEF Lists, ElementsOf
    <3>. QED BY <1>3, <1>4, <3>1 DEF ElementsOf
  <2>3. e \in ElementsOf(t)
    BY <1>3, <1>4 DEF ElementsOf
  <2>. QED BY <2>1, <2>2, <2>3
<1>6. ASSUME NEW i \in 1 .. Len(t), NEW j \in 1 .. Len(t), key[t[i]] = key[t[j]]
      PROVE  i = j
  BY <1>1, <1>3, <1>4, <1>6 DEF Lists
<1>. QED BY <1>2, <1>5, <1>6 DEF Lists, t

\* The scan of a sequence of cells with distinct keys.
LEMMA Scanned ==
  ASSUME NEW q, NEW n \in Nat, DOMAIN q = 1 .. n, NEW key, NEW E, EMPTY \notin E,
         \A i \in 1 .. n : q[i] \in E \union {EMPTY},
         \A i, j \in 1 .. n : q[i] # EMPTY /\ q[j] # EMPTY /\ key[q[i]] = key[q[j]] => i = j
  PROVE  Lists(valid(q), {q[i] : i \in 1 .. n} \ {EMPTY}, key, E)
<1>. DEFINE p == [key |-> key, E |-> E]
<1>0. p.key = key /\ p.E = E
  OBVIOUS
<1>. HIDE DEF p
<1>1. valid(q) = Collects!Left(p, q, <<>>, n)
  BY DEF valid, FoldLeft, MapThenFoldSet, Max, Collects!Left, Collects!Fold,
         Collects!MapThenFoldSet, collecting, lastOf
<1>2. Collects!ChoosesLast
  BY DEF Collects!ChoosesLast, lastOf
<1>3. Collects!Preserves(p, q, n)
  <2>. DEFINE upTo(i) == {q[j] : j \in 1 .. i} \ {EMPTY}
  <2>1. ASSUME NEW i \in 1 .. n, NEW acc, Lists(acc, upTo(i - 1), key, E)
        PROVE  Lists(collecting(p, q, i, acc), upTo(i), key, E)
    <3>1. 1 .. i = 1 .. (i - 1) \union {i} /\ i \notin 1 .. (i - 1)
      OBVIOUS
    <3>2. CASE q[i] = EMPTY
      <4>1. upTo(i) = upTo(i - 1)
        BY <3>1, <3>2
      <4>2. collecting(p, q, i, acc) = acc
        BY <3>2 DEF collecting
      <4>. HIDE DEF upTo
      <4>. QED BY <2>1, <4>1, <4>2
    <3>3. CASE q[i] # EMPTY
      <4>1. upTo(i) = upTo(i - 1) \union {q[i]}
        BY <3>1, <3>3
      <4>2. collecting(p, q, i, acc) = Append(acc, q[i])
        BY <3>3 DEF collecting
      <4>3. \A x \in upTo(i - 1) : key[x] # key[q[i]]
        <5>1. ASSUME NEW j \in 1 .. (i - 1), q[j] # EMPTY PROVE key[q[j]] # key[q[i]]
          <6>1. j \in 1 .. n /\ j # i
            OBVIOUS
          <6>. QED BY <3>3, <5>1, <6>1
        <5>. QED BY <5>1
      <4>4. q[i] \in E
        BY <3>3
      <4>. HIDE DEF upTo
      <4>. QED BY <2>1, <4>1, <4>2, <4>3, <4>4, Appended
    <3>. QED BY <3>2, <3>3
  <2>. QED BY <1>0, <2>1 DEF Collects!Preserves, collected
<1>4. collected(p, q, 0, <<>>)
  <2>1. {q[i] : i \in 1 .. 0} \ {EMPTY} = {} /\ ElementsOf(<<>>) = {} /\ <<>> \in Seq(E)
    BY DEF ElementsOf
  <2>. QED BY <1>0, <2>1 DEF collected, Lists
<1>5. collected(p, q, n, Collects!Left(p, q, <<>>, n))
  BY <1>2, <1>3, <1>4, Collects!LeftKeeps
<1>. QED BY <1>0, <1>1, <1>5 DEF collected

\* ... and of a table.
LEMMA EntriesAreHeld ==
  ASSUME NEW arr, NEW lg, NEW key, NEW E, Filled(arr, lg, E), Distinct(arr, lg, key)
  PROVE  Lists(Entries(arr, lg), Entered(arr, lg), key, E)
<1>. DEFINE n == 2 ^ lg
            q == [i \in 1 .. n |-> arr[i - 1]]
<1>1. n \in Nat \ {0} /\ Cells(lg) = 0 .. n - 1
  BY DEF Filled, Powers, Cells
<1>2. EMPTY \notin E /\ \A c \in Cells(lg) : arr[c] \in E \union {EMPTY}
  BY DEF Filled, IsTable
<1>3. Entries(arr, lg) = valid(q)
  BY DEF Entries
<1>. HIDE DEF n
<1>4. \A i \in 1 .. n : i - 1 \in Cells(lg) /\ q[i] = arr[i - 1]
  BY <1>1
<1>5. DOMAIN q = 1 .. n
  OBVIOUS
<1>. HIDE DEF q
<1>6. \A i, j \in 1 .. n : q[i] # EMPTY /\ q[j] # EMPTY /\ key[q[i]] = key[q[j]] => i = j
  <2>1. ASSUME NEW i \in 1 .. n, NEW j \in 1 .. n, q[i] # EMPTY, q[j] # EMPTY, key[q[i]] = key[q[j]]
        PROVE  i = j
    <3>1. i - 1 = j - 1
      BY <1>4, <2>1 DEF Distinct, InUse
    <3>. QED BY <3>1
  <2>. QED BY <2>1
<1>7. Lists(valid(q), {q[i] : i \in 1 .. n} \ {EMPTY}, key, E)
  BY <1>1, <1>2, <1>4, <1>5, <1>6, Scanned
<1>8. {q[i] : i \in 1 .. n} \ {EMPTY} = Entered(arr, lg)
  <2>1. ASSUME NEW i \in 1 .. n, q[i] # EMPTY PROVE q[i] \in Entered(arr, lg)
    BY <1>4, <2>1 DEF Entered, InUse
  <2>2. ASSUME NEW x \in Entered(arr, lg) PROVE x # EMPTY /\ \E i \in 1 .. n : x = q[i]
    <3>1. PICK c \in Cells(lg) : x = arr[c] /\ x # EMPTY
      BY DEF Entered, InUse
    <3>2. c + 1 \in 1 .. n /\ (c + 1) - 1 = c
      BY <1>1
    <3>3. q[c + 1] = arr[c]
      BY <1>4, <3>2
    <3>. QED BY <3>1, <3>2, <3>3
  <2>. QED BY <2>1, <2>2
<1>. QED BY <1>3, <1>7, <1>8

----------------------------------------------------------------------------
(* The map. *)

Entry  == Slots \X Values
slotOf == [e \in Entry |-> e[1]]

MapFields == {"auxIntArr", "lgAuxArrInts", "auxCount"}

\* The entries of m.
HeldBy(m) == Entered(m.auxIntArr, m.lgAuxArrInts)

\* A table in which every entry is found, and none twice.
IsMap(m) ==
  /\ m = [f \in MapFields |-> m[f]]
  /\ Sound(m.auxIntArr, m.lgAuxArrInts, slotOf, Entry)
  /\ Probed(m.auxIntArr, m.lgAuxArrInts, slotOf)
  /\ Distinct(m.auxIntArr, m.lgAuxArrInts, slotOf)

\* Its count is right and leaves room.
Counted(m) ==
  /\ m.auxCount = Cardinality(HeldBy(m))
  /\ ~ overloaded(m.auxCount, m.lgAuxArrInts)
  /\ LgInit <= m.lgAuxArrInts

MaxLg == LgInit + Cardinality(Slots)

\* The inductive invariant.  A doubling takes an entry that was added.
IInv ==
  /\ IsMap(aux) /\ Counted(aux)
  /\ aux.lgAuxArrInts <= LgInit + aux.auxCount

Taken(m, s) == \E e \in HeldBy(m) : e[1] = s

\* An entry is its slot and its value, never EMPTY; the key of an entry is its slot.
LEMMA EntriesHaveSlots ==
  /\ EMPTY \notin Entry
  /\ \A e \in Entry : slotOf[e] = e[1] /\ e[1] \in Slots /\ e[1] \in Nat /\ e[2] \in Values
                      /\ e = <<e[1], e[2]>>
  /\ slotOf = [e \in Entry |-> slotOf[e]]
<1>1. \A e \in Entry : slotOf[e] = e[1]
  BY DEF slotOf
<1>2. \A e \in Entry : e[1] \in Slots /\ e[2] \in Values /\ e = <<e[1], e[2]>>
  BY DEF Entry
<1>3. EMPTY \notin Entry
  BY DEF Entry, EMPTY
<1>4. slotOf = [e \in Entry |-> slotOf[e]]
  BY DEF slotOf
<1>. QED BY <1>1, <1>2, <1>3, <1>4, AuxAssumption

\* A table has a size that is allowed for, and at most an entry per slot.
LEMMA HeldAre ==
  ASSUME NEW m, IsMap(m)
  PROVE  /\ HeldBy(m) \subseteq Entry /\ IsFiniteSet(HeldBy(m))
         /\ Cardinality(HeldBy(m)) \in Nat
         /\ \A d, e \in HeldBy(m) : d[1] = e[1] => d = e
<1>1. HeldBy(m) \subseteq Entry /\ IsFiniteSet(HeldBy(m)) /\ Cardinality(HeldBy(m)) \in Nat
  BY HeldCount DEF IsMap, HeldBy, Sound
<1>2. ASSUME NEW d \in HeldBy(m), NEW e \in HeldBy(m), d[1] = e[1] PROVE d = e
  <2>1. slotOf[d] = slotOf[e]
    BY <1>1, <1>2, EntriesHaveSlots
  <2>. QED BY <2>1 DEF IsMap, HeldBy, Entered, Distinct
<1>. QED BY <1>1, <1>2

\* Entries of different slots are at most as many as the slots.
LEMMA AtMostSlots ==
  ASSUME NEW H, H \subseteq Entry, \A d, e \in H : d[1] = e[1] => d = e
  PROVE  /\ IsFiniteSet(H) /\ Cardinality(H) \in Nat /\ Cardinality(H) <= Cardinality(Slots)
         /\ MaxLg \in Nat /\ Cardinality(Slots) \in Nat
<1>. DEFINE f == [e \in H |-> e[1]]
<1>1. f \in [H -> Slots] /\ \A d, e \in H : f[d] = f[e] => d = e
  BY EntriesHaveSlots
<1>. HIDE DEF f
<1>2. f \in Injection(H, Slots)
  BY <1>1, Fun_IsInj
<1>3. IsFiniteSet(H) /\ Cardinality(H) <= Cardinality(Slots)
  BY <1>2, AuxAssumption, FS_Injection
<1>. QED BY <1>3, AuxAssumption, FS_CardinalityType DEF MaxLg

----------------------------------------------------------------------------
(* The calls on a table. *)

Matching(s) == {s} \X Values

\* The search by slot, as the search for a set of entries.
LEMMA FindIs ==
  ASSUME NEW m, IsMap(m), NEW s \in Slots
  PROVE  /\ throws(m, s) <=> StopsAt(m.auxIntArr, m.lgAuxArrInts, s, Matching(s)) = {}
         /\ find(m, s) = cellAt(m.auxIntArr, m.lgAuxArrInts, s, Matching(s))
<1>. DEFINE arr == m.auxIntArr
            lg  == m.lgAuxArrInts
<1>1. s \in Nat
  BY AuxAssumption
<1>2. ASSUME NEW i \in Cells(lg)
      PROVE  (arr[probe(s, lg, i)] = EMPTY \/ arr[probe(s, lg, i)][1] = s)
             <=> (arr[probe(s, lg, i)] = EMPTY \/ arr[probe(s, lg, i)] \in Matching(s))
  <2>1. probe(s, lg, i) \in Cells(lg)
    BY <1>1, WalkCovers DEF IsMap, Sound, Filled
  <2>2. arr[probe(s, lg, i)] \in Entry \union {EMPTY}
    BY <2>1 DEF IsMap, Sound, Filled, IsTable
  <2>3. \A e \in Entry : e[1] = s <=> e \in Matching(s)
    BY EntriesHaveSlots DEF Matching
  <2>. QED BY <2>2, <2>3
<1>3. Stops(arr, lg, s, LAMBDA cell : cell[1] = s) = StopsAt(arr, lg, s, Matching(s))
  BY <1>2 DEF Stops, StopsAt, Cells
<1>. QED BY <1>3 DEF throws, findThrows, find, findCell, cellAt

\* It ends at the slot's entry, or at an empty cell where one can be put.
LEMMA Search ==
  ASSUME NEW m, IsMap(m), NEW s \in Slots,
         Cardinality(HeldBy(m)) # 2 ^ m.lgAuxArrInts
  PROVE  /\ ~ throws(m, s)
         /\ find(m, s) \in Cells(m.lgAuxArrInts)
         /\ Reaches(m.auxIntArr, m.lgAuxArrInts, s, find(m, s))
         /\ \A c \in Cells(m.lgAuxArrInts) :
              m.auxIntArr[c] # EMPTY /\ m.auxIntArr[c][1] = s => find(m, s) = c
         /\ Taken(m, s) => m.auxIntArr[find(m, s)] \in HeldBy(m) /\ m.auxIntArr[find(m, s)] # EMPTY
                           /\ m.auxIntArr[find(m, s)][1] = s
         /\ ~ Taken(m, s) => m.auxIntArr[find(m, s)] = EMPTY
         /\ has(m, s) <=> Taken(m, s)
<1>. DEFINE arr == m.auxIntArr
            lg  == m.lgAuxArrInts
            M   == Matching(s)
<1>0. /\ Sound(arr, lg, slotOf, Entry) /\ Probed(arr, lg, slotOf) /\ Distinct(arr, lg, slotOf)
      /\ s \in Nat
  BY AuxAssumption DEF IsMap
<1>1. \E c \in Cells(lg) : arr[c] = EMPTY
  BY <1>0, Room DEF HeldBy, Sound
<1>2. /\ throws(m, s) <=> StopsAt(arr, lg, s, M) = {}
      /\ find(m, s) = cellAt(arr, lg, s, M)
  BY FindIs
<1>3. ~ throws(m, s)
  BY <1>0, <1>1, <1>2, SearchEnds
<1>4. \A c \in Cells(lg) : (arr[c] \in M) <=> (arr[c] # EMPTY /\ arr[c][1] = s)
  <2>1. ASSUME NEW c \in Cells(lg)
        PROVE  (arr[c] \in M) <=> (arr[c] # EMPTY /\ arr[c][1] = s)
    <3>1. arr[c] \in Entry \union {EMPTY}
      BY <1>0 DEF Sound, Filled, IsTable
    <3>2. \A e \in Entry : (e[1] = s) <=> (e \in M)
      BY EntriesHaveSlots DEF Matching
    <3>3. EMPTY \notin M /\ EMPTY \notin Entry
      BY EntriesHaveSlots DEF Matching, EMPTY
    <3>. QED BY <3>1, <3>2, <3>3
  <2>. QED BY <2>1
<1>5. \A e \in M : e \in Entry /\ slotOf[e] = s
  BY DEF Matching, Entry, slotOf
<1>6. ASSUME NEW c \in Cells(lg), arr[c] # EMPTY, arr[c][1] = s PROVE find(m, s) = c
  <2>1. arr[c] \in M
    BY <1>4, <1>6
  <2>2. \A d \in Cells(lg) : arr[d] \in M => d = c
    <3>1. ASSUME NEW d \in Cells(lg), arr[d] \in M PROVE d = c
      <4>1. slotOf[arr[d]] = s /\ slotOf[arr[c]] = s /\ arr[d] # EMPTY
        BY <1>4, <1>5, <2>1, <3>1
      <4>2. c \in InUse(arr, lg) /\ d \in InUse(arr, lg)
        BY <1>6, <4>1 DEF InUse
      <4>. QED BY <1>0, <4>1, <4>2 DEF Distinct
    <3>. QED BY <3>1
  <2>3. cellAt(arr, lg, s, M) = c
    BY <1>0, <1>5, <2>1, <2>2, SearchFinds
  <2>. QED BY <1>2, <2>3
<1>7. CASE Taken(m, s)
  <2>1. PICK c \in Cells(lg) : arr[c] # EMPTY /\ arr[c][1] = s
    BY <1>7 DEF Taken, HeldBy, Entered, InUse
  <2>2. find(m, s) = c
    BY <1>6, <2>1
  <2>3. Reaches(arr, lg, s, c)
    <3>1. slotOf[arr[c]] = s
      BY <1>4, <1>5, <2>1
    <3>. QED BY <1>0, <2>1, <3>1 DEF Probed
  <2>4. arr[c] \in HeldBy(m)
    BY <2>1 DEF HeldBy, Entered, InUse
  <2>. QED BY <1>3, <1>6, <1>7, <2>1, <2>2, <2>3, <2>4 DEF has
<1>8. CASE ~ Taken(m, s)
  <2>1. \A d \in Cells(lg) : arr[d] \notin M
    BY <1>4, <1>8 DEF Taken, HeldBy, Entered, InUse
  <2>2. /\ cellAt(arr, lg, s, M) \in Cells(lg)
        /\ arr[cellAt(arr, lg, s, M)] = EMPTY
        /\ Reaches(arr, lg, s, cellAt(arr, lg, s, M))
    BY <1>0, <1>1, <2>1, SearchMisses
  <2>. QED BY <1>2, <1>3, <1>6, <1>8, <2>2 DEF has
<1>. QED BY <1>7, <1>8

\* The entries after s was bound to v.
Rebound(H, s, v) == {e \in H : e[1] # s} \union {<<s, v>>}

\* An entry put where the search ended.
LEMMA PutIs ==
  ASSUME NEW m, IsMap(m), NEW s \in Slots, NEW v \in Values,
         Cardinality(HeldBy(m)) # 2 ^ m.lgAuxArrInts
  PROVE  /\ IsMap(put(m, s, v))
         /\ put(m, s, v).lgAuxArrInts = m.lgAuxArrInts /\ put(m, s, v).auxCount = m.auxCount
         /\ HeldBy(put(m, s, v)) = Rebound(HeldBy(m), s, v)
         /\ Cardinality(HeldBy(put(m, s, v)))
              = IF Taken(m, s) THEN Cardinality(HeldBy(m)) ELSE Cardinality(HeldBy(m)) + 1
<1>. DEFINE arr == m.auxIntArr
            lg  == m.lgAuxArrInts
            c   == find(m, s)
            e   == <<s, v>>
            new == [arr EXCEPT ![c] = e]
            n   == put(m, s, v)
<1>1. /\ Sound(arr, lg, slotOf, Entry) /\ Probed(arr, lg, slotOf) /\ Distinct(arr, lg, slotOf)
  BY DEF IsMap
<1>2. /\ c \in Cells(lg) /\ Reaches(arr, lg, s, c)
      /\ Taken(m, s) => arr[c] \in HeldBy(m) /\ arr[c] # EMPTY /\ arr[c][1] = s
      /\ ~ Taken(m, s) => arr[c] = EMPTY
  BY Search
<1>3. e \in Entry /\ slotOf[e] = s /\ e[1] = s
  BY DEF Entry, slotOf
<1>4. /\ n = [f \in MapFields |-> n[f]]
      /\ n.auxIntArr = new /\ n.lgAuxArrInts = lg /\ n.auxCount = m.auxCount
  <2>. HIDE DEF c
  <2>. QED BY DEF put, IsMap, MapFields, c
<1>5. HeldBy(m) \subseteq Entry /\ IsFiniteSet(HeldBy(m))
  BY HeldAre
<1>6. \A x \in HeldBy(m) : slotOf[x] = x[1]
  BY <1>5, EntriesHaveSlots
<1>. HIDE DEF c, n, e
<1>7. Sound(new, lg, slotOf, Entry) /\ Probed(new, lg, slotOf)
  BY <1>1, <1>2, <1>3, PutKeepsProbed
<1>8. CASE Taken(m, s)
  <2>1. slotOf[arr[c]] = slotOf[e] /\ arr[c] # EMPTY
    BY <1>2, <1>3, <1>6, <1>8
  <2>2. /\ Distinct(new, lg, slotOf)
        /\ Entered(new, lg) = {x \in Entered(arr, lg) : slotOf[x] # slotOf[e]} \union {e}
        /\ Cardinality(Entered(new, lg)) = Cardinality(Entered(arr, lg))
    BY <1>1, <1>2, <1>3, <2>1, Exchanged DEF Sound
  <2>3. {x \in Entered(arr, lg) : slotOf[x] # slotOf[e]} = {x \in HeldBy(m) : x[1] # s}
    BY <1>3, <1>6 DEF HeldBy
  <2>. QED BY <1>4, <1>7, <1>8, <2>2, <2>3 DEF IsMap, HeldBy, Rebound, n, e
<1>9. CASE ~ Taken(m, s)
  <2>1. \A x \in Entered(arr, lg) : slotOf[x] # slotOf[e]
    BY <1>3, <1>6, <1>9 DEF HeldBy, Taken
  <2>2. arr[c] = EMPTY
    BY <1>2, <1>9
  <2>3. Distinct(new, lg, slotOf) /\ Entered(new, lg) = Entered(arr, lg) \union {e}
    BY <1>1, <1>2, <1>3, <2>1, <2>2, OneMore DEF Sound
  <2>4. {x \in HeldBy(m) : x[1] # s} = HeldBy(m)
    BY <1>9 DEF Taken
  <2>5. e \notin HeldBy(m)
    BY <1>3, <1>9 DEF Taken
  <2>6. Cardinality(HeldBy(m) \union {e}) = Cardinality(HeldBy(m)) + 1
    BY <1>5, <2>5, FS_AddElement
  <2>. QED BY <1>4, <1>7, <1>9, <2>3, <2>4, <2>6 DEF IsMap, HeldBy, Rebound, n, e
<1>. QED BY <1>8, <1>9

\* A new table.
LEMMA NewIs ==
  ASSUME NEW lg \in Nat, lg <= MaxLg, NEW count
  PROVE  LET m == [newMap(lg) EXCEPT !.auxCount = count]
         IN  IsMap(m) /\ HeldBy(m) = {} /\ m.lgAuxArrInts = lg /\ m.auxCount = count
<1>. DEFINE m == [newMap(lg) EXCEPT !.auxCount = count]
<1>1. /\ m = [f \in MapFields |-> m[f]]
      /\ m.auxIntArr = EmptyTable(lg) /\ m.lgAuxArrInts = lg /\ m.auxCount = count
  BY DEF newMap, MapFields
<1>. HIDE DEF m
<1>2. Powers(lg)
  <2>1. Cardinality(Slots) \in Nat /\ LgInit \in Nat
    BY AuxAssumption, FS_CardinalityType
  <2>2. \A n \in 0 .. lg : n \in 0 .. MaxLg
    BY <2>1 DEF MaxLg
  <2>3. Powers(MaxLg)
    BY AuxAssumption DEF MaxLg
  <2>. QED BY <2>2, <2>3 DEF Powers
<1>3. Sound(EmptyTable(lg), lg, slotOf, Entry)
  BY <1>2, EntriesHaveSlots DEF Sound, Filled, IsTable, EmptyTable
<1>4. InUse(EmptyTable(lg), lg) = {}
  BY DEF InUse, EmptyTable
<1>5. Entered(EmptyTable(lg), lg) = {} /\ Distinct(EmptyTable(lg), lg, slotOf)
      /\ Probed(EmptyTable(lg), lg, slotOf)
  BY <1>4 DEF Entered, Distinct, Probed, InUse
<1>. QED BY <1>1, <1>3, <1>5 DEF IsMap, HeldBy, m

----------------------------------------------------------------------------
(* Growing. *)

\* What growing makes of q, the entries of p, after n of them were inserted.
moving(p, q, i, acc) == put(acc, q[i][1], q[i][2])

movedUpTo(p, q, n, acc) ==
  /\ IsMap(acc) /\ acc.lgAuxArrInts = p.lgAuxArrInts /\ acc.auxCount = p.auxCount
  /\ HeldBy(acc) = {q[j] : j \in 1 .. n}

Moves == INSTANCE FoldTheorems WITH step <- moving, choose <- lastOf, Good <- movedUpTo

\* The first n of a list of entries.
LEMMA FirstOf ==
  ASSUME NEW q, NEW H, Lists(q, H, slotOf, Entry), NEW i \in 1 .. Len(q)
  PROVE  LET P == {q[j] : j \in 1 .. (i - 1)}
         IN  /\ q[i] \in H /\ q[i] \in Entry /\ P \subseteq H
             /\ {q[j] : j \in 1 .. i} = P \union {q[i]}
             /\ \A e \in P : e[1] # q[i][1]
<1>. DEFINE P == {q[j] : j \in 1 .. (i - 1)}
<1>1. q \in Seq(Entry) /\ Len(q) \in Nat /\ ElementsOf(q) = H
  BY DEF Lists
<1>2. i \in Nat /\ 1 .. i = 1 .. (i - 1) \union {i} /\ \A j \in 1 .. (i - 1) : j \in 1 .. Len(q) /\ j # i
  BY <1>1
<1>3. \A j \in 1 .. Len(q) : q[j] \in H /\ q[j] \in Entry
  BY <1>1 DEF ElementsOf
<1>4. ASSUME NEW j \in 1 .. (i - 1) PROVE q[j][1] # q[i][1]
  <2>1. slotOf[q[j]] # slotOf[q[i]]
    BY <1>2 DEF Lists
  <2>. QED BY <1>2, <1>3, <2>1, EntriesHaveSlots
<1>5. {q[j] : j \in 1 .. i} = P \union {q[i]}
  BY <1>2
<1>. QED BY <1>2, <1>3, <1>4, <1>5

\* A new entry for one that is not there.
LEMMA ReboundAnew ==
  ASSUME NEW H, NEW e \in Entry, \A x \in H : x[1] # e[1]
  PROVE  Rebound(H, e[1], e[2]) = H \union {e}
BY EntriesHaveSlots DEF Rebound

\* The table of another size holds the same entries.
LEMMA MovedIs ==
  ASSUME NEW m, IsMap(m), NEW lg \in Nat, lg <= MaxLg,
         Cardinality(HeldBy(m)) < 2 ^ lg, 2 ^ lg \in Nat
  PROVE  /\ IsMap(moved(m, lg)) /\ HeldBy(moved(m, lg)) = HeldBy(m)
         /\ moved(m, lg).lgAuxArrInts = lg /\ moved(m, lg).auxCount = m.auxCount
<1>. DEFINE b == [newMap(lg) EXCEPT !.auxCount = m.auxCount]
            q == Entries(m.auxIntArr, m.lgAuxArrInts)
            n == Len(q)
            H == HeldBy(m)
<1>1. IsMap(b) /\ HeldBy(b) = {} /\ b.lgAuxArrInts = lg /\ b.auxCount = m.auxCount
  BY NewIs
<1>2. Lists(q, H, slotOf, Entry)
  BY EntriesAreHeld DEF IsMap, HeldBy, Sound
<1>3. IsFiniteSet(H) /\ Cardinality(H) \in Nat
  BY HeldAre
<1>4. moved(m, lg) = FoldLeft(LAMBDA acc, e : put(acc, e[1], e[2]), b, q)
  BY DEF moved
<1>. HIDE DEF b, q, H
<1>5. n \in Nat /\ DOMAIN q = 1 .. n /\ ElementsOf(q) = H
  BY <1>2 DEF Lists
<1>6. moved(m, lg) = Moves!Left(b, q, b, n)
  BY <1>4, <1>5 DEF FoldLeft, MapThenFoldSet, Max, Moves!Left, Moves!Fold,
         Moves!MapThenFoldSet, moving, lastOf
<1>7. Moves!ChoosesLast
  BY DEF Moves!ChoosesLast, lastOf
<1>. HIDE DEF n
<1>8. Moves!Preserves(b, q, n)
  <2>1. ASSUME NEW i \in 1 .. n, NEW acc, movedUpTo(b, q, i - 1, acc)
        PROVE  movedUpTo(b, q, i, moving(b, q, i, acc))
    <3>. DEFINE P == {q[j] : j \in 1 .. (i - 1)}
    <3>1. /\ q[i] \in Entry /\ q[i] \in H /\ P \subseteq H
          /\ {q[j] : j \in 1 .. i} = P \union {q[i]}
          /\ \A e \in P : e[1] # q[i][1]
      BY <1>2, FirstOf DEF n
    <3>2. IsMap(acc) /\ HeldBy(acc) = P /\ acc.lgAuxArrInts = lg /\ acc.auxCount = b.auxCount
      BY <1>1, <2>1 DEF movedUpTo
    <3>. HIDE DEF P
    <3>3. Cardinality(P) # 2 ^ acc.lgAuxArrInts
      <4>1. Cardinality(P) <= Cardinality(H) /\ Cardinality(P) \in Nat
        BY <1>3, <3>1, FS_Subset, FS_CardinalityType
      <4>. QED BY <1>3, <3>2, <4>1 DEF H
    <3>4. q[i][1] \in Slots /\ q[i][2] \in Values
      BY <3>1, EntriesHaveSlots
    <3>. DEFINE new == put(acc, q[i][1], q[i][2])
    <3>5. /\ IsMap(new) /\ new.lgAuxArrInts = lg /\ new.auxCount = b.auxCount
          /\ HeldBy(new) = Rebound(P, q[i][1], q[i][2])
      BY <3>2, <3>3, <3>4, PutIs
    <3>6. HeldBy(new) = P \union {q[i]}
      BY <3>1, <3>5, ReboundAnew
    <3>. HIDE DEF new
    <3>7. HeldBy(new) = {q[j] : j \in 1 .. i}
      BY <3>1, <3>6
    <3>. QED BY <1>1, <3>5, <3>7 DEF movedUpTo, moving, new
  <2>. QED BY <2>1 DEF Moves!Preserves
<1>9. movedUpTo(b, q, 0, b)
  <2>1. {q[j] : j \in 1 .. 0} = {}
    OBVIOUS
  <2>. QED BY <1>1, <2>1 DEF movedUpTo
<1>10. movedUpTo(b, q, n, Moves!Left(b, q, b, n))
  BY <1>5, <1>7, <1>8, <1>9, Moves!LeftKeeps
<1>11. {q[j] : j \in 1 .. n} = H
  BY <1>5 DEF ElementsOf, n
<1>. QED BY <1>1, <1>6, <1>10, <1>11 DEF movedUpTo, H

----------------------------------------------------------------------------
(* Adding. *)

\* The numbers of cells that the table may come to have.
LEMMA SizesAre ==
  ASSUME NEW lg \in Nat, lg <= MaxLg
  PROVE  /\ 2 ^ lg \in Nat \ {0} /\ 2 ^ (lg + 1) = 2 * 2 ^ lg
         /\ LgInit <= lg => 2 ^ lg >= 2
<1>0. Cardinality(Slots) \in Nat /\ LgInit \in Nat \ {0} /\ MaxLg \in Nat /\ Powers(MaxLg)
  BY AuxAssumption, FS_CardinalityType DEF MaxLg
<1>1. 2 ^ lg \in Nat \ {0} /\ 2 ^ (lg + 1) = 2 * 2 ^ lg
  BY <1>0 DEF Powers
<1>2. 2 ^ lg >= lg + 1
  BY <1>0, PowersExceed
<1>. QED BY <1>0, <1>1, <1>2

\* An addition makes one entry more, and room for the next.
LEMMA AddedIs ==
  ASSUME NEW m, IsMap(m), Counted(m), m.lgAuxArrInts <= MaxLg,
         NEW s \in Slots, NEW v \in Values, ~ Taken(m, s),
         overloaded(m.auxCount + 1, m.lgAuxArrInts) => m.lgAuxArrInts + 1 <= MaxLg
  PROVE  /\ IsMap(added(m, s, v)) /\ Counted(added(m, s, v))
         /\ HeldBy(added(m, s, v)) = Rebound(HeldBy(m), s, v)
         /\ added(m, s, v).auxCount = m.auxCount + 1
         /\ added(m, s, v).lgAuxArrInts = IF overloaded(m.auxCount + 1, m.lgAuxArrInts)
                                           THEN m.lgAuxArrInts + 1 ELSE m.lgAuxArrInts
<1>. DEFINE lg  == m.lgAuxArrInts
            cnt == m.auxCount
            n   == [put(m, s, v) EXCEPT !.auxCount = @ + 1]
            H   == Rebound(HeldBy(m), s, v)
<1>1. lg \in Nat /\ LgInit \in Nat /\ LgInit <= lg /\ cnt \in Nat /\ cnt = Cardinality(HeldBy(m))
      /\ ~ overloaded(cnt, lg)
  BY AuxAssumption, HeldAre DEF IsMap, Sound, Filled, Counted
<1>2. 2 ^ lg \in Nat \ {0} /\ 2 ^ (lg + 1) = 2 * 2 ^ lg /\ 2 ^ lg >= 2
  BY <1>1, SizesAre
<1>3. cnt < 2 ^ lg
  BY <1>1, <1>2 DEF overloaded
<1>4. ~ throws(m, s) /\ ~ has(m, s)
  BY <1>1, <1>3, Search
<1>5. added(m, s, v) = IF overloaded(n.auxCount, n.lgAuxArrInts) THEN moved(n, n.lgAuxArrInts + 1) ELSE n
  BY <1>4 DEF added, checkGrow, growAuxSpace
<1>6. /\ IsMap(n) /\ n.lgAuxArrInts = lg /\ n.auxCount = cnt + 1 /\ HeldBy(n) = H
      /\ Cardinality(H) = cnt + 1
  <2>. DEFINE p == put(m, s, v)
  <2>1. /\ IsMap(p) /\ p.lgAuxArrInts = lg /\ p.auxCount = cnt /\ HeldBy(p) = H
        /\ Cardinality(H) = cnt + 1
    BY <1>1, <1>3, PutIs
  <2>. HIDE DEF p, H
  <2>2. /\ n = [f \in MapFields |-> n[f]]
        /\ n.auxIntArr = p.auxIntArr /\ n.lgAuxArrInts = p.lgAuxArrInts /\ n.auxCount = cnt + 1
    <3>1. n = [p EXCEPT !.auxCount = @ + 1]
      BY DEF p
    <3>. HIDE DEF n
    <3>. QED BY <2>1, <3>1 DEF IsMap, MapFields
  <2>. HIDE DEF n
  <2>. QED BY <2>1, <2>2 DEF IsMap, HeldBy
<1>. HIDE DEF n, H
<1>7. CASE ~ overloaded(cnt + 1, lg)
  BY <1>1, <1>5, <1>6, <1>7 DEF Counted, H
<1>8. CASE overloaded(cnt + 1, lg)
  <2>1. lg + 1 \in Nat /\ lg + 1 <= MaxLg
    BY <1>1, <1>8
  <2>2. cnt + 1 < 2 ^ (lg + 1) /\ ~ overloaded(cnt + 1, lg + 1) /\ 2 ^ (lg + 1) \in Nat
    BY <1>1, <1>2 DEF overloaded
  <2>3. /\ IsMap(moved(n, lg + 1)) /\ HeldBy(moved(n, lg + 1)) = H
        /\ moved(n, lg + 1).lgAuxArrInts = lg + 1 /\ moved(n, lg + 1).auxCount = cnt + 1
    BY <1>6, <2>1, <2>2, MovedIs
  <2>4. added(m, s, v) = moved(n, lg + 1)
    BY <1>5, <1>6, <1>8
  <2>5. LgInit <= lg + 1
    BY <1>1
  <2>. QED BY <1>6, <1>8, <2>2, <2>3, <2>4, <2>5 DEF Counted, H
<1>. QED BY <1>7, <1>8

\* What becomes of a new table of size p.lg after n additions of those of q,
\* p.all in number.
adding(p, q, i, acc) == added(acc, q[i][1], q[i][2])

filledUpTo(p, q, n, acc) ==
  /\ IsMap(acc) /\ Counted(acc) /\ HeldBy(acc) = {q[j] : j \in 1 .. n}
  /\ acc.lgAuxArrInts <= p.lg + acc.auxCount
  /\ ~ overloaded(p.all, p.lg) => acc.lgAuxArrInts = p.lg

Fills == INSTANCE FoldTheorems WITH step <- adding, choose <- lastOf, Good <- filledUpTo

\* The entries of a list.
LEMMA ListedAre ==
  ASSUME NEW q, NEW H, Lists(q, H, slotOf, Entry)
  PROVE  /\ H \subseteq Entry /\ \A d, e \in H : d[1] = e[1] => d = e
         /\ IsFiniteSet(H) /\ Cardinality(H) \in Nat /\ Cardinality(H) <= Cardinality(Slots)
<1>1. q \in Seq(Entry) /\ Len(q) \in Nat /\ H = {q[j] : j \in 1 .. Len(q)}
  BY DEF Lists, ElementsOf
<1>2. H \subseteq Entry
  BY <1>1
<1>3. ASSUME NEW d \in H, NEW e \in H, d[1] = e[1] PROVE d = e
  <2>1. PICK i \in 1 .. Len(q), j \in 1 .. Len(q) : d = q[i] /\ e = q[j]
    BY <1>1
  <2>2. slotOf[d] = slotOf[e]
    BY <1>2, <1>3, EntriesHaveSlots
  <2>. QED BY <2>1, <2>2 DEF Lists
<1>. QED BY <1>2, <1>3, AtMostSlots

\* A new table filled with a list of entries holds these, and is no larger than
\* the number of entries explains.
LEMMA FilledIs ==
  ASSUME NEW q, NEW H, Lists(q, H, slotOf, Entry), NEW lg \in Nat,
         LgInit <= lg, lg <= LgInit + Cardinality(H),
         lg = LgInit \/ ~ overloaded(Cardinality(H), lg)
  PROVE  /\ IsMap(filled(lg, q)) /\ Counted(filled(lg, q)) /\ HeldBy(filled(lg, q)) = H
         /\ filled(lg, q).lgAuxArrInts <= LgInit + filled(lg, q).auxCount
<1>. DEFINE b == newMap(lg)
            n == Len(q)
            p == [lg |-> lg, all |-> Cardinality(H)]
            m == filled(lg, q)
<1>0. p.lg = lg /\ p.all = Cardinality(H)
  OBVIOUS
<1>1. /\ H \subseteq Entry /\ \A d, e \in H : d[1] = e[1] => d = e
      /\ IsFiniteSet(H) /\ Cardinality(H) \in Nat /\ Cardinality(H) <= Cardinality(Slots)
  BY ListedAre
<1>2. Cardinality(Slots) \in Nat /\ LgInit \in Nat /\ lg <= MaxLg
  BY <1>1, AuxAssumption, FS_CardinalityType DEF MaxLg
<1>3. IsMap(b) /\ HeldBy(b) = {} /\ b.lgAuxArrInts = lg /\ b.auxCount = 0
  <2>1. b = [newMap(lg) EXCEPT !.auxCount = 0]
    BY DEF newMap
  <2>. HIDE DEF b
  <2>. QED BY <1>2, <2>1, NewIs
<1>4. m = FoldLeft(LAMBDA acc, e : added(acc, e[1], e[2]), b, q)
  BY DEF filled
<1>. HIDE DEF b, p, m
<1>5. n \in Nat /\ DOMAIN q = 1 .. n /\ ElementsOf(q) = H
  BY DEF Lists
<1>6. m = Fills!Left(p, q, b, n)
  BY <1>4, <1>5 DEF FoldLeft, MapThenFoldSet, Max, Fills!Left, Fills!Fold,
         Fills!MapThenFoldSet, adding, lastOf
<1>7. Fills!ChoosesLast
  BY DEF Fills!ChoosesLast, lastOf
<1>. HIDE DEF n
<1>8. Fills!Preserves(p, q, n)
  <2>1. ASSUME NEW i \in 1 .. n, NEW acc, filledUpTo(p, q, i - 1, acc)
        PROVE  filledUpTo(p, q, i, adding(p, q, i, acc))
    <3>. DEFINE P == {q[j] : j \in 1 .. (i - 1)}
                Q == {q[j] : j \in 1 .. i}
    <3>1. /\ q[i] \in Entry /\ q[i] \in H /\ P \subseteq H /\ Q = P \union {q[i]}
          /\ \A e \in P : e[1] # q[i][1]
      BY FirstOf DEF n
    <3>2. /\ IsMap(acc) /\ Counted(acc) /\ HeldBy(acc) = P
          /\ acc.lgAuxArrInts <= lg + acc.auxCount
          /\ ~ overloaded(Cardinality(H), lg) => acc.lgAuxArrInts = lg
      BY <1>0, <2>1 DEF filledUpTo
    <3>. HIDE DEF P, Q
    <3>3. /\ IsFiniteSet(P) /\ Cardinality(P) \in Nat /\ Cardinality(P) + 1 = Cardinality(Q)
          /\ Cardinality(Q) <= Cardinality(H)
      <4>1. IsFiniteSet(P)
        BY <1>1, <3>1, FS_Subset
      <4>2. q[i] \notin P
        BY <3>1
      <4>3. Cardinality(Q) = Cardinality(P) + 1
        BY <3>1, <4>1, <4>2, FS_AddElement
      <4>4. Q \subseteq H
        BY <3>1
      <4>. QED BY <1>1, <4>1, <4>3, <4>4, FS_Subset, FS_CardinalityType
    <3>4. q[i][1] \in Slots /\ q[i][2] \in Values
      BY <3>1, EntriesHaveSlots
    <3>5. ~ Taken(acc, q[i][1])
      BY <3>1, <3>2 DEF Taken
    <3>. DEFINE cnt == acc.auxCount
                al  == acc.lgAuxArrInts
    <3>6. cnt = Cardinality(P) /\ al \in Nat
      BY <3>2 DEF Counted, IsMap, Sound, Filled
    <3>7. lg = LgInit => al <= LgInit + cnt
      BY <3>2
    <3>8. al <= MaxLg /\ (overloaded(cnt + 1, al) => al + 1 <= MaxLg /\ lg = LgInit)
      <4>1. CASE lg = LgInit
        BY <1>1, <1>2, <3>3, <3>6, <3>7, <4>1 DEF MaxLg
      <4>2. CASE ~ overloaded(Cardinality(H), lg)
        <5>1. al = lg
          BY <3>2, <4>2
        <5>2. 2 ^ lg \in Nat
          BY <1>2, SizesAre
        <5>3. ~ overloaded(cnt + 1, al)
          BY <1>1, <3>3, <3>6, <4>2, <5>1, <5>2 DEF overloaded
        <5>. QED BY <1>2, <5>1, <5>3
      <4>. QED BY <4>1, <4>2
    <3>. DEFINE new == added(acc, q[i][1], q[i][2])
    <3>9. /\ IsMap(new) /\ Counted(new)
          /\ HeldBy(new) = Rebound(P, q[i][1], q[i][2])
          /\ new.auxCount = cnt + 1
          /\ new.lgAuxArrInts = IF overloaded(cnt + 1, al) THEN al + 1 ELSE al
      BY <3>2, <3>4, <3>5, <3>8, AddedIs
    <3>10. HeldBy(new) = Q
      BY <3>1, <3>9, ReboundAnew
    <3>. HIDE DEF new
    <3>11. new.lgAuxArrInts <= lg + new.auxCount
      BY <1>2, <3>2, <3>3, <3>6, <3>9
    <3>12. ~ overloaded(Cardinality(H), lg) => new.lgAuxArrInts = lg
      <4>1. SUFFICES ASSUME ~ overloaded(Cardinality(H), lg) PROVE new.lgAuxArrInts = lg
        OBVIOUS
      <4>2. al = lg /\ 2 ^ lg \in Nat
        BY <1>2, <3>2, <4>1, SizesAre
      <4>3. ~ overloaded(cnt + 1, al)
        BY <1>1, <3>3, <3>6, <4>1, <4>2 DEF overloaded
      <4>. QED BY <3>9, <4>2, <4>3
    <3>. QED BY <1>0, <3>9, <3>10, <3>11, <3>12 DEF filledUpTo, adding, new, Q
  <2>. QED BY <2>1 DEF Fills!Preserves
<1>9. filledUpTo(p, q, 0, b)
  <2>1. {q[j] : j \in 1 .. 0} = {}
    OBVIOUS
  <2>2. Cardinality({}) = 0
    BY FS_EmptySet
  <2>3. ~ overloaded(0, lg)
    <3>1. 2 ^ lg \in Nat
      BY <1>2, SizesAre
    <3>. QED BY <3>1 DEF overloaded
  <2>. QED BY <1>0, <1>2, <1>3, <2>1, <2>2, <2>3 DEF filledUpTo, Counted
<1>10. filledUpTo(p, q, n, m)
  BY <1>5, <1>6, <1>7, <1>8, <1>9, Fills!LeftKeeps
<1>11. {q[j] : j \in 1 .. n} = H
  BY <1>5 DEF ElementsOf, n
<1>12. m.auxCount = Cardinality(H)
  BY <1>10, <1>11 DEF filledUpTo, Counted
<1>13. m.lgAuxArrInts <= LgInit + m.auxCount
  BY <1>0, <1>10, <1>12 DEF filledUpTo
<1>. QED BY <1>10, <1>11, <1>13 DEF filledUpTo, m

----------------------------------------------------------------------------
(* The invariant. *)

\* What IInv says of sizes.
LEMMA Sized ==
  ASSUME IInv
  PROVE  /\ aux.auxCount \in Nat /\ aux.auxCount = Cardinality(HeldBy(aux))
         /\ aux.auxCount <= Cardinality(Slots) /\ Cardinality(Slots) \in Nat
         /\ aux.lgAuxArrInts \in Nat /\ LgInit \in Nat \ {0} /\ aux.lgAuxArrInts <= MaxLg
         /\ MaxLg \in Nat /\ Powers(MaxLg)
         /\ 2 ^ aux.lgAuxArrInts \in Nat /\ aux.auxCount < 2 ^ aux.lgAuxArrInts
<1>1. /\ HeldBy(aux) \subseteq Entry /\ \A d, e \in HeldBy(aux) : d[1] = e[1] => d = e
      /\ aux.auxCount = Cardinality(HeldBy(aux)) /\ Cardinality(HeldBy(aux)) \in Nat
  BY HeldAre DEF IInv, Counted
<1>2. Cardinality(HeldBy(aux)) <= Cardinality(Slots) /\ MaxLg \in Nat /\ Cardinality(Slots) \in Nat
  BY <1>1, AtMostSlots
<1>3. aux.lgAuxArrInts \in Nat /\ LgInit \in Nat \ {0} /\ Powers(MaxLg)
  BY AuxAssumption DEF IInv, IsMap, Sound, Filled, MaxLg
<1>4. aux.lgAuxArrInts <= MaxLg
  BY <1>1, <1>2, <1>3 DEF IInv, MaxLg
<1>5. 2 ^ aux.lgAuxArrInts \in Nat \ {0}
  BY <1>3, <1>4, SizesAre
<1>6. aux.auxCount < 2 ^ aux.lgAuxArrInts
  BY <1>1, <1>5 DEF IInv, Counted, overloaded
<1>. QED BY <1>1, <1>2, <1>3, <1>4, <1>5, <1>6

\* The searches of a table that fulfils it.
LEMMA Finds ==
  ASSUME IInv, NEW s \in Slots
  PROVE  /\ ~ throws(aux, s) /\ (has(aux, s) <=> Taken(aux, s))
         /\ \A c \in Used : table[c][1] = s => find(aux, s) = c
         /\ Taken(aux, s) => table[find(aux, s)] \in HeldBy(aux) /\ table[find(aux, s)][1] = s
<1>1. IsMap(aux) /\ Cardinality(HeldBy(aux)) # 2 ^ aux.lgAuxArrInts
  BY Sized DEF IInv
<1>. QED BY <1>1, Search DEF Used, table, lgSize

\* What is kept by a rebuild.
AtLeast(H, threshold) == {e \in H : e[2] >= threshold}

\* The entries a rebuilding moves are those whose value is large enough.
LEMMA KeptAre ==
  ASSUME IInv, NEW t \in Values
  PROVE  Lists(Entries(kept(aux, t), aux.lgAuxArrInts), AtLeast(HeldBy(aux), t), slotOf, Entry)
<1>. DEFINE k  == kept(aux, t)
            lg == aux.lgAuxArrInts
<1>1. /\ Sound(table, lg, slotOf, Entry) /\ Distinct(table, lg, slotOf)
  BY DEF IInv, IsMap, table
<1>2. /\ k = [c \in Cells(lg) |-> k[c]]
      /\ \A c \in Cells(lg) : k[c] = IF table[c] = EMPTY \/ table[c][2] < t THEN EMPTY ELSE table[c]
  BY DEF kept, table
<1>. HIDE DEF k
<1>3. Sound(k, lg, slotOf, Entry)
  <2>1. \A c \in Cells(lg) : k[c] \in Entry \union {EMPTY}
    BY <1>1, <1>2 DEF Sound, Filled, IsTable
  <2>. QED BY <1>1, <1>2, <2>1 DEF Sound, Filled, IsTable
<1>4. \A c \in InUse(k, lg) : c \in InUse(table, lg) /\ k[c] = table[c]
  BY <1>2 DEF InUse
<1>5. Distinct(k, lg, slotOf)
  BY <1>1, <1>4 DEF Distinct
<1>6. Lists(Entries(k, lg), Entered(k, lg), slotOf, Entry)
  BY <1>3, <1>5, EntriesAreHeld DEF Sound
<1>7. HeldBy(aux) = Entered(table, lg) /\ \A e \in HeldBy(aux) : e[2] \in Nat /\ e # EMPTY
  <2>1. HeldBy(aux) \subseteq Entry
    BY HeldAre DEF IInv
  <2>. QED BY <2>1, EntriesHaveSlots, AuxAssumption DEF HeldBy, table
<1>8. t \in Nat
  BY AuxAssumption
<1>9. Entered(k, lg) = AtLeast(HeldBy(aux), t)
  <2>1. ASSUME NEW e \in Entered(k, lg) PROVE e \in AtLeast(HeldBy(aux), t)
    <3>1. PICK c \in InUse(k, lg) : e = k[c]
      BY DEF Entered
    <3>2. c \in InUse(table, lg) /\ e = table[c] /\ ~ (table[c][2] < t)
      BY <1>2, <1>4, <3>1 DEF InUse
    <3>3. e \in HeldBy(aux)
      BY <1>7, <3>2 DEF Entered
    <3>. QED BY <1>7, <1>8, <3>2, <3>3 DEF AtLeast
  <2>2. ASSUME NEW e \in AtLeast(HeldBy(aux), t) PROVE e \in Entered(k, lg)
    <3>1. e \in HeldBy(aux) /\ e[2] >= t
      BY DEF AtLeast
    <3>2. PICK c \in InUse(table, lg) : e = table[c]
      BY <1>7, <3>1 DEF Entered
    <3>3. k[c] = e /\ e # EMPTY /\ c \in Cells(lg)
      BY <1>2, <1>7, <1>8, <3>1, <3>2 DEF InUse
    <3>. QED BY <3>3 DEF Entered, InUse
  <2>. QED BY <2>1, <2>2
<1>. QED BY <1>6, <1>9 DEF k

\* What is made of an image.
ReadBack(compact) ==
  filled(IF compact THEN computeLgArrInts(aux.auxCount) ELSE aux.lgAuxArrInts,
         Entries(aux.auxIntArr, aux.lgAuxArrInts))

\* What is read back from an image holds what was written, in a table no larger than needed.
LEMMA ReadIs ==
  ASSUME IInv, NEW compact \in BOOLEAN
  PROVE  LET m == ReadBack(compact)
         IN  /\ IsMap(m) /\ Counted(m) /\ HeldBy(m) = HeldBy(aux)
             /\ m.lgAuxArrInts <= LgInit + m.auxCount
             /\ m.auxCount = aux.auxCount
<1>. DEFINE q   == Entries(aux.auxIntArr, aux.lgAuxArrInts)
            H   == HeldBy(aux)
            lg  == IF compact THEN computeLgArrInts(aux.auxCount) ELSE aux.lgAuxArrInts
            cnt == aux.auxCount
<1>1. Lists(q, H, slotOf, Entry)
  BY EntriesAreHeld DEF IInv, IsMap, HeldBy, Sound
<1>2. lg \in Nat /\ LgInit <= lg /\ lg <= LgInit + cnt /\ (lg = LgInit \/ ~ overloaded(cnt, lg))
  <2>1. CASE ~ compact
    BY <2>1, Sized DEF IInv, Counted
  <2>2. CASE compact
    <3>1. lg = larger(LgInit, lgFor(cnt))
      BY <2>2 DEF computeLgArrInts
    <3>2. lgFor(cnt) \in 0 .. cnt + 1 /\ ~ overloaded(cnt, lgFor(cnt))
      <4>1. cnt + 1 <= MaxLg
        BY Sized DEF MaxLg
      <4>. QED BY <4>1, Sized, LgForHolds
    <3>. QED BY <3>1, <3>2, Sized DEF larger
  <2>. QED BY <2>1, <2>2
<1>. HIDE DEF q, lg
<1>3. cnt = Cardinality(H)
  BY Sized
<1>4. /\ IsMap(filled(lg, q)) /\ Counted(filled(lg, q)) /\ HeldBy(filled(lg, q)) = H
      /\ filled(lg, q).lgAuxArrInts <= LgInit + filled(lg, q).auxCount
  BY <1>1, <1>2, <1>3, FilledIs
<1>5. filled(lg, q).auxCount = cnt
  BY <1>3, <1>4 DEF Counted
<1>6. ReadBack(compact) = filled(lg, q)
  BY DEF ReadBack, lg, q
<1>. QED BY <1>4, <1>5, <1>6

\* What each call makes of the entries.
LEMMA CallsKeep ==
  ASSUME IInv
  PROVE  /\ \A s \in Slots, v \in Values :
              /\ mustAdd(s, v) =>
                   /\ IInv'
                   /\ IF Taken(aux, s) THEN answer' = THROWS /\ UNCHANGED aux
                      ELSE answer' = OK /\ HeldBy(aux)' = Rebound(HeldBy(aux), s, v)
              /\ mustReplace(s, v) =>
                   /\ IInv'
                   /\ IF Taken(aux, s) THEN answer' = OK /\ HeldBy(aux)' = Rebound(HeldBy(aux), s, v)
                      ELSE answer' = THROWS /\ UNCHANGED aux
         /\ \A t \in Values :
              rebuild(t) => IInv' /\ answer' = OK /\ HeldBy(aux)' = AtLeast(HeldBy(aux), t)
         /\ \A compact \in BOOLEAN :
              deserialize(compact) => IInv' /\ answer' = OK /\ HeldBy(aux)' = HeldBy(aux)
<1>0. IsMap(aux) /\ Counted(aux) /\ aux.lgAuxArrInts <= LgInit + aux.auxCount
  BY DEF IInv
<1>1. ASSUME NEW s \in Slots, NEW v \in Values, mustAdd(s, v)
      PROVE  /\ IInv'
             /\ IF Taken(aux, s) THEN answer' = THROWS /\ UNCHANGED aux
                ELSE answer' = OK /\ HeldBy(aux)' = Rebound(HeldBy(aux), s, v)
  <2>1. CASE Taken(aux, s)
    <3>1. aux' = aux /\ answer' = THROWS
      BY <1>1, <2>1, Finds DEF mustAdd, added
    <3>. QED BY <2>1, <3>1 DEF IInv, HeldBy
  <2>2. CASE ~ Taken(aux, s)
    <3>1. aux' = added(aux, s, v) /\ answer' = OK
      BY <1>1, <2>2, Finds DEF mustAdd
    <3>2. overloaded(aux.auxCount + 1, aux.lgAuxArrInts) => aux.lgAuxArrInts + 1 <= MaxLg
      <4>1. aux.auxCount + 1 <= Cardinality(Slots)
        <5>. DEFINE H == HeldBy(aux)
                    e == <<s, v>>
        <5>1. /\ H \subseteq Entry /\ IsFiniteSet(H) /\ \A d, x \in H : d[1] = x[1] => d = x
          BY <1>0, HeldAre
        <5>2. e \in Entry /\ e[1] = s
          BY DEF Entry
        <5>3. \A x \in H : x[1] # e[1]
          BY <2>2, <5>2 DEF Taken
        <5>4. Cardinality(H \union {e}) = aux.auxCount + 1
          <6>1. e \notin H
            BY <5>3
          <6>. QED BY <5>1, <6>1, Sized, FS_AddElement
        <5>. HIDE DEF H, e
        <5>5. Cardinality(H \union {e}) <= Cardinality(Slots)
          <6>. DEFINE G == H \union {e}
          <6>1. G \subseteq Entry /\ \A d, x \in G : d[1] = x[1] => d = x
            BY <5>1, <5>2, <5>3
          <6>. HIDE DEF G
          <6>2. Cardinality(G) <= Cardinality(Slots)
            BY <6>1, AtMostSlots
          <6>. QED BY <6>2 DEF G
        <5>. QED BY <5>4, <5>5
      <4>. QED BY <1>0, <4>1, Sized DEF MaxLg
    <3>. DEFINE new == added(aux, s, v)
    <3>3. /\ IsMap(new) /\ Counted(new) /\ HeldBy(new) = Rebound(HeldBy(aux), s, v)
          /\ new.auxCount = aux.auxCount + 1
          /\ new.lgAuxArrInts = IF overloaded(aux.auxCount + 1, aux.lgAuxArrInts)
                                 THEN aux.lgAuxArrInts + 1 ELSE aux.lgAuxArrInts
      BY <1>0, <2>2, <3>2, Sized, AddedIs
    <3>4. new.lgAuxArrInts <= LgInit + new.auxCount
      BY <1>0, <3>3, Sized
    <3>. HIDE DEF new
    <3>5. aux' = new
      BY <3>1 DEF new
    <3>. QED BY <2>2, <3>1, <3>3, <3>4, <3>5 DEF IInv, HeldBy
  <2>. QED BY <2>1, <2>2
<1>2. ASSUME NEW s \in Slots, NEW v \in Values, mustReplace(s, v)
      PROVE  /\ IInv'
             /\ IF Taken(aux, s) THEN answer' = OK /\ HeldBy(aux)' = Rebound(HeldBy(aux), s, v)
                ELSE answer' = THROWS /\ UNCHANGED aux
  <2>1. CASE ~ Taken(aux, s)
    <3>1. aux' = aux /\ answer' = THROWS
      BY <1>2, <2>1, Finds DEF mustReplace
    <3>. QED BY <2>1, <3>1 DEF IInv, HeldBy
  <2>2. CASE Taken(aux, s)
    <3>. DEFINE new == put(aux, s, v)
    <3>1. aux' = new /\ answer' = OK
      BY <1>2, <2>2, Finds DEF mustReplace
    <3>2. Cardinality(HeldBy(aux)) # 2 ^ aux.lgAuxArrInts
      BY Sized
    <3>3. /\ IsMap(new) /\ HeldBy(new) = Rebound(HeldBy(aux), s, v)
          /\ new.lgAuxArrInts = aux.lgAuxArrInts /\ new.auxCount = aux.auxCount
          /\ Cardinality(HeldBy(new)) = Cardinality(HeldBy(aux))
      BY <1>0, <2>2, <3>2, PutIs
    <3>. HIDE DEF new
    <3>4. Counted(new) /\ new.lgAuxArrInts <= LgInit + new.auxCount
      BY <1>0, <3>3 DEF Counted
    <3>. QED BY <2>2, <3>1, <3>3, <3>4 DEF IInv, HeldBy
  <2>. QED BY <2>1, <2>2
<1>3. ASSUME NEW t \in Values, rebuild(t)
      PROVE  IInv' /\ answer' = OK /\ HeldBy(aux)' = AtLeast(HeldBy(aux), t)
  <2>. DEFINE q   == Entries(kept(aux, t), aux.lgAuxArrInts)
              H   == AtLeast(HeldBy(aux), t)
              new == filled(LgInit, q)
  <2>1. aux' = new /\ answer' = OK
    BY <1>3 DEF rebuild
  <2>2. Lists(q, H, slotOf, Entry)
    BY KeptAre
  <2>. HIDE DEF q, H
  <2>3. LgInit <= LgInit /\ LgInit <= LgInit + Cardinality(H)
    BY <2>2, ListedAre, Sized
  <2>4. IsMap(new) /\ Counted(new) /\ HeldBy(new) = H /\ new.lgAuxArrInts <= LgInit + new.auxCount
    BY <2>2, <2>3, Sized, FilledIs
  <2>. HIDE DEF new
  <2>. QED BY <2>1, <2>4 DEF IInv, HeldBy, H
<1>4. ASSUME NEW compact \in BOOLEAN, deserialize(compact)
      PROVE  IInv' /\ answer' = OK /\ HeldBy(aux)' = HeldBy(aux)
  <2>. DEFINE new == ReadBack(compact)
  <2>1. /\ IsMap(new) /\ Counted(new) /\ HeldBy(new) = HeldBy(aux)
        /\ new.lgAuxArrInts <= LgInit + new.auxCount /\ new.auxCount = aux.auxCount
    BY ReadIs
  <2>2. IF new.auxCount = aux.auxCount THEN aux' = new /\ answer' = OK
        ELSE answer' = THROWS /\ UNCHANGED aux
    BY <1>4 DEF deserialize, ReadBack
  <2>. HIDE DEF new
  <2>. QED BY <2>1, <2>2 DEF IInv, HeldBy
<1>. QED BY <1>1, <1>2, <1>3, <1>4

\* The inductive invariant holds at first.
LEMMA InitEstablishes == Init => IInv
<1>. SUFFICES ASSUME Init PROVE IInv
  OBVIOUS
<1>0. Cardinality(Slots) \in Nat /\ LgInit \in Nat \ {0}
  BY AuxAssumption, FS_CardinalityType
<1>1. aux = [newMap(LgInit) EXCEPT !.auxCount = 0]
  BY DEF Init, newMap
<1>2. IsMap(aux) /\ HeldBy(aux) = {} /\ aux.lgAuxArrInts = LgInit /\ aux.auxCount = 0
  <2>. DEFINE b == [newMap(LgInit) EXCEPT !.auxCount = 0]
  <2>1. LgInit \in Nat /\ LgInit <= MaxLg
    BY <1>0 DEF MaxLg
  <2>2. IsMap(b) /\ HeldBy(b) = {} /\ b.lgAuxArrInts = LgInit /\ b.auxCount = 0
    BY <2>1, NewIs
  <2>. HIDE DEF b
  <2>. QED BY <1>1, <2>2 DEF b
<1>3. Cardinality({}) = 0
  BY FS_EmptySet
<1>4. 2 ^ LgInit \in Nat
  BY <1>0, SizesAre DEF MaxLg
<1>. QED BY <1>0, <1>2, <1>3, <1>4 DEF IInv, Counted, overloaded

\* ... and every step keeps it.
LEMMA Inductive == IInv /\ [Next]_vars => IInv'
<1>. SUFFICES ASSUME IInv, [Next]_vars PROVE IInv'
  OBVIOUS
<1>1. ASSUME NEW s \in Slots, NEW v \in Values, mustAdd(s, v) \/ mustReplace(s, v) PROVE IInv'
  BY <1>1, CallsKeep
<1>2. ASSUME NEW s \in Slots, mustFindValueFor(s) PROVE IInv'
  BY <1>2 DEF mustFindValueFor, IInv, HeldBy
<1>3. ASSUME NEW t \in Values, rebuild(t) PROVE IInv'
  BY <1>3, CallsKeep
<1>4. ASSUME NEW compact \in BOOLEAN, deserialize(compact) PROVE IInv'
  BY <1>4, CallsKeep
<1>5. CASE UNCHANGED vars
  BY <1>5 DEF vars, IInv, HeldBy
<1>. QED BY <1>1, <1>2, <1>3, <1>4, <1>5 DEF Next

\* So it holds always.
LEMMA Invariance == Spec => []IInv
BY InitEstablishes, Inductive, PTL DEF Spec

(* No search of AuxHashMap.cpp runs out of cells, and each ends at the one *)
(* cell that holds its slot, if there is one: for every set of slots and   *)
(* initial size, after any calls, growths, rebuilds and images.            *)
THEOREM SearchesFind == Spec => []FindsExactly
<1>1. IInv => FindsExactly
  BY Finds DEF FindsExactly
<1>. QED BY <1>1, Invariance, PTL

(* The count is that of the entries, and the table is at most three        *)
(* quarters full.                                                          *)
THEOREM LoadIsBounded == Spec => []LoadBounded
<1>1. ASSUME IInv PROVE LoadBounded
  <2>1. Cardinality(InUse(table, lgSize)) = Cardinality(Entered(table, lgSize))
    BY <1>1, HeldCount DEF IInv, IsMap, table, lgSize, Sound
  <2>2. InUse(table, lgSize) = Used
    BY DEF InUse, Used
  <2>. QED BY <1>1, <2>1, <2>2 DEF IInv, Counted, HeldBy, LoadBounded, table, lgSize
<1>. QED BY <1>1, Invariance, PTL

----------------------------------------------------------------------------
(* The refinement. *)

\* The partial function that a set of entries is.
MapOf(H) == [s \in {e[1] : e \in H} |-> (CHOOSE e \in H : e[1] = s)[2]]

Unlike(H) == \A d, e \in H : d[1] = e[1] => d = e

\* What the abstract map sees is the function whose graph is the held entries.
LEMMA ContentsAre == Contents = MapOf(HeldBy(aux))
<1>1. HeldBy(aux) = {table[c] : c \in Used}
  BY DEF HeldBy, Entered, InUse, Used, table, lgSize
<1>2. {table[c][1] : c \in Used} = {e[1] : e \in HeldBy(aux)}
  BY <1>1
<1>. QED BY <1>1, <1>2 DEF Contents, MapOf

\* ... and in the next state.
LEMMA ContentsAreNext == Contents' = MapOf(HeldBy(aux))'
<1>1. (Contents = MapOf(HeldBy(aux)))'
  BY ContentsAre, PTL
<1>. QED BY <1>1

\* It maps the slot of every entry to the value of that entry.
LEMMA MapAt ==
  ASSUME NEW H, Unlike(H)
  PROVE  /\ DOMAIN MapOf(H) = {e[1] : e \in H}
         /\ \A e \in H : MapOf(H)[e[1]] = e[2]
<1>1. ASSUME NEW e \in H PROVE MapOf(H)[e[1]] = e[2]
  <2>. DEFINE d == CHOOSE x \in H : x[1] = e[1]
  <2>1. d \in H /\ d[1] = e[1]
    OBVIOUS
  <2>2. d = e
    BY <2>1 DEF Unlike
  <2>3. MapOf(H)[e[1]] = d[2]
    BY DEF MapOf
  <2>. QED BY <2>2, <2>3
<1>. QED BY <1>1 DEF MapOf

\* A binding.
Binding(g, s, v) == [t \in DOMAIN g \union {s} |-> IF t = s THEN v ELSE g[t]]

\* An entry exchanged, or one more, is a binding of the function.
LEMMA MapOfRebound ==
  ASSUME NEW H, Unlike(H), NEW s, NEW v
  PROVE  MapOf(Rebound(H, s, v)) = Binding(MapOf(H), s, v)
<1>. DEFINE G == Rebound(H, s, v)
            f == [t \in DOMAIN MapOf(H) \union {s} |-> IF t = s THEN v ELSE MapOf(H)[t]]
<1>1. \A e \in G : (e = <<s, v>> /\ e[1] = s /\ e[2] = v) \/ (e \in H /\ e[1] # s)
  BY DEF Rebound
<1>2. Unlike(G)
  BY <1>1 DEF Unlike
<1>3. <<s, v>> \in G /\ \A e \in H : e[1] # s => e \in G
  BY DEF Rebound
<1>. HIDE DEF G
<1>4. DOMAIN MapOf(G) = {e[1] : e \in G} /\ DOMAIN MapOf(H) = {e[1] : e \in H}
  BY <1>2, MapAt
<1>5. {e[1] : e \in G} = {e[1] : e \in H} \union {s}
  <2>1. ASSUME NEW x \in {e[1] : e \in G} PROVE x \in {e[1] : e \in H} \union {s}
    BY <1>1
  <2>2. ASSUME NEW x \in {e[1] : e \in H}, x # s PROVE x \in {e[1] : e \in G}
    BY <1>3, <2>2
  <2>3. s \in {e[1] : e \in G}
    <3>1. <<s, v>>[1] = s
      OBVIOUS
    <3>. QED BY <1>3, <3>1
  <2>. QED BY <2>1, <2>2, <2>3
<1>6. ASSUME NEW t \in DOMAIN MapOf(G) PROVE MapOf(G)[t] = f[t]
  <2>1. PICK e \in G : t = e[1]
    BY <1>4
  <2>2. MapOf(G)[t] = e[2]
    BY <1>2, <2>1, MapAt
  <2>3. t \in DOMAIN f /\ f[t] = IF t = s THEN v ELSE MapOf(H)[t]
    BY <1>4, <1>5
  <2>4. CASE t = s
    BY <1>1, <2>1, <2>2, <2>3, <2>4
  <2>5. CASE t # s
    <3>1. e \in H
      BY <1>1, <2>1, <2>5
    <3>2. MapOf(H)[t] = e[2]
      BY <2>1, <3>1, MapAt
    <3>. QED BY <2>2, <2>3, <2>5, <3>2
  <2>. QED BY <2>4, <2>5
<1>7. MapOf(G) = [t \in DOMAIN MapOf(G) |-> MapOf(G)[t]]
  BY DEF MapOf
<1>8. DOMAIN MapOf(G) = DOMAIN MapOf(H) \union {s}
  BY <1>4, <1>5
<1>. HIDE DEF f
<1>9. f = [t \in DOMAIN MapOf(G) |-> f[t]]
  BY <1>8 DEF f
<1>10. MapOf(G) = f
  BY <1>6, <1>7, <1>9
<1>. QED BY <1>10 DEF f, G, Binding

\* A restriction.
Restriction(g, t) == [s \in {u \in DOMAIN g : g[u] >= t} |-> g[s]]

\* The entries whose value is large enough are a restriction of the function.
LEMMA MapOfAtLeast ==
  ASSUME NEW H, Unlike(H), NEW t
  PROVE  MapOf(AtLeast(H, t)) = Restriction(MapOf(H), t)
<1>. DEFINE G == AtLeast(H, t)
            D == {u \in DOMAIN MapOf(H) : MapOf(H)[u] >= t}
<1>1. Unlike(G)
  BY DEF Unlike, AtLeast
<1>2. /\ DOMAIN MapOf(G) = {e[1] : e \in G} /\ \A e \in G : MapOf(G)[e[1]] = e[2]
      /\ DOMAIN MapOf(H) = {e[1] : e \in H} /\ \A e \in H : MapOf(H)[e[1]] = e[2]
  <2>. HIDE DEF G
  <2>. QED BY <1>1, MapAt
<1>3. \A e : e \in G <=> e \in H /\ e[2] >= t
  BY DEF AtLeast
<1>. HIDE DEF G
<1>4. DOMAIN MapOf(G) = D
  BY <1>2, <1>3
<1>5. \A s \in D : MapOf(G)[s] = MapOf(H)[s]
  BY <1>2, <1>3, <1>4
<1>6. MapOf(G) = [s \in DOMAIN MapOf(G) |-> MapOf(G)[s]]
  BY DEF MapOf
<1>. HIDE DEF D
<1>7. MapOf(G) = [s \in D |-> MapOf(H)[s]]
  BY <1>4, <1>5, <1>6
<1>. QED BY <1>7 DEF G, D, Restriction

\* The first state is one of the abstract map.
LEMMA InitRefines == Init => ImplementsMap!Init
<1>. SUFFICES ASSUME Init PROVE ImplementsMap!Init
  OBVIOUS
<1>1. Used = {}
  BY DEF Init, Used, newMap, EmptyTable, table, lgSize
<1>2. Contents = [s \in {} |-> 0]
  BY <1>1 DEF Contents
<1>. QED BY <1>2 DEF Init, ImplementsMap!Init, OK, ImplementsMap!OK

\* Every step is one of the abstract map, or changes nothing that it sees.
LEMMA StepRefines == IInv /\ [Next]_vars => [ImplementsMap!Next]_<<Contents, answer>>
<1>. SUFFICES ASSUME IInv, [Next]_vars PROVE [ImplementsMap!Next]_<<Contents, answer>>
  OBVIOUS
<1>. DEFINE H == HeldBy(aux)
<1>1. Contents = MapOf(H) /\ Contents' = MapOf(HeldBy(aux)')
  BY ContentsAre, ContentsAreNext DEF MapOf
<1>2. Unlike(H)
  BY HeldAre DEF IInv, Unlike
<1>3. \A s : s \in DOMAIN Contents <=> Taken(aux, s)
  <2>. HIDE DEF H
  <2>1. DOMAIN Contents = {e[1] : e \in H}
    BY <1>1, <1>2, MapAt
  <2>. QED BY <2>1 DEF Taken, H
<1>4. OK = ImplementsMap!OK /\ THROWS = ImplementsMap!THROWS
  BY DEF OK, THROWS, ImplementsMap!OK, ImplementsMap!THROWS
<1>5. aux' = aux => Contents' = Contents
  BY DEF Contents, Used, table, lgSize
<1>6. ASSUME NEW s \in Slots, NEW v \in Values, HeldBy(aux)' = Rebound(H, s, v)
      PROVE  Contents' = ImplementsMap!Bind(s, v)
  <2>. HIDE DEF H
  <2>1. MapOf(Rebound(H, s, v)) = Binding(Contents, s, v)
    BY <1>1, <1>2, MapOfRebound
  <2>2. Contents' = Binding(Contents, s, v)
    BY <1>1, <1>6, <2>1
  <2>. QED BY <2>2 DEF ImplementsMap!Bind, Binding
<1>7. ASSUME NEW s \in Slots, NEW v \in Values, mustAdd(s, v)
      PROVE  ImplementsMap!mustAdd(s, v)
  <2>1. IF Taken(aux, s) THEN answer' = THROWS /\ UNCHANGED aux
        ELSE answer' = OK /\ HeldBy(aux)' = Rebound(H, s, v)
    BY <1>7, CallsKeep
  <2>. QED BY <1>3, <1>4, <1>5, <1>6, <2>1 DEF ImplementsMap!mustAdd
<1>8. ASSUME NEW s \in Slots, NEW v \in Values, mustReplace(s, v)
      PROVE  ImplementsMap!mustReplace(s, v)
  <2>1. IF Taken(aux, s) THEN answer' = OK /\ HeldBy(aux)' = Rebound(H, s, v)
        ELSE answer' = THROWS /\ UNCHANGED aux
    BY <1>8, CallsKeep
  <2>. QED BY <1>3, <1>4, <1>5, <1>6, <2>1 DEF ImplementsMap!mustReplace
<1>9. ASSUME NEW s \in Slots, mustFindValueFor(s)
      PROVE  ImplementsMap!mustFindValueFor(s)
  <2>1. answer' = IF Taken(aux, s) THEN table[find(aux, s)][2] ELSE THROWS
    BY <1>9, Finds DEF mustFindValueFor, table
  <2>2. Taken(aux, s) => Contents[s] = table[find(aux, s)][2]
    <3>1. SUFFICES ASSUME Taken(aux, s) PROVE Contents[s] = table[find(aux, s)][2]
      OBVIOUS
    <3>2. table[find(aux, s)] \in H /\ table[find(aux, s)][1] = s
      BY <3>1, Finds
    <3>. QED BY <1>1, <1>2, <3>2, MapAt
  <2>3. aux' = aux
    BY <1>9 DEF mustFindValueFor
  <2>. QED BY <1>3, <1>4, <1>5, <2>1, <2>2, <2>3 DEF ImplementsMap!mustFindValueFor
<1>10. ASSUME NEW t \in Values, rebuild(t) PROVE ImplementsMap!restrict(t)
  <2>1. answer' = OK /\ HeldBy(aux)' = AtLeast(H, t)
    BY <1>10, CallsKeep
  <2>. HIDE DEF H
  <2>2. MapOf(AtLeast(H, t)) = Restriction(Contents, t)
    BY <1>1, <1>2, MapOfAtLeast
  <2>3. Contents' = Restriction(Contents, t)
    BY <1>1, <2>1, <2>2
  <2>. QED BY <1>4, <2>1, <2>3 DEF ImplementsMap!restrict, Restriction
<1>11. ASSUME NEW compact \in BOOLEAN, deserialize(compact) PROVE ImplementsMap!copy
  <2>1. answer' = OK /\ HeldBy(aux)' = H
    BY <1>11, CallsKeep
  <2>. QED BY <1>1, <1>4, <2>1 DEF ImplementsMap!copy
<1>12. CASE UNCHANGED vars
  BY <1>5, <1>12 DEF vars
<1>. QED BY <1>7, <1>8, <1>9, <1>10, <1>11, <1>12 DEF Next, ImplementsMap!Next

(* The probed table implements the partial function that the HLL_4 array   *)
(* is modelled with: every call gives the answer, the throw included, and  *)
(* the contents that the function would have.  In particular no image is   *)
(* refused for its number of entries.                                      *)
THEOREM MapImplemented == Spec => Refinement
<1>1. Init => ImplementsMap!Init
  BY InitRefines
<1>2. IInv /\ [Next]_vars => [ImplementsMap!Next]_<<Contents, answer>>
  BY StepRefines
<1>. QED BY <1>1, <1>2, Invariance, PTL DEF Spec, Refinement, ImplementsMap!Spec
=============================================================================

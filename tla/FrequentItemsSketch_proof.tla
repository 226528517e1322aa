------------------------ MODULE FrequentItemsSketch_proof ------------------------
(***************************************************************************)
(* What is proved of a sketch of frequent items, for every stream: that    *)
(* its table is one that linear probing finds every key in, through        *)
(* insertions, deletions by backward shifting and growth; that a purge     *)
(* takes from every counter, and from enough of them; and that the bounds, *)
(* the total, the error and the lists of frequent items are what is        *)
(* promised, for streams, merges, images and resets.  The invariant,       *)
(* SketchInv, says of a sketch which weights it stands for.                *)
(***************************************************************************)
EXTENDS FrequentItemsSketch, TLAPS, FiniteSetTheorems

lastOf(S) == CHOOSE x \in S : \A y \in S : x >= y
anyOf(p, q, n, acc) == TRUE
keeping(p, q, i, acc) == acc
Nums == INSTANCE FoldTheorems WITH step <- keeping, choose <- lastOf, Good <- anyOf

----------------------------------------------------------------------------
(* Positions on a circle. *)

\* The remainder of what is less than twice around.
LEMMA Once ==
  ASSUME NEW n \in Nat \ {0}, NEW x \in Int
  PROVE  /\ x \in 0 .. n - 1 => x % n = x
         /\ x - n \in 0 .. n - 1 => x % n = x - n
         /\ x + n \in 0 .. n - 1 => x % n = x + n
<1>. DEFINE r == x % n
            q == x \div n
<1>1. r \in 0 .. n - 1 /\ q \in Int /\ x = n * q + r
  OBVIOUS
<1>. HIDE DEF r, q
<1>2. \A m \in Int : m >= 1 => n * m >= n
  OBVIOUS
<1>3. \A m \in Int : m <= -1 => n * m <= - n
  OBVIOUS
<1>4. ASSUME x \in 0 .. n - 1 PROVE r = x
  <2>1. ~ (q >= 1) /\ ~ (q <= -1)
    BY <1>1, <1>2, <1>3, <1>4
  <2>2. q = 0
    BY <1>1, <2>1
  <2>. QED BY <1>1, <2>2
<1>5. ASSUME x - n \in 0 .. n - 1 PROVE r = x - n
  <2>1. x - n = n * (q - 1) + r
    BY <1>1
  <2>2. ~ (q - 1 >= 1) /\ ~ (q - 1 <= -1)
    BY <1>1, <1>2, <1>3, <1>5, <2>1
  <2>3. q - 1 = 0
    BY <1>1, <2>2
  <2>. QED BY <2>1, <2>3, <1>1
<1>6. ASSUME x + n \in 0 .. n - 1 PROVE r = x + n
  <2>1. x + n = n * (q + 1) + r
    BY <1>1
  <2>2. ~ (q + 1 >= 1) /\ ~ (q + 1 <= -1)
    BY <1>1, <1>2, <1>3, <1>6, <2>1
  <2>3. q + 1 = 0
    BY <1>1, <2>2
  <2>. QED BY <2>1, <2>3, <1>1
<1>. QED BY <1>4, <1>5, <1>6 DEF r

\* How far cell q is behind cell p on a circle of n cells.
dist(n, p, q) == (q - p) % n

\* The distance without the remainder.
LEMMA DistIs ==
  ASSUME NEW n \in Nat \ {0}, NEW p \in 0 .. n - 1, NEW q \in 0 .. n - 1
  PROVE  /\ dist(n, p, q) = IF q >= p THEN q - p ELSE q - p + n
         /\ dist(n, p, q) \in 0 .. n - 1
<1>. DEFINE x == q - p
<1>1. /\ x \in Int /\ x = q - p
      /\ q >= p => x \in 0 .. n - 1
      /\ q < p => x + n \in 0 .. n - 1
  OBVIOUS
<1>2. dist(n, p, q) = x % n
  BY DEF dist
<1>. HIDE DEF x
<1>3. /\ q >= p => x % n = x
      /\ q < p => x % n = x + n
  BY <1>1, Once
<1>. QED BY <1>1, <1>2, <1>3

\* A step forwards or backwards without the remainder.
LEMMA StepIs ==
  ASSUME NEW n \in Nat \ {0}, NEW p \in 0 .. n - 1, NEW i \in 0 .. n - 1
  PROVE  /\ (p + i) % n = IF p + i < n THEN p + i ELSE p + i - n
         /\ (p + i) % n \in 0 .. n - 1
         /\ (p - i) % n = IF p >= i THEN p - i ELSE p - i + n
         /\ (p - i) % n \in 0 .. n - 1
<1>. DEFINE x == p + i
            y == p - i
<1>1. /\ x \in Int /\ y \in Int /\ x = p + i /\ y = p - i
      /\ p + i < n => x \in 0 .. n - 1
      /\ p + i >= n => x - n \in 0 .. n - 1
      /\ p >= i => y \in 0 .. n - 1
      /\ p < i => y + n \in 0 .. n - 1
  OBVIOUS
<1>. HIDE DEF x, y
<1>2. /\ p + i < n => x % n = x
      /\ p + i >= n => x % n = x - n
      /\ p >= i => y % n = y
      /\ p < i => y % n = y + n
  BY <1>1, Once
<1>3. /\ x % n = IF p + i < n THEN p + i ELSE p + i - n
      /\ x % n \in 0 .. n - 1
      /\ y % n = IF p >= i THEN p - i ELSE p - i + n
      /\ y % n \in 0 .. n - 1
  BY <1>1, <1>2
<1>. QED BY <1>3 DEF x, y

----------------------------------------------------------------------------
(* Maps. *)

Entry == Keys \X (Nat \ {0}) \X (Nat \ {0})

IsMap(m) ==
  /\ m = [lg |-> m.lg, lgMax |-> m.lgMax, num |-> m.num, cells |-> m.cells]
  /\ m.lg \in Nat /\ m.lgMax \in Nat /\ m.num \in Nat
  /\ size(m) \in Nat \ {0}
  /\ m.cells \in [Cells(m) -> Entry \union {EMPTY}]

\* An entry lies in the cluster that its home is in.
InPlace(m, q) ==
  LET h == home(m, keyOf(m.cells[q]))
  IN  /\ stateOf(m.cells[q]) = dist(size(m), h, q) + 1
      /\ \A r \in Cells(m) : dist(size(m), r, q) <= dist(size(m), h, q) => m.cells[r] # EMPTY

Active(m) == {p \in Cells(m) : m.cells[p] # EMPTY}

Unique(m) == \A q, r \in Active(m) : keyOf(m.cells[q]) = keyOf(m.cells[r]) => q = r

Sound(m) ==
  /\ IsMap(m) /\ Unique(m)
  /\ \A q \in Active(m) : InPlace(m, q)
  /\ m.num = Cardinality(Active(m))

HasRoom(m) == \E e \in Cells(m) : m.cells[e] = EMPTY

\* Entries and their parts.
LEMMA EntryIs ==
  /\ EMPTY \notin Entry
  /\ \A key \in Keys : \A v \in Nat \ {0} : \A d \in Nat \ {0} :
        /\ <<key, v, d>> \in Entry /\ <<key, v, d>> # EMPTY
        /\ keyOf(<<key, v, d>>) = key /\ valueOf(<<key, v, d>>) = v /\ stateOf(<<key, v, d>>) = d
  /\ \A c \in Entry : keyOf(c) \in Keys /\ valueOf(c) \in Nat \ {0} /\ stateOf(c) \in Nat \ {0}
                      /\ c = <<keyOf(c), valueOf(c), stateOf(c)>>
BY DEF Entry, EMPTY, keyOf, valueOf, stateOf

\* Every key has its home in the table.
LEMMA HomeIs ==
  ASSUME NEW m, IsMap(m), NEW key \in Keys
  PROVE  home(m, key) \in Cells(m)
BY MapAssumption DEF home, IsMap, Cells

\* A table without room is one whose cells are all active.
LEMMA ActiveIs ==
  ASSUME NEW m, IsMap(m)
  PROVE  /\ IsFiniteSet(Active(m)) /\ Cardinality(Active(m)) \in Nat
         /\ IsFiniteSet(Cells(m)) /\ Cardinality(Cells(m)) = size(m)
         /\ Cardinality(Active(m)) <= size(m)
         /\ (~ HasRoom(m) <=> Cardinality(Active(m)) = size(m))
<1>. DEFINE n == size(m)
<1>1. n \in Nat \ {0} /\ Cells(m) = 0 .. n - 1
  BY DEF IsMap, Cells
<1>. HIDE DEF n
<1>2. IsFiniteSet(0 .. n - 1) /\ Cardinality(0 .. n - 1) = n
  <2>1. n - 1 \in Int /\ 0 \in Int /\ ~ (0 > n - 1) /\ n - 1 - 0 + 1 = n
    BY <1>1
  <2>2. Cardinality(0 .. n - 1) = n - 1 - 0 + 1
    BY <2>1, FS_Interval
  <2>. QED BY <2>1, <2>2, FS_Interval
<1>3. Active(m) \subseteq Cells(m)
  BY DEF Active
<1>4. IsFiniteSet(Active(m)) /\ Cardinality(Active(m)) \in Nat
      /\ Cardinality(Active(m)) <= n
      /\ (Cardinality(Active(m)) = n => Active(m) = Cells(m))
  BY <1>1, <1>2, <1>3, FS_Subset, FS_CardinalityType
<1>5. ~ HasRoom(m) <=> Active(m) = Cells(m)
  BY DEF HasRoom, Active
<1>. QED BY <1>1, <1>2, <1>4, <1>5 DEF n

----------------------------------------------------------------------------
(* Searching. *)

\* A step from home and the distance from it are inverse to each other.
LEMMA Around ==
  ASSUME NEW n \in Nat \ {0}, NEW h \in 0 .. n - 1
  PROVE  /\ \A i \in 0 .. n - 1 : (h + i) % n \in 0 .. n - 1 /\ dist(n, h, (h + i) % n) = i
         /\ \A r \in 0 .. n - 1 : (h + dist(n, h, r)) % n = r /\ dist(n, h, r) \in 0 .. n - 1
<1>1. ASSUME NEW i \in 0 .. n - 1
      PROVE  (h + i) % n \in 0 .. n - 1 /\ dist(n, h, (h + i) % n) = i
  <2>. DEFINE p == (h + i) % n
  <2>1. p = IF h + i < n THEN h + i ELSE h + i - n
    BY StepIs
  <2>2. p \in 0 .. n - 1
    BY StepIs
  <2>. HIDE DEF p
  <2>3. dist(n, h, p) = IF p >= h THEN p - h ELSE p - h + n
    BY <2>2, DistIs
  <2>4. dist(n, h, p) = i
    BY <2>1, <2>2, <2>3
  <2>. QED BY <2>2, <2>4 DEF p
<1>2. ASSUME NEW r \in 0 .. n - 1
      PROVE  (h + dist(n, h, r)) % n = r /\ dist(n, h, r) \in 0 .. n - 1
  <2>. DEFINE d == dist(n, h, r)
  <2>1. d = (IF r >= h THEN r - h ELSE r - h + n) /\ d \in 0 .. n - 1
    BY DistIs
  <2>. HIDE DEF d
  <2>2. (h + d) % n = IF h + d < n THEN h + d ELSE h + d - n
    BY <2>1, StepIs
  <2>3. (h + d) % n = r
    BY <2>1, <2>2
  <2>. QED BY <2>1, <2>3 DEF d
<1>. QED BY <1>1, <1>2

\* Where a search for a key ends.
EndsAt(m, key, p) ==
  LET h == home(m, key)
  IN  /\ p \in Cells(m) /\ drift(m, key) = dist(size(m), h, p)
      /\ m.cells[p] = EMPTY \/ keyOf(m.cells[p]) = key
      /\ \A r \in Cells(m) : dist(size(m), h, r) < dist(size(m), h, p)
                             => m.cells[r] # EMPTY /\ keyOf(m.cells[r]) # key

\* The search comes to a cell: the first with the key, or empty.
LEMMA SearchEnds ==
  ASSUME NEW m, IsMap(m), HasRoom(m), NEW key \in Keys
  PROVE  EndsAt(m, key, slot(m, key))
<1>. DEFINE n == size(m)
            h == home(m, key)
<1>1. n \in Nat \ {0} /\ Cells(m) = 0 .. n - 1 /\ h \in 0 .. n - 1
  BY HomeIs DEF IsMap, Cells
<1>. DEFINE T == {i \in Cells(m) : ends(m, key, i)}
<1>2. \A i \in Cells(m) : probed(m, key, i) = m.cells[(h + i) % n]
  BY DEF probed
<1>. HIDE DEF n, h
<1>3. PICK e \in Cells(m) : m.cells[e] = EMPTY
  BY DEF HasRoom
<1>4. dist(n, h, e) \in T
  <2>1. (h + dist(n, h, e)) % n = e /\ dist(n, h, e) \in Cells(m)
    BY <1>1, Around
  <2>2. ends(m, key, dist(n, h, e))
    BY <1>2, <1>3, <2>1 DEF ends
  <2>. QED BY <2>1, <2>2
<1>5. T \subseteq Nat /\ T # {}
  BY <1>1, <1>4
<1>6. PICK i \in T : \A j \in T : i <= j
  <2>. HIDE DEF T
  <2>. QED BY <1>5, Nums!LeastElement
<1>7. i \in Cells(m) /\ ends(m, key, i) /\ \A j \in 0 .. i - 1 : ~ ends(m, key, j)
  BY <1>1, <1>6
<1>. DEFINE d == drift(m, key)
<1>8. d \in Cells(m) /\ ends(m, key, d) /\ \A j \in 0 .. d - 1 : ~ ends(m, key, j)
  BY <1>7 DEF drift
<1>9. slot(m, key) = (h + d) % n
  BY DEF slot, n, h
<1>. HIDE DEF d
<1>. DEFINE p == (h + d) % n
<1>10. p \in 0 .. n - 1 /\ dist(n, h, p) = d
  BY <1>1, <1>8, Around
<1>11. m.cells[p] = EMPTY \/ keyOf(m.cells[p]) = key
  BY <1>2, <1>8 DEF ends
<1>. HIDE DEF p
<1>12. ASSUME NEW r \in Cells(m), dist(n, h, r) < d
       PROVE  m.cells[r] # EMPTY /\ keyOf(m.cells[r]) # key
  <2>. DEFINE j == dist(n, h, r)
  <2>1. (h + j) % n = r /\ j \in 0 .. n - 1
    BY <1>1, Around
  <2>2. j \in 0 .. d - 1 /\ j \in Cells(m)
    BY <1>1, <1>8, <1>12, <2>1
  <2>3. ~ ends(m, key, j) /\ probed(m, key, j) = m.cells[r]
    BY <1>2, <1>8, <2>1, <2>2
  <2>. QED BY <2>3 DEF ends
<1>. QED BY <1>1, <1>9, <1>10, <1>11, <1>12 DEF EndsAt, d, p, n, h

\* A key that is there is found where it is.
LEMMA SearchFinds ==
  ASSUME NEW m, Sound(m), HasRoom(m), NEW q \in Active(m)
  PROVE  slot(m, keyOf(m.cells[q])) = q
<1>. DEFINE key == keyOf(m.cells[q])
            p == slot(m, key)
            n == size(m)
            h == home(m, key)
<1>1. IsMap(m) /\ m.cells[q] \in Entry /\ q \in Cells(m) /\ m.cells[q] # EMPTY
  BY DEF Sound, IsMap, Active
<1>2. key \in Keys
  BY <1>1, EntryIs
<1>3. EndsAt(m, key, p)
  BY <1>1, <1>2, SearchEnds
<1>4. n \in Nat \ {0} /\ Cells(m) = 0 .. n - 1 /\ h \in 0 .. n - 1
  BY <1>1, <1>2, HomeIs DEF IsMap, Cells
<1>5. InPlace(m, q)
  BY DEF Sound
<1>. HIDE DEF key, p, n, h
<1>6. /\ p \in 0 .. n - 1
      /\ m.cells[p] = EMPTY \/ keyOf(m.cells[p]) = key
      /\ \A r \in 0 .. n - 1 : dist(n, h, r) < dist(n, h, p) => keyOf(m.cells[r]) # key
  BY <1>3, <1>4 DEF EndsAt, n, h
<1>7. ~ (dist(n, h, q) < dist(n, h, p))
  BY <1>1, <1>4, <1>6 DEF key
<1>8. dist(n, p, q) <= dist(n, h, q)
  <2>1. q \in 0 .. n - 1
    BY <1>1, <1>4
  <2>2. /\ dist(n, h, q) = IF q >= h THEN q - h ELSE q - h + n
        /\ dist(n, h, p) = IF p >= h THEN p - h ELSE p - h + n
        /\ dist(n, p, q) = IF q >= p THEN q - p ELSE q - p + n
    BY <1>4, <1>6, <2>1, DistIs
  <2>. QED BY <1>4, <1>6, <1>7, <2>1, <2>2
<1>9. m.cells[p] # EMPTY
  BY <1>4, <1>5, <1>6, <1>8 DEF InPlace, n, h, key
<1>10. p \in Active(m) /\ keyOf(m.cells[p]) = keyOf(m.cells[q])
  BY <1>4, <1>6, <1>9 DEF Active, key
<1>11. p = q
  BY <1>10 DEF Sound, Unique
<1>. QED BY <1>11 DEF p, key

\* What the map has of each key.
Weighs(m, key, v) == \E q \in Active(m) : keyOf(m.cells[q]) = key /\ valueOf(m.cells[q]) = v

\* What get returns is the weight of the entry with the key, 0 if there is none.
LEMMA GetIs ==
  ASSUME NEW m, Sound(m), HasRoom(m), NEW key \in Keys
  PROVE  /\ get(m, key) \in Nat
         /\ \A v \in Nat \ {0} : get(m, key) = v <=> Weighs(m, key, v)
         /\ is_active(m, slot(m, key)) <=> get(m, key) # 0
         /\ get(m, key) # 0 <=> \E q \in Active(m) : keyOf(m.cells[q]) = key
<1>. DEFINE p == slot(m, key)
<1>1. EndsAt(m, key, p)
  BY SearchEnds DEF Sound
<1>2. \A q \in Active(m) : keyOf(m.cells[q]) = key => q = p
  BY SearchFinds
<1>3. \A q \in Active(m) : m.cells[q] \in Entry /\ valueOf(m.cells[q]) \in Nat \ {0}
  BY EntryIs DEF Active, Sound, IsMap
<1>4. get(m, key) = IF p \in Active(m) THEN valueOf(m.cells[p]) ELSE 0
  BY <1>1 DEF get, is_active, Active, EndsAt
<1>5. is_active(m, p) <=> p \in Active(m)
  BY <1>1 DEF is_active, Active, EndsAt
<1>6. p \in Active(m) => keyOf(m.cells[p]) = key
  BY <1>1 DEF EndsAt, Active
<1>. HIDE DEF p
<1>7. CASE p \in Active(m)
  BY <1>2, <1>3, <1>4, <1>5, <1>6, <1>7 DEF Weighs, p
<1>8. CASE p \notin Active(m)
  BY <1>2, <1>4, <1>5, <1>8 DEF Weighs, p
<1>. QED BY <1>7, <1>8

----------------------------------------------------------------------------
(* Inserting. *)

\* The value of an entry, and of a key that has none.
LEMMA GetOf ==
  ASSUME NEW m, Sound(m), HasRoom(m)
  PROVE  /\ \A q \in Active(m) : get(m, keyOf(m.cells[q])) = valueOf(m.cells[q])
         /\ \A key \in Keys : (\A q \in Active(m) : keyOf(m.cells[q]) # key) => get(m, key) = 0
<1>1. ASSUME NEW q \in Active(m) PROVE get(m, keyOf(m.cells[q])) = valueOf(m.cells[q])
  <2>1. m.cells[q] \in Entry
    BY DEF Active, Sound, IsMap
  <2>2. keyOf(m.cells[q]) \in Keys /\ valueOf(m.cells[q]) \in Nat \ {0}
    BY <2>1, EntryIs
  <2>. QED BY <2>2, GetIs DEF Weighs
<1>2. ASSUME NEW key \in Keys, \A q \in Active(m) : keyOf(m.cells[q]) # key
      PROVE  get(m, key) = 0
  BY <1>2, GetIs
<1>. QED BY <1>1, <1>2

\* Map m with c in cell p and k as its number of entries.
placed(m, p, c, k) == [m EXCEPT !.cells[p] = c, !.num = k]

\* The entry may lie there.
Fits(m, p, c) ==
  LET h == home(m, keyOf(c))
  IN  /\ stateOf(c) = dist(size(m), h, p) + 1
      /\ \A r \in Cells(m) : dist(size(m), r, p) <= dist(size(m), h, p) /\ r # p => m.cells[r] # EMPTY

\* What it leaves as it was.
LEMMA FieldsPlaced ==
  ASSUME NEW m, IsMap(m), NEW p \in Cells(m), NEW c \in Entry \union {EMPTY}, NEW k \in Nat
  PROVE  LET n == placed(m, p, c, k)
         IN  /\ IsMap(n) /\ n.lg = m.lg /\ n.lgMax = m.lgMax /\ n.num = k
             /\ size(n) = size(m) /\ Cells(n) = Cells(m)
             /\ \A key : home(n, key) = home(m, key)
             /\ \A q \in Cells(m) : n.cells[q] = IF q = p THEN c ELSE m.cells[q]
<1>. DEFINE n == placed(m, p, c, k)
<1>1. n = [lg |-> m.lg, lgMax |-> m.lgMax, num |-> k, cells |-> [m.cells EXCEPT ![p] = c]]
  <2>. DEFINE a == m.lg
              b == m.lgMax
              u == m.num
              A == m.cells
  <2>1. m = [lg |-> a, lgMax |-> b, num |-> u, cells |-> A]
    BY DEF IsMap
  <2>2. n = [m EXCEPT !.cells[p] = c, !.num = k]
    BY DEF placed
  <2>. HIDE DEF a, b, u, A, n
  <2>3. n = [lg |-> a, lgMax |-> b, num |-> k, cells |-> [A EXCEPT ![p] = c]]
    BY <2>1, <2>2
  <2>. QED BY <2>3 DEF a, b, u, A
<1>. HIDE DEF n
<1>2. size(n) = size(m) /\ Cells(n) = Cells(m) /\ \A key : home(n, key) = home(m, key)
  BY <1>1 DEF size, Cells, home
<1>3. n.cells \in [Cells(m) -> Entry \union {EMPTY}]
      /\ \A q \in Cells(m) : n.cells[q] = IF q = p THEN c ELSE m.cells[q]
  BY <1>1 DEF IsMap
<1>. QED BY <1>1, <1>2, <1>3 DEF IsMap, n

\* A new entry, or one in place of that with its key, leaves a sound table.
LEMMA PlacedIsSound ==
  ASSUME NEW m, Sound(m), NEW p \in Cells(m), NEW c \in Entry, Fits(m, p, c),
         \A q \in Active(m) : keyOf(m.cells[q]) = keyOf(c) => q = p
  PROVE  LET n == placed(m, p, c, Cardinality(Active(m) \union {p}))
         IN  Sound(n) /\ Active(n) = Active(m) \union {p}
<1>. DEFINE k == Cardinality(Active(m) \union {p})
            n == placed(m, p, c, k)
<1>0. IsMap(m) /\ c # EMPTY
  BY EntryIs DEF Sound
<1>1. k \in Nat
  BY <1>0, ActiveIs, FS_AddElement, FS_CardinalityType
<1>. HIDE DEF k
<1>2. /\ IsMap(n) /\ n.num = k
      /\ size(n) = size(m) /\ Cells(n) = Cells(m)
      /\ \A key : home(n, key) = home(m, key)
      /\ \A q \in Cells(m) : n.cells[q] = IF q = p THEN c ELSE m.cells[q]
  BY <1>0, <1>1, FieldsPlaced
<1>. HIDE DEF n
<1>3. Active(n) = Active(m) \union {p}
  BY <1>0, <1>2 DEF Active
<1>4. Unique(n)
  BY <1>2, <1>3 DEF Unique, Sound, Active
<1>5. ASSUME NEW q \in Active(n) PROVE InPlace(n, q)
  <2>1. q \in Cells(m)
    BY <1>3 DEF Active
  <2>2. \A r \in Cells(m) : m.cells[r] # EMPTY \/ r = p => n.cells[r] # EMPTY
    BY <1>0, <1>2
  <2>3. CASE q = p
    BY <1>2, <2>2, <2>3 DEF InPlace, Fits
  <2>4. CASE q # p
    <3>1. InPlace(m, q) /\ n.cells[q] = m.cells[q]
      BY <1>2, <1>3, <2>1, <2>4 DEF Sound
    <3>. QED BY <1>2, <2>2, <3>1 DEF InPlace
  <2>. QED BY <2>3, <2>4
<1>6. n.num = Cardinality(Active(n))
  BY <1>2, <1>3 DEF k
<1>. QED BY <1>2, <1>3, <1>4, <1>5, <1>6 DEF Sound, n, k

\* ... and what it is worth.
LEMMA PlacedGets ==
  ASSUME NEW m, Sound(m), HasRoom(m), NEW p \in Cells(m), NEW c \in Entry, NEW k \in Nat,
         Sound(placed(m, p, c, k)), HasRoom(placed(m, p, c, k)),
         m.cells[p] # EMPTY => keyOf(m.cells[p]) = keyOf(c)
  PROVE  \A key \in Keys : get(placed(m, p, c, k), key) =
                             IF key = keyOf(c) THEN valueOf(c) ELSE get(m, key)
<1>. DEFINE n == placed(m, p, c, k)
<1>0. IsMap(m) /\ c # EMPTY
  BY EntryIs DEF Sound
<1>1. /\ Cells(n) = Cells(m)
      /\ \A q \in Cells(m) : n.cells[q] = IF q = p THEN c ELSE m.cells[q]
  BY <1>0, FieldsPlaced
<1>. HIDE DEF n
<1>2. Active(n) = Active(m) \union {p}
  BY <1>0, <1>1 DEF Active
<1>3. ASSUME NEW key \in Keys, key = keyOf(c) PROVE get(n, key) = valueOf(c)
  BY <1>1, <1>2, <1>3, GetOf DEF n
<1>4. ASSUME NEW key \in Keys, key # keyOf(c) PROVE get(n, key) = get(m, key)
  <2>1. ASSUME NEW q \in Active(m), keyOf(m.cells[q]) = key PROVE get(n, key) = get(m, key)
    <3>1. q # p /\ q \in Active(n) /\ n.cells[q] = m.cells[q]
      BY <1>1, <1>2, <1>4, <2>1 DEF Active
    <3>2. get(m, key) = valueOf(m.cells[q])
      BY <2>1, GetOf
    <3>3. get(n, key) = valueOf(n.cells[q])
      BY <2>1, <3>1, GetOf DEF n
    <3>. QED BY <3>1, <3>2, <3>3
  <2>2. ASSUME \A q \in Active(m) : keyOf(m.cells[q]) # key PROVE get(n, key) = get(m, key)
    <3>1. \A q \in Active(n) : keyOf(n.cells[q]) # key
      BY <1>1, <1>2, <1>4, <2>2 DEF Active
    <3>2. get(n, key) = 0
      BY <3>1, GetOf DEF n
    <3>. QED BY <2>2, <3>2, GetOf
  <2>. QED BY <2>1, <2>2
<1>. QED BY <1>3, <1>4 DEF n

\* What an insertion or an adjustment adds to a key.
More(m, n, key, value) ==
  \A x \in Keys : get(n, x) = IF x = key THEN get(m, x) + value ELSE get(m, x)

SameShape(m, n) == n.lg = m.lg /\ n.lgMax = m.lgMax /\ size(n) = size(m)

\* A key that has an entry: its weight is added to.
LEMMA Adjusted ==
  ASSUME NEW m, Sound(m), HasRoom(m), NEW key \in Keys, NEW value \in Nat \ {0},
         get(m, key) # 0
  PROVE  LET n == internal_adjust_or_insert(m, key, value)
         IN  Sound(n) /\ HasRoom(n) /\ SameShape(m, n) /\ n.num = m.num /\ More(m, n, key, value)
<1>. DEFINE p == slot(m, key)
            c == <<key, valueOf(m.cells[p]) + value, stateOf(m.cells[p])>>
            n == internal_adjust_or_insert(m, key, value)
<1>0. IsMap(m)
  BY DEF Sound
<1>1. is_active(m, p)
  BY GetIs
<1>2. p \in Active(m) /\ p \in Cells(m) /\ keyOf(m.cells[p]) = key /\ m.cells[p] \in Entry
  BY <1>0, <1>1, SearchEnds DEF EndsAt, is_active, Active, IsMap
<1>3. valueOf(m.cells[p]) \in Nat \ {0} /\ stateOf(m.cells[p]) \in Nat \ {0}
  BY <1>2, EntryIs
<1>3a. valueOf(m.cells[p]) + value \in Nat \ {0}
  BY <1>3
<1>4. /\ c \in Entry /\ c # EMPTY
      /\ keyOf(c) = key /\ valueOf(c) = valueOf(m.cells[p]) + value /\ stateOf(c) = stateOf(m.cells[p])
  BY <1>3, <1>3a, EntryIs
<1>5. n = placed(m, p, c, m.num)
  BY <1>0, <1>1, <1>2 DEF internal_adjust_or_insert, placed, IsMap
<1>6. Fits(m, p, c)
  BY <1>2, <1>4 DEF Sound, InPlace, Fits
<1>7. m.num = Cardinality(Active(m) \union {p}) /\ Active(m) \union {p} = Active(m)
  BY <1>2 DEF Sound
<1>. HIDE DEF p, c, n
<1>8. \A q \in Active(m) : keyOf(m.cells[q]) = keyOf(c) => q = p
  BY <1>2, <1>4 DEF Sound, Unique
<1>9. Sound(n) /\ Active(n) = Active(m)
  BY <1>2, <1>4, <1>5, <1>6, <1>7, <1>8, PlacedIsSound
<1>10. SameShape(m, n) /\ n.num = m.num /\ Cells(n) = Cells(m)
  BY <1>0, <1>2, <1>4, <1>5, FieldsPlaced DEF SameShape, IsMap
<1>11. HasRoom(n)
  BY <1>9, <1>10 DEF HasRoom, Active
<1>12. get(m, key) = valueOf(m.cells[p])
  BY <1>2, GetOf
<1>13. More(m, n, key, value)
  <2>1. m.num \in Nat
    BY <1>0 DEF IsMap
  <2>2. \A x \in Keys : get(n, x) = IF x = keyOf(c) THEN valueOf(c) ELSE get(m, x)
    BY <1>2, <1>4, <1>5, <1>9, <1>11, <2>1, PlacedGets
  <2>. QED BY <1>4, <1>12, <2>2 DEF More
<1>. QED BY <1>9, <1>10, <1>11, <1>13 DEF n

\* A key that has none: it gets one, if the table has two cells to spare.
LEMMA Inserted ==
  ASSUME NEW m, Sound(m), NEW key \in Keys, NEW value \in Nat \ {0},
         m.num + 1 < size(m), get(m, key) = 0
  PROVE  LET n == internal_adjust_or_insert(m, key, value)
         IN  Sound(n) /\ HasRoom(n) /\ SameShape(m, n) /\ n.num = m.num + 1 /\ More(m, n, key, value)
<1>. DEFINE p == slot(m, key)
            c == <<key, value, drift(m, key) + 1>>
            n == internal_adjust_or_insert(m, key, value)
            N == size(m)
            h == home(m, key)
<1>0. IsMap(m) /\ m.num = Cardinality(Active(m)) /\ m.num \in Nat /\ N \in Nat \ {0}
  BY DEF Sound, IsMap
<1>0a. HasRoom(m)
  BY <1>0, ActiveIs
<1>1. ~ is_active(m, p) /\ \A q \in Active(m) : keyOf(m.cells[q]) # key
  BY <1>0a, GetIs
<1>2. EndsAt(m, key, p)
  BY <1>0, <1>0a, SearchEnds
<1>3. p \in Cells(m) /\ p \notin Active(m) /\ m.cells[p] = EMPTY
  BY <1>1, <1>2 DEF EndsAt, is_active, Active
<1>4. Cells(m) = 0 .. N - 1 /\ h \in 0 .. N - 1
  BY <1>0, HomeIs DEF Cells
<1>5. drift(m, key) = dist(N, h, p) /\ dist(N, h, p) \in 0 .. N - 1
  BY <1>0, <1>2, <1>3, <1>4, DistIs DEF EndsAt
<1>5a. drift(m, key) + 1 \in Nat \ {0}
  BY <1>0, <1>5
<1>6. /\ c \in Entry /\ c # EMPTY /\ keyOf(c) = key /\ valueOf(c) = value
      /\ stateOf(c) = dist(N, h, p) + 1
  BY <1>5, <1>5a, EntryIs
<1>7. n = placed(m, p, c, m.num + 1)
  BY <1>0, <1>1 DEF internal_adjust_or_insert, placed, IsMap
<1>8. \A r \in Cells(m) : dist(N, h, r) < dist(N, h, p) => m.cells[r] # EMPTY
  BY <1>2 DEF EndsAt
<1>9. Fits(m, p, c)
  <2>. HIDE DEF N, h, p, c
  <2>1. ASSUME NEW r \in Cells(m), dist(N, r, p) <= dist(N, h, p), r # p
        PROVE  m.cells[r] # EMPTY
    <3>1. r \in 0 .. N - 1 /\ p \in 0 .. N - 1
      BY <1>3, <1>4
    <3>2. /\ dist(N, r, p) = IF p >= r THEN p - r ELSE p - r + N
          /\ dist(N, h, p) = IF p >= h THEN p - h ELSE p - h + N
          /\ dist(N, h, r) = IF r >= h THEN r - h ELSE r - h + N
      BY <1>0, <1>4, <3>1, DistIs
    <3>3. dist(N, h, r) < dist(N, h, p)
      BY <1>0, <1>4, <2>1, <3>1, <3>2
    <3>. QED BY <1>8, <3>3
  <2>. QED BY <1>6, <2>1 DEF Fits, N, h
<1>10. Cardinality(Active(m) \union {p}) = m.num + 1
  <2>1. IsFiniteSet(Active(m))
    BY <1>0, ActiveIs
  <2>. HIDE DEF p
  <2>. QED BY <1>0, <1>3, <2>1, FS_AddElement
<1>. HIDE DEF p, c, n
<1>11. Sound(n) /\ Active(n) = Active(m) \union {p}
  BY <1>1, <1>3, <1>6, <1>7, <1>9, <1>10, PlacedIsSound
<1>12. SameShape(m, n) /\ n.num = m.num + 1
  BY <1>0, <1>3, <1>6, <1>7, FieldsPlaced DEF SameShape
<1>13. HasRoom(n)
  BY <1>0, <1>11, <1>12, ActiveIs DEF Sound, SameShape, N
<1>14. More(m, n, key, value)
  <2>1. m.num + 1 \in Nat
    BY <1>0
  <2>2. \A x \in Keys : get(n, x) = IF x = keyOf(c) THEN valueOf(c) ELSE get(m, x)
    BY <1>0a, <1>3, <1>6, <1>7, <1>11, <1>13, <2>1, PlacedGets
  <2>. QED BY <1>6, <2>2 DEF More
<1>. QED BY <1>11, <1>12, <1>13, <1>14 DEF n

----------------------------------------------------------------------------
(* The circle cut at an empty cell, behind which no cluster extends. *)

\* The place of cell q when the table is cut at cell e.
lin(m, e, q) == dist(size(m), e, q)

\* Places follow each other as cells do, and the distance of two cells is that
\* of their places unless it leads through the cut.
LEMMA LinIs ==
  ASSUME NEW m, IsMap(m), NEW e \in Cells(m)
  PROVE  /\ lin(m, e, e) = 0
         /\ \A q \in Cells(m) : lin(m, e, q) \in 0 .. size(m) - 1
         /\ \A q, r \in Cells(m) : lin(m, e, q) = lin(m, e, r) => q = r
         /\ \A q, r \in Cells(m) :
              dist(size(m), r, q) = IF lin(m, e, r) <= lin(m, e, q) THEN lin(m, e, q) - lin(m, e, r)
                                    ELSE lin(m, e, q) - lin(m, e, r) + size(m)
         /\ \A q \in Cells(m) : \A i \in 0 .. size(m) - 1 :
              /\ (q + i) % size(m) \in Cells(m)
              /\ lin(m, e, (q + i) % size(m)) = IF lin(m, e, q) + i < size(m) THEN lin(m, e, q) + i
                                                ELSE lin(m, e, q) + i - size(m)
<1>. DEFINE n == size(m)
            l(q) == dist(n, e, q)
<1>1. n \in Nat \ {0} /\ Cells(m) = 0 .. n - 1 /\ e \in 0 .. n - 1
  BY DEF IsMap, Cells
<1>. HIDE DEF n
<1>2. \A q \in 0 .. n - 1 : l(q) = (IF q >= e THEN q - e ELSE q - e + n) /\ l(q) \in 0 .. n - 1
  BY <1>1, DistIs
<1>3. \A q, r \in 0 .. n - 1 : dist(n, r, q) = IF q >= r THEN q - r ELSE q - r + n
  BY <1>1, DistIs
<1>. HIDE DEF l
<1>4. l(e) = 0 /\ \A q, r \in 0 .. n - 1 : l(q) = l(r) => q = r
  <2>1. ASSUME NEW q \in 0 .. n - 1, NEW r \in 0 .. n - 1, l(q) = l(r) PROVE q = r
    <3>1. (IF q >= e THEN q - e ELSE q - e + n) = (IF r >= e THEN r - e ELSE r - e + n)
      BY <1>2, <2>1
    <3>. QED BY <1>1, <3>1
  <2>2. l(e) = e - e
    BY <1>1, <1>2
  <2>. QED BY <1>1, <2>1, <2>2
<1>5. ASSUME NEW q \in 0 .. n - 1, NEW r \in 0 .. n - 1
      PROVE  dist(n, r, q) = IF l(r) <= l(q) THEN l(q) - l(r) ELSE l(q) - l(r) + n
  <2>1. dist(n, r, q) = IF q >= r THEN q - r ELSE q - r + n
    BY <1>3
  <2>2. /\ l(q) = IF q >= e THEN q - e ELSE q - e + n
        /\ l(r) = IF r >= e THEN r - e ELSE r - e + n
    BY <1>2
  <2>. QED BY <1>1, <2>1, <2>2
<1>6. ASSUME NEW q \in 0 .. n - 1, NEW i \in 0 .. n - 1
      PROVE  /\ (q + i) % n \in 0 .. n - 1
             /\ l((q + i) % n) = IF l(q) + i < n THEN l(q) + i ELSE l(q) + i - n
  <2>. DEFINE p == (q + i) % n
  <2>1. p = (IF q + i < n THEN q + i ELSE q + i - n) /\ p \in 0 .. n - 1
    BY <1>1, StepIs
  <2>. HIDE DEF p
  <2>2. /\ l(q) = IF q >= e THEN q - e ELSE q - e + n
        /\ l(p) = IF p >= e THEN p - e ELSE p - e + n
    BY <1>2, <2>1
  <2>3. l(p) = IF l(q) + i < n THEN l(q) + i ELSE l(q) + i - n
    BY <1>1, <2>1, <2>2
  <2>. QED BY <2>1, <2>3 DEF p
<1>. QED BY <1>1, <1>2, <1>4, <1>5, <1>6 DEF lin, n, l

\* Between the home of an entry and the entry no cell but the hole is empty.
Rooted(m, e, q, hole) ==
  LET h == home(m, keyOf(m.cells[q]))
  IN  /\ 0 < lin(m, e, h) /\ lin(m, e, h) <= lin(m, e, q)
      /\ stateOf(m.cells[q]) = lin(m, e, q) - lin(m, e, h) + 1
      /\ \A r \in Cells(m) : lin(m, e, h) <= lin(m, e, r) /\ lin(m, e, r) <= lin(m, e, q) /\ r # hole
                             => m.cells[r] # EMPTY

\* With the circle cut, an entry lies where it should if its home comes no later
\* than it, and no empty cell between.
LEMMA RootedIs ==
  ASSUME NEW m, IsMap(m), NEW e \in Cells(m), m.cells[e] = EMPTY, NEW q \in Active(m)
  PROVE  InPlace(m, q) <=> Rooted(m, e, q, e)
<1>. DEFINE n == size(m)
            h == home(m, keyOf(m.cells[q]))
            l(r) == lin(m, e, r)
            d(r, s) == dist(n, r, s)
<1>1. q \in Cells(m) /\ m.cells[q] \in Entry /\ keyOf(m.cells[q]) \in Keys
  BY EntryIs DEF Active, IsMap
<1>2. h \in Cells(m) /\ n \in Nat \ {0}
  BY <1>1, HomeIs DEF IsMap
<1>3. /\ l(e) = 0
      /\ \A r \in Cells(m) : l(r) \in 0 .. n - 1
      /\ \A r, s \in Cells(m) : l(r) = l(s) => r = s
      /\ \A r, s \in Cells(m) : d(r, s) = IF l(r) <= l(s) THEN l(s) - l(r) ELSE l(s) - l(r) + n
  BY LinIs
<1>4. InPlace(m, q) <=> /\ stateOf(m.cells[q]) = d(h, q) + 1
                        /\ \A r \in Cells(m) : d(r, q) <= d(h, q) => m.cells[r] # EMPTY
  BY DEF InPlace
<1>5. Rooted(m, e, q, e) <=>
        /\ 0 < l(h) /\ l(h) <= l(q)
        /\ stateOf(m.cells[q]) = l(q) - l(h) + 1
        /\ \A r \in Cells(m) : l(h) <= l(r) /\ l(r) <= l(q) /\ r # e => m.cells[r] # EMPTY
  BY DEF Rooted
<1>. HIDE DEF n, h, l, d
<1>6. ASSUME \A r \in Cells(m) : d(r, q) <= d(h, q) => m.cells[r] # EMPTY
      PROVE  /\ 0 < l(h) /\ l(h) <= l(q) /\ d(h, q) = l(q) - l(h)
             /\ \A r \in Cells(m) : l(h) <= l(r) /\ l(r) <= l(q) => m.cells[r] # EMPTY
  <2>1. ~ (d(e, q) <= d(h, q))
    BY <1>6
  <2>2. d(e, q) = l(q)
    BY <1>1, <1>3
  <2>3. l(h) <= l(q) /\ d(h, q) = l(q) - l(h)
    BY <1>1, <1>2, <1>3, <2>1, <2>2
  <2>4. 0 < l(h)
    BY <1>1, <1>2, <1>3, <2>1, <2>2, <2>3
  <2>5. ASSUME NEW r \in Cells(m), l(h) <= l(r), l(r) <= l(q) PROVE m.cells[r] # EMPTY
    <3>1. d(r, q) <= d(h, q)
      BY <1>1, <1>2, <1>3, <2>3, <2>5
    <3>. QED BY <1>6, <3>1
  <2>. QED BY <2>3, <2>4, <2>5
<1>7. ASSUME 0 < l(h), l(h) <= l(q),
             \A r \in Cells(m) : l(h) <= l(r) /\ l(r) <= l(q) /\ r # e => m.cells[r] # EMPTY
      PROVE  /\ d(h, q) = l(q) - l(h)
             /\ \A r \in Cells(m) : d(r, q) <= d(h, q) => m.cells[r] # EMPTY
  <2>1. d(h, q) = l(q) - l(h)
    BY <1>1, <1>2, <1>3, <1>7
  <2>2. ASSUME NEW r \in Cells(m), d(r, q) <= d(h, q) PROVE m.cells[r] # EMPTY
    <3>1. l(h) <= l(r) /\ l(r) <= l(q)
      BY <1>1, <1>2, <1>3, <1>7, <2>1, <2>2
    <3>2. r # e
      BY <1>2, <1>3, <1>7, <3>1
    <3>. QED BY <1>7, <3>1, <3>2
  <2>. QED BY <2>1, <2>2
<1>. QED BY <1>4, <1>5, <1>6, <1>7

----------------------------------------------------------------------------
(* Deleting. *)

\* Entry q reaches over the hole.
Over(m, e, q, hole) ==
  lin(m, e, home(m, keyOf(m.cells[q]))) <= lin(m, e, hole) /\ lin(m, e, hole) <= lin(m, e, q)

\* An item at or behind a place.
Above(m, e, low, key, v) ==
  \E q \in Active(m) : lin(m, e, q) >= low /\ keyOf(m.cells[q]) = key /\ valueOf(m.cells[q]) = v

\* The map n that a deletion of the entry in cell p of m has come to.
Deleting(m, e, p, n, hole) ==
  /\ IsMap(n) /\ SameShape(m, n) /\ n.num = m.num
  /\ hole \in Cells(m) /\ hole # e /\ lin(m, e, p) <= lin(m, e, hole)
  /\ n.cells[e] = EMPTY /\ n.cells[hole] = EMPTY
  /\ Unique(n) /\ Cardinality(Active(n)) = Cardinality(Active(m)) - 1
  /\ \A q \in Active(n) : Rooted(n, e, q, hole)
  /\ \A q \in Cells(m) : lin(m, e, q) < lin(m, e, p) => n.cells[q] = m.cells[q]
  /\ \A key, v : Above(n, e, lin(m, e, p), key, v) <=> Above(m, e, lin(m, e, p) + 1, key, v)

filling(a, q, i, h) == fillHole(h, q[i])

filledUpTo(a, q, i, h) ==
  /\ h = [map |-> h.map, hole |-> h.hole, done |-> h.done] /\ h.done \in BOOLEAN
  /\ Deleting(a.m, a.e, a.at, h.map, h.hole)
  /\ IF h.done THEN \A r \in Active(h.map) : ~ Over(h.map, a.e, r, h.hole)
     ELSE /\ lin(a.m, a.e, a.at) + i < size(a.m)
          /\ lin(a.m, a.e, h.hole) <= lin(a.m, a.e, a.at) + i
          /\ \A r \in Active(h.map) : lin(a.m, a.e, r) <= lin(a.m, a.e, a.at) + i
                                      => ~ Over(h.map, a.e, r, h.hole)

Fills == INSTANCE FoldTheorems WITH step <- filling, choose <- lastOf, Good <- filledUpTo

\* The fields of a map with two cells exchanged.
movedTo(m, hole, p, c) == [m EXCEPT !.cells[hole] = c, !.cells[p] = EMPTY]

\* What moving an entry into the hole leaves as it was.
LEMMA FieldsMoved ==
  ASSUME NEW m, IsMap(m), NEW hole \in Cells(m), NEW p \in Cells(m), hole # p, NEW c \in Entry
  PROVE  LET n == movedTo(m, hole, p, c)
         IN  /\ IsMap(n) /\ SameShape(m, n) /\ n.num = m.num /\ Cells(n) = Cells(m)
             /\ \A key : home(n, key) = home(m, key)
             /\ \A e, q : lin(n, e, q) = lin(m, e, q)
             /\ \A q \in Cells(m) : n.cells[q] = IF q = hole THEN c ELSE IF q = p THEN EMPTY ELSE m.cells[q]
<1>. DEFINE n == movedTo(m, hole, p, c)
<1>1. n = [lg |-> m.lg, lgMax |-> m.lgMax, num |-> m.num, cells |-> [[m.cells EXCEPT ![hole] = c] EXCEPT ![p] = EMPTY]]
  <2>. DEFINE a == m.lg
              b == m.lgMax
              u == m.num
              A == m.cells
  <2>1. m = [lg |-> a, lgMax |-> b, num |-> u, cells |-> A]
    BY DEF IsMap
  <2>2. n = [m EXCEPT !.cells[hole] = c, !.cells[p] = EMPTY]
    BY DEF movedTo
  <2>. HIDE DEF a, b, u, A, n
  <2>3. n = [lg |-> a, lgMax |-> b, num |-> u, cells |-> [[A EXCEPT ![hole] = c] EXCEPT ![p] = EMPTY]]
    BY <2>1, <2>2
  <2>. QED BY <2>3 DEF a, b, u, A
<1>. HIDE DEF n
<1>2. /\ size(n) = size(m) /\ Cells(n) = Cells(m) /\ \A key : home(n, key) = home(m, key)
      /\ \A e, q : lin(n, e, q) = lin(m, e, q)
  BY <1>1 DEF size, Cells, home, lin
<1>3. n.cells \in [Cells(m) -> Entry \union {EMPTY}]
      /\ \A q \in Cells(m) : n.cells[q] = IF q = hole THEN c ELSE IF q = p THEN EMPTY ELSE m.cells[q]
  BY <1>1 DEF IsMap
<1>. QED BY <1>1, <1>2, <1>3 DEF IsMap, SameShape, n

\* Places are numbers, and no two cells have the same.
LEMMA Places ==
  ASSUME NEW m, IsMap(m), NEW e \in Cells(m)
  PROVE  /\ lin(m, e, e) = 0
         /\ \A q \in Cells(m) : lin(m, e, q) \in Nat /\ lin(m, e, q) < size(m)
         /\ \A q, r \in Cells(m) : lin(m, e, q) = lin(m, e, r) => q = r
<1>1. size(m) \in Nat
  BY DEF IsMap
<1>2. \A q \in Cells(m) : lin(m, e, q) \in 0 .. size(m) - 1
  BY LinIs
<1>3. ASSUME NEW q \in Cells(m) PROVE lin(m, e, q) \in Nat /\ lin(m, e, q) < size(m)
  <2>. DEFINE k == lin(m, e, q)
              n == size(m)
  <2>1. k \in 0 .. n - 1 /\ n \in Nat
    BY <1>1, <1>2
  <2>. HIDE DEF k, n
  <2>2. k \in Nat /\ k < n
    BY <2>1
  <2>. QED BY <2>2 DEF k, n
<1>4. lin(m, e, e) = 0
  BY LinIs
<1>5. \A q, r \in Cells(m) : lin(m, e, q) = lin(m, e, r) => q = r
  BY LinIs
<1>. QED BY <1>3, <1>4, <1>5

\* Places do not depend on what the cells hold.
LEMMA SameLin ==
  ASSUME NEW m, NEW n, SameShape(m, n)
  PROVE  /\ Cells(n) = Cells(m)
         /\ \A key : home(n, key) = home(m, key)
         /\ \A e, q : lin(n, e, q) = lin(m, e, q)
BY DEF SameShape, Cells, home, lin

\* A cell in use is no other cell.
LEMMA EmptyIsOther ==
  ASSUME NEW m, NEW q \in Active(m)
  PROVE  q \in Cells(m) /\ m.cells[q] # EMPTY
BY DEF Active

\* The entry is taken out.
LEMMA DeleteStarts ==
  ASSUME NEW m, Sound(m), NEW e \in Cells(m), m.cells[e] = EMPTY, NEW p \in Active(m)
  PROVE  /\ Deleting(m, e, p, [m EXCEPT !.cells[p] = EMPTY], p)
         /\ \A r \in Active([m EXCEPT !.cells[p] = EMPTY]) :
              lin(m, e, r) <= lin(m, e, p) => ~ Over([m EXCEPT !.cells[p] = EMPTY], e, r, p)
<1>. DEFINE n == [m EXCEPT !.cells[p] = EMPTY]
            l(q) == lin(m, e, q)
<1>0. IsMap(m) /\ p \in Cells(m) /\ m.cells[p] # EMPTY
  BY DEF Sound, Active
<1>1. n = placed(m, p, EMPTY, m.num)
  BY <1>0 DEF placed, IsMap
<1>. HIDE DEF n
<1>2. /\ IsMap(n) /\ SameShape(m, n) /\ n.num = m.num
      /\ \A q \in Cells(m) : n.cells[q] = IF q = p THEN EMPTY ELSE m.cells[q]
  <2>1. m.num \in Nat
    BY <1>0 DEF IsMap
  <2>2. /\ IsMap(n) /\ n.lg = m.lg /\ n.lgMax = m.lgMax /\ n.num = m.num /\ size(n) = size(m)
        /\ \A q \in Cells(m) : n.cells[q] = IF q = p THEN EMPTY ELSE m.cells[q]
    BY <1>0, <1>1, <2>1, FieldsPlaced
  <2>. QED BY <2>2 DEF SameShape
<1>3. /\ Cells(n) = Cells(m) /\ \A key : home(n, key) = home(m, key)
      /\ \A q : lin(n, e, q) = l(q)
  BY <1>2, SameLin
<1>4. /\ l(e) = 0 /\ \A q \in Cells(m) : l(q) \in Nat
      /\ \A q, r \in Cells(m) : l(q) = l(r) => q = r
  BY <1>0, Places
<1>5. Active(n) = Active(m) \ {p} /\ p # e
  BY <1>0, <1>2, <1>3 DEF Active
<1>6. Cardinality(Active(n)) = Cardinality(Active(m)) - 1
  BY <1>0, <1>5, ActiveIs, FS_RemoveElement
<1>7. Unique(n)
  BY <1>0, <1>2, <1>5, EmptyIsOther DEF Unique, Sound
<1>8. \A q \in Active(n) : q \in Active(m) /\ q \in Cells(m) /\ q # p /\ n.cells[q] = m.cells[q]
  BY <1>2, <1>5 DEF Active
<1>. HIDE DEF l
<1>9. ASSUME NEW q \in Active(n) PROVE Rooted(n, e, q, p)
  <2>1. Rooted(m, e, q, e)
    BY <1>0, <1>8, RootedIs DEF Sound
  <2>2. home(m, keyOf(m.cells[q])) \in Cells(m)
    <3>1. m.cells[q] \in Entry
      BY <1>0, <1>8 DEF Active, IsMap
    <3>2. keyOf(m.cells[q]) \in Keys
      BY <3>1, EntryIs
    <3>. QED BY <1>0, <3>2, HomeIs
  <2>3. ASSUME NEW r \in Cells(m), l(home(m, keyOf(m.cells[q]))) <= l(r), l(r) <= l(q), r # p
        PROVE  n.cells[r] # EMPTY
    <3>1. r # e
      BY <1>4, <2>1, <2>2, <2>3 DEF Rooted, l
    <3>. QED BY <1>2, <2>1, <2>3, <3>1 DEF Rooted, l
  <2>. QED BY <1>3, <1>8, <2>1, <2>3 DEF Rooted, l
<1>10. \A key, v : Above(n, e, l(p), key, v) <=> Above(m, e, l(p) + 1, key, v)
  <2>1. \A q \in Active(n) : q \in Active(m) /\ (l(q) >= l(p) => l(q) >= l(p) + 1)
    BY <1>0, <1>4, <1>8
  <2>2. \A q \in Active(m) : l(q) >= l(p) + 1 => q \in Active(n) /\ l(q) >= l(p)
    BY <1>0, <1>4, <1>5, EmptyIsOther
  <2>. QED BY <1>3, <1>8, <2>1, <2>2 DEF Above, l
<1>11. \A r \in Active(n) : l(r) <= l(p) => ~ Over(n, e, r, p)
  <2>1. ASSUME NEW r \in Active(n), l(r) <= l(p), l(p) <= l(r) PROVE FALSE
    BY <1>0, <1>4, <1>8, <2>1
  <2>. QED BY <1>3, <2>1 DEF Over, l
<1>12. \A q \in Cells(m) : l(q) < l(p) => n.cells[q] = m.cells[q]
  BY <1>0, <1>2, <1>4
<1>13. n.cells[e] = EMPTY /\ n.cells[p] = EMPTY /\ l(p) <= l(p)
  BY <1>0, <1>2, <1>4
<1>14. Deleting(m, e, p, n, p)
  BY <1>0, <1>2, <1>5, <1>6, <1>7, <1>9, <1>10, <1>12, <1>13 DEF Deleting, l
<1>. QED BY <1>11, <1>14 DEF n, l

\* An entry behind the hole whose home is not moves into it.
LEMMA DeleteMoves ==
  ASSUME NEW m, IsMap(m), NEW e \in Cells(m), NEW p \in Cells(m), NEW n, NEW hole,
         Deleting(m, e, p, n, hole), NEW c \in Active(n),
         lin(m, e, hole) < lin(m, e, c), Over(n, e, c, hole)
  PROVE  LET d == lin(m, e, c) - lin(m, e, hole)
             x == <<keyOf(n.cells[c]), valueOf(n.cells[c]), stateOf(n.cells[c]) - d>>
         IN  Deleting(m, e, p, movedTo(n, hole, c, x), c)
<1>. DEFINE l(q) == lin(m, e, q)
            d == l(c) - l(hole)
            x == <<keyOf(n.cells[c]), valueOf(n.cells[c]), stateOf(n.cells[c]) - d>>
            o == movedTo(n, hole, c, x)
            h == home(m, keyOf(n.cells[c]))
<1>0. IsMap(n) /\ SameShape(m, n) /\ hole \in Cells(m) /\ hole # e /\ n.cells[hole] = EMPTY /\ n.cells[e] = EMPTY
  BY DEF Deleting
<1>1. /\ Cells(n) = Cells(m) /\ \A key : home(n, key) = home(m, key)
      /\ \A q : lin(n, e, q) = l(q)
  BY <1>0, SameLin
<1>2. /\ l(e) = 0 /\ \A q \in Cells(m) : l(q) \in Nat
      /\ \A q, r \in Cells(m) : l(q) = l(r) => q = r
  BY Places
<1>3. c \in Cells(m) /\ n.cells[c] # EMPTY /\ n.cells[c] \in Entry /\ c # hole /\ c # e
  BY <1>0, <1>1 DEF Active, IsMap
<1>4. keyOf(n.cells[c]) \in Keys /\ valueOf(n.cells[c]) \in Nat \ {0} /\ stateOf(n.cells[c]) \in Nat \ {0}
  BY <1>3, EntryIs
<1>5. h \in Cells(m)
  BY <1>4, HomeIs
<1>. HIDE DEF l
<1>6. /\ 0 < l(h) /\ l(h) <= l(hole) /\ l(hole) < l(c)
      /\ stateOf(n.cells[c]) = l(c) - l(h) + 1
      /\ \A r \in Cells(m) : l(h) <= l(r) /\ l(r) <= l(c) /\ r # hole => n.cells[r] # EMPTY
  BY <1>1 DEF Deleting, Rooted, Over, l
<1>7. stateOf(n.cells[c]) - d = l(hole) - l(h) + 1 /\ stateOf(n.cells[c]) - d \in Nat \ {0}
  BY <1>0, <1>2, <1>3, <1>5, <1>6
<1>. HIDE DEF d
<1>8. /\ x \in Entry /\ x # EMPTY /\ keyOf(x) = keyOf(n.cells[c])
      /\ valueOf(x) = valueOf(n.cells[c]) /\ stateOf(x) = l(hole) - l(h) + 1
  BY <1>4, <1>7, EntryIs
<1>. HIDE DEF x, o, h
<1>9. /\ IsMap(o) /\ SameShape(n, o) /\ o.num = n.num /\ Cells(o) = Cells(m)
      /\ \A key : home(o, key) = home(m, key)
      /\ \A q : lin(o, e, q) = l(q)
      /\ \A q \in Cells(m) : o.cells[q] = IF q = hole THEN x ELSE IF q = c THEN EMPTY ELSE n.cells[q]
  <2>1. hole \in Cells(n) /\ c \in Cells(n) /\ hole # c
    BY <1>0, <1>1, <1>3
  <2>2. /\ IsMap(o) /\ SameShape(n, o) /\ o.num = n.num /\ Cells(o) = Cells(n)
        /\ \A key : home(o, key) = home(n, key)
        /\ \A q : lin(o, e, q) = lin(n, e, q)
        /\ \A q \in Cells(n) : o.cells[q] = IF q = hole THEN x ELSE IF q = c THEN EMPTY ELSE n.cells[q]
    BY <1>0, <1>8, <2>1, FieldsMoved DEF o
  <2>. QED BY <1>1, <2>2
<1>10. Active(o) = (Active(n) \ {c}) \union {hole} /\ hole \notin Active(n)
  BY <1>0, <1>1, <1>3, <1>8, <1>9 DEF Active
<1>11. Cardinality(Active(o)) = Cardinality(Active(n))
  <2>1. IsFiniteSet(Active(n)) /\ Cardinality(Active(n)) \in Nat
    BY <1>0, ActiveIs
  <2>2. IsFiniteSet(Active(n) \ {c}) /\ Cardinality(Active(n) \ {c}) = Cardinality(Active(n)) - 1
    BY <2>1, FS_RemoveElement
  <2>3. Cardinality((Active(n) \ {c}) \union {hole}) = Cardinality(Active(n) \ {c}) + 1
    BY <1>10, <2>2, FS_AddElement
  <2>. QED BY <1>10, <2>1, <2>2, <2>3
<1>12. \A q \in Active(o) : q # hole => q \in Active(n) /\ q # c /\ q \in Cells(m) /\ o.cells[q] = n.cells[q]
  BY <1>1, <1>9, <1>10 DEF Active
<1>13. Unique(o)
  <2>1. Unique(n)
    BY DEF Deleting
  <2>2. \A q \in Active(n) : keyOf(n.cells[q]) = keyOf(x) => q = c
    BY <1>8, <2>1 DEF Unique
  <2>3. o.cells[hole] = x
    BY <1>0, <1>9
  <2>. QED BY <1>12, <2>1, <2>2, <2>3 DEF Unique
<1>14. \A r \in Cells(m) : (r = hole \/ n.cells[r] # EMPTY) /\ r # c => o.cells[r] # EMPTY
  BY <1>8, <1>9
<1>15. ASSUME NEW q \in Active(o) PROVE Rooted(o, e, q, c)
  <2>1. CASE q = hole
    <3>1. o.cells[q] = x /\ home(o, keyOf(o.cells[q])) = h
      BY <1>0, <1>8, <1>9, <2>1 DEF h
    <3>2. ASSUME NEW r \in Cells(m), l(h) <= l(r), l(r) <= l(hole), r # c PROVE o.cells[r] # EMPTY
      <4>1. l(r) <= l(c)
        BY <1>0, <1>2, <1>3, <1>6, <3>2
      <4>. QED BY <1>6, <1>14, <3>2, <4>1
    <3>. QED BY <1>6, <1>8, <1>9, <2>1, <3>1, <3>2 DEF Rooted
  <2>2. CASE q # hole
    <3>1. Rooted(n, e, q, hole) /\ o.cells[q] = n.cells[q]
      BY <1>12, <2>2 DEF Deleting
    <3>. QED BY <1>1, <1>9, <1>14, <3>1 DEF Rooted
  <2>. QED BY <2>1, <2>2
<1>16. l(p) <= l(hole) /\ l(p) \in Nat /\ l(hole) \in Nat /\ l(c) \in Nat
  BY <1>0, <1>2, <1>3 DEF Deleting, l
<1>17. \A key, v : Above(o, e, l(p), key, v) <=> Above(n, e, l(p), key, v)
  <2>1. o.cells[hole] = x /\ hole \in Active(o) /\ l(hole) >= l(p) /\ l(c) >= l(p)
    BY <1>0, <1>6, <1>9, <1>10, <1>16
  <2>2. ASSUME NEW key, NEW v, Above(o, e, l(p), key, v) PROVE Above(n, e, l(p), key, v)
    <3>1. PICK q \in Active(o) : l(q) >= l(p) /\ keyOf(o.cells[q]) = key /\ valueOf(o.cells[q]) = v
      BY <1>9, <2>2 DEF Above
    <3>2. CASE q = hole
      BY <1>1, <1>8, <2>1, <3>1, <3>2 DEF Above
    <3>3. CASE q # hole
      BY <1>1, <1>12, <3>1, <3>3 DEF Above
    <3>. QED BY <3>2, <3>3
  <2>3. ASSUME NEW key, NEW v, Above(n, e, l(p), key, v) PROVE Above(o, e, l(p), key, v)
    <3>1. PICK q \in Active(n) : l(q) >= l(p) /\ keyOf(n.cells[q]) = key /\ valueOf(n.cells[q]) = v
      BY <1>1, <2>3 DEF Above
    <3>2. CASE q = c
      BY <1>8, <1>9, <2>1, <3>1, <3>2 DEF Above
    <3>3. CASE q # c
      <4>1. q \in Active(o) /\ q # hole
        BY <1>10, <3>1, <3>3
      <4>. QED BY <1>9, <1>12, <3>1, <4>1 DEF Above
    <3>. QED BY <3>2, <3>3
  <2>. QED BY <2>2, <2>3
<1>18. \A q \in Cells(m) : l(q) < l(p) => o.cells[q] = m.cells[q]
  <2>1. \A q \in Cells(m) : l(q) < l(p) => q # hole /\ q # c
    BY <1>2, <1>6, <1>16
  <2>2. \A q \in Cells(m) : l(q) < l(p) => n.cells[q] = m.cells[q]
    BY DEF Deleting, l
  <2>. QED BY <1>9, <2>1, <2>2
<1>19. Deleting(m, e, p, o, c)
  <2>1. o.cells[e] = EMPTY /\ o.cells[c] = EMPTY
    BY <1>0, <1>3, <1>9
  <2>2. SameShape(m, o) /\ o.num = m.num
    BY <1>0, <1>9 DEF SameShape, Deleting
  <2>3. l(p) <= l(c)
    BY <1>6, <1>16
  <2>4. Cardinality(Active(o)) = Cardinality(Active(m)) - 1
    BY <1>11 DEF Deleting
  <2>5. \A key, v : Above(o, e, l(p), key, v) <=> Above(m, e, l(p) + 1, key, v)
    BY <1>17 DEF Deleting, l
  <2>. QED BY <1>3, <1>9, <1>13, <1>15, <1>18, <2>1, <2>2, <2>3, <2>4, <2>5 DEF Deleting, l
<1>. QED BY <1>19 DEF o, x, d, l

\* What becomes of the state of the loop.
filled(h, p, x) == [h EXCEPT !.map.cells[h.hole] = x, !.map.cells[p] = EMPTY, !.hole = p]
finished(h) == [h EXCEPT !.done = TRUE]

\* The two assignments of one step, as one record,
LEMMA RecordFilled ==
  ASSUME NEW a, NEW b, NEW u, NEW A, NEW hole, NEW d, NEW p, NEW x, NEW h,
         h = [map |-> [lg |-> a, lgMax |-> b, num |-> u, cells |-> A], hole |-> hole, done |-> d]
  PROVE  filled(h, p, x) = [map |-> [lg |-> a, lgMax |-> b, num |-> u, cells |-> [[A EXCEPT ![hole] = x] EXCEPT ![p] = EMPTY]],
            hole |-> p, done |-> d]
<1>. DEFINE B == [A EXCEPT ![hole] = x]
            C == [B EXCEPT ![p] = EMPTY]
            g == [h EXCEPT !.map.cells[hole] = x]
            f == [g EXCEPT !.map.cells[p] = EMPTY]
<1>1. g = [map |-> [lg |-> a, lgMax |-> b, num |-> u, cells |-> B], hole |-> hole, done |-> d]
  OBVIOUS
<1>. HIDE DEF g, B
<1>2. f = [map |-> [lg |-> a, lgMax |-> b, num |-> u, cells |-> C], hole |-> hole, done |-> d]
  BY <1>1
<1>. HIDE DEF f, C
<1>3. [f EXCEPT !.hole = p] = [map |-> [lg |-> a, lgMax |-> b, num |-> u, cells |-> C], hole |-> p, done |-> d]
  BY <1>2
<1>4. filled(h, p, x) = [h EXCEPT !.map.cells[hole] = x, !.map.cells[p] = EMPTY, !.hole = p]
  BY DEF filled
<1>. QED BY <1>3, <1>4 DEF f, g, C, B

\* ... which is that of the entry moved.
LEMMA FieldsFilled ==
  ASSUME NEW h, h = [map |-> h.map, hole |-> h.hole, done |-> h.done], IsMap(h.map), NEW p, NEW x
  PROVE  /\ finished(h) = [map |-> h.map, hole |-> h.hole, done |-> TRUE]
         /\ filled(h, p, x) = [map |-> movedTo(h.map, h.hole, p, x), hole |-> p, done |-> h.done]
<1>. DEFINE n == h.map
            hole == h.hole
            d == h.done
            a == n.lg
            b == n.lgMax
            u == n.num
            A == n.cells
            o == movedTo(n, hole, p, x)
<1>1. n = [lg |-> a, lgMax |-> b, num |-> u, cells |-> A]
  BY DEF IsMap
<1>2. o = [n EXCEPT !.cells[hole] = x, !.cells[p] = EMPTY]
  BY DEF movedTo
<1>4. h = [map |-> n, hole |-> hole, done |-> d] /\ h.map = n /\ h.hole = hole /\ h.done = d
  OBVIOUS
<1>5. filled(h, p, x) = [h EXCEPT !.map.cells[hole] = x, !.map.cells[p] = EMPTY, !.hole = p]
      /\ finished(h) = [h EXCEPT !.done = TRUE]
  BY DEF filled, finished
<1>. HIDE DEF a, b, u, A, o, n, hole, d
<1>3. o = [lg |-> a, lgMax |-> b, num |-> u, cells |-> [[A EXCEPT ![hole] = x] EXCEPT ![p] = EMPTY]]
  BY <1>1, <1>2
<1>6. filled(h, p, x)
        = [map |-> [lg |-> a, lgMax |-> b, num |-> u, cells |-> [[A EXCEPT ![hole] = x] EXCEPT ![p] = EMPTY]],
           hole |-> p, done |-> d]
  BY <1>1, <1>4, RecordFilled
<1>7. finished(h) = [map |-> n, hole |-> hole, done |-> TRUE]
  BY <1>4, <1>5
<1>. QED BY <1>3, <1>6, <1>7 DEF o, n, hole, d

\* One turn of the loop.
LEMMA FillStep ==
  ASSUME NEW m, IsMap(m), NEW e \in Cells(m), NEW p \in Cells(m), p # e,
         NEW i \in 1 .. size(m) - 1, NEW q, NEW a, a = [m |-> m, e |-> e, at |-> p],
         NEW h, filledUpTo(a, q, i - 1, h)
  PROVE  filledUpTo(a, q, i, fillHole(h, (p + i) % size(m)))
<1>. DEFINE l(r) == lin(m, e, r)
            S == size(m)
            c == (p + i) % S
            n == h.map
            hole == h.hole
<1>0. a.m = m /\ a.e = e /\ a.at = p
  OBVIOUS
<1>1. /\ h = [map |-> n, hole |-> hole, done |-> h.done] /\ h.done \in BOOLEAN
      /\ Deleting(m, e, p, n, hole)
      /\ h.done => \A r \in Active(n) : ~ Over(n, e, r, hole)
      /\ ~ h.done => /\ l(p) + (i - 1) < S /\ l(hole) <= l(p) + (i - 1)
                     /\ \A r \in Active(n) : l(r) <= l(p) + (i - 1) => ~ Over(n, e, r, hole)
  <2>1. \A r : lin(n, e, r) = l(r)
    BY <1>0, SameLin DEF filledUpTo, Deleting
  <2>. QED BY <1>0, <2>1 DEF filledUpTo
<1>2. /\ IsMap(n) /\ SameShape(m, n) /\ hole \in Cells(m) /\ n.cells[e] = EMPTY /\ n.cells[hole] = EMPTY
      /\ \A r \in Active(n) : Rooted(n, e, r, hole)
  BY <1>1 DEF Deleting
<1>3. Cells(n) = Cells(m) /\ size(n) = S /\ (\A key : home(n, key) = home(m, key))
      /\ \A r : lin(n, e, r) = l(r)
  BY <1>2, SameLin DEF SameShape
<1>4. S \in Nat \ {0} /\ l(e) = 0 /\ (\A r \in Cells(m) : l(r) \in Nat /\ l(r) < S)
      /\ (\A r, s \in Cells(m) : l(r) = l(s) => r = s)
  BY Places DEF IsMap
<1>5. c \in Cells(m) /\ l(c) = IF l(p) + i < S THEN l(p) + i ELSE l(p) + i - S
  <2>1. i \in 0 .. S - 1
    BY <1>4
  <2>. QED BY <2>1, LinIs
<1>6. dist(S, hole, c) = IF l(hole) <= l(c) THEN l(c) - l(hole) ELSE l(c) - l(hole) + S
  <2>1. \A r, s \in Cells(m) : dist(S, r, s) = IF l(r) <= l(s) THEN l(s) - l(r) ELSE l(s) - l(r) + S
    BY LinIs
  <2>. HIDE DEF c, l, S, hole
  <2>. QED BY <1>2, <1>5, <2>1
<1>7. fillHole(h, c) = IF h.done \/ n.cells[c] = EMPTY THEN finished(h)
                       ELSE IF moves(n.cells[c], dist(S, hole, c))
                       THEN filled(h, c, <<keyOf(n.cells[c]), valueOf(n.cells[c]),
                                           stateOf(n.cells[c]) - dist(S, hole, c)>>)
                       ELSE h
  BY <1>3 DEF fillHole, dist, finished, filled
<1>. HIDE DEF l, S, c, n, hole
<1>8. CASE h.done \/ n.cells[c] = EMPTY
  <2>1. fillHole(h, c) = [map |-> n, hole |-> hole, done |-> TRUE]
    <3>1. hole \in Cells(n) /\ c \in Cells(n)
      BY <1>2, <1>3, <1>5
    <3>2. finished(h) = [map |-> n, hole |-> hole, done |-> TRUE]
      BY <1>1, <1>2, FieldsFilled DEF n, hole
    <3>. QED BY <1>7, <1>8, <3>2
  <2>2. ASSUME NEW r \in Active(n) PROVE ~ Over(n, e, r, hole)
    <3>1. CASE h.done
      BY <1>1, <3>1
    <3>2. CASE ~ h.done /\ n.cells[c] = EMPTY
      <4>. SUFFICES ASSUME Over(n, e, r, hole) PROVE FALSE
        OBVIOUS
      <4>1. r \in Cells(m) /\ l(r) > l(p) + (i - 1)
        BY <1>1, <1>3, <1>4, <3>2 DEF Active
      <4>2. l(c) = l(p) + i /\ l(c) <= l(r)
        BY <1>1, <1>4, <1>5, <3>2, <4>1
      <4>3. l(home(n, keyOf(n.cells[r]))) <= l(hole) /\ l(hole) < l(c)
        BY <1>1, <1>2, <1>3, <1>4, <3>2, <4>2 DEF Over
      <4>4. l(home(n, keyOf(n.cells[r]))) <= l(c)
        <5>1. home(n, keyOf(n.cells[r])) \in Cells(m)
          <6>1. n.cells[r] \in Entry
            BY <1>2 DEF Active, IsMap
          <6>2. keyOf(n.cells[r]) \in Keys
            BY <6>1, EntryIs
          <6>. QED BY <1>2, <1>3, <6>2, HomeIs
        <5>. QED BY <1>2, <1>4, <1>5, <4>3, <5>1
      <4>5. c # hole
        BY <1>4, <4>3, <1>2
      <4>. QED BY <1>2, <1>3, <1>5, <3>2, <4>2, <4>4, <4>5 DEF Rooted
    <3>. QED BY <1>8, <3>1, <3>2
  <2>. DEFINE g == fillHole(h, c)
  <2>3. g = [map |-> g.map, hole |-> g.hole, done |-> g.done] /\ g.map = n /\ g.hole = hole /\ g.done = TRUE
    BY <2>1
  <2>. HIDE DEF g
  <2>4. filledUpTo(a, q, i, g)
    BY <1>0, <1>1, <2>2, <2>3 DEF filledUpTo
  <2>. QED BY <2>4 DEF g, c, S
<1>9. CASE ~ h.done /\ n.cells[c] # EMPTY
  <2>1. c # e /\ l(c) = l(p) + i /\ l(p) + i < S /\ c \in Active(n) /\ l(hole) < l(c)
    <3>1. c # e /\ c \in Active(n)
      BY <1>2, <1>3, <1>5, <1>9 DEF Active
    <3>2. l(p) + i < S
      <4>1. l(p) + i >= S => l(c) = 0
        BY <1>1, <1>4, <1>5, <1>9
      <4>. QED BY <1>4, <1>5, <3>1, <4>1
    <3>. QED BY <1>1, <1>2, <1>4, <1>5, <1>9, <3>1, <3>2
  <2>2. dist(S, hole, c) = l(c) - l(hole)
    BY <1>2, <1>4, <1>5, <1>6, <2>1
  <2>3. Rooted(n, e, c, hole)
    BY <1>2, <2>1
  <2>4. home(n, keyOf(n.cells[c])) \in Cells(m) /\ keyOf(n.cells[c]) \in Keys
    <3>1. n.cells[c] \in Entry
      BY <1>2, <2>1 DEF Active, IsMap
    <3>2. keyOf(n.cells[c]) \in Keys
      BY <3>1, EntryIs
    <3>. QED BY <1>2, <1>3, <3>2, HomeIs
  <2>5. moves(n.cells[c], dist(S, hole, c)) <=> Over(n, e, c, hole)
    <3>. DEFINE k == home(n, keyOf(n.cells[c]))
                s == stateOf(n.cells[c])
    <3>1. s = l(c) - l(k) + 1
      BY <1>3, <2>3 DEF Rooted
    <3>2. l(k) \in Nat /\ l(c) \in Nat /\ l(hole) \in Nat
      BY <1>2, <1>4, <1>5, <2>4
    <3>3. Over(n, e, c, hole) <=> l(k) <= l(hole) /\ l(hole) <= l(c)
      BY <1>3 DEF Over
    <3>4. moves(n.cells[c], dist(S, hole, c)) <=> s > l(c) - l(hole)
      BY <2>2 DEF moves
    <3>. HIDE DEF k, s
    <3>. QED BY <2>1, <3>1, <3>2, <3>3, <3>4
  <2>6. CASE Over(n, e, c, hole)
    <3>. DEFINE x == <<keyOf(n.cells[c]), valueOf(n.cells[c]), stateOf(n.cells[c]) - (l(c) - l(hole))>>
                o == movedTo(n, hole, c, x)
    <3>1. fillHole(h, c) = [map |-> o, hole |-> c, done |-> FALSE]
      <4>1. fillHole(h, c) = filled(h, c, x)
        BY <1>7, <1>9, <2>2, <2>5, <2>6
      <4>2. hole \in Cells(n) /\ c \in Cells(n) /\ h.done = FALSE
        BY <1>1, <1>2, <1>3, <1>5, <1>9
      <4>3. h = [map |-> n, hole |-> hole, done |-> FALSE]
        BY <1>1, <4>2
      <4>. HIDE DEF x
      <4>4. filled(h, c, x) = [map |-> movedTo(n, hole, c, x), hole |-> c, done |-> FALSE]
        <5>1. h.done = FALSE /\ h = [map |-> h.map, hole |-> h.hole, done |-> h.done] /\ IsMap(h.map)
          BY <1>1, <1>2, <4>2 DEF n, hole
        <5>. QED BY <5>1, FieldsFilled DEF n, hole
      <4>. QED BY <4>1, <4>4
    <3>2. Deleting(m, e, p, o, c)
      BY <1>1, <2>1, <2>6, DeleteMoves DEF l
    <3>. HIDE DEF x, o
    <3>3. /\ o.cells[c] = EMPTY /\ Cells(o) = Cells(m)
          /\ \A r : lin(o, e, r) = l(r)
      BY <3>2, SameLin DEF Deleting, l
    <3>4. ASSUME NEW r \in Active(o), l(r) <= l(p) + i PROVE ~ Over(o, e, r, c)
      <4>1. r \in Cells(m) /\ r # c
        BY <3>3 DEF Active
      <4>2. l(r) # l(c)
        BY <1>4, <1>5, <4>1
      <4>. QED BY <1>4, <1>5, <2>1, <3>3, <3>4, <4>1, <4>2 DEF Over
    <3>. DEFINE g == fillHole(h, c)
    <3>5. g = [map |-> g.map, hole |-> g.hole, done |-> g.done] /\ g.map = o /\ g.hole = c /\ g.done = FALSE
      BY <3>1
    <3>. HIDE DEF g
    <3>6. l(p) + i < S /\ l(c) <= l(p) + i
      BY <1>4, <1>5, <2>1
    <3>7. filledUpTo(a, q, i, g)
      BY <1>0, <3>2, <3>3, <3>4, <3>5, <3>6 DEF filledUpTo, l, S
    <3>. QED BY <3>7 DEF g, c, S
  <2>7. CASE ~ Over(n, e, c, hole)
    <3>1. fillHole(h, c) = h
      BY <1>7, <1>9, <2>5, <2>7
    <3>2. ASSUME NEW r \in Active(n), l(r) <= l(p) + i PROVE ~ Over(n, e, r, hole)
      <4>1. r \in Cells(m)
        BY <1>3 DEF Active
      <4>2. CASE r = c
        BY <2>7, <4>2
      <4>3. CASE r # c
        <5>1. l(r) <= l(p) + (i - 1)
          BY <1>4, <1>5, <2>1, <3>2, <4>1, <4>3
        <5>. QED BY <1>1, <1>9, <5>1
      <4>. QED BY <4>2, <4>3
    <3>3. l(p) + i < S /\ l(hole) <= l(p) + i
      BY <1>1, <1>2, <1>4, <1>9, <2>1
    <3>4. h = [map |-> h.map, hole |-> h.hole, done |-> h.done] /\ h.done = FALSE
      BY <1>1, <1>9 DEF n, hole
    <3>5. filledUpTo(a, q, i, h)
      BY <1>0, <1>1, <1>3, <3>2, <3>3, <3>4 DEF filledUpTo, l, S, n, hole
    <3>. QED BY <3>1, <3>5 DEF c, S
  <2>. QED BY <2>6, <2>7
<1>. QED BY <1>8, <1>9 DEF c, S

\* An entry is deleted.
Deleted(m, n, e, p) ==
  /\ Sound([n EXCEPT !.num = @ - 1]) /\ SameShape(m, n) /\ n.num = m.num /\ n.cells[e] = EMPTY
  /\ \A q \in Cells(m) : lin(m, e, q) < lin(m, e, p) => n.cells[q] = m.cells[q]
  /\ \A key, v : Above(n, e, lin(m, e, p), key, v) <=> Above(m, e, lin(m, e, p) + 1, key, v)

\* hash_delete takes the entry out and leaves a sound table, in which entries
\* before it have not moved.
LEMMA HashDeleted ==
  ASSUME NEW m, Sound(m), NEW e \in Cells(m), m.cells[e] = EMPTY, NEW p \in Active(m)
  PROVE  Deleted(m, hash_delete(m, p), e, p)
<1>. DEFINE S == size(m)
            q == After(m, p)
            a == [m |-> m, e |-> e, at |-> p]
            b == [map |-> [m EXCEPT !.cells[p] = EMPTY], hole |-> p, done |-> FALSE]
            k == S - 1
            h == Fills!Left(a, q, b, k)
            n == h.map
<1>1. IsMap(m) /\ p \in Cells(m) /\ p # e /\ S \in Nat \ {0} /\ k \in Nat
  BY DEF Sound, Active, IsMap
<1>2. DOMAIN q = 1 .. k /\ \A i \in 1 .. k : q[i] = (p + i) % size(m)
  BY DEF After
<1>3. hash_delete(m, p) = FoldLeft(fillHole, b, q).map
  BY DEF hash_delete
<1>. HIDE DEF q, b, k
<1>4. FoldLeft(fillHole, b, q) = h
  BY <1>2 DEF FoldLeft, MapThenFoldSet, Max, Fills!Left, Fills!Fold, Fills!MapThenFoldSet, filling, lastOf
<1>5. Fills!ChoosesLast
  BY DEF Fills!ChoosesLast, lastOf
<1>6. filledUpTo(a, q, 0, b)
  <2>1. b = [map |-> b.map, hole |-> b.hole, done |-> b.done] /\ b.map = [m EXCEPT !.cells[p] = EMPTY]
        /\ b.hole = p /\ b.done = FALSE /\ a.m = m /\ a.e = e /\ a.at = p
    BY DEF b
  <2>2. Deleting(m, e, p, b.map, p) /\ \A r \in Active(b.map) : lin(m, e, r) <= lin(m, e, p) => ~ Over(b.map, e, r, p)
    BY <2>1, DeleteStarts
  <2>3. lin(m, e, p) \in Nat /\ lin(m, e, p) < S /\ lin(m, e, p) + 0 = lin(m, e, p) /\ lin(m, e, p) <= lin(m, e, p)
    <3>1. lin(m, e, p) \in Nat /\ lin(m, e, p) < S
      BY <1>1, Places
    <3>. DEFINE x == lin(m, e, p)
    <3>. HIDE DEF x
    <3>2. x \in Nat => x + 0 = x /\ x <= x
      OBVIOUS
    <3>. QED BY <3>1, <3>2 DEF x
  <2>. QED BY <2>1, <2>2, <2>3 DEF filledUpTo
<1>7. Fills!Preserves(a, q, k)
  <2>1. ASSUME NEW i \in 1 .. k, NEW g, filledUpTo(a, q, i - 1, g)
        PROVE  filledUpTo(a, q, i, filling(a, q, i, g))
    <3>1. filledUpTo(a, q, i, fillHole(g, (p + i) % size(m)))
      BY <1>1, <2>1, FillStep DEF k
    <3>. QED BY <1>2, <3>1 DEF filling
  <2>. QED BY <2>1 DEF Fills!Preserves
<1>8. filledUpTo(a, q, k, h)
  <2>. HIDE DEF a
  <2>. QED BY <1>1, <1>5, <1>6, <1>7, Fills!LeftKeeps
<1>9. hash_delete(m, p) = n
  BY <1>3, <1>4
<1>. HIDE DEF h, n
<1>10. lin(m, e, p) \in Nat /\ lin(m, e, p) > 0
  <2>1. lin(m, e, p) # 0
    BY <1>1, Places
  <2>. QED BY <1>1, <2>1, Places
<1>11. PICK hole : Deleting(m, e, p, n, hole) /\ \A r \in Active(n) : ~ Over(n, e, r, hole)
  <2>1. a.m = m /\ a.e = e /\ a.at = p /\ h.map = n
    BY DEF n
  <2>2. ~ (lin(m, e, p) + k < S)
    BY <1>1, <1>10 DEF k
  <2>3. Deleting(m, e, p, n, h.hole) /\ \A r \in Active(n) : ~ Over(n, e, r, h.hole)
    BY <1>8, <2>1, <2>2 DEF filledUpTo
  <2>. QED BY <2>3
<1>12. /\ IsMap(n) /\ SameShape(m, n) /\ n.num = m.num /\ hole \in Cells(m) /\ n.cells[e] = EMPTY
       /\ Unique(n) /\ Cardinality(Active(n)) = Cardinality(Active(m)) - 1
       /\ \A r \in Active(n) : Rooted(n, e, r, hole)
  BY <1>11 DEF Deleting
<1>13. Cells(n) = Cells(m)
  BY <1>12, SameLin
<1>14. ASSUME NEW r \in Active(n) PROVE InPlace(n, r)
  <2>1. \A s \in Cells(n) : lin(n, e, home(n, keyOf(n.cells[r]))) <= lin(n, e, s) /\ lin(n, e, s) <= lin(n, e, r)
                            => n.cells[s] # EMPTY
    BY <1>11, <1>12 DEF Rooted, Over
  <2>2. Rooted(n, e, r, e)
    BY <1>12, <2>1 DEF Rooted
  <2>. QED BY <1>12, <1>13, <2>2, RootedIs
<1>15. Sound([n EXCEPT !.num = @ - 1])
  <2>. DEFINE o == [n EXCEPT !.num = @ - 1]
  <2>1. n.num - 1 = Cardinality(Active(n)) /\ n.num - 1 \in Nat
    BY <1>1, <1>12, ActiveIs DEF Sound
  <2>2. o = [lg |-> n.lg, lgMax |-> n.lgMax, num |-> n.num - 1, cells |-> n.cells]
    BY <1>12 DEF IsMap
  <2>. HIDE DEF o
  <2>3. o.cells = n.cells /\ o.lg = n.lg /\ o.lgMax = n.lgMax /\ o.num = n.num - 1
    BY <2>2
  <2>4. Cells(o) = Cells(n) /\ Active(o) = Active(n) /\ size(o) = size(n) /\ \A key : home(o, key) = home(n, key)
    BY <2>3 DEF Cells, size, Active, home
  <2>5. IsMap(o)
    BY <1>12, <2>1, <2>2, <2>3, <2>4 DEF IsMap
  <2>6. Unique(o)
    BY <1>12, <2>3, <2>4 DEF Unique
  <2>7. \A r \in Active(o) : InPlace(o, r)
    BY <1>14, <2>3, <2>4 DEF InPlace
  <2>. QED BY <2>1, <2>3, <2>4, <2>5, <2>6, <2>7 DEF Sound, o
<1>. QED BY <1>9, <1>11, <1>12, <1>15 DEF Deleted, Deleting

----------------------------------------------------------------------------
(* Subtracting. *)

\* The entries above a place are that at the next one and those above it.
LEMMA AboveSplits ==
  ASSUME NEW m, IsMap(m), NEW e \in Cells(m), NEW p \in Cells(m)
  PROVE  \A key, v : Above(m, e, lin(m, e, p), key, v)
                     <=> \/ Above(m, e, lin(m, e, p) + 1, key, v)
                         \/ p \in Active(m) /\ keyOf(m.cells[p]) = key /\ valueOf(m.cells[p]) = v
<1>. DEFINE l(q) == lin(m, e, q)
<1>1. /\ \A q \in Cells(m) : l(q) \in Nat
      /\ \A q, r \in Cells(m) : l(q) = l(r) => q = r
  BY Places
<1>. HIDE DEF l
<1>2. \A q \in Active(m) : l(q) >= l(p) <=> l(q) >= l(p) + 1 \/ q = p
  BY <1>1 DEF Active
<1>. QED BY <1>2 DEF Above, l

\* A value is changed.
LEMMA ValueSet ==
  ASSUME NEW m, Sound(m), NEW p \in Active(m), NEW v \in Nat \ {0}
  PROVE  LET n == [m EXCEPT !.cells[p] = <<keyOf(@), v, stateOf(@)>>]
         IN  /\ Sound(n) /\ SameShape(m, n) /\ n.num = m.num /\ Active(n) = Active(m)
             /\ \A q \in Cells(m) : n.cells[q] = IF q = p THEN <<keyOf(m.cells[p]), v, stateOf(m.cells[p])>>
                                                 ELSE m.cells[q]
<1>. DEFINE c == <<keyOf(m.cells[p]), v, stateOf(m.cells[p])>>
            n == [m EXCEPT !.cells[p] = <<keyOf(@), v, stateOf(@)>>]
<1>0. IsMap(m) /\ p \in Cells(m) /\ m.cells[p] \in Entry /\ m.num \in Nat
  BY DEF Sound, Active, IsMap
<1>1. keyOf(m.cells[p]) \in Keys /\ stateOf(m.cells[p]) \in Nat \ {0}
  BY <1>0, EntryIs
<1>2. c \in Entry /\ keyOf(c) = keyOf(m.cells[p]) /\ stateOf(c) = stateOf(m.cells[p])
  BY <1>1, EntryIs
<1>3. n = placed(m, p, c, m.num)
  BY <1>0 DEF placed, IsMap
<1>4. Fits(m, p, c)
  BY <1>2 DEF Sound, InPlace, Fits
<1>5. Active(m) \union {p} = Active(m) /\ m.num = Cardinality(Active(m) \union {p})
  BY DEF Sound
<1>. HIDE DEF c, n
<1>6. \A q \in Active(m) : keyOf(m.cells[q]) = keyOf(c) => q = p
  BY <1>2 DEF Sound, Unique
<1>7. Sound(n) /\ Active(n) = Active(m)
  BY <1>0, <1>2, <1>3, <1>4, <1>5, <1>6, PlacedIsSound
<1>8. /\ n.lg = m.lg /\ n.lgMax = m.lgMax /\ n.num = m.num /\ size(n) = size(m)
      /\ \A q \in Cells(m) : n.cells[q] = IF q = p THEN c ELSE m.cells[q]
  BY <1>0, <1>2, <1>3, FieldsPlaced
<1>. QED BY <1>7, <1>8 DEF n, c, SameShape

subtracting(a, q, i, n) == subtractAt(n, q[i], a.amount)

subtractedUpTo(a, q, i, n) ==
  LET low == size(a.m) - i
  IN  /\ Sound(n) /\ SameShape(a.m, n) /\ n.cells[a.e] = EMPTY
      /\ \A r \in Cells(a.m) : lin(a.m, a.e, r) < low => n.cells[r] = a.m.cells[r]
      /\ \A key : \A v \in Nat \ {0} :
           Above(n, a.e, low, key, v) <=> Above(a.m, a.e, low, key, v + a.amount)
      /\ n.num <= a.m.num
      /\ (\E r \in Active(a.m) : lin(a.m, a.e, r) >= low /\ valueOf(a.m.cells[r]) <= a.amount)
         => n.num < a.m.num

Subtracts == INSTANCE FoldTheorems WITH step <- subtracting, choose <- lastOf, Good <- subtractedUpTo

\* One step of the walk lowers, or deletes, the entry it comes to, and moves others
\* only to where the walk has been.
LEMMA SubtractStep ==
  ASSUME NEW m, Sound(m), NEW e \in Cells(m), m.cells[e] = EMPTY, NEW amount \in Nat, NEW q,
         NEW a, a = [m |-> m, e |-> e, amount |-> amount], NEW i \in 1 .. size(m), NEW n,
         NEW p \in Cells(m), lin(m, e, p) = size(m) - i, subtractedUpTo(a, q, i - 1, n)
  PROVE  subtractedUpTo(a, q, i, subtractAt(n, p, amount))
<1>. DEFINE l(r) == lin(m, e, r)
            S == size(m)
            o == subtractAt(n, p, amount)
<1>0. a.m = m /\ a.e = e /\ a.amount = amount /\ IsMap(m)
  BY DEF Sound
<1>1. S - (i - 1) = l(p) + 1 /\ S - i = l(p) /\ S \in Nat /\ l(p) \in Nat
  BY <1>0 DEF IsMap
<1>2. /\ Sound(n) /\ SameShape(m, n) /\ n.cells[e] = EMPTY
      /\ \A r \in Cells(m) : l(r) < l(p) + 1 => n.cells[r] = m.cells[r]
      /\ \A key : \A v \in Nat \ {0} :
           Above(n, e, l(p) + 1, key, v) <=> Above(m, e, l(p) + 1, key, v + amount)
      /\ n.num <= m.num
      /\ (\E r \in Active(m) : l(r) >= l(p) + 1 /\ valueOf(m.cells[r]) <= amount) => n.num < m.num
  BY <1>0, <1>1 DEF subtractedUpTo
<1>3. /\ Cells(n) = Cells(m) /\ (\A key : home(n, key) = home(m, key)) /\ \A r : lin(n, e, r) = l(r)
      /\ IsMap(n)
  BY <1>2, SameLin DEF Sound
<1>4. /\ l(e) = 0 /\ \A r \in Cells(m) : l(r) \in Nat
      /\ \A r, s \in Cells(m) : l(r) = l(s) => r = s
  BY <1>0, Places
<1>5. SUFFICES /\ Sound(o) /\ SameShape(m, o) /\ o.cells[e] = EMPTY
               /\ \A r \in Cells(m) : l(r) < l(p) => o.cells[r] = m.cells[r]
               /\ \A key : \A v \in Nat \ {0} : Above(o, e, l(p), key, v) <=> Above(m, e, l(p), key, v + amount)
               /\ o.num <= m.num
               /\ (\E r \in Active(m) : l(r) >= l(p) /\ valueOf(m.cells[r]) <= amount) => o.num < m.num
  BY <1>0, <1>1 DEF subtractedUpTo
<1>6. n.cells[p] = m.cells[p]
  <2>1. l(p) < l(p) + 1
    BY <1>1
  <2>. QED BY <1>2, <2>1
<1>7. /\ \A key, v : Above(m, e, l(p), key, v)
           <=> Above(m, e, l(p) + 1, key, v) \/ (p \in Active(m) /\ keyOf(m.cells[p]) = key /\ valueOf(m.cells[p]) = v)
      /\ \A key, v : Above(n, e, l(p), key, v)
           <=> Above(n, e, l(p) + 1, key, v) \/ (p \in Active(n) /\ keyOf(n.cells[p]) = key /\ valueOf(n.cells[p]) = v)
      /\ p \in Active(n) <=> p \in Active(m)
  <2>1. \A key, v : Above(n, e, lin(n, e, p), key, v)
           <=> Above(n, e, lin(n, e, p) + 1, key, v) \/ (p \in Active(n) /\ keyOf(n.cells[p]) = key /\ valueOf(n.cells[p]) = v)
    BY <1>3, AboveSplits
  <2>2. p \in Active(n) <=> p \in Active(m)
    BY <1>3, <1>6 DEF Active
  <2>. QED BY <1>0, <1>3, <2>1, <2>2, AboveSplits
<1>8. \A r \in Active(m) : l(r) >= l(p) => l(r) >= l(p) + 1 \/ r = p
  BY <1>4 DEF Active
<1>9. \A r \in Cells(m) : l(r) < l(p) => l(r) < l(p) + 1 /\ r # p
  BY <1>4
<1>10. n.num \in Nat /\ m.num \in Nat
  BY <1>0, <1>3 DEF IsMap
<1>11. is_active(n, p) <=> p \in Active(m)
  BY <1>6 DEF is_active, Active
<1>. HIDE DEF l, S
<1>12. CASE p \notin Active(m)
  <2>1. o = n
    BY <1>11, <1>12 DEF subtractAt
  <2>2. \A r \in Cells(m) : l(r) < l(p) => o.cells[r] = m.cells[r]
    BY <1>2, <1>9, <2>1
  <2>3. \A key : \A v \in Nat \ {0} : Above(o, e, l(p), key, v) <=> Above(m, e, l(p), key, v + amount)
    BY <1>2, <1>7, <1>12, <2>1
  <2>4. (\E r \in Active(m) : l(r) >= l(p) /\ valueOf(m.cells[r]) <= amount) => o.num < m.num
    BY <1>2, <1>8, <1>12, <2>1
  <2>. QED BY <1>2, <2>1, <2>2, <2>3, <2>4
<1>13. CASE p \in Active(m) /\ stays(valueOf(n.cells[p]), amount)
  <2>0. m.cells[p] \in Entry /\ valueOf(m.cells[p]) \in Nat \ {0}
    <3>1. m.cells[p] \in Entry
      BY <1>0, <1>13 DEF IsMap, Active
    <3>. QED BY <3>1, EntryIs
  <2>. DEFINE w == valueOf(m.cells[p]) - amount
              c == <<keyOf(m.cells[p]), w, stateOf(m.cells[p])>>
  <2>1. w \in Nat \ {0} /\ valueOf(m.cells[p]) > amount
    BY <1>6, <1>13, <2>0 DEF stays
  <2>2. o = [n EXCEPT !.cells[p] = <<keyOf(@), w, stateOf(@)>>]
    <3>1. o = [n EXCEPT !.cells[p] = <<keyOf(@), valueOf(@) - amount, stateOf(@)>>]
      BY <1>11, <1>13 DEF subtractAt
    <3>2. n = [lg |-> n.lg, lgMax |-> n.lgMax, num |-> n.num, cells |-> n.cells] /\ p \in Cells(n)
          /\ n.cells \in [Cells(n) -> Entry \union {EMPTY}]
      BY <1>3 DEF IsMap
    <3>. QED BY <1>6, <3>1, <3>2
  <2>. HIDE DEF w, o
  <2>3. /\ Sound(o) /\ SameShape(n, o) /\ o.num = n.num /\ Active(o) = Active(n)
        /\ \A r \in Cells(n) : o.cells[r] = IF r = p THEN c ELSE n.cells[r]
    BY <1>2, <1>6, <1>7, <1>13, <2>1, <2>2, ValueSet
  <2>4. SameShape(m, o) /\ Cells(o) = Cells(m) /\ \A r : lin(o, e, r) = l(r)
    BY <1>2, <1>3, <2>3, SameLin DEF SameShape, l
  <2>5. keyOf(c) = keyOf(m.cells[p]) /\ valueOf(c) = w /\ o.cells[p] = c
    BY <1>3, <2>3 DEF keyOf, valueOf
  <2>6. p # e
    BY <1>13 DEF Active
  <2>7. o.cells[e] = EMPTY
    BY <1>2, <1>3, <2>3, <2>6
  <2>8. \A r \in Cells(m) : l(r) < l(p) => o.cells[r] = m.cells[r]
    BY <1>2, <1>3, <1>9, <2>3
  <2>9. \A key, v : Above(o, e, l(p) + 1, key, v) <=> Above(n, e, l(p) + 1, key, v)
    <3>1. \A r \in Active(n) : l(r) >= l(p) + 1 => r # p /\ r \in Cells(n)
      BY <1>1, <1>4 DEF Active, l
    <3>. QED BY <1>3, <2>3, <2>4, <3>1 DEF Above, l
  <2>10. \A key, v : Above(o, e, l(p), key, v)
           <=> Above(o, e, l(p) + 1, key, v) \/ (keyOf(m.cells[p]) = key /\ w = v)
    <3>1. IsMap(o) /\ p \in Active(o)
      BY <1>7, <1>13, <2>3 DEF Sound
    <3>2. \A key, v : Above(o, e, lin(o, e, p), key, v)
           <=> Above(o, e, lin(o, e, p) + 1, key, v) \/ (p \in Active(o) /\ keyOf(o.cells[p]) = key /\ valueOf(o.cells[p]) = v)
      BY <2>4, <3>1, AboveSplits
    <3>. QED BY <2>4, <2>5, <3>1, <3>2
  <2>11. \A key : \A v \in Nat \ {0} : Above(o, e, l(p), key, v) <=> Above(m, e, l(p), key, v + amount)
    <3>1. \A v \in Nat \ {0} : w = v <=> valueOf(m.cells[p]) = v + amount
      BY <2>0 DEF w
    <3>2. SUFFICES ASSUME NEW key, NEW v \in Nat \ {0}
                   PROVE  Above(o, e, l(p), key, v) <=> Above(m, e, l(p), key, v + amount)
      OBVIOUS
    <3>3. Above(o, e, l(p), key, v)
            <=> Above(m, e, l(p) + 1, key, v + amount) \/ (keyOf(m.cells[p]) = key /\ w = v)
      BY <1>2, <2>9, <2>10
    <3>4. Above(m, e, l(p), key, v + amount)
            <=> Above(m, e, l(p) + 1, key, v + amount) \/ (keyOf(m.cells[p]) = key /\ valueOf(m.cells[p]) = v + amount)
      BY <1>7, <1>13
    <3>. QED BY <3>1, <3>3, <3>4
  <2>12. (\E r \in Active(m) : l(r) >= l(p) /\ valueOf(m.cells[r]) <= amount) => o.num < m.num
    <3>1. ~ (valueOf(m.cells[p]) <= amount)
      BY <2>0, <2>1
    <3>. QED BY <1>2, <1>8, <2>3, <3>1
  <2>. QED BY <1>2, <2>3, <2>4, <2>7, <2>8, <2>11, <2>12
<1>14. CASE p \in Active(m) /\ ~ stays(valueOf(n.cells[p]), amount)
  <2>0. valueOf(m.cells[p]) \in Nat \ {0}
    <3>1. m.cells[p] \in Entry
      BY <1>0, <1>14 DEF IsMap, Active
    <3>. QED BY <3>1, EntryIs
  <2>. DEFINE d == hash_delete(n, p)
  <2>1. o = [d EXCEPT !.num = @ - 1]
    BY <1>11, <1>14 DEF subtractAt
  <2>2. Deleted(n, d, e, p)
    BY <1>2, <1>3, <1>7, <1>14, HashDeleted
  <2>. HIDE DEF d, o
  <2>3. Sound(o) /\ SameShape(n, d) /\ d.num = n.num /\ d.cells[e] = EMPTY
    BY <2>1, <2>2 DEF Deleted
  <2>4. o.cells = d.cells /\ o.lg = d.lg /\ o.lgMax = d.lgMax
    BY <2>1
  <2>5. o.num = n.num - 1
    <3>1. o = [lg |-> o.lg, lgMax |-> o.lgMax, num |-> o.num, cells |-> o.cells]
      BY <2>3 DEF Sound, IsMap
    <3>2. "num" \in DOMAIN o
      BY <3>1
    <3>. QED BY <2>1, <2>3, <3>2
  <2>6. size(o) = size(d) /\ Cells(o) = Cells(d) /\ Active(o) = Active(d) /\ \A r : lin(o, e, r) = lin(d, e, r)
    BY <2>4 DEF size, Cells, Active, lin
  <2>7. SameShape(m, o)
    BY <1>2, <2>3, <2>4, <2>6 DEF SameShape
  <2>8. \A low, key, v : Above(o, e, low, key, v) <=> Above(d, e, low, key, v)
    BY <2>4, <2>6 DEF Above
  <2>9. \A key : \A v \in Nat \ {0} : Above(o, e, l(p), key, v) <=> Above(m, e, l(p), key, v + amount)
    <3>1. \A v \in Nat \ {0} : valueOf(m.cells[p]) # v + amount
      BY <1>6, <1>14, <2>0 DEF stays
    <3>2. \A key, v : Above(d, e, l(p), key, v) <=> Above(n, e, l(p) + 1, key, v)
      BY <1>3, <2>2 DEF Deleted
    <3>3. SUFFICES ASSUME NEW key, NEW v \in Nat \ {0}
                   PROVE  Above(o, e, l(p), key, v) <=> Above(m, e, l(p), key, v + amount)
      OBVIOUS
    <3>4. Above(o, e, l(p), key, v) <=> Above(m, e, l(p) + 1, key, v + amount)
      BY <1>2, <2>8, <3>2
    <3>5. Above(m, e, l(p), key, v + amount) <=> Above(m, e, l(p) + 1, key, v + amount)
      BY <1>7, <3>1
    <3>. QED BY <3>4, <3>5
  <2>10. \A r \in Cells(m) : l(r) < l(p) => o.cells[r] = m.cells[r]
    BY <1>2, <1>3, <1>9, <2>2, <2>4 DEF Deleted
  <2>11. o.num < m.num /\ o.num <= m.num
    BY <1>2, <1>10, <2>5
  <2>. QED BY <2>3, <2>4, <2>7, <2>9, <2>10, <2>11
<1>. QED BY <1>12, <1>13, <1>14

\* The walk starts behind an empty cell and comes by all places downwards.
LEMMA WalkIs ==
  ASSUME NEW m, IsMap(m), HasRoom(m)
  PROVE  \E e \in Cells(m) :
           /\ m.cells[e] = EMPTY /\ DOMAIN walkDown(m) = 1 .. size(m)
           /\ \A i \in 1 .. size(m) : /\ walkDown(m)[i] \in Cells(m)
                                      /\ lin(m, e, walkDown(m)[i]) = size(m) - i
<1>. DEFINE S == size(m)
            E == {p \in Cells(m) : m.cells[p] = EMPTY}
            T == {S - p : p \in E}
<1>1. S \in Nat \ {0} /\ Cells(m) = 0 .. S - 1
  BY DEF IsMap, Cells
<1>. HIDE DEF S
<1>2. T \subseteq Nat /\ T # {}
  BY <1>1 DEF HasRoom
<1>3. PICK x \in T : \A y \in T : x <= y
  <2>. HIDE DEF T
  <2>. QED BY <1>2, Nums!LeastElement
<1>4. PICK f \in E : x = S - f
  OBVIOUS
<1>5. \A q \in Cells(m) : q > f => m.cells[q] # EMPTY
  <2>1. ASSUME NEW q \in E, q > f PROVE FALSE
    <3>1. S - f <= S - q
      BY <1>3, <1>4
    <3>. QED BY <1>1, <2>1, <3>1
  <2>. QED BY <2>1
<1>. DEFINE e == CHOOSE p \in Cells(m) : ~ is_active(m, p) /\ \A q \in Cells(m) : q > p => is_active(m, q)
<1>6. e \in Cells(m) /\ ~ is_active(m, e)
  <2>1. f \in Cells(m) /\ ~ is_active(m, f) /\ \A q \in Cells(m) : q > f => is_active(m, q)
    BY <1>5 DEF is_active
  <2>. QED BY <2>1
<1>7. walkDown(m) = [i \in 1 .. S |-> (e - i) % S]
  BY DEF walkDown, S
<1>. HIDE DEF e
<1>8. ASSUME NEW i \in 1 .. S PROVE (e - i) % S \in Cells(m) /\ lin(m, e, (e - i) % S) = S - i
  <2>. DEFINE p == (e - i) % S
  <2>0. e \in 0 .. S - 1
    BY <1>1, <1>6
  <2>1. p = (IF e >= i THEN e - i ELSE e - i + S) /\ p \in 0 .. S - 1
    <3>1. CASE i < S
      <4>1. i \in 0 .. S - 1
        BY <1>1, <3>1
      <4>. QED BY <1>1, <2>0, <4>1, StepIs
    <3>2. CASE i = S
      <4>. DEFINE y == e - i
      <4>1. y \in Int /\ y + S \in 0 .. S - 1 /\ y + S = e /\ y < 0 /\ ~ (e >= i)
        BY <1>1, <2>0, <3>2
      <4>2. p = y % S
        OBVIOUS
      <4>. HIDE DEF y, p
      <4>3. p = y + S
        BY <1>1, <4>1, <4>2, Once
      <4>. QED BY <4>1, <4>3, <1>1, <2>0, <3>2 DEF y
    <3>. QED BY <1>1, <3>1, <3>2
  <2>. HIDE DEF p
  <2>2. dist(S, e, p) = IF p >= e THEN p - e ELSE p - e + S
    BY <1>1, <2>0, <2>1, DistIs
  <2>3. dist(S, e, p) = S - i
    BY <1>1, <2>0, <2>1, <2>2
  <2>. QED BY <1>1, <2>1, <2>3 DEF lin, S, p
<1>. QED BY <1>6, <1>7, <1>8 DEF S, is_active

\* What subtracting leaves.
Lowered(m, n, amount) ==
  /\ Sound(n) /\ SameShape(m, n) /\ HasRoom(n) /\ n.num <= m.num
  /\ \A key \in Keys : get(n, key) = IF get(m, key) > amount THEN get(m, key) - amount ELSE 0
  /\ (\E r \in Active(m) : valueOf(m.cells[r]) <= amount) => n.num < m.num

\* Every weight is lowered by the amount, and entries that would not be positive
\* are gone.
LEMMA Subtracted ==
  ASSUME NEW m, Sound(m), HasRoom(m), NEW amount \in Nat
  PROVE  Lowered(m, subtract_and_keep_positive_only(m, amount), amount)
<1>. DEFINE S == size(m)
            q == walkDown(m)
<1>0. IsMap(m) /\ S \in Nat
  BY DEF Sound, IsMap
<1>1. PICK e \in Cells(m) : /\ m.cells[e] = EMPTY /\ DOMAIN q = 1 .. S
                            /\ \A i \in 1 .. S : q[i] \in Cells(m) /\ lin(m, e, q[i]) = S - i
  BY <1>0, WalkIs
<1>. DEFINE a == [m |-> m, e |-> e, amount |-> amount]
            n == Subtracts!Left(a, q, m, S)
<1>2. a.m = m /\ a.e = e /\ a.amount = amount
  OBVIOUS
<1>. HIDE DEF q, a, S
<1>3. subtract_and_keep_positive_only(m, amount) = n
  BY <1>1, <1>2 DEF subtract_and_keep_positive_only, FoldLeft, MapThenFoldSet, Max, Subtracts!Left, Subtracts!Fold,
     Subtracts!MapThenFoldSet, subtracting, lastOf, q
<1>4. Subtracts!ChoosesLast
  BY DEF Subtracts!ChoosesLast, lastOf
<1>5. subtractedUpTo(a, q, 0, m)
  <2>1. \A key, v : ~ Above(m, e, S, key, v) /\ ~ Above(m, e, S - 0, key, v)
    <3>1. \A r \in Active(m) : ~ (lin(m, e, r) >= S) /\ S - 0 = S
      BY <1>0, Places DEF Active, S
    <3>. QED BY <3>1 DEF Above
  <2>2. \A r \in Active(m) : ~ (lin(m, e, r) >= S - 0)
    BY <1>0, Places DEF Active, S
  <2>3. SameShape(m, m) /\ m.num <= m.num
    BY <1>0 DEF SameShape, IsMap
  <2>4. \A r \in Cells(m) : lin(m, e, r) < S - 0 => m.cells[r] = m.cells[r]
    OBVIOUS
  <2>. QED BY <1>1, <1>2, <2>1, <2>2, <2>3, <2>4 DEF subtractedUpTo, S
<1>6. Subtracts!Preserves(a, q, S)
  <2>1. ASSUME NEW i \in 1 .. S, NEW g, subtractedUpTo(a, q, i - 1, g)
        PROVE  subtractedUpTo(a, q, i, subtracting(a, q, i, g))
    <3>1. q[i] \in Cells(m) /\ lin(m, e, q[i]) = size(m) - i /\ i \in 1 .. size(m)
      BY <1>1 DEF S
    <3>2. subtractedUpTo(a, q, i, subtractAt(g, q[i], amount))
      BY <1>1, <2>1, <3>1, SubtractStep DEF a
    <3>. QED BY <1>2, <3>2 DEF subtracting
  <2>. QED BY <2>1 DEF Subtracts!Preserves
<1>7. subtractedUpTo(a, q, S, n)
  BY <1>0, <1>4, <1>5, <1>6, Subtracts!LeftKeeps
<1>. HIDE DEF n
<1>8. S - S = 0 /\ \A r \in Cells(m) : lin(m, e, r) >= 0
  <2>1. \A r \in Cells(m) : lin(m, e, r) \in Nat
    BY <1>0, Places
  <2>. QED BY <1>0, <2>1
<1>9. /\ Sound(n) /\ SameShape(m, n) /\ n.cells[e] = EMPTY /\ n.num <= m.num
      /\ \A key : \A v \in Nat \ {0} : Above(n, e, 0, key, v) <=> Above(m, e, 0, key, v + amount)
      /\ (\E r \in Active(m) : lin(m, e, r) >= 0 /\ valueOf(m.cells[r]) <= amount) => n.num < m.num
  BY <1>2, <1>7, <1>8 DEF subtractedUpTo, S
<1>10. Cells(n) = Cells(m) /\ \A r : lin(n, e, r) = lin(m, e, r)
  BY <1>9, SameLin
<1>11. HasRoom(n)
  BY <1>9, <1>10 DEF HasRoom
<1>12. (\E r \in Active(m) : valueOf(m.cells[r]) <= amount) => n.num < m.num
  BY <1>8, <1>9 DEF Active
<1>13. \A key, v : /\ Above(n, e, 0, key, v) <=> Weighs(n, key, v)
                   /\ Above(m, e, 0, key, v) <=> Weighs(m, key, v)
  BY <1>8, <1>10 DEF Above, Weighs, Active
<1>14. ASSUME NEW key \in Keys
       PROVE  get(n, key) = IF get(m, key) > amount THEN get(m, key) - amount ELSE 0
  <2>. DEFINE x == get(n, key)
              y == get(m, key)
  <2>1. x \in Nat /\ y \in Nat
    BY <1>9, <1>11, GetIs
  <2>2. ASSUME NEW v \in Nat \ {0} PROVE x = v <=> y = v + amount
    <3>1. x = v <=> Weighs(n, key, v)
      BY <1>9, <1>11, GetIs
    <3>2. v + amount \in Nat \ {0}
      OBVIOUS
    <3>3. y = v + amount <=> Weighs(m, key, v + amount)
      BY <3>2, GetIs
    <3>. QED BY <1>9, <1>13, <3>1, <3>3
  <2>. HIDE DEF x, y
  <2>3. CASE y > amount
    <3>1. y - amount \in Nat \ {0} /\ y = (y - amount) + amount
      BY <2>1, <2>3
    <3>2. x = y - amount
      BY <2>2, <3>1
    <3>. QED BY <2>3, <3>2 DEF x, y
  <2>4. CASE ~ (y > amount)
    <3>1. x = 0
      <4>1. ASSUME x # 0 PROVE FALSE
        <5>1. x \in Nat \ {0}
          BY <2>1, <4>1
        <5>2. y = x + amount
          BY <2>2, <5>1
        <5>. QED BY <2>4, <5>1, <5>2
      <4>. QED BY <4>1
    <3>. QED BY <2>4, <3>1 DEF x, y
  <2>. QED BY <2>3, <2>4
<1>. QED BY <1>3, <1>9, <1>11, <1>12, <1>14 DEF Lowered

----------------------------------------------------------------------------
(* The median of the samples. *)

\* Induction over a finite set.
LEMMA Within ==
  ASSUME NEW S, IsFiniteSet(S), NEW T,
         \A R \in SUBSET S : (\A Q \in SUBSET R : Q # R => Q \in T) => R \in T
  PROVE  S \in T
<1>1. Nums!IsFiniteSet(S)
  BY DEF IsFiniteSet, Nums!IsFiniteSet
<1>. QED BY <1>1, Nums!OverFiniteSets

\* A finite set of numbers has a greatest.
LEMMA Greatest ==
  ASSUME NEW S, IsFiniteSet(S), S \subseteq Nat
  PROVE  S # {} => \E x \in S : \A y \in S : y <= x
<1>. DEFINE T == {R \in SUBSET S : R # {} => \E x \in R : \A y \in R : y <= x}
<1>1. ASSUME NEW R \in SUBSET S, \A Q \in SUBSET R : Q # R => Q \in T PROVE R \in T
  <2>1. CASE R = {}
    BY <2>1
  <2>2. CASE R # {}
    <3>1. PICK z \in R : TRUE
      BY <2>2
    <3>2. R \ {z} \in T
      BY <1>1, <3>1
    <3>3. CASE R \ {z} = {}
      <4>1. \A y \in R : y = z
        BY <3>3
      <4>2. z \in Nat
        BY <3>1
      <4>3. \A y \in R : y <= z
        BY <4>1, <4>2
      <4>. QED BY <3>1, <4>3
    <3>4. CASE R \ {z} # {}
      <4>1. PICK x \in R \ {z} : \A y \in R \ {z} : y <= x
        BY <3>2, <3>4
      <4>2. x \in Nat /\ z \in Nat /\ R \subseteq Nat
        BY <3>1, <4>1
      <4>3. CASE z <= x
        <5>1. \A y \in R : y <= x
          BY <4>1, <4>3
        <5>. QED BY <4>1, <5>1
      <4>4. CASE ~ (z <= x)
        <5>1. \A y \in R : y <= z
          <6>1. ASSUME NEW y \in R PROVE y <= z
            <7>1. y \in Nat
              BY <4>2
            <7>2. y = z \/ y <= x
              BY <4>1
            <7>. QED BY <4>2, <4>4, <7>1, <7>2
          <6>. QED BY <6>1
        <5>. QED BY <3>1, <5>1
      <4>. QED BY <4>3, <4>4
    <3>. QED BY <3>3, <3>4
  <2>. QED BY <2>1, <2>2
<1>2. S \in T
  <2>1. \A R \in SUBSET S : (\A Q \in SUBSET R : Q # R => Q \in T) => R \in T
    BY <1>1
  <2>. HIDE DEF T
  <2>. QED BY <2>1, Within
<1>. QED BY <1>2

\* How many elements of s are below v, how many at most v.
Below(s, v)  == {i \in DOMAIN s : s[i] < v}
AtMost(s, v) == {i \in DOMAIN s : s[i] <= v}
Values(s)    == {s[i] : i \in DOMAIN s}

Between(s, k, v) == Cardinality(Below(s, v)) <= k /\ k < Cardinality(AtMost(s, v))

\* The element sorted to place k has at most k below it, and more than k not above.
LEMMA NthIs ==
  ASSUME NEW L \in Nat, NEW s, DOMAIN s = 1 .. L, \A i \in 1 .. L : s[i] \in Nat,
         NEW k \in Nat, k < L
  PROVE  nth(s, k) \in Values(s) /\ Between(s, k, nth(s, k))
<1>. DEFINE V == Values(s)
            T == {v \in V : k < Cardinality(AtMost(s, v))}
<1>1. V \subseteq Nat /\ \A i \in 1 .. L : s[i] \in V
  BY DEF Values
<1>2. IsFiniteSet(1 .. L) /\ Cardinality(1 .. L) = L
  <2>1. L = L - 1 + 1 /\ (1 > L => L = 0)
    OBVIOUS
  <2>. QED BY <2>1, FS_Interval
<1>3. \A v : /\ IsFiniteSet(Below(s, v)) /\ Cardinality(Below(s, v)) \in Nat
             /\ IsFiniteSet(AtMost(s, v)) /\ Cardinality(AtMost(s, v)) \in Nat
  <2>1. \A v : Below(s, v) \subseteq 1 .. L /\ AtMost(s, v) \subseteq 1 .. L
    BY DEF Below, AtMost
  <2>. QED BY <1>2, <2>1, FS_Subset, FS_CardinalityType
<1>4. IsFiniteSet(V)
  <2>. DEFINE f == [i \in 1 .. L |-> s[i]]
  <2>1. V = {s[i] : i \in 1 .. L}
    BY DEF Values
  <2>2. f \in Surjection(1 .. L, V)
    BY <2>1 DEF Surjection
  <2>. QED BY <1>2, <2>2, FS_Surjection
<1>5. 1 \in 1 .. L
  OBVIOUS
<1>. HIDE DEF V
<1>6. T # {}
  <2>1. PICK x \in V : \A y \in V : y <= x
    BY <1>1, <1>4, <1>5, Greatest
  <2>2. AtMost(s, x) = 1 .. L
    BY <1>1, <2>1 DEF AtMost
  <2>. QED BY <1>2, <2>1, <2>2
<1>7. PICK v \in T : \A y \in T : v <= y
  <2>1. T \subseteq Nat
    BY <1>1
  <2>. HIDE DEF T
  <2>. QED BY <1>6, <2>1, Nums!LeastElement
<1>8. v \in V /\ v \in Nat /\ k < Cardinality(AtMost(s, v))
  BY <1>1, <1>7
<1>9. Cardinality(Below(s, v)) <= k
  <2>. SUFFICES ASSUME ~ (Cardinality(Below(s, v)) <= k) PROVE FALSE
    OBVIOUS
  <2>1. k < Cardinality(Below(s, v))
    BY <1>3
  <2>. DEFINE W == {y \in V : y < v}
  <2>2. Below(s, v) # {}
    <3>1. Below(s, v) = {} => Cardinality(Below(s, v)) = 0
      BY FS_EmptySet
    <3>. QED BY <2>1, <3>1
  <2>3. W # {}
    BY <1>1, <2>2 DEF Below
  <2>4. IsFiniteSet(W) /\ W \subseteq Nat
    BY <1>1, <1>4, FS_Subset
  <2>5. PICK w \in W : \A y \in W : y <= w
    <3>. HIDE DEF W
    <3>. QED BY <2>3, <2>4, Greatest
  <2>6. Below(s, v) = AtMost(s, w)
    <3>1. w \in Nat /\ w < v /\ w \in V
      BY <2>4, <2>5
    <3>2. ASSUME NEW i \in 1 .. L PROVE s[i] < v <=> s[i] <= w
      <4>1. s[i] \in Nat /\ s[i] \in V
        BY <1>1
      <4>2. s[i] < v => s[i] <= w
        BY <2>5, <4>1
      <4>. QED BY <1>8, <3>1, <4>1, <4>2
    <3>. QED BY <3>2 DEF Below, AtMost
  <2>7. w \in T /\ w \in Nat /\ w < v
    BY <2>1, <2>4, <2>5, <2>6
  <2>. QED BY <1>7, <1>8, <2>7
<1>10. nth(s, k) = CHOOSE x \in V : Between(s, k, x)
  BY DEF nth, V, Values, Between, Below, AtMost
<1>11. nth(s, k) \in V /\ Between(s, k, nth(s, k))
  <2>1. v \in V /\ Between(s, k, v)
    BY <1>8, <1>9 DEF Between
  <2>. QED BY <1>10, <2>1
<1>. QED BY <1>11 DEF V

\* Each sample is the value of an entry of its own.
Samples(m, s, n, before) ==
  /\ n \in Nat /\ DOMAIN s = 1 .. n /\ Len(s) = n /\ s \in Seq(Nat \ {0})
  /\ \E f \in [1 .. n -> {r \in Active(m) : r < before}] :
       /\ \A i, j \in 1 .. n : f[i] = f[j] => i = j
       /\ \A i \in 1 .. n : s[i] = valueOf(m.cells[f[i]])

ActiveBefore(m, i) == {r \in Active(m) : r < i}

sampling(a, q, i, s) == IF is_active(a.m, q[i]) /\ Len(s) < a.limit THEN Append(s, valueOf(a.m.cells[q[i]])) ELSE s

sampledUpTo(a, q, i, s) ==
  LET k == Cardinality(ActiveBefore(a.m, i))
  IN  Samples(a.m, s, IF k < a.limit THEN k ELSE a.limit, i)

Scans == INSTANCE FoldTheorems WITH step <- sampling, choose <- lastOf, Good <- sampledUpTo

\* One more sample.
LEMMA SampleStep ==
  ASSUME NEW m, IsMap(m), NEW i \in 1 .. size(m), NEW s, NEW n, n < Cardinality(ActiveBefore(m, i)),
         i - 1 \in Active(m), Samples(m, s, n, i - 1)
  PROVE  Samples(m, Append(s, valueOf(m.cells[i - 1])), n + 1, i)
<1>. DEFINE v == valueOf(m.cells[i - 1])
            t == Append(s, v)
<1>0. i \in Int /\ \A r \in Active(m) : r \in Int
  BY DEF IsMap, Active, Cells
<1>1. v \in Nat \ {0}
  <2>1. m.cells[i - 1] \in Entry
    BY DEF IsMap, Active
  <2>. QED BY <2>1, EntryIs
<1>2. PICK f \in [1 .. n -> {r \in Active(m) : r < i - 1}] :
       /\ \A j, k \in 1 .. n : f[j] = f[k] => j = k
       /\ \A j \in 1 .. n : s[j] = valueOf(m.cells[f[j]])
  BY DEF Samples
<1>3. n \in Nat /\ DOMAIN s = 1 .. n /\ Len(s) = n /\ s \in Seq(Nat \ {0})
  BY DEF Samples
<1>. HIDE DEF v
<1>4. /\ t \in Seq(Nat \ {0}) /\ Len(t) = n + 1 /\ DOMAIN t = 1 .. n + 1
      /\ t[n + 1] = v /\ \A j \in 1 .. n : t[j] = s[j]
  BY <1>1, <1>3
<1>. HIDE DEF t
<1>. DEFINE g == [j \in 1 .. n + 1 |-> IF j = n + 1 THEN i - 1 ELSE f[j]]
<1>5. \A j \in 1 .. n + 1 : j = n + 1 \/ j \in 1 .. n
  BY <1>3
<1>6. \A j \in 1 .. n : f[j] \in Active(m) /\ f[j] < i - 1 /\ f[j] < i /\ f[j] # i - 1
  BY <1>0, <1>2
<1>7. g \in [1 .. n + 1 -> {r \in Active(m) : r < i}]
  <2>1. i - 1 < i
    BY <1>0
  <2>. QED BY <1>5, <1>6, <2>1
<1>8. \A j, k \in 1 .. n + 1 : g[j] = g[k] => j = k
  BY <1>2, <1>5, <1>6
<1>9. \A j \in 1 .. n + 1 : t[j] = valueOf(m.cells[g[j]])
  <2>1. \A j \in 1 .. n : j # n + 1
    BY <1>3
  <2>. QED BY <1>2, <1>4, <1>5, <2>1 DEF v
<1>. HIDE DEF g
<1>10. \E h \in [1 .. n + 1 -> {r \in Active(m) : r < i}] :
         /\ \A j, k \in 1 .. n + 1 : h[j] = h[k] => j = k
         /\ \A j \in 1 .. n + 1 : t[j] = valueOf(m.cells[h[j]])
  <2>. WITNESS g \in [1 .. n + 1 -> {r \in Active(m) : r < i}]
  <2>. QED BY <1>8, <1>9
<1>11. n + 1 \in Nat
  BY <1>3
<1>12. Samples(m, t, n + 1, i)
  BY <1>4, <1>10, <1>11 DEF Samples
<1>. QED BY <1>12 DEF t, v

\* The samples are the weights of as many entries, the first in the table.
LEMMA SamplesAre ==
  ASSUME NEW m, IsMap(m), NEW limit \in Nat, limit <= Cardinality(Active(m))
  PROVE  Samples(m, samples(m, limit), limit, size(m))
<1>. DEFINE S == size(m)
            q == Scan(m)
            a == [m |-> m, limit |-> limit]
            s == Scans!Left(a, q, <<>>, S)
<1>0. S \in Nat \ {0} /\ Cells(m) = 0 .. S - 1
  BY DEF IsMap, Cells
<1>1. DOMAIN q = 1 .. S /\ \A i \in 1 .. S : q[i] = i - 1
  BY DEF Scan
<1>2. a.m = m /\ a.limit = limit
  OBVIOUS
<1>. HIDE DEF q, a, S
<1>3. samples(m, limit) = s
  BY <1>1, <1>2 DEF samples, FoldLeft, MapThenFoldSet, Max, Scans!Left, Scans!Fold,
     Scans!MapThenFoldSet, sampling, lastOf, q
<1>4. Scans!ChoosesLast
  BY DEF Scans!ChoosesLast, lastOf
<1>5. IsFiniteSet(Active(m))
  BY ActiveIs
<1>6. \A i : IsFiniteSet(ActiveBefore(m, i)) /\ Cardinality(ActiveBefore(m, i)) \in Nat
  <2>1. \A i : ActiveBefore(m, i) \subseteq Active(m)
    BY DEF ActiveBefore
  <2>. QED BY <1>5, <2>1, FS_Subset, FS_CardinalityType
<1>7. sampledUpTo(a, q, 0, <<>>)
  <2>1. ActiveBefore(m, 0) = {}
    BY <1>0 DEF ActiveBefore, Active
  <2>2. Cardinality(ActiveBefore(m, 0)) = 0
    BY <2>1, FS_EmptySet
  <2>3. Samples(m, <<>>, 0, 0)
    <3>1. DOMAIN <<>> = 1 .. 0 /\ Len(<<>>) = 0 /\ <<>> \in Seq(Nat \ {0}) /\ 1 .. 0 = {}
      OBVIOUS
    <3>2. [i \in 1 .. 0 |-> i] \in [1 .. 0 -> {r \in Active(m) : r < 0}]
      BY <3>1
    <3>. QED BY <3>1, <3>2 DEF Samples
  <2>4. (IF 0 < limit THEN 0 ELSE limit) = 0
    OBVIOUS
  <2>. QED BY <1>2, <2>2, <2>3, <2>4 DEF sampledUpTo
<1>8. Scans!Preserves(a, q, S)
  <2>1. ASSUME NEW i \in 1 .. S, NEW t, sampledUpTo(a, q, i - 1, t)
        PROVE  sampledUpTo(a, q, i, sampling(a, q, i, t))
    <3>. DEFINE b == Cardinality(ActiveBefore(m, i - 1))
                k == Cardinality(ActiveBefore(m, i))
                c == IF b < limit THEN b ELSE limit
    <3>1. Samples(m, t, c, i - 1)
      BY <1>2, <2>1 DEF sampledUpTo
    <3>2. Len(t) = c /\ b \in Nat /\ k \in Nat /\ i - 1 \in Cells(m)
      BY <1>0, <1>6, <3>1 DEF Samples
    <3>3. \A r \in Active(m) : r < i <=> r < i - 1 \/ r = i - 1
      BY <1>0 DEF Active
    <3>4. CASE i - 1 \in Active(m)
      <4>1. ActiveBefore(m, i) = ActiveBefore(m, i - 1) \union {i - 1}
        BY <3>3, <3>4 DEF ActiveBefore
      <4>2. i - 1 \notin ActiveBefore(m, i - 1)
        BY <1>0 DEF ActiveBefore
      <4>3. k = b + 1
        <5>. DEFINE x == i - 1
        <5>. HIDE DEF x
        <5>. QED BY <1>6, <4>1, <4>2, FS_AddElement
      <4>4. is_active(m, i - 1)
        BY <3>4 DEF is_active, Active
      <4>5. CASE b < limit
        <5>1. sampling(a, q, i, t) = Append(t, valueOf(m.cells[i - 1]))
          BY <1>1, <1>2, <3>2, <4>4, <4>5 DEF sampling
        <5>2. c = b /\ c < k /\ (IF k < limit THEN k ELSE limit) = c + 1
          BY <3>2, <4>3, <4>5
        <5>. HIDE DEF c, k, b
        <5>3. Samples(m, Append(t, valueOf(m.cells[i - 1])), c + 1, i)
          BY <3>1, <3>4, <5>2, SampleStep DEF S, k
        <5>. QED BY <1>2, <5>1, <5>2, <5>3 DEF sampledUpTo, k
      <4>6. CASE ~ (b < limit)
        <5>1. sampling(a, q, i, t) = t
          BY <1>1, <1>2, <3>2, <4>4, <4>6 DEF sampling
        <5>2. c = limit /\ (IF k < limit THEN k ELSE limit) = limit
          BY <3>2, <4>3, <4>6
        <5>3. Samples(m, t, limit, i)
          <6>1. \A r \in Active(m) : r < i - 1 => r < i
            BY <3>3
          <6>2. Samples(m, t, limit, i - 1)
            BY <3>1, <5>2
          <6>. QED BY <6>1, <6>2 DEF Samples
        <5>. QED BY <1>2, <5>1, <5>2, <5>3 DEF sampledUpTo
      <4>. QED BY <4>5, <4>6
    <3>5. CASE i - 1 \notin Active(m)
      <4>1. ActiveBefore(m, i) = ActiveBefore(m, i - 1)
        BY <3>3, <3>5 DEF ActiveBefore
      <4>2. sampling(a, q, i, t) = t
        BY <1>1, <1>2, <3>2, <3>5 DEF sampling, is_active, Active
      <4>3. {r \in Active(m) : r < i} = {r \in Active(m) : r < i - 1}
        BY <4>1 DEF ActiveBefore
      <4>4. Samples(m, t, c, i)
        BY <3>1, <4>3 DEF Samples
      <4>. QED BY <1>2, <4>1, <4>2, <4>4 DEF sampledUpTo
    <3>. QED BY <3>4, <3>5
  <2>. QED BY <2>1 DEF Scans!Preserves
<1>9. sampledUpTo(a, q, S, s)
  BY <1>0, <1>4, <1>7, <1>8, Scans!LeftKeeps
<1>10. ActiveBefore(m, S) = Active(m)
  BY <1>0 DEF ActiveBefore, Active
<1>11. (IF Cardinality(Active(m)) < limit THEN Cardinality(Active(m)) ELSE limit) = limit
  <2>1. Cardinality(Active(m)) \in Nat
    BY ActiveIs
  <2>. QED BY <2>1
<1>. QED BY <1>2, <1>3, <1>9, <1>10, <1>11 DEF sampledUpTo, S

----------------------------------------------------------------------------
(* Sums over the keys. *)

anyone(S) == CHOOSE x \in S : TRUE
weighting(f, g, x, acc) == f[x] + acc
Totals == INSTANCE FoldTheorems WITH step <- weighting, choose <- anyone, Good <- anyOf

Naturals == [Keys -> Nat]

\* The sum is that of the lemmas about folds,
LEMMA SumIsTotal ==
  ASSUME NEW f \in Naturals
  PROVE  Sum(f) = Totals!Sum(f, Keys)
<1>1. DOMAIN f = Keys
  BY DEF Naturals
<1>. QED BY <1>1 DEF Sum, FoldFunctionOnSet, MapThenFoldSet, Totals!Sum, Totals!Fold, Totals!MapThenFoldSet,
     weighting, anyone

\* ... whose premises hold.
LEMMA TotalsAre ==
  ASSUME NEW f \in Naturals, NEW S, S \subseteq Keys
  PROVE  /\ IsFiniteSet(S) /\ Totals!IsFiniteSet(S) /\ Totals!ChoosesSome
         /\ Totals!Ints(f, S) /\ \A x \in S : Totals!val(f, x) = f[x]
<1>1. IsFiniteSet(S)
  BY FrequentItemsAssumption, FS_Subset
<1>2. Totals!IsFiniteSet(S)
  BY <1>1 DEF IsFiniteSet, Totals!IsFiniteSet
<1>3. Totals!ChoosesSome
  BY DEF Totals!ChoosesSome, Totals!Chosen, anyone
<1>4. \A x \in S : f[x] \in Nat /\ f[x] + 0 = f[x]
  BY DEF Naturals
<1>5. \A x \in S : Totals!val(f, x) = f[x]
  BY <1>4 DEF Totals!val, weighting
<1>. QED BY <1>1, <1>2, <1>3, <1>4, <1>5 DEF Totals!Ints, weighting

\* The sum over a part of the keys, with one key taken out.
LEMMA TotalSplits ==
  ASSUME NEW f \in Naturals, NEW S, S \subseteq Keys
  PROVE  /\ S = {} => Totals!Sum(f, S) = 0
         /\ Totals!Sum(f, S) \in Int
         /\ \A x \in S : Totals!Sum(f, S) = Totals!Sum(f, S \ {x}) + f[x]
<1>1. Totals!SumIsInt(S) /\ Totals!SumSplits(S)
  BY TotalsAre, Totals!SumType, Totals!SumSplit
<1>2. S = {} => Totals!Sum(f, S) = 0
  BY TotalsAre, Totals!SumEmpty
<1>. QED BY <1>1, <1>2, TotalsAre DEF Totals!SumIsInt, Totals!SumSplits, Totals!Without

\* A sum of naturals is one.
LEMMA SumIsNat ==
  ASSUME NEW f \in Naturals
  PROVE  Sum(f) \in Nat
<1>. DEFINE T == {S \in SUBSET Keys : Totals!Sum(f, S) \in Nat}
<1>1. ASSUME NEW S \in SUBSET Keys, \A Q \in SUBSET S : Q # S => Q \in T PROVE S \in T
  <2>1. CASE S = {}
    BY <2>1, TotalSplits
  <2>2. CASE S # {}
    <3>1. PICK x \in S : TRUE
      BY <2>2
    <3>2. S \ {x} \in T /\ f[x] \in Nat
      BY <1>1, <3>1 DEF Naturals
    <3>3. Totals!Sum(f, S) = Totals!Sum(f, S \ {x}) + f[x]
      BY <3>1, TotalSplits
    <3>. QED BY <3>2, <3>3
  <2>. QED BY <2>1, <2>2
<1>2. Keys \in T
  <2>1. \A R \in SUBSET Keys : (\A Q \in SUBSET R : Q # R => Q \in T) => R \in T
    BY <1>1
  <2>. HIDE DEF T
  <2>. QED BY <2>1, Within, FrequentItemsAssumption
<1>. QED BY <1>2, SumIsTotal

\* The sum of sums.
LEMMA SumOfBoth ==
  ASSUME NEW f \in Naturals, NEW g \in Naturals, NEW h \in Naturals, \A x \in Keys : f[x] = g[x] + h[x]
  PROVE  Sum(f) = Sum(g) + Sum(h)
<1>. DEFINE T == {S \in SUBSET Keys : Totals!Sum(f, S) = Totals!Sum(g, S) + Totals!Sum(h, S)}
<1>1. ASSUME NEW S \in SUBSET Keys, \A Q \in SUBSET S : Q # S => Q \in T PROVE S \in T
  <2>1. CASE S = {}
    BY <2>1, TotalSplits
  <2>2. CASE S # {}
    <3>1. PICK x \in S : TRUE
      BY <2>2
    <3>2. S \ {x} \in T /\ S \ {x} \subseteq Keys /\ x \in Keys /\ S \subseteq Keys
      BY <1>1, <3>1
    <3>3. f[x] \in Nat /\ g[x] \in Nat /\ h[x] \in Nat /\ f[x] = g[x] + h[x]
      BY <3>2 DEF Naturals
    <3>4. /\ Totals!Sum(f, S) = Totals!Sum(f, S \ {x}) + f[x]
          /\ Totals!Sum(g, S) = Totals!Sum(g, S \ {x}) + g[x]
          /\ Totals!Sum(h, S) = Totals!Sum(h, S \ {x}) + h[x]
      BY <3>1, <3>2, TotalSplits
    <3>5. Totals!Sum(g, S \ {x}) \in Int /\ Totals!Sum(h, S \ {x}) \in Int
      BY <3>2, TotalSplits
    <3>. QED BY <3>2, <3>3, <3>4, <3>5
  <2>. QED BY <2>1, <2>2
<1>2. Keys \in T
  <2>1. \A R \in SUBSET Keys : (\A Q \in SUBSET R : Q # R => Q \in T) => R \in T
    BY <1>1
  <2>. HIDE DEF T
  <2>. QED BY <2>1, Within, FrequentItemsAssumption
<1>. QED BY <1>2, SumIsTotal

\* A number that some keys have.
Spread(D, v) == [x \in Keys |-> IF x \in D THEN v ELSE 0]

\* The sum of one value at some keys.
LEMMA SumOfSpread ==
  ASSUME NEW D, D \subseteq Keys, NEW v \in Nat
  PROVE  Spread(D, v) \in Naturals /\ Sum(Spread(D, v)) = v * Cardinality(D)
<1>. DEFINE f == Spread(D, v)
            E == Keys \ D
<1>1. /\ f \in Naturals /\ D \subseteq Keys /\ E \subseteq Keys /\ Totals!Plus(D, E) = Keys
      /\ (\A x \in D : f[x] = v) /\ (\A x \in E : f[x] = 0) /\ \A x \in D : x \notin E
  BY DEF Spread, Naturals, Totals!Plus
<1>. HIDE DEF f, E
<1>2. Totals!SumIsProduct(D) /\ Totals!SumIsProduct(E) /\ Totals!SumsUnite(D)
  BY <1>1, TotalsAre, Totals!SumConstant, Totals!SumUnion
<1>3. Totals!Sum(f, D) = v * Totals!Cardinality(D) /\ Totals!Sum(f, E) = 0 * Totals!Cardinality(E)
  BY <1>1, <1>2, TotalsAre DEF Totals!SumIsProduct
<1>4. Totals!Sum(f, Keys) = Totals!Sum(f, D) + Totals!Sum(f, E)
  BY <1>1, <1>2, TotalsAre DEF Totals!SumsUnite
<1>5. Totals!Cardinality(D) = Cardinality(D) /\ Totals!Cardinality(E) = Cardinality(E)
  BY DEF Cardinality, Totals!Cardinality
<1>6. Cardinality(D) \in Nat /\ Cardinality(E) \in Nat
  BY <1>1, TotalsAre, FS_CardinalityType
<1>7. v * Cardinality(D) \in Nat
  <2>. DEFINE c == Cardinality(D)
  <2>1. c \in Nat
    BY <1>6
  <2>. HIDE DEF c
  <2>2. v * c \in Nat
    BY <2>1
  <2>. QED BY <2>2 DEF c
<1>8. Totals!Sum(f, Keys) = v * Cardinality(D)
  <2>. DEFINE x == v * Cardinality(D)
  <2>1. x \in Nat /\ Totals!Sum(f, D) = x /\ Totals!Sum(f, E) = 0
    BY <1>3, <1>5, <1>6, <1>7
  <2>. HIDE DEF x
  <2>2. Totals!Sum(f, Keys) = x
    BY <1>4, <2>1
  <2>. QED BY <2>2 DEF x
<1>. QED BY <1>1, <1>8, SumIsTotal DEF f

\* What is taken from each of some keys is taken from the sum.
LEMMA SumsDrop ==
  ASSUME NEW f \in Naturals, NEW g \in Naturals, NEW v \in Nat, NEW c \in Int,
         \A x \in Keys : g[x] = IF f[x] > v THEN f[x] - v ELSE 0,
         c <= Cardinality({x \in Keys : f[x] >= v})
  PROVE  c * v + Sum(g) <= Sum(f)
<1>. DEFINE D == {x \in Keys : f[x] >= v}
            h == Spread(D, v)
            u == [x \in Keys |-> f[x] - g[x]]
            r == [x \in Keys |-> u[x] - h[x]]
            k == Cardinality(D)
<1>1. \A x \in Keys : f[x] \in Nat /\ g[x] \in Nat
  BY DEF Naturals
<1>2. h \in Naturals /\ Sum(h) = v * k /\ k \in Nat
  BY SumOfSpread, TotalsAre, FS_CardinalityType
<1>3. \A x \in Keys : h[x] = IF f[x] >= v THEN v ELSE 0
  BY DEF Spread
<1>. HIDE DEF h
<1>4. \A x \in Keys : /\ u[x] \in Nat /\ r[x] \in Nat
                      /\ f[x] = g[x] + u[x] /\ u[x] = h[x] + r[x]
  <2>1. ASSUME NEW x \in Keys
        PROVE  /\ u[x] \in Nat /\ r[x] \in Nat
               /\ f[x] = g[x] + u[x] /\ u[x] = h[x] + r[x]
    <3>. DEFINE a == f[x]
                b == g[x]
                d == h[x]
    <3>1. a \in Nat /\ b = (IF a > v THEN a - v ELSE 0) /\ d = (IF a >= v THEN v ELSE 0)
          /\ u[x] = a - b /\ r[x] = u[x] - d
      BY <1>1, <1>3
    <3>. HIDE DEF a, b, d, u, r
    <3>2. /\ u[x] \in Nat /\ r[x] \in Nat /\ a = b + u[x] /\ u[x] = d + r[x]
      BY <3>1
    <3>. QED BY <3>2 DEF a, b, d
  <2>. QED BY <2>1
<1>5. u \in Naturals /\ r \in Naturals
  BY <1>4 DEF Naturals
<1>. HIDE DEF u, r
<1>6. Sum(f) = Sum(g) + Sum(u) /\ Sum(u) = Sum(h) + Sum(r)
  BY <1>2, <1>4, <1>5, SumOfBoth
<1>7. Sum(g) \in Nat /\ Sum(r) \in Nat
  BY <1>5, SumIsNat
<1>8. c <= k
  OBVIOUS
<1>. HIDE DEF k
<1>9. c * v <= v * k
  <2>1. \A a, b \in Int : a <= b => a * v <= v * b
    OBVIOUS
  <2>. QED BY <1>2, <1>8, <2>1
<1>. DEFINE y == v * k
            z == c * v
<1>10. y \in Int /\ z \in Int
  BY <1>2
<1>. HIDE DEF y, z
<1>11. Sum(h) = y /\ z <= y
  BY <1>2, <1>9 DEF y, z
<1>12. z + Sum(g) <= Sum(f)
  BY <1>6, <1>7, <1>10, <1>11
<1>. QED BY <1>12 DEF z

----------------------------------------------------------------------------
(* Purging. *)

\* How many samples are looked at, and how many are not below the median at least.
Looked(num)  == IF num < MaxSampleSize THEN num ELSE MaxSampleSize
AtLeast(num) == Looked(num) - 1 - Looked(num) \div 2

\* There is a sample if there is an entry, and at most as many as entries.
LEMMA LookedIs ==
  ASSUME NEW num \in Nat \ {0}
  PROVE  Looked(num) \in Nat \ {0} /\ Looked(num) <= num /\ Looked(num) \div 2 \in Nat
BY MapAssumption DEF Looked

\* The samples from the median on are of different keys.
LEMMA HeavyKeys ==
  ASSUME NEW m, Sound(m), HasRoom(m), NEW n \in Nat, NEW s, Samples(m, s, n, size(m)),
         NEW L \in Nat, L <= n, NEW v \in Nat
  PROVE  Cardinality({i \in 1 .. L : s[i] >= v}) <= Cardinality({x \in Keys : get(m, x) >= v})
<1>. DEFINE I == {i \in 1 .. L : s[i] >= v}
            K == {x \in Keys : get(m, x) >= v}
<1>1. PICK f \in [1 .. n -> {r \in Active(m) : r < size(m)}] :
       /\ \A i, j \in 1 .. n : f[i] = f[j] => i = j
       /\ \A i \in 1 .. n : s[i] = valueOf(m.cells[f[i]])
  BY DEF Samples
<1>. DEFINE g == [i \in I |-> keyOf(m.cells[f[i]])]
<1>2. I \subseteq 1 .. n
  OBVIOUS
<1>3. \A i \in 1 .. n : f[i] \in Active(m)
  BY <1>1
<1>4. \A r \in Active(m) : keyOf(m.cells[r]) \in Keys /\ get(m, keyOf(m.cells[r])) = valueOf(m.cells[r])
  <2>1. \A r \in Active(m) : m.cells[r] \in Entry
    BY DEF Sound, IsMap, Active
  <2>. QED BY <2>1, EntryIs, GetOf
<1>5. g \in [I -> K]
  BY <1>1, <1>2, <1>3, <1>4
<1>6. \A i, j \in I : g[i] = g[j] => i = j
  BY <1>1, <1>2, <1>3 DEF Sound, Unique
<1>7. g \in Injection(I, K)
  <2>1. DOMAIN g = I
    OBVIOUS
  <2>. HIDE DEF g, I, K
  <2>. QED BY <1>5, <1>6, <2>1 DEF Injection, IsInjective
<1>8. IsFiniteSet(K)
  BY TotalsAre, FrequentItemsAssumption, FS_Subset
<1>. HIDE DEF g, I, K
<1>9. Cardinality(I) <= Cardinality(K)
  BY <1>7, <1>8, FS_Injection
<1>. QED BY <1>9 DEF I, K

\* The median is the weight of some entry, and about half of the samples have at
\* least that weight.
LEMMA MedianIs ==
  ASSUME NEW m, Sound(m), HasRoom(m), m.num # 0
  PROVE  /\ median(m) \in Nat \ {0}
         /\ \E r \in Active(m) : valueOf(m.cells[r]) = median(m)
         /\ AtLeast(m.num) <= Cardinality({x \in Keys : get(m, x) >= median(m)})
<1>. DEFINE n == Looked(m.num)
            s == samples(m, n)
            v == median(m)
            L == n - 1
            k == n \div 2
            K == {x \in Keys : get(m, x) >= v}
<1>1. IsMap(m) /\ m.num \in Nat \ {0} /\ m.num = Cardinality(Active(m))
  BY DEF Sound, IsMap
<1>2. n \in Nat \ {0} /\ n <= m.num /\ k \in Nat /\ L \in Nat
  BY <1>1, LookedIs
<1>3. AtLeast(m.num) = L - k
  BY DEF AtLeast
<1>4. v = IF k < L THEN nth(SubSeq(s, 1, L), k) ELSE s[n]
  BY DEF median, Looked
<1>5. Samples(m, s, n, size(m))
  BY <1>1, <1>2, SamplesAre
<1>6. Cardinality(K) \in Nat
  BY FrequentItemsAssumption, FS_Subset, FS_CardinalityType
<1>. HIDE DEF n, s, k, K, v
<1>7. DOMAIN s = 1 .. n /\ Len(s) = n /\ s \in Seq(Nat \ {0}) /\ \A i \in 1 .. n : s[i] \in Nat \ {0}
  BY <1>5 DEF Samples
<1>8. \A i \in 1 .. n : \E r \in Active(m) : valueOf(m.cells[r]) = s[i]
  BY <1>5 DEF Samples
<1>9. CASE ~ (k < L)
  <2>1. n \in 1 .. n /\ v = s[n]
    BY <1>2, <1>4, <1>9
  <2>2. v \in Nat \ {0} /\ \E r \in Active(m) : valueOf(m.cells[r]) = v
    BY <1>7, <1>8, <2>1
  <2>3. L - k <= Cardinality(K)
    BY <1>2, <1>6, <1>9
  <2>. QED BY <1>3, <2>2, <2>3 DEF v, K
<1>10. CASE k < L
  <2>. DEFINE t == SubSeq(s, 1, L)
              I == {i \in 1 .. L : s[i] >= v}
  <2>1. DOMAIN t = 1 .. L /\ \A i \in 1 .. L : t[i] = s[i] /\ i \in 1 .. n /\ t[i] \in Nat
    BY <1>2, <1>7
  <2>2. v = nth(t, k)
    BY <1>4, <1>10
  <2>. HIDE DEF t, L
  <2>3. v \in Values(t) /\ Between(t, k, v)
    BY <1>2, <1>10, <2>1, <2>2, NthIs
  <2>4. PICK j \in 1 .. L : v = s[j] /\ j \in 1 .. n
    BY <2>1, <2>3 DEF Values
  <2>5. v \in Nat \ {0} /\ \E r \in Active(m) : valueOf(m.cells[r]) = v
    BY <1>7, <1>8, <2>4
  <2>6. IsFiniteSet(1 .. L) /\ Cardinality(1 .. L) = L
    <3>1. L = L - 1 + 1 /\ (1 > L => L = 0)
      BY <1>2
    <3>. QED BY <1>2, <3>1, FS_Interval
  <2>7. Below(t, v) \subseteq 1 .. L /\ I \subseteq 1 .. L
    BY <2>1 DEF Below
  <2>8. Below(t, v) \union I = 1 .. L /\ Below(t, v) \cap I = {}
    <3>1. \A i \in 1 .. L : s[i] < v <=> ~ (s[i] >= v)
      BY <2>1, <2>5
    <3>. QED BY <2>1, <3>1 DEF Below
  <2>9. Cardinality(Below(t, v)) + Cardinality(I) = L /\ Cardinality(I) \in Nat /\ Cardinality(Below(t, v)) \in Nat
    <3>. DEFINE B == Below(t, v)
    <3>. HIDE DEF B, I
    <3>1. IsFiniteSet(B) /\ IsFiniteSet(I) /\ Cardinality(B) \in Nat /\ Cardinality(I) \in Nat
      BY <2>6, <2>7, FS_Subset, FS_CardinalityType DEF B
    <3>2. Cardinality(B \union I) = Cardinality(B) + Cardinality(I) - Cardinality(B \cap I)
      BY <3>1, FS_Union
    <3>3. Cardinality(B \union I) = L /\ Cardinality(B \cap I) = 0
      BY <2>6, <2>8, FS_EmptySet DEF B
    <3>. QED BY <3>1, <3>2, <3>3 DEF B
  <2>10. Cardinality(I) <= Cardinality(K)
    BY <1>2, <1>5, <2>5, HeavyKeys DEF K, L
  <2>11. L - k <= Cardinality(K)
    <3>. HIDE DEF I
    <3>1. Cardinality(Below(t, v)) <= k
      BY <2>3 DEF Between
    <3>. QED BY <1>2, <1>6, <2>9, <2>10, <3>1
  <2>. QED BY <1>3, <2>5, <2>11 DEF v, K
<1>. QED BY <1>9, <1>10

\* The weights in a map.
W(m) == [x \in Keys |-> get(m, x)]

\* The weights are naturals.
LEMMA WeightsAre ==
  ASSUME NEW m, Sound(m), HasRoom(m)
  PROVE  W(m) \in Naturals /\ \A x \in Keys : W(m)[x] = get(m, x) /\ get(m, x) \in Nat
BY GetIs DEF W, Naturals

\* A purge lowers every weight by the median, and the sum by as much for every
\* entry that had at least that weight.
LEMMA Purged ==
  ASSUME NEW m, Sound(m), HasRoom(m), m.num # 0
  PROVE  LET n == purge(m).map
             v == purge(m).offset
         IN  /\ v \in Nat /\ Sound(n) /\ SameShape(m, n) /\ HasRoom(n) /\ n.num < m.num
             /\ \A x \in Keys : W(n)[x] = IF W(m)[x] > v THEN W(m)[x] - v ELSE 0
             /\ AtLeast(m.num) * v + Sum(W(n)) <= Sum(W(m))
<1>. DEFINE n == purge(m).map
            v == purge(m).offset
<1>1. v = median(m) /\ n = subtract_and_keep_positive_only(m, v)
  BY DEF purge
<1>2. v \in Nat \ {0} /\ (\E r \in Active(m) : valueOf(m.cells[r]) = v)
      /\ AtLeast(m.num) <= Cardinality({x \in Keys : get(m, x) >= v})
  BY <1>1, MedianIs
<1>. HIDE DEF n, v
<1>3. Lowered(m, n, v)
  BY <1>1, <1>2, Subtracted
<1>4. \E r \in Active(m) : valueOf(m.cells[r]) <= v
  BY <1>2
<1>5. Sound(n) /\ SameShape(m, n) /\ HasRoom(n) /\ n.num < m.num
  BY <1>3, <1>4 DEF Lowered
<1>6. \A x \in Keys : W(n)[x] = IF W(m)[x] > v THEN W(m)[x] - v ELSE 0
  BY <1>3, <1>5, WeightsAre DEF Lowered
<1>7. W(m) \in Naturals /\ W(n) \in Naturals
  BY <1>5, WeightsAre
<1>8. {x \in Keys : get(m, x) >= v} = {x \in Keys : W(m)[x] >= v}
  BY WeightsAre
<1>9. AtLeast(m.num) \in Int
  <2>1. m.num \in Nat \ {0}
    BY DEF Sound, IsMap
  <2>. QED BY <2>1, LookedIs DEF AtLeast
<1>10. AtLeast(m.num) * v + Sum(W(n)) <= Sum(W(m))
  BY <1>2, <1>6, <1>7, <1>8, <1>9, SumsDrop
<1>. QED BY <1>2, <1>5, <1>6, <1>10 DEF n, v

----------------------------------------------------------------------------
(* Sizes and capacities. *)

\* Powers of two grow.
LEMMA PowersGrow ==
  ASSUME NEW top \in Nat, Powers(top), NEW k \in Nat
  PROVE  \A n \in Nat : k + n <= top => 2 ^ k <= 2 ^ (k + n)
<1>. DEFINE T == {n \in Nat : k + n <= top => 2 ^ k <= 2 ^ (k + n)}
<1>0. \A n \in 0 .. top : 2 ^ n \in Nat \ {0} /\ 2 ^ (n + 1) = 2 * 2 ^ n
  BY DEF Powers
<1>1. 0 \in T
  <2>1. k + 0 = k /\ (k <= top => k \in 0 .. top)
    OBVIOUS
  <2>2. k <= top => 2 ^ k <= 2 ^ k
    BY <1>0, <2>1
  <2>. QED BY <2>1, <2>2
<1>2. ASSUME NEW n \in Nat, n \in T PROVE n + 1 \in T
  <2>. SUFFICES ASSUME k + (n + 1) <= top PROVE 2 ^ k <= 2 ^ (k + (n + 1))
    OBVIOUS
  <2>1. k + n \in 0 .. top /\ k \in 0 .. top /\ k + n <= top /\ k + (n + 1) = (k + n) + 1
    OBVIOUS
  <2>2. 2 ^ k <= 2 ^ (k + n)
    BY <1>2, <2>1
  <2>3. 2 ^ k \in Nat /\ 2 ^ (k + n) \in Nat /\ 2 ^ ((k + n) + 1) = 2 * 2 ^ (k + n)
    BY <1>0, <2>1
  <2>. QED BY <2>1, <2>2, <2>3
<1>3. \A n \in Nat : n \in T
  <2>. HIDE DEF T
  <2>. QED BY <1>1, <1>2, Nums!OverNaturals
<1>. QED BY <1>3

\* Sizes between the smallest and a largest.
LEMMA SizesAre ==
  ASSUME NEW top \in LgMaxSizes
  PROVE  /\ top \in Nat
         /\ \A lg \in LgMin .. top :
              /\ 2 ^ lg \in Nat \ {0} /\ 2 ^ LgMin \in Nat \ {0} /\ 2 ^ LgMin <= 2 ^ lg
              /\ 2 ^ (lg + 1) = 2 * 2 ^ lg
         /\ \A lg \in LgMin .. top : \A u \in lg .. top : 2 ^ lg <= 2 ^ u
<1>1. top \in Nat /\ LgMin \in Nat /\ top >= LgMin /\ Powers(top)
  BY FrequentItemsAssumption
<1>2. ASSUME NEW lg \in LgMin .. top, NEW u \in lg .. top PROVE 2 ^ lg <= 2 ^ u
  <2>1. lg \in Nat /\ u - lg \in Nat /\ lg + (u - lg) = u /\ lg + (u - lg) <= top
    BY <1>1
  <2>. QED BY <1>1, <2>1, PowersGrow
<1>3. ASSUME NEW lg \in LgMin .. top
      PROVE  /\ 2 ^ lg \in Nat \ {0} /\ 2 ^ LgMin \in Nat \ {0} /\ 2 ^ LgMin <= 2 ^ lg
             /\ 2 ^ (lg + 1) = 2 * 2 ^ lg
  <2>1. lg \in 0 .. top /\ LgMin \in 0 .. top /\ LgMin \in LgMin .. top /\ lg \in LgMin .. top
    BY <1>1
  <2>2. 2 ^ LgMin <= 2 ^ lg
    BY <1>2, <2>1
  <2>. QED BY <1>1, <2>1, <2>2 DEF Powers
<1>. QED BY <1>1, <1>2, <1>3

capacity(n) == (LoadFactor * n) \div 8

\* A table of the smallest size or more has two cells to spare at its capacity, and
\* one of twice the size has more capacity.
LEMMA CapacityIs ==
  ASSUME 2 ^ LgMin \in Nat, NEW n \in Nat, 2 ^ LgMin <= n
  PROVE  /\ capacity(n) \in Nat \ {0} /\ capacity(n) + 1 < n
         /\ capacity(n) + 1 <= capacity(2 * n)
<1>. DEFINE P == 2 ^ LgMin
            a == LoadFactor * n
            b == LoadFactor * P
            c == (8 - LoadFactor) * n
            d == (8 - LoadFactor) * P
<1>1. b >= 8 /\ d > 8 /\ P \in Nat /\ P <= n /\ LoadFactor \in Nat /\ 8 - LoadFactor \in Nat
  BY SpareAssumption, MapAssumption
<1>2. capacity(n) = a \div 8 /\ capacity(2 * n) = (2 * a) \div 8
  <2>1. LoadFactor * (2 * n) = 2 * a
    BY <1>1
  <2>. QED BY <2>1 DEF capacity
<1>. HIDE DEF P
<1>3. /\ \A k \in Nat : k * P <= k * n
      /\ a + c = 8 * n
      /\ a \in Nat /\ b \in Nat /\ c \in Nat /\ d \in Nat
  <2>1. \A k \in Nat : k * P <= k * n
    BY <1>1
  <2>2. a + c = 8 * n
    BY <1>1
  <2>. QED BY <1>1, <2>1, <2>2
<1>4. b <= a /\ d <= c
  BY <1>1, <1>3
<1>. HIDE DEF a, b, c, d
<1>5. a >= 8 /\ c > 8
  BY <1>1, <1>3, <1>4
<1>6. /\ a \div 8 \in Nat \ {0} /\ a \div 8 + 1 < n
      /\ a \div 8 + 1 <= (2 * a) \div 8
  BY <1>3, <1>5
<1>. QED BY <1>2, <1>6

----------------------------------------------------------------------------
(* Growing. *)

\* A new map has no entries.
LEMMA NewIs ==
  ASSUME NEW lg \in Nat, NEW lgMax \in Nat, 2 ^ lg \in Nat \ {0}
  PROVE  LET m == newMap(lg, lgMax)
         IN  /\ Sound(m) /\ HasRoom(m) /\ m.num = 0 /\ m.lg = lg /\ m.lgMax = lgMax /\ size(m) = 2 ^ lg
             /\ Active(m) = {} /\ \A x \in Keys : get(m, x) = 0
<1>. DEFINE m == newMap(lg, lgMax)
            A == [p \in 0 .. 2 ^ lg - 1 |-> EMPTY]
<1>1. m = [lg |-> lg, lgMax |-> lgMax, num |-> 0, cells |-> A]
  BY DEF newMap
<1>2. \A p \in 0 .. 2 ^ lg - 1 : A[p] = EMPTY
  OBVIOUS
<1>3. A \in [0 .. 2 ^ lg - 1 -> Entry \union {EMPTY}]
  OBVIOUS
<1>. HIDE DEF m, A
<1>4. m.lg = lg /\ m.lgMax = lgMax /\ m.num = 0 /\ m.cells = A
  BY <1>1
<1>5. size(m) = 2 ^ lg /\ Cells(m) = 0 .. 2 ^ lg - 1
  BY <1>4 DEF size, Cells
<1>6. IsMap(m)
  BY <1>1, <1>3, <1>4, <1>5 DEF IsMap
<1>7. Active(m) = {}
  BY <1>2, <1>4, <1>5 DEF Active
<1>8. Sound(m)
  BY <1>4, <1>6, <1>7, FS_EmptySet DEF Sound, Unique
<1>9. HasRoom(m)
  <2>1. 0 \in Cells(m)
    BY <1>5
  <2>. QED BY <1>2, <1>4, <1>5, <2>1 DEF HasRoom
<1>10. \A x \in Keys : get(m, x) = 0
  BY <1>7, <1>8, <1>9, GetOf
<1>. QED BY <1>4, <1>5, <1>7, <1>8, <1>9, <1>10 DEF m

rehashing(a, q, i, n) ==
  IF is_active(a, q[i]) THEN internal_adjust_or_insert(n, keyOf(a.cells[q[i]]), valueOf(a.cells[q[i]])) ELSE n

rehashedUpTo(a, q, i, n) ==
  /\ Sound(n) /\ n.lg = a.lg + 1 /\ n.lgMax = a.lgMax /\ size(n) = 2 * size(a)
  /\ n.num = Cardinality(ActiveBefore(a, i))
  /\ \A r \in ActiveBefore(a, i) : get(n, keyOf(a.cells[r])) = valueOf(a.cells[r])
  /\ \A x \in Keys : (\A r \in ActiveBefore(a, i) : keyOf(a.cells[r]) # x) => get(n, x) = 0

Rehashes == INSTANCE FoldTheorems WITH step <- rehashing, choose <- lastOf, Good <- rehashedUpTo

\* One cell of the old table.
LEMMA RehashStep ==
  ASSUME NEW m, Sound(m), HasRoom(m), NEW i \in 1 .. size(m), NEW n, NEW q, q[i] = i - 1,
         rehashedUpTo(m, q, i - 1, n)
  PROVE  rehashedUpTo(m, q, i, rehashing(m, q, i, n))
<1>. DEFINE B == ActiveBefore(m, i - 1)
            p == i - 1
            key == keyOf(m.cells[p])
            v == valueOf(m.cells[p])
            o == internal_adjust_or_insert(n, key, v)
            S == size(m)
<1>0. IsMap(m) /\ S \in Nat \ {0} /\ Cells(m) = 0 .. S - 1 /\ p \in Cells(m) /\ IsFiniteSet(Active(m))
  BY ActiveIs DEF Sound, IsMap, Cells
<1>1. /\ Sound(n) /\ n.lg = m.lg + 1 /\ n.lgMax = m.lgMax /\ size(n) = 2 * S
      /\ n.num = Cardinality(B)
      /\ \A r \in B : get(n, keyOf(m.cells[r])) = valueOf(m.cells[r])
      /\ \A x \in Keys : (\A r \in B : keyOf(m.cells[r]) # x) => get(n, x) = 0
  BY DEF rehashedUpTo
<1>2. \A r \in Active(m) : r < i <=> r < i - 1 \/ r = i - 1
  BY <1>0 DEF Active
<1>3. p \notin B /\ B \subseteq Active(m) /\ IsFiniteSet(B)
  <2>1. p \notin B /\ B \subseteq Active(m)
    BY <1>0 DEF ActiveBefore
  <2>. QED BY <1>0, <2>1, FS_Subset
<1>4. rehashing(m, q, i, n) = IF p \in Active(m) THEN o ELSE n
  BY <1>0 DEF rehashing, is_active, Active
<1>5. CASE p \notin Active(m)
  <2>1. ActiveBefore(m, i) = B
    BY <1>2, <1>5 DEF ActiveBefore
  <2>. QED BY <1>1, <1>4, <1>5, <2>1 DEF rehashedUpTo
<1>6. CASE p \in Active(m)
  <2>1. ActiveBefore(m, i) = B \union {p}
    BY <1>2, <1>6 DEF ActiveBefore
  <2>2. Cardinality(B \union {p}) = Cardinality(B) + 1 /\ Cardinality(B) \in Nat
    <3>. HIDE DEF B, p
    <3>. QED BY <1>3, FS_AddElement, FS_CardinalityType
  <2>3. Cardinality(B) + 1 < 2 * S
    <3>1. Cardinality(B) <= Cardinality(Active(m)) /\ Cardinality(Active(m)) < S /\ Cardinality(Active(m)) \in Nat
      <4>1. Cardinality(B) <= Cardinality(Active(m))
        BY <1>0, <1>3, FS_Subset
      <4>2. Cardinality(Active(m)) <= S /\ Cardinality(Active(m)) # S /\ Cardinality(Active(m)) \in Nat
        BY <1>0, ActiveIs
      <4>. QED BY <1>0, <4>1, <4>2
    <3>. QED BY <1>0, <2>2, <3>1
  <2>4. key \in Keys /\ v \in Nat \ {0}
    <3>1. m.cells[p] \in Entry
      BY <1>0, <1>6 DEF Active, IsMap
    <3>. QED BY <3>1, EntryIs
  <2>5. \A r \in B : keyOf(m.cells[r]) # key
    BY <1>3, <1>6 DEF Sound, Unique
  <2>6. get(n, key) = 0
    BY <1>1, <2>4, <2>5
  <2>7. Sound(o) /\ SameShape(n, o) /\ o.num = n.num + 1 /\ More(n, o, key, v)
    <3>. HIDE DEF key, v, S, B, p
    <3>. QED BY <1>1, <2>3, <2>4, <2>6, Inserted
  <2>. HIDE DEF o
  <2>8. o.lg = m.lg + 1 /\ o.lgMax = m.lgMax /\ size(o) = 2 * S
    BY <1>1, <2>7 DEF SameShape
  <2>9. o.num = Cardinality(ActiveBefore(m, i))
    BY <1>1, <2>1, <2>2, <2>7
  <2>10. \A x \in Keys : get(o, x) = IF x = key THEN v ELSE get(n, x)
    <3>1. 0 + v = v
      BY <2>4
    <3>. QED BY <2>6, <2>7, <3>1 DEF More
  <2>11. \A r \in B : keyOf(m.cells[r]) \in Keys
    <3>1. \A r \in B : m.cells[r] \in Entry
      BY <1>0, <1>3 DEF Active, IsMap
    <3>. QED BY <3>1, EntryIs
  <2>12. \A r \in B \union {p} : get(o, keyOf(m.cells[r])) = valueOf(m.cells[r])
    BY <1>1, <2>4, <2>5, <2>10, <2>11
  <2>13. \A x \in Keys : (\A r \in B \union {p} : keyOf(m.cells[r]) # x) => get(o, x) = 0
    BY <1>1, <2>10
  <2>. QED BY <1>4, <1>6, <2>1, <2>7, <2>8, <2>9, <2>12, <2>13 DEF rehashedUpTo
<1>. QED BY <1>5, <1>6

\* A larger table has the same weights.
LEMMA Resized ==
  ASSUME NEW m, Sound(m), HasRoom(m), 2 ^ (m.lg + 1) = 2 * 2 ^ m.lg
  PROVE  LET n == resize(m)
         IN  /\ Sound(n) /\ HasRoom(n) /\ n.lg = m.lg + 1 /\ n.lgMax = m.lgMax /\ size(n) = 2 * size(m)
             /\ n.num = m.num /\ W(n) = W(m)
<1>. DEFINE S == size(m)
            q == Scan(m)
            z == newMap(m.lg + 1, m.lgMax)
            n == Rehashes!Left(m, q, z, S)
<1>0. IsMap(m) /\ S \in Nat \ {0} /\ Cells(m) = 0 .. S - 1 /\ m.lg \in Nat /\ m.lgMax \in Nat
      /\ m.num = Cardinality(Active(m)) /\ S = 2 ^ m.lg
  BY DEF Sound, IsMap, Cells, size
<1>1. DOMAIN q = 1 .. S /\ \A i \in 1 .. S : q[i] = i - 1
  BY DEF Scan
<1>. HIDE DEF q, z, S
<1>2. resize(m) = n
  BY <1>1 DEF resize, FoldLeft, MapThenFoldSet, Max, Rehashes!Left, Rehashes!Fold,
     Rehashes!MapThenFoldSet, rehashing, lastOf, q, z
<1>3. Rehashes!ChoosesLast
  BY DEF Rehashes!ChoosesLast, lastOf
<1>4. rehashedUpTo(m, q, 0, z)
  <2>1. ActiveBefore(m, 0) = {}
    BY <1>0 DEF ActiveBefore, Active
  <2>2. Cardinality({}) = 0
    BY FS_EmptySet
  <2>3. m.lg + 1 \in Nat /\ 2 ^ (m.lg + 1) \in Nat \ {0} /\ 2 ^ (m.lg + 1) = 2 * S
    BY <1>0
  <2>4. Sound(z) /\ z.num = 0 /\ z.lg = m.lg + 1 /\ z.lgMax = m.lgMax /\ size(z) = 2 ^ (m.lg + 1)
        /\ \A x \in Keys : get(z, x) = 0
    BY <1>0, <2>3, NewIs DEF z
  <2>. QED BY <2>1, <2>2, <2>3, <2>4 DEF rehashedUpTo, S
<1>5. Rehashes!Preserves(m, q, S)
  <2>1. ASSUME NEW i \in 1 .. S, NEW o, rehashedUpTo(m, q, i - 1, o)
        PROVE  rehashedUpTo(m, q, i, rehashing(m, q, i, o))
    BY <1>1, <2>1, RehashStep DEF S
  <2>. QED BY <2>1 DEF Rehashes!Preserves
<1>6. rehashedUpTo(m, q, S, n)
  BY <1>0, <1>3, <1>4, <1>5, Rehashes!LeftKeeps
<1>7. ActiveBefore(m, S) = Active(m)
  BY <1>0 DEF ActiveBefore, Active
<1>. HIDE DEF n
<1>8. /\ Sound(n) /\ n.lg = m.lg + 1 /\ n.lgMax = m.lgMax /\ size(n) = 2 * S
      /\ n.num = Cardinality(Active(m))
      /\ \A r \in Active(m) : get(n, keyOf(m.cells[r])) = valueOf(m.cells[r])
      /\ \A x \in Keys : (\A r \in Active(m) : keyOf(m.cells[r]) # x) => get(n, x) = 0
  BY <1>6, <1>7 DEF rehashedUpTo, S
<1>9. HasRoom(n)
  <2>1. Cardinality(Active(m)) \in Nat /\ Cardinality(Active(m)) <= S
    BY <1>0, ActiveIs DEF S
  <2>2. Cardinality(Active(n)) # size(n)
    BY <1>0, <1>8, <2>1 DEF Sound
  <2>. QED BY <1>8, <2>2, ActiveIs DEF Sound
<1>10. \A x \in Keys : get(n, x) = get(m, x)
  BY <1>8, GetOf
<1>11. W(n) = W(m)
  BY <1>10 DEF W
<1>. QED BY <1>0, <1>2, <1>8, <1>9, <1>11 DEF S

----------------------------------------------------------------------------
(* Adding to a key. *)

\* A map between two calls.
Fit(m) ==
  /\ Sound(m) /\ m.lgMax \in LgMaxSizes /\ m.lg \in LgMin .. m.lgMax
  /\ m.num <= get_capacity(m)

\* The factor between the weight that a purge takes and its offset.
Factor(lgMax) == AtLeast(capacity(2 ^ lgMax) + 1)

\* The weight of one key.
Weight(key, v) == Spread({key}, v)

\* What is said of a map between two calls.
LEMMA FitIs ==
  ASSUME NEW m, Fit(m)
  PROVE  /\ HasRoom(m) /\ m.num + 1 < size(m) /\ m.num \in Nat
         /\ get_capacity(m) = capacity(size(m)) /\ capacity(size(m)) \in Nat \ {0}
         /\ capacity(size(m)) + 1 <= capacity(2 * size(m))
         /\ 2 ^ (m.lg + 1) = 2 * size(m) /\ capacity(size(m)) + 1 < size(m)
         /\ m.lg \in Nat /\ size(m) \in Nat /\ m.lgMax \in Nat
<1>0. IsMap(m) /\ m.num = Cardinality(Active(m)) /\ m.num \in Nat /\ m.lg \in Nat /\ size(m) \in Nat /\ m.lgMax \in Nat
  BY DEF Fit, Sound, IsMap
<1>1. 2 ^ LgMin \in Nat /\ 2 ^ LgMin <= size(m) /\ 2 ^ (m.lg + 1) = 2 * size(m)
  BY SizesAre DEF Fit, size
<1>2. get_capacity(m) = capacity(size(m))
  BY DEF get_capacity, capacity
<1>. DEFINE S == size(m)
            c == capacity(S)
<1>3. c \in Nat \ {0} /\ c + 1 < S /\ c + 1 <= capacity(2 * S)
  BY <1>0, <1>1, CapacityIs
<1>4. m.num <= c /\ S \in Nat
  BY <1>0, <1>2 DEF Fit
<1>. HIDE DEF S, c
<1>5. m.num + 1 < S /\ m.num # S
  BY <1>0, <1>3, <1>4
<1>6. HasRoom(m)
  BY <1>0, <1>5, ActiveIs DEF S
<1>. QED BY <1>0, <1>1, <1>2, <1>3, <1>5, <1>6 DEF S, c

\* More weight for one key, as a function.
LEMMA AddsWeight ==
  ASSUME NEW m, NEW n, W(m) \in Naturals, NEW key \in Keys, NEW v \in Nat,
         More(m, n, key, v)
  PROVE  W(n) \in Naturals /\ \A x \in Keys : W(n)[x] = W(m)[x] + Weight(key, v)[x]
<1>1. \A x \in Keys : W(m)[x] = get(m, x) /\ get(m, x) \in Nat /\ W(n)[x] = get(n, x)
  BY DEF W, Naturals
<1>2. \A x \in Keys : Weight(key, v)[x] = IF x = key THEN v ELSE 0
  BY DEF Weight, Spread
<1>3. \A x \in Keys : get(n, x) = get(m, x) + Weight(key, v)[x] /\ get(n, x) \in Nat
  BY <1>1, <1>2 DEF More
<1>4. W(n) \in Naturals
  BY <1>3 DEF W, Naturals
<1>. QED BY <1>1, <1>3, <1>4

\* A weight of one key, summed.
LEMMA WeightIs ==
  ASSUME NEW key \in Keys, NEW v \in Nat
  PROVE  Weight(key, v) \in Naturals /\ Sum(Weight(key, v)) = v
<1>1. {key} \subseteq Keys /\ Cardinality({key}) = 1
  BY FS_Singleton
<1>2. Weight(key, v) \in Naturals /\ Sum(Weight(key, v)) = v * Cardinality({key})
  BY <1>1, SumOfSpread DEF Weight
<1>3. v * 1 = v
  OBVIOUS
<1>. QED BY <1>1, <1>2, <1>3

\* What map n with an offset has of map m and what was added to it.
Took(m, n, offset, add) ==
  /\ Fit(n) /\ n.lgMax = m.lgMax /\ offset \in Nat
  /\ W(m) \in Naturals /\ W(n) \in Naturals
  /\ \A x \in Keys : W(n)[x] <= W(m)[x] + add[x] /\ W(m)[x] + add[x] <= W(n)[x] + offset
  /\ Factor(m.lgMax) * offset + Sum(W(n)) <= Sum(W(m)) + Sum(add)

\* adjust_or_insert throws nothing, adds the weight, and purges at most once, only
\* when the table was full.
LEMMA AdjustedOrInserted ==
  ASSUME NEW m, Fit(m), NEW key \in Keys, NEW v \in Nat \ {0}
  PROVE  LET r == adjust_or_insert(m, key, v)
         IN  /\ ~ insertThrows(m, key) /\ ~ purgeThrows(r.map)
             /\ Took(m, r.map, r.offset, Weight(key, v))
             /\ m.num < get_capacity(m)
                => /\ r.offset = 0 /\ SameShape(m, r.map)
                   /\ r.map.num = IF get(m, key) = 0 THEN m.num + 1 ELSE m.num
<1>. DEFINE r == adjust_or_insert(m, key, v)
            n == internal_adjust_or_insert(m, key, v)
            add == Weight(key, v)
            S == size(m)
<1>0. /\ HasRoom(m) /\ m.num + 1 < S /\ m.num \in Nat /\ get_capacity(m) = capacity(S)
      /\ capacity(S) \in Nat \ {0} /\ capacity(S) + 1 <= capacity(2 * S) /\ 2 ^ (m.lg + 1) = 2 * S
      /\ capacity(S) + 1 < S /\ m.lg \in Nat /\ S \in Nat /\ m.lgMax \in Nat /\ Sound(m)
  BY FitIs DEF Fit
<1>1. m.num <= capacity(S) /\ m.lgMax \in LgMaxSizes /\ m.lg \in LgMin .. m.lgMax /\ LgMin \in Nat
  BY <1>0, FrequentItemsAssumption DEF Fit
<1>2. ~ insertThrows(m, key)
  <2>1. ~ (m.num > get_capacity(m))
    BY <1>0, <1>1
  <2>. QED BY <2>1 DEF insertThrows
<1>3. /\ Sound(n) /\ HasRoom(n) /\ SameShape(m, n) /\ More(m, n, key, v)
      /\ n.num = IF get(m, key) = 0 THEN m.num + 1 ELSE m.num
  <2>1. CASE get(m, key) = 0
    BY <1>0, <2>1, Inserted
  <2>2. CASE get(m, key) # 0
    BY <1>0, <2>2, Adjusted
  <2>. QED BY <2>1, <2>2
<1>4. W(m) \in Naturals /\ W(n) \in Naturals /\ \A x \in Keys : W(n)[x] = W(m)[x] + add[x]
  <2>1. W(m) \in Naturals
    BY <1>0, WeightsAre
  <2>2. v \in Nat
    OBVIOUS
  <2>. QED BY <1>3, <2>1, <2>2, AddsWeight
<1>5. add \in Naturals /\ Sum(W(n)) = Sum(W(m)) + Sum(add)
  <2>1. add \in Naturals
    BY WeightIs
  <2>. QED BY <1>4, <2>1, SumOfBoth
<1>6. Sum(W(n)) \in Nat
  BY <1>4, SumIsNat
<1>7. /\ n.lgMax = m.lgMax /\ n.lg = m.lg /\ size(n) = S /\ get_capacity(n) = capacity(S)
  BY <1>3 DEF SameShape, get_capacity, capacity
<1>8. \A x \in Keys : W(m)[x] \in Nat /\ W(n)[x] \in Nat /\ add[x] \in Nat
  BY <1>4, <1>5 DEF Naturals
<1>9. Factor(m.lgMax) \in Int
  <2>1. m.lgMax \in LgMin .. m.lgMax
    <3>. DEFINE t == m.lgMax
    <3>1. m.lg \in LgMin .. t /\ t \in Nat /\ LgMin \in Nat
      BY <1>0, <1>1
    <3>. HIDE DEF t
    <3>2. t \in LgMin .. t
      BY <3>1
    <3>. QED BY <3>2 DEF t
  <2>2. 2 ^ LgMin \in Nat /\ 2 ^ m.lgMax \in Nat /\ 2 ^ LgMin <= 2 ^ m.lgMax
    BY <1>1, <2>1, SizesAre
  <2>3. capacity(2 ^ m.lgMax) + 1 \in Nat \ {0}
    BY <2>2, CapacityIs
  <2>. QED BY <2>3, LookedIs DEF Factor, AtLeast
<1>. HIDE DEF n, add, S
<1>10. CASE n.num <= capacity(S)
  <2>1. r = [map |-> n, offset |-> 0]
    BY <1>7, <1>10 DEF adjust_or_insert, resize_or_purge_if_needed, n
  <2>2. Fit(n) /\ ~ purgeThrows(n)
    <3>1. ~ (n.num > capacity(S))
      BY <1>0, <1>3, <1>10
    <3>. QED BY <1>1, <1>3, <1>7, <1>10, <3>1 DEF Fit, purgeThrows
  <2>3. Took(m, n, 0, add)
    <3>1. \A x \in Keys : W(n)[x] <= W(m)[x] + add[x] /\ W(m)[x] + add[x] <= W(n)[x] + 0
      BY <1>4, <1>8
    <3>2. Factor(m.lgMax) * 0 + Sum(W(n)) <= Sum(W(m)) + Sum(add)
      BY <1>5, <1>6, <1>9
    <3>. QED BY <1>4, <1>7, <2>2, <3>1, <3>2 DEF Took
  <2>. QED BY <1>2, <1>3, <2>1, <2>2, <2>3 DEF r, add
<1>11. CASE ~ (n.num <= capacity(S))
  <2>1. n.num = m.num + 1 /\ n.num > m.num /\ m.num = capacity(S) /\ n.num # 0
    BY <1>0, <1>1, <1>3, <1>11
  <2>2. r = IF m.lg < m.lgMax THEN [map |-> resize(n), offset |-> 0] ELSE purge(n)
    BY <1>7, <1>11, <2>1 DEF adjust_or_insert, resize_or_purge_if_needed, n
  <2>3. ~ (m.num < get_capacity(m))
    BY <1>0, <2>1
  <2>4. CASE m.lg < m.lgMax
    <3>. DEFINE o == resize(n)
    <3>1. r.map = o /\ r.offset = 0
      BY <2>2, <2>4
    <3>2. 2 ^ (n.lg + 1) = 2 * 2 ^ n.lg
      BY <1>0, <1>7 DEF size
    <3>3. Sound(o) /\ o.lg = m.lg + 1 /\ o.lgMax = m.lgMax /\ size(o) = 2 * S /\ o.num = n.num /\ W(o) = W(n)
      BY <1>3, <1>7, <3>2, Resized
    <3>. HIDE DEF o
    <3>4. o.num <= capacity(2 * S) /\ get_capacity(o) = capacity(2 * S) /\ ~ (o.num > capacity(2 * S))
      <4>1. get_capacity(o) = capacity(2 * S)
        BY <3>3 DEF get_capacity, capacity
      <4>2. o.num = capacity(S) + 1
        BY <2>1, <3>3
      <4>3. capacity(2 * S) \in Int
        <5>1. LoadFactor \in Int /\ 2 * S \in Int
          BY <1>0, MapAssumption
        <5>. QED BY <5>1 DEF capacity
      <4>. QED BY <1>0, <4>1, <4>2, <4>3
    <3>5. Fit(o) /\ ~ purgeThrows(o)
      <4>1. o.lg \in LgMin .. o.lgMax
        BY <1>0, <1>1, <2>4, <3>3
      <4>. QED BY <1>1, <3>3, <3>4, <4>1 DEF Fit, purgeThrows
    <3>6. Took(m, o, 0, add)
      <4>1. \A x \in Keys : W(n)[x] <= W(m)[x] + add[x] /\ W(m)[x] + add[x] <= W(n)[x] + 0
        BY <1>4, <1>8
      <4>2. Factor(m.lgMax) * 0 + Sum(W(n)) <= Sum(W(m)) + Sum(add)
        BY <1>5, <1>6, <1>9
      <4>. QED BY <1>4, <3>3, <3>5, <4>1, <4>2 DEF Took
    <3>. QED BY <1>2, <2>3, <3>1, <3>5, <3>6 DEF add
  <2>5. CASE ~ (m.lg < m.lgMax)
    <3>. DEFINE o == purge(n).map
                u == purge(n).offset
    <3>0. r.map = o /\ r.offset = u
      BY <2>2, <2>5
    <3>1. m.lg = m.lgMax /\ S = 2 ^ m.lgMax
      <4>1. m.lg = m.lgMax
        BY <1>0, <1>1, <2>5
      <4>. QED BY <4>1 DEF S, size
    <3>2. AtLeast(n.num) = Factor(m.lgMax)
      BY <2>1, <3>1 DEF Factor
    <3>3. /\ u \in Nat /\ Sound(o) /\ SameShape(n, o) /\ o.num < n.num
          /\ \A x \in Keys : W(o)[x] = IF W(n)[x] > u THEN W(n)[x] - u ELSE 0
          /\ Factor(m.lgMax) * u + Sum(W(o)) <= Sum(W(n))
      BY <1>3, <2>1, <3>2, Purged
    <3>4. HasRoom(o)
      BY <1>3, <2>1, Purged
    <3>5. W(o) \in Naturals
      BY <3>3, <3>4, WeightsAre
    <3>. HIDE DEF o, u
    <3>6. Fit(o) /\ ~ purgeThrows(o)
      <4>1. o.num \in Nat /\ o.lg = m.lg /\ o.lgMax = m.lgMax /\ get_capacity(o) = capacity(S)
        BY <1>7, <3>3 DEF SameShape, Sound, IsMap, get_capacity, capacity
      <4>2. o.num <= capacity(S) /\ ~ (o.num > capacity(S))
        BY <1>0, <2>1, <3>3, <4>1
      <4>. QED BY <1>1, <3>3, <4>1, <4>2 DEF Fit, purgeThrows
    <3>7. \A x \in Keys : W(o)[x] <= W(m)[x] + add[x] /\ W(m)[x] + add[x] <= W(o)[x] + u
      BY <1>4, <1>8, <3>3
    <3>8. Factor(m.lgMax) * u + Sum(W(o)) <= Sum(W(m)) + Sum(add)
      BY <1>5, <3>3
    <3>9. Took(m, o, u, add)
      BY <1>4, <1>7, <3>3, <3>5, <3>6, <3>7, <3>8 DEF Took, SameShape
    <3>. QED BY <1>2, <2>3, <3>0, <3>6, <3>9 DEF add
  <2>. QED BY <2>4, <2>5
<1>. QED BY <1>10, <1>11

----------------------------------------------------------------------------
(* The iterator. *)

\* The iterator comes by every cell once: its stride is odd, the size a power of two.
LEMMA IterationCovers ==
  ASSUME NEW m, IsMap(m), Powers(m.lg), Active(m) # {}
  PROVE  LET q == iteration(m)
         IN  /\ q = [i \in 1 .. size(m) |-> q[i]]
             /\ \A i \in 1 .. size(m) : q[i] \in Cells(m)
             /\ \A c \in Cells(m) : \E i \in 1 .. size(m) : q[i] = c
             /\ \A i, j \in 1 .. size(m) : q[i] = q[j] => i = j
<1>. DEFINE S == size(m)
            golden == (618 * S) \div 1000
            stride == IF golden % 2 = 0 THEN golden + 1 ELSE golden
            first == CHOOSE p \in Cells(m) : is_active(m, p) /\ \A q \in 0 .. p - 1 : ~ is_active(m, q)
            it == [i \in 1 .. S |-> (first + (i - 1) * stride) % S]
<1>0. S \in Nat \ {0} /\ Cells(m) = 0 .. S - 1 /\ m.lg \in Nat /\ S = 2 ^ m.lg
  BY DEF IsMap, Cells, size
<1>1. iteration(m) = it
  BY DEF iteration
<1>2. first \in Cells(m)
  <2>1. Active(m) \subseteq Nat
    BY <1>0 DEF Active
  <2>2. PICK p \in Active(m) : \A q \in Active(m) : p <= q
    BY <2>1, Nums!LeastElement
  <2>3. p \in Cells(m) /\ is_active(m, p) /\ \A q \in 0 .. p - 1 : ~ is_active(m, q)
    <3>1. p \in 0 .. S - 1 /\ is_active(m, p)
      BY <1>0, <2>2 DEF Active, is_active
    <3>2. ASSUME NEW q \in 0 .. p - 1, is_active(m, q) PROVE FALSE
      <4>1. q \in 0 .. S - 1 /\ q < p /\ q \in Int /\ p \in Int
        BY <1>0, <3>1
      <4>2. q \in Active(m)
        BY <1>0, <3>2, <4>1 DEF Active, is_active
      <4>. QED BY <2>2, <4>1, <4>2
    <3>. QED BY <1>0, <3>1, <3>2
  <2>. QED BY <2>3
<1>3. PICK h \in Int : stride = 2 * h + 1
  <2>1. golden \in Int
    BY <1>0
  <2>. HIDE DEF golden
  <2>2. golden % 2 = 0 => golden + 1 = 2 * (golden \div 2) + 1
    BY <2>1
  <2>3. golden % 2 # 0 => golden = 2 * (golden \div 2) + 1
    BY <2>1
  <2>5. golden \div 2 \in Int
    BY <2>1
  <2>. QED BY <2>2, <2>3, <2>5
<1>. HIDE DEF first, stride
<1>4. first \in Int /\ stride \in Int
  BY <1>0, <1>2, <1>3
<1>5. ASSUME NEW i \in 1 .. S PROVE it[i] \in Cells(m)
  <2>. DEFINE x == first + (i - 1) * stride
  <2>1. x \in Int
    BY <1>0, <1>4
  <2>2. it[i] = x % S
    OBVIOUS
  <2>. HIDE DEF x
  <2>. QED BY <1>0, <2>1, <2>2
<1>6. ASSUME NEW c \in Cells(m) PROVE \E i \in 1 .. S : it[i] = c
  <2>1. Nums!Doubles(m.lg)
    BY DEF Powers, Nums!Doubles
  <2>2. PICK d \in 0 .. S - 1 : Nums!At(first, h, d, c, S)
    <3>1. c \in Int /\ h \in Int /\ first \in Int
      BY <1>0, <1>3, <1>4
    <3>2. \E i \in 0 .. 2 ^ m.lg - 1 : Nums!At(first, h, i, c, 2 ^ m.lg)
      BY <1>0, <2>1, <3>1, Nums!OddStrideReaches
    <3>. QED BY <1>0, <3>2
  <2>3. PICK k \in Int : first + d * (2 * h + 1) = c + S * k
    BY <2>2 DEF Nums!At
  <2>. DEFINE x == first + ((d + 1) - 1) * stride
  <2>4. d + 1 \in 1 .. S /\ d + 1 - 1 = d
    BY <1>0
  <2>5. it[d + 1] = x % S
    BY <2>4
  <2>6. x = c + S * k /\ x \in Int
    BY <1>0, <1>3, <1>4, <2>3, <2>4
  <2>. HIDE DEF x, S
  <2>7. x % S = c
    BY <1>0, <2>6, Nums!Remainder
  <2>. QED BY <2>4, <2>5, <2>7
<1>. HIDE DEF it
<1>7. it \in Surjection(1 .. S, Cells(m))
  <2>1. it \in [1 .. S -> Cells(m)]
    BY <1>5 DEF it
  <2>. QED BY <1>6, <2>1 DEF Surjection
<1>8. it \in Injection(1 .. S, Cells(m))
  <2>1. IsFiniteSet(1 .. S) /\ Cardinality(1 .. S) = S
    <3>. HIDE DEF S
    <3>1. S \in Int /\ 1 \in Int /\ ~ (1 > S) /\ S - 1 + 1 = S
      BY <1>0
    <3>. QED BY <3>1, FS_Interval
  <2>2. Cardinality(Cells(m)) = S
    BY ActiveIs
  <2>. HIDE DEF S
  <2>. QED BY <1>7, <2>1, <2>2, FS_SurjSameCardinalityImpliesInj
<1>9. \A i, j \in 1 .. S : it[i] = it[j] => i = j
  BY <1>8 DEF Injection, IsInjective
<1>10. it = [i \in 1 .. S |-> it[i]]
  BY DEF it
<1>. QED BY <1>1, <1>5, <1>6, <1>9, <1>10 DEF S

----------------------------------------------------------------------------
(* Sketches that grow. *)

\* A larger table purges more.
LEMMA FactorIs ==
  ASSUME NEW s \in LgMaxSizes, NEW t \in LgMaxSizes, s <= t
  PROVE  Factor(s) \in Nat /\ Factor(t) \in Nat /\ Factor(s) <= Factor(t)
<1>1. s \in Nat /\ t \in Nat /\ s \in LgMin .. t /\ t \in s .. t /\ t \in LgMin .. t /\ LgMin \in LgMin .. t
  BY FrequentItemsAssumption
<1>. DEFINE a == 2 ^ s
            b == 2 ^ t
            x == capacity(a) + 1
            y == capacity(b) + 1
<1>2. a \in Nat /\ b \in Nat /\ 2 ^ LgMin \in Nat /\ 2 ^ LgMin <= a /\ 2 ^ LgMin <= b /\ a <= b
  BY <1>1, SizesAre
<1>. HIDE DEF a, b
<1>3. capacity(a) \in Nat \ {0} /\ capacity(b) \in Nat \ {0}
  BY <1>2, CapacityIs
<1>4. capacity(a) <= capacity(b)
  <2>1. LoadFactor * a \in Int /\ LoadFactor * b \in Int /\ LoadFactor * a <= LoadFactor * b
    BY <1>2, MapAssumption
  <2>2. \A u, w \in Int : u <= w => u \div 8 <= w \div 8
    OBVIOUS
  <2>. QED BY <2>1, <2>2 DEF capacity
<1>5. x \in Nat \ {0} /\ y \in Nat \ {0} /\ x <= y
  BY <1>3, <1>4
<1>. HIDE DEF x, y
<1>6. AtLeast(x) \in Nat /\ AtLeast(y) \in Nat /\ AtLeast(x) <= AtLeast(y)
  <2>. DEFINE u == Looked(x)
              w == Looked(y)
  <2>1. u \in Nat \ {0} /\ w \in Nat \ {0} /\ u <= w
    BY <1>5, MapAssumption DEF Looked
  <2>2. \A k \in Nat \ {0} : k - 1 - k \div 2 \in Nat
    OBVIOUS
  <2>3. \A k, l \in Nat \ {0} : k <= l => k - 1 - k \div 2 <= l - 1 - l \div 2
    OBVIOUS
  <2>. QED BY <2>1, <2>2, <2>3 DEF AtLeast
<1>. QED BY <1>6 DEF Factor, x, y, a, b

\* The sum of two weights.
Both(f, g) == [x \in Keys |-> f[x] + g[x]]

\* Sums of two functions.
LEMMA BothIs ==
  ASSUME NEW f \in Naturals, NEW g \in Naturals
  PROVE  /\ Both(f, g) \in Naturals /\ Sum(Both(f, g)) = Sum(f) + Sum(g)
         /\ Both(f, g) = Plus(f, g)
<1>1. \A x \in Keys : f[x] \in Nat /\ g[x] \in Nat /\ Both(f, g)[x] = f[x] + g[x]
  BY DEF Naturals, Both
<1>2. Both(f, g) \in Naturals
  BY <1>1 DEF Naturals, Both
<1>3. Both(f, g) = Plus(f, g)
  BY DEF Naturals, Both, Plus
<1>. QED BY <1>1, <1>2, <1>3, SumOfBoth

\* Nothing taken in.
LEMMA TookNothing ==
  ASSUME NEW m, Fit(m), NEW z \in Naturals, \A x \in Keys : z[x] = 0
  PROVE  Took(m, m, 0, z) /\ Sum(z) = 0
<1>1. W(m) \in Naturals
  BY FitIs, WeightsAre DEF Fit
<1>2. m.lgMax \in LgMaxSizes /\ m.lgMax <= m.lgMax /\ Factor(m.lgMax) \in Nat
  <2>1. m.lgMax \in LgMaxSizes /\ m.lgMax \in Nat
    BY FitIs DEF Fit
  <2>. DEFINE t == m.lgMax
  <2>2. t \in LgMaxSizes /\ t <= t
    BY <2>1
  <2>. HIDE DEF t
  <2>3. Factor(t) \in Nat
    BY <2>2, FactorIs
  <2>. QED BY <2>2, <2>3 DEF t
<1>3. Sum(W(m)) \in Nat /\ Sum(z) \in Nat
  BY <1>1, SumIsNat
<1>4. \A x \in Keys : W(m)[x] \in Nat /\ W(m)[x] <= W(m)[x] + z[x] /\ W(m)[x] + z[x] <= W(m)[x] + 0
  BY <1>1 DEF Naturals
<1>5. Factor(m.lgMax) * 0 + Sum(W(m)) <= Sum(W(m)) + Sum(z)
  BY <1>2, <1>3
<1>6. z = Spread({}, 0)
  BY DEF Naturals, Spread
<1>7. Sum(z) = 0
  <2>1. Sum(Spread({}, 0)) = 0 * Cardinality({}) /\ Cardinality({}) = 0
    BY SumOfSpread, FS_EmptySet
  <2>. QED BY <1>6, <2>1
<1>. QED BY <1>1, <1>4, <1>5, <1>7 DEF Took

\* Two things taken in one after the other.
LEMMA TookBoth ==
  ASSUME NEW m, NEW n, NEW o, NEW a, NEW b, NEW f \in Naturals, NEW g \in Naturals,
         NEW h \in Naturals, \A x \in Keys : h[x] = f[x] + g[x],
         Took(m, n, a, f), Took(n, o, b, g)
  PROVE  Took(m, o, a + b, h)
<1>0. /\ Fit(n) /\ n.lgMax = m.lgMax /\ a \in Nat /\ W(m) \in Naturals /\ W(n) \in Naturals
      /\ \A x \in Keys : W(n)[x] <= W(m)[x] + f[x] /\ W(m)[x] + f[x] <= W(n)[x] + a
      /\ Factor(m.lgMax) * a + Sum(W(n)) <= Sum(W(m)) + Sum(f)
  BY DEF Took
<1>1. /\ Fit(o) /\ o.lgMax = n.lgMax /\ b \in Nat /\ W(o) \in Naturals
      /\ \A x \in Keys : W(o)[x] <= W(n)[x] + g[x] /\ W(n)[x] + g[x] <= W(o)[x] + b
      /\ Factor(n.lgMax) * b + Sum(W(o)) <= Sum(W(n)) + Sum(g)
  BY DEF Took
<1>2. \A x \in Keys : W(m)[x] \in Nat /\ W(n)[x] \in Nat /\ W(o)[x] \in Nat /\ f[x] \in Nat /\ g[x] \in Nat
  BY <1>0, <1>1 DEF Naturals
<1>3. \A x \in Keys : W(o)[x] <= W(m)[x] + h[x] /\ W(m)[x] + h[x] <= W(o)[x] + (a + b)
  BY <1>0, <1>1, <1>2
<1>4. Sum(W(m)) \in Nat /\ Sum(W(n)) \in Nat /\ Sum(W(o)) \in Nat /\ Sum(f) \in Nat /\ Sum(g) \in Nat
      /\ Sum(h) = Sum(f) + Sum(g)
  BY <1>0, <1>1, SumIsNat, SumOfBoth
<1>5. Factor(m.lgMax) \in Nat
  <2>. DEFINE t == m.lgMax
  <2>1. t \in LgMaxSizes /\ t \in Nat
    BY <1>0, FitIs DEF Fit
  <2>. HIDE DEF t
  <2>2. t <= t
    BY <2>1
  <2>3. Factor(t) \in Nat
    BY <2>1, <2>2, FactorIs
  <2>. QED BY <2>3 DEF t
<1>6. Factor(m.lgMax) * (a + b) + Sum(W(o)) <= Sum(W(m)) + Sum(h)
  <2>. DEFINE F == Factor(m.lgMax)
              u == F * a
              v == F * b
  <2>1. F * (a + b) = u + v /\ u \in Nat /\ v \in Nat
    <3>. HIDE DEF F
    <3>. QED BY <1>0, <1>1, <1>5 DEF F
  <2>2. u + Sum(W(n)) <= Sum(W(m)) + Sum(f) /\ v + Sum(W(o)) <= Sum(W(n)) + Sum(g)
    BY <1>0, <1>1
  <2>. HIDE DEF u, v
  <2>3. u + v + Sum(W(o)) <= Sum(W(m)) + Sum(h)
    BY <1>4, <2>1, <2>2
  <2>. QED BY <2>1, <2>3
<1>. QED BY <1>0, <1>1, <1>3, <1>6 DEF Took

\* A sketch between two calls.
Sane(k) ==
  /\ k = [map |-> k.map, offset |-> k.offset, total_weight |-> k.total_weight, fault |-> FALSE]
  /\ Fit(k.map) /\ k.offset \in Nat /\ k.total_weight \in Nat

\* What sketch n has of sketch k and what was added to it.
Grew(k, n, add) ==
  /\ Sane(n) /\ n.offset - k.offset \in Nat
  /\ Took(k.map, n.map, n.offset - k.offset, add)
  /\ n.total_weight = k.total_weight + Sum(add)

\* An update of a sketch.
LEMMA UpdateGrows ==
  ASSUME NEW k, Sane(k), NEW key \in Keys, NEW v \in Nat \ {0}
  PROVE  LET n == updated(k, key, v)
         IN  /\ Grew(k, n, Weight(key, v))
             /\ k.map.num < get_capacity(k.map)
                => /\ n.offset = k.offset /\ SameShape(k.map, n.map)
                   /\ n.map.num = IF get(k.map, key) = 0 THEN k.map.num + 1 ELSE k.map.num
<1>. DEFINE m == k.map
            r == adjust_or_insert(m, key, v)
            n == updated(k, key, v)
            a == k.offset
            t == k.total_weight
<1>0. k = [map |-> m, offset |-> a, total_weight |-> t, fault |-> FALSE] /\ Fit(m) /\ a \in Nat /\ t \in Nat
  BY DEF Sane
<1>1. /\ ~ insertThrows(m, key) /\ ~ purgeThrows(r.map)
      /\ Took(m, r.map, r.offset, Weight(key, v))
      /\ m.num < get_capacity(m)
         => /\ r.offset = 0 /\ SameShape(m, r.map)
            /\ r.map.num = IF get(m, key) = 0 THEN m.num + 1 ELSE m.num
  BY <1>0, AdjustedOrInserted
<1>2. Fit(r.map) /\ r.offset \in Nat
  BY <1>1 DEF Took
<1>3. n = [k EXCEPT !.map = r.map, !.offset = @ + r.offset, !.total_weight = @ + v]
  BY <1>1 DEF updated
<1>. HIDE DEF r, m, a, t, n
<1>4. n = [map |-> r.map, offset |-> a + r.offset, total_weight |-> t + v, fault |-> FALSE]
  BY <1>0, <1>3
<1>5. Sum(Weight(key, v)) = v
  BY WeightIs
<1>6. /\ n.map = r.map /\ n.offset = a + r.offset /\ n.total_weight = t + v
      /\ n = [map |-> n.map, offset |-> n.offset, total_weight |-> n.total_weight, fault |-> FALSE]
      /\ n.offset - a = r.offset /\ n.offset \in Nat /\ n.total_weight \in Nat
      /\ r.offset = 0 => n.offset = a
  BY <1>0, <1>2, <1>4
<1>7. Sane(n)
  BY <1>2, <1>6 DEF Sane
<1>. QED BY <1>1, <1>2, <1>5, <1>6, <1>7 DEF Grew, m, a, t, n

\* Two things a sketch grew by one after the other,
LEMMA GrewBoth ==
  ASSUME NEW k, NEW n, NEW o, NEW f \in Naturals, NEW g \in Naturals, NEW h \in Naturals,
         k.offset \in Nat, k.total_weight \in Nat,
         \A x \in Keys : h[x] = f[x] + g[x], Grew(k, n, f), Grew(n, o, g)
  PROVE  Grew(k, o, h)
<1>. DEFINE a == n.offset - k.offset
            b == o.offset - n.offset
<1>1. a \in Nat /\ b \in Nat /\ k.offset \in Nat /\ n.offset \in Nat /\ o.offset \in Nat
      /\ n.total_weight \in Nat
  BY DEF Grew, Sane
<1>2. o.offset - k.offset = a + b
  BY <1>1
<1>3. Took(k.map, n.map, a, f) /\ Took(n.map, o.map, b, g)
  BY DEF Grew
<1>. HIDE DEF a, b
<1>4. Took(k.map, o.map, a + b, h)
  BY <1>3, TookBoth
<1>5. Sum(h) = Sum(f) + Sum(g) /\ Sum(f) \in Nat /\ Sum(g) \in Nat
  BY SumOfBoth, SumIsNat
<1>6. o.total_weight = k.total_weight + Sum(h)
  BY <1>5 DEF Grew
<1>7. Sane(o) /\ a + b \in Nat
  BY <1>1 DEF Grew
<1>. QED BY <1>2, <1>4, <1>6, <1>7 DEF Grew

\* ... and nothing.
LEMMA GrewNothing ==
  ASSUME NEW k, Sane(k), NEW z \in Naturals, \A x \in Keys : z[x] = 0
  PROVE  Grew(k, k, z)
<1>1. Took(k.map, k.map, 0, z) /\ Sum(z) = 0
  BY TookNothing DEF Sane
<1>2. k.offset - k.offset = 0 /\ k.total_weight = k.total_weight + Sum(z)
  BY <1>1 DEF Sane
<1>. QED BY <1>1, <1>2 DEF Grew

----------------------------------------------------------------------------
(* Updating with the entries of another map. *)

\* The entries among the cells up to i, and their weights.
Reached(o, q, i) == {r \in Active(o) : \E j \in 1 .. i : q[j] = r}

Part(o, q, i) ==
  [x \in Keys |-> IF \E r \in Reached(o, q, i) : keyOf(o.cells[r]) = x THEN get(o, x) ELSE 0]

\* q has every cell of the map once.
Covers(o, q) ==
  /\ \A i \in 1 .. size(o) : q[i] \in Cells(o)
  /\ \A c \in Cells(o) : \E i \in 1 .. size(o) : q[i] = c
  /\ \A i, j \in 1 .. size(o) : q[i] = q[j] => i = j

Blank(m, o) == m.num = 0 /\ m.lg = o.lg /\ m.lgMax = o.lgMax /\ \A x \in Keys : get(m, x) = 0

merging(p, q, i, n) ==
  IF is_active(p.other, q[i])
  THEN updated(n, keyOf(p.other.cells[q[i]]), valueOf(p.other.cells[q[i]])) ELSE n

mergedUpTo(p, q, i, n) ==
  /\ Grew(p.from, n, Part(p.other, q, i))
  /\ Blank(p.from.map, p.other)
     => /\ n.offset = p.from.offset /\ n.map.lg = p.other.lg
        /\ n.map.num = Cardinality(Reached(p.other, q, i))

Merges == INSTANCE FoldTheorems WITH step <- merging, choose <- lastOf, Good <- mergedUpTo

\* The part of a map that the iterator has come by, from nothing to all of it.
LEMMA PartIs ==
  ASSUME NEW o, Fit(o), NEW q, Covers(o, q), NEW i \in 0 .. size(o)
  PROVE  /\ Part(o, q, i) \in Naturals
         /\ i = 0 => /\ Reached(o, q, i) = {} /\ \A x \in Keys : Part(o, q, i)[x] = 0
         /\ i = size(o) => Reached(o, q, i) = Active(o) /\ Part(o, q, i) = W(o)
<1>0. Sound(o) /\ HasRoom(o) /\ size(o) \in Nat
  BY FitIs DEF Fit
<1>1. \A x \in Keys : get(o, x) \in Nat
  BY <1>0, WeightsAre
<1>2. Part(o, q, i) \in Naturals
  BY <1>1 DEF Part, Naturals
<1>3. ASSUME i = 0 PROVE Reached(o, q, i) = {}
  BY <1>3 DEF Reached
<1>4. ASSUME i = size(o) PROVE Reached(o, q, i) = Active(o)
  BY <1>4 DEF Reached, Covers, Active
<1>5. ASSUME i = size(o) PROVE Part(o, q, i) = W(o)
  <2>1. ASSUME NEW x \in Keys PROVE Part(o, q, i)[x] = W(o)[x]
    BY <1>0, <1>4, <1>5, <2>1, GetOf DEF Part, W
  <2>. QED BY <2>1 DEF Part, W
<1>6. ASSUME i = 0 PROVE \A x \in Keys : Part(o, q, i)[x] = 0
  BY <1>3, <1>6 DEF Part
<1>. QED BY <1>2, <1>3, <1>4, <1>5, <1>6

\* One entry of the other map.
LEMMA MergeStep ==
  ASSUME NEW p, Sane(p.from), Fit(p.other), NEW q, Covers(p.other, q),
         NEW i \in 1 .. size(p.other), NEW n, mergedUpTo(p, q, i - 1, n)
  PROVE  mergedUpTo(p, q, i, merging(p, q, i, n))
<1>. DEFINE o == p.other
            k == p.from
            S == size(o)
            r == q[i]
            R == Reached(o, q, i - 1)
            f == Part(o, q, i - 1)
            h == Part(o, q, i)
<1>0. /\ Sound(o) /\ HasRoom(o) /\ S \in Nat /\ IsMap(o) /\ o.num <= get_capacity(o)
      /\ o.num = Cardinality(Active(o)) /\ i \in 0 .. S /\ i - 1 \in 0 .. S /\ i \in Int
  <2>1. Sound(o) /\ HasRoom(o) /\ S \in Nat
    BY FitIs DEF Fit
  <2>2. i \in 0 .. S /\ i - 1 \in 0 .. S /\ i \in Int
    BY <2>1
  <2>. QED BY <2>1, <2>2 DEF Fit, Sound
<1>1. Grew(k, n, f) /\ Sane(n) /\ f \in Naturals /\ h \in Naturals
  BY <1>0, PartIs DEF mergedUpTo, Grew
<1>2. r \in Cells(o) /\ (is_active(o, r) <=> r \in Active(o))
  BY DEF Covers, Active, is_active
<1>3. R \subseteq Active(o) /\ IsFiniteSet(R) /\ Cardinality(R) \in Nat
  <2>1. R \subseteq Active(o)
    BY DEF Reached
  <2>. QED BY <1>0, <2>1, ActiveIs, FS_Subset, FS_CardinalityType
<1>4. CASE ~ is_active(o, r)
  <2>1. merging(p, q, i, n) = n
    BY <1>4 DEF merging
  <2>2. Reached(o, q, i) = R
    <3>1. \A j \in 1 .. i : j = i \/ j \in 1 .. i - 1
      BY <1>0
    <3>2. 1 .. i - 1 \subseteq 1 .. i
      BY <1>0
    <3>. QED BY <1>2, <1>4, <3>1, <3>2 DEF Reached
  <2>3. h = f
    BY <2>2 DEF Part
  <2>. QED BY <2>1, <2>2, <2>3 DEF mergedUpTo
<1>5. CASE is_active(o, r)
  <2>. DEFINE key == keyOf(o.cells[r])
              v == valueOf(o.cells[r])
              u == updated(n, key, v)
              add == Weight(key, v)
  <2>0. r \in Active(o)
    BY <1>2, <1>5
  <2>1. key \in Keys /\ v \in Nat \ {0} /\ get(o, key) = v
    <3>1. o.cells[r] \in Entry
      BY <1>0, <2>0 DEF IsMap, Active
    <3>. QED BY <1>0, <2>0, <3>1, EntryIs, GetOf
  <2>2. merging(p, q, i, n) = u
    BY <1>5 DEF merging
  <2>3. r \notin R
    <3>1. ASSUME NEW j \in 1 .. i - 1, q[j] = r PROVE FALSE
      <4>1. j \in 1 .. S /\ i \in 1 .. S /\ j # i
        BY <1>0
      <4>. QED BY <3>1, <4>1 DEF Covers
    <3>. QED BY <3>1 DEF Reached
  <2>4. Reached(o, q, i) = R \union {r}
    <3>1. \A j \in 1 .. i : j = i \/ j \in 1 .. i - 1
      BY <1>0
    <3>2. 1 .. i - 1 \subseteq 1 .. i /\ i \in 1 .. i
      BY <1>0
    <3>. QED BY <2>0, <3>1, <3>2 DEF Reached
  <2>5. \A s \in R : keyOf(o.cells[s]) # key
    BY <1>0, <1>3, <2>0, <2>3 DEF Sound, Unique
  <2>. HIDE DEF key, v, u, R, r
  <2>6. \A x \in Keys : h[x] = f[x] + add[x]
    <3>1. ASSUME NEW x \in Keys PROVE h[x] = f[x] + add[x]
      <4>1. add[x] = IF x = key THEN v ELSE 0
        BY DEF Weight, Spread
      <4>2. f[x] = IF \E s \in R : keyOf(o.cells[s]) = x THEN get(o, x) ELSE 0
        BY DEF Part, R
      <4>3. h[x] = IF \E s \in R \union {r} : keyOf(o.cells[s]) = x THEN get(o, x) ELSE 0
        BY <2>4 DEF Part
      <4>4. keyOf(o.cells[r]) = key /\ get(o, x) \in Nat
        BY <1>0, WeightsAre DEF key
      <4>5. CASE x = key
        <5>1. h[x] = v /\ f[x] = 0 /\ add[x] = v
          BY <2>1, <2>5, <4>1, <4>2, <4>3, <4>4, <4>5
        <5>. QED BY <2>1, <5>1
      <4>6. CASE x # key
        <5>1. h[x] = f[x] /\ add[x] = 0 /\ f[x] \in Nat
          BY <4>1, <4>2, <4>3, <4>4, <4>6
        <5>. QED BY <5>1
      <4>. QED BY <4>5, <4>6
    <3>. QED BY <3>1
  <2>7. /\ Grew(n, u, add)
        /\ n.map.num < get_capacity(n.map)
           => /\ u.offset = n.offset /\ SameShape(n.map, u.map)
              /\ u.map.num = IF get(n.map, key) = 0 THEN n.map.num + 1 ELSE n.map.num
    BY <1>1, <2>1, UpdateGrows DEF u
  <2>8. add \in Naturals
    BY <2>1, WeightIs
  <2>9. Grew(k, u, h)
    <3>1. k.offset \in Nat /\ k.total_weight \in Nat
      BY DEF Sane
    <3>. HIDE DEF add, f, h, k
    <3>. QED BY <1>1, <2>6, <2>7, <2>8, <3>1, GrewBoth
  <2>10. ASSUME Blank(k.map, o)
         PROVE  u.offset = k.offset /\ u.map.lg = o.lg /\ u.map.num = Cardinality(Reached(o, q, i))
    <3>1. n.offset = k.offset /\ n.map.lg = o.lg /\ n.map.num = Cardinality(R)
      BY <2>10 DEF mergedUpTo, R
    <3>2. get_capacity(n.map) = get_capacity(o)
      BY <3>1 DEF get_capacity, size
    <3>3. Cardinality(R \union {r}) = Cardinality(R) + 1
      BY <1>3, <2>3, FS_AddElement
    <3>4. Cardinality(R \union {r}) <= Cardinality(Active(o)) /\ Cardinality(Active(o)) \in Nat
      <4>1. R \union {r} \subseteq Active(o) /\ IsFiniteSet(Active(o))
        BY <1>0, <1>3, <2>0, ActiveIs
      <4>. QED BY <4>1, FS_Subset, FS_CardinalityType
    <3>5. get_capacity(o) \in Int
      BY FitIs
    <3>6. n.map.num < get_capacity(n.map)
      BY <1>0, <1>3, <3>1, <3>2, <3>3, <3>4, <3>5
    <3>7. get(n.map, key) = 0
      <4>1. W(n.map)[key] <= W(k.map)[key] + f[key] /\ W(n.map) \in Naturals
        BY <1>1, <2>1 DEF Grew, Took
      <4>2. W(k.map)[key] = 0 /\ W(n.map)[key] = get(n.map, key)
        BY <2>1, <2>10 DEF Blank, W
      <4>3. f[key] = 0
        BY <2>1, <2>5 DEF Part, R
      <4>4. W(n.map)[key] \in Nat
        BY <2>1, <4>1 DEF Naturals
      <4>. QED BY <4>1, <4>2, <4>3, <4>4
    <3>. QED BY <2>4, <2>7, <3>1, <3>3, <3>6, <3>7 DEF SameShape
  <2>. QED BY <2>2, <2>9, <2>10 DEF mergedUpTo
<1>. QED BY <1>4, <1>5

\* All of them; a fresh sketch that gets to the size of the other does so without a
\* purge,
LEMMA AllUpdatedFrom ==
  ASSUME NEW p, Sane(p.from), Fit(p.other), p.other.num # 0
  PROVE  LET n == updatedWithAll(p.from, p.other)
         IN  /\ Grew(p.from, n, W(p.other))
             /\ Blank(p.from.map, p.other) => n.offset = p.from.offset /\ n.map.lg = p.other.lg
<1>. DEFINE o == p.other
            k == p.from
            S == size(o)
            q == iteration(o)
            n == Merges!Left(p, q, k, S)
<1>0. /\ Sound(o) /\ IsMap(o) /\ S \in Nat /\ Active(o) # {} /\ Powers(o.lg)
      /\ o.num = Cardinality(Active(o))
  <2>1. Sound(o) /\ IsMap(o) /\ S \in Nat /\ o.lg \in Nat /\ o.num = Cardinality(Active(o))
    BY FitIs DEF Fit, Sound
  <2>2. Active(o) # {}
    BY <2>1, FS_EmptySet
  <2>3. Powers(o.lg)
    <3>1. o.lgMax \in Nat /\ Powers(o.lgMax) /\ o.lg <= o.lgMax
      BY FrequentItemsAssumption DEF Fit
    <3>2. 0 .. o.lg \subseteq 0 .. o.lgMax
      BY <2>1, <3>1
    <3>. QED BY <3>1, <3>2 DEF Powers
  <2>. QED BY <2>1, <2>2, <2>3
<1>1. DOMAIN q = 1 .. S /\ Covers(o, q)
  <2>1. /\ q = [i \in 1 .. S |-> q[i]]
        /\ \A i \in 1 .. S : q[i] \in Cells(o)
        /\ \A c \in Cells(o) : \E i \in 1 .. S : q[i] = c
        /\ \A i, j \in 1 .. S : q[i] = q[j] => i = j
    BY <1>0, IterationCovers
  <2>. QED BY <2>1 DEF Covers
<1>. HIDE DEF q, S
<1>2. updatedWithAll(k, o) = n
  BY <1>1 DEF updatedWithAll, FoldLeft, MapThenFoldSet, Max, Merges!Left, Merges!Fold,
     Merges!MapThenFoldSet, merging, lastOf, q
<1>3. Merges!ChoosesLast
  BY DEF Merges!ChoosesLast, lastOf
<1>4. mergedUpTo(p, q, 0, k)
  <2>1. 0 \in 0 .. S
    BY <1>0
  <2>2. Part(o, q, 0) \in Naturals /\ Reached(o, q, 0) = {} /\ \A x \in Keys : Part(o, q, 0)[x] = 0
    BY <1>1, <2>1, PartIs DEF S
  <2>3. Grew(k, k, Part(o, q, 0))
    BY <2>2, GrewNothing
  <2>4. Cardinality({}) = 0
    BY FS_EmptySet
  <2>. QED BY <2>2, <2>3, <2>4 DEF mergedUpTo, Blank
<1>5. Merges!Preserves(p, q, S)
  <2>1. ASSUME NEW i \in 1 .. S, NEW a, mergedUpTo(p, q, i - 1, a)
        PROVE  mergedUpTo(p, q, i, merging(p, q, i, a))
    BY <1>1, <2>1, MergeStep DEF S
  <2>. QED BY <2>1 DEF Merges!Preserves
<1>6. mergedUpTo(p, q, S, n)
  BY <1>0, <1>3, <1>4, <1>5, Merges!LeftKeeps
<1>7. Part(o, q, S) = W(o)
  <2>1. S \in 0 .. S
    BY <1>0
  <2>. QED BY <1>1, <2>1, PartIs DEF S
<1>. QED BY <1>2, <1>6, <1>7 DEF mergedUpTo

\* ... and the same by its parts.
LEMMA AllUpdated ==
  ASSUME NEW k, Sane(k), NEW o, Fit(o), o.num # 0
  PROVE  LET n == updatedWithAll(k, o)
         IN  /\ Grew(k, n, W(o))
             /\ Blank(k.map, o) => n.offset = k.offset /\ n.map.lg = o.lg
<1>. DEFINE p == [from |-> k, other |-> o]
<1>1. p.from = k /\ p.other = o
  OBVIOUS
<1>. HIDE DEF p
<1>. QED BY <1>1, AllUpdatedFrom

----------------------------------------------------------------------------
(* What a sketch says of the weights it has seen. *)

Zeros == [x \in Keys |-> 0]

\* s is the smallest maximal size of the sketches merged into k.
Describes(k, f, s) ==
  /\ Sane(k) /\ f \in Naturals
  /\ s \in LgMaxSizes /\ s <= k.map.lgMax
  /\ \A x \in Keys : W(k.map)[x] <= f[x] /\ f[x] <= W(k.map)[x] + k.offset
  /\ k.total_weight = Sum(f)
  /\ Factor(s) * k.offset + Sum(W(k.map)) <= k.total_weight

\* A stream without items weighs nothing.
LEMMA ZerosAre == Zeros \in Naturals /\ Sum(Zeros) = 0
<1>1. Zeros = Spread({}, 0)
  BY DEF Zeros, Spread
<1>2. Spread({}, 0) \in Naturals /\ Sum(Spread({}, 0)) = 0 * Cardinality({}) /\ Cardinality({}) = 0
  BY SumOfSpread, FS_EmptySet
<1>. QED BY <1>1, <1>2

\* The numbers in a sketch.
LEMMA SaneIs ==
  ASSUME NEW k, Sane(k)
  PROVE  /\ W(k.map) \in Naturals /\ Sum(W(k.map)) \in Nat
         /\ \A x \in Keys : W(k.map)[x] \in Nat /\ W(k.map)[x] = get(k.map, x)
         /\ k.map.lgMax \in LgMaxSizes /\ k.map.lgMax \in Nat
         /\ k.offset \in Nat /\ k.total_weight \in Nat
<1>1. Fit(k.map) /\ k.map.lgMax \in LgMaxSizes /\ k.map.lgMax \in Nat /\ HasRoom(k.map) /\ Sound(k.map)
  BY FitIs DEF Sane, Fit
<1>2. W(k.map) \in Naturals /\ \A x \in Keys : W(k.map)[x] = get(k.map, x) /\ get(k.map, x) \in Nat
  BY <1>1, WeightsAre
<1>. QED BY <1>1, <1>2, SumIsNat DEF Sane

\* A sketch that grew by a stream stands for both streams.
LEMMA GrownDescribes ==
  ASSUME NEW k, NEW f, NEW s, Describes(k, f, s), NEW n, NEW add \in Naturals, Grew(k, n, add),
         NEW h \in Naturals, \A x \in Keys : h[x] = f[x] + add[x]
  PROVE  Describes(n, h, s)
<1>0. Sane(k) /\ Sane(n) /\ f \in Naturals /\ n.map.lgMax = k.map.lgMax /\ s \in LgMaxSizes
  BY DEF Describes, Grew, Took
<1>. DEFINE a == n.offset - k.offset
            L == k.map.lgMax
<1>1. /\ a \in Nat /\ k.offset \in Nat /\ n.offset = k.offset + a
      /\ \A x \in Keys : /\ W(n.map)[x] <= W(k.map)[x] + add[x]
                         /\ W(k.map)[x] + add[x] <= W(n.map)[x] + a
      /\ Factor(L) * a + Sum(W(n.map)) <= Sum(W(k.map)) + Sum(add)
      /\ n.total_weight = k.total_weight + Sum(add)
  <2>1. a \in Nat /\ k.offset \in Nat /\ n.offset \in Nat
    BY <1>0 DEF Grew, Sane
  <2>2. n.offset = k.offset + a
    BY <2>1
  <2>. QED BY <2>1, <2>2 DEF Grew, Took
<1>. HIDE DEF a
<1>2. \A x \in Keys : W(n.map)[x] \in Nat /\ W(k.map)[x] \in Nat /\ f[x] \in Nat /\ add[x] \in Nat
  BY <1>0, SaneIs DEF Naturals
<1>3. \A x \in Keys : W(n.map)[x] <= h[x] /\ h[x] <= W(n.map)[x] + n.offset
  BY <1>1, <1>2 DEF Describes
<1>4. Sum(h) = Sum(f) + Sum(add) /\ Sum(f) \in Nat /\ Sum(add) \in Nat
      /\ Sum(W(n.map)) \in Nat /\ Sum(W(k.map)) \in Nat
  BY <1>0, SumOfBoth, SumIsNat, SaneIs
<1>5. s <= L /\ L \in LgMaxSizes
  BY <1>0, SaneIs DEF Describes
<1>. HIDE DEF L
<1>6. Factor(s) \in Nat /\ Factor(L) \in Nat /\ Factor(s) <= Factor(L)
  BY <1>0, <1>5, FactorIs
<1>7. Factor(s) * n.offset + Sum(W(n.map)) <= n.total_weight
  <2>. DEFINE F == Factor(s)
              G == Factor(L)
              b == k.offset
              u == F * b
              v == F * a
              w == G * a
  <2>1. F * n.offset = u + v /\ u \in Nat /\ v \in Nat /\ w \in Nat /\ v <= w
    <3>. HIDE DEF F, G, b
    <3>1. F \in Nat /\ G \in Nat /\ F <= G /\ b \in Nat /\ n.offset = b + a
      BY <1>1, <1>6 DEF F, G, b
    <3>2. F * (b + a) = F * b + F * a
      BY <1>1, <3>1
    <3>3. F * a <= G * a
      BY <1>1, <3>1
    <3>. QED BY <1>1, <3>1, <3>2, <3>3
  <2>2. u + Sum(W(k.map)) <= k.total_weight /\ k.total_weight \in Nat
    BY <1>0 DEF Describes, Sane
  <2>3. w + Sum(W(n.map)) <= Sum(W(k.map)) + Sum(add)
    BY <1>1
  <2>. HIDE DEF u, v, w
  <2>4. u + v + Sum(W(n.map)) <= k.total_weight + Sum(add)
    BY <1>4, <2>1, <2>2, <2>3
  <2>. QED BY <1>1, <2>1, <2>4
<1>8. n.total_weight = Sum(h)
  BY <1>1, <1>4 DEF Describes
<1>. QED BY <1>0, <1>3, <1>5, <1>7, <1>8 DEF Describes, L

\* A new sketch stands for nothing.
LEMMA NewDescribes ==
  ASSUME NEW s \in LgMaxSizes
  PROVE  /\ Describes(newSketch(s), Zeros, s)
         /\ newSketch(s).map.lgMax = s
<1>. DEFINE m == newMap(LgMin, s)
            k == newSketch(s)
<1>1. s \in Nat /\ LgMin \in Nat /\ LgMin \in LgMin .. s /\ s <= s /\ 2 ^ LgMin \in Nat \ {0} /\ 2 ^ LgMin <= 2 ^ LgMin
  <2>1. s \in Nat /\ LgMin \in Nat /\ LgMin \in LgMin .. s /\ s <= s
    BY FrequentItemsAssumption
  <2>2. 2 ^ LgMin \in Nat \ {0}
    BY <2>1, SizesAre
  <2>. QED BY <2>1, <2>2
<1>2. /\ Sound(m) /\ HasRoom(m) /\ m.num = 0 /\ m.lg = LgMin /\ m.lgMax = s /\ size(m) = 2 ^ LgMin
      /\ \A x \in Keys : get(m, x) = 0
  BY <1>1, NewIs
<1>. HIDE DEF m
<1>3. m.num <= get_capacity(m)
  <2>1. capacity(2 ^ LgMin) \in Nat \ {0}
    BY <1>1, CapacityIs
  <2>2. get_capacity(m) = capacity(2 ^ LgMin)
    BY <1>2 DEF get_capacity, capacity
  <2>. QED BY <1>2, <2>1, <2>2
<1>4. Fit(m)
  BY <1>1, <1>2, <1>3 DEF Fit
<1>5. k = [map |-> m, offset |-> 0, total_weight |-> 0, fault |-> FALSE]
  BY DEF newSketch, m
<1>. HIDE DEF k
<1>6. Sane(k) /\ k.map = m /\ k.offset = 0 /\ k.total_weight = 0
  BY <1>4, <1>5 DEF Sane
<1>7. W(m) = Zeros
  BY <1>2 DEF W, Zeros
<1>8. \A x \in Keys : W(k.map)[x] <= Zeros[x] /\ Zeros[x] <= W(k.map)[x] + k.offset
  <2>1. \A x \in Keys : Zeros[x] = 0
    BY DEF Zeros
  <2>. QED BY <1>6, <1>7, <2>1
<1>9. Factor(s) * k.offset + Sum(W(k.map)) <= k.total_weight
  <2>1. Factor(s) \in Nat
    BY <1>1, FactorIs
  <2>. QED BY <1>6, <1>7, <2>1, ZerosAre
<1>. QED BY <1>1, <1>2, <1>6, <1>8, <1>9, ZerosAre DEF Describes, k

\* Adding a weight to those of the items.
LEMMA WeightAdds ==
  ASSUME NEW f \in Naturals, NEW key \in Keys, NEW v \in Nat
  PROVE  LET h == [f EXCEPT ![key] = @ + v]
         IN  h \in Naturals /\ \A x \in Keys : h[x] = f[x] + Weight(key, v)[x]
<1>. DEFINE h == [f EXCEPT ![key] = @ + v]
<1>1. \A x \in Keys : f[x] \in Nat
  BY DEF Naturals
<1>2. \A x \in Keys : h[x] = f[x] + (IF x = key THEN v ELSE 0)
  BY <1>1 DEF Naturals
<1>3. h \in Naturals
  BY DEF Naturals
<1>. QED BY <1>2, <1>3 DEF Weight, Spread

\* An update makes it stand for one item more.
LEMMA UpdatedDescribes ==
  ASSUME NEW k, NEW f, NEW s, Describes(k, f, s), NEW key \in Keys, NEW v \in Nat \ {0}
  PROVE  /\ Describes(updated(k, key, v), [f EXCEPT ![key] = @ + v], s)
         /\ updated(k, key, v).map.lgMax = k.map.lgMax
<1>. DEFINE h == [f EXCEPT ![key] = @ + v]
            n == updated(k, key, v)
<1>1. f \in Naturals /\ Sane(k) /\ v \in Nat
  BY DEF Describes
<1>2. h \in Naturals /\ \A x \in Keys : h[x] = f[x] + Weight(key, v)[x]
  BY <1>1, WeightAdds
<1>3. Weight(key, v) \in Naturals
  BY <1>1, WeightIs
<1>4. Grew(k, n, Weight(key, v))
  BY <1>1, UpdateGrows
<1>. HIDE DEF h, n
<1>5. Describes(n, h, s) /\ n.map.lgMax = k.map.lgMax
  BY <1>2, <1>3, <1>4, GrownDescribes DEF Grew, Took
<1>. QED BY <1>5 DEF h, n

----------------------------------------------------------------------------
(* The sketch of a stream. *)

\* Element i of q; p is the maximal size.
adding(p, q, i, f) == [f EXCEPT ![q[i][1]] = @ + q[i][2]]

Adds == INSTANCE FoldTheorems WITH step <- adding, choose <- lastOf, Good <- anyOf

updating(p, q, i, k) == updated(k, q[i][1], q[i][2])

updatedUpTo(p, q, i, k) == Describes(k, Adds!Left(p, q, Zeros, i), p) /\ k.map.lgMax = p

Updates == INSTANCE FoldTheorems WITH step <- updating, choose <- lastOf, Good <- updatedUpTo

\* The sketch of a stream stands for the stream.
LEMMA StreamDescribes ==
  ASSUME NEW s \in LgMaxSizes, NEW q \in Streams
  PROVE  Describes(sketchOf(s, q), weightsOf(q), s) /\ sketchOf(s, q).map.lgMax = s
<1>. DEFINE n == Len(q)
            z == newSketch(s)
<1>1. q \in Seq(Keys \X (Nat \ {0}))
  BY FrequentItemsAssumption
<1>2. DOMAIN q = 1 .. n /\ n \in Nat /\ \A i \in 1 .. n : q[i][1] \in Keys /\ q[i][2] \in Nat \ {0}
  <2>1. DOMAIN q = 1 .. n /\ n \in Nat
    BY <1>1
  <2>2. \A i \in 1 .. n : q[i] \in Keys \X (Nat \ {0})
    BY <1>1
  <2>. QED BY <2>1, <2>2
<1>. HIDE DEF n, z
<1>3. weightsOf(q) = Adds!Left(s, q, Zeros, n)
  BY <1>2 DEF weightsOf, FoldLeft, MapThenFoldSet, Max, Adds!Left, Adds!Fold,
     Adds!MapThenFoldSet, adding, lastOf, Zeros
<1>4. sketchOf(s, q) = Updates!Left(s, q, z, n)
  BY <1>2 DEF sketchOf, FoldLeft, MapThenFoldSet, Max, Updates!Left, Updates!Fold,
     Updates!MapThenFoldSet, updating, lastOf, z
<1>5. Updates!ChoosesLast /\ Adds!ChoosesLast
  BY DEF Updates!ChoosesLast, Adds!ChoosesLast, lastOf
<1>6. updatedUpTo(s, q, 0, z)
  <2>1. Adds!Left(s, q, Zeros, 0) = Zeros
    BY <1>5, Adds!LeftOfNone
  <2>. QED BY <2>1, NewDescribes DEF updatedUpTo, z
<1>7. Updates!Preserves(s, q, n)
  <2>1. ASSUME NEW i \in 1 .. n, NEW k, updatedUpTo(s, q, i - 1, k)
        PROVE  updatedUpTo(s, q, i, updating(s, q, i, k))
    <3>. DEFINE j == i - 1
                f == Adds!Left(s, q, Zeros, j)
    <3>1. j \in Nat /\ j + 1 = i
      BY <1>2
    <3>2. Describes(k, f, s) /\ k.map.lgMax = s
      BY <2>1 DEF updatedUpTo
    <3>. HIDE DEF j
    <3>3. Adds!Left(s, q, Zeros, j + 1) = adding(s, q, j + 1, f)
      BY <1>5, <3>1, Adds!LeftOfMore
    <3>. HIDE DEF f
    <3>4. Adds!Left(s, q, Zeros, i) = [f EXCEPT ![q[i][1]] = @ + q[i][2]]
      BY <3>1, <3>3 DEF adding
    <3>5. Describes(updated(k, q[i][1], q[i][2]), [f EXCEPT ![q[i][1]] = @ + q[i][2]], s)
          /\ updated(k, q[i][1], q[i][2]).map.lgMax = s
      <4>. DEFINE a == q[i][1]
                  b == q[i][2]
      <4>1. a \in Keys /\ b \in Nat \ {0}
        BY <1>2
      <4>. HIDE DEF a, b
      <4>2. Describes(updated(k, a, b), [f EXCEPT ![a] = @ + b], s) /\ updated(k, a, b).map.lgMax = s
        BY <3>2, <4>1, UpdatedDescribes
      <4>. QED BY <4>2 DEF a, b
    <3>. QED BY <3>4, <3>5 DEF updatedUpTo, updating
  <2>. QED BY <2>1 DEF Updates!Preserves
<1>8. updatedUpTo(s, q, n, Updates!Left(s, q, z, n))
  BY <1>2, <1>5, <1>6, <1>7, Updates!LeftKeeps
<1>. QED BY <1>3, <1>4, <1>8 DEF updatedUpTo

----------------------------------------------------------------------------
(* Merging, and reading back. *)

\* A sketch with another offset and total weight.
reset(k, offset, total) == [k EXCEPT !.offset = offset, !.total_weight = total]

\* What deserialize and merge assign at their end.
LEMMA ResetIs ==
  ASSUME NEW k, Sane(k), NEW a \in Nat, NEW t \in Nat
  PROVE  LET n == reset(k, a, t)
         IN  Sane(n) /\ n.map = k.map /\ n.offset = a /\ n.total_weight = t
<1>. DEFINE n == reset(k, a, t)
            m == k.map
            b == k.offset
            u == k.total_weight
<1>1. k = [map |-> m, offset |-> b, total_weight |-> u, fault |-> FALSE] /\ Fit(m)
  BY DEF Sane
<1>2. n = [k EXCEPT !.offset = a, !.total_weight = t]
  BY DEF reset
<1>. HIDE DEF m, b, u, n
<1>3. n = [map |-> m, offset |-> a, total_weight |-> t, fault |-> FALSE]
  BY <1>1, <1>2
<1>. QED BY <1>1, <1>3 DEF Sane, n, m

\* A merge makes the sketch stand for both streams, and its error is that of the
\* smaller of the two tables.
LEMMA MergedDescribes ==
  ASSUME NEW k, NEW f, NEW s, Describes(k, f, s), NEW o, NEW g, NEW t, Describes(o, g, t),
         o.map.num # 0
  PROVE  Describes(merged(k, o), Plus(f, g), IF t < s THEN t ELSE s)
<1>. DEFINE e == updatedWithAll(k, o.map)
            n == merged(k, o)
            h == Both(f, g)
            r == IF t < s THEN t ELSE s
            add == W(o.map)
            a == e.offset - k.offset
            L == k.map.lgMax
<1>0. /\ Sane(k) /\ Sane(o) /\ Fit(o.map) /\ f \in Naturals /\ g \in Naturals
      /\ s \in LgMaxSizes /\ t \in LgMaxSizes /\ s <= L
  BY DEF Describes, Sane
<1>1. Grew(k, e, add)
  BY <1>0, AllUpdated
<1>. HIDE DEF e
<1>2. /\ W(k.map) \in Naturals /\ W(o.map) \in Naturals /\ W(e.map) \in Naturals
      /\ Sum(W(k.map)) \in Nat /\ Sum(W(o.map)) \in Nat /\ Sum(W(e.map)) \in Nat
      /\ L \in LgMaxSizes /\ L \in Nat /\ s \in Nat /\ t \in Nat
      /\ k.offset \in Nat /\ o.offset \in Nat /\ e.offset \in Nat
      /\ k.total_weight \in Nat /\ o.total_weight \in Nat
  BY <1>0, <1>1, SaneIs, FrequentItemsAssumption DEF Grew
<1>3. /\ Sane(e) /\ a \in Nat /\ e.map.lgMax = L
      /\ \A x \in Keys : W(e.map)[x] <= W(k.map)[x] + add[x] /\ W(k.map)[x] + add[x] <= W(e.map)[x] + a
      /\ Factor(L) * a + Sum(W(e.map)) <= Sum(W(k.map)) + Sum(add)
  BY <1>1 DEF Grew, Took
<1>. DEFINE b == e.offset + o.offset
            w == k.total_weight + o.total_weight
<1>4. n = reset(e, b, w)
  BY DEF merged, reset, e
<1>5. b \in Nat /\ w \in Nat /\ b = k.offset + a + o.offset
  BY <1>2
<1>. HIDE DEF b, w, n
<1>6. Sane(n) /\ n.map = e.map /\ n.offset = b /\ n.total_weight = w
  <2>1. Sane(e) /\ b \in Nat /\ w \in Nat
    BY <1>3, <1>5
  <2>2. Sane(reset(e, b, w)) /\ reset(e, b, w).map = e.map /\ reset(e, b, w).offset = b
        /\ reset(e, b, w).total_weight = w
    BY <2>1, ResetIs
  <2>. QED BY <1>4, <2>2
<1>7. h \in Naturals /\ Sum(h) = Sum(f) + Sum(g) /\ h = Plus(f, g)
  BY <1>0, BothIs
<1>8. \A x \in Keys : W(n.map)[x] <= h[x] /\ h[x] <= W(n.map)[x] + n.offset
  <2>1. ASSUME NEW x \in Keys PROVE W(n.map)[x] <= h[x] /\ h[x] <= W(n.map)[x] + n.offset
    <3>1. /\ W(k.map)[x] \in Nat /\ add[x] \in Nat /\ W(e.map)[x] \in Nat /\ f[x] \in Nat /\ g[x] \in Nat
          /\ h[x] = f[x] + g[x]
      BY <1>0, <1>2 DEF Naturals, Both
    <3>2. W(k.map)[x] <= f[x] /\ f[x] <= W(k.map)[x] + k.offset /\ add[x] <= g[x] /\ g[x] <= add[x] + o.offset
      BY DEF Describes
    <3>3. W(e.map)[x] <= W(k.map)[x] + add[x] /\ W(k.map)[x] + add[x] <= W(e.map)[x] + a
      BY <1>3
    <3>. HIDE DEF h, add, a
    <3>4. W(e.map)[x] <= h[x] /\ h[x] <= W(e.map)[x] + b
      BY <1>2, <1>3, <1>5, <3>1, <3>2, <3>3
    <3>. QED BY <1>6, <3>4
  <2>. QED BY <2>1
<1>9. r \in LgMaxSizes /\ r <= s /\ r <= t /\ r <= L
  BY <1>0, <1>2
<1>10. n.total_weight = Sum(h)
  BY <1>6, <1>7 DEF Describes, w
<1>. HIDE DEF r
<1>11. Factor(r) * n.offset + Sum(W(n.map)) <= n.total_weight
  <2>. DEFINE R == Factor(r)
              S == Factor(s)
              T == Factor(t)
              U == Factor(L)
              x == k.offset
              y == o.offset
  <2>1. R \in Nat /\ S \in Nat /\ T \in Nat /\ U \in Nat /\ R <= S /\ R <= T /\ R <= U
    BY <1>0, <1>2, <1>9, FactorIs
  <2>2. S * x + Sum(W(k.map)) <= k.total_weight /\ T * y + Sum(W(o.map)) <= o.total_weight
    BY DEF Describes
  <2>3. U * a + Sum(W(e.map)) <= Sum(W(k.map)) + Sum(W(o.map))
    BY <1>3
  <2>. HIDE DEF R, S, T, U, x, y, a
  <2>4. x \in Nat /\ y \in Nat /\ a \in Nat
    BY <1>2, <1>3 DEF x, y
  <2>5. R * x \in Nat /\ R * y \in Nat /\ R * a \in Nat /\ S * x \in Nat /\ T * y \in Nat /\ U * a \in Nat
        /\ R * x <= S * x /\ R * y <= T * y /\ R * a <= U * a
        /\ R * (x + a + y) = R * x + R * a + R * y
    BY <2>1, <2>4
  <2>6. R * x + R * a + R * y + Sum(W(e.map)) <= k.total_weight + o.total_weight
    BY <1>2, <2>2, <2>3, <2>5
  <2>7. n.offset = x + a + y /\ W(n.map) = W(e.map) /\ n.total_weight = k.total_weight + o.total_weight
    BY <1>5, <1>6 DEF w, x, y
  <2>8. R * n.offset + Sum(W(n.map)) <= n.total_weight
    BY <2>5, <2>6, <2>7
  <2>. QED BY <2>8 DEF R
<1>12. r <= n.map.lgMax
  BY <1>3, <1>6, <1>9
<1>13. Describes(n, h, r)
  BY <1>6, <1>7, <1>8, <1>9, <1>10, <1>11, <1>12 DEF Describes
<1>. QED BY <1>7, <1>13 DEF n, r

\* An image is read back as a sketch that stands for the same stream.
LEMMA ReadBackDescribes ==
  ASSUME NEW k, NEW f, NEW s, Describes(k, f, s)
  PROVE  Describes(readBack(k), IF is_empty(k) THEN Zeros ELSE f, s)
<1>. DEFINE z == newMap(k.map.lg, k.map.lgMax)
            fresh == [k EXCEPT !.map = z, !.offset = 0, !.total_weight = 0]
            n == readBack(k)
<1>0. Sane(k) /\ Fit(k.map) /\ f \in Naturals /\ s \in LgMaxSizes /\ s <= k.map.lgMax
  BY DEF Describes, Sane
<1>1. /\ k.map.lg \in Nat /\ k.map.lgMax \in Nat /\ 2 ^ k.map.lg \in Nat \ {0}
      /\ get_capacity(k.map) = capacity(size(k.map)) /\ capacity(size(k.map)) \in Nat \ {0}
      /\ k.map.lgMax \in LgMaxSizes /\ k.map.lg \in LgMin .. k.map.lgMax
  BY <1>0, FitIs DEF Fit, Sound, IsMap, size
<1>2. /\ Sound(z) /\ z.num = 0 /\ z.lg = k.map.lg /\ z.lgMax = k.map.lgMax
      /\ size(z) = size(k.map) /\ \A x \in Keys : get(z, x) = 0
  BY <1>1, NewIs DEF size
<1>. HIDE DEF z
<1>3. Fit(z)
  <2>1. get_capacity(z) = capacity(size(k.map))
    BY <1>2 DEF get_capacity, capacity
  <2>. QED BY <1>1, <1>2, <2>1 DEF Fit
<1>4. fresh = [map |-> z, offset |-> 0, total_weight |-> 0, fault |-> FALSE]
  <2>2. fresh = [k EXCEPT !.map = z, !.offset = 0, !.total_weight = 0]
    OBVIOUS
  <2>. DEFINE a == k.map
              b == k.offset
              c == k.total_weight
  <2>1. k = [map |-> a, offset |-> b, total_weight |-> c, fault |-> FALSE]
    BY <1>0 DEF Sane
  <2>. HIDE DEF a, b, c, fresh
  <2>. QED BY <2>1, <2>2
<1>. HIDE DEF fresh
<1>5. Sane(fresh) /\ fresh.map = z /\ fresh.offset = 0 /\ fresh.total_weight = 0
  BY <1>3, <1>4 DEF Sane
<1>6. W(z) = Zeros
  BY <1>2 DEF W, Zeros
<1>7. CASE is_empty(k)
  <2>1. n = fresh
    BY <1>7 DEF readBack, fresh, z
  <2>2. \A x \in Keys : W(fresh.map)[x] <= Zeros[x] /\ Zeros[x] <= W(fresh.map)[x] + fresh.offset
    <3>1. \A x \in Keys : Zeros[x] = 0
      BY DEF Zeros
    <3>. QED BY <1>5, <1>6, <3>1
  <2>3. Factor(s) * fresh.offset + Sum(W(fresh.map)) <= fresh.total_weight
    <3>1. Factor(s) \in Nat
      BY <1>0, <1>1, FactorIs
    <3>. QED BY <1>5, <1>6, <3>1, ZerosAre
  <2>4. s <= fresh.map.lgMax
    BY <1>0, <1>2, <1>5
  <2>. QED BY <1>0, <1>5, <1>7, <2>1, <2>2, <2>3, <2>4, ZerosAre DEF Describes
<1>8. CASE ~ is_empty(k)
  <2>. DEFINE e == updatedWithAll(fresh, k.map)
              a == k.offset
              t == k.total_weight
  <2>1. n = reset(e, a, t)
    BY <1>8 DEF readBack, reset, fresh, z
  <2>2. Blank(fresh.map, k.map)
    BY <1>2, <1>5 DEF Blank
  <2>3. k.map.num # 0
    BY <1>8 DEF is_empty
  <2>4. Grew(fresh, e, W(k.map)) /\ e.offset = 0
    BY <1>0, <1>5, <2>2, <2>3, AllUpdated
  <2>. HIDE DEF e
  <2>5. Sane(e) /\ e.map.lgMax = k.map.lgMax /\ Took(fresh.map, e.map, 0, W(k.map))
    <3>1. e.offset - fresh.offset = 0
      BY <1>5, <2>4
    <3>. QED BY <1>2, <1>5, <2>4, <3>1 DEF Grew, Took
  <2>6. W(e.map) = W(k.map)
    <3>1. ASSUME NEW x \in Keys PROVE W(e.map)[x] = W(k.map)[x]
      <4>1. W(e.map)[x] <= W(z)[x] + W(k.map)[x] /\ W(z)[x] + W(k.map)[x] <= W(e.map)[x] + 0
        BY <1>5, <2>5 DEF Took
      <4>2. W(z)[x] = 0 /\ W(e.map)[x] \in Nat /\ W(k.map)[x] \in Nat
        BY <1>0, <1>6, <2>5, SaneIs DEF Zeros
      <4>. QED BY <4>1, <4>2
    <3>. QED BY <3>1 DEF W
  <2>7. Sane(n) /\ n.map = e.map /\ n.offset = k.offset /\ n.total_weight = k.total_weight
    <3>1. a \in Nat /\ t \in Nat
      BY <1>0, SaneIs
    <3>. HIDE DEF a, t, n
    <3>2. Sane(n) /\ n.map = e.map /\ n.offset = a /\ n.total_weight = t
      <4>1. Sane(reset(e, a, t)) /\ reset(e, a, t).map = e.map /\ reset(e, a, t).offset = a
            /\ reset(e, a, t).total_weight = t
        BY <2>5, <3>1, ResetIs
      <4>. QED BY <2>1, <4>1
    <3>. QED BY <3>2 DEF a, t
  <2>8. s <= n.map.lgMax
    BY <1>0, <2>5, <2>7
  <2>. HIDE DEF n
  <2>9. Describes(n, f, s)
    BY <2>6, <2>7, <2>8 DEF Describes
  <2>. QED BY <1>8, <2>9 DEF n
<1>. QED BY <1>7, <1>8

----------------------------------------------------------------------------
(* The properties. *)

\* The sketch describes what it has taken in.
SketchInv == Describes(sketch, truth, smallest) /\ leftOut \in Naturals

\* It does at first,
LEMMA InitInv == Init => SketchInv
<1>. SUFFICES ASSUME Init PROVE SketchInv
  OBVIOUS
<1>1. PICK s \in LgMaxSizes : sketch = newSketch(s) /\ smallest = s
  BY DEF Init
<1>2. truth = Zeros /\ leftOut = Zeros
  BY DEF Init, Zeros
<1>3. Describes(newSketch(s), Zeros, s)
  BY NewDescribes
<1>. QED BY <1>1, <1>2, <1>3, ZerosAre DEF SketchInv

\* ... after every call,
LEMMA NextInv == SketchInv /\ [Next]_vars => SketchInv'
<1>. SUFFICES ASSUME SketchInv, [Next]_vars PROVE SketchInv'
  OBVIOUS
<1>0. Describes(sketch, truth, smallest) /\ leftOut \in Naturals /\ truth \in Naturals
  BY DEF SketchInv, Describes
<1>1. ASSUME NEW item \in Keys, NEW weight \in Weights, update(item, weight) PROVE SketchInv'
  <2>1. weight \in Nat \ {0}
    BY FrequentItemsAssumption
  <2>2. Describes(updated(sketch, item, weight), [truth EXCEPT ![item] = @ + weight], smallest)
    BY <1>0, <2>1, UpdatedDescribes
  <2>. QED BY <1>0, <1>1, <2>2 DEF update, SketchInv
<1>2. ASSUME NEW other \in Sources, merge(other) PROVE SketchInv'
  <2>1. PICK s \in LgMaxSizes, q \in Streams :
          other = [sketch |-> sketchOf(s, q), truth |-> weightsOf(q)]
    BY DEF Sources
  <2>2. Describes(other.sketch, other.truth, s)
    BY <2>1, StreamDescribes
  <2>3. other.truth \in Naturals /\ s = other.sketch.map.lgMax
    <3>1. other.truth \in Naturals
      BY <2>2 DEF Describes
    <3>2. other.sketch.map.lgMax = s
      BY <2>1, StreamDescribes
    <3>. QED BY <3>1, <3>2
  <2>4. CASE is_empty(other.sketch) /\ leftOut' = Plus(leftOut, other.truth)
             /\ UNCHANGED <<sketch, truth, smallest>>
    <3>1. Plus(leftOut, other.truth) \in Naturals
      BY <1>0, <2>3, BothIs
    <3>. QED BY <1>0, <2>4, <3>1 DEF SketchInv
  <2>5. CASE /\ ~ is_empty(other.sketch)
             /\ sketch' = merged(sketch, other.sketch) /\ truth' = Plus(truth, other.truth)
             /\ smallest' = IF other.sketch.map.lgMax < smallest THEN other.sketch.map.lgMax ELSE smallest
             /\ UNCHANGED leftOut
    <3>1. other.sketch.map.num # 0
      BY <2>5 DEF is_empty
    <3>2. Describes(merged(sketch, other.sketch), Plus(truth, other.truth),
                    IF s < smallest THEN s ELSE smallest)
      BY <1>0, <2>2, <3>1, MergedDescribes
    <3>. QED BY <1>0, <2>3, <2>5, <3>2 DEF SketchInv
  <2>. QED BY <1>2, <2>4, <2>5 DEF merge
<1>3. ASSUME mergeSelf PROVE SketchInv'
  <2>1. sketch.map.num # 0
    BY <1>3 DEF mergeSelf, is_empty
  <2>2. Describes(merged(sketch, sketch), Plus(truth, truth),
                  IF smallest < smallest THEN smallest ELSE smallest)
    BY <1>0, <2>1, MergedDescribes
  <2>. QED BY <1>0, <1>3, <2>2 DEF mergeSelf, SketchInv
<1>4. ASSUME serializeAndDeserialize PROVE SketchInv'
  <2>1. Describes(readBack(sketch), IF is_empty(sketch) THEN Zeros ELSE truth, smallest)
    BY <1>0, ReadBackDescribes
  <2>2. Plus(leftOut, truth) \in Naturals
    BY <1>0, BothIs
  <2>. QED BY <1>0, <1>4, <2>1, <2>2 DEF serializeAndDeserialize, SketchInv, Zeros
<1>5. ASSUME UNCHANGED vars PROVE SketchInv'
  BY <1>0, <1>5 DEF vars, SketchInv
<1>. QED BY <1>1, <1>2, <1>3, <1>4, <1>5 DEF Next

\* ... and so always.
LEMMA InvHolds == Spec => []SketchInv
BY InitInv, NextInv, PTL DEF Spec

(* No update, merge or reading back reaches a throw of the map. *)
THEOREM SketchNeverThrows == Spec => []NoThrow
<1>1. SketchInv => NoThrow
  <2>. SUFFICES ASSUME SketchInv PROVE sketch.fault = FALSE
    BY DEF NoThrow
  <2>1. Sane(sketch)
    BY DEF SketchInv, Describes
  <2>2. \A a, b, c : [map |-> a, offset |-> b, total_weight |-> c, fault |-> FALSE].fault = FALSE
    OBVIOUS
  <2>. QED BY <2>1, <2>2 DEF Sane
<1>. QED BY <1>1, InvHolds, PTL

(* The weight of every item is within its bounds. *)
THEOREM BoundsEncloseTruth == Spec => []BoundsHold
<1>1. SketchInv => BoundsHold
  <2>. SUFFICES ASSUME SketchInv, NEW item \in Keys
                PROVE  get_lower_bound(sketch, item) <= truth[item] /\ truth[item] <= get_upper_bound(sketch, item)
    BY DEF BoundsHold
  <2>1. W(sketch.map)[item] = get(sketch.map, item)
    BY DEF W
  <2>. QED BY <2>1 DEF SketchInv, Describes, get_lower_bound, get_upper_bound
<1>. QED BY <1>1, InvHolds, PTL

(* The total weight is the weight of all items. *)
THEOREM TotalCounts == Spec => []TotalIsSum
<1>1. SketchInv => TotalIsSum
  BY DEF SketchInv, Describes, TotalIsSum
<1>. QED BY <1>1, InvHolds, PTL

(* The offset is bounded by the weight that is no longer in the map. *)
THEOREM ErrorIsBounded == Spec => []ErrorBounded
<1>1. SketchInv => ErrorBounded
  <2>. SUFFICES ASSUME SketchInv PROVE ErrorBounded
    OBVIOUS
  <2>1. Factor(smallest) * sketch.offset + Sum(W(sketch.map)) <= sketch.total_weight
    BY DEF SketchInv, Describes
  <2>. QED BY <2>1 DEF ErrorBounded, Factor, AtLeast, Looked, capacity, W
<1>. QED BY <1>1, InvHolds, PTL

\* What the invariant says of the table.
LEMMA InvMap ==
  ASSUME SketchInv
  PROVE  Sound(sketch.map) /\ HasRoom(sketch.map) /\ IsMap(sketch.map)
         /\ sketch.map.num <= get_capacity(sketch.map)
         /\ sketch.offset \in Nat
BY FitIs DEF SketchInv, Describes, Sane, Fit, Sound

(* The table is what linear probing makes of its entries. *)
THEOREM TableIsProbed == Spec => []WellProbed
<1>1. SketchInv => WellProbed
  <2>. SUFFICES ASSUME SketchInv PROVE WellProbed
    OBVIOUS
  <2>. DEFINE m == sketch.map
              n == size(m)
  <2>0. /\ Sound(m) /\ IsMap(m) /\ n \in Nat \ {0} /\ Cells(m) = 0 .. n - 1
        /\ m.num <= get_capacity(m)
    BY InvMap DEF IsMap, Cells
  <2>1. m.num = Cardinality({p \in Cells(m) : is_active(m, p)})
    BY <2>0 DEF Sound, Active, is_active
  <2>2. ASSUME NEW p \in Cells(m), is_active(m, p)
        PROVE  LET key == keyOf(m.cells[p])
                   d   == stateOf(m.cells[p]) - 1
               IN  /\ p = (home(m, key) + d) % n
                   /\ \A j \in 0 .. d - 1 : probed(m, key, j) # EMPTY
                   /\ \A q \in Cells(m) \ {p} : is_active(m, q) => keyOf(m.cells[q]) # key
    <3>. DEFINE key == keyOf(m.cells[p])
                h == home(m, key)
                s == stateOf(m.cells[p])
                d == s - 1
    <3>1. p \in Active(m) /\ key \in Keys /\ InPlace(m, p)
      <4>1. p \in Active(m) /\ m.cells[p] \in Entry
        BY <2>0, <2>2 DEF Active, is_active, IsMap
      <4>. QED BY <2>0, <4>1, EntryIs DEF Sound
    <3>2. h \in 0 .. n - 1
      BY <2>0, <3>1, HomeIs
    <3>3. s = dist(n, h, p) + 1 /\ \A r \in Cells(m) : dist(n, r, p) <= dist(n, h, p) => m.cells[r] # EMPTY
      BY <3>1 DEF InPlace
    <3>4. \A q \in Cells(m) \ {p} : is_active(m, q) => keyOf(m.cells[q]) # key
      BY <2>0, <3>1 DEF Sound, Unique, Active, is_active
    <3>5. \A j : probed(m, key, j) = m.cells[(h + j) % n]
      BY DEF probed
    <3>. HIDE DEF n, h, s, key, m
    <3>6. p \in 0 .. n - 1 /\ dist(n, h, p) \in 0 .. n - 1 /\ (h + dist(n, h, p)) % n = p
      BY <2>0, <2>2, <3>2, Around
    <3>7. d = dist(n, h, p) /\ d \in 0 .. n - 1
      BY <3>3, <3>6
    <3>. HIDE DEF d
    <3>8. ASSUME NEW j \in 0 .. d - 1 PROVE m.cells[(h + j) % n] # EMPTY
      <4>. DEFINE r == (h + j) % n
      <4>1. j \in 0 .. n - 1 /\ j \in Int /\ j <= d
        BY <2>0, <3>7
      <4>2. r = (IF h + j < n THEN h + j ELSE h + j - n) /\ r \in 0 .. n - 1
        BY <2>0, <3>2, <4>1, StepIs
      <4>. HIDE DEF r
      <4>3. dist(n, r, p) = IF p >= r THEN p - r ELSE p - r + n
        BY <2>0, <3>6, <4>2, DistIs
      <4>4. d = IF p >= h THEN p - h ELSE p - h + n
        BY <2>0, <3>2, <3>6, <3>7, DistIs
      <4>5. dist(n, r, p) = d - j
        BY <2>0, <3>2, <3>6, <3>8, <4>1, <4>2, <4>3, <4>4
      <4>6. dist(n, r, p) <= dist(n, h, p)
        BY <3>7, <4>1, <4>5
      <4>. QED BY <2>0, <3>3, <4>2, <4>6 DEF r
    <3>. QED BY <3>4, <3>5, <3>6, <3>7, <3>8 DEF n, h, s, key, d
  <2>. QED BY <2>0, <2>1, <2>2 DEF WellProbed
<1>. QED BY <1>1, InvHolds, PTL

\* The items listed, by the entries of the table.
LEMMA ListedIs ==
  ASSUME NEW k, NEW threshold, NEW t, t = IF threshold = 0 THEN k.offset ELSE threshold, NEW x
  PROVE  /\ x \in get_frequent_items(k, "NO_FALSE_POSITIVES", threshold)
            <=> \E q \in Active(k.map) : keyOf(k.map.cells[q]) = x /\ valueOf(k.map.cells[q]) > t
         /\ x \in get_frequent_items(k, "NO_FALSE_NEGATIVES", threshold)
            <=> \E q \in Active(k.map) : keyOf(k.map.cells[q]) = x /\ valueOf(k.map.cells[q]) + k.offset > t
BY DEF get_frequent_items, get_maximum_error, Active, is_active

(* No item is listed that must not be, and none is left out that must be. *)
THEOREM ListsAreRight == Spec => []ListsKeepPromise
<1>1. SketchInv => ListsKeepPromise
  <2>. SUFFICES ASSUME SketchInv, NEW threshold \in 0 .. MaxWeight
                PROVE  LET t     == IF threshold = 0 THEN sketch.offset ELSE threshold
                           heavy == {x \in Keys : truth[x] > t}
                       IN  /\ get_frequent_items(sketch, "NO_FALSE_POSITIVES", threshold) \subseteq heavy
                           /\ t >= sketch.offset =>
                                heavy \subseteq get_frequent_items(sketch, "NO_FALSE_NEGATIVES", threshold)
    BY DEF ListsKeepPromise
  <2>. DEFINE m == sketch.map
              t == IF threshold = 0 THEN sketch.offset ELSE threshold
  <2>0. Sound(m) /\ HasRoom(m) /\ IsMap(m) /\ sketch.offset \in Nat
    BY InvMap
  <2>1. t \in Nat
    BY <2>0, FrequentItemsAssumption
  <2>2. \A x \in Keys : /\ get(m, x) \in Nat /\ truth[x] \in Nat
                        /\ get(m, x) <= truth[x] /\ truth[x] <= get(m, x) + sketch.offset
    <3>1. \A x \in Keys : W(m)[x] = get(m, x) /\ get(m, x) \in Nat
      BY <2>0, WeightsAre
    <3>. QED BY <3>1 DEF SketchInv, Describes, Naturals
  <2>3. \A q \in Active(m) : /\ keyOf(m.cells[q]) \in Keys
                             /\ get(m, keyOf(m.cells[q])) = valueOf(m.cells[q])
    <3>1. \A q \in Active(m) : m.cells[q] \in Entry
      BY <2>0 DEF IsMap, Active
    <3>. QED BY <2>0, <3>1, EntryIs, GetOf
  <2>. HIDE DEF t
  <2>4. ASSUME NEW x \in get_frequent_items(sketch, "NO_FALSE_POSITIVES", threshold)
        PROVE  x \in Keys /\ truth[x] > t
    <3>1. PICK q \in Active(m) : keyOf(m.cells[q]) = x /\ valueOf(m.cells[q]) > t
      BY ListedIs DEF t
    <3>. HIDE DEF m
    <3>2. x \in Keys /\ get(m, x) > t
      BY <2>3, <3>1
    <3>. QED BY <2>1, <2>2, <3>2
  <2>5. ASSUME t >= sketch.offset, NEW x \in Keys, truth[x] > t
        PROVE  x \in get_frequent_items(sketch, "NO_FALSE_NEGATIVES", threshold)
    <3>1. get(m, x) # 0 /\ get(m, x) + sketch.offset > t
      BY <2>0, <2>1, <2>2, <2>5
    <3>2. PICK q \in Active(m) : keyOf(m.cells[q]) = x
      BY <2>0, <3>1, GetIs
    <3>3. valueOf(m.cells[q]) + sketch.offset > t
      BY <2>3, <3>1, <3>2
    <3>. QED BY <3>2, <3>3, ListedIs DEF t
  <2>. QED BY <2>4, <2>5 DEF t
<1>. QED BY <1>1, InvHolds, PTL
================================================================================

------------------------- MODULE ReversePurgeHashMap -------------------------
(***************************************************************************)
(* The hash map under the frequent items sketch: linear probing with the   *)
(* distance from home kept in every cell, growth by re-insertion up to a   *)
(* maximal size, and at that size a purge that subtracts an approximate    *)
(* median from all values and deletes what is not positive any more.       *)
(*                                                                         *)
(* A cell is EMPTY or <<key, value, state>>; the state is the drift, 1 at  *)
(* home.  A map is a record of its fields.  Cells are numbered from 0.     *)
(***************************************************************************)
EXTENDS Integers, Sequences, FiniteSets, SequencesExt

CONSTANTS
  Keys,           \* the items
  Hash,           \* H()(key)
  LoadFactor,     \* LOAD_FACTOR in eighths (6)
  MaxSampleSize   \* MAX_SAMPLE_SIZE (1024)

ASSUME MapAssumption ==
  Hash \in [Keys -> Nat] /\ LoadFactor \in 1 .. 7 /\ MaxSampleSize \in Nat \ {0}

\* The powers of two that sizes up to lg are computed with.
Powers(lg) == 2 ^ 0 = 1 /\ \A n \in 0 .. lg : 2 ^ n \in Nat \ {0} /\ 2 ^ (n + 1) = 2 * 2 ^ n

EMPTY == <<>>
keyOf(cell)   == cell[1]
valueOf(cell) == cell[2]
stateOf(cell) == cell[3]

size(m)  == 2 ^ m.lg
Cells(m) == 0 .. size(m) - 1

newMap(lg, lgMax) ==
  [lg |-> lg, lgMax |-> lgMax, num |-> 0, cells |-> [p \in 0 .. 2 ^ lg - 1 |-> EMPTY]]

is_active(m, p) == m.cells[p] # EMPTY

get_capacity(m) == (LoadFactor * size(m)) \div 8

\* The cells from p on, once around the table, p excluded.
After(m, p) == [i \in 1 .. size(m) - 1 |-> (p + i) % size(m)]

\* All cells, in array order.
Scan(m) == [i \in 1 .. size(m) |-> i - 1]

----------------------------------------------------------------------------
(* Looking up and inserting *)

home(m, key) == Hash[key] % size(m)

\* The cell at distance i from home.
probed(m, key, i) == m.cells[(home(m, key) + i) % size(m)]

ends(m, key, i) == probed(m, key, i) = EMPTY \/ keyOf(probed(m, key, i)) = key

\* The number of active cells with another key from home on.
drift(m, key) == CHOOSE i \in Cells(m) : ends(m, key, i) /\ \A j \in 0 .. i - 1 : ~ ends(m, key, j)

slot(m, key) == (home(m, key) + drift(m, key)) % size(m)

get(m, key) == IF is_active(m, slot(m, key)) THEN valueOf(m.cells[slot(m, key)]) ELSE 0

insertThrows(m, key) == ~ is_active(m, slot(m, key)) /\ m.num > get_capacity(m)

internal_adjust_or_insert(m, key, value) ==
  LET p == slot(m, key)
  IN  IF is_active(m, p)
      THEN [m EXCEPT !.cells[p] = <<key, valueOf(@) + value, stateOf(@)>>]
      ELSE [m EXCEPT !.cells[p] = <<key, value, drift(m, key) + 1>>, !.num = @ + 1]

----------------------------------------------------------------------------
(* Deleting *)

\* The item may move back by that distance without passing its home.
moves(cell, distance) == stateOf(cell) > distance

\* One turn of the loop of hash_delete, h being the map with a hole to fill.
fillHole(h, p) ==
  LET distance == (p - h.hole) % size(h.map)
      cell     == h.map.cells[p]
  IN  IF h.done \/ cell = EMPTY THEN [h EXCEPT !.done = TRUE]
      ELSE IF moves(cell, distance)
      THEN [h EXCEPT !.map.cells[h.hole] = <<keyOf(cell), valueOf(cell), stateOf(cell) - distance>>,
                     !.map.cells[p] = EMPTY,
                     !.hole = p]
      ELSE h

hash_delete(m, p) ==
  FoldLeft(fillHole,
           [map |-> [m EXCEPT !.cells[p] = EMPTY], hole |-> p, done |-> FALSE],
           After(m, p)).map

\* Slip: a value that becomes 0 stays.
staysAtZero(value, amount) == value >= amount

stays(value, amount) == value > amount

\* One cell of the walk of subtract_and_keep_positive_only.
subtractAt(m, p, amount) ==
  IF ~ is_active(m, p) THEN m
  ELSE IF stays(valueOf(m.cells[p]), amount)
  THEN [m EXCEPT !.cells[p] = <<keyOf(@), valueOf(@) - amount, stateOf(@)>>]
  ELSE [hash_delete(m, p) EXCEPT !.num = @ - 1]

\* The walk goes down from the last empty cell, which ends a cluster, and
\* around to it, so that a deletion only moves items it has been at already.
\* Slip: the walk goes from the last cell down to the first.
walkFromTop(m) == [i \in 1 .. size(m) |-> size(m) - i]

walkDown(m) ==
  LET first_probe == CHOOSE p \in Cells(m) :
                       ~ is_active(m, p) /\ \A q \in Cells(m) : q > p => is_active(m, q)
  IN  [i \in 1 .. size(m) |-> (first_probe - i) % size(m)]

subtract_and_keep_positive_only(m, amount) ==
  FoldLeft(LAMBDA n, p : subtractAt(n, p, amount), m, walkDown(m))

----------------------------------------------------------------------------
(* Growing and purging *)

\* Slip: the cells are copied to the same places of the larger table.
resizeInPlace(m) ==
  [m EXCEPT !.lg = @ + 1,
            !.cells = [p \in 0 .. 2 * size(m) - 1 |-> IF p < size(m) THEN m.cells[p] ELSE EMPTY]]

resize(m) ==
  FoldLeft(LAMBDA n, p : IF is_active(m, p)
                         THEN internal_adjust_or_insert(n, keyOf(m.cells[p]), valueOf(m.cells[p]))
                         ELSE n,
           newMap(m.lg + 1, m.lgMax), Scan(m))

\* Element k, from 0, of the sequence in ascending order.
nth(s, k) ==
  CHOOSE v \in {s[i] : i \in DOMAIN s} :
    /\ Cardinality({i \in DOMAIN s : s[i] < v}) <= k
    /\ k < Cardinality({i \in DOMAIN s : s[i] <= v})

\* The values of the first active cells, up to a limit.
samples(m, limit) ==
  FoldLeft(LAMBDA s, p : IF is_active(m, p) /\ Len(s) < limit
                         THEN Append(s, valueOf(m.cells[p])) ELSE s,
           <<>>, Scan(m))

\* The range handed to nth_element ends before the last sample.
median(m) ==
  LET n == IF m.num < MaxSampleSize THEN m.num ELSE MaxSampleSize
      s == samples(m, n)
  IN  IF n \div 2 < n - 1 THEN nth(SubSeq(s, 1, n - 1), n \div 2) ELSE s[n]

purge(m) ==
  LET amount == median(m) IN [map |-> subtract_and_keep_positive_only(m, amount), offset |-> amount]

resize_or_purge_if_needed(m) ==
  IF m.num <= get_capacity(m) THEN [map |-> m, offset |-> 0]
  ELSE IF m.lg < m.lgMax THEN [map |-> resize(m), offset |-> 0]
  ELSE purge(m)

\* The map after the call and the offset that it returns.
adjust_or_insert(m, key, value) ==
  LET n == internal_adjust_or_insert(m, key, value)
  IN  IF n.num > m.num THEN resize_or_purge_if_needed(n) ELSE [map |-> n, offset |-> 0]

\* "purge did not reduce number of active items", of what adjust_or_insert left
purgeThrows(after) == after.num > get_capacity(after)

\* The cells in the order of const_iterator, which passes over those that are not
\* active: from the first active one on, in odd strides of about 0.618 of the
\* table (three digits do for lg <= 5).
iteration(m) ==
  LET golden == (618 * size(m)) \div 1000
      stride == IF golden % 2 = 0 THEN golden + 1 ELSE golden
      first  == CHOOSE p \in Cells(m) : is_active(m, p) /\ \A q \in 0 .. p - 1 : ~ is_active(m, q)
  IN  [i \in 1 .. size(m) |-> (first + (i - 1) * stride) % size(m)]
=============================================================================

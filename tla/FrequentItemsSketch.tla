------------------------- MODULE FrequentItemsSketch -------------------------
(***************************************************************************)
(* The frequent items sketch: a map of weights, the total weight and the   *)
(* offset, which is the sum of what the purges of the map subtracted.  The *)
(* weight of an item lies between its value in the map and that plus the   *)
(* offset.                                                                 *)
(*                                                                         *)
(* The sketch is updated, sent through its serialized form and merged with *)
(* other sketches, each what a stream of updates has made of a new one.    *)
(***************************************************************************)
EXTENDS ReversePurgeHashMap

CONSTANTS
  Weights,     \* the weights of single updates
  LgMin,       \* LG_MIN_MAP_SIZE (3)
  LgMaxSizes,  \* values of lg_max_map_size
  Streams,     \* what the sketches to merge have seen: sequences of <<item, weight>>
  MaxWeight    \* bound on the weight that the sketch takes in

ASSUME FrequentItemsAssumption ==
  /\ Weights \subseteq Nat \ {0} /\ LgMin \in Nat /\ MaxWeight \in Nat
  /\ \A lgMax \in LgMaxSizes : lgMax \in Nat /\ lgMax >= LgMin /\ Powers(lgMax)
  /\ Streams \subseteq Seq(Keys \X (Nat \ {0})) /\ IsFiniteSet(Keys)

\* The smallest table may hold an item, and has a cell to spare when it holds one
\* more than it may.
ASSUME SpareAssumption ==
  LoadFactor * 2 ^ LgMin >= 8 /\ (8 - LoadFactor) * 2 ^ LgMin > 8

VARIABLES
  sketch,   \* [map, offset, total_weight, fault]; fault: a throw was reached
  truth,    \* history: the weight of each item that the sketch has taken in
  leftOut,  \* history: the weight of each item in sketches without active items
            \* that a merge or a serialization has skipped
  smallest  \* history: the smallest lg_max_map_size of the sketches in it

vars == <<sketch, truth, leftOut, smallest>>

newSketch(lgMax) ==
  [map |-> newMap(LgMin, lgMax), offset |-> 0, total_weight |-> 0, fault |-> FALSE]

is_empty(k) == k.map.num = 0

get_lower_bound(k, item) == get(k.map, item)
get_upper_bound(k, item) == get(k.map, item) + k.offset
get_estimate(k, item)    == IF get(k.map, item) > 0 THEN get(k.map, item) + k.offset ELSE 0

get_maximum_error(k) == k.offset

\* The items listed at a threshold, of which 0 (USE_MAX_ERROR) stands for the
\* maximum error; the sorting by estimates is left out.
\* Slip: an item is listed when its bound reaches the threshold.
frequentItemsFrom(k, err_type, threshold) ==
  LET t == IF threshold = 0 THEN get_maximum_error(k) ELSE threshold
      listed(cell) == CASE err_type = "NO_FALSE_NEGATIVES" -> valueOf(cell) + k.offset >= t
                        [] err_type = "NO_FALSE_POSITIVES" -> valueOf(cell) >= t
  IN  {keyOf(cell) : cell \in {k.map.cells[p] : p \in
         {q \in Cells(k.map) : is_active(k.map, q) /\ listed(k.map.cells[q])}}}

get_frequent_items(k, err_type, threshold) ==
  LET t == IF threshold = 0 THEN get_maximum_error(k) ELSE threshold
      listed(cell) == CASE err_type = "NO_FALSE_NEGATIVES" -> valueOf(cell) + k.offset > t
                        [] err_type = "NO_FALSE_POSITIVES" -> valueOf(cell) > t
  IN  {keyOf(cell) : cell \in {k.map.cells[p] : p \in
         {q \in Cells(k.map) : is_active(k.map, q) /\ listed(k.map.cells[q])}}}

Init ==
  /\ \E lgMax \in LgMaxSizes : sketch = newSketch(lgMax) /\ smallest = lgMax
  /\ truth = [x \in Keys |-> 0]
  /\ leftOut = [x \in Keys |-> 0]

----------------------------------------------------------------------------

\* The sketch after update(item, weight) with a positive weight.
updated(k, item, weight) ==
  LET r == adjust_or_insert(k.map, item, weight)
  IN  IF insertThrows(k.map, item) \/ purgeThrows(r.map)
      THEN [k EXCEPT !.fault = TRUE]
      ELSE [k EXCEPT !.map = r.map, !.offset = @ + r.offset, !.total_weight = @ + weight]

\* The sketch after update with every entry of other, in the iterator's order.
updatedWithAll(k, other) ==
  FoldLeft(LAMBDA n, p : IF is_active(other, p)
                         THEN updated(n, keyOf(other.cells[p]), valueOf(other.cells[p])) ELSE n,
           k, iteration(other))

Sum(f) == FoldFunctionOnSet(+, 0, f, DOMAIN f)

Plus(f, g) == [x \in DOMAIN f |-> f[x] + g[x]]

update(item, weight) ==
  /\ ~ sketch.fault
  /\ Sum(truth) + Sum(leftOut) + weight <= MaxWeight
  /\ sketch' = updated(sketch, item, weight)
  /\ truth' = [truth EXCEPT ![item] = @ + weight]
  /\ UNCHANGED <<leftOut, smallest>>

\* Slip: the offset of the other sketch is forgotten.
mergedWithoutOffset(k, other) ==
  [updatedWithAll(k, other.map) EXCEPT !.total_weight = k.total_weight + other.total_weight]

\* Slip: the total weight is the sum of the values that were merged.
mergedWithoutCorrection(k, other) ==
  [updatedWithAll(k, other.map) EXCEPT !.offset = @ + other.offset]

merged(k, other) ==
  [updatedWithAll(k, other.map) EXCEPT !.offset = @ + other.offset,
                                       !.total_weight = k.total_weight + other.total_weight]

\* The sketch that a stream of updates makes of a new one.
sketchOf(lgMax, stream) ==
  FoldLeft(LAMBDA k, e : updated(k, e[1], e[2]), newSketch(lgMax), stream)

weightsOf(stream) ==
  FoldLeft(LAMBDA f, e : [f EXCEPT ![e[1]] = @ + e[2]], [x \in Keys |-> 0], stream)

Sources == {[sketch |-> sketchOf(lgMax, stream), truth |-> weightsOf(stream)] :
              lgMax \in LgMaxSizes, stream \in Streams}

merge(other) ==
  /\ ~ sketch.fault
  /\ Sum(truth) + Sum(leftOut) + Sum(other.truth) <= MaxWeight
  /\ \/ /\ is_empty(other.sketch)
        /\ leftOut' = Plus(leftOut, other.truth)
        /\ UNCHANGED <<sketch, truth, smallest>>
     \/ /\ ~ is_empty(other.sketch)
        /\ sketch' = merged(sketch, other.sketch)
        /\ truth' = Plus(truth, other.truth)
        /\ smallest' = IF other.sketch.map.lgMax < smallest THEN other.sketch.map.lgMax ELSE smallest
        /\ UNCHANGED leftOut

\* merge(sketch): the entries are updated while they are iterated over, each by
\* the value just read of it; none is new, so that none moves.
mergeSelf ==
  /\ ~ sketch.fault /\ ~ is_empty(sketch)
  /\ 2 * Sum(truth) + Sum(leftOut) <= MaxWeight
  /\ sketch' = merged(sketch, sketch)
  /\ truth' = Plus(truth, truth)
  /\ UNCHANGED <<leftOut, smallest>>

\* deserialize(serialize(sketch)): a map of the same sizes takes the entries,
\* then the total weight and the offset are set; of an empty sketch only the
\* sizes are kept.
readBack(k) ==
  LET fresh == [k EXCEPT !.map = newMap(k.map.lg, k.map.lgMax), !.offset = 0, !.total_weight = 0]
  IN  IF is_empty(k) THEN fresh
      ELSE [updatedWithAll(fresh, k.map) EXCEPT !.offset = k.offset,
                                                !.total_weight = k.total_weight]

serializeAndDeserialize ==
  /\ ~ sketch.fault
  /\ sketch' = readBack(sketch)
  /\ IF is_empty(sketch)
     THEN truth' = [x \in Keys |-> 0] /\ leftOut' = Plus(leftOut, truth)
     ELSE UNCHANGED <<truth, leftOut>>
  /\ UNCHANGED smallest

Next ==
  \/ \E item \in Keys, weight \in Weights : update(item, weight)
  \/ \E other \in Sources : merge(other)
  \/ mergeSelf
  \/ serializeAndDeserialize

Spec == Init /\ [][Next]_vars

----------------------------------------------------------------------------
(* Properties *)

(* No throw of the map can be reached: an insertion finds a place and a    *)
(* purge brings the number of active items down to the capacity.           *)
NoThrow == ~ sketch.fault

(* The table is what linear probing makes of its entries: the state of a   *)
(* cell is its distance from the home of its key plus one, no cell between *)
(* the two is empty, no key is there twice, and num_active counts the      *)
(* cells, at most the capacity.  Deleting in the middle of clusters that   *)
(* wrap around the end, while values are being subtracted, must keep this. *)
WellProbed ==
  LET m == sketch.map
  IN  /\ \A p \in Cells(m) : is_active(m, p) =>
           LET key == keyOf(m.cells[p])
               d   == stateOf(m.cells[p]) - 1
           IN  /\ p = (home(m, key) + d) % size(m)
               /\ \A j \in 0 .. d - 1 : probed(m, key, j) # EMPTY
               /\ \A q \in Cells(m) \ {p} : is_active(m, q) => keyOf(m.cells[q]) # key
      /\ m.num = Cardinality({p \in Cells(m) : is_active(m, p)})
      /\ m.num <= get_capacity(m)

(* The guarantee of the sketch: the true weight of every item, active or   *)
(* not, is between its lower and its upper bound, after any sequence of    *)
(* updates, purges, merges and round trips.                                *)
BoundsHold ==
  \A item \in Keys :
    /\ get_lower_bound(sketch, item) <= truth[item]
    /\ truth[item] <= get_upper_bound(sketch, item)

(* total_weight is the weight taken in, also after a merge, which sets it  *)
(* anew because the values that it re-inserts no longer add up to it.      *)
TotalIsSum == sketch.total_weight = Sum(truth)

(* The a-priori error: a purge takes its median in full from the samples   *)
(* that are not below it, which are n - 1 - n / 2 of n at least, so that   *)
(* the offset is bounded by the weight that is no longer in the map; after *)
(* merges n is that of the smallest of the sketches.  (It follows that the *)
(* offset is within get_apriori_error, 3.5 / 2^lg of the total, where all  *)
(* items of a full map are sampled, which are more than 1024 from lg = 11  *)
(* on.)                                                                    *)
ErrorBounded ==
  LET full == (LoadFactor * 2 ^ smallest) \div 8 + 1
      n    == IF full < MaxSampleSize THEN full ELSE MaxSampleSize
      left == Sum([x \in Keys |-> get(sketch.map, x)])
  IN  (n - 1 - n \div 2) * sketch.offset + left <= sketch.total_weight

(* What the two lists of frequent items are named for: every item listed   *)
(* with NO_FALSE_POSITIVES weighs more than the threshold, and every item  *)
(* that does is listed with NO_FALSE_NEGATIVES, at any threshold down to   *)
(* the maximum error; below it an item of that weight may have been purged.*)
ListsKeepPromise ==
  \A threshold \in 0 .. MaxWeight :
    LET t     == IF threshold = 0 THEN sketch.offset ELSE threshold
        heavy == {x \in Keys : truth[x] > t}
    IN  /\ get_frequent_items(sketch, "NO_FALSE_POSITIVES", threshold) \subseteq heavy
        /\ t >= sketch.offset =>
             heavy \subseteq get_frequent_items(sketch, "NO_FALSE_NEGATIVES", threshold)

(* What a test says of the estimates after a merge of sketches that have   *)
(* purged, "always overestimated" (frequent_items_sketch_test.cpp:197):    *)
(* the estimate of an item that has one is at least its weight, in all     *)
(* that was merged.                                                        *)
AlwaysOverestimated ==
  \A item \in Keys :
    get_estimate(sketch, item) > 0 => truth[item] + leftOut[item] <= get_estimate(sketch, item)
=============================================================================

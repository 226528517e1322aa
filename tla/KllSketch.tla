------------------------------ MODULE KllSketch ------------------------------
(* Two KLL quantiles sketches (kll_sketch.hpp) of floating point values that are
   updated, merged into one another, queried, written and read back.

   A sketch keeps its items in a buffer of items_size_ cells that fills downwards:
   levels_[0], the number of free cells, is items_size_ less the items held.
   `coins' are the random bits an operation draws, `err' the compaction error so
   far (KllHelper), `seen' counts what went into a sketch, value by value. *)
EXTENDS KllQuantiles, FiniteSetsExt

CONSTANTS Values,    \* what the streams hold
          Ks,        \* the values of k
          MaxN,      \* bounds on what goes into each sketch
          MaxCoins,  \* bound on the coins a merge draws
          ItemBytes, \* the size of an item when written
          NaN        \* quiet_NaN, the minimum and maximum of an empty sketch

Ids == 1..2

ASSUME ValuesAssumption == Values \subseteq Nat /\ NaN \notin Values
ASSUME MaxNAssumption ==
  \A i \in Ids : MaxN[i] \in Nat /\ \A e \in 0..MaxN[i] + 1 : Power(e)
ASSUME MaxCoinsAssumption == MaxCoins \in Nat
ASSUME ItemBytesAssumption == ItemBytes \in Nat
ASSUME KsAssumption == \A k \in Ks : k \in Nat /\ k >= M

VARIABLES sketch, seen
vars == <<sketch, seen>>

newSketch(k) ==
  [k |-> k, minK |-> k, n |-> 0, levels |-> <<<<>>>>, itemsSize |-> k,
   min |-> NaN, max |-> NaN, isLevelZeroSorted |-> FALSE, err |-> 0, coins |-> <<>>]

is_empty(s) == s.n = 0
is_estimation_mode(s) == Len(s.levels) > 1
freeCells(s) == s.itemsSize - retained(s.levels)

(* The comparison of the values: false as soon as one of them is NaN. *)
less(x, y) == x # NaN /\ y # NaN /\ x < y

-----------------------------------------------------------------------------
(* Called with a full buffer only: then some level is at its capacity. *)
find_level_to_compact(s) ==
  Min({h \in 0..Len(s.levels) - 1 :
         Len(s.levels[h + 1]) >= level_capacity(s.k, Len(s.levels), h)})

\* Slip: the buffer grows by the capacity of the new top level, though it is the
\* bottom level whose capacity is new.
addTopCapacity(s) ==
  [s EXCEPT !.levels = Append(@, <<>>), !.itemsSize = @ + s.k]

add_empty_top_level(s) ==
  [s EXCEPT !.levels = Append(@, <<>>),
            !.itemsSize = @ + level_capacity(s.k, Len(s.levels) + 1, 0)]

compress_while_updating(s) ==
  LET h == find_level_to_compact(s)
      grown == IF h = Len(s.levels) - 1 THEN add_empty_top_level(s) ELSE s
  IN compact(grown, h, h = 0)

updated(s, v) ==
  LET room == IF freeCells(s) = 0 THEN compress_while_updating(s) ELSE s
  IN [room EXCEPT
        !.min = IF is_empty(s) \/ less(v, s.min) THEN v ELSE s.min,
        !.max = IF is_empty(s) \/ less(s.max, v) THEN v ELSE s.max,
        !.n = @ + 1,
        !.isLevelZeroSorted = FALSE,
        !.levels[1] = <<v>> \o @]

safe_level(s, h) == IF h > Len(s.levels) THEN <<>> ELSE s.levels[h]
provisionalLevels(s, other) == 1..Max({Len(s.levels), Len(other.levels)})

\* Slip: level zero of the other sketch is taken along a second time.
populateAllLevels(s, other) ==
  [h \in provisionalLevels(s, other) |->
     merge_sorted_arrays(safe_level(s, h), safe_level(other, h))]

(* The levels of both sketches, one by one: level zero of the other sketch has
   been inserted into this one before. *)
populate_work_arrays(s, other) ==
  [h \in provisionalLevels(s, other) |->
     IF h = 1 THEN s.levels[1]
     ELSE merge_sorted_arrays(safe_level(s, h), safe_level(other, h))]

merge_higher_levels(s, other, finalN) ==
  LET work == [s EXCEPT !.levels = populate_work_arrays(s, other)]
      result == general_compress(work, s.k, s.isLevelZeroSorted, ub_on_num_levels(finalN))
  IN [s EXCEPT !.levels = result.levels, !.itemsSize = result.target,
               !.coins = result.coins, !.err = result.err]

(* The minimum and the maximum of the other sketch count only if they pass the
   comparison: by then this sketch is never empty. *)
merged(s, other) ==
  LET finalN == s.n + other.n
      fed == FoldLeft(updated, s, other.levels[1])
      joined == IF is_estimation_mode(other) THEN merge_higher_levels(fed, other, finalN)
                                             ELSE fed
      total == [joined EXCEPT !.n = finalN]
  IN [total EXCEPT
        !.minK = IF is_estimation_mode(other) /\ other.minK < @ THEN other.minK ELSE @,
        !.min = IF is_empty(total) \/ less(other.min, @) THEN other.min ELSE @,
        !.max = IF is_empty(total) \/ less(@, other.max) THEN other.max ELSE @,
        !.err = @ + other.err]

sort_level_zero(s) ==
  IF s.isLevelZeroSorted THEN s
  ELSE [s EXCEPT !.levels[1] = sorted(@), !.isLevelZeroSorted = TRUE]

(* get_rank, as a number of items: a level known to be sorted is left at the
   first item that is not smaller. *)
get_rank(s, v) ==
  LET below(h) ==
        LET level == s.levels[h]
            small == {p \in DOMAIN level : level[p] < v}
        IN IF h > 1 \/ s.isLevelZeroSorted
           THEN Cardinality({p \in small : 1..p \subseteq small})
           ELSE Cardinality(small)
  IN FoldLeft(LAMBDA total, h : total + TwoTo(h - 1) * below(h), 0,
              [h \in 1..Len(s.levels) |-> h])

(* get_quantiles for the fractions num / den: the least and the greatest fraction
   are answered from the minimum and the maximum.  (Fractions below 0 or above 1
   are refused.) *)
get_quantile_calculator(s) == kll_quantile_calculator(sort_level_zero(s).levels)

quantile(s, calculator, num, den) ==
  CASE num = 0   -> s.min
    [] num = den -> s.max
    [] OTHER     -> approximately_answer_positional_query(calculator, pos_of_phi(num, den, s.n))

get_quantiles(s, nums, den) ==
  LET calculator == get_quantile_calculator(s)
  IN [i \in DOMAIN nums |-> quantile(s, calculator, nums[i], den)]

(* get_PMF and get_CDF, as numbers of items *)
get_PMF(s, splits) == masses(s.levels, s.isLevelZeroSorted, splits)
get_CDF(s, splits) == cumulative(get_PMF(s, splits))

-----------------------------------------------------------------------------
(* The serialized form.  Levels are written as the positions in the buffer where
   they start, without the end of the last one, and the items without the free
   cells: the reader works out the size of the buffer from k and the number of
   levels.  One item alone is written without n, levels, minimum and maximum. *)
serialize(s) ==
  LET start(h) == freeCells(s) + retained(SubSeq(s.levels, 1, h - 1))
      items == FlattenSeq(s.levels)
  IN IF is_empty(s)
     THEN [empty |-> TRUE, single |-> FALSE, sorted |-> s.isLevelZeroSorted, k |-> s.k]
     ELSE IF s.n = 1
     THEN [empty |-> FALSE, single |-> TRUE, sorted |-> s.isLevelZeroSorted, k |-> s.k,
           items |-> items]
     ELSE [empty |-> FALSE, single |-> FALSE, sorted |-> s.isLevelZeroSorted, k |-> s.k,
           items |-> items, n |-> s.n, minK |-> s.minK, min |-> s.min, max |-> s.max,
           starts |-> [h \in 1..Len(s.levels) |-> start(h)]]

deserializeFull(b) ==
  LET numLevels == Len(b.starts)
      capacity == compute_total_capacity(b.k, numLevels)
      ends == Append(Tail(b.starts), capacity)
      place(x) == x - b.starts[1]
  IN [newSketch(b.k) EXCEPT
        !.n = b.n, !.minK = b.minK, !.min = b.min, !.max = b.max,
        !.itemsSize = capacity, !.isLevelZeroSorted = b.sorted,
        !.levels = [h \in 1..numLevels |->
                      SubSeq(b.items, place(b.starts[h]) + 1, place(ends[h]))]]

deserializeSingle(b) ==
  [newSketch(b.k) EXCEPT
    !.n = 1, !.levels = <<b.items>>, !.itemsSize = compute_total_capacity(b.k, 1),
    !.min = b.items[1], !.max = b.items[1], !.isLevelZeroSorted = b.sorted]

\* Slip: the least k met in merges is taken to be k.
deserializeOwnK(b) ==
  IF b.empty THEN newSketch(b.k)
  ELSE IF b.single THEN deserializeSingle(b)
  ELSE [deserializeFull(b) EXCEPT !.minK = b.k]

deserialize(b) ==
  IF b.empty THEN newSketch(b.k)
  ELSE IF b.single THEN deserializeSingle(b)
  ELSE deserializeFull(b)

(* get_serialized_size_bytes tells the size before anything is written; the
   writer checks it, and the caller may have asked for the largest there can be. *)
serializedSize(numLevels, numItems) ==
  IF numLevels = 1 /\ numItems = 1 THEN 8 + ItemBytes
  ELSE 20 + 4 * numLevels + (numItems + 2) * ItemBytes

get_serialized_size_bytes(s) ==
  IF is_empty(s) THEN 8 ELSE serializedSize(Len(s.levels), retained(s.levels))

get_max_serialized_size_bytes(k, n) ==
  LET numLevels == ub_on_num_levels(n)
      capacity == compute_total_capacity(k, numLevels)
  IN serializedSize(numLevels, IF n < capacity THEN n ELSE capacity)

(* What the writer writes: eight bytes, then the parts that are there. *)
bytesOf(b) ==
  8 + (IF b.empty THEN 0 ELSE ItemBytes * Len(b.items))
    + (IF b.empty \/ b.single THEN 0 ELSE 12 + 4 * Len(b.starts) + 2 * ItemBytes)

reloaded(s) == [deserialize(serialize(s)) EXCEPT !.err = s.err]

-----------------------------------------------------------------------------
drawn == [1..MaxCoins -> 0..1]
tossing(s, coins) == [s EXCEPT !.coins = coins]
tossed(s) == [s EXCEPT !.coins = <<>>]
nothing == [v \in Values |-> 0]

Init ==
  /\ sketch \in [Ids -> {newSketch(k) : k \in Ks}]
  /\ seen = [i \in Ids |-> nothing]

create(i, k) ==
  /\ sketch' = [sketch EXCEPT ![i] = newSketch(k)]
  /\ seen' = [seen EXCEPT ![i] = nothing]

update(i, v) ==
  /\ sketch[i].n < MaxN[i]
  /\ \E coin \in 0..1 :
       sketch' = [sketch EXCEPT ![i] = tossed(updated(tossing(@, <<coin>>), v))]
  /\ seen' = [seen EXCEPT ![i][v] = @ + 1]

(* The copy constructor and the assignment, which copies and swaps. *)
assign(i, j) ==
  /\ i # j
  /\ sketch[j].n <= MaxN[i]
  /\ sketch' = [sketch EXCEPT ![i] = sketch[j]]
  /\ seen' = [seen EXCEPT ![i] = seen[j]]

merge(i, j) ==
  /\ i # j
  /\ ~is_empty(sketch[j])
  /\ sketch[i].n + sketch[j].n <= MaxN[i]
  /\ \E coins \in drawn :
       sketch' = [sketch EXCEPT ![i] = tossed(merged(tossing(@, coins), sketch[j]))]
  /\ seen' = [seen EXCEPT ![i] = [v \in Values |-> @[v] + seen[j][v]]]

(* get_quantile and get_quantiles sort level zero on the way *)
query(i) ==
  /\ ~is_empty(sketch[i])
  /\ sketch' = [sketch EXCEPT ![i] = sort_level_zero(@)]
  /\ UNCHANGED seen

reload(i) ==
  /\ sketch' = [sketch EXCEPT ![i] = reloaded(@)]
  /\ UNCHANGED seen

Next ==
  \E i \in Ids :
    \/ \E k \in Ks : create(i, k)
    \/ \E v \in Values : update(i, v)
    \/ \E j \in Ids : assign(i, j) \/ merge(i, j)
    \/ query(i)
    \/ reload(i)

Spec == Init /\ [][Next]_vars

-----------------------------------------------------------------------------
(* The weights of the retained items add up to n, after any sequence of updates,
   compactions and merges (assert_correct_total_weight, compiled out of a release
   build), and no level is above what the arrays of a merge were allocated for. *)
WeightIsN ==
  \A i \in Ids :
    /\ sum_the_sample_weights(sketch[i].levels) = sketch[i].n
    /\ is_empty(sketch[i]) \/ Len(sketch[i].levels) <= ub_on_num_levels(sketch[i].n)

(* The buffer has the size that k and the number of levels give, which is what a
   reader of the serialized form assumes; it never holds more than that; and once
   it is full find_level_to_compact has a level to find, so it does not run off
   the end of levels_. *)
SpaceBounded ==
  \A i \in Ids :
    LET s == sketch[i]
        numLevels == Len(s.levels)
    IN /\ s.itemsSize = compute_total_capacity(s.k, numLevels)
       /\ freeCells(s) >= 0
       /\ freeCells(s) = 0 =>
            \E h \in 0..numLevels - 1 :
              Len(s.levels[h + 1]) >= level_capacity(s.k, numLevels, h)

(* The rank a sketch reports differs from the rank in the stream by no more than
   the compactions account for: each halves a sorted level, whose items it
   splits evenly, whatever the coins were and whichever sketches were merged. *)
RankWithinError ==
  \A i \in Ids : \A v \in Values :
    LET exact == FoldSet(LAMBDA x, total : total + seen[i][x], 0,
                         {x \in Values : x < v})
        got == get_rank(sketch[i], v)
    IN got - exact \in -sketch[i].err..sketch[i].err

(* A sketch written and read back is the same sketch, in every field, so that it
   goes on compacting at the same points.  It is written in as many bytes as were
   told before ("serialized size mismatch"), and no more than k and n allow. *)
SurvivesBytes ==
  \A i \in Ids :
    LET s == sketch[i]
    IN /\ reloaded(s) = s
       /\ get_serialized_size_bytes(s) = bytesOf(serialize(s))
       /\ get_serialized_size_bytes(s) <= get_max_serialized_size_bytes(s.k, s.n)


(* The cumulative distribution agrees with get_rank at every split point and ends
   with all of n, whether level zero is sorted, unsorted or said to be sorted: each
   level goes through one of two walks here and through a third in get_rank
   (kll_sketch_test.cpp: "rank vs CDF"). *)
CdfAgreesWithRank ==
  \A i \in Ids : \A splits \in {<<v>> : v \in Values} \union (Values \X Values) :
    LET s == sketch[i]
        cdf == get_CDF(s, splits)
    IN ~is_empty(s) /\ validate_values(splits) =>
         /\ \A j \in DOMAIN splits : cdf[j] = get_rank(s, splits[j])
         /\ cdf[Len(splits) + 1] = s.n

(* The minimum and the maximum are those of everything that went in, exactly,
   through merges too (kll_sketch_test.cpp: "min value is exact"). *)
MinMaxExact ==
  \A i \in Ids :
    LET in == {v \in Values : seen[i][v] > 0}
    IN in # {} => sketch[i].min = Min(in) /\ sketch[i].max = Max(in)
=============================================================================

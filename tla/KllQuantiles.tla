---------------------------- MODULE KllQuantiles ----------------------------
(* The queries of a KLL sketch over its levels (kll_quantile_calculator.hpp and
   get_PMF_or_CDF of kll_sketch.hpp): from a fraction of the weight to an item,
   and from split points to the weight between them.

   Weights are kept as numbers of items, before the division by n.  A calculator
   is a record of its arrays: the items of all levels in order and, for each of
   them and for one place more, the weight that precedes it. *)
EXTENDS KllHelper

CONSTANT CountBits   \* the width of the subtotals of the calculator (32)

ASSUME CountBitsAssumption == CountBits \in Nat

-----------------------------------------------------------------------------
(* The quantile calculator *)

(* Levels that hold nothing are skipped, their weights are not. *)
populate_from_sketch(levels) ==
  SelectSeq([h \in 1..Len(levels) |->
               [p \in 1..Len(levels[h]) |-> <<levels[h][p], TwoTo(h - 1)>>]],
            LAMBDA run : run # <<>>)

tandem_merge(a, b) == mergeRuns(a, b, LAMBDA x, y : x[1] < y[1])

(* Runs are merged in pairs of about as many of them, not one by one. *)
blocky_tandem_merge_sort(runs) ==
  LET from[first \in 1..Len(runs), n \in 1..Len(runs)] ==
        IF n = 1 THEN runs[first]
        ELSE tandem_merge(from[first, n \div 2], from[first + n \div 2, n - n \div 2])
  IN from[1, Len(runs)]

(* The weight that precedes each item, and at the end that of all of them; the
   next subtotal goes through a 32-bit variable. *)
convert_to_preceding_cummulative(weights) ==
  FoldLeft(LAMBDA s, w : [preceding |-> Append(s.preceding, s.subtotal),
                          subtotal |-> (s.subtotal + w) % TwoTo(CountBits)],
           [preceding |-> <<>>, subtotal |-> 0], weights).preceding

kll_quantile_calculator(levels) ==
  LET pairs == blocky_tandem_merge_sort(populate_from_sketch(levels))
  IN [items |-> [p \in DOMAIN pairs |-> pairs[p][1]],
      weights |-> convert_to_preceding_cummulative(
                    Append([p \in DOMAIN pairs |-> pairs[p][2]], 0))]

pos_of_phi(num, den, n) ==
  LET pos == (num * n) \div den IN IF pos = n THEN n - 1 ELSE pos


(* Binary search for the last place whose preceding weight is not above pos; the
   last place of all is never looked at. *)
chunk_containing_pos(weights, pos) ==
  LET search[l \in 0..Len(weights), r \in 0..Len(weights)] ==
        IF l + 1 = r THEN l
        ELSE LET m == l + (r - l) \div 2
             IN IF weights[m + 1] <= pos THEN search[m, r] ELSE search[l, m]
  IN search[0, Len(weights) - 1]

approximately_answer_positional_query(calculator, pos) ==
  calculator.items[chunk_containing_pos(calculator.weights, pos) + 1]

-----------------------------------------------------------------------------
(* The weight of the items in the buckets between ascending split points: bucket
   j holds the items below split point j and not below the one before. *)

validate_values(splits) == \A j \in 1..Len(splits) - 1 : splits[j] < splits[j + 1]

(* Every item goes into the first bucket whose split point is above it. *)
increment_buckets_unsorted_level(buckets, level, weight, splits) ==
  LET fits(v) == {j \in DOMAIN splits : v < splits[j]}
      bucket(v) == IF fits(v) = {} THEN Len(splits) + 1
                   ELSE CHOOSE j \in fits(v) : \A m \in fits(v) : j <= m
  IN FoldLeft(LAMBDA bs, v : [bs EXCEPT ![bucket(v)] = @ + weight], buckets, level)

(* One pass over the items and the split points together; what is left when the
   split points are used up goes into the last bucket. *)
increment_buckets_sorted_level(buckets, level, weight, splits) ==
  LET size == Len(splits)
      step(s, turn) ==
        IF s.i > Len(level) \/ s.j > size THEN s
        ELSE IF level[s.i] < splits[s.j]
             THEN [s EXCEPT !.buckets[s.j] = @ + weight, !.i = @ + 1]
             ELSE [s EXCEPT !.j = @ + 1]
      end == FoldLeft(step, [buckets |-> buckets, i |-> 1, j |-> 1],
                      [turn \in 1..Len(level) + size |-> turn])
  IN IF end.j > size
     THEN [end.buckets EXCEPT ![size + 1] = @ + weight * (Len(level) - end.i + 1)]
     ELSE end.buckets

\* Slip: level zero is taken for sorted, too.
massesAllSorted(levels, isLevelZeroSorted, splits) ==
  FoldLeft(LAMBDA bs, h :
             increment_buckets_sorted_level(bs, levels[h], TwoTo(h - 1), splits),
           [j \in 1..Len(splits) + 1 |-> 0], [h \in 1..Len(levels) |-> h])

masses(levels, isLevelZeroSorted, splits) ==
  FoldLeft(LAMBDA bs, h :
             IF h = 1 /\ ~isLevelZeroSorted
             THEN increment_buckets_unsorted_level(bs, levels[h], TwoTo(h - 1), splits)
             ELSE increment_buckets_sorted_level(bs, levels[h], TwoTo(h - 1), splits),
           [j \in 1..Len(splits) + 1 |-> 0], [h \in 1..Len(levels) |-> h])

cumulative(buckets) ==
  FoldLeft(LAMBDA sums, b : Append(sums, b + IF sums = <<>> THEN 0 ELSE Last(sums)),
           <<>>, buckets)
=============================================================================

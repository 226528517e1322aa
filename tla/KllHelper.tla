------------------------------ MODULE KllHelper ------------------------------
(* The compaction machinery of the KLL quantiles sketch (kll_helper.hpp).
   The items of a sketch lie in one buffer, level by level; here `levels' is
   the sequence of the levels, level h being levels[h + 1], each in the order of
   the buffer.  An item of level h stands for 2^h items of the stream.

   Compacting a level throws away every other item of it and moves the rest one
   level up; a coin says which half survives.  `err' is history: every
   compaction of level h can move the estimated rank of a value by 2^h. *)
EXTENDS Integers, SequencesExt

CONSTANT M        \* DEFAULT_M, the least width of a level

ASSUME MAssumption == M \in Nat /\ M >= 2

TwoTo(h) == 2 ^ h

(* What is relied on of the powers that weights and capacities are made of. *)
Power(e) ==
  /\ TwoTo(e) \in Nat \ {0} /\ TwoTo(e + 1) = 2 * TwoTo(e) /\ 3 ^ e \in Nat \ {0}
  /\ e = 0 => TwoTo(e) = 1 /\ 3 ^ e = 1

(* The capacity a level of height h has in a sketch of numLevels levels: k * (2/3)^depth
   rounded, and at least M. *)
level_capacity(k, numLevels, h) ==
  LET depth == numLevels - h - 1
      rounded == ((2 * k * TwoTo(depth)) \div 3 ^ depth + 1) \div 2
  IN IF rounded > M THEN rounded ELSE M

compute_total_capacity(k, numLevels) ==
  FoldLeft(LAMBDA total, h : total + level_capacity(k, numLevels, h - 1), 0,
           [h \in 1..numLevels |-> h])

(* 1 + floor(log2(n)): what the arrays of a merge are allocated for *)
ub_on_num_levels(n) == 1 + Cardinality({e \in 1..n : TwoTo(e) <= n})

sum_the_sample_weights(levels) ==
  FoldLeft(LAMBDA total, h : total + TwoTo(h - 1) * Len(levels[h]), 0,
           [h \in 1..Len(levels) |-> h])

retained(levels) == FoldLeft(LAMBDA total, level : total + Len(level), 0, levels)

(* Item p of the result is the one that fewer than p items are below, and no
   fewer than p not above. *)
sorted(level) ==
  LET positions == 1..Len(level)
  IN [p \in positions |->
        CHOOSE v \in {level[i] : i \in positions} :
          /\ Cardinality({i \in positions : level[i] < v}) < p
          /\ p <= Cardinality({i \in positions : level[i] <= v})]

(* One pass over two runs, taking the smaller head, the second run's on a tie.
   The result is sorted only when both runs are. *)
mergeRuns(a, b, Less(_, _)) ==
  LET take(s, c) ==
        IF s.b = Len(b) \/ (s.a < Len(a) /\ Less(a[s.a + 1], b[s.b + 1]))
        THEN [s EXCEPT !.a = @ + 1, !.out = Append(@, a[s.a + 1])]
        ELSE [s EXCEPT !.b = @ + 1, !.out = Append(@, b[s.b + 1])]
  IN FoldLeft(take, [a |-> 0, b |-> 0, out |-> <<>>],
              [c \in 1..Len(a) + Len(b) |-> c]).out

\* Slip: the runs are put one after the other.
mergeAppended(a, b) == a \o b

merge_sorted_arrays(a, b) == mergeRuns(a, b, <)

(* randomly_halve_up and randomly_halve_down keep the items in every other place
   of a run of even length; the random bit says which. *)
randomly_halve(run, coin) ==
  [p \in 1..Len(run) \div 2 |-> run[2 * p - coin]]

(* The random bits an operation draws, one for each compaction; should it need more
   of them than it was given, the others are zero. *)
nextCoin(w) == IF w.coins = <<>> THEN 0 ELSE Head(w.coins)

(* Compacts level h, which is sorted first when it may not be: an odd item stays
   behind (the first one, before the sort), half of the others go up. *)
compact(w, h, mustSort) ==
  LET raw  == w.levels[h + 1]
      odd  == Len(raw) % 2 = 1
      adj  == IF odd THEN Tail(raw) ELSE raw
      run  == IF mustSort THEN sorted(adj) ELSE adj
      half == randomly_halve(run, nextCoin(w))
      above == w.levels[h + 2]
  IN [w EXCEPT
        !.levels[h + 1] = IF odd THEN <<Head(raw)>> ELSE <<>>,
        !.levels[h + 2] = IF above = <<>> THEN half ELSE merge_sorted_arrays(half, above),
        !.coins = IF @ = <<>> THEN @ ELSE Tail(@),
        !.err = @ + TwoTo(h)]

(* general_compress visits the levels from the bottom.  A level is left alone
   when the sketch has room or the level has; compacting the top level opens a
   new one, and with it room for the new bottom level. *)
compressLevel(w, k, isLevelZeroSorted) ==
  LET h == w.cur
      numLevels == Len(w.levels)
      isTop == h = numLevels - 1
      grown == IF isTop THEN [w EXCEPT !.levels = Append(@, <<>>)] ELSE w
      done  == compact(grown, h, h = 0 /\ ~isLevelZeroSorted)
  IN IF \/ retained(w.levels) < w.target
        \/ Len(w.levels[h + 1]) < level_capacity(k, numLevels, h)
     THEN [w EXCEPT !.cur = @ + 1]
     ELSE [done EXCEPT
             !.cur = @ + 1,
             !.target = @ + IF isTop THEN level_capacity(k, numLevels + 1, 0) ELSE 0]

(* `ub' bounds the levels the result can have *)
general_compress(w, k, isLevelZeroSorted, ub) ==
  FoldLeft(LAMBDA s, i : IF s.cur = Len(s.levels) THEN s
                         ELSE compressLevel(s, k, isLevelZeroSorted),
           [levels |-> w.levels, coins |-> w.coins, err |-> w.err, cur |-> 0,
            target |-> compute_total_capacity(k, Len(w.levels))],
           [i \in 1..ub |-> i])
=============================================================================

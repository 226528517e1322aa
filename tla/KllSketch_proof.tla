--------------------------- MODULE KllSketch_proof ---------------------------
(* What is proved of KllSketch: the weights of the items that are kept add up to
   n, and the buffer is as large as k and the number of levels say, holds what it
   has to and, when it is full, has a level to compact; the ranks are as near to
   those of the stream as the compactions allow, and a sketch that is written is
   read back. *)
EXTENDS KllSketch, TLAPS, FiniteSetTheorems

-----------------------------------------------------------------------------
(* Sums over the first n places of a function. *)

lastOf(S) == CHOOSE x \in S : \A y \in S : x >= y

summing(f, g, i, total) == total + f[i]
anything(f, g, n, total) == TRUE
Sums == INSTANCE FoldTheorems WITH step <- summing, choose <- lastOf, Good <- anything

Sigma(f, n) == Sums!Left(f, f, 0, n)

\* The empty sum, and one place more.
LEMMA SigmaUnfolds ==
  ASSUME NEW f
  PROVE  Sigma(f, 0) = 0 /\ \A n \in Nat : Sigma(f, n + 1) = Sigma(f, n) + f[n + 1]
<1>1. Sums!ChoosesLast
  BY DEF Sums!ChoosesLast, lastOf
<1>. QED BY <1>1, Sums!LeftOfNone, Sums!LeftOfMore DEF Sigma, summing

\* What a sum is made of.
Naturals(f, n) == \A i \in 1..n : f[i] \in Nat

\* A sum of natural numbers is one.
LEMMA SigmaType ==
  ASSUME NEW f, NEW n \in Nat, Naturals(f, n)
  PROVE  Sigma(f, n) \in Nat
<1>. DEFINE T == {m \in Nat : m <= n => Sigma(f, m) \in Nat}
<1>1. 0 \in T
  BY SigmaUnfolds
<1>2. ASSUME NEW m \in Nat, m \in T PROVE m + 1 \in T
  BY <1>2, SigmaUnfolds DEF Naturals
<1>3. \A m \in Nat : m \in T
  <2>. HIDE DEF T
  <2>. QED BY <1>1, <1>2, Sums!OverNaturals
<1>. QED BY <1>3

\* Sums of the same numbers are the same.
LEMMA SigmaSame ==
  ASSUME NEW f, NEW g, NEW n \in Nat, \A i \in 1..n : f[i] = g[i]
  PROVE  Sigma(f, n) = Sigma(g, n)
<1>. DEFINE T == {m \in Nat : m <= n => Sigma(f, m) = Sigma(g, m)}
<1>1. 0 \in T
  BY SigmaUnfolds
<1>2. ASSUME NEW m \in Nat, m \in T PROVE m + 1 \in T
  BY <1>2, SigmaUnfolds
<1>3. \A m \in Nat : m \in T
  <2>. HIDE DEF T
  <2>. QED BY <1>1, <1>2, Sums!OverNaturals
<1>. QED BY <1>3

\* A sum of larger numbers is larger, by as much in every place.
LEMMA SigmaLarger ==
  ASSUME NEW f, NEW g, NEW n \in Nat, Naturals(f, n), Naturals(g, n),
         NEW d \in {0, 1}, \A i \in 1..n : f[i] + d <= g[i]
  PROVE  Sigma(f, n) + (IF d = 1 THEN n ELSE 0) <= Sigma(g, n)
<1>. DEFINE T == {m \in Nat : m <= n => Sigma(f, m) + (IF d = 1 THEN m ELSE 0) <= Sigma(g, m)}
<1>1. 0 \in T
  BY SigmaUnfolds
<1>2. ASSUME NEW m \in Nat, m \in T PROVE m + 1 \in T
  <2>1. SUFFICES ASSUME m + 1 <= n
                 PROVE  Sigma(f, m + 1) + (IF d = 1 THEN m + 1 ELSE 0) <= Sigma(g, m + 1)
    OBVIOUS
  <2>2. Sigma(f, m) + (IF d = 1 THEN m ELSE 0) <= Sigma(g, m)
    BY <1>2, <2>1
  <2>3. Sigma(f, m) \in Nat /\ Sigma(g, m) \in Nat
    BY <2>1, SigmaType DEF Naturals
  <2>4. f[m + 1] \in Nat /\ g[m + 1] \in Nat /\ f[m + 1] + d <= g[m + 1]
    BY <2>1 DEF Naturals
  <2>. QED BY <2>2, <2>3, <2>4, SigmaUnfolds
<1>3. \A m \in Nat : m \in T
  <2>. HIDE DEF T
  <2>. QED BY <1>1, <1>2, Sums!OverNaturals
<1>. QED BY <1>3

\* One number of a sum is exchanged.
LEMMA SigmaAt ==
  ASSUME NEW f, NEW g, NEW n \in Nat, Naturals(f, n), Naturals(g, n),
         NEW a \in 1..n, \A i \in 1..n : i # a => f[i] = g[i]
  PROVE  Sigma(g, n) + f[a] = Sigma(f, n) + g[a]
<1>. DEFINE T == {m \in Nat : a <= m /\ m <= n => Sigma(g, m) + f[a] = Sigma(f, m) + g[a]}
<1>1. 0 \in T
  OBVIOUS
<1>2. ASSUME NEW m \in Nat, m \in T PROVE m + 1 \in T
  <2>1. SUFFICES ASSUME a <= m + 1, m + 1 <= n
                 PROVE  Sigma(g, m + 1) + f[a] = Sigma(f, m + 1) + g[a]
    OBVIOUS
  <2>2. /\ Sigma(f, m) \in Nat /\ Sigma(g, m) \in Nat
        /\ f[m + 1] \in Nat /\ g[m + 1] \in Nat /\ f[a] \in Nat /\ g[a] \in Nat
    BY <2>1, SigmaType DEF Naturals
  <2>3. CASE a = m + 1
    <3>1. Sigma(f, m) = Sigma(g, m)
      BY <2>1, <2>3, SigmaSame
    <3>. QED BY <2>2, <2>3, <3>1, SigmaUnfolds
  <2>4. CASE a # m + 1
    <3>1. Sigma(g, m) + f[a] = Sigma(f, m) + g[a] /\ f[m + 1] = g[m + 1]
      BY <1>2, <2>1, <2>4
    <3>. QED BY <2>2, <3>1, SigmaUnfolds
  <2>. QED BY <2>3, <2>4
<1>3. \A m \in Nat : m \in T
  <2>. HIDE DEF T
  <2>. QED BY <1>1, <1>2, Sums!OverNaturals
<1>. QED BY <1>3

\* Two numbers of a sum are exchanged.
LEMMA SigmaAtTwo ==
  ASSUME NEW f, NEW g, NEW n \in Nat, Naturals(f, n), Naturals(g, n),
         NEW a \in 1..n, NEW b \in 1..n, a # b,
         \A i \in 1..n : i # a /\ i # b => f[i] = g[i]
  PROVE  Sigma(g, n) + f[a] + f[b] = Sigma(f, n) + g[a] + g[b]
<1>. DEFINE h == [i \in 1..n |-> IF i = a THEN g[i] ELSE f[i]]
<1>1. /\ Naturals(h, n) /\ h[a] = g[a] /\ h[b] = f[b]
      /\ \A i \in 1..n : i # a => f[i] = h[i]
      /\ \A i \in 1..n : i # b => h[i] = g[i]
  BY DEF Naturals
<1>. HIDE DEF h
<1>2. Sigma(h, n) + f[a] = Sigma(f, n) + h[a]
  BY <1>1, SigmaAt
<1>3. Sigma(g, n) + h[b] = Sigma(h, n) + g[b]
  BY <1>1, SigmaAt
<1>4. /\ Sigma(f, n) \in Nat /\ Sigma(g, n) \in Nat /\ Sigma(h, n) \in Nat
      /\ f[a] \in Nat /\ f[b] \in Nat /\ g[a] \in Nat /\ g[b] \in Nat
  BY <1>1, SigmaType DEF Naturals
<1>. QED BY <1>1, <1>2, <1>3, <1>4

\* One number more at the front of a sum.
LEMMA SigmaShifted ==
  ASSUME NEW f, NEW g, NEW n \in Nat, Naturals(f, n), Naturals(g, n + 1),
         \A i \in 1..n : g[i + 1] = f[i]
  PROVE  Sigma(g, n + 1) = g[1] + Sigma(f, n)
<1>. DEFINE T == {m \in Nat : m <= n => Sigma(g, m + 1) = g[1] + Sigma(f, m)}
<1>1. 0 \in T
  <2>1. Sigma(g, 0 + 1) = Sigma(g, 0) + g[0 + 1] /\ Sigma(g, 0) = 0 /\ Sigma(f, 0) = 0
    BY SigmaUnfolds
  <2>2. g[1] \in Nat
    BY DEF Naturals
  <2>. QED BY <2>1, <2>2
<1>2. ASSUME NEW m \in Nat, m \in T PROVE m + 1 \in T
  <2>1. SUFFICES ASSUME m + 1 <= n
                 PROVE  Sigma(g, m + 2) = g[1] + Sigma(f, m + 1)
    OBVIOUS
  <2>2. Sigma(g, m + 1) = g[1] + Sigma(f, m)
    BY <1>2, <2>1
  <2>3. Sigma(f, m) \in Nat /\ g[1] \in Nat /\ f[m + 1] \in Nat /\ g[m + 2] = f[m + 1]
    <3>1. m + 1 \in 1..n /\ (m + 1) + 1 = m + 2
      BY <2>1
    <3>. QED BY <2>1, <3>1, SigmaType DEF Naturals
  <2>4. Sigma(g, m + 2) = Sigma(g, m + 1) + g[m + 2]
    <3>1. m + 1 \in Nat /\ (m + 1) + 1 = m + 2
      OBVIOUS
    <3>. QED BY <3>1, SigmaUnfolds
  <2>5. Sigma(f, m + 1) = Sigma(f, m) + f[m + 1]
    BY SigmaUnfolds
  <2>. QED BY <2>2, <2>3, <2>4, <2>5
<1>3. \A m \in Nat : m \in T
  <2>. HIDE DEF T
  <2>. QED BY <1>1, <1>2, Sums!OverNaturals
<1>. QED BY <1>3

\* Nothing but zeros after place m.
LEMMA SigmaPadded ==
  ASSUME NEW f, NEW n \in Nat, NEW m \in 0..n, Naturals(f, n),
         \A i \in m + 1..n : f[i] = 0
  PROVE  Sigma(f, n) = Sigma(f, m)
<1>. DEFINE T == {l \in Nat : m <= l /\ l <= n => Sigma(f, l) = Sigma(f, m)}
<1>1. 0 \in T
  OBVIOUS
<1>2. ASSUME NEW l \in Nat, l \in T PROVE l + 1 \in T
  <2>1. SUFFICES ASSUME m < l + 1, l + 1 <= n
                 PROVE  Sigma(f, l + 1) = Sigma(f, m)
    OBVIOUS
  <2>2. Sigma(f, l) = Sigma(f, m) /\ Sigma(f, l) \in Nat /\ f[l + 1] = 0
    <3>1. Naturals(f, l)
      BY <2>1 DEF Naturals
    <3>. QED BY <1>2, <2>1, <3>1, SigmaType
  <2>. QED BY <2>2, SigmaUnfolds
<1>3. \A l \in Nat : l \in T
  <2>. HIDE DEF T
  <2>. QED BY <1>1, <1>2, Sums!OverNaturals
<1>. QED BY <1>3

\* Place by place, h is the sum of f and g.
LEMMA SigmaAdds ==
  ASSUME NEW f, NEW g, NEW h, NEW n \in Nat, Naturals(f, n), Naturals(g, n),
         \A i \in 1..n : h[i] = f[i] + g[i]
  PROVE  Sigma(h, n) = Sigma(f, n) + Sigma(g, n)
<1>. DEFINE T == {m \in Nat : m <= n => Sigma(h, m) = Sigma(f, m) + Sigma(g, m)}
<1>1. 0 \in T
  BY SigmaUnfolds
<1>2. ASSUME NEW m \in Nat, m \in T PROVE m + 1 \in T
  <2>1. SUFFICES ASSUME m + 1 <= n
                 PROVE  Sigma(h, m + 1) = Sigma(f, m + 1) + Sigma(g, m + 1)
    OBVIOUS
  <2>2. /\ Sigma(f, m) \in Nat /\ Sigma(g, m) \in Nat
        /\ f[m + 1] \in Nat /\ g[m + 1] \in Nat /\ h[m + 1] = f[m + 1] + g[m + 1]
    BY <2>1, SigmaType DEF Naturals
  <2>3. Sigma(h, m) = Sigma(f, m) + Sigma(g, m)
    BY <1>2, <2>1
  <2>. QED BY <2>2, <2>3, SigmaUnfolds
<1>3. \A m \in Nat : m \in T
  <2>. HIDE DEF T
  <2>. QED BY <1>1, <1>2, Sums!OverNaturals
<1>. QED BY <1>3

-----------------------------------------------------------------------------
(* Lists, of whatever. *)

List(s) == \E S : s \in Seq(S)

\* A function over the first n places is a list of that length.
LEMMA ListOfPlaces ==
  ASSUME NEW n \in Nat, NEW f, f = [i \in 1..n |-> f[i]]
  PROVE  List(f) /\ Len(f) = n
<1>. DEFINE S == {f[i] : i \in 1..n}
<1>1. f \in [1..n -> S]
  OBVIOUS
<1>. HIDE DEF S
<1>2. f \in Seq(S) /\ Len(f) = n
  BY <1>1
<1>. QED BY <1>2 DEF List

\* A list is a function over its places.
LEMMA ListIs ==
  ASSUME NEW s, List(s)
  PROVE  Len(s) \in Nat /\ DOMAIN s = 1..Len(s) /\ s = [i \in 1..Len(s) |-> s[i]]
BY DEF List

\* An item is put behind a list or in front of it, or its first item is dropped.
LEMMA ListAppend ==
  ASSUME NEW s, NEW x, List(s)
  PROVE  /\ List(Append(s, x)) /\ Len(Append(s, x)) = Len(s) + 1
         /\ \A i \in 1..Len(s) : Append(s, x)[i] = s[i]
         /\ Append(s, x)[Len(s) + 1] = x
<1>1. PICK S : s \in Seq(S)
  BY DEF List
<1>. DEFINE U == S \union {x}
<1>2. s \in Seq(U) /\ x \in U
  BY <1>1
<1>. HIDE DEF U
<1>3. Append(s, x) \in Seq(U)
  BY <1>2
<1>. QED BY <1>2, <1>3 DEF List

\* A sequence with an element put in front is one longer.
LEMMA ListPrepend ==
  ASSUME NEW s, NEW x, List(s)
  PROVE  List(<<x>> \o s) /\ Len(<<x>> \o s) = Len(s) + 1
<1>1. PICK S : s \in Seq(S)
  BY DEF List
<1>. DEFINE U == S \union {x}
<1>2. s \in Seq(U) /\ <<x>> \in Seq(U) /\ Len(<<x>>) = 1
  BY <1>1
<1>. HIDE DEF U
<1>3. <<x>> \o s \in Seq(U) /\ Len(<<x>> \o s) = Len(<<x>>) + Len(s)
  BY <1>2
<1>. QED BY <1>2, <1>3, ListIs DEF List

\* A sequence without its first element is one shorter.
LEMMA ListTail ==
  ASSUME NEW s, List(s), Len(s) # 0
  PROVE  List(Tail(s)) /\ Len(Tail(s)) = Len(s) - 1
<1>1. PICK S : s \in Seq(S)
  BY DEF List
<1>2. s # <<>>
  OBVIOUS
<1>3. Tail(s) \in Seq(S) /\ Len(Tail(s)) = Len(s) - 1
  BY <1>1, <1>2
<1>. QED BY <1>3 DEF List

-----------------------------------------------------------------------------
(* The folds of the model are such sums. *)

Lists(levels) == List(levels) /\ \A h \in 1..Len(levels) : List(levels[h])

lens(levels) == [h \in 1..Len(levels) |-> Len(levels[h])]
weights(levels) == [h \in 1..Len(levels) |-> TwoTo(h - 1) * Len(levels[h])]
caps(k, numLevels) == [h \in 1..numLevels |-> level_capacity(k, numLevels, h - 1)]

\* The length of a level, and of one that is not there.
LEMMA LevelLengths ==
  ASSUME NEW levels, Lists(levels)
  PROVE  /\ Len(levels) \in Nat
         /\ \A h \in 1..Len(levels) : lens(levels)[h] = Len(levels[h]) /\ Len(levels[h]) \in Nat
         /\ Naturals(lens(levels), Len(levels))
<1>1. Len(levels) \in Nat /\ \A h \in 1..Len(levels) : Len(levels[h]) \in Nat
  BY ListIs DEF Lists
<1>. QED BY <1>1 DEF lens, Naturals

counting(p, q, i, total) == total + Len(p[i])
counted(p, q, i, total) == i <= Len(p) => total = Sigma(lens(p), i)
Counts == INSTANCE FoldTheorems WITH step <- counting, choose <- lastOf, Good <- counted

weighing(p, q, i, total) == total + TwoTo(q[i] - 1) * Len(p[q[i]])
weighed(p, q, i, total) == i <= Len(p) => total = Sigma(weights(p), i)
Weighs == INSTANCE FoldTheorems WITH step <- weighing, choose <- lastOf, Good <- weighed

capping(p, q, i, total) == total + level_capacity(p[1], p[2], q[i] - 1)
capped(p, q, i, total) == i <= p[2] => total = Sigma(caps(p[1], p[2]), i)
Caps == INSTANCE FoldTheorems WITH step <- capping, choose <- lastOf, Good <- capped

\* The items in a buffer.
LEMMA RetainedIsSum ==
  ASSUME NEW levels, List(levels)
  PROVE  retained(levels) = Sigma(lens(levels), Len(levels))
<1>. DEFINE n == Len(levels)
<1>1. n \in Nat /\ DOMAIN levels = 1..n
  BY ListIs
<1>2. retained(levels) = Counts!Left(levels, levels, 0, n)
  BY <1>1 DEF retained, FoldLeft, MapThenFoldSet, Max, Counts!Left, Counts!Fold,
              Counts!MapThenFoldSet, counting, lastOf
<1>3. Counts!ChoosesLast
  BY DEF Counts!ChoosesLast, lastOf
<1>4. Counts!Preserves(levels, levels, n)
  <2>1. ASSUME NEW i \in 1..n, NEW total, counted(levels, levels, i - 1, total)
        PROVE  counted(levels, levels, i, counting(levels, levels, i, total))
    <3>1. total = Sigma(lens(levels), i - 1)
      BY <1>1, <2>1 DEF counted
    <3>2. Sigma(lens(levels), i) = Sigma(lens(levels), i - 1) + lens(levels)[i]
      <4>1. i - 1 \in Nat /\ (i - 1) + 1 = i
        BY <1>1
      <4>. QED BY <4>1, SigmaUnfolds
    <3>3. lens(levels)[i] = Len(levels[i])
      BY DEF lens
    <3>. QED BY <3>1, <3>2, <3>3 DEF counted, counting
  <2>. QED BY <2>1 DEF Counts!Preserves
<1>5. counted(levels, levels, 0, 0)
  BY SigmaUnfolds DEF counted
<1>. HIDE DEF n
<1>6. counted(levels, levels, n, Counts!Left(levels, levels, 0, n))
  BY <1>1, <1>3, <1>4, <1>5, Counts!LeftKeeps
<1>. QED BY <1>1, <1>2, <1>6 DEF counted, n

\* Their weights.
LEMMA WeightIsSum ==
  ASSUME NEW levels, List(levels)
  PROVE  sum_the_sample_weights(levels) = Sigma(weights(levels), Len(levels))
<1>. DEFINE n == Len(levels)
            q == [h \in 1..n |-> h]
<1>1. n \in Nat /\ DOMAIN q = 1..n /\ \A i \in 1..n : q[i] = i
  BY ListIs
<1>2. sum_the_sample_weights(levels) = FoldLeft(LAMBDA total, h : total + TwoTo(h - 1) * Len(levels[h]), 0, q)
  BY DEF sum_the_sample_weights
<1>. HIDE DEF n, q
<1>3. sum_the_sample_weights(levels) = Weighs!Left(levels, q, 0, n)
  BY <1>1, <1>2 DEF FoldLeft, MapThenFoldSet, Max, Weighs!Left, Weighs!Fold,
              Weighs!MapThenFoldSet, weighing, lastOf
<1>4. Weighs!ChoosesLast
  BY DEF Weighs!ChoosesLast, lastOf
<1>5. Weighs!Preserves(levels, q, n)
  <2>1. ASSUME NEW i \in 1..n, NEW total, weighed(levels, q, i - 1, total)
        PROVE  weighed(levels, q, i, weighing(levels, q, i, total))
    <3>1. total = Sigma(weights(levels), i - 1)
      BY <1>1, <2>1 DEF weighed, n
    <3>2. Sigma(weights(levels), i) = Sigma(weights(levels), i - 1) + weights(levels)[i]
      <4>1. i - 1 \in Nat /\ (i - 1) + 1 = i
        BY <1>1
      <4>. QED BY <4>1, SigmaUnfolds
    <3>3. weights(levels)[i] = TwoTo(q[i] - 1) * Len(levels[q[i]])
      BY <1>1 DEF weights, n
    <3>. QED BY <3>1, <3>2, <3>3 DEF weighed, weighing
  <2>. QED BY <2>1 DEF Weighs!Preserves
<1>6. weighed(levels, q, 0, 0)
  BY SigmaUnfolds DEF weighed
<1>7. weighed(levels, q, n, Weighs!Left(levels, q, 0, n))
  BY <1>1, <1>4, <1>5, <1>6, Weighs!LeftKeeps
<1>. QED BY <1>1, <1>3, <1>7 DEF weighed, n

\* The capacity of all levels.
LEMMA CapacityIsSum ==
  ASSUME NEW k, NEW n \in Nat
  PROVE  compute_total_capacity(k, n) = Sigma(caps(k, n), n)
<1>. DEFINE p == <<k, n>>
            q == [h \in 1..n |-> h]
<1>1. p[1] = k /\ p[2] = n /\ DOMAIN q = 1..n /\ \A i \in 1..n : q[i] = i
  OBVIOUS
<1>2. compute_total_capacity(k, n) = FoldLeft(LAMBDA total, h : total + level_capacity(k, n, h - 1), 0, q)
  BY DEF compute_total_capacity
<1>. HIDE DEF p, q
<1>3. compute_total_capacity(k, n) = Caps!Left(p, q, 0, n)
  BY <1>1, <1>2 DEF FoldLeft, MapThenFoldSet, Max, Caps!Left, Caps!Fold,
              Caps!MapThenFoldSet, capping, lastOf
<1>4. Caps!ChoosesLast
  BY DEF Caps!ChoosesLast, lastOf
<1>5. Caps!Preserves(p, q, n)
  <2>1. ASSUME NEW i \in 1..n, NEW total, capped(p, q, i - 1, total)
        PROVE  capped(p, q, i, capping(p, q, i, total))
    <3>1. total = Sigma(caps(k, n), i - 1)
      BY <1>1, <2>1 DEF capped
    <3>2. Sigma(caps(k, n), i) = Sigma(caps(k, n), i - 1) + caps(k, n)[i]
      <4>1. i - 1 \in Nat /\ (i - 1) + 1 = i
        OBVIOUS
      <4>. QED BY <4>1, SigmaUnfolds
    <3>3. caps(k, n)[i] = level_capacity(k, n, q[i] - 1)
      BY <1>1 DEF caps
    <3>. QED BY <1>1, <3>1, <3>2, <3>3 DEF capped, capping
  <2>. QED BY <2>1 DEF Caps!Preserves
<1>6. capped(p, q, 0, 0)
  BY <1>1, SigmaUnfolds DEF capped
<1>7. capped(p, q, n, Caps!Left(p, q, 0, n))
  BY <1>1, <1>4, <1>5, <1>6, Caps!LeftKeeps
<1>. QED BY <1>1, <1>3, <1>7 DEF capped

-----------------------------------------------------------------------------
(* Capacities, and the powers they are made of. *)

Powers(n) == \A e \in 0..n : Power(e)

\* A level has room for two items at least.
LEMMA CapacityType ==
  ASSUME NEW k \in Nat, NEW n \in Nat, NEW h \in 0..n - 1, Powers(n)
  PROVE  level_capacity(k, n, h) \in Nat /\ level_capacity(k, n, h) >= 2
<1>. DEFINE depth == n - h - 1
            base == 3 ^ depth
            power == 2 * k * TwoTo(depth)
            rounded == (power \div base + 1) \div 2
<1>1. Power(depth)
  BY DEF Powers
<1>2. base \in Nat \ {0} /\ power \in Nat
  <2>. HIDE DEF depth
  <2>. QED BY <1>1 DEF Power
<1>. HIDE DEF base, power
<1>3. power \div base \in Int
  BY <1>2
<1>4. rounded \in Int
  BY <1>3
<1>5. level_capacity(k, n, h) = IF rounded > M THEN rounded ELSE M
  BY DEF level_capacity, base, power
<1>. HIDE DEF rounded
<1>. QED BY <1>4, <1>5, MAssumption

\* A level keeps its capacity when a level is added at the top and it is one higher.
LEMMA CapacityMoves ==
  ASSUME NEW k \in Nat, NEW n \in Nat, Powers(n + 1)
  PROVE  /\ Naturals(caps(k, n), n) /\ Naturals(caps(k, n + 1), n + 1)
         /\ \A i \in 1..n : caps(k, n + 1)[i + 1] = caps(k, n)[i]
         /\ caps(k, n + 1)[1] = level_capacity(k, n + 1, 0)
<1>1. Powers(n)
  BY DEF Powers
<1>2. Naturals(caps(k, n), n)
  <2>1. \A i \in 1..n : i - 1 \in 0..n - 1
    OBVIOUS
  <2>. QED BY <1>1, <2>1, CapacityType DEF Naturals, caps
<1>3. Naturals(caps(k, n + 1), n + 1)
  <2>1. \A i \in 1..n + 1 : i - 1 \in 0..(n + 1) - 1
    OBVIOUS
  <2>. QED BY <2>1, CapacityType DEF Naturals, caps
<1>4. ASSUME NEW i \in 1..n PROVE caps(k, n + 1)[i + 1] = caps(k, n)[i]
  <2>1. (n + 1) - ((i + 1) - 1) - 1 = n - (i - 1) - 1
    OBVIOUS
  <2>2. level_capacity(k, n + 1, (i + 1) - 1) = level_capacity(k, n, i - 1)
    BY <2>1 DEF level_capacity
  <2>. QED BY <2>2 DEF caps
<1>5. caps(k, n + 1)[1] = level_capacity(k, n + 1, 0)
  BY DEF caps
<1>. QED BY <1>2, <1>3, <1>4, <1>5

\* So the capacity of all levels grows by that of a new bottom level.
LEMMA CapacityGrows ==
  ASSUME NEW k \in Nat, NEW n \in Nat, Powers(n + 1)
  PROVE  /\ compute_total_capacity(k, n) \in Nat
         /\ compute_total_capacity(k, n + 1)
              = level_capacity(k, n + 1, 0) + compute_total_capacity(k, n)
         /\ \A m \in 0..n : Sigma(caps(k, n + 1), m + 1)
                              = level_capacity(k, n + 1, 0) + Sigma(caps(k, n), m)
<1>1. ASSUME NEW m \in 0..n
      PROVE  Sigma(caps(k, n + 1), m + 1) = level_capacity(k, n + 1, 0) + Sigma(caps(k, n), m)
  <2>1. \A i \in 1..m : i \in 1..n /\ i + 1 \in 1..n + 1
    OBVIOUS
  <2>2. \A i \in 1..m + 1 : i \in 1..n + 1
    OBVIOUS
  <2>3. Naturals(caps(k, n), n) /\ Naturals(caps(k, n + 1), n + 1)
    BY CapacityMoves
  <2>4. Naturals(caps(k, n), m) /\ Naturals(caps(k, n + 1), m + 1)
    BY <2>1, <2>2, <2>3 DEF Naturals
  <2>5. /\ \A i \in 1..m : caps(k, n + 1)[i + 1] = caps(k, n)[i]
        /\ caps(k, n + 1)[1] = level_capacity(k, n + 1, 0)
    BY <2>1, CapacityMoves
  <2>. QED BY <2>4, <2>5, SigmaShifted
<1>. QED BY <1>1, CapacityMoves, SigmaType, CapacityIsSum

\* A sketch of one level has room for k items.
LEMMA CapacityOfOne ==
  ASSUME NEW k \in Nat, k >= M, Powers(1)
  PROVE  compute_total_capacity(k, 1) = k
<1>1. Power(0)
  BY DEF Powers
<1>2. level_capacity(k, 1, 0) = IF k > M THEN k ELSE M
  <2>1. TwoTo(0) = 1 /\ 3 ^ 0 = 1
    BY <1>1 DEF Power
  <2>2. 1 - 0 - 1 = 0
    OBVIOUS
  <2>3. ((2 * k * 1) \div 1 + 1) \div 2 = k
    OBVIOUS
  <2>. QED BY <2>1, <2>2, <2>3 DEF level_capacity
<1>3. caps(k, 1)[1] = k
  BY <1>2, MAssumption DEF caps
<1>4. Sigma(caps(k, 1), 0 + 1) = Sigma(caps(k, 1), 0) + caps(k, 1)[0 + 1] /\ Sigma(caps(k, 1), 0) = 0
  BY SigmaUnfolds
<1>. QED BY <1>3, <1>4, CapacityIsSum

\* The powers of two rise, and faster than their exponents.
LEMMA PowersRise ==
  ASSUME NEW n \in Nat, Powers(n)
  PROVE  \A e \in 0..n : /\ TwoTo(e) \in Nat /\ e < TwoTo(e)
                         /\ \A d \in 0..e : TwoTo(d) <= TwoTo(e)
<1>. DEFINE T == {e \in Nat : e <= n => /\ TwoTo(e) \in Nat /\ e < TwoTo(e)
                                        /\ \A d \in 0..e : TwoTo(d) <= TwoTo(e)}
<1>1. 0 \in T
  BY DEF Powers, Power
<1>2. ASSUME NEW e \in Nat, e \in T PROVE e + 1 \in T
  <2>1. SUFFICES ASSUME e + 1 <= n
                 PROVE  /\ TwoTo(e + 1) \in Nat /\ e + 1 < TwoTo(e + 1)
                        /\ \A d \in 0..e + 1 : TwoTo(d) <= TwoTo(e + 1)
    OBVIOUS
  <2>2. TwoTo(e) \in Nat /\ e < TwoTo(e) /\ \A d \in 0..e : TwoTo(d) <= TwoTo(e)
    BY <1>2, <2>1
  <2>3. TwoTo(e + 1) = 2 * TwoTo(e)
    BY <2>1 DEF Powers, Power
  <2>4. \A d \in 0..e : TwoTo(d) \in Nat
    BY <2>1 DEF Powers, Power
  <2>. QED BY <2>2, <2>3, <2>4
<1>3. \A e \in Nat : e \in T
  <2>. HIDE DEF T
  <2>. QED BY <1>1, <1>2, Sums!OverNaturals
<1>. QED BY <1>3

\* The type of the weights.
LEMMA WeightsType ==
  ASSUME NEW levels, Lists(levels), NEW n \in Nat, Powers(n), Len(levels) <= n + 1
  PROVE  /\ Naturals(weights(levels), Len(levels)) /\ Len(levels) \in Nat
         /\ \A h \in 1..Len(levels) :
              /\ weights(levels)[h] = TwoTo(h - 1) * Len(levels[h])
              /\ TwoTo(h - 1) \in Nat \ {0} /\ Len(levels[h]) \in Nat
<1>1. ASSUME NEW h \in 1..Len(levels)
      PROVE  /\ weights(levels)[h] = TwoTo(h - 1) * Len(levels[h])
             /\ TwoTo(h - 1) \in Nat \ {0} /\ Len(levels[h]) \in Nat
  <2>1. weights(levels)[h] = TwoTo(h - 1) * Len(levels[h])
    BY DEF weights
  <2>2. h - 1 \in 0..n
    BY LevelLengths
  <2>. QED BY <2>1, <2>2, LevelLengths DEF Powers, Power
<1>2. Naturals(weights(levels), Len(levels))
  <2>1. \A a, b \in Nat : a * b \in Nat
    OBVIOUS
  <2>. QED BY <1>1, <2>1 DEF Naturals
<1>. QED BY <1>1, <1>2, LevelLengths

\* An item at the top stands for 2^(L - 1) items of the stream, so that there are
\* few levels: no more than ub_on_num_levels says.
LEMMA FewLevels ==
  ASSUME NEW levels, Lists(levels), NEW n \in Nat, Powers(n + 1),
         Len(levels) \in 1..n + 2,
         Len(levels) > 1 => Len(levels[Len(levels)]) # 0,
         Sigma(weights(levels), Len(levels)) <= n, n # 0
  PROVE  Len(levels) <= n /\ Len(levels) <= ub_on_num_levels(n)
         /\ ub_on_num_levels(n) \in Nat
<1>. DEFINE L == Len(levels)
            E == {e \in 1..n : TwoTo(e) <= n}
<1>1. IsFiniteSet(E) /\ Cardinality(E) \in Nat
  <2>1. IsFiniteSet(1..n)
    BY FS_Interval
  <2>. QED BY <2>1, FS_Subset, FS_CardinalityType
<1>2. CASE L = 1
  BY <1>1, <1>2 DEF ub_on_num_levels
<1>3. CASE L # 1
  <2>1. /\ weights(levels)[L] = TwoTo(L - 1) * Len(levels[L]) /\ TwoTo(L - 1) \in Nat
        /\ Len(levels[L]) \in Nat /\ Len(levels[L]) # 0 /\ Naturals(weights(levels), L)
    <3>1. L \in 1..L /\ n + 1 \in Nat /\ L <= (n + 1) + 1 /\ L > 1
      <4>. L \in 1..n + 2
        OBVIOUS
      <4>. HIDE DEF L
      <4>. QED BY <1>3
    <3>. QED BY <3>1, WeightsType
  <2>2. Sigma(weights(levels), L) = Sigma(weights(levels), L - 1) + weights(levels)[L]
    <3>1. L - 1 \in Nat /\ (L - 1) + 1 = L
      OBVIOUS
    <3>. QED BY <3>1, SigmaUnfolds
  <2>3. Sigma(weights(levels), L - 1) \in Nat
    <3>1. Naturals(weights(levels), L - 1) /\ L - 1 \in Nat
      BY <2>1 DEF Naturals
    <3>. QED BY <3>1, SigmaType
  <2>4. TwoTo(L - 1) <= TwoTo(L - 1) * Len(levels[L])
    <3>1. \A a \in Nat : \A b \in Nat \ {0} : a <= a * b
      OBVIOUS
    <3>. QED BY <2>1, <3>1
  <2>5. TwoTo(L - 1) <= n
    <3>1. TwoTo(L - 1) * Len(levels[L]) \in Nat
      BY <2>1
    <3>. QED BY <2>1, <2>2, <2>3, <2>4, <3>1
  <2>6. L - 1 \in 0..n + 1 /\ L - 1 < TwoTo(L - 1) /\ \A d \in 0..L - 1 : TwoTo(d) <= TwoTo(L - 1)
    BY PowersRise
  <2>7. L - 1 < n
    BY <2>1, <2>5, <2>6
  <2>8. 1..L - 1 \subseteq E
    <3>1. ASSUME NEW d \in 1..L - 1 PROVE d \in E
      <4>1. TwoTo(d) \in Nat
        BY <2>7, PowersRise
      <4>. QED BY <2>1, <2>5, <2>6, <2>7, <4>1
    <3>. QED BY <3>1
  <2>9. Cardinality(1..L - 1) = L - 1
    BY FS_Interval
  <2>10. L - 1 <= Cardinality(E)
    BY <1>1, <2>8, <2>9, FS_Subset
  <2>. QED BY <1>1, <2>7, <2>10 DEF ub_on_num_levels
<1>. QED BY <1>2, <1>3

-----------------------------------------------------------------------------
(* Compaction.  How many items there are matters, and not which. *)

taking(p, q, i, s) ==
  IF s.b = Len(q) \/ (s.a < Len(p) /\ p[s.a + 1] < q[s.b + 1])
  THEN [s EXCEPT !.a = @ + 1, !.out = Append(@, p[s.a + 1])]
  ELSE [s EXCEPT !.b = @ + 1, !.out = Append(@, q[s.b + 1])]
taken(p, q, i, s) ==
  DOMAIN s = {"a", "b", "out"} /\ List(s.out) /\ Len(s.out) = i
Takes == INSTANCE FoldTheorems WITH step <- taking, choose <- lastOf, Good <- taken

\* Two runs are merged into one of all their items.
LEMMA MergeHasAll ==
  ASSUME NEW a, NEW b, List(a), List(b)
  PROVE  /\ List(merge_sorted_arrays(a, b))
         /\ Len(merge_sorted_arrays(a, b)) = Len(a) + Len(b)
<1>. DEFINE n == Len(a) + Len(b)
            base == [a |-> 0, b |-> 0, out |-> <<>>]
            q == [c \in 1..n |-> c]
            take(s, c) ==
              IF s.b = Len(b) \/ (s.a < Len(a) /\ a[s.a + 1] < b[s.b + 1])
              THEN [s EXCEPT !.a = @ + 1, !.out = Append(@, a[s.a + 1])]
              ELSE [s EXCEPT !.b = @ + 1, !.out = Append(@, b[s.b + 1])]
<1>1. n \in Nat /\ DOMAIN q = 1..n
  BY ListIs
<1>2. merge_sorted_arrays(a, b) = FoldLeft(take, base, q).out
  BY DEF merge_sorted_arrays, mergeRuns
<1>3. FoldLeft(take, base, q) = Takes!Left(a, b, base, n)
  <2>. HIDE DEF q, n, base
  <2>. QED BY <1>1 DEF FoldLeft, MapThenFoldSet, Max, Takes!Left, Takes!Fold,
              Takes!MapThenFoldSet, taking, lastOf
<1>. HIDE DEF take
<1>4. Takes!ChoosesLast
  BY DEF Takes!ChoosesLast, lastOf
<1>5. taken(a, b, 0, base)
  <2>1. <<>> \in Seq({})
    OBVIOUS
  <2>. QED BY <2>1 DEF taken, List
<1>. HIDE DEF base, q
<1>6. Takes!Preserves(a, b, n)
  <2>1. ASSUME NEW i \in 1..n, NEW s, taken(a, b, i - 1, s)
        PROVE  taken(a, b, i, taking(a, b, i, s))
    <3>1. DOMAIN s = {"a", "b", "out"} /\ List(s.out) /\ Len(s.out) = i - 1
      BY <2>1 DEF taken
    <3>2. \A x : List(Append(s.out, x)) /\ Len(Append(s.out, x)) = i
      BY <1>1, <3>1, ListAppend
    <3>. QED BY <3>1, <3>2 DEF taken, taking
  <2>. QED BY <2>1 DEF Takes!Preserves
<1>. HIDE DEF n
<1>7. taken(a, b, n, Takes!Left(a, b, base, n))
  BY <1>1, <1>4, <1>5, <1>6, Takes!LeftKeeps
<1>. QED BY <1>2, <1>3, <1>7 DEF taken, n

\* Sorting loses nothing.
LEMMA SortHasAll ==
  ASSUME NEW level, List(level)
  PROVE  List(sorted(level)) /\ Len(sorted(level)) = Len(level)
<1>. DEFINE n == Len(level)
            f == sorted(level)
<1>1. n \in Nat
  BY ListIs
<1>. DEFINE item(p) == CHOOSE v \in {level[i] : i \in 1..n} :
                        /\ Cardinality({i \in 1..n : level[i] < v}) < p
                        /\ p <= Cardinality({i \in 1..n : level[i] <= v})
<1>2. f = [p \in 1..n |-> f[p]]
  <2>1. f = [p \in 1..n |-> item(p)]
    BY DEF sorted
  <2>. HIDE DEF item, f
  <2>. QED BY <2>1
<1>. HIDE DEF f
<1>3. List(f) /\ Len(f) = n
  <2>. HIDE DEF n
  <2>. QED BY <1>1, <1>2, ListOfPlaces
<1>. QED BY <1>3 DEF f

\* Halving keeps every other item.
LEMMA HalveHasHalf ==
  ASSUME NEW run, NEW coin, List(run)
  PROVE  List(randomly_halve(run, coin)) /\ Len(randomly_halve(run, coin)) = Len(run) \div 2
<1>. DEFINE n == Len(run) \div 2
            f == randomly_halve(run, coin)
<1>1. n \in Nat
  <2>1. Len(run) \in Nat
    BY ListIs
  <2>. QED BY <2>1
<1>2. f = [p \in 1..n |-> f[p]]
  BY DEF randomly_halve
<1>. HIDE DEF f
<1>3. List(f) /\ Len(f) = n
  <2>. HIDE DEF n
  <2>. QED BY <1>1, <1>2, ListOfPlaces
<1>. QED BY <1>3 DEF f

\* Level h and the one above, in their places, are set to x and to y.
LEMMA TwoLevelsSet ==
  ASSUME NEW levels, Lists(levels), NEW a \in 1..Len(levels), NEW b \in 1..Len(levels), a # b,
         NEW x, NEW y, List(x), List(y)
  PROVE  LET new == [[levels EXCEPT ![a] = x] EXCEPT ![b] = y]
         IN /\ Lists(new) /\ Len(new) = Len(levels) /\ new[a] = x /\ new[b] = y
            /\ \A i \in 1..Len(levels) : i # a /\ i # b => new[i] = levels[i]
<1>. DEFINE new == [[levels EXCEPT ![a] = x] EXCEPT ![b] = y]
            n == Len(levels)
<1>1. n \in Nat /\ DOMAIN levels = 1..n
  BY ListIs DEF Lists
<1>2. new = [i \in 1..n |-> new[i]] /\ new[a] = x /\ new[b] = y
      /\ \A i \in 1..n : i # a /\ i # b => new[i] = levels[i]
  <2>1. a \in 1..n /\ b \in 1..n
    OBVIOUS
  <2>. HIDE DEF n
  <2>2. new[a] = x /\ new[b] = y /\ \A i \in 1..n : i # a /\ i # b => new[i] = levels[i]
    BY <1>1, <2>1
  <2>3. DOMAIN new = 1..n
    BY <1>1
  <2>. QED BY <2>2, <2>3
<1>. HIDE DEF new
<1>3. List(new) /\ Len(new) = n
  <2>. HIDE DEF n
  <2>. QED BY <1>1, <1>2, ListOfPlaces
<1>4. ASSUME NEW i \in 1..n PROVE List(new[i])
  BY <1>2 DEF Lists
<1>5. Lists(new) /\ Len(new) = Len(levels) /\ new[a] = x /\ new[b] = y
      /\ \A i \in 1..Len(levels) : i # a /\ i # b => new[i] = levels[i]
  BY <1>2, <1>3, <1>4 DEF Lists
<1>. QED BY <1>5 DEF new

\* What has levels, coins and an error.
Compactable(w) == {"levels", "coins", "err"} \subseteq DOMAIN w

\* Of d, all but the levels, the coins and the error is as in w.
OtherwiseSame(d, w) ==
  /\ DOMAIN d = DOMAIN w
  /\ \A f \in DOMAIN w : f \notin {"levels", "coins", "err"} => d[f] = w[f]

\* What the compaction of level h, in place a, does.
LEMMA CompactIs ==
  ASSUME NEW w, Compactable(w), Lists(w.levels), NEW h \in Nat, h + 2 <= Len(w.levels),
         NEW mustSort
  PROVE  LET d == compact(w, h, mustSort)
             c == Len(w.levels[h + 1])
         IN /\ OtherwiseSame(d, w) /\ Lists(d.levels) /\ Len(d.levels) = Len(w.levels)
            /\ Len(d.levels[h + 1]) = c % 2
            /\ Len(d.levels[h + 2]) = Len(w.levels[h + 2]) + c \div 2
            /\ \A i \in 1..Len(w.levels) : i # h + 1 /\ i # h + 2 => d.levels[i] = w.levels[i]
<1>. DEFINE d == compact(w, h, mustSort)
            raw == w.levels[h + 1]
            above == w.levels[h + 2]
            odd == Len(raw) % 2 = 1
            adj == IF odd THEN Tail(raw) ELSE raw
            run == IF mustSort THEN sorted(adj) ELSE adj
            half == randomly_halve(run, nextCoin(w))
            x == IF odd THEN <<Head(raw)>> ELSE <<>>
            y == IF above = <<>> THEN half ELSE merge_sorted_arrays(half, above)
            c == Len(raw)
<1>1. d = [w EXCEPT !.levels[h + 1] = x, !.levels[h + 2] = y,
                    !.coins = IF @ = <<>> THEN @ ELSE Tail(@), !.err = @ + TwoTo(h)]
  BY DEF compact
<1>2. List(raw) /\ List(above) /\ c \in Nat /\ Len(above) \in Nat
      /\ h + 1 \in 1..Len(w.levels) /\ h + 2 \in 1..Len(w.levels)
  <2>1. Len(w.levels) \in Nat
    BY ListIs DEF Lists
  <2>2. h + 1 \in 1..Len(w.levels) /\ h + 2 \in 1..Len(w.levels)
    BY <2>1
  <2>. QED BY <2>2, ListIs DEF Lists
<1>3. List(x) /\ Len(x) = c % 2
  <2>1. \A e : <<e>> \in Seq({e}) /\ Len(<<e>>) = 1
    OBVIOUS
  <2>2. <<>> \in Seq({}) /\ Len(<<>>) = 0
    OBVIOUS
  <2>3. c % 2 \in {0, 1}
    <3>. HIDE DEF c
    <3>. QED BY <1>2
  <2>. QED BY <2>1, <2>2, <2>3 DEF List
<1>4. List(adj) /\ Len(adj) = c - (c % 2)
  <2>1. c % 2 \in {0, 1} /\ (c % 2 = 1 => c # 0) /\ c - 0 = c
    <3>. HIDE DEF c
    <3>. QED BY <1>2
  <2>2. CASE odd
    BY <1>2, <2>1, <2>2, ListTail
  <2>3. CASE ~ odd
    BY <1>2, <2>1, <2>3
  <2>. QED BY <2>2, <2>3
<1>5. List(half) /\ Len(half) = c \div 2
  <2>. HIDE DEF adj
  <2>1. List(run) /\ Len(run) = c - (c % 2)
    BY <1>4, SortHasAll
  <2>. HIDE DEF run
  <2>2. (c - (c % 2)) \div 2 = c \div 2
    <3>. HIDE DEF c
    <3>. QED BY <1>2
  <2>. QED BY <2>1, <2>2, HalveHasHalf
<1>. HIDE DEF half, x
<1>6. List(y) /\ Len(y) = Len(above) + c \div 2
  <2>1. c \div 2 \in Nat
    <3>. HIDE DEF c
    <3>. QED BY <1>2
  <2>2. CASE above = <<>>
    <3>1. Len(above) = 0 /\ y = half
      BY <2>2
    <3>. HIDE DEF c, above, y
    <3>. QED BY <1>5, <2>1, <3>1
  <2>3. CASE above # <<>>
    <3>1. y = merge_sorted_arrays(half, above)
      BY <2>3
    <3>. HIDE DEF c, above, y
    <3>. QED BY <1>2, <1>5, <2>1, <3>1, MergeHasAll
  <2>. QED BY <2>2, <2>3
<1>. HIDE DEF y, raw, above
<1>7. /\ OtherwiseSame(d, w)
      /\ d.levels = [[w.levels EXCEPT ![h + 1] = x] EXCEPT ![h + 2] = y]
  <2>. HIDE DEF d
  <2>. QED BY <1>1 DEF Compactable, OtherwiseSame
<1>8. h + 1 # h + 2
  OBVIOUS
<1>. HIDE DEF d
<1>9. /\ Lists(d.levels) /\ Len(d.levels) = Len(w.levels)
      /\ d.levels[h + 1] = x /\ d.levels[h + 2] = y
      /\ \A i \in 1..Len(w.levels) : i # h + 1 /\ i # h + 2 => d.levels[i] = w.levels[i]
  BY <1>2, <1>3, <1>6, <1>7, <1>8, TwoLevelsSet
<1>. QED BY <1>3, <1>6, <1>7, <1>9 DEF d, raw, above

\* Half as many items of twice the weight.
LEMMA HalfOfDoubleWeight ==
  ASSUME NEW p \in Nat, NEW c \in Nat, NEW a \in Nat
  PROVE  p * c + (2 * p) * a = p * (c % 2) + (2 * p) * (a + c \div 2)
<1>. DEFINE e == c % 2
            g == c \div 2
<1>1. e \in Nat /\ g \in Nat /\ c = 2 * g + e
  OBVIOUS
<1>. HIDE DEF e, g
<1>2. p * (2 * g + e) + (2 * p) * a = p * e + (2 * p) * (a + g)
  BY <1>1
<1>. QED BY <1>1, <1>2 DEF e, g

\* What is exchanged in two equal sums.
LEMMA Balance ==
  ASSUME NEW a \in Nat, NEW b \in Nat, NEW p \in Nat, NEW q \in Nat, NEW r \in Nat,
         NEW s \in Nat, NEW d \in Nat, a + p + q = b + r + s, p + q = r + s + d
  PROVE  a + d = b
OBVIOUS

\* A compaction keeps the weight.  Of the items of its level, half are lost.
LEMMA CompactKeeps ==
  ASSUME NEW w, Compactable(w), Lists(w.levels), NEW h \in Nat, h + 2 <= Len(w.levels),
         NEW mustSort, NEW n \in Nat, Powers(n), Len(w.levels) <= n + 1
  PROVE  LET d == compact(w, h, mustSort)
             c == Len(w.levels[h + 1])
             L == Len(w.levels)
         IN /\ Sigma(weights(d.levels), L) = Sigma(weights(w.levels), L)
            /\ Sigma(lens(d.levels), L) + c \div 2 = Sigma(lens(w.levels), L)
            /\ Sigma(lens(d.levels), h + 1) = Sigma(lens(w.levels), h) + (c % 2)
<1>. DEFINE new == compact(w, h, mustSort).levels
            old == w.levels
            c == Len(w.levels[h + 1])
            a == Len(w.levels[h + 2])
            L == Len(w.levels)
<1>1. /\ Lists(new) /\ Len(new) = L /\ Len(new[h + 1]) = c % 2
      /\ Len(new[h + 2]) = a + c \div 2
      /\ \A i \in 1..L : i # h + 1 /\ i # h + 2 => new[i] = old[i]
  BY CompactIs
<1>2. L \in Nat /\ h + 1 \in 1..L /\ h + 2 \in 1..L /\ h + 1 # h + 2
  <2>1. L \in Nat
    BY ListIs DEF Lists
  <2>. QED BY <2>1
<1>0. Lists(old) /\ Len(old) = L /\ L <= n + 1 /\ Len(old[h + 1]) = c /\ Len(old[h + 2]) = a
  OBVIOUS
<1>. HIDE DEF new, L, old, c, a
<1>3. /\ Naturals(lens(old), L) /\ Naturals(lens(new), L)
      /\ lens(old)[h + 1] = c /\ lens(old)[h + 2] = a /\ c \in Nat /\ a \in Nat
      /\ lens(new)[h + 1] = c % 2 /\ lens(new)[h + 2] = a + c \div 2
  BY <1>0, <1>1, <1>2, LevelLengths
<1>4. \A i \in 1..L : i # h + 1 /\ i # h + 2 => lens(old)[i] = lens(new)[i]
  BY <1>0, <1>1 DEF lens
<1>5. /\ Naturals(weights(old), L) /\ Naturals(weights(new), L)
      /\ weights(old)[h + 1] = TwoTo(h) * c /\ weights(old)[h + 2] = TwoTo(h + 1) * a
      /\ weights(new)[h + 1] = TwoTo(h) * (c % 2)
      /\ weights(new)[h + 2] = TwoTo(h + 1) * (a + c \div 2)
  <2>1. (h + 1) - 1 = h /\ (h + 2) - 1 = h + 1
    OBVIOUS
  <2>2. /\ Naturals(weights(old), L) /\ Naturals(weights(new), L)
        /\ weights(old)[h + 1] = TwoTo((h + 1) - 1) * c
        /\ weights(old)[h + 2] = TwoTo((h + 2) - 1) * a
        /\ weights(new)[h + 1] = TwoTo((h + 1) - 1) * Len(new[h + 1])
        /\ weights(new)[h + 2] = TwoTo((h + 2) - 1) * Len(new[h + 2])
    BY <1>0, <1>1, <1>2, WeightsType
  <2>. QED BY <1>1, <2>1, <2>2
<1>6. \A i \in 1..L : i # h + 1 /\ i # h + 2 => weights(old)[i] = weights(new)[i]
  BY <1>0, <1>1 DEF weights
<1>7. TwoTo(h + 1) = 2 * TwoTo(h) /\ TwoTo(h) \in Nat
  <2>1. h \in 0..n
    BY <1>0, <1>2
  <2>. QED BY <2>1 DEF Powers, Power
<1>8. /\ c \div 2 \in Nat /\ c % 2 \in Nat
      /\ c = (c \div 2) + (c \div 2) + (c % 2)
  BY <1>3
<1>9. Sigma(weights(new), L) = Sigma(weights(old), L)
  <2>1. Sigma(weights(new), L) + weights(old)[h + 1] + weights(old)[h + 2]
          = Sigma(weights(old), L) + weights(new)[h + 1] + weights(new)[h + 2]
    BY <1>2, <1>5, <1>6, SigmaAtTwo
  <2>2. weights(old)[h + 1] + weights(old)[h + 2] = weights(new)[h + 1] + weights(new)[h + 2]
    <3>1. TwoTo(h) * c + (2 * TwoTo(h)) * a
            = TwoTo(h) * (c % 2) + (2 * TwoTo(h)) * (a + c \div 2)
      BY <1>3, <1>7, HalfOfDoubleWeight
    <3>. QED BY <1>5, <1>7, <3>1
  <2>3. /\ Sigma(weights(new), L) \in Nat /\ Sigma(weights(old), L) \in Nat
        /\ weights(old)[h + 1] \in Nat /\ weights(old)[h + 2] \in Nat
        /\ weights(new)[h + 1] \in Nat /\ weights(new)[h + 2] \in Nat
    BY <1>2, <1>5, SigmaType DEF Naturals
  <2>. DEFINE A == Sigma(weights(new), L)
              B == Sigma(weights(old), L)
              x == weights(old)[h + 1]
              y == weights(old)[h + 2]
              u == weights(new)[h + 1]
              v == weights(new)[h + 2]
  <2>4. A = B
    <3>1. A + x + y = B + u + v /\ x + y = u + v
      BY <2>1, <2>2
    <3>2. A \in Nat /\ B \in Nat /\ x \in Nat /\ y \in Nat /\ u \in Nat /\ v \in Nat
      BY <2>3
    <3>. HIDE DEF A, B, x, y, u, v
    <3>. QED BY <3>1, <3>2
  <2>. QED BY <2>4
<1>10. Sigma(lens(new), L) + c \div 2 = Sigma(lens(old), L)
  <2>1. Naturals(lens(old), L) /\ Naturals(lens(new), L)
    BY <1>3
  <2>2. Sigma(lens(new), L) + lens(old)[h + 1] + lens(old)[h + 2]
          = Sigma(lens(old), L) + lens(new)[h + 1] + lens(new)[h + 2]
    BY <1>2, <1>4, <2>1, SigmaAtTwo
  <2>3. Sigma(lens(new), L) \in Nat /\ Sigma(lens(old), L) \in Nat
    BY <1>2, <1>3, SigmaType
  <2>4. Sigma(lens(new), L) + c + a = Sigma(lens(old), L) + (c % 2) + (a + c \div 2)
    BY <1>3, <2>2
  <2>5. c + a = (c % 2) + (a + c \div 2) + c \div 2
    BY <1>3, <1>8
  <2>6. a + c \div 2 \in Nat
    BY <1>3, <1>8
  <2>. DEFINE A == Sigma(lens(new), L)
              B == Sigma(lens(old), L)
              d == c \div 2
              r == c % 2
              s == a + c \div 2
  <2>7. A + d = B
    <3>1. /\ A \in Nat /\ B \in Nat /\ c \in Nat /\ a \in Nat
          /\ r \in Nat /\ s \in Nat /\ d \in Nat
      BY <1>3, <1>8, <2>3, <2>6
    <3>2. A + c + a = B + r + s /\ c + a = r + s + d
      BY <2>4, <2>5
    <3>. HIDE DEF A, B, d, r, s
    <3>. QED BY <3>1, <3>2, Balance
  <2>. QED BY <2>7
<1>11. Sigma(lens(new), h + 1) = Sigma(lens(old), h) + (c % 2)
  <2>1. \A i \in 1..h : lens(new)[i] = lens(old)[i]
    <3>1. \A i \in 1..h : i \in 1..L /\ i # h + 1 /\ i # h + 2
      BY <1>2
    <3>. QED BY <1>4, <3>1
  <2>2. Sigma(lens(new), h) = Sigma(lens(old), h)
    BY <2>1, SigmaSame
  <2>. QED BY <1>3, <2>2, SigmaUnfolds
<1>. QED BY <1>9, <1>10, <1>11 DEF new, c, L, old

-----------------------------------------------------------------------------
(* The levels of a sketch of n items. *)

Stack(levels, n) ==
  /\ Lists(levels) /\ Len(levels) \in 1..n + 1
  /\ Len(levels) > 1 => Len(levels[Len(levels)]) # 0
  /\ Sigma(weights(levels), Len(levels)) = n

Held(levels) == Sigma(lens(levels), Len(levels))

\* There are few levels, for which there are powers.
LEMMA StackIsLow ==
  ASSUME NEW levels, NEW n \in Nat, n # 0, Stack(levels, n), Powers(n + 1)
  PROVE  /\ Len(levels) \in 1..n /\ Len(levels) <= ub_on_num_levels(n)
         /\ ub_on_num_levels(n) \in Nat
<1>1. /\ Lists(levels) /\ Len(levels) \in 1..n + 2
      /\ Len(levels) > 1 => Len(levels[Len(levels)]) # 0
      /\ Sigma(weights(levels), Len(levels)) <= n
  BY DEF Stack
<1>2. /\ Len(levels) <= n /\ Len(levels) <= ub_on_num_levels(n)
      /\ ub_on_num_levels(n) \in Nat
  BY <1>1, FewLevels
<1>. QED BY <1>1, <1>2

\* No more items are held than went in.
LEMMA HeldIsLess ==
  ASSUME NEW levels, NEW n \in Nat, Stack(levels, n), Powers(n + 1)
  PROVE  Held(levels) \in Nat /\ Held(levels) <= n
<1>. DEFINE L == Len(levels)
            f == lens(levels)
            g == weights(levels)
<1>1. /\ L \in Nat /\ Naturals(f, L) /\ Naturals(g, L)
      /\ \A h \in 1..L : g[h] = TwoTo(h - 1) * f[h] /\ TwoTo(h - 1) \in Nat \ {0} /\ f[h] \in Nat
  <2>1. Lists(levels) /\ n + 1 \in Nat /\ Len(levels) <= (n + 1) + 1
    BY DEF Stack
  <2>2. /\ Naturals(g, L) /\ L \in Nat
        /\ \A h \in 1..L : g[h] = TwoTo(h - 1) * Len(levels[h]) /\ TwoTo(h - 1) \in Nat \ {0}
    BY <2>1, WeightsType
  <2>3. Naturals(f, L) /\ \A h \in 1..L : f[h] = Len(levels[h]) /\ f[h] \in Nat
    BY <2>1, LevelLengths
  <2>. HIDE DEF f, g, L
  <2>. QED BY <2>2, <2>3
<1>. HIDE DEF L, f, g
<1>2. \A a \in Nat \ {0} : \A b \in Nat : b <= a * b
  OBVIOUS
<1>3. \A h \in 1..L : f[h] + 0 <= g[h]
  BY <1>1, <1>2
<1>4. Sigma(f, L) <= Sigma(g, L) /\ Sigma(f, L) \in Nat
  <2>1. Sigma(f, L) + (IF 0 = 1 THEN L ELSE 0) <= Sigma(g, L)
    BY <1>1, <1>3, SigmaLarger
  <2>2. Sigma(f, L) \in Nat
    BY <1>1, SigmaType
  <2>. QED BY <2>1, <2>2
<1>. QED BY <1>4 DEF Stack, Held, L, f, g

\* A new empty level at the top changes no sum.
LEMMA GrownIs ==
  ASSUME NEW levels, Lists(levels), NEW n \in Nat, Powers(n), Len(levels) + 1 <= n + 1
  PROVE  LET up == Append(levels, <<>>)
             L == Len(levels)
         IN /\ Lists(up) /\ Len(up) = L + 1 /\ Len(up[L + 1]) = 0
            /\ \A i \in 1..L : up[i] = levels[i]
            /\ Sigma(weights(up), L + 1) = Sigma(weights(levels), L)
            /\ Sigma(lens(up), L + 1) = Sigma(lens(levels), L)
            /\ \A m \in 0..L : Sigma(lens(up), m) = Sigma(lens(levels), m)
<1>. DEFINE up == Append(levels, <<>>)
            L == Len(levels)
<1>1. L \in Nat /\ Lists(levels) /\ L + 1 <= n + 1
  BY LevelLengths
<1>2. List(up) /\ Len(up) = L + 1 /\ up[L + 1] = <<>> /\ \A i \in 1..L : up[i] = levels[i]
  BY ListAppend DEF Lists
<1>. HIDE DEF up
<1>3. List(<<>>) /\ Len(<<>>) = 0
  <2>1. <<>> \in Seq({})
    OBVIOUS
  <2>. QED BY <2>1 DEF List
<1>4. Lists(up) /\ Len(up[L + 1]) = 0
  <2>1. \A i \in 1..L : List(levels[i])
    BY DEF Lists
  <2>. HIDE DEF L
  <2>2. \A i \in 1..L + 1 : List(up[i])
    BY <1>1, <1>2, <1>3, <2>1
  <2>. QED BY <1>2, <1>3, <2>2 DEF Lists
<1>5. /\ \A i \in 1..L : weights(up)[i] = weights(levels)[i]
      /\ \A i \in 1..L : lens(up)[i] = lens(levels)[i]
      /\ lens(up)[L + 1] = 0
  <2>1. L + 1 \in 1..L + 1 /\ \A i \in 1..L : i \in 1..L + 1
    BY <1>1
  <2>. QED BY <1>2, <1>4, <2>1 DEF weights, lens
<1>6. weights(up)[L + 1] = 0
  <2>1. weights(up)[L + 1] = TwoTo(L) * 0 /\ TwoTo(L) \in Nat
    <3>1. L + 1 \in 1..L + 1 /\ (L + 1) - 1 = L
      BY <1>1
    <3>. QED BY <1>1, <1>2, <1>4, <3>1, WeightsType
  <2>. QED BY <2>1
<1>7. \A m \in 0..L : Sigma(lens(up), m) = Sigma(lens(levels), m)
  <2>1. ASSUME NEW m \in 0..L PROVE Sigma(lens(up), m) = Sigma(lens(levels), m)
    <3>1. \A i \in 1..m : lens(up)[i] = lens(levels)[i]
      <4>1. \A i \in 1..m : i \in 1..L
        BY <1>1
      <4>. QED BY <1>5, <4>1
    <3>. QED BY <1>1, <3>1, SigmaSame
  <2>. QED BY <2>1
<1>8. Sigma(lens(up), L + 1) = Sigma(lens(levels), L)
  <2>1. Sigma(lens(up), L) = Sigma(lens(levels), L) /\ Sigma(lens(levels), L) \in Nat
    BY <1>1, <1>7, LevelLengths, SigmaType
  <2>. QED BY <1>1, <1>5, <2>1, SigmaUnfolds
<1>9. Sigma(weights(up), L + 1) = Sigma(weights(levels), L)
  <2>1. Sigma(weights(up), L) = Sigma(weights(levels), L)
    BY <1>1, <1>5, SigmaSame
  <2>2. Sigma(weights(levels), L) \in Nat
    <3>1. L <= n + 1
      BY <1>1
    <3>. QED BY <1>1, <3>1, WeightsType, SigmaType
  <2>. QED BY <1>1, <1>6, <2>1, <2>2, SigmaUnfolds
<1>. QED BY <1>2, <1>4, <1>7, <1>8, <1>9 DEF up

\* The levels among which level h is compacted, with a new one if h is the top.
GrownLevels(levels, h) ==
  IF h = Len(levels) - 1 THEN Append(levels, <<>>) ELSE levels

\* What the compaction of level h makes of w is d.
CompactedTo(levels, n, h, w, d) ==
  LET c == Len(levels[h + 1])
  IN /\ OtherwiseSame(d, w) /\ Stack(d.levels, n)
     /\ Len(d.levels) = IF h = Len(levels) - 1 THEN Len(levels) + 1 ELSE Len(levels)
     /\ Held(d.levels) + c \div 2 = Held(levels) /\ c \div 2 \in Nat \ {0}
     /\ Sigma(lens(d.levels), h + 1) = Sigma(lens(levels), h) + (c % 2)

\* A compaction of a level of two items at least.
LEMMA Compacted ==
  ASSUME NEW levels, NEW n \in Nat, n # 0, Stack(levels, n), Powers(n + 1),
         NEW h \in 0..Len(levels) - 1, Len(levels[h + 1]) >= 2,
         NEW w, Compactable(w), NEW mustSort, w.levels = GrownLevels(levels, h)
  PROVE  CompactedTo(levels, n, h, w, compact(w, h, mustSort))
<1>0. w.levels = IF h = Len(levels) - 1 THEN Append(levels, <<>>) ELSE levels
  BY DEF GrownLevels
<1>. DEFINE d == compact(w, h, mustSort)
            new == d.levels
            L == Len(levels)
            K == Len(w.levels)
            c == Len(levels[h + 1])
<1>1. /\ Lists(levels) /\ L \in Nat /\ L \in 1..n /\ h \in Nat /\ h + 1 \in 1..L
      /\ (L > 1 => Len(levels[L]) # 0)
      /\ Sigma(weights(levels), L) = n
  <2>1. L \in 1..n
    BY StackIsLow
  <2>2. h \in Nat /\ h + 1 \in 1..L
    OBVIOUS
  <2>. QED BY <2>1, <2>2 DEF Stack
<1>2. c \in Nat /\ c \div 2 \in Nat \ {0} /\ c % 2 \in Nat
  <2>1. c \in Nat /\ c >= 2
    BY <1>1, LevelLengths
  <2>. HIDE DEF c
  <2>. QED BY <2>1
<1>3. /\ Lists(w.levels) /\ K = IF h = L - 1 THEN L + 1 ELSE L
      /\ \A i \in 1..L : w.levels[i] = levels[i]
      /\ h = L - 1 => Len(w.levels[L + 1]) = 0
      /\ Sigma(weights(w.levels), K) = n
      /\ Sigma(lens(w.levels), K) = Sigma(lens(levels), L)
      /\ Sigma(lens(w.levels), h) = Sigma(lens(levels), h)
  <2>1. CASE h = L - 1
    <3>1. w.levels = Append(levels, <<>>)
      BY <1>0, <2>1
    <3>2. L + 1 <= (n + 1) + 1 /\ n + 1 \in Nat /\ h \in 0..L
      BY <1>1
    <3>. HIDE DEF L
    <3>. QED BY <1>1, <2>1, <3>1, <3>2, GrownIs DEF L
  <2>2. CASE h # L - 1
    <3>1. w.levels = levels
      BY <1>0, <2>2
    <3>. QED BY <1>1, <2>2, <3>1
  <2>. QED BY <2>1, <2>2
<1>. HIDE DEF K, L
<1>4. h + 2 <= K /\ K <= (n + 1) + 1 /\ K \in 1..n + 1 /\ L <= K /\ h + 2 \in 1..K
  <2>1. h <= L - 1
    BY <1>1
  <2>. QED BY <1>1, <1>3, <2>1
<1>5. Len(w.levels[h + 1]) = c
  BY <1>1, <1>3
<1>. HIDE DEF c
<1>6. /\ OtherwiseSame(d, w) /\ Lists(new) /\ Len(new) = K
      /\ Len(new[h + 2]) = Len(w.levels[h + 2]) + c \div 2
      /\ \A i \in 1..K : i # h + 1 /\ i # h + 2 => new[i] = w.levels[i]
  <2>1. Lists(w.levels) /\ h \in Nat /\ h + 2 <= Len(w.levels)
    BY <1>1, <1>3, <1>4 DEF K
  <2>2. /\ OtherwiseSame(d, w) /\ Lists(new) /\ Len(new) = Len(w.levels)
        /\ Len(new[h + 2]) = Len(w.levels[h + 2]) + Len(w.levels[h + 1]) \div 2
        /\ \A i \in 1..Len(w.levels) : i # h + 1 /\ i # h + 2 => new[i] = w.levels[i]
    BY <2>1, CompactIs
  <2>. HIDE DEF new
  <2>. QED BY <1>5, <2>2 DEF K
<1>7. /\ Sigma(weights(new), K) = Sigma(weights(w.levels), K)
      /\ Sigma(lens(new), K) + c \div 2 = Sigma(lens(w.levels), K)
      /\ Sigma(lens(new), h + 1) = Sigma(lens(w.levels), h) + (c % 2)
  <2>1. n + 1 \in Nat
    OBVIOUS
  <2>. QED BY <1>1, <1>3, <1>4, <1>5, <2>1, CompactKeeps DEF K
<1>. HIDE DEF d, new
<1>8. Len(new[K]) # 0
  <2>1. CASE K = h + 2
    <3>1. Len(w.levels[h + 2]) \in Nat
      BY <1>3, <1>4, LevelLengths DEF K
    <3>2. Len(new[h + 2]) # 0
      <4>1. \A x \in Nat : \A y \in Nat \ {0} : x + y # 0
        OBVIOUS
      <4>2. Len(new[h + 2]) = Len(w.levels[h + 2]) + c \div 2
        BY <1>6
      <4>. QED BY <1>2, <3>1, <4>1, <4>2
    <3>. QED BY <2>1, <3>2
  <2>2. CASE K # h + 2
    <3>1. K = L /\ h # L - 1 /\ K > 1 /\ K # h + 1
      BY <1>1, <1>3, <1>4, <2>2
    <3>2. K \in 1..K /\ K \in 1..L
      BY <1>4, <3>1
    <3>3. new[K] = w.levels[K]
      BY <1>6, <2>2, <3>1, <3>2
    <3>4. w.levels[K] = levels[K]
      BY <1>3, <3>2
    <3>. QED BY <1>1, <3>1, <3>3, <3>4
  <2>. QED BY <2>1, <2>2
<1>9. Stack(new, n)
  BY <1>3, <1>4, <1>6, <1>7, <1>8 DEF Stack
<1>10. Held(new) + c \div 2 = Held(levels)
  BY <1>3, <1>6, <1>7 DEF Held, L
<1>. QED BY <1>2, <1>3, <1>6, <1>7, <1>9, <1>10 DEF CompactedTo, d, c, L, new

-----------------------------------------------------------------------------
(* general_compress.  Where it is through with the levels below cur, either there
   is room or these levels hold no more than their capacities. *)

Compressed(k, n, i, s) ==
  /\ DOMAIN s = {"levels", "coins", "err", "cur", "target"}
  /\ Stack(s.levels, n)
  /\ s.target = compute_total_capacity(k, Len(s.levels))
  /\ s.cur \in 0..Len(s.levels) /\ (s.cur = i \/ s.cur = Len(s.levels))
  /\ \/ Held(s.levels) < s.target
     \/ Sigma(lens(s.levels), s.cur) <= Sigma(caps(k, Len(s.levels)), s.cur)

\* A level is left alone.
LEMMA LevelIsLeft ==
  ASSUME NEW k \in Nat, NEW n \in Nat, n # 0, Powers(n + 1), NEW i \in Nat,
         NEW s, Compressed(k, n, i, s), s.cur # Len(s.levels),
         \/ Held(s.levels) < s.target
         \/ Len(s.levels[s.cur + 1]) < level_capacity(k, Len(s.levels), s.cur)
  PROVE  Compressed(k, n, i + 1, [s EXCEPT !.cur = @ + 1])
<1>. DEFINE d == [s EXCEPT !.cur = @ + 1]
            L == Len(s.levels)
            h == s.cur
<1>1. /\ DOMAIN s = {"levels", "coins", "err", "cur", "target"} /\ Stack(s.levels, n)
      /\ s.target = compute_total_capacity(k, L) /\ h \in 0..L /\ h # L /\ h = i
  BY DEF Compressed
<1>2. L \in 1..n /\ L \in Nat
  BY <1>1, StackIsLow
<1>3. /\ DOMAIN d = {"levels", "coins", "err", "cur", "target"} /\ d.levels = s.levels
      /\ d.target = s.target /\ d.cur = h + 1
  BY <1>1
<1>. HIDE DEF d
<1>4. d.cur \in 0..L /\ d.cur = i + 1
  <2>. HIDE DEF L, h
  <2>. QED BY <1>1, <1>2, <1>3
<1>5. \/ Held(s.levels) < s.target
      \/ Sigma(lens(s.levels), h + 1) <= Sigma(caps(k, L), h + 1)
  <2>1. CASE Held(s.levels) < s.target
    BY <2>1
  <2>2. CASE ~ (Held(s.levels) < s.target)
    <3>. DEFINE A == Sigma(lens(s.levels), h)
                B == Sigma(caps(k, L), h)
                x == lens(s.levels)[h + 1]
                y == caps(k, L)[h + 1]
    <3>1. A <= B
      BY <2>2 DEF Compressed
    <3>2. /\ Naturals(lens(s.levels), L) /\ Naturals(caps(k, L), L)
          /\ \A a \in 1..L : lens(s.levels)[a] = Len(s.levels[a])
      <4>1. Lists(s.levels)
        BY <1>1 DEF Stack
      <4>2. Powers(L + 1)
        BY <1>2 DEF Powers
      <4>. QED BY <1>2, <4>1, <4>2, LevelLengths, CapacityMoves
    <3>3. h + 1 \in 1..L /\ h \in Nat /\ \A a \in 1..h : a \in 1..L
      <4>. HIDE DEF L, h
      <4>. QED BY <1>1, <1>2
    <3>4. Naturals(lens(s.levels), h) /\ Naturals(caps(k, L), h)
      BY <3>2, <3>3 DEF Naturals
    <3>5. A \in Nat /\ B \in Nat /\ x \in Nat /\ y \in Nat
      BY <3>2, <3>3, <3>4, SigmaType DEF Naturals
    <3>6. x < y
      <4>1. x = Len(s.levels[h + 1])
        BY <3>2, <3>3
      <4>2. y = level_capacity(k, L, (h + 1) - 1) /\ (h + 1) - 1 = h
        BY <3>3 DEF caps
      <4>. QED BY <2>2, <4>1, <4>2
    <3>7. Sigma(lens(s.levels), h + 1) = A + x /\ Sigma(caps(k, L), h + 1) = B + y
      BY <3>3, SigmaUnfolds
    <3>. HIDE DEF A, B, x, y
    <3>. QED BY <3>1, <3>5, <3>6, <3>7
  <2>. QED BY <2>1, <2>2
<1>. QED BY <1>1, <1>3, <1>4, <1>5 DEF Compressed

\* A level is compacted.
LEMMA LevelIsCompacted ==
  ASSUME NEW k \in Nat, NEW n \in Nat, n # 0, Powers(n + 1), NEW i \in Nat, NEW b,
         NEW s, Compressed(k, n, i, s), s.cur # Len(s.levels),
         ~ (Held(s.levels) < s.target),
         ~ (Len(s.levels[s.cur + 1]) < level_capacity(k, Len(s.levels), s.cur))
  PROVE  Compressed(k, n, i + 1, compressLevel(s, k, b))
<1>. DEFINE L == Len(s.levels)
            h == s.cur
            isTop == h = L - 1
            grown == IF isTop THEN [s EXCEPT !.levels = Append(@, <<>>)] ELSE s
            mustSort == h = 0 /\ ~ b
            done == compact(grown, h, mustSort)
            d == [done EXCEPT !.cur = @ + 1,
                              !.target = @ + IF isTop THEN level_capacity(k, L + 1, 0) ELSE 0]
            c == Len(s.levels[h + 1])
            K == Len(done.levels)
<1>1. /\ DOMAIN s = {"levels", "coins", "err", "cur", "target"} /\ Stack(s.levels, n)
      /\ s.target = compute_total_capacity(k, L) /\ h \in 0..L /\ h # L /\ h = i
      /\ Sigma(lens(s.levels), h) <= Sigma(caps(k, L), h)
  BY DEF Compressed
<1>2. L \in 1..n /\ L \in Nat /\ Lists(s.levels)
  BY <1>1, StackIsLow DEF Stack
<1>3. h \in 0..L - 1 /\ h + 1 \in 1..L /\ h \in Nat
  <2>. HIDE DEF L, h
  <2>. QED BY <1>1, <1>2
<1>4. retained(s.levels) = Held(s.levels)
  BY <1>2, RetainedIsSum DEF Lists, Held
<1>5. compressLevel(s, k, b) = d
  BY <1>4 DEF compressLevel
<1>6. c >= 2 /\ c \in Nat
  <2>1. Powers(L)
    BY <1>2 DEF Powers
  <2>2. level_capacity(k, L, h) \in Nat /\ level_capacity(k, L, h) >= 2
    BY <1>2, <1>3, <2>1, CapacityType
  <2>3. c \in Nat
    BY <1>2, <1>3, LevelLengths
  <2>4. ~ (c < level_capacity(k, L, h))
    OBVIOUS
  <2>. HIDE DEF c
  <2>. QED BY <2>2, <2>3, <2>4
<1>7. /\ DOMAIN grown = DOMAIN s /\ Compactable(grown)
      /\ grown.levels = GrownLevels(s.levels, h)
      /\ grown.cur = h /\ grown.target = s.target
  BY <1>1 DEF Compactable, GrownLevels
<1>. HIDE DEF grown, mustSort
<1>8. /\ OtherwiseSame(done, grown) /\ Stack(done.levels, n)
      /\ K = IF h = L - 1 THEN L + 1 ELSE L
      /\ Sigma(lens(done.levels), h + 1) = Sigma(lens(s.levels), h) + (c % 2)
  <2>1. /\ Stack(s.levels, n) /\ h \in 0..Len(s.levels) - 1 /\ Len(s.levels[h + 1]) >= 2
        /\ Compactable(grown) /\ grown.levels = GrownLevels(s.levels, h)
    BY <1>1, <1>3, <1>6, <1>7
  <2>2. CompactedTo(s.levels, n, h, grown, done)
    <3>. HIDE DEF h
    <3>. QED BY <2>1, Compacted
  <2>. HIDE DEF done
  <2>. QED BY <2>2 DEF CompactedTo
<1>9. /\ DOMAIN done = {"levels", "coins", "err", "cur", "target"}
      /\ done.cur = h /\ done.target = s.target
  BY <1>1, <1>7, <1>8 DEF OtherwiseSame
<1>. HIDE DEF done
<1>10. /\ DOMAIN d = {"levels", "coins", "err", "cur", "target"} /\ d.levels = done.levels
       /\ d.cur = h + 1
       /\ d.target = s.target + IF isTop THEN level_capacity(k, L + 1, 0) ELSE 0
  BY <1>9
<1>. HIDE DEF d
<1>11. d.cur \in 0..K /\ d.cur = i + 1
  <2>. HIDE DEF L, h, K
  <2>. QED BY <1>1, <1>2, <1>3, <1>8, <1>10
<1>12. /\ Powers(L + 1) /\ level_capacity(k, L + 1, 0) \in Nat /\ level_capacity(k, L + 1, 0) >= 2
       /\ level_capacity(k, L, h) \in Nat /\ level_capacity(k, L, h) >= 2
       /\ compute_total_capacity(k, L) \in Nat
       /\ compute_total_capacity(k, L + 1) = level_capacity(k, L + 1, 0) + compute_total_capacity(k, L)
       /\ Sigma(caps(k, L + 1), h + 1) = level_capacity(k, L + 1, 0) + Sigma(caps(k, L), h)
  <2>1. Powers(L + 1) /\ Powers(L)
    BY <1>2 DEF Powers
  <2>2. 0 \in 0..(L + 1) - 1 /\ L + 1 \in Nat /\ h \in 0..L
    <3>. HIDE DEF L, h
    <3>. QED BY <1>2, <1>3
  <2>3. level_capacity(k, L + 1, 0) \in Nat /\ level_capacity(k, L + 1, 0) >= 2
    BY <2>1, <2>2, CapacityType
  <2>4. level_capacity(k, L, h) \in Nat /\ level_capacity(k, L, h) >= 2
    BY <1>2, <1>3, <2>1, CapacityType
  <2>. QED BY <1>2, <2>1, <2>2, <2>3, <2>4, CapacityGrows
<1>13. d.target = compute_total_capacity(k, K)
  <2>. DEFINE P == level_capacity(k, L + 1, 0)
              Q == compute_total_capacity(k, L)
              R == compute_total_capacity(k, L + 1)
  <2>1. P \in Nat /\ Q \in Nat /\ R = P + Q /\ s.target = Q
    BY <1>1, <1>12
  <2>2. CASE isTop
    <3>1. d.target = s.target + P /\ K = L + 1
      BY <1>8, <1>10, <2>2
    <3>2. d.target = R
      <4>. HIDE DEF P, Q, R
      <4>. QED BY <2>1, <3>1
    <3>. QED BY <3>1, <3>2
  <2>3. CASE ~ isTop
    <3>1. d.target = s.target + 0 /\ K = L
      BY <1>8, <1>10, <2>3
    <3>. QED BY <2>1, <3>1
  <2>. QED BY <2>2, <2>3
<1>14. Sigma(lens(d.levels), d.cur) <= Sigma(caps(k, K), d.cur)
  <2>. DEFINE A == Sigma(lens(s.levels), h)
              B == Sigma(caps(k, L), h)
  <2>1. Naturals(lens(s.levels), h) /\ Naturals(caps(k, L), h)
    <3>1. Naturals(lens(s.levels), L) /\ Naturals(caps(k, L), L)
      BY <1>2, <1>12, LevelLengths, CapacityMoves
    <3>2. \A a \in 1..h : a \in 1..L
      <4>. HIDE DEF L, h
      <4>. QED BY <1>2, <1>3
    <3>. QED BY <3>1, <3>2 DEF Naturals
  <2>2. A \in Nat /\ B \in Nat /\ A <= B
    BY <1>1, <1>3, <2>1, SigmaType
  <2>3. c % 2 \in 0..1
    <3>. HIDE DEF c
    <3>. QED BY <1>6
  <2>4. Sigma(lens(d.levels), d.cur) = A + (c % 2)
    BY <1>8, <1>10
  <2>5. CASE isTop
    <3>1. Sigma(caps(k, K), d.cur) = level_capacity(k, L + 1, 0) + B
      BY <1>8, <1>10, <1>12, <2>5
    <3>. HIDE DEF A, B, c
    <3>. QED BY <1>12, <2>2, <2>3, <2>4, <3>1
  <2>6. CASE ~ isTop
    <3>1. Sigma(caps(k, K), d.cur) = B + caps(k, L)[h + 1] /\ K = L
      BY <1>3, <1>8, <1>10, <2>6, SigmaUnfolds
    <3>2. caps(k, L)[h + 1] = level_capacity(k, L, (h + 1) - 1) /\ (h + 1) - 1 = h
      BY <1>3 DEF caps
    <3>. HIDE DEF A, B, c
    <3>. QED BY <1>12, <2>2, <2>3, <2>4, <3>1, <3>2
  <2>. QED BY <2>5, <2>6
<1>15. Compressed(k, n, i + 1, d)
  BY <1>8, <1>10, <1>11, <1>13, <1>14 DEF Compressed
<1>. QED BY <1>5, <1>15

\* What LeftKeeps asks of the fold: p has k and whether level zero is sorted, q is n.
compressing(p, q, i, s) == IF s.cur = Len(s.levels) THEN s ELSE compressLevel(s, p[1], p[2])
compressedUpTo(p, q, i, s) == Compressed(p[1], q, i, s)
Compresses == INSTANCE FoldTheorems
  WITH step <- compressing, choose <- lastOf, Good <- compressedUpTo

\* Every visit of a level preserves Compressed.
LEMMA CompressLevelKeeps ==
  ASSUME NEW k \in Nat, NEW n \in Nat, n # 0, Powers(n + 1), NEW i \in Nat, NEW b,
         NEW s, Compressed(k, n, i, s)
  PROVE  Compressed(k, n, i + 1,
                    IF s.cur = Len(s.levels) THEN s ELSE compressLevel(s, k, b))
<1>1. CASE s.cur = Len(s.levels)
  <2>1. Compressed(k, n, i + 1, s)
    BY <1>1 DEF Compressed
  <2>. QED BY <1>1, <2>1
<1>2. CASE s.cur # Len(s.levels)
  <2>1. retained(s.levels) = Held(s.levels)
    BY RetainedIsSum DEF Compressed, Stack, Lists, Held
  <2>2. CASE \/ Held(s.levels) < s.target
             \/ Len(s.levels[s.cur + 1]) < level_capacity(k, Len(s.levels), s.cur)
    <3>1. compressLevel(s, k, b) = [s EXCEPT !.cur = @ + 1]
      BY <2>1, <2>2 DEF compressLevel
    <3>2. Compressed(k, n, i + 1, [s EXCEPT !.cur = @ + 1])
      BY <1>2, <2>2, LevelIsLeft
    <3>. QED BY <1>2, <3>1, <3>2
  <2>3. CASE ~ (\/ Held(s.levels) < s.target
                \/ Len(s.levels[s.cur + 1]) < level_capacity(k, Len(s.levels), s.cur))
    <3>1. Compressed(k, n, i + 1, compressLevel(s, k, b))
      BY <1>2, <2>3, LevelIsCompacted
    <3>. QED BY <1>2, <3>1
  <2>. QED BY <2>2, <2>3
<1>. QED BY <1>1, <1>2

\* general_compress keeps the weight, and the items fit into the capacity.
LEMMA CompressIs ==
  ASSUME NEW k \in Nat, NEW n \in Nat, n # 0, Powers(n + 1), NEW b,
         NEW w, Stack(w.levels, n)
  PROVE  LET d == general_compress(w, k, b, ub_on_num_levels(n))
         IN /\ Stack(d.levels, n)
            /\ d.target = compute_total_capacity(k, Len(d.levels))
            /\ Held(d.levels) <= d.target
<1>. DEFINE ub == ub_on_num_levels(n)
            q == [i \in 1..ub |-> i]
            base == [levels |-> w.levels, coins |-> w.coins, err |-> w.err, cur |-> 0,
                     target |-> compute_total_capacity(k, Len(w.levels))]
            p == <<k, b>>
            d == general_compress(w, k, b, ub)
<1>1. ub \in Nat
  BY StackIsLow
<1>2. p[1] = k /\ p[2] = b /\ DOMAIN q = 1..ub
  OBVIOUS
<1>3. d = FoldLeft(LAMBDA s, i : IF s.cur = Len(s.levels) THEN s
                                 ELSE compressLevel(s, k, b), base, q)
  BY DEF general_compress
<1>4. Compressed(k, n, 0, base)
  <2>1. /\ DOMAIN base = {"levels", "coins", "err", "cur", "target"}
        /\ base.levels = w.levels /\ base.cur = 0
        /\ base.target = compute_total_capacity(k, Len(w.levels))
    OBVIOUS
  <2>. HIDE DEF base
  <2>2. Len(w.levels) \in Nat
    BY DEF Stack
  <2>3. Sigma(lens(w.levels), 0) <= Sigma(caps(k, Len(w.levels)), 0)
    BY SigmaUnfolds
  <2>. QED BY <2>1, <2>2, <2>3 DEF Compressed
<1>. HIDE DEF p, q, base, d
<1>5. d = Compresses!Left(p, n, base, ub)
  <2>. HIDE DEF ub
  <2>. QED BY <1>2, <1>3 DEF FoldLeft, MapThenFoldSet, Max, Compresses!Left, Compresses!Fold,
              Compresses!MapThenFoldSet, compressing, lastOf
<1>. HIDE DEF ub
<1>6. Compresses!ChoosesLast
  BY DEF Compresses!ChoosesLast, lastOf
<1>7. Compresses!Preserves(p, n, ub)
  <2>1. ASSUME NEW i \in 1..ub, NEW s, compressedUpTo(p, n, i - 1, s)
        PROVE  compressedUpTo(p, n, i, compressing(p, n, i, s))
    <3>1. Compressed(k, n, i - 1, s) /\ i - 1 \in Nat /\ (i - 1) + 1 = i
      BY <1>1, <1>2, <2>1 DEF compressedUpTo
    <3>2. Compressed(k, n, (i - 1) + 1, IF s.cur = Len(s.levels) THEN s ELSE compressLevel(s, k, b))
      BY <3>1, CompressLevelKeeps
    <3>. QED BY <1>2, <3>1, <3>2 DEF compressedUpTo, compressing
  <2>. QED BY <2>1 DEF Compresses!Preserves
<1>8. compressedUpTo(p, n, 0, base)
  BY <1>2, <1>4 DEF compressedUpTo
<1>9. compressedUpTo(p, n, ub, d)
  BY <1>1, <1>5, <1>6, <1>7, <1>8, Compresses!LeftKeeps
<1>. DEFINE L == Len(d.levels)
<1>10. /\ Stack(d.levels, n) /\ d.target = compute_total_capacity(k, L)
       /\ d.cur \in 0..L /\ (d.cur = ub \/ d.cur = L)
       /\ \/ Held(d.levels) < d.target
          \/ Sigma(lens(d.levels), d.cur) <= Sigma(caps(k, L), d.cur)
  BY <1>2, <1>9 DEF compressedUpTo, Compressed
<1>11. L \in 1..n /\ L <= ub
  BY <1>10, StackIsLow DEF ub
<1>12. d.cur = L
  <2>. HIDE DEF L
  <2>. QED BY <1>1, <1>10, <1>11
<1>13. d.target = Sigma(caps(k, L), L) /\ Held(d.levels) = Sigma(lens(d.levels), L)
       /\ Held(d.levels) \in Nat /\ d.target \in Nat
  <2>1. Powers(L + 1) /\ L \in Nat
    BY <1>11 DEF Powers
  <2>2. compute_total_capacity(k, L) = Sigma(caps(k, L), L) /\ compute_total_capacity(k, L) \in Nat
    BY <2>1, CapacityIsSum, CapacityGrows
  <2>. QED BY <1>10, <2>2, HeldIsLess DEF Held
<1>14. Held(d.levels) <= d.target
  BY <1>10, <1>12, <1>13
<1>. QED BY <1>10, <1>14 DEF d, ub

-----------------------------------------------------------------------------
(* A sketch, and what the operations on it do. *)

SketchFields ==
  {"k", "minK", "n", "levels", "itemsSize", "min", "max", "isLevelZeroSorted", "err", "coins"}

Sound(s, most) ==
  /\ DOMAIN s = SketchFields
  /\ s.k \in Nat /\ s.k >= M
  /\ s.n \in 0..most
  /\ Stack(s.levels, s.n)
  /\ s.itemsSize = compute_total_capacity(s.k, Len(s.levels))
  /\ Held(s.levels) <= s.itemsSize

\* It is sound whatever the other fields are.
LEMMA SoundIsAboutFour ==
  ASSUME NEW most, NEW s, Sound(s, most), NEW d, DOMAIN d = SketchFields,
         d.k = s.k, d.n = s.n, d.levels = s.levels, d.itemsSize = s.itemsSize
  PROVE  Sound(d, most)
BY DEF Sound

\* The same numbers of items in the same levels.
LEMMA StackIsAboutLengths ==
  ASSUME NEW old, NEW new, NEW n, Stack(old, n), Lists(new), Len(new) = Len(old),
         \A h \in 1..Len(old) : Len(new[h]) = Len(old[h])
  PROVE  Stack(new, n) /\ Held(new) = Held(old)
<1>1. weights(new) = weights(old) /\ lens(new) = lens(old)
  BY DEF weights, lens
<1>2. Len(old) \in 1..n + 1 => Len(old) \in 1..Len(old)
  OBVIOUS
<1>. QED BY <1>1, <1>2 DEF Stack, Held

\* What is known of the capacity and the items of a sound sketch.
LEMMA SoundIs ==
  ASSUME NEW most \in Nat, Powers(most + 1), NEW s, Sound(s, most)
  PROVE  /\ Lists(s.levels) /\ s.n \in Nat /\ Powers(s.n + 1)
         /\ Len(s.levels) \in 1..s.n + 1
         /\ retained(s.levels) = Held(s.levels) /\ Held(s.levels) \in Nat
         /\ Held(s.levels) <= s.n /\ s.itemsSize \in Nat
         /\ s.itemsSize = Sigma(caps(s.k, Len(s.levels)), Len(s.levels))
         /\ Naturals(caps(s.k, Len(s.levels)), Len(s.levels))
         /\ \A h \in 0..Len(s.levels) - 1 :
              /\ level_capacity(s.k, Len(s.levels), h) \in Nat
              /\ level_capacity(s.k, Len(s.levels), h) >= 2
<1>1. /\ Lists(s.levels) /\ s.n \in Nat /\ s.n <= most /\ Len(s.levels) \in 1..s.n + 1
      /\ s.k \in Nat /\ Stack(s.levels, s.n)
      /\ s.itemsSize = compute_total_capacity(s.k, Len(s.levels))
  BY DEF Sound, Stack
<1>2. Powers(s.n + 1)
  BY <1>1 DEF Powers
<1>3. retained(s.levels) = Held(s.levels)
  BY <1>1, RetainedIsSum DEF Lists, Held
<1>4. Held(s.levels) \in Nat /\ Held(s.levels) <= s.n
  BY <1>1, <1>2, HeldIsLess
<1>. DEFINE L == Len(s.levels)
<1>5. L \in Nat /\ L >= 1
  BY <1>1
<1>6. Powers(L)
  BY <1>1, <1>2 DEF Powers
<1>7. \A h \in 0..L - 1 : level_capacity(s.k, L, h) \in Nat /\ level_capacity(s.k, L, h) >= 2
  BY <1>1, <1>5, <1>6, CapacityType
<1>8. Naturals(caps(s.k, L), L)
  <2>1. \A i \in 1..L : i - 1 \in 0..L - 1
    <3>. HIDE DEF L
    <3>. QED BY <1>5
  <2>. QED BY <1>7, <2>1 DEF Naturals, caps
<1>9. s.itemsSize = Sigma(caps(s.k, L), L) /\ s.itemsSize \in Nat
  BY <1>1, <1>5, <1>8, CapacityIsSum, SigmaType
<1>. QED BY <1>1, <1>2, <1>3, <1>4, <1>7, <1>8, <1>9

\* A sketch that is full has a level at its capacity.
LEMMA FullHasFullLevel ==
  ASSUME NEW most \in Nat, Powers(most + 1), NEW s, Sound(s, most), freeCells(s) = 0
  PROVE  \E h \in 0..Len(s.levels) - 1 :
           Len(s.levels[h + 1]) >= level_capacity(s.k, Len(s.levels), h)
<1>. DEFINE L == Len(s.levels)
            f == lens(s.levels)
            g == caps(s.k, L)
<1>1. /\ L \in Nat /\ L >= 1 /\ Naturals(f, L) /\ Naturals(g, L)
      /\ \A i \in 1..L : f[i] = Len(s.levels[i]) /\ f[i] \in Nat /\ g[i] \in Nat
      /\ Held(s.levels) = Sigma(f, L) /\ Sigma(f, L) \in Nat
      /\ s.itemsSize = Sigma(g, L) /\ Sigma(g, L) \in Nat
      /\ s.itemsSize - Held(s.levels) = 0
  BY SoundIs, LevelLengths DEF freeCells, Held, Naturals
<1>2. \A i \in 1..L : g[i] = level_capacity(s.k, L, i - 1)
  BY DEF caps
<1>. SUFFICES ASSUME \A h \in 0..L - 1 : ~ (Len(s.levels[h + 1]) >= level_capacity(s.k, L, h))
              PROVE  FALSE
  OBVIOUS
<1>3. \A i \in 1..L : f[i] + 1 <= g[i]
  <2>1. ASSUME NEW i \in 1..L PROVE f[i] + 1 <= g[i]
    <3>1. i - 1 \in 0..L - 1 /\ (i - 1) + 1 = i
      BY <1>1
    <3>2. ~ (f[i] >= g[i])
      BY <1>1, <1>2, <3>1
    <3>. QED BY <1>1, <3>2
  <2>. QED BY <2>1
<1>. HIDE DEF L, f, g
<1>4. Sigma(f, L) + (IF 1 = 1 THEN L ELSE 0) <= Sigma(g, L)
  BY <1>1, <1>3, SigmaLarger
<1>. QED BY <1>1, <1>4

\* find_level_to_compact finds it.
LEMMA FindIs ==
  ASSUME NEW most \in Nat, Powers(most + 1), NEW s, Sound(s, most), freeCells(s) = 0
  PROVE  /\ find_level_to_compact(s) \in 0..Len(s.levels) - 1
         /\ Len(s.levels[find_level_to_compact(s) + 1]) >= 2
<1>. DEFINE T == {h \in 0..Len(s.levels) - 1 :
                    Len(s.levels[h + 1]) >= level_capacity(s.k, Len(s.levels), h)}
<1>1. T # {} /\ T \subseteq Nat
  BY FullHasFullLevel
<1>2. \E x \in T : \A y \in T : x <= y
  <2>. HIDE DEF T
  <2>. QED BY <1>1, Sums!LeastElement
<1>3. find_level_to_compact(s) = CHOOSE x \in T : \A y \in T : x <= y
  BY DEF find_level_to_compact, Min
<1>4. find_level_to_compact(s) \in T
  <2>. HIDE DEF T
  <2>. QED BY <1>2, <1>3
<1>. DEFINE h == find_level_to_compact(s)
            c == Len(s.levels[h + 1])
            u == level_capacity(s.k, Len(s.levels), h)
<1>5. h \in 0..Len(s.levels) - 1 /\ c >= u
  BY <1>4
<1>. HIDE DEF h
<1>6. u \in Nat /\ u >= 2
  BY <1>5, SoundIs
<1>7. c \in Nat
  <2>1. Lists(s.levels) /\ Len(s.levels) \in Nat
    BY SoundIs
  <2>2. h + 1 \in 1..Len(s.levels)
    BY <1>5, <2>1
  <2>. QED BY <2>1, <2>2, LevelLengths
<1>8. c >= 2
  <2>. HIDE DEF c, u
  <2>. QED BY <1>5, <1>6, <1>7
<1>. QED BY <1>5, <1>8 DEF h

\* compress_while_updating makes room in a full sketch.
LEMMA CompressWhileUpdatingIs ==
  ASSUME NEW most \in Nat, Powers(most + 1), NEW s, Sound(s, most), freeCells(s) = 0
  PROVE  LET d == compress_while_updating(s)
         IN /\ Sound(d, most) /\ d.n = s.n /\ d.k = s.k /\ Held(d.levels) < d.itemsSize
<1>. DEFINE h == find_level_to_compact(s)
            L == Len(s.levels)
            isTop == h = L - 1
            grown == IF isTop THEN add_empty_top_level(s) ELSE s
            mustSort == h = 0
            d == compact(grown, h, mustSort)
            c == Len(s.levels[h + 1])
            P == level_capacity(s.k, L + 1, 0)
            Q == compute_total_capacity(s.k, L)
            R == compute_total_capacity(s.k, L + 1)
<1>1. compress_while_updating(s) = d
  BY DEF compress_while_updating
<1>2. h \in 0..L - 1 /\ c >= 2
  BY FindIs
<1>3. /\ DOMAIN s = SketchFields /\ s.k \in Nat /\ s.k >= M /\ s.n \in 0..most
      /\ Stack(s.levels, s.n) /\ s.itemsSize = Q
      /\ L \in Nat /\ L >= 1 /\ s.n \in Nat /\ Powers(s.n + 1) /\ s.itemsSize = Held(s.levels)
      /\ Held(s.levels) \in Nat
  <2>1. /\ DOMAIN s = SketchFields /\ s.k \in Nat /\ s.k >= M /\ s.n \in 0..most
        /\ Stack(s.levels, s.n) /\ s.itemsSize = Q
    BY DEF Sound
  <2>2. /\ s.n \in Nat /\ Powers(s.n + 1) /\ Held(s.levels) \in Nat
        /\ L \in Nat /\ L >= 1 /\ s.itemsSize \in Nat /\ s.itemsSize - Held(s.levels) = 0
    BY SoundIs DEF freeCells
  <2>3. s.itemsSize = Held(s.levels)
    BY <2>2
  <2>. QED BY <2>1, <2>2, <2>3
<1>4. s.n # 0
  <2>1. SUFFICES ASSUME s.n = 0 PROVE FALSE
    OBVIOUS
  <2>2. Held(s.levels) <= s.n /\ L \in 1..s.n + 1
    BY SoundIs
  <2>. HIDE DEF L
  <2>3. Held(s.levels) = 0 /\ L = 1
    BY <1>3, <2>1, <2>2
  <2>4. Powers(1)
    BY <1>3, <2>1 DEF Powers
  <2>5. Q = s.k
    BY <1>3, <2>3, <2>4, CapacityOfOne
  <2>6. s.k # 0
    <3>1. s.k \in Nat /\ s.k >= M
      BY <1>3
    <3>. QED BY <3>1, MAssumption
  <2>. HIDE DEF Q
  <2>7. Q = 0
    BY <1>3, <2>3
  <2>. QED BY <2>5, <2>6, <2>7
<1>5. L \in 1..s.n /\ Powers(L + 1)
  <2>1. L \in 1..s.n
    BY <1>3, <1>4, StackIsLow
  <2>. QED BY <1>3, <2>1 DEF Powers
<1>6. /\ DOMAIN grown = SketchFields /\ Compactable(grown)
      /\ grown.levels = GrownLevels(s.levels, h)
      /\ grown.k = s.k /\ grown.n = s.n
      /\ grown.itemsSize = IF isTop THEN s.itemsSize + P ELSE s.itemsSize
  BY <1>3 DEF SketchFields, Compactable, GrownLevels, add_empty_top_level
<1>. HIDE DEF grown, h, mustSort
<1>7. CompactedTo(s.levels, s.n, h, grown, d)
  BY <1>2, <1>3, <1>4, <1>6, Compacted
<1>. HIDE DEF d
<1>8. /\ OtherwiseSame(d, grown) /\ Stack(d.levels, s.n)
      /\ Len(d.levels) = IF isTop THEN L + 1 ELSE L
      /\ Held(d.levels) + c \div 2 = Held(s.levels) /\ c \div 2 \in Nat \ {0}
  BY <1>7 DEF CompactedTo
<1>9. /\ DOMAIN d = SketchFields /\ d.k = s.k /\ d.n = s.n
      /\ d.itemsSize = IF isTop THEN s.itemsSize + P ELSE s.itemsSize
  BY <1>6, <1>8 DEF OtherwiseSame, SketchFields
<1>10. P \in Nat /\ Q \in Nat /\ R = P + Q
  <2>1. 0 \in 0..(L + 1) - 1 /\ L + 1 \in Nat
    <3>. HIDE DEF L
    <3>. QED BY <1>3
  <2>. QED BY <1>3, <1>5, <2>1, CapacityType, CapacityGrows
<1>11. d.itemsSize = compute_total_capacity(d.k, Len(d.levels))
  <2>1. CASE isTop
    <3>1. d.itemsSize = Q + P
      BY <1>3, <1>9, <2>1
    <3>2. d.itemsSize = R
      <4>. HIDE DEF P, Q, R
      <4>. QED BY <1>10, <3>1
    <3>. QED BY <1>8, <1>9, <2>1, <3>2
  <2>2. CASE ~ isTop
    BY <1>3, <1>8, <1>9, <2>2
  <2>. QED BY <2>1, <2>2
<1>12. Held(d.levels) < d.itemsSize
  <2>1. Held(d.levels) \in Nat
    BY <1>3, <1>8, HeldIsLess
  <2>. DEFINE x == c \div 2
  <2>2. x \in Nat \ {0} /\ Held(d.levels) + x = Held(s.levels)
    BY <1>8
  <2>3. d.itemsSize >= s.itemsSize
    <3>. HIDE DEF P
    <3>. QED BY <1>3, <1>9, <1>10
  <2>. HIDE DEF x
  <2>4. Held(d.levels) < s.itemsSize
    BY <1>3, <2>1, <2>2
  <2>5. d.itemsSize \in Nat
    <3>. HIDE DEF P
    <3>. QED BY <1>3, <1>9, <1>10
  <2>. QED BY <1>3, <2>1, <2>3, <2>4, <2>5
<1>13. Held(d.levels) <= d.itemsSize
  <2>1. Held(d.levels) \in Nat /\ d.itemsSize \in Nat
    <3>1. Held(d.levels) \in Nat
      BY <1>3, <1>8, HeldIsLess
    <3>2. d.itemsSize \in Nat
      <4>. HIDE DEF P
      <4>. QED BY <1>3, <1>9, <1>10
    <3>. QED BY <3>1, <3>2
  <2>. QED BY <1>12, <2>1
<1>14. Sound(d, most)
  BY <1>3, <1>8, <1>9, <1>11, <1>13 DEF Sound
<1>. QED BY <1>1, <1>9, <1>12, <1>14

inserted(levels, v) == [levels EXCEPT ![1] = <<v>> \o @]

\* An item more at the bottom.
LEMMA InsertIs ==
  ASSUME NEW levels, NEW n \in Nat, Stack(levels, n), Powers(n + 1), NEW v
  PROVE  LET new == inserted(levels, v)
         IN Stack(new, n + 1) /\ Len(new) = Len(levels) /\ Held(new) = Held(levels) + 1
<1>. DEFINE bottom == <<v>> \o levels[1]
            new == inserted(levels, v)
            L == Len(levels)
<1>0. new = [levels EXCEPT ![1] = bottom]
  BY DEF inserted
<1>1. /\ Lists(levels) /\ L \in Nat /\ L \in 1..n + 1 /\ 1 \in 1..L /\ DOMAIN levels = 1..L
      /\ List(levels[1]) /\ Len(levels[1]) \in Nat
  <2>1. Lists(levels) /\ L \in 1..n + 1
    BY DEF Stack
  <2>2. L \in Nat /\ 1 \in 1..L
    <3>. HIDE DEF L
    <3>. QED BY <2>1
  <2>. QED BY <2>1, <2>2, ListIs DEF Lists
<1>2. List(bottom) /\ Len(bottom) = Len(levels[1]) + 1
  BY <1>1, ListPrepend
<1>. HIDE DEF bottom, new
<1>3. /\ DOMAIN new = 1..L /\ new[1] = bottom
      /\ \A i \in 1..L : i # 1 => new[i] = levels[i]
  <2>. HIDE DEF L
  <2>. QED BY <1>0, <1>1
<1>4. new = [i \in 1..L |-> new[i]]
  <2>. HIDE DEF L
  <2>. QED BY <1>0, <1>1
<1>5. List(new) /\ Len(new) = L
  <2>. HIDE DEF L
  <2>. QED BY <1>1, <1>4, ListOfPlaces
<1>6. Lists(new)
  <2>1. ASSUME NEW i \in 1..L PROVE List(new[i])
    BY <1>1, <1>2, <1>3 DEF Lists
  <2>. QED BY <1>5, <2>1 DEF Lists
<1>. DEFINE f == lens(levels)
            g == lens(new)
            p == weights(levels)
            q == weights(new)
<1>7. /\ Naturals(f, L) /\ Naturals(g, L) /\ \A i \in 1..L : i # 1 => f[i] = g[i]
      /\ g[1] = f[1] + 1 /\ f[1] \in Nat
  <2>1. Naturals(f, L) /\ Naturals(g, L) /\ f[1] = Len(levels[1]) /\ g[1] = Len(new[1])
    BY <1>1, <1>5, <1>6, LevelLengths
  <2>2. \A i \in 1..L : i # 1 => f[i] = g[i]
    BY <1>3, <1>5 DEF lens
  <2>. QED BY <1>1, <1>2, <1>3, <2>1, <2>2
<1>8. /\ Naturals(p, L) /\ Naturals(q, L) /\ \A i \in 1..L : i # 1 => p[i] = q[i]
      /\ q[1] = p[1] + 1 /\ p[1] \in Nat
  <2>1. L <= (n + 1) + 1 /\ n + 1 \in Nat /\ Len(new) <= (n + 1) + 1
    <3>1. L <= (n + 1) + 1
      <4>. HIDE DEF L
      <4>. QED BY <1>1
    <3>. QED BY <1>5, <3>1
  <2>2. /\ Naturals(p, L) /\ Naturals(q, L)
        /\ p[1] = TwoTo(1 - 1) * Len(levels[1]) /\ q[1] = TwoTo(1 - 1) * Len(new[1])
    BY <1>1, <1>5, <1>6, <2>1, WeightsType
  <2>3. TwoTo(1 - 1) = 1
    <3>1. 1 - 1 = 0 /\ Power(0)
      BY DEF Powers
    <3>. QED BY <3>1 DEF Power
  <2>4. \A i \in 1..L : i # 1 => p[i] = q[i]
    BY <1>3, <1>5 DEF weights
  <2>. QED BY <1>1, <1>2, <1>3, <2>2, <2>3, <2>4
<1>. HIDE DEF f, g, p, q
<1>9. Sigma(g, L) = Sigma(f, L) + 1
  <2>1. Sigma(g, L) + f[1] = Sigma(f, L) + g[1] /\ Sigma(g, L) \in Nat /\ Sigma(f, L) \in Nat
    BY <1>1, <1>7, SigmaAt, SigmaType
  <2>. QED BY <1>7, <2>1
<1>10. Sigma(q, L) = Sigma(p, L) + 1
  <2>1. Sigma(q, L) + p[1] = Sigma(p, L) + q[1] /\ Sigma(q, L) \in Nat /\ Sigma(p, L) \in Nat
    BY <1>1, <1>8, SigmaAt, SigmaType
  <2>. QED BY <1>8, <2>1
<1>11. L > 1 => Len(new[L]) # 0
  <2>1. L > 1 => L # 1 /\ L \in 1..L
    <3>. HIDE DEF L
    <3>. QED BY <1>1
  <2>. QED BY <1>3, <2>1 DEF Stack
<1>12. L \in 1..(n + 1) + 1
  <2>. HIDE DEF L
  <2>. QED BY <1>1
<1>13. Stack(new, n + 1)
  BY <1>5, <1>6, <1>10, <1>11, <1>12 DEF Stack, p, q
<1>. QED BY <1>5, <1>9, <1>13 DEF new, bottom, Held, f, g

\* An update.
LEMMA UpdatedIs ==
  ASSUME NEW most \in Nat, Powers(most + 1), NEW s, Sound(s, most), s.n < most, NEW v
  PROVE  LET d == updated(s, v)
         IN Sound(d, most) /\ d.n = s.n + 1 /\ d.k = s.k
<1>. DEFINE room == IF freeCells(s) = 0 THEN compress_while_updating(s) ELSE s
            min == IF is_empty(s) \/ less(v, s.min) THEN v ELSE s.min
            max == IF is_empty(s) \/ less(s.max, v) THEN v ELSE s.max
            d == updated(s, v)
<1>1. d = [room EXCEPT !.min = min, !.max = max, !.n = @ + 1, !.isLevelZeroSorted = FALSE,
                       !.levels[1] = <<v>> \o @]
  BY DEF updated
<1>2. Sound(room, most) /\ room.n = s.n /\ room.k = s.k /\ Held(room.levels) < room.itemsSize
  <2>1. CASE freeCells(s) = 0
    BY <2>1, CompressWhileUpdatingIs
  <2>2. CASE freeCells(s) # 0
    <3>1. /\ Held(s.levels) \in Nat /\ s.itemsSize \in Nat /\ Held(s.levels) <= s.itemsSize
          /\ s.itemsSize - Held(s.levels) # 0
      BY <2>2, SoundIs DEF freeCells, Sound
    <3>2. Held(s.levels) < s.itemsSize
      BY <3>1
    <3>. QED BY <2>2, <3>2
  <2>. QED BY <2>1, <2>2
<1>. HIDE DEF room, min, max
<1>3. /\ DOMAIN room = SketchFields /\ room.k \in Nat /\ room.k >= M
      /\ Stack(room.levels, room.n) /\ room.n \in Nat /\ Powers(room.n + 1)
      /\ room.itemsSize = compute_total_capacity(room.k, Len(room.levels))
      /\ room.itemsSize \in Nat /\ Held(room.levels) \in Nat
  BY <1>2, SoundIs DEF Sound
<1>4. /\ DOMAIN d = SketchFields /\ d.k = room.k /\ d.itemsSize = room.itemsSize
      /\ d.n = room.n + 1 /\ d.levels = inserted(room.levels, v)
  <2>. HIDE DEF d
  <2>. QED BY <1>1, <1>3 DEF SketchFields, inserted
<1>. HIDE DEF d
<1>5. /\ Stack(d.levels, d.n) /\ Len(d.levels) = Len(room.levels)
      /\ Held(d.levels) = Held(room.levels) + 1
  BY <1>3, <1>4, InsertIs
<1>6. d.n \in 0..most /\ Held(d.levels) <= d.itemsSize
  BY <1>2, <1>3, <1>4, <1>5
<1>7. Sound(d, most)
  BY <1>3, <1>4, <1>5, <1>6 DEF Sound
<1>. QED BY <1>2, <1>4, <1>7 DEF d

-----------------------------------------------------------------------------
(* A merge. *)

\* The greater of two numbers.
LEMMA MaxOfTwo ==
  ASSUME NEW x \in Nat, NEW y \in Nat
  PROVE  /\ Max({x, y}) \in {x, y} /\ x <= Max({x, y}) /\ y <= Max({x, y})
<1>. DEFINE m == IF x >= y THEN x ELSE y
<1>1. m \in {x, y} /\ \A z \in {x, y} : m >= z
  OBVIOUS
<1>2. \E a \in {x, y} : \A z \in {x, y} : a >= z
  BY <1>1
<1>3. Max({x, y}) \in {x, y} /\ \A z \in {x, y} : Max({x, y}) >= z
  BY <1>2 DEF Max
<1>. QED BY <1>3

\* A level, or nothing in its place.
LEMMA SafeLevelIs ==
  ASSUME NEW s, Lists(s.levels), NEW h \in Nat \ {0}
  PROVE  /\ List(safe_level(s, h)) /\ Len(safe_level(s, h)) \in Nat
         /\ h <= Len(s.levels) => Len(safe_level(s, h)) = Len(s.levels[h])
         /\ h > Len(s.levels) => Len(safe_level(s, h)) = 0
<1>1. CASE h > Len(s.levels)
  <2>1. safe_level(s, h) = <<>> /\ <<>> \in Seq({}) /\ Len(<<>>) = 0
    BY <1>1 DEF safe_level
  <2>. QED BY <1>1, <2>1, LevelLengths DEF List
<1>2. CASE ~ (h > Len(s.levels))
  <2>1. safe_level(s, h) = s.levels[h]
    BY <1>2 DEF safe_level
  <2>2. h \in 1..Len(s.levels)
    BY <1>2, LevelLengths
  <2>. QED BY <1>2, <2>1, <2>2, LevelLengths DEF Lists
<1>. QED BY <1>1, <1>2

\* The weight of the levels, those that are not there counted too.
LEMMA SafeWeight ==
  ASSUME NEW s, NEW n \in Nat, Stack(s.levels, n), NEW most \in Nat, n <= most, Powers(most + 1),
         NEW size \in Nat, Len(s.levels) <= size, size <= most + 1,
         NEW f, \A h \in 1..size : f[h] = TwoTo(h - 1) * Len(safe_level(s, h))
  PROVE  Naturals(f, size) /\ Sigma(f, size) = n
<1>. DEFINE L == Len(s.levels)
            g == weights(s.levels)
<1>1. Lists(s.levels) /\ L \in Nat /\ L <= size /\ Sigma(g, L) = n
  BY LevelLengths DEF Stack
<1>2. L <= most + 1
  <2>. HIDE DEF L
  <2>. QED BY <1>1
<1>3. ASSUME NEW h \in 1..size PROVE f[h] \in Nat /\ (h > L => f[h] = 0) /\ (h <= L => f[h] = g[h])
  <2>1. TwoTo(h - 1) \in Nat
    <3>1. h - 1 \in 0..most + 1
      OBVIOUS
    <3>. QED BY <3>1 DEF Powers, Power
  <2>2. /\ Len(safe_level(s, h)) \in Nat
        /\ h <= L => Len(safe_level(s, h)) = Len(s.levels[h])
        /\ h > L => Len(safe_level(s, h)) = 0
    BY <1>1, SafeLevelIs
  <2>3. f[h] = TwoTo(h - 1) * Len(safe_level(s, h))
    OBVIOUS
  <2>4. \A x, y \in Nat : x * y \in Nat /\ x * 0 = 0
    OBVIOUS
  <2>5. f[h] \in Nat /\ (h > L => f[h] = 0)
    <3>. HIDE DEF L
    <3>. QED BY <2>1, <2>2, <2>3, <2>4
  <2>6. ASSUME h <= L PROVE f[h] = g[h]
    <3>1. h \in 1..L
      <4>. HIDE DEF L
      <4>. QED BY <1>1, <2>6
    <3>2. g[h] = TwoTo(h - 1) * Len(s.levels[h])
      BY <3>1 DEF weights
    <3>. QED BY <2>2, <2>3, <2>6, <3>2
  <2>. QED BY <2>5, <2>6
<1>. HIDE DEF L, g
<1>4. Naturals(f, size)
  BY <1>3 DEF Naturals
<1>5. Sigma(f, size) = Sigma(f, L)
  <2>1. L \in 0..size /\ \A i \in L + 1..size : f[i] = 0
    BY <1>1, <1>3
  <2>. QED BY <1>4, <2>1, SigmaPadded
<1>6. Sigma(f, L) = Sigma(g, L)
  <2>1. \A i \in 1..L : f[i] = g[i]
    BY <1>1, <1>3
  <2>. QED BY <1>1, <2>1, SigmaSame
<1>. QED BY <1>1, <1>4, <1>5, <1>6

\* The levels of both: of the second sketch, all but level zero.
LEMMA PopulateIs ==
  ASSUME NEW a, NEW b, NEW n1 \in Nat, NEW n2 \in Nat, NEW n \in Nat,
         Stack(a.levels, n1), Stack(b.levels, n2), n1 <= n, n2 <= n, Powers(n + 1),
         n1 + n2 = n + Len(b.levels[1])
  PROVE  Stack(populate_work_arrays(a, b), n)
<1>. DEFINE L1 == Len(a.levels)
            L2 == Len(b.levels)
            size == Max({L1, L2})
            new == populate_work_arrays(a, b)
            lower(h) == Len(safe_level(a, h))
            upper(h) == Len(safe_level(b, h))
            f == [h \in 1..size |-> TwoTo(h - 1) * lower(h)]
            g == [h \in 1..size |-> TwoTo(h - 1) * upper(h)]
            g0 == [h \in 1..size |-> IF h = 1 THEN 0 ELSE g[h]]
            first == Len(b.levels[1])
<1>1. /\ Lists(a.levels) /\ Lists(b.levels) /\ L1 \in 1..n1 + 1 /\ L2 \in 1..n2 + 1
      /\ L1 > 1 => Len(a.levels[L1]) # 0
      /\ L2 > 1 => Len(b.levels[L2]) # 0
  BY DEF Stack
<1>2. /\ L1 \in Nat /\ L2 \in Nat /\ L1 >= 1 /\ L2 >= 1 /\ size \in {L1, L2} /\ L1 <= size /\ L2 <= size
      /\ size \in Nat /\ size >= 1 /\ size <= n + 1 /\ 1 \in 1..size
  <2>1. L1 \in Nat /\ L2 \in Nat /\ L1 >= 1 /\ L2 >= 1 /\ L1 <= n + 1 /\ L2 <= n + 1
    <3>. HIDE DEF L1, L2
    <3>. QED BY <1>1
  <2>2. size \in {L1, L2} /\ L1 <= size /\ L2 <= size
    BY <2>1, MaxOfTwo
  <2>. HIDE DEF L1, L2, size
  <2>. QED BY <2>1, <2>2
<1>3. \A h \in 1..size :
        /\ List(safe_level(a, h)) /\ lower(h) \in Nat
        /\ List(safe_level(b, h)) /\ upper(h) \in Nat
        /\ h <= L1 => lower(h) = Len(a.levels[h])
        /\ h <= L2 => upper(h) = Len(b.levels[h])
  <2>1. \A h \in 1..size : h \in Nat \ {0}
    BY <1>2
  <2>. HIDE DEF size
  <2>. QED BY <1>1, <2>1, SafeLevelIs
<1>4. /\ DOMAIN new = 1..size /\ new = [h \in 1..size |-> new[h]]
      /\ new[1] = a.levels[1]
      /\ \A h \in 1..size : h # 1 => new[h] = merge_sorted_arrays(safe_level(a, h), safe_level(b, h))
  <2>1. new = [h \in 1..size |-> IF h = 1 THEN a.levels[1]
                                 ELSE merge_sorted_arrays(safe_level(a, h), safe_level(b, h))]
    BY DEF populate_work_arrays, provisionalLevels
  <2>. HIDE DEF new, size
  <2>. QED BY <1>2, <2>1
<1>. HIDE DEF new
<1>5. List(new) /\ Len(new) = size
  <2>. HIDE DEF size
  <2>. QED BY <1>2, <1>4, ListOfPlaces
<1>6. \A h \in 1..size : /\ List(new[h])
                         /\ Len(new[h]) = lower(h) + IF h = 1 THEN 0 ELSE upper(h)
  <2>1. ASSUME NEW h \in 1..size
        PROVE  List(new[h]) /\ Len(new[h]) = lower(h) + IF h = 1 THEN 0 ELSE upper(h)
    <3>1. CASE h = 1
      <4>1. 1 <= L1 /\ 1 \in 1..L1
        <5>. HIDE DEF L1
        <5>. QED BY <1>2
      <4>2. lower(1) = Len(a.levels[1]) /\ lower(1) \in Nat
        BY <1>2, <1>3, <4>1
      <4>3. List(a.levels[1])
        BY <1>1, <4>1 DEF Lists
      <4>. HIDE DEF lower
      <4>. QED BY <1>4, <3>1, <4>2, <4>3
    <3>2. CASE h # 1
      <4>1. new[h] = merge_sorted_arrays(safe_level(a, h), safe_level(b, h))
        BY <1>4, <3>2
      <4>2. List(safe_level(a, h)) /\ List(safe_level(b, h))
        BY <1>3
      <4>3. List(new[h]) /\ Len(new[h]) = lower(h) + upper(h)
        BY <4>1, <4>2, MergeHasAll
      <4>. HIDE DEF lower, upper
      <4>. QED BY <3>2, <4>3
    <3>. QED BY <3>1, <3>2
  <2>. QED BY <2>1
<1>7. Lists(new)
  BY <1>5, <1>6 DEF Lists
<1>8. Naturals(f, size) /\ Sigma(f, size) = n1
  <2>1. \A h \in 1..size : f[h] = TwoTo(h - 1) * Len(safe_level(a, h))
    OBVIOUS
  <2>2. Len(a.levels) <= size /\ size <= n + 1 /\ size \in Nat
    BY <1>2
  <2>. HIDE DEF f, g, g0, size
  <2>. QED BY <2>1, <2>2, SafeWeight
<1>9. Naturals(g, size) /\ Sigma(g, size) = n2
  <2>1. \A h \in 1..size : g[h] = TwoTo(h - 1) * Len(safe_level(b, h))
    OBVIOUS
  <2>2. Len(b.levels) <= size /\ size <= n + 1 /\ size \in Nat
    BY <1>2
  <2>. HIDE DEF f, g, g0, size
  <2>. QED BY <2>1, <2>2, SafeWeight
<1>10. g[1] = first /\ first \in Nat
  <2>1. TwoTo(1 - 1) = 1
    <3>1. 1 - 1 = 0 /\ Power(0)
      BY DEF Powers
    <3>. QED BY <3>1 DEF Power
  <2>2. upper(1) = first /\ upper(1) \in Nat
    BY <1>2, <1>3
  <2>3. g[1] = TwoTo(1 - 1) * upper(1)
    BY <1>2
  <2>. HIDE DEF upper, g
  <2>. QED BY <2>1, <2>2, <2>3
<1>11. /\ Naturals(g0, size) /\ g0[1] = 0 /\ \A i \in 1..size : i # 1 => g[i] = g0[i]
  <2>. HIDE DEF g, size
  <2>. QED BY <1>2, <1>9 DEF Naturals
<1>12. \A h \in 1..size : weights(new)[h] = f[h] + g0[h]
  <2>1. ASSUME NEW h \in 1..size PROVE weights(new)[h] = f[h] + g0[h]
    <3>1. weights(new)[h] = TwoTo(h - 1) * Len(new[h])
      BY <1>5 DEF weights
    <3>2. TwoTo(h - 1) \in Nat
      <4>1. h - 1 \in 0..n + 1
        <5>. HIDE DEF size
        <5>. QED BY <1>2
      <4>. QED BY <4>1 DEF Powers, Power
    <3>. DEFINE p == TwoTo(h - 1)
                x == lower(h)
                y == upper(h)
    <3>3. f[h] = p * x /\ g0[h] = (IF h = 1 THEN 0 ELSE p * y) /\ x \in Nat /\ y \in Nat /\ p \in Nat
      BY <1>3, <3>2
    <3>4. weights(new)[h] = p * (x + (IF h = 1 THEN 0 ELSE y))
      BY <1>6, <3>1
    <3>. HIDE DEF p, x, y, f, g0
    <3>5. p * (x + 0) = p * x + 0 /\ p * (x + y) = p * x + p * y
      BY <3>3
    <3>. QED BY <3>3, <3>4, <3>5
  <2>. QED BY <2>1
<1>. HIDE DEF f, g, g0, size, first
<1>13. Sigma(weights(new), size) = n
  <2>1. Sigma(weights(new), size) = Sigma(f, size) + Sigma(g0, size)
    BY <1>2, <1>8, <1>11, <1>12, SigmaAdds
  <2>2. Sigma(g0, size) + g[1] = Sigma(g, size) + g0[1]
    BY <1>2, <1>9, <1>11, SigmaAt
  <2>3. Sigma(g0, size) \in Nat
    BY <1>2, <1>11, SigmaType
  <2>4. n1 + n2 = n + first
    BY DEF first
  <2>. QED BY <1>8, <1>9, <1>10, <1>11, <2>1, <2>2, <2>3, <2>4
<1>14. size > 1 => Len(new[size]) # 0
  <2>1. SUFFICES ASSUME size > 1 PROVE Len(new[size]) # 0
    OBVIOUS
  <2>2. size \in 1..size /\ size # 1
    BY <1>2, <2>1
  <2>3. Len(new[size]) = lower(size) + upper(size) /\ lower(size) \in Nat /\ upper(size) \in Nat
    BY <1>3, <1>6, <2>2
  <2>4. lower(size) # 0 \/ upper(size) # 0
    <3>1. CASE size = L1
      <4>1. lower(size) = Len(a.levels[L1])
        BY <1>2, <1>3, <2>2, <3>1
      <4>. QED BY <1>1, <2>1, <3>1, <4>1
    <3>2. CASE size = L2
      <4>1. upper(size) = Len(b.levels[L2])
        BY <1>2, <1>3, <2>2, <3>2
      <4>. QED BY <1>1, <2>1, <3>2, <4>1
    <3>. QED BY <1>2, <3>1, <3>2
  <2>. HIDE DEF lower, upper
  <2>. QED BY <2>3, <2>4
<1>15. size \in 1..n + 1
  BY <1>2
<1>. QED BY <1>5, <1>7, <1>13, <1>14, <1>15 DEF Stack, new

feeding(p, q, i, s) == updated(s, q[i])
fedUpTo(p, q, i, s) == Sound(s, p[1]) /\ s.n = p[2] + i
Feeds == INSTANCE FoldTheorems WITH step <- feeding, choose <- lastOf, Good <- fedUpTo

\* Level zero of the other sketch is inserted item by item.
LEMMA FedIs ==
  ASSUME NEW most \in Nat, Powers(most + 1), NEW s, Sound(s, most),
         NEW items, List(items), s.n + Len(items) <= most
  PROVE  LET d == FoldLeft(updated, s, items)
         IN Sound(d, most) /\ d.n = s.n + Len(items)
<1>. DEFINE n == Len(items)
            p == <<most, s.n>>
            d == FoldLeft(updated, s, items)
<1>1. n \in Nat /\ DOMAIN items = 1..n /\ s.n \in Nat
  BY ListIs, SoundIs
<1>2. p[1] = most /\ p[2] = s.n
  OBVIOUS
<1>. HIDE DEF p
<1>3. d = Feeds!Left(p, items, s, n)
  BY <1>1 DEF FoldLeft, MapThenFoldSet, Max, Feeds!Left, Feeds!Fold,
              Feeds!MapThenFoldSet, feeding, lastOf
<1>. HIDE DEF d
<1>4. Feeds!ChoosesLast
  BY DEF Feeds!ChoosesLast, lastOf
<1>5. Feeds!Preserves(p, items, n)
  <2>1. ASSUME NEW i \in 1..n, NEW acc, fedUpTo(p, items, i - 1, acc)
        PROVE  fedUpTo(p, items, i, feeding(p, items, i, acc))
    <3>1. Sound(acc, most) /\ acc.n = s.n + (i - 1)
      BY <1>2, <2>1 DEF fedUpTo
    <3>2. acc.n < most /\ acc.n + 1 = s.n + i
      <4>. HIDE DEF n
      <4>1. s.n + n <= most
        BY DEF n
      <4>. QED BY <1>1, <3>1, <4>1
    <3>3. LET new == updated(acc, items[i])
          IN Sound(new, most) /\ new.n = acc.n + 1
      BY <3>1, <3>2, UpdatedIs
    <3>. QED BY <1>2, <3>2, <3>3 DEF fedUpTo, feeding
  <2>. QED BY <2>1 DEF Feeds!Preserves
<1>6. fedUpTo(p, items, 0, s)
  BY <1>1, <1>2 DEF fedUpTo
<1>. HIDE DEF n
<1>7. fedUpTo(p, items, n, d)
  BY <1>1, <1>3, <1>4, <1>5, <1>6, Feeds!LeftKeeps
<1>. QED BY <1>2, <1>7 DEF fedUpTo, d, n

\* What a merge needs besides n: levels of that weight that fit.
Joined(s, n) ==
  /\ DOMAIN s = SketchFields
  /\ s.k \in Nat /\ s.k >= M
  /\ Stack(s.levels, n)
  /\ s.itemsSize = compute_total_capacity(s.k, Len(s.levels))
  /\ Held(s.levels) <= s.itemsSize

\* Then the higher levels are joined, and compressed where there is no room.
LEMMA MergeHigherLevelsIs ==
  ASSUME NEW most \in Nat, Powers(most + 1), NEW s, Sound(s, most),
         NEW other, Sound(other, most), NEW n \in Nat, n # 0, n <= most,
         s.n <= n, other.n <= n, s.n + other.n = n + Len(other.levels[1])
  PROVE  Joined(merge_higher_levels(s, other, n), n)
<1>. DEFINE levels == populate_work_arrays(s, other)
            work == [s EXCEPT !.levels = levels]
            result == general_compress(work, s.k, s.isLevelZeroSorted, ub_on_num_levels(n))
            d == merge_higher_levels(s, other, n)
<1>1. d = [s EXCEPT !.levels = result.levels, !.itemsSize = result.target,
                    !.coins = result.coins, !.err = result.err]
  BY DEF merge_higher_levels
<1>2. DOMAIN s = SketchFields /\ s.k \in Nat /\ s.k >= M
      /\ Stack(s.levels, s.n) /\ Stack(other.levels, other.n)
      /\ s.n \in Nat /\ other.n \in Nat
  BY SoundIs DEF Sound
<1>3. Powers(n + 1)
  BY DEF Powers
<1>4. Stack(levels, n)
  BY <1>2, <1>3, PopulateIs
<1>5. work.levels = levels
  BY <1>2 DEF SketchFields
<1>. HIDE DEF levels, work
<1>6. /\ Stack(result.levels, n)
      /\ result.target = compute_total_capacity(s.k, Len(result.levels))
      /\ Held(result.levels) <= result.target
  BY <1>2, <1>3, <1>4, <1>5, CompressIs
<1>. HIDE DEF result, d
<1>7. /\ DOMAIN d = SketchFields /\ d.k = s.k /\ d.levels = result.levels
      /\ d.itemsSize = result.target
  BY <1>1, <1>2 DEF SketchFields
<1>8. Joined(d, n)
  BY <1>2, <1>6, <1>7 DEF Joined
<1>. QED BY <1>8 DEF d

\* A sketch of one level weighs as much as it holds.
LEMMA OneLevel ==
  ASSUME NEW levels, NEW n \in Nat, Stack(levels, n), Powers(n + 1), Len(levels) = 1
  PROVE  Len(levels[1]) = n
<1>1. Lists(levels) /\ Sigma(weights(levels), 1) = n /\ Len(levels) <= (n + 1) + 1
  BY DEF Stack
<1>2. weights(levels)[1] = TwoTo(1 - 1) * Len(levels[1]) /\ Len(levels[1]) \in Nat
  <2>1. 1 \in 1..Len(levels) /\ n + 1 \in Nat
    OBVIOUS
  <2>. QED BY <1>1, <2>1, WeightsType
<1>3. TwoTo(1 - 1) = 1
  <2>1. 1 - 1 = 0 /\ Power(0)
    BY DEF Powers
  <2>. QED BY <2>1 DEF Power
<1>4. Sigma(weights(levels), 1) = weights(levels)[1]
  <2>1. Sigma(weights(levels), 0 + 1) = Sigma(weights(levels), 0) + weights(levels)[0 + 1]
        /\ Sigma(weights(levels), 0) = 0 /\ 0 + 1 = 1
    BY SigmaUnfolds
  <2>. QED BY <1>2, <1>3, <2>1
<1>. QED BY <1>1, <1>2, <1>3, <1>4

\* No level holds more items than went in.
LEMMA LevelHoldsLess ==
  ASSUME NEW levels, NEW n \in Nat, Stack(levels, n), Powers(n + 1)
  PROVE  Len(levels[1]) \in Nat /\ Len(levels[1]) <= n /\ List(levels[1])
<1>. DEFINE L == Len(levels)
            f == lens(levels)
            g == [i \in 1..L |-> IF i = 1 THEN f[1] ELSE 0]
<1>1. /\ L \in Nat /\ Lists(levels) /\ 1 \in 1..L /\ Naturals(f, L)
      /\ f[1] = Len(levels[1]) /\ f[1] \in Nat
  <2>1. Lists(levels) /\ L \in 1..n + 1
    BY DEF Stack
  <2>2. 1 \in 1..L /\ L \in Nat
    <3>. HIDE DEF L
    <3>. QED BY <2>1
  <2>. QED BY <2>1, <2>2, LevelLengths
<1>2. Held(levels) = Sigma(f, L) /\ Held(levels) \in Nat /\ Held(levels) <= n
  BY HeldIsLess DEF Held
<1>. HIDE DEF L, f
<1>3. /\ Naturals(g, L) /\ g[1] = f[1] /\ \A i \in 1..L : g[i] + 0 <= f[i]
      /\ \A i \in 1 + 1..L : g[i] = 0
  BY <1>1 DEF Naturals
<1>. HIDE DEF g
<1>4. Sigma(g, L) + (IF 0 = 1 THEN L ELSE 0) <= Sigma(f, L)
  BY <1>1, <1>3, SigmaLarger
<1>5. Sigma(g, L) = Sigma(g, 1)
  <2>1. 1 \in 0..L
    BY <1>1
  <2>. QED BY <1>1, <1>3, <2>1, SigmaPadded
<1>6. Sigma(g, 1) = f[1]
  <2>1. Sigma(g, 0 + 1) = Sigma(g, 0) + g[0 + 1] /\ Sigma(g, 0) = 0 /\ 0 + 1 = 1
    BY SigmaUnfolds
  <2>. QED BY <1>1, <1>3, <2>1
<1>7. f[1] <= n
  BY <1>1, <1>2, <1>4, <1>5, <1>6
<1>. QED BY <1>1, <1>7 DEF Lists, L

\* A merge.
LEMMA MergedIs ==
  ASSUME NEW most \in Nat, Powers(most + 1), NEW s, Sound(s, most),
         NEW other, Sound(other, most), ~ is_empty(other), s.n + other.n <= most
  PROVE  Sound(merged(s, other), most)
<1>. DEFINE n == s.n + other.n
            items == other.levels[1]
            fed == FoldLeft(updated, s, items)
            joined == IF is_estimation_mode(other) THEN merge_higher_levels(fed, other, n)
                                                   ELSE fed
            total == [joined EXCEPT !.n = n]
            minK == IF is_estimation_mode(other) /\ other.minK < total.minK THEN other.minK
                    ELSE total.minK
            min == IF is_empty(total) \/ less(other.min, total.min) THEN other.min ELSE total.min
            max == IF is_empty(total) \/ less(total.max, other.max) THEN other.max ELSE total.max
            d == merged(s, other)
<1>1. d = [total EXCEPT !.minK = minK, !.min = min, !.max = max, !.err = @ + other.err]
  BY DEF merged
<1>2. /\ s.n \in Nat /\ other.n \in Nat /\ other.n # 0 /\ n \in Nat /\ n # 0 /\ n <= most
      /\ Stack(other.levels, other.n) /\ Powers(other.n + 1)
  <2>1. s.n \in Nat /\ other.n \in Nat /\ Powers(other.n + 1)
    BY SoundIs
  <2>2. other.n # 0 /\ Stack(other.levels, other.n)
    BY DEF is_empty, Sound
  <2>3. n \in Nat /\ n # 0 /\ n <= most
    BY <2>1, <2>2
  <2>. QED BY <2>1, <2>2, <2>3
<1>3. List(items) /\ Len(items) \in Nat /\ Len(items) <= other.n
  BY <1>2, LevelHoldsLess
<1>4. Sound(fed, most) /\ fed.n = s.n + Len(items)
  <2>1. s.n + Len(items) <= most
    <3>. HIDE DEF items
    <3>. QED BY <1>2, <1>3
  <2>. QED BY <1>3, <2>1, FedIs
<1>. HIDE DEF fed
<1>5. Joined(joined, n)
  <2>1. CASE is_estimation_mode(other)
    <3>1. fed.n <= n /\ other.n <= n /\ fed.n + other.n = n + Len(items)
      <4>. HIDE DEF items
      <4>. QED BY <1>2, <1>3, <1>4
    <3>2. Joined(merge_higher_levels(fed, other, n), n)
      BY <1>2, <1>4, <3>1, MergeHigherLevelsIs
    <3>. QED BY <2>1, <3>2
  <2>2. CASE ~ is_estimation_mode(other)
    <3>1. Len(other.levels) = 1
      <4>1. Len(other.levels) \in 1..other.n + 1
        BY <1>2 DEF Stack
      <4>2. ~ (Len(other.levels) > 1)
        BY <2>2 DEF is_estimation_mode
      <4>3. \A y \in Nat : \A x \in 1..y + 1 : ~ (x > 1) => x = 1
        OBVIOUS
      <4>. QED BY <1>2, <4>1, <4>2, <4>3
    <3>2. Len(items) = other.n
      BY <1>2, <3>1, OneLevel
    <3>3. fed.n = n
      BY <1>4, <3>2
    <3>4. Joined(fed, n)
      BY <1>4, <3>3 DEF Sound, Joined
    <3>. QED BY <2>2, <3>4
  <2>. QED BY <2>1, <2>2
<1>. HIDE DEF joined
<1>6. /\ DOMAIN total = SketchFields /\ total.n = n /\ total.k = joined.k
      /\ total.levels = joined.levels /\ total.itemsSize = joined.itemsSize
  BY <1>5 DEF Joined, SketchFields
<1>. HIDE DEF total, minK, min, max, d
<1>7. /\ DOMAIN d = SketchFields /\ d.n = n /\ d.k = joined.k
      /\ d.levels = joined.levels /\ d.itemsSize = joined.itemsSize
  <2>. HIDE DEF n
  <2>. QED BY <1>1, <1>6 DEF SketchFields
<1>8. n \in 0..most
  BY <1>2
<1>. HIDE DEF n
<1>9. Sound(d, most)
  BY <1>5, <1>7, <1>8 DEF Sound, Joined
<1>. QED BY <1>9 DEF d

-----------------------------------------------------------------------------
(* Creation, queries and the serialized form. *)

\* A new sketch.
LEMMA NewIsSound ==
  ASSUME NEW most \in Nat, Powers(most + 1), NEW k \in Nat, k >= M
  PROVE  Sound(newSketch(k), most) /\ DOMAIN newSketch(k) = SketchFields
<1>. DEFINE s == newSketch(k)
            levels == <<<<>>>>
<1>1. /\ DOMAIN s = SketchFields /\ s.k = k /\ s.n = 0 /\ s.levels = levels /\ s.itemsSize = k
  BY DEF newSketch, SketchFields
<1>2. Powers(1) /\ Powers(0 + 1)
  BY DEF Powers
<1>3. Len(levels) = 1 /\ levels[1] = <<>> /\ Len(<<>>) = 0 /\ <<>> \in Seq({}) /\ levels \in Seq(Seq({}))
  OBVIOUS
<1>. HIDE DEF levels, s
<1>4. Lists(levels)
  BY <1>3 DEF Lists, List
<1>5. Sigma(lens(levels), 1) = 0 /\ Sigma(weights(levels), 1) = 0
  <2>1. TwoTo(1 - 1) = 1
    <3>1. 1 - 1 = 0 /\ Power(0)
      BY <1>2 DEF Powers
    <3>. QED BY <3>1 DEF Power
  <2>2. 1 \in 1..Len(levels)
    BY <1>3
  <2>3. lens(levels)[1] = 0 /\ weights(levels)[1] = 1 * 0
    BY <1>3, <2>1, <2>2 DEF lens, weights
  <2>4. \A f : Sigma(f, 1) = 0 + f[1]
    <3>1. \A f : Sigma(f, 0 + 1) = Sigma(f, 0) + f[0 + 1] /\ Sigma(f, 0) = 0
      BY SigmaUnfolds
    <3>2. 0 + 1 = 1
      OBVIOUS
    <3>. QED BY <3>1, <3>2
  <2>5. Sigma(lens(levels), 1) = 0 + lens(levels)[1] /\ Sigma(weights(levels), 1) = 0 + weights(levels)[1]
    BY <2>4
  <2>. QED BY <2>3, <2>5
<1>6. Stack(levels, 0) /\ Held(levels) = 0
  BY <1>3, <1>4, <1>5 DEF Stack, Held
<1>7. compute_total_capacity(k, 1) = k
  BY <1>2, CapacityOfOne
<1>8. Sound(s, most)
  BY <1>1, <1>3, <1>6, <1>7 DEF Sound
<1>. QED BY <1>1, <1>8 DEF s

\* Level zero is sorted.
LEMMA SortLevelZeroIs ==
  ASSUME NEW most \in Nat, Powers(most + 1), NEW s, Sound(s, most)
  PROVE  Sound(sort_level_zero(s), most)
<1>. DEFINE old == s.levels
            bottom == sorted(old[1])
            new == [old EXCEPT ![1] = bottom]
            L == Len(old)
            d == sort_level_zero(s)
<1>1. CASE s.isLevelZeroSorted
  BY <1>1 DEF sort_level_zero
<1>2. CASE ~ s.isLevelZeroSorted
  <2>1. /\ Lists(old) /\ L \in Nat /\ 1 \in 1..L /\ DOMAIN old = 1..L /\ List(old[1])
        /\ DOMAIN s = SketchFields /\ Stack(old, s.n)
    <3>1. Lists(old) /\ L \in 1..s.n + 1 /\ s.n \in Nat
      BY SoundIs
    <3>2. L \in Nat /\ 1 \in 1..L
      <4>. HIDE DEF L
      <4>. QED BY <3>1
    <3>. QED BY <3>1, <3>2, ListIs DEF Sound, Lists
  <2>2. List(bottom) /\ Len(bottom) = Len(old[1])
    BY <2>1, SortHasAll
  <2>. HIDE DEF bottom
  <2>3. DOMAIN new = 1..L /\ new[1] = bottom /\ \A i \in 1..L : i # 1 => new[i] = old[i]
    <3>. HIDE DEF L, old
    <3>. QED BY <2>1
  <2>4. new = [i \in 1..L |-> new[i]]
    <3>. HIDE DEF L, old
    <3>. QED BY <2>1
  <2>5. /\ DOMAIN d = SketchFields /\ d.k = s.k /\ d.n = s.n /\ d.itemsSize = s.itemsSize
        /\ d.levels = new
    BY <1>2, <2>1 DEF sort_level_zero, SketchFields, bottom
  <2>. HIDE DEF new, d
  <2>6. List(new) /\ Len(new) = L
    <3>. HIDE DEF L
    <3>. QED BY <2>1, <2>4, ListOfPlaces
  <2>7. \A i \in 1..L : List(new[i]) /\ Len(new[i]) = Len(old[i])
    BY <2>1, <2>2, <2>3 DEF Lists
  <2>8. Lists(new)
    BY <2>6, <2>7 DEF Lists
  <2>9. Stack(new, s.n) /\ Held(new) = Held(old)
    BY <2>1, <2>6, <2>7, <2>8, StackIsAboutLengths
  <2>10. Sound(d, most)
    BY <2>5, <2>6, <2>9 DEF Sound
  <2>. QED BY <2>10 DEF d
<1>. QED BY <1>1, <1>2

\* The items of the only level.
LEMMA FlattenOne ==
  ASSUME NEW levels, Len(levels) = 1
  PROVE  FlattenSeq(levels) = levels[1]
<1>. DEFINE f == [i \in 1..1 |-> levels[1]]
            IsFlat(g) == g = [i \in 1..1 |-> IF i = 1 THEN levels[i] ELSE g[i - 1] \o levels[i]]
<1>1. IsFlat(f)
  <2>1. \A i \in 1..1 : i = 1
    OBVIOUS
  <2>. QED BY <2>1
<1>2. \A g : IsFlat(g) => g[1] = levels[1]
  OBVIOUS
<1>3. FlattenSeq(levels) = (CHOOSE g : IsFlat(g))[1]
  BY DEF FlattenSeq
<1>. HIDE DEF IsFlat, f
<1>4. IsFlat(CHOOSE g : IsFlat(g))
  BY <1>1
<1>. QED BY <1>2, <1>3, <1>4

\* A sketch of one item, read back.
LEMMA SingleIs ==
  ASSUME NEW most \in Nat, Powers(most + 1), NEW s, Sound(s, most), s.n = 1,
         NEW b, b.k = s.k, b.items = FlattenSeq(s.levels)
  PROVE  Sound(deserializeSingle(b), most)
<1>. DEFINE d == deserializeSingle(b)
            new == <<s.levels[1]>>
<1>1. /\ Stack(s.levels, 1) /\ Lists(s.levels) /\ s.k \in Nat /\ s.k >= M /\ 1 \in 0..most
      /\ Len(s.levels) = 1 /\ s.itemsSize = compute_total_capacity(s.k, 1)
      /\ Held(s.levels) <= s.itemsSize
  <2>1. /\ Stack(s.levels, 1) /\ s.k \in Nat /\ s.k >= M /\ 1 \in 0..most /\ Lists(s.levels)
        /\ s.itemsSize = compute_total_capacity(s.k, Len(s.levels))
        /\ Held(s.levels) <= s.itemsSize
    BY DEF Sound, Stack
  <2>2. Len(s.levels) \in 1..1
    <3>1. Powers(1 + 1)
      BY SoundIs
    <3>2. 1 \in Nat /\ 1 # 0
      OBVIOUS
    <3>. QED BY <2>1, <3>1, <3>2, StackIsLow
  <2>3. Len(s.levels) = 1
    <3>1. \A x \in 1..1 : x = 1
      OBVIOUS
    <3>. QED BY <2>2, <3>1
  <2>. QED BY <2>1, <2>3
<1>2. DOMAIN newSketch(s.k) = SketchFields
  BY <1>1, NewIsSound
<1>3. newSketch(s.k).k = s.k
  BY DEF newSketch
<1>4. b.items = s.levels[1]
  BY <1>1, FlattenOne
<1>5. /\ DOMAIN d = SketchFields /\ d.k = s.k /\ d.n = 1 /\ d.levels = new
      /\ d.itemsSize = compute_total_capacity(s.k, 1)
  BY <1>2, <1>3, <1>4 DEF deserializeSingle, SketchFields
<1>. HIDE DEF d
<1>6. Lists(new) /\ Len(new) = 1 /\ new[1] = s.levels[1]
  <2>1. List(s.levels[1])
    BY <1>1 DEF Lists
  <2>2. new \in Seq({s.levels[1]}) /\ Len(new) = 1 /\ new[1] = s.levels[1]
    OBVIOUS
  <2>. HIDE DEF new
  <2>. QED BY <2>1, <2>2 DEF Lists, List
<1>. HIDE DEF new
<1>7. Stack(new, 1) /\ Held(new) = Held(s.levels)
  <2>1. Len(new) = Len(s.levels) /\ \A h \in 1..Len(s.levels) : Len(new[h]) = Len(s.levels[h])
    BY <1>1, <1>6
  <2>. QED BY <1>1, <1>6, <2>1, StackIsAboutLengths
<1>8. Sound(d, most)
  BY <1>1, <1>5, <1>6, <1>7 DEF Sound
<1>. QED BY <1>8 DEF d

\* A sum over more places is no smaller.
LEMMA SigmaRises ==
  ASSUME NEW f, NEW n \in Nat, Naturals(f, n), NEW a \in 0..n
  PROVE  Sigma(f, a) <= Sigma(f, n)
<1>. DEFINE T == {m \in Nat : a <= m /\ m <= n => Sigma(f, a) <= Sigma(f, m)}
<1>1. 0 \in T
  <2>1. a <= 0 => a = 0
    OBVIOUS
  <2>2. Sigma(f, 0) <= Sigma(f, 0)
    BY SigmaUnfolds
  <2>. QED BY <2>1, <2>2
<1>2. ASSUME NEW m \in Nat, m \in T PROVE m + 1 \in T
  <2>1. SUFFICES ASSUME a <= m + 1, m + 1 <= n PROVE Sigma(f, a) <= Sigma(f, m + 1)
    OBVIOUS
  <2>2. Sigma(f, m) \in Nat /\ Sigma(f, m + 1) = Sigma(f, m) + f[m + 1] /\ f[m + 1] \in Nat
    BY <2>1, SigmaType, SigmaUnfolds DEF Naturals
  <2>3. Sigma(f, a) \in Nat
    BY SigmaType DEF Naturals
  <2>4. CASE a = m + 1
    BY <2>2, <2>3, <2>4
  <2>5. CASE a # m + 1
    BY <1>2, <2>1, <2>2, <2>3, <2>5
  <2>. QED BY <2>4, <2>5
<1>3. \A m \in Nat : m \in T
  <2>. HIDE DEF T
  <2>. QED BY <1>1, <1>2, Sums!OverNaturals
<1>. QED BY <1>3

\* Two lists one after the other.
LEMMA ListConcat ==
  ASSUME NEW a, NEW b, List(a), List(b), NEW ab, ab = a \o b
  PROVE  /\ List(ab) /\ Len(ab) = Len(a) + Len(b)
         /\ \A i \in 1..Len(a) : ab[i] = a[i]
         /\ \A i \in 1..Len(b) : ab[Len(a) + i] = b[i]
<1>1. PICK S : a \in Seq(S)
  BY DEF List
<1>2. PICK T : b \in Seq(T)
  BY DEF List
<1>. DEFINE U == S \union T
            c == a \o b
            m == Len(a)
            n == Len(b)
<1>3. a \in Seq(U) /\ b \in Seq(U)
  BY <1>1, <1>2
<1>. HIDE DEF U
<1>4. /\ c \in Seq(U) /\ Len(c) = m + n /\ m \in Nat /\ n \in Nat
      /\ \A i \in 1..m + n : c[i] = IF i <= m THEN a[i] ELSE b[i - m]
  BY <1>3
<1>. HIDE DEF c, m, n
<1>5. /\ \A i \in 1..m : c[i] = a[i]
      /\ \A i \in 1..n : c[m + i] = b[i]
  <2>1. ASSUME NEW i \in 1..m PROVE c[i] = a[i]
    <3>1. i \in 1..m + n /\ i <= m
      BY <1>4
    <3>. QED BY <1>4, <3>1
  <2>2. ASSUME NEW i \in 1..n PROVE c[m + i] = b[i]
    <3>1. m + i \in 1..m + n /\ ~ (m + i <= m) /\ (m + i) - m = i
      BY <1>4
    <3>. QED BY <1>4, <3>1
  <2>. QED BY <2>1, <2>2
<1>. QED BY <1>4, <1>5 DEF List, c, m, n

\* Lists with the same items are the same.
LEMMA ListEqual ==
  ASSUME NEW a, NEW b, List(a), List(b), Len(a) = Len(b), \A i \in 1..Len(a) : a[i] = b[i]
  PROVE  a = b
<1>1. a = [i \in 1..Len(a) |-> a[i]] /\ b = [i \in 1..Len(b) |-> b[i]]
  BY ListIs
<1>. QED BY <1>1

\* The items of the first m levels, one level after the other, are q.
Flat(levels, m, q) ==
  /\ List(q) /\ Len(q) = Sigma(lens(levels), m)
  /\ \A h \in 1..m : \A i \in 1..Len(levels[h]) :
       q[Sigma(lens(levels), h - 1) + i] = levels[h][i]

\* One level more.
LEMMA FlatStep ==
  ASSUME NEW levels, Lists(levels), NEW m \in Nat, m + 1 <= Len(levels), NEW q, Flat(levels, m, q),
         NEW new, List(new), Len(new) = Len(q) + Len(levels[m + 1]),
         \A i \in 1..Len(q) : new[i] = q[i],
         \A i \in 1..Len(levels[m + 1]) : new[Len(q) + i] = levels[m + 1][i]
  PROVE  Flat(levels, m + 1, new)
<1>. DEFINE f == lens(levels)
            L == Len(levels)
            A == Sigma(f, m)
<1>1. /\ L \in Nat /\ Naturals(f, L) /\ \A h \in 1..L : f[h] = Len(levels[h]) /\ f[h] \in Nat
      /\ \A h \in 1..L : List(levels[h])
  BY LevelLengths DEF Lists
<1>2. m + 1 \in 1..L /\ Naturals(f, m)
  BY <1>1 DEF Naturals
<1>3. A \in Nat /\ Sigma(f, m + 1) = A + f[m + 1] /\ f[m + 1] = Len(levels[m + 1]) /\ Len(levels[m + 1]) \in Nat
  BY <1>1, <1>2, SigmaType, SigmaUnfolds
<1>4. /\ List(q) /\ Len(q) = A
      /\ \A h \in 1..m : \A i \in 1..Len(levels[h]) : q[Sigma(f, h - 1) + i] = levels[h][i]
  BY DEF Flat
<1>5. /\ List(new) /\ Len(new) = A + Len(levels[m + 1])
      /\ \A i \in 1..A : new[i] = q[i]
      /\ \A i \in 1..Len(levels[m + 1]) : new[A + i] = levels[m + 1][i]
  <2>. HIDE DEF A
  <2>. QED BY <1>4
<1>6. ASSUME NEW h \in 1..m + 1, NEW i \in 1..Len(levels[h])
      PROVE  new[Sigma(f, h - 1) + i] = levels[h][i]
  <2>1. CASE h = m + 1
    <3>1. h - 1 = m /\ levels[h] = levels[m + 1]
      BY <2>1
    <3>. QED BY <1>5, <3>1
  <2>2. CASE h # m + 1
    <3>1. h \in 1..m /\ h - 1 \in Nat /\ (h - 1) + 1 = h /\ h \in 1..L /\ h - 1 \in 0..m /\ h \in 0..m
      BY <1>1, <2>2
    <3>2. /\ Sigma(f, h) = Sigma(f, h - 1) + f[h] /\ f[h] = Len(levels[h]) /\ f[h] \in Nat
      <4>1. Sigma(f, (h - 1) + 1) = Sigma(f, h - 1) + f[(h - 1) + 1]
        BY <3>1, SigmaUnfolds
      <4>. QED BY <1>1, <3>1, <4>1
    <3>3. Sigma(f, h - 1) \in Nat
      <4>1. Naturals(f, h - 1)
        BY <1>1, <3>1 DEF Naturals
      <4>. QED BY <3>1, <4>1, SigmaType
    <3>4. Sigma(f, h) <= A
      BY <1>2, <3>1, SigmaRises
    <3>. HIDE DEF f, A
    <3>5. Sigma(f, h - 1) + i \in 1..A
      BY <1>3, <3>2, <3>3, <3>4
    <3>. QED BY <1>4, <1>5, <3>1, <3>5
  <2>. QED BY <2>1, <2>2
<1>. QED BY <1>3, <1>5, <1>6 DEF Flat

joining(p, q, i, s) == IF i = 1 THEN q[i] ELSE s \o q[i]
Joins == INSTANCE FoldTheorems WITH step <- joining, choose <- lastOf, Good <- anything

\* FlattenSeq puts the levels one after the other.
LEMMA FlattenIs ==
  ASSUME NEW levels, Lists(levels), Len(levels) # 0
  PROVE  Flat(levels, Len(levels), FlattenSeq(levels))
<1>. DEFINE L == Len(levels)
            IsFlat(g) == g = [i \in 1..L |-> IF i = 1 THEN levels[i] ELSE g[i - 1] \o levels[i]]
            upTo(i) == Joins!Left(0, levels, <<>>, i)
            f == [i \in 1..L |-> upTo(i)]
            c == CHOOSE g : IsFlat(g)
<1>1. L \in Nat /\ \A h \in 1..L : List(levels[h])
  BY LevelLengths DEF Lists
<1>2. IsFlat(f)
  <2>1. Joins!ChoosesLast
    BY DEF Joins!ChoosesLast, lastOf
  <2>2. ASSUME NEW i \in 1..L
        PROVE  upTo(i) = IF i = 1 THEN levels[i] ELSE f[i - 1] \o levels[i]
    <3>1. i - 1 \in Nat /\ (i - 1) + 1 = i /\ (i # 1 => i - 1 \in 1..L)
      BY <1>1
    <3>2. Joins!Left(0, levels, <<>>, (i - 1) + 1) = joining(0, levels, (i - 1) + 1, Joins!Left(0, levels, <<>>, i - 1))
      BY <2>1, <3>1, Joins!LeftOfMore
    <3>3. upTo(i) = IF i = 1 THEN levels[i] ELSE upTo(i - 1) \o levels[i]
      BY <3>1, <3>2 DEF joining
    <3>4. i # 1 => f[i - 1] = upTo(i - 1)
      BY <3>1
    <3>. HIDE DEF upTo, f
    <3>. QED BY <3>3, <3>4
  <2>. HIDE DEF upTo
  <2>. QED BY <2>2
<1>3. FlattenSeq(levels) = c[L]
  BY DEF FlattenSeq
<1>. HIDE DEF f
<1>4. c = [i \in 1..L |-> IF i = 1 THEN levels[i] ELSE c[i - 1] \o levels[i]]
  <2>. HIDE DEF IsFlat
  <2>1. IsFlat(c)
    BY <1>2
  <2>. QED BY <2>1 DEF IsFlat
<1>. HIDE DEF c
<1>5. \A i \in 1..L : c[i] = IF i = 1 THEN levels[i] ELSE c[i - 1] \o levels[i]
  <2>. DEFINE G(i) == IF i = 1 THEN levels[i] ELSE c[i - 1] \o levels[i]
  <2>1. c = [i \in 1..L |-> G(i)]
    BY <1>4
  <2>. HIDE DEF G
  <2>2. \A i \in 1..L : c[i] = G(i)
    BY <2>1
  <2>. QED BY <2>2 DEF G
<1>. DEFINE T == {m \in Nat : m + 1 <= L => Flat(levels, m + 1, c[m + 1])}
<1>6. 0 \in T
  <2>1. SUFFICES ASSUME 0 + 1 <= L PROVE Flat(levels, 0 + 1, c[0 + 1])
    OBVIOUS
  <2>2. 1 \in 1..L /\ 0 + 1 = 1
    BY <1>1, <2>1
  <2>3. c[1] = levels[1]
    BY <1>5, <2>2
  <2>4. List(levels[1]) /\ Len(levels[1]) \in Nat /\ lens(levels)[1] = Len(levels[1])
    BY <1>1, <2>2, LevelLengths
  <2>5. Sigma(lens(levels), 1) = Len(levels[1]) /\ Sigma(lens(levels), 0) = 0
    <3>1. /\ Sigma(lens(levels), 0 + 1) = Sigma(lens(levels), 0) + lens(levels)[0 + 1]
          /\ Sigma(lens(levels), 0) = 0
      BY SigmaUnfolds
    <3>. QED BY <2>2, <2>4, <3>1
  <2>6. \A h \in 1..1 : h = 1 /\ h - 1 = 0
    OBVIOUS
  <2>7. \A i \in 1..Len(levels[1]) : 0 + i = i
    BY <2>4
  <2>8. \A h \in 1..1 : \A i \in 1..Len(levels[h]) :
          levels[1][Sigma(lens(levels), h - 1) + i] = levels[h][i]
    BY <2>5, <2>6, <2>7
  <2>9. Flat(levels, 1, levels[1])
    BY <2>4, <2>5, <2>8 DEF Flat
  <2>. QED BY <2>2, <2>3, <2>9
<1>7. ASSUME NEW m \in Nat, m \in T PROVE m + 1 \in T
  <2>1. SUFFICES ASSUME (m + 1) + 1 <= L PROVE Flat(levels, (m + 1) + 1, c[(m + 1) + 1])
    OBVIOUS
  <2>2. Flat(levels, m + 1, c[m + 1])
    BY <1>1, <1>7, <2>1
  <2>3. (m + 1) + 1 \in 1..L /\ (m + 1) + 1 # 1 /\ ((m + 1) + 1) - 1 = m + 1 /\ m + 1 \in Nat
    BY <1>1, <2>1
  <2>4. c[(m + 1) + 1] = c[m + 1] \o levels[(m + 1) + 1]
    BY <1>5, <2>3
  <2>5. Flat(levels, (m + 1) + 1, c[(m + 1) + 1])
    <3>. DEFINE a == c[m + 1]
                b == levels[(m + 1) + 1]
                new == c[(m + 1) + 1]
    <3>1. List(a) /\ List(b) /\ new = a \o b
      BY <1>1, <2>2, <2>3, <2>4 DEF Flat
    <3>. HIDE DEF a, b, new
    <3>2. List(new) /\ Len(new) = Len(a) + Len(b)
      BY <3>1, ListConcat
    <3>3. \A i \in 1..Len(a) : new[i] = a[i]
      BY <3>1, ListConcat
    <3>4. \A i \in 1..Len(b) : new[Len(a) + i] = b[i]
      BY <3>1, ListConcat
    <3>5. Flat(levels, m + 1, a) /\ b = levels[(m + 1) + 1]
      BY <2>2 DEF a, b
    <3>6. Flat(levels, (m + 1) + 1, new)
      <4>. HIDE DEF L
      <4>. QED BY <2>1, <2>3, <3>2, <3>3, <3>4, <3>5, FlatStep DEF L
    <3>. QED BY <3>6 DEF new
  <2>. QED BY <2>5
<1>8. \A m \in Nat : m \in T
  <2>. HIDE DEF T
  <2>. QED BY <1>6, <1>7, Sums!OverNaturals
<1>9. L - 1 \in Nat /\ (L - 1) + 1 = L
  <2>1. L # 0
    OBVIOUS
  <2>. HIDE DEF L
  <2>. QED BY <1>1, <2>1
<1>10. (L - 1) + 1 <= L => Flat(levels, (L - 1) + 1, c[(L - 1) + 1])
  BY <1>8, <1>9
<1>. HIDE DEF L, T, IsFlat
<1>11. Flat(levels, L, c[L])
  BY <1>1, <1>9, <1>10
<1>. QED BY <1>3, <1>11 DEF L
\* A sketch of more, read back: the levels are cut out of the items again, and the
\* other fields are as they were written.
LEMMA FullIs ==
  ASSUME NEW most \in Nat, Powers(most + 1), NEW s, Sound(s, most),
         NEW b, b.k = s.k, b.n = s.n, b.items = FlattenSeq(s.levels),
         b.starts = [h \in 1..Len(s.levels) |->
                       freeCells(s) + retained(SubSeq(s.levels, 1, h - 1))]
  PROVE  /\ Sound(deserializeFull(b), most)
         /\ deserializeFull(b) = [newSketch(s.k) EXCEPT
              !.n = s.n, !.minK = b.minK, !.min = b.min, !.max = b.max,
              !.itemsSize = s.itemsSize, !.isLevelZeroSorted = b.sorted, !.levels = s.levels]
<1>. DEFINE levels == s.levels
            L == Len(levels)
            f == lens(levels)
            free == freeCells(s)
            capacity == compute_total_capacity(s.k, L)
            ends == Append(Tail(b.starts), capacity)
            place(x) == x - b.starts[1]
            new == [h \in 1..L |-> SubSeq(b.items, place(b.starts[h]) + 1, place(ends[h]))]
            d == deserializeFull(b)
<1>1. /\ DOMAIN s = SketchFields /\ s.k \in Nat /\ s.k >= M /\ s.n \in 0..most
      /\ Stack(levels, s.n) /\ s.itemsSize = capacity /\ Held(levels) <= s.itemsSize
      /\ Lists(levels) /\ L \in Nat /\ L >= 1 /\ Held(levels) \in Nat /\ capacity \in Nat
      /\ free = capacity - Held(levels)
  <2>1. /\ DOMAIN s = SketchFields /\ s.k \in Nat /\ s.k >= M /\ s.n \in 0..most
        /\ Stack(levels, s.n) /\ s.itemsSize = capacity /\ Held(levels) <= s.itemsSize
    BY DEF Sound
  <2>2. Lists(levels) /\ Held(levels) \in Nat /\ s.itemsSize \in Nat /\ retained(levels) = Held(levels)
        /\ L \in 1..s.n + 1 /\ s.n \in Nat
    BY SoundIs
  <2>3. free = s.itemsSize - Held(levels)
    BY <2>2 DEF freeCells
  <2>4. L \in Nat /\ L >= 1
    <3>. HIDE DEF L
    <3>. QED BY <2>2
  <2>. QED BY <2>1, <2>2, <2>3, <2>4
<1>2. /\ Naturals(f, L) /\ \A i \in 1..L : f[i] = Len(levels[i]) /\ f[i] \in Nat
      /\ Held(levels) = Sigma(f, L)
  BY <1>1, LevelLengths DEF Held
<1>3. \A m \in 0..L : retained(SubSeq(levels, 1, m)) = Sigma(f, m) /\ Sigma(f, m) \in Nat
  <2>1. ASSUME NEW m \in 0..L PROVE retained(SubSeq(levels, 1, m)) = Sigma(f, m) /\ Sigma(f, m) \in Nat
    <3>. DEFINE q == SubSeq(levels, 1, m)
    <3>1. List(q) /\ Len(q) = m /\ \A i \in 1..m : q[i] = levels[i]
      <4>1. PICK S : levels \in Seq(S)
        BY <1>1 DEF Lists, List
      <4>2. m \in Nat /\ m <= Len(levels)
        BY <1>1
      <4>3. q \in Seq(S) /\ Len(q) = m /\ \A i \in 1..m : q[i] = levels[i]
        BY <4>1, <4>2
      <4>. HIDE DEF q
      <4>. QED BY <4>3 DEF List
    <3>. HIDE DEF q
    <3>2. retained(q) = Sigma(lens(q), m)
      BY <3>1, RetainedIsSum
    <3>3. \A i \in 1..m : i \in 1..L
      <4>. HIDE DEF L
      <4>. QED BY <1>1
    <3>4. \A i \in 1..m : lens(q)[i] = f[i]
      BY <1>2, <3>1, <3>3 DEF lens
    <3>5. Sigma(lens(q), m) = Sigma(f, m)
      BY <3>4, SigmaSame
    <3>6. Sigma(f, m) \in Nat
      BY <1>2, <3>3, SigmaType DEF Naturals
    <3>. QED BY <3>2, <3>5, <3>6 DEF q
  <2>. QED BY <2>1
<1>. HIDE DEF L, f, free, capacity
<1>4. /\ \A h \in 1..L : b.starts[h] = free + Sigma(f, h - 1)
      /\ List(b.starts) /\ Len(b.starts) = L
  <2>1. b.starts = [h \in 1..L |-> free + retained(SubSeq(levels, 1, h - 1))]
    BY DEF L, free
  <2>2. \A h \in 1..L : b.starts[h] = free + retained(SubSeq(levels, 1, h - 1))
    BY <2>1
  <2>3. b.starts = [h \in 1..L |-> b.starts[h]]
    BY <2>1
  <2>4. \A h \in 1..L : h - 1 \in 0..L
    BY <1>1
  <2>5. \A h \in 1..L : b.starts[h] = free + Sigma(f, h - 1)
    BY <1>3, <2>2, <2>4
  <2>. QED BY <1>1, <2>3, <2>5, ListOfPlaces
<1>5. \A h \in 1..L : ends[h] = free + Sigma(f, h)
  <2>. DEFINE q == Tail(b.starts)
  <2>1. List(q) /\ Len(q) = L - 1 /\ \A h \in 1..L - 1 : q[h] = b.starts[h + 1]
    <3>1. PICK S : b.starts \in Seq(S)
      BY <1>4 DEF List
    <3>2. Len(b.starts) # 0
      BY <1>1, <1>4
    <3>3. b.starts # <<>>
      BY <3>2
    <3>4. q \in Seq(S) /\ Len(q) = L - 1 /\ \A h \in 1..L - 1 : q[h] = b.starts[h + 1]
      BY <1>1, <1>4, <3>1, <3>3
    <3>. HIDE DEF q
    <3>. QED BY <3>4 DEF List
  <2>. HIDE DEF q
  <2>2. /\ \A h \in 1..L - 1 : Append(q, capacity)[h] = q[h]
        /\ Append(q, capacity)[(L - 1) + 1] = capacity
    BY <2>1, ListAppend
  <2>3. ASSUME NEW h \in 1..L PROVE Append(q, capacity)[h] = free + Sigma(f, h)
    <3>1. CASE h = L
      <4>1. Append(q, capacity)[h] = capacity
        <5>1. (L - 1) + 1 = L
          BY <1>1
        <5>. QED BY <2>2, <3>1, <5>1
      <4>2. free + Sigma(f, L) = capacity
        BY <1>1, <1>2
      <4>. QED BY <3>1, <4>1, <4>2
    <3>2. CASE h # L
      <4>1. h \in 1..L - 1 /\ h + 1 \in 1..L /\ (h + 1) - 1 = h
        BY <1>1, <3>2
      <4>2. Append(q, capacity)[h] = b.starts[h + 1]
        BY <2>1, <2>2, <4>1
      <4>3. b.starts[h + 1] = free + Sigma(f, (h + 1) - 1)
        BY <1>4, <4>1
      <4>. QED BY <4>1, <4>2, <4>3
    <3>. QED BY <3>1, <3>2
  <2>. QED BY <2>3 DEF q
<1>. HIDE DEF ends
<1>flat. \A h \in 1..L : \A i \in 1..Len(levels[h]) : b.items[Sigma(f, h - 1) + i] = levels[h][i]
  <2>1. L # 0
    BY <1>1
  <2>2. Flat(levels, L, b.items)
    BY <1>1, <2>1, FlattenIs DEF L
  <2>. QED BY <2>2 DEF Flat, f
<1>6. ASSUME NEW h \in 1..L
      PROVE  /\ List(new[h]) /\ Len(new[h]) = Len(levels[h])
             /\ \A i \in 1..Len(levels[h]) : new[h][i] = levels[h][i]
  <2>. DEFINE x == place(b.starts[h]) + 1
              y == place(ends[h])
              q == SubSeq(b.items, x, y)
              A == Sigma(f, h - 1)
  <2>1. h - 1 \in Nat /\ (h - 1) + 1 = h /\ h - 1 \in 0..L /\ 1 \in 1..L /\ 0 \in 0..L /\ 1 - 1 = 0
    BY <1>1
  <2>2. A \in Nat /\ Sigma(f, 0) = 0 /\ Sigma(f, h) = A + f[h] /\ f[h] \in Nat
    <3>1. A \in Nat /\ f[h] \in Nat
      BY <1>2, <1>3, <2>1
    <3>2. Sigma(f, 0) = 0 /\ Sigma(f, (h - 1) + 1) = Sigma(f, h - 1) + f[(h - 1) + 1]
      BY <2>1, SigmaUnfolds
    <3>. QED BY <2>1, <3>1, <3>2
  <2>3. free \in Int
    BY <1>1
  <2>4. x = A + 1 /\ y = A + f[h]
    <3>1. b.starts[1] = free + 0
      BY <1>4, <2>1, <2>2
    <3>2. b.starts[h] = free + A
      BY <1>4
    <3>3. ends[h] = free + (A + f[h])
      BY <1>5, <2>2
    <3>. HIDE DEF A
    <3>. QED BY <2>2, <2>3, <3>1, <3>2, <3>3
  <2>. HIDE DEF x, y, A
  <2>5. DOMAIN q = 1..f[h]
    <3>1. y - x + 1 = f[h]
      BY <2>2, <2>4
    <3>2. x \in Int /\ y \in Int
      BY <2>2, <2>4
    <3>3. DOMAIN SubSeq(b.items, x, y) = 1..y - x + 1
      BY <3>2
    <3>. QED BY <3>1, <3>3
  <2>6. q = [i \in 1..f[h] |-> q[i]]
    <3>1. x \in Int /\ y \in Int
      BY <2>2, <2>4
    <3>. DEFINE item(i) == b.items[x + i - 1]
    <3>2. q = [i \in 1..y - x + 1 |-> item(i)]
      BY <3>1
    <3>. HIDE DEF q, item
    <3>3. q = [i \in DOMAIN q |-> q[i]]
      BY <3>2
    <3>. QED BY <2>5, <3>3
  <2>9. \A i \in 1..f[h] : q[i] = levels[h][i]
    <3>. DEFINE item(i) == b.items[x + i - 1]
    <3>1. q = [i \in 1..y - x + 1 |-> item(i)]
      BY <2>2, <2>4
    <3>2. y - x + 1 = f[h]
      BY <2>2, <2>4
    <3>. HIDE DEF q, item
    <3>3. \A i \in 1..f[h] : q[i] = item(i)
      BY <3>1, <3>2
    <3>4. \A i \in 1..f[h] : x + i - 1 = A + i
      BY <2>2, <2>4
    <3>5. \A i \in 1..f[h] : b.items[A + i] = levels[h][i]
      BY <1>2, <1>flat DEF A
    <3>. QED BY <3>3, <3>4, <3>5 DEF item
  <2>. HIDE DEF q
  <2>7. List(q) /\ Len(q) = f[h]
    BY <2>2, <2>6, ListOfPlaces
  <2>8. new[h] = q
    BY DEF q, x, y
  <2>. HIDE DEF new
  <2>. QED BY <1>2, <2>7, <2>8, <2>9
<1>7. /\ DOMAIN d = SketchFields /\ d.k = s.k /\ d.n = s.n /\ d.itemsSize = capacity /\ d.levels = new
  <2>1. DOMAIN newSketch(s.k) = SketchFields /\ newSketch(s.k).k = s.k
    BY <1>1, NewIsSound DEF newSketch
  <2>2. d = [newSketch(s.k) EXCEPT
               !.n = s.n, !.minK = b.minK, !.min = b.min, !.max = b.max,
               !.itemsSize = capacity, !.isLevelZeroSorted = b.sorted, !.levels = new]
    BY <1>4 DEF deserializeFull, capacity, ends
  <2>. HIDE DEF d, new
  <2>. QED BY <2>1, <2>2 DEF SketchFields
<1>8. new = [h \in 1..L |-> new[h]]
  OBVIOUS
<1>. HIDE DEF new, d
<1>9. List(new) /\ Len(new) = L
  BY <1>1, <1>8, ListOfPlaces
<1>10. Lists(new)
  BY <1>6, <1>9 DEF Lists
<1>11. Stack(new, s.n) /\ Held(new) = Held(levels)
  <2>1. Len(new) = Len(levels) /\ \A h \in 1..Len(levels) : Len(new[h]) = Len(levels[h])
    BY <1>6, <1>9 DEF L
  <2>. QED BY <1>1, <1>10, <2>1, StackIsAboutLengths
<1>12. Sound(d, most)
  BY <1>1, <1>7, <1>9, <1>11 DEF Sound, capacity
<1>13. new = levels
  <2>1. \A h \in 1..L : new[h] = levels[h]
    <3>1. ASSUME NEW h \in 1..L PROVE new[h] = levels[h]
      <4>1. List(new[h]) /\ List(levels[h]) /\ Len(new[h]) = Len(levels[h])
        BY <1>1, <1>6 DEF Lists, L
      <4>2. \A i \in 1..Len(new[h]) : new[h][i] = levels[h][i]
        BY <1>6
      <4>. QED BY <4>1, <4>2, ListEqual
    <3>. QED BY <3>1
  <2>2. List(levels) /\ Len(levels) = L
    BY <1>1 DEF Lists, L
  <2>. QED BY <1>9, <2>1, <2>2, ListEqual
<1>14. d = [newSketch(s.k) EXCEPT
              !.n = s.n, !.minK = b.minK, !.min = b.min, !.max = b.max,
              !.itemsSize = s.itemsSize, !.isLevelZeroSorted = b.sorted, !.levels = s.levels]
  <2>1. d = [newSketch(s.k) EXCEPT
               !.n = s.n, !.minK = b.minK, !.min = b.min, !.max = b.max,
               !.itemsSize = capacity, !.isLevelZeroSorted = b.sorted, !.levels = new]
    BY <1>4 DEF deserializeFull, capacity, ends, d, new
  <2>. HIDE DEF d
  <2>. QED BY <1>1, <1>13, <2>1
<1>. QED BY <1>12, <1>14 DEF d

\* Written and read back.
LEMMA ReloadedIs ==
  ASSUME NEW most \in Nat, Powers(most + 1), NEW s, Sound(s, most)
  PROVE  Sound(reloaded(s), most)
<1>. DEFINE b == serialize(s)
            read == deserialize(b)
            d == reloaded(s)
<1>1. Sound(read, most)
  <2>1. CASE is_empty(s)
    <3>1. b.empty = TRUE /\ b.k = s.k
      BY <2>1 DEF serialize
    <3>2. read = newSketch(s.k)
      BY <3>1 DEF deserialize
    <3>. QED BY <3>2, NewIsSound DEF Sound
  <2>2. CASE ~ is_empty(s) /\ s.n = 1
    <3>1. b.empty = FALSE /\ b.single = TRUE /\ b.k = s.k /\ b.items = FlattenSeq(s.levels)
      BY <2>2 DEF serialize
    <3>. HIDE DEF b
    <3>2. read = deserializeSingle(b)
      BY <3>1 DEF deserialize
    <3>3. Sound(deserializeSingle(b), most)
      BY <2>2, <3>1, SingleIs
    <3>. QED BY <3>2, <3>3
  <2>3. CASE ~ is_empty(s) /\ s.n # 1
    <3>1. /\ b.empty = FALSE /\ b.single = FALSE /\ b.k = s.k /\ b.n = s.n
          /\ b.items = FlattenSeq(s.levels)
          /\ b.starts = [h \in 1..Len(s.levels) |->
                           freeCells(s) + retained(SubSeq(s.levels, 1, h - 1))]
      BY <2>3 DEF serialize
    <3>. HIDE DEF b
    <3>2. read = deserializeFull(b)
      BY <3>1 DEF deserialize
    <3>3. Sound(deserializeFull(b), most)
      BY <3>1, FullIs
    <3>. QED BY <3>2, <3>3
  <2>. QED BY <2>1, <2>2, <2>3
<1>2. d = [read EXCEPT !.err = s.err]
  BY DEF reloaded
<1>. HIDE DEF read, d
<1>3. /\ DOMAIN d = SketchFields /\ d.k = read.k /\ d.n = read.n /\ d.levels = read.levels
      /\ d.itemsSize = read.itemsSize
  BY <1>1, <1>2 DEF Sound, SketchFields
<1>4. Sound(d, most)
  BY <1>1, <1>3, SoundIsAboutFour
<1>. QED BY <1>4 DEF d

\* The coins of an operation are put into the sketch, and taken out of it.
LEMMA CoinsDoNotMatter ==
  ASSUME NEW most, NEW s, Sound(s, most), NEW coins
  PROVE  /\ Sound(tossing(s, coins), most) /\ Sound(tossed(s), most)
         /\ tossing(s, coins).n = s.n
<1>. DEFINE a == tossing(s, coins)
            b == tossed(s)
<1>1. DOMAIN s = SketchFields
  BY DEF Sound
<1>2. /\ DOMAIN a = SketchFields /\ a.k = s.k /\ a.n = s.n /\ a.levels = s.levels
      /\ a.itemsSize = s.itemsSize
  BY <1>1 DEF tossing, SketchFields
<1>3. /\ DOMAIN b = SketchFields /\ b.k = s.k /\ b.n = s.n /\ b.levels = s.levels
      /\ b.itemsSize = s.itemsSize
  BY <1>1 DEF tossed, SketchFields
<1>. HIDE DEF a, b
<1>4. Sound(a, most) /\ Sound(b, most)
  BY <1>2, <1>3, SoundIsAboutFour
<1>. QED BY <1>2, <1>4 DEF a, b

-----------------------------------------------------------------------------
(* The inductive invariant: both sketches are sound. *)

KInv ==
  /\ DOMAIN sketch = Ids
  /\ \A i \in Ids : Sound(sketch[i], MaxN[i])

\* What the bounds of the model give.
LEMMA Bounds ==
  ASSUME NEW i \in Ids
  PROVE  MaxN[i] \in Nat /\ Powers(MaxN[i] + 1)
BY MaxNAssumption DEF Powers

\* One sketch is exchanged for another sound one.
LEMMA OneSketchChanges ==
  ASSUME KInv, NEW i \in Ids, NEW s, Sound(s, MaxN[i]), sketch' = [sketch EXCEPT ![i] = s]
  PROVE  KInv'
BY DEF KInv

\* New sketches are sound.
LEMMA InitSound == Init => KInv
<1>1. SUFFICES ASSUME Init PROVE KInv
  OBVIOUS
<1>2. sketch \in [Ids -> {newSketch(k) : k \in Ks}]
  BY <1>1 DEF Init
<1>3. ASSUME NEW i \in Ids PROVE Sound(sketch[i], MaxN[i])
  <2>1. PICK k \in Ks : sketch[i] = newSketch(k)
    BY <1>2
  <2>. QED BY <2>1, Bounds, KsAssumption, NewIsSound
<1>. QED BY <1>2, <1>3 DEF KInv

\* Every operation leaves them sound.
LEMMA NextSound == KInv /\ [Next]_vars => KInv'
<1>1. SUFFICES ASSUME KInv, [Next]_vars PROVE KInv'
  OBVIOUS
<1>2. \A i \in Ids : Sound(sketch[i], MaxN[i])
  BY <1>1 DEF KInv
<1>3. ASSUME NEW i \in Ids, NEW k \in Ks, create(i, k) PROVE KInv'
  <2>1. Sound(newSketch(k), MaxN[i])
    BY Bounds, KsAssumption, NewIsSound
  <2>. QED BY <1>1, <1>3, <2>1, OneSketchChanges DEF create
<1>4. ASSUME NEW i \in Ids, NEW v \in Values, update(i, v) PROVE KInv'
  <2>1. PICK coin \in 0..1 :
          sketch' = [sketch EXCEPT ![i] = tossed(updated(tossing(@, <<coin>>), v))]
    BY <1>4 DEF update
  <2>. DEFINE s == sketch[i]
              a == tossing(s, <<coin>>)
              b == updated(a, v)
  <2>2. Sound(a, MaxN[i]) /\ a.n = s.n
    BY <1>2, CoinsDoNotMatter
  <2>3. a.n < MaxN[i]
    BY <1>4, <2>2 DEF update
  <2>. HIDE DEF a
  <2>4. Sound(b, MaxN[i])
    BY <2>2, <2>3, Bounds, UpdatedIs
  <2>. HIDE DEF b
  <2>5. Sound(tossed(b), MaxN[i])
    BY <2>4, CoinsDoNotMatter
  <2>6. sketch' = [sketch EXCEPT ![i] = tossed(b)]
    BY <2>1 DEF a, b
  <2>. QED BY <1>1, <2>5, <2>6, OneSketchChanges
<1>5. ASSUME NEW i \in Ids, NEW j \in Ids, assign(i, j) PROVE KInv'
  <2>1. Sound(sketch[j], MaxN[i])
    <3>1. Sound(sketch[j], MaxN[j]) /\ sketch[j].n <= MaxN[i]
      BY <1>2, <1>5 DEF assign
    <3>2. sketch[j].n \in 0..MaxN[i]
      BY <3>1, Bounds DEF Sound
    <3>. QED BY <3>1, <3>2 DEF Sound
  <2>. QED BY <1>1, <1>5, <2>1, OneSketchChanges DEF assign
<1>6. ASSUME NEW i \in Ids, NEW j \in Ids, merge(i, j) PROVE KInv'
  <2>1. PICK coins \in drawn :
          sketch' = [sketch EXCEPT ![i] = tossed(merged(tossing(@, coins), sketch[j]))]
    BY <1>6 DEF merge
  <2>. DEFINE s == sketch[i]
              other == sketch[j]
              a == tossing(s, coins)
              b == merged(a, other)
  <2>2. Sound(a, MaxN[i]) /\ a.n = s.n
    BY <1>2, CoinsDoNotMatter
  <2>3. s.n + other.n <= MaxN[i] /\ ~ is_empty(other)
    BY <1>6 DEF merge
  <2>4. Sound(other, MaxN[i])
    <3>1. Sound(other, MaxN[j]) /\ other.n \in Nat /\ s.n \in Nat /\ MaxN[i] \in Nat
      <4>1. s.n \in 0..MaxN[i] /\ other.n \in 0..MaxN[j] /\ Sound(other, MaxN[j])
        BY <1>2 DEF Sound
      <4>. QED BY <4>1, Bounds
    <3>. HIDE DEF s, other
    <3>2. other.n \in 0..MaxN[i]
      BY <2>3, <3>1
    <3>. QED BY <3>1, <3>2 DEF Sound
  <2>. HIDE DEF a
  <2>5. Sound(b, MaxN[i])
    <3>1. a.n + other.n <= MaxN[i]
      BY <2>2, <2>3
    <3>. HIDE DEF s, other
    <3>. QED BY <2>2, <2>3, <2>4, <3>1, Bounds, MergedIs
  <2>. HIDE DEF b
  <2>6. Sound(tossed(b), MaxN[i])
    BY <2>5, CoinsDoNotMatter
  <2>7. sketch' = [sketch EXCEPT ![i] = tossed(b)]
    BY <2>1 DEF a, b
  <2>. QED BY <1>1, <2>6, <2>7, OneSketchChanges
<1>7. ASSUME NEW i \in Ids, query(i) PROVE KInv'
  <2>1. Sound(sort_level_zero(sketch[i]), MaxN[i])
    BY <1>2, Bounds, SortLevelZeroIs
  <2>. QED BY <1>1, <1>7, <2>1, OneSketchChanges DEF query
<1>8. ASSUME NEW i \in Ids, reload(i) PROVE KInv'
  <2>1. Sound(reloaded(sketch[i]), MaxN[i])
    BY <1>2, Bounds, ReloadedIs
  <2>. QED BY <1>1, <1>8, <2>1, OneSketchChanges DEF reload
<1>9. CASE UNCHANGED vars
  BY <1>1, <1>9 DEF KInv, vars
<1>. QED BY <1>1, <1>3, <1>4, <1>5, <1>6, <1>7, <1>8, <1>9 DEF Next

\* The invariant holds in every state.
LEMMA AlwaysSound == Spec => []KInv
BY InitSound, NextSound, PTL DEF Spec

\* What it says of one sketch: its weights, and its space.
LEMMA SoundWeighs == KInv => WeightIsN
<1>1. SUFFICES ASSUME KInv, NEW i \in Ids
               PROVE  /\ sum_the_sample_weights(sketch[i].levels) = sketch[i].n
                      /\ is_empty(sketch[i]) \/ Len(sketch[i].levels) <= ub_on_num_levels(sketch[i].n)
  BY DEF WeightIsN
<1>. DEFINE s == sketch[i]
<1>2. Sound(s, MaxN[i])
  BY <1>1 DEF KInv
<1>. HIDE DEF s
<1>3. Stack(s.levels, s.n) /\ s.n \in Nat /\ Powers(s.n + 1)
  BY <1>2, Bounds, SoundIs DEF Sound
<1>4. sum_the_sample_weights(s.levels) = s.n
  BY <1>3, WeightIsSum DEF Stack, Lists
<1>5. is_empty(s) \/ Len(s.levels) <= ub_on_num_levels(s.n)
  BY <1>3, StackIsLow DEF is_empty
<1>. QED BY <1>4, <1>5 DEF s

\* The space of a sketch follows from its soundness: a full buffer has a full level.
LEMMA SoundFits == KInv => SpaceBounded
<1>1. SUFFICES ASSUME KInv, NEW i \in Ids
               PROVE  LET s == sketch[i]
                          numLevels == Len(s.levels)
                      IN /\ s.itemsSize = compute_total_capacity(s.k, numLevels)
                         /\ freeCells(s) >= 0
                         /\ freeCells(s) = 0 =>
                              \E h \in 0..numLevels - 1 :
                                Len(s.levels[h + 1]) >= level_capacity(s.k, numLevels, h)
  BY DEF SpaceBounded
<1>. DEFINE s == sketch[i]
<1>2. Sound(s, MaxN[i])
  BY <1>1 DEF KInv
<1>. HIDE DEF s
<1>3. s.itemsSize = compute_total_capacity(s.k, Len(s.levels)) /\ Held(s.levels) <= s.itemsSize
  BY <1>2 DEF Sound
<1>4. freeCells(s) >= 0
  <2>1. retained(s.levels) = Held(s.levels) /\ Held(s.levels) \in Nat /\ s.itemsSize \in Nat
    BY <1>2, Bounds, SoundIs
  <2>2. freeCells(s) = s.itemsSize - Held(s.levels)
    BY <2>1 DEF freeCells
  <2>. QED BY <1>3, <2>1, <2>2
<1>5. freeCells(s) = 0 => \E h \in 0..Len(s.levels) - 1 :
                            Len(s.levels[h + 1]) >= level_capacity(s.k, Len(s.levels), h)
  BY <1>2, Bounds, FullHasFullLevel
<1>. QED BY <1>3, <1>4, <1>5 DEF s

(* After any sequence of updates, merges, assignments, queries and reloads, the
   weights of the retained items add up to n, and there are no more levels than
   the arrays of a merge were allocated for. *)
THEOREM WeightsAddUp == Spec => []WeightIsN
BY AlwaysSound, SoundWeighs, PTL

(* After any such sequence, the buffer has the size that k and the number of
   levels give, holds no more than that, and when it is full
   find_level_to_compact has a level to find. *)
THEOREM SpaceSuffices == Spec => []SpaceBounded
BY AlwaysSound, SoundFits, PTL

-----------------------------------------------------------------------------
(* How many items are below a value. *)

\* Of the first m items of a list.
Below(list, m, v) == Cardinality({p \in 1..m : list[p] < v})

\* A list of m natural numbers.
Items(list) == list \in Seq(Nat)

\* No item is below v before the first, and each that is counts one.
LEMMA BelowUnfolds ==
  ASSUME NEW list, NEW v
  PROVE  /\ Below(list, 0, v) = 0
         /\ \A m \in Nat : /\ Below(list, m, v) \in Nat
                           /\ Below(list, m + 1, v) =
                                Below(list, m, v) + (IF list[m + 1] < v THEN 1 ELSE 0)
<1>. DEFINE S(m) == {p \in 1..m : list[p] < v}
<1>1. S(0) = {}
  OBVIOUS
<1>2. \A m \in Nat : IsFiniteSet(S(m)) /\ Cardinality(S(m)) \in Nat
  <2>1. \A m \in Nat : S(m) \subseteq 1..m /\ IsFiniteSet(1..m)
    BY FS_Interval
  <2>. QED BY <2>1, FS_Subset, FS_CardinalityType
<1>3. ASSUME NEW m \in Nat
      PROVE  Cardinality(S(m + 1)) = Cardinality(S(m)) + (IF list[m + 1] < v THEN 1 ELSE 0)
  <2>1. CASE list[m + 1] < v
    <3>1. S(m + 1) = S(m) \union {m + 1} /\ m + 1 \notin S(m)
      BY <2>1
    <3>. QED BY <1>2, <2>1, <3>1, FS_AddElement
  <2>2. CASE ~ (list[m + 1] < v)
    <3>1. S(m + 1) = S(m)
      BY <2>2
    <3>. QED BY <1>2, <2>2, <3>1
  <2>. QED BY <2>1, <2>2
<1>. QED BY <1>1, <1>2, <1>3, FS_EmptySet DEF Below

\* There are no more of them than items.
LEMMA BelowIsLess ==
  ASSUME NEW list, NEW v, NEW m \in Nat
  PROVE  Below(list, m, v) \in 0..m
<1>1. IsFiniteSet(1..m) /\ Cardinality(1..m) = m
  BY FS_Interval
<1>2. {p \in 1..m : list[p] < v} \subseteq 1..m
  OBVIOUS
<1>. QED BY <1>1, <1>2, FS_Subset, FS_CardinalityType DEF Below

\* Lists that are the same have the same items below.
LEMMA BelowSame ==
  ASSUME NEW a, NEW b, NEW m \in Nat, \A p \in 1..m : a[p] = b[p], NEW v
  PROVE  Below(a, m, v) = Below(b, m, v)
<1>1. {p \in 1..m : a[p] < v} = {p \in 1..m : b[p] < v}
  OBVIOUS
<1>. QED BY <1>1 DEF Below

\* One more item at the front.
LEMMA BelowShifted ==
  ASSUME NEW a, NEW b, NEW v, NEW n \in Nat, \A p \in 1..n : b[p + 1] = a[p]
  PROVE  Below(b, n + 1, v) = (IF b[1] < v THEN 1 ELSE 0) + Below(a, n, v)
<1>. DEFINE e == IF b[1] < v THEN 1 ELSE 0
            T == {m \in Nat : m <= n => Below(b, m + 1, v) = e + Below(a, m, v)}
<1>0. e \in Nat
  OBVIOUS
<1>1. 0 \in T
  <2>1. Below(b, 0 + 1, v) = Below(b, 0, v) + (IF b[0 + 1] < v THEN 1 ELSE 0) /\ Below(b, 0, v) = 0
        /\ Below(a, 0, v) = 0
    BY BelowUnfolds
  <2>. QED BY <1>0, <2>1
<1>2. ASSUME NEW m \in Nat, m \in T PROVE m + 1 \in T
  <2>1. SUFFICES ASSUME m + 1 <= n
                 PROVE  Below(b, (m + 1) + 1, v) = e + Below(a, m + 1, v)
    OBVIOUS
  <2>2. Below(b, m + 1, v) = e + Below(a, m, v) /\ b[(m + 1) + 1] = a[m + 1]
    BY <1>2, <2>1
  <2>3. /\ Below(b, (m + 1) + 1, v) = Below(b, m + 1, v) + (IF b[(m + 1) + 1] < v THEN 1 ELSE 0)
        /\ Below(a, m + 1, v) = Below(a, m, v) + (IF a[m + 1] < v THEN 1 ELSE 0)
        /\ Below(a, m, v) \in Nat
    <3>1. m + 1 \in Nat
      OBVIOUS
    <3>. HIDE DEF T
    <3>. QED BY <3>1, BelowUnfolds
  <2>. HIDE DEF e
  <2>. QED BY <1>0, <2>2, <2>3
<1>. HIDE DEF T
<1>3. n \in T
  BY <1>1, <1>2, Sums!OverNaturals
<1>. QED BY <1>3 DEF T

-----------------------------------------------------------------------------
(* Ascending lists. *)

Ascending(list) == \A p, q \in 1..Len(list) : p <= q => list[p] <= list[q]

\* In an ascending list, the items below a value are the first ones.
LEMMA BelowAreFirst ==
  ASSUME NEW list, Items(list), Ascending(list), NEW v \in Nat
  PROVE  \A p \in 1..Len(list) : list[p] < v <=> p <= Below(list, Len(list), v)
<1>. DEFINE n == Len(list)
            B(m) == Below(list, m, v)
            T == {m \in Nat : m <= n => \A p \in 1..m : list[p] < v <=> p <= B(m)}
<1>0. n \in Nat /\ \A p \in 1..n : list[p] \in Nat
  BY DEF Items
<1>1. 0 \in T
  OBVIOUS
<1>2. ASSUME NEW m \in Nat, m \in T PROVE m + 1 \in T
  <2>1. SUFFICES ASSUME m + 1 <= n, NEW p \in 1..m + 1
                 PROVE  list[p] < v <=> p <= B(m + 1)
    OBVIOUS
  <2>2. \A x \in 1..m : list[x] < v <=> x <= B(m)
    BY <1>2, <2>1
  <2>3. B(m) \in 0..m /\ B(m + 1) = B(m) + (IF list[m + 1] < v THEN 1 ELSE 0)
    BY BelowIsLess, BelowUnfolds
  <2>4. \A x \in 1..m : list[x] <= list[m + 1] /\ list[x] \in Nat
    <3>1. \A x \in 1..m : x \in 1..n /\ m + 1 \in 1..n /\ x <= m + 1
      BY <1>0, <2>1
    <3>. QED BY <1>0, <3>1 DEF Ascending
  <2>5. list[m + 1] \in Nat
    BY <1>0, <2>1
  <2>. HIDE DEF B, n
  <2>6. CASE list[m + 1] < v
    <3>1. \A x \in 1..m : list[x] < v
      BY <2>4, <2>5, <2>6
    <3>2. B(m) = m
      <4>1. m # 0 => m \in 1..m
        OBVIOUS
      <4>. QED BY <2>2, <2>3, <3>1, <4>1
    <3>. QED BY <2>3, <2>6, <3>1, <3>2
  <2>7. CASE ~ (list[m + 1] < v)
    <3>1. CASE p = m + 1
      BY <2>3, <2>7, <3>1
    <3>2. CASE p # m + 1
      BY <2>1, <2>2, <2>3, <2>7, <3>2
    <3>. QED BY <3>1, <3>2
  <2>. QED BY <2>6, <2>7
<1>. HIDE DEF T
<1>3. n \in T
  BY <1>0, <1>1, <1>2, Sums!OverNaturals
<1>. QED BY <1>3 DEF T

\* What is in a list of natural numbers.
LEMMA ItemsAre ==
  ASSUME NEW list, Items(list)
  PROVE  /\ List(list) /\ Len(list) \in Nat /\ DOMAIN list = 1..Len(list)
         /\ \A p \in 1..Len(list) : list[p] \in Nat
BY DEF Items, List

\* A function over the first n places, of natural numbers, is such a list.
LEMMA ItemsOfPlaces ==
  ASSUME NEW n \in Nat, NEW f, f = [i \in 1..n |-> f[i]], \A i \in 1..n : f[i] \in Nat
  PROVE  Items(f) /\ Len(f) = n
<1>1. f \in [1..n -> Nat]
  OBVIOUS
<1>2. f \in Seq(Nat) /\ Len(f) = n
  BY <1>1
<1>. QED BY <1>2 DEF Items

\* The items of the first list, which are n, and x behind them.
Appended(list, n, x, new) ==
  /\ Items(new) /\ Len(new) = n + 1
  /\ \A v : Below(new, n + 1, v) = Below(list, n, v) + (IF x < v THEN 1 ELSE 0)
  /\ Ascending(list) /\ (\A p \in 1..n : list[p] <= x)
       => Ascending(new) /\ \A p \in 1..n + 1 : new[p] <= x

\* One more item at the end.
LEMMA ItemsAppend ==
  ASSUME NEW list, Items(list), NEW x \in Nat
  PROVE  Appended(list, Len(list), x, Append(list, x))
<1>. DEFINE new == Append(list, x)
            n == Len(list)
<1>1. /\ Items(new) /\ Len(new) = n + 1 /\ n \in Nat
      /\ \A p \in 1..n : new[p] = list[p] /\ list[p] \in Nat
      /\ new[n + 1] = x
  BY DEF Items
<1>. HIDE DEF new, n
<1>2. ASSUME NEW v
      PROVE  Below(new, n + 1, v) = Below(list, n, v) + (IF x < v THEN 1 ELSE 0)
  <2>1. Below(new, n + 1, v) = Below(new, n, v) + (IF new[n + 1] < v THEN 1 ELSE 0)
    BY <1>1, BelowUnfolds
  <2>2. Below(new, n, v) = Below(list, n, v)
    BY <1>1, BelowSame
  <2>. QED BY <1>1, <2>1, <2>2
<1>3. ASSUME Ascending(list), \A p \in 1..n : list[p] <= x
      PROVE  Ascending(new) /\ \A p \in 1..n + 1 : new[p] <= x
  <2>1. \A p \in 1..n + 1 : new[p] <= x
    BY <1>1, <1>3
  <2>2. ASSUME NEW p \in 1..n + 1, NEW q \in 1..n + 1, p <= q PROVE new[p] <= new[q]
    <3>1. CASE q = n + 1
      BY <1>1, <2>1, <3>1
    <3>2. CASE q # n + 1
      <4>1. p \in 1..n /\ q \in 1..n
        BY <1>1, <2>2, <3>2
      <4>2. list[p] <= list[q]
        BY <1>3, <2>2, <4>1 DEF Ascending, n
      <4>. QED BY <1>1, <4>1, <4>2
    <3>. QED BY <3>1, <3>2
  <2>3. Ascending(new)
    BY <1>1, <2>2 DEF Ascending
  <2>. QED BY <2>1, <2>3
<1>4. Appended(list, n, x, new)
  BY <1>1, <1>2, <1>3 DEF Appended
<1>. QED BY <1>4 DEF new, n

-----------------------------------------------------------------------------
(* Merging, sorting and halving. *)

\* One pass over p and q has come to s.a and s.b; what is left of them is not below
\* what has been taken.
passed(p, q, i, s) ==
  /\ DOMAIN s = {"a", "b", "out"}
  /\ s.a \in 0..Len(p) /\ s.b \in 0..Len(q) /\ s.a + s.b = i
  /\ Items(s.out) /\ Len(s.out) = i
  /\ \A v : Below(s.out, i, v) = Below(p, s.a, v) + Below(q, s.b, v)
  /\ Ascending(p) /\ Ascending(q) =>
       /\ Ascending(s.out)
       /\ \A j \in 1..i : /\ s.a < Len(p) => s.out[j] <= p[s.a + 1]
                          /\ s.b < Len(q) => s.out[j] <= q[s.b + 1]
Passes == INSTANCE FoldTheorems WITH step <- taking, choose <- lastOf, Good <- passed

\* An item more.
LEMMA PassStep ==
  ASSUME NEW p, NEW q, Items(p), Items(q), NEW i \in Nat, i < Len(p) + Len(q),
         NEW s, passed(p, q, i, s)
  PROVE  passed(p, q, i + 1, taking(p, q, i + 1, s))
<1>. DEFINE m == Len(p)
            n == Len(q)
            d == taking(p, q, i + 1, s)
<1>1. /\ m \in Nat /\ n \in Nat
      /\ \A j \in 1..m : p[j] \in Nat
      /\ \A j \in 1..n : q[j] \in Nat
  BY ItemsAre
<1>2. /\ DOMAIN s = {"a", "b", "out"} /\ s.a \in 0..m /\ s.b \in 0..n /\ s.a + s.b = i
      /\ Items(s.out) /\ Len(s.out) = i
      /\ \A v : Below(s.out, i, v) = Below(p, s.a, v) + Below(q, s.b, v)
      /\ Ascending(p) /\ Ascending(q) =>
           /\ Ascending(s.out)
           /\ \A j \in 1..i : /\ s.a < m => s.out[j] <= p[s.a + 1]
                              /\ s.b < n => s.out[j] <= q[s.b + 1]
  BY DEF passed
<1>3. i < m + n
  OBVIOUS
<1>4. \A v : /\ Below(p, s.a, v) \in Nat /\ Below(q, s.b, v) \in Nat
             /\ Below(p, s.a + 1, v) = Below(p, s.a, v) + (IF p[s.a + 1] < v THEN 1 ELSE 0)
             /\ Below(q, s.b + 1, v) = Below(q, s.b, v) + (IF q[s.b + 1] < v THEN 1 ELSE 0)
  <2>1. s.a \in Nat /\ s.b \in Nat
    BY <1>1, <1>2
  <2>. QED BY <2>1, BelowUnfolds
<1>5. /\ Ascending(p) => \A a \in 0..m : a + 1 < m => p[a + 1] <= p[a + 2]
      /\ Ascending(q) => \A b \in 0..n : b + 1 < n => q[b + 1] <= q[b + 2]
  <2>1. \A a \in 0..m : a + 1 < m => a + 1 \in 1..m /\ a + 2 \in 1..m
    BY <1>1
  <2>2. \A b \in 0..n : b + 1 < n => b + 1 \in 1..n /\ b + 2 \in 1..n
    BY <1>1
  <2>. QED BY <2>1, <2>2 DEF Ascending
<1>6. CASE s.b = n \/ (s.a < m /\ p[s.a + 1] < q[s.b + 1])
  <2>. DEFINE x == p[s.a + 1]
              out == Append(s.out, x)
  <2>1. d = [s EXCEPT !.a = @ + 1, !.out = out]
    BY <1>6 DEF taking
  <2>2. s.a < m /\ x \in Nat
    <3>. HIDE DEF m, n
    <3>1. s.a < m
      BY <1>1, <1>2, <1>3, <1>6
    <3>2. s.a + 1 \in 1..m
      BY <1>1, <1>2, <3>1
    <3>. QED BY <1>1, <3>1, <3>2
  <2>3. /\ DOMAIN d = {"a", "b", "out"} /\ d.a = s.a + 1 /\ d.b = s.b /\ d.out = out
    <3>. HIDE DEF d, out
    <3>. QED BY <1>2, <2>1
  <2>4. /\ Items(out) /\ Len(out) = i + 1
        /\ \A v : Below(out, i + 1, v) = Below(s.out, i, v) + (IF x < v THEN 1 ELSE 0)
        /\ Ascending(s.out) /\ (\A j \in 1..i : s.out[j] <= x)
             => Ascending(out) /\ \A j \in 1..i + 1 : out[j] <= x
    <3>. HIDE DEF x
    <3>1. Appended(s.out, i, x, out)
      BY <1>2, <2>2, ItemsAppend
    <3>. HIDE DEF out
    <3>. QED BY <3>1 DEF Appended
  <2>5. ASSUME NEW v PROVE Below(out, i + 1, v) = Below(p, s.a + 1, v) + Below(q, s.b, v)
    <3>. DEFINE e == IF x < v THEN 1 ELSE 0
    <3>1. Below(out, i + 1, v) = (Below(p, s.a, v) + Below(q, s.b, v)) + e
      BY <1>2, <2>4
    <3>2. Below(p, s.a + 1, v) = (Below(p, s.a, v) + e)
      BY <1>4
    <3>3. e \in Nat /\ Below(p, s.a, v) \in Nat /\ Below(q, s.b, v) \in Nat
      BY <1>4
    <3>. HIDE DEF e
    <3>. QED BY <3>1, <3>2, <3>3
  <2>6. ASSUME Ascending(p), Ascending(q)
        PROVE  /\ Ascending(out)
               /\ \A j \in 1..i + 1 : /\ s.a + 1 < m => out[j] <= p[(s.a + 1) + 1]
                                      /\ s.b < n => out[j] <= q[s.b + 1]
    <3>1. Ascending(out) /\ \A j \in 1..i + 1 : out[j] <= x
      <4>1. \A j \in 1..i : s.out[j] <= x
        BY <1>2, <2>2, <2>6
      <4>. HIDE DEF x, out
      <4>. QED BY <1>2, <2>4, <2>6, <4>1
    <3>2. \A j \in 1..i + 1 : out[j] \in Nat
      <4>. HIDE DEF x, out
      <4>. QED BY <2>4, ItemsAre
    <3>3. s.a + 1 < m => x <= p[(s.a + 1) + 1] /\ p[(s.a + 1) + 1] \in Nat
      <4>1. s.a + 1 < m => s.a + 2 \in 1..m /\ (s.a + 1) + 1 = s.a + 2
        BY <1>1, <1>2
      <4>. QED BY <1>1, <1>2, <1>5, <2>6, <4>1
    <3>4. s.b < n => x <= q[s.b + 1] /\ q[s.b + 1] \in Nat
      <4>1. s.b < n => s.b + 1 \in 1..n /\ s.b # n
        BY <1>1, <1>2
      <4>2. s.b < n => x < q[s.b + 1] /\ q[s.b + 1] \in Nat
        BY <1>1, <1>6, <4>1
      <4>. HIDE DEF x
      <4>. QED BY <2>2, <4>2
    <3>. HIDE DEF x, out
    <3>. QED BY <2>2, <3>1, <3>2, <3>3, <3>4
  <2>7. s.a + 1 \in 0..m /\ (s.a + 1) + s.b = i + 1
    <3>. HIDE DEF m
    <3>. QED BY <1>1, <1>2, <2>2
  <2>. HIDE DEF d, out
  <2>. QED BY <1>2, <2>3, <2>4, <2>5, <2>6, <2>7 DEF passed, d
<1>7. CASE ~ (s.b = n \/ (s.a < m /\ p[s.a + 1] < q[s.b + 1]))
  <2>. DEFINE x == q[s.b + 1]
              out == Append(s.out, x)
  <2>1. d = [s EXCEPT !.b = @ + 1, !.out = out]
    BY <1>7 DEF taking
  <2>2. s.b < n /\ x \in Nat /\ (s.a < m => ~ (p[s.a + 1] < q[s.b + 1]))
    <3>. HIDE DEF m, n
    <3>1. s.b < n
      BY <1>1, <1>2, <1>3, <1>7
    <3>2. s.b + 1 \in 1..n
      BY <1>1, <1>2, <3>1
    <3>. QED BY <1>1, <1>7, <3>1, <3>2
  <2>3. /\ DOMAIN d = {"a", "b", "out"} /\ d.a = s.a /\ d.b = s.b + 1 /\ d.out = out
    <3>. HIDE DEF d, out
    <3>. QED BY <1>2, <2>1
  <2>4. /\ Items(out) /\ Len(out) = i + 1
        /\ \A v : Below(out, i + 1, v) = Below(s.out, i, v) + (IF x < v THEN 1 ELSE 0)
        /\ Ascending(s.out) /\ (\A j \in 1..i : s.out[j] <= x)
             => Ascending(out) /\ \A j \in 1..i + 1 : out[j] <= x
    <3>. HIDE DEF x
    <3>1. Appended(s.out, i, x, out)
      BY <1>2, <2>2, ItemsAppend
    <3>. HIDE DEF out
    <3>. QED BY <3>1 DEF Appended
  <2>5. ASSUME NEW v PROVE Below(out, i + 1, v) = Below(p, s.a, v) + Below(q, s.b + 1, v)
    <3>. DEFINE e == IF x < v THEN 1 ELSE 0
    <3>1. Below(out, i + 1, v) = (Below(p, s.a, v) + Below(q, s.b, v)) + e
      BY <1>2, <2>4
    <3>2. Below(q, s.b + 1, v) = (Below(q, s.b, v) + e)
      BY <1>4
    <3>3. e \in Nat /\ Below(p, s.a, v) \in Nat /\ Below(q, s.b, v) \in Nat
      BY <1>4
    <3>. HIDE DEF e
    <3>. QED BY <3>1, <3>2, <3>3
  <2>6. ASSUME Ascending(p), Ascending(q)
        PROVE  /\ Ascending(out)
               /\ \A j \in 1..i + 1 : /\ s.a < m => out[j] <= p[s.a + 1]
                                      /\ s.b + 1 < n => out[j] <= q[(s.b + 1) + 1]
    <3>1. Ascending(out) /\ \A j \in 1..i + 1 : out[j] <= x
      <4>1. \A j \in 1..i : s.out[j] <= x
        BY <1>2, <2>2, <2>6
      <4>. HIDE DEF x, out
      <4>. QED BY <1>2, <2>4, <2>6, <4>1
    <3>2. \A j \in 1..i + 1 : out[j] \in Nat
      <4>. HIDE DEF x, out
      <4>. QED BY <2>4, ItemsAre
    <3>3. s.b + 1 < n => x <= q[(s.b + 1) + 1] /\ q[(s.b + 1) + 1] \in Nat
      <4>1. s.b + 1 < n => s.b + 2 \in 1..n /\ (s.b + 1) + 1 = s.b + 2
        BY <1>1, <1>2
      <4>. QED BY <1>1, <1>2, <1>5, <2>6, <4>1
    <3>4. s.a < m => x <= p[s.a + 1] /\ p[s.a + 1] \in Nat
      <4>1. s.a < m => s.a + 1 \in 1..m
        BY <1>1, <1>2
      <4>2. s.a < m => ~ (p[s.a + 1] < x) /\ p[s.a + 1] \in Nat
        BY <1>1, <2>2, <4>1
      <4>. HIDE DEF x
      <4>. QED BY <2>2, <4>2
    <3>. HIDE DEF x, out
    <3>. QED BY <2>2, <3>1, <3>2, <3>3, <3>4
  <2>7. s.b + 1 \in 0..n /\ s.a + (s.b + 1) = i + 1
    <3>. HIDE DEF n
    <3>. QED BY <1>1, <1>2, <2>2
  <2>. HIDE DEF d, out
  <2>. QED BY <1>2, <2>3, <2>4, <2>5, <2>6, <2>7 DEF passed, d
<1>. QED BY <1>6, <1>7

\* Merging keeps the items of both runs, and merges ascending runs into one.
LEMMA MergeKeeps ==
  ASSUME NEW a, NEW b, Items(a), Items(b)
  PROVE  LET new == merge_sorted_arrays(a, b)
         IN /\ Items(new) /\ Len(new) = Len(a) + Len(b)
            /\ \A v : Below(new, Len(new), v) = Below(a, Len(a), v) + Below(b, Len(b), v)
            /\ Ascending(a) /\ Ascending(b) => Ascending(new)
<1>. DEFINE n == Len(a) + Len(b)
            base == [a |-> 0, b |-> 0, out |-> <<>>]
            q == [c \in 1..n |-> c]
            take(s, c) ==
              IF s.b = Len(b) \/ (s.a < Len(a) /\ a[s.a + 1] < b[s.b + 1])
              THEN [s EXCEPT !.a = @ + 1, !.out = Append(@, a[s.a + 1])]
              ELSE [s EXCEPT !.b = @ + 1, !.out = Append(@, b[s.b + 1])]
<1>1. n \in Nat /\ DOMAIN q = 1..n
  BY ItemsAre
<1>2. merge_sorted_arrays(a, b) = FoldLeft(take, base, q).out
  BY DEF merge_sorted_arrays, mergeRuns
<1>3. FoldLeft(take, base, q) = Passes!Left(a, b, base, n)
  <2>. HIDE DEF q, n, base
  <2>. QED BY <1>1 DEF FoldLeft, MapThenFoldSet, Max, Passes!Left, Passes!Fold,
              Passes!MapThenFoldSet, taking, lastOf
<1>. HIDE DEF take
<1>4. Passes!ChoosesLast
  BY DEF Passes!ChoosesLast, lastOf
<1>5. passed(a, b, 0, base)
  <2>1. <<>> \in Seq(Nat) /\ Len(<<>>) = 0
    OBVIOUS
  <2>2. \A v : Below(<<>>, 0, v) = 0 /\ Below(a, 0, v) = 0 /\ Below(b, 0, v) = 0
    BY BelowUnfolds
  <2>3. Ascending(<<>>)
    BY DEF Ascending
  <2>4. 0 \in 0..Len(a) /\ 0 \in 0..Len(b)
    BY ItemsAre
  <2>. QED BY <2>1, <2>2, <2>3, <2>4 DEF passed, Items
<1>. HIDE DEF base, q
<1>6. Passes!Preserves(a, b, n)
  <2>1. ASSUME NEW i \in 1..n, NEW s, passed(a, b, i - 1, s)
        PROVE  passed(a, b, i, taking(a, b, i, s))
    <3>1. i - 1 \in Nat /\ i - 1 < n /\ (i - 1) + 1 = i
      <4>. HIDE DEF n
      <4>. QED BY <1>1
    <3>2. passed(a, b, (i - 1) + 1, taking(a, b, (i - 1) + 1, s))
      BY <2>1, <3>1, PassStep DEF n
    <3>. QED BY <3>1, <3>2
  <2>. QED BY <2>1 DEF Passes!Preserves
<1>. HIDE DEF n
<1>7. passed(a, b, n, Passes!Left(a, b, base, n))
  BY <1>1, <1>4, <1>5, <1>6, Passes!LeftKeeps
<1>. DEFINE d == Passes!Left(a, b, base, n)
<1>8. merge_sorted_arrays(a, b) = d.out
  BY <1>2, <1>3
<1>. HIDE DEF d
<1>9. d.a = Len(a) /\ d.b = Len(b)
  <2>1. d.a \in 0..Len(a) /\ d.b \in 0..Len(b) /\ d.a + d.b = Len(a) + Len(b)
    BY <1>7 DEF passed, n, d
  <2>. QED BY <2>1, ItemsAre
<1>10. /\ Items(d.out) /\ Len(d.out) = n
       /\ \A v : Below(d.out, n, v) = Below(a, d.a, v) + Below(b, d.b, v)
       /\ Ascending(a) /\ Ascending(b) => Ascending(d.out)
  BY <1>7 DEF passed, d
<1>. QED BY <1>8, <1>9, <1>10 DEF n

\* The items below a larger value are as many at least; nothing is below zero, and
\* everything below a value that is large enough.
LEMMA BelowRises ==
  ASSUME NEW list, Items(list)
  PROVE  /\ \A v, w \in Nat : v <= w => Below(list, Len(list), v) <= Below(list, Len(list), w)
         /\ Below(list, Len(list), 0) = 0
         /\ \E b \in Nat : Below(list, Len(list), b) = Len(list)
<1>. DEFINE n == Len(list)
            S(v) == {p \in 1..n : list[p] < v}
<1>1. n \in Nat /\ \A p \in 1..n : list[p] \in Nat
  BY ItemsAre
<1>2. \A v : S(v) \subseteq 1..n /\ IsFiniteSet(S(v)) /\ Cardinality(S(v)) \in Nat
  <2>1. IsFiniteSet(1..n)
    BY <1>1, FS_Interval
  <2>. QED BY <2>1, FS_Subset, FS_CardinalityType
<1>3. ASSUME NEW v \in Nat, NEW w \in Nat, v <= w PROVE Below(list, n, v) <= Below(list, n, w)
  <2>1. S(v) \subseteq S(w)
    BY <1>1, <1>3
  <2>. HIDE DEF n
  <2>2. Cardinality(S(v)) <= Cardinality(S(w))
    BY <1>2, <2>1, FS_Subset
  <2>. QED BY <2>2 DEF Below
<1>4. Below(list, n, 0) = 0
  <2>1. S(0) = {}
    BY <1>1
  <2>. QED BY <2>1, FS_EmptySet DEF Below
<1>5. \E b \in Nat : \A p \in 1..n : list[p] < b
  <2>. DEFINE T == {m \in Nat : m <= n => \E b \in Nat : \A p \in 1..m : list[p] < b}
  <2>1. 0 \in T
    <3>1. \A p \in 1..0 : list[p] < 0
      OBVIOUS
    <3>. QED BY <3>1
  <2>2. ASSUME NEW m \in Nat, m \in T PROVE m + 1 \in T
    <3>1. SUFFICES ASSUME m + 1 <= n PROVE \E b \in Nat : \A p \in 1..m + 1 : list[p] < b
      OBVIOUS
    <3>2. PICK b \in Nat : \A p \in 1..m : list[p] < b
      BY <1>1, <2>2, <3>1
    <3>. DEFINE x == list[m + 1]
                c == IF x < b THEN b ELSE x + 1
    <3>3. x \in Nat
      BY <1>1, <3>1
    <3>4. c \in Nat /\ x < c /\ b <= c
      <4>. HIDE DEF x
      <4>. QED BY <3>3
    <3>. HIDE DEF c
    <3>5. ASSUME NEW p \in 1..m + 1 PROVE list[p] < c
      <4>1. CASE p = m + 1
        BY <3>4, <4>1
      <4>2. CASE p # m + 1
        <5>1. p \in 1..m /\ list[p] \in Nat
          BY <1>1, <3>1, <4>2
        <5>2. list[p] < b
          BY <3>2, <5>1
        <5>. QED BY <3>4, <5>1, <5>2
      <4>. QED BY <4>1, <4>2
    <3>. QED BY <3>4, <3>5
  <2>. HIDE DEF T
  <2>3. n \in T
    BY <1>1, <2>1, <2>2, Sums!OverNaturals
  <2>. QED BY <1>1, <2>3 DEF T
<1>6. \E b \in Nat : Below(list, n, b) = n
  <2>1. PICK b \in Nat : \A p \in 1..n : list[p] < b
    BY <1>5
  <2>2. S(b) = 1..n
    BY <2>1
  <2>3. Cardinality(1..n) = n
    <3>. HIDE DEF n
    <3>. QED BY <1>1, FS_Interval
  <2>. QED BY <2>2, <2>3 DEF Below
<1>. QED BY <1>3, <1>4, <1>6 DEF n

\* Sorting finds the item for every place.
LEMMA SortedIs ==
  ASSUME NEW level, Items(level)
  PROVE  LET f == sorted(level)
             n == Len(level)
         IN /\ Items(f) /\ Len(f) = n
            /\ \A p \in 1..n : Below(level, n, f[p]) < p /\ p <= Below(level, n, f[p] + 1)
<1>. DEFINE f == sorted(level)
            n == Len(level)
            V == {level[i] : i \in 1..n}
            B(v) == Below(level, n, v)
            fits(v, p) == /\ Cardinality({i \in 1..n : level[i] < v}) < p
                          /\ p <= Cardinality({i \in 1..n : level[i] <= v})
            item(p) == CHOOSE v \in V : fits(v, p)
<1>1. n \in Nat /\ V \subseteq Nat /\ \A i \in 1..n : level[i] \in Nat
  BY ItemsAre
<1>2. f = [p \in 1..n |-> item(p)]
  BY DEF sorted
<1>. HIDE DEF f
<1>3. ASSUME NEW v \in Nat, NEW p PROVE fits(v, p) <=> B(v) < p /\ p <= B(v + 1)
  <2>1. {i \in 1..n : level[i] <= v} = {i \in 1..n : level[i] < v + 1}
    BY <1>1, <1>3
  <2>. QED BY <2>1 DEF Below
<1>4. \A v \in Nat : B(v) \in Nat
  BY <1>1, BelowUnfolds
<1>5. /\ \A v, w \in Nat : v <= w => B(v) <= B(w)
      /\ B(0) = 0
      /\ \E b \in Nat : B(b) = n
  BY BelowRises
<1>. DEFINE L(v) == {i \in 1..n : level[i] < v}
<1>6. ASSUME NEW v \in Nat, B(v) # B(v + 1) PROVE v \in V
  <2>1. L(v) # L(v + 1)
    BY <1>6 DEF Below
  <2>2. PICK i \in 1..n : ~ (level[i] < v <=> level[i] < v + 1)
    BY <2>1
  <2>3. level[i] = v
    BY <1>1, <2>2
  <2>. QED BY <2>3
<1>. HIDE DEF B, L, V, n, fits
<1>7. ASSUME NEW p \in 1..n PROVE item(p) \in V /\ fits(item(p), p)
  <2>. DEFINE T == {v \in Nat : p <= B(v + 1)}
  <2>1. T # {}
    <3>1. PICK b \in Nat : B(b) = n
      BY <1>5
    <3>2. b + 1 \in Nat /\ b <= b + 1 /\ B(b) <= B(b + 1) /\ B(b + 1) \in Nat
      BY <1>4, <1>5
    <3>3. p <= B(b + 1)
      BY <1>1, <3>1, <3>2
    <3>. QED BY <3>3
  <2>2. PICK v \in T : \A y \in T : v <= y
    <3>1. T \subseteq Nat
      OBVIOUS
    <3>. HIDE DEF T
    <3>. QED BY <2>1, <3>1, Sums!LeastElement
  <2>3. v \in Nat /\ p <= B(v + 1) /\ p \in Nat
    BY <1>1, <2>2
  <2>4. B(v) < p
    <3>1. CASE v = 0
      BY <1>1, <1>5, <3>1
    <3>2. CASE v # 0
      <4>1. v - 1 \in Nat /\ (v - 1) + 1 = v /\ ~ (v <= v - 1)
        BY <2>3, <3>2
      <4>2. v - 1 \notin T
        BY <2>2, <4>1
      <4>3. ~ (p <= B(v))
        BY <4>1, <4>2
      <4>. QED BY <1>4, <2>3, <4>3
    <3>. QED BY <3>1, <3>2
  <2>5. v \in V
    <3>1. B(v) \in Nat /\ B(v + 1) \in Nat
      BY <1>4, <2>3
    <3>. QED BY <1>6, <2>3, <2>4, <3>1
  <2>6. fits(v, p)
    BY <1>3, <2>3, <2>4
  <2>. QED BY <2>5, <2>6
<1>. HIDE DEF item
<1>8. \A p \in 1..n : f[p] = item(p) /\ f[p] \in Nat
  BY <1>1, <1>2, <1>7
<1>9. f = [p \in 1..n |-> f[p]]
  BY <1>2
<1>10. Items(f) /\ Len(f) = n
  BY <1>1, <1>8, <1>9, ItemsOfPlaces
<1>11. \A p \in 1..n : B(f[p]) < p /\ p <= B(f[p] + 1)
  BY <1>3, <1>7, <1>8
<1>. QED BY <1>10, <1>11 DEF f, n, B

\* The first c places.
LEMMA FirstPlaces ==
  ASSUME NEW list, NEW m \in Nat, NEW v, NEW c \in 0..m, \A p \in 1..m : list[p] < v <=> p <= c
  PROVE  Below(list, m, v) = c
<1>1. {p \in 1..m : list[p] < v} = 1..c
  OBVIOUS
<1>2. Cardinality(1..c) = c
  BY FS_Interval
<1>. QED BY <1>1, <1>2 DEF Below

\* Sorting keeps all items and puts them in order.
LEMMA SortKeeps ==
  ASSUME NEW level, Items(level)
  PROVE  LET f == sorted(level)
         IN /\ Items(f) /\ Len(f) = Len(level) /\ Ascending(f)
            /\ \A v \in Nat : Below(f, Len(f), v) = Below(level, Len(level), v)
<1>. DEFINE f == sorted(level)
            n == Len(level)
            B(v) == Below(level, n, v)
<1>1. /\ Items(f) /\ Len(f) = n
      /\ \A p \in 1..n : B(f[p]) < p /\ p <= B(f[p] + 1)
  BY SortedIs
<1>2. n \in Nat /\ \A p \in 1..n : f[p] \in Nat
  <2>. HIDE DEF f
  <2>. QED BY <1>1, ItemsAre
<1>3. /\ \A v, w \in Nat : v <= w => B(v) <= B(w)
      /\ \A v \in Nat : B(v) \in 0..n
  BY <1>2, BelowRises, BelowIsLess
<1>. HIDE DEF f, n, B
<1>4. Ascending(f)
  <2>1. ASSUME NEW p \in 1..n, NEW q \in 1..n, p <= q, ~ (f[p] <= f[q]) PROVE FALSE
    <3>1. f[q] + 1 <= f[p] /\ f[p] \in Nat /\ f[q] + 1 \in Nat
      BY <1>2, <2>1
    <3>2. B(f[q] + 1) <= B(f[p]) /\ B(f[q] + 1) \in Nat /\ B(f[p]) \in Nat
      BY <1>2, <1>3, <3>1
    <3>3. q <= B(f[q] + 1) /\ B(f[p]) < p /\ p \in Nat /\ q \in Nat
      BY <1>1, <1>2
    <3>. QED BY <2>1, <3>2, <3>3
  <2>. QED BY <1>1, <2>1 DEF Ascending
<1>5. ASSUME NEW v \in Nat PROVE Below(f, n, v) = B(v)
  <2>1. ASSUME NEW p \in 1..n PROVE f[p] < v <=> p <= B(v)
    <3>1. /\ B(f[p]) < p /\ p <= B(f[p] + 1) /\ f[p] \in Nat /\ p \in Nat
          /\ B(f[p]) \in Nat /\ B(f[p] + 1) \in Nat /\ B(v) \in Nat
      BY <1>1, <1>2, <1>3
    <3>2. ASSUME f[p] < v PROVE p <= B(v)
      <4>1. f[p] + 1 <= v /\ f[p] + 1 \in Nat
        BY <3>1, <3>2
      <4>2. B(f[p] + 1) <= B(v)
        BY <1>3, <4>1
      <4>. QED BY <3>1, <4>2
    <3>3. ASSUME ~ (f[p] < v) PROVE ~ (p <= B(v))
      <4>1. v <= f[p]
        BY <3>1, <3>3
      <4>2. B(v) <= B(f[p])
        BY <1>3, <3>1, <4>1
      <4>. QED BY <3>1, <4>2
    <3>. QED BY <3>2, <3>3
  <2>. QED BY <1>2, <1>3, <2>1, FirstPlaces
<1>. QED BY <1>1, <1>4, <1>5 DEF f, n, B

\* Halving splits the items below any value evenly, but for one.
LEMMA HalveSplits ==
  ASSUME NEW run, Items(run), Ascending(run), NEW m \in Nat, Len(run) = 2 * m, NEW c \in 0..1
  PROVE  LET half == randomly_halve(run, c)
         IN /\ Items(half) /\ Len(half) = m /\ Ascending(half)
            /\ \A v \in Nat :
                 2 * Below(half, m, v) - Below(run, 2 * m, v) \in -1..1
<1>. DEFINE half == randomly_halve(run, c)
<1>1. (2 * m) \div 2 = m
  OBVIOUS
<1>2. half = [p \in 1..m |-> run[2 * p - c]]
  BY <1>1 DEF randomly_halve
<1>. HIDE DEF half
<1>3. \A p \in 1..m : 2 * p - c \in 1..2 * m
  OBVIOUS
<1>4. \A p \in 1..2 * m : run[p] \in Nat
  BY ItemsAre
<1>5. \A p \in 1..m : half[p] = run[2 * p - c] /\ half[p] \in Nat
  BY <1>2, <1>3, <1>4
<1>6. half = [p \in 1..m |-> half[p]]
  BY <1>2
<1>7. Items(half) /\ Len(half) = m
  BY <1>5, <1>6, ItemsOfPlaces
<1>8. Ascending(half)
  <2>1. ASSUME NEW p \in 1..m, NEW q \in 1..m, p <= q PROVE half[p] <= half[q]
    <3>1. 2 * p - c <= 2 * q - c
      BY <2>1
    <3>2. run[2 * p - c] <= run[2 * q - c]
      BY <1>3, <3>1 DEF Ascending
    <3>. QED BY <1>5, <3>2
  <2>. QED BY <1>7, <2>1 DEF Ascending
<1>9. ASSUME NEW v \in Nat
      PROVE  2 * Below(half, m, v) - Below(run, 2 * m, v) \in -1..1
  <2>. DEFINE b == Below(run, 2 * m, v)
              h == (b + c) \div 2
  <2>1. b \in 0..2 * m /\ \A p \in 1..2 * m : run[p] < v <=> p <= b
    <3>1. 2 * m \in Nat
      OBVIOUS
    <3>. QED BY <3>1, BelowIsLess, BelowAreFirst
  <2>. HIDE DEF b
  <2>2. h \in 0..m /\ (2 * h = b + c \/ 2 * h + 1 = b + c)
    BY <2>1
  <2>3. ASSUME NEW p \in 1..m PROVE half[p] < v <=> p <= h
    <3>1. half[p] < v <=> 2 * p - c <= b
      BY <1>3, <1>5, <2>1
    <3>2. 2 * p - c <= b <=> p <= h
      <4>. HIDE DEF h
      <4>. QED BY <2>1, <2>2
    <3>. QED BY <3>1, <3>2
  <2>. HIDE DEF h
  <2>4. Below(half, m, v) = h
    BY <2>2, <2>3, FirstPlaces
  <2>5. 2 * h - b \in -1..1
    BY <2>1, <2>2
  <2>. QED BY <2>4, <2>5 DEF b
<1>. QED BY <1>7, <1>8, <1>9 DEF half

-----------------------------------------------------------------------------
(* Ranks.  A compaction moves them by the weight of an item of its level at most. *)

BelowIn(list, v) == Below(list, Len(list), v)
ranks(levels, v) == [h \in 1..Len(levels) |-> TwoTo(h - 1) * BelowIn(levels[h], v)]
RankIn(levels, v) == Sigma(ranks(levels, v), Len(levels))

\* Two numbers that differ by e at most.
Near(x, y, e) == x \in Nat /\ y \in Nat /\ e \in Nat /\ x <= y + e /\ y <= x + e

\* Levels of natural numbers, in ascending order where the sketch says so.
Kept(levels, isSorted) ==
  /\ \A h \in 1..Len(levels) : Items(levels[h])
  /\ \A h \in 2..Len(levels) : Ascending(levels[h])
  /\ isSorted => Ascending(levels[1])

\* The error so far, and the coins to come.
Tossable(w) == w.err \in Nat /\ w.coins \in Seq(0..1)

\* One item, or none, is ascending.
LEMMA FewAscend ==
  /\ \A v : BelowIn(<<>>, v) = 0
  /\ Items(<<>>) /\ Ascending(<<>>)
  /\ \A x \in Nat : /\ Items(<<x>>) /\ Ascending(<<x>>)
                    /\ \A v : BelowIn(<<x>>, v) = IF x < v THEN 1 ELSE 0
<1>1. Items(<<>>) /\ Ascending(<<>>) /\ Len(<<>>) = 0
  <2>1. <<>> \in Seq(Nat) /\ Len(<<>>) = 0
    OBVIOUS
  <2>. QED BY <2>1 DEF Items, Ascending
<1>2. \A v : BelowIn(<<>>, v) = 0
  BY <1>1, BelowUnfolds DEF BelowIn
<1>3. ASSUME NEW x \in Nat
      PROVE  /\ Items(<<x>>) /\ Ascending(<<x>>)
             /\ \A v : BelowIn(<<x>>, v) = IF x < v THEN 1 ELSE 0
  <2>. DEFINE s == <<x>>
  <2>1. s \in Seq(Nat) /\ Len(s) = 1 /\ s[1] = x
    OBVIOUS
  <2>. HIDE DEF s
  <2>2. Ascending(s)
    <3>1. \A p \in 1..1 : p = 1
      OBVIOUS
    <3>. QED BY <2>1, <3>1 DEF Ascending
  <2>3. ASSUME NEW v PROVE BelowIn(s, v) = IF x < v THEN 1 ELSE 0
    <3>1. Below(s, 0 + 1, v) = Below(s, 0, v) + (IF s[0 + 1] < v THEN 1 ELSE 0) /\ Below(s, 0, v) = 0
          /\ 0 + 1 = 1
      BY BelowUnfolds
    <3>. QED BY <2>1, <3>1 DEF BelowIn
  <2>. QED BY <2>1, <2>2, <2>3 DEF Items, s
<1>. QED BY <1>1, <1>2, <1>3

\* A list t with one item more in front of it.
LEMMA BelowLonger ==
  ASSUME NEW list, NEW t, NEW n \in Nat, Len(list) = n + 1, Len(t) = n, list[1] \in Nat,
         \A p \in 1..n : list[p + 1] = t[p]
  PROVE  \A v : BelowIn(list, v) = BelowIn(<<list[1]>>, v) + BelowIn(t, v)
<1>1. ASSUME NEW v PROVE BelowIn(list, v) = BelowIn(<<list[1]>>, v) + BelowIn(t, v)
  <2>1. Below(list, n + 1, v) = (IF list[1] < v THEN 1 ELSE 0) + Below(t, n, v)
    BY BelowShifted
  <2>2. BelowIn(<<list[1]>>, v) = IF list[1] < v THEN 1 ELSE 0
    BY FewAscend
  <2>. QED BY <2>1, <2>2 DEF BelowIn
<1>. QED BY <1>1

\* A list without its first item.
LEMMA BelowTail ==
  ASSUME NEW list, Items(list), Len(list) # 0
  PROVE  /\ Items(Tail(list)) /\ Len(Tail(list)) = Len(list) - 1
         /\ Head(list) \in Nat
         /\ \A v : BelowIn(list, v) = BelowIn(<<Head(list)>>, v) + BelowIn(Tail(list), v)
<1>. DEFINE t == Tail(list)
            n == Len(t)
<1>1. /\ Items(t) /\ n \in Nat /\ Len(list) = n + 1 /\ Head(list) = list[1] /\ list[1] \in Nat
      /\ \A p \in 1..n : list[p + 1] = t[p]
  BY DEF Items
<1>2. \A v : BelowIn(list, v) = BelowIn(<<list[1]>>, v) + BelowIn(t, v)
  BY <1>1, BelowLonger
<1>. QED BY <1>1, <1>2

\* Two levels a and b, b above a, in which the items below v weigh as many as in
\* the levels x and y, give or take one.
SplitsEvenly(a, b, x, y) ==
  \A v \in Nat : Near(BelowIn(x, v) + 2 * BelowIn(y, v), BelowIn(a, v) + 2 * BelowIn(b, v), 1)

\* What a compaction makes of the two levels, of the coins and of the error.
LEMMA CompactItems ==
  ASSUME NEW w, Compactable(w), Lists(w.levels), NEW h \in Nat, h + 2 <= Len(w.levels),
         Items(w.levels[h + 1]), Items(w.levels[h + 2]), Ascending(w.levels[h + 2]),
         NEW mustSort \in BOOLEAN, mustSort \/ Ascending(w.levels[h + 1]),
         Tossable(w), TwoTo(h) \in Nat
  PROVE  LET d == compact(w, h, mustSort)
         IN /\ Items(d.levels[h + 1]) /\ Ascending(d.levels[h + 1])
            /\ Items(d.levels[h + 2]) /\ Ascending(d.levels[h + 2])
            /\ SplitsEvenly(w.levels[h + 1], w.levels[h + 2], d.levels[h + 1], d.levels[h + 2])
            /\ Tossable(d) /\ d.err = w.err + TwoTo(h)
<1>. DEFINE d == compact(w, h, mustSort)
            raw == w.levels[h + 1]
            above == w.levels[h + 2]
            odd == Len(raw) % 2 = 1
            adj == IF odd THEN Tail(raw) ELSE raw
            run == IF mustSort THEN sorted(adj) ELSE adj
            bit == nextCoin(w)
            half == randomly_halve(run, bit)
            x == IF odd THEN <<Head(raw)>> ELSE <<>>
            y == IF above = <<>> THEN half ELSE merge_sorted_arrays(half, above)
            c == Len(raw)
            m == c \div 2
            coins == IF w.coins = <<>> THEN w.coins ELSE Tail(w.coins)
<1>1. d = [w EXCEPT !.levels[h + 1] = x, !.levels[h + 2] = y, !.coins = coins, !.err = @ + TwoTo(h)]
  BY DEF compact
<1>2. Items(raw) /\ Items(above) /\ c \in Nat /\ m \in Nat /\ (c % 2) \in 0..1 /\ c = 2 * m + (c % 2)
      /\ h + 1 \in 1..Len(w.levels) /\ h + 2 \in 1..Len(w.levels) /\ h + 1 # h + 2
  <2>1. Len(w.levels) \in Nat
    BY ListIs DEF Lists
  <2>2. h + 1 \in 1..Len(w.levels) /\ h + 2 \in 1..Len(w.levels) /\ h + 1 # h + 2
    BY <2>1
  <2>3. c \in Nat
    BY ItemsAre
  <2>4. m \in Nat /\ (c % 2) \in 0..1 /\ c = 2 * m + (c % 2)
    <3>. HIDE DEF c
    <3>. QED BY <2>3
  <2>. QED BY <2>2, <2>3, <2>4
<1>3. bit \in 0..1 /\ coins \in Seq(0..1)
  BY DEF Tossable, nextCoin
<1>. HIDE DEF bit, coins, raw, above
<1>4. /\ Items(x) /\ Ascending(x) /\ Items(adj) /\ Len(adj) = 2 * m
      /\ \A v : BelowIn(raw, v) = BelowIn(x, v) + BelowIn(adj, v)
      /\ mustSort \/ Ascending(adj)
  <2>1. CASE odd
    <3>1. Len(raw) # 0
      <4>1. \A l \in Nat : l % 2 = 1 => l # 0
        OBVIOUS
      <4>. QED BY <1>2, <2>1, <4>1
    <3>2. /\ Items(Tail(raw)) /\ Len(Tail(raw)) = c - 1 /\ Head(raw) \in Nat
          /\ \A v : BelowIn(raw, v) = BelowIn(<<Head(raw)>>, v) + BelowIn(Tail(raw), v)
      BY <1>2, <3>1, BelowTail
    <3>3. x = <<Head(raw)>> /\ adj = Tail(raw)
      BY <2>1
    <3>4. c - 1 = 2 * m
      <4>1. c = 2 * m + 1
        BY <1>2, <2>1
      <4>. HIDE DEF c, m
      <4>. QED BY <1>2, <4>1
    <3>5. Items(<<Head(raw)>>) /\ Ascending(<<Head(raw)>>)
      BY <3>2, FewAscend
    <3>6. Ascending(raw) => Ascending(Tail(raw))
      <4>1. SUFFICES ASSUME Ascending(raw), NEW p \in 1..c - 1, NEW q \in 1..c - 1, p <= q
                     PROVE  Tail(raw)[p] <= Tail(raw)[q]
        BY <3>2 DEF Ascending
      <4>2. \A r \in 1..c - 1 : Tail(raw)[r] = raw[r + 1]
        BY <1>2, <3>1 DEF Items
      <4>3. p + 1 \in 1..c /\ q + 1 \in 1..c /\ p + 1 <= q + 1
        <5>. HIDE DEF c
        <5>. QED BY <1>2, <4>1
      <4>4. raw[p + 1] <= raw[q + 1]
        BY <4>1, <4>3 DEF Ascending
      <4>. QED BY <4>2, <4>4
    <3>. HIDE DEF x, adj
    <3>. QED BY <3>2, <3>3, <3>4, <3>5, <3>6 DEF raw
  <2>2. CASE ~ odd
    <3>1. x = <<>> /\ adj = raw
      BY <2>2
    <3>2. c = 2 * m
      <4>1. c % 2 = 0
        BY <1>2, <2>2
      <4>2. c = 2 * m + 0
        BY <1>2, <4>1
      <4>. HIDE DEF c, m
      <4>. QED BY <1>2, <4>2
    <3>3. \A v : BelowIn(raw, v) = 0 + BelowIn(raw, v)
      <4>1. \A v : BelowIn(raw, v) \in Nat
        BY <1>2, BelowUnfolds DEF BelowIn
      <4>. QED BY <4>1
    <3>. HIDE DEF x, adj
    <3>. QED BY <1>2, <3>1, <3>2, <3>3, FewAscend DEF raw
  <2>. QED BY <2>1, <2>2
<1>. HIDE DEF x, adj
<1>5. /\ Items(run) /\ Len(run) = 2 * m /\ Ascending(run)
      /\ \A v \in Nat : BelowIn(run, v) = BelowIn(adj, v)
  <2>1. CASE mustSort
    BY <1>4, <2>1, SortKeeps DEF BelowIn
  <2>2. CASE ~ mustSort
    BY <1>4, <2>2
  <2>. QED BY <2>1, <2>2
<1>. HIDE DEF run
<1>6. /\ Items(half) /\ Len(half) = m /\ Ascending(half)
      /\ \A v \in Nat : 2 * BelowIn(half, v) - BelowIn(run, v) \in -1..1
  <2>. HIDE DEF m
  <2>1. LET f == randomly_halve(run, bit)
        IN /\ Items(f) /\ Len(f) = m /\ Ascending(f)
           /\ \A v \in Nat : 2 * Below(f, m, v) - Below(run, 2 * m, v) \in -1..1
    BY <1>2, <1>3, <1>5, HalveSplits
  <2>. QED BY <1>5, <2>1 DEF BelowIn
<1>. HIDE DEF half
<1>7. /\ Items(y) /\ Ascending(y)
      /\ \A v \in Nat : BelowIn(y, v) = BelowIn(half, v) + BelowIn(above, v)
  <2>1. CASE above = <<>>
    <3>1. \A v : BelowIn(half, v) \in Nat
      BY <1>2, <1>6, BelowUnfolds DEF BelowIn
    <3>. QED BY <1>6, <2>1, <3>1, FewAscend
  <2>2. CASE above # <<>>
    <3>1. y = merge_sorted_arrays(half, above)
      BY <2>2
    <3>2. Ascending(above)
      BY DEF above
    <3>3. LET new == merge_sorted_arrays(half, above)
          IN /\ Items(new)
             /\ \A v : Below(new, Len(new), v) = Below(half, Len(half), v) + Below(above, Len(above), v)
             /\ Ascending(half) /\ Ascending(above) => Ascending(new)
      BY <1>2, <1>6, MergeKeeps
    <3>. HIDE DEF y
    <3>. QED BY <1>6, <3>1, <3>2, <3>3 DEF BelowIn
  <2>. QED BY <2>1, <2>2
<1>. HIDE DEF y
<1>8. \A list, v : Items(list) => BelowIn(list, v) \in Nat
  BY ItemsAre, BelowUnfolds DEF BelowIn
<1>9. ASSUME NEW v \in Nat
      PROVE  Near(BelowIn(x, v) + 2 * BelowIn(y, v), BelowIn(raw, v) + 2 * BelowIn(above, v), 1)
  <2>1. /\ BelowIn(x, v) \in Nat /\ BelowIn(half, v) \in Nat /\ BelowIn(above, v) \in Nat
        /\ BelowIn(run, v) \in Nat
        /\ BelowIn(raw, v) = BelowIn(x, v) + BelowIn(run, v)
        /\ BelowIn(y, v) = BelowIn(half, v) + BelowIn(above, v)
        /\ 2 * BelowIn(half, v) - BelowIn(run, v) \in -1..1
    BY <1>2, <1>4, <1>5, <1>6, <1>7, <1>8
  <2>2. \A a, b, e, r \in Nat :
          2 * b - r \in -1..1 => Near(a + 2 * (b + e), (a + r) + 2 * e, 1)
    BY DEF Near
  <2>. QED BY <2>1, <2>2
<1>10. /\ d.levels = [[w.levels EXCEPT ![h + 1] = x] EXCEPT ![h + 2] = y]
       /\ d.coins = coins /\ d.err = w.err + TwoTo(h)
  <2>. HIDE DEF d
  <2>. QED BY <1>1 DEF Compactable
<1>11. d.levels[h + 1] = x /\ d.levels[h + 2] = y
  <2>. HIDE DEF d
  <2>1. List(x) /\ List(y)
    BY <1>4, <1>7, ItemsAre
  <2>. QED BY <1>2, <1>10, <2>1, TwoLevelsSet
<1>12. Tossable(d)
  <2>. HIDE DEF d
  <2>. QED BY <1>3, <1>10 DEF Tossable
<1>13. SplitsEvenly(raw, above, x, y)
  BY <1>9 DEF SplitsEvenly
<1>. HIDE DEF d
<1>. QED BY <1>4, <1>7, <1>10, <1>11, <1>12, <1>13 DEF d, raw, above

\* Ranks are natural numbers.
LEMMA RanksType ==
  ASSUME NEW levels, Lists(levels), \A h \in 1..Len(levels) : Items(levels[h]),
         NEW n \in Nat, Powers(n), Len(levels) <= n + 1, NEW v
  PROVE  /\ Naturals(ranks(levels, v), Len(levels)) /\ Len(levels) \in Nat
         /\ RankIn(levels, v) \in Nat
         /\ \A h \in 1..Len(levels) :
              /\ ranks(levels, v)[h] = TwoTo(h - 1) * BelowIn(levels[h], v)
              /\ TwoTo(h - 1) \in Nat \ {0} /\ BelowIn(levels[h], v) \in Nat
<1>1. ASSUME NEW h \in 1..Len(levels)
      PROVE  /\ ranks(levels, v)[h] = TwoTo(h - 1) * BelowIn(levels[h], v)
             /\ TwoTo(h - 1) \in Nat \ {0} /\ BelowIn(levels[h], v) \in Nat
  <2>1. ranks(levels, v)[h] = TwoTo(h - 1) * BelowIn(levels[h], v)
    BY DEF ranks
  <2>2. BelowIn(levels[h], v) \in Nat
    BY ItemsAre, BelowUnfolds DEF BelowIn
  <2>. QED BY <2>1, <2>2, WeightsType
<1>2. Naturals(ranks(levels, v), Len(levels))
  <2>1. \A a, b \in Nat : a * b \in Nat
    OBVIOUS
  <2>. QED BY <1>1, <2>1 DEF Naturals
<1>3. Len(levels) \in Nat
  BY LevelLengths
<1>. QED BY <1>1, <1>2, <1>3, SigmaType DEF RankIn

\* What differs by one differs by p when it is taken p times.
LEMMA NearTimes ==
  ASSUME NEW x \in Nat, NEW y \in Nat, NEW p \in Nat, Near(x, y, 1)
  PROVE  Near(p * x, p * y, p)
<1>1. \A a, b \in Nat : a <= b + 1 => p * a <= p * b + p
  <2>1. SUFFICES ASSUME NEW a \in Nat, NEW b \in Nat, a <= b + 1 PROVE p * a <= p * b + p
    OBVIOUS
  <2>. DEFINE d == b + 1 - a
  <2>2. d \in Nat /\ b + 1 = a + d
    BY <2>1
  <2>. HIDE DEF d
  <2>3. p * (a + d) = p * a + p * d /\ p * (b + 1) = p * b + p
    BY <2>2
  <2>4. p * d \in Nat /\ p * a \in Nat /\ p * b \in Nat
    BY <2>2
  <2>. QED BY <2>2, <2>3, <2>4
<1>2. p * x \in Nat /\ p * y \in Nat
  OBVIOUS
<1>. QED BY <1>1, <1>2 DEF Near

\* Distances add up.
LEMMA NearAdds ==
  ASSUME NEW x, NEW y, NEW z, NEW d, NEW e, Near(x, y, d), Near(y, z, e)
  PROVE  Near(x, z, e + d) /\ Near(x, z, d + e)
BY DEF Near

\* A sum in which two places lie together as far from what they were is as far.
LEMMA NearSums ==
  ASSUME NEW A \in Nat, NEW B \in Nat, NEW a \in Nat, NEW b \in Nat, NEW c \in Nat, NEW d \in Nat,
         NEW e, A + a + b = B + c + d, Near(c + d, a + b, e)
  PROVE  Near(A, B, e)
BY DEF Near

\* What a compaction does to the ranks.
LEMMA CompactMoves ==
  ASSUME NEW w, Compactable(w), Lists(w.levels), NEW h \in Nat, h + 2 <= Len(w.levels),
         NEW b, Kept(w.levels, b), NEW mustSort \in BOOLEAN, h = 0 => mustSort \/ b,
         Tossable(w), NEW n \in Nat, Powers(n), Len(w.levels) <= n + 1
  PROVE  LET d == compact(w, h, mustSort)
         IN /\ Kept(d.levels, b) /\ Tossable(d) /\ d.err = w.err + TwoTo(h) /\ TwoTo(h) \in Nat
            /\ \A v \in Nat : Near(RankIn(d.levels, v), RankIn(w.levels, v), TwoTo(h))
<1>. DEFINE d == compact(w, h, mustSort)
            new == d.levels
            old == w.levels
            L == Len(w.levels)
<1>1. L \in Nat /\ h + 1 \in 1..L /\ h + 2 \in 1..L /\ h + 1 # h + 2 /\ h \in 0..n
  <2>1. L \in Nat
    BY LevelLengths
  <2>. HIDE DEF L
  <2>. QED BY <2>1 DEF L
<1>2. TwoTo(h) \in Nat /\ TwoTo(h + 1) = 2 * TwoTo(h)
  BY <1>1 DEF Powers, Power
<1>3. /\ \A i \in 1..L : Items(old[i])
      /\ \A i \in 2..L : Ascending(old[i])
      /\ b => Ascending(old[1])
  BY DEF Kept
<1>4. h + 2 \in 2..L /\ (h # 0 => h + 1 \in 2..L) /\ (h = 0 => h + 1 = 1)
  <2>. HIDE DEF L
  <2>. QED BY <1>1
<1>5. mustSort \/ Ascending(old[h + 1])
  BY <1>3, <1>4
<1>6. /\ Items(new[h + 1]) /\ Ascending(new[h + 1])
      /\ Items(new[h + 2]) /\ Ascending(new[h + 2])
      /\ SplitsEvenly(old[h + 1], old[h + 2], new[h + 1], new[h + 2])
      /\ Tossable(d) /\ d.err = w.err + TwoTo(h)
  BY <1>1, <1>2, <1>3, <1>4, <1>5, CompactItems
<1>7. /\ Lists(new) /\ Len(new) = L
      /\ \A i \in 1..L : i # h + 1 /\ i # h + 2 => new[i] = old[i]
  BY CompactIs
<1>. HIDE DEF d
<1>8. /\ \A i \in 1..L : Items(new[i])
      /\ \A i \in 2..L : Ascending(new[i])
      /\ b => Ascending(new[1])
  <2>1. ASSUME NEW i \in 1..L PROVE Items(new[i])
    BY <1>3, <1>6, <1>7
  <2>2. ASSUME NEW i \in 2..L PROVE Ascending(new[i])
    <3>1. i \in 1..L
      BY <1>1
    <3>. QED BY <1>3, <1>6, <1>7, <3>1
  <2>3. ASSUME b PROVE Ascending(new[1])
    <3>1. 1 \in 1..L /\ 1 # h + 2
      BY <1>1
    <3>. QED BY <1>3, <1>6, <1>7, <2>3, <3>1
  <2>. QED BY <2>1, <2>2, <2>3
<1>9. Kept(new, b)
  BY <1>7, <1>8 DEF Kept
<1>10. ASSUME NEW v \in Nat PROVE Near(RankIn(new, v), RankIn(old, v), TwoTo(h))
  <2>. DEFINE f == ranks(old, v)
              g == ranks(new, v)
              P == TwoTo(h)
              x == BelowIn(old[h + 1], v)
              y == BelowIn(old[h + 2], v)
              X == BelowIn(new[h + 1], v)
              Y == BelowIn(new[h + 2], v)
  <2>1. (h + 1) - 1 = h /\ (h + 2) - 1 = h + 1
    OBVIOUS
  <2>2. /\ Naturals(f, L) /\ RankIn(old, v) \in Nat
        /\ f[h + 1] = TwoTo((h + 1) - 1) * x /\ f[h + 2] = TwoTo((h + 2) - 1) * y
        /\ x \in Nat /\ y \in Nat
    BY <1>1, <1>3, RanksType
  <2>3. /\ Naturals(g, L) /\ RankIn(new, v) \in Nat
        /\ g[h + 1] = TwoTo((h + 1) - 1) * X /\ g[h + 2] = TwoTo((h + 2) - 1) * Y
        /\ X \in Nat /\ Y \in Nat
    <3>1. Len(new) <= n + 1 /\ h + 1 \in 1..Len(new) /\ h + 2 \in 1..Len(new)
      BY <1>1, <1>7
    <3>. HIDE DEF new, L
    <3>2. /\ Naturals(g, Len(new)) /\ RankIn(new, v) \in Nat
          /\ g[h + 1] = TwoTo((h + 1) - 1) * X /\ g[h + 2] = TwoTo((h + 2) - 1) * Y
          /\ X \in Nat /\ Y \in Nat
      BY <1>7, <1>8, <3>1, RanksType
    <3>. QED BY <1>7, <3>2
  <2>4. \A i \in 1..L : i # h + 1 /\ i # h + 2 => f[i] = g[i]
    BY <1>7 DEF ranks
  <2>5. RankIn(new, v) = Sigma(g, L) /\ RankIn(old, v) = Sigma(f, L)
    BY <1>7 DEF RankIn
  <2>6. Near(X + 2 * Y, x + 2 * y, 1)
    BY <1>6 DEF SplitsEvenly
  <2>. HIDE DEF f, g, x, y, X, Y, new, old, L
  <2>7. Sigma(g, L) + f[h + 1] + f[h + 2] = Sigma(f, L) + g[h + 1] + g[h + 2]
    BY <1>1, <2>2, <2>3, <2>4, SigmaAtTwo
  <2>8. f[h + 1] \in Nat /\ f[h + 2] \in Nat /\ g[h + 1] \in Nat /\ g[h + 2] \in Nat
    BY <1>1, <2>2, <2>3 DEF Naturals
  <2>9. f[h + 1] = P * x /\ f[h + 2] = (2 * P) * y /\ g[h + 1] = P * X /\ g[h + 2] = (2 * P) * Y
    BY <1>2, <2>1, <2>2, <2>3
  <2>10. \A p, a, c \in Nat : p * a + (2 * p) * c = p * (a + 2 * c)
    OBVIOUS
  <2>11. f[h + 1] + f[h + 2] = P * (x + 2 * y) /\ g[h + 1] + g[h + 2] = P * (X + 2 * Y)
    <3>1. P * x + (2 * P) * y = P * (x + 2 * y)
      BY <1>2, <2>2, <2>10
    <3>2. P * X + (2 * P) * Y = P * (X + 2 * Y)
      BY <1>2, <2>3, <2>10
    <3>. HIDE DEF P
    <3>. QED BY <2>9, <3>1, <3>2
  <2>12. Near(P * (X + 2 * Y), P * (x + 2 * y), P)
    <3>1. X + 2 * Y \in Nat /\ x + 2 * y \in Nat
      BY <2>2, <2>3
    <3>. QED BY <1>2, <2>6, <3>1, NearTimes
  <2>13. Near(g[h + 1] + g[h + 2], f[h + 1] + f[h + 2], P)
    BY <2>11, <2>12
  <2>14. Near(Sigma(g, L), Sigma(f, L), P)
    <3>. HIDE DEF P
    <3>. QED BY <2>2, <2>3, <2>5, <2>7, <2>8, <2>13, NearSums
  <2>. QED BY <2>5, <2>14
<1>. QED BY <1>2, <1>6, <1>9, <1>10 DEF d

\* An empty level on top has no part in the ranks.
LEMMA GrownRanks ==
  ASSUME NEW levels, Lists(levels), NEW n \in Nat, Powers(n), Len(levels) + 1 <= n + 1,
         1 <= Len(levels), NEW b, Kept(levels, b)
  PROVE  LET up == Append(levels, <<>>)
         IN Kept(up, b) /\ \A v \in Nat : RankIn(up, v) = RankIn(levels, v)
<1>. DEFINE up == Append(levels, <<>>)
            L == Len(levels)
<1>1. /\ L \in Nat /\ 1 \in 1..L /\ Lists(up) /\ Len(up) = L + 1 /\ up[L + 1] = <<>>
      /\ \A i \in 1..L : up[i] = levels[i]
  <2>1. L \in Nat /\ List(levels)
    BY LevelLengths DEF Lists
  <2>2. 1 \in 1..L
    BY <2>1
  <2>. QED BY <2>1, <2>2, GrownIs, ListAppend
<1>. HIDE DEF up
<1>2. /\ \A i \in 1..L : Items(levels[i])
      /\ \A i \in 2..L : Ascending(levels[i])
      /\ b => Ascending(levels[1])
  BY DEF Kept
<1>3. Kept(up, b)
  <2>1. ASSUME NEW i \in 1..L + 1 PROVE Items(up[i]) /\ (i \in 2..L + 1 => Ascending(up[i]))
    <3>. HIDE DEF L
    <3>1. i = L + 1 \/ (i \in 1..L /\ (i \in 2..L + 1 => i \in 2..L))
      BY <1>1
    <3>. QED BY <1>1, <1>2, <3>1, FewAscend
  <2>2. \A i \in 2..L + 1 : i \in 1..L + 1
    BY <1>1
  <2>. HIDE DEF L
  <2>. QED BY <1>1, <1>2, <2>1, <2>2 DEF Kept
<1>4. ASSUME NEW v \in Nat PROVE RankIn(up, v) = RankIn(levels, v)
  <2>. DEFINE f == ranks(levels, v)
              g == ranks(up, v)
  <2>1. Naturals(f, L) /\ Sigma(f, L) \in Nat
    <3>1. L <= n + 1
      BY <1>1
    <3>. QED BY <1>2, <3>1, RanksType DEF RankIn
  <2>2. \A i \in 1..L : g[i] = f[i]
    <3>1. \A i \in 1..L : i \in 1..L + 1
      BY <1>1
    <3>. QED BY <1>1, <3>1 DEF ranks
  <2>3. g[L + 1] = 0
    <3>1. L + 1 \in 1..L + 1 /\ (L + 1) - 1 = L /\ L \in 0..n
      <4>. HIDE DEF L
      <4>. QED BY <1>1 DEF L
    <3>2. g[L + 1] = TwoTo((L + 1) - 1) * BelowIn(up[L + 1], v)
      BY <1>1, <3>1 DEF ranks
    <3>3. BelowIn(up[L + 1], v) = 0
      BY <1>1, FewAscend
    <3>4. TwoTo(L) \in Nat
      BY <3>1 DEF Powers, Power
    <3>5. TwoTo(L) * 0 = 0
      BY <3>4
    <3>. QED BY <3>1, <3>2, <3>3, <3>5
  <2>. HIDE DEF f, g
  <2>4. Sigma(g, L) = Sigma(f, L)
    BY <1>1, <2>2, SigmaSame
  <2>5. Sigma(g, L + 1) = Sigma(f, L)
    <3>1. Sigma(g, L + 1) = Sigma(g, L) + g[L + 1]
      BY <1>1, SigmaUnfolds
    <3>. QED BY <2>1, <2>3, <2>4, <3>1
  <2>. QED BY <1>1, <2>5 DEF RankIn, f, g
<1>. QED BY <1>3, <1>4 DEF up

\* The compaction of a level, with a new top if it is the top one, takes the ranks
\* from those of R no farther than the error says.
LEMMA LevelMoves ==
  ASSUME NEW levels, Lists(levels), NEW h \in 0..Len(levels) - 1,
         NEW b \in BOOLEAN, Kept(levels, b),
         NEW w, Compactable(w), w.levels = GrownLevels(levels, h), Tossable(w),
         NEW mustSort \in BOOLEAN, h = 0 => mustSort \/ b,
         NEW n \in Nat, Powers(n), Len(levels) + 1 <= n + 1,
         NEW R, \A v \in Nat : Near(RankIn(levels, v), R[v], w.err)
  PROVE  LET d == compact(w, h, mustSort)
         IN /\ Kept(d.levels, b) /\ Tossable(d)
            /\ \A v \in Nat : Near(RankIn(d.levels, v), R[v], d.err)
<1>. DEFINE L == Len(levels)
            d == compact(w, h, mustSort)
<1>1. L \in Nat /\ h \in Nat /\ 1 <= L
  <2>1. L \in Nat
    BY LevelLengths
  <2>. HIDE DEF L
  <2>. QED BY <2>1 DEF L
<1>2. /\ Lists(w.levels) /\ h + 2 <= Len(w.levels) /\ Len(w.levels) <= n + 1 /\ Kept(w.levels, b)
      /\ \A v \in Nat : RankIn(w.levels, v) = RankIn(levels, v)
  <2>1. CASE h = L - 1
    <3>1. w.levels = Append(levels, <<>>)
      BY <2>1 DEF GrownLevels
    <3>2. LET up == Append(levels, <<>>)
          IN /\ Lists(up) /\ Len(up) = L + 1 /\ Kept(up, b)
             /\ \A v \in Nat : RankIn(up, v) = RankIn(levels, v)
      BY <1>1, GrownIs, GrownRanks
    <3>3. h + 2 <= L + 1 /\ L + 1 <= n + 1
      <4>. HIDE DEF L
      <4>. QED BY <1>1, <2>1 DEF L
    <3>. QED BY <3>1, <3>2, <3>3
  <2>2. CASE h # L - 1
    <3>1. w.levels = levels
      BY <2>2 DEF GrownLevels
    <3>2. h + 2 <= L /\ L <= n + 1
      <4>. HIDE DEF L
      <4>. QED BY <1>1, <2>2 DEF L
    <3>. QED BY <3>1, <3>2
  <2>. QED BY <2>1, <2>2
<1>3. /\ Kept(d.levels, b) /\ Tossable(d) /\ d.err = w.err + TwoTo(h) /\ TwoTo(h) \in Nat
      /\ \A v \in Nat : Near(RankIn(d.levels, v), RankIn(w.levels, v), TwoTo(h))
  <2>. HIDE DEF L
  <2>. QED BY <1>1, <1>2, CompactMoves
<1>. HIDE DEF d
<1>4. \A v \in Nat : Near(RankIn(d.levels, v), R[v], d.err)
  <2>1. ASSUME NEW v \in Nat PROVE Near(RankIn(d.levels, v), R[v], w.err + TwoTo(h))
    BY <1>2, <1>3, NearAdds
  <2>. QED BY <1>3, <2>1
<1>. QED BY <1>3, <1>4 DEF d

-----------------------------------------------------------------------------
(* The ranks of a sketch. *)

\* Those of R, as far as the error lets one know.
Ranked(s, R) ==
  /\ s.isLevelZeroSorted \in BOOLEAN /\ Kept(s.levels, s.isLevelZeroSorted)
  /\ Tossable(s)
  /\ \A v \in Nat : Near(RankIn(s.levels, v), R[v], s.err)

lessThan(x, v) == IF x < v THEN 1 ELSE 0

\* Making room.
LEMMA RoomIsRanked ==
  ASSUME NEW most \in Nat, Powers(most + 1), NEW s, Sound(s, most), freeCells(s) = 0,
         NEW R, Ranked(s, R)
  PROVE  Ranked(compress_while_updating(s), R)
<1>. DEFINE h == find_level_to_compact(s)
            L == Len(s.levels)
            isTop == h = L - 1
            grown == IF isTop THEN add_empty_top_level(s) ELSE s
            mustSort == h = 0
            b == s.isLevelZeroSorted
            d == compact(grown, h, mustSort)
<1>1. compress_while_updating(s) = d
  BY DEF compress_while_updating
<1>2. h \in 0..L - 1
  BY FindIs
<1>3. /\ DOMAIN s = SketchFields /\ Lists(s.levels) /\ L + 1 <= (most + 1) + 1
  <2>1. DOMAIN s = SketchFields /\ Lists(s.levels) /\ s.n \in 0..most
        /\ L \in 1..s.n + 1
    BY SoundIs DEF Sound
  <2>. HIDE DEF L
  <2>. QED BY <2>1
<1>4. /\ DOMAIN grown = SketchFields /\ Compactable(grown)
      /\ grown.levels = GrownLevels(s.levels, h)
      /\ grown.err = s.err /\ grown.coins = s.coins /\ grown.isLevelZeroSorted = b
  BY <1>3 DEF SketchFields, Compactable, GrownLevels, add_empty_top_level
<1>. HIDE DEF grown, h
<1>5. /\ b \in BOOLEAN /\ Kept(s.levels, b) /\ Tossable(grown)
      /\ \A v \in Nat : Near(RankIn(s.levels, v), R[v], grown.err)
  BY <1>4 DEF Ranked, Tossable
<1>6. /\ Kept(d.levels, b) /\ Tossable(d)
      /\ \A v \in Nat : Near(RankIn(d.levels, v), R[v], d.err)
  <2>1. mustSort \in BOOLEAN /\ (h = 0 => mustSort \/ b) /\ most + 1 \in Nat
    OBVIOUS
  <2>. HIDE DEF L, mustSort, b
  <2>. QED BY <1>2, <1>3, <1>4, <1>5, <2>1, LevelMoves DEF L
<1>7. d.isLevelZeroSorted = b
  <2>1. OtherwiseSame(d, grown)
    <3>1. DOMAIN d = DOMAIN grown /\ d = [grown EXCEPT !.levels = d.levels, !.coins = d.coins, !.err = d.err]
      <4>1. \E x, y, z, u : d = [grown EXCEPT !.levels[h + 1] = x, !.levels[h + 2] = y, !.coins = z, !.err = u]
        BY DEF compact
      <4>. HIDE DEF d
      <4>. QED BY <1>4, <4>1 DEF SketchFields
    <3>. HIDE DEF d
    <3>. QED BY <1>4, <3>1 DEF OtherwiseSame, SketchFields
  <2>. QED BY <1>4, <2>1 DEF OtherwiseSame, SketchFields
<1>. HIDE DEF d, b
<1>. QED BY <1>1, <1>5, <1>6, <1>7 DEF Ranked

\* An item more at the bottom.
LEMMA InsertRanks ==
  ASSUME NEW levels, NEW n \in Nat, Stack(levels, n), Powers(n + 1), NEW x \in Nat,
         NEW b, Kept(levels, b)
  PROVE  LET new == inserted(levels, x)
         IN /\ Kept(new, FALSE)
            /\ \A v \in Nat : RankIn(new, v) = RankIn(levels, v) + lessThan(x, v)
<1>. DEFINE bottom == <<x>> \o levels[1]
            new == inserted(levels, x)
            L == Len(levels)
<1>1. /\ Lists(levels) /\ L \in Nat /\ L \in 1..n + 1 /\ 1 \in 1..L /\ DOMAIN levels = 1..L
      /\ \A h \in 1..L : Items(levels[h])
      /\ \A h \in 2..L : Ascending(levels[h])
  <2>1. Lists(levels) /\ L \in 1..n + 1
    BY DEF Stack
  <2>2. L \in Nat /\ 1 \in 1..L
    <3>. HIDE DEF L
    <3>. QED BY <2>1
  <2>. QED BY <2>1, <2>2, ListIs DEF Lists, Kept
<1>2. /\ Items(bottom)
      /\ \A v : BelowIn(bottom, v) = lessThan(x, v) + BelowIn(levels[1], v)
  <2>. DEFINE old == levels[1]
  <2>1. Items(old)
    BY <1>1
  <2>. HIDE DEF old
  <2>. DEFINE m == Len(old)
              t == <<x>> \o old
  <2>2. t \in Seq(Nat) /\ m \in Nat /\ Len(t) = m + 1 /\ t[1] = x /\ \A p \in 1..m : t[p + 1] = old[p]
    BY <2>1 DEF Items
  <2>. HIDE DEF t
  <2>3. \A v : BelowIn(t, v) = BelowIn(<<t[1]>>, v) + BelowIn(old, v)
    BY <2>2, BelowLonger
  <2>4. \A v : BelowIn(<<x>>, v) = lessThan(x, v)
    BY FewAscend DEF lessThan
  <2>. QED BY <2>2, <2>3, <2>4 DEF Items, t, old
<1>3. Stack(new, n + 1) /\ Len(new) = L
  BY InsertIs
<1>4. /\ DOMAIN new = 1..L /\ new[1] = bottom
      /\ \A i \in 1..L : i # 1 => new[i] = levels[i]
  <2>. HIDE DEF L
  <2>. QED BY <1>1 DEF inserted
<1>. HIDE DEF new, bottom
<1>5. Lists(new) /\ \A i \in 1..L : Items(new[i])
  BY <1>1, <1>2, <1>3, <1>4 DEF Stack
<1>6. \A i \in 2..L : Ascending(new[i])
  <2>1. \A i \in 2..L : i \in 1..L /\ i # 1
    BY <1>1
  <2>. QED BY <1>1, <1>4, <2>1
<1>7. Kept(new, FALSE)
  BY <1>3, <1>5, <1>6 DEF Kept
<1>8. ASSUME NEW v \in Nat PROVE RankIn(new, v) = RankIn(levels, v) + lessThan(x, v)
  <2>. DEFINE f == ranks(levels, v)
              g == ranks(new, v)
  <2>1. L <= (n + 1) + 1 /\ n + 1 \in Nat
    <3>. HIDE DEF L
    <3>. QED BY <1>1
  <2>2. /\ Naturals(f, L) /\ RankIn(levels, v) \in Nat
        /\ f[1] = TwoTo(1 - 1) * BelowIn(levels[1], v) /\ BelowIn(levels[1], v) \in Nat
    BY <1>1, <2>1, RanksType
  <2>3. /\ Naturals(g, L) /\ RankIn(new, v) \in Nat
        /\ g[1] = TwoTo(1 - 1) * BelowIn(new[1], v) /\ BelowIn(new[1], v) \in Nat
    <3>1. Len(new) <= (n + 1) + 1 /\ 1 \in 1..Len(new)
      BY <1>1, <1>3, <2>1
    <3>2. /\ Naturals(g, Len(new)) /\ RankIn(new, v) \in Nat
          /\ g[1] = TwoTo(1 - 1) * BelowIn(new[1], v) /\ BelowIn(new[1], v) \in Nat
      BY <1>3, <1>5, <2>1, <3>1, RanksType
    <3>. QED BY <1>3, <3>2
  <2>4. TwoTo(1 - 1) = 1
    <3>1. 1 - 1 = 0 /\ Power(0)
      BY DEF Powers
    <3>. QED BY <3>1 DEF Power
  <2>5. \A i \in 1..L : i # 1 => f[i] = g[i]
    BY <1>3, <1>4 DEF ranks
  <2>6. RankIn(new, v) = Sigma(g, L) /\ RankIn(levels, v) = Sigma(f, L)
    BY <1>3 DEF RankIn
  <2>. HIDE DEF f, g, L
  <2>7. Sigma(g, L) + f[1] = Sigma(f, L) + g[1]
    BY <1>1, <2>2, <2>3, <2>5, SigmaAt
  <2>8. BelowIn(new[1], v) = lessThan(x, v) + BelowIn(levels[1], v) /\ lessThan(x, v) \in Nat
    BY <1>2, <1>4 DEF lessThan
  <2>9. f[1] = BelowIn(levels[1], v) /\ g[1] = lessThan(x, v) + BelowIn(levels[1], v)
    BY <2>2, <2>3, <2>4, <2>8
  <2>. QED BY <2>2, <2>3, <2>6, <2>7, <2>8, <2>9
<1>. QED BY <1>7, <1>8 DEF new

\* The ranks with x in the stream.
withItem(R, x) == [v \in Nat |-> R[v] + lessThan(x, v)]

\* An update.
LEMMA UpdatedIsRanked ==
  ASSUME NEW most \in Nat, Powers(most + 1), NEW s, Sound(s, most), s.n < most,
         NEW x \in Nat, NEW R, Ranked(s, R)
  PROVE  Ranked(updated(s, x), withItem(R, x))
<1>. DEFINE room == IF freeCells(s) = 0 THEN compress_while_updating(s) ELSE s
            min == IF is_empty(s) \/ less(x, s.min) THEN x ELSE s.min
            max == IF is_empty(s) \/ less(s.max, x) THEN x ELSE s.max
            d == updated(s, x)
<1>1. d = [room EXCEPT !.min = min, !.max = max, !.n = @ + 1, !.isLevelZeroSorted = FALSE,
                       !.levels[1] = <<x>> \o @]
  BY DEF updated
<1>2. Sound(room, most) /\ Ranked(room, R)
  BY CompressWhileUpdatingIs, RoomIsRanked
<1>. HIDE DEF room, min, max
<1>3. /\ DOMAIN room = SketchFields /\ Stack(room.levels, room.n) /\ room.n \in Nat
      /\ Powers(room.n + 1) /\ Lists(room.levels) /\ Len(room.levels) \in 1..room.n + 1
  BY <1>2, SoundIs DEF Sound
<1>4. /\ d.levels = inserted(room.levels, x) /\ d.isLevelZeroSorted = FALSE
      /\ d.err = room.err /\ d.coins = room.coins
  <2>. HIDE DEF d
  <2>. QED BY <1>1, <1>3 DEF SketchFields, inserted
<1>. HIDE DEF d
<1>5. /\ Kept(room.levels, room.isLevelZeroSorted) /\ Tossable(room)
      /\ \A v \in Nat : Near(RankIn(room.levels, v), R[v], room.err)
  BY <1>2 DEF Ranked
<1>6. /\ Kept(d.levels, FALSE)
      /\ \A v \in Nat : RankIn(d.levels, v) = RankIn(room.levels, v) + lessThan(x, v)
  <2>1. LET new == inserted(room.levels, x)
        IN /\ Kept(new, FALSE)
           /\ \A v \in Nat : RankIn(new, v) = RankIn(room.levels, v) + lessThan(x, v)
    BY <1>3, <1>5, InsertRanks
  <2>. QED BY <1>4, <2>1
<1>7. ASSUME NEW v \in Nat PROVE Near(RankIn(d.levels, v), withItem(R, x)[v], d.err)
  <2>1. Near(RankIn(room.levels, v), R[v], d.err) /\ lessThan(x, v) \in Nat
    BY <1>4, <1>5 DEF lessThan
  <2>2. withItem(R, x)[v] = R[v] + lessThan(x, v)
    BY DEF withItem
  <2>3. \A a, c, e, o : Near(a, c, e) /\ o \in Nat => Near(a + o, c + o, e)
    BY DEF Near
  <2>. QED BY <1>6, <2>1, <2>2, <2>3
<1>8. Tossable(d)
  BY <1>4, <1>5 DEF Tossable
<1>9. d.isLevelZeroSorted \in BOOLEAN /\ Kept(d.levels, d.isLevelZeroSorted)
  BY <1>4, <1>6
<1>. QED BY <1>7, <1>8, <1>9 DEF Ranked, d

-----------------------------------------------------------------------------
(* The ranks of a merge. *)

\* Only the ranks of numbers matter.
LEMMA RankedSame ==
  ASSUME NEW s, NEW R, Ranked(s, R), NEW Q, \A v \in Nat : Q[v] = R[v]
  PROVE  Ranked(s, Q)
BY DEF Ranked

\* The ranks with the first i items of q in the stream, q being of natural numbers.
withItems(R, q, i) == [v \in Nat |-> R[v] + Below(q, i, v)]

\* What LeftKeeps asks of the fold: p has the bound, n and the ranks.
rankedUpTo(p, q, i, s) == Sound(s, p[1]) /\ s.n = p[2] + i /\ Ranked(s, withItems(p[3], q, i))
RanksFed == INSTANCE FoldTheorems WITH step <- feeding, choose <- lastOf, Good <- rankedUpTo

\* Level zero of the other sketch is inserted item by item.
LEMMA FedIsRanked ==
  ASSUME NEW most \in Nat, Powers(most + 1), NEW s, Sound(s, most),
         NEW items, Items(items), s.n + Len(items) <= most,
         NEW R, Ranked(s, R)
  PROVE  Ranked(FoldLeft(updated, s, items), withItems(R, items, Len(items)))
<1>. DEFINE n == Len(items)
            p == <<most, s.n, R>>
            d == FoldLeft(updated, s, items)
<1>1. n \in Nat /\ DOMAIN items = 1..n /\ s.n \in Nat
  BY ItemsAre, SoundIs
<1>2. p[1] = most /\ p[2] = s.n /\ p[3] = R
  OBVIOUS
<1>. HIDE DEF p
<1>3. d = RanksFed!Left(p, items, s, n)
  BY <1>1 DEF FoldLeft, MapThenFoldSet, Max, RanksFed!Left, RanksFed!Fold,
              RanksFed!MapThenFoldSet, feeding, lastOf
<1>. HIDE DEF d
<1>4. RanksFed!ChoosesLast
  BY DEF RanksFed!ChoosesLast, lastOf
<1>5. RanksFed!Preserves(p, items, n)
  <2>1. ASSUME NEW i \in 1..n, NEW acc, rankedUpTo(p, items, i - 1, acc)
        PROVE  rankedUpTo(p, items, i, feeding(p, items, i, acc))
    <3>. DEFINE Q == withItems(R, items, i - 1)
                x == items[i]
                new == updated(acc, x)
    <3>1. Sound(acc, most) /\ acc.n = s.n + (i - 1) /\ Ranked(acc, Q)
      BY <1>2, <2>1 DEF rankedUpTo
    <3>2. acc.n < most /\ acc.n + 1 = s.n + i
      <4>. HIDE DEF n
      <4>1. s.n + n <= most
        BY DEF n
      <4>. QED BY <1>1, <3>1, <4>1
    <3>3. x \in Nat
      BY ItemsAre
    <3>. HIDE DEF Q, x
    <3>4. Sound(new, most) /\ new.n = acc.n + 1
      BY <3>1, <3>2, UpdatedIs
    <3>5. Ranked(new, withItem(Q, x))
      BY <3>1, <3>2, <3>3, UpdatedIsRanked
    <3>. HIDE DEF new
    <3>6. \A v \in Nat : withItems(R, items, i)[v] = withItem(Q, x)[v]
      <4>1. SUFFICES ASSUME NEW v \in Nat PROVE withItems(R, items, i)[v] = withItem(Q, x)[v]
        OBVIOUS
      <4>2. /\ withItems(R, items, i)[v] = R[v] + Below(items, i, v)
            /\ withItem(Q, x)[v] = Q[v] + lessThan(x, v)
            /\ Q[v] = R[v] + Below(items, i - 1, v)
        BY DEF withItems, withItem, Q
      <4>3. /\ Below(items, i, v) = Below(items, i - 1, v) + lessThan(x, v)
            /\ Below(items, i - 1, v) \in Nat /\ lessThan(x, v) \in Nat
        <5>1. i - 1 \in Nat /\ (i - 1) + 1 = i
          BY <1>1
        <5>2. /\ Below(items, (i - 1) + 1, v) = Below(items, i - 1, v)
                   + (IF items[(i - 1) + 1] < v THEN 1 ELSE 0)
              /\ Below(items, i - 1, v) \in Nat
          BY <5>1, BelowUnfolds
        <5>. QED BY <5>1, <5>2 DEF lessThan, x
      <4>4. R[v] \in Nat
        <5>1. Near(RankIn(s.levels, v), R[v], s.err)
          BY DEF Ranked
        <5>. QED BY <5>1 DEF Near
      <4>. QED BY <4>2, <4>3, <4>4
    <3>7. Ranked(new, withItems(R, items, i))
      BY <3>5, <3>6, RankedSame
    <3>. QED BY <1>2, <3>2, <3>4, <3>7 DEF rankedUpTo, feeding, new, x
  <2>. QED BY <2>1 DEF RanksFed!Preserves
<1>6. rankedUpTo(p, items, 0, s)
  <2>1. \A v \in Nat : withItems(R, items, 0)[v] = R[v]
    <3>1. \A v \in Nat : Below(items, 0, v) = 0 /\ R[v] \in Nat
      BY BelowUnfolds DEF Ranked, Near
    <3>. QED BY <3>1 DEF withItems
  <2>2. Ranked(s, withItems(R, items, 0))
    BY <2>1, RankedSame
  <2>. QED BY <1>1, <1>2, <2>2 DEF rankedUpTo
<1>. HIDE DEF n
<1>7. rankedUpTo(p, items, n, d)
  BY <1>1, <1>3, <1>4, <1>5, <1>6, RanksFed!LeftKeeps
<1>. QED BY <1>2, <1>7 DEF rankedUpTo, d, n

\* A level, or nothing in its place.
LEMMA SafeItems ==
  ASSUME NEW s, Lists(s.levels), NEW b, Kept(s.levels, b), NEW h \in Nat \ {0}
  PROVE  /\ Items(safe_level(s, h))
         /\ h # 1 => Ascending(safe_level(s, h))
         /\ h <= Len(s.levels) => safe_level(s, h) = s.levels[h]
         /\ h > Len(s.levels) => \A v : BelowIn(safe_level(s, h), v) = 0
<1>1. CASE h > Len(s.levels)
  <2>1. safe_level(s, h) = <<>>
    BY <1>1 DEF safe_level
  <2>2. ~ (h <= Len(s.levels))
    BY <1>1, LevelLengths
  <2>. QED BY <2>1, <2>2, FewAscend
<1>2. CASE ~ (h > Len(s.levels))
  <2>1. safe_level(s, h) = s.levels[h]
    BY <1>2 DEF safe_level
  <2>2. h \in 1..Len(s.levels) /\ (h # 1 => h \in 2..Len(s.levels))
    BY <1>2, LevelLengths
  <2>. QED BY <1>2, <2>1, <2>2 DEF Kept
<1>. QED BY <1>1, <1>2

\* The rank among the levels, those that are not there counted too.
LEMMA SafeRank ==
  ASSUME NEW s, Lists(s.levels), NEW b, Kept(s.levels, b), NEW most \in Nat, Powers(most + 1),
         NEW size \in Nat, Len(s.levels) <= size, size <= most + 1, NEW v,
         NEW f, \A h \in 1..size : f[h] = TwoTo(h - 1) * BelowIn(safe_level(s, h), v)
  PROVE  Naturals(f, size) /\ Sigma(f, size) = RankIn(s.levels, v)
<1>. DEFINE L == Len(s.levels)
            g == ranks(s.levels, v)
<1>1. L \in Nat /\ L <= size
  BY LevelLengths
<1>2. ASSUME NEW h \in 1..size PROVE f[h] \in Nat /\ (h > L => f[h] = 0) /\ (h <= L => f[h] = g[h])
  <2>1. TwoTo(h - 1) \in Nat
    <3>1. h - 1 \in 0..most + 1
      OBVIOUS
    <3>. QED BY <3>1 DEF Powers, Power
  <2>2. /\ BelowIn(safe_level(s, h), v) \in Nat
        /\ h <= L => safe_level(s, h) = s.levels[h]
        /\ h > L => BelowIn(safe_level(s, h), v) = 0
    <3>1. h \in Nat \ {0}
      OBVIOUS
    <3>2. /\ Items(safe_level(s, h))
          /\ h <= L => safe_level(s, h) = s.levels[h]
          /\ h > L => BelowIn(safe_level(s, h), v) = 0
      BY <3>1, SafeItems
    <3>. QED BY <3>2, ItemsAre, BelowUnfolds DEF BelowIn
  <2>3. f[h] = TwoTo(h - 1) * BelowIn(safe_level(s, h), v)
    OBVIOUS
  <2>4. \A x, y \in Nat : x * y \in Nat /\ x * 0 = 0
    OBVIOUS
  <2>5. f[h] \in Nat /\ (h > L => f[h] = 0)
    <3>. HIDE DEF L
    <3>. QED BY <2>1, <2>2, <2>3, <2>4
  <2>6. ASSUME h <= L PROVE f[h] = g[h]
    <3>1. h \in 1..L
      <4>. HIDE DEF L
      <4>. QED BY <1>1, <2>6
    <3>2. g[h] = TwoTo(h - 1) * BelowIn(s.levels[h], v)
      BY <3>1 DEF ranks
    <3>. QED BY <2>2, <2>3, <2>6, <3>2
  <2>. QED BY <2>5, <2>6
<1>3. RankIn(s.levels, v) = Sigma(g, L)
  BY DEF RankIn
<1>. HIDE DEF L, g
<1>4. Naturals(f, size)
  BY <1>2 DEF Naturals
<1>5. Sigma(f, size) = Sigma(f, L)
  <2>1. L \in 0..size /\ \A i \in L + 1..size : f[i] = 0
    BY <1>1, <1>2
  <2>. QED BY <1>4, <2>1, SigmaPadded
<1>6. Sigma(f, L) = Sigma(g, L)
  <2>1. \A i \in 1..L : f[i] = g[i]
    BY <1>1, <1>2
  <2>. QED BY <1>1, <2>1, SigmaSame
<1>. QED BY <1>3, <1>4, <1>5, <1>6

\* The rank among the levels but level zero.
RankAbove(levels, v) == RankIn(levels, v) - BelowIn(levels[1], v)

\* The levels of both: of the second sketch, all but level zero.
LEMMA PopulateRanks ==
  ASSUME NEW a, NEW b, Lists(a.levels), Lists(b.levels), NEW n \in Nat, Powers(n + 1),
         Len(a.levels) \in 1..n + 1, Len(b.levels) \in 1..n + 1,
         NEW flag, Kept(a.levels, flag), NEW other, Kept(b.levels, other)
  PROVE  LET new == populate_work_arrays(a, b)
         IN /\ Kept(new, flag)
            /\ \A v \in Nat : /\ RankIn(new, v) = RankIn(a.levels, v) + RankAbove(b.levels, v)
                              /\ RankAbove(b.levels, v) \in Nat
<1>. DEFINE L1 == Len(a.levels)
            L2 == Len(b.levels)
            size == Max({L1, L2})
            new == populate_work_arrays(a, b)
<1>1. /\ L1 \in Nat /\ L2 \in Nat /\ L1 <= size /\ L2 <= size
      /\ size \in Nat /\ size <= n + 1 /\ 1 \in 1..size /\ 1 \in 1..L1 /\ 1 \in 1..L2
  <2>1. L1 \in Nat /\ L2 \in Nat /\ L1 >= 1 /\ L2 >= 1 /\ L1 <= n + 1 /\ L2 <= n + 1
    <3>. HIDE DEF L1, L2
    <3>. QED BY DEF L1, L2
  <2>2. size \in {L1, L2} /\ L1 <= size /\ L2 <= size
    BY <2>1, MaxOfTwo
  <2>. HIDE DEF L1, L2, size
  <2>. QED BY <2>1, <2>2
<1>2. \A h \in 1..size :
        /\ Items(safe_level(a, h)) /\ Items(safe_level(b, h))
        /\ h # 1 => Ascending(safe_level(a, h)) /\ Ascending(safe_level(b, h))
  <2>1. \A h \in 1..size : h \in Nat \ {0}
    BY <1>1
  <2>. HIDE DEF size
  <2>. QED BY <2>1, SafeItems
<1>3. /\ DOMAIN new = 1..size /\ new = [h \in 1..size |-> new[h]]
      /\ new[1] = a.levels[1]
      /\ \A h \in 1..size : h # 1 => new[h] = merge_sorted_arrays(safe_level(a, h), safe_level(b, h))
  <2>1. new = [h \in 1..size |-> IF h = 1 THEN a.levels[1]
                                 ELSE merge_sorted_arrays(safe_level(a, h), safe_level(b, h))]
    BY DEF populate_work_arrays, provisionalLevels
  <2>. HIDE DEF new, size
  <2>. QED BY <1>1, <2>1
<1>. HIDE DEF new
<1>4. List(new) /\ Len(new) = size
  <2>. HIDE DEF size
  <2>. QED BY <1>1, <1>3, ListOfPlaces
<1>5. \A h \in 1..size :
        /\ Items(new[h]) /\ (h # 1 => Ascending(new[h]))
        /\ \A v : BelowIn(new[h], v) = BelowIn(safe_level(a, h), v)
                    + IF h = 1 THEN 0 ELSE BelowIn(safe_level(b, h), v)
  <2>1. ASSUME NEW h \in 1..size
        PROVE  /\ Items(new[h]) /\ (h # 1 => Ascending(new[h]))
               /\ \A v : BelowIn(new[h], v) = BelowIn(safe_level(a, h), v)
                           + IF h = 1 THEN 0 ELSE BelowIn(safe_level(b, h), v)
    <3>1. CASE h = 1
      <4>1. safe_level(a, 1) = a.levels[1]
        <5>1. 1 <= Len(a.levels) /\ 1 \in Nat \ {0}
          BY <1>1
        <5>. QED BY <5>1, SafeItems
      <4>2. Items(a.levels[1])
        BY <1>1 DEF Kept
      <4>3. \A v : BelowIn(a.levels[1], v) \in Nat
        BY <4>2, ItemsAre, BelowUnfolds DEF BelowIn
      <4>. QED BY <1>3, <3>1, <4>1, <4>2, <4>3
    <3>2. CASE h # 1
      <4>1. new[h] = merge_sorted_arrays(safe_level(a, h), safe_level(b, h))
        BY <1>3, <3>2
      <4>2. Items(safe_level(a, h)) /\ Items(safe_level(b, h))
            /\ Ascending(safe_level(a, h)) /\ Ascending(safe_level(b, h))
        BY <1>2, <3>2
      <4>3. LET m == merge_sorted_arrays(safe_level(a, h), safe_level(b, h))
            IN /\ Items(m) /\ Ascending(m)
               /\ \A v : BelowIn(m, v) = BelowIn(safe_level(a, h), v) + BelowIn(safe_level(b, h), v)
        BY <4>2, MergeKeeps DEF BelowIn
      <4>. QED BY <3>2, <4>1, <4>3
    <3>. QED BY <3>1, <3>2
  <2>. QED BY <2>1
<1>6. Kept(new, flag)
  <2>1. \A h \in 2..size : h \in 1..size /\ h # 1
    BY <1>1
  <2>2. flag => Ascending(new[1])
    BY <1>3 DEF Kept
  <2>. HIDE DEF size
  <2>. QED BY <1>4, <1>5, <2>1, <2>2 DEF Kept
<1>7. ASSUME NEW v \in Nat
      PROVE  /\ RankIn(new, v) = RankIn(a.levels, v) + RankAbove(b.levels, v)
             /\ RankAbove(b.levels, v) \in Nat
  <2>. DEFINE lower(h) == BelowIn(safe_level(a, h), v)
              upper(h) == BelowIn(safe_level(b, h), v)
              f == [h \in 1..size |-> TwoTo(h - 1) * lower(h)]
              g == [h \in 1..size |-> TwoTo(h - 1) * upper(h)]
              g0 == [h \in 1..size |-> IF h = 1 THEN 0 ELSE g[h]]
              first == BelowIn(b.levels[1], v)
  <2>1. \A h \in 1..size : lower(h) \in Nat /\ upper(h) \in Nat
    BY <1>2, ItemsAre, BelowUnfolds DEF BelowIn
  <2>2. Naturals(f, size) /\ Sigma(f, size) = RankIn(a.levels, v)
    <3>1. \A h \in 1..size : f[h] = TwoTo(h - 1) * BelowIn(safe_level(a, h), v)
      OBVIOUS
    <3>2. Len(a.levels) <= size /\ size <= n + 1 /\ size \in Nat
      BY <1>1
    <3>. HIDE DEF f, g, g0, size
    <3>. QED BY <3>1, <3>2, SafeRank
  <2>3. Naturals(g, size) /\ Sigma(g, size) = RankIn(b.levels, v)
    <3>1. \A h \in 1..size : g[h] = TwoTo(h - 1) * BelowIn(safe_level(b, h), v)
      OBVIOUS
    <3>2. Len(b.levels) <= size /\ size <= n + 1 /\ size \in Nat
      BY <1>1
    <3>. HIDE DEF f, g, g0, size
    <3>. QED BY <3>1, <3>2, SafeRank
  <2>4. g[1] = first /\ first \in Nat
    <3>1. TwoTo(1 - 1) = 1
      <4>1. 1 - 1 = 0 /\ Power(0)
        BY DEF Powers
      <4>. QED BY <4>1 DEF Power
    <3>2. upper(1) = first /\ upper(1) \in Nat
      <4>1. 1 <= Len(b.levels) /\ 1 \in Nat \ {0}
        BY <1>1
      <4>2. safe_level(b, 1) = b.levels[1]
        BY <4>1, SafeItems
      <4>. QED BY <1>1, <2>1, <4>2
    <3>3. g[1] = TwoTo(1 - 1) * upper(1)
      BY <1>1
    <3>. HIDE DEF upper, g, first
    <3>. QED BY <3>1, <3>2, <3>3
  <2>5. /\ Naturals(g0, size) /\ g0[1] = 0 /\ \A i \in 1..size : i # 1 => g[i] = g0[i]
    <3>. HIDE DEF g, size
    <3>. QED BY <1>1, <2>3 DEF Naturals
  <2>6. \A h \in 1..size : ranks(new, v)[h] = f[h] + g0[h]
    <3>1. ASSUME NEW h \in 1..size PROVE ranks(new, v)[h] = f[h] + g0[h]
      <4>1. ranks(new, v)[h] = TwoTo(h - 1) * BelowIn(new[h], v)
        BY <1>4 DEF ranks
      <4>2. TwoTo(h - 1) \in Nat
        <5>1. h - 1 \in 0..n + 1
          <6>. HIDE DEF size
          <6>. QED BY <1>1
        <5>. QED BY <5>1 DEF Powers, Power
      <4>. DEFINE p == TwoTo(h - 1)
                  x == lower(h)
                  y == upper(h)
      <4>3. f[h] = p * x /\ g0[h] = (IF h = 1 THEN 0 ELSE p * y) /\ x \in Nat /\ y \in Nat /\ p \in Nat
        BY <2>1, <4>2
      <4>4. ranks(new, v)[h] = p * (x + (IF h = 1 THEN 0 ELSE y))
        BY <1>5, <4>1
      <4>. HIDE DEF p, x, y, f, g0
      <4>5. p * (x + 0) = p * x + 0 /\ p * (x + y) = p * x + p * y
        BY <4>3
      <4>. QED BY <4>3, <4>4, <4>5
    <3>. QED BY <3>1
  <2>7. RankIn(new, v) = Sigma(ranks(new, v), size)
    BY <1>4 DEF RankIn
  <2>8. RankAbove(b.levels, v) = RankIn(b.levels, v) - first
    BY DEF RankAbove
  <2>. HIDE DEF f, g, g0, size, first
  <2>9. Sigma(ranks(new, v), size) = Sigma(f, size) + Sigma(g0, size)
    BY <1>1, <2>2, <2>5, <2>6, SigmaAdds
  <2>10. Sigma(g0, size) + g[1] = Sigma(g, size) + g0[1]
    BY <1>1, <2>3, <2>5, SigmaAt
  <2>11. Sigma(g0, size) \in Nat /\ Sigma(g, size) \in Nat /\ Sigma(f, size) \in Nat
    BY <1>1, <2>2, <2>3, <2>5, SigmaType
  <2>12. RankAbove(b.levels, v) = Sigma(g0, size)
    BY <2>3, <2>4, <2>5, <2>8, <2>10, <2>11
  <2>. QED BY <2>2, <2>7, <2>9, <2>11, <2>12
<1>. QED BY <1>6, <1>7 DEF new

\* What a visit of a level keeps: the levels in order, the coins, and ranks no
\* farther from those of R than the error says.
Following(s, b, R) ==
  /\ Kept(s.levels, b) /\ Tossable(s)
  /\ \A v \in Nat : Near(RankIn(s.levels, v), R[v], s.err)

\* A visit keeps it.
LEMMA CompressLevelFollows ==
  ASSUME NEW k \in Nat, NEW n \in Nat, n # 0, Powers(n + 1), NEW i \in Nat, NEW b \in BOOLEAN,
         NEW s, Compressed(k, n, i, s), s.cur # Len(s.levels), NEW R, Following(s, b, R)
  PROVE  Following(compressLevel(s, k, b), b, R)
<1>. DEFINE L == Len(s.levels)
            h == s.cur
            isTop == h = L - 1
            grown == IF isTop THEN [s EXCEPT !.levels = Append(@, <<>>)] ELSE s
            mustSort == h = 0 /\ ~ b
            done == compact(grown, h, mustSort)
            left == [s EXCEPT !.cur = @ + 1]
            d == [done EXCEPT !.cur = @ + 1,
                              !.target = @ + IF isTop THEN level_capacity(k, L + 1, 0) ELSE 0]
<1>1. /\ DOMAIN s = {"levels", "coins", "err", "cur", "target"} /\ Stack(s.levels, n)
      /\ h \in 0..L /\ h # L
  BY DEF Compressed
<1>2. L \in 1..n /\ L \in Nat /\ Lists(s.levels)
  BY <1>1, StackIsLow DEF Stack
<1>3. h \in 0..L - 1 /\ L + 1 <= (n + 1) + 1
  <2>. HIDE DEF L, h
  <2>. QED BY <1>1, <1>2
<1>4. /\ Kept(s.levels, b) /\ Tossable(s)
      /\ \A v \in Nat : Near(RankIn(s.levels, v), R[v], s.err)
  BY DEF Following
<1>5. compressLevel(s, k, b) = left \/ compressLevel(s, k, b) = d
  BY DEF compressLevel
<1>6. Following(left, b, R)
  <2>1. left.levels = s.levels /\ left.err = s.err /\ left.coins = s.coins
    BY <1>1
  <2>. HIDE DEF left
  <2>. QED BY <1>4, <2>1 DEF Following, Tossable
<1>7. /\ DOMAIN grown = DOMAIN s /\ Compactable(grown)
      /\ grown.levels = GrownLevels(s.levels, h)
      /\ grown.err = s.err /\ grown.coins = s.coins
  BY <1>1 DEF Compactable, GrownLevels
<1>8. mustSort \in BOOLEAN /\ (h = 0 => mustSort \/ b)
  OBVIOUS
<1>. HIDE DEF grown, mustSort
<1>9. Tossable(grown) /\ \A v \in Nat : Near(RankIn(s.levels, v), R[v], grown.err)
  BY <1>4, <1>7 DEF Tossable
<1>10. /\ Kept(done.levels, b) /\ Tossable(done)
       /\ \A v \in Nat : Near(RankIn(done.levels, v), R[v], done.err)
  <2>1. h \in 0..Len(s.levels) - 1 /\ Len(s.levels) + 1 <= (n + 1) + 1 /\ n + 1 \in Nat
    BY <1>3
  <2>. HIDE DEF L, h
  <2>. QED BY <1>2, <1>4, <1>7, <1>8, <1>9, <2>1, LevelMoves
<1>11. DOMAIN done = {"levels", "coins", "err", "cur", "target"}
  <2>1. \E x, y, z, u : done = [grown EXCEPT !.levels[h + 1] = x, !.levels[h + 2] = y, !.coins = z, !.err = u]
    BY DEF compact
  <2>. HIDE DEF done
  <2>. QED BY <1>1, <1>7, <2>1
<1>. HIDE DEF done
<1>12. d.levels = done.levels /\ d.err = done.err /\ d.coins = done.coins
  BY <1>11
<1>. HIDE DEF d, left
<1>13. Following(d, b, R)
  BY <1>10, <1>12 DEF Following, Tossable
<1>. QED BY <1>5, <1>6, <1>13

\* What LeftKeeps asks of the fold: p has k, whether level zero is sorted, and the ranks.
followedUpTo(p, q, i, s) == Compressed(p[1], q, i, s) /\ Following(s, p[2], p[3])
RanksCompressed == INSTANCE FoldTheorems
  WITH step <- compressing, choose <- lastOf, Good <- followedUpTo

\* general_compress keeps the ranks.
LEMMA CompressFollows ==
  ASSUME NEW k \in Nat, NEW n \in Nat, n # 0, Powers(n + 1), NEW b \in BOOLEAN,
         NEW w, Stack(w.levels, n), NEW R, Following(w, b, R)
  PROVE  Following(general_compress(w, k, b, ub_on_num_levels(n)), b, R)
<1>. DEFINE ub == ub_on_num_levels(n)
            q == [i \in 1..ub |-> i]
            base == [levels |-> w.levels, coins |-> w.coins, err |-> w.err, cur |-> 0,
                     target |-> compute_total_capacity(k, Len(w.levels))]
            p == <<k, b, R>>
            d == general_compress(w, k, b, ub)
<1>1. ub \in Nat
  BY StackIsLow
<1>2. p[1] = k /\ p[2] = b /\ p[3] = R /\ DOMAIN q = 1..ub
  OBVIOUS
<1>3. d = FoldLeft(LAMBDA s, i : IF s.cur = Len(s.levels) THEN s
                                 ELSE compressLevel(s, k, b), base, q)
  BY DEF general_compress
<1>4. Compressed(k, n, 0, base) /\ Following(base, b, R)
  <2>1. /\ DOMAIN base = {"levels", "coins", "err", "cur", "target"}
        /\ base.levels = w.levels /\ base.cur = 0 /\ base.coins = w.coins /\ base.err = w.err
        /\ base.target = compute_total_capacity(k, Len(w.levels))
    OBVIOUS
  <2>. HIDE DEF base
  <2>2. Len(w.levels) \in Nat
    BY DEF Stack
  <2>3. Sigma(lens(w.levels), 0) <= Sigma(caps(k, Len(w.levels)), 0)
    BY SigmaUnfolds
  <2>4. Compressed(k, n, 0, base)
    BY <2>1, <2>2, <2>3 DEF Compressed
  <2>5. Following(base, b, R)
    BY <2>1 DEF Following, Tossable
  <2>. QED BY <2>4, <2>5
<1>. HIDE DEF p, q, base, d
<1>5. d = RanksCompressed!Left(p, n, base, ub)
  <2>. HIDE DEF ub
  <2>. QED BY <1>2, <1>3 DEF FoldLeft, MapThenFoldSet, Max, RanksCompressed!Left, RanksCompressed!Fold,
              RanksCompressed!MapThenFoldSet, compressing, lastOf
<1>. HIDE DEF ub
<1>6. RanksCompressed!ChoosesLast
  BY DEF RanksCompressed!ChoosesLast, lastOf
<1>7. RanksCompressed!Preserves(p, n, ub)
  <2>1. ASSUME NEW i \in 1..ub, NEW s, followedUpTo(p, n, i - 1, s)
        PROVE  followedUpTo(p, n, i, compressing(p, n, i, s))
    <3>1. /\ Compressed(k, n, i - 1, s) /\ Following(s, b, R)
          /\ i - 1 \in Nat /\ (i - 1) + 1 = i
      BY <1>1, <1>2, <2>1 DEF followedUpTo
    <3>2. Compressed(k, n, (i - 1) + 1, IF s.cur = Len(s.levels) THEN s ELSE compressLevel(s, k, b))
      BY <3>1, CompressLevelKeeps
    <3>3. Following(IF s.cur = Len(s.levels) THEN s ELSE compressLevel(s, k, b), b, R)
      BY <3>1, CompressLevelFollows
    <3>. QED BY <1>2, <3>1, <3>2, <3>3 DEF followedUpTo, compressing
  <2>. QED BY <2>1 DEF RanksCompressed!Preserves
<1>8. followedUpTo(p, n, 0, base)
  BY <1>2, <1>4 DEF followedUpTo
<1>9. followedUpTo(p, n, ub, d)
  BY <1>1, <1>5, <1>6, <1>7, <1>8, RanksCompressed!LeftKeeps
<1>. QED BY <1>2, <1>9 DEF followedUpTo, d, ub

\* Ranks with those of the levels above level zero of another sketch added.
withAbove(R, levels) == [v \in Nat |-> R[v] + RankAbove(levels, v)]

\* The higher levels are joined.
LEMMA MergeHigherLevelsRanked ==
  ASSUME NEW most \in Nat, Powers(most + 1), NEW s, Sound(s, most),
         NEW other, Sound(other, most), NEW n \in Nat, n # 0, n <= most,
         s.n <= n, other.n <= n, s.n + other.n = n + Len(other.levels[1]),
         NEW R, Ranked(s, R), NEW flag, Kept(other.levels, flag)
  PROVE  LET d == merge_higher_levels(s, other, n)
         IN DOMAIN d = SketchFields /\ Ranked(d, withAbove(R, other.levels))
<1>. DEFINE levels == populate_work_arrays(s, other)
            b == s.isLevelZeroSorted
            work == [s EXCEPT !.levels = levels]
            result == general_compress(work, s.k, b, ub_on_num_levels(n))
            d == merge_higher_levels(s, other, n)
            Q == withAbove(R, other.levels)
<1>1. d = [s EXCEPT !.levels = result.levels, !.itemsSize = result.target,
                    !.coins = result.coins, !.err = result.err]
  BY DEF merge_higher_levels
<1>2. DOMAIN s = SketchFields /\ s.k \in Nat
      /\ Stack(s.levels, s.n) /\ Stack(other.levels, other.n)
      /\ s.n \in Nat /\ other.n \in Nat
  BY SoundIs DEF Sound
<1>3. Powers(n + 1)
  BY DEF Powers
<1>4. Stack(levels, n)
  BY <1>2, <1>3, PopulateIs
<1>5. /\ b \in BOOLEAN /\ Kept(s.levels, b) /\ Tossable(s)
      /\ \A v \in Nat : Near(RankIn(s.levels, v), R[v], s.err)
  BY DEF Ranked
<1>6. /\ Kept(levels, b)
      /\ \A v \in Nat : /\ RankIn(levels, v) = RankIn(s.levels, v) + RankAbove(other.levels, v)
                        /\ RankAbove(other.levels, v) \in Nat
  <2>1. /\ Lists(s.levels) /\ Lists(other.levels)
        /\ Len(s.levels) \in 1..s.n + 1 /\ Len(other.levels) \in 1..other.n + 1
    BY <1>2 DEF Stack
  <2>2. \A m \in Nat : \A x \in 1..m + 1 : m <= n => x \in 1..n + 1
    OBVIOUS
  <2>3. Len(s.levels) \in 1..n + 1 /\ Len(other.levels) \in 1..n + 1
    BY <1>2, <2>1, <2>2
  <2>. QED BY <1>3, <1>5, <2>1, <2>3, PopulateRanks
<1>7. work.levels = levels /\ work.err = s.err /\ work.coins = s.coins
  BY <1>2 DEF SketchFields
<1>. HIDE DEF levels, work
<1>8. Following(work, b, Q)
  <2>1. ASSUME NEW v \in Nat PROVE Near(RankIn(work.levels, v), Q[v], work.err)
    <3>1. Q[v] = R[v] + RankAbove(other.levels, v)
      BY DEF withAbove
    <3>2. \A x, y, e, o : Near(x, y, e) /\ o \in Nat => Near(x + o, y + o, e)
      BY DEF Near
    <3>. HIDE DEF Q
    <3>. QED BY <1>5, <1>6, <1>7, <3>1, <3>2
  <2>. HIDE DEF Q, b
  <2>. QED BY <1>5, <1>6, <1>7, <2>1 DEF Following, Tossable
<1>. HIDE DEF Q
<1>9. Following(result, b, Q)
  <2>1. Stack(work.levels, n)
    BY <1>4, <1>7
  <2>. HIDE DEF b
  <2>. QED BY <1>2, <1>3, <1>5, <1>8, <2>1, CompressFollows
<1>. HIDE DEF result, d
<1>10. /\ DOMAIN d = SketchFields /\ d.levels = result.levels /\ d.isLevelZeroSorted = b
       /\ d.err = result.err /\ d.coins = result.coins
  BY <1>1, <1>2 DEF SketchFields
<1>. HIDE DEF b
<1>11. Ranked(d, Q)
  BY <1>5, <1>9, <1>10 DEF Ranked, Following, Tossable
<1>. QED BY <1>10, <1>11 DEF d, Q

\* Of one level, nothing is above.
LEMMA OneLevelRanks ==
  ASSUME NEW levels, Lists(levels), Len(levels) = 1, NEW b, Kept(levels, b),
         NEW n \in Nat, Powers(n), NEW v
  PROVE  RankAbove(levels, v) = 0
<1>1. ranks(levels, v)[1] = TwoTo(1 - 1) * BelowIn(levels[1], v) /\ BelowIn(levels[1], v) \in Nat
  <2>1. 1 \in 1..Len(levels) /\ Len(levels) <= n + 1 /\ \A h \in 1..Len(levels) : Items(levels[h])
    BY DEF Kept
  <2>. QED BY <2>1, RanksType
<1>2. TwoTo(1 - 1) = 1
  <2>1. 1 - 1 = 0 /\ Power(0)
    BY DEF Powers
  <2>. QED BY <2>1 DEF Power
<1>3. Sigma(ranks(levels, v), 1) = ranks(levels, v)[1]
  <2>1. Sigma(ranks(levels, v), 0 + 1) = Sigma(ranks(levels, v), 0) + ranks(levels, v)[0 + 1]
        /\ Sigma(ranks(levels, v), 0) = 0 /\ 0 + 1 = 1
    BY SigmaUnfolds
  <2>. QED BY <1>1, <1>2, <2>1
<1>. QED BY <1>1, <1>2, <1>3 DEF RankAbove, RankIn

\* The ranks of both streams.
both(R, Q) == [v \in Nat |-> R[v] + Q[v]]

\* A merge.
LEMMA MergedIsRanked ==
  ASSUME NEW most \in Nat, Powers(most + 1), NEW s, Sound(s, most),
         NEW other, Sound(other, most), ~ is_empty(other), s.n + other.n <= most,
         NEW R, Ranked(s, R), NEW Q, Ranked(other, Q)
  PROVE  Ranked(merged(s, other), both(R, Q))
<1>. DEFINE n == s.n + other.n
            items == other.levels[1]
            m == Len(items)
            fed == FoldLeft(updated, s, items)
            joined == IF is_estimation_mode(other) THEN merge_higher_levels(fed, other, n)
                                                   ELSE fed
            total == [joined EXCEPT !.n = n]
            minK == IF is_estimation_mode(other) /\ other.minK < total.minK THEN other.minK
                    ELSE total.minK
            min == IF is_empty(total) \/ less(other.min, total.min) THEN other.min ELSE total.min
            max == IF is_empty(total) \/ less(total.max, other.max) THEN other.max ELSE total.max
            d == merged(s, other)
            W == withItems(R, items, m)
            X == withAbove(W, other.levels)
<1>1. d = [total EXCEPT !.minK = minK, !.min = min, !.max = max, !.err = @ + other.err]
  BY DEF merged
<1>2. /\ s.n \in Nat /\ other.n \in Nat /\ other.n # 0 /\ n \in Nat /\ n # 0 /\ n <= most
      /\ Stack(other.levels, other.n) /\ Powers(other.n + 1) /\ Lists(other.levels)
      /\ 1 \in 1..Len(other.levels)
  <2>1. s.n \in Nat /\ other.n \in Nat /\ Powers(other.n + 1) /\ Lists(other.levels)
        /\ Len(other.levels) \in 1..other.n + 1
    BY SoundIs
  <2>2. other.n # 0 /\ Stack(other.levels, other.n)
    BY DEF is_empty, Sound
  <2>3. n \in Nat /\ n # 0 /\ n <= most
    BY <2>1, <2>2
  <2>4. \A x \in Nat : \A y \in 1..x + 1 : 1 \in 1..y
    OBVIOUS
  <2>. QED BY <2>1, <2>2, <2>3, <2>4
<1>3. /\ Kept(other.levels, other.isLevelZeroSorted) /\ Tossable(other)
      /\ \A v \in Nat : Near(RankIn(other.levels, v), Q[v], other.err)
  BY DEF Ranked
<1>4. List(items) /\ m \in Nat /\ m <= other.n /\ Items(items)
  BY <1>2, <1>3, LevelHoldsLess DEF Kept
<1>5. Sound(fed, most) /\ fed.n = s.n + m /\ Ranked(fed, W)
  <2>1. s.n + m <= most
    <3>. HIDE DEF items, m
    <3>. QED BY <1>2, <1>4
  <2>. HIDE DEF W
  <2>. QED BY <1>4, <2>1, FedIs, FedIsRanked DEF W
<1>. HIDE DEF fed, W
<1>6. DOMAIN joined = SketchFields /\ Ranked(joined, X)
  <2>1. CASE is_estimation_mode(other)
    <3>1. fed.n <= n /\ other.n <= n /\ fed.n + other.n = n + Len(items)
      <4>. HIDE DEF m
      <4>. QED BY <1>2, <1>4, <1>5 DEF m
    <3>2. LET j == merge_higher_levels(fed, other, n)
          IN DOMAIN j = SketchFields /\ Ranked(j, X)
      <4>. HIDE DEF n
      <4>. QED BY <1>2, <1>3, <1>5, <3>1, MergeHigherLevelsRanked
    <3>. QED BY <2>1, <3>2
  <2>2. CASE ~ is_estimation_mode(other)
    <3>1. Len(other.levels) = 1
      <4>1. Len(other.levels) \in 1..other.n + 1
        BY <1>2 DEF Stack
      <4>2. ~ (Len(other.levels) > 1)
        BY <2>2 DEF is_estimation_mode
      <4>3. \A y \in Nat : \A x \in 1..y + 1 : ~ (x > 1) => x = 1
        OBVIOUS
      <4>. QED BY <1>2, <4>1, <4>2, <4>3
    <3>2. \A v \in Nat : RankAbove(other.levels, v) = 0
      BY <1>2, <1>3, <3>1, OneLevelRanks
    <3>3. \A v \in Nat : W[v] \in Nat
      BY <1>5 DEF Ranked, Near
    <3>4. \A v \in Nat : X[v] = W[v]
      BY <3>2, <3>3 DEF withAbove
    <3>. HIDE DEF X
    <3>5. Ranked(fed, X)
      BY <1>5, <3>4, RankedSame
    <3>6. DOMAIN fed = SketchFields
      BY <1>5 DEF Sound
    <3>. QED BY <2>2, <3>5, <3>6
  <2>. QED BY <2>1, <2>2
<1>. HIDE DEF joined
<1>7. /\ DOMAIN total = SketchFields /\ total.levels = joined.levels
      /\ total.isLevelZeroSorted = joined.isLevelZeroSorted
      /\ total.err = joined.err /\ total.coins = joined.coins
  BY <1>6 DEF SketchFields
<1>. HIDE DEF total, minK, min, max, d
<1>8. /\ d.levels = joined.levels /\ d.isLevelZeroSorted = joined.isLevelZeroSorted
      /\ d.err = joined.err + other.err /\ d.coins = joined.coins
  <2>. HIDE DEF n
  <2>. QED BY <1>1, <1>7 DEF SketchFields
<1>9. \A v \in Nat : X[v] = R[v] + RankIn(other.levels, v)
  <2>1. SUFFICES ASSUME NEW v \in Nat PROVE X[v] = R[v] + RankIn(other.levels, v)
    OBVIOUS
  <2>2. X[v] = (R[v] + BelowIn(items, v)) + RankAbove(other.levels, v)
    BY DEF withAbove, W, withItems, BelowIn
  <2>3. RankAbove(other.levels, v) = RankIn(other.levels, v) - BelowIn(items, v)
    BY DEF RankAbove
  <2>4. R[v] \in Nat /\ RankIn(other.levels, v) \in Nat /\ BelowIn(items, v) \in Nat
    BY <1>3, <1>4, BelowUnfolds DEF Ranked, Near, BelowIn
  <2>. HIDE DEF X, items
  <2>. QED BY <2>2, <2>3, <2>4
<1>. HIDE DEF X
<1>10. ASSUME NEW v \in Nat PROVE Near(RankIn(d.levels, v), both(R, Q)[v], d.err)
  <2>1. Near(RankIn(joined.levels, v), X[v], joined.err)
    BY <1>6 DEF Ranked
  <2>2. Near(RankIn(other.levels, v), Q[v], other.err) /\ R[v] \in Nat
    BY <1>3 DEF Ranked, Near
  <2>3. both(R, Q)[v] = R[v] + Q[v]
    BY DEF both
  <2>4. \A x, r, o, q, e, f : r \in Nat /\ Near(x, r + o, e) /\ Near(o, q, f) => Near(x, r + q, e + f)
    BY DEF Near
  <2>. QED BY <1>8, <1>9, <2>1, <2>2, <2>3, <2>4
<1>11. Tossable(d)
  BY <1>3, <1>6, <1>8 DEF Ranked, Tossable
<1>. QED BY <1>6, <1>8, <1>10, <1>11 DEF Ranked, d

\* A record with the fields of a sketch.
IsSketch(s) == s = [x \in SketchFields |-> s[x]]

(* What is true of the fields that the sketch of fewer than two items is read back
   without: it is a new one, or all of it follows from the one item. *)
Simple(s) ==
  /\ IsSketch(s) /\ s.coins = <<>>
  /\ s.n = 0 => s = newSketch(s.k)
  /\ s.n = 1 => s.minK = s.k /\ s.min = s.levels[1][1] /\ s.max = s.levels[1][1]

\* The one level of a sketch of one item.
LEMMA OneItem ==
  ASSUME NEW most \in Nat, Powers(most + 1), NEW s, Sound(s, most), s.n = 1
  PROVE  /\ Len(s.levels) = 1 /\ List(s.levels[1]) /\ Len(s.levels[1]) = 1
         /\ s.levels = <<s.levels[1]>> /\ s.levels[1] = <<s.levels[1][1]>>
         /\ s.itemsSize = compute_total_capacity(s.k, 1)
<1>1. /\ Stack(s.levels, 1) /\ Lists(s.levels)
      /\ s.itemsSize = compute_total_capacity(s.k, Len(s.levels))
  BY DEF Sound, Stack
<1>2. Len(s.levels) = 1
  <2>1. Powers(1 + 1)
    BY SoundIs
  <2>2. 1 \in Nat /\ 1 # 0
    OBVIOUS
  <2>3. Len(s.levels) \in 1..1
    BY <1>1, <2>1, <2>2, StackIsLow
  <2>4. \A x \in 1..1 : x = 1
    OBVIOUS
  <2>. QED BY <2>3, <2>4
<1>3. List(s.levels) /\ List(s.levels[1])
  BY <1>1, <1>2 DEF Lists
<1>4. Len(s.levels[1]) = 1
  <2>1. Sigma(weights(s.levels), 1) = 1
    BY <1>1, <1>2 DEF Stack
  <2>2. Sigma(weights(s.levels), 0 + 1) = Sigma(weights(s.levels), 0) + weights(s.levels)[0 + 1]
        /\ Sigma(weights(s.levels), 0) = 0
    BY SigmaUnfolds
  <2>3. weights(s.levels)[1] = TwoTo(0) * Len(s.levels[1])
    <3>1. 1 \in 1..Len(s.levels) /\ 1 - 1 = 0
      BY <1>2
    <3>. QED BY <3>1 DEF weights
  <2>4. TwoTo(0) = 1 /\ Len(s.levels[1]) \in Nat
    <3>1. Power(0)
      BY DEF Powers
    <3>. QED BY <1>3, <3>1, ListIs DEF Power
  <2>5. weights(s.levels)[1] = 1
    <3>1. weights(s.levels)[0 + 1] = weights(s.levels)[1] /\ Sigma(weights(s.levels), 0 + 1) = Sigma(weights(s.levels), 1)
      OBVIOUS
    <3>2. weights(s.levels)[1] \in Nat
      BY <2>3, <2>4
    <3>. QED BY <2>1, <2>2, <3>1, <3>2
  <2>6. \A x \in Nat : 1 * x = x
    OBVIOUS
  <2>7. weights(s.levels)[1] = 1 * Len(s.levels[1])
    BY <2>3, <2>4
  <2>. QED BY <2>4, <2>5, <2>6, <2>7
<1>5. \A t : List(t) /\ Len(t) = 1 => t = <<t[1]>>
  <2>1. ASSUME NEW t, List(t), Len(t) = 1 PROVE t = <<t[1]>>
    BY <2>1 DEF List
  <2>. QED BY <2>1
<1>. QED BY <1>1, <1>2, <1>3, <1>4, <1>5

\* A new sketch has the fields of one.
LEMMA NewFields ==
  ASSUME NEW k
  PROVE  /\ IsSketch(newSketch(k)) /\ DOMAIN newSketch(k) = SketchFields
         /\ newSketch(k).k = k /\ newSketch(k).minK = k /\ newSketch(k).n = 0
         /\ newSketch(k).levels = <<<<>>>> /\ newSketch(k).itemsSize = k
         /\ newSketch(k).isLevelZeroSorted = FALSE /\ newSketch(k).err = 0
         /\ newSketch(k).coins = <<>>
<1>1. DOMAIN newSketch(k) = SketchFields
  BY DEF newSketch, SketchFields
<1>2. newSketch(k) = [x \in DOMAIN newSketch(k) |-> newSketch(k)[x]]
  BY DEF newSketch
<1>3. IsSketch(newSketch(k))
  BY <1>1, <1>2 DEF IsSketch
<1>. QED BY <1>1, <1>3 DEF newSketch

\* Written and read back it is the same sketch.
LEMMA ReloadedIsSame ==
  ASSUME NEW most \in Nat, Powers(most + 1), NEW s, Sound(s, most), Simple(s)
  PROVE  reloaded(s) = s
<1>. DEFINE b == serialize(s)
            read == deserialize(b)
            new == newSketch(s.k)
<1>1. reloaded(s) = [read EXCEPT !.err = s.err]
  BY DEF reloaded
<1>2. IsSketch(s) /\ s.coins = <<>>
  BY DEF Simple
<1>3. CASE s.n = 0
  <2>1. s = new
    BY <1>3 DEF Simple
  <2>2. b.empty = TRUE /\ b.k = s.k
    BY <1>3 DEF serialize, is_empty
  <2>3. read = new
    BY <2>2 DEF deserialize
  <2>4. IsSketch(new) /\ new.err = 0
    BY NewFields
  <2>. HIDE DEF new, read, b
  <2>5. reloaded(s) = [new EXCEPT !.err = new.err]
    BY <1>1, <2>1, <2>3
  <2>6. DOMAIN new = SketchFields /\ new = [x \in SketchFields |-> new[x]]
    BY <2>4 DEF IsSketch
  <2>7. [new EXCEPT !.err = new.err] = new
    BY <2>6 DEF SketchFields
  <2>. QED BY <2>1, <2>5, <2>7
<1>4. CASE s.n = 1
  <2>1. b.empty = FALSE /\ b.single = TRUE /\ b.k = s.k /\ b.items = FlattenSeq(s.levels)
        /\ b.sorted = s.isLevelZeroSorted
    BY <1>4 DEF serialize, is_empty
  <2>2. read = deserializeSingle(b)
    BY <2>1 DEF deserialize
  <2>3. /\ Len(s.levels) = 1 /\ s.levels = <<s.levels[1]>>
        /\ s.itemsSize = compute_total_capacity(s.k, 1)
    BY <1>4, OneItem
  <2>4. b.items = s.levels[1]
    BY <2>1, <2>3, FlattenOne
  <2>5. s.minK = s.k /\ s.min = s.levels[1][1] /\ s.max = s.levels[1][1]
    BY <1>4 DEF Simple
  <2>. HIDE DEF b
  <2>6. read = [new EXCEPT !.n = s.n, !.levels = s.levels, !.itemsSize = s.itemsSize,
                           !.min = s.min, !.max = s.max, !.isLevelZeroSorted = s.isLevelZeroSorted]
    <3>1. read = [new EXCEPT !.n = 1, !.levels = <<b.items>>, !.itemsSize = compute_total_capacity(b.k, 1),
                             !.min = b.items[1], !.max = b.items[1], !.isLevelZeroSorted = b.sorted]
      BY <2>1, <2>2 DEF deserializeSingle
    <3>. HIDE DEF read, new
    <3>. QED BY <1>4, <2>1, <2>3, <2>4, <2>5, <3>1
  <2>7. new.k = s.k /\ new.minK = s.minK /\ new.coins = s.coins /\ DOMAIN new = SketchFields
    BY <1>2, <2>5, NewFields
  <2>. HIDE DEF new, read
  <2>8. s = [x \in SketchFields |-> s[x]]
    BY <1>2 DEF IsSketch
  <2>9. DOMAIN read = SketchFields /\ \A x \in SketchFields \ {"err"} : read[x] = s[x]
    BY <2>6, <2>7 DEF SketchFields
  <2>10. [read EXCEPT !.err = s.err] = [x \in SketchFields |-> s[x]]
    BY <2>9 DEF SketchFields
  <2>. QED BY <1>1, <2>8, <2>10
<1>5. CASE s.n # 0 /\ s.n # 1
  <2>1. /\ b.empty = FALSE /\ b.single = FALSE /\ b.k = s.k /\ b.n = s.n
        /\ b.items = FlattenSeq(s.levels) /\ b.sorted = s.isLevelZeroSorted
        /\ b.minK = s.minK /\ b.min = s.min /\ b.max = s.max
        /\ b.starts = [h \in 1..Len(s.levels) |->
                         freeCells(s) + retained(SubSeq(s.levels, 1, h - 1))]
    BY <1>5 DEF serialize, is_empty
  <2>. HIDE DEF b
  <2>2. read = deserializeFull(b)
    BY <2>1 DEF deserialize
  <2>3. deserializeFull(b) = [new EXCEPT
              !.n = s.n, !.minK = b.minK, !.min = b.min, !.max = b.max,
              !.itemsSize = s.itemsSize, !.isLevelZeroSorted = b.sorted, !.levels = s.levels]
    BY <2>1, FullIs
  <2>4. new.k = s.k /\ new.coins = s.coins /\ DOMAIN new = SketchFields
    BY <1>2, NewFields
  <2>. HIDE DEF new, read
  <2>5. read = [new EXCEPT
              !.n = s.n, !.minK = s.minK, !.min = s.min, !.max = s.max,
              !.itemsSize = s.itemsSize, !.isLevelZeroSorted = s.isLevelZeroSorted, !.levels = s.levels]
    BY <2>1, <2>2, <2>3
  <2>8. s = [x \in SketchFields |-> s[x]]
    BY <1>2 DEF IsSketch
  <2>9. DOMAIN read = SketchFields /\ \A x \in SketchFields \ {"err"} : read[x] = s[x]
    BY <2>4, <2>5 DEF SketchFields
  <2>10. [read EXCEPT !.err = s.err] = [x \in SketchFields |-> s[x]]
    BY <2>9 DEF SketchFields
  <2>. QED BY <1>1, <2>8, <2>10
<1>. QED BY <1>3, <1>4, <1>5

\* More levels have more room.
LEMMA CapacityRises ==
  ASSUME NEW k \in Nat, NEW n \in Nat, Powers(n + 1), NEW a \in 1..n + 1, NEW c \in a..n + 1
  PROVE  /\ compute_total_capacity(k, a) \in Nat /\ compute_total_capacity(k, c) \in Nat
         /\ compute_total_capacity(k, a) <= compute_total_capacity(k, c)
<1>. DEFINE cap(m) == compute_total_capacity(k, m)
            T == {m \in Nat : m <= n + 1 => cap(m) \in Nat /\ (a <= m => cap(a) <= cap(m))}
<1>1. ASSUME NEW m \in Nat, m <= n
      PROVE  /\ cap(m) \in Nat /\ cap(m + 1) \in Nat /\ cap(m) <= cap(m + 1)
  <2>1. Powers(m + 1)
    BY <1>1 DEF Powers
  <2>2. cap(m) \in Nat /\ cap(m + 1) = level_capacity(k, m + 1, 0) + cap(m)
    BY <1>1, <2>1, CapacityGrows
  <2>3. level_capacity(k, m + 1, 0) \in Nat
    <3>1. m + 1 \in Nat /\ 0 \in 0..(m + 1) - 1
      BY <1>1
    <3>. QED BY <2>1, <3>1, CapacityType
  <2>. HIDE DEF cap
  <2>. QED BY <2>2, <2>3
<1>. HIDE DEF cap
<1>2. 0 \in T
  <2>1. cap(0) \in Nat
    BY <1>1
  <2>2. ~ (a <= 0)
    OBVIOUS
  <2>. QED BY <2>1, <2>2
<1>3. ASSUME NEW m \in Nat, m \in T PROVE m + 1 \in T
  <2>1. SUFFICES ASSUME m + 1 <= n + 1
                 PROVE  cap(m + 1) \in Nat /\ (a <= m + 1 => cap(a) <= cap(m + 1))
    OBVIOUS
  <2>2. cap(m) \in Nat /\ cap(m + 1) \in Nat /\ cap(m) <= cap(m + 1)
    BY <1>1, <2>1
  <2>3. a <= m => cap(a) <= cap(m)
    BY <1>3, <2>1
  <2>4. cap(a) \in Nat
    <3>1. a - 1 \in Nat /\ a - 1 <= n /\ (a - 1) + 1 = a
      OBVIOUS
    <3>2. cap((a - 1) + 1) \in Nat
      BY <1>1, <3>1
    <3>. QED BY <3>1, <3>2
  <2>5. CASE a = m + 1
    BY <2>2, <2>5
  <2>6. CASE a # m + 1
    BY <2>2, <2>3, <2>4, <2>6
  <2>. QED BY <2>5, <2>6
<1>4. \A m \in Nat : m \in T
  <2>. HIDE DEF T
  <2>. QED BY <1>2, <1>3, Sums!OverNaturals
<1>5. cap(a) \in Nat /\ cap(c) \in Nat /\ cap(a) <= cap(c)
  <2>1. c \in Nat /\ a \in Nat /\ c <= n + 1 /\ a <= n + 1 /\ a <= c
    OBVIOUS
  <2>. QED BY <1>4, <2>1
<1>. QED BY <1>5 DEF cap

\* The bound on the levels: one up to one item, and more than one beyond.
LEMMA UpperLevels ==
  ASSUME NEW n \in Nat, Powers(n + 1)
  PROVE  /\ ub_on_num_levels(n) \in 1..n + 1
         /\ n <= 1 => ub_on_num_levels(n) = 1
         /\ n >= 2 => ub_on_num_levels(n) >= 2
<1>. DEFINE E == {e \in 1..n : TwoTo(e) <= n}
<1>1. ub_on_num_levels(n) = 1 + Cardinality(E)
  BY DEF ub_on_num_levels
<1>2. IsFiniteSet(1..n) /\ Cardinality(1..n) = n
  <2>1. 1 \in Int /\ n \in Int /\ (IF 1 > n THEN 0 ELSE n - 1 + 1) = n
    OBVIOUS
  <2>. QED BY <2>1, FS_Interval
<1>3. IsFiniteSet(E) /\ Cardinality(E) \in Nat /\ Cardinality(E) <= n
  <2>1. E \subseteq 1..n
    OBVIOUS
  <2>. HIDE DEF E
  <2>. QED BY <1>2, <2>1, FS_Subset, FS_CardinalityType
<1>4. TwoTo(1) = 2
  <2>1. Power(0)
    BY DEF Powers
  <2>2. TwoTo(0 + 1) = 2 * TwoTo(0) /\ TwoTo(0) = 1
    BY <2>1 DEF Power
  <2>. QED BY <2>2
<1>5. n <= 1 => Cardinality(E) = 0
  <2>1. ASSUME n <= 1 PROVE E = {}
    <3>1. \A e \in 1..n : e = 1 /\ n = 1
      BY <2>1
    <3>. QED BY <1>4, <3>1
  <2>. HIDE DEF E
  <2>. QED BY <2>1, FS_EmptySet
<1>6. n >= 2 => Cardinality(E) # 0
  <2>1. ASSUME n >= 2 PROVE 1 \in E
    BY <1>4, <2>1
  <2>. HIDE DEF E
  <2>. QED BY <1>3, <2>1, FS_EmptySet
<1>. HIDE DEF E
<1>. QED BY <1>1, <1>3, <1>5, <1>6

\* The bytes that are written are those that were told, and k and n allow them.
LEMMA SizesAgree ==
  ASSUME NEW most \in Nat, Powers(most + 1), NEW s, Sound(s, most), Simple(s)
  PROVE  /\ get_serialized_size_bytes(s) = bytesOf(serialize(s))
         /\ get_serialized_size_bytes(s) <= get_max_serialized_size_bytes(s.k, s.n)
<1>. DEFINE b == serialize(s)
            L == Len(s.levels)
            r == Held(s.levels)
            n == s.n
            ub == ub_on_num_levels(n)
            cap == compute_total_capacity(s.k, ub)
            least == IF n < cap THEN n ELSE cap
            B == ItemBytes
<1>1. /\ n \in Nat /\ Powers(n + 1) /\ retained(s.levels) = r /\ r \in Nat /\ r <= n
      /\ L \in 1..n + 1 /\ Lists(s.levels) /\ Stack(s.levels, n)
      /\ s.itemsSize = compute_total_capacity(s.k, L) /\ r <= s.itemsSize /\ s.k \in Nat
  <2>1. Stack(s.levels, n) /\ s.itemsSize = compute_total_capacity(s.k, L) /\ r <= s.itemsSize /\ s.k \in Nat
    BY DEF Sound
  <2>2. /\ n \in Nat /\ Powers(n + 1) /\ retained(s.levels) = r /\ r \in Nat /\ r <= n
        /\ L \in 1..n + 1 /\ Lists(s.levels)
    BY SoundIs
  <2>. QED BY <2>1, <2>2
<1>2. B \in Nat
  BY ItemBytesAssumption
<1>3. /\ ub \in 1..n + 1 /\ (n <= 1 => ub = 1) /\ (n >= 2 => ub >= 2)
      /\ n # 0 => L <= ub
  <2>1. n # 0 => L <= ub
    BY <1>1, StackIsLow
  <2>. QED BY <1>1, <2>1, UpperLevels
<1>4. cap \in Nat
  <2>1. ub \in 1..n + 1 /\ ub \in ub..n + 1
    <3>. HIDE DEF ub, n
    <3>. QED BY <1>1, <1>3
  <2>. QED BY <1>1, <2>1, CapacityRises
<1>5. n # 0 => r <= cap
  <2>1. ASSUME n # 0 PROVE r <= cap
    <3>1. L \in 1..n + 1 /\ ub \in L..n + 1
      <4>. HIDE DEF ub, n, L
      <4>. QED BY <1>1, <1>3, <2>1
    <3>2. compute_total_capacity(s.k, L) \in Nat /\ compute_total_capacity(s.k, L) <= cap
      BY <1>1, <3>1, CapacityRises
    <3>. HIDE DEF r, cap, L
    <3>. QED BY <1>1, <1>4, <3>2
  <2>. QED BY <2>1
<1>6. get_max_serialized_size_bytes(s.k, n) = serializedSize(ub, least)
  BY DEF get_max_serialized_size_bytes
<1>7. FlattenSeq(s.levels) = b.items \/ n = 0
  BY DEF serialize, is_empty
<1>8. Len(FlattenSeq(s.levels)) = r
  <2>1. L # 0
    BY <1>1
  <2>. QED BY <1>1, <2>1, FlattenIs DEF Flat, Held
<1>9. CASE n = 0
  <2>1. b.empty = TRUE
    BY <1>9 DEF serialize, is_empty
  <2>2. get_serialized_size_bytes(s) = 8
    BY <1>9 DEF get_serialized_size_bytes, is_empty
  <2>. HIDE DEF b
  <2>3. bytesOf(b) = 8
    BY <2>1 DEF bytesOf
  <2>4. least = 0 /\ ub = 1
    <3>. HIDE DEF cap, n, ub
    <3>. QED BY <1>3, <1>4, <1>9
  <2>5. serializedSize(1, 0) = 20 + 4 * 1 + (0 + 2) * B
    BY DEF serializedSize
  <2>6. 8 <= serializedSize(1, 0)
    BY <1>2, <2>5
  <2>. HIDE DEF least, ub, n
  <2>. QED BY <1>6, <2>2, <2>3, <2>4, <2>6 DEF b, n
<1>10. CASE n = 1
  <2>1. b.empty = FALSE /\ b.single = TRUE
    BY <1>10 DEF serialize, is_empty
  <2>2. L = 1 /\ r = 1
    <3>1. L = 1 /\ Len(s.levels[1]) = 1 /\ Lists(s.levels)
      BY <1>1, <1>10, OneItem
    <3>2. Sigma(lens(s.levels), 0 + 1) = Sigma(lens(s.levels), 0) + lens(s.levels)[0 + 1]
          /\ Sigma(lens(s.levels), 0) = 0
      BY SigmaUnfolds
    <3>3. lens(s.levels)[1] = 1
      BY <3>1 DEF lens
    <3>4. Sigma(lens(s.levels), 1) = 1
      BY <3>2, <3>3
    <3>. QED BY <3>1, <3>4 DEF Held
  <2>3. serializedSize(1, 1) = 8 + B
    BY DEF serializedSize
  <2>4. get_serialized_size_bytes(s) = 8 + B
    <3>1. get_serialized_size_bytes(s) = serializedSize(L, retained(s.levels))
      BY <1>10 DEF get_serialized_size_bytes, is_empty
    <3>. HIDE DEF L, r
    <3>. QED BY <1>1, <2>2, <2>3, <3>1
  <2>5. least = 1 /\ ub = 1
    <3>. HIDE DEF cap, n, ub, r
    <3>. QED BY <1>3, <1>4, <1>5, <1>10, <2>2
  <2>6. Len(b.items) = 1
    <3>1. b.items = FlattenSeq(s.levels)
      BY <1>7, <1>10
    <3>. HIDE DEF b, r
    <3>. QED BY <1>8, <2>2, <3>1
  <2>. HIDE DEF b
  <2>7. bytesOf(b) = 8 + B
    <3>1. bytesOf(b) = 8 + B * 1 + 0
      BY <2>1, <2>6 DEF bytesOf
    <3>. QED BY <1>2, <3>1
  <2>. HIDE DEF least, ub, n
  <2>8. get_max_serialized_size_bytes(s.k, n) = 8 + B
    BY <1>6, <2>3, <2>5
  <2>. QED BY <1>2, <2>4, <2>7, <2>8 DEF b, n
<1>11. CASE n # 0 /\ n # 1
  <2>1. b.empty = FALSE /\ b.single = FALSE /\ b.items = FlattenSeq(s.levels)
        /\ b.starts = [h \in 1..L |-> freeCells(s) + retained(SubSeq(s.levels, 1, h - 1))]
    BY <1>11 DEF serialize, is_empty
  <2>2. Len(b.starts) = L
    <3>1. b.starts = [h \in 1..L |-> b.starts[h]]
      BY <2>1
    <3>2. L \in Nat
      BY <1>1
    <3>. HIDE DEF b, L
    <3>. QED BY <3>1, <3>2, ListOfPlaces
  <2>3. ~ (L = 1 /\ r = 1)
    <3>1. SUFFICES ASSUME L = 1, r = 1 PROVE FALSE
      OBVIOUS
    <3>2. /\ Sigma(lens(s.levels), 0 + 1) = Sigma(lens(s.levels), 0) + lens(s.levels)[0 + 1]
          /\ Sigma(lens(s.levels), 0) = 0
          /\ Sigma(weights(s.levels), 0 + 1) = Sigma(weights(s.levels), 0) + weights(s.levels)[0 + 1]
          /\ Sigma(weights(s.levels), 0) = 0
      BY SigmaUnfolds
    <3>3. Sigma(lens(s.levels), 1) = 1 /\ Sigma(weights(s.levels), 1) = n
      BY <1>1, <3>1 DEF Held, Stack
    <3>4. /\ lens(s.levels)[1] = Len(s.levels[1]) /\ Len(s.levels[1]) \in Nat
          /\ weights(s.levels)[1] = TwoTo(0) * Len(s.levels[1])
      <4>1. 1 \in 1..L /\ 1 - 1 = 0
        BY <3>1
      <4>. QED BY <1>1, <4>1, LevelLengths DEF weights
    <3>5. TwoTo(0) = 1
      <4>1. Power(0)
        BY <1>1 DEF Powers
      <4>. QED BY <4>1 DEF Power
    <3>6. \A x \in Nat : 1 * x = x /\ 0 + x = x
      OBVIOUS
    <3>7. weights(s.levels)[1] = Len(s.levels[1])
      BY <3>4, <3>5, <3>6
    <3>8. Sigma(lens(s.levels), 1) = Len(s.levels[1]) /\ Sigma(weights(s.levels), 1) = Len(s.levels[1])
      BY <3>2, <3>4, <3>6, <3>7
    <3>. QED BY <1>11, <3>3, <3>8
  <2>4. get_serialized_size_bytes(s) = 20 + 4 * L + (r + 2) * B
    <3>1. get_serialized_size_bytes(s) = serializedSize(L, retained(s.levels))
      BY <1>11 DEF get_serialized_size_bytes, is_empty
    <3>2. serializedSize(L, r) = 20 + 4 * L + (r + 2) * B
      BY <2>3 DEF serializedSize
    <3>. HIDE DEF L, r
    <3>. QED BY <1>1, <3>1, <3>2
  <2>5. bytesOf(b) = 8 + B * r + (12 + 4 * L + 2 * B)
    <3>. HIDE DEF b, L, r
    <3>1. Len(b.items) = r
      BY <1>8, <2>1
    <3>. QED BY <2>1, <2>2, <3>1 DEF bytesOf
  <2>6. /\ L <= ub /\ r <= least /\ least \in Nat /\ ub >= 2 /\ ub \in Nat /\ L \in Nat /\ r \in Nat
    <3>. HIDE DEF L, r, ub, n, cap
    <3>. QED BY <1>1, <1>3, <1>4, <1>5, <1>11
  <2>7. serializedSize(ub, least) = 20 + 4 * ub + (least + 2) * B
    <3>1. ~ (ub = 1)
      <4>. HIDE DEF ub
      <4>. QED BY <2>6
    <3>. QED BY <3>1 DEF serializedSize
  <2>8. \A x, y, u, v \in Nat : x <= u /\ y <= v =>
          /\ 20 + 4 * x + (y + 2) * B <= 20 + 4 * u + (v + 2) * B
          /\ 20 + 4 * x + (y + 2) * B = 8 + B * y + (12 + 4 * x + 2 * B)
    <3>1. ASSUME NEW x \in Nat, NEW y \in Nat, NEW u \in Nat, NEW v \in Nat, x <= u, y <= v
          PROVE  20 + 4 * x + (y + 2) * B <= 20 + 4 * u + (v + 2) * B
      <4>1. v - y \in Nat /\ v = y + (v - y)
        BY <3>1
      <4>2. \A d \in Nat : (y + d + 2) * B = (y + 2) * B + d * B /\ d * B \in Nat
        BY <1>2
      <4>3. (v + 2) * B = (y + 2) * B + (v - y) * B /\ (v - y) * B \in Nat
        BY <4>1, <4>2
      <4>4. (y + 2) * B \in Nat
        BY <1>2
      <4>. HIDE DEF B
      <4>. DEFINE p == (v + 2) * B
                  q == (y + 2) * B
                  t == (v - y) * B
      <4>5. p = q + t /\ t \in Nat /\ q \in Nat
        BY <4>3, <4>4
      <4>. HIDE DEF p, q, t
      <4>6. 20 + 4 * x + q <= 20 + 4 * u + p
        BY <3>1, <4>5
      <4>. QED BY <4>6 DEF p, q
    <3>2. ASSUME NEW x \in Nat, NEW y \in Nat
          PROVE  20 + 4 * x + (y + 2) * B = 8 + B * y + (12 + 4 * x + 2 * B)
      BY <1>2
    <3>. QED BY <3>1, <3>2
  <2>. HIDE DEF L, r, ub, least, b, B
  <2>9. get_serialized_size_bytes(s) = bytesOf(b)
    BY <2>4, <2>5, <2>6, <2>8
  <2>10. get_serialized_size_bytes(s) <= serializedSize(ub, least)
    <3>1. 20 + 4 * L + (r + 2) * B <= 20 + 4 * ub + (least + 2) * B
      BY <2>6, <2>8
    <3>. DEFINE x == 20 + 4 * L + (r + 2) * B
                y == 20 + 4 * ub + (least + 2) * B
    <3>2. x <= y /\ get_serialized_size_bytes(s) = x /\ serializedSize(ub, least) = y
      BY <2>4, <2>7, <3>1
    <3>. HIDE DEF x, y
    <3>. QED BY <3>2
  <2>. QED BY <1>6, <2>9, <2>10 DEF b, n
<1>. QED BY <1>1, <1>9, <1>10, <1>11

(* The same within an operation, when the sketch holds coins: of a new one only what
   the operation reads. *)
Plain(s) ==
  /\ s.n = 0 => s.minK = s.k /\ s.levels = <<<<>>>> /\ s.itemsSize = s.k
  /\ s.n = 1 => s.minK = s.k /\ s.min = s.levels[1][1] /\ s.max = s.levels[1][1]

\* Coins put into the sketch, and taken out of it.
LEMMA TossingIsPlain ==
  ASSUME NEW s, DOMAIN s = SketchFields, Simple(s), NEW coins
  PROVE  Plain(tossing(s, coins))
<1>. DEFINE a == tossing(s, coins)
<1>1. /\ a.n = s.n /\ a.k = s.k /\ a.minK = s.minK /\ a.levels = s.levels
      /\ a.itemsSize = s.itemsSize /\ a.min = s.min /\ a.max = s.max
  BY DEF tossing, SketchFields
<1>. HIDE DEF a
<1>2. s.n = 0 => s.minK = s.k /\ s.levels = <<<<>>>> /\ s.itemsSize = s.k
  <2>1. SUFFICES ASSUME s.n = 0 PROVE s.minK = s.k /\ s.levels = <<<<>>>> /\ s.itemsSize = s.k
    OBVIOUS
  <2>. DEFINE k == s.k
              new == newSketch(k)
  <2>2. s = new
    BY <2>1 DEF Simple
  <2>3. new.minK = k /\ new.levels = <<<<>>>> /\ new.itemsSize = k
    BY NewFields
  <2>. HIDE DEF k, new
  <2>. QED BY <2>2, <2>3 DEF k
<1>3. Plain(a)
  BY <1>1, <1>2 DEF Simple, Plain
<1>. QED BY <1>3 DEF a

\* Once its coins are taken out, a sketch of an operation can be read back.
LEMMA TossedIsSimple ==
  ASSUME NEW s, DOMAIN s = SketchFields, Plain(s), s.n # 0
  PROVE  Simple(tossed(s))
<1>. DEFINE a == tossed(s)
<1>1. /\ a.n = s.n /\ a.k = s.k /\ a.minK = s.minK /\ a.levels = s.levels
      /\ a.itemsSize = s.itemsSize /\ a.min = s.min /\ a.max = s.max /\ a.coins = <<>>
  BY DEF tossed, SketchFields
<1>2. a = [x \in SketchFields |-> a[x]]
  BY DEF tossed
<1>. HIDE DEF a
<1>3. Simple(a)
  BY <1>1, <1>2 DEF Simple, Plain, IsSketch
<1>. QED BY <1>3 DEF a

\* The first item.
LEMMA FirstItem ==
  ASSUME NEW most \in Nat, Powers(most + 1), NEW s, Sound(s, most), s.n = 0, Plain(s), NEW x
  PROVE  LET d == updated(s, x)
         IN /\ DOMAIN d = SketchFields /\ d.n = 1 /\ d.k = s.k /\ d.minK = s.k
            /\ d.min = x /\ d.max = x /\ d.levels[1][1] = x
<1>. DEFINE d == updated(s, x)
            new == [s.levels EXCEPT ![1] = <<x>> \o @]
<1>1. /\ DOMAIN s = SketchFields /\ s.minK = s.k /\ s.levels = <<<<>>>> /\ s.itemsSize = s.k
      /\ s.k \in Nat /\ s.k >= M
  BY DEF Plain, Sound
<1>2. freeCells(s) # 0
  <2>1. retained(s.levels) = Held(s.levels) /\ Held(s.levels) \in Nat /\ Held(s.levels) <= s.n
    BY SoundIs
  <2>2. retained(s.levels) = 0
    <3>. HIDE DEF new
    <3>. QED BY <2>1
  <2>3. freeCells(s) = s.k - 0
    BY <1>1, <2>2 DEF freeCells
  <2>. QED BY <1>1, <2>3, MAssumption
<1>3. d = [s EXCEPT !.min = x, !.max = x, !.n = 0 + 1, !.isLevelZeroSorted = FALSE, !.levels = new]
  BY <1>1, <1>2 DEF updated, is_empty, SketchFields
<1>4. new[1][1] = x
  <2>1. new[1] = <<x>> \o <<>>
    BY <1>1
  <2>2. (<<x>> \o <<>>)[1] = x
    OBVIOUS
  <2>. QED BY <2>1, <2>2
<1>. HIDE DEF new, d
<1>5. /\ DOMAIN d = SketchFields /\ d.n = 1 /\ d.k = s.k /\ d.minK = s.k
      /\ d.min = x /\ d.max = x /\ d.levels[1][1] = x
  BY <1>1, <1>3, <1>4 DEF SketchFields
<1>. QED BY <1>5 DEF d

\* An update.
LEMMA UpdatedIsPlain ==
  ASSUME NEW most \in Nat, Powers(most + 1), NEW s, Sound(s, most), s.n < most, Plain(s), NEW x
  PROVE  Plain(updated(s, x)) /\ updated(s, x).n = s.n + 1
<1>. DEFINE d == updated(s, x)
<1>1. d.n = s.n + 1 /\ s.n \in Nat
  BY UpdatedIs, SoundIs
<1>2. CASE s.n = 0
  <2>1. /\ d.k = s.k /\ d.minK = s.k /\ d.min = x /\ d.max = x /\ d.levels[1][1] = x
    BY <1>2, FirstItem
  <2>. HIDE DEF d
  <2>2. d.n # 0
    BY <1>1
  <2>3. Plain(d)
    BY <2>1, <2>2 DEF Plain
  <2>. QED BY <1>1, <2>3 DEF d
<1>3. CASE s.n # 0
  <2>. HIDE DEF d
  <2>1. d.n # 0 /\ d.n # 1
    BY <1>1, <1>3
  <2>2. Plain(d)
    BY <2>1 DEF Plain
  <2>. QED BY <1>1, <2>2 DEF d
<1>. QED BY <1>2, <1>3

\* A fold over one item.
LEMMA FedOne ==
  ASSUME NEW s, NEW x
  PROVE  FoldLeft(updated, s, <<x>>) = updated(s, x)
<1>. DEFINE q == <<x>>
            d == FoldLeft(updated, s, q)
<1>1. DOMAIN q = 1..1 /\ q[1] = x
  OBVIOUS
<1>. HIDE DEF q
<1>2. d = Feeds!Left(s, q, s, 1)
  BY <1>1 DEF FoldLeft, MapThenFoldSet, Max, Feeds!Left, Feeds!Fold,
              Feeds!MapThenFoldSet, feeding, lastOf
<1>. HIDE DEF d
<1>3. Feeds!ChoosesLast
  BY DEF Feeds!ChoosesLast, lastOf
<1>4. Feeds!Left(s, q, s, 0 + 1) = feeding(s, q, 0 + 1, Feeds!Left(s, q, s, 0))
      /\ Feeds!Left(s, q, s, 0) = s
  BY <1>3, Feeds!LeftOfMore, Feeds!LeftOfNone
<1>5. d = updated(s, x)
  BY <1>1, <1>2, <1>4 DEF feeding
<1>. QED BY <1>5 DEF d, q

\* A merge.
LEMMA MergedIsPlain ==
  ASSUME NEW most \in Nat, Powers(most + 1), NEW s, Sound(s, most), Plain(s),
         NEW other, Sound(other, most), Plain(other), ~ is_empty(other), s.n + other.n <= most
  PROVE  Plain(merged(s, other)) /\ merged(s, other).n = s.n + other.n
<1>. DEFINE n == s.n + other.n
            items == other.levels[1]
            fed == FoldLeft(updated, s, items)
            joined == IF is_estimation_mode(other) THEN merge_higher_levels(fed, other, n)
                                                   ELSE fed
            total == [joined EXCEPT !.n = n]
            minK == IF is_estimation_mode(other) /\ other.minK < total.minK THEN other.minK
                    ELSE total.minK
            min == IF is_empty(total) \/ less(other.min, total.min) THEN other.min ELSE total.min
            max == IF is_empty(total) \/ less(total.max, other.max) THEN other.max ELSE total.max
            d == merged(s, other)
<1>1. d = [total EXCEPT !.minK = minK, !.min = min, !.max = max, !.err = @ + other.err]
  BY DEF merged
<1>2. s.n \in Nat /\ other.n \in Nat /\ other.n # 0
  BY SoundIs DEF is_empty
<1>3. DOMAIN d = SketchFields
  BY MergedIs DEF Sound
<1>4. d.n = n
  <2>1. DOMAIN total = SketchFields
    <3>. HIDE DEF total
    <3>. QED BY <1>1, <1>3
  <2>2. "n" \in SketchFields /\ "n" \in DOMAIN joined
    BY <2>1 DEF SketchFields
  <2>3. total.n = n
    <3>. HIDE DEF joined
    <3>. QED BY <2>2
  <2>. HIDE DEF total, minK, min, max, n
  <2>. QED BY <1>1, <2>1, <2>3 DEF SketchFields
<1>5. CASE s.n = 0 /\ other.n = 1
  <2>. DEFINE x == other.levels[1][1]
              one == updated(s, x)
  <2>1. /\ Len(other.levels) = 1 /\ items = <<x>>
    BY <1>5, OneItem
  <2>2. ~ is_estimation_mode(other)
    BY <2>1 DEF is_estimation_mode
  <2>3. fed = one
    <3>. HIDE DEF x
    <3>. QED BY <2>1, FedOne
  <2>4. /\ DOMAIN one = SketchFields /\ one.n = 1 /\ one.k = s.k /\ one.minK = s.k
        /\ one.min = x /\ one.max = x /\ one.levels[1][1] = x
    BY <1>5, FirstItem
  <2>5. other.min = x /\ other.max = x
    BY <1>5 DEF Plain
  <2>6. total = [one EXCEPT !.n = 1]
    BY <1>5, <2>2, <2>3
  <2>. HIDE DEF total, one, x
  <2>7. /\ DOMAIN total = SketchFields /\ total.n = 1 /\ total.k = s.k /\ total.minK = s.k
        /\ total.min = x /\ total.max = x /\ total.levels[1][1] = x
    BY <2>4, <2>6 DEF SketchFields
  <2>8. minK = s.k /\ min = x /\ max = x
    BY <2>2, <2>5, <2>7
  <2>. HIDE DEF minK, min, max
  <2>9. d.k = s.k /\ d.minK = s.k /\ d.min = x /\ d.max = x /\ d.levels[1][1] = x
    BY <1>1, <2>7, <2>8 DEF SketchFields
  <2>. HIDE DEF d
  <2>10. d.n = 1
    BY <1>4, <1>5
  <2>11. Plain(d)
    BY <2>9, <2>10 DEF Plain
  <2>. QED BY <1>4, <2>11 DEF d
<1>6. CASE ~ (s.n = 0 /\ other.n = 1)
  <2>1. n # 0 /\ n # 1
    BY <1>2, <1>6
  <2>. HIDE DEF d
  <2>2. Plain(d)
    BY <1>4, <2>1 DEF Plain
  <2>. QED BY <1>4, <2>2 DEF d
<1>. QED BY <1>5, <1>6

\* A query.
LEMMA SortedIsSimple ==
  ASSUME NEW most \in Nat, Powers(most + 1), NEW s, Sound(s, most), Simple(s), s.n # 0,
         Items(s.levels[1])
  PROVE  Simple(sort_level_zero(s))
<1>. DEFINE f == sorted(s.levels[1])
            new == [s.levels EXCEPT ![1] = f]
            d == sort_level_zero(s)
<1>1. DOMAIN s = SketchFields /\ IsSketch(s) /\ s.coins = <<>>
  BY DEF Sound, Simple
<1>2. CASE s.isLevelZeroSorted
  BY <1>2 DEF sort_level_zero
<1>3. CASE ~ s.isLevelZeroSorted
  <2>1. d = [s EXCEPT !.levels = new, !.isLevelZeroSorted = TRUE]
    BY <1>1, <1>3 DEF sort_level_zero, SketchFields
  <2>2. Items(f) /\ Len(f) = Len(s.levels[1])
        /\ \A v \in Nat : Below(f, Len(f), v) = Below(s.levels[1], Len(s.levels[1]), v)
    BY SortKeeps
  <2>. HIDE DEF f
  <2>3. s.n = 1 => new[1][1] = s.levels[1][1]
    <3>1. SUFFICES ASSUME s.n = 1 PROVE new[1][1] = s.levels[1][1]
      OBVIOUS
    <3>. DEFINE x == s.levels[1][1]
    <3>2. Len(s.levels) = 1 /\ Len(s.levels[1]) = 1 /\ s.levels = <<s.levels[1]>>
      BY <3>1, OneItem
    <3>3. new[1] = f
      BY <3>2
    <3>4. f[1] \in Nat /\ x \in Nat
      <4>1. 1 \in 1..Len(f) /\ 1 \in 1..Len(s.levels[1])
        BY <2>2, <3>2
      <4>. QED BY <2>2, <4>1, ItemsAre
    <3>5. \A list, v : Below(list, 1, v) = IF list[1] < v THEN 1 ELSE 0
      <4>1. SUFFICES ASSUME NEW list, NEW v PROVE Below(list, 1, v) = IF list[1] < v THEN 1 ELSE 0
        OBVIOUS
      <4>2. /\ Below(list, 0 + 1, v) = Below(list, 0, v) + (IF list[0 + 1] < v THEN 1 ELSE 0)
            /\ Below(list, 0, v) = 0
        BY BelowUnfolds
      <4>. QED BY <4>2
    <3>6. \A v \in Nat : f[1] < v <=> x < v
      <4>1. SUFFICES ASSUME NEW v \in Nat PROVE f[1] < v <=> x < v
        OBVIOUS
      <4>2. Below(f, 1, v) = Below(s.levels[1], 1, v)
        BY <2>2, <3>2
      <4>3. (IF f[1] < v THEN 1 ELSE 0) = (IF x < v THEN 1 ELSE 0)
        BY <3>5, <4>2
      <4>. HIDE DEF x
      <4>. QED BY <4>3
    <3>. HIDE DEF x, new
    <3>7. f[1] = x
      <4>1. f[1] + 1 \in Nat /\ x + 1 \in Nat
        BY <3>4
      <4>2. f[1] < x + 1 /\ x < f[1] + 1
        <5>1. f[1] < f[1] + 1 /\ x < x + 1
          BY <3>4
        <5>. QED BY <3>6, <4>1, <5>1
      <4>. QED BY <3>4, <4>2
    <3>. QED BY <3>3, <3>7 DEF x
  <2>4. d = [y \in SketchFields |-> d[y]]
    <3>. HIDE DEF new, d
    <3>. QED BY <1>1, <2>1
  <2>. HIDE DEF d, new
  <2>5. /\ d.n = s.n /\ d.k = s.k /\ d.minK = s.minK /\ d.min = s.min /\ d.max = s.max
        /\ d.levels = new /\ d.coins = <<>>
    BY <1>1, <2>1 DEF SketchFields
  <2>6. s.n = 1 => s.minK = s.k /\ s.min = s.levels[1][1] /\ s.max = s.levels[1][1]
    BY DEF Simple
  <2>7. Simple(d)
    BY <2>3, <2>4, <2>5, <2>6 DEF Simple, IsSketch
  <2>. QED BY <2>7 DEF d
<1>. QED BY <1>2, <1>3

\* Coins are put in and taken out, and the ranks stay.
LEMMA CoinsAreRanked ==
  ASSUME NEW s, DOMAIN s = SketchFields, NEW R, Ranked(s, R), NEW coins \in Seq(0..1)
  PROVE  Ranked(tossing(s, coins), R) /\ Ranked(tossed(s), R)
<1>. DEFINE a == tossing(s, coins)
            b == tossed(s)
<1>1. /\ a.coins = coins /\ a.levels = s.levels /\ a.err = s.err
      /\ a.isLevelZeroSorted = s.isLevelZeroSorted
  BY DEF tossing, SketchFields
<1>2. /\ b.coins = <<>> /\ b.levels = s.levels /\ b.err = s.err
      /\ b.isLevelZeroSorted = s.isLevelZeroSorted
  BY DEF tossed, SketchFields
<1>3. <<>> \in Seq(0..1)
  OBVIOUS
<1>. HIDE DEF a, b
<1>4. Ranked(a, R) /\ Ranked(b, R)
  BY <1>1, <1>2, <1>3 DEF Ranked, Tossable
<1>. QED BY <1>4 DEF a, b

\* A new sketch, of a stream without items.
LEMMA NewIsRanked ==
  ASSUME NEW k \in Nat, k >= M, NEW most \in Nat, Powers(most + 1), NEW R, \A v \in Nat : R[v] = 0
  PROVE  Ranked(newSketch(k), R)
<1>. DEFINE s == newSketch(k)
            levels == <<<<>>>>
<1>1. /\ s.levels = levels /\ s.isLevelZeroSorted = FALSE /\ s.err = 0 /\ s.coins = <<>>
  BY NewFields
<1>2. Len(levels) = 1 /\ levels[1] = <<>> /\ <<>> \in Seq(0..1)
  OBVIOUS
<1>. HIDE DEF s, levels
<1>3. Kept(levels, FALSE)
  <2>1. \A h \in 1..Len(levels) : h = 1
    BY <1>2
  <2>2. \A h \in 2..Len(levels) : FALSE
    BY <1>2
  <2>. QED BY <1>2, <2>1, <2>2, FewAscend DEF Kept
<1>4. \A v \in Nat : RankIn(levels, v) = 0
  <2>1. SUFFICES ASSUME NEW v \in Nat PROVE RankIn(levels, v) = 0
    OBVIOUS
  <2>. DEFINE f == ranks(levels, v)
  <2>2. Sigma(f, 0 + 1) = Sigma(f, 0) + f[0 + 1] /\ Sigma(f, 0) = 0
    BY SigmaUnfolds
  <2>3. f[1] = TwoTo(0) * 0
    <3>1. 1 \in 1..Len(levels) /\ 1 - 1 = 0
      BY <1>2
    <3>2. BelowIn(levels[1], v) = 0
      BY <1>2, FewAscend
    <3>. QED BY <3>1, <3>2 DEF ranks
  <2>4. TwoTo(0) = 1
    <3>1. Power(0)
      BY DEF Powers
    <3>. QED BY <3>1 DEF Power
  <2>5. Sigma(f, 1) = 0
    <3>1. f[1] = 0
      BY <2>3, <2>4
    <3>. HIDE DEF f
    <3>. QED BY <2>2, <3>1
  <2>. QED BY <1>2, <2>5 DEF RankIn
<1>5. \A v \in Nat : Near(RankIn(levels, v), R[v], 0)
  BY <1>4 DEF Near
<1>6. Ranked(s, R)
  <2>1. s.isLevelZeroSorted \in BOOLEAN /\ Kept(s.levels, s.isLevelZeroSorted)
    BY <1>1, <1>3
  <2>2. Tossable(s)
    BY <1>1, <1>2 DEF Tossable
  <2>3. \A v \in Nat : Near(RankIn(s.levels, v), R[v], s.err)
    BY <1>1, <1>5
  <2>. QED BY <2>1, <2>2, <2>3 DEF Ranked
<1>. QED BY <1>6 DEF s

\* Level zero is sorted.
LEMMA SortedIsRanked ==
  ASSUME NEW most \in Nat, Powers(most + 1), NEW s, Sound(s, most), NEW R, Ranked(s, R)
  PROVE  Ranked(sort_level_zero(s), R)
<1>. DEFINE L == Len(s.levels)
            f == sorted(s.levels[1])
            new == [s.levels EXCEPT ![1] = f]
            d == sort_level_zero(s)
<1>1. CASE s.isLevelZeroSorted
  BY <1>1 DEF sort_level_zero
<1>2. CASE ~ s.isLevelZeroSorted
  <2>1. DOMAIN s = SketchFields
    BY DEF Sound
  <2>2. d = [s EXCEPT !.levels = new, !.isLevelZeroSorted = TRUE]
    BY <1>2, <2>1 DEF sort_level_zero, SketchFields
  <2>3. /\ L \in Nat /\ 1 \in 1..L /\ DOMAIN s.levels = 1..L /\ Lists(s.levels)
    <3>1. Lists(s.levels) /\ L \in 1..s.n + 1 /\ s.n \in Nat
      BY SoundIs
    <3>2. L \in Nat /\ 1 \in 1..L
      <4>. HIDE DEF L
      <4>. QED BY <3>1
    <3>. QED BY <3>1, <3>2, ListIs DEF Lists
  <2>4. Kept(s.levels, s.isLevelZeroSorted) /\ Items(s.levels[1])
    BY <2>3 DEF Ranked, Kept
  <2>5. /\ Items(f) /\ Ascending(f)
        /\ \A v \in Nat : BelowIn(f, v) = BelowIn(s.levels[1], v)
    BY <2>4, SortKeeps DEF BelowIn
  <2>. HIDE DEF f
  <2>6. new = [h \in 1..L |-> new[h]] /\ new[1] = f /\ \A h \in 1..L : h # 1 => new[h] = s.levels[h]
    <3>. HIDE DEF L
    <3>. QED BY <2>3
  <2>. HIDE DEF new, L
  <2>7. List(new) /\ Len(new) = L
    BY <2>3, <2>6, ListOfPlaces
  <2>8. Kept(new, TRUE)
    <3>1. \A h \in 1..L : Items(new[h])
      BY <2>4, <2>5, <2>6 DEF Kept, L
    <3>2. \A h \in 2..L : h \in 1..L /\ h # 1
      BY <2>3
    <3>3. \A h \in 2..L : Ascending(new[h])
      BY <2>4, <2>6, <3>2 DEF Kept, L
    <3>. QED BY <2>5, <2>6, <2>7, <3>1, <3>3 DEF Kept
  <2>9. \A v \in Nat : RankIn(new, v) = RankIn(s.levels, v)
    <3>1. SUFFICES ASSUME NEW v \in Nat PROVE RankIn(new, v) = RankIn(s.levels, v)
      OBVIOUS
    <3>2. ASSUME NEW h \in 1..L PROVE ranks(new, v)[h] = ranks(s.levels, v)[h]
      <4>1. BelowIn(new[h], v) = BelowIn(s.levels[h], v)
        BY <2>5, <2>6
      <4>2. ranks(new, v)[h] = TwoTo(h - 1) * BelowIn(new[h], v)
        BY <2>7 DEF ranks
      <4>3. ranks(s.levels, v)[h] = TwoTo(h - 1) * BelowIn(s.levels[h], v)
        BY DEF ranks, L
      <4>. QED BY <4>1, <4>2, <4>3
    <3>. QED BY <2>3, <2>7, <3>2, SigmaSame DEF RankIn, L
  <2>. HIDE DEF d
  <2>10. d.levels = new /\ d.isLevelZeroSorted = TRUE /\ d.err = s.err /\ d.coins = s.coins
    BY <2>1, <2>2 DEF SketchFields
  <2>11. Ranked(d, R)
    BY <2>8, <2>9, <2>10 DEF Ranked, Tossable
  <2>. QED BY <2>11 DEF d
<1>. QED BY <1>1, <1>2 DEF Ranked

-----------------------------------------------------------------------------
(* get_rank counts the items of each level that are below the value. *)

\* The items below a value, counted.
LEMMA BelowCounts ==
  ASSUME NEW list, NEW v, NEW n \in Nat
  PROVE  Cardinality({p \in 1..n : list[p] < v}) = Below(list, n, v)
<1>. DEFINE S(m) == {p \in 1..m : list[p] < v}
            T == {m \in Nat : IsFiniteSet(S(m)) /\ Cardinality(S(m)) = Below(list, m, v)}
<1>1. 0 \in T
  <2>1. S(0) = {}
    OBVIOUS
  <2>2. Below(list, 0, v) = 0
    BY BelowUnfolds
  <2>. QED BY <2>1, <2>2, FS_EmptySet
<1>2. ASSUME NEW m \in Nat, m \in T PROVE m + 1 \in T
  <2>1. IsFiniteSet(S(m)) /\ Cardinality(S(m)) = Below(list, m, v) /\ Below(list, m, v) \in Nat
    BY <1>2, BelowUnfolds
  <2>2. Below(list, m + 1, v) = Below(list, m, v) + (IF list[m + 1] < v THEN 1 ELSE 0)
    BY BelowUnfolds
  <2>3. \A p \in 1..m + 1 : p \in 1..m \/ p = m + 1
    OBVIOUS
  <2>4. m + 1 \notin S(m) /\ \A p \in 1..m : p \in 1..m + 1
    OBVIOUS
  <2>5. CASE list[m + 1] < v
    <3>1. S(m + 1) = S(m) \union {m + 1}
      <4>1. m + 1 \in 1..m + 1
        OBVIOUS
      <4>. QED BY <2>3, <2>4, <2>5, <4>1
    <3>. HIDE DEF S
    <3>. QED BY <2>1, <2>2, <2>4, <2>5, <3>1, FS_AddElement
  <2>6. CASE ~ (list[m + 1] < v)
    <3>1. S(m + 1) = S(m)
      BY <2>3, <2>4, <2>6
    <3>. HIDE DEF S
    <3>. QED BY <2>1, <2>2, <2>6, <3>1
  <2>. QED BY <2>5, <2>6
<1>3. \A m \in Nat : m \in T
  <2>. HIDE DEF T
  <2>. QED BY <1>1, <1>2, Sums!OverNaturals
<1>. QED BY <1>3

\* What get_rank finds in level h.
belowAt(s, v, h) ==
  LET level == s.levels[h]
      small == {p \in DOMAIN level : level[p] < v}
  IN IF h > 1 \/ s.isLevelZeroSorted
     THEN Cardinality({p \in small : 1..p \subseteq small})
     ELSE Cardinality(small)

\* In an ascending level the items below the value come first.
LEMMA BelowAtIs ==
  ASSUME NEW s, NEW h \in 1..Len(s.levels), Kept(s.levels, s.isLevelZeroSorted), Lists(s.levels),
         NEW v \in Nat
  PROVE  belowAt(s, v, h) = BelowIn(s.levels[h], v)
<1>. DEFINE level == s.levels[h]
            small == {p \in DOMAIN level : level[p] < v}
            n == Len(level)
            c == BelowIn(level, v)
<1>1. Items(level) /\ n \in Nat /\ DOMAIN level = 1..n
  BY ItemsAre DEF Kept
<1>2. CASE h > 1 \/ s.isLevelZeroSorted
  <2>1. Ascending(level)
    <3>1. h = 1 \/ h \in 2..Len(s.levels)
      <4>1. Len(s.levels) \in Nat
        BY ListIs DEF Lists
      <4>. QED BY <4>1
    <3>2. CASE h = 1
      BY <1>2, <3>2 DEF Kept
    <3>. QED BY <3>1, <3>2 DEF Kept
  <2>2. \A p \in 1..n : level[p] < v <=> p <= c
    BY <1>1, <2>1, BelowAreFirst DEF BelowIn
  <2>3. c \in 0..n
    BY <1>1, BelowIsLess DEF BelowIn
  <2>. DEFINE first == {p \in small : 1..p \subseteq small}
  <2>4. belowAt(s, v, h) = Cardinality(first)
    BY <1>2 DEF belowAt
  <2>. HIDE DEF level, c, n
  <2>5. small = 1..c
    BY <1>1, <2>2, <2>3
  <2>. HIDE DEF small
  <2>6. first = 1..c
    <3>1. \A p \in 1..c : 1..p \subseteq 1..c
      BY <2>3
    <3>. QED BY <2>5, <3>1
  <2>. HIDE DEF first
  <2>7. Cardinality(1..c) = c
    <3>1. 1 \in Int /\ c \in Int /\ (IF 1 > c THEN 0 ELSE c - 1 + 1) = c
      BY <1>1, <2>3
    <3>. QED BY <3>1, FS_Interval
  <2>. QED BY <2>4, <2>6, <2>7 DEF c, level
<1>3. CASE ~ (h > 1 \/ s.isLevelZeroSorted)
  <2>1. belowAt(s, v, h) = Cardinality(small)
    BY <1>3 DEF belowAt
  <2>2. small = {p \in 1..n : level[p] < v}
    BY <1>1
  <2>. HIDE DEF small, level
  <2>3. Cardinality(small) = Below(level, n, v)
    BY <1>1, <2>2, BelowCounts
  <2>. QED BY <2>1, <2>3 DEF BelowIn, level
<1>. QED BY <1>2, <1>3

ranking(p, q, i, total) == total + TwoTo(q[i] - 1) * belowAt(p[1], p[2], q[i])
rankedTo(p, q, i, total) == total = Sigma(ranks(p[1].levels, p[2]), i)
Ranking == INSTANCE FoldTheorems WITH step <- ranking, choose <- lastOf, Good <- rankedTo

\* The rank that is reported.
LEMMA GetRankIs ==
  ASSUME NEW s, Kept(s.levels, s.isLevelZeroSorted), Lists(s.levels), NEW v \in Nat
  PROVE  get_rank(s, v) = RankIn(s.levels, v)
<1>. DEFINE n == Len(s.levels)
            p == <<s, v>>
            q == [h \in 1..n |-> h]
            f == ranks(s.levels, v)
<1>1. n \in Nat /\ DOMAIN q = 1..n /\ (\A i \in 1..n : q[i] = i) /\ p[1] = s /\ p[2] = v
  BY ListIs DEF Lists
<1>2. get_rank(s, v) = FoldLeft(LAMBDA total, h : total + TwoTo(h - 1) * belowAt(s, v, h), 0, q)
  BY DEF get_rank, belowAt
<1>. HIDE DEF n, p, q
<1>3. get_rank(s, v) = Ranking!Left(p, q, 0, n)
  BY <1>1, <1>2 DEF FoldLeft, MapThenFoldSet, Max, Ranking!Left, Ranking!Fold,
              Ranking!MapThenFoldSet, ranking, lastOf
<1>4. Ranking!ChoosesLast
  BY DEF Ranking!ChoosesLast, lastOf
<1>5. Ranking!Preserves(p, q, n)
  <2>1. ASSUME NEW i \in 1..n, NEW total, rankedTo(p, q, i - 1, total)
        PROVE  rankedTo(p, q, i, ranking(p, q, i, total))
    <3>1. total = Sigma(f, i - 1)
      BY <1>1, <2>1 DEF rankedTo
    <3>2. Sigma(f, i) = Sigma(f, i - 1) + f[i]
      <4>1. i - 1 \in Nat /\ (i - 1) + 1 = i
        BY <1>1
      <4>. QED BY <4>1, SigmaUnfolds
    <3>3. f[i] = TwoTo(q[i] - 1) * belowAt(s, v, q[i])
      <4>1. q[i] = i /\ i \in 1..Len(s.levels)
        BY <1>1 DEF n
      <4>2. belowAt(s, v, i) = BelowIn(s.levels[i], v)
        BY <4>1, BelowAtIs
      <4>3. f[i] = TwoTo(i - 1) * BelowIn(s.levels[i], v)
        BY <4>1 DEF ranks
      <4>. QED BY <4>1, <4>2, <4>3
    <3>. HIDE DEF f
    <3>4. rankedTo(p, q, i, ranking(p, q, i, total)) <=> ranking(p, q, i, total) = Sigma(f, i)
      BY <1>1 DEF rankedTo, f
    <3>5. ranking(p, q, i, total) = total + TwoTo(q[i] - 1) * belowAt(s, v, q[i])
      BY <1>1 DEF ranking
    <3>. QED BY <3>1, <3>2, <3>3, <3>4, <3>5
  <2>. QED BY <2>1 DEF Ranking!Preserves
<1>6. rankedTo(p, q, 0, 0)
  BY SigmaUnfolds DEF rankedTo
<1>7. rankedTo(p, q, n, Ranking!Left(p, q, 0, n))
  BY <1>1, <1>4, <1>5, <1>6, Ranking!LeftKeeps
<1>. QED BY <1>1, <1>3, <1>7 DEF rankedTo, RankIn, n

(* The ranks of a stream of which h counts each value: those a sketch is compared
   with, as sums over the natural numbers. *)
slots(h) == [i \in Nat |-> IF i - 1 \in Values THEN h[i - 1] ELSE 0]
streamRanks(h) == [v \in Nat |-> Sigma(slots(h), v)]

\* The rank in the stream, as RankWithinError has it.
exactRank(h, v) == FoldSet(LAMBDA x, total : total + h[x], 0, {x \in Values : x < v})

Streams == [Values -> Nat]

anyone(S) == CHOOSE x \in S : TRUE
tallying(f, g, x, total) == total + f[x]
Tallies == INSTANCE FoldTheorems WITH step <- tallying, choose <- anyone, Good <- anything

\* Slots are natural numbers.
LEMMA SlotsType ==
  ASSUME NEW h \in Streams, NEW n \in Nat
  PROVE  Naturals(slots(h), n) /\ Sigma(slots(h), n) \in Nat
         /\ \A i \in 1..n : slots(h)[i] = IF i - 1 \in Values THEN h[i - 1] ELSE 0
<1>1. \A i \in 1..n : slots(h)[i] = IF i - 1 \in Values THEN h[i - 1] ELSE 0
  BY DEF slots
<1>2. \A x \in Values : h[x] \in Nat
  BY DEF Streams
<1>3. Naturals(slots(h), n)
  BY <1>1, <1>2 DEF Naturals
<1>. QED BY <1>1, <1>3, SigmaType

\* The sum over the values below v is that over the first v slots.
LEMMA ExactIsSum ==
  ASSUME NEW h \in Streams, NEW v \in Nat
  PROVE  exactRank(h, v) = streamRanks(h)[v]
<1>. DEFINE S(m) == {x \in Values : x < m}
            total(m) == Tallies!Sum(h, S(m))
            f == slots(h)
            T == {m \in Nat : IsFiniteSet(S(m)) /\ total(m) = Sigma(f, m)}
<1>1. exactRank(h, v) = total(v)
  BY DEF exactRank, FoldSet, MapThenFoldSet, Tallies!Sum, Tallies!Fold, Tallies!MapThenFoldSet,
         tallying, anyone
<1>2. Tallies!ChoosesSome
  BY DEF Tallies!ChoosesSome, Tallies!Chosen, anyone
<1>3. \A x \in Values : x \in Nat /\ h[x] \in Nat
  BY ValuesAssumption DEF Streams
<1>4. \A x \in Values : Tallies!val(h, x) = h[x]
  BY <1>3 DEF Tallies!val, tallying
<1>5. \A R : R \subseteq Values => Tallies!Ints(h, R)
  <2>1. SUFFICES ASSUME NEW R, R \subseteq Values, NEW x \in R
                 PROVE  /\ Tallies!val(h, x) \in Int
                        /\ \A acc \in Int : tallying(h, h, x, acc) = Tallies!val(h, x) + acc
    BY DEF Tallies!Ints
  <2>2. h[x] \in Nat /\ Tallies!val(h, x) = h[x]
    BY <1>3, <1>4, <2>1
  <2>3. \A acc \in Int : acc + h[x] = h[x] + acc
    BY <2>2
  <2>. QED BY <2>2, <2>3 DEF tallying
<1>6. 0 \in T
  <2>1. S(0) = {}
    BY <1>3
  <2>2. total(0) = 0
    BY <1>2, <2>1, Tallies!SumEmpty
  <2>3. Sigma(f, 0) = 0
    BY SigmaUnfolds
  <2>. QED BY <2>1, <2>2, <2>3, FS_EmptySet
<1>7. ASSUME NEW m \in Nat, m \in T PROVE m + 1 \in T
  <2>1. IsFiniteSet(S(m)) /\ total(m) = Sigma(f, m) /\ Sigma(f, m) \in Nat
    BY <1>7, SlotsType
  <2>2. Sigma(f, m + 1) = Sigma(f, m) + f[m + 1]
    BY SigmaUnfolds
  <2>3. f[m + 1] = IF m \in Values THEN h[m] ELSE 0
    <3>1. m + 1 \in Nat /\ (m + 1) - 1 = m
      OBVIOUS
    <3>. QED BY <3>1 DEF slots
  <2>4. CASE m \in Values
    <3>1. S(m + 1) = S(m) \union {m}
      <4>1. \A x \in Values : x < m + 1 <=> (x < m \/ x = m)
        BY <1>3
      <4>. QED BY <2>4, <4>1
    <3>2. m \notin S(m) /\ S(m) \union {m} \subseteq Values
      BY <2>4
    <3>3. Tallies!Ints(h, S(m) \union {m})
      BY <1>5, <3>2
    <3>4. IsFiniteSet(S(m) \union {m})
      BY <2>1, FS_AddElement
    <3>5. Tallies!Sum(h, S(m) \union {m}) = Tallies!Sum(h, S(m)) + Tallies!val(h, m)
      <4>. DEFINE R == S(m)
      <4>1. /\ Tallies!IsFiniteSet(R) /\ m \notin R /\ Tallies!Ints(h, Tallies!With(R, m))
        BY <2>1, <3>2, <3>3 DEF IsFiniteSet, Tallies!IsFiniteSet, Tallies!With
      <4>. HIDE DEF R
      <4>2. Tallies!Sum(h, Tallies!With(R, m)) = Tallies!Sum(h, R) + Tallies!val(h, m)
        BY <1>2, <4>1, Tallies!SumWith
      <4>. QED BY <4>2 DEF Tallies!With, R
    <3>6. total(m + 1) = total(m) + h[m]
      BY <1>4, <2>4, <3>1, <3>5
    <3>. HIDE DEF total, S, f
    <3>7. IsFiniteSet(S(m + 1))
      BY <3>1, <3>4
    <3>8. total(m + 1) = Sigma(f, m + 1)
      BY <2>1, <2>2, <2>3, <2>4, <3>6
    <3>. QED BY <3>7, <3>8
  <2>5. CASE m \notin Values
    <3>1. S(m + 1) = S(m)
      <4>1. \A x \in Values : x < m + 1 <=> (x < m \/ x = m)
        BY <1>3
      <4>. QED BY <2>5, <4>1
    <3>2. total(m + 1) = total(m)
      BY <3>1
    <3>. HIDE DEF total, S, f
    <3>. QED BY <2>1, <2>2, <2>3, <2>5, <3>1, <3>2
  <2>. QED BY <2>4, <2>5
<1>8. \A m \in Nat : m \in T
  <2>. HIDE DEF T
  <2>. QED BY <1>6, <1>7, Sums!OverNaturals
<1>9. total(v) = Sigma(f, v)
  BY <1>8
<1>. QED BY <1>1, <1>9 DEF streamRanks

\* An empty stream.
LEMMA NothingIsRanked ==
  nothing \in Streams /\ \A v \in Nat : streamRanks(nothing)[v] = 0
<1>1. nothing \in Streams
  BY DEF nothing, Streams
<1>2. ASSUME NEW v \in Nat PROVE streamRanks(nothing)[v] = 0
  <2>1. \A i \in 1..v : slots(nothing)[i] = 0
    <3>1. \A x \in Values : nothing[x] = 0
      BY DEF nothing
    <3>. QED BY <1>1, <3>1, SlotsType
  <2>3. \A i \in 0 + 1..v : slots(nothing)[i] = 0
    BY <2>1
  <2>4. Sigma(slots(nothing), v) = Sigma(slots(nothing), 0)
    <3>1. 0 \in 0..v
      OBVIOUS
    <3>. QED BY <1>1, <2>3, <3>1, SigmaPadded, SlotsType
  <2>. QED BY <2>4, SigmaUnfolds DEF streamRanks
<1>. QED BY <1>1, <1>2

\* One item more in the stream.
LEMMA OneIsRanked ==
  ASSUME NEW h \in Streams, NEW x \in Values
  PROVE  LET more == [h EXCEPT ![x] = @ + 1]
         IN more \in Streams /\ \A v \in Nat : streamRanks(more)[v] = withItem(streamRanks(h), x)[v]
<1>. DEFINE more == [h EXCEPT ![x] = @ + 1]
<1>1. x \in Nat /\ h[x] \in Nat
  BY ValuesAssumption DEF Streams
<1>2. more \in Streams /\ more[x] = h[x] + 1 /\ \A y \in Values : y # x => more[y] = h[y]
  BY <1>1 DEF Streams
<1>. HIDE DEF more
<1>3. ASSUME NEW v \in Nat PROVE streamRanks(more)[v] = withItem(streamRanks(h), x)[v]
  <2>. DEFINE f == slots(h)
              g == slots(more)
  <2>1. /\ streamRanks(more)[v] = Sigma(g, v)
        /\ withItem(streamRanks(h), x)[v] = Sigma(f, v) + lessThan(x, v)
    BY DEF streamRanks, withItem
  <2>2. /\ Naturals(f, v) /\ Sigma(f, v) \in Nat /\ Naturals(g, v) /\ Sigma(g, v) \in Nat
        /\ \A i \in 1..v : f[i] = IF i - 1 \in Values THEN h[i - 1] ELSE 0
        /\ \A i \in 1..v : g[i] = IF i - 1 \in Values THEN more[i - 1] ELSE 0
    BY <1>2, SlotsType
  <2>. HIDE DEF f, g
  <2>3. \A i \in 1..v : i # x + 1 => f[i] = g[i]
    <3>1. \A i \in 1..v : i # x + 1 => i - 1 # x
      BY <1>1
    <3>. QED BY <1>2, <2>2, <3>1
  <2>4. CASE x < v
    <3>1. x + 1 \in 1..v /\ (x + 1) - 1 = x
      BY <1>1, <2>4
    <3>2. f[x + 1] = h[x] /\ g[x + 1] = h[x] + 1
      BY <1>2, <2>2, <3>1
    <3>3. Sigma(g, v) + f[x + 1] = Sigma(f, v) + g[x + 1]
      BY <2>2, <2>3, <3>1, SigmaAt
    <3>4. Sigma(g, v) = Sigma(f, v) + 1
      BY <1>1, <2>2, <3>2, <3>3
    <3>. QED BY <2>1, <2>4, <3>4 DEF lessThan
  <2>5. CASE ~ (x < v)
    <3>1. \A i \in 1..v : i # x + 1
      BY <1>1, <2>5
    <3>2. Sigma(f, v) = Sigma(g, v)
      BY <2>3, <3>1, SigmaSame
    <3>. QED BY <2>1, <2>2, <2>5, <3>2 DEF lessThan
  <2>. QED BY <2>4, <2>5
<1>. QED BY <1>2, <1>3 DEF more

\* Two streams.
LEMMA BothAreRanked ==
  ASSUME NEW h \in Streams, NEW g \in Streams
  PROVE  LET all == [x \in Values |-> h[x] + g[x]]
         IN all \in Streams /\ \A v \in Nat : streamRanks(all)[v] = both(streamRanks(h), streamRanks(g))[v]
<1>. DEFINE all == [x \in Values |-> h[x] + g[x]]
<1>1. \A x \in Values : h[x] \in Nat /\ g[x] \in Nat
  BY DEF Streams
<1>2. all \in Streams /\ \A x \in Values : all[x] = h[x] + g[x]
  BY <1>1 DEF Streams
<1>. HIDE DEF all
<1>3. ASSUME NEW v \in Nat PROVE streamRanks(all)[v] = both(streamRanks(h), streamRanks(g))[v]
  <2>1. /\ streamRanks(all)[v] = Sigma(slots(all), v)
        /\ both(streamRanks(h), streamRanks(g))[v] = Sigma(slots(h), v) + Sigma(slots(g), v)
    BY DEF streamRanks, both
  <2>2. \A i \in 1..v : slots(all)[i] = slots(h)[i] + slots(g)[i]
    <3>1. 0 = 0 + 0
      OBVIOUS
    <3>. QED BY <1>2, <3>1, SlotsType
  <2>3. Sigma(slots(all), v) = Sigma(slots(h), v) + Sigma(slots(g), v)
    BY <2>2, SlotsType, SigmaAdds
  <2>. QED BY <2>1, <2>3
<1>. QED BY <1>2, <1>3 DEF all

-----------------------------------------------------------------------------
(* The second inductive invariant: both sketches can be read back, and the ranks in
   them are as near to those of their streams as the error says. *)

KRanked ==
  /\ KInv /\ seen \in [Ids -> Streams]
  /\ \A i \in Ids : Simple(sketch[i]) /\ Ranked(sketch[i], streamRanks(seen[i]))

\* One sketch is exchanged for another, and its stream.
LEMMA OneRankedChanges ==
  ASSUME KRanked, KInv', NEW i \in Ids, NEW s, Simple(s),
         NEW h \in Streams, NEW R, Ranked(s, R), \A v \in Nat : streamRanks(h)[v] = R[v],
         sketch' = [sketch EXCEPT ![i] = s], seen' = [seen EXCEPT ![i] = h]
  PROVE  KRanked'
<1>1. Ranked(s, streamRanks(h))
  BY RankedSame
<1>2. DOMAIN sketch = Ids /\ seen \in [Ids -> Streams]
  BY DEF KRanked, KInv
<1>3. seen' \in [Ids -> Streams]
  BY <1>2
<1>4. ASSUME NEW j \in Ids PROVE Simple(sketch'[j]) /\ Ranked(sketch'[j], streamRanks(seen'[j]))
  <2>1. CASE j = i
    <3>1. sketch'[j] = s /\ seen'[j] = h
      BY <1>2, <2>1
    <3>. QED BY <1>1, <3>1
  <2>2. CASE j # i
    <3>1. sketch'[j] = sketch[j] /\ seen'[j] = seen[j]
      BY <1>2, <2>2
    <3>2. Simple(sketch[j]) /\ Ranked(sketch[j], streamRanks(seen[j]))
      BY DEF KRanked
    <3>. QED BY <3>1, <3>2
  <2>. QED BY <2>1, <2>2
<1>. QED BY <1>3, <1>4 DEF KRanked

\* A sketch that is not empty reads what it needs.
LEMMA SimpleIsPlain ==
  ASSUME NEW s, Simple(s), s.n # 0
  PROVE  Plain(s)
BY DEF Simple, Plain

\* New sketches are so.
LEMMA NewIsSimple ==
  ASSUME NEW k
  PROVE  Simple(newSketch(k))
<1>. DEFINE s == newSketch(k)
<1>1. IsSketch(s) /\ s.coins = <<>> /\ s.k = k /\ s.n = 0
  BY NewFields
<1>2. s = newSketch(s.k)
  BY <1>1
<1>. HIDE DEF s
<1>3. s.n # 1
  BY <1>1
<1>4. Simple(s)
  BY <1>1, <1>2, <1>3 DEF Simple
<1>. QED BY <1>4 DEF s

\* In the initial states.
LEMMA InitRanked == Init => KRanked
<1>1. SUFFICES ASSUME Init PROVE KRanked
  OBVIOUS
<1>2. sketch \in [Ids -> {newSketch(k) : k \in Ks}] /\ seen = [i \in Ids |-> nothing]
  BY <1>1 DEF Init
<1>3. ASSUME NEW i \in Ids PROVE Simple(sketch[i]) /\ Ranked(sketch[i], streamRanks(seen[i]))
  <2>1. PICK k \in Ks : sketch[i] = newSketch(k)
    BY <1>2
  <2>2. seen[i] = nothing
    BY <1>2
  <2>3. Ranked(newSketch(k), streamRanks(nothing))
    BY Bounds, KsAssumption, NothingIsRanked, NewIsRanked
  <2>. QED BY <2>1, <2>2, <2>3, NewIsSimple
<1>4. KInv
  BY <1>1, InitSound
<1>5. seen \in [Ids -> Streams]
  BY <1>2, NothingIsRanked
<1>. QED BY <1>3, <1>4, <1>5 DEF KRanked

\* Coins that are drawn are a sequence of bits.
LEMMA DrawnAreBits ==
  /\ \A coins \in drawn : coins \in Seq(0..1)
  /\ \A coin \in 0..1 : <<coin>> \in Seq(0..1)
<1>1. ASSUME NEW coins \in drawn PROVE coins \in Seq(0..1)
  <2>1. coins \in [1..MaxCoins -> 0..1] /\ MaxCoins \in Nat
    BY MaxCoinsAssumption DEF drawn
  <2>. QED BY <2>1
<1>2. \A coin \in 0..1 : <<coin>> \in Seq(0..1)
  OBVIOUS
<1>. QED BY <1>1, <1>2

\* An update.
LEMMA UpdateRanked ==
  ASSUME KRanked, KInv', NEW i \in Ids, NEW v \in Values, update(i, v)
  PROVE  KRanked'
<1>. DEFINE s == sketch[i]
            R == streamRanks(seen[i])
            more == [seen[i] EXCEPT ![v] = @ + 1]
<1>1. PICK coin \in 0..1 :
        sketch' = [sketch EXCEPT ![i] = tossed(updated(tossing(@, <<coin>>), v))]
  BY DEF update
<1>. DEFINE a == tossing(s, <<coin>>)
            b == updated(a, v)
<1>2. Sound(s, MaxN[i]) /\ Simple(s) /\ Ranked(s, R) /\ seen \in [Ids -> Streams]
      /\ DOMAIN sketch = Ids
  BY DEF KRanked, KInv
<1>3. Sound(a, MaxN[i]) /\ a.n = s.n /\ a.n < MaxN[i]
  <2>1. Sound(a, MaxN[i]) /\ a.n = s.n
    BY <1>2, CoinsDoNotMatter
  <2>. QED BY <2>1 DEF update
<1>4. Plain(a) /\ Ranked(a, R)
  <2>1. DOMAIN s = SketchFields
    BY <1>2 DEF Sound
  <2>2. <<coin>> \in Seq(0..1)
    BY DrawnAreBits
  <2>. QED BY <1>2, <2>1, <2>2, TossingIsPlain, CoinsAreRanked
<1>. HIDE DEF a
<1>5. Sound(b, MaxN[i]) /\ Plain(b) /\ b.n = a.n + 1
  BY <1>3, <1>4, Bounds, UpdatedIs, UpdatedIsPlain
<1>6. v \in Nat
  BY ValuesAssumption
<1>. HIDE DEF R
<1>7. Ranked(b, withItem(R, v))
  BY <1>3, <1>4, <1>6, Bounds, UpdatedIsRanked
<1>. HIDE DEF b
<1>8. b.n # 0 /\ DOMAIN b = SketchFields
  <2>1. a.n \in Nat
    BY <1>3, Bounds, SoundIs
  <2>. QED BY <1>5, <2>1 DEF Sound
<1>9. Simple(tossed(b)) /\ Ranked(tossed(b), withItem(R, v))
  <2>1. <<>> \in Seq(0..1)
    OBVIOUS
  <2>. QED BY <1>5, <1>7, <1>8, <2>1, TossedIsSimple, CoinsAreRanked
<1>10. sketch' = [sketch EXCEPT ![i] = tossed(b)]
  BY <1>1 DEF a, b
<1>11. seen' = [seen EXCEPT ![i] = more]
  BY <1>2 DEF update
<1>12. more \in Streams /\ \A x \in Nat : streamRanks(more)[x] = withItem(R, v)[x]
  <2>1. seen[i] \in Streams
    BY <1>2
  <2>. QED BY <2>1, OneIsRanked DEF R
<1>. HIDE DEF more
<1>. QED BY <1>9, <1>10, <1>11, <1>12, OneRankedChanges

\* A merge.
LEMMA MergeRanked ==
  ASSUME KRanked, KInv', NEW i \in Ids, NEW j \in Ids, merge(i, j)
  PROVE  KRanked'
<1>. DEFINE s == sketch[i]
            other == sketch[j]
            R == streamRanks(seen[i])
            Q == streamRanks(seen[j])
            all == [v \in Values |-> seen[i][v] + seen[j][v]]
<1>1. PICK coins \in drawn :
        sketch' = [sketch EXCEPT ![i] = tossed(merged(tossing(@, coins), sketch[j]))]
  BY DEF merge
<1>. DEFINE a == tossing(s, coins)
            b == merged(a, other)
<1>2. /\ Sound(s, MaxN[i]) /\ Simple(s) /\ Ranked(s, R) /\ seen \in [Ids -> Streams]
      /\ Sound(other, MaxN[j]) /\ Simple(other) /\ Ranked(other, Q) /\ DOMAIN sketch = Ids
  BY DEF KRanked, KInv
<1>3. ~ is_empty(other) /\ s.n + other.n <= MaxN[i] /\ other.n # 0
  BY DEF merge, is_empty
<1>4. Sound(other, MaxN[i])
  <2>1. s.n \in 0..MaxN[i] /\ other.n \in 0..MaxN[j]
    BY <1>2 DEF Sound
  <2>2. MaxN[i] \in Nat /\ MaxN[j] \in Nat
    BY Bounds
  <2>. HIDE DEF s, other
  <2>3. other.n \in 0..MaxN[i]
    BY <1>3, <2>1, <2>2
  <2>. QED BY <1>2, <2>3 DEF Sound
<1>5. Sound(a, MaxN[i]) /\ a.n = s.n
  BY <1>2, CoinsDoNotMatter
<1>6. Plain(a) /\ Ranked(a, R) /\ Plain(other)
  <2>1. DOMAIN s = SketchFields
    BY <1>2 DEF Sound
  <2>2. coins \in Seq(0..1)
    BY DrawnAreBits
  <2>. QED BY <1>2, <1>3, <2>1, <2>2, TossingIsPlain, CoinsAreRanked, SimpleIsPlain
<1>7. a.n + other.n <= MaxN[i]
  BY <1>3, <1>5
<1>. HIDE DEF a, R, Q, other
<1>8. Sound(b, MaxN[i]) /\ Plain(b) /\ b.n = a.n + other.n
  BY <1>3, <1>4, <1>5, <1>6, <1>7, Bounds, MergedIs, MergedIsPlain
<1>9. Ranked(b, both(R, Q))
  BY <1>2, <1>3, <1>4, <1>5, <1>6, <1>7, Bounds, MergedIsRanked
<1>. HIDE DEF b
<1>10. b.n # 0 /\ DOMAIN b = SketchFields
  <2>1. a.n \in Nat /\ other.n \in Nat
    BY <1>4, <1>5, Bounds, SoundIs
  <2>2. DOMAIN b = SketchFields
    BY <1>8 DEF Sound
  <2>. QED BY <1>3, <1>8, <2>1, <2>2
<1>11. Simple(tossed(b)) /\ Ranked(tossed(b), both(R, Q))
  <2>1. <<>> \in Seq(0..1)
    OBVIOUS
  <2>. QED BY <1>8, <1>9, <1>10, <2>1, TossedIsSimple, CoinsAreRanked
<1>12. sketch' = [sketch EXCEPT ![i] = tossed(b)]
  BY <1>1 DEF a, b, other
<1>13. seen' = [seen EXCEPT ![i] = all]
  BY <1>2 DEF merge
<1>14. all \in Streams /\ \A v \in Nat : streamRanks(all)[v] = both(R, Q)[v]
  <2>1. seen[i] \in Streams /\ seen[j] \in Streams
    BY <1>2
  <2>. QED BY <2>1, BothAreRanked DEF R, Q
<1>. HIDE DEF all
<1>. QED BY <1>11, <1>12, <1>13, <1>14, OneRankedChanges

\* Every operation keeps the ranks.
LEMMA NextRanked == KRanked /\ [Next]_vars => KRanked'
<1>1. SUFFICES ASSUME KRanked, [Next]_vars PROVE KRanked'
  OBVIOUS
<1>2. KInv /\ KInv' /\ seen \in [Ids -> Streams] /\ DOMAIN sketch = Ids
  BY <1>1, NextSound DEF KRanked, KInv
<1>3. \A i \in Ids : /\ Sound(sketch[i], MaxN[i]) /\ Simple(sketch[i])
                     /\ Ranked(sketch[i], streamRanks(seen[i])) /\ seen[i] \in Streams
  BY <1>1 DEF KRanked, KInv
<1>4. ASSUME NEW i \in Ids, NEW k \in Ks, create(i, k) PROVE KRanked'
  <2>1. Simple(newSketch(k)) /\ nothing \in Streams
    BY NewIsSimple, NothingIsRanked
  <2>2. Ranked(newSketch(k), streamRanks(nothing))
    BY Bounds, KsAssumption, NothingIsRanked, NewIsRanked
  <2>3. /\ sketch' = [sketch EXCEPT ![i] = newSketch(k)]
        /\ seen' = [seen EXCEPT ![i] = nothing]
    BY <1>4 DEF create
  <2>. QED BY <1>1, <1>2, <2>1, <2>2, <2>3, OneRankedChanges
<1>5. ASSUME NEW i \in Ids, NEW v \in Values, update(i, v) PROVE KRanked'
  BY <1>1, <1>2, <1>5, UpdateRanked
<1>6. ASSUME NEW i \in Ids, NEW j \in Ids, assign(i, j) PROVE KRanked'
  <2>1. /\ sketch' = [sketch EXCEPT ![i] = sketch[j]]
        /\ seen' = [seen EXCEPT ![i] = seen[j]]
    BY <1>6 DEF assign
  <2>. QED BY <1>1, <1>2, <1>3, <2>1, OneRankedChanges
<1>7. ASSUME NEW i \in Ids, NEW j \in Ids, merge(i, j) PROVE KRanked'
  BY <1>1, <1>2, <1>7, MergeRanked
<1>8. ASSUME NEW i \in Ids, query(i) PROVE KRanked'
  <2>. DEFINE s == sketch[i]
  <2>1. s.n # 0 /\ sketch' = [sketch EXCEPT ![i] = sort_level_zero(s)] /\ seen' = seen
    BY <1>8 DEF query, is_empty
  <2>2. Sound(s, MaxN[i]) /\ Simple(s) /\ Ranked(s, streamRanks(seen[i])) /\ seen[i] \in Streams
    BY <1>3
  <2>3. seen' = [seen EXCEPT ![i] = seen[i]]
    BY <1>2, <2>1
  <2>. HIDE DEF s
  <2>4. Items(s.levels[1])
    <3>1. Len(s.levels) \in 1..s.n + 1 /\ s.n \in Nat
      BY <2>2, Bounds, SoundIs
    <3>2. 1 \in 1..Len(s.levels)
      BY <3>1
    <3>. QED BY <2>2, <3>2 DEF Ranked, Kept
  <2>5. Simple(sort_level_zero(s)) /\ Ranked(sort_level_zero(s), streamRanks(seen[i]))
    BY <2>1, <2>2, <2>4, Bounds, SortedIsSimple, SortedIsRanked
  <2>. QED BY <1>1, <1>2, <2>1, <2>2, <2>3, <2>5, OneRankedChanges
<1>9. ASSUME NEW i \in Ids, reload(i) PROVE KRanked'
  <2>1. reloaded(sketch[i]) = sketch[i]
    BY <1>3, Bounds, ReloadedIsSame
  <2>2. sketch' = [sketch EXCEPT ![i] = sketch[i]] /\ seen' = [seen EXCEPT ![i] = seen[i]]
    BY <1>2, <1>9, <2>1 DEF reload
  <2>. QED BY <1>1, <1>2, <1>3, <2>2, OneRankedChanges
<1>10. CASE UNCHANGED vars
  <2>1. sketch' = sketch /\ seen' = seen
    BY <1>10 DEF vars
  <2>. QED BY <1>1, <1>2, <2>1 DEF KRanked
<1>. QED BY <1>1, <1>4, <1>5, <1>6, <1>7, <1>8, <1>9, <1>10 DEF Next

\* The invariant holds in every state.
LEMMA AlwaysRanked == Spec => []KRanked
BY InitRanked, NextRanked, PTL DEF Spec

\* What it says of the rank that a sketch reports.
LEMMA RankedIsNear == KRanked => RankWithinError
<1>1. SUFFICES ASSUME KRanked, NEW i \in Ids, NEW v \in Values
               PROVE  LET exact == FoldSet(LAMBDA x, total : total + seen[i][x], 0,
                                           {x \in Values : x < v})
                          got == get_rank(sketch[i], v)
                      IN got - exact \in -sketch[i].err..sketch[i].err
  BY DEF RankWithinError
<1>. DEFINE s == sketch[i]
            h == seen[i]
            exact == exactRank(h, v)
<1>2. Sound(s, MaxN[i]) /\ Ranked(s, streamRanks(h)) /\ h \in Streams
  BY <1>1 DEF KRanked, KInv
<1>3. v \in Nat
  BY ValuesAssumption
<1>4. exact = streamRanks(h)[v]
  BY <1>2, <1>3, ExactIsSum
<1>5. get_rank(s, v) = RankIn(s.levels, v)
  <2>1. Lists(s.levels)
    BY <1>2, Bounds, SoundIs
  <2>2. Kept(s.levels, s.isLevelZeroSorted)
    BY <1>2 DEF Ranked
  <2>. HIDE DEF s
  <2>. QED BY <1>3, <2>1, <2>2, GetRankIs
<1>6. Near(get_rank(s, v), exact, s.err)
  BY <1>2, <1>3, <1>4, <1>5 DEF Ranked
<1>7. exact = FoldSet(LAMBDA x, total : total + seen[i][x], 0, {x \in Values : x < v})
  BY DEF exactRank
<1>. HIDE DEF exact
<1>8. get_rank(s, v) - exact \in -s.err..s.err
  <2>. DEFINE x == get_rank(s, v)
              e == s.err
  <2>1. x \in Nat /\ exact \in Nat /\ e \in Nat /\ x <= exact + e /\ exact <= x + e
    BY <1>6 DEF Near
  <2>. HIDE DEF x, e
  <2>2. x - exact \in -e..e
    BY <2>1
  <2>. QED BY <2>2 DEF x, e
<1>. QED BY <1>7, <1>8

\* What it says of the serialized form.
LEMMA RankedSurvives == KRanked => SurvivesBytes
<1>1. SUFFICES ASSUME KRanked, NEW i \in Ids
               PROVE  LET s == sketch[i]
                      IN /\ reloaded(s) = s
                         /\ get_serialized_size_bytes(s) = bytesOf(serialize(s))
                         /\ get_serialized_size_bytes(s) <= get_max_serialized_size_bytes(s.k, s.n)
  BY DEF SurvivesBytes
<1>. DEFINE s == sketch[i]
<1>2. Sound(s, MaxN[i]) /\ Simple(s)
  BY <1>1 DEF KRanked, KInv
<1>. HIDE DEF s
<1>3. /\ reloaded(s) = s
      /\ get_serialized_size_bytes(s) = bytesOf(serialize(s))
      /\ get_serialized_size_bytes(s) <= get_max_serialized_size_bytes(s.k, s.n)
  BY <1>2, Bounds, ReloadedIsSame, SizesAgree
<1>. QED BY <1>3 DEF s

(* After any sequence of updates, merges, assignments, queries and reloads, whatever
   the coins, the rank that a sketch reports for a value differs from the rank in its
   stream by no more than the compactions account for. *)
THEOREM RankErrorIsBounded == Spec => []RankWithinError
BY AlwaysRanked, RankedIsNear, PTL

(* After any such sequence, a sketch that is written and read back is the same in
   every field, is written in as many bytes as were told before, and in no more than
   the most there can be for its k and n. *)
THEOREM BytesAreFaithful == Spec => []SurvivesBytes
BY AlwaysRanked, RankedSurvives, PTL
=============================================================================

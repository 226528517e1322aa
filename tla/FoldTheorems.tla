---------------------------- MODULE FoldTheorems ----------------------------
(***************************************************************************)
(* MapThenFoldSet, which FoldLeft, MapThenSumSet and others are made of,   *)
(* is defined by a recursive function over the subsets of a set.  On a     *)
(* finite set that function exists, so that a fold is one step and a fold  *)
(* over the rest.  A fold over a sequence, from its first element on, is   *)
(* one over its positions that chooses the last of them.                   *)
(*                                                                         *)
(* A module that has proofs about folds instantiates this one with the     *)
(* step of its fold and what it wants to show of the result.  The step may *)
(* depend on two things that do not change from one step to the next.      *)
(*                                                                         *)
(* The last part is about no fold, but needs induction too: odd strides    *)
(* around a table whose size is a power of two.                            *)
(***************************************************************************)
EXTENDS Integers, Folds, FiniteSetTheorems

CONSTANTS
  step(_, _, _, _),  \* what the step for x makes of acc: step(p, q, x, acc)
  choose(_),         \* the element of a set whose step is the last
  Good(_, _, _, _)   \* what holds of acc after the steps up to n: Good(p, q, n, acc)

(* Induction. *)

(* A least element. *)
LEMMA LeastElement ==
  ASSUME NEW T, T \subseteq Nat, T # {}
  PROVE  \E x \in T : \A y \in T : x <= y
<1>1. PICK x \in T : \A y \in T : ~ (<<y, x>> \in OpToRel(<, Nat))
  BY NatLessThanWellFounded, WFMin
<1>2. \A y \in T : ~ (y < x)
  BY <1>1 DEF OpToRel
<1>. QED BY <1>2

(* A set that has 0, and with every natural number the next, has them all. *)
THEOREM OverNaturals ==
  ASSUME NEW T, 0 \in T, \A n \in Nat : n \in T => n + 1 \in T
  PROVE  \A n \in Nat : n \in T
<1>. DEFINE S == {n \in Nat : n \notin T}
<1>. SUFFICES ASSUME S # {} PROVE FALSE
  OBVIOUS
<1>1. PICK x \in S : \A y \in S : x <= y
  BY LeastElement
<1>2. x \in Nat /\ x \notin T /\ x # 0
  OBVIOUS
<1>3. x - 1 \in Nat /\ (x - 1) + 1 = x
  BY <1>2
<1>4. x - 1 \in T
  BY <1>1, <1>3
<1>. QED BY <1>2, <1>3, <1>4

(* A set that has each subset of S whose proper subsets it has, has S.     *)
THEOREM OverFiniteSets ==
  ASSUME NEW S, IsFiniteSet(S), NEW T,
         \A R \in SUBSET S : (\A Q \in SUBSET R : Q # R => Q \in T) => R \in T
  PROVE  S \in T
<1>. SUFFICES ASSUME S \notin T PROVE FALSE
  OBVIOUS
<1>. DEFINE U == {Cardinality(R) : R \in {Q \in SUBSET S : Q \notin T}}
<1>1. \A R \in SUBSET S : IsFiniteSet(R) /\ Cardinality(R) \in Nat
  BY FS_Subset, FS_CardinalityType
<1>2. U \subseteq Nat /\ U # {}
  BY <1>1
<1>3. PICK x \in U : \A y \in U : x <= y
  BY <1>2, LeastElement
<1>4. PICK R \in SUBSET S : R \notin T /\ x = Cardinality(R)
  BY <1>3
<1>5. \A Q \in SUBSET R : Q # R => Q \in T
  <2>. SUFFICES ASSUME NEW Q \in SUBSET R, Q # R, Q \notin T PROVE FALSE
    OBVIOUS
  <2>1. Q \in SUBSET S /\ Cardinality(Q) \in U
    OBVIOUS
  <2>2. Cardinality(Q) < Cardinality(R)
    BY <1>1, FS_Subset
  <2>. QED BY <1>1, <1>3, <1>4, <2>1, <2>2
<1>. QED BY <1>4, <1>5

----------------------------------------------------------------------------
(* Folds over a set. *)

Fold(p, q, base, S) ==
  MapThenFoldSet(LAMBDA x, acc : step(p, q, x, acc), base, LAMBDA x : x, choose, S)

Rest(R) == R \ {choose(R)}

Chooses(S) == \A R \in SUBSET S : R # {} => choose(R) \in R

Step(p, q, base, g, R) == IF R = {} THEN base ELSE step(p, q, choose(R), g[Rest(R)])

IsFold(p, q, base, g, S) == g = [R \in SUBSET S |-> Step(p, q, base, g, R)]

Agree(R) ==
  \A p, q, base, S, U, g, h :
    /\ R \subseteq S /\ R \subseteq U /\ Chooses(S)
    /\ IsFold(p, q, base, g, S) /\ IsFold(p, q, base, h, U)
    => g[R] = h[R]

HasFold(S) == \A p, q, base : Chooses(S) => \E g : IsFold(p, q, base, g, S)

\* What is left of a set without the chosen element is a smaller set.
LEMMA RestIsSmaller ==
  ASSUME NEW S, Chooses(S), NEW R, R \subseteq S, R # {}
  PROVE  /\ choose(R) \in R /\ Rest(R) \subseteq R /\ Rest(R) # R /\ Rest(R) \subseteq S
         /\ Rest(R) # S
BY DEF Chooses, Rest

\* A function that is a fold, unfolded once at a subset.
LEMMA FoldAt ==
  ASSUME NEW p, NEW q, NEW base, NEW S, NEW g, IsFold(p, q, base, g, S), NEW R, R \subseteq S
  PROVE  g[R] = Step(p, q, base, g, R)
<1>1. R \in SUBSET S
  OBVIOUS
<1>2. g = [Q \in SUBSET S |-> Step(p, q, base, g, Q)]
  BY DEF IsFold
<1>. DEFINE H(Q) == Step(p, q, base, g, Q)
<1>3. g = [Q \in SUBSET S |-> H(Q)]
  BY <1>2
<1>4. g[R] = H(R)
  <2>. HIDE DEF H
  <2>. QED BY <1>1, <1>3
<1>. QED BY <1>4

(* Two functions that satisfy the recursion agree where both are defined. *)
LEMMA FoldsAgree == \A R : IsFiniteSet(R) => Agree(R)
<1>1. ASSUME NEW R, IsFiniteSet(R), \A Q \in SUBSET R : Q # R => Agree(Q)
      PROVE  Agree(R)
  <2>. SUFFICES ASSUME NEW p, NEW q, NEW base, NEW S, NEW U, NEW g, NEW h,
                       R \subseteq S, R \subseteq U, Chooses(S),
                       IsFold(p, q, base, g, S), IsFold(p, q, base, h, U)
                PROVE  g[R] = h[R]
    BY DEF Agree
  <2>1. g[R] = Step(p, q, base, g, R) /\ h[R] = Step(p, q, base, h, R)
    BY FoldAt
  <2>2. CASE R = {}
    BY <2>1, <2>2 DEF Step
  <2>3. CASE R # {}
    <3>1. /\ Rest(R) \in SUBSET R /\ Rest(R) # R
          /\ Rest(R) \subseteq S /\ Rest(R) \subseteq U
      BY <2>3, RestIsSmaller
    <3>2. Agree(Rest(R))
      BY <1>1, <3>1
    <3>3. g[Rest(R)] = h[Rest(R)]
      BY <3>1, <3>2 DEF Agree
    <3>. QED BY <2>1, <2>3, <3>3 DEF Step
  <2>. QED BY <2>2, <2>3
<1>2. ASSUME NEW S, IsFiniteSet(S) PROVE Agree(S)
  <2>. DEFINE T == {R \in SUBSET S : Agree(R)}
  <2>1. \A R \in SUBSET S : IsFiniteSet(R)
    BY <1>2, FS_Subset
  <2>2. ASSUME NEW R \in SUBSET S, \A Q \in SUBSET R : Q # R => Q \in T PROVE R \in T
    BY <1>1, <2>1, <2>2
  <2>3. S \in T
    <3>. HIDE DEF T
    <3>. QED BY <1>2, <2>2, OverFiniteSets
  <2>. QED BY <2>3
<1>. QED BY <1>2

(* The recursion has a solution over every finite set. *)
LEMMA FoldExists == \A S : IsFiniteSet(S) => HasFold(S)
<1>1. ASSUME NEW S, IsFiniteSet(S), \A R \in SUBSET S : R # S => HasFold(R)
      PROVE  HasFold(S)
  <2>. SUFFICES ASSUME NEW p, NEW q, NEW base, Chooses(S)
                PROVE  \E g : IsFold(p, q, base, g, S)
    BY DEF HasFold
  <2>. DEFINE G(R) == CHOOSE g : IsFold(p, q, base, g, R)
              F(R) == G(R)[R]
              V(R) == IF R = {} THEN base ELSE step(p, q, choose(R), F(Rest(R)))
              g == [R \in SUBSET S |-> V(R)]
  <2>1. ASSUME NEW R, R \subseteq S, R # S PROVE IsFold(p, q, base, G(R), R)
    <3>1. HasFold(R) /\ Chooses(R)
      BY <1>1, <2>1 DEF Chooses
    <3>2. \E f : IsFold(p, q, base, f, R)
      BY <3>1 DEF HasFold
    <3>. QED BY <3>2
  <2>. HIDE DEF G
  <2>2. ASSUME NEW R, R \subseteq S, R # S PROVE F(R) = V(R)
    <3>1. IsFold(p, q, base, G(R), R) /\ R \subseteq R
      BY <2>1, <2>2
    <3>2. F(R) = Step(p, q, base, G(R), R)
      BY <3>1, FoldAt
    <3>3. CASE R = {}
      BY <3>2, <3>3 DEF Step
    <3>4. CASE R # {}
      <4>1. Rest(R) \subseteq R /\ Rest(R) \subseteq S /\ Rest(R) # S
        BY <2>2, <3>4, RestIsSmaller
      <4>2. IsFold(p, q, base, G(Rest(R)), Rest(R)) /\ Rest(R) \subseteq Rest(R)
        BY <2>1, <4>1
      <4>3. Agree(Rest(R)) /\ Chooses(R)
        <5>1. IsFiniteSet(Rest(R))
          BY <1>1, <4>1, FS_Subset
        <5>. QED BY <2>2, <5>1, FoldsAgree DEF Chooses
      <4>4. G(R)[Rest(R)] = F(Rest(R))
        BY <3>1, <4>1, <4>2, <4>3 DEF Agree
      <4>. QED BY <3>2, <3>4, <4>4 DEF Step
    <3>. QED BY <3>3, <3>4
  <2>. HIDE DEF F
  <2>3. ASSUME NEW R \in SUBSET S PROVE V(R) = Step(p, q, base, g, R)
    <3>1. CASE R = {}
      BY <3>1 DEF Step
    <3>2. CASE R # {}
      <4>1. Rest(R) \in SUBSET S /\ Rest(R) # S
        BY <3>2, RestIsSmaller
      <4>2. g[Rest(R)] = F(Rest(R))
        <5>1. g[Rest(R)] = V(Rest(R))
          <6>. HIDE DEF V
          <6>. QED BY <4>1
        <5>. QED BY <2>2, <4>1, <5>1
      <4>. HIDE DEF g
      <4>. QED BY <3>2, <4>2 DEF Step
    <3>. QED BY <3>1, <3>2
  <2>4. g = [R \in SUBSET S |-> Step(p, q, base, g, R)]
    <3>. HIDE DEF V
    <3>. DEFINE h == [R \in SUBSET S |-> Step(p, q, base, g, R)]
    <3>1. g = h
      BY <2>3
    <3>. QED BY <3>1
  <2>. HIDE DEF g
  <2>5. IsFold(p, q, base, g, S)
    BY <2>4 DEF IsFold
  <2>. QED BY <2>5
<1>2. ASSUME NEW S, IsFiniteSet(S) PROVE HasFold(S)
  <2>. DEFINE T == {R \in SUBSET S : HasFold(R)}
  <2>1. \A R \in SUBSET S : IsFiniteSet(R)
    BY <1>2, FS_Subset
  <2>2. ASSUME NEW R \in SUBSET S, \A Q \in SUBSET R : Q # R => Q \in T PROVE R \in T
    BY <1>1, <2>1, <2>2
  <2>3. S \in T
    <3>. HIDE DEF T
    <3>. QED BY <1>2, <2>2, OverFiniteSets
  <2>. QED BY <2>3
<1>. QED BY <1>2

(* A fold over a finite set is one step and a fold over the rest.          *)
THEOREM Unfold ==
  ASSUME NEW p, NEW q, NEW base, NEW S, IsFiniteSet(S), Chooses(S)
  PROVE  Fold(p, q, base, S) =
           IF S = {} THEN base ELSE step(p, q, choose(S), Fold(p, q, base, Rest(S)))
<1>. DEFINE iter(R) == CHOOSE g : IsFold(p, q, base, g, R)
<1>1. ASSUME NEW R, R \subseteq S
      PROVE  IsFold(p, q, base, iter(R), R)
  <2>1. IsFiniteSet(R) /\ Chooses(R)
    BY <1>1, FS_Subset DEF Chooses
  <2>2. \E g : IsFold(p, q, base, g, R)
    BY <2>1, FoldExists DEF HasFold
  <2>. QED BY <2>2
<1>2. \A R : Fold(p, q, base, R) = iter(R)[R]
  BY DEF Fold, MapThenFoldSet, IsFold, Step, Rest
<1>. HIDE DEF iter
<1>3. S \subseteq S /\ Rest(S) \subseteq S
  BY DEF Rest
<1>4. iter(S)[S] = Step(p, q, base, iter(S), S)
  BY <1>1, <1>3, FoldAt
<1>5. iter(S)[Rest(S)] = iter(Rest(S))[Rest(S)]
  <2>1. Agree(Rest(S))
    BY <1>3, FS_Subset, FoldsAgree
  <2>2. IsFold(p, q, base, iter(S), S) /\ IsFold(p, q, base, iter(Rest(S)), Rest(S))
        /\ Rest(S) \subseteq Rest(S)
    BY <1>1, <1>3
  <2>. QED BY <1>3, <2>1, <2>2 DEF Agree
<1>. QED BY <1>2, <1>4, <1>5 DEF Step

----------------------------------------------------------------------------
(* Folds from the left.  The last step is that of the largest position.    *)

\* The choice that FoldLeft makes.
ChoosesLast == \A S : S # {} => choose(S) = CHOOSE x \in S : \A y \in S : x >= y

\* The fold over the positions 1 to n.
Left(p, q, base, n) == Fold(p, q, base, 1 .. n)

(* The largest of the first n positions is n. *)
LEMMA LastOfPositions ==
  ASSUME ChoosesLast, NEW n \in Nat
  PROVE  /\ Chooses(1 .. n)
         /\ n # 0 => choose(1 .. n) = n /\ Rest(1 .. n) = 1 .. n - 1
<1>1. ASSUME NEW R, R \subseteq 1 .. n, R # {} PROVE choose(R) \in R
  <2>. DEFINE T == {n - x : x \in R}
  <2>0. \A x \in R : n - x \in Nat
    BY <1>1
  <2>1. T \subseteq Nat /\ T # {}
    BY <1>1, <2>0
  <2>2. PICK t \in T : \A u \in T : t <= u
    <3>. HIDE DEF T
    <3>. QED BY <2>1, LeastElement
  <2>3. PICK x \in R : \A y \in R : x >= y
    <3>1. PICK x \in R : t = n - x
      BY <2>2
    <3>2. \A y \in R : n - x <= n - y
      BY <2>2, <3>1
    <3>. QED BY <1>1, <3>2
  <2>. QED BY <1>1, <2>3 DEF ChoosesLast
<1>2. ASSUME n # 0 PROVE choose(1 .. n) = n
  <2>1. n \in 1 .. n /\ \A y \in 1 .. n : n >= y
    BY <1>2
  <2>2. \A x \in 1 .. n : (\A y \in 1 .. n : x >= y) => x = n
    BY <2>1
  <2>. QED BY <2>1, <2>2 DEF ChoosesLast
<1>3. Chooses(1 .. n)
  BY <1>1 DEF Chooses
<1>4. n # 0 => Rest(1 .. n) = 1 .. n - 1
  BY <1>2 DEF Rest
<1>. QED BY <1>2, <1>3, <1>4

(* A fold over the first n positions ends with position n. *)
LEMMA LeftUnfold ==
  ASSUME ChoosesLast, NEW p, NEW q, NEW base, NEW n \in Nat
  PROVE  Left(p, q, base, n) = IF n = 0 THEN base
                               ELSE step(p, q, n, Left(p, q, base, n - 1))
<1>1. IsFiniteSet(1 .. n) /\ Chooses(1 .. n) /\ (1 .. n = {} <=> n = 0)
  BY FS_Interval, LastOfPositions
<1>2. Left(p, q, base, n) = IF n = 0 THEN base
                            ELSE step(p, q, choose(1 .. n), Fold(p, q, base, Rest(1 .. n)))
  <2>. DEFINE S == 1 .. n
  <2>1. IsFiniteSet(S) /\ Chooses(S) /\ (S = {} <=> n = 0)
    BY <1>1
  <2>. HIDE DEF S
  <2>2. Fold(p, q, base, S) = IF S = {} THEN base
                              ELSE step(p, q, choose(S), Fold(p, q, base, Rest(S)))
    BY <2>1, Unfold
  <2>3. Fold(p, q, base, S) = IF n = 0 THEN base
                              ELSE step(p, q, choose(S), Fold(p, q, base, Rest(S)))
    BY <2>1, <2>2
  <2>. QED BY <2>3 DEF Left, S
<1>. QED BY <1>2, LastOfPositions DEF Left

(* A fold over no position. *)
THEOREM LeftOfNone ==
  ASSUME ChoosesLast, NEW p, NEW q, NEW base
  PROVE  Left(p, q, base, 0) = base
BY LeftUnfold

(* A fold over one position more. *)
THEOREM LeftOfMore ==
  ASSUME ChoosesLast, NEW p, NEW q, NEW base, NEW n \in Nat
  PROVE  Left(p, q, base, n + 1) = step(p, q, n + 1, Left(p, q, base, n))
<1>1. n + 1 \in Nat /\ n + 1 # 0 /\ (n + 1) - 1 = n
  OBVIOUS
<1>. QED BY <1>1, LeftUnfold

\* Each of the first n steps preserves what is wanted.
Preserves(p, q, n) ==
  \A i \in 1 .. n : \A acc : Good(p, q, i - 1, acc) => Good(p, q, i, step(p, q, i, acc))

\* The induction hypothesis of LeftKeeps.
GoodAfter(n) ==
  \A p, q, base : Good(p, q, 0, base) /\ Preserves(p, q, n) => Good(p, q, n, Left(p, q, base, n))

(* One more step of a fold keeps what the steps so far have kept. *)
LEMMA OneMore ==
  ASSUME ChoosesLast, NEW m \in Nat, GoodAfter(m)
  PROVE  GoodAfter(m + 1)
<1>1. ASSUME NEW r, NEW s, NEW b
      PROVE  Left(r, s, b, m + 1) = step(r, s, m + 1, Left(r, s, b, m))
  BY LeftOfMore
<1>2. ASSUME NEW r, NEW s, NEW b, Good(r, s, 0, b), Preserves(r, s, m + 1)
      PROVE  Good(r, s, m + 1, Left(r, s, b, m + 1))
  <2>1. Good(r, s, m, Left(r, s, b, m))
    <3>1. \A i \in 1 .. m : i \in 1 .. m + 1
      OBVIOUS
    <3>. QED BY <1>2, <3>1 DEF GoodAfter, Preserves
  <2>2. m + 1 \in 1 .. m + 1 /\ (m + 1) - 1 = m
    OBVIOUS
  <2>3. Good(r, s, m + 1, step(r, s, m + 1, Left(r, s, b, m)))
    BY <1>2, <2>1, <2>2 DEF Preserves
  <2>. QED BY <1>1, <2>3
<1>. QED BY <1>2 DEF GoodAfter

(* What holds at the start and is preserved by every step holds of a fold. *)
THEOREM LeftKeeps ==
  ASSUME ChoosesLast, NEW p, NEW q, NEW base, NEW n \in Nat,
         Good(p, q, 0, base), Preserves(p, q, n)
  PROVE  Good(p, q, n, Left(p, q, base, n))
<1>1. GoodAfter(0)
  BY LeftOfNone DEF GoodAfter
<1>2. \A m \in Nat : GoodAfter(m) => GoodAfter(m + 1)
  BY OneMore
<1>3. \A m \in Nat : GoodAfter(m)
  <2>. DEFINE T == {m \in Nat : GoodAfter(m)}
  <2>1. 0 \in T /\ \A m \in Nat : m \in T => m + 1 \in T
    BY <1>1, <1>2
  <2>2. \A m \in Nat : m \in T
    <3>. HIDE DEF T
    <3>. QED BY <2>1, OverNaturals
  <2>. QED BY <2>2
<1>. QED BY <1>3 DEF GoodAfter

----------------------------------------------------------------------------
(* Sums of integers over finite sets: a fold whose step for x adds the     *)
(* value of x.  A value is a function of a parameter, so that sums that    *)
(* differ in it can be compared.                                           *)

Sum(p, S) == Fold(p, p, 0, S)
val(p, x) == step(p, p, x, 0)

\* The choice that MapThenSumSet makes.
Chosen(S)   == CHOOSE x \in S : TRUE
ChoosesSome == \A S : choose(S) = Chosen(S)

Without(S, x) == S \ {x}
With(S, x)    == S \union {x}
Plus(S, T)    == S \union T

\* The steps for S add integers.
Ints(p, S) ==
  \A x \in S : val(p, x) \in Int /\ \A acc \in Int : step(p, p, x, acc) = val(p, x) + acc

SumIsInt(S) == \A p : Ints(p, S) => Sum(p, S) \in Int

SumSplits(S) ==
  \A p : Ints(p, S) => \A x \in S : Sum(p, S) = Sum(p, Without(S, x)) + val(p, x)

SumsAgree(S) ==
  \A p, q : Ints(p, S) /\ Ints(q, S) /\ (\A x \in S : val(p, x) = val(q, x)) => Sum(p, S) = Sum(q, S)

SumsUnite(S) ==
  \A p, T : IsFiniteSet(T) /\ Ints(p, S) /\ Ints(p, T) /\ (\A x \in S : x \notin T)
            => Sum(p, Plus(S, T)) = Sum(p, S) + Sum(p, T)

SumIsProduct(S) ==
  \A p : \A k \in Int : Ints(p, S) /\ (\A x \in S : val(p, x) = k)
                    => Sum(p, S) = k * Cardinality(S)

(* The sum over a finite set is the step of one element from the sum over  *)
(* the rest.                                                               *)
LEMMA SumStep ==
  ASSUME ChoosesSome, NEW p, NEW S, IsFiniteSet(S)
  PROVE  /\ S = {} => Sum(p, S) = 0
         /\ S # {} => /\ Chosen(S) \in S
                      /\ Sum(p, S) = step(p, p, Chosen(S), Sum(p, Without(S, Chosen(S))))
<1>1. \A R : R # {} => Chosen(R) \in R
  BY DEF Chosen
<1>2. Chooses(S) /\ choose(S) = Chosen(S) /\ Rest(S) = Without(S, Chosen(S))
  BY <1>1 DEF Chooses, ChoosesSome, Rest, Without
<1>3. Fold(p, p, 0, S) = IF S = {} THEN 0 ELSE step(p, p, choose(S), Fold(p, p, 0, Rest(S)))
  BY <1>2, Unfold
<1>. QED BY <1>1, <1>2, <1>3 DEF Sum

\* The empty sum.
LEMMA SumEmpty ==
  ASSUME ChoosesSome, NEW p, NEW S, \A x : x \notin S
  PROVE  Sum(p, S) = 0 /\ Cardinality(S) = 0
<1>1. S = {}
  OBVIOUS
<1>2. IsFiniteSet(S)
  BY <1>1, FS_EmptySet
<1>. QED BY <1>1, <1>2, SumStep, FS_EmptySet

\* A finite set without one of its elements is smaller.
LEMMA Smaller ==
  ASSUME NEW S, IsFiniteSet(S), NEW x \in S
  PROVE  /\ Without(S, x) \in SUBSET S /\ Without(S, x) # S
         /\ IsFiniteSet(Without(S, x))
         /\ Cardinality(S) \in Nat /\ Cardinality(Without(S, x)) = Cardinality(S) - 1
         /\ \A y : y \in Without(S, x) <=> y \in S /\ y # x
BY FS_RemoveElement, FS_CardinalityType DEF Without

(* A sum of integers is one. *)
THEOREM SumType ==
  ASSUME ChoosesSome
  PROVE  \A S : IsFiniteSet(S) => SumIsInt(S)
<1>1. ASSUME NEW S, IsFiniteSet(S), \A R \in SUBSET S : R # S => SumIsInt(R)
      PROVE  SumIsInt(S)
  <2>. SUFFICES ASSUME NEW p, Ints(p, S) PROVE Sum(p, S) \in Int
    BY DEF SumIsInt
  <2>1. CASE S = {}
    BY <2>1, SumEmpty
  <2>2. CASE S # {}
    <3>. DEFINE c == Chosen(S)
    <3>1. c \in S /\ Sum(p, S) = step(p, p, c, Sum(p, Without(S, c)))
      BY <1>1, <2>2, SumStep
    <3>. HIDE DEF c
    <3>2. Without(S, c) \in SUBSET S /\ Without(S, c) # S
      BY <1>1, <3>1, Smaller
    <3>3. SumIsInt(Without(S, c)) /\ Ints(p, Without(S, c))
      BY <1>1, <3>2 DEF Ints
    <3>4. Sum(p, Without(S, c)) \in Int /\ val(p, c) \in Int
      BY <3>1, <3>3 DEF SumIsInt, Ints
    <3>5. step(p, p, c, Sum(p, Without(S, c))) = val(p, c) + Sum(p, Without(S, c))
      BY <3>1, <3>4 DEF Ints
    <3>. QED BY <3>1, <3>4, <3>5
  <2>. QED BY <2>1, <2>2
<1>2. ASSUME NEW S, IsFiniteSet(S) PROVE SumIsInt(S)
  <2>. DEFINE T == {R \in SUBSET S : SumIsInt(R)}
  <2>1. \A R \in SUBSET S : IsFiniteSet(R)
    BY <1>2, FS_Subset
  <2>2. ASSUME NEW R \in SUBSET S, \A Q \in SUBSET R : Q # R => Q \in T PROVE R \in T
    BY <1>1, <2>1, <2>2
  <2>3. S \in T
    <3>. HIDE DEF T
    <3>. QED BY <1>2, <2>2, OverFiniteSets
  <2>. QED BY <2>3
<1>. QED BY <1>2

(* The sum over a finite set is the value of one element and the sum over  *)
(* the rest.                                                               *)
LEMMA SumUnfold ==
  ASSUME ChoosesSome, NEW p, NEW S, IsFiniteSet(S), Ints(p, S), S # {}
  PROVE  Chosen(S) \in S /\ Sum(p, S) = val(p, Chosen(S)) + Sum(p, Without(S, Chosen(S)))
<1>. DEFINE c == Chosen(S)
<1>1. c \in S /\ Sum(p, S) = step(p, p, c, Sum(p, Without(S, c)))
  BY SumStep
<1>. HIDE DEF c
<1>2. IsFiniteSet(Without(S, c)) /\ Ints(p, Without(S, c))
  BY <1>1, Smaller DEF Ints
<1>3. Sum(p, Without(S, c)) \in Int
  BY <1>2, SumType DEF SumIsInt
<1>4. step(p, p, c, Sum(p, Without(S, c))) = val(p, c) + Sum(p, Without(S, c))
  BY <1>1, <1>3 DEF Ints
<1>. QED BY <1>1, <1>4 DEF c

(* Any element can be taken out of a sum, not only the one that is chosen. *)
THEOREM SumSplit ==
  ASSUME ChoosesSome
  PROVE  \A S : IsFiniteSet(S) => SumSplits(S)
<1>1. ASSUME NEW S, IsFiniteSet(S), \A R \in SUBSET S : R # S => SumSplits(R)
      PROVE  SumSplits(S)
  <2>. SUFFICES ASSUME NEW p, Ints(p, S), NEW x \in S
                PROVE  Sum(p, S) = Sum(p, Without(S, x)) + val(p, x)
    BY DEF SumSplits
  <2>. DEFINE c == Chosen(S)
  <2>1. c \in S /\ Sum(p, S) = val(p, c) + Sum(p, Without(S, c))
    BY <1>1, SumUnfold
  <2>. HIDE DEF c
  <2>2. /\ Without(S, c) \in SUBSET S /\ Without(S, c) # S /\ IsFiniteSet(Without(S, c))
        /\ Without(S, x) \in SUBSET S /\ Without(S, x) # S /\ IsFiniteSet(Without(S, x))
    BY <1>1, <2>1, Smaller
  <2>3. Ints(p, Without(S, c)) /\ Ints(p, Without(S, x))
    BY <2>2 DEF Ints
  <2>4. /\ Sum(p, Without(S, c)) \in Int /\ Sum(p, Without(S, x)) \in Int
        /\ val(p, c) \in Int /\ val(p, x) \in Int
    BY <2>1, <2>2, <2>3, SumType DEF SumIsInt, Ints
  <2>5. CASE x = c
    BY <2>1, <2>4, <2>5
  <2>6. CASE x # c
    <3>. DEFINE T == Without(Without(S, c), x)
    <3>1. x \in Without(S, c) /\ c \in Without(S, x) /\ T = Without(Without(S, x), c)
      BY <2>1, <2>6 DEF Without
    <3>2. Sum(p, Without(S, c)) = Sum(p, T) + val(p, x)
      BY <1>1, <2>2, <2>3, <3>1 DEF SumSplits
    <3>3. Sum(p, Without(S, x)) = Sum(p, T) + val(p, c)
      BY <1>1, <2>2, <2>3, <3>1 DEF SumSplits
    <3>4. Sum(p, T) \in Int
      <4>1. IsFiniteSet(T) /\ Ints(p, T)
        BY <2>2, <2>3, <3>1, Smaller DEF Ints
      <4>. QED BY <4>1, SumType DEF SumIsInt
    <3>. HIDE DEF T
    <3>. QED BY <2>1, <2>4, <3>2, <3>3, <3>4
  <2>. QED BY <2>5, <2>6
<1>2. ASSUME NEW S, IsFiniteSet(S) PROVE SumSplits(S)
  <2>. DEFINE T == {R \in SUBSET S : SumSplits(R)}
  <2>1. \A R \in SUBSET S : IsFiniteSet(R)
    BY <1>2, FS_Subset
  <2>2. ASSUME NEW R \in SUBSET S, \A Q \in SUBSET R : Q # R => Q \in T PROVE R \in T
    BY <1>1, <2>1, <2>2
  <2>3. S \in T
    <3>. HIDE DEF T
    <3>. QED BY <1>2, <2>2, OverFiniteSets
  <2>. QED BY <2>3
<1>. QED BY <1>2

(* One element more. *)
THEOREM SumWith ==
  ASSUME ChoosesSome, NEW p, NEW S, IsFiniteSet(S), NEW x, x \notin S, Ints(p, With(S, x))
  PROVE  /\ IsFiniteSet(With(S, x)) /\ Ints(p, S)
         /\ Sum(p, S) \in Int
         /\ Sum(p, With(S, x)) = Sum(p, S) + val(p, x)
<1>1. IsFiniteSet(With(S, x))
  BY FS_AddElement DEF With
<1>2. Ints(p, S) /\ x \in With(S, x) /\ Without(With(S, x), x) = S
  BY DEF Ints, With, Without
<1>3. SumSplits(With(S, x)) /\ SumIsInt(S)
  BY <1>1, SumSplit, SumType
<1>. QED BY <1>1, <1>2, <1>3 DEF SumSplits, SumIsInt

(* Sums of the same values are the same. *)
THEOREM SumSame ==
  ASSUME ChoosesSome
  PROVE  \A S : IsFiniteSet(S) => SumsAgree(S)
<1>1. ASSUME NEW S, IsFiniteSet(S), \A R \in SUBSET S : R # S => SumsAgree(R)
      PROVE  SumsAgree(S)
  <2>. SUFFICES ASSUME NEW p, NEW q, Ints(p, S), Ints(q, S),
                       \A x \in S : val(p, x) = val(q, x)
                PROVE  Sum(p, S) = Sum(q, S)
    BY DEF SumsAgree
  <2>1. CASE S = {}
    BY <2>1, SumEmpty
  <2>2. CASE S # {}
    <3>. DEFINE c == Chosen(S)
    <3>1. /\ c \in S
          /\ Sum(p, S) = val(p, c) + Sum(p, Without(S, c))
          /\ Sum(q, S) = val(q, c) + Sum(q, Without(S, c))
      BY <1>1, <2>2, SumUnfold
    <3>. HIDE DEF c
    <3>2. Without(S, c) \in SUBSET S /\ Without(S, c) # S
      BY <1>1, <3>1, Smaller
    <3>3. Sum(p, Without(S, c)) = Sum(q, Without(S, c))
      BY <1>1, <3>2 DEF SumsAgree, Ints
    <3>. QED BY <3>1, <3>3
  <2>. QED BY <2>1, <2>2
<1>2. ASSUME NEW S, IsFiniteSet(S) PROVE SumsAgree(S)
  <2>. DEFINE T == {R \in SUBSET S : SumsAgree(R)}
  <2>1. \A R \in SUBSET S : IsFiniteSet(R)
    BY <1>2, FS_Subset
  <2>2. ASSUME NEW R \in SUBSET S, \A Q \in SUBSET R : Q # R => Q \in T PROVE R \in T
    BY <1>1, <2>1, <2>2
  <2>3. S \in T
    <3>. HIDE DEF T
    <3>. QED BY <1>2, <2>2, OverFiniteSets
  <2>. QED BY <2>3
<1>. QED BY <1>2

(* The sum over a disjoint union. *)
THEOREM SumUnion ==
  ASSUME ChoosesSome
  PROVE  \A S : IsFiniteSet(S) => SumsUnite(S)
<1>1. ASSUME NEW S, IsFiniteSet(S), \A R \in SUBSET S : R # S => SumsUnite(R)
      PROVE  SumsUnite(S)
  <2>. SUFFICES ASSUME NEW p, NEW T, IsFiniteSet(T), Ints(p, S), Ints(p, T), \A x \in S : x \notin T
                PROVE  Sum(p, Plus(S, T)) = Sum(p, S) + Sum(p, T)
    BY DEF SumsUnite
  <2>0. Sum(p, S) \in Int /\ Sum(p, T) \in Int
    BY <1>1, SumType DEF SumIsInt
  <2>1. CASE S = {}
    <3>1. Plus(S, T) = T
      BY <2>1 DEF Plus
    <3>. QED BY <2>0, <2>1, <3>1, SumEmpty
  <2>2. CASE S # {}
    <3>. DEFINE c == Chosen(S)
                R == Without(S, c)
    <3>1. c \in S
      BY <1>1, <2>2, SumUnfold
    <3>. HIDE DEF c
    <3>2. R \in SUBSET S /\ R # S /\ IsFiniteSet(R) /\ \A y : y \in R <=> y \in S /\ y # c
      BY <1>1, <3>1, Smaller
    <3>3. Plus(S, T) = With(Plus(R, T), c) /\ S = With(R, c) /\ c \notin Plus(R, T) /\ c \notin R
      BY <3>1, <3>2 DEF Plus, With
    <3>4. /\ IsFiniteSet(Plus(R, T)) /\ Ints(p, Plus(R, T)) /\ Ints(p, R) /\ val(p, c) \in Int
          /\ Ints(p, Plus(S, T))
      BY <3>1, <3>2, FS_Union DEF Plus, Ints
    <3>. HIDE DEF R
    <3>5. Sum(p, Plus(R, T)) = Sum(p, R) + Sum(p, T)
      BY <1>1, <3>2, <3>4 DEF SumsUnite
    <3>6. Sum(p, S) = Sum(p, R) + val(p, c) /\ Sum(p, R) \in Int
      BY <3>2, <3>3, <3>4, SumWith
    <3>7. Sum(p, Plus(S, T)) = Sum(p, Plus(R, T)) + val(p, c)
      BY <3>3, <3>4, SumWith
    <3>. QED BY <2>0, <3>4, <3>5, <3>6, <3>7
  <2>. QED BY <2>1, <2>2
<1>2. ASSUME NEW S, IsFiniteSet(S) PROVE SumsUnite(S)
  <2>. DEFINE T == {R \in SUBSET S : SumsUnite(R)}
  <2>1. \A R \in SUBSET S : IsFiniteSet(R)
    BY <1>2, FS_Subset
  <2>2. ASSUME NEW R \in SUBSET S, \A Q \in SUBSET R : Q # R => Q \in T PROVE R \in T
    BY <1>1, <2>1, <2>2
  <2>3. S \in T
    <3>. HIDE DEF T
    <3>. QED BY <1>2, <2>2, OverFiniteSets
  <2>. QED BY <2>3
<1>. QED BY <1>2

(* The sum of a value that is the same everywhere. *)
THEOREM SumConstant ==
  ASSUME ChoosesSome
  PROVE  \A S : IsFiniteSet(S) => SumIsProduct(S)
<1>1. ASSUME NEW S, IsFiniteSet(S), \A R \in SUBSET S : R # S => SumIsProduct(R)
      PROVE  SumIsProduct(S)
  <2>. SUFFICES ASSUME NEW p, NEW k \in Int, Ints(p, S), \A x \in S : val(p, x) = k
                PROVE  Sum(p, S) = k * Cardinality(S)
    BY DEF SumIsProduct
  <2>1. CASE S = {}
    BY <2>1, SumEmpty
  <2>2. CASE S # {}
    <3>. DEFINE c == Chosen(S)
                n == Cardinality(S)
    <3>1. c \in S /\ Sum(p, S) = val(p, c) + Sum(p, Without(S, c))
      BY <1>1, <2>2, SumUnfold
    <3>. HIDE DEF c
    <3>2. /\ Without(S, c) \in SUBSET S /\ Without(S, c) # S
          /\ n \in Nat /\ Cardinality(Without(S, c)) = n - 1
      BY <1>1, <3>1, Smaller
    <3>3. Sum(p, Without(S, c)) = k * (n - 1)
      BY <1>1, <3>2 DEF SumIsProduct, Ints
    <3>. HIDE DEF n
    <3>4. k + k * (n - 1) = k * n
      BY <3>2
    <3>. QED BY <3>1, <3>3, <3>4 DEF n
  <2>. QED BY <2>1, <2>2
<1>2. ASSUME NEW S, IsFiniteSet(S) PROVE SumIsProduct(S)
  <2>. DEFINE T == {R \in SUBSET S : SumIsProduct(R)}
  <2>1. \A R \in SUBSET S : IsFiniteSet(R)
    BY <1>2, FS_Subset
  <2>2. ASSUME NEW R \in SUBSET S, \A Q \in SUBSET R : Q # R => Q \in T PROVE R \in T
    BY <1>1, <2>1, <2>2
  <2>3. S \in T
    <3>. HIDE DEF T
    <3>. QED BY <1>2, <2>2, OverFiniteSets
  <2>. QED BY <2>3
<1>. QED BY <1>2
----------------------------------------------------------------------------
(* Walks around a table whose size is a power of two. *)

\* The powers of two up to lg are what they are called.
Doubles(lg) == 2 ^ 0 = 1 /\ \A n \in 0 .. lg : 2 ^ n \in Nat \ {0} /\ 2 ^ (n + 1) = 2 * 2 ^ n

\* The remainder is the only one.
LEMMA Remainder ==
  ASSUME NEW n \in Nat \ {0}, NEW c \in 0 .. n - 1, NEW m \in Int, NEW x \in Int, x = c + n * m
  PROVE  x % n = c
<1>. DEFINE r == x % n
            q == x \div n
<1>1. r \in 0 .. n - 1 /\ q \in Int /\ x = n * q + r
  OBVIOUS
<1>. HIDE DEF r, q
<1>2. n * (q - m) = c - r
  BY <1>1
<1>3. q - m = 0
  <2>1. q - m >= 1 => n * (q - m) >= n
    BY <1>1
  <2>2. q - m <= -1 => n * (q - m) <= - n
    BY <1>1
  <2>. QED BY <1>1, <1>2, <2>1, <2>2
<1>. QED BY <1>1, <1>3 DEF r

\* Turn i of a walk from a with the odd stride 2 * h + 1 is at c, modulo n.
At(a, h, i, c, n) == \E m \in Int : a + i * (2 * h + 1) = c + n * m

\* One more bit: it is the turn that is right modulo n, or the one n later.
LEMMA Twice ==
  ASSUME NEW n \in Int, NEW a \in Int, NEW c \in Int, NEW i \in Int, NEW h \in Int,
         At(a, h, i, c, n)
  PROVE  At(a, h, i, c, 2 * n) \/ At(a, h, i + n, c, 2 * n)
<1>0. PICK m \in Int : a + i * (2 * h + 1) = c + n * m
  BY DEF At
<1>1. PICK k \in Int : m = 2 * k \/ m = 2 * k + 1
  <2>1. m = 2 * (m \div 2) \/ m = 2 * (m \div 2) + 1
    OBVIOUS
  <2>. QED BY <2>1
<1>2. CASE m = 2 * k
  BY <1>0, <1>2 DEF At
<1>3. CASE m = 2 * k + 1
  <2>1. a + (i + n) * (2 * h + 1) = c + (2 * n) * (k + h + 1)
    BY <1>0, <1>3
  <2>2. k + h + 1 \in Int
    OBVIOUS
  <2>. QED BY <2>1, <2>2 DEF At
<1>. QED BY <1>1, <1>2, <1>3

\* An odd number has a multiple of every residue modulo a power of two.
LEMMA OddStrideReaches ==
  ASSUME NEW lg \in Nat, Doubles(lg), NEW a \in Int, NEW c \in Int, NEW h \in Int
  PROVE  \E i \in 0 .. 2 ^ lg - 1 : At(a, h, i, c, 2 ^ lg)
<1>. DEFINE T == {l \in Nat : l <= lg => \E i \in 0 .. 2 ^ l - 1 : At(a, h, i, c, 2 ^ l)}
<1>1. 0 \in T
  <2>1. 2 ^ 0 = 1
    BY DEF Doubles
  <2>2. 0 \in 0 .. 2 ^ 0 - 1 /\ a - c \in Int /\ a + 0 * (2 * h + 1) = c + 2 ^ 0 * (a - c)
    BY <2>1
  <2>3. At(a, h, 0, c, 2 ^ 0)
    BY <2>2 DEF At
  <2>. QED BY <2>2, <2>3
<1>2. ASSUME NEW l \in Nat, l \in T PROVE l + 1 \in T
  <2>. SUFFICES ASSUME l + 1 <= lg
                PROVE  \E i \in 0 .. 2 ^ (l + 1) - 1 : At(a, h, i, c, 2 ^ (l + 1))
    OBVIOUS
  <2>. DEFINE n == 2 ^ l
  <2>1. n \in Nat \ {0} /\ 2 ^ (l + 1) = 2 * n
    BY DEF Doubles
  <2>2. PICK i \in 0 .. n - 1 : At(a, h, i, c, n)
    BY <1>2
  <2>. HIDE DEF n
  <2>3. i \in 0 .. 2 * n - 1 /\ i + n \in 0 .. 2 * n - 1 /\ i \in Int /\ n \in Int
    BY <2>1, <2>2
  <2>4. At(a, h, i, c, 2 * n) \/ At(a, h, i + n, c, 2 * n)
    BY <2>2, <2>3, Twice
  <2>. QED BY <2>1, <2>3, <2>4
<1>. HIDE DEF T
<1>3. lg \in T
  BY <1>1, <1>2, OverNaturals
<1>. QED BY <1>3 DEF T
=============================================================================

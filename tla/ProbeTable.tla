----------------------------- MODULE ProbeTable -----------------------------
(***************************************************************************)
(* The open-addressing search that AuxHashMap::find and the find of        *)
(* CouponHashSet share: a table of 2^lg cells, a start cell taken from the *)
(* low bits of the key, an odd stride taken from the bits above them, and  *)
(* a walk that ends at an empty cell, at a matching one, or, when it is    *)
(* back at its start, in a throw.                                          *)
(*                                                                         *)
(* A cell is EMPTY or a pair <<key, value>>.  Cells are numbered from 0.   *)
(***************************************************************************)
EXTENDS Integers, Sequences, FiniteSets, SequencesExt

EMPTY == <<>>

\* The powers of two that sizes up to lg are computed with.
Powers(lg) == 2 ^ 0 = 1 /\ \A n \in 0 .. lg : 2 ^ n \in Nat \ {0} /\ 2 ^ (n + 1) = 2 * 2 ^ n

Cells(lg) == 0 .. 2 ^ lg - 1

EmptyTable(lg) == [c \in Cells(lg) |-> EMPTY]

\* (key >> lg) | 1.  Slip: an even stride is let through.
strideAsIs(key, lg) == IF key \div 2 ^ lg = 0 THEN 1 ELSE key \div 2 ^ lg

stride(key, lg) == LET q == key \div 2 ^ lg IN IF q % 2 = 0 THEN q + 1 ELSE q

\* The cell looked at in turn i of the do-while loop.
probe(key, lg, i) == ((key % (2 ^ lg)) + i * stride(key, lg)) % (2 ^ lg)

\* The turns at which the walk of a search may end, given what matches.
Stops(arr, lg, key, Matches(_)) ==
  {i \in 0 .. 2 ^ lg - 1 :
     LET cell == arr[probe(key, lg, i)] IN cell = EMPTY \/ Matches(cell)}

\* "Key not found and no empty slots!"
findThrows(arr, lg, key, Matches(_)) == Stops(arr, lg, key, Matches) = {}

\* The cell of the first stop; the sign of the code's result is whether that
\* cell is EMPTY.
findCell(arr, lg, key, Matches(_)) ==
  LET stops == Stops(arr, lg, key, Matches)
  IN  probe(key, lg, CHOOSE i \in stops : \A j \in stops : i <= j)

\* The occupied cells of a sequence of them, in order.
valid(cells) ==
  FoldLeft(LAMBDA found, cell : IF cell = EMPTY THEN found ELSE Append(found, cell),
           <<>>, cells)

\* ... and of an array, as IntArrayPairIterator::nextValid delivers them and as
\* growing scans them.
Entries(arr, lg) == valid([i \in 1 .. 2 ^ lg |-> arr[i - 1]])

\* More than three quarters of the cells are in use.
overloaded(count, lg) == 4 * count > 3 * 2 ^ lg

\* The log of the smallest table that holds count entries at that load.
lgFor(count) == CHOOSE l \in 0 .. count + 1 :
                  ~ overloaded(count, l) /\ \A k \in 0 .. l - 1 : overloaded(count, k)
=============================================================================

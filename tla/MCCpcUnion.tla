---------------------------- MODULE MCCpcUnion ----------------------------
(* Sketches of 2, 4 and 8 rows and five columns with a window of two: for  *)
(* each size, prefixes of two orders of the coupons (columns as they come, *)
(* and the rare columns first) that end in every flavor.                   *)
EXTENDS CpcUnion

MCPermutation == [phase \in 0 .. 15 |-> [c \in 0 .. MaxOffset - 1 |-> (c + phase + 1) % MaxOffset]]

\* A complete code of four bytes and one of five column deltas.  The tables of
\* the phases give the codewords to the bytes in different orders.
Codewords == <<<<0>>, <<1, 0>>, <<1, 1, 0>>, <<1, 1, 1>>>>
ColumnCodewords == <<<<0>>, <<1, 0, 0>>, <<1, 0, 1>>, <<1, 1, 0>>,
                     <<1, 1, 1>>>>
MCColumnTable == [x \in 0 .. 4 |-> ColumnCodewords[x + 1]]
NumberOf(byte) == MapThenSumSet(LAMBDA c : 2 ^ c, byte)
MCByteTables ==
  [phase \in 0 .. 21 |-> [byte \in SUBSET (0 .. WindowWidth - 1) |->
                           Codewords[1 + ((NumberOf(byte) + phase) % 2 ^ WindowWidth)]]]

\* The coupons column by column, rows in order; and from the last one back.
ByColumn(lgK) == [i \in 1 .. Columns * 2 ^ lgK |-> <<(i - 1) % 2 ^ lgK, (i - 1) \div 2 ^ lgK>>]
Backwards(lgK) == Reverse(ByColumn(lgK))

MCSources ==
     {<<1, SubSeq(ByColumn(1), 1, n)>>  : n \in {0, 1, 2, 4, 7}}
  \union {<<1, SubSeq(Backwards(1), 1, n)>> : n \in {1, 3, 6}}
  \union {<<2, SubSeq(ByColumn(2), 1, n)>>  : n \in {0, 2, 5, 9, 13}}
  \union {<<2, SubSeq(Backwards(2), 1, n)>> : n \in {1, 2, 4, 11}}
  \union {<<3, SubSeq(ByColumn(3), 1, n)>>  : n \in {3, 8, 22}}
  \union {<<3, SubSeq(Backwards(3), 1, n)>> : n \in {4, 5, 21}}
=============================================================================

---------------------------- MODULE MCCpcSketch ----------------------------
(* Two rows of six columns with a window of three.  SPARSE ends at 1.5     *)
(* coupons, as for the smallest real K; 2 are HYBRID, 3 and 4 PINNED, and  *)
(* the window slides at 5, 7 and 9.  The slide due at 11 is one too far.   *)
EXTENDS CpcSketch

MCPermutation == [phase \in 0 .. 15 |-> [c \in 0 .. MaxOffset - 1 |-> (c + phase + 1) % MaxOffset]]

\* A complete code of eight bytes and one of six column deltas.  The tables of
\* the phases give the codewords to the bytes in different orders.
Codewords == <<<<0>>, <<1, 0, 0>>, <<1, 0, 1, 0>>, <<1, 0, 1, 1>>,
               <<1, 1, 0, 0>>, <<1, 1, 0, 1>>, <<1, 1, 1, 0>>, <<1, 1, 1, 1>>>>
ColumnCodewords == <<<<0>>, <<1, 0>>, <<1, 1, 0, 0>>, <<1, 1, 0, 1>>,
                     <<1, 1, 1, 0>>, <<1, 1, 1, 1>>>>
MCColumnTable == [x \in 0 .. 5 |-> ColumnCodewords[x + 1]]
NumberOf(byte) == MapThenSumSet(LAMBDA c : 2 ^ c, byte)
MCByteTables ==
  [phase \in 0 .. 21 |-> [byte \in SUBSET (0 .. WindowWidth - 1) |->
                           Codewords[1 + ((NumberOf(byte) + phase) % 2 ^ WindowWidth)]]]
=============================================================================

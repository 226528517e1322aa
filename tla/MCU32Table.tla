--------------------------- MODULE MCU32Table ---------------------------
(* Items of four bits that crowd around both ends of the table, so that    *)
(* clusters wrap around; nine of them grow a table of 4 cells to 16.       *)
EXTENDS U32Table

MCItems == {0, 1, 2, 5, 8, 12, 13, 14, 15}
=============================================================================

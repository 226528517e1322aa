----------------------------- MODULE MCKllSketch -----------------------------
(* Levels of two items at least, k = 2 (every level alike) and k = 3 (the top
   level wider): a buffer is full after two or three items, a second and a third
   level appear within MaxN, and a merge empties level zero. *)
EXTENDS KllSketch

MCValues == 1..2
MCMaxN == <<8, 3>>
MCMaxNEqual == <<6, 6>>

=============================================================================

---------------------------- MODULE MCHllSketch ----------------------------
(* A list of 2 coupons, sets of 4 and, for lgConfigK = 5, 8 cells, and a   *)
(* lgConfigK of 2 that has no set mode.  Seven of the eight coupons fill   *)
(* the larger set.  Their keys collide in the tables, in the slots and in  *)
(* two cases completely; at lgConfigK 2 they fill every slot, so that      *)
(* curMin grows.  With an AUX_TOKEN of 2 the larger values are exceptions. *)
EXTENDS HllSketch

MCCoupons == {<<0, 1>>, <<0, 2>>, <<4, 1>>, <<8, 3>>, <<14, 1>>, <<33, 63>>, <<33, 1>>, <<43, 42>>}
=============================================================================

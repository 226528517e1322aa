----------------------------- MODULE MCHllUnion -----------------------------
(* lgConfigK 2 (no set mode), 3 and 4; lists of 2, sets of 4 and 8 cells. *)
(* Four coupons make an array; their keys collide at the smaller lgConfigK. *)
EXTENDS HllUnion

MCCoupons == {<<0, 1>>, <<4, 2>>, <<1, 1>>, <<13, 2>>}
=============================================================================

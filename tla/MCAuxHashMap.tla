--------------------------- MODULE MCAuxHashMap ---------------------------
(* Five slots of a 32-slot sketch that collide in the tables of 2, 4 and 8 *)
(* cells, some with the same stride and some not.  The first table has two *)
(* cells, half of the smallest in LG_AUX_ARR_INTS, so that two doublings   *)
(* fit.                                                                    *)
EXTENDS AuxHashMap

MCSlots == {0, 4, 8, 12, 25}
=============================================================================

---------------------------- MODULE MCHll4Array ----------------------------
(* Four slots, values to 6 and a 2-bit nibble: exceptions appear from       *)
(* curMin + 3 on, and curMin can climb past several of them.                *)
EXTENDS Hll4Array

MCSlots == 0 .. 3
=============================================================================

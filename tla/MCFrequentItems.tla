--------------------------- MODULE MCFrequentItems ---------------------------
(* A sketch that starts with 4 cells, half of which may be active, and may *)
(* grow to 8: a third item makes it grow or purge, a fifth one purge.  The *)
(* items collide at both sizes and one of them has the last cell as its    *)
(* home, so that clusters wrap around.  (With the load factor of the code, *)
(* 3/4, a table below 8 cells has no cell to spare.)  Of the streams that  *)
(* made the sketches to be merged, some are short, one leaves a sketch     *)
(* after a purge, one a sketch that a purge has emptied.                   *)
EXTENDS FrequentItemsSketch

MCKeys    == 1 .. 5
MCHash    == <<5, 6, 14, 7, 3>>
MCStreams ==
  {<<>>, << <<1, 1>> >>, << <<2, 1>>, <<4, 2>> >>,
   << <<1, 1>>, <<2, 1>>, <<3, 1>> >>,
   << <<1, 1>>, <<2, 1>>, <<3, 2>> >>,
   << <<1, 1>>, <<2, 1>>, <<3, 2>>, <<4, 1>>, <<5, 2>> >>}
=============================================================================

--------------------------- MODULE MCBagzIterator ---------------------------
(***************************************************************************)
(* Instances of BagzIterator for TLC: sizes and read_ahead chosen so that  *)
(* streams of no, a partial, one exact and several batches all occur, and  *)
(* readers shorter than read_ahead.                                        *)
(***************************************************************************)
EXTENDS BagzIterator

MCSizes == {0, 1, 2, 3, 5}

MCReadAheads == 1..3
=============================================================================

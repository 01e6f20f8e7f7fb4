---------------------------- MODULE MCBagzReader ----------------------------
(***************************************************************************)
(* Instances of BagzReader for TLC: shards of different sizes, empty ones  *)
(* included; for interleaved shards, balanced and unbalanced ones.         *)
(***************************************************************************)
EXTENDS BagzReader

MCShardSizes ==
  {<<>>, <<0>>, <<2, 0, 1>>, <<2, 1, 1>>, <<2, 2, 1>>, <<0, 1, 3>>, <<3, 1>>,
   <<1, 2>>}

\* Lists of indices with duplicates, in any order, one of them out of range.
MCIndexLists == {<<i>> : i \in 0..5} \cup {<<2, 0, 2>>, <<1, 0>>, <<3, 4, 0, 3>>}

MCSteps == -2..2
=============================================================================

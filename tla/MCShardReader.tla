--------------------------- MODULE MCShardReader ----------------------------
(***************************************************************************)
(* Instances of ShardReader for TLC: every limits file of up to three      *)
(* limits, the malformed ones included, beside records files that are      *)
(* empty, too short and long enough for them.                              *)
(***************************************************************************)
EXTENDS ShardReader, SequencesExt

MCLimitsFiles == SeqOf(0..3, 3)

\* Files of three well-formed records, the second one empty in one of them.
MCWellFormed == {<<1, 2, 3>>, <<1, 1, 3>>}

MCUndecodables == {{}, {0}, {1}, {2}, {0, 2}}
=============================================================================

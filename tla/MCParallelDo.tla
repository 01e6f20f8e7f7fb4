---------------------------- MODULE MCParallelDo ----------------------------
(***************************************************************************)
(* ParallelDo with a size_t of MaxSize + 1 values, so that the largest     *)
(* num_tasks fill its range and the counter would wrap without the clamp.  *)
(***************************************************************************)
EXTENDS ParallelDo

MCNumTasks == 0..MaxSize
MCMaxParallelisms == -1..(MaxSize \div 2)
=============================================================================

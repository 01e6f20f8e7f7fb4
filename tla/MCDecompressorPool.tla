------------------------- MODULE MCDecompressorPool -------------------------
(* Instances of DecompressorPool: symmetric threads. *)
EXTENDS DecompressorPool, TLC

ThreadSymmetry == Permutations(Threads)
=============================================================================

----------------------------- MODULE MCBufCache -----------------------------
(* Instances of BufCache for TLC. *)
EXTENDS BufCache, TLC

Symmetry == Permutations(Threads) \cup Permutations(Blocks \ (LogBlocks \cup Indirect))
=============================================================================

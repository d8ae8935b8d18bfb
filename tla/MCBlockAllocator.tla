-------------------------- MODULE MCBlockAllocator --------------------------
(* Model-checking instance of BlockAllocator on its own.                   *)
EXTENDS BlockAllocator, TLC

ThreadSymmetry == Permutations(AThread)
=============================================================================

----------------------------- MODULE MCSpinlock -----------------------------
(* Model-checking instances of Spinlock.                                   *)
EXTENDS Spinlock, TLC

ThreadSymmetry == Permutations(Thread)
=============================================================================

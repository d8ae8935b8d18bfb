------------------------------ MODULE MCCoSche ------------------------------
(* Model-checking instance of CoSche on its own.                           *)
EXTENDS CoSche, TLC

CoroSymmetry == Permutations(Coro)
=============================================================================

------------------------------ MODULE MCReactor ------------------------------
(* Model-checking instance of Reactor: two interchangeable slots.          *)
EXTENDS Reactor, TLC

SlotSymmetry == Permutations(Socket)
=============================================================================

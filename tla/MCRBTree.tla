------------------------------ MODULE MCRBTree ------------------------------
(* Model-checking instance of RBTree by itself.                            *)
EXTENDS RBTree
=============================================================================

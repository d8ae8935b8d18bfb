---------------------------- MODULE MCRecvStream ----------------------------
(* Model-checking instance of RecvStream by itself.                        *)
EXTENDS RecvStream
=============================================================================

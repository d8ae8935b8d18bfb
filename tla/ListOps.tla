------------------------------ MODULE ListOps ------------------------------
(***************************************************************************)
(* What the loops leave of a list that they take apart, sums and joins;    *)
(* written as recursive functions, about which the proofs can reason.      *)
(***************************************************************************)
EXTENDS Integers, Sequences

\* s is popped from its head; what is not in W is pushed back.
Without(s, W) ==
  LET kept[n \in 0 .. Len(s)] ==
        IF n = 0 THEN <<>>
        ELSE IF s[n] \in W THEN kept[n - 1] ELSE Append(kept[n - 1], s[n])
  IN  kept[Len(s)]

\* v[1] + ... + v[n].
Total(v, n) ==
  LET sum[k \in 0 .. n] == IF k = 0 THEN 0 ELSE sum[k - 1] + v[k]
  IN  sum[n]

\* v[1] to v[n], one after the other.
Joined(v, n) ==
  LET all[k \in 0 .. n] == IF k = 0 THEN <<>> ELSE all[k - 1] \o v[k]
  IN  all[n]
=============================================================================

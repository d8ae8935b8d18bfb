---------------------------- MODULE OrderedMap ----------------------------
(***************************************************************************)
(* What map.h promises of a map, as the set of its keys (a value goes      *)
(* wherever its key goes) and the size it reports.                         *)
(***************************************************************************)
EXTENDS Integers

CONSTANT Key

VARIABLES keys, size

\* A key is in the map at most once: inserting it again changes nothing.
Insert(k) ==
  /\ k \notin keys
  /\ keys' = keys \cup {k} /\ size' = size + 1

Remove(k) ==
  /\ k \in keys
  /\ keys' = keys \ {k} /\ size' = size - 1

Next == \E k \in Key : Insert(k) \/ Remove(k)

Spec == keys = {} /\ size = 0 /\ [][Next]_<<keys, size>>
=============================================================================

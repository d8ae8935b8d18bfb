------------------------------ MODULE HashMap ------------------------------
(***************************************************************************)
(* hash_map.c: open addressing with linear probing and tombstones.  Values *)
(* travel with keys.                                                       *)
(***************************************************************************)
EXTENDS Integers, FiniteSets

CONSTANTS
  hash_function,  \* the hash code of every key: keys are its domain
  Slots,          \* the slot_size the map is created with
  MaxSlots        \* bound, for the 0x80000000 of hash_map_insert

ASSUME HashAssumption ==
  /\ \A k \in DOMAIN hash_function : hash_function[k] \in Nat
  /\ Slots \in Nat \ {0} /\ MaxSlots \in Nat

VARIABLES
  hm,             \* the map: items by slot, size, expand_size
  twice           \* observer: a key that the map held was stored again

hashVars == <<hm, twice>>

HKey == DOMAIN hash_function
EmptyItem == [flag |-> "EMPTY", key |-> 0]      \* calloc

slot_size(h) == Cardinality(DOMAIN h.items)
calloc(n) == [i \in 0 .. n - 1 |-> EmptyItem]

hash_map_create(n) == [items |-> calloc(n), size |-> 0, expand_size |-> n - n \div 4]

HashInit == hm = hash_map_create(Slots) /\ twice = FALSE

\* The first of the given slots on the probe path of key, or -1.
Probe(items, key, stops) ==
  LET n    == Cardinality(DOMAIN items)
      at   == [i \in 0 .. n - 1 |-> (hash_function[key] + i) % n]
      hits == {i \in 0 .. n - 1 : at[i] \in stops}
  IN  IF hits = {} THEN -1 ELSE at[CHOOSE i \in hits : \A j \in hits : i <= j]

Flagged(items, flags) == {s \in DOMAIN items : items[s].flag \in flags}
Holding(items, key) == {s \in DOMAIN items : items[s].key = key}

\* Where _hash_map_insert puts key, or -1: it is there already, or no room.
insert_slot(items, key) ==
  LET s == Probe(items, key,
                 Flagged(items, {"EMPTY", "DELETE"}) \cup Holding(items, key))
  IN  IF s # -1 /\ items[s].flag # "USED" THEN s ELSE -1

hash_map_insert0(items, key) ==
  LET s == insert_slot(items, key)
  IN  IF s = -1 THEN items
      ELSE [items EXCEPT ![s] = [flag |-> "USED", key |-> key]]

\* The old slots are inserted again in order; a failed calloc changes nothing.
hash_map_expand(h) ==
  LET n  == slot_size(h)
      re[i \in 0 .. n] ==
        IF i = 0 THEN calloc(2 * n)
        ELSE LET e == h.items[i - 1]
                 done == re[i - 1]
             IN  IF e.flag = "USED" THEN hash_map_insert0(done, e.key) ELSE done
  IN  [h EXCEPT !.items = re[n], !.expand_size = 2 * n - (2 * n) \div 4]

\* Mutant: the tombstone of another key ends the search.
find_to_tombstone(h, key) ==
  LET s == Probe(h.items, key,
                 Flagged(h.items, {"EMPTY", "DELETE"}) \cup Holding(h.items, key))
  IN  IF s # -1 /\ h.items[s].flag = "USED" THEN s ELSE -1

\* _hash_map_find: the slot of key, or -1.
hash_map_find(h, key) ==
  LET s == Probe(h.items, key, Flagged(h.items, {"EMPTY"}) \cup Holding(h.items, key))
  IN  IF s # -1 /\ h.items[s].flag = "USED" THEN s ELSE -1

\* A key that is there already is refused when the scan meets it, and stored a
\* second time when the scan meets a tombstone first.
hash_map_insert(key) ==
  \E room \in BOOLEAN :
    LET h == IF /\ slot_size(hm) < MaxSlots
                /\ hm.size >= hm.expand_size /\ room
             THEN hash_map_expand(hm) ELSE hm
    IN  \/ /\ h.size >= slot_size(h) \/ insert_slot(h.items, key) = -1
           /\ hm' = h
           /\ UNCHANGED twice
        \/ /\ h.size < slot_size(h) /\ insert_slot(h.items, key) # -1
           /\ hm' = [h EXCEPT !.items = hash_map_insert0(@, key), !.size = @ + 1]
           /\ twice' = (twice \/ hash_map_find(h, key) # -1)

\* hash_map_erase, and what hash_map_remove does with the item it finds.
hash_map_erase(h, slot) ==
  [h EXCEPT !.items[slot].flag = "DELETE", !.size = @ - 1]

hash_map_remove(key) ==
  /\ hm' = IF hash_map_find(hm, key) = -1 THEN hm
           ELSE hash_map_erase(hm, hash_map_find(hm, key))
  /\ UNCHANGED twice

HashNext == \E key \in HKey : hash_map_insert(key) \/ hash_map_remove(key)

HashSpec == HashInit /\ [][HashNext]_hashVars

-----------------------------------------------------------------------------
(* Properties.                                                             *)

found == {k \in HKey : hash_map_find(hm, k) # -1}

AsMap == INSTANCE OrderedMap WITH Key <- HKey, size <- hm.size, keys <- found

\* The hash map does what is promised of a map: a key is found from the call that
\* inserts it to the call that removes it, a refused insertion changes no key, and
\* size counts the keys.  The one exception: after a key was stored a second time
\* nothing is promised, and that takes a deleted slot.
HashRefined ==
  /\ found = {} /\ hm.size = 0
  /\ [][UNCHANGED hm \/ twice' \/ AsMap!Next]_<<found, hm.size>>
  /\ [][Flagged(hm.items, {"DELETE"}) # {}]_twice
=============================================================================

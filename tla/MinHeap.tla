------------------------------ MODULE MinHeap ------------------------------
(***************************************************************************)
(* The binary heap of coro/minheap.c.  Positions start at 1, as in data[]; *)
(* size is the length of data.  less compares ranks; the user changes the  *)
(* rank of an element and then calls minheap_change.                       *)
(*                                                                         *)
(* Places are allocated for positions 0 .. max_size - 1, and the last      *)
(* insertion writes to position max_size; minheap_remove copies to         *)
(* positions from 1 on of a back[] that has room for one less.  Either     *)
(* write goes to the slack of the allocation, and nothing happens, or to   *)
(* memory in use, and the model stops.                                     *)
(***************************************************************************)
EXTENDS Integers, Sequences, ListOps

CONSTANTS
  Ele, MaxRank,
  max_size      \* what the heap is created with

ASSUME HeapAssumption == max_size \in Nat

VARIABLES
  heap,         \* data: the sequence of elements, and the index in each
  rank,
  overrun       \* memory that is not the heap's was written

hvars == <<heap, rank, overrun>>

minheap_create == [data |-> <<>>, index |-> [e \in Ele |-> 0]]

HeapInit == heap = minheap_create /\ rank \in [Ele -> 1 .. MaxRank] /\ overrun = FALSE

size(m) == Len(m.data)
less(r, e, f) == r[e] < r[f]

\* Mutant: only one of the two elements learns its new position.
swap_half(m, i, j) ==
  [data |-> [m.data EXCEPT ![i] = m.data[j], ![j] = m.data[i]],
   index |-> [m.index EXCEPT ![m.data[j]] = i]]

swap(m, i, j) ==
  [data |-> [m.data EXCEPT ![i] = m.data[j], ![j] = m.data[i]],
   index |-> [m.index EXCEPT ![m.data[j]] = i, ![m.data[i]] = j]]

\* One round of up: the element at s.at goes to its parent's place, or stays.
up_step(r, s) ==
  LET p == s.at \div 2
  IN  IF p # 0 /\ less(r, s.m.data[s.at], s.m.data[p])
      THEN [m |-> swap(s.m, s.at, p), at |-> p] ELSE s

\* There are fewer than idx rounds that change something.
up(m, r, idx) ==
  LET loop[k \in 0 .. idx] ==
        IF k = 0 THEN [m |-> m, at |-> idx] ELSE up_step(r, loop[k - 1])
  IN  loop[idx].m

\* Children are compared only below size: the last element never is.
down_step(r, s) ==
  LET Smaller(c, i) == c < size(s.m) /\ less(r, s.m.data[c], s.m.data[i])
      min1 == IF Smaller(2 * s.at, s.at) THEN 2 * s.at ELSE s.at
      min  == IF Smaller(2 * s.at + 1, min1) THEN 2 * s.at + 1 ELSE min1
  IN  IF min = s.at THEN s ELSE [m |-> swap(s.m, s.at, min), at |-> min]

\* down calls itself for the place it has swapped with, which is lower each time.
down(m, r, idx) ==
  LET loop[k \in 0 .. size(m)] ==
        IF k = 0 THEN [m |-> m, at |-> idx] ELSE down_step(r, loop[k - 1])
  IN  loop[size(m)].m

minheap_change(m, r, e) == up(down(m, r, m.index[e]), r, m.index[e])

\* A full heap drops the element without a word.
minheap_insert(m, r, e) ==
  CASE m.index[e] # 0 -> minheap_change(m, r, e)
    [] m.index[e] = 0 /\ size(m) >= max_size -> m
    [] m.index[e] = 0 /\ size(m) < max_size ->
         up([data |-> Append(m.data, e), index |-> [m.index EXCEPT ![e] = size(m) + 1]],
            r, size(m) + 1)

\* Every element but e is inserted again, in order.
minheap_remove(m, r, e) ==
  LET back == Without(m.data, {e})
      again[i \in 0 .. Len(back)] ==
        IF i = 0 THEN minheap_create ELSE minheap_insert(again[i - 1], r, back[i])
  IN  again[Len(back)]

minheap_popmin(m, r) ==
  LET m1 == swap(m, 1, size(m))
      m2 == down([data |-> SubSeq(m1.data, 1, size(m) - 1), index |-> m1.index], r, 1)
  IN  IF m.data = <<>> THEN m
      ELSE [data |-> m2.data, index |-> [m2.index EXCEPT ![m.data[1]] = 0]]

WritePast(beyond) == overrun' \in IF beyond THEN BOOLEAN ELSE {FALSE}

HeapInsert(e) ==
  /\ heap' = minheap_insert(heap, rank, e) /\ UNCHANGED rank
  /\ WritePast(size(heap) < max_size /\ size(heap') = max_size)

HeapChange(e, k) ==
  /\ heap.index[e] # 0
  /\ rank' = [rank EXCEPT ![e] = k]
  /\ heap' = minheap_change(heap, rank', e) /\ UNCHANGED overrun

HeapRemove(e) ==
  /\ heap' = minheap_remove(heap, rank, e) /\ UNCHANGED rank
  /\ WritePast(Without(heap.data, {e}) # <<>>)

HeapPopMin == heap' = minheap_popmin(heap, rank) /\ UNCHANGED <<rank, overrun>>

HeapNext ==
  /\ ~overrun
  /\ \/ \E e \in Ele :
          HeapInsert(e) \/ HeapRemove(e) \/ \E k \in 1 .. MaxRank : HeapChange(e, k)
     \/ HeapPopMin

HeapSpec == HeapInit /\ [][HeapNext]_hvars

-----------------------------------------------------------------------------
(* Properties.                                                             *)

\* The index kept in an element is its position, 0 outside the heap: that is
\* how insert and change find it again after it was moved up, down or rebuilt.
\* It holds until one of the writes past data[] or back[] hits memory in use.
IndexRight ==
  \A e \in Ele, i \in 0 .. max_size :
    heap.index[e] = i <=> IF i = 0 THEN \A j \in DOMAIN heap.data : heap.data[j] # e
                          ELSE i <= size(heap) /\ heap.data[i] = e
=============================================================================

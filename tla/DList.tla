-------------------------------- MODULE DList --------------------------------
(***************************************************************************)
(* The doubly linked list of list.c, pointer by pointer, between the two   *)
(* nodes embedded in the list.  An iterator is a node and a direction.     *)
(***************************************************************************)
EXTENDS Integers, Sequences, SequencesExt

CONSTANTS
  MaxNodes,     \* bound: nodes alive at a time
  Val

ASSUME ListAssumption == MaxNodes \in Nat

VARIABLE dl     \* the list: next, pre and value of every node, and size

head == 0
end == MaxNodes + 1
NoNode == -1
Cell == head .. end

list_create ==
  [next |-> [n \in Cell |-> IF n = head THEN end ELSE NoNode],
   pre |-> [n \in Cell |-> IF n = end THEN head ELSE NoNode],
   value |-> [n \in Cell |-> NoNode], size |-> 0]

ListInit == dl = list_create

Alive(l) == {n \in 1 .. MaxNodes : l.next[n] # NoNode}
new_node(l) == CHOOSE n \in (1 .. MaxNodes) \ Alive(l) : TRUE

\* Mutant: the node before the iterator is not relinked.
insert_before_half(l, n, val) ==
  LET new == new_node(l)
      P   == l.pre[n]
  IN  [next |-> [l.next EXCEPT ![new] = n], pre |-> [l.pre EXCEPT ![n] = new, ![new] = P],
       value |-> [l.value EXCEPT ![new] = val], size |-> l.size + 1]

list_insert_before(l, n, val) ==
  LET new == new_node(l)
      P   == l.pre[n]
  IN  [next |-> [l.next EXCEPT ![P] = new, ![new] = n],
       pre |-> [l.pre EXCEPT ![n] = new, ![new] = P],
       value |-> [l.value EXCEPT ![new] = val], size |-> l.size + 1]

list_insert_after(l, n, val) ==
  LET new == new_node(l)
      N   == l.next[n]
  IN  [next |-> [l.next EXCEPT ![n] = new, ![new] = N],
       pre |-> [l.pre EXCEPT ![N] = new, ![new] = n],
       value |-> [l.value EXCEPT ![new] = val], size |-> l.size + 1]

list_push_back(l, val) == list_insert_before(l, end, val)
list_push_front(l, val) == list_insert_before(l, l.next[head], val)

\* list_erase: unlink and free; pops and removes are erasures at some node.
list_erase(l, n) ==
  LET P == l.pre[n]
      N == l.next[n]
  IN  [next |-> [l.next EXCEPT ![P] = N, ![n] = NoNode],
       pre |-> [l.pre EXCEPT ![N] = P, ![n] = NoNode],
       value |-> [l.value EXCEPT ![n] = NoNode], size |-> l.size - 1]

list_pop_back(l) == IF l.size > 0 THEN list_erase(l, l.pre[end]) ELSE l
list_pop_front(l) == IF l.size > 0 THEN list_erase(l, l.next[head]) ELSE l

\* list_iter_next in the iterator's direction; rend and end have no next.
list_iter_next(l, n, forward) == IF forward THEN l.next[n] ELSE l.pre[n]

\* A loop from n to stop: the values it meets.  It visits at most MaxNodes nodes;
\* one round more, and a walk that never comes to stop is too long.
list_walk(l, n, stop, forward) ==
  LET loop[k \in 0 .. MaxNodes + 1] ==
        IF k = 0 THEN [at |-> n, met |-> <<>>]
        ELSE LET was == loop[k - 1]
             IN  IF was.at = stop THEN was
                 ELSE [at |-> list_iter_next(l, was.at, forward),
                       met |-> Append(was.met, l.value[was.at])]
  IN  loop[MaxNodes + 1].met

Forward(l) == list_walk(l, l.next[head], end, TRUE)
Backward(l) == list_walk(l, l.pre[end], head, FALSE)

\* The first node with the value; end when there is none.
list_find(l, v) ==
  LET cur[k \in 0 .. MaxNodes + 1] ==
        IF k = 0 THEN l.next[head]
        ELSE IF cur[k - 1] = end \/ l.value[cur[k - 1]] = v THEN cur[k - 1]
        ELSE l.next[cur[k - 1]]
  IN  cur[MaxNodes + 1]

\* A value that is absent makes list_remove erase end itself, through a null
\* pointer: callers remove what is there.
list_remove(l, v) == list_erase(l, list_find(l, v))

Room == Cardinality(Alive(dl)) < MaxNodes

ListInsert(v) ==
  /\ Room
  /\ \/ dl' = list_push_back(dl, v)
     \/ dl' = list_push_front(dl, v)
     \/ \E n \in Alive(dl) \cup {head} : dl' = list_insert_after(dl, n, v)
     \/ \E n \in Alive(dl) \cup {end} : dl' = list_insert_before(dl, n, v)

ListTake ==
  \/ dl' = list_pop_back(dl)
  \/ dl' = list_pop_front(dl)
  \/ \E n \in Alive(dl) : dl' = list_erase(dl, n)
  \/ \E v \in Val : list_find(dl, v) # end /\ dl' = list_remove(dl, v)

list_iter_set_val(n, v) == dl' = [dl EXCEPT !.value = [@ EXCEPT ![n] = v]]

ListNext ==
  \/ \E v \in Val : ListInsert(v)
  \/ ListTake
  \/ \E n \in Alive(dl), v \in Val : list_iter_set_val(n, v)

ListSpec == ListInit /\ [][ListNext]_dl

-----------------------------------------------------------------------------
(* Properties.                                                             *)

\* The two chains are one list: what a reverse iterator meets is what a forward
\* one meets, backwards; every node that is not freed is on it, and size counts.
TwoWay ==
  /\ Backward(dl) = Reverse(Forward(dl))
  /\ Len(Forward(dl)) = dl.size /\ dl.size = Cardinality(Alive(dl))

\* Seen as a sequence, the list is a deque with insertion and removal anywhere:
\* push and pop work on the ends they name, and remove takes the first match.
Deque ==
  LET s == Forward(dl)
  IN  /\ dl.size < MaxNodes => \A v \in Val :
           /\ Forward(list_push_back(dl, v)) = Append(s, v)
           /\ Forward(list_push_front(dl, v)) = <<v>> \o s
           /\ Forward(list_insert_after(dl, head, v)) = <<v>> \o s
      /\ s # <<>> => /\ Forward(list_pop_back(dl)) = Front(s)
                     /\ Forward(list_pop_front(dl)) = Tail(s)
      /\ \A v \in ToSet(s) :
           Forward(list_remove(dl, v)) = RemoveFirst(s, v)

\* The list is a deque in both directions: whatever was inserted and erased
\* through iterators, the two chains stay one list, and the calls that name an
\* end or a value do to that list what they say.
ListSound == TwoWay /\ Deque
=============================================================================

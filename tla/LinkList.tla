------------------------------ MODULE LinkList ------------------------------
(***************************************************************************)
(* The intrusive list of link_list.c, pointer by pointer: the one next     *)
(* field of a node serves every list it is on.  push returns without a     *)
(* word when that field is set; the last node of a list has none, so       *)
(* callers do not push a node that is the last of a list.                  *)
(***************************************************************************)
EXTENDS Integers, Sequences, SequencesExt

CONSTANTS
  ListId,
  MaxListNode   \* the nodes are 1 .. MaxListNode

ASSUME LinkAssumption == MaxListNode \in Nat

VARIABLES
  ll,           \* head, tail and size of every list, and next of every node
  queued,       \* ghost: the sequence each list stands for
  cleared       \* ghost: nodes a link_list_clear dropped

lvars == <<ll, queued, cleared>>

ListNode == 1 .. MaxListNode

create_link_list ==
  [head |-> [l \in ListId |-> 0], tail |-> [l \in ListId |-> 0],
   size |-> [l \in ListId |-> 0], next |-> [n \in ListNode |-> 0]]

LinkInit == ll = create_link_list /\ queued = [l \in ListId |-> <<>>] /\ cleared = {}

InList(n) == \E l \in ListId : n \in ToSet(queued[l])
IsLast(n) == \E l \in ListId : ll.tail[l] = n
Refused(n) == InList(n) \/ (n \in cleared /\ ll.next[n] # 0)

link_list_push_back(l, n) ==
  LET first == ll.size[l] = 0
  IN  /\ ~IsLast(n)
      /\ ll' = IF ll.next[n] # 0 THEN ll
               ELSE [head |-> [ll.head EXCEPT ![l] = IF first THEN n ELSE @],
                     tail |-> [ll.tail EXCEPT ![l] = n],
                     size |-> [ll.size EXCEPT ![l] = @ + 1],
                     next |-> IF first THEN ll.next
                              ELSE [ll.next EXCEPT ![ll.tail[l]] = n]]
      /\ queued' = IF Refused(n) THEN queued ELSE [queued EXCEPT ![l] = Append(@, n)]
      /\ UNCHANGED cleared

link_list_push_front(l, n) ==
  /\ ~IsLast(n)
  /\ ll' = IF ll.next[n] # 0 THEN ll
           ELSE [head |-> [ll.head EXCEPT ![l] = n],
                 tail |-> [ll.tail EXCEPT ![l] = IF ll.size[l] = 0 THEN n ELSE @],
                 size |-> [ll.size EXCEPT ![l] = @ + 1],
                 next |-> [ll.next EXCEPT ![n] = ll.head[l]]]
  /\ queued' = IF Refused(n) THEN queued ELSE [queued EXCEPT ![l] = <<n>> \o @]
  /\ UNCHANGED cleared

\* Mutant: the tail is left behind.
pop_keep_tail(l) ==
  LET ret == ll.head[l]
  IN  /\ ll.size[l] # 0
      /\ ll' = [ll EXCEPT !.head[l] = ll.next[ret], !.size[l] = @ - 1, !.next[ret] = 0]
      /\ queued' = [queued EXCEPT ![l] = Tail(@)]
      /\ UNCHANGED cleared

link_list_pop(l) ==
  LET ret == ll.head[l]
  IN  /\ ll.size[l] # 0                               \* else null
      /\ ll' = [head |-> [ll.head EXCEPT ![l] = ll.next[ret]],
                tail |-> [ll.tail EXCEPT ![l] = IF ll.next[ret] = 0 THEN 0 ELSE @],
                size |-> [ll.size EXCEPT ![l] = @ - 1],
                next |-> [ll.next EXCEPT ![ret] = 0]]
      /\ queued' = [queued EXCEPT ![l] = Tail(@)]
      /\ UNCHANGED cleared

\* All of from goes to the end of to.
link_list_swap(to, from) ==
  LET none == ll.tail[to] = 0
  IN  /\ ll.head[from] # 0 /\ ll.tail[from] # 0       \* else nothing
      /\ ll' = [head |-> [ll.head EXCEPT ![to] = IF none THEN ll.head[from] ELSE @,
                                         ![from] = 0],
                tail |-> [ll.tail EXCEPT ![to] = ll.tail[from], ![from] = 0],
                size |-> [ll.size EXCEPT ![to] = @ + ll.size[from], ![from] = 0],
                next |-> IF none THEN ll.next
                         ELSE [ll.next EXCEPT ![ll.tail[to]] = ll.head[from]]]
      /\ queued' = [queued EXCEPT ![to] = @ \o queued[from], ![from] = <<>>]
      /\ UNCHANGED cleared

\* The nodes keep their next: all but the last are refused from now on.
link_list_clear(l) ==
  /\ ll' = [head |-> [ll.head EXCEPT ![l] = 0], tail |-> [ll.tail EXCEPT ![l] = 0],
            size |-> [ll.size EXCEPT ![l] = 0], next |-> ll.next]
  /\ queued' = [queued EXCEPT ![l] = <<>>]
  /\ cleared' = cleared \cup ToSet(queued[l])

LinkNext ==
  \/ \E l \in ListId :
       \/ link_list_pop(l) \/ link_list_clear(l)
       \/ \E n \in ListNode : link_list_push_back(l, n) \/ link_list_push_front(l, n)
  \/ \E to, from \in ListId : to # from /\ link_list_swap(to, from)

LinkSpec == LinkInit /\ [][LinkNext]_lvars

-----------------------------------------------------------------------------
(* Properties.                                                             *)

\* From node at on, the next pointers lead through the nodes of s to null.
Linked(at, s) ==
  /\ at = IF s = <<>> THEN 0 ELSE s[1]
  /\ \A k \in 1 .. Len(s) : ll.next[s[k]] = IF k = Len(s) THEN 0 ELSE s[k + 1]

\* Each list is, pointer by pointer, the sequence its users see: head, tail, size
\* and the one next field agree after any mixture of pushes at both ends, pops
\* and swaps, a node is on one list at most and once, and a node on none can be
\* pushed, unless it was on a list when link_list_clear dropped it.
ListsAreQueues ==
  /\ \A l \in ListId :
       /\ Linked(ll.head[l], queued[l])
       /\ ll.size[l] = Len(queued[l])
       /\ ll.tail[l] = IF queued[l] = <<>> THEN 0 ELSE queued[l][Len(queued[l])]
  /\ \A l, m \in ListId : \A i \in DOMAIN queued[l], j \in DOMAIN queued[m] :
       queued[l][i] = queued[m][j] => l = m /\ i = j
  /\ \A n \in ListNode : ~InList(n) /\ n \notin cleared => ll.next[n] = 0
=============================================================================

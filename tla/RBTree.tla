------------------------------- MODULE RBTree -------------------------------
(***************************************************************************)
(* The red-black tree of RBtree.c, pointer by pointer.  A node is named by *)
(* the key it holds, so that copy_key gives the node another name; nil is  *)
(* the embedded sentinel, whose parent pointer is really written.  The     *)
(* code spells every case out for left and right: here a side is 0 (left)  *)
(* or 1 (right), and 1 - s is the other one.  Values travel with keys.     *)
(***************************************************************************)
EXTENDS Integers, FiniteSets, Sequences

CONSTANT MaxKey         \* bound: the keys are 1 .. MaxKey

VARIABLE
  rb      \* the tree: root, kid[side][node], parent[node], the red nodes, size

Key == 1 .. MaxKey
nil == 0
Node == {nil} \cup Key

unset == -1

\* The pointers of the sentinel are memory nobody wrote.
RBtree_create ==
  LET links == [n \in Node |-> IF n = nil THEN unset ELSE nil]
  IN  [root |-> nil, kid |-> [s \in 0 .. 1 |-> links], parent |-> links,
       red |-> {}, size |-> 0]

RBInit == rb = RBtree_create

\* Which child of its parent a node is, as the code finds out.
Side(t, n) == IF n = t.kid[0][t.parent[n]] THEN 0 ELSE 1

\* rotate_left (s = 0) and rotate_right (s = 1).
rotate(t, n, s) ==
  LET up    == t.kid[1 - s][n]
      inner == t.kid[s][up]
      p     == t.parent[n]
      t1    == [t EXCEPT !.kid[1 - s][n] = inner, !.parent[inner] = n]
      t2    == IF n = t.root THEN [t1 EXCEPT !.root = up]
               ELSE [t1 EXCEPT !.kid[Side(t, n)][p] = up]
  IN  IF up = nil THEN t
      ELSE [t2 EXCEPT !.parent[up] = p, !.parent[n] = up, !.kid[s][up] = n]

RECURSIVE insert_fix_up(_, _)
insert_fix_up(t, n) ==
  LET p     == t.parent[n]
      g     == t.parent[p]
      s     == Side(t, p)
      ancle == t.kid[1 - s][g]
      inner == Side(t, n) # s
      m     == IF inner THEN p ELSE n
      t1    == IF inner THEN rotate(t, p, s) ELSE t
      top   == t1.parent[t1.parent[m]]
      t2    == [t1 EXCEPT !.red = (@ \ {t1.parent[m]}) \cup {top}]
  IN  CASE p \notin t.red -> [t EXCEPT !.red = @ \ {t.root}]
        [] p \in t.red /\ ancle \in t.red ->      \* color_flip
             insert_fix_up([t EXCEPT !.red = (@ \cup {g}) \ {p, ancle}], g)
        [] p \in t.red /\ ancle \notin t.red ->
             insert_fix_up(rotate(t2, top, 1 - s), m)

\* The node that holds key, or the last one on the way to where it would be.
RECURSIVE tree_find_from(_, _, _, _)
tree_find_from(t, key, cur, pre) ==
  CASE cur = nil -> pre
    [] cur = key -> cur
    [] OTHER -> tree_find_from(t, key, t.kid[IF key < cur THEN 0 ELSE 1][cur], cur)

find(t, key) == tree_find_from(t, key, t.root, nil)

\* minimum (s = 0) and maxmum (s = 1) of the subtree of n.
RECURSIVE extreme(_, _, _)
extreme(t, n, s) ==
  IF t.kid[s][n] = nil THEN n ELSE extreme(t, t.kid[s][n], s)

RECURSIVE climb(_, _)
climb(t, n) ==
  LET y == t.parent[n]
  IN  IF y # nil /\ n = t.kid[1][y] THEN climb(t, y) ELSE y

successor(t, n) ==
  IF t.kid[1][n] # nil THEN extreme(t, t.kid[1][n], 0) ELSE climb(t, n)

\* Mutant: the right child itself, which may have two children.
delete_right_child(t, n) ==
  CASE t.kid[0][n] = nil /\ t.kid[1][n] = nil -> n
    [] t.kid[1][n] # nil -> t.kid[1][n]
    [] OTHER -> extreme(t, t.kid[0][n], 1)

get_delete_node(t, n) ==
  CASE t.kid[0][n] = nil /\ t.kid[1][n] = nil -> n
    [] t.kid[1][n] # nil -> extreme(t, t.kid[1][n], 0)
    [] OTHER -> extreme(t, t.kid[0][n], 1)

RECURSIVE delete_fix_up(_, _)
\* Mutant: the black node is missing on one side and nothing is done about it.
delete_no_fix_up(t, n) == [t EXCEPT !.red = @ \ {n}]

\* w->left->color == BLACK at 372 and 404 is a comparison: nothing is assigned.
delete_fix_up(t, n) ==
  LET p    == t.parent[n]
      s    == Side(t, n)
      w0   == t.kid[1 - s][p]
      t1   == IF w0 \in t.red
              THEN rotate([t EXCEPT !.red = (@ \ {w0}) \cup {p}], p, s) ELSE t
      w    == t1.kid[1 - s][p]
      near == t1.kid[s][w]
      far  == t1.kid[1 - s][w]
      t2   == IF far \notin t1.red
              THEN rotate([t1 EXCEPT !.red = @ \cup {w}], w, 1 - s) ELSE t1
      v    == t2.kid[1 - s][p]
      top  == IF p \in t2.red THEN t2.red \cup {v} ELSE t2.red \ {v}
      t3   == rotate([t2 EXCEPT !.red = top \ {p, t2.kid[1 - s][v]}], p, s)
  IN  CASE n = t.root \/ n \in t.red -> [t EXCEPT !.red = @ \ {n}]
        [] n # t.root /\ n \notin t.red /\ {near, far} \cap t1.red = {} ->
             delete_fix_up([t1 EXCEPT !.red = @ \cup {w}], p)
        [] OTHER -> delete_fix_up(t3, t3.root)

\* nil's parent is not read again before rb_delete writes it: what a call
\* leaves there is dropped.
Settled(t) == [t EXCEPT !.parent[nil] = unset]

RBtree_insert(key) ==
  LET x == find(rb, key)
      n == [rb EXCEPT !.red = @ \cup {key}, !.parent[key] = x, !.size = @ + 1]
      t == IF x = nil THEN [n EXCEPT !.root = key]
           ELSE [n EXCEPT !.kid[IF key < x THEN 0 ELSE 1][x] = key]
  IN  rb' = IF x = key THEN rb ELSE Settled(insert_fix_up(t, key))

\* copy_key: node n holds key x from now on, and the node that held it is gone.
copy_key(t, n, x) ==
  LET name(m) == IF m = n THEN x ELSE m
      Of(f)   == [m \in Node |-> IF m = n THEN nil
                                 ELSE name(f[IF m = x THEN n ELSE m])]
  IN  [t EXCEPT !.root = name(@), !.kid = [s \in 0 .. 1 |-> Of(@[s])],
                !.parent = Of(@),
                !.red = ((@ \ {x}) \cup (IF n \in @ THEN {x} ELSE {})) \ {n}]

\* rb_delete of the key held by node n: x is the node taken out of the tree.
rb_delete(t, n) ==
  LET x  == get_delete_node(t, n)
      p  == t.parent[x]
      z  == IF t.kid[0][x] # nil THEN t.kid[0][x] ELSE t.kid[1][x]
      t1 == [t EXCEPT !.kid[Side(t, x)][p] = z, !.parent[z] = p]
      t2 == copy_key(t1, n, x)
      t3 == IF x # t.root /\ x \notin t.red THEN delete_fix_up(t2, z) ELSE t2
  IN  [t3 EXCEPT !.root = IF x = t.root THEN nil ELSE @, !.size = @ - 1]

\* RBtree_delete and RBtree_erase.  On an empty tree the code compares with the
\* key of nil, memory nobody wrote: it is taken to be no key of the tree.
RBtree_delete(key) ==
  rb' = IF find(rb, key) = key THEN Settled(rb_delete(rb, key)) ELSE rb

\* Mutant: always the successor of the node taken out.
erase_result_x(t, n) == successor(t, get_delete_node(t, n))

\* The iterator RBtree_erase returns: *succ is set before the deletion.  It is
\* node n, then renamed to x, unless n itself is taken out; when x comes from
\* the left, successor(x) is n as well.
erase_result(t, n) ==
  LET x == get_delete_node(t, n)
  IN  IF x = n THEN successor(t, x) ELSE x

RBNext == \E key \in Key : RBtree_insert(key) \/ RBtree_delete(key)

RBSpec == RBInit /\ [][RBNext]_rb

-----------------------------------------------------------------------------
(* Properties.                                                             *)

\* From begin (456) to end by RB_iter_next.
RECURSIVE tree_walk(_, _)
tree_walk(t, n) == IF n = nil THEN <<>> ELSE <<n>> \o tree_walk(t, successor(t, n))

Stored(t) == {k \in Key : find(t, k) = k}

\* What RBtree_check_vaild looks for, at every nil leaf: the number of black
\* nodes above it; no red node has a red child, and the root is black.
RECURSIVE BlackHeights(_, _)
BlackHeights(t, n) ==
  IF n = nil THEN {0}
  ELSE {h + (IF n \in t.red THEN 0 ELSE 1) :
          h \in BlackHeights(t, t.kid[0][n]) \cup BlackHeights(t, t.kid[1][n])}

\* Whatever was inserted and deleted, the tree stays a red-black tree: long
\* sequences of rotations and recolourings, with the assignments of 372 and 404
\* missing, never leave two reds in a row or paths of different black length.
Balanced ==
  /\ rb.root \notin rb.red /\ nil \notin rb.red
  /\ \A n \in rb.red : rb.kid[0][n] \notin rb.red /\ rb.kid[1][n] \notin rb.red
  /\ Cardinality(BlackHeights(rb, rb.root)) = 1

\* A walk from begin to end meets every stored key once, in ascending order,
\* and size counts them: successor climbs by the parent pointers, which nothing
\* else in the tree checks.  The tree is not empty: begin of an empty one follows
\* a child pointer of nil, which is not set.
WalkSorted ==
  LET w == IF rb.root = nil THEN <<>> ELSE tree_walk(rb, extreme(rb, rb.root, 0))
  IN  /\ {w[i] : i \in DOMAIN w} = Stored(rb)
      /\ \A i \in DOMAIN w \ {1} : w[i - 1] < w[i]
      /\ Len(w) = rb.size

\* After any sequence of insertions and deletions: a red-black tree whose
\* iterators meet its keys in order.
RedBlack == Balanced /\ WalkSorted

NextAfter(n, r) ==
  LET above == {k \in Stored(rb) : k > n}
  IN  IF above = {} THEN r = nil ELSE r \in above /\ \A k \in above : r <= k

\* Erasing while walking never skips a key: what erase returns is the next
\* larger key or end, except that for a node with a left child only it is the next
\* smaller one, which the walk has seen.
EraseReturns ==
  \A n \in Stored(rb) :
    LET below == {k \in Stored(rb) : k < n}
        r     == erase_result(rb, n)
    IN  IF rb.kid[0][n] # nil /\ rb.kid[1][n] = nil
        THEN r \in below /\ \A k \in below : k <= r
        ELSE NextAfter(n, r)

\* "Deletes the current node and returns the iterator of the successor node"
\* (RBtree.c:569-571): erase returns the next larger key, or end.
EraseReturnsNext == \A n \in Stored(rb) : NextAfter(n, erase_result(rb, n))

\* The tree does what map.h promises of a map: no rotation and no copy_key ever
\* loses, doubles or misplaces a key for find.
Map == INSTANCE OrderedMap WITH keys <- Stored(rb), size <- rb.size
MapRefined == Map!Spec
=============================================================================

--------------------------- MODULE BlockAllocator ---------------------------
(***************************************************************************)
(* block_obj_allocator.c: every thread takes blocks from free lists of its *)
(* own and exchanges whole lists with the central allocator, under         *)
(* spin_lock(mtx, 4000), which lets a second thread in when its attempts   *)
(* are used up (spinlock.c:78): the exchange is one step, releasing the    *)
(* lock another, and a thread that comes in between tears the list.  Which *)
(* block is handed out does not matter: a free list is its number of       *)
(* blocks.  A thread frees only after it has allocated once (assert(ta)),  *)
(* any block, its own or another thread's.                                 *)
(***************************************************************************)
EXTENDS Integers, Sequences, SequencesExt, ListOps

CONSTANTS
  AThread,
  MaxLists,     \* bound: free lists created
  init_size,    \* blocks of a new list, DEFAULT_BLOCK_SIZE/obj_size
  SizeWrap      \* the modulus of free_size, 2^32 in the code

\* A list has several blocks, and free_size can count all there are and one list
\* that is given back.
ASSUME PoolAssumption ==
  /\ MaxLists \in Nat /\ init_size \in Nat /\ init_size > 1
  /\ SizeWrap \in Nat /\ init_size * MaxLists + init_size < SizeWrap

VARIABLES
  central,      \* the central _free_list
  size,         \* of every free list
  made,         \* lists created: 1 .. made
  free_list, recover, free_size,        \* of every thread_allocator
  started,      \* threads that have a thread_allocator
  giving,       \* the list a thread has given back, until it subtracts its size
  out,          \* blocks in use
  crashed,      \* a null pointer was followed or an assert failed
  raced,        \* ghost: threads that subtracted a size another owner had changed
  inside,       \* threads between spin_lock and spin_unlock
  torn          \* two threads at once have changed the links of the central list

lockVars == <<inside, torn>>
avars == <<central, size, made, free_list, recover, free_size, started, giving, out, crashed,
           raced, lockVars>>

FreeList == 1 .. MaxLists
collect_factor == 2 * init_size

PoolInit ==
  /\ central = <<>> /\ size = [f \in FreeList |-> 0] /\ made = 0
  /\ free_list = [t \in AThread |-> <<>>] /\ recover = [t \in AThread |-> <<>>]
  /\ free_size = [t \in AThread |-> 0] /\ started = {}
  /\ giving = [t \in AThread |-> 0] /\ out = 0 /\ crashed = FALSE /\ raced = {}
  /\ inside = {} /\ torn = FALSE

\* The rest of thread_allocator_alloc, with list f at the head of fl.
get(t, f, fl, rec, free, sizes) ==
  LET left == sizes[f] - 1
  IN  /\ size' = [sizes EXCEPT ![f] = left]
      /\ free_size' = [free_size EXCEPT ![t] = (free - 1) % SizeWrap]
      /\ free_list' = [free_list EXCEPT ![t] = IF left = 0 THEN Tail(fl) ELSE fl]
      /\ recover' = [recover EXCEPT ![t] = IF left = 0 THEN Append(rec, f) ELSE rec]
      /\ out' = out + 1

\* A torn list is undefined, and so is what the program does with it: the model
\* stops there.
Going == ~crashed /\ ~torn
Ready(t) == Going /\ t \notin inside /\ giving[t] = 0

Enter(t) == inside = {} /\ inside' = {t} /\ UNCHANGED torn

spin_unlock(t) ==
  /\ Going /\ t \in inside
  /\ inside' = inside \ {t}
  /\ UNCHANGED <<central, size, made, free_list, recover, free_size, started, giving, out,
                 crashed, raced, torn>>

\* No free block: a list from the central allocator, or a new one.
alloc_central(t) ==
  LET fresh == central = <<>>
      f     == IF fresh THEN made + 1 ELSE Head(central)
      sizes == IF fresh THEN [size EXCEPT ![f] = init_size] ELSE size
  IN  /\ Ready(t) /\ free_size[t] = 0
      /\ fresh => made < MaxLists
      /\ made' = IF fresh THEN made + 1 ELSE made
      /\ central' = IF fresh THEN central ELSE Tail(central)
      /\ started' = started \cup {t}
      /\ get(t, f, Append(free_list[t], f), recover[t], sizes[f], sizes)
      /\ Enter(t)
      /\ UNCHANGED <<giving, crashed, raced>>

\* Mutant: the recovered list is not taken off its list.
alloc_own_keep(t) ==
  LET rec == recover[t]
      own == free_list[t] # <<>>
      f   == IF own THEN Head(free_list[t]) ELSE IF rec # <<>> THEN Head(rec) ELSE 0
      bad == IF f = 0 THEN TRUE ELSE size[f] = 0
  IN  /\ Ready(t) /\ free_size[t] > 0 /\ ~bad
      /\ get(t, f, IF own THEN free_list[t] ELSE <<f>>, rec, free_size[t], size)
      /\ UNCHANGED <<central, made, started, giving, crashed, raced, lockVars>>

\* Else the first list of its own, or the one being recovered.
alloc_own(t) ==
  LET rec == recover[t]
      own == free_list[t] # <<>>
      f   == IF own THEN Head(free_list[t]) ELSE IF rec # <<>> THEN Head(rec) ELSE 0
      bad == IF f = 0 THEN TRUE ELSE size[f] = 0
  IN  /\ Ready(t) /\ free_size[t] > 0
      /\ \/ bad /\ crashed' = TRUE
            /\ UNCHANGED <<size, free_list, recover, free_size, out>>
         \/ ~bad /\ UNCHANGED crashed
            /\ get(t, f, IF own THEN free_list[t] ELSE <<f>>,
                   IF own THEN rec ELSE Tail(rec), free_size[t], size)
      /\ UNCHANGED <<central, made, started, giving, raced, lockVars>>

full(f) == size[f] + 1 = init_size

\* thread_allocator_dealloc into the list being recovered; a full list becomes
\* an ordinary one, or goes back to the central allocator.
dealloc_recover(t) ==
  LET f    == Head(recover[t])
      back == free_size[t] + 1 >= collect_factor
  IN  /\ Ready(t) /\ out > 0 /\ t \in started /\ recover[t] # <<>>
      /\ size' = [size EXCEPT ![f] = @ + 1]
      /\ free_size' = [free_size EXCEPT ![t] = (@ + 1) % SizeWrap] /\ out' = out - 1
      /\ recover' = IF full(f) THEN [recover EXCEPT ![t] = Tail(@)] ELSE recover
      /\ central' = IF full(f) /\ back THEN Append(central, f) ELSE central
      /\ giving' = IF full(f) /\ back THEN [giving EXCEPT ![t] = f] ELSE giving
      /\ free_list' = IF full(f) /\ ~back
                      THEN [free_list EXCEPT ![t] = Append(@, f)] ELSE free_list
      /\ IF full(f) /\ back THEN Enter(t) ELSE UNCHANGED lockVars
      /\ UNCHANGED <<made, started, crashed, raced>>

\* The lock is held, the attempts are used up: this thread goes in as well, to
\* take a list or to give one back.
Intrude(t) ==
  /\ Ready(t) /\ inside # {}
  /\ \/ free_size[t] = 0
     \/ /\ out > 0 /\ t \in started /\ recover[t] # <<>>
        /\ full(Head(recover[t])) /\ free_size[t] + 1 >= collect_factor
  /\ inside' = inside \cup {t} /\ torn' = TRUE
  /\ UNCHANGED <<central, size, made, free_list, recover, free_size, started, giving, out,
                 crashed, raced>>

\* free_size -= f->size, of a list that is no longer this thread's.
Subtract(t) ==
  LET n == size[giving[t]]
  IN  /\ Going /\ t \notin inside /\ giving[t] # 0
      /\ free_size' = [free_size EXCEPT ![t] = (@ - n) % SizeWrap]
      /\ giving' = [giving EXCEPT ![t] = 0]
      /\ raced' = IF n = init_size THEN raced ELSE raced \cup {t}
      /\ UNCHANGED <<central, size, made, free_list, recover, started, out, crashed, lockVars>>

\* Nothing to recover: the first list, beyond its size if need be.
dealloc_free(t) ==
  LET f == IF free_list[t] = <<>> THEN 0 ELSE Head(free_list[t])
  IN  /\ Ready(t) /\ out > 0 /\ t \in started /\ recover[t] = <<>>
      /\ \/ f = 0 /\ crashed' = TRUE                          \* assert(f)
            /\ UNCHANGED <<size, free_size, out>>
         \/ f # 0 /\ UNCHANGED crashed
            /\ size' = [size EXCEPT ![f] = @ + 1]
            /\ free_size' = [free_size EXCEPT ![t] = (@ + 1) % SizeWrap] /\ out' = out - 1
      /\ UNCHANGED <<central, made, free_list, recover, started, giving, raced, lockVars>>

PoolNext ==
  \E t \in AThread :
    \/ alloc_central(t) \/ alloc_own(t) \/ dealloc_recover(t) \/ dealloc_free(t)
    \/ Subtract(t) \/ spin_unlock(t) \/ Intrude(t)

PoolSpec == PoolInit /\ [][PoolNext]_avars

-----------------------------------------------------------------------------
(* Properties.                                                             *)

Lists(t) == free_list[t] \o recover[t]
Blocks(F, sizes) == Total([f \in FreeList |-> IF f \in F THEN sizes[f] ELSE 0], MaxLists)
Held(t) == Blocks(ToSet(Lists(t)), size)

\* A list is in one place: with one thread or in the central allocator, never
\* with two owners who would hand out the same block twice, and none is lost.
OneOwner ==
  /\ \A t, u \in AThread : \A i \in DOMAIN Lists(t), j \in DOMAIN Lists(u) :
       Lists(t)[i] = Lists(u)[j] => t = u /\ i = j
  /\ \A i, j \in DOMAIN central : central[i] = central[j] => i = j
  /\ \A t \in AThread : ToSet(Lists(t)) \cap ToSet(central) = {}
  /\ ToSet(central) \cup UNION {ToSet(Lists(t)) : t \in AThread} = 1 .. made

\* Of the lists being recovered only the first has blocks, fewer than a full
\* list; the ordinary lists have some.  Both ends of the exchange rely on it:
\* alloc takes the head without looking, dealloc fills up the head.
RecoverShape ==
  \A t \in AThread :
    /\ \A k \in DOMAIN recover[t] :
         size[recover[t][k]] \in IF k = 1 THEN 0 .. init_size - 1 ELSE {0}
    /\ \A k \in DOMAIN free_list[t] : size[free_list[t][k]] > 0

\* free_size is the number of blocks a thread holds, however lists wander
\* between threads, except after the subtraction at 164 has read the size of a
\* list that already had another owner; nothing else short of a torn central
\* list leads to a crash.
FreeSizeExact ==
  /\ \A t \in AThread \ raced : giving[t] = 0 => free_size[t] = Held(t)
  /\ crashed => raced # {}

\* Lists that wander between threads, and blocks freed by other threads than
\* the one that allocated them, leave every allocator consistent, up to the
\* race at 164 and until two threads are inside the lock of 89 and 108 at once:
\* these are the two ways in which the allocator goes wrong, and there is no
\* third.
PoolSound == OneOwner /\ RecoverShape /\ FreeSizeExact

\* assert(ptr) (138) and assert(f) (173): a thread whose free_size says so has a
\* block to hand out, and a list to put one back.
BlockFound == ~crashed
=============================================================================

------------------------------ MODULE Spinlock ------------------------------
(***************************************************************************)
(* spinlock.c: a recursive lock taken with compare-and-swap on owner.      *)
(* spin_lock(l, 0) spins until it succeeds; spin_lock(l, count) gives up   *)
(* after count attempts and takes the mutex instead.  A step reads or      *)
(* writes owner at most once.                                              *)
(***************************************************************************)
EXTENDS Integers

CONSTANTS
  Thread,
  NoThread,     \* owner = 0
  Counts,       \* the counts that callers may pass to spin_lock
  MaxDepth,     \* bound: nested spin_lock calls of one thread
  MaxCount      \* bound: lock_count when spin_lock is called

ASSUME SpinAssumption ==
  /\ NoThread \notin Thread
  /\ Counts \subseteq Nat
  /\ MaxDepth \in Nat \ {0} /\ MaxCount \in Nat \ {0}

VARIABLES
  count,        \* what all callers of this lock pass to spin_lock
  owner, lock_count, lock_by_mtx,
  mtx, depth,   \* the holder of the recursive mutex, or NoThread, and how often
  pc, tries,    \* where a thread is in spin_lock / spin_unlock; attempts left
  held          \* ghost: spin_lock calls that returned, not yet undone

vars == <<count, owner, lock_count, lock_by_mtx, mtx, depth, pc, tries, held>>

Points == {"out", "try", "cas", "got", "fallback", "mutexed", "unlocking"}

TypeOK ==
  /\ count \in Counts
  /\ owner \in Thread \cup {NoThread} /\ mtx \in Thread \cup {NoThread}
  /\ lock_count \in Int /\ lock_by_mtx \in {0, 1} /\ depth \in Int
  /\ pc \in [Thread -> Points]
  /\ tries \in [Thread -> Nat] /\ held \in [Thread -> 0..MaxDepth]

Init ==
  /\ count \in Counts
  /\ owner = NoThread /\ lock_count = 0 /\ lock_by_mtx = 0 /\ mtx = NoThread /\ depth = 0
  /\ pc = [t \in Thread |-> "out"] /\ tries = [t \in Thread |-> 0]
  /\ held = [t \in Thread |-> 0]

Goto(t, p) == pc' = [pc EXCEPT ![t] = p]

-----------------------------------------------------------------------------
(* spin_lock                                                               *)

\* tid == l->owner: the caller has the lock already.
Relock(t) ==
  /\ pc[t] = "out" /\ owner = t /\ held[t] < MaxDepth /\ lock_count < MaxCount
  /\ lock_count' = lock_count + 1
  /\ held' = [held EXCEPT ![t] = @ + 1]
  /\ UNCHANGED <<owner, lock_by_mtx, mtx, depth, pc, tries>>

Lock(t) ==
  /\ pc[t] = "out" /\ owner # t /\ held[t] < MaxDepth /\ lock_count < MaxCount
  /\ tries' = [tries EXCEPT ![t] = count]
  /\ Goto(t, "try")
  /\ UNCHANGED <<owner, lock_count, lock_by_mtx, mtx, depth, held>>

\* One attempt is over.
Attempt(t) ==
  IF count = 0 THEN Goto(t, "try") /\ UNCHANGED tries
  ELSE /\ tries' = [tries EXCEPT ![t] = @ - 1]
       /\ Goto(t, IF tries[t] = 1 THEN "fallback" ELSE "try")

\* Mutant: the test is inverted.
TryInverted(t) ==
  /\ pc[t] = "try"
  /\ IF owner # NoThread THEN Goto(t, "cas") /\ UNCHANGED tries ELSE Attempt(t)
  /\ UNCHANGED <<owner, lock_count, lock_by_mtx, mtx, depth, held>>

\* if(l->owner == 0)
Try(t) ==
  /\ pc[t] = "try"
  /\ IF owner = NoThread THEN Goto(t, "cas") /\ UNCHANGED tries ELSE Attempt(t)
  /\ UNCHANGED <<owner, lock_count, lock_by_mtx, mtx, depth, held>>

\* Mutant: a plain store in place of the compare-and-swap.
CasStore(t) ==
  /\ pc[t] = "cas" /\ owner' = t /\ Goto(t, "got")
  /\ UNCHANGED <<lock_count, lock_by_mtx, mtx, depth, tries, held>>

\* COMPARE_AND_SWAP(&(l->owner),0,tid) == 0
Cas(t) ==
  /\ pc[t] = "cas"
  /\ IF owner = NoThread
     THEN owner' = t /\ Goto(t, "got") /\ UNCHANGED tries
     ELSE Attempt(t) /\ UNCHANGED owner
  /\ UNCHANGED <<lock_count, lock_by_mtx, mtx, depth, held>>

\* ++lock_count; only the caller that spins for ever resets lock_by_mtx.
Locked(t) ==
  /\ pc[t] = "got"
  /\ lock_count' = lock_count + 1
  /\ lock_by_mtx' = IF count = 0 THEN 0 ELSE lock_by_mtx
  /\ held' = [held EXCEPT ![t] = @ + 1]
  /\ Goto(t, "out")
  /\ UNCHANGED <<owner, mtx, depth, tries>>

Fallback(t) ==
  /\ pc[t] = "fallback" /\ mtx \in {NoThread, t}
  /\ mtx' = t /\ depth' = depth + 1 /\ Goto(t, "mutexed")
  /\ UNCHANGED <<owner, lock_count, lock_by_mtx, tries, held>>

\* The mutex path leaves owner alone.
Mutexed(t) ==
  /\ pc[t] = "mutexed"
  /\ lock_by_mtx' = 1 /\ lock_count' = lock_count + 1
  /\ held' = [held EXCEPT ![t] = @ + 1]
  /\ Goto(t, "out")
  /\ UNCHANGED <<owner, mtx, depth, tries>>

-----------------------------------------------------------------------------
(* spin_unlock, called only by a thread that has locked.                   *)

\* --lock_count; a caller that is not the owner gets -1.
Unlock(t) ==
  /\ pc[t] = "out" /\ held[t] > 0
  /\ held' = [held EXCEPT ![t] = @ - 1]
  /\ IF owner = t THEN lock_count' = lock_count - 1 /\ Goto(t, "unlocking")
     ELSE UNCHANGED <<lock_count, pc>>
  /\ UNCHANGED <<owner, lock_by_mtx, mtx, depth, tries>>

\* External: of a recursive mutex that the caller may not hold.
mutex_unlock(t) ==
  IF mtx # t THEN UNCHANGED <<mtx, depth>>
  ELSE depth' = depth - 1 /\ mtx' = IF depth = 1 THEN NoThread ELSE t

\* Mutant: lock_count is not tested.
UnlockedEarly(t) ==
  /\ pc[t] = "unlocking"
  /\ owner' = NoThread /\ Goto(t, "out")
  /\ UNCHANGED <<lock_count, lock_by_mtx, mtx, depth, tries, held>>

Unlocked(t) ==
  /\ pc[t] = "unlocking"
  /\ IF lock_count # 0 THEN UNCHANGED <<owner, lock_by_mtx, mtx, depth>>
     ELSE IF lock_by_mtx = 1
          THEN lock_by_mtx' = 0 /\ mutex_unlock(t) /\ UNCHANGED owner
          ELSE owner' = NoThread /\ UNCHANGED <<lock_by_mtx, mtx, depth>>
  /\ Goto(t, "out")
  /\ UNCHANGED <<lock_count, tries, held>>

Steps(t) ==
  \/ Relock(t) \/ Lock(t) \/ Try(t) \/ Cas(t) \/ Locked(t)
  \/ Fallback(t) \/ Mutexed(t) \/ Unlock(t) \/ Unlocked(t)

Next == (\E t \in Thread : Steps(t)) /\ UNCHANGED count

Spec == Init /\ [][Next]_vars

\* A thread that is inside spin_lock or spin_unlock keeps running; nothing is
\* assumed of the callers.
Fairness ==
  \A t \in Thread :
    WF_vars((Try(t) \/ Cas(t) \/ Locked(t) \/ Unlocked(t)) /\ UNCHANGED count)

FairSpec == Spec /\ Fairness

-----------------------------------------------------------------------------
(* Properties.                                                             *)

\* What a lock is for: spin_lock returns 0 ("locked: returns 0") to one thread
\* at a time.
ReturnsLocked ==
  \A t, u \in Thread : held[t] > 0 /\ held[u] > 0 => t = u

\* A lock whose callers spin until they succeed (count 0) excludes, over all
\* interleavings of the steps of spin_lock and spin_unlock, nested calls
\* included.
MutualExclusion == count = 0 => ReturnsLocked

\* The count that decides when such a lock is given up is the number of
\* spin_lock calls outstanding: a nested spin_unlock never releases the lock
\* early, and the last one always does.
CountExact ==
  count = 0 =>
    \A t \in Thread : pc[t] = "out" =>
      /\ owner = t => held[t] > 0 /\ lock_count = held[t]
      /\ held[t] > 0 => owner = t

\* If holders keep giving the lock back, and count is 0, spinning threads do not block each
\* other for ever: whenever one spins, one of them gets the lock.
SomeoneLocks ==
  count = 0 /\ []<>(owner = NoThread) =>
    ((\E t \in Thread : pc[t] = "try") ~> (\E t \in Thread : pc[t] = "got"))

=============================================================================

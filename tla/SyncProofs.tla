----------------------------- MODULE SyncProofs -----------------------------
(***************************************************************************)
(* The locks, queues and waits that threads meet at: spinlock, blocking    *)
(* queue, barrier, suspend flag and log, for any number of threads.        *)
(***************************************************************************)
EXTENDS Spinlock, BlockQueue, Threads, Log, SeqLemmas

-----------------------------------------------------------------------------
(* spinlock.c.  With count = 0 it is a lock, for any nesting.  The         *)
(* inductive invariant ties owner to the control points of the threads:    *)
(* the owner is the one thread that is past the compare-and-swap and not   *)
(* past the release, and lock_count is the number of its calls             *)
(* outstanding.                                                            *)

\* Past the compare-and-swap, and not past the release.
Inside(t) == held[t] > 0 \/ pc[t] \in {"got", "unlocking"}

\* A thread that is inside owns the lock, the count is its depth, and with
\* count = 0 the mutex path is never taken.
OwnerInv ==
  count = 0 =>
    /\ \A t \in Thread : Inside(t) <=> owner = t
    /\ \A t \in Thread : owner = t => lock_count = held[t]
    /\ \A t \in Thread : pc[t] = "got" => held[t] = 0
    /\ \A t \in Thread : pc[t] \in {"try", "cas"} => held[t] = 0
    /\ \A t \in Thread : pc[t] \notin {"fallback", "mutexed"}
    /\ owner = NoThread => lock_count = 0
    /\ lock_by_mtx = 0

\* What the types need: an attempt is left in the loop that counts them, and a
\* thread that is locking has not reached the depth bound.
AttemptInv ==
  /\ \A t \in Thread : pc[t] \in {"try", "cas"} /\ count # 0 => tries[t] > 0
  /\ \A t \in Thread : pc[t] \notin {"out", "unlocking"} => held[t] < MaxDepth

SpinInv == TypeOK /\ AttemptInv /\ OwnerInv

LEMMA SpinInit == Init => SpinInv
  BY SpinAssumption DEF Init, SpinInv, TypeOK, AttemptInv, OwnerInv, Inside, Points

LEMMA SpinStep ==
  ASSUME SpinInv, [Next]_vars
  PROVE  SpinInv'
<1> USE SpinAssumption
<1>1. ASSUME UNCHANGED vars PROVE SpinInv'
  BY <1>1 DEF vars, SpinInv, TypeOK, AttemptInv, OwnerInv, Inside
<1>2. ASSUME NEW t \in Thread, Steps(t), count' = count PROVE SpinInv'
  <2> USE DEF SpinInv, TypeOK, AttemptInv, OwnerInv, Inside, Goto, Points
  <2>1. CASE Relock(t)   BY <1>2, <2>1 DEF Relock
  <2>2. CASE Lock(t)     BY <1>2, <2>2 DEF Lock
  <2>3. CASE Try(t)      BY <1>2, <2>3 DEF Try, Attempt
  <2>4. CASE Cas(t)      BY <1>2, <2>4 DEF Cas, Attempt
  <2>5. CASE Locked(t)   BY <1>2, <2>5 DEF Locked
  <2>6. CASE Fallback(t) BY <1>2, <2>6 DEF Fallback
  <2>7. CASE Mutexed(t)  BY <1>2, <2>7 DEF Mutexed
  <2>8. CASE Unlock(t)   BY <1>2, <2>8 DEF Unlock
  <2>9. CASE Unlocked(t) BY <1>2, <2>9 DEF Unlocked, mutex_unlock
  <2> QED BY <1>2, <2>1, <2>2, <2>3, <2>4, <2>5, <2>6, <2>7, <2>8, <2>9 DEF Steps
<1> QED BY <1>1, <1>2 DEF Next

\* Type correctness; with a limit on the attempts, their number never goes below
\* zero.
THEOREM SpinTypes ==
  Spec => []TypeOK
<1>1. SpinInv /\ [Next]_vars => SpinInv'  BY SpinStep
<1>2. SpinInv => TypeOK  BY DEF SpinInv
<1> QED BY SpinInit, <1>1, <1>2, PTL DEF Spec

\* spin_lock(l, 0) never returns to two threads at once.
THEOREM SpinExcludes ==
  Spec => []MutualExclusion
<1>1. SpinInv /\ [Next]_vars => SpinInv'  BY SpinStep
<1>2. SpinInv => MutualExclusion
  BY DEF SpinInv, TypeOK, OwnerInv, Inside, MutualExclusion, ReturnsLocked
<1> QED BY SpinInit, <1>1, <1>2, PTL DEF Spec

\* The recursion count is exact, so the outermost spin_unlock, and no other,
\* releases the lock.
THEOREM SpinCountsExactly ==
  Spec => []CountExact
<1>1. SpinInv /\ [Next]_vars => SpinInv'  BY SpinStep
<1>2. SpinInv => CountExact
  BY DEF SpinInv, TypeOK, OwnerInv, Inside, CountExact
<1> QED BY SpinInit, <1>1, <1>2, PTL DEF Spec

-----------------------------------------------------------------------------
(* The blocking queue of link_list.c.  With one consumer it loses no       *)
(* wake-up, for any number of producers and items: the one consumer sleeps *)
(* on a non-empty list only while a producer owes it a signal.             *)
(*                                                                         *)
(* With any number of consumers items leave once each and in the order of  *)
(* the pushes: a pop moves the head of l to the end of got and leaves      *)
(* got \o l as it is, a push appends a number larger than all before.      *)

SignalOwed ==
  l # <<>> /\ (\E c \in Consumer : cpc[c] = "waiting") => signalling # {}

\* The part of the type invariant the argument needs.
ConsumerPoints == cpc \in [Consumer -> {"out", "waiting", "woken"}]

QueueInv == ConsumerPoints /\ SignalOwed

LEMMA SignalStep ==
  ASSUME \A c, d \in Consumer : c = d, QueueInv, [QNext]_qvars
  PROVE  QueueInv'
<1> USE DEF QueueInv, ConsumerPoints, SignalOwed, QGoto
<1>1. ASSUME NEW p \in Producer, block_queue_push(p) PROVE QueueInv'
  BY <1>1 DEF block_queue_push
<1>2. ASSUME NEW p \in Producer, PushSignal(p) PROVE QueueInv'
  BY <1>2 DEF PushSignal, condition_signal
<1>3. CASE block_queue_force_wakeup BY <1>3 DEF block_queue_force_wakeup
<1>4. CASE ForceSignal BY <1>4 DEF ForceSignal, condition_signal
<1>5. CASE block_queue_clear BY <1>5 DEF block_queue_clear
<1>6. ASSUME NEW c \in Consumer, NEW w \in Waits, block_queue_pop(c, w) PROVE QueueInv'
  BY <1>6 DEF block_queue_pop, TakeOrWait
<1>7. ASSUME NEW c \in Consumer, Resume(c) PROVE QueueInv'
  BY <1>7 DEF Resume, TakeOrWait
<1>8. ASSUME NEW c \in Consumer, TimeOut(c) \/ Spurious(c) PROVE QueueInv'
  BY <1>8 DEF TimeOut, Spurious
<1>9. CASE UNCHANGED qvars BY <1>9 DEF qvars
<1> QED BY <1>1, <1>2, <1>3, <1>4, <1>5, <1>6, <1>7, <1>8, <1>9 DEF QNext, Pop

\* A single consumer of block_queue_pop never sleeps on a queue that holds items
\* without a signal on its way.
THEOREM OneConsumerWakes ==
  ASSUME \A c, d \in Consumer : c = d
  PROVE  QSpec => []WakeupPending
<1>1. QInit => QueueInv  BY DEF QInit, QueueInv, ConsumerPoints, SignalOwed
<1>2. QueueInv /\ [QNext]_qvars => QueueInv'  BY SignalStep
<1>3. QueueInv => WakeupPending  BY DEF QueueInv, SignalOwed, WakeupPending
<1> QED BY <1>1, <1>2, <1>3, PTL DEF QSpec

-----------------------------------------------------------------------------
(* FIFO, each item once.                                                   *)

\* What list_pop and the caller do together leaves the order of all items.
LEMMA PopMoves ==
  ASSUME NEW g \in Seq(Nat), NEW q \in Seq(Nat), q # <<>>
  PROVE  /\ Append(g, Head(q)) \in Seq(Nat) /\ Tail(q) \in Seq(Nat)
         /\ Append(g, Head(q)) \o Tail(q) = g \o q
<1>1. Append(g, Head(q)) \in Seq(Nat) /\ Tail(q) \in Seq(Nat)  OBVIOUS
<1>2. Append(g, Head(q)) \o Tail(q) \in Seq(Nat) /\ g \o q \in Seq(Nat)  BY <1>1
<1>3. Len(Append(g, Head(q)) \o Tail(q)) = Len(g \o q)  BY <1>1
<1>4. ASSUME NEW i \in 1 .. Len(g \o q)
      PROVE  (Append(g, Head(q)) \o Tail(q))[i] = (g \o q)[i]
  BY <1>1, <1>4
<1> QED BY <1>1, <1>2, <1>3, <1>4

LEMMA PushAppends ==
  ASSUME NEW g \in Seq(Nat), NEW q \in Seq(Nat), NEW x \in Nat
  PROVE  g \o Append(q, x) = Append(g \o q, x)
<1>1. g \o Append(q, x) \in Seq(Nat) /\ Append(g \o q, x) \in Seq(Nat)  OBVIOUS
<1>2. Len(g \o Append(q, x)) = Len(Append(g \o q, x))  OBVIOUS
<1>3. ASSUME NEW i \in 1 .. Len(Append(g \o q, x))
      PROVE  (g \o Append(q, x))[i] = Append(g \o q, x)[i]
  BY <1>3
<1> QED BY <1>1, <1>2, <1>3

LEMMA ItemsAppend ==
  ASSUME NEW q \in Seq(Nat), NEW x \in Nat
  PROVE  ItemsIn(Append(q, x)) = ItemsIn(q) \cup {x}
<1>1. \A i \in 1 .. Len(q) : Append(q, x)[i] = q[i]  OBVIOUS
<1>2. Append(q, x)[Len(q) + 1] = x  OBVIOUS
<1>3. DOMAIN Append(q, x) = 1 .. (Len(q) + 1) /\ DOMAIN q = 1 .. Len(q)  OBVIOUS
<1>4. 1 .. (Len(q) + 1) = 1 .. Len(q) \cup {Len(q) + 1}  OBVIOUS
<1> QED BY <1>1, <1>2, <1>3, <1>4, Zenon DEF ItemsIn

LEMMA ItemsConcat ==
  ASSUME NEW g \in Seq(Nat), NEW q \in Seq(Nat)
  PROVE  ItemsIn(g \o q) = ItemsIn(g) \cup ItemsIn(q)
<1>1. \A i \in 1 .. Len(g) : i \in 1 .. Len(g \o q) /\ (g \o q)[i] = g[i]  OBVIOUS
<1>2. \A i \in 1 .. Len(q) :
        i + Len(g) \in 1 .. Len(g \o q) /\ (g \o q)[i + Len(g)] = q[i]
  OBVIOUS
<1>3. \A i \in 1 .. Len(g \o q) :
        \/ i \in 1 .. Len(g) /\ (g \o q)[i] = g[i]
        \/ i - Len(g) \in 1 .. Len(q) /\ (g \o q)[i] = q[i - Len(g)]
  OBVIOUS
<1>4. /\ DOMAIN g = 1 .. Len(g) /\ DOMAIN q = 1 .. Len(q)
      /\ DOMAIN (g \o q) = 1 .. Len(g \o q)
  OBVIOUS
<1>5. ItemsIn(g \o q) \subseteq ItemsIn(g) \cup ItemsIn(q)  BY <1>3, <1>4, Zenon DEF ItemsIn
<1>6. ItemsIn(g) \subseteq ItemsIn(g \o q)  BY <1>1, <1>4, Zenon DEF ItemsIn
<1>7. ItemsIn(q) \subseteq ItemsIn(g \o q)  BY <1>2, <1>4, Zenon DEF ItemsIn
<1> QED BY <1>5, <1>6, <1>7

\* The list and the ghost sequence hold numbers of items that were pushed.
QueueTypes == l \in Seq(Nat) /\ got \in Seq(Nat) /\ pushed \in Nat

FifoInv == QueueTypes /\ FifoOnce

LEMMA FifoPush ==
  ASSUME NEW p \in Producer, FifoInv, block_queue_push(p)
  PROVE  FifoInv'
<1> DEFINE q == got \o l
<1>1. /\ QueueTypes /\ l' = Append(l, pushed + 1) /\ pushed' = pushed + 1
      /\ got' = got /\ cleared' = cleared
  BY DEF FifoInv, block_queue_push
<1>2. QueueTypes'  BY <1>1 DEF QueueTypes
<1>3. q \in Seq(Nat) /\ pushed + 1 \in Nat  BY <1>1 DEF QueueTypes
<1>4. (got \o l)' = Append(q, pushed + 1)
  BY <1>1, PushAppends DEF QueueTypes
<1>5. /\ \A i, j \in DOMAIN q : i < j => q[i] < q[j]
      /\ ItemsIn(q) \cup cleared = 1 .. pushed
      /\ ItemsIn(q) \cap cleared = {}
  BY DEF FifoInv, FifoOnce
<1> HIDE DEF q
<1>6. ItemsIn(Append(q, pushed + 1)) = ItemsIn(q) \cup {pushed + 1}
  BY <1>3, ItemsAppend
<1>7. 1 .. (pushed + 1) = 1 .. pushed \cup {pushed + 1} /\ pushed + 1 \notin 1 .. pushed
  BY <1>1 DEF QueueTypes
<1>8. \A i \in DOMAIN q : q[i] \in 1 .. pushed  BY <1>5, Zenon DEF ItemsIn
<1>9. ASSUME NEW i \in DOMAIN Append(q, pushed + 1),
             NEW j \in DOMAIN Append(q, pushed + 1), i < j
      PROVE  Append(q, pushed + 1)[i] < Append(q, pushed + 1)[j]
  <2>1. i \in 1 .. Len(q) /\ Append(q, pushed + 1)[i] = q[i]  BY <1>3, <1>9
  <2>2. CASE j \in 1 .. Len(q)
    <3>1. Append(q, pushed + 1)[j] = q[j]  BY <1>3, <2>2
    <3> QED BY <1>3, <1>5, <1>9, <2>1, <2>2, <3>1
  <2>3. CASE j = Len(q) + 1
    <3>1. Append(q, pushed + 1)[j] = pushed + 1  BY <1>3, <2>3
    <3>2. q[i] \in 1 .. pushed  BY <1>3, <1>8, <2>1
    <3> QED BY <1>1, <2>1, <3>1, <3>2 DEF QueueTypes
  <2> QED BY <1>3, <1>9, <2>2, <2>3
<1>10. /\ ItemsIn(Append(q, pushed + 1)) \cup cleared = 1 .. (pushed + 1)
       /\ ItemsIn(Append(q, pushed + 1)) \cap cleared = {}
  BY <1>5, <1>6, <1>7
<1> QED BY <1>1, <1>2, <1>4, <1>9, <1>10 DEF FifoInv, FifoOnce

LEMMA FifoClear ==
  ASSUME FifoInv, block_queue_clear
  PROVE  FifoInv'
<1> DEFINE q == got \o l
<1>1. /\ got \in Seq(Nat) /\ l \in Seq(Nat) /\ pushed \in Nat
      /\ l' = <<>> /\ cleared' = cleared \cup ItemsIn(l)
      /\ pushed' = pushed /\ got' = got
  BY DEF FifoInv, QueueTypes, block_queue_clear
<1>2. got \o <<>> = got  BY <1>1
<1>3. /\ \A i, j \in DOMAIN q : i < j => q[i] < q[j]
      /\ ItemsIn(q) \cup cleared = 1 .. pushed
      /\ ItemsIn(q) \cap cleared = {}
  BY DEF FifoInv, FifoOnce
<1>4. ItemsIn(q) = ItemsIn(got) \cup ItemsIn(l)  BY <1>1, ItemsConcat
<1>5. \A i \in 1 .. Len(got) : i \in DOMAIN q /\ q[i] = got[i]  BY <1>1
<1>6. \A i \in 1 .. Len(l) : i + Len(got) \in DOMAIN q /\ q[i + Len(got)] = l[i]  BY <1>1
<1>7. DOMAIN got = 1 .. Len(got) /\ DOMAIN l = 1 .. Len(l)  BY <1>1
<1>8. ASSUME NEW i \in DOMAIN got, NEW j \in DOMAIN got, i < j
      PROVE  got[i] < got[j]
  BY <1>3, <1>5, <1>7, <1>8
<1>9. ASSUME NEW i \in DOMAIN got, NEW j \in DOMAIN l PROVE got[i] # l[j]
  <2>1. i < j + Len(got)  BY <1>1, <1>7, <1>9
  <2>2. got[i] < l[j]
    <3> HIDE DEF q
    <3> QED BY <1>3, <1>5, <1>6, <1>7, <1>9, <2>1
  <2>3. got[i] \in Nat /\ l[j] \in Nat  BY <1>1, <1>9
  <2> QED BY <2>2, <2>3
<1>10. ItemsIn(got) \cap ItemsIn(l) = {}  BY <1>9, Zenon DEF ItemsIn
<1> HIDE DEF q
<1>11. /\ ItemsIn(got) \cup (cleared \cup ItemsIn(l)) = 1 .. pushed
       /\ ItemsIn(got) \cap (cleared \cup ItemsIn(l)) = {}
  BY <1>3, <1>4, <1>10
<1> QED BY <1>1, <1>2, <1>8, <1>11 DEF FifoInv, QueueTypes, FifoOnce

\* The other steps leave got \o l, cleared and pushed as they are.
LEMMA FifoSame ==
  ASSUME FifoInv, QueueTypes', (got \o l)' = got \o l,
         cleared' = cleared, pushed' = pushed
  PROVE  FifoInv'
BY DEF FifoInv, FifoOnce

LEMMA FifoTake ==
  ASSUME NEW c \in Consumer, NEW w \in Int, FifoInv, TakeOrWait(c, w)
  PROVE  QueueTypes /\ l' \in Seq(Nat) /\ got' \in Seq(Nat) /\ (got \o l)' = got \o l
<1>1. QueueTypes  BY DEF FifoInv
<1>2. CASE l # <<>> /\ got' = Append(got, Head(l)) /\ l' = Tail(l)
  BY <1>1, <1>2, PopMoves DEF QueueTypes
<1>3. CASE UNCHANGED <<l, got>>  BY <1>1, <1>3 DEF QueueTypes
<1> QED BY <1>2, <1>3 DEF TakeOrWait

LEMMA FifoStep ==
  ASSUME FifoInv, ms \in [Consumer -> Int], [QNext]_qvars
  PROVE  FifoInv'
<1>1. QueueTypes  BY DEF FifoInv
<1>2. CASE UNCHANGED <<l, got, pushed, cleared>>
  BY <1>1, <1>2, FifoSame DEF QueueTypes
<1>3. ASSUME NEW p \in Producer, block_queue_push(p) PROVE FifoInv'
  BY <1>3, FifoPush
<1>4. ASSUME NEW p \in Producer, PushSignal(p) PROVE FifoInv'
  BY <1>2, <1>4 DEF PushSignal
<1>5. CASE block_queue_force_wakeup BY <1>2, <1>5 DEF block_queue_force_wakeup
<1>6. CASE ForceSignal BY <1>2, <1>6 DEF ForceSignal
<1>7. CASE block_queue_clear BY <1>7, FifoClear
<1>8. ASSUME NEW c \in Consumer, NEW w \in Waits, block_queue_pop(c, w) PROVE FifoInv'
  <2>1. w \in Int  BY QueueAssumption
  <2>2. l' \in Seq(Nat) /\ got' \in Seq(Nat) /\ (got \o l)' = got \o l
    BY <1>8, <2>1, FifoTake DEF block_queue_pop
  <2> QED BY <1>1, <1>8, <2>2, FifoSame DEF block_queue_pop, QueueTypes
<1>9. ASSUME NEW c \in Consumer, Resume(c) PROVE FifoInv'
  <2>1. CASE UNCHANGED <<l, got>>  BY <1>2, <1>9, <2>1 DEF Resume
  <2>2. CASE TakeOrWait(c, ms[c])
    <3>1. l' \in Seq(Nat) /\ got' \in Seq(Nat) /\ (got \o l)' = got \o l
      BY <2>2, FifoTake
    <3> QED BY <1>1, <1>9, <3>1, FifoSame DEF Resume, QueueTypes
  <2> QED BY <1>9, <2>1, <2>2 DEF Resume
<1>10. ASSUME NEW c \in Consumer, TimeOut(c) \/ Spurious(c) PROVE FifoInv'
  BY <1>2, <1>10 DEF TimeOut, Spurious
<1>11. CASE UNCHANGED qvars BY <1>2, <1>11 DEF qvars
<1> QED
  BY <1>3, <1>4, <1>5, <1>6, <1>7, <1>8, <1>9, <1>10, <1>11 DEF QNext, Pop

LEMMA WaitArgument ==
  ASSUME ms \in [Consumer -> Int], [QNext]_qvars
  PROVE  ms' \in [Consumer -> Int]
<1>1. CASE UNCHANGED ms  BY <1>1
<1>2. ASSUME NEW c \in Consumer, NEW w \in Waits, block_queue_pop(c, w)
      PROVE  ms' \in [Consumer -> Int]
  BY <1>2, QueueAssumption DEF block_queue_pop
<1> QED
  BY <1>1, <1>2 DEF QNext, qvars, Pop, block_queue_push, PushSignal, ForceSignal,
     block_queue_force_wakeup, block_queue_clear, Resume, TimeOut, Spurious

\* Over any number of producers and consumers, time-outs, forced wake-ups and
\* clears, block_queue_pop hands items out once each in the order of the pushes.
THEOREM ItemsLeaveOnce == QSpec => []FifoOnce
<1> DEFINE Inv == FifoInv /\ ms \in [Consumer -> Int]
<1>1. QInit => Inv
  <2> SUFFICES ASSUME QInit PROVE Inv  OBVIOUS
  <2>1. /\ l = <<>> /\ got = <<>> /\ pushed = 0 /\ cleared = {}
        /\ ms = [c \in Consumer |-> 0]
    BY DEF QInit
  <2>2. got \o l = <<>> /\ ItemsIn(<<>>) = {} /\ 1 .. 0 = {}  BY <2>1 DEF ItemsIn
  <2> QED BY <2>1, <2>2 DEF FifoInv, QueueTypes, FifoOnce
<1>2. Inv /\ [QNext]_qvars => Inv'  BY FifoStep, WaitArgument
<1>3. Inv => FifoOnce  BY DEF FifoInv
<1> QED BY <1>1, <1>2, <1>3, PTL DEF QSpec

-----------------------------------------------------------------------------
(* thread.c and the barrier of sync.c, for any count the barrier is        *)
(* created with.  WaitsHonest speaks of threads that main has joined; the  *)
(* strengthening follows a thread from there back: joined threads have     *)
(* ended, a thread ends only after it has met the others, and one that has *)
(* met them is past the barrier or at it.                                  *)

ThreadPoints == {"run", "wait", "timed", "awake", "timeup", "bwait", "bawake", "end"}

ThreadTypes ==
  /\ tpc \in [PThread -> ThreadPoints]
  /\ is_suspend \in [PThread -> BOOLEAN]
  /\ wait_count \in Int
  /\ met \subseteq PThread /\ passed \subseteq PThread /\ joined \subseteq PThread

\* Where a thread stands, from main's join back to the barrier.
Stages ==
  \A t \in PThread :
    /\ t \in joined => tpc[t] = "end"
    /\ tpc[t] = "end" => t \in met
    /\ t \in met => t \in passed \/ tpc[t] \in {"bwait", "bawake"}

WaitInv ==
  /\ ThreadTypes /\ Stages /\ SuspendedReachable
  /\ passed # {} => wait_count <= 0

LEMMA BarriorStep ==
  ASSUME NEW t \in PThread, WaitInv, barrior_wait(t)
  PROVE  WaitInv'
<1> USE DEF WaitInv, ThreadTypes
<1>1. ThreadTypes'  BY DEF barrior_wait, ThreadPoints
<1>2. /\ passed' = IF wait_count > 1 THEN passed ELSE passed \cup {t}
      /\ wait_count' = wait_count - 1 /\ met' = met \cup {t}
      /\ joined' = joined /\ is_suspend' = is_suspend
  BY DEF barrior_wait
<1>3. passed' # {} => wait_count' <= 0  BY <1>2
<1>4. \A u \in PThread : tpc'[u] = tpc[u] \/ tpc'[u] \in {"bwait", "bawake"}
  BY DEF barrior_wait
<1>5. SuspendedReachable'  BY <1>2, <1>4 DEF SuspendedReachable
<1>6. ASSUME NEW u \in PThread
      PROVE  /\ u \in joined' => tpc'[u] = "end"
             /\ tpc'[u] = "end" => u \in met'
             /\ u \in met' => u \in passed' \/ tpc'[u] \in {"bwait", "bawake"}
  <2>1. CASE u = t
    <3>1. tpc[t] = "run"  BY DEF barrior_wait
    <3>2. t \notin joined  BY <3>1 DEF Stages
    <3>3. \/ tpc'[t] = "bwait" /\ wait_count > 1
          \/ tpc'[t] = "run" /\ ~(wait_count > 1)
      BY <3>1 DEF barrior_wait
    <3> QED BY <1>2, <2>1, <3>2, <3>3
  <2>2. CASE u # t
    <3>1. tpc'[u] = tpc[u] \/ (tpc[u] = "bwait" /\ tpc'[u] = "bawake")
      BY <2>2 DEF barrior_wait
    <3>2. (u \in met' <=> u \in met) /\ (u \in passed => u \in passed')  BY <1>2, <2>2
    <3> QED BY <1>2, <3>1, <3>2 DEF Stages
  <2> QED BY <2>1, <2>2
<1> QED BY <1>1, <1>3, <1>5, <1>6 DEF Stages

LEMMA WaitStep ==
  ASSUME WaitInv, [TNext]_tvars
  PROVE  WaitInv'
<1> USE DEF WaitInv, ThreadTypes, ThreadPoints, Stages, SuspendedReachable
<1>1. ASSUME NEW t \in PThread, NEW how \in {"wait", "timed"}, thread_suspend(t, how)
      PROVE  WaitInv'
  BY <1>1 DEF thread_suspend
<1>2. ASSUME NEW t \in PThread, thread_resume(t) PROVE WaitInv'
  BY <1>2 DEF thread_resume
<1>3. ASSUME NEW t \in PThread, WaitEnds(t) PROVE WaitInv'
  BY <1>3 DEF WaitEnds
<1>4. ASSUME NEW t \in PThread, SuspendEnd(t) PROVE WaitInv'
  BY <1>4 DEF SuspendEnd
<1>5. ASSUME NEW t \in PThread, BarriorEnd(t) PROVE WaitInv'
  BY <1>5 DEF BarriorEnd
<1>6. ASSUME NEW t \in PThread, barrior_wait(t) PROVE WaitInv'
  BY <1>6, BarriorStep
<1>7. ASSUME NEW t \in PThread, End(t) PROVE WaitInv'
  BY <1>7 DEF End
<1>8. ASSUME NEW t \in PThread, thread_join(t) PROVE WaitInv'
  BY <1>8 DEF thread_join
<1>9. CASE UNCHANGED tvars  BY <1>9 DEF tvars
<1> QED
  BY <1>1, <1>2, <1>3, <1>4, <1>5, <1>6, <1>7, <1>8, <1>9 DEF TNext, Wakes

\* No thread gets past barrior_wait before the count it was created with has
\* come, main destroys it with nobody inside, and a thread that waits in
\* thread_suspend always has its flag up: whatever wake-ups come by themselves.
THEOREM WaitsAlwaysHonest == TSpec => []WaitsHonest
<1>1. TInit => WaitInv
  BY ThreadsAssumption
     DEF TInit, WaitInv, ThreadTypes, ThreadPoints, Stages, SuspendedReachable
<1>2. WaitInv /\ [TNext]_tvars => WaitInv'  BY WaitStep
<1>3. WaitInv => WaitsHonest
  <2> SUFFICES ASSUME WaitInv PROVE WaitsHonest  OBVIOUS
  <2>1. ASSUME destroyed PROVE met = PThread /\ passed = PThread
    <3>1. \A t \in PThread : tpc[t] = "end" /\ t \in met
      BY <2>1 DEF destroyed, WaitInv, Stages
    <3>2. \A t \in PThread : t \in passed  BY <3>1 DEF WaitInv, Stages
    <3> QED BY <3>1, <3>2 DEF WaitInv, ThreadTypes
  <2> QED BY <2>1 DEF WaitInv, WaitsHonest, BarrierHolds
<1> QED BY <1>1, <1>2, <1>3, PTL DEF TSpec

-----------------------------------------------------------------------------
(* log.c.  What the packets hold is followed byte by byte: a log is open,  *)
(* and file, worker's list and queue are the messages accepted, until the  *)
(* worker's last round stamps it with the close record; from then on the   *)
(* record stands behind at least what was promised.  The round has stamped *)
(* the logs it has come past, and those only.                              *)

LogPacket == Nat \X (0..(PacketSize - 1))
LogByte == Nat \X Nat
Message == Nat \ {0}

LEMMA LeftBytes ==
  ASSUME NEW p \in LogPacket
  PROVE  /\ Left(p) \in Seq(LogByte) /\ Len(Left(p)) = PacketSize - p[2]
         /\ \A b \in 1..(PacketSize - p[2]) : Left(p)[b] = <<p[1], p[2] + b>>
<1> DEFINE n == PacketSize - p[2]
<1>1. p[1] \in Nat /\ p[2] \in 0..(PacketSize - 1)  BY DEF LogPacket
<1>2. n \in Nat  BY <1>1, LogAssumption
<1>3. Left(p) = [b \in 1..n |-> <<p[1], p[2] + b>>]  BY DEF Left
<1>4. \A b \in 1..n : <<p[1], p[2] + b>> \in LogByte  BY <1>1, <1>2 DEF LogByte
<1> HIDE DEF n
<1>5. Left(p) \in Seq(LogByte) /\ Len(Left(p)) = n  BY <1>2, <1>3, <1>4
<1>6. \A b \in 1..n : Left(p)[b] = <<p[1], p[2] + b>>  BY <1>3
<1> QED BY <1>5, <1>6 DEF n

LeftAll(p) == [k \in DOMAIN p |-> Left(p[k])]

LEMMA LeftAllSeq ==
  ASSUME NEW p \in Seq(LogPacket)
  PROVE  LeftAll(p) \in Seq(Seq(LogByte)) /\ Len(LeftAll(p)) = Len(p)
<1>1. \A k \in 1..Len(p) : p[k] \in LogPacket  OBVIOUS
<1>2. \A k \in 1..Len(p) : Left(p[k]) \in Seq(LogByte)  BY <1>1, LeftBytes
<1>3. LeftAll(p) = [k \in 1..Len(p) |-> Left(p[k])] /\ Len(p) \in Nat  BY DEF LeftAll
<1> QED BY <1>2, <1>3

LEMMA BytesSeq ==
  ASSUME NEW p \in Seq(LogPacket)
  PROVE  Bytes(p) \in Seq(LogByte)
<1>1. Bytes(p) = Joined(LeftAll(p), Len(LeftAll(p)))  BY LeftAllSeq DEF Bytes, LeftAll
<1> QED BY <1>1, LeftAllSeq, JoinedSeq

LEMMA BytesCat ==
  ASSUME NEW p \in Seq(LogPacket), NEW q \in Seq(LogPacket)
  PROVE  Bytes(p \o q) = Bytes(p) \o Bytes(q)
<1> DEFINE u == p \o q
           a == LeftAll(p)
           b == LeftAll(q)
<1>1. u \in Seq(LogPacket) /\ Len(u) = Len(p) + Len(q)  OBVIOUS
<1>2. LeftAll(u) = a \o b
  <2>1. /\ LeftAll(u) = [k \in 1..(Len(p) + Len(q)) |-> Left(u[k])]
        /\ a = [k \in 1..Len(p) |-> Left(p[k])] /\ b = [k \in 1..Len(q) |-> Left(q[k])]
    BY <1>1 DEF LeftAll
  <2>2. /\ a \in Seq(Seq(LogByte)) /\ b \in Seq(Seq(LogByte)) /\ LeftAll(u) \in Seq(Seq(LogByte))
        /\ Len(a) = Len(p) /\ Len(b) = Len(q) /\ Len(LeftAll(u)) = Len(p) + Len(q)
    BY <1>1, LeftAllSeq
  <2>3. Len(p) \in Nat /\ Len(q) \in Nat  OBVIOUS
  <2>4. \A k \in 1..(Len(p) + Len(q)) : u[k] = IF k <= Len(p) THEN p[k] ELSE q[k - Len(p)]
    OBVIOUS
  <2> HIDE DEF a, b, u
  <2>5. a \o b \in Seq(Seq(LogByte)) /\ Len(a \o b) = Len(p) + Len(q)  BY <2>2
  <2>6. ASSUME NEW k \in 1..(Len(p) + Len(q)) PROVE LeftAll(u)[k] = (a \o b)[k]
    <3>1. (a \o b)[k] = IF k <= Len(p) THEN a[k] ELSE b[k - Len(p)]  BY <2>2, <2>3
    <3>2. CASE k <= Len(p)
      <4>1. k \in 1..Len(p)  BY <2>3, <3>2
      <4> QED BY <2>1, <2>4, <3>1, <3>2, <4>1
    <3>3. CASE ~(k <= Len(p))
      <4>1. k - Len(p) \in 1..Len(q)  BY <2>3, <3>3
      <4> QED BY <2>1, <2>4, <3>1, <3>3, <4>1
    <3> QED BY <3>2, <3>3
  <2> QED BY <2>2, <2>5, <2>6, SeqEqual
<1>3. a \in Seq(Seq(LogByte)) /\ b \in Seq(Seq(LogByte)) /\ Len(a) = Len(p) /\ Len(b) = Len(q)
  BY LeftAllSeq
<1>4. Bytes(p) = Joined(a, Len(a)) /\ Bytes(q) = Joined(b, Len(b))  BY <1>3 DEF Bytes, LeftAll
<1>5. Len(LeftAll(u)) = Len(u)  BY <1>1, LeftAllSeq
<1>6. Bytes(u) = Joined(LeftAll(u), Len(LeftAll(u)))  BY <1>5 DEF Bytes, LeftAll
<1> HIDE DEF a, b, u
<1>7. a \in Seq(Seq(LogByte)) /\ b \in Seq(Seq(LogByte))  BY <1>3
<1>8. Joined(a \o b, Len(a \o b)) = Joined(a, Len(a)) \o Joined(b, Len(b))  BY <1>7, JoinedCat
<1>9. Bytes(u) = Bytes(p) \o Bytes(q)  BY <1>2, <1>4, <1>6, <1>8
<1> QED BY <1>9 DEF u

LEMMA BytesFew ==
  /\ Bytes(<<>>) = <<>>
  /\ \A x \in LogPacket : Bytes(<<x>>) = Left(x)
<1>1. Bytes(<<>>) = <<>>
  <2>1. Len(<<>>) = 0  OBVIOUS
  <2> QED BY <2>1, JoinedNone DEF Bytes
<1>2. ASSUME NEW x \in LogPacket PROVE Bytes(<<x>>) = Left(x)
  <2> DEFINE p == <<x>>
             v == LeftAll(p)
  <2>1. p \in Seq(LogPacket) /\ Len(p) = 1 /\ p[1] = x /\ DOMAIN p = 1..1  OBVIOUS
  <2> HIDE DEF p
  <2>2. v \in Seq(Seq(LogByte)) /\ Len(v) = 1  BY <2>1, LeftAllSeq
  <2>3. v[1] = Left(x)  BY <2>1 DEF LeftAll
  <2>4. Bytes(p) = Joined(v, 1)  BY <2>1 DEF Bytes, LeftAll
  <2>5. v \in [1..1 -> Seq(LogByte)] /\ 1 \in Nat  BY <2>2
  <2> HIDE DEF v
  <2>6. PICK f \in [0..1 -> Seq(LogByte)] : Joins(f, v, 1)  BY <2>5, JoinedSteps
  <2>7. f[0] = <<>> /\ f[1] = f[0] \o v[1] /\ Joined(v, 1) = f[1]
    <3>1. 1 \in 1..1 /\ 1 - 1 = 0  OBVIOUS
    <3>2. f[1] = f[1 - 1] \o v[1]  BY <2>6, <3>1 DEF Joins
    <3> QED BY <2>6, <3>1, <3>2 DEF Joins
  <2>8. <<>> \o Left(x) = Left(x)  BY LeftBytes, ConcatEmptySeq
  <2> QED BY <2>3, <2>4, <2>7, <2>8 DEF p
<1> QED BY <1>1, <1>2

\* A byte written is the first one that was left.
LEMMA FinishByte ==
  ASSUME NEW p \in Seq(LogPacket), p # <<>>
  PROVE  /\ finish_byte(p) \in Seq(LogPacket)
         /\ \E b \in LogByte : Bytes(p) = <<b>> \o Bytes(finish_byte(p))
<1> DEFINE h == Head(p)
           t == Tail(p)
           b == <<h[1], h[2] + 1>>
<1>1. h \in LogPacket /\ t \in Seq(LogPacket) /\ p = <<h>> \o t /\ <<h>> \in Seq(LogPacket)
  OBVIOUS
<1>2. h[1] \in Nat /\ h[2] \in 0..(PacketSize - 1) /\ PacketSize \in Nat /\ PacketSize > 0
  BY <1>1, LogAssumption DEF LogPacket
<1>3. b \in LogByte  BY <1>2 DEF LogByte
<1> HIDE DEF h, t
<1>4. Bytes(p) = Left(h) \o Bytes(t)  BY <1>1, BytesCat, BytesFew
<1>5. Bytes(t) \in Seq(LogByte) /\ <<b>> \in Seq(LogByte)  BY <1>1, <1>3, BytesSeq
<1>6. /\ Left(h) \in Seq(LogByte) /\ Len(Left(h)) = PacketSize - h[2]
      /\ \A i \in 1..(PacketSize - h[2]) : Left(h)[i] = <<h[1], h[2] + i>>
  BY <1>1, LeftBytes
<1>7. CASE h[2] + 1 >= PacketSize
  <2>1. finish_byte(p) = t  BY <1>7 DEF finish_byte, h, t
  <2>2. PacketSize - h[2] = 1  BY <1>2, <1>7
  <2>3. Left(h) = <<b>>
    <3>1. Len(Left(h)) = 1 /\ Left(h)[1] = b  BY <1>6, <2>2
    <3>2. Len(<<b>>) = 1 /\ <<b>>[1] = b  OBVIOUS
    <3> HIDE DEF b
    <3>3. \A i \in 1..1 : i = 1  OBVIOUS
    <3>4. \A i \in 1..Len(Left(h)) : Left(h)[i] = <<b>>[i]  BY <3>1, <3>2, <3>3
    <3> QED BY <1>5, <1>6, <3>1, <3>2, <3>4, SeqEqual
  <2> QED BY <1>1, <1>3, <1>4, <2>1, <2>3
<1>8. CASE ~(h[2] + 1 >= PacketSize)
  <2> DEFINE g == b
  <2>1. finish_byte(p) = <<g>> \o t  BY <1>8 DEF finish_byte, h, t
  <2>2. g \in LogPacket /\ g[1] = h[1] /\ g[2] = h[2] + 1  BY <1>2, <1>8 DEF LogPacket
  <2> HIDE DEF g
  <2>3. <<g>> \in Seq(LogPacket) /\ <<g>> \o t \in Seq(LogPacket)  BY <1>1, <2>2
  <2>4. Bytes(<<g>> \o t) = Left(g) \o Bytes(t)  BY <1>1, <2>2, <2>3, BytesCat, BytesFew
  <2>5. /\ Left(g) \in Seq(LogByte) /\ Len(Left(g)) = PacketSize - g[2]
        /\ \A i \in 1..(PacketSize - g[2]) : Left(g)[i] = <<g[1], g[2] + i>>
    BY <2>2, LeftBytes
  <2> HIDE DEF b
  <2>6. Left(h) = <<b>> \o Left(g)
    <3> DEFINE m == PacketSize - h[2]
    <3>1. m \in Nat /\ PacketSize - g[2] = m - 1 /\ m >= 1  BY <1>2, <1>8, <2>2
    <3>2. <<b>> \o Left(g) \in Seq(LogByte) /\ Len(<<b>> \o Left(g)) = m  BY <1>5, <2>5, <3>1
    <3>3. ASSUME NEW i \in 1..m PROVE Left(h)[i] = (<<b>> \o Left(g))[i]
      <4>1. Left(h)[i] = <<h[1], h[2] + i>>  BY <1>6
      <4>2. CASE i = 1
        <5>1. (<<b>> \o Left(g))[i] = b  BY <1>5, <2>5, <3>1, <4>2
        <5> QED BY <4>1, <4>2, <5>1 DEF b
      <4>3. CASE i # 1
        <5>1. (<<b>> \o Left(g))[i] = Left(g)[i - 1]  BY <1>5, <2>5, <3>1, <4>3
        <5>2. i - 1 \in 1..(PacketSize - g[2])  BY <3>1, <4>3
        <5>3. Left(g)[i - 1] = <<h[1], (h[2] + 1) + (i - 1)>>  BY <2>2, <2>5, <5>2
        <5>4. (h[2] + 1) + (i - 1) = h[2] + i  BY <1>2, <3>1
        <5> QED BY <4>1, <5>1, <5>3, <5>4
      <4> QED BY <4>2, <4>3
    <3> QED BY <1>6, <3>2, <3>3, SeqEqual
  <2>7. (<<b>> \o Left(g)) \o Bytes(t) = <<b>> \o (Left(g) \o Bytes(t))
    BY <1>5, <2>5, ConcatAssociative
  <2> QED BY <1>3, <1>4, <2>1, <2>3, <2>4, <2>6, <2>7
<1> QED BY <1>7, <1>8


\* Writing off n bytes leaves what comes after them.
LEMMA AfterBytes ==
  ASSUME NEW p \in Seq(LogPacket), NEW n \in 0..Len(Bytes(p)), NEW f, f[0] = p,
         \A k \in 1..n : f[k - 1] \in Seq(LogPacket) /\ f[k - 1] # <<>>
                           => f[k] = finish_byte(f[k - 1])
  PROVE  \A k \in 0..n : f[k] \in Seq(LogPacket) /\ Bytes(f[k]) = RestOf(Bytes(p), k)
<1> DEFINE s == Bytes(p)
           P == [k \in 0..n |-> f[k] \in Seq(LogPacket) /\ Bytes(f[k]) = RestOf(s, k)]
<1>1. s \in Seq(LogByte) /\ Len(s) \in Nat /\ n \in Nat /\ n <= Len(s)  BY BytesSeq
<1>2. P \in [0..n -> BOOLEAN]  OBVIOUS
<1>3. P[0]
  <2>1. RestOf(s, 0) = s  BY <1>1 DEF RestOf
  <2>2. 0 \in 0..n  BY <1>1
  <2> QED BY <2>1, <2>2
<1> HIDE DEF s
<1>4. ASSUME NEW k \in 1..n, P[k - 1] PROVE P[k]
  <2>1. k - 1 \in 0..n /\ k \in 0..n /\ k <= Len(s) /\ k \in Nat  BY <1>1
  <2>2. f[k - 1] \in Seq(LogPacket) /\ Bytes(f[k - 1]) = RestOf(s, k - 1)  BY <1>4, <2>1
  <2> DEFINE q == f[k - 1]
             rest == RestOf(s, k)
  <2>3. RestOf(s, k - 1) = <<s[k]>> \o rest /\ s[k] \in LogByte /\ rest \in Seq(LogByte)
    <3>1. RestOf(s, k - 1) = SubSeq(s, k, Len(s)) /\ k \in 1..Len(s) /\ Len(s) \in k..Len(s)
      BY <1>1, <2>1 DEF RestOf
    <3>2. SubSeq(s, k, Len(s)) = <<s[k]>> \o SubSeq(s, k + 1, Len(s))
      BY <1>1, <3>1, SubSeqRecursiveFirst
    <3>3. rest = SubSeq(s, k + 1, Len(s))  BY DEF RestOf
    <3>4. SubSeq(s, k + 1, Len(s)) \in Seq(LogByte)  BY <1>1, <2>1
    <3>5. s[k] \in LogByte  BY <1>1, <3>1
    <3> HIDE DEF rest
    <3> QED BY <3>1, <3>2, <3>3, <3>4, <3>5
  <2> HIDE DEF q, rest
  <2>4. q \in Seq(LogPacket) /\ Bytes(q) = <<s[k]>> \o rest  BY <2>2, <2>3 DEF q
  <2>5. q # <<>>
    <3>1. <<s[k]>> \o rest # <<>>  BY <2>3
    <3> QED BY <2>4, <3>1, BytesFew
  <2>6. f[k] = finish_byte(q)  BY <2>4, <2>5 DEF q
  <2>7. PICK b \in LogByte : Bytes(q) = <<b>> \o Bytes(finish_byte(q))  BY <2>4, <2>5, FinishByte
  <2>8. f[k] \in Seq(LogPacket) /\ Bytes(f[k]) \in Seq(LogByte)
    BY <2>4, <2>5, <2>6, FinishByte, BytesSeq
  <2>9. <<s[k]>> \o rest = <<b>> \o Bytes(f[k])  BY <2>4, <2>6, <2>7
  <2>10. rest = Bytes(f[k])
    <3> DEFINE z == Bytes(f[k])
               c == s[k]
    <3>1. c \in LogByte /\ z \in Seq(LogByte) /\ <<c>> \o rest = <<b>> \o z
      BY <2>3, <2>8, <2>9
    <3> HIDE DEF z, c
    <3>2. rest \in Seq(LogByte)  BY <2>3
    <3>3. c \in LogByte /\ z \in Seq(LogByte)  BY <3>1
    <3>4. Tail(<<c>> \o rest) = rest  BY <3>2, <3>3
    <3>5. Tail(<<b>> \o z) = z  BY <3>3
    <3> QED BY <3>1, <3>4, <3>5 DEF z
  <2>11. f[k] \in Seq(LogPacket) /\ Bytes(f[k]) = RestOf(s, k)  BY <2>8, <2>10 DEF rest
  <2> QED BY <2>1, <2>11
<1> HIDE DEF P
<1>5. \A k \in 0..n : P[k]  BY <1>1, <1>2, <1>3, <1>4, Stepwise
<1> QED BY <1>5 DEF P, s

IsAfter(f, p, n) ==
  f = [k \in 0..n |-> IF k = 0 THEN p ELSE finish_byte(f[k - 1])]

LEMMA WriteFinish ==
  ASSUME NEW p \in Seq(LogPacket), NEW n \in 0..Len(Bytes(p))
  PROVE  /\ on_write_finish(p, n) \in Seq(LogPacket)
         /\ Bytes(p) = FirstOf(Bytes(p), n) \o Bytes(on_write_finish(p, n))
<1> DEFINE S == Seq(LogPacket)
           G == [k \in 1..n |-> [q \in S |-> IF q = <<>> THEN q ELSE finish_byte(q)]]
           c == CHOOSE f : IsAfter(f, p, n)
<1>1. n \in Nat /\ Bytes(p) \in Seq(LogByte)  BY BytesSeq
<1>2. \A q \in S : (IF q = <<>> THEN q ELSE finish_byte(q)) \in S  BY FinishByte
<1>3. G \in [1..n -> [S -> S]]  BY <1>2
<1>4. on_write_finish(p, n) = c[n]  BY DEF on_write_finish, IsAfter
<1>5. p \in S  OBVIOUS
<1> HIDE DEF c
<1>6. PICK f \in [0..n -> S] : Follows(f, p, G, n)
  <2> HIDE DEF S, G
  <2> QED BY <1>1, <1>3, <1>5, RecDefined
<1>7. f[0] = p  BY <1>6 DEF Follows
<1>8. \A k \in 1..n : f[k - 1] \in S /\ f[k - 1] # <<>> => f[k] = finish_byte(f[k - 1])
  BY <1>6 DEF Follows
<1>9. \A k \in 0..n : f[k] \in S /\ Bytes(f[k]) = RestOf(Bytes(p), k)
  BY <1>7, <1>8, AfterBytes
<1>10. ASSUME NEW k \in 1..n PROVE f[k] = finish_byte(f[k - 1])
  <2>1. k - 1 \in 0..n /\ k - 1 < Len(Bytes(p))  BY <1>1
  <2>2. f[k - 1] \in S /\ Bytes(f[k - 1]) = RestOf(Bytes(p), k - 1)  BY <1>9, <2>1
  <2>3. Len(RestOf(Bytes(p), k - 1)) > 0  BY <1>1, <2>1 DEF RestOf
  <2>4. f[k - 1] # <<>>
    <3>1. Len(<<>>) = 0  OBVIOUS
    <3> QED BY <2>2, <2>3, <3>1, BytesFew
  <2> QED BY <1>8, <2>2, <2>4
<1>11. IsAfter(f, p, n)
  <2>1. f = [k \in 0..n |-> f[k]]  OBVIOUS
  <2>2. \A k \in 0..n : k = 0 \/ k \in 1..n  BY <1>1
  <2>3. \A k \in 0..n : f[k] = IF k = 0 THEN p ELSE finish_byte(f[k - 1])  BY <1>7, <1>10, <2>2
  <2> QED BY <2>1, <2>3 DEF IsAfter
<1>12. IsAfter(c, p, n)  BY <1>11 DEF c
<1>13. c[0] = p /\ \A k \in 1..n : c[k] = finish_byte(c[k - 1])
  <2>1. \A k \in 0..n : c[k] = IF k = 0 THEN p ELSE finish_byte(c[k - 1])  BY <1>12 DEF IsAfter
  <2>2. 0 \in 0..n /\ \A k \in 1..n : k \in 0..n /\ k # 0  BY <1>1
  <2> QED BY <2>1, <2>2
<1>14. \A k \in 0..n : c[k] \in S /\ Bytes(c[k]) = RestOf(Bytes(p), k)  BY <1>13, AfterBytes
<1>15. n \in 0..n  BY <1>1
<1>16. c[n] \in S /\ Bytes(c[n]) = RestOf(Bytes(p), n)  BY <1>14, <1>15
<1>17. Bytes(p) = FirstOf(Bytes(p), n) \o RestOf(Bytes(p), n)  BY <1>1, CutJoined
<1> QED BY <1>4, <1>16, <1>17


Fresh(s) == [k \in DOMAIN s |-> Packet(s[k])]

LEMMA FreshSeq ==
  ASSUME NEW s \in Seq(Nat)
  PROVE  /\ Fresh(s) \in Seq(LogPacket) /\ Len(Fresh(s)) = Len(s)
         /\ \A k \in 1..Len(s) : Fresh(s)[k] = <<s[k], 0>>
<1>1. \A k \in 1..Len(s) : s[k] \in Nat  OBVIOUS
<1>2. \A k \in 1..Len(s) : <<s[k], 0>> \in LogPacket  BY <1>1, LogAssumption DEF LogPacket
<1>3. Fresh(s) = [k \in 1..Len(s) |-> <<s[k], 0>>] /\ Len(s) \in Nat  BY DEF Fresh, Packet
<1> QED BY <1>2, <1>3

LEMMA TextsSeq ==
  ASSUME NEW s \in Seq(Nat)
  PROVE  Texts(s) = Bytes(Fresh(s)) /\ Texts(s) \in Seq(LogByte)
<1>1. Texts(s) = Bytes(Fresh(s))  BY DEF Texts, Fresh
<1> QED BY <1>1, FreshSeq, BytesSeq

LEMMA TextsCat ==
  ASSUME NEW s \in Seq(Nat), NEW t \in Seq(Nat)
  PROVE  Texts(s \o t) = Texts(s) \o Texts(t)
<1> DEFINE u == s \o t
           a == Fresh(s)
           b == Fresh(t)
           n == Len(s)
           m == Len(t)
<1>1. u \in Seq(Nat) /\ Len(u) = n + m /\ n \in Nat /\ m \in Nat  OBVIOUS
<1>2. \A k \in 1..(n + m) : u[k] = IF k <= n THEN s[k] ELSE t[k - n]  OBVIOUS
<1>3. /\ a \in Seq(LogPacket) /\ Len(a) = n /\ (\A k \in 1..n : a[k] = <<s[k], 0>>)
      /\ b \in Seq(LogPacket) /\ Len(b) = m /\ (\A k \in 1..m : b[k] = <<t[k], 0>>)
  BY FreshSeq
<1> HIDE DEF u
<1>4. /\ Fresh(u) \in Seq(LogPacket) /\ Len(Fresh(u)) = n + m
      /\ \A k \in 1..(n + m) : Fresh(u)[k] = <<u[k], 0>>
  BY <1>1, FreshSeq
<1> HIDE DEF a, b, n, m
<1>5. a \in Seq(LogPacket) /\ b \in Seq(LogPacket) /\ Len(a) = n /\ Len(b) = m  BY <1>3
<1>6. a \o b \in Seq(LogPacket) /\ Len(a \o b) = n + m  BY <1>5, ConcatProperties
<1>7. ASSUME NEW k \in 1..(n + m) PROVE Fresh(u)[k] = (a \o b)[k]
  <2>1. (a \o b)[k] = IF k <= n THEN a[k] ELSE b[k - n]  BY <1>1, <1>5, ConcatProperties
  <2>2. CASE k <= n
    <3>1. k \in 1..n  BY <1>1, <2>2
    <3> QED BY <1>2, <1>3, <1>4, <2>1, <2>2, <3>1
  <2>3. CASE ~(k <= n)
    <3>1. k - n \in 1..m  BY <1>1, <2>3
    <3> QED BY <1>2, <1>3, <1>4, <2>1, <2>3, <3>1
  <2> QED BY <2>2, <2>3
<1>8. Fresh(u) = a \o b  BY <1>4, <1>6, <1>7, SeqEqual
<1>9. Bytes(a \o b) = Bytes(a) \o Bytes(b)  BY <1>3, BytesCat
<1>10. Texts(u) = Bytes(Fresh(u))  BY <1>1, TextsSeq
<1>11. Texts(s) = Bytes(a) /\ Texts(t) = Bytes(b)  BY TextsSeq DEF a, b
<1> QED BY <1>8, <1>9, <1>10, <1>11 DEF u

LEMMA TextsFew ==
  /\ Texts(<<>>) = <<>>
  /\ \A m \in Nat : Texts(<<m>>) = Left(Packet(m)) /\ Packet(m) \in LogPacket
<1>1. Texts(<<>>) = <<>>
  <2>1. <<>> \in Seq(Nat) /\ Len(<<>>) = 0  OBVIOUS
  <2>2. Fresh(<<>>) \in Seq(LogPacket) /\ Len(Fresh(<<>>)) = 0  BY <2>1, FreshSeq
  <2>3. Fresh(<<>>) = <<>>  BY <2>2
  <2> QED BY <2>1, <2>3, TextsSeq, BytesFew
<1>2. ASSUME NEW m \in Nat PROVE Texts(<<m>>) = Left(Packet(m)) /\ Packet(m) \in LogPacket
  <2> DEFINE s == <<m>>
             p == Packet(m)
  <2>1. s \in Seq(Nat) /\ Len(s) = 1 /\ s[1] = m  OBVIOUS
  <2>2. p \in LogPacket /\ p = <<m, 0>>  BY LogAssumption DEF Packet, LogPacket
  <2> HIDE DEF s, p
  <2>3. /\ Fresh(s) \in Seq(LogPacket) /\ Len(Fresh(s)) = 1
        /\ \A k \in 1..1 : Fresh(s)[k] = <<s[k], 0>>
    BY <2>1, FreshSeq
  <2>4. Fresh(s)[1] = p  BY <2>1, <2>2, <2>3
  <2>5. Fresh(s) = <<p>>
    <3>1. <<p>> \in Seq(LogPacket) /\ Len(<<p>>) = 1 /\ <<p>>[1] = p  BY <2>2
    <3>2. \A k \in 1..1 : k = 1  OBVIOUS
    <3>3. \A k \in 1..Len(Fresh(s)) : Fresh(s)[k] = <<p>>[k]  BY <2>3, <2>4, <3>1, <3>2
    <3> QED BY <2>3, <3>1, <3>3, SeqEqual
  <2>6. Texts(s) = Bytes(<<p>>)  BY <2>1, <2>5, TextsSeq
  <2>7. Bytes(<<p>>) = Left(p)  BY <2>2, BytesFew
  <2> QED BY <2>2, <2>6, <2>7 DEF s, p
<1> QED BY <1>1, <1>2

\* A log in the files and lists: what was accepted, and from the last round of
\* the worker on, the close record behind all that was promised.
OpenLog(fi, pe, qu, ac) == (fi \o Bytes(pe)) \o Bytes(qu) = Texts(ac)
StampedLog(fi, pe, qu, ac, n) ==
  \E j \in n..Len(ac) :
    /\ fi \o Bytes(pe) = Texts(FirstOf(ac, j)) \o Left(Packet(CloseRecord))
    /\ Bytes(qu) = Texts(RestOf(ac, j))

LogTyped(fi, pe, qu, ac) ==
  /\ fi \in Seq(LogByte) /\ pe \in Seq(LogPacket)
  /\ qu \in Seq(LogPacket) /\ ac \in Seq(Message)

LEMMA LogParts ==
  ASSUME NEW fi, NEW pe, NEW qu, NEW ac, LogTyped(fi, pe, qu, ac)
  PROVE  /\ fi \in Seq(LogByte) /\ pe \in Seq(LogPacket) /\ qu \in Seq(LogPacket)
         /\ ac \in Seq(Nat) /\ Bytes(pe) \in Seq(LogByte) /\ Bytes(qu) \in Seq(LogByte)
         /\ Texts(ac) \in Seq(LogByte) /\ Len(ac) \in Nat
<1>1. ac \in Seq(Nat)  BY SeqMonotonic DEF LogTyped, Message
<1> QED BY <1>1, BytesSeq, TextsSeq DEF LogTyped

\* A message pushed to the queue.
LEMMA PushOpen ==
  ASSUME NEW fi, NEW pe, NEW qu, NEW ac, LogTyped(fi, pe, qu, ac), NEW m \in Message,
         OpenLog(fi, pe, qu, ac)
  PROVE  OpenLog(fi, pe, Append(qu, Packet(m)), Append(ac, m))
<1> DEFINE p == Packet(m)
           a == fi \o Bytes(pe)
           b == Bytes(qu)
           c == Left(p)
<1>1. m \in Nat  BY DEF Message
<1>2. p \in LogPacket /\ Texts(<<m>>) = c  BY <1>1, TextsFew
<1>3. c \in Seq(LogByte) /\ Bytes(<<p>>) = c  BY <1>2, LeftBytes, BytesFew
<1>4. a \in Seq(LogByte) /\ b \in Seq(LogByte)  BY LogParts
<1> HIDE DEF p, a, b, c
<1>5. Append(qu, p) = qu \o <<p>> /\ <<p>> \in Seq(LogPacket)
  BY <1>2, LogParts, AppendIsConcat
<1>6. Append(ac, m) = ac \o <<m>> /\ <<m>> \in Seq(Nat)  BY <1>1, LogParts, AppendIsConcat
<1>7. Bytes(Append(qu, p)) = b \o c  BY <1>3, <1>5, LogParts, BytesCat DEF b
<1>8. Texts(Append(ac, m)) = Texts(ac) \o c  BY <1>2, <1>6, LogParts, TextsCat
<1>9. a \o b = Texts(ac)  BY DEF OpenLog, a, b
<1>10. (a \o b) \o c = a \o (b \o c)  BY <1>3, <1>4, ConcatAssociative
<1> QED BY <1>7, <1>8, <1>9, <1>10 DEF OpenLog, a, p

LEMMA PushStamped ==
  ASSUME NEW fi, NEW pe, NEW qu, NEW ac, LogTyped(fi, pe, qu, ac), NEW m \in Message,
         NEW n \in Nat, StampedLog(fi, pe, qu, ac, n)
  PROVE  StampedLog(fi, pe, Append(qu, Packet(m)), Append(ac, m), n)
<1> DEFINE p == Packet(m)
           c == Left(p)
           ad == Append(ac, m)
<1>1. m \in Nat /\ Len(ac) \in Nat /\ ac \in Seq(Nat)  BY LogParts DEF Message
<1>2. p \in LogPacket /\ Texts(<<m>>) = c  BY <1>1, TextsFew
<1>3. c \in Seq(LogByte) /\ Bytes(<<p>>) = c  BY <1>2, LeftBytes, BytesFew
<1>4. PICK j \in n..Len(ac) :
    /\ fi \o Bytes(pe) = Texts(FirstOf(ac, j)) \o Left(Packet(CloseRecord))
    /\ Bytes(qu) = Texts(RestOf(ac, j))
  BY DEF StampedLog
<1>5. j \in n..Len(ad)  BY <1>1
<1>6. FirstOf(ad, j) = FirstOf(ac, j)  BY <1>1 DEF FirstOf
<1>7. RestOf(ad, j) = RestOf(ac, j) \o <<m>> /\ RestOf(ac, j) \in Seq(Nat) /\ <<m>> \in Seq(Nat)
  <2> DEFINE len == Len(ac)
  <2>1. /\ ad \in Seq(Nat) /\ Len(ad) = len + 1 /\ ad[len + 1] = m /\ j \in 0..len /\ len \in Nat
        /\ \A i \in 1..len : ad[i] = ac[i]
    BY <1>1
  <2>2. RestOf(ac, j) \in Seq(Nat) /\ <<m>> \in Seq(Nat)  BY <1>1 DEF RestOf
  <2> HIDE DEF len, ad
  <2>3. SubSeq(ad, j + 1, len + 1) = SubSeq(ad, j + 1, len) \o <<m>>
    <3>1. j + 1 \in 1..Len(ad) /\ len + 1 \in (j + 1)..Len(ad) /\ (len + 1) - 1 = len  BY <2>1
    <3> QED BY <2>1, <3>1, SubSeqRecursiveSecond
  <2>4. SubSeq(ad, j + 1, len) = SubSeq(ac, j + 1, len)
    <3>1. ac \in Seq(Nat) /\ Len(ac) = len  BY <1>1 DEF len
    <3>2. /\ SubSeq(ad, j + 1, len) \in Seq(Nat) /\ SubSeq(ac, j + 1, len) \in Seq(Nat)
          /\ Len(SubSeq(ad, j + 1, len)) = len - j /\ Len(SubSeq(ac, j + 1, len)) = len - j
          /\ \A i \in 1..(len - j) : /\ SubSeq(ad, j + 1, len)[i] = ad[j + i]
                                     /\ SubSeq(ac, j + 1, len)[i] = ac[j + i]
      BY <2>1, <3>1
    <3>3. \A i \in 1..(len - j) : j + i \in 1..len  BY <2>1
    <3> QED BY <2>1, <3>2, <3>3, SeqEqual
  <2> QED BY <2>1, <2>2, <2>3, <2>4 DEF RestOf, len
<1> HIDE DEF p, c, ad
<1>8. Append(qu, p) = qu \o <<p>> /\ <<p>> \in Seq(LogPacket)
  BY <1>2, LogParts, AppendIsConcat
<1>9. Bytes(Append(qu, p)) = Bytes(qu) \o c  BY <1>3, <1>8, LogParts, BytesCat
<1>10. Texts(RestOf(ad, j)) = Texts(RestOf(ac, j)) \o c  BY <1>2, <1>7, TextsCat
<1>11. Bytes(Append(qu, p)) = Texts(RestOf(ad, j))  BY <1>4, <1>9, <1>10
<1> QED BY <1>4, <1>5, <1>6, <1>11 DEF StampedLog, p, ad

\* The queue taken over by the worker, without and with the close record.
LEMMA SwapOpen ==
  ASSUME NEW fi, NEW pe, NEW qu, NEW ac, LogTyped(fi, pe, qu, ac), OpenLog(fi, pe, qu, ac)
  PROVE  fi \o Bytes(pe \o qu) = Texts(ac)
<1>1. Bytes(pe \o qu) = Bytes(pe) \o Bytes(qu)  BY LogParts, BytesCat
<1>2. (fi \o Bytes(pe)) \o Bytes(qu) = fi \o (Bytes(pe) \o Bytes(qu))
  BY LogParts, ConcatAssociative
<1> QED BY <1>1, <1>2 DEF OpenLog

LEMMA SwapMore ==
  ASSUME NEW fi, NEW pe, NEW qu, NEW ac, LogTyped(fi, pe, qu, ac), OpenLog(fi, pe, qu, ac)
  PROVE  OpenLog(fi, (pe \o qu) \o <<>>, <<>>, ac)
<1>1. pe \o qu \in Seq(LogPacket)  BY LogParts
<1>2. (pe \o qu) \o <<>> = pe \o qu  BY <1>1, ConcatEmptySeq
<1>3. fi \o Bytes(pe \o qu) = Texts(ac)  BY SwapOpen
<1>4. Texts(ac) \o <<>> = Texts(ac)  BY LogParts, ConcatEmptySeq
<1> QED BY <1>2, <1>3, <1>4, BytesFew DEF OpenLog

LEMMA SwapLast ==
  ASSUME NEW fi, NEW pe, NEW qu, NEW ac, LogTyped(fi, pe, qu, ac), OpenLog(fi, pe, qu, ac),
         NEW n \in 0..Len(ac)
  PROVE  StampedLog(fi, (pe \o qu) \o <<Packet(CloseRecord)>>, <<>>, ac, n)
<1> DEFINE p == Packet(CloseRecord)
           a == pe \o qu
           j == Len(ac)
<1>1. p \in LogPacket  BY TextsFew DEF CloseRecord
<1>2. Bytes(<<p>>) = Left(p) /\ Left(p) \in Seq(LogByte)  BY <1>1, BytesFew, LeftBytes
<1>3. a \in Seq(LogPacket) /\ <<p>> \in Seq(LogPacket)  BY <1>1, LogParts
<1>4. fi \o Bytes(a) = Texts(ac)  BY SwapOpen
<1> HIDE DEF p, a
<1>5. Bytes(a \o <<p>>) = Bytes(a) \o Left(p) /\ Bytes(a) \in Seq(LogByte)
  BY <1>2, <1>3, BytesCat, BytesSeq
<1>6. (fi \o Bytes(a)) \o Left(p) = fi \o (Bytes(a) \o Left(p))
  <2>1. fi \in Seq(LogByte)  BY LogParts
  <2> QED BY <1>2, <1>5, <2>1, ConcatAssociative
<1>7. FirstOf(ac, j) = ac /\ RestOf(ac, j) = <<>> /\ j \in n..Len(ac)
  BY LogParts DEF FirstOf, RestOf
<1>8. fi \o Bytes(a \o <<p>>) = Texts(FirstOf(ac, j)) \o Left(p)  BY <1>4, <1>5, <1>6, <1>7
<1>9. Bytes(<<>>) = Texts(RestOf(ac, j))  BY <1>7, BytesFew, TextsFew
<1> QED BY <1>7, <1>8, <1>9 DEF StampedLog, p, a

\* Bytes that move from the list to the file.
LEMMA WriteMoves ==
  ASSUME NEW fi \in Seq(LogByte), NEW pe \in Seq(LogPacket), NEW k \in 0..Len(pe),
         NEW n \in 0..Len(Bytes(FirstOf(pe, k)))
  PROVE  /\ on_write_finish(pe, n) \in Seq(LogPacket)
         /\ fi \o SubSeq(Bytes(FirstOf(pe, k)), 1, n) \in Seq(LogByte)
         /\ (fi \o SubSeq(Bytes(FirstOf(pe, k)), 1, n)) \o Bytes(on_write_finish(pe, n))
              = fi \o Bytes(pe)
<1> DEFINE a == FirstOf(pe, k)
           b == RestOf(pe, k)
           x == Bytes(a)
           y == Bytes(b)
           z == SubSeq(x, 1, n)
           o == on_write_finish(pe, n)
<1>1. a \in Seq(LogPacket) /\ b \in Seq(LogPacket)  BY DEF FirstOf, RestOf
<1>2. pe = a \o b  BY CutJoined
<1>3. x \in Seq(LogByte) /\ y \in Seq(LogByte) /\ Bytes(pe) \in Seq(LogByte)  BY <1>1, BytesSeq
<1> HIDE DEF a, b
<1>4. Bytes(pe) = x \o y  BY <1>1, <1>2, BytesCat
<1> HIDE DEF x, y
<1>5. n \in 0..Len(x) /\ n \in 0..Len(Bytes(pe))  BY <1>3, <1>4 DEF x, a
<1>6. z \in Seq(LogByte) /\ FirstOf(Bytes(pe), n) = z  BY <1>3, <1>4, <1>5 DEF FirstOf
<1> HIDE DEF z
<1>7. o \in Seq(LogPacket) /\ Bytes(pe) = z \o Bytes(o)  BY <1>5, <1>6, WriteFinish
<1> HIDE DEF o
<1>8. Bytes(o) \in Seq(LogByte) /\ fi \o z \in Seq(LogByte)  BY <1>6, <1>7, BytesSeq
<1>9. (fi \o z) \o Bytes(o) = fi \o (z \o Bytes(o))  BY <1>6, <1>8, ConcatAssociative
<1> QED BY <1>7, <1>8, <1>9 DEF o, z, x, a


\* Where a log stands.
Open(f) == OpenLog(file[f], pending_log[f], log_queue[f], accepted[f])
Stamped(f) == StampedLog(file[f], pending_log[f], log_queue[f], accepted[f], Len(promised[f]))
Complete(f) ==
  \E j \in Len(promised[f])..Len(accepted[f]) :
    file[f] = Texts(FirstOf(accepted[f], j)) \o Left(Packet(CloseRecord))

LogTypes ==
  /\ created \in 0..MaxLogs /\ cur \in 0..MaxLogs /\ messages \in Nat
  /\ log_queue \in [LogFile -> Seq(LogPacket)] /\ pending_log \in [LogFile -> Seq(LogPacket)]
  /\ file \in [LogFile -> Seq(LogByte)]
  /\ accepted \in [LogFile -> Seq(Message)] /\ promised \in [LogFile -> Seq(Message)]
  /\ is_close \in BOOLEAN /\ closing \in BOOLEAN
  /\ writer \in [Writer -> 0..MaxLogs] /\ (\A w \in Writer : writer[w] <= created)
  /\ worker \in {"test", "swap", "write", "done"}
  /\ closer \in {"out", "joining", "returned"}

LogControl ==
  /\ worker \in {"swap", "write"} => cur \in 1..created
  /\ is_close <=> closer # "out"
  /\ closing => is_close
  /\ worker = "test" => ~closing
  /\ worker = "done" => closing
  /\ closer = "returned" => worker = "done"

\* What was promised is the beginning of what was accepted; logs not created
\* yet have nothing.
LogKept ==
  \A f \in LogFile :
    /\ promised[f] = FirstOf(accepted[f], Len(promised[f]))
    /\ Len(promised[f]) <= Len(accepted[f])
    /\ accepted[f] # <<>> => f <= created

\* The last round has stamped the logs it has come past.
Passed(f) == f < cur \/ (f = cur /\ worker = "write")
LogRound ==
  closer # "returned" =>
    \A f \in LogFile :
      /\ Open(f) \/ Stamped(f)
      /\ ~closing => Open(f)
      /\ closing /\ worker \in {"swap", "write"} =>
           IF Passed(f) THEN Stamped(f) /\ (f # cur => pending_log[f] = <<>>) ELSE Open(f)
      /\ worker = "done" /\ promised[f] # <<>> => Stamped(f) /\ pending_log[f] = <<>>

LogEnded == closer = "returned" => \A f \in LogFile : promised[f] # <<>> => Complete(f)

LogInv == LogTypes /\ LogControl /\ LogKept /\ LogRound /\ LogEnded

LEMMA OneLog ==
  ASSUME LogTypes, NEW f \in LogFile
  PROVE  /\ LogTyped(file[f], pending_log[f], log_queue[f], accepted[f])
         /\ promised[f] \in Seq(Message) /\ f \in Nat /\ f > 0
BY LogAssumption DEF LogTypes, LogTyped, LogFile

\* Steps that keep the round where it is.
LEMMA RoundGoesOn ==
  ASSUME LogRound, closer # "returned",
         UNCHANGED <<worker, cur, closing, pending_log, promised>>,
         \A f \in LogFile : (Open(f) => Open(f)') /\ (Stamped(f) => Stamped(f)')
  PROVE  LogRound'
BY DEF LogRound, Passed

LEMMA SameLogs ==
  ASSUME UNCHANGED <<file, pending_log, log_queue, accepted>>
  PROVE  /\ \A f \in LogFile : Open(f) <=> Open(f)'
         /\ UNCHANGED promised => \A f \in LogFile : Stamped(f) <=> Stamped(f)'
BY DEF Open, Stamped

LEMMA LogStart == LogInit => LogInv
<1> SUFFICES ASSUME LogInit PROVE LogInv  OBVIOUS
<1>1. \A f \in LogFile : /\ file[f] = <<>> /\ pending_log[f] = <<>> /\ log_queue[f] = <<>>
                         /\ accepted[f] = <<>> /\ promised[f] = <<>>
  BY DEF LogInit
<1>2. LogTypes
  <2>1. <<>> \in Seq(LogPacket) /\ <<>> \in Seq(LogByte) /\ <<>> \in Seq(Message)  OBVIOUS
  <2>2. /\ log_queue \in [LogFile -> Seq(LogPacket)] /\ pending_log \in [LogFile -> Seq(LogPacket)]
        /\ file \in [LogFile -> Seq(LogByte)]
        /\ accepted \in [LogFile -> Seq(Message)] /\ promised \in [LogFile -> Seq(Message)]
    BY <2>1 DEF LogInit
  <2>3. writer \in [Writer -> 0..MaxLogs] /\ \A w \in Writer : writer[w] <= created
    BY LogAssumption DEF LogInit
  <2>4. /\ created = 0 /\ cur = 0 /\ messages = 0 /\ is_close = FALSE /\ closing = FALSE
        /\ worker = "test" /\ closer = "out"
    BY DEF LogInit
  <2>5. created \in 0..MaxLogs /\ cur \in 0..MaxLogs /\ messages \in Nat
    BY <2>4, LogAssumption
  <2>6. /\ is_close \in BOOLEAN /\ closing \in BOOLEAN
        /\ worker \in {"test", "swap", "write", "done"}
        /\ closer \in {"out", "joining", "returned"}
    BY <2>4, Zenon
  <2> QED BY <2>2, <2>3, <2>5, <2>6, Zenon DEF LogTypes
<1>3. LogControl  BY DEF LogInit, LogControl
<1>4. LogKept
  <2>1. FirstOf(<<>>, Len(<<>>)) = <<>> /\ Len(<<>>) <= Len(<<>>)  BY DEF FirstOf
  <2> QED BY <1>1, <2>1 DEF LogKept
<1>5. \A f \in LogFile : Open(f)
  <2>1. (<<>> \o <<>>) \o <<>> = <<>>  OBVIOUS
  <2> QED BY <1>1, <2>1, BytesFew, TextsFew DEF Open, OpenLog
<1>6. LogRound  BY <1>5 DEF LogRound, LogInit
<1>7. LogEnded  BY DEF LogEnded, LogInit
<1> QED BY <1>2, <1>3, <1>4, <1>6, <1>7 DEF LogInv

LEMMA LogCallers ==
  ASSUME LogInv, NEW w \in Writer, create_log(w) \/ log_write(w)
  PROVE  LogInv'
<1> USE DEF LogInv
<1>1. /\ UNCHANGED <<log_queue, pending_log, file, is_close, worker, cur, closing, closer,
                     messages, accepted, promised>>
      /\ closer # "returned"
  BY DEF create_log, log_write
<1>2. created' \in Nat /\ created <= created' /\ created \in Nat
  BY LogAssumption DEF create_log, log_write, LogTypes
<1>3. LogTypes'
  <2>1. /\ created' \in 0..MaxLogs /\ writer' \in [Writer -> 0..MaxLogs]
        /\ \A v \in Writer : writer'[v] <= created'
    <3>1. CASE create_log(w)  BY <3>1, LogAssumption DEF create_log, LogTypes
    <3>2. CASE log_write(w)  BY <3>2, LogAssumption DEF log_write, LogTypes
    <3> QED BY <3>1, <3>2
  <2> QED BY <1>1, <2>1 DEF LogTypes, LogFile
<1>4. LogControl'  BY <1>1, <1>2 DEF LogControl, LogTypes
<1>5. LogKept'  BY <1>1, <1>2, LogAssumption DEF LogKept, LogFile
<1>6. LogRound'  BY <1>1, SameLogs, RoundGoesOn
<1>7. LogEnded'  BY <1>1 DEF LogEnded
<1> QED BY <1>3, <1>4, <1>5, <1>6, <1>7

LEMMA LogPushes ==
  ASSUME LogInv, NEW w \in Writer, Push(w)
  PROVE  LogInv'
<1> USE DEF LogInv
<1> DEFINE t == writer[w]
           m == messages + 1
<1>1. /\ UNCHANGED <<created, pending_log, file, is_close, worker, cur, closing, closer, promised>>
      /\ closer # "returned"
      /\ log_queue' = [log_queue EXCEPT ![t] = Append(log_queue[t], Packet(m))]
      /\ accepted' = [accepted EXCEPT ![t] = Append(accepted[t], m)]
      /\ writer' = [writer EXCEPT ![w] = 0] /\ messages' = m
  BY DEF Push
<1>2. t \in LogFile /\ t <= created  BY LogAssumption DEF Push, LogTypes, LogFile
<1>3. m \in Message /\ m \in Nat  BY DEF LogTypes, Message
<1>4. Packet(m) \in LogPacket  BY <1>3, TextsFew
<1> HIDE DEF t, m
<1>5. \A f \in LogFile :
        /\ log_queue'[f] = IF f = t THEN Append(log_queue[f], Packet(m)) ELSE log_queue[f]
        /\ accepted'[f] = IF f = t THEN Append(accepted[f], m) ELSE accepted[f]
  BY <1>1, <1>2 DEF LogTypes
<1>6. LogTypes'
  <2>1. log_queue' \in [LogFile -> Seq(LogPacket)] /\ accepted' \in [LogFile -> Seq(Message)]
    BY <1>1, <1>2, <1>3, <1>4 DEF LogTypes
  <2>2. writer' \in [Writer -> 0..MaxLogs] /\ \A v \in Writer : writer'[v] <= created'
    BY <1>1, LogAssumption DEF LogTypes
  <2> QED BY <1>1, <1>3, <2>1, <2>2 DEF LogTypes, LogFile
<1>7. LogControl'  BY <1>1 DEF LogControl
<1>8. LogKept'
  <2> SUFFICES ASSUME NEW f \in LogFile
               PROVE  /\ promised[f] = FirstOf(accepted'[f], Len(promised[f]))
                      /\ Len(promised[f]) <= Len(accepted'[f])
                      /\ accepted'[f] # <<>> => f <= created
    BY <1>1 DEF LogKept, LogFile
  <2>1. CASE f # t  BY <1>5, <2>1 DEF LogKept
  <2>2. CASE f = t
    <3> DEFINE a == accepted[f]
               p == promised[f]
    <3>1. a \in Seq(Message) /\ p \in Seq(Message)  BY DEF LogTypes
    <3>2. p = FirstOf(a, Len(p)) /\ Len(p) <= Len(a)  BY DEF LogKept
    <3>3. accepted'[f] = Append(a, m)  BY <1>5, <2>2
    <3> HIDE DEF a, p
    <3>4. FirstOf(Append(a, m), Len(p)) = FirstOf(a, Len(p)) /\ Len(Append(a, m)) = Len(a) + 1
      BY <1>3, <3>1, <3>2 DEF FirstOf
    <3>5. p = FirstOf(Append(a, m), Len(p)) /\ Len(p) <= Len(Append(a, m))
      BY <3>1, <3>2, <3>4
    <3> QED BY <1>2, <2>2, <3>3, <3>5 DEF p
  <2> QED BY <2>1, <2>2
<1>9. ASSUME NEW f \in LogFile PROVE (Open(f) => Open(f)') /\ (Stamped(f) => Stamped(f)')
  <2>1. CASE f # t  BY <1>1, <1>5, <2>1 DEF Open, Stamped
  <2>2. CASE f = t
    <3>1. LogTyped(file[f], pending_log[f], log_queue[f], accepted[f])  BY OneLog
    <3>2. Len(promised[f]) \in Nat  BY OneLog
    <3>3. Open(f) => Open(f)'
      BY <1>1, <1>3, <1>5, <2>2, <3>1, PushOpen DEF Open
    <3>4. Stamped(f) => Stamped(f)'
      BY <1>1, <1>3, <1>5, <2>2, <3>1, <3>2, PushStamped DEF Stamped
    <3> QED BY <3>3, <3>4
  <2> QED BY <2>1, <2>2
<1>10. LogRound'  BY <1>1, <1>9, RoundGoesOn
<1>11. LogEnded'  BY <1>1 DEF LogEnded
<1> QED BY <1>6, <1>7, <1>8, <1>10, <1>11

LEMMA LogTests ==
  ASSUME LogInv, Test
  PROVE  LogInv'
<1> USE DEF LogInv
<1>1. /\ UNCHANGED <<created, log_queue, pending_log, file, is_close, writer, closer, messages,
                     accepted, promised>>
      /\ worker = "test" /\ closing' = is_close
      /\ cur' = (IF created = 0 THEN 0 ELSE 1)
      /\ worker' = (IF created # 0 THEN "swap" ELSE IF is_close THEN "done" ELSE "test")
  BY DEF Test
<1>2. closer # "returned" /\ ~closing  BY <1>1 DEF LogControl
<1>3. \A f \in LogFile : Open(f)'
  <2>1. \A f \in LogFile : Open(f)  BY <1>2 DEF LogRound
  <2> QED BY <1>1, <2>1, SameLogs
<1>4. LogTypes'
  <2>1. cur' \in 0..MaxLogs /\ worker' \in {"test", "swap", "write", "done"} /\ closing' \in BOOLEAN
    BY <1>1, LogAssumption DEF LogTypes
  <2> QED BY <1>1, <2>1 DEF LogTypes, LogFile
<1>5. LogControl'  BY <1>1, <1>2 DEF LogControl, LogTypes
<1>6. LogKept'  BY <1>1 DEF LogKept, LogFile
<1>7. LogRound'
  <2> SUFFICES ASSUME NEW f \in LogFile
               PROVE  /\ worker' = "swap" => ~Passed(f)'
                      /\ worker' = "done" => promised[f] = <<>>
    BY <1>1, <1>2, <1>3 DEF LogRound, LogFile
  <2>1. f \in Nat /\ f > 0  BY OneLog
  <2>2. worker' = "swap" => ~Passed(f)'  BY <1>1, <2>1 DEF Passed
  <2>3. ASSUME worker' = "done" PROVE promised[f] = <<>>
    <3>1. created = 0  BY <1>1, <2>3
    <3>2. accepted[f] = <<>>  BY <2>1, <3>1 DEF LogKept
    <3>3. Len(promised[f]) <= 0 /\ promised[f] \in Seq(Message)  BY <3>2, OneLog DEF LogKept
    <3> QED BY <3>3
  <2> QED BY <2>2, <2>3
<1>8. LogEnded'  BY <1>1, <1>2 DEF LogEnded
<1> QED BY <1>4, <1>5, <1>6, <1>7, <1>8


LEMMA LogSwaps ==
  ASSUME LogInv, Swap
  PROVE  LogInv'
<1> USE DEF LogInv
<1> DEFINE last == IF closing THEN <<Packet(CloseRecord)>> ELSE <<>>
           new == (pending_log[cur] \o log_queue[cur]) \o last
<1>1. /\ UNCHANGED <<created, file, is_close, writer, cur, closing, closer, messages, accepted,
                     promised>>
      /\ worker = "swap" /\ worker' = "write"
      /\ pending_log' = [pending_log EXCEPT ![cur] = new]
      /\ log_queue' = [log_queue EXCEPT ![cur] = <<>>]
  BY DEF Swap
<1>2. cur \in LogFile /\ cur \in 1..created /\ created \in Nat /\ cur \in Nat
  BY <1>1, LogAssumption DEF LogControl, LogTypes, LogFile
<1>3. closer # "returned"  BY <1>1 DEF LogControl
<1>4. new \in Seq(LogPacket)
  <2>1. pending_log[cur] \in Seq(LogPacket) /\ log_queue[cur] \in Seq(LogPacket)
    BY <1>2 DEF LogTypes
  <2>2. Packet(CloseRecord) \in LogPacket  BY TextsFew DEF CloseRecord
  <2>3. last \in Seq(LogPacket)  BY <2>2
  <2> HIDE DEF last
  <2> QED BY <2>1, <2>3
<1> HIDE DEF new
<1>5. \A f \in LogFile :
        /\ pending_log'[f] = IF f = cur THEN new ELSE pending_log[f]
        /\ log_queue'[f] = IF f = cur THEN <<>> ELSE log_queue[f]
  BY <1>1, <1>2 DEF LogTypes
<1>6. LogTypes'
  <2>1. /\ pending_log' \in [LogFile -> Seq(LogPacket)] /\ log_queue' \in [LogFile -> Seq(LogPacket)]
        /\ worker' \in {"test", "swap", "write", "done"}
    <3>1. <<>> \in Seq(LogPacket)  OBVIOUS
    <3> QED BY <1>1, <1>2, <1>4, <3>1 DEF LogTypes
  <2> QED BY <1>1, <2>1 DEF LogTypes, LogFile
<1>7. LogControl'  BY <1>1, <1>2, <1>3 DEF LogControl
<1>8. LogKept'  BY <1>1 DEF LogKept, LogFile
<1>9. \A f \in LogFile : f # cur => (Open(f)' <=> Open(f)) /\ (Stamped(f)' <=> Stamped(f))
                                     /\ pending_log'[f] = pending_log[f]
  BY <1>1, <1>5 DEF Open, Stamped
<1>10. Open(cur)
  <2>1. ~Passed(cur)  BY <1>1, <1>2 DEF Passed
  <2> QED BY <1>1, <1>2, <1>3, <2>1 DEF LogRound
<1>11. LogTyped(file[cur], pending_log[cur], log_queue[cur], accepted[cur])  BY <1>2, OneLog
<1>12. OpenLog(file[cur], pending_log[cur], log_queue[cur], accepted[cur])  BY <1>10 DEF Open
<1>13. ~closing => Open(cur)'
  <2> SUFFICES ASSUME ~closing PROVE Open(cur)'  OBVIOUS
  <2>1. new = (pending_log[cur] \o log_queue[cur]) \o <<>>  BY DEF new
  <2>2. OpenLog(file[cur], new, <<>>, accepted[cur])  BY <1>11, <1>12, <2>1, SwapMore
  <2> QED BY <1>1, <1>2, <1>5, <2>2 DEF Open
<1>14. closing => Stamped(cur)'
  <2> SUFFICES ASSUME closing PROVE Stamped(cur)'  OBVIOUS
  <2>1. new = (pending_log[cur] \o log_queue[cur]) \o <<Packet(CloseRecord)>>  BY DEF new
  <2>2. Len(promised[cur]) \in 0..Len(accepted[cur])
    <3>1. promised[cur] \in Seq(Message) /\ accepted[cur] \in Seq(Message)  BY <1>2 DEF LogTypes
    <3>2. Len(promised[cur]) <= Len(accepted[cur])  BY <1>2 DEF LogKept
    <3> QED BY <3>1, <3>2
  <2>3. StampedLog(file[cur], new, <<>>, accepted[cur], Len(promised[cur]))
    BY <1>11, <1>12, <2>1, <2>2, SwapLast
  <2> QED BY <1>1, <1>2, <1>5, <2>3 DEF Stamped
<1>15. LogRound'
  <2> SUFFICES ASSUME NEW f \in LogFile
               PROVE  /\ Open(f)' \/ Stamped(f)'
                      /\ ~closing => Open(f)'
                      /\ closing => IF Passed(f)'
                                    THEN Stamped(f)' /\ (f # cur => pending_log'[f] = <<>>)
                                    ELSE Open(f)'
    BY <1>1, <1>3 DEF LogRound, LogFile
  <2>1. CASE f = cur
    <3>1. Passed(f)'  BY <1>1, <2>1 DEF Passed
    <3> QED BY <1>1, <1>13, <1>14, <2>1, <3>1
  <2>2. CASE f # cur
    <3>1. Passed(f)' <=> Passed(f)  BY <1>1, <2>2 DEF Passed
    <3>2. /\ Open(f) \/ Stamped(f)
          /\ ~closing => Open(f)
          /\ closing => IF Passed(f) THEN Stamped(f) /\ pending_log[f] = <<>> ELSE Open(f)
      BY <1>1, <1>3, <2>2 DEF LogRound
    <3> QED BY <1>9, <2>2, <3>1, <3>2
  <2> QED BY <2>1, <2>2
<1>16. LogEnded'  BY <1>1, <1>3 DEF LogEnded
<1> QED BY <1>6, <1>7, <1>8, <1>15, <1>16

LEMMA LogWrites ==
  ASSUME LogInv, Write
  PROVE  LogInv'
<1> USE DEF LogInv
<1> DEFINE pe == pending_log[cur]
           fi == file[cur]
           k == IF Len(pe) < max_write_buf THEN Len(pe) ELSE max_write_buf
           first == Bytes(FirstOf(pe, k))
<1>1. /\ UNCHANGED <<created, log_queue, is_close, writer, worker, cur, closing, closer, messages,
                     accepted, promised>>
      /\ worker = "write"
  BY DEF Write
<1>2. cur \in LogFile /\ pe \in Seq(LogPacket) /\ fi \in Seq(LogByte)
  BY <1>1, LogAssumption DEF LogControl, LogTypes, LogFile
<1>3. closer # "returned"  BY <1>1 DEF LogControl
<1>4. k \in 0..Len(pe)  BY <1>2, LogAssumption
<1>5. prepare_write = first  BY DEF prepare_write, FirstOf
<1>6. PICK n \in 1..Len(first) :
        /\ file' = [file EXCEPT ![cur] = fi \o SubSeq(first, 1, n)]
        /\ pending_log' = [pending_log EXCEPT ![cur] = on_write_finish(pe, n)]
  BY <1>5 DEF Write
<1>7. first \in Seq(LogByte)
  <2>1. FirstOf(pe, k) \in Seq(LogPacket)  BY <1>2, <1>4 DEF FirstOf
  <2> HIDE DEF k, pe
  <2> QED BY <2>1, BytesSeq
<1>8. n \in 0..Len(first)  BY <1>7
<1> HIDE DEF k, pe, fi
<1> DEFINE po == on_write_finish(pe, n)
           fo == fi \o SubSeq(first, 1, n)
<1>9. po \in Seq(LogPacket) /\ fo \in Seq(LogByte) /\ fo \o Bytes(po) = fi \o Bytes(pe)
  BY <1>2, <1>4, <1>8, WriteMoves
<1> HIDE DEF first
<1>10. \A f \in LogFile :
         /\ file'[f] = IF f = cur THEN fo ELSE file[f]
         /\ pending_log'[f] = IF f = cur THEN po ELSE pending_log[f]
  BY <1>2, <1>6 DEF LogTypes
<1> HIDE DEF po, fo
<1>11. LogTypes'
  <2>1. file' \in [LogFile -> Seq(LogByte)] /\ pending_log' \in [LogFile -> Seq(LogPacket)]
    BY <1>2, <1>6, <1>9 DEF LogTypes, po, fo
  <2> QED BY <1>1, <2>1 DEF LogTypes, LogFile
<1>12. LogControl'  BY <1>1 DEF LogControl
<1>13. LogKept'  BY <1>1 DEF LogKept, LogFile
<1>14. ASSUME NEW f \in LogFile PROVE (Open(f)' <=> Open(f)) /\ (Stamped(f)' <=> Stamped(f))
  <2>1. file'[f] \o Bytes(pending_log'[f]) = file[f] \o Bytes(pending_log[f])
    <3>1. CASE f = cur  BY <1>9, <1>10, <3>1 DEF pe, fi
    <3>2. CASE f # cur  BY <1>10, <3>2
    <3> QED BY <3>1, <3>2
  <2>2. log_queue'[f] = log_queue[f] /\ accepted'[f] = accepted[f] /\ promised'[f] = promised[f]
    BY <1>1
  <2> QED BY <2>1, <2>2 DEF Open, Stamped, OpenLog, StampedLog
<1>15. LogRound'
  <2> SUFFICES ASSUME NEW f \in LogFile
               PROVE  /\ Open(f)' \/ Stamped(f)'
                      /\ ~closing => Open(f)'
                      /\ closing => IF Passed(f)'
                                    THEN Stamped(f)' /\ (f # cur => pending_log'[f] = <<>>)
                                    ELSE Open(f)'
    BY <1>1, <1>3 DEF LogRound, LogFile
  <2>1. Passed(f)' <=> Passed(f)  BY <1>1 DEF Passed
  <2>2. f # cur => pending_log'[f] = pending_log[f]  BY <1>10
  <2>3. /\ Open(f) \/ Stamped(f)
        /\ ~closing => Open(f)
        /\ closing => IF Passed(f) THEN Stamped(f) /\ (f # cur => pending_log[f] = <<>>)
                      ELSE Open(f)
    BY <1>1, <1>3 DEF LogRound
  <2> QED BY <1>14, <2>1, <2>2, <2>3
<1>16. LogEnded'  BY <1>1, <1>3 DEF LogEnded
<1> QED BY <1>11, <1>12, <1>13, <1>15, <1>16

LEMMA LogMovesOn ==
  ASSUME LogInv, NextLog
  PROVE  LogInv'
<1> USE DEF LogInv
<1>1. /\ UNCHANGED <<created, log_queue, pending_log, file, is_close, writer, closing, closer,
                     messages, accepted, promised>>
      /\ worker = "write" /\ pending_log[cur] = <<>>
      /\ cur' = (IF cur < created THEN cur + 1 ELSE 0)
      /\ worker' = (IF cur < created THEN "swap" ELSE IF closing THEN "done" ELSE "test")
  BY DEF NextLog
<1>2. cur \in LogFile /\ cur \in 1..created /\ created \in 0..MaxLogs /\ MaxLogs \in Nat
  BY <1>1, LogAssumption DEF LogControl, LogTypes, LogFile
<1>3. closer # "returned"  BY <1>1 DEF LogControl
<1>4. \A f \in LogFile : (Open(f)' <=> Open(f)) /\ (Stamped(f)' <=> Stamped(f))
  BY <1>1, SameLogs
<1>5. LogTypes'
  <2>1. cur' \in 0..MaxLogs /\ worker' \in {"test", "swap", "write", "done"}  BY <1>1, <1>2
  <2> QED BY <1>1, <2>1 DEF LogTypes, LogFile
<1>6. LogControl'
  <2>1. worker' \in {"swap", "write"} => cur' \in 1..created'  BY <1>1, <1>2
  <2>2. closing \in BOOLEAN  BY DEF LogTypes
  <2> QED BY <1>1, <1>3, <2>1, <2>2 DEF LogControl
<1>7. LogKept'  BY <1>1 DEF LogKept, LogFile
<1>8. LogRound'
  <2> SUFFICES ASSUME NEW f \in LogFile
               PROVE  /\ Open(f) \/ Stamped(f)
                      /\ ~closing => Open(f)
                      /\ closing /\ worker' = "swap" =>
                           IF Passed(f)' THEN Stamped(f) /\ pending_log[f] = <<>> ELSE Open(f)
                      /\ worker' = "done" /\ promised[f] # <<>>
                           => Stamped(f) /\ pending_log[f] = <<>>
    BY <1>1, <1>3, <1>4 DEF LogRound, LogFile
  <2>1. /\ Open(f) \/ Stamped(f)
        /\ ~closing => Open(f)
        /\ closing => IF Passed(f) THEN Stamped(f) /\ (f # cur => pending_log[f] = <<>>)
                      ELSE Open(f)
    BY <1>1, <1>3 DEF LogRound
  <2>2. f \in Nat /\ f > 0  BY OneLog
  <2>3. ASSUME closing, worker' = "swap"
        PROVE  IF Passed(f)' THEN Stamped(f) /\ pending_log[f] = <<>> ELSE Open(f)
    <3>1. cur' = cur + 1  BY <1>1, <2>3
    <3>2. Passed(f)' <=> Passed(f)  BY <1>1, <1>2, <2>2, <2>3, <3>1 DEF Passed
    <3> QED BY <1>1, <2>1, <2>3, <3>2
  <2>4. ASSUME worker' = "done", promised[f] # <<>> PROVE Stamped(f) /\ pending_log[f] = <<>>
    <3>1. closing /\ cur = created  BY <1>1, <1>2, <2>4
    <3>2. accepted[f] # <<>>
      <4> SUFFICES ASSUME accepted[f] = <<>> PROVE FALSE  OBVIOUS
      <4>1. Len(promised[f]) <= Len(<<>>) /\ promised[f] \in Seq(Message)
        BY OneLog DEF LogKept
      <4>2. promised[f] = <<>>  BY <4>1
      <4> QED BY <2>4, <4>2
    <3>3. f <= created  BY <3>2 DEF LogKept
    <3>4. Passed(f)  BY <1>1, <1>2, <2>2, <3>1, <3>3 DEF Passed
    <3> QED BY <1>1, <2>1, <3>1, <3>4
  <2> QED BY <2>1, <2>3, <2>4
<1>9. LogEnded'  BY <1>1, <1>3 DEF LogEnded
<1> QED BY <1>5, <1>6, <1>7, <1>8, <1>9

LEMMA LogCloses ==
  ASSUME LogInv, close_log_system
  PROVE  LogInv'
<1> USE DEF LogInv
<1>1. /\ UNCHANGED <<created, log_queue, pending_log, file, writer, worker, cur, closing, messages,
                     accepted>>
      /\ closer = "out" /\ closer' = "joining" /\ is_close' = TRUE /\ promised' = accepted
  BY DEF close_log_system
<1>2. ~closing /\ worker # "done"  BY <1>1 DEF LogControl
<1>3. LogTypes'  BY <1>1 DEF LogTypes, LogFile
<1>4. LogControl'  BY <1>1, <1>2 DEF LogControl
<1>5. LogKept'
  <2>1. \A f \in LogFile : accepted[f] \in Seq(Message)  BY DEF LogTypes
  <2>2. \A f \in LogFile : accepted[f] = FirstOf(accepted[f], Len(accepted[f]))
                           /\ Len(accepted[f]) <= Len(accepted[f])
    BY <2>1 DEF FirstOf
  <2> QED BY <1>1, <2>2 DEF LogKept, LogFile
<1>6. \A f \in LogFile : Open(f)'
  <2>1. \A f \in LogFile : Open(f)  BY <1>1, <1>2 DEF LogRound
  <2> QED BY <1>1, <2>1, SameLogs
<1>7. LogRound'  BY <1>1, <1>2, <1>6 DEF LogRound, LogFile
<1>8. LogEnded'  BY <1>1 DEF LogEnded
<1> QED BY <1>3, <1>4, <1>5, <1>7, <1>8

LEMMA LogJoins ==
  ASSUME LogInv, Join
  PROVE  LogInv'
<1> USE DEF LogInv
<1>1. /\ UNCHANGED <<created, pending_log, file, is_close, writer, worker, cur, closing, messages,
                     accepted, promised>>
      /\ closer = "joining" /\ worker = "done" /\ closer' = "returned"
      /\ log_queue' = [f \in LogFile |-> <<>>]
  BY DEF Join
<1>2. LogTypes'
  <2>1. <<>> \in Seq(LogPacket)  OBVIOUS
  <2>2. log_queue' \in [LogFile -> Seq(LogPacket)]  BY <1>1, <2>1
  <2> QED BY <1>1, <2>2 DEF LogTypes, LogFile
<1>3. LogControl'  BY <1>1 DEF LogControl
<1>4. LogKept'  BY <1>1 DEF LogKept, LogFile
<1>5. LogRound'  BY <1>1 DEF LogRound
<1>6. ASSUME NEW f \in LogFile, promised[f] # <<>> PROVE Complete(f)
  <2>1. Stamped(f) /\ pending_log[f] = <<>>  BY <1>1, <1>6 DEF LogRound
  <2>2. file[f] \o <<>> = file[f]  BY ConcatEmptySeq DEF LogTypes
  <2> QED BY <2>1, <2>2, BytesFew DEF Stamped, StampedLog, Complete
<1>7. LogEnded'  BY <1>1, <1>6 DEF LogEnded, Complete, LogFile
<1> QED BY <1>2, <1>3, <1>4, <1>5, <1>7


\* No byte of a message is one of the close record, and all of the record's are.
LEMMA CloseBytes ==
  ASSUME NEW W, W = {CloseRecord} \X (1..PacketSize)
  PROVE  /\ Without(Left(Packet(CloseRecord)), W) = <<>>
         /\ \A ac \in Seq(Message) : Without(Texts(ac), W) = Texts(ac)
<1>1. Without(Left(Packet(CloseRecord)), W) = <<>>
  <2> DEFINE p == Packet(CloseRecord)
  <2>1. p \in LogPacket /\ p[1] = CloseRecord /\ p[2] = 0
    BY TextsFew DEF CloseRecord, Packet
  <2>2. PacketSize \in Nat  BY LogAssumption
  <2> HIDE DEF p
  <2>3. /\ Left(p) \in Seq(LogByte) /\ Len(Left(p)) = PacketSize
        /\ \A b \in 1..PacketSize : Left(p)[b] = <<CloseRecord, b>>
    BY <2>1, <2>2, LeftBytes
  <2>4. Elems(Left(p)) \subseteq W
    <3>1. \A b \in 1..PacketSize : <<CloseRecord, b>> \in W  OBVIOUS
    <3>2. \A b \in 1..Len(Left(p)) : Left(p)[b] \in W  BY <2>3, <3>1
    <3> QED BY <3>2 DEF Elems
  <2>5. Without(Left(p), W) = <<>>  BY <2>3, <2>4, WithoutAll
  <2> QED BY <2>5 DEF p
<1>2. ASSUME NEW ac \in Seq(Message) PROVE Without(Texts(ac), W) = Texts(ac)
  <2> DEFINE n == Len(ac)
             v == LeftAll(Fresh(ac))
             S == Message \X Nat
  <2>1. ac \in Seq(Nat) /\ n \in Nat  BY SeqMonotonic DEF Message
  <2>2. /\ Fresh(ac) \in Seq(LogPacket) /\ Len(Fresh(ac)) = n
        /\ \A k \in 1..n : Fresh(ac)[k] = <<ac[k], 0>>
    BY <2>1, FreshSeq
  <2>3. Len(v) = n /\ v \in Seq(Seq(LogByte)) /\ DOMAIN v = 1..n  BY <2>2, LeftAllSeq
  <2>4. ASSUME NEW k \in 1..n PROVE v[k] \in Seq(S)
    <3> DEFINE p == Fresh(ac)[k]
    <3>1. p \in LogPacket /\ p[1] \in Message /\ p[2] = 0  BY <2>2
    <3>2. v[k] = Left(p)  BY <2>2 DEF LeftAll
    <3> HIDE DEF p
    <3>3. PacketSize \in Nat /\ PacketSize - p[2] = PacketSize  BY <3>1, LogAssumption
    <3>4. Left(p) = [b \in 1..PacketSize |-> <<p[1], p[2] + b>>]  BY <3>3 DEF Left
    <3>5. \A b \in 1..PacketSize : <<p[1], p[2] + b>> \in S  BY <3>1, <3>3
    <3> HIDE DEF S
    <3>6. [b \in 1..PacketSize |-> <<p[1], p[2] + b>>] \in Seq(S)  BY <3>3, <3>5
    <3> QED BY <3>2, <3>4, <3>6
  <2>5. Texts(ac) = Joined(v, Len(v))
    <3>1. Texts(ac) = Bytes(Fresh(ac))  BY <2>1, TextsSeq
    <3> QED BY <2>2, <2>3, <3>1 DEF Bytes, LeftAll
  <2> HIDE DEF v, n
  <2>6. v \in Seq(Seq(S))
    <3>1. v = [k \in 1..n |-> v[k]]  BY <2>3
    <3> HIDE DEF S
    <3>2. [k \in 1..n |-> v[k]] \in Seq(Seq(S))  BY <2>1, <2>4
    <3> QED BY <3>1, <3>2
  <2>7. Texts(ac) \in Seq(S)
    <3> HIDE DEF S
    <3> QED BY <2>5, <2>6, JoinedSeq
  <2>8. Elems(Texts(ac)) \subseteq S  BY <2>7, ElemsSeq
  <2>9. S \cap W = {}  BY DEF Message, CloseRecord
  <2>10. Elems(Texts(ac)) \cap W = {}  BY <2>8, <2>9
  <2> HIDE DEF S
  <2> QED BY <2>7, <2>10, WithoutNone
<1> QED BY <1>1, <1>2

LEMMA TornFromInv ==
  ASSUME LogInv
  PROVE  NothingTorn
<1> DEFINE W == {CloseRecord} \X (1..PacketSize)
           C == Left(Packet(CloseRecord))
<1> SUFFICES ASSUME closer # "returned", NEW f \in LogFile
             PROVE  Without((file[f] \o Bytes(pending_log[f])) \o Bytes(log_queue[f]), W)
                      = Texts(accepted[f])
  BY DEF NothingTorn
<1> DEFINE ac == accepted[f]
           a == file[f] \o Bytes(pending_log[f])
           b == Bytes(log_queue[f])
<1>1. LogTyped(file[f], pending_log[f], log_queue[f], ac)  BY OneLog DEF LogInv
<1>2. ac \in Seq(Message) /\ ac \in Seq(Nat) /\ b \in Seq(LogByte)  BY <1>1, LogParts DEF LogTyped
<1>3. Without(C, W) = <<>> /\ \A s \in Seq(Message) : Without(Texts(s), W) = Texts(s)
  BY CloseBytes
<1>4. Open(f) \/ Stamped(f)  BY DEF LogInv, LogRound
<1>5. C \in Seq(LogByte)
  <2>1. Packet(CloseRecord) \in LogPacket  BY TextsFew DEF CloseRecord
  <2> QED BY <2>1, LeftBytes
<1> HIDE DEF W, C, ac, a, b
<1>6. CASE Open(f)
  <2>1. a \o b = Texts(ac)  BY <1>6 DEF Open, OpenLog, a, b, ac
  <2> QED BY <1>2, <1>3, <2>1 DEF a, b, ac
<1>7. CASE Stamped(f)
  <2>1. PICK j \in Len(promised[f])..Len(ac) :
          a = Texts(FirstOf(ac, j)) \o C /\ b = Texts(RestOf(ac, j))
    BY <1>7 DEF Stamped, StampedLog, a, b, ac, C
  <2>2. j \in 0..Len(ac)
    <3>1. promised[f] \in Seq(Message)  BY OneLog DEF LogInv
    <3> QED BY <1>2, <3>1
  <2> DEFINE x == FirstOf(ac, j)
             y == RestOf(ac, j)
  <2>3. x \in Seq(Message) /\ y \in Seq(Message)  BY <1>2, <2>2 DEF FirstOf, RestOf
  <2>4. ac = x \o y  BY <1>2, <2>2, CutJoined
  <2> HIDE DEF x, y
  <2>5. x \in Seq(Nat) /\ y \in Seq(Nat)  BY <2>3, SeqMonotonic DEF Message
  <2>6. Texts(x) \in Seq(LogByte) /\ Texts(y) \in Seq(LogByte)  BY <2>5, TextsSeq
  <2>7. Texts(ac) = Texts(x) \o Texts(y)  BY <2>4, <2>5, TextsCat
  <2>8. a \in Seq(LogByte) /\ a = Texts(x) \o C /\ b = Texts(y)
    BY <1>5, <2>1, <2>6 DEF x, y
  <2>9. Without(a \o b, W) = Without(a, W) \o Without(b, W)
    <3>1. a \in Seq(LogByte) /\ b \in Seq(LogByte)  BY <1>2, <2>8
    <3> QED BY <3>1, WithoutCat
  <2>10. Without(Texts(x) \o C, W) = Without(Texts(x), W) \o Without(C, W)
    BY <1>5, <2>6, WithoutCat
  <2>11. Without(Texts(x), W) = Texts(x) /\ Without(Texts(y), W) = Texts(y)  BY <1>3, <2>3
  <2>12. Texts(x) \o <<>> = Texts(x)  BY <2>6, ConcatEmptySeq
  <2>13. Without(a \o b, W) = Texts(ac)
    BY <1>3, <2>7, <2>8, <2>9, <2>10, <2>11, <2>12
  <2> QED BY <2>13 DEF a, b, ac
<1> QED BY <1>4, <1>6, <1>7

LEMMA ClosedFromInv ==
  ASSUME LogInv
  PROVE  ClosedComplete
<1> SUFFICES ASSUME closer = "returned", NEW f \in 1..created, promised[f] # <<>>
             PROVE  IsPrefix(Texts(promised[f]), file[f]) /\ Last(file[f])[1] = CloseRecord
  BY DEF ClosedComplete
<1> DEFINE ac == accepted[f]
           pr == promised[f]
           p == Packet(CloseRecord)
           C == Left(p)
<1>1. f \in LogFile  BY LogAssumption DEF LogInv, LogTypes, LogFile
<1>2. PICK j \in Len(pr)..Len(ac) : file[f] = Texts(FirstOf(ac, j)) \o C
  BY <1>1 DEF LogInv, LogEnded, Complete
<1>3. ac \in Seq(Nat) /\ pr \in Seq(Nat)
  <2>1. ac \in Seq(Message) /\ pr \in Seq(Message)  BY <1>1 DEF LogInv, LogTypes
  <2> HIDE DEF ac, pr
  <2> QED BY <2>1, SeqMonotonic DEF Message
<1>4. pr = FirstOf(ac, Len(pr)) /\ Len(pr) <= Len(ac)  BY <1>1 DEF LogInv, LogKept
<1>5. p \in LogPacket /\ p[1] = CloseRecord /\ p[2] = 0 /\ PacketSize \in Nat \ {0}
  BY TextsFew, LogAssumption DEF CloseRecord, Packet
<1> HIDE DEF p, ac, pr
<1>6. /\ C \in Seq(LogByte) /\ Len(C) = PacketSize
      /\ \A b \in 1..PacketSize : C[b] = <<CloseRecord, b>>
  BY <1>5, LeftBytes
<1>7. Len(C) \in Nat \ {0} /\ C[Len(C)][1] = CloseRecord  BY <1>5, <1>6
<1> HIDE DEF C
<1> DEFINE x == FirstOf(ac, j)
           y == RestOf(x, Len(pr))
<1>8. j \in 0..Len(ac) /\ Len(pr) \in 0..j  BY <1>3, <1>4
<1>9. x \in Seq(Nat) /\ Len(x) = j  BY <1>3, <1>8 DEF FirstOf
<1>10. FirstOf(x, Len(pr)) = pr
  <2>1. FirstOf(x, Len(pr)) = FirstOf(ac, Len(pr))  BY <1>3, <1>8 DEF FirstOf
  <2> QED BY <1>4, <2>1
<1> HIDE DEF x
<1>11. x = pr \o y /\ y \in Seq(Nat)
  <2>1. x = FirstOf(x, Len(pr)) \o RestOf(x, Len(pr))  BY <1>8, <1>9, CutJoined
  <2>2. RestOf(x, Len(pr)) \in Seq(Nat)  BY <1>8, <1>9 DEF RestOf
  <2> QED BY <1>10, <2>1, <2>2
<1> HIDE DEF y
<1>12. Texts(x) = Texts(pr) \o Texts(y)  BY <1>3, <1>11, TextsCat
<1>13. Texts(pr) \in Seq(LogByte) /\ Texts(y) \in Seq(LogByte) /\ Texts(x) \in Seq(LogByte)
  BY <1>3, <1>9, <1>11, TextsSeq
<1> DEFINE a == Texts(pr)
           b == Texts(y)
           fi == file[f]
<1>14. fi = (a \o b) \o C /\ a \in Seq(LogByte) /\ b \in Seq(LogByte)
  BY <1>2, <1>12, <1>13 DEF x
<1> HIDE DEF a, b, fi
<1>15. IsPrefix(a, fi)
  <2>0. a \in Seq(LogByte) /\ b \in Seq(LogByte) /\ C \in Seq(LogByte)  BY <1>6, <1>14
  <2>1. (a \o b) \o C = a \o (b \o C)  BY <2>0, ConcatAssociative
  <2> DEFINE z == b \o C
  <2>2. z \in Seq(LogByte) /\ fi = a \o z  BY <1>14, <2>0, <2>1
  <2> HIDE DEF z
  <2>3. Len(a) <= Len(fi) /\ SubSeq(a, 1, Len(a)) = SubSeq(fi, 1, Len(a))  BY <1>14, <2>2
  <2> QED BY <2>3 DEF IsPrefix
<1>16. Last(fi)[1] = CloseRecord
  <2> DEFINE z == a \o b
  <2>1. z \in Seq(LogByte) /\ fi = z \o C  BY <1>14
  <2> HIDE DEF z
  <2>2. C \in Seq(LogByte) /\ Len(C) \in Nat /\ Len(C) > 0 /\ Len(z) \in Nat  BY <1>6, <1>7, <2>1
  <2> DEFINE len == Len(z) + Len(C)
  <2>3. len \in 1..(Len(z) + Len(C)) /\ ~(len <= Len(z)) /\ len - Len(z) = Len(C)  BY <2>2
  <2>4. Len(z \o C) = len /\ (z \o C)[len] = C[len - Len(z)]
    <3> HIDE DEF len
    <3>1. \A i \in 1..(Len(z) + Len(C)) : (z \o C)[i] = IF i <= Len(z) THEN z[i] ELSE C[i - Len(z)]
      BY <2>1, <2>2, ConcatProperties
    <3>2. Len(z \o C) = Len(z) + Len(C)  BY <2>1, <2>2, ConcatProperties
    <3> QED BY <2>3, <3>1, <3>2 DEF len
  <2> QED BY <1>7, <2>1, <2>3, <2>4 DEF Last
<1> QED BY <1>15, <1>16 DEF a, fi, pr

\* Every log file, for any number of threads, logs and messages and whatever
\* writev takes at a time, holds the messages accepted in their order and byte for
\* byte, and close_log_system returns with all that was accepted before it written.
THEOREM LogCorrect == LogSpec => []LogFaithful
<1>1. LogInit => LogInv  BY LogStart
<1>2. LogInv /\ [LogNext]_logvars => LogInv'
  <2> SUFFICES ASSUME LogInv, [LogNext]_logvars PROVE LogInv'  OBVIOUS
  <2>1. ASSUME NEW w \in Writer, create_log(w) \/ log_write(w) PROVE LogInv'
    BY <2>1, LogCallers
  <2>2. ASSUME NEW w \in Writer, Push(w) PROVE LogInv'  BY <2>2, LogPushes
  <2>3. CASE Test  BY <2>3, LogTests
  <2>4. CASE Swap  BY <2>4, LogSwaps
  <2>5. CASE Write  BY <2>5, LogWrites
  <2>6. CASE NextLog  BY <2>6, LogMovesOn
  <2>7. CASE close_log_system  BY <2>7, LogCloses
  <2>8. CASE Join  BY <2>8, LogJoins
  <2>9. CASE UNCHANGED logvars
    BY <2>9 DEF logvars, LogInv, LogTypes, LogControl, LogKept, LogRound, LogEnded, LogFile,
                Open, Stamped, Complete, Passed
  <2> QED BY <2>1, <2>2, <2>3, <2>4, <2>5, <2>6, <2>7, <2>8, <2>9 DEF LogNext, Worker
<1>3. LogInv => LogFaithful  BY TornFromInv, ClosedFromInv DEF LogFaithful
<1> QED BY <1>1, <1>2, <1>3, PTL DEF LogSpec
=============================================================================

----------------------------- MODULE BlockQueue -----------------------------
(***************************************************************************)
(* The blocking queue of link_list.c, on the mutex and condition variable  *)
(* of sync.c.  What happens under the mutex is one step; push and          *)
(* force_wakeup signal after they have released it, which is another.      *)
(***************************************************************************)
EXTENDS Integers, Sequences

CONSTANTS
  Producer, Consumer,
  Waits,        \* the ms arguments consumers use: negative, 0 or positive
  MaxItems      \* bound: items pushed

ASSUME QueueAssumption == MaxItems \in Nat /\ Waits \subseteq Int

VARIABLES
  l,            \* the list, of items numbered as they are pushed
  force_wakeup,
  pushed,       \* items pushed so far
  signalling,   \* producers between mutex_unlock and condition_signal
  forcing,      \* force_wakeup between its unlock and its signal
  cpc, ms,      \* a consumer in block_queue_pop, and its argument
  got, cleared  \* ghost: items popped, in order; items block_queue_clear dropped

qvars == <<l, force_wakeup, pushed, signalling, forcing, cpc, ms, got, cleared>>

ItemsIn(q) == {q[i] : i \in DOMAIN q}

QInit ==
  /\ l = <<>> /\ force_wakeup = FALSE /\ pushed = 0
  /\ signalling = {} /\ forcing = FALSE
  /\ cpc = [c \in Consumer |-> "out"] /\ ms = [c \in Consumer |-> 0]
  /\ got = <<>> /\ cleared = {}

QGoto(c, p) == cpc' = [cpc EXCEPT ![c] = p]

\* condition_signal: one waiting consumer wakes up, if there is one.
condition_signal ==
  \/ \E c \in Consumer : cpc[c] = "waiting" /\ QGoto(c, "woken")
  \/ (\A c \in Consumer : cpc[c] # "waiting") /\ UNCHANGED cpc

\* Mutant: isEmpty is read after the push.
push_then_test(p) ==
  /\ p \notin signalling /\ pushed < MaxItems
  /\ l' = Append(l, pushed + 1) /\ pushed' = pushed + 1
  /\ UNCHANGED <<force_wakeup, signalling, forcing, cpc, ms, got, cleared>>

\* Mutant: push_front.
push_in_front(p) ==
  /\ p \notin signalling /\ pushed < MaxItems
  /\ l' = <<pushed + 1>> \o l /\ pushed' = pushed + 1
  /\ signalling' = IF l = <<>> THEN signalling \cup {p} ELSE signalling
  /\ UNCHANGED <<force_wakeup, forcing, cpc, ms, got, cleared>>

block_queue_push(p) ==
  /\ p \notin signalling /\ pushed < MaxItems
  /\ l' = Append(l, pushed + 1) /\ pushed' = pushed + 1
  /\ signalling' = IF l = <<>> THEN signalling \cup {p} ELSE signalling
  /\ UNCHANGED <<force_wakeup, forcing, cpc, ms, got, cleared>>

PushSignal(p) ==
  /\ p \in signalling /\ condition_signal
  /\ signalling' = signalling \ {p}
  /\ UNCHANGED <<l, force_wakeup, pushed, forcing, ms, got, cleared>>

block_queue_force_wakeup ==
  /\ ~forcing
  /\ force_wakeup' = TRUE /\ forcing' = TRUE
  /\ UNCHANGED <<l, pushed, signalling, cpc, ms, got, cleared>>

ForceSignal ==
  /\ forcing /\ condition_signal
  /\ forcing' = FALSE
  /\ UNCHANGED <<l, force_wakeup, pushed, signalling, ms, got, cleared>>

block_queue_clear ==
  /\ l # <<>>
  /\ cleared' = cleared \cup ItemsIn(l) /\ l' = <<>>
  /\ UNCHANGED <<force_wakeup, pushed, signalling, forcing, cpc, ms, got>>

\* The loop test of block_queue_pop, and what follows it.
TakeOrWait(c, wait) ==
  \/ /\ l # <<>>
     /\ got' = Append(got, Head(l)) /\ l' = Tail(l)
     /\ QGoto(c, "out")
  \/ /\ l = <<>>
     /\ QGoto(c, IF wait = 0 THEN "out" ELSE "waiting")
     /\ UNCHANGED <<l, got>>

block_queue_pop(c, wait) ==
  /\ cpc[c] = "out"
  /\ ms' = [ms EXCEPT ![c] = wait]
  /\ TakeOrWait(c, wait)
  /\ UNCHANGED <<force_wakeup, pushed, signalling, forcing, cleared>>

\* Mutant: force_wakeup is not tested.
ResumeUnforced(c) ==
  /\ cpc[c] = "woken" /\ TakeOrWait(c, ms[c])
  /\ UNCHANGED <<force_wakeup, pushed, signalling, forcing, ms, cleared>>

\* The wait returned: force_wakeup first, then the loop test again.
Resume(c) ==
  /\ cpc[c] = "woken"
  /\ \/ /\ force_wakeup
        /\ force_wakeup' = FALSE /\ QGoto(c, "out")
        /\ UNCHANGED <<l, got>>
     \/ /\ ~force_wakeup /\ TakeOrWait(c, ms[c])
        /\ UNCHANGED force_wakeup
  /\ UNCHANGED <<pushed, signalling, forcing, ms, cleared>>

\* condition_timedwait gives up: POP_TIMEOUT, whatever is in the list by now.
TimeOut(c) ==
  /\ cpc[c] = "waiting" /\ ms[c] > 0
  /\ QGoto(c, "out")
  /\ UNCHANGED <<l, force_wakeup, pushed, signalling, forcing, ms, got, cleared>>

\* pthread_cond_wait may return for no reason.
Spurious(c) ==
  /\ cpc[c] = "waiting" /\ QGoto(c, "woken")
  /\ UNCHANGED <<l, force_wakeup, pushed, signalling, forcing, ms, got, cleared>>

Pop(c) == (\E w \in Waits : block_queue_pop(c, w)) \/ Resume(c)

QNext ==
  \/ \E p \in Producer : block_queue_push(p) \/ PushSignal(p)
  \/ block_queue_force_wakeup \/ ForceSignal \/ block_queue_clear
  \/ \E c \in Consumer : Pop(c) \/ TimeOut(c) \/ Spurious(c)

QSpec == QInit /\ [][QNext]_qvars

\* Threads inside push, force_wakeup and pop keep running, and consumers call
\* pop again and again, as worker loops do.  No wake-up without a signal is
\* counted on.
QFairness ==
  /\ \A p \in Producer : WF_qvars(PushSignal(p))
  /\ WF_qvars(ForceSignal)
  /\ \A c \in Consumer : WF_qvars(Pop(c))

QFairSpec == QSpec /\ QFairness

-----------------------------------------------------------------------------
(* Properties.                                                             *)

\* "blocks in pop when the queue is empty, until push wakes it": nobody sleeps
\* on a queue that has items, unless the signal is still to come or another
\* consumer is on its way to them.  push signals only when it found the list
\* empty, so this takes an argument over several pushes.  It holds with one
\* consumer only: of two that sleep, two pushes may wake one.
WakeupPending ==
  l # <<>> /\ (\E c \in Consumer : cpc[c] = "waiting") =>
    \/ signalling # {}
    \/ \E c \in Consumer : cpc[c] = "woken"

\* Items leave the queue once each and in the order of the pushes, over all
\* interleavings of pop, time-outs, forced wake-ups and clear.
FifoOnce ==
  LET q == got \o l
  IN  /\ \A i, j \in DOMAIN q : i < j => q[i] < q[j]
      /\ ItemsIn(q) \cup cleared = 1..pushed
      /\ ItemsIn(q) \cap cleared = {}

\* Every item is popped (or cleared) in the end.
ItemsConsumed ==
  \A i \in 1..MaxItems : (i \in ItemsIn(l)) ~> (i \notin ItemsIn(l))

\* force_wakeup gets a consumer that sleeps out of pop, items or not, unless
\* the consumer has used up the flag in an earlier call.
ForceWakes ==
  \A c \in Consumer :
    (forcing /\ force_wakeup /\ cpc[c] = "waiting") ~> (cpc[c] = "out")

=============================================================================

------------------------------- MODULE Threads -------------------------------
(***************************************************************************)
(* thread.c and the barrior of sync.c: threads meet once at a barrier,     *)
(* suspend themselves, resume each other and end; once the main thread has *)
(* joined them all it may destroy the barrier (testthread.c waits for a    *)
(* key to be pressed in place of the join).  What a thread does under a    *)
(* mutex, up to the next wait on the condition, is one step; a wait may    *)
(* end by itself.  Every thread_t has its own condition.                   *)
(***************************************************************************)
EXTENDS Integers, FiniteSets

CONSTANTS
  PThread,
  BarriorCounts        \* what the barrier may be created with

ASSUME ThreadsAssumption == BarriorCounts \subseteq Int

VARIABLES
  tpc,          \* of every thread: run, wait, timed, awake, timeup, bwait, bawake, end
  is_suspend,
  wait_count, met,      \* the barrier, and ghost: the threads that have called it
  passed,       \* ghost: the threads that have returned from it
  joined        \* the threads main has joined

tvars == <<tpc, is_suspend, wait_count, met, passed, joined>>

\* create_thread and thread_start_run, and barrior_create before them.
TInit ==
  /\ tpc = [t \in PThread |-> "run"]
  /\ is_suspend = [t \in PThread |-> FALSE]
  /\ wait_count \in BarriorCounts /\ met = {} /\ passed = {} /\ joined = {}

\* ms > 0 ("timed") or not: the flag, then the wait.
thread_suspend(t, how) ==
  /\ tpc[t] = "run"
  /\ is_suspend' = [is_suspend EXCEPT ![t] = TRUE]
  /\ tpc' = [tpc EXCEPT ![t] = how]
  /\ UNCHANGED <<wait_count, met, passed, joined>>

\* Called by another thread; when t is not suspended, nothing is remembered.
thread_resume(t) ==
  /\ \E u \in PThread \ {t} : tpc[u] = "run"
  /\ is_suspend[t]
  /\ is_suspend' = [is_suspend EXCEPT ![t] = FALSE]
  /\ tpc' = [tpc EXCEPT ![t] = CASE @ = "wait" -> "awake"
                               [] @ = "timed" -> "timeup"
                               [] OTHER -> @]
  /\ UNCHANGED <<wait_count, met, passed, joined>>

\* The wait of t ends by itself, or after the 5 s of condition_timedwait.
WaitEnds(t) ==
  /\ tpc[t] \in {"wait", "timed", "bwait"}
  /\ tpc' = [tpc EXCEPT ![t] = CASE @ = "wait" -> "awake"
                               [] @ = "timed" -> "timeup"
                               [] @ = "bwait" -> "bawake"]
  /\ UNCHANGED <<is_suspend, wait_count, met, passed, joined>>

\* Back under the mutex: an untimed suspend tests the flag again.
SuspendEnd(t) ==
  /\ tpc[t] \in {"awake", "timeup"}
  /\ tpc' = [tpc EXCEPT ![t] = IF @ = "awake" /\ is_suspend[t] THEN "wait" ELSE "run"]
  /\ is_suspend' = [is_suspend EXCEPT ![t] = IF tpc[t] = "awake" THEN @ ELSE FALSE]
  /\ UNCHANGED <<wait_count, met, passed, joined>>

\* Mutant: one waiter is woken in place of all.
barrior_wait_signal(t) ==
  LET waiting == {u \in PThread : tpc[u] = "bwait"}
      last    == wait_count = 1
      woken   == IF last /\ waiting # {} THEN {CHOOSE u \in waiting : TRUE} ELSE {}
  IN  /\ tpc[t] = "run" /\ t \notin met
      /\ met' = met \cup {t} /\ wait_count' = wait_count - 1
      /\ tpc' = [u \in PThread |-> CASE u = t /\ wait_count > 1 -> "bwait"
                                   [] u \in woken -> "bawake"
                                   [] OTHER -> tpc[u]]
      /\ passed' = IF wait_count > 1 THEN passed ELSE passed \cup {t}
      /\ UNCHANGED <<is_suspend, joined>>

\* The last of the count wakes the others and goes on; later ones do not wait.
barrior_wait(t) ==
  /\ tpc[t] = "run" /\ t \notin met
  /\ met' = met \cup {t} /\ wait_count' = wait_count - 1
  /\ tpc' = [u \in PThread |->
              CASE u = t /\ wait_count > 1 -> "bwait"
                [] u # t /\ wait_count = 1 /\ tpc[u] = "bwait" -> "bawake"
                [] OTHER -> tpc[u]]
  /\ passed' = IF wait_count > 1 THEN passed ELSE passed \cup {t}
  /\ UNCHANGED <<is_suspend, joined>>

\* Mutant: the count is not tested again after the wait.
BarriorEndIf(t) ==
  /\ tpc[t] = "bawake"
  /\ tpc' = [tpc EXCEPT ![t] = "run"]
  /\ passed' = passed \cup {t}
  /\ UNCHANGED <<is_suspend, wait_count, met, joined>>

\* The count is tested again after every wait.
BarriorEnd(t) ==
  /\ tpc[t] = "bawake"
  /\ tpc' = [tpc EXCEPT ![t] = IF wait_count > 0 THEN "bwait" ELSE "run"]
  /\ passed' = IF wait_count > 0 THEN passed ELSE passed \cup {t}
  /\ UNCHANGED <<is_suspend, wait_count, met, joined>>

\* The routine returns.
End(t) ==
  /\ tpc[t] = "run" /\ t \in met
  /\ tpc' = [tpc EXCEPT ![t] = "end"]
  /\ UNCHANGED <<is_suspend, wait_count, met, passed, joined>>

thread_join(t) ==
  /\ tpc[t] = "end" /\ t \notin joined
  /\ joined' = joined \cup {t}
  /\ UNCHANGED <<tpc, is_suspend, wait_count, met, passed>>

destroyed == joined = PThread        \* main goes on to barrior_destroy

Wakes(t) == SuspendEnd(t) \/ BarriorEnd(t)

TNext ==
  \E t \in PThread :
    \/ \E how \in {"wait", "timed"} : thread_suspend(t, how)
    \/ thread_resume(t) \/ WaitEnds(t) \/ Wakes(t)
    \/ barrior_wait(t) \/ End(t) \/ thread_join(t)

TSpec == TInit /\ [][TNext]_tvars /\ \A t \in PThread : WF_tvars(Wakes(t))

-----------------------------------------------------------------------------
(* Properties.                                                             *)

\* No thread gets past the barrier before as many have come as it was created
\* for, spurious wakeups or not; the barrier is destroyed with nobody at it.
BarrierHolds ==
  /\ passed # {} => wait_count <= 0
  /\ destroyed => met = PThread /\ passed = PThread

\* A suspended thread stays in reach: while it waits its flag is up, so that
\* the next thread_resume reaches it, whichever timeout or wakeup came between.
SuspendedReachable == \A t \in PThread : tpc[t] = "wait" => is_suspend[t]

\* Neither the barrier nor the suspend flag is fooled by wake-ups that come by
\* themselves, time-outs or resumes at the wrong moment.
WaitsHonest == BarrierHolds /\ SuspendedReachable

\* Once enough threads have come, every thread at the barrier gets past it: the
\* one broadcast reaches all of them.
BarrierOpens == \A t \in PThread : wait_count <= 0 /\ t \in met ~> t \in passed
=============================================================================

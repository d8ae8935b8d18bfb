------------------------------- MODULE CoSche -------------------------------
(***************************************************************************)
(* The coroutine scheduler of coro/co_sche.c.  One thread: a step is what  *)
(* happens from one uthread_switch to the next.  _less casts a heap        *)
(* element as if it were the coroutine, so that the order of the sleepers  *)
(* is any order; of the clock only one thing matters, which sleepers it    *)
(* has passed (timeout < now).                                             *)
(***************************************************************************)
EXTENDS Integers, Sequences, FiniteSets, SequencesExt

CONSTANTS
  Coro, s_co,   \* the coroutines spawned, and the scheduler's own
  max_coro      \* the size of the heap

ASSUME CoAssumption ==
  /\ IsFiniteSet(Coro) /\ max_coro \in Nat
  /\ s_co \notin Coro /\ "abort" \notin Coro \cup {s_co}

VARIABLES
  running,      \* the coroutine on the stack; "abort" after a failed assert
  active_list, sleepers, overdue,
  status, coro_size, stop,
  scheduling    \* sche_schedule has been called

covars == <<running, active_list, sleepers, overdue, status, coro_size, stop, scheduling>>

\* sche_create; CORO_YIELD is the 0 that calloc leaves in the status of s_co.
CoInit ==
  /\ running = s_co /\ active_list = <<>> /\ sleepers = {} /\ overdue = {}
  /\ status = [c \in Coro \cup {s_co} |-> IF c = s_co THEN "YIELD" ELSE "NONE"]
  /\ coro_size = 0 /\ stop = FALSE /\ scheduling = FALSE

\* The new coroutine puts itself on the list and switches back at once.
sche_spawn(c) ==
  /\ ~scheduling /\ status[c] = "NONE"
  /\ active_list' = Append(active_list, c)
  /\ status' = [status EXCEPT ![c] = "ACTIVE"]
  /\ coro_size' = coro_size + 1
  /\ UNCHANGED <<running, sleepers, overdue, stop, scheduling>>

sche_schedule ==
  /\ ~scheduling /\ coro_size > 0
  /\ scheduling' = TRUE
  /\ UNCHANGED <<running, active_list, sleepers, overdue, status, coro_size, stop>>

\* The clock passes the time some sleeper asked for.
SleepOver ==
  /\ \E c \in sleepers \ overdue : overdue' = overdue \cup {c}
  /\ UNCHANGED <<running, active_list, sleepers, status, coro_size, stop, scheduling>>

\* The sleepers check_time_out takes off the heap, in order: it stops at the
\* first that is overdue (41), else when the heap is empty.
Woken ==
  {w \in SetToAllKPermutations(sleepers \ overdue) :
     ToSet(w) = sleepers \/ sleepers \cap overdue # {}}

\* Every so many switches, when 200 ms are over: sometimes.
check_time_out ==
  {[active |-> active_list \o w, sleepers |-> sleepers \ ToSet(w), woken |-> ToSet(w)] :
     w \in Woken \cup {<<>>}}

\* Mutant: the list is a stack.
sche_next_stack(co, t, st) ==
  LET next == IF t.active = <<>> THEN s_co ELSE Last(t.active)
      rest == IF t.active = <<>> THEN <<>> ELSE Front(t.active)
      put  == st[co] = "YIELD"
  IN  /\ running' = IF co = next THEN "abort" ELSE next
      /\ active_list' = IF put THEN Append(rest, co) ELSE rest
      /\ status' = IF put THEN [st EXCEPT ![co] = "ACTIVE"] ELSE st
      /\ sleepers' = t.sleepers

\* _sche_next, from the lists t and the statuses st: the scheduler itself goes
\* on the list the first time, when its status is still 0.
_sche_next(co, t, st) ==
  LET next == IF t.active = <<>> THEN s_co ELSE Head(t.active)
      rest == IF t.active = <<>> THEN <<>> ELSE Tail(t.active)
      put  == st[co] = "YIELD"
  IN  /\ running' = IF co = next THEN "abort" ELSE next       \* assert(co != next)
      /\ active_list' = IF put THEN Append(rest, co) ELSE rest
      /\ status' = IF put THEN [st EXCEPT ![co] = "ACTIVE"] ELSE st
      /\ sleepers' = t.sleepers

Wake(st, t) == [c \in DOMAIN st |-> IF c \in t.woken THEN "ACTIVE" ELSE st[c]]

\* One turn of the loop of sche_schedule.
Schedule ==
  /\ scheduling /\ running = s_co /\ ~stop
  /\ \E t \in check_time_out :
       IF t.active # <<>> THEN _sche_next(s_co, t, Wake(status, t))
       ELSE UNCHANGED <<running, active_list, status, sleepers>>
  /\ UNCHANGED <<overdue, coro_size, stop, scheduling>>

coro_yield(c) ==
  /\ running = c
  /\ \E t \in check_time_out :
       _sche_next(c, t, [Wake(status, t) EXCEPT ![c] = "YIELD"])
  /\ UNCHANGED <<overdue, coro_size, stop, scheduling>>

\* Mutant: one place of the heap is not used.
HasRoomLess == Cardinality(sleepers) < max_coro - 1

HasRoom == Cardinality(sleepers) < max_coro        \* else minheap_insert drops it

coro_sleep(c) ==
  /\ running = c
  /\ _sche_next(c, [active |-> active_list,
                    sleepers |-> IF HasRoom THEN sleepers \cup {c} ELSE sleepers],
                [status EXCEPT ![c] = "SLEEP"])
  /\ overdue' = overdue \ {c}
  /\ UNCHANGED <<coro_size, stop, scheduling>>

\* The function returns: coro_fun switches to the scheduler, wherever that is
\* queued, and sche_schedule destroys the coroutine.
coro_fun(c) ==
  /\ running = c
  /\ running' = s_co
  /\ status' = [status EXCEPT ![c] = "DIE"]
  /\ coro_size' = coro_size - 1
  /\ stop' = (coro_size' = 0)
  /\ UNCHANGED <<active_list, sleepers, overdue, scheduling>>

RunCoro(c) == coro_yield(c) \/ coro_sleep(c) \/ coro_fun(c)

CoNext ==
  \/ \E c \in Coro : sche_spawn(c) \/ RunCoro(c)
  \/ sche_schedule \/ Schedule \/ SleepOver

\* The one thread goes on running.
CoSpec ==
  CoInit /\ [][CoNext]_covars /\ WF_covars(Schedule) /\ \A c \in Coro : WF_covars(RunCoro(c))

-----------------------------------------------------------------------------
(* Properties.                                                             *)

Alive == {c \in Coro : status[c] \notin {"NONE", "DIE"}}

\* A coroutine that is alive is in one place: it runs, it is on the active list
\* once, or it sleeps; one that is over is nowhere, and the loop of
\* sche_schedule ends exactly when all are over.
OnePlace ==
  /\ \A c \in Coro :
       LET queued == Cardinality({i \in DOMAIN active_list : active_list[i] = c})
           asleep == IF c \in sleepers THEN 1 ELSE 0
           runs   == IF running = c THEN 1 ELSE 0
       IN  running # "abort" =>
             queued + asleep + runs = IF c \in Alive THEN 1 ELSE 0
  /\ coro_size = Cardinality(Alive)
  /\ stop <=> scheduling /\ Alive = {}

\* Nobody starves: a coroutine on the active list gets to run, whatever the
\* others do and however many sleepers are put behind it.
RoundRobin ==
  \A c \in Coro :
    c \in ToSet(active_list) /\ scheduling ~> running \in {c, "abort"}

\* assert(co != next) (co_sche.c:70).
NextIsOther == running # "abort"
=============================================================================

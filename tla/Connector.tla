------------------------------ MODULE Connector ------------------------------
(***************************************************************************)
(* Connector.c: connects in progress, watched with select.  connector_run  *)
(* is called again and again by one thread; connector_connect by any       *)
(* thread, and by callbacks.  Of the clock only its verdicts matter: which *)
(* connects have passed their timeout, and whether the run's time is over. *)
(* A timeout that wraps around 2^32 is passed from the start.              *)
(***************************************************************************)
EXTENDS Integers, Sequences, FiniteSets, SequencesExt, ListOps

CONSTANTS
  Conn,         \* the calls of connector_connect
  FD_SETSIZE

ASSUME ConnectorAssumption == FD_SETSIZE \in Nat

VARIABLES
  extern_pending, pending,    \* the two lists
  Set, fd_seisize,
  phase,        \* of connector_run: idle, select, timeouts; gone once destroyed
  i,            \* its loop counter, which is not reset before the first loop
  over,         \* tick >= _timeout
  ready,        \* connects the kernel is done with
  expired,      \* connects with tick >= pc->timeout
  answers       \* ghost: the callbacks made for each call

nvars == <<extern_pending, pending, Set, fd_seisize, phase, i, over, ready, expired, answers>>

ConnInit ==
  /\ extern_pending = <<>> /\ pending = <<>> /\ Set = {} /\ fd_seisize = 0
  /\ phase = "idle" /\ i = 0 /\ over = FALSE
  /\ ready = {} /\ expired = {} /\ answers = [p \in Conn |-> <<>>]

Asked(p) == p \in ToSet(extern_pending) \cup ToSet(pending)

\* call_back for every connect of ps.
Call(ps, with) == [p \in Conn |-> IF p \in ps THEN Append(answers[p], with) ELSE answers[p]]

\* The call fails (-1, nothing kept), connects at once, or is queued.
connector_connect(p) ==
  /\ phase # "gone" /\ ~Asked(p) /\ answers[p] = <<>>
  /\ \/ answers' = Call({p}, "sock") /\ UNCHANGED <<extern_pending, expired>>
     \/ /\ extern_pending' = Append(extern_pending, p)
        /\ expired' \in {expired, expired \cup {p}}
        /\ UNCHANGED answers
  /\ UNCHANGED <<pending, Set, fd_seisize, phase, i, over, ready>>

Finished(p) ==      \* external: connected, or refused
  /\ Asked(p) /\ p \notin ready
  /\ ready' = ready \cup {p}
  /\ UNCHANGED <<extern_pending, pending, Set, fd_seisize, phase, i, over, expired, answers>>

Expire(p) ==
  /\ Asked(p) /\ p \notin expired
  /\ expired' = expired \cup {p}
  /\ UNCHANGED <<extern_pending, pending, Set, fd_seisize, phase, i, over, ready, answers>>

RunTimeOver ==
  /\ ~over /\ phase \in {"select", "timeouts"}
  /\ over' = TRUE
  /\ UNCHANGED <<extern_pending, pending, Set, fd_seisize, phase, i, ready, expired, answers>>

\* The new connects are moved over under the lock; those that do not fit fail.
connector_run ==
  LET room == IF fd_seisize < FD_SETSIZE THEN FD_SETSIZE - fd_seisize ELSE 0
      n    == IF room < Len(extern_pending) THEN room ELSE Len(extern_pending)
      new  == SubSeq(extern_pending, 1, n)
      full == SubSeq(extern_pending, n + 1, Len(extern_pending))
  IN  /\ phase = "idle"
      /\ phase' = "select" /\ i' = 0 /\ over' = FALSE
      /\ extern_pending' = <<>>
      /\ pending' = pending \o new
      /\ Set' = Set \cup ToSet(new) /\ fd_seisize' = fd_seisize + n
      /\ answers' = Call(ToSet(full), "-1")
      /\ UNCHANGED <<ready, expired>>

\* Nothing pending: return.
NothingPending ==
  /\ phase = "select" /\ pending = <<>>
  /\ phase' = "idle"
  /\ UNCHANGED <<extern_pending, pending, Set, fd_seisize, i, over, ready, expired, answers>>

\* The first loop, over the n connects at the front of the list.
examine(n, writable) ==
  LET seen == SubSeq(pending, 1, n)
      rest == SubSeq(pending, n + 1, Len(pending))
  IN  [list |-> rest \o Without(seen, writable),
       done |-> ToSet(seen) \cap writable]

\* select reports what is ready, or nothing (its timeout, a signal).  In the
\* second round of a run i is no less than the length of the list, and what
\* select reports is not looked at.
Select ==
  LET size == Len(pending)
      n    == IF i < size THEN size - i ELSE 0
  IN  /\ phase = "select" /\ pending # <<>>
      /\ \E writable \in {{}, Set \cap ready} :
           LET r == examine(IF writable = {} THEN 0 ELSE n, writable)
           IN  /\ pending' = r.list /\ answers' = Call(r.done, "sock")
               /\ fd_seisize' = fd_seisize - Cardinality(r.done)
               /\ Set' = writable
      /\ phase' = "timeouts"
      /\ UNCHANGED <<extern_pending, i, over, ready, expired>>

\* Mutant: connects are not given up.
TimeOutsNone ==
  /\ phase = "timeouts"
  /\ Set' = ToSet(pending) /\ i' = Len(pending)
  /\ phase' = IF over THEN "idle" ELSE "select"
  /\ UNCHANGED <<extern_pending, pending, fd_seisize, over, ready, expired, answers>>

\* Mutant: Set keeps what select left in it.
TimeOutsKeepSet ==
  LET late == ToSet(pending) \cap expired
  IN  /\ phase = "timeouts"
      /\ pending' = Without(pending, late)
      /\ answers' = Call(late, "-1")
      /\ fd_seisize' = fd_seisize - Cardinality(late)
      /\ i' = Len(pending)
      /\ phase' = IF over THEN "idle" ELSE "select"
      /\ UNCHANGED <<extern_pending, Set, over, ready, expired>>

\* FD_ZERO, then the loop over the timeouts, which sets what is left again.
TimeOuts ==
  LET late == ToSet(pending) \cap expired
  IN  /\ phase = "timeouts"
      /\ pending' = Without(pending, late)
      /\ answers' = Call(late, "-1")
      /\ fd_seisize' = fd_seisize - Cardinality(late)
      /\ Set' = ToSet(pending) \ late
      /\ i' = Len(pending)
      /\ phase' = IF over THEN "idle" ELSE "select"
      /\ UNCHANGED <<extern_pending, over, ready, expired>>

\* What is pending is freed and never answered.
connector_destroy ==
  /\ phase = "idle"
  /\ phase' = "gone" /\ extern_pending' = <<>> /\ pending' = <<>>
  /\ UNCHANGED <<Set, fd_seisize, i, over, ready, expired, answers>>

Run == connector_run \/ NothingPending \/ Select \/ TimeOuts

ConnNext ==
  \/ \E p \in Conn : connector_connect(p) \/ Finished(p) \/ Expire(p)
  \/ RunTimeOver \/ Run \/ connector_destroy

\* One thread calls connector_run for ever, as test_connector.c does, and the
\* clock passes every timeout.
ConnSpec ==
  /\ ConnInit /\ [][ConnNext]_nvars
  /\ WF_nvars(Run) /\ WF_nvars(RunTimeOver)
  /\ \A p \in Conn : WF_nvars(Expire(p))

-----------------------------------------------------------------------------
(* Properties.                                                             *)

\* A connect is in one list once or has its one callback, never both, and the
\* count compared with FD_SETSIZE is the number watched.
OneCallback ==
  phase # "gone" =>
    /\ \A p \in Conn :
         LET q == extern_pending \o pending
         IN  Len(answers[p]) + Cardinality({k \in DOMAIN q : q[k] = p}) <= 1
    /\ fd_seisize = Len(pending) /\ fd_seisize <= FD_SETSIZE

\* What select is asked about is what is pending: a stale descriptor in Set
\* would be some other socket's by now, a missing one would never be reported.
SetExact == phase = "select" => Set = ToSet(pending)

\* Connects are handed from the callers' list to the watched ones and to their
\* callback without being doubled or left behind in Set.
HandedOnOnce == OneCallback /\ SetExact

\* Every connect is answered, though what select reports in the second round of
\* a run is thrown away: the timeouts see to it.
ConnectAnswered ==
  \A p \in Conn : Asked(p) ~> answers[p] # <<>> \/ phase = "gone"
=============================================================================

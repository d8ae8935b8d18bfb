-------------------------------- MODULE Log --------------------------------
(***************************************************************************)
(* log.c: callers queue messages under the log's mutex, one worker thread  *)
(* writes them to the files, close_log_system stops it.  A message is a    *)
(* number, its text a packet of PacketSize bytes: a packet in the worker's *)
(* hands is <<message, bytes already written>>.  Nobody writes to a log    *)
(* after close_log_system has returned.                                    *)
(***************************************************************************)
EXTENDS Integers, Sequences, SequencesExt, ListOps

CONSTANTS
  Writer, MaxLogs,
  MaxMessages,          \* bound: messages in all
  PacketSize,
  max_write_buf         \* packets one writev takes

ASSUME LogAssumption ==
  MaxLogs \in Nat /\ MaxMessages \in Nat /\ PacketSize \in Nat \ {0} /\ max_write_buf \in Nat

VARIABLES
  created,              \* log_files is 1 .. created
  log_queue, pending_log, file,
  is_close,
  writer,               \* the log a caller of log_write has passed the test for, or 0
  worker, cur, closing,   \* worker_routine: where it is, its log, its last round
  closer,               \* close_log_system: out, joining, returned
  messages, accepted,   \* ghost: number made; pushed to each log, in order
  promised              \* ghost: what was accepted when close_log_system began

logvars == <<created, log_queue, pending_log, file, is_close, writer, worker, cur, closing,
          closer, messages, accepted, promised>>

LogFile == 1 .. MaxLogs
CloseRecord == 0
Packet(m) == <<m, 0>>

\* init_log_system.
LogInit ==
  /\ created = 0
  /\ log_queue = [f \in LogFile |-> <<>>] /\ pending_log = log_queue
  /\ file = log_queue /\ accepted = log_queue /\ promised = log_queue
  /\ is_close = FALSE /\ writer = [w \in Writer |-> 0]
  /\ worker = "test" /\ cur = 0 /\ closing = FALSE
  /\ closer = "out" /\ messages = 0

\* create_log, then its own log_write, both on the caller's thread.
create_log(w) ==
  /\ closer # "returned" /\ created < MaxLogs /\ writer[w] = 0
  /\ created' = created + 1
  /\ writer' = [writer EXCEPT ![w] = IF is_close THEN 0 ELSE created + 1]
  /\ UNCHANGED <<log_queue, pending_log, file, is_close, worker, cur, closing,
                 closer, messages, accepted, promised>>

\* log_write: the test of is_close, and later the push under the mutex.
log_write(w) ==
  /\ closer # "returned" /\ writer[w] = 0 /\ ~is_close
  /\ \E f \in 1 .. created : writer' = [writer EXCEPT ![w] = f]
  /\ UNCHANGED <<created, log_queue, pending_log, file, is_close, worker, cur, closing,
                 closer, messages, accepted, promised>>

Push(w) ==
  LET f == writer[w]
  IN  /\ f # 0 /\ closer # "returned" /\ messages < MaxMessages
      /\ messages' = messages + 1
      /\ log_queue' = [log_queue EXCEPT ![f] = Append(@, Packet(messages + 1))]
      /\ accepted' = [accepted EXCEPT ![f] = Append(@, messages + 1)]
      /\ writer' = [writer EXCEPT ![w] = 0]
      /\ UNCHANGED <<created, pending_log, file, is_close, worker, cur, closing,
                     closer, promised>>

\* Mutant: no last round.
TestNoLastRound ==
  /\ worker = "test"
  /\ closing' = is_close
  /\ cur' = IF created = 0 \/ is_close THEN 0 ELSE 1
  /\ worker' = IF cur' # 0 THEN "swap" ELSE IF is_close THEN "done" ELSE "test"
  /\ UNCHANGED <<created, log_queue, pending_log, file, is_close, writer,
                 closer, messages, accepted, promised>>

\* worker_routine: test is_close, then write_all_log_file from the first log.
Test ==
  /\ worker = "test"
  /\ closing' = is_close
  /\ cur' = IF created = 0 THEN 0 ELSE 1
  /\ worker' = IF cur' # 0 THEN "swap" ELSE IF is_close THEN "done" ELSE "test"
  /\ UNCHANGED <<created, log_queue, pending_log, file, is_close, writer,
                 closer, messages, accepted, promised>>

\* Mutant: the close record is written before what was queued.
SwapCloseFirst ==
  /\ worker = "swap"
  /\ pending_log' = [pending_log EXCEPT ![cur] =
       @ \o (IF closing THEN <<Packet(CloseRecord)>> ELSE <<>>) \o log_queue[cur]]
  /\ log_queue' = [log_queue EXCEPT ![cur] = <<>>]
  /\ worker' = "write"
  /\ UNCHANGED <<created, file, is_close, writer, cur, closing, closer, messages,
                 accepted, promised>>

\* write_to_file: link_list_swap under the mutex; the last round adds a record.
Swap ==
  /\ worker = "swap"
  /\ pending_log' = [pending_log EXCEPT ![cur] =
       @ \o log_queue[cur] \o (IF closing THEN <<Packet(CloseRecord)>> ELSE <<>>)]
  /\ log_queue' = [log_queue EXCEPT ![cur] = <<>>]
  /\ worker' = "write"
  /\ UNCHANGED <<created, file, is_close, writer, cur, closing, closer, messages,
                 accepted, promised>>

\* What is left to write of a packet, and of a list of them.
Left(p) == [b \in 1 .. (PacketSize - p[2]) |-> <<p[1], p[2] + b>>]
Bytes(packets) == Joined([k \in DOMAIN packets |-> Left(packets[k])], Len(packets))

\* prepare_write: the bytes of the packets at the front, as many as fit.
prepare_write ==
  LET n == Len(pending_log[cur])
  IN  Bytes(SubSeq(pending_log[cur], 1, IF n < max_write_buf THEN n ELSE max_write_buf))

\* One byte of the first packet is written; the packet leaves with its last.
finish_byte(p) ==
  IF Head(p)[2] + 1 >= PacketSize THEN Tail(p)
  ELSE <<<<Head(p)[1], Head(p)[2] + 1>>>> \o Tail(p)

on_write_finish(p, n) ==
  LET after[k \in 0 .. n] == IF k = 0 THEN p ELSE finish_byte(after[k - 1])
  IN  after[n]

\* One round of the write loop.  writev may write less than it is asked to; when
\* it fails, nothing changes and the loop goes round again.
Write ==
  /\ worker = "write" /\ pending_log[cur] # <<>>
  /\ \E n \in 1 .. Len(prepare_write) :
       /\ file' = [file EXCEPT ![cur] = @ \o SubSeq(prepare_write, 1, n)]
       /\ pending_log' = [pending_log EXCEPT ![cur] = on_write_finish(@, n)]
  /\ UNCHANGED <<created, log_queue, is_close, writer, worker, cur, closing, closer,
                 messages, accepted, promised>>

\* The next log of the list, or the end of the round.
NextLog ==
  /\ worker = "write" /\ pending_log[cur] = <<>>
  /\ cur' = IF cur < created THEN cur + 1 ELSE 0
  /\ worker' = IF cur < created THEN "swap" ELSE IF closing THEN "done" ELSE "test"
  /\ UNCHANGED <<created, log_queue, pending_log, file, is_close, writer, closing,
                 closer, messages, accepted, promised>>

close_log_system ==
  /\ closer = "out"
  /\ is_close' = TRUE /\ closer' = "joining" /\ promised' = accepted
  /\ UNCHANGED <<created, log_queue, pending_log, file, writer, worker, cur, closing,
                 messages, accepted>>

\* thread_join, then destroy_log of every log: what is still queued is dropped.
Join ==
  /\ closer = "joining" /\ worker = "done"
  /\ closer' = "returned"
  /\ log_queue' = [f \in LogFile |-> <<>>]
  /\ UNCHANGED <<created, pending_log, file, is_close, writer, worker, cur, closing,
                 messages, accepted, promised>>

Worker == Test \/ Swap \/ Write \/ NextLog

LogNext ==
  \/ \E w \in Writer : create_log(w) \/ log_write(w) \/ Push(w)
  \/ Worker \/ close_log_system \/ Join

\* The threads keep running, and writev writes something sooner or later.
LogSpec == LogInit /\ [][LogNext]_logvars /\ WF_logvars(Worker) /\ WF_logvars(Join)

-----------------------------------------------------------------------------
(* Properties.                                                             *)

Texts(s) == Bytes([k \in DOMAIN s |-> Packet(s[k])])

\* Partial writes, batches and the swap of the lists lose, double, tear or
\* reorder nothing: file, the worker's list and the queue are, byte for byte,
\* the messages accepted; the one addition is the close record.
NothingTorn ==
  closer # "returned" =>
    \A f \in LogFile :
      Without(file[f] \o Bytes(pending_log[f]) \o Bytes(log_queue[f]),
              {CloseRecord} \X (1 .. PacketSize)) = Texts(accepted[f])

\* Close waits for the worker: what was accepted before close_log_system was
\* called is in the file, ahead of the close record, when it returns.
ClosedComplete ==
  closer = "returned" =>
    \A f \in 1 .. created : promised[f] # <<>> =>
      /\ IsPrefix(Texts(promised[f]), file[f])
      /\ Last(file[f])[1] = CloseRecord

\* The files hold what was logged, byte for byte and in order, whatever writev
\* does and whenever the log is closed.
LogFaithful == NothingTorn /\ ClosedComplete

\* Every message accepted before the close is written, close or no close, and
\* close_log_system returns.
Written ==
  /\ \A m \in 1 .. MaxMessages :
       (\E f \in LogFile : m \in ToSet(accepted[f])) /\ ~is_close
         ~> \E f \in LogFile : <<m, PacketSize>> \in ToSet(file[f])
  /\ closer = "joining" ~> closer = "returned"
=============================================================================

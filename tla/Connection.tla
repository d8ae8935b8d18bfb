----------------------------- MODULE Connection -----------------------------
(***************************************************************************)
(* Connection.c on top of the engine: the stream connection that the       *)
(* library offers to applications.  A connection owns one receive request  *)
(* and one send request (recv_overlap, send_overlap).  RecvFinish and      *)
(* SendFinish are the callbacks the engine runs; each keeps reading or     *)
(* writing with now = 1 until the kernel would block, delivering packets   *)
(* to the application on the way.  The application is the one of the test  *)
(* programs: its on_disconnect destroys the connection and releases the    *)
(* handle (testserver.c, testclient.c).                                    *)
(*                                                                         *)
(* One unit of input is one packet, one unit of output is one iovec of a   *)
(* queued packet; RecvStream looks inside the input.  A connection is      *)
(* named by its socket's slot.                                             *)
(***************************************************************************)
EXTENDS Reactor

CONSTANTS
  MaxList,      \* bound: units queued in send_list
  MaxWbaf       \* iovecs of one send request (MAX_WBAF)

ASSUME ConnectionAssumption == MaxList \in Nat \ {0} /\ MaxWbaf \in Nat \ {0}

VARIABLES
  live,         \* connections that exist
  started,      \* connection_start_recv was called (unpack_buf is set)
  recvUsed,     \* recv_overlap.isUsed
  sendUsed,     \* send_overlap.isUsed
  send_list,    \* units waiting in send_list
  prepared,     \* units the iovecs of the send request refer to
  pulled,       \* ghost: slots whose connection the application closed although
                \* the engine was serving it or had it on its active list
  xfer,         \* bytestransfer of the callback that runs
  step          \* where RecvFinish / SendFinish stands

connVars == <<live, started, recvUsed, sendUsed, send_list, prepared, pulled>>
cbVars   == <<xfer, step>>
cvars    == <<vars, connVars, cbVars>>

CTypeOK ==
  /\ TypeOK
  /\ live \subseteq Socket /\ started \subseteq Socket
  /\ recvUsed \subseteq Socket /\ sendUsed \subseteq Socket
  /\ send_list \in [Socket -> 0..MaxList]
  /\ prepared \in [Socket -> 0..MaxWbaf]
  /\ pulled \subseteq Socket
  /\ xfer \in Results
  /\ step \in {"deliver", "reread", "return", "freed"}

CInit ==
  /\ Init
  /\ live = {} /\ started = {} /\ recvUsed = {} /\ sendUsed = {}
  /\ send_list = [s \in Socket |-> 0] /\ prepared = [s \in Socket |-> 0]
  /\ pulled = {} /\ xfer = EAGAIN /\ step = "deliver"

-----------------------------------------------------------------------------
(* The engine's own steps, with the result a callback starts from.         *)

EngineStep ==
  /\ \/ EngineRun \/ PopActived \/ RecvIdle \/ SendIdle \/ Requeue \/ EpollWait
     \/ LoopEnd
     \/ \E s \in Socket : on_read_active(s) \/ on_write_active(s)
  /\ UNCHANGED <<connVars, cbVars>>

\* writev is given the iovecs the request was prepared with.
Complete(r) ==
  /\ Recv(r) \/ (Send(r) /\ r <= prepared[cur])
  /\ xfer' = r
  /\ UNCHANGED <<connVars, step>>

KernelStep == Kernel /\ UNCHANGED <<connVars, cbVars>>

-----------------------------------------------------------------------------
(* RecvFinish.                                                             *)

\* The callbacks at work.  What they do on a connection that was freed is
\* undefined: of the outcomes only the return to the engine (Finish) is followed.
InRecv == pc = "onread" /\ step \in {"deliver", "reread"} /\ cur \in live
InSend == pc = "onwrite" /\ step = "deliver" /\ cur \in live

\* process_packet has returned for one packet; after the last one of this
\* read, RecvFinish reads again.
PacketDone ==
  /\ InRecv /\ step = "deliver" /\ xfer > 0
  /\ xfer' = xfer - 1
  /\ step' = IF xfer = 1 THEN "reread" ELSE step
  /\ UNCHANGED <<vars, connVars>>

ReadAgain(r) ==
  /\ InRecv /\ step = "reread"
  /\ recvUsed' = recvUsed \cup {cur}
  /\ WSARecvNow(cur, r)
  /\ xfer' = r /\ step' = "deliver"
  /\ UNCHANGED <<live, started, sendUsed, send_list, prepared, pulled>>

\* Mutant: the slot is freed and the descriptor is left open.
remove_client_open(s, recvBusy, sendBusy) ==
  IF s \in recvBusy \cup sendBusy
  THEN UNCHANGED <<live, started, send_list, prepared, vars>>
  ELSE /\ live' = live \ {s} /\ started' = started \ {s}
       /\ send_list' = [send_list EXCEPT ![s] = 0]
       /\ prepared' = [prepared EXCEPT ![s] = 0]
       /\ status' = status \ {s}
       /\ UNCHANGED <<engine, registered, flagVars, activeVars, queueVars,
                      kernelVars, ready, threadVars>>

\* on_disconnect of the test programs: connection_destroy frees the connection
\* if neither request is in use, and then the handle is released.
remove_client(s, recvBusy, sendBusy) ==
  IF s \in recvBusy \cup sendBusy
  THEN UNCHANGED <<live, started, send_list, prepared, vars>>
  ELSE /\ live' = live \ {s} /\ started' = started \ {s}
       /\ send_list' = [send_list EXCEPT ![s] = 0]
       /\ prepared' = [prepared EXCEPT ![s] = 0]
       /\ ReleaseSocketWrapper(s)

\* Mutant: the send request is not looked at.
RecvDeadAlone ==
  /\ InRecv /\ step = "deliver" /\ xfer = DEAD
  /\ recvUsed' = recvUsed \ {cur}
  /\ remove_client(cur, recvUsed', {})
  /\ step' = "return"
  /\ UNCHANGED <<sendUsed, pulled, xfer>>

\* The peer is gone: -1, passive close, once the send request is idle too.
RecvDead ==
  /\ InRecv /\ step = "deliver" /\ xfer = DEAD
  /\ recvUsed' = recvUsed \ {cur}
  /\ IF cur \notin sendUsed
     THEN remove_client(cur, recvUsed', sendUsed)
     ELSE UNCHANGED <<live, started, send_list, prepared, vars>>
  /\ step' = "return"
  /\ UNCHANGED <<sendUsed, pulled, xfer>>

-----------------------------------------------------------------------------
(* SendFinish.                                                             *)

Least(a, b) == IF a <= b THEN a ELSE b

\* Mutant: the iovecs are not prepared again.
WriteOnStale(r) ==
  LET left == send_list[cur] - xfer
  IN  /\ InSend /\ xfer > 0 /\ left > 0
      /\ r <= prepared[cur]
      /\ WSASendNow(cur, r)
      /\ send_list' = [send_list EXCEPT ![cur] = left]
      /\ xfer' = r
      /\ UNCHANGED <<live, started, recvUsed, sendUsed, prepared, pulled, step>>

\* update_send_list drops what was written; then prepare_send, and write on.
WriteOn(r) ==
  LET left == send_list[cur] - xfer
      n    == Least(left, MaxWbaf)
  IN  /\ InSend /\ xfer > 0 /\ left > 0
      /\ r <= n
      /\ WSASendNow(cur, r)
      /\ send_list' = [send_list EXCEPT ![cur] = left]
      /\ prepared' = [prepared EXCEPT ![cur] = n]
      /\ xfer' = r
      /\ UNCHANGED <<live, started, recvUsed, sendUsed, pulled, step>>

\* Mutant: isUsed is not reset.
SentAllUsed ==
  /\ InSend /\ xfer > 0 /\ send_list[cur] = xfer
  /\ send_list' = [send_list EXCEPT ![cur] = 0]
  /\ prepared' = [prepared EXCEPT ![cur] = 0]
  /\ Return
  /\ xfer' = EAGAIN /\ UNCHANGED <<live, started, recvUsed, sendUsed, pulled, step>>

\* prepare_send found nothing: the request is idle, and SendFinish returns
\* whatever has become of the receive side.
SentAll ==
  /\ InSend /\ xfer > 0 /\ send_list[cur] = xfer
  /\ send_list' = [send_list EXCEPT ![cur] = 0]
  /\ prepared' = [prepared EXCEPT ![cur] = 0]
  /\ sendUsed' = sendUsed \ {cur}
  /\ Return
  /\ xfer' = EAGAIN /\ UNCHANGED <<live, started, recvUsed, pulled, step>>

SendDead ==
  /\ InSend /\ xfer = DEAD
  /\ sendUsed' = sendUsed \ {cur}
  /\ IF cur \notin recvUsed
     THEN remove_client(cur, recvUsed, sendUsed')
     ELSE UNCHANGED <<live, started, send_list, prepared, vars>>
  /\ step' = "return"
  /\ UNCHANGED <<recvUsed, pulled, xfer>>

\* Break out of the loop: it would block, the disconnect was handled, or the
\* connection is not there any more.
Finish ==
  /\ step \in {"return", "freed"} \/ (step = "deliver" /\ xfer = EAGAIN) \/ cur \notin live
  /\ Return
  /\ xfer' = EAGAIN /\ step' = "deliver"
  /\ UNCHANGED connVars

Callback ==
  \/ PacketDone \/ RecvDead \/ SentAll \/ SendDead \/ Finish
  \/ \E r \in Results : ReadAgain(r) \/ WriteOn(r)

-----------------------------------------------------------------------------
(* The application: outside EngineRun, in process_packet and in the        *)
(* callback of a packet that was sent.                                     *)

UserRuns ==
  \/ pc = "out"
  \/ /\ pc \in {"onread", "onwrite"}
     /\ step = "freed" \/ (step = "deliver" /\ xfer > 0 /\ cur \in live)

\* A connected socket and its connection (accept_callback, on_connect_callback).
connection_create(s) ==
  /\ OpenSocket(s)
  /\ live' = live \cup {s}
  /\ recvUsed' = recvUsed \ {s} /\ sendUsed' = sendUsed \ {s}
  /\ pulled' = pulled \ {s}
  /\ UNCHANGED <<started, send_list, prepared>>

Bind(s) == s \in live /\ Bind2Engine(s) /\ UNCHANGED connVars

connection_start_recv(s) ==
  /\ s \in live \ started
  /\ started' = started \cup {s}
  /\ recvUsed' = recvUsed \cup {s}
  /\ WSARecv(s)
  /\ UNCHANGED <<live, sendUsed, send_list, prepared, pulled>>

\* Append n units; start the send request unless it is under way.  Calling it
\* with nothing to send would violate assert(io) in WSASend.
connection_send(s, n) ==
  /\ s \in live /\ send_list[s] + n \in 1..MaxList
  /\ send_list' = [send_list EXCEPT ![s] = @ + n]
  /\ IF s \in sendUsed
     THEN UNCHANGED <<vars, sendUsed, prepared>>
     ELSE /\ sendUsed' = sendUsed \cup {s}
          /\ prepared' = [prepared EXCEPT ![s] = Least(send_list[s] + n, MaxWbaf)]
          /\ WSASend(s)
  /\ UNCHANGED <<live, started, recvUsed, pulled>>

connection_push_packet(s) ==
  /\ s \in live /\ send_list[s] < MaxList
  /\ send_list' = [send_list EXCEPT ![s] = @ + 1]
  /\ UNCHANGED <<vars, live, started, recvUsed, sendUsed, prepared, pulled>>

\* connection_active_close resets both isUsed flags, so that on_disconnect(-2)
\* destroys the connection even with requests queued on the socket, on the
\* active list, or in the very callback that is running.
connection_active_close(s) ==
  LET serving == pc # "out" /\ s = cur
  IN  /\ s \in live
      /\ recvUsed' = recvUsed \ {s} /\ sendUsed' = sendUsed \ {s}
      /\ remove_client(s, recvUsed', sendUsed')
      /\ pulled' = IF serving \/ s \in isactived THEN pulled \cup {s} ELSE pulled
      /\ step' = IF serving THEN "freed" ELSE step
      /\ UNCHANGED xfer

User ==
  /\ UserRuns
  /\ \E s \in Socket :
       \/ /\ \/ connection_create(s) \/ Bind(s) \/ connection_start_recv(s)
             \/ connection_send(s, 0) \/ connection_send(s, 1)
             \/ connection_push_packet(s)
          /\ UNCHANGED cbVars
       \/ connection_active_close(s)

CNext ==
  \/ EngineStep \/ KernelStep \/ Callback \/ User
  \/ \E r \in Results : Complete(r)

CSpec == CInit /\ [][CNext]_cvars

\* The engine thread keeps running: EngineRun is called in a loop (main of the
\* test programs) and neither it nor a callback stops half way.
CFairness ==
  /\ WF_cvars(EngineStep) /\ WF_cvars(Callback)
  /\ WF_cvars(\E r \in Results : Complete(r))

FairCSpec == CSpec /\ CFairness

-----------------------------------------------------------------------------
(* Properties.                                                             *)

Bit(b) == IF b THEN 1 ELSE 0

\* The request is in the hands of the callback, not in the socket's queue.
Held(s) == cur = s /\ step \notin {"return", "freed"} /\ xfer # EAGAIN

\* isUsed means what connection_destroy takes it to mean: a request is in use
\* exactly while it is queued on the socket or held by its callback, and it is
\* never queued twice.  Otherwise destroy frees an io the engine still links.
OverlapSound ==
  \A s \in live :
    /\ pending_recv[s] + Bit(pc = "onread" /\ Held(s)) = Bit(s \in recvUsed)
    /\ pending_send[s] + Bit(pc = "onwrite" /\ Held(s)) = Bit(s \in sendUsed)

\* A callback meets a freed connection only if the application itself has closed
\* it while the engine was serving it or had it on the active list: passive
\* closes, closes of other connections and the reuse of handles never lead there.
NoUseAfterFree ==
  pc \in {"onread", "onwrite"} /\ step # "return" => cur \in live \cup pulled

\* No connection is stranded: a queued request whose socket is ready has the
\* engine's attention, although Process requeues a socket only when both
\* directions moved data.
NotStranded ==
  \A s \in live \cap registered :
    /\ pending_recv[s] > 0 /\ HasInput(s) =>
         \/ s \in ready \cup evIn
         \/ s \in readable /\ (s \in isactived \/ (cur = s /\ pc = "recv"))
    /\ pending_send[s] > 0 /\ HasRoom(s) =>
         \/ s \in ready \cup evOut
         \/ /\ s \in writeable
            /\ s \in isactived \/ (cur = s /\ pc \in {"recv", "onread", "send"})

\* update_send_list never runs out of packets (its assert(w)): what writev may
\* report is covered by what is queued, even when packets are added while a
\* prepared request waits.
SendListCovers ==
  \A s \in live : /\ prepared[s] <= send_list[s]
                  /\ InSend /\ cur = s => xfer <= prepared[s]

\* Both requests idle after receiving had started means that the disconnect
\* was reported ("-1,passive close").
NoZombie ==
  \A s \in started :
    \/ s \in recvUsed \cup sendUsed
    \/ cur = s /\ pc \in {"onread", "onwrite"}

\* Input on a connection is read eventually, and a queued send is written when
\* there is room, provided no peer keeps the engine in its callback for ever.
RequestsServed ==
  []<>(pc = "out") =>
    \A s \in Socket :
      /\ (s \in recvUsed \cap registered /\ HasInput(s))
           ~> (s \notin recvUsed \/ (pc = "onread" /\ cur = s))
      /\ (s \in sendUsed \cap registered /\ HasRoom(s))
           ~> (s \notin sendUsed \/ (pc = "onwrite" /\ cur = s))

=============================================================================

------------------------------- MODULE Reactor -------------------------------
(***************************************************************************)
(* The event engine of kendylib: sockets (Socket.c), the request interface *)
(* (KendyNet.c), the handle table (HandleMgr.c, SocketWrapper.c) and the   *)
(* edge-triggered epoll loop (epoll.c) that serves them on one thread.     *)
(*                                                                         *)
(* A request (st_io) is posted with WSARecv / WSASend and completed by the *)
(* engine, which then calls OnRead / OnWrite.  Requests of one queue are   *)
(* interchangeable here, so a queue is its length.  The kernel side of a   *)
(* socket is external: what is left to read, room to write, the state of   *)
(* the peer, and the edge that epoll has latched but not yet reported.     *)
(*                                                                         *)
(* The application is the most general one: between two EngineRun calls,   *)
(* and inside every callback, it may make any call on any socket.          *)
(***************************************************************************)
EXTENDS Integers, Sequences

CONSTANTS
  Socket,       \* the slots of socket_pool
  MaxPending,   \* bound: requests in one queue
  MaxIn,        \* bound: units of unread input the kernel holds
  MaxOut        \* units of output the kernel accepts before EAGAIN

ASSUME ReactorAssumption ==
  /\ MaxPending \in Nat \ {0}
  /\ MaxIn \in Nat \ {0}
  /\ MaxOut \in Nat \ {0}

VARIABLES
  status,        \* the slots in use; these flags of a socket are the sets
  engine,        \* of the sockets on which they are set
  isactived, readable, writeable,
  pending_recv, pending_send,
  actived,       \* the engine's list of sockets with work to do
  in, out, peer, \* kernel: unread input, room for output, peer state
  registered,    \* kernel: the descriptor is in the epoll set
  nospace,       \* kernel: a write found no room; the next drain is an edge
  ready,         \* kernel: an edge is latched for the next epoll_wait
  pc, cur,       \* engine thread: where it is, and the socket it serves
  evIn, evOut,   \* EPOLLIN, EPOLLOUT reported by epoll_wait, not handled yet
  re, se         \* Process: what _recv and _send returned

queueVars  == <<pending_recv, pending_send>>
flagVars   == <<readable, writeable>>
activeVars == <<isactived, actived>>
handleVars == <<status, engine, registered>>
kernelVars == <<in, out, peer, nospace>>
threadVars == <<pc, cur, evIn, evOut, re, se>>
vars == <<status, engine, isactived, readable, writeable, pending_recv,
          pending_send, actived, in, out, peer, registered, nospace, ready,
          pc, cur, evIn, evOut, re, se>>

EAGAIN == -1     \* a read or write that would block
DEAD   == 0      \* end of stream, or any other error

PeerStates == {"open", "fin", "rst", "none"}   \* "none": descriptor closed
Points     == {"out", "loop", "recv", "onread", "send", "onwrite",
               "requeue", "dispatch"}

Elems(q)    == {q[i] : i \in DOMAIN q}
NoRepeat(q) == \A i, j \in DOMAIN q : q[i] = q[j] => i = j

TypeOK ==
  /\ status \subseteq Socket /\ engine \subseteq Socket
  /\ isactived \subseteq Socket
  /\ readable \subseteq Socket /\ writeable \subseteq Socket
  /\ pending_recv \in [Socket -> Nat] /\ pending_send \in [Socket -> Nat]
  /\ actived \in Seq(Socket)
  /\ in \in [Socket -> Nat] /\ out \in [Socket -> Nat]
  /\ peer \in [Socket -> PeerStates]
  /\ registered \subseteq Socket /\ nospace \subseteq Socket
  /\ ready \subseteq Socket
  /\ pc \in Points /\ cur \in Socket
  /\ evIn \subseteq Socket /\ evOut \subseteq Socket
  /\ re \in Int /\ se \in Int

Init ==
  /\ status = {} /\ engine = {}
  /\ isactived = {}
  /\ readable = {}
  /\ writeable = {}
  /\ pending_recv = [s \in Socket |-> 0] /\ pending_send = [s \in Socket |-> 0]
  /\ actived = <<>>
  /\ in = [s \in Socket |-> 0] /\ out = [s \in Socket |-> 0]
  /\ peer = [s \in Socket |-> "none"]
  /\ registered = {} /\ nospace = {}
  /\ ready = {}
  /\ pc = "out" /\ cur \in Socket
  /\ evIn = {} /\ evOut = {}
  /\ re = -1 /\ se = -1

-----------------------------------------------------------------------------
(* The kernel's side of a socket.                                          *)

HasInput(s) == in[s] > 0 \/ peer[s] \in {"fin", "rst"}
HasRoom(s)  == out[s] > 0 \/ peer[s] = "rst"

Latch(s, edge) == ready' = IF edge THEN ready \cup ({s} \cap registered) ELSE ready

Arrive(s) ==
  /\ peer[s] = "open" /\ in[s] < MaxIn
  /\ in' = [in EXCEPT ![s] = @ + 1]
  /\ Latch(s, TRUE)
  /\ UNCHANGED <<out, peer, nospace, handleVars, flagVars, activeVars,
                 queueVars, threadVars>>

PeerClose(s) ==
  /\ peer[s] = "open"
  /\ peer' = [peer EXCEPT ![s] = "fin"]
  /\ Latch(s, TRUE)
  /\ UNCHANGED <<in, out, nospace, handleVars, flagVars, activeVars,
                 queueVars, threadVars>>

PeerReset(s) ==
  /\ peer[s] \in {"open", "fin"}
  /\ peer' = [peer EXCEPT ![s] = "rst"]
  /\ in' = [in EXCEPT ![s] = 0]
  /\ Latch(s, TRUE)
  /\ UNCHANGED <<out, nospace, handleVars, flagVars, activeVars, queueVars,
                 threadVars>>

\* Room appears; it is an edge only if a write has failed for lack of it.
Drain(s) ==
  /\ peer[s] \in {"open", "fin"} /\ out[s] < MaxOut
  /\ out' = [out EXCEPT ![s] = @ + 1]
  /\ nospace' = nospace \ {s}
  /\ Latch(s, s \in nospace)
  /\ UNCHANGED <<in, peer, handleVars, flagVars, activeVars, queueVars,
                 threadVars>>

Kernel == \E s \in Socket : Arrive(s) \/ PeerClose(s) \/ PeerReset(s) \/ Drain(s)

-----------------------------------------------------------------------------
(* Socket.c: the system calls, and putting a socket on the active list.    *)

\* Mutant: readable is cleared after every read, not only on EAGAIN.
raw_recv_once(s, n, r) ==
  /\ \/ /\ r \in 1..in[s]
        /\ in' = [in EXCEPT ![s] = @ - r]
        /\ pending_recv' = [pending_recv EXCEPT ![s] = n]
        /\ readable' = readable \ {s}
     \/ /\ r = DEAD /\ in[s] = 0 /\ peer[s] # "open"
        /\ pending_recv' = [pending_recv EXCEPT ![s] = n]
        /\ UNCHANGED <<in, readable>>
     \/ /\ r = EAGAIN /\ in[s] = 0 /\ peer[s] = "open"
        /\ pending_recv' = [pending_recv EXCEPT ![s] = n + 1]
        /\ readable' = readable \ {s}
        /\ UNCHANGED in
  /\ UNCHANGED <<out, peer, nospace, ready, writeable, pending_send>>

\* readv for one request, n requests being queued; r is what it returns.
\* EAGAIN clears readable and puts the request back in front of the queue.
raw_recv(s, n, r) ==
  /\ \/ /\ r \in 1..in[s]
        /\ in' = [in EXCEPT ![s] = @ - r]
        /\ pending_recv' = [pending_recv EXCEPT ![s] = n]
        /\ UNCHANGED readable
     \/ /\ r = DEAD /\ in[s] = 0 /\ peer[s] # "open"
        /\ pending_recv' = [pending_recv EXCEPT ![s] = n]
        /\ UNCHANGED <<in, readable>>
     \/ /\ r = EAGAIN /\ in[s] = 0 /\ peer[s] = "open"
        /\ pending_recv' = [pending_recv EXCEPT ![s] = n + 1]
        /\ readable' = readable \ {s}
        /\ UNCHANGED in
  /\ UNCHANGED <<out, peer, nospace, ready, writeable, pending_send>>

\* writev, the same way; finding no room arms the kernel's write edge.
raw_send(s, n, r) ==
  /\ \/ /\ r \in 1..out[s] /\ peer[s] \in {"open", "fin"}
        /\ out' = [out EXCEPT ![s] = @ - r]
        /\ pending_send' = [pending_send EXCEPT ![s] = n]
        /\ UNCHANGED <<writeable, nospace>>
     \/ /\ r = DEAD /\ peer[s] \in {"rst", "none"}
        /\ pending_send' = [pending_send EXCEPT ![s] = n]
        /\ UNCHANGED <<out, writeable, nospace>>
     \/ /\ r = EAGAIN /\ out[s] = 0 /\ peer[s] \in {"open", "fin"}
        /\ pending_send' = [pending_send EXCEPT ![s] = n + 1]
        /\ writeable' = writeable \ {s}
        /\ nospace' = nospace \cup {s}
        /\ UNCHANGED out
  /\ UNCHANGED <<in, peer, ready, readable, pending_recv>>

\* The results a call may have (both calls, any socket).
Results == EAGAIN..(MaxIn + MaxOut)

\* Mutant: isactived is not tested.
ActivateAlways(s, wanted) ==
  IF wanted
  THEN isactived' = isactived \cup {s} /\ actived' = Append(actived, s)
  ELSE UNCHANGED activeVars

\* isactived = 1 and LINK_LIST_PUSH_BACK, unless s is on the list already.
Activate(s, wanted) ==
  IF wanted /\ s \notin isactived
  THEN /\ isactived' = isactived \cup {s}
       /\ actived' = Append(actived, s)
  ELSE UNCHANGED activeVars

-----------------------------------------------------------------------------
(* epoll_loop and Process, on the engine thread.                           *)

Goto(p) == pc' = p

EngineRun ==
  /\ pc = "out" /\ Goto("loop")
  /\ UNCHANGED <<handleVars, flagVars, activeVars, queueVars, kernelVars,
                 ready, cur, evIn, evOut, re, se>>

PopActived ==
  /\ pc = "loop" /\ actived # <<>>
  /\ cur' = Head(actived)
  /\ actived' = Tail(actived)
  /\ isactived' = isactived \ {Head(actived)}
  /\ Goto("recv")
  /\ UNCHANGED <<handleVars, flagVars, queueVars, kernelVars, ready, evIn, evOut,
                 re, se>>

\* _recv with nothing to try.
RecvIdle ==
  /\ pc = "recv" /\ ~(cur \in readable /\ pending_recv[cur] > 0)
  /\ re' = -1 /\ Goto("send")
  /\ UNCHANGED <<handleVars, flagVars, activeVars, queueVars, kernelVars,
                 ready, cur, evIn, evOut, se>>

\* Mutant: the popped request is not tested for NULL.
RecvUnchecked(r) ==
  /\ pc = "recv" /\ cur \in readable
  /\ raw_recv(cur, pending_recv[cur] - 1, r)
  /\ re' = r
  /\ Goto(IF r = EAGAIN THEN "send" ELSE "onread")
  /\ UNCHANGED <<handleVars, activeVars, cur, evIn, evOut, se>>

\* _recv takes the first request; OnRead is called unless it would block.
Recv(r) ==
  /\ pc = "recv" /\ cur \in readable /\ pending_recv[cur] > 0
  /\ raw_recv(cur, pending_recv[cur] - 1, r)
  /\ re' = r
  /\ Goto(IF r = EAGAIN THEN "send" ELSE "onread")
  /\ UNCHANGED <<handleVars, activeVars, cur, evIn, evOut, se>>

SendIdle ==
  /\ pc = "send" /\ ~(cur \in writeable /\ pending_send[cur] > 0)
  /\ se' = -1 /\ Goto("requeue")
  /\ UNCHANGED <<handleVars, flagVars, activeVars, queueVars, kernelVars,
                 ready, cur, evIn, evOut, re>>

Send(r) ==
  /\ pc = "send" /\ cur \in writeable /\ pending_send[cur] > 0
  /\ raw_send(cur, pending_send[cur] - 1, r)
  /\ se' = r
  /\ Goto(IF r = EAGAIN THEN "requeue" ELSE "onwrite")
  /\ UNCHANGED <<handleVars, activeVars, cur, evIn, evOut, re>>

\* A callback returns to Process.
Return ==
  /\ \/ pc = "onread" /\ Goto("send")
     \/ pc = "onwrite" /\ Goto("requeue")
  /\ UNCHANGED <<handleVars, flagVars, activeVars, queueVars, kernelVars,
                 ready, cur, evIn, evOut, re, se>>

\* if(Process(s) && s->isactived == 0), Process being re > 0 && se > 0.
Requeue ==
  /\ pc = "requeue"
  /\ Activate(cur, re > 0 /\ se > 0)
  /\ re' = -1 /\ se' = -1
  /\ Goto("loop")
  /\ UNCHANGED <<handleVars, flagVars, queueVars, kernelVars, ready, cur,
                 evIn, evOut>>

\* Every latched socket is polled and reported if it is ready; every latch is
\* consumed.  Polling a socket that has no room arms its write edge.
EpollWait ==
  /\ pc = "loop" /\ actived = <<>>
  /\ evIn' = {s \in ready : HasInput(s)}
  /\ evOut' = {s \in ready : HasRoom(s)}
  /\ nospace' = nospace \cup {s \in ready : out[s] = 0}
  /\ ready' = {}
  /\ Goto("dispatch")
  /\ UNCHANGED <<handleVars, flagVars, activeVars, queueVars, in, out, peer,
                 cur, re, se>>

\* Mutant: the event is noted, the socket is not put on the active list.
on_read_noted(s) ==
  /\ pc = "dispatch" /\ s \in evIn
  /\ evIn' = evIn \ {s}
  /\ readable' = readable \cup {s}
  /\ UNCHANGED <<handleVars, writeable, activeVars, queueVars, kernelVars, ready,
                 pc, cur, evOut, re, se>>

on_read_active(s) ==
  /\ pc = "dispatch" /\ s \in evIn
  /\ evIn' = evIn \ {s}
  /\ readable' = readable \cup {s}
  /\ Activate(s, pending_recv[s] > 0)
  /\ UNCHANGED <<handleVars, writeable, queueVars, kernelVars, ready, pc, cur,
                 evOut, re, se>>

on_write_active(s) ==
  /\ pc = "dispatch" /\ s \in evOut \ evIn
  /\ evOut' = evOut \ {s}
  /\ writeable' = writeable \cup {s}
  /\ Activate(s, pending_send[s] > 0)
  /\ UNCHANGED <<handleVars, readable, queueVars, kernelVars, ready, pc, cur,
                 evIn, re, se>>

\* while(tick < _timeout): another round, or back to the application, which
\* leaves whatever is on the active list there until the next EngineRun.
LoopEnd ==
  /\ pc = "dispatch" /\ evIn = {} /\ evOut = {}
  /\ Goto("loop") \/ Goto("out")
  /\ UNCHANGED <<handleVars, flagVars, activeVars, queueVars, kernelVars,
                 ready, cur, evIn, evOut, re, se>>

Loop ==
  \/ PopActived \/ RecvIdle \/ SendIdle \/ Requeue \/ EpollWait \/ LoopEnd
  \/ \E s \in Socket : on_read_active(s) \/ on_write_active(s)
  \/ \E r \in Results : Recv(r) \/ Send(r)

-----------------------------------------------------------------------------
(* The calls of the application, on the engine thread: outside EngineRun   *)
(* or inside a callback.                                                   *)

AppRuns == pc \in {"out", "onread", "onwrite"}

\* WSARecv with now = 0: queue the request.
WSARecv(s) ==
  /\ s \in status /\ pending_recv[s] < MaxPending
  /\ pending_recv' = [pending_recv EXCEPT ![s] = @ + 1]
  /\ Activate(s, s \in engine /\ s \in readable)
  /\ UNCHANGED <<handleVars, flagVars, pending_send, kernelVars, ready,
                 threadVars>>

\* WSARecv with now = 1: read at once, queue the request only on EAGAIN.
WSARecvNow(s, r) ==
  /\ s \in status /\ pending_recv[s] < MaxPending
  /\ raw_recv(s, pending_recv[s], r)
  /\ UNCHANGED <<handleVars, activeVars, threadVars>>

\* Mutant: the request is queued for the next event only.
WSASendLazy(s) ==
  /\ s \in status /\ pending_send[s] < MaxPending
  /\ pending_send' = [pending_send EXCEPT ![s] = @ + 1]
  /\ UNCHANGED <<handleVars, flagVars, activeVars, pending_recv, kernelVars,
                 ready, threadVars>>

WSASend(s) ==
  /\ s \in status /\ pending_send[s] < MaxPending
  /\ pending_send' = [pending_send EXCEPT ![s] = @ + 1]
  /\ Activate(s, s \in engine /\ s \in writeable)
  /\ UNCHANGED <<handleVars, flagVars, pending_recv, kernelVars, ready,
                 threadVars>>

WSASendNow(s, r) ==
  /\ s \in status /\ pending_send[s] < MaxPending
  /\ raw_send(s, pending_send[s], r)
  /\ UNCHANGED <<handleVars, activeVars, threadVars>>

\* NewSocketWrapper takes a free slot and InitSocket resets its fields.
InitSocket(s) ==
  /\ status' = status \cup {s}
  /\ engine' = engine \ {s}
  /\ readable' = readable \ {s}
  /\ writeable' = writeable \ {s}
  /\ pending_recv' = [pending_recv EXCEPT ![s] = 0]
  /\ pending_send' = [pending_send EXCEPT ![s] = 0]
  /\ isactived' = isactived \ {s}
  /\ in' = [in EXCEPT ![s] = 0]
  /\ out' = [out EXCEPT ![s] = MaxOut]
  /\ peer' = [peer EXCEPT ![s] = "open"]
  /\ nospace' = nospace \ {s}

\* A connected socket from OpenSocket or Accept.  A slot is assumed to be
\* reused only after the engine has taken it off the active list: the module
\* Server drops the assumption.
OpenSocket(s) ==
  /\ s \notin status /\ s \notin isactived
  /\ InitSocket(s)
  /\ UNCHANGED <<actived, registered, ready, threadVars>>

\* EPOLL_CTL_ADD latches an edge at once if the descriptor is ready.
epoll_register(s) ==
  /\ registered' = registered \cup {s}
  /\ ready' = ready \cup {x \in {s} : HasInput(x) \/ HasRoom(x)}
  /\ nospace' = nospace \cup {x \in {s} : out[x] = 0}

Bind2Engine(s) ==
  /\ s \in status /\ s \notin registered /\ peer[s] # "none"
  /\ epoll_register(s)
  /\ engine' = engine \cup {s}
  /\ UNCHANGED <<status, flagVars, activeVars, queueVars, in, out, peer,
                 threadVars>>

\* close(fd): the kernel forgets the descriptor and its epoll entry.
CloseFd(s) ==
  /\ registered' = registered \ {s}
  /\ ready' = ready \ {s}
  /\ peer' = [peer EXCEPT ![s] = "none"]
  /\ in' = [in EXCEPT ![s] = 0]
  /\ out' = [out EXCEPT ![s] = 0]
  /\ nospace' = nospace \ {s}

\* CloseSocket leaves the slot in use.
CloseSocket(s) ==
  /\ s \in status /\ peer[s] # "none"
  /\ CloseFd(s)
  /\ UNCHANGED <<status, engine, flagVars, activeVars, queueVars, threadVars>>

\* ReleaseSocketWrapper leaves the queues, the flags and the active list.
ReleaseSocketWrapper(s) ==
  /\ s \in status
  /\ CloseFd(s)
  /\ status' = status \ {s}
  /\ UNCHANGED <<engine, flagVars, activeVars, queueVars, threadVars>>

App ==
  /\ AppRuns
  /\ \E s \in Socket :
       \/ WSARecv(s) \/ WSASend(s) \/ OpenSocket(s) \/ Bind2Engine(s)
       \/ CloseSocket(s) \/ ReleaseSocketWrapper(s)
       \/ \E r \in Results : WSARecvNow(s, r) \/ WSASendNow(s, r)

Next == EngineRun \/ Loop \/ Return \/ Kernel \/ App

Spec == Init /\ [][Next]_vars

-----------------------------------------------------------------------------
(* Properties.                                                             *)

\* "isactived: is the socket on the active list" (Socket.h): the flag and the
\* list agree, and no socket is on the list twice, however callbacks, events
\* and completions interleave.  A second insertion of a node would close the
\* intrusive list of link_list.c into a cycle or drop its tail.
ActivedSound ==
  /\ isactived = Elems(actived)
  /\ NoRepeat(actived)

\* epoll reports an edge once.  Whenever the kernel has input (room) for a
\* registered socket, the cached flag says so or the news is still under way;
\* otherwise no later event would ever wake the socket up.  And a socket
\* without room whose flag is clear has its write edge armed.
ReadinessNotLost ==
  \A s \in registered :
    /\ HasInput(s) => s \in readable \cup ready \cup evIn
    /\ \/ s \in writeable \cup ready \cup evOut
       \/ ~HasRoom(s) /\ s \in nospace

=============================================================================

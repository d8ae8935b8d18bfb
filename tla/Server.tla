------------------------------- MODULE Server -------------------------------
(***************************************************************************)
(* testserver.c: a listener thread accepts clients and hands them to the   *)
(* engine thread, which runs at the same time and sends every packet it    *)
(* receives to all clients.  Only the handle table is locked, so the calls *)
(* of the listener interleave with those of the engine thread.  The module *)
(* drops two assumptions of Reactor: a slot is reused as soon as it is     *)
(* released, and binding a socket takes two steps.                         *)
(***************************************************************************)
EXTENDS Connection

VARIABLES
  lpc,       \* listener: where it is in acceptor_run and accept_callback
  ls,        \* listener: the slot it is setting up
  sent       \* send2_all_client: the clients this packet has gone to

svars == <<cvars, lpc, ls, sent>>

SInit == CInit /\ lpc = "accept" /\ ls \in Socket /\ sent = {}

-----------------------------------------------------------------------------
(* The listener thread.                                                    *)

\* node.next = 0 cuts off whatever is linked behind s.
Unlink(q, s) ==
  IF s \in Elems(q) THEN SubSeq(q, 1, CHOOSE i \in DOMAIN q : q[i] = s) ELSE q

\* accept, NewSocketWrapper, InitSocket, and the callback's connection_create
\* and add_client.
Accept(s) ==
  /\ lpc = "accept" /\ s \notin status
  /\ InitSocket(s)
  /\ actived' = Unlink(actived, s)
  /\ live' = live \cup {s} /\ started' = started \ {s}
  /\ recvUsed' = recvUsed \ {s} /\ sendUsed' = sendUsed \ {s}
  /\ lpc' = "recv" /\ ls' = s
  /\ UNCHANGED <<registered, ready, threadVars, send_list, prepared, pulled, cbVars, sent>>

StartRecv ==
  /\ lpc = "recv" /\ connection_start_recv(ls)
  /\ lpc' = "register" /\ UNCHANGED <<ls, cbVars, sent>>

\* Bind2Engine: Register first, sock->engine = engine afterwards.
Register ==
  /\ lpc = "register" /\ epoll_register(ls)
  /\ lpc' = "bind"
  /\ UNCHANGED <<status, engine, flagVars, activeVars, queueVars, in, out, peer,
                 threadVars, connVars, ls, cbVars, sent>>

SetEngine ==
  /\ lpc = "bind" /\ engine' = engine \cup {ls}
  /\ lpc' = "accept"
  /\ UNCHANGED <<status, registered, flagVars, activeVars, queueVars, kernelVars,
                 ready, threadVars, connVars, ls, cbVars, sent>>

Listener == (\E s \in Socket : Accept(s)) \/ StartRecv \/ Register \/ SetEngine

-----------------------------------------------------------------------------
(* The engine thread.                                                      *)

InPacket == InRecv /\ step = "deliver" /\ xfer > 0

send2_all_client(s) ==
  /\ InPacket /\ s \notin sent
  /\ connection_send(s, 1)
  /\ sent' = sent \cup {s}
  /\ UNCHANGED <<cbVars, lpc, ls>>

\* The loop over clients is over: it may have passed the entry the listener
\* fills in now; a list at its bound takes no more.
ClientsServed ==
  \A s \in live \ sent : send_list[s] = MaxList \/ (s = ls /\ lpc # "accept")

EngineThread ==
  \/ /\ InPacket => ClientsServed
     /\ EngineStep \/ Callback \/ \E r \in Results : Complete(r)
     /\ sent' = {} /\ UNCHANGED <<lpc, ls>>
  \/ \E s \in Socket : send2_all_client(s)

SNext ==
  \/ Listener \/ EngineThread
  \/ KernelStep /\ UNCHANGED <<lpc, ls, sent>>

SSpec == SInit /\ [][SNext]_svars
=============================================================================

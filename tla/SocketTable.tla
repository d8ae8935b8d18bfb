----------------------------- MODULE SocketTable -----------------------------
(***************************************************************************)
(* The handle table of HandleMgr.c under the blocking calls of             *)
(* SocketWrapper.c, and the process's descriptors under both: the kernel   *)
(* gives out the lowest free number, so that a number closed twice may     *)
(* belong to somebody else the second time.  Calls on the table hold       *)
(* socket_mtx; a call is one step.                                         *)
(***************************************************************************)
EXTENDS Integers, FiniteSets

CONSTANTS
  MAX_SOCKET,
  MaxFd         \* bound: descriptors the process may have

ASSUME TableAssumption == MAX_SOCKET \in Nat /\ MaxFd \in Nat

VARIABLES
  sock_pool,    \* status and fd of every slot, and current_socket_count
  fd_owner,     \* ghost: the handle each open descriptor was opened for, or -1
  held,         \* the handles returned to callers and not released
  closed,       \* ghost: handles in use that CloseSocket was called on
  robbed,       \* ghost: handles whose descriptor another handle's stray close hit
  forgotten     \* ghost: handles in use that a caller took for a failure

svars == <<sock_pool, fd_owner, held, closed, robbed, forgotten>>

Handle == 0 .. MAX_SOCKET - 1
Fd == 0 .. MaxFd - 1
NoHandle == -1

InitHandleMgr ==
  /\ sock_pool = [status |-> [h \in Handle |-> 0], fd |-> [h \in Handle |-> 0], count |-> 0]
  /\ fd_owner = [f \in Fd |-> NoHandle] /\ held = {}
  /\ closed = {} /\ robbed = {} /\ forgotten = {}

InUse == {h \in Handle : sock_pool.status[h] # 0}
FreeFds == {f \in Fd : fd_owner[f] = NoHandle}
lowest_fd == CHOOSE f \in FreeFds : \A g \in FreeFds : f <= g     \* external

\* The handle and the table after it: a free slot, else a new one, else -1.
NewSocketWrapper ==
  LET free == {h \in 0 .. sock_pool.count - 1 : sock_pool.status[h] = 0}
      h    == IF free # {} THEN CHOOSE x \in free : \A y \in free : x <= y
              ELSE IF sock_pool.count < MAX_SOCKET THEN sock_pool.count ELSE NoHandle
  IN  [handle |-> h,
       pool |-> IF h = NoHandle THEN sock_pool
                ELSE [status |-> [sock_pool.status EXCEPT ![h] = 1], fd |-> sock_pool.fd,
                      count |-> IF h = sock_pool.count THEN h + 1 ELSE sock_pool.count]]

\* Mutant: the descriptor is forgotten when the table is full.
OpenKeepsFd(lost) ==
  LET f == lowest_fd
      n == NewSocketWrapper
  IN  /\ FreeFds # {}
      /\ IF n.handle = NoHandle
         THEN fd_owner' = [fd_owner EXCEPT ![f] = MAX_SOCKET]
              /\ UNCHANGED <<sock_pool, held, closed, forgotten>>
         ELSE /\ sock_pool' = [n.pool EXCEPT !.fd[n.handle] = f]
              /\ fd_owner' = [fd_owner EXCEPT ![f] = n.handle]
              /\ held' = held \cup ({n.handle} \ lost) /\ closed' = closed \ {n.handle}
              /\ forgotten' = forgotten \cup ({n.handle} \cap lost)
      /\ UNCHANGED robbed

\* OpenSocket and Accept: a new descriptor (socket or accept) and a handle for
\* it, returned unless it is one the caller mistakes for an error; when the
\* table is full the descriptor is closed again.
OpenSocket(lost) ==
  LET n == NewSocketWrapper
  IN  /\ FreeFds # {}
      /\ IF n.handle = NoHandle
         THEN UNCHANGED <<sock_pool, fd_owner, held, closed, forgotten>>
         ELSE /\ sock_pool' = [n.pool EXCEPT !.fd[n.handle] = lowest_fd]
              /\ fd_owner' = [fd_owner EXCEPT ![lowest_fd] = n.handle]
              /\ held' = held \cup ({n.handle} \ lost) /\ closed' = closed \ {n.handle}
              /\ forgotten' = forgotten \cup ({n.handle} \cap lost)
      /\ UNCHANGED robbed

\* The call fails after it has opened a socket: CloseSocket, and -1.
OpenThenFail ==
  LET n == NewSocketWrapper
  IN  /\ FreeFds # {} /\ n.handle # NoHandle
      /\ sock_pool' = [n.pool EXCEPT !.fd[n.handle] = lowest_fd]
      /\ closed' = closed \cup {n.handle}
      /\ UNCHANGED <<fd_owner, held, robbed, forgotten>>

\* Tcp_Connect: connected, or closed after one failure; without a handle, or
\* with handle 0, which if(sock) takes for none, -1 and nothing is closed.
Tcp_Connect ==
  \/ OpenSocket({0})
  \/ NewSocketWrapper.handle # 0 /\ OpenThenFail

\* Tcp_Listen: Bind or Listen may fail.
Tcp_Listen == OpenSocket({}) \/ OpenThenFail

\* close(fd), by number: whoever has it now loses it.
Close(h) == fd_owner' = [fd_owner EXCEPT ![sock_pool.fd[h]] = NoHandle]

\* The victims so far, with the one of a close by h: the number of a handle that
\* was closed already, or that was a victim itself, may be somebody else's.
Victims(h) ==
  IF h \in closed \cup robbed
  THEN robbed \cup ({fd_owner[sock_pool.fd[h]]} \ {NoHandle}) ELSE robbed

CloseSocket(h) ==
  /\ h \in held
  /\ Close(h) /\ closed' = closed \cup {h} /\ robbed' = Victims(h)
  /\ UNCHANGED <<sock_pool, held, forgotten>>

\* ReleaseSocketWrapper closes the number, a second time after CloseSocket.
ReleaseSocketWrapper(h) ==
  /\ h \in held
  /\ Close(h)
  /\ sock_pool' = [sock_pool EXCEPT !.status[h] = 0]
  /\ held' = held \ {h} /\ closed' = closed \ {h} /\ robbed' = Victims(h) \ {h}
  /\ UNCHANGED forgotten

SocketNext ==
  \/ OpenSocket({}) \/ Tcp_Connect \/ Tcp_Listen
  \/ \E h \in Handle : CloseSocket(h) \/ ReleaseSocketWrapper(h)

SocketSpec == InitHandleMgr /\ [][SocketNext]_svars

-----------------------------------------------------------------------------
(* Properties.                                                             *)

\* Every handle has an open descriptor of its own until it is closed.  The one
\* other way to lose it is a stray close: a handle that was closed before its
\* release closes its number again when that number is somebody else's, and the
\* victim's own closes then go astray in turn.
OwnDescriptor ==
  \A h \in InUse \ (closed \cup robbed) : fd_owner[sock_pool.fd[h]] = h

\* Each open descriptor is the fd of a handle that a caller has and can close,
\* also when the table is full or a call fails half way; the one exception is the
\* handle 0 that Tcp_Connect takes for a failure.
DescriptorsHeld ==
  \A f \in Fd : fd_owner[f] # NoHandle =>
    fd_owner[f] \in held \cup (forgotten \cap {0}) /\ sock_pool.fd[fd_owner[f]] = f

\* Handles and descriptors stay in step through failures, a full table, stray
\* closes and handles closed before they are released.
TableSound == OwnDescriptor /\ DescriptorsHeld
=============================================================================

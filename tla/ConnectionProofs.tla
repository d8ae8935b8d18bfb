-------------------------- MODULE ConnectionProofs --------------------------
(***************************************************************************)
(* The engine and the connections on it, for any set of sockets and any    *)
(* bounds.                                                                 *)
(***************************************************************************)
EXTENDS Connection, TLAPS

-----------------------------------------------------------------------------
(* The engine by itself: types, the agreement of isactived with the active *)
(* list, and that no readiness edge is lost.                               *)

\* LINK_LIST_PUSH_BACK of a node that is not on the list: the list gains
\* exactly that node and still has no repetition.
LEMMA AppendLemma ==
  ASSUME NEW S, NEW q \in Seq(S), NEW x \in S, NoRepeat(q), x \notin Elems(q)
  PROVE  /\ Append(q, x) \in Seq(S)
         /\ NoRepeat(Append(q, x))
         /\ Elems(Append(q, x)) = Elems(q) \cup {x}
<1> DEFINE a == Append(q, x)
<1>1. /\ a \in Seq(S) /\ Len(a) = Len(q) + 1
      /\ DOMAIN a = 1..(Len(q) + 1) /\ DOMAIN q = 1..Len(q)
      /\ Len(q) \in Nat
  OBVIOUS
<1>2. \A i \in 1..Len(q) : a[i] = q[i]
  OBVIOUS
<1>3. a[Len(q) + 1] = x
  OBVIOUS
<1> HIDE DEF a
<1>4. NoRepeat(a)
  BY <1>1, <1>2, <1>3 DEF NoRepeat, Elems
<1>5. Elems(a) \subseteq Elems(q) \cup {x}
  BY <1>1, <1>2, <1>3 DEF Elems
<1>6. Elems(q) \cup {x} \subseteq Elems(a)
  <2>1. ASSUME NEW i \in DOMAIN q PROVE q[i] \in Elems(a)
    BY <1>1, <1>2 DEF Elems
  <2>2. x \in Elems(a)
    BY <1>1, <1>3 DEF Elems
  <2> QED BY <2>1, <2>2 DEF Elems
<1> QED BY <1>1, <1>4, <1>5, <1>6 DEF a

\* LINK_LIST_POP of a list without repetition removes exactly the head.
LEMMA TailLemma ==
  ASSUME NEW S, NEW q \in Seq(S), q # <<>>, NoRepeat(q)
  PROVE  /\ Head(q) \in S
         /\ Tail(q) \in Seq(S)
         /\ NoRepeat(Tail(q))
         /\ Elems(Tail(q)) = Elems(q) \ {Head(q)}
<1> DEFINE t == Tail(q)
<1>1. /\ t \in Seq(S) /\ Len(q) \in Nat /\ Len(q) > 0 /\ Len(t) = Len(q) - 1
      /\ DOMAIN t = 1..(Len(q) - 1) /\ DOMAIN q = 1..Len(q)
      /\ Head(q) = q[1] /\ Head(q) \in S
  OBVIOUS
<1>2. \A i \in 1..(Len(q) - 1) : t[i] = q[i + 1]
  OBVIOUS
<1> HIDE DEF t
<1>3. NoRepeat(t)
  BY <1>1, <1>2 DEF NoRepeat
<1>4. Elems(t) \subseteq Elems(q) \ {Head(q)}
  BY <1>1, <1>2 DEF NoRepeat, Elems
<1>5. Elems(q) \ {Head(q)} \subseteq Elems(t)
  <2>1. ASSUME NEW i \in 1..Len(q), q[i] # Head(q) PROVE q[i] \in Elems(t)
    <3>1. i - 1 \in 1..(Len(q) - 1) /\ t[i - 1] = q[i]
      BY <1>1, <1>2, <2>1
    <3> QED BY <3>1, <1>1 DEF Elems
  <2> QED BY <2>1, <1>1 DEF Elems
<1> QED BY <1>1, <1>3, <1>4, <1>5 DEF t

-----------------------------------------------------------------------------
\* Whatever readv returns, the socket's queue, flag and input keep their types.
LEMMA RawRecvTypes ==
  ASSUME TypeOK, NEW s \in Socket, NEW n \in Nat, NEW r, raw_recv(s, n, r)
  PROVE  /\ pending_recv' \in [Socket -> Nat] /\ in' \in [Socket -> Nat]
         /\ readable' \subseteq Socket
<1>1. \E k \in Nat : pending_recv' = [pending_recv EXCEPT ![s] = k]
  <2>1. n + 1 \in Nat
    OBVIOUS
  <2> QED BY <2>1, Zenon DEF raw_recv
<1>2. pending_recv' \in [Socket -> Nat]
  BY <1>1 DEF TypeOK
<1>3. in' \in [Socket -> Nat]
  <2>1. CASE r \in 1..in[s] /\ in' = [in EXCEPT ![s] = @ - r]
    <3>1. in[s] - r \in Nat
      BY <2>1 DEF TypeOK
    <3> QED BY <2>1, <3>1 DEF TypeOK
  <2>2. CASE UNCHANGED in
    BY <2>2 DEF TypeOK
  <2> QED BY <2>1, <2>2 DEF raw_recv
<1>4. readable' \subseteq Socket
  BY DEF TypeOK, raw_recv
<1> QED BY <1>2, <1>3, <1>4

\* The same for writev.
LEMMA RawSendTypes ==
  ASSUME TypeOK, NEW s \in Socket, NEW n \in Nat, NEW r, raw_send(s, n, r)
  PROVE  /\ pending_send' \in [Socket -> Nat] /\ out' \in [Socket -> Nat]
         /\ writeable' \subseteq Socket /\ nospace' \subseteq Socket
<1>1. \E k \in Nat : pending_send' = [pending_send EXCEPT ![s] = k]
  <2>1. n + 1 \in Nat
    OBVIOUS
  <2> QED BY <2>1, Zenon DEF raw_send
<1>2. pending_send' \in [Socket -> Nat]
  BY <1>1 DEF TypeOK
<1>3. out' \in [Socket -> Nat]
  <2>1. CASE r \in 1..out[s] /\ out' = [out EXCEPT ![s] = @ - r]
    <3>1. out[s] - r \in Nat
      BY <2>1 DEF TypeOK
    <3> QED BY <2>1, <3>1 DEF TypeOK
  <2>2. CASE UNCHANGED out
    BY <2>2 DEF TypeOK
  <2> QED BY <2>1, <2>2 DEF raw_send
<1>4. writeable' \subseteq Socket /\ nospace' \subseteq Socket
  BY DEF TypeOK, raw_send
<1> QED BY <1>2, <1>3, <1>4

\* Activation keeps the list a sequence of sockets.
LEMMA ActivateTypes ==
  ASSUME TypeOK, NEW s \in Socket, NEW w, Activate(s, w)
  PROVE  isactived' \subseteq Socket /\ actived' \in Seq(Socket)
<1>0. isactived \subseteq Socket /\ actived \in Seq(Socket)
  BY DEF TypeOK
<1>1. CASE UNCHANGED activeVars
  BY <1>0, <1>1 DEF activeVars
<1>2. CASE isactived' = isactived \cup {s} /\ actived' = Append(actived, s)
  BY <1>0, <1>2
<1> QED BY <1>1, <1>2 DEF Activate

\* Types are kept by every step.
LEMMA TypeStep == TypeOK /\ [Next]_vars => TypeOK'
<1> SUFFICES ASSUME TypeOK, [Next]_vars PROVE TypeOK'
  OBVIOUS
<1> USE DEF Goto, handleVars, flagVars, activeVars, queueVars, kernelVars,
            threadVars, Points
<1>1. CASE EngineRun \/ Return
  BY <1>1 DEF TypeOK, EngineRun, Return
<1>2. CASE Kernel
  <2> PICK s \in Socket : Arrive(s) \/ PeerClose(s) \/ PeerReset(s) \/ Drain(s)
    BY <1>2 DEF Kernel
  <2>1. ready' \subseteq Socket
    BY DEF TypeOK, Arrive, PeerClose, PeerReset, Drain, Latch
  <2>2. in' \in [Socket -> Nat] /\ out' \in [Socket -> Nat]
    <3>1. in \in [Socket -> Nat] /\ out \in [Socket -> Nat]
      BY DEF TypeOK
    <3>2. CASE Arrive(s)
      BY <3>1, <3>2 DEF Arrive
    <3>3. CASE PeerClose(s)
      BY <3>1, <3>3 DEF PeerClose
    <3>4. CASE PeerReset(s)
      <4>1. in' = [in EXCEPT ![s] = 0] /\ out' = out
        BY <3>4 DEF PeerReset
      <4> QED BY <3>1, <4>1
    <3>5. CASE Drain(s)
      BY <3>1, <3>5 DEF Drain
    <3> QED BY <3>2, <3>3, <3>4, <3>5
  <2>3. peer' \in [Socket -> PeerStates] /\ nospace' \subseteq Socket
    BY DEF TypeOK, Arrive, PeerClose, PeerReset, Drain, PeerStates
  <2> QED BY <2>1, <2>2, <2>3 DEF TypeOK, Arrive, PeerClose, PeerReset, Drain
<1>3. CASE Loop
  <2>1. CASE PopActived
    <3>1. actived # <<>> /\ actived \in Seq(Socket)
      BY <2>1 DEF TypeOK, PopActived
    <3>2. Head(actived) \in Socket /\ Tail(actived) \in Seq(Socket)
      BY <3>1
    <3> QED BY <2>1, <3>2 DEF TypeOK, PopActived
  <2>2. CASE RecvIdle \/ SendIdle \/ LoopEnd
    BY <2>2 DEF TypeOK, RecvIdle, SendIdle, LoopEnd
  <2>3. CASE Requeue
    <3>1. isactived' \subseteq Socket /\ actived' \in Seq(Socket)
      BY <2>3, ActivateTypes DEF Requeue, TypeOK
    <3> QED BY <2>3, <3>1 DEF TypeOK, Requeue
  <2>4. CASE EpollWait
    BY <2>4 DEF TypeOK, EpollWait
  <2>5. ASSUME NEW s \in Socket, on_read_active(s) PROVE TypeOK'
    <3>1. isactived' \subseteq Socket /\ actived' \in Seq(Socket)
      BY <2>5, ActivateTypes DEF on_read_active
    <3> QED BY <2>5, <3>1 DEF TypeOK, on_read_active
  <2>6. ASSUME NEW s \in Socket, on_write_active(s) PROVE TypeOK'
    <3>1. isactived' \subseteq Socket /\ actived' \in Seq(Socket)
      BY <2>6, ActivateTypes DEF on_write_active
    <3> QED BY <2>6, <3>1 DEF TypeOK, on_write_active
  <2>7. ASSUME NEW r \in Results, Recv(r) PROVE TypeOK'
    <3>1. pending_recv[cur] - 1 \in Nat /\ cur \in Socket
      BY <2>7 DEF Recv, TypeOK
    <3>2. /\ pending_recv' \in [Socket -> Nat] /\ in' \in [Socket -> Nat]
          /\ readable' \subseteq Socket
          /\ UNCHANGED <<out, peer, nospace, ready, writeable, pending_send>>
      BY <2>7, <3>1, RawRecvTypes DEF Recv, raw_recv
    <3>3. r \in Int
      BY ReactorAssumption DEF Results, EAGAIN
    <3>4. /\ pc' \in Points /\ re' \in Int
          /\ UNCHANGED <<handleVars, activeVars, cur, evIn, evOut, se>>
      BY <2>7, <3>3 DEF Recv
    <3> QED BY <3>2, <3>4 DEF TypeOK
  <2>8. ASSUME NEW r \in Results, Send(r) PROVE TypeOK'
    <3>1. pending_send[cur] - 1 \in Nat /\ cur \in Socket
      BY <2>8 DEF Send, TypeOK
    <3>2. /\ pending_send' \in [Socket -> Nat] /\ out' \in [Socket -> Nat]
          /\ writeable' \subseteq Socket /\ nospace' \subseteq Socket
          /\ UNCHANGED <<in, peer, ready, readable, pending_recv>>
      BY <2>8, <3>1, RawSendTypes DEF Send, raw_send
    <3>3. r \in Int
      BY ReactorAssumption DEF Results, EAGAIN
    <3>4. /\ pc' \in Points /\ se' \in Int
          /\ UNCHANGED <<handleVars, activeVars, cur, evIn, evOut, re>>
      BY <2>8, <3>3 DEF Send
    <3> QED BY <3>2, <3>4 DEF TypeOK
  <2> QED BY <1>3, <2>1, <2>2, <2>3, <2>4, <2>5, <2>6, <2>7, <2>8 DEF Loop
<1>4. CASE App
  <2> PICK s \in Socket :
        \/ WSARecv(s) \/ WSASend(s) \/ OpenSocket(s) \/ Bind2Engine(s)
        \/ CloseSocket(s) \/ ReleaseSocketWrapper(s)
        \/ \E r \in Results : WSARecvNow(s, r) \/ WSASendNow(s, r)
    BY <1>4 DEF App
  <2>1. CASE WSARecv(s)
    <3>1. isactived' \subseteq Socket /\ actived' \in Seq(Socket)
      BY <2>1, ActivateTypes DEF WSARecv
    <3> QED BY <2>1, <3>1 DEF TypeOK, WSARecv
  <2>2. CASE WSASend(s)
    <3>1. isactived' \subseteq Socket /\ actived' \in Seq(Socket)
      BY <2>2, ActivateTypes DEF WSASend
    <3> QED BY <2>2, <3>1 DEF TypeOK, WSASend
  <2>3. CASE OpenSocket(s)
    BY <2>3, ReactorAssumption DEF TypeOK, OpenSocket, InitSocket, PeerStates
  <2>4. CASE Bind2Engine(s)
    BY <2>4 DEF TypeOK, Bind2Engine, epoll_register
  <2>5. CASE CloseSocket(s) \/ ReleaseSocketWrapper(s)
    <3>1. CloseFd(s)
      BY <2>5 DEF CloseSocket, ReleaseSocketWrapper
    <3>2. /\ in' \in [Socket -> Nat] /\ out' \in [Socket -> Nat]
          /\ peer' \in [Socket -> PeerStates]
          /\ registered' \subseteq Socket /\ ready' \subseteq Socket
          /\ nospace' \subseteq Socket
      BY <3>1 DEF TypeOK, CloseFd, PeerStates
    <3> QED BY <2>5, <3>2 DEF TypeOK, CloseSocket, ReleaseSocketWrapper
  <2>6. ASSUME NEW r \in Results, WSARecvNow(s, r) PROVE TypeOK'
    <3>1. pending_recv[s] \in Nat /\ raw_recv(s, pending_recv[s], r)
      BY <2>6 DEF WSARecvNow, TypeOK
    <3>2. /\ pending_recv' \in [Socket -> Nat] /\ in' \in [Socket -> Nat]
          /\ readable' \subseteq Socket
          /\ UNCHANGED <<out, peer, nospace, ready, writeable, pending_send>>
      BY <3>1, RawRecvTypes DEF raw_recv
    <3> QED BY <2>6, <3>2 DEF TypeOK, WSARecvNow
  <2>7. ASSUME NEW r \in Results, WSASendNow(s, r) PROVE TypeOK'
    <3>1. pending_send[s] \in Nat /\ raw_send(s, pending_send[s], r)
      BY <2>7 DEF WSASendNow, TypeOK
    <3>2. /\ pending_send' \in [Socket -> Nat] /\ out' \in [Socket -> Nat]
          /\ writeable' \subseteq Socket /\ nospace' \subseteq Socket
          /\ UNCHANGED <<in, peer, ready, readable, pending_recv>>
      BY <3>1, RawSendTypes DEF raw_send
    <3> QED BY <2>7, <3>2 DEF TypeOK, WSASendNow
  <2> QED BY <2>1, <2>2, <2>3, <2>4, <2>5, <2>6, <2>7
<1>5. CASE UNCHANGED vars
  BY <1>5 DEF TypeOK, vars
<1> QED BY <1>1, <1>2, <1>3, <1>4, <1>5 DEF Next

\* Every variable keeps its type in every behaviour of the engine, whatever
\* the application and the kernel do.
THEOREM TypeCorrect == Spec => []TypeOK
<1>1. Init => TypeOK
  BY DEF Init, TypeOK, PeerStates, Points
<1> QED BY <1>1, TypeStep, PTL DEF Spec

-----------------------------------------------------------------------------
\* Activate appends a socket that is not on the list, or does nothing.
LEMMA ActivateSound ==
  ASSUME TypeOK, ActivedSound, NEW s \in Socket, NEW w, Activate(s, w)
  PROVE  ActivedSound'
<1>1. CASE UNCHANGED activeVars
  BY <1>1 DEF ActivedSound, activeVars, Elems, NoRepeat
<1>2. CASE /\ s \notin isactived
           /\ isactived' = isactived \cup {s} /\ actived' = Append(actived, s)
  <2>1. actived \in Seq(Socket) /\ NoRepeat(actived) /\ s \notin Elems(actived)
    BY <1>2 DEF TypeOK, ActivedSound
  <2>2. /\ NoRepeat(Append(actived, s))
        /\ Elems(Append(actived, s)) = Elems(actived) \cup {s}
    BY <2>1, AppendLemma
  <2>3. NoRepeat(actived') /\ isactived' = Elems(actived')
    BY <1>2, <2>2 DEF ActivedSound
  <2> QED BY <2>3 DEF ActivedSound, Elems, NoRepeat
<1> QED BY <1>1, <1>2 DEF Activate

\* The engine, the kernel and the application keep flag and list in step.
LEMMA ActivedStep == TypeOK /\ ActivedSound /\ [Next]_vars => ActivedSound'
<1> SUFFICES ASSUME TypeOK, ActivedSound, [Next]_vars PROVE ActivedSound'
  OBVIOUS
<1>1. ASSUME UNCHANGED activeVars PROVE ActivedSound'
  BY <1>1 DEF ActivedSound, activeVars, Elems, NoRepeat
<1>2. CASE EngineRun \/ Return \/ Kernel
  <2>1. UNCHANGED activeVars
    BY <1>2 DEF EngineRun, Return, Kernel, Arrive, PeerClose, PeerReset, Drain
  <2> QED BY <1>1, <2>1
<1>3. CASE Loop
  <2>1. CASE PopActived
    <3>1. /\ actived \in Seq(Socket) /\ actived # <<>> /\ NoRepeat(actived)
          /\ actived' = Tail(actived) /\ isactived' = isactived \ {Head(actived)}
      BY <2>1 DEF PopActived, TypeOK, ActivedSound
    <3>2. NoRepeat(Tail(actived))
          /\ Elems(Tail(actived)) = Elems(actived) \ {Head(actived)}
      BY <3>1, TailLemma
    <3>3. NoRepeat(actived') /\ isactived' = Elems(actived')
      BY <3>1, <3>2 DEF ActivedSound
    <3> QED BY <3>3 DEF ActivedSound, Elems, NoRepeat
  <2>2. CASE RecvIdle \/ SendIdle \/ LoopEnd \/ EpollWait
    <3>1. UNCHANGED activeVars
      BY <2>2 DEF RecvIdle, SendIdle, LoopEnd, EpollWait
    <3> QED BY <1>1, <3>1
  <2>3. CASE Requeue
    BY <2>3, ActivateSound DEF Requeue, TypeOK
  <2>4. ASSUME NEW s \in Socket, on_read_active(s) \/ on_write_active(s)
        PROVE  ActivedSound'
    BY <2>4, ActivateSound DEF on_read_active, on_write_active
  <2>5. ASSUME NEW r \in Results, Recv(r) \/ Send(r) PROVE ActivedSound'
    <3>1. UNCHANGED activeVars
      BY <2>5 DEF Recv, Send
    <3> QED BY <1>1, <3>1
  <2> QED BY <1>3, <2>1, <2>2, <2>3, <2>4, <2>5 DEF Loop
<1>4. CASE App
  <2> PICK s \in Socket :
        \/ WSARecv(s) \/ WSASend(s) \/ OpenSocket(s) \/ Bind2Engine(s)
        \/ CloseSocket(s) \/ ReleaseSocketWrapper(s)
        \/ \E r \in Results : WSARecvNow(s, r) \/ WSASendNow(s, r)
    BY <1>4 DEF App
  <2>1. CASE WSARecv(s) \/ WSASend(s)
    BY <2>1, ActivateSound DEF WSARecv, WSASend
  <2>2. CASE OpenSocket(s)
    <3>1. UNCHANGED activeVars
      BY <2>2 DEF OpenSocket, InitSocket, activeVars
    <3> QED BY <1>1, <3>1
  <2>3. CASE \/ Bind2Engine(s) \/ CloseSocket(s) \/ ReleaseSocketWrapper(s)
             \/ \E r \in Results : WSARecvNow(s, r) \/ WSASendNow(s, r)
    <3>1. UNCHANGED activeVars
      BY <2>3 DEF Bind2Engine, CloseSocket, ReleaseSocketWrapper, WSARecvNow,
                  WSASendNow
    <3> QED BY <1>1, <3>1
  <2> QED BY <2>1, <2>2, <2>3
<1>5. CASE UNCHANGED vars
  BY <1>1, <1>5 DEF vars, activeVars
<1> QED BY <1>2, <1>3, <1>4, <1>5 DEF Next

\* isactived says exactly which sockets are on the active list, and none is on
\* it twice: Socket.c, KendyNet.c and epoll.c never insert a node that is
\* still linked, for any number of sockets and any application that does not
\* reopen a slot while it is queued.
THEOREM ActivedAlwaysSound == Spec => []ActivedSound
<1>1. Init => ActivedSound
  BY DEF Init, ActivedSound, Elems, NoRepeat
<1> QED BY <1>1, ActivedStep, TypeCorrect, PTL DEF Spec

-----------------------------------------------------------------------------
\* The strengthening: only slots in use are registered, so that InitSocket
\* never clears the flags of a registered socket.
ReadinessInv == ReadinessNotLost /\ registered \subseteq status

\* What ReadinessNotLost asks of one socket.
Covered(s) ==
  /\ HasInput(s) => s \in readable \cup ready \cup evIn
  /\ \/ s \in writeable \cup ready \cup evOut
     \/ ~HasRoom(s) /\ s \in nospace

\* A step that touches nothing the property reads preserves it.
LEMMA ReadinessFrame ==
  ASSUME ReadinessInv,
         UNCHANGED <<handleVars, flagVars, kernelVars, ready, evIn, evOut>>
  PROVE  ReadinessInv'
  BY DEF ReadinessInv, ReadinessNotLost, HasInput, HasRoom, handleVars, flagVars,
         kernelVars

\* readv consumes input; it clears readable only when nothing was there.
LEMMA ReadinessRecv ==
  ASSUME TypeOK, ReadinessInv, NEW s \in Socket, NEW n, NEW r,
         raw_recv(s, n, r), UNCHANGED <<handleVars, evIn, evOut>>
  PROVE  ReadinessInv'
<1>1. registered' \subseteq status' /\ registered' = registered
  BY DEF ReadinessInv, handleVars
<1>2. ASSUME NEW x \in registered PROVE Covered(x)'
  <2>1. Covered(x) /\ x \in Socket /\ in \in [Socket -> Nat]
    BY DEF ReadinessInv, ReadinessNotLost, Covered, TypeOK
  <2>2. UNCHANGED <<out, peer, nospace, ready, writeable, evIn, evOut>>
    BY DEF raw_recv
  <2>3. HasInput(x)' => HasInput(x)
    <3>1. in'[x] > 0 => in[x] > 0
      <4>1. CASE r \in 1..in[s] /\ in' = [in EXCEPT ![s] = @ - r]
        BY <4>1, <2>1
      <4>2. CASE UNCHANGED in
        BY <4>2
      <4> QED BY <4>1, <4>2 DEF raw_recv
    <3> QED BY <3>1, <2>2 DEF HasInput
  <2>4. HasInput(x)' => (x \in readable => x \in readable')
    <3>1. CASE readable' = readable
      BY <3>1
    <3>2. CASE readable' = readable \ {s} /\ in[s] = 0 /\ peer[s] = "open"
      BY <3>2, <2>3 DEF HasInput
    <3> QED BY <3>1, <3>2 DEF raw_recv
  <2> QED BY <2>1, <2>2, <2>3, <2>4 DEF Covered, HasRoom
<1> QED BY <1>1, <1>2 DEF ReadinessInv, ReadinessNotLost, Covered

\* writev takes room; it clears writeable only when it arms the write edge.
LEMMA ReadinessSend ==
  ASSUME TypeOK, ReadinessInv, NEW s \in Socket, NEW n, NEW r,
         raw_send(s, n, r), UNCHANGED <<handleVars, evIn, evOut>>
  PROVE  ReadinessInv'
<1>1. registered' \subseteq status' /\ registered' = registered
  BY DEF ReadinessInv, handleVars
<1>2. ASSUME NEW x \in registered PROVE Covered(x)'
  <2>1. Covered(x) /\ x \in Socket /\ out \in [Socket -> Nat]
    BY DEF ReadinessInv, ReadinessNotLost, Covered, TypeOK
  <2>2. UNCHANGED <<in, peer, readable, ready, evIn, evOut>>
    BY DEF raw_send
  <2>3. CASE UNCHANGED <<out, writeable, nospace>>
    BY <2>1, <2>2, <2>3 DEF Covered, HasInput, HasRoom
  <2>4. CASE /\ r \in 1..out[s] /\ out' = [out EXCEPT ![s] = @ - r]
             /\ UNCHANGED <<writeable, nospace>>
    <3>1. HasRoom(x)' => HasRoom(x)
      BY <2>1, <2>2, <2>4 DEF HasRoom
    <3> QED BY <2>1, <2>2, <2>4, <3>1 DEF Covered, HasInput
  <2>5. CASE /\ out[s] = 0 /\ peer[s] # "rst"
             /\ writeable' = writeable \ {s} /\ nospace' = nospace \cup {s}
             /\ UNCHANGED out
    BY <2>1, <2>2, <2>5 DEF Covered, HasInput, HasRoom
  <2> QED BY <2>3, <2>4, <2>5 DEF raw_send
<1> QED BY <1>1, <1>2 DEF ReadinessInv, ReadinessNotLost, Covered

\* Every change of the kernel's side is latched, or was armed before.
LEMMA ReadinessKernel == TypeOK /\ ReadinessInv /\ Kernel => ReadinessInv'
<1> SUFFICES ASSUME TypeOK, ReadinessInv, Kernel PROVE ReadinessInv'
  OBVIOUS
<1> PICK s \in Socket : Arrive(s) \/ PeerClose(s) \/ PeerReset(s) \/ Drain(s)
  BY DEF Kernel
<1>1. UNCHANGED <<registered, status, readable, writeable, evIn, evOut>>
  BY DEF Arrive, PeerClose, PeerReset, Drain, handleVars, flagVars, threadVars
<1>2. ASSUME NEW x \in registered PROVE Covered(x)'
  <2>1. Covered(x) /\ x \in Socket /\ ready \subseteq ready'
    BY DEF ReadinessInv, ReadinessNotLost, Covered, TypeOK, Arrive, PeerClose,
           PeerReset, Drain, Latch
  <2>2. CASE s \in ready'
    <3>1. CASE x = s
      BY <2>2, <3>1 DEF Covered
    <3>2. CASE x # s
      <4>1. in'[x] = in[x] /\ out'[x] = out[x] /\ peer'[x] = peer[x]
        BY <3>2, <2>1 DEF TypeOK, Arrive, PeerClose, PeerReset, Drain
      <4>2. x \in nospace => x \in nospace'
        BY <3>2 DEF Arrive, PeerClose, PeerReset, Drain
      <4> QED BY <2>1, <1>1, <4>1, <4>2 DEF Covered, HasInput, HasRoom
    <3> QED BY <3>1, <3>2
  <2>3. CASE Drain(s) /\ s \notin nospace
    <3>1. in' = in /\ peer' = peer /\ nospace' = nospace
      BY <2>3 DEF Drain
    <3>2. x # s => out'[x] = out[x]
      BY <2>3, <2>1 DEF Drain, TypeOK
    <3>3. x = s => x \in writeable \cup ready \cup evOut
      BY <2>1, <2>3 DEF Covered
    <3> QED BY <2>1, <1>1, <3>1, <3>2, <3>3 DEF Covered, HasInput, HasRoom
  <2>4. CASE s \notin registered
    <3>1. x # s
      BY <2>4
    <3>2. in'[x] = in[x] /\ out'[x] = out[x] /\ peer'[x] = peer[x]
      BY <3>1, <2>1 DEF TypeOK, Arrive, PeerClose, PeerReset, Drain
    <3>3. x \in nospace => x \in nospace'
      BY <3>1 DEF Arrive, PeerClose, PeerReset, Drain
    <3> QED BY <2>1, <1>1, <3>2, <3>3 DEF Covered, HasInput, HasRoom
  <2>5. \/ s \in ready' \/ s \notin registered
        \/ Drain(s) /\ s \notin nospace
    BY DEF Arrive, PeerClose, PeerReset, Drain, Latch
  <2> QED BY <2>2, <2>3, <2>4, <2>5
<1> QED BY <1>1, <1>2 DEF ReadinessInv, ReadinessNotLost, Covered

\* epoll_wait is called again only when every reported event was handled.
EventsHandled == pc # "dispatch" => evIn = {} /\ evOut = {}

\* The dispatch loop is left only through its end.
LEMMA EventsStep == EventsHandled /\ [Next]_vars => EventsHandled'
<1> SUFFICES ASSUME EventsHandled, [Next]_vars PROVE EventsHandled'
  OBVIOUS
<1> USE DEF EventsHandled, Goto
<1>1. CASE UNCHANGED threadVars
  BY <1>1 DEF threadVars
<1>2. CASE EngineRun \/ Return
  BY <1>2 DEF EngineRun, Return
<1>3. CASE Loop
  BY <1>3 DEF Loop, PopActived, RecvIdle, SendIdle, Requeue, EpollWait, LoopEnd,
              on_read_active, on_write_active, Recv, Send
<1>4. CASE Kernel \/ App
  <2>1. UNCHANGED threadVars
    BY <1>4 DEF Kernel, Arrive, PeerClose, PeerReset, Drain, App, WSARecv,
                WSASend, OpenSocket, Bind2Engine, CloseSocket,
                ReleaseSocketWrapper, WSARecvNow, WSASendNow
  <2> QED BY <1>1, <2>1
<1>5. CASE UNCHANGED vars
  BY <1>5 DEF vars
<1> QED BY <1>2, <1>3, <1>4, <1>5 DEF Next

\* Every step of the engine and of the application keeps ReadinessInv.
LEMMA ReadinessStep ==
  TypeOK /\ EventsHandled /\ ReadinessInv /\ [Next]_vars => ReadinessInv'
<1> SUFFICES ASSUME TypeOK, EventsHandled, ReadinessInv, [Next]_vars
             PROVE  ReadinessInv'
  OBVIOUS
<1>1. CASE EngineRun \/ Return
  BY <1>1, ReadinessFrame DEF EngineRun, Return
<1>2. CASE Kernel
  BY <1>2, ReadinessKernel
<1>3. CASE Loop
  <2>1. CASE PopActived \/ RecvIdle \/ SendIdle \/ Requeue \/ LoopEnd
    BY <2>1, ReadinessFrame DEF PopActived, RecvIdle, SendIdle, Requeue, LoopEnd
  <2>2. CASE EpollWait
    <3>1. UNCHANGED <<handleVars, flagVars, in, out, peer>>
      BY <2>2 DEF EpollWait
    <3>2. ASSUME NEW x \in registered PROVE Covered(x)'
      <4>1. Covered(x) /\ x \in Socket /\ out \in [Socket -> Nat]
        BY DEF ReadinessInv, ReadinessNotLost, Covered, TypeOK
      <4>2. /\ evIn' = {s \in ready : HasInput(s)}
            /\ evOut' = {s \in ready : HasRoom(s)}
            /\ nospace' = nospace \cup {s \in ready : out[s] = 0}
            /\ ready' = {} /\ evIn = {} /\ evOut = {}
        BY <2>2 DEF EpollWait, EventsHandled
      <4> QED BY <3>1, <4>1, <4>2 DEF Covered, HasInput, HasRoom, flagVars
    <3> QED BY <3>1, <3>2
        DEF ReadinessInv, ReadinessNotLost, Covered, handleVars
  <2>3. ASSUME NEW s \in Socket, on_read_active(s) \/ on_write_active(s)
        PROVE  ReadinessInv'
    <3>1. UNCHANGED <<handleVars, kernelVars, ready>>
      BY <2>3 DEF on_read_active, on_write_active
    <3>2. /\ readable \cup evIn \subseteq readable' \cup evIn'
          /\ writeable \cup evOut \subseteq writeable' \cup evOut'
      BY <2>3 DEF on_read_active, on_write_active
    <3> QED BY <3>1, <3>2 DEF ReadinessInv, ReadinessNotLost, HasInput, HasRoom,
              handleVars, kernelVars
  <2>4. ASSUME NEW r \in Results, Recv(r) PROVE ReadinessInv'
    BY <2>4, ReadinessRecv DEF Recv, TypeOK
  <2>5. ASSUME NEW r \in Results, Send(r) PROVE ReadinessInv'
    BY <2>5, ReadinessSend DEF Send, TypeOK
  <2> QED BY <1>3, <2>1, <2>2, <2>3, <2>4, <2>5 DEF Loop
<1>4. CASE App
  <2> PICK s \in Socket :
        \/ WSARecv(s) \/ WSASend(s) \/ OpenSocket(s) \/ Bind2Engine(s)
        \/ CloseSocket(s) \/ ReleaseSocketWrapper(s)
        \/ \E r \in Results : WSARecvNow(s, r) \/ WSASendNow(s, r)
    BY <1>4 DEF App
  <2>1. CASE WSARecv(s) \/ WSASend(s)
    BY <2>1, ReadinessFrame DEF WSARecv, WSASend, threadVars
  <2>2. CASE OpenSocket(s)
    <3>1. /\ UNCHANGED <<registered, ready, evIn, evOut>>
          /\ status' = status \cup {s} /\ s \notin status
      BY <2>2 DEF OpenSocket, InitSocket, threadVars
    <3>2. ASSUME NEW x \in registered PROVE Covered(x)'
      <4>1. Covered(x) /\ x \in Socket /\ x # s
        BY <3>1 DEF ReadinessInv, ReadinessNotLost, Covered, TypeOK
      <4>2. /\ in'[x] = in[x] /\ out'[x] = out[x] /\ peer'[x] = peer[x]
            /\ x \in readable => x \in readable'
            /\ x \in writeable => x \in writeable'
            /\ x \in nospace => x \in nospace'
        BY <2>2, <4>1 DEF OpenSocket, InitSocket, TypeOK
      <4> QED BY <3>1, <4>1, <4>2 DEF Covered, HasInput, HasRoom
    <3> QED BY <3>1, <3>2 DEF ReadinessInv, ReadinessNotLost, Covered
  <2>3. CASE Bind2Engine(s)
    <3>1. /\ UNCHANGED <<status, flagVars, in, out, peer, evIn, evOut>>
          /\ registered' = registered \cup {s} /\ s \in status
          /\ ready' = ready \cup {x \in {s} : HasInput(x) \/ HasRoom(x)}
          /\ nospace' = nospace \cup {x \in {s} : out[x] = 0}
      BY <2>3 DEF Bind2Engine, epoll_register, threadVars
    <3>2. ASSUME NEW x \in registered PROVE Covered(x)'
      BY <3>1 DEF ReadinessInv, ReadinessNotLost, Covered, HasInput, HasRoom,
                  flagVars
    <3>3. Covered(s)'
      <4>1. out[s] \in Nat
        BY DEF TypeOK
      <4> QED BY <3>1, <4>1 DEF Covered, HasInput, HasRoom
    <3> QED BY <3>1, <3>2, <3>3 DEF ReadinessInv, ReadinessNotLost, Covered
  <2>4. CASE CloseSocket(s) \/ ReleaseSocketWrapper(s)
    <3>1. /\ registered' = registered \ {s} /\ ready' = ready \ {s}
          /\ nospace' = nospace \ {s} /\ status \ {s} \subseteq status'
          /\ UNCHANGED <<flagVars, evIn, evOut>>
      BY <2>4 DEF CloseSocket, ReleaseSocketWrapper, CloseFd, threadVars
    <3>2. ASSUME NEW x \in registered' PROVE Covered(x)'
      <4>1. Covered(x) /\ x \in Socket /\ x # s
        BY <3>1 DEF ReadinessInv, ReadinessNotLost, Covered, TypeOK
      <4>2. in'[x] = in[x] /\ out'[x] = out[x] /\ peer'[x] = peer[x]
        BY <2>4, <4>1 DEF CloseSocket, ReleaseSocketWrapper, CloseFd, TypeOK
      <4> QED BY <3>1, <4>1, <4>2 DEF Covered, HasInput, HasRoom, flagVars
    <3> QED BY <3>1, <3>2 DEF ReadinessInv, ReadinessNotLost, Covered
  <2>5. ASSUME NEW r \in Results, WSARecvNow(s, r) PROVE ReadinessInv'
    BY <2>5, ReadinessRecv DEF WSARecvNow, threadVars
  <2>6. ASSUME NEW r \in Results, WSASendNow(s, r) PROVE ReadinessInv'
    BY <2>6, ReadinessSend DEF WSASendNow, threadVars
  <2> QED BY <2>1, <2>2, <2>3, <2>4, <2>5, <2>6
<1>5. CASE UNCHANGED vars
  BY <1>5, ReadinessFrame DEF vars, handleVars, flagVars, kernelVars
<1> QED BY <1>1, <1>2, <1>3, <1>4, <1>5 DEF Next

\* No readiness edge is lost: the readable / writeable flags, the latched
\* edges and the reported events together always cover what the kernel has
\* for a registered socket, although epoll reports each edge once.
THEOREM ReadinessNeverLost == Spec => []ReadinessNotLost
<1>1. Init => ReadinessInv /\ EventsHandled
  BY DEF Init, ReadinessInv, ReadinessNotLost, EventsHandled
<1>2. ReadinessInv => ReadinessNotLost
  BY DEF ReadinessInv
<1> QED BY <1>1, <1>2, EventsStep, ReadinessStep, TypeCorrect, PTL DEF Spec

-----------------------------------------------------------------------------
(* Connection implements Reactor, and on top of what is proved there the   *)
(* requests of a connection are sound.  The invariant has six parts; each  *)
(* needs the others.                                                       *)

\* A connection and its handle live together, only their descriptors are in
\* the epoll set, and only those have events or cached readiness.
Handles ==
  /\ live = status
  /\ registered \subseteq live \cap engine
  /\ ready \cup evIn \cup evOut \subseteq registered
  /\ (readable \cup writeable) \cap live \subseteq registered

\* The engine is inside Process(cur).
Serving(s) == cur = s /\ pc \in {"recv", "onread", "send", "onwrite", "requeue"}

\* A socket whose connection is gone has nothing queued when the engine meets
\* it again, unless the application pulled it: passive close waits for both
\* requests.
GoneIdle ==
  \A s \in Socket \ (live \cup pulled) :
    s \in isactived \/ Serving(s) => pending_recv[s] = 0 /\ pending_send[s] = 0

\* Where the callbacks may stand.
CallbackSteps ==
  /\ step = "reread" => pc = "onread" /\ xfer = DEAD
  /\ step \in {"return", "freed"} => pc \in {"onread", "onwrite"}

\* A receive request is in use only after connection_start_recv.
StartedFirst == recvUsed \cap live \subseteq started /\ started \subseteq live

\* A queued request on a socket with the flag up has the engine's attention.
Attended ==
  \A s \in live :
    /\ pending_recv[s] > 0 /\ s \in readable =>
         s \in isactived \/ (cur = s /\ pc = "recv")
    /\ pending_send[s] > 0 /\ s \in writeable =>
         s \in isactived \/ (cur = s /\ pc \in {"recv", "onread", "send"})

\* What writev may report is covered by what is queued, connection or not.
SendCovered ==
  /\ \A s \in Socket : prepared[s] <= send_list[s]
  /\ InSend => xfer <= prepared[cur]

ConnInv ==
  /\ Handles /\ GoneIdle /\ CallbackSteps /\ StartedFirst
  /\ OverlapSound /\ NoUseAfterFree /\ Attended /\ SendCovered

-----------------------------------------------------------------------------
(* Refinement: every step of a connection is a step of the engine under    *)
(* its most general application, or leaves the engine alone.               *)

\* on_disconnect releases the handle or leaves the engine alone.
LEMMA RemoveRefines ==
  ASSUME AppRuns, NEW s \in Socket, NEW a, NEW b, remove_client(s, a, b)
  PROVE  [Next]_vars
<1>1. CASE UNCHANGED vars  BY <1>1
<1>2. CASE ReleaseSocketWrapper(s)  BY <1>2 DEF Next, App
<1> QED BY <1>1, <1>2 DEF remove_client

LEMMA CallbackRefines == TypeOK /\ Callback => [Next]_vars
<1> SUFFICES ASSUME TypeOK, Callback PROVE [Next]_vars  OBVIOUS
<1>0. cur \in Socket  BY DEF TypeOK
<1>1. CASE PacketDone  BY <1>1 DEF PacketDone
<1>2. CASE RecvDead
  BY <1>0, <1>2, RemoveRefines DEF RecvDead, InRecv, AppRuns
<1>3. CASE SendDead
  BY <1>0, <1>3, RemoveRefines DEF SendDead, InSend, AppRuns
<1>4. CASE SentAll \/ Finish  BY <1>4 DEF SentAll, Finish, Next
<1>5. ASSUME NEW r \in Results, ReadAgain(r) PROVE [Next]_vars
  BY <1>0, <1>5 DEF ReadAgain, InRecv, AppRuns, App, Next
<1>6. ASSUME NEW r \in Results, WriteOn(r) PROVE [Next]_vars
  BY <1>0, <1>6 DEF WriteOn, InSend, AppRuns, App, Next
<1> QED BY <1>1, <1>2, <1>3, <1>4, <1>5, <1>6 DEF Callback

LEMMA UserRefines == User => [Next]_vars
<1> SUFFICES ASSUME User PROVE [Next]_vars  OBVIOUS
<1>0. AppRuns  BY DEF User, UserRuns, AppRuns
<1> PICK s \in Socket :
      \/ /\ \/ connection_create(s) \/ Bind(s) \/ connection_start_recv(s)
            \/ connection_send(s, 0) \/ connection_send(s, 1)
            \/ connection_push_packet(s)
         /\ UNCHANGED cbVars
      \/ connection_active_close(s)
  BY DEF User
<1>1. CASE connection_create(s)  BY <1>0, <1>1 DEF connection_create, App, Next
<1>2. CASE Bind(s)  BY <1>0, <1>2 DEF Bind, App, Next
<1>3. CASE connection_start_recv(s)
  BY <1>0, <1>3 DEF connection_start_recv, App, Next
<1>4. CASE connection_send(s, 0) \/ connection_send(s, 1)
  <2>1. UNCHANGED vars \/ WSASend(s)  BY <1>4 DEF connection_send
  <2> QED BY <1>0, <2>1 DEF App, Next
<1>5. CASE connection_push_packet(s)  BY <1>5 DEF connection_push_packet
<1>6. CASE connection_active_close(s)
  BY <1>0, <1>6, RemoveRefines DEF connection_active_close
<1> QED BY <1>1, <1>2, <1>3, <1>4, <1>5, <1>6

LEMMA StepRefines == TypeOK /\ [CNext]_cvars => [Next]_vars
<1> SUFFICES ASSUME TypeOK, [CNext]_cvars PROVE [Next]_vars  OBVIOUS
<1>1. CASE EngineStep  BY <1>1 DEF EngineStep, Next, Loop
<1>2. CASE KernelStep  BY <1>2 DEF KernelStep, Next
<1>3. CASE Callback  BY <1>3, CallbackRefines
<1>4. CASE User  BY <1>4, UserRefines
<1>5. ASSUME NEW r \in Results, Complete(r) PROVE [Next]_vars
  BY <1>5 DEF Complete, Next, Loop
<1>6. CASE UNCHANGED cvars  BY <1>6 DEF cvars
<1> QED BY <1>1, <1>2, <1>3, <1>4, <1>5, <1>6 DEF CNext

\* Connection.c drives the engine only in ways the engine allows: Connection
\* implements Reactor, so that everything proved of Reactor holds under it.
THEOREM ConnectionImplements == CSpec => Spec
<1>1. CInit => Init /\ TypeOK
  BY DEF CInit, Init, TypeOK, PeerStates, Points
<1>2. TypeOK /\ [CNext]_cvars => [Next]_vars /\ TypeOK'
  BY StepRefines, TypeStep
<1> QED BY <1>1, <1>2, PTL DEF CSpec, Spec

-----------------------------------------------------------------------------
(* What the calls of the engine leave behind.                              *)

LEMMA RawRecvEffect ==
  ASSUME TypeOK, NEW s \in Socket, NEW n \in Nat, NEW r \in Results,
         raw_recv(s, n, r)
  PROVE  /\ pending_recv' = [pending_recv EXCEPT ![s] = IF r = EAGAIN THEN n + 1 ELSE n]
         /\ readable' = IF r = EAGAIN THEN readable \ {s} ELSE readable
         /\ UNCHANGED <<peer, ready, writeable, pending_send>>
<1>1. in[s] \in Nat  BY DEF TypeOK
<1>2. CASE r \in 1..in[s]  BY <1>1, <1>2 DEF raw_recv, EAGAIN, DEAD
<1>3. CASE r \notin 1..in[s]  BY <1>3 DEF raw_recv, EAGAIN, DEAD
<1> QED BY <1>2, <1>3

LEMMA RawSendEffect ==
  ASSUME TypeOK, NEW s \in Socket, NEW n \in Nat, NEW r \in Results,
         raw_send(s, n, r)
  PROVE  /\ pending_send' = [pending_send EXCEPT ![s] = IF r = EAGAIN THEN n + 1 ELSE n]
         /\ writeable' = IF r = EAGAIN THEN writeable \ {s} ELSE writeable
         /\ UNCHANGED <<peer, ready, readable, pending_recv>>
<1>1. out[s] \in Nat  BY DEF TypeOK
<1>2. CASE r \in 1..out[s]  BY <1>1, <1>2 DEF raw_send, EAGAIN, DEAD
<1>3. CASE r \notin 1..out[s]  BY <1>3 DEF raw_send, EAGAIN, DEAD
<1> QED BY <1>2, <1>3

\* on_disconnect with both requests idle: connection and handle go together,
\* and the queues, the flags and the active list stay.
LEMMA RemoveEffect ==
  ASSUME NEW s, NEW a, NEW b, s \notin a, s \notin b, remove_client(s, a, b)
  PROVE  /\ live' = live \ {s} /\ started' = started \ {s}
         /\ send_list' = [send_list EXCEPT ![s] = 0]
         /\ prepared' = [prepared EXCEPT ![s] = 0]
         /\ status' = status \ {s} /\ registered' = registered \ {s}
         /\ ready' = ready \ {s}
         /\ UNCHANGED <<engine, flagVars, activeVars, queueVars, threadVars>>
BY DEF remove_client, ReleaseSocketWrapper, CloseFd

\* The connection's own variables and the callback's keep their types.
OwnTypes ==
  /\ live \subseteq Socket /\ started \subseteq Socket
  /\ recvUsed \subseteq Socket /\ sendUsed \subseteq Socket
  /\ send_list \in [Socket -> 0..MaxList]
  /\ prepared \in [Socket -> 0..MaxWbaf]
  /\ pulled \subseteq Socket
  /\ xfer \in Results
  /\ step \in {"deliver", "reread", "return", "freed"}

LEMMA RemoveTypes ==
  ASSUME OwnTypes, NEW s \in Socket, NEW a, NEW b, remove_client(s, a, b)
  PROVE  /\ live' \subseteq Socket /\ started' \subseteq Socket
         /\ send_list' \in [Socket -> 0..MaxList]
         /\ prepared' \in [Socket -> 0..MaxWbaf]
<1>1. CASE UNCHANGED <<live, started, send_list, prepared>>  BY <1>1 DEF OwnTypes
<1>2. CASE /\ live' = live \ {s} /\ started' = started \ {s}
           /\ send_list' = [send_list EXCEPT ![s] = 0]
           /\ prepared' = [prepared EXCEPT ![s] = 0]
  BY <1>2, ConnectionAssumption DEF OwnTypes
<1> QED BY <1>1, <1>2 DEF remove_client

LEMMA LeastType ==
  ASSUME NEW a \in Nat, NEW b \in Nat
  PROVE  Least(a, b) \in 0..b /\ Least(a, b) <= a
BY DEF Least

LEMMA CallbackTypes == TypeOK /\ OwnTypes /\ Callback => OwnTypes'
<1> SUFFICES ASSUME TypeOK, OwnTypes, Callback PROVE OwnTypes'  OBVIOUS
<1>0. /\ cur \in Socket /\ xfer \in Results /\ xfer \in Int
      /\ EAGAIN \in Results /\ DEAD \in Results /\ \A r \in Results : r \in Int
  BY ReactorAssumption DEF TypeOK, OwnTypes, Results, EAGAIN, DEAD
<1>1. CASE PacketDone
  <2>1. xfer - 1 \in Results
    BY <1>0, <1>1, ReactorAssumption DEF PacketDone, Results, EAGAIN
  <2> QED BY <1>1, <2>1 DEF PacketDone, OwnTypes, connVars
<1>2. CASE RecvDead
  <2>1. /\ live' \subseteq Socket /\ started' \subseteq Socket
        /\ send_list' \in [Socket -> 0..MaxList]
        /\ prepared' \in [Socket -> 0..MaxWbaf]
    BY <1>0, <1>2, RemoveTypes DEF RecvDead, OwnTypes
  <2> QED BY <1>2, <2>1 DEF RecvDead, OwnTypes
<1>3. CASE SendDead
  <2>1. /\ live' \subseteq Socket /\ started' \subseteq Socket
        /\ send_list' \in [Socket -> 0..MaxList]
        /\ prepared' \in [Socket -> 0..MaxWbaf]
    BY <1>0, <1>3, RemoveTypes DEF SendDead, OwnTypes
  <2> QED BY <1>3, <2>1 DEF SendDead, OwnTypes
<1>4. CASE SentAll
  BY <1>0, <1>4, ConnectionAssumption DEF SentAll, OwnTypes
<1>5. CASE Finish  BY <1>0, <1>5 DEF Finish, OwnTypes, connVars
<1>6. ASSUME NEW r \in Results, ReadAgain(r) PROVE OwnTypes'
  BY <1>0, <1>6 DEF ReadAgain, OwnTypes
<1>7. ASSUME NEW r \in Results, WriteOn(r) PROVE OwnTypes'
  <2> DEFINE left == send_list[cur] - xfer
  <2>1. left \in 0..MaxList
    BY <1>0, <1>7, ConnectionAssumption DEF WriteOn, OwnTypes
  <2>2. left \in Nat /\ MaxWbaf \in Nat  BY <2>1, ConnectionAssumption
  <2>3. Least(left, MaxWbaf) \in 0..MaxWbaf  BY <2>2, LeastType
  <2>4. /\ send_list' = [send_list EXCEPT ![cur] = left]
        /\ prepared' = [prepared EXCEPT ![cur] = Least(left, MaxWbaf)]
        /\ xfer' = r /\ UNCHANGED <<live, started, recvUsed, sendUsed, pulled, step>>
    BY <1>7 DEF WriteOn
  <2> HIDE DEF left
  <2> QED BY <1>0, <1>7, <2>1, <2>3, <2>4 DEF OwnTypes
<1> QED BY <1>1, <1>2, <1>3, <1>4, <1>5, <1>6, <1>7 DEF Callback

LEMMA UserTypes == TypeOK /\ OwnTypes /\ User => OwnTypes'
<1> SUFFICES ASSUME TypeOK, OwnTypes, User PROVE OwnTypes'  OBVIOUS
<1> PICK s \in Socket :
      \/ /\ \/ connection_create(s) \/ Bind(s) \/ connection_start_recv(s)
            \/ connection_send(s, 0) \/ connection_send(s, 1)
            \/ connection_push_packet(s)
         /\ UNCHANGED cbVars
      \/ connection_active_close(s)
  BY DEF User
<1> USE DEF cbVars
<1>1. CASE connection_create(s) /\ UNCHANGED cbVars  BY <1>1 DEF connection_create, OwnTypes
<1>2. CASE Bind(s) /\ UNCHANGED cbVars  BY <1>2 DEF Bind, OwnTypes, connVars
<1>3. CASE connection_start_recv(s) /\ UNCHANGED cbVars
  BY <1>3 DEF connection_start_recv, OwnTypes
<1>4. ASSUME NEW n \in {0, 1}, connection_send(s, n), UNCHANGED cbVars PROVE OwnTypes'
  <2>1. send_list[s] + n \in 0..MaxList
    BY <1>4, ConnectionAssumption DEF connection_send, OwnTypes
  <2>2. Least(send_list[s] + n, MaxWbaf) \in 0..MaxWbaf
    <3>1. send_list[s] + n \in Nat /\ MaxWbaf \in Nat  BY <2>1, ConnectionAssumption
    <3> QED BY <3>1, LeastType
  <2>3. /\ send_list' = [send_list EXCEPT ![s] = send_list[s] + n]
        /\ UNCHANGED <<live, started, recvUsed, pulled>>
    BY <1>4 DEF connection_send
  <2>4. \/ UNCHANGED <<sendUsed, prepared>>
        \/ /\ sendUsed' = sendUsed \cup {s}
           /\ prepared' = [prepared EXCEPT ![s] = Least(send_list[s] + n, MaxWbaf)]
    BY <1>4 DEF connection_send
  <2> QED BY <1>4, <2>1, <2>2, <2>3, <2>4 DEF OwnTypes
<1>5. CASE connection_push_packet(s) /\ UNCHANGED cbVars
  <2>1. send_list[s] + 1 \in 0..MaxList
    BY <1>5, ConnectionAssumption DEF connection_push_packet, OwnTypes
  <2> QED BY <1>5, <2>1 DEF connection_push_packet, OwnTypes
<1>6. CASE connection_active_close(s)
  <2>1. /\ live' \subseteq Socket /\ started' \subseteq Socket
        /\ send_list' \in [Socket -> 0..MaxList]
        /\ prepared' \in [Socket -> 0..MaxWbaf]
    BY <1>6, RemoveTypes DEF connection_active_close
  <2> QED BY <1>6, <2>1 DEF connection_active_close, OwnTypes
<1> QED BY <1>1, <1>2, <1>3, <1>4, <1>5, <1>6

LEMMA CTypeStep == CTypeOK /\ [CNext]_cvars => CTypeOK'
<1> SUFFICES ASSUME TypeOK, OwnTypes, [CNext]_cvars PROVE TypeOK' /\ OwnTypes'
  BY DEF CTypeOK, OwnTypes
<1>1. TypeOK'  BY StepRefines, TypeStep
<1>2. CASE EngineStep \/ KernelStep
  BY <1>1, <1>2 DEF EngineStep, KernelStep, OwnTypes, connVars, cbVars
<1>3. CASE Callback  BY <1>1, <1>3, CallbackTypes
<1>4. CASE User  BY <1>1, <1>4, UserTypes
<1>5. ASSUME NEW r \in Results, Complete(r) PROVE OwnTypes'
  BY <1>5 DEF Complete, OwnTypes, connVars
<1>6. CASE UNCHANGED cvars  BY <1>1, <1>6 DEF cvars, OwnTypes, connVars, cbVars
<1> QED BY <1>1, <1>2, <1>3, <1>4, <1>5, <1>6 DEF CNext

\* Every variable of Connection keeps its type; in particular no packet count
\* goes below zero or past its bound.
THEOREM ConnectionTypes == CSpec => []CTypeOK
<1>1. CInit => CTypeOK
  BY ReactorAssumption, ConnectionAssumption
     DEF CInit, CTypeOK, Init, TypeOK, PeerStates, Points, Results, EAGAIN
<1> QED BY <1>1, CTypeStep, PTL DEF CSpec

-----------------------------------------------------------------------------
(* The invariant, action by action.                                        *)

AllInv == CTypeOK /\ ActivedSound /\ EventsHandled /\ ConnInv

\* The facts every case starts from.
LEMMA InvFacts ==
  ASSUME AllInv
  PROVE  /\ cur \in Socket /\ pc \in Points /\ xfer \in Int /\ EAGAIN = -1 /\ DEAD = 0
         /\ live \subseteq Socket /\ isactived \subseteq Socket
         /\ pending_recv \in [Socket -> Nat] /\ pending_send \in [Socket -> Nat]
         /\ send_list \in [Socket -> Nat] /\ prepared \in [Socket -> Nat]
         /\ \A r \in Results : r \in Int
BY ReactorAssumption, ConnectionAssumption
   DEF AllInv, CTypeOK, TypeOK, Results, EAGAIN, DEAD

\* Steps between the calls of Process, which touch no queue.
LEMMA LoopKeeps ==
  ASSUME AllInv, UNCHANGED <<connVars, cbVars>>,
         EngineRun \/ RecvIdle \/ SendIdle \/ LoopEnd
  PROVE  ConnInv'
<1> USE InvFacts DEF AllInv, ConnInv, connVars, cbVars, handleVars, flagVars, activeVars,
        queueVars, kernelVars, EngineRun, RecvIdle, SendIdle, LoopEnd, Goto
<1>1. Handles'  BY DEF Handles
<1>2. GoneIdle'  BY DEF GoneIdle, Serving
<1>3. CallbackSteps' /\ StartedFirst'  BY DEF CallbackSteps, StartedFirst
<1>4. OverlapSound'  BY DEF OverlapSound, Held, Bit
<1>5. NoUseAfterFree' /\ SendCovered'  BY DEF NoUseAfterFree, SendCovered, InRecv, InSend
<1>6. Attended'  BY DEF Attended
<1> QED BY <1>1, <1>2, <1>3, <1>4, <1>5, <1>6

LEMMA PopKeeps ==
  ASSUME AllInv, UNCHANGED <<connVars, cbVars>>, PopActived
  PROVE  ConnInv'
<1> USE InvFacts DEF AllInv, ConnInv, connVars, cbVars, handleVars, flagVars, activeVars,
        queueVars, kernelVars, Goto
<1>0. Head(actived) \in isactived
  <2>1. actived \in Seq(Socket) /\ actived # <<>>  BY DEF PopActived, CTypeOK, TypeOK
  <2>2. 1 \in DOMAIN actived /\ Head(actived) = actived[1]  BY <2>1
  <2> QED BY <2>2 DEF ActivedSound, Elems
<1> USE <1>0 DEF PopActived
<1>1. Handles'  BY DEF Handles
<1>2. GoneIdle'  BY DEF GoneIdle, Serving
<1>3. CallbackSteps' /\ StartedFirst'  BY DEF CallbackSteps, StartedFirst
<1>4. OverlapSound'  BY DEF OverlapSound, Held, Bit
<1>5. NoUseAfterFree' /\ SendCovered'  BY DEF NoUseAfterFree, SendCovered, InRecv, InSend
<1>6. Attended'  BY DEF Attended
<1> QED BY <1>1, <1>2, <1>3, <1>4, <1>5, <1>6

LEMMA RequeueKeeps ==
  ASSUME AllInv, UNCHANGED <<connVars, cbVars>>, Requeue
  PROVE  ConnInv'
<1> USE InvFacts DEF AllInv, ConnInv, connVars, cbVars, handleVars, flagVars, activeVars,
        queueVars, kernelVars, threadVars, Goto
<1> USE DEF Requeue, Activate
<1>1. Handles'  BY DEF Handles
<1>2. GoneIdle'  BY DEF GoneIdle, Serving
<1>3. CallbackSteps' /\ StartedFirst'  BY DEF CallbackSteps, StartedFirst
<1>4. OverlapSound'  BY DEF OverlapSound, Held, Bit
<1>5. NoUseAfterFree' /\ SendCovered'  BY DEF NoUseAfterFree, SendCovered, InRecv, InSend
<1>6. Attended'  BY DEF Attended
<1> QED BY <1>1, <1>2, <1>3, <1>4, <1>5, <1>6

LEMMA EpollKeeps ==
  ASSUME AllInv, UNCHANGED <<connVars, cbVars>>, EpollWait
  PROVE  ConnInv'
<1> USE InvFacts DEF AllInv, ConnInv, connVars, cbVars, handleVars, flagVars, activeVars,
        queueVars, kernelVars, threadVars, Goto
<1> USE DEF EpollWait
<1>1. Handles'  BY DEF Handles
<1>2. GoneIdle'  BY DEF GoneIdle, Serving
<1>3. CallbackSteps' /\ StartedFirst'  BY DEF CallbackSteps, StartedFirst
<1>4. OverlapSound'  BY DEF OverlapSound, Held, Bit
<1>5. NoUseAfterFree' /\ SendCovered'  BY DEF NoUseAfterFree, SendCovered, InRecv, InSend
<1>6. Attended'  BY DEF Attended
<1> QED BY <1>1, <1>2, <1>3, <1>4, <1>5, <1>6

\* on_read_active and on_write_active: an event raises the flag and, if a request
\* waits for it, puts the socket on the active list.
LEMMA EventKeeps ==
  ASSUME AllInv, UNCHANGED <<connVars, cbVars>>, NEW s \in Socket,
         on_read_active(s) \/ on_write_active(s)
  PROVE  ConnInv'
<1> USE InvFacts DEF AllInv, ConnInv, connVars, cbVars, handleVars, flagVars, activeVars,
        queueVars, kernelVars, threadVars, Goto
<1>0. s \in live  BY DEF on_read_active, on_write_active, Handles
<1> USE <1>0 DEF on_read_active, on_write_active, Activate
<1>1. Handles'  BY DEF Handles
<1>2. GoneIdle'  BY DEF GoneIdle, Serving
<1>3. CallbackSteps' /\ StartedFirst'  BY DEF CallbackSteps, StartedFirst
<1>4. OverlapSound'  BY DEF OverlapSound, Held, Bit
<1>5. NoUseAfterFree' /\ SendCovered'  BY DEF NoUseAfterFree, SendCovered, InRecv, InSend
<1>6. Attended'  BY DEF Attended
<1> QED BY <1>1, <1>2, <1>3, <1>4, <1>5, <1>6

LEMMA KernelKeeps ==
  ASSUME AllInv, KernelStep
  PROVE  ConnInv'
<1> USE InvFacts DEF AllInv, ConnInv, connVars, cbVars, handleVars, flagVars, activeVars,
        queueVars, kernelVars, threadVars, Goto
<1> USE DEF KernelStep, Kernel, Arrive, PeerClose, PeerReset, Drain, Latch
<1>1. Handles'  BY DEF Handles
<1>2. GoneIdle'  BY DEF GoneIdle, Serving
<1>3. CallbackSteps' /\ StartedFirst'  BY DEF CallbackSteps, StartedFirst
<1>4. OverlapSound'  BY DEF OverlapSound, Held, Bit
<1>5. NoUseAfterFree' /\ SendCovered'  BY DEF NoUseAfterFree, SendCovered, InRecv, InSend
<1>6. Attended'  BY DEF Attended
<1> QED BY <1>1, <1>2, <1>3, <1>4, <1>5, <1>6

\* _recv: the request moves from the queue to the callback, or stays queued.
LEMMA RecvKeeps ==
  ASSUME AllInv, UNCHANGED <<connVars, step>>, NEW r \in Results, Recv(r), xfer' = r
  PROVE  ConnInv'
<1> USE InvFacts DEF AllInv, ConnInv, connVars, cbVars, handleVars, flagVars, activeVars,
        queueVars, kernelVars, threadVars, Goto
<1>1. pending_recv[cur] > 0 /\ pc = "recv"  BY DEF Recv
<1>2. cur \in live \/ cur \in pulled  BY <1>1 DEF GoneIdle, Serving
<1>3. /\ step = "deliver"
      /\ cur \in live => pending_recv[cur] = 1 /\ cur \in recvUsed
  BY <1>1 DEF OverlapSound, CallbackSteps, Bit, CTypeOK
<1>4. /\ pending_recv' = [pending_recv EXCEPT ![cur] =
                           IF r = EAGAIN THEN pending_recv[cur] ELSE pending_recv[cur] - 1]
      /\ readable' = IF r = EAGAIN THEN readable \ {cur} ELSE readable
      /\ UNCHANGED <<ready, writeable, pending_send>>
  <2>1. pending_recv[cur] - 1 \in Nat /\ pending_recv[cur] - 1 + 1 = pending_recv[cur]
    BY <1>1
  <2> QED BY <2>1, RawRecvEffect DEF Recv, CTypeOK
<1> USE <1>1, <1>2, <1>3, <1>4 DEF Recv
<1>5. Handles'  BY DEF Handles
<1>6. GoneIdle'  BY DEF GoneIdle, Serving
<1>7. CallbackSteps' /\ StartedFirst'  BY DEF CallbackSteps, StartedFirst
<1>8. OverlapSound'  BY DEF OverlapSound, Held, Bit
<1>9. NoUseAfterFree' /\ SendCovered'  BY DEF NoUseAfterFree, SendCovered, InRecv, InSend
<1>10. Attended'  BY DEF Attended
<1> QED BY <1>5, <1>6, <1>7, <1>8, <1>9, <1>10

\* _send, the same way.
LEMMA SendKeeps ==
  ASSUME AllInv, UNCHANGED <<connVars, step>>, NEW r \in Results, Send(r), xfer' = r,
         r <= prepared[cur]
  PROVE  ConnInv'
<1> USE InvFacts DEF AllInv, ConnInv, connVars, cbVars, handleVars, flagVars, activeVars,
        queueVars, kernelVars, threadVars, Goto
<1>1. pending_send[cur] > 0 /\ pc = "send"  BY DEF Send
<1>2. cur \in live \/ cur \in pulled  BY <1>1 DEF GoneIdle, Serving
<1>3. /\ step = "deliver"
      /\ cur \in live => pending_send[cur] = 1 /\ cur \in sendUsed
  BY <1>1 DEF OverlapSound, CallbackSteps, Bit, CTypeOK
<1>4. /\ pending_send' = [pending_send EXCEPT ![cur] =
                           IF r = EAGAIN THEN pending_send[cur] ELSE pending_send[cur] - 1]
      /\ writeable' = IF r = EAGAIN THEN writeable \ {cur} ELSE writeable
      /\ UNCHANGED <<ready, readable, pending_recv>>
  BY <1>1, <1>3, RawSendEffect DEF Send, CTypeOK
<1> USE <1>1, <1>2, <1>3, <1>4 DEF Send
<1>5. Handles'  BY DEF Handles
<1>6. GoneIdle'  BY DEF GoneIdle, Serving
<1>7. CallbackSteps' /\ StartedFirst'  BY DEF CallbackSteps, StartedFirst
<1>8. OverlapSound'  BY DEF OverlapSound, Held, Bit
<1>9. NoUseAfterFree' /\ SendCovered'  BY DEF NoUseAfterFree, SendCovered, InRecv, InSend
<1>10. Attended'  BY DEF Attended
<1> QED BY <1>5, <1>6, <1>7, <1>8, <1>9, <1>10

LEMMA PacketKeeps ==
  ASSUME AllInv, PacketDone
  PROVE  ConnInv'
<1> USE InvFacts DEF AllInv, ConnInv, connVars, cbVars, handleVars, flagVars, activeVars,
        queueVars, kernelVars, threadVars, Goto
<1> USE DEF PacketDone, InRecv, vars
<1>1. Handles'  BY DEF Handles
<1>2. GoneIdle'  BY DEF GoneIdle, Serving
<1>3. CallbackSteps' /\ StartedFirst'  BY DEF CallbackSteps, StartedFirst
<1>4. OverlapSound'  BY DEF OverlapSound, Held, Bit
<1>5. NoUseAfterFree' /\ SendCovered'  BY DEF NoUseAfterFree, SendCovered, InRecv, InSend
<1>6. Attended'  BY DEF Attended
<1> QED BY <1>1, <1>2, <1>3, <1>4, <1>5, <1>6

LEMMA ReadAgainKeeps ==
  ASSUME AllInv, NEW r \in Results, ReadAgain(r)
  PROVE  ConnInv'
<1> USE InvFacts DEF AllInv, ConnInv, connVars, cbVars, handleVars, flagVars, activeVars,
        queueVars, kernelVars, threadVars, Goto
<1>1. cur \in live  BY DEF ReadAgain, InRecv
<1>2. pending_recv[cur] = 0 /\ cur \in recvUsed
  BY <1>1 DEF OverlapSound, CallbackSteps, Held, Bit, ReadAgain, InRecv, CTypeOK
<1>3. /\ pending_recv' = [pending_recv EXCEPT ![cur] = IF r = EAGAIN THEN 1 ELSE 0]
      /\ readable' = IF r = EAGAIN THEN readable \ {cur} ELSE readable
      /\ UNCHANGED <<ready, writeable, pending_send>>
  BY <1>2, RawRecvEffect DEF ReadAgain, WSARecvNow, CTypeOK
<1> USE <1>1, <1>2, <1>3 DEF ReadAgain, WSARecvNow, InRecv
<1>4. Handles'  BY DEF Handles
<1>5. GoneIdle'  BY DEF GoneIdle, Serving
<1>6. CallbackSteps' /\ StartedFirst'  BY DEF CallbackSteps, StartedFirst
<1>7. OverlapSound'  BY DEF OverlapSound, Held, Bit
<1>8. NoUseAfterFree' /\ SendCovered'  BY DEF NoUseAfterFree, SendCovered, InRecv, InSend
<1>9. Attended'  BY DEF Attended
<1> QED BY <1>4, <1>5, <1>6, <1>7, <1>8, <1>9

LEMMA WriteOnKeeps ==
  ASSUME AllInv, NEW r \in Results, WriteOn(r)
  PROVE  ConnInv'
<1> USE InvFacts DEF AllInv, ConnInv, connVars, cbVars, handleVars, flagVars, activeVars,
        queueVars, kernelVars, threadVars, Goto
<1>1. cur \in live  BY DEF WriteOn, InSend
<1>2. pending_send[cur] = 0 /\ cur \in sendUsed
  BY <1>1 DEF OverlapSound, CallbackSteps, Held, Bit, WriteOn, InSend, CTypeOK
<1>3. /\ pending_send' = [pending_send EXCEPT ![cur] = IF r = EAGAIN THEN 1 ELSE 0]
      /\ writeable' = IF r = EAGAIN THEN writeable \ {cur} ELSE writeable
      /\ UNCHANGED <<ready, readable, pending_recv>>
  BY <1>2, RawSendEffect DEF WriteOn, WSASendNow, CTypeOK
<1> USE <1>1, <1>2, <1>3 DEF WriteOn, WSASendNow, InSend
<1>4. Handles'  BY DEF Handles
<1>5. GoneIdle'  BY DEF GoneIdle, Serving
<1>6. CallbackSteps' /\ StartedFirst'  BY DEF CallbackSteps, StartedFirst
<1>7. OverlapSound'  BY DEF OverlapSound, Held, Bit
<1>8. NoUseAfterFree'  BY DEF NoUseAfterFree, InRecv
<1>9. SendCovered'
  <2> DEFINE left == send_list[cur] - xfer
             n    == Least(left, MaxWbaf)
  <2>1. left \in Nat /\ MaxWbaf \in Nat  BY ConnectionAssumption
  <2>2. n \in Nat /\ n <= left  BY <2>1, LeastType
  <2>3. /\ send_list' = [send_list EXCEPT ![cur] = left]
        /\ prepared' = [prepared EXCEPT ![cur] = n]
        /\ xfer' <= n /\ cur' = cur
    OBVIOUS
  <2> HIDE DEF left, n
  <2> QED BY <2>1, <2>2, <2>3 DEF SendCovered
<1>10. Attended'  BY DEF Attended
<1> QED BY <1>4, <1>5, <1>6, <1>7, <1>8, <1>9, <1>10

LEMMA ReturnKeeps ==
  ASSUME AllInv, SentAll \/ Finish
  PROVE  ConnInv'
<1> USE InvFacts DEF AllInv, ConnInv, connVars, cbVars, handleVars, flagVars, activeVars,
        queueVars, kernelVars, threadVars, Goto
<1> USE DEF SentAll, Finish, Return, InSend
<1>1. Handles'  BY DEF Handles
<1>2. GoneIdle'  BY DEF GoneIdle, Serving
<1>3. CallbackSteps' /\ StartedFirst'  BY DEF CallbackSteps, StartedFirst
<1>4. OverlapSound'  BY DEF OverlapSound, Held, Bit
<1>5. NoUseAfterFree' /\ SendCovered'  BY DEF NoUseAfterFree, SendCovered, InRecv, InSend
<1>6. Attended'  BY DEF Attended
<1> QED BY <1>1, <1>2, <1>3, <1>4, <1>5, <1>6

\* The peer is gone while the send request is out: the receive side goes idle.
LEMMA RecvDeadWaits ==
  ASSUME AllInv, RecvDead, cur \in sendUsed
  PROVE  ConnInv'
<1> USE InvFacts DEF AllInv, ConnInv, connVars, vars, RecvDead, InRecv
<1>1. cur \in live  OBVIOUS
<1>2. Handles' /\ GoneIdle'  BY DEF Handles, GoneIdle, Serving
<1>3. CallbackSteps' /\ StartedFirst'  BY DEF CallbackSteps, StartedFirst
<1>4. OverlapSound'  BY <1>1 DEF OverlapSound, Held, Bit
<1>5. NoUseAfterFree' /\ SendCovered'  BY DEF NoUseAfterFree, SendCovered, InSend
<1>6. Attended'  BY DEF Attended
<1> QED BY <1>2, <1>3, <1>4, <1>5, <1>6

LEMMA SendDeadWaits ==
  ASSUME AllInv, SendDead, cur \in recvUsed
  PROVE  ConnInv'
<1> USE InvFacts DEF AllInv, ConnInv, connVars, vars, SendDead, InSend
<1>1. cur \in live  OBVIOUS
<1>2. Handles' /\ GoneIdle'  BY DEF Handles, GoneIdle, Serving
<1>3. CallbackSteps' /\ StartedFirst'  BY DEF CallbackSteps, StartedFirst
<1>4. OverlapSound'  BY <1>1 DEF OverlapSound, Held, Bit
<1>5. NoUseAfterFree' /\ SendCovered'  BY DEF NoUseAfterFree, SendCovered, InRecv
<1>6. Attended'  BY DEF Attended
<1> QED BY <1>2, <1>3, <1>4, <1>5, <1>6

\* A connection is destroyed and its handle released: in its own callback, with
\* no request queued, or by the application, which may pull it from under the
\* engine.
LEMMA RemoveKeeps ==
  ASSUME AllInv, AppRuns, NEW s \in live,
         remove_client(s, recvUsed', sendUsed'), s \notin recvUsed', s \notin sendUsed',
         recvUsed' = recvUsed \ {s}, sendUsed' = sendUsed \ {s},
         \/ /\ s = cur /\ pc # "out" /\ step' = "return"
            /\ pending_recv[s] = 0 /\ pending_send[s] = 0 /\ UNCHANGED pulled
         \/ connection_active_close(s)
  PROVE  ConnInv'
<1> USE InvFacts DEF AllInv, ConnInv
<1>0. /\ live' = live \ {s} /\ started' = started \ {s}
      /\ send_list' = [send_list EXCEPT ![s] = 0]
      /\ prepared' = [prepared EXCEPT ![s] = 0]
      /\ status' = status \ {s} /\ registered' = registered \ {s}
      /\ ready' = ready \ {s}
      /\ UNCHANGED <<engine, flagVars, activeVars, queueVars, threadVars>>
  BY RemoveEffect
<1> USE <1>0 DEF flagVars, activeVars, queueVars, threadVars, connection_active_close
<1>1. Handles'
  <2>1. evIn = {} /\ evOut = {}  BY DEF EventsHandled, AppRuns
  <2> QED BY <2>1 DEF Handles
<1>2. GoneIdle'  BY DEF GoneIdle, Serving
<1>3. CallbackSteps' /\ StartedFirst'  BY DEF CallbackSteps, StartedFirst, AppRuns
<1>4. OverlapSound'  BY DEF OverlapSound, Held, Bit, AppRuns
<1>5. NoUseAfterFree'  BY DEF NoUseAfterFree, InRecv, InSend
<1>6. SendCovered'  BY DEF SendCovered, InSend
<1>7. Attended'  BY DEF Attended
<1> QED BY <1>1, <1>2, <1>3, <1>4, <1>5, <1>6, <1>7

LEMMA DeadKeeps ==
  ASSUME AllInv, RecvDead \/ SendDead
  PROVE  ConnInv'
<1> USE InvFacts DEF AllInv, ConnInv
<1>1. CASE RecvDead /\ cur \notin sendUsed
  <2>1. cur \in live  BY <1>1 DEF RecvDead, InRecv
  <2>2. pending_recv[cur] = 0 /\ pending_send[cur] = 0
    BY <1>1, <2>1 DEF OverlapSound, Held, Bit, RecvDead, InRecv
  <2>3. /\ remove_client(cur, recvUsed', sendUsed')
        /\ recvUsed' = recvUsed \ {cur} /\ sendUsed' = sendUsed \ {cur}
        /\ step' = "return" /\ pc = "onread" /\ UNCHANGED pulled
    BY <1>1 DEF RecvDead, InRecv
  <2> QED BY <2>1, <2>2, <2>3, RemoveKeeps DEF AppRuns
<1>2. CASE SendDead /\ cur \notin recvUsed
  <2>1. cur \in live  BY <1>2 DEF SendDead, InSend
  <2>2. pending_recv[cur] = 0 /\ pending_send[cur] = 0
    BY <1>2, <2>1 DEF OverlapSound, Held, Bit, SendDead, InSend
  <2>3. /\ remove_client(cur, recvUsed', sendUsed')
        /\ recvUsed' = recvUsed \ {cur} /\ sendUsed' = sendUsed \ {cur}
        /\ step' = "return" /\ pc = "onwrite" /\ UNCHANGED pulled
    BY <1>2 DEF SendDead, InSend
  <2> QED BY <2>1, <2>2, <2>3, RemoveKeeps DEF AppRuns
<1> QED BY <1>1, <1>2, RecvDeadWaits, SendDeadWaits

\* A new connection on a slot the engine has off its list.
LEMMA CreateKeeps ==
  ASSUME AllInv, UserRuns, UNCHANGED cbVars, NEW s \in Socket, connection_create(s)
  PROVE  ConnInv'
<1> USE InvFacts DEF AllInv, ConnInv, cbVars, threadVars, connection_create, OpenSocket,
        InitSocket, UserRuns
<1>1. Handles'  BY DEF Handles
<1>2. s \notin live  BY DEF Handles
<1>3. GoneIdle'  BY DEF GoneIdle, Serving
<1>4. CallbackSteps' /\ StartedFirst'  BY <1>2 DEF CallbackSteps, StartedFirst
<1>5. pc # "out" => cur # s \/ step = "freed"  BY <1>2
<1>6. OverlapSound'  BY <1>5 DEF OverlapSound, Held, Bit
<1>7. NoUseAfterFree' /\ SendCovered'
  BY DEF NoUseAfterFree, SendCovered, InRecv, InSend
<1>8. Attended'  BY DEF Attended
<1> QED BY <1>1, <1>3, <1>4, <1>6, <1>7, <1>8

LEMMA BindKeeps ==
  ASSUME AllInv, UserRuns, UNCHANGED cbVars, NEW s \in Socket, Bind(s)
  PROVE  ConnInv'
<1> USE InvFacts DEF AllInv, ConnInv, connVars, cbVars, threadVars, flagVars, activeVars,
        queueVars, Bind, Bind2Engine, epoll_register
<1>1. Handles'  BY DEF Handles
<1>2. GoneIdle'  BY DEF GoneIdle, Serving
<1>3. CallbackSteps' /\ StartedFirst'  BY DEF CallbackSteps, StartedFirst
<1>4. OverlapSound'  BY DEF OverlapSound, Held, Bit
<1>5. NoUseAfterFree' /\ SendCovered'
  BY DEF NoUseAfterFree, SendCovered, InRecv, InSend
<1>6. Attended'  BY DEF Attended
<1> QED BY <1>1, <1>2, <1>3, <1>4, <1>5, <1>6

\* The first receive request: it was not in use, so it is queued once.
LEMMA StartRecvKeeps ==
  ASSUME AllInv, UserRuns, UNCHANGED cbVars, NEW s \in Socket, connection_start_recv(s)
  PROVE  ConnInv'
<1> USE InvFacts DEF AllInv, ConnInv, cbVars, threadVars, flagVars, activeVars,
        handleVars, kernelVars, connection_start_recv, WSARecv, Activate
<1>1. s \in live /\ s \notin recvUsed  BY DEF StartedFirst
<1>2. Handles'  BY DEF Handles
<1>3. GoneIdle'  BY <1>1 DEF GoneIdle, Serving
<1>4. CallbackSteps' /\ StartedFirst'  BY <1>1 DEF CallbackSteps, StartedFirst
<1>5. OverlapSound'
  <2>1. pending_recv[s] = 0 /\ ~(pc = "onread" /\ Held(s))
    BY <1>1 DEF OverlapSound, Bit
  <2>2. pending_recv' = [pending_recv EXCEPT ![s] = 1]  BY <2>1
  <2> QED BY <1>1, <2>1, <2>2 DEF OverlapSound, Held, Bit
<1>6. NoUseAfterFree' /\ SendCovered'
  BY DEF NoUseAfterFree, SendCovered, InRecv, InSend
<1>7. Attended'
  <2>1. s \in readable => s \in engine  BY <1>1 DEF Handles
  <2> QED BY <1>1, <2>1 DEF Attended
<1> QED BY <1>2, <1>3, <1>4, <1>5, <1>6, <1>7

LEMMA SendCallKeeps ==
  ASSUME AllInv, UserRuns, UNCHANGED cbVars, NEW s \in Socket, NEW n \in {0, 1},
         connection_send(s, n), s \notin sendUsed
  PROVE  ConnInv'
<1> DEFINE m == send_list[s] + n
<1> USE InvFacts DEF AllInv, ConnInv
<1>1. s \in live /\ pending_send[s] = 0 /\ ~(pc = "onwrite" /\ Held(s))
  BY DEF connection_send, OverlapSound, Bit
<1>2. /\ pending_send' = [pending_send EXCEPT ![s] = 1]
      /\ sendUsed' = sendUsed \cup {s}
      /\ UNCHANGED <<live, started, recvUsed, pulled, pending_recv, xfer, step>>
      /\ UNCHANGED <<handleVars, flagVars, ready, threadVars>>
  BY <1>1 DEF connection_send, WSASend, cbVars
<1>3. /\ isactived \subseteq isactived' /\ isactived' \subseteq isactived \cup {s}
      /\ s \in engine /\ s \in writeable => s \in isactived'
  BY DEF connection_send, WSASend, Activate, activeVars
<1> USE <1>1, <1>2, <1>3 DEF handleVars, flagVars, threadVars
<1>4. Handles'  BY DEF Handles
<1>5. GoneIdle'  BY DEF GoneIdle, Serving
<1>6. CallbackSteps' /\ StartedFirst'  BY DEF CallbackSteps, StartedFirst
<1>7. OverlapSound'  BY DEF OverlapSound, Held, Bit
<1>8. NoUseAfterFree'  BY DEF NoUseAfterFree, InRecv, InSend
<1>9. SendCovered'
  <2>1. InSend => cur # s  BY DEF InSend, UserRuns, Held
  <2>2. /\ send_list' = [send_list EXCEPT ![s] = m]
        /\ prepared' = [prepared EXCEPT ![s] = Least(m, MaxWbaf)]
        /\ (InSend' <=> InSend)
    BY DEF InSend, connection_send
  <2>3. m \in Nat /\ MaxWbaf \in Nat  BY ConnectionAssumption
  <2> HIDE DEF m
  <2>4. Least(m, MaxWbaf) \in 0..MaxWbaf /\ Least(m, MaxWbaf) <= m  BY <2>3, LeastType, Zenon
  <2> QED BY <2>1, <2>2, <2>3, <2>4 DEF SendCovered
<1>10. Attended'
  <2>1. s \in writeable => s \in engine  BY DEF Handles
  <2> QED BY <2>1 DEF Attended
<1> QED BY <1>4, <1>5, <1>6, <1>7, <1>8, <1>9, <1>10

\* More units behind a request that is out, or without one.
LEMMA QueueMoreKeeps ==
  ASSUME AllInv,
         UNCHANGED <<vars, cbVars, live, started, recvUsed, sendUsed, prepared, pulled>>,
         NEW s \in Socket, NEW n \in {0, 1},
         send_list' = [send_list EXCEPT ![s] = send_list[s] + n]
  PROVE  ConnInv'
<1> USE InvFacts DEF AllInv, ConnInv, cbVars, vars
<1>1. Handles' /\ GoneIdle'  BY DEF Handles, GoneIdle, Serving
<1>2. CallbackSteps' /\ StartedFirst'  BY DEF CallbackSteps, StartedFirst
<1>3. OverlapSound' /\ Attended'  BY DEF OverlapSound, Held, Bit, Attended
<1>4. NoUseAfterFree'  BY DEF NoUseAfterFree, InRecv, InSend
<1>5. SendCovered'  BY DEF SendCovered, InSend
<1> QED BY <1>1, <1>2, <1>3, <1>4, <1>5

LEMMA UserKeeps == AllInv /\ User => ConnInv'
<1> SUFFICES ASSUME AllInv, User PROVE ConnInv'  OBVIOUS
<1>0. UserRuns /\ AppRuns  BY DEF User, UserRuns, AppRuns
<1> PICK s \in Socket :
      \/ /\ \/ connection_create(s) \/ Bind(s) \/ connection_start_recv(s)
            \/ connection_send(s, 0) \/ connection_send(s, 1)
            \/ connection_push_packet(s)
         /\ UNCHANGED cbVars
      \/ connection_active_close(s)
  BY DEF User
<1>1. CASE (connection_create(s) \/ Bind(s) \/ connection_start_recv(s)) /\ UNCHANGED cbVars
  BY <1>0, <1>1, CreateKeeps, BindKeeps, StartRecvKeeps
<1>2. ASSUME NEW n \in {0, 1}, connection_send(s, n), UNCHANGED cbVars PROVE ConnInv'
  BY <1>0, <1>2, SendCallKeeps, QueueMoreKeeps DEF connection_send
<1>3. CASE connection_push_packet(s) /\ UNCHANGED cbVars
  BY <1>0, <1>3, QueueMoreKeeps DEF connection_push_packet
<1>4. CASE connection_active_close(s)
  BY <1>0, <1>4, RemoveKeeps DEF connection_active_close
<1> QED BY <1>1, <1>2, <1>3, <1>4

LEMMA ConnStep == AllInv /\ [CNext]_cvars => AllInv'
<1> SUFFICES ASSUME AllInv, [CNext]_cvars PROVE AllInv'  OBVIOUS
<1>1. CTypeOK'  BY CTypeStep DEF AllInv
<1>2. ActivedSound' /\ EventsHandled'
  BY StepRefines, ActivedStep, EventsStep DEF AllInv, CTypeOK
<1> SUFFICES ConnInv'  BY <1>1, <1>2 DEF AllInv
<1>3. CASE EngineStep
  BY <1>3, LoopKeeps, PopKeeps, RequeueKeeps, EpollKeeps, EventKeeps
     DEF EngineStep
<1>4. CASE KernelStep  BY <1>4, KernelKeeps
<1>5. CASE Callback
  BY <1>5, PacketKeeps, ReadAgainKeeps, WriteOnKeeps, ReturnKeeps, DeadKeeps
     DEF Callback
<1>6. CASE User  BY <1>6, UserKeeps
<1>7. ASSUME NEW r \in Results, Complete(r) PROVE ConnInv'
  BY <1>7, RecvKeeps, SendKeeps DEF Complete
<1>8. CASE UNCHANGED cvars
  BY <1>8 DEF cvars, vars, connVars, cbVars, AllInv, ConnInv, Handles, GoneIdle, Serving,
     CallbackSteps, StartedFirst, OverlapSound, Held, NoUseAfterFree, Attended,
     SendCovered, InRecv, InSend
<1> QED BY <1>3, <1>4, <1>5, <1>6, <1>7, <1>8 DEF CNext

LEMMA ConnInvariant == CSpec => []AllInv
<1>1. CInit => AllInv
  <2> SUFFICES ASSUME CInit PROVE AllInv  OBVIOUS
  <2>1. CTypeOK
    BY ReactorAssumption, ConnectionAssumption
       DEF CInit, CTypeOK, Init, TypeOK, PeerStates, Points, Results, EAGAIN
  <2>2. ActivedSound /\ EventsHandled
    BY DEF CInit, Init, ActivedSound, Elems, NoRepeat, EventsHandled
  <2>3. ConnInv
    BY DEF CInit, Init, ConnInv, Handles, GoneIdle, CallbackSteps, StartedFirst,
       OverlapSound, NoUseAfterFree, Attended, SendCovered, InRecv, InSend
  <2> QED BY <2>1, <2>2, <2>3 DEF AllInv
<1> QED BY <1>1, ConnStep, PTL DEF CSpec

-----------------------------------------------------------------------------
(* The theorems.                                                           *)

\* isUsed of recv_overlap and send_overlap tells connection_destroy the truth:
\* a request in use is queued once or held by its callback, an idle one is in
\* neither place.
THEOREM OverlapsAlwaysSound == CSpec => []OverlapSound
<1>1. AllInv => OverlapSound  BY DEF AllInv, ConnInv
<1> QED BY <1>1, ConnInvariant, PTL

\* RecvFinish and SendFinish run on a connection that connection_destroy has
\* freed only if the application called connection_active_close on it while the
\* engine was serving it or had it on the active list.
THEOREM NeverUsedAfterFree == CSpec => []NoUseAfterFree
<1>1. AllInv => NoUseAfterFree  BY DEF AllInv, ConnInv
<1> QED BY <1>1, ConnInvariant, PTL

\* update_send_list never runs out of packets: its assert(w) holds.
THEOREM SendListAlwaysCovers == CSpec => []SendListCovers
<1>1. AllInv => SendListCovers
  BY InvFacts DEF AllInv, ConnInv, SendCovered, SendListCovers
<1> QED BY <1>1, ConnInvariant, PTL

\* A queued request on a ready socket always has the engine's attention: the
\* cached flags lag behind the kernel only while an edge is under way, which is
\* what is proved of Reactor, and a raised flag comes with a place on the list.
THEOREM NeverStranded == CSpec => []NotStranded
<1>1. AllInv /\ ReadinessNotLost => NotStranded
  BY DEF AllInv, ConnInv, Attended, ReadinessNotLost, NotStranded
<1> QED BY <1>1, ConnInvariant, ConnectionImplements, ReadinessNeverLost, PTL
=============================================================================

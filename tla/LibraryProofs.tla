---------------------------- MODULE LibraryProofs ----------------------------
(***************************************************************************)
(* The handle table, the intrusive list, the doubly linked list, the hash  *)
(* map and the heap, for any number of slots, descriptors, nodes, lists,   *)
(* values, keys and elements.                                              *)
(***************************************************************************)
EXTENDS SocketTable, LinkList, DList, HashMap, MinHeap, SeqLemmas

-----------------------------------------------------------------------------
(* SocketWrapper.c, HandleMgr.c.  The handle table.  The strengthening:    *)
(* slots past current_socket_count are free, so that a handle handed out is*)
(* never one in use; a handle in use has a number the kernel gave out;     *)
(* callers hold, have closed and forgotten only handles in use, and so have*)
(* been the victims of stray closes.                                       *)

TableTypes ==
  /\ sock_pool \in [status : [Handle -> {0, 1}], fd : [Handle -> Nat],
                    count : 0..MAX_SOCKET]
  /\ fd_owner \in [Fd -> Handle \cup {NoHandle}]

TableInv ==
  /\ TableTypes
  /\ \A h \in InUse : h < sock_pool.count /\ sock_pool.fd[h] \in Fd
  /\ held \subseteq InUse /\ closed \subseteq InUse /\ robbed \subseteq InUse
  /\ forgotten \subseteq InUse \cap {0} /\ held \cap forgotten = {}
  /\ OwnDescriptor /\ DescriptorsHeld

LEMMA TableFacts ==
  ASSUME TableInv
  PROVE  /\ sock_pool.status \in [Handle -> {0, 1}] /\ sock_pool.fd \in [Handle -> Nat]
         /\ sock_pool.count \in Nat /\ fd_owner \in [Fd -> Handle \cup {NoHandle}]
         /\ InUse \subseteq Handle /\ Handle \subseteq Nat
         /\ \A h \in InUse : h < sock_pool.count /\ sock_pool.fd[h] \in Fd
         /\ \A f \in Fd : fd_owner[f] # NoHandle =>
              /\ fd_owner[f] \in held \cup (forgotten \cap {0})
              /\ fd_owner[f] \in InUse /\ sock_pool.fd[fd_owner[f]] = f
<1>1. /\ sock_pool.status \in [Handle -> {0, 1}] /\ sock_pool.fd \in [Handle -> Nat]
      /\ sock_pool.count \in Nat /\ fd_owner \in [Fd -> Handle \cup {NoHandle}]
  BY TableAssumption DEF TableInv, TableTypes
<1>2. InUse \subseteq Handle  BY DEF InUse
<1>3. Handle \subseteq Nat  BY TableAssumption DEF Handle
<1>4. held \subseteq InUse /\ forgotten \subseteq InUse  BY DEF TableInv
<1>5. \A h \in InUse : h < sock_pool.count /\ sock_pool.fd[h] \in Fd  BY DEF TableInv
<1>6. DescriptorsHeld  BY DEF TableInv
<1> QED BY <1>1, <1>2, <1>3, <1>4, <1>5, <1>6 DEF DescriptorsHeld

LEMMA LowestFree ==
  ASSUME FreeFds # {}
  PROVE  lowest_fd \in Fd /\ fd_owner[lowest_fd] = NoHandle
<1>1. FreeFds \in SUBSET Nat  BY TableAssumption DEF FreeFds, Fd
<1>2. \E f \in FreeFds : \A g \in FreeFds : f <= g  BY <1>1, LeastElement
<1>3. lowest_fd \in FreeFds  BY <1>2 DEF lowest_fd
<1> QED BY <1>3 DEF FreeFds

\* NewSocketWrapper returns a slot that is not in use and marks it, or none.
LEMMA NewHandle ==
  ASSUME TableInv, NewSocketWrapper.handle # NoHandle
  PROVE  /\ NewSocketWrapper.handle \in Handle \ InUse
         /\ NewSocketWrapper.pool.fd = sock_pool.fd
         /\ NewSocketWrapper.pool.status
              = [sock_pool.status EXCEPT ![NewSocketWrapper.handle] = 1]
         /\ NewSocketWrapper.pool.count \in sock_pool.count..MAX_SOCKET
         /\ NewSocketWrapper.handle < NewSocketWrapper.pool.count
         /\ NewSocketWrapper.pool = [status |-> NewSocketWrapper.pool.status,
                                     fd     |-> NewSocketWrapper.pool.fd,
                                     count  |-> NewSocketWrapper.pool.count]
<1> DEFINE free == {h \in 0 .. sock_pool.count - 1 : sock_pool.status[h] = 0}
           low  == CHOOSE x \in free : \A y \in free : x <= y
           new  == IF free # {} THEN low
                   ELSE IF sock_pool.count < MAX_SOCKET THEN sock_pool.count ELSE NoHandle
           pool == [status |-> [sock_pool.status EXCEPT ![new] = 1], fd |-> sock_pool.fd,
                    count |-> IF new = sock_pool.count THEN new + 1 ELSE sock_pool.count]
<1>1. NewSocketWrapper.handle = new  BY DEF NewSocketWrapper
<1>2. NewSocketWrapper.pool = pool  BY <1>1 DEF NewSocketWrapper
<1>3. /\ sock_pool.count \in 0..MAX_SOCKET /\ sock_pool.status \in [Handle -> {0, 1}]
      /\ \A h \in InUse : h < sock_pool.count
  BY DEF TableInv, TableTypes
<1>4. free # {} => low \in free
  <2>1. free \in SUBSET Nat  BY <1>3
  <2> QED BY <2>1, LeastElement
<1>5. /\ new \in Handle \ InUse
      /\ new < sock_pool.count \/ (new = sock_pool.count /\ new < MAX_SOCKET)
  <2> HIDE DEF low
  <2>1. CASE free # {}
    BY <1>3, <1>4, <2>1, TableAssumption DEF Handle, InUse
  <2>2. CASE free = {}
    BY <1>1, <1>3, <2>2, TableAssumption DEF Handle, InUse
  <2> QED BY <2>1, <2>2
<1> HIDE DEF new
<1>6. /\ pool.fd = sock_pool.fd /\ pool.status = [sock_pool.status EXCEPT ![new] = 1]
      /\ pool.count = IF new = sock_pool.count THEN new + 1 ELSE sock_pool.count
      /\ pool = [status |-> pool.status, fd |-> pool.fd, count |-> pool.count]
  OBVIOUS
<1>7. pool.count \in sock_pool.count..MAX_SOCKET /\ new < pool.count
  BY <1>3, <1>5, <1>6, TableAssumption DEF Handle
<1> HIDE DEF pool
<1> QED BY <1>1, <1>2, <1>5, <1>6, <1>7

\* A new handle for the lowest free descriptor: what the table is afterwards.
LEMMA Opened ==
  ASSUME TableInv, FreeFds # {}, NewSocketWrapper.handle # NoHandle,
         sock_pool' = [NewSocketWrapper.pool EXCEPT
                         !.fd[NewSocketWrapper.handle] = lowest_fd]
  PROVE  \E n \in Handle \ InUse, f \in Fd :
           /\ n = NewSocketWrapper.handle /\ f = lowest_fd /\ fd_owner[f] = NoHandle
           /\ sock_pool'.status = [sock_pool.status EXCEPT ![n] = 1]
           /\ sock_pool'.fd = [sock_pool.fd EXCEPT ![n] = f]
           /\ sock_pool'.count \in sock_pool.count..MAX_SOCKET /\ n < sock_pool'.count
           /\ sock_pool' \in [status : [Handle -> {0, 1}], fd : [Handle -> Nat],
                              count : 0..MAX_SOCKET]
<1> DEFINE n == NewSocketWrapper.handle
           p == NewSocketWrapper.pool
<1>1. /\ n \in Handle \ InUse /\ p.fd = sock_pool.fd
      /\ p.status = [sock_pool.status EXCEPT ![n] = 1]
      /\ p.count \in sock_pool.count..MAX_SOCKET /\ n < p.count
      /\ p = [status |-> p.status, fd |-> p.fd, count |-> p.count]
  BY NewHandle
<1>2. lowest_fd \in Fd /\ fd_owner[lowest_fd] = NoHandle  BY LowestFree
<1>3. sock_pool' = [p EXCEPT !.fd[n] = lowest_fd]  OBVIOUS
<1> HIDE DEF n, p
<1>4. sock_pool' = [status |-> p.status, fd |-> [p.fd EXCEPT ![n] = lowest_fd],
                    count |-> p.count]
  BY <1>1, <1>3
<1>5. sock_pool' \in [status : [Handle -> {0, 1}], fd : [Handle -> Nat],
                      count : 0..MAX_SOCKET]
  <2>1. /\ sock_pool.status \in [Handle -> {0, 1}] /\ sock_pool.fd \in [Handle -> Nat]
        /\ sock_pool.count \in 0..MAX_SOCKET
    BY DEF TableInv, TableTypes
  <2>2. lowest_fd \in Nat  BY <1>2, TableAssumption DEF Fd
  <2>3. p.status \in [Handle -> {0, 1}]  BY <1>1, <2>1
  <2>4. [p.fd EXCEPT ![n] = lowest_fd] \in [Handle -> Nat]  BY <1>1, <2>1, <2>2
  <2>5. p.count \in 0..MAX_SOCKET  BY <1>1, <2>1, TableAssumption
  <2> QED BY <1>4, <2>3, <2>4, <2>5
<1>6. /\ sock_pool'.status = p.status /\ sock_pool'.fd = [p.fd EXCEPT ![n] = lowest_fd]
      /\ sock_pool'.count = p.count
  BY <1>4
<1>7. n = NewSocketWrapper.handle  BY DEF n
<1> QED BY <1>1, <1>2, <1>5, <1>6, <1>7

LEMMA OpenStep ==
  ASSUME TableInv, NEW lost \in SUBSET {0}, OpenSocket(lost)
  PROVE  TableInv'
<1> USE TableAssumption DEF TableInv
<1>1. CASE UNCHANGED svars
  BY <1>1 DEF svars, TableTypes, InUse, OwnDescriptor, DescriptorsHeld
<1>2. CASE NewSocketWrapper.handle # NoHandle
  <2>1. PICK n \in Handle \ InUse, f \in Fd :
          /\ n = NewSocketWrapper.handle /\ f = lowest_fd /\ fd_owner[f] = NoHandle
          /\ sock_pool'.status = [sock_pool.status EXCEPT ![n] = 1]
          /\ sock_pool'.fd = [sock_pool.fd EXCEPT ![n] = f]
          /\ sock_pool'.count \in sock_pool.count..MAX_SOCKET /\ n < sock_pool'.count
          /\ sock_pool' \in [status : [Handle -> {0, 1}], fd : [Handle -> Nat],
                             count : 0..MAX_SOCKET]
    BY <1>2, Opened DEF OpenSocket
  <2>2. /\ fd_owner' = [fd_owner EXCEPT ![f] = n] /\ held' = held \cup ({n} \ lost)
        /\ closed' = closed \ {n} /\ robbed' = robbed
        /\ forgotten' = forgotten \cup ({n} \cap lost)
    BY <1>2, <2>1 DEF OpenSocket
  <2>3. InUse' = InUse \cup {n}  BY <2>1, TableFacts DEF InUse
  <2>a. n \notin closed \cup robbed \cup held \cup forgotten  BY <2>1
  <2> HIDE DEF TableInv
  <2>4. TableTypes'  BY <2>1, <2>2, TableFacts DEF TableTypes
  <2>b. \A h \in InUse : h # n /\ sock_pool'.fd[h] = sock_pool.fd[h]  BY <2>1, TableFacts
  <2>c. sock_pool'.fd[n] = f  BY <2>1, TableFacts
  <2>5. \A h \in InUse' : h < sock_pool'.count /\ sock_pool'.fd[h] \in Fd
    <3>1. ASSUME NEW h \in InUse PROVE h < sock_pool'.count
      <4>1. h \in Nat /\ h < sock_pool.count /\ sock_pool.count \in Nat  BY TableFacts
      <4>2. sock_pool'.count \in sock_pool.count..MAX_SOCKET  BY <2>1
      <4> QED BY <4>1, <4>2
    <3> QED BY <2>1, <2>3, <2>b, <2>c, <3>1, TableFacts
  <2>6. OwnDescriptor'
    <3> SUFFICES ASSUME NEW h \in InUse' \ (closed' \cup robbed')
                 PROVE  fd_owner'[sock_pool'.fd[h]] = h
      BY DEF OwnDescriptor
    <3>1. CASE h = n  BY <2>1, <2>2, <2>c, <3>1, TableFacts
    <3>2. CASE h # n
      <4>1. h \in InUse \ (closed \cup robbed)  BY <2>2, <2>3, <3>2
      <4>2. fd_owner[sock_pool.fd[h]] = h  BY <4>1 DEF TableInv, OwnDescriptor
      <4>3. h # NoHandle  BY <4>1, TableFacts DEF NoHandle
      <4>4. sock_pool.fd[h] # f /\ sock_pool.fd[h] \in Fd
        BY <2>1, <4>1, <4>2, <4>3, TableFacts
      <4> QED BY <2>1, <2>2, <2>b, <4>1, <4>2, <4>4, TableFacts
    <3> QED BY <3>1, <3>2
  <2>7. DescriptorsHeld'
    <3> SUFFICES ASSUME NEW g \in Fd, fd_owner'[g] # NoHandle
                 PROVE  /\ fd_owner'[g] \in held' \cup (forgotten' \cap {0})
                        /\ sock_pool'.fd[fd_owner'[g]] = g
      BY DEF DescriptorsHeld
    <3>1. CASE g = f
      <4>1. fd_owner'[g] = n /\ n \in held' \cup forgotten'  BY <2>2, <3>1, TableFacts
      <4>2. n \in forgotten' => n = 0  BY <2>2, <2>a
      <4> QED BY <2>c, <3>1, <4>1, <4>2
    <3>2. CASE g # f
      <4>1. fd_owner'[g] = fd_owner[g]  BY <2>2, <3>2, TableFacts
      <4>2. /\ fd_owner[g] \in held \cup (forgotten \cap {0})
            /\ fd_owner[g] \in InUse /\ sock_pool.fd[fd_owner[g]] = g
        BY <4>1, TableFacts
      <4> QED BY <2>2, <2>b, <4>1, <4>2
    <3> QED BY <3>1, <3>2
  <2>8. /\ held \subseteq InUse /\ closed \subseteq InUse /\ robbed \subseteq InUse
        /\ forgotten \subseteq InUse \cap {0} /\ held \cap forgotten = {}
    BY DEF TableInv
  <2>9. /\ held' \subseteq InUse' /\ closed' \subseteq InUse' /\ robbed' \subseteq InUse'
        /\ forgotten' \subseteq InUse' \cap {0} /\ held' \cap forgotten' = {}
    BY <2>2, <2>3, <2>a, <2>8
  <2> QED BY <2>4, <2>5, <2>6, <2>7, <2>9 DEF TableInv
<1> QED BY <1>1, <1>2 DEF OpenSocket, svars

LEMMA FailStep ==
  ASSUME TableInv, OpenThenFail
  PROVE  TableInv'
<1> USE TableAssumption DEF TableInv
<1>1. PICK n \in Handle \ InUse, f \in Fd :
        /\ n = NewSocketWrapper.handle /\ f = lowest_fd /\ fd_owner[f] = NoHandle
        /\ sock_pool'.status = [sock_pool.status EXCEPT ![n] = 1]
        /\ sock_pool'.fd = [sock_pool.fd EXCEPT ![n] = f]
        /\ sock_pool'.count \in sock_pool.count..MAX_SOCKET /\ n < sock_pool'.count
        /\ sock_pool' \in [status : [Handle -> {0, 1}], fd : [Handle -> Nat],
                           count : 0..MAX_SOCKET]
  BY Opened DEF OpenThenFail
<1>2. closed' = closed \cup {n} /\ UNCHANGED <<fd_owner, held, robbed, forgotten>>
  BY <1>1 DEF OpenThenFail
<1> HIDE DEF TableInv
<1>3. InUse' = InUse \cup {n}  BY <1>1, TableFacts DEF InUse
<1>4. TableTypes'  BY <1>1, <1>2, TableFacts DEF TableTypes
<1>5. ASSUME NEW h \in InUse' PROVE h < sock_pool'.count /\ sock_pool'.fd[h] \in Fd
  <2>1. CASE h = n  BY <1>1, <2>1, TableFacts
  <2>2. CASE h \in InUse /\ h # n
    <3>1. h \in Handle /\ h \in Nat /\ h < sock_pool.count /\ sock_pool.fd[h] \in Fd
      BY <2>2, TableFacts
    <3>2. sock_pool'.fd[h] = sock_pool.fd[h]  BY <1>1, <2>2, <3>1, TableFacts
    <3>3. sock_pool.count \in Nat /\ sock_pool'.count \in sock_pool.count..MAX_SOCKET
      BY <1>1, TableFacts
    <3> QED BY <3>1, <3>2, <3>3
  <2> QED BY <1>3, <1>5, <2>1, <2>2
<1>6. OwnDescriptor'
  <2>1. \A h \in InUse \ (closed \cup robbed) : fd_owner[sock_pool.fd[h]] = h
    BY DEF TableInv, OwnDescriptor
  <2>2. \A h \in InUse : h # n => sock_pool'.fd[h] = sock_pool.fd[h]
    BY <1>1, TableFacts
  <2> QED BY <1>1, <1>2, <1>3, <2>1, <2>2 DEF OwnDescriptor
<1>7. DescriptorsHeld'
  <2> SUFFICES ASSUME NEW g \in Fd, fd_owner[g] # NoHandle
               PROVE  /\ fd_owner[g] \in held \cup (forgotten \cap {0})
                      /\ sock_pool'.fd[fd_owner[g]] = g
    BY <1>2 DEF DescriptorsHeld
  <2>1. /\ fd_owner[g] \in held \cup (forgotten \cap {0})
        /\ fd_owner[g] \in InUse /\ sock_pool.fd[fd_owner[g]] = g
    BY TableFacts
  <2>2. sock_pool'.fd[fd_owner[g]] = sock_pool.fd[fd_owner[g]]  BY <1>1, <2>1, TableFacts
  <2> QED BY <2>1, <2>2
<1> QED BY <1>2, <1>3, <1>4, <1>5, <1>6, <1>7 DEF TableInv

LEMMA CloseStep ==
  ASSUME TableInv, NEW h \in Handle, CloseSocket(h) \/ ReleaseSocketWrapper(h)
  PROVE  TableInv'
<1> USE TableAssumption DEF TableInv
<1> DEFINE f == sock_pool.fd[h]
<1>1. h \in InUse /\ f \in Fd  BY DEF CloseSocket, ReleaseSocketWrapper
<1>2. fd_owner' = [fd_owner EXCEPT ![f] = NoHandle]
  BY DEF CloseSocket, ReleaseSocketWrapper, Close
<1>a. Victims(h) \subseteq InUse /\ robbed \subseteq Victims(h)
  <2>1. fd_owner[f] # NoHandle => fd_owner[f] \in InUse  BY <1>1 DEF DescriptorsHeld
  <2> QED BY <2>1 DEF Victims
\* A handle with this number that was neither closed nor a victim is one now.
<1>3. ASSUME NEW g \in InUse \ (closed \cup Victims(h)), g # h
      PROVE  sock_pool.fd[g] # f
  <2>1. fd_owner[sock_pool.fd[g]] = g  BY <1>a, <1>3 DEF OwnDescriptor
  <2>2. g \in Handle /\ g # NoHandle  BY <1>3 DEF InUse, Handle, NoHandle
  <2>3. CASE h \in closed \cup robbed
    BY <1>3, <2>1, <2>2, <2>3 DEF Victims
  <2>4. CASE h \notin closed \cup robbed
    <3>1. fd_owner[f] = h  BY <1>1, <2>4 DEF OwnDescriptor
    <3> QED BY <1>3, <2>1, <3>1
  <2> QED BY <2>3, <2>4
<1>4. CASE CloseSocket(h)
  <2>1. /\ closed' = closed \cup {h} /\ robbed' = Victims(h)
        /\ UNCHANGED <<sock_pool, held, forgotten>>
    BY <1>4 DEF CloseSocket
  <2>2. InUse' = InUse  BY <2>1 DEF InUse
  <2>3. TableTypes'  BY <1>1, <1>2, <2>1 DEF TableTypes
  <2>4. ASSUME NEW g \in InUse' \ (closed' \cup robbed')
        PROVE  fd_owner'[sock_pool'.fd[g]] = g
    <3>1. /\ g \in InUse \ (closed \cup Victims(h)) /\ g # h /\ sock_pool'.fd[g] = sock_pool.fd[g]
          /\ fd_owner[sock_pool.fd[g]] = g /\ sock_pool.fd[g] \in Fd
      BY <1>a, <2>1, <2>2 DEF OwnDescriptor
    <3>2. sock_pool.fd[g] # f  BY <1>3, <3>1
    <3> HIDE DEF f
    <3> QED BY <1>2, <3>1, <3>2 DEF TableTypes
  <2>5. DescriptorsHeld'
    BY <1>1, <1>2, <2>1, <2>2 DEF DescriptorsHeld, TableTypes
  <2> QED BY <1>1, <1>a, <2>1, <2>2, <2>3, <2>4, <2>5 DEF OwnDescriptor
<1>5. CASE ReleaseSocketWrapper(h)
  <2>1. /\ sock_pool' = [sock_pool EXCEPT !.status[h] = 0]
        /\ held' = held \ {h} /\ closed' = closed \ {h}
        /\ robbed' = Victims(h) \ {h} /\ UNCHANGED forgotten /\ h \in held
    BY <1>5 DEF ReleaseSocketWrapper
  <2>2. /\ sock_pool'.status = [sock_pool.status EXCEPT ![h] = 0]
        /\ sock_pool'.fd = sock_pool.fd /\ sock_pool'.count = sock_pool.count
        /\ sock_pool' \in [status : [Handle -> {0, 1}], fd : [Handle -> Nat],
                           count : 0..MAX_SOCKET]
    BY <2>1 DEF TableTypes
  <2>3. InUse' = InUse \ {h}  BY <2>2 DEF InUse, TableTypes
  <2>4. TableTypes'  BY <1>1, <1>2, <2>2 DEF TableTypes
  <2>5. ASSUME NEW g \in InUse' \ (closed' \cup robbed')
        PROVE  fd_owner'[sock_pool'.fd[g]] = g
    <3>1. /\ g \in InUse \ (closed \cup Victims(h)) /\ g # h /\ sock_pool'.fd[g] = sock_pool.fd[g]
          /\ fd_owner[sock_pool.fd[g]] = g /\ sock_pool.fd[g] \in Fd
      BY <1>a, <2>1, <2>2, <2>3 DEF OwnDescriptor
    <3>2. sock_pool.fd[g] # f  BY <1>3, <3>1
    <3> HIDE DEF f
    <3> QED BY <1>2, <3>1, <3>2 DEF TableTypes
  <2>6. DescriptorsHeld'
    BY <1>1, <1>2, <2>1, <2>2 DEF DescriptorsHeld, TableTypes
  <2>7. /\ held' \subseteq InUse' /\ closed' \subseteq InUse' /\ robbed' \subseteq InUse'
        /\ forgotten' \subseteq InUse' /\ held' \cap forgotten' = {}
    BY <1>a, <2>1, <2>3
  <2> QED BY <2>1, <2>2, <2>3, <2>4, <2>5, <2>6, <2>7 DEF OwnDescriptor
<1> QED BY <1>4, <1>5

\* Handles and descriptors stay in step for any sizes of the table and of the
\* process's descriptor table: OpenSocket, Tcp_Connect, Tcp_Listen, CloseSocket
\* and ReleaseSocketWrapper lose no descriptor but the one of the handle 0 that
\* Tcp_Connect takes for a failure, and a handle that was not closed has its own
\* unless a stray second close took it.
THEOREM TableAlwaysSound == SocketSpec => []TableSound
<1>1. InitHandleMgr => TableInv
  <2> SUFFICES ASSUME InitHandleMgr PROVE TableInv  OBVIOUS
  <2>1. TableTypes
    <3>1. 0 \in 0..MAX_SOCKET  BY TableAssumption
    <3> QED BY <3>1 DEF InitHandleMgr, TableTypes
  <2>2. InUse = {}  BY DEF InitHandleMgr, InUse
  <2>3. DescriptorsHeld  BY DEF InitHandleMgr, DescriptorsHeld
  <2> QED BY <2>1, <2>2, <2>3 DEF InitHandleMgr, TableInv, OwnDescriptor
<1>2. TableInv /\ [SocketNext]_svars => TableInv'
  <2> SUFFICES ASSUME TableInv, [SocketNext]_svars PROVE TableInv'  OBVIOUS
  <2>1. CASE UNCHANGED svars
    BY <2>1 DEF TableInv, svars, TableTypes, InUse, OwnDescriptor, DescriptorsHeld
  <2> QED BY <2>1, OpenStep, FailStep, CloseStep DEF SocketNext, Tcp_Connect, Tcp_Listen
<1>3. TableInv => TableSound  BY DEF TableInv, TableSound
<1> QED BY <1>1, <1>2, <1>3, PTL DEF SocketSpec

-----------------------------------------------------------------------------
(* link_list.c.  Every list is the sequence of the nodes pushed to it: head,*)
(* tail and size are those of the sequence and next leads through it.      *)

Links(next, s) == \A k \in 1..Len(s) : next[s[k]] = IF k = Len(s) THEN 0 ELSE s[k + 1]

\* The list with head h, tail t and size z is the sequence s.
IsList(h, t, z, next, s) ==
  /\ h = IF s = <<>> THEN 0 ELSE s[1]
  /\ t = IF s = <<>> THEN 0 ELSE s[Len(s)]
  /\ z = Len(s) /\ NoRepeat(s) /\ Links(next, s)

LEMMA ListFrame ==
  ASSUME NEW s \in Seq(ListNode), NEW h, NEW t, NEW z, NEW next, NEW next2,
         IsList(h, t, z, next, s), \A n \in Elems(s) : next2[n] = next[n]
  PROVE  IsList(h, t, z, next2, s)
<1>1. \A k \in 1..Len(s) : s[k] \in Elems(s)  BY DEF Elems
<1>2. Links(next2, s)  BY <1>1 DEF Links, IsList
<1> QED BY <1>2 DEF IsList

LEMMA ListEmpty ==
  ASSUME NEW next
  PROVE  IsList(0, 0, 0, next, <<>>)
BY DEF IsList, Links, NoRepeat

LEMMA ListAppend ==
  ASSUME NEW s \in Seq(ListNode), NEW h, NEW t, NEW z, NEW next \in [ListNode -> Nat],
         IsList(h, t, z, next, s), NEW n \in ListNode, n \notin Elems(s), next[n] = 0,
         NEW next2, next2 = IF s = <<>> THEN next ELSE [next EXCEPT ![t] = n]
  PROVE  IsList(IF s = <<>> THEN n ELSE h, n, z + 1, next2, Append(s, n))
<1> DEFINE m == Len(s)
           u == Append(s, n)
<1>1. /\ u \in Seq(ListNode) /\ Len(u) = m + 1 /\ m \in Nat /\ u[m + 1] = n
      /\ \A k \in 1..m : u[k] = s[k] /\ s[k] \in ListNode
  OBVIOUS
<1>2. NoRepeat(u)  BY ElemsPut DEF IsList
<1>3. s = <<>> <=> m = 0  OBVIOUS
<1>4. m # 0 => t = s[m] /\ h = s[1]  BY <1>3 DEF IsList
<1>5. z = m /\ NoRepeat(s) /\ Links(next, s)  BY DEF IsList
<1>6. \A k \in 1..m : s[k] # n  BY DEF Elems
<1> HIDE DEF m, u
<1>7. next2[n] = 0
  <2>1. CASE m = 0  BY <1>3, <2>1
  <2>2. CASE m # 0
    <3>1. t # n /\ next2 = [next EXCEPT ![t] = n]  BY <1>1, <1>3, <1>4, <1>6, <2>2
    <3> QED BY <3>1
  <2> QED BY <2>1, <2>2
<1>8. ASSUME NEW k \in 1..m PROVE next2[s[k]] = u[k + 1]
  <2>1. m # 0 /\ t = s[m] /\ next2 = [next EXCEPT ![t] = n]  BY <1>1, <1>3, <1>4
  <2>2. s[k] \in ListNode /\ m \in 1..m  BY <1>1
  <2>3. CASE k = m  BY <1>1, <2>1, <2>2, <2>3
  <2>4. CASE k # m
    <3>1. s[k] # s[m]  BY <1>5, <2>2, <2>4 DEF NoRepeat, m
    <3>2. k + 1 \in 1..m  BY <1>1, <2>4
    <3>3. next[s[k]] = s[k + 1]  BY <1>5, <2>4 DEF Links, m
    <3> QED BY <1>1, <2>1, <2>2, <3>1, <3>2, <3>3
  <2> QED BY <2>3, <2>4
<1>9. ASSUME NEW k \in 1..Len(u)
      PROVE  next2[u[k]] = IF k = Len(u) THEN 0 ELSE u[k + 1]
  <2>1. k \in 1..m \/ k = m + 1  BY <1>1
  <2>2. CASE k = m + 1  BY <1>1, <1>7, <2>2
  <2>3. CASE k \in 1..m
    <3>1. k # Len(u) /\ u[k] = s[k]  BY <1>1, <2>3
    <3> QED BY <1>8, <2>3, <3>1
  <2> QED BY <2>1, <2>2, <2>3
<1>10. Links(next2, u)  BY <1>9 DEF Links
<1>11. u # <<>> /\ u[1] = IF s = <<>> THEN n ELSE h  BY <1>1, <1>3, <1>4
<1> QED BY <1>1, <1>2, <1>5, <1>10, <1>11 DEF IsList, u

LEMMA ListCat ==
  ASSUME NEW s \in Seq(ListNode), NEW h, NEW t, NEW z, NEW next \in [ListNode -> Nat],
         IsList(h, t, z, next, s),
         NEW r \in Seq(ListNode), NEW h1, NEW t1, NEW z1, IsList(h1, t1, z1, next, r),
         r # <<>>, Elems(s) \cap Elems(r) = {},
         NEW next2, next2 = IF s = <<>> THEN next ELSE [next EXCEPT ![t] = h1]
  PROVE  IsList(IF s = <<>> THEN h1 ELSE h, t1, z + z1, next2, s \o r)
<1> DEFINE m == Len(s)
           p == Len(r)
           u == s \o r
<1>1. /\ u \in Seq(ListNode) /\ Len(u) = m + p /\ m \in Nat /\ p \in Nat \ {0}
      /\ \A k \in 1..m : u[k] = s[k] /\ s[k] \in ListNode
      /\ \A k \in 1..p : u[m + k] = r[k] /\ r[k] \in ListNode
  OBVIOUS
<1>2. NoRepeat(u)  BY ElemsCat DEF IsList
<1>3. s = <<>> <=> m = 0  OBVIOUS
<1>4. m # 0 => t = s[m] /\ h = s[1]  BY <1>3 DEF IsList
<1>5. /\ z = m /\ NoRepeat(s) /\ Links(next, s)
      /\ z1 = p /\ NoRepeat(r) /\ Links(next, r) /\ h1 = r[1] /\ t1 = r[p]
  BY DEF IsList
<1>6. \A k \in 1..m, j \in 1..p : s[k] # r[j]  BY DEF Elems
<1> HIDE DEF m, p, u
<1>7. ASSUME NEW j \in 1..p PROVE next2[r[j]] = next[r[j]]
  <2>1. CASE m = 0  BY <1>3, <2>1
  <2>2. CASE m # 0
    <3>1. m \in 1..m /\ t = s[m]  BY <1>1, <1>4, <2>2
    <3>2. t # r[j] /\ next2 = [next EXCEPT ![t] = h1]  BY <1>3, <1>6, <2>2, <3>1
    <3> QED BY <1>1, <3>2
  <2> QED BY <2>1, <2>2
<1>8. ASSUME NEW k \in 1..m PROVE next2[s[k]] = u[k + 1]
  <2>1. m # 0 /\ t = s[m] /\ next2 = [next EXCEPT ![t] = h1]  BY <1>1, <1>3, <1>4
  <2>2. s[k] \in ListNode /\ m \in 1..m  BY <1>1
  <2>3. CASE k = m
    <3>1. u[m + 1] = r[1]  BY <1>1
    <3> QED BY <1>5, <2>1, <2>2, <2>3, <3>1
  <2>4. CASE k # m
    <3>1. s[k] # s[m]  BY <1>5, <2>2, <2>4 DEF NoRepeat, m
    <3>2. k + 1 \in 1..m  BY <1>1, <2>4
    <3>3. next[s[k]] = s[k + 1]  BY <1>5, <2>4 DEF Links, m
    <3> QED BY <1>1, <2>1, <2>2, <3>1, <3>2, <3>3
  <2> QED BY <2>3, <2>4
<1>9. ASSUME NEW k \in 1..Len(u)
      PROVE  next2[u[k]] = IF k = Len(u) THEN 0 ELSE u[k + 1]
  <2>1. CASE k \in 1..m
    <3>1. k # Len(u)  BY <1>1, <2>1
    <3> QED BY <1>1, <1>8, <2>1, <3>1
  <2>2. CASE k \notin 1..m
    <3> DEFINE j == k - m
    <3>1. j \in 1..p /\ k = m + j /\ (k = Len(u) <=> j = p)  BY <1>1, <2>2
    <3> HIDE DEF j
    <3>2. u[k] = r[j]  BY <1>1, <3>1
    <3>3. next[r[j]] = IF j = p THEN 0 ELSE r[j + 1]  BY <1>5, <3>1 DEF Links, p
    <3>4. j # p => j + 1 \in 1..p /\ k + 1 = m + (j + 1)  BY <1>1, <3>1
    <3>5. j # p => u[m + (j + 1)] = r[j + 1]
      <4> DEFINE i == j + 1
      <4>1. j # p => i \in 1..p  BY <3>4
      <4> HIDE DEF i
      <4>2. j # p => u[m + i] = r[i]  BY <1>1, <4>1
      <4> QED BY <4>2 DEF i
    <3> QED BY <1>7, <3>1, <3>2, <3>3, <3>4, <3>5
  <2> QED BY <2>1, <2>2
<1>10. Links(next2, u)  BY <1>9 DEF Links
<1>11. u # <<>> /\ u[1] = IF s = <<>> THEN h1 ELSE h
  <2>1. u # <<>>  BY <1>1
  <2>2. CASE m = 0
    <3>1. u[0 + 1] = r[1]  BY <1>1, <2>2
    <3> QED BY <1>3, <1>5, <2>1, <2>2, <3>1
  <2>3. CASE m # 0  BY <1>1, <1>3, <1>4, <2>1, <2>3
  <2> QED BY <2>2, <2>3
<1>12. u[Len(u)] = t1  BY <1>1, <1>5
<1> QED BY <1>1, <1>2, <1>5, <1>10, <1>11, <1>12 DEF IsList, u

\* A list of one node.
LEMMA ListOne ==
  ASSUME NEW n \in ListNode, NEW next, next[n] = 0
  PROVE  <<n>> \in Seq(ListNode) /\ Elems(<<n>>) = {n} /\ IsList(n, n, 1, next, <<n>>)
<1>1. <<n>> \in Seq(ListNode) /\ Len(<<n>>) = 1 /\ <<n>>[1] = n /\ <<n>> # <<>>  OBVIOUS
<1>2. 1..1 = {1}  OBVIOUS
<1> QED BY <1>1, <1>2 DEF Elems, IsList, Links, NoRepeat

LEMMA ListTail ==
  ASSUME NEW s \in Seq(ListNode), NEW h, NEW t, NEW z, NEW next \in [ListNode -> Nat],
         IsList(h, t, z, next, s), s # <<>>
  PROVE  /\ h \in Elems(s) /\ (next[h] = 0 <=> Tail(s) = <<>>)
         /\ IsList(next[h], IF next[h] = 0 THEN 0 ELSE t, z - 1,
                   [next EXCEPT ![h] = 0], Tail(s))
<1> DEFINE m == Len(s)
           u == Tail(s)
           next2 == [next EXCEPT ![h] = 0]
<1>1. /\ u \in Seq(ListNode) /\ Len(u) = m - 1 /\ m \in Nat \ {0}
      /\ \A k \in 1..(m - 1) : u[k] = s[k + 1]
      /\ \A k \in 1..m : s[k] \in ListNode
  OBVIOUS
<1>2. NoRepeat(u)  BY ElemsTail DEF IsList
<1>3. h = s[1] /\ t = s[m] /\ z = m /\ NoRepeat(s) /\ Links(next, s)  BY DEF IsList
<1>5. h \in Elems(s)  BY <1>1, <1>3 DEF Elems
<1> HIDE DEF u, next2
<1>4. u = <<>> <=> m = 1
  <2>1. u = <<>> <=> Len(u) = 0  BY <1>1
  <2> QED BY <1>1, <2>1
<1>6. next[h] = IF m = 1 THEN 0 ELSE s[2]  BY <1>1, <1>3 DEF Links, m
<1> HIDE DEF m
<1>7. m # 1 => s[2] \in ListNode /\ s[2] = u[1] /\ s[2] # 0 /\ u[m - 1] = s[m]
  BY <1>1, LinkAssumption DEF ListNode
<1>8. ASSUME NEW k \in 1..(m - 1)
      PROVE  next2[u[k]] = IF k = m - 1 THEN 0 ELSE u[k + 1]
  <2>1. u[k] = s[k + 1] /\ k + 1 \in 1..m /\ k + 1 # 1 /\ 1 \in 1..m  BY <1>1
  <2>2. s[k + 1] # h  BY <1>3, <2>1 DEF NoRepeat, m
  <2>3. next2[s[k + 1]] = next[s[k + 1]]  BY <1>1, <2>1, <2>2 DEF next2
  <2>4. next[s[k + 1]] = IF k + 1 = m THEN 0 ELSE s[(k + 1) + 1]
    BY <1>3, <2>1 DEF Links, m
  <2>5. k # m - 1 => k + 1 \in 1..(m - 1) /\ u[k + 1] = s[(k + 1) + 1]  BY <1>1
  <2>6. k = m - 1 <=> k + 1 = m  BY <1>1
  <2> QED BY <2>1, <2>3, <2>4, <2>5, <2>6
<1>9. Links(next2, u)  BY <1>1, <1>8 DEF Links
<1>10. IsList(next[h], IF next[h] = 0 THEN 0 ELSE t, z - 1, next2, u)
  BY <1>1, <1>2, <1>3, <1>4, <1>6, <1>7, <1>9 DEF IsList
<1> QED BY <1>4, <1>5, <1>6, <1>7, <1>10 DEF u, next2


\* A node in front of the list.
LEMMA ListFront ==
  ASSUME NEW s \in Seq(ListNode), NEW h, NEW t, NEW z, NEW next \in [ListNode -> Nat],
         IsList(h, t, z, next, s), NEW n \in ListNode, n \notin Elems(s), next[n] = 0
  PROVE  IsList(n, IF s = <<>> THEN n ELSE t, z + 1, [next EXCEPT ![n] = h], <<n>> \o s)
<1>1. <<n>> \in Seq(ListNode) /\ Elems(<<n>>) = {n} /\ IsList(n, n, 1, next, <<n>>)
  BY ListOne
<1> DEFINE next2 == [next EXCEPT ![n] = h]
           o == <<n>>
<1>2. CASE s = <<>>
  <2>1. h = 0 /\ z = 0  BY <1>2 DEF IsList
  <2>2. next2 = next  BY <2>1
  <2>3. <<n>> \o s = <<n>>  BY <1>1, <1>2
  <2>4. z + 1 = 1  BY <2>1
  <2>5. IsList(n, n, 1, next2, <<n>> \o s)  BY <1>1, <2>2, <2>3
  <2> QED BY <1>2, <2>4, <2>5
<1>3. CASE s # <<>>
  <2>1. Elems(o) \cap Elems(s) = {} /\ o # <<>>  BY <1>1
  <2>2. z \in Nat  BY DEF IsList
  <2> HIDE DEF o
  <2>3. IsList(IF o = <<>> THEN h ELSE n, t, 1 + z, next2, o \o s)
    BY <1>1, <1>3, <2>1, ListCat DEF o
  <2> QED BY <1>3, <2>1, <2>2, <2>3 DEF o
<1> QED BY <1>2, <1>3

-----------------------------------------------------------------------------
(* The lists.                                                              *)

LinkInv ==
  /\ ll \in [head : [ListId -> Nat], tail : [ListId -> Nat], size : [ListId -> Nat],
             next : [ListNode -> Nat]]
  /\ queued \in [ListId -> Seq(ListNode)]
  /\ \A l \in ListId : IsList(ll.head[l], ll.tail[l], ll.size[l], ll.next, queued[l])
  /\ \A l, m \in ListId : l # m => Elems(queued[l]) \cap Elems(queued[m]) = {}
  /\ \A n \in ListNode \ cleared :
       (\A l \in ListId : n \notin Elems(queued[l])) => ll.next[n] = 0

LEMMA LinkSound == LinkInv => ListsAreQueues
<1> SUFFICES ASSUME LinkInv PROVE ListsAreQueues  OBVIOUS
<1>1. \A l \in ListId : queued[l] \in Seq(ListNode)  BY DEF LinkInv
<1>2. \A l \in ListId : IsList(ll.head[l], ll.tail[l], ll.size[l], ll.next, queued[l])
  BY DEF LinkInv
<1>3. \A l \in ListId :
        /\ Linked(ll.head[l], queued[l]) /\ ll.size[l] = Len(queued[l])
        /\ ll.tail[l] = IF queued[l] = <<>> THEN 0 ELSE queued[l][Len(queued[l])]
  BY <1>2 DEF IsList, Links, Linked
<1>4. ASSUME NEW l \in ListId, NEW m \in ListId,
             NEW i \in DOMAIN queued[l], NEW j \in DOMAIN queued[m],
             queued[l][i] = queued[m][j]
      PROVE  l = m /\ i = j
  <2>1. i \in 1..Len(queued[l]) /\ j \in 1..Len(queued[m])  BY <1>1
  <2>2. queued[l][i] \in Elems(queued[l]) /\ queued[l][i] \in Elems(queued[m])
    BY <1>4, <2>1 DEF Elems
  <2>3. l = m  BY <2>2 DEF LinkInv
  <2>4. NoRepeat(queued[l])  BY <1>2 DEF IsList
  <2> QED BY <1>4, <2>1, <2>3, <2>4 DEF NoRepeat
<1>5. \A n \in ListNode : ~InList(n) /\ n \notin cleared => ll.next[n] = 0
  <2>1. \A l \in ListId : ToSet(queued[l]) = Elems(queued[l])  BY <1>1, ElemsSeq
  <2> QED BY <2>1 DEF LinkInv, InList
<1> QED BY <1>3, <1>4, <1>5 DEF ListsAreQueues

LEMMA LinkStart == LinkInit => LinkInv
<1> SUFFICES ASSUME LinkInit PROVE LinkInv  OBVIOUS
<1>1. /\ ll = [head |-> [l \in ListId |-> 0], tail |-> [l \in ListId |-> 0],
               size |-> [l \in ListId |-> 0], next |-> [n \in ListNode |-> 0]]
      /\ queued = [l \in ListId |-> <<>>]
  BY DEF LinkInit, create_link_list
<1>2. /\ ll.head = [l \in ListId |-> 0] /\ ll.tail = [l \in ListId |-> 0]
      /\ ll.size = [l \in ListId |-> 0] /\ ll.next = [n \in ListNode |-> 0]
  BY <1>1
<1>3. <<>> \in Seq(ListNode) /\ Elems(<<>>) = {}  BY DEF Elems
<1>4. ll \in [head : [ListId -> Nat], tail : [ListId -> Nat], size : [ListId -> Nat],
              next : [ListNode -> Nat]]
  BY <1>1
<1>5. \A l \in ListId : IsList(ll.head[l], ll.tail[l], ll.size[l], ll.next, queued[l])
  BY <1>1, <1>2, ListEmpty
<1> QED BY <1>1, <1>2, <1>3, <1>4, <1>5 DEF LinkInv

\* A push is refused exactly when the node has a next.
LEMMA RefusedRight ==
  ASSUME LinkInv, NEW n \in ListNode, ~IsLast(n)
  PROVE  /\ Refused(n) <=> ll.next[n] # 0
         /\ ll.next[n] = 0 => \A l \in ListId : n \notin Elems(queued[l])
<1>1. \A l \in ListId : ToSet(queued[l]) = Elems(queued[l]) /\ queued[l] \in Seq(ListNode)
  BY ElemsSeq DEF LinkInv
<1>2. ASSUME NEW l \in ListId, n \in Elems(queued[l]) PROVE ll.next[n] # 0
  <2> DEFINE s == queued[l]
  <2>1. PICK k \in 1..Len(s) : s[k] = n  BY <1>2 DEF Elems
  <2>2. s \in Seq(ListNode) /\ IsList(ll.head[l], ll.tail[l], ll.size[l], ll.next, s)
    BY <1>1 DEF LinkInv
  <2> HIDE DEF s
  <2>3. ll.tail[l] = s[Len(s)]  BY <2>1, <2>2 DEF IsList
  <2>4. k # Len(s)  BY <2>1, <2>3 DEF IsLast
  <2>5. ll.next[n] = s[k + 1]  BY <2>1, <2>2, <2>4 DEF IsList, Links
  <2>6. k + 1 \in 1..Len(s)  BY <2>1, <2>2, <2>4
  <2>7. s[k + 1] \in ListNode  BY <2>2, <2>6
  <2> QED BY <2>5, <2>7, LinkAssumption DEF ListNode
<1>3. (\A l \in ListId : n \notin Elems(queued[l])) /\ n \notin cleared => ll.next[n] = 0
  BY DEF LinkInv
<1> QED BY <1>1, <1>2, <1>3 DEF Refused, InList


\* One list, l, now stands for s; nodes on other lists keep their next, and the
\* nodes on no list have none.
OnlyChanges(l, h, t, z, next, s) ==
  /\ h \in Nat /\ t \in Nat /\ z \in Nat /\ next \in [ListNode -> Nat] /\ s \in Seq(ListNode)
  /\ ll' = [head |-> [ll.head EXCEPT ![l] = h], tail |-> [ll.tail EXCEPT ![l] = t],
            size |-> [ll.size EXCEPT ![l] = z], next |-> next]
  /\ queued' = [queued EXCEPT ![l] = s]
  /\ IsList(h, t, z, next, s)
  /\ \A m \in ListId \ {l} : /\ Elems(s) \cap Elems(queued[m]) = {}
                             /\ \A n \in Elems(queued[m]) : next[n] = ll.next[n]
  /\ \A n \in ListNode \ cleared' :
       (\A m \in ListId \ {l} : n \notin Elems(queued[m])) /\ n \notin Elems(s)
         => next[n] = 0

LEMMA OneListChanged ==
  ASSUME LinkInv, NEW l \in ListId, NEW h, NEW t, NEW z, NEW next, NEW s,
         OnlyChanges(l, h, t, z, next, s)
  PROVE  LinkInv'
<1>a. /\ h \in Nat /\ t \in Nat /\ z \in Nat /\ next \in [ListNode -> Nat] /\ s \in Seq(ListNode)
      /\ ll' = [head |-> [ll.head EXCEPT ![l] = h], tail |-> [ll.tail EXCEPT ![l] = t],
                size |-> [ll.size EXCEPT ![l] = z], next |-> next]
      /\ queued' = [queued EXCEPT ![l] = s]
  BY DEF OnlyChanges
<1>b. /\ IsList(h, t, z, next, s)
      /\ \A m \in ListId \ {l} : /\ Elems(s) \cap Elems(queued[m]) = {}
                                 /\ \A n \in Elems(queued[m]) : next[n] = ll.next[n]
      /\ \A n \in ListNode \ cleared' :
           (\A m \in ListId \ {l} : n \notin Elems(queued[m])) /\ n \notin Elems(s)
             => next[n] = 0
  BY DEF OnlyChanges
<1>1. /\ ll.head \in [ListId -> Nat] /\ ll.tail \in [ListId -> Nat]
      /\ ll.size \in [ListId -> Nat] /\ queued \in [ListId -> Seq(ListNode)]
  BY DEF LinkInv
<1>2. ll' \in [head : [ListId -> Nat], tail : [ListId -> Nat], size : [ListId -> Nat],
               next : [ListNode -> Nat]]
  BY <1>a, <1>1
<1>3. queued' \in [ListId -> Seq(ListNode)]  BY <1>a, <1>1
<1>4. /\ ll'.head[l] = h /\ ll'.tail[l] = t /\ ll'.size[l] = z /\ queued'[l] = s
      /\ ll'.next = next
  BY <1>a, <1>1
<1>5. \A m \in ListId \ {l} : /\ ll'.head[m] = ll.head[m] /\ ll'.tail[m] = ll.tail[m]
                              /\ ll'.size[m] = ll.size[m] /\ queued'[m] = queued[m]
  BY <1>a, <1>1
<1>6. ASSUME NEW m \in ListId
      PROVE  IsList(ll'.head[m], ll'.tail[m], ll'.size[m], ll'.next, queued'[m])
  <2>1. CASE m = l  BY <1>b, <1>4, <2>1
  <2>2. CASE m # l
    <3>1. queued[m] \in Seq(ListNode)  BY <1>1
    <3>2. IsList(ll.head[m], ll.tail[m], ll.size[m], ll.next, queued[m])  BY DEF LinkInv
    <3>3. IsList(ll.head[m], ll.tail[m], ll.size[m], next, queued[m])
      BY <1>b, <2>2, <3>1, <3>2, ListFrame
    <3> QED BY <1>4, <1>5, <2>2, <3>3
  <2> QED BY <2>1, <2>2
<1>7. ASSUME NEW m \in ListId, NEW k \in ListId, m # k
      PROVE  Elems(queued'[m]) \cap Elems(queued'[k]) = {}
  <2>1. CASE m = l  BY <1>b, <1>4, <1>5, <1>7, <2>1
  <2>2. CASE k = l  BY <1>b, <1>4, <1>5, <1>7, <2>2
  <2>3. CASE m # l /\ k # l  BY <1>5, <1>7, <2>3 DEF LinkInv
  <2> QED BY <2>1, <2>2, <2>3
<1>8. ASSUME NEW n \in ListNode \ cleared', \A m \in ListId : n \notin Elems(queued'[m])
      PROVE  ll'.next[n] = 0
  BY <1>b, <1>4, <1>5, <1>8
<1> QED BY <1>2, <1>3, <1>6, <1>7, <1>8 DEF LinkInv

LEMMA PushBackStep ==
  ASSUME LinkInv, NEW l \in ListId, NEW n \in ListNode, link_list_push_back(l, n)
  PROVE  LinkInv'
<1> DEFINE s == queued[l]
           next == IF ll.size[l] = 0 THEN ll.next ELSE [ll.next EXCEPT ![ll.tail[l]] = n]
           h == IF ll.size[l] = 0 THEN n ELSE ll.head[l]
<1>1. ~IsLast(n) /\ cleared' = cleared  BY DEF link_list_push_back
<1>2. CASE ll.next[n] # 0
  <2>1. ll' = ll /\ queued' = queued
    BY <1>1, <1>2, RefusedRight DEF link_list_push_back
  <2> QED BY <1>1, <2>1 DEF LinkInv
<1>3. CASE ll.next[n] = 0
  <2>1. \A m \in ListId : n \notin Elems(queued[m])  BY <1>1, <1>3, RefusedRight
  <2>2. queued' = [queued EXCEPT ![l] = Append(s, n)]
    BY <1>1, <1>3, RefusedRight DEF link_list_push_back
  <2>3. /\ ll.head \in [ListId -> Nat] /\ ll.tail \in [ListId -> Nat]
        /\ ll.size \in [ListId -> Nat] /\ ll.next \in [ListNode -> Nat]
        /\ s \in Seq(ListNode)
        /\ IsList(ll.head[l], ll.tail[l], ll.size[l], ll.next, s)
    BY DEF LinkInv
  <2>4. ll' = [head |-> [ll.head EXCEPT ![l] = h], tail |-> [ll.tail EXCEPT ![l] = n],
               size |-> [ll.size EXCEPT ![l] = ll.size[l] + 1], next |-> next]
    BY <1>3, <2>3 DEF link_list_push_back
  <2>5. s = <<>> <=> ll.size[l] = 0
    <3> HIDE DEF s
    <3> QED BY <2>3 DEF IsList
  <2>6. n \in Nat  BY LinkAssumption DEF ListNode
  <2> HIDE DEF s
  <2>7. IsList(h, n, ll.size[l] + 1, next, Append(s, n))
    BY <1>3, <2>1, <2>3, <2>5, ListAppend DEF s
  <2>8. /\ Append(s, n) \in Seq(ListNode) /\ Elems(Append(s, n)) = Elems(s) \cup {n}
    BY <2>1, <2>3, ElemsPut DEF IsList, s
  <2>9. next \in [ListNode -> Nat] /\ h \in Nat /\ ll.size[l] + 1 \in Nat
    <3>1. [ll.next EXCEPT ![ll.tail[l]] = n] \in [ListNode -> Nat]  BY <2>3, <2>6
    <3>2. h \in Nat /\ ll.size[l] + 1 \in Nat  BY <2>3, <2>6
    <3> QED BY <2>3, <3>1, <3>2
  <2>10. ll.size[l] # 0 => ll.tail[l] \in Elems(s)
    BY <2>3, <2>5 DEF IsList, Elems
  <2>11. ASSUME NEW m \in ListId \ {l}
         PROVE  /\ Elems(Append(s, n)) \cap Elems(queued[m]) = {}
                /\ \A x \in Elems(queued[m]) : next[x] = ll.next[x]
    <3>1. Elems(s) \cap Elems(queued[m]) = {}  BY DEF LinkInv, s
    <3>2. Elems(queued[m]) \subseteq ListNode  BY ElemsSeq DEF LinkInv
    <3> QED BY <2>1, <2>3, <2>8, <2>10, <3>1, <3>2
  <2>12. ASSUME NEW x \in ListNode \ cleared',
                \A m \in ListId \ {l} : x \notin Elems(queued[m]), x \notin Elems(Append(s, n))
         PROVE  next[x] = 0
    <3>1. ll.next[x] = 0  BY <1>1, <2>8, <2>12 DEF LinkInv, s
    <3> QED BY <2>3, <2>8, <2>10, <2>12, <3>1
  <2> HIDE DEF h, next
  <2>13. OnlyChanges(l, h, n, ll.size[l] + 1, next, Append(s, n))
    BY <2>2, <2>4, <2>6, <2>7, <2>8, <2>9, <2>11, <2>12 DEF OnlyChanges
  <2> QED BY <2>13, OneListChanged
<1> QED BY <1>2, <1>3

LEMMA PushFrontStep ==
  ASSUME LinkInv, NEW l \in ListId, NEW n \in ListNode, link_list_push_front(l, n)
  PROVE  LinkInv'
<1> DEFINE s == queued[l]
           u == <<n>> \o s
           next == [ll.next EXCEPT ![n] = ll.head[l]]
           t == IF ll.size[l] = 0 THEN n ELSE ll.tail[l]
<1>1. ~IsLast(n) /\ cleared' = cleared  BY DEF link_list_push_front
<1>2. CASE ll.next[n] # 0
  <2>1. ll' = ll /\ queued' = queued
    BY <1>1, <1>2, RefusedRight DEF link_list_push_front
  <2> QED BY <1>1, <2>1 DEF LinkInv
<1>3. CASE ll.next[n] = 0
  <2>1. \A m \in ListId : n \notin Elems(queued[m])  BY <1>1, <1>3, RefusedRight
  <2>2. queued' = [queued EXCEPT ![l] = u]
    BY <1>1, <1>3, RefusedRight DEF link_list_push_front
  <2>3. /\ ll.head \in [ListId -> Nat] /\ ll.tail \in [ListId -> Nat]
        /\ ll.size \in [ListId -> Nat] /\ ll.next \in [ListNode -> Nat]
        /\ s \in Seq(ListNode)
        /\ IsList(ll.head[l], ll.tail[l], ll.size[l], ll.next, s)
    BY DEF LinkInv
  <2>4. ll' = [head |-> [ll.head EXCEPT ![l] = n], tail |-> [ll.tail EXCEPT ![l] = t],
               size |-> [ll.size EXCEPT ![l] = ll.size[l] + 1], next |-> next]
    BY <1>3, <2>3 DEF link_list_push_front
  <2>5. s = <<>> <=> ll.size[l] = 0
    <3> HIDE DEF s
    <3> QED BY <2>3 DEF IsList
  <2>6. n \in Nat  BY LinkAssumption DEF ListNode
  <2>10. n \notin Elems(s)  BY <2>1
  <2> HIDE DEF s
  <2>7. IsList(n, t, ll.size[l] + 1, next, u)
    <3>1. IsList(n, IF s = <<>> THEN n ELSE ll.tail[l], ll.size[l] + 1, next, u)
      BY <1>3, <2>10, <2>3, ListFront
    <3> QED BY <2>5, <3>1
  <2>8. u \in Seq(ListNode) /\ Elems(u) = Elems(s) \cup {n}
    <3> DEFINE o == <<n>>
    <3>1. o \in Seq(ListNode) /\ Elems(o) = {n} /\ NoRepeat(o)
      BY <1>3, ListOne DEF IsList
    <3> HIDE DEF o
    <3>2. NoRepeat(s) /\ Elems(o) \cap Elems(s) = {}  BY <2>10, <2>3, <3>1 DEF IsList
    <3>3. o \o s \in Seq(ListNode) /\ Elems(o \o s) = Elems(o) \cup Elems(s)
      BY <2>3, <3>1, <3>2, ElemsCat
    <3> QED BY <3>1, <3>3 DEF o
  <2>9. next \in [ListNode -> Nat] /\ t \in Nat /\ ll.size[l] + 1 \in Nat  BY <2>3, <2>6
  <2> HIDE DEF u
  <2>11. ASSUME NEW m \in ListId \ {l}
         PROVE  /\ Elems(u) \cap Elems(queued[m]) = {}
                /\ \A x \in Elems(queued[m]) : next[x] = ll.next[x]
    <3>1. Elems(s) \cap Elems(queued[m]) = {}  BY DEF LinkInv, s
    <3>2. Elems(queued[m]) \subseteq ListNode  BY ElemsSeq DEF LinkInv
    <3> QED BY <2>1, <2>3, <2>8, <3>1, <3>2
  <2>12. ASSUME NEW x \in ListNode \ cleared',
                \A m \in ListId \ {l} : x \notin Elems(queued[m]), x \notin Elems(u)
         PROVE  next[x] = 0
    <3>1. ll.next[x] = 0  BY <1>1, <2>8, <2>12 DEF LinkInv, s
    <3> QED BY <2>3, <2>8, <2>12, <3>1
  <2> HIDE DEF t, next
  <2>13. OnlyChanges(l, n, t, ll.size[l] + 1, next, u)
    BY <2>2, <2>4, <2>6, <2>7, <2>8, <2>9, <2>11, <2>12 DEF OnlyChanges
  <2> QED BY <2>13, OneListChanged
<1> QED BY <1>2, <1>3


LEMMA PopStep ==
  ASSUME LinkInv, NEW l \in ListId, link_list_pop(l)
  PROVE  LinkInv'
<1> DEFINE s == queued[l]
           ret == ll.head[l]
           u == Tail(s)
           next == [ll.next EXCEPT ![ret] = 0]
           t == IF ll.next[ret] = 0 THEN 0 ELSE ll.tail[l]
<1>1. /\ ll.head \in [ListId -> Nat] /\ ll.tail \in [ListId -> Nat]
      /\ ll.size \in [ListId -> Nat] /\ ll.next \in [ListNode -> Nat]
      /\ s \in Seq(ListNode)
      /\ IsList(ll.head[l], ll.tail[l], ll.size[l], ll.next, s)
  BY DEF LinkInv
<1>2. ll.size[l] # 0 /\ queued' = [queued EXCEPT ![l] = u] /\ cleared' = cleared
  BY DEF link_list_pop
<1>3. ll' = [head |-> [ll.head EXCEPT ![l] = ll.next[ret]], tail |-> [ll.tail EXCEPT ![l] = t],
             size |-> [ll.size EXCEPT ![l] = ll.size[l] - 1], next |-> next]
  BY <1>1 DEF link_list_pop
<1>11. \A m \in ListId \ {l} : Elems(s) \cap Elems(queued[m]) = {}  BY DEF LinkInv
<1> HIDE DEF s
<1>4. s # <<>> /\ s[1] = ret /\ Head(s) = s[1]  BY <1>1, <1>2 DEF IsList
<1>5. /\ ret \in Elems(s) /\ ret \in ListNode
      /\ IsList(ll.next[ret], t, ll.size[l] - 1, next, u)
  <2>1. ret \in Elems(s) /\ IsList(ll.next[ret], t, ll.size[l] - 1, next, u)
    BY <1>1, <1>4, ListTail
  <2> QED BY <1>1, <2>1, ElemsSeq
<1>6. u \in Seq(ListNode) /\ Elems(u) = Elems(s) \ {ret}
  BY <1>1, <1>4, ElemsTail DEF IsList
<1>7. next \in [ListNode -> Nat] /\ ll.next[ret] \in Nat /\ t \in Nat /\ ll.size[l] - 1 \in Nat
  <2>1. ll.size[l] \in Nat /\ ll.tail[l] \in Nat  BY <1>1
  <2>2. next \in [ListNode -> Nat] /\ ll.next[ret] \in Nat  BY <1>1, <1>5
  <2> QED BY <1>2, <2>1, <2>2
<1> HIDE DEF u
<1>8. ASSUME NEW m \in ListId \ {l}
      PROVE  /\ Elems(u) \cap Elems(queued[m]) = {}
             /\ \A x \in Elems(queued[m]) : next[x] = ll.next[x]
  <2>1. Elems(queued[m]) \subseteq ListNode  BY ElemsSeq DEF LinkInv
  <2> QED BY <1>1, <1>11, <1>5, <1>6, <2>1
<1>9. ASSUME NEW x \in ListNode \ cleared',
             \A m \in ListId \ {l} : x \notin Elems(queued[m]), x \notin Elems(u)
      PROVE  next[x] = 0
  <2>1. CASE x = ret  BY <1>1, <2>1
  <2>2. CASE x # ret
    <3>1. ll.next[x] = 0  BY <1>2, <1>6, <1>9, <2>2 DEF LinkInv, s
    <3> QED BY <1>1, <2>2, <3>1
  <2> QED BY <2>1, <2>2
<1> HIDE DEF t, next, ret
<1>10. OnlyChanges(l, ll.next[ret], t, ll.size[l] - 1, next, u)
  BY <1>2, <1>3, <1>5, <1>6, <1>7, <1>8, <1>9 DEF OnlyChanges
<1> QED BY <1>10, OneListChanged

LEMMA ClearStep ==
  ASSUME LinkInv, NEW l \in ListId, link_list_clear(l)
  PROVE  LinkInv'
<1>1. /\ ll' = [head |-> [ll.head EXCEPT ![l] = 0], tail |-> [ll.tail EXCEPT ![l] = 0],
                size |-> [ll.size EXCEPT ![l] = 0], next |-> ll.next]
      /\ queued' = [queued EXCEPT ![l] = <<>>]
      /\ cleared' = cleared \cup ToSet(queued[l])
  BY DEF link_list_clear
<1>2. ll.next \in [ListNode -> Nat] /\ queued[l] \in Seq(ListNode)  BY DEF LinkInv
<1>3. ToSet(queued[l]) = Elems(queued[l])  BY <1>2, ElemsSeq
<1>4. <<>> \in Seq(ListNode) /\ Elems(<<>>) = {}  BY DEF Elems
<1>5. IsList(0, 0, 0, ll.next, <<>>)  BY ListEmpty
<1>6. ASSUME NEW x \in ListNode \ cleared',
             \A m \in ListId \ {l} : x \notin Elems(queued[m])
      PROVE  ll.next[x] = 0
  <2>1. x \notin cleared /\ x \notin Elems(queued[l])  BY <1>1, <1>3
  <2> QED BY <1>6, <2>1 DEF LinkInv
<1>7. OnlyChanges(l, 0, 0, 0, ll.next, <<>>)
  BY <1>1, <1>2, <1>4, <1>5, <1>6 DEF OnlyChanges
<1> QED BY <1>7, OneListChanged

LEMMA SwapStep ==
  ASSUME LinkInv, NEW to \in ListId, NEW from \in ListId, to # from,
         link_list_swap(to, from)
  PROVE  LinkInv'
<1> DEFINE s == queued[to]
           r == queued[from]
           none == ll.tail[to] = 0
           h == IF none THEN ll.head[from] ELSE ll.head[to]
           next == IF none THEN ll.next ELSE [ll.next EXCEPT ![ll.tail[to]] = ll.head[from]]
<1>1. /\ ll.head \in [ListId -> Nat] /\ ll.tail \in [ListId -> Nat]
      /\ ll.size \in [ListId -> Nat] /\ ll.next \in [ListNode -> Nat]
      /\ queued \in [ListId -> Seq(ListNode)]
      /\ s \in Seq(ListNode) /\ r \in Seq(ListNode)
      /\ IsList(ll.head[to], ll.tail[to], ll.size[to], ll.next, s)
      /\ IsList(ll.head[from], ll.tail[from], ll.size[from], ll.next, r)
      /\ Elems(s) \cap Elems(r) = {}
  BY DEF LinkInv
<1>2. ll.head[from] # 0 /\ cleared' = cleared  BY DEF link_list_swap
<1>3. ll' = [head |-> [ll.head EXCEPT ![to] = h, ![from] = 0],
             tail |-> [ll.tail EXCEPT ![to] = ll.tail[from], ![from] = 0],
             size |-> [ll.size EXCEPT ![to] = ll.size[to] + ll.size[from], ![from] = 0],
             next |-> next]
  BY <1>1 DEF link_list_swap
<1>4. queued' = [queued EXCEPT ![to] = s \o r, ![from] = <<>>]
  BY <1>1 DEF link_list_swap
<1>5. \A m \in ListId \ {to, from} : /\ Elems(s) \cap Elems(queued[m]) = {}
                                     /\ Elems(r) \cap Elems(queued[m]) = {}
  BY DEF LinkInv
<1> HIDE DEF s, r
<1>6. r # <<>> /\ (s = <<>> <=> none)
  <2>1. s # <<>> => s[Len(s)] \in ListNode  BY <1>1
  <2> QED BY <1>1, <1>2, <2>1, LinkAssumption DEF IsList, ListNode
<1>7. IsList(h, ll.tail[from], ll.size[to] + ll.size[from], next, s \o r)
  BY <1>1, <1>6, ListCat
<1>8. s \o r \in Seq(ListNode) /\ Elems(s \o r) = Elems(s) \cup Elems(r)
  <2>1. NoRepeat(s) /\ NoRepeat(r)  BY <1>1 DEF IsList
  <2>2. s \in Seq(ListNode) /\ r \in Seq(ListNode) /\ Elems(s) \cap Elems(r) = {}  BY <1>1
  <2> QED BY <2>1, <2>2, ElemsCat
<1>9. ~none => ll.tail[to] \in Elems(s) /\ ll.tail[to] \in ListNode
  <2>1. s # <<>> => s[Len(s)] \in Elems(s) /\ s[Len(s)] \in ListNode
    BY <1>1 DEF Elems
  <2> QED BY <1>1, <1>6, <2>1 DEF IsList
<1>10. next \in [ListNode -> Nat] /\ h \in Nat /\ ll.size[to] + ll.size[from] \in Nat
  <2>1. [ll.next EXCEPT ![ll.tail[to]] = ll.head[from]] \in [ListNode -> Nat]  BY <1>1
  <2> QED BY <1>1, <2>1
<1>11. \A x \in ListNode \ Elems(s) : next[x] = ll.next[x]  BY <1>1, <1>9
<1> HIDE DEF h, next, none
<1>12. ll' \in [head : [ListId -> Nat], tail : [ListId -> Nat], size : [ListId -> Nat],
                next : [ListNode -> Nat]]
  <2>1. /\ [ll.head EXCEPT ![to] = h, ![from] = 0] \in [ListId -> Nat]
        /\ [ll.tail EXCEPT ![to] = ll.tail[from], ![from] = 0] \in [ListId -> Nat]
        /\ [ll.size EXCEPT ![to] = ll.size[to] + ll.size[from], ![from] = 0] \in [ListId -> Nat]
    BY <1>1, <1>10
  <2> QED BY <1>3, <1>10, <2>1
<1>13. <<>> \in Seq(ListNode) /\ Elems(<<>>) = {}  BY DEF Elems
<1>14. queued' \in [ListId -> Seq(ListNode)]  BY <1>1, <1>4, <1>8, <1>13
<1>15. /\ ll'.head[to] = h /\ ll'.tail[to] = ll.tail[from]
       /\ ll'.size[to] = ll.size[to] + ll.size[from]
       /\ ll'.head[from] = 0 /\ ll'.tail[from] = 0 /\ ll'.size[from] = 0
       /\ ll'.next = next
  BY <1>1, <1>3
<1>16. queued'[to] = s \o r /\ queued'[from] = <<>>  BY <1>1, <1>4
<1>17. \A m \in ListId \ {to, from} :
         /\ ll'.head[m] = ll.head[m] /\ ll'.tail[m] = ll.tail[m]
         /\ ll'.size[m] = ll.size[m] /\ queued'[m] = queued[m]
  BY <1>1, <1>3, <1>4
<1>18. ASSUME NEW m \in ListId
       PROVE  IsList(ll'.head[m], ll'.tail[m], ll'.size[m], ll'.next, queued'[m])
  <2>1. CASE m = to  BY <1>7, <1>15, <1>16, <2>1
  <2>2. CASE m = from  BY <1>15, <1>16, <2>2, ListEmpty
  <2>3. CASE m # to /\ m # from
    <3>1. queued[m] \in Seq(ListNode)  BY <1>1
    <3>2. IsList(ll.head[m], ll.tail[m], ll.size[m], ll.next, queued[m])  BY DEF LinkInv
    <3>3. Elems(queued[m]) \subseteq ListNode  BY <3>1, ElemsSeq
    <3>4. \A x \in Elems(queued[m]) : next[x] = ll.next[x]  BY <1>5, <1>11, <2>3, <3>3
    <3>5. IsList(ll.head[m], ll.tail[m], ll.size[m], next, queued[m])
      BY <3>1, <3>2, <3>4, ListFrame
    <3> QED BY <1>15, <1>17, <2>3, <3>5
  <2> QED BY <2>1, <2>2, <2>3
<1>19. ASSUME NEW m \in ListId, NEW k \in ListId, m # k
       PROVE  Elems(queued'[m]) \cap Elems(queued'[k]) = {}
  <2>1. CASE m = from \/ k = from  BY <1>13, <1>16, <2>1
  <2>2. CASE m = to /\ k # from  BY <1>5, <1>8, <1>16, <1>17, <1>19, <2>2
  <2>3. CASE k = to /\ m # from  BY <1>5, <1>8, <1>16, <1>17, <1>19, <2>3
  <2>4. CASE m \notin {to, from} /\ k \notin {to, from}
    BY <1>17, <1>19, <2>4 DEF LinkInv
  <2> QED BY <2>1, <2>2, <2>3, <2>4
<1>20. ASSUME NEW n \in ListNode \ cleared', \A m \in ListId : n \notin Elems(queued'[m])
       PROVE  ll'.next[n] = 0
  <2>1. n \notin Elems(s) /\ n \notin Elems(r)  BY <1>8, <1>16, <1>20
  <2>2. \A m \in ListId : n \notin Elems(queued[m])
    BY <1>17, <1>20, <2>1 DEF s, r
  <2>3. ll.next[n] = 0  BY <1>2, <2>2 DEF LinkInv
  <2> QED BY <1>11, <1>15, <2>1, <2>3
<1> QED BY <1>12, <1>14, <1>18, <1>19, <1>20 DEF LinkInv

\* For any number of lists and nodes, pushes at both ends, pops, swaps and clears
\* keep every list of link_list.c, pointer by pointer, the sequence its users see.
THEOREM LinkCorrect == LinkSpec => []ListsAreQueues
<1>1. LinkInv /\ [LinkNext]_lvars => LinkInv'
  <2> SUFFICES ASSUME LinkInv, [LinkNext]_lvars PROVE LinkInv'  OBVIOUS
  <2>1. CASE UNCHANGED lvars  BY <2>1 DEF LinkInv, lvars
  <2>2. CASE LinkNext
    BY <2>2, PushBackStep, PushFrontStep, PopStep, ClearStep, SwapStep DEF LinkNext
  <2> QED BY <2>1, <2>2
<1> QED BY <1>1, LinkStart, LinkSound, PTL DEF LinkSpec

-----------------------------------------------------------------------------
(* hash_map.c.  The table implements a map.  On the probe path to a stored *)
(* key there is no slot that was never used and no other slot with the key,*)
(* so that find sees it whatever was deleted; expanding keeps the keys.    *)

HItem == [flag : {"EMPTY", "DELETE", "USED"}, key : HKey \cup {0}]

\* The slot that the i-th probe for k looks at, in a table of n slots.
At(k, i, n) == (hash_function[k] + i) % n

Used(items) == {s \in DOMAIN items : items[s].flag = "USED"}
Stored(items) == {items[s].key : s \in Used(items)}
Deleted(items) == Flagged(items, {"DELETE"})

\* On the way to a key that is stored nothing stops a search for it: no slot
\* that was never used, and no slot with the same key, deleted or not.
TableOK(items, n) ==
  /\ items \in [0..(n - 1) -> HItem]
  /\ Stored(items) \subseteq HKey
  /\ \A k \in HKey, i \in 0..(n - 1) :
       LET e == items[At(k, i, n)]
       IN  e.flag = "USED" /\ e.key = k =>
             \A j \in 0..(i - 1) : /\ items[At(k, j, n)].flag # "EMPTY"
                                   /\ items[At(k, j, n)].key # k

LEMMA AtSlots ==
  ASSUME NEW k \in HKey, NEW n \in Nat \ {0}
  PROVE  /\ \A i \in 0..(n - 1) : At(k, i, n) \in 0..(n - 1)
         /\ \A i, j \in 0..(n - 1) : At(k, i, n) = At(k, j, n) => i = j
         /\ \A s \in 0..(n - 1) : \E i \in 0..(n - 1) : At(k, i, n) = s
<1>1. hash_function[k] \in Nat  BY HashAssumption DEF HKey
<1> QED BY <1>1, Residues DEF At

LEMMA Interval0 ==
  ASSUME NEW n \in Nat
  PROVE  IsFiniteSet(0..(n - 1)) /\ Cardinality(0..(n - 1)) = n
BY FS_Interval

LEMMA SlotCount ==
  ASSUME NEW n \in Nat, NEW T, NEW items \in [0..(n - 1) -> T]
  PROVE  Cardinality(DOMAIN items) = n /\ IsFiniteSet(DOMAIN items)
BY Interval0

\* Probe finds the first slot of the path that stops it.
LEMMA ProbeFirst ==
  ASSUME NEW n \in Nat \ {0}, NEW items \in [0..(n - 1) -> HItem], NEW k \in HKey,
         NEW stops
  PROVE  \/ Probe(items, k, stops) = -1 /\ \A i \in 0..(n - 1) : At(k, i, n) \notin stops
         \/ \E i \in 0..(n - 1) :
              /\ Probe(items, k, stops) = At(k, i, n) /\ At(k, i, n) \in stops
              /\ \A j \in 0..(i - 1) : At(k, j, n) \notin stops
<1> DEFINE m == Cardinality(DOMAIN items)
           at == [i \in 0 .. m - 1 |-> (hash_function[k] + i) % m]
           hits == {i \in 0 .. m - 1 : at[i] \in stops}
           first == CHOOSE i \in hits : \A j \in hits : i <= j
<1>1. m = n  BY SlotCount
<1>2. Probe(items, k, stops) = IF hits = {} THEN -1 ELSE at[first]  BY DEF Probe
<1>3. \A i \in 0..(n - 1) : at[i] = At(k, i, n)  BY <1>1 DEF At
<1> HIDE DEF m
<1>7. hits = {i \in 0..(n - 1) : at[i] \in stops}  BY <1>1
<1> HIDE DEF at
<1>4. CASE hits = {}  BY <1>2, <1>3, <1>4, <1>7
<1>5. CASE hits # {}
  <2>1. hits \in SUBSET Nat  BY <1>7
  <2>2. \E i \in hits : \A j \in hits : i <= j  BY <1>5, <2>1, LeastElement
  <2>3. first \in hits /\ \A j \in hits : first <= j  BY <2>2
  <2> HIDE DEF first
  <2>4. first \in 0..(n - 1) /\ at[first] \in stops  BY <1>7, <2>3
  <2>5. ASSUME NEW j \in 0..(first - 1) PROVE At(k, j, n) \notin stops
    <3>1. j \in 0..(n - 1) /\ ~(first <= j)  BY <2>4
    <3>2. j \notin hits  BY <2>3, <3>1
    <3> QED BY <1>3, <1>7, <3>1, <3>2
  <2> QED BY <1>2, <1>3, <1>5, <2>4, <2>5
<1> QED BY <1>4, <1>5

\* hash_map_find finds exactly the keys that are stored.
LEMMA FindStored ==
  ASSUME NEW n \in Nat \ {0}, NEW h, TableOK(h.items, n), NEW k \in HKey
  PROVE  LET s == hash_map_find(h, k)
         IN  \/ k \notin Stored(h.items) /\ s = -1
             \/ /\ k \in Stored(h.items) /\ s # -1
                /\ s \in Used(h.items) /\ h.items[s].key = k
<1> DEFINE items == h.items
           stops == Flagged(items, {"EMPTY"}) \cup Holding(items, k)
           p == Probe(items, k, stops)
<1>1. items \in [0..(n - 1) -> HItem]  BY DEF TableOK
<1>2. hash_map_find(h, k) = IF p # -1 /\ items[p].flag = "USED" THEN p ELSE -1
  BY DEF hash_map_find
<1>3. \A s \in 0..(n - 1) : s \in stops <=> items[s].flag = "EMPTY" \/ items[s].key = k
  BY <1>1 DEF Flagged, Holding
<1>4. Used(items) = {s \in 0..(n - 1) : items[s].flag = "USED"}  BY <1>1 DEF Used
<1>5. \A i \in 0..(n - 1) : At(k, i, n) \in 0..(n - 1)  BY AtSlots
<1>6. CASE k \notin Stored(items)
  <2>1. \A s \in 0..(n - 1) : ~(items[s].flag = "USED" /\ items[s].key = k)
    BY <1>4, <1>6 DEF Stored
  <2>2. CASE p = -1  BY <1>2, <1>6, <2>2
  <2>3. ASSUME NEW i \in 0..(n - 1), p = At(k, i, n), At(k, i, n) \in stops
        PROVE  items[p].flag # "USED"
    BY <1>3, <1>5, <2>1, <2>3
  <2>4. p = -1 \/ \E i \in 0..(n - 1) : p = At(k, i, n) /\ At(k, i, n) \in stops
    BY <1>1, ProbeFirst
  <2> HIDE DEF p
  <2> QED BY <1>2, <1>6, <2>2, <2>3, <2>4
<1>7. CASE k \in Stored(items)
  <2>1. PICK s \in 0..(n - 1) : items[s].flag = "USED" /\ items[s].key = k
    BY <1>4, <1>7 DEF Stored
  <2>2. PICK d \in 0..(n - 1) : At(k, d, n) = s  BY AtSlots
  <2>3. \A j \in 0..(d - 1) : /\ items[At(k, j, n)].flag # "EMPTY"
                              /\ items[At(k, j, n)].key # k
    BY <2>1, <2>2 DEF TableOK
  <2>4. At(k, d, n) \in stops  BY <1>3, <2>1, <2>2
  <2>5. \A j \in 0..(d - 1) : At(k, j, n) \notin stops
    <3> SUFFICES ASSUME NEW j \in 0..(d - 1) PROVE At(k, j, n) \notin stops
      OBVIOUS
    <3>1. j \in 0..(n - 1)  OBVIOUS
    <3> QED BY <1>3, <1>5, <2>3, <3>1
  <2> HIDE DEF stops
  <2>6. PICK i \in 0..(n - 1) : /\ p = At(k, i, n) /\ At(k, i, n) \in stops
                                /\ \A j \in 0..(i - 1) : At(k, j, n) \notin stops
    BY <1>1, <2>2, <2>4, ProbeFirst
  <2>7. i = d
    <3>1. ~(i < d)
      <4>1. i < d => i \in 0..(d - 1)  OBVIOUS
      <4> QED BY <2>5, <2>6, <4>1
    <3>2. ~(d < i)
      <4>1. d < i => d \in 0..(i - 1)  OBVIOUS
      <4> QED BY <2>4, <2>6, <4>1
    <3> QED BY <3>1, <3>2
  <2>8. p = s /\ s # -1  BY <2>2, <2>6, <2>7
  <2> HIDE DEF p
  <2> QED BY <1>2, <1>4, <1>7, <2>1, <2>8
<1> QED BY <1>6, <1>7


\* Putting a key that is not stored in the slot that _hash_map_insert finds
\* keeps the searches right, and it finds one unless every slot is used.
LEMMA InsertOK ==
  ASSUME NEW n \in Nat \ {0}, NEW items, TableOK(items, n),
         NEW k \in HKey, k \notin Stored(items)
  PROVE  \/ /\ insert_slot(items, k) = -1 /\ hash_map_insert0(items, k) = items
            /\ Used(items) = 0..(n - 1)
         \/ /\ insert_slot(items, k) # -1
            /\ TableOK(hash_map_insert0(items, k), n)
            /\ Stored(hash_map_insert0(items, k)) = Stored(items) \cup {k}
            /\ \E s \in 0..(n - 1) : /\ s \notin Used(items)
                                     /\ Used(hash_map_insert0(items, k)) = Used(items) \cup {s}
<1> DEFINE stops == Flagged(items, {"EMPTY", "DELETE"}) \cup Holding(items, k)
           p == Probe(items, k, stops)
<1>1. items \in [0..(n - 1) -> HItem]  BY DEF TableOK
<1>2. insert_slot(items, k) = IF p # -1 /\ items[p].flag # "USED" THEN p ELSE -1
  BY DEF insert_slot
<1>3. \A s \in 0..(n - 1) : items[s].flag \in {"EMPTY", "DELETE", "USED"}  BY <1>1 DEF HItem
<1>4. Used(items) = {s \in 0..(n - 1) : items[s].flag = "USED"}  BY <1>1 DEF Used
<1>5. \A s \in 0..(n - 1) : ~(items[s].flag = "USED" /\ items[s].key = k)
  BY <1>4 DEF Stored
<1>6. \A s \in 0..(n - 1) : s \in stops <=> items[s].flag # "USED"
  BY <1>1, <1>3, <1>5 DEF Flagged, Holding
<1>7. /\ \A i \in 0..(n - 1) : At(k, i, n) \in 0..(n - 1)
      /\ \A s \in 0..(n - 1) : \E i \in 0..(n - 1) : At(k, i, n) = s
  BY AtSlots
<1> HIDE DEF stops
<1>8. CASE p = -1 /\ \A i \in 0..(n - 1) : At(k, i, n) \notin stops
  <2>1. insert_slot(items, k) = -1  BY <1>2, <1>8
  <2>2. hash_map_insert0(items, k) = items  BY <2>1 DEF hash_map_insert0
  <2>3. ASSUME NEW s \in 0..(n - 1) PROVE items[s].flag = "USED"
    <3>1. PICK i \in 0..(n - 1) : At(k, i, n) = s  BY <1>7
    <3>2. s \notin stops  BY <1>8, <3>1
    <3> QED BY <1>6, <3>2
  <2>4. Used(items) = 0..(n - 1)  BY <1>4, <2>3
  <2> QED BY <2>1, <2>2, <2>4
<1>9. ASSUME NEW d \in 0..(n - 1), p = At(k, d, n), At(k, d, n) \in stops,
             \A j \in 0..(d - 1) : At(k, j, n) \notin stops
      PROVE  /\ insert_slot(items, k) # -1
             /\ TableOK(hash_map_insert0(items, k), n)
             /\ Stored(hash_map_insert0(items, k)) = Stored(items) \cup {k}
             /\ \E s \in 0..(n - 1) :
                  /\ s \notin Used(items)
                  /\ Used(hash_map_insert0(items, k)) = Used(items) \cup {s}
  <2> DEFINE t == hash_map_insert0(items, k)
             new == [flag |-> "USED", key |-> k]
  <2>1. p \in 0..(n - 1) /\ items[p].flag # "USED" /\ p # -1  BY <1>6, <1>7, <1>9
  <2>2. insert_slot(items, k) = p  BY <1>2, <2>1
  <2>3. t = [items EXCEPT ![p] = new]  BY <2>1, <2>2 DEF hash_map_insert0
  <2> HIDE DEF p, t
  <2>4. new \in HItem /\ new.flag = "USED" /\ new.key = k  BY DEF HItem
  <2> HIDE DEF new
  <2>5. t \in [0..(n - 1) -> HItem]  BY <1>1, <2>3, <2>4
  <2>6. t[p] = new /\ \A s \in 0..(n - 1) : s # p => t[s] = items[s]  BY <1>1, <2>1, <2>3
  <2>7. Used(t) = {s \in 0..(n - 1) : t[s].flag = "USED"}  BY <2>5 DEF Used
  <2>8. Used(t) = Used(items) \cup {p}  BY <1>4, <2>1, <2>4, <2>6, <2>7
  <2>9. p \notin Used(items)  BY <1>4, <2>1
  <2>10. Stored(t) = Stored(items) \cup {k}
    <3>1. \A s \in Used(items) : t[s].key = items[s].key  BY <1>4, <2>6, <2>9
    <3>2. t[p].key = k  BY <2>4, <2>6
    <3> QED BY <2>8, <3>1, <3>2 DEF Stored
  <2>11. Stored(items) \subseteq HKey  BY DEF TableOK
  <2>12. ASSUME NEW k2 \in HKey, NEW i \in 0..(n - 1),
                t[At(k2, i, n)].flag = "USED", t[At(k2, i, n)].key = k2,
                NEW j \in 0..(i - 1)
         PROVE  t[At(k2, j, n)].flag # "EMPTY" /\ t[At(k2, j, n)].key # k2
    <3>1. j \in 0..(n - 1) /\ j # i  OBVIOUS
    <3>2. At(k2, i, n) \in 0..(n - 1) /\ At(k2, j, n) \in 0..(n - 1)  BY <3>1, AtSlots
    <3>3. CASE At(k2, i, n) = p
      <4>1. k2 = k  BY <2>4, <2>6, <2>12, <3>3
      <4>2. i = d  BY <1>9, <3>3, <4>1, AtSlots
      <4>3. At(k, j, n) # p  BY <1>9, <3>1, <4>2, AtSlots
      <4>4. At(k, j, n) \notin stops  BY <1>9, <4>2
      <4>5. items[At(k, j, n)].flag = "USED"  BY <1>6, <3>2, <4>1, <4>4
      <4> QED BY <1>5, <2>6, <3>2, <4>1, <4>3, <4>5
    <3>4. CASE At(k2, i, n) # p
      <4>1. items[At(k2, i, n)].flag = "USED" /\ items[At(k2, i, n)].key = k2
        BY <2>6, <2>12, <3>2, <3>4
      <4>2. k2 # k  BY <1>5, <3>2, <4>1
      <4>3. items[At(k2, j, n)].flag # "EMPTY" /\ items[At(k2, j, n)].key # k2
        BY <4>1 DEF TableOK
      <4> QED BY <2>4, <2>6, <3>2, <4>2, <4>3
    <3> QED BY <3>3, <3>4
  <2>13. TableOK(t, n)  BY <2>5, <2>10, <2>11, <2>12 DEF TableOK
  <2> QED BY <2>1, <2>2, <2>8, <2>9, <2>10, <2>13 DEF t
<1>10. \/ p = -1 /\ \A i \in 0..(n - 1) : At(k, i, n) \notin stops
       \/ \E i \in 0..(n - 1) : /\ p = At(k, i, n) /\ At(k, i, n) \in stops
                                /\ \A j \in 0..(i - 1) : At(k, j, n) \notin stops
  BY <1>1, ProbeFirst
<1> HIDE DEF p
<1> QED BY <1>8, <1>9, <1>10

\* A key that is stored is refused unless the scan stops at a deleted slot.
LEMMA BehindDeleted ==
  ASSUME NEW n \in Nat \ {0}, NEW items, TableOK(items, n),
         NEW k \in Stored(items), insert_slot(items, k) # -1
  PROVE  Deleted(items) # {}
<1> DEFINE stops == Flagged(items, {"EMPTY", "DELETE"}) \cup Holding(items, k)
           p == Probe(items, k, stops)
<1>1. items \in [0..(n - 1) -> HItem] /\ k \in HKey  BY DEF TableOK
<1>2. p # -1 /\ items[p].flag # "USED"  BY DEF insert_slot
<1>3. PICK s \in Used(items) : items[s].key = k  BY DEF Stored
<1>4. s \in 0..(n - 1) /\ items[s].flag = "USED" /\ s \in stops
  BY <1>1, <1>3 DEF Used, Holding
<1>5. PICK d \in 0..(n - 1) : At(k, d, n) = s  BY <1>1, <1>4, AtSlots
<1> HIDE DEF stops
<1>6. PICK i \in 0..(n - 1) : /\ p = At(k, i, n)
                              /\ \A j \in 0..(i - 1) : At(k, j, n) \notin stops
  BY <1>1, <1>2, ProbeFirst
<1>7. i \in 0..(d - 1)
  <2>1. i # d  BY <1>2, <1>4, <1>5, <1>6
  <2>2. ~(d < i)
    <3>1. d < i => d \in 0..(i - 1)  OBVIOUS
    <3> QED BY <1>4, <1>5, <1>6, <3>1
  <2> QED BY <2>1, <2>2
<1>8. p \in 0..(n - 1)  BY <1>1, <1>6, AtSlots
<1>9. items[p].flag # "EMPTY"  BY <1>1, <1>3, <1>4, <1>5, <1>6, <1>7 DEF TableOK
<1>10. items[p].flag = "DELETE"  BY <1>1, <1>2, <1>8, <1>9 DEF HItem
<1> QED BY <1>1, <1>8, <1>10 DEF Deleted, Flagged

\* A key is stored in one slot.
LEMMA KeyOnce ==
  ASSUME NEW n \in Nat \ {0}, NEW items, TableOK(items, n),
         NEW r \in Used(items), NEW s \in Used(items), items[r].key = items[s].key
  PROVE  r = s
<1> DEFINE k == items[s].key
<1>1. items \in [0..(n - 1) -> HItem] /\ Stored(items) \subseteq HKey  BY DEF TableOK
<1>2. k \in HKey /\ items[r].key = k  BY <1>1 DEF Stored
<1>3. /\ r \in 0..(n - 1) /\ items[r].flag = "USED"
      /\ s \in 0..(n - 1) /\ items[s].flag = "USED"
  BY <1>1 DEF Used
<1>4. PICK a \in 0..(n - 1) : At(k, a, n) = s  BY <1>2, <1>3, AtSlots
<1>5. PICK b \in 0..(n - 1) : At(k, b, n) = r  BY <1>2, <1>3, AtSlots
<1>6. \A c \in 0..(a - 1) : items[At(k, c, n)].key # k
  BY <1>2, <1>3, <1>4 DEF TableOK
<1>7. \A c \in 0..(b - 1) : items[At(k, c, n)].key # k
  BY <1>2, <1>3, <1>5 DEF TableOK
<1>8. a \in 0..(b - 1) \/ b \in 0..(a - 1) \/ a = b  OBVIOUS
<1> QED BY <1>2, <1>4, <1>5, <1>6, <1>7, <1>8

\* A deleted slot does not end the searches that pass it.
LEMMA EraseOK ==
  ASSUME NEW n \in Nat \ {0}, NEW items, TableOK(items, n), NEW s \in Used(items),
         NEW t, t = [items EXCEPT ![s].flag = "DELETE"]
  PROVE  /\ TableOK(t, n)
         /\ Stored(t) = Stored(items) \ {items[s].key}
         /\ Used(t) = Used(items) \ {s}
<1>1. items \in [0..(n - 1) -> HItem]  BY DEF TableOK
<1>2. s \in 0..(n - 1) /\ items[s].flag = "USED" /\ items[s].key \in HKey
  BY <1>1 DEF Used, TableOK, Stored
<1>3. t \in [0..(n - 1) -> HItem]  BY <1>1, <1>2 DEF HItem
<1>4. /\ t[s].flag = "DELETE" /\ t[s].key = items[s].key
      /\ \A r \in 0..(n - 1) : r # s => t[r] = items[r]
  BY <1>1, <1>2 DEF HItem
<1>5. /\ Used(t) = {r \in 0..(n - 1) : t[r].flag = "USED"}
      /\ Used(items) = {r \in 0..(n - 1) : items[r].flag = "USED"}
  BY <1>1, <1>3 DEF Used
<1>6. Used(t) = Used(items) \ {s}  BY <1>2, <1>4, <1>5
<1>7. \A r \in 0..(n - 1) : t[r].key = items[r].key
                            /\ (t[r].flag = "EMPTY" <=> items[r].flag = "EMPTY")
  BY <1>2, <1>4
<1>8. TableOK(t, n)
  <2>1. Stored(t) \subseteq HKey
    <3>1. \A r \in Used(t) : r \in Used(items) /\ t[r].key = items[r].key
      BY <1>5, <1>6, <1>7
    <3>2. \A r \in Used(items) : items[r].key \in HKey  BY DEF Stored, TableOK
    <3> QED BY <3>1, <3>2 DEF Stored
  <2>2. ASSUME NEW k \in HKey, NEW i \in 0..(n - 1),
               t[At(k, i, n)].flag = "USED", t[At(k, i, n)].key = k, NEW j \in 0..(i - 1)
        PROVE  t[At(k, j, n)].flag # "EMPTY" /\ t[At(k, j, n)].key # k
    <3>1. j \in 0..(n - 1)  OBVIOUS
    <3>2. At(k, i, n) \in 0..(n - 1) /\ At(k, j, n) \in 0..(n - 1)  BY <3>1, AtSlots
    <3>3. items[At(k, i, n)].flag = "USED" /\ items[At(k, i, n)].key = k
      BY <1>4, <2>2, <3>2
    <3>4. items[At(k, j, n)].flag # "EMPTY" /\ items[At(k, j, n)].key # k
      BY <3>3 DEF TableOK
    <3> QED BY <1>7, <3>2, <3>4
  <2> QED BY <1>3, <2>1, <2>2 DEF TableOK
<1>9. Stored(t) = Stored(items) \ {items[s].key}
  <2>1. \A r \in Used(items) : r # s => items[r].key # items[s].key  BY KeyOnce
  <2>2. Stored(t) = {items[r].key : r \in Used(items) \ {s}}
    <3>1. \A r \in Used(t) : t[r].key = items[r].key  BY <1>5, <1>7
    <3> QED BY <1>6, <3>1 DEF Stored
  <2>3. Stored(items) = {items[r].key : r \in Used(items)}  BY DEF Stored
  <2> QED BY <2>1, <2>2, <2>3
<1> QED BY <1>6, <1>8, <1>9


-----------------------------------------------------------------------------
(* hash_map_expand.                                                        *)

\* The recursive function in hash_map_expand: the new table once the first i
\* slots of the old one are inserted again.
Again(x, e) == IF e.flag = "USED" THEN hash_map_insert0(x, e.key) ELSE x
IsRe(f, items, n) ==
  f = [i \in 0..n |-> IF i = 0 THEN calloc(2 * n) ELSE Again(f[i - 1], items[i - 1])]

LEMMA CallocOK ==
  ASSUME NEW n \in Nat \ {0}
  PROVE  /\ calloc(n) \in [0..(n - 1) -> HItem] /\ TableOK(calloc(n), n)
         /\ Stored(calloc(n)) = {} /\ Used(calloc(n)) = {}
<1>1. EmptyItem \in HItem /\ EmptyItem.flag = "EMPTY"  BY DEF EmptyItem, HItem
<1>2. calloc(n) \in [0..(n - 1) -> HItem] /\ \A s \in 0..(n - 1) : calloc(n)[s] = EmptyItem
  BY <1>1 DEF calloc
<1>3. Used(calloc(n)) = {}  BY <1>1, <1>2 DEF Used
<1>4. Stored(calloc(n)) = {}  BY <1>3 DEF Stored
<1>5. TableOK(calloc(n), n)
  <2>1. ASSUME NEW k \in HKey, NEW i \in 0..(n - 1)
        PROVE  calloc(n)[At(k, i, n)].flag # "USED"
    BY <1>1, <1>2, AtSlots
  <2> QED BY <1>2, <1>4, <2>1 DEF TableOK
<1> QED BY <1>2, <1>3, <1>4, <1>5

LEMMA Insert0Type ==
  ASSUME NEW n \in Nat \ {0}, NEW x \in [0..(n - 1) -> HItem], NEW k \in HKey
  PROVE  hash_map_insert0(x, k) \in [0..(n - 1) -> HItem]
<1> DEFINE new == [flag |-> "USED", key |-> k]
<1>1. new \in HItem  BY DEF HItem
<1> HIDE DEF new
<1>2. [x EXCEPT ![insert_slot(x, k)] = new] \in [0..(n - 1) -> HItem]  BY <1>1
<1> QED BY <1>2 DEF hash_map_insert0, new

LEMMA Insert0Deleted ==
  ASSUME NEW n \in Nat \ {0}, NEW x \in [0..(n - 1) -> HItem], NEW k \in HKey
  PROVE  Deleted(hash_map_insert0(x, k)) \subseteq Deleted(x)
BY DEF hash_map_insert0, Deleted, Flagged

LEMMA ReDefined ==
  ASSUME NEW n \in Nat \ {0}, NEW items, TableOK(items, n)
  PROVE  \E f : IsRe(f, items, n)
<1> DEFINE S == [0..(2 * n - 1) -> HItem]
           G == [i \in 1..n |-> [x \in S |-> Again(x, items[i - 1])]]
<1>1. 2 * n \in Nat \ {0}  OBVIOUS
<1>2. calloc(2 * n) \in S  BY <1>1, CallocOK
<1>3. ASSUME NEW i \in 1..n, NEW x \in S PROVE Again(x, items[i - 1]) \in S
  <2>1. i - 1 \in 0..(n - 1) /\ items \in [0..(n - 1) -> HItem]  BY DEF TableOK
  <2>2. items[i - 1].flag = "USED" => items[i - 1].key \in HKey
    BY <2>1 DEF TableOK, Stored, Used
  <2> QED BY <1>1, <2>2, Insert0Type DEF Again
<1> HIDE DEF S
<1>4. G \in [1..n -> [S -> S]]  BY <1>3
<1>5. PICK f \in [0..n -> S] : Follows(f, calloc(2 * n), G, n)
  BY <1>2, <1>4, RecDefined
<1>6. ASSUME NEW i \in 0..n
      PROVE  f[i] = IF i = 0 THEN calloc(2 * n) ELSE Again(f[i - 1], items[i - 1])
  <2>1. CASE i = 0  BY <1>5, <2>1 DEF Follows
  <2>2. CASE i # 0
    <3>1. i \in 1..n /\ f[i - 1] \in S  BY <2>2
    <3>2. f[i] = G[i][f[i - 1]]  BY <1>5, <3>1 DEF Follows
    <3> QED BY <2>2, <3>1, <3>2
  <2> QED BY <2>1, <2>2
<1>7. f = [i \in 0..n |-> f[i]]  OBVIOUS
<1>8. IsRe(f, items, n)  BY <1>6, <1>7 DEF IsRe
<1> QED BY <1>8


\* hash_map_expand loses no key: there is always a slot for the next one.
LEMMA ExpandOK ==
  ASSUME NEW n \in Nat \ {0}, NEW h, TableOK(h.items, n),
         h = [items |-> h.items, size |-> h.size, expand_size |-> h.expand_size]
  PROVE  LET g == hash_map_expand(h)
         IN  /\ TableOK(g.items, 2 * n) /\ Stored(g.items) = Stored(h.items)
             /\ Cardinality(Used(g.items)) = Cardinality(Used(h.items))
             /\ Deleted(g.items) = {}
             /\ g = [items |-> g.items, size |-> h.size, expand_size |-> g.expand_size]
<1> DEFINE items == h.items
           f == CHOOSE g : IsRe(g, items, n)
           g == hash_map_expand(h)
           Before(i) == {s \in Used(items) : s < i}
           Good(i) == /\ TableOK(f[i], 2 * n)
                      /\ Stored(f[i]) = {items[s].key : s \in Before(i)}
                      /\ Cardinality(Used(f[i])) = Cardinality(Before(i))
                      /\ Deleted(f[i]) = {}
<1>1. items \in [0..(n - 1) -> HItem]  BY DEF TableOK
<1>2. slot_size(h) = n  BY <1>1, SlotCount DEF slot_size
<1>3. g = [h EXCEPT !.items = f[n], !.expand_size = 2 * n - (2 * n) \div 4]
  BY <1>2 DEF hash_map_expand, IsRe, Again
<1>4. IsRe(f, items, n)  BY ReDefined
<1> HIDE DEF f, g
<1>5. \A i \in 0..n : f[i] = IF i = 0 THEN calloc(2 * n) ELSE Again(f[i - 1], items[i - 1])
  BY <1>4 DEF IsRe
<1>6. g = [items |-> f[n], size |-> h.size, expand_size |-> g.expand_size]
  BY <1>3
<1>7. Used(items) = {s \in 0..(n - 1) : items[s].flag = "USED"}  BY <1>1 DEF Used
<1>8. 2 * n \in Nat \ {0}  OBVIOUS
<1>9. IsFiniteSet(0..(n - 1)) /\ Cardinality(0..(n - 1)) = n
      /\ IsFiniteSet(0..(2 * n - 1)) /\ Cardinality(0..(2 * n - 1)) = 2 * n
  BY <1>8, Interval0
<1>10. \A i \in 0..n : IsFiniteSet(Before(i)) /\ Cardinality(Before(i)) \in 0..n
  <2>1. \A i \in 0..n : Before(i) \in SUBSET (0..(n - 1))  BY <1>7
  <2> HIDE DEF Before
  <2> QED BY <1>9, <2>1, FS_Subset, FS_CardinalityType
<1>11. Good(0)
  <2>1. f[0] = calloc(2 * n)  BY <1>5
  <2>2. Before(0) = {}  BY <1>7
  <2>3. Deleted(calloc(2 * n)) = {}  BY <1>8 DEF calloc, EmptyItem, Deleted, Flagged
  <2> QED BY <1>8, <2>1, <2>2, <2>3, CallocOK, FS_EmptySet
<1>12. ASSUME NEW i \in 1..n, Good(i - 1) PROVE Good(i)
  <2> DEFINE e == items[i - 1]
             x == f[i - 1]
  <2>1. f[i] = Again(x, e) /\ i - 1 \in 0..(n - 1) /\ i - 1 \in 0..n  BY <1>5
  <2>2. CASE e.flag # "USED"
    <3>1. f[i] = x  BY <2>1, <2>2 DEF Again
    <3>2. Before(i) = Before(i - 1)  BY <1>7, <2>1, <2>2
    <3> QED BY <1>12, <3>1, <3>2
  <2>3. CASE e.flag = "USED"
    <3> DEFINE k == e.key
    <3>1. f[i] = hash_map_insert0(x, k)  BY <2>1, <2>3 DEF Again
    <3>2. i - 1 \in Used(items) /\ i - 1 \notin Before(i - 1)  BY <1>7, <2>1, <2>3
    <3>3. Before(i) = Before(i - 1) \cup {i - 1}  BY <1>7, <2>1, <2>3
    <3>4. k \in HKey  BY <3>2 DEF TableOK, Stored
    <3>5. \A s \in Before(i - 1) : items[s].key # k  BY <3>2, KeyOnce
    <3>6. k \notin Stored(x) /\ TableOK(x, 2 * n)  BY <1>12, <3>5
    <3>7. Used(x) # 0..(2 * n - 1)
      <4>1. Cardinality(Used(x)) \in 0..n  BY <1>10, <1>12, <2>1
      <4> QED BY <1>9, <4>1
    <3>8. /\ TableOK(f[i], 2 * n) /\ Stored(f[i]) = Stored(x) \cup {k}
          /\ \E s \in 0..(2 * n - 1) : s \notin Used(x) /\ Used(f[i]) = Used(x) \cup {s}
      BY <1>8, <3>1, <3>4, <3>6, <3>7, InsertOK
    <3>9. Stored(f[i]) = {items[s].key : s \in Before(i)}
      <4>1. Stored(x) = {items[s].key : s \in Before(i - 1)}  BY <1>12
      <4> HIDE DEF Before, x
      <4> QED BY <3>3, <3>8, <4>1
    <3>10. Cardinality(Used(f[i])) = Cardinality(Before(i))
      <4>1. Cardinality(Before(i)) = Cardinality(Before(i - 1)) + 1
        <5> HIDE DEF Before
        <5> QED BY <1>10, <2>1, <3>2, <3>3, FS_AddElement
      <4>2. Used(x) \in SUBSET (0..(2 * n - 1))  BY <3>6 DEF TableOK, Used
      <4>3. IsFiniteSet(Used(x))  BY <1>9, <4>2, FS_Subset
      <4>4. Cardinality(Used(f[i])) = Cardinality(Used(x)) + 1
        BY <3>8, <4>3, FS_AddElement
      <4> QED BY <1>12, <4>1, <4>4
    <3>11. Deleted(f[i]) = {}
      <4>1. x \in [0..(2 * n - 1) -> HItem]  BY <3>6 DEF TableOK
      <4> QED BY <1>8, <1>12, <3>1, <3>4, <4>1, Insert0Deleted
    <3> QED BY <3>8, <3>9, <3>10, <3>11
  <2> QED BY <2>2, <2>3
<1>13. Good(n)
  <2> HIDE DEF Good
  <2> DEFINE Bad == {i \in 0..n : ~Good(i)}
  <2>1. ASSUME Bad # {} PROVE FALSE
    <3>1. Bad \in SUBSET Nat  OBVIOUS
    <3>2. PICK m \in Bad : \A y \in Bad : m <= y  BY <2>1, <3>1, LeastElement
    <3>3. m \in 1..n  BY <1>11, <3>2
    <3>4. m - 1 \in 0..n /\ ~(m <= m - 1)  BY <3>3
    <3>5. Good(m - 1)  BY <3>2, <3>4
    <3> QED BY <1>12, <3>2, <3>3, <3>5
  <2> QED BY <2>1
<1>14. Before(n) = Used(items)  BY <1>7
<1>15. Stored(items) = {items[s].key : s \in Used(items)}  BY DEF Stored
<1>16. g.items = f[n]  BY <1>6
<1> HIDE DEF Before
<1> QED BY <1>6, <1>13, <1>14, <1>15, <1>16 DEF g


-----------------------------------------------------------------------------
(* The map.                                                                *)

\* h is a map of n slots, and its size counts the used ones.
MapOK(h, n) ==
  /\ TableOK(h.items, n)
  /\ h = [items |-> h.items, size |-> Cardinality(Used(h.items)),
          expand_size |-> h.expand_size]

MapSound == \E n \in Nat \ {0} : MapOK(hm, n)

HashInv == twice \in BOOLEAN /\ (~twice => MapSound)

LEMMA UsedFinite ==
  ASSUME NEW n \in Nat \ {0}, NEW items, TableOK(items, n)
  PROVE  IsFiniteSet(Used(items)) /\ Cardinality(Used(items)) \in Nat
<1>1. Used(items) \in SUBSET (0..(n - 1))  BY DEF TableOK, Used
<1>2. IsFiniteSet(0..(n - 1))  BY FS_Interval
<1> QED BY <1>1, <1>2, FS_Subset, FS_CardinalityType

LEMMA HashStart ==
  ASSUME HashInit
  PROVE  /\ twice = FALSE /\ MapSound
         /\ Stored(hm.items) = {} /\ hm.size = 0
<1>1. Slots \in Nat \ {0}  BY HashAssumption
<1>2. hm = [items |-> calloc(Slots), size |-> 0, expand_size |-> Slots - Slots \div 4]
  BY DEF HashInit, hash_map_create
<1>3. hm.items = calloc(Slots) /\ hm.size = 0  BY <1>2
<1>4. /\ TableOK(hm.items, Slots) /\ Stored(hm.items) = {}
      /\ Cardinality(Used(hm.items)) = 0
  BY <1>1, <1>3, CallocOK, FS_EmptySet
<1>5. MapOK(hm, Slots)  BY <1>2, <1>3, <1>4 DEF MapOK
<1> QED BY <1>1, <1>3, <1>4, <1>5 DEF HashInit, MapSound

\* An insertion adds the key, stores it a second time or changes neither the
\* keys nor the size: it may be refused, and a table that cannot grow be full.
LEMMA InsertStep ==
  ASSUME MapSound, twice = FALSE, NEW k \in HKey, hash_map_insert(k)
  PROVE  \/ twice' = TRUE /\ Deleted(hm.items) # {}
         \/ /\ twice' = FALSE /\ MapSound'
            /\ Stored(hm'.items) = Stored(hm.items) /\ hm'.size = hm.size
         \/ /\ twice' = FALSE /\ MapSound'
            /\ k \notin Stored(hm.items)
            /\ Stored(hm'.items) = Stored(hm.items) \cup {k}
            /\ hm'.size = hm.size + 1
<1>1. PICK n \in Nat \ {0} : MapOK(hm, n)  BY DEF MapSound
<1> DEFINE Put(h) == [h EXCEPT !.items = hash_map_insert0(@, k), !.size = @ + 1]
           Leaves(h) == hm' = h /\ twice' = FALSE
           Stores(h) == /\ insert_slot(h.items, k) # -1 /\ hm' = Put(h)
                        /\ twice' = (hash_map_find(h, k) # -1)
<1>2. PICK h : (h = hm \/ h = hash_map_expand(hm)) /\ (Leaves(h) \/ Stores(h))
  <2> DEFINE Grown(room) == IF /\ slot_size(hm) < MaxSlots
                               /\ hm.size >= hm.expand_size /\ room
                            THEN hash_map_expand(hm) ELSE hm
  <2>1. PICK room \in BOOLEAN : Leaves(Grown(room)) \/ Stores(Grown(room))
    BY DEF hash_map_insert
  <2> HIDE DEF Leaves, Stores
  <2> QED BY <2>1
<1> HIDE DEF Put
<1>3. PICK m \in Nat \ {0} :
        /\ MapOK(h, m) /\ Stored(h.items) = Stored(hm.items) /\ h.size = hm.size
        /\ Deleted(h.items) \subseteq Deleted(hm.items)
  <2>1. CASE h = hm  BY <1>1, <2>1
  <2>2. CASE h = hash_map_expand(hm)
    <3>1. /\ TableOK(hm.items, n) /\ hm.size = Cardinality(Used(hm.items))
          /\ hm = [items |-> hm.items, size |-> hm.size, expand_size |-> hm.expand_size]
      BY <1>1 DEF MapOK
    <3>2. /\ TableOK(h.items, 2 * n) /\ Stored(h.items) = Stored(hm.items)
          /\ Cardinality(Used(h.items)) = Cardinality(Used(hm.items))
          /\ Deleted(h.items) = {}
          /\ h = [items |-> h.items, size |-> hm.size, expand_size |-> h.expand_size]
      BY <2>2, <3>1, ExpandOK
    <3>3. h.size = hm.size  BY <3>2
    <3>4. MapOK(h, 2 * n)  BY <3>1, <3>2, <3>3 DEF MapOK
    <3>5. 2 * n \in Nat \ {0}  OBVIOUS
    <3> QED BY <3>2, <3>3, <3>4, <3>5
  <2> QED BY <1>2, <2>1, <2>2
<1>4. CASE Leaves(h)
  <2>1. MapSound'  BY <1>3, <1>4 DEF MapSound, MapOK
  <2> QED BY <1>3, <1>4, <2>1
<1>5. CASE Stores(h) /\ k \in Stored(h.items)
  <2>1. hash_map_find(h, k) # -1  BY <1>3, <1>5, FindStored DEF MapOK
  <2>2. Deleted(h.items) # {}  BY <1>3, <1>5, BehindDeleted DEF MapOK
  <2> QED BY <1>3, <1>5, <2>1, <2>2
<1>6. CASE Stores(h) /\ k \notin Stored(h.items)
  <2> DEFINE t == hash_map_insert0(h.items, k)
  <2>1. /\ TableOK(h.items, m) /\ h.size = Cardinality(Used(h.items))
        /\ h = [items |-> h.items, size |-> h.size, expand_size |-> h.expand_size]
    BY <1>3 DEF MapOK
  <2>2. hm' = [items |-> t, size |-> h.size + 1, expand_size |-> h.expand_size]
    BY <1>6, <2>1 DEF Put
  <2>3. /\ TableOK(t, m) /\ Stored(t) = Stored(h.items) \cup {k}
        /\ \E s \in 0..(m - 1) : s \notin Used(h.items) /\ Used(t) = Used(h.items) \cup {s}
    BY <1>3, <1>6, <2>1, InsertOK
  <2> HIDE DEF t
  <2>4. Cardinality(Used(t)) = h.size + 1
    <3>1. PICK s \in 0..(m - 1) : s \notin Used(h.items) /\ Used(t) = Used(h.items) \cup {s}
      BY <2>3
    <3>2. IsFiniteSet(Used(h.items))  BY <2>1, UsedFinite
    <3>3. Cardinality(Used(h.items) \cup {s}) = Cardinality(Used(h.items)) + 1
      BY <3>1, <3>2, FS_AddElement
    <3> QED BY <2>1, <3>1, <3>3
  <2>5. hm'.items = t /\ hm'.size = h.size + 1 /\ hm'.expand_size = h.expand_size  BY <2>2
  <2>6. MapOK(hm', m)  BY <2>2, <2>3, <2>4, <2>5 DEF MapOK
  <2>7. MapSound'  BY <1>3, <2>6 DEF MapSound
  <2>8. hash_map_find(h, k) = -1  BY <1>3, <1>6, FindStored DEF MapOK
  <2>9. twice' = FALSE  BY <1>6, <2>8
  <2> QED BY <1>3, <1>6, <2>3, <2>5, <2>7, <2>9
<1> QED BY <1>2, <1>4, <1>5, <1>6

LEMMA RemoveStep ==
  ASSUME MapSound, NEW k \in HKey, hash_map_remove(k)
  PROVE  /\ MapSound'
         /\ \/ Stored(hm'.items) = Stored(hm.items) /\ hm'.size = hm.size
            \/ /\ k \in Stored(hm.items)
               /\ Stored(hm'.items) = Stored(hm.items) \ {k}
               /\ hm'.size = hm.size - 1
<1>1. PICK n \in Nat \ {0} : MapOK(hm, n)  BY DEF MapSound
<1>2. /\ TableOK(hm.items, n) /\ hm.size = Cardinality(Used(hm.items))
      /\ hm = [items |-> hm.items, size |-> hm.size, expand_size |-> hm.expand_size]
  BY <1>1 DEF MapOK
<1> DEFINE s == hash_map_find(hm, k)
<1>3. CASE s = -1
  <2>1. hm' = hm  BY <1>3 DEF hash_map_remove
  <2> QED BY <2>1 DEF MapSound
<1>4. CASE s # -1
  <2>1. k \in Stored(hm.items) /\ s \in Used(hm.items) /\ hm.items[s].key = k
    BY <1>2, <1>4, FindStored
  <2>2. hm' = [hm EXCEPT !.items[s].flag = "DELETE", !.size = @ - 1]
    BY <1>4 DEF hash_map_remove, hash_map_erase
  <2> HIDE DEF s
  <2> DEFINE t == [hm.items EXCEPT ![s].flag = "DELETE"]
  <2>3. hm' = [items |-> t, size |-> hm.size - 1, expand_size |-> hm.expand_size]
    BY <1>2, <2>2
  <2>4. /\ TableOK(t, n) /\ Stored(t) = Stored(hm.items) \ {k}
        /\ Used(t) = Used(hm.items) \ {s}
    BY <1>2, <2>1, EraseOK
  <2> HIDE DEF t
  <2>5. Cardinality(Used(t)) = hm.size - 1
    BY <1>2, <2>1, <2>4, UsedFinite, FS_RemoveElement
  <2>6. /\ hm'.items = t /\ hm'.size = hm.size - 1 /\ hm'.expand_size = hm.expand_size
    BY <2>3
  <2>7. MapOK(hm', n)  BY <2>3, <2>4, <2>5, <2>6 DEF MapOK
  <2>8. MapSound'  BY <2>7 DEF MapSound
  <2> QED BY <2>1, <2>4, <2>6, <2>8
<1> QED BY <1>3, <1>4

LEMMA HashKeys ==
  ASSUME MapSound
  PROVE  {k \in HKey : hash_map_find(hm, k) # -1} = Stored(hm.items)
<1>1. PICK n \in Nat \ {0} : TableOK(hm.items, n)  BY DEF MapSound, MapOK
<1>2. Stored(hm.items) \subseteq HKey  BY <1>1 DEF TableOK
<1>3. \A k \in HKey : hash_map_find(hm, k) # -1 <=> k \in Stored(hm.items)
  BY <1>1, FindStored
<1> QED BY <1>2, <1>3

\* For any hash codes, any first size and any bound on the growth, hash_map.c is
\* a map until it stores a key a second time: collisions, tombstones, refused
\* insertions and the growth of the table lose no key and count none twice.  A key
\* is stored a second time only while there is a deleted slot.
THEOREM HashImplements == HashSpec => HashRefined
<1>1. HashInit => HashInv  BY HashStart DEF HashInv
<1>2. ASSUME HashInv, [HashNext]_hashVars PROVE HashInv'
  <2>1. CASE UNCHANGED hashVars  BY <1>2, <2>1 DEF HashInv, MapSound, hashVars
  <2>2. CASE twice = TRUE /\ HashNext
    <3>1. twice' = TRUE
      BY <1>2, <2>2 DEF HashNext, hash_map_insert, hash_map_remove
    <3> QED BY <3>1 DEF HashInv
  <2>3. CASE twice = FALSE /\ HashNext
    <3>1. MapSound  BY <1>2, <2>3 DEF HashInv
    <3>2. PICK k \in HKey : hash_map_insert(k) \/ hash_map_remove(k)  BY <2>3 DEF HashNext
    <3>3. twice' = TRUE \/ (twice' = FALSE /\ MapSound')
      <4>1. CASE hash_map_insert(k)  BY <2>3, <3>1, <4>1, InsertStep
      <4>2. CASE hash_map_remove(k)
        BY <2>3, <3>1, <4>2, RemoveStep DEF hash_map_remove
      <4> QED BY <3>2, <4>1, <4>2
    <3> QED BY <3>3 DEF HashInv
  <2> QED BY <1>2, <2>1, <2>2, <2>3 DEF HashInv
<1>3. HashSpec => []HashInv  BY <1>1, <1>2, PTL DEF HashSpec
<1>4. HashInit => found = {} /\ hm.size = 0  BY HashStart, HashKeys DEF found
<1>5. ASSUME HashInv, HashInv', [HashNext]_hashVars
      PROVE  [UNCHANGED hm \/ twice' \/ AsMap!Next]_<<found, hm.size>>
  <2>1. CASE twice' = TRUE  BY <2>1
  <2>2. CASE twice' = FALSE
    <3>1. twice = FALSE
      BY <1>5, <2>2 DEF HashInv, HashNext, hash_map_insert, hash_map_remove, hashVars
    <3>2. MapSound /\ MapSound'  BY <1>5, <2>2, <3>1 DEF HashInv
    <3>3. found = Stored(hm.items)  BY <3>2, HashKeys DEF found
    <3>4. (MapSound => found = Stored(hm.items))'  BY HashKeys, PTL DEF found
    <3>5. found' = Stored(hm'.items)  BY <3>2, <3>4
    <3>6. CASE found' = found /\ hm'.size = hm.size  BY <3>6
    <3>7. ASSUME NEW k \in HKey, hash_map_insert(k)
          PROVE  [AsMap!Next]_<<found, hm.size>>
      <4>1. CASE k \notin found /\ found' = found \cup {k} /\ hm'.size = hm.size + 1
        <5>1. AsMap!Insert(k)  BY <4>1 DEF AsMap!Insert
        <5> QED BY <5>1 DEF AsMap!Next
      <4> QED BY <2>2, <3>1, <3>2, <3>3, <3>5, <3>6, <3>7, <4>1, InsertStep
    <3>8. ASSUME NEW k \in HKey, hash_map_remove(k)
          PROVE  [AsMap!Next]_<<found, hm.size>>
      <4>1. CASE k \in found /\ found' = found \ {k} /\ hm'.size = hm.size - 1
        <5>1. AsMap!Remove(k)  BY <4>1 DEF AsMap!Remove
        <5> QED BY <5>1 DEF AsMap!Next
      <4> QED BY <3>2, <3>3, <3>5, <3>6, <3>8, <4>1, RemoveStep
    <3>9. CASE UNCHANGED hashVars  BY <3>3, <3>5, <3>6, <3>9 DEF hashVars
    <3> QED BY <1>5, <3>7, <3>8, <3>9 DEF HashNext
  <2> QED BY <1>5, <2>1, <2>2 DEF HashInv
<1>6. ASSUME HashInv, [HashNext]_hashVars
      PROVE  [Flagged(hm.items, {"DELETE"}) # {}]_twice
  <2>1. CASE twice = TRUE
    BY <1>6, <2>1 DEF HashNext, hash_map_insert, hash_map_remove, hashVars
  <2>2. CASE twice = FALSE
    <3>1. MapSound  BY <1>6, <2>2 DEF HashInv
    <3>2. CASE \E k \in HKey : hash_map_insert(k)
      BY <2>2, <3>1, <3>2, InsertStep DEF Deleted
    <3>3. CASE \E k \in HKey : hash_map_remove(k)  BY <3>3 DEF hash_map_remove
    <3>4. CASE UNCHANGED hashVars  BY <3>4 DEF hashVars
    <3> QED BY <1>6, <3>2, <3>3, <3>4 DEF HashNext
  <2> QED BY <1>6, <2>1, <2>2 DEF HashInv
<1> QED BY <1>3, <1>4, <1>5, <1>6, PTL DEF HashSpec, HashRefined

-----------------------------------------------------------------------------
(* list.c.  The strengthening: the nodes that are not freed are a sequence *)
(* in which every node points to its neighbours, the embedded nodes head   *)
(* and end included.                                                       *)

ListRec == [next : [Cell -> Cell \cup {NoNode}], pre : [Cell -> Cell \cup {NoNode}],
            value : [Cell -> Val \cup {NoNode}], size : Nat]

\* The nodes of c with head before and end after them.
Place(c, i) == IF i = 0 THEN head ELSE IF i = Len(c) + 1 THEN end ELSE c[i]

Chain(l, c) ==
  /\ l \in ListRec
  /\ NoRepeat(c) /\ Elems(c) = Alive(l) /\ l.size = Len(c)
  /\ \A i \in 0..Len(c) : /\ l.next[Place(c, i)] = Place(c, i + 1)
                          /\ l.pre[Place(c, i + 1)] = Place(c, i)

ListInv == \E c \in Seq(1..MaxNodes) : Chain(dl, c)

Values(l, c) == [i \in 1..Len(c) |-> l.value[c[i]]]

LEMMA CellRange == Cell = 0..(MaxNodes + 1) /\ head = 0 /\ end = MaxNodes + 1 /\ NoNode = -1
BY DEF Cell, head, end, NoNode

\* A sequence given by its members, and one more of them.
LEMMA OneMore ==
  ASSUME NEW V, NEW m \in Nat, NEW h \in [1..(m + 1) -> V]
  PROVE  Append([i \in 1..m |-> h[i]], h[m + 1]) = [i \in 1..(m + 1) |-> h[i]]
<1> DEFINE s == [i \in 1..m |-> h[i]]
<1>1. s \in Seq(V) /\ Len(s) = m
  <2>1. \A i \in 1..m : h[i] \in V  OBVIOUS
  <2>2. s \in [1..m -> V]  BY <2>1
  <2> QED BY <2>2
<1>2. h[m + 1] \in V  OBVIOUS
<1>3. \A i \in 1..m : s[i] = h[i]  OBVIOUS
<1> HIDE DEF s
<1>4. Append(s, h[m + 1]) = [i \in 1..(m + 1) |-> IF i = m + 1 THEN h[m + 1] ELSE s[i]]
  BY <1>1, <1>2
<1>5. \A i \in 1..(m + 1) : (IF i = m + 1 THEN h[m + 1] ELSE s[i]) = h[i]  BY <1>3
<1> QED BY <1>4, <1>5 DEF s

\* One round of list_walk.
WalkRound(l, stop, forward, was) ==
  IF was.at = stop THEN was
  ELSE [at |-> list_iter_next(l, was.at, forward), met |-> Append(was.met, l.value[was.at])]

IsWalk(f, l, n, stop, forward) ==
  f = [k \in 0..(MaxNodes + 1) |->
        IF k = 0 THEN [at |-> n, met |-> <<>>] ELSE WalkRound(l, stop, forward, f[k - 1])]

\* A path of nodes that the walk follows to stop.
IsPath(p, l, n, stop, forward, m) ==
  /\ p \in [0..m -> Cell] /\ p[0] = n /\ p[m] = stop
  /\ \A k \in 0..(m - 1) : p[k] # stop /\ list_iter_next(l, p[k], forward) = p[k + 1]

PathValues(l, p, m) == [i \in 1..m |-> l.value[p[i - 1]]]

\* A walk along a path meets the values of its nodes.
LEMMA WalkPath ==
  ASSUME NEW l \in ListRec, NEW n, NEW stop, NEW forward, NEW m \in 0..MaxNodes, NEW p,
         IsPath(p, l, n, stop, forward, m)
  PROVE  list_walk(l, n, stop, forward) = PathValues(l, p, m)
<1> DEFINE V    == Val \cup {NoNode}
           h    == [i \in 1..m |-> l.value[p[i - 1]]]
           M(k) == [i \in 1..k |-> h[i]]
           Up(k) == IF k < m THEN k ELSE m
           g    == [k \in 0..(MaxNodes + 1) |-> [at |-> p[Up(k)], met |-> M(Up(k))]]
           c    == CHOOSE f : IsWalk(f, l, n, stop, forward)
<1>1. MaxNodes \in Nat /\ m \in Nat /\ m <= MaxNodes  BY ListAssumption
<1>2. h \in [1..m -> V]
  <2>1. l.value \in [Cell -> V]  BY DEF ListRec
  <2>2. \A i \in 1..m : p[i - 1] \in Cell  BY <1>1 DEF IsPath
  <2> QED BY <2>1, <2>2
<1> HIDE DEF h
<1>3. \A k \in 0..(MaxNodes + 1) : g[k].at = p[Up(k)] /\ g[k].met = M(Up(k))  OBVIOUS
<1>4. M(0) = <<>>  OBVIOUS
<1>5. ASSUME NEW k \in 0..(m - 1) PROVE M(k + 1) = Append(M(k), l.value[p[k]])
  <2>1. k \in Nat /\ k + 1 \in 1..m  BY <1>1
  <2>2. h[k + 1] = l.value[p[k]]  BY <1>1, <2>1 DEF h
  <2> DEFINE hk == [i \in 1..(k + 1) |-> h[i]]
  <2>3. hk \in [1..(k + 1) -> V]  BY <1>1, <1>2, <2>1
  <2>4. hk[k + 1] = h[k + 1] /\ \A i \in 1..k : hk[i] = h[i]  BY <2>1
  <2> HIDE DEF hk
  <2>5. Append([i \in 1..k |-> hk[i]], hk[k + 1]) = [i \in 1..(k + 1) |-> hk[i]]
    BY <2>1, <2>3, OneMore
  <2>6. [i \in 1..k |-> hk[i]] = M(k)  BY <2>4
  <2>7. [i \in 1..(k + 1) |-> hk[i]] = M(k + 1)  BY DEF hk
  <2> QED BY <2>2, <2>4, <2>5, <2>6, <2>7
<1>6. ASSUME NEW k \in 1..(MaxNodes + 1)
      PROVE  g[k] = WalkRound(l, stop, forward, g[k - 1])
  <2>1. k - 1 \in 0..(MaxNodes + 1) /\ k \in 0..(MaxNodes + 1) /\ k \in Nat  BY <1>1
  <2>2. g[k] = [at |-> p[Up(k)], met |-> M(Up(k))]  BY <2>1
  <2>3. g[k - 1].at = p[Up(k - 1)] /\ g[k - 1].met = M(Up(k - 1))  BY <1>3, <2>1
  <2>4. g[k - 1] = [at |-> p[Up(k - 1)], met |-> M(Up(k - 1))]  BY <2>1
  <2> HIDE DEF g
  <2>5. CASE k - 1 < m
    <3>1. Up(k - 1) = k - 1 /\ Up(k) = k /\ k - 1 \in 0..(m - 1) /\ (k - 1) + 1 = k  BY <1>1, <2>1, <2>5
    <3> HIDE DEF Up
    <3>2. p[k - 1] # stop /\ list_iter_next(l, p[k - 1], forward) = p[k]  BY <3>1 DEF IsPath
    <3>3. M(k) = Append(M(k - 1), l.value[p[k - 1]])  BY <1>5, <3>1
    <3> HIDE DEF M
    <3> QED BY <2>2, <2>3, <3>1, <3>2, <3>3 DEF WalkRound
  <2>6. CASE ~(k - 1 < m)
    <3>1. Up(k - 1) = m /\ Up(k) = m  BY <1>1, <2>1, <2>6
    <3> HIDE DEF Up, M
    <3>2. p[m] = stop  BY DEF IsPath
    <3> QED BY <2>2, <2>3, <2>4, <3>1, <3>2 DEF WalkRound
  <2> QED BY <2>5, <2>6
<1>7. g[0] = [at |-> n, met |-> <<>>]
  <2>1. Up(0) = 0  BY <1>1
  <2>2. p[0] = n  BY DEF IsPath
  <2>3. g[0] = [at |-> p[Up(0)], met |-> M(Up(0))]  BY <1>1
  <2> HIDE DEF Up, g, M
  <2> QED BY <1>4, <2>1, <2>2, <2>3
<1>8. g = [k \in 0..(MaxNodes + 1) |-> g[k]]  OBVIOUS
<1>9. M(m) = h  BY <1>2
<1>10. g[MaxNodes + 1].met = M(m)
  <2>1. Up(MaxNodes + 1) = m /\ MaxNodes + 1 \in 0..(MaxNodes + 1)  BY <1>1
  <2> HIDE DEF Up, g, M
  <2> QED BY <1>3, <2>1
<1> HIDE DEF g, M
<1>11. \A k \in 0..(MaxNodes + 1) :
         g[k] = IF k = 0 THEN [at |-> n, met |-> <<>>]
                ELSE WalkRound(l, stop, forward, g[k - 1])
  BY <1>1, <1>6, <1>7
<1>12. IsWalk(g, l, n, stop, forward)  BY <1>8, <1>11 DEF IsWalk
<1>13. IsWalk(c, l, n, stop, forward)  BY <1>12
<1>14. list_walk(l, n, stop, forward) = c[MaxNodes + 1].met  BY DEF list_walk, IsWalk, WalkRound
<1> HIDE DEF c
<1>15. \A k \in 0..(MaxNodes + 1) :
         c[k] = IF k = 0 THEN [at |-> n, met |-> <<>>]
                ELSE WalkRound(l, stop, forward, c[k - 1])
  BY <1>13 DEF IsWalk
<1> DEFINE P == [k \in 0..(MaxNodes + 1) |-> c[k] = g[k]]
<1>16. P \in [0..(MaxNodes + 1) -> BOOLEAN]  OBVIOUS
<1>17. \A k \in 0..(MaxNodes + 1) : P[k] <=> c[k] = g[k]  BY Zenon
<1> HIDE DEF P
<1>18. c[0] = g[0]  BY <1>1, <1>7, <1>15
<1>19. \A k \in 1..(MaxNodes + 1) : c[k - 1] = g[k - 1] => c[k] = g[k]  BY <1>1, <1>6, <1>15
<1>20. P[0] /\ \A k \in 1..(MaxNodes + 1) : P[k - 1] => P[k]
  <2>1. 0 \in 0..(MaxNodes + 1)
        /\ \A k \in 1..(MaxNodes + 1) : k \in 0..(MaxNodes + 1) /\ k - 1 \in 0..(MaxNodes + 1)
    BY <1>1
  <2> QED BY <1>17, <1>18, <1>19, <2>1, Zenon
<1>21. \A k \in 0..(MaxNodes + 1) : P[k]  BY <1>1, <1>16, <1>20, Stepwise
<1>22. c[MaxNodes + 1] = g[MaxNodes + 1]
  <2>1. MaxNodes + 1 \in 0..(MaxNodes + 1)  BY <1>1
  <2> QED BY <1>17, <1>21, <2>1, Zenon
<1> QED BY <1>9, <1>10, <1>14, <1>22 DEF h, PathValues

\* A chain is a sequence of nodes; its places are apart.
LEMMA Places ==
  ASSUME NEW l, NEW c \in Seq(1..MaxNodes), Chain(l, c)
  PROVE  /\ Len(c) \in 0..MaxNodes
         /\ \A i \in 1..Len(c) : c[i] \in 1..MaxNodes /\ Place(c, i) = c[i]
         /\ Place(c, 0) = head /\ Place(c, Len(c) + 1) = end
         /\ \A i \in 0..(Len(c) + 1) : Place(c, i) \in Cell
         /\ \A i, j \in 0..(Len(c) + 1) : Place(c, i) = Place(c, j) => i = j
         /\ IsFiniteSet(Alive(l)) /\ Cardinality(Alive(l)) = l.size
<1>1. MaxNodes \in Nat /\ Len(c) \in Nat  BY ListAssumption
<1>2. IsFiniteSet(Elems(c)) /\ Cardinality(Elems(c)) = Len(c)  BY ElemsSize DEF Chain
<1>3. Elems(c) \subseteq 1..MaxNodes  BY ElemsSeq
<1>4. IsFiniteSet(1..MaxNodes) /\ Cardinality(1..MaxNodes) = MaxNodes
  <2>1. 1 \in Int /\ MaxNodes \in Int  BY <1>1
  <2>2. IsFiniteSet(1..MaxNodes)
        /\ Cardinality(1..MaxNodes) = IF 1 > MaxNodes THEN 0 ELSE MaxNodes - 1 + 1
    BY <2>1, FS_Interval
  <2> QED BY <1>1, <2>2
<1>5. Len(c) \in 0..MaxNodes
  <2>1. Cardinality(Elems(c)) <= Cardinality(1..MaxNodes)  BY <1>3, <1>4, FS_Subset
  <2> QED BY <1>1, <1>2, <1>4, <2>1
<1>6. \A i \in 1..Len(c) : c[i] \in 1..MaxNodes /\ Place(c, i) = c[i]  BY <1>1 DEF Place
<1>7. Place(c, 0) = head /\ Place(c, Len(c) + 1) = end  BY <1>1 DEF Place
<1>8. \A i \in 0..(Len(c) + 1) : i = 0 \/ i = Len(c) + 1 \/ i \in 1..Len(c)  BY <1>1
<1>9. \A i \in 0..(Len(c) + 1) : Place(c, i) \in Cell
  BY <1>1, <1>6, <1>7, <1>8, CellRange
<1>10. \A i, j \in 0..(Len(c) + 1) : Place(c, i) = Place(c, j) => i = j
  <2>1. \A i, j \in 1..Len(c) : c[i] = c[j] => i = j  BY DEF Chain, NoRepeat
  <2>2. head \notin 1..MaxNodes /\ end \notin 1..MaxNodes /\ head # end  BY <1>1, CellRange
  <2> QED BY <1>6, <1>7, <1>8, <2>1, <2>2
<1> QED BY <1>2, <1>5, <1>6, <1>7, <1>9, <1>10 DEF Chain

LEMMA Neighbours ==
  ASSUME NEW l, NEW c \in Seq(1..MaxNodes), Chain(l, c), NEW i \in 0..Len(c)
  PROVE  l.next[Place(c, i)] = Place(c, i + 1) /\ l.pre[Place(c, i + 1)] = Place(c, i)
BY DEF Chain

LEMMA ValuesSeq ==
  ASSUME NEW l, NEW c \in Seq(1..MaxNodes), Chain(l, c)
  PROVE  /\ Values(l, c) \in Seq(Val \cup {NoNode}) /\ Len(Values(l, c)) = Len(c)
         /\ \A i \in 1..Len(c) : Values(l, c)[i] = l.value[c[i]]
<1>1. l.value \in [Cell -> Val \cup {NoNode}]  BY DEF Chain, ListRec
<1>2. \A i \in 1..Len(c) : c[i] \in Cell /\ Len(c) \in Nat
  BY ListAssumption, CellRange, Places
<1>3. Values(l, c) \in [1..Len(c) -> Val \cup {NoNode}]  BY <1>1, <1>2 DEF Values
<1> QED BY <1>3 DEF Values

\* The two iterators go along the chain and back.
LEMMA WalksChain ==
  ASSUME NEW l, NEW c \in Seq(1..MaxNodes), Chain(l, c)
  PROVE  Forward(l) = Values(l, c) /\ Backward(l) = Reverse(Values(l, c))
<1> DEFINE n == Len(c)
           p == [k \in 0..n |-> Place(c, k + 1)]
           q == [k \in 0..n |-> Place(c, n - k)]
<1>1. n \in 0..MaxNodes /\ n \in Nat /\ l \in ListRec  BY ListAssumption, Places DEF Chain
<1>2. /\ Place(c, 0) = head /\ Place(c, n + 1) = end
      /\ \A i \in 0..(n + 1) : Place(c, i) \in Cell
      /\ \A i, j \in 0..(n + 1) : Place(c, i) = Place(c, j) => i = j
      /\ \A i \in 1..n : Place(c, i) = c[i]
  BY Places DEF n
<1>3. \A i \in 0..n : l.next[Place(c, i)] = Place(c, i + 1) /\ l.pre[Place(c, i + 1)] = Place(c, i)
  BY DEF Chain, n
<1> HIDE DEF n
<1>4. Forward(l) = Values(l, c)
  <2>1. p \in [0..n -> Cell]
    <3>1. \A k \in 0..n : Place(c, k + 1) \in Cell  BY <1>1, <1>2
    <3> QED BY <3>1
  <2>2. \A k \in 0..n : p[k] = Place(c, k + 1)  OBVIOUS
  <2> HIDE DEF p
  <2>3. p[0] = l.next[head]  BY <1>1, <1>2, <1>3, <2>2
  <2>4. p[n] = end  BY <1>1, <1>2, <2>2
  <2>5. ASSUME NEW k \in 0..(n - 1) PROVE p[k] # end /\ list_iter_next(l, p[k], TRUE) = p[k + 1]
    <3>1. k \in 0..n /\ k + 1 \in 0..n /\ k + 1 # n + 1 /\ k + 1 \in 0..(n + 1) /\ n + 1 \in 0..(n + 1)
      BY <1>1
    <3>2. p[k] = Place(c, k + 1) /\ p[k + 1] = Place(c, (k + 1) + 1)  BY <2>2, <3>1
    <3>3. Place(c, k + 1) # end  BY <1>2, <3>1
    <3> QED BY <1>3, <3>1, <3>2, <3>3 DEF list_iter_next
  <2>6. IsPath(p, l, l.next[head], end, TRUE, n)  BY <2>1, <2>3, <2>4, <2>5 DEF IsPath
  <2>7. Forward(l) = [i \in 1..n |-> l.value[p[i - 1]]]  
    <3>1. l \in ListRec /\ n \in 0..MaxNodes  BY <1>1
    <3>2. list_walk(l, l.next[head], end, TRUE) = PathValues(l, p, n)  BY <2>6, <3>1, WalkPath, Zenon
    <3> QED BY <3>2 DEF Forward, PathValues
  <2>8. \A i \in 1..n : p[i - 1] = c[i]
    <3>1. \A i \in 1..n : i - 1 \in 0..n /\ (i - 1) + 1 = i  BY <1>1
    <3> QED BY <1>2, <2>2, <3>1
  <2> QED BY <2>7, <2>8 DEF Values, n
<1>5. Backward(l) = Reverse(Values(l, c))
  <2>1. q \in [0..n -> Cell]
    <3>1. \A k \in 0..n : Place(c, n - k) \in Cell  BY <1>1, <1>2
    <3> QED BY <3>1
  <2>2. \A k \in 0..n : q[k] = Place(c, n - k)  OBVIOUS
  <2> HIDE DEF q
  <2>3. q[0] = l.pre[end]  BY <1>1, <1>2, <1>3, <2>2
  <2>4. q[n] = head  BY <1>1, <1>2, <2>2
  <2>5. ASSUME NEW k \in 0..(n - 1) PROVE q[k] # head /\ list_iter_next(l, q[k], FALSE) = q[k + 1]
    <3>1. /\ k \in 0..n /\ k + 1 \in 0..n /\ n - k # 0 /\ n - k \in 0..(n + 1) /\ 0 \in 0..(n + 1)
          /\ n - (k + 1) \in 0..n /\ (n - (k + 1)) + 1 = n - k
      BY <1>1
    <3>2. q[k] = Place(c, n - k) /\ q[k + 1] = Place(c, n - (k + 1))  BY <2>2, <3>1
    <3>3. Place(c, n - k) # head  BY <1>2, <3>1
    <3>4. l.pre[Place(c, n - k)] = Place(c, n - (k + 1))  BY <1>3, <3>1
    <3> QED BY <3>2, <3>3, <3>4 DEF list_iter_next
  <2>6. IsPath(q, l, l.pre[end], head, FALSE, n)  BY <2>1, <2>3, <2>4, <2>5 DEF IsPath
  <2>7. Backward(l) = [i \in 1..n |-> l.value[q[i - 1]]]  
    <3>1. l \in ListRec /\ n \in 0..MaxNodes  BY <1>1
    <3>2. list_walk(l, l.pre[end], head, FALSE) = PathValues(l, q, n)  BY <2>6, <3>1, WalkPath, Zenon
    <3> QED BY <3>2 DEF Backward, PathValues
  <2>8. \A i \in 1..n : q[i - 1] = c[(n - i) + 1]
    <3>1. \A i \in 1..n : i - 1 \in 0..n /\ n - (i - 1) = (n - i) + 1 /\ (n - i) + 1 \in 1..n
      BY <1>1
    <3> QED BY <1>2, <2>2, <3>1
  <2>9. \A i \in 1..n : l.value[q[i - 1]] = Values(l, c)[(n - i) + 1]
    <3>1. \A i \in 1..n : (n - i) + 1 \in 1..n  BY <1>1
    <3>2. \A i \in 1..n : Values(l, c)[i] = l.value[c[i]]  BY ValuesSeq DEF n
    <3> QED BY <2>8, <3>1, <3>2
  <2>10. Len(Values(l, c)) = n  BY ValuesSeq DEF n
  <2> QED BY <2>7, <2>9, <2>10 DEF Reverse
<1> QED BY <1>4, <1>5

FindRound(l, v, x) == IF x = end \/ l.value[x] = v THEN x ELSE l.next[x]
IsFind(f, l, v) ==
  f = [k \in 0..(MaxNodes + 1) |-> IF k = 0 THEN l.next[head] ELSE FindRound(l, v, f[k - 1])]

\* list_find stops at the first node with the value, or at end.
LEMMA FindsFirst ==
  ASSUME NEW l, NEW c \in Seq(1..MaxNodes), Chain(l, c), NEW v,
         NEW j \in 1..(Len(c) + 1), j # Len(c) + 1 => l.value[c[j]] = v,
         \A i \in 1..(j - 1) : l.value[c[i]] # v
  PROVE  list_find(l, v) = Place(c, j)
<1> DEFINE n == Len(c)
           Up(k) == IF k + 1 < j THEN k + 1 ELSE j
           g == [k \in 0..(MaxNodes + 1) |-> Place(c, Up(k))]
           f == CHOOSE y : IsFind(y, l, v)
<1>1. /\ n \in 0..MaxNodes /\ n \in Nat /\ MaxNodes \in Nat /\ j \in Nat /\ j \in 1..(n + 1)
  BY ListAssumption, Places
<1>2. /\ Place(c, 0) = head /\ Place(c, n + 1) = end
      /\ \A i, k \in 0..(n + 1) : Place(c, i) = Place(c, k) => i = k
      /\ \A i \in 1..n : Place(c, i) = c[i]
  BY Places DEF n
<1>3. \A i \in 0..n : l.next[Place(c, i)] = Place(c, i + 1)  BY DEF Chain, n
<1>4. j # n + 1 => l.value[c[j]] = v  BY DEF n
<1>5. g = [k \in 0..(MaxNodes + 1) |-> g[k]] /\ \A k \in 0..(MaxNodes + 1) : g[k] = Place(c, Up(k))
  OBVIOUS
<1> HIDE DEF n, g
<1>6. g[0] = l.next[head]
  <2>1. Up(0) = 1  BY <1>1
  <2> HIDE DEF Up
  <2>2. g[0] = Place(c, 1)  BY <1>1, <1>5, <2>1
  <2>3. l.next[head] = Place(c, 0 + 1)  BY <1>1, <1>2, <1>3
  <2> QED BY <2>2, <2>3
<1>7. ASSUME NEW k \in 1..(MaxNodes + 1) PROVE g[k] = FindRound(l, v, g[k - 1])
  <2>1. k - 1 \in 0..(MaxNodes + 1) /\ k \in 0..(MaxNodes + 1) /\ k \in Nat  BY <1>1
  <2>2. g[k] = Place(c, Up(k)) /\ g[k - 1] = Place(c, Up(k - 1))  BY <1>5, <2>1
  <2>3. CASE k < j
    <3>1. Up(k - 1) = k /\ Up(k) = k + 1 /\ k \in 1..n /\ k \in 0..n /\ k \in 1..(j - 1)
          /\ k \in 0..(n + 1) /\ n + 1 \in 0..(n + 1) /\ k # n + 1
      BY <1>1, <2>1, <2>3
    <3> HIDE DEF Up
    <3>2. Place(c, k) # end /\ Place(c, k) = c[k]  BY <1>2, <3>1
    <3>3. l.value[c[k]] # v  BY <3>1
    <3> QED BY <1>3, <2>2, <3>1, <3>2, <3>3 DEF FindRound
  <2>4. CASE ~(k < j)
    <3>1. Up(k - 1) = j /\ Up(k) = j  BY <1>1, <2>1, <2>4
    <3> HIDE DEF Up
    <3>2. Place(c, j) = end \/ l.value[Place(c, j)] = v
      <4>1. CASE j = n + 1  BY <1>2, <4>1
      <4>2. CASE j # n + 1
        <5>1. j \in 1..n  BY <1>1, <4>2
        <5> QED BY <1>2, <1>4, <4>2, <5>1
      <4> QED BY <4>1, <4>2
    <3> QED BY <2>2, <3>1, <3>2 DEF FindRound
  <2> QED BY <2>3, <2>4
<1>8. IsFind(g, l, v)
  <2>1. \A k \in 0..(MaxNodes + 1) : g[k] = IF k = 0 THEN l.next[head] ELSE FindRound(l, v, g[k - 1])
    BY <1>1, <1>6, <1>7
  <2> QED BY <1>5, <2>1 DEF IsFind
<1>9. IsFind(f, l, v)  BY <1>8
<1>10. list_find(l, v) = f[MaxNodes + 1]  BY DEF list_find, IsFind, FindRound
<1> HIDE DEF f
<1>11. \A k \in 0..(MaxNodes + 1) : f[k] = IF k = 0 THEN l.next[head] ELSE FindRound(l, v, f[k - 1])
  BY <1>9 DEF IsFind
<1> DEFINE P == [k \in 0..(MaxNodes + 1) |-> f[k] = g[k]]
<1>12. P \in [0..(MaxNodes + 1) -> BOOLEAN]  OBVIOUS
<1>13. \A k \in 0..(MaxNodes + 1) : P[k] <=> f[k] = g[k]  BY Zenon
<1> HIDE DEF P
<1>14. f[0] = g[0]  BY <1>1, <1>6, <1>11
<1>15. \A k \in 1..(MaxNodes + 1) : f[k - 1] = g[k - 1] => f[k] = g[k]  BY <1>1, <1>7, <1>11
<1>16. P[0] /\ \A k \in 1..(MaxNodes + 1) : P[k - 1] => P[k]
  <2>1. 0 \in 0..(MaxNodes + 1)
        /\ \A k \in 1..(MaxNodes + 1) : k \in 0..(MaxNodes + 1) /\ k - 1 \in 0..(MaxNodes + 1)
    BY <1>1
  <2> QED BY <1>13, <1>14, <1>15, <2>1, Zenon
<1>17. \A k \in 0..(MaxNodes + 1) : P[k]
  <2>1. MaxNodes + 1 \in Nat  BY <1>1
  <2> QED BY <1>12, <1>16, <2>1, Stepwise
<1>18. f[MaxNodes + 1] = g[MaxNodes + 1]
  <2>1. MaxNodes + 1 \in 0..(MaxNodes + 1)  BY <1>1
  <2> QED BY <1>13, <1>17, <2>1, Zenon
<1>19. Up(MaxNodes + 1) = j /\ MaxNodes + 1 \in 0..(MaxNodes + 1)  BY <1>1
<1> HIDE DEF Up
<1> QED BY <1>5, <1>10, <1>18, <1>19

\* c with x behind its i-th place; c without its j-th place.
With(c, i, x) ==
  [k \in 1..(Len(c) + 1) |-> IF k <= i THEN c[k] ELSE IF k = i + 1 THEN x ELSE c[k - 1]]
Skip(c, j) == [k \in 1..(Len(c) - 1) |-> IF k < j THEN c[k] ELSE c[k + 1]]

LEMMA WithSeq ==
  ASSUME NEW S, NEW c \in Seq(S), NEW i \in 0..Len(c), NEW x \in S
  PROVE  /\ With(c, i, x) \in Seq(S) /\ Len(With(c, i, x)) = Len(c) + 1
         /\ \A k \in 1..(Len(c) + 1) : With(c, i, x)[k] =
              IF k <= i THEN c[k] ELSE IF k = i + 1 THEN x ELSE c[k - 1]
<1>1. Len(c) \in Nat /\ \A k \in 1..Len(c) : c[k] \in S  OBVIOUS
<1>2. \A k \in 1..(Len(c) + 1) :
        (IF k <= i THEN c[k] ELSE IF k = i + 1 THEN x ELSE c[k - 1]) \in S
  BY <1>1
<1>3. With(c, i, x) \in [1..(Len(c) + 1) -> S]  BY <1>2 DEF With
<1>4. Len(c) + 1 \in Nat  BY <1>1
<1> QED BY <1>3, <1>4 DEF With

LEMMA SkipSeq ==
  ASSUME NEW S, NEW c \in Seq(S), NEW j \in 1..Len(c)
  PROVE  /\ Skip(c, j) \in Seq(S) /\ Len(Skip(c, j)) = Len(c) - 1
         /\ \A k \in 1..(Len(c) - 1) : Skip(c, j)[k] = IF k < j THEN c[k] ELSE c[k + 1]
<1>1. Len(c) \in Nat /\ \A k \in 1..Len(c) : c[k] \in S  OBVIOUS
<1>2. \A k \in 1..(Len(c) - 1) : (IF k < j THEN c[k] ELSE c[k + 1]) \in S  BY <1>1
<1>3. Skip(c, j) \in [1..(Len(c) - 1) -> S]  BY <1>2 DEF Skip
<1>4. Len(c) - 1 \in Nat  BY <1>1
<1> QED BY <1>3, <1>4 DEF Skip

\* The list with a new node x between A and B.
Inserted(l, A, B, x, v) ==
  [next |-> [l.next EXCEPT ![A] = x, ![x] = B], pre |-> [l.pre EXCEPT ![B] = x, ![x] = A],
   value |-> [l.value EXCEPT ![x] = v], size |-> l.size + 1]

LEMMA LinkedChain ==
  ASSUME NEW l, NEW c \in Seq(1..MaxNodes), Chain(l, c), NEW i \in 0..Len(c),
         NEW x \in (1..MaxNodes) \ Alive(l), NEW v \in Val
  PROVE  /\ With(c, i, x) \in Seq(1..MaxNodes)
         /\ Chain(Inserted(l, Place(c, i), Place(c, i + 1), x, v), With(c, i, x))
         /\ Values(Inserted(l, Place(c, i), Place(c, i + 1), x, v), With(c, i, x))
              = With(Values(l, c), i, v)
<1> DEFINE n == Len(c)
           A == Place(c, i)
           B == Place(c, i + 1)
           L == Inserted(l, A, B, x, v)
           d == With(c, i, x)
<1>1. /\ n \in 0..MaxNodes /\ n \in Nat /\ MaxNodes \in Nat /\ i \in 0..n /\ i \in Nat
      /\ x \in 1..MaxNodes /\ x \notin Alive(l)
  BY ListAssumption, Places
<1>2. /\ \A k \in 1..n : c[k] \in 1..MaxNodes /\ Place(c, k) = c[k]
      /\ Place(c, 0) = head /\ Place(c, n + 1) = end
      /\ \A k \in 0..(n + 1) : Place(c, k) \in Cell
      /\ \A k, m \in 0..(n + 1) : Place(c, k) = Place(c, m) => k = m
  BY Places
<1>3. /\ \A k \in 0..n : l.next[Place(c, k)] = Place(c, k + 1) /\ l.pre[Place(c, k + 1)] = Place(c, k)
      /\ \A k \in 1..n : \A m \in 1..n : c[k] = c[m] => k = m
      /\ Elems(c) = Alive(l) /\ l.size = n
      /\ l.next \in [Cell -> Cell \cup {NoNode}] /\ l.pre \in [Cell -> Cell \cup {NoNode}]
      /\ l.value \in [Cell -> Val \cup {NoNode}] /\ l.size \in Nat
  BY DEF Chain, NoRepeat, ListRec
<1>4. /\ d \in Seq(1..MaxNodes) /\ Len(d) = n + 1
      /\ \A k \in 1..(n + 1) : d[k] = IF k <= i THEN c[k] ELSE IF k = i + 1 THEN x ELSE c[k - 1]
  <2> DEFINE S == 1..MaxNodes
  <2>1. c \in Seq(S) /\ i \in 0..Len(c) /\ x \in S  BY <1>1
  <2>2. /\ With(c, i, x) \in Seq(S) /\ Len(With(c, i, x)) = Len(c) + 1
        /\ \A k \in 1..(Len(c) + 1) : With(c, i, x)[k] =
             IF k <= i THEN c[k] ELSE IF k = i + 1 THEN x ELSE c[k - 1]
    <3> HIDE DEF S, n
    <3> QED BY <2>1, WithSeq
  <2> QED BY <2>2
<1>5. A \in Cell /\ B \in Cell /\ x \in Cell /\ NoNode \notin Cell /\ head # x /\ end # x
      /\ head \notin 1..MaxNodes /\ end \notin 1..MaxNodes
  BY <1>1, <1>2, CellRange
<1>6. \A k \in 0..(n + 1) : Place(c, k) # x
  <2>1. \A k \in 1..n : c[k] # x  BY <1>1, <1>3 DEF Elems
  <2>2. \A k \in 0..(n + 1) : k = 0 \/ k = n + 1 \/ k \in 1..n  BY <1>1
  <2> QED BY <1>2, <1>5, <2>1, <2>2
<1>7. /\ L.next = [l.next EXCEPT ![A] = x, ![x] = B] /\ L.pre = [l.pre EXCEPT ![B] = x, ![x] = A]
      /\ L.value = [l.value EXCEPT ![x] = v] /\ L.size = n + 1 /\ L \in ListRec
  <2>1. [l.next EXCEPT ![A] = x, ![x] = B] \in [Cell -> Cell \cup {NoNode}]  BY <1>3, <1>5
  <2>2. [l.pre EXCEPT ![B] = x, ![x] = A] \in [Cell -> Cell \cup {NoNode}]  BY <1>3, <1>5
  <2>3. [l.value EXCEPT ![x] = v] \in [Cell -> Val \cup {NoNode}]  BY <1>3, <1>5
  <2>4. l.size + 1 = n + 1 /\ l.size + 1 \in Nat  BY <1>3
  <2> QED BY <2>1, <2>2, <2>3, <2>4 DEF Inserted, ListRec
<1>8. \A y \in Cell : /\ L.next[y] = IF y = x THEN B ELSE IF y = A THEN x ELSE l.next[y]
                      /\ L.pre[y] = IF y = x THEN A ELSE IF y = B THEN x ELSE l.pre[y]
                      /\ L.value[y] = IF y = x THEN v ELSE l.value[y]
  BY <1>3, <1>5, <1>7
<1>9. \A k \in 0..(n + 2) :
        Place(d, k) = IF k <= i THEN Place(c, k) ELSE IF k = i + 1 THEN x ELSE Place(c, k - 1)
  <2> SUFFICES ASSUME NEW k \in 0..(n + 2)
               PROVE  Place(d, k) = IF k <= i THEN Place(c, k)
                                    ELSE IF k = i + 1 THEN x ELSE Place(c, k - 1)
    OBVIOUS
  <2>1. CASE k = 0  BY <1>1, <1>2, <2>1 DEF Place
  <2>2. CASE k = n + 2
    <3>1. Place(d, k) = end  BY <1>1, <1>4, <2>2 DEF Place
    <3>2. ~(k <= i) /\ k # i + 1 /\ k - 1 = n + 1  BY <1>1, <2>2
    <3> QED BY <1>2, <3>1, <3>2
  <2>3. CASE k \in 1..(n + 1)
    <3>1. k # 0 /\ k # Len(d) + 1  BY <1>1, <1>4, <2>3
    <3>2. Place(d, k) = IF k <= i THEN c[k] ELSE IF k = i + 1 THEN x ELSE c[k - 1]
      BY <1>4, <2>3, <3>1 DEF Place
    <3>3. k <= i => k \in 1..n  BY <1>1, <2>3
    <3>4. ~(k <= i) /\ k # i + 1 => k - 1 \in 1..n  BY <1>1, <2>3
    <3> QED BY <1>2, <3>2, <3>3, <3>4
  <2> QED BY <1>1, <2>1, <2>2, <2>3
<1> HIDE DEF n, A, B, L, d
<1>10. ASSUME NEW k \in 0..(n + 1)
       PROVE  L.next[Place(d, k)] = Place(d, k + 1) /\ L.pre[Place(d, k + 1)] = Place(d, k)
  <2>1. k \in 0..(n + 2) /\ k + 1 \in 0..(n + 2) /\ k \in Nat  BY <1>1
  <2>2. CASE k < i
    <3>1. /\ k <= i /\ k + 1 <= i /\ k \in 0..n /\ k \in 0..(n + 1) /\ k + 1 \in 0..(n + 1)
          /\ i \in 0..(n + 1) /\ i + 1 \in 0..(n + 1) /\ k # i /\ k + 1 # i + 1
      BY <1>1, <2>1, <2>2
    <3>2. Place(d, k) = Place(c, k) /\ Place(d, k + 1) = Place(c, k + 1)  BY <1>9, <2>1, <3>1
    <3>3. Place(c, k) # A /\ Place(c, k + 1) # B  BY <1>2, <3>1 DEF A, B
    <3>4. Place(c, k) # x /\ Place(c, k + 1) # x /\ Place(c, k) \in Cell /\ Place(c, k + 1) \in Cell
      BY <1>2, <1>6, <3>1
    <3>5. l.next[Place(c, k)] = Place(c, k + 1) /\ l.pre[Place(c, k + 1)] = Place(c, k)
      BY <1>3, <3>1
    <3> QED BY <1>8, <3>2, <3>3, <3>4, <3>5
  <2>3. CASE k = i
    <3>1. k <= i /\ ~(k + 1 <= i) /\ k + 1 = i + 1 /\ i \in 0..(n + 1)  BY <1>1, <2>3
    <3>2. Place(d, k) = A /\ Place(d, k + 1) = x  BY <1>9, <2>1, <2>3, <3>1 DEF A
    <3>3. A # x  BY <1>6, <3>1 DEF A
    <3> QED BY <1>5, <1>8, <3>2, <3>3
  <2>4. CASE k = i + 1
    <3>1. ~(k <= i) /\ ~(k + 1 <= i) /\ k + 1 # i + 1 /\ (k + 1) - 1 = i + 1 /\ i + 1 \in 0..(n + 1)
      BY <1>1, <2>4
    <3>2. Place(d, k) = x /\ Place(d, k + 1) = B  BY <1>9, <2>1, <2>4, <3>1 DEF B
    <3>3. B # x  BY <1>6, <3>1 DEF B
    <3> QED BY <1>5, <1>8, <3>2, <3>3
  <2>5. CASE k > i + 1
    <3>1. /\ ~(k <= i) /\ k # i + 1 /\ ~(k + 1 <= i) /\ k + 1 # i + 1 /\ (k + 1) - 1 = k
          /\ k - 1 \in 0..n /\ (k - 1) + 1 = k /\ k - 1 \in 0..(n + 1) /\ k - 1 # i /\ k # i + 1
          /\ i \in 0..(n + 1) /\ i + 1 \in 0..(n + 1)
      BY <1>1, <2>1, <2>5
    <3>2. Place(d, k) = Place(c, k - 1) /\ Place(d, k + 1) = Place(c, k)  BY <1>9, <2>1, <3>1
    <3>3. Place(c, k - 1) # A /\ Place(c, k) # B  BY <1>2, <3>1 DEF A, B
    <3>4. Place(c, k - 1) # x /\ Place(c, k) # x /\ Place(c, k - 1) \in Cell /\ Place(c, k) \in Cell
      BY <1>2, <1>6, <3>1
    <3>5. l.next[Place(c, k - 1)] = Place(c, k) /\ l.pre[Place(c, k)] = Place(c, k - 1)
      BY <1>3, <3>1
    <3> QED BY <1>8, <3>2, <3>3, <3>4, <3>5
  <2> QED BY <1>1, <2>1, <2>2, <2>3, <2>4, <2>5
<1>11. NoRepeat(d)
  <2> SUFFICES ASSUME NEW k \in 1..(n + 1), NEW m \in 1..(n + 1), d[k] = d[m] PROVE k = m
    BY <1>4 DEF NoRepeat
  <2>1. \A j \in 1..n : c[j] # x
    <3>1. \A j \in 1..n : j \in 0..(n + 1)  BY <1>1
    <3> QED BY <1>2, <1>6, <3>1
  <2>2. \A j \in 1..(n + 1) : /\ j <= i => j \in 1..n /\ d[j] = c[j]
                              /\ j = i + 1 => d[j] = x
                              /\ j > i + 1 => j - 1 \in 1..n /\ d[j] = c[j - 1]
                              /\ j <= i \/ j = i + 1 \/ j > i + 1
    BY <1>1, <1>4
  <2>3. CASE k = i + 1  BY <1>1, <2>1, <2>2, <2>3
  <2>4. CASE m = i + 1  BY <1>1, <2>1, <2>2, <2>4
  <2>5. CASE k # i + 1 /\ m # i + 1
    <3> DEFINE J(q) == IF q <= i THEN q ELSE q - 1
    <3>1. d[k] = c[J(k)] /\ d[m] = c[J(m)] /\ J(k) \in 1..n /\ J(m) \in 1..n
      BY <2>2, <2>5
    <3>2. J(k) = J(m) => k = m  BY <1>1, <2>5
    <3> HIDE DEF J
    <3> QED BY <1>3, <3>1, <3>2
  <2> QED BY <2>3, <2>4, <2>5
<1>12. Elems(d) = Elems(c) \cup {x}
  <2>1. ASSUME NEW y \in Elems(d) PROVE y \in Elems(c) \cup {x}
    <3>1. PICK k \in 1..(n + 1) : y = d[k]  BY <1>4, <2>1 DEF Elems
    <3>2. y = x \/ \E m \in 1..n : y = c[m]
      <4>1. k <= i => k \in 1..n  BY <1>1
      <4>2. ~(k <= i) /\ k # i + 1 => k - 1 \in 1..n  BY <1>1
      <4> QED BY <1>4, <3>1, <4>1, <4>2
    <3> QED BY <3>2 DEF Elems, n
  <2>2. ASSUME NEW y \in Elems(c) PROVE y \in Elems(d)
    <3>1. PICK m \in 1..n : y = c[m]  BY <2>2 DEF Elems, n
    <3>2. \E k \in 1..(n + 1) : y = d[k]
      <4>1. CASE m <= i
        <5>1. m \in 1..(n + 1)  BY <1>1
        <5> QED BY <1>4, <3>1, <4>1, <5>1
      <4>2. CASE ~(m <= i)
        <5>1. m + 1 \in 1..(n + 1) /\ ~(m + 1 <= i) /\ m + 1 # i + 1 /\ (m + 1) - 1 = m  BY <1>1, <4>2
        <5>2. d[m + 1] = c[m]  BY <1>4, <5>1
        <5> QED BY <3>1, <5>1, <5>2
      <4> QED BY <4>1, <4>2
    <3> QED BY <1>4, <3>2 DEF Elems
  <2>3. x \in Elems(d)
    <3>1. i + 1 \in 1..(n + 1) /\ ~(i + 1 <= i)  BY <1>1
    <3>2. d[i + 1] = x  BY <1>4, <3>1
    <3> QED BY <1>4, <3>1, <3>2 DEF Elems
  <2> QED BY <2>1, <2>2, <2>3
<1>13. Alive(L) = Alive(l) \cup {x}
  <2>1. B # NoNode /\ x # NoNode  BY <1>5
  <2>2. A \in Alive(l) \/ A \notin 1..MaxNodes
    <3>1. i \in 0..n /\ B = l.next[A]  BY <1>1, <1>3 DEF A, B
    <3> QED BY <2>1, <3>1 DEF Alive
  <2>3. 1..MaxNodes \subseteq Cell  BY <1>1, CellRange
  <2> QED BY <1>1, <1>8, <2>1, <2>2, <2>3 DEF Alive
<1>14. Chain(L, d)
  <2>1. \A k \in 0..Len(d) : /\ L.next[Place(d, k)] = Place(d, k + 1)
                             /\ L.pre[Place(d, k + 1)] = Place(d, k)
    BY <1>4, <1>10
  <2> QED BY <1>3, <1>4, <1>7, <1>11, <1>12, <1>13, <2>1 DEF Chain
<1>15. Values(L, d) = With(Values(l, c), i, v)
  <2>1. Len(Values(l, c)) = n /\ \A k \in 1..n : Values(l, c)[k] = l.value[c[k]]
    BY ValuesSeq DEF n
  <2>2. \A k \in 1..n : c[k] # x /\ c[k] \in Cell
    <3>1. \A j \in 1..n : j \in 0..(n + 1)  BY <1>1
    <3> QED BY <1>2, <1>6, <3>1
  <2>3. ASSUME NEW k \in 1..(n + 1)
        PROVE  L.value[d[k]] = IF k <= i THEN Values(l, c)[k]
                               ELSE IF k = i + 1 THEN v ELSE Values(l, c)[k - 1]
    <3>1. CASE k <= i
      <4>1. k \in 1..n  BY <1>1, <3>1
      <4> QED BY <1>4, <1>8, <2>1, <2>2, <3>1, <4>1
    <3>2. CASE k = i + 1
      <4>1. ~(k <= i)  BY <1>1, <3>2
      <4> QED BY <1>4, <1>5, <1>8, <3>2, <4>1
    <3>3. CASE ~(k <= i) /\ k # i + 1
      <4>1. k - 1 \in 1..n  BY <1>1, <3>3
      <4> QED BY <1>4, <1>8, <2>1, <2>2, <3>3, <4>1
    <3> QED BY <3>1, <3>2, <3>3
  <2> QED BY <1>4, <2>1, <2>3 DEF Values, With
<1> QED BY <1>4, <1>14, <1>15 DEF A, B, L, d

LEMMA ErasedChain ==
  ASSUME NEW l, NEW c \in Seq(1..MaxNodes), Chain(l, c), NEW j \in 1..Len(c)
  PROVE  /\ Skip(c, j) \in Seq(1..MaxNodes)
         /\ Chain(list_erase(l, c[j]), Skip(c, j))
         /\ Values(list_erase(l, c[j]), Skip(c, j)) = Skip(Values(l, c), j)
<1> DEFINE n == Len(c)
           x == c[j]
           A == Place(c, j - 1)
           B == Place(c, j + 1)
           L == list_erase(l, x)
           d == Skip(c, j)
<1>1. n \in 0..MaxNodes /\ n \in Nat /\ MaxNodes \in Nat /\ j \in 1..n /\ j \in Nat
  BY ListAssumption, Places
<1>2. /\ \A k \in 1..n : c[k] \in 1..MaxNodes /\ Place(c, k) = c[k]
      /\ Place(c, 0) = head /\ Place(c, n + 1) = end
      /\ \A k \in 0..(n + 1) : Place(c, k) \in Cell
      /\ \A k, m \in 0..(n + 1) : Place(c, k) = Place(c, m) => k = m
  BY Places
<1>3. /\ \A k \in 0..n : l.next[Place(c, k)] = Place(c, k + 1) /\ l.pre[Place(c, k + 1)] = Place(c, k)
      /\ \A k \in 1..n : \A m \in 1..n : c[k] = c[m] => k = m
      /\ Elems(c) = Alive(l) /\ l.size = n
      /\ l.next \in [Cell -> Cell \cup {NoNode}] /\ l.pre \in [Cell -> Cell \cup {NoNode}]
      /\ l.value \in [Cell -> Val \cup {NoNode}] /\ l.size \in Nat
  BY DEF Chain, NoRepeat, ListRec
<1>4. /\ d \in Seq(1..MaxNodes) /\ Len(d) = n - 1
      /\ \A k \in 1..(n - 1) : d[k] = IF k < j THEN c[k] ELSE c[k + 1]
  <2> DEFINE S == 1..MaxNodes
  <2>1. c \in Seq(S) /\ j \in 1..Len(c)  BY <1>1
  <2>2. /\ Skip(c, j) \in Seq(S) /\ Len(Skip(c, j)) = Len(c) - 1
        /\ \A k \in 1..(Len(c) - 1) : Skip(c, j)[k] = IF k < j THEN c[k] ELSE c[k + 1]
    <3> HIDE DEF S, n
    <3> QED BY <2>1, SkipSeq
  <2> QED BY <2>2
<1>5. /\ j - 1 \in 0..n /\ j \in 0..n /\ j \in 0..(n + 1) /\ j + 1 \in 0..(n + 1)
      /\ j - 1 \in 0..(n + 1) /\ (j - 1) + 1 = j
  BY <1>1
<1>6. /\ x = Place(c, j) /\ x \in 1..MaxNodes /\ x \in Cell /\ A \in Cell /\ B \in Cell
      /\ NoNode \notin Cell /\ A # x /\ B # x
  <2>1. x = Place(c, j) /\ x \in 1..MaxNodes /\ x \in Cell /\ NoNode \notin Cell
    BY <1>1, <1>2, CellRange
  <2>2. j - 1 # j /\ j + 1 # j  BY <1>1
  <2> QED BY <1>2, <1>5, <2>1, <2>2
<1>7. l.pre[x] = A /\ l.next[x] = B  BY <1>3, <1>5, <1>6
<1>8. L = [next |-> [l.next EXCEPT ![A] = B, ![x] = NoNode],
           pre |-> [l.pre EXCEPT ![B] = A, ![x] = NoNode],
           value |-> [l.value EXCEPT ![x] = NoNode], size |-> l.size - 1]
  BY <1>7 DEF list_erase
<1>9. /\ L.next = [l.next EXCEPT ![A] = B, ![x] = NoNode]
      /\ L.pre = [l.pre EXCEPT ![B] = A, ![x] = NoNode]
      /\ L.value = [l.value EXCEPT ![x] = NoNode] /\ L.size = n - 1 /\ L \in ListRec
  <2>1. [l.next EXCEPT ![A] = B, ![x] = NoNode] \in [Cell -> Cell \cup {NoNode}]  BY <1>3, <1>6
  <2>2. [l.pre EXCEPT ![B] = A, ![x] = NoNode] \in [Cell -> Cell \cup {NoNode}]  BY <1>3, <1>6
  <2>3. [l.value EXCEPT ![x] = NoNode] \in [Cell -> Val \cup {NoNode}]  BY <1>3, <1>6
  <2>4. l.size - 1 = n - 1 /\ l.size - 1 \in Nat  BY <1>1, <1>3
  <2> HIDE DEF L
  <2> QED BY <1>8, <2>1, <2>2, <2>3, <2>4 DEF ListRec
<1>10. \A y \in Cell : /\ L.next[y] = IF y = x THEN NoNode ELSE IF y = A THEN B ELSE l.next[y]
                       /\ L.pre[y] = IF y = x THEN NoNode ELSE IF y = B THEN A ELSE l.pre[y]
                       /\ L.value[y] = IF y = x THEN NoNode ELSE l.value[y]
  <2> HIDE DEF L, A, B, x
  <2> QED BY <1>3, <1>6, <1>9
<1>11. \A k \in 0..n : Place(d, k) = IF k < j THEN Place(c, k) ELSE Place(c, k + 1)
  <2> SUFFICES ASSUME NEW k \in 0..n
               PROVE  Place(d, k) = IF k < j THEN Place(c, k) ELSE Place(c, k + 1)
    OBVIOUS
  <2>1. CASE k = 0  BY <1>1, <1>2, <2>1 DEF Place
  <2>2. CASE k = n
    <3>1. Place(d, k) = end  BY <1>1, <1>4, <2>2 DEF Place
    <3>2. ~(k < j) /\ k + 1 = n + 1  BY <1>1, <2>2
    <3> QED BY <1>2, <3>1, <3>2
  <2>3. CASE k \in 1..(n - 1)
    <3>1. k # 0 /\ k # Len(d) + 1  BY <1>1, <1>4, <2>3
    <3>2. Place(d, k) = IF k < j THEN c[k] ELSE c[k + 1]  BY <1>4, <2>3, <3>1 DEF Place
    <3>3. k \in 1..n /\ k + 1 \in 1..n  BY <1>1, <2>3
    <3> QED BY <1>2, <3>2, <3>3
  <2> QED BY <1>1, <2>1, <2>2, <2>3
<1> HIDE DEF n, x, A, B, L, d
<1>12. ASSUME NEW k \in 0..(n - 1)
       PROVE  L.next[Place(d, k)] = Place(d, k + 1) /\ L.pre[Place(d, k + 1)] = Place(d, k)
  <2>1. k \in 0..n /\ k + 1 \in 0..n /\ k \in Nat  BY <1>1
  <2>2. CASE k < j - 1
    <3>1. /\ k < j /\ k + 1 < j /\ k \in 0..(n + 1) /\ k + 1 \in 0..(n + 1)
          /\ k # j /\ k # j - 1 /\ k + 1 # j /\ k + 1 # j + 1
      BY <1>1, <2>1, <2>2
    <3>2. Place(d, k) = Place(c, k) /\ Place(d, k + 1) = Place(c, k + 1)  BY <1>11, <2>1, <3>1
    <3>3. /\ Place(c, k) # A /\ Place(c, k) # x /\ Place(c, k + 1) # B /\ Place(c, k + 1) # x
          /\ Place(c, k) \in Cell /\ Place(c, k + 1) \in Cell
      BY <1>2, <1>5, <1>6, <3>1 DEF A, B
    <3>4. l.next[Place(c, k)] = Place(c, k + 1) /\ l.pre[Place(c, k + 1)] = Place(c, k)
      BY <1>3, <2>1
    <3> QED BY <1>10, <3>2, <3>3, <3>4
  <2>3. CASE k = j - 1
    <3>1. k < j /\ ~(k + 1 < j) /\ (k + 1) + 1 = j + 1  BY <1>1, <2>1, <2>3
    <3>2. Place(d, k) = A /\ Place(d, k + 1) = B  BY <1>11, <2>1, <2>3, <3>1 DEF A, B
    <3> QED BY <1>6, <1>10, <3>2
  <2>4. CASE k > j - 1
    <3>1. /\ ~(k < j) /\ ~(k + 1 < j) /\ k + 1 \in 0..(n + 1) /\ (k + 1) + 1 \in 0..(n + 1)
          /\ k + 1 # j - 1 /\ k + 1 # j /\ (k + 1) + 1 # j + 1 /\ (k + 1) + 1 # j
      BY <1>1, <2>1, <2>4
    <3>2. Place(d, k) = Place(c, k + 1) /\ Place(d, k + 1) = Place(c, (k + 1) + 1)
      BY <1>11, <2>1, <3>1
    <3>3. /\ Place(c, k + 1) # A /\ Place(c, k + 1) # x /\ Place(c, (k + 1) + 1) # B
          /\ Place(c, (k + 1) + 1) # x
          /\ Place(c, k + 1) \in Cell /\ Place(c, (k + 1) + 1) \in Cell
      BY <1>2, <1>5, <1>6, <3>1 DEF A, B
    <3>4. /\ l.next[Place(c, k + 1)] = Place(c, (k + 1) + 1)
          /\ l.pre[Place(c, (k + 1) + 1)] = Place(c, k + 1)
      BY <1>3, <2>1
    <3> QED BY <1>10, <3>2, <3>3, <3>4
  <2> QED BY <1>1, <2>1, <2>2, <2>3, <2>4
<1> DEFINE J(q) == IF q < j THEN q ELSE q + 1
<1>13. /\ \A k \in 1..(n - 1) : d[k] = c[J(k)] /\ J(k) \in 1..n /\ J(k) # j
       /\ \A k, m \in 1..(n - 1) : J(k) = J(m) => k = m
  <2>1. \A k \in 1..(n - 1) : J(k) \in 1..n /\ J(k) # j  BY <1>1
  <2>2. \A k, m \in 1..(n - 1) : J(k) = J(m) => k = m  BY <1>1
  <2>3. \A k \in 1..(n - 1) : d[k] = c[J(k)]  BY <1>4
  <2> QED BY <2>1, <2>2, <2>3
<1>14. \A m \in 1..n : m = j \/ \E k \in 1..(n - 1) : m = J(k)
  <2> SUFFICES ASSUME NEW m \in 1..n, m # j PROVE \E k \in 1..(n - 1) : m = J(k)
    OBVIOUS
  <2>1. CASE m < j
    <3>1. m \in 1..(n - 1) /\ J(m) = m  BY <1>1, <2>1
    <3> QED BY <3>1
  <2>2. CASE ~(m < j)
    <3>1. m - 1 \in 1..(n - 1) /\ J(m - 1) = m  BY <1>1, <2>2
    <3> QED BY <3>1
  <2> QED BY <2>1, <2>2
<1> HIDE DEF J
<1>15. NoRepeat(d)
  <2> SUFFICES ASSUME NEW k \in 1..(n - 1), NEW m \in 1..(n - 1), d[k] = d[m] PROVE k = m
    BY <1>4 DEF NoRepeat
  <2>1. c[J(k)] = c[J(m)] /\ J(k) \in 1..n /\ J(m) \in 1..n  BY <1>13
  <2>2. J(k) = J(m)  BY <1>3, <2>1
  <2> QED BY <1>13, <2>2
<1>16. Elems(d) = Elems(c) \ {x}
  <2>1. ASSUME NEW y \in Elems(d) PROVE y \in Elems(c) \ {x}
    <3>1. PICK k \in 1..(n - 1) : y = d[k]  BY <1>4, <2>1 DEF Elems
    <3>2. y = c[J(k)] /\ J(k) \in 1..n /\ J(k) # j  BY <1>13, <3>1
    <3>3. y # x  BY <1>1, <1>3, <3>2 DEF x
    <3> QED BY <3>2, <3>3 DEF Elems, n
  <2>2. ASSUME NEW y \in Elems(c), y # x PROVE y \in Elems(d)
    <3>1. PICK m \in 1..n : y = c[m]  BY <2>2 DEF Elems, n
    <3>2. m # j  BY <2>2, <3>1 DEF x
    <3>3. PICK k \in 1..(n - 1) : m = J(k)  BY <1>14, <3>2
    <3>4. y = d[k]  BY <1>13, <3>1, <3>3
    <3> QED BY <1>4, <3>4 DEF Elems
  <2> QED BY <2>1, <2>2
<1>17. Alive(L) = Alive(l) \ {x}
  <2>1. B # NoNode /\ x # NoNode  BY <1>6
  <2>2. A \in Alive(l) \/ A \notin 1..MaxNodes
    <3>1. x = l.next[A]  BY <1>3, <1>5, <1>6 DEF A
    <3> QED BY <2>1, <3>1 DEF Alive
  <2>3. 1..MaxNodes \subseteq Cell  BY <1>1, CellRange
  <2> QED BY <1>6, <1>10, <2>1, <2>2, <2>3 DEF Alive
<1>18. Chain(L, d)
  <2>1. \A k \in 0..Len(d) : /\ L.next[Place(d, k)] = Place(d, k + 1)
                             /\ L.pre[Place(d, k + 1)] = Place(d, k)
    BY <1>4, <1>12
  <2> QED BY <1>3, <1>4, <1>9, <1>15, <1>16, <1>17, <2>1 DEF Chain
<1>19. Values(L, d) = Skip(Values(l, c), j)
  <2>1. Len(Values(l, c)) = n /\ \A k \in 1..n : Values(l, c)[k] = l.value[c[k]]
    BY ValuesSeq DEF n
  <2>2. ASSUME NEW k \in 1..(n - 1)
        PROVE  L.value[d[k]] = IF k < j THEN Values(l, c)[k] ELSE Values(l, c)[k + 1]
    <3>1. d[k] = c[J(k)] /\ J(k) \in 1..n /\ J(k) # j  BY <1>13
    <3>2. c[J(k)] # x /\ c[J(k)] \in Cell
      <4>1. J(k) \in 0..(n + 1)  BY <1>1, <3>1
      <4>2. c[J(k)] = Place(c, J(k))  BY <1>2, <3>1
      <4> QED BY <1>2, <1>5, <1>6, <3>1, <4>1, <4>2
    <3>3. L.value[d[k]] = Values(l, c)[J(k)]  BY <1>10, <2>1, <3>1, <3>2
    <3> QED BY <3>3 DEF J
  <2> QED BY <1>4, <2>1, <2>2 DEF Values, Skip
<1> QED BY <1>4, <1>18, <1>19 DEF x, L, d

\* With and Skip at the ends, and at the first place with a value.
LEMMA WithEnds ==
  ASSUME NEW S, NEW s \in Seq(S), NEW v \in S
  PROVE  With(s, Len(s), v) = Append(s, v) /\ With(s, 0, v) = <<v>> \o s
<1> DEFINE n == Len(s)
<1>1. n \in Nat /\ n \in 0..n /\ 0 \in 0..n  OBVIOUS
<1>2. With(s, n, v) = Append(s, v)
  <2>1. /\ With(s, n, v) \in Seq(S) /\ Len(With(s, n, v)) = n + 1
        /\ \A k \in 1..(n + 1) : With(s, n, v)[k] =
             IF k <= n THEN s[k] ELSE IF k = n + 1 THEN v ELSE s[k - 1]
    <3>1. \A i \in 0..Len(s) :
            /\ With(s, i, v) \in Seq(S) /\ Len(With(s, i, v)) = Len(s) + 1
            /\ \A k \in 1..(Len(s) + 1) : With(s, i, v)[k] =
                 IF k <= i THEN s[k] ELSE IF k = i + 1 THEN v ELSE s[k - 1]
      BY WithSeq
    <3>2. Len(s) \in 0..Len(s)  OBVIOUS
    <3> QED BY <3>1, <3>2, Zenon
  <2>2. /\ Append(s, v) \in Seq(S) /\ Len(Append(s, v)) = n + 1
        /\ \A k \in 1..(n + 1) : Append(s, v)[k] = IF k <= n THEN s[k] ELSE v
    OBVIOUS
  <2> HIDE DEF n
  <2>3. \A k \in 1..(n + 1) : With(s, n, v)[k] = Append(s, v)[k]  BY <1>1, <2>1, <2>2
  <2> QED BY <2>1, <2>2, <2>3, SeqEqual
<1>3. With(s, 0, v) = <<v>> \o s
  <2>1. /\ With(s, 0, v) \in Seq(S) /\ Len(With(s, 0, v)) = n + 1
        /\ \A k \in 1..(n + 1) : With(s, 0, v)[k] =
             IF k <= 0 THEN s[k] ELSE IF k = 0 + 1 THEN v ELSE s[k - 1]
    <3>1. 0 \in 0..Len(s)  OBVIOUS
    <3> QED BY <3>1, WithSeq
  <2>2. <<v>> \in Seq(S) /\ Len(<<v>>) = 1 /\ <<v>>[1] = v  OBVIOUS
  <2>3. /\ <<v>> \o s \in Seq(S) /\ Len(<<v>> \o s) = n + 1
        /\ \A k \in 1..(n + 1) : (<<v>> \o s)[k] = IF k <= 1 THEN v ELSE s[k - 1]
    BY <2>2
  <2> HIDE DEF n
  <2>4. \A k \in 1..(n + 1) : With(s, 0, v)[k] = (<<v>> \o s)[k]  BY <1>1, <2>1, <2>3
  <2> QED BY <2>1, <2>3, <2>4, SeqEqual
<1> QED BY <1>2, <1>3

LEMMA SkipEnds ==
  ASSUME NEW S, NEW s \in Seq(S), s # <<>>
  PROVE  Skip(s, Len(s)) = Front(s) /\ Skip(s, 1) = Tail(s)
<1> DEFINE n == Len(s)
<1>1. n \in Nat /\ n >= 1  OBVIOUS
<1>2. Skip(s, Len(s)) = Front(s)
  <2>1. /\ Skip(s, Len(s)) \in Seq(S) /\ Len(Skip(s, Len(s))) = n - 1
        /\ \A k \in 1..(n - 1) : Skip(s, Len(s))[k] = IF k < n THEN s[k] ELSE s[k + 1]
    <3>1. Len(s) \in 1..Len(s)  OBVIOUS
    <3> QED BY <3>1, SkipSeq
  <2>2. /\ Front(s) \in Seq(S) /\ Len(Front(s)) = n - 1
        /\ \A k \in 1..(n - 1) : Front(s)[k] = s[k]
    <3>1. SubSeq(s, 1, n - 1) = [k \in 1..(n - 1) |-> s[k]]  BY <1>1
    <3>2. n - 1 \in Nat /\ \A k \in 1..(n - 1) : s[k] \in S  BY <1>1
    <3>3. [k \in 1..(n - 1) |-> s[k]] \in [1..(n - 1) -> S]  BY <3>2
    <3>4. [k \in 1..(n - 1) |-> s[k]] \in Seq(S) /\ Len([k \in 1..(n - 1) |-> s[k]]) = n - 1
      BY <3>2, <3>3
    <3> QED BY <1>1, <3>1, <3>4 DEF Front
  <2> HIDE DEF n
  <2>3. \A k \in 1..(n - 1) : Skip(s, Len(s))[k] = Front(s)[k]  BY <1>1, <2>1, <2>2
  <2> QED BY <2>1, <2>2, <2>3, SeqEqual
<1>3. Skip(s, 1) = Tail(s)
  <2>1. /\ Skip(s, 1) \in Seq(S) /\ Len(Skip(s, 1)) = n - 1
        /\ \A k \in 1..(n - 1) : Skip(s, 1)[k] = IF k < 1 THEN s[k] ELSE s[k + 1]
    <3>1. 1 \in 1..Len(s)  BY <1>1
    <3> QED BY <3>1, SkipSeq
  <2>2. /\ Tail(s) \in Seq(S) /\ Len(Tail(s)) = n - 1
        /\ \A k \in 1..(n - 1) : Tail(s)[k] = s[k + 1]
    BY <1>1
  <2> HIDE DEF n
  <2>3. \A k \in 1..(n - 1) : Skip(s, 1)[k] = Tail(s)[k]  BY <1>1, <2>1, <2>2
  <2> QED BY <2>1, <2>2, <2>3, SeqEqual
<1> QED BY <1>2, <1>3

LEMMA SkipFirst ==
  ASSUME NEW S, NEW s \in Seq(S), NEW v, NEW j \in 1..Len(s), s[j] = v,
         \A i \in 1..(j - 1) : s[i] # v
  PROVE  RemoveFirst(s, v) = Skip(s, j)
<1> DEFINE n == Len(s)
           I == {i \in 1..n : s[i] = v}
<1>1. n \in Nat /\ j \in Nat /\ 1 <= j /\ j <= n  OBVIOUS
<1>2. Min(I) = j
  <2>1. j \in I /\ \A y \in I : j <= y  BY <1>1
  <2>2. \A x \in I : (\A y \in I : x <= y) => x = j  BY <1>1, <2>1
  <2> HIDE DEF I
  <2> QED BY <2>1, <2>2 DEF Min
<1>3. SelectInSeq(s, LAMBDA t : t = v) = j  BY <1>1, <1>2 DEF SelectInSeq
<1>4. RemoveFirst(s, v) = SubSeq(s, 1, j - 1) \o SubSeq(s, j + 1, n)
  BY <1>1, <1>3 DEF RemoveFirst, RemoveAt
<1> DEFINE a == SubSeq(s, 1, j - 1)
           b == SubSeq(s, j + 1, n)
<1>5. a \in Seq(S) /\ Len(a) = j - 1 /\ \A k \in 1..(j - 1) : a[k] = s[k]  BY <1>1
<1>6. b \in Seq(S) /\ Len(b) = n - j /\ \A k \in 1..(n - j) : b[k] = s[k + j]
  <2>1. b \in Seq(S)  BY <1>1
  <2>2. Len(b) = n - j  BY <1>1
  <2>3. \A k \in 1..(n - j) : b[k] = s[k + j]  BY <1>1
  <2> QED BY <2>1, <2>2, <2>3
<1> HIDE DEF a, b
<1>7. /\ a \o b \in Seq(S) /\ Len(a \o b) = n - 1
      /\ \A k \in 1..(n - 1) : (a \o b)[k] = IF k < j THEN s[k] ELSE s[k + 1]
  <2>1. a \o b \in Seq(S) /\ Len(a \o b) = Len(a) + Len(b)
        /\ \A k \in 1..(Len(a) + Len(b)) : (a \o b)[k] = IF k <= Len(a) THEN a[k] ELSE b[k - Len(a)]
    BY <1>5, <1>6, ConcatProperties
  <2>2. Len(a) + Len(b) = n - 1  BY <1>1, <1>5, <1>6
  <2>3. ASSUME NEW k \in 1..(n - 1) PROVE (a \o b)[k] = IF k < j THEN s[k] ELSE s[k + 1]
    <3>1. CASE k < j
      <4>1. k \in 1..(j - 1) /\ k <= Len(a)  BY <1>1, <1>5, <3>1
      <4> QED BY <1>5, <2>1, <2>2, <3>1, <4>1
    <3>2. CASE ~(k < j)
      <4>1. k - (j - 1) \in 1..(n - j) /\ ~(k <= Len(a)) /\ (k - (j - 1)) + j = k + 1
        BY <1>1, <1>5, <3>2
      <4>2. (a \o b)[k] = b[k - (j - 1)]  BY <1>5, <2>1, <2>2, <4>1
      <4> QED BY <1>6, <3>2, <4>1, <4>2
    <3> QED BY <3>1, <3>2
  <2> QED BY <2>1, <2>2, <2>3
<1>8. /\ Skip(s, j) \in Seq(S) /\ Len(Skip(s, j)) = n - 1
      /\ \A k \in 1..(n - 1) : Skip(s, j)[k] = IF k < j THEN s[k] ELSE s[k + 1]
  BY SkipSeq
<1> HIDE DEF n
<1>9. \A k \in 1..(n - 1) : Skip(s, j)[k] = (a \o b)[k]  BY <1>7, <1>8
<1>10. Skip(s, j) = a \o b  BY <1>7, <1>8, <1>9, SeqEqual
<1> QED BY <1>4, <1>10 DEF a, b, n

-----------------------------------------------------------------------------
\* The calls, on a chain.

LEMMA NodeLeft ==
  ASSUME NEW l, NEW c \in Seq(1..MaxNodes), Chain(l, c), l.size < MaxNodes
  PROVE  new_node(l) \in (1..MaxNodes) \ Alive(l)
<1>1. MaxNodes \in Nat  BY ListAssumption
<1>2. Cardinality(Alive(l)) = l.size  BY Places
<1>3. Cardinality(1..MaxNodes) = MaxNodes
  <2>1. 1 \in Int /\ MaxNodes \in Int  BY <1>1
  <2>2. Cardinality(1..MaxNodes) = IF 1 > MaxNodes THEN 0 ELSE MaxNodes - 1 + 1
    BY <2>1, FS_Interval
  <2> QED BY <1>1, <2>2
<1>4. l.size \in Nat  BY DEF Chain, ListRec
<1>5. Alive(l) # 1..MaxNodes  BY <1>1, <1>2, <1>3, <1>4
<1>6. Alive(l) \subseteq 1..MaxNodes  BY DEF Alive
<1>7. \E x \in (1..MaxNodes) \ Alive(l) : TRUE  BY <1>5, <1>6
<1> QED BY <1>7 DEF new_node

\* What inserting after place i makes of the list.
Grown(L, l, i, v) ==
  /\ \E d \in Seq(1..MaxNodes) : Chain(L, d)
  /\ Forward(L) = With(Forward(l), i, v)

LEMMA InsertGrows ==
  ASSUME NEW l, NEW c \in Seq(1..MaxNodes), Chain(l, c), l.size < MaxNodes, NEW v \in Val,
         NEW i \in 0..Len(c)
  PROVE  /\ Grown(list_insert_after(l, Place(c, i), v), l, i, v)
         /\ Grown(list_insert_before(l, Place(c, i + 1), v), l, i, v)
<1> DEFINE x == new_node(l)
           L == Inserted(l, Place(c, i), Place(c, i + 1), x, v)
<1>1. x \in (1..MaxNodes) \ Alive(l)  BY NodeLeft
<1>2. l.next[Place(c, i)] = Place(c, i + 1) /\ l.pre[Place(c, i + 1)] = Place(c, i)
  BY Neighbours
<1>3. list_insert_after(l, Place(c, i), v) = L  BY <1>2 DEF list_insert_after, Inserted
<1>4. list_insert_before(l, Place(c, i + 1), v) = L  BY <1>2 DEF list_insert_before, Inserted
<1> HIDE DEF x
<1>5. /\ With(c, i, x) \in Seq(1..MaxNodes) /\ Chain(L, With(c, i, x))
      /\ Values(L, With(c, i, x)) = With(Values(l, c), i, v)
  BY <1>1, LinkedChain
<1> HIDE DEF L
<1>6. Forward(L) = Values(L, With(c, i, x))  BY <1>5, WalksChain
<1>7. Forward(l) = Values(l, c)  BY WalksChain
<1>8. Grown(L, l, i, v)  BY <1>5, <1>6, <1>7 DEF Grown
<1> QED BY <1>3, <1>4, <1>8

Shrunk(L, l, j) ==
  /\ \E d \in Seq(1..MaxNodes) : Chain(L, d)
  /\ Forward(L) = Skip(Forward(l), j)

LEMMA EraseShrinks ==
  ASSUME NEW l, NEW c \in Seq(1..MaxNodes), Chain(l, c), NEW j \in 1..Len(c)
  PROVE  Shrunk(list_erase(l, c[j]), l, j)
<1> DEFINE L == list_erase(l, c[j])
<1>1. /\ Skip(c, j) \in Seq(1..MaxNodes) /\ Chain(L, Skip(c, j))
      /\ Values(L, Skip(c, j)) = Skip(Values(l, c), j)
  BY ErasedChain
<1> HIDE DEF L
<1>2. Forward(L) = Values(L, Skip(c, j))  BY <1>1, WalksChain
<1>3. Forward(l) = Values(l, c)  BY WalksChain
<1>4. Shrunk(L, l, j)  BY <1>1, <1>2, <1>3 DEF Shrunk
<1> QED BY <1>4 DEF L

\* The ends of the list, as the pointers name them.
LEMMA ListEnds ==
  ASSUME NEW l, NEW c \in Seq(1..MaxNodes), Chain(l, c)
  PROVE  /\ head = Place(c, 0) /\ end = Place(c, Len(c) + 1) /\ l.next[head] = Place(c, 0 + 1)
         /\ l.size = Len(c) /\ Len(c) \in Nat /\ 0 \in 0..Len(c) /\ Len(c) \in 0..Len(c)
         /\ Len(c) > 0 => /\ l.next[head] = c[1] /\ l.pre[end] = c[Len(c)]
                          /\ 1 \in 1..Len(c) /\ Len(c) \in 1..Len(c)
<1>1. Len(c) \in Nat /\ l.size = Len(c) /\ 0 \in 0..Len(c) /\ Len(c) \in 0..Len(c)  BY DEF Chain
<1>2. head = Place(c, 0) /\ end = Place(c, Len(c) + 1) /\ \A i \in 1..Len(c) : Place(c, i) = c[i]
  BY Places
<1>3. l.next[Place(c, 0)] = Place(c, 0 + 1) /\ l.pre[Place(c, Len(c) + 1)] = Place(c, Len(c))
  BY <1>1, Neighbours
<1>4. Len(c) > 0 => 1 \in 1..Len(c) /\ Len(c) \in 1..Len(c)  BY <1>1
<1>5. 0 + 1 = 1  OBVIOUS
<1> QED BY <1>1, <1>2, <1>3, <1>4, <1>5

\* list_remove takes the first node with a value out.
LEMMA RemoveShrinks ==
  ASSUME NEW l, NEW c \in Seq(1..MaxNodes), Chain(l, c), NEW v
  PROVE  /\ (\E i \in 1..Len(c) : l.value[c[i]] = v) =>
              \E j \in 1..Len(c) : /\ l.value[c[j]] = v /\ \A i \in 1..(j - 1) : l.value[c[i]] # v
                                   /\ list_find(l, v) = c[j]
                                   /\ Shrunk(list_remove(l, v), l, j)
         /\ (\A i \in 1..Len(c) : l.value[c[i]] # v) => list_find(l, v) = end
<1>1. Len(c) \in Nat  OBVIOUS
<1>2. ASSUME \A i \in 1..Len(c) : l.value[c[i]] # v PROVE list_find(l, v) = end
  <2>1. Len(c) + 1 \in 1..(Len(c) + 1) /\ (Len(c) + 1) - 1 = Len(c)  BY <1>1
  <2>2. list_find(l, v) = Place(c, Len(c) + 1)  BY <1>2, <2>1, FindsFirst
  <2> QED BY <2>2, ListEnds
<1>3. ASSUME \E i \in 1..Len(c) : l.value[c[i]] = v
      PROVE  \E j \in 1..Len(c) : /\ l.value[c[j]] = v /\ \A i \in 1..(j - 1) : l.value[c[i]] # v
                                  /\ list_find(l, v) = c[j]
                                  /\ Shrunk(list_remove(l, v), l, j)
  <2> DEFINE I == {i \in 1..Len(c) : l.value[c[i]] = v}
  <2>1. I \in SUBSET Nat  OBVIOUS
  <2>2. I # {}  BY <1>3
  <2>3. PICK j \in I : \A y \in I : j <= y  BY <2>1, <2>2, LeastElement
  <2>4. j \in 1..Len(c) /\ l.value[c[j]] = v /\ j \in 1..(Len(c) + 1)  BY <1>1, <2>3
  <2>5. \A i \in 1..(j - 1) : l.value[c[i]] # v
    <3>1. \A i \in 1..(j - 1) : i \in 1..Len(c) /\ ~(j <= i)  BY <1>1, <2>4
    <3> QED BY <2>3, <3>1
  <2>6. list_find(l, v) = Place(c, j)  BY <2>4, <2>5, FindsFirst
  <2>7. Place(c, j) = c[j]  BY <2>4, Places
  <2>8. Shrunk(list_erase(l, c[j]), l, j)  BY <2>4, EraseShrinks
  <2>9. list_remove(l, v) = list_erase(l, c[j])  BY <2>6, <2>7 DEF list_remove
  <2> QED BY <2>4, <2>5, <2>6, <2>7, <2>8, <2>9
<1> QED BY <1>2, <1>3

LEMMA ListInvSound == ListInv => ListSound
<1> SUFFICES ASSUME ListInv PROVE ListSound  OBVIOUS
<1>1. PICK c \in Seq(1..MaxNodes) : Chain(dl, c)  BY DEF ListInv
<1> DEFINE s == Forward(dl)
           n == Len(c)
           V == Val \cup {NoNode}
<1>2. s = Values(dl, c) /\ Backward(dl) = Reverse(Values(dl, c))  BY <1>1, WalksChain
<1>3. Values(dl, c) \in Seq(V) /\ Len(Values(dl, c)) = n
      /\ \A i \in 1..n : Values(dl, c)[i] = dl.value[c[i]]
  BY <1>1, ValuesSeq
<1>4. s \in Seq(V) /\ Len(s) = n /\ \A i \in 1..n : s[i] = dl.value[c[i]]  BY <1>2, <1>3
<1>5. /\ head = Place(c, 0) /\ end = Place(c, n + 1) /\ dl.next[head] = Place(c, 0 + 1)
      /\ dl.size = n /\ n \in Nat /\ 0 \in 0..n /\ n \in 0..n
      /\ n > 0 => dl.next[head] = c[1] /\ dl.pre[end] = c[n] /\ 1 \in 1..n /\ n \in 1..n
  BY <1>1, ListEnds
<1>6. TwoWay
  <2>1. Cardinality(Alive(dl)) = dl.size  BY <1>1, Places
  <2> QED BY <1>2, <1>4, <1>5, <2>1 DEF TwoWay
<1> HIDE DEF n, s, V
<1>7. ASSUME dl.size < MaxNodes, NEW v \in Val
      PROVE  /\ Forward(list_push_back(dl, v)) = Append(s, v)
             /\ Forward(list_push_front(dl, v)) = <<v>> \o s
             /\ Forward(list_insert_after(dl, head, v)) = <<v>> \o s
  <2>1. v \in V  BY DEF V
  <2>2. With(s, n, v) = Append(s, v) /\ With(s, 0, v) = <<v>> \o s  BY <1>4, <2>1, WithEnds
  <2>3. Grown(list_insert_before(dl, Place(c, n + 1), v), dl, n, v)
    BY <1>1, <1>5, <1>7, InsertGrows DEF n
  <2>4. /\ Grown(list_insert_after(dl, Place(c, 0), v), dl, 0, v)
        /\ Grown(list_insert_before(dl, Place(c, 0 + 1), v), dl, 0, v)
    BY <1>1, <1>5, <1>7, InsertGrows DEF n
  <2>5. list_push_back(dl, v) = list_insert_before(dl, Place(c, n + 1), v)
    BY <1>5 DEF list_push_back
  <2>6. list_push_front(dl, v) = list_insert_before(dl, Place(c, 0 + 1), v)
    BY <1>5 DEF list_push_front
  <2> QED BY <1>5, <2>2, <2>3, <2>4, <2>5, <2>6 DEF Grown, s
<1>8. ASSUME s # <<>>
      PROVE  Forward(list_pop_back(dl)) = Front(s) /\ Forward(list_pop_front(dl)) = Tail(s)
  <2>1. n > 0  BY <1>4, <1>5, <1>8
  <2>2. Skip(s, n) = Front(s) /\ Skip(s, 1) = Tail(s)  BY <1>4, <1>8, SkipEnds
  <2>3. list_pop_back(dl) = list_erase(dl, c[n]) /\ list_pop_front(dl) = list_erase(dl, c[1])
    BY <1>5, <2>1 DEF list_pop_back, list_pop_front
  <2>4. Shrunk(list_erase(dl, c[n]), dl, n) /\ Shrunk(list_erase(dl, c[1]), dl, 1)
    BY <1>1, <1>5, <2>1, EraseShrinks DEF n
  <2> QED BY <2>2, <2>3, <2>4 DEF Shrunk, s
<1>9. ASSUME NEW v \in ToSet(s) PROVE Forward(list_remove(dl, v)) = RemoveFirst(s, v)
  <2>1. v \in Elems(s)  BY <1>4, ElemsSeq
  <2>2. \E i \in 1..n : dl.value[c[i]] = v  BY <1>4, <2>1 DEF Elems
  <2>3. PICK j \in 1..n : /\ dl.value[c[j]] = v /\ \A i \in 1..(j - 1) : dl.value[c[i]] # v
                          /\ Shrunk(list_remove(dl, v), dl, j)
    BY <1>1, <2>2, RemoveShrinks DEF n
  <2>4. j \in 1..Len(s) /\ s[j] = v /\ \A i \in 1..(j - 1) : s[i] # v
    <3>1. \A i \in 1..(j - 1) : i \in 1..n  BY <1>5
    <3> QED BY <1>4, <2>3, <3>1
  <2>5. RemoveFirst(s, v) = Skip(s, j)  BY <1>4, <2>4, SkipFirst
  <2> QED BY <2>3, <2>5 DEF Shrunk, s
<1>10. Deque  BY <1>7, <1>8, <1>9 DEF Deque, s
<1> QED BY <1>6, <1>10 DEF ListSound

LEMMA ListStart == ListInit => ListInv
<1> SUFFICES ASSUME ListInit PROVE ListInv  OBVIOUS
<1> DEFINE c == <<>>
<1>1. MaxNodes \in Nat  BY ListAssumption
<1>2. dl = [next |-> [x \in Cell |-> IF x = head THEN end ELSE NoNode],
            pre |-> [x \in Cell |-> IF x = end THEN head ELSE NoNode],
            value |-> [x \in Cell |-> NoNode], size |-> 0]
  BY DEF ListInit, list_create
<1>3. head \in Cell /\ end \in Cell /\ head # end /\ \A x \in 1..MaxNodes : x \in Cell /\ x # head
  BY <1>1, CellRange
<1>4. dl \in ListRec  BY <1>2, <1>3 DEF ListRec
<1>5. dl.next[head] = end /\ dl.pre[end] = head /\ dl.size = 0
      /\ \A x \in 1..MaxNodes : dl.next[x] = NoNode
  BY <1>2, <1>3
<1>6. c \in Seq(1..MaxNodes) /\ Len(c) = 0 /\ Elems(c) = {} /\ NoRepeat(c)  BY DEF Elems, NoRepeat
<1>7. Alive(dl) = {}  BY <1>5 DEF Alive
<1>8. Place(c, 0) = head /\ Place(c, 0 + 1) = end  BY <1>6 DEF Place
<1> HIDE DEF c
<1>9. \A i \in 0..Len(c) : dl.next[Place(c, i)] = Place(c, i + 1) /\ dl.pre[Place(c, i + 1)] = Place(c, i)
  <2>1. \A i \in 0..Len(c) : i = 0  BY <1>6
  <2> QED BY <1>5, <1>8, <2>1
<1>10. Chain(dl, c)  BY <1>4, <1>5, <1>6, <1>7, <1>9 DEF Chain
<1> QED BY <1>6, <1>10 DEF ListInv

LEMMA InsertStepOK ==
  ASSUME ListInv, NEW v \in Val, ListInsert(v)
  PROVE  ListInv'
<1>1. PICK c \in Seq(1..MaxNodes) : Chain(dl, c)  BY DEF ListInv
<1> DEFINE n == Len(c)
<1>2. /\ head = Place(c, 0) /\ end = Place(c, n + 1) /\ dl.next[head] = Place(c, 0 + 1)
      /\ dl.size = n /\ n \in Nat /\ 0 \in 0..n /\ n \in 0..n
  BY <1>1, ListEnds
<1>3. dl.size < MaxNodes
  <2>1. Cardinality(Alive(dl)) = dl.size  BY <1>1, Places
  <2> QED BY <2>1 DEF ListInsert, Room
<1>4. \A i \in 0..n : /\ Grown(list_insert_after(dl, Place(c, i), v), dl, i, v)
                      /\ Grown(list_insert_before(dl, Place(c, i + 1), v), dl, i, v)
  BY <1>1, <1>3, InsertGrows
<1>5. \A x \in Alive(dl) : \E i \in 1..n : x = Place(c, i)
  <2>1. Alive(dl) = Elems(c)  BY <1>1 DEF Chain
  <2>2. \A i \in 1..n : Place(c, i) = c[i]  BY <1>1, Places
  <2> QED BY <2>1, <2>2 DEF Elems
<1> HIDE DEF n
<1>6. \E i \in 0..n : Grown(dl', dl, i, v)
  <2>1. CASE dl' = list_push_back(dl, v)
    <3>1. dl' = list_insert_before(dl, Place(c, n + 1), v)  BY <1>2, <2>1 DEF list_push_back
    <3> QED BY <1>2, <1>4, <3>1
  <2>2. CASE dl' = list_push_front(dl, v)
    <3>1. dl' = list_insert_before(dl, Place(c, 0 + 1), v)  BY <1>2, <2>2 DEF list_push_front
    <3> QED BY <1>2, <1>4, <3>1
  <2>3. ASSUME NEW x \in Alive(dl) \cup {head}, dl' = list_insert_after(dl, x, v)
        PROVE  \E i \in 0..n : Grown(dl', dl, i, v)
    <3>1. PICK i \in 0..n : x = Place(c, i)
      <4>1. \A i \in 1..n : i \in 0..n  BY <1>2
      <4> QED BY <1>2, <1>5, <4>1
    <3> QED BY <1>4, <2>3, <3>1
  <2>4. ASSUME NEW x \in Alive(dl) \cup {end}, dl' = list_insert_before(dl, x, v)
        PROVE  \E i \in 0..n : Grown(dl', dl, i, v)
    <3>1. PICK i \in 0..n : x = Place(c, i + 1)
      <4>1. CASE x = end  BY <1>2, <4>1
      <4>2. CASE x \in Alive(dl)
        <5>1. PICK k \in 1..n : x = Place(c, k)  BY <1>5, <4>2
        <5>2. k - 1 \in 0..n /\ (k - 1) + 1 = k  BY <1>2
        <5> QED BY <5>1, <5>2
      <4> QED BY <4>1, <4>2
    <3> QED BY <1>4, <2>4, <3>1
  <2> QED BY <2>1, <2>2, <2>3, <2>4 DEF ListInsert
<1> QED BY <1>6 DEF Grown, ListInv

LEMMA TakeStepOK ==
  ASSUME ListInv, ListTake
  PROVE  ListInv'
<1>1. PICK c \in Seq(1..MaxNodes) : Chain(dl, c)  BY DEF ListInv
<1> DEFINE n == Len(c)
<1>2. /\ dl.size = n /\ n \in Nat
      /\ n > 0 => dl.next[head] = c[1] /\ dl.pre[end] = c[n] /\ 1 \in 1..n /\ n \in 1..n
  BY <1>1, ListEnds
<1>3. \A j \in 1..n : Shrunk(list_erase(dl, c[j]), dl, j)  BY <1>1, EraseShrinks
<1>4. dl' = dl \/ \E j \in 1..n : Shrunk(dl', dl, j)
  <2>1. CASE dl' = list_pop_back(dl)
    <3>1. CASE n > 0
      <4>1. dl' = list_erase(dl, c[n])  BY <1>2, <2>1, <3>1 DEF list_pop_back
      <4> QED BY <1>2, <1>3, <3>1, <4>1
    <3>2. CASE ~(n > 0)  BY <1>2, <2>1, <3>2 DEF list_pop_back
    <3> QED BY <3>1, <3>2
  <2>2. CASE dl' = list_pop_front(dl)
    <3>1. CASE n > 0
      <4>1. dl' = list_erase(dl, c[1])  BY <1>2, <2>2, <3>1 DEF list_pop_front
      <4> QED BY <1>2, <1>3, <3>1, <4>1
    <3>2. CASE ~(n > 0)  BY <1>2, <2>2, <3>2 DEF list_pop_front
    <3> QED BY <3>1, <3>2
  <2>3. ASSUME NEW x \in Alive(dl), dl' = list_erase(dl, x)
        PROVE  \E j \in 1..n : Shrunk(dl', dl, j)
    <3>1. PICK j \in 1..n : x = c[j]  BY <1>1 DEF Chain, Elems
    <3> QED BY <1>3, <2>3, <3>1
  <2>4. ASSUME NEW v \in Val, list_find(dl, v) # end, dl' = list_remove(dl, v)
        PROVE  \E j \in 1..n : Shrunk(dl', dl, j)
    <3>1. \E i \in 1..n : dl.value[c[i]] = v  BY <1>1, <2>4, RemoveShrinks
    <3> QED BY <1>1, <2>4, <3>1, RemoveShrinks
  <2> QED BY <2>1, <2>2, <2>3, <2>4 DEF ListTake
<1>5. CASE dl' = dl  BY <1>5 DEF ListInv
<1>6. CASE \E j \in 1..n : Shrunk(dl', dl, j)  BY <1>6 DEF Shrunk, ListInv
<1> QED BY <1>4, <1>5, <1>6

LEMMA SetStepOK ==
  ASSUME ListInv, NEW x \in Alive(dl), NEW v \in Val, list_iter_set_val(x, v)
  PROVE  ListInv'
<1>1. PICK c \in Seq(1..MaxNodes) : Chain(dl, c)  BY DEF ListInv
<1>2. x \in Cell  BY ListAssumption, CellRange DEF Alive
<1>3. dl \in ListRec  BY <1>1 DEF Chain
<1>4. dl' \in ListRec /\ dl'.next = dl.next /\ dl'.pre = dl.pre /\ dl'.size = dl.size
  BY <1>2, <1>3 DEF list_iter_set_val, ListRec
<1>5. Alive(dl') = Alive(dl)  BY <1>4 DEF Alive
<1>6. Chain(dl', c)  BY <1>1, <1>4, <1>5 DEF Chain
<1> QED BY <1>6 DEF ListInv

\* However the list is used, through iterators or by its ends and values, the two
\* chains of pointers stay one list, and each call does to it what it says.
THEOREM ListCorrect == ListSpec => []ListSound
<1>1. ASSUME ListInv, [ListNext]_dl PROVE ListInv'
  <2>1. CASE dl' = dl  BY <1>1, <2>1 DEF ListInv
  <2>2. CASE \E v \in Val : ListInsert(v)  BY <1>1, <2>2, InsertStepOK
  <2>3. CASE ListTake  BY <1>1, <2>3, TakeStepOK
  <2>4. CASE \E x \in Alive(dl), v \in Val : list_iter_set_val(x, v)  BY <1>1, <2>4, SetStepOK
  <2> QED BY <1>1, <2>1, <2>2, <2>3, <2>4 DEF ListNext
<1> QED BY <1>1, ListStart, ListInvSound, PTL DEF ListSpec

-----------------------------------------------------------------------------
(* minheap.c.  Every operation only swaps elements of the array, appends   *)
(* one or cuts the last one off, and keeps each index in step with it.     *)

HeapRec == [data : Seq(Ele), index : [Ele -> Nat]]

\* Every element of the heap knows its position.
Placed(m) == \A i \in 1..Len(m.data) : m.index[m.data[i]] = i

\* What swapping elements of m can make of it.
Moves(m) ==
  {x \in HeapRec : /\ Placed(x) /\ Len(x.data) = Len(m.data)
                   /\ Elems(x.data) = Elems(m.data)
                   /\ \A e \in Ele \ Elems(m.data) : x.index[e] = m.index[e]}

LEMMA MovesSelf ==
  ASSUME NEW m \in HeapRec, Placed(m)
  PROVE  m \in Moves(m)
BY DEF Moves

LEMMA MovesMore ==
  ASSUME NEW m, NEW x \in Moves(m), NEW y \in Moves(x)
  PROVE  y \in Moves(m)
BY DEF Moves

LEMMA SwapMoves ==
  ASSUME NEW m \in HeapRec, Placed(m), NEW i \in 1..Len(m.data), NEW j \in 1..Len(m.data)
  PROVE  swap(m, i, j) \in Moves(m)
<1> DEFINE d == m.data
           n == Len(d)
           a == d[i]
           b == d[j]
           d2 == [d EXCEPT ![i] = b, ![j] = a]
           x2 == [m.index EXCEPT ![b] = i, ![a] = j]
<1>1. d \in Seq(Ele) /\ m.index \in [Ele -> Nat] /\ n \in Nat  BY DEF HeapRec
<1>2. a \in Ele /\ b \in Ele /\ i \in Nat /\ j \in Nat /\ i \in 1..n /\ j \in 1..n  BY <1>1
<1>3. swap(m, i, j) = [data |-> d2, index |-> x2]  BY DEF swap
<1>4. d2 \in Seq(Ele) /\ Len(d2) = n  BY <1>1, <1>2
<1>5. \A k \in 1..n : d2[k] = IF k = j THEN a ELSE IF k = i THEN b ELSE d[k]  BY <1>1, <1>2
<1>6. x2 \in [Ele -> Nat] /\ \A e \in Ele : x2[e] = IF e = a THEN j ELSE IF e = b THEN i ELSE m.index[e]
  BY <1>1, <1>2
<1>7. \A k \in 1..n : d[k] \in Ele /\ m.index[d[k]] = k  BY <1>1 DEF Placed
<1> HIDE DEF d, n, a, b, d2, x2
<1>8. d[i] = a /\ d[j] = b  BY DEF a, b
<1>9. \A k \in 1..n : x2[d2[k]] = k
  <2> SUFFICES ASSUME NEW k \in 1..n PROVE x2[d2[k]] = k  OBVIOUS
  <2>1. CASE k = j  BY <1>2, <1>5, <1>6, <2>1
  <2>2. CASE k # j /\ k = i
    <3>1. d2[k] = b  BY <1>5, <2>2
    <3>2. b # a  BY <1>2, <1>7, <1>8, <2>2
    <3> QED BY <1>2, <1>6, <2>2, <3>1, <3>2
  <2>3. CASE k # j /\ k # i
    <3>1. d2[k] = d[k]  BY <1>5, <2>3
    <3>2. d[k] # a /\ d[k] # b  BY <1>2, <1>7, <1>8, <2>3
    <3> QED BY <1>6, <1>7, <3>1, <3>2
  <2> QED BY <2>1, <2>2, <2>3
<1>10. Elems(d2) = Elems(d)
  <2>1. ASSUME NEW e \in Elems(d2) PROVE e \in Elems(d)
    <3>1. PICK k \in 1..n : e = d2[k]  BY <1>4, <2>1 DEF Elems
    <3>2. e = d[j] \/ e = d[i] \/ e = d[k]  BY <1>5, <1>8, <3>1
    <3> QED BY <1>2, <3>1, <3>2 DEF Elems, n
  <2>2. ASSUME NEW e \in Elems(d) PROVE e \in Elems(d2)
    <3>1. PICK k \in 1..n : e = d[k]  BY <2>2 DEF Elems, n
    <3>2. e = d2[i] \/ e = d2[j] \/ e = d2[k]
      <4>1. CASE k = i  BY <1>2, <1>5, <1>8, <3>1, <4>1
      <4>2. CASE k = j
        <5>1. e = b  BY <1>8, <3>1, <4>2
        <5>2. CASE i = j  BY <1>2, <1>5, <1>8, <4>2, <5>1, <5>2
        <5>3. CASE i # j  BY <1>2, <1>5, <5>1, <5>3
        <5> QED BY <5>2, <5>3
      <4>3. CASE k # i /\ k # j  BY <1>5, <3>1, <4>3
      <4> QED BY <4>1, <4>2, <4>3
    <3> QED BY <1>2, <1>4, <3>1, <3>2 DEF Elems
  <2> QED BY <2>1, <2>2
<1>11. \A e \in Ele \ Elems(d) : x2[e] = m.index[e]
  <2>1. a \in Elems(d) /\ b \in Elems(d)  BY <1>2, <1>8 DEF Elems, n
  <2> QED BY <1>6, <2>1
<1> DEFINE z == [data |-> d2, index |-> x2]
<1>12. z \in HeapRec /\ z.data = d2 /\ z.index = x2  BY <1>4, <1>6 DEF HeapRec
<1> HIDE DEF z
<1>13. Placed(z)  BY <1>4, <1>9, <1>12 DEF Placed
<1>14. z \in Moves(m)  BY <1>4, <1>10, <1>11, <1>12, <1>13 DEF Moves, d, n
<1> QED BY <1>3, <1>14 DEF z

\* A heap that is being reordered, and the position looked at.
Stage(m) == {s \in [m : Moves(m), at : Nat] : s.at \in 1..Len(m.data) \/ Len(m.data) = 0}

LEMMA UpStep ==
  ASSUME NEW m \in HeapRec, NEW r, NEW s \in Stage(m), Len(m.data) > 0
  PROVE  up_step(r, s) \in Stage(m)
<1> DEFINE p == (s.at \div 2)
<1>1. s.m \in Moves(m) /\ s.at \in Nat /\ s.at \in 1..Len(m.data) /\ Len(m.data) \in Nat
  BY DEF Stage, HeapRec
<1>2. s.m \in HeapRec /\ Placed(s.m) /\ Len(s.m.data) = Len(m.data)  BY <1>1 DEF Moves
<1>3. CASE ~(p # 0 /\ less(r, s.m.data[s.at], s.m.data[p]))  BY <1>3 DEF up_step
<1>4. CASE p # 0 /\ less(r, s.m.data[s.at], s.m.data[p])
  <2>1. p \in 1..Len(m.data)  BY <1>1, <1>4
  <2> HIDE DEF p
  <2>2. swap(s.m, s.at, p) \in Moves(s.m)  BY <1>1, <1>2, <2>1, SwapMoves
  <2>3. swap(s.m, s.at, p) \in Moves(m)  BY <1>1, <2>2, MovesMore
  <2>4. up_step(r, s) = [m |-> swap(s.m, s.at, p), at |-> p]  BY <1>4 DEF up_step, p
  <2> QED BY <2>1, <2>3, <2>4 DEF Stage
<1> QED BY <1>3, <1>4

LEMMA DownStep ==
  ASSUME NEW m \in HeapRec, NEW r, NEW s \in Stage(m)
  PROVE  down_step(r, s) \in Stage(m)
<1> DEFINE Smaller(c, i) == c < size(s.m) /\ less(r, s.m.data[c], s.m.data[i])
           min1 == IF Smaller(2 * s.at, s.at) THEN 2 * s.at ELSE s.at
           min  == IF Smaller(2 * s.at + 1, min1) THEN 2 * s.at + 1 ELSE min1
<1>1. s.m \in Moves(m) /\ s.at \in Nat /\ Len(m.data) \in Nat
      /\ (s.at \in 1..Len(m.data) \/ Len(m.data) = 0)
  BY DEF Stage, HeapRec
<1>2. s.m \in HeapRec /\ Placed(s.m) /\ Len(s.m.data) = Len(m.data)  BY <1>1 DEF Moves
<1>3. down_step(r, s) = IF min = s.at THEN s ELSE [m |-> swap(s.m, s.at, min), at |-> min]
  BY DEF down_step
<1>4. size(s.m) = Len(m.data)  BY <1>2 DEF size
<1>5. min = s.at \/ (min = 2 * s.at /\ 2 * s.at < Len(m.data))
                 \/ (min = 2 * s.at + 1 /\ 2 * s.at + 1 < Len(m.data))
  BY <1>4
<1> HIDE DEF min
<1>6. CASE min = s.at  BY <1>3, <1>6
<1>7. CASE min # s.at
  <2>1. min \in 1..Len(m.data) /\ s.at \in 1..Len(m.data)  BY <1>1, <1>5, <1>7
  <2>2. swap(s.m, s.at, min) \in Moves(s.m)  BY <1>2, <2>1, SwapMoves
  <2>3. swap(s.m, s.at, min) \in Moves(m)  BY <1>1, <2>2, MovesMore
  <2> QED BY <1>3, <1>7, <2>1, <2>3 DEF Stage
<1> QED BY <1>6, <1>7

IsUp(f, m, r, idx) ==
  f = [k \in 0..idx |-> IF k = 0 THEN [m |-> m, at |-> idx] ELSE up_step(r, f[k - 1])]

LEMMA UpMoves ==
  ASSUME NEW m \in HeapRec, Placed(m), NEW r, NEW idx \in 1..Len(m.data)
  PROVE  up(m, r, idx) \in Moves(m)
<1> DEFINE x == [m |-> m, at |-> idx]
           S == Stage(m)
           G == [k \in 1..idx |-> [s \in S |-> up_step(r, s)]]
           c == CHOOSE f : IsUp(f, m, r, idx)
<1>1. idx \in Nat /\ Len(m.data) > 0 /\ Len(m.data) \in Nat  BY DEF HeapRec
<1>2. x \in S  BY <1>1, MovesSelf DEF Stage
<1>3. \A s \in S : up_step(r, s) \in S  BY <1>1, UpStep
<1> HIDE DEF S, x
<1>4. G \in [1..idx -> [S -> S]]  BY <1>3
<1>5. PICK f \in [0..idx -> S] : Follows(f, x, G, idx)  BY <1>1, <1>2, <1>4, RecDefined
<1>6. ASSUME NEW k \in 0..idx PROVE f[k] = IF k = 0 THEN x ELSE up_step(r, f[k - 1])
  <2>1. CASE k = 0  BY <1>5, <2>1 DEF Follows
  <2>2. CASE k # 0
    <3>1. k \in 1..idx /\ f[k - 1] \in S  BY <1>1, <2>2
    <3>2. f[k] = G[k][f[k - 1]]  BY <1>5, <3>1 DEF Follows
    <3> QED BY <2>2, <3>1, <3>2
  <2> QED BY <2>1, <2>2
<1>7. f = [k \in 0..idx |-> f[k]]  OBVIOUS
<1>8. IsUp(f, m, r, idx)  BY <1>6, <1>7 DEF IsUp, x
<1>9. IsUp(c, m, r, idx)  BY <1>8
<1>10. up(m, r, idx) = c[idx].m  BY DEF up, IsUp
<1> HIDE DEF c
<1>11. \A k \in 0..idx : c[k] = IF k = 0 THEN x ELSE up_step(r, c[k - 1])  BY <1>9 DEF IsUp, x
<1>12. c[0] \in S  BY <1>1, <1>2, <1>11
<1>13. \A k \in 1..idx : c[k - 1] \in S => c[k] \in S  BY <1>1, <1>3, <1>11
<1>14. \A k \in 0..idx : c[k] \in S  BY <1>1, <1>12, <1>13, StaysInside
<1>15. c[idx] \in S  BY <1>1, <1>14
<1> QED BY <1>10, <1>15 DEF S, Stage

IsDown(f, m, r, idx) ==
  f = [k \in 0..size(m) |-> IF k = 0 THEN [m |-> m, at |-> idx] ELSE down_step(r, f[k - 1])]

LEMMA DownMoves ==
  ASSUME NEW m \in HeapRec, Placed(m), NEW r, NEW idx \in Nat,
         idx \in 1..Len(m.data) \/ Len(m.data) = 0
  PROVE  down(m, r, idx) \in Moves(m)
<1> DEFINE x == [m |-> m, at |-> idx]
           S == Stage(m)
           n == size(m)
           G == [k \in 1..n |-> [s \in S |-> down_step(r, s)]]
           c == CHOOSE f : IsDown(f, m, r, idx)
<1>1. n \in Nat  BY DEF HeapRec, size
<1>2. x \in S  BY MovesSelf DEF Stage
<1>3. \A s \in S : down_step(r, s) \in S  BY DownStep
<1> HIDE DEF S, x, n
<1>4. G \in [1..n -> [S -> S]]  BY <1>3
<1>5. PICK f \in [0..n -> S] : Follows(f, x, G, n)  BY <1>1, <1>2, <1>4, RecDefined
<1>6. ASSUME NEW k \in 0..n PROVE f[k] = IF k = 0 THEN x ELSE down_step(r, f[k - 1])
  <2>1. CASE k = 0  BY <1>5, <2>1 DEF Follows
  <2>2. CASE k # 0
    <3>1. k \in 1..n /\ f[k - 1] \in S  BY <1>1, <2>2
    <3>2. f[k] = G[k][f[k - 1]]  BY <1>5, <3>1 DEF Follows
    <3> QED BY <2>2, <3>1, <3>2
  <2> QED BY <2>1, <2>2
<1>7. f = [k \in 0..n |-> f[k]]  OBVIOUS
<1>8. IsDown(f, m, r, idx)  BY <1>6, <1>7 DEF IsDown, x, n
<1>9. IsDown(c, m, r, idx)  BY <1>8
<1>10. down(m, r, idx) = c[n].m  BY DEF down, IsDown, n
<1> HIDE DEF c
<1>11. \A k \in 0..n : c[k] = IF k = 0 THEN x ELSE down_step(r, c[k - 1])
  BY <1>9 DEF IsDown, x, n
<1>12. c[0] \in S  BY <1>1, <1>2, <1>11
<1>13. \A k \in 1..n : c[k - 1] \in S => c[k] \in S  BY <1>1, <1>3, <1>11
<1>14. \A k \in 0..n : c[k] \in S  BY <1>1, <1>12, <1>13, StaysInside
<1>15. c[n] \in S  BY <1>1, <1>14
<1> QED BY <1>10, <1>15 DEF S, Stage


\* Elements in the heap know their position, the others have none.
HeapOK(m) ==
  /\ m \in HeapRec /\ Placed(m) /\ Len(m.data) <= max_size
  /\ \A e \in Ele \ Elems(m.data) : m.index[e] = 0

LEMMA MovesOK ==
  ASSUME NEW m, HeapOK(m), NEW x \in Moves(m)
  PROVE  HeapOK(x)
BY DEF HeapOK, Moves

LEMMA CreateOK == HeapOK(minheap_create)
<1>1. minheap_create \in HeapRec  BY DEF minheap_create, HeapRec
<1>2. minheap_create.data = <<>> /\ \A e \in Ele : minheap_create.index[e] = 0
  BY DEF minheap_create
<1> QED BY <1>1, <1>2, HeapAssumption DEF HeapOK, Placed

\* An index that is not 0 is a position of the heap.
LEMMA KnownPlace ==
  ASSUME NEW m, HeapOK(m), NEW e \in Ele, m.index[e] # 0
  PROVE  m.index[e] \in 1..Len(m.data) /\ m.data[m.index[e]] = e
<1>1. e \in Elems(m.data)  BY DEF HeapOK
<1>2. PICK i \in 1..Len(m.data) : e = m.data[i]  BY <1>1 DEF Elems
<1>3. m.index[e] = i  BY <1>2 DEF HeapOK, Placed
<1> QED BY <1>2, <1>3

LEMMA ChangeOK ==
  ASSUME NEW m, HeapOK(m), NEW r, NEW e \in Ele, m.index[e] # 0
  PROVE  HeapOK(minheap_change(m, r, e))
<1> DEFINE p == m.index[e]
           x == down(m, r, p)
<1>1. p \in 1..Len(m.data) /\ m \in HeapRec /\ Placed(m)  BY KnownPlace DEF HeapOK
<1>2. p \in Nat  BY <1>1 DEF HeapRec
<1>3. x \in Moves(m)  BY <1>1, <1>2, DownMoves
<1>4. minheap_change(m, r, e) = up(x, r, p)  BY DEF minheap_change
<1> HIDE DEF x, p
<1>5. x \in HeapRec /\ Placed(x) /\ p \in 1..Len(x.data)  BY <1>1, <1>3 DEF Moves
<1>6. up(x, r, p) \in Moves(x)  BY <1>5, UpMoves
<1>7. up(x, r, p) \in Moves(m)  BY <1>3, <1>6, MovesMore
<1> QED BY <1>4, <1>7, MovesOK

LEMMA AppendOK ==
  ASSUME NEW m, HeapOK(m), NEW e \in Ele, m.index[e] = 0, Len(m.data) < max_size
  PROVE  HeapOK([data |-> Append(m.data, e), index |-> [m.index EXCEPT ![e] = Len(m.data) + 1]])
<1> DEFINE n == Len(m.data)
           d == Append(m.data, e)
           x == [m.index EXCEPT ![e] = n + 1]
           z == [data |-> d, index |-> x]
<1>1. m.data \in Seq(Ele) /\ m.index \in [Ele -> Nat] /\ n \in Nat  BY DEF HeapOK, HeapRec
<1>2. /\ d \in Seq(Ele) /\ Len(d) = n + 1 /\ d[n + 1] = e
      /\ \A k \in 1..n : d[k] = m.data[k]
  BY <1>1
<1>3. x \in [Ele -> Nat] /\ \A g \in Ele : x[g] = IF g = e THEN n + 1 ELSE m.index[g]
  BY <1>1
<1>4. \A k \in 1..n : m.data[k] \in Ele /\ m.index[m.data[k]] = k  BY <1>1 DEF HeapOK, Placed
<1>5. z \in HeapRec /\ z.data = d /\ z.index = x  BY <1>2, <1>3 DEF HeapRec
<1> HIDE DEF d, x, n, z
<1>6. ASSUME NEW k \in 1..(n + 1) PROVE x[d[k]] = k
  <2>1. CASE k = n + 1  BY <1>2, <1>3, <2>1
  <2>2. CASE k # n + 1
    <3>1. k \in 1..n  BY <1>1, <2>2
    <3>2. m.data[k] \in Ele /\ m.index[m.data[k]] = k /\ d[k] = m.data[k]  BY <1>2, <1>4, <3>1
    <3>3. m.data[k] # e  BY <3>1, <3>2
    <3> QED BY <1>3, <3>2, <3>3
  <2> QED BY <2>1, <2>2
<1>7. Placed(z)  BY <1>2, <1>5, <1>6 DEF Placed
<1>8. ASSUME NEW g \in Ele \ Elems(d) PROVE x[g] = 0
  <2>1. \A k \in 1..(n + 1) : g # d[k]  BY <1>2, <1>8 DEF Elems
  <2>2. g # e  BY <1>1, <1>2, <2>1
  <2>3. \A k \in 1..n : g # m.data[k]
    <3> SUFFICES ASSUME NEW k \in 1..n PROVE g # m.data[k]  OBVIOUS
    <3>1. k \in 1..(n + 1)  BY <1>1
    <3> QED BY <1>2, <2>1, <3>1
  <2>4. g \notin Elems(m.data)  BY <2>3 DEF Elems, n
  <2>5. m.index[g] = 0  BY <2>4 DEF HeapOK
  <2> QED BY <1>3, <2>2, <2>5
<1>9. Len(d) <= max_size  BY <1>1, <1>2, HeapAssumption DEF n
<1>10. HeapOK(z)  BY <1>5, <1>7, <1>8, <1>9 DEF HeapOK
<1> QED BY <1>10 DEF z, d, x, n

LEMMA HeapInsertOK ==
  ASSUME NEW m, HeapOK(m), NEW r, NEW e \in Ele
  PROVE  HeapOK(minheap_insert(m, r, e))
<1> DEFINE z == [data |-> Append(m.data, e), index |-> [m.index EXCEPT ![e] = size(m) + 1]]
<1>1. size(m) = Len(m.data) /\ Len(m.data) \in Nat /\ m.data \in Seq(Ele)
  BY DEF size, HeapOK, HeapRec
<1>2. CASE m.index[e] # 0
  <2>1. minheap_insert(m, r, e) = minheap_change(m, r, e)  BY <1>2 DEF minheap_insert
  <2> QED BY <1>2, <2>1, ChangeOK
<1>3. CASE m.index[e] = 0 /\ size(m) >= max_size
  <2>1. minheap_insert(m, r, e) = m  BY <1>1, <1>3, HeapAssumption DEF minheap_insert
  <2> QED BY <2>1
<1>4. CASE m.index[e] = 0 /\ size(m) < max_size
  <2>1. minheap_insert(m, r, e) = up(z, r, size(m) + 1)
    BY <1>1, <1>4, HeapAssumption DEF minheap_insert
  <2>2. HeapOK(z)  BY <1>1, <1>4, AppendOK
  <2>3. z.data = Append(m.data, e)  OBVIOUS
  <2> HIDE DEF z
  <2>4. size(m) + 1 \in 1..Len(z.data)  BY <1>1, <2>3
  <2>5. up(z, r, size(m) + 1) \in Moves(z)  BY <2>2, <2>4, UpMoves DEF HeapOK
  <2> QED BY <2>1, <2>2, <2>5, MovesOK
<1> QED BY <1>1, <1>2, <1>3, <1>4, HeapAssumption

IsAgain(f, b, r) ==
  f = [i \in 0..Len(b) |-> IF i = 0 THEN minheap_create ELSE minheap_insert(f[i - 1], r, b[i])]

LEMMA HeapRemoveOK ==
  ASSUME NEW m, HeapOK(m), NEW r, NEW e \in Ele
  PROVE  HeapOK(minheap_remove(m, r, e))
<1> DEFINE b == Without(m.data, {e})
           n == Len(b)
           S == {x \in HeapRec : HeapOK(x)}
           G == [i \in 1..n |-> [x \in S |-> minheap_insert(x, r, b[i])]]
           c == CHOOSE f : IsAgain(f, b, r)
<1>1. m.data \in Seq(Ele) /\ NoRepeat(m.data)  BY DEF HeapOK, HeapRec, Placed, NoRepeat
<1>2. b \in Seq(Ele)  BY <1>1, WithoutElems
<1>3. minheap_remove(m, r, e) = c[n]  BY DEF minheap_remove, IsAgain
<1>4. \A x : x \in S <=> HeapOK(x)  BY DEF HeapOK
<1> HIDE DEF b, S
<1>5. n \in Nat /\ \A i \in 1..n : b[i] \in Ele  BY <1>2
<1>6. minheap_create \in S  BY <1>4, CreateOK
<1>7. \A i \in 1..n, x \in S : minheap_insert(x, r, b[i]) \in S  BY <1>4, <1>5, HeapInsertOK
<1> HIDE DEF n
<1>8. G \in [1..n -> [S -> S]]  BY <1>7
<1>9. PICK f \in [0..n -> S] : Follows(f, minheap_create, G, n)  BY <1>5, <1>6, <1>8, RecDefined
<1>10. ASSUME NEW i \in 0..n
       PROVE  f[i] = IF i = 0 THEN minheap_create ELSE minheap_insert(f[i - 1], r, b[i])
  <2>1. CASE i = 0  BY <1>9, <2>1 DEF Follows
  <2>2. CASE i # 0
    <3>1. i \in 1..n /\ f[i - 1] \in S  BY <1>5, <2>2
    <3>2. f[i] = G[i][f[i - 1]]  BY <1>9, <3>1 DEF Follows
    <3> QED BY <2>2, <3>1, <3>2
  <2> QED BY <2>1, <2>2
<1>11. f = [i \in 0..n |-> f[i]]  OBVIOUS
<1>12. IsAgain(f, b, r)  BY <1>10, <1>11 DEF IsAgain, n
<1>13. IsAgain(c, b, r)  BY <1>12
<1> HIDE DEF c
<1>14. \A i \in 0..n : c[i] = IF i = 0 THEN minheap_create ELSE minheap_insert(c[i - 1], r, b[i])
  BY <1>13 DEF IsAgain, n
<1>15. c[0] \in S  BY <1>5, <1>6, <1>14
<1>16. \A i \in 1..n : c[i - 1] \in S => c[i] \in S  BY <1>5, <1>7, <1>14
<1>17. \A i \in 0..n : c[i] \in S  BY <1>5, <1>15, <1>16, StaysInside
<1> QED BY <1>3, <1>4, <1>5, <1>17


\* popmin swaps the least element with the last one and cuts it off.
LEMMA HeapPopOK ==
  ASSUME NEW m, HeapOK(m), NEW r
  PROVE  HeapOK(minheap_popmin(m, r))
<1> DEFINE n == Len(m.data)
           top == m.data[1]
           m1 == swap(m, 1, n)
           d == SubSeq(m1.data, 1, n - 1)
           z == [data |-> d, index |-> m1.index]
           m2 == down(z, r, 1)
           x == [m2.index EXCEPT ![top] = 0]
           y == [data |-> m2.data, index |-> x]
<1>1. m \in HeapRec /\ Placed(m) /\ m.data \in Seq(Ele) /\ n \in Nat /\ n <= max_size
  BY DEF HeapOK, HeapRec
<1>2. CASE m.data = <<>>
  <2>1. minheap_popmin(m, r) = m  BY <1>2 DEF minheap_popmin
  <2> QED BY <2>1
<1>3. CASE m.data # <<>>
  <2>1. n > 0 /\ 1 \in 1..n /\ n \in 1..n /\ top \in Ele  BY <1>1, <1>3
  <2>2. minheap_popmin(m, r) = y  BY <1>3 DEF minheap_popmin, size
  <2>3. m1 \in Moves(m)  BY <1>1, <2>1, SwapMoves
  <2>4. m1.data[n] = top  BY <1>1, <2>1 DEF swap
  <2> HIDE DEF m1, top
  <2>5. /\ m1 \in HeapRec /\ Placed(m1) /\ Len(m1.data) = n
        /\ m1.data \in Seq(Ele) /\ m1.index \in [Ele -> Nat]
        /\ Elems(m1.data) = Elems(m.data)
        /\ \A e \in Ele \ Elems(m.data) : m1.index[e] = 0
    BY <2>3 DEF Moves, HeapOK, HeapRec
  <2> HIDE DEF n
  <2>6. d \in Seq(Ele) /\ Len(d) = n - 1 /\ \A k \in 1..(n - 1) : d[k] = m1.data[k]
    BY <1>1, <2>1, <2>5
  <2>7. z \in HeapRec /\ z.data = d /\ z.index = m1.index  BY <2>5, <2>6 DEF HeapRec
  <2> HIDE DEF d, z
  <2>8. \A k \in 1..n : m1.index[m1.data[k]] = k  BY <2>5 DEF Placed
  <2>9. \A k \in 1..(n - 1) : k \in 1..n  BY <1>1
  <2>10. Placed(z)  BY <2>6, <2>7, <2>8, <2>9 DEF Placed
  <2>11. 1 \in 1..Len(z.data) \/ Len(z.data) = 0  BY <1>1, <2>1, <2>6, <2>7
  <2>12. m2 \in Moves(z)  BY <2>7, <2>10, <2>11, DownMoves
  <2> HIDE DEF m2
  <2>13. /\ m2 \in HeapRec /\ m2.data \in Seq(Ele) /\ m2.index \in [Ele -> Nat]
         /\ Placed(m2) /\ Len(m2.data) = n - 1 /\ Elems(m2.data) = Elems(d)
         /\ \A e \in Ele \ Elems(d) : m2.index[e] = m1.index[e]
    BY <2>6, <2>7, <2>12 DEF Moves, HeapRec
  <2>14. top \notin Elems(d)
    <3> SUFFICES ASSUME NEW k \in 1..(n - 1), d[k] = top PROVE FALSE  BY <2>6 DEF Elems
    <3>1. m1.index[top] = k  BY <2>6, <2>8, <2>9
    <3>2. m1.index[top] = n  BY <2>1, <2>4, <2>8
    <3> QED BY <1>1, <3>1, <3>2
  <2>15. x \in [Ele -> Nat] /\ \A e \in Ele : x[e] = IF e = top THEN 0 ELSE m2.index[e]
    BY <2>1, <2>13
  <2>16. y \in HeapRec /\ y.data = m2.data /\ y.index = x  BY <2>13, <2>15 DEF HeapRec
  <2> HIDE DEF x, y
  <2>17. \A k \in 1..(n - 1) : m2.data[k] \in Ele /\ m2.data[k] # top /\ m2.index[m2.data[k]] = k
    <3> SUFFICES ASSUME NEW k \in 1..(n - 1)
                 PROVE  m2.data[k] \in Ele /\ m2.data[k] # top /\ m2.index[m2.data[k]] = k
      OBVIOUS
    <3>1. m2.data[k] \in Ele  BY <2>13
    <3>2. m2.data[k] \in Elems(d)  BY <2>13 DEF Elems
    <3> QED BY <2>13, <2>14, <3>1, <3>2 DEF Placed
  <2>18. Placed(y)  BY <2>13, <2>15, <2>16, <2>17 DEF Placed
  <2>19. ASSUME NEW e \in Ele \ Elems(y.data) PROVE y.index[e] = 0
    <3>1. CASE e = top  BY <2>15, <2>16, <3>1
    <3>2. CASE e # top
      <4>1. e \notin Elems(d)  BY <2>13, <2>16, <2>19
      <4>2. y.index[e] = m1.index[e]  BY <2>13, <2>15, <2>16, <3>2, <4>1
      <4>3. e \notin Elems(m1.data)
        <5> SUFFICES ASSUME NEW k \in 1..n, e = m1.data[k] PROVE FALSE  BY <2>5 DEF Elems
        <5>1. k \in 1..(n - 1)  BY <1>1, <2>4, <3>2
        <5>2. e = d[k]  BY <2>6, <5>1
        <5> QED BY <2>6, <4>1, <5>1, <5>2 DEF Elems
      <4> QED BY <2>5, <4>2, <4>3
    <3> QED BY <3>1, <3>2
  <2>20. Len(y.data) <= max_size  BY <1>1, <2>13, <2>16, HeapAssumption
  <2> QED BY <2>2, <2>16, <2>18, <2>19, <2>20 DEF HeapOK
<1> QED BY <1>2, <1>3

LEMMA IndexFromOK ==
  ASSUME HeapOK(heap)
  PROVE  IndexRight
<1> SUFFICES ASSUME NEW e \in Ele, NEW i \in 0..max_size
             PROVE  heap.index[e] = i
                      <=> IF i = 0 THEN \A j \in DOMAIN heap.data : heap.data[j] # e
                          ELSE i <= size(heap) /\ heap.data[i] = e
  BY DEF IndexRight
<1>1. heap.data \in Seq(Ele) /\ DOMAIN heap.data = 1..Len(heap.data) /\ Len(heap.data) \in Nat
  BY DEF HeapOK, HeapRec
<1>2. \A j \in 1..Len(heap.data) : heap.index[heap.data[j]] = j  BY DEF HeapOK, Placed
<1>3. i \in Nat  BY HeapAssumption
<1>4. CASE i = 0
  <2>1. ASSUME heap.index[e] = 0, NEW j \in DOMAIN heap.data PROVE heap.data[j] # e
    BY <1>1, <1>2, <2>1
  <2>2. ASSUME \A j \in DOMAIN heap.data : heap.data[j] # e PROVE heap.index[e] = 0
    <3>1. e \notin Elems(heap.data)  BY <1>1, <2>2 DEF Elems
    <3> QED BY <3>1 DEF HeapOK
  <2> QED BY <1>4, <2>1, <2>2
<1>5. CASE i # 0
  <2>1. ASSUME heap.index[e] = i PROVE i <= size(heap) /\ heap.data[i] = e
    <3>1. i \in 1..Len(heap.data) /\ heap.data[i] = e  BY <1>5, <2>1, KnownPlace
    <3> QED BY <1>1, <3>1 DEF size
  <2>2. ASSUME i <= size(heap), heap.data[i] = e PROVE heap.index[e] = i
    <3>1. i \in 1..Len(heap.data)  BY <1>1, <1>3, <1>5, <2>2 DEF size
    <3> QED BY <1>2, <2>2, <3>1
  <2> QED BY <1>5, <2>1, <2>2
<1> QED BY <1>4, <1>5

\* Whatever the ranks are and however they change, the index in every element
\* is its position in data, and 0 outside the heap, after any sequence of
\* insert, change, remove and popmin, until one of the writes past the end of
\* data (126) or of back (102) hits memory in use.
THEOREM HeapCorrect == HeapSpec => []IndexRight
<1>1. HeapInit => HeapOK(heap)  BY CreateOK DEF HeapInit
<1>2. HeapOK(heap) /\ [HeapNext]_hvars => HeapOK(heap)'
  <2> SUFFICES ASSUME HeapOK(heap), [HeapNext]_hvars PROVE HeapOK(heap')
    BY DEF HeapOK, HeapRec, Placed
  <2>1. ASSUME NEW e \in Ele, HeapInsert(e) PROVE HeapOK(heap')
    BY <2>1, HeapInsertOK DEF HeapInsert
  <2>2. ASSUME NEW e \in Ele, NEW k \in 1..MaxRank, HeapChange(e, k) PROVE HeapOK(heap')
    BY <2>2, ChangeOK DEF HeapChange
  <2>3. ASSUME NEW e \in Ele, HeapRemove(e) PROVE HeapOK(heap')
    BY <2>3, HeapRemoveOK DEF HeapRemove
  <2>4. CASE HeapPopMin  BY <2>4, HeapPopOK DEF HeapPopMin
  <2>5. CASE UNCHANGED hvars  BY <2>5 DEF hvars
  <2> QED BY <2>1, <2>2, <2>3, <2>4, <2>5 DEF HeapNext
<1>3. HeapOK(heap) => IndexRight  BY IndexFromOK
<1> QED BY <1>1, <1>2, <1>3, PTL DEF HeapSpec
==============================================================================

# kendylib in TLA+

kendylib is a small C networking library: an edge-triggered epoll engine with a
completion-style request interface, stream connections with length-prefixed
packets on top of it, and the supporting parts (locks, queues, reference-counted
buffers, allocators, timers, a log, containers, coroutines). This directory holds
TLA+ models of its parts, the TLC configurations that check them on small
instances, and TLAPS proofs of the results that matter most for every instance.
The repository has no documentation besides comments and test programs; where a
comment or a test says what the code should do, it is quoted.

## Inventory

| part | state | operations | what is hard |
|---|---|---|---|
| engine and sockets (`epoll.c`, `Socket.c`, `KendyNet.c`) | per socket: `readable`, `writeable`, `isactived`, two request queues; per engine: the active list | `EngineRun`, `WSARecv`, `WSASend`, `Bind2Engine`; events; `OnRead` / `OnWrite` callbacks | edges are reported once; callbacks re-enter the interface; the active list is intrusive |
| handle table (`HandleMgr.c`, `SocketWrapper.c`) | `socket_pool`, `status` | open, accept, close, release | a slot is reused while the engine still knows it; two threads |
| connection (`Connection.c`) | two requests with `isUsed`, `send_list`, receive buffers | start_recv, send, push_packet, active_close, destroy; `RecvFinish`, `SendFinish` | when both requests are idle; destruction inside a callback; partial writes |
| packets, buffers (`rpacket.c`, `wpacket.c`, `buffer.c`, `refbase.c`) | reference-counted buffer chain, read and write positions | create, read, write, destroy | packets outlive connections; data across buffer boundaries |
| test server and client | client table, two threads | accept_callback, broadcast, remove_client | the listener thread runs beside the engine thread |
| spinlock (`spinlock.c`) | `owner`, `lock_count`, `lock_by_mtx`, mutex | spin_lock, spin_unlock | every interleaving; the bounded variant |
| list, blocking queue (`link_list.c`) | list, `force_wakeup`, mutex, condition | push, pop with three kinds of waiting, force_wakeup, clear | signal after unlock, and only when the list was empty |
| mutex, condition, barrior (`sync.c`) | `wait_count` of the barrier | wait, timed wait, signal, barrior_wait | lost wake-ups, time-outs |
| acceptor, connector | listening sockets; pending connects | run loops with `select` | time-outs against results |
| threads (`thread.c`) | suspend flag | run, suspend, resume, join | resume before suspend |
| allocator (`block_obj_allocator.c`) | per-thread and central free lists | alloc, dealloc | blocks that move between threads |
| timing wheel (`timing_wheel.c`; `timer.c` leaves timing to the kernel) | slots, current position | register, unregister, update | timers changed from callbacks; wrap-around |
| log (`log.c`) | queues, writer thread | write, flush, close | close against pending writes |
| coroutines (`coro/`) | heap of time-outs, ready list | spawn, yield, sleep, schedule | heap indices |
| containers (`hash_map.c`, `RBtree.c`, ...) | tables, trees | insert, find, remove | tombstones, colours |
| `uthread.c`, `except.c`, `lookup8.c` | machine stack; none | - | assembly, longjmp, third-party arithmetic: not modelled |

Interaction: an application posts requests with `WSARecv` / `WSASend`; `epoll_loop`
turns events into flags, puts sockets with both a flag and a request on the
active list, and `Process` completes one request per direction and calls back.
`Connection` is such an application; its callbacks call the interface again with
`now = 1`. The test programs sit on top and destroy connections from inside
callbacks. Only `testserver.c` has a second thread in this picture.

`PROJECT.json` lists the hazards, each at its line, with the properties that cover it;
H8 below is the eighth of that list.

## Modules

* `Reactor` - engine, sockets and handle table. Flags of a socket are the sets of
  sockets on which they are set; a request queue is its length; `actived` is the
  active list. `pc` is where the engine thread stands in `epoll_loop` and
  `Process`. The kernel is environment: `in`, `out`, `peer` are what a descriptor
  offers, `ready` is the edge that epoll has latched and `nospace` says that the
  next drain is an edge (a writer, or epoll's poll, found no room). A reset
  socket is both readable and writeable, as the kernel reports it. The
  application is arbitrary: between `EngineRun` calls and in every callback it
  may make any call on any socket, subject to one assumption, that a slot is not
  reused while the socket is on the active list (`OpenSocket`).
* `Connection` - extends `Reactor`: the callbacks `RecvFinish` and `SendFinish`
  step by step, the calls on a connection, and the `on_disconnect` of the test
  programs. One unit of input is a packet and one unit of output an iovec.
  `connection_active_close` may be called at any time, from a callback of the same
  connection too. What a callback does with a connection that was freed under it is
  undefined: the model follows only its return to the engine, and `pulled` remembers
  the connections that the application closed at such a moment.
* `Server` - extends `Connection`: `testserver.c` with its listener thread, without
  the assumption on slots and with `Bind2Engine` in two steps.
* `RecvStream` - the inside of the receive side: buffer chain, reference counts,
  unpacking, packets that the application keeps. Buffers are numbered, and a
  buffer's content is given by its place in the stream.
* `Spinlock` - spin_lock with and without a limit on the attempts, spin_unlock.
* `BlockQueue` - the queue's three kinds of pop, push, force_wakeup and clear; a
  push is one step under the mutex and another for the signal after it.
* `Threads` - suspend, timed suspend, resume, join and the barrier. A wait may end
  by itself.
* `BlockAllocator` - the free lists of every thread and the central list; a list is
  the number of its blocks. The subtraction after a list was given back is a step
  of its own, because the list belongs to somebody else by then. So is leaving the
  lock of the central list: `spin_lock(mtx, 4000)` lets another thread in meanwhile
  (`Intrude`), after which the list is torn and the model stops.
* `Log` - callers, the worker's rounds (swap under the mutex, write until the list
  is empty, with partial writes), close.
* `Connector` - the two lists of connects, one round of `select` with its results
  and the time-outs, the callbacks, which may connect again. The clock is
  reduced to its verdicts: which connects have expired, whether the run is over.
* `TimingWheel` - slots as sequences, one callback a step, a clock with a modulus.
  Assumptions: callers unregister only what is in a slot (H38), and the slots are
  empty at first, although `timing_wheel.c:46` allocates them with malloc and does
  not clear them.
* `CoSche` - the scheduler, a step from one switch to the next. The order of the
  sleepers is arbitrary, since `_less` compares the wrong memory.
* `SocketTable` - every call that takes or gives back a slot, over descriptors that
  the kernel numbers from the lowest free one. Observers: `robbed`, whose descriptor
  the second close of another handle hit, and `forgotten`, which Tcp_Connect took for
  a failure.
* `WPacket` - a packet written, rewritten and read through a chain of buffers, byte by
  byte; byte k of a field with value v is `<<v, k>>`, so a byte in the wrong place
  is seen. Assumption: a requested size is larger than the length field.
* `ListOps` - what a loop that takes a list apart leaves of it, sums and joins
  (`Connector`, `TimingWheel`, `BlockAllocator`, `MinHeap`, `Log`, `WPacket`).
* `LinkList`, `DList`, `RBTree`, `HashMap`, `MinHeap` - the data structures pointer by
  pointer (index by index). Assumption: callers of `LinkList` do not push the last
  node of a list, which `link_list.c:60` cannot tell from a node on no list (H23). In
  `HashMap` a key that is stored may be inserted; `twice` remembers that one was stored
  again. In `RBTree` the links of nil are unset, as `RBtree_create` leaves them. In
  `MinHeap` a write past the end of `data[]` or `back[]` either does nothing or stops
  the model (`overrun`).
* `OrderedMap` - what `map.h` promises; `RBTree` and `HashMap` implement it.
* `MC*` - instances for TLC. `MCLibrary` and `MCServices` put the single-threaded
  and the concurrent parts together: they share no state, so a behaviour belongs
  to one of them (`part`) and the rest stays in its initial state.
* `ConnectionProofs` (engine and connections), `RecvStreamProofs`, `PacketProofs`,
  `LibraryProofs` (handle table, lists, hash map, heap), `SyncProofs` (locks, queue,
  threads, log), `ServicesProofs` (coroutines, wheel, allocator), `ConnectorProofs` -
  theorems and their proofs; `SeqLemmas` - lemmas they share.

Loops of the code are recursive functions here (`up`, `down`, `Bytes`, `list_walk`,
`wpacket_write`, `read_bytes`, ...), over as many rounds as the loop can have; only
`RBTree` has RECURSIVE operators.

Every definition is mapped to its lines in `PROJECT.json`. Definitions whose
comment starts with "Mutant" are altered versions of the definition that follows
them; no specification uses them. For each property one of them, put in place of
the original, makes TLC report the property violated.

## Runs

Passing runs:

* `reactor` - two sockets, one request per queue, one unit per direction. Two
  sockets are the least with which the active list has an inside; one unit
  already gives "data", "no data", "end" and "no room", and short reads appear
  as data arriving after a read. Shows `ActivedSound` (flag and list agree, no
  double insertion) and `ReadinessNotLost` (no edge is lost).
* `connection` - two connections with the same bounds. `OverlapSound` (isUsed is
  what connection_destroy takes it for), `NoUseAfterFree` (a callback meets a freed
  connection only if the application closed it while the engine was serving it or
  had it on its active list; no passive close and no order of completions leads
  there), `NotStranded` (the `&&`
  in `Process` forgets nobody, because callbacks go on until EAGAIN), and `Spec`:
  the composition implements `Reactor`, so what is proved of `Reactor` holds of
  connections.
* `connection_serving` - one connection, two iovecs, three queued units, two units
  of room, so that writes are partial and lists are longer than a request; the
  socket is opened, closed and reopened. `SendListCovers`, the assertion in
  update_send_list, and `RequestsServed`. One connection is enough for the
  latter: that no connection loses the engine's attention to another is
  `NotStranded`, checked with two.
* `library` - the single-threaded parts:
  * the receive side: buffers of three units, packets of one, two and five units
    (header included), so that packets end inside, at and beyond a buffer's end,
    all ways to cut the stream into reads, and packets read and destroyed in any
    order, before and after the connection; framed and raw connections. The unit
    is the header's size: all packets are header-aligned. At most two packets are
    kept at a time, and no read ends in the last of `MaxBuf` buffers.
    `Unpacked`, `RefsExact` and `CursorRight`.
  * packets created with 3, 8 or 16 bytes and a factor that wraps at 16 (the code
    has 256): a chain of several buffers, one that wraps on the way, and one that
    starts with factor 0; fields of one and three bytes and binaries of none and
    three, three fields in all, so that fields end at and cross every boundary.
    `ReaderSound`, `WriterSound` (how much a packet takes before the writer hangs).
  * three slots and four descriptors: the table is full before the descriptors
    are, and a number is free to be reused. `TableSound`: a descriptor is lost in
    the two ways that the observers name, and in no other.
  * two lists with three nodes (first, inner, last) and a doubly linked list with
    four. `ListsAreQueues`, `ListSound`.
  * a tree with up to eight keys, from which all trees of that size are reached
    by insertions and deletions, every case of both repairs among them.
    `RedBlack`, `EraseReturns`, `MapRefined`.
  * a hash map with four keys whose codes collide modulo 4 and, some of them,
    modulo 8, growing from two slots to eight. `HashRefined`, until a key is stored
    twice.
  * a heap of three out of four elements, so that it is full. `IndexRight`, until a
    write past the end does harm.
* `services` - the concurrent parts:
  * spinlock: three threads nesting twice, callers passing count 0 or count 2.
    `MutualExclusion`, `CountExact`, `SomeoneLocks`.
  * queue: two producers, one consumer, blocking, timed and non-blocking calls,
    forced wake-ups, clear. `WakeupPending`, `FifoOnce`, `ItemsConsumed`, `ForceWakes`.
  * three threads at a barrier for two or three: exactly enough and one too many.
    `WaitsHonest`, `BarrierOpens`.
  * allocator: two threads, lists of two blocks, three lists, so that lists are
    full, in part used, recovered, given back and taken over. `PoolSound`, up to
    the race of `allocator_race` and until the lock of the central list has let two
    threads in.
  * log: two writers, two logs, three messages of two bytes, two packets a write,
    so that a write ends inside a packet. `LogFaithful`, `Written`.
  * connector: three connects, two places in the set. `HandedOnOnce`,
    `ConnectAnswered`.
  * wheel: two slots of two milliseconds, time-outs shorter than a slot and as
    long as the wheel allows, up to six milliseconds between two updates (more than a turn of the
    wheel), a clock that wraps at 11, which no turn divides. `NotEarly`, `TimerFires`.
  * coroutines: three of them and a heap for three. `OnePlace`, `RoundRobin`.

Symmetry is used where slots or threads are interchangeable and no liveness is
checked. Deadlock is checked except in `library`, `services`, `recv_stream_header`,
`allocator_race` and `coro_assert`, where everything may have been sent, freed, written, joined or
used up to its bound.

Runs that show a disagreement between the code and what it says of itself:

* `connection_zombie` - the peer closes while a send is under way. RecvFinish
  leaves the report to SendFinish, which returns early when everything was sent;
  `on_disconnect` is never called.
* `server_reuse` - a socket that its own broadcast activated dies in the same
  `Process`; its slot is reused while it is on the active list.
* `spinlock_count` - the mutex path does not exclude the owner.
* `recv_stream_header` - a header across two buffers leaves `rpos` outside `readbuf`.
* `allocator_race` - a list's size is read after the list was given away; the count
  of free blocks is wrong from then on and `assert(ptr)` fails. `PoolSound` says that
  nothing else makes it wrong but the lock that does not exclude (`spinlock_count`).
* `coro_assert` - the scheduler meets itself on the active list: `assert(co != next)`.
* `tree_erase` - `RBtree_erase` of a node with a left child only returns the
  predecessor, where the comment above it has the successor. `EraseReturns` says what
  it does return: nothing is skipped in a walk that erases, but a key is met again.

Deviations met while modelling that have no run of their own:

* `KendyNet.c:56`: `sock->engine` is set after `Register`, so that an event in between,
  seen by the engine's thread, uses a null engine. `Server` has both steps.
* `link_list.c:151`: push signals only when the list was empty. With two consumers
  asleep and two pushes before the first wakes, one sleeps on although an item
  is there; the comment at 116 promises otherwise. With one consumer
  `WakeupPending` is proved.
* `minheap.c:68`: `l < m->size` leaves the last element out of the comparison, so the
  root need not be the least element; `co_sche.c:41` then stops at sleepers that
  are due and wakes others.
* `Connection.c:366`: `connection_active_close` frees the connection at once. Called from
  a callback of that connection, or while its socket is on the active list, it leaves
  RecvFinish, SendFinish or the engine with freed memory (H8). No comment forbids it,
  and the test programs never call it.
* `block_obj_allocator.c:89` and `:108`: the central list is guarded by
  `spin_lock(mtx, 4000)`, which does not exclude (`spinlock_count`).
* `hash_map.c:94`: insertion stops at the first tombstone and stores a key a second
  time if it lies behind, although the loop has a branch "already in the table"
  (106). Removing the key then leaves a copy that find does not reach and size
  counts, until an expansion brings it back or drops it. `HashRefined` says
  that nothing else goes wrong and that it takes a tombstone.
* `SocketWrapper.c:82`: handle 0 is valid, the first that the program gets, and
  `Tcp_Connect` takes it for a failure: it returns -1 ("return: >0 socket, -1 failure",
  `SocketWrapper.h:107`) and leaves slot 0 in use with an open descriptor that nobody
  has. `TableSound` says that no other descriptor is leaked.
* `HandleMgr.c:85`: releasing a handle that was closed closes its number again, by then
  perhaps another socket's (H18).
* `RBtree.c:87`: `RBtree_create` sets neither the links nor the key of nil. `RBtree_begin`
  of an empty tree follows nil's left link (456), and a deletion from one compares the
  key with nil's (518); `RBTree` has a deletion from an empty tree that finds nothing,
  and `WalkSorted` asks for a walk only of a tree with nodes.
* `minheap.c:8` and `:95`: positions start at 1, but `data[]` has max_size places and
  `back[]` one less than it is given, so that the last insertion into a full heap and
  every `minheap_remove` that keeps an element write past the end. The scheduler
  creates its heap for as many sleepers as there may be coroutines.
* `Connector.c:126`: FD_SET is indexed by the descriptor's number, which may be 1024 or
  more; the model bounds the number of connects only.
* `log.c:248`: a writer past the test of `is_close` pushes to a log that may be freed;
  in `Log` such a writer does not go on.
* `sync.c:80`: the timed wait ignores `ms`. `wpacket.c:150`: the first write to a packet
  made from a received one follows a null `len`. `rpacket.c:54`: a first buffer that
  holds just the header makes the reader skip as much of the second.
  `block_obj_allocator.c:210`: the list of thread allocators is pushed to without a
  lock. `log.c:172`: a write that fails for good keeps the worker, and close, for
  ever. `epoll.c:54`: a clock that wraps ends a run early or late.

## Refinements

`Connection` implements `Reactor` (property `Spec` of run `connection`): the variables of
`Reactor` are a subset of its own, and every step of a callback or a call is a step
of the most general application or a stutter. `RBTree` and `HashMap` implement
`OrderedMap` with `keys` the set of keys that `find` returns and `size` the map's own
count, `HashMap` until it stores a key a second time; `EraseReturns` and `RedBlack` say
what the abstract map leaves open.

## Fairness

The engine thread keeps calling `EngineRun` and runs its steps (`CFairness`): it is
the `while(1)` of the test programs' main. Nothing is assumed of peers or of the
application. `RequestsServed` has the premise that `EngineRun` returns again and
again: the loop in `RecvFinish` reads as long as there is data, and a peer that
sends fast enough keeps it there; the code has no bound on it. `Spinlock` assumes
that threads inside its two functions are scheduled, `BlockQueue` that threads
inside its functions are and that consumers call pop in a loop, `Threads` that a
thread that was woken goes on. In `Log` the worker is scheduled and its writes
make progress (a disk that refuses for ever keeps close waiting, as the code
does). In `Connector` one thread keeps calling connector_run, a run's time comes
to an end and so does a connect's. In `TimingWheel` the clock goes on, and one thread keeps
updating the wheel and returns from callbacks. In `CoSche` the one thread runs, and
coroutines yield, sleep or end. All of it is weak fairness.

## Proofs

All theorems hold for every value of the constants that the named `ASSUME`s allow
(TLC evaluates these in every run); further hypotheses are given with the theorem.
Each invariant below was checked with TLC before it was proved.

| module | theorem | states | run |
|---|---|---|---|
| `ConnectionProofs` | `TypeCorrect`, `ActivedAlwaysSound`, `ReadinessNeverLost` | `TypeOK`, `ActivedSound`, `ReadinessNotLost` | `reactor` |
| | `ConnectionImplements` | `Spec` of `Reactor` | `connection` |
| | `ConnectionTypes` | `CTypeOK` | |
| | `OverlapsAlwaysSound`, `NeverUsedAfterFree`, `NeverStranded` | `OverlapSound`, `NoUseAfterFree`, `NotStranded` | `connection` |
| | `SendListAlwaysCovers` | `SendListCovers` | `connection_serving` |
| `RecvStreamProofs` | `UnpackedAlways`, `RefsAlwaysExact`, `CursorsRight` | `Unpacked`, `RefsExact`, `CursorRight` | `library` |
| `PacketProofs` | `WriterCorrect`, `ReaderCorrect` | `WriterSound`, `ReaderSound` | `library` |
| `LibraryProofs` | `TableAlwaysSound` | `TableSound` | `library` |
| | `LinkCorrect`, `ListCorrect` | `ListsAreQueues`, `ListSound` | `library` |
| | `HashImplements` | `HashRefined` | `library` |
| | `HeapCorrect` | `IndexRight` | `library` |
| `SyncProofs` | `SpinTypes`, `SpinExcludes`, `SpinCountsExactly` | types, `MutualExclusion`, `CountExact` | `services` |
| | `OneConsumerWakes`, `ItemsLeaveOnce` | `WakeupPending`, `FifoOnce` | `services` |
| | `WaitsAlwaysHonest` | `WaitsHonest` | `services` |
| | `LogCorrect` | `LogFaithful` | `services` |
| `ConnectorProofs` | `ConnectsHandedOnOnce` | `HandedOnOnce` | `services` |
| `ServicesProofs` | `CoroAlwaysInOnePlace` | `OnePlace` | `services` |
| | `NeverEarly` | `NotEarly` | `services` |
| | `PoolCorrect` | `PoolSound` | `services` |

The arguments:

* `ConnectionProofs`, engine: any set of sockets and any bounds. `ActivedSound` is inductive with
  the types; the lemmas say what `Append` and `Tail` do to elements and repetitions.
  `ReadinessNotLost` needs the strengthening `ReadinessInv`: for every registered
  socket, input implies a flag, a latched edge or a reported event, and lack of
  all three on the write side implies no room and an armed edge; and events are
  outstanding only while they are dispatched, so that no call of the application
  meets one (`EventsHandled`). One lemma for each kind of step.
* `ConnectionProofs`, connections. The refinement comes first: every step of
  `Connection` is a step of `Reactor` or leaves its variables alone, so the theorems about
  `Reactor` hold of connections, and the invariant below may use them. The properties of
  connections are inductive only together (`ConnInv`): that a request in use is
  queued or with its callback (`OverlapSound`) needs that a freed connection has
  nothing queued when the engine meets it again (`GoneIdle`), that needs to know where
  the callbacks may stand (`CallbackSteps`) and that handle, connection and
  registration begin and end together (`Handles`). Connections that the application
  closed under the engine are named by `pulled`; of all others the invariant says that
  a callback's connection lives. `NotStranded` needs that a raised
  flag and a queued request mean a place on the active list or in the engine's hands
  (`Attended`) and, for what the flags do not know yet, `ReadinessInv`. `SendCovered` says
  how many packets of `send_list` a write under way stands for.
* `RecvStreamProofs`: any sizes of buffer, header and packets. `Unpacked` (invariant
  `StreamInv`) is arithmetic on positions in the stream: moving on by whole buffers
  and a rest (`Moved`), packets that begin at least a header apart (`Apart`). `RefsExact`
  (invariant `RefInv`) needs that packets lie inside the chain (`PacketsInside`), so that
  a packet read across a boundary moves to a buffer that lives, and a count stated
  as "references from outside plus one from a live predecessor" (`Exact`), which
  releasing a buffer keeps although it may free a whole run of the chain
  (`ReleaseExact`). The only bound the proof needs is `MaxBuf`: no read ends in the last
  buffer, which makes the chain finite and removes no behaviour below it.
  `CursorsRight` says that the read position is right while no header of a packet in
  use is cut by the end of a buffer (`HeadersWhole`); a header that is cut makes it
  wrong (`recv_stream_header`). The invariant `CursorInv` follows every packet by itself.
* `PacketProofs`, writer: any sizes, widths and number of fields. The capacities double
  from buffer to buffer, so that the buffers before the last one hold as much as the
  last one's capacity less the first's (`Doubled`); factor and its modulus are powers
  of two, so that it becomes 0 exactly at the modulus (`ModFacts`).
* `PacketProofs`, reader: the buffers are laid out as one string of bytes T (`Laid`), with
  the place of every buffer (`off`) and every field (`at`) in it. A write appends to T
  (`WriteChain`), a rewrite changes the bytes of its field and no others
  (`RewriteLaid`, `SpreadReplaced`), and a reader with bytes left stands in front of the
  one that its data_remain says (`Standing`), so that it reads the next bytes of T
  (`ReadBytesAt`) and, from the start of a field, that field (`FieldAt`). The invariant
  `ReaderInv` says that such T, `off` and `at` exist. Hypothesis `RoomForData`: the
  requested size is larger than the length field (see `rpacket.c:54` above). `WriterCorrect`
  needs only that it is not smaller.
* `LibraryProofs`, handle table: any number of slots and descriptors. Slots beyond
  `current_socket_count` are free, a handle in use has a number the kernel gave out,
  callers hold only handles in use, and a close by number reaches another handle only
  from one that was closed or a victim before (`TableInv`); that the loop over the slots finds
  a lowest free one is well-foundedness of the naturals.
* `LibraryProofs`, lists: `LinkInv` keeps, for every list, the sequence of nodes that the
  calls should have made of it; `next` leads through it, and a node that is on no
  list and was not dropped by `link_list_clear` has no `next`. `ListInv` says that the nodes that are not freed
  form a sequence in which each points to its neighbours; what a walk returns is
  then shown round by round.
* `LibraryProofs`, hash map: on the probe path from a stored key's code to its slot no
  slot was never used and none has the key (`TableOK`), so that find goes all the
  way; an insertion of a key that is stored leaves the table alone, or it stops at a
  deleted slot in front of the key and sets `twice` (`BehindDeleted`, `InsertStep`). n slots in a row have
  all remainders modulo n (`Residues`), so that probing meets every slot. Expanding
  moves the keys one by one.
* `LibraryProofs`, heap: every round of `up` and `down` swaps two elements and their
  indices, so that array and indices stay inverse to each other. The
  argument does not depend on what `less` answers. It ends where a write past the
  end has changed memory in use.
* `SyncProofs`, spinlock: `SpinExcludes` and `SpinCountsExactly` have the hypothesis that callers
  pass count 0 (with another count they fail, see `spinlock_count`). The invariant
  `OwnerInv` says that the owner is the thread past the compare-and-swap and not past
  the release, and that lock_count is its depth.
* `SyncProofs`, queue: `OneConsumerWakes` has the hypothesis of one consumer. `SignalOwed`
  says that a sleeping consumer and a non-empty list mean a signal still owed; with
  two consumers it fails. `ItemsLeaveOnce` holds for any number of consumers: what was
  handed out followed by what is queued is increasing and only grows at its end.
* `SyncProofs`, threads: `WaitsHonest` speaks of the barrier at its destruction; the invariant
  `WaitInv` follows a thread back from there: joined, ended, met, past the barrier.
* `SyncProofs`, log: until the closing stamp, file, worker's list and queue, put
  together, are the messages accepted, byte by byte and whatever part of a packet a
  write took (`Open`); the worker's last round stamps one log after the other
  (`LogRound`). What was promised before the close is a prefix of what was accepted
  (`LogKept`), and at the end it is in front of the stamp (`LogEnded`).
* `ConnectorProofs`: any number of connects and any FD_SETSIZE. `OneCallback` counts
  places; the invariant `HandInv` says it with sets: no list has a connect twice, the
  two share none, and what is in one of them has had no callback. That the first
  loop may stop anywhere, because `i` is not reset, is `Examined`.
* `ServicesProofs`, coroutines: `OnePlace` counts places; the invariant `CoInv` says it with sets, no
  repetition in the list and disjointness, and that coro_size counts the coroutines
  alive. Hypothesis: there are no more coroutines than sche_create was given the number
  of. Nothing in sche_spawn enforces it, and a sleeper that the heap has no room
  for is lost.
* `ServicesProofs`, wheel: `WheelInv` bounds how far an item in the slot d places ahead
  may be from its time: what remains and what the clock has run since the last
  update is less than d + 2 slots. Slots that a running update has passed are empty.
* `ServicesProofs`, allocator: the blocks in the lists and those in use are the blocks of the
  lists made (`Counts`), and a thread's free_size is the blocks of its lists together
  with the list that it has given back and not subtracted yet (`Sizes`), until the race
  of `allocator_race`. `Places` says that a list has one owner. The exchange with the
  central list is whole as long as one thread is inside the lock; the invariant makes
  no claim beyond the first intrusion, where the model stops.

What the assumptions exclude: `PoolAssumption` has more than one block in a list (an
object larger than half of `DEFAULT_BLOCK_SIZE` gets a list of one; with those TLC finds
`PoolSound` violated after the race) and counts that do not wrap; `WheelAssumption` has
time-outs and pauses below the wrap of the clock; `PacketAssumption` has a first buffer
that holds the length field and a modulus of factor that is a power of two; `HashAssumption`
a table that is not empty and codes that are natural numbers; `LogAssumption` packets
that are not empty. `LinkAssumption`, `ListAssumption` and `HeapAssumption` only say that the
bounds are numbers.

Only model-checked:

* liveness (`RequestsServed`, `SomeoneLocks`, `ItemsConsumed`, `ForceWakes`, `BarrierOpens`,
  `Written`, `ConnectAnswered`, `TimerFires`, `RoundRobin`): fairness and ENABLED are out
  of the prover's reach;
* `RedBlack`, `EraseReturns`, `MapRefined`: the repairs of the tree climb and rotate as
  long as they have to, which `RBTree` says with RECURSIVE operators, and what keeps
  the tree balanced is a statement about paths of any length.

`SeqLemmas` has what these proofs share: sequences without repetition, sums, joined
sequences, remainders, and the least element of a set of numbers, which stands in
for induction: a claim about the rounds of a loop that fails has a first round at
which it fails. That the recursive function of a loop exists, and stays in a set
that every round stays in, is proved the same way (`RecDefined`, `StaysInside`).

## Not modelled

* `uthread.c`, `except.c`: stack switching in assembly and longjmp; their state is the
  machine stack. `lookup8.c`: third-party arithmetic.
* `timer.c` hands timer descriptors to epoll and has no state of its own (with
  `once` set, `RunTimerMgr` does nothing). `tls.c` wraps thread keys.
* `vector.c`, `kstring.c`: arrays that grow. `local_pool.c`: unused, and it reads an
  uninitialised size. `map.c` passes calls on.
* Destruction where it only frees: `RBtree_destroy`, `hash_map_destroy`, the allocator's.
  `sche_destroy` frees what is already freed.
* `wpacket_create_by_rpacket` and its copy on write (see above); `list_remove` of a
  value that is not there; `thread_run`, which starts a detached thread.
* The test client's connecting loop, wording and layout of log lines, addresses.

## Plan

What remains: a proof for `RBTree`. It needs the repairs as recursive functions over a
bounded number of rounds, and an invariant that gives every subtree its set of keys
and its black height and says where the one violation is that a repair is at.

SPECIFICATION ServicesSpec
CONSTANTS
  Thread = {t1, t2, t3}
  NoThread = NoThread
  Counts = {0, 2}
  MaxDepth = 2
  MaxCount = 4
  Producer = {p1, p2}
  Consumer = {c1}
  Waits <- BlockOrTime
  MaxItems = 3
  PThread = {w1, w2, w3}
  BarriorCounts = {2, 3}
  AThread = {a1, a2}
  MaxLists = 3
  init_size = 2
  SizeWrap = 64
  Writer = {u1, u2}
  MaxLogs = 2
  MaxMessages = 3
  PacketSize = 2
  max_write_buf = 2
  Conn = {k1, k2, k3}
  FD_SETSIZE = 2
  Item = {i1, i2}
  precision = 2
  slot_size = 2
  Timeouts = {1, 3}
  ClockWrap = 11
  MaxGap = 6
  Coro = {r1, r2, r3}
  s_co = sco
  max_coro = 3
INVARIANTS
  MutualExclusion
  CountExact
  WakeupPending
  FifoOnce
  WaitsHonest
  PoolSound
  LogFaithful
  HandedOnOnce
  OnePlace
PROPERTIES
  SomeoneLocks
  ItemsConsumed
  ForceWakes
  BarrierOpens
  Written
  ConnectAnswered
  NotEarly
  TimerFires
  RoundRobin
CHECK_DEADLOCK FALSE

SPECIFICATION LibrarySpec
CONSTANTS
  Sizes = {3, 8, 16}
  LenSize = 2
  FactorMod = 16
  Widths = {1, 3}
  Lengths = {0, 3}
  MaxFields = 3
  MAX_SOCKET = 3
  MaxFd = 4
  ListId = {p, q}
  MaxListNode = 3
  MaxNodes = 4
  Val = {1, 2}
  MaxKey = 8
  hash_function <- HashCodes
  Slots = 2
  MaxSlots = 8
  Ele = {1, 2, 3, 4}
  MaxRank = 3
  max_size = 3
  Cap = 3
  Hdr = 1
  Lens = {0, 1, 4}
  MaxPackets = 3
  MaxHeld = 2
  MaxBuf = 7
INVARIANTS
  ReaderSound
  WriterSound
  TableSound
  ListsAreQueues
  ListSound
  RedBlack
  EraseReturns
  IndexRight
  Unpacked
  RefsExact
  CursorRight
PROPERTIES
  MapRefined
  HashRefined
CHECK_DEADLOCK FALSE

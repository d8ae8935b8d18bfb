SPECIFICATION Spec
CONSTANTS
  Cap = 4
  Hdr = 2
  Lens = {1, 2}
  MaxPackets = 2
  MaxHeld = 2
  MaxBuf = 4
INVARIANTS
  CursorRight
CHECK_DEADLOCK FALSE

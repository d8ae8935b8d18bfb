SPECIFICATION RBSpec
CONSTANTS
  MaxKey = 4
INVARIANTS
  EraseReturnsNext

SPECIFICATION PoolSpec
CONSTANTS
  AThread = {a1, a2}
  MaxLists = 3
  init_size = 2
  SizeWrap = 64
INVARIANTS
  BlockFound
SYMMETRY ThreadSymmetry
CHECK_DEADLOCK FALSE

SPECIFICATION Spec
CONSTANTS
  Thread = {t1, t2}
  NoThread = NoThread
  Counts = {2}
  MaxDepth = 1
  MaxCount = 2
INVARIANTS
  ReturnsLocked

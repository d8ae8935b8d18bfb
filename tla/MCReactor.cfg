SPECIFICATION Spec
CONSTANTS
  Socket = {s1, s2}
  MaxPending = 1
  MaxIn = 1
  MaxOut = 1
SYMMETRY SlotSymmetry
INVARIANTS
  TypeOK
  ActivedSound
  ReadinessNotLost

SPECIFICATION CSpec
CONSTANTS
  Socket = {s1, s2}
  MaxPending = 1
  MaxIn = 1
  MaxOut = 1
  MaxList = 1
  MaxWbaf = 1
SYMMETRY SlotSymmetry
INVARIANTS
  OverlapSound
  NoUseAfterFree
  NotStranded
PROPERTIES
  Spec

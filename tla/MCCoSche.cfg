SPECIFICATION CoSpec
CONSTANTS
  Coro = {r1, r2, r3}
  s_co = sco
  max_coro = 3
INVARIANTS
  NextIsOther
SYMMETRY CoroSymmetry
CHECK_DEADLOCK FALSE

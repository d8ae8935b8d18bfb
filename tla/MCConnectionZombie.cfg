SPECIFICATION CSpec
CONSTANTS
  Socket = {s1}
  MaxPending = 1
  MaxIn = 1
  MaxOut = 1
  MaxList = 1
  MaxWbaf = 1
INVARIANTS
  NoZombie

SPECIFICATION FairCSpec
CONSTANTS
  Socket = {s1}
  MaxPending = 1
  MaxIn = 2
  MaxOut = 2
  MaxList = 3
  MaxWbaf = 2
INVARIANTS
  SendListCovers
PROPERTIES
  RequestsServed

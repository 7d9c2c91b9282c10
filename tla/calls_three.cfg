SPECIFICATION FairSpec
CONSTANTS
  NProcs = 3
  MaxGrids = 2
  MaxCalls = 4
  Calls <- AllCalls
  AwaitClients = TRUE
  AvoidRemote = TRUE
  a = a
  b = b
  Zero = a
  Garbage = Garbage
  Nothing = Nothing
  Eager = TRUE
  Point <- MCPoint
  Info <- MCPoint
  Shape <- MCShape
  Owner <- MCOwner
  Data <- MCValue
  Kernel <- MCKernel
  Tag <- MCTag
INVARIANTS
  NoUnknownRequest
  ReceivesMatch
  GridsFound
  PartsAgree
  NothingLost
PROPERTIES
  OneSystem
  AllExit

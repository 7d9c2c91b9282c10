SPECIFICATION Spec
CONSTANTS
  NProcs = 3
  MaxGrids = 1
  MaxCalls = 3
  Calls <- PointCalls
  AwaitClients = FALSE
  AvoidRemote = TRUE
  a = a
  b = b
  Zero = a
  Garbage = Garbage
  Nothing = Nothing
  Eager = TRUE
  Point <- MCPoint
  Info <- MCPoint
  Shape <- MCShape
  Owner <- MCOwner
  Data <- MCValue
  Kernel <- MCKernel
  Tag <- MCTag
INVARIANT
  NoUnknownRequest

SPECIFICATION Spec
CONSTANTS
  NDims = 2
  PSINDEX_MAX = 9
  MaxExtent = 4
  MaxProcs = 3
  Extents <- MCExtents
  ProcCounts <- MCProcCounts
  WithinSpace = TRUE
INVARIANTS
  DecompositionInv
  EveryPointOwned
  OwnersDistinct
  RanksAgree
  SlicesCover
  SlicesExact
  PeersHoldSlices

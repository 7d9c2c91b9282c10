SPECIFICATION FairSpec
CONSTANTS
  NProcs = 3
  MaxRounds = 2
  Eager = TRUE
  info = info
  Garbage = Garbage
  Nothing = Nothing
  Info <- MCInfo
  Data <- MCRounds
  Tag <- MCRounds
  FetchSets <- SomeSets
INVARIANTS
  IInv
  ReplyExpected
  LeavesComplete
  OneCallAhead
  StaleByOneAtMost
PROPERTY
  LoopEnds

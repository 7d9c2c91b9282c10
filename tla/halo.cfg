SPECIFICATION FairSpec
CONSTANTS
  NDims = 3
  PS_MAX_DIM = 3
  MaxRounds = 3
  Eager = FALSE
  Garbage = Garbage
  Jobs <- SymmetricJobs
INVARIANTS
  HaloCurrent
  SendsIntact
  NothingLeft
PROPERTY
  RoundsEnd

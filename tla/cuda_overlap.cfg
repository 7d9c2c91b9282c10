SPECIFICATION FairSpec
CONSTANTS
  Jobs <- MCJobs
  XStreams = 2
  Eager = FALSE
  Garbage = Garbage
INVARIANTS
  ReadsCurrent
  AllComputed
  KernelsInBounds
  SendsIntact
PROPERTY
  RunEnds

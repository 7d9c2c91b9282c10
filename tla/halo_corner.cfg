SPECIFICATION Spec
CONSTANTS
  NDims = 3
  PS_MAX_DIM = 3
  MaxRounds = 1
  Eager = TRUE
  Garbage = Garbage
  Jobs <- CornerJobs
INVARIANT
  HaloCurrent

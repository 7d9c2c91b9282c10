\* A kernel calls a function that reads a neighbouring point.
SPECIFICATION Spec
CONSTANTS
    Programs <- MCInner
    Points <- MCPoints
INVARIANTS
    ReadsLoaded
CHECK_DEADLOCK FALSE

\* Programs with aliases, calls and kernels that call functions.
SPECIFICATION Spec
CONSTANTS
    Programs <- MCPrograms
    Points <- MCPoints
INVARIANTS
    HeldKnown
    BuffersDoubled
    ReadsLoaded
    BoundaryWide
PROPERTIES
    Finishes
CHECK_DEADLOCK FALSE

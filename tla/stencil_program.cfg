\* Programs of several maps, translated for both shared memory targets.
SPECIFICATION SpecP
CONSTANTS
    Dim <- MCDim
    BlockDim <- MCBlockDim
    Grids = {"a", "b"}
    Programs <- MCPrograms
    Targets = {"ref", "cuda"}
INVARIANTS
    FreedUnused
PROPERTIES
    Implements
    Returns
CHECK_DEADLOCK FALSE

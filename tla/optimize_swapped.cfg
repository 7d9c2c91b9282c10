\* A kernel whose branches add the same term at different places.
SPECIFICATION Spec
CONSTANTS
    Dims <- MCDims
    Kernels <- MCSwapped
    Domains <- MCDomains
INVARIANT SameResult
CHECK_DEADLOCK FALSE

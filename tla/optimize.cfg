\* Every combination of passes, on kernels of the system tests.
SPECIFICATION Spec
CONSTANTS
    Dims <- MCDims
    Kernels <- MCKernels
    Domains <- MCDomains
INVARIANTS
    SameResult
    CoversDomain
    MainLoopBegins
CHECK_DEADLOCK FALSE

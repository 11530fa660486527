CONSTANTS
    Stage2Start = 3
    Stage1Start = 11
    MemoryEnd = 24
    Page = 4
    DmaAlign = 2
    Headers <- MCHeaders
SPECIFICATION Spec
INVARIANT KernelMemoryIsFree
CHECK_DEADLOCK FALSE

CONSTANTS
    Stage2Start = 3
    Stage1Start = 11
    MemoryEnd = 24
    Page = 4
    DmaAlign = 2
    Headers <- MCHeaders
SPECIFICATION Spec
INVARIANTS TypeOK FilesIntactWhenSynchronised LoaderNotOverwritten Stage2NotOverwritten FreeIsCounted
CHECK_DEADLOCK FALSE

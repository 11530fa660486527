CONSTANTS
    MemoryCells = 12
    DataLine = 2
    InstructionLine = 4
    Block = 2
    Code <- MCCode
    Data <- MCData
    Boots <- MCStage2Boots
SPECIFICATION Spec
INVARIANT KernelSeesFiles
CHECK_DEADLOCK FALSE

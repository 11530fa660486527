CONSTANTS
    MemoryCells = 12
    DataLine = 2
    InstructionLine = 4
    Block = 2
    Code <- MCCode
    Data <- MCData
    Boots <- MCBoots
SPECIFICATION Spec
INVARIANTS TypeOK KernelSeesFiles GoodFilesAreAccepted OwnDataIsKept
CHECK_DEADLOCK FALSE

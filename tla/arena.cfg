CONSTANTS
    AddressSpaceStart = 2
    AddressSpaceEnd = 16
    MaxAllocations = 3
    Debug = TRUE
    WordSize = 64
    InplaceRequests <- MCInplaceRequests
    AllocRequests <- MCAllocRequests
SPECIFICATION Spec
INVARIANTS TypeOK BlocksDisjoint BlocksInAddressSpace
PROPERTIES CallsEnd ImplementsHeap
CHECK_DEADLOCK FALSE

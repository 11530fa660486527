CONSTANTS
    BufferWords = 16
    WordBytes = 8
SPECIFICATION Spec
INVARIANT OnlyBufferIsFilled
CHECK_DEADLOCK FALSE

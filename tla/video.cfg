CONSTANTS
    Blocks <- MCBlocks
    InitOutlastsDma = TRUE
    BufferWords = 16
    WordBytes = 8
SPECIFICATION VideoSpec
INVARIANTS TypeOK NoTearing ScreenIsWhole NeverOverrun ContextReady
PROPERTY FramesGoOn

CONSTANTS
    Bits = 2
    Nothing = ""
    Invalid = {"bad"}
    Word32 = 64
    Word64 = 128
    IdentBytes = 2
    Word = 64
    Boundary = 2
    RomAlignment = 4
    Ipl3End = 8
    RomHeader = 2
    BootHeader = 4
    MaxRom = 28
    MaxCommandLine = 5
    MaxArguments = 3
    HeaderBytes <- MCHeaderBytes
    SegmentBytes <- MCSegmentBytes
    CommandLines <- MCCommandLines
    ConfigFiles <- MCConfigFiles
    Lengths <- MCLengths
    Elfs <- MCElfs
    CharactersOf <- MCCharactersOf
SPECIFICATION Spec
INVARIANT VerifiedInputFits
CHECK_DEADLOCK FALSE

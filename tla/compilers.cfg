CONSTANTS
    Bits = 2
    Nothing = ""
    Invalid = {}
    MaxArguments = 5
    Prelude = 7
    MaxText = 2
    ImagePixels = 12
    Colors = 2
    MaxRun = 2
    CharacterRows = 4
    CharactersHorizontal = 2
    CharactersVertical = 2
    MaxCharacters = 2048
    CommandLines <- MCCommandLines
    ParameterCharacters <- MCParameterCharacters
    Spelling <- MCSpelling
    TextFiles <- MCTextFiles
    Images <- MCImages
    FontImages <- MCFontImages
    Srams <- MCSrams
SPECIFICATION Spec
INVARIANTS HeapIsSound OutputFits TextIsAsWritten SourcesAreAsRead DumpIsRead
PROPERTY Exits
CHECK_DEADLOCK FALSE

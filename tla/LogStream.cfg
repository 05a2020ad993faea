SPECIFICATION FairSpec
CONSTANTS
    MaxLog = 7
    Size <- MCSize
    Junk <- MCJunk
    Limit = 2
    MaxLines = 3
    MaxCharacters = 3
    MaxWindows = 2
    MaxDrainPages = 3
    None = None
INVARIANTS
    TypeOK
    LogIsAccounted
    EndIsTold
PROPERTIES
    ImplementsWindow
    DoneSettles
CHECK_DEADLOCK FALSE

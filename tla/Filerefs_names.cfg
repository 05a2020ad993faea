SPECIFICATION frSpec
CONSTANTS
    Hosts = {h1, h2}
    Earlier = 0
    MaxPrograms = 4
    MaxTokens = 0
    MaxReattach = 0
    Attempts = 3
    FrMayMeet = {}
INVARIANT NoRunRefused
CHECK_DEADLOCK FALSE

SPECIFICATION Spec
CONSTANTS
    Profiles = {A, B}
    e1 = e1
    e2 = e2
    x1 = x1
    x2 = x2
    Endpoints = {e1}
    Contexts = {x1, x2}
    Sessions = {s1}
    Calls = {c1, c2}
    Discs = {d1}
    None = None
    Offered <- MCOffered1
    DefaultProfile = None
    MaxEdits = 0
    SwitchDuringDisconnect = TRUE
INVARIANT
    DisconnectSticks

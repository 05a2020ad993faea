SPECIFICATION FairSpec
CONSTANTS
    Profiles = {A}
    Cmds = {c1, c2}
    Sessions = {s1}
    Conns = {k1, k2}
    Backends = {b1, b2}
    Startup = {}
    Mishaps = {"signout"}
    None = None
PROPERTIES
    CommandsEnd
CHECK_DEADLOCK FALSE

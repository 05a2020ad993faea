SPECIFICATION Spec
CONSTANTS
    Profiles = {A, B}
    Cmds = {c1, c2}
    Sessions = {s1, s2}
    Conns = {k1, k2}
    Backends = {b1, b2}
    Startup = {A}
    Mishaps = {"overlap", "switch"}
    None = None
SYMMETRY Objects
INVARIANTS
    SnippetFirst
    ClaimMatchesWork
    ReadyIsConnected
PROPERTIES
    ForgetsOnlyGone
CHECK_DEADLOCK FALSE

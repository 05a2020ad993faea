SPECIFICATION Spec
CONSTANTS
    Profiles = {A}
    Cmds = {c1, c2}
    Sessions = {s1}
    Conns = {k1, k2, k3}
    Backends = {b1, b2, b3}
    Startup = {A}
    Mishaps = {"disconnect", "signout", "blip"}
    None = None
SYMMETRY Objects
INVARIANTS
    TypeOK
    RunningKeyHolds
    CancelledIsCancelled
    OneBackendAtWork
CHECK_DEADLOCK FALSE

SPECIFICATION SessionDataSpec
CONSTANTS
    Requests = {r1, r2}
    Views = {v1, v2, v3}
    Sorts = {s1, NoSort}
    Filters = {f1, NoFilter}
    NoSort = NoSort
    NoFilter = NoFilter
    None = None
    DvMayMeet = {"failed delete"}
    Exports = {e1, e2}
    Tables <- MCTables
    PageSize = 2
    MaxEdits = 1
    CxMayMeet = {}
    Deployments = {d1, d2}
    People = {u}
    MaxRefreshes = 1
    MaxReads = 1
    MaxDeaths = 1
    CaMayMeet = {}
    Hosts = {h1, h2}
    Earlier = 3
    MaxPrograms = 1
    MaxTokens = 1
    MaxReattach = 1
    Attempts = 2
    FrMayMeet = {"user"}
    Backends = {b1}
    Figures = {f, g}
    Sizes = {2, 3}
    Cap = 2
    MaxJobs = 2
INVARIANTS
    SessionDataTypeOK
    TablesAreWhole
    CasIsOwn
    FilerefsAreOwn
    FiguresAreShown
CHECK_DEADLOCK FALSE

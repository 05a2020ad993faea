SPECIFICATION WorkbenchSpec
CONSTANTS
    Notebooks = {n1, n2}
    CellNumbers = {1, 2}
    NbProfiles = {p1, p2}
    NbCalls = {e1, e2}
    MaxConnections = 1
    MayMeet = {}
    Absent = Absent
    Selections = {s1, s2}
    MaxWindows = 2
    TheUser = TheUser
    IwMayMeet = {}
    MaxRuns = 2
    MaxOutputs = 2
    MaxLoads = 3
    MaxClicks = 1
    RpMayMeet = {}
    Packages = {x, z}
    Bundled = {z}
    LocalPackages = {}
    EnProfiles = {p}
    StubCommands = {c1, c2}
    MaxChanges = 2
    Undefined = Undefined
    EnMayMeet = {}
    Names = {p, q}
    NoName = NoName
    Uuids = {u1, u2, u3}
    Clients = {c1, c2}
    NoClient = NoClient
    Windows = {w1, w2}
    DefaultProfile = q
    None = None
    MaxProfileCommands = 2
    MaxEdits = 1
    PsMayMeet = {}
    Home = Home
    Bin = Bin
    FolderIds = {a}
    FileIds = {f}
    FreshIds = {n1, n2}
    Jobs = {j1, j2}
    MaxName = 1
    MaxCommands = 2
    NoItem = NoItem
    Ops = {"newFolder", "newFile", "rename", "drag", "paste", "recycle",
           "restore", "delete", "empty", "favorite", "unfavorite"}
    EditorWindows = {w1, w2}
    MaxVersion = 2
    NoTag = NoTag
    EfMayMeet = {"same stamp", "untagged"}
    Paths = {p, q}
    Commands = {c1}
    MaxTag = 3
    MaxSession = 2
    SvMayMeet = {"lost answer", "reconnect"}
    TreeFolders = {tRoot, tSub}
    TreeFiles = {tFile, tDeep}
    Others = {tOther}
    Top = tRoot
    MaxDepth = 2
    Shapes <- MCShapes
    Namings <- MCNamings
    tRoot = tRoot
    tSub = tSub
    tFile = tFile
    tDeep = tDeep
    tOther = tOther
INVARIANTS
    WorkbenchTypeOK
    CellsAreOwn
    ShownIsOfTheRun
    SecretsFit
    FilesAreKept
PROPERTIES
    StepsKeepToTheirOwn
CHECK_DEADLOCK FALSE

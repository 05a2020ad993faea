SPECIFICATION AccountsSpec
CONSTANTS
    Accounts = {a1}
    Deployments = {d1, d2}
    People = {u1}
    AuthCalls = {c1, c2}
    Nobody = Nobody
    Unreadable = Unreadable
    Waits = Waits
    Attempts = {s1, s2}
    Stranger = Stranger
    MaxPasteAttempts = 5
    MaxChunks = 3
    MaxGrants = 3
    MaxMoves = 1
    Meetings = {"other window"}
INVARIANTS
    AccountsTypeOK
    SessionsAreOwn
    FlowIsOwn
    ExchangeIsWhole
PROPERTIES
    DiscardsOnlyJudged
    AccountsSettle
CHECK_DEADLOCK FALSE

CONSTANTS
    Writers = {w1, w2}
    Deciders = {w1, w2}
    Replayers = {s}
    Loaders = {r}
    Legacy <- OldDecisions
    HistoryLimit = 2
    RotateLines = 3
    MaxDamage = 1
    StoreKills = 1
    Nobody = Nobody

    Stages = {a1, a2, a3, a4}
    Terms = {terse, wide}
    Readers = {r1}
    StreamSize = 1
    MaxOutcomes = 4
    MaxKills = 1
    NoContract = NoContract

    Files <- MCWorktree
    Present <- Beside
    Named <- MCNamed
    Scopes <- MCScopes
    Checks = {"tests"}
    MaxItems = 64
    Demands = 1
    Claims = 2
    None = None

    Keys = {"a1", "a2", "b1", "none"}
    Sessions = {"a", "b"}
    NoSession = NoSession
    SessionOf <- Owner
    MaxEntries = 1
    DefaultTTL = 1
    TTLs = {0, 1, 2}
    MaxTime = 3
    MaxPuts = 3
    Nothing = Nothing

    VisualKeys = {k1, k2, k3}
    Values = {v}
    Procs = {p1, p2}
    MaxVisuals = 2
    TTL = 1
    VisualTime = 4
    NoVisual = NoVisual

    PromptOf <- MCPromptOf
    History <- MCHistory
    Commits <- MCCommits
    Automation = {"d"}
    Uncertain = {"u"}
    StagingCap = 2
    PendingLimit = 1
    FileSize = 2
    LogFiles = 3
    Crashes = 1

    Scenes = {"store", "contracts", "killed contracts", "verify", "route cache", "visual cache", "harvest", "rejections", "merges"}
SPECIFICATION SceneSpec
INVARIANTS
    HistoryKept
    ContractsStand
    VerifiedOnEvidence
    HarvestExact
PROPERTIES
    ImplementsRegister
    GoodFileStays
    RoutesServed
    VisualsBounded
    JudgedWorkStays
CHECK_DEADLOCK FALSE

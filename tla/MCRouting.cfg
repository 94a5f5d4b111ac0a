CONSTANTS
    Unpinned = "unpinned"
    Prompts <- MCPrompts
    Profiles <- MCProfiles
    Modes = {"dynamic", "static", "shadow"}
    Registries <- MCRegistries
    Healths <- MCHealths
    Workspaces = {0, 1, 2}
    Turns = 2
    Changes = 1

    p1 = p1
    p2 = p2
    s = s
    Procs = {p1, p2, s}
    Routers = {p1, p2}
    Syncers = {s}
    Endpoints <- MCEndpoints
    ProviderOf <- MCProviderOf
    Targets = {"own"}
    Bound = {"own", "reserve"}
    Operated = {"opencode"}
    StartIndex = 0
    TTL = 0
    MinInterval = 1
    Cooldown = 1
    Horizon = 2
    MaxNow = 1

    Field <- MCField
    Candidacies <- MCCandidacies
    SelectionModes = {"select", "pairs", "v2"}
    Confidences = {5, 9}
    ExtraReads = 3
    Margin = 2
    Overturn = 9

    Scenes = {"routes", "rebind", "security", "reading", "session", "reserve", "holds", "evidence", "judging", "rereads", "consensus"}
SPECIFICATION SceneSpec
INVARIANTS
    EnforcedRoutesSafe
    SelectionSound
PROPERTIES
    HeldAsDecided
    OneReserve
    SpawnsWellPlaced
CHECK_DEADLOCK FALSE

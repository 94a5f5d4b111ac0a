CONSTANTS
    Nil = Nil
    Roles = {"implement", "analyst", "consilium-unavailable"}
    MemberKeys = {"consilium/0"}
    Steps = {"verify/0"}
    Slots = {"impl", "consilium", "verify/0"}
    RoleOf <- MCRoleOf
    Children = {c1, c2}
    Jobs = {}
    SentinelRole = "consilium-unavailable"
    ConsiliumKeys <- MCConsilium
    RepairThreshold = 1
    Decisions = {d1}
    Sessions = {s1}
    SessionOf <- MCSessionOf
    Plans <- Repairs
    TaskRole <- Implementers
    ReviewRoles = {}
    AdHocRoles = {"implement"}
    ImplementRoles = {}
    CommandOf <- MCCommandOf
    CommandRun <- NoJobs
    Composable = {TRUE}
    Escalations = {FALSE}
    CircuitThreshold = 1
    StopLimit = 0
    Hooks = {h1, h2}
    Current = d1
    Unverified = {}
    Mortal = FALSE
    Scenes = {"repair"}
SPECIFICATION SceneSpec
INVARIANTS
    NotWedged

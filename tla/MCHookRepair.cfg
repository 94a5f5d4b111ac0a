CONSTANTS
    Nil = Nil
    Roles = {"implement", "implement-hard", "analyst", "consilium-unavailable"}
    MemberKeys = {"consilium/0"}
    Steps = {"verify/0"}
    Slots = {"impl", "consilium", "verify/0"}
    RoleOf <- MCRoleOf
    Children = {c1, c2}
    Jobs = {}
    SentinelRole = "consilium-unavailable"
    ConsiliumKeys <- MCConsilium
    RepairThreshold = 2
    Decisions = {d1}
    Sessions = {s1}
    SessionOf <- MCSessionOf
    Plans <- AllRepairs
    TaskRole <- Implementers
    ReviewRoles = {}
    AdHocRoles = {"implement", "implement-hard"}
    ImplementRoles = {}
    CommandOf <- MCCommandOf
    CommandRun <- NoJobs
    Composable = {TRUE}
    Escalations = {FALSE}
    CircuitThreshold = 1
    StopLimit = 1
    Hooks = {h1, h2}
    Current = d1
    Unverified = {}
    Mortal = TRUE
    Scenes = {"repair", "escalated"}
SYMMETRY Interchangeable
SPECIFICATION SceneSpec
PROPERTIES
    TransactionLayer

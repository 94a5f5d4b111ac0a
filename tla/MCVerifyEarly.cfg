CONSTANTS
    Nil = Nil
    Roles = {"implement", "review-hard", "analyst", "consilium-unavailable"}
    MemberKeys = {"consilium/0"}
    Steps = {"verify/0"}
    Slots = {"impl", "review", "consilium", "verify/0"}
    RoleOf <- MCRoleOf
    Children = {c1}
    Jobs = {}
    SentinelRole = "consilium-unavailable"
    ConsiliumKeys <- MCConsilium
    RepairThreshold = 2
    Decisions = {d1}
    Sessions = {s1}
    SessionOf <- MCSessionOf
    Plans <- Reviews
    TaskRole <- Implementers
    ReviewRoles = {"review-hard"}
    AdHocRoles = {"implement"}
    ImplementRoles = {}
    CommandOf <- MCCommandOf
    CommandRun <- NoJobs
    Composable = {TRUE}
    Escalations = {FALSE}
    CircuitThreshold = 1
    StopLimit = 0
    Hooks = {h1, h2}
    Current = d1
    Unverified = {}
    Mortal = FALSE
    Scenes = {"reviewed"}
SPECIFICATION SceneSpec
PROPERTIES
    VerifyAfterStages

CONSTANTS
    Nil = Nil
    Roles = {"implement", "implement-hard", "analyst", "consilium-unavailable"}
    MemberKeys = {"consilium/0"}
    Steps = {"verify/0"}
    Slots = {"impl", "consilium", "verify/0"}
    RoleOf <- MCRoleOf
    Children = {c1}
    Jobs = {j1}
    SentinelRole = "consilium-unavailable"
    ConsiliumKeys <- MCConsilium
    RepairThreshold = 2
    Decisions = {"turn 1"}
    Sessions = {s1}
    SessionOf <- MCSessionOf
    Plans <- RepairPlans
    TaskRole <- Implementers
    ReviewRoles = {}
    AdHocRoles = {}
    ImplementRoles = {"implement", "implement-hard"}
    CommandOf <- MCCommandOf
    CommandRun <- MCCommandRun
    Composable = {TRUE, FALSE}
    Escalations = {FALSE}
    CircuitThreshold = 1
    StopLimit = 0
    Scenes = {"repair", "command"}
SPECIFICATION SceneSpec
INVARIANTS
    SettledNeedsNoRepair
PROPERTIES
    RecompositionKeepsProgress
    BindingEndsBySettling

CONSTANTS
    Nil = Nil
    Roles = {"explore", "consilium-unavailable"}
    MemberKeys = {"consilium/0", "recon/0"}
    Steps = {"verify/0"}
    Slots = {"recon", "consilium", "verify/0"}
    RoleOf <- MCRoleOf
    Children = {c1}
    Jobs = {j1}
    SentinelRole = "consilium-unavailable"
    ConsiliumKeys <- MCConsilium
    RepairThreshold = 1
    Decisions = {"turn 1", "turn 2"}
    Sessions = {s1}
    SessionOf <- MCSessionOf
    Plans <- OwingPlans
    TaskRole <- Explorers
    ReviewRoles = {}
    AdHocRoles = {}
    ImplementRoles = {}
    CommandOf <- MCCommandOf
    CommandRun <- MCCommandRun
    Composable = {FALSE}
    Escalations = {FALSE}
    CircuitThreshold = 1
    StopLimit = 0
    Scenes = {"debt", "owing"}
SPECIFICATION SceneSpec
INVARIANTS
    BoundMembersRequested
PROPERTIES
    CorrelationOutlivesRelease

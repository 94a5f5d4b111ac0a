CONSTANTS
    Nil = Nil
    Roles <- MCRoles
    MemberKeys = {"consilium/0"}
    Steps = {}
    Slots = {"impl", "consilium"}
    RoleOf <- MCRoleOf
    Children = {c1}
    Jobs = {}
    SentinelRole = "consilium-unavailable"
    ConsiliumKeys <- MCConsilium
    RepairThreshold = 1
    Decisions = {"turn 1", "turn 2"}
    Sessions = {s1}
    SessionOf <- MCSessionOf
    Plans <- MCPlans
    TaskRole <- MCTaskRole
    ReviewRoles = {}
    AdHocRoles = {}
    ImplementRoles = {"implement"}
    CommandOf <- MCCommands
    CommandRun <- MCRun
    Composable = {FALSE}
    Escalations = {FALSE}
    CircuitThreshold = 1
    StopLimit = 0
    Strict = {"turn 1"}
    Foreground = {}
    Scenes = {"overtaken"}
SYMMETRY Interchangeable
SPECIFICATION SceneSpec
PROPERTIES
    StrictNeedsEvidence

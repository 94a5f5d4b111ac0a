CONSTANTS
    Nil = Nil
    Roles = {"explore", "consilium-unavailable"}
    MemberKeys = {"consilium/0", "recon/0", "recon/1"}
    Steps = {}
    Slots = {"recon", "consilium"}
    RoleOf <- MCRoleOf
    Children = {c1, c2}
    Jobs = {}
    SentinelRole = "consilium-unavailable"
    ConsiliumKeys <- MCConsilium
    RepairThreshold = 1
    Decisions = {d1}
    Sessions = {s1}
    SessionOf <- MCSessionOf
    Plans <- Races
    TaskRole <- Explorers
    ReviewRoles = {}
    AdHocRoles = {"explore"}
    ImplementRoles = {}
    CommandOf <- MCCommandOf
    CommandRun <- NoJobs
    Composable = {FALSE}
    Escalations = {FALSE}
    CircuitThreshold = 1
    StopLimit = 0
    Hooks = {h1, h2}
    Current = d1
    Unverified = {}
    Mortal = TRUE
    Scenes = {"race"}
SYMMETRY Interchangeable
SPECIFICATION SceneSpec
INVARIANTS
    MembersReclaimable
PROPERTIES
    DistinctShards

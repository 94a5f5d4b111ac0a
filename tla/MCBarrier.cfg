CONSTANTS
    Nil = Nil
    Roles = {"explore", "review-hard", "review-independent", "consilium-unavailable"}
    MemberKeys = {"consilium/0", "recon/0", "recon/1", "review-panel/0", "review-panel/1"}
    Steps = {}
    Slots = {"recon", "review", "consilium"}
    RoleOf <- MCRoleOf
    Children = {c1, c2}
    Jobs = {}
    SentinelRole = "consilium-unavailable"
    ConsiliumKeys <- MCConsilium
    RepairThreshold = 1
    Decisions = {"turn 1"}
    Sessions = {s1}
    SessionOf <- MCSessionOf
    Plans <- RacePlans
    TaskRole <- Explorers
    ReviewRoles = {"review-hard", "review-independent"}
    AdHocRoles = {"explore"}
    ImplementRoles = {}
    CommandOf <- MCCommandOf
    CommandRun <- MCCommandRun
    Composable = {FALSE}
    Escalations = {TRUE, FALSE}
    CircuitThreshold = 1
    StopLimit = 0
    Scenes = {"race", "panel"}
SYMMETRY Interchangeable
SPECIFICATION SceneSpec
INVARIANTS
    TypeOK
    OneStagePerChild
PROPERTIES
    SettledStagesStay
    FinishedStagesStay
    StaleChildInert
    CircuitCountsOpenStages

CONSTANTS
    Texts = {"a", "b"}
    Hooks = {h1, h2, h3}
    MaxPrompts = 3
    MaxLate = 1
    Mutes = 1
    Lost = 1
    Expiries = 1

    Roles = {r1, r2}
    Sessions = {s1, s2}
    NoSession = none
    Anonymous = FALSE
    Threshold = 2
    Cooldown = 2
    TURN_TTL = 3
    Limits = {1}
    MaxNow = 5
    MaxSteps = 3

    MaxSegments = 2
    WithVerifier = TRUE

    Debts = {zero_write, deletion}
    Reversible = {zero_write, deletion}
    Decisions = {1, 2}
    Branches = {"implement"}
    Evidence = {"none", "e"}
    StopLimit = 2
    Window = 1
    TTL = 1
    CompactLines = 2
    MaxLog = 2
    MaxTime = 1
    MaxMoves = 3
    MaxKills = 1
    Turns = 2
    Stages = 1
    NoTrack = NoTrack

    Scenes = {"turns", "long turns", "mute turns", "circuits", "calls", "debts", "stop", "killed stop"}
SPECIFICATION SceneSpec
INVARIANTS
    DecisionsFollowPrompts
    OpensOnlyAfterThreshold
    ConductorZeroWrite
    AllowedAtSomeMoment
    LogKeepsDebts
    HoldsAreBounded
PROPERTIES
    CounterNeverDecreases
    OpenCircuitHolds
    DebtsAreHeld
    TurnsEnd
CHECK_DEADLOCK FALSE

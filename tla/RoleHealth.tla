----------------------------- MODULE RoleHealth -----------------------------
(* The availability of roles: what the operator sets for everyone, the          *)
(* circuits that spawn results open for one session, the request quotas, and    *)
(* the pruning every transaction begins with (state.py, transactions.py,        *)
(* cli.py). Times are whole ticks of the wall clock.                            *)
EXTENDS Integers

CONSTANTS
    Roles, Sessions,
    NoSession,      \* a result whose track carries no session id
    Anonymous,      \* whether such results occur
    Threshold,      \* failures in a row that open a circuit
    Cooldown,       \* ticks a circuit stays open
    TURN_TTL,       \* in ticks
    Limits,         \* the quota limits an operator may set
    MaxNow,         \* bound: the clock
    MaxSteps        \* bound: results, decisions and operator commands

ASSUME RoleHealthAssumption ==
    /\ NoSession \notin Sessions /\ Anonymous \in BOOLEAN
    /\ {Threshold, Cooldown, TURN_TTL} \subseteq Nat \ {0} /\ {MaxNow, MaxSteps} \subseteq Nat

VARIABLES
    now,
    roles,      \* RuntimeState.roles
    circuits,   \* RuntimeState.session_circuits: for each session and role
    turn_seen,  \* RuntimeState.turn_seen; NeverSeen without an entry
    streak,     \* history: failures in a row that count, per session and role
    steps       \* what is left of the bound

healthVars == <<now, roles, circuits, turn_seen, streak, steps>>

NeverSeen == -1
Limitless == -2
Closed == [failures |-> 0, until |-> 0, seen |-> NeverSeen]     \* no entry
Healthy == [available |-> TRUE, failures |-> 0, until |-> 0, used |-> 0, limit |-> Limitless]

HealthInit ==
    /\ now = 1
    /\ roles = [r \in Roles |-> Healthy]
    /\ circuits = [s \in Sessions |-> [r \in Roles |-> Closed]]
    /\ turn_seen = [s \in Sessions |-> NeverSeen]
    /\ streak = [s \in Sessions |-> [r \in Roles |-> 0]]
    /\ steps = MaxSteps

circuit_open(s, r) == now < circuits[s][r].until

(* What routing asks: the operator's word first, then the session's circuit.    *)
is_available(s, r) == roles[r].available /\ ~(s \in Sessions /\ circuit_open(s, r))

-----------------------------------------------------------------------------
(* prune, at the head of every transaction: a session whose turn is too old     *)
(* loses its circuits, and so does one whose newest role signal is.             *)
TurnExpired(s) == turn_seen[s] # NeverSeen /\ now - turn_seen[s] > TURN_TTL
SignalsExpired(s) == \A r \in Roles : now - circuits[s][r].seen > TURN_TTL

(* Mistake: circuits are dropped with the turn, however young, and any signal    *)
(* too old is enough.                                                           *)
PruneEagerly ==
    [s \in Sessions |->
        IF \E r \in Roles : now - circuits[s][r].seen > TURN_TTL
        THEN [r \in Roles |-> Closed] ELSE circuits[s]]

Pruned ==
    [s \in Sessions |->
        IF TurnExpired(s) \/ SignalsExpired(s) THEN [r \in Roles |-> Closed] ELSE circuits[s]]

PrunedTurns == [s \in Sessions |-> IF TurnExpired(s) THEN NeverSeen ELSE turn_seen[s]]

Step == steps > 0 /\ steps' = steps - 1 /\ UNCHANGED now

(* Mistake: the failure count restarts whenever the role last failed earlier.    *)
FailureOpens(c) ==
    [failures |-> c.failures + 1, seen |-> now,
     until |-> IF c.failures + 1 > Threshold \/ c.failures = 0 THEN now + Cooldown ELSE c.until]

Failure(c) ==
    [failures |-> c.failures + 1, seen |-> now,
     until |-> IF c.failures + 1 >= Threshold THEN now + Cooldown ELSE c.until]

mark_success(s, r) ==
    IF s = NoSession
    THEN /\ roles' = [roles EXCEPT ![r].failures = 0, ![r].available = TRUE, ![r].until = 0]
         /\ circuits' = Pruned
    ELSE /\ circuits' = [Pruned EXCEPT ![s][r] = [failures |-> 0, until |-> 0, seen |-> now]]
         /\ UNCHANGED roles

mark_failure(s, r) ==
    IF s = NoSession
    THEN /\ LET n == roles[r].failures + 1
            IN  roles' = IF n >= Threshold
                         THEN [roles EXCEPT ![r].failures = n, ![r].available = FALSE,
                                            ![r].until = now + Cooldown]
                         ELSE [roles EXCEPT ![r].failures = n]
         /\ circuits' = Pruned
    ELSE /\ circuits' = [Pruned EXCEPT ![s][r] = Failure(Pruned[s][r])]
         /\ UNCHANGED roles

(* A spawn result settles: success, a failure that counts against the role, or  *)
(* an environment failure, which does not.                                      *)
SpawnResult(s, r, outcome) ==
    /\ Step
    /\ s = NoSession => Anonymous
    /\ CASE outcome = "success" -> mark_success(s, r)
         [] outcome = "failure" -> mark_failure(s, r)
         [] outcome = "environment" -> circuits' = Pruned /\ UNCHANGED roles
    /\ turn_seen' = PrunedTurns
    /\ streak' = IF s = NoSession \/ outcome = "environment" THEN streak
                 ELSE [streak EXCEPT ![s][r] = IF outcome = "failure" THEN @ + 1 ELSE 0]

(* record_decision: the role's quota is charged and the turn stamped.           *)
record_decision(s, r) ==
    /\ Step
    /\ is_available(s, r)
    /\ roles' = [roles EXCEPT ![r].used = @ + 1]
    /\ turn_seen' = [PrunedTurns EXCEPT ![s] = now]
    /\ circuits' = Pruned
    /\ UNCHANGED streak

(* The operator's command. Any of its four settings may be left out (Keep); a   *)
(* usage over the limit, also one routing has run up, refuses the whole command.*)
Keep == -1
Or(value, old) == IF value = Keep THEN old ELSE value

Set(status, available, failures, used, limit) ==
    LET a == [status EXCEPT !.available = CASE available = "keep" -> @
                                            [] OTHER -> available = "true",
                            !.until = IF available = "true" THEN 0 ELSE @,
                            !.failures = IF available = "true" THEN 0 ELSE @]
    IN  [a EXCEPT !.failures = Or(failures, @), !.available = @ /\ failures <= 0,
                  !.used = Or(used, @), !.limit = Or(limit, @)]

cmd_state_set(r, available, failures, used, limit) ==
    /\ Step
    /\ available # "keep" \/ \E x \in {failures, used, limit} : x # Keep
    /\ LET status == Set(roles[r], available, failures, used, limit)
       IN  /\ status.limit # Limitless => status.used <= status.limit
           /\ roles' = [roles EXCEPT ![r] = status]
    /\ circuits' = Pruned /\ turn_seen' = PrunedTurns
    /\ UNCHANGED streak

HealthTick ==
    /\ now < MaxNow
    /\ now' = now + 1
    /\ UNCHANGED <<roles, circuits, turn_seen, streak, steps>>

Operator ==
    \E r \in Roles, available \in {"keep", "true", "false"}, failures \in {Keep, 1},
       used \in {Keep, 0}, limit \in {Keep} \cup Limits :
        cmd_state_set(r, available, failures, used, limit)

HealthNext ==
    \/ HealthTick
    \/ Operator
    \/ \E s \in Sessions, r \in Roles : record_decision(s, r)
    \/ \E s \in Sessions \cup {NoSession}, r \in Roles,
          outcome \in {"success", "failure", "environment"} : SpawnResult(s, r, outcome)
HealthSpec == HealthInit /\ [][HealthNext]_healthVars

-----------------------------------------------------------------------------
(* A circuit is open for a session only after that very session saw the        *)
(* threshold of failures in a row of the role: no other session's failures, no *)
(* environment failure and no pruning can open one.                            *)
OpensOnlyAfterThreshold ==
    \A s \in Sessions, r \in Roles : circuit_open(s, r) => streak[s][r] >= Threshold

Closes(s, r) == circuit_open(s, r) /\ ~circuit_open(s, r)'

(* An open circuit keeps the role from being routed until it cools down or the *)
(* role succeeds in that session; only the expiry of the session's turn         *)
(* forgets it earlier.                                                          *)
OpenCircuitHolds ==
    [][\A s \in Sessions, r \in Roles :
         Closes(s, r) => \/ now' >= circuits[s][r].until
                         \/ streak'[s][r] = 0
                         \/ TurnExpired(s)]_healthVars
=============================================================================

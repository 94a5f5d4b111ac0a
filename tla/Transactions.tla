---------------------------- MODULE Transactions ----------------------------
(***************************************************************************)
(* The single mutation layer of the state file: every *_tx function of     *)
(* grokbuild/transactions.py is one action, because each takes the flock,  *)
(* reads, mutates and replaces state.json before it lets go.  The caller   *)
(* is left open: any hook process may run any transaction next, with any   *)
(* of the arguments the hooks pass.  HookFlow.tla says in which order one  *)
(* hook runs them.                                                         *)
(*                                                                         *)
(* The age of a track (updated_at, the debt window, the TTL) is left open: *)
(* a set of tracks inside the window is chosen at each debt transaction,   *)
(* and where the code takes the newest of several tracks any may be it.    *)
(***************************************************************************)
EXTENDS TrackUpdates

CONSTANTS
    Decisions,       \* decision ids
    Sessions,        \* session ids
    SessionOf,       \* the session of each decision
    Plans,           \* the stage tuples a decision may be composed into
    TaskRole,        \* the role each background child was spawned with
    ReviewRoles,     \* read-only roles whose BLOCKED report may be inconclusive
    AdHocRoles,      \* roles whose spawn may fail without owing a stage
    ImplementRoles,  \* STATION_SKILLS["implement"]
    CommandOf,       \* the exact command of each verify step
    CommandRun,      \* the command each background job runs
    Composable,      \* the answers the registry may give to "can a consilium
                     \* be composed now?": a subset of BOOLEAN
    Escalations,     \* whether a failure counts against its role: a subset of
                     \* BOOLEAN (failures of the environment do not)
    CircuitThreshold,\* failures that open a role's circuit
    StopLimit        \* Stop blocks the hook allows itself

ASSUME DecisionsAssumption ==
    /\ Nil \notin Track
    /\ SessionOf \in [Decisions -> Sessions]
    /\ DOMAIN Plans = Decisions
    /\ \A d \in Decisions : Plans[d] \subseteq Seq(Stage)
    /\ TaskRole \in [Children -> Roles \ {SentinelRole}]
    /\ ImplementRoles \subseteq Roles
    /\ ReviewRoles \subseteq Roles
    /\ AdHocRoles \subseteq Roles \ {SentinelRole}
    /\ DOMAIN CommandOf = Steps
    /\ DOMAIN CommandRun = Jobs
    /\ Composable \subseteq BOOLEAN
    /\ Escalations \subseteq BOOLEAN
    /\ CircuitThreshold \in Nat \ {0}
    /\ StopLimit \in Nat

\* What compose.py makes sure of, and what reconciliation relies on: no two
\* stages of a plan share a key, or both their slot and their kind, and none is
\* taken for a stage that is added at run time.  Routing.tla checks it of the
\* plans that are composed.
Distinct(stages) ==
    \A a, b \in stages : a # b => /\ Range(a.keys) \cap Range(b.keys) = {}
                                  /\ a.slot # b.slot \/ a.kind # b.kind

WellFormedPlans ==
    \A d \in Decisions : \A plan \in Plans[d] :
        /\ Distinct(Range(plan))
        /\ \A st \in Range(plan) :
              /\ st.slot # "consilium"
              /\ Range(st.keys) \cap (Range(ConsiliumKeys) \cup {SentinelRole}) = {}

\* A role stands for one part of a pipeline, in every plan the decision may get:
\* where the role of a linear stage runs in another plan, as a linear stage or
\* as a member of a barrier, it plays the same part there.  The slot of a stage
\* is derived from the name of its role (state._canonical_stage_slot), and the
\* roles of a consilium are roles of nothing else.
RolesIn(st) ==
    IF st.kind = "parallel_spawn" THEN {RoleOf[k] : k \in Range(st.keys)} ELSE {Key(st)}

LinearStage(st) == st.kind \in {"spawn", "sentinel"}

RolesKeepParts ==
    \A d \in Decisions : \A p, q \in Plans[d] :
        \A a \in Range(p), b \in Range(q) \cup {ConsiliumStage}, c \in Range(q) :
            /\ LinearStage(a) /\ Spawnable(b)
            /\ c.slot = a.slot /\ c.kind = a.kind
            /\ Key(a) \in RolesIn(b)
            => b = c

VARIABLES
    tracks,   \* state.executions: the track of a decision, Nil when absent
    circuit   \* state.session_circuits: consecutive failures of a role

vars == <<tracks, circuit>>

Init ==
    /\ tracks = [d \in Decisions |-> Nil]
    /\ circuit = [s \in Sessions |-> [k \in Keys |-> 0]]

-----------------------------------------------------------------------------
Live == {d \in Decisions : tracks[d] # Nil}

Put(d, tr) == tracks' = [tracks EXCEPT ![d] = tr]

\* mark_success and mark_failure for the role that ran; a failure of the
\* environment, or one found by the Stop sweep, is not held against the role.
Feed(d, role, ok, escalate) ==
    circuit' = [circuit EXCEPT ![SessionOf[d]][role] =
                   CASE ok -> 0
                     [] ~ok /\ escalate /\ @ < CircuitThreshold -> @ + 1
                     [] OTHER -> @]

KeysOf(stages) == UNION {Range(st.keys) : st \in {x \in Range(stages) : Spawnable(x)}}

SpawnKeys(tr) == KeysOf(Stages(tr))

SessionTracks(s) == {d \in Live : SessionOf[d] = s}

\* _task_bindings: every stage of the session's tracks the id is bound to
Matches(s, t) ==
    {m \in SessionTracks(s) \X Names : m[2] \in BoundNames(tracks[m[1]], t)}

-----------------------------------------------------------------------------
(* Creating, recomposing and forgetting a track *)

\* record_decision_tx, ensure_execution_tx
EnsureExecution(d, plan) ==
    /\ Put(d, IF tracks[d] = Nil THEN NewTrack(plan) ELSE Ensured(tracks[d], plan))
    /\ UNCHANGED circuit

\* RuntimeState.prune: the track is past its TTL.  Every transaction prunes
\* first, so a step of its own before any other step is the same thing.
Prune(d) ==
    /\ d \in Live
    /\ Put(d, Nil)
    /\ UNCHANGED circuit

\* RuntimeState.prune: the session has not been seen for TURN_TTL.
PruneCircuits(s) ==
    /\ circuit' = [circuit EXCEPT ![s] = [k \in Keys |-> 0]]
    /\ UNCHANGED tracks

-----------------------------------------------------------------------------
(* Spawn requests *)

\* Mistake: "no member left" is recorded as if it were a member.
AllocateUnchecked(d, st, r) ==
    /\ d \in Live
    /\ Put(d, [tracks[d] EXCEPT !.requested = @ \cup {AllocatedKey(tracks[d], st, r)}])
    /\ UNCHANGED circuit

AllocateParallelMember(d, st, r) ==
    /\ d \in Live
    /\ AllocatedKey(tracks[d], st, r) # Nil
    /\ Put(d, [tracks[d] EXCEPT !.requested = @ \cup {AllocatedKey(tracks[d], st, r)}])
    /\ UNCHANGED circuit

RecordRequested(d, k) ==
    /\ d \in Live
    /\ Put(d, Requested(tracks[d], k))
    /\ UNCHANGED circuit

-----------------------------------------------------------------------------
(* Binding a background task *)

BindParallelMember(d, t) ==
    /\ d \in Live
    /\ Put(d, MemberBound(tracks[d], TaskRole[t], t))
    /\ UNCHANGED circuit

BindLinearStage(d, t) ==
    /\ d \in Live
    /\ Put(d, LinearBound(tracks[d], TaskRole[t], t))
    /\ UNCHANGED circuit

\* settlement._terminal_stage_key: the last implementation key in use, else
\* a requested key
TerminalStageKeys(tr) ==
    LET inUse == {k \in SpawnKeys(tr) : /\ k \in tr.requested \cup tr.completed
                                       /\ ActualRole(tr, k) \in ImplementRoles}
    IN  IF inUse # {} THEN inUse ELSE SpawnKeys(tr) \cap tr.requested

BindTerminal(d, t) ==
    \E k \in TerminalStageKeys(tracks[d]) :
    /\ Put(d, [tracks[d] EXCEPT !.terminalTasks[t] = k])
    /\ UNCHANGED circuit

BindVerify(d, t, s) ==
    /\ d \in Live
    /\ CommandRun[t] = CommandOf[s]
    /\ \E st \in Range(Stages(tracks[d])) : st.kind = "verify" /\ Key(st) = s
    /\ Put(d, [tracks[d] EXCEPT !.verifyTasks[t] = s])
    /\ UNCHANGED circuit

-----------------------------------------------------------------------------
(* Settling a result *)

\* Mistake: a late failure of a completed stage still counts.
RecordStageResultCounted(d, k, ok, escalate, composable) ==
    /\ d \in Live
    /\ Put(d, StageResult(tracks[d], k, ok, composable))
    /\ Feed(d, ActualRole(tracks[d], k), ok, escalate)

RecordStageResult(d, k, ok, escalate, composable) ==
    /\ d \in Live
    /\ LET tr == tracks[d]
       IN  /\ Put(d, StageResult(tr, k, ok, composable))
           /\ IF ~ok /\ k \in tr.completed
              THEN UNCHANGED circuit
              ELSE Feed(d, ActualRole(tr, k), ok, escalate)

\* record_retrieval_result_tx: the id resolves to exactly one stage
RecordRetrieval(s, t, ok, escalate, composable) ==
    \E m \in Matches(s, t) :
        LET d == m[1]
            k == m[2]
            tr == tracks[d]
        IN  /\ Matches(s, t) = {m}
            /\ k \in Keys
            /\ \/ /\ \E owner \in Owners(tr, k) : owner # t  \* another child holds the stage
                  /\ Put(d, [tr EXCEPT !.terminalTasks[t] = Nil])
                  /\ UNCHANGED circuit
               \/ /\ Owners(tr, k) = {} \/ t \in Owners(tr, k)
                  /\ Put(d, SettledRetrieval(tr, k, t, ok, composable))
                  /\ IF k \in tr.completed
                     THEN UNCHANGED circuit
                     ELSE Feed(d, ActualRole(tr, k), ok, escalate)

\* The Stop sweep reads a child's BLOCKED report; only a reviewer's may be
\* inconclusive, any other is a failure (RecordRetrieval, not escalated).
RecordReviewInconclusive(s, t) ==
    \E m \in Matches(s, t) :
        LET d == m[1]
            k == m[2]
            tr == tracks[d]
        IN  /\ Matches(s, t) = {m}
            /\ k \in Keys
            /\ ActualRole(tr, k) \in ReviewRoles
            /\ \/ /\ \E owner \in Owners(tr, k) : owner # t
                  /\ Put(d, [tr EXCEPT !.terminalTasks[t] = Nil])
               \/ /\ Owners(tr, k) = {} \/ t \in Owners(tr, k)
                  /\ k \in SpawnKeys(tr)
                  /\ ActualRole(tr, k) \in ReviewRoles
                  /\ IsMember(tr, k) => k \notin tr.waived
                  /\ Put(d, Discharged(tr, k, t))
            /\ UNCHANGED circuit

\* release_unresolvable_binding_tx: verifier ids may stand for several tracks.
\* A job that stands for two steps of one track at once is left out: it takes two
\* steps of one command and a second acknowledgement of the job it was parked as.
ReleaseUnresolvable(s, t) ==
    LET found(d) == {n \in Names : <<d, n>> \in Matches(s, t)}
        one(d)   == CHOOSE n \in found(d) : TRUE
    IN  /\ Matches(s, t) # {}
        /\ \A d \in Live : \A n1, n2 \in found(d) : n1 = n2
        /\ \/ \E m \in Matches(s, t) : Matches(s, t) = {m}
           \/ \A m \in Matches(s, t) : m[2] \in Steps
        /\ \E jobs \in [Decisions -> Tasks \cup {Nil}] :
              /\ \A d \in Decisions :
                    jobs[d] \in (IF d \in Live /\ found(d) # {}
                                 THEN FoundJobs(tracks[d], one(d)) ELSE {Nil})
              /\ tracks' = [d \in Decisions |->
                              IF d \in Live /\ found(d) # {}
                              THEN NotFound(tracks[d], one(d), t, jobs[d])
                              ELSE tracks[d]]
        /\ UNCHANGED circuit

RecordVerifyRetrieval(s, t, ok) ==
    LET bound == {d \in SessionTracks(s) : {tracks[d].verifyTasks[t],
                                            tracks[d].releasedVerify[t]} # {Nil}}
    IN  /\ bound # {}
        /\ tracks' = [d \in Decisions |-> IF d \in bound
                                          THEN VerifierSettled(tracks[d], t, ok)
                                          ELSE tracks[d]]
        /\ UNCHANGED circuit

RecordVerify(d, s, ok) ==
    /\ d \in Live
    /\ Put(d, VerifyRecorded(tracks[d], s, ok))
    /\ UNCHANGED circuit

-----------------------------------------------------------------------------
(* Debt of other decisions of the session; W is the debt window *)

Others(d, W) == (SessionTracks(SessionOf[d]) \cap W) \ {d}

Debts(d, W) == {e \in Others(d, W) : ~AllRequiredCompleted(tracks[e])}

\* The child is not correlated with any stage of the session yet, and exactly
\* one debt has exactly one stage for it.
BindDebtStage(d, t, W) ==
    LET role == TaskRole[t]
        claims == {e \in Debts(d, W) : ClaimedStages(tracks[e], role) # {}}
    IN  /\ d \in Live
        /\ \A e \in SessionTracks(SessionOf[d]) :
              /\ \A k \in Keys : t \notin {tracks[e].memberTasks[k], tracks[e].stageTasks[k]}
              /\ ~ParkedMember(tracks[e], t)
        /\ \E e \in claims : \E i \in ClaimedStages(tracks[e], role) :
              /\ claims = {e}
              /\ ClaimedStages(tracks[e], role) = {i}
              /\ \E k \in DebtKeys(tracks[e], Stages(tracks[e])[i], role) : \* the least name
                    Put(e, DebtBound(tracks[e], k, t))
        /\ UNCHANGED circuit

\* record_session_debt_stage_tx: a foreground result of role r that the
\* current track does not owe goes to the newest track that owes it once.
RecordSessionDebtStage(d, r, W, ok, escalate, composable) ==
    /\ d \in Live
    /\ \E e \in Debts(d, W) : \E k \in OwedKeys(tracks[e], r) :
          /\ OwedKeys(tracks[e], r) = {k}
          /\ Put(e, Recorded(tracks[e], k, ok, composable))
          /\ Feed(e, ActualRole(tracks[e], k), ok, escalate)

\* A verifier is scoped by its command: every track owing it shares the job.
BindDebtVerify(d, t, W) ==
    LET due(e) == NextVerifyStep(tracks[e])
        owing  == {e \in Others(d, W) :
                      /\ due(e) # Nil
                      /\ \A u \in Tasks : tracks[e].verifyTasks[u] # due(e)
                      /\ CommandOf[due(e)] = CommandRun[t]}
    IN  /\ d \in Live
        /\ owing # {}
        /\ tracks' = [e \in Decisions |->
                        IF e \in owing
                        THEN [tracks[e] EXCEPT !.verifyTasks[t] = due(e)]
                        ELSE tracks[e]]
        /\ UNCHANGED circuit

\* A failed foreground verifier changes no debt: its step is unverified anyway.
RecordVerifyFanout(d, command, W) ==
    LET due(e) == NextVerifyStep(tracks[e])
        owing  == {e \in Others(d, W) : due(e) # Nil /\ CommandOf[due(e)] = command}
    IN  /\ d \in Live
        /\ tracks' = [e \in Decisions |->
                        IF e \in owing
                        THEN [tracks[e] EXCEPT !.verified = @ \cup {due(e)}]
                        ELSE tracks[e]]
        /\ UNCHANGED circuit

\* record_stop_block_tx: handle_stop nudges an unfinished track StopLimit times
StopBlock(d) ==
    /\ d \in Live
    /\ ~AllRequiredCompleted(tracks[d])
    /\ tracks[d].stopBlocks < StopLimit
    /\ Put(d, [tracks[d] EXCEPT !.stopBlocks = @ + 1])
    /\ UNCHANGED circuit

-----------------------------------------------------------------------------
(* A hook names a stage of the plan it has read, which need not be the plan  *)
(* of the track any more.  It asks for a spawn of any stage but the sentinel; *)
(* it may report the result of a stage, or the failure of a role spawned     *)
(* outside the pipeline.                                                     *)

PlansOf(d) == {plan \o RuntimeStages(tracks[d].runtime) : plan \in Plans[d]}

Asked(d) ==
    IF d \in Live THEN (UNION {KeysOf(stages) : stages \in PlansOf(d)}) \ {SentinelRole} ELSE {}

Reported(d) == IF d \in Live THEN Asked(d) \cup AdHocRoles ELSE {}

StepsOf(d) ==
    IF d \in Live
    THEN {n \in Steps : \E stages \in PlansOf(d) : \E st \in Range(stages) : n \in Range(st.keys)}
    ELSE {}

BarriersOf(d) == IF d \in Live
                 THEN {st \in Range(Stages(tracks[d])) : st.kind = "parallel_spawn"}
                 ELSE {}

Next ==
    \/ \E d \in Decisions :
          \/ \E plan \in Plans[d] : EnsureExecution(d, plan)
          \/ Prune(d)
          \/ \E st \in BarriersOf(d), r \in Roles : AllocateParallelMember(d, st, r)
          \/ \E k \in Asked(d) : RecordRequested(d, k)
          \/ \E t \in Children : BindParallelMember(d, t) \/ BindLinearStage(d, t)
          \/ \E t \in Jobs : d \in Live /\ BindTerminal(d, t)
          \/ \E t \in Jobs, s \in Steps : BindVerify(d, t, s)
          \/ \E s \in StepsOf(d), ok \in BOOLEAN : RecordVerify(d, s, ok)
          \/ StopBlock(d)
    \/ \E d \in Decisions : \E W \in SUBSET (Decisions \ {d}) :
          \/ \E t \in Children : BindDebtStage(d, t, W)
          \/ \E t \in Jobs : BindDebtVerify(d, t, W)
          \/ \E command \in Range(CommandOf) : RecordVerifyFanout(d, command, W)
    \/ \E ok \in BOOLEAN, escalate \in Escalations, composable \in Composable :
          \/ \E d \in Decisions : \E k \in Reported(d) :
                RecordStageResult(d, k, ok, escalate, composable)
          \/ \E d \in Decisions, r \in Roles \ {SentinelRole} :
             \E W \in SUBSET (Decisions \ {d}) :
                RecordSessionDebtStage(d, r, W, ok, escalate, composable)
          \/ \E s \in Sessions, t \in Tasks :
                RecordRetrieval(s, t, ok, escalate, composable)
    \/ \E s \in Sessions : PruneCircuits(s)
    \/ \E s \in Sessions, t \in Children : RecordReviewInconclusive(s, t)
    \/ \E s \in Sessions, t \in Tasks :
          \/ ReleaseUnresolvable(s, t)
          \/ \E ok \in BOOLEAN : RecordVerifyRetrieval(s, t, ok)

Spec == Init /\ [][Next]_vars

-----------------------------------------------------------------------------
(* Properties *)

\* Every track and every circuit counter has the shape the code declares.
TypeOK ==
    /\ tracks \in [Decisions -> Track \cup {Nil}]
    /\ circuit \in [Sessions -> [Keys -> 0..CircuitThreshold]]

\* A bound member is also a requested one: the barrier's stall clock and the
\* re-allocation of lost acknowledgements read the two together
\* (gate._barrier_stall, allocate_parallel_member_tx).
BoundMembersRequested ==
    \A d \in Live : \A k \in MemberKeys :
        tracks[d].memberTasks[k] # Nil => k \in tracks[d].requested

\* A child stands for at most one stage of a track, whatever order its
\* acknowledgements, lost lookups, re-spawns and debt claims arrive in; with
\* two, every retrieval of it is "ambiguous" and neither stage can settle.
OneStagePerChild ==
    \A d \in Live : \A t \in Children :
        \A n1, n2 \in BoundNames(tracks[d], t) : n1 = n2

\* A completed stage owes no repair: late failure reports of it never count
\* towards a consilium.
SettledNeedsNoRepair ==
    \A d \in Live : \A k \in tracks[d].completed \cap SpawnKeys(tracks[d]) :
        tracks[d].repairFailures[k] = 0

SamePlan(d) ==
    d \in Live /\ tracks'[d] # Nil /\ tracks'[d].plan = tracks[d].plan

\* A stage once completed stays completed while its plan stands: duplicate or
\* late failures, re-spawns and consilium changes cannot reopen it.
SettledStagesStay ==
    [][\A d \in Decisions : SamePlan(d) =>
          tracks[d].completed \cap SpawnKeys(tracks[d]) \subseteq tracks'[d].completed]_vars

\* A barrier or linear stage that holds the pipeline no longer, completed or
\* discharged, never holds it again while the plan stands: re-deriving the plan
\* restores required flags, the discharge must outlive that.
FinishedStagesStay ==
    [][\A d \in Decisions : SamePlan(d) =>
          \A st \in Range(Stages(tracks[d])) :
              Spawnable(st) /\ ~Unfinished(tracks[d], st) => ~Unfinished(tracks'[d], st)]_vars

\* A binding is never handed to another child: it ends when its stage
\* completes, fails or is discharged.
BindingEndsBySettling ==
    [][\A d \in Decisions : SamePlan(d) =>
          LET old == tracks[d]
              new == tracks'[d]
              settled(k) == k \in new.completed \cup new.failed \cup new.waived
              kept(f, g) == \A k \in SpawnKeys(old) :
                               f[k] # Nil => g[k] = f[k] \/ (g[k] = Nil /\ settled(k))
          IN  /\ kept(old.memberTasks, new.memberTasks)
              /\ kept(old.stageTasks, new.stageTasks)]_vars

\* One lookup of a child has been answered: with a result, an inconclusive
\* review, or "no such child".
Answer(s, t) ==
    \/ \E ok \in BOOLEAN, escalate \in Escalations, composable \in Composable :
          RecordRetrieval(s, t, ok, escalate, composable)
    \/ RecordReviewInconclusive(s, t)
    \/ ReleaseUnresolvable(s, t)

HeldByAnother(tr, k, t) ==
    {tr.memberTasks[k], tr.stageTasks[k]} \ {Nil, t} # {}

SameStage(old, new, k) ==
    /\ k \in old.completed <=> k \in new.completed
    /\ k \in old.failed <=> k \in new.failed
    /\ k \in old.requested <=> k \in new.requested
    /\ old.repairFailures[k] = new.repairFailures[k]
    /\ old.memberTasks[k] = new.memberTasks[k]
    /\ old.stageTasks[k] = new.stageTasks[k]

\* What a superseded child reports has no effect on the stage another child
\* holds now: neither its progress, nor its repair count, nor the binding.
StaleChildInert ==
    [][\A d \in Live : tracks'[d] # Nil =>
          \A k \in SpawnKeys(tracks[d]), t \in Tasks :
              /\ HeldByAnother(tracks[d], k, t)
              /\ ~SameStage(tracks[d], tracks'[d], k)
              => ~Answer(SessionOf[d], t)]_vars

\* Two lookups in a row that find no child may unbind it from its stage, but the
\* child stays correlated with it, so that a late answer still resolves.
CorrelationOutlivesRelease ==
    [][\A d \in Live : tracks'[d] # Nil =>
          \A t \in Tasks :
              BoundNames(tracks[d], t) # BoundNames(tracks'[d], t)
              => ~ReleaseUnresolvable(SessionOf[d], t)]_vars

\* A role's circuit counts only failures of stages still open: a late or
\* duplicate failure report of a completed stage does not count.
CircuitCountsOpenStages ==
    [][\A s \in Sessions : \A r \in Roles : circuit'[s][r] > circuit[s][r] =>
          \E d \in SessionTracks(s) : \E k \in Keys :
              /\ ActualRole(tracks[d], k) = r
              /\ k \notin tracks[d].completed
              /\ k \in tracks'[d].failed]_vars

\* Re-deriving the plan of a decision keeps the progress of every part (slot
\* and kind) the two plans share and invents none for the parts they do not.
Progress(tr, st) ==
    Range(st.keys) \cap (IF st.kind = "verify" THEN tr.verified ELSE tr.completed)

RecompositionKeepsProgress ==
    [][\A d \in Live : tracks'[d] # Nil /\ ~SamePlan(d) =>
          \A new \in Range(tracks'[d].plan) :
              LET olds == {st \in Range(tracks[d].plan) :
                             st.slot = new.slot /\ st.kind = new.kind}
                  kept(old) ==
                      IF new.kind = "parallel_spawn"
                      THEN Progress(tracks[d], old) \cap Range(new.keys)
                      ELSE IF Progress(tracks[d], old) = {} THEN {} ELSE Range(new.keys)
              IN  Progress(tracks'[d], new) = UNION {kept(old) : old \in olds}]_vars
=============================================================================

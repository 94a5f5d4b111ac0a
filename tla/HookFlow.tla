------------------------------ MODULE HookFlow ------------------------------
(***************************************************************************)
(* The hook processes of one session (grokbuild/hook.py, settlement.py,    *)
(* gate.py).  Grok starts one short-lived process per hook event, and      *)
(* processes of parallel tool calls overlap.  A process reads the state    *)
(* file without the lock (_load_execution), decides on that snapshot, and  *)
(* then runs one transaction after the other; each step below is one read  *)
(* or one transaction, so the snapshot may be stale when it is used.       *)
(*                                                                         *)
(* The conductor (a language model) is left open: it asks for any spawn,   *)
(* looks up any child, runs the verifier and ends its turn at any time.    *)
(* The route is edit-gated throughout (_gate_active reduces to "the        *)
(* pipeline is unfinished") and a denied request changes nothing, so a     *)
(* denial is not a step.  One decision is followed, so what the hooks do   *)
(* about the debt of other decisions is not; see Transactions.tla.         *)
(***************************************************************************)
EXTENDS Transactions

CONSTANTS
    Hooks,      \* hook processes that may overlap
    Current,    \* the decision of the turn
    Unverified, \* roles whose live-session sign-in is missing
    Mortal      \* whether hook processes may end early

ASSUME HooksAssumption ==
    /\ Current \in Decisions
    /\ Unverified \subseteq Roles
    /\ Mortal \in BOOLEAN
    /\ \A c \in Children : TaskRole[c] \in AdHocRoles  \* a child may outlive its stage

VARIABLES
    hooks,      \* where each hook process stands and what it has read
    children    \* what became of each child the conductor may start

hookVars == <<tracks, circuit, hooks, children>>

Idle == [at |-> "idle"]

HookInit ==
    /\ Init
    /\ hooks = [h \in Hooks |-> Idle]
    /\ children = [c \in Children |-> "unborn"]

-----------------------------------------------------------------------------
(* The gate *)

track == tracks[Current]

\* The linear stage or barrier the gate lets through: in composition order,
\* and none at all once the first unfinished stage is a verifier.
NextRequiredSpawnStage(tr) ==
    LET ordered == NextIncompleteRequiredStage(tr)
        holds(st) == /\ Spawnable(st)
                     /\ Unfinished(tr, st)
                     /\ st.kind = "spawn" => Key(st) \notin Unverified
    IN  CASE ~Spawnable(ordered) -> NoStage
          [] Spawnable(ordered) /\ tr.runtime = "unavailable" -> SentinelStage
          [] OTHER -> FirstStage(tr, {i \in DOMAIN Stages(tr) : holds(Stages(tr)[i])})

\* The step whose exact command PreToolUse admits.
AdmittedVerifyStep(tr) ==
    IF NextRequiredSpawnStage(tr).kind \in {"none", "parallel_spawn"}
    THEN NextVerifyStep(tr) ELSE Nil

\* _enforceable_gate lets go when only stages of unverified roles are left; a
\* stalled barrier lifts it for Stop only, which then leaves the track alone.
Lifted(tr) == NextRequiredSpawnStage(tr) = NoStage /\ VerifyPositions(tr) = {}

GateActive == Current \in Live /\ ~AllRequiredCompleted(track)

Goto(h, state) == hooks' = [hooks EXCEPT ![h] = state]

At(h, place) == hooks[h].at = place

-----------------------------------------------------------------------------
(* PreToolUse of a spawn *)

\* The gate, on a snapshot: the stage the spawn of role r is admitted to.
\* The code asks whether the gate is active before it reads the track that names
\* the stage (hook.py:512, :615); a stage that is due then keeps the gate active
\* then too, so the second reading stands for both.
AdmitSpawn(h, r) ==
    LET stage == NextRequiredSpawnStage(track)
    IN  /\ At(h, "idle")
        /\ GateActive
        /\ \/ /\ stage.kind = "parallel_spawn"
              /\ Goto(h, [at |-> "allocate", stage |-> stage.slot, role |-> r])
           \/ /\ stage.kind = "spawn"
              /\ Key(stage) = r
              /\ Goto(h, [at |-> "request", key |-> r, role |-> r])
        /\ UNCHANGED <<tracks, circuit, children>>

\* The barrier is looked up again, by its id, under the lock.
Reservable(h) ==
    {st \in BarriersOf(Current) :
        st.slot = hooks[h].stage /\ AllocatedKey(track, st, hooks[h].role) # Nil}

\* What the hook holds once it is given the member that is due.
Granted(h, st) == [at |-> "request", role |-> hooks[h].role,
                   key |-> AllocatedKey(track, st, hooks[h].role)]

\* Mistake: the member is chosen from what was read, not under the lock.
AllocateFromSnapshot(h) ==
    /\ At(h, "allocate")
    /\ \E st \in Reservable(h) :
          Goto(h, Granted(h, st))
    /\ UNCHANGED <<tracks, circuit, children>>

\* A member is reserved for the spawn, or the spawn is denied.
Allocate(h) ==
    /\ At(h, "allocate")
    /\ \/ \E st \in Reservable(h) :
             /\ AllocateParallelMember(Current, st, hooks[h].role)
             /\ Goto(h, Granted(h, st))
       \/ /\ Reservable(h) = {}
          /\ Goto(h, Idle)
          /\ UNCHANGED <<tracks, circuit>>
    /\ UNCHANGED children

\* The request is recorded and the conductor's child c starts.
GrantSpawn(h, c) ==
    /\ At(h, "request")
    /\ children[c] = "unborn"
    /\ TaskRole[c] = hooks[h].role
    /\ RecordRequested(Current, hooks[h].key)
    /\ children' = [children EXCEPT ![c] = "called"]
    /\ Goto(h, Idle)

\* Nothing is recorded of a spawn the gate has no say in.
UngatedSpawn(c) ==
    /\ ~GateActive \/ Lifted(track)
    /\ children[c] = "unborn"
    /\ children' = [children EXCEPT ![c] = "called"]
    /\ UNCHANGED <<tracks, circuit, hooks>>

-----------------------------------------------------------------------------
(* PostToolUse of a background spawn: three transactions, until one binds *)

StartAcknowledge(h, c) ==
    /\ At(h, "idle")
    /\ children[c] \in {"called", "running"}  \* an acknowledgement may be repeated
    /\ Goto(h, [at |-> "bindMember", child |-> c])
    /\ children' = [children EXCEPT ![c] = "running"]
    /\ UNCHANGED <<tracks, circuit>>

AcknowledgeMember(h) ==
    LET c == hooks[h].child
    IN  /\ At(h, "bindMember")
        /\ BindParallelMember(Current, c)
        /\ Goto(h, IF MemberAnswer(track, TaskRole[c], c) = {}
                   THEN [at |-> "bindLinear", child |-> c] ELSE Idle)
        /\ UNCHANGED children

AcknowledgeLinear(h) ==
    /\ At(h, "bindLinear")
    /\ BindLinearStage(Current, hooks[h].child)
    /\ Goto(h, Idle)
    /\ UNCHANGED children

-----------------------------------------------------------------------------
(* Results *)

\* settlement._member_result_key, else _owed_result_key, else the bare role.
MemberResultKeys(tr, r) ==
    {k \in tr.requested \ tr.completed : IsMember(tr, k) /\ RoleOf[k] = r}

OwedResultKeys(tr, r) ==
    LET owed == OwedKeys(tr, r) \ tr.inconclusive
    IN  IF owed \cap tr.requested # {} THEN owed \cap tr.requested
        ELSE IF Cardinality(owed) = 1 THEN owed ELSE {}

FailureKeys(tr, r) ==
    IF MemberResultKeys(tr, r) # {} THEN MemberResultKeys(tr, r)
    ELSE IF OwedResultKeys(tr, r) # {} THEN OwedResultKeys(tr, r) ELSE {r}

\* A spawn call fails: PostToolUseFailure looks up the stage it was for.
StartFailure(h, c) ==
    /\ At(h, "idle")
    /\ children[c] = "called"
    /\ \E k \in FailureKeys(track, TaskRole[c]) : Goto(h, [at |-> "fail", key |-> k])
    /\ children' = [children EXCEPT ![c] = "gone"]
    /\ UNCHANGED <<tracks, circuit>>

\* Mistake: the hook edits the track itself instead of settling the stage.
FailInPlace(h) ==
    /\ At(h, "fail")
    /\ Put(Current, [track EXCEPT !.failed = @ \cup {hooks[h].key}])
    /\ Goto(h, Idle)
    /\ UNCHANGED <<circuit, children>>

Fail(h) ==
    /\ At(h, "fail")
    /\ \E escalate \in Escalations, composable \in Composable :
          RecordStageResult(Current, hooks[h].key, FALSE, escalate, composable)
    /\ Goto(h, Idle)
    /\ UNCHANGED children

\* A lookup of a child that was started: its result, BLOCKED, or not found.
Retrieve(c) ==
    /\ children[c] = "running"
    /\ Answer(SessionOf[Current], c)
    /\ UNCHANGED <<hooks, children>>

\* A foreground result without a task id goes to the stage the role owes.
StartForegroundResult(h, c) ==
    /\ At(h, "idle")
    /\ children[c] = "called"
    /\ \E k \in OwedResultKeys(track, TaskRole[c]), ok \in BOOLEAN :
          Goto(h, [at |-> "settle", key |-> k, ok |-> ok])
    /\ children' = [children EXCEPT ![c] = "gone"]
    /\ UNCHANGED <<tracks, circuit>>

Settle(h) ==
    /\ At(h, "settle")
    /\ \E escalate \in Escalations, composable \in Composable :
          RecordStageResult(Current, hooks[h].key, hooks[h].ok, escalate, composable)
    /\ Goto(h, Idle)
    /\ UNCHANGED children

-----------------------------------------------------------------------------
(* The exact verifier, in the foreground *)

AdmitVerifier(h) ==
    /\ At(h, "idle")
    /\ Current \in Live
    /\ AdmittedVerifyStep(track) # Nil
    /\ Goto(h, [at |-> "verifying", command |-> CommandOf[AdmittedVerifyStep(track)]])
    /\ UNCHANGED <<tracks, circuit, children>>

\* PostToolUse reads the state again: the step due now, or nothing to record.
ReadVerdict(h) ==
    LET step == AdmittedVerifyStep(track)
    IN  /\ At(h, "verifying")
        /\ \/ /\ step # Nil
              /\ CommandOf[step] = hooks[h].command
              /\ \E ok \in BOOLEAN : Goto(h, [at |-> "verdict", step |-> step, ok |-> ok])
           \/ /\ step # Nil => CommandOf[step] # hooks[h].command
              /\ Goto(h, Idle)
        /\ UNCHANGED <<tracks, circuit, children>>

RecordVerdict(h) ==
    /\ At(h, "verdict")
    /\ RecordVerify(Current, hooks[h].step, hooks[h].ok)
    /\ Goto(h, Idle)
    /\ UNCHANGED children

-----------------------------------------------------------------------------
(* A hook process that ends early *)

\* It is killed (the event's timeout, a closed terminal) or raises before its
\* next transaction: what it had recorded stays, what it held is lost.  A spawn
\* it was asked about is not started: PreToolUse has not answered, or main
\* answers the exception with a denial.
Killed(h) ==
    /\ Mortal
    /\ ~At(h, "idle")
    /\ Goto(h, Idle)
    /\ UNCHANGED <<tracks, circuit, children>>

\* The same after the request is recorded and before the answer is out.
KilledUnanswered(h) ==
    /\ Mortal
    /\ At(h, "request")
    /\ RecordRequested(Current, hooks[h].key)
    /\ Goto(h, Idle)
    /\ UNCHANGED children

-----------------------------------------------------------------------------
\* Every hook of the turn first makes sure the track is there.
EnsureTrack ==
    /\ \E plan \in Plans[Current] : EnsureExecution(Current, plan)
    /\ UNCHANGED <<hooks, children>>

EndTurn ==
    /\ ~Lifted(track)
    /\ StopBlock(Current)
    /\ UNCHANGED <<hooks, children>>

HookNext ==
    \/ EnsureTrack
    \/ Current \in Live /\
          \/ EndTurn
          \/ \E h \in Hooks :
                \/ \E r \in Roles : AdmitSpawn(h, r)
                \/ Allocate(h)
                \/ \E c \in Children :
                      \/ GrantSpawn(h, c)
                      \/ StartAcknowledge(h, c)
                      \/ StartFailure(h, c)
                      \/ StartForegroundResult(h, c)
                \/ AcknowledgeMember(h)
                \/ AcknowledgeLinear(h)
                \/ Fail(h)
                \/ Settle(h)
                \/ AdmitVerifier(h)
                \/ ReadVerdict(h)
                \/ RecordVerdict(h)
                \/ Killed(h)
                \/ KilledUnanswered(h)
          \/ \E c \in Children : UngatedSpawn(c) \/ Retrieve(c)

HookSpec == HookInit /\ [][HookNext]_hookVars

-----------------------------------------------------------------------------
(* Properties *)

\* The overlapping hooks implement the transaction layer: whatever they read
\* beforehand, they change the state file by whole transactions only.  (What
\* leaves the state file alone is asked for first: it is most steps.)
TransactionLayer == Init /\ [][UNCHANGED vars \/ Next]_vars

\* Every recomposition of the turn keeps its barriers.  (One that takes a barrier
\* away takes along what was recorded of its members, so a hook's reservation is
\* lost when a later one brings the barrier back.)
BarriersStand ==
    \A p, q \in Plans[Current] : \A st \in Range(p) :
        st.kind = "parallel_spawn" => st \in Range(q)

\* A spawn is given the member another admitted spawn already has only when that
\* member failed in between or no member of that role is left unrequested
\* (allocate_parallel_member_tx reserves under the lock): parallel spawns
\* spread over the barrier.
DistinctShards ==
    [][\A h1 \in Hooks : \A h2 \in Hooks \ {h1} :
          /\ At(h1, "request")
          /\ At(h2, "allocate")
          /\ hooks'[h2] = hooks[h1]
          /\ hooks[h1].key \notin track.failed
          => \A st \in Reservable(h2) : \A i \in Candidates(track, st, hooks[h2].role) :
                st.keys[i] \in track.requested]_hookVars

\* state.py, next_verify_step: "Verification cannot run ahead of any unfinished
\* spawn/barrier": when a verdict is recorded, every required stage is done,
\* although the step that is due was read before, without the lock.  (It is not
\* so: a recomposition in between may bring a stage back.)
VerifyAfterStages ==
    [][\A d \in Live : SamePlan(d) /\ ~(tracks'[d].verified \subseteq tracks[d].verified)
          => NextRequiredBarrierOrRole(tracks[d]) = NoStage]_hookVars

\* transactions.py: "A requested member without a recorded background id is
\* unbound: its spawn acknowledgement may have been lost, so a later same-role
\* request may claim it again": whatever hooks died on the way, every pending
\* member of the barrier that is due can be reserved for another spawn, or a
\* child that is running holds it.  (A barrier must not wait for a child that was
\* never started.)
MembersReclaimable ==
    GateActive =>
        LET stage == NextRequiredSpawnStage(track)
            free(r) == AllocatedKey(track, stage, r) # Nil
        IN  stage.kind = "parallel_spawn" =>
                \A k \in IncompleteMembers(track, stage) :
                    \/ free(RoleOf[k])
                    \/ \E c \in Children : children[c] = "running" /\ track.memberTasks[k] = c

\* docs/architecture.md: "PreToolUse allows only the next linear stage or an
\* outstanding barrier member": while the gate holds, something the conductor
\* can do is admitted: a spawn or the verifier.
NotWedged ==
    GateActive => \/ Lifted(track)
                  \/ NextRequiredSpawnStage(track) # NoStage
                  \/ AdmittedVerifyStep(track) # Nil
=============================================================================

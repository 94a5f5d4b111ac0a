---------------------------- MODULE TrackUpdates ----------------------------
(***************************************************************************)
(* What one state-file transaction does to one track                       *)
(* (grokbuild/transactions.py).  Every operator maps a track to a track;   *)
(* Transactions.tla turns them into actions.                               *)
(***************************************************************************)
EXTENDS ExecutionTrack

-----------------------------------------------------------------------------
(* Reconciliation: carry recorded evidence over to a new stage tuple. *)

\* The stage of the new tuple that inherits from the one stage of the old
\* tuple holding key k: same slot, same kind, and no second candidate.
Heirs(old, new, k) ==
    LET owners   == {st \in Range(old) : k \in Range(st.keys)}
        alike(st) == {c \in Range(new) : c.slot = st.slot /\ c.kind = st.kind}
    IN  {c \in Range(new) : \E st \in owners : owners = {st} /\ alike(st) = {c}}

\* Mistake: a name survives only if the new stage still carries it.
MigratedByName(old, new, k) ==
    {n \in Names : n = k /\ \E c \in Heirs(old, new, k) : k \in Range(c.keys)}

\* The new names of key k: none when its evidence is dropped.
Migrated(old, new, k) ==
    {n \in Names : \E c \in Heirs(old, new, k) :
        IF c.kind = "parallel_spawn"
        THEN n = k /\ k \in Range(c.keys)
        ELSE n = Key(c)}

Reconcile(tr, plan, runtime) ==
    LET old == Stages(tr)
        new == plan \o RuntimeStages(runtime)
        image(S) == UNION {Migrated(old, new, k) : k \in S}
        pick(S, default) == IF S = {} THEN default ELSE CHOOSE v \in S : TRUE
        source(n) == {k \in Keys : n \in Migrated(old, new, k)}
        rekeyed(f, default) ==
            [n \in Keys |-> pick({f[k] : k \in source(n)} \ {default}, default)]
        renamed(f) ==
            [t \in Tasks |-> IF f[t] = Nil THEN Nil
                             ELSE pick(Migrated(old, new, f[t]), Nil)]
    IN  [tr EXCEPT !.plan = plan,
                   !.runtime = runtime,
                   !.requested = image(@),
                   !.completed = image(@),
                   !.failed = image(@),
                   !.verified = image(@),
                   !.memberTasks = rekeyed(@, Nil),
                   !.stageTasks = rekeyed(@, Nil),
                   !.terminalTasks = renamed(@),
                   !.verifyTasks = renamed(@),
                   !.releasedVerify = renamed(@),
                   !.repairFailures = rekeyed(@, 0)]

\* A hook re-derives the plan of its decision.  Stages added at run time are
\* kept; a track whose stages already equal the plan is left alone.  The new
\* stages carry fresh required flags.
Ensured(tr, plan) ==
    IF tr.plan = plan /\ tr.runtime = "none" /\ tr.waived = {}
    THEN tr
    ELSE [Reconcile(tr, plan, tr.runtime) EXCEPT !.waived = {}]

-----------------------------------------------------------------------------
(* Settling one result *)

\* Mistake: a success does not clear the count.
RepairResultKept(tr, k, ok, composable) ==
    IF ok THEN tr
    ELSE [tr EXCEPT !.repairFailures[k] = IF @ < RepairThreshold THEN @ + 1 ELSE @]

\* _record_repair_result.  The counter only matters up to the threshold.
RepairResult(tr, k, ok, composable) ==
    LET count   == IF tr.repairFailures[k] < RepairThreshold
                   THEN tr.repairFailures[k] + 1 ELSE RepairThreshold
        counted == [tr EXCEPT !.repairFailures[k] = IF ok THEN 0 ELSE count]
    IN  CASE ok \/ count < RepairThreshold \/ tr.runtime = "consilium" -> counted
          [] OTHER -> IF composable
                      THEN Reconcile(counted, tr.plan, "consilium")
                      ELSE [counted EXCEPT !.runtime = "unavailable"]

\* _apply_stage_result.  reopen: the caller also clears a recorded completion
\* and the not-found streak when the result is a failure.
ApplyStageResult(tr, k, ok, reopen) ==
    IF ok
    THEN [tr EXCEPT !.completed = @ \cup {k},
                    !.failed = @ \ {k},
                    !.stopBlocks = IF k \in tr.completed THEN @ ELSE 0]
    ELSE [tr EXCEPT !.failed = @ \cup {k},
                    !.completed = IF reopen THEN @ \ {k} ELSE @,
                    !.requested = IF IsMember(tr, k) THEN @ \ {k} ELSE @,
                    !.memberTasks[k] = Nil,
                    !.notFound[k] = IF reopen THEN Nil ELSE @]

\* Mistake: asking again for a stage forgets the child that runs it.
RequestedAnew(tr, k) ==
    [tr EXCEPT !.requested = @ \cup {k}, !.stageTasks[k] = Nil, !.stopBlocks = 0]

\* record_stage_tx, action "requested"
Requested(tr, k) ==
    [tr EXCEPT !.requested = @ \cup {k}, !.stopBlocks = 0]

Recorded(tr, k, ok, composable) ==
    LET cleared == [tr EXCEPT !.stageTasks[ActualRole(tr, k)] = Nil]
    IN  ApplyStageResult(RepairResult(cleared, k, ok, composable), k, ok, TRUE)

\* Mistake: a late failure reopens a completed stage.
StageResultReopening(tr, k, ok, composable) == Recorded(tr, k, ok, composable)

\* record_stage_tx, action "result".  A failure reported for a completed stage
\* is ignored.
StageResult(tr, k, ok, composable) ==
    IF ~ok /\ k \in tr.completed THEN tr ELSE Recorded(tr, k, ok, composable)

\* record_retrieval_result_tx on the one stage the task resolves to
SettledRetrieval(tr, k, t, ok, composable) ==
    IF k \in tr.completed
    THEN [tr EXCEPT !.notFound[k] = Nil, !.terminalTasks[t] = Nil]
    ELSE LET cleared == [tr EXCEPT !.notFound[k] = Nil,
                                   !.stageTasks[ActualRole(tr, k)] = Nil,
                                   !.terminalTasks[t] = Nil]
         IN  ApplyStageResult(RepairResult(cleared, k, ok, composable), k, ok, FALSE)

\* record_review_inconclusive_tx on the one stage the task resolves to: the
\* stage is discharged, neither completed nor failed.
Discharged(tr, k, t) ==
    [tr EXCEPT !.waived = @ \cup {k},
               !.inconclusive = @ \cup {k},
               !.requested = @ \ {k},
               !.stageTasks[ActualRole(tr, k)] = Nil,
               !.memberTasks[k] = Nil,
               !.terminalTasks[t] = Nil,
               !.notFound[k] = Nil]

-----------------------------------------------------------------------------
(* Which stage a task id stands for *)

\* _task_bindings restricted to one track
BoundNames(tr, t) ==
    {k \in Keys : tr.memberTasks[k] = t \/ tr.stageTasks[k] = t \/ tr.terminalTasks[t] = k}
    \cup {s \in Steps : tr.verifyTasks[t] = s \/ tr.releasedVerify[t] = s}

\* Mistake: nobody in particular owns a stage.
OwnersUnchecked(tr, k) == {}

\* The ids that may settle stage k: its live binding, else a parked id (the
\* code takes the first parked one).
Owners(tr, k) ==
    CASE tr.memberTasks[k] # Nil -> {tr.memberTasks[k]}
      [] tr.memberTasks[k] = Nil /\ tr.stageTasks[ActualRole(tr, k)] # Nil ->
            {tr.stageTasks[ActualRole(tr, k)]}
      [] OTHER -> {t \in Tasks : tr.terminalTasks[t] = k}

\* The job the code finds bound to step n: the first entry of a dict, so any
FoundJobs(tr, n) ==
    LET jobs == {t \in Tasks : tr.verifyTasks[t] = n}
    IN  IF jobs = {} THEN {Nil} ELSE jobs

\* release_unresolvable_binding_tx on one match: the first lookup that finds
\* no child starts a streak; the second parks the id so that a late answer
\* still resolves, and unbinds the stage unless another child holds it.
HeldByOther(tr, n, t, job) ==
    \/ n \in Keys /\ (tr.memberTasks[n] \notin {Nil, t} \/ tr.stageTasks[n] \notin {Nil, t})
    \/ job \notin {Nil, t}

\* Mistake: a released child is forgotten altogether.
NotFoundForgotten(tr, n, t, job) ==
    IF tr.notFound[n] # t
    THEN [tr EXCEPT !.notFound[n] = t]
    ELSE [tr EXCEPT !.notFound[n] = Nil, !.verifyTasks[t] = Nil, !.failed = @ \cup {n}]

NotFound(tr, n, t, job) ==
    IF tr.notFound[n] # t
    THEN [tr EXCEPT !.notFound[n] = t]
    ELSE LET streakOver == [tr EXCEPT !.notFound[n] = Nil]
             parked == IF n \in Steps
                       THEN [streakOver EXCEPT !.releasedVerify[t] = n]
                       ELSE [streakOver EXCEPT !.terminalTasks[t] = n]
             unbound(f) == [k \in Keys |-> IF k = n THEN Nil ELSE f[k]]
         IN  IF HeldByOther(tr, n, t, job) THEN parked
             ELSE [parked EXCEPT !.memberTasks = unbound(@),
                                 !.stageTasks = unbound(@),
                                 !.verifyTasks[t] = Nil,
                                 !.requested = @ \ {n},
                                 !.failed = @ \cup {n}]

\* record_verify_retrieval_tx on one track
VerifierSettled(tr, t, ok) ==
    LET steps == {tr.verifyTasks[t], tr.releasedVerify[t]} \ {Nil}
    IN  [tr EXCEPT !.verifyTasks[t] = Nil,
                   !.releasedVerify[t] = Nil,
                   !.failed = IF ok THEN @ \ steps ELSE @ \cup steps,
                   !.verified = IF ok THEN @ \cup steps ELSE @ \ steps,
                   !.stopBlocks = IF ok THEN 0 ELSE @]

\* record_verify_tx
VerifyRecorded(tr, s, ok) ==
    [tr EXCEPT !.verified = IF ok THEN @ \cup {s} ELSE @ \ {s},
               !.stopBlocks = IF ok THEN 0 ELSE @]

-----------------------------------------------------------------------------
(* Which stage a spawn request or an acknowledgement may take *)

\* allocate_parallel_member_tx: the first never-requested member of the role,
\* else the first requested one that no child is bound to.
Candidates(tr, st, r) == {i \in IncompletePositions(tr, st) : RoleOf[st.keys[i]] = r}

\* Mistake: what was requested once is never given out again.
AllocatedOnce(tr, st, r) ==
    LET fresh == {i \in Candidates(tr, st, r) : st.keys[i] \notin tr.requested}
    IN  IF fresh = {} THEN Nil ELSE st.keys[Least(fresh)]

AllocatedKey(tr, st, r) ==
    LET fresh   == {i \in Candidates(tr, st, r) : st.keys[i] \notin tr.requested}
        unbound == {i \in Candidates(tr, st, r) : tr.memberTasks[st.keys[i]] = Nil}
    IN  CASE fresh # {}   -> st.keys[Least(fresh)]
          [] fresh = {} /\ unbound # {} -> st.keys[Least(unbound)]
          [] OTHER -> Nil

\* bind_parallel_member_task_tx: the key the acknowledged child t of role r is
\* correlated with, already or from now on
Barriers(tr) == {i \in DOMAIN Stages(tr) : Stages(tr)[i].kind = "parallel_spawn"}

MemberPositions(tr) ==
    UNION {{<<i, j>> : j \in DOMAIN Stages(tr)[i].keys} : i \in Barriers(tr)}

BindableMembers(tr, r) ==
    {p \in MemberPositions(tr) :
        LET k == Stages(tr)[p[1]].keys[p[2]]
        IN  /\ RoleOf[k] = r
            /\ k \in tr.requested \ tr.completed
            /\ tr.memberTasks[k] = Nil}

FirstBindable(tr, r) ==
    LET first == CHOOSE p \in BindableMembers(tr, r) :
                    \A q \in BindableMembers(tr, r) :
                        p[1] < q[1] \/ (p[1] = q[1] /\ p[2] <= q[2])
    IN  Stages(tr)[first[1]].keys[first[2]]

ParkedMember(tr, t) == tr.terminalTasks[t] # Nil /\ IsMember(tr, tr.terminalTasks[t])

\* Mistake: a parked child may take a second member.
MemberBoundTwice(tr, r, t) ==
    IF (\E k \in Keys : tr.memberTasks[k] = t) \/ BindableMembers(tr, r) = {}
    THEN tr
    ELSE [tr EXCEPT !.memberTasks[FirstBindable(tr, r)] = t]

MemberBound(tr, r, t) ==
    IF \/ \E k \in Keys : tr.memberTasks[k] = t
       \/ ParkedMember(tr, t)
       \/ BindableMembers(tr, r) = {}
    THEN tr
    ELSE [tr EXCEPT !.memberTasks[FirstBindable(tr, r)] = t]

\* The key bind_parallel_member_task_tx answers with
MemberAnswer(tr, r, t) ==
    LET held == {k \in Keys : tr.memberTasks[k] = t}
    IN  CASE held # {} -> {k \in held : IsMember(tr, k) /\ RoleOf[k] = r}
          [] held = {} /\ ParkedMember(tr, t) ->
                {k \in {tr.terminalTasks[t]} : RoleOf[k] = r}
          [] OTHER -> IF BindableMembers(tr, r) = {} THEN {} ELSE {FirstBindable(tr, r)}

\* bind_linear_stage_task_tx
LinearBindable(tr, r, t) ==
    /\ \A k \in Keys : tr.stageTasks[k] # t
    /\ \E st \in Range(Stages(tr)) :
          /\ st.kind \in {"spawn", "sentinel"}
          /\ StageRequired(tr, st)
          /\ Key(st) = r
    /\ r \in tr.requested \ tr.completed
    /\ tr.stageTasks[r] = Nil

LinearBound(tr, r, t) ==
    IF LinearBindable(tr, r, t) THEN [tr EXCEPT !.stageTasks[r] = t] ELSE tr

-----------------------------------------------------------------------------
(* Debt: stages another decision of the session left unfinished *)

\* bind_debt_stage_task_tx: the keys of stage st a child of role r may claim.
\* A linear stage is asked for by its required flag alone.
DebtKeys(tr, st, r) ==
    IF st.kind = "parallel_spawn"
    THEN {k \in IncompleteMembers(tr, st) :
              st.required /\ RoleOf[k] = r /\ tr.memberTasks[k] = Nil}
    ELSE {k \in {r} : /\ st.kind \in {"spawn", "sentinel"}
                      /\ StageRequired(tr, st)
                      /\ Key(st) = r
                      /\ r \notin tr.completed
                      /\ tr.stageTasks[r] = Nil}

ClaimedStages(tr, r) ==
    {i \in DOMAIN Stages(tr) : DebtKeys(tr, Stages(tr)[i], r) # {}}

\* Mistake: a claimed member is bound without being requested.
DebtBoundOnly(tr, k, t) ==
    IF IsMember(tr, k) THEN [tr EXCEPT !.memberTasks[k] = t]
    ELSE [tr EXCEPT !.stageTasks[k] = t]

DebtBound(tr, k, t) ==
    IF IsMember(tr, k)
    THEN [tr EXCEPT !.requested = @ \cup {k}, !.memberTasks[k] = t]
    ELSE [tr EXCEPT !.stageTasks[k] = t]

\* record_session_debt_stage_tx: the keys role r still owes
OwedKeys(tr, r) ==
    UNION {IF st.kind = "parallel_spawn"
           THEN {k \in IncompleteMembers(tr, st) : st.required /\ RoleOf[k] = r}
           ELSE {k \in {r} \ tr.completed : /\ st.kind \in {"spawn", "sentinel"}
                                             /\ StageRequired(tr, st)
                                             /\ Key(st) = r}
           : st \in Range(Stages(tr))}
=============================================================================

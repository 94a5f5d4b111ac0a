----------------------------- MODULE StrictProofs -----------------------------
(***************************************************************************)
(* Only runtime evidence completes a strict stage, for any turns, children *)
(* and plans, and whatever other hooks do between a judgement and its      *)
(* transaction: a theorem of StrictEvidence.tla.  The one exception is the *)
(* child that came to stand for the stage after its result was judged,     *)
(* which run strict_overtaken shows.  The argument: a judgement keeps what *)
(* it was made of, and a transaction completes no stage but the one that   *)
(* it settles.                                                             *)
(***************************************************************************)
EXTENDS StrictEvidence, ProgressProofs, FiniteSetTheorems

-----------------------------------------------------------------------------
(* What a transaction completes *)

LEMMA ReconcileCompletes ==
  ASSUME WellFormedPlans, NEW d \in Decisions, NEW tr \in Track, tr.plan \in Plans[d],
         NEW runtime \in Runtimes, tr.runtime = "consilium" => runtime = "consilium"
  PROVE  Reconcile(tr, tr.plan, runtime).completed \subseteq tr.completed
<1> DEFINE old == Stages(tr)
           new == tr.plan \o RuntimeStages(runtime)
           after == Reconcile(tr, tr.plan, runtime)
<1>1. after.completed = UNION {Migrated(old, new, k) : k \in tr.completed}
  BY DEF Reconcile, Track
<1>2. \A k : Migrated(old, new, k) \subseteq {k}
  BY MigratedSamePlan DEF Stages, Track
<1> HIDE DEF old, new, after
<1>3. after.completed \subseteq tr.completed
  BY <1>1, <1>2
<1> QED BY <1>3 DEF after

LEMMA RepairCompletes ==
  ASSUME WellFormedPlans, NEW d \in Decisions, NEW tr \in Track, tr.plan \in Plans[d],
         NEW k \in Keys, NEW ok \in BOOLEAN, NEW composable \in BOOLEAN
  PROVE  RepairResult(tr, k, ok, composable).completed \subseteq tr.completed
<1> DEFINE count == IF tr.repairFailures[k] < RepairThreshold
                    THEN tr.repairFailures[k] + 1 ELSE RepairThreshold
           counted == [tr EXCEPT !.repairFailures[k] = IF ok THEN 0 ELSE count]
           after == RepairResult(tr, k, ok, composable)
<1>1. \/ after = counted
      \/ after = [counted EXCEPT !.runtime = "unavailable"]
      \/ after = Reconcile(counted, tr.plan, "consilium")
  BY DEF RepairResult
<1>2. (IF ok THEN 0 ELSE count) \in 0..RepairThreshold
  BY KeysAssumption DEF KeysAssumption, Track
<1> HIDE DEF count
<1>3. counted \in Track /\ counted.completed = tr.completed /\ counted.plan = tr.plan
  BY <1>2 DEF Track
<1>4. [counted EXCEPT !.runtime = "unavailable"].completed = tr.completed
  BY DEF Track
<1> HIDE DEF counted, after
<1>5. Reconcile(counted, tr.plan, "consilium").completed \subseteq tr.completed
  BY <1>3, ReconcileCompletes DEF Runtimes
<1>6. after.completed \subseteq tr.completed
  BY <1>1, <1>3, <1>4, <1>5
<1> QED BY <1>6 DEF after

\* The stage that is settled, when it succeeded
Won(k, ok) == IF ok THEN {k} ELSE {}

LEMMA ResultCompletes ==
  ASSUME WellFormedPlans, NEW d \in Decisions, NEW tr \in Track, tr.plan \in Plans[d],
         NEW k \in Keys, NEW ok \in BOOLEAN, NEW composable \in BOOLEAN
  PROVE  /\ Recorded(tr, k, ok, composable).completed \subseteq tr.completed \cup Won(k, ok)
         /\ StageResult(tr, k, ok, composable).completed \subseteq tr.completed \cup Won(k, ok)
         /\ \A t \in Tasks : SettledRetrieval(tr, k, t, ok, composable).completed
                                \subseteq tr.completed \cup Won(k, ok)
<1>1. ASSUME NEW x \in Track, x.plan = tr.plan, x.completed = tr.completed,
             NEW reopen \in BOOLEAN
      PROVE  ApplyStageResult(RepairResult(x, k, ok, composable), k, ok, reopen).completed
                \subseteq tr.completed \cup Won(k, ok)
  <2> DEFINE counted == RepairResult(x, k, ok, composable)
  <2>1. counted.completed \subseteq tr.completed
    BY <1>1, RepairCompletes
  <2>2. counted \in Track
    BY <1>1, RepairResultSound DEF Sound
  <2> HIDE DEF counted
  <2>3. ApplyStageResult(counted, k, ok, reopen).completed
           \subseteq counted.completed \cup Won(k, ok)
    BY <2>2 DEF ApplyStageResult, Won, Track
  <2>4. ApplyStageResult(counted, k, ok, reopen).completed \subseteq tr.completed \cup Won(k, ok)
    BY <2>1, <2>3
  <2> QED BY <2>4 DEF counted
<1>2. Recorded(tr, k, ok, composable).completed \subseteq tr.completed \cup Won(k, ok)
  <2> DEFINE cleared == [tr EXCEPT !.stageTasks[ActualRole(tr, k)] = Nil]
  <2>1. cleared \in Track /\ cleared.plan = tr.plan /\ cleared.completed = tr.completed
    BY DEF Track
  <2> HIDE DEF cleared
  <2>2. ApplyStageResult(RepairResult(cleared, k, ok, composable), k, ok, TRUE).completed
           \subseteq tr.completed \cup Won(k, ok)
    BY <1>1, <2>1
  <2> QED BY <2>2 DEF Recorded, cleared
<1>3. ASSUME NEW t \in Tasks
      PROVE  SettledRetrieval(tr, k, t, ok, composable).completed
                \subseteq tr.completed \cup Won(k, ok)
  <2> DEFINE unparked == [tr EXCEPT !.notFound[k] = Nil, !.terminalTasks[t] = Nil]
             cleared == [tr EXCEPT !.notFound[k] = Nil,
                                   !.stageTasks[ActualRole(tr, k)] = Nil,
                                   !.terminalTasks[t] = Nil]
  <2>1. unparked.completed = tr.completed
    BY DEF Track
  <2>2. cleared \in Track /\ cleared.plan = tr.plan /\ cleared.completed = tr.completed
    BY DEF Track, Names
  <2> HIDE DEF unparked, cleared
  <2>3. ApplyStageResult(RepairResult(cleared, k, ok, composable), k, ok, FALSE).completed
           \subseteq tr.completed \cup Won(k, ok)
    BY <1>1, <2>2
  <2> QED BY <2>1, <2>3 DEF SettledRetrieval, cleared, unparked
<1> QED BY <1>2, <1>3 DEF StageResult

-----------------------------------------------------------------------------
(* The invariant *)

\* A strict result counts exactly when it was confirmed, for the stage the child
\* stood for then; any other is taken at its word.
Judged(binding) ==
    judging.evidence = IF binding # Unbound /\ StrictFor(judging.turn, binding) /\ judging.ok
                       THEN binding ELSE Nil

\* The keys the plans of decision d may ask for, whatever its track has reached
PlanRoles(d) == UNION {KeysOf(plan) : plan \in Plans[d]}

\* What was judged, and of what, while it waits for its transaction.
JudgedInv ==
    /\ judging.call \in {"none", "retrieval", "stage", "debt"}
    /\ judging.call # "none" => /\ judging.turn \in Decisions /\ judging.ok \in BOOLEAN
                               /\ Judged(judging.binding)
    /\ judging.call = "retrieval" => judging.of \in Children
    /\ judging.call \in {"stage", "debt"} =>
          judging.of \in Foreground /\ judging.binding = <<judging.turn, judging.of>>
    /\ judging.call = "stage" => judging.of \in PlanRoles(judging.turn)

StrictInv == IInv /\ ProgressInv /\ JudgedInv

LEMMA JudgedFor ==
  ASSUME NEW call, NEW turn, NEW of, NEW binding, NEW success, NEW confirmed,
         Judge(call, turn, of, binding, success, confirmed),
         success \in BOOLEAN, confirmed \in BOOLEAN
  PROVE  /\ judging'.call = call /\ judging'.turn = turn /\ judging'.of = of
         /\ judging'.ok \in BOOLEAN /\ judging'.binding = binding
         /\ judging'.evidence = IF binding # Unbound /\ StrictFor(turn, binding) /\ judging'.ok
                                THEN binding ELSE Nil
  BY DEF Judge

\* A role that owes a result has a stage of the plan: the consilium added at run
\* time has members, and the sentinel is not spawned in the foreground.
LEMMA OwedPlanned ==
  ASSUME WellFormedPlans, IInv, ProgressInv, NEW d \in Live, NEW r \in Foreground,
         OwesResult(tracks[d], r)
  PROVE  r \in PlanRoles(d)
<1>1. d \in Decisions /\ tracks[d] \in Track /\ tracks[d].plan \in Plans[d]
  BY FitTrack DEF Fit, Track
<1>2. PICK st \in Range(Stages(tracks[d])) : st.kind # "verify" /\ Key(st) = r
  BY DEF OwesResult
<1>3. r \in Roles /\ r # SentinelRole /\ r \notin MemberKeys
  BY StrictAssumption, KeysAssumption DEF StrictAssumption, KeysAssumption
<1>4. st \in Stage /\ Spawnable(st) /\ r \in Range(st.keys)
  BY <1>1, <1>2, TrackKeys, StageKeys DEF Spawnable
<1>5. st # ConsiliumStage
  <2>1. ConsiliumStage \in Stage /\ ConsiliumStage.kind = "parallel_spawn"
    BY RuntimeStageTypes DEF ConsiliumStage
  <2> QED BY <1>3, <1>4, <2>1, StageKeys
<1>6. st # SentinelStage
  BY <1>2, <1>3 DEF SentinelStage, Key
<1>7. st \in Range(tracks[d].plan)
  BY <1>1, <1>2, <1>5, <1>6, TrackStages
<1> QED BY <1>1, <1>4, <1>7 DEF PlanRoles, KeysOf

\* A hook may report on such a role as long as the turn has a track.
LEMMA PlannedReported ==
  ASSUME WellFormedPlans, IInv, ProgressInv, NEW d \in Live, NEW r \in Foreground,
         r \in PlanRoles(d)
  PROVE  r \in Reported(d)
<1>1. d \in Decisions /\ tracks[d].runtime \in Runtimes /\ r # SentinelRole
  BY FitTrack, StrictAssumption DEF Fit, Track, StrictAssumption
<1>2. PICK plan \in Plans[d] : r \in KeysOf(plan)
  BY DEF PlanRoles
<1> DEFINE stages == plan \o RuntimeStages(tracks[d].runtime)
<1>3. stages \in PlansOf(d)
  BY DEF PlansOf
<1>4. Range(stages) = Range(plan) \cup Range(RuntimeStages(tracks[d].runtime))
  BY ONLY <1>1, WellFormedPlans, WellFormedStages
<1> HIDE DEF stages
<1>5. r \in KeysOf(stages)
  BY <1>2, <1>4 DEF KeysOf
<1> QED BY <1>1, <1>3, <1>5 DEF Reported, Asked

LEMMA JudgedStage ==
  ASSUME WellFormedPlans, StrictInv, NEW escalate, NEW composable,
         SettleStage(escalate, composable)
  PROVE  judging.of \in Reported(judging.turn)
<1>1. judging.turn \in Live /\ judging.of \in Foreground /\ judging.of \in PlanRoles(judging.turn)
  BY DEF SettleStage, RecordStageResult, StrictInv, JudgedInv
<1> QED BY <1>1, PlannedReported DEF StrictInv

\* Every step is a transaction that any hook may run, or none.
LEMMA StrictSteps ==
  ASSUME WellFormedPlans, StrictInv, StrictNext
  PROVE  Next \/ UNCHANGED vars
<1>1. CASE \E turn \in Decisions, success, confirmed \in BOOLEAN :
              \/ \E t \in Children : JudgeRetrieval(turn, t, success, confirmed)
              \/ \E r \in Foreground : JudgeForeground(turn, r, success, confirmed)
  <2>1. ASSUME NEW call, NEW turn, NEW of, NEW binding, NEW success, NEW confirmed,
               Judge(call, turn, of, binding, success, confirmed)
        PROVE  UNCHANGED vars
    BY ONLY <2>1 DEF Judge
  <2>2. PICK turn \in Decisions :
           \E success, confirmed \in BOOLEAN :
              \/ \E t \in Children : JudgeRetrieval(turn, t, success, confirmed)
              \/ \E r \in Foreground : JudgeForeground(turn, r, success, confirmed)
    BY <1>1
  <2>3. CASE \E success, confirmed \in BOOLEAN :
                \E t \in Children : JudgeRetrieval(turn, t, success, confirmed)
    BY <2>1, <2>3 DEF JudgeRetrieval
  <2>4. CASE \E success, confirmed \in BOOLEAN :
                \E r \in Foreground : JudgeForeground(turn, r, success, confirmed)
    BY <2>1, <2>4 DEF JudgeForeground
  <2> QED BY <2>2, <2>3, <2>4
<1>2. ASSUME NEW escalate \in Escalations, NEW composable \in Composable,
             \/ SettleRetrieval(escalate, composable)
             \/ SettleStage(escalate, composable)
             \/ \E W \in SUBSET (Decisions \ {judging.turn}) :
                   SettleDebt(W, escalate, composable)
      PROVE  Next
  <2>1. CASE SettleRetrieval(escalate, composable)
    <3>1. /\ judging.ok \in BOOLEAN /\ judging.of \in Tasks /\ judging.turn \in Decisions
          /\ RecordRetrieval(SessionOf[judging.turn], judging.of, judging.ok, escalate, composable)
      BY <2>1 DEF SettleRetrieval, StrictInv, JudgedInv, Tasks
    <3>2. SessionOf[judging.turn] \in Sessions
      BY <3>1, DecisionsAssumption DEF DecisionsAssumption
    <3> QED BY <1>2, <3>1, <3>2 DEF Next
  <2>2. CASE SettleStage(escalate, composable)
    <3>1. /\ judging.ok \in BOOLEAN /\ judging.turn \in Decisions
          /\ RecordStageResult(judging.turn, judging.of, judging.ok, escalate, composable)
      BY <2>2 DEF SettleStage, StrictInv, JudgedInv
    <3>2. judging.of \in Reported(judging.turn)
      BY <2>2, <3>1, JudgedStage
    <3> QED BY <1>2, <3>1, <3>2 DEF Next
  <2>3. CASE \E W \in SUBSET (Decisions \ {judging.turn}) : SettleDebt(W, escalate, composable)
    <3>1. PICK W \in SUBSET (Decisions \ {judging.turn}) :
             SettleDebt(W, escalate, composable)
      BY <2>3
    <3>2. /\ judging.ok \in BOOLEAN /\ judging.turn \in Decisions
          /\ judging.of \in Roles \ {SentinelRole}
          /\ RecordSessionDebtStage(judging.turn, judging.of, W, judging.ok,
                                    escalate, composable)
      BY <3>1, StrictAssumption DEF SettleDebt, StrictInv, JudgedInv, StrictAssumption
    <3> QED BY <1>2, <3>1, <3>2 DEF Next
  <2> QED BY <1>2, <2>1, <2>2, <2>3
<1>3. CASE SettleNothing
  BY <1>3 DEF SettleNothing
<1>4. CASE OtherHooks
  <2>1. CASE \E d \in Decisions : \E k \in Asked(d) : Request(d, k)
    BY <2>1 DEF Request, Next
  <2>2. CASE \E d \in Decisions :
                \/ \E plan \in Plans[d] : EnsureExecution(d, plan)
                \/ Prune(d)
                \/ \E t \in Children : BindLinearStage(d, t)
                \/ \E t \in Children, W \in SUBSET (Decisions \ {d}) : BindDebtStage(d, t, W)
    BY <2>2 DEF Next
  <2>3. CASE \E escalate \in Escalations, composable \in Composable :
                \/ \E d \in Decisions : \E k \in Reported(d) :
                      RecordStageResult(d, k, FALSE, escalate, composable)
                \/ \E s \in Sessions, t \in Children :
                      RecordRetrieval(s, t, FALSE, escalate, composable)
    <3>1. FALSE \in BOOLEAN /\ Children \subseteq Tasks
      BY DEF Tasks
    <3> QED BY <2>3, <3>1 DEF Next
  <2>4. CASE \E s \in Sessions, t \in Children : ReleaseUnresolvable(s, t)
    BY <2>4 DEF Next, Tasks
  <2> QED BY <1>4, <2>1, <2>2, <2>3, <2>4 DEF OtherHooks
<1> QED BY <1>1, <1>2, <1>3, <1>4 DEF StrictNext

-----------------------------------------------------------------------------
(* The invariant is inductive *)

LEMMA NotJudgingOK == judging' = NotJudging => JudgedInv'
  BY DEF NotJudging, JudgedInv

\* What a hook judges, it judges of what the child stands for; the tracks stay
\* as they are while it does.
LEMMA JudgementOK ==
  ASSUME WellFormedPlans, StrictInv, NEW turn \in Decisions,
         NEW success \in BOOLEAN, NEW confirmed \in BOOLEAN,
         \/ \E t \in Children : JudgeRetrieval(turn, t, success, confirmed)
         \/ \E r \in Foreground : JudgeForeground(turn, r, success, confirmed)
  PROVE  JudgedInv'
<1>1. ASSUME NEW t \in Children, JudgeRetrieval(turn, t, success, confirmed)
      PROVE  JudgedInv'
  <2> DEFINE binding == BindingOf(SessionOf[turn], t)
  <2>1. Judge("retrieval", turn, t, binding, success, confirmed)
    BY <1>1 DEF JudgeRetrieval
  <2> HIDE DEF binding
  <2>2. /\ judging'.call = "retrieval" /\ judging'.turn = turn /\ judging'.of = t
        /\ judging'.ok \in BOOLEAN /\ judging'.binding = binding
        /\ judging'.evidence = IF binding # Unbound /\ StrictFor(turn, binding) /\ judging'.ok
                               THEN binding ELSE Nil
    BY <2>1, JudgedFor
  <2> QED BY <2>2 DEF JudgedInv, Judged, StrictFor
<1>2. ASSUME NEW r \in Foreground, JudgeForeground(turn, r, success, confirmed)
      PROVE  JudgedInv'
  <2> DEFINE call == IF OwesResult(tracks[turn], r) THEN "stage" ELSE "debt"
             binding == <<turn, r>>
  <2>1. /\ turn \in Live /\ Judge(call, turn, r, binding, success, confirmed)
        /\ UNCHANGED vars
    BY <1>2 DEF JudgeForeground, Judge
  <2>2. call = "stage" => r \in PlanRoles(turn)
    BY <2>1, OwedPlanned DEF StrictInv
  <2>4. call \in {"stage", "debt"}
    OBVIOUS
  <2> HIDE DEF call, binding
  <2>5. /\ judging'.call = call /\ judging'.turn = turn /\ judging'.of = r
        /\ judging'.ok \in BOOLEAN /\ judging'.binding = binding
        /\ judging'.evidence = IF binding # Unbound /\ StrictFor(turn, binding) /\ judging'.ok
                               THEN binding ELSE Nil
    BY <2>1, JudgedFor
  <2>6. Judged(judging.binding)' /\ judging'.binding = <<judging'.turn, judging'.of>>
    BY <2>5 DEF Judged, StrictFor, binding
  <2>7. judging'.call = "stage" => judging'.of \in PlanRoles(judging'.turn)
    BY <2>2, <2>5
  <2> QED BY <2>4, <2>5, <2>6, <2>7 DEF JudgedInv
<1> QED BY <1>1, <1>2

\* Every step keeps what was judged, or settles it.
LEMMA StrictStepsJudge ==
  ASSUME WellFormedPlans, StrictInv, StrictNext
  PROVE  JudgedInv'
<1>1. ASSUME NEW turn \in Decisions, NEW success \in BOOLEAN, NEW confirmed \in BOOLEAN,
             \/ \E t \in Children : JudgeRetrieval(turn, t, success, confirmed)
             \/ \E r \in Foreground : JudgeForeground(turn, r, success, confirmed)
      PROVE  JudgedInv'
  BY <1>1, JudgementOK
<1>2. CASE \/ \E escalate \in Escalations, composable \in Composable :
                 \/ SettleRetrieval(escalate, composable)
                 \/ SettleStage(escalate, composable)
                 \/ \E W \in SUBSET (Decisions \ {judging.turn}) :
                       SettleDebt(W, escalate, composable)
           \/ SettleNothing
  <2>1. Settled
    BY <1>2 DEF SettleRetrieval, SettleStage, SettleDebt, SettleNothing
  <2> QED BY <2>1, NotJudgingOK DEF Settled
<1>3. CASE OtherHooks
  <2>1. judging' = judging
    BY <1>3 DEF OtherHooks
  <2> QED BY <2>1 DEF StrictInv, JudgedInv, Judged, StrictFor
<1> QED BY <1>1, <1>2, <1>3 DEF StrictNext

LEMMA TracksStutter ==
  ASSUME IInv, ProgressInv, UNCHANGED vars
  PROVE  IInv' /\ ProgressInv'
  BY DEF vars, IInv, TracksOK, CircuitOK, ProgressInv, Live

LEMMA StrictInductive ==
  ASSUME WellFormedPlans
  PROVE  StrictSpec => []StrictInv
<1>1. StrictInit => StrictInv
  BY InitOK DEF StrictInit, StrictInv, Init, ProgressInv, Live, NotJudging, JudgedInv
<1>2. StrictInv /\ [StrictNext]_strictVars => StrictInv'
  <2>1. ASSUME StrictInv, StrictNext PROVE StrictInv'
    <3>1. CASE Next
      <4>1. IInv'
        BY <2>1, <3>1, NextOK DEF StrictInv
      <4>2. ProgressInv'
        BY <2>1, <3>1, <4>1, NextMoves, MovesKeepFit DEF StrictInv
      <4> QED BY <2>1, <4>1, <4>2, StrictStepsJudge DEF StrictInv
    <3>2. CASE UNCHANGED vars
      <4>1. IInv' /\ ProgressInv'
        BY <2>1, <3>2, TracksStutter DEF StrictInv
      <4> QED BY <2>1, <4>1, StrictStepsJudge DEF StrictInv
    <3> QED BY <2>1, <3>1, <3>2, StrictSteps
  <2>2. ASSUME StrictInv, UNCHANGED strictVars PROVE StrictInv'
    <3>1. IInv' /\ ProgressInv'
      BY <2>2, TracksStutter DEF StrictInv, strictVars
    <3>2. tracks' = tracks /\ judging' = judging
      BY <2>2 DEF strictVars, vars
    <3>3. JudgedInv'
      BY <2>2, <3>2 DEF StrictInv, JudgedInv, Judged, StrictFor
    <3> QED BY <3>1, <3>3 DEF StrictInv
  <2> QED BY <2>1, <2>2
<1> QED BY <1>1, <1>2, PTL DEF StrictSpec

-----------------------------------------------------------------------------
(* What completes a stage *)

\* What one transaction adds to the completed stages of track d, if at all
Gained(d) == IF tracks'[d] = Nil THEN {} ELSE tracks'[d].completed \ tracks[d].completed

LEMMA PutGains ==
  ASSUME IInv, NEW d \in Live, NEW e, NEW tr, Put(e, tr), NEW S,
         e = d => tr = Nil \/ tr.completed \subseteq tracks[d].completed \cup S
  PROVE  /\ Gained(d) \subseteq S
         /\ e # d => Gained(d) = {}
<1>1. tracks'[d] = IF e = d THEN tr ELSE tracks[d]
  BY DEF Put, IInv, TracksOK, Live
<1> QED BY <1>1 DEF Gained

LEMMA RetrievalGains ==
  ASSUME WellFormedPlans, IInv, ProgressInv, NEW s, NEW t \in Tasks, NEW ok \in BOOLEAN,
         NEW escalate, NEW composable \in BOOLEAN,
         RecordRetrieval(s, t, ok, escalate, composable), NEW d \in Live
  PROVE  \A k \in Gained(d) : ok /\ BindingOf(s, t) = <<d, k>>
<1>1. PICK m \in Matches(s, t) :
         /\ Matches(s, t) = {m}
         /\ m[2] \in Keys
         /\ \/ Put(m[1], [tracks[m[1]] EXCEPT !.terminalTasks[t] = Nil])
            \/ Put(m[1], SettledRetrieval(tracks[m[1]], m[2], t, ok, composable))
  BY DEF RecordRetrieval
<1> DEFINE e == m[1]
           n == m[2]
<1>2. m \in SessionTracks(s) \X Names
  BY DEF Matches
<1>3. e \in Live /\ m = <<e, n>>
  BY <1>2 DEF SessionTracks
<1>4. tracks[e] \in Track /\ tracks[e].plan \in Plans[e] /\ e \in Decisions
  BY <1>3, FitTrack DEF Fit
<1>5. BindingOf(s, t) = m
  <2>1. Cardinality({m}) = 1
    BY FS_Singleton
  <2> QED BY <1>1, <2>1 DEF BindingOf
<1>6. [tracks[e] EXCEPT !.terminalTasks[t] = Nil].completed = tracks[e].completed
  BY <1>4 DEF Track
<1>7. SettledRetrieval(tracks[e], n, t, ok, composable).completed
         \subseteq tracks[e].completed \cup Won(n, ok)
  BY <1>1, <1>4, ResultCompletes
<1> HIDE DEF e, n
<1>8. Gained(d) \subseteq Won(n, ok) /\ (e # d => Gained(d) = {})
  <2>1. \/ Put(e, [tracks[e] EXCEPT !.terminalTasks[t] = Nil])
        \/ Put(e, SettledRetrieval(tracks[e], n, t, ok, composable))
    BY <1>1 DEF e, n
  <2>2. ASSUME NEW tr, Put(e, tr), tr.completed \subseteq tracks[e].completed \cup Won(n, ok)
        PROVE  Gained(d) \subseteq Won(n, ok) /\ (e # d => Gained(d) = {})
    BY <2>2, PutGains
  <2> QED BY <1>6, <1>7, <2>1, <2>2
<1> QED BY <1>3, <1>5, <1>8 DEF Won

LEMMA StageGains ==
  ASSUME WellFormedPlans, IInv, ProgressInv, NEW e, NEW n \in Reported(e), NEW ok \in BOOLEAN,
         NEW escalate, NEW composable \in BOOLEAN,
         RecordStageResult(e, n, ok, escalate, composable), NEW d \in Live
  PROVE  \A k \in Gained(d) : ok /\ e = d /\ k = n
<1>1. e \in Live /\ Put(e, StageResult(tracks[e], n, ok, composable))
  BY DEF RecordStageResult
<1>2. tracks[e] \in Track /\ tracks[e].plan \in Plans[e] /\ e \in Decisions /\ n \in Keys
  BY <1>1, FitTrack, NamedKeys DEF Fit
<1>3. StageResult(tracks[e], n, ok, composable).completed
         \subseteq tracks[e].completed \cup Won(n, ok)
  BY <1>2, ResultCompletes
<1>4. Gained(d) \subseteq Won(n, ok) /\ (e # d => Gained(d) = {})
  BY <1>1, <1>3, PutGains
<1> QED BY <1>4 DEF Won

LEMMA DebtGains ==
  ASSUME WellFormedPlans, IInv, ProgressInv, NEW c, NEW r \in Roles, NEW W, NEW ok \in BOOLEAN,
         NEW escalate, NEW composable \in BOOLEAN,
         RecordSessionDebtStage(c, r, W, ok, escalate, composable), NEW d \in Live
  PROVE  \A k \in Gained(d) : ok
<1>1. PICK e \in Debts(c, W) : \E n \in OwedKeys(tracks[e], r) :
         Put(e, Recorded(tracks[e], n, ok, composable))
  BY DEF RecordSessionDebtStage
<1>2. PICK n \in OwedKeys(tracks[e], r) : Put(e, Recorded(tracks[e], n, ok, composable))
  BY <1>1
<1>3. e \in Live
  BY <1>1 DEF Debts, Others, SessionTracks
<1>4. tracks[e] \in Track /\ tracks[e].plan \in Plans[e] /\ e \in Decisions
  BY <1>3, FitTrack DEF Fit
<1>5. n \in Keys
  BY <1>2, <1>4, OwedKeyType
<1>6. Recorded(tracks[e], n, ok, composable).completed
         \subseteq tracks[e].completed \cup Won(n, ok)
  BY <1>4, <1>5, ResultCompletes
<1>7. Gained(d) \subseteq Won(n, ok)
  BY <1>2, <1>6, PutGains
<1> QED BY <1>7 DEF Won

\* Composition, acknowledgements, claims and failed lookups complete no stage of
\* a plan that they leave standing.
LEMMA OthersGainNothing ==
  ASSUME WellFormedPlans, IInv, ProgressInv, OtherHooks, NEW d \in Live, SamePlan(d)
  PROVE  Gained(d) = {}
<1>0. /\ d \in Decisions /\ tracks[d] \in Track /\ tracks[d].plan \in Plans[d]
      /\ tracks'[d] # Nil /\ tracks'[d].plan = tracks[d].plan
  BY FitTrack DEF Fit, SamePlan
<1>1. ASSUME NEW e, NEW tr, Put(e, tr), e = d => tr.completed \subseteq tracks[d].completed
      PROVE  Gained(d) = {}
  BY <1>1, PutGains
<1>2. CASE \E e \in Decisions : \E k \in Asked(e) : Request(e, k)
  <2>1. PICK e \in Decisions : \E k \in Asked(e) : Put(e, Requested(tracks[e], k))
    BY <1>2 DEF Request, RecordRequested
  <2>2. PICK k : Put(e, Requested(tracks[e], k))
    BY <2>1
  <2>3. Requested(tracks[d], k).completed = tracks[d].completed
    BY <1>0 DEF Requested, Track
  <2> QED BY <1>1, <2>2, <2>3
<1>3. CASE \E e \in Decisions : \E plan \in Plans[e] : EnsureExecution(e, plan)
  <2>1. PICK e \in Decisions : \E plan \in Plans[e] : EnsureExecution(e, plan)
    BY <1>3
  <2>2. PICK plan \in Plans[e] : EnsureExecution(e, plan)
    BY <2>1
  <2>3. CASE e = d
    <3>1. Put(d, Ensured(tracks[d], plan))
      BY <2>2, <2>3 DEF EnsureExecution, Live
    <3>2. plan = tracks[d].plan
      BY <1>0, <2>2, <2>3, <3>1, FitTrack, EnsuredGood DEF Put, IInv, TracksOK
    <3>3. Ensured(tracks[d], tracks[d].plan).completed \subseteq tracks[d].completed
      <4>1. Reconcile(tracks[d], tracks[d].plan, tracks[d].runtime).completed
               \subseteq tracks[d].completed
        BY <1>0, ReconcileCompletes DEF Track
      <4> DEFINE middle == Reconcile(tracks[d], tracks[d].plan, tracks[d].runtime)
      <4>2. middle \in Track
        BY <1>0, <2>2, <2>3, ReconcileType DEF Track
      <4> HIDE DEF middle
      <4>3. [middle EXCEPT !.waived = {}].completed = middle.completed
        BY <4>2 DEF Track
      <4> QED BY <4>1, <4>3 DEF Ensured, middle
    <3> QED BY <1>1, <3>1, <3>2, <3>3
  <2>4. CASE e # d
    BY <1>1, <2>2, <2>4 DEF EnsureExecution
  <2> QED BY <2>3, <2>4
<1>4. CASE \E e \in Decisions : Prune(e)
  BY <1>0, <1>1, <1>4 DEF Prune, Put, IInv, TracksOK, Gained
<1>5. CASE \E e \in Decisions, t \in Children : BindLinearStage(e, t)
  <2>1. PICK e, t : Put(e, LinearBound(tracks[e], TaskRole[t], t))
    BY <1>5 DEF BindLinearStage
  <2>2. LinearBound(tracks[d], TaskRole[t], t).completed = tracks[d].completed
    BY <1>0 DEF LinearBound, Track
  <2> QED BY <1>1, <2>1, <2>2
<1>6. CASE \E e \in Decisions : \E t \in Children, W \in SUBSET (Decisions \ {e}) :
              BindDebtStage(e, t, W)
  <2>1. PICK c \in Decisions, t \in Children : \E W : BindDebtStage(c, t, W)
    BY <1>6
  <2>2. PICK e, k : Put(e, DebtBound(tracks[e], k, t))
    BY <2>1 DEF BindDebtStage
  <2>3. DebtBound(tracks[d], k, t).completed = tracks[d].completed
    BY <1>0 DEF DebtBound, Track
  <2> QED BY <1>1, <2>2, <2>3
<1>7. ASSUME NEW escalate \in Escalations, NEW composable \in Composable,
             \/ \E e \in Decisions : \E n \in Reported(e) :
                   RecordStageResult(e, n, FALSE, escalate, composable)
             \/ \E s \in Sessions, t \in Children :
                   RecordRetrieval(s, t, FALSE, escalate, composable)
      PROVE  Gained(d) = {}
  <2>1. composable \in BOOLEAN /\ FALSE \in BOOLEAN /\ Children \subseteq Tasks
    BY <1>7, DecisionsAssumption DEF DecisionsAssumption, Tasks
  <2>2. ASSUME NEW e \in Decisions, NEW n \in Reported(e),
               RecordStageResult(e, n, FALSE, escalate, composable)
        PROVE  Gained(d) = {}
    <3>1. \A k \in Gained(d) : FALSE
      BY <2>1, <2>2, StageGains
    <3> QED BY <3>1
  <2>3. ASSUME NEW s \in Sessions, NEW t \in Children,
               RecordRetrieval(s, t, FALSE, escalate, composable)
        PROVE  Gained(d) = {}
    <3>1. \A k \in Gained(d) : FALSE
      BY <2>1, <2>3, RetrievalGains
    <3> QED BY <3>1
  <2> QED BY <1>7, <2>2, <2>3
<1>8. CASE \E s \in Sessions, t \in Children : ReleaseUnresolvable(s, t)
  <2>1. PICK s, t : ReleaseUnresolvable(s, t)
    BY <1>8
  <2>2. PICK S \in SUBSET Live : \E one, jobs :
           tracks' = [e \in Decisions |-> IF e \in S
                                          THEN NotFound(tracks[e], one[e], t, jobs[e])
                                          ELSE tracks[e]]
    BY ONLY <2>1, ReleaseMatched
  <2>3. PICK one, jobs :
           tracks' = [e \in Decisions |-> IF e \in S
                                          THEN NotFound(tracks[e], one[e], t, jobs[e])
                                          ELSE tracks[e]]
    BY <2>2
  <2>4. \A n, job : NotFound(tracks[d], n, t, job).completed = tracks[d].completed
    BY <1>0 DEF NotFound, Track
  <2> QED BY <1>0, <2>3, <2>4 DEF Gained
<1> QED BY <1>2, <1>3, <1>4, <1>5, <1>6, <1>7, <1>8 DEF OtherHooks

-----------------------------------------------------------------------------
(* Theorem *)

LEMMA GainedNames ==
  ASSUME IInv, IInv', NEW d \in Live, NEW k \in Gained(d)
  PROVE  k \in Names /\ Nil \notin Names
<1>1. tracks'[d] \in Track
  BY DEF IInv, TracksOK, Gained, Live
<1> QED BY <1>1, KeysAssumption DEF Gained, Track, Names, Keys, KeysAssumption

\* What was judged of a stage, where the policy is strict
LEMMA Evidence ==
  ASSUME NEW d \in Decisions, NEW k \in Names, judging.ok, Judged(<<d, k>>),
         StrictFor(judging.turn, <<d, k>>)
  PROVE  judging.evidence = <<d, k>> /\ <<d, k>> # Nil
<1>1. k # Nil
  BY KeysAssumption DEF KeysAssumption, Names, Keys
<1>2. <<d, k>> # Unbound /\ <<d, k>> # Nil
  BY <1>1, StrictAssumption DEF StrictAssumption, Unbound
<1> QED BY <1>2 DEF Judged

\* Only runtime evidence for the very stage completes a strict stage, and no
\* child's word alone, for any turns, children and plans and any interleaving of
\* hooks, but for a child that stood for something else when its result was
\* judged (settlement._evidence_seam, task_evidence.decide_completion).
THEOREM OnlyEvidenceProved ==
  ASSUME WellFormedPlans
  PROVE  StrictSpec => OnlyEvidenceCompletes
<1>1. ASSUME StrictInv, StrictInv', StrictNext, NEW d \in Strict \cap Live, SamePlan(d),
             NEW k \in Gained(d)
      PROVE  \/ judging.evidence = <<d, k>>
             \/ judging.call = "retrieval" /\ judging.binding # <<d, k>>
             \/ /\ judging.call = "debt"
                /\ judging.turn \in Strict => judging.evidence # Nil
  <2>0. IInv /\ IInv' /\ ProgressInv /\ JudgedInv /\ d \in Strict /\ d \in Live /\ d \in Decisions
    BY <1>1 DEF StrictInv, Live
  <2>a. k \in Names
    BY <1>1, <2>0, GainedNames
  <2>1. ASSUME NEW turn \in Decisions, NEW success \in BOOLEAN, NEW confirmed \in BOOLEAN,
               \/ \E t \in Children : JudgeRetrieval(turn, t, success, confirmed)
               \/ \E r \in Foreground : JudgeForeground(turn, r, success, confirmed)
        PROVE  FALSE
    <3>1. ASSUME NEW call, NEW of, NEW binding,
                 Judge(call, turn, of, binding, success, confirmed)
          PROVE  FALSE
      BY <1>1, <3>1 DEF Judge, vars, Gained
    <3> QED BY <2>1, <3>1 DEF JudgeRetrieval, JudgeForeground
  <2>2. CASE SettleNothing
    BY <1>1, <2>2 DEF SettleNothing, vars, Gained
  <2>3. CASE OtherHooks
    BY <1>1, <2>0, <2>3, OthersGainNothing
  <2>4. ASSUME NEW escalate \in Escalations, NEW composable \in Composable,
               SettleRetrieval(escalate, composable), judging.binding = <<d, k>>
        PROVE  judging.evidence = <<d, k>>
    <3>1. /\ judging.call = "retrieval" /\ judging.of \in Tasks /\ judging.ok \in BOOLEAN
          /\ Judged(judging.binding)
          /\ composable \in BOOLEAN
          /\ RecordRetrieval(SessionOf[judging.turn], judging.of, judging.ok, escalate, composable)
      BY <2>0, <2>4, DecisionsAssumption DEF SettleRetrieval, JudgedInv, Tasks,
                                             DecisionsAssumption
    <3>2. judging.ok
      BY <1>1, <2>0, <3>1, RetrievalGains
    <3>3. StrictFor(judging.turn, <<d, k>>)
      BY <2>0 DEF StrictFor
    <3> QED BY <2>0, <2>a, <2>4, <3>1, <3>2, <3>3, Evidence
  <2>5. ASSUME NEW escalate \in Escalations, NEW composable \in Composable,
               SettleStage(escalate, composable)
        PROVE  judging.evidence = <<d, k>>
    <3>1. /\ judging.call = "stage" /\ judging.of \in Reported(judging.turn)
          /\ judging.turn \in Decisions /\ judging.ok \in BOOLEAN
          /\ Judged(<<judging.turn, judging.of>>)
          /\ composable \in BOOLEAN
          /\ RecordStageResult(judging.turn, judging.of, judging.ok, escalate, composable)
      BY <1>1, <2>0, <2>5, JudgedStage, DecisionsAssumption
         DEF SettleStage, JudgedInv, DecisionsAssumption
    <3>2. judging.ok /\ judging.turn = d /\ k = judging.of
      BY <1>1, <2>0, <3>1, StageGains
    <3>3. StrictFor(judging.turn, <<d, k>>) /\ Judged(<<d, k>>)
      BY <2>0, <3>1, <3>2 DEF StrictFor
    <3> QED BY <2>0, <2>a, <3>2, <3>3, Evidence
  <2>6. ASSUME NEW escalate \in Escalations, NEW composable \in Composable,
               \E W \in SUBSET (Decisions \ {judging.turn}) : SettleDebt(W, escalate, composable),
               judging.turn \in Strict
        PROVE  judging.evidence # Nil
    <3>1. PICK W \in SUBSET (Decisions \ {judging.turn}) : SettleDebt(W, escalate, composable)
      BY <2>6
    <3>2. /\ judging.of \in Foreground
          /\ judging.turn \in Decisions /\ judging.ok \in BOOLEAN
          /\ Judged(<<judging.turn, judging.of>>)
          /\ composable \in BOOLEAN
          /\ RecordSessionDebtStage(judging.turn, judging.of, W, judging.ok, escalate, composable)
      BY <2>0, <2>6, <3>1, DecisionsAssumption DEF SettleDebt, JudgedInv, DecisionsAssumption
    <3>3. judging.of \in Roles /\ judging.of \in Names
      BY <3>2, StrictAssumption DEF StrictAssumption, Names, Keys
    <3>4. judging.ok
      BY <1>1, <2>0, <3>2, <3>3, DebtGains
    <3>5. StrictFor(judging.turn, <<judging.turn, judging.of>>)
      BY <2>6 DEF StrictFor
    <3> QED BY ONLY <3>2, <3>3, <3>4, <3>5, Evidence
  <2>7. \A escalate \in Escalations, composable \in Composable :
           /\ SettleRetrieval(escalate, composable) => judging.call = "retrieval"
           /\ (\E W \in SUBSET (Decisions \ {judging.turn}) : SettleDebt(W, escalate, composable))
                 => judging.call = "debt"
    BY DEF SettleRetrieval, SettleDebt
  <2> QED BY <1>1, <2>1, <2>2, <2>3, <2>4, <2>5, <2>6, <2>7 DEF StrictNext
<1>2. StrictInv /\ StrictInv' /\ [StrictNext]_strictVars =>
        [\A d \in Strict \cap Live : SamePlan(d) =>
           \A k \in tracks'[d].completed \ tracks[d].completed :
              \/ judging.evidence = <<d, k>>
              \/ judging.call = "retrieval" /\ judging.binding # <<d, k>>
              \/ /\ judging.call = "debt"
                 /\ judging.turn \in Strict => judging.evidence # Nil]_strictVars
  BY <1>1 DEF Gained, SamePlan
<1> QED BY <1>2, StrictInductive, PTL DEF StrictSpec, OnlyEvidenceCompletes
=============================================================================

--------------------------- MODULE ProgressProofs ---------------------------
(***************************************************************************)
(* What a track has achieved is kept, and a child works for one stage:     *)
(* theorems of Transactions.tla.                                           *)
(*                                                                         *)
(* First, about completed stages, for plans that are well formed.  A       *)
(* transaction moves a track in one of few ways (Moves), and every way but *)
(* a recomposition advances it (Advances); each update of TrackUpdates.tla *)
(* has a lemma that says so.                                               *)
(*                                                                         *)
(* Then, about bindings, for plans in which a role plays one part.  Every  *)
(* name a child is bound to stands for the child's role, and it is one     *)
(* name at most (Correlated).  A transaction touches at most one name of a *)
(* track (Touches), or none (Steady); where it binds a child, it looked    *)
(* for the child everywhere it could be bound.                             *)
(***************************************************************************)
EXTENDS TransactionsProofs

-----------------------------------------------------------------------------
(* Reconciliation between well-formed stage tuples *)

\* Evidence is filed under the keys of a stage of the same slot and kind.
Inherits(c, n, st, k) ==
    /\ k \in Range(st.keys) /\ n \in Range(c.keys)
    /\ c.slot = st.slot /\ c.kind = st.kind
    /\ c.kind = "parallel_spawn" => n = k
    /\ c.kind # "parallel_spawn" => Range(st.keys) = {Key(st)}

LEMMA MigratedFrom ==
  ASSUME NEW old \in Seq(Stage), NEW new \in Seq(Stage), NEW k, NEW n \in Migrated(old, new, k)
  PROVE  \E c \in Range(new), st \in Range(old) : Inherits(c, n, st, k)
<1>0. Range(old) \subseteq Stage /\ Range(new) \subseteq Stage
  BY LenProperties DEF Range
<1>1. PICK c \in Heirs(old, new, k) : IF c.kind = "parallel_spawn"
                                      THEN n = k /\ k \in Range(c.keys) ELSE n = Key(c)
  BY DEF Migrated
<1>2. PICK st \in Range(old) : /\ k \in Range(st.keys) /\ c \in Range(new)
                               /\ c.slot = st.slot /\ c.kind = st.kind
  BY DEF Heirs
<1>3. /\ Key(c) \in Range(c.keys)
      /\ st.kind # "parallel_spawn" => Range(st.keys) = {Key(st)}
  BY <1>0, <1>2, StageKeys
<1> QED BY <1>1, <1>2, <1>3 DEF Inherits

\* The one new name of a key whose stage has a counterpart.
LEMMA MigratedToHeir ==
  ASSUME NEW old \in Seq(Stage), NEW new \in Seq(Stage),
         Distinct(Range(old)), Distinct(Range(new)),
         NEW st \in Range(old), NEW c \in Range(new), c.slot = st.slot, c.kind = st.kind,
         NEW k \in Range(st.keys)
  PROVE  Migrated(old, new, k) = IF c.kind = "parallel_spawn" THEN {k} \cap Range(c.keys)
                                 ELSE {Key(c)}
<1>1. Range(old) \subseteq Stage /\ Range(new) \subseteq Stage
  BY LenProperties DEF Range
<1>2. {o \in Range(old) : k \in Range(o.keys)} = {st}
  BY DEF Distinct
<1>3. {h \in Range(new) : h.slot = st.slot /\ h.kind = st.kind} = {c}
  BY DEF Distinct
<1>4. Heirs(old, new, k) = {c}
  BY <1>2, <1>3 DEF Heirs
<1>5. k \in Names /\ Key(c) \in Names
  BY <1>1, KeyKinds, StageKeys
<1> QED BY <1>4, <1>5 DEF Migrated

\* The name of a key comes from that key alone, and a stage that both tuples
\* hold keeps the names of its keys.
LEMMA MigratedOnce ==
  ASSUME NEW old \in Seq(Stage), NEW new \in Seq(Stage),
         Distinct(Range(old)), Distinct(Range(new))
  PROVE  /\ \A k1, k2 : Migrated(old, new, k1) \cap Migrated(old, new, k2) # {} => k1 = k2
         /\ \A st \in Range(old) \cap Range(new) : \A k \in Range(st.keys) :
               Migrated(old, new, k) = {k}
<1>1. Range(old) \subseteq Stage
  BY LenProperties DEF Range
<1>2. ASSUME NEW k1, NEW k2, NEW n, n \in Migrated(old, new, k1), n \in Migrated(old, new, k2)
      PROVE  k1 = k2
  <2>1. PICK c1 \in Range(new), s1 \in Range(old) : Inherits(c1, n, s1, k1)
    BY <1>2, MigratedFrom
  <2>2. PICK c2 \in Range(new), s2 \in Range(old) : Inherits(c2, n, s2, k2)
    BY <1>2, MigratedFrom
  <2>3. c1 = c2
    BY <2>1, <2>2 DEF Distinct, Inherits
  <2>4. s1 = s2
    BY <2>1, <2>2, <2>3 DEF Distinct, Inherits
  <2> QED BY <2>1, <2>2, <2>3, <2>4 DEF Inherits
<1>3. ASSUME NEW st \in Range(old), st \in Range(new), NEW k \in Range(st.keys)
      PROVE  Migrated(old, new, k) = {k}
  <2>1. st.kind # "parallel_spawn" => k = Key(st)
    BY <1>1, <1>3, StageKeys
  <2> QED BY <1>3, <2>1, MigratedToHeir
<1> QED BY <1>2, <1>3

\* The plans of a track are well formed with the stages added at run time.
LEMMA WellFormedStages ==
  ASSUME WellFormedPlans, NEW d \in Decisions, NEW plan \in Plans[d], NEW runtime \in Runtimes
  PROVE  LET stages == plan \o RuntimeStages(runtime)
         IN  /\ plan \in Seq(Stage) /\ stages \in Seq(Stage)
             /\ Range(stages) = Range(plan) \cup Range(RuntimeStages(runtime))
             /\ Distinct(Range(stages))
             /\ \A st \in Range(stages) :
                   SentinelRole \in Range(st.keys) => st = SentinelStage
             /\ \A st \in Range(stages) : st.slot = "consilium" <=> st \notin Range(plan)
<1> DEFINE stages == plan \o RuntimeStages(runtime)
<1>1. plan \in Seq(Stage) /\ RuntimeStages(runtime) \in Seq(Stage)
  BY DecisionsAssumption, RuntimeStageTypes DEF DecisionsAssumption
<1>2. stages \in Seq(Stage) /\ Range(stages) = Range(plan) \cup Range(RuntimeStages(runtime))
  BY <1>1, ConcatProperties, RangeConcatenation
<1>3. /\ Range(ConsiliumStage.keys) = Range(ConsiliumKeys)
      /\ Range(SentinelStage.keys) = {SentinelRole}
      /\ ConsiliumStage.slot = "consilium" /\ SentinelStage.slot = "consilium"
  BY DEF ConsiliumStage, SentinelStage, Range
<1>4. SentinelRole \notin Range(ConsiliumKeys)
  <2>1. Range(ConsiliumKeys) \subseteq MemberKeys
    BY KeysAssumption DEF KeysAssumption, Range
  <2> QED BY <2>1, KeysAssumption DEF KeysAssumption
<1>5. \/ Range(RuntimeStages(runtime)) = {}
      \/ Range(RuntimeStages(runtime)) = {ConsiliumStage}
      \/ Range(RuntimeStages(runtime)) = {SentinelStage}
  BY DEF RuntimeStages, Runtimes, Range
<1>6. /\ Distinct(Range(plan))
      /\ \A st \in Range(plan) :
            /\ st.slot # "consilium"
            /\ Range(st.keys) \cap (Range(ConsiliumKeys) \cup {SentinelRole}) = {}
  BY DEF WellFormedPlans
<1> HIDE DEF stages
<1>7. Distinct(Range(stages))
  BY <1>2, <1>3, <1>5, <1>6 DEF Distinct
<1>8. \A st \in Range(stages) : SentinelRole \in Range(st.keys) => st = SentinelStage
  BY <1>2, <1>3, <1>4, <1>5, <1>6
<1>9. \A st \in Range(stages) : st.slot = "consilium" <=> st \notin Range(plan)
  BY <1>2, <1>3, <1>5, <1>6
<1> QED BY <1>1, <1>2, <1>7, <1>8, <1>9 DEF stages

-----------------------------------------------------------------------------
(* What an update keeps *)

\* Nobody runs as the sentinel, so nothing is ever recorded of it but failures.
SentinelIdle(tr) ==
    /\ SentinelRole \notin tr.requested \cup tr.completed
    /\ tr.memberTasks[SentinelRole] = Nil
    /\ tr.stageTasks[SentinelRole] = Nil
    /\ \A t \in Tasks : tr.terminalTasks[t] # SentinelRole

Good(tr) ==
    /\ \A k \in tr.completed : tr.repairFailures[k] = 0
    /\ tr.waived \subseteq tr.inconclusive
    /\ SentinelIdle(tr)

Fit(d, tr) == tr \in Track /\ tr.plan \in Plans[d] /\ Good(tr)

Advances(old, new) ==
    /\ new.plan = old.plan
    /\ old.completed \cap SpawnKeys(old) \subseteq new.completed
    /\ old.inconclusive \subseteq new.inconclusive
    /\ Good(new)

LEMMA SentinelKey == SentinelRole \in Roles /\ SentinelRole \in Keys /\ SentinelRole \notin MemberKeys
  BY KeysAssumption DEF KeysAssumption, Keys

LEMMA NewTrackGood ==
  ASSUME NEW plan
  PROVE  Good(NewTrack(plan)) /\ NewTrack(plan).plan = plan
<1>1. Nil # SentinelRole
  BY KeysAssumption, SentinelKey DEF KeysAssumption, Names
<1> QED BY <1>1, SentinelKey DEF Good, SentinelIdle, NewTrack

LEMMA ReconcileGood ==
  ASSUME WellFormedPlans, NEW d \in Decisions, NEW tr, Fit(d, tr),
         NEW plan \in Plans[d], NEW runtime \in Runtimes
  PROVE  LET after == Reconcile(tr, plan, runtime)
         IN  /\ Good(after) /\ after.plan = plan /\ after.inconclusive = tr.inconclusive
             /\ plan = tr.plan /\ (tr.runtime = "consilium" => runtime = "consilium")
                  => Advances(tr, after)
<1> DEFINE old == Stages(tr)
           new == plan \o RuntimeStages(runtime)
           source(n) == {k \in Keys : n \in Migrated(old, new, k)}
           pick(S, default) == IF S = {} THEN default ELSE CHOOSE v \in S : TRUE
           after == Reconcile(tr, plan, runtime)
<1>1. /\ tr \in Track /\ tr.plan \in Plans[d] /\ Good(tr) /\ tr.runtime \in Runtimes
      /\ tr.completed \subseteq Keys /\ tr.requested \subseteq Keys
      /\ tr.terminalTasks \in [Tasks -> Keys \cup {Nil}]
  BY DEF Fit, Track
<1>2. /\ old \in Seq(Stage) /\ new \in Seq(Stage)
      /\ Distinct(Range(old)) /\ Distinct(Range(new))
      /\ \A st \in Range(old) \cup Range(new) :
            SentinelRole \in Range(st.keys) => st = SentinelStage
      /\ \A st \in Range(old) : st.slot = "consilium" <=> st \notin Range(tr.plan)
      /\ Range(old) = Range(tr.plan) \cup Range(RuntimeStages(tr.runtime))
      /\ Range(new) = Range(plan) \cup Range(RuntimeStages(runtime))
  BY <1>1, WellFormedStages DEF Stages
<1>3. /\ after.completed = UNION {Migrated(old, new, k) : k \in tr.completed}
      /\ after.requested = UNION {Migrated(old, new, k) : k \in tr.requested}
      /\ after.plan = plan
      /\ after.waived = tr.waived /\ after.inconclusive = tr.inconclusive
      /\ \A n \in Keys :
            /\ after.repairFailures[n] = pick({tr.repairFailures[k] : k \in source(n)} \ {0}, 0)
            /\ after.memberTasks[n] = pick({tr.memberTasks[k] : k \in source(n)} \ {Nil}, Nil)
            /\ after.stageTasks[n] = pick({tr.stageTasks[k] : k \in source(n)} \ {Nil}, Nil)
      /\ \A t \in Tasks : after.terminalTasks[t] =
            IF tr.terminalTasks[t] = Nil THEN Nil
            ELSE pick(Migrated(old, new, tr.terminalTasks[t]), Nil)
  BY <1>1 DEF Reconcile, Track
<1> HIDE DEF old, new, after
<1>4. /\ \A k1, k2 : Migrated(old, new, k1) \cap Migrated(old, new, k2) # {} => k1 = k2
      /\ \A st \in Range(old) \cap Range(new) : \A k \in Range(st.keys) :
            Migrated(old, new, k) = {k}
      /\ \A k \in Keys : Migrated(old, new, k) \subseteq Keys
  BY <1>2, MigratedOnce, MigratedType
<1>5. ASSUME NEW k, SentinelRole \in Migrated(old, new, k)
      PROVE  k = SentinelRole
  <2>1. PICK c \in Heirs(old, new, k) :
           IF c.kind = "parallel_spawn" THEN SentinelRole = k ELSE SentinelRole = Key(c)
    BY <1>5 DEF Migrated
  <2>2. PICK st \in Range(old) : /\ k \in Range(st.keys) /\ c \in Range(new)
                                 /\ c.slot = st.slot /\ c.kind = st.kind
    BY DEF Heirs
  <2>3. CASE c.kind # "parallel_spawn"
    <3>1. c \in Stage
      BY <1>2, <2>2 DEF Range
    <3>2. c = SentinelStage
      BY <1>2, <2>1, <2>2, <2>3, <3>1, StageKeys
    <3>3. st \in Range(RuntimeStages(tr.runtime))
      BY <1>2, <2>2, <3>2 DEF SentinelStage
    <3>4. st = SentinelStage
      BY <1>1, <2>2, <3>2, <3>3 DEF RuntimeStages, Runtimes, Range, ConsiliumStage, SentinelStage
    <3> QED BY <2>2, <3>4 DEF SentinelStage, Range
  <2> QED BY <2>1, <2>3
<1>6. \A n \in after.completed : after.repairFailures[n] = 0
  <2>1. SUFFICES ASSUME NEW n \in after.completed
                 PROVE  after.repairFailures[n] = 0
    OBVIOUS
  <2>2. PICK k \in tr.completed : n \in Migrated(old, new, k)
    BY <1>3
  <2>3. k \in Keys /\ n \in Keys
    BY <1>1, <1>4, <2>2
  <2>4. source(n) = {k}
    BY <1>4, <2>2, <2>3
  <2>5. tr.repairFailures[k] = 0
    BY <1>1, <2>2 DEF Good
  <2>6. {tr.repairFailures[j] : j \in source(n)} \ {0} = {}
    BY <2>4, <2>5
  <2> QED BY <1>3, <2>3, <2>6
<1>7. SentinelIdle(after)
  <2>1. /\ SentinelRole \notin tr.requested \cup tr.completed
        /\ tr.memberTasks[SentinelRole] = Nil /\ tr.stageTasks[SentinelRole] = Nil
        /\ \A t \in Tasks : tr.terminalTasks[t] # SentinelRole
    BY <1>1 DEF Good, SentinelIdle
  <2>2. SentinelRole \notin after.requested \cup after.completed
    BY <1>3, <1>5, <2>1
  <2>3. source(SentinelRole) \subseteq {SentinelRole}
    BY <1>5
  <2>4. /\ {tr.memberTasks[k] : k \in source(SentinelRole)} \ {Nil} = {}
        /\ {tr.stageTasks[k] : k \in source(SentinelRole)} \ {Nil} = {}
    BY <2>1, <2>3
  <2>5. after.memberTasks[SentinelRole] = Nil /\ after.stageTasks[SentinelRole] = Nil
    BY <1>3, <2>4, SentinelKey
  <2>6. ASSUME NEW t \in Tasks
        PROVE  after.terminalTasks[t] # SentinelRole
    <3>1. Nil # SentinelRole
      BY KeysAssumption, SentinelKey DEF KeysAssumption, Names
    <3>2. SentinelRole \notin Migrated(old, new, tr.terminalTasks[t])
      BY <1>5, <2>1
    <3>3. pick(Migrated(old, new, tr.terminalTasks[t]), Nil) # SentinelRole
      BY <3>1, <3>2
    <3> HIDE DEF pick
    <3> QED BY <1>3, <3>1, <3>3
  <2> QED BY <2>2, <2>5, <2>6 DEF SentinelIdle
<1>8. Good(after)
  BY <1>1, <1>3, <1>6, <1>7 DEF Good
<1>9. ASSUME plan = tr.plan, tr.runtime = "consilium" => runtime = "consilium"
      PROVE  tr.completed \cap SpawnKeys(tr) \subseteq after.completed
  <2>1. SUFFICES ASSUME NEW k \in tr.completed, NEW st \in Range(old), k \in Range(st.keys)
                 PROVE  k \in after.completed
    BY DEF SpawnKeys, KeysOf, old
  <2>2. st # SentinelStage
    BY <1>1, <2>1 DEF Good, SentinelIdle, SentinelStage, Range
  <2>3. st \in Range(new)
    <3>1. CASE st \in Range(tr.plan)
      BY <1>2, <1>9, <3>1
    <3>2. CASE st \in Range(RuntimeStages(tr.runtime))
      <4>1. tr.runtime = "consilium"
        BY <1>1, <2>2, <3>2 DEF RuntimeStages, Runtimes, Range
      <4> QED BY <1>2, <1>9, <3>2, <4>1
    <3> QED BY <1>2, <2>1, <3>1, <3>2
  <2>4. Migrated(old, new, k) = {k}
    BY <1>4, <2>1, <2>3
  <2> QED BY <1>3, <2>1, <2>4
<1> QED BY <1>3, <1>8, <1>9 DEF Advances, after

\* A failure counts only against a stage that is not completed, and a stage that
\* completes is forgiven its failures.
LEMMA RepairResultAdvances ==
  ASSUME WellFormedPlans, NEW d \in Decisions, NEW tr, Fit(d, tr),
         NEW k \in Keys \ {SentinelRole}, NEW ok \in BOOLEAN, NEW composable \in BOOLEAN,
         ok \/ k \notin tr.completed
  PROVE  LET after == RepairResult(tr, k, ok, composable)
         IN  /\ Advances(tr, after) /\ after \in Track
             /\ ok => after.repairFailures[k] = 0
<1> DEFINE count == IF tr.repairFailures[k] < RepairThreshold
                    THEN tr.repairFailures[k] + 1 ELSE RepairThreshold
           counted == [tr EXCEPT !.repairFailures[k] = IF ok THEN 0 ELSE count]
           after == RepairResult(tr, k, ok, composable)
<1>1. tr \in Track /\ tr.plan \in Plans[d] /\ Good(tr) /\ tr.runtime \in Runtimes
  BY DEF Fit, Track
<1>2. counted \in Track
  <2>1. (IF ok THEN 0 ELSE count) \in 0..RepairThreshold
    BY <1>1, KeysAssumption DEF Track, KeysAssumption
  <2> QED BY <1>1, <2>1 DEF Track
<1>3. /\ counted.plan = tr.plan /\ counted.runtime = tr.runtime
      /\ counted.completed = tr.completed /\ counted.inconclusive = tr.inconclusive
      /\ ok => counted.repairFailures[k] = 0
  BY <1>1 DEF Track
<1>4. Good(counted)
  <2> HIDE DEF count
  <2> QED BY <1>1 DEF Good, SentinelIdle, Track
<1>5. after \in {counted, Reconcile(counted, tr.plan, "consilium"),
                 [counted EXCEPT !.runtime = "unavailable"]}
      /\ (ok => after = counted)
      /\ after \in Track
  BY <1>1, RepairResultSound DEF RepairResult, Sound
<1> HIDE DEF counted, after
<1>6. SpawnKeys(tr) = SpawnKeys(counted) /\ Fit(d, counted)
  BY <1>1, <1>2, <1>3, <1>4 DEF SpawnKeys, Stages, Fit
<1>7. CASE after = counted
  BY <1>3, <1>4, <1>5, <1>7 DEF Advances, after
<1>8. CASE after = Reconcile(counted, tr.plan, "consilium") /\ ~ok
  <2>1. Advances(counted, after)
    BY <1>1, <1>3, <1>6, <1>8, ReconcileGood DEF Runtimes
  <2> QED BY <1>3, <1>5, <1>6, <1>8, <2>1 DEF Advances, after
<1>9. CASE after = [counted EXCEPT !.runtime = "unavailable"] /\ ~ok
  <2>1. /\ after.plan = tr.plan /\ after.completed = tr.completed
        /\ after.inconclusive = tr.inconclusive
    BY <1>2, <1>3, <1>9 DEF Track
  <2>2. Good(after)
    BY <1>2, <1>4, <1>9 DEF Good, SentinelIdle, Track
  <2> QED BY <1>5, <1>9, <2>1, <2>2 DEF Advances, after
<1> QED BY <1>5, <1>7, <1>8, <1>9

LEMMA CountedAdvances ==
  ASSUME WellFormedPlans, NEW d \in Decisions, NEW tr, Fit(d, tr),
         NEW k \in Keys \ {SentinelRole}, NEW ok \in BOOLEAN, NEW composable \in BOOLEAN,
         NEW reopen \in BOOLEAN, ok \/ k \notin tr.completed
  PROVE  Advances(tr, ApplyStageResult(RepairResult(tr, k, ok, composable), k, ok, reopen))
<1> DEFINE mid == RepairResult(tr, k, ok, composable)
           after == ApplyStageResult(mid, k, ok, reopen)
<1>1. Advances(tr, mid) /\ mid \in Track /\ (ok => mid.repairFailures[k] = 0)
  BY RepairResultAdvances
<1> HIDE DEF mid
<1>2. /\ after.plan = mid.plan /\ after.inconclusive = mid.inconclusive
      /\ mid.completed \ {k} \subseteq after.completed
      /\ ok => k \in after.completed
  BY <1>1 DEF ApplyStageResult, Track
<1>3. Good(after)
  <2>1. Good(mid) /\ Nil # SentinelRole
    BY <1>1, KeysAssumption, SentinelKey DEF Advances, KeysAssumption, Names
  <2>2. CASE ok
    BY <1>1, <2>1, <2>2 DEF ApplyStageResult, Good, SentinelIdle, Track
  <2>3. CASE ~ok
    <3>1. /\ after.completed \subseteq mid.completed /\ after.requested \subseteq mid.requested
          /\ after.waived = mid.waived /\ after.inconclusive = mid.inconclusive
          /\ after.repairFailures = mid.repairFailures
          /\ after.stageTasks = mid.stageTasks /\ after.terminalTasks = mid.terminalTasks
          /\ after.memberTasks[SentinelRole] = mid.memberTasks[SentinelRole]
      BY <1>1, <2>3 DEF ApplyStageResult, Track
    <3> HIDE DEF after
    <3> QED BY <2>1, <3>1 DEF Good, SentinelIdle
  <2> QED BY <2>2, <2>3
<1> HIDE DEF after
<1>4. tr.completed \cap SpawnKeys(tr) \subseteq after.completed
  BY <1>1, <1>2 DEF Advances
<1>5. Advances(tr, after)
  BY <1>1, <1>2, <1>3, <1>4 DEF Advances
<1> QED BY <1>5 DEF after, mid

\* Clearing bindings and streaks changes nothing that was achieved.
Cleared(old, new) ==
    /\ new.completed = old.completed /\ new.inconclusive = old.inconclusive
    /\ new.plan = old.plan /\ new.runtime = old.runtime
    /\ new.waived = old.waived /\ new.repairFailures = old.repairFailures
    /\ new.requested = old.requested /\ new.memberTasks = old.memberTasks
    /\ \A k \in Keys : new.stageTasks[k] \in {old.stageTasks[k], Nil}
    /\ \A t \in Tasks : new.terminalTasks[t] \in {old.terminalTasks[t], Nil}

LEMMA ClearedAdvances ==
  ASSUME NEW d \in Decisions, NEW tr, Fit(d, tr), NEW after \in Track, Cleared(tr, after)
  PROVE  Advances(tr, after) /\ Fit(d, after) /\ SpawnKeys(after) = SpawnKeys(tr)
<1>1. tr \in Track /\ tr.plan \in Plans[d] /\ Good(tr) /\ Nil # SentinelRole
  BY KeysAssumption, SentinelKey DEF Fit, KeysAssumption, Names
<1>2. Good(after)
  BY <1>1, SentinelKey DEF Good, SentinelIdle, Cleared
<1> QED BY <1>1, <1>2 DEF Advances, Fit, SpawnKeys, Stages, Cleared

LEMMA ResultAdvances ==
  ASSUME WellFormedPlans, NEW d \in Decisions, NEW tr, Fit(d, tr),
         NEW k \in Keys \ {SentinelRole}, NEW ok \in BOOLEAN, NEW composable \in BOOLEAN
  PROVE  /\ ok \/ k \notin tr.completed => Advances(tr, Recorded(tr, k, ok, composable))
         /\ Advances(tr, StageResult(tr, k, ok, composable))
         /\ \A t \in Tasks : Advances(tr, SettledRetrieval(tr, k, t, ok, composable))
<1>1. tr \in Track /\ Good(tr)
  BY DEF Fit
<1>2. ASSUME NEW after, Fit(d, after), SpawnKeys(after) = SpawnKeys(tr),
             after.completed = tr.completed, after.inconclusive = tr.inconclusive,
             after.plan = tr.plan, NEW reopen \in BOOLEAN, ok \/ k \notin tr.completed
      PROVE  Advances(tr, ApplyStageResult(RepairResult(after, k, ok, composable), k, ok, reopen))
  <2>1. Advances(after, ApplyStageResult(RepairResult(after, k, ok, composable), k, ok, reopen))
    BY <1>2, CountedAdvances
  <2> QED BY <1>2, <2>1 DEF Advances
<1>3. ASSUME ok \/ k \notin tr.completed
      PROVE  Advances(tr, Recorded(tr, k, ok, composable))
  <2> DEFINE cleared == [tr EXCEPT !.stageTasks[ActualRole(tr, k)] = Nil]
  <2>1. cleared \in Track /\ Cleared(tr, cleared)
    BY <1>1 DEF Track, Cleared
  <2> HIDE DEF cleared
  <2>2. Fit(d, cleared) /\ SpawnKeys(cleared) = SpawnKeys(tr)
    BY <2>1, ClearedAdvances
  <2>3. Advances(tr, ApplyStageResult(RepairResult(cleared, k, ok, composable), k, ok, TRUE))
    BY <1>2, <1>3, <2>1, <2>2 DEF Cleared
  <2> QED BY <2>3 DEF Recorded, cleared
<1>4. ASSUME NEW t \in Tasks
      PROVE  Advances(tr, SettledRetrieval(tr, k, t, ok, composable))
  <2> DEFINE ended == [tr EXCEPT !.notFound[k] = Nil, !.terminalTasks[t] = Nil]
             cleared == [tr EXCEPT !.notFound[k] = Nil,
                                   !.stageTasks[ActualRole(tr, k)] = Nil,
                                   !.terminalTasks[t] = Nil]
  <2>1. k \in Names
    BY DEF Names
  <2>2. ended \in Track /\ Cleared(tr, ended)
    BY <1>1, <2>1 DEF Track, Cleared
  <2>3. cleared \in Track /\ Cleared(tr, cleared)
    <3>1. cleared \in Track
      BY <1>1, <2>1 DEF Track
    <3>2. /\ \A j \in Keys : cleared.stageTasks[j] \in {tr.stageTasks[j], Nil}
          /\ \A u \in Tasks : cleared.terminalTasks[u] \in {tr.terminalTasks[u], Nil}
      BY <1>1 DEF Track
    <3> QED BY <3>1, <3>2 DEF Cleared
  <2> HIDE DEF ended, cleared
  <2>4. CASE k \in tr.completed
    BY <2>2, <2>4, ClearedAdvances DEF SettledRetrieval, ended
  <2>5. CASE k \notin tr.completed
    <3>1. Fit(d, cleared) /\ SpawnKeys(cleared) = SpawnKeys(tr)
      BY <2>3, ClearedAdvances
    <3>2. Advances(tr, ApplyStageResult(RepairResult(cleared, k, ok, composable), k, ok, FALSE))
      BY <1>2, <2>3, <2>5, <3>1 DEF Cleared
    <3> QED BY <2>5, <3>2 DEF SettledRetrieval, cleared
  <2> QED BY <2>4, <2>5
<1>5. Advances(tr, tr)
  BY <1>1 DEF Advances
<1> QED BY <1>3, <1>4, <1>5 DEF StageResult

-----------------------------------------------------------------------------
(* The updates that settle nothing *)

Plain(old, new) ==
    /\ new.plan = old.plan
    /\ new.completed = old.completed
    /\ new.repairFailures = old.repairFailures
    /\ old.inconclusive \subseteq new.inconclusive
    /\ new.waived \subseteq old.waived \cup new.inconclusive
    /\ SentinelIdle(old) => SentinelIdle(new)

LEMMA PlainAdvances ==
  ASSUME NEW d \in Decisions, NEW tr, Fit(d, tr), NEW after, Plain(tr, after)
  PROVE  Advances(tr, after)
  BY DEF Fit, Plain, Advances, Good

\* Asking for a stage or a member, and binding a child or a command to it.
LEMMA BoundPlain ==
  ASSUME NEW tr \in Track, NEW k \in Keys \ {SentinelRole}, NEW t \in Tasks
  PROVE  /\ Plain(tr, Requested(tr, k))
         /\ Plain(tr, [tr EXCEPT !.requested = @ \cup {k}])
         /\ Plain(tr, [tr EXCEPT !.memberTasks[k] = t])
         /\ Plain(tr, [tr EXCEPT !.stageTasks[k] = t])
         /\ Plain(tr, [tr EXCEPT !.terminalTasks[t] = k])
         /\ Plain(tr, DebtBound(tr, k, t))
<1>1. /\ Plain(tr, Requested(tr, k))
      /\ Plain(tr, [tr EXCEPT !.requested = @ \cup {k}])
  BY DEF Plain, SentinelIdle, Requested, Track
<1>2. /\ Plain(tr, [tr EXCEPT !.memberTasks[k] = t])
      /\ Plain(tr, [tr EXCEPT !.stageTasks[k] = t])
  BY SentinelKey DEF Plain, SentinelIdle, Track
<1>3. Plain(tr, [tr EXCEPT !.terminalTasks[t] = k])
  BY DEF Plain, SentinelIdle, Track
<1>4. Plain(tr, [tr EXCEPT !.requested = @ \cup {k}, !.memberTasks[k] = t])
  BY SentinelKey DEF Plain, SentinelIdle, Track
<1> QED BY <1>1, <1>2, <1>3, <1>4 DEF DebtBound

LEMMA MemberBoundPlain ==
  ASSUME NEW tr \in Track, NEW r, NEW t \in Tasks
  PROVE  Plain(tr, MemberBound(tr, r, t))
<1> DEFINE k == FirstBindable(tr, r)
<1>1. CASE MemberBound(tr, r, t) = tr
  BY <1>1 DEF Plain
<1>2. CASE BindableMembers(tr, r) # {} /\ MemberBound(tr, r, t) = [tr EXCEPT !.memberTasks[k] = t]
  <2>1. k \in Keys \ {SentinelRole}
    BY <1>2, FirstBindableMember, SentinelKey DEF Keys
  <2> HIDE DEF k
  <2>2. Plain(tr, [tr EXCEPT !.memberTasks[k] = t])
    BY <2>1, BoundPlain
  <2> QED BY <1>2, <2>2
<1> QED BY <1>1, <1>2 DEF MemberBound

\* What is recorded of verify steps and of Stop.
LEMMA VerifyPlain ==
  ASSUME NEW tr \in Track, NEW t \in Tasks, NEW s, NEW ok \in BOOLEAN, NEW n
  PROVE  /\ Plain(tr, VerifierSettled(tr, t, ok))
         /\ Plain(tr, VerifyRecorded(tr, s, ok))
         /\ Plain(tr, [tr EXCEPT !.verifyTasks[t] = s])
         /\ Plain(tr, [tr EXCEPT !.verified = n])
         /\ Plain(tr, [tr EXCEPT !.stopBlocks = n])
  BY DEF Plain, SentinelIdle, VerifierSettled, VerifyRecorded, Track

LEMMA UnparkedPlain ==
  ASSUME NEW tr \in Track, NEW t \in Tasks
  PROVE  Plain(tr, [tr EXCEPT !.terminalTasks[t] = Nil])
<1>1. Nil # SentinelRole
  BY KeysAssumption, SentinelKey DEF KeysAssumption, Names
<1> QED BY <1>1 DEF Plain, SentinelIdle, Track

LEMMA DischargedPlain ==
  ASSUME NEW tr \in Track, NEW k \in Keys, NEW t \in Tasks
  PROVE  Plain(tr, Discharged(tr, k, t))
<1> DEFINE after == Discharged(tr, k, t)
<1>1. /\ after.plan = tr.plan /\ after.completed = tr.completed
      /\ after.repairFailures = tr.repairFailures
      /\ after.waived = tr.waived \cup {k} /\ after.inconclusive = tr.inconclusive \cup {k}
      /\ after.requested = tr.requested \ {k}
  BY DEF Discharged, Track
<1>2. /\ after.memberTasks[SentinelRole] \in {tr.memberTasks[SentinelRole], Nil}
      /\ after.stageTasks[SentinelRole] \in {tr.stageTasks[SentinelRole], Nil}
      /\ \A u \in Tasks : after.terminalTasks[u] \in {tr.terminalTasks[u], Nil}
  BY SentinelKey DEF Discharged, Track
<1>3. Nil # SentinelRole
  BY KeysAssumption, SentinelKey DEF KeysAssumption, Names
<1> HIDE DEF after
<1>4. Plain(tr, after)
  BY <1>1, <1>2, <1>3 DEF Plain, SentinelIdle
<1> QED BY <1>4 DEF after

\* A child that is bound is not bound to the sentinel.
LEMMA NotTheSentinel ==
  ASSUME NEW tr \in Track, SentinelIdle(tr), NEW t \in Tasks
  PROVE  SentinelRole \notin BoundNames(tr, t)
<1>1. Nil \notin Tasks /\ SentinelRole \notin Steps
  BY KeysAssumption, SentinelKey DEF KeysAssumption
<1> QED BY <1>1 DEF BoundNames, SentinelIdle

LEMMA NotFoundPlain ==
  ASSUME NEW tr \in Track, NEW n \in Names, n # SentinelRole, NEW t \in Tasks, NEW job
  PROVE  Plain(tr, NotFound(tr, n, t, job))
<1> DEFINE after == NotFound(tr, n, t, job)
<1>1. /\ after.plan = tr.plan /\ after.completed = tr.completed
      /\ after.repairFailures = tr.repairFailures
      /\ after.waived = tr.waived /\ after.inconclusive = tr.inconclusive
      /\ after.requested \subseteq tr.requested
  BY DEF NotFound, Track
<1>2. /\ after.memberTasks[SentinelRole] = tr.memberTasks[SentinelRole]
      /\ after.stageTasks[SentinelRole] = tr.stageTasks[SentinelRole]
      /\ \A u \in Tasks : after.terminalTasks[u] \in {tr.terminalTasks[u], n}
  BY SentinelKey DEF NotFound, Track
<1> HIDE DEF after
<1>3. Plain(tr, after)
  BY <1>1, <1>2 DEF Plain, SentinelIdle
<1> QED BY <1>3 DEF after

-----------------------------------------------------------------------------
(* What one transaction does to each track *)

Moves(d) ==
    \/ tracks'[d] = tracks[d]
    \/ tracks'[d] = Nil
    \/ tracks[d] = Nil /\ \E plan \in Plans[d] : tracks'[d] = NewTrack(plan)
    \/ d \in Live /\ \E plan \in Plans[d] : tracks'[d] = Ensured(tracks[d], plan)
    \/ d \in Live /\ Advances(tracks[d], tracks'[d])

ProgressInv == \A d \in Live : Fit(d, tracks[d])

LEMMA FitTrack ==
  ASSUME IInv, ProgressInv, NEW d \in Live
  PROVE  /\ d \in Decisions /\ Fit(d, tracks[d]) /\ tracks[d] \in Track
         /\ SentinelIdle(tracks[d])
         /\ \A t \in Tasks : SentinelRole \notin BoundNames(tracks[d], t)
<1>1. d \in Decisions /\ Fit(d, tracks[d]) /\ tracks[d] \in Track /\ SentinelIdle(tracks[d])
  BY LiveTrack DEF ProgressInv, Fit, Good
<1> QED BY <1>1, NotTheSentinel

LEMMA PutMoves ==
  ASSUME IInv, NEW d \in Live, NEW tr, Put(d, tr), Advances(tracks[d], tr)
  PROVE  \A e \in Decisions : Moves(e)
  BY LiveTrack DEF Put, Moves, IInv, TracksOK

LEMMA PlainMoves ==
  ASSUME IInv, ProgressInv, NEW d \in Live, NEW tr, Put(d, tr), Plain(tracks[d], tr)
  PROVE  \A e \in Decisions : Moves(e)
  BY FitTrack, PlainAdvances, PutMoves

LEMMA AllMove ==
  ASSUME IInv, ProgressInv, NEW S \in SUBSET Live, NEW new,
         tracks' = [d \in Decisions |-> IF d \in S THEN new[d] ELSE tracks[d]],
         \A d \in S : Plain(tracks[d], new[d])
  PROVE  \A e \in Decisions : Moves(e)
  BY FitTrack, PlainAdvances DEF Moves

\* What a hook asks for or reports is a key, and never the sentinel.
LEMMA AskedKeys ==
  ASSUME IInv, NEW d \in Decisions, NEW k \in Reported(d)
  PROVE  k \in Keys \ {SentinelRole}
<1>1. CASE k \in Asked(d)
  <2>1. k # SentinelRole
    BY <1>1 DEF Asked
  <2> QED BY <1>1, <2>1, NamedKeys
<1>2. CASE k \in AdHocRoles
  BY <1>2, DecisionsAssumption DEF DecisionsAssumption, Keys
<1> QED BY <1>1, <1>2 DEF Reported

\* Spawn requests and acknowledgements
LEMMA SpawnsMove ==
  ASSUME IInv, ProgressInv, NEW d \in Decisions,
         \/ \E st \in BarriersOf(d), r \in Roles : AllocateParallelMember(d, st, r)
         \/ \E k \in Asked(d) : RecordRequested(d, k)
         \/ \E t \in Children : BindParallelMember(d, t) \/ BindLinearStage(d, t)
         \/ \E t \in Jobs : d \in Live /\ BindTerminal(d, t)
         \/ \E t \in Jobs, s \in Steps : BindVerify(d, t, s)
  PROVE  \A e \in Decisions : Moves(e)
<1>1. CASE \E st \in BarriersOf(d), r \in Roles : AllocateParallelMember(d, st, r)
  <2>1. PICK st \in BarriersOf(d), r \in Roles : AllocateParallelMember(d, st, r)
    BY <1>1
  <2> DEFINE k == AllocatedKey(tracks[d], st, r)
  <2>2. d \in Live /\ k # Nil /\ Put(d, [tracks[d] EXCEPT !.requested = @ \cup {k}])
    BY <2>1 DEF AllocateParallelMember
  <2>3. k \in Keys \ {SentinelRole}
    BY <2>2, FitTrack, AllocatedMember, SentinelKey DEF BarriersOf, Keys
  <2> HIDE DEF k
  <2>4. Plain(tracks[d], [tracks[d] EXCEPT !.requested = @ \cup {k}])
    BY <2>2, <2>3, FitTrack DEF Plain, SentinelIdle, Track
  <2> QED BY <2>2, <2>4, PlainMoves
<1>2. CASE \E k \in Asked(d) : RecordRequested(d, k)
  <2>1. PICK k \in Asked(d) : RecordRequested(d, k)
    BY <1>2
  <2>2. d \in Live /\ Put(d, Requested(tracks[d], k))
    BY <2>1 DEF RecordRequested
  <2>3. k \in Keys \ {SentinelRole}
    BY <2>1, <2>2, AskedKeys DEF Reported
  <2>4. Plain(tracks[d], Requested(tracks[d], k))
    BY <2>2, <2>3, FitTrack DEF Plain, SentinelIdle, Requested, Track
  <2> QED BY <2>2, <2>4, PlainMoves
<1>3. CASE \E t \in Children : BindParallelMember(d, t)
  <2>1. PICK t \in Children : BindParallelMember(d, t)
    BY <1>3
  <2>2. d \in Live /\ t \in Tasks /\ Put(d, MemberBound(tracks[d], TaskRole[t], t))
    BY <2>1 DEF BindParallelMember, Tasks
  <2> QED BY <2>2, FitTrack, MemberBoundPlain, PlainMoves
<1>4. CASE \E t \in Children : BindLinearStage(d, t)
  <2>1. PICK t \in Children : BindLinearStage(d, t)
    BY <1>4
  <2> DEFINE r == TaskRole[t]
  <2>2. d \in Live /\ t \in Tasks /\ Put(d, LinearBound(tracks[d], r, t))
    BY <2>1 DEF BindLinearStage, Tasks
  <2>3. r \in Keys \ {SentinelRole}
    BY <2>1, DecisionsAssumption DEF DecisionsAssumption, Keys
  <2> HIDE DEF r
  <2>4. Plain(tracks[d], tracks[d])
    BY <2>2, FitTrack DEF Plain
  <2>5. Plain(tracks[d], [tracks[d] EXCEPT !.stageTasks[r] = t])
    BY <2>2, <2>3, FitTrack, BoundPlain
  <2> QED BY <2>2, <2>4, <2>5, PlainMoves DEF LinearBound
<1>5. CASE \E t \in Jobs : d \in Live /\ BindTerminal(d, t)
  <2>1. PICK t \in Jobs : d \in Live /\ BindTerminal(d, t)
    BY <1>5
  <2>2. PICK k \in TerminalStageKeys(tracks[d]) :
           Put(d, [tracks[d] EXCEPT !.terminalTasks[t] = k])
    BY <2>1 DEF BindTerminal
  <2>3. k \in tracks[d].requested \cup tracks[d].completed
    BY DEF TerminalStageKeys
  <2>4. k \in Keys \ {SentinelRole} /\ t \in Tasks
    BY <2>1, <2>3, FitTrack DEF SentinelIdle, Track, Tasks
  <2>5. Plain(tracks[d], [tracks[d] EXCEPT !.terminalTasks[t] = k])
    BY <2>1, <2>4, FitTrack, BoundPlain
  <2> QED BY <2>1, <2>2, <2>5, PlainMoves
<1>6. CASE \E t \in Jobs, s \in Steps : BindVerify(d, t, s)
  <2>1. PICK t \in Jobs, s \in Steps : BindVerify(d, t, s)
    BY <1>6
  <2>2. d \in Live /\ t \in Tasks /\ Put(d, [tracks[d] EXCEPT !.verifyTasks[t] = s])
    BY <2>1 DEF BindVerify, Tasks
  <2>3. Plain(tracks[d], [tracks[d] EXCEPT !.verifyTasks[t] = s])
    BY <2>2, FitTrack, VerifyPlain
  <2> QED BY <2>2, <2>3, PlainMoves
<1> QED BY <1>1, <1>2, <1>3, <1>4, <1>5, <1>6

\* Results of stages
LEMMA ResultsMove ==
  ASSUME WellFormedPlans, IInv, ProgressInv,
         NEW ok \in BOOLEAN, NEW escalate \in Escalations, NEW composable \in Composable,
         \/ \E d \in Decisions : \E k \in Reported(d) :
               RecordStageResult(d, k, ok, escalate, composable)
         \/ \E d \in Decisions, r \in Roles \ {SentinelRole} :
            \E W \in SUBSET (Decisions \ {d}) :
               RecordSessionDebtStage(d, r, W, ok, escalate, composable)
         \/ \E s \in Sessions, t \in Tasks : RecordRetrieval(s, t, ok, escalate, composable)
  PROVE  \A e \in Decisions : Moves(e)
<1>0. composable \in BOOLEAN
  BY DecisionsAssumption DEF DecisionsAssumption
<1>1. CASE \E d \in Decisions : \E k \in Reported(d) :
              RecordStageResult(d, k, ok, escalate, composable)
  <2>1. PICK d \in Decisions : \E k \in Reported(d) :
              RecordStageResult(d, k, ok, escalate, composable)
    BY <1>1
  <2>2. PICK k \in Reported(d) : RecordStageResult(d, k, ok, escalate, composable)
    BY <2>1
  <2>3. d \in Live /\ Put(d, StageResult(tracks[d], k, ok, composable))
    BY <2>2 DEF RecordStageResult
  <2>4. k \in Keys \ {SentinelRole}
    BY <2>2, AskedKeys
  <2>5. Advances(tracks[d], StageResult(tracks[d], k, ok, composable))
    BY <1>0, <2>3, <2>4, FitTrack, ResultAdvances
  <2> QED BY <2>3, <2>5, PutMoves
<1>2. CASE \E d \in Decisions, r \in Roles \ {SentinelRole} :
           \E W \in SUBSET (Decisions \ {d}) :
              RecordSessionDebtStage(d, r, W, ok, escalate, composable)
  <2>1. PICK d \in Decisions, r \in Roles \ {SentinelRole}, W \in SUBSET Decisions :
              RecordSessionDebtStage(d, r, W, ok, escalate, composable)
    BY <1>2
  <2>2. PICK e \in Debts(d, W) : \E k \in OwedKeys(tracks[e], r) :
              Put(e, Recorded(tracks[e], k, ok, composable))
    BY <2>1 DEF RecordSessionDebtStage
  <2>3. PICK k \in OwedKeys(tracks[e], r) : Put(e, Recorded(tracks[e], k, ok, composable))
    BY <2>2
  <2>4. e \in Live /\ tracks[e] \in Track
    BY DebtTracks, LiveTrack
  <2>5. k \in Keys /\ k \notin tracks[e].completed
    BY <2>4, OwedKeyType DEF OwedKeys, IncompleteMembers, IncompletePositions
  <2>6. k # SentinelRole
    BY <2>1, <2>4, TrackKeys, SentinelKey DEF OwedKeys
  <2>7. Advances(tracks[e], Recorded(tracks[e], k, ok, composable))
    BY <1>0, <2>4, <2>5, <2>6, FitTrack, ResultAdvances
  <2> QED BY <2>3, <2>4, <2>7, PutMoves
<1>3. CASE \E s \in Sessions, t \in Tasks : RecordRetrieval(s, t, ok, escalate, composable)
  <2>1. PICK s \in Sessions, t \in Tasks : RecordRetrieval(s, t, ok, escalate, composable)
    BY <1>3
  <2>2. PICK m \in Matches(s, t) :
           LET tr == tracks[m[1]]
           IN  /\ m[2] \in Keys
               /\ \/ Put(m[1], [tr EXCEPT !.terminalTasks[t] = Nil])
                  \/ Put(m[1], SettledRetrieval(tr, m[2], t, ok, composable))
    BY <2>1 DEF RecordRetrieval
  <2>3. m[1] \in Live /\ m[2] \in BoundNames(tracks[m[1]], t)
    BY MatchedTracks DEF Matches
  <2>4. m[2] \in Keys \ {SentinelRole} /\ Fit(m[1], tracks[m[1]]) /\ m[1] \in Decisions
    BY <2>2, <2>3, FitTrack
  <2>5. CASE Put(m[1], [tracks[m[1]] EXCEPT !.terminalTasks[t] = Nil])
    BY <2>3, <2>5, FitTrack, UnparkedPlain, PlainMoves
  <2>6. CASE Put(m[1], SettledRetrieval(tracks[m[1]], m[2], t, ok, composable))
    <3>1. Advances(tracks[m[1]], SettledRetrieval(tracks[m[1]], m[2], t, ok, composable))
      BY <1>0, <2>4, ResultAdvances
    <3> QED BY <2>3, <2>6, <3>1, PutMoves
  <2> QED BY <2>2, <2>5, <2>6
<1> QED BY <1>1, <1>2, <1>3

\* Verify steps, the Stop count and what is answered of a child
LEMMA AnswersMove ==
  ASSUME IInv, ProgressInv,
         \/ \E d \in Decisions, ok \in BOOLEAN : \E s \in StepsOf(d) : RecordVerify(d, s, ok)
         \/ \E d \in Decisions : StopBlock(d)
         \/ \E s \in Sessions, t \in Children : RecordReviewInconclusive(s, t)
         \/ \E s \in Sessions, t \in Tasks : ReleaseUnresolvable(s, t)
         \/ \E s \in Sessions, t \in Tasks, ok \in BOOLEAN : RecordVerifyRetrieval(s, t, ok)
  PROVE  \A e \in Decisions : Moves(e)
<1>1. CASE \E d \in Decisions, ok \in BOOLEAN : \E s \in StepsOf(d) : RecordVerify(d, s, ok)
  <2>1. PICK d \in Decisions, ok \in BOOLEAN : \E s \in StepsOf(d) : RecordVerify(d, s, ok)
    BY <1>1
  <2>2. PICK s \in StepsOf(d) : RecordVerify(d, s, ok)
    BY <2>1
  <2>3. d \in Live /\ Put(d, VerifyRecorded(tracks[d], s, ok))
    BY <2>2 DEF RecordVerify
  <2>4. Plain(tracks[d], VerifyRecorded(tracks[d], s, ok))
    BY <2>3, FitTrack DEF Plain, SentinelIdle, VerifyRecorded, Track
  <2> QED BY <2>3, <2>4, PlainMoves
<1>2. CASE \E d \in Decisions : StopBlock(d)
  <2>1. PICK d \in Decisions : StopBlock(d)
    BY <1>2
  <2>2. d \in Live /\ Put(d, [tracks[d] EXCEPT !.stopBlocks = @ + 1])
    BY <2>1 DEF StopBlock
  <2>3. Plain(tracks[d], [tracks[d] EXCEPT !.stopBlocks = @ + 1])
    BY <2>2, FitTrack DEF Plain, SentinelIdle, Track
  <2> QED BY <2>2, <2>3, PlainMoves
<1>3. CASE \E s \in Sessions, t \in Children : RecordReviewInconclusive(s, t)
  <2>1. PICK s \in Sessions, t \in Children : RecordReviewInconclusive(s, t)
    BY <1>3
  <2>2. PICK m \in Matches(s, t) :
           /\ m[2] \in Keys
           /\ \/ Put(m[1], [tracks[m[1]] EXCEPT !.terminalTasks[t] = Nil])
              \/ Put(m[1], Discharged(tracks[m[1]], m[2], t))
    BY <2>1 DEF RecordReviewInconclusive
  <2>3. m[1] \in Live /\ t \in Tasks
    BY MatchedTracks DEF Tasks
  <2>4. /\ Plain(tracks[m[1]], [tracks[m[1]] EXCEPT !.terminalTasks[t] = Nil])
        /\ Plain(tracks[m[1]], Discharged(tracks[m[1]], m[2], t))
    BY <2>2, <2>3, FitTrack, UnparkedPlain, DischargedPlain
  <2> QED BY <2>2, <2>3, <2>4, PlainMoves
<1>4. CASE \E s \in Sessions, t \in Tasks : ReleaseUnresolvable(s, t)
  <2>1. PICK s \in Sessions, t \in Tasks : ReleaseUnresolvable(s, t)
    BY <1>4
  <2> DEFINE found(d) == {n \in Names : <<d, n>> \in Matches(s, t)}
             one(d)   == CHOOSE n \in found(d) : TRUE
             S == {d \in Live : found(d) # {}}
  <2>2. PICK jobs : tracks' = [d \in Decisions |->
                                 IF d \in Live /\ found(d) # {}
                                 THEN NotFound(tracks[d], one(d), t, jobs[d])
                                 ELSE tracks[d]]
    BY <2>1 DEF ReleaseUnresolvable
  <2> DEFINE new == [d \in S |-> NotFound(tracks[d], one(d), t, jobs[d])]
  <2>3. \A d \in S : d \in Live /\ one(d) \in Names /\ <<d, one(d)>> \in Matches(s, t)
    OBVIOUS
  <2>4. \A d \in S : one(d) \in BoundNames(tracks[d], t)
    <3> HIDE DEF one, found, S
    <3> QED BY <2>3 DEF Matches
  <2>5. \A d \in S : new[d] = NotFound(tracks[d], one(d), t, jobs[d])
    OBVIOUS
  <2>6. \A d \in Decisions : d \in S <=> d \in Live /\ found(d) # {}
    OBVIOUS
  <2>7. S \subseteq Live
    OBVIOUS
  <2> HIDE DEF S, new, one, found
  <2>8. \A d \in S : Plain(tracks[d], new[d])
    <3>1. SUFFICES ASSUME NEW d \in S
                   PROVE  Plain(tracks[d], NotFound(tracks[d], one(d), t, jobs[d]))
      BY <2>5
    <3>2. /\ d \in Live /\ tracks[d] \in Track /\ one(d) \in Names
          /\ one(d) # SentinelRole
      BY <2>1, <2>3, <2>4, FitTrack
    <3> QED BY <2>1, <3>2, NotFoundPlain
  <2>9. tracks' = [d \in Decisions |-> IF d \in S THEN new[d] ELSE tracks[d]]
    BY <2>2, <2>5, <2>6
  <2> QED BY <2>7, <2>8, <2>9, AllMove
<1>5. CASE \E s \in Sessions, t \in Tasks, ok \in BOOLEAN : RecordVerifyRetrieval(s, t, ok)
  <2>1. PICK s \in Sessions, t \in Tasks, ok \in BOOLEAN : RecordVerifyRetrieval(s, t, ok)
    BY <1>5
  <2> DEFINE bound == {d \in SessionTracks(s) : {tracks[d].verifyTasks[t],
                                                 tracks[d].releasedVerify[t]} # {Nil}}
             new == [d \in bound |-> VerifierSettled(tracks[d], t, ok)]
  <2>2. bound \subseteq Live
    BY DEF SessionTracks
  <2>3. \A d \in bound : Plain(tracks[d], new[d])
    BY <2>1, <2>2, FitTrack, VerifyPlain
  <2>4. tracks' = [d \in Decisions |-> IF d \in bound THEN new[d] ELSE tracks[d]]
    BY <2>1 DEF RecordVerifyRetrieval
  <2> HIDE DEF bound, new
  <2> QED BY <2>2, <2>3, <2>4, AllMove
<1> QED BY <1>1, <1>2, <1>3, <1>4, <1>5

\* What is bound to, or recorded of, the debts of a session
LEMMA DebtsMove ==
  ASSUME IInv, ProgressInv, NEW d \in Decisions, NEW W,
         \/ \E t \in Children : BindDebtStage(d, t, W)
         \/ \E t \in Jobs : BindDebtVerify(d, t, W)
         \/ \E command \in Range(CommandOf) : RecordVerifyFanout(d, command, W)
  PROVE  \A e \in Decisions : Moves(e)
<1>1. CASE \E t \in Children : BindDebtStage(d, t, W)
  <2>1. PICK t \in Children : BindDebtStage(d, t, W)
    BY <1>1
  <2> DEFINE role == TaskRole[t]
  <2>2. role \in Roles \ {SentinelRole} /\ t \in Tasks
    BY DecisionsAssumption DEF DecisionsAssumption, Tasks
  <2>3. PICK e \in Debts(d, W) : \E i \in ClaimedStages(tracks[e], role) :
           \E k \in DebtKeys(tracks[e], Stages(tracks[e])[i], role) :
              Put(e, DebtBound(tracks[e], k, t))
    BY <2>1 DEF BindDebtStage
  <2>4. PICK i \in ClaimedStages(tracks[e], role) :
           \E k \in DebtKeys(tracks[e], Stages(tracks[e])[i], role) :
              Put(e, DebtBound(tracks[e], k, t))
    BY <2>3
  <2>5. PICK k \in DebtKeys(tracks[e], Stages(tracks[e])[i], role) :
           Put(e, DebtBound(tracks[e], k, t))
    BY <2>4
  <2> HIDE DEF role
  <2>6. e \in Live /\ tracks[e] \in Track
    BY DebtTracks, LiveTrack
  <2>7. k \in Keys \ {SentinelRole}
    <3>1. Stages(tracks[e])[i] \in Range(Stages(tracks[e]))
      BY DEF ClaimedStages, Range
    <3>2. k \in Keys
      BY <2>2, <2>6, <3>1, DebtKeyType
    <3>3. k = role \/ k \in MemberKeys
      BY <2>6, <3>1, TrackKeys DEF DebtKeys
    <3> QED BY <2>2, <3>2, <3>3, SentinelKey
  <2>8. Plain(tracks[e], DebtBound(tracks[e], k, t))
    BY <2>2, <2>6, <2>7, BoundPlain
  <2> QED BY <2>5, <2>6, <2>8, PlainMoves
<1>2. CASE \E t \in Jobs : BindDebtVerify(d, t, W)
  <2>1. PICK t \in Jobs : BindDebtVerify(d, t, W)
    BY <1>2
  <2> DEFINE due(e) == NextVerifyStep(tracks[e])
             owing  == {e \in Others(d, W) :
                           /\ due(e) # Nil
                           /\ \A u \in Tasks : tracks[e].verifyTasks[u] # due(e)
                           /\ CommandOf[due(e)] = CommandRun[t]}
             new == [e \in owing |-> [tracks[e] EXCEPT !.verifyTasks[t] = due(e)]]
  <2>2. owing \subseteq Live /\ t \in Tasks
    BY DebtTracks DEF Tasks
  <2>3. \A e \in owing : Plain(tracks[e], new[e])
    <3> HIDE DEF due
    <3> QED BY <2>2, FitTrack DEF Plain, SentinelIdle, Track
  <2>4. tracks' = [e \in Decisions |-> IF e \in owing THEN new[e] ELSE tracks[e]]
    BY <2>1 DEF BindDebtVerify
  <2> HIDE DEF owing, new
  <2> QED BY <2>2, <2>3, <2>4, AllMove
<1>3. CASE \E command \in Range(CommandOf) : RecordVerifyFanout(d, command, W)
  <2>1. PICK command \in Range(CommandOf) : RecordVerifyFanout(d, command, W)
    BY <1>3
  <2> DEFINE due(e) == NextVerifyStep(tracks[e])
             owing  == {e \in Others(d, W) : due(e) # Nil /\ CommandOf[due(e)] = command}
             new == [e \in owing |-> [tracks[e] EXCEPT !.verified = @ \cup {due(e)}]]
  <2>2. owing \subseteq Live
    BY DebtTracks
  <2>3. \A e \in owing : Plain(tracks[e], new[e])
    <3> HIDE DEF due
    <3> QED BY <2>2, FitTrack DEF Plain, SentinelIdle, Track
  <2>4. tracks' = [e \in Decisions |-> IF e \in owing THEN new[e] ELSE tracks[e]]
    BY <2>1 DEF RecordVerifyFanout
  <2> HIDE DEF owing, new
  <2> QED BY <2>2, <2>3, <2>4, AllMove
<1> QED BY <1>1, <1>2, <1>3

\* Re-deriving the plan of a decision
LEMMA EnsuredGood ==
  ASSUME WellFormedPlans, NEW d \in Decisions, NEW tr, Fit(d, tr), NEW plan \in Plans[d]
  PROVE  LET after == Ensured(tr, plan)
         IN  /\ Good(after) /\ after.plan = plan
             /\ plan = tr.plan => Advances(tr, after)
<1>1. tr \in Track /\ Good(tr) /\ tr.runtime \in Runtimes
  BY DEF Fit, Track
<1>2. CASE Ensured(tr, plan) = tr /\ tr.plan = plan
  BY <1>1, <1>2 DEF Advances
<1>3. CASE Ensured(tr, plan) = [Reconcile(tr, plan, tr.runtime) EXCEPT !.waived = {}]
  <2> DEFINE middle == Reconcile(tr, plan, tr.runtime)
  <2>1. /\ Good(middle) /\ middle.plan = plan /\ middle.inconclusive = tr.inconclusive
        /\ plan = tr.plan => Advances(tr, middle)
    BY <1>1, ReconcileGood
  <2>2. middle \in Track
    <3>1. plan \in Seq(Stage)
      BY DecisionsAssumption DEF DecisionsAssumption
    <3> QED BY <1>1, <3>1, ReconcileSound DEF Sound
  <2> HIDE DEF middle
  <2> DEFINE after == [middle EXCEPT !.waived = {}]
  <2>3. /\ after.plan = middle.plan /\ after.completed = middle.completed
        /\ after.inconclusive = middle.inconclusive
        /\ Good(after)
    BY <2>1, <2>2 DEF Good, SentinelIdle, Track
  <2>4. Ensured(tr, plan) = after
    BY <1>3 DEF middle
  <2> HIDE DEF after
  <2> QED BY <2>1, <2>3, <2>4 DEF Advances
<1> QED BY <1>2, <1>3 DEF Ensured

LEMMA NextMoves ==
  ASSUME WellFormedPlans, IInv, ProgressInv, Next
  PROVE  \A e \in Decisions : Moves(e)
<1>1. CASE \E d \in Decisions : \E plan \in Plans[d] : EnsureExecution(d, plan)
  <2>1. PICK d \in Decisions : \E plan \in Plans[d] : EnsureExecution(d, plan)
    BY <1>1
  <2>2. PICK plan \in Plans[d] : EnsureExecution(d, plan)
    BY <2>1
  <2>3. Put(d, IF tracks[d] = Nil THEN NewTrack(plan) ELSE Ensured(tracks[d], plan))
    BY <2>2 DEF EnsureExecution
  <2> QED BY <2>1, <2>2, <2>3 DEF Put, Moves, Live, IInv, TracksOK
<1>2. CASE \E d \in Decisions : Prune(d)
  BY <1>2 DEF Prune, Put, Moves, IInv, TracksOK
<1>3. CASE \E s \in Sessions : PruneCircuits(s)
  BY <1>3 DEF PruneCircuits, Moves
<1>4. CASE \E d \in Decisions :
              \/ \E st \in BarriersOf(d), r \in Roles : AllocateParallelMember(d, st, r)
              \/ \E k \in Asked(d) : RecordRequested(d, k)
              \/ \E t \in Children : BindParallelMember(d, t) \/ BindLinearStage(d, t)
              \/ \E t \in Jobs : d \in Live /\ BindTerminal(d, t)
              \/ \E t \in Jobs, s \in Steps : BindVerify(d, t, s)
  BY <1>4, SpawnsMove
<1>5. CASE \/ \E d \in Decisions, ok \in BOOLEAN : \E s \in StepsOf(d) : RecordVerify(d, s, ok)
           \/ \E d \in Decisions : StopBlock(d)
           \/ \E s \in Sessions, t \in Children : RecordReviewInconclusive(s, t)
           \/ \E s \in Sessions, t \in Tasks : ReleaseUnresolvable(s, t)
           \/ \E s \in Sessions, t \in Tasks, ok \in BOOLEAN : RecordVerifyRetrieval(s, t, ok)
  BY <1>5, AnswersMove
<1>6. CASE \E d \in Decisions : \E W \in SUBSET (Decisions \ {d}) :
              \/ \E t \in Children : BindDebtStage(d, t, W)
              \/ \E t \in Jobs : BindDebtVerify(d, t, W)
              \/ \E command \in Range(CommandOf) : RecordVerifyFanout(d, command, W)
  BY <1>6, DebtsMove
<1>7. CASE \E ok \in BOOLEAN, escalate \in Escalations, composable \in Composable :
              \/ \E d \in Decisions : \E k \in Reported(d) :
                    RecordStageResult(d, k, ok, escalate, composable)
              \/ \E d \in Decisions, r \in Roles \ {SentinelRole} :
                 \E W \in SUBSET (Decisions \ {d}) :
                    RecordSessionDebtStage(d, r, W, ok, escalate, composable)
              \/ \E s \in Sessions, t \in Tasks :
                    RecordRetrieval(s, t, ok, escalate, composable)
  BY <1>7, ResultsMove
<1> QED BY <1>1, <1>2, <1>3, <1>4, <1>5, <1>6, <1>7 DEF Next

-----------------------------------------------------------------------------
(* The invariant *)

LEMMA MovesKeepFit ==
  ASSUME WellFormedPlans, IInv, ProgressInv, IInv', \A e \in Decisions : Moves(e)
  PROVE  ProgressInv'
<1> SUFFICES ASSUME NEW d \in Decisions, tracks'[d] # Nil
             PROVE  Fit(d, tracks'[d])
  BY DEF ProgressInv, Live
<1>1. tracks'[d] \in Track
  BY DEF IInv, TracksOK
<1>2. CASE tracks'[d] = tracks[d]
  BY <1>2 DEF ProgressInv, Live
<1>3. CASE \E plan \in Plans[d] : tracks'[d] = NewTrack(plan)
  BY <1>1, <1>3, NewTrackGood DEF Fit
<1>4. CASE d \in Live /\ \E plan \in Plans[d] : tracks'[d] = Ensured(tracks[d], plan)
  BY <1>1, <1>4, EnsuredGood DEF Fit, ProgressInv
<1>5. CASE d \in Live /\ Advances(tracks[d], tracks'[d])
  BY <1>1, <1>5 DEF Fit, Advances, ProgressInv
<1> QED BY <1>2, <1>3, <1>4, <1>5 DEF Moves

LEMMA ProgressInductive ==
  ASSUME WellFormedPlans
  PROVE  Spec => [](IInv /\ ProgressInv)
<1>1. Init => ProgressInv
  BY DEF Init, ProgressInv, Live
<1>2. IInv /\ IInv' /\ ProgressInv /\ [Next]_vars => ProgressInv'
  <2>1. CASE Next
    BY <2>1, NextMoves, MovesKeepFit
  <2>2. CASE UNCHANGED vars
    BY <2>2 DEF vars, ProgressInv, Live
  <2> QED BY <2>1, <2>2
<1> QED BY <1>1, <1>2, Inductive, PTL DEF Spec

\* A track that keeps its plan advances, or is not touched.
LEMMA SamePlanAdvances ==
  ASSUME WellFormedPlans, IInv, ProgressInv, [Next]_vars, NEW d \in Decisions, SamePlan(d)
  PROVE  Advances(tracks[d], tracks'[d])
<1>1. d \in Live /\ Fit(d, tracks[d]) /\ tracks'[d] # Nil /\ tracks[d] # Nil
      /\ tracks'[d].plan = tracks[d].plan
  BY DEF SamePlan, ProgressInv, Live
<1>2. CASE tracks'[d] = tracks[d]
  BY <1>1, <1>2 DEF Advances, Fit
<1>3. CASE \E plan \in Plans[d] : tracks'[d] = Ensured(tracks[d], plan)
  BY <1>1, <1>3, EnsuredGood
<1>4. Moves(d) \/ tracks'[d] = tracks[d]
  BY NextMoves DEF vars
<1> QED BY <1>1, <1>2, <1>3, <1>4 DEF Moves

-----------------------------------------------------------------------------
(* Theorems *)

\* A stage once completed stays completed while its plan stands: a late failure,
\* a spawn asked for again, or a consilium added to or dropped from the plan
\* (record_stage_tx, record_retrieval_result_tx) cannot reopen it.
THEOREM CompletedStagesStay ==
  ASSUME WellFormedPlans
  PROVE  Spec => SettledStagesStay
<1>1. IInv /\ ProgressInv /\ [Next]_vars =>
        [\A d \in Decisions : SamePlan(d) =>
            tracks[d].completed \cap SpawnKeys(tracks[d]) \subseteq tracks'[d].completed]_vars
  BY SamePlanAdvances DEF Advances
<1> QED BY <1>1, ProgressInductive, PTL DEF Spec, SettledStagesStay

\* No failure of a completed stage counts towards a consilium
\* (_record_repair_result, reset by a success and by nothing else).
THEOREM CompletedOweNoRepair ==
  ASSUME WellFormedPlans
  PROVE  Spec => []SettledNeedsNoRepair
<1>1. ProgressInv => SettledNeedsNoRepair
  BY DEF ProgressInv, Fit, Good, SettledNeedsNoRepair
<1> QED BY <1>1, ProgressInductive, PTL

\* A stage that holds the pipeline no longer never holds it again while its plan
\* stands, discharged or completed, although re-deriving the plan restores the
\* required flags (ensure_execution_tx): what discharged it is still recorded.
THEOREM FinishedStaysFinished ==
  ASSUME WellFormedPlans
  PROVE  Spec => FinishedStagesStay
<1>1. ASSUME IInv, ProgressInv, [Next]_vars, NEW d \in Decisions, SamePlan(d),
             NEW st \in Range(Stages(tracks[d])), Spawnable(st), ~Unfinished(tracks[d], st)
      PROVE  ~Unfinished(tracks'[d], st)
  <2> DEFINE old == tracks[d]
             new == tracks'[d]
  <2>1. /\ old \in Track /\ Good(old) /\ Advances(old, new)
        /\ Range(st.keys) \subseteq SpawnKeys(old)
    <3>1. d \in Live
      BY <1>1 DEF SamePlan
    <3> QED BY <1>1, <3>1, SamePlanAdvances DEF ProgressInv, Fit, SpawnKeys, KeysOf
  <2>2. /\ st \in Stage
        /\ Key(st) \in Range(st.keys)
        /\ \A i \in DOMAIN st.keys : st.keys[i] \in Range(st.keys)
    BY <1>1, <2>1, TrackKeys, StageKeys DEF Range
  <2> HIDE DEF old, new
  <2>3. /\ old.completed \cap Range(st.keys) \subseteq new.completed
        /\ old.inconclusive \subseteq new.inconclusive
        /\ old.waived \subseteq old.inconclusive
        /\ new.waived \subseteq new.inconclusive
    BY <2>1 DEF Advances, Good
  <2>4. CASE st.kind = "parallel_spawn"
    <3>1. ~st.required \/ IncompletePositions(old, st) = {}
      BY <1>1, <2>4 DEF Unfinished, StageRequired, IncompleteMembers, old
    <3>2. IncompletePositions(new, st) \subseteq IncompletePositions(old, st)
      BY <2>2, <2>3 DEF IncompletePositions
    <3> QED BY <2>4, <3>1, <3>2 DEF Unfinished, StageRequired, IncompleteMembers, new
  <2>5. CASE st.kind # "parallel_spawn"
    <3>1. \/ ~st.required
          \/ Key(st) \in old.waived \cup old.completed \cup old.inconclusive
      BY <1>1, <2>5 DEF Unfinished, StageRequired, Spawnable, old
    <3>2. ~st.required \/ Key(st) \in new.completed \cup new.inconclusive
      BY <2>2, <2>3, <3>1
    <3> QED BY <1>1, <2>5, <3>2 DEF Unfinished, StageRequired, Spawnable, new
  <2> QED BY <2>4, <2>5
<1>2. IInv /\ ProgressInv /\ [Next]_vars =>
        [\A d \in Decisions : SamePlan(d) =>
            \A st \in Range(Stages(tracks[d])) :
                Spawnable(st) /\ ~Unfinished(tracks[d], st) => ~Unfinished(tracks'[d], st)]_vars
  BY <1>1
<1> QED BY <1>2, ProgressInductive, PTL DEF Spec, FinishedStagesStay

\* What a recomposition keeps of set S of keys, for the part that new plays:
\* the keys that the part's old stage had in S, or the new key for the old one.
LEMMA MigratedProgress ==
  ASSUME NEW old \in Seq(Stage), NEW new \in Seq(Stage),
         Distinct(Range(old)), Distinct(Range(new)), NEW c \in Range(new), NEW S
  PROVE  Range(c.keys) \cap UNION {Migrated(old, new, k) : k \in S}
         = UNION {IF c.kind = "parallel_spawn"
                  THEN Range(st.keys) \cap S \cap Range(c.keys)
                  ELSE IF Range(st.keys) \cap S = {} THEN {} ELSE Range(c.keys)
                  : st \in {o \in Range(old) : o.slot = c.slot /\ o.kind = c.kind}}
<1> DEFINE olds == {o \in Range(old) : o.slot = c.slot /\ o.kind = c.kind}
           kept(st) == IF c.kind = "parallel_spawn"
                       THEN Range(st.keys) \cap S \cap Range(c.keys)
                       ELSE IF Range(st.keys) \cap S = {} THEN {} ELSE Range(c.keys)
<1>1. Range(new) \subseteq Stage
  BY LenProperties DEF Range
<1>2. c.kind # "parallel_spawn" => Range(c.keys) = {Key(c)}
  BY <1>1, StageKeys
<1>3. ASSUME NEW n \in Range(c.keys), NEW k \in S, n \in Migrated(old, new, k)
      PROVE  \E st \in olds : n \in kept(st)
  <2>1. PICK h \in Range(new), st \in Range(old) : Inherits(h, n, st, k)
    BY <1>3, MigratedFrom
  <2>2. h = c
    BY <1>3, <2>1 DEF Distinct, Inherits
  <2> QED BY <1>3, <2>1, <2>2 DEF Inherits
<1>4. ASSUME NEW st \in olds, NEW n \in kept(st)
      PROVE  n \in Range(c.keys) /\ \E k \in S : n \in Migrated(old, new, k)
  <2>1. PICK k \in Range(st.keys) \cap S : c.kind = "parallel_spawn" => n = k
    BY <1>4
  <2>2. Migrated(old, new, k) = IF c.kind = "parallel_spawn" THEN {k} \cap Range(c.keys)
                                ELSE {Key(c)}
    BY <2>1, MigratedToHeir
  <2>3. n \in Range(c.keys)
    BY <1>4
  <2> QED BY <1>2, <2>1, <2>2, <2>3
<1> QED BY <1>3, <1>4

\* Re-deriving the plan of a decision moves the progress of every part that the
\* two plans share to the part's new keys, and finds none for a new part
\* (_reconcile_stage_evidence).
THEOREM RecompositionKeepsEvidence ==
  ASSUME WellFormedPlans
  PROVE  Spec => RecompositionKeepsProgress
<1> DEFINE Olds(d, new) == {st \in Range(tracks[d].plan) :
                              st.slot = new.slot /\ st.kind = new.kind}
           Kept(d, new, st) ==
             IF new.kind = "parallel_spawn"
             THEN Progress(tracks[d], st) \cap Range(new.keys)
             ELSE IF Progress(tracks[d], st) = {} THEN {} ELSE Range(new.keys)
<1>1. ASSUME IInv, ProgressInv, [Next]_vars, NEW d \in Live, tracks'[d] # Nil, ~SamePlan(d),
             NEW new \in Range(tracks'[d].plan)
      PROVE  Progress(tracks'[d], new) = UNION {Kept(d, new, st) : st \in Olds(d, new)}
  <2> DEFINE tr == tracks[d]
             done(t) == IF new.kind = "verify" THEN t.verified ELSE t.completed
  <2>1. d \in Decisions /\ tr \in Track /\ tr.plan \in Plans[d] /\ Fit(d, tr) /\ tr # Nil
    BY <1>1, LiveTrack DEF ProgressInv, Fit, Live
  <2>2. PICK plan \in Plans[d] : plan # tr.plan /\ tracks'[d] = Ensured(tr, plan)
    <3>1. tracks'[d].plan # tr.plan
      BY <1>1, <2>1 DEF SamePlan
    <3>2. Moves(d) \/ tracks'[d] = tr
      BY <1>1, <2>1, NextMoves DEF vars
    <3>3. ~Advances(tr, tracks'[d]) /\ tracks'[d] # tr
      BY <3>1 DEF Advances
    <3>4. PICK plan \in Plans[d] : tracks'[d] = Ensured(tr, plan)
      BY <1>1, <2>1, <3>2, <3>3 DEF Moves
    <3>5. tracks'[d].plan = plan
      BY <2>1, <3>4, EnsuredGood
    <3> QED BY <3>1, <3>4, <3>5
  <2> DEFINE old    == Stages(tr)
             stages == plan \o RuntimeStages(tr.runtime)
             image(S) == UNION {Migrated(old, stages, k) : k \in S}
  <2>3. /\ tracks'[d].plan = plan
        /\ tracks'[d].completed = image(tr.completed)
        /\ tracks'[d].verified = image(tr.verified)
    <3> DEFINE rec == Reconcile(tr, plan, tr.runtime)
    <3>1. tracks'[d] = [rec EXCEPT !.waived = {}]
      BY <2>1, <2>2 DEF Ensured
    <3>2. /\ rec.plan = plan /\ rec.completed = image(tr.completed)
          /\ rec.verified = image(tr.verified)
      BY <2>1 DEF Reconcile, Track
    <3>3. {"plan", "completed", "verified", "waived"} \subseteq DOMAIN rec
      BY <2>1 DEF Reconcile, Track
    <3> HIDE DEF rec
    <3> QED BY <3>1, <3>2, <3>3
  <2>4. tr.runtime \in Runtimes
    BY <2>1 DEF Track
  <2>5. /\ old \in Seq(Stage) /\ Distinct(Range(old))
        /\ \A st \in Range(old) : st.slot = "consilium" <=> st \notin Range(tr.plan)
        /\ Range(tr.plan) \subseteq Range(old)
    BY <2>1, <2>4, WellFormedStages DEF Stages
  <2>6. /\ stages \in Seq(Stage) /\ Distinct(Range(stages))
        /\ \A st \in Range(stages) : st.slot = "consilium" <=> st \notin Range(plan)
        /\ Range(plan) \subseteq Range(stages)
    BY <2>1, <2>2, <2>4, WellFormedStages
  <2> HIDE DEF tr, stages, old
  <2>7. new \in Range(plan) /\ new \in Range(stages) /\ new.slot # "consilium"
    BY <1>1, <2>3, <2>6
  <2>8. {o \in Range(old) : o.slot = new.slot /\ o.kind = new.kind} = Olds(d, new)
    BY <2>5, <2>7 DEF tr
  <2>9. Progress(tracks'[d], new) = Range(new.keys) \cap image(done(tr))
    BY <2>3 DEF Progress
  <2>10. ASSUME NEW st \in Olds(d, new)
         PROVE  Kept(d, new, st)
                = IF new.kind = "parallel_spawn"
                  THEN Range(st.keys) \cap done(tr) \cap Range(new.keys)
                  ELSE IF Range(st.keys) \cap done(tr) = {} THEN {} ELSE Range(new.keys)
    BY DEF Progress, tr
  <2>11. Range(new.keys) \cap image(done(tr))
         = UNION {IF new.kind = "parallel_spawn"
                  THEN Range(st.keys) \cap done(tr) \cap Range(new.keys)
                  ELSE IF Range(st.keys) \cap done(tr) = {} THEN {} ELSE Range(new.keys)
                  : st \in {o \in Range(old) : o.slot = new.slot /\ o.kind = new.kind}}
    <3> HIDE DEF done
    <3> QED BY <2>5, <2>6, <2>7, MigratedProgress
  <2> HIDE DEF done, image, Kept, Olds
  <2> QED BY <2>8, <2>9, <2>10, <2>11
<1>2. IInv /\ ProgressInv /\ [Next]_vars =>
        [\A d \in Live : tracks'[d] # Nil /\ ~SamePlan(d) =>
            \A new \in Range(tracks'[d].plan) :
                LET olds == {st \in Range(tracks[d].plan) :
                               st.slot = new.slot /\ st.kind = new.kind}
                    kept(old) ==
                        IF new.kind = "parallel_spawn"
                        THEN Progress(tracks[d], old) \cap Range(new.keys)
                        ELSE IF Progress(tracks[d], old) = {} THEN {} ELSE Range(new.keys)
                IN  Progress(tracks'[d], new) = UNION {kept(old) : old \in olds}]_vars
  BY <1>1
<1> QED BY <1>2, ProgressInductive, PTL DEF Spec, RecompositionKeepsProgress

-----------------------------------------------------------------------------
(* Which child may be bound to which stage *)

\* Children are bound to members by the member's role, and to linear stages by
\* the role the stage had when they were bound: a recomposition since may have
\* given the part another role, and the stage another key.
Plays(d, tr, r, n) ==
    \E p \in Plans[d] : \E a \in Range(p), c \in Range(tr.plan) :
        /\ LinearStage(a) /\ c.slot = a.slot /\ c.kind = a.kind
        /\ Key(a) = r /\ Key(c) = n

StandsFor(d, tr, r, n) ==
    \/ n \in MemberKeys /\ RoleOf[n] = r /\ IsMember(tr, n)
    \/ Plays(d, tr, r, n)

BoundKinds(tr) ==
    /\ \A k \in Keys : tr.memberTasks[k] # Nil => k \in MemberKeys
    /\ \A k \in Keys : tr.stageTasks[k] # Nil => k \in Roles
    /\ \A t \in Children : tr.verifyTasks[t] = Nil /\ tr.releasedVerify[t] = Nil

Correlated(d, tr) ==
    /\ BoundKinds(tr)
    /\ \A t \in Children :
          /\ \A n \in BoundNames(tr, t) : StandsFor(d, tr, TaskRole[t], n)
          /\ \A n1, n2 \in BoundNames(tr, t) : n1 = n2

\* The stages of a track are those of its plan and what was added at run time.
LEMMA TrackStages ==
  ASSUME WellFormedPlans, NEW d \in Decisions, NEW tr \in Track, tr.plan \in Plans[d]
  PROVE  /\ Range(tr.plan) \subseteq Range(Stages(tr))
         /\ Range(Stages(tr)) \subseteq Range(tr.plan) \cup {ConsiliumStage, SentinelStage}
         /\ tr.runtime = "consilium" => ConsiliumStage \in Range(Stages(tr))
         /\ SpawnKeys(tr) \subseteq Keys
<1>1. tr.runtime \in Runtimes /\ tr.plan \in Seq(Stage)
  BY DEF Track
<1>2. Range(Stages(tr)) = Range(tr.plan) \cup Range(RuntimeStages(tr.runtime))
  BY <1>1, WellFormedStages DEF Stages
<1>3. /\ Range(RuntimeStages(tr.runtime)) \subseteq {ConsiliumStage, SentinelStage}
      /\ tr.runtime = "consilium" => Range(RuntimeStages(tr.runtime)) = {ConsiliumStage}
  BY <1>1 DEF RuntimeStages, Runtimes, Range
<1>4. SpawnKeys(tr) \subseteq Keys
  BY TrackKeys DEF SpawnKeys, KeysOf
<1> QED BY <1>2, <1>3, <1>4

\* A role that stands for a stage of the track stands for no other.
LEMMA OnePartForRole ==
  ASSUME WellFormedPlans, RolesKeepParts,
         NEW d \in Decisions, NEW tr \in Track, tr.plan \in Plans[d],
         NEW r \in Roles \ {SentinelRole}, NEW n, StandsFor(d, tr, r, n),
         NEW b \in Range(Stages(tr)), Spawnable(b), r \in RolesIn(b)
  PROVE  IF b.kind = "parallel_spawn" THEN n \in MemberKeys /\ IsMember(tr, n)
         ELSE b \in Range(tr.plan) /\ LinearStage(b) /\ n = r /\ Key(b) = r
<1>1. b \in Range(tr.plan) \cup {ConsiliumStage}
  <2>1. b # SentinelStage
    BY DEF RolesIn, SentinelStage, Key
  <2> QED BY <2>1, TrackStages
<1>2. /\ b \in Stage
      /\ b.kind # "parallel_spawn" => LinearStage(b) /\ Key(b) = r /\ b \in Range(tr.plan)
  <2>1. b \in Stage
    BY StagesType
  <2>2. b.kind # "parallel_spawn" => LinearStage(b)
    BY <2>1, StageKeys DEF LinearStage, Spawnable
  <2> QED BY <1>1, <2>1, <2>2 DEF RolesIn, ConsiliumStage
<1>3. CASE n \in MemberKeys /\ RoleOf[n] = r /\ IsMember(tr, n)
  <2>1. PICK st \in Range(Stages(tr)) : st.kind = "parallel_spawn" /\ n \in Range(st.keys)
    BY <1>3 DEF IsMember
  <2>2. st \in Range(tr.plan) \cup {ConsiliumStage}
    BY <2>1, TrackStages DEF SentinelStage
  <2>3. r \in RolesIn(st)
    BY <1>3, <2>1 DEF RolesIn
  <2>4. CASE b.kind # "parallel_spawn"
    <3>1. st = b
      BY <1>2, <2>1, <2>2, <2>3, <2>4 DEF RolesKeepParts, Spawnable
    <3> QED BY <2>1, <2>4, <3>1
  <2> QED BY <1>3, <2>4
<1>4. CASE Plays(d, tr, r, n)
  <2>1. PICK p \in Plans[d] : \E a \in Range(p), c \in Range(tr.plan) :
           /\ LinearStage(a) /\ c.slot = a.slot /\ c.kind = a.kind
           /\ Key(a) = r /\ Key(c) = n
    BY <1>4 DEF Plays
  <2>2. PICK a \in Range(p), c \in Range(tr.plan) :
           /\ LinearStage(a) /\ c.slot = a.slot /\ c.kind = a.kind
           /\ Key(a) = r /\ Key(c) = n
    BY <2>1
  <2>3. b = c
    BY <1>1, <2>2 DEF RolesKeepParts
  <2> QED BY <1>2, <2>2, <2>3 DEF LinearStage
<1> QED BY <1>3, <1>4 DEF StandsFor

\* No member of a barrier runs under the role of a linear stage of the track.
LEMMA MemberRolesApart ==
  ASSUME WellFormedPlans, RolesKeepParts,
         NEW d \in Decisions, NEW tr \in Track, tr.plan \in Plans[d],
         NEW k, IsMember(tr, k)
  PROVE  k \in MemberKeys /\ RoleOf[k] \notin SpawnKeys(tr) \ {SentinelRole}
<1>1. PICK st \in Range(Stages(tr)) : st.kind = "parallel_spawn" /\ k \in Range(st.keys)
  BY DEF IsMember
<1>2. k \in MemberKeys /\ RoleOf[k] \in RolesIn(st) /\ RoleOf[k] \in Roles
  BY <1>1, TrackKeys, StageKeys, KeysAssumption DEF RolesIn, KeysAssumption
<1>3. ASSUME RoleOf[k] \in SpawnKeys(tr), RoleOf[k] # SentinelRole
      PROVE  FALSE
  <2>1. PICK b \in Range(Stages(tr)) : Spawnable(b) /\ RoleOf[k] \in Range(b.keys)
    BY <1>3 DEF SpawnKeys, KeysOf
  <2>2. b.kind # "parallel_spawn"
    BY <1>2, <2>1, TrackKeys, KeyKinds, KeysAssumption DEF KeysAssumption
  <2>3. Range(b.keys) = {Key(b)}
    BY <2>2, TrackKeys, StageKeys
  <2>4. RoleOf[k] \in RolesIn(b)
    BY <2>1, <2>2, <2>3 DEF RolesIn
  <2>5. StandsFor(d, tr, RoleOf[k], k)
    BY <1>2 DEF StandsFor
  <2>6. k = RoleOf[k]
    BY <1>2, <1>3, <2>1, <2>2, <2>4, <2>5, OnePartForRole
  <2> QED BY <1>2, <2>6, KeysAssumption DEF KeysAssumption
<1> QED BY <1>2, <1>3

-----------------------------------------------------------------------------
(* Updates that bind no child *)

\* Bindings are kept or dropped, and an id is parked on a stage that it was
\* bound to already.
Releases(old, new) ==
    /\ new.plan = old.plan
    /\ old.runtime = "consilium" => new.runtime = "consilium"
    /\ \A k \in Keys : /\ new.memberTasks[k] \in {old.memberTasks[k], Nil}
                       /\ new.stageTasks[k] \in {old.stageTasks[k], Nil}
    /\ \A t \in Children :
          /\ new.terminalTasks[t] \in {old.terminalTasks[t], Nil} \cup BoundNames(old, t)
          /\ new.verifyTasks[t] \in {old.verifyTasks[t], Nil}
          /\ new.releasedVerify[t] \in {old.releasedVerify[t], Nil}
                                       \cup (BoundNames(old, t) \cap Steps)

LEMMA NilIsNoName == Nil \notin Keys /\ Nil \notin Steps /\ Nil \notin Tasks /\ Nil \notin Children
  BY KeysAssumption DEF KeysAssumption, Names, Tasks

LEMMA ReleasesBindNothing ==
  ASSUME NEW old, NEW new, Releases(old, new), NEW t \in Children
  PROVE  BoundNames(new, t) \subseteq BoundNames(old, t)
<1>1. ASSUME NEW k \in Keys, new.memberTasks[k] = t \/ new.stageTasks[k] = t
      PROVE  k \in BoundNames(old, t)
  BY <1>1, NilIsNoName DEF Releases, BoundNames
<1>2. ASSUME NEW k \in Keys, new.terminalTasks[t] = k
      PROVE  k \in BoundNames(old, t)
  BY <1>2, NilIsNoName DEF Releases, BoundNames
<1>3. ASSUME NEW s \in Steps, new.verifyTasks[t] = s \/ new.releasedVerify[t] = s
      PROVE  s \in BoundNames(old, t)
  BY <1>3, NilIsNoName DEF Releases, BoundNames
<1> QED BY <1>1, <1>2, <1>3 DEF BoundNames

LEMMA ReleasesTransitive ==
  ASSUME NEW a, NEW b, NEW c, Releases(a, b), Releases(b, c)
  PROVE  Releases(a, c)
<1>1. \A t \in Children : BoundNames(b, t) \subseteq BoundNames(a, t)
  BY ReleasesBindNothing
<1> QED BY <1>1 DEF Releases

\* The plan stands, and a consilium once added is never taken away, so that a
\* name stands for what it stood for.
LEMMA StillStands ==
  ASSUME WellFormedPlans, NEW d \in Decisions, NEW old \in Track, old.plan \in Plans[d],
         NEW new \in Track, new.plan = old.plan,
         old.runtime = "consilium" => new.runtime = "consilium",
         NEW r, NEW n, StandsFor(d, old, r, n)
  PROVE  StandsFor(d, new, r, n)
<1>1. ASSUME NEW st \in Range(Stages(old)), st.kind = "parallel_spawn"
      PROVE  st \in Range(Stages(new))
  <2>1. CASE st \in Range(old.plan)
    BY <2>1, TrackStages
  <2>2. CASE st \in Range(RuntimeStages(old.runtime))
    <3>1. old.runtime = "consilium" /\ st = ConsiliumStage
      BY <1>1, <2>2 DEF RuntimeStages, SentinelStage, Range, Track, Runtimes
    <3> QED BY <3>1, TrackStages
  <2>3. old.runtime \in Runtimes
    BY DEF Track
  <2> QED BY <1>1, <2>1, <2>2, <2>3, WellFormedStages DEF Stages
<1>2. IsMember(old, n) => IsMember(new, n)
  BY <1>1 DEF IsMember
<1> QED BY <1>2 DEF StandsFor, Plays

LEMMA ReleasesCorrelated ==
  ASSUME WellFormedPlans, NEW d \in Decisions, NEW old \in Track, old.plan \in Plans[d],
         NEW new \in Track, Releases(old, new), Correlated(d, old)
  PROVE  Correlated(d, new)
<1>1. \A t \in Children : BoundNames(old, t) \cap Steps = {}
  BY NilIsNoName, KeysAssumption DEF Correlated, BoundKinds, BoundNames, KeysAssumption
<1>2. BoundKinds(new)
  BY <1>1 DEF Correlated, BoundKinds, Releases
<1>3. ASSUME NEW t \in Children
      PROVE  /\ \A n \in BoundNames(new, t) : StandsFor(d, new, TaskRole[t], n)
             /\ \A n1, n2 \in BoundNames(new, t) : n1 = n2
  <2>1. BoundNames(new, t) \subseteq BoundNames(old, t)
    BY ReleasesBindNothing
  <2>2. \A n \in BoundNames(old, t) : StandsFor(d, new, TaskRole[t], n)
    BY StillStands DEF Correlated, Releases
  <2> QED BY <2>1, <2>2 DEF Correlated
<1> QED BY <1>2, <1>3 DEF Correlated

-----------------------------------------------------------------------------
(* What an update of one stage does to the bindings of all *)

Ended(tr, k) == k \in tr.completed \cup tr.failed \cup tr.waived

EndsBySettling(old, new, k) ==
    /\ old.memberTasks[k] # Nil =>
          \/ new.memberTasks[k] = old.memberTasks[k]
          \/ new.memberTasks[k] = Nil /\ Ended(new, k)
    /\ old.stageTasks[k] # Nil =>
          \/ new.stageTasks[k] = old.stageTasks[k]
          \/ new.stageTasks[k] = Nil /\ Ended(new, k)

\* What a transaction that keeps the plan leaves behind.
Holds(d, old, new) ==
    /\ new.plan = old.plan
    /\ Correlated(d, new)
    /\ \A k \in SpawnKeys(old) : EndsBySettling(old, new, k)

\* Every stage but that of key k is as it was.
Elsewhere(old, new, k) ==
    \A x \in SpawnKeys(old) \ {k, SentinelRole} : SameStage(old, new, x)

Touches(old, new, k) ==
    /\ Releases(old, new)
    /\ Elsewhere(old, new, k)
    /\ \/ Ended(new, k)
       \/ new.memberTasks = old.memberTasks /\ new.stageTasks = old.stageTasks

LEMMA TouchesHolds ==
  ASSUME WellFormedPlans, NEW d \in Decisions, NEW old, Fit(d, old), Correlated(d, old),
         NEW new \in Track, NEW k, Touches(old, new, k)
  PROVE  Holds(d, old, new)
<1>1. /\ old \in Track /\ old.plan \in Plans[d] /\ SpawnKeys(old) \subseteq Keys
      /\ SentinelIdle(old)
  BY TrackStages DEF Fit, Good
<1>2. Correlated(d, new)
  BY <1>1, ReleasesCorrelated DEF Touches
<1>3. ASSUME NEW x \in SpawnKeys(old)
      PROVE  EndsBySettling(old, new, x)
  <2>1. CASE x = SentinelRole
    BY <1>1, <2>1 DEF SentinelIdle, EndsBySettling
  <2>2. CASE x = k
    BY <1>1, <2>2 DEF Touches, Releases, EndsBySettling
  <2>3. CASE x \notin {k, SentinelRole}
    BY <2>3 DEF Touches, Elsewhere, SameStage, EndsBySettling
  <2> QED BY <2>1, <2>2, <2>3
<1> QED BY <1>2, <1>3 DEF Holds, Touches, Releases

\* Recording what is no binding.
Steady(old, new) ==
    /\ new.plan = old.plan /\ new.runtime = old.runtime
    /\ new.memberTasks = old.memberTasks /\ new.stageTasks = old.stageTasks
    /\ \A t \in Children :
          /\ new.terminalTasks[t] \in {old.terminalTasks[t], Nil}
          /\ new.verifyTasks[t] \in {old.verifyTasks[t], Nil}
          /\ new.releasedVerify[t] \in {old.releasedVerify[t], Nil}

LEMMA SteadyHolds ==
  ASSUME WellFormedPlans, NEW d \in Decisions, NEW old, Fit(d, old), Correlated(d, old),
         NEW new \in Track, Steady(old, new)
  PROVE  Holds(d, old, new)
<1>1. old \in Track /\ old.plan \in Plans[d]
  BY DEF Fit
<1>2. Correlated(d, new)
  BY <1>1, ReleasesCorrelated DEF Steady, Releases
<1> QED BY <1>2 DEF Holds, EndsBySettling, Steady

-----------------------------------------------------------------------------
(* Results *)

\* Adding a consilium to a plan renames nothing.
LEMMA MigratedSamePlan ==
  ASSUME WellFormedPlans, NEW d \in Decisions, NEW plan \in Plans[d],
         NEW before \in Runtimes, NEW runtime \in Runtimes,
         before = "consilium" => runtime = "consilium", NEW k
  PROVE  LET old == plan \o RuntimeStages(before)
             new == plan \o RuntimeStages(runtime)
         IN  /\ Migrated(old, new, k) \subseteq {k}
             /\ k \in KeysOf(old) \ {SentinelRole} => Migrated(old, new, k) = {k}
<1> DEFINE old == plan \o RuntimeStages(before)
           new == plan \o RuntimeStages(runtime)
<1>1. /\ old \in Seq(Stage) /\ new \in Seq(Stage)
      /\ Distinct(Range(old)) /\ Distinct(Range(new))
      /\ Range(old) = Range(plan) \cup Range(RuntimeStages(before))
      /\ Range(new) = Range(plan) \cup Range(RuntimeStages(runtime))
      /\ \A st \in Range(old) : st.slot = "consilium" <=> st \notin Range(plan)
      /\ \A st \in Range(new) : st.slot = "consilium" <=> st \notin Range(plan)
      /\ Range(old) \subseteq Stage
  <2>1. \A stages \in Seq(Stage) : Range(stages) \subseteq Stage
    BY LenProperties DEF Range
  <2> QED BY <2>1, WellFormedStages
<1>2. \A run \in Runtimes : \A st \in Range(RuntimeStages(run)) :
         \/ st = ConsiliumStage /\ st.kind = "parallel_spawn" /\ run = "consilium"
         \/ st = SentinelStage /\ st.kind = "sentinel"
  BY DEF RuntimeStages, Runtimes, Range, ConsiliumStage, SentinelStage
<1> HIDE DEF old, new
<1>3. ASSUME NEW n \in Migrated(old, new, k)
      PROVE  n = k
  <2>1. PICK c \in Range(new), st \in Range(old) : Inherits(c, n, st, k)
    BY <1>1, MigratedFrom
  <2>2. c = st
    <3>1. CASE st \in Range(plan)
      BY <1>1, <2>1, <3>1 DEF Inherits, Distinct
    <3>2. CASE st \notin Range(plan)
      <4>1. c \notin Range(plan)
        BY <1>1, <2>1, <3>2 DEF Inherits
      <4> QED BY <1>1, <1>2, <2>1, <3>2, <4>1 DEF Inherits
    <3> QED BY <3>1, <3>2
  <2> QED BY <2>1, <2>2 DEF Inherits
<1>4. ASSUME k \in KeysOf(old), k # SentinelRole
      PROVE  Migrated(old, new, k) = {k}
  <2>1. PICK st \in Range(old) : k \in Range(st.keys)
    BY <1>4 DEF KeysOf
  <2>2. st # SentinelStage
    BY <1>4, <2>1 DEF SentinelStage, Range
  <2>3. st \in Range(new)
    BY <1>1, <1>2, <2>1, <2>2
  <2> QED BY <1>1, <2>1, <2>3, MigratedOnce
<1> QED BY <1>3, <1>4 DEF old, new

LEMMA ReconcileSamePlan ==
  ASSUME WellFormedPlans, NEW d \in Decisions, NEW tr \in Track, tr.plan \in Plans[d],
         NEW runtime \in Runtimes, tr.runtime = "consilium" => runtime = "consilium"
  PROVE  LET after == Reconcile(tr, tr.plan, runtime)
         IN  /\ Releases(tr, after)
             /\ \A x \in SpawnKeys(tr) \ {SentinelRole} : SameStage(tr, after, x)
<1> DEFINE old == Stages(tr)
           new == tr.plan \o RuntimeStages(runtime)
           source(n) == {k \in Keys : n \in Migrated(old, new, k)}
           pick(S, default) == IF S = {} THEN default ELSE CHOOSE v \in S : TRUE
           rekeyed(f, default, n) == pick({f[k] : k \in source(n)} \ {default}, default)
           after == Reconcile(tr, tr.plan, runtime)
<1>1. /\ tr.runtime \in Runtimes
      /\ tr.completed \subseteq Keys /\ tr.requested \subseteq Keys /\ tr.failed \subseteq Names
      /\ tr.repairFailures \in [Keys -> 0..RepairThreshold]
      /\ tr.memberTasks \in [Keys -> Tasks \cup {Nil}]
      /\ tr.stageTasks \in [Keys -> Tasks \cup {Nil}]
      /\ SpawnKeys(tr) \subseteq Keys
  BY TrackStages DEF Track
<1>2. \A k : /\ Migrated(old, new, k) \subseteq {k}
             /\ k \in SpawnKeys(tr) \ {SentinelRole} => Migrated(old, new, k) = {k}
  BY <1>1, MigratedSamePlan DEF Stages, SpawnKeys
<1>3. /\ after.completed = UNION {Migrated(old, new, k) : k \in tr.completed}
      /\ after.requested = UNION {Migrated(old, new, k) : k \in tr.requested}
      /\ after.failed = UNION {Migrated(old, new, k) : k \in tr.failed}
      /\ after.plan = tr.plan /\ after.runtime = runtime
      /\ \A n \in Keys :
            /\ after.repairFailures[n] = rekeyed(tr.repairFailures, 0, n)
            /\ after.memberTasks[n] = rekeyed(tr.memberTasks, Nil, n)
            /\ after.stageTasks[n] = rekeyed(tr.stageTasks, Nil, n)
      /\ \A t \in Tasks :
            /\ after.terminalTasks[t] = IF tr.terminalTasks[t] = Nil THEN Nil
                                        ELSE pick(Migrated(old, new, tr.terminalTasks[t]), Nil)
            /\ after.verifyTasks[t] = IF tr.verifyTasks[t] = Nil THEN Nil
                                      ELSE pick(Migrated(old, new, tr.verifyTasks[t]), Nil)
            /\ after.releasedVerify[t] = IF tr.releasedVerify[t] = Nil THEN Nil
                                         ELSE pick(Migrated(old, new, tr.releasedVerify[t]), Nil)
  BY DEF Reconcile, Track
<1> HIDE DEF old, new, after
<1>4. /\ \A n \in Keys : source(n) \in {{}, {n}}
      /\ \A n \in SpawnKeys(tr) \ {SentinelRole} : source(n) = {n}
  BY <1>1, <1>2
<1>5. /\ \A default : pick({}, default) = default
      /\ \A default, v : pick({v}, default) = v
  OBVIOUS
<1> HIDE DEF pick, source
<1>6. ASSUME NEW n \in Keys, NEW f, NEW default
      PROVE  /\ rekeyed(f, default, n) \in {f[n], default}
             /\ source(n) = {n} => rekeyed(f, default, n) = f[n]
  <2>1. CASE source(n) = {}
    <3>1. {f[k] : k \in source(n)} \ {default} = {}
      BY <2>1
    <3> QED BY <1>5, <2>1, <3>1
  <2>2. CASE source(n) = {n}
    <3>1. {f[k] : k \in source(n)} \ {default} = IF f[n] = default THEN {} ELSE {f[n]}
      BY <2>2
    <3> QED BY <1>5, <2>2, <3>1
  <2> QED BY <1>4, <2>1, <2>2
<1>7. \A v : pick(Migrated(old, new, v), Nil) \in {v, Nil}
  <2>1. \A v : Migrated(old, new, v) \in {{}, {v}}
    BY <1>2
  <2> QED BY <1>5, <2>1
<1> HIDE DEF rekeyed
<1>8. Releases(tr, after)
  <2>1. \A k \in Keys : /\ after.memberTasks[k] \in {tr.memberTasks[k], Nil}
                        /\ after.stageTasks[k] \in {tr.stageTasks[k], Nil}
    BY <1>3, <1>6
  <2>2. \A t \in Tasks : /\ after.terminalTasks[t] \in {tr.terminalTasks[t], Nil}
                         /\ after.verifyTasks[t] \in {tr.verifyTasks[t], Nil}
                         /\ after.releasedVerify[t] \in {tr.releasedVerify[t], Nil}
    BY <1>3, <1>7
  <2> QED BY <1>3, <2>1, <2>2 DEF Releases, Tasks
<1>9. ASSUME NEW x \in SpawnKeys(tr) \ {SentinelRole}
      PROVE  SameStage(tr, after, x)
  <2>1. x \in Keys /\ source(x) = {x} /\ Migrated(old, new, x) = {x}
    BY <1>1, <1>2, <1>4
  <2>2. /\ x \in tr.completed <=> x \in after.completed
        /\ x \in tr.failed <=> x \in after.failed
        /\ x \in tr.requested <=> x \in after.requested
    BY <1>2, <1>3, <2>1
  <2>3. /\ after.repairFailures[x] = tr.repairFailures[x]
        /\ after.memberTasks[x] = tr.memberTasks[x]
        /\ after.stageTasks[x] = tr.stageTasks[x]
    BY <1>3, <1>6, <2>1
  <2> QED BY <2>2, <2>3 DEF SameStage
<1> QED BY <1>8, <1>9 DEF after

LEMMA SameStageTransitive ==
  ASSUME NEW a, NEW b, NEW c, NEW k, SameStage(a, b, k), SameStage(b, c, k)
  PROVE  SameStage(a, c, k)
  BY DEF SameStage

\* Counting a failure of stage k, and the consilium that it may add, change
\* nothing of another stage.
LEMMA RepairResultElsewhere ==
  ASSUME WellFormedPlans, NEW d \in Decisions, NEW tr \in Track, tr.plan \in Plans[d],
         NEW k \in Keys, NEW ok \in BOOLEAN, NEW composable \in BOOLEAN
  PROVE  LET after == RepairResult(tr, k, ok, composable)
         IN  after \in Track /\ Releases(tr, after) /\ Elsewhere(tr, after, k)
<1> DEFINE count == IF tr.repairFailures[k] < RepairThreshold
                    THEN tr.repairFailures[k] + 1 ELSE RepairThreshold
           counted == [tr EXCEPT !.repairFailures[k] = IF ok THEN 0 ELSE count]
           after == RepairResult(tr, k, ok, composable)
<1>1. counted \in Track
  <2>1. (IF ok THEN 0 ELSE count) \in 0..RepairThreshold
    BY KeysAssumption DEF Track, KeysAssumption
  <2> HIDE DEF count
  <2> QED BY <2>1 DEF Track
<1>2. /\ Releases(tr, counted) /\ counted.plan = tr.plan /\ counted.runtime = tr.runtime
      /\ \A x \in Keys \ {k} : SameStage(tr, counted, x)
  <2> HIDE DEF count
  <2> QED BY DEF Releases, SameStage, Track
<1>3. \/ after = counted
      \/ tr.runtime # "consilium" /\ after = Reconcile(counted, tr.plan, "consilium")
      \/ tr.runtime # "consilium" /\ after = [counted EXCEPT !.runtime = "unavailable"]
  BY DEF RepairResult
<1>4. after \in Track
  BY RepairResultSound DEF Sound
<1> HIDE DEF counted, after
<1>5. SpawnKeys(counted) = SpawnKeys(tr) /\ SpawnKeys(tr) \subseteq Keys
  BY <1>2, TrackStages DEF SpawnKeys, Stages
<1>6. CASE after = counted
  BY <1>2, <1>4, <1>5, <1>6 DEF Elsewhere, after
<1>7. CASE tr.runtime # "consilium" /\ after = Reconcile(counted, tr.plan, "consilium")
  <2>1. /\ Releases(counted, after)
        /\ \A x \in SpawnKeys(tr) \ {SentinelRole} : SameStage(counted, after, x)
    BY <1>1, <1>2, <1>5, <1>7, ReconcileSamePlan DEF Runtimes
  <2>2. Releases(tr, after)
    BY <1>2, <2>1, ReleasesTransitive
  <2>3. Elsewhere(tr, after, k)
    BY <1>2, <1>5, <2>1, SameStageTransitive DEF Elsewhere
  <2> QED BY <1>4, <2>2, <2>3 DEF after
<1>8. CASE tr.runtime # "consilium" /\ after = [counted EXCEPT !.runtime = "unavailable"]
  <2>1. /\ Releases(counted, after)
        /\ \A x \in Keys : SameStage(counted, after, x)
    BY <1>1, <1>2, <1>8 DEF Releases, SameStage, Track
  <2>2. Releases(tr, after)
    BY <1>2, <2>1, ReleasesTransitive
  <2>3. Elsewhere(tr, after, k)
    BY <1>2, <1>5, <2>1, SameStageTransitive DEF Elsewhere
  <2> QED BY <1>4, <2>2, <2>3 DEF after
<1> QED BY <1>3, <1>6, <1>7, <1>8

LEMMA ApplyElsewhere ==
  ASSUME NEW tr \in Track, NEW k \in Keys, NEW ok \in BOOLEAN, NEW reopen \in BOOLEAN
  PROVE  LET after == ApplyStageResult(tr, k, ok, reopen)
         IN  /\ Releases(tr, after) /\ Ended(after, k)
             /\ \A x \in Keys \ {k} : SameStage(tr, after, x)
<1> DEFINE after == ApplyStageResult(tr, k, ok, reopen)
<1>1. CASE ok
  BY <1>1 DEF ApplyStageResult, Releases, SameStage, Ended, Track
<1>2. CASE ~ok
  <2>1. /\ after.plan = tr.plan /\ after.runtime = tr.runtime
        /\ after.failed = tr.failed \cup {k}
        /\ after.completed \in {tr.completed, tr.completed \ {k}}
        /\ after.requested \in {tr.requested, tr.requested \ {k}}
        /\ after.memberTasks = [tr.memberTasks EXCEPT ![k] = Nil]
        /\ after.stageTasks = tr.stageTasks /\ after.terminalTasks = tr.terminalTasks
        /\ after.verifyTasks = tr.verifyTasks /\ after.releasedVerify = tr.releasedVerify
        /\ after.repairFailures = tr.repairFailures
    BY <1>2 DEF ApplyStageResult, Track
  <2>2. tr.memberTasks \in [Keys -> Tasks \cup {Nil}]
    BY DEF Track
  <2> HIDE DEF after
  <2>3. Releases(tr, after)
    BY <2>1, <2>2 DEF Releases
  <2>4. \A x \in Keys \ {k} : SameStage(tr, after, x)
    BY <2>1, <2>2 DEF SameStage
  <2> QED BY <2>1, <2>3, <2>4 DEF Ended, after
<1> QED BY <1>1, <1>2

\* The binding of the role that ran is the binding of no other stage.
LEMMA RoleClearedElsewhere ==
  ASSUME WellFormedPlans, RolesKeepParts,
         NEW d \in Decisions, NEW tr \in Track, tr.plan \in Plans[d], NEW k \in Keys,
         NEW x \in SpawnKeys(tr) \ {k, SentinelRole}
  PROVE  x # ActualRole(tr, k)
  BY MemberRolesApart DEF ActualRole

\* Clearing the binding of the role that ran, then recording its result.
LEMMA CountedTouches ==
  ASSUME WellFormedPlans, RolesKeepParts,
         NEW d \in Decisions, NEW tr \in Track, tr.plan \in Plans[d], NEW k \in Keys,
         NEW cleared \in Track, Releases(tr, cleared), cleared.runtime = tr.runtime,
         \A x \in Keys \ {k, ActualRole(tr, k)} : SameStage(tr, cleared, x),
         NEW ok \in BOOLEAN, NEW composable \in BOOLEAN, NEW reopen \in BOOLEAN
  PROVE  Touches(tr, ApplyStageResult(RepairResult(cleared, k, ok, composable), k, ok, reopen), k)
<1> DEFINE mid == RepairResult(cleared, k, ok, composable)
           after == ApplyStageResult(mid, k, ok, reopen)
<1>1. cleared.plan = tr.plan /\ SpawnKeys(cleared) = SpawnKeys(tr) /\ SpawnKeys(tr) \subseteq Keys
  BY TrackStages DEF Releases, SpawnKeys, Stages
<1>2. mid \in Track /\ Releases(cleared, mid) /\ Elsewhere(cleared, mid, k)
  BY <1>1, RepairResultElsewhere
<1> HIDE DEF mid
<1>3. /\ Releases(mid, after) /\ Ended(after, k)
      /\ \A x \in Keys \ {k} : SameStage(mid, after, x)
  BY <1>2, ApplyElsewhere
<1> HIDE DEF after
<1>4. Releases(tr, after)
  BY <1>2, <1>3, ReleasesTransitive
<1>5. ASSUME NEW x \in SpawnKeys(tr) \ {k, SentinelRole}
      PROVE  SameStage(tr, after, x)
  <2>1. SameStage(tr, cleared, x)
    BY <1>1, RoleClearedElsewhere
  <2>2. SameStage(cleared, mid, x)
    BY <1>1, <1>2 DEF Elsewhere
  <2>3. SameStage(mid, after, x)
    BY <1>1, <1>3
  <2> QED BY <2>1, <2>2, <2>3, SameStageTransitive
<1>6. Touches(tr, after, k)
  BY <1>3, <1>4, <1>5 DEF Touches, Elsewhere
<1> QED BY <1>6 DEF after, mid

LEMMA ResultTouches ==
  ASSUME WellFormedPlans, RolesKeepParts,
         NEW d \in Decisions, NEW tr \in Track, tr.plan \in Plans[d], NEW k \in Keys,
         NEW ok \in BOOLEAN, NEW composable \in BOOLEAN
  PROVE  /\ Touches(tr, Recorded(tr, k, ok, composable), k)
         /\ Touches(tr, StageResult(tr, k, ok, composable), k)
         /\ \A t \in Tasks : Touches(tr, SettledRetrieval(tr, k, t, ok, composable), k)
<1>1. Touches(tr, tr, k)
  BY DEF Touches, Releases, Elsewhere, SameStage
<1>2. k \in Names /\ SpawnKeys(tr) \subseteq Keys
  BY TrackStages DEF Names
<1>3. Touches(tr, Recorded(tr, k, ok, composable), k)
  <2> DEFINE cleared == [tr EXCEPT !.stageTasks[ActualRole(tr, k)] = Nil]
  <2>1. /\ cleared \in Track /\ Releases(tr, cleared) /\ cleared.runtime = tr.runtime
        /\ \A x \in Keys \ {k, ActualRole(tr, k)} : SameStage(tr, cleared, x)
    BY DEF Releases, SameStage, Track
  <2> HIDE DEF cleared
  <2>2. Touches(tr, ApplyStageResult(RepairResult(cleared, k, ok, composable), k, ok, TRUE), k)
    BY <2>1, CountedTouches
  <2> QED BY <2>2 DEF Recorded, cleared
<1>4. ASSUME NEW t \in Tasks
      PROVE  Touches(tr, SettledRetrieval(tr, k, t, ok, composable), k)
  <2> DEFINE ended == [tr EXCEPT !.notFound[k] = Nil, !.terminalTasks[t] = Nil]
             cleared == [tr EXCEPT !.notFound[k] = Nil,
                                   !.stageTasks[ActualRole(tr, k)] = Nil,
                                   !.terminalTasks[t] = Nil]
  <2>1. Touches(tr, ended, k)
    BY <1>2 DEF Touches, Releases, Elsewhere, SameStage, Track, Tasks
  <2>2. cleared \in Track
    BY <1>2 DEF Track
  <2>3. /\ Releases(tr, cleared) /\ cleared.runtime = tr.runtime
        /\ \A x \in Keys \ {k, ActualRole(tr, k)} : SameStage(tr, cleared, x)
    BY DEF Releases, SameStage, Track, Tasks
  <2> HIDE DEF cleared, ended
  <2>4. Touches(tr, ApplyStageResult(RepairResult(cleared, k, ok, composable), k, ok, FALSE), k)
    BY <2>2, <2>3, CountedTouches
  <2> QED BY <2>1, <2>4 DEF SettledRetrieval, ended, cleared
<1> QED BY <1>1, <1>3, <1>4 DEF StageResult

LEMMA DischargedTouches ==
  ASSUME WellFormedPlans, RolesKeepParts,
         NEW d \in Decisions, NEW tr \in Track, tr.plan \in Plans[d], NEW k \in Keys,
         NEW t \in Tasks
  PROVE  Touches(tr, Discharged(tr, k, t), k)
<1> DEFINE after == Discharged(tr, k, t)
<1>1. /\ after.plan = tr.plan /\ after.runtime = tr.runtime
      /\ after.waived = tr.waived \cup {k} /\ after.completed = tr.completed
      /\ after.failed = tr.failed /\ after.requested = tr.requested \ {k}
      /\ after.repairFailures = tr.repairFailures
      /\ after.memberTasks = [tr.memberTasks EXCEPT ![k] = Nil]
      /\ after.stageTasks = [tr.stageTasks EXCEPT ![ActualRole(tr, k)] = Nil]
      /\ after.terminalTasks = [tr.terminalTasks EXCEPT ![t] = Nil]
      /\ after.verifyTasks = tr.verifyTasks /\ after.releasedVerify = tr.releasedVerify
  BY DEF Discharged, Track
<1>2. /\ tr.memberTasks \in [Keys -> Tasks \cup {Nil}]
      /\ tr.stageTasks \in [Keys -> Tasks \cup {Nil}]
      /\ tr.terminalTasks \in [Tasks -> Keys \cup {Nil}]
      /\ SpawnKeys(tr) \subseteq Keys
  BY TrackStages DEF Track
<1> HIDE DEF after
<1>3. Releases(tr, after)
  BY <1>1, <1>2 DEF Releases, Tasks
<1>4. ASSUME NEW x \in SpawnKeys(tr) \ {k, SentinelRole}
      PROVE  SameStage(tr, after, x)
  BY <1>1, <1>2, RoleClearedElsewhere DEF SameStage
<1>5. Touches(tr, after, k)
  BY <1>1, <1>3, <1>4 DEF Touches, Elsewhere, Ended
<1> QED BY <1>5 DEF after

\* A lookup that finds no child, of a stage that the child is bound to.
LEMMA NotFoundTouches ==
  ASSUME WellFormedPlans, NEW d \in Decisions, NEW tr \in Track, tr.plan \in Plans[d],
         NEW t \in Tasks, NEW n \in BoundNames(tr, t), NEW job
  PROVE  Touches(tr, NotFound(tr, n, t, job), n)
<1> DEFINE after == NotFound(tr, n, t, job)
<1>1. /\ tr.memberTasks \in [Keys -> Tasks \cup {Nil}]
      /\ tr.stageTasks \in [Keys -> Tasks \cup {Nil}]
      /\ tr.terminalTasks \in [Tasks -> Keys \cup {Nil}]
      /\ SpawnKeys(tr) \subseteq Keys
  BY TrackStages DEF Track
<1>2. CASE /\ after.memberTasks = tr.memberTasks /\ after.stageTasks = tr.stageTasks
           /\ after.requested = tr.requested /\ after.failed = tr.failed
           /\ after.terminalTasks \in {tr.terminalTasks, [tr.terminalTasks EXCEPT ![t] = n]}
           /\ after.verifyTasks = tr.verifyTasks
           /\ \A u \in Tasks : after.releasedVerify[u] \in
                 {tr.releasedVerify[u]} \cup (IF u = t THEN {n} \cap Steps ELSE {})
           /\ after.plan = tr.plan /\ after.runtime = tr.runtime
           /\ after.completed = tr.completed /\ after.repairFailures = tr.repairFailures
  <2> HIDE DEF after
  <2>1. Releases(tr, after)
    BY <1>1, <1>2 DEF Releases, Tasks
  <2>2. Elsewhere(tr, after, n)
    BY <1>2 DEF Elsewhere, SameStage
  <2>3. Touches(tr, after, n)
    BY <1>2, <2>1, <2>2 DEF Touches
  <2> QED BY <2>3 DEF after
<1>3. CASE /\ \A k \in Keys :
                 /\ after.memberTasks[k] = IF k = n THEN Nil ELSE tr.memberTasks[k]
                 /\ after.stageTasks[k] = IF k = n THEN Nil ELSE tr.stageTasks[k]
           /\ after.requested = tr.requested \ {n} /\ after.failed = tr.failed \cup {n}
           /\ after.terminalTasks \in {tr.terminalTasks, [tr.terminalTasks EXCEPT ![t] = n]}
           /\ \A u \in Tasks : after.verifyTasks[u] \in {tr.verifyTasks[u], Nil}
           /\ \A u \in Tasks : after.releasedVerify[u] \in
                 {tr.releasedVerify[u]} \cup (IF u = t THEN {n} \cap Steps ELSE {})
           /\ after.plan = tr.plan /\ after.runtime = tr.runtime
           /\ after.completed = tr.completed /\ after.repairFailures = tr.repairFailures
  <2> HIDE DEF after
  <2>1. Releases(tr, after)
    BY <1>1, <1>3 DEF Releases, Tasks
  <2>2. Elsewhere(tr, after, n)
    BY <1>1, <1>3 DEF Elsewhere, SameStage
  <2>3. Touches(tr, after, n)
    BY <1>3, <2>1, <2>2 DEF Touches, Ended
  <2> QED BY <2>3 DEF after
<1>4. tr.releasedVerify \in [Tasks -> Steps \cup {Nil}] /\ tr.verifyTasks \in [Tasks -> Steps \cup {Nil}]
  BY DEF Track
<1>5. CASE tr.notFound[n] # t
  <2>1. after = [tr EXCEPT !.notFound[n] = t]
    BY <1>5 DEF NotFound
  <2>2. \A u \in Tasks : after.releasedVerify[u] = tr.releasedVerify[u]
    BY <2>1 DEF Track
  <2> QED BY <1>2, <2>1, <2>2 DEF Track
<1>6. CASE tr.notFound[n] = t
  <2> DEFINE streakOver == [tr EXCEPT !.notFound[n] = Nil]
             parked == IF n \in Steps
                       THEN [streakOver EXCEPT !.releasedVerify[t] = n]
                       ELSE [streakOver EXCEPT !.terminalTasks[t] = n]
             unbound(f) == [k \in Keys |-> IF k = n THEN Nil ELSE f[k]]
             freed == [parked EXCEPT !.memberTasks = unbound(@),
                                     !.stageTasks = unbound(@),
                                     !.verifyTasks[t] = Nil,
                                     !.requested = @ \ {n},
                                     !.failed = @ \cup {n}]
  <2>1. after = IF HeldByOther(tr, n, t, job) THEN parked ELSE freed
    BY <1>6 DEF NotFound
  <2>2. /\ parked.memberTasks = tr.memberTasks /\ parked.stageTasks = tr.stageTasks
        /\ parked.requested = tr.requested /\ parked.failed = tr.failed
        /\ parked.verifyTasks = tr.verifyTasks
        /\ parked.plan = tr.plan /\ parked.runtime = tr.runtime
        /\ parked.completed = tr.completed /\ parked.repairFailures = tr.repairFailures
        /\ parked.terminalTasks \in {tr.terminalTasks, [tr.terminalTasks EXCEPT ![t] = n]}
        /\ \A u \in Tasks : parked.releasedVerify[u] \in
              {tr.releasedVerify[u]} \cup (IF u = t THEN {n} \cap Steps ELSE {})
        /\ DOMAIN parked = DOMAIN tr
    BY <1>4 DEF Track
  <2> HIDE DEF parked
  <2>3. CASE after = parked
    BY <1>2, <2>2, <2>3
  <2>4. CASE after = freed
    <3>1. {"memberTasks", "stageTasks", "verifyTasks", "requested", "failed", "plan", "runtime",
           "completed", "repairFailures", "terminalTasks", "releasedVerify"} \subseteq DOMAIN parked
      BY <2>2 DEF Track
    <3>2. /\ freed.memberTasks = unbound(tr.memberTasks)
          /\ freed.stageTasks = unbound(tr.stageTasks)
          /\ freed.verifyTasks = [tr.verifyTasks EXCEPT ![t] = Nil]
          /\ freed.requested = tr.requested \ {n} /\ freed.failed = tr.failed \cup {n}
          /\ freed.plan = tr.plan /\ freed.runtime = tr.runtime
          /\ freed.completed = tr.completed /\ freed.repairFailures = tr.repairFailures
          /\ freed.terminalTasks = parked.terminalTasks
          /\ freed.releasedVerify = parked.releasedVerify
      BY <2>2, <3>1
    <3>3. /\ \A u \in Tasks : freed.verifyTasks[u] \in {tr.verifyTasks[u], Nil}
          /\ \A k \in Keys : /\ freed.memberTasks[k] = IF k = n THEN Nil ELSE tr.memberTasks[k]
                             /\ freed.stageTasks[k] = IF k = n THEN Nil ELSE tr.stageTasks[k]
      BY <1>4, <3>2
    <3> HIDE DEF freed, after
    <3> QED BY <1>3, <2>2, <2>4, <3>2, <3>3
  <2> QED BY <2>1, <2>3, <2>4
<1> QED BY <1>5, <1>6

-----------------------------------------------------------------------------
(* Binding a child *)

\* A child that takes a member stood for nothing: a member would have kept it
\* from a second one, and its role plays no linear part.
LEMMA MemberBindingHolds ==
  ASSUME WellFormedPlans, RolesKeepParts,
         NEW d \in Decisions, NEW old, Fit(d, old), Correlated(d, old),
         NEW t \in Children, NEW k \in Keys, IsMember(old, k), RoleOf[k] = TaskRole[t],
         old.memberTasks[k] = Nil,
         \A x \in Keys : old.memberTasks[x] # t, ~ParkedMember(old, t),
         NEW new \in Track, new.plan = old.plan, new.runtime = old.runtime,
         new.memberTasks = [old.memberTasks EXCEPT ![k] = t],
         new.stageTasks = old.stageTasks, new.terminalTasks = old.terminalTasks,
         new.verifyTasks = old.verifyTasks, new.releasedVerify = old.releasedVerify
  PROVE  Holds(d, old, new)
<1>1. /\ old \in Track /\ old.plan \in Plans[d] /\ BoundKinds(old)
      /\ old.memberTasks \in [Keys -> Tasks \cup {Nil}]
      /\ TaskRole[t] \in Roles \ {SentinelRole} /\ t # Nil
      /\ SpawnKeys(old) \subseteq Keys
  BY DecisionsAssumption, NilIsNoName, TrackStages DEF Fit, Correlated, Track, DecisionsAssumption
<1>2. PICK st \in Range(Stages(old)) : st.kind = "parallel_spawn" /\ k \in Range(st.keys)
  BY DEF IsMember
<1>3. k \in MemberKeys /\ TaskRole[t] \in RolesIn(st) /\ Spawnable(st)
  BY <1>1, <1>2, TrackKeys, StageKeys DEF RolesIn, Spawnable
<1>4. BoundNames(old, t) = {}
  <2>1. SUFFICES ASSUME NEW n \in BoundNames(old, t) PROVE FALSE
    OBVIOUS
  <2>2. StandsFor(d, old, TaskRole[t], n)
    BY DEF Correlated
  <2>3. n \in MemberKeys /\ IsMember(old, n)
    BY <1>1, <1>2, <1>3, <2>2, OnePartForRole
  <2>4. n \in Keys /\ n \notin Roles /\ n \notin Steps
    BY <2>3, KeysAssumption DEF KeysAssumption, Keys
  <2>5. old.stageTasks[n] # t /\ old.terminalTasks[t] # n
    BY <1>1, <2>3, <2>4, NilIsNoName DEF BoundKinds, ParkedMember
  <2> QED BY <2>1, <2>4, <2>5 DEF BoundNames
<1>5. BoundNames(new, t) \subseteq {k}
  BY <1>1, <1>4 DEF BoundNames
<1>6. \A u \in Children \ {t} : BoundNames(new, u) \subseteq BoundNames(old, u)
  BY <1>1 DEF BoundNames
<1>7. BoundKinds(new)
  BY <1>1, <1>3 DEF BoundKinds
<1>8. \A r, n : StandsFor(d, old, r, n) => StandsFor(d, new, r, n)
  BY <1>1, StillStands
<1>9. StandsFor(d, new, TaskRole[t], k)
  BY <1>3, <1>8 DEF StandsFor
<1>10. Correlated(d, new)
  <2>1. ASSUME NEW u \in Children
        PROVE  /\ \A n \in BoundNames(new, u) : StandsFor(d, new, TaskRole[u], n)
               /\ \A n1, n2 \in BoundNames(new, u) : n1 = n2
    <3>1. CASE u = t
      BY <1>5, <1>9, <3>1
    <3>2. CASE u # t
      BY <1>6, <1>8, <3>2 DEF Correlated
    <3> QED BY <3>1, <3>2
  <2> QED BY <1>7, <2>1 DEF Correlated
<1>11. \A x \in SpawnKeys(old) : EndsBySettling(old, new, x)
  BY <1>1 DEF EndsBySettling
<1> QED BY <1>10, <1>11 DEF Holds

\* What a child that takes a linear stage already stood for is that stage.
LEMMA StageBindingHolds ==
  ASSUME WellFormedPlans, RolesKeepParts,
         NEW d \in Decisions, NEW old, Fit(d, old), Correlated(d, old),
         NEW t \in Children, NEW st \in Range(Stages(old)), LinearStage(st),
         Key(st) = TaskRole[t], old.stageTasks[TaskRole[t]] = Nil,
         NEW new \in Track, new.plan = old.plan, new.runtime = old.runtime,
         new.stageTasks = [old.stageTasks EXCEPT ![TaskRole[t]] = t],
         new.memberTasks = old.memberTasks, new.terminalTasks = old.terminalTasks,
         new.verifyTasks = old.verifyTasks, new.releasedVerify = old.releasedVerify
  PROVE  Holds(d, old, new)
<1> DEFINE r == TaskRole[t]
<1>1. /\ old \in Track /\ old.plan \in Plans[d] /\ BoundKinds(old)
      /\ old.stageTasks \in [Keys -> Tasks \cup {Nil}]
      /\ r \in Roles \ {SentinelRole} /\ r \in Keys /\ t # Nil
      /\ SpawnKeys(old) \subseteq Keys
  <2>1. old \in Track /\ old.plan \in Plans[d] /\ BoundKinds(old)
    BY DEF Fit, Correlated
  <2>2. r \in Roles \ {SentinelRole} /\ r \in Keys
    BY DecisionsAssumption DEF DecisionsAssumption, Keys
  <2>3. old.stageTasks \in [Keys -> Tasks \cup {Nil}]
    BY <2>1 DEF Track
  <2> QED BY <2>1, <2>2, <2>3, NilIsNoName, TrackStages
<1>2. Spawnable(st) /\ st.kind # "parallel_spawn" /\ r \in RolesIn(st)
  BY DEF LinearStage, Spawnable, RolesIn
<1>3. st \in Range(old.plan)
  BY <1>1, <1>2, TrackStages DEF ConsiliumStage, SentinelStage, Key
<1> HIDE DEF r
<1>4. BoundNames(old, t) \subseteq {r}
  <2>1. SUFFICES ASSUME NEW n \in BoundNames(old, t) PROVE n = r
    OBVIOUS
  <2>2. StandsFor(d, old, r, n)
    BY DEF Correlated, r
  <2> QED BY <1>1, <1>2, <2>2, OnePartForRole
<1>5. BoundNames(new, t) \subseteq {r}
  BY <1>1, <1>4 DEF BoundNames, r
<1>6. \A u \in Children \ {t} : BoundNames(new, u) \subseteq BoundNames(old, u)
  BY <1>1 DEF BoundNames, r
<1>7. BoundKinds(new)
  BY <1>1 DEF BoundKinds, r
<1>8. \A q, n : StandsFor(d, old, q, n) => StandsFor(d, new, q, n)
  BY <1>1, StillStands
<1>9. StandsFor(d, new, r, r)
  <2>1. Plays(d, new, r, r)
    BY <1>1, <1>3 DEF Plays, r
  <2> QED BY <2>1 DEF StandsFor
<1>10. Correlated(d, new)
  <2>1. ASSUME NEW u \in Children
        PROVE  /\ \A n \in BoundNames(new, u) : StandsFor(d, new, TaskRole[u], n)
               /\ \A n1, n2 \in BoundNames(new, u) : n1 = n2
    <3>1. CASE u = t
      BY <1>5, <1>9, <3>1 DEF r
    <3>2. CASE u # t
      BY <1>6, <1>8, <3>2 DEF Correlated
    <3> QED BY <3>1, <3>2
  <2> QED BY <1>7, <2>1 DEF Correlated
<1>11. \A x \in SpawnKeys(old) : EndsBySettling(old, new, x)
  BY <1>1 DEF EndsBySettling, r
<1> QED BY <1>10, <1>11 DEF Holds

LEMMA UntouchedHolds ==
  ASSUME NEW d, NEW tr, Correlated(d, tr)
  PROVE  Holds(d, tr, tr)
  BY DEF Holds, EndsBySettling

LEMMA MemberBoundHolds ==
  ASSUME WellFormedPlans, RolesKeepParts,
         NEW d \in Decisions, NEW tr, Fit(d, tr), Correlated(d, tr), NEW t \in Children
  PROVE  Holds(d, tr, MemberBound(tr, TaskRole[t], t))
<1> DEFINE r == TaskRole[t]
           k == FirstBindable(tr, r)
           after == [tr EXCEPT !.memberTasks[k] = t]
<1>1. tr \in Track /\ t \in Tasks
  BY DEF Fit, Tasks
<1>2. CASE MemberBound(tr, r, t) = tr
  BY <1>2, UntouchedHolds
<1>3. CASE /\ MemberBound(tr, r, t) = after
           /\ \A x \in Keys : tr.memberTasks[x] # t
           /\ ~ParkedMember(tr, t) /\ BindableMembers(tr, r) # {}
  <2>1. k \in Keys /\ IsMember(tr, k) /\ RoleOf[k] = r /\ tr.memberTasks[k] = Nil
    BY <1>1, <1>3, FirstBindableMember DEF Keys
  <2> HIDE DEF k
  <2>2. /\ after \in Track /\ after.plan = tr.plan /\ after.runtime = tr.runtime
        /\ after.memberTasks = [tr.memberTasks EXCEPT ![k] = t]
        /\ after.stageTasks = tr.stageTasks /\ after.terminalTasks = tr.terminalTasks
        /\ after.verifyTasks = tr.verifyTasks /\ after.releasedVerify = tr.releasedVerify
    BY <1>1, <2>1 DEF Track
  <2> HIDE DEF after
  <2> QED BY <1>3, <2>1, <2>2, MemberBindingHolds
<1> QED BY <1>2, <1>3 DEF MemberBound

LEMMA LinearBoundHolds ==
  ASSUME WellFormedPlans, RolesKeepParts,
         NEW d \in Decisions, NEW tr, Fit(d, tr), Correlated(d, tr), NEW t \in Children
  PROVE  Holds(d, tr, LinearBound(tr, TaskRole[t], t))
<1> DEFINE r == TaskRole[t]
           after == [tr EXCEPT !.stageTasks[r] = t]
<1>1. tr \in Track /\ t \in Tasks /\ r \in Keys
  BY DecisionsAssumption DEF Fit, Tasks, DecisionsAssumption, Keys
<1>2. CASE ~LinearBindable(tr, r, t)
  BY <1>2, UntouchedHolds DEF LinearBound
<1>3. CASE LinearBindable(tr, r, t)
  <2>1. /\ \E st \in Range(Stages(tr)) : LinearStage(st) /\ Key(st) = r
        /\ tr.stageTasks[r] = Nil
    BY <1>3 DEF LinearBindable, LinearStage
  <2> HIDE DEF r
  <2>2. /\ after \in Track /\ after.plan = tr.plan /\ after.runtime = tr.runtime
        /\ after.stageTasks = [tr.stageTasks EXCEPT ![r] = t]
        /\ after.memberTasks = tr.memberTasks /\ after.terminalTasks = tr.terminalTasks
        /\ after.verifyTasks = tr.verifyTasks /\ after.releasedVerify = tr.releasedVerify
    BY <1>1 DEF Track
  <2> HIDE DEF after
  <2>3. Holds(d, tr, after)
    BY <2>1, <2>2, StageBindingHolds DEF r
  <2> QED BY <1>3, <2>3 DEF LinearBound, after, r
<1> QED BY <1>2, <1>3

\* A debt is claimed under the role of the child, too.
LEMMA DebtBoundHolds ==
  ASSUME WellFormedPlans, RolesKeepParts,
         NEW d \in Decisions, NEW tr, Fit(d, tr), Correlated(d, tr), NEW t \in Children,
         NEW st \in Range(Stages(tr)), NEW k \in DebtKeys(tr, st, TaskRole[t]),
         \A x \in Keys : t \notin {tr.memberTasks[x], tr.stageTasks[x]}, ~ParkedMember(tr, t)
  PROVE  Holds(d, tr, DebtBound(tr, k, t))
<1> DEFINE r == TaskRole[t]
           after == DebtBound(tr, k, t)
<1>1. tr \in Track /\ t \in Tasks /\ r \in Roles /\ k \in Keys
  BY DecisionsAssumption, DebtKeyType DEF Fit, Tasks, DecisionsAssumption
<1>2. CASE st.kind = "parallel_spawn"
  <2>1. IsMember(tr, k) /\ RoleOf[k] = r /\ tr.memberTasks[k] = Nil
    BY <1>1, <1>2, TrackKeys DEF DebtKeys, IsMember
  <2>2. /\ after \in Track /\ after.plan = tr.plan /\ after.runtime = tr.runtime
        /\ after.memberTasks = [tr.memberTasks EXCEPT ![k] = t]
        /\ after.stageTasks = tr.stageTasks /\ after.terminalTasks = tr.terminalTasks
        /\ after.verifyTasks = tr.verifyTasks /\ after.releasedVerify = tr.releasedVerify
    <3>1. after = [tr EXCEPT !.requested = @ \cup {k}, !.memberTasks[k] = t]
      BY <2>1 DEF DebtBound
    <3> HIDE DEF after
    <3> QED BY <1>1, <3>1 DEF Track
  <2> HIDE DEF after
  <2>3. Holds(d, tr, after)
    BY <1>1, <2>1, <2>2, MemberBindingHolds
  <2> QED BY <2>3 DEF after
<1>3. CASE st.kind # "parallel_spawn"
  <2>1. k = r /\ LinearStage(st) /\ Key(st) = r /\ tr.stageTasks[r] = Nil
    BY <1>3 DEF DebtKeys, LinearStage
  <2>2. ~IsMember(tr, k)
    BY <1>1, <2>1, TrackKeys, StageKeys, KeysAssumption DEF IsMember, KeysAssumption
  <2>3. /\ after \in Track /\ after.plan = tr.plan /\ after.runtime = tr.runtime
        /\ after.stageTasks = [tr.stageTasks EXCEPT ![k] = t]
        /\ after.memberTasks = tr.memberTasks /\ after.terminalTasks = tr.terminalTasks
        /\ after.verifyTasks = tr.verifyTasks /\ after.releasedVerify = tr.releasedVerify
    BY <1>1, <2>2 DEF Track, DebtBound
  <2> HIDE DEF after
  <2>4. Holds(d, tr, after)
    BY <2>1, <2>3, StageBindingHolds
  <2> QED BY <2>4 DEF after
<1> QED BY <1>2, <1>3

-----------------------------------------------------------------------------
(* Re-deriving the plan *)

LEMMA NewTrackCorrelated ==
  ASSUME NEW d, NEW plan
  PROVE  Correlated(d, NewTrack(plan))
<1>1. \A t \in Children : BoundNames(NewTrack(plan), t) = {}
  BY NilIsNoName DEF BoundNames, NewTrack, Tasks
<1> QED BY <1>1 DEF Correlated, BoundKinds, NewTrack, Tasks

\* A binding follows its stage to the stage of the same part, whose name is the
\* only one the child stands for afterwards.
LEMMA ReconcileCorrelated ==
  ASSUME WellFormedPlans, NEW d \in Decisions, NEW tr \in Track, tr.plan \in Plans[d],
         Correlated(d, tr), NEW plan \in Plans[d]
  PROVE  Correlated(d, Reconcile(tr, plan, tr.runtime))
<1> DEFINE old == Stages(tr)
           new == plan \o RuntimeStages(tr.runtime)
           source(n) == {k \in Keys : n \in Migrated(old, new, k)}
           pick(S, default) == IF S = {} THEN default ELSE CHOOSE v \in S : TRUE
           rekeyed(f, n) == pick({f[k] : k \in source(n)} \ {Nil}, Nil)
           after == Reconcile(tr, plan, tr.runtime)
<1>1. /\ tr.runtime \in Runtimes /\ plan \in Seq(Stage)
      /\ tr.terminalTasks \in [Tasks -> Keys \cup {Nil}]
  BY DecisionsAssumption DEF Track, DecisionsAssumption
<1>2. /\ old \in Seq(Stage) /\ new \in Seq(Stage)
      /\ Distinct(Range(old)) /\ Distinct(Range(new))
      /\ Range(old) = Range(tr.plan) \cup Range(RuntimeStages(tr.runtime))
      /\ Range(new) = Range(plan) \cup Range(RuntimeStages(tr.runtime))
      /\ Range(tr.plan) \subseteq Range(old)
      /\ \A st \in Range(old) : st.slot = "consilium" <=> st \notin Range(tr.plan)
      /\ \A st \in Range(new) : st.slot = "consilium" <=> st \notin Range(plan)
  BY <1>1, WellFormedStages DEF Stages
<1>3. after \in Track
  BY <1>1, ReconcileType
<1>4. /\ after.plan = plan /\ Stages(after) = new
      /\ \A n \in Keys : /\ after.memberTasks[n] = rekeyed(tr.memberTasks, n)
                         /\ after.stageTasks[n] = rekeyed(tr.stageTasks, n)
      /\ \A t \in Tasks :
            /\ after.terminalTasks[t] = IF tr.terminalTasks[t] = Nil THEN Nil
                                        ELSE pick(Migrated(old, new, tr.terminalTasks[t]), Nil)
            /\ tr.verifyTasks[t] = Nil => after.verifyTasks[t] = Nil
            /\ tr.releasedVerify[t] = Nil => after.releasedVerify[t] = Nil
  BY DEF Reconcile, Track, Stages
<1>5. ASSUME NEW S, NEW default
      PROVE  pick(S, default) # default => pick(S, default) \in S
  OBVIOUS
<1>6. /\ Range(old) \subseteq Stage /\ Range(new) \subseteq Stage
  BY <1>2, LenProperties DEF Range
<1> HIDE DEF old, new, after, pick, source
<1>7. ASSUME NEW n, NEW f, rekeyed(f, n) # Nil
      PROVE  \E k \in Keys : n \in Migrated(old, new, k) /\ rekeyed(f, n) = f[k]
  <2>1. rekeyed(f, n) \in {f[k] : k \in source(n)}
    BY <1>5, <1>7
  <2> HIDE DEF rekeyed
  <2>2. PICK k \in source(n) : rekeyed(f, n) = f[k]
    BY <2>1
  <2> QED BY <2>2 DEF source
<1> HIDE DEF rekeyed
\* Names move with their stages.
<1>8. ASSUME NEW k, NEW n \in Migrated(old, new, k)
      PROVE  \E c \in Range(new), st \in Range(old) : Inherits(c, n, st, k)
  BY <1>2, MigratedFrom
<1>9. ASSUME NEW k, NEW n1 \in Migrated(old, new, k), NEW n2 \in Migrated(old, new, k)
      PROVE  n1 = n2
  <2>1. PICK c1 \in Range(new), s1 \in Range(old) : Inherits(c1, n1, s1, k)
    BY <1>8
  <2>2. PICK c2 \in Range(new), s2 \in Range(old) : Inherits(c2, n2, s2, k)
    BY <1>8
  <2>3. s1 = s2
    BY <1>2, <2>1, <2>2 DEF Distinct, Inherits
  <2>4. c1 = c2
    BY <1>2, <2>1, <2>2, <2>3 DEF Distinct, Inherits
  <2>5. c1.kind # "parallel_spawn" => Range(c1.keys) = {Key(c1)}
    BY <1>6, StageKeys
  <2> QED BY <2>1, <2>2, <2>4, <2>5 DEF Inherits
<1>10. ASSUME NEW k, NEW n \in Migrated(old, new, k)
       PROVE  /\ k \in Keys => n \in Keys
              /\ k \in MemberKeys => n = k
              /\ k \in Roles => n \in Roles
  <2>1. PICK c \in Range(new), st \in Range(old) : Inherits(c, n, st, k)
    BY <1>8
  <2>2. c \in Stage /\ st \in Stage
    BY <1>6
  <2> QED BY <2>1, <2>2, KeyKinds, StageKeys, KeysAssumption
      DEF Inherits, Keys, Names, KeysAssumption
<1>11. ASSUME NEW t \in Children, NEW n \in BoundNames(after, t)
       PROVE  \E k \in BoundNames(tr, t) : n \in Migrated(old, new, k)
  <2>1. /\ t \in Tasks /\ after.verifyTasks[t] = Nil /\ after.releasedVerify[t] = Nil
    BY <1>4 DEF Tasks, Correlated, BoundKinds
  <2>2. n \in Keys
    BY <2>1, NilIsNoName DEF BoundNames
  <2>3. CASE after.memberTasks[n] = t
    BY <1>4, <1>7, <2>2, <2>3, NilIsNoName DEF BoundNames
  <2>4. CASE after.stageTasks[n] = t
    BY <1>4, <1>7, <2>2, <2>4, NilIsNoName DEF BoundNames
  <2>5. CASE after.terminalTasks[t] = n
    <3>1. tr.terminalTasks[t] \in Keys
      BY <1>1, <1>4, <2>1, <2>2, <2>5, NilIsNoName
    <3>2. n \in Migrated(old, new, tr.terminalTasks[t])
      BY <1>4, <1>5, <2>1, <2>2, <2>5, NilIsNoName
    <3> QED BY <3>1, <3>2 DEF BoundNames
  <2> QED BY <2>1, <2>2, <2>3, <2>4, <2>5, NilIsNoName DEF BoundNames
<1>12. ASSUME NEW r, NEW k, StandsFor(d, tr, r, k), NEW n \in Migrated(old, new, k)
       PROVE  StandsFor(d, after, r, n)
  <2>1. PICK c \in Range(new), st \in Range(old) : Inherits(c, n, st, k)
    BY <1>8
  <2>2. c \in Stage /\ st \in Stage
    BY <1>6
  <2>3. CASE k \in MemberKeys /\ RoleOf[k] = r /\ IsMember(tr, k)
    <3>1. c.kind = "parallel_spawn" /\ n = k
      BY <2>1, <2>2, <2>3, KeyKinds DEF Inherits
    <3>2. IsMember(after, n)
      BY <1>4, <2>1, <3>1 DEF IsMember, Inherits
    <3> QED BY <2>3, <3>1, <3>2 DEF StandsFor
  <2>4. CASE Plays(d, tr, r, k)
    <3>1. PICK p \in Plans[d] : \E a \in Range(p), b \in Range(tr.plan) :
             /\ LinearStage(a) /\ b.slot = a.slot /\ b.kind = a.kind
             /\ Key(a) = r /\ Key(b) = k
      BY <2>4 DEF Plays
    <3>2. PICK a \in Range(p), b \in Range(tr.plan) :
             /\ LinearStage(a) /\ b.slot = a.slot /\ b.kind = a.kind
             /\ Key(a) = r /\ Key(b) = k
      BY <3>1
    <3>3. b \in Range(old) /\ k \in Range(b.keys)
      BY <1>2, <1>6, <3>2, StageKeys
    <3>4. st = b
      BY <1>2, <2>1, <3>3 DEF Distinct, Inherits
    <3>5. c \in Range(plan)
      BY <1>2, <2>1, <3>2, <3>3, <3>4 DEF Inherits
    <3>6. c.kind # "parallel_spawn" /\ Key(c) = n
      BY <2>1, <2>2, <3>2, <3>4, StageKeys DEF Inherits, LinearStage
    <3>7. Plays(d, after, r, n)
      BY <1>4, <2>1, <3>2, <3>4, <3>5, <3>6 DEF Plays, Inherits
    <3> QED BY <3>7 DEF StandsFor
  <2> QED BY <1>12, <2>3, <2>4 DEF StandsFor
<1>13. BoundKinds(after)
  <2>1. ASSUME NEW n \in Keys, after.memberTasks[n] # Nil
        PROVE  n \in MemberKeys
    <3>1. PICK k \in Keys : n \in Migrated(old, new, k) /\ tr.memberTasks[k] # Nil
      BY <1>4, <1>7, <2>1
    <3> QED BY <1>10, <3>1 DEF Correlated, BoundKinds
  <2>2. ASSUME NEW n \in Keys, after.stageTasks[n] # Nil
        PROVE  n \in Roles
    <3>1. PICK k \in Keys : n \in Migrated(old, new, k) /\ tr.stageTasks[k] # Nil
      BY <1>4, <1>7, <2>2
    <3> QED BY <1>10, <3>1 DEF Correlated, BoundKinds
  <2>3. \A t \in Children : after.verifyTasks[t] = Nil /\ after.releasedVerify[t] = Nil
    BY <1>4 DEF Tasks, Correlated, BoundKinds
  <2> QED BY <2>1, <2>2, <2>3 DEF BoundKinds
<1>14. ASSUME NEW t \in Children
       PROVE  /\ \A n \in BoundNames(after, t) : StandsFor(d, after, TaskRole[t], n)
              /\ \A n1, n2 \in BoundNames(after, t) : n1 = n2
  <2>1. \A n \in BoundNames(after, t) : \E k \in BoundNames(tr, t) : n \in Migrated(old, new, k)
    BY <1>11
  <2>2. /\ \A k \in BoundNames(tr, t) : StandsFor(d, tr, TaskRole[t], k)
        /\ \A k1, k2 \in BoundNames(tr, t) : k1 = k2
    BY DEF Correlated
  <2> QED BY <1>9, <1>12, <2>1, <2>2
<1> QED BY <1>13, <1>14 DEF Correlated, after

LEMMA EnsuredHolds ==
  ASSUME WellFormedPlans, NEW d \in Decisions, NEW tr, Fit(d, tr), Correlated(d, tr),
         NEW plan \in Plans[d]
  PROVE  /\ Correlated(d, Ensured(tr, plan))
         /\ plan = tr.plan => Holds(d, tr, Ensured(tr, plan))
<1> DEFINE middle == Reconcile(tr, plan, tr.runtime)
           after == [middle EXCEPT !.waived = {}]
<1>1. tr \in Track /\ tr.plan \in Plans[d] /\ tr.runtime \in Runtimes /\ plan \in Seq(Stage)
      /\ SentinelIdle(tr)
  BY DecisionsAssumption DEF Fit, Good, Track, DecisionsAssumption
<1>2. CASE Ensured(tr, plan) = tr /\ plan = tr.plan
  BY <1>2, UntouchedHolds
<1>3. CASE Ensured(tr, plan) = after
  <2>1. middle \in Track /\ Correlated(d, middle) /\ middle.plan = plan
    <3>1. middle.plan = plan
      BY <1>1 DEF Reconcile, Track
    <3> QED BY <1>1, <3>1, ReconcileType, ReconcileCorrelated
  <2>2. ASSUME plan = tr.plan
        PROVE  Releases(tr, middle) /\ Elsewhere(tr, middle, SentinelRole)
    BY <1>1, <2>2, ReconcileSamePlan DEF Elsewhere
  <2> HIDE DEF middle
  <2>3. /\ after \in Track /\ Releases(middle, after)
        /\ \A x : SameStage(middle, after, x)
    BY <2>1 DEF Releases, SameStage, Track
  <2>4. Correlated(d, after)
    BY <2>1, <2>3, ReleasesCorrelated
  <2>5. ASSUME plan = tr.plan
        PROVE  Holds(d, tr, after)
    <3>1. Releases(tr, after)
      BY <2>2, <2>3, <2>5, ReleasesTransitive
    <3>2. \A x \in SpawnKeys(tr) \ {SentinelRole} : SameStage(tr, after, x)
      BY <2>2, <2>3, <2>5, SameStageTransitive DEF Elsewhere
    <3> HIDE DEF after
    <3>3. \A x \in SpawnKeys(tr) : EndsBySettling(tr, after, x)
      BY <1>1, <3>2 DEF SameStage, EndsBySettling, SentinelIdle
    <3> QED BY <2>4, <3>1, <3>3 DEF Holds, Releases
  <2> HIDE DEF after
  <2> QED BY <1>3, <2>4, <2>5
<1> QED BY <1>2, <1>3 DEF Ensured

-----------------------------------------------------------------------------
(* What one transaction does to the bindings of each track *)

BindingInv == \A d \in Live : Correlated(d, tracks[d])

Invariants == IInv /\ ProgressInv /\ BindingInv

Leaves(d) ==
    \/ tracks'[d] = tracks[d]
    \/ tracks'[d] = Nil
    \/ tracks[d] = Nil /\ \E plan \in Plans[d] : tracks'[d] = NewTrack(plan)
    \/ d \in Live /\ \E plan \in Plans[d] : tracks'[d] = Ensured(tracks[d], plan)
    \/ d \in Live /\ Holds(d, tracks[d], tracks'[d])

LEMMA KnownTrack ==
  ASSUME Invariants, NEW d \in Live
  PROVE  /\ d \in Decisions /\ Fit(d, tracks[d]) /\ Correlated(d, tracks[d])
         /\ tracks[d] \in Track /\ tracks[d].plan \in Plans[d]
  BY FitTrack DEF Invariants, BindingInv, Fit

LEMMA PutLeaves ==
  ASSUME Invariants, NEW d \in Live, NEW tr, Put(d, tr), Holds(d, tracks[d], tr)
  PROVE  \A e \in Decisions : Leaves(e)
  BY KnownTrack DEF Put, Leaves, Invariants, IInv, TracksOK

LEMMA TouchLeaves ==
  ASSUME WellFormedPlans, Invariants, IInv', NEW d \in Live, NEW tr, Put(d, tr),
         \/ Steady(tracks[d], tr)
         \/ \E k : Touches(tracks[d], tr, k)
  PROVE  \A e \in Decisions : Leaves(e)
<1>1. d \in Decisions /\ Fit(d, tracks[d]) /\ Correlated(d, tracks[d])
  BY KnownTrack
<1>2. tracks' = [tracks EXCEPT ![d] = tr] /\ tracks \in [Decisions -> Track \cup {Nil}]
  BY DEF Put, Invariants, IInv, TracksOK
<1>3. tracks'[d] = tr /\ tr \in Track \cup {Nil}
  BY <1>1, <1>2 DEF IInv, TracksOK
<1>4. CASE tr \in Track
  BY <1>1, <1>4, SteadyHolds, TouchesHolds, PutLeaves
<1>5. CASE tr = Nil
  BY <1>2, <1>3, <1>5 DEF Leaves
<1> QED BY <1>3, <1>4, <1>5

LEMMA AllLeave ==
  ASSUME WellFormedPlans, Invariants, IInv', NEW S \in SUBSET Live, NEW new,
         tracks' = [d \in Decisions |-> IF d \in S THEN new[d] ELSE tracks[d]],
         \A d \in S : \/ Steady(tracks[d], new[d])
                      \/ \E k : Touches(tracks[d], new[d], k)
  PROVE  \A e \in Decisions : Leaves(e)
<1> SUFFICES ASSUME NEW e \in Decisions PROVE Leaves(e)
  OBVIOUS
<1>1. CASE e \notin S
  BY <1>1 DEF Leaves
<1>2. CASE e \in S
  <2>1. /\ tracks'[e] = new[e] /\ new[e] \in Track \cup {Nil} /\ e \in Live
        /\ Fit(e, tracks[e]) /\ Correlated(e, tracks[e])
    BY <1>2, KnownTrack DEF IInv, TracksOK
  <2> QED BY <1>2, <2>1, SteadyHolds, TouchesHolds DEF Leaves
<1> QED BY <1>1, <1>2

LEMMA UnparkedSteady ==
  ASSUME NEW tr \in Track, NEW t \in Tasks
  PROVE  Steady(tr, [tr EXCEPT !.terminalTasks[t] = Nil])
  BY DEF Steady, Track, Tasks

LEMMA VerifierSteady ==
  ASSUME NEW tr \in Track, NEW t \in Tasks, NEW ok
  PROVE  Steady(tr, VerifierSettled(tr, t, ok))
<1> DEFINE new == VerifierSettled(tr, t, ok)
<1>1. /\ new.plan = tr.plan /\ new.runtime = tr.runtime
      /\ new.memberTasks = tr.memberTasks /\ new.stageTasks = tr.stageTasks
      /\ new.terminalTasks = tr.terminalTasks
  BY DEF VerifierSettled, Track
<1>2. /\ new.verifyTasks = [tr.verifyTasks EXCEPT ![t] = Nil]
      /\ new.releasedVerify = [tr.releasedVerify EXCEPT ![t] = Nil]
  BY DEF VerifierSettled, Track
<1>3. /\ DOMAIN tr.verifyTasks = Tasks /\ DOMAIN tr.releasedVerify = Tasks
      /\ Children \subseteq Tasks
  BY DEF Track, Tasks
<1>4. \A u \in Children : /\ new.verifyTasks[u] \in {tr.verifyTasks[u], Nil}
                          /\ new.releasedVerify[u] \in {tr.releasedVerify[u], Nil}
  BY <1>2, <1>3
<1>5. Steady(tr, new)
  BY ONLY <1>1, <1>4 DEF Steady
<1> QED BY <1>5

\* Spawn requests and acknowledgements
LEMMA SpawnsLeave ==
  ASSUME WellFormedPlans, RolesKeepParts, Invariants, IInv', NEW d \in Decisions,
         \/ \E st \in BarriersOf(d), r \in Roles : AllocateParallelMember(d, st, r)
         \/ \E k \in Asked(d) : RecordRequested(d, k)
         \/ \E t \in Children : BindParallelMember(d, t) \/ BindLinearStage(d, t)
         \/ \E t \in Jobs : d \in Live /\ BindTerminal(d, t)
         \/ \E t \in Jobs, s \in Steps : BindVerify(d, t, s)
  PROVE  \A e \in Decisions : Leaves(e)
<1>1. ASSUME NEW k, d \in Live
      PROVE  /\ Steady(tracks[d], [tracks[d] EXCEPT !.requested = @ \cup {k}])
             /\ Steady(tracks[d], Requested(tracks[d], k))
  BY <1>1, KnownTrack DEF Steady, Requested, Track
<1>2. ASSUME NEW k, NEW t \in Jobs, d \in Live
      PROVE  /\ Steady(tracks[d], [tracks[d] EXCEPT !.terminalTasks[t] = k])
             /\ Steady(tracks[d], [tracks[d] EXCEPT !.verifyTasks[t] = k])
  <2>1. t \notin Children
    BY KeysAssumption DEF KeysAssumption
  <2> QED BY <1>2, <2>1, KnownTrack DEF Steady, Track
<1>3. CASE \E st \in BarriersOf(d), r \in Roles : AllocateParallelMember(d, st, r)
  BY <1>1, <1>3, TouchLeaves DEF AllocateParallelMember
<1>4. CASE \E k \in Asked(d) : RecordRequested(d, k)
  BY <1>1, <1>4, TouchLeaves DEF RecordRequested
<1>5. CASE \E t \in Children : BindParallelMember(d, t)
  <2>1. PICK t \in Children : BindParallelMember(d, t)
    BY <1>5
  <2> QED BY <2>1, KnownTrack, MemberBoundHolds, PutLeaves DEF BindParallelMember
<1>6. CASE \E t \in Children : BindLinearStage(d, t)
  <2>1. PICK t \in Children : BindLinearStage(d, t)
    BY <1>6
  <2> QED BY <2>1, KnownTrack, LinearBoundHolds, PutLeaves DEF BindLinearStage
<1>7. CASE \E t \in Jobs : d \in Live /\ BindTerminal(d, t)
  <2>1. PICK t \in Jobs : d \in Live /\ BindTerminal(d, t)
    BY <1>7
  <2>2. PICK k : Put(d, [tracks[d] EXCEPT !.terminalTasks[t] = k])
    BY <2>1 DEF BindTerminal
  <2> QED BY <1>2, <2>1, <2>2, TouchLeaves
<1>8. CASE \E t \in Jobs, s \in Steps : BindVerify(d, t, s)
  <2>1. PICK t \in Jobs, s \in Steps : BindVerify(d, t, s)
    BY <1>8
  <2>2. d \in Live /\ Put(d, [tracks[d] EXCEPT !.verifyTasks[t] = s])
    BY <2>1 DEF BindVerify
  <2> QED BY <1>2, <2>1, <2>2, TouchLeaves
<1> QED BY <1>3, <1>4, <1>5, <1>6, <1>7, <1>8

\* The stage that an answer is matched with, and what the answer does to it.
LEMMA RetrievalMatched ==
  ASSUME Invariants, NEW s, NEW t, NEW ok, NEW escalate, NEW composable,
         RecordRetrieval(s, t, ok, escalate, composable)
  PROVE  \E d \in Live, k \in Keys :
            LET tr == tracks[d]
            IN  /\ k \in BoundNames(tr, t)
                /\ \/ Put(d, [tr EXCEPT !.terminalTasks[t] = Nil])
                   \/ /\ Owners(tr, k) = {} \/ t \in Owners(tr, k)
                      /\ Put(d, SettledRetrieval(tr, k, t, ok, composable))
<1>1. PICK m \in Matches(s, t) :
         LET tr == tracks[m[1]]
         IN  /\ m[2] \in Keys
             /\ \/ Put(m[1], [tr EXCEPT !.terminalTasks[t] = Nil])
                \/ /\ Owners(tr, m[2]) = {} \/ t \in Owners(tr, m[2])
                   /\ Put(m[1], SettledRetrieval(tr, m[2], t, ok, composable))
  BY DEF RecordRetrieval
<1>2. m[1] \in Live /\ m[2] \in BoundNames(tracks[m[1]], t)
  BY MatchedTracks DEF Matches, Invariants
<1> QED BY <1>1, <1>2

LEMMA InconclusiveMatched ==
  ASSUME Invariants, NEW s, NEW t, RecordReviewInconclusive(s, t)
  PROVE  \E d \in Live, k \in Keys :
            LET tr == tracks[d]
            IN  \/ Put(d, [tr EXCEPT !.terminalTasks[t] = Nil])
                \/ /\ Owners(tr, k) = {} \/ t \in Owners(tr, k)
                   /\ Put(d, Discharged(tr, k, t))
<1>1. PICK m \in Matches(s, t) :
         LET tr == tracks[m[1]]
         IN  /\ m[2] \in Keys
             /\ \/ Put(m[1], [tr EXCEPT !.terminalTasks[t] = Nil])
                \/ /\ Owners(tr, m[2]) = {} \/ t \in Owners(tr, m[2])
                   /\ Put(m[1], Discharged(tr, m[2], t))
  BY DEF RecordReviewInconclusive
<1>2. m[1] \in Live
  BY MatchedTracks DEF Invariants
<1> QED BY <1>1, <1>2

\* A lookup that finds no child of several tracks.
LEMMA ReleaseMatched ==
  ASSUME NEW s, NEW t, ReleaseUnresolvable(s, t)
  PROVE  \E S \in SUBSET Live : \E one, jobs :
            /\ \A d \in S : one[d] \in BoundNames(tracks[d], t)
            /\ tracks' = [d \in Decisions |-> IF d \in S
                                              THEN NotFound(tracks[d], one[d], t, jobs[d])
                                              ELSE tracks[d]]
<1> DEFINE found(d) == {n \in Names : <<d, n>> \in Matches(s, t)}
           name(d)  == CHOOSE n \in found(d) : TRUE
           S == {d \in Live : found(d) # {}}
           one == [d \in S |-> name(d)]
<1>1. PICK jobs : tracks' = [d \in Decisions |->
                               IF d \in Live /\ found(d) # {}
                               THEN NotFound(tracks[d], name(d), t, jobs[d])
                               ELSE tracks[d]]
  BY DEF ReleaseUnresolvable
<1>2. \A d \in S : <<d, one[d]>> \in Matches(s, t) /\ one[d] = name(d)
  OBVIOUS
<1>3. \A d \in Decisions : d \in S <=> d \in Live /\ found(d) # {}
  OBVIOUS
<1>4. S \subseteq Live
  OBVIOUS
<1> HIDE DEF S, one, name, found
<1>5. \A d \in S : one[d] \in BoundNames(tracks[d], t)
  BY <1>2 DEF Matches
<1>6. tracks' = [d \in Decisions |-> IF d \in S THEN NotFound(tracks[d], one[d], t, jobs[d])
                                     ELSE tracks[d]]
  BY <1>1, <1>2, <1>3
<1> QED BY <1>4, <1>5, <1>6

\* Results of stages
LEMMA ResultsLeave ==
  ASSUME WellFormedPlans, RolesKeepParts, Invariants, IInv',
         NEW ok \in BOOLEAN, NEW escalate \in Escalations, NEW composable \in Composable,
         \/ \E d \in Decisions : \E k \in Reported(d) :
               RecordStageResult(d, k, ok, escalate, composable)
         \/ \E d \in Decisions, r \in Roles \ {SentinelRole} :
            \E W \in SUBSET (Decisions \ {d}) :
               RecordSessionDebtStage(d, r, W, ok, escalate, composable)
         \/ \E s \in Sessions, t \in Tasks : RecordRetrieval(s, t, ok, escalate, composable)
  PROVE  \A e \in Decisions : Leaves(e)
<1>0. composable \in BOOLEAN
  BY DecisionsAssumption DEF DecisionsAssumption
<1>1. CASE \E d \in Decisions : \E k \in Reported(d) :
              RecordStageResult(d, k, ok, escalate, composable)
  <2>1. PICK d \in Decisions : \E k \in Reported(d) :
              RecordStageResult(d, k, ok, escalate, composable)
    BY <1>1
  <2>2. PICK k \in Reported(d) : RecordStageResult(d, k, ok, escalate, composable)
    BY <2>1
  <2>3. d \in Live /\ Put(d, StageResult(tracks[d], k, ok, composable))
    BY <2>2 DEF RecordStageResult
  <2>4. k \in Keys
    BY <2>2, AskedKeys DEF Invariants
  <2>5. Touches(tracks[d], StageResult(tracks[d], k, ok, composable), k)
    BY <1>0, <2>3, <2>4, KnownTrack, ResultTouches
  <2> QED BY <2>3, <2>5, TouchLeaves
<1>2. CASE \E d \in Decisions, r \in Roles \ {SentinelRole} :
           \E W \in SUBSET (Decisions \ {d}) :
              RecordSessionDebtStage(d, r, W, ok, escalate, composable)
  <2>1. PICK d \in Decisions, r \in Roles \ {SentinelRole}, W \in SUBSET Decisions :
              RecordSessionDebtStage(d, r, W, ok, escalate, composable)
    BY <1>2
  <2>2. PICK e \in Debts(d, W) : \E k \in OwedKeys(tracks[e], r) :
              Put(e, Recorded(tracks[e], k, ok, composable))
    BY <2>1 DEF RecordSessionDebtStage
  <2>3. PICK k \in OwedKeys(tracks[e], r) : Put(e, Recorded(tracks[e], k, ok, composable))
    BY <2>2
  <2>4. e \in Live /\ e \in Decisions /\ tracks[e] \in Track /\ tracks[e].plan \in Plans[e]
    BY DebtTracks, KnownTrack
  <2>5. k \in Keys
    BY <2>4, OwedKeyType
  <2>6. Touches(tracks[e], Recorded(tracks[e], k, ok, composable), k)
    BY <1>0, <2>4, <2>5, ResultTouches
  <2> QED BY <2>3, <2>4, <2>6, TouchLeaves
<1>3. CASE \E s \in Sessions, t \in Tasks : RecordRetrieval(s, t, ok, escalate, composable)
  <2>1. PICK s \in Sessions, t \in Tasks : RecordRetrieval(s, t, ok, escalate, composable)
    BY <1>3
  <2>2. PICK d \in Live, k \in Keys :
           \/ Put(d, [tracks[d] EXCEPT !.terminalTasks[t] = Nil])
           \/ Put(d, SettledRetrieval(tracks[d], k, t, ok, composable))
    BY <2>1, RetrievalMatched
  <2>3. Steady(tracks[d], [tracks[d] EXCEPT !.terminalTasks[t] = Nil])
    BY <2>1, KnownTrack, UnparkedSteady
  <2>4. Touches(tracks[d], SettledRetrieval(tracks[d], k, t, ok, composable), k)
    BY <1>0, <2>1, KnownTrack, ResultTouches
  <2> QED BY <2>2, <2>3, <2>4, TouchLeaves
<1> QED BY <1>1, <1>2, <1>3

\* Verify steps, the Stop count and what is answered of a child
LEMMA AnswersLeave ==
  ASSUME WellFormedPlans, RolesKeepParts, Invariants, IInv',
         \/ \E d \in Decisions, ok \in BOOLEAN : \E s \in StepsOf(d) : RecordVerify(d, s, ok)
         \/ \E d \in Decisions : StopBlock(d)
         \/ \E s \in Sessions, t \in Children : RecordReviewInconclusive(s, t)
         \/ \E s \in Sessions, t \in Tasks : ReleaseUnresolvable(s, t)
         \/ \E s \in Sessions, t \in Tasks, ok \in BOOLEAN : RecordVerifyRetrieval(s, t, ok)
  PROVE  \A e \in Decisions : Leaves(e)
<1>1. CASE \E d \in Decisions, ok \in BOOLEAN : \E s \in StepsOf(d) : RecordVerify(d, s, ok)
  <2>1. PICK d \in Decisions, ok \in BOOLEAN : \E s \in StepsOf(d) : RecordVerify(d, s, ok)
    BY <1>1
  <2>2. PICK s : d \in Live /\ Put(d, VerifyRecorded(tracks[d], s, ok))
    BY <2>1 DEF RecordVerify
  <2>3. Steady(tracks[d], VerifyRecorded(tracks[d], s, ok))
    BY <2>2, KnownTrack DEF Steady, VerifyRecorded, Track
  <2> QED BY <2>2, <2>3, TouchLeaves
<1>2. CASE \E d \in Decisions : StopBlock(d)
  <2>1. PICK d \in Live : Put(d, [tracks[d] EXCEPT !.stopBlocks = @ + 1])
    BY <1>2 DEF StopBlock
  <2>2. Steady(tracks[d], [tracks[d] EXCEPT !.stopBlocks = @ + 1])
    BY KnownTrack DEF Steady, Track
  <2> QED BY <2>1, <2>2, TouchLeaves
<1>3. CASE \E s \in Sessions, t \in Children : RecordReviewInconclusive(s, t)
  <2>1. PICK s \in Sessions, t \in Children : RecordReviewInconclusive(s, t)
    BY <1>3
  <2>2. PICK d \in Live, k \in Keys :
           \/ Put(d, [tracks[d] EXCEPT !.terminalTasks[t] = Nil])
           \/ Put(d, Discharged(tracks[d], k, t))
    BY <2>1, InconclusiveMatched
  <2>3. t \in Tasks
    BY <2>1 DEF Tasks
  <2>4. Steady(tracks[d], [tracks[d] EXCEPT !.terminalTasks[t] = Nil])
    BY <2>3, KnownTrack, UnparkedSteady
  <2>5. Touches(tracks[d], Discharged(tracks[d], k, t), k)
    BY <2>3, KnownTrack, DischargedTouches
  <2> QED BY <2>2, <2>4, <2>5, TouchLeaves
<1>4. CASE \E s \in Sessions, t \in Tasks : ReleaseUnresolvable(s, t)
  <2>1. PICK s \in Sessions, t \in Tasks : ReleaseUnresolvable(s, t)
    BY <1>4
  <2>0. PICK S \in SUBSET Live : \E one, jobs :
           /\ \A e \in S : one[e] \in BoundNames(tracks[e], t)
           /\ tracks' = [e \in Decisions |-> IF e \in S
                                             THEN NotFound(tracks[e], one[e], t, jobs[e])
                                             ELSE tracks[e]]
    BY ONLY <2>1, ReleaseMatched
  <2>2. PICK one, jobs :
           /\ \A e \in S : one[e] \in BoundNames(tracks[e], t)
           /\ tracks' = [e \in Decisions |-> IF e \in S
                                             THEN NotFound(tracks[e], one[e], t, jobs[e])
                                             ELSE tracks[e]]
    BY <2>0
  <2> DEFINE new == [d \in S |-> NotFound(tracks[d], one[d], t, jobs[d])]
  <2>3. \A d \in S : Touches(tracks[d], new[d], one[d])
    BY <2>1, <2>2, KnownTrack, NotFoundTouches
  <2>4. tracks' = [e \in Decisions |-> IF e \in S THEN new[e] ELSE tracks[e]]
    BY <2>2
  <2> HIDE DEF new
  <2> QED BY <2>3, <2>4, AllLeave
<1>5. CASE \E s \in Sessions, t \in Tasks, ok \in BOOLEAN : RecordVerifyRetrieval(s, t, ok)
  <2>1. PICK s \in Sessions, t \in Tasks, ok \in BOOLEAN : RecordVerifyRetrieval(s, t, ok)
    BY <1>5
  <2> DEFINE bound == {d \in SessionTracks(s) : {tracks[d].verifyTasks[t],
                                                 tracks[d].releasedVerify[t]} # {Nil}}
             new == [d \in bound |-> VerifierSettled(tracks[d], t, ok)]
  <2>2. bound \subseteq Live
    BY DEF SessionTracks
  <2>3. ASSUME NEW d \in bound  PROVE  Steady(tracks[d], new[d])
    BY <2>2, KnownTrack, VerifierSteady
  <2>4. tracks' = [d \in Decisions |-> IF d \in bound THEN new[d] ELSE tracks[d]]
    BY <2>1 DEF RecordVerifyRetrieval
  <2> HIDE DEF bound, new
  <2> QED BY <2>2, <2>3, <2>4, AllLeave
<1> QED BY <1>1, <1>2, <1>3, <1>4, <1>5

\* What is bound to, or recorded of, the debts of a session
LEMMA DebtsLeave ==
  ASSUME WellFormedPlans, RolesKeepParts, Invariants, IInv', NEW d \in Decisions, NEW W,
         \/ \E t \in Children : BindDebtStage(d, t, W)
         \/ \E t \in Jobs : BindDebtVerify(d, t, W)
         \/ \E command \in Range(CommandOf) : RecordVerifyFanout(d, command, W)
  PROVE  \A e \in Decisions : Leaves(e)
<1>1. CASE \E t \in Children : BindDebtStage(d, t, W)
  <2>1. PICK t \in Children : BindDebtStage(d, t, W)
    BY <1>1
  <2> DEFINE role == TaskRole[t]
  <2>2. PICK e \in Debts(d, W) : \E i \in ClaimedStages(tracks[e], role) :
           \E k \in DebtKeys(tracks[e], Stages(tracks[e])[i], role) :
              Put(e, DebtBound(tracks[e], k, t))
    BY <2>1 DEF BindDebtStage
  <2>3. PICK i \in ClaimedStages(tracks[e], role) :
           \E k \in DebtKeys(tracks[e], Stages(tracks[e])[i], role) :
              Put(e, DebtBound(tracks[e], k, t))
    BY <2>2
  <2>4. PICK k \in DebtKeys(tracks[e], Stages(tracks[e])[i], role) :
           Put(e, DebtBound(tracks[e], k, t))
    BY <2>3
  <2>5. e \in Live /\ e \in SessionTracks(SessionOf[d])
    BY DEF Debts, Others, SessionTracks
  <2>6. /\ \A x \in Keys : t \notin {tracks[e].memberTasks[x], tracks[e].stageTasks[x]}
        /\ ~ParkedMember(tracks[e], t)
    BY <2>1, <2>5 DEF BindDebtStage
  <2>7. Stages(tracks[e])[i] \in Range(Stages(tracks[e]))
    BY DEF ClaimedStages, Range
  <2>8. Holds(e, tracks[e], DebtBound(tracks[e], k, t))
    BY <2>5, <2>6, <2>7, KnownTrack, DebtBoundHolds
  <2> QED BY <2>4, <2>5, <2>8, PutLeaves
<1>2. CASE \E t \in Jobs : BindDebtVerify(d, t, W)
  <2>1. PICK t \in Jobs : BindDebtVerify(d, t, W)
    BY <1>2
  <2> DEFINE due(e) == NextVerifyStep(tracks[e])
             owing  == {e \in Others(d, W) :
                           /\ due(e) # Nil
                           /\ \A u \in Tasks : tracks[e].verifyTasks[u] # due(e)
                           /\ CommandOf[due(e)] = CommandRun[t]}
             new == [e \in owing |-> [tracks[e] EXCEPT !.verifyTasks[t] = due(e)]]
  <2>2. owing \subseteq Live /\ t \notin Children
    BY DebtTracks, KeysAssumption DEF KeysAssumption
  <2>3. \A e \in owing : Steady(tracks[e], new[e])
    <3> HIDE DEF due
    <3> QED BY <2>2, KnownTrack DEF Steady, Track
  <2>4. tracks' = [e \in Decisions |-> IF e \in owing THEN new[e] ELSE tracks[e]]
    BY <2>1 DEF BindDebtVerify
  <2> HIDE DEF owing, new
  <2> QED BY <2>2, <2>3, <2>4, AllLeave
<1>3. CASE \E command \in Range(CommandOf) : RecordVerifyFanout(d, command, W)
  <2>1. PICK command \in Range(CommandOf) : RecordVerifyFanout(d, command, W)
    BY <1>3
  <2> DEFINE due(e) == NextVerifyStep(tracks[e])
             owing  == {e \in Others(d, W) : due(e) # Nil /\ CommandOf[due(e)] = command}
             new == [e \in owing |-> [tracks[e] EXCEPT !.verified = @ \cup {due(e)}]]
  <2>2. owing \subseteq Live
    BY DebtTracks
  <2>3. \A e \in owing : Steady(tracks[e], new[e])
    <3> HIDE DEF due
    <3> QED BY <2>2, KnownTrack DEF Steady, Track
  <2>4. tracks' = [e \in Decisions |-> IF e \in owing THEN new[e] ELSE tracks[e]]
    BY <2>1 DEF RecordVerifyFanout
  <2> HIDE DEF owing, new
  <2> QED BY <2>2, <2>3, <2>4, AllLeave
<1> QED BY <1>1, <1>2, <1>3

LEMMA NextLeaves ==
  ASSUME WellFormedPlans, RolesKeepParts, Invariants, IInv', Next
  PROVE  \A e \in Decisions : Leaves(e)
<1>1. CASE \E d \in Decisions : \E plan \in Plans[d] : EnsureExecution(d, plan)
  <2>1. PICK d \in Decisions : \E plan \in Plans[d] : EnsureExecution(d, plan)
    BY <1>1
  <2>2. PICK plan \in Plans[d] : EnsureExecution(d, plan)
    BY <2>1
  <2>3. Put(d, IF tracks[d] = Nil THEN NewTrack(plan) ELSE Ensured(tracks[d], plan))
    BY <2>2 DEF EnsureExecution
  <2> QED BY <2>1, <2>2, <2>3 DEF Put, Leaves, Live, Invariants, IInv, TracksOK
<1>2. CASE \E d \in Decisions : Prune(d)
  BY <1>2 DEF Prune, Put, Leaves, Invariants, IInv, TracksOK
<1>3. CASE \E s \in Sessions : PruneCircuits(s)
  BY <1>3 DEF PruneCircuits, Leaves
<1>4. CASE \E d \in Decisions :
              \/ \E st \in BarriersOf(d), r \in Roles : AllocateParallelMember(d, st, r)
              \/ \E k \in Asked(d) : RecordRequested(d, k)
              \/ \E t \in Children : BindParallelMember(d, t) \/ BindLinearStage(d, t)
              \/ \E t \in Jobs : d \in Live /\ BindTerminal(d, t)
              \/ \E t \in Jobs, s \in Steps : BindVerify(d, t, s)
  BY <1>4, SpawnsLeave
<1>5. CASE \/ \E d \in Decisions, ok \in BOOLEAN : \E s \in StepsOf(d) : RecordVerify(d, s, ok)
           \/ \E d \in Decisions : StopBlock(d)
           \/ \E s \in Sessions, t \in Children : RecordReviewInconclusive(s, t)
           \/ \E s \in Sessions, t \in Tasks : ReleaseUnresolvable(s, t)
           \/ \E s \in Sessions, t \in Tasks, ok \in BOOLEAN : RecordVerifyRetrieval(s, t, ok)
  BY <1>5, AnswersLeave
<1>6. CASE \E d \in Decisions : \E W \in SUBSET (Decisions \ {d}) :
              \/ \E t \in Children : BindDebtStage(d, t, W)
              \/ \E t \in Jobs : BindDebtVerify(d, t, W)
              \/ \E command \in Range(CommandOf) : RecordVerifyFanout(d, command, W)
  BY <1>6, DebtsLeave
<1>7. CASE \E ok \in BOOLEAN, escalate \in Escalations, composable \in Composable :
              \/ \E d \in Decisions : \E k \in Reported(d) :
                    RecordStageResult(d, k, ok, escalate, composable)
              \/ \E d \in Decisions, r \in Roles \ {SentinelRole} :
                 \E W \in SUBSET (Decisions \ {d}) :
                    RecordSessionDebtStage(d, r, W, ok, escalate, composable)
              \/ \E s \in Sessions, t \in Tasks :
                    RecordRetrieval(s, t, ok, escalate, composable)
  BY <1>7, ResultsLeave
<1> QED BY <1>1, <1>2, <1>3, <1>4, <1>5, <1>6, <1>7 DEF Next

LEMMA BindingInductive ==
  ASSUME WellFormedPlans, RolesKeepParts
  PROVE  Spec => []Invariants
<1>1. Init => BindingInv
  BY DEF Init, BindingInv, Live
<1>2. Invariants /\ IInv' /\ [Next]_vars => BindingInv'
  <2>1. CASE UNCHANGED vars
    BY <2>1 DEF vars, Invariants, BindingInv, Live
  <2>2. ASSUME Invariants, IInv', Next, NEW d \in Decisions, tracks'[d] # Nil
        PROVE  Correlated(d, tracks'[d])
    <3>1. Leaves(d)
      BY <2>2, NextLeaves
    <3>2. d \in Live => Fit(d, tracks[d]) /\ Correlated(d, tracks[d])
      BY <2>2, KnownTrack
    <3> QED BY <2>2, <3>1, <3>2, NewTrackCorrelated, EnsuredHolds DEF Leaves, Holds, Live
  <2> QED BY <2>1, <2>2 DEF BindingInv, Live
<1> QED BY <1>1, <1>2, ProgressInductive, PTL DEF Spec, Invariants

-----------------------------------------------------------------------------
(* Theorems *)

\* A child stands for at most one stage of a track, whatever order its
\* acknowledgements, lost lookups, re-spawns and debt claims arrive in
\* (bind_parallel_member_task_tx, bind_linear_stage_task_tx,
\* bind_debt_stage_task_tx, release_unresolvable_binding_tx): no transaction
\* leaves a retrieval of it "ambiguous".
THEOREM OneStageProved ==
  ASSUME WellFormedPlans, RolesKeepParts
  PROVE  Spec => []OneStagePerChild
<1>1. Invariants => OneStagePerChild
  BY DEF Invariants, BindingInv, Correlated, OneStagePerChild
<1> QED BY <1>1, BindingInductive, PTL

\* A binding is never handed to another child while its plan stands: it ends
\* when its stage completes, fails or is discharged, and a consilium that is
\* added to the plan on the way moves it to no other stage.
THEOREM BindingsEndBySettling ==
  ASSUME WellFormedPlans, RolesKeepParts
  PROVE  Spec => BindingEndsBySettling
<1>1. ASSUME Invariants, IInv', [Next]_vars, NEW d \in Decisions, SamePlan(d),
             NEW k \in SpawnKeys(tracks[d])
      PROVE  EndsBySettling(tracks[d], tracks'[d], k)
  <2>1. d \in Live /\ tracks[d] # Nil /\ tracks'[d] # Nil /\ tracks'[d].plan = tracks[d].plan
    BY <1>1 DEF SamePlan, Live
  <2>2. /\ Fit(d, tracks[d]) /\ Correlated(d, tracks[d])
        /\ Holds(d, tracks[d], tracks[d])
    BY <1>1, <2>1, KnownTrack, UntouchedHolds
  <2>3. ASSUME NEW plan \in Plans[d], tracks'[d] = Ensured(tracks[d], plan)
        PROVE  Holds(d, tracks[d], tracks'[d])
    BY <2>1, <2>2, <2>3, EnsuredGood, EnsuredHolds
  <2>4. Leaves(d) \/ tracks'[d] = tracks[d]
    BY <1>1, NextLeaves DEF vars
  <2> QED BY <1>1, <2>1, <2>2, <2>3, <2>4 DEF Leaves, Holds
<1>2. Invariants /\ Invariants' /\ [Next]_vars =>
        [\A d \in Decisions : SamePlan(d) =>
            LET old == tracks[d]
                new == tracks'[d]
                settled(k) == k \in new.completed \cup new.failed \cup new.waived
                kept(f, g) == \A k \in SpawnKeys(old) :
                                 f[k] # Nil => g[k] = f[k] \/ (g[k] = Nil /\ settled(k))
            IN  /\ kept(old.memberTasks, new.memberTasks)
                /\ kept(old.stageTasks, new.stageTasks)]_vars
  BY <1>1 DEF EndsBySettling, Ended, Invariants
<1> QED BY <1>2, BindingInductive, PTL DEF Spec, BindingEndsBySettling

\* Whoever else holds stage k is asked, and not child t.
LEMMA HeldNotOwned ==
  ASSUME NEW tr \in Track, BoundKinds(tr), NEW k \in Keys, NEW t \in Tasks, HeldByAnother(tr, k, t)
  PROVE  /\ Owners(tr, k) # {} /\ t \notin Owners(tr, k)
         /\ \A job : HeldByOther(tr, k, t, job)
<1>1. CASE tr.memberTasks[k] \notin {Nil, t}
  BY <1>1 DEF Owners, HeldByOther
<1>2. CASE tr.memberTasks[k] \in {Nil, t} /\ tr.stageTasks[k] \notin {Nil, t}
  <2>1. k \in Roles /\ k \notin MemberKeys
    BY <1>2, KeysAssumption DEF BoundKinds, KeysAssumption
  <2>2. ~IsMember(tr, k)
    BY <2>1, TrackKeys, StageKeys DEF IsMember
  <2>3. tr.memberTasks[k] = Nil /\ ActualRole(tr, k) = k
    BY <2>1, <2>2 DEF BoundKinds, ActualRole
  <2> QED BY <1>2, <2>3 DEF Owners, HeldByOther
<1> QED BY <1>1, <1>2 DEF HeldByAnother

\* What a superseded child reports, however late, has no effect on the stage
\* that another child holds now (record_retrieval_result_tx,
\* record_review_inconclusive_tx, release_unresolvable_binding_tx), even when
\* the report settles another stage of the track and adds a consilium.
THEOREM StaleChildProved ==
  ASSUME WellFormedPlans, RolesKeepParts
  PROVE  Spec => StaleChildInert
<1>1. ASSUME Invariants, NEW d \in Live, tracks'[d] # Nil,
             NEW k \in SpawnKeys(tracks[d]), NEW t \in Tasks,
             HeldByAnother(tracks[d], k, t), Answer(SessionOf[d], t)
      PROVE  SameStage(tracks[d], tracks'[d], k)
  <2> DEFINE tr == tracks[d]
             s == SessionOf[d]
  <2>1. /\ d \in Decisions /\ tr \in Track /\ tr.plan \in Plans[d] /\ k \in Keys
        /\ BoundKinds(tr) /\ SentinelIdle(tr)
    BY <1>1, KnownTrack, TrackStages DEF Correlated, Fit, Good
  <2>2. k # SentinelRole
    BY <1>1, <2>1 DEF HeldByAnother, SentinelIdle
  <2>3. /\ Owners(tr, k) # {} /\ t \notin Owners(tr, k)
        /\ \A job : HeldByOther(tr, k, t, job)
    BY <1>1, <2>1, HeldNotOwned
  <2>4. SameStage(tr, tr, k) /\ SameStage(tr, [tr EXCEPT !.terminalTasks[t] = Nil], k)
    BY <2>1 DEF SameStage, Track
  <2>5. ASSUME NEW after, NEW n, n # k, Touches(tr, after, n)
        PROVE  SameStage(tr, after, k)
    BY <1>1, <2>2, <2>5 DEF Touches, Elsewhere
  <2>6. ASSUME NEW e, NEW after, Put(e, after), e = d => SameStage(tr, after, k)
        PROVE  SameStage(tr, tracks'[d], k)
    BY <1>1, <2>1, <2>4, <2>6 DEF Put, Invariants, IInv, TracksOK
  <2> HIDE DEF tr
  <2>7. ASSUME NEW ok \in BOOLEAN, NEW escalate \in Escalations, NEW composable \in Composable,
               RecordRetrieval(s, t, ok, escalate, composable)
        PROVE  SameStage(tr, tracks'[d], k)
    <3>1. PICK e \in Live, n \in Keys :
             \/ Put(e, [tracks[e] EXCEPT !.terminalTasks[t] = Nil])
             \/ /\ Owners(tracks[e], n) = {} \/ t \in Owners(tracks[e], n)
                /\ Put(e, SettledRetrieval(tracks[e], n, t, ok, composable))
      BY <1>1, <2>7, RetrievalMatched
    <3>2. composable \in BOOLEAN
      BY DecisionsAssumption DEF DecisionsAssumption
    <3>3. ASSUME n # k
          PROVE  SameStage(tr, SettledRetrieval(tr, n, t, ok, composable), k)
      BY <2>1, <2>5, <3>2, <3>3, ResultTouches
    <3> QED BY <2>3, <2>4, <2>6, <3>1, <3>3 DEF tr
  <2>8. ASSUME RecordReviewInconclusive(s, t)
        PROVE  SameStage(tr, tracks'[d], k)
    <3>1. PICK e \in Live, n \in Keys :
             \/ Put(e, [tracks[e] EXCEPT !.terminalTasks[t] = Nil])
             \/ /\ Owners(tracks[e], n) = {} \/ t \in Owners(tracks[e], n)
                /\ Put(e, Discharged(tracks[e], n, t))
      BY <1>1, <2>8, InconclusiveMatched
    <3>2. ASSUME n # k
          PROVE  SameStage(tr, Discharged(tr, n, t), k)
      BY <2>1, <2>5, <3>2, DischargedTouches
    <3> QED BY <2>3, <2>4, <2>6, <3>1, <3>2 DEF tr
  <2>9. ASSUME ReleaseUnresolvable(s, t)
        PROVE  SameStage(tr, tracks'[d], k)
    <3>0. PICK S \in SUBSET Live : \E one, jobs :
             /\ \A e \in S : one[e] \in BoundNames(tracks[e], t)
             /\ tracks' = [e \in Decisions |-> IF e \in S
                                               THEN NotFound(tracks[e], one[e], t, jobs[e])
                                               ELSE tracks[e]]
      BY ONLY <2>9, ReleaseMatched
    <3>1. PICK one, jobs :
             /\ \A e \in S : one[e] \in BoundNames(tracks[e], t)
             /\ tracks' = [e \in Decisions |-> IF e \in S
                                               THEN NotFound(tracks[e], one[e], t, jobs[e])
                                               ELSE tracks[e]]
      BY <3>0
    <3>2. CASE d \notin S
      BY <2>1, <2>4, <3>1, <3>2 DEF tr
    <3>3. CASE d \in S /\ one[d] # k
      <4>1. Touches(tr, NotFound(tr, one[d], t, jobs[d]), one[d])
        BY <2>1, <3>1, <3>3, NotFoundTouches DEF tr
      <4>2. tracks'[d] = NotFound(tr, one[d], t, jobs[d])
        BY <2>1, <3>1, <3>3 DEF tr
      <4> QED BY <2>5, <3>3, <4>1, <4>2
    <3>4. CASE d \in S /\ one[d] = k
      <4>1. tracks'[d] = NotFound(tr, k, t, jobs[d])
        BY <2>1, <3>1, <3>4 DEF tr
      <4>2. k \notin Steps
        BY <2>1, KeysAssumption DEF KeysAssumption
      <4> QED BY <2>1, <2>3, <4>1, <4>2 DEF NotFound, SameStage, Track
    <3> QED BY <3>2, <3>3, <3>4
  <2> QED BY <1>1, <2>7, <2>8, <2>9 DEF Answer, tr
<1>2. Invariants /\ [Next]_vars =>
        [\A d \in Live : tracks'[d] # Nil =>
            \A k \in SpawnKeys(tracks[d]), t \in Tasks :
                /\ HeldByAnother(tracks[d], k, t)
                /\ ~SameStage(tracks[d], tracks'[d], k)
                => ~Answer(SessionOf[d], t)]_vars
  BY <1>1
<1> QED BY <1>2, BindingInductive, PTL DEF Spec, StaleChildInert
=============================================================================

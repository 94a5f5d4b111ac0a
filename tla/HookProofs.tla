----------------------------- MODULE HookProofs -----------------------------
(***************************************************************************)
(* The hook processes implement the transaction layer, for any number of   *)
(* processes, children, roles and plans: proofs about HookFlow.tla.        *)
(*                                                                         *)
(* The argument: what a hook has read may be out of date when it acts on   *)
(* it, but the name it read is still one that a hook may name: the plans   *)
(* of a decision are what they were, and a consilium, once convened, stays *)
(* on the track.  And the member a hook was given stays marked there until *)
(* the hook asks for it, so nobody is given it as a fresh one.             *)
(***************************************************************************)
EXTENDS HookFlow, ProgressProofs

\* What a hook process that stands somewhere is about to use: a role, a child, or
\* the name of a stage it may ask for, report on, or verify.
Knows(state, asked, reported, due) ==
    /\ state.at = "allocate" => state.role \in Roles
    /\ state.at = "request" => state.key \in asked
    /\ state.at \in {"bindMember", "bindLinear"} => state.child \in Children
    /\ state.at \in {"fail", "settle"} => state.key \in reported
    /\ state.at = "settle" => state.ok \in BOOLEAN
    /\ state.at = "verdict" => state.step \in due /\ state.ok \in BOOLEAN

Informed(state) == Knows(state, Asked(Current), Reported(Current), StepsOf(Current))

HookInv ==
    /\ IInv /\ ProgressInv
    /\ hooks = [h \in Hooks |-> hooks[h]]
    /\ \A h \in Hooks : Informed(hooks[h])

-----------------------------------------------------------------------------
(* What a hook reads on the track, a hook may name *)

LEMMA PlanOfTrack ==
  ASSUME IInv, ProgressInv, Current \in Live
  PROVE  /\ Current \in Decisions /\ track \in Track
         /\ track.plan \in Plans[Current] /\ track.runtime \in Runtimes
         /\ Stages(track) \in PlansOf(Current)
<1>1. /\ Current \in Decisions /\ track \in Track
      /\ track.plan \in Plans[Current] /\ track.runtime \in Runtimes
  BY FitTrack DEF track, Fit, Track
<1> QED BY <1>1 DEF PlansOf, Stages, track

LEMMA KeyOnTrack ==
  ASSUME IInv, ProgressInv, Current \in Live,
         NEW st \in Range(Stages(track)), Spawnable(st),
         NEW k \in Range(st.keys), k # SentinelRole
  PROVE  k \in Asked(Current)
<1>1. k \in KeysOf(Stages(track))
  BY DEF KeysOf
<1> QED BY <1>1, PlanOfTrack DEF Asked

\* The stage the gate lets through is one of the track's, or the sentinel.
LEMMA AdmittedStage ==
  ASSUME NEW tr \in Track, NextRequiredSpawnStage(tr).kind \in {"spawn", "parallel_spawn"}
  PROVE  NextRequiredSpawnStage(tr) \in Range(Stages(tr))
<1> DEFINE holds(st) == /\ Spawnable(st)
                        /\ Unfinished(tr, st)
                        /\ st.kind = "spawn" => Key(st) \notin Unverified
           positions == {i \in DOMAIN Stages(tr) : holds(Stages(tr)[i])}
<1>1. NextRequiredSpawnStage(tr) \in {NoStage, SentinelStage, FirstStage(tr, positions)}
  BY DEF NextRequiredSpawnStage
<1>2. {NoStage.kind, SentinelStage.kind} \cap {"spawn", "parallel_spawn"} = {}
  BY DEF NoStage, SentinelStage
<1>3. NextRequiredSpawnStage(tr) = FirstStage(tr, positions) /\ FirstStage(tr, positions) # NoStage
  BY <1>1, <1>2
<1>4. positions \in SUBSET Nat /\ positions \subseteq DOMAIN Stages(tr)
  BY StagesType
<1> HIDE DEF positions
<1>5. positions # {} /\ FirstStage(tr, positions) = Stages(tr)[Least(positions)]
  BY <1>3 DEF FirstStage
<1>6. Least(positions) \in DOMAIN Stages(tr)
  BY <1>4, <1>5, LeastMember
<1> QED BY <1>3, <1>5, <1>6 DEF Range

LEMMA AdmittedRole ==
  ASSUME WellFormedPlans, IInv, ProgressInv, Current \in Live,
         NextRequiredSpawnStage(track).kind = "spawn"
  PROVE  Key(NextRequiredSpawnStage(track)) \in Asked(Current)
<1> DEFINE st == NextRequiredSpawnStage(track)
<1>1. st \in Range(Stages(track))
  BY PlanOfTrack, AdmittedStage
<1>2. st \in Stage
  BY <1>1, PlanOfTrack, StagesType
<1> HIDE DEF st
<1>3. Key(st) \in Range(st.keys)
  BY <1>2, StageKeys
<1>4. Spawnable(st) /\ st # SentinelStage
  BY DEF st, Spawnable, SentinelStage
<1>5. SentinelRole \notin Range(st.keys)
  BY <1>1, <1>4, PlanOfTrack, WellFormedStages DEF Stages, track
<1> QED BY <1>1, <1>3, <1>4, <1>5, KeyOnTrack DEF st

LEMMA AllocatedAsked ==
  ASSUME IInv, ProgressInv, Current \in Live, NEW st \in BarriersOf(Current), NEW r,
         AllocatedKey(track, st, r) # Nil
  PROVE  AllocatedKey(track, st, r) \in Asked(Current)
<1> DEFINE k == AllocatedKey(track, st, r)
<1>1. st \in Range(Stages(track)) /\ st.kind = "parallel_spawn"
  BY DEF BarriersOf, track
<1>2. k \in IncompleteMembers(track, st) /\ k \in MemberKeys
  BY <1>1, PlanOfTrack, AllocatedMember
<1> HIDE DEF k
<1>3. k \in Range(st.keys) /\ k # SentinelRole /\ Spawnable(st)
  BY <1>1, <1>2, PlanOfTrack, TrackKeys, SentinelKey DEF Spawnable
<1> QED BY <1>1, <1>3, KeyOnTrack DEF k

\* What the role of a child owes, or is taken to have failed.
LEMMA OwedAsked ==
  ASSUME IInv, ProgressInv, Current \in Live, NEW r \in Roles \ {SentinelRole},
         NEW k \in OwedKeys(track, r)
  PROVE  k \in Asked(Current)
<1>1. PICK st \in Range(Stages(track)) :
         \/ st.kind = "parallel_spawn" /\ k \in IncompleteMembers(track, st)
         \/ st.kind \in {"spawn", "sentinel"} /\ k = r /\ Key(st) = r
  BY DEF OwedKeys
<1>2. st \in Stage /\ Key(st) \in Range(st.keys) /\ Spawnable(st)
  BY <1>1, PlanOfTrack, TrackKeys, StageKeys DEF Spawnable
<1>3. k \in Range(st.keys) /\ k # SentinelRole
  BY <1>1, <1>2, PlanOfTrack, TrackKeys, SentinelKey
<1> QED BY <1>2, <1>3, KeyOnTrack

LEMMA FailureReported ==
  ASSUME IInv, ProgressInv, Current \in Live, NEW c \in Children,
         NEW k \in FailureKeys(track, TaskRole[c])
  PROVE  k \in Reported(Current)
<1>1. TaskRole[c] \in Roles \ {SentinelRole} /\ TaskRole[c] \in AdHocRoles
  BY DecisionsAssumption, HooksAssumption DEF DecisionsAssumption, HooksAssumption
<1>2. CASE k \in MemberResultKeys(track, TaskRole[c])
  <2>1. PICK st \in Range(Stages(track)) : st.kind = "parallel_spawn" /\ k \in Range(st.keys)
    BY <1>2 DEF MemberResultKeys, IsMember
  <2>2. Spawnable(st) /\ k # SentinelRole
    BY <2>1, PlanOfTrack, TrackKeys, StageKeys, SentinelKey DEF Spawnable
  <2> QED BY <2>1, <2>2, KeyOnTrack DEF Reported
<1>3. CASE k \in OwedResultKeys(track, TaskRole[c])
  BY <1>1, <1>3, OwedAsked DEF OwedResultKeys, Reported
<1>4. CASE k = TaskRole[c]
  BY <1>1, <1>4 DEF Reported
<1> QED BY <1>2, <1>3, <1>4 DEF FailureKeys

LEMMA AdmittedDue ==
  ASSUME IInv, ProgressInv, Current \in Live, AdmittedVerifyStep(track) # Nil
  PROVE  AdmittedVerifyStep(track) \in StepsOf(Current)
<1> DEFINE positions == VerifyPositions(track)
           i == Least(positions)
<1>1. AdmittedVerifyStep(track) = NextVerifyStep(track) /\ NextVerifyStep(track) # Nil
  BY DEF AdmittedVerifyStep
<1>2. positions # {} /\ NextVerifyStep(track) = Key(Stages(track)[i])
  BY <1>1 DEF NextVerifyStep
<1>3. positions \in SUBSET Nat /\ positions \subseteq DOMAIN Stages(track)
  BY PlanOfTrack, StagesType DEF VerifyPositions
<1>4. i \in DOMAIN Stages(track)
  BY <1>2, <1>3, LeastMember
<1>5. Stages(track)[i] \in Range(Stages(track)) /\ Stages(track)[i] \in Stage
  BY <1>4, PlanOfTrack, StagesType DEF Range
<1>6. NextVerifyStep(track) \in Steps
  BY <1>1, PlanOfTrack, VerifierDue
<1> HIDE DEF i
<1>7. NextVerifyStep(track) \in Range(Stages(track)[i].keys)
  BY <1>2, <1>5, StageKeys
<1> QED BY <1>1, <1>5, <1>6, <1>7, PlanOfTrack DEF StepsOf


-----------------------------------------------------------------------------
(* What may be named once may be named later *)

\* No hook forgets a track, and a consilium that is convened stays.
Later(d) ==
    /\ tracks'[d] # Nil
    /\ tracks[d].runtime = "consilium" => tracks'[d].runtime = "consilium"

\* The keys and steps a plan lets a hook name only depend on the consilium.
LEMMA NamesGrow ==
  ASSUME NEW plan \in Seq(Stage), NEW a \in Runtimes, NEW b \in Runtimes,
         a = "consilium" => b = "consilium"
  PROVE  /\ KeysOf(plan \o RuntimeStages(a)) \ {SentinelRole}
               \subseteq KeysOf(plan \o RuntimeStages(b))
         /\ \A n \in Steps : \A st \in Range(plan \o RuntimeStages(a)) :
               n \in Range(st.keys) => st \in Range(plan \o RuntimeStages(b))
<1> DEFINE more(runtime) == Range(RuntimeStages(runtime))
<1>1. ASSUME NEW runtime \in Runtimes
      PROVE  Range(plan \o RuntimeStages(runtime)) = Range(plan) \cup more(runtime)
  BY RuntimeStageTypes, RangeConcatenation
<1>2. more("none") = {} /\ more("consilium") = {ConsiliumStage}
      /\ more("unavailable") = {SentinelStage}
  <2>1. RuntimeStages("none") = <<>> /\ RuntimeStages("consilium") = <<ConsiliumStage>>
        /\ RuntimeStages("unavailable") = <<SentinelStage>>
    BY DEF RuntimeStages
  <2>2. Range(<<>>) = {} /\ \A x : Range(<<x>>) = {x}
    BY DEF Range
  <2> QED BY <2>1, <2>2
<1>3. Range(SentinelStage.keys) = {SentinelRole}
  BY DEF SentinelStage, Range
<1>4. \A st \in more(a) : st \in more(b) \/ st = SentinelStage
  BY <1>2 DEF Runtimes
<1>5. SentinelRole \notin Steps /\ ConsiliumStage \in Stage
  BY SentinelKey, RuntimeStageTypes, KeysAssumption DEF KeysAssumption
<1> HIDE DEF more
<1>6. \A st \in Range(plan \o RuntimeStages(a)) :
          st \in Range(plan \o RuntimeStages(b)) \/ st = SentinelStage
  BY <1>1, <1>4
<1>7. ASSUME NEW k \in KeysOf(plan \o RuntimeStages(a)), k # SentinelRole
      PROVE  k \in KeysOf(plan \o RuntimeStages(b))
  <2>1. PICK st \in Range(plan \o RuntimeStages(a)) : Spawnable(st) /\ k \in Range(st.keys)
    BY <1>7 DEF KeysOf
  <2>2. st \in Range(plan \o RuntimeStages(b))
    BY <1>3, <1>6, <1>7, <2>1
  <2> QED BY <2>1, <2>2 DEF KeysOf
<1> QED BY <1>3, <1>5, <1>6, <1>7

LEMMA NamesStay ==
  ASSUME IInv, IInv', Current \in Live => Later(Current)
  PROVE  /\ Asked(Current) \subseteq Asked(Current)'
         /\ Reported(Current) \subseteq Reported(Current)'
         /\ StepsOf(Current) \subseteq StepsOf(Current)'
<1>1. CASE Current \notin Live
  BY <1>1 DEF Asked, Reported, StepsOf
<1>2. CASE Current \in Live
  <2> DEFINE a == tracks[Current].runtime
             b == tracks'[Current].runtime
  <2>1. Current \in Live' /\ Current \in Decisions
    BY <1>2 DEF Live, Later
  <2>2. a \in Runtimes /\ b \in Runtimes /\ (a = "consilium" => b = "consilium")
    BY <1>2, <2>1 DEF Live, Later, IInv, TracksOK, Track
  <2>3. /\ Asked(Current) = (UNION {KeysOf(plan \o RuntimeStages(a)) : plan \in Plans[Current]})
                            \ {SentinelRole}
        /\ Asked(Current)' = (UNION {KeysOf(plan \o RuntimeStages(b)) : plan \in Plans[Current]})
                            \ {SentinelRole}
    BY <1>2, <2>1 DEF Asked, PlansOf
  <2>4. /\ StepsOf(Current) = {n \in Steps : \E plan \in Plans[Current] :
               \E st \in Range(plan \o RuntimeStages(a)) : n \in Range(st.keys)}
        /\ StepsOf(Current)' = {n \in Steps : \E plan \in Plans[Current] :
               \E st \in Range(plan \o RuntimeStages(b)) : n \in Range(st.keys)}
    BY <1>2, <2>1 DEF StepsOf, PlansOf
  <2>5. Plans[Current] \subseteq Seq(Stage)
    BY <2>1, DecisionsAssumption DEF DecisionsAssumption
  <2>6. ASSUME NEW plan \in Plans[Current]
        PROVE  /\ KeysOf(plan \o RuntimeStages(a)) \ {SentinelRole}
                     \subseteq KeysOf(plan \o RuntimeStages(b))
               /\ \A n \in Steps : \A st \in Range(plan \o RuntimeStages(a)) :
                     n \in Range(st.keys) => st \in Range(plan \o RuntimeStages(b))
    BY <2>2, <2>5, NamesGrow
  <2> HIDE DEF a, b
  <2>7. Asked(Current) \subseteq Asked(Current)'
    BY <2>3, <2>6
  <2>8. StepsOf(Current) \subseteq StepsOf(Current)'
    BY <2>4, <2>6
  <2> QED BY <1>2, <2>1, <2>7, <2>8 DEF Reported
<1> QED BY <1>1, <1>2

\* So what a process knows stays good while other processes act.
LEMMA KnowsStays ==
  ASSUME NEW state, NEW a1, NEW a2, NEW r1, NEW r2, NEW s1, NEW s2,
         Knows(state, a1, r1, s1), a1 \subseteq a2, r1 \subseteq r2, s1 \subseteq s2
  PROVE  Knows(state, a2, r2, s2)
  BY DEF Knows

-----------------------------------------------------------------------------
(* No transaction of a hook forgets a track *)

LEMMA PutLater ==
  ASSUME IInv, NEW e \in Live, NEW tr, Sound(tracks[e], tr), Put(e, tr),
         tracks[e].runtime = "consilium" => tr.runtime = "consilium"
  PROVE  \A d \in Live : Later(d)
<1>1. tr # Nil
  BY DecisionsAssumption DEF DecisionsAssumption, Sound
<1> QED BY <1>1, LiveTrack DEF Put, Later, Live, IInv, TracksOK

\* The count of repairs may convene the consilium, nothing else changes what is
\* added at run time.
LEMMA RuntimeOfResult ==
  ASSUME NEW tr \in Track, NEW k \in Keys, NEW ok \in BOOLEAN, NEW composable \in BOOLEAN,
         tr.runtime = "consilium"
  PROVE  /\ StageResult(tr, k, ok, composable).runtime = "consilium"
         /\ \A t \in Tasks : SettledRetrieval(tr, k, t, ok, composable).runtime = "consilium"
<1>1. ASSUME NEW x, x \in Track, x.runtime = "consilium", NEW reopen
      PROVE  ApplyStageResult(RepairResult(x, k, ok, composable), k, ok, reopen).runtime
                = "consilium"
  <2>1. RepairResult(x, k, ok, composable).runtime = "consilium"
    BY <1>1 DEF RepairResult, Track
  <2>2. RepairResult(x, k, ok, composable) \in Track
    BY <1>1, RepairResultSound DEF Sound
  <2> QED BY <2>1, <2>2 DEF ApplyStageResult, Track
<1>2. [tr EXCEPT !.stageTasks[ActualRole(tr, k)] = Nil] \in Track
  BY DEF Track
<1>3. Recorded(tr, k, ok, composable).runtime = "consilium"
  BY <1>1, <1>2 DEF Recorded, Track
<1>4. ASSUME NEW t \in Tasks
      PROVE  SettledRetrieval(tr, k, t, ok, composable).runtime = "consilium"
  <2> DEFINE unbound == [tr EXCEPT !.notFound[k] = Nil, !.stageTasks[ActualRole(tr, k)] = Nil,
                                    !.terminalTasks[t] = Nil]
  <2>1. unbound \in Track /\ unbound.runtime = "consilium"
    BY DEF Track, Names
  <2>2. CASE k \in tr.completed
    BY <2>2 DEF SettledRetrieval, Track
  <2>3. CASE k \notin tr.completed
    <3>1. SettledRetrieval(tr, k, t, ok, composable)
             = ApplyStageResult(RepairResult(unbound, k, ok, composable), k, ok, FALSE)
      BY <2>3 DEF SettledRetrieval
    <3> QED BY <1>1, <2>1, <3>1
  <2> QED BY <2>2, <2>3
<1> QED BY <1>3, <1>4 DEF StageResult

\* What a lookup of a child changes
LEMMA AnswerLater ==
  ASSUME IInv, NEW s \in Sessions, NEW t \in Children, Answer(s, t)
  PROVE  \A d \in Live : Later(d)
<1>1. t \in Tasks
  BY DEF Tasks
<1>2. CASE \E ok \in BOOLEAN, escalate \in Escalations, composable \in Composable :
              RecordRetrieval(s, t, ok, escalate, composable)
  <2>1. PICK ok \in BOOLEAN, escalate \in Escalations, composable \in Composable :
              RecordRetrieval(s, t, ok, escalate, composable)
    BY <1>2
  <2>2. composable \in BOOLEAN
    BY DecisionsAssumption DEF DecisionsAssumption
  <2>3. PICK m \in Matches(s, t) :
           /\ m[2] \in Keys
           /\ \/ Put(m[1], [tracks[m[1]] EXCEPT !.terminalTasks[t] = Nil])
              \/ Put(m[1], SettledRetrieval(tracks[m[1]], m[2], t, ok, composable))
    BY <2>1 DEF RecordRetrieval
  <2>4. m[1] \in Live /\ tracks[m[1]] \in Track
    BY MatchedTracks
  <2>5. CASE Put(m[1], [tracks[m[1]] EXCEPT !.terminalTasks[t] = Nil])
    BY <1>1, <2>4, <2>5, UnparkedSound, PutLater DEF Track
  <2>6. CASE Put(m[1], SettledRetrieval(tracks[m[1]], m[2], t, ok, composable))
    BY <1>1, <2>2, <2>3, <2>4, <2>6, SettledRetrievalSound, RuntimeOfResult, PutLater
  <2> QED BY <2>3, <2>5, <2>6
<1>3. CASE RecordReviewInconclusive(s, t)
  <2>1. PICK m \in Matches(s, t) :
           /\ m[2] \in Keys
           /\ \/ Put(m[1], [tracks[m[1]] EXCEPT !.terminalTasks[t] = Nil])
              \/ Put(m[1], Discharged(tracks[m[1]], m[2], t))
    BY <1>3 DEF RecordReviewInconclusive
  <2>2. m[1] \in Live /\ tracks[m[1]] \in Track
    BY MatchedTracks
  <2>3. CASE Put(m[1], [tracks[m[1]] EXCEPT !.terminalTasks[t] = Nil])
    BY <1>1, <2>2, <2>3, UnparkedSound, PutLater DEF Track
  <2>4. CASE Put(m[1], Discharged(tracks[m[1]], m[2], t))
    <3>1. Discharged(tracks[m[1]], m[2], t).runtime = tracks[m[1]].runtime
      BY <2>2 DEF Discharged, Track
    <3> QED BY <1>1, <2>1, <2>2, <2>4, <3>1, DischargedSound, PutLater
  <2> QED BY <2>1, <2>3, <2>4
<1>4. CASE ReleaseUnresolvable(s, t)
  <2> DEFINE found(d) == {n \in Names : <<d, n>> \in Matches(s, t)}
             one(d)   == CHOOSE n \in found(d) : TRUE
  <2>1. PICK jobs : tracks' = [d \in Decisions |->
                                 IF d \in Live /\ found(d) # {}
                                 THEN NotFound(tracks[d], one(d), t, jobs[d])
                                 ELSE tracks[d]]
    BY <1>4 DEF ReleaseUnresolvable
  <2>2. ASSUME NEW d \in Live
        PROVE  Later(d)
    <3>1. d \in Decisions /\ tracks[d] \in Track /\ tracks[d] # Nil
      BY <2>2, LiveTrack DEF Live
    <3>2. CASE found(d) # {}
      <4>1. one(d) \in Names
        BY <3>2
      <4>2. tracks'[d] = NotFound(tracks[d], one(d), t, jobs[d])
        BY <2>1, <2>2, <3>1, <3>2
      <4> HIDE DEF one, found
      <4>3. NotFound(tracks[d], one(d), t, jobs[d]) \in Track
        BY <1>1, <3>1, <4>1, NotFoundSound DEF Sound
      <4>4. NotFound(tracks[d], one(d), t, jobs[d]).runtime = tracks[d].runtime
        BY <3>1 DEF NotFound, Track
      <4> QED BY <4>2, <4>3, <4>4, DecisionsAssumption DEF DecisionsAssumption, Later
    <3>3. CASE found(d) = {}
      BY <2>1, <3>1, <3>3 DEF Later
    <3> QED BY <3>2, <3>3
  <2> QED BY <2>2
<1> QED BY <1>2, <1>3, <1>4 DEF Answer

-----------------------------------------------------------------------------
(* The steps of the hooks *)

\* What a step does to the state file is a transaction that may happen, it
\* forgets no track, and one process at most moves, to where it is informed.
WellServed ==
    /\ UNCHANGED vars \/ Next
    /\ Current \in Live => Later(Current)
    /\ \/ UNCHANGED hooks
       \/ \E h \in Hooks : \E state : Goto(h, state) /\ Informed(state)

LEMMA IdleInformed == Informed(Idle)
  BY DEF Informed, Knows, Idle

\* A step that leaves the state file alone
LEMMA ReadServed ==
  ASSUME UNCHANGED <<tracks, circuit>>, NEW h \in Hooks, NEW state, Goto(h, state),
         Informed(state)
  PROVE  WellServed
  BY DEF WellServed, Later, Live, vars

LEMMA AdmitSpawnServed ==
  ASSUME WellFormedPlans, HookInv, NEW h \in Hooks, NEW r \in Roles, Current \in Live,
         AdmitSpawn(h, r)
  PROVE  WellServed
<1> DEFINE stage == NextRequiredSpawnStage(track)
<1>1. CASE stage.kind = "parallel_spawn"
           /\ Goto(h, [at |-> "allocate", stage |-> stage.slot, role |-> r])
  <2>1. Informed([at |-> "allocate", stage |-> stage.slot, role |-> r])
    BY DEF Informed, Knows
  <2> QED BY <1>1, <2>1, ReadServed DEF AdmitSpawn
<1>2. CASE stage.kind = "spawn" /\ Key(stage) = r
           /\ Goto(h, [at |-> "request", key |-> r, role |-> r])
  <2>1. r \in Asked(Current)
    BY <1>2, AdmittedRole DEF HookInv
  <2>2. Informed([at |-> "request", key |-> r, role |-> r])
    BY <2>1 DEF Informed, Knows
  <2> QED BY <1>2, <2>2, ReadServed DEF AdmitSpawn
<1> QED BY <1>1, <1>2 DEF AdmitSpawn

LEMMA AllocateServed ==
  ASSUME HookInv, NEW h \in Hooks, Current \in Live, Allocate(h)
  PROVE  WellServed
<1>1. CASE Goto(h, Idle) /\ UNCHANGED <<tracks, circuit>>
  BY <1>1, IdleInformed, ReadServed
<1>2. CASE \E st \in Reservable(h) :
              AllocateParallelMember(Current, st, hooks[h].role) /\ Goto(h, Granted(h, st))
  <2>1. PICK st \in Reservable(h) :
              AllocateParallelMember(Current, st, hooks[h].role) /\ Goto(h, Granted(h, st))
    BY <1>2
  <2> DEFINE r == hooks[h].role
             k == AllocatedKey(track, st, r)
  <2>2. st \in BarriersOf(Current) /\ k # Nil
    BY <2>1 DEF Reservable
  <2>3. r \in Roles
    BY DEF Allocate, At, HookInv, Informed, Knows
  <2>4. k \in Asked(Current)
    BY <2>2, AllocatedAsked DEF HookInv
  <2>5. Informed(Granted(h, st))
    BY <2>4 DEF Informed, Knows, Granted
  <2>6. Next
    BY <2>1, <2>2, <2>3, HooksAssumption DEF Next, HooksAssumption
  <2>7. Put(Current, [track EXCEPT !.requested = @ \cup {k}])
    BY <2>1 DEF AllocateParallelMember, track
  <2>8. k \in Keys
    BY <2>4, NamedKeys, HooksAssumption DEF HooksAssumption, HookInv
  <2> HIDE DEF k
  <2>9. /\ Sound(track, [track EXCEPT !.requested = @ \cup {k}])
        /\ [track EXCEPT !.requested = @ \cup {k}].runtime = track.runtime
    BY <2>8, PlanOfTrack, RequestedSound DEF HookInv, Track
  <2>10. Later(Current)
    BY <2>7, <2>9, PutLater DEF HookInv, track
  <2> QED BY <2>1, <2>5, <2>6, <2>10 DEF WellServed
<1> QED BY <1>1, <1>2 DEF Allocate

\* A request is recorded, and the process answers or is killed before it does.
LEMMA RequestServed ==
  ASSUME HookInv, NEW h \in Hooks, Current \in Live, At(h, "request"),
         RecordRequested(Current, hooks[h].key), Goto(h, Idle)
  PROVE  WellServed
<1> DEFINE k == hooks[h].key
<1>1. k \in Asked(Current)
  BY DEF At, HookInv, Informed, Knows
<1>2. Next
  BY <1>1, HooksAssumption DEF Next, HooksAssumption
<1>3. k \in Keys
  BY <1>1, NamedKeys, HooksAssumption DEF HooksAssumption, HookInv
<1>4. Put(Current, Requested(track, k))
  BY DEF RecordRequested, track
<1> HIDE DEF k
<1>5. Sound(track, Requested(track, k)) /\ Requested(track, k).runtime = track.runtime
  BY <1>3, PlanOfTrack, RequestedSound DEF HookInv, Track, Requested
<1>6. Later(Current)
  BY <1>4, <1>5, PutLater DEF HookInv, track
<1> QED BY <1>2, <1>6, IdleInformed DEF WellServed

LEMMA AcknowledgeServed ==
  ASSUME HookInv, NEW h \in Hooks, Current \in Live,
         AcknowledgeMember(h) \/ AcknowledgeLinear(h)
  PROVE  WellServed
<1> DEFINE c == hooks[h].child
           r == TaskRole[c]
<1>1. c \in Children
  BY DEF AcknowledgeMember, AcknowledgeLinear, At, HookInv, Informed, Knows
<1>2. c \in Tasks /\ r \in Roles /\ Current \in Decisions
  BY <1>1, DecisionsAssumption, HooksAssumption DEF Tasks, DecisionsAssumption, HooksAssumption
<1>3. CASE AcknowledgeMember(h)
  <2>1. Next
    BY <1>1, <1>2, <1>3 DEF AcknowledgeMember, Next
  <2>2. \E state \in {[at |-> "bindLinear", child |-> c], Idle} : Goto(h, state)
    BY <1>3 DEF AcknowledgeMember
  <2>3. Informed([at |-> "bindLinear", child |-> c]) /\ Informed(Idle)
    BY <1>1, IdleInformed DEF Informed, Knows
  <2>4. Put(Current, MemberBound(track, r, c))
    BY <1>3 DEF AcknowledgeMember, BindParallelMember, track
  <2> HIDE DEF c, r
  <2>5. Sound(track, MemberBound(track, r, c)) /\ MemberBound(track, r, c).runtime = track.runtime
    BY <1>2, PlanOfTrack, MemberBoundSound DEF HookInv, MemberBound, Track
  <2>6. Later(Current)
    BY <2>4, <2>5, PutLater DEF HookInv, track
  <2> QED BY <2>1, <2>2, <2>3, <2>6 DEF WellServed
<1>4. CASE AcknowledgeLinear(h)
  <2>1. Next
    BY <1>1, <1>2, <1>4 DEF AcknowledgeLinear, Next
  <2>2. Goto(h, Idle) /\ Put(Current, LinearBound(track, r, c))
    BY <1>4 DEF AcknowledgeLinear, BindLinearStage, track
  <2> HIDE DEF c, r
  <2>3. Sound(track, LinearBound(track, r, c)) /\ LinearBound(track, r, c).runtime = track.runtime
    BY <1>2, PlanOfTrack, LinearBoundSound DEF HookInv, LinearBound, Track
  <2>4. Later(Current)
    BY <2>2, <2>3, PutLater DEF HookInv, track
  <2> QED BY <2>1, <2>2, <2>4, IdleInformed DEF WellServed
<1> QED BY <1>3, <1>4

\* The results of children
LEMMA StartServed ==
  ASSUME HookInv, NEW h \in Hooks, Current \in Live, NEW c \in Children,
         StartAcknowledge(h, c) \/ StartFailure(h, c) \/ StartForegroundResult(h, c)
  PROVE  WellServed
<1>1. CASE StartAcknowledge(h, c)
  <2>1. Informed([at |-> "bindMember", child |-> c])
    BY DEF Informed, Knows
  <2> QED BY <1>1, <2>1, ReadServed DEF StartAcknowledge
<1>2. CASE StartFailure(h, c)
  <2>1. PICK k \in FailureKeys(track, TaskRole[c]) : Goto(h, [at |-> "fail", key |-> k])
    BY <1>2 DEF StartFailure
  <2>2. k \in Reported(Current)
    BY FailureReported DEF HookInv
  <2>3. Informed([at |-> "fail", key |-> k])
    BY <2>2 DEF Informed, Knows
  <2> QED BY <1>2, <2>1, <2>3, ReadServed DEF StartFailure
<1>3. CASE StartForegroundResult(h, c)
  <2>1. PICK k \in OwedResultKeys(track, TaskRole[c]), ok \in BOOLEAN :
           Goto(h, [at |-> "settle", key |-> k, ok |-> ok])
    BY <1>3 DEF StartForegroundResult
  <2>2. k \in FailureKeys(track, TaskRole[c]) \/ k \in OwedKeys(track, TaskRole[c])
    BY DEF OwedResultKeys
  <2>3. TaskRole[c] \in Roles \ {SentinelRole}
    BY DecisionsAssumption DEF DecisionsAssumption
  <2>4. k \in Reported(Current)
    BY <2>2, <2>3, FailureReported, OwedAsked DEF HookInv, Reported
  <2>5. Informed([at |-> "settle", key |-> k, ok |-> ok])
    BY <2>4 DEF Informed, Knows
  <2> QED BY <1>3, <2>1, <2>5, ReadServed DEF StartForegroundResult
<1> QED BY <1>1, <1>2, <1>3

LEMMA SettleServed ==
  ASSUME HookInv, NEW h \in Hooks, Current \in Live, Fail(h) \/ Settle(h)
  PROVE  WellServed
<1> DEFINE k == hooks[h].key
<1>1. k \in Reported(Current) /\ (Settle(h) => hooks[h].ok \in BOOLEAN)
  BY DEF Fail, Settle, At, HookInv, Informed, Knows
<1>2. PICK ok \in BOOLEAN, escalate \in Escalations, composable \in Composable :
         RecordStageResult(Current, k, ok, escalate, composable)
  <2>1. CASE Fail(h)
    BY <2>1 DEF Fail
  <2>2. CASE Settle(h)
    BY <1>1, <2>2 DEF Settle
  <2> QED BY <2>1, <2>2
<1>3. Goto(h, Idle)
  BY DEF Fail, Settle
<1>4. Next
  BY <1>1, <1>2, HooksAssumption DEF Next, HooksAssumption
<1>5. k \in Keys /\ composable \in BOOLEAN
  BY <1>1, <1>2, NamedKeys, HooksAssumption, DecisionsAssumption
     DEF HooksAssumption, HookInv, DecisionsAssumption
<1>6. Put(Current, StageResult(track, k, ok, composable))
  BY <1>2 DEF RecordStageResult, track
<1> HIDE DEF k
<1>7. track \in Track /\ Sound(track, StageResult(track, k, ok, composable))
  BY <1>5, PlanOfTrack, StageResultSound DEF HookInv
<1>8. track.runtime = "consilium" =>
         StageResult(track, k, ok, composable).runtime = "consilium"
  BY <1>5, <1>7, RuntimeOfResult
<1>9. Later(Current)
  BY <1>6, <1>7, <1>8, PutLater DEF HookInv, track
<1> QED BY <1>3, <1>4, <1>9, IdleInformed DEF WellServed

LEMMA RetrieveServed ==
  ASSUME HookInv, Current \in Live, NEW c \in Children, Retrieve(c)
  PROVE  WellServed
<1>1. SessionOf[Current] \in Sessions /\ c \in Tasks
  BY HooksAssumption, DecisionsAssumption DEF HooksAssumption, DecisionsAssumption, Tasks
<1>2. Answer(SessionOf[Current], c)
  BY DEF Retrieve
<1>3. Next
  <2>1. CASE \E ok \in BOOLEAN, escalate \in Escalations, composable \in Composable :
                RecordRetrieval(SessionOf[Current], c, ok, escalate, composable)
    BY <1>1, <2>1 DEF Next
  <2>2. CASE RecordReviewInconclusive(SessionOf[Current], c)
    BY <1>1, <2>2 DEF Next
  <2>3. CASE ReleaseUnresolvable(SessionOf[Current], c)
    BY <1>1, <2>3 DEF Next
  <2> QED BY <1>2, <2>1, <2>2, <2>3 DEF Answer
<1>4. Later(Current)
  BY <1>1, <1>2, AnswerLater DEF HookInv
<1> QED BY <1>3, <1>4 DEF WellServed, Retrieve

\* The verifier: admitted by one process, judged by another
LEMMA VerifierServed ==
  ASSUME HookInv, NEW h \in Hooks, Current \in Live,
         AdmitVerifier(h) \/ ReadVerdict(h) \/ RecordVerdict(h)
  PROVE  WellServed
<1> DEFINE step == AdmittedVerifyStep(track)
<1>1. CASE AdmitVerifier(h)
  <2>1. Informed([at |-> "verifying", command |-> CommandOf[step]])
    BY DEF Informed, Knows
  <2> QED BY <1>1, <2>1, ReadServed DEF AdmitVerifier
<1>2. CASE ReadVerdict(h)
  <2>1. CASE Goto(h, Idle)
    BY <1>2, <2>1, IdleInformed, ReadServed DEF ReadVerdict
  <2>2. CASE step # Nil /\ \E ok \in BOOLEAN :
                Goto(h, [at |-> "verdict", step |-> step, ok |-> ok])
    <3>1. PICK ok \in BOOLEAN : Goto(h, [at |-> "verdict", step |-> step, ok |-> ok])
      BY <2>2
    <3>2. step \in StepsOf(Current)
      BY <2>2, AdmittedDue DEF HookInv
    <3>3. Informed([at |-> "verdict", step |-> step, ok |-> ok])
      BY <3>2 DEF Informed, Knows
    <3> QED BY <1>2, <3>1, <3>3, ReadServed DEF ReadVerdict
  <2> QED BY <1>2, <2>1, <2>2 DEF ReadVerdict
<1>3. CASE RecordVerdict(h)
  <2> DEFINE s == hooks[h].step
             ok == hooks[h].ok
  <2>1. s \in StepsOf(Current) /\ ok \in BOOLEAN
    BY <1>3 DEF RecordVerdict, At, HookInv, Informed, Knows
  <2>2. Next
    BY <1>3, <2>1, HooksAssumption DEF RecordVerdict, Next, HooksAssumption
  <2>3. Goto(h, Idle) /\ Put(Current, VerifyRecorded(track, s, ok))
    BY <1>3 DEF RecordVerdict, RecordVerify, track
  <2>4. s \in Steps
    BY <2>1 DEF StepsOf
  <2> HIDE DEF s, ok
  <2>5. /\ Sound(track, VerifyRecorded(track, s, ok))
        /\ VerifyRecorded(track, s, ok).runtime = track.runtime
    BY <2>1, <2>4, PlanOfTrack, VerifyRecordedSound DEF HookInv, VerifyRecorded, Track
  <2>6. Later(Current)
    BY <2>3, <2>5, PutLater DEF HookInv, track
  <2> QED BY <2>2, <2>3, <2>6, IdleInformed DEF WellServed
<1> QED BY <1>1, <1>2, <1>3

\* The turn
LEMMA TurnServed ==
  ASSUME HookInv, EnsureTrack \/ (Current \in Live /\ EndTurn)
  PROVE  WellServed
<1>1. Current \in Decisions
  BY HooksAssumption DEF HooksAssumption
<1>2. CASE EnsureTrack
  <2>1. PICK plan \in Plans[Current] : EnsureExecution(Current, plan)
    BY <1>2 DEF EnsureTrack
  <2>2. Next
    BY <1>1, <2>1 DEF Next
  <2>3. ASSUME Current \in Live
        PROVE  Later(Current)
    <3>1. Put(Current, Ensured(track, plan))
      BY <2>1, <2>3 DEF EnsureExecution, Live, track
    <3>2. plan \in Seq(Stage) /\ track \in Track
      BY <1>1, <2>3, PlanOfTrack, DecisionsAssumption DEF DecisionsAssumption, HookInv
    <3>3. Sound(track, Ensured(track, plan))
      BY <3>2, EnsuredSound
    <3>4. Ensured(track, plan).runtime = track.runtime
      BY <3>2 DEF Ensured, Reconcile, Track
    <3> QED BY <2>3, <3>1, <3>3, <3>4, PutLater DEF HookInv, track
  <2> QED BY <1>2, <2>2, <2>3 DEF WellServed, EnsureTrack
<1>3. CASE Current \in Live /\ EndTurn
  <2>1. Next
    BY <1>1, <1>3 DEF EndTurn, Next
  <2>2. Put(Current, [track EXCEPT !.stopBlocks = @ + 1])
    BY <1>3 DEF EndTurn, StopBlock, track
  <2>3. /\ Sound(track, [track EXCEPT !.stopBlocks = @ + 1])
        /\ [track EXCEPT !.stopBlocks = @ + 1].runtime = track.runtime
    BY <1>3, PlanOfTrack, StopBlockSound DEF HookInv, Track
  <2>4. Later(Current)
    BY <1>3, <2>2, <2>3, PutLater DEF HookInv, track
  <2> QED BY <1>3, <2>1, <2>4 DEF WellServed, EndTurn
<1> QED BY <1>2, <1>3

\* What one process does next.
Acts(h) ==
    \/ \E r \in Roles : AdmitSpawn(h, r)
    \/ Allocate(h)
    \/ \E c \in Children :
          \/ GrantSpawn(h, c)
          \/ StartAcknowledge(h, c)
          \/ StartFailure(h, c)
          \/ StartForegroundResult(h, c)
    \/ AcknowledgeMember(h) \/ AcknowledgeLinear(h)
    \/ Fail(h) \/ Settle(h)
    \/ AdmitVerifier(h) \/ ReadVerdict(h) \/ RecordVerdict(h)
    \/ Killed(h) \/ KilledUnanswered(h)

LEMMA ProcessServed ==
  ASSUME WellFormedPlans, HookInv, Current \in Live, NEW h \in Hooks, Acts(h)
  PROVE  WellServed
<1>1. CASE (\E r \in Roles : AdmitSpawn(h, r)) \/ Allocate(h)
  BY <1>1, AdmitSpawnServed, AllocateServed
<1>2. CASE (\E c \in Children : GrantSpawn(h, c)) \/ KilledUnanswered(h)
  BY <1>2, RequestServed DEF GrantSpawn, KilledUnanswered
<1>3. CASE \E c \in Children : \/ StartAcknowledge(h, c)
                               \/ StartFailure(h, c)
                               \/ StartForegroundResult(h, c)
  BY <1>3, StartServed
<1>4. CASE AcknowledgeMember(h) \/ AcknowledgeLinear(h)
  BY <1>4, AcknowledgeServed
<1>5. CASE Fail(h) \/ Settle(h)
  BY <1>5, SettleServed
<1>6. CASE AdmitVerifier(h) \/ ReadVerdict(h) \/ RecordVerdict(h)
  BY <1>6, VerifierServed
<1>7. CASE Killed(h)
  BY <1>7, IdleInformed, ReadServed DEF Killed
<1> QED BY <1>1, <1>2, <1>3, <1>4, <1>5, <1>6, <1>7 DEF Acts

LEMMA HooksServed ==
  ASSUME WellFormedPlans, HookInv, HookNext
  PROVE  WellServed
<1>1. CASE EnsureTrack \/ (Current \in Live /\ EndTurn)
  BY <1>1, TurnServed
<1>2. CASE \E c \in Children : UngatedSpawn(c)
  <2>1. UNCHANGED <<tracks, circuit, hooks>>
    BY <1>2 DEF UngatedSpawn
  <2>2. Current \in Live => Later(Current)
    BY <2>1 DEF Later, Live
  <2> QED BY <2>1, <2>2 DEF WellServed, vars
<1>3. CASE Current \in Live /\ \E c \in Children : Retrieve(c)
  BY <1>3, RetrieveServed
<1>4. ASSUME Current \in Live, NEW h \in Hooks, Acts(h)
      PROVE  WellServed
  BY <1>4, ProcessServed
<1>5. \/ EnsureTrack \/ (Current \in Live /\ EndTurn)
      \/ \E c \in Children : UngatedSpawn(c)
      \/ Current \in Live /\ \E c \in Children : Retrieve(c)
      \/ Current \in Live /\ \E h \in Hooks : Acts(h)
  BY DEF HookNext, Acts
<1> QED BY <1>1, <1>2, <1>3, <1>4, <1>5

-----------------------------------------------------------------------------
(* The invariant and the theorems *)

LEMMA InitHooks == HookInit => HookInv
<1> SUFFICES ASSUME HookInit PROVE HookInv
  OBVIOUS
<1>1. IInv /\ ProgressInv
  BY InitOK DEF HookInit, Init, ProgressInv, Live
<1>2. hooks = [h \in Hooks |-> hooks[h]] /\ \A h \in Hooks : hooks[h] = Idle
  BY DEF HookInit
<1> QED BY <1>1, <1>2, IdleInformed DEF HookInv

LEMMA ServedKeeps ==
  ASSUME WellFormedPlans, HookInv, WellServed
  PROVE  HookInv'
<1>1. IInv'
  BY NextOK DEF WellServed, HookInv, vars, IInv, TracksOK, CircuitOK
<1>2. ProgressInv'
  <2>1. CASE Next
    BY <1>1, <2>1, NextMoves, MovesKeepFit DEF HookInv
  <2>2. CASE UNCHANGED vars
    BY <2>2 DEF vars, HookInv, ProgressInv, Live
  <2> QED BY <2>1, <2>2 DEF WellServed
<1> DEFINE K(state) == Knows(state, Asked(Current)', Reported(Current)', StepsOf(Current)')
<1>3. ASSUME NEW state, Informed(state)
      PROVE  K(state)
  BY <1>1, <1>3, NamesStay, KnowsStays DEF Informed, HookInv, WellServed
<1>4. hooks' = [h \in Hooks |-> hooks'[h]] /\ \A h \in Hooks : K(hooks'[h])
  <2>1. CASE UNCHANGED hooks
    BY <1>3, <2>1 DEF HookInv
  <2>2. ASSUME NEW h \in Hooks, NEW state, Goto(h, state), Informed(state)
        PROVE  hooks' = [g \in Hooks |-> hooks'[g]] /\ \A g \in Hooks : K(hooks'[g])
    <3>1. hooks' = [g \in Hooks |-> IF g = h THEN state ELSE hooks[g]]
      BY <2>2 DEF Goto, HookInv
    <3>2. \A g \in Hooks : Informed(hooks'[g])
      BY <2>2, <3>1 DEF HookInv
    <3> HIDE DEF K
    <3> QED BY <1>3, <3>1, <3>2
  <2> QED BY <2>1, <2>2 DEF WellServed
<1> QED BY <1>1, <1>2, <1>4 DEF HookInv, Informed

\* Whatever the overlapping hooks of a session read beforehand, and wherever one
\* is killed, they change the state file by whole transactions that any hook may
\* run (allocate_parallel_member_tx, record_stage_tx, ...): what is proved of the
\* transactions is true of the hooks.
THEOREM HooksImplement ==
  ASSUME WellFormedPlans
  PROVE  HookSpec => TransactionLayer
<1>1. HookInv /\ [HookNext]_hookVars => HookInv' /\ [UNCHANGED vars \/ Next]_vars
  <2>1. CASE HookNext
    BY <2>1, HooksServed, ServedKeeps DEF WellServed, vars
  <2>2. CASE UNCHANGED hookVars
    BY <2>2 DEF hookVars, vars, HookInv, IInv, TracksOK, CircuitOK, ProgressInv, Live,
                Informed, Asked, Reported, StepsOf, PlansOf
  <2> QED BY <2>1, <2>2
<1>2. HookInit => Init
  BY DEF HookInit
<1> QED BY <1>1, <1>2, InitHooks, PTL DEF HookSpec, TransactionLayer

\* So overlapping hooks, too, never leave a member bound that is not requested,
\* and never reopen what is completed or discharged.
THEOREM HooksKeepProgress ==
  ASSUME WellFormedPlans
  PROVE  HookSpec => []BoundMembersRequested /\ SettledStagesStay /\ FinishedStagesStay
<1>1. [UNCHANGED vars \/ Next]_vars => [Next]_vars
  OBVIOUS
<1>2. TransactionLayer => Spec
  BY <1>1, PTL DEF TransactionLayer, Spec
<1> QED BY <1>2, HooksImplement, BoundMembersCorrect, CompletedStagesStay,
           FinishedStaysFinished

-----------------------------------------------------------------------------
(* Parallel spawns take different members *)

\* A member one of these names is not given out as if nobody had asked for it.
Marked(tr) == tr.requested \cup tr.failed \cup tr.completed \cup tr.inconclusive

MarksStay(old, new) ==
    \A k \in MemberKeys : IsMember(old, k) /\ k \in Marked(old) => k \in Marked(new)

Reserved(state) == state.at = "request" /\ state.key \in MemberKeys => state.key \in Marked(track)

ReservedInv == \A h \in Hooks : Reserved(hooks[h])

\* The members a hook may ask for are on the track, whichever plan it has read.
LEMMA AskedMembers ==
  ASSUME BarriersStand, IInv, ProgressInv, Current \in Live, NEW k \in Asked(Current) \cap MemberKeys
  PROVE  IsMember(track, k)
<1>1. PICK plan \in Plans[Current] : k \in KeysOf(plan \o RuntimeStages(track.runtime))
  BY DEF Asked, PlansOf, track
<1>2. PICK st \in Range(plan \o RuntimeStages(track.runtime)) : k \in Range(st.keys)
  BY <1>1 DEF KeysOf
<1> DEFINE more == RuntimeStages(track.runtime)
<1>3. plan \in Seq(Stage) /\ track.plan \in Seq(Stage) /\ more \in Seq(Stage)
  BY PlanOfTrack, RuntimeStageTypes, DecisionsAssumption DEF DecisionsAssumption
<1>4. /\ Range(plan \o more) = Range(plan) \cup Range(more)
      /\ Range(track.plan \o more) = Range(track.plan) \cup Range(more)
  BY <1>3, RangeConcatenation
<1>5. st \in Stage
  BY <1>2, <1>3, <1>4 DEF Range
<1>6. st.kind = "parallel_spawn"
  BY <1>2, <1>5, KeyKinds
<1>7. st \in Range(track.plan \o more)
  BY <1>2, <1>4, <1>6, PlanOfTrack DEF BarriersStand
<1> QED BY <1>2, <1>6, <1>7 DEF IsMember, Stages

\* What was recorded of a stage that is on both tuples
LEMMA ReconcileMarks ==
  ASSUME WellFormedPlans, NEW d \in Decisions, NEW tr \in Track, tr.plan \in Plans[d],
         NEW plan \in Plans[d], NEW runtime \in Runtimes,
         NEW st \in Range(Stages(tr)), st \in Range(plan \o RuntimeStages(runtime)),
         NEW k \in Range(st.keys), k \in Marked(tr)
  PROVE  k \in Marked(Reconcile(tr, plan, runtime))
<1> DEFINE old == Stages(tr)
           new == plan \o RuntimeStages(runtime)
           after == Reconcile(tr, plan, runtime)
<1>1. old \in Seq(Stage) /\ new \in Seq(Stage) /\ Distinct(Range(old)) /\ Distinct(Range(new))
  BY WellFormedStages DEF Stages, Track
<1>2. Migrated(old, new, k) = {k}
  BY <1>1, MigratedOnce
<1>3. /\ after.requested = UNION {Migrated(old, new, x) : x \in tr.requested}
      /\ after.completed = UNION {Migrated(old, new, x) : x \in tr.completed}
      /\ after.failed = UNION {Migrated(old, new, x) : x \in tr.failed}
      /\ after.inconclusive = tr.inconclusive
  BY DEF Reconcile, Track
<1> HIDE DEF after, old, new
<1> QED BY <1>2, <1>3 DEF Marked, after

\* No update but a reconciliation takes a mark away, and one that keeps the plan
\* takes it from nothing that was composed.
LEMMA MarksAdded ==
  ASSUME NEW tr \in Track, NEW after, Marked(tr) \subseteq Marked(after)
  PROVE  MarksStay(tr, after)
  BY DEF MarksStay

\* A barrier that is not composed is the consilium, and the other way round.
LEMMA ComposedBarrier ==
  ASSUME NEW tr \in Track, tr.runtime # "consilium",
         NEW st \in Range(Stages(tr)), st.kind = "parallel_spawn"
  PROVE  st \in Range(tr.plan)
<1>1. tr.plan \in Seq(Stage) /\ tr.runtime \in {"none", "unavailable"}
  BY DEF Track, Runtimes
<1>2. RuntimeStages(tr.runtime) \in {<<>>, <<SentinelStage>>}
  BY <1>1 DEF RuntimeStages
<1>3. Range(<<>>) = {} /\ Range(<<SentinelStage>>) = {SentinelStage}
  BY DEF Range
<1>4. Range(Stages(tr)) = Range(tr.plan) \cup Range(RuntimeStages(tr.runtime))
  BY <1>1, RuntimeStageTypes, RangeConcatenation DEF Stages, Track
<1>5. SentinelStage.kind # "parallel_spawn"
  BY DEF SentinelStage
<1> QED BY <1>2, <1>3, <1>4, <1>5

LEMMA RepairMarks ==
  ASSUME WellFormedPlans, NEW d \in Decisions, NEW tr \in Track, tr.plan \in Plans[d],
         NEW k \in Keys, NEW ok \in BOOLEAN, NEW composable \in BOOLEAN
  PROVE  MarksStay(tr, RepairResult(tr, k, ok, composable))
<1> DEFINE count == IF tr.repairFailures[k] < RepairThreshold
                    THEN tr.repairFailures[k] + 1 ELSE RepairThreshold
           counted == [tr EXCEPT !.repairFailures[k] = IF ok THEN 0 ELSE count]
           convened == Reconcile(counted, tr.plan, "consilium")
           after == RepairResult(tr, k, ok, composable)
<1>1. \/ after = counted
      \/ after = [counted EXCEPT !.runtime = "unavailable"]
      \/ after = convened /\ tr.runtime # "consilium"
  BY DEF RepairResult
<1>2. (IF ok THEN 0 ELSE count) \in 0..RepairThreshold
  BY KeysAssumption DEF KeysAssumption, Track
<1> HIDE DEF count
<1>3. /\ counted \in Track /\ counted.plan = tr.plan /\ counted.runtime = tr.runtime
      /\ Marked(counted) = Marked(tr)
  BY <1>2 DEF Track, Marked
<1>4. Marked([counted EXCEPT !.runtime = "unavailable"]) = Marked(counted)
  BY <1>3 DEF Track, Marked
<1> HIDE DEF counted
<1>5. ASSUME tr.runtime # "consilium",
             NEW m \in MemberKeys, IsMember(tr, m), m \in Marked(tr)
      PROVE  m \in Marked(convened)
  <2>1. PICK st \in Range(Stages(tr)) : st.kind = "parallel_spawn" /\ m \in Range(st.keys)
    BY <1>5 DEF IsMember
  <2>2. st \in Range(tr.plan)
    BY <1>5, <2>1, ComposedBarrier
  <2>3. tr.plan \in Seq(Stage) /\ "consilium" \in Runtimes
    BY DEF Track, Runtimes
  <2>4. st \in Range(tr.plan \o RuntimeStages("consilium"))
    BY <2>2, <2>3, RuntimeStageTypes, RangeConcatenation
  <2>5. st \in Range(Stages(counted))
    BY <1>3 DEF Stages
  <2> QED BY <1>3, <1>5, <2>1, <2>3, <2>4, <2>5, ReconcileMarks
<1> HIDE DEF convened, after
<1>6. MarksStay(tr, after)
  BY <1>1, <1>3, <1>4, <1>5 DEF MarksStay
<1> QED BY <1>6 DEF after

LEMMA OutcomeMarks ==
  ASSUME NEW tr \in Track, NEW k \in Keys, NEW ok \in BOOLEAN, NEW reopen \in BOOLEAN
  PROVE  Marked(tr) \subseteq Marked(ApplyStageResult(tr, k, ok, reopen))
<1>1. CASE ok
  BY <1>1 DEF ApplyStageResult, Marked, Track
<1>2. CASE ~ok
  <2> DEFINE after == ApplyStageResult(tr, k, ok, reopen)
  <2>1. /\ after.failed = tr.failed \cup {k}
        /\ tr.completed \ {k} \subseteq after.completed
        /\ tr.requested \ {k} \subseteq after.requested
        /\ after.inconclusive = tr.inconclusive
    BY <1>2 DEF ApplyStageResult, Track
  <2> HIDE DEF after
  <2>2. Marked(tr) \subseteq Marked(after)
    BY <2>1 DEF Marked
  <2> QED BY <2>2 DEF after
<1> QED BY <1>1, <1>2

LEMMA ResultMarks ==
  ASSUME WellFormedPlans, NEW d \in Decisions, NEW tr \in Track, tr.plan \in Plans[d],
         NEW k \in Keys, NEW ok \in BOOLEAN, NEW composable \in BOOLEAN
  PROVE  /\ MarksStay(tr, StageResult(tr, k, ok, composable))
         /\ \A t \in Tasks : MarksStay(tr, SettledRetrieval(tr, k, t, ok, composable))
<1>1. ASSUME NEW x \in Track, x.plan = tr.plan, x.runtime = tr.runtime,
             Marked(x) = Marked(tr), NEW reopen \in BOOLEAN
      PROVE  MarksStay(tr, ApplyStageResult(RepairResult(x, k, ok, composable), k, ok, reopen))
  <2> DEFINE counted == RepairResult(x, k, ok, composable)
  <2>1. MarksStay(x, counted)
    BY <1>1, RepairMarks
  <2>2. counted \in Track
    BY <1>1, RepairResultSound DEF Sound
  <2> HIDE DEF counted
  <2>3. Marked(counted) \subseteq Marked(ApplyStageResult(counted, k, ok, reopen))
    BY <1>1, <2>2, OutcomeMarks
  <2>4. \A m : IsMember(x, m) <=> IsMember(tr, m)
    BY <1>1 DEF IsMember, Stages
  <2>5. MarksStay(tr, ApplyStageResult(counted, k, ok, reopen))
    BY <1>1, <2>1, <2>3, <2>4 DEF MarksStay
  <2> QED BY <2>5 DEF counted
<1>2. MarksStay(tr, StageResult(tr, k, ok, composable))
  <2> DEFINE cleared == [tr EXCEPT !.stageTasks[ActualRole(tr, k)] = Nil]
  <2>1. /\ cleared \in Track /\ cleared.plan = tr.plan /\ cleared.runtime = tr.runtime
        /\ Marked(cleared) = Marked(tr)
    BY DEF Track, Marked
  <2> HIDE DEF cleared
  <2>2. MarksStay(tr, ApplyStageResult(RepairResult(cleared, k, ok, composable), k, ok, TRUE))
    BY <1>1, <2>1
  <2>3. MarksStay(tr, tr)
    BY DEF MarksStay
  <2> QED BY <2>2, <2>3 DEF StageResult, Recorded, cleared
<1>3. ASSUME NEW t \in Tasks
      PROVE  MarksStay(tr, SettledRetrieval(tr, k, t, ok, composable))
  <2> DEFINE unparked == [tr EXCEPT !.notFound[k] = Nil, !.terminalTasks[t] = Nil]
             cleared == [tr EXCEPT !.notFound[k] = Nil,
                                   !.stageTasks[ActualRole(tr, k)] = Nil,
                                   !.terminalTasks[t] = Nil]
  <2>1. Marked(unparked) = Marked(tr)
    BY DEF Track, Marked
  <2>2. /\ cleared \in Track /\ cleared.plan = tr.plan /\ cleared.runtime = tr.runtime
        /\ Marked(cleared) = Marked(tr)
    BY DEF Track, Marked, Names
  <2> HIDE DEF unparked, cleared
  <2>3. MarksStay(tr, ApplyStageResult(RepairResult(cleared, k, ok, composable), k, ok, FALSE))
    BY <1>1, <2>2
  <2>4. MarksStay(tr, unparked)
    BY <2>1 DEF MarksStay
  <2> QED BY <2>3, <2>4 DEF SettledRetrieval, cleared, unparked
<1> QED BY <1>2, <1>3

LEMMA NotFoundMarks ==
  ASSUME NEW tr \in Track, NEW n \in Names, NEW t \in Tasks, NEW job
  PROVE  Marked(tr) \subseteq Marked(NotFound(tr, n, t, job))
<1> DEFINE after == NotFound(tr, n, t, job)
<1>1. /\ after.completed = tr.completed /\ after.inconclusive = tr.inconclusive
      /\ tr.failed \subseteq after.failed
      /\ tr.requested \subseteq after.requested \cup after.failed
  BY DEF NotFound, Track
<1> HIDE DEF after
<1>2. Marked(tr) \subseteq Marked(after)
  BY <1>1 DEF Marked
<1> QED BY <1>2 DEF after

\* A lookup of a child
LEMMA AnswerMarks ==
  ASSUME WellFormedPlans, IInv, ProgressInv, Current \in Live,
         NEW s \in Sessions, NEW t \in Children, Answer(s, t)
  PROVE  MarksStay(track, tracks'[Current])
<1>0. /\ t \in Tasks /\ Current \in Decisions /\ track \in Track /\ track.plan \in Plans[Current]
      /\ MarksStay(track, track)
  BY PlanOfTrack DEF Tasks, MarksStay
<1>1. ASSUME NEW e, NEW tr, Put(e, tr), e = Current => MarksStay(track, tr)
      PROVE  MarksStay(track, tracks'[Current])
  <2>1. tracks'[Current] = IF e = Current THEN tr ELSE track
    BY <1>0, <1>1 DEF Put, track, IInv, TracksOK
  <2> QED BY <1>0, <1>1, <2>1
<1>2. \A e : e = Current => MarksStay(track, [tracks[e] EXCEPT !.terminalTasks[t] = Nil])
  BY <1>0 DEF MarksStay, Marked, Track, track
<1>3. CASE \E ok \in BOOLEAN, escalate \in Escalations, composable \in Composable :
              RecordRetrieval(s, t, ok, escalate, composable)
  <2>1. PICK ok \in BOOLEAN, escalate \in Escalations, composable \in Composable :
              RecordRetrieval(s, t, ok, escalate, composable)
    BY <1>3
  <2>2. composable \in BOOLEAN
    BY DecisionsAssumption DEF DecisionsAssumption
  <2>3. PICK m \in Matches(s, t) :
           /\ m[2] \in Keys
           /\ \/ Put(m[1], [tracks[m[1]] EXCEPT !.terminalTasks[t] = Nil])
              \/ Put(m[1], SettledRetrieval(tracks[m[1]], m[2], t, ok, composable))
    BY <2>1 DEF RecordRetrieval
  <2>4. m[1] = Current => MarksStay(track, SettledRetrieval(tracks[m[1]], m[2], t, ok, composable))
    BY <1>0, <2>2, <2>3, ResultMarks DEF track
  <2> QED BY <1>1, <1>2, <2>3, <2>4
<1>4. CASE RecordReviewInconclusive(s, t)
  <2>1. PICK m \in Matches(s, t) :
           /\ m[2] \in Keys
           /\ \/ Put(m[1], [tracks[m[1]] EXCEPT !.terminalTasks[t] = Nil])
              \/ Put(m[1], Discharged(tracks[m[1]], m[2], t))
    BY <1>4 DEF RecordReviewInconclusive
  <2>2. Marked(track) \subseteq Marked(Discharged(track, m[2], t))
    BY <1>0 DEF Discharged, Marked, Track
  <2>3. m[1] = Current => MarksStay(track, Discharged(tracks[m[1]], m[2], t))
    BY <2>2 DEF MarksStay, track
  <2> QED BY <1>1, <1>2, <2>1, <2>3
<1>5. CASE ReleaseUnresolvable(s, t)
  <2> DEFINE found(d) == {n \in Names : <<d, n>> \in Matches(s, t)}
             one(d)   == CHOOSE n \in found(d) : TRUE
  <2>1. PICK jobs : tracks' = [d \in Decisions |->
                                 IF d \in Live /\ found(d) # {}
                                 THEN NotFound(tracks[d], one(d), t, jobs[d])
                                 ELSE tracks[d]]
    BY <1>5 DEF ReleaseUnresolvable
  <2>2. CASE found(Current) # {}
    <3>1. one(Current) \in Names
      BY <2>2
    <3>2. tracks'[Current] = NotFound(track, one(Current), t, jobs[Current])
      BY <1>0, <2>1, <2>2 DEF track
    <3> HIDE DEF one, found
    <3> QED BY <1>0, <3>1, <3>2, NotFoundMarks DEF MarksStay
  <2>3. CASE found(Current) = {}
    <3>1. tracks'[Current] = track
      BY <1>0, <2>1, <2>3 DEF track
    <3> QED BY <1>0, <3>1
  <2> QED BY <2>2, <2>3
<1> QED BY <1>3, <1>4, <1>5 DEF Answer

\* A recomposition of plans whose barriers stand
LEMMA EnsuredMarks ==
  ASSUME WellFormedPlans, BarriersStand, NEW tr \in Track, tr.plan \in Plans[Current],
         NEW plan \in Plans[Current]
  PROVE  MarksStay(tr, Ensured(tr, plan))
<1> DEFINE after == Reconcile(tr, plan, tr.runtime)
<1>1. /\ Current \in Decisions /\ tr.runtime \in Runtimes
      /\ plan \in Seq(Stage) /\ tr.plan \in Seq(Stage)
  BY HooksAssumption, DecisionsAssumption DEF HooksAssumption, DecisionsAssumption, Track
<1>2. ASSUME NEW k \in MemberKeys, IsMember(tr, k), k \in Marked(tr)
      PROVE  k \in Marked(after)
  <2>1. PICK st \in Range(Stages(tr)) : st.kind = "parallel_spawn" /\ k \in Range(st.keys)
    BY <1>2 DEF IsMember
  <2>2. /\ Range(Stages(tr)) = Range(tr.plan) \cup Range(RuntimeStages(tr.runtime))
        /\ Range(plan \o RuntimeStages(tr.runtime))
              = Range(plan) \cup Range(RuntimeStages(tr.runtime))
    BY <1>1, RuntimeStageTypes, RangeConcatenation DEF Stages
  <2>3. st \in Range(tr.plan) => st \in Range(plan)
    BY <2>1 DEF BarriersStand
  <2>4. st \in Range(plan \o RuntimeStages(tr.runtime))
    BY <2>1, <2>2, <2>3
  <2> QED BY <1>1, <1>2, <2>1, <2>4, ReconcileMarks
<1>3. after \in Track
  BY <1>1, ReconcileType
<1> HIDE DEF after
<1>4. Marked([after EXCEPT !.waived = {}]) = Marked(after)
  BY <1>3 DEF Marked, Track
<1>5. MarksStay(tr, tr) /\ MarksStay(tr, [after EXCEPT !.waived = {}])
  BY <1>2, <1>4 DEF MarksStay
<1> QED BY <1>5 DEF Ensured, after

\* Where a process goes that comes to hold a request.
Requests(h, state) ==
    \/ At(h, "idle") /\ state.key \in Roles
    \/ /\ At(h, "allocate")
       /\ \E st \in Reservable(h) : /\ AllocateParallelMember(Current, st, hooks[h].role)
                                    /\ state = Granted(h, st)

LEMMA ProcessMoves ==
  ASSUME NEW h \in Hooks, Acts(h)
  PROVE  \E state : Goto(h, state) /\ (state.at = "request" => Requests(h, state))
<1>0. ASSUME NEW state, Goto(h, state), state.at # "request"
      PROVE  \E s : Goto(h, s) /\ (s.at = "request" => Requests(h, s))
  BY <1>0
<1>1. CASE \E r \in Roles : AdmitSpawn(h, r)
  <2>1. PICK r \in Roles : AdmitSpawn(h, r)
    BY <1>1
  <2> DEFINE asked == [at |-> "request", key |-> r, role |-> r]
             spread == [at |-> "allocate", stage |-> NextRequiredSpawnStage(track).slot,
                        role |-> r]
  <2>2. spread.at # "request" /\ asked.key = r
    OBVIOUS
  <2>3. At(h, "idle") /\ (Goto(h, spread) \/ Goto(h, asked))
    BY <2>1 DEF AdmitSpawn
  <2> HIDE DEF asked, spread
  <2> QED BY <1>0, <2>2, <2>3 DEF Requests
<1>2. CASE Allocate(h)
  <2>1. CASE Goto(h, Idle)
    BY <1>0, <2>1 DEF Idle
  <2>2. ASSUME NEW st \in Reservable(h),
               AllocateParallelMember(Current, st, hooks[h].role), Goto(h, Granted(h, st))
        PROVE  \E s : Goto(h, s) /\ (s.at = "request" => Requests(h, s))
    BY <1>2, <2>2 DEF Allocate, Requests
  <2> QED BY <1>2, <2>1, <2>2 DEF Allocate
<1>3. CASE \E c \in Children : GrantSpawn(h, c) \/ StartAcknowledge(h, c)
  BY <1>0, <1>3 DEF GrantSpawn, StartAcknowledge, Idle
<1>4. CASE \E c \in Children : StartFailure(h, c) \/ StartForegroundResult(h, c)
  BY <1>0, <1>4 DEF StartFailure, StartForegroundResult
<1>5. CASE AcknowledgeMember(h)
  <2>1. \E c : Goto(h, [at |-> "bindLinear", child |-> c]) \/ Goto(h, Idle)
    BY <1>5 DEF AcknowledgeMember
  <2> QED BY <1>0, <2>1 DEF Idle
<1>6. CASE AcknowledgeLinear(h) \/ Fail(h) \/ Settle(h) \/ RecordVerdict(h)
           \/ Killed(h) \/ KilledUnanswered(h)
  <2>1. Goto(h, Idle)
    BY <1>6 DEF AcknowledgeLinear, Fail, Settle, RecordVerdict, Killed, KilledUnanswered
  <2> QED BY <1>0, <2>1 DEF Idle
<1>7. CASE AdmitVerifier(h) \/ ReadVerdict(h)
  BY <1>0, <1>7 DEF AdmitVerifier, ReadVerdict, Idle
<1> QED BY <1>1, <1>2, <1>3, <1>4, <1>5, <1>6, <1>7 DEF Acts

\* What one process does to the track
LEMMA ProcessMarks ==
  ASSUME WellFormedPlans, HookInv, Current \in Live, NEW h \in Hooks, Acts(h)
  PROVE  MarksStay(track, tracks'[Current])
<1>0. Current \in Decisions /\ track \in Track /\ track.plan \in Plans[Current]
  BY PlanOfTrack DEF HookInv
<1>1. ASSUME NEW tr, Put(Current, tr), MarksStay(track, tr)
      PROVE  MarksStay(track, tracks'[Current])
  BY <1>0, <1>1 DEF Put, HookInv, IInv, TracksOK
<1>2. ASSUME UNCHANGED tracks
      PROVE  MarksStay(track, tracks'[Current])
  BY <1>2 DEF MarksStay, track
<1>3. CASE \/ \E r \in Roles : AdmitSpawn(h, r)
           \/ \E c \in Children : \/ StartAcknowledge(h, c)
                                  \/ StartFailure(h, c)
                                  \/ StartForegroundResult(h, c)
           \/ AdmitVerifier(h) \/ ReadVerdict(h) \/ Killed(h)
  <2>1. UNCHANGED tracks
    BY <1>3 DEF AdmitSpawn, StartAcknowledge, StartFailure, StartForegroundResult,
                AdmitVerifier, ReadVerdict, Killed
  <2> QED BY <1>2, <2>1
<1>4. CASE Allocate(h)
  <2>1. CASE UNCHANGED <<tracks, circuit>>
    BY <1>2, <2>1
  <2>2. CASE \E st \in Reservable(h) : AllocateParallelMember(Current, st, hooks[h].role)
    <3>1. PICK k : Put(Current, [track EXCEPT !.requested = @ \cup {k}])
      BY <2>2 DEF AllocateParallelMember, track
    <3>2. Marked(track) \subseteq Marked([track EXCEPT !.requested = @ \cup {k}])
      BY <1>0 DEF Marked, Track
    <3> QED BY <1>1, <3>1, <3>2, MarksAdded, <1>0
  <2> QED BY <1>4, <2>1, <2>2 DEF Allocate
<1>5. CASE (\E c \in Children : GrantSpawn(h, c)) \/ KilledUnanswered(h)
  <2> DEFINE k == hooks[h].key
  <2>1. Put(Current, Requested(track, k))
    BY <1>5 DEF GrantSpawn, KilledUnanswered, RecordRequested, track
  <2> HIDE DEF k
  <2>2. Marked(track) \subseteq Marked(Requested(track, k))
    BY <1>0 DEF Requested, Marked, Track
  <2> QED BY <1>0, <1>1, <2>1, <2>2, MarksAdded
<1>6. CASE AcknowledgeMember(h) \/ AcknowledgeLinear(h)
  <2> DEFINE c == hooks[h].child
             r == TaskRole[c]
  <2>1. Put(Current, MemberBound(track, r, c)) \/ Put(Current, LinearBound(track, r, c))
    BY <1>6 DEF AcknowledgeMember, AcknowledgeLinear, BindParallelMember, BindLinearStage, track
  <2> HIDE DEF c, r
  <2>2. /\ Marked(track) \subseteq Marked(MemberBound(track, r, c))
        /\ Marked(track) \subseteq Marked(LinearBound(track, r, c))
    BY <1>0 DEF MemberBound, LinearBound, Marked, Track
  <2> QED BY <1>0, <1>1, <2>1, <2>2, MarksAdded
<1>7. CASE Fail(h) \/ Settle(h)
  <2> DEFINE k == hooks[h].key
  <2>1. k \in Reported(Current) /\ (Settle(h) => hooks[h].ok \in BOOLEAN)
    BY <1>7 DEF Fail, Settle, At, HookInv, Informed, Knows
  <2>2. PICK ok \in BOOLEAN, escalate \in Escalations, composable \in Composable :
           RecordStageResult(Current, k, ok, escalate, composable)
    <3>1. CASE Fail(h)
      BY <3>1 DEF Fail
    <3>2. CASE Settle(h)
      BY <2>1, <3>2 DEF Settle
    <3> QED BY <1>7, <3>1, <3>2
  <2>3. k \in Keys /\ composable \in BOOLEAN
    BY <1>0, <2>1, NamedKeys, DecisionsAssumption DEF HookInv, DecisionsAssumption
  <2>4. Put(Current, StageResult(track, k, ok, composable))
    BY <2>2 DEF RecordStageResult, track
  <2> HIDE DEF k
  <2> QED BY <1>0, <1>1, <2>3, <2>4, ResultMarks
<1>8. CASE RecordVerdict(h)
  <2> DEFINE s == hooks[h].step
             ok == hooks[h].ok
  <2>1. Put(Current, VerifyRecorded(track, s, ok))
    BY <1>8 DEF RecordVerdict, RecordVerify, track
  <2> HIDE DEF s, ok
  <2>2. Marked(track) \subseteq Marked(VerifyRecorded(track, s, ok))
    BY <1>0 DEF VerifyRecorded, Marked, Track
  <2> QED BY <1>0, <1>1, <2>1, <2>2, MarksAdded
<1> QED BY <1>3, <1>4, <1>5, <1>6, <1>7, <1>8 DEF Acts

LEMMA HookMarks ==
  ASSUME WellFormedPlans, BarriersStand, HookInv, Current \in Live, HookNext
  PROVE  MarksStay(track, tracks'[Current])
<1>0. Current \in Decisions /\ track \in Track /\ track.plan \in Plans[Current]
  BY PlanOfTrack DEF HookInv
<1>1. ASSUME NEW tr, Put(Current, tr), MarksStay(track, tr)
      PROVE  MarksStay(track, tracks'[Current])
  BY <1>0, <1>1 DEF Put, HookInv, IInv, TracksOK
<1>2. CASE EnsureTrack
  <2>1. PICK plan \in Plans[Current] : Put(Current, Ensured(track, plan))
    BY <1>2 DEF EnsureTrack, EnsureExecution, Live, track
  <2> QED BY <1>0, <1>1, <2>1, EnsuredMarks
<1>3. CASE EndTurn
  <2>1. Put(Current, [track EXCEPT !.stopBlocks = @ + 1])
    BY <1>3 DEF EndTurn, StopBlock, track
  <2>2. Marked(track) \subseteq Marked([track EXCEPT !.stopBlocks = @ + 1])
    BY <1>0 DEF Marked, Track
  <2> QED BY <1>0, <1>1, <2>1, <2>2, MarksAdded
<1>4. CASE \E c \in Children : UngatedSpawn(c)
  <2>1. UNCHANGED tracks
    BY <1>4 DEF UngatedSpawn
  <2> QED BY <2>1 DEF MarksStay, track
<1>5. CASE \E c \in Children : Retrieve(c)
  BY <1>0, <1>5, AnswerMarks, DecisionsAssumption DEF Retrieve, HookInv, DecisionsAssumption
<1>6. CASE \E h \in Hooks : Acts(h)
  BY <1>6, ProcessMarks
<1> QED BY <1>2, <1>3, <1>4, <1>5, <1>6 DEF HookNext, Acts

\* Where a process that holds a request has it from
LEMMA HookMoves ==
  ASSUME HookInv, HookNext, NEW h \in Hooks, hooks'[h].at = "request"
  PROVE  hooks'[h] = hooks[h] \/ Requests(h, hooks'[h])
<1>1. CASE UNCHANGED hooks
  BY <1>1
<1>2. ASSUME NEW g \in Hooks, Acts(g)
      PROVE  hooks'[h] = hooks[h] \/ Requests(h, hooks'[h])
  <2>1. PICK state : Goto(g, state) /\ (state.at = "request" => Requests(g, state))
    BY <1>2, ProcessMoves
  <2>2. hooks'[h] = IF h = g THEN state ELSE hooks[h]
    BY <2>1 DEF Goto, HookInv
  <2> QED BY <2>1, <2>2
<1>3. UNCHANGED hooks \/ \E g \in Hooks : Acts(g)
  BY DEF HookNext, EnsureTrack, EndTurn, UngatedSpawn, Retrieve, Acts
<1> QED BY <1>1, <1>2, <1>3

\* The member an allocation gives, and the mark it leaves.
LEMMA GrantedMarked ==
  ASSUME HookInv, Current \in Live, NEW h \in Hooks, NEW st \in Reservable(h),
         AllocateParallelMember(Current, st, hooks[h].role)
  PROVE  Granted(h, st).key \in Marked(tracks'[Current])
<1> DEFINE k == AllocatedKey(track, st, hooks[h].role)
<1>1. Granted(h, st).key = k
  BY DEF Granted
<1>2. Put(Current, [track EXCEPT !.requested = @ \cup {k}])
  BY DEF AllocateParallelMember, track
<1>3. Current \in Decisions /\ track \in Track
  BY PlanOfTrack DEF HookInv
<1> HIDE DEF k
<1>4. tracks'[Current] = [track EXCEPT !.requested = @ \cup {k}]
  BY <1>2, <1>3 DEF Put, HookInv, IInv, TracksOK
<1> QED BY <1>1, <1>3, <1>4 DEF Marked, Track

LEMMA ReservedStays ==
  ASSUME WellFormedPlans, BarriersStand, HookInv, ReservedInv, HookNext
  PROVE  ReservedInv'
<1> SUFFICES ASSUME NEW h \in Hooks, hooks'[h].at = "request", hooks'[h].key \in MemberKeys
             PROVE  hooks'[h].key \in Marked(tracks'[Current])
  BY DEF ReservedInv, Reserved, track
<1>1. CASE hooks'[h] = hooks[h]
  <2>1. hooks[h].key \in Asked(Current) \cap MemberKeys
    BY <1>1 DEF HookInv, Informed, Knows
  <2>2. Current \in Live
    BY <2>1 DEF Asked
  <2>3. IsMember(track, hooks[h].key)
    BY <2>1, <2>2, AskedMembers DEF HookInv
  <2>4. hooks[h].key \in Marked(track)
    BY <1>1 DEF ReservedInv, Reserved
  <2> QED BY <1>1, <2>1, <2>2, <2>3, <2>4, HookMarks DEF MarksStay
<1>2. CASE Requests(h, hooks'[h])
  <2>1. hooks'[h].key \notin Roles
    BY KeysAssumption DEF KeysAssumption
  <2>2. PICK st \in Reservable(h) : /\ AllocateParallelMember(Current, st, hooks[h].role)
                                    /\ hooks'[h] = Granted(h, st)
    BY <1>2, <2>1 DEF Requests
  <2>3. Current \in Live
    BY <2>2 DEF AllocateParallelMember
  <2> QED BY <2>2, <2>3, GrantedMarked
<1> QED BY <1>1, <1>2, HookMoves

\* A member given out twice is the last resort of its barrier.
LEMMA LastResort ==
  ASSUME WellFormedPlans, HookInv, Current \in Live, NEW h \in Hooks,
         NEW st \in Reservable(h),
         LET k == AllocatedKey(track, st, hooks[h].role)
         IN  k \in Marked(track) \ track.failed
  PROVE  \A other \in Reservable(h) : \A i \in Candidates(track, other, hooks[h].role) :
            other.keys[i] \in track.requested
<1> DEFINE r == hooks[h].role
           k == AllocatedKey(track, st, r)
           fresh == {i \in Candidates(track, st, r) : st.keys[i] \notin track.requested}
<1>1. track \in Track /\ track.plan \in Plans[Current] /\ Current \in Decisions
      /\ track.runtime \in Runtimes
  BY PlanOfTrack DEF HookInv
<1>2. /\ st \in Range(Stages(track)) /\ st.kind = "parallel_spawn"
      /\ st.slot = hooks[h].stage /\ k # Nil
  BY DEF Reservable, BarriersOf, track
<1>3. k \in IncompleteMembers(track, st)
  BY <1>1, <1>2, AllocatedMember
<1>4. k \in track.requested
  BY <1>3 DEF IncompleteMembers, IncompletePositions, Marked
<1>5. fresh = {}
  <2> SUFFICES ASSUME fresh # {} PROVE FALSE
    OBVIOUS
  <2>1. k = st.keys[Least(fresh)]
    BY DEF AllocatedKey
  <2>2. fresh \in SUBSET Nat
    BY <1>1, <1>2, TrackKeys DEF Candidates
  <2>3. Least(fresh) \in fresh
    <3> HIDE DEF fresh
    <3> QED BY <2>2, LeastMember
  <2> QED BY <1>4, <2>1, <2>3
<1>6. ASSUME NEW other \in Reservable(h)
      PROVE  other = st
  <2>1. other \in Range(Stages(track)) /\ other.kind = "parallel_spawn" /\ other.slot = st.slot
    BY <1>2 DEF Reservable, BarriersOf, track
  <2>2. Distinct(Range(Stages(track)))
    BY <1>1, WellFormedStages DEF Stages
  <2> QED BY <1>2, <2>1, <2>2 DEF Distinct
<1> QED BY <1>5, <1>6

\* A spawn is given the member another admitted spawn holds only when that one
\* has failed in between or the role has no other member left
\* (allocate_parallel_member_tx reserves under the lock), as long as no
\* recomposition takes a barrier away.
THEOREM ShardsAreDistinct ==
  ASSUME WellFormedPlans, BarriersStand
  PROVE  HookSpec => DistinctShards
<1>1. HookInv /\ ReservedInv /\ [HookNext]_hookVars => HookInv' /\ ReservedInv'
  <2>1. CASE HookNext
    BY <2>1, HooksServed, ServedKeeps, ReservedStays
  <2>2. CASE UNCHANGED hookVars
    BY <2>2 DEF hookVars, vars, HookInv, IInv, TracksOK, CircuitOK, ProgressInv, Live,
                Informed, Asked, Reported, StepsOf, PlansOf, ReservedInv, Reserved, track
  <2> QED BY <2>1, <2>2
<1>2. HookInit => HookInv /\ ReservedInv
  BY InitHooks DEF HookInit, Idle, ReservedInv, Reserved
<1>3. HookInv /\ ReservedInv /\ [HookNext]_hookVars =>
         [\A h1 \in Hooks : \A h2 \in Hooks \ {h1} :
             /\ At(h1, "request")
             /\ At(h2, "allocate")
             /\ hooks'[h2] = hooks[h1]
             /\ hooks[h1].key \notin track.failed
             => \A st \in Reservable(h2) : \A i \in Candidates(track, st, hooks[h2].role) :
                   st.keys[i] \in track.requested]_hookVars
  <2> SUFFICES ASSUME HookInv, ReservedInv, HookNext,
                      NEW h1 \in Hooks, NEW h2 \in Hooks \ {h1},
                      At(h1, "request"), At(h2, "allocate"),
                      hooks'[h2] = hooks[h1], hooks[h1].key \notin track.failed
               PROVE  \A st \in Reservable(h2) :
                         \A i \in Candidates(track, st, hooks[h2].role) :
                            st.keys[i] \in track.requested
    OBVIOUS
  <2>1. Requests(h2, hooks'[h2])
    BY HookMoves DEF At
  <2>2. PICK st \in Reservable(h2) : /\ AllocateParallelMember(Current, st, hooks[h2].role)
                                     /\ hooks'[h2] = Granted(h2, st)
    BY <2>1 DEF Requests, At
  <2> DEFINE k == AllocatedKey(track, st, hooks[h2].role)
  <2>3. Current \in Live
    BY <2>2 DEF AllocateParallelMember
  <2>4. hooks[h1].key = k
    BY <2>2 DEF Granted
  <2>5. k \in MemberKeys
    BY <2>2, <2>3, AllocatedMember, PlanOfTrack DEF Reservable, BarriersOf, track, HookInv
  <2>6. k \in Marked(track) \ track.failed
    BY <2>4, <2>5 DEF ReservedInv, Reserved, At
  <2> QED BY <2>3, <2>6, LastResort
<1> QED BY <1>1, <1>2, <1>3, PTL DEF HookSpec, DistinctShards

-----------------------------------------------------------------------------
(* A pending member waits for a child that runs, or for another spawn *)

\* The children that are bound to members, and those that were started.
Staff(tr) == {tr.memberTasks[k] : k \in Keys} \ {Nil}

Running == {c \in Children : children[c] = "running"}

\* Only a child whose start was acknowledged is bound, and it runs ever after.
StaffInv ==
    /\ DOMAIN children = Children
    /\ Current \in Live => Staff(track) \subseteq Running
    /\ \A h \in Hooks :
          hooks[h].at \in {"bindMember", "bindLinear"} => hooks[h].child \in Running

LEMMA SameStaff ==
  ASSUME NEW tr, NEW after, after.memberTasks = tr.memberTasks
  PROVE  Staff(after) \subseteq Staff(tr)
  BY DEF Staff

LEMMA StaffLeaves ==
  ASSUME NEW tr \in Track, NEW after, NEW k,
         after.memberTasks = [tr.memberTasks EXCEPT ![k] = Nil]
  PROVE  Staff(after) \subseteq Staff(tr)
<1>1. \A n \in Keys : after.memberTasks[n] \in {tr.memberTasks[n], Nil}
  BY DEF Track
<1> QED BY <1>1 DEF Staff

LEMMA ReconcileStaff ==
  ASSUME NEW tr \in Track, NEW plan, NEW runtime
  PROVE  Staff(Reconcile(tr, plan, runtime)) \subseteq Staff(tr)
<1> DEFINE old == Stages(tr)
           new == plan \o RuntimeStages(runtime)
           source(n) == {k \in Keys : n \in Migrated(old, new, k)}
           pick(S, default) == IF S = {} THEN default ELSE CHOOSE v \in S : TRUE
           after == Reconcile(tr, plan, runtime)
<1>1. \A n \in Keys :
         after.memberTasks[n] = pick({tr.memberTasks[k] : k \in source(n)} \ {Nil}, Nil)
  BY DEF Reconcile, Track
<1> HIDE DEF old, new, after
<1>2. ASSUME NEW n \in Keys
      PROVE  after.memberTasks[n] \in Staff(tr) \cup {Nil}
  <2> DEFINE S == {tr.memberTasks[k] : k \in source(n)} \ {Nil}
  <2>1. S \subseteq Staff(tr)
    BY DEF Staff
  <2>2. after.memberTasks[n] = pick(S, Nil)
    BY <1>1
  <2> HIDE DEF S
  <2>3. pick(S, Nil) \in S \cup {Nil}
    OBVIOUS
  <2> QED BY <2>1, <2>2, <2>3
<1>3. Staff(after) \subseteq Staff(tr)
  BY <1>2 DEF Staff
<1> QED BY <1>3 DEF after

LEMMA RepairStaff ==
  ASSUME NEW tr \in Track, NEW k \in Keys, NEW ok \in BOOLEAN, NEW composable \in BOOLEAN
  PROVE  Staff(RepairResult(tr, k, ok, composable)) \subseteq Staff(tr)
<1> DEFINE count == IF tr.repairFailures[k] < RepairThreshold
                    THEN tr.repairFailures[k] + 1 ELSE RepairThreshold
           counted == [tr EXCEPT !.repairFailures[k] = IF ok THEN 0 ELSE count]
           after == RepairResult(tr, k, ok, composable)
<1>1. \/ after = counted
      \/ after = [counted EXCEPT !.runtime = "unavailable"]
      \/ after = Reconcile(counted, tr.plan, "consilium")
  BY DEF RepairResult
<1>2. (IF ok THEN 0 ELSE count) \in 0..RepairThreshold
  BY KeysAssumption DEF KeysAssumption, Track
<1> HIDE DEF count
<1>3. counted \in Track /\ counted.memberTasks = tr.memberTasks
  BY <1>2 DEF Track
<1>4. [counted EXCEPT !.runtime = "unavailable"].memberTasks = tr.memberTasks
  BY DEF Track
<1> HIDE DEF counted, after
<1>5. Staff(after) \subseteq Staff(tr)
  BY <1>1, <1>3, <1>4, SameStaff, ReconcileStaff
<1> QED BY <1>5 DEF after

LEMMA OutcomeStaff ==
  ASSUME NEW tr \in Track, NEW k \in Keys, NEW ok \in BOOLEAN, NEW reopen \in BOOLEAN
  PROVE  Staff(ApplyStageResult(tr, k, ok, reopen)) \subseteq Staff(tr)
<1> DEFINE after == ApplyStageResult(tr, k, ok, reopen)
<1>1. CASE ok
  <2>1. after.memberTasks = tr.memberTasks
    BY <1>1 DEF ApplyStageResult, Track
  <2> QED BY <2>1, SameStaff
<1>2. CASE ~ok
  <2>1. after.memberTasks = [tr.memberTasks EXCEPT ![k] = Nil]
    BY <1>2 DEF ApplyStageResult, Track
  <2> QED BY <2>1, StaffLeaves
<1> QED BY <1>1, <1>2

LEMMA ResultStaff ==
  ASSUME NEW tr \in Track, NEW k \in Keys, NEW ok \in BOOLEAN, NEW composable \in BOOLEAN
  PROVE  /\ Staff(StageResult(tr, k, ok, composable)) \subseteq Staff(tr)
         /\ \A t \in Tasks : Staff(SettledRetrieval(tr, k, t, ok, composable)) \subseteq Staff(tr)
<1>1. ASSUME NEW x \in Track, x.memberTasks = tr.memberTasks, NEW reopen \in BOOLEAN
      PROVE  Staff(ApplyStageResult(RepairResult(x, k, ok, composable), k, ok, reopen))
                \subseteq Staff(tr)
  <2> DEFINE counted == RepairResult(x, k, ok, composable)
  <2>1. Staff(counted) \subseteq Staff(x) /\ Staff(x) \subseteq Staff(tr)
    BY <1>1, RepairStaff, SameStaff
  <2>2. counted \in Track
    BY RepairResultSound DEF Sound
  <2> HIDE DEF counted
  <2>3. Staff(ApplyStageResult(counted, k, ok, reopen)) \subseteq Staff(tr)
    BY <2>1, <2>2, OutcomeStaff
  <2> QED BY <2>3 DEF counted
<1>2. Staff(StageResult(tr, k, ok, composable)) \subseteq Staff(tr)
  <2> DEFINE cleared == [tr EXCEPT !.stageTasks[ActualRole(tr, k)] = Nil]
  <2>1. cleared \in Track /\ cleared.memberTasks = tr.memberTasks
    BY DEF Track
  <2> HIDE DEF cleared
  <2>2. Staff(ApplyStageResult(RepairResult(cleared, k, ok, composable), k, ok, TRUE))
           \subseteq Staff(tr)
    BY <1>1, <2>1
  <2> QED BY <2>2 DEF StageResult, Recorded, cleared
<1>3. ASSUME NEW t \in Tasks
      PROVE  Staff(SettledRetrieval(tr, k, t, ok, composable)) \subseteq Staff(tr)
  <2> DEFINE unparked == [tr EXCEPT !.notFound[k] = Nil, !.terminalTasks[t] = Nil]
             cleared == [tr EXCEPT !.notFound[k] = Nil,
                                   !.stageTasks[ActualRole(tr, k)] = Nil,
                                   !.terminalTasks[t] = Nil]
  <2>1. unparked.memberTasks = tr.memberTasks
    BY DEF Track
  <2>2. cleared \in Track /\ cleared.memberTasks = tr.memberTasks
    BY DEF Track, Names
  <2> HIDE DEF unparked, cleared
  <2>3. Staff(ApplyStageResult(RepairResult(cleared, k, ok, composable), k, ok, FALSE))
           \subseteq Staff(tr)
    BY <1>1, <2>2
  <2>4. Staff(unparked) \subseteq Staff(tr)
    BY <2>1, SameStaff
  <2> QED BY <2>3, <2>4 DEF SettledRetrieval, cleared, unparked
<1> QED BY <1>2, <1>3

LEMMA NotFoundStaff ==
  ASSUME NEW tr \in Track, NEW n, NEW t, NEW job
  PROVE  Staff(NotFound(tr, n, t, job)) \subseteq Staff(tr)
<1> DEFINE after == NotFound(tr, n, t, job)
<1>1. \A k \in Keys : after.memberTasks[k] \in {tr.memberTasks[k], Nil}
  BY DEF NotFound, Track
<1> HIDE DEF after
<1>2. Staff(after) \subseteq Staff(tr)
  BY <1>1 DEF Staff
<1> QED BY <1>2 DEF after

LEMMA EnsuredStaff ==
  ASSUME NEW tr \in Track, NEW plan \in Seq(Stage)
  PROVE  Staff(Ensured(tr, plan)) \subseteq Staff(tr)
<1> DEFINE after == Reconcile(tr, plan, tr.runtime)
<1>1. after \in Track
  BY ReconcileType DEF Track
<1>2. Staff(after) \subseteq Staff(tr)
  BY ReconcileStaff
<1> HIDE DEF after
<1>3. Staff([after EXCEPT !.waived = {}]) \subseteq Staff(after)
  BY <1>1, SameStaff DEF Track
<1> QED BY <1>2, <1>3 DEF Ensured, after

\* What a lookup does to the track of the turn
LEMMA AnswerStaff ==
  ASSUME IInv, ProgressInv, Current \in Live, NEW s \in Sessions, NEW t \in Children, Answer(s, t)
  PROVE  Staff(tracks'[Current]) \subseteq Staff(track)
<1>0. t \in Tasks /\ Current \in Decisions /\ track \in Track
  BY PlanOfTrack DEF Tasks
<1>1. ASSUME NEW e, NEW tr, Put(e, tr), e = Current => Staff(tr) \subseteq Staff(track)
      PROVE  Staff(tracks'[Current]) \subseteq Staff(track)
  <2>1. tracks'[Current] = IF e = Current THEN tr ELSE track
    BY <1>0, <1>1 DEF Put, track, IInv, TracksOK
  <2> QED BY <1>1, <2>1
<1>2. Staff([track EXCEPT !.terminalTasks[t] = Nil]) \subseteq Staff(track)
  BY <1>0, SameStaff DEF Track
<1>3. CASE \E ok \in BOOLEAN, escalate \in Escalations, composable \in Composable :
              RecordRetrieval(s, t, ok, escalate, composable)
  <2>1. PICK ok \in BOOLEAN, escalate \in Escalations, composable \in Composable :
              RecordRetrieval(s, t, ok, escalate, composable)
    BY <1>3
  <2>2. composable \in BOOLEAN
    BY DecisionsAssumption DEF DecisionsAssumption
  <2>3. PICK m \in Matches(s, t) :
           /\ m[2] \in Keys
           /\ \/ Put(m[1], [tracks[m[1]] EXCEPT !.terminalTasks[t] = Nil])
              \/ Put(m[1], SettledRetrieval(tracks[m[1]], m[2], t, ok, composable))
    BY <2>1 DEF RecordRetrieval
  <2>4. m[1] = Current =>
           Staff(SettledRetrieval(tracks[m[1]], m[2], t, ok, composable)) \subseteq Staff(track)
    BY <1>0, <2>2, <2>3, ResultStaff DEF track
  <2> QED BY <1>1, <1>2, <2>3, <2>4 DEF track
<1>4. CASE RecordReviewInconclusive(s, t)
  <2>1. PICK m \in Matches(s, t) :
           /\ m[2] \in Keys
           /\ \/ Put(m[1], [tracks[m[1]] EXCEPT !.terminalTasks[t] = Nil])
              \/ Put(m[1], Discharged(tracks[m[1]], m[2], t))
    BY <1>4 DEF RecordReviewInconclusive
  <2>2. Discharged(track, m[2], t).memberTasks = [track.memberTasks EXCEPT ![m[2]] = Nil]
    BY <1>0 DEF Discharged, Track
  <2>3. m[1] = Current => Staff(Discharged(tracks[m[1]], m[2], t)) \subseteq Staff(track)
    BY <1>0, <2>2, StaffLeaves DEF track
  <2> QED BY <1>1, <1>2, <2>1, <2>3 DEF track
<1>5. CASE ReleaseUnresolvable(s, t)
  <2>1. PICK S \in SUBSET Live : \E one, jobs :
           /\ \A e \in S : one[e] \in BoundNames(tracks[e], t)
           /\ tracks' = [e \in Decisions |-> IF e \in S
                                             THEN NotFound(tracks[e], one[e], t, jobs[e])
                                             ELSE tracks[e]]
    BY ONLY <1>5, ReleaseMatched
  <2>2. PICK one, jobs :
           /\ \A e \in S : one[e] \in BoundNames(tracks[e], t)
           /\ tracks' = [e \in Decisions |-> IF e \in S
                                             THEN NotFound(tracks[e], one[e], t, jobs[e])
                                             ELSE tracks[e]]
    BY <2>1
  <2>3. tracks'[Current] \in {track, NotFound(track, one[Current], t, jobs[Current])}
    BY <1>0, <2>2 DEF track
  <2> QED BY <1>0, <2>3, NotFoundStaff
<1> QED BY <1>3, <1>4, <1>5 DEF Answer

\* What one process does to the staff: nobody is hired but the child that it
\* acknowledges.
LEMMA ProcessStaff ==
  ASSUME HookInv, StaffInv, Current \in Live, NEW h \in Hooks, Acts(h)
  PROVE  Staff(tracks'[Current]) \subseteq Running
<1>0. Current \in Decisions /\ track \in Track /\ Staff(track) \subseteq Running
  BY PlanOfTrack DEF HookInv, StaffInv
<1>1. ASSUME NEW tr, Put(Current, tr), Staff(tr) \subseteq Running
      PROVE  Staff(tracks'[Current]) \subseteq Running
  <2>1. tracks'[Current] = tr
    BY <1>0, <1>1 DEF Put, HookInv, IInv, TracksOK
  <2> QED BY <1>1, <2>1
<1>2. ASSUME UNCHANGED tracks
      PROVE  Staff(tracks'[Current]) \subseteq Running
  BY <1>0, <1>2 DEF track
<1>3. CASE \/ \E r \in Roles : AdmitSpawn(h, r)
           \/ \E c \in Children : \/ StartAcknowledge(h, c)
                                  \/ StartFailure(h, c)
                                  \/ StartForegroundResult(h, c)
           \/ AdmitVerifier(h) \/ ReadVerdict(h) \/ Killed(h)
  <2>1. UNCHANGED tracks
    BY <1>3 DEF AdmitSpawn, StartAcknowledge, StartFailure, StartForegroundResult,
                AdmitVerifier, ReadVerdict, Killed
  <2> QED BY <1>2, <2>1
<1>4. CASE Allocate(h)
  <2>1. CASE UNCHANGED <<tracks, circuit>>
    BY <1>2, <2>1
  <2>2. CASE \E st \in Reservable(h) : AllocateParallelMember(Current, st, hooks[h].role)
    <3>1. PICK k : Put(Current, [track EXCEPT !.requested = @ \cup {k}])
      BY <2>2 DEF AllocateParallelMember, track
    <3>2. Staff([track EXCEPT !.requested = @ \cup {k}]) \subseteq Staff(track)
      BY <1>0, SameStaff DEF Track
    <3> QED BY <1>0, <1>1, <3>1, <3>2
  <2> QED BY <1>4, <2>1, <2>2 DEF Allocate
<1>5. CASE (\E c \in Children : GrantSpawn(h, c)) \/ KilledUnanswered(h)
  <2> DEFINE k == hooks[h].key
  <2>1. Put(Current, Requested(track, k))
    BY <1>5 DEF GrantSpawn, KilledUnanswered, RecordRequested, track
  <2> HIDE DEF k
  <2>2. Staff(Requested(track, k)) \subseteq Staff(track)
    BY <1>0, SameStaff DEF Requested, Track
  <2> QED BY <1>0, <1>1, <2>1, <2>2
<1>6. CASE AcknowledgeMember(h) \/ AcknowledgeLinear(h)
  <2> DEFINE c == hooks[h].child
             r == TaskRole[c]
  <2>1. c \in Running
    BY <1>6 DEF AcknowledgeMember, AcknowledgeLinear, At, StaffInv
  <2>2. Put(Current, MemberBound(track, r, c)) \/ Put(Current, LinearBound(track, r, c))
    BY <1>6 DEF AcknowledgeMember, AcknowledgeLinear, BindParallelMember, BindLinearStage, track
  <2> HIDE DEF c, r
  <2>3. Staff(MemberBound(track, r, c)) \subseteq Running
    <3>1. CASE MemberBound(track, r, c) = track
      BY <1>0, <3>1
    <3>2. CASE MemberBound(track, r, c) =
                  [track EXCEPT !.memberTasks[FirstBindable(track, r)] = c]
      <4>1. \A k \in Keys :
               MemberBound(track, r, c).memberTasks[k] \in {track.memberTasks[k], c}
        BY <1>0, <3>2 DEF Track
      <4> QED BY <1>0, <2>1, <4>1 DEF Staff
    <3> QED BY <3>1, <3>2 DEF MemberBound
  <2>4. Staff(LinearBound(track, r, c)) \subseteq Staff(track)
    BY <1>0, SameStaff DEF LinearBound, Track
  <2> QED BY <1>0, <1>1, <2>2, <2>3, <2>4
<1>7. CASE Fail(h) \/ Settle(h)
  <2> DEFINE k == hooks[h].key
  <2>1. k \in Reported(Current) /\ (Settle(h) => hooks[h].ok \in BOOLEAN)
    BY <1>7 DEF Fail, Settle, At, HookInv, Informed, Knows
  <2>2. PICK ok \in BOOLEAN, escalate \in Escalations, composable \in Composable :
           RecordStageResult(Current, k, ok, escalate, composable)
    <3>1. CASE Fail(h)
      BY <3>1 DEF Fail
    <3>2. CASE Settle(h)
      BY <2>1, <3>2 DEF Settle
    <3> QED BY <1>7, <3>1, <3>2
  <2>3. k \in Keys /\ composable \in BOOLEAN
    BY <1>0, <2>1, NamedKeys, DecisionsAssumption DEF HookInv, DecisionsAssumption
  <2>4. Put(Current, StageResult(track, k, ok, composable))
    BY <2>2 DEF RecordStageResult, track
  <2> HIDE DEF k
  <2>5. Staff(StageResult(track, k, ok, composable)) \subseteq Staff(track)
    BY <1>0, <2>3, ResultStaff
  <2> QED BY <1>0, <1>1, <2>4, <2>5
<1>8. CASE RecordVerdict(h)
  <2> DEFINE s == hooks[h].step
             ok == hooks[h].ok
  <2>1. Put(Current, VerifyRecorded(track, s, ok))
    BY <1>8 DEF RecordVerdict, RecordVerify, track
  <2> HIDE DEF s, ok
  <2>2. Staff(VerifyRecorded(track, s, ok)) \subseteq Staff(track)
    BY <1>0, SameStaff DEF VerifyRecorded, Track
  <2> QED BY <1>0, <1>1, <2>1, <2>2
<1> QED BY <1>3, <1>4, <1>5, <1>6, <1>7, <1>8 DEF Acts

LEMMA HookStaff ==
  ASSUME WellFormedPlans, HookInv, StaffInv, HookNext, Current \in Live'
  PROVE  Staff(tracks'[Current]) \subseteq Running
<1>0. Current \in Decisions
  BY HooksAssumption DEF HooksAssumption
<1>1. CASE Current \notin Live
  <2>1. PICK plan : Put(Current, NewTrack(plan))
    BY <1>0, <1>1 DEF HookNext, EnsureTrack, EnsureExecution, Live, UngatedSpawn, GateActive
  <2>2. tracks'[Current] = NewTrack(plan)
    BY <1>0, <2>1 DEF Put, HookInv, IInv, TracksOK
  <2> QED BY <2>2 DEF Staff, NewTrack
<1>2. CASE Current \in Live
  <2>0. track \in Track /\ Staff(track) \subseteq Running
    BY <1>2, PlanOfTrack DEF HookInv, StaffInv
  <2>1. ASSUME NEW tr, Put(Current, tr), Staff(tr) \subseteq Staff(track)
        PROVE  Staff(tracks'[Current]) \subseteq Running
    <3>1. tracks'[Current] = tr
      BY <1>0, <2>1 DEF Put, HookInv, IInv, TracksOK
    <3> QED BY <2>0, <2>1, <3>1
  <2>2. CASE EnsureTrack
    <3>1. PICK plan \in Plans[Current] : Put(Current, Ensured(track, plan))
      BY <1>2, <2>2 DEF EnsureTrack, EnsureExecution, Live, track
    <3>2. plan \in Seq(Stage)
      BY <1>0, DecisionsAssumption DEF DecisionsAssumption
    <3> QED BY <2>0, <2>1, <3>1, <3>2, EnsuredStaff
  <2>3. CASE EndTurn
    <3>1. Put(Current, [track EXCEPT !.stopBlocks = @ + 1])
      BY <2>3 DEF EndTurn, StopBlock, track
    <3>2. Staff([track EXCEPT !.stopBlocks = @ + 1]) \subseteq Staff(track)
      BY <2>0, SameStaff DEF Track
    <3> QED BY <2>1, <3>1, <3>2
  <2>4. CASE \E c \in Children : UngatedSpawn(c)
    <3>1. UNCHANGED tracks
      BY <2>4 DEF UngatedSpawn
    <3> QED BY <2>0, <3>1 DEF track
  <2>5. CASE \E c \in Children : Retrieve(c)
    <3>1. PICK c \in Children : Answer(SessionOf[Current], c)
      BY <2>5 DEF Retrieve
    <3>2. SessionOf[Current] \in Sessions
      BY <1>0, DecisionsAssumption DEF DecisionsAssumption
    <3> QED BY <1>2, <2>0, <3>1, <3>2, AnswerStaff DEF HookInv
  <2>6. CASE \E h \in Hooks : Acts(h)
    BY <1>2, <2>6, ProcessStaff
  <2> QED BY <2>2, <2>3, <2>4, <2>5, <2>6 DEF HookNext, Acts
<1> QED BY <1>1, <1>2

\* A child that runs is never taken for one that does not.
LEMMA RunningStay ==
  ASSUME StaffInv, HookNext
  PROVE  Running \subseteq Running' /\ DOMAIN children' = Children
<1>1. CASE UNCHANGED children
  BY <1>1 DEF Running, StaffInv
<1>2. ASSUME NEW c \in Children, NEW fate, children' = [children EXCEPT ![c] = fate],
             fate = "running" \/ children[c] # "running"
      PROVE  Running \subseteq Running' /\ DOMAIN children' = Children
  BY <1>2 DEF Running, StaffInv
<1>3. CASE \E h \in Hooks, c \in Children : \/ GrantSpawn(h, c) \/ StartAcknowledge(h, c)
                                            \/ StartFailure(h, c) \/ StartForegroundResult(h, c)
  BY <1>2, <1>3 DEF GrantSpawn, StartAcknowledge, StartFailure, StartForegroundResult
<1>4. CASE \E c \in Children : UngatedSpawn(c)
  BY <1>2, <1>4 DEF UngatedSpawn
<1>5. CASE \E h \in Hooks : \/ \E r \in Roles : AdmitSpawn(h, r)
                            \/ Allocate(h) \/ AcknowledgeMember(h) \/ AcknowledgeLinear(h)
                            \/ Fail(h) \/ Settle(h)
                            \/ AdmitVerifier(h) \/ ReadVerdict(h) \/ RecordVerdict(h)
                            \/ Killed(h) \/ KilledUnanswered(h)
  BY <1>1, <1>5 DEF AdmitSpawn, Allocate, AcknowledgeMember, AcknowledgeLinear, Fail, Settle,
                    AdmitVerifier, ReadVerdict, RecordVerdict, Killed, KilledUnanswered
<1>6. CASE EnsureTrack \/ EndTurn \/ \E c \in Children : Retrieve(c)
  BY <1>1, <1>6 DEF EnsureTrack, EndTurn, Retrieve
<1> QED BY <1>3, <1>4, <1>5, <1>6 DEF HookNext

\* Where a process goes that comes to acknowledge a child.
LEMMA ProcessAcknowledges ==
  ASSUME StaffInv, NEW h \in Hooks, Acts(h), Running \subseteq Running'
  PROVE  \E state : /\ Goto(h, state)
                    /\ state.at \in {"bindMember", "bindLinear"} => state.child \in Running'
<1>0. ASSUME NEW state, Goto(h, state), state.at \notin {"bindMember", "bindLinear"}
      PROVE  \E s : Goto(h, s) /\ (s.at \in {"bindMember", "bindLinear"} => s.child \in Running')
  BY <1>0
<1>1. CASE \E c \in Children : StartAcknowledge(h, c)
  <2>1. PICK c \in Children : StartAcknowledge(h, c)
    BY <1>1
  <2>2. children'[c] = "running" /\ Goto(h, [at |-> "bindMember", child |-> c])
    BY <2>1 DEF StartAcknowledge, StaffInv
  <2> QED BY <2>2 DEF Running
<1>2. CASE AcknowledgeMember(h)
  <2> DEFINE c == hooks[h].child
  <2>1. c \in Running'
    BY <1>2 DEF AcknowledgeMember, At, StaffInv
  <2>2. Goto(h, [at |-> "bindLinear", child |-> c]) \/ Goto(h, Idle)
    BY <1>2 DEF AcknowledgeMember
  <2> HIDE DEF c
  <2>3. Idle.at = "idle"
    BY DEF Idle
  <2> QED BY <1>0, <2>1, <2>2, <2>3
<1>3. CASE \E r \in Roles : AdmitSpawn(h, r)
  <2>1. PICK r \in Roles : AdmitSpawn(h, r)
    BY <1>3
  <2> DEFINE asked == [at |-> "request", key |-> r, role |-> r]
             spread == [at |-> "allocate", stage |-> NextRequiredSpawnStage(track).slot,
                        role |-> r]
  <2>2. asked.at = "request" /\ spread.at = "allocate"
    OBVIOUS
  <2>3. Goto(h, spread) \/ Goto(h, asked)
    BY <2>1 DEF AdmitSpawn
  <2> HIDE DEF asked, spread
  <2> QED BY <1>0, <2>2, <2>3
<1>4. CASE Allocate(h)
  <2>1. Goto(h, Idle) \/ \E st \in Reservable(h) : Goto(h, Granted(h, st))
    BY <1>4 DEF Allocate
  <2>2. Idle.at = "idle" /\ \A st : Granted(h, st).at = "request"
    BY DEF Idle, Granted
  <2> QED BY <1>0, <2>1, <2>2
<1>5. CASE \E c \in Children : \/ GrantSpawn(h, c) \/ StartFailure(h, c)
                               \/ StartForegroundResult(h, c)
  BY <1>0, <1>5 DEF GrantSpawn, StartFailure, StartForegroundResult, Idle
<1>6. CASE AcknowledgeLinear(h) \/ Fail(h) \/ Settle(h) \/ RecordVerdict(h)
           \/ Killed(h) \/ KilledUnanswered(h)
  <2>1. Goto(h, Idle)
    BY <1>6 DEF AcknowledgeLinear, Fail, Settle, RecordVerdict, Killed, KilledUnanswered
  <2> QED BY <1>0, <2>1 DEF Idle
<1>7. CASE AdmitVerifier(h) \/ ReadVerdict(h)
  BY <1>0, <1>7 DEF AdmitVerifier, ReadVerdict, Idle
<1> QED BY <1>1, <1>2, <1>3, <1>4, <1>5, <1>6, <1>7 DEF Acts

LEMMA StaffStays ==
  ASSUME WellFormedPlans, HookInv, StaffInv, HookNext
  PROVE  StaffInv'
<1>1. Running \subseteq Running' /\ DOMAIN children' = Children
  BY RunningStay
<1>2. Current \in Live' => Staff(tracks'[Current]) \subseteq Running'
  BY <1>1, HookStaff
<1>3. ASSUME NEW h \in Hooks, hooks'[h].at \in {"bindMember", "bindLinear"}
      PROVE  hooks'[h].child \in Running'
  <2>1. CASE UNCHANGED hooks
    BY <1>1, <1>3, <2>1 DEF StaffInv
  <2>2. ASSUME NEW g \in Hooks, Acts(g)
        PROVE  hooks'[h].child \in Running'
    <3>1. PICK state : /\ Goto(g, state)
                       /\ state.at \in {"bindMember", "bindLinear"} => state.child \in Running'
      BY <1>1, <2>2, ProcessAcknowledges
    <3>2. hooks'[h] = IF h = g THEN state ELSE hooks[h]
      BY <3>1 DEF Goto, HookInv
    <3> QED BY <1>1, <1>3, <3>1, <3>2 DEF StaffInv
  <2>3. UNCHANGED hooks \/ \E g \in Hooks : Acts(g)
    BY DEF HookNext, EnsureTrack, EndTurn, UngatedSpawn, Retrieve, Acts
  <2> QED BY <2>1, <2>2, <2>3
<1> QED BY <1>1, <1>2, <1>3 DEF StaffInv, track

\* Where no child is bound to a pending member, the member can be reserved.
LEMMA Reclaimable ==
  ASSUME NEW tr \in Track, NEW st \in Range(Stages(tr)), st.kind = "parallel_spawn",
         NEW k \in IncompleteMembers(tr, st)
  PROVE  AllocatedKey(tr, st, RoleOf[k]) # Nil \/ tr.memberTasks[k] # Nil
<1> SUFFICES ASSUME tr.memberTasks[k] = Nil PROVE AllocatedKey(tr, st, RoleOf[k]) # Nil
  OBVIOUS
<1> DEFINE r == RoleOf[k]
           fresh == {i \in Candidates(tr, st, r) : st.keys[i] \notin tr.requested}
           unbound == {i \in Candidates(tr, st, r) : tr.memberTasks[st.keys[i]] = Nil}
<1>1. /\ fresh \in SUBSET Nat /\ unbound \in SUBSET Nat
      /\ IncompleteMembers(tr, st) \subseteq Keys /\ Nil \notin Keys
  BY TrackKeys, NilIsNoName DEF Candidates, Keys
<1>2. unbound # {}
  BY DEF IncompleteMembers, Candidates
<1>3. \A i \in fresh \cup unbound : st.keys[i] \in IncompleteMembers(tr, st)
  BY DEF IncompleteMembers, Candidates
<1>4. AllocatedKey(tr, st, r) \in {st.keys[i] : i \in fresh \cup unbound}
  <2>1. CASE fresh # {}
    <3>1. AllocatedKey(tr, st, r) = st.keys[Least(fresh)]
      BY <2>1 DEF AllocatedKey
    <3> HIDE DEF fresh
    <3> QED BY <1>1, <2>1, <3>1, LeastMember
  <2>2. CASE fresh = {}
    <3>1. AllocatedKey(tr, st, r) = st.keys[Least(unbound)]
      BY <1>2, <2>2 DEF AllocatedKey
    <3> HIDE DEF unbound
    <3> QED BY <1>1, <1>2, <3>1, LeastMember
  <2> QED BY <2>1, <2>2
<1> HIDE DEF fresh, unbound
<1> QED BY <1>1, <1>3, <1>4

\* transactions.py, "a later same-role request may claim it again": whichever
\* hooks die on the way, a pending member of the barrier that is due can be
\* reserved for another spawn, or the child it is bound to was started and runs.
THEOREM MembersAreReclaimable ==
  ASSUME WellFormedPlans
  PROVE  HookSpec => []MembersReclaimable
<1>1. HookInit => HookInv /\ StaffInv
  BY InitHooks DEF HookInit, Init, Live, Idle, StaffInv
<1>2. HookInv /\ StaffInv /\ [HookNext]_hookVars => HookInv' /\ StaffInv'
  <2>1. CASE HookNext
    BY <2>1, HooksServed, ServedKeeps, StaffStays
  <2>2. CASE UNCHANGED hookVars
    <3>1. UNCHANGED <<tracks, circuit, hooks, children>>
      BY <2>2 DEF hookVars
    <3>2. HookInv => HookInv'
      BY <3>1 DEF HookInv, IInv, TracksOK, CircuitOK, ProgressInv, Live,
                  Informed, Asked, Reported, StepsOf, PlansOf
    <3>3. StaffInv => StaffInv'
      BY <3>1 DEF StaffInv, Running, Live, track
    <3> QED BY <3>2, <3>3
  <2> QED BY <2>1, <2>2
<1>3. HookInv /\ StaffInv => MembersReclaimable
  <2> DEFINE stage == NextRequiredSpawnStage(track)
  <2> SUFFICES ASSUME HookInv, StaffInv, GateActive, stage.kind = "parallel_spawn",
                      NEW k \in IncompleteMembers(track, stage)
               PROVE  \/ AllocatedKey(track, stage, RoleOf[k]) # Nil
                      \/ \E c \in Children : children[c] = "running" /\ track.memberTasks[k] = c
    BY DEF MembersReclaimable
  <2>1. Current \in Live /\ track \in Track
    BY PlanOfTrack DEF GateActive, HookInv
  <2>2. stage \in Range(Stages(track))
    BY <2>1, AdmittedStage
  <2> HIDE DEF stage
  <2>3. k \in Keys
    BY <2>1, <2>2, TrackKeys DEF Keys
  <2>4. AllocatedKey(track, stage, RoleOf[k]) # Nil \/ track.memberTasks[k] # Nil
    BY <2>1, <2>2, Reclaimable
  <2>5. track.memberTasks[k] # Nil => track.memberTasks[k] \in Running
    BY <2>1, <2>3 DEF StaffInv, Staff
  <2> QED BY <2>4, <2>5 DEF Running
<1> QED BY <1>1, <1>2, <1>3, PTL DEF HookSpec

\* So hooks that overlap, too, never bind a child to two stages, never end a
\* binding but by settling it, and never let a stale answer settle anything.
THEOREM HooksKeepBindings ==
  ASSUME WellFormedPlans, RolesKeepParts
  PROVE  HookSpec => []OneStagePerChild /\ StaleChildInert /\ BindingEndsBySettling
<1>1. [UNCHANGED vars \/ Next]_vars => [Next]_vars
  OBVIOUS
<1>2. TransactionLayer => Spec
  BY <1>1, PTL DEF TransactionLayer, Spec
<1> QED BY <1>2, HooksImplement, OneStageProved, StaleChildProved, BindingsEndBySettling
=============================================================================

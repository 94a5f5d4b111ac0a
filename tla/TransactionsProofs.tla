------------------------- MODULE TransactionsProofs -------------------------
(***************************************************************************)
(* Invariants of the state file, for every set of decisions, children,     *)
(* plans and roles.  TLC checks the same formulas on the instances of      *)
(* MCTransactions.  The argument: every transaction replaces tracks by     *)
(* sound updates of them, and the circuit by a count within its bound.     *)
(* First the lemmas about the operators of ExecutionTrack and TrackUpdates *)
(* (what each returns when it is given tracks, stages and keys), then the  *)
(* invariants of the state file.                                           *)
(***************************************************************************)
EXTENDS Transactions, SequenceTheorems, WellFoundedInduction, TLAPS

-----------------------------------------------------------------------------
(* Least elements *)

\* The least element of a set of numbers is one of them: first incomplete
\* stage, first free member and first verifier due are well defined.
LEMMA LeastMember ==
  ASSUME NEW S \in SUBSET Nat, S # {}
  PROVE  /\ Least(S) \in S
         /\ \A j \in S : Least(S) <= j
<1> DEFINE Below == {ss \in Nat \X Nat : ss[1] < ss[2]}
<1>1. PICK x \in S : \A y \in S : <<y, x>> \notin Below
  BY NatLessThanWellFounded, WFMin DEF OpToRel
<1>2. ASSUME NEW y \in S PROVE x <= y
  <2>1. CASE y < x
    <3>1. <<y, x>> \in Nat \X Nat /\ <<y, x>>[1] < <<y, x>>[2]
      BY <2>1
    <3> QED
      BY ONLY <3>1, <1>1, y \in S, Zenon
  <2> QED
    BY <2>1
<1> QED
  BY <1>2 DEF Least

-----------------------------------------------------------------------------
(* Stages *)

\* The keys of a stage are of the kind the stage says.
LEMMA StageKeys ==
  ASSUME NEW st \in Stage
  PROVE  /\ st.kind \in {"spawn", "sentinel", "parallel_spawn", "verify"}
         /\ st.kind = "parallel_spawn" => Range(st.keys) \subseteq MemberKeys
         /\ st.kind \in {"spawn", "sentinel"} => Range(st.keys) \subseteq Roles
         /\ st.kind = "verify" => Range(st.keys) \subseteq Steps
         /\ Key(st) \in Range(st.keys)
         /\ st.kind # "parallel_spawn" => Range(st.keys) = {Key(st)}
         /\ DOMAIN st.keys \subseteq Nat
         /\ \A i \in DOMAIN st.keys : st.keys[i] \in Range(st.keys)
<1>1. ASSUME NEW S, NEW s \in Seq(S) \ {<<>>}
      PROVE  /\ Range(s) \subseteq S
             /\ 1 \in DOMAIN s
             /\ DOMAIN s \subseteq Nat
  BY <1>1, EmptySeq, LenProperties DEF Range
<1>2. ASSUME NEW kinds, NEW keys, st \in StageOf(kinds, keys)
      PROVE  st.kind \in kinds /\ st.keys \in keys
  BY <1>2 DEF StageOf
<1>3. \A S : \A s \in S : <<s>> \in Seq(S) \ {<<>>} /\ <<s>>[1] = s /\ DOMAIN <<s>> = {1}
  OBVIOUS
<1>4. CASE st \in StageOf({"spawn", "sentinel"}, {<<r>> : r \in Roles})
  BY <1>1, <1>2, <1>3, <1>4 DEF Key, Range
<1>5. CASE st \in StageOf({"parallel_spawn"}, Seq(MemberKeys) \ {<<>>})
  BY <1>1, <1>2, <1>5 DEF Key, Range
<1>6. CASE st \in StageOf({"verify"}, {<<s>> : s \in Steps})
  BY <1>1, <1>2, <1>3, <1>6 DEF Key, Range
<1> QED
  BY <1>4, <1>5, <1>6 DEF Stage

\* The stages added at run time are stages.
LEMMA RuntimeStageTypes ==
  /\ ConsiliumStage \in Stage
  /\ SentinelStage \in Stage
  /\ \A runtime \in Runtimes : RuntimeStages(runtime) \in Seq(Stage)
<1>1. ConsiliumStage \in Stage
  BY KeysAssumption DEF KeysAssumption, ConsiliumStage, Stage, StageOf
<1>2. SentinelStage \in Stage
  <2>1. <<SentinelRole>> \in {<<r>> : r \in Roles}
    BY KeysAssumption DEF KeysAssumption
  <2>2. ASSUME NEW keys \in {<<r>> : r \in Roles}
        PROVE  [kind |-> "sentinel", slot |-> "consilium",
                required |-> TRUE, keys |-> keys] \in Stage
    BY KeysAssumption DEF KeysAssumption, Stage, StageOf
  <2> QED
    BY <2>1, <2>2 DEF SentinelStage
<1>3. ASSUME NEW runtime \in Runtimes
      PROVE  RuntimeStages(runtime) \in Seq(Stage)
  BY <1>1, <1>2 DEF Runtimes, RuntimeStages
<1> QED
  BY <1>1, <1>2, <1>3

\* The stage tuple of a track is a sequence of stages.
LEMMA StagesType ==
  ASSUME NEW tr \in Track
  PROVE  /\ Stages(tr) \in Seq(Stage)
         /\ DOMAIN Stages(tr) \subseteq Nat
         /\ \A i \in DOMAIN Stages(tr) : Stages(tr)[i] \in Stage
         /\ Range(Stages(tr)) \subseteq Stage
<1>1. tr.plan \in Seq(Stage) /\ tr.runtime \in Runtimes
  BY DEF Track
<1>2. Stages(tr) \in Seq(Stage)
  BY <1>1, RuntimeStageTypes, ConcatProperties DEF Stages
<1> QED
  BY <1>2, LenProperties DEF Range

\* Which keys belong to stages of which kind.
LEMMA KeyKinds ==
  ASSUME NEW st \in Stage
  PROVE  /\ Range(st.keys) \subseteq Names
         /\ \A k \in Range(st.keys) : k \in Steps <=> st.kind = "verify"
         /\ \A k \in Range(st.keys) : k \in MemberKeys <=> st.kind = "parallel_spawn"
  BY StageKeys, KeysAssumption DEF KeysAssumption, Names, Keys

\* Reconciliation files the evidence of a key under keys, and that of a
\* verify step under verify steps; a barrier member stays what it is.
LEMMA MigratedType ==
  ASSUME NEW old \in Seq(Stage), NEW new \in Seq(Stage), NEW k
  PROVE  /\ Migrated(old, new, k) \subseteq Names
         /\ k \in Keys => Migrated(old, new, k) \subseteq Keys
         /\ k \in Steps => Migrated(old, new, k) \subseteq Steps
         /\ \A n \in Migrated(old, new, k) \cap MemberKeys : n = k
<1>1. /\ Range(old) \subseteq Stage
      /\ Range(new) \subseteq Stage
  BY LenProperties DEF Range
<1>2. SUFFICES ASSUME NEW n \in Migrated(old, new, k)
               PROVE  /\ k \in Keys => n \in Keys
                      /\ k \in Steps => n \in Steps
                      /\ n \in MemberKeys => n = k
  BY DEF Migrated
<1>3. PICK c \in Heirs(old, new, k) :
         /\ c.kind = "parallel_spawn" => n = k
         /\ c.kind # "parallel_spawn" => n = Key(c)
  BY DEF Migrated
<1>4. PICK st \in Range(old) : k \in Range(st.keys) /\ c.kind = st.kind /\ c \in Range(new)
  BY DEF Heirs
<1>5. st \in Stage /\ c \in Stage
  BY <1>1, <1>4
<1>6. Key(c) \in Range(c.keys)
  BY <1>5, StageKeys
<1> QED
  BY <1>3, <1>4, <1>5, <1>6, KeyKinds, KeysAssumption DEF KeysAssumption, Names, Keys

-----------------------------------------------------------------------------
(* Updates of a track return a track *)

\* A track whose stages are replaced, with what was recorded about them.
LEMMA ReconcileType ==
  ASSUME NEW tr \in Track, NEW plan \in Seq(Stage), NEW runtime \in Runtimes
  PROVE  Reconcile(tr, plan, runtime) \in Track
<1> DEFINE old == Stages(tr)
           new == plan \o RuntimeStages(runtime)
           image(S) == UNION {Migrated(old, new, k) : k \in S}
           pick(S, default) == IF S = {} THEN default ELSE CHOOSE v \in S : TRUE
           source(n) == {k \in Keys : n \in Migrated(old, new, k)}
           rekeyed(f, default) ==
               [n \in Keys |-> pick({f[k] : k \in source(n)} \ {default}, default)]
           renamed(f) ==
               [t \in Tasks |-> IF f[t] = Nil THEN Nil
                                ELSE pick(Migrated(old, new, f[t]), Nil)]
<1>1. old \in Seq(Stage) /\ new \in Seq(Stage)
  BY StagesType, RuntimeStageTypes, ConcatProperties
<1> HIDE DEF old, new
<1>2. /\ \A S \in SUBSET Keys : image(S) \subseteq Keys
      /\ \A S \in SUBSET Names : image(S) \subseteq Names
      /\ \A S \in SUBSET Steps : image(S) \subseteq Steps
  BY <1>1, MigratedType
<1>3. ASSUME NEW V, NEW default \in V, NEW f \in [Keys -> V]
      PROVE  rekeyed(f, default) \in [Keys -> V]
  <2>1. \A S \in SUBSET V : pick(S, default) \in V
    OBVIOUS
  <2> HIDE DEF pick
  <2> QED
    BY <2>1
<1>4. ASSUME NEW V \in {Keys, Steps}, NEW f \in [Tasks -> V \cup {Nil}]
      PROVE  renamed(f) \in [Tasks -> V \cup {Nil}]
  <2>1. \A S \in SUBSET V : pick(S, Nil) \in V \cup {Nil}
    OBVIOUS
  <2>2. \A k \in V : Migrated(old, new, k) \subseteq V
    BY <1>1, MigratedType
  <2> HIDE DEF pick
  <2> QED
    BY <2>1, <2>2
<1>5. /\ tr.requested \in SUBSET Keys
      /\ tr.completed \in SUBSET Keys
      /\ tr.failed \in SUBSET Names
      /\ tr.verified \in SUBSET Steps
      /\ tr.memberTasks \in [Keys -> Tasks \cup {Nil}]
      /\ tr.stageTasks \in [Keys -> Tasks \cup {Nil}]
      /\ tr.terminalTasks \in [Tasks -> Keys \cup {Nil}]
      /\ tr.verifyTasks \in [Tasks -> Steps \cup {Nil}]
      /\ tr.releasedVerify \in [Tasks -> Steps \cup {Nil}]
      /\ tr.repairFailures \in [Keys -> 0..RepairThreshold]
      /\ 0 \in 0..RepairThreshold
  BY KeysAssumption DEF Track, KeysAssumption
<1>6. /\ image(tr.requested) \in SUBSET Keys
      /\ image(tr.completed) \in SUBSET Keys
      /\ image(tr.failed) \in SUBSET Names
      /\ image(tr.verified) \in SUBSET Steps
  BY <1>2, <1>5
<1>7. /\ rekeyed(tr.memberTasks, Nil) \in [Keys -> Tasks \cup {Nil}]
      /\ rekeyed(tr.stageTasks, Nil) \in [Keys -> Tasks \cup {Nil}]
      /\ rekeyed(tr.repairFailures, 0) \in [Keys -> 0..RepairThreshold]
  <2> HIDE DEF rekeyed
  <2>1. /\ Nil \in Tasks \cup {Nil}
        /\ \A V : \A default \in V : \A f \in [Keys -> V] :
              rekeyed(f, default) \in [Keys -> V]
    BY <1>3
  <2> QED
    BY <2>1, <1>5
<1>8. /\ renamed(tr.terminalTasks) \in [Tasks -> Keys \cup {Nil}]
      /\ renamed(tr.verifyTasks) \in [Tasks -> Steps \cup {Nil}]
      /\ renamed(tr.releasedVerify) \in [Tasks -> Steps \cup {Nil}]
  BY <1>4, <1>5
<1> DEFINE With(q, c, f, v, m, s, t, y, z, w) ==
               [tr EXCEPT !.plan = plan, !.runtime = runtime, !.requested = q,
                          !.completed = c, !.failed = f, !.verified = v,
                          !.memberTasks = m, !.stageTasks = s, !.terminalTasks = t,
                          !.verifyTasks = y, !.releasedVerify = z,
                          !.repairFailures = w]
<1>9. ASSUME NEW q \in SUBSET Keys, NEW c \in SUBSET Keys, NEW f \in SUBSET Names,
             NEW v \in SUBSET Steps,
             NEW m \in [Keys -> Tasks \cup {Nil}], NEW s \in [Keys -> Tasks \cup {Nil}],
             NEW t \in [Tasks -> Keys \cup {Nil}], NEW y \in [Tasks -> Steps \cup {Nil}],
             NEW z \in [Tasks -> Steps \cup {Nil}], NEW w \in [Keys -> 0..RepairThreshold]
      PROVE  With(q, c, f, v, m, s, t, y, z, w) \in Track
  BY DEF Track
<1>10. Reconcile(tr, plan, runtime) =
         With(image(tr.requested), image(tr.completed), image(tr.failed), image(tr.verified),
              rekeyed(tr.memberTasks, Nil), rekeyed(tr.stageTasks, Nil),
              renamed(tr.terminalTasks), renamed(tr.verifyTasks),
              renamed(tr.releasedVerify), rekeyed(tr.repairFailures, 0))
  BY DEF Reconcile, old, new
<1> HIDE DEF image, rekeyed, renamed, With
<1> QED
  BY <1>6, <1>7, <1>8, <1>9, <1>10

-----------------------------------------------------------------------------
(* Every update keeps the bound members of a track requested *)

MembersRequested(tr) ==
    \A k \in MemberKeys : tr.memberTasks[k] # Nil => k \in tr.requested

\* What a transaction needs of an update: a track for a track, and no member
\* left bound without being requested.
Sound(old, new) == new \in Track /\ (MembersRequested(old) => MembersRequested(new))

LEMMA SoundTransitive ==
  ASSUME NEW a, NEW b, NEW c, Sound(a, b), Sound(b, c)
  PROVE  Sound(a, c)
  BY DEF Sound

\* A new track is bound to nothing.
LEMMA NewTrackSound ==
  ASSUME NEW plan \in Seq(Stage)
  PROVE  NewTrack(plan) \in Track /\ MembersRequested(NewTrack(plan))
<1>1. NewTrack(plan) \in Track
  BY KeysAssumption DEF NewTrack, Track, KeysAssumption, Runtimes
<1> QED
  BY <1>1, KeysAssumption DEF MembersRequested, NewTrack, Keys, KeysAssumption

\* A member that is bound after reconciliation was bound, and requested, under
\* the same key before.
LEMMA ReconcileSound ==
  ASSUME NEW tr \in Track, NEW plan \in Seq(Stage), NEW runtime \in Runtimes
  PROVE  Sound(tr, Reconcile(tr, plan, runtime))
<1> DEFINE old == Stages(tr)
           new == plan \o RuntimeStages(runtime)
           source(n) == {k \in Keys : n \in Migrated(old, new, k)}
           after == Reconcile(tr, plan, runtime)
<1>1. old \in Seq(Stage) /\ new \in Seq(Stage)
  BY StagesType, RuntimeStageTypes, ConcatProperties
<1>2. SUFFICES ASSUME MembersRequested(tr), NEW n \in MemberKeys, after.memberTasks[n] # Nil
               PROVE  n \in after.requested
  BY ReconcileType DEF Sound, MembersRequested
<1>3. n \in Keys
  BY DEF Keys
<1>4. /\ after.memberTasks[n] =
            LET S == {tr.memberTasks[k] : k \in source(n)} \ {Nil}
            IN  IF S = {} THEN Nil ELSE CHOOSE v \in S : TRUE
      /\ after.requested = UNION {Migrated(old, new, k) : k \in tr.requested}
  BY <1>3 DEF Reconcile, Track
<1>5. PICK k \in source(n) : tr.memberTasks[k] # Nil
  BY <1>2, <1>4
<1>6. k = n /\ n \in Migrated(old, new, n)
  BY <1>1, <1>5, MigratedType
<1>7. n \in tr.requested
  BY <1>2, <1>5, <1>6 DEF MembersRequested
<1> QED
  BY <1>4, <1>6, <1>7

LEMMA EnsuredSound ==
  ASSUME NEW tr \in Track, NEW plan \in Seq(Stage)
  PROVE  Sound(tr, Ensured(tr, plan))
<1> DEFINE after == Reconcile(tr, plan, tr.runtime)
<1>1. tr.runtime \in Runtimes
  BY DEF Track
<1>2. Sound(tr, after)
  BY <1>1, ReconcileSound
<1>3. ASSUME NEW r \in Track
      PROVE  Sound(r, [r EXCEPT !.waived = {}])
  BY DEF Sound, Track, MembersRequested
<1>4. Sound(tr, [after EXCEPT !.waived = {}])
  <2> HIDE DEF after
  <2> QED
    BY <1>2, <1>3, SoundTransitive DEF Sound
<1>5. Sound(tr, tr)
  BY DEF Sound
<1> QED
  BY <1>4, <1>5 DEF Ensured

LEMMA RepairResultSound ==
  ASSUME NEW tr \in Track, NEW k \in Keys, NEW ok \in BOOLEAN, NEW composable \in BOOLEAN
  PROVE  Sound(tr, RepairResult(tr, k, ok, composable))
<1> DEFINE count == IF tr.repairFailures[k] < RepairThreshold
                    THEN tr.repairFailures[k] + 1 ELSE RepairThreshold
           counted == [tr EXCEPT !.repairFailures[k] = IF ok THEN 0 ELSE count]
<1>1. (IF ok THEN 0 ELSE count) \in 0..RepairThreshold
  BY KeysAssumption DEF Track, KeysAssumption
<1>2. ASSUME NEW c \in 0..RepairThreshold
      PROVE  Sound(tr, [tr EXCEPT !.repairFailures[k] = c])
  BY DEF Sound, Track, MembersRequested
<1>3. Sound(tr, counted)
  BY <1>1, <1>2
<1>4. ASSUME NEW r \in Track
      PROVE  Sound(r, [r EXCEPT !.runtime = "unavailable"])
  BY DEF Sound, Track, MembersRequested, Runtimes
<1>5. tr.plan \in Seq(Stage) /\ "consilium" \in Runtimes
  BY DEF Track, Runtimes
<1>6. /\ Sound(counted, Reconcile(counted, tr.plan, "consilium"))
      /\ Sound(counted, [counted EXCEPT !.runtime = "unavailable"])
  <2> HIDE DEF counted
  <2> QED
    BY <1>3, <1>4, <1>5, ReconcileSound DEF Sound
<1>7. RepairResult(tr, k, ok, composable) \in
        {counted, Reconcile(counted, tr.plan, "consilium"),
         [counted EXCEPT !.runtime = "unavailable"]}
  BY DEF RepairResult
<1> HIDE DEF counted
<1> QED
  BY <1>3, <1>6, <1>7, SoundTransitive

LEMMA ApplyStageResultSound ==
  ASSUME NEW tr \in Track, NEW k \in Keys, NEW ok \in BOOLEAN, NEW reopen \in BOOLEAN
  PROVE  Sound(tr, ApplyStageResult(tr, k, ok, reopen))
<1>1. CASE ok
  <2> DEFINE after == [tr EXCEPT !.completed = @ \cup {k},
                                 !.failed = @ \ {k},
                                 !.stopBlocks = IF k \in tr.completed THEN @ ELSE 0]
  <2>1. after \in Track
    BY DEF Track
  <2>2. MembersRequested(tr) => MembersRequested(after)
    BY DEF MembersRequested, Track
  <2> QED
    BY <1>1, <2>1, <2>2 DEF ApplyStageResult, Sound
<1>2. CASE ~ok
  <2> DEFINE after == [tr EXCEPT !.failed = @ \cup {k},
                                 !.completed = IF reopen THEN @ \ {k} ELSE @,
                                 !.requested = IF IsMember(tr, k) THEN @ \ {k} ELSE @,
                                 !.memberTasks[k] = Nil,
                                 !.notFound[k] = IF reopen THEN Nil ELSE @]
  <2>1. k \in Names
    BY DEF Names
  <2>2. /\ tr.failed \cup {k} \in SUBSET Names
        /\ (IF reopen THEN tr.completed \ {k} ELSE tr.completed) \in SUBSET Keys
        /\ (IF IsMember(tr, k) THEN tr.requested \ {k} ELSE tr.requested) \in SUBSET Keys
    BY <2>1 DEF Track
  <2>3. /\ [tr.memberTasks EXCEPT ![k] = Nil] \in [Keys -> Tasks \cup {Nil}]
        /\ [tr.notFound EXCEPT ![k] = IF reopen THEN Nil ELSE @]
              \in [Names -> Tasks \cup {Nil}]
    BY <2>1 DEF Track
  <2> DEFINE With(f, c, q, m, n) == [tr EXCEPT !.failed = f, !.completed = c, !.requested = q,
                                               !.memberTasks = m, !.notFound = n]
  <2>4. ASSUME NEW f \in SUBSET Names, NEW c \in SUBSET Keys, NEW q \in SUBSET Keys,
               NEW m \in [Keys -> Tasks \cup {Nil}], NEW n \in [Names -> Tasks \cup {Nil}]
        PROVE  With(f, c, q, m, n) \in Track
    BY DEF Track
  <2>5. after \in Track
    <3>1. after = With(tr.failed \cup {k},
                       IF reopen THEN tr.completed \ {k} ELSE tr.completed,
                       IF IsMember(tr, k) THEN tr.requested \ {k} ELSE tr.requested,
                       [tr.memberTasks EXCEPT ![k] = Nil],
                       [tr.notFound EXCEPT ![k] = IF reopen THEN Nil ELSE @])
      OBVIOUS
    <3> HIDE DEF With, after
    <3> QED
      BY <2>2, <2>3, <2>4, <3>1
  <2>6. MembersRequested(tr) => MembersRequested(after)
    BY DEF MembersRequested, Track
  <2> QED
    BY <1>2, <2>5, <2>6 DEF ApplyStageResult, Sound
<1> QED
  BY <1>1, <1>2

LEMMA RequestedSound ==
  ASSUME NEW tr \in Track, NEW k \in Keys
  PROVE  /\ Sound(tr, Requested(tr, k))
         /\ Sound(tr, [tr EXCEPT !.requested = @ \cup {k}])
  BY DEF Sound, Requested, Track, MembersRequested

\* A result is a count against the repair limit, then the stage's own outcome.
LEMMA CountedResultSound ==
  ASSUME NEW tr \in Track, NEW k \in Keys, NEW ok \in BOOLEAN,
         NEW composable \in BOOLEAN, NEW reopen \in BOOLEAN
  PROVE  Sound(tr, ApplyStageResult(RepairResult(tr, k, ok, composable), k, ok, reopen))
<1> DEFINE counted == RepairResult(tr, k, ok, composable)
<1>1. Sound(tr, counted)
  BY RepairResultSound
<1> HIDE DEF counted
<1>2. Sound(counted, ApplyStageResult(counted, k, ok, reopen))
  BY <1>1, ApplyStageResultSound DEF Sound
<1>3. Sound(tr, ApplyStageResult(counted, k, ok, reopen))
  BY <1>1, <1>2, SoundTransitive
<1> QED
  BY <1>3 DEF counted

LEMMA StageResultSound ==
  ASSUME NEW tr \in Track, NEW k \in Keys, NEW ok \in BOOLEAN, NEW composable \in BOOLEAN
  PROVE  /\ Sound(tr, Recorded(tr, k, ok, composable))
         /\ Sound(tr, StageResult(tr, k, ok, composable))
<1> DEFINE cleared == [tr EXCEPT !.stageTasks[ActualRole(tr, k)] = Nil]
<1>1. Sound(tr, cleared)
  BY DEF Sound, Track, MembersRequested
<1> HIDE DEF cleared
<1>2. Sound(cleared, ApplyStageResult(RepairResult(cleared, k, ok, composable), k, ok, TRUE))
  BY <1>1, CountedResultSound DEF Sound
<1>3. Sound(tr, Recorded(tr, k, ok, composable))
  BY <1>1, <1>2, SoundTransitive DEF Recorded, cleared
<1> QED
  BY <1>3 DEF StageResult, Sound

LEMMA SettledRetrievalSound ==
  ASSUME NEW tr \in Track, NEW k \in Keys, NEW t \in Tasks,
         NEW ok \in BOOLEAN, NEW composable \in BOOLEAN
  PROVE  Sound(tr, SettledRetrieval(tr, k, t, ok, composable))
<1> DEFINE cleared == [tr EXCEPT !.notFound[k] = Nil,
                                 !.stageTasks[ActualRole(tr, k)] = Nil,
                                 !.terminalTasks[t] = Nil]
<1>1. Sound(tr, [tr EXCEPT !.notFound[k] = Nil, !.terminalTasks[t] = Nil])
  BY DEF Sound, Track, MembersRequested
<1>2. Sound(tr, cleared)
  BY DEF Sound, Track, MembersRequested
<1> HIDE DEF cleared
<1>3. Sound(cleared, ApplyStageResult(RepairResult(cleared, k, ok, composable), k, ok, FALSE))
  BY <1>2, CountedResultSound DEF Sound
<1>4. Sound(tr, ApplyStageResult(RepairResult(cleared, k, ok, composable), k, ok, FALSE))
  BY <1>2, <1>3, SoundTransitive
<1> QED
  BY <1>1, <1>4 DEF SettledRetrieval, cleared

LEMMA UnparkedSound ==
  ASSUME NEW tr \in Track, NEW t \in Tasks
  PROVE  Sound(tr, [tr EXCEPT !.terminalTasks[t] = Nil])
  BY DEF Sound, Track, MembersRequested

LEMMA DischargedSound ==
  ASSUME NEW tr \in Track, NEW k \in Keys, NEW t \in Tasks
  PROVE  Sound(tr, Discharged(tr, k, t))
<1>1. /\ tr.waived \cup {k} \in SUBSET Keys
      /\ tr.inconclusive \cup {k} \in SUBSET Keys
      /\ tr.requested \ {k} \in SUBSET Keys
      /\ [tr.stageTasks EXCEPT ![ActualRole(tr, k)] = Nil] \in [Keys -> Tasks \cup {Nil}]
      /\ [tr.memberTasks EXCEPT ![k] = Nil] \in [Keys -> Tasks \cup {Nil}]
      /\ [tr.terminalTasks EXCEPT ![t] = Nil] \in [Tasks -> Keys \cup {Nil}]
      /\ [tr.notFound EXCEPT ![k] = Nil] \in [Names -> Tasks \cup {Nil}]
  BY DEF Track
<1> DEFINE With(w, i, q, s, m, p, n) ==
               [tr EXCEPT !.waived = w, !.inconclusive = i, !.requested = q, !.stageTasks = s,
                          !.memberTasks = m, !.terminalTasks = p, !.notFound = n]
<1>2. ASSUME NEW w \in SUBSET Keys, NEW i \in SUBSET Keys, NEW q \in SUBSET Keys,
             NEW s \in [Keys -> Tasks \cup {Nil}], NEW m \in [Keys -> Tasks \cup {Nil}],
             NEW p \in [Tasks -> Keys \cup {Nil}], NEW n \in [Names -> Tasks \cup {Nil}]
      PROVE  With(w, i, q, s, m, p, n) \in Track
  BY DEF Track
<1>3. Discharged(tr, k, t) =
        With(tr.waived \cup {k}, tr.inconclusive \cup {k}, tr.requested \ {k},
             [tr.stageTasks EXCEPT ![ActualRole(tr, k)] = Nil],
             [tr.memberTasks EXCEPT ![k] = Nil], [tr.terminalTasks EXCEPT ![t] = Nil],
             [tr.notFound EXCEPT ![k] = Nil])
  BY DEF Discharged
<1>4. Discharged(tr, k, t) \in Track
  <2> HIDE DEF With
  <2> QED
    BY <1>1, <1>2, <1>3
<1>5. MembersRequested(tr) => MembersRequested(Discharged(tr, k, t))
  BY DEF MembersRequested, Discharged, Track
<1> QED
  BY <1>4, <1>5 DEF Sound

LEMMA VerifierSettledSound ==
  ASSUME NEW tr \in Track, NEW t \in Tasks, NEW ok \in BOOLEAN
  PROVE  Sound(tr, VerifierSettled(tr, t, ok))
<1>1. {tr.verifyTasks[t], tr.releasedVerify[t]} \ {Nil} \subseteq Steps
  BY DEF Track
<1>2. Steps \subseteq Names
  BY DEF Names
<1>3. ASSUME NEW steps \in SUBSET Steps
      PROVE  Sound(tr, [tr EXCEPT !.verifyTasks[t] = Nil,
                                  !.releasedVerify[t] = Nil,
                                  !.failed = IF ok THEN @ \ steps ELSE @ \cup steps,
                                  !.verified = IF ok THEN @ \cup steps ELSE @ \ steps,
                                  !.stopBlocks = IF ok THEN 0 ELSE @])
  BY <1>2 DEF Sound, Track, MembersRequested
<1> QED
  BY <1>1, <1>3 DEF VerifierSettled

LEMMA VerifyRecordedSound ==
  ASSUME NEW tr \in Track, NEW s \in Steps, NEW ok \in BOOLEAN
  PROVE  Sound(tr, VerifyRecorded(tr, s, ok))
  BY DEF Sound, VerifyRecorded, Track, MembersRequested

LEMMA VerifyBoundSound ==
  ASSUME NEW tr \in Track, NEW s \in Steps, NEW t \in Tasks
  PROVE  /\ Sound(tr, [tr EXCEPT !.verifyTasks[t] = s])
         /\ Sound(tr, [tr EXCEPT !.verified = @ \cup {s}])
  BY DEF Sound, Track, MembersRequested

LEMMA TerminalBoundSound ==
  ASSUME NEW tr \in Track, NEW k \in Keys, NEW t \in Tasks
  PROVE  Sound(tr, [tr EXCEPT !.terminalTasks[t] = k])
  BY DEF Sound, Track, MembersRequested

LEMMA LinearBoundSound ==
  ASSUME NEW tr \in Track, NEW r \in Roles, NEW t \in Tasks
  PROVE  Sound(tr, LinearBound(tr, r, t))
  BY DEF Sound, LinearBound, Track, MembersRequested

LEMMA StopBlockSound ==
  ASSUME NEW tr \in Track
  PROVE  Sound(tr, [tr EXCEPT !.stopBlocks = @ + 1])
<1>1. tr.stopBlocks + 1 \in Nat
  BY DEF Track
<1>2. ASSUME NEW n \in Nat
      PROVE  Sound(tr, [tr EXCEPT !.stopBlocks = n])
  BY DEF Sound, Track, MembersRequested
<1> QED
  BY <1>1, <1>2

LEMMA NotFoundSound ==
  ASSUME NEW tr \in Track, NEW n \in Names, NEW t \in Tasks, NEW job
  PROVE  Sound(tr, NotFound(tr, n, t, job))
<1> DEFINE streakOver == [tr EXCEPT !.notFound[n] = Nil]
           parked == IF n \in Steps
                     THEN [streakOver EXCEPT !.releasedVerify[t] = n]
                     ELSE [streakOver EXCEPT !.terminalTasks[t] = n]
           unbound(f) == [k \in Keys |-> IF k = n THEN Nil ELSE f[k]]
           freed == [parked EXCEPT !.memberTasks = unbound(@),
                                   !.stageTasks = unbound(@),
                                   !.verifyTasks[t] = Nil,
                                   !.requested = @ \ {n},
                                   !.failed = @ \cup {n}]
<1>1. Sound(tr, [tr EXCEPT !.notFound[n] = t])
  BY DEF Sound, Track, MembersRequested
<1>2. Sound(tr, streakOver)
  BY DEF Sound, Track, MembersRequested
<1>3. Sound(tr, parked)
  <2>1. CASE n \in Steps
    BY <2>1, <1>2 DEF Sound, Track, MembersRequested
  <2>2. CASE n \notin Steps
    BY <2>2, <1>2 DEF Sound, Track, MembersRequested, Names
  <2> QED
    BY <2>1, <2>2
<1>4. ASSUME NEW r \in Track
      PROVE  Sound(r, [r EXCEPT !.memberTasks = unbound(@),
                                !.stageTasks = unbound(@),
                                !.verifyTasks[t] = Nil,
                                !.requested = @ \ {n},
                                !.failed = @ \cup {n}])
  <2> DEFINE after == [r EXCEPT !.memberTasks = unbound(@),
                                !.stageTasks = unbound(@),
                                !.verifyTasks[t] = Nil,
                                !.requested = @ \ {n},
                                !.failed = @ \cup {n}]
  <2>1. after \in Track
    BY DEF Track
  <2>2. MembersRequested(r) => MembersRequested(after)
    BY DEF MembersRequested, Track, Keys
  <2> QED
    BY <2>1, <2>2 DEF Sound
<1>5. Sound(tr, freed)
  <2> HIDE DEF parked
  <2> QED
    BY <1>3, <1>4, SoundTransitive DEF Sound
<1> QED
  BY <1>1, <1>3, <1>5 DEF NotFound

-----------------------------------------------------------------------------
(* The key a request, an acknowledgement or a debt claim takes *)

\* The keys of the stages of a track.
LEMMA TrackKeys ==
  ASSUME NEW tr \in Track, NEW st \in Range(Stages(tr))
  PROVE  /\ st \in Stage
         /\ Spawnable(st) => Range(st.keys) \subseteq Keys
         /\ st.kind = "parallel_spawn" =>
               /\ IncompletePositions(tr, st) \subseteq Nat
               /\ IncompleteMembers(tr, st) \subseteq MemberKeys \cap Range(st.keys)
<1>1. st \in Stage
  BY StagesType
<1>2. Spawnable(st) => Range(st.keys) \subseteq Keys
  BY <1>1, StageKeys DEF Keys, Spawnable
<1>3. ASSUME st.kind = "parallel_spawn"
      PROVE  /\ IncompletePositions(tr, st) \subseteq Nat
             /\ IncompleteMembers(tr, st) \subseteq MemberKeys \cap Range(st.keys)
  BY <1>1, <1>3, StageKeys DEF IncompletePositions, IncompleteMembers, Range
<1> QED
  BY <1>1, <1>2, <1>3

\* allocate_parallel_member_tx reserves a member of the barrier it was asked
\* for, of the role it was asked for, that the barrier still waits for.
LEMMA AllocatedMember ==
  ASSUME NEW tr \in Track, NEW st \in Range(Stages(tr)), st.kind = "parallel_spawn", NEW r,
         AllocatedKey(tr, st, r) # Nil
  PROVE  /\ AllocatedKey(tr, st, r) \in IncompleteMembers(tr, st)
         /\ RoleOf[AllocatedKey(tr, st, r)] = r
         /\ AllocatedKey(tr, st, r) \in MemberKeys
<1> DEFINE fresh   == {i \in Candidates(tr, st, r) : st.keys[i] \notin tr.requested}
           unbound == {i \in Candidates(tr, st, r) : tr.memberTasks[st.keys[i]] = Nil}
<1>1. fresh \in SUBSET Nat /\ unbound \in SUBSET Nat
  BY TrackKeys DEF Candidates
<1>2. PICK i \in Candidates(tr, st, r) : AllocatedKey(tr, st, r) = st.keys[i]
  <2>1. CASE fresh # {}
    BY <1>1, <2>1, LeastMember DEF AllocatedKey
  <2>2. CASE fresh = {} /\ unbound # {}
    BY <1>1, <2>2, LeastMember DEF AllocatedKey
  <2>3. CASE fresh = {} /\ unbound = {}
    BY <2>3 DEF AllocatedKey
  <2> QED
    BY <2>1, <2>2, <2>3
<1> QED
  BY <1>2, TrackKeys DEF Candidates, IncompleteMembers

\* The member an acknowledgement takes is one that may be bound: the first in
\* the order of the stages and, within a barrier, of its members.
LEMMA FirstBindableMember ==
  ASSUME NEW tr \in Track, NEW r, BindableMembers(tr, r) # {}
  PROVE  /\ FirstBindable(tr, r) \in tr.requested \ tr.completed
         /\ FirstBindable(tr, r) \in MemberKeys
         /\ RoleOf[FirstBindable(tr, r)] = r
         /\ tr.memberTasks[FirstBindable(tr, r)] = Nil
         /\ IsMember(tr, FirstBindable(tr, r))
<1> DEFINE B == BindableMembers(tr, r)
           stages == {p[1] : p \in B}
           i == Least(stages)
           members == {p[2] : p \in {q \in B : q[1] = i}}
           j == Least(members)
           first == CHOOSE p \in B : \A q \in B : p[1] < q[1] \/ (p[1] = q[1] /\ p[2] <= q[2])
<1>1. ASSUME NEW p \in B
      PROVE  /\ p[1] \in Nat /\ p[2] \in Nat /\ p = <<p[1], p[2]>>
             /\ Stages(tr)[p[1]].keys[p[2]] \in MemberKeys
             /\ RoleOf[Stages(tr)[p[1]].keys[p[2]]] = r
             /\ Stages(tr)[p[1]].keys[p[2]] \in tr.requested \ tr.completed
             /\ tr.memberTasks[Stages(tr)[p[1]].keys[p[2]]] = Nil
             /\ IsMember(tr, Stages(tr)[p[1]].keys[p[2]])
  <2>1. p \in MemberPositions(tr)
    BY DEF BindableMembers
  <2>2. PICK a \in Barriers(tr) : p \in {<<a, b>> : b \in DOMAIN Stages(tr)[a].keys}
    BY <2>1 DEF MemberPositions
  <2>3. PICK b \in DOMAIN Stages(tr)[a].keys : p = <<a, b>>
    BY <2>2
  <2>4. /\ a \in Nat
        /\ Stages(tr)[a] \in Stage
        /\ Stages(tr)[a].kind = "parallel_spawn"
    BY StagesType DEF Barriers
  <2>5. b \in Nat /\ Stages(tr)[a].keys[b] \in MemberKeys
    BY <2>3, <2>4, StageKeys
  <2>6. IsMember(tr, Stages(tr)[a].keys[b])
    BY <2>2, <2>3, <2>4 DEF IsMember, Barriers, Range
  <2> QED
    BY <2>3, <2>4, <2>5, <2>6 DEF BindableMembers
<1>2. i \in stages /\ \A a \in stages : i <= a
  <2>1. stages \in SUBSET Nat /\ stages # {}
    BY <1>1
  <2> QED
    BY <2>1, LeastMember
<1> HIDE DEF i
<1>3. members \in SUBSET Nat /\ members # {}
  BY <1>1, <1>2
<1>4. j \in members /\ \A b \in members : j <= b
  BY <1>3, LeastMember
<1> HIDE DEF j
<1>5. PICK p \in B : p[1] = i /\ p[2] = j
  BY <1>4
<1>6. ASSUME NEW q \in B
      PROVE  p[1] < q[1] \/ (p[1] = q[1] /\ p[2] <= q[2])
  <2>1. p[1] <= q[1]
    BY <1>2, <1>5
  <2>2. p[1] = q[1] => p[2] <= q[2]
    BY <1>4, <1>5
  <2> QED
    BY <2>1, <2>2, <1>1
<1>7. first \in B
  BY <1>6
<1>8. FirstBindable(tr, r) = Stages(tr)[first[1]].keys[first[2]]
  BY DEF FirstBindable
<1> HIDE DEF first
<1> QED
  BY <1>1, <1>7, <1>8

LEMMA MemberBoundSound ==
  ASSUME NEW tr \in Track, NEW r, NEW t \in Tasks
  PROVE  Sound(tr, MemberBound(tr, r, t))
<1> DEFINE k == FirstBindable(tr, r)
           after == [tr EXCEPT !.memberTasks[k] = t]
<1>1. CASE MemberBound(tr, r, t) = tr
  BY <1>1 DEF Sound
<1>2. CASE MemberBound(tr, r, t) = after /\ BindableMembers(tr, r) # {}
  <2>1. k \in tr.requested
    BY <1>2, FirstBindableMember
  <2> HIDE DEF k
  <2>2. Sound(tr, after)
    BY <2>1 DEF Sound, Track, MembersRequested, Keys
  <2> QED
    BY <1>2, <2>2
<1> QED
  BY <1>1, <1>2 DEF MemberBound

\* What a debt claim or a late result of role r may take on stage st.
LEMMA DebtKeyType ==
  ASSUME NEW tr \in Track, NEW st \in Range(Stages(tr)), NEW r \in Roles
  PROVE  DebtKeys(tr, st, r) \subseteq Keys
  BY TrackKeys DEF DebtKeys, Keys

LEMMA OwedKeyType ==
  ASSUME NEW tr \in Track, NEW r \in Roles
  PROVE  OwedKeys(tr, r) \subseteq Keys
  BY TrackKeys DEF OwedKeys, Keys

LEMMA DebtBoundSound ==
  ASSUME NEW tr \in Track, NEW k \in Keys, NEW t \in Tasks
  PROVE  Sound(tr, DebtBound(tr, k, t))
<1>1. Sound(tr, [tr EXCEPT !.requested = @ \cup {k}, !.memberTasks[k] = t])
  BY DEF Sound, Track, MembersRequested, Keys
<1>2. Sound(tr, [tr EXCEPT !.stageTasks[k] = t])
  BY DEF Sound, Track, MembersRequested
<1> QED
  BY <1>1, <1>2 DEF DebtBound

\* The verifier that is due is a verify step of the track.
LEMMA VerifierDue ==
  ASSUME NEW tr \in Track, NextVerifyStep(tr) # Nil
  PROVE  NextVerifyStep(tr) \in Steps
<1>1. VerifyPositions(tr) \in SUBSET Nat
  BY StagesType DEF VerifyPositions
<1>2. /\ VerifyPositions(tr) # {}
      /\ NextVerifyStep(tr) = Key(Stages(tr)[Least(VerifyPositions(tr))])
  BY DEF NextVerifyStep
<1>3. Least(VerifyPositions(tr)) \in VerifyPositions(tr)
  BY <1>1, <1>2, LeastMember
<1> QED
  BY <1>2, <1>3, StagesType, StageKeys DEF VerifyPositions

-----------------------------------------------------------------------------
(* The invariant of the state file *)

\* The tracks of a state, and the inductive invariant: neither the types nor
\* BoundMembersRequested alone survive an acknowledgement, which reads both.
TracksOK(f) ==
    /\ f \in [Decisions -> Track \cup {Nil}]
    /\ \A d \in Decisions : f[d] # Nil => MembersRequested(f[d])

CircuitOK == circuit \in [Sessions -> [Keys -> 0..CircuitThreshold]]

IInv == TracksOK(tracks) /\ CircuitOK

LEMMA InvariantParts == IInv <=> TypeOK /\ BoundMembersRequested
  BY DEF IInv, TracksOK, CircuitOK, TypeOK, BoundMembersRequested, Live, MembersRequested

LEMMA LiveTrack ==
  ASSUME IInv, NEW d \in Live
  PROVE  tracks[d] \in Track /\ d \in Decisions
  BY DEF IInv, TracksOK, Live

-----------------------------------------------------------------------------
(* What a transaction may do to the tracks and to the circuit *)

\* One track is put, or several are updated at once.
LEMMA PutTrack ==
  ASSUME IInv, NEW d \in Decisions, NEW tr \in Track,
         MembersRequested(tr), Put(d, tr)
  PROVE  TracksOK(tracks')
  BY DEF IInv, TracksOK, Put

LEMMA PutUpdate ==
  ASSUME IInv, NEW d \in Live, NEW tr, Sound(tracks[d], tr), Put(d, tr)
  PROVE  TracksOK(tracks')
<1>1. MembersRequested(tracks[d]) /\ tracks[d] \in Track /\ d \in Decisions
  BY DEF IInv, TracksOK, Live
<1> QED
  BY <1>1, PutTrack DEF Sound

LEMMA UpdateAll ==
  ASSUME IInv, NEW S \in SUBSET Live, NEW new,
         tracks' = [d \in Decisions |-> IF d \in S THEN new[d] ELSE tracks[d]],
         \A d \in S : Sound(tracks[d], new[d])
  PROVE  TracksOK(tracks')
  BY DEF IInv, TracksOK, Live, Sound

\* The count of a role's failures stays within the circuit's threshold.
LEMMA FeedCircuit ==
  ASSUME IInv, NEW d, NEW role, NEW ok \in BOOLEAN, NEW escalate \in BOOLEAN,
         Feed(d, role, ok, escalate)
  PROVE  CircuitOK'
<1> DEFINE s == SessionOf[d]
           count == CASE ok -> 0
                      [] ~ok /\ escalate /\ circuit[s][role] < CircuitThreshold ->
                            circuit[s][role] + 1
                      [] OTHER -> circuit[s][role]
<1>1. circuit' = [circuit EXCEPT ![s][role] = count]
  BY DEF Feed
<1>2. circuit \in [Sessions -> [Keys -> 0..CircuitThreshold]]
  BY DEF IInv, CircuitOK
<1>3. CASE s \in Sessions /\ role \in Keys
  <2>1. circuit[s][role] \in 0..CircuitThreshold
    BY <1>2, <1>3
  <2>2. count \in 0..CircuitThreshold
    BY <2>1, DecisionsAssumption DEF DecisionsAssumption
  <2> HIDE DEF count, s
  <2> QED
    BY <1>1, <1>2, <2>2 DEF CircuitOK
<1>4. CASE s \notin Sessions \/ role \notin Keys
  <2> HIDE DEF count, s
  <2> QED
    BY <1>1, <1>2, <1>4 DEF CircuitOK
<1> QED
  BY <1>3, <1>4

LEMMA SameCircuit ==
  ASSUME IInv, UNCHANGED circuit
  PROVE  CircuitOK'
  BY DEF IInv, CircuitOK

LEMMA InitOK == Init => IInv
<1>1. ASSUME Init
      PROVE  TracksOK(tracks)
  BY <1>1 DEF Init, TracksOK
<1>2. ASSUME Init
      PROVE  CircuitOK
  BY <1>2, DecisionsAssumption DEF Init, CircuitOK, DecisionsAssumption
<1> QED
  BY <1>1, <1>2 DEF IInv

-----------------------------------------------------------------------------
(* Creating, requesting and binding *)

LEMMA EnsureExecutionOK ==
  ASSUME IInv, NEW d \in Decisions, NEW plan \in Plans[d], EnsureExecution(d, plan)
  PROVE  IInv'
<1>1. plan \in Seq(Stage)
  BY DecisionsAssumption DEF DecisionsAssumption
<1>2. ASSUME tracks[d] = Nil
      PROVE  TracksOK(tracks')
  BY <1>1, <1>2, NewTrackSound, PutTrack DEF EnsureExecution
<1>3. ASSUME tracks[d] # Nil
      PROVE  TracksOK(tracks')
  <2>1. d \in Live
    BY <1>3 DEF Live
  <2>2. Sound(tracks[d], Ensured(tracks[d], plan))
    BY <1>1, <2>1, LiveTrack, EnsuredSound
  <2> QED
    BY <1>3, <2>1, <2>2, PutUpdate DEF EnsureExecution
<1> QED
  BY <1>2, <1>3, SameCircuit DEF EnsureExecution, IInv

LEMMA PruneCircuitsOK ==
  ASSUME IInv, NEW s \in Sessions, PruneCircuits(s)
  PROVE  IInv'
<1>1. [k \in Keys |-> 0] \in [Keys -> 0..CircuitThreshold]
  BY DecisionsAssumption DEF DecisionsAssumption
<1> QED
  BY <1>1 DEF PruneCircuits, IInv, TracksOK, CircuitOK

LEMMA PruneOK ==
  ASSUME IInv, NEW d \in Decisions, Prune(d)
  PROVE  IInv'
  BY SameCircuit DEF Prune, Put, IInv, TracksOK

LEMMA AllocateParallelMemberOK ==
  ASSUME IInv, NEW d \in Decisions, NEW st \in BarriersOf(d), NEW r \in Roles,
         AllocateParallelMember(d, st, r)
  PROVE  IInv'
<1>1. d \in Live /\ tracks[d] \in Track
  BY LiveTrack DEF AllocateParallelMember
<1>2. st \in Range(Stages(tracks[d])) /\ st.kind = "parallel_spawn"
  BY <1>1 DEF BarriersOf
<1> DEFINE k == AllocatedKey(tracks[d], st, r)
<1>3. k \in Keys
  BY <1>1, <1>2, AllocatedMember DEF AllocateParallelMember, Keys
<1> HIDE DEF k
<1>4. Sound(tracks[d], [tracks[d] EXCEPT !.requested = @ \cup {k}])
  BY <1>1, <1>3, RequestedSound
<1>5. TracksOK(tracks')
  BY <1>1, <1>4, PutUpdate DEF AllocateParallelMember, k
<1> QED
  BY <1>5, SameCircuit DEF AllocateParallelMember, IInv

\* The keys a hook names are keys of the instance.
LEMMA NamedKeys ==
  ASSUME IInv, NEW d \in Decisions
  PROVE  /\ Asked(d) \subseteq Keys
         /\ Reported(d) \subseteq Keys
         /\ StepsOf(d) \subseteq Steps
         /\ d \in Live => SpawnKeys(tracks[d]) \subseteq Keys
<1>1. ASSUME NEW stages \in Seq(Stage)
      PROVE  KeysOf(stages) \subseteq Keys
  <2>1. Range(stages) \subseteq Stage
    BY LenProperties DEF Range
  <2> QED
    BY <2>1, StageKeys DEF KeysOf, Spawnable, Keys
<1>2. ASSUME d \in Live
      PROVE  SpawnKeys(tracks[d]) \subseteq Keys
  BY <1>1, <1>2, LiveTrack, StagesType DEF SpawnKeys
<1>3. ASSUME d \in Live, NEW plan \in Plans[d]
      PROVE  plan \o RuntimeStages(tracks[d].runtime) \in Seq(Stage)
  <2>1. tracks[d].runtime \in Runtimes
    BY <1>3, LiveTrack DEF Track
  <2>2. plan \in Seq(Stage)
    BY DecisionsAssumption DEF DecisionsAssumption
  <2> QED
    BY <2>1, <2>2, RuntimeStageTypes, ConcatProperties
<1>4. Asked(d) \subseteq Keys
  BY <1>1, <1>3 DEF Asked, PlansOf
<1>5. AdHocRoles \subseteq Keys
  BY DecisionsAssumption DEF DecisionsAssumption, Keys
<1> QED
  BY <1>2, <1>4, <1>5 DEF Reported, StepsOf

LEMMA RecordRequestedOK ==
  ASSUME IInv, NEW d \in Decisions, NEW k \in Asked(d), RecordRequested(d, k)
  PROVE  IInv'
<1>1. d \in Live /\ tracks[d] \in Track /\ k \in Keys
  BY LiveTrack, NamedKeys DEF RecordRequested
<1>2. Sound(tracks[d], Requested(tracks[d], k))
  BY <1>1, RequestedSound
<1>3. TracksOK(tracks')
  BY <1>1, <1>2, PutUpdate DEF RecordRequested
<1> QED
  BY <1>3, SameCircuit DEF RecordRequested, IInv

LEMMA BindParallelMemberOK ==
  ASSUME IInv, NEW d \in Decisions, NEW t \in Children, BindParallelMember(d, t)
  PROVE  IInv'
<1>1. d \in Live /\ tracks[d] \in Track /\ t \in Tasks
  BY LiveTrack DEF BindParallelMember, Tasks
<1>2. Sound(tracks[d], MemberBound(tracks[d], TaskRole[t], t))
  BY <1>1, MemberBoundSound
<1>3. TracksOK(tracks')
  BY <1>1, <1>2, PutUpdate DEF BindParallelMember
<1> QED
  BY <1>3, SameCircuit DEF BindParallelMember, IInv

LEMMA BindLinearStageOK ==
  ASSUME IInv, NEW d \in Decisions, NEW t \in Children, BindLinearStage(d, t)
  PROVE  IInv'
<1>1. d \in Live /\ tracks[d] \in Track /\ t \in Tasks /\ TaskRole[t] \in Roles
  BY LiveTrack, DecisionsAssumption DEF BindLinearStage, Tasks, DecisionsAssumption
<1>2. Sound(tracks[d], LinearBound(tracks[d], TaskRole[t], t))
  BY <1>1, LinearBoundSound
<1>3. TracksOK(tracks')
  BY <1>1, <1>2, PutUpdate DEF BindLinearStage
<1> QED
  BY <1>3, SameCircuit DEF BindLinearStage, IInv

LEMMA BindTerminalOK ==
  ASSUME IInv, NEW d \in Live, NEW t \in Jobs, BindTerminal(d, t)
  PROVE  IInv'
<1>1. tracks[d] \in Track /\ t \in Tasks /\ d \in Decisions
  BY LiveTrack DEF Tasks
<1>2. PICK k \in TerminalStageKeys(tracks[d]) :
         Put(d, [tracks[d] EXCEPT !.terminalTasks[t] = k]) /\ UNCHANGED circuit
  BY DEF BindTerminal
<1>3. k \in Keys
  BY <1>1, NamedKeys DEF TerminalStageKeys
<1>4. Sound(tracks[d], [tracks[d] EXCEPT !.terminalTasks[t] = k])
  BY <1>1, <1>3, TerminalBoundSound
<1>5. TracksOK(tracks')
  BY <1>2, <1>4, PutUpdate
<1> QED
  BY <1>2, <1>5, SameCircuit DEF IInv

LEMMA BindVerifyOK ==
  ASSUME IInv, NEW d \in Decisions, NEW t \in Jobs, NEW s \in Steps, BindVerify(d, t, s)
  PROVE  IInv'
<1>1. d \in Live /\ tracks[d] \in Track /\ t \in Tasks
  BY LiveTrack DEF BindVerify, Tasks
<1>2. Sound(tracks[d], [tracks[d] EXCEPT !.verifyTasks[t] = s])
  BY <1>1, VerifyBoundSound
<1>3. TracksOK(tracks')
  BY <1>1, <1>2, PutUpdate DEF BindVerify
<1> QED
  BY <1>3, SameCircuit DEF BindVerify, IInv

LEMMA StopBlockOK ==
  ASSUME IInv, NEW d \in Decisions, StopBlock(d)
  PROVE  IInv'
<1>1. d \in Live /\ tracks[d] \in Track
  BY LiveTrack DEF StopBlock
<1>2. TracksOK(tracks')
  BY <1>1, StopBlockSound, PutUpdate DEF StopBlock
<1> QED
  BY <1>2, SameCircuit DEF StopBlock, IInv

-----------------------------------------------------------------------------
(* Results *)

LEMMA RecordStageResultOK ==
  ASSUME IInv, NEW d \in Decisions, NEW k \in Reported(d), NEW ok \in BOOLEAN,
         NEW escalate \in Escalations, NEW composable \in Composable,
         RecordStageResult(d, k, ok, escalate, composable)
  PROVE  IInv'
<1>1. /\ d \in Live /\ tracks[d] \in Track /\ k \in Keys
      /\ escalate \in BOOLEAN /\ composable \in BOOLEAN
  BY LiveTrack, NamedKeys, DecisionsAssumption DEF RecordStageResult, DecisionsAssumption
<1>2. Sound(tracks[d], StageResult(tracks[d], k, ok, composable))
  BY <1>1, StageResultSound
<1>3. TracksOK(tracks')
  BY <1>1, <1>2, PutUpdate DEF RecordStageResult
<1>4. CircuitOK'
  BY <1>1, SameCircuit, FeedCircuit DEF RecordStageResult
<1> QED
  BY <1>3, <1>4 DEF IInv

\* The stages a task resolves to belong to live tracks.
LEMMA MatchedTracks ==
  ASSUME IInv, NEW s, NEW t, NEW m \in Matches(s, t)
  PROVE  /\ m[1] \in Live /\ tracks[m[1]] \in Track
         /\ m[2] \in Names
  BY LiveTrack DEF Matches, SessionTracks

LEMMA RecordRetrievalOK ==
  ASSUME IInv, NEW s \in Sessions, NEW t \in Tasks, NEW ok \in BOOLEAN,
         NEW escalate \in Escalations, NEW composable \in Composable,
         RecordRetrieval(s, t, ok, escalate, composable)
  PROVE  IInv'
<1>1. PICK m \in Matches(s, t) :
         LET d == m[1]
             k == m[2]
             tr == tracks[d]
         IN  /\ k \in Keys
             /\ \/ /\ Put(d, [tr EXCEPT !.terminalTasks[t] = Nil])
                   /\ UNCHANGED circuit
                \/ /\ Put(d, SettledRetrieval(tr, k, t, ok, composable))
                   /\ \/ UNCHANGED circuit
                      \/ Feed(d, ActualRole(tr, k), ok, escalate)
  BY DEF RecordRetrieval
<1>2. /\ m[1] \in Live /\ tracks[m[1]] \in Track
      /\ escalate \in BOOLEAN /\ composable \in BOOLEAN
  BY MatchedTracks, DecisionsAssumption DEF DecisionsAssumption
<1>3. /\ Sound(tracks[m[1]], [tracks[m[1]] EXCEPT !.terminalTasks[t] = Nil])
      /\ Sound(tracks[m[1]], SettledRetrieval(tracks[m[1]], m[2], t, ok, composable))
  BY <1>1, <1>2, UnparkedSound, SettledRetrievalSound
<1>4. TracksOK(tracks')
  BY <1>1, <1>2, <1>3, PutUpdate
<1>5. CircuitOK'
  BY <1>1, <1>2, SameCircuit, FeedCircuit
<1> QED
  BY <1>4, <1>5 DEF IInv

LEMMA RecordReviewInconclusiveOK ==
  ASSUME IInv, NEW s \in Sessions, NEW t \in Children, RecordReviewInconclusive(s, t)
  PROVE  IInv'
<1>1. PICK m \in Matches(s, t) :
         /\ m[2] \in Keys
         /\ \/ Put(m[1], [tracks[m[1]] EXCEPT !.terminalTasks[t] = Nil])
            \/ Put(m[1], Discharged(tracks[m[1]], m[2], t))
         /\ UNCHANGED circuit
  BY DEF RecordReviewInconclusive
<1>2. m[1] \in Live /\ tracks[m[1]] \in Track /\ t \in Tasks
  BY MatchedTracks DEF Tasks
<1>3. /\ Sound(tracks[m[1]], [tracks[m[1]] EXCEPT !.terminalTasks[t] = Nil])
      /\ Sound(tracks[m[1]], Discharged(tracks[m[1]], m[2], t))
  BY <1>1, <1>2, UnparkedSound, DischargedSound
<1>4. TracksOK(tracks')
  BY <1>1, <1>2, <1>3, PutUpdate
<1> QED
  BY <1>1, <1>4, SameCircuit DEF IInv

LEMMA RecordVerifyRetrievalOK ==
  ASSUME IInv, NEW s \in Sessions, NEW t \in Tasks, NEW ok \in BOOLEAN,
         RecordVerifyRetrieval(s, t, ok)
  PROVE  IInv'
<1> DEFINE bound == {d \in SessionTracks(s) : {tracks[d].verifyTasks[t],
                                               tracks[d].releasedVerify[t]} # {Nil}}
           new == [d \in bound |-> VerifierSettled(tracks[d], t, ok)]
<1>1. bound \subseteq Live
  BY DEF SessionTracks
<1>2. \A d \in bound : Sound(tracks[d], new[d])
  BY <1>1, LiveTrack, VerifierSettledSound
<1>3. tracks' = [d \in Decisions |-> IF d \in bound THEN new[d] ELSE tracks[d]]
  BY DEF RecordVerifyRetrieval
<1>4. TracksOK(tracks')
  <2> HIDE DEF bound, new
  <2> QED
    BY <1>1, <1>2, <1>3, UpdateAll
<1> QED
  BY <1>4, SameCircuit DEF RecordVerifyRetrieval, IInv

LEMMA RecordVerifyOK ==
  ASSUME IInv, NEW d \in Decisions, NEW s \in StepsOf(d), NEW ok \in BOOLEAN,
         RecordVerify(d, s, ok)
  PROVE  IInv'
<1>1. d \in Live /\ tracks[d] \in Track /\ s \in Steps
  BY LiveTrack, NamedKeys DEF RecordVerify
<1>2. TracksOK(tracks')
  BY <1>1, VerifyRecordedSound, PutUpdate DEF RecordVerify
<1> QED
  BY <1>2, SameCircuit DEF RecordVerify, IInv

LEMMA ReleaseUnresolvableOK ==
  ASSUME IInv, NEW s \in Sessions, NEW t \in Tasks, ReleaseUnresolvable(s, t)
  PROVE  IInv'
<1> DEFINE found(d) == {n \in Names : <<d, n>> \in Matches(s, t)}
           one(d)   == CHOOSE n \in found(d) : TRUE
<1>1. PICK jobs : tracks' = [d \in Decisions |->
                               IF d \in Live /\ found(d) # {}
                               THEN NotFound(tracks[d], one(d), t, jobs[d])
                               ELSE tracks[d]]
  BY DEF ReleaseUnresolvable
<1> DEFINE S == {d \in Live : found(d) # {}}
           new == [d \in S |-> NotFound(tracks[d], one(d), t, jobs[d])]
<1>2. \A d \in S : Sound(tracks[d], new[d])
  <2>1. \A d \in S : one(d) \in Names
    OBVIOUS
  <2> HIDE DEF one, found
  <2> QED
    BY <2>1, LiveTrack, NotFoundSound
<1>3. tracks' = [d \in Decisions |-> IF d \in S THEN new[d] ELSE tracks[d]]
  <2>1. \A d \in S : new[d] = NotFound(tracks[d], one(d), t, jobs[d])
    OBVIOUS
  <2>2. \A d \in Decisions : d \in S <=> d \in Live /\ found(d) # {}
    OBVIOUS
  <2> HIDE DEF S, new, one, found
  <2> QED
    BY <1>1, <2>1, <2>2
<1>4. TracksOK(tracks')
  <2>1. S \subseteq Live
    OBVIOUS
  <2> HIDE DEF S, new
  <2> QED
    BY <2>1, <1>2, <1>3, UpdateAll
<1> QED
  BY <1>4, SameCircuit DEF ReleaseUnresolvable, IInv

-----------------------------------------------------------------------------
(* Debt *)

LEMMA DebtTracks ==
  ASSUME NEW d, NEW W
  PROVE  Others(d, W) \subseteq Live /\ Debts(d, W) \subseteq Live
  BY DEF Others, Debts, SessionTracks

LEMMA BindDebtStageOK ==
  ASSUME IInv, NEW d \in Decisions, NEW W, NEW t \in Children, BindDebtStage(d, t, W)
  PROVE  IInv'
<1> DEFINE role == TaskRole[t]
<1>1. role \in Roles /\ t \in Tasks
  BY DecisionsAssumption DEF DecisionsAssumption, Tasks
<1>2. PICK e \in Debts(d, W) : \E i \in ClaimedStages(tracks[e], role) :
         \E k \in DebtKeys(tracks[e], Stages(tracks[e])[i], role) :
            Put(e, DebtBound(tracks[e], k, t))
  BY DEF BindDebtStage
<1>3. PICK i \in ClaimedStages(tracks[e], role) :
         \E k \in DebtKeys(tracks[e], Stages(tracks[e])[i], role) :
            Put(e, DebtBound(tracks[e], k, t))
  BY <1>2
<1>4. PICK k \in DebtKeys(tracks[e], Stages(tracks[e])[i], role) :
         Put(e, DebtBound(tracks[e], k, t))
  BY <1>3
<1> HIDE DEF role
<1>5. e \in Live /\ tracks[e] \in Track
  BY DebtTracks, LiveTrack
<1>6. Stages(tracks[e])[i] \in Range(Stages(tracks[e]))
  BY DEF ClaimedStages, Range
<1>7. k \in Keys
  BY <1>1, <1>5, <1>6, DebtKeyType
<1>8. TracksOK(tracks')
  BY <1>1, <1>4, <1>5, <1>7, DebtBoundSound, PutUpdate
<1> QED
  BY <1>8, SameCircuit DEF BindDebtStage, IInv

LEMMA RecordSessionDebtStageOK ==
  ASSUME IInv, NEW d \in Decisions, NEW r \in Roles, NEW W, NEW ok \in BOOLEAN,
         NEW escalate \in Escalations, NEW composable \in Composable,
         RecordSessionDebtStage(d, r, W, ok, escalate, composable)
  PROVE  IInv'
<1>1. PICK e \in Debts(d, W) : \E k \in OwedKeys(tracks[e], r) :
         /\ Put(e, Recorded(tracks[e], k, ok, composable))
         /\ Feed(e, ActualRole(tracks[e], k), ok, escalate)
  BY DEF RecordSessionDebtStage
<1>2. PICK k \in OwedKeys(tracks[e], r) :
         /\ Put(e, Recorded(tracks[e], k, ok, composable))
         /\ Feed(e, ActualRole(tracks[e], k), ok, escalate)
  BY <1>1
<1>3. /\ e \in Live /\ tracks[e] \in Track
      /\ escalate \in BOOLEAN /\ composable \in BOOLEAN
  BY DebtTracks, LiveTrack, DecisionsAssumption DEF DecisionsAssumption
<1>4. k \in Keys
  BY <1>3, OwedKeyType
<1>5. TracksOK(tracks')
  BY <1>2, <1>3, <1>4, StageResultSound, PutUpdate
<1>6. CircuitOK'
  BY <1>2, <1>3, FeedCircuit
<1> QED
  BY <1>5, <1>6 DEF IInv

LEMMA BindDebtVerifyOK ==
  ASSUME IInv, NEW d \in Decisions, NEW W, NEW t \in Jobs, BindDebtVerify(d, t, W)
  PROVE  IInv'
<1> DEFINE due(e) == NextVerifyStep(tracks[e])
           owing  == {e \in Others(d, W) :
                         /\ due(e) # Nil
                         /\ \A u \in Tasks : tracks[e].verifyTasks[u] # due(e)
                         /\ CommandOf[due(e)] = CommandRun[t]}
           new == [e \in owing |-> [tracks[e] EXCEPT !.verifyTasks[t] = due(e)]]
<1>1. owing \subseteq Live /\ t \in Tasks
  BY DebtTracks DEF Tasks
<1>2. \A e \in owing : Sound(tracks[e], new[e])
  BY <1>1, LiveTrack, VerifierDue, VerifyBoundSound
<1>3. tracks' = [e \in Decisions |-> IF e \in owing THEN new[e] ELSE tracks[e]]
  BY DEF BindDebtVerify
<1>4. TracksOK(tracks')
  <2> HIDE DEF owing, new
  <2> QED
    BY <1>1, <1>2, <1>3, UpdateAll
<1> QED
  BY <1>4, SameCircuit DEF BindDebtVerify, IInv

LEMMA RecordVerifyFanoutOK ==
  ASSUME IInv, NEW d \in Decisions, NEW W, NEW command, RecordVerifyFanout(d, command, W)
  PROVE  IInv'
<1> DEFINE due(e) == NextVerifyStep(tracks[e])
           owing  == {e \in Others(d, W) : due(e) # Nil /\ CommandOf[due(e)] = command}
           new == [e \in owing |-> [tracks[e] EXCEPT !.verified = @ \cup {due(e)}]]
<1>1. owing \subseteq Live
  BY DebtTracks
<1>2. \A e \in owing : Sound(tracks[e], new[e])
  <2>1. SUFFICES ASSUME NEW e \in owing
                 PROVE  Sound(tracks[e], [tracks[e] EXCEPT !.verified = @ \cup {due(e)}])
    OBVIOUS
  <2>2. tracks[e] \in Track /\ due(e) \in Steps
    BY <1>1, LiveTrack, VerifierDue
  <2> HIDE DEF due
  <2> QED
    BY <2>2 DEF Sound, Track, MembersRequested
<1>3. tracks' = [e \in Decisions |-> IF e \in owing THEN new[e] ELSE tracks[e]]
  BY DEF RecordVerifyFanout
<1>4. TracksOK(tracks')
  <2> HIDE DEF owing, new
  <2> QED
    BY <1>1, <1>2, <1>3, UpdateAll
<1> QED
  BY <1>4, SameCircuit DEF RecordVerifyFanout, IInv

-----------------------------------------------------------------------------
(* The invariant and what follows from it *)

LEMMA NextOK == IInv /\ Next => IInv'
<1> SUFFICES ASSUME IInv, Next
             PROVE  IInv'
  OBVIOUS
<1>1. CASE \E d \in Decisions : \E plan \in Plans[d] : EnsureExecution(d, plan)
  BY <1>1, EnsureExecutionOK
<1>2. CASE \E d \in Decisions : Prune(d)
  BY <1>2, PruneOK
<1>3. CASE \E d \in Decisions, r \in Roles : \E st \in BarriersOf(d) :
              AllocateParallelMember(d, st, r)
  BY <1>3, AllocateParallelMemberOK
<1>4. CASE \E d \in Decisions : \E k \in Asked(d) : RecordRequested(d, k)
  BY <1>4, RecordRequestedOK
<1>5. CASE \E d \in Decisions, t \in Children : BindParallelMember(d, t) \/ BindLinearStage(d, t)
  BY <1>5, BindParallelMemberOK, BindLinearStageOK
<1>6. CASE \E d \in Live, t \in Jobs : BindTerminal(d, t)
  BY <1>6, BindTerminalOK
<1>7. CASE \E d \in Decisions, t \in Jobs, s \in Steps : BindVerify(d, t, s)
  BY <1>7, BindVerifyOK
<1>8. CASE \E d \in Decisions, ok \in BOOLEAN : \E s \in StepsOf(d) : RecordVerify(d, s, ok)
  BY <1>8, RecordVerifyOK
<1>9. CASE \E d \in Decisions : StopBlock(d)
  BY <1>9, StopBlockOK
<1>10. CASE \E d \in Decisions, t \in Children : \E W \in SUBSET (Decisions \ {d}) :
               BindDebtStage(d, t, W)
  BY <1>10, BindDebtStageOK
<1>11. CASE \E d \in Decisions, t \in Jobs : \E W \in SUBSET (Decisions \ {d}) :
               BindDebtVerify(d, t, W)
  BY <1>11, BindDebtVerifyOK
<1>12. CASE \E d \in Decisions, command \in Range(CommandOf) :
               \E W \in SUBSET (Decisions \ {d}) : RecordVerifyFanout(d, command, W)
  BY <1>12, RecordVerifyFanoutOK
<1>13. CASE \E ok \in BOOLEAN, escalate \in Escalations, composable \in Composable,
               d \in Decisions : \E k \in Reported(d) :
                  RecordStageResult(d, k, ok, escalate, composable)
  BY <1>13, RecordStageResultOK
<1>14. CASE \E ok \in BOOLEAN, escalate \in Escalations, composable \in Composable,
               d \in Decisions, r \in Roles \ {SentinelRole} :
               \E W \in SUBSET (Decisions \ {d}) :
                  RecordSessionDebtStage(d, r, W, ok, escalate, composable)
  BY <1>14, RecordSessionDebtStageOK
<1>15. CASE \E ok \in BOOLEAN, escalate \in Escalations, composable \in Composable,
               s \in Sessions, t \in Tasks : RecordRetrieval(s, t, ok, escalate, composable)
  BY <1>15, RecordRetrievalOK
<1>16. CASE \E s \in Sessions, t \in Children : RecordReviewInconclusive(s, t)
  BY <1>16, RecordReviewInconclusiveOK
<1>17. CASE \E s \in Sessions, t \in Tasks : ReleaseUnresolvable(s, t)
  BY <1>17, ReleaseUnresolvableOK
<1>18. CASE \E s \in Sessions, t \in Tasks, ok \in BOOLEAN : RecordVerifyRetrieval(s, t, ok)
  BY <1>18, RecordVerifyRetrievalOK
<1>19. CASE \E s \in Sessions : PruneCircuits(s)
  BY <1>19, PruneCircuitsOK
<1> QED
  BY <1>1, <1>2, <1>3, <1>4, <1>5, <1>6, <1>7, <1>8, <1>9, <1>10, <1>11, <1>12, <1>13,
     <1>14, <1>15, <1>16, <1>17, <1>18, <1>19 DEF Next

LEMMA Inductive == Spec => []IInv
<1>1. IInv /\ UNCHANGED vars => IInv'
  BY DEF vars, IInv, TracksOK, CircuitOK
<1>2. IInv /\ [Next]_vars => IInv'
  BY <1>1, NextOK
<1> QED
  BY InitOK, <1>2, PTL DEF Spec

\* Whatever the hooks ask for, in whatever order, every track keeps the shape
\* the code declares and every failure count stays within its circuit's limit.
THEOREM TypeCorrect == Spec => []TypeOK
  BY Inductive, InvariantParts, PTL

\* No acknowledgement, re-spawn, late result, lost lookup, debt claim or
\* recomposed plan leaves a barrier member bound without being requested.
THEOREM BoundMembersCorrect == Spec => []BoundMembersRequested
  BY Inductive, InvariantParts, PTL

-----------------------------------------------------------------------------
(* Action properties *)

\* What one lookup without an answer leaves of a child's correlation with its
\* one stage: all of it, bound or parked.
LEMMA NotFoundCorrelated ==
  ASSUME NEW tr \in Track, NEW n \in Names, NEW t \in Tasks, NEW job,
         \A m \in BoundNames(tr, t) : m = n
  PROVE  n \in BoundNames(tr, t) =>
            BoundNames(NotFound(tr, n, t, job), t) = BoundNames(tr, t)
<1> SUFFICES ASSUME n \in BoundNames(tr, t)
             PROVE  BoundNames(NotFound(tr, n, t, job), t) = {n}
  OBVIOUS
<1> DEFINE after == NotFound(tr, n, t, job)
<1>1. CASE tr.notFound[n] # t
  <2>1. after = [tr EXCEPT !.notFound[n] = t]
    BY <1>1 DEF NotFound
  <2>2. BoundNames(after, t) = BoundNames(tr, t)
    <3> HIDE DEF after
    <3> QED BY <2>1 DEF BoundNames, Track
  <2> QED BY <2>2
<1>2. CASE tr.notFound[n] = t
  <2>1. /\ DOMAIN after.memberTasks = Keys /\ DOMAIN after.stageTasks = Keys
        /\ \A k \in Keys : /\ after.memberTasks[k] \in {tr.memberTasks[k], Nil}
                          /\ after.stageTasks[k] \in {tr.stageTasks[k], Nil}
    BY <1>2 DEF NotFound, Track
  <2>2. after.verifyTasks[t] \in {tr.verifyTasks[t], Nil}
    BY <1>2 DEF NotFound, Track
  <2>3. n \in Steps => /\ after.releasedVerify[t] = n
                       /\ after.terminalTasks[t] = tr.terminalTasks[t]
    BY <1>2 DEF NotFound, Track
  <2>4. n \notin Steps => /\ after.terminalTasks[t] = n
                          /\ after.releasedVerify[t] = tr.releasedVerify[t]
    BY <1>2 DEF NotFound, Track
  <2>5. Nil \notin Tasks /\ Nil \notin Names /\ Steps \cap Keys = {}
    BY KeysAssumption DEF KeysAssumption
  <2> HIDE DEF after
  <2>6. BoundNames(after, t) \subseteq {n}
    BY <2>1, <2>2, <2>3, <2>4, <2>5 DEF BoundNames, Names
  <2>7. n \in BoundNames(after, t)
    BY <2>3, <2>4 DEF BoundNames, Names
  <2> QED BY <2>6, <2>7 DEF after
<1> QED BY <1>1, <1>2

\* Whatever a run of empty lookups releases, the child it looked for still
\* resolves to the same stages: a late answer finds them.
THEOREM ReleaseKeepsCorrelation == Spec => CorrelationOutlivesRelease
<1>1. ASSUME IInv, NEW d \in Live, NEW t \in Tasks, ReleaseUnresolvable(SessionOf[d], t),
             tracks'[d] # Nil
      PROVE  BoundNames(tracks[d], t) = BoundNames(tracks'[d], t)
  <2> DEFINE found(e) == {n \in Names : <<e, n>> \in Matches(SessionOf[d], t)}
             one(e)   == CHOOSE n \in found(e) : TRUE
  <2>1. PICK jobs : tracks' = [e \in Decisions |->
                                 IF e \in Live /\ found(e) # {}
                                 THEN NotFound(tracks[e], one(e), t, jobs[e])
                                 ELSE tracks[e]]
    BY <1>1 DEF ReleaseUnresolvable
  <2>2. tracks[d] \in Track /\ d \in Decisions
    BY <1>1, LiveTrack
  <2>3. found(d) = BoundNames(tracks[d], t)
    <3>1. BoundNames(tracks[d], t) \subseteq Names
      BY DEF BoundNames, Names
    <3> QED BY <3>1 DEF Matches, SessionTracks
  <2>4. \A n1, n2 \in found(d) : n1 = n2
    BY <1>1 DEF ReleaseUnresolvable
  <2>5. CASE found(d) = {}
    <3> HIDE DEF found, one
    <3> QED BY <2>1, <2>2, <2>5
  <2>6. CASE found(d) # {}
    <3>1. one(d) \in found(d) /\ one(d) \in Names
      BY <2>6
    <3>2. tracks'[d] = NotFound(tracks[d], one(d), t, jobs[d])
      <4> HIDE DEF found, one
      <4> QED BY <2>1, <2>2, <2>6
    <3> HIDE DEF found, one
    <3>3. \A m \in BoundNames(tracks[d], t) : m = one(d)
      BY <2>3, <2>4, <3>1
    <3> QED BY <2>2, <2>3, <3>1, <3>2, <3>3, NotFoundCorrelated
  <2> QED BY <2>5, <2>6
<1>2. IInv => [\A d \in Live : tracks'[d] # Nil =>
                 \A t \in Tasks :
                     BoundNames(tracks[d], t) # BoundNames(tracks'[d], t)
                     => ~ReleaseUnresolvable(SessionOf[d], t)]_vars
  BY <1>1
<1> QED BY <1>2, Inductive, PTL DEF CorrelationOutlivesRelease

\* A count that rises is the count of the role that failed.
LEMMA FeedCounts ==
  ASSUME IInv, NEW d \in Decisions, NEW role, NEW ok \in BOOLEAN, NEW escalate \in BOOLEAN,
         Feed(d, role, ok, escalate),
         NEW s \in Sessions, NEW r \in Roles, circuit'[s][r] > circuit[s][r]
  PROVE  SessionOf[d] = s /\ role = r /\ ~ok
<1> DEFINE count == CASE ok -> 0
                      [] ~ok /\ escalate /\ circuit[SessionOf[d]][role] < CircuitThreshold ->
                            circuit[SessionOf[d]][role] + 1
                      [] OTHER -> circuit[SessionOf[d]][role]
<1>1. circuit' = [circuit EXCEPT ![SessionOf[d]][role] = count]
  BY DEF Feed
<1>2. circuit \in [Sessions -> [Keys -> 0..CircuitThreshold]] /\ r \in Keys
  BY DEF IInv, CircuitOK, Keys
<1>3. SessionOf[d] = s /\ role = r
  <2> HIDE DEF count
  <2>1. circuit[s][r] \in Nat
    BY <1>2, DecisionsAssumption DEF DecisionsAssumption
  <2> QED BY <1>1, <1>2, <2>1
<1>4. circuit'[s][r] = count
  <2> HIDE DEF count
  <2> QED BY <1>1, <1>2, <1>3
<1>5. circuit[s][r] \in Nat
  BY <1>2, DecisionsAssumption DEF DecisionsAssumption
<1> QED BY <1>3, <1>4, <1>5

\* A failed result is on the record of its stage.
LEMMA FailureRecorded ==
  ASSUME NEW tr \in Track, NEW k \in Keys, NEW composable \in BOOLEAN
  PROVE  /\ k \in Recorded(tr, k, FALSE, composable).failed
         /\ k \notin tr.completed =>
               \A t \in Tasks : k \in SettledRetrieval(tr, k, t, FALSE, composable).failed
<1>1. ASSUME NEW x \in Track, NEW reopen \in BOOLEAN
      PROVE  k \in ApplyStageResult(RepairResult(x, k, FALSE, composable), k, FALSE, reopen).failed
  <2>1. RepairResult(x, k, FALSE, composable) \in Track
    BY RepairResultSound DEF Sound
  <2> QED BY <2>1 DEF ApplyStageResult, Track
<1>2. [tr EXCEPT !.stageTasks[ActualRole(tr, k)] = Nil] \in Track
  BY DEF Track
<1>3. \A t \in Tasks : [tr EXCEPT !.notFound[k] = Nil,
                                 !.stageTasks[ActualRole(tr, k)] = Nil,
                                 !.terminalTasks[t] = Nil] \in Track
  BY DEF Track
<1> QED BY <1>1, <1>2, <1>3 DEF Recorded, SettledRetrieval

\* Only the failure of a stage that was still open is held against a role.
THEOREM OpenStagesCounted == Spec => CircuitCountsOpenStages
<1> DEFINE counted(s, r) == \E d \in SessionTracks(s) : \E k \in Keys :
                               /\ ActualRole(tracks[d], k) = r
                               /\ k \notin tracks[d].completed
                               /\ k \in tracks'[d].failed
<1>1. ASSUME IInv, Next, NEW s \in Sessions, NEW r \in Roles, circuit'[s][r] > circuit[s][r]
      PROVE  counted(s, r)
  <2>1. ASSUME NEW d \in Live, NEW k \in Keys, NEW tr,
               NEW ok \in BOOLEAN, NEW escalate \in BOOLEAN,
               k \notin tracks[d].completed, ~ok => k \in tr.failed,
               Put(d, tr), Feed(d, ActualRole(tracks[d], k), ok, escalate)
        PROVE  counted(s, r)
    <3>1. tracks[d] \in Track /\ d \in Decisions
      BY <1>1, LiveTrack
    <3>2. SessionOf[d] = s /\ ActualRole(tracks[d], k) = r /\ ~ok
      BY <1>1, <2>1, <3>1, FeedCounts
    <3>3. k \in tracks'[d].failed
      <4>1. tracks \in [Decisions -> Track \cup {Nil}]
        BY <1>1 DEF IInv, TracksOK
      <4> QED BY <2>1, <3>1, <3>2, <4>1 DEF Put
    <3> QED BY <2>1, <3>2, <3>3 DEF SessionTracks
  <2>2. CASE UNCHANGED circuit \/ \E z \in Sessions : PruneCircuits(z)
    <3>1. circuit \in [Sessions -> [Keys -> 0..CircuitThreshold]] /\ r \in Keys
      BY <1>1 DEF IInv, CircuitOK, Keys
    <3>2. circuit[s][r] \in Nat
      BY <3>1, DecisionsAssumption DEF DecisionsAssumption
    <3>3. circuit'[s][r] = circuit[s][r] \/ circuit'[s][r] = 0
      BY <2>2, <3>1 DEF PruneCircuits
    <3> QED BY <1>1, <3>2, <3>3
  <2>3. CASE \E ok \in BOOLEAN, escalate \in Escalations, composable \in Composable,
                d \in Decisions : \E k \in Reported(d) :
                   RecordStageResult(d, k, ok, escalate, composable)
    <3>1. PICK ok \in BOOLEAN, escalate \in Escalations, composable \in Composable,
               d \in Decisions : \E k \in Reported(d) :
                  RecordStageResult(d, k, ok, escalate, composable)
      BY <2>3
    <3>2. PICK k \in Reported(d) : RecordStageResult(d, k, ok, escalate, composable)
      BY <3>1
    <3>3. k \in Keys /\ d \in Live /\ escalate \in BOOLEAN /\ composable \in BOOLEAN
      BY <1>1, <3>2, NamedKeys, DecisionsAssumption DEF DecisionsAssumption, RecordStageResult
    <3>4. CASE ok /\ k \in tracks[d].completed
      <4>1. Feed(d, ActualRole(tracks[d], k), ok, escalate)
        BY <3>2, <3>4 DEF RecordStageResult
      <4>2. ~ok
        BY <1>1, <3>1, <3>3, <4>1, FeedCounts
      <4> QED BY <3>4, <4>2
    <3>5. CASE ~ok /\ k \in tracks[d].completed
      BY <2>2, <3>2, <3>5 DEF RecordStageResult
    <3>6. CASE k \notin tracks[d].completed
      <4>1. /\ Put(d, Recorded(tracks[d], k, ok, composable))
            /\ Feed(d, ActualRole(tracks[d], k), ok, escalate)
        BY <3>2, <3>6 DEF RecordStageResult, StageResult
      <4>2. ~ok => k \in Recorded(tracks[d], k, ok, composable).failed
        BY <1>1, <3>3, LiveTrack, FailureRecorded
      <4> QED BY <2>1, <3>3, <3>6, <4>1, <4>2
    <3> QED BY <3>4, <3>5, <3>6
  <2>4. CASE \E ok \in BOOLEAN, escalate \in Escalations, composable \in Composable,
                z \in Sessions, t \in Tasks : RecordRetrieval(z, t, ok, escalate, composable)
    <3>1. PICK ok \in BOOLEAN, escalate \in Escalations, composable \in Composable,
               z \in Sessions, t \in Tasks : RecordRetrieval(z, t, ok, escalate, composable)
      BY <2>4
    <3>2. PICK m \in Matches(z, t) :
             LET d == m[1]
                 k == m[2]
                 tr == tracks[d]
             IN  /\ k \in Keys
                 /\ \/ UNCHANGED circuit
                    \/ /\ k \notin tr.completed
                       /\ Put(d, SettledRetrieval(tr, k, t, ok, composable))
                       /\ Feed(d, ActualRole(tr, k), ok, escalate)
      BY <3>1 DEF RecordRetrieval
    <3>3. m[1] \in Live /\ escalate \in BOOLEAN /\ composable \in BOOLEAN
      BY <1>1, MatchedTracks, DecisionsAssumption DEF DecisionsAssumption
    <3>4. CASE UNCHANGED circuit
      BY <2>2, <3>4
    <3>5. CASE /\ m[2] \notin tracks[m[1]].completed
               /\ Put(m[1], SettledRetrieval(tracks[m[1]], m[2], t, ok, composable))
               /\ Feed(m[1], ActualRole(tracks[m[1]], m[2]), ok, escalate)
      <4>1. ~ok => m[2] \in SettledRetrieval(tracks[m[1]], m[2], t, ok, composable).failed
        BY <1>1, <3>2, <3>3, <3>5, LiveTrack, FailureRecorded
      <4> QED BY <2>1, <3>2, <3>3, <3>5, <4>1
    <3> QED BY <3>2, <3>4, <3>5
  <2>5. CASE \E ok \in BOOLEAN, escalate \in Escalations, composable \in Composable,
                d \in Decisions, z \in Roles \ {SentinelRole} :
                   \E W \in SUBSET (Decisions \ {d}) : RecordSessionDebtStage(d, z, W, ok, escalate, composable)
    <3>1. PICK ok \in BOOLEAN, escalate \in Escalations, composable \in Composable,
               d \in Decisions, z \in Roles, W \in SUBSET Decisions :
                  RecordSessionDebtStage(d, z, W, ok, escalate, composable)
      BY <2>5
    <3>2. PICK e \in Debts(d, W) : \E k \in OwedKeys(tracks[e], z) :
             /\ Put(e, Recorded(tracks[e], k, ok, composable))
             /\ Feed(e, ActualRole(tracks[e], k), ok, escalate)
      BY <3>1 DEF RecordSessionDebtStage
    <3>3. PICK k \in OwedKeys(tracks[e], z) :
             /\ Put(e, Recorded(tracks[e], k, ok, composable))
             /\ Feed(e, ActualRole(tracks[e], k), ok, escalate)
      BY <3>2
    <3>4. /\ e \in Live /\ tracks[e] \in Track
          /\ escalate \in BOOLEAN /\ composable \in BOOLEAN
      BY <1>1, DebtTracks, LiveTrack, DecisionsAssumption DEF DecisionsAssumption
    <3>5. k \in Keys /\ k \notin tracks[e].completed
      BY <3>4, OwedKeyType DEF OwedKeys, IncompleteMembers, IncompletePositions
    <3>6. ~ok => k \in Recorded(tracks[e], k, ok, composable).failed
      BY <3>4, <3>5, FailureRecorded
    <3> QED BY <2>1, <3>4, <3>5, <3>3, <3>6
  <2> QED BY <1>1, <2>2, <2>3, <2>4, <2>5
          DEF Next, EnsureExecution, Prune, AllocateParallelMember, RecordRequested,
              BindParallelMember, BindLinearStage, BindTerminal, BindVerify, RecordVerify,
              StopBlock, BindDebtStage, BindDebtVerify, RecordVerifyFanout,
              RecordReviewInconclusive, ReleaseUnresolvable, RecordVerifyRetrieval
<1>2. IInv /\ [Next]_vars =>
         [\A s \in Sessions : \A r \in Roles : circuit'[s][r] > circuit[s][r] =>
              \E d \in SessionTracks(s) : \E k \in Keys :
                  /\ ActualRole(tracks[d], k) = r
                  /\ k \notin tracks[d].completed
                  /\ k \in tracks'[d].failed]_vars
  BY <1>1
<1> QED BY <1>2, Inductive, PTL DEF Spec, CircuitCountsOpenStages
=============================================================================

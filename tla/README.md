# A model of the Grok Build execution harness

`grokbuild` routes prompts of a coding assistant (the *conductor*) to a pipeline
of child agents and holds the conductor to that pipeline with hooks: short-lived
processes that the assistant starts before and after every tool call, at each
prompt and at the end of each turn. All they share is files. The pipeline of a
prompt is its *decision*; how far it has got is the decision's *execution
track* in `state.json`. This directory models the harness as TLA+ modules, checks
them with TLC and proves parts of them with TLAPS.

## Inventory

| Component (source under `src/grokbuild`) | State | Operations | Talks to | What makes it correct | Modules |
| --- | --- | --- | --- | --- | --- |
| Execution track (`state.py`, `decision.py`) | stages, progress lists, task bindings, repair counts, Stop blocks | queries: what is due, what is unfinished | everybody reads it | the queries agree with one another | ExecutionTrack |
| Transactions (`transactions.py`) | `state.json` under one lock | the `*_tx` functions, turn allocation | gate, hook, settlement call it | one child per stage and one stage per child; finished stays finished; late and duplicate reports are harmless | TrackUpdates, Transactions, TurnBook |
| Gate (`gate.py`), hook (`hook.py`), shell guard (`shell_guard.py`) | a snapshot of the state file | PreToolUse, Stop, UserPromptSubmit | read a snapshot, then run transactions | only what is due is admitted; parallel spawns take different members; the conductor writes nothing; the hold is never total | HookFlow, StopGate, PreTool |
| Settlement (`settlement.py`) | none of its own | PostToolUse, PostToolUseFailure, the Stop sweep | payload parser, transactions, sidecars | a report settles the stage it is about, at most once | HookFlow, StrictEvidence, TaskVerify |
| Session circuits (`state.py`, `cli.py`) | failures per session and role, cooldowns, quotas | `mark_failure`, `mark_success`, expiry, `state set` | fed by settlement, read by routing | only consecutive failures of open stages count; an open circuit stays open for its cooldown; the operator's word stands | Transactions, RoleHealth |
| Composition (`compose.py`) | none | plans from route and registry; the consilium | pipeline, transactions | barriers are cross-provider; writing is reviewed or verified | Composition, TrackUpdates |
| State store (`persist.py`, `state.py`) | files, lock files, temporaries, the decision history | read-modify-replace, quarantine, migration, append | under every component | no lost update, no loss of a good file | StateStore |
| Route and visual caches (`cache.py`, `visual_cache.py`) | bounded expiring maps | get, put, evict | hook | bounded, never stale past the TTL | RouteCache, VisualCache |
| Remediation (`remediation.py`) | append-only log with generations | open, attempt, stop, compact | transactions, Stop | an obligation holds Stop until paid or spent | Remediation, StopGate |
| Availability (`availability.py`, `endpoint_resolution.py`, `discovery.py`) | provider holds, quota signals | walk, hold, refresh, reserve | pipeline, settlement, hook | a held provider is not chosen; one reserve per stage | Availability |
| Routing (`pipeline.py`, `policy.py`, `roles.py`, ...) | the recorded route | score, select, compose, check, record | hook | ceilings and independence of reviews hold whatever is down | Routing |
| Task evidence (`task_evidence.py`, `task_verify.py`) | sidecar and archive of contracts | attach, find, observe, verify | settlement | a strict stage is never settled on prose | Contracts, StrictEvidence, TaskVerify |
| Artifact selection, dormant (`artifact_judge.py`, `deterministic_gate.py`, `selector.py`, ...) | none | pure functions | nobody at run time | hard checks outrank opinions | Selection |
| Corpus synchronisation (`corpus_sync.py`) | staging, corpus, watermarks, rejections | harvest, imports, merge, edits | the rotating route log | every record once, judged work is never lost | CorpusSync |
| Parsing (`payloads.py`, `transcript.py`, `verifiers.py`), visual intake, the rest of the operator tools, benchmarks | — | text to facts; request and response | hook, settlement | — | not modelled |

The behaviour that is hard, and hard to test, comes from three facts: a hook
decides on what it read *without* the lock and then runs several locked
transactions; what is reported about a child arrives late, twice, never, or after
somebody else has been given its stage; and a hook may be killed between any two
of its file operations. `PROJECT.json` lists the hazards one by one with the line
where each bites and the property that answers it.

## The modules

    ExecutionTrack            the data of one track and the queries over it
      TrackUpdates            what one transaction does to one track
        Transactions          every *_tx function as an action
          TransactionsProofs  types, bound members, circuits (proved)
            ProgressProofs    what is finished stays finished, bindings (proved)
          HookFlow            the order in which a hook process runs them; implements Transactions
            HookProofs        that implementation, and what follows from it (proved)
          StrictEvidence      the judgement of results before they are settled
            StrictProofs      only evidence completes a strict stage (proved)
    TurnBook                  which turn an event belongs to
    StateRegister             an atomic register with a history (abstract)
      StateStore              the state file and its lock; implements StateRegister
    BoundedCache              a bounded expiring map (abstract)
      RouteCache, VisualCache both implement it
        StorageProofs         the three refinements, merges (proved, with CorpusSync)
    Remediation               the log of debts
      StopGate                handle_stop among the other hooks
    RoleHealth                circuits, quotas and the operator
    Availability              endpoints, quota signals, holds, the reserve
    Composition               from route and registry to stages
      Routing                 the pipeline and the gates of a session
        RoutingProofs         placement of a child, the gate at Stop (proved, with Availability)
    PreTool                   the verdict on a tool call
      SessionProofs           turns, circuits and verdicts (proved)
    Contracts                 the sidecar of contracts
    TaskVerify                when a typed result counts as evidence
      TaskVerifyProofs        what a verified result rests on (proved)
    Selection                 gate, judge and selectors over candidates
    CorpusSync                the corpus workflow

The modules whose names begin with MC give the constants that are no plain
values; the other constants are in the `.cfg` files.

### The track and its transactions

**ExecutionTrack** has no variables. A track is a record with the fields of the
class `ExecutionTrack`; the queries keep their names
(`NextRequiredBarrierOrRole`, `NextVerifyStep`, `AllRequiredCompleted`, ...). A
stage has a kind, a slot (the part of the pipeline it plays), a required flag
and its keys: a linear stage has one key, its role; the members of a barrier
have keys of their own; a verify step is a name of its own kind.

**TrackUpdates** holds the core of the transactions as operators from track to
track: `Reconcile` (carrying evidence over to a recomposed plan), `RepairResult`
(counting failures up to the consilium), `ApplyStageResult`, `NotFound` (the
two-lookup release), `Discharged` (the inconclusive review), the allocation and
binding of members, the claims on debt.

**Transactions** makes every `*_tx` function an action on `tracks` (the
`executions` of the state file) and `circuit` (the failure counts of
`session_circuits`). Each action is atomic because each function takes the lock,
reads, mutates and replaces the file before it lets go. Who calls which
transaction next is left open, with any argument a hook can pass: a child may be
acknowledged twice, a stage reported failed after it completed, a lookup lost,
a plan recomposed between any two steps. Because the hook may have read an older
plan, it may name a stage of any plan of the decision (`Asked`, `Reported`,
`StepsOf`).

**HookFlow** says in which order one hook process runs the transactions and what
it read beforehand. A process that has admitted a spawn still has to reserve a
member (one step) and record the request (another); an acknowledgement first
tries the barrier members and then the linear stages; a failure looks its stage
up in one step and settles it in the next; the verifier is admitted by one
process and judged by another. Every pair of processes interleaves at these
points, and with `Mortal` a process may end at any of them. `TransactionLayer`
says that `HookSpec` implements the `Spec` of Transactions.

**StrictEvidence** adds to Transactions one hook that judges a result: it reads
the track and the policy a child is bound under, decides whether the result
completes the stage, and runs the transaction later, which resolves the child
again. **TaskVerify** is what that judgement consists of for one typed result,
**Contracts** how the contracts it looks up are stored. **TurnBook** is the
allocation of turns by the submit event and by the transcript, which tells the
hooks of a session which track to work on.

| Code | Model |
| --- | --- |
| `handle_pre_tool`, spawn branch | HookFlow `AdmitSpawn`, `Allocate`, `GrantSpawn`, `UngatedSpawn`; the verdict on every other call: PreTool |
| `handle_pre_tool`, exact verifier | HookFlow `AdmitVerifier` |
| `handle_post_tool`, acknowledgement | HookFlow `StartAcknowledge`, `AcknowledgeMember`, `AcknowledgeLinear` |
| `handle_post_tool`, foreground result | HookFlow `StartForegroundResult`, `Settle`; its judgement: StrictEvidence |
| `handle_post_tool`, retrieval and the Stop sweep | HookFlow `Retrieve` (that is, `Answer`); its judgement: StrictEvidence |
| `handle_post_tool`, verifier result | HookFlow `ReadVerdict`, `RecordVerdict` |
| `handle_post_tool_failure` | HookFlow `StartFailure`, `Fail` |
| `handle_stop` | HookFlow `EndTurn`; every read and transaction on its own: StopGate |
| `_ensure_track`, `allocate_turn`, `ensure_turn` | HookFlow `EnsureTrack`; the turn itself: TurnBook |
| `atomic_update_json`, `load_state`, `append_jsonl` | StateStore, one action per file operation |
| `mark_failure`, `mark_success`, `state set`, `prune` | RoleHealth |
| `_model_endpoint_availability`, `persist_endpoint_resolution`, `_reactive_failover`, `models sync` | Availability |
| `attach_task_spec`, `find_task_spec` | Contracts; `verify_task_result`, `observe`: TaskVerify |
| `Pipeline.run`, `compose_execution`, the gates | Routing over Composition |
| `record_remediation_attempt`, `record_remediation_stop`, compaction, rotation | Remediation |
| `harvest`, `import-history`, `import-git`, `merge` | CorpusSync |

### Abstractions

- Lists whose order no decision depends on are sets. Time stamps of tracks are
  left out: where the code takes the oldest request or the newest track, any may
  be it; where it asks whether a track is inside the debt window, a set of tracks
  that are is chosen at the transaction. Expiry of tracks may happen at any time.
  Where time decides (circuits, caches, holds, the debt log) a module has a clock
  of whole ticks.
- The stages of a track are the composed plan followed by at most one stage
  added at run time, the consilium or its unavailability sentinel: the only
  place the code adds one. Keys are unique in a plan and a plan has one stage per
  slot and kind (`WellFormedPlans`), as in the 70 recorded workloads of
  `grokbuild/fixtures/workloads.json`; the run `routing` checks it of the plans
  that are composed (`PartsDistinct`).
- Counters saturate where their value no longer matters (`repairFailures` at
  `RepairThreshold`, `circuit` at `CircuitThreshold`). A not-found streak is the
  id of the child it is about: its count is one whenever it is kept at all.
- The success of a result, whether a failure counts against its role, whether a
  consilium can be composed, and whether a reviewer's report is inconclusive are
  inputs, chosen freely; so are the opinions of judges, the answers of quota
  endpoints, and what an operator does.
- A prompt is the set of features the classifier finds in it; a path is its
  segments; a shell command is a sequence of segments of five kinds; a file is
  its parsed content and whether it parses.
- HookFlow follows one decision without jobs and without expiry; its route is
  edit-gated throughout. A denial changes nothing and is no step. The gate's two
  readings before a spawn is admitted are one step (see `AdmitSpawn`). The debt of
  other decisions and background commands are in Transactions, but for a
  background command that stands for two verify steps of one track.
- Log lines are written whole, and the renames of one rotation are one step,
  except where the readers' view of them is the question (Contracts, Remediation,
  CorpusSync); a torn last line of the route log is left out.

## What the runs check

Every run explores all behaviours of a small instance. Components that share no
variable are put into one run: a behaviour plays one *scene*, that is, one of
the components (or one instance of it) from its first state to its last, while
the others rest in a first state. The scenes of a run are named in its `.cfg`
and defined in its MC module; the constants are in the `.cfg`.

| Run | Scenes and bounds | Properties and what they show |
| --- | --- | --- |
| `barrier` | `race`: two children of one role, a barrier of two members; `panel`: a review panel of two roles, with an inconclusive review | `TypeOK`; `OneStagePerChild`: no child holds two stages; `SettledStagesStay`, `FinishedStagesStay`: no late report and no re-derived plan reopens what is finished; `StaleChildInert`: a superseded child settles nothing; `CircuitCountsOpenStages` |
| `repair` | `repair`: an implementation stage and its verifier, two plans, consilium at the second failure, composable or not; `command`: a background command stands for the stage or its verifier | `SettledNeedsNoRepair`: a success clears the repair count on all four settlement paths; `RecompositionKeepsProgress`; `BindingEndsBySettling`: no member changes hands |
| `owing` | `owing`: two turns owe the same verifier; `debt`: a child may settle a stage of either turn | `BoundMembersRequested`; `CorrelationOutlivesRelease`: a released stage still recognises its first child |
| `strict` | `one strict`: one of two turns is strict and results are retrieved; `both strict`: also results without an id; `overtaken`: with one child at a time, the other hooks run between a judgement and its transaction | `OnlyEvidenceCompletes`: a strict stage completes on confirmed evidence for that very stage, but for a child that came to stand for it after its result was judged |
| `strict_overtaken` | the scene `overtaken` alone | `StrictNeedsEvidence`, which makes no exception, is **violated** |
| `hook_barrier` | two overlapping hook processes that may be killed, two children, a barrier of two | `DistinctShards`: parallel spawns take different members; `MembersReclaimable`: a killed hook loses no member |
| `hook_repair` | the same over a stage that is repaired and verified, or escalated | `TransactionLayer`: the hooks implement Transactions |
| `early_verdict` | an implementation and its verifier, with a review that is required in one of two plans; two hooks | `VerifyAfterStages`, no verdict overtakes a required stage, is **violated** |
| `wedge` | implementation, verifier, consilium at the first failure | `NotWedged` is **violated** |
| `session` | `turns`: three hooks, two prompts that may repeat, a late event; `long turns`: two hooks, three prompts, a lost submit event; `mute turns`: also a submit without its prompt and an expiry; `circuits`: two sessions, two roles, threshold two, six ticks; `calls`: every tool, commands of up to two segments, truncated or not, four kinds of failure, a track that moves; `debts`: two debts, rotation and compaction, one killed process; `stop`: two turns and a debt; `killed stop` | `DecisionsFollowPrompts`, `CounterNeverDecreases` (TurnBook); `OpensOnlyAfterThreshold`, `OpenCircuitHolds` (RoleHealth); `ConductorZeroWrite`, `AllowedAtSomeMoment` (PreTool); `LogKeepsDebts`: no compaction, rotation or prune forgets a debt beyond one per kill, and the log is bounded (Remediation); `HoldsAreBounded`, `DebtsAreHeld`, `TurnsEnd` (StopGate) |
| `files` | `store`: two writers, a loader, a replayer, one kill, one damage; `contracts`, `killed contracts`: up to four contracts over a stream of one line; `verify`: two files that may be moved, three scopes, one check; `route cache`: three puts, one entry more than fits, events of two sessions and of none; `visual cache`: one entry more than fits; `harvest`: five records over three log files, rotated at any moment; `rejections`, `merges`: two records, one crash | `ImplementsRegister`, `GoodFileStays`, `HistoryKept` (StateStore); `ContractsStand`; `VerifiedOnEvidence`; `RoutesServed`, `VisualsBounded`: both caches implement BoundedCache; `HarvestExact`, `JudgedWorkStays` (CorpusSync) |
| `routing` | `routes`, `rebind`, `security`, `reading`, `session`: all roles, of which up to five are in trouble, one or two turns; `reserve`, `holds`: two endpoints of two accounts, two processes, a sync whose fetches may fail, spawns with and without a walk; `evidence`, `judging`, `rereads`, `consensus`: fields of two, three and five candidates | `EnforcedRoutesSafe`, `HeldAsDecided` (Routing); `OneReserve`, `SpawnsWellPlaced` (Availability); `SelectionSound` (Selection) |

A property that is a conjunction names its parts, each with its own comment; the
run checks all of them.

Why these bounds are enough: a binding conflict needs two children and one
member, or two members and one child; a stale snapshot needs one process that
reads and one that writes; recomposition needs two plans; debt needs two
decisions; a rotation that overtakes a reader needs as many generations as the
reader opens files; an eviction needs one entry more than fits. A third child or
member repeats what the second does, since allocation and binding look at one
member at a time, first free first. Thresholds of one and two separate "the
failure that convenes the consilium" (or opens the circuit) from "a failure
before it". What the bounds cannot show for every instance is what the theorems
are for.

Each property is paired with a mistake in one definition that breaks it (the
operators introduced by "Mistake:"), such as a reservation taken from the
snapshot instead of under the lock (`AllocateFromSnapshot`), a binding that
forgets to look at parked ids (`MemberBoundTwice`), a late failure that reopens
its stage (`StageResultReopening`), or staging that is cleaned before the corpus
is written (`MergeStagingFirst`).

### Fairness

Only the Stop hook is assumed to be fair (`WF_gateVars(StopStep)` in
`FairGateSpec`): a process the host has started runs to its end unless it is
killed, because it waits for nothing but file locks, which are held for one
read-modify-replace. `TurnsEnd` follows: a conductor that keeps ending its turn
gets through, whatever is denied, settled or reset meanwhile. Nothing else is
fair: the other steps are the conductor's, a language model that may stop
spawning, looking up or ending turns at any time, the operator's or the host's,
and no scheduling of this code obliges them. What the code promises instead is
that nothing bad follows, and that is safety.

### Disagreements

Three have a run of their own and are listed under "findings" with their traces'
meaning.

- `wedge`: once the consilium is appended behind an unverified `verify/0`, the
  gate looks at the first unfinished stage in composition order, finds a verifier
  and admits no spawn (`gate.py:308`), while `next_verify_step` puts outstanding
  barriers first and admits no verifier (`state.py:619`). Neither the consilium's
  members nor the verifier is admitted until the track expires; reading still is,
  and Stop gives way once its blocks are spent.
- `early_verdict`: the hook that gets a verifier's result reads that its step is
  due and records the verdict in a transaction that does not look again
  (`settlement.py:1178`). A route derived again in between may bring a review
  back as a required stage, and the verdict is recorded ahead of it, although
  "verification cannot run ahead of any unfinished spawn/barrier"
  (`state.py:618`).
- `strict_overtaken`: `_evidence_seam` answers the plain status for a child no
  stage is bound to yet, and the transaction resolves the child again: bound in
  between, it completes a strict stage without evidence (`settlement.py:473`).

The others were met while modelling. The modules contain the behaviour, and the
properties are stated so that they hold with it; each line gives the code and
what a text of the repository says.

| Code | What happens | What is said |
| --- | --- | --- |
| `settlement.py:1258` | a failed spawn of a role that owes no stage counts as repair failures of "a stage" of that name and may convene the consilium on a finished track | `docs/grok-build.md:55`: failures "in one repair stage" |
| `settlement.py:985` | a foreground result judged under the current decision may complete a strict stage of an earlier one | `task_evidence.py:421` |
| `transactions.py:326`, `:328` | a prompt repeated in a new turn is taken for the same submit and gets the turn before it; a submit without prompt may give one prompt two turns | `transcript.py:328`: "never collides with the previous turn's executor track"; `transactions.py:316` |
| `state.py:943` | without a session id a result writes the role's global entry | `state.py:685`: global availability is the operator's |
| `state.py:914` | a circuit is dropped with its expired turn however young it is | `state.py:915`: "they need their own clock" |
| `hook.py:719` | a terminal command that the host has cut is judged by the part that is shown; only `monitor` is asked whether it is whole (`hook.py:560`) | `README.md:30`: the zero-write deny "applies in every mode" |
| `hook.py:402`, `:423` | when no endpoint is usable the walk's verdict is dropped and the spawn is let through on its declared default, held or not; in static mode, or with the gate lifted, there is no walk at all | `hook.py:599`: the binding is there lest a spawn "lands on the default endpoint and a held provider is hit again" |
| `cache.py:127` | the newest record, if it names no session, is served to every session (to observe and in shadow mode only, `hook.py:261`) | `cache.py:126`: "session-scoped with TTL" |
| `shell_guard.py:441` | only the first word decides whether a chain maps the repository | `docs/grok-build.md:105` |
| `hook.py:1092` | an exception in the handler leaves no record | `docs/grok-build.md:124`: one per event |
| `remediation.py:303` | a second success of the same stage and decision does not settle a debt that was opened again | `docs/design/OPS-REMEDIATION-persistence.md:50` |
| `cache.py:88` | the file holds MAX_ENTRIES + 1 entries | `docs/architecture.md:112`: at most 50 |
| `availability.py:177` | a quota signal fetched before the 429 lifts the hold | `settlement.py:624` |
| `discovery.py:405` | a failing sync writes its copy over a snapshot stored meanwhile | `discovery.py:395` |
| `compose.py:559` | an implementation asks for reconnaissance whether or not the role is available | `grokbuild/README.md:171` |
| `pipeline.py:1284` | an escalated security route is gated without an available verifier | `grokbuild/README.md:120` |
| `state.py:787` | the unfinished track of a phrase-only security prompt is debt of the next turn | `grokbuild/README.md:173` |
| `gate.py:582` | a high-risk route without an implementer says it blocks Stop and does not | `tests/test_state_machine.py:1119` |
| `task_evidence.py:271`, `:293` | a contract whose second append did not happen is dropped by the rotation; a reader without the lock misses one | `task_evidence.py:12` |
| `settlement.py:440`, `:437`, `task_verify.py:200` | changes beyond MAX_ITEMS are not compared; an unreadable worktree is an empty one; a result that claims nothing may pass | `settlement.py:421`, `:422`, `task_verify.py:169` |
| `settlement.py:443` | of a file that git lists as moved only the new place is compared: a file from outside the scope may vanish into it undeclared | `settlement.py:419`: "the worktree paths the runtime itself sees as changed" |
| `corpus_sync.py:501`, `:534`, `:538`, `:606`, `:835` | a harvest looks for the watermark's file and the newest only, and names a file that it opens later: two rotations between harvests, one before the first, or one during a harvest skip records; a harvest forgets the import marks; an eviction within one run is not recorded | `tests/test_corpus_sync.py:265`: "exactly once"; `skills/corpus-sync/SKILL.md` |
| `artifact_judge.py:570`, `:614`, `selector.py:179` | a reread is a vote, so a judge of one bias may decide; `hard_precedence` is never asked; the winner was compared with the leader of the moment only | `artifact_judge.py:18`, `:14`, `selector.py:195` |

## What is proved

The eight modules with theorems are checked by TLAPS to the last leaf. A theorem
holds for every value of the constants that satisfies the named assumptions of
its module: any number of roles, members, children, sessions, plans, processes.
`PROJECT.json` lists 36 theorems; most state a property that a run checks, so
the run shows it on an instance and the theorem for all. Each is proved from an
inductive invariant, named below, because the property alone says too little
about the state a step starts from.

**TransactionsProofs** (of Transactions, after the lemmas about each update of
TrackUpdates). `TypeCorrect` and `BoundMembersCorrect` come from one invariant,
`IInv`, which is types together with "bound members are requested": the type of
an update needs the names on the track, and that a bound member stays requested
needs the types. Every update is shown to be `Sound` (a track again, bound
members requested); the weight is carried by `Reconcile`, which renames what was
recorded. `ReleaseKeepsCorrelation` and `OpenStagesCounted` are action
properties from the same invariant. Assumed: `KeysAssumption` and
`DecisionsAssumption`, that is, the sorts of the constants.

**ProgressProofs.** `CompletedStagesStay`, `CompletedOweNoRepair`,
`FinishedStaysFinished` and `RecompositionKeepsEvidence`: what is finished stays
finished, and a recomposition moves each record to the new name of its part and
invents none. The argument: a transaction moves a track in one of few ways
(`Moves`), and every way but a recomposition advances it (`Advances`). The
invariant `ProgressInv` says that the plan of a track is one of the decision's,
that nothing completed counts repair failures, that a waived member is an
inconclusive one, and that the unavailability sentinel is never requested,
completed or bound (`SentinelIdle`; otherwise reconciliation could hand its
record to the consilium).
Hypothesis: `WellFormedPlans`, that no two stages of a plan share a key, or slot
and kind. The code relies on it and says so: two such stages "make
reconciliation ambiguous and drop their recorded progress" (`state.py:295`).
That the pipeline composes such plans is `PartsDistinct`, which the run `routing`
checks over every composed route; the exception it names is a configuration in
which `security-verify` is a fallback of `security`. The MC modules assume it of
their own plans, and TLC evaluates that.

The same module proves three properties of the bindings between children and
stages: `OneStageProved`, `BindingsEndBySettling` and `StaleChildProved`. What is
correlated with a child (a member, a linear stage, a parked name) lives in five
fields of the track, and a stage and a barrier member may be filled by the same
role, so "at most one" is not inductive by itself. The invariant `Correlated`
says in addition what each name stands for: every name a child is bound to is a
part of the plan that the role of *this* child plays (`StandsFor`), members are
bound as members and roles as linear stages, and no child is bound as a verifier
(`BoundKinds`). Each update falls under one of three descriptions: it leaves the
bindings alone or drops some (`Steady`), it settles or releases one stage and
leaves every other as it was (`Touches`), or it binds a child that is bound to
nothing. Recomposition is the hard case, because `Reconcile` renames: that two
bound names cannot be moved to one child again needs that they stand for its
role.
Hypothesis: `WellFormedPlans` and `RolesKeepParts`, that a role which is the
linear stage of a part in one plan plays that part in every plan the decision
may get. The code justifies it: `_canonical_stage_slot` (`state.py:282`) derives
the slot from the name of the role, a panel and a linear review never occur
together (`compose.py`), and the roles of a consilium are the roles of nothing
else. Within one plan it is part of `PartsDistinct`, checked by the run
`routing`. TLC evaluates it for the scenes `race`, `panel`, `repair` and
`command`; the scenes of the run `owing` go beyond it, a role being linear in one
plan and a member in another, and state nothing about bindings.

**HookProofs.** `HooksImplement`: however the hook processes overlap, whatever
they had read and wherever they are killed, they change the state file by whole
transactions, each with arguments Transactions allows. The refinement mapping is
the identity on `tracks` and `circuit`. The invariant `HookInv` adds to the two
above what a hook between two steps carries: a stage it may still ask for, report
on or verify. This is the stale-snapshot question, and it holds because the set
of names is not that of the present track (a key that was read may be gone after a
recomposition, and the transaction then ignores or files it) but that of all
plans of the decision and the consilium once convened (`NamesStay`).
`HooksKeepProgress` draws the consequence: what ProgressProofs and
TransactionsProofs say of Transactions holds of the hooks. Same hypothesis.
`ShardsAreDistinct` is about two hooks at once: the second is not handed the
member the first has reserved. Its invariant, `ReservedInv`, says that the member a hook
was given is marked on the track (requested, failed, completed or inconclusive)
until the hook asks for it, although other hooks settle, repair and recompose in
between; each update is shown to keep the marks (`MarksStay`). It has one more
hypothesis, `BarriersStand`: the plans of the turn agree on their barriers. A
recomposition that drops a barrier and a second that brings it back lose its
reservations, in the model as in the code, so the statement without it is false.
The runs' plans satisfy it, and TLC evaluates that too.
`MembersAreReclaimable` is about lost acknowledgements: a pending member of the
barrier that is due is bound to a child that was started, or can be reserved
again. Its invariant `StaffInv` says that who is bound, or about to be bound by
a hook, was started; and where no child is bound, one of the allocation's
candidates is left (`AllocatedKey` falls back to a requested member without a
child). `HooksKeepBindings` carries the three properties of bindings over to the
hooks, under `RolesKeepParts`.

**StrictProofs.** `OnlyEvidenceProved`: a strict stage completes only on evidence
for that very stage, for any turns, children and plans, and whatever other hooks
do between a judgement and its transaction. `JudgedInv` says what a judgement
that waits was made of: the stage the child stood for then, and that the result
counts only with evidence for it where the policy is strict. Beside it, the
proof shows of each transaction which stages it can complete (`Gained`): a
settlement that of its own stage, anything else none. What remains are the two
exceptions the property names: a retrieved child that came to stand for the
stage after its result was judged (the run `strict_overtaken` shows it happens),
and a result without a task id that settles the debt of another turn, which is
judged by the policy of its own turn (see the table above). Hypothesis:
`WellFormedPlans`.

**SessionProofs.** Of TurnBook: `TurnsTyped`, `CounterGrows`, and
`DecisionsFollowProved`, for prompts that may repeat and events that outlive
their turn. An event carries the prompt in whose turn it began (`of`), which the
code never reads; the invariant `OneInv` says how the counter, the stored
fingerprint and what an event has read relate to it (`CounterOK`, `EventOK`). Of
RoleHealth: `CircuitsOpenInTime` without a hypothesis, and `OpenCircuitsHold` for
a cooldown no longer than `TURN_TTL`: the code has 300 seconds against 24 hours,
and drops a circuit with its expired turn otherwise. Of PreTool: `ZeroWriteProved`
and `AllowedProved`, for commands of any length: among the segments that are not
read-only there is a first one, and the guard judges it. A command is what was
typed and what the payload shows of it; of a terminal command the host has cut
the first theorem speaks of the part that is shown, because the code looks at no
more. The second is about the two readings of the track in one call: whatever
moved in between, the whole rule permitted the call at one moment of it.

**TaskVerifyProofs.** `ChecksRan`, `EvidenceSeen` and `ScopeKept`, and their
conjunction `EvidenceRests`, for every worktree, contract, result and set of
checks (`WorktreeAssumption`: the canonical form of a canonical path is itself).
The scope part speaks of at most `MaxItems` changes, because the code reads no
more of them, and names what it is silent about: the former place of a moved
file, of which git's line shows the new one only (`Listed`).

**StorageProofs.** `StoreImplementsRegister`: the file protocol (lock file,
temporary, replace, quarantine and recovery under the lock) implements the
register of StateRegister, step by step. `StoreInv` says who holds the lock,
that what the holder has read is still what a good file holds, and what each
temporary is about to put in its place.
`GoodFileStaysProved` follows from the same invariant.
`RoutesServedProved` and `VisualsBoundedProved`: both caches
implement BoundedCache under refinement mappings that show only what is alive,
and the two lookups of routes agree (`LookupsAgree`: the newest record is served
to its session, or to all when it names none);
the heart is that evicting down to a limit what is sorted by age keeps
min(limit, all) entries and those the youngest. The bounds of the two differ by
one, as the code does.
`MergesLoseNothing` is the half of `JudgedWorkStays` about merges: the corpus is
replaced before the staging file is, so a merge that dies in between has every
judged case in the corpus (`MergeInv`).

**RoutingProofs.** Of Availability: `OneReserveProved` and `PlacedOnEvidence`,
from `AvailInv`, which says what a process between two steps may rely on. While
it walks, every hold older than its request and still in force is in its own
copy, and no endpoint found clean or merely stale is held in that copy: a walk
forgets a hold only by lifting it, and others only lift holds or set younger ones
(`Gentle`). So a walk puts a child on an account it knows to be held only when it
found nothing usable and left the child on the declared default, as the code
does; and that it looked at every endpoint before it did, or before it took a
stale signal, is `BoundOnEvidence`. A process about to renew the reserve names the pair of accounts the
stage has. That a walk that found nothing looked at every endpoint needs `CyclicWalk`: from any
start index, as many steps as there are endpoints visit each. Assumed:
`EndpointsAssumption`, that the list is not empty, that the start index is one
of the list (`availability.py:153` takes it modulo the length) and that `"none"`
names no endpoint. Of Routing: `HeldAsDecidedProved`. Its invariant `RunInv` says
that the recorded run is the one a hook computes from the same words, registry
and health as long as none of these has changed, and that a turn owes stages only
if its run requires some; `DecidedAlike` and `ComposedAlike` say of what a run is
composed and decided, and of nothing else. Assumed: `RoutingAssumption`.

### Only model-checked

- `HistoryKept` needs an embedded history no longer than the lines a rotation
  keeps (the code: 200 against 400); beyond that a kill between cutting the log
  and marking the migration loses lines.
- `LogKeepsDebts`, `HoldsAreBounded`, `DebtsAreHeld`, `ContractsStand`,
  `HarvestExact` and the rest of `JudgedWorkStays` are about what is left after reading or
  folding lists of any length, `EnforcedRoutesSafe` about a plan filtered stage
  by stage, `SelectionSound` about a ranking: that is induction over data, which
  the installed provers cannot instantiate.
- `TurnsEnd` is liveness under fairness.

## What is not modelled

`PROJECT.json` lists every component with its status and the reason. Left out for
good: parsing of payloads and transcripts, rendering, reporting, telemetry
wording, visual intake (request and response with a service), benchmarks and
evaluation harnesses. Of the components called "partly" it says what is missing.

------------------------------ MODULE Routing ------------------------------
(***************************************************************************)
(* The routing pipeline (pipeline.py, policy.py): a prompt is scored, a    *)
(* role is selected from a copy of the runtime state, the stages are       *)
(* composed, checked and recorded, and the hooks later decide from the     *)
(* recorded route whether edits and the end of the turn are held.          *)
(*                                                                         *)
(* The pipeline loads the registry when it starts and compose_execution    *)
(* loads it again, so a change of the configuration may fall between.      *)
(* Words are abstracted to what the scorer finds in them; a score of a     *)
(* candidate to a choice among those it may prefer.                        *)
(***************************************************************************)
EXTENDS Composition

CONSTANTS
    Prompts,     \* what the scorer finds in the prompts of the users
    Profiles, Modes, Registries,
    Healths,     \* states of the roles: a set of functions on Roles
    Workspaces,  \* numbers of verifier commands a workspace configures
    Turns,       \* bound: turns of the session
    Changes      \* bound: changes of the configuration or of the roles' health

VARIABLES
    registry,    \* the configuration on disk
    health,      \* runtime state of the roles, and whether it is stale
    stale,
    route,       \* the pipeline run of the turn
    track,       \* per turn, the stages recorded for it and how it was decided
    held,        \* the turn whose stages the last Stop was held for; 0: none,
                 \* -1: no Stop in this turn
    changes      \* changes so far

routingVars == <<registry, health, stale, route, track, held, changes>>

Roles == IMPLEMENT_STAGES \cup SECURITY_STAGES \cup REVIEW_STAGES
         \cup {"explore", "explore-thorough", "explore-risk", "plan-hard", "researcher",
               "researcher-analyst", "researcher-challenger", "planner-a", "planner-b",
               "planner-c", "planner-strong", "plan-comparator", "verifier-planner"}

\* roles whose provider must have said that it is available
SignalRoles == {"review-independent", "expert-rescue", "security-verify", "researcher-challenger"}

\* The health of a role: in order; near its quota; failed lately, circuit
\* closed; circuit open; switched off by the operator; its provider held.
Conditions == {"up", "pressured", "failing", "open", "off", "held"}

ASSUME RoutingAssumption == Healths \subseteq [Roles -> Conditions]

NotRouting == [at |-> "idle"]

RoutingInit ==
    /\ registry \in Registries
    /\ health \in Healths
    /\ stale \in BOOLEAN
    /\ route = NotRouting
    /\ track = <<>>
    /\ held = -1
    /\ changes = 0

-----------------------------------------------------------------------------
(* Availability, as a pipeline sees it: p is its run *)

\* A static pipeline works on an empty state; a stale one believes only the
\* providers, and no role that needs a signal.
Seen(p, r) == IF p.mode = "static" THEN "up" ELSE p.health[r]

role_available(p, r) ==
    IF r \in SignalRoles
    THEN p.mode # "static" /\ ~p.stale /\ Seen(p, r) \in {"up", "pressured", "failing"}
    ELSE Seen(p, r) \in {"up", "pressured", "failing"} \cup (IF p.stale THEN {"open", "off"} ELSE {})

usable(p, r) == role_available(p, r) /\ Seen(p, r) \in {"up", "off"}

Rank == [low |-> 0, medium |-> 1, high |-> 2]
risk_ceiling_allows(p, r, risk) == Rank[risk] <= Rank[p.registry.ceiling[r]]

-----------------------------------------------------------------------------
(* Scoring *)

Priority == <<"security", "implement", "review", "plan", "explore", "research">>
FirstOf(intents) ==
    Priority[CHOOSE i \in DOMAIN Priority :
        Priority[i] \in intents /\ \A j \in 1..(i - 1) : Priority[j] \notin intents]

\* a needle of the strong list counts three, one of the phrases one
Score(words, intent) == (IF intent \in words.strong THEN 3 ELSE 0)
                        + (IF intent \in words.phrases THEN 1 ELSE 0)

pick_winner(words) ==
    IF words.strong # {} THEN FirstOf(words.strong)
    ELSE IF words.phrases # {} THEN FirstOf(words.phrases) ELSE "none"

Winner(words, profile) ==
    LET best == pick_winner(words) IN
    IF words.override # "none" THEN words.override
    ELSE IF best # "none" /\ Score(words, best) < profile.minScore THEN "none" ELSE best

compute_complexity(words) ==
    IF \/ "high" \in words.markers \/ words.length = "long"
       \/ Cardinality(words.strong \cup words.phrases) >= 2
    THEN "high"
    ELSE IF "medium" \in words.markers \/ words.length = "middling" THEN "medium" ELSE "low"

compute_risk(intent, words) ==
    IF intent = "security" \/ "risk" \in words.markers THEN "high"
    ELSE IF intent # "implement" THEN "low"
    ELSE IF words.markers \cap {"destructive", "high"} # {} THEN "high"
    ELSE IF "testable" \in words.markers THEN "low" ELSE "medium"

gate_strong(words, profile, intent) ==
    \/ words.override # "none" \/ intent \in words.strong
    \/ intent \in profile.phraseIntents
    \/ ~profile.requireStrong

-----------------------------------------------------------------------------
(* Selection *)

\* a scope of 60 words is long before a complexity of low ends
Tiers(words, complexity, risk) ==
    IF "destructive" \in words.markers
    THEN <<"implement-ops", "implement-hard", "implement-strong",
           "implement-standard", "implement-cheap">>
    ELSE IF words.modifier = "quality" \/ complexity = "high" \/ risk = "high"
    THEN <<"implement-hard", "implement-strong", "implement-standard", "implement-cheap">>
    ELSE IF complexity = "low" /\ risk = "low"
    THEN <<"implement-cheap", "implement-standard", "implement-strong", "implement-hard">>
    ELSE <<"implement-standard", "implement-hard", "implement-cheap">>

\* The writable role for a risk: the first usable tier within its ceiling,
\* the overflow, then for tested work of low risk the cheap fallback.
select_implement_role(p, words, complexity, risk) ==
    LET order == Tiers(words, complexity, risk) \o <<"implement-overflow">>
        fit == SelectSeq(order, LAMBDA r : risk_ceiling_allows(p, r, risk) /\ usable(p, r))
        last == /\ risk = "low" /\ "testable" \in words.markers /\ p.verifiers > 0
                /\ usable(p, "implement-cheap-fallback")
    IN IF fit # <<>> THEN fit[1] ELSE IF last THEN "implement-cheap-fallback" ELSE "none"

PrimaryRole == [security |-> "security", review |-> "review-hard", plan |-> "plan-hard",
                explore |-> "explore", research |-> "researcher"]

SecurityCapable(reg, r) == r \in SECURITY_STAGES \ reg.unfit

\* The primary role and its fallbacks, for security only capable ones; those
\* that are available, unless the state is stale.  "none" when there is none.
score_candidates(p, intent) ==
    LET primary == PrimaryRole[intent]
        names == {primary} \cup {r \in p.registry.fallback[primary] :
                                   intent = "security" => SecurityCapable(p.registry, r)}
        open == {r \in names : p.stale \/ role_available(p, r)}
    IN IF p.mode = "static" THEN {primary} ELSE IF open = {} THEN {"none"} ELSE open

\* What _select leaves: the role that is preferred among the candidates, the
\* implementer of a security task, and whether the route can be staffed.
Selected(p, choice) ==
    LET words == p.words
        writer == select_implement_role(p, words, p.complexity, "high")
        verifier == p.mode = "static" \/ role_available(p, "security-verify")
    IN IF p.winner = "implement"
       THEN [p EXCEPT !.selected = choice, !.impl = choice, !.staffed = choice # "none",
                      !.escalate = choice = "none" /\ p.risk = "high"]
       ELSE IF p.winner = "security"
       THEN [p EXCEPT !.selected = choice, !.impl = writer,
                      !.staffed = choice # "none" /\ writer # "none" /\ verifier,
                      !.escalate = writer = "none"]
       ELSE [p EXCEPT !.selected = choice, !.staffed = choice # "none"]

RoleChoices(p) ==
    IF p.winner = "implement"
    THEN {select_implement_role(p, p.words, p.complexity, p.risk)}
    ELSE score_candidates(p, p.winner)

Reviewers(p) == {r \in {"review-hard", "review-independent"} : role_available(p, r)}

\* The inputs of compose_execution.
Inputs(p) ==
    [winner |-> p.winner, complexity |-> p.complexity, risk |-> p.risk,
     selected |-> p.selected, impl |-> p.impl, verifiers |-> p.verifiers, profile |-> p.profile,
     reviewers |-> Reviewers(p),
     challengerOk |-> role_available(p, "researcher-challenger"),
     advisorOk |-> role_available(p, "explore-risk")]

\* _compose: the stages, unless nothing that matters would be reviewed or verified.
Composed(p, reg) ==
    LET stages == compose_execution(Inputs(p), reg)
        unreviewed == /\ p.winner = "implement"
                      /\ p.risk = "high" \/ p.complexity # "low"
                      /\ RolesOf(stages) \cap REVIEW_STAGES = {}
                      /\ p.verifiers = 0
    IN IF ~p.staffed \/ unreviewed THEN [p EXCEPT !.staffed = FALSE]
       ELSE [p EXCEPT !.execution = stages]

\* _gate: would edits and the end of the turn be held, and may the
\* conductor write?
Decided(p) ==
    LET valid == p.staffed => validate_execution(p.execution, p.registry)
        gate == /\ p.mode = "dynamic" /\ p.staffed /\ valid
                /\ has_required_execution(p.execution)
                /\ gate_strong(p.words, p.profile, p.winner)
        escalation == p.mode = "dynamic" /\ p.escalate
    IN [p EXCEPT !.valid = valid, !.holds = gate \/ escalation,
                 !.write_policy = IF gate \/ escalation THEN "deny"
                                  ELSE IF p.mode = "dynamic" /\ p.staffed /\ valid THEN "allow"
                                  ELSE "observe"]

-----------------------------------------------------------------------------
(* One run of the pipeline for a new turn *)

\* nothing is selected, composed or decided yet
Start(words, profile, mode, verifiers) ==
    [at |-> "started", words |-> words, profile |-> profile, mode |-> mode,
     verifiers |-> verifiers, health |-> health, stale |-> mode # "static" /\ stale,
     registry |-> registry, winner |-> Winner(words, profile),
     complexity |-> compute_complexity(words),
     risk |-> compute_risk(Winner(words, profile), words),
     selected |-> "none", impl |-> "none", staffed |-> FALSE, escalate |-> FALSE,
     execution |-> <<>>, valid |-> TRUE, holds |-> FALSE, write_policy |-> "observe"]

Runs(p) == {Selected(p, choice) : choice \in RoleChoices(p)}

Observed == [owed |-> FALSE, holds |-> FALSE]

\* Pipeline(), _extract, _score and _select; a prompt that asks for nothing is
\* recorded at once, with nothing owed
Select(words, profile, mode, verifiers) ==
    LET p == Start(words, profile, mode, verifiers) IN
    /\ route.at \in {"idle", "decided"} /\ Len(track) < Turns
    /\ held' = -1
    /\ IF p.winner = "none"
       THEN track' = Append(track, Observed) /\ route' = [p EXCEPT !.at = "decided"]
       ELSE /\ \E run \in Runs(p) : route' = [run EXCEPT !.at = "selected"]
            /\ UNCHANGED track
    /\ UNCHANGED <<registry, health, stale, changes>>

\* _compose, with the registry as it is now
Compose ==
    /\ route.at = "selected"
    /\ route' = [Composed(route, registry) EXCEPT !.at = "composed"]
    /\ UNCHANGED <<registry, health, stale, track, held, changes>>

\* _gate and _finalize; a static run records nothing
Record ==
    /\ route.at = "composed"
    /\ LET d == Decided(route) IN
         /\ route' = [d EXCEPT !.at = "decided"]
         /\ track' = Append(track, IF route.mode = "static" THEN Observed
                                   ELSE [owed |-> has_required_execution(d.execution),
                                         holds |-> d.holds])
    /\ UNCHANGED <<registry, health, stale, held, changes>>

-----------------------------------------------------------------------------
(* The rest of the session *)

\* Another process changes the configuration or the health of the roles, or
\* the runtime state goes stale or is written again.
Counted == changes < Changes /\ changes' = changes + 1

Reconfigured(reg) == /\ Counted
                     /\ registry # reg /\ registry' = reg
                     /\ UNCHANGED <<health, stale, route, track, held>>
Ailing(state)     == /\ Counted
                     /\ health # state /\ health' = state
                     /\ UNCHANGED <<registry, stale, route, track, held>>
Aging             == /\ Counted
                     /\ stale' = ~stale
                     /\ UNCHANGED <<registry, health, route, track, held>>

\* The children of a turn do all that it owes.
Finish(t) ==
    /\ track[t].owed
    /\ track' = [track EXCEPT ![t].owed = FALSE]
    /\ UNCHANGED <<registry, health, stale, route, held, changes>>

\* What a later hook of the turn resolves: the pipeline again, with what it
\* reads now.  Equal inputs make equal choices.
Resolutions ==
    LET p == Start(route.words, route.profile, route.mode, route.verifiers)
        same == \A f \in {"health", "stale", "registry"} : p[f] = route[f]
    IN IF p.winner = "none" THEN {p}
       ELSE {Decided(Composed(run, registry)) :
                 run \in {r \in Runs(p) : same => r.selected = route.selected}}

\* Mistake: the hook knows no intents that are gated on a phrase.
StrongGateOnly(r, owed) ==
    /\ r.mode = "dynamic" /\ r.staffed /\ r.valid /\ owed
    /\ r.winner \in r.words.strong \/ r.words.override # "none" \/ ~r.profile.requireStrong

_gate_active(r, owed) ==
    /\ r.mode = "dynamic" /\ r.staffed /\ r.valid /\ owed
    /\ \/ r.winner \in r.words.strong \/ r.words.override # "none"
       \/ r.winner \in r.profile.phraseIntents
       \/ ~r.profile.requireStrong

\* handle_stop: held for the turn's own stages, else for those of the newest
\* earlier turn that still owes some.  How often, and which stages it waits
\* for, is StopGate's.
Stop ==
    LET turn == Len(track)
        debts == {t \in 1..(turn - 1) : track[t].owed}
    IN
    /\ route.at = "decided" /\ route.mode # "static"
    /\ \E r \in Resolutions :
         held' = IF r.mode # "dynamic" THEN 0
                 ELSE IF _gate_active(r, track[turn].owed) THEN turn
                 ELSE IF debts # {} THEN CHOOSE t \in debts : \A u \in debts : u <= t
                 ELSE 0
    /\ UNCHANGED <<registry, health, stale, route, track, changes>>

\* The other hooks of the turn and the children, with nothing changed.
Proceeds == Compose \/ Record \/ Stop \/ \E t \in DOMAIN track : Finish(t)

RoutingNext ==
    \/ \E words \in Prompts, profile \in Profiles, mode \in Modes, verifiers \in Workspaces :
         Select(words, profile, mode, verifiers)
    \/ Proceeds
    \/ \E reg \in Registries : Reconfigured(reg)
    \/ \E state \in Healths : Ailing(state)
    \/ Aging

RoutingSpec == RoutingInit /\ [][RoutingNext]_routingVars
-----------------------------------------------------------------------------
(* What the state file makes of the stages *)

\* _canonical_stage_slot: the part of the pipeline that a stage plays; any other
\* one is numbered, so that it is alone in its part.
Slot(stage) ==
    CASE stage.role \in {"review-hard", "review-independent", "review-panel"} -> "review"
      [] stage.role \in {"recon", "explore", "explore-thorough", "explore-risk"} -> "recon"
      [] stage.role \in IMPLEMENT_STAGES -> "impl"
      [] stage.role \in {"planner-a", "planner-b", "planner-c", "planner-strong"} -> "planner-market"
      [] stage.role = "plan-hard" -> "plan"
      [] OTHER -> stage.role

-----------------------------------------------------------------------------
(* Properties *)

Now == route.at = "decided" /\ route.staffed

\* A staffed route with a writer has one, and a run that is refused by the
\* check, or has nobody for its roles, neither holds nor allows anything but
\* by escalation (_gate).
RoutingTypeOK ==
    /\ route.at \in {"idle", "selected", "composed", "decided"}
    /\ held \in -1..Len(track) /\ changes \in 0..Changes
    /\ route.at = "decided" =>
         /\ Cardinality(Implementers(route.execution)) =
              (IF route.staffed /\ route.winner \in {"implement", "security"} THEN 1 ELSE 0)
         /\ route.write_policy = "observe" =>
              ~route.holds /\ (route.mode # "dynamic" \/ ~route.staffed \/ ~route.valid)

\* No medium or larger implementation, nor one of high risk, is composed with
\* neither a reviewer that was available nor a deterministic verifier; the
\* decision is taken in _compose after six ways of composing a review
\* (docs/architecture.md: with neither the route is observe-only).
ReviewedOrVerified ==
    Now /\ route.winner = "implement" /\ (route.risk = "high" \/ route.complexity # "low") =>
      \/ route.verifiers > 0
      \/ \E r \in RolesOf(route.execution) \cap REVIEW_STAGES : role_available(route, r)

\* A route that may be worked on never asks an independent reviewer of a
\* family that implements, whichever tier and panel came out and although the
\* panel is composed with a registry that was read later (README.md).
IndependentReviewers ==
    Now /\ route.valid =>
      LET fam == route.registry.family IN
      \A r \in RolesOf(route.execution) \cap INDEPENDENT_REVIEW_ROLES,
         w \in Implementers(route.execution) : fam[r] # fam[w] \/ fam[r] = Unpinned

\* The implementer that was chosen, after fallbacks and overflow, may take the
\* risk of the task; the fix of a security task counts as high.
CeilingsHold ==
    Now => \A w \in Implementers(route.execution) : risk_ceiling_allows(route, w, route.risk)

\* "Modifiers are preferences, not intents; they cannot remove mandatory
\* security/review stages": without its modifier the same prompt, composed with
\* the same registry, would not have been reviewed or verified more, although
\* the modifier moves the tier and with it the families of the panel.  Where
\* several roles may lead, both runs are led by the same.
PreferenceKeepsReviews ==
    Now /\ changes = 0 /\ route.words.modifier # "none" =>
      LET plain == Start([route.words EXCEPT !.modifier = "none"], route.profile,
                         route.mode, route.verifiers)
          Checks(stages) == RolesOf(stages) \cap (REVIEW_STAGES \cup SECURITY_STAGES \cup {"verify"})
          Alike(run) == route.winner = "implement" \/ run.selected = route.selected
      IN \A run \in {r \in Runs(plain) : Alike(r)} :
           Checks(Composed(run, registry).execution) \subseteq Checks(route.execution)

\* The analysis of a security task is never left to a role that is not
\* security-capable, however the primary fails (score_candidates).
SecurityPrimaryCapable ==
    Now /\ route.valid /\ route.winner = "security" => SecurityCapable(route.registry, route.selected)

\* No run that believes the runtime state asks for a role whose provider has
\* not said, lately, that it is available.
SignalRolesVerified ==
    Now /\ route.mode # "static" =>
      \A r \in RolesOf(route.execution) \cap SignalRoles : ~route.stale /\ role_available(route, r)

\* No two spawned stages of a route have a role in common, or the same part and
\* kind ("two stages sharing a (slot, kind) pair make reconciliation
\* ambiguous and drop their recorded progress", state.py), whatever was composed:
\* what the theorems of ProgressProofs.tla take for granted.  A configuration
\* that makes the last stage of a security task a fallback of its first one is
\* the exception.
PartsDistinct ==
    Now /\ "security-verify" \notin route.registry.fallback["security"] =>
      \A i, j \in DOMAIN route.execution :
        LET a == route.execution[i]
            b == route.execution[j]
        IN  i < j /\ spawnable(a) /\ spawnable(b) =>
              /\ a.role # b.role /\ StageRoles(a) \cap StageRoles(b) = {}
              /\ Slot(a) # Slot(b) \/ a.kind # b.kind

\* While nothing changes, Stop holds a turn that owes its stages exactly when
\* the decision said that it would: two hooks compute the gate on their own,
\* one in pipeline.py and one in gate.py.
HeldAsDecided ==
    [][/\ track # <<>> /\ track[Len(track)].owed
       /\ changes = 0 /\ Stop
       => (held' = Len(track) <=> route.holds)]_routingVars

\* What an enforced route may rely on whichever roles, families, ceilings and
\* preferences it was composed from: the types, a review or a verifier, reviewers
\* of another family, ceilings, reviews in spite of a cheap preference, a capable
\* primary for security, signals that are fresh, and stages that are told apart.
EnforcedRoutesSafe ==
    /\ RoutingTypeOK
    /\ ReviewedOrVerified
    /\ IndependentReviewers
    /\ CeilingsHold
    /\ PreferenceKeepsReviews
    /\ SecurityPrimaryCapable
    /\ SignalRolesVerified
    /\ PartsDistinct
=============================================================================

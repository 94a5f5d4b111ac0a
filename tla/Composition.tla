---------------------------- MODULE Composition ----------------------------
(***************************************************************************)
(* compose.py: from an intent, its complexity and risk and the roles that  *)
(* are available to the stages a turn owes, and the check of those stages  *)
(* against the role registry.  There is no state here: Routing.tla calls   *)
(* these operators in the order of the pipeline.                           *)
(*                                                                         *)
(* A registry is a record: family[r] is the model family of a role, or     *)
(* Unpinned; unfit the roles whose entry lacks what their stage needs (a   *)
(* writer that cannot write, a reader that can, no review or security      *)
(* flag); ceiling[r] the risk ceiling; fallback[r] the declared fallbacks. *)
(* Stage ids are the names of barriers, which are distinct by composition. *)
(***************************************************************************)
EXTENDS Integers, Sequences, FiniteSets

CONSTANT Unpinned   \* the family of a role without a model

IMPLEMENT_STAGES == {"implement-cheap", "implement-standard", "implement-strong",
                     "implement-hard", "implement-ops", "implement-overflow",
                     "implement-cheap-fallback"}
SECURITY_STAGES  == {"security", "security-verify"}
INDEPENDENT_REVIEW_ROLES == {"review-independent", "expert-rescue"}
REVIEW_STAGES    == {"review-hard"} \cup INDEPENDENT_REVIEW_ROLES

Stage(kind, role, members) ==
    [kind |-> kind, role |-> role, required |-> TRUE, members |-> members]

Spawn(role)       == Stage("spawn", role, <<>>)
Barrier(id, ms)   == Stage("parallel_spawn", id, ms)
Optional(role)    == [Spawn(role) EXCEPT !.required = FALSE]
Verify            == Stage("verify", "verify", <<>>)
Confirmation      == Stage("confirmation_batch", "verifier-planner", <<>>)
Only(when, stage) == IF when THEN <<stage>> ELSE <<>>

spawnable(stage) == stage.kind # "verify"

StageRoles(stage) ==
    IF stage.kind = "parallel_spawn"
    THEN {stage.members[i] : i \in DOMAIN stage.members} ELSE {stage.role}

RolesOf(stages)      == UNION {StageRoles(stages[i]) : i \in DOMAIN stages}
SpawnRoles(stages)   == RolesOf(SelectSeq(stages, spawnable))
Implementers(stages) == SpawnRoles(stages) \cap IMPLEMENT_STAGES
has_required_execution(stages) == \E i \in DOMAIN stages : stages[i].required

-----------------------------------------------------------------------------
(* Barriers: the roles of barrier_lenses.json in order, cut to the width *)

Lenses == [
    recon    |-> <<"explore", "explore", "explore-thorough",
                   "explore", "explore", "explore-thorough">>,
    research |-> <<"researcher", "researcher-analyst", "researcher",
                   "researcher-challenger", "researcher-analyst">>,
    review   |-> <<"review-hard", "review-independent", "expert-rescue">>,
    market   |-> <<"planner-a", "planner-b", "planner-c", "planner-strong">> ]

Least(a, b) == IF a <= b THEN a ELSE b
Most(a, b)  == IF a >= b THEN a ELSE b
Cut(s, n)   == SubSeq(s, 1, Least(n, Len(s)))

barrier_members(pool, width, challenger) ==
    Cut(SelectSeq(Lenses[pool], LAMBDA r : r = "researcher-challenger" => challenger),
        Most(1, Least(width, Len(Lenses[pool]))))

Wider(width, complexity) == IF complexity = "high" THEN width + 2 ELSE width

Recon(c) ==
    IF c.complexity = "low" THEN <<Spawn("explore")>>
    ELSE LET members == barrier_members("recon", Wider(c.profile.recon, c.complexity), FALSE)
             advisor == IF c.profile.advisor /\ c.advisorOk THEN <<"explore-risk">> ELSE <<>>
         IN  <<Barrier("recon", members \o advisor)>>

planner_market_stages(c) ==
    IF c.profile.market > 0 /\ c.complexity # "low"
    THEN <<Barrier("planner-market", barrier_members("market", c.profile.market, FALSE)),
           Spawn("plan-comparator")>>
    ELSE <<>>

\* The available reviewers of the pool, none of a family that implements and
\* each the first of its family.
review_panel_members(width, before, c, registry) ==
    LET pool == Lenses.review
        taken == {registry.family[r] : r \in Implementers(before)} \ {Unpinned}
        open == {i \in DOMAIN pool :
                   /\ pool[i] \in c.reviewers
                   /\ registry.family[pool[i]] \notin taken \cup {Unpinned}}
        first == {i \in open : \A j \in open :
                    j < i => registry.family[pool[j]] # registry.family[pool[i]]}
    IN  Cut(SelectSeq(pool, LAMBDA r : \E i \in first : pool[i] = r), Most(1, width))

PanelStages(width, before, c, registry) ==
    LET members == review_panel_members(width, before, c, registry) IN
    IF Len(members) >= 2 THEN <<Barrier("review-panel", members)>>
    ELSE IF Len(members) = 1 THEN <<Spawn(members[1])>>
    ELSE <<Spawn("review-hard")>>

ReviewStages(before, c, registry) ==
    LET hard == "review-hard" \in c.reviewers
        independent == "review-independent" \in c.reviewers
    IN
    IF c.risk = "high"
    THEN IF hard /\ independent THEN PanelStages(2, before, c, registry)
         ELSE Only(independent, Spawn("review-independent")) \o Only(hard, Spawn("review-hard"))
    ELSE IF c.complexity = "high" /\ hard /\ c.profile.review > 1
         THEN PanelStages(c.profile.review, before, c, registry)
         ELSE Only(c.complexity # "low" /\ hard, Spawn("review-hard"))

VerifyStages(c) ==
    IF c.verifiers = 0 THEN <<>>
    ELSE <<Verify>> \o Only(c.profile.confirmation, Confirmation)
                    \o [i \in 1..(c.verifiers - 1) |-> Verify]

compose_execution(c, registry) ==
    LET independent == "review-independent" \in c.reviewers
        upToWriter == Recon(c) \o planner_market_stages(c)
                      \o Only(c.complexity = "high", Optional("plan-hard"))
                      \o <<Spawn(c.selected)>>
    IN
    CASE c.winner = "security" ->
           <<Spawn(c.selected), Spawn(c.impl)>>
           \o Only(c.risk = "high" /\ independent, Spawn("review-independent"))
           \o <<Spawn("security-verify")>> \o VerifyStages(c)
      [] c.winner = "implement" ->
           upToWriter \o ReviewStages(upToWriter, c, registry) \o VerifyStages(c)
      [] c.winner = "review" -> <<Spawn("review-hard")>>
      [] c.winner = "plan" ->
           planner_market_stages(c) \o <<Spawn(c.selected)>>
           \o Only(c.risk = "high" /\ independent, Spawn("review-independent"))
      [] c.winner = "explore" -> <<Spawn(c.selected)>>
      [] OTHER -> <<Barrier("research",
                    barrier_members("research", Wider(c.profile.research, c.complexity),
                                    c.challengerOk))>>

-----------------------------------------------------------------------------
(* The check against the registry *)

\* Mistake: the panel is trusted to have looked for families.
UncheckedFamilies(stages, registry) == SpawnRoles(stages) \cap registry.unfit = {}

\* A role in a stage must be able to do what the stage is for, and an
\* independent reviewer is of another family than every implementer whose
\* model is known.
validate_execution(stages, registry) ==
    LET roles == SpawnRoles(stages) IN
    /\ roles \cap registry.unfit = {}
    /\ \A r \in roles \cap INDEPENDENT_REVIEW_ROLES, w \in Implementers(stages) :
         \/ registry.family[r] # registry.family[w]
         \/ registry.family[r] = Unpinned
=============================================================================

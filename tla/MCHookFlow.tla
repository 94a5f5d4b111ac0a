----------------------------- MODULE MCHookFlow -----------------------------
(***************************************************************************)
(* Small instances of HookFlow.tla: two overlapping hook processes.  A     *)
(* behaviour plays one scene of its run from the first state to the last.  *)
(***************************************************************************)
EXTENDS HookFlow, TLC

CONSTANT Scenes     \* the scenes of the run

VARIABLE scene

Linear(role, part) ==
    [kind |-> "spawn", slot |-> part, required |-> TRUE, keys |-> <<role>>]

Barrier(part, keys) ==
    [kind |-> "parallel_spawn", slot |-> part, required |-> TRUE, keys |-> keys]

Verify(step) ==
    [kind |-> "verify", slot |-> step, required |-> TRUE, keys |-> <<step>>]

\* Reconnaissance by two children of one role.
RacePlans == {<<Barrier("recon", <<"recon/0", "recon/1">>)>>}

\* An implementation stage, repaired, then verified.
RepairPlans == {<<Linear("implement", "impl"), Verify("verify/0")>>}

\* The reviewer is available again, or not yet, when the route is derived anew
\* (Composition.tla, ReviewStages).
ReviewedPlans ==
    {<<Linear("implement", "impl"), Verify("verify/0")>>,
     <<Linear("implement", "impl"), Linear("review-hard", "review"), Verify("verify/0")>>}

\* The plan escalates to a stronger role while hooks of the old plan run.
EscalatedPlans == {<<Linear(r, "impl")>> : r \in {"implement", "implement-hard"}}

PlansOfScene ==
    CASE scene = "race"      -> RacePlans
      [] scene = "repair"    -> RepairPlans
      [] scene = "escalated" -> EscalatedPlans
      [] scene = "reviewed"  -> ReviewedPlans

Started == {c \in Children : children[c] # "unborn"}

Stops == IF track = Nil THEN 0 ELSE track.stopBlocks

SceneNext ==
    /\ HookNext
    /\ UNCHANGED scene
    /\ track' = Nil \/ track'.plan \in PlansOfScene
    /\ scene = "escalated" => Cardinality(Started') + Stops' <= 1
    /\ scene = "repair" => Stops' = 0

\* The theorems about finished stages and about reservations ask for plans like
\* these.
ASSUME SceneAssumption == WellFormedPlans /\ BarriersStand

SceneInit == scene \in Scenes /\ HookInit
SceneSpec == SceneInit /\ [][SceneNext]_<<hookVars, scene>>

-----------------------------------------------------------------------------
(* Constants *)

EachTurn(plans) == [d \in Decisions |-> plans]
Spawned(role)   == [c \in Children |-> role]

Races        == EachTurn(RacePlans)
Repairs      == EachTurn(RepairPlans)
Reviews      == EachTurn(ReviewedPlans)
AllRepairs   == EachTurn(RepairPlans \cup EscalatedPlans)
Explorers    == Spawned("explore")
Implementers == Spawned("implement")
MCRoleOf     == [k \in MemberKeys |->
                    IF k = "consilium/0" /\ "analyst" \in Roles THEN "analyst" ELSE "explore"]
MCConsilium  == <<"consilium/0">>
MCSessionOf  == [d \in Decisions |-> CHOOSE s \in Sessions : TRUE]
MCCommandOf  == [s \in Steps |-> s]
NoJobs       == [j \in {} |-> Nil]
Interchangeable == Permutations(Children) \cup Permutations(Hooks)
=============================================================================

--------------------------- MODULE MCTransactions ---------------------------
(***************************************************************************)
(* Small instances of Transactions.tla.  A behaviour plays one scene from  *)
(* its first state to its last: the main scene of the run, whose constants *)
(* the .cfg gives, or a second one with some of its own.  The runs of      *)
(* two turns under an evidence policy are in MCStrictEvidence.tla.         *)
(***************************************************************************)
EXTENDS Transactions, TLC

CONSTANT Scenes     \* the scenes of the run

VARIABLE scene

Linear(role, part) ==
    [kind |-> "spawn", slot |-> part, required |-> TRUE, keys |-> <<role>>]

Barrier(part, keys) ==
    [kind |-> "parallel_spawn", slot |-> part, required |-> TRUE, keys |-> keys]

Verify(step) ==
    [kind |-> "verify", slot |-> step, required |-> TRUE, keys |-> <<step>>]

EachTurn(plans) == [d \in Decisions |-> plans]

OfTurns(plan1, plan2) == [d \in Decisions |-> {IF d = "turn 1" THEN plan1 ELSE plan2}]

Spawned(role) == [c \in Children |-> role]

Unbound(tasks) == \A d \in Live : \A t \in tasks : BoundNames(tracks[d], t) = {}

-----------------------------------------------------------------------------
(* Main scenes *)

\* Two shards of one reconnaissance role race for the two slots of a barrier.
RacePlans == EachTurn({<<Barrier("recon", <<"recon/0", "recon/1">>)>>})

\* An implementation stage is repaired, escalated and recomposed.
RepairPlans == EachTurn({<<Linear(r, "impl"), Verify("verify/0")>> : r \in ImplementRoles})

\* Two turns owe the same verifier, the earlier one behind a stage.
OwingPlans == OfTurns(<<Linear("explore", "recon"), Verify("verify/0")>>, <<Verify("verify/0")>>)

-----------------------------------------------------------------------------
(* Second scenes *)

\* A panel of two roles reviews; a reviewer may be unable to reach a verdict.
Panel == INSTANCE Transactions WITH
    Plans       <- EachTurn({<<Barrier("review", <<"review-panel/0", "review-panel/1">>)>>}),
    TaskRole    <- Spawned("review-hard"),
    AdHocRoles  <- {},
    Escalations <- {FALSE}

\* A background command stands for the implementation stage or for its verifier.
Command == INSTANCE Transactions WITH
    Plans       <- EachTurn({<<Linear("implement", "impl"), Verify("verify/0")>>}),
    Composable  <- {FALSE},
    StopLimit   <- 1

\* One turn leaves a linear stage unfinished, the next one a barrier: a child of
\* their common role may belong to either.
Debt == INSTANCE Transactions WITH
    Plans       <- OfTurns(<<Linear("explore", "recon")>>, <<Barrier("recon", <<"recon/0">>)>>)

SceneNext ==
    /\ UNCHANGED scene
    /\ \/ scene = "race" /\ Next
       \/ scene = "repair" /\ Next /\ Unbound(Jobs)'
       \/ scene = "owing" /\ Next /\ Unbound(Children)'
       \/ scene = "panel" /\ Panel!Next
       \/ scene = "command" /\ Command!Next
       \/ scene = "debt" /\ Debt!Next /\ Unbound(Jobs)'

\* The theorems about finished stages ask for plans like these; those about the
\* bindings of a child ask for roles like these.
ASSUME SceneAssumption ==
    /\ WellFormedPlans
    /\ "panel" \in Scenes => Panel!WellFormedPlans
    /\ "command" \in Scenes => Command!WellFormedPlans
    /\ "debt" \in Scenes => Debt!WellFormedPlans
    /\ Scenes \cap {"race", "repair"} # {} => RolesKeepParts
    /\ "panel" \in Scenes => Panel!RolesKeepParts
    /\ "command" \in Scenes => Command!RolesKeepParts

SceneInit == scene \in Scenes /\ Init
SceneSpec == SceneInit /\ [][SceneNext]_<<vars, scene>>

-----------------------------------------------------------------------------
(* Constants *)

MCRoleOf ==
    [k \in MemberKeys |-> CASE k = "consilium/0" /\ "analyst" \in Roles -> "analyst"
                           [] k = "review-panel/0" -> "review-hard"
                           [] k = "review-panel/1" -> "review-independent"
                           [] OTHER -> "explore"]
MCConsilium  == <<"consilium/0">>
MCSessionOf  == [d \in Decisions |-> CHOOSE s \in Sessions : TRUE]
Explorers    == Spawned("explore")
Implementers == Spawned("implement")
MCCommandOf  == [s \in Steps |-> s]
MCCommandRun == [j \in Jobs |-> "verify/0"]
Interchangeable == Permutations(Children)
=============================================================================

----------------------------- MODULE MCSession -----------------------------
(***************************************************************************)
(* Small instances of what decides over one session besides its tracks:    *)
(* TurnBook.tla, RoleHealth.tla, PreTool.tla and StopGate.tla with the     *)
(* Remediation.tla it extends.  They share no variable, so a behaviour     *)
(* plays a scene of one of them while the others rest.                     *)
(***************************************************************************)
EXTENDS TurnBook, RoleHealth, PreTool, StopGate

CONSTANT Scenes     \* the scenes of the run

VARIABLE scene

TurnsOnly  == UNCHANGED <<healthVars, preVars, gateVars>>
HealthOnly == UNCHANGED <<turnVars, preVars, gateVars>>
CallsOnly  == UNCHANGED <<turnVars, healthVars, gateVars>>
StopOnly   == UNCHANGED <<turnVars, healthVars, preVars>>

\* Three hook processes while every event is delivered in time and with its
\* prompt, else two.
Spared == CHOOSE h \in Hooks : TRUE
Fewer  == event'[Spared] = NoEvent

\* One debt and no time: Window is not shorter than the clock's bound.
OneDebt == Cardinality(Known(log')) <= 1 /\ UNCHANGED clock

\* No pipeline is lifted; in the other scene of Stop it may be.
NoneLifted == \A d \in DOMAIN tracks' : ~tracks'[d].lifted

\* A process tells the debts of its result before another settles one; in the
\* other scene of Stop the two may overlap.
OneUntold == Cardinality(pending') <= 1

StopScenes == {"stop", "killed stop"}

SceneNext ==
    /\ UNCHANGED scene
    /\ \/ /\ scene = "turns" /\ TurnNext /\ TurnsOnly
          /\ UNCHANGED <<mutes, expiries, lost>> /\ Len(said') <= 2
       \/ /\ scene = "long turns" /\ TurnNext /\ TurnsOnly
          /\ UNCHANGED <<mutes, expiries>> /\ Fewer
       \/ /\ scene = "mute turns" /\ TurnNext /\ TurnsOnly
          /\ Len(said') <= 2 /\ Fewer
       \/ scene = "circuits" /\ HealthNext /\ HealthOnly
       \/ scene = "calls" /\ PreNext /\ CallsOnly
       \/ /\ scene = "debts" /\ DebtNext /\ StopOnly
          /\ UNCHANGED <<current, tracks, pending, stop, ended, cited>>
       \/ scene = "stop" /\ GateNext /\ OneDebt /\ NoneLifted /\ OneUntold /\ kills' = 0 /\ StopOnly
       \/ scene = "killed stop" /\ GateNext /\ OneDebt /\ current' = 1 /\ moves' <= 2 /\ StopOnly

RestingCalls == mode = "static" /\ strong = FALSE /\ owed = "nothing"

\* The debts are left to themselves after a turn that owed nothing.
AfterTurn ==
    /\ DebtInit
    /\ current = 1 /\ tracks = [d \in {1} |-> Track(0, FALSE)]
    /\ pending = {} /\ stop = NotRunning /\ ended = TRUE
    /\ cited = [d \in Debts |-> 0]

SceneInit ==
    /\ scene \in Scenes
    /\ TurnInit /\ HealthInit
    /\ PreInit /\ (scene = "calls" \/ RestingCalls)
    /\ IF scene \in StopScenes THEN GateInit ELSE AfterTurn

SceneSpec ==
    /\ SceneInit
    /\ [][SceneNext]_<<turnVars, healthVars, preVars, gateVars, scene>>
    /\ WF_gateVars(scene \in StopScenes /\ StopStep /\ StopOnly /\ UNCHANGED scene)
=============================================================================

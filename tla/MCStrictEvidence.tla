-------------------------- MODULE MCStrictEvidence --------------------------
(***************************************************************************)
(* Two turns of one session leave the same linear stage unfinished.  In    *)
(* the main scene one of them was composed under a strict profile, every   *)
(* result is retrieved and no hook overtakes a judgement; in the second    *)
(* both are strict, and a result may also come without a task id; in the   *)
(* third, with one child at a time, other hooks run between a judgement    *)
(* and its transaction.                                                    *)
(***************************************************************************)
EXTENDS StrictEvidence, TLC

CONSTANT Scenes     \* the scenes of the run

VARIABLE scene

Linear == [kind |-> "spawn", slot |-> "impl", required |-> TRUE, keys |-> <<"implement">>]

BothStrict == INSTANCE StrictEvidence WITH
    Strict     <- Decisions,
    Foreground <- {"implement"}

Bound == {t \in Children : \E d \in Live : BoundNames(tracks[d], t) # {}}

\* At most one child at a time stands for the stage of each turn.
OneEach == \A d \in Live' : Cardinality({t \in Children : BoundNames(tracks'[d], t) # {}}) <= 1

\* Another hook runs between a judgement and its transaction.
Overtaking == judging.call # "none" /\ judging' = judging

SceneNext ==
    /\ UNCHANGED scene
    /\ \/ scene = "one strict" /\ StrictNext /\ ~Overtaking /\ OneEach
       \/ /\ scene = "both strict" /\ BothStrict!StrictNext
          /\ ~Overtaking /\ Cardinality(Bound') <= 1
       \/ scene = "overtaken" /\ StrictNext /\ Cardinality(Bound') <= 1

\* The theorems about finished stages ask for plans like these.
ASSUME SceneAssumption == WellFormedPlans

SceneInit == scene \in Scenes /\ StrictInit
SceneSpec == SceneInit /\ [][SceneNext]_<<strictVars, scene>>

-----------------------------------------------------------------------------
(* Constants *)

MCRoles     == {"implement", "consilium-unavailable"}
MCRoleOf    == [k \in MemberKeys |-> "implement"]  \* no barrier in this instance
MCConsilium == <<"consilium/0">>                   \* never composed either
MCSessionOf == [d \in Decisions |-> CHOOSE s \in Sessions : TRUE]
MCPlans     == [d \in Decisions |-> {<<Linear>>}]
MCTaskRole  == [t \in Children |-> "implement"]
MCCommands  == [s \in Steps |-> s]
MCRun       == [t \in Jobs |-> "none"]

Interchangeable == Permutations(Children)
=============================================================================

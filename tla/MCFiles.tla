------------------------------ MODULE MCFiles ------------------------------
(***************************************************************************)
(* Small instances of the files the program keeps and of what is read from *)
(* them: StateStore.tla, Contracts.tla, TaskVerify.tla, RouteCache.tla,    *)
(* VisualCache.tla and CorpusSync.tla.  They share no variable, so a       *)
(* behaviour plays one of them from its first state to its last while the  *)
(* others rest.                                                            *)
(***************************************************************************)
EXTENDS StateStore, Contracts, TaskVerify, RouteCache, VisualCache, CorpusSync

CONSTANT Scenes     \* the scenes of the run

VARIABLE scene

-----------------------------------------------------------------------------
(* The components one by one *)

StoreOnly ==
    UNCHANGED <<contractVars, verifyVars, routeCacheVars, visualVars, corpusVars>>

ContractsOnly ==
    UNCHANGED <<storeVars, verifyVars, routeCacheVars, visualVars, corpusVars>>

VerifyOnly ==
    UNCHANGED <<storeVars, contractVars, routeCacheVars, visualVars, corpusVars>>

RouteCacheOnly ==
    UNCHANGED <<storeVars, contractVars, verifyVars, visualVars, corpusVars>>

VisualsOnly ==
    UNCHANGED <<storeVars, contractVars, verifyVars, routeCacheVars, corpusVars>>

CorpusOnly ==
    UNCHANGED <<storeVars, contractVars, verifyVars, routeCacheVars, visualVars>>

\* Three contracts of any terms while no process is killed, or four that demand
\* the same, and are not read, while one may be
Spare == CHOOSE s \in Stages : TRUE
Plain == CHOOSE t \in Terms : TRUE

Streamed(lines) == \A i \in DOMAIN Lines(stream') : Lines(stream')[i] \in lines

Unkilled ==
    /\ kills' = 0 /\ outcomes' <= 3
    /\ Streamed({Outcome} \cup [stage : Stages \ {Spare}, terms : Terms])
    /\ \A r \in Readers : reading'[r].stage # Spare

ToldOnce ==
    /\ Streamed({Outcome} \cup [stage : Stages, terms : {Plain}])
    /\ UNCHANGED reading

\* Of the corpus commands those that read the log; those that an operator's
\* deletions must outlast; those that bring cases into the corpus
Harvesting == \/ HarvestPlan \/ HarvestName \/ HarvestRead \/ HarvestStage \/ Mark
              \/ RotateLog \/ LogRoute
              \/ \E r \in Records : SessionAppears(r)

\* Two sessions at most are to be found yet, of which one more than may be pending
TwoLate == Cardinality((1..written') \ ready') <= 2

\* They are found before a harvest looks for them; what it does last looks no more.
FoundInTime == ready' # ready => job.cmd \in {"none", "open"}

\* Two records at most, in one file, or one
Unrotated == written' <= 2 /\ Len(log') = 1
OneRecord == written' <= 1

Rejecting  == \/ Harvesting \/ ImportHistory \/ HistoryGrows
              \/ \E n \in DOMAIN staging : Delete(n)

Merging    == \/ Harvesting \/ ImportGit \/ Merge \/ MergeClean \/ Crash
              \/ \E n \in DOMAIN staging : Judge(n)

-----------------------------------------------------------------------------
SceneNext ==
    /\ UNCHANGED scene
    /\ \/ scene = "store" /\ StoreNext /\ StoreOnly
       \/ scene = "contracts" /\ ContractNext /\ Unkilled /\ ContractsOnly
       \/ scene = "killed contracts" /\ ContractNext /\ ToldOnce /\ ContractsOnly
       \/ scene = "verify" /\ VerifyNext /\ VerifyOnly
       \/ scene = "route cache" /\ RouteCacheNext /\ RouteCacheOnly
       \/ scene = "visual cache" /\ VisualNext /\ VisualsOnly
       \/ scene = "harvest" /\ Harvesting /\ TwoLate /\ FoundInTime /\ CorpusOnly
       \/ scene = "rejections" /\ Rejecting /\ Unrotated /\ CorpusOnly
       \/ scene = "merges" /\ Merging /\ OneRecord /\ CorpusOnly

Bare == [scope |-> {}, artifacts |-> {}, checks |-> {}, criteria |-> {}]

\* A store without a file: its processes were killed before they wrote one.
StoreAtRest ==
    /\ disk = NoFile /\ data = [p \in StoreProcs |-> NoFile]
    /\ history = <<>> /\ tornTail = FALSE /\ marker = FALSE
    /\ temps = {} /\ lock = Nobody
    /\ pc = [p \in StoreProcs |-> "killed"]
    /\ logged = <<>> /\ applied = {} /\ damages = 0

\* A component that rests begins in one of its first states.
SceneInit ==
    /\ scene \in Scenes
    /\ IF scene = "store" THEN StoreInit ELSE StoreAtRest
    /\ VerifyInit /\ (scene # "verify" => contract = Bare)
    /\ VisualInit /\ (scene # "visual cache" => visuals = Empty /\ current = TRUE)
    /\ ContractInit /\ RouteCacheInit /\ CorpusInit

SceneSpec ==
    /\ SceneInit
    /\ [][SceneNext]_<<storeVars, contractVars, verifyVars, routeCacheVars, visualVars,
                       corpusVars, scene>>

-----------------------------------------------------------------------------
(* Constants *)

OldDecisions == <<"old 1", "old 2">>

\* A file in a directory, one beside it that is also written by a detour, and a
\* scope that leaves the worktree
Inside  == <<"src", "a">>
Outside == <<"b">>
Detour  == <<"src", "up", "b">>
Escape  == <<"up", "b">>

MCWorktree == {Inside, Outside}
Beside   == {Outside}
MCNamed  == {Inside, Outside, Detour}
MCScopes == {{}, {<<"src">>, Escape}, {Detour}}

\* Two sessions, one of them with two prompts, and an event without a session
Owner == [k \in Keys |-> CASE k = "b1" -> "b" [] k = "none" -> NoSession [] OTHER -> "a"]

\* A log over files of two records, one history file, two commits
MCPromptOf == <<"a", "b", "c", "d", "e">>
MCHistory  == <<"b", "d", "u">>
MCCommits  == <<"d", "b">>
=============================================================================

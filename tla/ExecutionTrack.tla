--------------------------- MODULE ExecutionTrack ---------------------------
(***************************************************************************)
(* The data of one execution track (grokbuild/state.py, ExecutionTrack)    *)
(* and the questions the hooks ask of it.  A track is a record; this       *)
(* module has no variables, so every module about tracks EXTENDS it.  An   *)
(* operator introduced by "Mistake:", here and in the other modules, is a  *)
(* plausible bug in the definition after it, not part of the model: the    *)
(* runs use it to show that the properties tell the bug from the code.     *)
(*                                                                         *)
(* Abstractions, all of data:                                              *)
(*  - a stage key is a role name (linear stage) or a member key (member of *)
(*    a parallel barrier); a verify step is a name of its own;             *)
(*  - lists whose order no decision depends on are sets;                   *)
(*  - wall-clock stamps (requested_at, updated_at) are not kept: where the *)
(*    code asks which entry is older, the model lets any be the older one; *)
(*  - the stage tuple is the composed plan followed by at most one stage   *)
(*    added at run time (tr.runtime), which is the only place the code     *)
(*    ever puts one.                                                       *)
(***************************************************************************)
EXTENDS Naturals, Sequences, FiniteSets, Functions

CONSTANTS
    Roles,          \* role names; the key of a linear stage is its role
    MemberKeys,     \* "<stage_id>/<member_id>" of every barrier member
    Steps,          \* verify step ids, "verify/0" ..
    Slots,          \* the parts of a pipeline: "recon", "impl", ..
    RoleOf,         \* the role of each barrier member
    Children,       \* ids of background children
    Jobs,           \* ids of background terminal commands
    SentinelRole,   \* the unspawnable "consilium-unavailable"
    ConsiliumKeys,  \* the member keys of the consilium, in order
    RepairThreshold,\* consilium_after_failures
    Nil             \* "no entry" in a dict

Keys  == Roles \cup MemberKeys
Names == Keys \cup Steps
Tasks == Children \cup Jobs

ASSUME KeysAssumption ==
    /\ Roles \cap MemberKeys = {}
    /\ Steps \cap Keys = {}
    /\ Children \cap Jobs = {}
    /\ Nil \notin Names \cup Tasks
    /\ RoleOf \in [MemberKeys -> Roles]
    /\ "consilium" \in Slots
    /\ SentinelRole \in Roles
    /\ ConsiliumKeys \in Seq(MemberKeys) \ {<<>>}
    /\ RepairThreshold \in Nat \ {0}

-----------------------------------------------------------------------------
(* Stages *)

\* A stage names what it is (kind), which part of the pipeline it plays
\* (slot) and its keys: the members of a barrier, else one role or step.
StageOf(kinds, keys) ==
    [kind : kinds, slot : Slots, required : BOOLEAN, keys : keys]

Stage == StageOf({"spawn", "sentinel"}, {<<r>> : r \in Roles})
         \cup StageOf({"parallel_spawn"}, Seq(MemberKeys) \ {<<>>})
         \cup StageOf({"verify"}, {<<s>> : s \in Steps})

NoStage == [kind |-> "none", slot |-> "", required |-> FALSE, keys |-> <<>>]

ConsiliumStage == [kind |-> "parallel_spawn", slot |-> "consilium",
                   required |-> TRUE, keys |-> ConsiliumKeys]

SentinelStage == [kind |-> "sentinel", slot |-> "consilium",
                  required |-> TRUE, keys |-> <<SentinelRole>>]

Runtimes == {"none", "consilium", "unavailable"}

RuntimeStages(runtime) ==
    CASE runtime = "consilium"   -> <<ConsiliumStage>>
      [] runtime = "unavailable" -> <<SentinelStage>>
      [] OTHER                   -> <<>>

Spawnable(st) == st.kind # "verify"
Key(st)       == st.keys[1]

-----------------------------------------------------------------------------
(* Tracks *)

Track ==
    [plan           : Seq(Stage),
     runtime        : Runtimes,
     waived         : SUBSET Keys,  \* required flags cleared on this track
     inconclusive   : SUBSET Keys,  \* "review_inconclusive:<key>" warnings
     requested      : SUBSET Keys,
     completed      : SUBSET Keys,
     failed         : SUBSET Names,
     verified       : SUBSET Steps,
     memberTasks    : [Keys -> Tasks \cup {Nil}],
     stageTasks     : [Keys -> Tasks \cup {Nil}],
     terminalTasks  : [Tasks -> Keys \cup {Nil}],
     verifyTasks    : [Tasks -> Steps \cup {Nil}],
     releasedVerify : [Tasks -> Steps \cup {Nil}],
     notFound       : [Names -> Tasks \cup {Nil}],
     repairFailures : [Keys -> 0..RepairThreshold],
     stopBlocks     : Nat]

NewTrack(plan) ==
    [plan |-> plan, runtime |-> "none", waived |-> {}, inconclusive |-> {},
     requested |-> {}, completed |-> {}, failed |-> {}, verified |-> {},
     memberTasks    |-> [k \in Keys |-> Nil],
     stageTasks     |-> [k \in Keys |-> Nil],
     terminalTasks  |-> [t \in Tasks |-> Nil],
     verifyTasks    |-> [t \in Tasks |-> Nil],
     releasedVerify |-> [t \in Tasks |-> Nil],
     notFound       |-> [n \in Names |-> Nil],
     repairFailures |-> [k \in Keys |-> 0],
     stopBlocks     |-> 0]

Stages(tr) == tr.plan \o RuntimeStages(tr.runtime)

IsMember(tr, k) ==
    \E st \in Range(Stages(tr)) : st.kind = "parallel_spawn" /\ k \in Range(st.keys)

\* member_for_key(key).role if member_for_key(key) else key
ActualRole(tr, k) == IF IsMember(tr, k) THEN RoleOf[k] ELSE k

\* A required flag is cleared per member of a barrier, else for the stage.
StageRequired(tr, st) ==
    st.required /\ (st.kind \notin {"parallel_spawn", "verify"} => Key(st) \notin tr.waived)

\* Mistake: the required flag alone says that a member is discharged.
IncompleteByFlag(tr, st) ==
    {i \in DOMAIN st.keys :
        st.kind = "parallel_spawn" /\ st.keys[i] \notin tr.waived \cup tr.completed}

\* Positions in st.keys of the members the barrier still waits for.
IncompletePositions(tr, st) ==
    {i \in DOMAIN st.keys :
        /\ st.kind = "parallel_spawn"
        /\ st.keys[i] \notin tr.waived \cup tr.completed \cup tr.inconclusive}

IncompleteMembers(tr, st) == {st.keys[i] : i \in IncompletePositions(tr, st)}

Unfinished(tr, st) ==
    /\ StageRequired(tr, st)
    /\ CASE st.kind = "parallel_spawn" -> IncompleteMembers(tr, st) # {}
         [] st.kind = "verify"         -> Key(st) \notin tr.verified
         [] OTHER -> Key(st) \notin tr.completed \cup tr.inconclusive

Least(S) == CHOOSE i \in S : \A j \in S : i <= j

FirstStage(tr, positions) ==
    IF positions = {} THEN NoStage ELSE Stages(tr)[Least(positions)]

NextIncompleteRequiredStage(tr) ==
    FirstStage(tr, {i \in DOMAIN Stages(tr) : Unfinished(tr, Stages(tr)[i])})

NextRequiredBarrierOrRole(tr) ==
    LET next == NextIncompleteRequiredStage(tr)
    IN  CASE tr.runtime = "unavailable" -> SentinelStage
          [] /\ tr.runtime = "consilium"
             /\ IncompleteMembers(tr, ConsiliumStage) # {} -> ConsiliumStage
          [] OTHER -> IF Spawnable(next) THEN next ELSE NoStage

VerifyPositions(tr) ==
    {i \in DOMAIN Stages(tr) : /\ Stages(tr)[i].kind = "verify"
                               /\ Stages(tr)[i].required
                               /\ Key(Stages(tr)[i]) \notin tr.verified}

NextVerifyStep(tr) ==
    IF NextRequiredBarrierOrRole(tr) # NoStage \/ VerifyPositions(tr) = {}
    THEN Nil
    ELSE Key(Stages(tr)[Least(VerifyPositions(tr))])

AllRequiredCompleted(tr) ==
    NextRequiredBarrierOrRole(tr) = NoStage /\ VerifyPositions(tr) = {}
=============================================================================

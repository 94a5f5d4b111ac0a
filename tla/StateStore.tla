----------------------------- MODULE StateStore -----------------------------
(***************************************************************************)
(* The state file on disk (grokbuild/persist.py; load_state, save_state    *)
(* and the migration of state.py) as the one-shot hook processes see it:   *)
(* every process performs one operation, step by step, and may be killed   *)
(* between any two steps.  Whoever holds the flock is never interleaved    *)
(* with another holder, but a plain load reads without it, and something   *)
(* outside the program may damage the file at any time.                    *)
(*                                                                         *)
(* Abstractions: the value of the state is the set of updates it contains; *)
(* a decision is named by the process that records it; an old state file   *)
(* embeds the decisions Legacy; a decision record is one line of the       *)
(* history file, and a process killed while it writes leaves a prefix of   *)
(* its lines and perhaps an unfinished one.  Staleness by age is left out. *)
(***************************************************************************)
EXTENDS Naturals, Sequences, FiniteSets, Functions

CONSTANTS
    Writers,      \* processes that run one transaction on the state
    Deciders,     \* the writers that also append a decision to the history
    Replayers,    \* processes that run save_state on a state of their own
    Loaders,      \* processes that run load_state
    Legacy,       \* decisions embedded in a state file of an older version
    HistoryLimit, \* lines kept when the history is cut (HISTORY_LIMIT)
    RotateLines,  \* lines beyond which it is cut (HISTORY_ROTATE_LINES)
    MaxDamage,    \* bound: times the file is damaged from outside
    StoreKills,   \* bound: processes killed
    Nobody        \* the owner of a free lock

StoreProcs == Writers \cup Replayers \cup Loaders

ASSUME StoreAssumption ==
    /\ Deciders \subseteq Writers
    /\ Writers \cap Replayers = {} /\ (Writers \cup Replayers) \cap Loaders = {}
    /\ Nobody \notin StoreProcs
    /\ Legacy \in Seq(STRING) /\ Range(Legacy) \cap StoreProcs = {}
    /\ HistoryLimit \in Nat \ {0} /\ RotateLines \in Nat /\ HistoryLimit <= RotateLines
    /\ MaxDamage \in Nat /\ StoreKills \in Nat

VARIABLES
    disk,     \* state.json
    history,  \* decisions.jsonl: the lines that parse
    tornTail, \* decisions.jsonl ends in an unfinished line
    marker,   \* .decisions-migrated exists
    temps,    \* the processes whose temporary file exists
    lock,     \* the holder of state.json.lock
    pc,       \* where each process is
    data,     \* what each process holds of the state
    logged,   \* decisions in the order their state was replaced or migrated
    applied,  \* updates that were ever on disk
    damages   \* how often the file was damaged

store == <<disk, history, tornTail, marker, temps>>
ghosts == <<logged, applied, damages>>
storeVars == <<store, ghosts, lock, pc, data>>

-----------------------------------------------------------------------------
(* Files *)

\* "torn" does not decode, "invalid" decodes but fails validation.
File(kinds) == [kind : kinds, updates : SUBSET (Writers \cup Replayers), legacy : BOOLEAN]
NoFile      == [kind |-> "absent", updates |-> {}, legacy |-> FALSE]
Starting    == [NoFile EXCEPT !.kind = "good"]

Readable(f) == f.kind \in {"good", "invalid"}

\* The migration does nothing once the marker is there.
MustMigrate(f) == f.legacy /\ Legacy # <<>> /\ ~marker

\* Embedded decisions whose id is not in the history yet.
LegacyAdditions == SelectSeq(Legacy, LAMBDA d : d \notin Range(history))

\* The lines of the history after an append: a first line glued to an
\* unfinished one parses no more.
Appended(lines) ==
    history \o (IF tornTail /\ lines # <<>> THEN Tail(lines) ELSE lines)

CutGeneration(lines) ==
    IF Len(lines) > RotateLines
    THEN SubSeq(lines, Len(lines) - HistoryLimit + 1, Len(lines))
    ELSE lines

-----------------------------------------------------------------------------
At(p, step)   == pc[p] = step
Goto(p, step) == pc' = [pc EXCEPT ![p] = step]
Hold(p, f)    == data' = [data EXCEPT ![p] = f]

InitFiles == {NoFile, Starting, [Starting EXCEPT !.legacy = TRUE],
              [kind |-> "invalid", updates |-> {}, legacy |-> TRUE],
              [kind |-> "torn", updates |-> {}, legacy |-> FALSE]}

StoreInit ==
    /\ disk \in InitFiles
    /\ history = <<>> /\ tornTail = FALSE /\ marker = FALSE
    /\ temps = {} /\ lock = Nobody
    /\ pc = [p \in StoreProcs |-> "start"]
    /\ data = [p \in StoreProcs |-> NoFile]
    /\ logged = <<>> /\ applied = {} /\ damages = 0

\* path.is_file() and json.loads without the lock (load_state)
Peek(p) ==
    /\ p \in Loaders /\ At(p, "start")
    /\ Hold(p, disk)
    /\ Goto(p, CASE disk.kind = "absent" -> "done"
                 [] disk.kind = "torn"   -> "recover"
                 [] disk.legacy          -> "rewrite"
                 [] OTHER                -> "check")
    /\ UNCHANGED <<store, ghosts, lock>>

\* RuntimeState.from_dict validates what was loaded.
Validate(p) ==
    /\ At(p, "check")
    /\ Goto(p, IF data[p].kind = "good" THEN "done" ELSE "recover")
    /\ UNCHANGED <<store, ghosts, lock, data>>

\* Mistake: the file is moved aside on the evidence of the first reading.
QuarantineUnchecked(p) ==
    /\ At(p, "recovering")
    /\ disk' = NoFile
    /\ Hold(p, NoFile)
    /\ lock' = Nobody
    /\ Goto(p, "done")
    /\ UNCHANGED <<history, tornTail, marker, temps, ghosts>>

\* recover_json_under_lock: reread and validate before quarantining
RecoverUnderLock(p) ==
    /\ At(p, "recovering")
    /\ disk' = IF disk.kind = "good" THEN disk ELSE NoFile
    /\ Hold(p, disk')
    /\ lock' = Nobody
    /\ Goto(p, IF disk' # NoFile /\ disk'.legacy THEN "rewrite" ELSE "done")
    /\ UNCHANGED <<history, tornTail, marker, temps, ghosts>>

\* Mistake: a transaction reads the file before it has the lock.
AcquireAlreadyRead(p) ==
    /\ \/ At(p, "start") /\ p \notin Loaders /\ Hold(p, disk) /\ Goto(p, "rewrite")
          /\ UNCHANGED lock
       \/ /\ At(p, "rewrite") /\ lock = Nobody /\ lock' = p
          /\ Goto(p, "build") /\ UNCHANGED data
       \/ /\ At(p, "recover") /\ lock = Nobody /\ lock' = p
          /\ Goto(p, "recovering") /\ UNCHANGED data
    /\ UNCHANGED <<store, ghosts>>

\* fcntl.flock(LOCK_EX): of a transaction, of the rewrite that migrates
\* (load_state), of the recovery
Acquire(p) ==
    /\ lock = Nobody
    /\ \/ At(p, "start") /\ p \notin Loaders /\ Goto(p, "locked")
       \/ At(p, "rewrite") /\ Goto(p, "locked")
       \/ At(p, "recover") /\ Goto(p, "recovering")
    /\ lock' = p
    /\ UNCHANGED <<store, ghosts, data>>

\* What atomic_update_json starts from when there is nothing to read: a fresh
\* state, or what load_state read before it had the lock.
Default(p) == IF p \in Loaders THEN data[p] ELSE Starting

\* _gc_state_temps removes abandoned temporaries, then the file is read.
Read(p) ==
    /\ At(p, "locked")
    /\ \E abandoned \in SUBSET temps : temps' = temps \ abandoned
    /\ Hold(p, IF Readable(disk) THEN disk ELSE Default(p))
    /\ disk' = IF disk.kind = "torn" THEN NoFile ELSE disk
    /\ Goto(p, IF MustMigrate(data'[p]) THEN "migrate" ELSE "build")
    /\ UNCHANGED <<history, tornTail, marker, ghosts, lock>>

\* _append_decisions_locked up to its fsync
AppendLines(lines) ==
    /\ history' = Appended(lines)
    /\ tornTail' = (tornTail /\ lines = <<>>)

\* _migrate_legacy_history, its append
MigrateAppend(p) ==
    /\ At(p, "migrate")
    /\ AppendLines(LegacyAdditions)
    /\ logged' = logged \o SelectSeq(history', LAMBDA d : d \notin Range(logged))
    /\ Goto(p, "migrated")
    /\ UNCHANGED <<disk, marker, temps, applied, damages, lock, data>>

\* Rewriting the history when it has grown too long
CutHistory(p) ==
    /\ At(p, "migrated") \/ At(p, "appended")
    /\ history' = CutGeneration(history)
    /\ Goto(p, IF At(p, "migrated") THEN "mark" ELSE "unlock")
    /\ UNCHANGED <<disk, tornTail, marker, temps, ghosts, lock, data>>

WriteMarker(p) ==
    /\ At(p, "mark")
    /\ marker' = TRUE
    /\ Goto(p, "build")
    /\ UNCHANGED <<disk, history, tornTail, temps, ghosts, lock, data>>

\* The updater computes the new state, a transaction from a fresh one if what
\* it read is invalid (state_from_raw); then the temporary is written.
Build(p) ==
    /\ At(p, "build")
    /\ LET invalid == data[p].kind = "invalid" /\ p \in Writers
           base    == IF invalid THEN Starting ELSE [data[p] EXCEPT !.legacy = FALSE]
       IN  /\ disk' = IF invalid THEN NoFile ELSE disk
           /\ Hold(p, CASE p \in Writers   -> [base EXCEPT !.updates = @ \cup {p}]
                        [] p \in Replayers -> [Starting EXCEPT !.updates = {p}]
                        [] OTHER           -> base)
    /\ temps' = temps \cup {p}
    /\ Goto(p, "temp")
    /\ UNCHANGED <<history, tornTail, marker, ghosts, lock>>

\* os.replace, then the decision is due if there is one
Replace(p) ==
    /\ At(p, "temp")
    /\ p \in temps
    /\ disk' = data[p]
    /\ temps' = temps \ {p}
    /\ applied' = applied \cup data[p].updates
    /\ logged' = IF p \in Deciders THEN Append(logged, p) ELSE logged
    /\ Goto(p, IF p \in Deciders THEN "replaced" ELSE "unlock")
    /\ UNCHANGED <<history, tornTail, marker, damages, lock, data>>

\* Mistake: the lock is given up before the decision is appended.
AppendUnlocked(p) ==
    /\ At(p, "replaced")
    /\ IF lock = p
       THEN /\ lock' = Nobody
            /\ UNCHANGED <<history, tornTail, pc>>
       ELSE /\ AppendLines(<<p>>)
            /\ Goto(p, "done")
            /\ UNCHANGED lock
    /\ UNCHANGED <<disk, marker, temps, ghosts, data>>

AppendDecision(p) ==
    /\ At(p, "replaced")
    /\ AppendLines(<<p>>)
    /\ Goto(p, "appended")
    /\ UNCHANGED <<disk, marker, temps, ghosts, lock, data>>

\* fcntl.flock(LOCK_UN); load_state goes on to validate what it got.
Unlock(p) ==
    /\ At(p, "unlock")
    /\ lock' = Nobody
    /\ Goto(p, IF p \in Loaders THEN "check" ELSE "done")
    /\ UNCHANGED <<store, ghosts, data>>

-----------------------------------------------------------------------------
(* Faults *)

Ended(p)  == pc[p] \in {"done", "killed"}
Killed    == {p \in StoreProcs : At(p, "killed")}

\* The lines p is in the middle of writing.
Writing(p) ==
    CASE At(p, "migrate")  -> LegacyAdditions
      [] At(p, "replaced") -> <<p>>
      [] OTHER             -> <<>>

\* The process dies; the kernel releases its lock.  Complete lines it has
\* written stay, and the line it was writing may stay unfinished.
Kill(p) ==
    /\ ~Ended(p) /\ ~At(p, "start")
    /\ Cardinality(Killed) < StoreKills
    /\ lock' = IF lock = p THEN Nobody ELSE lock
    /\ Goto(p, "killed")
    /\ \E n \in 0..Len(Writing(p)), unfinished \in BOOLEAN :
        LET lines == SubSeq(Writing(p), 1, n)
        IN  /\ unfinished => n < Len(Writing(p))
            /\ history' = Appended(lines)
            /\ tornTail' = (unfinished \/ (tornTail /\ n = 0))
            /\ logged' = logged \o SelectSeq(history', LAMBDA d : d \notin Range(logged))
    /\ UNCHANGED <<disk, marker, temps, applied, damages, data>>

\* Something other than this program spoils the file.
Damage ==
    /\ disk.kind # "absent" /\ damages < MaxDamage
    /\ \/ disk' = [NoFile EXCEPT !.kind = "torn"]
       \/ disk' = [disk EXCEPT !.kind = "invalid", !.updates = {}]
    /\ damages' = damages + 1
    /\ UNCHANGED <<history, tornTail, marker, temps, logged, applied, lock, pc, data>>

-----------------------------------------------------------------------------
Step(p) ==
    \/ Peek(p) \/ Validate(p) \/ Acquire(p) \/ RecoverUnderLock(p)
    \/ Read(p) \/ MigrateAppend(p) \/ CutHistory(p) \/ WriteMarker(p)
    \/ Build(p) \/ Replace(p) \/ AppendDecision(p) \/ Unlock(p)

AllEnded == (\A p \in StoreProcs : Ended(p)) /\ UNCHANGED storeVars

StoreNext == (\E p \in StoreProcs : Step(p) \/ Kill(p)) \/ Damage \/ AllEnded

StoreSpec == StoreInit /\ [][StoreNext]_storeVars

-----------------------------------------------------------------------------
(* Properties *)

TypeOK ==
    /\ disk \in File({"absent", "good", "invalid", "torn"})
    /\ history \in Seq(Deciders \cup Range(Legacy))
    /\ tornTail \in BOOLEAN /\ marker \in BOOLEAN
    /\ temps \subseteq StoreProcs
    /\ lock \in StoreProcs \cup {Nobody}
    /\ pc \in [StoreProcs -> {"start", "locked", "migrate", "migrated", "mark", "build",
                         "temp", "replaced", "appended", "unlock", "recover",
                         "recovering", "rewrite", "check", "done", "killed"}]
    /\ data \in [StoreProcs -> File({"absent", "good", "invalid", "torn"})]

\* The state file implements the register: whatever is killed when, an update
\* read-modify-replaces the latest content, and only damage loses any.
Register == INSTANCE StateRegister WITH
    Updaters    <- Writers,
    content     <- IF disk.kind = "good" THEN disk.updates ELSE {},
    intact      <- disk.kind = "good",
    everApplied <- applied

ImplementsRegister == Register!Spec

\* A file that can be read is never moved aside, although the reader that
\* found it unreadable did so without the lock (recover_json_under_lock).
GoodFileStays == [][disk.kind = "good" => disk'.kind # "absent"]_storeVars

\* The history never runs ahead of the state and keeps its order: decisions
\* stand in it in the order their states were replaced, each at most once.
HistoryFollowsState ==
    /\ \A d \in Range(history) \cap Deciders : d \in applied
    /\ \A i, j \in DOMAIN history : i < j =>
         \E k, l \in DOMAIN logged : k < l /\ logged[k] = history[i] /\ logged[l] = history[j]

\* Decisions older than a history that has reached its limit were cut away.
CutAway(d) ==
    /\ Len(history) >= HistoryLimit
    /\ \E i, j \in DOMAIN logged : i < j /\ logged[i] = d /\ logged[j] = Head(history)

Recorded == {p \in Deciders : pc[p] \in {"appended", "unlock", "done"}}
            \cup (IF marker THEN Range(Legacy) ELSE {})

\* A decision whose recording was completed is lost only to the line that a
\* killed process left unfinished, so at most one per kill is.
OneLossPerKill ==
    Cardinality({d \in Recorded : d \notin Range(history) /\ ~CutAway(d)})
        <= Cardinality(Killed)

\* The history file stands beside the state file without a common lock or write:
\* it follows the state it tells of, and a kill between the two writes, or in
\* the middle of a line, costs one decision at most.
HistoryKept == HistoryFollowsState /\ OneLossPerKill
=============================================================================

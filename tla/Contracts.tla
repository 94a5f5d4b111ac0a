------------------------------ MODULE Contracts ------------------------------
(***************************************************************************)
(* The sidecar of task contracts (grokbuild/task_evidence.py).  A contract *)
(* is attached to a stage before its child is spawned; the first one is to *)
(* stand.  It is written twice: to the stream it shares with the outcomes  *)
(* of retrievals, which rotates, and to an archive that is compacted       *)
(* before it rotates.  Attaching and recording hold one lock; the seam     *)
(* that judges a retrieval reads without it, file by file.                 *)
(*                                                                         *)
(* A rotation is one step: a reader in the middle of one finds what it     *)
(* would find between two files.  The size of a file is its lines; a line  *)
(* cut off by a kill is unreadable and spoils the one written behind it.   *)
(***************************************************************************)
EXTENDS Naturals, Sequences, FiniteSets, FiniteSetsExt, SequencesExt

CONSTANTS
    Stages,      \* stage attempts: a decision and a stage key
    Terms,       \* what a contract may demand
    Readers,     \* hook processes that judge a retrieval
    StreamSize,  \* MAX_LOG_BYTES, in lines
    MaxOutcomes, \* bound: outcomes recorded
    MaxKills,    \* bound: processes killed while they attach
    NoContract

ASSUME ContractsAssumption ==
    /\ StreamSize \in Nat \ {0}
    /\ {MaxOutcomes, MaxKills} \subseteq Nat
    /\ NoContract \notin Stages \cup Terms

VARIABLES
    stream,   \* r2-evidence-v1.jsonl and its generations
    archive,  \* r2-evidence-v1.jsonl.specs and its generations
    writing,  \* the contract the holder of the lock has put in the stream
    reading,  \* what each reader looks for and the files it has still to read
    cited,    \* the contracts somebody was told for each stage
    outcomes,
    kills

contractVars == <<stream, archive, writing, reading, cited, outcomes, kills>>

-----------------------------------------------------------------------------
(* The files *)

ContractOf(s, t) == [stage |-> s, terms |-> t]
Outcome        == ContractOf(NoContract, NoContract)  \* or an unreadable line: no contract

\* "ended": the last line of the current file is followed by a newline.
EmptyLog == [cur |-> <<>>, one |-> <<>>, two |-> <<>>, ended |-> TRUE]

\* _records: the oldest generation first
Lines(l) == l.two \o l.one \o l.cur

NamedBy(lines, s) == SelectSeq(lines, LAMBDA x : x.stage = s)

FirstTerms(lines, s) ==
    IF NamedBy(lines, s) = <<>> THEN NoContract ELSE Head(NamedBy(lines, s)).terms

\* _rotate_log and the append of _append_jsonl_locked
Rotated(l) ==
    IF Len(l.cur) >= StreamSize THEN [EmptyLog EXCEPT !.one = l.cur, !.two = l.one] ELSE l

WriteLine(l, line) ==
    IF l.ended THEN [l EXCEPT !.cur = Append(@, line)]
    ELSE [l EXCEPT !.cur = Append(Front(@), Outcome), !.ended = TRUE]

Written(l, line) == WriteLine(Rotated(l), line)

\* What a killed append leaves; the line may lack its newline only.
KilledWriting(l, line) ==
    {l, Rotated(l)} \cup {[Written(l, x) EXCEPT !.ended = FALSE] : x \in {line, Outcome}}

\* The latest contract of every stage
Latest(l) == {Last(NamedBy(Lines(l), s)) : s \in {x \in Stages : NamedBy(Lines(l), x) # <<>>}}

\* _compact_spec_archive: older generations are left to the rotation
Compacted(l) ==
    IF Len(l.cur) >= StreamSize /\ Latest(l) # {} 
    THEN [l EXCEPT !.cur = SetToSeq(Latest(l)), !.ended = TRUE] ELSE l

\* _append_spec_archive_locked
Archived(l, line) == Written(Compacted(l), line)

\* Mistake: contracts are looked up in the stream alone.
FoundInStream(s) == FirstTerms(Lines(stream), s)

\* find_task_spec under the lock: the archive, then the stream
Found(s) ==
    IF FirstTerms(Lines(archive), s) # NoContract THEN FirstTerms(Lines(archive), s)
    ELSE FirstTerms(Lines(stream), s)

-----------------------------------------------------------------------------
ContractInit ==
    /\ stream = EmptyLog /\ archive = EmptyLog
    /\ writing = NoContract
    /\ reading = [r \in Readers |->
                     [stage |-> NoContract, files |-> <<>>, due |-> FALSE, terms |-> NoContract]]
    /\ cited = [s \in Stages |-> {}]
    /\ outcomes = 0 /\ kills = 0

Cite(s, t) == cited' = [cited EXCEPT ![s] = @ \cup {t}]

Free == writing = NoContract

\* attach_task_spec: what is there already is returned, otherwise the contract
\* goes to the stream first.
Attach(s, t) ==
    /\ Free
    /\ \/ /\ Found(s) # NoContract
          /\ Cite(s, Found(s))
          /\ UNCHANGED <<stream, writing>>
       \/ /\ Found(s) = NoContract
          /\ stream' = Written(stream, ContractOf(s, t))
          /\ writing' = ContractOf(s, t)
          /\ UNCHANGED cited
    /\ UNCHANGED <<archive, reading, outcomes, kills>>

\* The same contract goes to the archive; the caller is told it is attached.
Archive ==
    /\ ~Free
    /\ archive' = Archived(archive, writing)
    /\ Cite(writing.stage, writing.terms)
    /\ writing' = NoContract
    /\ UNCHANGED <<stream, reading, outcomes, kills>>

KillStage == kills < MaxKills /\ kills' = kills + 1

\* The process dies at its second append, or that fails (_attach_stage_spec
\* passes over the error); nobody is told that the contract is attached.
KilledArchiving ==
    /\ ~Free /\ KillStage
    /\ archive' \in {archive} \cup KilledWriting(Compacted(archive), writing)
    /\ writing' = NoContract
    /\ UNCHANGED <<stream, reading, cited, outcomes>>

\* The same at the first append, of a contract or of an outcome
KilledStreaming(line) ==
    /\ Free /\ KillStage
    /\ line = Outcome \/ Found(line.stage) = NoContract
    /\ stream' \in KilledWriting(stream, line)
    /\ UNCHANGED <<archive, writing, reading, cited, outcomes>>

\* record_task_evidence
RecordOutcome ==
    /\ Free /\ outcomes < MaxOutcomes
    /\ stream' = Written(stream, Outcome)
    /\ outcomes' = outcomes + 1
    /\ UNCHANGED <<archive, writing, reading, cited, kills>>

\* find_task_spec without the lock, from _evidence_seam
FilesInOrder == <<"archive.two", "archive.one", "archive.cur",
                  "stream.two", "stream.one", "stream.cur">>

Content(file) ==
    CASE file = "archive.two" -> archive.two
      [] file = "archive.one" -> archive.one
      [] file = "archive.cur" -> archive.cur
      [] file = "stream.two"  -> stream.two
      [] file = "stream.one"  -> stream.one
      [] file = "stream.cur"  -> stream.cur

\* "due": somebody was told of the contract before this reader started.
StartReading(r, s) ==
    /\ reading[r].files = <<>>
    /\ reading' = [reading EXCEPT ![r] = [stage |-> s, files |-> FilesInOrder,
                                          due |-> cited[s] # {}, terms |-> NoContract]]
    /\ UNCHANGED <<stream, archive, writing, cited, outcomes, kills>>

ReadFile(r) ==
    /\ reading[r].files # <<>>
    /\ LET s     == reading[r].stage
           terms == FirstTerms(Content(Head(reading[r].files)), s)
       IN  IF terms = NoContract
           THEN /\ reading' = [reading EXCEPT ![r].files = Tail(@)]
                /\ UNCHANGED cited
           ELSE /\ reading' = [reading EXCEPT ![r].files = <<>>, ![r].terms = terms]
                /\ Cite(s, terms)
    /\ UNCHANGED <<stream, archive, writing, outcomes, kills>>

ContractNext ==
    \/ \E s \in Stages, t \in Terms : Attach(s, t)
    \/ Archive \/ KilledArchiving \/ RecordOutcome
    \/ \E line \in {Outcome} \cup [stage : Stages, terms : Terms] : KilledStreaming(line)
    \/ \E r \in Readers : ReadFile(r) \/ \E s \in Stages : StartReading(r, s)

ContractSpec == ContractInit /\ [][ContractNext]_contractVars

-----------------------------------------------------------------------------
(* Properties *)

\* task_evidence.py: "the first record for a (decision_id, stage_key) wins and
\* later attachments are ignored, so a reviewer cites the same contract the
\* runtime enforced": nobody is ever told two contracts for one stage, through
\* rotations, compactions and readers without the lock.  A process killed while
\* it attaches may leave a contract that the next one does not find.
OneContract == kills = 0 => \A s \in Stages : Cardinality(cited[s]) <= 1

Dropped == {s \in Stages : cited[s] # {} /\ Found(s) \notin cited[s]}

\* "a rotation cannot silently drop a contract": what somebody was told is there
\* is found by whoever looks for it in files that stand still.  A killed process
\* costs at most its own contract and the one written next.
TwoLossesPerKill == Cardinality(Dropped) <= 2 * kills

\* A contract that somebody was told is the one contract of its stage and stays.
ContractsStand == OneContract /\ TwoLossesPerKill
=============================================================================

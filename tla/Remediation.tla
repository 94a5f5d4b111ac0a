----------------------------- MODULE Remediation -----------------------------
(***************************************************************************)
(* The remediation debts of one session (grokbuild/remediation.py).  A     *)
(* denial with a safe alternative opens a debt; results of the decision's  *)
(* children are attempts at it; Stop is held back for it a bounded number  *)
(* of times.  The debts live in an append-only log of whole records, in a  *)
(* current file and two older generations; the newest record of a debt     *)
(* counts.  Every operation holds remediation-debt-v1.lock, so it is one   *)
(* step; the only interleaving is at the places where a holder is killed.  *)
(* A record is a value, so an attempt, an evidence list or a hint that the *)
(* code compares by its text is compared here as it is.                    *)
(***************************************************************************)
EXTENDS Naturals, Sequences, FiniteSets, FiniteSetsExt, SequencesExt

CONSTANTS
    Debts,        \* obligations: the reasons of denials
    Reversible,   \* those whose alternative is known to be reversible
    Decisions,
    Branches,     \* stages whose results are reported
    Evidence,     \* references to records of failures
    StopLimit,    \* stop_block_limit
    Window,       \* debt_window_seconds of the session's profile
    TTL,          \* what compaction goes by: REMEDIATION_TTL or a longer window
    CompactLines, \* REMEDIATION_COMPACT_LINES
    MaxLog,       \* MAX_LOG_BYTES, in lines
    MaxTime,      \* bound of the clock
    MaxMoves,     \* bound: denials and reports
    MaxKills      \* bound: processes killed in an operation

ASSUME RemediationAssumption ==
    /\ Reversible \subseteq Debts /\ "unreadable" \notin Debts
    /\ {StopLimit, Window, TTL, MaxTime, MaxMoves, MaxKills} \subseteq Nat
    /\ {CompactLines, MaxLog} \subseteq Nat \ {0}
    /\ Window <= TTL

VARIABLES
    clock,
    log,    \* the three files
    truth,  \* what the last completed append of each debt wrote
    moves,
    kills

debtVars == <<clock, log, truth, moves, kills>>

-----------------------------------------------------------------------------
(* The log *)

Unreadable == [debt |-> "unreadable"]

NoDebt == [refs |-> {}, attempts |-> {}, resolved |-> TRUE, blocks |-> 0, since |-> 0]

\* "ended": the last line of the current file is followed by a newline.
EmptyLog == [cur |-> <<>>, one |-> <<>>, two |-> <<>>, ended |-> TRUE]

\* _records: oldest generation first
Lines(l) == l.two \o l.one \o l.cur

Written(l, d) == {i \in DOMAIN Lines(l) : Lines(l)[i].debt = d}

\* _latest
Latest(l, d) == IF Written(l, d) = {} THEN NoDebt ELSE Lines(l)[Max(Written(l, d))].rec

Known(l) == {d \in Debts : Written(l, d) # {}}

\* Mistake: compaction reads the current file only.
KeptOfCurrent(l) ==
    LET c == [l EXCEPT !.one = <<>>, !.two = <<>>]
    IN  SetToSeq({[debt |-> d, rec |-> Latest(c, d)] :
                    d \in {x \in Known(c) : clock - Latest(c, x).since <= TTL}})

Kept(l) == SetToSeq({[debt |-> d, rec |-> Latest(l, d)] :
                       d \in {x \in Known(l) : clock - Latest(l, x).since <= TTL}})

\* compact_remediation_debt: the current file is replaced, then the older ones
\* are removed, the oldest first
Rewritten(l) == [l EXCEPT !.cur = Kept(l), !.ended = TRUE]
CompactionStages(l) ==
    <<Rewritten(l), [Rewritten(l) EXCEPT !.two = <<>>],
      [Rewritten(l) EXCEPT !.two = <<>>, !.one = <<>>]>>

Compacted(l) ==
    IF Len(SelectSeq(Lines(l), LAMBDA x : x # Unreadable)) = 0 THEN l
    ELSE Last(CompactionStages(l))

\* _rotate_log
RotationStages(l) ==
    <<[l EXCEPT !.two = <<>>],
      [l EXCEPT !.two = l.one, !.one = <<>>],
      [cur |-> <<>>, one |-> l.cur, two |-> l.one, ended |-> TRUE]>>

NeedsCompaction(l) ==
    \/ Len(SelectSeq(Lines(l), LAMBDA x : x # Unreadable)) >= CompactLines
    \/ Len(l.cur) >= MaxLog

\* A line written behind an unfinished one makes one unreadable line of both.
WriteLine(l, line) ==
    IF l.ended THEN [l EXCEPT !.cur = Append(@, line)]
    ELSE [l EXCEPT !.cur = Append(Front(@), Unreadable), !.ended = TRUE]

Prepared(l) == IF NeedsCompaction(l) THEN Compacted(l) ELSE l
Rotated(l) == IF Len(l.cur) >= MaxLog THEN Last(RotationStages(l)) ELSE l

\* _append
AppendTo(l, line) == WriteLine(Rotated(Prepared(l)), line)

\* What the log may be when the process is killed in _append.  A line that is
\* cut off is unreadable, unless only its newline is missing.
KilledAppends(l, line) ==
    LET c == Prepared(l)
        r == Rotated(c)
    IN  {l, c, r}
        \cup (IF c # l THEN Range(CompactionStages(l)) ELSE {})
        \cup (IF r # c THEN Range(RotationStages(c)) ELSE {})
        \cup {[WriteLine(r, x) EXCEPT !.ended = FALSE] : x \in {line, Unreadable}}

DebtInit ==
    /\ clock = 0 /\ moves = 0 /\ kills = 0
    /\ log = EmptyLog
    /\ truth = [d \in Debts |-> NoDebt]

\* An operation that appends one record, to its end or killed
Store(d, rec) ==
    LET line == [debt |-> d, rec |-> rec]
    IN  \/ /\ log' = AppendTo(log, line)
           /\ truth' = [truth EXCEPT ![d] = rec]
           /\ UNCHANGED kills
        \/ /\ kills < MaxKills
           /\ log' \in KilledAppends(log, line)
           /\ kills' = kills + 1
           /\ UNCHANGED truth

-----------------------------------------------------------------------------
(* Operations *)

Spend == moves < MaxMoves /\ moves' = moves + 1

\* open_remediation_debt, from a denial of PreToolUse
OpenDebt(d, dec) ==
    /\ Spend
    /\ Store(d, [Latest(log, d) EXCEPT !.refs = @ \cup {dec}, !.resolved = FALSE,
                                       !.since = clock])
    /\ UNCHANGED clock

\* The debts an attempt is about
Matching(dec, attempt) ==
    {d \in Known(log) : LET r == Latest(log, d)
                        IN  ~r.resolved /\ dec \in r.refs /\ attempt \notin r.attempts}

\* Mistake: a settled debt keeps its count of holds.
AttemptedStillCounted(r, attempt) ==
    [r EXCEPT !.attempts = @ \cup {attempt}, !.since = clock, !.resolved = attempt.success]

Attempted(r, attempt) ==
    [r EXCEPT !.attempts = @ \cup {attempt}, !.since = clock,
              !.resolved = attempt.success,
              !.blocks = IF attempt.success THEN 0 ELSE @]

\* record_remediation_attempt: the debts that match get their records one after
\* the other; a process killed on the way has written those of the first ones.
RecordAttempt(dec, attempt) ==
    /\ Matching(dec, attempt) # {}
    /\ LET line(d) == [debt |-> d, rec |-> Attempted(Latest(log, d), attempt)]
           order == SetToSeq(Matching(dec, attempt))
           after[n \in 0..Len(order)] ==
               IF n = 0 THEN log ELSE AppendTo(after[n - 1], line(order[n]))
           told(n) == [d \in Debts |-> IF \E i \in 1..n : order[i] = d
                                       THEN line(d).rec ELSE truth[d]]
       IN  \/ /\ log' = after[Len(order)]
              /\ truth' = told(Len(order))
              /\ UNCHANGED kills
           \/ /\ kills < MaxKills /\ kills' = kills + 1
              /\ \E n \in 1..Len(order) :
                   /\ log' \in KilledAppends(after[n - 1], line(order[n]))
                   /\ truth' = told(n - 1)
    /\ UNCHANGED clock

\* Mistake: Stop writes the record but does not count.
CountNothing(d, read) ==
    /\ Store(d, [(IF d \in Known(log) THEN Latest(log, d) ELSE read) EXCEPT !.since = clock])
    /\ UNCHANGED <<clock, moves>>

\* record_remediation_stop: what Stop had read counts only if the record has
\* gone since
RecordStop(d, read) ==
    /\ Store(d, [(IF d \in Known(log) THEN Latest(log, d) ELSE read)
                    EXCEPT !.blocks = @ + 1, !.since = clock])
    /\ UNCHANGED <<clock, moves>>

\* "state prune": compaction at the operator's request
Prune ==
    /\ \/ log' = Compacted(log) /\ UNCHANGED kills
       \/ /\ kills < MaxKills /\ kills' = kills + 1
          /\ Lines(log) # <<>> /\ log' \in Range(CompactionStages(log))
    /\ log' # log
    /\ UNCHANGED <<clock, truth, moves>>

Tick == clock < MaxTime /\ clock' = clock + 1 /\ UNCHANGED <<log, truth, moves, kills>>

Attempts == [branch : Branches, success : BOOLEAN, evidence : Evidence]

\* A success carries no reference; a failure names the record of it.
Reports == {a \in Attempts : a.success <=> a.evidence = "none"}

\* open_remediation_debts
IsOpen(l, d) == ~Latest(l, d).resolved /\ clock - Latest(l, d).since <= Window

\* those Stop holds the turn for
Holding == {d \in Debts : IsOpen(log, d) /\ Latest(log, d).blocks < StopLimit}

DebtNext == \/ Tick \/ Prune
            \/ \E d \in Debts, dec \in Decisions : OpenDebt(d, dec)
            \/ \E dec \in Decisions, a \in Reports : Spend /\ RecordAttempt(dec, a)
            \/ \E d \in Holding : RecordStop(d, Latest(log, d))

DebtSpec == DebtInit /\ [][DebtNext]_debtVars

-----------------------------------------------------------------------------
(* Properties *)

\* Every record that was written is what a reader finds, however the log was
\* rotated, compacted or pruned since, and whatever was left of it by processes
\* killed on the way: each of these costs the latest record of one debt at most.
DebtsSurvive ==
    Cardinality({d \in Debts : /\ clock - truth[d].since <= Window
                               /\ Latest(log, d) # truth[d]}) <= kills

\* The log stays within its bound whatever is written to it; a killed process
\* leaves at most one unreadable line, or one compacted copy, more.
LogIsBounded ==
    Len(Lines(log)) <= Max({CompactLines, Cardinality(Debts) + 1})
                         + kills * (Cardinality(Debts) + 1)

\* The log forgets no debt that is still in its window and does not grow with
\* the sessions: it is compacted exactly as far as the debts allow.
LogKeepsDebts == DebtsSurvive /\ LogIsBounded
=============================================================================

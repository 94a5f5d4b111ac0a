----------------------------- MODULE CorpusSync -----------------------------
(***************************************************************************)
(* The corpus workflow: `harvest`, `import-history` and `import-git` stage *)
(* prompts, an operator judges or deletes the staged items, `merge` moves  *)
(* the judged ones into the corpus.  The commands exclude each other by a  *)
(* lock, but each ends in two file replacements (staging and watermark,    *)
(* corpus and staging) and may die between them, and the route log that    *)
(* `harvest` reads goes on growing and rotating under a lock of its own.   *)
(*                                                                         *)
(* Data abstracted: a prompt is a value, two prompts are similar when they *)
(* are equal; a record of the log stands for one (session, turn) and is    *)
(* written whole; byte offsets count records; the renames of a rotation    *)
(* are one step; the 8000/4000/5000 bounds of the bookkeeping are out of   *)
(* reach, those of staging and of the pending list are constants.          *)
(***************************************************************************)
EXTENDS Integers, Sequences, SequencesExt, FiniteSets, FiniteSetsExt

CONSTANTS PromptOf,      \* a sequence: the prompt of every record ever logged
          History,       \* a sequence: the prompts of the session history file
          Commits,       \* a sequence: the subjects of the local commits
          Automation,    \* prompts classified as automation
          Uncertain,     \* prompts of uncertain origin, without git evidence
          StagingCap,    \* 500
          PendingLimit,  \* 200
          FileSize,      \* records a log file holds before it is rotated
          LogFiles,      \* MAX_LOG_FILES
          Crashes        \* how often a command may die between two dumps

VARIABLES log,      \* generations of route.jsonl, the current one first, or NoLog
          written,  \* records appended so far
          ready,    \* records whose session and turn can be found
          hist,     \* length of the history file
          staging, corpus, wm,
          job,      \* the command that holds the lock
          crashed,  \* how often a command died
          taken, again, refused, \* history: what was staged, staged twice, deleted
          missed    \* history: log files that a rotation took out of harvest's sight

corpusVars == <<log, written, ready, hist, staging, corpus, wm, job, crashed,
                taken, again, refused, missed>>

NoMark  == [file |-> 0, off |-> 0, keys |-> {}, pending |-> << >>, dropped |-> 0,
            hashes |-> {}, rejected |-> {}, staged |-> {}, files |-> 0, commits |-> {}]
\* What a harvest has found so far, and the file and offset it has come to
Outset  == [keys |-> {}, pending |-> << >>, adds |-> << >>, open |-> {}, file |-> 0, off |-> 0]
NoJob   == [cmd |-> "none", sources |-> << >>, acc |-> Outset, wm |-> NoMark, staging |-> << >>]
NoLog   == [id |-> 0, recs |-> << >>]
Records == DOMAIN PromptOf

CorpusInit == /\ log = <<NoLog>>
              /\ written = 0 /\ ready = {} /\ hist = 0
              /\ staging = << >> /\ corpus = {}
              /\ wm = NoMark
              /\ job = NoJob /\ crashed = 0
              /\ taken = {} /\ again = FALSE /\ refused = {} /\ missed = {}

Hashes(items) == {items[n].h : n \in DOMAIN items}
Ids(items)    == {items[n].id : n \in DOMAIN items}
Known         == {c.h : c \in corpus}

-----------------------------------------------------------------------------
\* What the commands share

\* Deleted by the operator: staged at the last watermark, now nowhere.
Reconciled == wm.rejected \cup (wm.staged \ (Hashes(staging) \cup Known))

NextId(adds) == Max({0} \cup {c.id : c \in corpus} \cup Ids(staging) \cup Ids(adds)) + 1

Item(adds, h, rank, r) == [id |-> NextId(adds), h |-> h, rank |-> rank, judged |-> FALSE, rec |-> r]

\* Lowest rank is the largest number; among equals the oldest goes.
Victim(items) == CHOOSE n \in DOMAIN items : \A k \in DOMAIN items :
                   items[k].rank < items[n].rank \/ (items[k].rank = items[n].rank /\ n <= k)
Cut(items) == [items |-> RemoveAt(items, Victim(items)), h |-> items[Victim(items)].h]

\* Staging cut to its cap; only a victim that was new is remembered.
Capped(adds) ==
  LET all  == staging \o adds
      over == IF Len(all) > StagingCap THEN Len(all) - StagingCap ELSE 0
      step(acc, n) == LET c == Cut(acc.items) IN
                      [items |-> c.items,
                       out   |-> IF c.h \in Hashes(staging) THEN acc.out ELSE acc.out \cup {c.h}]
  IN FoldLeftDomain(step, [items |-> all, out |-> {}], [n \in 1..over |-> n])

\* The first dump of a harvest or an import; the watermark comes later.
Stage(adds, mark) ==
  LET c == Capped(adds) IN
  /\ staging' = c.items
  /\ job' = [NoJob EXCEPT !.cmd = "mark",
                          !.wm = [mark EXCEPT !.rejected = Reconciled \cup c.out,
                                              !.staged = Hashes(c.items)]]
  /\ taken' = taken \cup ({adds[n].rec : n \in DOMAIN adds} \ {0})
  /\ again' = (again \/ \E n \in DOMAIN adds : adds[n].rec \in taken)

\* The second dump.
Mark == /\ job.cmd = "mark"
        /\ wm' = job.wm
        /\ job' = NoJob
        /\ UNCHANGED <<log, written, ready, hist, staging, corpus, crashed, taken, again, refused, missed>>

\* The process dies; the lock goes with it.
Crash == /\ crashed < Crashes /\ job.cmd # "none"
         /\ job' = NoJob
         /\ crashed' = crashed + 1
         /\ UNCHANGED <<log, written, ready, hist, staging, corpus, wm, taken, again, refused, missed>>

-----------------------------------------------------------------------------
\* harvest

PathOf(id) == {k \in 2..Len(log) : log[k].id = id}

\* Where to read: from the offset on in the file of the watermark, wherever
\* it is now, then the current file from its start.
SourcesOf(mark) ==
  LET at(path) == [path |-> path, start |-> IF Len(log[path].recs) >= mark.off THEN mark.off ELSE 0]
      old      == IF PathOf(mark.file) = {} THEN << >> ELSE <<at(Min(PathOf(mark.file)))>>
  IN IF log[1] = NoLog THEN old
     ELSE IF mark.file \in {0, log[1].id} THEN <<at(1)>>
     ELSE old \o <<[path |-> 1, start |-> 0]>>

\* Mistake: a staged record is not entered in the keys.
ProcessUnkeyed(acc, r) ==
  CASE r \in acc.keys  -> acc
    [] r \notin ready  -> [acc EXCEPT !.open = @ \cup {r},
                                      !.pending = IF r \in ToSet(@) THEN @ ELSE Append(@, r)]
    [] OTHER -> [acc EXCEPT !.adds = Append(@, Item(@, PromptOf[r], 7, r))]

\* One record: known, not resolvable yet, covered by the corpus, or staged.
Process(acc, r) ==
  CASE r \in acc.keys  -> acc
    [] r \notin ready  -> [acc EXCEPT !.open = @ \cup {r},
                                      !.pending = IF r \in ToSet(@) THEN @ ELSE Append(@, r)]
    [] r \in ready /\ r \notin acc.keys /\ PromptOf[r] \in Known -> [acc EXCEPT !.keys = @ \cup {r}]
    [] OTHER -> [acc EXCEPT !.keys = @ \cup {r},
                   !.adds = Append(@, Item(@, PromptOf[r],
                              IF PromptOf[r] \in Hashes(staging) \cup Hashes(@) THEN 6 ELSE 7, r))]

\* A source: the rest of the file now at the path; the offset stops before
\* the first record that could not be resolved.
ReadSource(acc, s) ==
  LET recs == log[s.path].recs
      rest == SubSeq(recs, s.start + 1, Len(recs))
      next == FoldLeft(Process, [acc EXCEPT !.open = {}], rest)
      stop == {n \in DOMAIN rest : rest[n] \in next.open}
  IN [next EXCEPT !.off = IF stop # {} THEN s.start + Min(stop) - 1
                          ELSE IF s.start > Len(recs) THEN s.start ELSE Len(recs)]

\* The records that were left pending are tried again, then the sources planned.
HarvestPlan ==
  /\ job.cmd = "none"
  /\ LET start == [Outset EXCEPT !.keys = wm.keys, !.file = wm.file, !.off = wm.off]
     IN job' = [NoJob EXCEPT !.cmd = "name", !.sources = SourcesOf(wm),
                             !.acc = FoldLeft(Process, start, wm.pending)]
  /\ UNCHANGED <<log, written, ready, hist, staging, corpus, wm, crashed, taken, again, refused, missed>>

\* The file at the next path is identified ...
HarvestName ==
  /\ job.cmd = "name" /\ job.sources # << >>
  /\ job' = [job EXCEPT !.cmd = "open", !.acc.file = log[Head(job.sources).path].id]
  /\ UNCHANGED <<log, written, ready, hist, staging, corpus, wm, crashed, taken, again, refused, missed>>

\* ... and the one that is there now is read; without one the command fails.
HarvestRead ==
  /\ job.cmd = "open"
  /\ job' = IF log[Head(job.sources).path] = NoLog THEN NoJob
            ELSE [job EXCEPT !.cmd = "name", !.sources = Tail(@),
                             !.acc = ReadSource(@, Head(job.sources))]
  /\ UNCHANGED <<log, written, ready, hist, staging, corpus, wm, crashed, taken, again, refused, missed>>

HarvestStage ==
  /\ job.cmd = "name" /\ job.sources = << >>
  /\ LET acc  == job.acc
         kept == SubSeq(acc.pending, 1, Min({PendingLimit, Len(acc.pending)}))
         lost == wm.dropped + Len(acc.pending) - Len(kept)
     IN Stage(acc.adds,
              [wm EXCEPT !.file = acc.file, !.off = acc.off, !.keys = acc.keys,
                         !.pending = kept, !.dropped = Min({lost, Len(PromptOf)}),
                         !.files = 0, !.commits = {}])
  /\ UNCHANGED <<log, written, ready, hist, corpus, wm, crashed, refused, missed>>

-----------------------------------------------------------------------------
\* import-history and import-git

Origin(h) == IF h \in Automation THEN "automation"
             ELSE IF h \in Uncertain THEN "uncertain" ELSE "human"

\* A history prompt: dropped, remembered without staging, or staged.
Import(acc, h) ==
  CASE h \in Reconciled \cup acc.hashes -> acc
    [] h \notin Reconciled \cup acc.hashes /\ Origin(h) = "automation" ->
         [acc EXCEPT !.hashes = @ \cup {h}]
    [] h \notin Reconciled \cup acc.hashes /\ Origin(h) = "uncertain" ->
         [acc EXCEPT !.complete = FALSE]
    [] OTHER -> [acc EXCEPT !.hashes = @ \cup {h},
                   !.adds = IF h \in Known \cup Hashes(staging) \cup Hashes(@) THEN @
                            ELSE Append(@, Item(@, h, 5, 0))]

ImportHistory ==
  /\ job.cmd = "none"
  /\ LET none   == [hashes |-> wm.hashes, adds |-> << >>, complete |-> TRUE]
         result == IF wm.files = hist THEN none ELSE FoldLeft(Import, none, SubSeq(History, 1, hist))
     IN Stage(result.adds, [wm EXCEPT !.hashes = result.hashes,
                                      !.files = IF result.complete THEN hist ELSE @])
  /\ UNCHANGED <<log, written, ready, hist, corpus, wm, crashed, refused, missed>>

Commit(acc, n) ==
  LET h == Commits[n] IN
  IF n \in wm.commits THEN acc
  ELSE [hashes |-> acc.hashes \cup {h},
        adds   |-> IF h \in acc.hashes \cup Reconciled \cup Known
                              \cup Hashes(staging) \cup Hashes(acc.adds)
                   THEN acc.adds ELSE Append(acc.adds, Item(acc.adds, h, 3, 0))]

ImportGit ==
  /\ job.cmd = "none"
  /\ LET result == FoldLeft(Commit, [hashes |-> wm.hashes, adds |-> << >>],
                            [n \in DOMAIN Commits |-> n])
     IN Stage(result.adds, [wm EXCEPT !.hashes = result.hashes, !.commits = DOMAIN Commits])
  /\ UNCHANGED <<log, written, ready, hist, corpus, wm, crashed, refused, missed>>

-----------------------------------------------------------------------------
\* merge and the operator's edits of the staging file

CaseOf(item) == [id |-> item.id, h |-> item.h, rank |-> item.rank]
Judged       == {n \in DOMAIN staging : staging[n].judged}
Conflict(n)  == \E c \in corpus : c.id = staging[n].id /\ c # CaseOf(staging[n])

\* Mistake: staging is cleaned before the corpus is replaced.
MergeStagingFirst ==
  /\ job.cmd = "none"
  /\ \A n \in Judged : ~Conflict(n)
  /\ staging' = SelectSeq(staging, LAMBDA item : ~item.judged)
  /\ job' = [NoJob EXCEPT !.cmd = "merge", !.staging = staging']
  /\ UNCHANGED <<log, written, ready, hist, corpus, wm, crashed, taken, again, refused, missed>>

\* The corpus first: what is staged and in the corpus is a merge cut short.
Merge == /\ job.cmd = "none"
         /\ \A n \in Judged : ~Conflict(n)
         /\ corpus' = corpus \cup {CaseOf(staging[n]) : n \in Judged}
         /\ job' = [NoJob EXCEPT !.cmd = "merge",
                                 !.staging = SelectSeq(staging, LAMBDA item : ~item.judged)]
         /\ UNCHANGED <<log, written, ready, hist, staging, wm, crashed, taken, again, refused, missed>>

MergeClean == /\ job.cmd = "merge"
              /\ staging' = job.staging
              /\ job' = NoJob
              /\ UNCHANGED <<log, written, ready, hist, corpus, wm, crashed, taken, again, refused, missed>>

Judge(n) == /\ job.cmd = "none"
            /\ ~staging[n].judged
            /\ staging' = [staging EXCEPT ![n].judged = TRUE]
            /\ UNCHANGED <<log, written, ready, hist, corpus, wm, job, crashed, taken, again, refused, missed>>

Delete(n) == /\ job.cmd = "none"
             /\ ~staging[n].judged
             /\ staging' = RemoveAt(staging, n)
             /\ refused' = IF staging[n].h \in wm.staged THEN refused \cup {staging[n].h} ELSE refused
             /\ UNCHANGED <<log, written, ready, hist, corpus, wm, job, crashed, taken, again, missed>>

-----------------------------------------------------------------------------
\* The hooks that log, and the session files

Full == Len(log[1].recs) >= FileSize

\* History: the files of which a harvest may not see every record once the log
\* is rotated now, because it was not the watermark's file that was rotated (a
\* harvest reads that file and the newest), or because a harvest is under way.
OutOfSight ==
  LET kept == {log[k].id : k \in DOMAIN log}
      next == log[1].id + 1
  IN CASE job.cmd \in {"name", "open", "mark"} -> kept \cup {next}
       [] job.cmd \notin {"name", "open", "mark"} /\ wm.file = 0 -> {log[1].id, next}
       [] OTHER -> {log[1].id} \ {wm.file}

\* _rotate_log, by the hook that finds the file full and is about to append
RotateLog ==
  /\ Full /\ written < Len(PromptOf)
  /\ log' = <<NoLog>> \o SubSeq(log, 1, Min({Len(log), LogFiles - 1}))
  /\ missed' = missed \cup OutOfSight
  /\ UNCHANGED <<written, ready, hist, staging, corpus, wm, job, crashed, taken, again, refused>>

LogRoute ==
  /\ written < Len(PromptOf) /\ ~Full
  /\ written' = written + 1
  /\ log' = IF log[1] = NoLog
            THEN [log EXCEPT ![1] = [id   |-> IF Len(log) = 1 THEN 1 ELSE log[2].id + 1,
                                     recs |-> <<written'>>]]
            ELSE [log EXCEPT ![1].recs = Append(@, written')]
  /\ UNCHANGED <<ready, hist, staging, corpus, wm, job, crashed, taken, again, refused, missed>>

SessionAppears(r) == /\ r <= written /\ r \notin ready
                     /\ ready' = ready \cup {r}
                     /\ UNCHANGED <<log, written, hist, staging, corpus, wm, job,
                                     crashed, taken, again, refused, missed>>

HistoryGrows == /\ hist < Len(History)
                /\ hist' = hist + 1
                /\ UNCHANGED <<log, written, ready, staging, corpus, wm, job,
                               crashed, taken, again, refused, missed>>

CorpusNext == \/ HarvestPlan \/ HarvestName \/ HarvestRead \/ HarvestStage
              \/ ImportHistory \/ ImportGit \/ Mark \/ Crash
              \/ Merge \/ MergeClean \/ RotateLog \/ LogRoute \/ HistoryGrows
              \/ \E n \in DOMAIN staging : Judge(n) \/ Delete(n)
              \/ \E r \in Records : SessionAppears(r)

CorpusSpec == CorpusInit /\ [][CorpusNext]_corpusVars

-----------------------------------------------------------------------------
(* A record of the log is staged by one harvest only, however often its file  *)
(* is read again because of an unresolved record or a rotation (the keys of   *)
(* the watermark, harvest).  A harvest that died between its two dumps is      *)
(* repeated from the old watermark.                                           *)
HarvestedOnce == crashed = 0 => ~again

(* What the watermark has passed was dealt with: a record of a log file that  *)
(* is still kept and lies before the recorded position is in the keys, on the *)
(* pending list or counted as dropped from it, also when its session appears  *)
(* late or the file rotates (harvest, rotated_file, pending_dropped).  Passed *)
(* over may be records of files that were newest and not yet the watermark's  *)
(* when the log was rotated, or that the log had when it was rotated during a *)
(* harvest (corpus_sync.py:501 looks for two files, :534 names a file that    *)
(* :538 opens later).                                                         *)
Passed ==
  {x \in (DOMAIN log) \X (1..FileSize) :
     /\ x[2] <= Len(log[x[1]].recs)
     /\ log[x[1]].id < wm.file \/ (log[x[1]].id = wm.file /\ x[2] <= wm.off)
     /\ log[x[1]].id \notin missed}
NothingSkipped ==
  Cardinality({log[x[1]].recs[x[2]] : x \in Passed} \ (wm.keys \cup ToSet(wm.pending))) <= wm.dropped

(* A staged item and a corpus case with its id are the same case, so a merge  *)
(* that was cut short can be repeated and no later staging blocks it with a   *)
(* duplicate id (_next_id, merge).                                            *)
IdsAgree == \A n \in DOMAIN staging : ~Conflict(n)

(* A merge, finished or cut short, leaves every judged item in the corpus or  *)
(* still in staging (merge dumps the corpus first).                           *)
MergeLosesNothing ==
  [][job.cmd = "merge" \/ job'.cmd = "merge"
       => \A n \in Judged : staging[n].h \in Hashes(staging') \cup {c.h : c \in corpus'}]_corpusVars

(* A prompt the operator deleted from staging is not staged again by an       *)
(* import, although the imports read it again and again (_reconcile_rejected, *)
(* rejected_hashes).                                                          *)
RejectedStayOut ==
  [][\A h \in refused : h \notin Hashes(staging) /\ h \in Hashes(staging')
       => \E n \in DOMAIN staging' : staging'[n].h = h /\ staging'[n].rec # 0]_corpusVars

(* The log becomes staged cases exactly: no record twice, none passed over    *)
(* in a file a harvest could see, and no case under the id of another.        *)
HarvestExact == HarvestedOnce /\ NothingSkipped /\ IdsAgree

(* What an operator decided about a staged case outlasts every command that   *)
(* runs later: what was judged is merged, what was deleted stays away.        *)
JudgedWorkStays == MergeLosesNothing /\ RejectedStayOut
=============================================================================

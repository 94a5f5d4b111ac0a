---------------------------- MODULE StorageProofs ----------------------------
(***************************************************************************)
(* The files that hook processes share implement their abstract            *)
(* specifications, for any number of processes, keys, limits and kills:    *)
(* proofs about StateStore.tla, RouteCache.tla and VisualCache.tla.  And a *)
(* merge of the corpus, which writes two files, loses nothing between them *)
(* (CorpusSync.tla).                                                       *)
(*                                                                         *)
(* The state file is the register of StateRegister.tla.  One process at a  *)
(* time is between taking and giving up the flock, and while it is, what   *)
(* it has read is what the file holds, unless the file was damaged         *)
(* meanwhile.  So the file a process puts in place is the current content  *)
(* and its own update.                                                     *)
(*                                                                         *)
(* Both caches are the bounded map of BoundedCache.tla.  What carries them *)
(* is that eviction keeps min(limit, what there is) of the entries that    *)
(* may live: something alive is then forgotten only when the limit is      *)
(* reached.  The two make room at different moments, which is why their    *)
(* bounds differ by one.                                                   *)
(***************************************************************************)
EXTENDS StateStore, RouteCache, VisualCache, CorpusSync, FiniteSetTheorems, TLAPS

-----------------------------------------------------------------------------
(* The state file *)

Kinds == {"absent", "good", "invalid", "torn"}

\* A file that is not good holds nothing.
FileOK(f) == f \in File(Kinds) /\ (f.kind # "good" => f.updates = {})

\* Where a process holds the lock, and where it has read the file under it.
Holding == {"locked", "migrate", "migrated", "mark", "build", "temp", "replaced",
            "appended", "unlock", "recovering"}
HasRead == {"migrate", "migrated", "mark", "build"}

\* What p holds is the good content, if there is any.
Current(p) == disk.kind = "good" => data[p].kind = "good" /\ data[p].updates = disk.updates

\* What p is about to put in place of the file.
Built(p) ==
    /\ p \in Writers =>
          /\ data[p].kind = "good" /\ p \in data[p].updates
          /\ data[p].updates \ {p} \subseteq applied
          /\ disk.kind = "good" => data[p].updates = disk.updates \cup {p}
    /\ p \in Replayers => data[p].kind = "good" /\ data[p].updates = {p}
    /\ p \in Loaders => data[p].updates \subseteq applied /\ Current(p)

ProcOK(p) ==
    /\ FileOK(data[p])
    /\ pc[p] \in Holding => lock = p
    /\ pc[p] \notin {"temp", "killed"} => data[p].updates \subseteq applied
    /\ pc[p] \in HasRead => Current(p) /\ (p \notin Loaders => Readable(data[p]))
    /\ pc[p] = "temp" => Built(p)

StoreInv ==
    /\ FileOK(disk) /\ disk.updates \subseteq applied
    /\ pc = [p \in StoreProcs |-> pc[p]]
    /\ data = [p \in StoreProcs |-> data[p]]
    /\ \A p \in StoreProcs : ProcOK(p)

-----------------------------------------------------------------------------
(* The invariant *)

\* A process that keeps its place and what it holds is not disturbed by one that
\* has the lock, whatever that one does to the file, nor by a damage.
LEMMA Undisturbed ==
    ASSUME StoreInv, NEW q \in StoreProcs,
           pc'[q] = pc[q], data'[q] = data[q], applied \subseteq applied',
           \/ lock' = lock /\ (disk' = disk \/ disk'.kind # "good")
           \/ pc[q] \notin Holding
    PROVE  ProcOK(q)'
<1>1. ProcOK(q) BY DEF StoreInv
<1>2. CASE pc[q] \notin Holding
  BY <1>1, <1>2 DEF ProcOK, Holding, HasRead
<1>3. CASE lock' = lock /\ disk' = disk
  BY <1>1, <1>3 DEF ProcOK, Built, Current
<1>4. CASE lock' = lock /\ disk'.kind # "good"
  BY <1>1, <1>4 DEF ProcOK, Built, Current
<1> QED BY <1>2, <1>3, <1>4

\* One process moves; the others are where they were.
LEMMA OneMoves ==
    ASSUME StoreInv, NEW p \in StoreProcs, NEW step, NEW f,
           pc' = [pc EXCEPT ![p] = step], data' = [data EXCEPT ![p] = f] \/ (data' = data /\ f = data[p]),
           applied \subseteq applied', FileOK(disk'), disk'.updates \subseteq applied',
           pc'[p] = step /\ data'[p] = f => ProcOK(p)',
           \A q \in StoreProcs \ {p} :
              \/ lock' = lock /\ (disk' = disk \/ disk'.kind # "good")
              \/ pc[q] \notin Holding
    PROVE  StoreInv'
<1>1. pc'[p] = step /\ data'[p] = f
  BY DEF StoreInv
<1>2. ASSUME NEW q \in StoreProcs \ {p} PROVE ProcOK(q)'
  <2>1. pc'[q] = pc[q] /\ data'[q] = data[q]
    BY DEF StoreInv
  <2> QED BY <2>1, Undisturbed
<1>3. pc' = [q \in StoreProcs |-> pc'[q]] /\ data' = [q \in StoreProcs |-> data'[q]]
  BY DEF StoreInv
<1> QED BY <1>1, <1>2, <1>3 DEF StoreInv

\* While p has the lock nobody else does.
LEMMA Alone ==
    ASSUME StoreInv, NEW p \in StoreProcs, lock = p \/ lock = Nobody
    PROVE  \A q \in StoreProcs \ {p} : pc[q] \notin Holding
BY StoreAssumption DEF StoreInv, ProcOK

LEMMA FilesOK == FileOK(NoFile) /\ FileOK(Starting)
BY DEF FileOK, File, NoFile, Starting, Kinds

\* Every file the program may find at first holds no update.
LEMMA InitialFile == StoreInit => FileOK(disk) /\ disk.updates = {}
<1> SUFFICES ASSUME StoreInit PROVE FileOK(disk) /\ disk.updates = {} OBVIOUS
<1>1. PICK k \in Kinds, l \in BOOLEAN : disk = [kind |-> k, updates |-> {}, legacy |-> l]
  <2>1. CASE disk = NoFile
    BY <2>1 DEF NoFile, Kinds
  <2>2. CASE disk = Starting \/ disk = [Starting EXCEPT !.legacy = TRUE]
    BY <2>2 DEF Starting, NoFile, Kinds
  <2>3. CASE \E k \in {"invalid", "torn"}, l \in BOOLEAN :
               disk = [kind |-> k, updates |-> {}, legacy |-> l]
    BY <2>3 DEF Kinds
  <2> QED BY <2>1, <2>2, <2>3 DEF StoreInit, InitFiles
<1> QED BY <1>1 DEF FileOK, File

LEMMA InitStore == StoreInit => StoreInv
<1> SUFFICES ASSUME StoreInit PROVE StoreInv OBVIOUS
<1>1. FileOK(disk) /\ disk.updates = {}
  BY InitialFile
<1>2. ASSUME NEW p \in StoreProcs PROVE ProcOK(p)
  <2>1. data[p] = NoFile /\ pc[p] = "start"
    BY DEF StoreInit
  <2>2. NoFile.updates = {} BY DEF NoFile
  <2> QED BY <2>1, <2>2, FilesOK DEF ProcOK, Holding, HasRead
<1>3. pc = [p \in StoreProcs |-> pc[p]] /\ data = [p \in StoreProcs |-> data[p]]
  BY DEF StoreInit
<1>4. disk.updates \subseteq applied
  BY <1>1
<1> QED BY <1>1, <1>2, <1>3, <1>4 DEF StoreInv

-----------------------------------------------------------------------------
(* Steps that leave the file alone *)

LEMMA PeekStore == ASSUME StoreInv, NEW p \in StoreProcs, Peek(p) PROVE StoreInv'
<1> DEFINE step == CASE disk.kind = "absent" -> "done"
                     [] disk.kind = "torn"   -> "recover"
                     [] disk.legacy          -> "rewrite"
                     [] OTHER                -> "check"
<1>1. /\ pc' = [pc EXCEPT ![p] = step] /\ data' = [data EXCEPT ![p] = disk]
      /\ disk' = disk /\ applied' = applied /\ lock' = lock
  BY DEF Peek, Goto, Hold, store, ghosts
<1>2. step \in {"done", "recover", "rewrite", "check"}
  OBVIOUS
<1>3. FileOK(disk) /\ disk.updates \subseteq applied
  BY DEF StoreInv
<1>4. pc'[p] = step /\ data'[p] = disk => ProcOK(p)'
  <2> HIDE DEF step
  <2> QED BY <1>1, <1>2, <1>3 DEF ProcOK, Holding, HasRead
<1> HIDE DEF step
<1> QED BY <1>1, <1>3, <1>4, OneMoves

LEMMA ValidateStore == ASSUME StoreInv, NEW p \in StoreProcs, Validate(p) PROVE StoreInv'
<1> DEFINE step == IF data[p].kind = "good" THEN "done" ELSE "recover"
<1>1. /\ pc' = [pc EXCEPT ![p] = step] /\ data' = data /\ pc[p] = "check"
      /\ disk' = disk /\ applied' = applied /\ lock' = lock
  BY DEF Validate, At, Goto, store, ghosts
<1>2. step \in {"done", "recover"}
  OBVIOUS
<1>3. FileOK(disk) /\ disk.updates \subseteq applied /\ ProcOK(p)
  BY DEF StoreInv
<1>4. pc'[p] = step /\ data'[p] = data[p] => ProcOK(p)'
  <2> HIDE DEF step
  <2> QED BY <1>1, <1>2, <1>3 DEF ProcOK, Holding, HasRead
<1> HIDE DEF step
<1> QED BY <1>1, <1>3, <1>4, OneMoves

LEMMA AcquireStore == ASSUME StoreInv, NEW p \in StoreProcs, Acquire(p) PROVE StoreInv'
<1>1. /\ lock = Nobody /\ lock' = p /\ data' = data
      /\ disk' = disk /\ applied' = applied /\ pc[p] \in {"start", "rewrite", "recover"}
  BY DEF Acquire, At, store, ghosts
<1>2. PICK step \in {"locked", "recovering"} : pc' = [pc EXCEPT ![p] = step]
  BY DEF Acquire, Goto
<1>3. FileOK(disk) /\ disk.updates \subseteq applied /\ ProcOK(p)
  BY DEF StoreInv
<1>4. pc'[p] = step /\ data'[p] = data[p] => ProcOK(p)'
  BY <1>1, <1>2, <1>3 DEF ProcOK, Holding, HasRead
<1> QED BY <1>1, <1>2, <1>3, <1>4, Alone, OneMoves

LEMMA UnlockStore == ASSUME StoreInv, NEW p \in StoreProcs, Unlock(p) PROVE StoreInv'
<1> DEFINE step == IF p \in Loaders THEN "check" ELSE "done"
<1>1. /\ pc' = [pc EXCEPT ![p] = step] /\ data' = data /\ pc[p] = "unlock"
      /\ disk' = disk /\ applied' = applied
  BY DEF Unlock, At, Goto, store, ghosts
<1>2. step \in {"check", "done"}
  OBVIOUS
<1>3. FileOK(disk) /\ disk.updates \subseteq applied /\ ProcOK(p)
  BY DEF StoreInv
<1>4. lock = p
  BY <1>1, <1>3 DEF ProcOK, Holding
<1>5. pc'[p] = step /\ data'[p] = data[p] => ProcOK(p)'
  <2> HIDE DEF step
  <2> QED BY <1>1, <1>2, <1>3 DEF ProcOK, Holding, HasRead
<1> HIDE DEF step
<1> QED BY <1>1, <1>3, <1>4, <1>5, Alone, OneMoves

\* The history: p keeps the lock and what it holds.
LEMMA HistoryStore ==
    ASSUME StoreInv, NEW p \in StoreProcs,
           MigrateAppend(p) \/ CutHistory(p) \/ WriteMarker(p) \/ AppendDecision(p)
    PROVE  StoreInv'
<1>1. data' = data /\ disk' = disk /\ applied' = applied /\ lock' = lock
  BY DEF MigrateAppend, CutHistory, WriteMarker, AppendDecision, ghosts
<1>2. PICK step \in {"migrated", "mark", "unlock", "build", "appended"} :
        /\ pc' = [pc EXCEPT ![p] = step]
        /\ step \in HasRead => pc[p] \in HasRead
        /\ pc[p] \in Holding \ {"temp"}
  BY DEF MigrateAppend, CutHistory, WriteMarker, AppendDecision, Goto, At, HasRead, Holding
<1>3. FileOK(disk) /\ disk.updates \subseteq applied /\ ProcOK(p)
  BY DEF StoreInv
<1>4. pc[p] # "killed" /\ step \in Holding /\ step # "temp"
  BY <1>2 DEF Holding
<1>5. pc'[p] = step /\ data'[p] = data[p] => ProcOK(p)'
  BY <1>1, <1>2, <1>3, <1>4 DEF ProcOK, Current
<1> QED BY <1>1, <1>2, <1>3, <1>5, OneMoves

LEMMA KillStore == ASSUME StoreInv, NEW p \in StoreProcs, Kill(p) PROVE StoreInv'
<1>1. /\ pc' = [pc EXCEPT ![p] = "killed"] /\ data' = data
      /\ disk' = disk /\ applied' = applied
      /\ lock' = IF lock = p THEN Nobody ELSE lock
  BY DEF Kill, Goto
<1>2. FileOK(disk) /\ disk.updates \subseteq applied /\ ProcOK(p)
  BY DEF StoreInv
<1>3. pc'[p] = "killed" /\ data'[p] = data[p] => ProcOK(p)'
  BY <1>1, <1>2 DEF ProcOK, Holding, HasRead
<1>4. \A q \in StoreProcs \ {p} : (lock' = lock /\ disk' = disk) \/ pc[q] \notin Holding
  BY <1>1, Alone
<1> QED BY <1>1, <1>2, <1>3, <1>4, OneMoves

-----------------------------------------------------------------------------
(* Steps that may touch the file *)

LEMMA RecoverStore == ASSUME StoreInv, NEW p \in StoreProcs, RecoverUnderLock(p) PROVE StoreInv'
<1> DEFINE step == IF disk' # NoFile /\ disk'.legacy THEN "rewrite" ELSE "done"
<1>1. /\ pc' = [pc EXCEPT ![p] = step] /\ data' = [data EXCEPT ![p] = disk']
      /\ applied' = applied /\ pc[p] = "recovering"
      /\ disk' = IF disk.kind = "good" THEN disk ELSE NoFile
  BY DEF RecoverUnderLock, At, Goto, Hold, ghosts
<1>2. FileOK(disk) /\ disk.updates \subseteq applied /\ ProcOK(p)
  BY DEF StoreInv
<1>3. FileOK(disk') /\ disk'.updates \subseteq applied
  BY <1>1, <1>2, FilesOK DEF NoFile
<1>4. lock = p
  BY <1>1, <1>2 DEF ProcOK, Holding
<1>5. step \in {"rewrite", "done"}
  OBVIOUS
<1>6. pc'[p] = step /\ data'[p] = disk' => ProcOK(p)'
  <2> HIDE DEF step
  <2> QED BY <1>1, <1>3, <1>5 DEF ProcOK, Holding, HasRead
<1> HIDE DEF step
<1> QED BY <1>1, <1>3, <1>4, <1>6, Alone, OneMoves

LEMMA ReadStore == ASSUME StoreInv, NEW p \in StoreProcs, Read(p) PROVE StoreInv'
<1> DEFINE f == IF Readable(disk) THEN disk ELSE Default(p)
           step == IF MustMigrate(data'[p]) THEN "migrate" ELSE "build"
<1>1. /\ pc' = [pc EXCEPT ![p] = step] /\ data' = [data EXCEPT ![p] = f]
      /\ applied' = applied /\ lock' = lock /\ pc[p] = "locked"
      /\ disk' = IF disk.kind = "torn" THEN NoFile ELSE disk
  BY DEF Read, At, Goto, Hold, ghosts
<1>2. FileOK(disk) /\ disk.updates \subseteq applied /\ ProcOK(p)
  BY DEF StoreInv
<1>3. FileOK(disk') /\ disk'.updates \subseteq applied
  BY <1>1, <1>2, FilesOK DEF NoFile
<1>4. lock = p
  BY <1>1, <1>2 DEF ProcOK, Holding
<1>5. FileOK(f) /\ f.updates \subseteq applied
  <2>1. Starting.updates = {} BY DEF Starting, NoFile
  <2> QED BY <1>1, <1>2, <2>1, FilesOK DEF Default, ProcOK
<1>6. disk'.kind = "good" => f = disk /\ disk' = disk
  BY <1>1 DEF Readable, NoFile
<1>7. p \notin Loaders => Readable(f)
  BY DEF Default, Readable, Starting, NoFile
<1>8. step \in {"migrate", "build"}
  OBVIOUS
<1>9. pc'[p] = step /\ data'[p] = f => ProcOK(p)'
  <2> HIDE DEF step, f
  <2> SUFFICES ASSUME pc'[p] = step, data'[p] = f PROVE ProcOK(p)' OBVIOUS
  <2>1. Current(p)'
    BY <1>6 DEF Current
  <2> QED BY <1>1, <1>4, <1>5, <1>7, <1>8, <2>1 DEF ProcOK, Readable
<1> HIDE DEF step, f
<1> QED BY <1>1, <1>3, <1>4, <1>9, Alone, OneMoves

LEMMA BuildStore == ASSUME StoreInv, NEW p \in StoreProcs, Build(p) PROVE StoreInv'
<1> DEFINE invalid == data[p].kind = "invalid" /\ p \in Writers
           base    == IF invalid THEN Starting ELSE [data[p] EXCEPT !.legacy = FALSE]
           f       == CASE p \in Writers   -> [base EXCEPT !.updates = @ \cup {p}]
                        [] p \in Replayers -> [Starting EXCEPT !.updates = {p}]
                        [] OTHER           -> base
<1>1. /\ pc' = [pc EXCEPT ![p] = "temp"] /\ data' = [data EXCEPT ![p] = f]
      /\ applied' = applied /\ lock' = lock /\ pc[p] = "build"
      /\ disk' = IF invalid THEN NoFile ELSE disk
  BY DEF Build, At, Goto, Hold, ghosts
<1>2. /\ FileOK(disk) /\ disk.updates \subseteq applied /\ ProcOK(p)
      /\ data[p].updates \subseteq applied /\ FileOK(data[p])
      /\ Current(p) /\ (p \notin Loaders => Readable(data[p]))
  BY <1>1 DEF StoreInv, ProcOK, HasRead
<1>3. FileOK(disk') /\ disk'.updates \subseteq applied
  BY <1>1, <1>2, FilesOK DEF NoFile
<1>4. lock = p
  BY <1>1, <1>2 DEF ProcOK, Holding
<1>5. disk'.kind = "good" => disk' = disk
  BY <1>1 DEF NoFile
<1>6. /\ FileOK(base) /\ base.updates \subseteq applied
      /\ p \in Writers => base.kind = "good"
      /\ disk.kind = "good" => base.kind = "good" /\ base.updates = disk.updates
  <2>1. CASE invalid
    BY <1>2, <2>1, FilesOK DEF Current, Starting, NoFile
  <2>2. CASE ~invalid
    <3>1. /\ base \in File(Kinds) /\ base.kind = data[p].kind
          /\ base.updates = data[p].updates
      BY <1>2, <2>2 DEF FileOK, File
    <3>2. p \in Writers => data[p].kind = "good"
      BY <1>2, <2>2, StoreAssumption DEF Readable
    <3> QED BY <1>2, <3>1, <3>2 DEF FileOK, Current
  <2> QED BY <2>1, <2>2
<1>7. pc'[p] = "temp" /\ data'[p] = f => ProcOK(p)'
  <2> SUFFICES ASSUME pc'[p] = "temp", data'[p] = f PROVE ProcOK(p)' OBVIOUS
  <2>1. CASE p \in Writers
    <3>1. /\ f \in File(Kinds) /\ f.kind = "good" /\ f.updates = base.updates \cup {p}
      <4>1. f = [base EXCEPT !.updates = base.updates \cup {p}]
        BY <2>1, StoreAssumption
      <4> HIDE DEF f, base
      <4>2. base \in File(Kinds) /\ base.kind = "good"
        BY <1>6, <2>1 DEF FileOK
      <4>3. base.updates \cup {p} \in SUBSET (Writers \cup Replayers)
        BY <2>1, <4>2 DEF File
      <4> HIDE DEF FileOK
      <4> QED BY <4>1, <4>2, <4>3 DEF File
    <3>2. p \notin Replayers /\ p \notin Loaders
      BY <2>1, StoreAssumption
    <3> HIDE DEF f, base, invalid
    <3> QED BY <1>1, <1>4, <1>5, <1>6, <3>1, <3>2 DEF ProcOK, Built, FileOK, HasRead
  <2>2. CASE p \in Replayers
    <3>1. p \notin Writers /\ p \notin Loaders
      BY <2>2, StoreAssumption
    <3>2. f \in File(Kinds) /\ f.kind = "good" /\ f.updates = {p}
      <4>1. f = [Starting EXCEPT !.updates = {p}]
        BY <2>2, <3>1
      <4> HIDE DEF f
      <4> QED BY <2>2, <4>1 DEF Starting, NoFile, File, Kinds
    <3> HIDE DEF f, base, invalid
    <3> QED BY <1>1, <1>4, <3>1, <3>2 DEF ProcOK, Built, FileOK, HasRead
  <2>3. CASE p \notin Writers /\ p \notin Replayers
    <3>1. f = base
      BY <2>3
    <3> HIDE DEF f, base, invalid
    <3> QED BY <1>1, <1>4, <1>5, <1>6, <2>3, <3>1 DEF ProcOK, Built, Current, HasRead
  <2> QED BY <2>1, <2>2, <2>3
<1> HIDE DEF f, base, invalid
<1> QED BY <1>1, <1>3, <1>4, <1>7, Alone, OneMoves

\* What is built stays good once it is on disk.
LEMMA ReplaceStore == ASSUME StoreInv, NEW p \in StoreProcs, Replace(p) PROVE StoreInv'
<1>1. /\ data' = data /\ disk' = data[p] /\ lock' = lock /\ pc[p] = "temp"
      /\ applied' = applied \cup data[p].updates
  BY DEF Replace, At
<1>2. PICK step \in {"replaced", "unlock"} : pc' = [pc EXCEPT ![p] = step]
  BY DEF Replace, Goto
<1>3. FileOK(data[p]) /\ lock = p
  BY <1>1 DEF StoreInv, ProcOK, Holding
<1>4. pc'[p] = step /\ data'[p] = data[p] => ProcOK(p)'
  BY <1>1, <1>2, <1>3 DEF ProcOK, Holding, HasRead
<1> QED BY <1>1, <1>2, <1>3, <1>4, Alone, OneMoves

LEMMA DamageStore == ASSUME StoreInv, Damage PROVE StoreInv'
<1>1. pc' = pc /\ data' = data /\ applied' = applied /\ lock' = lock
  BY DEF Damage
<1>2. FileOK(disk') /\ disk'.updates = {} /\ disk'.kind # "good"
  <2>1. disk \in File(Kinds)
    BY DEF StoreInv, FileOK
  <2>2. CASE disk' = [NoFile EXCEPT !.kind = "torn"]
    BY <2>2 DEF NoFile, FileOK, File, Kinds
  <2>3. CASE disk' = [disk EXCEPT !.kind = "invalid", !.updates = {}]
    BY <2>1, <2>3 DEF FileOK, File, Kinds
  <2> QED BY <2>2, <2>3 DEF Damage
<1>3. ASSUME NEW q \in StoreProcs PROVE ProcOK(q)'
  BY <1>1, <1>2, Undisturbed
<1> QED BY <1>1, <1>2, <1>3 DEF StoreInv

LEMMA NextStore == StoreInv /\ [StoreNext]_storeVars => StoreInv'
<1> SUFFICES ASSUME StoreInv, [StoreNext]_storeVars PROVE StoreInv' OBVIOUS
<1>1. ASSUME NEW p \in StoreProcs, Step(p) PROVE StoreInv'
  BY <1>1, PeekStore, ValidateStore, AcquireStore, RecoverStore, ReadStore, HistoryStore,
     BuildStore, ReplaceStore, UnlockStore DEF Step
<1>2. CASE UNCHANGED storeVars
  BY <1>2 DEF storeVars, store, ghosts, StoreInv, ProcOK, Built, Current, Readable, FileOK
<1> QED BY <1>1, <1>2, KillStore, DamageStore DEF StoreNext, AllEnded

\* The invariant of the state file holds throughout.
THEOREM StoreInvariant == StoreSpec => []StoreInv
BY InitStore, NextStore, PTL DEF StoreSpec

-----------------------------------------------------------------------------
(* The steps of the register *)

\* A step that leaves an unreadable file unreadable, or the file as it was,
\* changes nothing of the register.
Idle == /\ disk' = disk \/ (disk.kind # "good" /\ disk'.kind # "good")
        /\ applied' = applied

LEMMA IdleSteps ==
    ASSUME StoreInv, NEW p \in StoreProcs, Step(p) \/ Kill(p), ~Replace(p)
    PROVE  Idle
<1>1. CASE Peek(p) \/ Validate(p) \/ Acquire(p) \/ Unlock(p) \/ Kill(p)
  BY <1>1 DEF Idle, Peek, Validate, Acquire, Unlock, Kill, store, ghosts
<1>2. CASE MigrateAppend(p) \/ CutHistory(p) \/ WriteMarker(p) \/ AppendDecision(p)
  BY <1>2 DEF Idle, MigrateAppend, CutHistory, WriteMarker, AppendDecision, ghosts
<1>3. CASE RecoverUnderLock(p) \/ Read(p)
  BY <1>3 DEF Idle, RecoverUnderLock, Read, ghosts, NoFile
<1>4. CASE Build(p)
  <2>1. pc[p] = "build" /\ ProcOK(p)
    BY <1>4 DEF Build, At, StoreInv
  <2>2. disk.kind = "good" => data[p].kind = "good"
    BY <2>1 DEF ProcOK, HasRead, Current
  <2>3. /\ applied' = applied
        /\ disk' = IF data[p].kind = "invalid" /\ p \in Writers THEN NoFile ELSE disk
    BY <1>4 DEF Build, ghosts
  <2> QED BY <2>2, <2>3 DEF Idle, NoFile
<1> QED BY <1>1, <1>2, <1>3, <1>4 DEF Step

LEMMA IdleRegister ==
    ASSUME Idle PROVE UNCHANGED Register!registerVars
BY DEF Idle, Register!registerVars

LEMMA ReplaceRegister ==
    ASSUME StoreInv, NEW p \in StoreProcs, Replace(p)
    PROVE  [Register!Next]_(Register!registerVars)
<1>1. /\ disk' = data[p] /\ pc[p] = "temp" /\ applied' = applied \cup data[p].updates
  BY DEF Replace, At
<1>2. FileOK(data[p]) /\ FileOK(disk) /\ Built(p) /\ disk.updates \subseteq applied
  BY <1>1 DEF StoreInv, ProcOK
<1>3. CASE p \in Writers /\ disk.kind = "good"
  <2>1. Register!Apply(p)
    BY <1>1, <1>2, <1>3 DEF Register!Apply, Built
  <2> QED BY <1>3, <2>1 DEF Register!Next
<1>4. CASE p \in Writers /\ disk.kind # "good"
  <2>1. disk'.kind = "good" /\ disk'.updates = (disk'.updates \ {p}) \cup {p}
    BY <1>1, <1>2, <1>4 DEF Built
  <2>2. disk'.updates \ {p} \in SUBSET applied /\ applied' = applied \cup {p}
    BY <1>1, <1>2, <1>4 DEF Built
  <2>3. Register!Recover(p)
    BY <1>4, <2>1, <2>2 DEF Register!Recover
  <2> QED BY <1>4, <2>3 DEF Register!Next
<1>5. CASE p \in Replayers
  <2>1. Register!Replay(p)
    BY <1>1, <1>2, <1>5 DEF Register!Replay, Built
  <2> QED BY <1>5, <2>1 DEF Register!Next
<1>6. CASE p \in Loaders
  <2>1. applied' = applied /\ (disk.kind = "good" => disk'.kind = "good" /\ disk'.updates = disk.updates)
    BY <1>1, <1>2, <1>6 DEF Built, Current
  <2>2. CASE disk.kind = "good" \/ disk'.kind # "good"
    BY <2>1, <2>2 DEF Register!registerVars
  <2>3. CASE disk.kind # "good" /\ disk'.kind = "good"
    <3>1. Register!Restore
      BY <1>1, <1>2, <1>6, <2>1, <2>3 DEF Register!Restore, Built
    <3> QED BY <3>1 DEF Register!Next
  <2> QED BY <2>2, <2>3
<1> QED BY <1>3, <1>4, <1>5, <1>6 DEF StoreProcs

LEMMA DamageRegister == ASSUME Damage PROVE Register!Next
<1>1. disk'.kind # "good" /\ applied' = applied
  <2>1. CASE disk' = [NoFile EXCEPT !.kind = "torn"]
    BY <2>1 DEF NoFile, Damage
  <2>2. CASE disk' = [disk EXCEPT !.kind = "invalid", !.updates = {}]
    BY <2>2 DEF Damage
  <2> QED BY <2>1, <2>2 DEF Damage
<1>2. Register!Damage
  BY <1>1 DEF Register!Damage
<1> QED BY <1>2 DEF Register!Next

LEMMA RegisterSteps ==
    StoreInv /\ [StoreNext]_storeVars => [Register!Next]_(Register!registerVars)
<1> SUFFICES ASSUME StoreInv, [StoreNext]_storeVars PROVE [Register!Next]_(Register!registerVars)
  OBVIOUS
<1>1. ASSUME NEW p \in StoreProcs, Step(p) \/ Kill(p)
      PROVE  [Register!Next]_(Register!registerVars)
  BY <1>1, IdleSteps, IdleRegister, ReplaceRegister
<1>2. CASE UNCHANGED storeVars
  <2>1. Idle
    BY <1>2 DEF Idle, storeVars, store, ghosts
  <2> QED BY <2>1, IdleRegister
<1> QED BY <1>1, <1>2, DamageRegister DEF StoreNext, AllEnded

LEMMA RegisterStarts == StoreInit => Register!Init
<1> SUFFICES ASSUME StoreInit PROVE Register!Init OBVIOUS
<1>1. disk.updates = {}
  BY InitialFile
<1> QED BY <1>1 DEF StoreInit, Register!Init

\* Whatever is interleaved, killed and damaged, the file on disk behaves as the
\* register: no update that was completed is undone by another one.
THEOREM StoreImplementsRegister == StoreSpec => ImplementsRegister
<1>1. StoreSpec => Register!Spec
  BY RegisterStarts, RegisterSteps, StoreInvariant, PTL DEF StoreSpec, Register!Spec
<1> QED BY <1>1 DEF ImplementsRegister

\* A readable file is never moved aside by the recovery of an unreadable one.
LEMMA GoodStays == StoreInv /\ [StoreNext]_storeVars => (disk.kind = "good" => disk'.kind # "absent")
<1> SUFFICES ASSUME StoreInv, [StoreNext]_storeVars, disk.kind = "good" PROVE disk'.kind # "absent"
  OBVIOUS
<1>1. ASSUME NEW p \in StoreProcs, Step(p) \/ Kill(p), ~Replace(p) PROVE disk'.kind # "absent"
  BY <1>1, IdleSteps DEF Idle
<1>2. ASSUME NEW p \in StoreProcs, Replace(p) PROVE disk'.kind # "absent"
  <2>1. disk' = data[p] /\ Built(p)
    BY <1>2 DEF Replace, At, StoreInv, ProcOK
  <2> QED BY <2>1 DEF Built, Current, StoreProcs
<1>3. CASE Damage
  <2>1. CASE disk' = [NoFile EXCEPT !.kind = "torn"]
    BY <2>1 DEF NoFile
  <2>2. CASE disk' = [disk EXCEPT !.kind = "invalid", !.updates = {}]
    BY <2>2 DEF StoreInv, FileOK, File
  <2> QED BY <1>3, <2>1, <2>2 DEF Damage
<1>4. CASE UNCHANGED storeVars
  BY <1>4 DEF storeVars, store
<1> QED BY <1>1, <1>2, <1>3, <1>4 DEF StoreNext, AllEnded

THEOREM GoodFileStaysProved == StoreSpec => GoodFileStays
BY StoreInvariant, GoodStays, PTL DEF StoreSpec, GoodFileStays

-----------------------------------------------------------------------------
(* Eviction *)

LEMMA MinOfTwo ==
    ASSUME NEW a \in Nat, NEW b \in Nat
    PROVE  Min({a, b}) = IF a <= b THEN a ELSE b
<1> DEFINE m == IF a <= b THEN a ELSE b
<1>1. m \in {a, b} /\ \A y \in {a, b} : m <= y
  OBVIOUS
<1>2. \A x \in {a, b} : (\A y \in {a, b} : x <= y) => x = m
  OBVIOUS
<1> HIDE DEF m
<1>3. (CHOOSE x \in {a, b} : \A y \in {a, b} : x <= y) = m
  BY <1>1, <1>2
<1> QED BY <1>3 DEF Min, m

\* A choice of min(limit, all) elements leaves something out only when it has
\* reached the limit.
LEMMA RoomKept ==
    ASSUME NEW all, IsFiniteSet(all), NEW kept \in SUBSET all, NEW limit \in Nat,
           Cardinality(kept) = Min({limit, Cardinality(all)})
    PROVE  /\ IsFiniteSet(kept) /\ Cardinality(kept) \in Nat
           /\ Cardinality(kept) <= limit
           /\ kept # all => Cardinality(kept) = limit
<1>1. /\ IsFiniteSet(kept) /\ Cardinality(all) \in Nat /\ Cardinality(kept) \in Nat
      /\ Cardinality(kept) <= Cardinality(all)
      /\ kept # all => Cardinality(kept) < Cardinality(all)
  BY FS_Subset, FS_CardinalityType
<1>2. Cardinality(kept) = IF limit <= Cardinality(all) THEN limit ELSE Cardinality(all)
  BY <1>1, MinOfTwo
<1> QED BY <1>1, <1>2

\* The instances count as this module does.
LEMMA SameCount ==
    ASSUME NEW S PROVE Routes!Cardinality(S) = Cardinality(S) /\ Visuals!Cardinality(S) = Cardinality(S)
BY DEF Routes!Cardinality, Visuals!Cardinality, Cardinality

-----------------------------------------------------------------------------
(* The route cache *)

RouteEntry(e) ==
    /\ e \in [value : Nat, since : Nat, life : TTLs]
    /\ e.since <= clock

RouteInv ==
    /\ clock \in Nat /\ puts \in Nat
    /\ IsFiniteSet(DOMAIN entries)
    /\ entries = [k \in DOMAIN entries |-> entries[k]]
    /\ \A k \in DOMAIN entries : RouteEntry(entries[k])
    /\ top # Nothing /\ top.key \in DOMAIN entries => entries[top.key].value = top.value
    /\ top # Nothing => top.value = puts - 1

LEMMA InitRoutes == RouteCacheInit => RouteInv /\ Routes!Init
<1> SUFFICES ASSUME RouteCacheInit PROVE RouteInv /\ Routes!Init OBVIOUS
<1>1. DOMAIN entries = {} /\ IsFiniteSet({})
  BY FS_EmptySet DEF RouteCacheInit
<1>2. entries = [k \in DOMAIN entries |-> entries[k]]
  BY <1>1 DEF RouteCacheInit
<1> QED BY <1>1, <1>2 DEF RouteCacheInit, RouteInv, Routes!Init

\* What a put keeps and what it stores, and how far the file grows.
LEMMA PutKeeps ==
    ASSUME RouteInv, NEW k \in Keys, NEW life \in TTLs, NEW kept \in Evicted
    PROVE  /\ kept \subseteq Live /\ IsFiniteSet(kept \cup {k})
           /\ Cardinality(kept \cup {k}) <= MaxEntries + 1
           /\ kept # Live => Cardinality(kept \cup {k}) >= MaxEntries
<1>1. MaxEntries \in Nat
  BY CacheAssumption
<1>2. kept \in SUBSET Live /\ Cardinality(kept) = Min({MaxEntries, Cardinality(Live)})
  BY DEF Evicted
<1>3. IsFiniteSet(Live)
  BY FS_Subset DEF Live, RouteInv
<1>4. /\ IsFiniteSet(kept) /\ Cardinality(kept) \in Nat /\ Cardinality(kept) <= MaxEntries
      /\ kept # Live => Cardinality(kept) = MaxEntries
  BY <1>1, <1>2, <1>3, RoomKept
<1>5. /\ IsFiniteSet(kept \cup {k})
      /\ Cardinality(kept \cup {k}) = IF k \in kept THEN Cardinality(kept) ELSE Cardinality(kept) + 1
  BY <1>4, FS_AddElement
<1> QED BY <1>1, <1>2, <1>4, <1>5

LEMMA PutRoutes ==
    ASSUME RouteInv, NEW k \in Keys, NEW life \in TTLs, CachePut(k, life)
    PROVE  RouteInv' /\ Routes!Put(k, puts, life, clock)
<1> DEFINE new == [value |-> puts, since |-> clock, life |-> life]
           offered == [x \in DOMAIN entries \cup {k} |-> IF x = k THEN new ELSE entries[x]]
<1>1. PICK kept \in Evicted :
        entries' = [x \in kept \cup {k} |-> IF x = k THEN new ELSE entries[x]]
  BY DEF CachePut
<1>2. /\ clock' = clock /\ puts' = puts + 1 /\ clock \in Nat /\ puts \in Nat
      /\ top' = [key |-> k, value |-> puts, since |-> clock]
  BY DEF CachePut, RouteInv
<1>3. /\ kept \subseteq Live /\ IsFiniteSet(kept \cup {k})
      /\ Cardinality(kept \cup {k}) <= MaxEntries + 1
      /\ kept # Live => Cardinality(kept \cup {k}) >= MaxEntries
  BY PutKeeps
<1>4. Live \subseteq DOMAIN entries
  BY DEF Live
<1>5. DOMAIN entries' = kept \cup {k} /\ entries' = [x \in DOMAIN entries' |-> entries'[x]]
  BY <1>1
<1>6. \A x \in DOMAIN entries' : entries'[x] = IF x = k THEN new ELSE entries[x]
  BY <1>1, <1>5
<1>7. ASSUME NEW x \in DOMAIN entries' PROVE RouteEntry(entries[x])'
  <2>1. CASE x = k
    BY <1>2, <1>6, <2>1 DEF RouteEntry
  <2>2. CASE x # k
    <3>1. x \in DOMAIN entries
      BY <1>3, <1>4, <1>5, <2>2
    <3>2. entries'[x] = entries[x] /\ RouteEntry(entries[x])
      BY <1>6, <2>2, <3>1 DEF RouteInv
    <3> QED BY <1>2, <3>2 DEF RouteEntry
  <2> QED BY <2>1, <2>2
<1>8. top' # Nothing /\ top'.key \in DOMAIN entries' => entries'[top'.key].value = top'.value
  BY <1>2, <1>5, <1>6
<1>9. RouteInv'
  <2>1. clock' \in Nat /\ puts' \in Nat /\ top'.value = puts' - 1
    BY <1>2
  <2> HIDE DEF new, offered
  <2> QED BY <1>3, <1>5, <1>7, <1>8, <2>1 DEF RouteInv
<1>10. entries' = [x \in kept \cup {k} |-> offered[x]]
  <2>1. \A x \in kept \cup {k} : offered[x] = IF x = k THEN new ELSE entries[x]
    BY <1>3, <1>4
  <2> HIDE DEF offered, new
  <2> QED BY <1>1, <2>1
<1>11. ASSUME NEW x \in (Routes!Alive \cup {k}) \ (kept \cup {k}), NEW y \in kept \cup {k}
       PROVE  offered[x].since <= offered[y].since
  <2>1. x \in Live /\ x \notin kept /\ x # k /\ x \in DOMAIN entries
    BY <1>4 DEF Routes!Alive, Live
  <2>2. offered[x] = entries[x] /\ entries[x].since <= clock
    BY <2>1 DEF RouteInv, RouteEntry
  <2>3. CASE y = k
    BY <2>2, <2>3
  <2>4. CASE y # k
    <3>1. y \in kept /\ y \in DOMAIN entries
      BY <1>3, <1>4, <2>4
    <3>2. entries[x].since <= entries[y].since
      BY <2>1, <3>1 DEF Evicted
    <3> QED BY <2>2, <2>4, <3>1, <3>2
  <2> QED BY <2>3, <2>4
<1>12. (Routes!Alive \cup {k}) \ (kept \cup {k}) # {} => Cardinality(kept \cup {k}) >= MaxEntries
  BY <1>3 DEF Routes!Alive, Live
<1>13. kept \cup {k} \in SUBSET DOMAIN offered
  BY <1>3, <1>4
<1>14. Routes!Put(k, puts, life, clock)
  <2> HIDE DEF offered
  <2>1. \E held \in SUBSET DOMAIN offered :
          /\ entries' = [x \in held |-> offered[x]]
          /\ Routes!Cardinality(held) <= MaxEntries + 1
          /\ (Routes!Alive \cup {k}) \ held # {} => Routes!Cardinality(held) >= MaxEntries
          /\ \A x \in (Routes!Alive \cup {k}) \ held, y \in held : offered[x].since <= offered[y].since
          /\ UNCHANGED clock
    BY <1>2, <1>3, <1>10, <1>11, <1>12, <1>13, SameCount
  <2> USE DEF offered
  <2> QED BY <2>1 DEF Routes!Put
<1> QED BY <1>9, <1>14

LEMMA NextRoutes ==
    RouteInv /\ [RouteCacheNext]_routeCacheVars => RouteInv' /\ [Routes!Next]_(Routes!cacheVars)
<1> SUFFICES ASSUME RouteInv, [RouteCacheNext]_routeCacheVars
             PROVE  RouteInv' /\ [Routes!Next]_(Routes!cacheVars)
  OBVIOUS
<1>1. CASE Tick
  <2>1. clock' = clock + 1 /\ entries' = entries /\ top' = top /\ puts' = puts /\ clock \in Nat
    BY <1>1 DEF Tick, RouteInv
  <2>2. RouteInv'
    BY <2>1 DEF RouteInv, RouteEntry
  <2>3. Routes!Next
    BY <2>1 DEF Routes!Next, Routes!Tick
  <2> QED BY <2>2, <2>3
<1>2. ASSUME NEW k \in Keys, NEW life \in TTLs, CachePut(k, life)
      PROVE  RouteInv' /\ [Routes!Next]_(Routes!cacheVars)
  <2>1. RouteInv' /\ Routes!Put(k, puts, life, clock)
    BY <1>2, PutRoutes
  <2>2. puts \in 0..(MaxPuts - 1) /\ clock \in 0..clock /\ clock' = clock
    BY <1>2, CacheAssumption DEF CachePut, RouteInv
  <2>3. CASE entries' = entries
    BY <2>1, <2>2, <2>3 DEF Routes!cacheVars
  <2>4. CASE entries' # entries
    BY <2>1, <2>2, <2>4 DEF Routes!Next
  <2> QED BY <2>3, <2>4
<1>3. CASE Exhausted \/ UNCHANGED routeCacheVars
  <2>1. clock' = clock /\ entries' = entries /\ top' = top /\ puts' = puts
    BY <1>3 DEF Exhausted, routeCacheVars
  <2> QED BY <2>1 DEF RouteInv, RouteEntry, Routes!cacheVars
<1> QED BY <1>1, <1>2, <1>3 DEF RouteCacheNext

LEMMA RoutesAgree == RouteInv => LookupsAgree
BY DEF RouteInv, LookupsAgree, LastRoute, CacheGet, Live

\* The route cache is a bounded map that forgets what is alive only when it is
\* full of younger routes, and asked without a prompt it gives the newest record
\* or nothing, the same as under the record's own key and to one session only,
\* unless the record names none.
THEOREM RoutesServedProved == RouteCacheSpec => RoutesServed
<1>1. RouteCacheSpec => []RouteInv
  BY InitRoutes, NextRoutes, PTL DEF RouteCacheSpec
<1>2. RouteCacheSpec => Routes!Spec
  BY <1>1, InitRoutes, NextRoutes, PTL DEF RouteCacheSpec, Routes!Spec
<1> QED BY <1>1, <1>2, RoutesAgree, PTL DEF RoutesServed, RoutesBounded

-----------------------------------------------------------------------------
(* The cache of visual results *)

VisualEntry(e) == e \in [value : Values, since : Nat, life : {TTL}]

VisualInv ==
    /\ visualClock \in Nat /\ current \in BOOLEAN
    /\ \A p \in Procs : stamp[p] # NoVisual => stamp[p] \in 0..visualClock
    /\ stamp = [p \in Procs |-> stamp[p]]
    /\ IsFiniteSet(DOMAIN visuals)
    /\ visuals = [k \in DOMAIN visuals |-> visuals[k]]
    /\ \A k \in DOMAIN visuals : VisualEntry(visuals[k])

LEMMA InitVisuals == VisualInit => VisualInv /\ Visuals!Init
<1> SUFFICES ASSUME VisualInit PROVE VisualInv /\ Visuals!Init OBVIOUS
<1>1. /\ IsFiniteSet(DOMAIN visuals) /\ current \in BOOLEAN /\ Root = Empty
      /\ visuals = [k \in DOMAIN visuals |-> visuals[k]]
      /\ \A k \in DOMAIN visuals : VisualEntry(visuals[k])
  <2>1. CASE visuals = Empty /\ current \in BOOLEAN
    <3>1. DOMAIN visuals = {}
      BY <2>1 DEF Empty
    <3> QED BY <2>1, <3>1, FS_EmptySet DEF Root, Empty
  <2>2. ASSUME NEW k \in VisualKeys, NEW v \in Values,
               visuals = [x \in {k} |-> Entry(v, 0)], current = FALSE
        PROVE  /\ IsFiniteSet(DOMAIN visuals) /\ current \in BOOLEAN /\ Root = Empty
               /\ visuals = [x \in DOMAIN visuals |-> visuals[x]]
               /\ \A x \in DOMAIN visuals : VisualEntry(visuals[x])
    <3>1. DOMAIN visuals = {k} /\ visuals[k] = Entry(v, 0) /\ IsFiniteSet({k})
      BY <2>2, FS_Singleton
    <3>2. VisualEntry(visuals[k])
      BY <3>1, VisualAssumption DEF VisualEntry, Entry
    <3> QED BY <2>2, <3>1, <3>2 DEF Root
  <2> QED BY <2>1, <2>2 DEF VisualInit
<1> QED BY <1>1 DEF VisualInit, VisualInv, Visuals!Init, Empty

LEMMA VisualPut ==
    ASSUME VisualInv, NEW p \in Procs, NEW k \in VisualKeys, NEW v \in Values,
           VisualCachePut(p, k, v)
    PROVE  VisualInv' /\ Visuals!Put(k, v, TTL, stamp[p])
<1> DEFINE at == stamp[p]
           room == [x \in Fresh(at) \cup {k} |-> IF x = k THEN Entry(v, at) ELSE Root[x]]
           offered == [x \in DOMAIN Root \cup {k} |->
                         IF x = k THEN [value |-> v, since |-> at, life |-> TTL] ELSE Root[x]]
<1>1. PICK kept \in Kept(room) : visuals' = [x \in kept |-> room[x]]
  BY DEF VisualCachePut
<1>2. /\ current' = TRUE /\ visualClock' = visualClock /\ visualClock \in Nat
      /\ stamp' = [stamp EXCEPT ![p] = NoVisual] /\ at \in 0..visualClock
  BY DEF VisualCachePut, VisualInv
<1>3. /\ IsFiniteSet(DOMAIN Root) /\ Fresh(at) \subseteq DOMAIN Root
      /\ \A x \in DOMAIN Root : VisualEntry(Root[x])
  <2>1. DOMAIN Empty = {}
    BY DEF Empty
  <2> QED BY <2>1, FS_EmptySet DEF Root, Fresh, VisualInv
<1>4. DOMAIN room = Fresh(at) \cup {k}
  OBVIOUS
<1>5. \A x \in DOMAIN room : room[x] = offered[x] /\ VisualEntry(room[x])
  <2>1. VisualEntry(Entry(v, at))
    BY <1>2 DEF VisualEntry, Entry
  <2> QED BY <1>3, <1>4, <2>1 DEF Entry
<1>6. IsFiniteSet(DOMAIN room)
  BY <1>3, <1>4, FS_Subset, FS_AddElement
<1>7. kept \in SUBSET DOMAIN room /\ Cardinality(kept) = Min({MaxVisuals, Cardinality(DOMAIN room)})
      /\ \A x \in DOMAIN room \ kept, y \in kept : room[x].since <= room[y].since
  BY DEF Kept
<1>8. MaxVisuals \in Nat
  BY VisualAssumption
<1>9. /\ IsFiniteSet(kept) /\ Cardinality(kept) <= MaxVisuals
      /\ kept # DOMAIN room => Cardinality(kept) >= MaxVisuals
  <2> HIDE DEF room
  <2> QED BY <1>6, <1>7, <1>8, RoomKept
<1>10. DOMAIN visuals' = kept /\ visuals' = [x \in DOMAIN visuals' |-> visuals'[x]]
  BY <1>1
<1>11. \A x \in DOMAIN visuals' : VisualEntry(visuals'[x])
  BY <1>1, <1>5, <1>7, <1>10
<1>12. VisualInv'
  <2>1. \A q \in Procs : stamp'[q] = IF q = p THEN NoVisual ELSE stamp[q]
    BY <1>2 DEF VisualInv
  <2>2. \A q \in Procs : stamp'[q] # NoVisual => stamp'[q] \in 0..visualClock'
    BY <1>2, <2>1 DEF VisualInv
  <2>3. stamp' = [q \in Procs |-> stamp'[q]]
    BY <1>2 DEF VisualInv
  <2>4. \A x \in DOMAIN visuals' : VisualEntry(visuals[x])'
    BY <1>11 DEF VisualEntry
  <2> HIDE DEF at, room, offered
  <2> QED BY <1>2, <1>9, <1>10, <2>2, <2>3, <2>4 DEF VisualInv
<1>13. Root' = [x \in kept |-> offered[x]]
  <2>1. Root' = visuals'
    BY <1>2 DEF Root
  <2>2. \A x \in kept : room[x] = offered[x]
    BY <1>5, <1>7
  <2> HIDE DEF room, offered
  <2> QED BY <1>1, <2>1, <2>2
<1>14. (Visuals!Alive \cup {k}) \ kept \subseteq DOMAIN room \ kept
  <2>1. ASSUME NEW x \in Visuals!Alive PROVE x \in Fresh(at)
    <3>1. x \in DOMAIN Root /\ visualClock - Root[x].since <= Root[x].life
      BY <2>1 DEF Visuals!Alive
    <3>2. Root[x].since \in Nat /\ Root[x].life = TTL /\ TTL \in Nat
      BY <1>3, <3>1, VisualAssumption DEF VisualEntry
    <3>3. at <= Root[x].since + TTL
      BY <1>2, <3>1, <3>2
    <3> QED BY <3>1, <3>3 DEF Fresh
  <2> QED BY <1>4, <2>1
<1>15. /\ kept \in SUBSET DOMAIN offered
       /\ (Visuals!Alive \cup {k}) \ kept # {} => Cardinality(kept) >= MaxVisuals
       /\ \A x \in (Visuals!Alive \cup {k}) \ kept, y \in kept : offered[x].since <= offered[y].since
  <2>1. kept \in SUBSET DOMAIN offered
    BY <1>3, <1>4, <1>7
  <2>2. \A x \in DOMAIN room \ kept, y \in kept : offered[x].since <= offered[y].since
    BY <1>5, <1>7
  <2> HIDE DEF room, offered
  <2> QED BY <1>9, <1>14, <2>1, <2>2
<1>16. Visuals!Put(k, v, TTL, at)
  <2> HIDE DEF offered, room
  <2>1. \E held \in SUBSET DOMAIN offered :
          /\ Root' = [x \in held |-> offered[x]]
          /\ Visuals!Cardinality(held) <= MaxVisuals
          /\ (Visuals!Alive \cup {k}) \ held # {} => Visuals!Cardinality(held) >= MaxVisuals
          /\ \A x \in (Visuals!Alive \cup {k}) \ held, y \in held : offered[x].since <= offered[y].since
          /\ UNCHANGED visualClock
    BY <1>2, <1>9, <1>13, <1>15, SameCount
  <2> USE DEF offered
  <2> QED BY <2>1 DEF Visuals!Put
<1> QED BY <1>12, <1>16

LEMMA NextVisuals ==
    VisualInv /\ [VisualNext]_visualVars => VisualInv' /\ [Visuals!Next]_(Visuals!cacheVars)
<1> SUFFICES ASSUME VisualInv, [VisualNext]_visualVars
             PROVE  VisualInv' /\ [Visuals!Next]_(Visuals!cacheVars)
  OBVIOUS
<1>1. CASE VisualTick
  <2>1. /\ visualClock' = visualClock + 1 /\ visuals' = visuals /\ current' = current
        /\ stamp' = stamp /\ visualClock \in Nat
    BY <1>1 DEF VisualTick, VisualInv
  <2>2. VisualInv'
    BY <2>1 DEF VisualInv, VisualEntry
  <2>3. Root' = Root
    BY <2>1 DEF Root, Empty
  <2>4. Visuals!Next
    BY <2>1, <2>3 DEF Visuals!Next, Visuals!Tick
  <2> QED BY <2>2, <2>4
<1>2. CASE VisualCacheClear
  <2>1. /\ visuals' = Empty /\ current' = TRUE /\ visualClock' = visualClock /\ stamp' = stamp
        /\ DOMAIN visuals' = {}
    BY <1>2 DEF VisualCacheClear, Empty
  <2>2. VisualInv'
    BY <2>1, FS_EmptySet DEF VisualInv, VisualEntry, Empty
  <2>3. Root' = Empty
    BY <2>1 DEF Root
  <2>4. Visuals!Next
    BY <2>1, <2>3 DEF Visuals!Next, Visuals!Clear, Empty
  <2> QED BY <2>2, <2>4
<1>3. ASSUME NEW p \in Procs, Stamp(p) PROVE VisualInv' /\ [Visuals!Next]_(Visuals!cacheVars)
  <2>1. /\ visualClock' = visualClock /\ visuals' = visuals /\ current' = current
        /\ stamp' = [stamp EXCEPT ![p] = visualClock]
    BY <1>3 DEF Stamp
  <2>2. VisualInv'
    BY <2>1 DEF VisualInv, VisualEntry
  <2>3. Root' = Root
    BY <2>1 DEF Root, Empty
  <2> QED BY <2>1, <2>2, <2>3 DEF Visuals!cacheVars
<1>4. ASSUME NEW p \in Procs, NEW k \in VisualKeys, NEW v \in Values, VisualCachePut(p, k, v)
      PROVE  VisualInv' /\ [Visuals!Next]_(Visuals!cacheVars)
  <2>1. VisualInv' /\ Visuals!Put(k, v, TTL, stamp[p])
    BY <1>4, VisualPut
  <2>2. stamp[p] \in 0..visualClock /\ visualClock' = visualClock
    BY <1>4 DEF VisualCachePut, VisualInv
  <2>3. CASE Root' = Root
    BY <2>1, <2>2, <2>3 DEF Visuals!cacheVars
  <2>4. CASE Root' # Root
    BY <2>1, <2>2, <2>4 DEF Visuals!Next
  <2> QED BY <2>3, <2>4
<1>5. CASE UNCHANGED visualVars
  BY <1>5 DEF visualVars, VisualInv, VisualEntry, Visuals!cacheVars, Root, Empty
<1> QED BY <1>1, <1>2, <1>3, <1>4, <1>5 DEF VisualNext

\* The cache of visual results is a bounded map that forgets what is alive only
\* when it is full of results no older, although a put may reach the file after
\* one that looked at the clock later, and a file of another version counts as
\* empty.
THEOREM VisualsBoundedProved == VisualSpec => VisualsBounded
<1>1. VisualSpec => Visuals!Spec
  BY InitVisuals, NextVisuals, PTL DEF VisualSpec, Visuals!Spec
<1> QED BY <1>1 DEF VisualsBounded

-----------------------------------------------------------------------------
(* The corpus and what is staged for it *)

\* While a merge is between its two files, what was judged is in the corpus.
MergeInv == job.cmd = "merge" => \A n \in Judged : staging[n].h \in Known

\* Only the merge itself touches what is staged while it runs.
LEMMA OthersLeaveMerge ==
  ASSUME CorpusNext, job.cmd = "merge", ~MergeClean
  PROVE  staging' = staging /\ corpus' = corpus /\ job' \in {job, NoJob}
  BY DEF CorpusNext, HarvestPlan, HarvestName, HarvestRead, HarvestStage, ImportHistory,
         ImportGit, Mark, Crash, Merge, RotateLog, LogRoute, HistoryGrows, Judge, Delete,
         SessionAppears

LEMMA OnlyMergeMerges ==
  ASSUME CorpusNext, job.cmd # "merge", job'.cmd = "merge"
  PROVE  Merge
<1>1. ASSUME NEW adds, NEW mark, Stage(adds, mark) PROVE job'.cmd # "merge"
  BY <1>1 DEF Stage, NoJob
<1>2. CASE HarvestPlan \/ HarvestName \/ HarvestRead
  <2>1. NoJob.cmd = "none"
    BY DEF NoJob
  <2>2. CASE HarvestPlan
    BY <2>2 DEF HarvestPlan, NoJob
  <2>3. CASE HarvestName
    BY <2>3 DEF HarvestName
  <2>4. CASE HarvestRead
    <3>1. job' = NoJob \/ job'.cmd \in {"name", job.cmd}
      BY <2>4 DEF HarvestRead
    <3> QED BY <2>1, <3>1
  <2> QED BY <1>2, <2>2, <2>3, <2>4
<1>3. CASE HarvestStage \/ ImportHistory \/ ImportGit
  BY <1>1, <1>3 DEF HarvestStage, ImportHistory, ImportGit
<1>4. CASE Mark \/ Crash \/ MergeClean
  BY <1>4 DEF Mark, Crash, MergeClean, NoJob
<1>5. CASE RotateLog \/ LogRoute \/ HistoryGrows \/ \E r \in Records : SessionAppears(r)
  BY <1>5 DEF RotateLog, LogRoute, HistoryGrows, SessionAppears
<1>6. CASE \E n \in DOMAIN staging : Judge(n) \/ Delete(n)
  BY <1>6 DEF Judge, Delete
<1> QED BY <1>2, <1>3, <1>4, <1>5, <1>6 DEF CorpusNext

LEMMA MergeStarts ==
  ASSUME Merge
  PROVE  staging' = staging /\ \A n \in Judged : staging[n].h \in Known'
<1>1. ASSUME NEW n \in Judged PROVE CaseOf(staging[n]) \in corpus'
  BY DEF Merge
<1>2. \A n \in Judged : CaseOf(staging[n]).h = staging[n].h
  BY DEF CaseOf
<1>3. staging' = staging
  BY DEF Merge
<1> QED BY <1>1, <1>2, <1>3 DEF Known

LEMMA MergeInductive == CorpusSpec => []MergeInv
<1>1. CorpusInit => MergeInv
  BY DEF CorpusInit, NoJob, MergeInv
<1>2. ASSUME MergeInv, CorpusNext PROVE MergeInv'
  <2>1. CASE job.cmd # "merge" /\ job'.cmd = "merge"
    <3>1. staging' = staging /\ \A n \in Judged : staging[n].h \in Known'
      BY <1>2, <2>1, OnlyMergeMerges, MergeStarts
    <3> QED BY <3>1 DEF MergeInv, Judged
  <2>2. CASE job.cmd = "merge" /\ ~MergeClean
    <3>1. staging' = staging /\ corpus' = corpus
      BY <1>2, <2>2, OthersLeaveMerge
    <3> QED BY <1>2, <2>2, <3>1 DEF MergeInv, Judged, Known
  <2>3. CASE MergeClean
    BY <2>3 DEF MergeClean, NoJob, MergeInv
  <2>4. CASE job'.cmd # "merge"
    BY <2>4 DEF MergeInv
  <2> QED BY <2>1, <2>2, <2>3, <2>4
<1>3. MergeInv /\ UNCHANGED corpusVars => MergeInv'
  BY DEF corpusVars, MergeInv, Judged, Known
<1> QED BY <1>1, <1>2, <1>3, PTL DEF CorpusSpec

\* A merge replaces the corpus and then the staging file; killed between the
\* two, repeated or finished, it leaves every judged case in one of them
\* (corpus_sync.merge), whatever is logged or appears meanwhile.
THEOREM MergesLoseNothing == CorpusSpec => MergeLosesNothing
<1>1. ASSUME MergeInv, CorpusNext, job.cmd = "merge" \/ job'.cmd = "merge", NEW n \in Judged
      PROVE  staging[n].h \in Hashes(staging') \cup {c.h : c \in corpus'}
  <2>0. n \in DOMAIN staging
    BY DEF Judged
  <2>1. CASE job.cmd # "merge"
    BY <1>1, <2>1, OnlyMergeMerges, MergeStarts DEF Known
  <2>2. CASE job.cmd = "merge" /\ ~MergeClean
    <3>1. staging' = staging
      BY <1>1, <2>2, OthersLeaveMerge
    <3> QED BY <2>0, <3>1 DEF Hashes
  <2>3. CASE MergeClean
    <3>1. staging[n].h \in Known /\ corpus' = corpus
      BY <1>1, <2>3 DEF MergeInv, MergeClean
    <3> QED BY <3>1 DEF Known
  <2> QED BY <2>1, <2>2, <2>3
<1>2. MergeInv /\ [CorpusNext]_corpusVars =>
        [job.cmd = "merge" \/ job'.cmd = "merge"
           => \A n \in Judged : staging[n].h \in Hashes(staging') \cup {c.h : c \in corpus'}]_corpusVars
  BY <1>1
<1> QED BY <1>2, MergeInductive, PTL DEF CorpusSpec, MergeLosesNothing
=============================================================================

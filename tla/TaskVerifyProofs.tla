-------------------------- MODULE TaskVerifyProofs --------------------------
(***************************************************************************)
(* What a verified result rests on, for any worktree, contract and claim:  *)
(* proofs about TaskVerify.tla.  A verdict is given once and the worktree  *)
(* is not touched in the model afterwards, so the invariant remembers what *)
(* the verdict was computed from: a claim and a reading of the changes.    *)
(***************************************************************************)
EXTENDS TaskVerify, WellFoundedInduction, FiniteSetTheorems, TLAPS

\* The verdict was computed from a claim and from changes that were there.
JudgedFrom(result, reading) ==
    /\ reading \subseteq Listed
    /\ verdict.result = result
    /\ verdict.verified = Verified(contract, result, Observed(reading))
    /\ verdict.readable /\ Cardinality(Listed) <= MaxItems => reading = Listed

\* A file that was moved has left its place and has changed, as has the other
\* place, which git lists: it held no file before.
MovesKnown ==
    \A m \in moved : /\ m.from \in (changed \cap Present) \ existing
                    /\ m.to \in changed \ Present

VerifyInv ==
    /\ MovesKnown
    /\ DOMAIN ran = Checks
    /\ changed \subseteq Files /\ IsFiniteSet(changed)
    /\ contract \in Contract
    /\ \/ verdict = NoVerdict
       \/ \E result \in Results, reading \in SUBSET Listed : JudgedFrom(result, reading)

\* Nothing is missing from a reading of a worktree with few enough changes.
LEMMA WholeReading ==
    ASSUME VerifyInv, NEW reading \in Readings, Cardinality(Listed) <= MaxItems
    PROVE  reading = Listed
<1>0. IsFiniteSet(Listed)
  BY FS_Subset DEF VerifyInv, Listed
<1>1. Cardinality(Listed) \in Nat /\ MaxItems \in Nat
  BY <1>0, FS_CardinalityType, VerifyAssumption
<1>2. Min({MaxItems, Cardinality(Listed)}) = Cardinality(Listed)
  BY <1>1 DEF Min
<1> QED BY <1>0, <1>2, FS_Subset DEF Readings

LEMMA InitVerify == VerifyInit => VerifyInv
<1> SUFFICES ASSUME VerifyInit PROVE VerifyInv OBVIOUS
<1>1. MovesKnown
  BY DEF VerifyInit, MovesKnown
<1>2. IsFiniteSet(changed)
  BY FS_EmptySet DEF VerifyInit
<1> QED BY <1>1, <1>2 DEF VerifyInit, VerifyInv, NoVerdict

LEMMA NextVerify == VerifyInv /\ [VerifyNext]_verifyVars => VerifyInv'
<1> SUFFICES ASSUME VerifyInv, [VerifyNext]_verifyVars PROVE VerifyInv' OBVIOUS
<1>1. ASSUME NEW p \in Files, Edit(p) PROVE VerifyInv'
  <2>1. changed' \subseteq Files /\ IsFiniteSet(changed')
    BY <1>1, FS_AddElement DEF Edit, VerifyInv
  <2>2. MovesKnown'
    BY <1>1 DEF Edit, VerifyInv, MovesKnown
  <2> QED BY <1>1, <2>1, <2>2 DEF Edit, Working, VerifyInv
<1>5. ASSUME NEW p \in Files, NEW q \in Files, Rename(p, q) PROVE VerifyInv'
  <2>1. changed' \subseteq Files /\ IsFiniteSet(changed')
    <3>1. IsFiniteSet(changed \cup {p}) /\ changed' = (changed \cup {p}) \cup {q}
      BY <1>5, FS_AddElement DEF Rename, VerifyInv
    <3>2. IsFiniteSet(changed')
      BY <3>1, FS_AddElement
    <3> QED BY <3>1, <3>2 DEF VerifyInv
  <2>2. MovesKnown'
    BY <1>5 DEF Rename, VerifyInv, MovesKnown
  <2> QED BY <1>5, <2>1, <2>2 DEF Rename, Working, VerifyInv
<1>2. ASSUME NEW c \in Checks, NEW outcome, Run(c, outcome) PROVE VerifyInv'
  BY <1>2 DEF Run, Working, VerifyInv, MovesKnown
<1>3. CASE Settle
  <2>1. UNCHANGED <<contract, existing, changed, moved, ran>>
    BY <1>3 DEF Settle
  <2>2. PICK result \in Results, readable \in BOOLEAN, reading \in SUBSET Listed :
           /\ verdict' = VerdictOn(result, readable, reading)
           /\ readable => reading \in Readings
    <3>1. Readings \subseteq SUBSET Listed /\ {} \in SUBSET Listed
      BY DEF Readings
    <3> QED BY <1>3, <3>1 DEF Settle
  <2>3. Observed(reading)' = Observed(reading)
    BY <2>1 DEF Observed
  <2>4. Listed' = Listed /\ MovesKnown'
    BY <2>1 DEF Listed, VerifyInv, MovesKnown
  <2>5. JudgedFrom(result, reading)'
    BY <2>1, <2>2, <2>3, <2>4, WholeReading DEF VerdictOn, JudgedFrom
  <2> QED BY <2>1, <2>4, <2>5 DEF VerifyInv
<1>4. CASE UNCHANGED verifyVars
  <2>1. UNCHANGED <<contract, existing, changed, moved, ran, verdict>>
    BY <1>4 DEF verifyVars
  <2>2. Listed' = Listed /\ (MovesKnown => MovesKnown')
    BY <2>1 DEF Listed, MovesKnown
  <2>3. \A result, reading : JudgedFrom(result, reading) => JudgedFrom(result, reading)'
    BY <2>1, <2>2 DEF JudgedFrom, Observed
  <2> QED BY <2>1, <2>2, <2>3 DEF VerifyInv
<1> QED BY <1>1, <1>2, <1>3, <1>4, <1>5 DEF VerifyNext

LEMMA VerifyInvariant == VerifySpec => []VerifyInv
BY InitVerify, NextVerify, PTL DEF VerifySpec

-----------------------------------------------------------------------------
\* What is claimed and demanded of checks, once the result is verified
LEMMA VerifiedChecks ==
    ASSUME VerifyInv, NEW result \in Results, NEW reading \in SUBSET Listed,
           Verified(contract, result, Observed(reading))
    PROVE  /\ contract.checks \cup {c.name : c \in result.checks} \subseteq Confirmed
           /\ \A c \in contract.criteria : c.kind = "check_passed" => c.expected \in Confirmed
<1>1. Observed(reading).checks = ran
  BY DEF Observed
<1>2. /\ contract.checks \subseteq Checks
      /\ contract.criteria \subseteq Criteria
      /\ result.checks \subseteq [name : Checks, passed : BOOLEAN]
  BY DEF VerifyInv, Contract, Results, Result, Reports
<1>3. \A c \in result.checks : ran[c.name] = "passed"
  BY <1>1 DEF Verified, ChecksPassed
<1>4. \A n \in contract.checks : ran[n] = "passed"
  BY <1>1 DEF Verified, ChecksPassed
<1>5. ASSUME NEW c \in contract.criteria, c.kind = "check_passed"
      PROVE  c.expected \in Confirmed
  <2>1. Met(c, Observed(reading))
    BY DEF Verified
  <2>2. ran[c.expected] = "passed"
    BY <1>1, <1>5, <2>1 DEF Met
  <2>3. c.expected \in Checks
    BY <1>2, <1>5 DEF Criteria
  <2> QED BY <2>2, <2>3 DEF Confirmed
<1> QED BY <1>2, <1>3, <1>4, <1>5 DEF Confirmed

\* A verified result cites no check that did not run and pass, as a claim, as a
\* demand or as a criterion, for any checks and any number of claims.
THEOREM ChecksRan == VerifySpec => []NoUnrunCheck
<1>1. ASSUME VerifyInv PROVE NoUnrunCheck
  <2> SUFFICES ASSUME verdict.verified PROVE NoUnrunCheck!2
    BY DEF NoUnrunCheck
  <2>1. verdict # NoVerdict
    BY DEF NoVerdict
  <2>2. PICK result \in Results, reading \in SUBSET Listed : JudgedFrom(result, reading)
    BY <1>1, <2>1 DEF VerifyInv
  <2> QED BY <1>1, <2>2, VerifiedChecks DEF JudgedFrom
<1> QED BY <1>1, VerifyInvariant, PTL

\* A result verified against a contract that names the attempt and nothing else
\* rests on a change or a passed check that the runtime saw itself.
THEOREM EvidenceSeen == VerifySpec => []SomethingSeen
<1>1. ASSUME VerifyInv PROVE SomethingSeen
  <2> SUFFICES ASSUME verdict.verified, contract.artifacts = {}, contract.checks = {},
                      contract.criteria = {}
               PROVE  changed # {} \/ Confirmed # {}
    BY DEF SomethingSeen
  <2>1. verdict # NoVerdict
    BY DEF NoVerdict
  <2>2. PICK result \in Results, reading \in SUBSET Listed : JudgedFrom(result, reading)
    BY <1>1, <2>1 DEF VerifyInv
  <2>3. Verified(contract, result, Observed(reading))
    BY <2>2 DEF JudgedFrom
  <2>4. Checkable(contract, result, Observed(reading))
    BY <2>3 DEF Verified
  <2>5. result.changed \subseteq Observed(reading).changed
    BY <2>3 DEF Verified, ChangesAgree
  <2>6. Observed(reading).changed # {} => changed # {}
    BY DEF Observed, CanonicalOf, Listed
  <2>7. result.checks # {} => Confirmed # {}
    BY <1>1, <2>3, VerifiedChecks
  <2> QED BY <2>4, <2>5, <2>6, <2>7 DEF Checkable
<1> QED BY <1>1, VerifyInvariant, PTL

-----------------------------------------------------------------------------
(* Paths: what the recursion over a path's segments computes *)

\* A property of numbers that 0 has and each number hands on
LEMMA Upwards ==
    ASSUME NEW N \in Nat, NEW S \in SUBSET (0..N), 0 \in S,
           \A n \in 0..(N - 1) : n \in S => n + 1 \in S
    PROVE  S = 0..N
<1> DEFINE Missing == (0..N) \ S
           Below == {pair \in Nat \X Nat : pair[1] < pair[2]}
<1> SUFFICES ASSUME Missing # {} PROVE FALSE OBVIOUS
<1>1. PICK x \in Missing : \A y \in Missing : <<y, x>> \notin Below
  <2>1. Missing \subseteq Nat
    OBVIOUS
  <2> QED BY <2>1, NatLessThanWellFounded, WFMin DEF OpToRel
<1>2. x - 1 \in Missing
  BY <1>1
<1>3. <<x - 1, x>> \in Below
  BY <1>1, <1>2
<1> QED BY <1>1, <1>2, <1>3

\* f is what normalising leaves of each beginning of the path.
Left(path, f) ==
    f = [n \in 0..Len(path) |-> IF n = 0 THEN <<>> ELSE Push(f[n - 1], path[n])]

\* Pushing a segment keeps a sequence of segments.
LEMMA PushType ==
    ASSUME NEW S, NEW stack \in Seq(S), NEW segment \in S
    PROVE  Push(stack, segment) \in Seq(S)
<1>1. segment = "up" /\ stack # <<>> => Front(stack) \in Seq(S)
  BY DEF Front
<1>2. Append(stack, segment) \in Seq(S)
  OBVIOUS
<1> QED BY <1>1, <1>2 DEF Push

\* The recursion has a solution: one for each beginning of the path, hence one
\* for the path.
LEMMA LeftExists ==
    ASSUME NEW path \in Seq(STRING)
    PROVE  \E f : Left(path, f)
<1> DEFINE upTo(n, f) == f = [m \in 0..n |-> IF m = 0 THEN <<>> ELSE Push(f[m - 1], path[m])]
           S == {n \in 0..Len(path) : \E f : upTo(n, f)}
<1>0. Len(path) \in Nat
  OBVIOUS
<1>1. 0 \in S
  <2> DEFINE g == [m \in 0..0 |-> <<>>]
  <2>1. g = [m \in 0..0 |-> IF m = 0 THEN <<>> ELSE Push(g[m - 1], path[m])]
    <3>1. \A m \in 0..0 : m = 0
      OBVIOUS
    <3> QED BY <3>1
  <2>2. \E f : upTo(0, f)
    BY <2>1
  <2> QED BY <2>2
<1>2. ASSUME NEW n \in 0..(Len(path) - 1), n \in S PROVE n + 1 \in S
  <2>0. n \in Nat /\ n + 1 \in 0..Len(path)
    BY <1>0
  <2>1. PICK f : upTo(n, f)
    BY <1>2
  <2> DEFINE g == [m \in 0..(n + 1) |-> IF m = 0 THEN <<>> ELSE Push(f[m - 1], path[m])]
  <2>2. \A m \in 0..n : g[m] = f[m]
    <3>1. DOMAIN f = 0..n
      BY <2>1
    <3>2. \A m \in 0..n : f[m] = IF m = 0 THEN <<>> ELSE Push(f[m - 1], path[m])
      BY <2>1
    <3>3. ASSUME NEW m \in 0..n PROVE g[m] = f[m]
      <4>1. m \in 0..(n + 1)
        BY <2>0
      <4>2. g[m] = IF m = 0 THEN <<>> ELSE Push(f[m - 1], path[m])
        BY <4>1
      <4> QED BY <3>2, <4>2, <3>3
    <3> HIDE DEF g
    <3> QED BY <3>3
  <2>3. \A m \in 0..(n + 1) : m # 0 => g[m - 1] = f[m - 1]
    <3> HIDE DEF g
    <3>1. ASSUME NEW m \in 0..(n + 1), m # 0 PROVE m - 1 \in 0..n
      BY <3>1, <2>0
    <3> QED BY <3>1, <2>2
  <2>4. upTo(n + 1, g)
    BY <2>3
  <2>5. \E h : upTo(n + 1, h)
    BY <2>4
  <2> HIDE DEF upTo
  <2> QED BY <2>5, <2>0
<1>3. S = 0..Len(path)
  <2>1. S \in SUBSET (0..Len(path))
    OBVIOUS
  <2> HIDE DEF S
  <2> QED BY <1>0, <1>1, <1>2, <2>1, Upwards
<1>4. Len(path) \in S
  BY <1>3
<1>5. PICK f : upTo(Len(path), f)
  BY <1>4
<1> QED BY <1>5 DEF Left

\* Normal is a solution of its own recursion.
LEMMA NormalLeft ==
    ASSUME NEW path \in Seq(STRING)
    PROVE \E f : Left(path, f) /\ Normal(path) = f[Len(path)]
<1> DEFINE f == CHOOSE g : Left(path, g)
<1>1. Left(path, f)
  BY LeftExists
<1>2. Normal(path) = f[Len(path)]
  BY DEF Normal, Left
<1> QED BY <1>1, <1>2

\* What is left of a path is a sequence of its segments.
LEMMA LeftTyped ==
    ASSUME NEW S, NEW path \in Seq(S), NEW f, Left(path, f)
    PROVE  f[Len(path)] \in Seq(S)
<1> DEFINE Typed == {n \in 0..Len(path) : f[n] \in Seq(S)}
<1>0. Len(path) \in Nat
  OBVIOUS
<1>1. 0 \in Typed
  BY <1>0 DEF Left
<1>2. ASSUME NEW n \in 0..(Len(path) - 1), n \in Typed PROVE n + 1 \in Typed
  <2>1. n + 1 \in 0..Len(path) /\ n + 1 # 0 /\ (n + 1) - 1 = n /\ path[n + 1] \in S
    BY <1>0
  <2>2. f[n + 1] = Push(f[n], path[n + 1])
    BY <2>1 DEF Left
  <2>3. f[n] \in Seq(S)
    BY <1>2
  <2> QED BY <2>1, <2>2, <2>3, PushType
<1>3. Typed = 0..Len(path)
  <2>1. Typed \in SUBSET (0..Len(path))
    OBVIOUS
  <2> HIDE DEF Typed
  <2> QED BY <1>0, <1>1, <1>2, <2>1, Upwards
<1> QED BY <1>0, <1>3

\* A path git names is its own canonical form.
LEMMA FilesCanonical ==
    ASSUME NEW path \in Files
    PROVE  Canonical(path) = path
<1>0. path \in Seq(STRING) /\ path \in Paths /\ Len(path) \in Nat
  BY VerifyAssumption DEF Paths
<1>1. PICK f : Left(path, f) /\ Normal(path) = f[Len(path)]
  BY <1>0, NormalLeft
<1> DEFINE Kept == {n \in 0..Len(path) : f[n] = SubSeq(path, 1, n)}
<1>2. 0 \in Kept
  BY <1>0, <1>1 DEF Left
<1>3. ASSUME NEW n \in 0..(Len(path) - 1), n \in Kept PROVE n + 1 \in Kept
  <2>1. n + 1 \in 0..Len(path) /\ n + 1 # 0 /\ (n + 1) - 1 = n /\ n + 1 \in DOMAIN path
    BY <1>0
  <2>2. f[n + 1] = Push(SubSeq(path, 1, n), path[n + 1])
    BY <1>1, <1>3, <2>1 DEF Left
  <2>3. path[n + 1] \notin {"dot", "", "up"}
    BY <2>1, WorktreeAssumption
  <2>4. f[n + 1] = Append(SubSeq(path, 1, n), path[n + 1])
    BY <2>2, <2>3 DEF Push
  <2>5. Append(SubSeq(path, 1, n), path[n + 1]) = SubSeq(path, 1, n + 1)
    BY <1>0, <2>1
  <2> QED BY <2>1, <2>4, <2>5
<1>4. Kept = 0..Len(path)
  <2>1. Kept \in SUBSET (0..Len(path))
    OBVIOUS
  <2> HIDE DEF Kept
  <2> QED BY <1>0, <1>2, <1>3, <2>1, Upwards
<1>5. Normal(path) = path
  <2>1. f[Len(path)] = SubSeq(path, 1, Len(path))
    BY <1>0, <1>4
  <2>2. SubSeq(path, 1, Len(path)) = path
    BY <1>0
  <2> QED BY <1>1, <2>1, <2>2
<1>6. path # <<>> /\ Head(path) # "root" /\ Head(path) # "up"
  <2>1. path # <<>> /\ Head(path) # "root"
    BY WorktreeAssumption
  <2>2. 1 \in DOMAIN path /\ Head(path) = path[1]
    BY <1>0, <2>1
  <2> QED BY <2>1, <2>2, WorktreeAssumption
<1> QED BY <1>0, <1>5, <1>6 DEF Canonical, CanonicalPath

\* A canonical path is a sequence.
LEMMA CanonicalTyped ==
    ASSUME NEW path \in Paths, Canonical(path) # None
    PROVE  \E S : Canonical(path) \in Seq(S)
<1>1. path \in Seq(STRING)
  BY VerifyAssumption DEF Paths
<1>2. Normal(path) \in Seq(STRING)
  BY <1>1, NormalLeft, LeftTyped
<1>3. Canonical(path) \in {None, <<"dot">>, Normal(path)}
  BY DEF Canonical, CanonicalPath
<1>4. <<"dot">> \in Seq({"dot"})
  OBVIOUS
<1> QED BY <1>2, <1>3, <1>4

-----------------------------------------------------------------------------
\* Under a scope a verified result declares every change that git lists of a
\* worktree that can be read, and each lies below a path of the scope; the only
\* change it is silent about is the former place of a file moved into the scope.
THEOREM ScopeKept == VerifySpec => []ScopeAccounted
<1>1. ASSUME VerifyInv PROVE ScopeAccounted
  <2> SUFFICES ASSUME verdict.verified, verdict.readable, contract.scope # {},
                      Cardinality(Listed) <= MaxItems
               PROVE  ScopeAccounted!2
    BY DEF ScopeAccounted
  <2>1. verdict # NoVerdict
    BY DEF NoVerdict
  <2>2. PICK result \in Results, reading \in SUBSET Listed : JudgedFrom(result, reading)
    BY <1>1, <2>1 DEF VerifyInv
  <2>3. Verified(contract, result, Observed(Listed)) /\ verdict.result = result
    BY <2>2 DEF JudgedFrom
  <2>4. Observed(Listed).changed = Listed
    <3>1. \A p \in Listed : Canonical(p) = p /\ p # None
      BY <1>1, FilesCanonical, WorktreeAssumption DEF VerifyInv, Listed
    <3> QED BY <3>1 DEF Observed, CanonicalOf
  <2>5. /\ result.changed \subseteq Listed
        /\ \A p \in Listed : WithinScope(p, contract.scope) /\ p \in result.changed
    BY <2>3, <2>4 DEF Verified, ChangesAgree
  <2>6. ASSUME NEW p \in Listed PROVE InScope(p)
    <3>0. p \in Files
      BY <1>1 DEF VerifyInv, Listed
    <3>1. p \in Seq(STRING) /\ Canonical(p) = p
      BY <3>0, FilesCanonical, VerifyAssumption
    <3>2. PICK written \in contract.scope :
             Canonical(written) # None /\ IsPrefix(Canonical(written), p)
      BY <2>5, <3>1 DEF WithinScope, CanonicalOf
    <3>3. written \in Paths
      BY <1>1 DEF VerifyInv, Contract, Paths
    <3>4. PICK S : Canonical(written) \in Seq(S)
      BY <3>2, <3>3, CanonicalTyped
    <3> DEFINE c == Canonical(written)
               rest == Len(p) - Len(c)
    <3>5. /\ Len(c) \in Nat /\ Len(p) \in Nat /\ c = SubSeq(c, 1, Len(c))
          /\ Len(c) <= Len(p) /\ SubSeq(c, 1, Len(c)) = SubSeq(p, 1, Len(c))
      <4> HIDE DEF c
      <4> QED BY <3>1, <3>2, <3>4 DEF IsPrefix, c
    <3>6. rest \in 0..Len(p) /\ Len(p) - rest = Len(c)
      <4> HIDE DEF c
      <4> QED BY <3>5
    <3> HIDE DEF rest
    <3> QED BY <3>5, <3>6 DEF InScope
  <2>7. ASSUME NEW p \in changed
        PROVE  \/ p \in result.changed /\ InScope(p)
               \/ /\ p \notin existing
                  /\ \E m \in moved : /\ m.from = p /\ m.to \in result.changed
                                      /\ InScope(m.to)
    <3>1. CASE p \in Listed
      BY <2>5, <2>6, <3>1
    <3>2. CASE p \notin Listed
      <4>1. PICK m \in moved : m.from = p
        BY <2>7, <3>2 DEF Listed
      <4>2. p \notin existing /\ m.to \in changed \ Present
        BY <1>1, <4>1 DEF VerifyInv, MovesKnown
      <4>3. m.to \in Listed
        BY <1>1, <4>2 DEF VerifyInv, MovesKnown, Listed
      <4> QED BY <2>5, <2>6, <4>1, <4>2, <4>3
    <3> QED BY <3>1, <3>2
  <2>8. result.changed \subseteq changed
    BY <2>5 DEF Listed
  <2> QED BY <2>3, <2>7, <2>8
<1> QED BY <1>1, VerifyInvariant, PTL

\* A verified result rests on evidence, for any worktree, scope, contract and claim.
THEOREM EvidenceRests == VerifySpec => []VerifiedOnEvidence
BY ChecksRan, EvidenceSeen, ScopeKept, PTL DEF VerifiedOnEvidence
=============================================================================

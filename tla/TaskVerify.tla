----------------------------- MODULE TaskVerify -----------------------------
(***************************************************************************)
(* When a typed result counts as evidence (grokbuild/task_verify.py, with  *)
(* task_evidence.observe and settlement._observed_changed_paths): a child  *)
(* works in a worktree that may be dirty already, the runtime runs checks, *)
(* the child claims what it did, and the runtime compares the claim and    *)
(* the contract with its own reading of the worktree.                      *)
(*                                                                         *)
(* A path is its segments; "up" is "..", and a path that begins with       *)
(* "root" is absolute.  A canonical path has neither, and "." is <<"dot">>. *)
(***************************************************************************)
EXTENDS Naturals, Sequences, FiniteSets, FiniteSetsExt, SequencesExt

CONSTANTS
    Files,     \* canonical paths of the worktree
    Present,   \* the files that are there before the child starts
    Scopes,    \* the scopes a contract may have: sets of paths as written
    Named,     \* paths as written in contracts and claims
    Checks,    \* names of deterministic checks
    MaxItems,  \* MAX_ITEMS: the changes the runtime reads at most
    Demands,   \* bound: what a contract demands
    Claims,    \* bound: what a result claims
    None

ASSUME VerifyAssumption ==
    /\ Files \cup Named \cup UNION Scopes \subseteq Seq(STRING)
    /\ Present \subseteq Files
    /\ {MaxItems, Demands, Claims} \subseteq Nat

\* Git names the files of a worktree by their canonical paths.
ASSUME WorktreeAssumption ==
    /\ None \notin Files
    /\ \A path \in Files : path # <<>> /\ Head(path) # "root"
    /\ \A path \in Files : \A i \in DOMAIN path : path[i] \notin {"dot", "", "up"}

VARIABLES
    contract, \* the contract attached before the spawn
    existing, changed, \* the worktree: files there, files that have changed
    moved,    \* the renames git shows: from the source, to the destination
    ran,      \* the outcome of each check the runtime ran
    verdict   \* what was claimed and observed, and whether it was verified

verifyVars == <<contract, existing, changed, moved, ran, verdict>>

-----------------------------------------------------------------------------
(* Paths *)

Push(stack, segment) ==
    CASE segment \in {"dot", ""} -> stack
      [] segment = "up" /\ stack # <<>> /\ Last(stack) # "up" -> Front(stack)
      [] OTHER -> Append(stack, segment)

\* What is left of a path, segment by segment
Normal(path) ==
    LET upTo[n \in 0..Len(path)] == IF n = 0 THEN <<>> ELSE Push(upTo[n - 1], path[n])
    IN  upTo[Len(path)]

Paths == Files \cup Named \cup UNION Scopes

\* _canonical_repo_path
CanonicalPath ==
    [path \in Paths |->
        LET normal == Normal(path)
        IN  CASE path = <<>> \/ Head(path) = "root"   -> None
              [] path # <<>> /\ normal = <<>>         -> <<"dot">>
              [] normal # <<>> /\ Head(normal) = "up" -> None
              [] OTHER                                -> normal]

Canonical(path) == CanonicalPath[path]

CanonicalOf(paths) == {Canonical(p) : p \in paths} \ {None}

\* _within_scope
WithinScope(path, scope) ==
    /\ Canonical(path) # None
    /\ scope = {} \/ \E prefix \in CanonicalOf(scope) : IsPrefix(prefix, Canonical(path))

-----------------------------------------------------------------------------
(* What is asked, claimed and seen *)

Criteria == [kind : {"path_exists", "path_changed"}, expected : Named]
            \cup [kind : {"check_passed", "opinion"}, expected : Checks]

\* A contract; the result of a child that keeps to the contract's identity,
\* says it succeeded and leaves nothing unresolved is "clean".
Contract == [scope : Scopes, artifacts : SUBSET Named, checks : SUBSET Checks,
             criteria : {S \in SUBSET Criteria : Cardinality(S) <= Demands}]

Reports == {S \in SUBSET [name : Checks, passed : BOOLEAN] :
               \A a, b \in S : a.name = b.name => a = b}

Result == [clean : BOOLEAN, changed : SUBSET Named, artifacts : SUBSET Named,
           checks : Reports, criteria : {S \in SUBSET Criteria : Cardinality(S) <= Claims}]

Weight(c) == Cardinality(c.artifacts) + Cardinality(c.checks) + Cardinality(c.criteria)

\* What a child may claim: any one thing wrong is wrong enough.
Results == {r \in Result :
              Weight(r) + Cardinality(r.changed) + (IF r.clean THEN 0 ELSE 1) <= Claims}

\* The code takes the destination of a line "old -> new" and drops the source.
Listed == changed \ {m.from : m \in moved}

\* _observed_changed_paths: the first changes git lists, or none at all when
\* the worktree cannot be read
Readings == {S \in SUBSET Listed : Cardinality(S) = Min({MaxItems, Cardinality(Listed)})}

\* observe: only paths that are named are probed.  The seam reports a failed
\* check like one that never ran; verify tells them apart and refuses both.
Observed(reading) ==
    LET expected == {c.expected : c \in {x \in contract.criteria :
                                            x.kind \in {"path_exists", "path_changed"}}}
    IN  [existing |-> existing \cap CanonicalOf(contract.artifacts \cup expected \cup reading),
         changed  |-> CanonicalOf(reading),
         checks   |-> ran]

-----------------------------------------------------------------------------
(* The verdict *)

\* _verify_criterion
Met(criterion, seen) ==
    CASE criterion.kind = "path_exists"  -> Canonical(criterion.expected) \in seen.existing
      [] criterion.kind = "path_changed" -> Canonical(criterion.expected) \in seen.changed
      [] criterion.kind = "check_passed" -> seen.checks[criterion.expected] = "passed"
      [] OTHER -> FALSE

\* The result claims, or the contract demands, anything at all.
Checkable(asked, result, seen) ==
    \/ result.changed # {} \/ result.checks # {}
    \/ CanonicalOf(result.artifacts) \cap seen.changed # {}
    \/ result.criteria \cap asked.criteria # {}
    \/ asked.artifacts # {} \/ asked.checks # {} \/ asked.criteria # {}

\* The declared and the observed changes agree; undeclared ones are this
\* child's only where the contract has a scope.
ChangesAgree(asked, result, seen) ==
    /\ result.changed \subseteq seen.changed
    /\ \A p \in result.changed \cup result.artifacts : WithinScope(p, asked.scope)
    /\ asked.scope # {} =>
          \A p \in seen.changed : WithinScope(p, asked.scope) /\ p \in result.changed

\* Mistake: a check that never ran did not fail.
NotRefuted(asked, result, seen) ==
    /\ \A c \in result.checks : c.passed /\ seen.checks[c.name] # "failed"
    /\ \A n \in asked.checks : seen.checks[n] # "failed"

ChecksPassed(asked, result, seen) ==
    /\ \A c \in result.checks : c.passed /\ seen.checks[c.name] = "passed"
    /\ \A n \in asked.checks : seen.checks[n] = "passed"

\* verify
Verified(asked, result, seen) ==
    /\ result.clean
    /\ Checkable(asked, result, seen)
    /\ result.criteria \subseteq asked.criteria
    /\ asked.artifacts \cup result.artifacts \subseteq seen.existing
    /\ ChangesAgree(asked, result, seen)
    /\ ChecksPassed(asked, result, seen)
    /\ \A c \in asked.criteria : Met(c, seen)

-----------------------------------------------------------------------------
NoVerdict == [result |-> None, readable |-> TRUE, verified |-> FALSE]

VerifyInit ==
    /\ contract \in {c \in Contract : Weight(c) <= Demands}
    /\ existing = Present /\ changed = {} /\ moved = {}
    /\ ran = [c \in Checks |-> "not run"]
    /\ verdict = NoVerdict

Working == verdict = NoVerdict

\* The child, or whoever else works there, changes a file or removes it.  A file
\* that comes back where one was moved away has a line of its own.
Edit(p) ==
    /\ Working
    /\ existing' \in {existing \cup {p}, existing \ {p}}
    /\ changed' = changed \cup {p}
    /\ moved' = {m \in moved : m.from = p => p \notin existing'}
    /\ UNCHANGED <<contract, ran, verdict>>

\* An unchanged file is moved, in the index too (git mv), to a new place: git
\* shows one line for both.
Rename(p, q) ==
    /\ Working
    /\ p \in Present \ changed
    /\ q \notin Present \cup changed
    /\ existing' = (existing \ {p}) \cup {q}
    /\ changed' = changed \cup {p, q}
    /\ moved' = moved \cup {[from |-> p, to |-> q]}
    /\ UNCHANGED <<contract, ran, verdict>>

\* The runtime runs a deterministic check.
Run(c, outcome) ==
    /\ Working
    /\ ran' = [ran EXCEPT ![c] = outcome]
    /\ UNCHANGED <<contract, existing, changed, moved, verdict>>

VerdictOn(result, readable, reading) ==
    [result |-> result, readable |-> readable,
     verified |-> Verified(contract, result, Observed(reading))]

\* _evidence_seam: the claim is compared with the worktree as it is now.
Settle ==
    /\ Working
    /\ \E result \in Results :
         \/ \E reading \in Readings : verdict' = VerdictOn(result, TRUE, reading)
         \/ verdict' = VerdictOn(result, FALSE, {})
    /\ UNCHANGED <<contract, existing, changed, moved, ran>>

VerifyNext ==
    \/ \E p \in Files : Edit(p) \/ \E q \in Files : Rename(p, q)
    \/ \E c \in Checks, outcome \in {"passed", "failed"} : Run(c, outcome)
    \/ Settle

VerifySpec == VerifyInit /\ [][VerifyNext]_verifyVars

-----------------------------------------------------------------------------
(* Properties *)

Confirmed == {c \in Checks : ran[c] = "passed"}

\* Under a contract that only names the attempt, which is what the hooks
\* attach, a verified result rests on something the runtime saw itself: a
\* changed file or a passed check.
SomethingSeen ==
    LET bare == contract.artifacts = {} /\ contract.checks = {} /\ contract.criteria = {}
    IN  verdict.verified /\ bare => changed # {} \/ Confirmed # {}

\* task_verify.py: "a check the runtime never ran is simply absent, which is not
\* the same as a check that failed": neither is evidence, wherever it is named.
NoUnrunCheck ==
    verdict.verified =>
        /\ contract.checks \cup {c.name : c \in verdict.result.checks} \subseteq Confirmed
        /\ \A c \in contract.criteria : c.kind = "check_passed" => c.expected \in Confirmed

InScope(p) == \E written \in contract.scope, rest \in 0..Len(p) :
                 Canonical(written) = SubSeq(p, 1, Len(p) - rest)

\* A verified result under a scope accounts for the changes in a worktree that can
\* be read and lists no more of them than the runtime reads: every change lies in
\* a directory or file of the scope, however that is written, and is declared.
\* There is one exception: of a file that was moved only the new place is seen
\* (settlement.py:443), so a file from outside may vanish into the scope.
ScopeAccounted ==
    /\ verdict.verified /\ verdict.readable
    /\ contract.scope # {} /\ Cardinality(Listed) <= MaxItems
    =>
        /\ \A p \in changed :
              \/ p \in verdict.result.changed /\ InScope(p)
              \/ /\ p \notin existing
                 /\ \E m \in moved : /\ m.from = p /\ m.to \in verdict.result.changed
                                     /\ InScope(m.to)
        /\ verdict.result.changed \subseteq changed

\* A verified result rests on evidence: on something seen, on no check that was
\* not run, and within the scope on every change.
VerifiedOnEvidence == SomethingSeen /\ NoUnrunCheck /\ ScopeAccounted
=============================================================================

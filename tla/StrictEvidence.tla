--------------------------- MODULE StrictEvidence ---------------------------
(***************************************************************************)
(* How a result is judged before it is settled (settlement.handle_post_tool*)
(* and _evidence_seam): the hook reads the track a child is bound to and   *)
(* that track's evidence policy without the lock, decides whether the      *)
(* result completes the stage, and only then runs the transaction, which   *)
(* resolves the child again.  The track moves in between.                  *)
(*                                                                         *)
(* One hook judges; the others, which may run between its judgement and    *)
(* its transaction, are the remaining transactions of Transactions.tla.    *)
(* What it takes to confirm a typed result is in TaskVerify.tla, how       *)
(* contracts are kept in Contracts.tla; here either answer is possible for *)
(* a stage a contract was attached to.                                     *)
(***************************************************************************)
EXTENDS Transactions

CONSTANTS
    Strict,     \* the decisions composed under a strict profile
    Foreground  \* spawned roles whose results may come without a task id

ASSUME StrictAssumption ==
    /\ Strict \subseteq Decisions
    /\ Foreground \subseteq Roles \ {SentinelRole}
    /\ Nil \notin Decisions \X Names

VARIABLES
    judging,  \* what the hook has judged and not settled yet
    attached  \* the stages a contract was attached to: <<decision, key>>

strictVars == <<vars, judging, attached>>

NotJudging == [call |-> "none", turn |-> Nil, of |-> Nil, binding |-> Nil, ok |-> FALSE,
               evidence |-> Nil]

StrictInit == Init /\ judging = NotJudging /\ attached = {}

-----------------------------------------------------------------------------
(* The judgement *)

Unbound == <<Nil, Nil>>

\* resolve_task_binding: the one stage the child stands for
BindingOf(s, t) ==
    IF Cardinality(Matches(s, t)) = 1 THEN CHOOSE m \in Matches(s, t) : TRUE ELSE Unbound

\* Mistake: the policy of the current route is the only one asked.
StrictRoute(turn, binding) == turn \in Strict

\* The policy of the route or of the bound track, whichever is strict
StrictFor(turn, binding) == {turn, binding[1]} \cap Strict # {}

\* _evidence_seam and decide_completion: a child that stands for no stage is
\* taken at its word; under the strict policy only a confirmed result counts.
Judge(call, turn, of, binding, success, confirmed) ==
    LET enforced == binding # Unbound /\ StrictFor(turn, binding)
    IN  /\ judging.call = "none"
        /\ confirmed => binding \in attached
        /\ judging' = [call |-> call, turn |-> turn, of |-> of, binding |-> binding,
                       ok |-> IF enforced THEN confirmed ELSE success,
                       evidence |-> IF enforced /\ confirmed THEN binding ELSE Nil]
        /\ UNCHANGED <<vars, attached>>

\* A terminal status of child t, by retrieval or with its spawn result
JudgeRetrieval(turn, t, success, confirmed) ==
    Judge("retrieval", turn, t, BindingOf(SessionOf[turn], t), success, confirmed)

\* _owed_result_key of a role with linear stages
OwesResult(tr, r) ==
    /\ r \notin tr.completed \cup tr.inconclusive
    /\ \E st \in Range(Stages(tr)) : st.kind # "verify" /\ st.required /\ Key(st) = r

\* A spawn result that names no task: of the stage the turn owes to the role,
\* else of whatever other turn owes it.  Either is judged as the turn's own.
JudgeForeground(turn, r, success, confirmed) ==
    /\ turn \in Live
    /\ Judge(IF OwesResult(tracks[turn], r) THEN "stage" ELSE "debt",
             turn, r, <<turn, r>>, success, confirmed)

-----------------------------------------------------------------------------
(* The transaction *)

Settled == judging' = NotJudging /\ UNCHANGED attached

SettleRetrieval(escalate, composable) ==
    /\ judging.call = "retrieval"
    /\ RecordRetrieval(SessionOf[judging.turn], judging.of, judging.ok, escalate, composable)
    /\ Settled

SettleStage(escalate, composable) ==
    /\ judging.call = "stage"
    /\ RecordStageResult(judging.turn, judging.of, judging.ok, escalate, composable)
    /\ Settled

SettleDebt(W, escalate, composable) ==
    /\ judging.call = "debt"
    /\ RecordSessionDebtStage(judging.turn, judging.of, W, judging.ok, escalate, composable)
    /\ Settled

\* The transaction finds nothing to settle, or the hook is killed before it.
SettleNothing ==
    /\ judging.call # "none"
    /\ UNCHANGED vars
    /\ Settled

-----------------------------------------------------------------------------
(* The other hooks *)

\* PreToolUse attaches the contract before it records the request.
Request(d, k) ==
    /\ RecordRequested(d, k)
    /\ attached' = attached \cup {<<d, k>>}

\* Composition, acknowledgements, debt claims, and results that complete
\* nothing: failures and lookups that find no child.  Barriers, background
\* commands and inconclusive reviews are left to Transactions.tla.
OtherHooks ==
    /\ UNCHANGED judging
    /\ \/ \E d \in Decisions : \E k \in Asked(d) : Request(d, k)
       \/ /\ UNCHANGED attached
          /\ \/ \E d \in Decisions :
                  \/ \E plan \in Plans[d] : EnsureExecution(d, plan)
                  \/ Prune(d)
                  \/ \E t \in Children : BindLinearStage(d, t)
                  \/ \E t \in Children, W \in SUBSET (Decisions \ {d}) : BindDebtStage(d, t, W)
             \/ \E escalate \in Escalations, composable \in Composable :
                  \/ \E d \in Decisions : \E k \in Reported(d) :
                        RecordStageResult(d, k, FALSE, escalate, composable)
                  \/ \E s \in Sessions, t \in Children :
                        RecordRetrieval(s, t, FALSE, escalate, composable)
             \/ \E s \in Sessions, t \in Children :
                  ReleaseUnresolvable(s, t)

StrictNext ==
    \/ \E turn \in Decisions, success, confirmed \in BOOLEAN :
          \/ \E t \in Children : JudgeRetrieval(turn, t, success, confirmed)
          \/ \E r \in Foreground : JudgeForeground(turn, r, success, confirmed)
    \/ \E escalate \in Escalations, composable \in Composable :
          \/ SettleRetrieval(escalate, composable)
          \/ SettleStage(escalate, composable)
          \/ \E W \in SUBSET (Decisions \ {judging.turn}) : SettleDebt(W, escalate, composable)
    \/ SettleNothing
    \/ OtherHooks

StrictSpec == StrictInit /\ [][StrictNext]_strictVars

-----------------------------------------------------------------------------
(* Properties *)

\* task_evidence.decide_completion: "Under the strict policy a stage completes
\* only when an attached spec exists and the runtime verified the result against
\* it": whichever turn a child's result is retrieved in and whichever track the
\* child is bound to by then, a strict stage completes on evidence for that stage.
StrictNeedsEvidence ==
    [][judging.call \in {"none", "retrieval"} =>
          \A d \in Strict \cap Live : SamePlan(d) =>
              \A k \in tracks'[d].completed \ tracks[d].completed :
                  judging.evidence = <<d, k>>]_strictVars

\* The part of it that holds, whatever other hooks do between a judgement and its
\* transaction: a strict stage completes on evidence for that very stage, unless
\* the retrieved child came to stand for it only after its result was judged.
\* A foreground result that settles the debt of another turn is judged by the
\* policy of its own turn, and where that is strict never counts on its word.
OnlyEvidenceCompletes ==
    [][\A d \in Strict \cap Live : SamePlan(d) =>
          \A k \in tracks'[d].completed \ tracks[d].completed :
              \/ judging.evidence = <<d, k>>
              \/ judging.call = "retrieval" /\ judging.binding # <<d, k>>
              \/ /\ judging.call = "debt"
                 /\ judging.turn \in Strict => judging.evidence # Nil]_strictVars
=============================================================================

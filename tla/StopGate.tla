------------------------------ MODULE StopGate ------------------------------
(***************************************************************************)
(* handle_stop (grokbuild/hook.py) among the other hooks of a session.     *)
(* When the agent ends its turn, Stop may send it back: for the unfinished *)
(* pipeline of the turn, else for that of an earlier turn (session debt),  *)
(* and also for a remediation debt.  Each reason has a counter of its own  *)
(* that bounds how often it holds the turn.  Every read of the state file, *)
(* every transaction on it and every operation on the remediation log is   *)
(* one step; results of children that were started in the background are   *)
(* settled by other processes at any time.                                 *)
(* Of a track only what Stop asks for is kept; see Transactions.tla.       *)
(***************************************************************************)
EXTENDS Remediation

CONSTANTS
    Turns,       \* bound: turns, which are the decisions, 1 to Turns
    Stages,      \* stages a pipeline may owe
    NoTrack      \* no debt, or nothing read

ASSUME StopAssumption ==
    /\ Turns \in Nat \ {0} /\ Stages \in Nat
    /\ Decisions = 1..Turns
    /\ NoTrack \notin Decisions \cup Debts

VARIABLES
    current,  \* the decision of the turn
    tracks,   \* per decision: the stages it owes, whether only roles without
              \* sign-in owe them, its Stop count, its last update
    pending,  \* results settled on the track and not yet told to the debts
    stop,     \* the Stop hook that is running
    ended,    \* the turn has ended
    cited     \* how often each debt held a turn since it was last settled

gateVars == <<clock, log, truth, moves, kills, current, tracks, pending, stop, ended, cited>>

NotRunning == [at |-> "idle", holds |-> FALSE, debt |-> NoTrack, read |-> NoDebt]

Track(owed, lifted) == [owed |-> owed, lifted |-> lifted, blocks |-> 0, since |-> clock]

GateInit ==
    /\ DebtInit
    /\ current = 1
    /\ \E owed \in 0..Stages, lifted \in BOOLEAN : tracks = [d \in {1} |-> Track(owed, lifted)]
    /\ pending = {}
    /\ stop = NotRunning
    /\ ended = FALSE
    /\ cited = [d \in Debts |-> 0]

\* "cited" is the model's own: it starts again when a debt is settled.
Recount == [d \in Debts |-> IF Latest(log', d).resolved THEN 0 ELSE cited[d]]

-----------------------------------------------------------------------------
(* The rest of the session *)

NewTurn ==
    /\ ended /\ current < Turns
    /\ current' = current + 1
    /\ \E owed \in 0..Stages, lifted \in BOOLEAN :
         tracks' = [d \in 1..(current + 1) |->
                      IF d > current THEN Track(owed, lifted) ELSE tracks[d]]
    /\ ended' = FALSE
    /\ UNCHANGED <<clock, log, truth, moves, kills, pending, stop, cited>>

\* _finish_pre_tool of a denial with a safe alternative, while the gate is
\* active; no tool is called while the turn is ending
Denial(d) ==
    /\ ~ended /\ stop = NotRunning /\ tracks[current].owed > 0
    /\ OpenDebt(d, current)
    /\ cited' = Recount
    /\ UNCHANGED <<current, tracks, pending, stop, ended>>

\* A spawn is requested: record_stage_tx takes it for progress.
Request ==
    /\ ~ended /\ stop = NotRunning /\ tracks[current].owed > 0
    /\ Spend
    /\ tracks' = [tracks EXCEPT ![current].blocks = 0, ![current].since = clock]
    /\ UNCHANGED <<clock, log, truth, kills, current, pending, stop, ended, cited>>

\* A result of a child of any turn.  A success that finishes its stage resets
\* the count; a stage that had succeeded may be owed again.
Result(d, a) ==
    /\ Spend
    /\ \E owed \in 0..Stages :
         /\ ~a.success => owed >= tracks[d].owed
         /\ tracks' = [tracks EXCEPT ![d] =
                         [@ EXCEPT !.owed = owed, !.since = clock,
                          !.blocks = IF a.success /\ owed < tracks[d].owed THEN 0 ELSE @]]
    /\ pending' = pending \cup {[dec |-> d, attempt |-> a]}
    /\ UNCHANGED <<clock, log, truth, kills, current, stop, ended, cited>>

\* The process that settled it tells the debts, outside its transaction.
Tell(r) ==
    /\ pending' = pending \ {r}
    /\ \/ RecordAttempt(r.dec, r.attempt) /\ UNCHANGED moves
       \/ Matching(r.dec, r.attempt) = {} /\ UNCHANGED debtVars
    /\ cited' = Recount
    /\ UNCHANGED <<current, tracks, stop, ended>>

-----------------------------------------------------------------------------
(* handle_stop *)

Goto(place) == stop' = [stop EXCEPT !.at = place]

Unfinished(d) == tracks[d].owed > 0

\* _enforceable_gate, on a reading of the track
ReadGate ==
    /\ ~ended /\ stop = NotRunning
    /\ Goto(IF Unfinished(current) /\ ~tracks[current].lifted THEN "current" ELSE "debt")
    /\ UNCHANGED <<clock, log, truth, moves, kills, current, tracks, pending, ended, cited>>

\* stop_blocks, on another
ReadCurrent ==
    /\ stop.at = "current"
    /\ IF tracks[current].blocks < StopLimit
       THEN stop' = [stop EXCEPT !.at = "mark", !.debt = current, !.holds = TRUE]
       ELSE Goto("debt")
    /\ UNCHANGED <<clock, log, truth, moves, kills, current, tracks, pending, ended, cited>>

Owing == {d \in DOMAIN tracks \ {current} : /\ Unfinished(d)
                                            /\ tracks[d].blocks < StopLimit
                                            /\ clock - tracks[d].since <= Window}

\* latest_session_debt, on a read of its own
ReadDebt ==
    /\ stop.at = "debt"
    /\ IF Owing = {} THEN Goto("remedy")
       ELSE \E d \in Owing :
              /\ \A e \in Owing : \/ tracks[e].since < tracks[d].since
                                  \/ tracks[e].since = tracks[d].since /\ e <= d
              /\ stop' = [stop EXCEPT !.at = "mark", !.debt = d, !.holds = TRUE]
    /\ UNCHANGED <<clock, log, truth, moves, kills, current, tracks, pending, ended, cited>>

\* Mistake: nothing is counted.
MarkNothing ==
    /\ stop.at = "mark"
    /\ Goto("remedy")
    /\ UNCHANGED <<clock, log, truth, moves, kills, current, tracks, pending, ended, cited>>

\* record_stop_block_tx
MarkTrack ==
    /\ stop.at = "mark"
    /\ tracks' = [tracks EXCEPT ![stop.debt].blocks = @ + 1, ![stop.debt].since = clock]
    /\ Goto("remedy")
    /\ UNCHANGED <<clock, log, truth, moves, kills, current, pending, ended, cited>>

\* open_remediation_debts: the newest one that may still hold the turn
ReadRemedy ==
    /\ stop.at = "remedy"
    /\ IF Holding = {} THEN Goto("answer") /\ UNCHANGED cited
       ELSE \E d \in Holding :
              /\ \A e \in Holding : Latest(log, e).since <= Latest(log, d).since
              /\ stop' = [at |-> "count", holds |-> TRUE, debt |-> d, read |-> Latest(log, d)]
              /\ cited' = [cited EXCEPT ![d] = @ + 1]
    /\ UNCHANGED <<clock, log, truth, moves, kills, current, tracks, pending, ended>>

\* record_remediation_stop
CountRemedy ==
    /\ stop.at = "count"
    /\ RecordStop(stop.debt, stop.read)
    /\ IF kills' = kills THEN Goto("answer") ELSE stop' = NotRunning
    /\ cited' = Recount
    /\ UNCHANGED <<current, tracks, pending, ended>>

Answer ==
    /\ stop.at = "answer"
    /\ ended' = ~stop.holds
    /\ stop' = NotRunning
    /\ UNCHANGED <<clock, log, truth, moves, kills, current, tracks, pending, cited>>

StopStep ==
    ReadGate \/ ReadCurrent \/ ReadDebt \/ MarkTrack \/ ReadRemedy \/ CountRemedy \/ Answer

Others == /\ \/ Tick \/ Prune
          /\ UNCHANGED <<current, tracks, pending, stop, ended>>
          /\ cited' = Recount

GateNext ==
    \/ StopStep \/ Others \/ NewTurn \/ Request
    \/ \E d \in Debts : Denial(d)
    \/ \E d \in DOMAIN tracks, a \in Reports : Result(d, a)
    \/ \E r \in pending : Tell(r)

GateSpec == GateInit /\ [][GateNext]_gateVars

\* The agent tries again as long as it is sent back, and Grok runs the hook
\* to its end; nothing else is promised.
FairGateSpec == GateSpec /\ WF_gateVars(StopStep)

-----------------------------------------------------------------------------
(* Properties *)

\* A turn that is only trying to end does end: every reason to hold it is
\* counted, whatever other processes settle, deny or prune meanwhile.
TurnsEnd == ~ended ~> ended

\* No remediation debt holds a turn more than stop_block_limit times before it
\* is settled.  A killed process may cost the count of two: of its own hold and
\* of the next, whose record the unfinished line makes unreadable.
HoldsAreBounded == \A d \in Debts : cited[d] <= StopLimit + 2 * kills

\* A turn does not end before each debt that is open then has held it (or an
\* earlier turn) as often as the limit says; a hold that was read just before
\* the debt was settled may be counted against its next opening.  It is not so
\* once a process was killed in an operation on the log.
DebtsAreHeld ==
    [][ended' /\ ~ended /\ kills = 0 =>
         \A d \in Debts : IsOpen(log, d) => cited[d] + 1 >= StopLimit]_gateVars
=============================================================================

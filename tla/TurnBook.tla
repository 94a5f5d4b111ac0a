------------------------------ MODULE TurnBook ------------------------------
(* Which turn, and so which decision, the hook events of one session belong to. *)
(* UserPromptSubmit allocates a turn by the prompt's fingerprint, usually       *)
(* before the host has written the prompt to chat_history.jsonl; every later    *)
(* event takes the turn from the transcript and lifts the counter to it. The    *)
(* decision id is a hash of the turn and the prompt, so two events of one       *)
(* prompt that disagree on its turn work on two execution tracks.  `of` is the  *)
(* prompt in whose turn the host started the hook process; no step of the code  *)
(* reads it, it is kept to compare with what the process records.               *)
EXTENDS Integers, FiniteSets, Sequences

CONSTANTS
    Texts,          \* the prompts a user may type
    Hooks,          \* the hook processes that may run at the same time
    MaxPrompts,     \* bound: prompts typed
    MaxLate,        \* bound: tool events beyond the Stop event of each turn
    Mutes,          \* bound: submit payloads that carry no prompt
    Lost,           \* bound: submit events the host never delivers
    Expiries        \* bound: idle periods longer than TURN_TTL

NoText == "no text"     \* also: no fingerprint stored
NoTurn == -1

ASSUME TurnBookAssumption ==
    /\ NoText \notin Texts
    /\ {MaxPrompts, MaxLate, Mutes, Lost, Expiries} \subseteq Nat

VARIABLES
    said,       \* the prompts typed so far, in order
    written,    \* how many of them the transcript holds
    turns,      \* RuntimeState.turns of the session; absent entries count as 0
    prompts,    \* RuntimeState.prompts of the session: the last fingerprint
    expired,    \* whether turn_seen is older than TURN_TTL
    event,      \* what each hook process does
    recorded,   \* the decisions recorded: their turn, their text, the prompt
                \* in whose turn the event began (by number), and who recorded it
    served,     \* the last prompt some later event of its own turn has resolved
    late, mutes, lost, expiries     \* what is left of the bounds

turnVars == <<said, written, turns, prompts, expired, event, recorded, served,
          late, mutes, lost, expiries>>
book == <<turns, prompts, expired>>
bounds == <<late, mutes, lost, expiries>>

NoEvent == [kind |-> "idle", step |-> "done", text |-> NoText, turn |-> NoTurn, of |-> 0]

TurnInit ==
    /\ said = <<>> /\ written = 0
    /\ turns = 0 /\ prompts = NoText /\ expired = FALSE
    /\ event = [h \in Hooks |-> NoEvent]
    /\ recorded = {} /\ served = 0
    /\ late = MaxLate /\ mutes = Mutes /\ lost = Lost /\ expiries = Expiries

Transcript == IF written = 0 THEN NoText ELSE said[written]
Submitting == \E h \in Hooks : event[h].kind = "submit"

-----------------------------------------------------------------------------
(* The host and the user. *)

(* A prompt is typed and its submit event delivered, perhaps twice (the two     *)
(* event names the hook accepts), without its text, or not at all. A new prompt *)
(* is typed when the turn before ended, so its Stop event has been resolved.    *)
Submit(text, copies, mute) ==
    /\ Len(said) < MaxPrompts /\ written = Len(said) /\ served = Len(said)
    /\ ~Submitting
    /\ \A h \in copies : event[h].kind = "idle"
    /\ copies = {} => lost > 0
    /\ mute => mutes > 0 /\ copies # {}
    /\ said' = Append(said, text)
    /\ event' = [h \in Hooks |->
                  IF h \in copies
                  THEN [kind |-> "submit", step |-> "read", turn |-> NoTurn, of |-> Len(said'),
                        text |-> IF mute THEN NoText ELSE text]
                  ELSE event[h]]
    /\ lost' = IF copies = {} THEN lost - 1 ELSE lost
    /\ mutes' = IF mute THEN mutes - 1 ELSE mutes
    /\ UNCHANGED <<written, book, recorded, served, late, expiries>>

(* The host writes the prompt to the history once its submit hooks returned.   *)
WritePrompt ==
    /\ written < Len(said) /\ ~Submitting
    /\ written' = Len(said)
    /\ UNCHANGED <<said, book, event, recorded, served, bounds>>

(* A tool, result or Stop event starts; it may outlive the turn it began in.    *)
Event(h) ==
    /\ event[h].kind = "idle" /\ written > 0
    /\ served = written => late > 0
    /\ late' = IF served = written THEN late - 1 ELSE late
    /\ event' = [event EXCEPT ![h] = [NoEvent EXCEPT !.kind = "tool", !.step = "read", !.of = written]]
    /\ UNCHANGED <<said, written, book, recorded, served, mutes, lost, expiries>>

Expire ==
    /\ expiries > 0 /\ ~expired /\ turns > 0
    /\ expiries' = expiries - 1
    /\ expired' = TRUE
    /\ UNCHANGED <<said, written, turns, prompts, event, recorded, served, late, mutes, lost>>

-----------------------------------------------------------------------------
(* The hook process. *)

(* resolve_route reads the prompt: the submit event prefers its payload, any    *)
(* other event the transcript, which may have gone on since the event began.    *)
(* Without a prompt there is nothing live to record: the cached route is        *)
(* observe-only.                                                                *)
resolve_route(h) ==
    /\ event[h].step = "read"
    /\ LET e == event[h]
           text == IF e.kind = "submit" /\ e.text # NoText THEN e.text ELSE Transcript
       IN  event' = [event EXCEPT ![h] =
             IF text = NoText THEN NoEvent
             ELSE [e EXCEPT !.text = text, !.step = IF e.kind = "submit" THEN "turn" ELSE "count"]]
    /\ UNCHANGED <<said, written, book, recorded, served, bounds>>

(* The transcript is read a second time for its ordinal.                        *)
last_user_turn_number(h) ==
    /\ event[h].step = "count"
    /\ event' = [event EXCEPT ![h].turn = written, ![h].step = "turn"]
    /\ UNCHANGED <<said, written, book, recorded, served, bounds>>

(* prune, at the head of every transaction *)
Counted == IF expired THEN 0 ELSE turns
Prompts == IF expired THEN NoText ELSE prompts

(* Mistake: a fingerprint that was seen is allocated again. *)
AllocateAnew(h) ==
    /\ event[h].step = "turn" /\ event[h].kind = "submit"
    /\ turns' = Counted + 1 /\ prompts' = event[h].text
    /\ expired' = FALSE
    /\ event' = [event EXCEPT ![h].turn = turns', ![h].step = "record"]
    /\ UNCHANGED <<said, written, recorded, served, bounds>>

(* allocate_turn: the next turn, unless this prompt was the last to get one.    *)
allocate_turn(h) ==
    /\ event[h].step = "turn" /\ event[h].kind = "submit"
    /\ IF Prompts = event[h].text
       THEN turns' = Counted /\ prompts' = Prompts
       ELSE turns' = Counted + 1 /\ prompts' = event[h].text
    /\ expired' = FALSE
    /\ event' = [event EXCEPT ![h].turn = turns', ![h].step = "record"]
    /\ UNCHANGED <<said, written, recorded, served, bounds>>

(* Mistake: the counter is set to the ordinal the process has read. *)
EnsureExactly(h) ==
    /\ event[h].step = "turn" /\ event[h].kind = "tool"
    /\ turns' = event[h].turn
    /\ prompts' = Prompts /\ expired' = FALSE
    /\ event' = [event EXCEPT ![h].step = "record"]
    /\ UNCHANGED <<said, written, recorded, served, bounds>>

(* ensure_turn: the counter is lifted to the transcript's ordinal.              *)
ensure_turn(h) ==
    /\ event[h].step = "turn" /\ event[h].kind = "tool"
    /\ turns' = IF event[h].turn > Counted THEN event[h].turn ELSE Counted
    /\ prompts' = Prompts /\ expired' = FALSE
    /\ event' = [event EXCEPT ![h].step = "record"]
    /\ UNCHANGED <<said, written, recorded, served, bounds>>

(* The decision is recorded with its track: by record_decision_tx, which also   *)
(* lifts the turn counter, for the submit event; by ensure_execution_tx for     *)
(* the others.                                                                  *)
Record(h) ==
    /\ event[h].step = "record"
    /\ recorded' = recorded \cup {[turn |-> event[h].turn, text |-> event[h].text,
                               of |-> event[h].of, by |-> event[h].kind]}
    /\ IF event[h].kind = "submit"
       THEN /\ turns' = IF event[h].turn > Counted THEN event[h].turn ELSE Counted
            /\ prompts' = Prompts /\ expired' = FALSE
       ELSE turns' = Counted /\ prompts' = Prompts /\ expired' = FALSE
    /\ served' = IF event[h].kind = "tool" /\ event[h].of > served THEN event[h].of ELSE served
    /\ event' = [event EXCEPT ![h] = NoEvent]
    /\ UNCHANGED <<said, written, bounds>>

TurnNext ==
    \/ \E text \in Texts, copies \in SUBSET Hooks, mute \in BOOLEAN : Submit(text, copies, mute)
    \/ WritePrompt
    \/ Expire
    \/ \E h \in Hooks : \/ Event(h) \/ resolve_route(h) \/ last_user_turn_number(h)
                       \/ allocate_turn(h) \/ ensure_turn(h) \/ Record(h)
TurnSpec == TurnInit /\ [][TurnNext]_turnVars

-----------------------------------------------------------------------------
TurnTypeOK ==
    /\ said \in Seq(Texts) /\ written \in 0..Len(said) /\ served \in 0..written
    /\ turns \in Nat /\ prompts \in Texts \cup {NoText} /\ expired \in BOOLEAN
    /\ \A d \in recorded : d.turn \in Nat /\ d.text \in Texts /\ d.of \in DOMAIN said

Repeated(n) == \E i \in 1..(n - 1) : said[i] = said[n]

(* What an event records belongs to the prompt in whose turn it began, or to a  *)
(* newer one, never to an older: a submit event gives a prompt typed for the    *)
(* first time its own ordinal, however often it is delivered and whatever was   *)
(* lost before; a tool event that ends in its turn records that very decision,  *)
(* and a late one a text typed no later than the turn it counts.  So no second  *)
(* track of a prompt stays owed for ever. (allocate_turn, resolve_route) A      *)
(* repeated prompt may be given the turn before it, although last_user_turn_    *)
(* number's docstring says it "never collides with the previous turn's executor *)
(* track": allocate_turn takes it for the same submit.  Nothing is claimed once *)
(* a payload came without its prompt or the session was idle for TURN_TTL.      *)
DecisionsFollowPrompts ==
    mutes = Mutes /\ expiries = Expiries =>
        \A d \in recorded :
            \/ /\ d.by = "submit" /\ d.text = said[d.of]
               /\ d.turn = d.of \/ (Repeated(d.of) /\ d.turn = d.of - 1)
            \/ /\ d.by = "tool"
               /\ \E i \in d.of..d.turn : d.text = said[i]

(* The counter never decreases while the session is in use, although hook      *)
(* processes of earlier turns still write the ordinal they read.               *)
CounterNeverDecreases == [][turns' >= turns \/ expired]_turnVars
=============================================================================

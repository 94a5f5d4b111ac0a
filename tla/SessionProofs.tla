---------------------------- MODULE SessionProofs ----------------------------
(***************************************************************************)
(* What decides over a session besides its tracks, for any number of       *)
(* prompts, hook processes, roles, sessions and shell segments: proofs about *)
(* TurnBook.tla (the turn counter, which prompt an event is for), RoleHealth.tla *)
(* (circuits open no earlier and close no sooner than they should) and     *)
(* PreTool.tla (the conductor writes nothing).                             *)
(***************************************************************************)
EXTENDS TurnBook, RoleHealth, PreTool, WellFoundedInduction, TLAPS


-----------------------------------------------------------------------------
(***************************************************************************)
(* The turn counter. It only grows because every hook that writes it lifts *)
(* it; what the proof needs is that a hook, however old, holds an ordinal  *)
(* that is a number and a prompt that was typed.                           *)
(***************************************************************************)
Entry == [kind : {"idle", "submit", "tool"}, step : {"done", "read", "count", "turn", "record"},
          text : Texts \cup {NoText}, turn : Nat \cup {NoTurn}, of : Nat]

\* Where a hook process stands, it holds a prompt that was typed, and its turn.
HookOK(e) ==
    /\ e \in Entry
    /\ e.kind = "idle" => e.step = "done"
    /\ e.kind # "idle" => e.of \in 1..Len(said)
    /\ e.step = "count" => e.kind = "tool"
    /\ e.step \in {"count", "turn", "record"} => e.text \in Texts /\ e.of \in 1..Len(said)
    /\ e.step = "turn" /\ e.kind = "tool" => e.turn \in Nat
    /\ e.step = "record" => e.turn \in Nat
    /\ e.kind = "tool" => e.of <= written

TurnInv ==
    /\ TurnTypeOK
    /\ DOMAIN event = Hooks
    /\ event = [h \in Hooks |-> event[h]]
    /\ \A h \in Hooks : HookOK(event[h])

-----------------------------------------------------------------------------
\* What is said, written and served only grows, so what was held of it stays.
LEMMA HeldStays ==
    ASSUME NEW e, HookOK(e),
           TurnTypeOK, said' \in Seq(Texts), Len(said') >= Len(said),
           written' \in Nat, written' >= written
    PROVE  HookOK(e)'
BY DEF HookOK, Entry, TurnTypeOK

\* One hook process takes a step, and the transcript stays as it is.
LEMMA OneHook ==
    ASSUME TurnInv, NEW h \in Hooks, NEW e, HookOK(e), event' = [event EXCEPT ![h] = e],
           said' = said, written' = written
    PROVE  /\ event' = [g \in Hooks |-> event'[g]]
           /\ DOMAIN event' = Hooks
           /\ \A g \in Hooks : HookOK(event[g])'
<1>1. \A g \in Hooks : event'[g] = IF g = h THEN e ELSE event[g]
  BY DEF TurnInv
<1>2. \A g \in Hooks : HookOK(event'[g])
  BY <1>1 DEF TurnInv
<1>3. \A g \in Hooks : HookOK(event[g])'
  BY <1>2 DEF HookOK
<1> QED BY <1>3 DEF TurnInv

LEMMA InitTurns == TurnInit => TurnInv
<1> SUFFICES ASSUME TurnInit PROVE TurnInv OBVIOUS
<1>1. HookOK(NoEvent)
  BY DEF HookOK, Entry, NoEvent, NoTurn
<1>2. said \in Seq(Texts) /\ Len(said) = 0
  BY DEF TurnInit
<1>3. written = 0 /\ served = 0 /\ turns \in Nat /\ prompts \in Texts \cup {NoText}
      /\ expired \in BOOLEAN /\ recorded = {}
  BY DEF TurnInit
<1>4. TurnTypeOK
  <2>1. \A d \in recorded : d.turn \in Nat /\ d.text \in Texts /\ d.of \in DOMAIN said
    BY <1>3
  <2>2. written \in 0..Len(said) /\ served \in 0..written
    BY <1>2, <1>3
  <2> QED BY <1>2, <1>3, <2>1, <2>2, Zenon DEF TurnTypeOK
<1> QED BY <1>1, <1>4 DEF TurnInit, TurnInv

LEMMA SubmitTurns ==
    ASSUME TurnInv, NEW text \in Texts, NEW copies \in SUBSET Hooks, NEW mute \in BOOLEAN,
           Submit(text, copies, mute)
    PROVE  TurnInv'
<1>1. /\ said \in Seq(Texts) /\ said' \in Seq(Texts) /\ Len(said') = Len(said) + 1
      /\ written' = written
      /\ DOMAIN said = 1..Len(said) /\ DOMAIN said' = 1..Len(said')
  BY DEF TurnInv, TurnTypeOK, Submit
<1>2. TurnTypeOK'
  <2>1. recorded' = recorded /\ served' = served /\ turns' = turns /\ prompts' = prompts
        /\ expired' = expired
    BY DEF Submit, book
  <2> QED BY <1>1, <2>1 DEF TurnInv, TurnTypeOK
<1>3. ASSUME NEW h \in Hooks PROVE HookOK(event[h])'
  <2>1. CASE h \in copies
    <3>1. event'[h] = [kind |-> "submit", step |-> "read", turn |-> NoTurn, of |-> Len(said'),
                      text |-> IF mute THEN NoText ELSE text]
      BY <2>1 DEF Submit
    <3> QED BY <3>1, <1>1 DEF HookOK, Entry, NoTurn
  <2>2. CASE h \notin copies
    <3>1. event'[h] = event[h] /\ HookOK(event[h])
      BY <2>2 DEF Submit, TurnInv
    <3>2. written' \in Nat /\ written' >= written
      BY <1>1 DEF TurnInv, TurnTypeOK
    <3> QED BY <3>1, <3>2, <1>1, <1>2 DEF HookOK, Entry
  <2> QED BY <2>1, <2>2
<1> QED BY <1>2, <1>3 DEF TurnInv, Submit

LEMMA WriteTurns == ASSUME TurnInv, WritePrompt PROVE TurnInv'
<1>1. said' = said /\ written' = Len(said) /\ written' >= written /\ event' = event
  BY DEF WritePrompt, TurnInv, TurnTypeOK
<1>2. TurnTypeOK'
  BY <1>1 DEF WritePrompt, book, TurnInv, TurnTypeOK
<1>3. \A h \in Hooks : HookOK(event[h])'
  BY <1>1, <1>2 DEF TurnInv, TurnTypeOK, HookOK, Entry
<1> QED BY <1>1, <1>2, <1>3 DEF TurnInv

LEMMA EventTurns == ASSUME TurnInv, NEW h \in Hooks, Event(h) PROVE TurnInv'
<1> DEFINE e == [NoEvent EXCEPT !.kind = "tool", !.step = "read", !.of = written]
<1>1. HookOK(e)
  <2>1. written \in 1..Len(said) /\ written \in Nat
    BY DEF Event, TurnInv, TurnTypeOK
  <2>2. /\ e.kind = "tool" /\ e.step = "read" /\ e.of = written
        /\ e \in Entry
    BY <2>1 DEF Entry, NoEvent, NoTurn
  <2> HIDE DEF e
  <2> QED BY <2>1, <2>2 DEF HookOK
<1>2. event' = [event EXCEPT ![h] = e] /\ said' = said /\ written' = written
  BY DEF Event
<1>3. TurnTypeOK'
  BY DEF Event, book, TurnInv, TurnTypeOK
<1> HIDE DEF e
<1> QED BY <1>1, <1>2, <1>3, OneHook DEF TurnInv

LEMMA ExpireTurns == ASSUME TurnInv, Expire PROVE TurnInv'
<1>1. TurnTypeOK'
  BY DEF Expire, TurnInv, TurnTypeOK
<1>2. said' = said /\ written' = written /\ event' = event
  BY DEF Expire
<1> QED BY <1>1, <1>2 DEF TurnInv, HookOK

LEMMA ResolveTurns == ASSUME TurnInv, NEW h \in Hooks, resolve_route(h) PROVE TurnInv'
<1> DEFINE text == IF event[h].kind = "submit" /\ event[h].text # NoText THEN event[h].text ELSE Transcript
           step == IF event[h].kind = "submit" THEN "turn" ELSE "count"
           e == IF text = NoText THEN NoEvent ELSE [event[h] EXCEPT !.text = text, !.step = step]
<1>1. HookOK(event[h]) /\ event[h].step = "read" /\ event[h].kind \in {"submit", "tool"}
  BY DEF TurnInv, resolve_route, HookOK, Entry
<1>2. event' = [event EXCEPT ![h] = e] /\ said' = said /\ written' = written
  BY DEF resolve_route
<1>3. Transcript \in Texts \cup {NoText}
  BY DEF Transcript, TurnInv, TurnTypeOK
<1>4. text \in Texts \cup {NoText}
  BY <1>1, <1>3 DEF HookOK, Entry
<1>5. HookOK(e)
  <2>1. CASE text = NoText
    BY <2>1 DEF HookOK, Entry, NoEvent, NoTurn
  <2>2. CASE text # NoText
    <3>1. e = [event[h] EXCEPT !.text = text, !.step = step]
      BY <2>2
    <3>2. step \in {"turn", "count"} /\ (step = "count" <=> event[h].kind # "submit")
      OBVIOUS
    <3> HIDE DEF text, step, e
    <3> QED BY <2>2, <3>1, <3>2, <1>1, <1>4 DEF HookOK, Entry
  <2> QED BY <2>1, <2>2
<1>6. TurnTypeOK'
  BY DEF resolve_route, book, TurnInv, TurnTypeOK
<1> HIDE DEF e
<1> QED BY <1>2, <1>5, <1>6, OneHook DEF TurnInv

LEMMA CountTurns == ASSUME TurnInv, NEW h \in Hooks, last_user_turn_number(h) PROVE TurnInv'
<1> DEFINE e == [event[h] EXCEPT !.turn = written, !.step = "turn"]
<1>1. HookOK(event[h]) /\ event[h].step = "count" /\ written \in Nat
  BY DEF TurnInv, TurnTypeOK, last_user_turn_number
<1>2. event' = [event EXCEPT ![h] = e] /\ said' = said /\ written' = written
  BY DEF last_user_turn_number, TurnInv
<1>3. HookOK(e)
  BY <1>1 DEF HookOK, Entry
<1>4. TurnTypeOK'
  BY DEF last_user_turn_number, book, TurnInv, TurnTypeOK
<1> HIDE DEF e
<1> QED BY <1>2, <1>3, <1>4, OneHook DEF TurnInv

\* What the counter is lifted to.
LEMMA Lifted ==
    ASSUME TurnInv
    PROVE  Counted \in Nat /\ Prompts \in Texts \cup {NoText} /\ (expired \/ Counted = turns)
BY DEF Counted, Prompts, TurnInv, TurnTypeOK

LEMMA AllocateTurns ==
    ASSUME TurnInv, NEW h \in Hooks, allocate_turn(h)
    PROVE  TurnInv' /\ (turns' >= turns \/ expired)
<1> DEFINE e == [event[h] EXCEPT !.turn = turns', !.step = "record"]
<1>1. HookOK(event[h]) /\ event[h].step = "turn"
  BY DEF TurnInv, allocate_turn
<1>2. turns' \in Nat /\ prompts' \in Texts \cup {NoText} /\ (turns' >= turns \/ expired)
  BY <1>1, Lifted DEF allocate_turn, HookOK, Entry, TurnInv, TurnTypeOK
<1>3. event' = [event EXCEPT ![h] = e] /\ said' = said /\ written' = written
  BY DEF allocate_turn, TurnInv
<1>4. HookOK(e)
  BY <1>1, <1>2 DEF HookOK, Entry, allocate_turn
<1>5. TurnTypeOK'
  BY <1>2 DEF allocate_turn, TurnInv, TurnTypeOK
<1> HIDE DEF e
<1> QED BY <1>2, <1>3, <1>4, <1>5, OneHook DEF TurnInv

LEMMA EnsureTurns ==
    ASSUME TurnInv, NEW h \in Hooks, ensure_turn(h)
    PROVE  TurnInv' /\ (turns' >= turns \/ expired)
<1> DEFINE e == [event[h] EXCEPT !.step = "record"]
<1>1. HookOK(event[h]) /\ event[h].step = "turn" /\ event[h].kind = "tool" /\ event[h].turn \in Nat
  BY DEF TurnInv, ensure_turn, HookOK
<1>2. turns' \in Nat /\ prompts' \in Texts \cup {NoText} /\ (turns' >= turns \/ expired)
  BY <1>1, Lifted DEF ensure_turn, TurnInv, TurnTypeOK
<1>3. event' = [event EXCEPT ![h] = e] /\ said' = said /\ written' = written
  BY DEF ensure_turn
<1>4. HookOK(e)
  BY <1>1 DEF HookOK, Entry
<1>5. TurnTypeOK'
  BY <1>2 DEF ensure_turn, TurnInv, TurnTypeOK
<1> HIDE DEF e
<1> QED BY <1>2, <1>3, <1>4, <1>5, OneHook DEF TurnInv

LEMMA RecordTurns ==
    ASSUME TurnInv, NEW h \in Hooks, Record(h)
    PROVE  TurnInv' /\ (turns' >= turns \/ expired)
<1>1. /\ HookOK(event[h]) /\ event[h].turn \in Nat /\ event[h].text \in Texts
      /\ event[h].of \in 1..Len(said)
      /\ event[h].kind = "tool" => event[h].of <= written
  BY DEF TurnInv, Record, HookOK
<1>2. turns' \in Nat /\ prompts' \in Texts \cup {NoText} /\ (turns' >= turns \/ expired)
  BY <1>1, Lifted DEF Record, TurnInv, TurnTypeOK
<1>3. event' = [event EXCEPT ![h] = NoEvent] /\ said' = said /\ written' = written
  BY DEF Record
<1>4. HookOK(NoEvent)
  BY DEF HookOK, Entry, NoEvent, NoTurn
<1>5. served' \in 0..written /\ expired' = FALSE
  BY <1>1 DEF Record, TurnInv, TurnTypeOK
<1>6. \A d \in recorded' : d.turn \in Nat /\ d.text \in Texts /\ d.of \in DOMAIN said
  BY <1>1 DEF Record, TurnInv, TurnTypeOK
<1>7. TurnTypeOK'
  BY <1>2, <1>3, <1>5, <1>6 DEF TurnInv, TurnTypeOK
<1> QED BY <1>2, <1>3, <1>4, <1>7, OneHook DEF TurnInv

LEMMA NextTurns ==
    ASSUME TurnInv, [TurnNext]_turnVars
    PROVE  TurnInv' /\ (turns' >= turns \/ expired)
<1> turns \in Nat BY DEF TurnInv, TurnTypeOK
<1>1. ASSUME NEW text \in Texts, NEW copies \in SUBSET Hooks, NEW mute \in BOOLEAN,
             Submit(text, copies, mute)
      PROVE  TurnInv' /\ turns' = turns
  BY <1>1, SubmitTurns DEF Submit, book
<1>2. CASE WritePrompt
  BY <1>2, WriteTurns DEF WritePrompt, book
<1>3. CASE Expire
  BY <1>3, ExpireTurns DEF Expire
<1>4. ASSUME NEW h \in Hooks, Event(h) PROVE TurnInv' /\ turns' = turns
  BY <1>4, EventTurns DEF Event, book
<1>5. ASSUME NEW h \in Hooks, resolve_route(h) \/ last_user_turn_number(h)
      PROVE  TurnInv' /\ turns' = turns
  <2>1. CASE resolve_route(h)
    <3>1. turns' = turns
      BY <2>1 DEF resolve_route, book
    <3> QED BY <2>1, <3>1, ResolveTurns
  <2>2. CASE last_user_turn_number(h)
    BY <2>2, CountTurns DEF last_user_turn_number, book
  <2> QED BY <1>5, <2>1, <2>2
<1>6. ASSUME NEW h \in Hooks, allocate_turn(h) \/ ensure_turn(h) \/ Record(h)
      PROVE  TurnInv' /\ (turns' >= turns \/ expired)
  BY <1>6, AllocateTurns, EnsureTurns, RecordTurns
<1>7. CASE UNCHANGED turnVars
  BY <1>7 DEF turnVars, book, TurnInv, TurnTypeOK, HookOK
<1> QED BY <1>1, <1>2, <1>3, <1>4, <1>5, <1>6, <1>7 DEF TurnNext

LEMMA TurnsHold == TurnSpec => []TurnInv
BY InitTurns, NextTurns, PTL DEF TurnSpec

\* Every track of the session stands for a prompt that was typed.
THEOREM TurnsTyped == TurnSpec => []TurnTypeOK
<1>1. TurnInv => TurnTypeOK BY DEF TurnInv
<1> QED BY <1>1, TurnsHold, PTL

\* The turn counter never goes back while the session is in use, whatever hook
\* process of an earlier turn still writes the ordinal it has read.
THEOREM CounterGrows == TurnSpec => CounterNeverDecreases
<1>1. TurnInv /\ [TurnNext]_turnVars => [turns' >= turns \/ expired]_turnVars
  BY NextTurns
<1> QED BY <1>1, TurnsHold, PTL DEF TurnSpec, CounterNeverDecreases

-----------------------------------------------------------------------------
(***************************************************************************)
(* Decisions follow prompts.  Every payload carries its prompt and no pause *)
(* outlasts TURN_TTL (Clean); submit events may be lost or doubled, prompts *)
(* may repeat and hooks of earlier turns may still be running.  A prompt is *)
(* typed when a later event of the one before was resolved, so the counter *)
(* then stands at the number of prompts.  Until the new one is written,    *)
(* only its own submit events can move the counter, and the first of them  *)
(* leaves the fingerprint by which the others find its turn; a fingerprint *)
(* left by an equal prompt before it is found as well.                     *)
(***************************************************************************)
Clean == mutes = Mutes /\ expiries = Expiries

BoundsOK == mutes \in 0..Mutes /\ expiries \in 0..Expiries

\* The counter lies between the turns resolved and the prompts typed; while the
\* last prompt is not written and new, it has its turn exactly when its text is
\* stored.
CounterOK ==
    /\ ~expired
    /\ served <= turns /\ turns <= Len(said)
    /\ prompts # NoText => \E i \in DOMAIN said : prompts = said[i]
    /\ written < Len(said) =>
        /\ Len(said) = written + 1 /\ written <= turns
        /\ turns = Len(said) => prompts = said[Len(said)]
        /\ prompts = said[Len(said)] => turns = Len(said) \/ Repeated(Len(said))

\* A submit event belongs to the last prompt, still unwritten; a later event
\* holds a text typed since it began and an ordinal read after that.  counter
\* is turns.
EventOK(e, counter) ==
    /\ e.kind = "submit" =>
        /\ written < Len(said) /\ e.of = Len(said) /\ e.text = said[e.of]
        /\ e.step = "record" => /\ e.turn <= counter
                                /\ e.turn = e.of \/ (Repeated(e.of) /\ e.turn = e.of - 1)
    /\ e.kind = "tool" =>
        /\ e.step = "count" => \E i \in e.of..written : e.text = said[i]
        /\ e.step \in {"turn", "record"} =>
              e.turn <= written /\ \E i \in e.of..e.turn : e.text = said[i]
        /\ e.step = "record" => e.turn <= counter

Follows(d) ==
    \/ /\ d.by = "submit" /\ d.text = said[d.of]
       /\ d.turn = d.of \/ (Repeated(d.of) /\ d.turn = d.of - 1)
    \/ /\ d.by = "tool"
       /\ \E i \in d.of..d.turn : d.text = said[i]

\* No decision is for a turn that is not typed yet.
DecisionsOK == \A d \in recorded : d.turn <= Len(said) /\ Follows(d)

OneInv ==
    /\ BoundsOK
    /\ Clean => CounterOK /\ DecisionsOK /\ \A h \in Hooks : EventOK(event[h], turns)

LEMMA InitOne == TurnInit => OneInv
<1> SUFFICES ASSUME TurnInit PROVE OneInv OBVIOUS
<1>1. BoundsOK
  BY TurnBookAssumption DEF TurnInit, BoundsOK
<1>2. said = <<>> /\ Len(said) = 0 /\ DOMAIN said = {}
  BY DEF TurnInit
<1>3. CounterOK /\ DecisionsOK
  BY <1>2 DEF TurnInit, CounterOK, DecisionsOK
<1>4. \A h \in Hooks : EventOK(event[h], turns)
  BY DEF TurnInit, EventOK, NoEvent
<1> QED BY <1>1, <1>3, <1>4 DEF OneInv

\* A hook takes a step that moves neither the transcript nor the counter down.
LEMMA OneHookOne ==
    ASSUME TurnInv, NEW h \in Hooks, NEW e, EventOK(e, turns'), event' = [event EXCEPT ![h] = e],
           \A g \in Hooks : EventOK(event[g], turns),
           said' = said, written' = written, turns' \in Nat, turns' >= turns, turns' <= Len(said),
           turns \in Nat
    PROVE  \A g \in Hooks : EventOK(event[g], turns)'
<1> SUFFICES ASSUME NEW g \in Hooks PROVE EventOK(event[g], turns)'
  OBVIOUS
<1>1. event'[g] = IF g = h THEN e ELSE event[g]
  BY DEF TurnInv
<1>2. CASE g = h
  BY <1>1, <1>2 DEF EventOK, Repeated
<1>3. CASE g # h
  <2>1. event'[g] = event[g] /\ EventOK(event[g], turns) /\ HookOK(event[g])
    BY <1>1, <1>3 DEF TurnInv
  <2> QED BY <2>1 DEF EventOK, HookOK, Entry, Repeated
<1> QED BY <1>2, <1>3

\* What was typed stays, so what was true of it stays.
LEMMA SaidStays ==
    ASSUME said \in Seq(Texts), NEW text \in Texts, said' = Append(said, text)
    PROVE  /\ said' \in Seq(Texts) /\ Len(said') = Len(said) + 1 /\ said'[Len(said')] = text
           /\ Len(said) \in Nat /\ DOMAIN said = 1..Len(said) /\ DOMAIN said' = 1..Len(said')
           /\ \A i \in 1..Len(said) : said'[i] = said[i] /\ (Repeated(i)' <=> Repeated(i))
           /\ (\E i \in 1..Len(said) : said[i] = text) => Repeated(Len(said))'
<1>1. /\ said' \in Seq(Texts) /\ Len(said') = Len(said) + 1 /\ said'[Len(said')] = text
      /\ Len(said) \in Nat /\ DOMAIN said = 1..Len(said) /\ DOMAIN said' = 1..Len(said')
      /\ \A i \in 1..Len(said) : said'[i] = said[i]
  OBVIOUS
<1>2. ASSUME NEW i \in 1..Len(said) PROVE Repeated(i)' <=> Repeated(i)
  <2>1. \A j \in 1..(i - 1) : j \in 1..Len(said)
    BY <1>1
  <2> QED BY <1>1, <2>1 DEF Repeated
<1>3. (\E i \in 1..Len(said) : said[i] = text) => Repeated(Len(said))'
  <2>1. 1..(Len(said') - 1) = 1..Len(said)
    BY <1>1
  <2> QED BY <1>1, <2>1 DEF Repeated
<1> QED BY <1>1, <1>2, <1>3

LEMMA SubmitOne ==
    ASSUME TurnInv, OneInv,
           NEW text \in Texts, NEW copies \in SUBSET Hooks, NEW mute \in BOOLEAN,
           Submit(text, copies, mute)
    PROVE  OneInv'
<1>1. BoundsOK' /\ (Clean' => Clean /\ ~mute)
  <2>1. /\ mute => mutes > 0
        /\ mutes' = IF mute THEN mutes - 1 ELSE mutes
        /\ expiries' = expiries
    BY DEF Submit
  <2> QED BY <2>1, TurnBookAssumption DEF OneInv, BoundsOK, Clean
<1>2. SUFFICES ASSUME Clean'
               PROVE (CounterOK /\ DecisionsOK /\ \A h \in Hooks : EventOK(event[h], turns))'
  BY <1>1 DEF OneInv
<1>3. CounterOK /\ DecisionsOK /\ ~mute /\ \A h \in Hooks : EventOK(event[h], turns)
  BY <1>1, <1>2 DEF OneInv
<1>4. /\ said' \in Seq(Texts) /\ Len(said') = Len(said) + 1 /\ said'[Len(said')] = text
      /\ Len(said) \in Nat /\ DOMAIN said = 1..Len(said) /\ DOMAIN said' = 1..Len(said')
      /\ \A i \in 1..Len(said) : said'[i] = said[i] /\ (Repeated(i)' <=> Repeated(i))
      /\ (\E i \in 1..Len(said) : said[i] = text) => Repeated(Len(said))'
  BY SaidStays DEF TurnInv, TurnTypeOK, Submit
<1>5. /\ written' = written /\ written = Len(said) /\ served' = served /\ served = Len(said)
      /\ turns' = turns /\ prompts' = prompts /\ expired' = expired /\ recorded' = recorded
      /\ turns \in Nat
  BY DEF Submit, book, TurnInv, TurnTypeOK
<1>6. turns = Len(said)
  <2>1. served <= turns /\ turns <= Len(said)
    BY <1>3 DEF CounterOK
  <2>2. served = Len(said) /\ turns \in Nat /\ Len(said) \in Nat
    BY <1>4, <1>5
  <2> QED BY <2>1, <2>2
<1>7. CounterOK'
  <2>1. ~expired' /\ served' <= turns' /\ turns' <= Len(said') /\ turns' # Len(said')
        /\ Len(said') = written' + 1 /\ written' <= turns'
    <3>1. ~expired' /\ expired' = expired
      BY <1>3, <1>5 DEF CounterOK
    <3>2. turns' = Len(said) /\ served' = Len(said) /\ written' = Len(said)
          /\ Len(said') = Len(said) + 1 /\ Len(said) \in Nat
      BY <1>4, <1>5, <1>6
    <3> QED BY <3>1, <3>2
  <2>2. prompts' # NoText => \E i \in 1..Len(said) : prompts' = said[i] /\ prompts' = said'[i]
    <3>1. prompts # NoText => \E i \in 1..Len(said) : prompts = said[i]
      BY <1>3, <1>4 DEF CounterOK
    <3> QED BY <3>1, <1>4, <1>5
  <2>3. prompts' = said'[Len(said')] => Repeated(Len(said))'
    BY <1>4, <2>2, TurnBookAssumption
  <2>4. prompts' # NoText => \E i \in DOMAIN said' : prompts' = said'[i]
    BY <1>4, <2>2
  <2> QED BY <2>1, <2>3, <2>4 DEF CounterOK
<1>8. DecisionsOK'
  <2> SUFFICES ASSUME NEW d \in recorded PROVE (d.turn <= Len(said) /\ Follows(d))'
    BY <1>5 DEF DecisionsOK
  <2>1. d.turn <= Len(said) /\ Follows(d) /\ d.turn \in Nat /\ d.of \in 1..Len(said)
    BY <1>3, <1>4 DEF DecisionsOK, TurnInv, TurnTypeOK
  <2>2. \A i \in d.of..d.turn : i \in 1..Len(said)
    BY <1>4, <2>1
  <2>3. d.turn <= Len(said')
    BY <1>4, <2>1
  <2> QED BY <1>4, <2>1, <2>2, <2>3 DEF Follows
<1>9. ASSUME NEW h \in Hooks PROVE EventOK(event[h], turns)'
  <2>1. CASE h \in copies
    <3>1. event'[h] = [kind |-> "submit", step |-> "read", turn |-> NoTurn, of |-> Len(said'),
                      text |-> text]
      BY <1>3, <2>1 DEF Submit
    <3> QED BY <3>1, <1>4, <1>5 DEF EventOK
  <2>2. CASE h \notin copies
    <3>1. event'[h] = event[h] /\ EventOK(event[h], turns) /\ HookOK(event[h])
      BY <1>3, <2>2 DEF Submit, TurnInv
    <3>2. event[h].kind # "submit"
      BY DEF Submit, Submitting
    <3>3. CASE event[h].kind = "tool" /\ event[h].step = "count"
      <4>1. PICK i \in event[h].of..written : event[h].text = said[i]
        BY <3>1, <3>3 DEF EventOK
      <4>2. i \in 1..Len(said) /\ i \in event[h].of..written'
        BY <3>1, <3>3, <4>1, <1>4, <1>5 DEF HookOK, Entry
      <4> QED BY <3>1, <3>3, <4>1, <4>2, <1>4 DEF EventOK
    <3>4. CASE event[h].kind = "tool" /\ event[h].step \in {"turn", "record"}
      <4>1. PICK i \in event[h].of..event[h].turn : event[h].text = said[i]
        BY <3>1, <3>4 DEF EventOK
      <4>2. event[h].turn <= written /\ event[h].turn \in Nat
        BY <3>1, <3>4 DEF EventOK, HookOK
      <4>3. i \in 1..Len(said)
        BY <3>1, <3>4, <4>1, <4>2, <1>4, <1>5 DEF HookOK, Entry
      <4>4. event[h].step = "record" => event[h].turn <= turns'
        BY <3>1, <3>4, <1>5 DEF EventOK
      <4>5. \E j \in event'[h].of..event'[h].turn : event'[h].text = said'[j]
        BY <3>1, <4>1, <4>3, <1>4
      <4> QED BY <3>1, <3>4, <4>2, <4>4, <4>5, <1>5 DEF EventOK
    <3> QED BY <3>1, <3>2, <3>3, <3>4 DEF EventOK
  <2> QED BY <2>1, <2>2
<1> QED BY <1>7, <1>8, <1>9

LEMMA WriteOne == ASSUME TurnInv, OneInv, WritePrompt PROVE OneInv'
<1>1. BoundsOK' /\ (Clean' => Clean)
  BY DEF OneInv, BoundsOK, Clean, WritePrompt, bounds
<1>2. /\ said' = said /\ written' = Len(said) /\ event' = event /\ served' = served
      /\ turns' = turns /\ prompts' = prompts /\ expired' = expired /\ recorded' = recorded
      /\ \A h \in Hooks : event[h].kind # "submit"
  BY DEF WritePrompt, book, Submitting
<1>3. Clean => (CounterOK /\ DecisionsOK)'
  BY <1>2 DEF OneInv, CounterOK, DecisionsOK, Follows, Repeated
<1>4. ASSUME Clean, NEW h \in Hooks PROVE EventOK(event[h], turns)'
  <2>1. EventOK(event[h], turns) /\ HookOK(event[h]) /\ event'[h] = event[h] /\ event[h].kind # "submit"
    BY <1>2, <1>4 DEF OneInv, TurnInv
  <2>2. written \in Nat /\ written' \in Nat /\ written <= written' /\ said' = said /\ turns' = turns
    BY <1>2 DEF TurnInv, TurnTypeOK
  <2>3. CASE event[h].kind = "tool" /\ event[h].step = "count"
    <3>1. PICK i \in event[h].of..written : event[h].text = said[i]
      BY <2>1, <2>3 DEF EventOK
    <3>2. i \in event[h].of..written'
      BY <2>1, <2>2, <2>3, <3>1 DEF HookOK, Entry
    <3> QED BY <2>1, <2>2, <2>3, <3>1, <3>2 DEF EventOK
  <2>4. CASE event[h].kind = "tool" /\ event[h].step \in {"turn", "record"}
    <3>1. event[h].turn <= written'
      BY <2>1, <2>2, <2>4 DEF EventOK, HookOK
    <3> QED BY <2>1, <2>2, <2>4, <3>1 DEF EventOK
  <2> QED BY <2>1, <2>3, <2>4 DEF EventOK
<1> QED BY <1>1, <1>3, <1>4 DEF OneInv

\* Neither the transcript nor the counter moves.
LEMMA BookStays ==
    ASSUME OneInv, Clean, UNCHANGED <<said, written, turns, prompts, expired, served, recorded>>
    PROVE  (CounterOK /\ DecisionsOK)'
BY DEF OneInv, CounterOK, DecisionsOK, Follows, Repeated

LEMMA EventOne == ASSUME TurnInv, OneInv, NEW h \in Hooks, Event(h) PROVE OneInv'
<1>1. BoundsOK' /\ (Clean' => Clean)
  BY DEF OneInv, BoundsOK, Clean, Event
<1> DEFINE e == [NoEvent EXCEPT !.kind = "tool", !.step = "read", !.of = written]
<1>2. /\ said' = said /\ written' = written /\ event' = [event EXCEPT ![h] = e]
      /\ served' = served /\ turns' = turns /\ prompts' = prompts /\ expired' = expired
      /\ recorded' = recorded
  BY DEF Event, book
<1>3. Clean => (CounterOK /\ DecisionsOK)'
  BY <1>2, BookStays
<1>4. EventOK(e, turns')
  BY DEF EventOK, NoEvent
<1>5. turns \in Nat
  BY DEF TurnInv, TurnTypeOK
<1>6. Clean => turns <= Len(said) /\ \A g \in Hooks : EventOK(event[g], turns)
  BY DEF OneInv, CounterOK
<1> HIDE DEF e
<1>7. ASSUME Clean PROVE \A g \in Hooks : EventOK(event[g], turns)'
  <2>1. turns' \in Nat /\ turns' >= turns /\ turns' <= Len(said)
    BY <1>2, <1>5, <1>6, <1>7
  <2> QED BY <1>2, <1>4, <1>5, <1>6, <1>7, <2>1, OneHookOne
<1> QED BY <1>1, <1>3, <1>7 DEF OneInv

LEMMA ExpireOne == ASSUME TurnInv, OneInv, Expire PROVE OneInv'
BY TurnBookAssumption DEF OneInv, BoundsOK, Clean, Expire

LEMMA ResolveOne == ASSUME TurnInv, OneInv, NEW h \in Hooks, resolve_route(h) PROVE OneInv'
<1>1. BoundsOK' /\ (Clean' => Clean)
  BY DEF OneInv, BoundsOK, Clean, resolve_route, bounds
<1> DEFINE text == IF event[h].kind = "submit" /\ event[h].text # NoText THEN event[h].text ELSE Transcript
           step == IF event[h].kind = "submit" THEN "turn" ELSE "count"
           e == IF text = NoText THEN NoEvent ELSE [event[h] EXCEPT !.text = text, !.step = step]
<1>2. SUFFICES ASSUME Clean
               PROVE (CounterOK /\ DecisionsOK /\ \A g \in Hooks : EventOK(event[g], turns))'
  BY <1>1 DEF OneInv
<1>3. CounterOK /\ DecisionsOK /\ \A g \in Hooks : EventOK(event[g], turns)
  BY <1>2 DEF OneInv
<1>4. /\ said' = said /\ written' = written /\ event' = [event EXCEPT ![h] = e]
      /\ served' = served /\ turns' = turns /\ prompts' = prompts /\ expired' = expired
      /\ recorded' = recorded
  BY DEF resolve_route, book
<1>5. /\ HookOK(event[h]) /\ EventOK(event[h], turns) /\ event[h].step = "read" /\ turns \in Nat
      /\ event[h].kind \in {"submit", "tool"} /\ written \in Nat
  BY <1>3 DEF TurnInv, TurnTypeOK, resolve_route, HookOK, Entry
<1>6. EventOK(e, turns')
  <2>1. CASE text = NoText
    BY <2>1 DEF EventOK, NoEvent
  <2>2. CASE text # NoText /\ event[h].kind = "submit"
    <3>1. event[h].text \in Texts /\ event[h].text # NoText
      BY <1>5, <2>2, TurnBookAssumption DEF EventOK, HookOK, TurnInv, TurnTypeOK
    <3>2. text = event[h].text /\ step = "turn"
      BY <3>1, <2>2
    <3>3. e = [event[h] EXCEPT !.text = text, !.step = step]
      BY <2>2
    <3> HIDE DEF text, step
    <3>4. e.kind = "submit" /\ e.of = event[h].of /\ e.text = event[h].text /\ e.step = "turn"
      BY <3>2, <3>3, <1>5, <2>2 DEF HookOK, Entry
    <3> HIDE DEF e
    <3> QED BY <3>4, <1>4, <1>5, <2>2 DEF EventOK
  <2>3. CASE text # NoText /\ event[h].kind = "tool"
    <3>1. text = said[written] /\ step = "count"
      BY <2>3 DEF Transcript
    <3>2. e = [event[h] EXCEPT !.text = text, !.step = step]
      BY <2>3
    <3> HIDE DEF text, step
    <3>3. e.kind = "tool" /\ e.of = event[h].of /\ e.text = said[written] /\ e.step = "count"
      BY <3>1, <3>2, <1>5, <2>3 DEF HookOK, Entry
    <3>4. written \in event[h].of..written
      BY <1>5, <2>3 DEF HookOK, Entry
    <3> HIDE DEF e
    <3> QED BY <3>3, <3>4, <1>4 DEF EventOK
  <2> QED BY <1>5, <2>1, <2>2, <2>3
<1> HIDE DEF e
<1>7. \A g \in Hooks : EventOK(event[g], turns)'
  <2>1. turns' \in Nat /\ turns' >= turns /\ turns' <= Len(said)
    BY <1>3, <1>4, <1>5 DEF CounterOK
  <2> QED BY <1>3, <1>4, <1>5, <1>6, <2>1, OneHookOne
<1> QED BY <1>2, <1>4, <1>7, BookStays

LEMMA CountOne == ASSUME TurnInv, OneInv, NEW h \in Hooks, last_user_turn_number(h) PROVE OneInv'
<1>1. BoundsOK' /\ (Clean' => Clean)
  BY DEF OneInv, BoundsOK, Clean, last_user_turn_number, bounds
<1> DEFINE e == [event[h] EXCEPT !.turn = written, !.step = "turn"]
<1>2. SUFFICES ASSUME Clean
               PROVE (CounterOK /\ DecisionsOK /\ \A g \in Hooks : EventOK(event[g], turns))'
  BY <1>1 DEF OneInv
<1>3. CounterOK /\ \A g \in Hooks : EventOK(event[g], turns)
  BY <1>2 DEF OneInv
<1>4. /\ said' = said /\ written' = written /\ event' = [event EXCEPT ![h] = e]
      /\ served' = served /\ turns' = turns /\ prompts' = prompts /\ expired' = expired
      /\ recorded' = recorded
  BY DEF last_user_turn_number, book, TurnInv
<1>5. /\ HookOK(event[h]) /\ EventOK(event[h], turns) /\ event[h].step = "count" /\ turns \in Nat
      /\ event[h].kind = "tool" /\ written \in Nat
  BY <1>3 DEF TurnInv, TurnTypeOK, last_user_turn_number, HookOK
<1>6. /\ e.kind = "tool" /\ e.step = "turn" /\ e.of = event[h].of /\ e.text = event[h].text
      /\ e.turn = written
  BY <1>5 DEF HookOK, Entry
<1>7. \E i \in event[h].of..written : event[h].text = said[i]
  BY <1>5 DEF EventOK
<1> HIDE DEF e
<1>8. EventOK(e, turns')
  BY <1>4, <1>5, <1>6, <1>7 DEF EventOK
<1>9. \A g \in Hooks : EventOK(event[g], turns)'
  <2>1. turns' \in Nat /\ turns' >= turns /\ turns' <= Len(said)
    BY <1>3, <1>4, <1>5 DEF CounterOK
  <2> QED BY <1>3, <1>4, <1>5, <1>8, <2>1, OneHookOne
<1> QED BY <1>2, <1>4, <1>9, BookStays

LEMMA AllocateOne == ASSUME TurnInv, OneInv, NEW h \in Hooks, allocate_turn(h) PROVE OneInv'
<1>1. BoundsOK' /\ (Clean' => Clean)
  BY DEF OneInv, BoundsOK, Clean, allocate_turn, bounds
<1>2. SUFFICES ASSUME Clean
               PROVE (CounterOK /\ DecisionsOK /\ \A g \in Hooks : EventOK(event[g], turns))'
  BY <1>1 DEF OneInv
<1>3. CounterOK /\ DecisionsOK /\ \A g \in Hooks : EventOK(event[g], turns)
  BY <1>2 DEF OneInv
<1> DEFINE e == [event[h] EXCEPT !.turn = turns', !.step = "record"]
<1>4. /\ said' = said /\ written' = written /\ event' = [event EXCEPT ![h] = e]
      /\ served' = served /\ expired' = FALSE /\ recorded' = recorded
  BY DEF allocate_turn, TurnInv
<1>5. /\ HookOK(event[h]) /\ EventOK(event[h], turns) /\ event[h].step = "turn" /\ event[h].kind = "submit"
      /\ turns \in Nat /\ written \in Nat /\ served \in Nat /\ Len(said) \in Nat
      /\ DOMAIN said = 1..Len(said)
  BY <1>3 DEF TurnInv, TurnTypeOK, allocate_turn
<1>6. /\ event[h].text = said[Len(said)] /\ written < Len(said) /\ event[h].of = Len(said)
      /\ Counted = turns /\ Prompts = prompts
      /\ Len(said) = written + 1 /\ written <= turns /\ turns <= Len(said)
  BY <1>3, <1>5 DEF EventOK, CounterOK, Counted, Prompts
<1>7. /\ prompts' = said[Len(said)] /\ turns' >= turns /\ turns' \in Nat /\ turns' <= Len(said)
      /\ turns' = Len(said) \/ (Repeated(Len(said)) /\ turns' = Len(said) - 1)
  <2>1. CASE prompts = said[Len(said)]
    <3>1. turns' = turns /\ prompts' = prompts
      BY <1>5, <1>6, <2>1 DEF allocate_turn
    <3>2. turns = Len(said) \/ Repeated(Len(said))
      BY <1>3, <1>6, <2>1 DEF CounterOK
    <3>3. turns = Len(said) \/ turns = Len(said) - 1
      BY <1>5, <1>6
    <3> QED BY <2>1, <3>1, <3>2, <3>3, <1>5, <1>6
  <2>2. CASE prompts # said[Len(said)]
    <3>1. turns' = turns + 1 /\ prompts' = said[Len(said)]
      BY <1>5, <1>6, <2>2 DEF allocate_turn
    <3>2. turns # Len(said)
      BY <1>3, <1>6, <2>2 DEF CounterOK
    <3>3. turns' = Len(said)
      BY <1>5, <1>6, <3>1, <3>2
    <3> QED BY <3>1, <3>3, <1>5, <1>6
  <2> QED BY <2>1, <2>2
<1>8. CounterOK'
  <2>1. served' <= turns' /\ ~expired'
    BY <1>3, <1>4, <1>5, <1>7 DEF CounterOK
  <2>2. \E i \in DOMAIN said : prompts' = said[i]
    BY <1>5, <1>6, <1>7
  <2>3. Repeated(Len(said))' <=> Repeated(Len(said))
    BY <1>4 DEF Repeated
  <2>4. written' <= turns'
    BY <1>4, <1>5, <1>6, <1>7
  <2> QED BY <1>4, <1>6, <1>7, <2>1, <2>2, <2>3, <2>4 DEF CounterOK
<1>9. e.turn = turns' /\ e.of = Len(said) /\ e.text = said[Len(said)] /\ e.kind = "submit"
  BY <1>5, <1>6 DEF HookOK, Entry
<1> HIDE DEF e
<1>10. EventOK(e, turns')
  BY <1>4, <1>6, <1>7, <1>9 DEF EventOK
<1>11. \A g \in Hooks : EventOK(event[g], turns)'
  BY <1>3, <1>4, <1>5, <1>7, <1>10, OneHookOne
<1>12. DecisionsOK'
  BY <1>3, <1>4 DEF DecisionsOK, Follows, Repeated
<1> QED BY <1>8, <1>11, <1>12

LEMMA EnsureOne == ASSUME TurnInv, OneInv, NEW h \in Hooks, ensure_turn(h) PROVE OneInv'
<1>1. BoundsOK' /\ (Clean' => Clean)
  BY DEF OneInv, BoundsOK, Clean, ensure_turn, bounds
<1>2. SUFFICES ASSUME Clean
               PROVE (CounterOK /\ DecisionsOK /\ \A g \in Hooks : EventOK(event[g], turns))'
  BY <1>1 DEF OneInv
<1>3. CounterOK /\ DecisionsOK /\ \A g \in Hooks : EventOK(event[g], turns)
  BY <1>2 DEF OneInv
<1> DEFINE e == [event[h] EXCEPT !.step = "record"]
<1>4. /\ said' = said /\ written' = written /\ event' = [event EXCEPT ![h] = e]
      /\ served' = served /\ expired' = FALSE /\ recorded' = recorded
  BY DEF ensure_turn
<1>5. /\ HookOK(event[h]) /\ EventOK(event[h], turns) /\ event[h].step = "turn" /\ event[h].kind = "tool"
      /\ turns \in Nat /\ written \in 0..Len(said) /\ served \in Nat /\ Len(said) \in Nat
      /\ DOMAIN said = 1..Len(said)
  BY <1>3 DEF TurnInv, TurnTypeOK, ensure_turn
<1>6. /\ event[h].turn <= written /\ event[h].turn \in Nat
      /\ \E i \in event[h].of..event[h].turn : event[h].text = said[i]
      /\ Counted = turns /\ Prompts = prompts
  <2>1. event[h].turn \in Nat
    BY <1>5 DEF HookOK
  <2>2. Counted = turns /\ Prompts = prompts
    BY <1>3 DEF CounterOK, Counted, Prompts
  <2> QED BY <1>5, <2>1, <2>2 DEF EventOK
<1>7. /\ turns' >= turns /\ turns' >= event[h].turn /\ turns' <= Len(said) /\ prompts' = prompts
      /\ turns' \in Nat /\ (written < Len(said) => turns' = turns)
  BY <1>3, <1>5, <1>6 DEF ensure_turn, CounterOK
<1>8. CounterOK'
  BY <1>3, <1>4, <1>5, <1>7 DEF CounterOK, Repeated
<1>9. /\ e.turn = event[h].turn /\ e.of = event[h].of /\ e.text = event[h].text /\ e.kind = "tool"
      /\ e.step = "record"
  BY <1>5, <1>6 DEF HookOK, Entry
<1> HIDE DEF e
<1>10. EventOK(e, turns')
  BY <1>4, <1>6, <1>7, <1>9 DEF EventOK
<1>11. \A g \in Hooks : EventOK(event[g], turns)'
  BY <1>3, <1>4, <1>5, <1>7, <1>10, OneHookOne
<1>12. DecisionsOK'
  BY <1>3, <1>4 DEF DecisionsOK, Follows, Repeated
<1> QED BY <1>8, <1>11, <1>12

LEMMA RecordOne == ASSUME TurnInv, OneInv, NEW h \in Hooks, Record(h) PROVE OneInv'
<1>1. BoundsOK' /\ (Clean' => Clean)
  BY DEF OneInv, BoundsOK, Clean, Record, bounds
<1>2. SUFFICES ASSUME Clean
               PROVE (CounterOK /\ DecisionsOK /\ \A g \in Hooks : EventOK(event[g], turns))'
  BY <1>1 DEF OneInv
<1>3. CounterOK /\ DecisionsOK /\ \A g \in Hooks : EventOK(event[g], turns)
  BY <1>2 DEF OneInv
<1>4. said' = said /\ written' = written /\ event' = [event EXCEPT ![h] = NoEvent] /\ expired' = FALSE
  BY DEF Record
<1>5. /\ HookOK(event[h]) /\ EventOK(event[h], turns) /\ event[h].step = "record"
      /\ turns \in Nat /\ written \in 0..Len(said) /\ served \in Nat /\ Len(said) \in Nat
      /\ event[h].turn \in Nat /\ event[h].of \in 1..Len(said)
  BY <1>3 DEF TurnInv, TurnTypeOK, Record, HookOK
<1>6. event[h].kind \in {"submit", "tool"}
  BY <1>5 DEF HookOK, Entry
<1>7. event[h].turn <= turns /\ Counted = turns /\ Prompts = prompts /\ turns <= Len(said)
  BY <1>3, <1>5, <1>6 DEF EventOK, CounterOK, Counted, Prompts
<1>8. turns' = turns /\ prompts' = prompts
  BY <1>5, <1>7 DEF Record
<1>9. served' <= turns
  <2>1. event[h].kind = "tool" => event[h].of <= event[h].turn
    <3> SUFFICES ASSUME event[h].kind = "tool" PROVE event[h].of <= event[h].turn
      OBVIOUS
    <3>1. PICK i \in event[h].of..event[h].turn : event[h].text = said[i]
      BY <1>5 DEF EventOK
    <3>2. event[h].of \in Nat /\ event[h].turn \in Nat
      BY <1>5
    <3> QED BY <3>1, <3>2
  <2>2. served' = served \/ (event[h].kind = "tool" /\ served' = event[h].of)
    BY DEF Record
  <2>3. served <= turns
    BY <1>3 DEF CounterOK
  <2>4. CASE served' = served
    BY <2>3, <2>4
  <2>5. CASE event[h].kind = "tool" /\ served' = event[h].of
    <3>1. event[h].of \in Nat /\ event[h].of <= event[h].turn /\ event[h].turn <= turns
      BY <1>5, <1>7, <2>1, <2>5
    <3> QED BY <1>5, <2>5, <3>1
  <2> QED BY <2>2, <2>4, <2>5
<1>10. CounterOK'
  BY <1>3, <1>4, <1>8, <1>9 DEF CounterOK, Repeated
<1> DEFINE d == [turn |-> event[h].turn, text |-> event[h].text, of |-> event[h].of, by |-> event[h].kind]
<1>11. d.turn <= Len(said) /\ Follows(d)
  <2>1. d.turn <= Len(said)
    BY <1>5, <1>7
  <2>2. CASE event[h].kind = "submit"
    BY <1>5, <2>2 DEF EventOK, Follows
  <2>3. CASE event[h].kind = "tool"
    BY <1>5, <2>3 DEF EventOK, Follows
  <2> QED BY <1>6, <2>1, <2>2, <2>3
<1>12. recorded' = recorded \cup {d}
  BY DEF Record
<1> HIDE DEF d
<1>13. DecisionsOK'
  BY <1>3, <1>4, <1>11, <1>12 DEF DecisionsOK, Follows, Repeated
<1>14. EventOK(NoEvent, turns')
  BY DEF EventOK, NoEvent
<1>15. \A g \in Hooks : EventOK(event[g], turns)'
  <2>1. turns' \in Nat /\ turns' >= turns /\ turns' <= Len(said)
    BY <1>3, <1>5, <1>8 DEF CounterOK
  <2> QED BY <1>3, <1>4, <1>5, <1>14, <2>1, OneHookOne
<1> QED BY <1>10, <1>13, <1>15

\* What an event records belongs to the prompt it began under or to a newer one:
\* early or late, by its payload or by the transcript, with prompts that repeat,
\* submit events lost or doubled and any number of hook processes.  The property
\* itself excludes sessions with a mute payload or a pause longer than TURN_TTL.
THEOREM DecisionsFollowProved == TurnSpec => []DecisionsFollowPrompts
<1>1. TurnInv /\ OneInv /\ [TurnNext]_turnVars => OneInv'
  <2> SUFFICES ASSUME TurnInv, OneInv, [TurnNext]_turnVars PROVE OneInv'
    OBVIOUS
  <2>1. CASE UNCHANGED turnVars
    BY <2>1 DEF turnVars, book, bounds, OneInv, BoundsOK, Clean, CounterOK, EventOK, DecisionsOK,
                Follows, Repeated
  <2> QED BY <2>1, SubmitOne, WriteOne, EventOne, ExpireOne, ResolveOne, CountOne, AllocateOne,
             EnsureOne, RecordOne DEF TurnNext
<1>2. OneInv => DecisionsFollowPrompts
  BY DEF OneInv, Clean, DecisionsOK, Follows, DecisionsFollowPrompts
<1> QED BY <1>1, <1>2, InitOne, TurnsHold, PTL DEF TurnSpec

-----------------------------------------------------------------------------
(***************************************************************************)
(* Circuits. A circuit is open only behind as many failures as the threshold *)
(* asks for, and then until the end of its cooldown.                       *)
(***************************************************************************)
Circuit == [failures : Nat, until : Int, seen : Int]

\* What the counters hold, as far as the proof needs it.
HealthTypeOK ==
    /\ now \in Nat \ {0}
    /\ circuits \in [Sessions -> [Roles -> Circuit]]
    /\ streak \in [Sessions -> [Roles -> Nat]]

\* A circuit counts no failure that the session did not see in a row, has an end
\* only if it counts enough of them, and ends a cooldown after the last of them.
Earned(c, n) ==
    /\ c.failures <= n
    /\ c.until > 0 => c.failures >= Threshold /\ c.until <= c.seen + Cooldown

CircuitsCounted == \A s \in Sessions, r \in Roles : Earned(circuits[s][r], streak[s][r])

HealthInv == HealthTypeOK /\ CircuitsCounted

-----------------------------------------------------------------------------
\* A dropped circuit counts nothing, so pruning keeps every count.
LEMMA PruningCounts ==
    ASSUME HealthInv
    PROVE  /\ Pruned \in [Sessions -> [Roles -> Circuit]]
           /\ \A s \in Sessions, r \in Roles : Earned(Pruned[s][r], streak[s][r])
<1>1. Closed \in Circuit /\ \A n \in Nat : Earned(Closed, n)
  BY RoleHealthAssumption DEF Closed, Circuit, Earned, NeverSeen
<1>2. ASSUME NEW s \in Sessions
      PROVE  /\ Pruned[s] \in [Roles -> Circuit]
             /\ \A r \in Roles : Pruned[s][r] = Closed \/ Pruned[s][r] = circuits[s][r]
  <2>1. Pruned[s] = [r \in Roles |-> Closed] \/ Pruned[s] = circuits[s]
    BY DEF Pruned
  <2> QED BY <2>1, <1>1 DEF HealthInv, HealthTypeOK
<1>3. Pruned \in [Sessions -> [Roles -> Circuit]]
  BY <1>2 DEF Pruned
<1>4. \A s \in Sessions, r \in Roles : Earned(Pruned[s][r], streak[s][r])
  BY <1>1, <1>2 DEF HealthInv, HealthTypeOK, CircuitsCounted
<1> QED BY <1>3, <1>4

\* One circuit and the streak it belongs to are written together.
LEMMA WriteCounts ==
    ASSUME HealthInv,
           NEW s \in Sessions, NEW r \in Roles, NEW c \in Circuit, NEW n \in Nat,
           Earned(c, n),
           circuits' = [Pruned EXCEPT ![s][r] = c],
           streak' = [streak EXCEPT ![s][r] = n],
           now' \in Nat \ {0}
    PROVE  HealthInv'
<1>1. circuits' \in [Sessions -> [Roles -> Circuit]]
  BY PruningCounts
<1>2. streak' \in [Sessions -> [Roles -> Nat]]
  BY DEF HealthInv, HealthTypeOK
<1>3. ASSUME NEW q \in Sessions, NEW x \in Roles
      PROVE  Earned(circuits'[q][x], streak'[q][x])
  <2>1. CASE q = s /\ x = r
    BY <2>1, PruningCounts DEF HealthInv, HealthTypeOK
  <2>2. CASE ~(q = s /\ x = r)
    <3>1. circuits'[q][x] = Pruned[q][x] /\ streak'[q][x] = streak[q][x]
      BY <2>2, PruningCounts DEF HealthInv, HealthTypeOK
    <3> QED BY <3>1, PruningCounts
  <2> QED BY <2>1, <2>2
<1> QED BY <1>1, <1>2, <1>3 DEF HealthInv, HealthTypeOK, CircuitsCounted

\* A step that only prunes.
LEMMA PruneOnly ==
    ASSUME HealthInv, circuits' = Pruned, streak' = streak, now' = now
    PROVE  HealthInv'
BY PruningCounts DEF HealthInv, HealthTypeOK, CircuitsCounted

LEMMA InitHealth == HealthInit => HealthInv
<1> SUFFICES ASSUME HealthInit PROVE HealthInv OBVIOUS
<1>1. Closed \in Circuit /\ Earned(Closed, 0)
  BY RoleHealthAssumption DEF Closed, Circuit, Earned, NeverSeen
<1> QED BY <1>1 DEF HealthInit, HealthInv, HealthTypeOK, CircuitsCounted

LEMMA ResultHealth ==
    ASSUME HealthInv, NEW s \in Sessions \cup {NoSession}, NEW r \in Roles,
           NEW outcome \in {"success", "failure", "environment"}, SpawnResult(s, r, outcome)
    PROVE  HealthInv'
<1>1. now' = now
  BY DEF SpawnResult, Step
<1>2. CASE s = NoSession \/ outcome = "environment"
  <2>1. circuits' = Pruned /\ streak' = streak
    BY <1>2, RoleHealthAssumption DEF SpawnResult, mark_success, mark_failure
  <2> QED BY <1>1, <2>1, PruneOnly
<1>3. CASE s # NoSession /\ outcome = "success"
  <2> DEFINE c == [failures |-> 0, until |-> 0, seen |-> now]
  <2>1. s \in Sessions BY <1>3
  <2>2. c \in Circuit /\ Earned(c, 0)
    BY RoleHealthAssumption DEF Circuit, Earned, HealthInv, HealthTypeOK
  <2>3. circuits' = [Pruned EXCEPT ![s][r] = c]
    BY <1>3 DEF SpawnResult, mark_success
  <2>4. streak' = [streak EXCEPT ![s][r] = 0]
    BY <1>3, <2>1 DEF SpawnResult, HealthInv, HealthTypeOK
  <2> HIDE DEF c
  <2> QED BY <1>1, <2>1, <2>2, <2>3, <2>4, WriteCounts DEF HealthInv, HealthTypeOK
<1>4. CASE s # NoSession /\ outcome = "failure"
  <2> DEFINE c == Failure(Pruned[s][r])
             n == streak[s][r] + 1
  <2>1. s \in Sessions BY <1>4
  <2>2. Pruned[s][r] \in Circuit /\ Earned(Pruned[s][r], streak[s][r])
    BY <2>1, PruningCounts
  <2>3. streak[s][r] \in Nat /\ now \in Nat \ {0}
    BY <2>1 DEF HealthInv, HealthTypeOK
  <2>4. c \in Circuit /\ n \in Nat
    BY <2>2, <2>3, RoleHealthAssumption DEF Circuit, Failure
  <2>5. Earned(c, n)
    BY <2>2, <2>3, RoleHealthAssumption DEF Circuit, Failure, Earned
  <2>6. circuits' = [Pruned EXCEPT ![s][r] = c]
    BY <1>4 DEF SpawnResult, mark_failure
  <2>7. streak' = [streak EXCEPT ![s][r] = n]
    BY <1>4, <2>1 DEF SpawnResult, HealthInv, HealthTypeOK
  <2> HIDE DEF c, n
  <2> QED BY <1>1, <2>1, <2>3, <2>4, <2>5, <2>6, <2>7, WriteCounts
<1> QED BY <1>2, <1>3, <1>4

LEMMA NextHealth == HealthInv /\ [HealthNext]_healthVars => HealthInv'
<1> SUFFICES ASSUME HealthInv, [HealthNext]_healthVars PROVE HealthInv' OBVIOUS
<1>1. CASE HealthTick
  BY <1>1 DEF HealthTick, HealthInv, HealthTypeOK, CircuitsCounted
<1>2. CASE Operator
  <2>1. circuits' = Pruned /\ streak' = streak /\ now' = now
    BY <1>2 DEF Operator, cmd_state_set, Step
  <2> QED BY <2>1, PruneOnly
<1>3. ASSUME NEW s \in Sessions, NEW r \in Roles, record_decision(s, r) PROVE HealthInv'
  <2>1. circuits' = Pruned /\ streak' = streak /\ now' = now
    BY <1>3 DEF record_decision, Step
  <2> QED BY <2>1, PruneOnly
<1>4. ASSUME NEW s \in Sessions \cup {NoSession}, NEW r \in Roles,
             NEW outcome \in {"success", "failure", "environment"}, SpawnResult(s, r, outcome)
      PROVE  HealthInv'
  BY <1>4, ResultHealth
<1>5. CASE UNCHANGED healthVars
  BY <1>5 DEF healthVars, HealthInv, HealthTypeOK, CircuitsCounted
<1> QED BY <1>1, <1>2, <1>3, <1>4, <1>5 DEF HealthNext

\* A circuit of a session is open only after that session has seen at least the
\* threshold of failures of the role in a row.
THEOREM CircuitsOpenInTime == HealthSpec => []OpensOnlyAfterThreshold
<1>1. HealthInv => OpensOnlyAfterThreshold
  <2> SUFFICES ASSUME HealthInv, NEW s \in Sessions, NEW r \in Roles, circuit_open(s, r)
               PROVE  streak[s][r] >= Threshold
    BY DEF OpensOnlyAfterThreshold
  <2>1. circuits[s][r] \in Circuit /\ streak[s][r] \in Nat /\ now \in Nat \ {0}
    BY DEF HealthInv, HealthTypeOK
  <2>2. Earned(circuits[s][r], streak[s][r])
    BY DEF HealthInv, CircuitsCounted
  <2> QED BY <2>1, <2>2, RoleHealthAssumption DEF circuit_open, Earned, Circuit
<1> QED BY <1>1, InitHealth, NextHealth, PTL DEF HealthSpec

\* A circuit that is open has been signalled lately, so pruning keeps it.
LEMMA OpenKept ==
    ASSUME HealthInv, Cooldown <= TURN_TTL,
           NEW s \in Sessions, NEW r \in Roles, circuit_open(s, r), ~TurnExpired(s)
    PROVE  Pruned[s][r] = circuits[s][r]
<1>1. circuits[s][r] \in Circuit /\ streak[s][r] \in Nat /\ now \in Nat \ {0}
  BY DEF HealthInv, HealthTypeOK
<1>2. Earned(circuits[s][r], streak[s][r])
  BY DEF HealthInv, CircuitsCounted
<1>3. now - circuits[s][r].seen <= TURN_TTL
  BY <1>1, <1>2, RoleHealthAssumption DEF circuit_open, Earned, Circuit
<1>4. ~SignalsExpired(s)
  BY <1>1, <1>3, RoleHealthAssumption DEF SignalsExpired, Circuit
<1> QED BY <1>4 DEF Pruned

\* An open circuit stays open until it cools down or the role succeeds, or the
\* session expires (prune, mark_success, mark_failure), provided that a circuit
\* cools down before a session expires: 300 seconds against a day as shipped.
THEOREM OpenCircuitsHold ==
    ASSUME Cooldown <= TURN_TTL
    PROVE  HealthSpec => OpenCircuitHolds
<1>1. ASSUME HealthInv, [HealthNext]_healthVars, NEW s \in Sessions, NEW r \in Roles,
             Closes(s, r), now' < circuits[s][r].until, ~TurnExpired(s)
      PROVE  streak'[s][r] = 0
  <2>1. circuit_open(s, r) /\ circuits'[s][r] # circuits[s][r]
    BY <1>1 DEF Closes, circuit_open
  <2>2. /\ Pruned[s][r] = circuits[s][r] /\ circuits[s][r] \in Circuit
        /\ streak[s][r] \in Nat /\ now \in Nat \ {0}
        /\ Earned(circuits[s][r], streak[s][r])
    BY <1>1, <2>1, OpenKept DEF HealthInv, HealthTypeOK, CircuitsCounted
  <2>3. circuits' # Pruned /\ circuits' # circuits
    BY <2>1, <2>2
  <2>4. PICK q \in Sessions \cup {NoSession}, x \in Roles,
             outcome \in {"success", "failure", "environment"} : SpawnResult(q, x, outcome)
    <3>1. ~HealthTick /\ ~Operator /\ ~UNCHANGED healthVars
      BY <2>3 DEF HealthTick, Operator, cmd_state_set, healthVars
    <3>2. ~\E q \in Sessions, x \in Roles : record_decision(q, x)
      BY <2>3 DEF record_decision
    <3> QED BY <1>1, <3>1, <3>2 DEF HealthNext
  <2>5. q # NoSession /\ outcome # "environment"
    BY <2>3, <2>4 DEF SpawnResult, mark_success, mark_failure
  <2>6. now' = now
    BY <2>4 DEF SpawnResult, Step
  <2>7. CASE outcome = "failure"
    <3> DEFINE c == Failure(Pruned[q][x])
    <3>1. circuits' = [Pruned EXCEPT ![q][x] = c]
      BY <2>4, <2>5, <2>7 DEF SpawnResult, mark_failure
    <3>2. q = s /\ x = r
      <4> HIDE DEF c
      <4> QED BY <2>1, <2>2, <2>5, <3>1, PruningCounts, <1>1
    <3>3. c.until > now
      BY <2>1, <2>2, <3>2, RoleHealthAssumption DEF Failure, Circuit, Earned, circuit_open
    <3>4. circuits'[s][r] = c
      <4> HIDE DEF c
      <4> QED BY <3>1, <3>2, PruningCounts, <1>1
    <3> QED BY <1>1, <2>6, <3>3, <3>4 DEF Closes, circuit_open
  <2>8. CASE outcome = "success"
    <3>1. circuits' = [Pruned EXCEPT ![q][x] = [failures |-> 0, until |-> 0, seen |-> now]]
      BY <2>4, <2>5, <2>8 DEF SpawnResult, mark_success
    <3>2. q = s /\ x = r
      BY <2>1, <2>2, <2>5, <3>1, PruningCounts, <1>1
    <3>3. streak' = [streak EXCEPT ![q][x] = 0]
      BY <2>4, <2>5, <2>8, <1>1 DEF SpawnResult, HealthInv, HealthTypeOK
    <3> QED BY <1>1, <3>2, <3>3 DEF HealthInv, HealthTypeOK
  <2> QED BY <2>5, <2>7, <2>8
<1>2. HealthInv /\ [HealthNext]_healthVars =>
        [\A s \in Sessions, r \in Roles :
            Closes(s, r) => \/ now' >= circuits[s][r].until
                            \/ streak'[s][r] = 0
                            \/ TurnExpired(s)]_healthVars
  <2> SUFFICES ASSUME HealthInv, [HealthNext]_healthVars, NEW s \in Sessions, NEW r \in Roles,
                      Closes(s, r), ~(now' >= circuits[s][r].until), ~TurnExpired(s)
               PROVE  streak'[s][r] = 0
    OBVIOUS
  <2>1. now' < circuits[s][r].until
    <3>1. circuits[s][r].until \in Int
      BY DEF HealthInv, HealthTypeOK, Circuit
    <3>2. now' \in Int
      BY NextHealth DEF HealthInv, HealthTypeOK
    <3> QED BY <3>1, <3>2
  <2> QED BY <1>1, <2>1
<1> QED BY <1>2, InitHealth, NextHealth, PTL DEF HealthSpec, OpenCircuitHolds

-----------------------------------------------------------------------------
(***************************************************************************)
(* The zero-write conductor. A verdict is reached in one hook process, so  *)
(* what has to be carried from step to step is only the call it holds and  *)
(* what it has read of the gate: one found active is that of a dynamic     *)
(* route, and one found inactive was a moment at which nothing was owed.   *)
(***************************************************************************)
HookHolds ==
    hook = Idle \/ /\ hook \in [at : {"first", "second"}, call : Calls,
                                gated : BOOLEAN, deserved : BOOLEAN]
                   /\ hook.gated => mode = "dynamic"
                   /\ Permitted(hook.call, owed) => hook.deserved
                   /\ ~hook.gated /\ Permitted(hook.call, "done") => hook.deserved

\* What a verdict says, once there is one.
VerdictHolds ==
    /\ verdict.decision \in {"none", "allow", "deny"}
    /\ ConductorZeroWrite
    /\ AllowedAtSomeMoment

PreInv == owed \in Owed /\ HookHolds /\ VerdictHolds

-----------------------------------------------------------------------------
(* Shell commands *)

\* Among the segments that are not read-only there is a first one.
LEMMA FirstMember ==
    ASSUME NEW S \in SUBSET Nat, S # {}
    PROVE  (CHOOSE i \in S : \A j \in S : i <= j) \in S
<1> DEFINE Below == {pair \in Nat \X Nat : pair[1] < pair[2]}
<1>1. PICK x \in S : \A y \in S : <<y, x>> \notin Below
  BY NatLessThanWellFounded, WFMin DEF OpToRel
<1>2. ASSUME NEW y \in S PROVE x <= y
  <2>1. CASE y < x
    <3>1. <<y, x>> \in Nat \X Nat /\ <<y, x>>[1] < <<y, x>>[2]
      BY <2>1
    <3> QED BY ONLY <3>1, <1>1, y \in S, Zenon
  <2> QED BY <2>1
<1> QED BY <1>2

\* A command judged read-only has read-only segments and no redirection.
LEMMA ReadonlyCommands ==
    ASSUME NEW cmd \in Commands, is_readonly_shell(cmd)
    PROVE  ~cmd.redirect /\ Range(cmd.segments) \subseteq {"map", "inspect"}
<1> DEFINE bad == {i \in DOMAIN cmd.segments : SegmentVerdict(cmd.segments[i]) # "readonly"}
           first == CHOOSE i \in bad : \A j \in bad : i <= j
<1>1. readonly_shell_verdict(cmd) =
         IF cmd.redirect THEN "write"
         ELSE IF bad = {} THEN "readonly" ELSE SegmentVerdict(cmd.segments[first])
  BY DEF readonly_shell_verdict
<1>2. ~cmd.redirect /\ (bad = {} \/ SegmentVerdict(cmd.segments[first]) = "readonly")
  <2> HIDE DEF bad, first
  <2> QED BY <1>1 DEF is_readonly_shell
<1>3. PICK n \in 1..MaxSegments : cmd.segments \in [1..n -> Segments]
  BY DEF Commands
<1>4. n \in Nat
  BY <1>3, PreToolAssumption
<1>5. bad \in SUBSET Nat
  BY <1>3, <1>4
<1>6. bad = {}
  <2> SUFFICES ASSUME bad # {} PROVE FALSE OBVIOUS
  <2>1. first \in bad
    <3> HIDE DEF bad
    <3> QED BY <1>5, FirstMember
  <2>2. SegmentVerdict(cmd.segments[first]) # "readonly"
    <3> HIDE DEF first
    <3> QED BY <2>1
  <2> QED BY <1>2, <2>2
<1>7. ASSUME NEW i \in DOMAIN cmd.segments PROVE cmd.segments[i] \in {"map", "inspect"}
  <2>1. SegmentVerdict(cmd.segments[i]) = "readonly" /\ cmd.segments[i] \in Segments
    BY <1>3, <1>6
  <2> QED BY <2>1 DEF SegmentVerdict, Segments
<1> QED BY <1>2, <1>7 DEF Range

-----------------------------------------------------------------------------
(* Verdicts *)

\* A denial, and any answer to a child, satisfies what is said of the conductor.
LEMMA DeniedHolds ==
    ASSUME NEW code, NEW n, Answered("deny", code, n)
    PROVE  VerdictHolds' /\ HookHolds'
BY DEF Answered, VerdictHolds, HookHolds, ConductorZeroWrite, AllowedAtSomeMoment, Allowed

\* An allowance holds if its call is harmless, as far as it is shown, and was
\* permitted at the last reading or while the gate was down.
LEMMA AllowedHolds ==
    ASSUME NEW code, NEW n, Answered("allow", code, n), PreInv, hook # Idle,
           hook.call.session = "conductor" =>
              \/ Harmless(hook.call, hook.call.input.command)
              \/ /\ hook.call.tool = "run_terminal_command" /\ hook.call.input.truncated
                 /\ Harmless(hook.call, hook.call.input.shown),
           hook.call.session = "conductor" /\ hook.call.fault = "none" =>
              \/ Permitted(hook.call, owed)
              \/ ~hook.gated /\ Permitted(hook.call, "done")
    PROVE  VerdictHolds' /\ HookHolds'
<1>1. /\ verdict'.decision = "allow" /\ verdict'.call = hook.call
      /\ verdict'.deserved = hook.deserved /\ hook' = Idle
  BY DEF Answered
<1>2. ConductorZeroWrite'
  BY <1>1 DEF ConductorZeroWrite, Allowed, Harmless, is_verifier_command
<1>3. AllowedAtSomeMoment'
  BY <1>1 DEF AllowedAtSomeMoment, Allowed, PreInv, HookHolds
<1> QED BY <1>1, <1>2, <1>3 DEF VerdictHolds, HookHolds

LEMMA SilentHolds ==
    ASSUME VerdictHolds, verdict' = verdict \/ verdict' = NoVerdict
    PROVE  VerdictHolds'
BY DEF VerdictHolds, ConductorZeroWrite, AllowedAtSomeMoment, Allowed, Harmless,
       is_verifier_command, NoVerdict

\* The verifier's command is not one of those that only read.
LEMMA VerifierNotReadonly ==
    ASSUME NEW cmd \in Commands, is_verifier_command(cmd)
    PROVE  ~is_readonly_shell(cmd)
<1>1. cmd.segments = <<"verifier">>
  BY DEF is_verifier_command
<1>2. "verifier" \in Range(cmd.segments)
  BY <1>1 DEF Range
<1> QED BY <1>2, ReadonlyCommands

\* What a payload shows of a command is a command, and all of it if not cut.
LEMMA ShownCommands ==
    ASSUME NEW call \in Calls
    PROVE  /\ call.input.command \in Commands /\ call.input.shown \in Commands
           /\ call.input.truncated \in BOOLEAN
           /\ ~call.input.truncated => call.input.shown = call.input.command
<1>1. call.input \in Inputs
  BY DEF Calls
<1>2. CASE call.input \in {[command |-> cmd, shown |-> cmd, truncated |-> FALSE] : cmd \in Commands}
  <2>1. PICK cmd \in Commands : call.input = [command |-> cmd, shown |-> cmd, truncated |-> FALSE]
    BY <1>2
  <2> QED BY <2>1
<1>3. ASSUME NEW cmd \in Commands, NEW b \in Beginnings(cmd),
             call.input = [command |-> cmd, shown |-> b, truncated |-> TRUE]
      PROVE  call.input.command \in Commands /\ b \in Commands /\ call.input.truncated
  <2>1. PICK k \in 1..MaxSegments : cmd.segments \in [1..k -> Segments]
    BY DEF Commands
  <2>2. k \in Nat /\ MaxSegments \in Nat /\ Len(cmd.segments) = k
    BY <2>1, PreToolAssumption
  <2>3. PICK r \in {FALSE, cmd.redirect}, n \in 1..k :
           b = [redirect |-> r, segments |-> [i \in 1..n |-> cmd.segments[i]]]
    BY <2>2 DEF Beginnings
  <2>4. [i \in 1..n |-> cmd.segments[i]] \in [1..n -> Segments]
    BY <2>1, <2>2
  <2>5. cmd.redirect \in BOOLEAN
    BY DEF Commands
  <2>6. n \in 1..MaxSegments
    BY <2>2, k \in 1..MaxSegments, n \in 1..k
  <2>7. r \in BOOLEAN
    BY <2>5, r \in {FALSE, cmd.redirect}
  <2>8. b \in Commands
    BY <2>3, <2>4, <2>6, <2>7 DEF Commands
  <2> QED BY <1>3, <2>8
<1>4. CASE call.input \in UNION {{[command |-> cmd, shown |-> b, truncated |-> TRUE] :
                                   b \in Beginnings(cmd)} : cmd \in Commands}
  <2>1. PICK cmd \in Commands : \E b \in Beginnings(cmd) :
           call.input = [command |-> cmd, shown |-> b, truncated |-> TRUE]
    BY <1>4
  <2>2. PICK b \in Beginnings(cmd) : call.input = [command |-> cmd, shown |-> b, truncated |-> TRUE]
    BY <2>1
  <2> QED BY <2>2, <1>3
<1> QED BY <1>1, <1>2, <1>4 DEF Inputs

-----------------------------------------------------------------------------
(* The answer to one call *)

\* A tool that reads, controls a child or spawns one has no command to judge.
LEMMA ReaderHolds ==
    ASSUME NEW code, NEW n, Answered("allow", code, n), PreInv, hook # Idle,
           hook.call.tool \in READ_TOOLS \cup LIFECYCLE_TOOLS \cup SPAWN_TOOLS,
           hook.call.session = "conductor" /\ hook.call.fault = "none" =>
              \/ Permitted(hook.call, owed)
              \/ ~hook.gated /\ Permitted(hook.call, "done")
    PROVE  VerdictHolds' /\ HookHolds'
<1>1. Harmless(hook.call, hook.call.input.command)
  BY DEF Harmless, READ_TOOLS, CONDUCTOR_RECON_TOOLS, LIFECYCLE_TOOLS, SPAWN_TOOLS
<1> QED BY <1>1, AllowedHolds

\* A shell whose command, as it is shown, was judged read-only.
LEMMA ReadonlyHolds ==
    ASSUME NEW code, NEW n, Answered("allow", code, n), PreInv, hook # Idle,
           hook.call.tool \in {"run_terminal_command", "monitor"},
           hook.call.tool = "monitor" => ~hook.call.input.truncated,
           is_readonly_shell(hook.call.input.shown),
           hook.call.session = "conductor" /\ hook.call.fault = "none" =>
              \/ Permitted(hook.call, owed)
              \/ ~hook.gated /\ Permitted(hook.call, "done")
    PROVE  VerdictHolds' /\ HookHolds'
<1>1. hook.call \in Calls
  BY DEF PreInv, HookHolds
<1>2. Harmless(hook.call, hook.call.input.shown)
  BY <1>1, ShownCommands, ReadonlyCommands DEF Harmless
<1> QED BY <1>1, <1>2, ShownCommands, AllowedHolds

\* The exact verifier, as it is shown, when it is due or no gate is active.
LEMMA VerifierHolds ==
    ASSUME NEW code, NEW n, Answered("allow", code, n), PreInv, hook # Idle,
           hook.call.tool = "run_terminal_command",
           is_verifier_command(hook.call.input.shown),
           owed = "verify" \/ (~hook.gated /\ WithVerifier)
    PROVE  VerdictHolds' /\ HookHolds'
<1>1. hook.call \in Calls
  BY DEF PreInv, HookHolds
<1>2. Harmless(hook.call, hook.call.input.shown)
  BY DEF Harmless
<1>3. hook.call.tool \notin SPAWN_TOOLS
  BY DEF SPAWN_TOOLS
<1>4. owed = "verify" => Permitted(hook.call, owed)
  BY <1>3 DEF Permitted, RECON_ROLES
<1>5. WithVerifier => Permitted(hook.call, "done")
  BY <1>3 DEF Permitted
<1> QED BY <1>1, <1>2, <1>4, <1>5, ShownCommands, AllowedHolds

\* A call that writes nothing and maps nothing while reconnaissance is owed.
LEMMA QuietPermitted ==
    ASSUME hook.call.tool \notin SPAWN_TOOLS,
           hook.call.tool = "run_terminal_command" => ~_is_write_tool(hook.call),
           mode # "dynamic" \/ ~(hook.gated /\ owed \in RECON_ROLES /\ ReconTool(hook.call)),
           hook.gated \in BOOLEAN
    PROVE  \/ Permitted(hook.call, owed)
           \/ ~hook.gated /\ Permitted(hook.call, "done")
<1>1. CASE mode # "dynamic"
  BY <1>1 DEF Permitted
<1>2. CASE ~hook.gated
  BY <1>2 DEF Permitted
<1>3. CASE hook.gated /\ ~(owed \in RECON_ROLES /\ ReconTool(hook.call))
  BY <1>3 DEF Permitted
<1> QED BY <1>1, <1>2, <1>3

LEMMA AgainHolds ==
    ASSUME PreInv, hook # Idle, Again, UNCHANGED <<mode, strong, owed>>
    PROVE  VerdictHolds' /\ HookHolds'
<1>1. /\ hook' = [hook EXCEPT !.at = "second"] /\ verdict' = verdict
      /\ HookHolds
  BY DEF Again, PreInv
<1>2. VerdictHolds'
  BY <1>1, SilentHolds DEF PreInv
<1> QED BY <1>1, <1>2 DEF HookHolds, Permitted

LEMMA DecideHolds ==
    ASSUME PreInv, Decide
    PROVE  PreInv'
<1>1. hook # Idle /\ hook.call \in Calls /\ UNCHANGED <<mode, strong, owed>> /\ owed' \in Owed
      /\ hook.gated \in BOOLEAN
  BY DEF PreInv, HookHolds, Decide
<1>2. CASE Unparseable
  BY <1>1, <1>2, DeniedHolds DEF Unparseable, Deny, PreInv
<1>3. CASE NoConfig
  <2>1. CASE hook.call.tool \in READ_TOOLS
    BY <1>1, <1>3, <2>1, ReaderHolds DEF NoConfig, Allow, PreInv, READ_TOOLS, CONDUCTOR_RECON_TOOLS
  <2>2. CASE hook.call.tool \notin READ_TOOLS
    BY <1>1, <1>3, <2>2, DeniedHolds DEF NoConfig, Deny, PreInv
  <2> QED BY <2>1, <2>2
<1>4. CASE Raised
  <2>1. CASE hook.call.tool \in READ_TOOLS
    BY <1>1, <1>4, <2>1, ReaderHolds DEF Raised, PreInv, READ_TOOLS, CONDUCTOR_RECON_TOOLS
  <2>2. CASE hook.call.tool \notin READ_TOOLS
    BY <1>1, <1>4, <2>2, DeniedHolds DEF Raised, PreInv
  <2> QED BY <2>1, <2>2
<1>5. CASE Exempt
  <2>1. hook.call.session # "conductor"
    BY <1>5 DEF Exempt
  <2> QED BY <1>1, <1>5, <2>1, AllowedHolds DEF Exempt, Allow, PreInv
<1>6. CASE Scheduler
  BY <1>1, <1>6, DeniedHolds DEF Scheduler, Deny, PreInv
<1>7. CASE Monitor
  <2>1. hook.call.tool = "monitor"
    BY <1>7 DEF Monitor, Conducts
  <2>2. CASE ReconOwed
    BY <1>1, <1>7, <2>2, DeniedHolds DEF Monitor, Deny, PreInv
  <2>3. CASE ~ReconOwed /\ ~hook.call.input.truncated /\ is_readonly_shell(hook.call.input.shown)
    <3>1. Allow("read_allowed")
      BY <1>7, <2>3 DEF Monitor
    <3>2. Permitted(hook.call, owed) \/ (~hook.gated /\ Permitted(hook.call, "done"))
      BY <1>1, <2>1, <2>3, QuietPermitted DEF ReconOwed, SPAWN_TOOLS
    <3> QED BY <1>1, <2>1, <2>3, <3>1, <3>2, ReadonlyHolds DEF Allow, PreInv
  <2>4. CASE ~ReconOwed /\ ~(~hook.call.input.truncated /\ is_readonly_shell(hook.call.input.shown))
    <3>1. Deny(NotReadonlyCode)
      BY <1>7, <2>4 DEF Monitor
    <3> QED BY <1>1, <3>1, DeniedHolds DEF Deny, PreInv
  <2> QED BY <2>2, <2>3, <2>4
<1>8. CASE Terminal
  <2>1. hook.call.tool = "run_terminal_command"
    BY <1>8 DEF Terminal, Conducts
  <2>2. CASE VerifierDue
    <3>1. Allow("exact_verifier_allowed")
      BY <1>8, <2>2 DEF Terminal
    <3> QED BY <1>1, <2>1, <2>2, <3>1, VerifierHolds DEF Allow, VerifierDue, PreInv
  <2>3. CASE ~VerifierDue /\ ~hook.gated /\ WithVerifier /\ is_verifier_command(hook.call.input.shown)
    <3>1. Allow("workspace_verifier_allowed")
      BY <1>8, <2>3 DEF Terminal
    <3> QED BY <1>1, <2>1, <2>3, <3>1, VerifierHolds DEF Allow, PreInv
  <2>4. CASE ~VerifierDue /\ ~(~hook.gated /\ WithVerifier /\ is_verifier_command(hook.call.input.shown))
    <3>1. Again
      BY <1>8, <2>4 DEF Terminal
    <3> QED BY <1>1, <3>1, AgainHolds DEF PreInv
  <2> QED BY <2>2, <2>3, <2>4
<1>9. CASE Spawn
  <2>1. hook.call.tool \in SPAWN_TOOLS
    BY <1>9 DEF Spawn, Conducts
  <2>2. ASSUME NEW code, Answered("allow", code, 1),
               Permitted(hook.call, owed) \/ (~hook.gated /\ Permitted(hook.call, "done"))
        PROVE  PreInv'
    BY <1>1, <2>1, <2>2, ReaderHolds DEF PreInv
  <2>3. ASSUME NEW code, Answered("deny", code, 1) PROVE PreInv'
    BY <1>1, <2>3, DeniedHolds DEF PreInv
  <2>4. CASE Again
    BY <1>1, <2>4, AgainHolds DEF PreInv
  <2>5. owed \in Owed /\ hook.at \in {"first", "second"} /\ hook.gated \in BOOLEAN
    BY <1>1 DEF PreInv, HookHolds
  <2>10. /\ hook.call.tool # "run_terminal_command" /\ ~ReconTool(hook.call)
    BY <2>1 DEF SPAWN_TOOLS, ReconTool, CONDUCTOR_RECON_TOOLS
  <2>7. ~hook.gated => Permitted(hook.call, "done")
    BY <2>10 DEF Permitted
  <2>8. Lets => Permitted(hook.call, owed)
    BY <2>10 DEF Permitted, Lets
  <2>9. owed = hook.call.role => Permitted(hook.call, owed)
    BY <2>10 DEF Permitted
  <2>6. \/ Allow("gate_inactive") /\ ~hook.gated
        \/ Again \/ Deny("blocked_sentinel")
        \/ Allow("spawn_allowed") /\ owed = hook.call.role
        \/ Deny("wrong_stage")
        \/ Allow("gate_lifted") /\ Lets
        \/ Deny("pending_verify")
    <3>1. CASE ~hook.gated
      BY <1>9, <3>1 DEF Spawn
    <3>2. CASE hook.gated /\ hook.at = "first"
      <4>1. Asking
        BY <3>2 DEF Asking
      <4>2. CASE owed \notin SpawnStages \cup {"sentinel"}
        BY <1>9, <3>2, <4>1, <4>2 DEF Spawn
      <4>3. CASE owed = "sentinel"
        BY <1>9, <3>2, <4>1, <4>3 DEF Spawn, SpawnStages
      <4>4. CASE owed \in SpawnStages
        BY <1>9, <3>2, <4>1, <4>4 DEF Spawn, SpawnStages
      <4> QED BY <4>2, <4>3, <4>4
    <3>3. CASE hook.gated /\ hook.at = "second"
      <4>1. ~Asking
        BY <3>3 DEF Asking
      <4> QED BY <1>9, <3>3, <4>1 DEF Spawn
    <3> QED BY <2>5, <3>1, <3>2, <3>3
  <2> QED BY <2>2, <2>3, <2>4, <2>6, <2>7, <2>8, <2>9 DEF Allow, Deny
<1>10. CASE Write
  <2>1. CASE hook.call.tool = "run_terminal_command" /\ hook.gated /\ VerifierDue
    <3>1. Allow("exact_verifier_allowed")
      BY <1>10, <2>1 DEF Write
    <3> QED BY <1>1, <2>1, <3>1, VerifierHolds DEF Allow, VerifierDue, PreInv
  <2>2. CASE ~(hook.call.tool = "run_terminal_command" /\ hook.gated /\ VerifierDue)
    <3>1. \E code : Deny(code)
      <4>1. CASE hook.call.tool = "run_terminal_command"
        BY <1>10, <2>2, <4>1 DEF Write
      <4>2. CASE hook.call.tool # "run_terminal_command"
        BY <1>10, <2>2, <4>2 DEF Write
      <4> QED BY <4>1, <4>2
    <3> QED BY <1>1, <3>1, DeniedHolds DEF Deny, PreInv
  <2> QED BY <2>1, <2>2
<1>11. CASE Read
  <2>1. \/ hook.call.tool \in READ_TOOLS \cup LIFECYCLE_TOOLS
        \/ /\ hook.call.tool = "run_terminal_command"
           /\ is_readonly_shell(hook.call.input.shown)
    BY <1>11 DEF Read, _is_write_tool
  <2>2. ASSUME NEW code, Answered("allow", code, 1),
               mode # "dynamic" \/ ~(ReconOwed /\ ReconTool(hook.call))
        PROVE  PreInv'
    <3>1. Permitted(hook.call, owed) \/ (~hook.gated /\ Permitted(hook.call, "done"))
      <4>1. hook.call.tool \notin SPAWN_TOOLS
        BY <1>11 DEF Read, Conducts, OtherTools
      <4>2. ~_is_write_tool(hook.call)
        BY <1>11 DEF Read
      <4> QED BY <1>1, <2>2, <4>1, <4>2, QuietPermitted DEF ReconOwed
    <3>2. hook.call.tool # "monitor"
      BY <1>11 DEF Read, Conducts, OtherTools
    <3> QED BY <1>1, <2>1, <2>2, <3>1, <3>2, ReaderHolds, ReadonlyHolds DEF PreInv
  <2>3. ASSUME NEW code, Answered("deny", code, 1) PROVE PreInv'
    BY <1>1, <2>3, DeniedHolds DEF PreInv
  <2>4. \/ Allow("mode_non_dynamic") /\ mode # "dynamic"
        \/ Deny("recon_diet")
        \/ Allow("read_allowed") /\ ~(ReconOwed /\ ReconTool(hook.call))
    BY <1>11 DEF Read
  <2> QED BY <2>2, <2>3, <2>4 DEF Allow, Deny
<1> QED BY <1>2, <1>3, <1>4, <1>5, <1>6, <1>7, <1>8, <1>9, <1>10, <1>11 DEF Decide

LEMMA PreInit_Holds == PreInit => PreInv
BY DEF PreInit, PreInv, HookHolds, VerdictHolds, NoVerdict, ConductorZeroWrite, AllowedAtSomeMoment, Allowed

LEMMA PreNextHolds == PreInv /\ [PreNext]_preVars => PreInv'
<1> SUFFICES ASSUME PreInv, [PreNext]_preVars PROVE PreInv' OBVIOUS
<1>1. CASE Begin
  <2>1. VerdictHolds'
    BY <1>1, SilentHolds DEF Begin, PreInv
  <2>2. PICK call \in Calls : hook' = [at |-> "first", call |-> call, gated |-> _gate_active,
                                      deserved |-> Permitted(call, owed)]
    BY <1>1 DEF Begin
  <2>3. ~_gate_active /\ Permitted(call, "done") => Permitted(call, owed)
    BY DEF _gate_active, Permitted
  <2>4. _gate_active \in BOOLEAN /\ Permitted(call, owed) \in BOOLEAN
    BY DEF _gate_active, Permitted
  <2>5. HookHolds'
    BY <1>1, <2>2, <2>3, <2>4 DEF Begin, HookHolds, _gate_active, Permitted
  <2> QED BY <1>1, <2>1, <2>5 DEF Begin, PreInv
<1>2. CASE Deliver
  <2>1. VerdictHolds'
    BY <1>2, SilentHolds DEF Deliver, PreInv
  <2> QED BY <1>2, <2>1 DEF Deliver, PreInv, HookHolds, Permitted
<1>3. CASE Decide
  BY <1>3, DecideHolds
<1>4. CASE TrackMoves
  <2>1. VerdictHolds'
    BY <1>4, SilentHolds DEF TrackMoves, PreInv
  <2>2. hook' = [hook EXCEPT !.deserved = @ \/ Permitted(hook.call, owed')]
        /\ UNCHANGED <<mode, strong>> /\ HookHolds /\ hook # Idle
    BY <1>4 DEF TrackMoves, PreInv
  <2>3. HookHolds'
    BY <2>2 DEF HookHolds, Permitted
  <2> QED BY <1>4, <2>1, <2>3 DEF TrackMoves, PreInv
<1>5. CASE UNCHANGED preVars
  <2>1. VerdictHolds'
    BY <1>5, SilentHolds DEF preVars, PreInv
  <2> QED BY <1>5, <2>1 DEF preVars, PreInv, HookHolds, Permitted
<1> QED BY <1>1, <1>2, <1>3, <1>4, <1>5 DEF PreNext

LEMMA PreInvariant == PreSpec => []PreInv
BY PreInit_Holds, PreNextHolds, PTL DEF PreSpec

\* In every mode, whatever fails and however the track moves during the call,
\* the conductor is let through only with a call that changes nothing or with
\* the exact verifier, for shell chains of any length; of a terminal command
\* whose payload is truncated this is so of the part that is shown.
THEOREM ZeroWriteProved == PreSpec => []ConductorZeroWrite
<1>1. PreInv => ConductorZeroWrite BY DEF PreInv, VerdictHolds
<1> QED BY <1>1, PreInvariant, PTL

\* However the track moves between the readings of one call, what is let through
\* was permitted at one moment of it.
THEOREM AllowedProved == PreSpec => []AllowedAtSomeMoment
<1>1. PreInv => AllowedAtSomeMoment BY DEF PreInv, VerdictHolds
<1> QED BY <1>1, PreInvariant, PTL
=============================================================================

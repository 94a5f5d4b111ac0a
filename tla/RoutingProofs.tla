---------------------------- MODULE RoutingProofs ----------------------------
(***************************************************************************)
(* Where a child is placed and what a route may be trusted with, for any   *)
(* number of processes, endpoints, accounts, roles and registries: proofs  *)
(* about Availability.tla and Routing.tla.                                 *)
(***************************************************************************)
EXTENDS Routing, Availability, WellFoundedInduction, TLAPS

-----------------------------------------------------------------------------
(* The walk of the endpoints *)

\* The earliest of some moments is one of them.
LEMMA EarliestMember ==
  ASSUME NEW S \in SUBSET Nat, S # {}
  PROVE  Min(S) \in S /\ \A y \in S : Min(S) <= y
<1> DEFINE Below == {ss \in Nat \X Nat : ss[1] < ss[2]}
<1>1. PICK x \in S : \A y \in S : <<y, x>> \notin Below
  BY NatLessThanWellFounded, WFMin DEF OpToRel
<1>2. ASSUME NEW y \in S PROVE x <= y
  <2>1. CASE y < x
    <3>1. <<y, x>> \in Nat \X Nat /\ <<y, x>>[1] < <<y, x>>[2]
      BY <2>1
    <3> QED
      BY ONLY <3>1, <1>1, y \in S, Zenon
  <2> QED
    BY <2>1
<1> QED BY <1>2 DEF Min

\* A number below twice the length wraps around once at most.
LEMMA WrapsOnce ==
  ASSUME NEW L \in Nat, L > 0, NEW x \in Nat, x < L + L
  PROVE  x % L = IF x < L THEN x ELSE x - L
<1>1. CASE x < L
  BY <1>1
<1>2. CASE ~(x < L)
  BY <1>2
<1> QED BY <1>1, <1>2

\* A cyclic walk over L places from place s names places only, and each.
LEMMA CyclicWalk ==
  ASSUME NEW L \in Nat, L > 0, NEW s \in 0..(L - 1)
  PROVE  /\ \A n \in 1..L : ((s + n - 1) % L) + 1 \in 1..L
         /\ \A i \in 1..L : \E n \in 1..L : ((s + n - 1) % L) + 1 = i
<1>1. ASSUME NEW n \in 1..L, NEW x \in Nat, x = s + n - 1
      PROVE  (s + n - 1) % L = IF x < L THEN x ELSE x - L
  <2>1. x % L = IF x < L THEN x ELSE x - L
    BY <1>1, WrapsOnce
  <2> QED BY <1>1, <2>1
<1>2. ASSUME NEW n \in 1..L PROVE ((s + n - 1) % L) + 1 \in 1..L
  <2>1. PICK x \in Nat : x = s + n - 1
    OBVIOUS
  <2>2. (s + n - 1) % L = IF x < L THEN x ELSE x - L
    BY <1>1, <2>1
  <2> QED BY <2>1, <2>2
<1>3. ASSUME NEW i \in 1..L PROVE \E n \in 1..L : ((s + n - 1) % L) + 1 = i
  <2> DEFINE n == IF i > s THEN i - s ELSE i - s + L
  <2>1. n \in 1..L /\ (n = i - s \/ n = i - s + L)
    OBVIOUS
  <2> HIDE DEF n
  <2>2. PICK x \in Nat : x = s + n - 1
    BY <2>1
  <2>3. (s + n - 1) % L = IF x < L THEN x ELSE x - L
    BY <1>1, <2>1, <2>2
  <2>4. ((s + n - 1) % L) + 1 = i
    BY <2>1, <2>2, <2>3
  <2> QED BY <2>1, <2>4
<1> QED BY <1>2, <1>3

\* Every position of the walk names an endpoint, and the walk over all
\* positions names every endpoint, whatever index it starts at.
LEMMA VisitsEndpoints ==
  /\ \A n \in 1..Len(Endpoints) : Visit(n) \in Ends
  /\ \A e \in Ends : \E n \in 1..Len(Endpoints) : Visit(n) = e
<1> DEFINE place(n) == ((StartIndex + n - 1) % Len(Endpoints)) + 1
<1>0. Len(Endpoints) \in Nat /\ Len(Endpoints) > 0 /\ StartIndex \in 0..(Len(Endpoints) - 1)
  BY EndpointsAssumption
<1>1. /\ \A n \in 1..Len(Endpoints) : place(n) \in 1..Len(Endpoints)
      /\ \A i \in 1..Len(Endpoints) : \E n \in 1..Len(Endpoints) : place(n) = i
  BY <1>0, CyclicWalk
<1>2. \A n : Visit(n) = Endpoints[place(n)]
  BY DEF Visit
<1>3. Ends = {Endpoints[i] : i \in 1..Len(Endpoints)}
  BY EndpointsAssumption DEF Ends, ToSet
<1> HIDE DEF place
<1> QED BY <1>1, <1>2, <1>3

-----------------------------------------------------------------------------
(* What the processes read and write is what it should be *)

Names   == Providers \cup {"none"}
Holds   == [until : Nat, since : Nat]
Signals == [tried : Int, listed : Int, at : Int, reset : Nat]
Markers == [from : Names, to : Names, until : Nat]

\* A process carries a copy of both files and what it has found so far.
Process == [pc : {"idle", "walk", "write", "mark", "renew"},
            why : {"none", "spawn", "failover", "sync"}, began : Nat,
            from : Names, until : Nat, holds : [Providers -> Holds], copy : [Keys -> Signals],
            marked : Markers,
            verdict : Seq({"unbound", "held", "pressured", "stale", "clean"}),
            tried : BOOLEAN, choice : Ends \cup {"none"}, keys : SUBSET (Keys \cup Targets),
            before : Signals, answer : [Keys -> Nat \cup {None}], stamp : Nat]

AvailTypeOK ==
    /\ now \in Nat
    /\ drained \in [Providers -> Nat]
    /\ hold \in [Providers -> Holds]
    /\ cache \in [Keys -> Signals]
    /\ marker \in Markers
    /\ resolved \in Names /\ child \in Names
    /\ proc \in [Procs -> Process]

\* Endpoints and their accounts are what entries are kept for; none is "none".
LEMMA EndsAndProviders ==
  /\ \A e \in Ends : e \in Keys /\ ProviderOf[e] \in Providers
  /\ \A k \in Keys : AccountOf(k) \in Providers
  /\ Providers \subseteq Keys /\ "none" \notin Providers
  /\ Primary \in Providers
<1>1. Endpoints[1] \in Ends
  BY EndpointsAssumption DEF Ends, ToSet
<1> QED BY <1>1, EndpointsAssumption DEF Ends, Providers, Keys, AccountOf, Primary

\* The empty hold, entry, marker and process are of their types.
LEMMA Idling ==
  /\ NoHold \in Holds /\ NoEntry \in Signals /\ Synced \in Signals /\ NoMarker \in Markers
  /\ Idle \in Process /\ [k \in Keys |-> None] \in [Keys -> Nat \cup {None}]
<1>1. NoHold \in Holds /\ NoEntry \in Signals /\ Synced \in Signals /\ NoMarker \in Markers
  BY DEF NoHold, Holds, NoEntry, Synced, Signals, None, NoMarker, Markers, Names
<1> QED BY <1>1 DEF Idle, Process, Names

\* A request starts as a process of the type.
LEMMA WalkingType ==
  ASSUME AvailTypeOK, NEW r \in Procs, NEW why \in {"spawn", "failover"}
  PROVE  Walking(r, why) \in Process
  BY Idling DEF Walking, Idle, Process, AvailTypeOK

\* A hold lasts to a moment, announced or not.
LEMMA DeadlineType ==
  ASSUME AvailTypeOK, NEW p \in Providers
  PROVE  Deadline(p) \in Nat
<1> DEFINE ds == {d \in Resets(p) : now < d /\ d <= now + Horizon}
<1>1. Resets(p) \subseteq Nat
  BY DEF Resets, AvailTypeOK, Signals
<1>2. ds \in SUBSET Nat
  BY <1>1
<1>3. ds # {} => Min(ds) \in Nat
  BY <1>2, EarliestMember
<1>4. now + Cooldown \in Nat
  BY EndpointsAssumption DEF AvailTypeOK
<1> QED BY <1>3, <1>4 DEF Deadline

\* A verdict is one of five words.
LEMMA VerdictType ==
  ASSUME NEW r, NEW e
  PROVE  Verdict(r, e) \in {"unbound", "held", "pressured", "stale", "clean"}
  BY DEF Verdict

\* An entry merged from a probe and the file is an entry.
LEMMA MergedType ==
  ASSUME AvailTypeOK, NEW r \in Procs, NEW k \in Keys, NEW fetched \in BOOLEAN
  PROVE  Merged(r, k, cache[k], fetched) \in Signals
<1>1. /\ proc[r].before \in Signals /\ proc[r].stamp \in Nat /\ cache[k] \in Signals
      /\ proc[r].answer[k] \in Nat \cup {None}
  BY DEF AvailTypeOK, Process
<1> QED BY <1>1 DEF Merged, Signals

\* What upstream answers is a moment, 0 or nothing.
LEMMA AnswersType ==
  ASSUME AvailTypeOK, NEW S
  PROVE  Answers(S) \in [Keys -> Nat \cup {None}]
  BY EndsAndProviders DEF Answers, AvailTypeOK

\* The type of what a walk chooses
LEMMA ChosenType ==
  ASSUME NEW v \in Seq({"unbound", "held", "pressured", "stale", "clean"}),
         Len(v) <= Len(Endpoints)
  PROVE  \/ Chosen(v) = "none" /\ At(v, "clean") = {} /\ At(v, "stale") = {}
         \/ \E n \in At(v, "clean") : Chosen(v) = Visit(n) /\ Chosen(v) \in Ends
         \/ \E n \in At(v, "stale") :
               Chosen(v) = Visit(n) /\ Chosen(v) \in Ends /\ At(v, "clean") = {}
<1>1. \A word : At(v, word) \in SUBSET Nat /\ At(v, word) \subseteq 1..Len(Endpoints)
  BY EndpointsAssumption DEF At
<1>2. \A word : At(v, word) # {} => Min(At(v, word)) \in At(v, word)
  BY <1>1, EarliestMember
<1>3. \A word : At(v, word) # {} => Visit(Min(At(v, word))) \in Ends
  BY <1>1, <1>2, VisitsEndpoints
<1> QED BY <1>2, <1>3 DEF Chosen

-----------------------------------------------------------------------------
(* What a walk knows of the holds, whatever others do meanwhile *)

\* A hold that was there when the walk began and is still in force is the one in
\* the walk's copy, and no endpoint was found fit while its provider was held in
\* the copy.
Walked(w) ==
    /\ w.why \in {"spawn", "failover"}
    /\ w.began <= now
    /\ Len(w.verdict) <= Len(Endpoints)
    /\ \A p \in Providers :
          hold[p].since < w.began /\ Held(hold[p]) => w.holds[p] = hold[p]
    /\ \A n \in DOMAIN w.verdict :
          w.verdict[n] \in {"clean", "stale"} => ~Held(w.holds[ProviderOf[Visit(n)]])

\* What a process has found is still good for its next step.
Promises(w) ==
    /\ w.pc = "walk" \/ (w.pc = "write" /\ w.why # "sync") => Walked(w)
    /\ w.pc = "mark" => w.choice \in Ends
    /\ w.pc = "renew" => /\ marker # NoMarker
                         /\ w.marked.from = marker.from /\ w.marked.to = marker.to

AvailInv ==
    /\ AvailTypeOK
    /\ marker # NoMarker => marker.to \in Providers
    /\ \A r \in Procs : Promises(proc[r])

\* What no step does to another process: a hold changes by being lifted or by
\* being set now, and a stage that has a reserve keeps it.
Gentle ==
    /\ now <= now'
    /\ \A p \in Providers : \/ hold'[p] = hold[p] \/ hold'[p] = NoHold
                            \/ hold'[p].since = now
    /\ marker # NoMarker => /\ marker' # NoMarker
                            /\ marker'.from = marker.from /\ marker'.to = marker.to

\* What a process has found stays good when others lift holds, set new ones, or time passes.
LEMMA PromisesStay ==
  ASSUME AvailTypeOK, AvailTypeOK', Gentle, NEW w \in Process, Promises(w)
  PROVE  Promises(w)'
<1>1. ASSUME Walked(w) PROVE Walked(w)'
  <2>1. w.began \in Nat /\ w.holds \in [Providers -> Holds] /\ now \in Nat /\ now' \in Nat
    BY DEF Process, AvailTypeOK
  <2>2. ASSUME NEW p \in Providers, hold'[p].since < w.began, Held(hold[p])'
        PROVE  w.holds[p] = hold'[p]
    <3>1. hold'[p] # NoHold /\ hold'[p].since # now
      BY <1>1, <2>1, <2>2 DEF Held, NoHold, Walked
    <3>2. hold'[p] = hold[p] /\ hold[p].until \in Nat
      BY <3>1 DEF Gentle, AvailTypeOK, Holds
    <3> QED BY <1>1, <2>1, <2>2, <3>2 DEF Held, Walked, Gentle
  <2>3. ASSUME NEW n \in DOMAIN w.verdict, w.verdict[n] \in {"clean", "stale"}
        PROVE  ~Held(w.holds[ProviderOf[Visit(n)]])'
    <3>1. ProviderOf[Visit(n)] \in Providers
      <4>1. n \in 1..Len(Endpoints)
        BY <1>1, EndpointsAssumption DEF Walked, Process
      <4> QED BY <4>1, VisitsEndpoints, EndsAndProviders
    <3>2. w.holds[ProviderOf[Visit(n)]].until \in Nat
      BY <2>1, <3>1 DEF Holds
    <3> QED BY <1>1, <2>1, <2>3, <3>2 DEF Walked, Held, Gentle
  <2> QED BY <1>1, <2>1, <2>2, <2>3 DEF Walked, Gentle
<1> QED BY <1>1 DEF Promises, Gentle

\* Steps that leave all processes where they are, and steps of one process
LEMMA OthersKeepPromises ==
  ASSUME AvailInv, AvailTypeOK', Gentle, marker' # NoMarker => marker'.to \in Providers,
         NEW r, \A q \in Procs : q = r \/ proc'[q] = proc[q],
         r \in Procs => Promises(proc[r])'
  PROVE  AvailInv'
<1>1. ASSUME NEW q \in Procs PROVE Promises(proc[q])'
  <2>1. CASE q = r
    BY <2>1
  <2>2. CASE q # r
    <3>1. \A w \in Process : Promises(w) => Promises(w)'
      BY PromisesStay DEF AvailInv
    <3>2. proc'[q] = proc[q] /\ proc[q] \in Process /\ Promises(proc[q])
      BY <2>2 DEF AvailInv, AvailTypeOK
    <3>3. PICK w \in Process : w = proc[q]
      BY <3>2
    <3>4. Promises(w)'
      BY <3>1, <3>2, <3>3
    <3> QED BY <3>2, <3>3, <3>4 DEF Promises, Walked, Held
  <2> QED BY <2>1, <2>2
<1> QED BY <1>1 DEF AvailInv

\* One step of a process that leaves the holds, the clock and the reserve alone
LEMMA QuietStep ==
  ASSUME AvailInv, NEW r \in Procs, NEW w \in Process, proc' = [proc EXCEPT ![r] = w],
         UNCHANGED <<now, drained, hold, marker>>, cache' \in [Keys -> Signals],
         resolved' \in Names, child' \in Names, Promises(w)
  PROVE  AvailInv'
<1>1. AvailTypeOK'
  BY DEF AvailInv, AvailTypeOK
<1>2. Gentle
  BY DEF AvailInv, AvailTypeOK, Gentle
<1>3. proc'[r] = w /\ \A q \in Procs : q = r \/ proc'[q] = proc[q]
  BY DEF AvailInv, AvailTypeOK
<1>4. Promises(w)'
  BY <1>1, <1>2, PromisesStay DEF AvailInv
<1>5. Promises(proc[r])'
  BY <1>3, <1>4 DEF Promises, Walked, Held
<1> QED BY <1>1, <1>2, <1>3, <1>5, OthersKeepPromises DEF AvailInv

\* A process at rest promises nothing.
LEMMA IdlePromises == Promises(Idle)
  BY DEF Promises, Idle

\* A request copies the holds it is to respect.
LEMMA BeginStep ==
  ASSUME AvailInv, NEW r \in Procs, Begin(r)
  PROVE  AvailInv'
<1> DEFINE w == Walking(r, "spawn")
<1>1. /\ w \in Process
      /\ w.pc = "walk" /\ w.why = "spawn" /\ w.began = now /\ w.holds = hold /\ w.verdict = <<>>
  BY WalkingType DEF AvailInv, Walking, Idle
<1>2. proc' = [proc EXCEPT ![r] = w]
  BY DEF Begin
<1> HIDE DEF w
<1>3. Walked(w)
  BY <1>1, EndpointsAssumption DEF Walked, AvailInv, AvailTypeOK
<1>4. Promises(w)
  BY <1>1, <1>3 DEF Promises
<1> QED BY <1>1, <1>2, <1>4, QuietStep DEF Begin, AvailInv, AvailTypeOK

\* A probe leaves the copy of the holds alone.
LEMMA ProbeStep ==
  ASSUME AvailInv, NEW r \in Procs, Probe(r)
  PROVE  AvailInv'
<1>1. proc[r].pc = "walk" /\ ~Over(r) /\ proc[r] \in Process
  BY DEF Probe, AvailInv, AvailTypeOK
<1> DEFINE e == Next1(r)
<1>2. PICK S \in SUBSET {e} :
         proc' = [proc EXCEPT ![r].pc = "write", ![r].keys = {e}, ![r].before = cache[e],
                              ![r].answer = Answers(S), ![r].stamp = now]
  BY DEF Probe
<1>3. Walked(proc[r])
  BY <1>1 DEF AvailInv, Promises
<1>4. e \in Keys
  <2>1. Len(proc[r].verdict) # Len(Endpoints) /\ Len(proc[r].verdict) \in Nat
    BY <1>1 DEF Over, Process
  <2>2. Len(proc[r].verdict) + 1 \in 1..Len(Endpoints)
    BY <1>3, <2>1, EndpointsAssumption DEF Walked
  <2> QED BY <2>2, VisitsEndpoints, EndsAndProviders DEF Next1
<1> HIDE DEF e
<1>5. cache[e] \in Signals /\ now \in Nat /\ Answers(S) \in [Keys -> Nat \cup {None}]
  BY <1>4, AnswersType DEF AvailInv, AvailTypeOK
<1> DEFINE w == [proc[r] EXCEPT !.pc = "write", !.keys = {e}, !.before = cache[e],
                                !.answer = Answers(S), !.stamp = now]
<1>6. w \in Process
  BY <1>1, <1>4, <1>5 DEF Process
<1>7. proc' = [proc EXCEPT ![r] = w]
  BY <1>2 DEF AvailInv, AvailTypeOK
<1>8. /\ w.pc = "write" /\ w.why = proc[r].why /\ w.began = proc[r].began
      /\ w.verdict = proc[r].verdict /\ w.holds = proc[r].holds
  BY <1>1 DEF Process
<1> HIDE DEF w
<1>9. Promises(w)
  BY <1>3, <1>8 DEF Promises, Walked
<1> QED BY <1>6, <1>7, <1>9, QuietStep DEF Probe, AvailInv, AvailTypeOK

\* A synchronisation takes no copy of the holds.
LEMMA SyncStep ==
  ASSUME AvailInv, NEW r \in Procs, Sync(r)
  PROVE  AvailInv'
<1>1. PICK S \in SUBSET Targets :
         proc' = [proc EXCEPT ![r] = [Idle EXCEPT !.pc = "write", !.why = "sync",
                                                  !.keys = Targets, !.answer = Answers(S),
                                                  !.stamp = now]]
  BY DEF Sync
<1> DEFINE w == [Idle EXCEPT !.pc = "write", !.why = "sync", !.keys = Targets,
                             !.answer = Answers(S), !.stamp = now]
<1>2. w \in Process
  BY Idling, AnswersType DEF Process, AvailInv, AvailTypeOK
<1>3. w.pc = "write" /\ w.why = "sync"
  BY DEF Idle
<1> HIDE DEF w
<1>4. Promises(w)
  BY <1>3 DEF Promises
<1> QED BY <1>1, <1>2, <1>4, QuietStep DEF w, Sync, AvailInv, AvailTypeOK

\* A probe that is written changes entries, never holds.
LEMMA WriteStep ==
  ASSUME AvailInv, NEW r \in Procs, Write(r)
  PROVE  AvailInv'
<1>1. proc[r].pc = "write" /\ proc[r] \in Process
  BY DEF Write, AvailInv, AvailTypeOK
<1>2. cache' \in [Keys -> Signals]
  <2>1. PICK lists : cache' = [k \in Keys |-> IF k \in proc[r].keys
                                               THEN Merged(r, k, cache[k], k \in lists)
                                               ELSE cache[k]]
    BY DEF Write
  <2>2. \A k \in Keys : cache[k] \in Signals /\ Merged(r, k, cache[k], k \in lists) \in Signals
    <3>1. \A k \in Keys : (k \in lists) \in BOOLEAN
      OBVIOUS
    <3> QED BY <3>1, MergedType DEF AvailInv, AvailTypeOK
  <2> QED BY <2>1, <2>2
<1> DEFINE v == [proc[r] EXCEPT !.pc = "walk", !.tried = TRUE, !.copy = cache', !.keys = {},
                                !.before = NoEntry, !.answer = [k \in Keys |-> None],
                                !.stamp = 0]
           w == IF proc[r].why = "sync" THEN Idle ELSE v
<1>3. proc' = [proc EXCEPT ![r] = w]
  BY DEF Write, AvailInv, AvailTypeOK
<1>4. /\ v.pc = "walk" /\ v.why = proc[r].why /\ v.began = proc[r].began
      /\ v.verdict = proc[r].verdict /\ v.holds = proc[r].holds
  BY <1>1 DEF Process
<1>5. v \in Process
  BY <1>1, <1>2, Idling DEF Process
<1> HIDE DEF v
<1>6. proc[r].why # "sync" => Promises(v)
  BY <1>1, <1>4 DEF Promises, Walked, AvailInv
<1>7. w \in Process /\ Promises(w)
  BY <1>5, <1>6, Idling, IdlePromises
<1> HIDE DEF w
<1> QED BY <1>2, <1>3, <1>7, QuietStep DEF Write, AvailInv, AvailTypeOK

\* A reserve that is marked or renewed keeps the pair of accounts of the first.
LEMMA MarkStep ==
  ASSUME AvailInv, NEW r \in Procs, Mark(r) \/ Renew(r)
  PROVE  AvailInv'
<1>1. /\ proc[r] \in Process /\ proc' = [proc EXCEPT ![r] = Idle] /\ Promises(proc[r])
      /\ UNCHANGED <<now, drained, hold, cache, resolved, child>>
  BY DEF Mark, Renew, AvailInv, AvailTypeOK
<1>2. /\ marker' \in Markers /\ (marker' # NoMarker => marker'.to \in Providers)
      /\ marker # NoMarker => /\ marker' # NoMarker
                              /\ marker'.from = marker.from /\ marker'.to = marker.to
  <2>1. CASE Mark(r)
    <3>1. proc[r].choice \in Ends
      BY <1>1, <2>1 DEF Mark, Promises
    <3> QED BY <1>1, <2>1, <3>1, EndsAndProviders
            DEF Mark, Markers, Names, Process, AvailInv, AvailTypeOK
  <2>2. CASE Renew(r)
    <3>1. /\ marker # NoMarker /\ marker' = [proc[r].marked EXCEPT !.until = proc[r].until]
          /\ proc[r].marked.from = marker.from /\ proc[r].marked.to = marker.to
          /\ proc[r].marked \in Markers /\ proc[r].until \in Nat
      BY <1>1, <2>2 DEF Renew, Promises, Process
    <3>2. /\ marker' \in Markers
          /\ marker'.from = marker.from /\ marker'.to = marker.to
      BY <3>1 DEF Markers
    <3>3. marker.to \in Providers /\ NoMarker.to = "none"
      BY <3>1 DEF AvailInv, NoMarker
    <3> QED BY <3>1, <3>2, <3>3, EndsAndProviders
  <2> QED BY <2>1, <2>2
<1>3. AvailTypeOK'
  BY <1>1, <1>2, Idling DEF AvailInv, AvailTypeOK
<1>4. Gentle
  BY <1>1, <1>2 DEF Gentle, AvailInv, AvailTypeOK
<1>5. proc'[r] = Idle /\ \A q \in Procs : q = r \/ proc'[q] = proc[q]
  BY <1>1 DEF AvailInv, AvailTypeOK
<1>6. Promises(proc[r])'
  BY <1>5 DEF Idle, Promises
<1> QED BY <1>2, <1>3, <1>4, <1>5, <1>6, OthersKeepPromises

\* A walk goes on: the endpoint that is due is one of the declared ones.
LEMMA EndpointDue ==
  ASSUME AvailInv, NEW r \in Procs, proc[r].pc = "walk", ~Over(r)
  PROVE  /\ Walked(proc[r])
         /\ Len(proc[r].verdict) \in Nat
         /\ Len(proc[r].verdict) + 1 \in 1..Len(Endpoints)
         /\ Next1(r) \in Ends
<1>1. Walked(proc[r]) /\ proc[r] \in Process
  BY DEF AvailInv, AvailTypeOK, Promises
<1>2. Len(proc[r].verdict) # Len(Endpoints) /\ Len(proc[r].verdict) \in Nat
  BY <1>1 DEF Over, Process
<1>3. Len(proc[r].verdict) + 1 \in 1..Len(Endpoints)
  BY <1>1, <1>2, EndpointsAssumption DEF Walked
<1> QED BY <1>1, <1>2, <1>3, VisitsEndpoints DEF Next1

\* An endpoint is found fit only when its provider is not held, or no longer.
LEMMA FitIsFree ==
  ASSUME AvailInv, NEW r \in Procs, NEW e \in Ends, Verdict(r, e) \in {"clean", "stale"}
  PROVE  ~Held(IF Lifts(r, e) THEN NoHold ELSE proc[r].holds[ProviderOf[e]])
<1>1. ~Held(NoHold)
  BY DEF Held, NoHold, AvailInv, AvailTypeOK
<1> QED BY <1>1 DEF Verdict

\* A hold that a judgement lifts is lifted in the file and in the copy alike.
LEMMA JudgeStep ==
  ASSUME AvailInv, NEW r \in Procs, Judge(r)
  PROVE  AvailInv'
<1> DEFINE e == Next1(r)
           p == ProviderOf[e]
           old == proc[r]
           after == IF Lifts(r, e) THEN NoHold ELSE old.holds[p]
           word == Verdict(r, e)
<1>1. /\ old.pc = "walk" /\ ~Over(r)
      /\ hold' = IF Lifts(r, e) THEN [hold EXCEPT ![p] = NoHold] ELSE hold
      /\ UNCHANGED <<now, drained, cache, marker, resolved, child>>
  BY DEF Judge
<1> DEFINE w == [old EXCEPT !.holds[p] = after, !.verdict = Append(@, word), !.tried = FALSE]
<1>2. proc' = [proc EXCEPT ![r].holds[p] = IF Lifts(r, e) THEN NoHold ELSE @,
                           ![r].verdict = Append(@, word), ![r].tried = FALSE]
  BY DEF Judge
<1>3. /\ old \in Process /\ Walked(old) /\ Len(old.verdict) \in Nat
      /\ Len(old.verdict) + 1 \in 1..Len(Endpoints)
      /\ e \in Ends /\ e = Visit(Len(old.verdict) + 1)
  BY <1>1, EndpointDue DEF AvailInv, AvailTypeOK, Next1
<1>4. p \in Providers
  BY <1>3, EndsAndProviders
<1>5. word \in {"unbound", "held", "pressured", "stale", "clean"}
  BY VerdictType
<1>6. word \in {"clean", "stale"} => ~Held(after)
  BY <1>3, FitIsFree
<1>7. proc' = [proc EXCEPT ![r] = w]
  BY <1>2, <1>3, <1>4 DEF AvailInv, AvailTypeOK, Process
<1> HIDE DEF e, word
<1>8. after \in Holds
  BY <1>3, <1>4, Idling DEF Process
<1>9. hold' \in [Providers -> Holds] /\ \A q \in Providers : hold'[q] \in {hold[q], NoHold}
  BY <1>1, <1>4, Idling DEF AvailInv, AvailTypeOK
<1>10. \A q \in Providers : q # p => hold'[q] = hold[q]
  BY <1>1, <1>4 DEF AvailInv, AvailTypeOK
<1>11. hold'[p] = NoHold \/ (hold'[p] = hold[p] /\ after = old.holds[p])
  BY <1>1, <1>4 DEF AvailInv, AvailTypeOK
<1>12. after \in {NoHold, old.holds[p]}
  OBVIOUS
<1> HIDE DEF after
<1>13. /\ w \in Process
       /\ w.pc = "walk" /\ w.why = old.why /\ w.began = old.began
       /\ w.verdict = Append(old.verdict, word)
       /\ w.holds = [old.holds EXCEPT ![p] = after]
  <2>1. [old.holds EXCEPT ![p] = after] \in [Providers -> Holds]
    BY <1>3, <1>4, <1>8 DEF Process
  <2>2. Append(old.verdict, word) \in Seq({"unbound", "held", "pressured", "stale", "clean"})
    BY <1>3, <1>5 DEF Process
  <2> QED BY <1>1, <1>3, <2>1, <2>2 DEF Process
<1> HIDE DEF w
<1>14. ASSUME NEW q \in Providers, hold'[q].since < old.began, Held(hold'[q])
       PROVE  w.holds[q] = hold'[q]
  <2>1. hold'[q] # NoHold
    BY <1>14 DEF Held, NoHold, AvailInv, AvailTypeOK
  <2>2. hold'[q] = hold[q] /\ hold[q] = old.holds[q]
    BY <1>3, <1>9, <1>14, <2>1 DEF Walked
  <2>3. w.holds[q] = old.holds[q]
    BY <1>3, <1>4, <1>11, <1>13, <2>1 DEF Process
  <2> QED BY <2>2, <2>3
<1>15. ASSUME NEW n \in DOMAIN w.verdict, w.verdict[n] \in {"clean", "stale"}
       PROVE  ~Held(w.holds[ProviderOf[Visit(n)]])
  <2>0. /\ old.verdict \in Seq({"unbound", "held", "pressured", "stale", "clean"})
        /\ DOMAIN old.verdict = 1..Len(old.verdict)
        /\ n \in 1..(Len(old.verdict) + 1)
    BY <1>3, <1>13 DEF Process
  <2>1. CASE n = Len(old.verdict) + 1
    <3>1. w.verdict[n] = word /\ Visit(n) = e
      BY <1>3, <1>13, <2>0, <2>1
    <3>2. w.holds[ProviderOf[Visit(n)]] = after
      BY <1>3, <1>4, <1>13, <3>1 DEF Process
    <3> QED BY <1>6, <1>15, <3>1, <3>2
  <2>2. CASE n # Len(old.verdict) + 1
    <3>1. n \in DOMAIN old.verdict /\ w.verdict[n] = old.verdict[n]
      BY <1>13, <2>0, <2>2
    <3>2. ~Held(old.holds[ProviderOf[Visit(n)]])
      BY <1>3, <1>15, <3>1 DEF Walked
    <3>3. ProviderOf[Visit(n)] \in Providers
      <4>1. n \in 1..Len(Endpoints)
        BY <1>3, <2>0, EndpointsAssumption
      <4> QED BY <4>1, VisitsEndpoints, EndsAndProviders
    <3>4. ~Held(NoHold)
      BY DEF Held, NoHold, AvailInv, AvailTypeOK
    <3>5. w.holds[ProviderOf[Visit(n)]] \in {NoHold, old.holds[ProviderOf[Visit(n)]]}
      BY <1>3, <1>4, <1>12, <1>13, <3>3 DEF Process
    <3> QED BY <3>2, <3>4, <3>5
  <2> QED BY <2>1, <2>2
<1>16. Len(w.verdict) <= Len(Endpoints)
  BY <1>3, <1>13, EndpointsAssumption DEF Process
<1>17. AvailTypeOK'
  BY <1>1, <1>7, <1>9, <1>13 DEF AvailInv, AvailTypeOK
<1>18. Gentle
  BY <1>1, <1>9 DEF Gentle, AvailInv, AvailTypeOK
<1>19. proc'[r] = w /\ \A q \in Procs : q = r \/ proc'[q] = proc[q]
  BY <1>7 DEF AvailInv, AvailTypeOK
<1> HIDE DEF old
<1>20. PICK x \in Process : x = w
  BY <1>13
<1>21. Walked(x)'
  BY <1>1, <1>3, <1>13, <1>14, <1>15, <1>16, <1>20 DEF Walked, Held
<1>22. Promises(proc[r])'
  BY <1>13, <1>19, <1>20, <1>21 DEF Promises, Walked, Held
<1> QED BY <1>1, <1>17, <1>18, <1>19, <1>22, OthersKeepPromises DEF AvailInv

\* The account taken for a reserve is that of a declared endpoint.
LEMMA ConcludeStep ==
  ASSUME AvailInv, NEW r \in Procs, Conclude(r)
  PROVE  AvailInv'
<1> DEFINE e == Chosen(proc[r].verdict)
           p == IF e = "none" THEN "none" ELSE ProviderOf[e]
           m == [Idle EXCEPT !.pc = "mark", !.from = proc[r].from, !.until = proc[r].until,
                             !.choice = e]
           w == IF proc[r].why = "failover" /\ p \notin {"none", proc[r].from} THEN m ELSE Idle
<1>1. /\ proc[r].pc = "walk" /\ proc[r] \in Process /\ Walked(proc[r])
      /\ proc' = [proc EXCEPT ![r] = w]
  BY DEF Conclude, AvailInv, AvailTypeOK, Promises
<1>2. e = "none" \/ e \in Ends
  BY <1>1, ChosenType DEF Walked, Process
<1>3. p \in Names /\ (p # "none" => e \in Ends)
  BY <1>2, EndsAndProviders DEF Names
<1> HIDE DEF e
<1>4. m \in Process /\ m.pc = "mark" /\ m.choice = e
  <2>1. proc[r].from \in Names /\ proc[r].until \in Nat
    BY <1>1 DEF Process
  <2>2. \A f \in Names, u \in Nat, c \in Ends \cup {"none"} :
           [Idle EXCEPT !.pc = "mark", !.from = f, !.until = u, !.choice = c] \in Process
    BY Idling DEF Process
  <2>3. m.pc = "mark" /\ m.choice = e
    BY DEF Idle
  <2> QED BY <1>2, <2>1, <2>2, <2>3
<1> HIDE DEF m
<1>5. w \in Process /\ Promises(w)
  BY <1>3, <1>4, Idling, IdlePromises DEF Promises
<1>6. resolved' \in Names /\ child' \in Names
  BY <1>3, EndsAndProviders DEF Conclude, e, AvailInv, AvailTypeOK, Names
<1> HIDE DEF w
<1> QED BY <1>1, <1>5, <1>6, QuietStep DEF Conclude, AvailInv, AvailTypeOK

\* The hold a refusal sets is as young as the walk it starts.
LEMMA RefusedStep ==
  ASSUME AvailInv, NEW r \in Procs, Refused(r)
  PROVE  AvailInv'
<1>1. /\ child \in Providers /\ child' = "none"
      /\ UNCHANGED <<now, drained, cache, marker, resolved>>
  BY DEF Refused, AvailInv, AvailTypeOK, Names
<1>2. PICK exact \in BOOLEAN :
         LET p == Blamed(exact)
             h == [until |-> Deadline(p), since |-> now]
             w == [Walking(r, "failover") EXCEPT !.holds[p] = h, !.from = p, !.until = h.until]
         IN /\ hold' = [hold EXCEPT ![p] = h]
            /\ proc' = [proc EXCEPT ![r] = IF marker = NoMarker THEN w
                                           ELSE IF marker.to = p THEN [w EXCEPT !.pc = "renew"]
                                           ELSE Idle]
  BY DEF Refused
<1> DEFINE p == Blamed(exact)
           h == [until |-> Deadline(p), since |-> now]
           start == Walking(r, "failover")
           walk == [start EXCEPT !.holds[p] = h, !.from = p, !.until = h.until]
           renew == [walk EXCEPT !.pc = "renew"]
           w == IF marker = NoMarker THEN walk ELSE IF marker.to = p THEN renew ELSE Idle
<1>3. hold' = [hold EXCEPT ![p] = h] /\ proc' = [proc EXCEPT ![r] = w]
  BY <1>2
<1>4. p \in Providers
  BY <1>1, EndsAndProviders DEF Blamed, AvailInv, AvailTypeOK, Names
<1>5. h \in Holds /\ h.since = now /\ h.until \in Nat
  BY <1>4, DeadlineType DEF Holds, AvailInv, AvailTypeOK
<1>6. /\ start \in Process
      /\ start.pc = "walk" /\ start.why = "failover" /\ start.began = now
      /\ start.holds = hold /\ start.verdict = <<>> /\ start.marked = marker
  BY WalkingType DEF AvailInv, Walking, Idle
<1> HIDE DEF p, h, start
<1>7. /\ walk \in Process
      /\ walk.pc = "walk" /\ walk.why = "failover" /\ walk.began = now
      /\ walk.holds = [hold EXCEPT ![p] = h] /\ walk.verdict = <<>> /\ walk.marked = marker
  <2>1. [start.holds EXCEPT ![p] = h] \in [Providers -> Holds]
    BY <1>4, <1>5, <1>6 DEF Process
  <2>2. p \in Names
    BY <1>4 DEF Names
  <2> QED BY <1>5, <1>6, <2>1, <2>2 DEF Process
<1> HIDE DEF walk
<1>8. renew \in Process /\ renew.pc = "renew" /\ renew.marked = marker
  BY <1>7 DEF Process
<1> HIDE DEF renew
<1>9. w \in Process
  BY <1>7, <1>8, Idling
<1>10. AvailTypeOK'
  BY <1>1, <1>3, <1>4, <1>5, <1>9 DEF AvailInv, AvailTypeOK, Names
<1>11. Gentle
  BY <1>1, <1>3, <1>4, <1>5 DEF Gentle, AvailInv, AvailTypeOK
<1>12. ASSUME NEW x \in Process, x = walk PROVE Promises(x)'
  <2>1. x.holds = hold'
    BY <1>3, <1>7, <1>12
  <2>2. Len(x.verdict) = 0 /\ DOMAIN x.verdict = {}
    BY <1>7, <1>12
  <2>3. x.why = "failover" /\ x.began <= now'
    BY <1>1, <1>7, <1>12 DEF AvailInv, AvailTypeOK
  <2>4. Walked(x)'
    BY <2>1, <2>2, <2>3, EndpointsAssumption DEF Walked
  <2> QED BY <1>7, <1>12, <2>4 DEF Promises
<1>13. ASSUME NEW x \in Process, x = renew, marker # NoMarker PROVE Promises(x)'
  BY <1>1, <1>8, <1>13 DEF Promises
<1>14. ASSUME NEW x \in Process, x = Idle PROVE Promises(x)'
  BY <1>14 DEF Promises, Idle
<1>15. /\ proc'[r] = w /\ \A q \in Procs : q = r \/ proc'[q] = proc[q]
       /\ w \in {walk, Idle} \/ (marker # NoMarker /\ w = renew)
  BY <1>3 DEF AvailInv, AvailTypeOK
<1> HIDE DEF w
<1>16. PICK x \in Process : x = w
  BY <1>9
<1>17. Promises(x)'
  BY <1>12, <1>13, <1>14, <1>15, <1>16
<1>18. Promises(proc[r])'
  BY <1>15, <1>16, <1>17 DEF Promises, Walked, Held
<1> QED BY <1>1, <1>10, <1>11, <1>15, <1>18, OthersKeepPromises DEF AvailInv

\* The operator's and the accounts' steps touch no process.
LEMMA OutsideStep ==
  ASSUME AvailInv, Upstream \/ SpawnUnwalked \/ \E p \in Operated : Operates(p)
  PROVE  AvailInv'
<1>1. UNCHANGED <<marker, proc>>
  BY DEF Upstream, SpawnUnwalked, Operates, Drains, Succeeds, Tick, OperatorHolds, OperatorClears
<1>2. AvailTypeOK' /\ Gentle
  <2>1. ASSUME NEW p \in Operated, OperatorHolds(p)
        PROVE  AvailTypeOK' /\ Gentle
    <3>1. MaxNow + 1 \in Nat /\ p \in Providers
      BY EndpointsAssumption DEF Providers, Ends
    <3> QED BY <2>1, <3>1 DEF OperatorHolds, Gentle, AvailInv, AvailTypeOK, Holds
  <2>2. ASSUME NEW p \in Operated, OperatorClears(p)
        PROVE  AvailTypeOK' /\ Gentle
    <3>1. p \in Providers
      BY EndpointsAssumption DEF Providers, Ends
    <3> QED BY <2>2, <3>1, Idling DEF OperatorClears, Gentle, AvailInv, AvailTypeOK
  <2>3. ASSUME NEW p \in Providers, Drains(p)
        PROVE  AvailTypeOK' /\ Gentle
    BY <2>3, EndpointsAssumption DEF Drains, Gentle, AvailInv, AvailTypeOK
  <2>4. CASE Succeeds \/ Tick \/ SpawnUnwalked
    BY <2>4, EndsAndProviders
       DEF Succeeds, Tick, SpawnUnwalked, Gentle, AvailInv, AvailTypeOK, Names
  <2> QED BY <2>1, <2>2, <2>3, <2>4 DEF Upstream, Operates
<1> DEFINE nobody == CHOOSE q : q \notin Procs
<1>3. nobody \notin Procs
  BY NoSetContainsEverything
<1> HIDE DEF nobody
<1> QED BY <1>1, <1>2, <1>3, OthersKeepPromises DEF AvailInv

\* Every step keeps the invariant.
LEMMA AvailStep ==
  ASSUME AvailInv, AvailNext
  PROVE  AvailInv'
<1>1. ASSUME NEW r \in Routers, Routes(r)
      PROVE  AvailInv'
  BY <1>1, EndpointsAssumption, BeginStep, ProbeStep, WriteStep, JudgeStep, ConcludeStep,
     RefusedStep, MarkStep DEF Routes
<1>2. ASSUME NEW r \in Syncers, Syncs(r)
      PROVE  AvailInv'
  BY <1>2, EndpointsAssumption, SyncStep, WriteStep DEF Syncs
<1> QED BY <1>1, <1>2, OutsideStep DEF AvailNext

\* No process walks at first.
LEMMA AvailStart == AvailInit => AvailInv
<1> SUFFICES ASSUME AvailInit PROVE AvailInv
  OBVIOUS
<1>1. AvailTypeOK
  BY Idling DEF AvailInit, AvailTypeOK, Names
<1>2. \A r \in Procs : Promises(proc[r])
  BY IdlePromises DEF AvailInit
<1> QED BY <1>1, <1>2 DEF AvailInit, AvailInv

\* In every state, walks respect the holds that are older than their requests.
LEMMA AvailInvariant == AvailSpec => []AvailInv
<1>1. AvailInv /\ UNCHANGED availVars => AvailInv'
  BY DEF AvailInv, AvailTypeOK, Promises, Walked, Held, availVars
<1> QED BY <1>1, AvailStep, AvailStart, PTL DEF AvailSpec

\* The reserve of a stage is written in two transactions only.
LEMMA ReserveStays ==
  ASSUME AvailInv, AvailNext, marker # NoMarker
  PROVE  marker'.from = marker.from /\ marker'.to = marker.to
<1>1. ASSUME NEW r \in Procs, Renew(r)
      PROVE  marker'.from = marker.from /\ marker'.to = marker.to
  <2>1. /\ proc[r].marked.from = marker.from /\ proc[r].marked.to = marker.to
        /\ proc[r].marked \in Markers
    BY <1>1 DEF Renew, AvailInv, AvailTypeOK, Promises, Process
  <2> QED BY <1>1, <2>1 DEF Renew, Markers
<1>2. ASSUME NEW r \in Procs, Mark(r)
      PROVE  UNCHANGED marker
  BY <1>2 DEF Mark
<1>3. CASE \E r \in Routers \cup Syncers : \/ Begin(r) \/ Probe(r) \/ Write(r) \/ Judge(r)
                                            \/ Conclude(r) \/ Refused(r) \/ Sync(r)
  <2>1. ASSUME NEW r, Begin(r) \/ Probe(r) \/ Write(r) \/ Sync(r)
        PROVE  UNCHANGED marker
    BY <2>1 DEF Begin, Probe, Write, Sync
  <2>2. ASSUME NEW r, Judge(r) \/ Conclude(r) \/ Refused(r)
        PROVE  UNCHANGED marker
    BY <2>2 DEF Judge, Conclude, Refused
  <2> QED BY <1>3, <2>1, <2>2
<1>4. CASE Upstream \/ SpawnUnwalked \/ \E p \in Operated : Operates(p)
  BY <1>4 DEF Upstream, SpawnUnwalked, Operates, Drains, Succeeds, Tick,
              OperatorHolds, OperatorClears
<1> QED BY <1>1, <1>2, <1>3, <1>4, EndpointsAssumption DEF AvailNext, Routes, Syncs

\* A walk ends by its conclusion only.
LEMMA WalkEnds ==
  ASSUME AvailInv, AvailNext, NEW r \in Procs, proc[r].pc = "walk",
         proc'[r].pc \notin {"walk", "write"}
  PROVE  Conclude(r)
<1>0. proc \in [Procs -> Process] /\ proc[r] \in Process
  BY DEF AvailInv, AvailTypeOK
<1>1. proc'[r] # proc[r]
  OBVIOUS
<1>2. ASSUME NEW q \in Procs,
             \/ Begin(q) \/ Refused(q) \/ Mark(q) \/ Renew(q) \/ Sync(q)
             \/ (Write(q) /\ proc[q].pc = "write")
      PROVE  FALSE
  <2>1. proc[q].pc # "walk"
    BY <1>2 DEF Begin, Refused, Mark, Renew, Sync
  <2>2. \E w : proc' = [proc EXCEPT ![q] = w]
    BY <1>2 DEF Begin, Refused, Mark, Renew, Sync, Write
  <2> QED BY <1>0, <1>1, <2>1, <2>2
<1>3. ASSUME NEW q \in Procs, Probe(q) \/ Judge(q)
      PROVE  FALSE
  <2>1. proc'[q].pc \in {"walk", "write"} /\ \A o \in Procs \ {q} : proc'[o] = proc[o]
    <3>1. proc[q] \in Process /\ proc[q].pc = "walk"
      BY <1>0, <1>3 DEF Probe, Judge
    <3>2. CASE Probe(q)
      BY <1>0, <3>1, <3>2 DEF Probe, Process
    <3>3. CASE Judge(q)
      <4> DEFINE p == ProviderOf[Next1(q)]
                 word == Verdict(q, Next1(q))
                 free == Lifts(q, Next1(q))
                 w == [proc[q] EXCEPT !.holds[p] = IF free THEN NoHold ELSE @,
                                      !.verdict = Append(@, word), !.tried = FALSE]
      <4>1. proc' = [proc EXCEPT ![q].holds[p] = IF free THEN NoHold ELSE @,
                                 ![q].verdict = Append(@, word), ![q].tried = FALSE]
        BY <3>3 DEF Judge
      <4> HIDE DEF p, word, free
      <4>2. proc' = [proc EXCEPT ![q] = w]
        BY <1>0, <3>1, <4>1 DEF Process
      <4>3. w.pc = "walk"
        BY <3>1 DEF Process
      <4> HIDE DEF w
      <4> QED BY <1>0, <4>2, <4>3
    <3> QED BY <1>3, <3>2, <3>3
  <2> QED BY <1>1, <2>1
<1>4. ASSUME NEW q \in Procs, Conclude(q)
      PROVE  Conclude(r)
  <2>1. \E w : proc' = [proc EXCEPT ![q] = w]
    BY <1>4 DEF Conclude
  <2> QED BY <1>0, <1>1, <1>4, <2>1
<1>5. CASE Upstream \/ SpawnUnwalked \/ \E p \in Operated : Operates(p)
  BY <1>1, <1>5 DEF Upstream, SpawnUnwalked, Operates, Drains, Succeeds, Tick,
                    OperatorHolds, OperatorClears
<1>6. \A q \in Procs : Write(q) => proc[q].pc = "write"
  BY DEF Write
<1> QED BY <1>2, <1>3, <1>4, <1>5, <1>6, EndpointsAssumption DEF AvailNext, Routes, Syncs

\* The accounts of the endpoints a walk gave a verdict
Found(v, word) == {ProviderOf[Visit(n)] : n \in {m \in DOMAIN v : v[m] = word}}

\* A child that is started is where its walk's best verdict was, and its
\* resolution says so.
LEMMA PlacedWell ==
  ASSUME AvailInv, NEW r \in Procs, Conclude(r), proc[r].why = "spawn", child = "none"
  PROVE  LET v == proc[r].verdict IN
         \/ child' \in Found(v, "clean") /\ resolved' = child'
         \/ /\ {Visit(n) : n \in DOMAIN v} = Ends
            /\ Found(v, "clean") = {}
            /\ \/ child' \in Found(v, "stale") /\ resolved' = child'
               \/ Found(v, "stale") = {} /\ child' = Primary /\ resolved' = "none"
<1> DEFINE v == proc[r].verdict
           p == IF Chosen(v) = "none" THEN "none" ELSE ProviderOf[Chosen(v)]
<1>1. /\ proc[r].pc = "walk" /\ proc[r] \in Process /\ Walked(proc[r]) /\ Over(r)
      /\ resolved' = p
      /\ child' = IF p = "none" THEN Primary ELSE p
  BY DEF Conclude, AvailInv, AvailTypeOK, Promises
<1>2. v \in Seq({"unbound", "held", "pressured", "stale", "clean"}) /\ Len(v) <= Len(Endpoints)
  BY <1>1 DEF Walked, Process
<1>3. "none" \notin Providers /\ "none" \notin Ends /\ (\A e \in Ends : ProviderOf[e] \in Providers)
  BY EndsAndProviders, EndpointsAssumption DEF Ends
<1>4. Len(v) = Len(Endpoints) \/ At(v, "clean") # {}
  BY <1>1 DEF Over, At, ToSet
<1>5. Len(v) = Len(Endpoints) => {Visit(n) : n \in DOMAIN v} = Ends
  <2>1. DOMAIN v = 1..Len(v)
    BY <1>2
  <2> QED BY <2>1, VisitsEndpoints
<1>6. \/ Chosen(v) = "none" /\ At(v, "clean") = {} /\ At(v, "stale") = {}
      \/ \E n \in At(v, "clean") : Chosen(v) = Visit(n) /\ Chosen(v) \in Ends
      \/ \E n \in At(v, "stale") :
            Chosen(v) = Visit(n) /\ Chosen(v) \in Ends /\ At(v, "clean") = {}
  BY <1>2, ChosenType
<1>7. \A word : Found(v, word) = {ProviderOf[Visit(n)] : n \in At(v, word)}
  BY DEF At, Found
<1>8. Chosen(v) # "none" => p = ProviderOf[Chosen(v)] /\ (Chosen(v) \in Ends => p # "none")
  BY <1>3
<1>9. Chosen(v) = "none" => p = "none"
  OBVIOUS
<1> HIDE DEF v, p
<1>10. CASE Chosen(v) = "none" /\ At(v, "clean") = {} /\ At(v, "stale") = {}
  <2>1. child' = Primary /\ resolved' = "none"
    BY <1>1, <1>9, <1>10
  <2>2. {Visit(n) : n \in DOMAIN v} = Ends
    BY <1>4, <1>5, <1>10
  <2>3. Found(v, "clean") = {} /\ Found(v, "stale") = {}
    BY <1>7, <1>10
  <2> QED BY <2>1, <2>2, <2>3 DEF v
<1>11. ASSUME NEW n \in At(v, "clean"), Chosen(v) = Visit(n), Chosen(v) \in Ends
       PROVE  child' \in Found(v, "clean") /\ resolved' = child'
  <2>1. child' = ProviderOf[Visit(n)] /\ resolved' = child'
    BY <1>1, <1>3, <1>8, <1>11
  <2> QED BY <1>7, <2>1
<1>12. ASSUME NEW n \in At(v, "stale"), Chosen(v) = Visit(n), Chosen(v) \in Ends,
              At(v, "clean") = {}
       PROVE  /\ {Visit(i) : i \in DOMAIN v} = Ends /\ Found(v, "clean") = {}
              /\ child' \in Found(v, "stale") /\ resolved' = child'
  <2>1. child' = ProviderOf[Visit(n)] /\ resolved' = child'
    BY <1>1, <1>3, <1>8, <1>12
  <2> QED BY <1>4, <1>5, <1>7, <1>12, <2>1
<1> QED BY <1>6, <1>10, <1>11, <1>12 DEF v

\* A stage gets one reserve, whatever two processes saw in their copies: the
\* count is looked at again under the lock.
THEOREM OneReserveProved == AvailSpec => OneReserve
<1>1. AvailInv /\ [AvailNext]_availVars =>
         [marker # NoMarker => /\ marker'.from = marker.from
                               /\ marker'.to = marker.to]_availVars
  BY ReserveStays
<1> QED BY <1>1, AvailInvariant, PTL DEF AvailSpec, OneReserve

\* A walk that found an endpoint starts its child on no provider under an older
\* hold still in force, and leaves it on the declared default only when there was
\* nothing else.
THEOREM PlacedOnEvidence == AvailSpec => SpawnsWellPlaced
<1>1. AvailInv /\ [AvailNext]_availVars =>
         [\A r \in Procs, p \in Providers :
            /\ proc[r].pc = "walk" /\ proc'[r] = Idle
            /\ {"clean", "stale"} \cap ToSet(proc[r].verdict) # {}
            /\ hold[p].since < proc[r].began /\ Held(hold[p])
            => ~(child = "none" /\ child' = p)]_availVars
  <2> SUFFICES ASSUME AvailInv, AvailNext, NEW r \in Procs, NEW p \in Providers,
                      proc[r].pc = "walk", proc'[r] = Idle,
                      {"clean", "stale"} \cap ToSet(proc[r].verdict) # {},
                      hold[p].since < proc[r].began, Held(hold[p]),
                      child = "none", child' = p
               PROVE  FALSE
    OBVIOUS
  <2> DEFINE v == proc[r].verdict
  <2>1. Conclude(r)
    BY WalkEnds DEF Idle
  <2>2. Walked(proc[r]) /\ p # "none"
    BY EndsAndProviders DEF AvailInv, Promises
  <2>3. proc[r].why = "spawn"
    BY <2>1, <2>2 DEF Conclude
  <2>4. Found(v, "clean") # {} \/ Found(v, "stale") # {}
    BY DEF Found, ToSet
  <2>5. p \in Found(v, "clean") \cup Found(v, "stale")
    BY <2>1, <2>3, <2>4, PlacedWell
  <2>6. PICK n \in DOMAIN v : v[n] \in {"clean", "stale"} /\ ProviderOf[Visit(n)] = p
    BY <2>5 DEF Found
  <2> QED BY <2>2, <2>6 DEF Walked
<1>2. AvailInv /\ [AvailNext]_availVars =>
         [\A r \in Procs :
           /\ proc[r].pc = "walk" /\ proc[r].why = "spawn" /\ child = "none"
           /\ proc'[r].pc \notin {"walk", "write"}
           => LET v == proc[r].verdict
                  found(word) == {ProviderOf[Visit(n)] : n \in {m \in DOMAIN v : v[m] = word}}
              IN \/ child' \in found("clean") /\ resolved' = child'
                 \/ /\ {Visit(n) : n \in DOMAIN v} = Ends
                    /\ found("clean") = {}
                    /\ \/ child' \in found("stale") /\ resolved' = child'
                       \/ found("stale") = {} /\ child' = Primary /\ resolved' = "none"]_availVars
  BY WalkEnds, PlacedWell DEF Found
<1> QED BY <1>1, <1>2, AvailInvariant, PTL
        DEF AvailSpec, SpawnsWellPlaced, HeldProvidersRest, BoundOnEvidence

-----------------------------------------------------------------------------
(* Two hooks compute the gate: what the pipeline decides and what Stop finds *)

\* The fields of a run, and those that composing and deciding leave alone.
Fields == {"at", "words", "profile", "mode", "verifiers", "health", "stale", "registry",
           "winner", "complexity", "risk", "selected", "impl", "staffed", "escalate",
           "execution", "valid", "holds", "write_policy"}

IsRun(p) == p = [f \in Fields |-> p[f]]

Agree(p, q) ==
    /\ p.words = q.words /\ p.profile = q.profile /\ p.mode = q.mode
    /\ p.verifiers = q.verifiers /\ p.health = q.health /\ p.stale = q.stale
    /\ p.registry = q.registry /\ p.winner = q.winner /\ p.complexity = q.complexity
    /\ p.risk = q.risk /\ p.selected = q.selected /\ p.impl = q.impl /\ p.escalate = q.escalate

\* What the gate reads of a composed run
SameStages(p, q) == Agree(p, q) /\ p.staffed = q.staffed /\ p.execution = q.execution

\* A run that starts is a run, with nothing composed.
LEMMA StartIsRun ==
  ASSUME NEW words, NEW profile, NEW mode_, NEW verifiers
  PROVE  LET p == Start(words, profile, mode_, verifiers) IN
         /\ IsRun(p)
         /\ p.words = words /\ p.profile = profile /\ p.mode = mode_ /\ p.verifiers = verifiers
         /\ p.health = health /\ p.stale = (mode_ # "static" /\ stale) /\ p.registry = registry
         /\ ~p.staffed /\ ~p.escalate /\ p.execution = <<>>
  BY DEF Start, IsRun, Fields

\* A choice of a role keeps the run's words, profile and mode.
LEMMA SelectedIsRun ==
  ASSUME NEW p, IsRun(p), NEW choice
  PROVE  LET s == Selected(p, choice) IN
         /\ IsRun(s)
         /\ s.words = p.words /\ s.profile = p.profile /\ s.mode = p.mode
         /\ s.verifiers = p.verifiers /\ s.health = p.health /\ s.stale = p.stale
         /\ s.registry = p.registry /\ s.winner = p.winner
         /\ s.selected = choice /\ s.execution = p.execution
         /\ (~p.escalate /\ s.escalate => ~s.staffed)
<1> DEFINE writer == select_implement_role(p, p.words, p.complexity, "high")
           able == choice # "none" /\ writer # "none"
                   /\ (p.mode = "static" \/ role_available(p, "security-verify"))
<1>1. \/ Selected(p, choice) = [p EXCEPT !.selected = choice, !.impl = choice,
                                  !.staffed = choice # "none",
                                  !.escalate = choice = "none" /\ p.risk = "high"]
      \/ Selected(p, choice) = [p EXCEPT !.selected = choice, !.impl = writer,
                                  !.staffed = able, !.escalate = writer = "none"]
      \/ Selected(p, choice) = [p EXCEPT !.selected = choice, !.staffed = choice # "none"]
  BY DEF Selected
<1>2. able => writer # "none"
  OBVIOUS
<1> HIDE DEF writer, able
<1> DEFINE s == Selected(p, choice)
           set == {"selected", "impl", "staffed", "escalate"}
<1>3. s = [f \in Fields |-> s[f]] /\ \A f \in Fields \ set : s[f] = p[f]
  BY <1>1 DEF IsRun
<1>4. s.selected = choice /\ (~p.escalate /\ s.escalate => ~s.staffed)
  <2>1. DOMAIN p = Fields
    BY DEF IsRun
  <2> QED BY <1>1, <1>2, <2>1 DEF Fields
<1> HIDE DEF s
<1>5. /\ s.words = p.words /\ s.profile = p.profile /\ s.mode = p.mode
      /\ s.verifiers = p.verifiers /\ s.health = p.health /\ s.stale = p.stale
      /\ s.registry = p.registry /\ s.winner = p.winner /\ s.execution = p.execution
  BY <1>3 DEF Fields
<1> QED BY <1>3, <1>4, <1>5 DEF s, IsRun

\* What is composed depends on nothing but the decision and the registry.
LEMMA ComposedAlike ==
  ASSUME NEW p, NEW q, NEW reg, IsRun(p), IsRun(q), SameStages(p, q), p.execution = <<>>
  PROVE  LET c == Composed(p, reg)
             d == Composed(q, reg)
         IN  IsRun(c) /\ SameStages(c, d) /\ Agree(c, p) /\ (~c.staffed => c.execution = <<>>)
                      /\ (c.staffed => p.staffed)
<1>1. \A r : Seen(p, r) = Seen(q, r)
  BY DEF Seen, SameStages, Agree
<1>2. \A r : role_available(p, r) <=> role_available(q, r)
  BY <1>1 DEF role_available, SameStages, Agree
<1>3. Inputs(p) = Inputs(q)
  <2>1. Reviewers(p) = Reviewers(q)
    BY <1>2 DEF Reviewers
  <2>2. /\ role_available(p, "researcher-challenger") = role_available(q, "researcher-challenger")
        /\ role_available(p, "explore-risk") = role_available(q, "explore-risk")
    BY <1>1 DEF role_available, SameStages, Agree
  <2> QED BY <2>1, <2>2 DEF Inputs, SameStages, Agree
<1> DEFINE stages == compose_execution(Inputs(p), reg)
           lacking == /\ p.winner = "implement"
                      /\ p.risk = "high" \/ p.complexity # "low"
                      /\ RolesOf(stages) \cap REVIEW_STAGES = {}
                      /\ p.verifiers = 0
<1>4. /\ Composed(p, reg) = IF ~p.staffed \/ lacking THEN [p EXCEPT !.staffed = FALSE]
                            ELSE [p EXCEPT !.execution = stages]
      /\ Composed(q, reg) = IF ~q.staffed \/ lacking THEN [q EXCEPT !.staffed = FALSE]
                            ELSE [q EXCEPT !.execution = stages]
  BY <1>3 DEF Composed, SameStages, Agree
<1> HIDE DEF stages, lacking
<1>5. CASE ~p.staffed \/ lacking
  <2> DEFINE c == [p EXCEPT !.staffed = FALSE]
             d == [q EXCEPT !.staffed = FALSE]
  <2>1. /\ IsRun(c) /\ Agree(c, p) /\ ~c.staffed /\ c.execution = <<>>
        /\ SameStages(c, d)
    BY DEF IsRun, Fields, SameStages, Agree
  <2>2. Composed(p, reg) = c /\ Composed(q, reg) = d
    BY <1>4, <1>5 DEF SameStages
  <2> HIDE DEF c, d
  <2> QED BY <2>1, <2>2
<1>6. CASE ~(~p.staffed \/ lacking)
  <2> DEFINE c == [p EXCEPT !.execution = stages]
             d == [q EXCEPT !.execution = stages]
  <2>1. /\ IsRun(c) /\ Agree(c, p) /\ c.staffed = p.staffed
        /\ SameStages(c, d)
    BY DEF IsRun, Fields, SameStages, Agree
  <2>2. Composed(p, reg) = c /\ Composed(q, reg) = d
    BY <1>4, <1>6 DEF SameStages
  <2> HIDE DEF c, d
  <2> QED BY <1>6, <2>1, <2>2
<1> QED BY <1>5, <1>6

\* What is decided depends on nothing but the composed run.
LEMMA DecidedAlike ==
  ASSUME NEW p, NEW q, IsRun(p), IsRun(q), SameStages(p, q)
  PROVE  /\ IsRun(Decided(p)) /\ SameStages(Decided(p), p)
         /\ Decided(p).holds = Decided(q).holds /\ Decided(p).holds \in BOOLEAN
<1> DEFINE valid == p.staffed => validate_execution(p.execution, p.registry)
           gate == /\ p.mode = "dynamic" /\ p.staffed /\ valid
                   /\ has_required_execution(p.execution)
                   /\ gate_strong(p.words, p.profile, p.winner)
           hold_ == gate \/ (p.mode = "dynamic" /\ p.escalate)
           policy == IF hold_ THEN "deny"
                     ELSE IF p.mode = "dynamic" /\ p.staffed /\ valid THEN "allow"
                     ELSE "observe"
<1>1. /\ Decided(p) = [p EXCEPT !.valid = valid, !.holds = hold_, !.write_policy = policy]
      /\ Decided(q) = [q EXCEPT !.valid = valid, !.holds = hold_, !.write_policy = policy]
  BY DEF Decided, SameStages, Agree
<1>2. hold_ \in BOOLEAN
  OBVIOUS
<1> HIDE DEF valid, gate, hold_, policy
<1>3. /\ DOMAIN p = Fields /\ DOMAIN q = Fields
      /\ DOMAIN Decided(p) = Fields /\ \A f \in Fields \ {"valid", "holds", "write_policy"} :
                                         Decided(p)[f] = p[f]
  BY <1>1 DEF IsRun
<1>4. Decided(p).holds = hold_ /\ Decided(q).holds = hold_
  BY <1>1, <1>3 DEF Fields
<1>5. SameStages(Decided(p), p)
  BY <1>3 DEF Fields, SameStages, Agree
<1>6. IsRun(Decided(p))
  BY <1>1, <1>3 DEF IsRun, Fields
<1> QED BY <1>2, <1>4, <1>5, <1>6

\* Pipeline and hook agree: the gate of a decided run whose turn still owes
\* required stages is the one the hook computes.
LEMMA GateComputedTwice ==
  ASSUME NEW c, IsRun(c), has_required_execution(c.execution), ~c.escalate
  PROVE  Decided(c).holds <=> _gate_active(Decided(c), TRUE)
<1> DEFINE valid == c.staffed => validate_execution(c.execution, c.registry)
           gate == /\ c.mode = "dynamic" /\ c.staffed /\ valid
                   /\ has_required_execution(c.execution)
                   /\ gate_strong(c.words, c.profile, c.winner)
           hold_ == gate \/ (c.mode = "dynamic" /\ c.escalate)
           policy == IF hold_ THEN "deny"
                     ELSE IF c.mode = "dynamic" /\ c.staffed /\ valid THEN "allow"
                     ELSE "observe"
<1>1. Decided(c) = [c EXCEPT !.valid = valid, !.holds = hold_, !.write_policy = policy]
  BY DEF Decided
<1>2. hold_ <=> /\ c.mode = "dynamic" /\ c.staffed /\ valid
                /\ gate_strong(c.words, c.profile, c.winner)
  OBVIOUS
<1> HIDE DEF valid, hold_, policy
<1>3. /\ Decided(c).mode = c.mode /\ Decided(c).staffed = c.staffed
      /\ Decided(c).valid = valid /\ Decided(c).holds = hold_
      /\ Decided(c).words = c.words /\ Decided(c).profile = c.profile
      /\ Decided(c).winner = c.winner
  BY <1>1 DEF IsRun, Fields
<1> QED BY <1>2, <1>3 DEF _gate_active, gate_strong

\* The run of the turn, computed again from what was asked and what is on disk:
\* as it was selected, and as it was composed
Origin == Selected(Start(route.words, route.profile, route.mode, route.verifiers),
                   route.selected)
Whole  == Composed(Origin, registry)

\* As long as nothing has changed, the recorded run is the one a hook computes,
\* and a turn owes only what its run requires.
RunInv ==
    /\ changes \in Nat
    /\ track \in Seq([owed : BOOLEAN, holds : BOOLEAN])
    /\ route.at \in {"idle", "selected", "composed", "decided"}
    /\ route.at # "idle" => IsRun(route)
    /\ route.at \in {"selected", "composed"} => route.winner # "none"
    /\ route.at = "decided" =>
          /\ track # <<>>
          /\ track[Len(track)].owed =>
                route.winner # "none" /\ has_required_execution(route.execution)
    /\ changes = 0 =>
          /\ route.at = "selected" => SameStages(route, Origin) /\ route.execution = <<>>
          /\ route.at = "composed" => SameStages(route, Whole)
          /\ route.at = "decided" /\ route.winner # "none" =>
                SameStages(route, Whole) /\ route.holds = Decided(Whole).holds

\* The run a hook starts from is a run.
LEMMA OriginIsRun ==
  /\ IsRun(Origin) /\ Origin.execution = <<>> /\ (Origin.escalate => ~Origin.staffed)
  /\ IsRun(Whole) /\ Agree(Whole, Origin) /\ (Whole.staffed => Origin.staffed)
  /\ ~Whole.staffed => Whole.execution = <<>>
<1> DEFINE p == Start(route.words, route.profile, route.mode, route.verifiers)
<1>1. IsRun(p) /\ p.execution = <<>> /\ ~p.escalate
  BY StartIsRun
<1> HIDE DEF p
<1>2. IsRun(Origin) /\ Origin.execution = <<>> /\ (Origin.escalate => ~Origin.staffed)
  BY <1>1, SelectedIsRun DEF Origin, p
<1>3. SameStages(Origin, Origin)
  BY DEF SameStages, Agree
<1> QED BY <1>2, <1>3, ComposedAlike DEF Whole

\* The same run computed from the same words by the same choice
LEMMA OriginFound ==
  ASSUME NEW p, NEW q, Agree(p, q)
  PROVE  Selected(Start(p.words, p.profile, p.mode, p.verifiers), p.selected)
           = Selected(Start(q.words, q.profile, q.mode, q.verifiers), q.selected)
  BY DEF Agree

\* No stage is required of an empty plan.
LEMMA NothingRequired == ~has_required_execution(<<>>)
  BY DEF has_required_execution

\* Selecting appends no debt, and what it selects is what a hook would.
LEMMA SelectKeepsRun ==
  ASSUME RunInv, NEW words, NEW profile, NEW mode_, NEW verifiers,
         Select(words, profile, mode_, verifiers)
  PROVE  RunInv'
<1> DEFINE p == Start(words, profile, mode_, verifiers)
<1>1. /\ IsRun(p) /\ p.execution = <<>>
      /\ p.words = words /\ p.profile = profile /\ p.mode = mode_ /\ p.verifiers = verifiers
  BY StartIsRun
<1>2. UNCHANGED <<registry, health, stale, changes>>
  BY DEF Select
<1>3. CASE p.winner = "none"
  <2>1. track' = Append(track, Observed) /\ route' = [p EXCEPT !.at = "decided"]
    BY <1>3 DEF Select
  <2>2. /\ track' \in Seq([owed : BOOLEAN, holds : BOOLEAN]) /\ track' # <<>>
        /\ ~track'[Len(track')].owed
    BY <2>1 DEF RunInv, Observed
  <2> HIDE DEF p
  <2>3. route'.at = "decided" /\ IsRun(route') /\ route'.winner = "none"
    BY <1>1, <1>3, <2>1 DEF IsRun, Fields
  <2> QED BY <1>2, <2>2, <2>3 DEF RunInv, IsRun
<1>4. CASE p.winner # "none"
  <2>1. PICK choice \in RoleChoices(p) : route' = [Selected(p, choice) EXCEPT !.at = "selected"]
    BY <1>4 DEF Select, Runs
  <2> DEFINE s == Selected(p, choice)
  <2>2. /\ IsRun(s) /\ s.words = words /\ s.profile = profile /\ s.mode = mode_
        /\ s.verifiers = verifiers /\ s.winner = p.winner /\ s.selected = choice
        /\ s.execution = <<>>
    BY <1>1, SelectedIsRun
  <2>3. UNCHANGED track
    BY <1>4 DEF Select
  <2> DEFINE t == [s EXCEPT !.at = "selected"]
  <2>4. /\ route' = t
        /\ t.words = words /\ t.profile = profile /\ t.mode = mode_
        /\ t.verifiers = verifiers /\ t.selected = choice
    <3> HIDE DEF s, p
    <3> QED BY <2>1, <2>2 DEF IsRun, Fields, s
  <2>5. Origin' = s
    <3> HIDE DEF t
    <3>1. route'.words = words /\ route'.profile = profile /\ route'.mode = mode_
          /\ route'.verifiers = verifiers /\ route'.selected = choice
      BY <2>4
    <3>2. Start(route.words, route.profile, route.mode, route.verifiers)' = p
      BY <1>2, <3>1 DEF Start
    <3> HIDE DEF p
    <3> QED BY <3>1, <3>2 DEF Origin
  <2> HIDE DEF s, p
  <2>6. IsRun(t) /\ t.at = "selected" /\ t.winner # "none" /\ SameStages(t, s) /\ t.execution = <<>>
    BY <1>4, <2>2 DEF IsRun, Fields, SameStages, Agree
  <2> HIDE DEF t
  <2> QED BY <1>2, <2>3, <2>4, <2>5, <2>6 DEF RunInv, SameStages, Agree, IsRun
<1> QED BY <1>3, <1>4

\* A step of the run that leaves the configuration alone and what was asked
LEMMA OriginKept ==
  ASSUME UNCHANGED <<registry, health, stale>>, Agree(route', route)
  PROVE  Origin' = Origin /\ Whole' = Whole
<1>1. Start(route.words, route.profile, route.mode, route.verifiers)'
         = Start(route.words, route.profile, route.mode, route.verifiers)
  BY DEF Start, Agree
<1>2. Origin' = Origin
  BY <1>1 DEF Origin, Agree
<1> QED BY <1>2 DEF Whole

\* Composing from an unchanged registry gives the hook's composition.
LEMMA ComposeKeepsRun ==
  ASSUME RunInv, Compose
  PROVE  RunInv'
<1> DEFINE c == Composed(route, registry)
           t == [c EXCEPT !.at = "composed"]
<1>1. /\ route.at = "selected" /\ IsRun(route) /\ route.winner # "none"
      /\ route' = t /\ UNCHANGED <<registry, health, stale, track, changes>>
  BY DEF Compose, RunInv
<1>2. IsRun(c)
  <2> DEFINE q == route
  <2>1. Composed(route, registry) = [route EXCEPT !.staffed = FALSE]
        \/ Composed(route, registry)
             = [route EXCEPT !.execution = compose_execution(Inputs(route), registry)]
    BY DEF Composed
  <2> QED BY <1>1, <2>1 DEF IsRun, Fields
<1>3. Agree(c, route)
  <2>1. Composed(route, registry) = [route EXCEPT !.staffed = FALSE]
        \/ Composed(route, registry)
             = [route EXCEPT !.execution = compose_execution(Inputs(route), registry)]
    BY DEF Composed
  <2> QED BY <1>1, <2>1 DEF IsRun, Fields, Agree
<1>4. changes = 0 => SameStages(c, Whole)
  BY <1>1, OriginIsRun, ComposedAlike DEF RunInv, Whole
<1> HIDE DEF c
<1>5. IsRun(t) /\ t.at = "composed" /\ SameStages(t, c)
  BY <1>2 DEF IsRun, Fields, SameStages, Agree
<1> HIDE DEF t
<1>6. Agree(route', route)
  BY <1>1, <1>3, <1>5 DEF Agree, SameStages
<1>7. Whole' = Whole
  BY <1>1, <1>6, OriginKept
<1>8. route'.winner # "none" /\ (changes = 0 => SameStages(t, Whole))
  BY <1>1, <1>4, <1>5, <1>6 DEF SameStages, Agree
<1> QED BY <1>1, <1>5, <1>7, <1>8 DEF RunInv, SameStages, Agree, IsRun

\* The recorded turn owes its stages only when the run requires some.
LEMMA RecordKeepsRun ==
  ASSUME RunInv, Record
  PROVE  RunInv'
<1> DEFINE d == Decided(route)
           t == [d EXCEPT !.at = "decided"]
           entry == IF route.mode = "static" THEN Observed
                    ELSE [owed |-> has_required_execution(d.execution), holds |-> d.holds]
<1>1. /\ route.at = "composed" /\ IsRun(route) /\ route.winner # "none"
      /\ route' = t /\ track' = Append(track, entry)
      /\ UNCHANGED <<registry, health, stale, changes>>
  BY DEF Record, RunInv
<1>2. SameStages(route, route)
  BY DEF SameStages, Agree
<1>3. IsRun(d) /\ SameStages(d, route) /\ d.holds \in BOOLEAN
  BY <1>1, <1>2, DecidedAlike
<1>4. changes = 0 => SameStages(route, Whole) /\ d.holds = Decided(Whole).holds
  BY <1>1, OriginIsRun, DecidedAlike DEF RunInv
<1> HIDE DEF d
<1>5. /\ entry \in [owed : BOOLEAN, holds : BOOLEAN]
      /\ entry.owed => has_required_execution(d.execution)
  <2>1. has_required_execution(d.execution) \in BOOLEAN
    BY DEF has_required_execution
  <2> QED BY <1>3, <2>1 DEF Observed
<1> HIDE DEF entry
<1>6. /\ track' \in Seq([owed : BOOLEAN, holds : BOOLEAN]) /\ track' # <<>>
      /\ track'[Len(track')] = entry
  BY <1>1, <1>5 DEF RunInv
<1>7. /\ IsRun(t) /\ t.at = "decided" /\ SameStages(t, d) /\ t.holds = d.holds
      /\ t.execution = d.execution
  BY <1>3 DEF IsRun, Fields, SameStages, Agree
<1> HIDE DEF t
<1>8. Agree(route', route) /\ SameStages(t, route)
  BY <1>1, <1>3, <1>7 DEF Agree, SameStages
<1>9. Whole' = Whole
  BY <1>1, <1>8, OriginKept
<1>10. route'.winner # "none" /\ (changes = 0 => SameStages(t, Whole))
  BY <1>1, <1>4, <1>8 DEF SameStages, Agree
<1>11. track'[Len(track')].owed => has_required_execution(t.execution)
  BY <1>5, <1>6, <1>7
<1>12. changes = 0 => t.holds = Decided(Whole).holds
  BY <1>4, <1>7
<1>13. Decided(Whole)' = Decided(Whole)
  BY <1>9
<1> QED BY <1>1, <1>6, <1>7, <1>9, <1>10, <1>11, <1>12, <1>13
        DEF RunInv, SameStages, Agree, IsRun

\* Stop, a finished stage and a change of the configuration leave the run alone.
LEMMA RestKeepsRun ==
  ASSUME RunInv,
         \/ Stop \/ (\E t \in DOMAIN track : Finish(t)) \/ Aging
         \/ (\E reg \in Registries : Reconfigured(reg))
         \/ (\E state \in Healths : Ailing(state))
         \/ UNCHANGED routingVars
  PROVE  RunInv'
<1>1. ASSUME UNCHANGED <<registry, health, stale, route, changes>>
      PROVE  Origin' = Origin /\ Whole' = Whole
  BY <1>1, OriginKept DEF Agree
<1>2. CASE Stop \/ UNCHANGED routingVars
  BY <1>1, <1>2 DEF Stop, routingVars, RunInv, SameStages, Agree, IsRun
<1>3. ASSUME NEW t \in DOMAIN track, Finish(t)
      PROVE  RunInv'
  <2>1. /\ track' = [track EXCEPT ![t].owed = FALSE]
        /\ UNCHANGED <<registry, health, stale, route, changes>>
    BY <1>3 DEF Finish
  <2>2. /\ track' \in Seq([owed : BOOLEAN, holds : BOOLEAN]) /\ Len(track') = Len(track)
        /\ \A n \in DOMAIN track : track'[n].owed => track[n].owed
    <3> DEFINE Turn == [owed : BOOLEAN, holds : BOOLEAN]
               e == [track[t] EXCEPT !.owed = FALSE]
    <3>1. track \in Seq(Turn) /\ t \in 1..Len(track)
      BY DEF RunInv
    <3>2. \A x \in Turn : [x EXCEPT !.owed = FALSE] \in Turn /\ ~ [x EXCEPT !.owed = FALSE].owed
      OBVIOUS
    <3> HIDE DEF Turn
    <3>3. e \in Turn /\ ~ e.owed
      BY <3>1, <3>2
    <3>4. track' = [track EXCEPT ![t] = e]
      BY <2>1
    <3> HIDE DEF e
    <3>5. track' \in Seq(Turn) /\ Len(track') = Len(track)
      BY <3>1, <3>3, <3>4
    <3>6. \A n \in 1..Len(track) : track'[n] = IF n = t THEN e ELSE track[n]
      BY <3>1, <3>4
    <3>7. \A n \in DOMAIN track : track'[n].owed => track[n].owed
      BY <3>1, <3>3, <3>6
    <3> QED BY <3>5, <3>7 DEF Turn
  <2>3. /\ track # <<>> => track' # <<>>
        /\ track # <<>> => (track'[Len(track')].owed => track[Len(track)].owed)
    BY <2>2 DEF RunInv
  <2> QED BY <1>1, <2>1, <2>2, <2>3 DEF RunInv, SameStages, Agree, IsRun
<1>4. CASE \/ Aging
           \/ \E reg \in Registries : Reconfigured(reg)
           \/ \E state \in Healths : Ailing(state)
  <2>1. changes' = changes + 1 /\ UNCHANGED <<route, track>>
    BY <1>4 DEF Aging, Reconfigured, Ailing, Counted
  <2> QED BY <2>1 DEF RunInv, IsRun
<1> QED BY <1>2, <1>3, <1>4

\* In every state, the recorded run is the one a hook computes while nothing changed.
LEMMA RunInvariant == RoutingSpec => []RunInv
<1>1. RoutingInit => RunInv
  BY DEF RoutingInit, RunInv, NotRouting
<1>2. RunInv /\ [RoutingNext]_routingVars => RunInv'
  BY SelectKeepsRun, ComposeKeepsRun, RecordKeepsRun, RestKeepsRun
     DEF RoutingNext, Proceeds
<1> QED BY <1>1, <1>2, PTL DEF RoutingSpec

\* Stop finds the run that was recorded, so its gate is the decided one.
LEMMA StopFinds ==
  ASSUME RunInv, changes = 0, track # <<>>, track[Len(track)].owed, Stop
  PROVE  held' = Len(track) <=> route.holds
<1> DEFINE p == Start(route.words, route.profile, route.mode, route.verifiers)
           turn == Len(track)
<1>1. /\ route.at = "decided" /\ route.winner # "none"
      /\ has_required_execution(route.execution)
      /\ SameStages(route, Whole) /\ route.holds = Decided(Whole).holds
  BY DEF Stop, RunInv
<1>2. turn \in Nat \ {0} /\ track[turn].owed = TRUE
  BY DEF RunInv
<1>3. \A r \in Resolutions : r = Decided(Whole)
  <2>1. IsRun(p) /\ p.health = health /\ p.registry = registry
        /\ p.stale = (route.mode # "static" /\ stale)
    BY StartIsRun
  <2>2. /\ Whole.winner = route.winner /\ Whole.health = route.health
        /\ Whole.stale = route.stale /\ Whole.registry = route.registry
    BY <1>1 DEF SameStages, Agree
  <2>3. /\ Whole.winner = p.winner /\ Whole.health = p.health
        /\ Whole.stale = p.stale /\ Whole.registry = p.registry
    <3>1. Origin = Selected(p, route.selected)
      BY DEF Origin
    <3> HIDE DEF p
    <3> QED BY <2>1, <3>1, SelectedIsRun, OriginIsRun DEF Agree
  <2>4. p.winner # "none"
    BY <1>1, <2>2, <2>3
  <2>5. \A f \in {"health", "stale", "registry"} : p[f] = route[f]
    BY <2>2, <2>3
  <2>6. \A choice : Selected(p, choice).selected = route.selected => Selected(p, choice) = Origin
    <3>1. \A choice : Selected(p, choice).selected = choice
      <4> HIDE DEF p
      <4> QED BY <2>1, SelectedIsRun
    <3> QED BY <3>1 DEF Origin
  <2>7. ASSUME NEW r \in Resolutions PROVE r = Decided(Whole)
    <3>1. PICK run \in Runs(p) : run.selected = route.selected
                                 /\ r = Decided(Composed(run, registry))
      BY <2>4, <2>5, <2>7 DEF Resolutions
    <3>2. run = Origin
      BY <2>6, <3>1 DEF Runs
    <3> QED BY <3>1, <3>2 DEF Whole
  <2> QED BY <2>7
<1>4. Decided(Whole).holds <=> _gate_active(Decided(Whole), TRUE)
  <2>1. has_required_execution(Whole.execution)
    BY <1>1 DEF SameStages
  <2>2. Whole.staffed
    BY <2>1, OriginIsRun, NothingRequired
  <2>3. ~Whole.escalate
    BY <2>2, OriginIsRun DEF Agree
  <2> QED BY <2>1, <2>3, OriginIsRun, GateComputedTwice
<1>5. Decided(Whole).mode = route.mode
  BY <1>1, OriginIsRun, DecidedAlike DEF SameStages, Agree
<1>6. route.holds => route.mode = "dynamic"
  BY <1>1, <1>4, <1>5 DEF _gate_active
<1> DEFINE debts == {t \in 1..(turn - 1) : track[t].owed}
           last == CHOOSE t \in debts : \A u \in debts : u <= t
<1>7. held' = IF route.mode # "dynamic" THEN 0
              ELSE IF route.holds THEN turn
              ELSE IF debts # {} THEN last
              ELSE 0
  <2>1. PICK r \in Resolutions :
           held' = IF r.mode # "dynamic" THEN 0
                   ELSE IF _gate_active(r, track[turn].owed) THEN turn
                   ELSE IF debts # {} THEN last
                   ELSE 0
    BY DEF Stop
  <2>2. r = Decided(Whole)
    BY <1>3
  <2> HIDE DEF debts, last, turn
  <2> QED BY <1>1, <1>2, <1>4, <1>5, <2>1, <2>2
<1>8. ASSUME debts # {} PROVE last # turn
  <2> DEFINE gaps == {turn - t : t \in debts}
  <2>1. /\ debts \subseteq Nat /\ \A t \in debts : t < turn
        /\ gaps \in SUBSET Nat /\ gaps # {}
    BY <1>2, <1>8
  <2>2. Min(gaps) \in gaps /\ \A y \in gaps : Min(gaps) <= y
    BY <2>1, EarliestMember
  <2>3. PICK t \in debts : Min(gaps) = turn - t
    BY <2>2
  <2>4. \A u \in debts : turn - t <= turn - u
    BY <2>2, <2>3
  <2> HIDE DEF turn, debts, gaps
  <2>5. \A u \in debts : u <= t
    BY <1>2, <2>1, <2>4
  <2>6. last \in debts
    BY <2>5
  <2> HIDE DEF last
  <2> QED BY <1>2, <2>1, <2>6
<1> QED BY <1>2, <1>6, <1>7, <1>8

\* While nothing changes, Stop holds a turn that owes its stages exactly when
\* the decision said that it would.
THEOREM HeldAsDecidedProved == RoutingSpec => HeldAsDecided
<1>1. RunInv /\ [RoutingNext]_routingVars =>
         [/\ track # <<>> /\ track[Len(track)].owed
          /\ changes = 0 /\ Stop
          => (held' = Len(track) <=> route.holds)]_routingVars
  BY StopFinds
<1> QED BY <1>1, RunInvariant, PTL DEF RoutingSpec, HeldAsDecided
=============================================================================

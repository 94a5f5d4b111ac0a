---------------------------- MODULE Availability ----------------------------
(***************************************************************************)
(* Choice of a provider endpoint and the quota circuit around it.          *)
(*                                                                         *)
(* A hook process that spawns a child walks the declared endpoints of the  *)
(* role's model with its own copies of state.json (provider holds) and of  *)
(* models.json (quota signals); it may probe a stale signal and may lift a *)
(* hold, each in a transaction of its own.  A child refused with a 429     *)
(* makes the process that reports it hold the provider and look for one    *)
(* reserve endpoint for the stage.  Nothing is locked from the copy to the *)
(* decision, so everything another process does may come in between.       *)
(* A walk never refuses a spawn: one that finds nothing usable leaves the  *)
(* child on the declared default endpoint, held or not.                    *)
(*                                                                         *)
(* Data abstracted: windows to "some window is at 90%" and the earliest    *)
(* reset; seconds to ticks of `now`; one stage and one decision.           *)
(***************************************************************************)
EXTENDS Integers, Sequences, SequencesExt, FiniteSets, FiniteSetsExt

CONSTANTS Procs,        \* processes:
          Routers,      \* those that route a spawn or settle one,
          Syncers,      \* those that run `models sync`
          Endpoints,    \* a sequence: the endpoints in declared order
          ProviderOf,   \* provider account of an endpoint
          Targets,      \* names load_targets gives entries: endpoints, accounts
          Bound,        \* endpoints with an executable binding and credential
          Operated,     \* accounts the operator's CLI touches
          StartIndex,   \* session-stable index the balanced walk starts at
          TTL,          \* QUOTA_SIGNAL_TTL
          MinInterval,  \* REFRESH_MIN_INTERVAL
          Cooldown,     \* hold when no window names a reset
          Horizon,      \* MAX_QUOTA_RESET_HORIZON_SECONDS
          MaxNow        \* bound of the clock

ASSUME EndpointsAssumption ==
    /\ Len(Endpoints) > 0
    /\ Endpoints \in Seq(ToSet(Endpoints))
    /\ "none" \notin ToSet(Endpoints) \cup {ProviderOf[e] : e \in ToSet(Endpoints)}
    /\ Routers \subseteq Procs /\ Syncers \subseteq Procs
    /\ Operated \subseteq {ProviderOf[e] : e \in ToSet(Endpoints)}
    /\ StartIndex \in 0..(Len(Endpoints) - 1)
    /\ {TTL, MinInterval, Cooldown, Horizon, MaxNow} \subseteq Nat

VARIABLES now, drained, hold, cache, marker, resolved, child, proc

availVars == <<now, drained, hold, cache, marker, resolved, child, proc>>

Ends      == ToSet(Endpoints)
Providers == {ProviderOf[e] : e \in Ends}
Keys      == Ends \cup Providers
Primary   == ProviderOf[Endpoints[1]]     \* of a child no walk has bound
None      == -1
NoEntry   == [tried |-> None, listed |-> None, at |-> None, reset |-> 0]
Synced    == [tried |-> 0, listed |-> 0, at |-> 0, reset |-> 0]
NoHold    == [until |-> 0, since |-> 0]
NoMarker  == [from |-> "none", to |-> "none", until |-> 0]
Idle      == [pc |-> "idle", why |-> "none", began |-> 0, from |-> "none", until |-> 0,
              holds |-> [p \in Providers |-> NoHold], copy |-> [k \in Keys |-> NoEntry],
              marked |-> NoMarker, verdict |-> << >>, tried |-> FALSE, choice |-> "none",
              keys |-> {}, before |-> NoEntry, answer |-> [k \in Keys |-> None],
              stamp |-> 0]

AvailInit == /\ now = 0
             /\ drained = [p \in Providers |-> 0]
             /\ hold = [p \in Providers |-> NoHold]
             /\ \E S \in {{}, Targets} :
                    cache = [k \in Keys |-> IF k \in S THEN Synced ELSE NoEntry]
             /\ marker = NoMarker
             /\ resolved = "none"
             /\ child = "none"
             /\ proc = [r \in Procs |-> Idle]

-----------------------------------------------------------------------------
\* Reading the signals

HasQuota(c) == c.at # None

\* The freshest entry with quota windows; the endpoint's own on a tie.
QuotaEntry(c, e) ==
  LET own == c[e]  shared == c[ProviderOf[e]] IN
  IF HasQuota(shared) /\ shared.at > own.at THEN shared
  ELSE IF own.tried # None THEN own ELSE shared

FetchedAt(c) == IF HasQuota(c) THEN c.at ELSE c.listed

Acceptable(c) == IF ~HasQuota(c) THEN "yes"
                 ELSE IF now - c.at > TTL THEN "stale"
                 ELSE IF c.reset # 0 THEN "no" ELSE "yes"

Held(h) == h.until > now

AccountOf(k) == IF k \in Ends THEN ProviderOf[k] ELSE k

\* A recent attempt under any name of the account throttles the next one.
MayRefresh(c, e) ==
  /\ e \in Targets
  /\ \A k \in Keys \cap Targets :
       AccountOf(k) = ProviderOf[e] /\ c[k].tried # None => now - c[k].tried >= MinInterval

\* The cyclic walk, from the first endpoint or from the session's index.
Visit(n) == Endpoints[((StartIndex + n - 1) % Len(Endpoints)) + 1]

\* A hold is lifted by an acceptable signal that is not too old.
Lifts(r, e) ==
  LET q == QuotaEntry(proc[r].copy, e) IN
  /\ Acceptable(q) = "yes"
  /\ FetchedAt(q) # None
  /\ now - FetchedAt(q) <= TTL
  /\ Held(proc[r].holds[ProviderOf[e]])

Verdict(r, e) ==
  IF e \notin Bound THEN "unbound"
  ELSE IF Held(proc[r].holds[ProviderOf[e]]) /\ ~Lifts(r, e) THEN "held"
  ELSE CASE Acceptable(QuotaEntry(proc[r].copy, e)) = "no"    -> "pressured"
         [] Acceptable(QuotaEntry(proc[r].copy, e)) = "stale" -> "stale"
         [] OTHER -> "clean"

-----------------------------------------------------------------------------
\* The walk

Walking(r, why) == [Idle EXCEPT !.pc = "walk", !.why = why, !.began = now,
                                !.holds = hold, !.copy = cache, !.marked = marker]

\* A spawn request: state and cache are read once, without a lock.
Begin(r) == /\ proc[r].pc = "idle"
            /\ child = "none"
            /\ proc' = [proc EXCEPT ![r] = Walking(r, "spawn")]
            /\ UNCHANGED <<now, drained, hold, cache, marker, resolved, child>>

Next1(r) == Visit(Len(proc[r].verdict) + 1)

\* Mistake: the walk stops before the last endpoint.
OverEarly(r) == \/ Len(proc[r].verdict) = Len(Endpoints) - 1
                \/ "clean" \in ToSet(proc[r].verdict)

Over(r)  == \/ Len(proc[r].verdict) = Len(Endpoints)
            \/ "clean" \in ToSet(proc[r].verdict)

\* What upstream says of the accounts of the names in S, asked now: the reset of
\* a pressured window, or 0; the others were not asked or did not answer.
Answers(S) ==
  [k \in Keys |-> IF k \notin S THEN None
                  ELSE IF drained[AccountOf(k)] > now THEN drained[AccountOf(k)] ELSE 0]

\* A stale signal: the probe starts from an unlocked read of the entry and
\* asks upstream; its answer is recorded only in the next step.
Probe(r) ==
  /\ proc[r].pc = "walk" /\ ~Over(r)
  /\ LET e == Next1(r) IN
     /\ ~proc[r].tried
     /\ Acceptable(QuotaEntry(proc[r].copy, e)) = "stale"
     /\ MayRefresh(proc[r].copy, e)
     /\ \E S \in SUBSET {e} :
          proc' = [proc EXCEPT ![r].pc = "write", ![r].keys = {e}, ![r].before = cache[e],
                               ![r].answer = Answers(S), ![r].stamp = now]
  /\ UNCHANGED <<now, drained, hold, cache, marker, resolved, child>>

\* `models sync`: the model lists and quotas of every target, no earlier entry.
Sync(r) ==
  /\ proc[r].pc = "idle"
  /\ \E S \in SUBSET Targets :
       proc' = [proc EXCEPT ![r] = [Idle EXCEPT !.pc = "write", !.why = "sync", !.keys = Targets,
                                                !.answer = Answers(S), !.stamp = now]]
  /\ UNCHANGED <<now, drained, hold, cache, marker, resolved, child>>

\* The entry that replaces `old`: a new snapshot, else the one read before the
\* probe, else the stored one.  Only a synchronisation fetches the model list.
Merged(r, k, old, fetched) ==
  LET p    == proc[r]
      past == IF HasQuota(p.before) THEN p.before ELSE old
  IN [tried  |-> p.stamp,
      listed |-> IF p.why = "sync" /\ fetched THEN p.stamp
                 ELSE IF p.before.listed # None THEN p.before.listed ELSE old.listed,
      at     |-> IF p.answer[k] # None THEN p.stamp ELSE past.at,
      reset  |-> IF p.answer[k] # None THEN p.answer[k] ELSE past.reset]

\* The locked update of models.json; a walk then reads the file again.
Write(r) ==
  /\ proc[r].pc = "write"
  /\ \E lists \in IF proc[r].why = "sync" THEN SUBSET Targets ELSE {{}} :
       cache' = [k \in Keys |-> IF k \in proc[r].keys THEN Merged(r, k, cache[k], k \in lists)
                                ELSE cache[k]]
  /\ proc' = [proc EXCEPT ![r] = IF @.why = "sync" THEN Idle
                                 ELSE [@ EXCEPT !.pc = "walk", !.tried = TRUE, !.copy = cache',
                                                !.keys = {}, !.before = NoEntry,
                                                !.answer = [k \in Keys |-> None], !.stamp = 0]]
  /\ UNCHANGED <<now, drained, hold, marker, resolved, child>>

\* One endpoint is judged; the hold of its provider is lifted in state.json
\* and in the copy when the signal allows it.
Judge(r) ==
  /\ proc[r].pc = "walk" /\ ~Over(r)
  /\ LET e == Next1(r)  p == ProviderOf[e] IN
     /\ \/ proc[r].tried
        \/ Acceptable(QuotaEntry(proc[r].copy, e)) # "stale"
        \/ ~MayRefresh(proc[r].copy, e)
     /\ hold' = IF Lifts(r, e) THEN [hold EXCEPT ![p] = NoHold] ELSE hold
     /\ proc' = [proc EXCEPT ![r].holds[p] = IF Lifts(r, e) THEN NoHold ELSE @,
                             ![r].verdict = Append(@, Verdict(r, e)),
                             ![r].tried = FALSE]
  /\ UNCHANGED <<now, drained, cache, marker, resolved, child>>

\* Positions of the walk with a given verdict.
At(v, word) == {n \in DOMAIN v : v[n] = word}

Chosen(v) == IF At(v, "clean") # {} THEN Visit(Min(At(v, "clean")))
             ELSE IF At(v, "stale") # {} THEN Visit(Min(At(v, "stale")))
             ELSE "none"

\* A spawn records its resolution and starts the child where it was bound, or on
\* the declared default when the walk bound it nowhere; the search for a reserve
\* goes on to mark the stage when it found another provider.
Conclude(r) ==
  /\ proc[r].pc = "walk" /\ Over(r)
  /\ LET e == Chosen(proc[r].verdict)
         p == IF e = "none" THEN "none" ELSE ProviderOf[e]
     IN /\ proc' = [proc EXCEPT ![r] =
                      IF proc[r].why = "failover" /\ p \notin {"none", proc[r].from}
                      THEN [Idle EXCEPT !.pc = "mark", !.from = proc[r].from,
                                        !.until = proc[r].until, !.choice = e]
                      ELSE Idle]
        /\ resolved' = IF proc[r].why = "spawn" THEN p ELSE resolved
        /\ child' = IF proc[r].why # "spawn" \/ child # "none" THEN child
                     ELSE IF p = "none" THEN Primary ELSE p
  /\ UNCHANGED <<now, drained, hold, cache, marker>>

\* Outside the pipeline in static mode, and where the gate is lifted, a spawn is
\* allowed without a walk and nothing is recorded.
SpawnUnwalked == /\ child = "none"
                 /\ child' = Primary
                 /\ UNCHANGED <<now, drained, hold, cache, marker, resolved, proc>>

-----------------------------------------------------------------------------
\* Refusals

\* The provider a failed child is charged to: the model id its session recorded,
\* or, with the ambiguous default id, the decision's last resolution, if it chose
\* any, else the default.
Blamed(exact) == IF exact THEN child ELSE IF resolved # "none" THEN resolved ELSE Primary

\* The earliest announced reset of a pressured window, within the horizon.
Resets(p) ==
    {cache[k].reset : k \in {j \in Keys : AccountOf(j) = p /\ HasQuota(cache[j])}} \ {0}
Deadline(p) ==
  LET ds == {d \in Resets(p) : now < d /\ d <= now + Horizon}
  IN IF ds = {} THEN now + Cooldown ELSE Min(ds)

\* A child refused with a 429 holds its provider.  The stage's first refusal
\* starts the search for a reserve, a refusal of the reserve renews the marker.
Refused(r) ==
  /\ proc[r].pc = "idle" /\ child # "none" /\ drained[child] > now
  /\ \E exact \in BOOLEAN :
       LET p == Blamed(exact)
           h == [until |-> Deadline(p), since |-> now]
           w == [Walking(r, "failover") EXCEPT !.holds[p] = h, !.from = p, !.until = h.until]
       IN /\ hold' = [hold EXCEPT ![p] = h]
          /\ proc' = [proc EXCEPT ![r] = IF marker = NoMarker THEN w
                                         ELSE IF marker.to = p THEN [w EXCEPT !.pc = "renew"]
                                         ELSE Idle]
  /\ child' = "none"
  /\ UNCHANGED <<now, drained, cache, marker, resolved>>

\* Mistake: the count is not looked at again under the lock.
MarkUnchecked(r) ==
  /\ proc[r].pc = "mark"
  /\ marker' = [from |-> proc[r].from, to |-> ProviderOf[proc[r].choice], until |-> proc[r].until]
  /\ proc' = [proc EXCEPT ![r] = Idle]
  /\ UNCHANGED <<now, drained, hold, cache, resolved, child>>

\* The reserve is recorded once: the count is looked at again under the lock.
Mark(r) ==
  /\ proc[r].pc = "mark"
  /\ marker' = IF marker = NoMarker
               THEN [from |-> proc[r].from, to |-> ProviderOf[proc[r].choice],
                      until |-> proc[r].until]
               ELSE marker
  /\ proc' = [proc EXCEPT ![r] = Idle]
  /\ UNCHANGED <<now, drained, hold, cache, resolved, child>>

\* The renewed deadline, on the endpoints the stale copy names.
Renew(r) ==
  /\ proc[r].pc = "renew"
  /\ marker' = IF marker = NoMarker THEN marker
               ELSE [proc[r].marked EXCEPT !.until = proc[r].until]
  /\ proc' = [proc EXCEPT ![r] = Idle]
  /\ UNCHANGED <<now, drained, hold, cache, resolved, child>>

-----------------------------------------------------------------------------
\* The operator and the upstream accounts

OperatorHolds(p) == /\ hold' = [hold EXCEPT ![p] = [until |-> MaxNow + 1, since |-> now]]
                    /\ UNCHANGED <<now, drained, cache, marker, resolved, child, proc>>
OperatorClears(p) == /\ hold[p] # NoHold
                     /\ hold' = [hold EXCEPT ![p] = NoHold]
                     /\ UNCHANGED <<now, drained, cache, marker, resolved, child, proc>>

Drains(p) == /\ drained[p] <= now
             /\ \E t \in (now + 1)..(MaxNow + 1) : drained' = [drained EXCEPT ![p] = t]
             /\ UNCHANGED <<now, hold, cache, marker, resolved, child, proc>>
Succeeds == /\ child # "none" /\ drained[child] <= now
            /\ child' = "none"
            /\ UNCHANGED <<now, drained, hold, cache, marker, resolved, proc>>
Tick == /\ now < MaxNow
        /\ now' = now + 1
        /\ UNCHANGED <<drained, hold, cache, marker, resolved, child, proc>>

Routes(r)   == \/ Begin(r) \/ Probe(r) \/ Write(r) \/ Judge(r)
               \/ Conclude(r) \/ Refused(r) \/ Mark(r) \/ Renew(r)
Syncs(r)    == Sync(r) \/ Write(r)
Operates(p) == OperatorHolds(p) \/ OperatorClears(p)
Upstream    == (\E p \in Providers : Drains(p)) \/ Succeeds \/ Tick

AvailNext == \/ \E r \in Routers : Routes(r)
             \/ \E r \in Syncers : Syncs(r)
             \/ \E p \in Operated : Operates(p)
             \/ SpawnUnwalked
             \/ Upstream

AvailSpec == AvailInit /\ [][AvailNext]_availVars

-----------------------------------------------------------------------------
(* A stage gets one reserve: once marked, no later refusal, whatever two      *)
(* processes saw in their copies, names another pair of providers             *)
(* (_reactive_failover looks at the count again under the lock).              *)
OneReserve == [][marker # NoMarker => /\ marker'.from = marker.from
                                      /\ marker'.to = marker.to]_availVars

(* A walk that found an endpoint never starts its child on a provider under a *)
(* hold that is older than the request and still in force: neither the        *)
(* fallback to a stale signal nor a lift by another process makes it forget   *)
(* (_model_endpoint_availability, set_provider_unavailable).                  *)
HeldProvidersRest ==
  [][\A r \in Procs, p \in Providers :
       /\ proc[r].pc = "walk" /\ proc'[r] = Idle
       /\ {"clean", "stale"} \cap ToSet(proc[r].verdict) # {}
       /\ hold[p].since < proc[r].began /\ Held(hold[p])
       => ~(child = "none" /\ child' = p)]_availVars

(* A child is left on its declared default, which may be held, only when       *)
(* every endpoint was looked at and none was clean or merely had an old        *)
(* signal; an old signal is used only when every endpoint was looked at and    *)
(* none was clean.  Each is visited once, whatever index the walk starts at,   *)
(* and the recorded resolution, which a refusal is later charged to, names     *)
(* where the child was bound (_fresh_spawn_binding).                           *)
BoundOnEvidence ==
  [][\A r \in Procs :
       /\ proc[r].pc = "walk" /\ proc[r].why = "spawn" /\ child = "none"
       /\ proc'[r].pc \notin {"walk", "write"}
       => LET v == proc[r].verdict
              found(word) == {ProviderOf[Visit(n)] : n \in {m \in DOMAIN v : v[m] = word}}
          IN \/ child' \in found("clean") /\ resolved' = child'
             \/ /\ {Visit(n) : n \in DOMAIN v} = Ends
                /\ found("clean") = {}
                /\ \/ child' \in found("stale") /\ resolved' = child'
                   \/ found("stale") = {} /\ child' = Primary /\ resolved' = "none"]_availVars

(* Every child is placed on the best evidence the walk could have.             *)
SpawnsWellPlaced == HeldProvidersRest /\ BoundOnEvidence
=============================================================================

----------------------------- MODULE RouteCache -----------------------------
(***************************************************************************)
(* The route-decision cache of grokbuild/cache.py.  cache_put is one       *)
(* action because it is a transaction on the file; cache_get reads one     *)
(* version of the file, which is replaced atomically, so a lookup is a     *)
(* question asked of a state.  A key stands for a session, a turn and a    *)
(* prompt; a record is the number of the put that stored it.               *)
(***************************************************************************)
EXTENDS Naturals, FiniteSets, FiniteSetsExt

CONSTANTS
    Keys,       \* the cache keys that are asked for
    Sessions,
    NoSession,  \* a hook event without a session id
    SessionOf,  \* the session each key names
    MaxEntries, \* MAX_ENTRIES
    DefaultTTL, \* DEFAULT_TTL
    TTLs,       \* the lifetimes callers pass
    MaxTime,    \* bound of the clock
    MaxPuts,    \* bound: records stored
    Nothing

ASSUME CacheAssumption ==
    /\ SessionOf \in [Keys -> Sessions \cup {NoSession}]
    /\ MaxEntries \in Nat \ {0} /\ DefaultTTL \in Nat /\ TTLs \subseteq Nat
    /\ MaxTime \in Nat /\ MaxPuts \in Nat
    /\ Nothing \notin Keys

VARIABLES
    clock,
    entries, \* "entries": a function from keys to their entries
    top,     \* the newest record, flattened onto the top level of the file
    puts     \* how many records were stored

routeCacheVars == <<clock, entries, top, puts>>

Live == {k \in DOMAIN entries : clock - entries[k].since <= entries[k].life}

\* Mistake: the oldest entries are kept.
EvictedYoungest ==
    {kept \in SUBSET Live :
        /\ Cardinality(kept) = Min({MaxEntries, Cardinality(Live)})
        /\ \A x \in Live \ kept, y \in kept : entries[x].since >= entries[y].since}

\* _evict: the newest MAX_ENTRIES live entries; any of those stored at one time
Evicted ==
    {kept \in SUBSET Live :
        /\ Cardinality(kept) = Min({MaxEntries, Cardinality(Live)})
        /\ \A x \in Live \ kept, y \in kept : entries[x].since <= entries[y].since}

RouteCacheInit ==
    /\ clock = 0 /\ puts = 0
    /\ entries = [k \in {} |-> {}]
    /\ top = Nothing

CachePut(k, life) ==
    /\ puts < MaxPuts
    /\ \E kept \in Evicted :
         entries' = [x \in kept \cup {k} |->
                       IF x = k THEN [value |-> puts, since |-> clock, life |-> life]
                       ELSE entries[x]]
    /\ top' = [key |-> k, value |-> puts, since |-> clock]
    /\ puts' = puts + 1
    /\ UNCHANGED clock

Tick == clock < MaxTime /\ clock' = clock + 1 /\ UNCHANGED <<entries, top, puts>>

Exhausted == clock = MaxTime /\ puts = MaxPuts /\ UNCHANGED routeCacheVars

RouteCacheNext == Tick \/ (\E k \in Keys, life \in TTLs : CachePut(k, life)) \/ Exhausted

RouteCacheSpec == RouteCacheInit /\ [][RouteCacheNext]_routeCacheVars

-----------------------------------------------------------------------------
(* Lookups *)

\* cache_get with a prompt key
CacheGet(k) == IF k \in Live THEN entries[k].value ELSE Nothing

\* cache_get without one: the newest record, if it is of this session or of none
LastRoute(s) ==
    IF top # Nothing /\ SessionOf[top.key] \in {NoSession, s} /\ clock - top.since <= DefaultTTL
    THEN top ELSE Nothing

-----------------------------------------------------------------------------
(* Properties *)

\* The cache is a bounded map that forgets only what has expired or is older
\* than all that it keeps.  It holds up to MAX_ENTRIES + 1 entries, because
\* cache_put makes room before it adds its own.
Routes == INSTANCE BoundedCache WITH
    held <- entries, Values <- 0..(MaxPuts - 1), Lifetimes <- TTLs,
    Capacity <- MaxEntries + 1, Floor <- MaxEntries

RoutesBounded == Routes!Spec

\* The two ways of asking agree: a lookup without a prompt gives the newest record
\* of all or nothing, never an older one of the session, and while it does, the
\* record's own key gives the same or, when it was given a shorter life, nothing.
\* What one session is given another is given only when no session is named on it
\* (cache.py:127), whoever stored it.
LookupsAgree ==
    \A s, q \in Sessions \cup {NoSession} :
        LET last == LastRoute(s)
        IN  last # Nothing =>
              /\ last.value = puts - 1
              /\ CacheGet(last.key) \in {last.value, Nothing}
              /\ LastRoute(q) # Nothing => s = q \/ SessionOf[last.key] = NoSession

\* The routes that are kept are the youngest that live, and both lookups serve them.
RoutesServed == RoutesBounded /\ []LookupsAgree
=============================================================================

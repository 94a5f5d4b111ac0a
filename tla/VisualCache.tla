---------------------------- MODULE VisualCache ----------------------------
(***************************************************************************)
(* The cache of validated visual results (grokbuild/visual_cache.py).      *)
(* Unlike the route cache it adds the new entry first and then evicts the  *)
(* oldest, and it has a version: a file of another version is read as      *)
(* empty and replaced by the next put.                                     *)
(***************************************************************************)
EXTENDS Naturals, FiniteSets, FiniteSetsExt

CONSTANTS
    VisualKeys, \* content hash, schema, options and binding of a request
    Values,     \* validated results
    MaxVisuals, \* MAX_ENTRIES
    TTL,
    Procs,      \* processes that store results
    VisualTime, \* bound of the clock
    NoVisual

ASSUME VisualAssumption ==
    /\ MaxVisuals \in Nat \ {0} /\ TTL \in Nat /\ VisualTime \in Nat
    /\ NoVisual \notin Nat

VARIABLES
    visualClock,
    visuals, \* a function from keys to [value, since, life]
    current, \* the file is of CACHE_VERSION
    stamp    \* when each process that is about to store looked at the clock

visualVars == <<visualClock, visuals, current, stamp>>

Empty == [k \in {} |-> {}]

Entry(v, at) == [value |-> v, since |-> at, life |-> TTL]

\* _valid_root
Root == IF current THEN visuals ELSE Empty

Fresh(at) == {k \in DOMAIN Root : at <= Root[k].since + TTL}

VisualInit ==
    /\ visualClock = 0
    /\ \/ visuals = Empty /\ current \in BOOLEAN
       \/ \E k \in VisualKeys, v \in Values :
            visuals = [x \in {k} |-> Entry(v, 0)] /\ current = FALSE
    /\ stamp = [p \in Procs |-> NoVisual]

\* visual_cache_put looks at the clock before it waits for the lock.
Stamp(p) ==
    /\ stamp[p] = NoVisual
    /\ stamp' = [stamp EXCEPT ![p] = visualClock]
    /\ UNCHANGED <<visualClock, visuals, current>>

\* Mistake: eviction makes room for the new entry whether it needs it or not.
KeptFewer(offered) ==
    {kept \in SUBSET DOMAIN offered :
        /\ Cardinality(kept) = Min({MaxVisuals - 1, Cardinality(DOMAIN offered)})
        /\ \A x \in DOMAIN offered \ kept, y \in kept : offered[x].since <= offered[y].since}

\* The newest MAX_ENTRIES; of those made at one time, any.
Kept(offered) ==
    {kept \in SUBSET DOMAIN offered :
        /\ Cardinality(kept) = Min({MaxVisuals, Cardinality(DOMAIN offered)})
        /\ \A x \in DOMAIN offered \ kept, y \in kept : offered[x].since <= offered[y].since}

\* The rest of visual_cache_put, under the lock
VisualCachePut(p, k, v) ==
    /\ stamp[p] # NoVisual
    /\ LET offered == [x \in Fresh(stamp[p]) \cup {k} |->
                          IF x = k THEN Entry(v, stamp[p]) ELSE Root[x]]
       IN  \E kept \in Kept(offered) : visuals' = [x \in kept |-> offered[x]]
    /\ current' = TRUE
    /\ stamp' = [stamp EXCEPT ![p] = NoVisual]
    /\ UNCHANGED visualClock

VisualCacheClear ==
    /\ visuals' = Empty /\ current' = TRUE
    /\ UNCHANGED <<visualClock, stamp>>

VisualTick ==
    /\ visualClock < VisualTime
    /\ visualClock' = visualClock + 1
    /\ UNCHANGED <<visuals, current, stamp>>

VisualNext == \/ VisualTick \/ VisualCacheClear
              \/ \E p \in Procs :
                    Stamp(p) \/ \E k \in VisualKeys, v \in Values : VisualCachePut(p, k, v)

VisualSpec == VisualInit /\ [][VisualNext]_visualVars

-----------------------------------------------------------------------------
(* Properties *)

\* What the cache holds for its readers is a map bounded by MAX_ENTRIES that
\* forgets only what has expired or is no younger than all that it keeps,
\* although puts reach the file in another order than they were stamped.
Visuals == INSTANCE BoundedCache WITH
    Keys <- VisualKeys, clock <- visualClock, held <- Root,
    Lifetimes <- {TTL}, Capacity <- MaxVisuals, Floor <- MaxVisuals

VisualsBounded == Visuals!Spec
=============================================================================

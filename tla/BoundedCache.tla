---------------------------- MODULE BoundedCache ----------------------------
(***************************************************************************)
(* What the caches of the router promise: a bounded map that forgets an    *)
(* entry only when it has expired or when the map is full of younger ones. *)
(* RouteCache.tla and VisualCache.tla implement it.                        *)
(***************************************************************************)
EXTENDS Naturals, FiniteSets

CONSTANTS
    Keys, Values,
    Lifetimes, \* the lifetimes an entry may be given
    Capacity,  \* the map never holds more entries
    Floor      \* nothing alive is forgotten while it holds fewer

VARIABLES
    clock,
    held       \* a function from the keys that are held to their entries

cacheVars == <<clock, held>>

Alive == {k \in DOMAIN held : clock - held[k].since <= held[k].life}

Init == clock = 0 /\ held = [k \in {} |-> {}]

Tick == clock' > clock /\ UNCHANGED held

\* An entry is stored with the time "at" which it was made, now or earlier.
\* What is forgotten though it is alive is no younger than anything kept; that
\* may be the new entry itself, when it was made before all others.
Put(k, v, life, at) ==
    LET offered == [x \in DOMAIN held \cup {k} |->
                      IF x = k THEN [value |-> v, since |-> at, life |-> life] ELSE held[x]]
    IN  \E kept \in SUBSET DOMAIN offered :
        LET forgotten == (Alive \cup {k}) \ kept
        IN  /\ held' = [x \in kept |-> offered[x]]
            /\ Cardinality(kept) <= Capacity
            /\ forgotten # {} => Cardinality(kept) >= Floor
            /\ \A x \in forgotten, y \in kept : offered[x].since <= offered[y].since
            /\ UNCHANGED clock

Clear == held' = [k \in {} |-> {}] /\ UNCHANGED clock

\* A put that leaves the map as it was is no step.
Next == \/ Tick
        \/ /\ held' # held
           /\ \E k \in Keys, v \in Values, life \in Lifetimes, at \in 0..clock :
                Put(k, v, life, at)
        \/ Clear

Spec == Init /\ [][Next]_cacheVars
=============================================================================

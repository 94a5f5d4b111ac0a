--------------------------- MODULE StateRegister ---------------------------
(***************************************************************************)
(* What the state file promises the rest of the program: a register of     *)
(* updates.  An update adds itself to what is there, a replay replaces     *)
(* what is there, and only damage from outside loses anything else.        *)
(* StateStore.tla shows that persist.py and load_state implement it.       *)
(***************************************************************************)
EXTENDS Naturals

CONSTANTS
    Updaters,   \* processes that add an update
    Replayers   \* processes that replace the whole state

VARIABLES
    content,    \* the updates the register holds
    intact,     \* FALSE while the register cannot be read
    everApplied \* the updates that were ever in it

registerVars == <<content, intact, everApplied>>

Init == content = {} /\ intact \in BOOLEAN /\ everApplied = {}

Apply(u) ==
    /\ intact
    /\ content' = content \cup {u}
    /\ everApplied' = everApplied \cup {u}
    /\ UNCHANGED intact

Replay(u) ==
    /\ content' = {u}
    /\ intact' = TRUE
    /\ everApplied' = everApplied \cup {u}

\* The register becomes unreadable; what a reader saw before is forgotten.
Damage == intact' = FALSE /\ content' = {} /\ UNCHANGED everApplied

\* After damage the register is empty or holds what somebody still remembered,
\* perhaps together with the update of the one who makes it readable again.
Restore ==
    /\ ~intact
    /\ intact' = TRUE
    /\ content' \in SUBSET everApplied
    /\ UNCHANGED everApplied

Recover(u) ==
    /\ ~intact
    /\ intact' = TRUE
    /\ \E remembered \in SUBSET everApplied : content' = remembered \cup {u}
    /\ everApplied' = everApplied \cup {u}

Next == \/ \E u \in Updaters : Apply(u) \/ Recover(u)
        \/ \E u \in Replayers : Replay(u)
        \/ Damage
        \/ Restore

Spec == Init /\ [][Next]_registerVars
=============================================================================

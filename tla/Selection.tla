------------------------------ MODULE Selection ------------------------------
(* Choosing among candidate artifacts: the deterministic gate                *)
(* (deterministic_gate.py), the pairwise judge (artifact_judge.py) and the    *)
(* three selectors that walk a field of candidates (selector.py).             *)
(*                                                                            *)
(* A candidate is a record                                                    *)
(*   hard   the outcome of each hard requirement, in contract order, one of   *)
(*          "true", "false", "absent";                                        *)
(*   extra  the statuses of its additional gate checks;                       *)
(*   art    its artifacts: a number, the rank of their content hash (0: none);*)
(*   found  where an identity term or a forbidden name occurs in what it      *)
(*          carries: "label", "evidence_ref", "artifact", "artifact_name",      *)
(*          "metadata", "fact", "trace", or "late_trace" past the trace limit.  *)
(* The judges are outside the code: every read is an arbitrary opinion.       *)
EXTENDS Integers, FiniteSets, Sequences, SequencesExt

CONSTANTS
    Field,          \* the candidates' labels, in the order they are given
    Candidacies,    \* what may stand behind the labels: a set of functions on them
    SelectionModes, \* the selectors used, of {"select", "pairs", "v2"}
    Confidences,    \* the confidences a judge may report, in tenths
    ExtraReads,     \* extra_reads_max
    Margin,         \* abstain_margin, in tenths
    Overturn        \* CONSENSUS_OVERTURN_CONFIDENCE, in tenths

ASSUME SelectionAssumption ==
    /\ Field # <<>> /\ ToSet(Field) \subseteq Nat \ {0}
    /\ \A i, j \in DOMAIN Field : Field[i] = Field[j] => i = j
    /\ SelectionModes \subseteq {"select", "pairs", "v2"}
    /\ ExtraReads \in 0..3 /\ Margin \in 0..10 /\ Overturn \in 0..10

Labels == ToSet(Field)
Nobody == 0         \* no label; as an opinion: the judge abstains
Standing(l) == CHOOSE i \in DOMAIN Field : Field[i] = l

VARIABLES
    cand,       \* the candidate behind each label
    mode,       \* which selector runs
    pc,         \* "gate", "judging", "done"
    walk,       \* what the loop goes over: survivors, or cluster representatives
    next,       \* the position of the challenger in walk
    leader,     \* the loop's leader
    reads,      \* the opinions collected about leader and challenger
    wins,       \* the comparisons that were decided so far
    selected,   \* Selection.selected, or Nobody
    reason      \* why the selection stopped

selectionVars == <<cand, mode, pc, walk, next, leader, reads, wins, selected, reason>>

-----------------------------------------------------------------------------
(* The deterministic gate. *)

legacy_checks(c) ==
    {CASE c.hard[r] = "true" -> "PASS" [] c.hard[r] = "false" -> "FAIL"
       [] OTHER -> "UNKNOWN" : r \in DOMAIN c.hard}


decide_candidate(c) ==
    LET checks == legacy_checks(c) \cup c.extra
    IN  CASE "FAIL" \in checks -> "FAIL"
          [] checks = {} \/ "UNKNOWN" \in checks -> "UNKNOWN"
          [] OTHER -> "PASS"

Having(ls, status) == {l \in ls : decide_candidate(cand[l]) = status}

decide_gate(ls) ==
    CASE Having(ls, "UNKNOWN") # {} -> "abstain"
      [] Having(ls, "PASS") = {} -> "reject_all"
      [] Cardinality(Having(ls, "PASS")) = 1 -> "select_survivor"
      [] OTHER -> "proceed"

(* The first hard requirement that separates the pair names the winner. *)
hard_precedence(a, b) ==
    LET separates == {r \in DOMAIN cand[a].hard :
                        (cand[a].hard[r] = "true") # (cand[b].hard[r] = "true")}
    IN  IF separates = {} THEN Nobody
        ELSE LET r == CHOOSE r \in separates : \A s \in separates : r <= s
             IN  IF cand[a].hard[r] = "true" THEN a ELSE b

-----------------------------------------------------------------------------
(* Judging one ordered pair. An opinion says which of the two was shown       *)
(* first, which it prefers, how sure it is, and which invocation gave it.     *)

Votes(rs, l) == Cardinality({i \in DOMAIN rs : rs[i].prefers = l})
Abstained(rs) == \E i \in DOMAIN rs : rs[i].prefers = Nobody
Base(rs) == SubSeq(rs, 1, IF Len(rs) < 2 THEN Len(rs) ELSE 2)
MaxReads == 2 + ExtraReads

BothOrders(a, b, rs) == {rs[i].first : i \in DOMAIN rs} = {a, b}
Independent(rs) == \A i, j \in DOMAIN rs : rs[i].id = rs[j].id => i = j

_opinions_valid(a, b, rs) ==
    Len(Base(rs)) = 2 /\ BothOrders(a, b, Base(rs)) /\ Independent(rs)

aggregate_opinions(a, b, opinions) ==
    LET rs == SubSeq(opinions, 1, IF Len(opinions) < MaxReads THEN Len(opinions) ELSE MaxReads)
        ca == Votes(rs, a)
        cb == Votes(rs, b)
        gap == IF ca > cb THEN ca - cb ELSE cb - ca
    IN  IF \/ ~_opinions_valid(a, b, rs)
           \/ Abstained(Base(rs))
           \/ ca + cb = 0
           \/ 10 * gap <= Margin * (ca + cb)
        THEN "ABSTAIN"
        ELSE IF ca > cb THEN "A" ELSE "B"

(* The stricter fold of the same opinions: every reader must agree. *)
fold_opinions(a, b, rs) ==
    IF \/ rs = <<>>
       \/ Abstained(rs)
       \/ ~BothOrders(a, b, rs)
       \/ Cardinality({rs[i].prefers : i \in DOMAIN rs}) # 1
    THEN "ABSTAIN"
    ELSE IF rs[1].prefers = a THEN "A" ELSE "B"

(* The judge-visible bundle: an artifact with a forbidden name is dropped, the *)
(* traces past the limit are cut before they are probed, and whatever else is  *)
(* found is reported, never scrubbed.                                          *)
sanitize(c) ==
    [artifacts |-> c.art # 0 /\ "artifact_name" \notin c.found,
     leaks     |-> c.found \ {"late_trace"}]

(* compare: the gate, then the leak and artifact checks, then the opinions. *)
compare(a, b, rs) ==
    LET gate == decide_gate({a, b})
        bundle == [l \in {a, b} |-> sanitize(cand[l])]
        leaking == \E l \in {a, b} : bundle[l].leaks # {}
        empty == \A l \in {a, b} : ~bundle[l].artifacts
    IN  CASE gate = "reject_all" -> "reject_all"
          [] gate = "abstain" -> "needs_discriminating_test"
          [] gate = "select_survivor" -> IF a \in Having({a, b}, "PASS") THEN "a" ELSE "b"
          [] gate = "proceed" /\ (leaking \/ empty) -> "unjudgeable"
          [] OTHER -> LET f == aggregate_opinions(a, b, rs)
                      IN  IF f = "A" THEN "a" ELSE IF f = "B" THEN "b"
                          ELSE "needs_discriminating_test"

-----------------------------------------------------------------------------
(* Clusters of equal artifacts: the survivors all meet the hard requirements, *)
(* so their artifacts alone tell them apart.                                  *)
Survivors == Having(Labels, "PASS")
Cluster(l) == {m \in Survivors : cand[m].art = cand[l].art}
Support(l) == Cardinality(Cluster(l))
Representatives ==
    {l \in Survivors : \A m \in Cluster(l) : Standing(l) <= Standing(m)}

cluster_artifacts ==
    SetToSortSeq(Representatives, LAMBDA l, m :
        \/ Support(l) > Support(m)
        \/ Support(l) = Support(m) /\ cand[l].art < cand[m].art)

-----------------------------------------------------------------------------
SelectionInit ==
    /\ cand \in Candidacies
    /\ mode \in SelectionModes
    /\ pc = "gate"
    /\ walk = <<>> /\ next = 2 /\ leader = Nobody
    /\ reads = <<>> /\ wins = {}
    /\ selected = Nobody /\ reason = ""

Done(winner, why) ==
    /\ pc' = "done"
    /\ selected' = winner
    /\ reason' = why

(* What every selector does first: the gate over the whole field. *)
Unsettled ==
    /\ pc = "gate"
    /\ Having(Labels, "UNKNOWN") # {} \/ Survivors = {}
    /\ Done(Nobody, IF Having(Labels, "UNKNOWN") # {} THEN "unknown" ELSE "all_failed")
    /\ UNCHANGED <<cand, mode, walk, next, leader, reads, wins>>

(* One survivor, or in select_v2 one cluster of uniquely maximal support. *)
Unopposed ==
    /\ pc = "gate" /\ Having(Labels, "UNKNOWN") = {} /\ Survivors # {}
    /\ LET ordered == cluster_artifacts
       IN  IF mode = "v2"
           THEN /\ Len(ordered) > 1 => Support(ordered[1]) > Support(ordered[2])
                /\ Done(ordered[1], "consensus")
           ELSE /\ Cardinality(Survivors) = 1
                /\ Done(CHOOSE l \in Survivors : TRUE, "only_survivor")
    /\ UNCHANGED <<cand, mode, walk, next, leader, reads, wins>>

Enter ==
    /\ pc = "gate" /\ Having(Labels, "UNKNOWN") = {} /\ Survivors # {}
    /\ walk' = IF mode = "v2" THEN cluster_artifacts
               ELSE SelectSeq(Field, LAMBDA l : l \in Survivors)
    /\ Len(walk') > 1
    /\ mode = "v2" => Support(walk'[1]) = Support(walk'[2])
    /\ leader' = walk'[1]
    /\ pc' = "judging"
    /\ UNCHANGED <<cand, mode, next, reads, wins, selected, reason>>

Challenger == walk[next]

(* A judge answers. A read delivered twice carries the same invocation id.    *)
Read ==
    /\ pc = "judging"
    /\ Len(reads) < (IF mode = "v2" THEN 2 ELSE MaxReads)
    /\ \/ \E f \in {leader, Challenger}, p \in {leader, Challenger, Nobody},
             c \in Confidences :
            /\ mode = "v2" => f = (IF reads = <<>> THEN leader ELSE Challenger)
            /\ reads' = Append(reads, [first |-> f, prefers |-> p, confidence |-> c,
                                       id |-> Len(reads) + 1])
       \/ /\ mode # "v2"
          /\ \E i \in DOMAIN reads : reads' = Append(reads, reads[i])
    /\ UNCHANGED <<cand, mode, pc, walk, next, leader, wins, selected, reason>>

(* Both orders of select_v2 must name the same representative. *)
_ordered_preference(rs) ==
    IF Len(rs) = 2 /\ rs[1].prefers = rs[2].prefers /\ rs[1].prefers # Nobody
    THEN rs[1].prefers ELSE Nobody

LeastConfidence(rs) ==
    LET cs == {rs[i].confidence : i \in {k \in DOMAIN rs : rs[k].prefers # Nobody}}
    IN  CHOOSE c \in cs : \A d \in cs : c <= d

Preferred ==
    IF mode = "v2" THEN _ordered_preference(reads)
    ELSE LET v == IF mode = "select" THEN compare(leader, Challenger, reads)
                  ELSE aggregate_opinions(leader, Challenger, reads)
         IN  IF v \in {"a", "A"} THEN leader ELSE IF v \in {"b", "B"} THEN Challenger ELSE Nobody

(* a pair of reads, each of which named the candidate shown in one position *)
OnePosition(rs) ==
    LET said == {i \in DOMAIN rs : rs[i].prefers # Nobody}
    IN  /\ Len(rs) = 2
        /\ \/ \A i \in said : rs[i].prefers = rs[i].first
           \/ \A i \in said : rs[i].prefers # rs[i].first

(* select_v2: a smaller cluster needs confidence to displace a larger one. *)
Overturned(w) ==
    /\ mode = "v2"
    /\ Support(w) < Support(IF w = leader THEN Challenger ELSE leader)
    /\ LeastConfidence(reads) < Overturn

Judgeable == IF Preferred = Nobody THEN FALSE ELSE ~Overturned(Preferred)

(* Mistake: the winner does not become the leader. *)
JudgedKeepsLeader ==
    /\ pc = "judging"
    /\ mode = "v2" => Len(reads) = 2
    /\ Judgeable
    /\ wins' = wins \cup {[winner |-> Preferred,
                           loser |-> IF Preferred = leader THEN Challenger ELSE leader,
                           least |-> LeastConfidence(reads), position |-> OnePosition(reads)]}
    /\ reads' = <<>>
    /\ IF next = Len(walk)
       THEN Done(leader, "judged") /\ next' = next
       ELSE next' = next + 1 /\ UNCHANGED <<pc, selected, reason>>
    /\ UNCHANGED <<cand, mode, walk, leader>>

Judged ==
    /\ pc = "judging"
    /\ mode = "v2" => Len(reads) = 2
    /\ Judgeable
    /\ wins' = wins \cup {[winner |-> Preferred,
                           loser |-> IF Preferred = leader THEN Challenger ELSE leader,
                           least |-> LeastConfidence(reads), position |-> OnePosition(reads)]}
    /\ leader' = Preferred
    /\ reads' = <<>>
    /\ IF next = Len(walk)
       THEN Done(Preferred, "judged") /\ next' = next
       ELSE next' = next + 1 /\ UNCHANGED <<pc, selected, reason>>
    /\ UNCHANGED <<cand, mode, walk>>

Inconclusive ==
    /\ pc = "judging"
    /\ mode = "v2" => Len(reads) = 2
    /\ ~Judgeable
    /\ Done(Nobody, "inconclusive")
    /\ UNCHANGED <<cand, mode, walk, next, leader, reads, wins>>

SelectionNext == Unsettled \/ Unopposed \/ Enter \/ Read \/ Judged \/ Inconclusive
SelectionSpec == SelectionInit /\ [][SelectionNext]_selectionVars

-----------------------------------------------------------------------------
(* Deterministic verification dominates: whatever the judges say, a selected   *)
(* candidate met every hard requirement and every gate check, and no candidate *)
(* of the field was still unknown when it was chosen.                          *)
HardEvidenceRules ==
    selected # Nobody =>
        /\ \A r \in DOMAIN cand[selected].hard : cand[selected].hard[r] = "true"
        /\ cand[selected].extra \subseteq {"PASS"}
        /\ \A l \in Labels : \/ "FAIL" \in cand[l].extra
                             \/ \E r \in DOMAIN cand[l].hard : cand[l].hard[r] = "false"
                             \/ /\ \A r \in DOMAIN cand[l].hard : cand[l].hard[r] = "true"
                                /\ "UNKNOWN" \notin cand[l].extra

(* The knock-out has one survivor: a candidate chosen after judging lost to     *)
(* nobody after it last took the lead, and every other candidate of the walk   *)
(* lost a decided comparison.                                                  *)
EveryRivalLost ==
    reason = "judged" =>
        /\ \A l \in ToSet(walk) \ {selected} : \E w \in wins : w.loser = l
        /\ \A w \in wins : w.loser # selected

(* Position bias never decides a pair of reads: when every answering judge     *)
(* chose by position, not by candidate, the comparison has no winner.  (With a  *)
(* reread it may have one.)                                                     *)
BiasNeverDecides == \A w \in wins : ~w.position

(* A preference all judges share in both orders is the aggregate's answer too: *)
(* the two ways of folding opinions never contradict each other.               *)
FoldAgrees ==
    (pc = "judging" /\ mode # "v2" /\ Independent(reads)
       /\ BothOrders(leader, Challenger, Base(reads))) =>
    LET fold == fold_opinions(leader, Challenger, reads)
        aggregate == aggregate_opinions(leader, Challenger, reads)
    IN  /\ fold # "ABSTAIN" => aggregate = fold
        /\ (Len(reads) = 2 /\ aggregate # "ABSTAIN") => fold = aggregate

(* Larger agreement stands: what select_v2 chooses has maximal support, or each *)
(* decided comparison that put a smaller cluster over a larger one was made    *)
(* with at least the overturn confidence by both orders.                       *)
ConsensusStands ==
    (mode = "v2" /\ selected # Nobody) =>
        \/ \A l \in Survivors : Support(l) <= Support(selected)
        \/ \E w \in wins : w.winner = selected /\ w.least >= Overturn
                             /\ Support(w.loser) > Support(selected)

(* The lexicographic rule and the gate agree on a pair the gate settles when no *)
(* gate check but the hard requirements separates it.                          *)
PrecedenceAgrees ==
    pc = "gate" => \A a, b \in Labels :
        (a # b /\ cand[a].extra \subseteq {"PASS"} /\ cand[b].extra \subseteq {"PASS"}
          /\ decide_gate({a, b}) = "select_survivor") =>
            Having({a, b}, "PASS") = {hard_precedence(a, b)}

(* An artifact in which identity leaks is never compared: no decided comparison *)
(* of the built-in judge has it on either side.                                *)
LeaksNeverJudged ==
    mode = "select" =>
        \A w \in wins : cand[w.winner].found \cup cand[w.loser].found \subseteq {"late_trace"}

(* The selected candidate is the one the evidence and the judges single out:    *)
(* evidence dominates, every rival lost, no bias of position decided, the two   *)
(* ways of counting votes and of ranking evidence agree, a consensus was not    *)
(* overturned lightly, and nothing that leaks identity was compared.            *)
SelectionSound ==
    /\ HardEvidenceRules
    /\ EveryRivalLost
    /\ BiasNeverDecides
    /\ FoldAgrees
    /\ ConsensusStands
    /\ PrecedenceAgrees
    /\ LeaksNeverJudged
=============================================================================

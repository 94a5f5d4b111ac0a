----------------------------- MODULE MCRouting -----------------------------
(***************************************************************************)
(* Small instances of what chooses a worker: Routing.tla (the role and the *)
(* stages), Availability.tla (the provider endpoint) and Selection.tla     *)
(* (the candidate whose work is kept).  They share no variable, so a       *)
(* behaviour plays one scene of one of them while the others rest.         *)
(***************************************************************************)
EXTENDS Routing, Availability, Selection

CONSTANTS p1, p2, s,     \* two processes that route, one that syncs
          Scenes         \* the scenes of the run

VARIABLE scene

RoutingOnly      == UNCHANGED <<availVars, selectionVars>>
AvailabilityOnly == UNCHANGED <<routingVars, selectionVars>>
SelectionOnly    == UNCHANGED <<routingVars, availVars>>

-----------------------------------------------------------------------------
(* Routing: prompts, profiles and the state of the roles *)

Words(strong, phrases, markers, length, modifier, override) ==
    [strong |-> strong, phrases |-> phrases, markers |-> markers, length |-> length,
     modifier |-> modifier, override |-> override]

Strong(intent, markers, modifier) == Words({intent}, {}, markers, "short", modifier, "none")
Phrase(intent, markers) == Words({}, {intent}, markers, "short", "none", "none")

MarkerSets == {{}, {"testable"}, {"medium"}, {"high"}, {"risk"}, {"destructive"},
               {"testable", "medium"}, {"testable", "risk"}}

ImplementPrompts ==
    {Strong("implement", m, pref) : m \in MarkerSets, pref \in {"none", "quality", "cheap"}}
    \cup {Phrase("implement", {"medium"})}

SecurityPrompts ==
    {Strong("security", m, pref) : m \in {{}, {"destructive"}}, pref \in {"none", "quality"}}
    \cup {Phrase("security", {}),
          Words({"security", "review"}, {}, {}, "short", "none", "none"),
          Words({"review"}, {}, {}, "short", "none", "security")}

OtherPrompts ==
    {Strong(i, m, "none") :
        i \in {"review", "plan", "explore", "research"}, m \in {{}, {"high"}, {"risk"}}}
    \cup {Words({}, {"implement", "security"}, {}, "short", "none", "none"),
          Words({"explore"}, {"implement"}, {}, "middling", "none", "none"),
          Words({}, {"implement"}, {}, "long", "none", "none"),
          Words({}, {}, {}, "short", "fast", "none"),
          Words({}, {}, {"high"}, "short", "none", "research")}

ReadPrompts == OtherPrompts \cup {Phrase("security", {}), Strong("security", {}, "none"),
                                  Strong("implement", {"risk"}, "none"), Strong("implement", {"high"}, "none")}

SessionPrompts == {Strong("implement", {}, "none"), Phrase("security", {}), Phrase("implement", {}),
                   Strong("explore", {}, "none"), Strong("implement", {"risk"}, "none"),
                   Words({}, {}, {}, "short", "none", "none")}

Default == [recon |-> 3, research |-> 3, review |-> 1, market |-> 0, advisor |-> FALSE,
            confirmation |-> FALSE, minScore |-> 0, requireStrong |-> TRUE,
            phraseIntents |-> {"implement"}]
Wide == [Default EXCEPT !.review = 3, !.market = 4, !.advisor = TRUE, !.confirmation = TRUE,
         !.minScore = 2, !.phraseIntents = {}]
Lax  == [Default EXCEPT !.recon = 5, !.requireStrong = FALSE]

Family(r) == IF r \in {"review-hard", "implement-ops", "security"} THEN "glm"
             ELSE IF r \in SignalRoles THEN "grok"
             ELSE IF r \in {"implement-overflow", "implement-cheap-fallback"} THEN "deepseek" ELSE "gpt"

Shipped == [family |-> [r \in Roles |-> Family(r)], unfit |-> {},
            ceiling |-> [r \in Roles |-> IF r = "implement-overflow" THEN "medium" ELSE "high"],
            fallback |-> [r \in Roles |-> {}]]

\* the independent reviewer of the family of the hard tier, and a panel of one
Cousins == [Shipped EXCEPT !.family["implement-hard"] = "grok", !.family["review-hard"] = "gpt",
                           !.ceiling["implement-standard"] = "low",
                           !.fallback["security"] = {"explore", "security-verify"}]
\* nothing is pinned but the reviewers, and a writer that may not write
Loose   == [Shipped EXCEPT !.family["implement-hard"] = Unpinned, !.unfit = {"implement-standard"},
                           !.family["review-independent"] = "glm"]
Unsafe  == [Cousins EXCEPT !.unfit = {"security"}, !.ceiling["implement-hard"] = "medium"]

\* up to n of the roles, each in its bad condition
BadUpTo(n, condition) ==
    {[r \in Roles |-> IF r \in S THEN condition[r] ELSE "up"] :
        S \in {roles \in SUBSET DOMAIN condition : Cardinality(roles) <= n}}

Bad(condition) == BadUpTo(Cardinality(DOMAIN condition), condition)

Everyone == {[r \in Roles |-> "up"]}
WriterTroubles ==
    Bad([r \in {"implement-hard", "implement-standard", "implement-cheap", "review-hard",
                "review-independent"} |->
           CASE r = "implement-hard" -> "failing" [] r = "implement-standard" -> "pressured"
             [] r = "implement-cheap" -> "held" [] r = "review-hard" -> "open" [] OTHER -> "off"])
NoTiers ==
    {[r \in Roles |-> IF r \in IMPLEMENT_STAGES \ left THEN "held" ELSE "up"] :
        left \in {{"implement-overflow"}, {"implement-cheap-fallback"}, {}}}
SecurityTroubles ==
    Bad([r \in {"security", "security-verify", "implement-hard", "review-independent"} |->
           CASE r = "security" -> "open" [] r = "security-verify" -> "off"
             [] r = "implement-hard" -> "failing" [] OTHER -> "held"])
    \cup NoTiers
ReadTroubles ==
    BadUpTo(2, [r \in {"researcher-challenger", "review-independent", "explore-risk", "review-hard"} |->
           CASE r = "researcher-challenger" -> "failing" [] r = "review-independent" -> "off"
             [] r = "explore-risk" -> "held" [] OTHER -> "open"])
ReviewTroubles == Bad([r \in {"review-hard", "implement-hard"} |-> "open"])
FewTroubles == Everyone \cup NoTiers \cup {[r \in Roles |-> IF r = "explore" THEN "open" ELSE "up"]}

-----------------------------------------------------------------------------
(* Routing: the scenes *)

\* Every writer's trouble; a registry that is read again; security tasks;
\* reading tasks and their signals; two turns of a session.
RoutingScenes == [
    routes   |-> [prompts |-> ImplementPrompts, profiles |-> {Default, Wide}, modes |-> {"dynamic"},
                  registries |-> {Shipped, Cousins, Loose}, healths |-> WriterTroubles \cup NoTiers,
                  workspaces |-> {0, 2}, turns |-> 1, changes |-> 0],
    rebind   |-> [prompts |-> ImplementPrompts, profiles |-> {Default, Wide}, modes |-> {"dynamic"},
                  registries |-> {Shipped, Cousins, Loose}, healths |-> ReviewTroubles,
                  workspaces |-> {0}, turns |-> 1, changes |-> 1],
    security |-> [prompts |-> SecurityPrompts, profiles |-> {Default, Lax},
                  modes |-> {"dynamic", "static"},
                  registries |-> {Shipped, Cousins, Loose, Unsafe}, healths |-> SecurityTroubles,
                  workspaces |-> {1}, turns |-> 1, changes |-> 0],
    reading  |-> [prompts |-> ReadPrompts, profiles |-> {Wide}, modes |-> {"dynamic"},
                  registries |-> {Shipped, Cousins}, healths |-> ReadTroubles,
                  workspaces |-> {1}, turns |-> 1, changes |-> 1],
    session  |-> [prompts |-> SessionPrompts, profiles |-> {Default, Wide},
                  modes |-> {"dynamic", "shadow"},
                  registries |-> {Shipped}, healths |-> FewTroubles,
                  workspaces |-> {0}, turns |-> 2, changes |-> 1]]

Overall(field) == UNION {RoutingScenes[n][field] : n \in DOMAIN RoutingScenes}
MCPrompts    == Overall("prompts")
MCProfiles   == Overall("profiles")
MCRegistries == Overall("registries")
MCHealths    == Overall("healths")

RoutingStep ==
    LET here == RoutingScenes[scene] IN
    \/ /\ Len(track) < here.turns
       /\ \E words \in here.prompts, profile \in here.profiles, mode_ \in here.modes,
             verifiers \in here.workspaces : Select(words, profile, mode_, verifiers)
    \/ Proceeds
    \/ /\ changes < here.changes
       /\ \/ \E reg \in here.registries : Reconfigured(reg)
          \/ \E state \in here.healths : Ailing(state)
          \/ Aging

RoutingAtRest ==
    /\ registry = Shipped /\ health = [r \in Roles |-> "up"] /\ stale = FALSE
    /\ route = NotRouting /\ track = <<>> /\ held = -1 /\ changes = 0

-----------------------------------------------------------------------------
(* Availability: two endpoints of two accounts *)

MCEndpoints  == <<"own", "reserve">>
MCProviderOf == [own |-> "opencode", reserve |-> "commandcode"]

\* Two processes may search for a reserve while nobody else writes (they are
\* alike, so p1 is the first to begin); or one places spawns while the operator
\* and a sync change what it read.
Reserving == /\ \/ Routes(p1)
                \/ Routes(p2) /\ (proc[p1] # Idle \/ proc[p2] # Idle)
                \/ Upstream
             /\ drained'[ProviderOf["reserve"]] # MaxNow
Holding   == /\ AvailNext
             /\ \A p \in Providers : drained'[p] \in {0, MaxNow + 1}
             /\ \A p \in Operated : drained'[p] = 0
             /\ proc'[p1].why # "failover" /\ proc'[p2] = Idle

AvailabilityAtRest == AvailInit /\ cache = [k \in Keys |-> NoEntry]

-----------------------------------------------------------------------------
(* Selection: fields of five candidates *)

MCField == <<1, 2, 3, 4, 5>>

Candidate(h, x, a, k) == [hard |-> h, extra |-> x, art |-> a, found |-> k]

\* The first n of the field are any of the given candidates, the rest failed.
Among(shapes, n, failed) ==
    {[l \in 1..5 |-> IF l <= n THEN f[l] ELSE failed] : f \in [1..n -> shapes]}

\* Every mix of two hard requirements, one further check and findings; passing
\* and failing candidates told apart by their artifacts;
\* passing ones with equal artifacts; clusters of equal artifacts.
Mixed ==
    Among({Candidate(<<h1, h2>>, x, 0, k) : h1 \in {"true", "false", "absent"},
             h2 \in {"true", "false"}, x \in {{}, {"FAIL"}, {"UNKNOWN"}},
             k \in {{}, {"artifact"}, {"artifact_name"}, {"late_trace"}}},
          2, Candidate(<<"false", "false">>, {}, 0, {}))
Contested ==
    Among({Candidate(<<"true">>, {}, a, {}) : a \in {1, 2}} \cup {Candidate(<<"false">>, {}, 1, {})},
          3, Candidate(<<"false">>, {}, 0, {}))
Equals == Among({Candidate(<<"true">>, {}, 1, {})}, 2, Candidate(<<"false">>, {}, 0, {}))
Clustered == Among({Candidate(<<"true">>, {}, a, {}) : a \in {1, 2, 3}}, 5, <<>>)

MCCandidacies ==
    [1..5 -> {<<>>} \cup [hard : Seq({"true", "false", "absent"}),
                          extra : SUBSET {"FAIL", "UNKNOWN"}, art : 0..3,
                          found : SUBSET {"artifact", "artifact_name", "late_trace"}]]

SelectionSceneInit ==
    /\ CASE scene = "evidence"  -> cand \in Mixed
         [] scene = "judging"   -> cand \in Contested
         [] scene = "rereads"   -> cand \in Equals
         [] scene = "consensus" -> cand \in Clustered
    /\ mode \in IF scene = "consensus" THEN {"v2"} ELSE {"select", "pairs"}

\* Judges differ in confidence where it counts, and are asked again where the
\* folds are compared.
Questions == /\ scene # "consensus" => \A i \in DOMAIN reads' : reads'[i].confidence = Overturn
             /\ scene # "rereads" => Len(reads') <= 2

SelectionAtRest ==
    /\ cand = [l \in Labels |-> Candidate(<<"false">>, {"FAIL"}, 0, {})] /\ mode = "pairs"
    /\ pc = "done" /\ walk = <<>> /\ next = 2 /\ leader = Nobody
    /\ reads = <<>> /\ wins = {} /\ selected = Nobody /\ reason = "all_failed"

-----------------------------------------------------------------------------
SceneNext ==
    /\ UNCHANGED scene
    /\ \/ scene \in DOMAIN RoutingScenes /\ RoutingStep /\ RoutingOnly
       \/ scene = "reserve" /\ Reserving /\ AvailabilityOnly
       \/ scene = "holds" /\ Holding /\ AvailabilityOnly
       \/ scene \in {"evidence", "judging", "rereads", "consensus"}
          /\ SelectionNext /\ Questions /\ SelectionOnly

SceneInit ==
    /\ scene \in Scenes
    /\ IF scene \in DOMAIN RoutingScenes
       THEN /\ RoutingInit
            /\ registry \in RoutingScenes[scene].registries
            /\ health \in RoutingScenes[scene].healths
       ELSE RoutingAtRest
    /\ IF scene \in {"reserve", "holds"} THEN AvailInit ELSE AvailabilityAtRest
    /\ IF scene \in {"evidence", "judging", "rereads", "consensus"}
       THEN SelectionSceneInit /\ SelectionInit
       ELSE SelectionAtRest

SceneSpec == SceneInit /\ [][SceneNext]_<<routingVars, availVars, selectionVars, scene>>
=============================================================================

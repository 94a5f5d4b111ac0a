------------------------------- MODULE PreTool -------------------------------
(***************************************************************************)
(* The verdict of PreToolUse (grokbuild/hook.py, handle_pre_tool and main; *)
(* shell_guard.py): which tool call of a session is let through.  The hook *)
(* computes the gate first and reads the track again for every question it *)
(* asks later, while the hooks of other calls move the track on.  What the *)
(* stages of a track are is left out: `owed` is the stage that is due, and *)
(* HookFlow.tla has what a granted spawn does to the track.                *)
(*                                                                         *)
(* A shell command is a sequence of segments, each of them one of a few    *)
(* kinds that _is_readonly_shell_segment tells apart.                      *)
(***************************************************************************)
EXTENDS Sequences, Integers, Functions

CONSTANTS
    MaxSegments,   \* bound: segments of a shell command
    WithVerifier   \* whether the workspace configures a verifier

ASSUME PreToolAssumption ==
    /\ MaxSegments \in Nat \ {0}
    /\ WithVerifier \in BOOLEAN

VARIABLES
    mode,     \* routing mode, the same for the whole turn
    strong,   \* the route is gated and trusted (_declarative_gated, _gate_strong)
    owed,     \* what the track of the decision is waiting for
    hook,     \* the running hook process: its call and what it has read
    verdict   \* the last verdict

preVars == <<mode, strong, owed, hook, verdict>>

-----------------------------------------------------------------------------
(* Tools: one of each kind the hook tells apart *)

CONDUCTOR_RECON_TOOLS == {"grep"}
READ_TOOLS            == {"read_file"} \cup CONDUCTOR_RECON_TOOLS
LIFECYCLE_TOOLS       == {"kill_command_or_subagent"}
SCHEDULER_WRITE_TOOLS == {"scheduler_create"}
EDIT_TOOLS            == {"search_replace", "run_terminal_command"}
SPAWN_TOOLS           == {"spawn_subagent"}
Tools == READ_TOOLS \cup LIFECYCLE_TOOLS \cup SCHEDULER_WRITE_TOOLS \cup EDIT_TOOLS
            \cup SPAWN_TOOLS \cup {"monitor", "tool_of_tomorrow"}

-----------------------------------------------------------------------------
(* Shell commands *)

\* ls and its like; other inspection; rm and its like; what cannot be proved to
\* be read-only; the configured verifier, which is one of the last.
Segments == {"map", "inspect", "remove", "other", "verifier"}

\* redirect stands for > < ` $( & and line breaks: anything past a plain chain
Commands ==
    [redirect : BOOLEAN, segments : UNION {[1 .. n -> Segments] : n \in 1 .. MaxSegments}]

SegmentVerdict(s) ==
    CASE s \in {"map", "inspect"} -> "readonly"
      [] s = "remove"             -> "write"
      [] OTHER                    -> "unprovable"

\* Mistake: only the head of a chain is looked at.
HeadVerdict(cmd) == IF cmd.redirect THEN "write" ELSE SegmentVerdict(Head(cmd.segments))

\* The first segment that is not read-only decides.
readonly_shell_verdict(cmd) ==
    LET bad == {i \in DOMAIN cmd.segments : SegmentVerdict(cmd.segments[i]) # "readonly"}
    IN  IF cmd.redirect THEN "write"
        ELSE IF bad = {} THEN "readonly"
        ELSE SegmentVerdict(cmd.segments[CHOOSE i \in bad : \A j \in bad : i <= j])

is_readonly_shell(cmd) == readonly_shell_verdict(cmd) = "readonly"

is_recon_shell(cmd) == Head(cmd.segments) = "map" /\ is_readonly_shell(cmd)

is_verifier_command(cmd) == ~cmd.redirect /\ cmd.segments = <<"verifier">>

_is_write_tool(call) ==
    CASE call.tool \in READ_TOOLS \cup LIFECYCLE_TOOLS -> FALSE
      [] call.tool = "run_terminal_command"            -> ~is_readonly_shell(call.input.shown)
      [] OTHER                                         -> TRUE

-----------------------------------------------------------------------------
(* The track, as far as the verdict depends on it *)

SpawnStages == {"explore", "implement"}  \* linear stages, by their role
RECON_ROLES == {"explore"}

\* "lifted": only stages of roles without their live-session sign-in are left;
\* "nothing": the decision has no track.
Owed == SpawnStages \cup {"verify", "sentinel", "lifted", "done", "nothing"}

_gate_active == mode = "dynamic" /\ strong /\ owed # "done"

\* A gated hook makes sure the track is there; no verifier is due without one.
Gated == mode = "dynamic" /\ strong

Idle == [at |-> "idle"]

-----------------------------------------------------------------------------
(* One call *)

Faults == {"none", "stdin", "config", "error"}

Plain == [redirect |-> FALSE, segments |-> <<"inspect">>]

\* What a payload shows of a command that the host cut: its first segments, and
\* perhaps no longer what came behind them.
Beginnings(cmd) ==
    {[redirect |-> r, segments |-> [i \in 1 .. n |-> cmd.segments[i]]] :
        r \in {FALSE, cmd.redirect}, n \in 1 .. Len(cmd.segments)}

\* The command the host will run, what its payload shows, and toolInputTruncated.
Inputs ==
    {[command |-> cmd, shown |-> cmd, truncated |-> FALSE] : cmd \in Commands}
    \cup UNION {{[command |-> cmd, shown |-> b, truncated |-> TRUE] : b \in Beginnings(cmd)} :
               cmd \in Commands}

Whole(cmd) == [command |-> cmd, shown |-> cmd, truncated |-> FALSE]

\* Only a shell has a command, only a spawn has a role that matters.
Calls ==
    {call \in [session : {"conductor", "child"}, tool : Tools, input : Inputs,
               role : SpawnStages, fault : Faults] :
        /\ call.tool \notin {"run_terminal_command", "monitor"} => call.input = Whole(Plain)
        /\ call.tool \notin SPAWN_TOOLS => call.role = "implement"}

\* Whether the call maps the repository.
ReconTool(call) ==
    \/ call.tool \in CONDUCTOR_RECON_TOOLS \cup {"monitor"}
    \/ call.tool = "run_terminal_command" /\ is_recon_shell(call.input.shown)

\* The verdict a call deserves, were everything read at one moment, when the
\* track waits for `due`: the rule that the readings of handle_pre_tool add up to.
Permitted(call, due) ==
    LET active == mode = "dynamic" /\ strong /\ due # "done"
    IN  /\ call.tool \in SPAWN_TOOLS /\ active => due \in {call.role, "lifted"}
        /\ call.tool = "run_terminal_command" /\ _is_write_tool(call) =>
              /\ is_verifier_command(call.input.shown)
              /\ due = "verify" \/ (~active /\ WithVerifier)
        /\ ReconTool(call) /\ active => due \notin RECON_ROLES

\* Stages finish, a failing verifier or child reopens one, the consilium that
\* cannot be composed leaves a sentinel, a sign-in comes or goes.
\* Only a move during a call matters: a call may begin on any track (PreInit).
TrackMoves ==
    /\ hook # Idle
    /\ owed # "nothing"
    /\ owed' \in Owed \ {owed, "nothing"}
    /\ (owed = "done" => owed' \in {"implement", "verify"})
    /\ hook' = [hook EXCEPT !.deserved = @ \/ Permitted(hook.call, owed')]
    /\ UNCHANGED <<mode, strong, verdict>>

NoVerdict == [decision |-> "none", logged |-> 0]

PreInit ==
    /\ mode \in {"static", "shadow", "dynamic"}
    /\ strong \in BOOLEAN
    /\ owed \in Owed
    /\ Gated => owed # "nothing"
    /\ hook = Idle
    /\ verdict = NoVerdict

\* _finish_pre_tool logs one record and answers; the handler of an exception
\* in main answers only.
Answered(decision, code, logged) ==
    /\ verdict' = [decision |-> decision, code |-> code, call |-> hook.call,
                   logged |-> logged, deserved |-> hook.deserved]
    /\ hook' = Idle

Allow(code) == Answered("allow", code, 1)
Deny(code)  == Answered("deny", code, 1)

\* The process starts; the gate is computed before anything else is read.
Begin ==
    /\ hook = Idle /\ verdict = NoVerdict
    /\ \E call \in Calls :
          hook' = [at |-> "first", call |-> call, gated |-> _gate_active,
                   deserved |-> Permitted(call, owed)]
    /\ UNCHANGED <<mode, strong, owed, verdict>>

\* Grok acts on the verdict; the next call finds the track as it is.
Deliver ==
    /\ verdict # NoVerdict
    /\ verdict' = NoVerdict
    /\ UNCHANGED <<mode, strong, owed, hook>>

-----------------------------------------------------------------------------
(* main: what cannot be decided *)

\* The payload is not JSON: the tool is not known either.
Unparseable ==
    /\ hook.call.fault = "stdin"
    /\ Deny("stdin_unparseable")

NoConfig ==
    /\ hook.call.fault = "config"
    /\ IF hook.call.tool \in READ_TOOLS
       THEN Allow("routing_config_unavailable") ELSE Deny("routing_config_unavailable")

\* An exception anywhere before the answer: closed for all but reading.
Raised ==
    /\ hook.call.fault = "error"
    /\ Answered(IF hook.call.tool \in READ_TOOLS THEN "allow" ELSE "deny", "error", 0)

-----------------------------------------------------------------------------
(* handle_pre_tool *)

Sound == hook.call.fault = "none"

Exempt ==
    /\ Sound
    /\ hook.call.session = "child"
    /\ Allow("subagent_exemption")

Conducts(tools) == Sound /\ hook.call.session = "conductor" /\ hook.call.tool \in tools

\* The track is read again before the answer.
Again == hook' = [hook EXCEPT !.at = "second"] /\ UNCHANGED verdict

Scheduler == Conducts(SCHEDULER_WRITE_TOOLS) /\ Deny("zero_write")

ReconOwed == hook.gated /\ owed \in RECON_ROLES

NotReadonlyCode ==
    IF readonly_shell_verdict(hook.call.input.shown) = "write" THEN "zero_write" ELSE "shell_not_readonly"

Monitor ==
    /\ Conducts({"monitor"})
    /\ CASE ReconOwed -> Deny("recon_diet")
         [] ~ReconOwed /\ ~hook.call.input.truncated /\ is_readonly_shell(hook.call.input.shown) ->
               Allow("read_allowed")
         [] OTHER -> Deny(NotReadonlyCode)

\* The exact command of the due verify stage, gate or not.
VerifierDue == is_verifier_command(hook.call.input.shown) /\ owed = "verify"

\* The first question about a shell call; a call that is not the verifier goes
\* on and the track is read again.
Terminal ==
    /\ Conducts({"run_terminal_command"})
    /\ hook.at = "first"
    /\ CASE VerifierDue -> Allow("exact_verifier_allowed")
         [] ~VerifierDue /\ ~hook.gated /\ WithVerifier /\ is_verifier_command(hook.call.input.shown) ->
               Allow("workspace_verifier_allowed")
         [] OTHER -> Again

Asking == hook.gated /\ hook.at = "first"

\* Mistake: the second reading asks only whether a verifier is due.
NoVerifierDue == owed # "verify"

\* No stage to spawn: _enforceable_gate reads the track once more.
Lets == owed \in {"lifted", "done"}

Spawn ==
    /\ Conducts(SPAWN_TOOLS)
    /\ CASE ~hook.gated -> Allow("gate_inactive")
         [] Asking /\ owed \notin SpawnStages \cup {"sentinel"} -> Again
         [] Asking /\ owed = "sentinel" -> Deny("blocked_sentinel")
         [] Asking /\ owed \in SpawnStages ->
               IF hook.call.role = owed THEN Allow("spawn_allowed") ELSE Deny("wrong_stage")
         [] hook.gated /\ hook.at = "second" ->
               IF Lets THEN Allow("gate_lifted") ELSE Deny("pending_verify")

\* Tools that write, unknown ones included, and commands not proved read-only.
Past == hook.at = "second" \/ hook.call.tool # "run_terminal_command"

OtherTools == Tools \ (SCHEDULER_WRITE_TOOLS \cup SPAWN_TOOLS \cup {"monitor"})

Write ==
    /\ Conducts(OtherTools)
    /\ Past
    /\ _is_write_tool(hook.call)
    /\ CASE hook.call.tool = "run_terminal_command" /\ hook.gated /\ VerifierDue ->
               Allow("exact_verifier_allowed")
         [] hook.call.tool = "run_terminal_command" /\ ~(hook.gated /\ VerifierDue) ->
               Deny(NotReadonlyCode)
         [] hook.call.tool \in EDIT_TOOLS \ {"run_terminal_command"} -> Deny("zero_write")
         [] OTHER -> Deny("unknown_write_tool")

Read ==
    /\ Conducts(OtherTools)
    /\ Past
    /\ ~_is_write_tool(hook.call)
    /\ CASE mode # "dynamic" -> Allow("mode_non_dynamic")
         [] mode = "dynamic" /\ ReconOwed /\ ReconTool(hook.call) -> Deny("recon_diet")
         [] OTHER -> Allow("read_allowed")

Decide ==
    /\ hook # Idle
    /\ \/ Unparseable \/ NoConfig \/ Raised
       \/ Exempt \/ Scheduler \/ Monitor \/ Terminal \/ Spawn \/ Write \/ Read
    /\ UNCHANGED <<mode, strong, owed>>

PreNext == Begin \/ Deliver \/ Decide \/ TrackMoves

PreSpec == PreInit /\ [][PreNext]_preVars

-----------------------------------------------------------------------------
(* Properties *)

\* A hook holds a call and its reading of the gate; a verdict names its call.
PreTypeOK ==
    /\ owed \in Owed
    /\ hook # Idle => /\ hook.at \in {"first", "second"}
                      /\ hook.call \in Calls
                      /\ hook.gated => mode = "dynamic"
    /\ verdict.decision \in {"none", "allow", "deny"}

\* A call that changes nothing in the workspace if its command is cmd, whatever
\* the hook thinks of it, and the exact verifier.
Harmless(call, cmd) ==
    \/ call.tool \in READ_TOOLS \cup LIFECYCLE_TOOLS \cup SPAWN_TOOLS
    \/ /\ call.tool \in {"run_terminal_command", "monitor"}
       /\ ~cmd.redirect
       /\ Range(cmd.segments) \subseteq {"map", "inspect"}
    \/ call.tool = "run_terminal_command" /\ is_verifier_command(cmd)

Allowed(session) == verdict.decision = "allow" /\ verdict.call.session = session

\* README.md: the zero-write deny "applies in every mode"; hook.py: "the
\* conductor may run only the exact configured deterministic verifier": in
\* every mode, whatever the track does meanwhile and whatever fails, a call of
\* the conductor that can change something is the exact verifier or is denied.
\* The code knows no more than the payload shows. A monitor whose payload is
\* truncated is denied; for a terminal command nobody looks at the flag
\* (hook.py:560 against :719), so of that one only the part that is shown is
\* harmless.
ConductorZeroWrite ==
    Allowed("conductor") =>
        LET call == verdict.call
        IN  \/ Harmless(call, call.input.command)
            \/ /\ call.tool = "run_terminal_command" /\ call.input.truncated
               /\ Harmless(call, call.input.shown)

\* handle_pre_tool computes the gate, then reads the track again for every other
\* question, while hooks of other calls move it.  What is let through in the end
\* was permitted at some moment of the call: no mixture of an older reading and
\* a newer one admits a spawn out of turn, a verifier that was never due while
\* the gate was up, or a look around while reconnaissance is owed.  (A hook that
\* fails answers without judging.)
AllowedAtSomeMoment ==
    Allowed("conductor") /\ verdict.call.fault = "none" => verdict.deserved
=============================================================================

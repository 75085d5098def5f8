------------------------------ MODULE Preflight ------------------------------
(* The contract of a launch of the Grok CLI.  grok-capabilities probes what  *)
(* the installed CLI can do, cli-status captures the output of each probe    *)
(* and bounds it, grok-run-spec validates a run specification and compiles   *)
(* it to arguments the probe confirmed.  The status route answers a client   *)
(* with the snapshot of a probe; the launch route probes again, for a        *)
(* request of its own or for a specification pinned to such a snapshot.      *)
(* Calls share nothing but the installed CLI: one is followed at a time.  A  *)
(* specification and its arguments are named by the flags of the CLI.        *)
EXTENDS Naturals

CONSTANTS
    Builds,      \* the Grok CLIs that may be installed
    Help,        \* the flags, words and commands the help of each lists
    Answers,     \* how each answers a probe: ok, invalid (not the JSON it asks for) or failed
    Shim,        \* the builds only a shell can start, as grok.cmd
    Windows,     \* does a shell try again what was not found?
    Specs,       \* the specifications a client may send
    MaxCalls,    \* bound: calls of the routes
    MaxUpdates   \* bound: the CLI is installed, updated or removed

VARIABLES
    cli,       \* the build that is installed, or None
    call,      \* the call of probeGrokCapabilities, and the route that waits for it
    pin,       \* the snapshot the status route gave a client
    run,       \* the specification the launch route compiled, if any
    calls, updates

vars == <<cli, call, pin, run, calls, updates>>

None == "none"

(* The version, a fourth probe, only tells snapshots apart and is left out.  *)
Kinds == {"help", "inspect", "leader"}

-----------------------------------------------------------------------------
(* One probe: runCapture settles once, on the end of the child, on its       *)
(* error, on a timeout or on too much output; how it failed is left out.     *)

Outcome == {None, "ok", "invalid", "failed"}
Capture == [at : {None, "running", "shell", "done"}, of : Builds \cup {None}, as : Outcome]
NoCapture == [at |-> None, of |-> None, as |-> None]
Started(at) == [at |-> at, of |-> cli, as |-> None]
Settled(c, as) ==
    [at |-> "done", of |-> IF as \in {"ok", "invalid"} THEN c.of ELSE None, as |-> as]

Running(c) == c.at \in {"running", "shell"}
Spawned(c) == c.of # None /\ (c.of \in Shim => c.at = "shell")

(* What was not found is tried once more by cmd.exe; a shell that does not   *)
(* find it either says so and fails.  Too much output is a failure, too.     *)
Ends(k, c) ==
    IF Spawned(c) THEN {Settled(c, Answers[c.of][k]), Settled(c, "failed")}
    ELSE IF Windows /\ c.at = "running" THEN {Started("shell")}
    ELSE {Settled(c, "failed")}

(* Mutant: the timer that bounds a capture is never set.                     *)
NeverEnds(c) == {}

(* The child is killed; what it still says is dropped.                       *)
TimesOut(c) == {Settled(c, "failed")}

-----------------------------------------------------------------------------
(* What a snapshot confirms.  A snapshot is known by its fingerprint, a hash *)
(* of what it reports.                                                       *)

Snapshot == [leader : BOOLEAN, capture : [Kinds -> Capture]]
Taken == [leader |-> call.leader, capture |-> call.capture]

Ok(s, k) == s.capture[k].as = "ok"

(* Help that failed, or that says nothing, confirms nothing.                 *)
Listed(s) == IF Ok(s, "help") THEN Help[s.capture["help"].of] ELSE {}

(* The words of the help that make a capability supported: most are one flag *)
(* and named by it.                                                          *)
Words(cap) ==
    CASE cap = "tool_policy" -> {"--tools", "--disallowed-tools"}
      [] cap = "streaming_json" -> {"--output-format", "streaming-json"}
      [] cap = "structured_report" -> {"--json-schema", "--output-format"}
      [] cap = "exact_session" -> {"--session-id", "--resume"}
      [] cap = "fork_session" -> {"--fork-session", "--resume"}
      [] cap = "native_worktree" -> {"worktree", "--worktree"}
      [] OTHER -> {cap}

(* Mutant: only what is known to be unsupported is refused.                  *)
SupportedOrUnknown(s, cap) ==
    CASE cap = "inspect_json" -> Ok(s, "inspect")
      [] cap = "leader_health_json" -> Ok(s, "leader")
      [] OTHER -> Words(cap) \subseteq Listed(s) \/ Listed(s) = {}

(* capabilityMap: unsupported and unknown differ in what the user is told.   *)
Supported(s, cap) ==
    CASE cap = "inspect_json" -> Ok(s, "inspect")
      [] cap = "leader_health_json" -> Ok(s, "leader")
      [] OTHER -> Words(cap) \subseteq Listed(s)

(* checkGrokCompatibility: a CLI that is inspected was found.                *)
Compatible(s, required) == \A cap \in required : Supported(s, cap)

-----------------------------------------------------------------------------
(* A specification, its arguments and what they require *)

Options ==
    {"--model", "--agent", "--tools", "--disallowed-tools", "--disable-web-search",
     "--always-approve", "--permission-mode", "--sandbox", "--no-subagents", "--no-memory",
     "--no-plan", "--check", "--leader-socket", "--debug-file"}

Contract ==
    [role : {"interactive", "leaf", "leader"}, unattended : BOOLEAN,
     workspace : {"verified", "not_required", "native", "native_ref"},
     session : {"new", "new_id", "resume", "fork", "fork_id", "continue_latest"},
     prompt : {"file", "json", "inline"}, output : {"stream", "report"},
     options : SUBSET Options]

Isolated(spec) == spec.workspace = "verified"
Attended(spec) == spec.role = "interactive" /\ ~spec.unattended

(* Mutant: an unattended run of any role may delegate.                       *)
ValidForAnyRole(spec) ==
    /\ spec.workspace \in {"native", "native_ref"} => Attended(spec)
    /\ spec.unattended => Isolated(spec)
    /\ spec.role = "leaf" => spec.unattended /\ {"--permission-mode", "--sandbox"} \subseteq spec.options
    /\ spec.session = "continue_latest" => Attended(spec)
    /\ ~(spec.unattended /\ spec.session = "new")
    /\ spec.prompt # "file" => Attended(spec)
    /\ "--leader-socket" \in spec.options => spec.role = "leader"
    /\ ~{"--always-approve", "--permission-mode"} \subseteq spec.options

(* superRefine: delegation that is not denied needs a leader, or a user who  *)
(* attends; the tools allowed and denied are disjoint, which flags hide.     *)
Valid(spec) ==
    /\ ValidForAnyRole(spec)
    /\ "--no-subagents" \notin spec.options => spec.role = "leader" \/ Attended(spec)

SessionArgs(session) ==
    CASE session = "new" -> {}
      [] session = "new_id" -> {"--session-id"}
      [] session = "resume" -> {"--resume"}
      [] session = "fork" -> {"--resume", "--fork-session"}
      [] session = "fork_id" -> {"--resume", "--fork-session", "--session-id"}
      [] session = "continue_latest" -> {"--continue"}

WorkspaceArgs(workspace) ==
    CASE workspace = "native" -> {"--worktree"}
      [] workspace = "native_ref" -> {"--worktree", "--worktree-ref"}
      [] OTHER -> {}

PromptArg(prompt) ==
    CASE prompt = "file" -> "--prompt-file" [] prompt = "json" -> "--prompt-json" [] OTHER -> "--prompt"

(* compileArgs *)
Args(spec) ==
    {"--reasoning-effort", "--max-turns", "--output-format", PromptArg(spec.prompt)}
    \cup spec.options \cup SessionArgs(spec.session) \cup WorkspaceArgs(spec.workspace)
    \cup (IF spec.output = "report" THEN {"--json-schema"} ELSE {})

(* inferGrokCapabilitiesFromArgs: the format of the output counts only when  *)
(* it is streaming-json.                                                     *)
Implied(arg) ==
    CASE arg \in {"--tools", "--disallowed-tools"} -> "tool_policy"
      [] arg \in {"--resume", "--session-id"} -> "exact_session"
      [] arg = "--fork-session" -> "fork_session"
      [] arg = "--json-schema" -> "structured_report"
      [] arg = "--worktree" -> "native_worktree"
      [] OTHER -> arg

Required(spec) ==
    {"inspect_json"} \cup {Implied(arg) : arg \in Args(spec) \ {"--output-format"}}
    \cup (IF spec.output = "stream" THEN {"streaming_json"} ELSE {})
    \cup (IF "--leader-socket" \in spec.options THEN {"leader_health_json"} ELSE {})

-----------------------------------------------------------------------------
Route == {"status", "request", "pinned"}
Call == [at : {"idle", "probing", "over"}, route : Route \cup {None},
         leader : BOOLEAN, capture : [Kinds -> Capture]]
Idle == [at |-> "idle", route |-> None, leader |-> FALSE, capture |-> [k \in Kinds |-> NoCapture]]
NoSnapshot == [leader |-> FALSE, capture |-> Idle.capture]

TypeOK ==
    /\ cli \in Builds \cup {None} /\ call \in Call /\ pin \in Snapshot
    /\ run \subseteq Specs /\ Specs \subseteq Contract /\ calls \in 0..MaxCalls /\ updates \in 0..MaxUpdates

Init ==
    /\ cli \in Builds \cup {None} /\ call = Idle /\ pin = NoSnapshot /\ run = {}
    /\ calls = 0 /\ updates = 0

(* The probes are spawned together and awaited together; leaders are asked   *)
(* for their health only when the caller needs it.                           *)
Probe(route, leader) ==
    /\ call.at # "probing" /\ calls < MaxCalls /\ calls' = calls + 1
    /\ call' = [at |-> "probing", route |-> route, leader |-> leader,
                capture |-> [k \in Kinds |->
                    IF k = "leader" /\ ~leader THEN NoCapture ELSE Started("running")]]
    /\ run' = {} /\ UNCHANGED <<cli, pin, updates>>

(* The status route; and the launch route, with a request of its own or a    *)
(* specification whose client has a snapshot.                                *)
Status(leader) == Probe("status", leader)
Post(route, leader) ==
    /\ route \in {"request", "pinned"} /\ (route = "pinned" => pin # NoSnapshot)
    /\ Probe(route, leader)

Move(k, captures) ==
    /\ call.at = "probing" /\ Running(call.capture[k])
    /\ \E to \in captures : call' = [call EXCEPT !.capture[k] = to]
    /\ UNCHANGED <<cli, pin, run, calls, updates>>
CaptureEnds(k) == Move(k, Ends(k, call.capture[k]))
CaptureTimesOut(k) == Move(k, TimesOut(call.capture[k]))

Awaited(routes) ==
    /\ call.at = "probing" /\ call.route \in routes
    /\ \A k \in Kinds : ~Running(call.capture[k])

Answered ==
    /\ Awaited({"status"}) /\ pin' = Taken /\ call' = Idle
    /\ UNCHANGED <<cli, run, calls, updates>>

(* Mutant: the snapshot a specification is pinned to is not compared.        *)
Unpinned(spec) == spec.prompt = "file" /\ Valid(spec) /\ Compatible(Taken, Required(spec))

(* compileGrokRunSpec: a request is pinned to the snapshot it just got.  The *)
(* route launches with a managed prompt file only.                           *)
Compiles(spec) == Unpinned(spec) /\ (call.route = "pinned" => pin = Taken)

(* The route compiles what it was sent, or refuses it.                       *)
Compile(spec) ==
    /\ Awaited({"request", "pinned"}) /\ call.leader = ("--leader-socket" \in spec.options)
    /\ run' = IF Compiles(spec) THEN {spec} ELSE {}
    /\ call' = [call EXCEPT !.at = "over"]
    /\ UNCHANGED <<cli, pin, calls, updates>>

(* The user installs, updates or removes the CLI.                            *)
Update(b) ==
    /\ updates < MaxUpdates /\ updates' = updates + 1 /\ b # cli /\ cli' = b
    /\ UNCHANGED <<call, pin, run, calls>>

Advance == Answered \/ (\E k \in Kinds : CaptureTimesOut(k)) \/ \E spec \in Specs : Compile(spec)
Next ==
    \/ Advance \/ \E k \in Kinds : CaptureEnds(k)
    \/ \E leader \in BOOLEAN : Status(leader) \/ \E route \in Route : Post(route, leader)
    \/ \E b \in Builds \cup {None} : Update(b)

-----------------------------------------------------------------------------
(* Properties *)

(* A launch passes the CLI no option its help did not list when it was       *)
(* probed, whatever the specification asks for, however the probes ended and *)
(* whichever build answered each; a launch pinned to a client's snapshot     *)
(* passes none that snapshot had not listed either (grok-run-spec.ts:432).   *)
ArgsAreConfirmed ==
    \A spec \in run :
        /\ Args(spec) \subseteq Listed(Taken) /\ Ok(Taken, "inspect")
        /\ "--leader-socket" \in Args(spec) => Ok(Taken, "leader")
        /\ call.route = "pinned" => Args(spec) \subseteq Listed(pin)

(* A run no user attends, and a leaf, works in the worktree that was made    *)
(* for it, on a session that is named, and delegates to nobody unless it     *)
(* leads; a leaf asks by its own policy and never approves everything        *)
(* (grok-run-spec.ts:187).                                                   *)
LeavesAreContained ==
    \A spec \in run :
        LET args == Args(spec)
        IN  /\ spec.unattended \/ spec.role = "leaf" =>
                /\ Isolated(spec) /\ "--worktree" \notin args
                /\ args \cap {"--session-id", "--resume"} # {} /\ "--continue" \notin args
            /\ spec.unattended /\ spec.role # "leader" => "--no-subagents" \in args
            /\ spec.role = "leaf" =>
                {"--permission-mode", "--sandbox"} \subseteq args /\ "--always-approve" \notin args

(* A probe that hangs is cut off, and its caller answered                    *)
(* (cli-status.ts:93).                                                       *)
ProbesEnd == call.at = "probing" ~> call.at # "probing"
=============================================================================

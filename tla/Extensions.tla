----------------------------- MODULE Extensions -----------------------------
(* Extensions and lifecycle hooks.  lib/extensions keeps a file of           *)
(* preferences for the user and one for each workspace, and discovers        *)
(* plugins, hooks, MCP servers, agents and skills under them; the extensions *)
(* dialog of the client shows a discovery and saves patches of a file; a run *)
(* of the harness fires the hooks of its events.                             *)
EXTENDS Naturals, Sequences

CONSTANTS
    Things,      \* the ids of what can be discovered
    Kind,        \* what each is: a plugin, trace, command, server, skill or agent
    Source,      \* where each comes from: builtin, user, project or own
    Plugin,      \* the plugin that contributes it, or None
    Event,       \* the lifecycle event a hook is for
    Workspaces,
    Shipped,     \* what a workspace may come with in its preferences file: [trusted, own]
    MaxRuns,     \* bound: runs of the harness
    MaxClicks,   \* bound: what the user does in the dialog
    MaxFaults    \* bound: lost requests and torn writes

VARIABLES
    file,      \* the preferences of the user and of each workspace
    at,        \* the active session's workspace
    open,      \* the dialog is open
    data,      \* the discovery the dialog shows
    loading,   \* a load is on its way; a refresh waits for it
    reqs,      \* the dialog's requests, which overlap
    run,       \* each run of the harness and the hooks it fires
    reviewed,  \* what the user, or a workspace's own file, has marked trusted
    ran,       \* hooks that ran
    clicks, faults

vars == <<file, at, open, data, loading, reqs, run, reviewed, ran, clicks, faults>>

None == "none"
Layers == Workspaces \cup {"user"}
Cwds == Workspaces \cup {None}
Runs == 1..MaxRuns
Kinds == {"plugin", "trace", "command", "server", "skill", "agent"}
Hooks == {t \in Things : Kind[t] \in {"trace", "command"}}
Own == {t \in Things : Source[t] = "own"}

(* What a file says of one thing: its switch and its review.                 *)
Entry == [enabled : {"unset", "on", "off"}, trust : {"unset", "trusted", "denied"}]
Unset == [enabled |-> "unset", trust |-> "unset"]
EntryOf(enabled, trust) == [enabled |-> enabled, trust |-> trust]

Prefs == [entry : [Things -> Entry], own : SUBSET Own]
Empty == [entry |-> [t \in Things |-> Unset], own |-> {}]

(* Project wins: its whole entry hides the user's.  The user's own hooks,    *)
(* servers and agents are concatenated by id.                                *)
Merged(user, project) ==
    [entry |-> [t \in Things |-> IF project.entry[t] # Unset THEN project.entry[t] ELSE user.entry[t]],
     own |-> user.own \cup project.own]

Preferences(cwd) == IF cwd = None THEN file["user"] ELSE Merged(file["user"], file[cwd])

Enabled(p, t) == p.entry[t].enabled # "off"
Reviewed(p, t, default) == IF p.entry[t].trust # "unset" THEN p.entry[t].trust ELSE default

PluginTrust(p, g) == Reviewed(p, g, IF Source[g] = "project" THEN "untrusted" ELSE "trusted")

(* A plugin that is switched off or denied contributes nothing.              *)
Contributes(p, g) == Enabled(p, g) /\ PluginTrust(p, g) # "denied"

(* Mutant: what a plugin contributes is trusted like the user's own.         *)
DefaultTrustOfHook(p, t) ==
    IF Plugin[t] = None /\ Source[t] = "project" THEN "untrusted" ELSE "trusted"

(* What comes with a trusted plugin is trusted, what comes with a project is *)
(* not, and the builtin and the user's own are.                              *)
DefaultTrust(p, t) ==
    IF Plugin[t] # None THEN (IF PluginTrust(p, Plugin[t]) = "trusted" THEN "trusted" ELSE "untrusted")
    ELSE IF Source[t] = "project" THEN "untrusted" ELSE "trusted"

Trust(p, t) == IF Kind[t] = "plugin" THEN PluginTrust(p, t) ELSE Reviewed(p, t, DefaultTrust(p, t))

(* What a workspace brings needs a workspace; ids are distinct here.         *)
FromRoot(t, cwd) == Source[t] = "project" => cwd # None
FromPlugin(p, t) == Plugin[t] # None => Contributes(p, Plugin[t])

(* discoverExtensions reads both files and every root anew.                  *)
Discovered(p, cwd) ==
    {t \in Things : FromRoot(t, cwd) /\ FromPlugin(p, t) /\ (Source[t] = "own" => t \in p.own)}

Bundle(cwd, p) == [cwd |-> cwd, prefs |-> p]

(* A patch: the new entry of one thing, or the new list of a kind.           *)
Patch == [of : Things \cup {None}, entry : Entry, kind : Kinds \cup {None}, list : SUBSET Own]
EntryPatch(t, enabled, trust) == [of |-> t, entry |-> EntryOf(enabled, trust), kind |-> None, list |-> {}]
ListPatch(kind, list) == [of |-> None, entry |-> Unset, kind |-> kind, list |-> list]

(* patchPreferences: an entry is replaced as a whole, a list only when the   *)
(* patch has it.                                                             *)
Applied(prefs, patch) ==
    IF patch.of # None THEN [prefs EXCEPT !.entry[patch.of] = patch.entry]
    ELSE [prefs EXCEPT !.own = {t \in @ : Kind[t] # patch.kind} \cup patch.list]

Req(kind, layer, patch) ==
    [kind |-> kind, stage |-> "sent", cwd |-> at, layer |-> layer, patch |-> patch, got |-> Empty]
Load(cwd) == [Req("load", "user", ListPatch(None, {})) EXCEPT !.cwd = cwd]

NoRun == [at |-> "none", cwd |-> None, plan |-> <<>>, then |-> "none", todo |-> {}, child |-> None]

TypeOK ==
    /\ file \in [Layers -> Prefs] /\ at \in Cwds /\ {open, loading} \subseteq BOOLEAN
    /\ data \in [cwd : Cwds \cup {"null"}, prefs : Prefs]
    /\ \A q \in reqs : /\ q.kind \in {"load", "save"} /\ q.stage \in {"sent", "answered"}
                       /\ q.cwd \in Cwds /\ q.layer \in Layers /\ q.patch \in Patch /\ q.got \in Prefs
    /\ \A r \in Runs : /\ run[r].at \in {"none", "ready", "hooks", "agent", "over", "failed"} /\ run[r].cwd \in Cwds
                       /\ run[r].then \in {"none", "agent", "over"}
                       /\ run[r].plan \in Seq({"prompt_submit", "stop", "session_end"})
                       /\ \A h \in run[r].todo : h.id \in Hooks /\ h.trust \in {"trusted", "untrusted", "denied"}
                       /\ run[r].child \in Hooks \cup {None}
    /\ reviewed \subseteq Things /\ ran \subseteq Hooks
    /\ clicks \in 0..MaxClicks /\ faults \in 0..MaxFaults

(* A repository may bring the file along: entries that trust what it names,  *)
(* and hooks, servers and agents of its own, which are read as the user's.   *)
FirstFile(s) ==
    [entry |-> [t \in Things |-> IF t \in s.trusted THEN EntryOf("unset", "trusted") ELSE Unset],
     own |-> s.own]

Init ==
    /\ \E s \in [Workspaces -> Shipped] :
        /\ file = [l \in Layers |-> IF l = "user" THEN Empty ELSE FirstFile(s[l])]
        /\ reviewed = UNION {s[w].trusted : w \in Workspaces}
    /\ at \in Cwds /\ open = FALSE /\ data = Bundle("null", Empty) /\ loading = FALSE /\ reqs = {}
    /\ run = [r \in Runs |-> NoRun] /\ ran = {}
    /\ clicks = 0 /\ faults = 0

Click == clicks < MaxClicks /\ clicks' = clicks + 1
screen == <<at, open, data, loading>>
harness == <<run, ran>>

-----------------------------------------------------------------------------
(* The dialog *)

(* load: a load that ends, even an earlier one, ends the spinner.            *)
Loads(cwd) == loading' = TRUE /\ reqs' = reqs \cup {Load(cwd)}
Ended(q) == loading' = (loading /\ q.kind # "load")

(* The effect loads on opening, and on a change of workspace while open.     *)
Open ==
    /\ ~open /\ open' = TRUE /\ Loads(at)
    /\ UNCHANGED <<file, at, data, harness, reviewed, clicks, faults>>

(* What was shown stays in the component while it is closed.                 *)
Close ==
    /\ open /\ Click /\ open' = FALSE
    /\ UNCHANGED <<file, at, data, loading, reqs, harness, reviewed, faults>>

SwitchTo(w) ==
    /\ w # at /\ Click /\ at' = w
    /\ IF open THEN Loads(w) ELSE UNCHANGED <<loading, reqs>>
    /\ UNCHANGED <<file, open, data, harness, reviewed, faults>>

Refresh ==
    /\ open /\ ~loading /\ Click /\ Loads(at)
    /\ UNCHANGED <<file, at, open, data, harness, reviewed, faults>>

(* savePatch writes the layer chosen in the header; saves may overlap.       *)
Save(layer, patch) ==
    /\ open /\ layer \in {"user", at} \ {None} /\ Click
    /\ reqs' = reqs \cup {Req("save", layer, patch)}
    /\ UNCHANGED <<file, screen, harness, reviewed, faults>>

Shown == IF data.cwd = "null" THEN {} ELSE Discovered(data.prefs, data.cwd)

(* setSkillEnabled, setEnabled: the switch of a row patches its entry with   *)
(* the switch alone, and so takes its review back.                           *)
Switch(layer, t) ==
    /\ t \in Shown /\ Kind[t] # "agent"
    /\ Save(layer, EntryPatch(t, IF Enabled(data.prefs, t) THEN "off" ELSE "on", "unset"))

(* setTrust: offered for what is not reviewed; the switch is unset with it.  *)
SetTrust(layer, t, trust) ==
    /\ t \in Shown /\ Kind[t] \notin {"agent", "skill"} /\ Trust(data.prefs, t) = "untrusted"
    /\ Save(layer, EntryPatch(t, "unset", trust))

(* Adding and removing send the list last shown, which is that of both       *)
(* layers, with the change.                                                  *)
Listed(kind) == IF data.cwd = "null" THEN {} ELSE {t \in data.prefs.own : Kind[t] = kind}
Add(layer, t) == t \in Own /\ Save(layer, ListPatch(Kind[t], Listed(Kind[t]) \cup {t}))
Remove(layer, t) ==
    /\ t \in Own \cap Shown
    /\ Save(layer, ListPatch(Kind[t], Listed(Kind[t]) \ {t}))

Dialog ==
    \/ Open \/ Close \/ Refresh \/ \E w \in Cwds : SwitchTo(w)
    \/ \E layer \in Layers, t \in Things :
        \/ Switch(layer, t) \/ Add(layer, t) \/ Remove(layer, t)
        \/ \E trust \in {"trusted", "denied"} : SetTrust(layer, t, trust)

-----------------------------------------------------------------------------
(* The routes: a request is served at once, its answer comes later *)

Get(q) ==
    /\ q.stage = "sent" /\ q.kind = "load"
    /\ reqs' = (reqs \ {q}) \cup {[q EXCEPT !.stage = "answered", !.got = Preferences(q.cwd)]}
    /\ UNCHANGED <<file, screen, harness, reviewed, clicks, faults>>

(* Mutant: the patch is applied to what is in force, not to the layer.       *)
PutResolved(q) ==
    /\ q.stage = "sent" /\ q.kind = "save"
    /\ file' = [file EXCEPT ![q.layer] = Applied(Preferences(q.cwd), q.patch)]
    /\ reviewed' = IF q.patch.entry.trust = "trusted" THEN reviewed \cup {q.patch.of} ELSE reviewed
    /\ reqs' = (reqs \ {q}) \cup {[q EXCEPT !.stage = "answered", !.got = Preferences(q.cwd)']}
    /\ UNCHANGED <<screen, harness, clicks, faults>>

Put(q) ==
    /\ q.stage = "sent" /\ q.kind = "save"
    /\ file' = [file EXCEPT ![q.layer] = Applied(@, q.patch)]
    /\ reviewed' = IF q.patch.entry.trust = "trusted" THEN reviewed \cup {q.patch.of} ELSE reviewed
    /\ reqs' = (reqs \ {q}) \cup {[q EXCEPT !.stage = "answered", !.got = Preferences(q.cwd)']}
    /\ UNCHANGED <<screen, harness, clicks, faults>>

Advanced(f) ==
    [f EXCEPT !.plan = Tail(@), !.at = IF Len(f.plan) = 1 THEN f.then ELSE "ready"]

(* A POST that fails on its way ends the firing of its hooks.                *)
Interrupted(f) == IF f.at = "hooks" THEN [Advanced(f) EXCEPT !.todo = {}, !.child = None] ELSE f

(* The file is written in place: a crash leaves one that reads as empty, and *)
(* the requests that were not served fail, those that fire hooks too.        *)
Torn(q) ==
    /\ q.stage = "sent" /\ q.kind = "save" /\ faults < MaxFaults /\ faults' = faults + 1
    /\ file' = [file EXCEPT ![q.layer] = Empty] /\ reqs' = {p \in reqs : p.stage = "answered"}
    /\ loading' = (loading /\ \A p \in reqs \ reqs' : p.kind # "load")
    /\ run' = [r \in Runs |-> Interrupted(run[r])]
    /\ UNCHANGED <<at, open, data, ran, reviewed, clicks>>

Lost(q) ==
    /\ faults < MaxFaults /\ reqs' = reqs \ {q} /\ faults' = faults + 1 /\ Ended(q)
    /\ UNCHANGED <<file, at, open, data, harness, reviewed, clicks>>

(* setData, whatever is active by now                                        *)
Answered(q) ==
    /\ q.stage = "answered" /\ data' = Bundle(q.cwd, q.got) /\ reqs' = reqs \ {q} /\ Ended(q)
    /\ UNCHANGED <<file, at, open, harness, reviewed, clicks, faults>>

Routes == \E q \in reqs : Get(q) \/ Put(q) \/ Torn(q) \/ Lost(q) \/ Answered(q)

-----------------------------------------------------------------------------
(* A run of the harness and its hooks *)

rest == <<file, screen, reqs, reviewed, clicks>>

(* Fire the hooks of these events, one POST after the other, and go on.      *)
Plan(r, events, then) ==
    run' = [run EXCEPT ![r].at = IF events = <<>> THEN then ELSE "ready", ![r].plan = events, ![r].then = then]

(* The composer of a session fires prompt_submit before it starts the        *)
(* harness.                                                                  *)
Submit(r) ==
    /\ run[r].at = "none" /\ at # None
    /\ run' = [run EXCEPT ![r].at = "ready", ![r].plan = <<"prompt_submit">>, ![r].then = "agent", ![r].cwd = at]
    /\ UNCHANGED <<rest, ran, faults>>

(* The background runner starts it at once, in the checkout of its job.      *)
Start(r) ==
    /\ run[r].at = "none"
    /\ \E w \in Workspaces : run' = [run EXCEPT ![r].at = "agent", ![r].cwd = w]
    /\ UNCHANGED <<rest, ran, faults>>

Matching(cwd, event) ==
    LET p == Preferences(cwd) IN
    {[id |-> t, trust |-> Trust(p, t)] :
        t \in {h \in Hooks \cap Discovered(p, cwd) : Enabled(p, h) /\ Event[h] = event}}

(* A POST discovers the extensions once, and runs the hooks in turn.         *)
Fire(r) ==
    /\ run[r].at = "ready"
    /\ run' = [run EXCEPT ![r].at = "hooks", ![r].todo = Matching(run[r].cwd, Head(run[r].plan))]
    /\ UNCHANGED <<rest, ran, faults>>

(* A failed POST is not retried: hooks never break the harness.              *)
FireLost(r) ==
    /\ run[r].at = "ready" /\ faults < MaxFaults /\ faults' = faults + 1
    /\ run' = [run EXCEPT ![r] = Advanced(@)]
    /\ UNCHANGED <<rest, ran>>

(* Mutant: only denied hooks are skipped.                                    *)
SkipsDenied(h) == h.trust = "denied"

(* Denied hooks are skipped, and those that still need review.               *)
Skips(h) == h.trust \in {"denied", "untrusted"}

(* A command needs the policy's allowance besides; it is spawned and awaited.*)
RunHook(r, h) ==
    /\ run[r].at = "hooks" /\ run[r].child = None /\ h \in run[r].todo
    /\ \/ /\ Skips(h) \/ Kind[h.id] = "command"
          /\ run' = [run EXCEPT ![r].todo = @ \ {h}] /\ UNCHANGED ran
       \/ /\ ~Skips(h) /\ ran' = ran \cup {h.id}
          /\ run' = [run EXCEPT ![r].todo = @ \ {h},
                                ![r].child = IF Kind[h.id] = "command" THEN h.id ELSE None]
    /\ UNCHANGED <<rest, faults>>

ChildEnds(r) == run[r].child # None /\ run' = [run EXCEPT ![r].child = None] /\ UNCHANGED <<rest, ran, faults>>

(* Mutant: the child of a hook that times out is killed, its end awaited.    *)
NeverTimesOut(r) == FALSE /\ UNCHANGED vars

(* runCommandHook settles on the child's end or error, or on its timeout.    *)
Exits(r) == ChildEnds(r)
TimesOut(r) == ChildEnds(r)

(* The results become events of the session, and the harness goes on.        *)
Fired(r) ==
    /\ run[r].at = "hooks" /\ run[r].child = None /\ run[r].todo = {}
    /\ run' = [run EXCEPT ![r] = Advanced(@)]
    /\ UNCHANGED <<rest, ran, faults>>

(* The agent's stream ends; session_end is for a clean exit.                 *)
AgentExits(r) ==
    /\ run[r].at = "agent"
    /\ Plan(r, <<"stop">>, "over") \/ Plan(r, <<"stop", "session_end">>, "over")
    /\ UNCHANGED <<rest, ran, faults>>

(* The user stops the run.  An abort seen between two chunks leaves the loop *)
(* after firing stop, and the run ends like any other; one that rejects the  *)
(* pending read returns at once, as a denied approval does.                  *)
AbortSeen(r) ==
    /\ run[r].at = "agent"
    /\ Plan(r, <<"stop", "stop">>, "over") \/ Plan(r, <<"stop", "stop", "session_end">>, "over")
    /\ UNCHANGED <<rest, ran, faults>>
AbortRejects(r) == run[r].at = "agent" /\ Plan(r, <<>>, "over") /\ UNCHANGED <<rest, ran, faults>>

(* A launch or a stream that fails ends the run with an error.               *)
RunFails(r) ==
    /\ run[r].at = "agent" /\ run' = [run EXCEPT ![r].at = "failed"]
    /\ UNCHANGED <<rest, ran, faults>>

Step(r) == Fire(r) \/ Fired(r) \/ TimesOut(r) \/ \E h \in run[r].todo : RunHook(r, h)
Harness ==
    \E r \in Runs :
        \/ Submit(r) \/ Start(r) \/ Fire(r) \/ FireLost(r) \/ Fired(r) \/ Exits(r) \/ TimesOut(r)
        \/ \E h \in run[r].todo : RunHook(r, h)
        \/ AgentExits(r) \/ AbortSeen(r) \/ AbortRejects(r) \/ RunFails(r)

Next == Dialog \/ Routes \/ Harness
Spec == Init /\ [][Next]_vars
FairSpec == Spec /\ \A r \in Runs : WF_vars(Step(r))

-----------------------------------------------------------------------------
(* Properties *)

(* A hook that is found in a project's hooks folder, or comes with a plugin  *)
(* of a project, runs only after it or its plugin was trusted, in the dialog *)
(* or by the file a workspace came with: whichever layer was written, over   *)
(* overlapping saves, switches, torn files and stale dialogs (hooks.ts:126,  *)
(* 213, plugins.ts:221).  A hook that a preferences file lists itself        *)
(* (userHooks) is read as the user's own, in the file of a workspace too     *)
(* (preferences.ts:87), and is not meant here.                               *)
ReviewedBeforeRun ==
    \A h \in ran :
        \/ h \in reviewed \/ Plugin[h] \in reviewed
        \/ Source[h] # "project" /\ (Plugin[h] = None \/ Source[Plugin[h]] # "project")

(* A save changes what its patch names in the layer it names, and nothing    *)
(* another save has written meanwhile, unless the write is torn              *)
(* (preferences.ts:174).                                                     *)
OnlyTheNamedChange ==
    [][\/ faults' # faults
       \/ \E q \in reqs :
            /\ \A l \in Layers \ {q.layer} : file'[l] = file[l]
            /\ \A t \in Things \ {q.patch.of} : file'[q.layer].entry[t] = file[q.layer].entry[t]
            /\ \A t \in Own : Kind[t] # q.patch.kind => (t \in file'[q.layer].own <=> t \in file[q.layer].own)
       ]_file

(* The harness waits for its hooks, and it does not wait for ever: a hook    *)
(* that hangs is cut off (hooks.ts:398, harness.ts:490).                     *)
HooksEnd == \A r \in Runs : run[r].at = "hooks" ~> run[r].at # "hooks"
=============================================================================

------------------------------- MODULE Settings -------------------------------
(* Layered settings: lib/settings/settings-fs.ts and merge.ts keep a user file *)
(* and one file per project, the routes read and write them, and the settings  *)
(* dialog of each client loads, edits and saves what they resolve to.          *)
EXTENDS Naturals

CONSTANTS
    Clients,
    Projects,    \* workspaces with a .spok/settings.json
    Modes,       \* permission modes
    MaxClicks,   \* bound: what the users of the dialogs do
    MaxFaults    \* bound: lost requests and torn writes

VARIABLES
    file,     \* the user's layer and each project's
    managed,  \* the layer of the environment
    at,       \* each client's active workspace
    open,     \* clients whose dialog is open
    loading,  \* the dialog's loading flag
    draft,    \* the dialog's draft, kept while it is closed
    shown,    \* appPermissionMode: the mode the client shows
    reqs,     \* each client's requests, the answers included
    sole,     \* clients that wrote last
    own,      \* the save of a client that nothing has overtaken
    clicks, faults

vars == <<file, managed, at, open, loading, draft, shown, reqs, sole, own, clicks, faults>>

None == "none"
Files == Projects \cup {"user"}

(* A layer, partial: the mode, which the dialog offers, and a limit it does    *)
(* not offer (maxRestoredSessions, maxConcurrentBackground)                    *)
Layers == [mode : Modes \cup {None}, limit : {1, 2, 0}]
Empty == [mode |-> None, limit |-> 0]
Default == [mode |-> "manual", limit |-> 1]

(* apply: what a layer defines overrides the layers below it                   *)
Over(low, high) ==
    [mode |-> IF high.mode = None THEN low.mode ELSE high.mode,
     limit |-> IF high.limit = 0 THEN low.limit ELSE high.limit]

Project(f, p) == IF p = None THEN Empty ELSE f[p]

(* Mutant: the project's layer below the user's.                               *)
ResolveProjectFirst(f, p) == Over(Over(Over(Default, managed), Project(f, p)), f["user"])

(* mergeLayeredSettings: defaults, managed, user, project                      *)
Resolve(f, p) == Over(Over(Over(Default, managed), f["user"]), Project(f, p))

Req(kind, stage, p, layer, mode) ==
    [kind |-> kind, stage |-> stage, cwd |-> p, layer |-> layer, mode |-> mode, got |-> Empty]
Requests ==
    [kind : {"load", "save", "reset"}, stage : {"put", "get", "answered"},
     cwd : Projects \cup {None}, layer : Files, mode : Modes \cup {None}, got : Layers]

TypeOK ==
    /\ file \in [Files -> Layers] /\ managed \in Layers
    /\ at \in [Clients -> Projects \cup {None}] /\ open \subseteq Clients /\ loading \subseteq Clients
    /\ draft \in [Clients -> Layers] /\ shown \in [Clients -> Modes]
    /\ \A c \in Clients : reqs[c] \subseteq Requests
    /\ sole \subseteq Clients
    /\ own \in [Clients -> [cwd : Projects \cup {None}, layer : Files \cup {None}, mode : Modes \cup {None}]]
    /\ clicks \in 0..MaxClicks /\ faults \in 0..MaxFaults

NoSave == [cwd |-> None, layer |-> None, mode |-> None]

(* At boot a client reads the settings without a workspace.                    *)
Init ==
    /\ managed \in {Empty, [Empty EXCEPT !.mode = "auto"]}
    /\ file \in [Files -> {Empty, [mode |-> "auto", limit |-> 2]}]
    /\ \E p \in Projects \cup {None} : at = [c \in Clients |-> p]
    /\ open = {} /\ loading = {}
    /\ draft = [c \in Clients |-> Empty]
    /\ shown = [c \in Clients |-> Resolve(file, None).mode]
    /\ reqs = [c \in Clients |-> {}] /\ sole = {} /\ own = [c \in Clients |-> NoSave]
    /\ clicks = 0 /\ faults = 0

Click == clicks < MaxClicks /\ clicks' = clicks + 1
disk == <<file, managed, sole>>

-----------------------------------------------------------------------------
(* The dialog                                                                  *)
Saving(c) == \E r \in reqs[c] : r.kind # "load"

Sends(c, r) == reqs' = [reqs EXCEPT ![c] = @ \cup {r}]
Loads(c, p) == Sends(c, Req("load", "get", p, "user", None)) /\ loading' = loading \cup {c}

(* The effect on [open, load]: opened, or open as the workspace changes        *)
OpenDialog(c) ==
    /\ Click /\ c \notin open /\ open' = open \cup {c} /\ Loads(c, at[c])
    /\ UNCHANGED <<disk, at, draft, shown, own, faults>>

CloseDialog(c) ==
    /\ c \in open /\ open' = open \ {c}
    /\ UNCHANGED <<disk, at, loading, draft, shown, reqs, own, clicks, faults>>

SwitchTo(c, p) ==
    /\ Click /\ p # at[c] /\ at' = [at EXCEPT ![c] = p]
    /\ IF c \in open THEN Loads(c, p) ELSE UNCHANGED <<loading, reqs>>
    /\ UNCHANGED <<disk, open, draft, shown, own, faults>>

(* The body is hidden while the dialog loads or has nothing to show            *)
Usable(c) == c \in open /\ c \notin loading /\ draft[c] # Empty

Reload(c) ==
    /\ Click /\ Usable(c) /\ ~Saving(c) /\ Loads(c, at[c])
    /\ UNCHANGED <<disk, at, open, draft, shown, own, faults>>

PatchMode(c, m) ==
    /\ Usable(c) /\ draft[c].mode # m /\ draft' = [draft EXCEPT ![c].mode = m]
    /\ UNCHANGED <<disk, at, open, loading, shown, reqs, own, clicks, faults>>

(* save: the whole draft goes to one layer, whatever layer it came from        *)
Save(c, layer) ==
    /\ Click /\ Usable(c) /\ ~Saving(c) /\ layer \in {"user", at[c]} \ {None}
    /\ Sends(c, Req("save", "put", at[c], layer, draft[c].mode))
    /\ UNCHANGED <<disk, at, open, loading, draft, shown, own, faults>>

(* resetUser: read back without a workspace                                    *)
ResetUser(c) ==
    /\ Click /\ Usable(c) /\ ~Saving(c)
    /\ Sends(c, Req("reset", "put", None, "user", None))
    /\ UNCHANGED <<disk, at, open, loading, draft, shown, own, faults>>

-----------------------------------------------------------------------------
(* Mutant: the layer is replaced by what was sent.                             *)
WrittenWhole(r) == IF r.kind = "reset" THEN Empty ELSE [Empty EXCEPT !.mode = r.mode]

(* saveUserSettings, saveProjectSettings: {...prev, ...partial}; a reset       *)
(* removes the file                                                            *)
Written(r) ==
    IF r.kind = "reset" THEN Empty ELSE Over(file[r.layer], [Empty EXCEPT !.mode = r.mode])

(* handleSettingsPut, and atomicWrite: where the rename fails the file is      *)
(* written in place, and torn by a crash it reads as an empty layer            *)
Put(c, r) ==
    /\ r.stage = "put"
    /\ \/ file' = [file EXCEPT ![r.layer] = Written(r)] /\ UNCHANGED faults
       \/ /\ r.kind = "save" /\ faults < MaxFaults /\ faults' = faults + 1
          /\ file' = [file EXCEPT ![r.layer] = Empty]
    /\ sole' = IF faults' = faults THEN {c} ELSE {}
    /\ own' = [d \in Clients |-> NoSave]
    /\ reqs' = [reqs EXCEPT ![c] = (@ \ {r}) \cup {[r EXCEPT !.stage = "get"]}]
    /\ UNCHANGED <<managed, at, open, loading, draft, shown, clicks>>

(* handleSettingsGet: resolveSettings                                          *)
Get(c, r) ==
    /\ r.stage = "get"
    /\ reqs' = [reqs EXCEPT ![c] = (@ \ {r}) \cup
                  {[r EXCEPT !.stage = "answered", !.got = Resolve(file, r.cwd)]}]
    /\ UNCHANGED <<disk, at, open, loading, draft, shown, own, clicks, faults>>

Finished(c, r) ==
    /\ reqs' = [reqs EXCEPT ![c] = @ \ {r}]
    /\ loading' = IF r.kind = "load" THEN loading \ {c} ELSE loading

(* load, save and resetUser after their await: whatever came in between, the   *)
(* answer becomes the draft and the mode shown                                 *)
Apply(c, r) ==
    /\ r.stage = "answered" /\ Finished(c, r)
    /\ draft' = [draft EXCEPT ![c] = r.got] /\ shown' = [shown EXCEPT ![c] = r.got.mode]
    /\ own' = [own EXCEPT ![c] =
                 IF r.kind = "save" /\ c \in sole
                 THEN [cwd |-> r.cwd, layer |-> r.layer, mode |-> r.mode] ELSE NoSave]
    /\ UNCHANGED <<disk, at, open, clicks, faults>>

RequestLost(c, r) ==
    /\ r.stage # "answered" /\ faults < MaxFaults /\ faults' = faults + 1 /\ Finished(c, r)
    /\ UNCHANGED <<disk, at, open, draft, shown, own, clicks>>

Dialog(c) ==
    \/ OpenDialog(c) \/ CloseDialog(c) \/ Reload(c) \/ ResetUser(c)
    \/ \E p \in Projects : SwitchTo(c, p)
    \/ \E m \in Modes : PatchMode(c, m)
    \/ \E layer \in Files : Save(c, layer)

Request(c) == \E r \in reqs[c] : Put(c, r) \/ Get(c, r) \/ Apply(c, r) \/ RequestLost(c, r)

Next == \E c \in Clients : Dialog(c) \/ Request(c)

Spec == Init /\ [][Next]_vars

-----------------------------------------------------------------------------
(* A save that was reported, and that no other write overtook, is in force:    *)
(* the client shows what the saved workspace resolves to, and that is the      *)
(* mode it saved unless the project's own file says otherwise                  *)
(* (settings-client.ts:41, merge.ts:90).                                       *)
SavedIsInForce ==
    \A c \in Clients :
        LET s == own[c]
        IN s.layer # None =>
             /\ shown[c] = Resolve(file, s.cwd).mode
             /\ (s.layer = "user" => Project(file, s.cwd).mode = None) => shown[c] = s.mode

(* A save loses none of the settings it does not carry: a layer's other keys   *)
(* go only with the whole layer, by a reset or a torn write                    *)
(* (settings-fs.ts:88, settings-fs.ts:103).                                    *)
OthersAreKept ==
    [][\A f \in Files : file'[f].limit # file[f].limit => file'[f] = Empty]_vars
=============================================================================

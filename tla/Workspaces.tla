------------------------------ MODULE Workspaces ------------------------------
(* Opening a repository: the launch dialog of the desktop, the folder picker   *)
(* of the phone, the folder browser both embed, and openWorkspaceSession,      *)
(* which reuses, stops or creates a session for the checkout.                  *)
EXTENDS Naturals

CONSTANTS
    Folders,   \* repositories, as normalizeWorkspacePath tells them apart
    Sessions,  \* session ids
    MaxClicks, \* bound: what the user does
    MaxRuns,   \* bound: runs that start
    MaxFaults  \* bound: lost requests and revocations

VARIABLES
    device,    \* which of the two pickers this client shows
    restricted, \* browseRestrictedToTrusted
    trusted,   \* the roots the server trusts
    listed,    \* trustedRoots: what the dialog knows of them
    checking,  \* the listing that is under way
    open, broken, \* a picker is shown; its render has thrown
    cwd,       \* the folder on screen
    ticked,    \* trustConfirmed
    tickedAt,  \* the folder on screen when the box was ticked
    browses,   \* folders asked of the browser and not yet answered
    task, chosen, saved, \* a task is typed; the target chosen, and the one remembered
    last,      \* spok.lastCwd
    busy, launches, \* submitting; the launches under way
    conflict,  \* the run the phone's banner names
    status, folder, kind, \* of each session
    active,
    clicks, runs, faults

vars == <<device, restricted, trusted, listed, checking, open, broken, cwd, ticked, tickedAt,
          browses, task, chosen, saved, last, busy, launches, conflict, status, folder, kind,
          active, clicks, runs, faults>>

None == "none"
Targets == {"interactive", "background"}
Launch(f, bg, decision, stage) ==
    [cwd |-> f, background |-> bg, decision |-> decision, stage |-> stage, victim |-> None,
     ticked |-> tickedAt, receipt |-> f \in listed, n |-> clicks]
Launches ==
    [cwd : Folders, background : BOOLEAN, decision : {None, "reuse", "stop"},
     stage : {"trust", "open", "stopping", "again"}, victim : Sessions \cup {None},
     ticked : Folders \cup {None}, receipt : BOOLEAN, n : 0..MaxClicks]

TypeOK ==
    /\ device \in {"desktop", "browser", "phone"} /\ restricted \in BOOLEAN
    /\ trusted \subseteq Folders /\ listed \subseteq Folders /\ checking \in BOOLEAN
    /\ open \in BOOLEAN /\ broken \in BOOLEAN /\ cwd \in Folders \cup {None}
    /\ ticked \in BOOLEAN /\ tickedAt \in Folders \cup {None} /\ browses \subseteq Folders
    /\ task \in BOOLEAN /\ chosen \in Targets \cup {None} /\ saved \in Targets \cup {None}
    /\ last \in Folders \cup {None} /\ busy \in BOOLEAN /\ launches \subseteq Launches
    /\ conflict \in Sessions \cup {None}
    /\ status \in [Sessions -> {"none", "idle", "live", "stopped"}]
    /\ folder \in [Sessions -> Folders] /\ kind \in [Sessions -> {"plain", "isolated"}]
    /\ active \in Sessions \cup {None}
    /\ clicks \in 0..MaxClicks /\ runs \in 0..MaxRuns /\ faults \in 0..MaxFaults

Init ==
    /\ device \in {"desktop", "browser", "phone"} /\ restricted \in BOOLEAN
    /\ \E r \in Folders : trusted \in {{}, {r}}
    /\ listed = {} /\ checking = FALSE /\ open = FALSE /\ broken = FALSE
    /\ ticked = FALSE /\ tickedAt = None /\ browses = {}
    /\ task = FALSE /\ chosen = None /\ saved = None
    /\ busy = FALSE /\ launches = {} /\ conflict = None
    /\ LET s == CHOOSE i \in Sessions : TRUE
           f == CHOOSE g \in Folders : TRUE
       IN /\ status = [i \in Sessions |-> IF i = s THEN "live" ELSE "none"]
          /\ folder = [i \in Sessions |-> f]
          /\ \E k \in {"plain", "isolated"} : kind = [i \in Sessions |-> IF i = s THEN k ELSE "plain"]
          /\ active = s /\ last = f
          /\ cwd = IF device = "phone" THEN f ELSE None
    /\ clicks = 0 /\ runs = 0 /\ faults = 0

Phone == device = "phone"
Click == ~broken /\ clicks < MaxClicks /\ clicks' = clicks + 1
Fault == faults < MaxFaults /\ faults' = faults + 1
fleet == <<status, folder, kind, active>>
form == <<task, chosen, saved>>
store == <<trusted, restricted, device>>

-----------------------------------------------------------------------------
(* A live foreground run, not isolated, of exactly this checkout               *)
Runs(f) == {s \in Sessions : status[s] = "live" /\ kind[s] = "plain" /\ folder[s] = f}

(* Mutant: a run in a worktree of the folder counts as one in its checkout.    *)
ConflictsIsolatedToo(f) == {s \in Sessions : status[s] = "live" /\ folder[s] = f}

(* findWorkspaceRunConflict: the newest of them                                *)
Conflicts(f) == Runs(f)

(* Mutant: the trust effect of the dialog forgets the confirmation only when   *)
(* the dialog opens.                                                           *)
ShowsTicked(f) ==
    /\ cwd' = f /\ UNCHANGED <<ticked, tickedAt>>
    /\ checking' = IF Phone \/ ~open THEN checking ELSE checking \/ f # cwd

(* setCwd, and the effects of the launch dialog on it: a folder that comes on  *)
(* screen is not confirmed, and its trust is looked up.  The phone's picker    *)
(* has no such effect.                                                         *)
Shows(f) ==
    /\ cwd' = f
    /\ IF Phone \/ f = cwd THEN UNCHANGED <<ticked, tickedAt>> ELSE ticked' = FALSE /\ tickedAt' = None
    /\ checking' = IF Phone \/ ~open THEN checking ELSE checking \/ f # cwd

(* Opening the dialog resets all but what localStorage remembers; the browser  *)
(* is mounted with the folder of the last time or the remembered one.  The     *)
(* phone's picker keeps its state, which outlives its closing.                 *)
Open ==
    /\ Click /\ ~open /\ open' = TRUE
    /\ IF Phone
       THEN /\ browses' = browses \cup ({cwd} \ {None})
            /\ UNCHANGED <<cwd, ticked, tickedAt, checking, task, chosen, busy>>
       ELSE /\ cwd' = (IF last = None THEN cwd ELSE last)
            /\ ticked' = FALSE /\ tickedAt' = None /\ checking' = TRUE
            /\ task' = FALSE /\ chosen' = None /\ busy' = FALSE
            /\ browses' = IF device = "desktop" THEN browses
                          ELSE browses \cup (IF cwd = None THEN {last} ELSE {cwd})
    /\ UNCHANGED <<store, listed, broken, saved, last, launches, conflict, fleet, runs, faults>>

Close ==
    /\ ~broken /\ open /\ (Phone => ~busy) /\ open' = FALSE /\ checking' = FALSE
    /\ UNCHANGED <<store, listed, broken, cwd, ticked, tickedAt, browses, form, last, busy,
                   launches, conflict, fleet, clicks, runs, faults>>

(* goTo, goUp, a typed path, a refresh: nothing cancels the earlier one        *)
Browse(f) ==
    /\ Click /\ open /\ browses' = browses \cup {f}
    /\ UNCHANGED <<store, listed, checking, open, broken, cwd, ticked, tickedAt, form, last, busy,
                   launches, conflict, fleet, runs, faults>>

(* handleFsBrowseGet: once a root is trusted the others may be off limits      *)
Denied(f) == restricted /\ trusted # {} /\ f \notin trusted

(* browse after its await, whichever answer comes first and shown or not: the  *)
(* folder answered comes on screen; a denial carries no path, and the picker   *)
(* throws on its next render                                                   *)
BrowseAnswered(f) ==
    /\ f \in browses /\ browses' = browses \ {f}
    /\ IF Denied(f)
       THEN broken' = TRUE /\ open' = FALSE /\ UNCHANGED <<cwd, ticked, tickedAt, checking>>
       ELSE Shows(f) /\ UNCHANGED <<broken, open>>
    /\ UNCHANGED <<store, listed, form, last, busy, launches, conflict, fleet, clicks, runs, faults>>

BrowseLost(f) ==
    /\ Fault /\ f \in browses /\ browses' = browses \ {f}
    /\ UNCHANGED <<store, listed, checking, open, broken, cwd, ticked, tickedAt, form, last, busy,
                   launches, conflict, fleet, clicks, runs>>

(* pickNative and a click on a listed folder: no request                       *)
Pick(f) ==
    /\ Click /\ open /\ f # cwd /\ Shows(f)
    /\ UNCHANGED <<store, listed, open, broken, browses, form, last, busy, launches, conflict,
                   fleet, runs, faults>>

(* The listing of trusted roots, debounced and cancelled by the next           *)
Listed ==
    /\ checking /\ checking' = FALSE
    /\ \/ listed' = trusted /\ UNCHANGED faults
       \/ Fault /\ listed' = {}
    /\ UNCHANGED <<store, open, broken, cwd, ticked, tickedAt, browses, form, last, busy, launches,
                   conflict, fleet, clicks, runs>>

Receipt == cwd \in listed

(* The box is offered without a receipt, on the phone always                   *)
Tick ==
    /\ Click /\ open /\ cwd # None /\ (Phone \/ (~checking /\ ~Receipt))
    /\ ticked' = ~ticked /\ tickedAt' = IF ticked THEN None ELSE cwd
    /\ UNCHANGED <<store, listed, checking, open, broken, cwd, browses, form, last, busy, launches,
                   conflict, fleet, runs, faults>>

(* The task, and the target the user chooses for it                            *)
Describe(t) ==
    /\ Click /\ open /\ ~Phone /\ ~task /\ task' = TRUE /\ chosen' = t
    /\ UNCHANGED <<store, listed, checking, open, broken, cwd, ticked, tickedAt, browses, saved,
                   last, busy, launches, conflict, fleet, runs, faults>>

Target ==
    CASE chosen # None -> chosen
      [] chosen = None /\ ~task -> "interactive"
      [] chosen = None /\ task /\ saved # None -> saved
      [] OTHER -> IF active # None /\ folder[active] = cwd
                  THEN "background" ELSE "interactive"

-----------------------------------------------------------------------------
(* launch: validateTaskLaunch, and no launch without the authority for it      *)
Submit ==
    /\ Click /\ open /\ ~Phone /\ cwd # None /\ ~busy /\ (Receipt \/ ticked)
    /\ busy' = TRUE /\ launches' = launches \cup {Launch(cwd, Target = "background", None, "trust")}
    /\ UNCHANGED <<store, listed, checking, open, broken, cwd, ticked, tickedAt, browses, form,
                   last, conflict, fleet, runs, faults>>

(* confirm on the phone: a run of the checkout is shown first, and only seeing *)
(* that run needs no confirmation                                              *)
Confirm(decision) ==
    /\ Click /\ open /\ Phone /\ cwd # None
    /\ IF decision = None THEN TRUE ELSE conflict # None
    /\ IF decision = None /\ Conflicts(cwd) # {}
       THEN (\E s \in Conflicts(cwd) : conflict' = s) /\ UNCHANGED <<busy, launches>>
       ELSE /\ decision = "reuse" \/ ticked
            /\ busy' = TRUE /\ UNCHANGED conflict
            /\ launches' = launches \cup
                 {Launch(cwd, FALSE, decision, IF decision = "reuse" THEN "open" ELSE "trust")}
    /\ UNCHANGED <<store, listed, checking, open, broken, cwd, ticked, tickedAt, browses, form,
                   last, fleet, runs, faults>>

CancelConflict ==
    /\ ~broken /\ open /\ conflict # None /\ conflict' = None
    /\ UNCHANGED <<store, listed, checking, open, broken, cwd, ticked, tickedAt, browses, form,
                   last, busy, launches, fleet, clicks, runs, faults>>

(* setOpen(false) or onClose: whichever picker is open by now closes           *)
Finished(l) ==
    /\ launches' = launches \ {l} /\ busy' = FALSE /\ conflict' = None
    /\ open' = FALSE /\ checking' = FALSE
    /\ UNCHANGED <<store, listed, broken, cwd, ticked, tickedAt, browses, task, chosen, clicks, runs,
                   faults>>

Reuses(l) == \E s \in Conflicts(l.cwd) : active' = s
Creates(f) ==
    \E s \in Sessions :
        /\ status[s] = "none" /\ status' = [status EXCEPT ![s] = "idle"]
        /\ folder' = [folder EXCEPT ![s] = f] /\ kind' = [kind EXCEPT ![s] = "plain"]
        /\ active' = s /\ last' = f

Remembers(l) == saved' = IF Phone THEN saved ELSE IF l.background THEN "background" ELSE "interactive"

(* Mutant: a session is created whatever runs in the checkout.                 *)
OpensAnyway(l) == Creates(l.cwd) /\ Remembers(l) /\ Finished(l)

(* openWorkspaceSession up to its first await                                  *)
Opens(l) ==
    IF Conflicts(l.cwd) = {} THEN Creates(l.cwd) /\ Remembers(l) /\ Finished(l)
    ELSE IF l.decision # "stop"
    THEN /\ Reuses(l) /\ Remembers(l) /\ Finished(l)
         /\ last' = (IF Phone THEN last ELSE l.cwd) /\ UNCHANGED <<status, folder, kind>>
    ELSE /\ \E s \in Conflicts(l.cwd) :
              launches' = (launches \ {l}) \cup {[l EXCEPT !.stage = "stopping", !.victim = s]}
         /\ UNCHANGED <<store, listed, checking, open, broken, cwd, ticked, tickedAt, browses, form,
                        last, busy, conflict, fleet, clicks, runs, faults>>

(* trustWorkspace has trusted the folder on the server                         *)
Trusts(l) ==
    /\ l.stage = "trust" /\ trusted' = trusted \cup {l.cwd}
    /\ launches' = (launches \ {l}) \cup {[l EXCEPT !.stage = "open"]}
    /\ UNCHANGED <<device, restricted, listed, checking, open, broken, cwd, ticked, tickedAt,
                   browses, form, last, busy, conflict, fleet, clicks, runs, faults>>

(* Its answer: a background job is queued for the folder, or the session is    *)
(* opened there                                                                *)
Answered(l) ==
    /\ l.stage = "open"
    /\ IF l.background
       THEN /\ last' = l.cwd /\ saved' = "background" /\ Finished(l)
            /\ UNCHANGED fleet
       ELSE Opens(l)

(* The request fails, or its answer is lost: the problem is shown              *)
TrustFails(l) ==
    /\ Fault /\ l.stage \in {"trust", "open"} /\ l.decision # "reuse"
    /\ launches' = launches \ {l} /\ busy' = FALSE /\ conflict' = None
    /\ UNCHANGED <<store, listed, checking, open, broken, cwd, ticked, tickedAt, browses, form,
                   last, fleet, clicks, runs>>

(* stopHarnessProcess, answered or lost: a run still live is marked stopped;   *)
(* the checkout is looked at once more                                         *)
Stopped(l) ==
    /\ l.stage \in {"stopping", "again"}
    /\ LET ended == IF status[l.victim] = "live" THEN {l.victim} ELSE {}
           rest == Conflicts(l.cwd) \ ended
           after == [s \in Sessions |-> IF s \in ended THEN "stopped" ELSE status[s]]
       IN IF rest # {} /\ l.stage = "stopping"
          THEN /\ status' = after
               /\ \E s \in rest :
                    launches' = (launches \ {l}) \cup {[l EXCEPT !.stage = "again", !.victim = s]}
               /\ UNCHANGED <<store, listed, checking, open, broken, cwd, ticked, tickedAt, browses,
                              form, last, busy, conflict, folder, kind, active, clicks, runs, faults>>
          ELSE \E s \in Sessions :
               /\ status[s] = "none" /\ status' = [after EXCEPT ![s] = "idle"]
               /\ folder' = [folder EXCEPT ![s] = l.cwd] /\ kind' = [kind EXCEPT ![s] = "plain"]
               /\ active' = s /\ last' = l.cwd /\ Remembers(l) /\ Finished(l)

LaunchStep == \E l \in launches : Trusts(l) \/ Answered(l) \/ TrustFails(l) \/ Stopped(l)

(* "+" of the sidebar and the palette: resolveCurrentWorkspace, then the same  *)
(* opening without a decision                                                  *)
NewSession ==
    /\ Click /\ ~Phone /\ ~open /\ active # None
    /\ IF Conflicts(folder[active]) # {}
       THEN (\E s \in Conflicts(folder[active]) : active' = s) /\ UNCHANGED <<status, folder, kind, last>>
       ELSE Creates(folder[active])
    /\ UNCHANGED <<store, listed, checking, open, broken, cwd, ticked, tickedAt, browses, form,
                   busy, launches, conflict, runs, faults>>

-----------------------------------------------------------------------------
(* Around the pickers: runs start and end, and roots are revoked in Settings   *)
RunStarts(s) ==
    /\ runs < MaxRuns /\ status[s] \in {"idle", "stopped"} /\ folder[s] \in trusted
    /\ status' = [status EXCEPT ![s] = "live"] /\ runs' = runs + 1
    /\ UNCHANGED <<store, listed, checking, open, broken, cwd, ticked, tickedAt, browses, form,
                   last, busy, launches, conflict, folder, kind, active, clicks, faults>>

RunEnds(s) ==
    /\ status[s] = "live" /\ status' = [status EXCEPT ![s] = "idle"]
    /\ UNCHANGED <<store, listed, checking, open, broken, cwd, ticked, tickedAt, browses, form,
                   last, busy, launches, conflict, folder, kind, active, clicks, runs, faults>>

Revoke(r) ==
    /\ Fault /\ r \in trusted /\ trusted' = trusted \ {r}
    /\ UNCHANGED <<device, restricted, listed, checking, open, broken, cwd, ticked, tickedAt,
                   browses, form, last, busy, launches, conflict, fleet, clicks, runs>>

User ==
    \/ Open \/ Close \/ Tick \/ Submit \/ CancelConflict \/ NewSession
    \/ \E f \in Folders : Browse(f) \/ Pick(f)
    \/ \E t \in Targets \cup {None} : Describe(t)
    \/ \E d \in {None, "reuse", "stop"} : Confirm(d)

Next ==
    \/ User \/ LaunchStep \/ Listed
    \/ \E f \in Folders : BrowseAnswered(f) \/ BrowseLost(f) \/ Revoke(f)
    \/ \E s \in Sessions : RunStarts(s) \/ RunEnds(s)

Spec == Init /\ [][Next]_vars

-----------------------------------------------------------------------------
(* "Selection alone grants no authority" (mobile-folder-picker.tsx:186): a     *)
(* folder becomes trusted only by a launch that the user confirmed while that  *)
(* very folder was on screen, or that found a receipt for it; however late the *)
(* browser answers.  The phone does not keep it (README, section 7).           *)
TrustIsConfirmed ==
    [][\A f \in trusted' \ trusted :
         \E l \in launches : l.cwd = f /\ (l.receipt \/ l.ticked = f)]_vars

(* What the pickers keep of it: the launch dialog all (launch-dialog.tsx:145), *)
(* the phone's picker that some folder was confirmed since it was mounted      *)
(* (mobile-folder-picker.tsx:58).                                              *)
TrustIsAskedFor ==
    [][\A f \in trusted' \ trusted :
         \E l \in launches :
             /\ l.cwd = f
             /\ l.receipt \/ l.ticked = f \/ (Phone /\ l.ticked # None)]_vars

(* A checkout with a live run gets no second session unless the user decided   *)
(* to stop that run, whatever started while trust was asked for                *)
(* (workspace-session.ts:32, session-lifecycle-client.ts:43).                  *)
SameCheckoutIsReused ==
    [][\A s \in Sessions :
         status[s] = "none" /\ status'[s] # "none" =>
             \/ Runs(folder'[s]) = {}
             \/ \E l \in launches \ launches' : l.decision = "stop"]_vars

(* Opening a folder stops no run but one of the checkout that was decided on:  *)
(* none in another repository or in a worktree (workspace-session.ts:31).      *)
UnrelatedRunsContinue ==
    [][\A s \in Sessions :
         status[s] = "live" /\ status'[s] = "stopped" =>
             \E l \in launches : l.decision = "stop" /\ s \in Runs(l.cwd)]_vars
=============================================================================

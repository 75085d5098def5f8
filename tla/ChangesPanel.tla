---------------------------- MODULE ChangesPanel ----------------------------
(* The changes panel of a session: the files git and the agent have        *)
(* reported, the traces that explain each, and what of them is selected.   *)
(* The agent's stream, refreshes from git that overlap, the bound on what  *)
(* is kept in memory and the user's clicks all write the same session      *)
(* (store.ts, session-reduce.ts, causal-links.ts, components/diff).        *)
EXTENDS Integers, Sequences, FiniteSets, Functions

CONSTANTS
    Paths,     \* repository paths
    Rank,      \* their order in the review queue
    Ends,      \* Ends[p]: the other paths whose text the text of p ends with
    Traces,    \* ids of trace nodes
    Kind,      \* what each is: a file_change, a tool, an edit tool or a thought
    MaxHunks,  \* bound: hunks of a diff
    MaxIds,    \* bound: ids given to files
    MaxInputs  \* bound: edits, events, clicks and refreshes that begin

VARIABLES
    git,    \* the dirty hunks of each path in the working tree
    files,  \* session.files by id
    next,   \* the next id createFileDiff draws
    nodes,  \* session.nodes by id
    sel,    \* the selected file and trace
    panel,  \* the panel: its hunk, its discard dialog, the drawer
    task,   \* what is on its way: the button's refresh, a discard, the watch
    seen,   \* the dirty paths the watch saw last, {Null} at first
    left    \* the inputs that the bound still allows

vars == <<git, files, next, nodes, sel, panel, task, seen, left>>

Ids == 1..MaxIds
Hunks == 1..MaxHunks
Null == 0
Absent == [at |-> "absent"]
\* from: when the agent reported these hunks, 0 for those of git
File == [at : {"listed"}, path : Paths, hunks : 0..MaxHunks, from : 0..MaxInputs,
         why : Seq(Traces)]
Link == [file : Ids, path : Paths, lines : SUBSET Hunks]
Node == [at : {"live"}, named : BOOLEAN, names : SUBSET Paths, quotes : SUBSET Hunks,
         links : Seq(Link), time : 0..MaxInputs]
Watches == {"watch", "later watch"}
Tasks == {"button", "act"} \cup Watches
Clean == [p \in Paths |-> 0]
Idle == [at |-> "idle", path |-> Null, status |-> Clean, diff |-> Clean]

Listed(fs) == {i \in Ids : fs[i] # Absent}
Live(ns) == {n \in Traces : ns[n] # Absent}
Dirty(g) == {p \in Paths : g[p] > 0}

TypeOK ==
    /\ git \in [Paths -> 0..MaxHunks]
    /\ files \in [Ids -> File \cup {Absent}] /\ next \in 1..(MaxIds + 1)
    /\ nodes \in [Traces -> Node \cup {Absent}]
    /\ sel \in [file : Ids \cup {Null}, trace : Traces \cup {Null}]
    /\ panel \in [hunk : 0..MaxHunks, asking : BOOLEAN, open : BOOLEAN]
    /\ task \in [Tasks -> [at : {"idle", "sent", "status", "diff", "apply"}, path : Paths \cup {Null},
                           status : [Paths -> 0..MaxHunks], diff : [Paths -> 0..MaxHunks]]]
    /\ seen \in SUBSET (Paths \cup {Null})
    /\ left \in 0..MaxInputs

Init ==
    /\ git \in [Paths -> 0..MaxHunks] /\ files = [i \in Ids |-> Absent] /\ next = 1
    /\ nodes = [n \in Traces |-> Absent] /\ sel = [file |-> Null, trace |-> Null]
    /\ panel = [hunk |-> 0, asking |-> FALSE, open |-> FALSE]
    /\ task = [t \in Tasks |-> Idle] /\ seen = {Null}
    /\ left = MaxInputs

-----------------------------------------------------------------------------
(* Why a file changed *)

Direct(i) == {n \in Range(files[i].why) : n \in Live(nodes)}

(* A link is followed by id or by path.                                    *)
LinksTo(l, i) == l.file = i \/ l.path = files[i].path

Linked(i) == {n \in Live(nodes) : \E l \in Range(nodes[n].links) : LinksTo(l, i)}
Named(i) == {n \in Live(nodes) : Kind[n] = "file_change" /\ files[i].path \in nodes[n].names}

(* getCausalStepsForFile                                                   *)
Steps(i) == Direct(i) \cup Linked(i) \cup Named(i)
Edits(i) == {n \in Steps(i) : Kind[n] = "file_change"}

(* The links of a node go by line, and a hunk has the lines of its index; *)
(* a link to the very hunk needs no path.                                  *)
HitsHunk(n, i, h) ==
    \E l \in Range(nodes[n].links) :
        h \in l.lines /\ (l.path = files[i].path \/ (l.file = i /\ files[i].from = nodes[n].time))

(* The nth edit of a file made its nth hunk, if there are several of each. *)
SameOrder(n, i, h) ==
    /\ n \in Edits(i) /\ Cardinality(Edits(i)) > 1 /\ files[i].hunks > 1
    /\ Cardinality({m \in Edits(i) : nodes[m].time < nodes[n].time}) = h - 1

(* scoreNodeForHunk: the reasons that score the threshold and above; to be *)
(* merely related does not.                                                *)
Specific(n, i, h) ==
    \/ HitsHunk(n, i, h) \/ h \in nodes[n].quotes \/ SameOrder(n, i, h) \/ Edits(i) = {n}
    \/ Kind[n] = "edit" \/ (Kind[n] = "tool" /\ files[i].path \in nodes[n].names)

(* getCausalStepsForHunk also takes what links only the hunk.              *)
HunkSteps(i, h) ==
    {n \in Steps(i) : Specific(n, i, h)} \cup {n \in Live(nodes) : HitsHunk(n, i, h)}

(* Beside the diff: the steps of its hunk, else those of the file.  The   *)
(* drawer shows the latter too, and falls back to the first hunk.          *)
MiniRail(i) ==
    IF panel.hunk < files[i].hunks /\ HunkSteps(i, panel.hunk + 1) # {}
    THEN HunkSteps(i, panel.hunk + 1) ELSE Steps(i)
Drawer(i) ==
    IF ~panel.open THEN {}
    ELSE Steps(i) \cup (IF files[i].hunks = 0 THEN {}
                        ELSE HunkSteps(i, IF panel.hunk < files[i].hunks THEN panel.hunk + 1 ELSE 1))

-----------------------------------------------------------------------------
(* The selection and the panel that renders it *)

session == <<files, next, nodes>>
Shown(fs, s) == IF s.file \in Listed(fs) THEN s.file ELSE Null

(* The effect on file?.id puts the hunk back to the first.                 *)
Rendered(p, fs, s) == IF Shown(fs, s) = Shown(files, sel) THEN p ELSE [p EXCEPT !.hunk = 0]

LinksOf(n) == IF n \in Live(nodes) THEN nodes[n].links ELSE <<>>

(* selectTrace follows the first link, to a file that is listed or not.    *)
WithTrace(s, n) ==
    [file |-> IF LinksOf(n) = <<>> THEN s.file ELSE Head(LinksOf(n)).file, trace |-> n]

(* selectFile takes the first trace of the file with it and opens the rail.*)
Explained(i) == i \in Listed(files) /\ files[i].why # <<>>
WithFile(s, i) == [file |-> i, trace |-> IF Explained(i) THEN Head(files[i].why) ELSE s.trace]
Opened(p, i) == [p EXCEPT !.open = @ \/ Explained(i)]

Input == left > 0 /\ left' = left - 1
Select(s, p) ==
    /\ Input /\ sel' = s /\ panel' = Rendered(p, files, s)
    /\ UNCHANGED <<git, session, task, seen>>

(* The trace tree and the timeline select what is in memory; a comment may *)
(* hold a step that no longer is.                                          *)
SelectTrace(n) == Select(WithTrace(sel, n), panel)
SelectFile(i) == Select(WithFile(sel, i), Opened(panel, i))

FollowStep ==
    /\ Shown(files, sel) # Null
    /\ \E n \in MiniRail(sel.file) \cup Drawer(sel.file) : SelectTrace(n)
PickTrace == \E n \in Live(nodes) \cup UNION {Range(files[i].why) : i \in Listed(files)} : SelectTrace(n)
PickFile == \E i \in Listed(files) : SelectFile(i)
FollowLink == \E l \in Range(LinksOf(sel.trace)) : SelectFile(l.file)

Navigate(n) ==
    /\ LinksOf(n) # <<>>
    /\ LET i == Head(LinksOf(n)).file IN Select(WithFile(WithTrace(sel, n), i), Opened(panel, i))

(* j and k: the next file of the queue, its ends if none is shown.         *)
Precedes(i, j, down) ==
    IF down THEN Rank[files[i].path] < Rank[files[j].path] ELSE Rank[files[j].path] < Rank[files[i].path]
Beyond(i, down) == {j \in Listed(files) : i = Null \/ Precedes(i, j, down)}
GoFile(down) ==
    /\ Listed(files) # {}
    /\ LET beyond == Beyond(Shown(files, sel), down) IN
       IF beyond = {} THEN SelectFile(sel.file)
       ELSE \E i \in beyond : (\A j \in beyond \ {i} : Precedes(i, j, down)) /\ SelectFile(i)

(* n and p, and HunkNav: the index is brought into the file's range.       *)
GoHunk(delta) ==
    /\ Shown(files, sel) # Null /\ files[sel.file].hunks > 0 /\ Input
    /\ LET last == files[sel.file].hunks - 1
           to == panel.hunk + delta
       IN panel' = [panel EXCEPT !.hunk = IF to < 0 THEN 0 ELSE IF to > last THEN last ELSE to]
    /\ UNCHANGED <<git, session, sel, task, seen>>

ToggleRail ==
    /\ Input /\ panel' = [panel EXCEPT !.open = ~@]
    /\ UNCHANGED <<git, session, sel, task, seen>>

(* clearSessionTraces; the notice that follows links nothing.              *)
Clear ==
    /\ Input /\ files' = [i \in Ids |-> Absent] /\ nodes' = [n \in Traces |-> Absent]
    /\ sel' = [file |-> Null, trace |-> Null] /\ panel' = Rendered(panel, files', sel')
    /\ UNCHANGED <<git, next, task, seen>>

User ==
    \/ FollowStep \/ PickTrace \/ PickFile \/ FollowLink \/ ToggleRail \/ Clear
    \/ \E n \in Traces : Navigate(n)
    \/ \E down \in BOOLEAN : GoFile(down)
    \/ \E delta \in {-1, 1} : GoHunk(delta)

-----------------------------------------------------------------------------
(* The agent *)

Now == MaxInputs - left + 1

(* findFileByPath: the file at the path, else one whose path ends with it. *)
(* Mutant: a placeholder without contents is taken for no file.            *)
AtContent(p) == {i \in Listed(files) : files[i].path = p /\ files[i].hunks > 0}

At(p) == {i \in Listed(files) : files[i].path = p}
Found(p) == IF At(p) # {} THEN At(p) ELSE {i \in Listed(files) : p \in Ends[files[i].path]}

With(why, n) == IF n \in Range(why) THEN why ELSE Append(why, n)
Told(p) == {p} \cup Ends[p]

(* What a batch pushes out of memory (SessionReduce says which).           *)
Kept(ns, cold) == [m \in Traces |-> IF m \in cold THEN Absent ELSE ns[m]]

(* A file_change: the file keeps its id and its reasons, or draws an id.   *)
(* An event without an id is not among the reasons.                        *)
Reported(i, old, p, n, h, named, cold) ==
    /\ files' = [files EXCEPT ![i] =
            [at |-> "listed", path |-> IF old = Absent THEN p ELSE old.path, hunks |-> h,
             from |-> Now,
             why |-> LET why == IF old = Absent THEN <<>> ELSE old.why
                     IN IF named THEN With(why, n) ELSE why]]
    /\ nodes' = Kept([nodes EXCEPT ![n] =
            [at |-> "live", named |-> named, names |-> Told(p), quotes |-> {}, time |-> Now,
             links |-> <<[file |-> i, path |-> p, lines |-> 1..h]>>]], cold)
    /\ sel' = [file |-> i, trace |-> n] /\ panel' = Rendered(panel, files', sel')

Change(n, p, h, named, cold) ==
    /\ Kind[n] = "file_change" /\ Input /\ cold \subseteq Live(nodes) \ {n}
    /\ n \in Live(nodes) => nodes[n].named /\ named
    /\ ~named => \A i \in Listed(files) : n \notin Range(files[i].why)
    /\ \/ \E i \in Found(p) : Reported(i, files[i], p, n, h, named, cold) /\ UNCHANGED next
       \/ /\ Found(p) = {} /\ next \in Ids /\ next' = next + 1
          /\ Reported(next, Absent, p, n, h, named, cold)
    /\ UNCHANGED <<git, task, seen>>

(* Any other event that mentions a path is linked to the file found there, *)
(* once, and becomes a reason of it.                                       *)
Unlinked(n, p) == {i \in Found(p) : \A l \in Range(LinksOf(n)) : l.file # i}
Mentioned(n, p, quotes, links, cold) ==
    nodes' = Kept([nodes EXCEPT ![n] =
        [at |-> "live", named |-> TRUE, names |-> Told(p), quotes |-> quotes, links |-> links,
         time |-> Now]], cold)
Mention(n, p, quotes, cold) ==
    /\ Kind[n] # "file_change" /\ Input /\ cold \subseteq Live(nodes) \ {n}
    /\ \/ \E i \in Unlinked(n, p) :
            /\ files' = [files EXCEPT ![i].why = With(@, n)]
            /\ Mentioned(n, p, quotes,
                  Append(LinksOf(n), [file |-> i, path |-> files[i].path, lines |-> {}]), cold)
       \/ /\ Found(p) = {} \/ Unlinked(n, p) # Found(p)
          /\ Mentioned(n, p, quotes, LinksOf(n), cold) /\ UNCHANGED files
    /\ sel' = [sel EXCEPT !.trace = n]
    /\ UNCHANGED <<git, next, panel, task, seen>>

(* The agent, or the user beside it, edits the working tree.               *)
Edit(p, h) ==
    /\ Input /\ h # git[p] /\ git' = [git EXCEPT ![p] = h]
    /\ UNCHANGED <<session, sel, panel, task, seen>>

Agent ==
    \/ \E p \in Paths, h \in 0..MaxHunks : Edit(p, h)
    \/ \E n \in Traces, p \in Paths, cold \in SUBSET Traces :
        \/ \E h \in 0..MaxHunks, named \in BOOLEAN : Change(n, p, h, named, cold)
        \/ \E quotes \in {{}} \cup {{h} : h \in Hunks} : Mention(n, p, quotes, cold)

-----------------------------------------------------------------------------
(* Refreshes from git: status, then diff, then the store.  Those of the    *)
(* button, of an action and of two ticks of the watch may overlap.         *)

Set(t, at, status, diff) ==
    task' = [task EXCEPT ![t] = [at |-> at, path |-> task[t].path, status |-> status, diff |-> diff]]

(* The button is disabled while it refreshes.                              *)
Refresh ==
    /\ task["button"] = Idle /\ Input /\ Set("button", "status", Clean, Clean)
    /\ UNCHANGED <<git, session, sel, panel, seen>>

(* A tick of the watch goes on if the status is not the one it saw last;   *)
(* the next may come while it still syncs.                                 *)
WatchTick(w) ==
    /\ task[w] = Idle /\ Dirty(git) # seen /\ seen' = Dirty(git) /\ Input
    /\ Set(w, "status", Clean, Clean)
    /\ UNCHANGED <<git, session, sel, panel>>

GetStatus(t) ==
    /\ task[t].at = "status" /\ Set(t, "diff", git, Clean)
    /\ UNCHANGED <<git, session, sel, panel, seen, left>>

(* An answer that is not ok leaves the files without contents.             *)
GetDiff(t) ==
    /\ task[t].at = "diff" /\ \E diff \in {git, Clean} : Set(t, "apply", task[t].status, diff)
    /\ UNCHANGED <<git, session, sel, panel, seen, left>>

(* The end of a discard closes its dialog.                                 *)
Ended(t) == task' = [task EXCEPT ![t] = Idle]
Closed(t, p) == [p EXCEPT !.asking = @ /\ t # "act"]

Fails(t) ==
    /\ task[t].at \in {"sent", "status", "diff"} /\ Ended(t) /\ panel' = Closed(t, panel)
    /\ UNCHANGED <<git, session, sel, seen, left>>

(* Mutant: what is upserted replaces what was known of the file.           *)
RefreshedAnew(f, h) == IF h > 0 THEN [f EXCEPT !.hunks = h, !.from = 0, !.why = <<>>] ELSE f

(* upsertFileDiff keeps the reasons, and without contents the hunks.       *)
Refreshed(f, h) == IF h > 0 THEN [f EXCEPT !.hunks = h, !.from = 0] ELSE f
Added(p, h) == [at |-> "listed", path |-> p, hunks |-> h, from |-> 0, why |-> <<>>]

(* A dirty path that is not listed draws an id; what is not dirty leaves.  *)
Synced(wanted, diff, id) ==
    [i \in Ids |->
        IF i \in Listed(files) /\ files[i].path \in wanted
        THEN Refreshed(files[i], diff[files[i].path])
        ELSE IF i \in Range(id) THEN LET p == CHOOSE p \in DOMAIN id : id[p] = i IN Added(p, diff[p])
        ELSE Absent]

(* Mutant: a refresh selects what it brings.                               *)
RefocusedAlways(fs) == IF Listed(fs) = {} THEN {Null} ELSE Listed(fs)

(* Only an empty selection is filled, and only a pruned file deselected.   *)
Refocused(fs) ==
    IF sel.file = Null THEN (IF Listed(fs) = {} THEN {Null} ELSE Listed(fs))
    ELSE IF sel.file \notin Listed(fs) /\ Listed(files) \ Listed(fs) # {} THEN {Null}
    ELSE {sel.file}

Apply(t) ==
    /\ task[t].at = "apply" /\ Ended(t)
    /\ LET wanted == Dirty(task[t].status)
           new == {p \in wanted : At(p) = {}}
       IN \E top \in next..(MaxIds + 1) : \E id \in Bijection(new, next..(top - 1)) :
            next' = top /\ files' = Synced(wanted, task[t].diff, id)
    /\ \E i \in Refocused(files') : sel' = [sel EXCEPT !.file = i]
    /\ panel' = Closed(t, Rendered(panel, files', sel'))
    /\ UNCHANGED <<git, nodes, seen, left>>

(* The dialog names the file that is shown when it is confirmed; it stays  *)
(* open, and busy, till the discard ends.                                  *)
AskDiscard ==
    /\ Shown(files, sel) # Null /\ ~panel.asking /\ task["act"] = Idle /\ Input
    /\ panel' = [panel EXCEPT !.asking = TRUE]
    /\ UNCHANGED <<git, session, sel, task, seen>>
Cancel ==
    /\ panel.asking /\ task["act"] = Idle /\ Input /\ panel' = [panel EXCEPT !.asking = FALSE]
    /\ UNCHANGED <<git, session, sel, task, seen>>
Confirm ==
    /\ panel.asking /\ task["act"] = Idle /\ Shown(files, sel) # Null /\ Input
    /\ task' = [task EXCEPT !["act"] = [Idle EXCEPT !.at = "sent", !.path = files[sel.file].path]]
    /\ UNCHANGED <<git, session, sel, panel, seen>>

(* git discards the path and answers with its status.                      *)
Execute ==
    /\ task["act"].at = "sent" /\ git' = [git EXCEPT ![task["act"].path] = 0]
    /\ Set("act", "diff", git', Clean)
    /\ UNCHANGED <<session, sel, panel, seen, left>>

Sync ==
    \/ Refresh \/ AskDiscard \/ Cancel \/ Confirm \/ Execute
    \/ \E w \in Watches : WatchTick(w)
    \/ \E t \in Tasks : GetStatus(t) \/ GetDiff(t) \/ Fails(t) \/ Apply(t)

Next == User \/ Agent \/ Sync
Spec == Init /\ [][Next]_vars

-----------------------------------------------------------------------------
(* A file that a trace links to, and that is still listed, counts that     *)
(* trace among its reasons, whatever refreshes came between: the way from  *)
(* the trace to the file leads back (session-reduce.ts:496, 629, store.ts:729). *)
LinksAreMutual ==
    \A n \in Live(nodes) : \A l \in Range(nodes[n].links) :
        nodes[n].named /\ l.file \in Listed(files) => n \in Range(files[l.file].why)

(* The agent and git never list one path twice, whoever reports it first   *)
(* (session-reduce.ts:355, store.ts:728).                                  *)
OnePerPath ==
    \A i, j \in Listed(files) : files[i].path = files[j].path => i = j

(* While a file is listed its reasons only grow (store.ts:730).            *)
WhyIsKept ==
    [][\A i \in Listed(files) \cap Listed(files') : Range(files[i].why) \subseteq Range(files'[i].why)]_vars

(* What neither the user nor the agent did moves the selection only off a  *)
(* file that is not listed any more: a refresh does not steal the focus    *)
(* (store.ts:757, 787).                                                    *)
FocusIsKept ==
    [][left' = left =>
        sel'.trace = sel.trace /\ (sel'.file # sel.file => sel.file \notin Listed(files'))]_vars
=============================================================================

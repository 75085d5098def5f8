------------------------- MODULE ChangesPanelProofs -------------------------
(* What holds of the changes panel for any number of paths, traces, ids,   *)
(* hunks and inputs: the list of files and the links of the traces stay in *)
(* step through overlapping refreshes, and a refresh takes no one's place. *)
EXTENDS ChangesPanel, TLAPS

(* The bounds are numbers, and the text of a path ends with other paths.   *)
Fit ==
    /\ MaxIds \in Nat /\ MaxHunks \in Nat /\ MaxInputs \in Nat
    /\ Ends \in [Paths -> SUBSET Paths]

Selection == [file : Ids \cup {Null}, trace : Traces \cup {Null}]
Panel == [hunk : 0..MaxHunks, asking : BOOLEAN, open : BOOLEAN]
Task == [at : {"idle", "sent", "status", "diff", "apply"}, path : Paths \cup {Null},
         status : [Paths -> 0..MaxHunks], diff : [Paths -> 0..MaxHunks]]

(* Ids are drawn upwards: no file and no link has one yet to be drawn, so  *)
(* that a link left over from a pruned file never leads to a new one.      *)
KnownIds ==
    /\ \A i \in Listed(files) : i < next
    /\ \A n \in Live(nodes) : \A l \in Range(nodes[n].links) : l.file < next

(* Only a change the agent did not name is without an id.                  *)
MentionsAreNamed ==
    \A n \in Live(nodes) : Kind[n] # "file_change" => nodes[n].named

Inv == TypeOK /\ KnownIds /\ MentionsAreNamed /\ LinksAreMutual /\ OnePerPath

-----------------------------------------------------------------------------
(* Sequences, files and nodes                                              *)

LEMMA Appended ==
    ASSUME NEW S, NEW s \in Seq(S), NEW x \in S
    PROVE  Append(s, x) \in Seq(S) /\ Range(Append(s, x)) = Range(s) \cup {x}
<1>1. Append(s, x) \in Seq(S) /\ Len(s) \in Nat
  OBVIOUS
<1>2. DOMAIN Append(s, x) = 1..(Len(s) + 1) /\ DOMAIN s = 1..Len(s)
  OBVIOUS
<1>3. \A i \in 1..(Len(s) + 1) : Append(s, x)[i] = IF i <= Len(s) THEN s[i] ELSE x
  OBVIOUS
<1>4. Range(Append(s, x)) \subseteq Range(s) \cup {x}
  BY <1>1, <1>2, <1>3 DEF Range
<1>5. Range(s) \subseteq Range(Append(s, x))
  BY <1>1, <1>2, <1>3 DEF Range
<1>6. x \in Range(Append(s, x))
  BY <1>1, <1>2, <1>3, Append(s, x)[Len(s) + 1] = x, Len(s) + 1 \in 1..(Len(s) + 1) DEF Range
<1> QED BY <1>1, <1>4, <1>5, <1>6

LEMMA RangeOfSeq ==
    ASSUME NEW S, NEW s \in Seq(S)
    PROVE  /\ Range(s) \subseteq S
           /\ s # <<>> => Head(s) \in Range(s)
  BY DEF Range

(* With adds a reason, and only if it is new.                              *)
LEMMA WithIsUnion ==
    ASSUME NEW why \in Seq(Traces), NEW n \in Traces
    PROVE  With(why, n) \in Seq(Traces) /\ Range(With(why, n)) = Range(why) \cup {n}
  BY Appended DEF With

LEMMA ListedIsFile ==
    ASSUME TypeOK, NEW i \in Listed(files)
    PROVE  i \in Ids /\ files[i] \in File
  BY DEF TypeOK, Listed

LEMMA FileIsListed ==
    ASSUME NEW f \in File
    PROVE  f # Absent
  BY DEF File, Absent

LEMMA LiveIsNode ==
    ASSUME TypeOK, NEW n \in Live(nodes)
    PROVE  n \in Traces /\ nodes[n] \in Node
  BY DEF TypeOK, Live

LEMMA NodeIsLive ==
    ASSUME NEW n \in Node
    PROVE  n # Absent
  BY DEF Node, Absent

LEMMA LinksType ==
    ASSUME TypeOK, NEW n
    PROVE  /\ LinksOf(n) \in Seq(Link)
           /\ \A l \in Range(LinksOf(n)) : l.file \in Ids
           /\ LinksOf(n) # <<>> => Head(LinksOf(n)).file \in Ids
<1>1. LinksOf(n) \in Seq(Link)
  BY LiveIsNode DEF LinksOf, Node
<1>2. \A l \in Range(LinksOf(n)) : l \in Link
  BY <1>1, RangeOfSeq
<1>3. LinksOf(n) # <<>> => Head(LinksOf(n)) \in Range(LinksOf(n))
  BY <1>1, RangeOfSeq
<1> QED BY <1>1, <1>2, <1>3 DEF Link

-----------------------------------------------------------------------------
(* The types                                                               *)

LEMMA InitIsTyped ==
    ASSUME Fit, Init
    PROVE  TypeOK
<1>1. Idle \in Task /\ Clean \in [Paths -> 0..MaxHunks]
  BY DEF Idle, Task, Clean, Fit
<1> QED BY <1>1 DEF Init, TypeOK, Task, Ids, Null, Tasks, Fit

LEMMA RenderedType ==
    ASSUME Fit, NEW p \in Panel, NEW fs, NEW s
    PROVE  Rendered(p, fs, s) \in Panel
  BY DEF Fit, Panel, Rendered

LEMMA InputType ==
    ASSUME TypeOK, Input, Fit
    PROVE  left' \in 0..MaxInputs
  BY DEF TypeOK, Input, Fit

(* A click that selects: what it selects is typed.                         *)
LEMMA SelectIsTyped ==
    ASSUME Fit, TypeOK, NEW s \in Selection, NEW p \in Panel, Select(s, p)
    PROVE  TypeOK'
<1>1. Rendered(p, files, s) \in Panel /\ left' \in 0..MaxInputs
  BY RenderedType, InputType DEF Select
<1> QED BY <1>1 DEF Select, TypeOK, Selection, Panel, session

LEMMA WithTraceType ==
    ASSUME TypeOK, NEW n \in Traces
    PROVE  WithTrace(sel, n) \in Selection
  BY LinksType DEF WithTrace, TypeOK, Selection

LEMMA WithFileType ==
    ASSUME TypeOK, NEW s \in Selection, NEW i \in Ids
    PROVE  WithFile(s, i) \in Selection
<1>1. Explained(i) => Head(files[i].why) \in Traces
  BY ListedIsFile DEF Explained, File
<1> QED BY <1>1 DEF WithFile, Selection

LEMMA OpenedType ==
    ASSUME TypeOK, NEW i
    PROVE  Opened(panel, i) \in Panel
  BY DEF TypeOK, Opened, Panel, Explained

LEMMA SelectTraceTyped ==
    ASSUME Fit, TypeOK, NEW n \in Traces, SelectTrace(n)
    PROVE  TypeOK'
  BY WithTraceType, SelectIsTyped DEF SelectTrace, TypeOK, Panel

LEMMA SelectFileTyped ==
    ASSUME Fit, TypeOK, NEW i \in Ids, SelectFile(i)
    PROVE  TypeOK'
<1>1. sel \in Selection
  BY DEF TypeOK, Selection
<1> QED BY <1>1, WithFileType, OpenedType, SelectIsTyped DEF SelectFile

LEMMA StepsAreTraces ==
    ASSUME TypeOK, NEW i, NEW h
    PROVE  Steps(i) \subseteq Traces /\ HunkSteps(i, h) \subseteq Traces
  BY DEF Steps, HunkSteps, Direct, Linked, Named, Live

LEMMA ClickIsTyped ==
    ASSUME Fit, TypeOK, User
    PROVE  TypeOK'
<1>1. CASE FollowStep
  <2>1. MiniRail(sel.file) \cup Drawer(sel.file) \subseteq Traces
    BY StepsAreTraces DEF MiniRail, Drawer
  <2> QED BY <1>1, <2>1, SelectTraceTyped DEF FollowStep
<1>2. CASE PickTrace
  <2>1. \A i \in Listed(files) : Range(files[i].why) \subseteq Traces
    BY ListedIsFile, RangeOfSeq DEF File
  <2> QED BY <1>2, <2>1, SelectTraceTyped DEF PickTrace, Live
<1>3. CASE PickFile
  BY <1>3, SelectFileTyped DEF PickFile, Listed
<1>4. CASE FollowLink
  BY <1>4, LinksType, SelectFileTyped DEF FollowLink
<1>5. CASE ToggleRail
  BY <1>5, InputType DEF ToggleRail, TypeOK, session
<1>6. CASE Clear
  <2>1. files' \in [Ids -> File \cup {Absent}] /\ nodes' \in [Traces -> Node \cup {Absent}]
    BY <1>6 DEF Clear
  <2>2. panel' \in Panel /\ sel' \in Selection
    BY <1>6, RenderedType DEF Clear, TypeOK, Panel, Selection
  <2> QED BY <1>6, <2>1, <2>2, InputType DEF Clear, TypeOK, Panel, Selection
<1>7. CASE \E n \in Traces : Navigate(n)
  <2>1. PICK n \in Traces : Navigate(n)
    BY <1>7
  <2> DEFINE i == Head(LinksOf(n)).file
  <2>2. i \in Ids
    BY <2>1, LinksType DEF Navigate
  <2>3. WithFile(WithTrace(sel, n), i) \in Selection /\ Opened(panel, i) \in Panel
    BY <2>2, WithTraceType, WithFileType, OpenedType
  <2>4. Select(WithFile(WithTrace(sel, n), i), Opened(panel, i))
    BY <2>1 DEF Navigate
  <2> QED BY <2>3, <2>4, SelectIsTyped
<1>8. CASE \E down \in BOOLEAN : GoFile(down)
  <2>1. PICK down \in BOOLEAN : GoFile(down)
    BY <1>8
  <2>2. Beyond(Shown(files, sel), down) \subseteq Ids
    BY DEF Beyond, Listed
  <2>3. Beyond(Shown(files, sel), down) = {} => sel.file \in Ids
    BY <2>1 DEF GoFile, Beyond, Shown, Listed
  <2> QED BY <2>1, <2>2, <2>3, SelectFileTyped DEF GoFile
<1>9. CASE \E delta \in {-1, 1} : GoHunk(delta)
  <2>1. PICK delta \in {-1, 1} : GoHunk(delta)
    BY <1>9
  <2>2. files[sel.file] \in File
    BY <2>1, ListedIsFile DEF GoHunk, Shown
  <2> DEFINE last == files[sel.file].hunks - 1
             to == panel.hunk + delta
             h == IF to < 0 THEN 0 ELSE IF to > last THEN last ELSE to
  <2>3. last \in 0..MaxHunks /\ panel.hunk \in 0..MaxHunks
    BY <2>1, <2>2 DEF GoHunk, TypeOK, File, Fit
  <2>4. h \in 0..MaxHunks
    BY <2>3 DEF Fit
  <2>5. panel' = [panel EXCEPT !.hunk = h]
    BY <2>1 DEF GoHunk
  <2>6. panel' \in Panel
    BY <2>4, <2>5 DEF TypeOK, Panel
  <2> QED BY <2>1, <2>6, InputType DEF GoHunk, TypeOK, Panel, session
<1> QED BY <1>1, <1>2, <1>3, <1>4, <1>5, <1>6, <1>7, <1>8, <1>9 DEF User
(* What an event stores of its trace is a node.                            *)
LEMMA NowType ==
    ASSUME Fit, TypeOK, Input
    PROVE  Now \in 0..MaxInputs /\ left' \in 0..MaxInputs
  BY DEF Fit, TypeOK, Input, Now

LEMMA KeptType ==
    ASSUME NEW ns \in [Traces -> Node \cup {Absent}], NEW cold
    PROVE  Kept(ns, cold) \in [Traces -> Node \cup {Absent}]
  BY DEF Kept

LEMMA FoundIsListed ==
    ASSUME NEW p
    PROVE  Found(p) \subseteq Listed(files)
  BY DEF Found, At

LEMMA ReportedIsTyped ==
    ASSUME Fit, TypeOK, NEW i \in Ids, NEW old \in File \cup {Absent}, NEW p \in Paths,
           NEW n \in Traces, NEW h \in 0..MaxHunks, NEW named \in BOOLEAN, NEW cold,
           Reported(i, old, p, n, h, named, cold), Input
    PROVE  /\ files' \in [Ids -> File \cup {Absent}] /\ nodes' \in [Traces -> Node \cup {Absent}]
           /\ sel' \in Selection /\ panel' \in Panel
<1> DEFINE why == IF old = Absent THEN <<>> ELSE old.why
           f == [at |-> "listed", path |-> IF old = Absent THEN p ELSE old.path, hunks |-> h,
                 from |-> Now, why |-> IF named THEN With(why, n) ELSE why]
           l == [file |-> i, path |-> p, lines |-> 1..h]
           v == [at |-> "live", named |-> named, names |-> Told(p), quotes |-> {}, time |-> Now,
                 links |-> <<l>>]
<1>1. why \in Seq(Traces) /\ (IF old = Absent THEN p ELSE old.path) \in Paths
  BY DEF File
<1>2. f \in File
  BY <1>1, WithIsUnion, NowType DEF File
<1>3. l \in Link
  BY DEF Link, Hunks, Fit
<1>4. v \in Node
  BY <1>3, NowType DEF Node, Told, Fit
<1>5. files' = [files EXCEPT ![i] = f] /\ nodes' = Kept([nodes EXCEPT ![n] = v], cold)
  BY DEF Reported
<1>6. panel' \in Panel
  BY RenderedType DEF Reported, TypeOK, Panel
<1>7. sel' \in Selection
  BY DEF Reported, Selection
<1> HIDE DEF f, v
<1>8. files' \in [Ids -> File \cup {Absent}]
  BY <1>2, <1>5 DEF TypeOK
<1>9. [nodes EXCEPT ![n] = v] \in [Traces -> Node \cup {Absent}]
  BY <1>4 DEF TypeOK
<1> QED BY <1>5, <1>6, <1>7, <1>8, <1>9, KeptType

LEMMA ChangeIsTyped ==
    ASSUME Fit, TypeOK, NEW n \in Traces, NEW p \in Paths, NEW h \in 0..MaxHunks,
           NEW named \in BOOLEAN, NEW cold, Change(n, p, h, named, cold)
    PROVE  TypeOK'
<1>1. next' \in 1..(MaxIds + 1)
  BY DEF Change, TypeOK, Ids, Fit
<1>2. /\ files' \in [Ids -> File \cup {Absent}] /\ nodes' \in [Traces -> Node \cup {Absent}]
      /\ sel' \in Selection /\ panel' \in Panel
  <2>1. CASE \E i \in Found(p) : Reported(i, files[i], p, n, h, named, cold)
    BY <2>1, FoundIsListed, ListedIsFile, ReportedIsTyped DEF Change
  <2>2. CASE next \in Ids /\ Reported(next, Absent, p, n, h, named, cold)
    BY <2>2, ReportedIsTyped DEF Change
  <2> QED BY <2>1, <2>2 DEF Change
<1> QED BY <1>1, <1>2, NowType DEF Change, TypeOK, Selection, Panel

LEMMA MentionedType ==
    ASSUME Fit, TypeOK, NEW n \in Traces, NEW p \in Paths, NEW quotes \in SUBSET Hunks,
           NEW links \in Seq(Link), NEW cold, Mentioned(n, p, quotes, links, cold), Input
    PROVE  nodes' \in [Traces -> Node \cup {Absent}]
<1> DEFINE v == [at |-> "live", named |-> TRUE, names |-> Told(p), quotes |-> quotes,
                 links |-> links, time |-> Now]
<1>1. v \in Node
  BY NowType DEF Node, Told, Fit
<1>2. nodes' = Kept([nodes EXCEPT ![n] = v], cold)
  BY DEF Mentioned
<1> HIDE DEF v
<1> QED BY <1>1, <1>2, KeptType DEF TypeOK

(* The link that a mention adds, and the reason.                           *)
LEMMA MentionAdds ==
    ASSUME Fit, TypeOK, NEW n \in Traces, NEW p, NEW i \in Unlinked(n, p)
    PROVE  /\ i \in Listed(files)
           /\ [file |-> i, path |-> files[i].path, lines |-> {}] \in Link
           /\ [files EXCEPT ![i].why = With(@, n)] \in [Ids -> File \cup {Absent}]
<1>1. i \in Listed(files) /\ i \in Ids /\ files[i] \in File
  BY FoundIsListed, ListedIsFile DEF Unlinked
<1>2. With(files[i].why, n) \in Seq(Traces)
  BY <1>1, WithIsUnion DEF File
<1>3. [files[i] EXCEPT !.why = With(@, n)] \in File
  BY <1>1, <1>2 DEF File
<1>4. [files EXCEPT ![i].why = With(@, n)] =
        [files EXCEPT ![i] = [files[i] EXCEPT !.why = With(@, n)]]
  BY <1>1 DEF TypeOK
<1> QED BY <1>1, <1>3, <1>4 DEF TypeOK, Link, File

LEMMA MentionIsTyped ==
    ASSUME Fit, TypeOK, NEW n \in Traces, NEW p \in Paths, NEW quotes \in SUBSET Hunks,
           NEW cold, Mention(n, p, quotes, cold)
    PROVE  TypeOK'
<1>1. files' \in [Ids -> File \cup {Absent}] /\ nodes' \in [Traces -> Node \cup {Absent}]
  <2>1. CASE \E i \in Unlinked(n, p) :
            /\ files' = [files EXCEPT ![i].why = With(@, n)]
            /\ Mentioned(n, p, quotes,
                  Append(LinksOf(n), [file |-> i, path |-> files[i].path, lines |-> {}]), cold)
    <3>1. PICK i \in Unlinked(n, p) :
            /\ files' = [files EXCEPT ![i].why = With(@, n)]
            /\ Mentioned(n, p, quotes,
                  Append(LinksOf(n), [file |-> i, path |-> files[i].path, lines |-> {}]), cold)
      BY <2>1
    <3>2. Append(LinksOf(n), [file |-> i, path |-> files[i].path, lines |-> {}]) \in Seq(Link)
      BY MentionAdds, LinksType, Appended
    <3> QED BY <3>1, <3>2, MentionAdds, MentionedType DEF Mention
  <2>2. CASE Mentioned(n, p, quotes, LinksOf(n), cold) /\ UNCHANGED files
    BY <2>2, LinksType, MentionedType DEF Mention, TypeOK
  <2> QED BY <2>1, <2>2 DEF Mention
<1>2. sel' \in Selection
  BY DEF Mention, TypeOK, Selection
<1> QED BY <1>1, <1>2, NowType DEF Mention, TypeOK, Selection
(* What a refresh lists are files.                                         *)
LEMMA RefreshedType ==
    ASSUME Fit, NEW f \in File, NEW h \in 0..MaxHunks
    PROVE  Refreshed(f, h) \in File /\ Refreshed(f, h).why = f.why /\ Refreshed(f, h).path = f.path
<1> DEFINE g == [f EXCEPT !.hunks = h]
<1>1. g \in File /\ g.why = f.why /\ g.path = f.path
  BY DEF File
<1>2. 0 \in 0..MaxInputs
  BY DEF Fit
<1>3. [f EXCEPT !.hunks = h, !.from = 0] = [g EXCEPT !.from = 0]
  OBVIOUS
<1> HIDE DEF g
<1>4. [g EXCEPT !.from = 0] \in File /\ [g EXCEPT !.from = 0].why = g.why
        /\ [g EXCEPT !.from = 0].path = g.path
  BY <1>1, <1>2 DEF File
<1> QED BY <1>1, <1>3, <1>4 DEF Refreshed

LEMMA SyncedType ==
    ASSUME Fit, TypeOK, NEW wanted \in SUBSET Paths, NEW diff \in [Paths -> 0..MaxHunks],
           NEW S \in SUBSET Paths, NEW id \in [S -> Nat]
    PROVE  Synced(wanted, diff, id) \in [Ids -> File \cup {Absent}]
<1>1. ASSUME NEW i \in Listed(files)
      PROVE  Refreshed(files[i], diff[files[i].path]) \in File
  <2>1. files[i] \in File /\ diff[files[i].path] \in 0..MaxHunks
    BY ListedIsFile DEF File
  <2> QED BY <2>1, RefreshedType
<1>2. ASSUME NEW i \in Range(id)
      PROVE  LET p == CHOOSE p \in DOMAIN id : id[p] = i IN Added(p, diff[p]) \in File
  <2>1. (CHOOSE p \in DOMAIN id : id[p] = i) \in Paths
    BY DEF Range
  <2> DEFINE p == CHOOSE p \in DOMAIN id : id[p] = i
  <2> HIDE DEF p
  <2>2. \A q \in Paths : Added(q, diff[q]) \in File
    BY DEF Added, File, Fit
  <2> QED BY <2>1, <2>2
<1> QED BY <1>1, <1>2 DEF Synced

LEMMA RefocusedType ==
    ASSUME TypeOK, NEW fs, NEW i \in Refocused(fs)
    PROVE  i \in Ids \cup {Null}
  BY DEF Refocused, Listed, TypeOK

LEMMA SetType ==
    ASSUME Fit, TypeOK, NEW t \in Tasks, NEW status \in [Paths -> 0..MaxHunks],
           NEW diff \in [Paths -> 0..MaxHunks],
           NEW at \in {"idle", "sent", "status", "diff", "apply"}, Set(t, at, status, diff)
    PROVE  task' \in [Tasks -> Task]
  BY DEF Set, TypeOK, Task

LEMMA CleanType ==
    ASSUME Fit
    PROVE  Clean \in [Paths -> 0..MaxHunks] /\ Idle \in Task
  BY DEF Clean, Idle, Task, Fit

LEMMA ClosedType ==
    ASSUME NEW p \in Panel, NEW t
    PROVE  Closed(t, p) \in Panel
  BY DEF Closed, Panel

LEMMA ApplyIsTyped ==
    ASSUME Fit, TypeOK, NEW t \in Tasks, Apply(t)
    PROVE  TypeOK'
<1> DEFINE wanted == Dirty(task[t].status)
           new == {p \in wanted : At(p) = {}}
<1>1. task[t] \in Task /\ wanted \in SUBSET Paths /\ new \in SUBSET Paths
  BY DEF TypeOK, Task, Dirty
<1>0. PICK top \in next..(MaxIds + 1) : \E id \in Bijection(new, next..(top - 1)) :
        next' = top /\ files' = Synced(wanted, task[t].diff, id)
  BY DEF Apply
<1>2. PICK id \in Bijection(new, next..(top - 1)) :
        next' = top /\ files' = Synced(wanted, task[t].diff, id)
  BY <1>0
<1>3. next' \in 1..(MaxIds + 1) /\ id \in [new -> Nat]
  BY <1>2 DEF TypeOK, Fit, Bijection, Injection
<1>4. files' \in [Ids -> File \cup {Absent}]
  BY <1>1, <1>2, <1>3, SyncedType DEF Task
<1>5. sel' \in Selection
  <2>1. PICK i \in Refocused(files') : sel' = [sel EXCEPT !.file = i]
    BY DEF Apply
  <2> QED BY <2>1, RefocusedType DEF TypeOK, Selection
<1>6. panel' \in Panel
  BY RenderedType, ClosedType DEF Apply, TypeOK, Panel
<1>7. task' \in [Tasks -> Task]
  BY CleanType DEF Apply, Ended, TypeOK, Task
<1> QED BY <1>3, <1>4, <1>5, <1>6, <1>7 DEF Apply, TypeOK, Selection, Panel, Task

LEMMA SyncIsTyped ==
    ASSUME Fit, TypeOK, Sync
    PROVE  TypeOK'
<1> USE DEF session
<1>1. CASE Refresh
  <2>1. task' \in [Tasks -> Task]
    BY <1>1, CleanType, SetType DEF Refresh, Tasks
  <2> QED BY <1>1, <2>1, InputType DEF Refresh, TypeOK, Task
<1>2. CASE \E w \in Watches : WatchTick(w)
  <2>1. task' \in [Tasks -> Task] /\ seen' \in SUBSET (Paths \cup {Null})
    BY <1>2, CleanType, SetType DEF WatchTick, Tasks, Watches, Dirty
  <2> QED BY <1>2, <2>1, InputType DEF WatchTick, TypeOK, Task
<1>3. CASE \E t \in Tasks : GetStatus(t)
  <2>1. task' \in [Tasks -> Task]
    BY <1>3, CleanType, SetType DEF GetStatus, TypeOK
  <2> QED BY <1>3, <2>1 DEF GetStatus, TypeOK, Task
<1>4. CASE \E t \in Tasks : GetDiff(t)
  <2>1. PICK t \in Tasks, diff \in {git, Clean} : Set(t, "apply", task[t].status, diff)
    BY <1>4 DEF GetDiff
  <2>2. diff \in [Paths -> 0..MaxHunks] /\ task[t].status \in [Paths -> 0..MaxHunks]
    BY CleanType DEF TypeOK
  <2>3. task' \in [Tasks -> Task]
    BY <2>1, <2>2, SetType
  <2> QED BY <1>4, <2>3 DEF GetDiff, TypeOK, Task
<1>5. CASE \E t \in Tasks : Fails(t)
  <2>1. task' \in [Tasks -> Task] /\ panel' \in Panel
    BY <1>5, CleanType, ClosedType DEF Fails, Ended, TypeOK, Task, Panel
  <2> QED BY <1>5, <2>1 DEF Fails, TypeOK, Task, Panel
<1>6. CASE \E t \in Tasks : Apply(t)
  BY <1>6, ApplyIsTyped
<1>7. CASE AskDiscard
  BY <1>7, InputType DEF AskDiscard, TypeOK
<1>8. CASE Cancel
  BY <1>8, InputType DEF Cancel, TypeOK
<1>9. CASE Confirm
  <2>1. files[sel.file].path \in Paths
    BY <1>9, ListedIsFile DEF Confirm, Shown, File
  <2>2. [Idle EXCEPT !.at = "sent", !.path = files[sel.file].path] \in Task
    BY <2>1, CleanType DEF Idle, Task
  <2>3. task' \in [Tasks -> Task]
    BY <1>9, <2>2 DEF Confirm, TypeOK, Task
  <2> QED BY <1>9, <2>3, InputType DEF Confirm, TypeOK, Task
<1>10. CASE Execute
  <2>1. git' \in [Paths -> 0..MaxHunks]
    <3>1. git \in [Paths -> 0..MaxHunks] /\ 0 \in 0..MaxHunks
      BY DEF TypeOK, Fit
    <3>2. git' = [git EXCEPT ![task["act"].path] = 0]
      BY <1>10 DEF Execute
    <3> QED BY <3>1, <3>2
  <2>2. task' \in [Tasks -> Task]
    BY <1>10, <2>1, CleanType, SetType DEF Execute, Tasks
  <2> QED BY <1>10, <2>1, <2>2 DEF Execute, TypeOK, Task
<1> QED BY <1>1, <1>2, <1>3, <1>4, <1>5, <1>6, <1>7, <1>8, <1>9, <1>10 DEF Sync

LEMMA StepIsTyped ==
    ASSUME Fit, TypeOK, [Next]_vars
    PROVE  TypeOK'
<1>1. CASE User
  BY <1>1, ClickIsTyped
<1>2. CASE Sync
  BY <1>2, SyncIsTyped
<1>3. CASE Agent
  <2>1. CASE \E p \in Paths, h \in 0..MaxHunks : Edit(p, h)
    <3>1. git' \in [Paths -> 0..MaxHunks]
      BY <2>1 DEF Edit, TypeOK
    <3> QED BY <2>1, <3>1, InputType DEF Edit, TypeOK, session
  <2>2. CASE \E n \in Traces, p \in Paths, cold \in SUBSET Traces :
                \E h \in 0..MaxHunks, named \in BOOLEAN : Change(n, p, h, named, cold)
    BY <2>2, ChangeIsTyped
  <2>3. CASE \E n \in Traces, p \in Paths, cold \in SUBSET Traces :
                \E quotes \in {{}} \cup {{h} : h \in Hunks} : Mention(n, p, quotes, cold)
    <3>1. {{}} \cup {{h} : h \in Hunks} \subseteq SUBSET Hunks
      OBVIOUS
    <3> QED BY <2>3, <3>1, MentionIsTyped
  <2> QED BY <1>3, <2>1, <2>2, <2>3 DEF Agent
<1>4. CASE UNCHANGED vars
  BY <1>4 DEF vars, TypeOK
<1> QED BY <1>1, <1>2, <1>3, <1>4 DEF Next
-----------------------------------------------------------------------------
(* What a step may do to the files and the traces                          *)

(* A file that is listed was listed before, at its path and for no more    *)
(* reasons than now, or has an id drawn in this step.                      *)
Grown ==
    /\ next <= next'
    /\ \A j \in Listed(files') :
        \/ /\ j \in Listed(files) /\ files'[j].path = files[j].path
           /\ Range(files[j].why) \subseteq Range(files'[j].why)
        \/ next <= j /\ j < next'

(* A trace is as it was, or its links are known and mutual.                *)
Relinked ==
    \A m \in Live(nodes') :
        \/ m \in Live(nodes) /\ nodes'[m] = nodes[m]
        \/ \A l \in Range(nodes'[m].links) :
            /\ l.file < next'
            /\ nodes'[m].named /\ l.file \in Listed(files') => m \in Range(files'[l.file].why)

LEMMA Numbers ==
    ASSUME Fit, TypeOK, TypeOK'
    PROVE  /\ next \in Nat /\ next' \in Nat /\ Ids \subseteq Nat
           /\ \A n \in Live(nodes) : \A l \in Range(nodes[n].links) : l.file \in Nat
<1>1. next \in Nat /\ next' \in Nat /\ Ids \subseteq Nat
  BY DEF TypeOK, Ids, Fit
<1>2. \A n \in Live(nodes) : \A l \in Range(nodes[n].links) : l.file \in Ids
  BY LinksType DEF LinksOf
<1> QED BY <1>1, <1>2

LEMMA LinksStayMutual ==
    ASSUME Fit, Inv, TypeOK', Grown, Relinked
    PROVE  KnownIds' /\ LinksAreMutual'
<1>1. \A j \in Listed(files') : j < next'
  BY Numbers DEF Grown, Inv, KnownIds, Listed
<1>2. ASSUME NEW m \in Live(nodes'), NEW l \in Range(nodes'[m].links)
      PROVE  /\ l.file < next'
             /\ nodes'[m].named /\ l.file \in Listed(files') => m \in Range(files'[l.file].why)
  <2>1. CASE m \in Live(nodes) /\ nodes'[m] = nodes[m]
    <3>1. l.file < next /\ l.file \in Nat
      BY <1>2, <2>1, Numbers DEF Inv, KnownIds
    <3>2. l.file < next'
      BY <3>1, Numbers DEF Grown, Inv
    <3>3. l.file \in Listed(files') =>
            l.file \in Listed(files) /\ Range(files[l.file].why) \subseteq Range(files'[l.file].why)
      BY <3>1, Numbers DEF Grown, Inv
    <3>4. nodes[m].named /\ l.file \in Listed(files) => m \in Range(files[l.file].why)
      BY <1>2, <2>1 DEF Inv, LinksAreMutual
    <3> QED BY <2>1, <3>2, <3>3, <3>4
  <2>2. CASE \A k \in Range(nodes'[m].links) :
                /\ k.file < next'
                /\ nodes'[m].named /\ k.file \in Listed(files') => m \in Range(files'[k.file].why)
    BY <1>2, <2>2
  <2> QED BY <1>2, <2>1, <2>2 DEF Relinked
<1> QED BY <1>1, <1>2 DEF KnownIds, LinksAreMutual

LEMMA SessionStays ==
    ASSUME Fit, Inv, UNCHANGED session
    PROVE  Grown /\ Relinked /\ OnePerPath' /\ MentionsAreNamed'
  BY DEF session, Inv, TypeOK, Ids, Fit, Grown, Relinked, OnePerPath, MentionsAreNamed, Listed, Live

LEMMA ClearKeeps ==
    ASSUME Fit, Inv, Clear
    PROVE  Grown /\ Relinked /\ OnePerPath' /\ MentionsAreNamed'
<1>1. Listed(files') = {} /\ Live(nodes') = {} /\ next' = next /\ next \in Nat
  BY DEF Clear, Listed, Live, Inv, TypeOK, Ids, Fit
<1> QED BY <1>1 DEF Grown, Relinked, OnePerPath, MentionsAreNamed

(* The traces after an event: n as it is reported, others as they were.    *)
LEMMA KeptNodes ==
    ASSUME TypeOK, NEW n \in Traces, NEW v \in Node, NEW cold,
           nodes' = Kept([nodes EXCEPT ![n] = v], cold), NEW m \in Live(nodes')
    PROVE  IF m = n THEN nodes'[m] = v ELSE m \in Live(nodes) /\ nodes'[m] = nodes[m]
  BY DEF TypeOK, Kept, Live

(* The files after one of them has become f.                               *)
LEMMA OneMoreListed ==
    ASSUME TypeOK, NEW i \in Ids, NEW f \in File, files' = [files EXCEPT ![i] = f]
    PROVE  /\ Listed(files') = Listed(files) \cup {i}
           /\ files'[i] = f /\ \A j \in Ids : j # i => files'[j] = files[j]
  BY FileIsListed DEF TypeOK, Listed
(* A file_change, at a file that was found or at a new one.                *)
LEMMA ReportKeeps ==
    ASSUME Fit, Inv, NEW i \in Ids, NEW old \in File \cup {Absent}, NEW p \in Paths,
           NEW n \in Traces, NEW h \in 0..MaxHunks, NEW named \in BOOLEAN, NEW cold,
           Reported(i, old, p, n, h, named, cold), Input, Kind[n] = "file_change",
           \/ i \in Listed(files) /\ old = files[i] /\ next' = next
           \/ i = next /\ old = Absent /\ Found(p) = {} /\ next' = next + 1
    PROVE  Grown /\ Relinked /\ OnePerPath' /\ MentionsAreNamed'
<1> DEFINE why == IF old = Absent THEN <<>> ELSE old.why
           f == [at |-> "listed", path |-> IF old = Absent THEN p ELSE old.path, hunks |-> h,
                 from |-> Now, why |-> IF named THEN With(why, n) ELSE why]
           l == [file |-> i, path |-> p, lines |-> 1..h]
           v == [at |-> "live", named |-> named, names |-> Told(p), quotes |-> {}, time |-> Now,
                 links |-> <<l>>]
<1>1. TypeOK /\ next \in Nat /\ Ids \subseteq Nat
  BY DEF Inv, TypeOK, Ids, Fit
<1>2. why \in Seq(Traces) /\ (IF old = Absent THEN p ELSE old.path) \in Paths
  BY DEF File
<1>3. f \in File
  BY <1>1, <1>2, WithIsUnion, NowType DEF File
<1>4. v \in Node
  BY <1>1, NowType DEF Node, Link, Hunks, Told, Fit
<1>5. files' = [files EXCEPT ![i] = f] /\ nodes' = Kept([nodes EXCEPT ![n] = v], cold)
  BY DEF Reported
<1>6. Range(f.why) = Range(why) \cup IF named THEN {n} ELSE {}
  BY <1>2, WithIsUnion
<1>7. f.path = IF old = Absent THEN p ELSE old.path
  OBVIOUS
<1>8. Range(v.links) = {l} /\ v.named = named /\ l.file = i
  BY DEF Range
<1>9. old # Absent => why = old.why
  OBVIOUS
<1> HIDE DEF f, v, l, why
<1>10. /\ Listed(files') = Listed(files) \cup {i}
       /\ files'[i] = f /\ \A j \in Ids : j # i => files'[j] = files[j]
  BY <1>1, <1>3, <1>5, OneMoreListed
<1>11. i \in Listed(files) => old # Absent /\ f.path = files[i].path /\ why = files[i].why
  BY <1>1, <1>7, <1>9, ListedIsFile, FileIsListed DEF Inv, KnownIds
<1>12. Grown
  <2>1. i \in Listed(files) \/ (next <= i /\ i < next')
    BY <1>1
  <2>2. next <= next'
    BY <1>1
  <2>3. ASSUME NEW j \in Listed(files')
        PROVE  \/ /\ j \in Listed(files) /\ files'[j].path = files[j].path
                  /\ Range(files[j].why) \subseteq Range(files'[j].why)
               \/ next <= j /\ j < next'
    BY <1>6, <1>10, <1>11, <2>1, <2>3 DEF Listed
  <2> QED BY <2>2, <2>3 DEF Grown
<1>13. Relinked
  <2>1. i < next'
    BY <1>1 DEF Inv, KnownIds
  <2>2. ASSUME NEW m \in Live(nodes')
        PROVE  \/ m \in Live(nodes) /\ nodes'[m] = nodes[m]
               \/ \A k \in Range(nodes'[m].links) :
                    /\ k.file < next'
                    /\ nodes'[m].named /\ k.file \in Listed(files') => m \in Range(files'[k.file].why)
    <3>1. CASE m # n
      BY <3>1, <1>1, <1>4, <1>5, KeptNodes
    <3>2. CASE m = n
      <4>1. nodes'[n] = v
        BY <3>2, <1>1, <1>4, <1>5, KeptNodes
      <4> QED BY <3>2, <4>1, <1>6, <1>8, <1>10, <2>1
    <3> QED BY <3>1, <3>2
  <2> QED BY <2>2 DEF Relinked
<1>14. OnePerPath'
  <2>1. ASSUME NEW a \in Listed(files'), a # i, files'[a].path = f.path
        PROVE  FALSE
    <3>1. a \in Listed(files) /\ files[a].path = f.path
      BY <1>10, <2>1 DEF Listed
    <3>2. CASE i \in Listed(files)
      BY <1>11, <2>1, <3>1, <3>2 DEF Inv, OnePerPath
    <3>3. CASE old = Absent /\ Found(p) = {}
      BY <1>7, <3>1, <3>3 DEF Found, At
    <3> QED BY <3>2, <3>3
  <2>2. ASSUME NEW a \in Listed(files'), NEW b \in Listed(files'), a # i, b # i,
               files'[a].path = files'[b].path
        PROVE  a = b
    BY <1>10, <2>2 DEF Inv, OnePerPath, Listed
  <2> QED BY <1>10, <2>1, <2>2 DEF OnePerPath
<1>15. MentionsAreNamed'
  <2>1. ASSUME NEW m \in Live(nodes'), Kind[m] # "file_change"
        PROVE  nodes'[m].named
    BY <1>1, <1>4, <1>5, <2>1, KeptNodes DEF Inv, MentionsAreNamed
  <2> QED BY <2>1 DEF MentionsAreNamed
<1> QED BY <1>12, <1>13, <1>14, <1>15

LEMMA ChangeKeeps ==
    ASSUME Fit, Inv, NEW n \in Traces, NEW p \in Paths, NEW h \in 0..MaxHunks,
           NEW named \in BOOLEAN, NEW cold, Change(n, p, h, named, cold)
    PROVE  Grown /\ Relinked /\ OnePerPath' /\ MentionsAreNamed'
<1>1. CASE \E i \in Found(p) : Reported(i, files[i], p, n, h, named, cold) /\ UNCHANGED next
  <2>1. PICK i \in Found(p) : Reported(i, files[i], p, n, h, named, cold) /\ UNCHANGED next
    BY <1>1
  <2>2. i \in Listed(files) /\ i \in Ids /\ files[i] \in File
    BY FoundIsListed, ListedIsFile DEF Inv
  <2> QED BY <2>1, <2>2, ReportKeeps DEF Change
<1>2. CASE /\ Found(p) = {} /\ next \in Ids /\ next' = next + 1
           /\ Reported(next, Absent, p, n, h, named, cold)
  BY <1>2, ReportKeeps DEF Change
<1> QED BY <1>1, <1>2 DEF Change

LEMMA MentionKeeps ==
    ASSUME Fit, Inv, NEW n \in Traces, NEW p \in Paths, NEW quotes \in SUBSET Hunks,
           NEW cold, Mention(n, p, quotes, cold)
    PROVE  Grown /\ Relinked /\ OnePerPath' /\ MentionsAreNamed'
<1>1. TypeOK /\ next \in Nat /\ Ids \subseteq Nat /\ next' = next
  BY DEF Inv, TypeOK, Ids, Fit, Mention
<1> DEFINE v(links) == [at |-> "live", named |-> TRUE, names |-> Told(p), quotes |-> quotes,
                        links |-> links, time |-> Now]
<1>2. ASSUME NEW links \in Seq(Link)
      PROVE  v(links) \in Node /\ v(links).named /\ v(links).links = links
  BY <1>1, NowType DEF Node, Told, Fit, Mention
<1>3. \A links : Mentioned(n, p, quotes, links, cold) =>
        nodes' = Kept([nodes EXCEPT ![n] = v(links)], cold)
  BY DEF Mentioned
<1> HIDE DEF v
(* The links n had are known and mutual, for n had an id.                  *)
<1>4. \A l \in Range(LinksOf(n)) :
        l.file < next /\ (l.file \in Listed(files) => n \in Range(files[l.file].why))
  <2>1. CASE n \in Live(nodes)
    BY <2>1 DEF LinksOf, Inv, KnownIds, LinksAreMutual, MentionsAreNamed, Mention
  <2>2. CASE n \notin Live(nodes)
    BY <2>2 DEF LinksOf, Range
  <2> QED BY <2>1, <2>2
<1>5. ASSUME NEW links \in Seq(Link), Mentioned(n, p, quotes, links, cold),
             \A l \in Range(links) :
                l.file < next /\ (l.file \in Listed(files') => n \in Range(files'[l.file].why))
      PROVE  Relinked /\ MentionsAreNamed'
  <2>0. v(links) \in Node /\ nodes' = Kept([nodes EXCEPT ![n] = v(links)], cold)
    BY <1>2, <1>3, <1>5
  <2>1. ASSUME NEW m \in Live(nodes')
        PROVE  IF m = n THEN nodes'[m] = v(links) ELSE m \in Live(nodes) /\ nodes'[m] = nodes[m]
    BY <1>1, <2>0, KeptNodes
  <2>2. Relinked
    BY <1>1, <1>2, <1>5, <2>1 DEF Relinked
  <2>3. MentionsAreNamed'
    BY <1>2, <2>1 DEF Inv, MentionsAreNamed
  <2> QED BY <2>2, <2>3
<1>6. CASE \E i \in Unlinked(n, p) :
            /\ files' = [files EXCEPT ![i].why = With(@, n)]
            /\ Mentioned(n, p, quotes,
                  Append(LinksOf(n), [file |-> i, path |-> files[i].path, lines |-> {}]), cold)
  <2>1. PICK i \in Unlinked(n, p) :
            /\ files' = [files EXCEPT ![i].why = With(@, n)]
            /\ Mentioned(n, p, quotes,
                  Append(LinksOf(n), [file |-> i, path |-> files[i].path, lines |-> {}]), cold)
    BY <1>6
  <2>2. i \in Listed(files) /\ i \in Ids /\ files[i] \in File /\ i < next
    BY <1>1, MentionAdds, ListedIsFile DEF Inv, KnownIds
  <2> DEFINE f == [files[i] EXCEPT !.why = With(files[i].why, n)]
             l == [file |-> i, path |-> files[i].path, lines |-> {}]
  <2>3. /\ With(files[i].why, n) \in Seq(Traces)
        /\ Range(With(files[i].why, n)) = Range(files[i].why) \cup {n}
    BY <2>2, WithIsUnion DEF File
  <2>4. f \in File /\ f.path = files[i].path /\ f.why = With(files[i].why, n)
    BY <2>2, <2>3 DEF File
  <2>5. files' = [files EXCEPT ![i] = f]
    BY <1>1, <2>1, <2>2 DEF TypeOK
  <2>6. l.file = i /\ l \in Link /\ LinksOf(n) \in Seq(Link)
    BY <1>1, MentionAdds, LinksType
  <2> HIDE DEF f, l
  <2>7. /\ Append(LinksOf(n), l) \in Seq(Link)
        /\ Range(Append(LinksOf(n), l)) = Range(LinksOf(n)) \cup {l}
    BY <2>6, Appended
  <2>8. /\ Listed(files') = Listed(files) \cup {i}
        /\ files'[i] = f /\ \A j \in Ids : j # i => files'[j] = files[j]
    BY <1>1, <2>2, <2>4, <2>5, OneMoreListed
  <2>9. \A j \in Listed(files') :
            /\ j \in Listed(files) /\ files'[j].path = files[j].path
            /\ Range(files[j].why) \subseteq Range(files'[j].why)
    BY <2>2, <2>3, <2>4, <2>8 DEF Listed
  <2>10. Grown
    BY <1>1, <2>9 DEF Grown
  <2>11. OnePerPath'
    BY <2>9 DEF Inv, OnePerPath
  <2>12. \A k \in Range(Append(LinksOf(n), l)) :
            k.file < next /\ (k.file \in Listed(files') => n \in Range(files'[k.file].why))
    <3>1. n \in Range(files'[i].why)
      BY <2>3, <2>4, <2>8
    <3> QED BY <1>4, <2>2, <2>6, <2>7, <2>9, <3>1
  <2>13. Mentioned(n, p, quotes, Append(LinksOf(n), l), cold)
    BY <2>1 DEF l
  <2> QED BY <1>5, <2>7, <2>10, <2>11, <2>12, <2>13
<1>7. CASE Mentioned(n, p, quotes, LinksOf(n), cold) /\ UNCHANGED files
  <2>1. LinksOf(n) \in Seq(Link)
    BY <1>1, LinksType
  <2>2. Relinked /\ MentionsAreNamed'
    BY <1>4, <1>5, <1>7, <2>1
  <2> QED BY <1>1, <1>7, <2>2 DEF Inv, Grown, OnePerPath, Listed
<1> QED BY <1>6, <1>7 DEF Mention
(* A refresh: what it keeps it keeps the reasons of, and what it adds gets *)
(* an id of its own and a path that was not listed.                        *)
LEMMA ApplyKeeps ==
    ASSUME Fit, Inv, NEW t \in Tasks, Apply(t)
    PROVE  Grown /\ Relinked /\ OnePerPath' /\ MentionsAreNamed'
<1> DEFINE wanted == Dirty(task[t].status)
           new == {p \in wanted : At(p) = {}}
           diff == task[t].diff
<1>1. /\ TypeOK /\ next \in Nat /\ Ids \subseteq Nat
      /\ wanted \in SUBSET Paths /\ new \in SUBSET Paths /\ diff \in [Paths -> 0..MaxHunks]
  BY DEF Inv, TypeOK, Ids, Fit, Dirty
<1>2. PICK top \in next..(MaxIds + 1) : \E id \in Bijection(new, next..(top - 1)) :
        next' = top /\ files' = Synced(wanted, task[t].diff, id)
  BY DEF Apply
<1>3. PICK id \in Bijection(new, next..(top - 1)) :
        next' = top /\ files' = Synced(wanted, diff, id)
  BY <1>2
<1>4. /\ id \in [new -> next..(next' - 1)] /\ next <= next' /\ next' \in Nat
      /\ \A p, q \in new : id[p] = id[q] => p = q
  BY <1>1, <1>2, <1>3 DEF Bijection, Injection, IsInjective
<1> DEFINE Old(i) == i \in Listed(files) /\ files[i].path \in wanted
           New(i) == ~Old(i) /\ \E p \in new : id[p] = i
<1> HIDE DEF wanted, new, diff
<1>5. ASSUME NEW i \in Listed(files')
      PROVE  \/ Old(i) /\ files'[i] = Refreshed(files[i], diff[files[i].path])
             \/ New(i) /\ \E p \in new : id[p] = i /\ files'[i] = Added(p, diff[p])
  <2>1. i \in Ids /\ files'[i] # Absent
    BY DEF Listed
  <2> DEFINE q == CHOOSE p \in DOMAIN id : id[p] = i
  <2>2. files'[i] = IF Old(i) THEN Refreshed(files[i], diff[files[i].path])
                    ELSE IF i \in Range(id) THEN Added(q, diff[q]) ELSE Absent
    BY <1>3, <2>1 DEF Synced
  <2>3. i \in Range(id) => q \in new /\ id[q] = i
    BY <1>4 DEF Range
  <2> HIDE DEF q
  <2> QED BY <2>1, <2>2, <2>3
<1>6. ASSUME NEW i \in Listed(files'), Old(i)
      PROVE  files'[i].path = files[i].path /\ files'[i].why = files[i].why
  <2>1. files[i] \in File /\ diff[files[i].path] \in 0..MaxHunks
    BY <1>1, <1>6, ListedIsFile DEF File
  <2> QED BY <1>5, <1>6, <2>1, RefreshedType
<1>7. ASSUME NEW i \in Listed(files'), New(i)
      PROVE  next <= i /\ i < next' /\ files'[i].path \in new /\ id[files'[i].path] = i
  <2>1. PICK p \in new : id[p] = i /\ files'[i] = Added(p, diff[p])
    BY <1>5, <1>7
  <2>2. files'[i].path = p
    BY <2>1 DEF Added
  <2> QED BY <1>1, <1>4, <2>1, <2>2
<1>8. Grown
  BY <1>4, <1>5, <1>6, <1>7 DEF Grown
<1>9. Relinked /\ MentionsAreNamed'
  BY DEF Apply, Relinked, Inv, MentionsAreNamed, Live
<1>10. OnePerPath'
  <2>1. ASSUME NEW i \in Listed(files'), NEW j \in Listed(files'),
               files'[i].path = files'[j].path, Old(i), New(j)
        PROVE  FALSE
    <3>1. At(files'[j].path) = {}
      BY <1>7, <2>1 DEF new
    <3> QED BY <1>6, <2>1, <3>1 DEF At
  <2>2. ASSUME NEW i \in Listed(files'), NEW j \in Listed(files'),
               files'[i].path = files'[j].path
        PROVE  i = j
    <3>1. CASE Old(i) /\ Old(j)
      BY <1>6, <2>2, <3>1 DEF Inv, OnePerPath
    <3>2. CASE New(i) /\ New(j)
      BY <1>7, <2>2, <3>2
    <3> QED BY <1>5, <2>1, <2>2, <3>1, <3>2
  <2> QED BY <2>2 DEF OnePerPath
<1> QED BY <1>8, <1>9, <1>10

LEMMA StepKeeps ==
    ASSUME Fit, Inv, [Next]_vars
    PROVE  Grown /\ Relinked /\ OnePerPath' /\ MentionsAreNamed'
<1>1. CASE User
  <2>1. CASE Clear
    BY <2>1, ClearKeeps
  <2>2. CASE ~Clear
    <3>1. UNCHANGED session
      BY <1>1, <2>2 DEF User, FollowStep, PickTrace, PickFile, FollowLink, ToggleRail, Navigate,
                       GoFile, GoHunk, SelectTrace, SelectFile, Select
    <3> QED BY <3>1, SessionStays
  <2> QED BY <2>1, <2>2
<1>2. CASE Sync
  <2>1. CASE \E t \in Tasks : Apply(t)
    BY <2>1, ApplyKeeps
  <2>2. CASE ~\E t \in Tasks : Apply(t)
    <3>1. UNCHANGED session
      BY <1>2, <2>2 DEF Sync, Refresh, WatchTick, GetStatus, GetDiff, Fails, AskDiscard, Cancel,
                       Confirm, Execute
    <3> QED BY <3>1, SessionStays
  <2> QED BY <2>1, <2>2
<1>3. CASE Agent
  <2>1. CASE \E p \in Paths, h \in 0..MaxHunks : Edit(p, h)
    BY <2>1, SessionStays DEF Edit
  <2>2. CASE \E n \in Traces, p \in Paths, cold \in SUBSET Traces :
                \E h \in 0..MaxHunks, named \in BOOLEAN : Change(n, p, h, named, cold)
    BY <2>2, ChangeKeeps
  <2>3. CASE \E n \in Traces, p \in Paths, cold \in SUBSET Traces :
                \E quotes \in {{}} \cup {{h} : h \in Hunks} : Mention(n, p, quotes, cold)
    <3>1. {{}} \cup {{h} : h \in Hunks} \subseteq SUBSET Hunks
      OBVIOUS
    <3> QED BY <2>3, <3>1, MentionKeeps
  <2> QED BY <1>3, <2>1, <2>2, <2>3 DEF Agent
<1>4. CASE UNCHANGED vars
  BY <1>4, SessionStays DEF vars, session
<1> QED BY <1>1, <1>2, <1>3, <1>4 DEF Next

-----------------------------------------------------------------------------
(* Theorems                                                                *)

LEMMA InvHolds == ASSUME Fit PROVE Spec => []Inv
<1>1. Init => Inv
  <2>1. Init => Listed(files) = {} /\ Live(nodes) = {}
    BY DEF Init, Listed, Live
  <2> QED BY <2>1, InitIsTyped DEF Inv, KnownIds, MentionsAreNamed, LinksAreMutual, OnePerPath
<1>2. Inv /\ [Next]_vars => Inv'
  BY StepIsTyped, StepKeeps, LinksStayMutual DEF Inv
<1> QED BY <1>1, <1>2, PTL DEF Spec

(* The variables keep their types: every id that is selected or linked is  *)
(* one that createFileDiff drew, and a hunk index is one a diff may have   *)
(* (store.ts:607, 630, diff-panel.tsx:304).                                *)
THEOREM TypeCorrect == ASSUME Fit PROVE Spec => []TypeOK
<1>1. Inv => TypeOK
  BY DEF Inv
<1> QED BY <1>1, InvHolds, PTL

(* However the agent's events and any number of overlapping refreshes are  *)
(* interleaved, no path is listed twice (session-reduce.ts:355,            *)
(* store.ts:728, git/client.ts:147).                                       *)
THEOREM PathsAreListedOnce == ASSUME Fit PROVE Spec => []OnePerPath
<1>1. Inv => OnePerPath
  BY DEF Inv
<1> QED BY <1>1, InvHolds, PTL

(* The way from a trace to a listed file leads back, though files are      *)
(* pruned, listed again and refreshed, and traces leave memory             *)
(* (session-reduce.ts:494, 628, store.ts:729, 766).                        *)
THEOREM LinksLeadBack == ASSUME Fit PROVE Spec => []LinksAreMutual
<1>1. Inv => LinksAreMutual
  BY DEF Inv
<1> QED BY <1>1, InvHolds, PTL

(* No step takes a reason from a file that stays listed (store.ts:730).    *)
THEOREM ReasonsOnlyGrow == ASSUME Fit PROVE Spec => WhyIsKept
<1>1. ASSUME Inv, [Next]_vars
      PROVE  [\A i \in Listed(files) \cap Listed(files') :
                 Range(files[i].why) \subseteq Range(files'[i].why)]_vars
  <2>1. Grown /\ next \in Nat /\ Ids \subseteq Nat
    BY <1>1, StepKeeps DEF Inv, TypeOK, Ids, Fit
  <2>2. \A i \in Listed(files) : i < next /\ i \in Nat
    BY <1>1, <2>1 DEF Inv, KnownIds, Listed
  <2> QED BY <2>1, <2>2 DEF Grown
<1> QED BY <1>1, InvHolds, PTL DEF Spec, WhyIsKept

(* A refresh, whoever asked for it and however late it comes, leaves the   *)
(* selected trace alone, and the selected file as long as it is listed     *)
(* (store.ts:757, 787).                                                    *)
THEOREM RefreshKeepsFocus == ASSUME Fit PROVE Spec => FocusIsKept
<1> DEFINE A == left' = left =>
                sel'.trace = sel.trace
                  /\ (sel'.file # sel.file => sel.file \notin Listed(files'))
<1>1. ASSUME Inv, [Next]_vars
      PROVE  [A]_vars
  <2>1. CASE Input
    BY <2>1, <1>1 DEF Input, Inv, TypeOK, Fit
  <2>2. CASE \E t \in Tasks : Apply(t)
    <3>1. PICK t \in Tasks : Apply(t)
      BY <2>2
    <3>2. PICK i \in Refocused(files') : sel' = [sel EXCEPT !.file = i]
      BY <3>1 DEF Apply
    <3>3. sel \in Selection
      BY <1>1 DEF Inv, TypeOK, Selection
    <3>4. sel'.trace = sel.trace /\ sel'.file = i
      BY <3>2, <3>3 DEF Selection
    <3>5. i # sel.file => sel.file = Null \/ sel.file \notin Listed(files')
      BY DEF Refocused
    <3>6. Null \notin Listed(files')
      BY DEF Null, Listed, Ids, Fit
    <3> QED BY <3>4, <3>5, <3>6
  <2>3. CASE ~Input /\ ~\E t \in Tasks : Apply(t)
    <3>1. UNCHANGED sel
      BY <1>1, <2>3 DEF Next, vars, User, FollowStep, PickTrace, PickFile, FollowLink, ToggleRail,
           Navigate, GoFile, GoHunk, SelectTrace, SelectFile, Select, Clear, Agent, Edit, Change,
           Mention, Sync, Refresh, WatchTick, GetStatus, GetDiff, Fails, AskDiscard, Cancel,
           Confirm, Execute
    <3> QED BY <3>1
  <2> QED BY <2>1, <2>2, <2>3
<1> QED BY <1>1, InvHolds, PTL DEF Spec, FocusIsKept
=============================================================================

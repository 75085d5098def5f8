------------------------------ MODULE ControlRoom ------------------------------
(* The durable missions on the Missions screen: callers of the mission API      *)
(* write documents that the host sanitizes (routes/missions.ts, validate.ts),   *)
(* and the panel lists them, fetches the chosen one with its checkpoint and     *)
(* shows a projection (missions/client.ts, enterprise-screen.tsx).  What the    *)
(* host keeps in files, and its crashes, are the matter of Missions.            *)
EXTENDS Naturals, FiniteSets, Sequences

CONSTANTS
    Missions,  \* mission ids
    Items,     \* ids of work items
    Stones,    \* ids of milestones
    Bodies,    \* documents the callers may submit
    MaxWrites, \* bound: accepted writes
    MaxRuns    \* bound: fetches of the panel

VARIABLES
    store,     \* of each mission, its document and its persisted checkpoint
    writes,    \* the version written last; those of earlier days are 1
    open,      \* the screen is mounted
    list,      \* durableList
    chosen,    \* selectedDurableId
    detail,    \* durableDetail
    runs,      \* the fetches of the two effects, in order
    listRun, detailRun, \* the fetch each effect started last; 0 when it was cleaned up
    due        \* the detail effect is due: a dependency of it changed

vars == <<store, writes, open, list, chosen, detail, runs, listRun, detailRun, due>>

None == "none"
Nodes == Items \cup Stones

-----------------------------------------------------------------------------
(* The documents: what they claim of work items, milestones and dependencies    *)
Item == [st : {"pending", "active", "blocked", "completed", "?"}, out : {None, "completed", "failed"},
         ev : BOOLEAN, exit : BOOLEAN, cap : STRING, caps : SUBSET STRING, own : BOOLEAN,
         stone : Stones \cup {None, "ghost"}, owner : STRING]
Stone == [st : {"pending", "completed"}, out : {None, "completed", "failed"}, ev : BOOLEAN,
          deps : SUBSET (Nodes \cup {"ghost"}), items : SUBSET Items]
Edge == [from : Nodes \cup {"ghost"}, to : Nodes, sat : BOOLEAN, ev : BOOLEAN]
IsBody(b) ==
    /\ DOMAIN b = {"st", "source", "own", "caps", "item", "stone", "edges"}
    /\ b.st \in {"draft", "active", "completed"} /\ b.source \in {"user", "spok", "import"}
    /\ b.own \in BOOLEAN /\ b.edges \subseteq Edge
    /\ \E D \in SUBSET Items : b.item \in [D -> Item]
    /\ \E D \in SUBSET Stones : b.stone \in [D -> Stone]

(* Of the constants: *)
ControlRoomAssumption ==
    /\ Items \cap Stones = {} /\ "ghost" \notin Nodes
    /\ "list" \notin Missions \* the tag of a fetch of the list
    /\ \A b \in Bodies : IsBody(b)
    /\ MaxWrites \in Nat \ {0} /\ MaxRuns \in Nat

NoBody == [st |-> None, source |-> "user", own |-> FALSE, caps |-> {}, item |-> <<>>, stone |-> <<>>, edges |-> {}]

\* sanitizeTerminalOutcome: completion is refused without evidence
OutcomeOk(x) == x.out = "completed" => x.ev

\* sanitizeAuthority; a receipt without capabilities restricts nothing
Granted(x) == IF x.own THEN x.caps ELSE {}

\* assertRequestedCapabilityAllowed, assertAuthorityWithinParent
CapabilityOk(b, i) == Granted(b) # {} => b.item[i].cap \in Granted(b)
AuthorityOk(b, i) == Granted(b) # {} => Granted(b.item[i]) \subseteq Granted(b)

(* Mutant: an exit of the process counts as completion.                         *)
CompletionOfExit(x) == x.st = "completed" => x.exit \/ (x.out = "completed" /\ x.ev)

\* assertWorkItemCompletion
CompletionOk(x) == x.st = "completed" => x.out = "completed" /\ x.ev

ItemOk(b, i) ==
    CapabilityOk(b, i) /\ AuthorityOk(b, i) /\ OutcomeOk(b.item[i]) /\ CompletionOk(b.item[i])

StoneOk(x) == OutcomeOk(x) /\ (x.st = "completed" => x.out = "completed" /\ x.ev)

\* assertDependencySatisfaction, and the nodes of a satisfied edge are known
EdgeOk(b, e) ==
    /\ e.from # e.to
    /\ e.sat => e.ev /\ e.from \in DOMAIN b.item \cup DOMAIN b.stone /\ e.to \in DOMAIN b.item \cup DOMAIN b.stone

\* sanitizeMission
Accepted(b) ==
    /\ \A s \in DOMAIN b.stone : StoneOk(b.stone[s])
    /\ \A i \in DOMAIN b.item : ItemOk(b, i)
    /\ \A e \in b.edges : EdgeOk(b, e)

\* A status the schema does not know becomes pending.
Known(x) == IF x.st = "?" THEN [x EXCEPT !.st = "pending"] ELSE x
Sanitized(b) == [b EXCEPT !.item = [i \in DOMAIN b.item |-> Known(b.item[i])]]

\* buildMissionFromCreate, markAuthorityNeutralImport
Created(b) == [b EXCEPT !.st = "draft", !.source = "user"]
Imported(b) == [b EXCEPT !.source = "import"]

-----------------------------------------------------------------------------
(* materializeCheckpoint; `of' is the version of the document it was made from  *)
\* collectEvidence; what is only expected is listed there too and left out here
Evidence(b) ==
    {i \in DOMAIN b.item : b.item[i].ev} \cup {s \in DOMAIN b.stone : b.stone[s].ev}
        \cup {e.from : e \in {d \in b.edges : d.ev}}
Risks(b) ==
    {i \in DOMAIN b.item : b.item[i].st = "blocked"
        \/ (b.item[i].exit /\ b.item[i].out = None /\ b.item[i].st # "completed")}
Checkpoint(b, of) ==
    [exists |-> TRUE, of |-> of, active |-> {i \in DOMAIN b.item : b.item[i].st = "active"},
     evidence |-> Evidence(b), risks |-> Risks(b)]
NoCheckpoint == [exists |-> FALSE, of |-> 0, active |-> {}, evidence |-> {}, risks |-> {}]

NoRecord == [body |-> NoBody, at |-> 0, check |-> NoCheckpoint]
Stored == {m \in Missions : store[m].at # 0}

\* What GET answers of a mission: its document, and its checkpoint or one made up on the spot
Read(m) == [kind |-> "ok", id |-> m, ids |-> {}, body |-> store[m].body, at |-> store[m].at,
            check |-> NoCheckpoint, persisted |-> FALSE]
ReadCheckpoint(m) ==
    [Read(m) EXCEPT !.check = IF store[m].check.exists THEN store[m].check
                              ELSE Checkpoint(store[m].body, store[m].at),
                    !.persisted = store[m].check.exists]
\* The list is sorted, the last written first.
Newest == IF Stored = {} THEN None ELSE CHOOSE m \in Stored : \A n \in Stored : store[n].at <= store[m].at
ReadList == [kind |-> "ok", id |-> Newest, ids |-> Stored, body |-> NoBody, at |-> 0,
             check |-> NoCheckpoint, persisted |-> FALSE]
NoAnswer == [ReadList EXCEPT !.kind = None, !.id = None, !.ids = {}]
\* clientError: which error it is only changes the words of the panel
Failed == [NoAnswer EXCEPT !.kind = "failed"]

(* projectWorkItem, projectMilestone: what the panel claims of each             *)
Incoming(b, n) == {e \in b.edges : e.to = n}
Waits(b, n) == {e \in Incoming(b, n) : ~e.sat}
DepState(b, i) ==
    IF Incoming(b, i) = {} THEN None ELSE IF Waits(b, i) = {} THEN "satisfied"
    ELSE IF b.item[i].st = "blocked" THEN "blocked" ELSE "waiting"
\* workItemEvidenceBadge
Badge(x) ==
    IF x.exit /\ x.out = None /\ x.st # "completed" THEN "exit"
    ELSE IF x.out # None /\ x.ev THEN "evidence" ELSE "nothing"
ItemView(b, i) == [st |-> b.item[i].st, deps |-> DepState(b, i), badge |-> Badge(b.item[i]),
                   owner |-> b.item[i].owner]

\* The first edge of a reference decides (edges are a set: CHOOSE is their order), then the
\* work item, then the milestone of that id.
Unsatisfied(b, s) ==
    {r \in b.stone[s].deps :
        LET edges == {e \in b.edges : e.to = s /\ e.from = r}
        IN IF edges # {} THEN ~(CHOOSE e \in edges : TRUE).sat
           ELSE IF r \in DOMAIN b.item THEN b.item[r].st # "completed" \/ b.item[r].out = None
           ELSE IF r \in DOMAIN b.stone THEN b.stone[r].st # "completed" ELSE TRUE}
Members(b, s) == {i \in DOMAIN b.item : b.item[i].stone = s \/ i \in b.stone[s].items}
StoneView(b, s) == [st |-> b.stone[s].st, waits |-> Unsatisfied(b, s), items |-> Members(b, s)]

\* projectMissionLeadershipView
Loose(b) == {i \in DOMAIN b.item : b.item[i].stone = None /\ \A s \in DOMAIN b.stone : i \notin b.stone[s].items}
EmptyPlan(b) == DOMAIN b.item = {} /\ DOMAIN b.stone = {}
Owners(b) == {b.item[i].owner : i \in DOMAIN b.item} \ {"spok"}
View(mission, checkpoint) ==
    LET b == mission.body
    IN [id |-> mission.id, st |-> b.st, source |-> b.source, at |-> mission.at,
        item |-> [i \in DOMAIN b.item |-> ItemView(b, i)],
        stone |-> [s \in DOMAIN b.stone |-> StoneView(b, s)],
        loose |-> Loose(b), owners |-> Owners(b), empty |-> EmptyPlan(b),
        check |-> checkpoint.check]

-----------------------------------------------------------------------------
(* The panel                                                                    *)
Idle == [status |-> "idle", m |-> None, mission |-> NoAnswer, check |-> NoAnswer]
Loading == [status |-> "loading", ids |-> {}]
\* withTimeout and readJson: a leg waits for the headers, then for the body
Leg == [stage |-> "sent", ans |-> NoAnswer]
Done == [stage |-> "done", ans |-> NoAnswer]
Legs == 1..2
Run(of) == [of |-> of, settled |-> FALSE, since |-> IF of = "list" THEN 0 ELSE store[of].at,
            leg |-> IF of = "list" THEN <<Leg, Done>> ELSE <<Leg, Leg>>]

TypeOK ==
    /\ DOMAIN store = Missions /\ writes \in 1..MaxWrites /\ open \in BOOLEAN
    /\ \A m \in Missions : store[m].at \in 0..writes
    /\ list.status \in {"loading", "ready", "error"} /\ list.ids \subseteq Missions
    /\ chosen \in Missions \cup {None}
    /\ detail.status \in {"idle", "loading", "ready", "error"} /\ detail.m \in Missions \cup {None}
    /\ Len(runs) <= MaxRuns /\ listRun \in 0..Len(runs) /\ detailRun \in 0..Len(runs)
    /\ \A r \in DOMAIN runs :
        /\ runs[r].of \in Missions \cup {"list"} /\ runs[r].since \in 0..writes
        /\ \A l \in Legs : runs[r].leg[l].stage \in {"sent", "body", "done"}
    /\ due \in BOOLEAN

\* Missions written on earlier days, all alike
Init ==
    /\ \E old \in {{}, Missions}, b \in {d \in Bodies : Accepted(d)} :
        store = [m \in Missions |-> IF m \in old THEN [NoRecord EXCEPT !.body = Sanitized(b), !.at = 1] ELSE NoRecord]
    /\ writes = 1
    /\ open = FALSE /\ list = Loading /\ chosen = None /\ detail = Idle
    /\ runs = <<>> /\ listRun = 0 /\ detailRun = 0 /\ due = FALSE

host == <<store, writes>>
panel == <<open, list, chosen, detail, runs, listRun, detailRun, due>>

(* writeMission, from the three handlers that reach it                          *)
Write(m, b) ==
    /\ writes < MaxWrites /\ Accepted(b)
    /\ writes' = writes + 1
    /\ store' = [store EXCEPT ![m].body = Sanitized(b), ![m].at = writes + 1]
    /\ UNCHANGED <<panel>>

Create(m) == m \notin Stored /\ \E b \in Bodies : Write(m, Created(b))
Import(m) == \E b \in Bodies : Write(m, Imported(b))
Put(m) == m \in Stored /\ \E b \in Bodies : Write(m, b)

(* checkpointMission: the file, then the reference to it in the document        *)
Post(m) ==
    /\ m \in Stored /\ writes < MaxWrites
    /\ writes' = writes + 1
    /\ store' = [store EXCEPT ![m].check = Checkpoint(store[m].body, store[m].at), ![m].at = writes + 1]
    /\ UNCHANGED <<panel>>

-----------------------------------------------------------------------------
(* The effect on durableListNonce: the first mount and every Retry or Refresh   *)
StartList ==
    /\ Len(runs) < MaxRuns /\ runs' = Append(runs, Run("list"))
    /\ listRun' = Len(runs) + 1 /\ list' = Loading

Mount ==
    /\ ~open /\ open' = TRUE /\ StartList
    /\ chosen' = None /\ detail' = Idle /\ detailRun' = 0 /\ due' = TRUE
    /\ UNCHANGED <<host>>

Unmount ==
    /\ open /\ open' = FALSE /\ listRun' = 0 /\ detailRun' = 0 /\ due' = FALSE
    /\ UNCHANGED <<host, list, chosen, detail, runs>>

\* Retry while it loads or failed, Refresh above the missions
RetryList == open /\ StartList /\ UNCHANGED <<host, open, chosen, detail, detailRun, due>>

(* The effect on selectedDurableId and durableDetailNonce                       *)
DetailEffect ==
    /\ open /\ due /\ due' = FALSE
    /\ \/ /\ chosen = None /\ detail' = Idle /\ detailRun' = 0 /\ UNCHANGED runs
       \/ /\ chosen # None /\ Len(runs) < MaxRuns
          /\ runs' = Append(runs, Run(chosen)) /\ detailRun' = Len(runs) + 1
          /\ detail' = [Idle EXCEPT !.status = "loading", !.m = chosen]
    /\ UNCHANGED <<host, open, list, chosen, listRun>>

\* The select above the plan
Choose(m) ==
    /\ open /\ list.status = "ready" /\ Cardinality(list.ids) > 1 /\ m \in list.ids
    /\ chosen' = m /\ due' = (due \/ m # chosen)
    /\ UNCHANGED <<host, open, list, detail, runs, listRun, detailRun>>

\* onRetryDetail
RetryDetail ==
    /\ open /\ list.status = "ready" /\ detail.status \in {"loading", "error"}
    /\ Len(runs) < MaxRuns /\ due' = TRUE
    /\ UNCHANGED <<host, open, list, chosen, detail, runs, listRun, detailRun>>

-----------------------------------------------------------------------------
(* withTimeout and readJson: headers, eight seconds without them, the body      *)
Answer(r, l) ==
    IF runs[r].of = "list" THEN ReadList ELSE IF l = 1 THEN Read(runs[r].of) ELSE ReadCheckpoint(runs[r].of)
SetLeg(r, l, leg) ==
    /\ runs' = [runs EXCEPT ![r].leg[l] = leg]
    /\ UNCHANGED <<host, open, list, chosen, detail, listRun, detailRun, due>>
InState(r, l, stage) == r \in DOMAIN runs /\ l \in Legs /\ runs[r].leg[l].stage = stage

Headers(r, l) ==
    /\ InState(r, l, "sent") /\ SetLeg(r, l, [stage |-> "body", ans |-> Answer(r, l)])
BodyArrives(r, l) ==
    /\ InState(r, l, "body") /\ SetLeg(r, l, [stage |-> "done", ans |-> runs[r].leg[l].ans])
\* The timer of withTimeout, a request that is lost, the abort of an effect that was cleaned up
TimesOut(r, l) == InState(r, l, "sent") /\ SetLeg(r, l, [stage |-> "done", ans |-> Failed])
\* A refusal, and a body that breaks off or is no answer
Fails(r, l) == InState(r, l, "body") /\ SetLeg(r, l, [stage |-> "done", ans |-> Failed])

(* Mutant: the flag `cancelled' is not looked at.                               *)
LiveAlways(r) == open

\* `cancelled' is set by the clean-up of the effect
Live(r) == r \in {listRun, detailRun}

Ended(r) == r \in DOMAIN runs /\ ~runs[r].settled /\ \A l \in Legs : runs[r].leg[l].stage = "done"
Settled(r) == runs' = [runs EXCEPT ![r].settled = TRUE, ![r].leg = <<Done, Done>>]
Ans(r, l) == runs[r].leg[l].ans

ListAnswered(r) ==
    /\ Ended(r) /\ runs[r].of = "list" /\ Settled(r)
    /\ \/ ~Live(r) /\ UNCHANGED <<list, chosen, due>>
       \/ /\ Live(r) /\ Ans(r, 1).kind # "ok"
          /\ list' = [status |-> "error", ids |-> {}] /\ UNCHANGED <<chosen, due>>
       \/ /\ Live(r) /\ Ans(r, 1).kind = "ok"
          /\ list' = [status |-> "ready", ids |-> Ans(r, 1).ids]
          /\ chosen' = IF chosen \in Ans(r, 1).ids THEN chosen ELSE Ans(r, 1).id
          /\ due' = (due \/ chosen' # chosen)
    /\ UNCHANGED <<host, open, detail, listRun, detailRun>>

\* Without a checkpoint the mission is shown all the same.
DetailAnswered(r) ==
    /\ Ended(r) /\ runs[r].of # "list" /\ Settled(r)
    /\ \/ ~Live(r) /\ UNCHANGED detail
       \/ /\ Live(r)
          /\ detail' = [status |-> IF Ans(r, 1).kind = "ok" THEN "ready" ELSE "error", m |-> runs[r].of,
                        mission |-> Ans(r, 1), check |-> IF Ans(r, 1).kind = "ok" THEN Ans(r, 2) ELSE NoAnswer]
    /\ UNCHANGED <<host, open, list, chosen, listRun, detailRun, due>>

Next ==
    \/ \E m \in Missions : Create(m) \/ Import(m) \/ Put(m) \/ Post(m) \/ Choose(m)
    \/ Mount \/ Unmount \/ RetryList \/ DetailEffect \/ RetryDetail
    \/ \E r \in 1..MaxRuns :
        \/ \E l \in Legs : Headers(r, l) \/ BodyArrives(r, l) \/ TimesOut(r, l) \/ Fails(r, l)
        \/ ListAnswered(r) \/ DetailAnswered(r)

Spec == Init /\ [][Next]_vars

-----------------------------------------------------------------------------
(* Mutant: the panel shows whatever was fetched last.                           *)
IsShownAnyway == open /\ list.status = "ready" /\ list.ids # {} /\ detail.status = "ready"

\* What the panel shows: nothing while the list is on its way, failed or empty
IsShown ==
    open /\ list.status = "ready" /\ list.ids # {} /\ detail.status = "ready" /\ detail.m = chosen
Shown == View(detail.mission, detail.check)
\* The work items of the plan on the screen: below their milestones, then the others
Listed == (UNION {Shown.stone[s].items : s \in DOMAIN Shown.stone}) \cup Shown.loose

(* The plan on the screen is that of the mission the select names, and when the *)
(* effects have run it was read after the captain last asked for it: no answer  *)
(* to an earlier selection or retry takes its place (enterprise-screen.tsx      *)
(* 235-279, 955-959).                                                           *)
ShownIsAsked ==
    /\ IsShown => Shown.id = chosen
    /\ open /\ ~due /\ detail.status # "idle" => detail.m = chosen
    /\ IsShown /\ ~due => Shown.at >= runs[detailRun].since

(* Progress on the screen rests on evidence, whichever handler wrote the plan:  *)
(* a completed work item or milestone carries an outcome with evidence, an exit *)
(* of a process is never its only ground, and a dependency that is not listed   *)
(* as open was satisfied with evidence or ended with it (validate.ts, client.ts *)
(* projectMilestone).                                                           *)
ProgressIsBacked ==
    IsShown =>
        /\ \A i \in Listed :
            /\ Shown.item[i].st = "completed" => Shown.item[i].badge = "evidence"
            /\ Shown.item[i].deps = "satisfied" =>
                \A e \in Incoming(detail.mission.body, i) : e.ev /\ e.from \in DOMAIN Shown.item \cup DOMAIN Shown.stone
        /\ \A s \in DOMAIN Shown.stone : \A r \in detail.mission.body.stone[s].deps \ Shown.stone[s].waits :
            \/ \E e \in detail.mission.body.edges : e.from = r /\ e.ev
            \/ r \in DOMAIN Shown.item /\ detail.mission.body.item[r].out # None
            \/ r \in DOMAIN Shown.stone /\ detail.mission.body.stone[r].ev

(* The mission on the screen is the one that was asked for, and its progress is *)
(* backed by evidence (enterprise-screen.tsx:235, validate.ts:382).             *)
ScreenIsTrue == ShownIsAsked /\ ProgressIsBacked
=============================================================================

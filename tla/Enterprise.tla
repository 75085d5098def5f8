------------------------------ MODULE Enterprise ------------------------------
(* The live teams of the Missions screen: a team is the jobs that carry its     *)
(* id.  The captain launches it, follows up in the worktree of its latest turn, *)
(* retries, stops and accepts turns; the Monitor and the inbox act on the same  *)
(* jobs.  The steps of a run are those JobRunner details.  One client.          *)
EXTENDS Naturals, Sequences, FiniteSets

CONSTANTS
    Teams,     \* team ids
    Names,     \* names of requested specialists
    Labels,    \* labels of provider lanes
    Includes,  \* <<label, name>>: the normalized label contains the normalized name
    MaxJobs,   \* bound: jobs created
    MaxCrew,   \* MAX_ENTERPRISE_CREW
    MaxClicks, \* bound: what the captain does
    MaxLanes,  \* bound: lanes the provider emits
    MaxFaults  \* bound: failed writes, failed preparations and reloads

(* Of the constants: the ledger of earlier days fits the bound on jobs          *)
EnterpriseAssumption ==
    /\ "none" \notin Teams /\ IsFiniteSet(Teams)
    /\ MaxJobs \in Nat /\ Cardinality(Teams) <= MaxJobs
    /\ MaxClicks \in Nat /\ MaxFaults \in Nat

VARIABLES
    jobs, made, \* automationJobs in the order of createdAt, and how many there were
    disk,      \* of each job, what the ledger holds
    crew,      \* of each team, the crew its prompt names
    lanes,     \* of each job, the labels of its session's lanes in order
    saving,    \* acceptances whose write is under way
    draft, brief, \* draftMode; the goal and the names typed there
    team, turn, person, \* activeTeamId, selectedTurnJobId, selectedPersonId
    typed,     \* the team the follow-up text was typed for
    sent,      \* of each follow-up, the team its text was typed for
    clicks, faults

vars == <<jobs, made, disk, crew, lanes, saving, draft, brief, team, turn, person, typed, sent, clicks, faults>>

None == "none"
Ids == 1..MaxJobs
Active == {"queued", "starting", "running"}
Retryable == {"failed", "cancelled"}
Terminal == Retryable \cup {"completed"}
NoJob == [st |-> None, team |-> None, turn |-> 0, wt |-> 0, session |-> FALSE,
          summary |-> FALSE, accepted |-> FALSE, given |-> FALSE, saved |-> FALSE]
Jobs == [st : Active \cup Terminal \cup {None}, team : Teams \cup {None}, turn : 0..MaxJobs,
         wt : 0..MaxJobs, session : BOOLEAN, summary : BOOLEAN, accepted : BOOLEAN,
         given : BOOLEAN, saved : BOOLEAN]
Briefs == [goal : BOOLEAN, crew : SUBSET Names]

TypeOK ==
    /\ jobs \in [Ids -> Jobs] /\ disk \in [Ids -> Jobs]
    /\ \A j \in Ids : jobs[j].team = None <=> jobs[j].turn = 0
    /\ crew \in [Teams -> SUBSET Names] /\ lanes \in [Ids -> Seq(Labels)]
    /\ saving \subseteq Ids /\ draft \in BOOLEAN /\ brief \in Briefs
    /\ team \in Teams \cup {None} /\ turn \in 0..MaxJobs
    /\ person \in Names \cup Labels \cup {"spok"}
    /\ typed \in Teams \cup {None} /\ sent \in [Ids -> Teams \cup {None}]
    /\ made \in 0..MaxJobs /\ clicks \in 0..MaxClicks /\ faults \in 0..MaxFaults

(* The ledger of earlier days: one ended turn of each team, in some order       *)
Earlier == CHOOSE old \in [1..Cardinality(Teams) -> Teams] :
               \A i, j \in DOMAIN old : old[i] = old[j] => i = j
Past(st) == [j \in Ids |-> IF j > Cardinality(Teams) THEN NoJob
                          ELSE [NoJob EXCEPT !.st = st, !.team = Earlier[j], !.turn = 1, !.wt = j,
                                             !.session = TRUE, !.saved = TRUE]]

Init ==
    /\ \/ jobs = [j \in Ids |-> NoJob] /\ made = 0
       \/ /\ \E st \in {"completed", "failed"} : jobs = Past(st)
          /\ made = Cardinality(Teams)
    /\ disk = jobs
    /\ crew = [t \in Teams |-> {}] /\ lanes = [j \in Ids |-> <<>>] /\ saving = {}
    /\ draft = FALSE /\ brief = [goal |-> FALSE, crew |-> {}]
    /\ team = None /\ turn = 0 /\ person = "spok" /\ typed = None
    /\ sent = [j \in Ids |-> None] /\ clicks = 0 /\ faults = 0

Click == clicks < MaxClicks /\ clicks' = clicks + 1
Fault == faults < MaxFaults /\ faults' = faults + 1
rows == <<jobs, made>>
screen == <<draft, brief, team, turn, person, typed>>
ledger == <<disk, saving>>

-----------------------------------------------------------------------------
JobsOf(t) == {j \in Ids : jobs[j].st # None /\ jobs[j].team = t}
Live == {t \in Teams : JobsOf(t) # {}}

(* buildEnterpriseTeams: the last of a team's jobs by turn, then by age         *)
Current(t) ==
    CHOOSE j \in JobsOf(t) : \A i \in JobsOf(t) :
        jobs[i].turn < jobs[j].turn \/ (jobs[i].turn = jobs[j].turn /\ i <= j)
TurnOf(t) == jobs[Current(t)]

(* baseTeams[0]: the team whose first job is the newest                         *)
First(t) == CHOOSE j \in JobsOf(t) : \A i \in JobsOf(t) :
        jobs[j].turn < jobs[i].turn \/ (jobs[i].turn = jobs[j].turn /\ j <= i)
Newest(S) == IF S = {} THEN None ELSE CHOOSE t \in S : \A u \in S : First(u) <= First(t)

(* selectedTeamId: with nothing chosen, the newest team                         *)
Shown == IF team # None THEN team ELSE Newest(Live)
OnScreen == ~draft /\ Shown \in Live
Inspected == IF turn \in JobsOf(Shown) THEN turn ELSE Current(Shown)

(* Mutant: the effect leaves the text of the follow-up.                         *)
EffectKeepsText ==
    IF Shown' = Shown THEN UNCHANGED <<turn, person, typed>>
    ELSE turn' = 0 /\ person' = "spok" /\ UNCHANGED typed

(* The effect on selectedTeamId resets what was chosen for another team         *)
Effect ==
    IF Shown' = Shown THEN UNCHANGED <<turn, person, typed>>
    ELSE turn' = 0 /\ person' = "spok" /\ typed' = None

(* Mutant: a turn that is under way can be followed up.                         *)
CanContinueActive(t) == TurnOf(t).wt # 0

CanContinue(t) == TurnOf(t).st \notin Active /\ TurnOf(t).wt # 0

(* enqueueBackgroundJob: a row at once, and its first write under way           *)
Enqueue(job) ==
    /\ made < MaxJobs /\ made' = made + 1
    /\ jobs' = [jobs EXCEPT ![made + 1] = job]
    /\ UNCHANGED <<ledger, lanes>>

-----------------------------------------------------------------------------
(* EnterpriseDraft: goal and crew are typed, and stay after a launch            *)
Brief ==
    /\ Click /\ (draft \/ Live = {})
    /\ \E b \in Briefs : Cardinality(b.crew) <= MaxCrew /\ b # brief /\ brief' = b
    /\ UNCHANGED <<rows, ledger, crew, lanes, draft, team, turn, person, typed, sent, faults>>

(* launchMission                                                                *)
LaunchMission ==
    /\ Click /\ (draft \/ Live = {}) /\ brief.goal
    /\ \E t \in Teams :
        /\ \A j \in Ids : t \notin {jobs[j].team, disk[j].team}
        /\ Enqueue([NoJob EXCEPT !.st = "queued", !.team = t, !.turn = 1])
        /\ crew' = [crew EXCEPT ![t] = brief.crew]
        /\ team' = t /\ draft' = FALSE
    /\ UNCHANGED <<brief, sent, faults>> /\ Effect

NewMission == /\ Click /\ OnScreen /\ draft' = TRUE
              /\ UNCHANGED <<rows, ledger, crew, lanes, brief, team, turn, person, typed, sent, faults>>

(* Back from the draft shows the newest team                                    *)
Back == /\ Click /\ draft /\ Live # {} /\ draft' = FALSE /\ team' = Newest(Live)
        /\ UNCHANGED <<rows, ledger, crew, lanes, brief, sent, faults>> /\ Effect

SelectTeam == /\ Click /\ OnScreen /\ team' \in Live \ {Shown}
              /\ UNCHANGED <<rows, ledger, crew, lanes, draft, brief, sent, faults>> /\ Effect

(* The roster: a turn, and the person whose trace the inspector shows           *)
SelectTurn ==
    /\ Click /\ OnScreen /\ \E j \in JobsOf(Shown) : turn' = j
    /\ person' = "spok"
    /\ UNCHANGED <<rows, ledger, crew, lanes, draft, brief, team, typed, sent, faults>>

(* Lane k is found by the first name it equals, or else contains                *)
LaneFor(n, ls) ==
    LET equal == {k \in DOMAIN ls : ls[k] = n}
        near == {k \in DOMAIN ls : <<ls[k], n>> \in Includes}
        least(S) == CHOOSE k \in S : \A i \in S : k <= i
    IN IF equal # {} THEN least(equal) ELSE IF near # {} THEN least(near) ELSE 0

(* Mutant: only what the captain asked for has a station.                       *)
StationsRequested(c, ls) == {[who |-> n, lane |-> LaneFor(n, ls)] : n \in c}

(* buildEnterpriseCrewStations: the requested, and the lanes none of them took  *)
Stations(c, ls) ==
    LET asked == {[who |-> n, lane |-> LaneFor(n, ls)] : n \in c}
        rest == DOMAIN ls \ {s.lane : s \in asked}
    IN asked \cup {[who |-> ls[k], lane |-> k] : k \in rest}

SelectPerson ==
    /\ Click /\ OnScreen
    /\ \E s \in Stations(crew[Shown], lanes[Inspected]) : person' = s.who /\ person # s.who
    /\ UNCHANGED <<rows, ledger, crew, lanes, draft, brief, team, turn, typed, sent, faults>>

(* The text of a follow-up                                                      *)
Type == /\ Click /\ OnScreen /\ CanContinue(Shown) /\ typed = None /\ typed' = Shown
        /\ UNCHANGED <<rows, ledger, crew, lanes, draft, brief, team, turn, person, sent, faults>>

(* followUpWithTeam: the next turn continues in the latest turn's worktree      *)
FollowUp ==
    /\ Click /\ OnScreen /\ CanContinue(Shown) /\ typed # None
    /\ Enqueue([NoJob EXCEPT !.st = "queued", !.team = Shown, !.turn = TurnOf(Shown).turn + 1,
                             !.wt = TurnOf(Shown).wt])
    /\ sent' = [sent EXCEPT ![made'] = typed]
    /\ typed' = None /\ person' = "spok" /\ turn' = 0
    /\ UNCHANGED <<crew, draft, brief, team, faults>>

(* Mutant: a copy keeps the number of the turn.                                 *)
CloneKeepsTurn(j, intent) ==
    IF intent = "retry"
    THEN [NoJob EXCEPT !.st = "queued", !.team = jobs[j].team, !.turn = jobs[j].turn,
                       !.accepted = jobs[j].accepted]
    ELSE [NoJob EXCEPT !.st = "queued", !.turn = jobs[j].turn]

(* cloneJobBlueprint: a retry keeps the team, the turn and its acceptance, but  *)
(* no session or worktree; a copy keeps none of them                            *)
Clone(j, intent) ==
    IF intent = "retry"
    THEN [NoJob EXCEPT !.st = "queued", !.team = jobs[j].team, !.turn = jobs[j].turn,
                       !.accepted = jobs[j].accepted]
    ELSE [NoJob EXCEPT !.st = "queued"]

(* performInboxJobAction, from the team's Retry button, the Monitor or an inbox *)
JobAction ==
    /\ Click
    /\ \E j \in Ids, intent \in {"retry", "duplicate"} :
        /\ jobs[j].st \in (IF intent = "retry" THEN Retryable ELSE Terminal)
        /\ Enqueue(Clone(j, intent))
    /\ UNCHANGED <<crew, screen, sent, faults>>

(* cancelBackgroundJob: the row is cancelled at once, whatever its agent does;  *)
(* nobody waits for its write, which may fail                                   *)
Cancel ==
    /\ Click
    /\ \E j \in Ids : /\ jobs[j].st \in Active /\ jobs' = [jobs EXCEPT ![j].st = "cancelled"]
                      /\ \/ disk' = [disk EXCEPT ![j] = jobs'[j]] /\ UNCHANGED faults
                         \/ Fault /\ UNCHANGED disk
    /\ UNCHANGED <<made, saving, crew, lanes, screen, sent>>

(* clearFinishedJobs of the Monitor                                             *)
ClearFinished ==
    /\ Click /\ \E j \in Ids : jobs[j].st \in Terminal
    /\ jobs' = [j \in Ids |-> IF jobs[j].st \in Terminal THEN NoJob ELSE jobs[j]]
    /\ UNCHANGED <<made, ledger, crew, lanes, draft, brief, team, sent, faults>> /\ Effect

(* acceptAndReturn, acceptEnterpriseTurn: shown as accepted before it is saved  *)
Accept ==
    /\ Click /\ OnScreen
    /\ LET j == Current(Shown) IN
        /\ jobs[j].summary /\ jobs[j].st \notin Active
        /\ IF jobs[j].accepted THEN UNCHANGED <<jobs, saving>>
           ELSE /\ jobs' = [jobs EXCEPT ![j].accepted = TRUE, ![j].given = TRUE]
                /\ saving' = saving \cup {j}
    /\ UNCHANGED <<made, disk, crew, lanes, screen, sent, faults>>

(* persistCurrentJobNow: the row as it is when its turn in the chain comes      *)
Saves(j) == disk' = IF jobs[j].st = None THEN disk ELSE [disk EXCEPT ![j] = jobs[j]]

AcceptSaved == \E j \in saving :
    /\ saving' = saving \ {j} /\ Saves(j)
    /\ UNCHANGED <<rows, crew, lanes, screen, sent, clicks, faults>>

(* Mutant: a failed save leaves the acceptance on screen.                       *)
ForgetsNothing(j) == UNCHANGED jobs

(* The link is what it was before                                               *)
Rollback(j) ==
    jobs' = IF jobs[j].st = None THEN jobs
            ELSE [jobs EXCEPT ![j].accepted = FALSE, ![j].given = FALSE]

(* The request fails, or its answer is lost after the write                     *)
AcceptFails == \E j \in saving :
    /\ Fault /\ saving' = saving \ {j} /\ Rollback(j)
    /\ UNCHANGED disk \/ Saves(j)
    /\ UNCHANGED <<made, crew, lanes, screen, sent, clicks>>

-----------------------------------------------------------------------------
(* A run, as JobRunner details it: written first, then prepared in a worktree   *)
(* of its own or in the one it was given, then run in a session                 *)
Written == \E j \in Ids :
    /\ jobs[j].st = "queued" /\ ~jobs[j].saved
    /\ jobs' = [jobs EXCEPT ![j].saved = TRUE]
    /\ disk' = [disk EXCEPT ![j] = jobs'[j]]
    /\ UNCHANGED <<made, saving, crew, lanes, screen, sent, clicks, faults>>

NotWritten == \E j \in Ids :
    /\ jobs[j].st = "queued" /\ ~jobs[j].saved /\ Fault
    /\ jobs' = [jobs EXCEPT ![j].st = "failed"]
    /\ UNCHANGED <<made, ledger, crew, lanes, screen, sent, clicks>>

Prepare == \E j \in Ids :
    /\ jobs[j].st = "queued" /\ jobs[j].saved
    /\ jobs' = [jobs EXCEPT ![j].st = "starting"] /\ disk' = [disk EXCEPT ![j] = jobs'[j]]
    /\ UNCHANGED <<made, saving, crew, lanes, screen, sent, clicks, faults>>

PrepareFails == \E j \in Ids :
    /\ jobs[j].st = "starting" /\ Fault
    /\ \E w \in {jobs[j].wt, IF jobs[j].wt = 0 THEN j ELSE jobs[j].wt} :
        jobs' = [jobs EXCEPT ![j].st = "failed", ![j].wt = w]
    /\ disk' = [disk EXCEPT ![j] = jobs'[j]]
    /\ UNCHANGED <<made, saving, crew, lanes, screen, sent, clicks>>

RunStarts == \E j \in Ids :
    /\ jobs[j].st = "starting"
    /\ jobs' = [jobs EXCEPT ![j].st = "running", ![j].session = TRUE,
                            ![j].wt = IF @ = 0 THEN j ELSE @]
    /\ disk' = [disk EXCEPT ![j] = jobs'[j]]
    /\ UNCHANGED <<made, saving, crew, lanes, screen, sent, clicks, faults>>

(* The provider emits a lane                                                    *)
Emit == \E j \in Ids, l \in Labels :
    /\ jobs[j].st = "running" /\ Cardinality(UNION {{i} \X DOMAIN lanes[i] : i \in Ids}) < MaxLanes
    /\ lanes' = [lanes EXCEPT ![j] = Append(@, l)]
    /\ UNCHANGED <<rows, ledger, crew, screen, sent, clicks, faults>>

(* The summary of the leader, also while it stops or when its session is loaded *)
Summary == \E j \in Ids :
    /\ jobs[j].session /\ ~jobs[j].summary /\ jobs' = [jobs EXCEPT ![j].summary = TRUE]
    /\ UNCHANGED <<made, ledger, crew, lanes, screen, sent, clicks, faults>>

RunEnds == \E j \in Ids, st \in {"completed", "failed"} :
    /\ jobs[j].st = "running"
    /\ jobs' = [jobs EXCEPT ![j].st = st]
    /\ disk' = [disk EXCEPT ![j] = jobs'[j]]
    /\ UNCHANGED <<made, saving, crew, lanes, screen, sent, clicks, faults>>

(* scheduleLedgerSync writes the rows of this client back                       *)
Sync ==
    /\ saving = {} /\ disk' = [j \in Ids |-> [jobs[j] EXCEPT !.saved = @ \/ jobs[j].st # None]]
    /\ disk' # disk
    /\ UNCHANGED <<rows, saving, crew, lanes, screen, sent, clicks, faults>>

(* A page that loads again reads the ledger: what was under way is interrupted, *)
(* no session is loaded yet, and the screen starts afresh.                      *)
Reload ==
    /\ Fault
    /\ jobs' = [j \in Ids |-> [disk[j] EXCEPT !.summary = FALSE,
                    !.st = IF @ \in {"starting", "running"} THEN "failed" ELSE @]]
    /\ disk' = jobs' /\ saving' = {}
    /\ draft' = FALSE /\ brief' = [goal |-> FALSE, crew |-> {}]
    /\ team' = None /\ turn' = 0 /\ person' = "spok" /\ typed' = None
    /\ UNCHANGED <<made, crew, lanes, sent, clicks>>

Next ==
    \/ Brief \/ LaunchMission \/ NewMission \/ Back \/ SelectTeam \/ SelectTurn \/ SelectPerson
    \/ Type \/ FollowUp \/ JobAction \/ Cancel \/ ClearFinished
    \/ Accept \/ AcceptSaved \/ AcceptFails
    \/ Written \/ NotWritten \/ Prepare \/ PrepareFails \/ RunStarts \/ Emit \/ Summary \/ RunEnds
    \/ Sync \/ Reload

Spec == Init /\ [][Next]_vars

-----------------------------------------------------------------------------
(* No two turns that are under way share a worktree, whatever is followed up,   *)
(* retried, stopped and cleared (enterprise-screen.tsx:532, job-actions.ts:77). *)
OneTurnPerWorktree ==
    \A i, j \in Ids : (i # j /\ jobs[i].st \in Active /\ jobs[j].st \in Active)
                        => jobs[i].wt = 0 \/ jobs[i].wt # jobs[j].wt

(* An acceptance the captain gave and still sees, and that is not being saved,  *)
(* is in the ledger (background-runner.ts:270).                                 *)
AcceptedIsDurable ==
    \A j \in Ids : jobs[j].given /\ j \notin saving => disk[j].accepted

(* A follow-up is sent to the team it was typed for, also when the screen       *)
(* moved on to another team meanwhile (enterprise-screen.tsx:318).              *)
FollowUpIsForItsTeam ==
    \A j \in Ids : sent[j] # None /\ jobs[j].st # None => sent[j] = jobs[j].team

(* Every lane the provider emitted is at a station of the crew                  *)
(* (enterprise.ts:227).                                                         *)
CrewIsAccounted ==
    \A j \in Ids : jobs[j].team # None =>
        DOMAIN lanes[j] \subseteq {s.lane : s \in Stations(crew[jobs[j].team], lanes[j])}

(* What the screen of the live teams promises: no two turns under way share a   *)
(* worktree, an acceptance on show is in the ledger or being saved, a follow-up *)
(* goes to the team it was typed for, and every lane has a station              *)
(* (enterprise-screen.tsx:318, 532, background-runner.ts:270, enterprise.ts:227).*)
TeamsAreSound ==
    OneTurnPerWorktree /\ AcceptedIsDurable /\ FollowUpIsForItsTeam /\ CrewIsAccounted
=============================================================================

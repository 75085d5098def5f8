------------------------------ MODULE Automation ------------------------------
(* Scheduled jobs: lib/automation/schedules-fs.ts behind the routes of         *)
(* app/api/automation, the ticker of lib/background-runner.ts in every open    *)
(* client, and the schedule list of the monitor panel, which may be old.       *)
EXTENDS Integers, FiniteSets, Bags

CONSTANTS
    Scheds,     \* schedule ids
    Tabs,       \* clients that may be open
    Panels,     \* those of them in which the monitor may be opened
    Every,      \* the interval of a schedule, in ticks of the clock
    MaxTime,    \* bound: the clock
    MaxUnder,   \* bound: ticks and marks under way together
    MaxEdits,   \* bound: changes made by users, and of trust
    MaxFaults   \* bound: requests that are lost

VARIABLES
    now,      \* Date.now() at the runtime
    sched,    \* schedules.json
    trusted,  \* the schedules whose workspace is trusted
    tab,      \* each client: whether its ticker runs, the list its panel shows
    ticks,    \* a bag: the calls of tickSchedules that have not returned
    marks,    \* a bag: mark_run requests on their way, [by, id]
    jobs,     \* a bag: the jobs a schedule has fired and that have not ended
    fired,    \* slots (nextRunAt) a tab has fired since the schedule was edited
    edits, faults

vars == <<now, sched, trusted, tab, ticks, marks, jobs, fired, edits, faults>>

Time == 0..(MaxTime + Every)
None == [on |-> FALSE, next |-> -1]
Schedule == [on : BOOLEAN, next : Time] \cup {None}
Shown == [Scheds -> Schedule]
Due == [id : Scheds, ok : BOOLEAN, slot : Time]
Modes == {"closed", "booting", "ticking", "quiet"}
Job == [by : Tabs, id : Scheds]
Asked(t) == [by |-> t, got |-> FALSE, due |-> {}]

TypeOK ==
    /\ now \in 0..MaxTime /\ sched \in Shown /\ trusted \subseteq Scheds
    /\ tab \in [Tabs -> [mode : Modes, panel : Shown]]
    /\ BagToSet(ticks) \subseteq [by : Tabs, got : BOOLEAN, due : SUBSET Due]
    /\ BagToSet(marks) \subseteq Job /\ BagToSet(jobs) \subseteq Job
    /\ \A t \in Tabs : tab[t].mode = "closed" => \A k \in BagToSet(ticks) : k.by # t
    /\ fired \subseteq [by : Tabs, id : Scheds, slot : Time]
    /\ edits \in 0..MaxEdits /\ faults \in 0..MaxFaults

Nothing == [s \in Scheds |-> None]
Closed == [mode |-> "closed", panel |-> Nothing]

Init ==
    /\ now = 0 /\ trusted = Scheds
    /\ sched = [s \in Scheds |-> [on |-> TRUE, next |-> Every]]
    /\ tab = [t \in Tabs |-> Closed]
    /\ ticks = EmptyBag /\ marks = EmptyBag /\ jobs = EmptyBag
    /\ fired = {} /\ edits = 0 /\ faults = 0

-----------------------------------------------------------------------------
(* The user: the app is opened and closed, and the panel edits the schedule it *)
(* shows, which is written whole.                                              *)

Without(bag, t) == [e \in {x \in BagToSet(bag) : x.by # t} |-> bag[e]]

Open(t) ==
    /\ tab[t].mode = "closed"
    /\ tab' = [tab EXCEPT ![t].mode = "booting"]
    /\ UNCHANGED <<now, sched, trusted, ticks, marks, jobs, fired, edits, faults>>

(* The shell starts the ticker when the ledger has been read.                  *)
Boots(t) ==
    /\ tab[t].mode = "booting"
    /\ tab' = [tab EXCEPT ![t].mode = "ticking"]
    /\ UNCHANGED <<now, sched, trusted, ticks, marks, jobs, fired, edits, faults>>

(* No ledger, no ticker and no job that starts, until the client is reloaded.  *)
BootFails(t) ==
    /\ tab[t].mode = "booting" /\ faults < MaxFaults
    /\ faults' = faults + 1
    /\ tab' = [tab EXCEPT ![t].mode = "quiet"]
    /\ UNCHANGED <<now, sched, trusted, ticks, marks, jobs, fired, edits>>

Close(t) ==
    /\ tab[t].mode # "closed" /\ edits < MaxEdits
    /\ edits' = edits + 1
    /\ tab' = [tab EXCEPT ![t] = Closed]
    /\ ticks' = Without(ticks, t) /\ jobs' = Without(jobs, t)
    /\ UNCHANGED <<now, sched, trusted, marks, fired, faults>>

LoadPanel(t) ==
    /\ t \in Panels /\ tab[t].mode # "closed" /\ tab[t].panel # sched
    /\ tab' = [tab EXCEPT ![t].panel = sched]
    /\ UNCHANGED <<now, sched, trusted, ticks, marks, jobs, fired, edits, faults>>

Put(s, value) ==
    /\ edits < MaxEdits
    /\ edits' = edits + 1
    /\ sched' = [sched EXCEPT ![s] = value]
    /\ fired' = {f \in fired : f.id # s}
    /\ UNCHANGED <<now, trusted, tab, ticks, marks, jobs, faults>>

(* onToggle: the row as shown, with its old nextRunAt; a schedule that was     *)
(* deleted meanwhile is there again.                                           *)
Toggle(t, s) ==
    /\ tab[t].panel[s] # None
    /\ Put(s, [tab[t].panel[s] EXCEPT !.on = ~@])

Delete(t, s) == tab[t].panel[s] # None /\ sched[s] # None /\ Put(s, None)

Add(t, s) ==
    /\ t \in Panels /\ tab[t].mode # "closed" /\ sched[s] = None
    /\ Put(s, [on |-> TRUE, next |-> now + Every])

Trust(s) ==
    /\ edits < MaxEdits
    /\ edits' = edits + 1
    /\ trusted' = IF s \in trusted THEN trusted \ {s} ELSE trusted \cup {s}
    /\ UNCHANGED <<now, sched, tab, ticks, marks, jobs, fired, faults>>

-----------------------------------------------------------------------------
(* The ticker, once after 5 s and then every 30 s, and the monitor's button     *)
(* "Check schedules", which works without the ticker too: each calls           *)
(* tickSchedules, whatever calls and marks of the client are under way.        *)

TickStarts(t) ==
    /\ tab[t].mode # "closed" /\ BagCardinality(ticks) + BagCardinality(marks) < MaxUnder
    /\ ticks' = ticks (+) SetToBag({Asked(t)})
    /\ UNCHANGED <<now, sched, trusted, tab, marks, jobs, fired, edits, faults>>

(* listDueSchedules, with evaluateSchedulePolicy for each                      *)
DueNow == {s \in Scheds : sched[s] # None /\ sched[s].on /\ sched[s].next <= now}

Answer(t) == [Asked(t) EXCEPT !.got = TRUE,
    !.due = {[id |-> s, ok |-> s \in trusted, slot |-> sched[s].next] : s \in DueNow}]

TickAnswered(t) ==
    /\ BagIn(Asked(t), ticks)
    /\ ticks' = (ticks (-) SetToBag({Asked(t)})) (+) SetToBag({Answer(t)})
    /\ UNCHANGED <<now, sched, trusted, tab, marks, jobs, fired, edits, faults>>

TickLost(t) ==
    /\ BagIn(Asked(t), ticks) /\ faults < MaxFaults
    /\ faults' = faults + 1
    /\ ticks' = ticks (-) SetToBag({Asked(t)})
    /\ UNCHANGED <<now, sched, trusted, tab, marks, jobs, fired, edits>>

Fires(k) == {d \in k.due : d.ok}
Named(t, due) == {[by |-> t, id |-> d.id] : d \in due}

(* Mutant: a schedule that was skipped by policy is not marked.                *)
MarksOfFired(k) == Named(k.by, Fires(k))

(* Mutant: only the end of the job marks the schedule.                         *)
MarksOfSkipped(k) == Named(k.by, k.due \ Fires(k))

(* Fired or skipped, every due schedule is marked, and nobody waits for it.    *)
MarksOf(k) == Named(k.by, k.due)

TickApplies(k) ==
    /\ BagIn(k, ticks) /\ k.got
    /\ ticks' = ticks (-) SetToBag({k})
    /\ jobs' = jobs (+) SetToBag(Named(k.by, Fires(k)))
    /\ fired' = fired \cup {[by |-> k.by, id |-> d.id, slot |-> d.slot] : d \in Fires(k)}
    /\ marks' = marks (+) SetToBag(MarksOf(k))
    /\ UNCHANGED <<now, sched, trusted, tab, edits, faults>>

(* A scheduled job ends: its schedule is marked again, unless it was cancelled;*)
(* the queue of a client that did not boot is never pumped.                    *)
JobEnds(j) ==
    /\ BagIn(j, jobs) /\ tab[j.by].mode = "ticking"
    /\ jobs' = jobs (-) SetToBag({j})
    /\ marks' \in {marks, marks (+) SetToBag({j})}
    /\ UNCHANGED <<now, sched, trusted, tab, ticks, fired, edits, faults>>

(* markScheduleRun counts from the arrival of the mark.                        *)
MarkArrives(m) ==
    /\ BagIn(m, marks)
    /\ marks' = marks (-) SetToBag({m})
    /\ sched' = IF sched[m.id] = None THEN sched
                ELSE [sched EXCEPT ![m.id].next = now + Every]
    /\ UNCHANGED <<now, trusted, tab, ticks, jobs, fired, edits, faults>>

(* The slot stays due: the next tick fires it again.                           *)
MarkLost(m) ==
    /\ BagIn(m, marks) /\ faults < MaxFaults
    /\ faults' = faults + 1
    /\ marks' = marks (-) SetToBag({m})
    /\ fired' = {f \in fired : f.id # m.id}
    /\ UNCHANGED <<now, sched, trusted, tab, ticks, jobs, edits>>

Clock ==
    /\ now < MaxTime
    /\ now' = now + 1
    /\ UNCHANGED <<sched, trusted, tab, ticks, marks, jobs, fired, edits, faults>>

-----------------------------------------------------------------------------
TickReturns(t) ==
    TickAnswered(t) \/ \E k \in BagToSet(ticks) : k.by = t /\ TickApplies(k)

Arrival == \E m \in BagToSet(marks) : MarkArrives(m)

(* The timer of a client whose ticker runs                                     *)
Ticker(t) == tab[t].mode = "ticking" /\ TickStarts(t)

Next ==
    \/ Clock \/ Arrival
    \/ \E t \in Tabs :
        \/ Open(t) \/ Boots(t) \/ BootFails(t) \/ Close(t)
        \/ LoadPanel(t) \/ TickStarts(t) \/ TickReturns(t) \/ TickLost(t)
        \/ \E s \in Scheds : Toggle(t, s) \/ Delete(t, s) \/ Add(t, s)
    \/ \E s \in Scheds : Trust(s)
    \/ \E j \in BagToSet(jobs) : JobEnds(j)
    \/ \E m \in BagToSet(marks) : MarkLost(m)

(* The timer of a client that booted goes on ticking, requests are answered.   *)
Fairness ==
    /\ WF_vars(Arrival)
    /\ \A t \in Tabs : WF_vars(Ticker(t)) /\ WF_vars(TickReturns(t))
Spec == Init /\ [][Next]_vars /\ Fairness

(* Once the marks of a client have arrived nothing it has fired is due again,  *)
(* whatever calls of tickSchedules overlapped, other clients marked and jobs   *)
(* ended meanwhile, unless a user's edit or a lost mark has put the slot back. *)
FiredMovesOn ==
    \A t \in Tabs : (\A m \in BagToSet(marks) : m.by # t) =>
        \A s \in DueNow : [by |-> t, id |-> s, slot |-> sched[s].next] \notin fired

(* While some client's ticker runs, a due schedule does not stay due: it is    *)
(* fired or skipped, and its next run moves on, whatever requests of the tick  *)
(* are lost.  A client whose boot request failed "stays paused" and does not   *)
(* count (app-shell.tsx:65).                                                   *)
Ticking == \E t \in Tabs : tab[t].mode = "ticking"
DueMovesOn == \A s \in Scheds : s \in DueNow /\ Ticking ~> s \notin DueNow \/ ~Ticking

(* "Mark run immediately so nextRunAt advances (job may still be queued)"      *)
(* (background-runner.ts:837): a client does not fire a slot twice.  The code  *)
(* does not keep it (README, section 7): a second call of tickSchedules may be *)
(* answered, with the slot still due, before the mark of the first arrives.    *)
SlotFiresOnce ==
    \A k \in BagToSet(ticks) : \A d \in Fires(k) :
        [by |-> k.by, id |-> d.id, slot |-> d.slot] \notin fired
=============================================================================

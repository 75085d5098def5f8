---------------------------- MODULE SessionRestore ----------------------------
(* The restore of saved sessions when the client starts:                       *)
(* hooks/use-session-hydration.ts over lib/session-hydrate.ts and the store.   *)
(* An attempt lists the saved sessions, shows a shell of each, and then loads  *)
(* their bodies one by one; meanwhile a deadline, a retry, "continue without   *)
(* restored sessions" and the user's own clicks may come in between.           *)
EXTENDS Naturals, FiniteSets

CONSTANTS
    Sessions,     \* sessions that may be saved
    MaxAttempts,  \* bound: restore attempts
    MaxClicks,    \* bound: activations and deletions by the user
    MaxFaults     \* bound: loads and lists that fail

VARIABLES
    disk,     \* what is saved of each session
    ui,       \* the controller's state: phase and the attempt it speaks of
    attempt,  \* the newest attempt
    run,      \* each attempt's effect, the superseded ones included
    store,    \* the store's session entries
    active,   \* activeSessionId
    lazy,     \* sessions whose body was asked for by an activation
    armed,    \* the boot deadline of the newest attempt is pending
    clicks, faults

vars == <<disk, ui, attempt, run, store, active, lazy, armed, clicks, faults>>

None == "none"
Phase == {"restoring", "ready", "recovery", "continued"}
(* restoring, unavailable: a shell; available: the body is loaded              *)
Entry == {"absent", "restoring", "unavailable", "available"}
NotStarted == [at |-> "new", todo |-> {}, cur |-> None, unblocked |-> FALSE]

TypeOK ==
    /\ disk \in [Sessions -> {"absent", "snapshot", "events", "broken"}]
    /\ ui \in [phase : Phase, attempt : 1..MaxAttempts]
    /\ attempt \in 1..MaxAttempts
    /\ run \in [1..MaxAttempts ->
            [at : {"new", "list", "first", "rest", "done"}, todo : SUBSET Sessions,
             cur : Sessions \cup {None}, unblocked : BOOLEAN]]
    /\ store \in [Sessions -> Entry] /\ active \in Sessions \cup {None}
    /\ lazy \subseteq Sessions /\ armed \in BOOLEAN
    /\ clicks \in 0..MaxClicks /\ faults \in 0..MaxFaults

Init ==
    /\ disk \in [Sessions -> {"absent", "snapshot", "events", "broken"}]
    /\ ui = [phase |-> "restoring", attempt |-> 1] /\ attempt = 1
    /\ run = [r \in 1..MaxAttempts |-> [NotStarted EXCEPT !.at = IF r = 1 THEN "list" ELSE "new"]]
    /\ store = [s \in Sessions |-> "absent"] /\ active = None
    /\ lazy = {} /\ armed = TRUE /\ clicks = 0 /\ faults = 0

-----------------------------------------------------------------------------
(* isCurrent: not cleaned up by a retry, and no continuation since             *)
IsCurrent(r) == r = attempt /\ ui.phase # "continued"

Show(phase, r) == ui' = [phase |-> phase, attempt |-> r]

Put(s, entry) == store' = [store EXCEPT ![s] = entry]

(* updateSession does nothing for an entry that is gone; hydrateSession        *)
(* replaces or adds the entry.                                                 *)
Update(s, entry) == store' = IF store[s] = "absent" THEN store ELSE [store EXCEPT ![s] = entry]

(* materializeDurableSession: a shell ("restoring"), a body, or an exception.  *)
(* Without a snapshot only the full mode reads the events; a lost request is   *)
(* taken for an empty answer.                                                  *)
Outcome(s, mode) ==
    CASE disk[s] = "snapshot" -> {"available"}
      [] disk[s] = "events" -> IF mode = "full" THEN {"available"} ELSE {"restoring"}
      [] disk[s] = "broken" -> {"error"}
      [] disk[s] = "absent" -> {"restoring"}

Loads(s, mode, outcome) ==
    \/ outcome \in Outcome(s, mode) /\ UNCHANGED faults
    \/ outcome = "restoring" /\ faults < MaxFaults /\ faults' = faults + 1

-----------------------------------------------------------------------------
(* The attempt's effect                                                        *)

(* Mutant: an answer to an attempt that was given up is still shown.           *)
NoSessionsOfAny(r) ==
    /\ run[r].at = "list" /\ \A s \in Sessions : disk[s] = "absent"
    /\ run' = [run EXCEPT ![r] = [@ EXCEPT !.at = "done", !.unblocked = TRUE]]
    /\ armed' = IF r = attempt THEN FALSE ELSE armed
    /\ Show("ready", r)
    /\ UNCHANGED <<disk, attempt, store, active, lazy, clicks, faults>>

NoSessions(r) ==
    /\ run[r].at = "list" /\ \A s \in Sessions : disk[s] = "absent"
    /\ run' = [run EXCEPT ![r] = [@ EXCEPT !.at = "done", !.unblocked = TRUE]]
    /\ armed' = IF r = attempt THEN FALSE ELSE armed
    /\ IF IsCurrent(r) THEN Show("ready", r) ELSE UNCHANGED ui
    /\ UNCHANGED <<disk, attempt, store, active, lazy, clicks, faults>>

(* metaShellSession for the newest of the listed sessions, over whatever the   *)
(* store holds of them; the last active one is activated, which asks for its   *)
(* body too (the subscription), and the UI is unblocked.                       *)
Listed(r) ==
    /\ run[r].at = "list" /\ IsCurrent(r)
    /\ \E load \in SUBSET {s \in Sessions : disk[s] # "absent"} :
        /\ load # {}
        /\ store' = [s \in Sessions |-> IF s \in load THEN "restoring" ELSE store[s]]
        /\ \E s \in load :
            /\ active' = s
            /\ lazy' = IF active = s THEN lazy ELSE lazy \cup {s}
            /\ run' = [run EXCEPT ![r] = [at |-> "first", todo |-> load \ {s}, cur |-> s,
                                          unblocked |-> TRUE]]
    /\ armed' = FALSE
    /\ Show("ready", r)
    /\ UNCHANGED <<disk, attempt, clicks, faults>>

GivenUp(r) ==
    /\ run[r].at \in {"list", "first", "rest"} /\ ~IsCurrent(r)
    /\ run' = [run EXCEPT ![r].at = "done", ![r].cur = None, ![r].todo = {}]
    /\ UNCHANGED <<disk, ui, attempt, store, active, lazy, armed, clicks, faults>>

ListFails(r) ==
    /\ run[r].at = "list" /\ IsCurrent(r) /\ faults < MaxFaults
    /\ faults' = faults + 1
    /\ run' = [run EXCEPT ![r] = [@ EXCEPT !.at = "done", !.unblocked = TRUE]]
    /\ armed' = FALSE
    /\ Show("recovery", r)
    /\ UNCHANGED <<disk, attempt, store, active, lazy, clicks>>

(* The deadline of 2.5 s: recovery is shown, and the attempt goes on.          *)
Deadline ==
    /\ armed /\ IsCurrent(attempt) /\ ~run[attempt].unblocked
    /\ armed' = FALSE
    /\ run' = [run EXCEPT ![attempt].unblocked = TRUE]
    /\ Show("recovery", attempt)
    /\ UNCHANGED <<disk, attempt, store, active, lazy, clicks, faults>>

Rest(r) == [run[r] EXCEPT !.at = "rest", !.cur = None]

(* The active session's body: "don't clobber if user already navigated away".  *)
(* The activation has asked for it first, so it is answered first.             *)
FirstLoaded(r) ==
    LET s == run[r].cur
        still == active = s \/ store[s] \in {"restoring", "unavailable"}
    IN  /\ run[r].at = "first" /\ IsCurrent(r) /\ s \notin lazy
        /\ run' = [run EXCEPT ![r] = Rest(r)]
        /\ \E outcome \in {"restoring", "available", "error"} :
            /\ Loads(s, "full", outcome)
            /\ CASE outcome = "error" -> Update(s, "unavailable")
                 [] outcome = "restoring" /\ still -> Update(s, "unavailable")
                 [] outcome = "available" /\ still -> Put(s, "available")
                 [] outcome # "error" /\ ~still -> UNCHANGED store
        /\ UNCHANGED <<disk, ui, attempt, active, lazy, armed, clicks>>

(* The others, one after the other: an entry that is loaded by now is skipped, *)
(* but only before its load begins.                                            *)
RestNext(r) ==
    /\ run[r].at = "rest" /\ IsCurrent(r) /\ run[r].cur = None
    /\ \E s \in run[r].todo :
        run' = [run EXCEPT ![r].todo = @ \ {s},
                           ![r].cur = IF store[s] = "available" THEN None ELSE s]
    /\ UNCHANGED <<disk, ui, attempt, store, active, lazy, armed, clicks, faults>>

RestLoaded(r) ==
    LET s == run[r].cur
    IN  /\ run[r].at = "rest" /\ IsCurrent(r) /\ s # None
        /\ run' = [run EXCEPT ![r].cur = None]
        /\ \E outcome \in {"restoring", "available", "error"} :
            /\ Loads(s, "snapshot", outcome)
            /\ IF outcome = "available" THEN Put(s, "available") ELSE Update(s, "unavailable")
        /\ UNCHANGED <<disk, ui, attempt, active, lazy, armed, clicks>>

RestEnds(r) ==
    /\ run[r].at = "rest" /\ run[r].cur = None /\ run[r].todo = {}
    /\ run' = [run EXCEPT ![r].at = "done"]
    /\ UNCHANGED <<disk, ui, attempt, store, active, lazy, armed, clicks, faults>>

-----------------------------------------------------------------------------
(* The user                                                                    *)

(* Mutant: the deadline belongs to the first attempt only.                     *)
RetryUntimed ==
    /\ ui.phase = "recovery" /\ attempt < MaxAttempts
    /\ attempt' = attempt + 1
    /\ run' = [run EXCEPT ![attempt + 1].at = "list"]
    /\ Show("restoring", attempt + 1)
    /\ UNCHANGED <<disk, store, active, lazy, armed, clicks, faults>>

Retry ==
    /\ ui.phase = "recovery" /\ attempt < MaxAttempts
    /\ attempt' = attempt + 1
    /\ run' = [run EXCEPT ![attempt + 1].at = "list"]
    /\ armed' = TRUE
    /\ Show("restoring", attempt + 1)
    /\ UNCHANGED <<disk, store, active, lazy, clicks, faults>>

Continue ==
    /\ ui.phase = "recovery"
    /\ Show("continued", attempt)
    /\ UNCHANGED <<disk, attempt, run, store, active, lazy, armed, clicks, faults>>

(* setActiveSession; the subscription materializes a shell.                    *)
Activate(s) ==
    /\ store[s] # "absent" /\ active # s /\ clicks < MaxClicks
    /\ clicks' = clicks + 1
    /\ active' = s
    /\ lazy' = IF store[s] = "available" THEN lazy ELSE lazy \cup {s}
    /\ UNCHANGED <<disk, ui, attempt, run, store, armed, faults>>

Delete(s) ==
    /\ store[s] # "absent" /\ clicks < MaxClicks
    /\ clicks' = clicks + 1
    /\ disk' = [disk EXCEPT ![s] = "absent"]
    /\ Put(s, "absent")
    /\ active' = IF active = s THEN None ELSE active
    /\ UNCHANGED <<ui, attempt, run, lazy, armed, faults>>

(* The activation's load is answered; a shell that comes back is stored as it  *)
(* is.                                                                         *)
LazyLoaded(s) ==
    /\ s \in lazy
    /\ lazy' = lazy \ {s}
    /\ \E outcome \in {"restoring", "available", "error"} :
        /\ Loads(s, "full", outcome)
        /\ CASE store[s] \in {"absent", "available"} /\ outcome # "error" -> UNCHANGED store
             [] store[s] \notin {"absent", "available"} /\ outcome # "error" -> Put(s, outcome)
             [] outcome = "error" -> Update(s, "unavailable")
    /\ UNCHANGED <<disk, ui, attempt, run, active, armed, clicks>>

-----------------------------------------------------------------------------
RunStep(r) ==
    NoSessions(r) \/ Listed(r) \/ GivenUp(r) \/ FirstLoaded(r) \/ RestNext(r)
        \/ RestLoaded(r) \/ RestEnds(r)

LazyStep == \E s \in Sessions : LazyLoaded(s)

Next ==
    \/ \E r \in 1..MaxAttempts : RunStep(r) \/ ListFails(r)
    \/ Deadline \/ Retry \/ Continue \/ LazyStep
    \/ \E s \in Sessions : Activate(s) \/ Delete(s)

(* The browser's timer fires; requests need not be answered.                   *)
Spec == Init /\ [][Next]_vars /\ WF_vars(Deadline)

(* What is shown never goes back to an attempt that was given up: neither its  *)
(* late answer nor its deadline changes the phase of a later attempt, and once *)
(* the user continued without the sessions no answer shows anything else.      *)
GivenUpStaysSilent ==
    [][/\ ui'.attempt >= ui.attempt
       /\ ui.phase = "continued" => ui' = ui]_vars

(* The splash always ends, even if the list of sessions is never answered:     *)
(* sessions are there, or the recovery with its retry is.                      *)
SplashEnds == ui.phase = "restoring" ~> ui.phase # "restoring"
=============================================================================

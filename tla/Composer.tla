------------------------------- MODULE Composer -------------------------------
(* The prompt composer: components/session/prompt-composer.tsx with            *)
(* lib/harness.ts, lib/attachments.ts and the permission gate of slash         *)
(* commands.  One mounted composer serves whichever session is active; a       *)
(* prompt typed while a run is live waits in its queue.                        *)
EXTENDS Naturals, Sequences, FiniteSets

CONSTANTS
    Sessions,     \* sessions the user switches between
    Files,        \* files the user may attach
    Modes,        \* provider permission modes offered
    MaxPrompts,   \* bound: prompts sent or queued
    MaxQueue,     \* the queue's limit (12)
    MaxAttached,  \* MAX_COMPOSER_ATTACHMENTS and ATTACHMENT_LIMITS.maxFiles (8)
    MaxClicks     \* bound: switches, permission and queue edits, attached files, stops

VARIABLES
    active,    \* activeSessionId
    flags,     \* each session's sticky permission flags
    asking,    \* pendingEscalation: the mode that awaits a confirmation
    stored,    \* the session under whose directory a file is kept
    uploads,   \* files whose upload has not been answered
    files,     \* the chips of the composer
    queue,     \* promptQueue
    draining,  \* queueDrainRef
    due,       \* a render is under way whose effects drain the queue
    busy,      \* busyRef and busy, always set together
    abort,     \* the run whose controller abortRef holds, 0 for none
    stopping,  \* a stop awaits the answer of its DELETE
    turn,      \* each prompt's run: where it is and in which session
    live,      \* sessions shown as starting or running
    dropped,   \* prompts that waited when a run was stopped
    typed,     \* prompts typed so far
    clicks

vars == <<active, flags, asking, stored, uploads, files, queue, draining, due, busy,
          abort, stopping, turn, live, dropped, typed, clicks>>
chips == <<stored, uploads, files>>
gate == <<flags, asking>>
runs == <<draining, busy, abort, stopping, turn, live, dropped>>

None == "none"
HighRisk == {"dontAsk", "bypassPermissions", "always-approve"}
Ids == 1..MaxPrompts
Unsent == [at |-> "none", in |-> None, aborted |-> FALSE, drained |-> FALSE, approved |-> FALSE]
InFlight == {"hooks", "starting", "approval", "streaming"}

TypeOK ==
    /\ active \in Sessions /\ asking \in (HighRisk \cap Modes) \cup {None}
    /\ flags \in [Sessions -> [always : BOOLEAN, mode : Modes \cup {None, "unknown"}]]
    /\ stored \in [Files -> Sessions \cup {None}]
    /\ uploads \subseteq Files /\ files \subseteq Files
    /\ queue \in Seq([id : Ids, slash : BOOLEAN, files : SUBSET Files]) /\ Len(queue) <= MaxQueue
    /\ draining \in BOOLEAN /\ due \in BOOLEAN /\ busy \in BOOLEAN /\ stopping \in BOOLEAN
    /\ abort \in 0..MaxPrompts
    /\ turn \in [Ids ->
            [at : InFlight \cup {"none", "over"}, in : Sessions \cup {None},
             aborted : BOOLEAN, drained : BOOLEAN, approved : BOOLEAN]]
    /\ live \subseteq Sessions
    /\ dropped \subseteq Ids /\ typed \in 0..MaxPrompts /\ clicks \in 0..MaxClicks

(* flagsForProviderSelection                                                    *)
FlagsFor(m) == [always |-> m = "always-approve",
                mode |-> IF m \in {"always-approve", "manual"} THEN None ELSE m]

(* The sessions carry the flags of earlier runs.                               *)
Init ==
    /\ active \in Sessions /\ asking = None
    /\ \E m \in Modes : flags = [s \in Sessions |-> FlagsFor(m)]
    /\ stored = [f \in Files |-> None] /\ uploads = {} /\ files = {}
    /\ queue = <<>> /\ draining = FALSE /\ due = FALSE
    /\ busy = FALSE /\ abort = 0 /\ stopping = FALSE
    /\ turn = [i \in Ids |-> Unsent] /\ live = {}
    /\ dropped = {} /\ typed = 0 /\ clicks = 0

Click == clicks < MaxClicks /\ clicks' = clicks + 1

(* The effect that drains the queue runs again after a change of busy, the     *)
(* queue, the session (its flags and turns with it) or runPromptText; a ref    *)
(* that changes renders nothing.                                               *)
Renders == due' = TRUE
RendersIf(changed) == due' = (due \/ changed)

-----------------------------------------------------------------------------
(* Provider permission: currentProviderSelection, flagsForProviderSelection,   *)
(* requiresEscalationConfirmation and the gate of slash commands               *)
Selection(f) ==
    CASE f.always -> "always-approve"
      [] ~f.always /\ f.mode \in Modes -> f.mode
      [] ~f.always /\ f.mode = None -> "manual"
      [] OTHER -> "default"

(* Mutant: only the first step into a high-risk mode is asked about.           *)
MustConfirmFirst(from, to) == from \notin HighRisk /\ to \in HighRisk
MustConfirm(from, to) == from # to /\ to \in HighRisk

(* targetSelectionFromPermissionPatch: None passes the patch through           *)
Target(f, cmd) ==
    CASE cmd = "toggle" /\ ~f.always -> "always-approve"
      [] cmd = "toggle" /\ f.always -> IF f.mode \in Modes \ {"always-approve"} THEN f.mode ELSE "manual"
      [] cmd = "unknown" -> None
      [] OTHER -> cmd

Choose(to) ==
    IF MustConfirm(Selection(flags[active]), to)
    THEN asking' = to /\ UNCHANGED flags
    ELSE flags' = [flags EXCEPT ![active] = FlagsFor(to)] /\ UNCHANGED asking

(* resolveRun: /always-approve toggles, /permission-mode takes any word        *)
Commands == Modes \cup {"toggle", "unknown"}

(* A slash command of kind set-flag, as runPromptText applies it               *)
SetFlag(cmd) ==
    LET to == Target(flags[active], cmd)
    IN IF to = None
       THEN flags' = [flags EXCEPT ![active].mode = "unknown"] /\ UNCHANGED asking
       ELSE Choose(to)

(* The select of the cockpit, and the confirmation dialog                      *)
Select(m) ==
    /\ Click /\ asking = None /\ Choose(m) /\ RendersIf(flags' # flags)
    /\ UNCHANGED <<active, chips, queue, runs, typed>>

Confirm ==
    /\ asking # None /\ asking' = None
    /\ flags' = [flags EXCEPT ![active] = FlagsFor(asking)] /\ Renders
    /\ UNCHANGED <<active, chips, queue, runs, typed, clicks>>

Cancel ==
    /\ asking # None /\ asking' = None
    /\ UNCHANGED <<active, flags, chips, queue, due, runs, typed, clicks>>

(* setActiveSession: the composer stays mounted and keeps what it holds        *)
Switch(s) ==
    /\ Click /\ s # active /\ active' = s /\ Renders
    /\ UNCHANGED <<gate, chips, queue, runs, typed>>

-----------------------------------------------------------------------------
(* Attachments: the route keeps a file under its session, and removes it there *)
Saved(f) == [stored EXCEPT ![f] = active]
Removed(f) == [stored EXCEPT ![f] = IF @ = active THEN None ELSE @]

(* The room is counted when the files are dropped, and the answer is added     *)
(* whatever came in between                                                    *)
Attach(f) ==
    /\ Click /\ stored[f] = None /\ f \notin uploads
    /\ Cardinality(files) < MaxAttached
    /\ uploads' = uploads \cup {f} /\ stored' = Saved(f)
    /\ UNCHANGED <<active, gate, files, queue, due, runs, typed>>

Uploaded(f) ==
    /\ f \in uploads /\ uploads' = uploads \ {f}
    /\ \/ files' = files \cup {f} /\ UNCHANGED stored
       \/ stored' = [stored EXCEPT ![f] = None] /\ UNCHANGED files
    /\ UNCHANGED <<active, gate, queue, due, runs, typed, clicks>>

(* dropAttachment: removed under the session that is active now                *)
Drop(f) ==
    /\ f \in files /\ files' = files \ {f}
    /\ stored' = Removed(f)
    /\ UNCHANGED <<active, gate, uploads, queue, due, runs, typed, clicks>>

-----------------------------------------------------------------------------
(* runPromptText up to its first await                                         *)
Launch(i, drained) ==
    /\ turn' = [turn EXCEPT ![i] = [Unsent EXCEPT !.at = "hooks", !.in = active,
                                                  !.drained = drained]]
    /\ busy' = TRUE /\ abort' = i

(* Mutant: the chips of a prompt stay in the composer.                         *)
KeptChips == files

(* The chips once a prompt is sent or queued: setAttachments([])               *)
Cleared == {}

Submit ==
    /\ typed < MaxPrompts /\ ~busy
    /\ Launch(typed + 1, FALSE) /\ typed' = typed + 1 /\ files' = Cleared
    /\ Renders
    /\ UNCHANGED <<active, gate, stored, uploads, queue, draining, stopping, live, dropped, clicks>>

Enqueue(slash) ==
    /\ typed < MaxPrompts /\ busy /\ Len(queue) < MaxQueue /\ (slash => files # {})
    /\ typed' = typed + 1 /\ files' = Cleared
    /\ queue' = Append(queue, [id |-> typed + 1, slash |-> slash, files |-> files])
    /\ Renders
    /\ UNCHANGED <<active, gate, stored, uploads, runs, clicks>>

(* A slash command is applied at once, even while a run is live; with files on *)
(* the composer it waits like a prompt, and its files are let go.              *)
Slash(cmd) ==
    /\ Click /\ asking = None /\ (busy => files = {})
    /\ SetFlag(cmd) /\ files' = Cleared /\ RendersIf(flags' # flags)
    /\ UNCHANGED <<active, stored, uploads, queue, runs, typed>>

(* The effect after a render.  It holds queueDrainRef until runPromptText has  *)
(* returned, and does not look at the queue again when it lets go.             *)
Drain ==
    /\ due
    /\ IF busy \/ queue = <<>> \/ draining
       THEN due' = FALSE /\ UNCHANGED <<gate, queue, draining, busy, abort, turn>>
       ELSE /\ draining' = TRUE /\ queue' = Tail(queue) /\ Renders
            /\ IF Head(queue).slash
               THEN /\ SetFlag("toggle") /\ UNCHANGED <<busy, abort>>
                    /\ turn' = [turn EXCEPT ![Head(queue).id] =
                                  [Unsent EXCEPT !.at = "over", !.drained = TRUE]]
               ELSE Launch(Head(queue).id, TRUE) /\ UNCHANGED gate
    /\ UNCHANGED <<active, chips, stopping, live, dropped, typed, clicks>>

(* runPromptText has returned to the effect                                    *)
DrainReturns(i) ==
    /\ turn[i].at = "over" /\ turn[i].drained
    /\ turn' = [turn EXCEPT ![i].drained = FALSE] /\ draining' = FALSE
    /\ UNCHANGED <<active, gate, chips, queue, due, busy, abort, stopping, live, dropped,
                   typed, clicks>>

(* Anything else that changes the session, such as an event of its agent       *)
Rerender ==
    /\ ~due /\ Renders
    /\ UNCHANGED <<active, gate, chips, queue, runs, typed, clicks>>

(* The queue's list: it is cleared, or a row is removed, moved up (or the one  *)
(* above it down), or loaded into the composer                                 *)
Without(i) == SubSeq(queue, 1, i - 1) \o SubSeq(queue, i + 1, Len(queue))
(* [...chips, ...the row's files].slice(0, MAX_COMPOSER_ATTACHMENTS)           *)
Sliced(kept, i) ==
    LET all == files \cup queue[i].files
    IN /\ files \subseteq kept \/ kept \subseteq files
       /\ IF Cardinality(all) <= MaxAttached THEN kept = all ELSE Cardinality(kept) = MaxAttached
EditQueue(i) ==
    /\ Click /\ i \in DOMAIN queue
    /\ \/ queue' = <<>> /\ UNCHANGED files
       \/ queue' = Without(i) /\ UNCHANGED files
       \/ i > 1 /\ queue' = [queue EXCEPT ![i] = queue[i - 1], ![i - 1] = queue[i]] /\ UNCHANGED files
       \/ /\ queue' = Without(i)
          /\ \E kept \in SUBSET (files \cup queue[i].files) : Sliced(kept, i) /\ files' = kept
    /\ Renders
    /\ UNCHANGED <<active, gate, stored, uploads, runs, typed>>

-----------------------------------------------------------------------------
(* stopRun: the controller is aborted and the queue dropped at once; the run   *)
(* is called idle when the DELETE is answered                                  *)
(* Mutant: the queue survives a stop.                                          *)
QueueSurvives == queue
QueueAfterStop == <<>>

Stop ==
    /\ Click /\ ~stopping /\ (busy \/ active \in live)
    /\ turn' = IF abort = 0 THEN turn ELSE [turn EXCEPT ![abort].aborted = TRUE]
    /\ queue' = QueueAfterStop /\ draining' = FALSE /\ stopping' = TRUE
    /\ dropped' = dropped \cup {queue[i].id : i \in DOMAIN queue}
    /\ Renders
    /\ UNCHANGED <<active, gate, chips, busy, abort, live, typed>>

StopAnswered ==
    /\ stopping /\ stopping' = FALSE /\ busy' = FALSE /\ RendersIf(busy)
    /\ UNCHANGED <<active, gate, chips, queue, draining, abort, turn, live, dropped, typed, clicks>>

-----------------------------------------------------------------------------
(* The run: hooks, the start request, an approval, the stream, its end         *)
Lives(i) == live' = live \cup {turn[i].in}
Idles(i) == live' = live \ {turn[i].in}

Goes(i, at) ==
    /\ turn' = [turn EXCEPT ![i].at = at, ![i].approved = @ \/ (turn[i].at = "approval")]
    /\ UNCHANGED <<draining, busy, abort>>

(* The end of runPromptText, however it went; the effect that awaits one that  *)
(* was drained has not yet let go of queueDrainRef.                            *)
Ends(i) ==
    /\ turn' = [turn EXCEPT ![i].at = "over"]
    /\ busy' = FALSE /\ abort' = 0 /\ UNCHANGED draining

HooksRan(i) == turn[i].at = "hooks" /\ Goes(i, "starting") /\ Lives(i)

StartAnswered(i) ==
    /\ turn[i].at = "starting"
    /\ \/ ~turn[i].aborted /\ Goes(i, "streaming") /\ Lives(i)
       \/ ~turn[i].aborted /\ ~turn[i].approved /\ Goes(i, "approval") /\ UNCHANGED live
       \/ ~turn[i].aborted /\ Ends(i) /\ Idles(i)    \* refused
       \/ Ends(i) /\ UNCHANGED live                  \* aborted or lost: still "starting"

(* Granted, or denied or interrupted.  The entry that says so makes a session  *)
(* that is ready running, and it stays so until the poll finds no process.     *)
ApprovalDecided(i) ==
    /\ turn[i].at = "approval"
    /\ \/ ~turn[i].aborted /\ Goes(i, "starting") /\ Lives(i)
       \/ Ends(i) /\ UNCHANGED live

(* resolveSyncedStatus: a session without a process is not shown as running.   *)
Settled(s) ==
    /\ s \in live /\ \A i \in Ids : turn[i].in = s => turn[i].at # "streaming"
    /\ live' = live \ {s} /\ RendersIf(s = active)
    /\ UNCHANGED <<active, gate, chips, queue, draining, busy, abort, stopping, turn, dropped,
                   typed, clicks>>

(* The agent exits, the stream breaks, or it is aborted; runHarness returns    *)
(* when the diff is refreshed and the stop hooks have run.                     *)
StreamEnds(i) == turn[i].at = "streaming" /\ Ends(i) /\ Idles(i)

RunStep(i) ==
    /\ HooksRan(i) \/ StartAnswered(i) \/ ApprovalDecided(i) \/ StreamEnds(i)
    /\ RendersIf(busy' # busy \/ turn[i].in = active)
    /\ UNCHANGED <<active, gate, chips, queue, stopping, dropped, typed, clicks>>

User ==
    \/ \E m \in Modes : Select(m)
    \/ \E cmd \in Commands : Slash(cmd)
    \/ \E s \in Sessions : Switch(s)
    \/ \E f \in Files : Attach(f) \/ Drop(f)
    \/ Confirm \/ Cancel \/ Submit \/ Stop
    \/ \E slash \in BOOLEAN : Enqueue(slash)
    \/ \E i \in 1..MaxQueue : EditQueue(i)

Next ==
    \/ User \/ Drain \/ Rerender \/ StopAnswered
    \/ \E f \in Files : Uploaded(f)
    \/ \E s \in Sessions : Settled(s)
    \/ \E i \in Ids : RunStep(i) \/ DrainReturns(i)

(* The effect runs after a render, and requests are answered, hooks and agents *)
(* end; the user need not answer an approval, and nothing else need happen.    *)
Spec ==
    /\ Init /\ [][Next]_vars /\ WF_vars(Drain) /\ WF_vars(StopAnswered)
    /\ \A i \in Ids :
          WF_vars(DrainReturns(i)) /\ WF_vars(turn[i].at # "approval" /\ RunStep(i))

-----------------------------------------------------------------------------
(* No path raises a session to a high-risk mode but the confirmation of that   *)
(* mode: not the select, not a slash command, not one that waited in the queue *)
(* (slash-permission-gate.ts:1, prompt-composer.tsx:252).                      *)
EscalationIsConfirmed ==
    [][\A s \in Sessions :
          LET m == Selection(flags'[s])
          IN m \in HighRisk /\ Selection(flags[s]) # m => asking = m /\ asking' = None]_vars

(* A file of a queued prompt is still kept where it was put when the prompt's  *)
(* turn comes, whatever chips the user drops meanwhile                         *)
(* (prompt-composer.tsx:410).                                                  *)
QueuedFilesAreKept == \A i \in DOMAIN queue : \A f \in queue[i].files : stored[f] # None

(* A prompt that waited when the user stopped the run is never sent            *)
(* (prompt-composer.tsx:347: "so they do not surprise-run after cancel").      *)
DroppedNeverRuns == \A i \in dropped : turn[i].at = "none"

ApprovalIsAwaited == \E i \in Ids : turn[i].at = "approval"

(* No sequence of stops, overlapping runs and failures leaves the composer     *)
(* busy or draining for ever while a prompt waits, unless an approval is       *)
(* awaited: the prompt is sent or given up, or the composer comes to rest, and *)
(* the next change of the session sends it (prompt-composer.tsx:671).          *)
QueueMoves ==
    queue # <<>> ~> (queue = <<>> \/ ApprovalIsAwaited
                     \/ (~busy /\ ~draining /\ ~due))

(* What the comment says: "Drain queue after each finished run"                *)
(* (prompt-composer.tsx:670).  The code does not keep it (README, section 7):  *)
(* letting go of the drain ref renders nothing.                                *)
QueueIsServed == queue # <<>> ~> (queue = <<>> \/ ApprovalIsAwaited)
=============================================================================

---------------------------- MODULE MCSessionView ----------------------------
(* Components that share no state: what a session becomes, from the        *)
(* contract of its launch and the agent's output to the screen and on to   *)
(* git.  Each is explored by itself, from one choice in Init.              *)
EXTENDS Naturals, Sequences, FiniteSets

Ev(id, kind, status) ==
  [id |-> id, kind |-> kind, status |-> status, parent |-> 0, call |-> 0,
   continues |-> FALSE, ts |-> 1]
MCEvents ==
  {Ev(1, "goal", "success"), Ev(2, "thinking", "success"),
   [Ev(3, "thinking", "success") EXCEPT !.continues = TRUE],
   Ev(4, "tool_call", "running"), Ev(4, "tool_result", "error"),
   [Ev(5, "tool_result", "success") EXCEPT !.call = 4],
   [Ev(6, "file_change", "success") EXCEPT !.parent = 4],
   Ev(7, "subagent", "running")}

Prose(words, lead, short) ==
  [words |-> words, lead |-> lead, short |-> short, class |-> "prose"]
MCChunks ==
  {Prose(<<"a">>, FALSE, TRUE), Prose(<<"a", "b">>, FALSE, FALSE),
   Prose(<<"b", "c">>, FALSE, FALSE), Prose(<<"c">>, TRUE, TRUE),
   Prose(<<"d">>, FALSE, FALSE), Prose(<<"n", "d">>, TRUE, TRUE),
   [Prose(<<>>, FALSE, FALSE) EXCEPT !.class = "noise"],
   [Prose(<<>>, FALSE, FALSE) EXCEPT !.class = "cli"]}

(* A Grok CLI, and an older one that is a shell script: it forks no        *)
(* session, has no schema for a report, and lists its leaders as text.     *)
MCBuilds == {"new", "old"}
MCWords ==
  {"--model", "--agent", "--tools", "--disallowed-tools", "--disable-web-search",
   "--always-approve", "--permission-mode", "--sandbox", "--no-subagents",
   "--no-memory", "--no-plan", "--check", "--leader-socket", "--debug-file",
   "--reasoning-effort", "--max-turns", "--output-format", "streaming-json",
   "--prompt-file", "--prompt-json", "--prompt", "--session-id", "--resume",
   "--fork-session", "--continue", "--worktree", "worktree", "--worktree-ref",
   "--json-schema"}
MCHelp ==
  [b \in MCBuilds |->
     IF b = "new" THEN MCWords ELSE MCWords \ {"--fork-session", "--json-schema"}]
MCAnswers ==
  [b \in MCBuilds |->
     [k \in {"help", "inspect", "leader"} |->
        IF b = "old" /\ k = "leader" THEN "invalid" ELSE "ok"]]

(* Compiled where the CLI can: a user's run, one that forks, one that goes *)
(* on in a worktree of its own, a leaf and a leader.  Refused: unattended  *)
(* runs that may delegate, approve all, have no identity or no worktree of *)
(* their own, and a prompt that is not in a file.                          *)
Attended ==
  [role |-> "interactive", unattended |-> FALSE, workspace |-> "not_required",
   session |-> "new", prompt |-> "file", output |-> "stream", options |-> {}]
Leaf ==
  [role |-> "leaf", unattended |-> TRUE, workspace |-> "verified",
   session |-> "new_id", prompt |-> "file", output |-> "report",
   options |-> {"--permission-mode", "--sandbox", "--no-subagents"}]
MCSpecs ==
  {Attended, [Attended EXCEPT !.session = "fork", !.options = {"--tools"}],
   [Attended EXCEPT !.session = "continue_latest", !.workspace = "native_ref"],
   [Attended EXCEPT !.prompt = "inline"], Leaf,
   [Leaf EXCEPT !.role = "leader", !.options = {"--leader-socket", "--always-approve"}],
   [Leaf EXCEPT !.role = "interactive", !.options = {}],
   [Leaf EXCEPT !.options = @ \ {"--no-subagents"}],
   [Leaf EXCEPT !.options = @ \cup {"--always-approve"}],
   [Leaf EXCEPT !.session = "new"], [Leaf EXCEPT !.workspace = "native"]}

VARIABLES
  part,    \* the component that moves
  pfCli, pfCall, pfPin, pfRun, pfCalls, pfUpdates,
  rsDisk, rsUi, rsAttempt, rsRun, rsStore, rsActive, rsLazy, rsArmed, rsClicks,
  rsFaults,
  rdLog, rdQueue, rdSess, rdRebuilds,
  siThought, siMessage, siTools, siNodes, siHeard,
  ibSess, ibJob, ibShown, ibSteps,
  rvSess, rvJob, rvRun, rvBadge, rvEdits,
  cpActive, cpFlags, cpAsking, cpStored, cpUploads, cpFiles, cpQueue,
  cpDraining, cpDue, cpBusy, cpAbort, cpStopping, cpTurn, cpLive, cpDropped,
  cpTyped, cpClicks,
  ghRepo, ghPanel, ghCall, ghWatch, ghSess, ghLeft,
  cgGit, cgFiles, cgNext, cgNodes, cgSel, cgPanel, cgTask, cgSeen, cgLeft

Contract == INSTANCE Preflight WITH
  Builds <- MCBuilds, Help <- MCHelp, Answers <- MCAnswers, Shim <- {"old"},
  Windows <- TRUE, Specs <- MCSpecs, MaxCalls <- 2, MaxUpdates <- 1,
  cli <- pfCli, call <- pfCall, pin <- pfPin, run <- pfRun, calls <- pfCalls,
  updates <- pfUpdates
Restore == INSTANCE SessionRestore WITH
  Sessions <- {"s1", "s2"}, MaxAttempts <- 2, MaxClicks <- 2, MaxFaults <- 1,
  disk <- rsDisk, ui <- rsUi, attempt <- rsAttempt, run <- rsRun,
  store <- rsStore, active <- rsActive, lazy <- rsLazy, armed <- rsArmed,
  clicks <- rsClicks, faults <- rsFaults
Reduce == INSTANCE SessionReduce WITH
  Events <- MCEvents, MaxHot <- 2, MaxEvents <- 4, MaxRebuilds <- 1,
  log <- rdLog, queue <- rdQueue, sess <- rdSess, rebuilds <- rdRebuilds
Ingest == INSTANCE StreamIngest WITH
  Chunks <- MCChunks, CliPhrases <- {<<"c", "d">>, <<"c", "n", "d">>},
  Break <- "n", CallIds <- {"c"}, MaxNodes <- 3, MaxText <- 2,
  thought <- siThought, message <- siMessage, tools <- siTools,
  nodes <- siNodes, heard <- siHeard
Lanes == INSTANCE Inbox WITH
  MaxSteps <- 9, sess <- ibSess, job <- ibJob, shown <- ibShown,
  steps <- ibSteps
Workbench == INSTANCE Review WITH
  Paths <- {"p"}, MaxTrail <- 2, MaxCount <- 2, MaxEdits <- 1, sess <- rvSess,
  job <- rvJob, run <- rvRun, badge <- rvBadge, edits <- rvEdits
Prompt == INSTANCE Composer WITH
  Sessions <- {"s", "t"}, Files <- {"f"},
  Modes <- {"manual", "dontAsk", "always-approve"}, MaxPrompts <- 3,
  MaxQueue <- 1, MaxAttached <- 1, MaxClicks <- 1, active <- cpActive,
  flags <- cpFlags, asking <- cpAsking, stored <- cpStored,
  uploads <- cpUploads, files <- cpFiles, queue <- cpQueue,
  draining <- cpDraining, due <- cpDue, busy <- cpBusy, abort <- cpAbort,
  stopping <- cpStopping, turn <- cpTurn, live <- cpLive, dropped <- cpDropped,
  typed <- cpTyped, clicks <- cpClicks
Git == INSTANCE GitHandoff WITH
  Paths <- {"p"}, Contents <- {0, 1, 2}, MaxEdits <- 1, MaxFaults <- 1,
  MaxActions <- 1, repo <- ghRepo, panel <- ghPanel, call <- ghCall,
  watch <- ghWatch, sess <- ghSess, left <- ghLeft
Changes == INSTANCE ChangesPanel WITH
  Paths <- {1, 2}, Rank <- <<1, 2>>, Ends <- <<{}, {1}>>, Traces <- {1, 2},
  Kind <- <<"file_change", "tool">>, MaxHunks <- 2, MaxIds <- 2,
  MaxInputs <- 3, git <- cgGit, files <- cgFiles, next <- cgNext,
  nodes <- cgNodes, sel <- cgSel, panel <- cgPanel, task <- cgTask,
  seen <- cgSeen, left <- cgLeft

pfVars == <<pfCli, pfCall, pfPin, pfRun, pfCalls, pfUpdates>>
rsVars == <<rsDisk, rsUi, rsAttempt, rsRun, rsStore, rsActive, rsLazy, rsArmed,
    rsClicks, rsFaults>>
rdVars == <<rdLog, rdQueue, rdSess, rdRebuilds>>
siVars == <<siThought, siMessage, siTools, siNodes, siHeard>>
ibVars == <<ibSess, ibJob, ibShown, ibSteps>>
rvVars == <<rvSess, rvJob, rvRun, rvBadge, rvEdits>>
cpVars == <<cpActive, cpFlags, cpAsking, cpStored, cpUploads, cpFiles, cpQueue,
    cpDraining, cpDue, cpBusy, cpAbort, cpStopping, cpTurn, cpLive, cpDropped,
    cpTyped, cpClicks>>
ghVars == <<ghRepo, ghPanel, ghCall, ghWatch, ghSess, ghLeft>>
cgVars == <<cgGit, cgFiles, cgNext, cgNodes, cgSel, cgPanel, cgTask, cgSeen, cgLeft>>
vars == <<part, pfVars, rsVars, rdVars, siVars, ibVars, rvVars, cpVars, ghVars, cgVars>>

(* One component moves, the others stay in an initial state.               *)
Init ==
  /\ part \in {"preflight", "restore", "reduce", "ingest", "inbox", "review",
       "composer", "git", "changes"}
  /\ Contract!Init
  /\ (part # "preflight" =>
        pfCli = "new")
  /\ Restore!Init
  /\ (part # "restore" =>
        rsDisk = [s \in {"s1", "s2"} |-> "absent"])
  /\ Reduce!Init
  /\ Ingest!Init
  /\ Lanes!Init
  /\ Workbench!Init
  /\ (part # "review" =>
        rvJob = Workbench!NoJob
          /\ ~rvSess.guarded)
  /\ Prompt!Init
  /\ (part # "composer" =>
        cpActive = "s"
          /\ cpFlags["s"] = Prompt!FlagsFor("manual"))
  /\ Git!Init
  /\ (part # "git" =>
        ~ghSess.guarded)
  /\ Changes!Init
  /\ cgGit = <<2, 0>>

ContractMoves ==
  part = "preflight" /\ Contract!Next
  /\ UNCHANGED <<part, rsVars, rdVars, siVars, ibVars, rvVars, cpVars, ghVars, cgVars>>
RestoreMoves ==
  part = "restore" /\ Restore!Next
  /\ UNCHANGED <<part, pfVars, rdVars, siVars, ibVars, rvVars, cpVars, ghVars, cgVars>>
ReduceMoves ==
  part = "reduce" /\ Reduce!Next
  /\ UNCHANGED <<part, pfVars, rsVars, siVars, ibVars, rvVars, cpVars, ghVars, cgVars>>
IngestMoves ==
  part = "ingest" /\ Ingest!Next
  /\ UNCHANGED <<part, pfVars, rsVars, rdVars, ibVars, rvVars, cpVars, ghVars, cgVars>>
LanesMoves ==
  part = "inbox" /\ Lanes!Next
  /\ UNCHANGED <<part, pfVars, rsVars, rdVars, siVars, rvVars, cpVars, ghVars, cgVars>>
WorkbenchMoves ==
  part = "review" /\ Workbench!Next
  /\ UNCHANGED <<part, pfVars, rsVars, rdVars, siVars, ibVars, cpVars, ghVars, cgVars>>
PromptMoves ==
  part = "composer" /\ Prompt!Next
  /\ UNCHANGED <<part, pfVars, rsVars, rdVars, siVars, ibVars, rvVars, ghVars, cgVars>>
GitMoves ==
  part = "git" /\ Git!Next
  /\ UNCHANGED <<part, pfVars, rsVars, rdVars, siVars, ibVars, rvVars, cpVars, cgVars>>
ChangesMoves ==
  part = "changes" /\ Changes!Next
  /\ UNCHANGED <<part, pfVars, rsVars, rdVars, siVars, ibVars, rvVars, cpVars, ghVars>>

Next ==
  \/ ContractMoves
  \/ RestoreMoves
  \/ ReduceMoves
  \/ IngestMoves
  \/ LanesMoves
  \/ WorkbenchMoves
  \/ PromptMoves
  \/ GitMoves
  \/ ChangesMoves

(* The timers of a probe and of a restore, the panel's requests and the    *)
(* poll, the composer's effect, its requests and the agents it starts.     *)
Fairness ==
  /\ WF_pfVars(part = "preflight" /\ Contract!Advance)
  /\ WF_rsVars(part = "restore" /\ Restore!Deadline)
  /\ WF_cpVars(part = "composer" /\ Prompt!Drain)
  /\ WF_cpVars(part = "composer" /\ Prompt!StopAnswered)
  /\ \A i \in 1..3 :
       /\ WF_cpVars(part = "composer" /\ Prompt!DrainReturns(i))
       /\ WF_cpVars(part = "composer" /\ cpTurn[i].at # "approval" /\ Prompt!RunStep(i))
  /\ WF_ghVars(part = "git" /\ Git!Panel) /\ WF_ghVars(part = "git" /\ Git!Watch)
Spec == Init /\ [][Next]_vars /\ Fairness

-----------------------------------------------------------------------------
TypeOK ==
  CASE part = "preflight" -> Contract!TypeOK
    [] part = "restore" -> Restore!TypeOK
    [] part = "reduce" -> Reduce!TypeOK
    [] part = "ingest" -> Ingest!TypeOK
    [] part = "inbox" -> Lanes!TypeOK
    [] part = "review" -> Workbench!TypeOK
    [] part = "composer" -> Prompt!TypeOK
    [] part = "git" -> Git!TypeOK
    [] part = "changes" -> Changes!TypeOK

(* What is shown agrees with what is so: success and the record of a handoff*)
(* are backed, two surfaces never send the user two ways, and no lane or   *)
(* badge is computed from data that has changed since (git-panel.tsx:207,  *)
(* session-inbox.ts:262, review-readiness.ts:138, workspace.tsx:57); and a *)
(* run is launched as the CLI confirmed and its role allows                *)
(* (grok-run-spec.ts:432, 187).                                            *)
ClaimsAreBacked ==
  /\ Contract!ArgsAreConfirmed /\ Contract!LeavesAreContained
  /\ Git!RecordIsEvidence
  /\ Lanes!SuccessIsUnanimous /\ Lanes!LaneIsCurrent
  /\ Workbench!SurfacesAgree /\ Workbench!FailuresAreCounted

(* A bounded window, a replay and a merge of prose lose none of the evidence*)
(* that is to be shown; a path is listed once, and what leads from a trace *)
(* to a file leads back; a waiting prompt keeps its files, and one that was*)
(* dropped is never sent (session-reduce.ts:153, 355, session-replay.ts:139,*)
(* store.ts:728, grok-stream.ts:956, prompt-composer.tsx:347, 410).        *)
EvidenceIsKept ==
  /\ Reduce!HotWindow /\ Reduce!ReplayKeepsEvidence /\ Ingest!ProseIsKept
  /\ Changes!OnePerPath /\ Changes!LinksAreMutual
  /\ Prompt!QueuedFilesAreKept /\ Prompt!DroppedNeverRuns

(* What was shown, counted or given up is not taken back by a later event, *)
(* update or answer, a refresh neither drops the reasons of a file nor     *)
(* steals the selection, and a session's mode is not raised but by a       *)
(* confirmation (session-reduce.ts:808, grok-stream.ts:950, store.ts:730,  *)
(* use-session-hydration.ts:110, prompt-composer.tsx:252).                 *)
HistoryStays ==
  /\ Prompt!EscalationIsConfirmed
  /\ Reduce!CountsNeverDrop /\ Ingest!HistoryIsKept
  /\ Changes!WhyIsKept /\ Changes!FocusIsKept
  /\ Restore!GivenUpStaysSilent

(* The splash ends, a user who follows the completion flow gets to its end,*)
(* a waiting prompt is not held by a composer that stays busy, and a CLI   *)
(* that hangs does not hold its launch (use-session-hydration.ts:120,      *)
(* handoff-flow.ts:148, prompt-composer.tsx:671, cli-status.ts:93).        *)
UserIsServed ==
  /\ part = "preflight" => Contract!ProbesEnd
  /\ part = "restore" => Restore!SplashEnds
  /\ part = "git" => Git!FlowEnds
  /\ part = "composer" => Prompt!QueueMoves
=============================================================================

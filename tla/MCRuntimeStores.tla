--------------------------- MODULE MCRuntimeStores ---------------------------
(* Components of the runtime that share no state: each keeps files that    *)
(* several processes, clients or agents write.  Missions comes under its   *)
(* own names.  Each is explored by itself, from one choice in StoresInit.  *)
EXTENDS Missions

(* A mission: b depends on a and writes below it, c is on its own.         *)
MCItems == {"a", "b", "c"}
MCPaths == {"src", "src/ui", "docs", ".", "blank"}
MCInside == {<<"src/ui", "src">>}
MCBelow == MCInside \cup {<<p, ".">> : p \in MCPaths \ {"."}}
MCDeps == [i \in MCItems |-> IF i = "b" THEN {"a"} ELSE {}]
MCCaps == [mission |-> 10, item |-> [i \in MCItems |-> 3]]
MCOwn ==
  [i \in MCItems |-> CASE i = "a" -> {"src"} [] i = "b" -> {"src/ui"} [] i = "c" -> {"docs"}]
Base ==
  [own |-> MCOwn, exclude |-> [i \in MCItems |-> {}],
   tokens |-> [i \in MCItems |-> CASE i = "a" -> 3 [] i = "b" -> 2 [] i = "c" -> 1],
   rank |-> [i \in MCItems |-> IF i = "c" THEN -1 ELSE 0],
   pos |-> [i \in MCItems |-> CASE i = "a" -> 1 [] i = "b" -> 2 [] i = "c" -> 3],
   lead |-> [i \in MCItems |-> "spok"], pinned |-> TRUE,
   total |-> 10, integration |-> 2, recovery |-> 2]
(* Accepted: the base plan, and one with other scopes.  Refused: two owners*)
(* for one scope, a reserve below a fifth, grants beyond the execution     *)
(* budget.                                                                 *)
MCDrafts ==
  {Base, [Base EXCEPT !.own["a"] = {"docs"}, !.own["b"] = {"docs"}, !.own["c"] = {"src"}],
   [Base EXCEPT !.lead["b"] = "other"], [Base EXCEPT !.integration = 1],
   [Base EXCEPT !.recovery = 3]}
(* A plan whose owners or scopes the persisted schema refuses.             *)
MCTextDrafts == {Base, [Base EXCEPT !.own["c"] = {"blank"}]}
(* An item that owns the whole tree beside the others.                     *)
MCRootDrafts == {[Base EXCEPT !.own["c"] = {"."}]}
MCMarks ==
  {<<"pending", "none">>, <<"failed", "exit">>, <<"completed", "exit">>,
   <<"completed", "evidence">>}

(* A project's plugin and its hook, and a hook of the user.                *)
MCThings == {"plugin", "hook", "mine"}
MCKind ==
  [t \in MCThings |-> CASE t = "plugin" -> "plugin" [] t = "hook" -> "command"
                        [] t = "mine" -> "trace"]
MCSource == [t \in MCThings |-> IF t \in {"plugin", "hook"} THEN "project" ELSE "own"]
MCPlugin == [t \in MCThings |-> IF t = "hook" THEN "plugin" ELSE "none"]
MCEvent == [t \in MCThings |-> IF t = "hook" THEN "prompt_submit" ELSE "stop"]
(* A workspace without preferences, and one whose file lists a hook.       *)
MCShipped == {[trusted |-> {}, own |-> {}], [trusted |-> {}, own |-> {"mine"}]}

VARIABLES
  part,    \* the component that moves
  wtFile, wtProc, wtFaults,
  auNow, auSched, auTrusted, auTab, auTicks, auMarks, auJobs, auFired, auEdits, auFaults,
  awPacket, awShardFile, awArtifact, awResult, awCheckpoint, awRun, awAuthor,
  awTorn, awWrites, awCrashes,
  stFile, stManaged, stAt, stOpen, stLoading, stDraft, stShown, stReqs, stSole,
  stOwn, stClicks, stFaults,
  exFile, exAt, exOpen, exData, exLoading, exReqs, exRun, exReviewed, exRan, exClicks,
  exFaults

Trust == INSTANCE WorkspaceTrust WITH
  Procs <- {1, 2}, Roots <- {"r", "s"}, Overlapping <- FALSE, MaxWrites <- 4,
  MaxFaults <- 1, file <- wtFile, proc <- wtProc, faults <- wtFaults
Schedules == INSTANCE Automation WITH
  Scheds <- {"a"}, Tabs <- {1, 2}, Panels <- {1}, Every <- 1, MaxTime <- 1, MaxEdits <- 1, MaxUnder <- 2,
  MaxFaults <- 1, now <- auNow, sched <- auSched, trusted <- auTrusted,
  tab <- auTab, ticks <- auTicks, marks <- auMarks, jobs <- auJobs, fired <- auFired,
  edits <- auEdits, faults <- auFaults
Workflow == INSTANCE ArtifactWorkflow WITH
  Runs <- {"r1", "r2"}, Packets <- {"p", "q"}, Shards <- {"s"}, Types <- {"t", "u"},
  Demands <- {{"t"}, {"t", "u"}}, MaxWrites <- 2, MaxCrashes <- 1, packet <- awPacket,
  shardFile <- awShardFile, artifact <- awArtifact, result <- awResult,
  checkpoint <- awCheckpoint, run <- awRun, author <- awAuthor, torn <- awTorn,
  writes <- awWrites, crashes <- awCrashes
Layers == INSTANCE Settings WITH
  Clients <- {1, 2}, Projects <- {"p"}, Modes <- {"manual", "auto"},
  MaxClicks <- 3, MaxFaults <- 1, file <- stFile, managed <- stManaged,
  at <- stAt, open <- stOpen, loading <- stLoading, draft <- stDraft,
  shown <- stShown, reqs <- stReqs, sole <- stSole, own <- stOwn,
  clicks <- stClicks, faults <- stFaults
Extend == INSTANCE Extensions WITH
  Things <- MCThings, Kind <- MCKind, Source <- MCSource, Plugin <- MCPlugin,
  Event <- MCEvent, Workspaces <- {"p"}, Shipped <- MCShipped, MaxRuns <- 1, MaxClicks <- 2,
  MaxFaults <- 1, file <- exFile, at <- exAt, open <- exOpen, data <- exData, loading <- exLoading,
  reqs <- exReqs, run <- exRun, reviewed <- exReviewed, ran <- exRan,
  clicks <- exClicks, faults <- exFaults

wtVars == <<wtFile, wtProc, wtFaults>>
auVars == <<auNow, auSched, auTrusted, auTab, auTicks, auMarks, auJobs, auFired, auEdits,
    auFaults>>
awVars == <<awPacket, awShardFile, awArtifact, awResult, awCheckpoint, awRun, awAuthor,
    awTorn, awWrites, awCrashes>>
stVars == <<stFile, stManaged, stAt, stOpen, stLoading, stDraft, stShown, stReqs,
    stSole, stOwn, stClicks, stFaults>>
exVars == <<exFile, exAt, exOpen, exData, exLoading, exReqs, exRun, exReviewed, exRan, exClicks,
    exFaults>>
storesVars == <<part, wtVars, auVars, awVars, stVars, vars, exVars>>

(* One component moves, the others stay in an initial state.               *)
StoresInit ==
  /\ part \in {"trust", "schedules", "workflow", "settings", "missions", "extensions"}
  /\ Trust!Init
  /\ Schedules!Init
  /\ Workflow!Init
  /\ (part # "workflow" =>
        awPacket = "p")
  /\ Layers!Init
  /\ (part # "settings" =>
        stManaged = Layers!Empty
          /\ stAt[1] = "p"
          /\ stFile["p"] = Layers!Empty
          /\ stFile["user"] = Layers!Empty)
  /\ Init
  /\ Extend!Init
  /\ (exAt = "p") = (exFile["p"].own # {})
  /\ (part # "extensions" =>
        exAt = "p")

TrustMoves ==
  part = "trust" /\ Trust!Next
  /\ UNCHANGED <<part, auVars, awVars, stVars, vars, exVars>>
SchedulesMoves ==
  part = "schedules" /\ Schedules!Next
  /\ UNCHANGED <<part, wtVars, awVars, stVars, vars, exVars>>
WorkflowMoves ==
  part = "workflow" /\ Workflow!Next
  /\ UNCHANGED <<part, wtVars, auVars, stVars, vars, exVars>>
LayersMoves ==
  part = "settings" /\ Layers!Next
  /\ UNCHANGED <<part, wtVars, auVars, awVars, vars, exVars>>
PlanMoves ==
  part = "missions" /\ Next
  /\ UNCHANGED <<part, wtVars, auVars, awVars, stVars, exVars>>
ExtendMoves ==
  part = "extensions" /\ Extend!Next
  /\ UNCHANGED <<part, wtVars, auVars, awVars, stVars, vars>>

StoresNext ==
  \/ TrustMoves
  \/ SchedulesMoves
  \/ WorkflowMoves
  \/ LayersMoves
  \/ PlanMoves
  \/ ExtendMoves

ASSUME MissionsAssumption

(* The timer of an open client ticks and its requests are answered; a run's*)
(* hooks are fired in turn and time out.                                   *)
Fairness ==
  /\ WF_auVars(part = "schedules" /\ Schedules!Arrival)
  /\ \A t \in {1, 2} :
        /\ WF_auVars(part = "schedules" /\ Schedules!Ticker(t))
        /\ WF_auVars(part = "schedules" /\ Schedules!TickReturns(t))
  /\ WF_exVars(part = "extensions" /\ Extend!Step(1))
StoresSpec == StoresInit /\ [][StoresNext]_storesVars /\ Fairness
(* The missions alone                                                      *)
PlanSpec == StoresInit /\ part = "missions" /\ [][PlanMoves]_storesVars

-----------------------------------------------------------------------------
StoresTyped ==
  CASE part = "trust" -> Trust!TypeOK
    [] part = "schedules" -> Schedules!TypeOK
    [] part = "workflow" -> Workflow!TypeOK
    [] part = "settings" -> Layers!TypeOK
    [] part = "missions" -> TypeOK
    [] part = "extensions" -> Extend!TypeOK

(* A file and what a process believes of it agree: the cache of trusted    *)
(* roots, a slot fired and its schedule, the status of an artifact workflow,*)
(* the settings in force, the review a hook waits for                      *)
(* (workspace-trust.ts:120, background-runner.ts:798,                      *)
(* bounded-artifact-workflow.ts:282, settings-client.ts:41, hooks.ts:208). *)
StoresAgree ==
  /\ Trust!CacheFollowsFile /\ Schedules!FiredMovesOn /\ Workflow!ValidatedIsBacked
  /\ Layers!SavedIsInForce /\ Extend!ReviewedBeforeRun

(* Only its owner writes a thing: a handoff is by the run whose agent wrote*)
(* the artifacts, a save changes the layer and the entries it names        *)
(* (process-lifecycle.ts:254, settings-fs.ts:88, preferences.ts:174).      *)
OnlyOwnersWrite ==
  /\ Workflow!HandoffIsOwn /\ Layers!OthersAreKept /\ Extend!OnlyTheNamedChange

(* While a client is open a due schedule moves on, and a run does not wait *)
(* for its hooks for ever (background-runner.ts:798, hooks.ts:402).        *)
WaitsEnd ==
  /\ part = "schedules" => Schedules!DueMovesOn
  /\ part = "extensions" => Extend!HooksEnd
=============================================================================

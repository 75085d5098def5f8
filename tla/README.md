# Spok: formal models, model checks and proofs

Spok is a local-first TypeScript harness for the Grok agent CLI: a Next.js client
(desktop window, phone and other browsers on the LAN, all at the same time) in front
of one privileged Node runtime that owns files, Git worktrees and agent processes.
This directory holds TLA+ models of the parts of Spok where order, concurrency and
failure decide whether it works, the TLC configurations that check them, and TLAPS
proofs of the properties that matter most. Paths below are relative to `src/`.

| file | what it is |
|---|---|
| `JobRunner.tla` | background jobs: the runner in every client, the durable ledger, worktrees, agents |
| `JobLifecycle.tla` | what the runner promises of a job, abstractly; `JobRunner` refines it |
| `JobRunnerProofs.tla` | JobRunner's invariants of rows, worktrees and write chain; capacity and outcomes (TLAPS) |
| `JobLifecycleProofs.tla` | the refinement of JobLifecycle; the ledger that settles (TLAPS) |
| `SessionLaunch.tla` | one turn of an agent: client call, approval, launch route, process registry, prompt file |
| `SessionLaunchProofs.tla` | its inductive invariant, registry and prompt files; consent and stops (TLAPS) |
| `Preflight.tla` | the contract of a launch: probes of the installed CLI, the run specification and its arguments |
| `SessionLog.tla` | one durable session: the writer's batches, the host's log, the clients that follow it |
| `SessionLogProofs.tla` | the count, the followers and the deletion of that log (TLAPS) |
| `SessionRestore.tla`, `StreamIngest.tla`, `SessionReduce.tla` | a session on the client: restored at the start, coalesced from the agent's output, reduced to a trace |
| `SessionLifecycle.tla`, `Inbox.tla`, `Review.tla`, `GitHandoff.tla` | its lane, its review, its commits and their handoff |
| `ChangesPanel.tla`, `ChangesPanelProofs.tla` | its files, the traces that explain them and what is selected; the proofs about them (TLAPS) |
| `Composer.tla` | prompts, their queue and files, stop, and the mode a session runs in |
| `WorkspaceTrust.tla`, `Settings.tla`, `Extensions.tla` | configuration files, their caches, and the dialogs that write them; lifecycle hooks |
| `Automation.tla`, `ArtifactWorkflow.tla`, `Missions.tla` | schedules, bounded artifact runs, durable missions and their scheduler |
| `MissionsProofs.tla` | plans that are sound, reserves that are kept (TLAPS) |
| `Enterprise.tla`, `ControlRoom.tla`, `Workspaces.tla` | the Missions screen (live teams, durable missions) and the opening of a folder |
| `EnterpriseProofs.tla`, `ControlRoomProofs.tla` | the live teams; what the panel of the durable missions shows (TLAPS) |
| `MCJobRunner`, `MCSessionLaunch`, `MCSessionLog` | one component each for TLC, with their `.cfg` |
| `MCSessionView`, `MCRuntimeStores`, `MCScreens` | several components that share no state for TLC (section 5) |
| `PROJECT.json` | components, runs, mutants, the map from definitions to source lines, findings, hazards, theorems |

To run: `tlc -workers 2 -config JobRunnerTabs.cfg MCJobRunner`, `tlapm JobRunnerProofs.tla`,
and so on. Each run ends within four minutes on two cores, each proof module within five.

## 1. Inventory

Both the client and the runtime are single JavaScript threads: code runs undisturbed
from one `await`, callback or event to the next, and everything else may happen in
between. That is the granularity of the models.

### Background runner - `lib/background-runner.ts`, `lib/automation/queue.ts`, `worktree-isolation.ts`
- *State*: per client: the rows (`store.automationJobs`), `startingJobs`, abort
  controllers, `durableJobIds`, the promise chain of ledger writes, a debounce timer,
  the fingerprint of the last snapshot, the capacity. All of it is gone on a reload.
- *Operations*: enqueue, cancel, clear finished, change capacity, pump, run a job (an await
  for each write, the worktree, the run with its modal, the summary), boot from the ledger,
  snapshot the rows.
- *Interaction*: reads and writes the job ledger over HTTP; creates a worktree per
  isolated job; calls `runHarness`.
- *Hard*: the pump is called from everywhere, also while runs are suspended; every
  await of a run may meet a cancellation, a cleared row or a failed write; reloads at
  any point; two clients over one ledger.
- *Correct when*: capacity is respected; rows show what runs; nothing is launched
  before its linkage is durable, after a cancellation, or twice; a shown outcome changes
  only into a failure and reaches the ledger; a queued job is served.

### Job ledger - `lib/automation/jobs-fs.ts`, `server/routes/automation-jobs.ts`
- *State*: one JSON file. *Operations*: load (which reconciles jobs in flight and
  untrusted ones), upsert one job, replace all. Active jobs of untrusted workspaces
  are refused.
- *Hard*: writes of several clients; the reconciliation runs on every client's boot.
- *Correct when*: what it holds suffices to never start a launched job again.

### Launch client - `lib/harness.ts`, `lib/settings-client.ts`
- *State*: per call: where it is suspended, its abort signal, the approval modal's
  waiter, the session's status and live flags.
- *Operations*: post the launch, ask the user, submit the decision, post again with
  the one-shot token, read the stream, finish; abort at any of these.
- *Hard*: an abort while a request is on its way; lost connections; late decisions; a modal
  nobody answers.
- *Correct when*: each call ends; a refused run never gets a process; a stop has stopped the
  agent before the client says so, unless its DELETE was lost, and then the session still
  names the agent.

### Launch route, process registry, approvals, prompt artifacts, policy
`server/routes/session-start.ts`, `lib/process-lifecycle.ts`,
`lib/security/approvals.ts`, `lib/runtime/grok-prompt-artifacts.ts`,
`lib/runtime/grok-run-preparation.ts`, `lib/security/permission-policy.ts`
- *State*: in-memory maps (running entry and terminal record per session; pending
  requests and tokens), a grants file, a prompt file per managed run, processes.
- *Operations*: POST (checks, `await prepareGrokRun`, checks, spawn, stream), GET
  (status), DELETE (stop), exit, close, timeout, shutdown.
- *Hard*: requests of one session interleave at the handler's await; exit and close
  events arrive after others have pruned or reused the entry; a crash forgets all.
- *Correct when*: one agent per session; the registry names living processes of the
  right session; stops reach the right process only; consent is used once; the prompt
  file lives as long as the process that reads it.

### Launch contract - `lib/runtime/grok-capabilities.ts`, `cli-status.ts`, `grok-run-spec.ts`
- *State*: per call: the captures of its probes, each with its timer; a snapshot the status
  route gave a client; the specification that was compiled.
- *Operations*: probe the CLI (help, inspect, leaders), answer with a snapshot, validate a
  specification, compile it to arguments, refuse it.
- *Hard*: a probe hangs or fails while others answer; the CLI is updated between two probes,
  or after the snapshot a specification is pinned to; what is not known is not supported.
- *Correct when*: no argument is passed that the probe did not confirm; a run nobody attends
  is contained; every probe ends.

### Session persistence - `lib/session-persist-client.ts`, `lib/session-store-fs.ts`, `lib/host-session-sync.ts`
- *State*: a queue and a 200 ms timer per session in the client; on disk `meta.json`,
  `events.ndjson`, `snapshot.json`; a cursor in every client that follows.
- *Hard*: batches are posted without waiting for each other and without a retry; the
  append and the update of `eventCount` are two writes; a late register or snapshot may
  follow a delete; a list of live processes governs pulls that come after it, and one that
  fails is read as empty.
- *Correct when*: the count never runs ahead of the log; a follower shows entries of it in
  order, a prefix while no such list fails; what was not lost is on disk in the end; a deleted session stays deleted; nothing
  is shown running for ever.

### Restore, stream and trace - `hooks/use-session-hydration.ts`, `lib/grok-stream.ts`, `lib/session-reduce.ts`
- *State*: the attempt under way and its deadline; open segments of prose; a hot window
  of nodes with counters, frozen history, batches per animation frame.
- *Hard*: deadline, retry, "continue" and late answers race; chunks of thought, message
  and tool interleave; nodes leave the window while later events still name them.
- *Correct when*: a superseded attempt is silent and the splash ends; no prose is lost
  and none that was shown is rewritten; counters never drop; running work stays visible.

### Inbox, review, Git and handoff - `lib/session-inbox.ts`, `lib/review-*.ts`, `lib/handoff-flow.ts`, `lib/git/*`, `components/git/git-panel.tsx`
- *State*: the session row and the job row, written by different steps; the evidence of
  a trace; HEAD, index and working tree; a status read some time ago.
- *Correct when*: success is shown only when all agree; the surfaces do not send the user two
  ways; a memo is not older than its data; a record of a handoff is backed; the flow leads to
  its end. (Not kept: that a discard leaves the index alone; section 7.)

### Changes panel - `lib/store.ts`, `lib/session-reduce.ts`, `lib/causal-links.ts`, `components/diff/*`
- *State*: the session's files with the traces that explain each, links from traces to
  files and hunks, the selected file, trace and hunk, a dialog that asks before a discard.
- *Operations*: the agent's events, refreshes from Git (button, watch, after a discard),
  pruning, relinking, the user's clicks.
- *Hard*: refreshes overlap and carry old answers; ids change while something is selected;
  a cap drops rows that links still name.
- *Correct when*: a path is listed once; links lead both ways; a reason is not lost while
  its file is listed; a refresh moves the selection only if its file is gone.

### Prompt composer - `components/session/prompt-composer.tsx`, `lib/attachments.ts`
- *State*: one composer for all sessions: busy flag, abort controller, queue, chips,
  a pending escalation; flags per session; files on the host.
- *Hard*: an effect drains the queue while stop, edits and the run's `finally` go on.
- *Correct when*: the composer is never stuck busy or draining while a prompt waits; a dropped
  one is never sent; its files are kept; no path but a confirmation raises the mode.

### Trust, settings, extensions - `lib/security/workspace-trust.ts`, `lib/settings/*`, `lib/extensions/*`
- *State*: one JSON file per layer, written whole; a cache by file stamp (trust); drafts
  and discoveries in dialogs; the hooks a run awaits.
- *Hard*: writes of several clients and processes; torn files; answers out of order; hooks that
  a workspace brings in its own files.
- *Correct when*: the cache follows the file while changes do not overlap; a save is in force and loses nothing it
  does not carry; a project's hook runs only after review; a hook never hangs a run.

### Schedules and channels - `lib/automation/schedules-fs.ts`, `channels-fs.ts`
- Each client that booted polls due schedules, enqueues their jobs and marks the run without
  waiting for the mark. *Hard*: two ticks or two clients between fetch and mark; nothing keeps
  two calls of `tickSchedules` apart. *Correct when*: a slot that was fired is marked, and a
  due schedule moves on while some client's ticker runs. Channels are
  not modelled: `ingestChannelEvent` has no caller.

### Bounded artifact workflow - `lib/runtime/bounded-artifact-workflow.ts`
- *State*: an input packet, artifacts, a manifest, a checkpoint. *Hard*: a run resumes
  from an earlier one whose input has been staged anew; crashes between two writes.
  *Correct when*: "validated" is backed by artifacts of its input, a handoff by its run.

### Missions - `lib/missions/*`, `server/routes/missions.ts`, `mission-orchestration.ts`
- *State*: document, index, checkpoints and a receipt bundle in files.
- *Correct when*: every reference can be read; what a call selects overlaps neither itself nor
  what runs; dependencies precede; reserves are not spent; no startable item is passed over.

### Missions screen - `components/enterprise/enterprise-screen.tsx`, `lib/enterprise.ts`, `lib/missions/client.ts`
- *State*: teams derived from jobs; a selection with a turn, a person and a text;
  a list and a detail fetched by two effects.
- *Correct when*: one turn per worktree; a shown acceptance is durable; a follow-up goes
  to its team; the panel shows the mission asked for, its progress backed by evidence.

### Opening a workspace - `components/shell/launch-dialog.tsx`, `mobile-folder-picker.tsx`, `lib/workspace-session.ts`
- *State*: folder, receipt, tick, conflict; browses and launches on their way.
- *Correct when*: a folder becomes trusted only after a confirmation (on the desktop of that
  very folder; the phone does not keep that, section 7); one session per checkout; runs
  elsewhere are not stopped.

### Left aside
- *Secrets, audit, local API guard*: an encrypted file, an append-only log, checks of a
  single request.
- *Shell, trees, traces, monitor panel* of the user interface: they show what the store
  holds; the rows' buttons are the user's actions in the models.
- *Tauri shell, scripts*: process start-up.

`PROJECT.json` lists every component with its files and status, and under "hazards"
each behaviour that tests hardly reach, at the line where it bites.

## 2. JobRunner

One client is one record `client[t]`, so that `Reload(t)` can drop all of it at once;
`ledger`, `worktrees`, `trusted` and `procs` belong to the runtime and survive.

| model | code |
|---|---|
| `client[t].jobs`, `.limit` | `store.automationJobs`, `automationMaxConcurrent` |
| `.pc[j]` | `startingJobs` and the `await` at which `runJob` is suspended |
| `.aborted` | `aborts`, those whose signal fired |
| `.durable`, `.lastPut`, `.timer`, `.boot` | `durableJobIds`, `lastLedgerFingerprint`, `ledgerSyncTimer`, `ledgerInitialization` |
| `.chain`, `.flight` | `ledgerWriteChain` and the request its head has on its way |
| `Enqueue`, `Cancel`, `ClearFinished`, `SetLimit`, `EffectPump` | `enqueueBackgroundJob`, `cancelBackgroundJob`, the store's setters, the shell's effect |
| `BootGet`, `BootMerge`, `BootFail` | `initializeBackgroundJobs`, split at its await; `BootGet` contains the server's reconciliation |
| `TimerFires`, `WriteStarts`, `ServerWrites`, `...Persisted` | `scheduleLedgerSync`, `queueLedgerWrite`, the route, and the continuation of each kind of write |
| `StartPersisted` ... `HarnessReturns` | `runJob` up to the return of `runHarness`, one action per await, each with its success, failure and cancelled outcome; `"approval"` is the run that waits in its modal |
| `ApprovalGranted`, `ApprovalEnds` | the user's answer, or an abort, at that modal; a denial makes `runHarness` return code `null`, which the job shows as completed |
| `Outcome`, `OutcomePersisted`, `Summarised`, `Catch`, `EndPersisted` | what follows the run (`background-runner.ts:653-789`): the outcome shown, saved, its lanes summarised, and the `catch` of the same `try`, which may settle the row once more |
| `BecomePumped` | every handler that ends with `pumpQueue()`, the pump included in the step |

Job ids are numbers in the order of `sortQueue`. A record is its status and how far it
is linked (`none`, `worktree`, `session`); `interrupted` stands for status `failed`
with outcome `interrupted`. `Linked` jobs bring an earlier turn's worktree, `Shared`
ones ask for no isolation (and are refused, as the code does).

Deliberately left out: `waiting_approval` (no code sets it), priority changes,
`acceptEnterpriseTurn` (in Enterprise), `tickSchedules` (in Automation), the 100-row caps, corrupt
ledger files, notifications and the enterprise hooks. Trust is only ever revoked.
Removing a worktree keeps its branch, so `worktreeAdd` refuses a second time either
way and no removal is modelled. The client store is not persisted.
A client whose boot request failed stays paused until it reloads, as in the code.

### Runs

| run | instance | shows |
|---|---|---|
| JobRunnerReload | 1 job, 1 client, 2 reloads, 1 failed request, revocable trust, 1 waiting snapshot | `TypeOK`, `SettledOutcomesAgree`, `OutcomeIsStable`, `ImplementsLifecycle` |
| JobRunnerTabs | 1 job, 2 clients, 1 reload | `AtMostOneLaunch` |
| JobRunnerProgress | 2 jobs (one linked, one shared), limits {1,2}, revocable trust, modals, fairness | `RowsMatchRunners`, `CapacityRespected`, `CancelStopsLaunch`, `QueuedIsServed`, `RunnersEnd` |
| JobRunnerSecondClient | 1 job, 2 clients | refutes `InterruptedIsStale` |

*Refinement.* `JobLifecycle` is what a user may rely on: a job's agent is launched once;
by then the record that links it to its session and worktree is on disk; and from then on
no restart starts it again. Its state is a phase per job and what the file says (`none`,
`startable`, `linked`, `kept`). `ImplementsLifecycle` maps a job's phase from the
suspended runner and the processes (`PhaseOf`) and the record from the ledger (`RecordOf`):
every step of JobRunner is a step of JobLifecycle or a stutter. That subsumes the two
properties one would state separately, that a launch is durable and that a launched job
is never queued again. It is about one client, for the reason given below.

*Why these bounds.* Two jobs and one slot are enough to have one wait for the other,
be overtaken, and take over a freed slot; a second slot lets the limit move above and
below the load. Order among more jobs is `sortQueue`'s alone and no job reads another
job's record. The ledger protocol of one job depends on others only through
the snapshot, which replaces the file as a whole, so reload runs take one job and spend
their states on reloads and faults: two reloads reach "recovered, then interrupted
again"; one fault fails any of the writes. `SyncBacklog` bounds the snapshots that wait
in the chain (each rereads the store when it starts, so two waiting ones write the
same). With `SyncBacklog = 0` no snapshot is written: the runs that set it ask about
the store and the POST writes only.
`LostAnswers` is FALSE in all runs: the code does not guard against a lost answer
(Observations, 1), which would break the properties of JobRunnerReload for that reason
alone. The flag is there so that the scenario can be replayed. The theorems of
JobRunnerProofs and `CapacityAlwaysRespected` hold for both values; those about outcomes,
the lifecycle and the settled ledger assume FALSE, as they must.

*Scope of a property.* `OutcomeIsStable` allows what the code does: a cancelled job whose ledger
write fails becomes failed, and a completed one may become failed while its runner still
summarises the lanes, because the import and the summary sit in the `try` of the run
(`background-runner.ts:692`). `ImplementsLifecycle` and `SettledOutcomesAgree` are about one
client and are checked with one; a second client's snapshot replaces the whole file (see the finding of JobRunnerSecondClient).
`AtMostOneLaunch` holds for any number of clients. It excludes `Linked` jobs, which
create no worktree: two clients that recover the same queued follow-up job both launch it.

`CHECK_DEADLOCK FALSE` everywhere: with all jobs cleared and no reload left, the system
is at rest.

*Fairness.* Weak fairness for boot, the React effect, the timer, the write chain, each
runner and the end of orphaned agents: timers fire, promises settle, the runtime on the
same machine answers, and agents end (the launch route kills them after two hours, see
`SessionIsReleased`). None for the user, faults or reloads, and so none for the approval modal,
which has no timeout (`harness.ts:122`, `settings-client.ts:154-204`): `QueuedIsServed` and
`RunnersEnd` hold in the clients where every modal is answered in the end (`Decides`). `ChainStep` has one fairness
condition because at most one of its steps is enabled at a time: the chain is sequential.

## 3. SessionLaunch

Each `r \in Runs` is one call of `runHarness`; `SessionOf` says which session it belongs
to, so `Together` (two calls, one session) models a second prompt or a second client, and
`Apart` two independent sessions.

| model | code |
|---|---|
| `call[r]` | where `runHarness` is suspended, its signal, the user's decision, the session's status in that client |
| `post[r]` | the latest POST /api/session/start of that call: on its way, preparing, answered, lost |
| `stop`, `unheard` | the runs whose DELETE is on its way; those of which one was lost, or its answer (`StopFails`: `harness.ts:271-275`, `398-402` swallow it and go on as stopped) |
| `approval[r]`, `always` | `pendingApprovals`, `onceTokens`, the grants file |
| `prompt[r]` | the managed prompt artifact: ready, removed, retained |
| `child[r]`, `owned` | the agent process; whose close event the present runtime handles |
| `registry`, `terminal` | the two maps of `process-lifecycle.ts`, keyed by session as there |
| `Received`, `Prepared` | the POST handler before and after `await prepareGrokRun`; `Judge` and `Spawn` are the part both end in |
| `Delete`, `Observe`, `Timeout`, `Closes` | DELETE, GET (both prune first), the run timeout, `onClose` with the handoff gate |
| `Asked`, `Decide`, `DecisionAnswered`, `LateDeny` | the modal, `decideApproval`, the second post |
| `ConnectionLost`, `PeerGone`, `Restart` | a broken request or stream, a runtime that goes away, and its successor with empty maps |

Abstracted: argv fingerprints (to the run they belong to), the policy's rules (to
allowed / asked / refused, `Asking` being a constant), report classification, the
Windows retry through `cmd.exe`, deny rules (same effect as lost trust), the retention
of terminal records and of debug artifacts, heartbeats, hooks, the parsing of the
stream. (A probe's retry and the rules of the run specification are in Preflight.) An
abort always sends a DELETE too, as `stopRun` and `cancelBackgroundJob` do. The stop of the
session view, a DELETE without an abort (`workspace.tsx:117-122`), is not modelled apart.

### Runs

| run | instance | shows |
|---|---|---|
| SessionLaunchShared | 2 calls in 1 session, one asking, one gated, 1 lost connection, 1 restart | `TypeOK`, `RefusedNeverLaunches`, `RegistryIsCurrent`, `PromptOutlivesAgent`, `Consent` |
| SessionLaunchEnds | 2 calls in 2 sessions, one managed, gated and asking, revocable trust, 1 lost connection, fairness | `AgentsAreStoppable`, `StopReachesAgent`, `StopIsScoped`, `CallsEnd`, `SessionIsReleased` |

*Why these bounds.* A call meets another one only through its session's registry entry
and the grants file, so two calls show every pair of steps; both kinds of run (managed
with an await in the handler, unmanaged without one), gated or not, asking or not, occur
in one instance. One lost connection may hit any request, the DELETE of a stop included; one
restart any moment. A call has at most one DELETE under way: a second one before the first is
handled finds the same table.

`StopReachesAgent` says what a lost DELETE leaves: the call returns as stopped with its agent
alive, but the session still names that agent, so that the next stop, the timeout or the status
reaches it. In every other case the agent was killed or is gone.
`AgentsAreStoppable` and `StopReachesAgent` are checked with one turn per session: with
two they are false (section 7, observation 7). `CHECK_DEADLOCK FALSE`: when
all calls have ended, nothing more happens.

*Fairness.* Weak fairness for the client's reactions, the two handlers, DELETE, the exit
of a killed process, the close event and the run timeout (two hours by default, armed
unless `SPOK_RUN_TIMEOUT_MS` is set to zero). None for the user, for an agent's own exit, for
faults and restarts. `CallsEnd` therefore excludes a call that waits in the modal, and
`SessionIsReleased` rests on the timeout when the agent hangs.

## 4. SessionLog

One session's directory on the host (`disk`), the requests on their way (`wire`, in any
order), and per client its view, queue, batch and cursor. `Owner` runs the agent;
`Pollers` follow by polling.

| model | code |
|---|---|
| `Emit`, `FlushStream`, `TimerFires`, `PersistSends` | the stream batch, the 200 ms queue, the post of a batch without waiting (`session-persist-client.ts`) |
| `HarnessSettles`, `HarnessPersists`, `ProcessExits` | the end of `runHarness` and its last writes; the agent's exit in the registry |
| `HandleAppend`, `HandleRegister`, `HandleSnapshot`, `HandleDelete` | the routes over `session-store-fs.ts`; `Appended` and the update of the count are two writes |
| `PollLists`, `PollAsks`, `PollReads`, `PollMerges`, `PollFails` | `use-host-session-sync.ts` and `host-session-sync.ts`, split at each await |
| `Disturb` | a lost request, a crash between two writes, a reload, a deletion, a list of live processes that cannot be had |

A failed `GET /api/runtime/live` is read as an empty list (`host-session-sync.ts:70-85`): a
running session is then taken for an ended one, its pull asks for no events, and the cursor
moves to the count of `meta.json` (:201). `FollowerShowsPrefix` therefore says two things: a
follower always shows entries of the log in the log's order, none twice; and as long as no such
list failed it shows a prefix. After one the next live pull leaves a gap.

Run *SessionLogShared*: a writer and a follower, two events, two live polls, one disturbance
of any of the five kinds: `CountTrailsLog`, `FollowerShowsPrefix`, `DeletedStaysDeleted`,
`EventsAreAccounted`, `StaleRunningClears`. Two events are the least that can be reordered
or split over two batches, and two live polls the least that leave a gap; a second disturbance would show what two clients lose, which
nothing in the code repairs. *Fairness*: the queue's timers, the handlers, the harness's end
and the polls of an open client go on; nothing is assumed of the agent or the user.
`EventsAreAccounted` excuses a batch that a disturbance took, as the client does not retry.

## 5. Components checked together

Three MC modules hold several components that share no state. Their `part` says which one
moves; the others stay as they start, in one of their initial states where they have many.
So the reachable states are the sum of the components', not their product, and nothing is
lost: a step of one cannot enable, disable or falsify anything of another. Each property
is a conjunction of the components' properties on one theme, and the mutants of
`PROJECT.json` break it by each of the components.

### MCSessionView - what a session becomes on the client

| module | models | instance | properties |
|---|---|---|---|
| SessionRestore | `use-session-hydration.ts`, `session-hydrate.ts`: attempts, the deadline, retry, continue, the two load loops, lazy loads | 2 sessions, 2 attempts, 2 clicks, 1 fault | `GivenUpStaysSilent`, `SplashEnds` |
| StreamIngest | `grok-stream.ts`, `trace-text.ts`: segments of thought and message, merge rules, tool calls and their updates | 8 chunks (two phrases of the CLI's own noise, one with a line break), 3 nodes, texts of 2 words | `ProseIsKept`, `HistoryIsKept` |
| SessionReduce | `stream-batch.ts`, `session-reduce.ts`, `session-replay.ts`: batches, upserts, hot window, frozen counters, replay | window of 2, 4 events of 8 kinds, 1 rebuild | `HotWindow`, `CountsNeverDrop`, `ReplayKeepsEvidence` |
| Inbox (SessionLifecycle) | `session-inbox.ts`, `session-lifecycle-projection.ts`, the memo of `sidebar.tsx` | one session with its job, 9 steps | `SuccessIsUnanimous`, `LaneIsCurrent` |
| Review | `validation-lane.ts`, `review-queue.ts`, `review-readiness.ts`, the badges | 1 file, 2 entries of the trail, counts to 2, 1 edit | `SurfacesAgree`, `FailuresAreCounted` |
| GitHandoff | `git/*`, `session-git.ts`, `git-panel.tsx`, `use-git-watch.ts`, `handoff-flow.ts`, `handoff-record.ts` | 1 file of 3 contents, 1 edit, 1 fault, 1 action beside the flow | `RecordIsEvidence`, `FlowEnds` |
| ChangesPanel | `store.ts`, `session-reduce.ts`, `causal-links.ts`, `components/diff/*`: events, four refreshes that overlap (button, discard, two ticks of the watch), pruning, relinking, clicks | 2 paths, 2 traces, 2 hunks, 2 ids, 3 inputs | `LinksAreMutual`, `OnePerPath`, `WhyIsKept`, `FocusIsKept` |
| Preflight | `grok-capabilities.ts`, `cli-status.ts`, `grok-run-spec.ts`, the status and launch routes: captures and their timers, snapshots, validation, arguments | 2 builds (one only a shell can start), 11 specifications, 2 calls, 1 update | `ArgsAreConfirmed`, `LeavesAreContained`, `ProbesEnd` |
| Composer | `prompt-composer.tsx`, `attachments*.ts`, the slash gate, the run as it sees it | 2 sessions, 3 prompts, a queue of 1, 1 file, 3 modes, 1 click | `EscalationIsConfirmed`, `QueuedFilesAreKept`, `DroppedNeverRuns`, `QueueMoves` |

Three prompts are one that runs, one that waits and one that replaces it; a window of two
nodes makes the third event demote one; one file suffices because paths do not interact in
Git's index. Calls of the contract share nothing but the installed CLI, so one is followed at
a time; two are what it takes to pin a specification to an older snapshot, and the 11
specifications are one per rule of the validation and per kind of argument. The probe of the
version is left out: it only tells snapshots apart. *Fairness*: the timer of a probe
(`cli-status.ts:93`), the deadline of a restore, the panel's own requests and the poll,
the drain effect once a render has made it due (`cpDue`: it runs again only when one of its four
dependencies changes) and the composer's requests, a started agent's exit. None for a modal:
`QueueMoves` excuses a run that waits for approval, and `FlowEnds` a branch that has
diverged, which the flow never resolves. `QueueMoves` does not promise that a waiting prompt is
sent; section 7 shows why.

`SurfacesAgree` compares the review with the flow of the git panel, which is computed without the
linked job (`git-panel.tsx:119-122`), as long as the claims of session and job do not contradict
each other; while they do, the two differ (section 7, finding 3). A merged thought that comes to read
as the CLI's noise is given up (`grok-stream.ts:947-952`): by `ProseIsKept` what it showed before
stays in its node, while the chunk that makes it so is dropped by the code and does not count as
taken. The watch compares a status without its counts ahead and behind, as
`use-git-watch.ts:46-53` does, and takes a failed poll for a state of its own.

### MCRuntimeStores - files that several write

| module | models | instance | properties |
|---|---|---|---|
| WorkspaceTrust | `workspace-trust.ts`: cache, stamp, load, write, restart | 2 processes, 2 roots, 4 writes, 1 fault | `CacheFollowsFile` |
| Automation | `schedules-fs.ts`, the ticker of `background-runner.ts`, the schedule list | 1 schedule every 1, 1 tick of time, 2 clients (one with a panel), 2 calls under way, 1 edit, 1 fault | `FiredMovesOn`, `DueMovesOn` |
| ArtifactWorkflow | `bounded-artifact-workflow.ts`: prepare, resume, write, gate, finalize | 2 runs, 2 packets, 1 shard, requests of one or both of 2 types, 1 crash | `ValidatedIsBacked`, `HandoffIsOwn` |
| Settings | `settings-fs.ts`, `merge.ts`, the routes, `settings-dialog.tsx` | 2 clients, 1 project, 2 modes, 3 clicks, 1 fault | `SavedIsInForce`, `OthersAreKept` |
| Missions | `persist.ts`, `receipts.ts`, `scheduler.ts`, `budgets.ts`, the routes; a crash between any two writes | 3 items (one depends on another), 5 drafts (3 of them refused), 1 replacement of the document | `RefIsReadable`, `CompiledStaysConsistent`, `SelectedScopesAreFree`, `WorkFollowsItsDependencies`, `SelectionIsMaximal`, `ReservesAreProtected` |
| Extensions | `extensions/*`, `extensions-dialog.tsx`, the hooks of `harness.ts` | a project's plugin with a hook, a hook of the user or shipped in the workspace's file, 2 clicks, 1 run, 1 fault | `ReviewedBeforeRun`, `OnlyTheNamedChange`, `HooksEnd` |

`Overlapping = FALSE` lets no two processes have a change of trusted roots under way at the
same time; with it the cache may go astray (section 7). Nothing keeps two calls of
`tickSchedules` apart, in one client or in two, and the model does not either: a slot may be
fired twice (section 7). What holds is that nothing a client has fired is due once its
marks have arrived, unless a user's edit or a lost mark has put the slot back (`FiredMovesOn`),
and that a due schedule moves on while some client's ticker runs
(`DueMovesOn`). A client whose boot request failed has no ticker (`app-shell.tsx:57-76`); its
button "Check schedules" still works. A workspace's file of preferences may come with trust and
with hooks of its own (`Shipped`): the code reads such hooks as the user's (observation 22), so
`ReviewedBeforeRun` is about the hooks of its folder and of its plugins. In Missions, `scheduleMissionReceipts` is
one step per candidate, with the lanes running as the caller reports them; the dispatcher
that starts what was selected is not in the repository and is external. One replacement of
the document is enough for a bundle to be older than its document, twice adds no pair of
versions that matters. *Fairness*: the tick of a client that booted and its requests; the hooks
of a run and their timeout (`hooks.ts:402`).

### MCScreens - the Missions screen and the opening of a folder

| module | models | instance | properties |
|---|---|---|---|
| Enterprise | `enterprise-screen.tsx`, `enterprise.ts`, `job-actions.ts`, acceptance in `background-runner.ts`; a job's run by its stages only | 2 teams, 3 jobs, 4 clicks, 1 lane, 1 fault or reload | `OneTurnPerWorktree`, `AcceptedIsDurable`, `FollowUpIsForItsTeam`, `CrewIsAccounted` |
| ControlRoom | `missions/validate.ts`, `client.ts`, `checkpoint.ts`, `routes/missions.ts` and the two effects of the screen, each fetch with its abort and timeout | 2 missions, 2 items (one below the milestone, one loose), 3 documents, 3 fetches | `ShownIsAsked`, `ProgressIsBacked` |
| Workspaces | `launch-dialog.tsx`, `directory-navigator.tsx`, `mobile-folder-picker.tsx`, `workspace-session.ts` | 2 folders, 2 sessions, desktop, browser and phone, 4 clicks, 1 new run, 1 fault | `TrustIsAskedFor`, `SameCheckoutIsReused`, `UnrelatedRunsContinue` |

Four clicks launch, follow up, stop and follow up again; three fetches let a retry overtake
two others. A reload interrupts running jobs without stopping their agents; the models of
sections 2 and 3 say what becomes of those, `OneTurnPerWorktree` speaks of the rows.
No liveness is claimed: see observation 15.

`CHECK_DEADLOCK FALSE` in all three: bounds end, and a user may stop.

## 6. Proofs

TLAPS checks these for every finite set of jobs and clients, every set of runs and
sessions, every set of paths and traces, every finite set of work items and drafts of a
plan, every set of missions and documents, every finite set of teams, and any number of
reloads, faults and restarts, but where a theorem says otherwise. The assumptions are the
named `ASSUME`s of JobRunner, SessionLaunch and the MC modules, which TLC evaluates, and the
hypotheses each theorem states. The inductive invariants (`IInv`,
`OutcomeInv`, `LifeInv`, `SettleInv`, `ConsentInv`, `StopInv`, `FollowInv`, `TurnInv`, `Inv`) also hold
as INVARIANTS of the instances of sections 2 to 5; no run repeats them, since the theorems
say more.

**JobRunnerProofs**, first part (`Inductive`, `TypeCorrect`, `LaunchedOnce`, `RowsAlwaysMatch`,
`CancelAlwaysStops`). `AtMostOneLaunch` says nothing about who may launch next, so it is
not inductive. `IInv` adds what makes it so:
- the worktree of an isolated job is a one-shot token (`WorktreeIsToken`): one client at
  most is between `worktreeMade` and the launch, only while the job has not been
  launched, and a job that was launched has its worktree;
- a job gets to the launch only through the token, because a record that may still
  start carries no link (`Startless`), wherever it travels: store, boot answer, request
  body, ledger;
- per client (`ClientInv`): no runner before the ledger is loaded, rows match runners, an
  aborted runner's row is not active, and a boot answer has nothing in flight;
- a job id not handed out yet is unknown everywhere; each follower has a process.

`RowsMatchRunners` and the cancellation property are consequences of `ClientInv`: an
aborted runner has no active row, and the launch step tests exactly that.

**JobRunnerProofs**, second part (`CapacityAlwaysRespected`, `OutcomesAreFinal`). Each handler is first
described by a relation between the client before and after it (`Moved` for a runner,
`Pumps`, `Cancels`, `Merges`, `Sends`, `Settles`, ...), so that the later proofs argue
about eleven relations and never again about `EXCEPT`. Capacity needs no invariant beyond
`IInv`: a pump starts at most the free slots, whatever order the rows come in. That a
shown outcome changes into a failure at most needs `OutcomeInv`: the first write of a job
precedes its other writes in the chain, nothing of the job has started until it is answered, a
runner whose row is over was cancelled and knows it, or shows what its run returned, and a
client that has not asked for the ledger is alone to
know a job whose first write it owes. Any number of clients; answers arrive (`~LostAnswers`).

**JobLifecycleProofs**, first part (`RunnerImplementsLifecycle`). `LifeInv` adds, per job, that a
runner which awaits has exactly one write on its way (`Waits`), that the write before the
launch carries the linkage and was needed (`LinksFirst`), that the linkage stays in row and
ledger while the approval modal waits (`StaysLinked`), and that a launched job is
startable in no copy of its record (`Spent`). Every step is then one of four kinds (a write
or less, an acceptance, a launch, an exit), and each is a step of JobLifecycle or a stutter.
One client, answers arrive: a second client's boot or snapshot rewrites records of jobs the
first one runs (finding 1), and a lost answer makes a started job look refused
(observation 1).

**JobLifecycleProofs**, second part (`OutcomesReachTheLedger`). That the ledger of a client at rest agrees
with its rows is not inductive: in between, rows, chain, request, last snapshot and ledger
all differ. `SettleInv` orders them. A record has a level (not linked, linked and running,
completed, over in another way) that only rises while its row is on show, so no copy of it is ahead of the row and the
snapshot under way is not older than the last (`Ordered`); a row that differs from the last
snapshot has a timer, a queued snapshot or a request that will show it (`Shown`); where the
ledger differs from a launched row it is behind in level, and no write under way takes back what
it has (`Saved`); a client that starts again has nothing of its own to say about a launched job
(`Forgotten`). One client, answers arrive.

**SessionLaunchProofs**, first part (`Inductive`, `TypeCorrect`, `RefusalIsFinal`,
`RegistryAlwaysCurrent`, `PromptAlwaysOutlives`). `RefusedNeverLaunches` is about the
client's state and the process; what connects them is the launch request. `IInv` states,
per run, that there is no process before the launch was judged, that a modal, decision or
withdrawal goes with a request that was answered "ask" (or lost) and is not posted again,
and that a denial never leads back to a post. The proof goes by the four parties (client,
route, agent process, runtime): a lemma for each says which part of `IInv` it keeps.

**SessionLaunchProofs**, second part (`ConsentIsAsked`, `StopsAreScoped`, `AgentsStoppable`,
`StopsReachAgents`). Consent adds to `IInv` that the user speaks once and that a token which
can still be used stands for the yes to its own run. For the stops, `StopInv` ties what the
client shows of a run to how far its launch has come, and an aborted run to a DELETE on its
way or lost, a kill or an exit. A run whose DELETE was lost is `unheard`, and its session still
names its agent. The last two theorems assume that no two runs share a session
(observation 7 shows why), and `StopsReachAgents` speaks of the time until the runtime first
restarts, like the run that checks it: a successor has no table of the agents its
predecessor left.

**SessionLogProofs** (`TypeCorrect`, `CountAlwaysTrails`, `DeletionLasts`, `FollowersKeepOrder`,
`FollowersShowPrefixes`). A follower's cursor, its view and a poll under way each refer to a
log that may since have grown, been cut by a crash or been deleted. The invariant
(`FollowInv`) relates each of them to the log while no session is deleted: an answer under
way is an earlier log (`PullInv`), and the cursor is a position of the log before which the
follower has selected what it shows (`Ordered`). That is enough for the order, whatever fails.
As long as no list of live processes failed, the cursor also stands where the trace ends
(`Abreast`), or the process is gone and no pull asks for events any more (`Overtaken`): then
the selection is a prefix. `CountAlwaysTrails` and `DeletionLasts` hold whatever is lost, crashes or is deleted.

**ChangesPanelProofs** (`TypeCorrect`, `PathsAreListedOnce`, `LinksLeadBack`,
`ReasonsOnlyGrow`, `RefreshKeepsFocus`). `Inv` adds to the two invariants that ids are drawn
once (`KnownIds`) and that a trace which names a file was linked to it when the file was
listed (`MentionsAreNamed`). The hypothesis `Fit` types the constants: the bounds are
numbers, and `Ends` maps paths to sets of paths.

**MissionsProofs** (`MissionsAreTyped`, `PlansAreSound`, `ReservesAreKept`). Between the load
of a mission and the start of a lane the document may be replaced, the bundle recompiled and
lanes may end, so nothing about the scheduler's call follows from the document at hand.
`IInv` states what the call carries with it: the bundle it works from is a plan the compiler
could have made (`Sound`), it holds a lock for each path of what runs and of what it has
selected (`LocksAreHeld`), it has not promised more units than are left (`BudgetIsKept`), and
whatever it passed over was hindered then and is hindered still, because locks are only added
and units only taken (`PassedAreHindered`). What is spent is a sum over lanes. A sum defined
by recursion over a set would need an induction this prover cannot do, so `Total(f, S)` counts
units, the pairs of an item of `S` and a number below its share; that a sum grows by the share
of a new item is then a fact about the cardinality of a disjoint union. `PlansAreSound`
speaks of one call at a time: what it selects overlaps neither itself nor what runs, as its bundle
tells the scopes (`SelectedScopesAreFree`), and a bundle once compiled stays consistent whatever
the document becomes (`CompiledStaysConsistent`). It does not say that two lanes never write one
directory, nor that a saved bundle can be read: section 7 shows that neither holds.

**ControlRoomProofs** (`ControlRoomIsTyped`, `ScreensAreTrue`). Reads overlap, and each is
several messages. `IInv` relates each leg of a fetch to the host as it was when the fetch was
asked or later (`LegsAreTrue`), and what the panel holds to its latest fetch, also while the
effect that will start the next one is due (`PanelIsTrue`). `ProgressIsBacked` is a statement
about every document the host can hold: an accepted one is consistent, and the projections of
an item and of a milestone keep that. The proof failed at first, and rightly: `Listed`, the
items the property speaks of, left out those without a milestone, so that the property said
nothing of them. It now covers them, and the instance has such an item.
That a nonempty set of numbers has a least one comes from `WFMin` of the library, so arguments
from a minimal element are within reach although those by induction are not.

**EnterpriseProofs** (`EnterpriseIsTyped`, `TeamsAreServed`, `TeamsAreAlwaysSound`). A turn is a
row on the screen and a row of the ledger, and a reload puts the second in place of the first.
`IInv` states of both rows what a step may rely on (`RowsAreOld`, `NotYet`, `OneJob`) and ties
the text in the follow-up field to the team on the screen (`LettersAreAddressed`): that team is
the newest when none is chosen, so it may change with any row, and the proof must show when it
does not (`ShownStays`: a team's first job stays first). That no two turns under way share a
worktree needs `TurnInv`: a worktree belongs to one team, and a job without one will get its
own (`WorktreesAreOwn`); what is under way is the last of all that were in its worktree, those
included that were cleared from the screen and that the ledger still lists (`LastIsActive`); and
until something fails, the ledger believes no turn under way that is not (`LedgerIsCurrent`). A
follow-up continues the last turn of its team, which is over, so nothing else is under way
there. The last part fails with the second fault (observation 21), so `TeamsAreAlwaysSound`
assumes one at most, where a cancellation or an acceptance whose write is lost counts as one
(`background-runner.ts:284`, `312`, `325`); `TeamsAreServed`, the other three conjuncts, does without it.

Only model-checked:
- The conjunctions of MCSessionView and MCRuntimeStores (`ClaimsAreBacked`, `EvidenceIsKept`,
  `StoresAgree`, their action properties and `TypeOK`) and `OnlyWithConsent` of MCScreens, but
  for the conjuncts of ChangesPanel, Missions, ControlRoom and Enterprise: the other modules are
  checked on the instances of section 5.
- Liveness (`QueuedIsServed`, `RunnersEnd`, `CallsEnd`, `SessionIsReleased`,
  `EventsAreAccounted`, `StaleRunningClears`, `UserIsServed`, `WaitsEnd`): out of the
  prover's reach.

## 7. What the checks found

Three runs expect a counterexample: each checks one sentence of a comment or document of
the repository that the code does not keep (`PROJECT.json`, "findings").

1. **JobRunnerSecondClient** - the GET of a booting client reconciles the jobs another
   open client is running to "interrupted".
2. **GitPublish** - a clean new branch with commits but no upstream counts zero ahead, so
   the completion flow never offers "Publish the branch".
3. **ReviewContradiction** - the commit button does not look at the linked job, so a
   session that contradicts its job can still be committed as ready.

Ten more sentences are stated as formulas and refuted by TLC in the same way. They have no run of
their own; each is refuted within seconds under `Spec` of its module (`PlanSpec` of
MCRuntimeStores for the missions) with the constants given here.

| formula | what the repository says | what the code does | instance |
|---|---|---|---|
| `SessionLog!PulledIsApplied` | "`pulledCount` maps sessionId -> number of disk events already applied" (`host-session-sync.ts:89`) | a pull of a session whose process has ended asks for no events, and :201 moves the cursor to the count of `meta.json`; no fault is needed | 2 clients, 3 events, 1 live poll, no disturbance |
| `GitHandoff!DiscardKeepsIndex` | "Staged index entries are left alone." (`git-panel.tsx:301`) | when `git restore` fails, `git checkout HEAD -- path` resets the index too (`operations.ts:92-98`) | 1 file, 3 contents, 1 edit, 1 fault, 2 actions |
| `Review!AskingIsNotRunning` | 'Not "running" — avoids git-watch thrash while the modal is open' (`harness.ts:98`) | the entry "Approval required" that follows makes the session running (`session-reduce.ts:786-792`) | 1 file, trail and counts of 2, 2 edits |
| `Review!FinishedRunsAreComplete` | "Tool/command never finished" (`review-queue.ts:410`) | the entry of a launch is "running" for ever (`harness.ts:58-72`), also in a session that completed | the same |
| `Composer!QueueIsServed` | "Drain queue after each finished run" (`prompt-composer.tsx:670`) | the effect runs while `queueDrainRef` is still set; clearing it (:681) renders nothing, and the prompt waits until something else changes the session | 1 session, 1 file, 2 modes, 3 prompts, a queue of 1, 1 click |
| `Automation!SlotFiresOnce` | "Mark run immediately so nextRunAt advances" (`background-runner.ts:837`) | a second call of `tickSchedules`, by the timer or the button, is answered before the mark arrives | 1 schedule every 1, 1 client with a panel, time 1, 2 calls under way, no edit, no fault |
| `WorkspaceTrust!CacheFollowsFile` | "stays coherent across Spok processes" (`workspace-trust.ts:18`) | the stamp is taken after the read or the rename, and may be that of another process's file | 2 processes, 1 root, 2 writes, `Overlapping = TRUE` |
| `Missions!SavedBundleIsReadable` | "compiles, freezes, persists, reads, and migrates bounded receipts" (`mission-orchestration.test.ts:176`) | the persisted schema refuses an owner that is free text (`receipts.ts:195`, `validate.ts:504`) and a scope normalised to nothing (`receipts.ts:523-527`): saved, then not found | `Drafts <- MCTextDrafts`, `Unnamed = {"c"}` |
| `Missions!OneWriterPerScope` | "no two concurrent leaves own the same write surface" (`GROK_CLI_AND_AGENT_ORCHESTRATION_ROADMAP.md:104`) | overlap compares texts: the scope "." holds the whole tree and overlaps nothing (`receipts.ts:520`) | `Drafts <- MCRootDrafts`, `Limits = {2}` |
| `Workspaces!TrustIsConfirmed` | "Selection alone grants no authority" (`mobile-folder-picker.tsx:186`) | the tick survives closing and changing the folder: one picked after the tick is trusted by its selection alone (:58-62) | 2 folders, 2 sessions, 4 clicks, 1 run, 1 fault |

### Observations

Behaviours met while modelling that have no run of their own: no sentence of the
repository denies them, the same run already shows a worse one, or a model abstracts the
part that shows them. The properties above are stated so that they hold in spite of these.

Jobs and launches
1. The answer of the first POST of a job is lost after the ledger took it. If the boot
   read of the same client has recovered the queued record meanwhile and started its
   runner, the row of that working runner now says "Job was not started"
   (`background-runner.ts:120`). (`JobRunner` with `LostAnswers = TRUE`.)
2. `startProcess` is awaited outside `runHarness`'s `try` (`harness.ts:75`, `:182`). A
   fetch that rejects there leaves the session "starting", in spite of the comment at
   `harness.ts:440`, "Always clear live flags".
3. A DELETE that arrives while the POST still prepares finds nothing to stop
   (`session-start.ts:940`); the POST then spawns the agent, although the button is titled
   "Stop run and clear queue" (`prompt-composer.tsx:1283`).
4. `recoverGrokPromptArtifacts` is never called: the prompt file of a run whose runtime was
   restarted, or whose approval was withdrawn, stays.
5. A denied approval in a background job makes `runHarness` return code `null`, and the
   job is shown "completed" (`background-runner.ts:653-663`): `ApprovalEnds` of JobRunner. A
   failure of the summary after that shows it as failed (`OutcomeIsStable`).
6. A reload between the creation of a worktree and the write that links it leaves a
   worktree nothing refers to; the next attempt fails because the branch exists. That
   failure is also what makes `AtMostOneLaunch` true.
7. Two launches of one session: the 409 check comes before `await prepareGrokRun`
   (`session-start.ts:325`) and is not repeated before the spawn. The second
   `registerProcess` replaces the first entry, and no stop reaches that agent. An old close
   event can also delete the entry of a newer run (`recordProcessExit` files by session),
   and `pruneStaleProcesses` reports a gated run's exit before its handoff.
8. The snapshot is skipped when the rows equal the last snapshot, but POSTs in between
   changed the ledger: a job added and removed between two snapshots comes back at boot. So
   does a row that is cleared while its snapshot is under way: when the timer fires, the
   rows equal the snapshot before (`lastLedgerFingerprint`), nothing is queued, and the
   answer then files the stale body as the last one. `SettledOutcomesAgree` therefore
   speaks of rows that are on show.

Sessions on the client
9. A running client re-ingests what it reads back when its own cursor lags; a deleted session comes back when
   its load was pending; a prompt run in a shell is overwritten by the late body.
10. Replay folds every new thought into the latest one and differs in parents and result
    status from the live reducer it says it mirrors (`session-replay.ts:7-11`); an event for
    a demoted node is counted again; a segment of prose closed by a thought, or whose last
    chunk was dropped as noise, stays "running".
11. An approval request stays an issue for ever, also when granted; a failed test stays a
    failure after a retry that passed, and vanishes from the lane once demoted; a follow-up
    prompt in a session whose job has settled is shown as a mismatch. An approval that was
    interrupted reads "Approval granted", and a denied one leaves the session "running" until
    the next poll. The flow of the git panel knows no job, whatever the review says of it.
12. One composer serves all sessions: a switch of session sends a waiting prompt to,
    confirms an escalation in, or stops the session now active. After a stop and a new
    prompt the old run's `finally` clears the busy flag of the new one, so that two prompts
    overlap (the server answers 409) and stop no longer aborts. An aborted or denied run
    marks its prompt "success".

Changes panel
13. The dialog that asks before a discard names whatever is selected, so an event of the
    agent, which selects the file it changes, alters the file it is about while it is open.
    A refresh that brings fewer hunks leaves the hunk label beyond the last one. A click on
    a trace follows the id of its link, also when that id was pruned and its path is listed
    under another. The match by suffix can file a report of "index.ts" under
    "src/index.ts".

Files and screens
14. The settings dialog saves its whole *resolved* draft into one layer, project and
    managed values included, and two drafts overwrite each other. A patch `{enabled}` of an
    extension replaces the whole entry and forgets its `trust`: a hook denied under an
    untrusted plugin runs again once the plugin is trusted and the hook switched. Torn
    files of settings, preferences, schedules and worktrees read as empty, and the next
    save drops the rest. A missing or torn vault key makes all secrets unreadable.
15. A body that stalls after its headers leaves the detail of a mission loading for ever
    (`missions/client.ts:152` clears the timer when the headers arrive), although
    `enterprise-screen.tsx:882` says "never an infinite spinner". A work item whose
    milestone does not exist is shown nowhere, one of two milestones twice.
16. An aborted run fires its stop hooks twice (seen at the head of the loop: `harness.ts:283`
    and `:490`) or not at all (the read rejects, `:397`), although `harness.ts:488` says
    "Always fire stop when a run finishes".
17. A retry of an accepted turn carries the acceptance. A follow-up after a stop, or after a
    reload, may start while the agent of the turn before still works in the same worktree.
18. A denied browse answers without a path and the dialog throws on `cwd.trim()`.
19. A schedule's toggle writes the whole row it showed back, which rewinds its next run and
    revives a deleted one. A panel's late status overwrites a newer one of the poll. An
    artifact workflow resumed from a validated one shows "complete" before its own gate, also
    when it asks for more types of artifacts than that one had. The button "Check schedules" of
    a client whose boot failed fires a slot, and the job waits there unpumped.
20. A mission document that moves a running item to other paths frees the paths its lane
    still writes: the next scheduling call locks what the new bundle says
    (`missions/scheduler.ts:164`). So does a recompilation, without any "." in a scope.
21. The snapshot writes a queued row whose own first write then fails; the row shows "not
    started", its worktree looks free, and a follow-up is queued in it. A reload reads both
    back as queued (`background-runner.ts:59`). It takes two faults, as does a
    cancellation whose write is lost before a reload, so `OneTurnPerWorktree` is checked with one.
22. Hooks that a workspace's own `.spok/extensions.json` lists under `userHooks` are read as the
    user's and trusted without review (`preferences.ts:87-91`, `hooks.ts:151-157`).

## 8. Not modelled

- The caps of 100 rows in the store and the ledger, which drop rows by position; the
  Windows replace of the ledger and its backup (`jobs-fs.ts:388`); notifications; retention
  of terminal records: they need instances far larger than the protocols do.
- The probe for mere presence (`probeCliStatus`), the sizes and hashes of a probe's output.
- Permission rules, command profiles, risk scores, prompt enrichment, redaction, porcelain
  and manifest parsing: pure functions over text, which the models reduce to their verdict.
- Secrets, audit, local API guard, the desktop shell and the build scripts: no protocol.
- Channels, `ingestChannelEvent`, `rehydrateSessionFromEvents`, the mission dispatcher: no
  caller in the repository. The agent itself is external: it emits, writes and exits.
- The components of section 5 are not composed with JobRunner and SessionLaunch in one state
  space; where they meet, each has the other's steps as its environment (a job's stages in
  Enterprise, a run's ends in Composer and Workspaces, trust as a flag in JobRunner).

What would come next: inductive invariants for more of the single components of section 5,
whose properties are about one file and its writers (`CacheFollowsFile` of WorkspaceTrust,
`SavedIsInForce` of Settings).

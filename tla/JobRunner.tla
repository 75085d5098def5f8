------------------------------ MODULE JobRunner ------------------------------
(***************************************************************************)
(* The background job runner: lib/background-runner.ts in every open       *)
(* client, the durable job ledger of lib/automation/jobs-fs.ts behind the  *)
(* runtime, and the Git worktree each isolated job gets.                   *)
(*                                                                         *)
(* A client is a single JavaScript thread: a step below runs from one      *)
(* await to the next.  The client's state is one record per tab, so that a *)
(* reload can drop all of it; the runtime's state (the ledger file, the    *)
(* worktrees, the agent processes, the trusted roots) survives reloads.    *)
(***************************************************************************)
EXTENDS Integers, Sequences, FiniteSets

CONSTANTS
    Jobs,         \* job ids, numbered in the order sortQueue puts them in
    Linked,       \* the jobs enqueued with a worktreePath of an earlier turn
    Shared,       \* the jobs enqueued with isolate: false
    Tabs,         \* the clients that may be open (desktop window, phone, ...)
    Limits,       \* the fleet capacities the user may choose
    Revocable,    \* bound: the jobs whose workspace may lose its trust
    MaxReloads,   \* bound: client reloads and crashes
    MaxFaults,    \* bound: requests that fail for no reason of the model's
    LostAnswers,  \* may an answer be lost after the ledger file was written?
    SyncBacklog   \* bound: debounced snapshots waiting in the write chain

ASSUME JobsAssumption == Jobs \subseteq Nat /\ IsFiniteSet(Jobs)
ASSUME KindsAssumption == Linked \subseteq Jobs /\ Shared \subseteq Jobs /\ Revocable \subseteq Jobs
ASSUME TabsAssumption == IsFiniteSet(Tabs)
ASSUME LimitsAssumption == Limits \subseteq 1..8 /\ Limits # {}
ASSUME BoundsAssumption ==
    /\ MaxReloads \in Nat /\ MaxFaults \in Nat /\ SyncBacklog \in Nat
    /\ LostAnswers \in BOOLEAN

VARIABLES
    client,       \* each tab's module state and store
    ledger,       \* the jobs file: the last record written for each job
    worktrees,    \* the jobs whose managed worktree and branch exist
    trusted,      \* the jobs whose workspace is a trusted root
    used,         \* the job ids handed out so far
    launches,     \* how many times a job's agent was launched
    procs,        \* how many of those agent processes are alive
    reloads,      \* reloads so far
    faults        \* failed requests so far

runtime == <<ledger, worktrees, launches, procs>>
vars == <<client, ledger, worktrees, trusted, used, launches, procs, reloads,
          faults>>

-----------------------------------------------------------------------------
(* Job records.  "interrupted" is status failed with outcome interrupted.  *)

InFlight == {"starting", "running"}
Active == InFlight \cup {"queued"}
Terminal == {"completed", "failed", "cancelled", "skipped", "interrupted"}
Status == Active \cup Terminal \cup {"absent"}
Link == {"none", "worktree", "session"}

JobRecord == [st : Status, link : Link]
JobMap == [Jobs -> JobRecord]
Absent == [st |-> "absent", link |-> "none"]
NoJobs == [j \in Jobs |-> Absent]

NewJob(j) ==
    [st |-> "queued", link |-> IF j \in Linked THEN "worktree" ELSE "none"]

(* A write queued on ledgerWriteChain; "awaited" when a runner awaits it.  *)
NoJob == -1
SyncTask == [op |-> "sync", job |-> NoJob, awaited |-> FALSE]
NewTask(j) == [op |-> "new", job |-> j, awaited |-> FALSE]
CurrentTask(j) == [op |-> "current", job |-> j, awaited |-> FALSE]
AwaitedTask(j) == [op |-> "current", job |-> j, awaited |-> TRUE]
Task == [op : {"new"}, job : Jobs, awaited : {FALSE}]
        \cup [op : {"current"}, job : Jobs, awaited : BOOLEAN] \cup {SyncTask}

(* The request at the head of the chain, and how far it got.               *)
Reply == {"none", "sent", "ok", "error", "noop"}
Flight == [task : Task, body : JobMap, reply : Reply]
NoFlight == [task |-> SyncTask, body |-> NoJobs, reply |-> "none"]

(* Where a runner (runJob) is suspended.                                   *)
Suspended == {"idle", "persistStart", "policy", "worktreeAdd", "worktreeMade",
              "persistLink", "verify", "persistRun", "approval", "harness",
              "persistOutcome", "summary", "persistEnd"}

Client ==
    [boot : {"down", "fetching", "ready", "paused"},  \* ledgerInitialization
     recovered : JobMap,                     \* the boot answer on its way
     jobs : JobMap,                          \* store.automationJobs
     durable : SUBSET Jobs,                  \* durableJobIds
     pc : [Jobs -> Suspended],               \* startingJobs, and where
     aborted : SUBSET Jobs,                  \* aborts whose signal fired
     chain : Seq(Task),                      \* ledgerWriteChain
     flight : Flight,                        \* the write being executed
     lastPut : JobMap,                       \* lastLedgerFingerprint
     timer : BOOLEAN,                        \* ledgerSyncTimer is armed
     limit : Limits]                         \* automationMaxConcurrent

FreshClient(n) ==
    [boot |-> "down", recovered |-> NoJobs, jobs |-> NoJobs, durable |-> {},
     pc |-> [j \in Jobs |-> "idle"], aborted |-> {}, chain |-> <<>>,
     flight |-> NoFlight, lastPut |-> NoJobs, timer |-> FALSE, limit |-> n]

TypeOK ==
    /\ client \in [Tabs -> Client]
    /\ ledger \in JobMap
    /\ worktrees \subseteq Jobs
    /\ trusted \subseteq Jobs
    /\ used \subseteq Jobs
    /\ launches \in [Jobs -> Nat]
    /\ procs \in [Jobs -> Nat]
    /\ reloads \in Nat
    /\ faults \in Nat

Init ==
    /\ client \in [Tabs -> {FreshClient(n) : n \in Limits}]
    /\ ledger = NoJobs
    /\ worktrees = Linked
    /\ trusted = Jobs
    /\ used = {}
    /\ launches = [j \in Jobs |-> 0]
    /\ procs = [j \in Jobs |-> 0]
    /\ reloads = 0
    /\ faults = 0

-----------------------------------------------------------------------------
(* What the handlers do to a client record c.                              *)

(* Mutant: a patch that schedules no ledger sync.                          *)
PatchWithoutSync(c, j, s, l) ==
    [c EXCEPT !.jobs = IF @[j].st = "absent" THEN @
                       ELSE [@ EXCEPT ![j] = [st |-> s, link |-> l]]]

(* patchJobState: a job that is gone stays gone, yet the store changed.    *)
PatchLink(c, j, s, l) ==
    [c EXCEPT !.jobs = IF @[j].st = "absent" THEN @
                       ELSE [@ EXCEPT ![j] = [st |-> s, link |-> l]],
              !.timer = @ \/ c.boot = "ready"]
Patch(c, j, s) == PatchLink(c, j, s, c.jobs[j].link)

Push(c, task) == [c EXCEPT !.chain = Append(@, task)]
Suspend(c, j, p) == [c EXCEPT !.pc[j] = p]
Await(c, j, p) == Push(Suspend(c, j, p), AwaitedTask(j))

(* aborts.delete and startingJobs.delete                                   *)
Cleanup(c, j) == [c EXCEPT !.pc[j] = "idle", !.aborted = @ \ {j}]

(* ac.signal.aborted, or the user's cancellation seen in the store         *)
Cancelled(c, j) == j \in c.aborted \/ c.jobs[j].st = "cancelled"

QueuedJobs(c) == {j \in Jobs : c.jobs[j].st = "queued"}
InFlightJobs(c) == {j \in Jobs : c.jobs[j].st \in InFlight}

(* Mutant: one slot too many.                                              *)
PickOneTooMany(c) ==
    {j \in QueuedJobs(c) :
        Cardinality({k \in QueuedJobs(c) : k < j})
            <= c.limit - Cardinality(InFlightJobs(c))}

(* pickNextJobs: the first free slots of the sorted queue.                 *)
PickNextJobs(c) ==
    {j \in QueuedJobs(c) :
        Cardinality({k \in QueuedJobs(c) : k < j})
            < c.limit - Cardinality(InFlightJobs(c))}

(* runJob returns at once for a job that is starting or not yet durable.   *)
Startable(c) ==
    IF c.boot # "ready" THEN {}
    ELSE {j \in PickNextJobs(c) : c.pc[j] = "idle" /\ j \in c.durable}

Ascending(S) ==
    {f \in [1..Cardinality(S) -> S] :
        \A a, b \in 1..Cardinality(S) : a < b => f[a] < f[b]}

(* The synchronous part of runJob, for every job the pump picked.          *)
RunJobs(c, S, order) ==
    [c EXCEPT
        !.jobs = [j \in Jobs |-> IF j \in S THEN [@[j] EXCEPT !.st = "starting"]
                                 ELSE @[j]],
        !.pc = [j \in Jobs |-> IF j \in S THEN "persistStart" ELSE @[j]],
        !.chain = @ \o [i \in DOMAIN order |-> AwaitedTask(order[i])],
        !.timer = @ \/ S # {}]

Become(t, c) == client' = [client EXCEPT ![t] = c]

(* Tab t becomes c, and the handler ends with pumpQueue().                 *)
BecomePumped(t, c) ==
    \E order \in Ascending(Startable(c)) : Become(t, RunJobs(c, Startable(c), order))

-----------------------------------------------------------------------------
(* The user                                                                *)

Enqueue(t, j) ==
    /\ j \notin used
    /\ used' = used \cup {j}
    /\ Become(t, Push([client[t] EXCEPT !.jobs[j] = NewJob(j),
                                        !.timer = @ \/ client[t].boot = "ready"],
                      NewTask(j)))
    /\ UNCHANGED <<runtime, trusted, reloads, faults>>

Cancel(t, j) ==
    LET c == client[t]
        a == [c EXCEPT !.aborted = IF c.pc[j] = "idle" THEN @ ELSE @ \cup {j}]
    IN  /\ c.jobs[j].st \in Active
        /\ BecomePumped(t, Push(Patch(a, j, "cancelled"), CurrentTask(j)))
        /\ UNCHANGED <<runtime, trusted, used, reloads, faults>>

ClearFinished(t) ==
    LET c == client[t]
        done == {j \in Jobs : c.jobs[j].st \in Terminal}
    IN  /\ done # {}
        /\ Become(t, [c EXCEPT
                !.jobs = [j \in Jobs |-> IF j \in done THEN Absent ELSE @[j]],
                !.timer = @ \/ c.boot = "ready"])
        /\ UNCHANGED <<runtime, trusted, used, reloads, faults>>

SetLimit(t, n) ==
    /\ n # client[t].limit
    /\ BecomePumped(t, [client[t] EXCEPT !.limit = n])
    /\ UNCHANGED <<runtime, trusted, used, reloads, faults>>

(* The React effect that pumps after every change of automationJobs.       *)
EffectPump(t) ==
    /\ Startable(client[t]) # {}
    /\ BecomePumped(t, client[t])
    /\ UNCHANGED <<runtime, trusted, used, reloads, faults>>

RevokeTrust(j) ==
    /\ j \in trusted \cap Revocable
    /\ trusted' = trusted \ {j}
    /\ UNCHANGED <<client, runtime, used, reloads, faults>>

-----------------------------------------------------------------------------
(* Boot: the ledger is read, and reconciled, once per client start.        *)

Reconciled(led) ==
    [j \in Jobs |->
        IF led[j].st \in InFlight THEN [led[j] EXCEPT !.st = "interrupted"]
        ELSE IF led[j].st = "queued" /\ j \notin trusted
             THEN [led[j] EXCEPT !.st = "failed"]
        ELSE led[j]]

BootGet(t) ==
    /\ client[t].boot = "down"
    /\ ledger' = Reconciled(ledger)
    /\ Become(t, [client[t] EXCEPT !.boot = "fetching", !.recovered = ledger'])
    /\ UNCHANGED <<worktrees, launches, procs, trusted, used, reloads, faults>>

BootMerge(t) ==
    LET c == client[t]
        merged == [j \in Jobs |-> IF c.jobs[j].st = "absent" THEN c.recovered[j]
                                  ELSE c.jobs[j]]
    IN  /\ c.boot = "fetching"
        /\ BecomePumped(t, [c EXCEPT
                !.boot = "ready",
                !.jobs = merged,
                !.durable = @ \cup {j \in Jobs : c.recovered[j].st = "queued"},
                !.lastPut = c.recovered,
                !.recovered = NoJobs,
                !.timer = merged # c.recovered])
        /\ UNCHANGED <<runtime, trusted, used, reloads, faults>>

(* The boot request fails: this client's runner stays paused.              *)
BootFail(t) ==
    /\ client[t].boot = "fetching"
    /\ faults < MaxFaults
    /\ faults' = faults + 1
    /\ Become(t, [client[t] EXCEPT !.boot = "paused", !.recovered = NoJobs])
    /\ UNCHANGED <<runtime, trusted, used, reloads>>

-----------------------------------------------------------------------------
(* The ledger write chain: one write at a time, each reads the store when  *)
(* it starts.                                                              *)

TimerFires(t) ==
    LET c == client[t]
        off == [c EXCEPT !.timer = FALSE]
        waiting == {i \in DOMAIN c.chain : c.chain[i] = SyncTask}
    IN  /\ c.timer
        /\ IF c.jobs = c.lastPut THEN Become(t, off)
           ELSE /\ Cardinality(waiting) < SyncBacklog
                /\ Become(t, Push(off, SyncTask))
        /\ UNCHANGED <<runtime, trusted, used, reloads, faults>>

(* The body a task sends, or no body at all.                               *)
Needed(c, task) ==
    CASE task.op = "new" -> c.jobs[task.job].st = "queued"
      [] task.op = "current" -> c.jobs[task.job].st # "absent"
      [] task.op = "sync" -> c.jobs # c.lastPut

Body(c, task) ==
    IF task.op = "sync" THEN c.jobs
    ELSE [j \in Jobs |-> IF j = task.job THEN c.jobs[j] ELSE Absent]

WriteStarts(t) ==
    LET c == client[t]
        task == Head(c.chain)
    IN  /\ c.chain # <<>>
        /\ c.flight.reply = "none"
        /\ Become(t, [c EXCEPT
                !.chain = Tail(@),
                !.flight = IF Needed(c, task)
                           THEN [task |-> task, body |-> Body(c, task), reply |-> "sent"]
                           ELSE [task |-> task, body |-> NoJobs, reply |-> "noop"]])
        /\ UNCHANGED <<runtime, trusted, used, reloads, faults>>

(* upsertAutomationJob and replaceAutomationJobs                           *)
Trusts(body) == \A j \in Jobs : body[j].st \in Active => j \in trusted

Written(f) ==
    IF f.task.op = "sync" THEN f.body
    ELSE [ledger EXCEPT ![f.task.job] = f.body[f.task.job]]

Answer(t, r) == Become(t, [client[t] EXCEPT !.flight.reply = r])

ServerWrites(t) ==
    LET f == client[t].flight
    IN  /\ f.reply = "sent"
        /\ IF Trusts(f.body) THEN ledger' = Written(f) /\ Answer(t, "ok")
           ELSE UNCHANGED ledger /\ Answer(t, "error")
        /\ UNCHANGED <<worktrees, launches, procs, trusted, used, reloads, faults>>

(* The request fails before the file is written, or its answer is lost.    *)
WriteFault(t) ==
    LET f == client[t].flight
    IN  /\ f.reply = "sent"
        /\ faults < MaxFaults
        /\ faults' = faults + 1
        /\ \/ UNCHANGED ledger
           \/ LostAnswers /\ Trusts(f.body) /\ ledger' = Written(f)
        /\ Answer(t, "error")
        /\ UNCHANGED <<worktrees, launches, procs, trusted, used, reloads>>

(* Mutant: a failed write is never taken off the chain.                    *)
SettleUnlessFailed(c) ==
    IF c.flight.reply = "error" THEN c ELSE [c EXCEPT !.flight = NoFlight]

Answered(c) == c.flight.reply \in {"ok", "error", "noop"}
Settle(c) == [c EXCEPT !.flight = NoFlight]

(* Mutant: a persisted job is not remembered as durable.                   *)
NewJobForgotten(t) ==
    LET c == Settle(client[t])
        j == client[t].flight.task.job
    IN  /\ Answered(client[t]) /\ client[t].flight.task.op = "new"
        /\ IF client[t].flight.reply = "error" THEN Become(t, Patch(c, j, "failed"))
           ELSE BecomePumped(t, c)
        /\ UNCHANGED <<runtime, trusted, used, reloads, faults>>

(* persistNewJobBeforeRun after its write                                  *)
NewJobPersisted(t) ==
    LET c == Settle(client[t])
        j == client[t].flight.task.job
        reply == client[t].flight.reply
    IN  /\ Answered(client[t]) /\ client[t].flight.task.op = "new"
        /\ \/ /\ reply = "error"
              /\ Become(t, Patch(c, j, "failed"))
           \/ /\ reply = "ok"
              /\ BecomePumped(t, [c EXCEPT !.durable = @ \cup {j}])
           \/ /\ reply = "noop"
              /\ BecomePumped(t, c)
        /\ UNCHANGED <<runtime, trusted, used, reloads, faults>>

(* void persistCurrentJobNow: nobody looks at the answer                   *)
UnawaitedPersisted(t) ==
    LET task == client[t].flight.task
    IN  /\ Answered(client[t]) /\ task.op = "current" /\ ~task.awaited
        /\ Become(t, Settle(client[t]))
        /\ UNCHANGED <<runtime, trusted, used, reloads, faults>>

SyncPersisted(t) ==
    LET c == client[t]
    IN  /\ Answered(c) /\ c.flight.task.op = "sync"
        /\ \/ c.flight.reply = "ok" /\ Become(t, [Settle(c) EXCEPT !.lastPut = c.flight.body])
           \/ c.flight.reply = "error" /\ Become(t, [Settle(c) EXCEPT !.timer = TRUE])
           \/ c.flight.reply = "noop" /\ Become(t, Settle(c))
        /\ UNCHANGED <<runtime, trusted, used, reloads, faults>>

-----------------------------------------------------------------------------
(* The runner of job j in tab t, from await to await                       *)

(* The write runner j awaits was answered while it is suspended at p.      *)
Resumes(t, j, p) ==
    /\ Answered(client[t])
    /\ client[t].flight.task = AwaitedTask(j)
    /\ client[t].pc[j] = p

WriteFailed(t) == client[t].flight.reply = "error"

(* The runner gives up: failed, a last unawaited write, and the pump.      *)
GiveUp(t, j, c) ==
    BecomePumped(t, Push(Cleanup(Patch(c, j, "failed"), j), CurrentTask(j)))

StartPersisted(t, j) ==
    LET c == Settle(client[t])
    IN  /\ Resumes(t, j, "persistStart")
        /\ \/ WriteFailed(t) /\ GiveUp(t, j, c)
           \/ ~WriteFailed(t) /\ Cancelled(c, j) /\ BecomePumped(t, Cleanup(c, j))
           \/ /\ ~WriteFailed(t) /\ ~Cancelled(c, j)
              /\ IF j \in Shared THEN Become(t, Await(Patch(c, j, "skipped"), j, "persistEnd"))
                 ELSE Become(t, Suspend(c, j, "policy"))
        /\ UNCHANGED <<runtime, trusted, used, reloads, faults>>

(* Mutant: a failed preparation leaves the row as it was.                  *)
AbandonSilently(t, j, c) ==
    IF j \in c.aborted THEN BecomePumped(t, Cleanup(c, j))
    ELSE Become(t, Await(c, j, "persistEnd"))

(* The catch of the preparation block                                      *)
Abandon(t, j, c) ==
    IF j \in c.aborted THEN BecomePumped(t, Cleanup(c, j))
    ELSE Become(t, Await(Patch(c, j, "failed"), j, "persistEnd"))

(* checkPolicy on the source checkout, and its Git status                  *)
PolicyDecides(t, j) ==
    /\ client[t].pc[j] = "policy"
    /\ \/ /\ j \in trusted
          /\ Become(t, Suspend(client[t], j,
                        IF client[t].jobs[j].link = "none" THEN "worktreeAdd" ELSE "verify"))
       \/ Abandon(t, j, client[t])
    /\ UNCHANGED <<runtime, trusted, used, reloads, faults>>

(* Mutant: a worktree that is already there is used again.                 *)
WorktreeReuse(t, j) ==
    /\ client[t].pc[j] = "worktreeAdd"
    /\ worktrees' = worktrees \cup {j}
    /\ Become(t, Suspend(client[t], j, "worktreeMade"))
    /\ UNCHANGED <<ledger, launches, procs, trusted, used, reloads, faults>>

(* worktreeAdd: refuses a path or a branch that is already there           *)
WorktreeAdd(t, j) ==
    /\ client[t].pc[j] = "worktreeAdd"
    /\ \/ /\ j \notin worktrees
          /\ worktrees' = worktrees \cup {j}
          /\ Become(t, Suspend(client[t], j, "worktreeMade"))
       \/ /\ UNCHANGED worktrees
          /\ Abandon(t, j, client[t])
    /\ UNCHANGED <<ledger, launches, procs, trusted, used, reloads, faults>>

(* onCreated: link the worktree to the job and persist the link            *)
WorktreeMade(t, j) ==
    LET c == client[t]
    IN  /\ c.pc[j] = "worktreeMade"
        /\ \/ Become(t, Await(PatchLink(c, j, c.jobs[j].st, "worktree"), j, "persistLink"))
           \/ Abandon(t, j, c)
        /\ UNCHANGED <<runtime, trusted, used, reloads, faults>>

LinkPersisted(t, j) ==
    LET c == Settle(client[t])
    IN  /\ Resumes(t, j, "persistLink")
        /\ IF WriteFailed(t) THEN Abandon(t, j, c) ELSE Become(t, Suspend(c, j, "verify"))
        /\ UNCHANGED <<runtime, trusted, used, reloads, faults>>

(* One more agent of job j runs.                                           *)
Launched(j) ==
    /\ launches' = [launches EXCEPT ![j] = @ + 1]
    /\ procs' = [procs EXCEPT ![j] = @ + 1]

(* Mutant: the agent is launched before the linkage is durable.            *)
VerifiedLaunch(t, j) ==
    LET c == client[t]
    IN  /\ c.pc[j] = "verify" /\ ~Cancelled(c, j)
        /\ Become(t, Suspend(PatchLink(c, j, "running", "session"), j, "harness"))
        /\ Launched(j)
        /\ UNCHANGED <<ledger, worktrees, trusted, used, reloads, faults>>

(* The worktree is verified (or not); then the session is created.         *)
Verified(t, j) ==
    LET c == client[t]
    IN  /\ c.pc[j] = "verify"
        /\ \/ Abandon(t, j, c)
           \/ Cancelled(c, j) /\ BecomePumped(t, Cleanup(c, j))
           \/ ~Cancelled(c, j) /\ Become(t, Await(PatchLink(c, j, "running", "session"), j, "persistRun"))
        /\ UNCHANGED <<runtime, trusted, used, reloads, faults>>

(* Mutant: no look at the cancellation after the last await.               *)
RunUnchecked(t, j) ==
    LET c == Settle(client[t])
    IN  /\ Resumes(t, j, "persistRun")
        /\ \/ WriteFailed(t) /\ GiveUp(t, j, c) /\ UNCHANGED <<launches, procs>>
           \/ ~WriteFailed(t) /\ Become(t, Suspend(c, j, "harness")) /\ Launched(j)
        /\ UNCHANGED <<ledger, worktrees, trusted, used, reloads, faults>>

(* runHarness is called only after the linkage is durable.  The policy may *)
(* ask: then nothing is launched before the user decides in the modal.     *)
RunPersisted(t, j) ==
    LET c == Settle(client[t])
    IN  /\ Resumes(t, j, "persistRun")
        /\ \/ /\ \/ WriteFailed(t) /\ GiveUp(t, j, c)
                 \/ ~WriteFailed(t) /\ Cancelled(c, j) /\ BecomePumped(t, Cleanup(c, j))
                 \/ ~WriteFailed(t) /\ ~Cancelled(c, j) /\ Become(t, Suspend(c, j, "approval"))
              /\ UNCHANGED <<launches, procs>>
           \/ /\ ~WriteFailed(t) /\ ~Cancelled(c, j)
              /\ Become(t, Suspend(c, j, "harness"))
              /\ Launched(j)
        /\ UNCHANGED <<ledger, worktrees, trusted, used, reloads, faults>>

(* The user allows the run, and it is posted again with the token.         *)
ApprovalGranted(t, j) ==
    /\ client[t].pc[j] = "approval" /\ j \notin client[t].aborted
    /\ Become(t, Suspend(client[t], j, "harness"))
    /\ Launched(j)
    /\ UNCHANGED <<ledger, worktrees, trusted, used, reloads, faults>>

(* Mutant: the row takes the status the session ended with.               *)
StatusKept(t, j, c) ==
    \E s \in {"completed", "error", "stopped"} :
        Become(t, Await(Patch(c, j, s), j, "persistOutcome"))

(* Mutant: the exit code decides, whatever the user cancelled.             *)
ExitDecides(t, j, c) ==
    \E s \in {"completed", "failed"} : Become(t, Await(Patch(c, j, s), j, "persistOutcome"))

(* The catch around runHarness and all that follows it                     *)
Catch(t, j, c) ==
    Become(t, Await(Patch(c, j, IF j \in c.aborted THEN "cancelled" ELSE "failed"),
                    j, "persistEnd"))

(* runHarness returned and its outcome is shown, or it threw.              *)
Outcome(t, j, c) ==
    \/ \E s \in (IF j \in c.aborted THEN {"cancelled"} ELSE {"completed", "failed"}) :
          Become(t, Await(Patch(c, j, s), j, "persistOutcome"))
    \/ Catch(t, j, c)

(* The modal is denied, fails, or is withdrawn by the abort.               *)
ApprovalEnds(t, j) ==
    /\ client[t].pc[j] = "approval"
    /\ Outcome(t, j, client[t])
    /\ UNCHANGED <<runtime, trusted, used, reloads, faults>>

(* runHarness returns or throws: its process is over.                      *)
HarnessReturns(t, j) ==
    /\ client[t].pc[j] = "harness"
    /\ procs' = [procs EXCEPT ![j] = @ - 1]
    /\ Outcome(t, j, client[t])
    /\ UNCHANGED <<ledger, worktrees, launches, trusted, used, reloads, faults>>

(* The outcome was saved, or not; the lanes of the session, when it is     *)
(* still there, are summarised by a module that is loaded for it.          *)
OutcomePersisted(t, j) ==
    LET c == Settle(client[t])
    IN  /\ Resumes(t, j, "persistOutcome")
        /\ BecomePumped(t, Cleanup(c, j)) \/ Become(t, Suspend(c, j, "summary"))
        /\ UNCHANGED <<runtime, trusted, used, reloads, faults>>

(* What throws here is caught as a failure of the run.                     *)
Summarised(t, j) ==
    /\ client[t].pc[j] = "summary"
    /\ BecomePumped(t, Cleanup(client[t], j)) \/ Catch(t, j, client[t])
    /\ UNCHANGED <<runtime, trusted, used, reloads, faults>>

EndPersisted(t, j) ==
    /\ Resumes(t, j, "persistEnd")
    /\ BecomePumped(t, Cleanup(Settle(client[t]), j))
    /\ UNCHANGED <<runtime, trusted, used, reloads, faults>>

-----------------------------------------------------------------------------
(* A tab reloads or crashes.  Its request may have reached the runtime; an *)
(* agent process it launched stays with the runtime.                       *)
Reload(t) ==
    LET f == client[t].flight
    IN  /\ client[t] # FreshClient(client[t].limit)
        /\ reloads < MaxReloads
        /\ reloads' = reloads + 1
        /\ Become(t, FreshClient(client[t].limit))
        /\ \/ UNCHANGED ledger
           \/ f.reply = "sent" /\ Trusts(f.body) /\ ledger' = Written(f)
        /\ UNCHANGED <<worktrees, launches, procs, trusted, used, faults>>

(* The clients that follow a running agent of job j                        *)
Followers(j) == {t \in Tabs : client[t].pc[j] = "harness"}

(* A process no client follows any more ends by itself.                    *)
OrphanExits(j) ==
    /\ procs[j] > Cardinality(Followers(j))
    /\ procs' = [procs EXCEPT ![j] = @ - 1]
    /\ UNCHANGED <<client, ledger, worktrees, launches, trusted, used, reloads, faults>>

-----------------------------------------------------------------------------
RunnerStep(t, j) ==
    \/ StartPersisted(t, j) \/ PolicyDecides(t, j) \/ WorktreeAdd(t, j)
    \/ WorktreeMade(t, j) \/ LinkPersisted(t, j) \/ Verified(t, j)
    \/ RunPersisted(t, j) \/ HarnessReturns(t, j) \/ OutcomePersisted(t, j)
    \/ Summarised(t, j) \/ EndPersisted(t, j)
    \/ j \in client[t].aborted /\ ApprovalEnds(t, j)

(* What the user decides in the modal, which no timeout closes             *)
UserDecides(t, j) == ApprovalGranted(t, j) \/ ApprovalEnds(t, j)

ChainStep(t) ==
    \/ WriteStarts(t) \/ ServerWrites(t)
    \/ NewJobPersisted(t) \/ UnawaitedPersisted(t) \/ SyncPersisted(t)

Boot(t) == BootGet(t) \/ BootMerge(t)

Next ==
    \/ \E t \in Tabs :
        \/ Boot(t) \/ BootFail(t) \/ Reload(t)
        \/ ClearFinished(t) \/ EffectPump(t) \/ TimerFires(t)
        \/ ChainStep(t) \/ WriteFault(t)
        \/ \E n \in Limits : SetLimit(t, n)
        \/ \E j \in Jobs : Enqueue(t, j) \/ Cancel(t, j) \/ RunnerStep(t, j) \/ UserDecides(t, j)
    \/ \E j \in Jobs : RevokeTrust(j) \/ OrphanExits(j)

Spec == Init /\ [][Next]_vars

(* Timers fire, promises settle, the runtime answers and agents end; no    *)
(* fairness for the user, whom a modal may wait for without end, for       *)
(* faults, or for reloads.                                                 *)
Fairness ==
    /\ \A t \in Tabs :
        /\ WF_vars(Boot(t)) /\ WF_vars(EffectPump(t)) /\ WF_vars(TimerFires(t))
        /\ WF_vars(ChainStep(t))
        /\ \A j \in Jobs : WF_vars(RunnerStep(t, j))
    /\ \A j \in Jobs : WF_vars(OrphanExits(j))

FairSpec == Spec /\ Fairness

-----------------------------------------------------------------------------
(* Properties                                                              *)

(* A runner enters runHarness in this step.                                *)
LaunchStep(t, j) == client[t].pc[j] # "harness" /\ client'[t].pc[j] = "harness"

(* An isolated job's agent is launched at most once, whatever is reloaded, *)
(* retried or opened beside it: the ledger decides for one client, and the *)
(* worktree that can be created only once decides between two of them.     *)
AtMostOneLaunch == \A j \in Jobs \ Linked : launches[j] <= 1

Preparing == {"persistStart", "policy", "worktreeAdd", "worktreeMade", "persistLink", "verify"}

RowMatches(c, j) ==
    /\ c.jobs[j].st = "starting" => c.pc[j] \in Preparing
    /\ c.jobs[j].st = "running" => c.pc[j] \in {"persistRun", "approval", "harness"}
    /\ c.jobs[j].st = "queued" => c.pc[j] = "idle"

(* A row that shows starting or running has a live runner at the matching  *)
(* await, so every failure path of runJob leaves a terminal row behind.    *)
RowsMatchRunners == \A t \in Tabs, j \in Jobs : RowMatches(client[t], j)

NoCancelledLaunch ==
    \A t \in Tabs, j \in Jobs : LaunchStep(t, j) => ~Cancelled(client[t], j)

(* A cancelled job is never launched by that client, not even when its row *)
(* was cleared while the runner was still unwinding.                       *)
CancelStopsLaunch == [][NoCancelledLaunch]_vars

(* An outcome once shown is final, with two exceptions that both end as a   *)
(* failure: a cancellation that meets a failing ledger write, and a        *)
(* completed run whose lanes cannot be summarised before its runner is     *)
(* done.  No outcome ever turns into a success (while answers arrive).     *)
OutcomeIsStable ==
    [][\A t \in Tabs, j \in Jobs :
        LET before == client[t].jobs[j].st
            after == client'[t].jobs[j].st
        IN  before \in Terminal =>
                \/ after \in {before, "absent"}
                \/ before = "cancelled" /\ after = "failed"
                \/ before = "completed" /\ after = "failed" /\ client[t].pc[j] = "summary"]_vars

(* pumpQueue never starts a job beyond the fleet capacity, also when it is *)
(* lowered while jobs run and however many handlers pump in between.       *)
CapacityRespected ==
    [][\A t \in Tabs :
        (\E j \in Jobs : client[t].pc[j] = "idle" /\ client'[t].pc[j] = "persistStart")
            => Cardinality(InFlightJobs(client'[t])) <= client'[t].limit]_vars

(* The inductive invariant behind AtMostOneLaunch, RowsMatchRunners and     *)
(* TypeOK, for any number of jobs, clients, reloads and faults.            *)

Holding == {"worktreeMade", "persistLink", "verify", "persistRun", "approval"}

(* A record that may still start carries no link but the one it was        *)
(* enqueued with.                                                          *)
Startless(r, j) == r.st = "queued" /\ j \notin Linked => r.link = "none"

ClientInv(c) ==
    /\ c.boot # "ready" => c.aborted = {} /\ \A j \in Jobs : c.pc[j] = "idle"
    /\ \A j \in Jobs :
        /\ RowMatches(c, j)
        /\ j \in c.aborted => c.jobs[j].st \notin Active
        /\ c.pc[j] = "approval" /\ c.jobs[j].st = "cancelled" => j \in c.aborted
        /\ Startless(c.jobs[j], j) /\ Startless(c.recovered[j], j) /\ Startless(c.flight.body[j], j)
        /\ c.recovered[j].st \notin InFlight
        /\ j \notin Linked /\ c.pc[j] \in {"persistStart", "policy", "worktreeAdd"}
                => c.jobs[j].link = "none"

(* Job j has left no trace in a client.                                    *)
Unknown(c, j) ==
    /\ c.jobs[j].st = "absent" /\ c.recovered[j].st = "absent"
    /\ c.flight.body[j].st = "absent"
    /\ c.pc[j] = "idle" /\ j \notin c.aborted

(* The worktree of an isolated job is a token: who made it holds it until  *)
(* the launch, and it is made once.                                        *)
WorktreeIsToken ==
    \A j \in Jobs \ Linked :
        /\ \A t, u \in Tabs :
            client[t].pc[j] \in Holding /\ client[u].pc[j] \in Holding => t = u
        /\ \A t \in Tabs :
            client[t].pc[j] \in Holding => j \in worktrees /\ launches[j] = 0
        /\ launches[j] <= 1
        /\ launches[j] > 0 => j \in worktrees

IInv ==
    /\ TypeOK
    /\ \A t \in Tabs : ClientInv(client[t])
    /\ \A j \in Jobs : Startless(ledger[j], j)
    /\ \A j \in Jobs \ used : ledger[j].st = "absent" /\ \A t \in Tabs : Unknown(client[t], j)
    /\ WorktreeIsToken
    /\ \A j \in Jobs : Cardinality(Followers(j)) <= procs[j]

-----------------------------------------------------------------------------
(* The inductive invariant behind OutcomeIsStable, while answers arrive.   *)

(* The first write of job j is still to be sent, or may still fail.        *)
Queueing(c, j) ==
    \/ \E i \in DOMAIN c.chain : c.chain[i] = NewTask(j)
    \/ c.flight.task = NewTask(j) /\ c.flight.reply \in {"sent", "error"}

(* It comes before every other write of the job, and there is one of it.   *)
FirstIsNew(c, j) ==
    \A a \in DOMAIN c.chain : c.chain[a] = NewTask(j) =>
        /\ \A b \in DOMAIN c.chain : c.chain[b].job = j => a <= b
        /\ c.flight.task.job # j

(* Until then the job has not been started by this client.                 *)
Undecided(c, j) == Queueing(c, j) =>
    /\ c.pc[j] = "idle" /\ j \notin c.durable
    /\ c.jobs[j].st \in {"queued", "cancelled", "absent"}
    /\ c.recovered[j].st = "absent"

(* The runner has shown what its run returned, and is not done yet.        *)
Showing == {"persistOutcome", "summary"}

(* A runner whose row is over was cancelled, and knows it, or shows what   *)
(* its run returned.                                                       *)
Unwinds(c, j) ==
    /\ c.pc[j] \notin Showing \cup {"idle", "persistEnd"} /\ c.jobs[j].st \notin Active =>
        c.jobs[j].st \in {"cancelled", "absent"} /\ j \in c.aborted
    /\ c.pc[j] \in Showing =>
        c.jobs[j].st \in (IF j \in c.aborted THEN {"cancelled", "absent"}
                          ELSE {"completed", "failed", "absent"})

(* Before the ledger was read no snapshot is armed, queued or sent, and    *)
(* what was read waits for the merge only.                                 *)
Boots(c) ==
    /\ c.boot # "ready" =>
        /\ ~c.timer
        /\ c.flight.task = SyncTask => c.flight.reply = "none"
        /\ \A i \in DOMAIN c.chain : c.chain[i] # SyncTask
    /\ c.boot # "fetching" => \A j \in Jobs : c.recovered[j].st = "absent"

(* Nothing is queued, sent or known to be durable of a job nobody created. *)
Untouched(c, j) ==
    /\ j \notin c.durable /\ c.flight.task.job # j
    /\ \A i \in DOMAIN c.chain : c.chain[i].job # j

(* A client that has not asked for the ledger is alone to know the job     *)
(* whose first write it still owes.                                        *)
Secret(t, j) == client[t].boot = "down" /\ Queueing(client[t], j) =>
    /\ ledger[j].st = "absent"
    /\ client[t].flight.task.job # j => client[t].flight.body[j].st = "absent"
    /\ \A u \in Tabs \ {t} : Unknown(client[u], j)

OutcomeInv ==
    /\ IInv
    /\ \A t \in Tabs : Boots(client[t])
    /\ \A t \in Tabs, j \in Jobs :
        /\ FirstIsNew(client[t], j) /\ Undecided(client[t], j) /\ Unwinds(client[t], j)
        /\ Secret(t, j)
        /\ j \notin used => Untouched(client[t], j)

-----------------------------------------------------------------------------
(* Each job as the outside sees it                                         *)
PhaseOf(j) ==
    CASE j \notin used -> "unknown"
      [] j \in used /\ launches[j] = 0 -> "waiting"
      [] launches[j] > 0 /\ procs[j] > 0 -> "running"
      [] launches[j] > 0 /\ procs[j] = 0 -> "over"

RecordOf(r) ==
    CASE r.st = "absent" -> "none"
      [] r.st = "queued" -> "startable"
      [] r = [st |-> "running", link |-> "session"] -> "linked"
      [] OTHER -> "kept"

Lifecycle == INSTANCE JobLifecycle
    WITH phase <- [j \in Jobs |-> PhaseOf(j)],
         record <- [j \in Jobs |-> RecordOf(ledger[j])]

(* The inductive invariant behind ImplementsLifecycle, for one client and   *)
(* while answers arrive.                                                   *)

Linkage == [st |-> "running", link |-> "session"]
Awaiting == {"persistStart", "persistLink", "persistRun", "persistOutcome", "persistEnd"}
Underway == Suspended \ (Showing \cup {"idle", "harness", "persistEnd"})

(* A runner that awaits a write has one write on its way, others have none. *)
Waits(c, j) ==
    /\ c.flight.task = AwaitedTask(j) => c.pc[j] \in Awaiting
    /\ \A a \in DOMAIN c.chain : c.chain[a] = AwaitedTask(j) =>
        /\ c.pc[j] \in Awaiting /\ c.flight.task # AwaitedTask(j)
        /\ \A b \in DOMAIN c.chain : c.chain[b] = AwaitedTask(j) => a = b

(* The write a runner awaits before the launch carries the linkage; r is   *)
(* what the ledger says of the job.                                        *)
LinksFirst(c, j, r) == c.pc[j] = "persistRun" =>
    /\ c.jobs[j].st \in Active => c.jobs[j] = Linkage
    /\ j \notin c.aborted /\ c.flight.task = AwaitedTask(j) =>
        /\ c.flight.reply # "noop"
        /\ c.flight.reply = "sent" => c.flight.body[j] = Linkage
        /\ c.flight.reply = "ok" => r = Linkage

(* The linkage stays while the modal waits: no write under way lacks it.    *)
StaysLinked(c, j, r) == c.pc[j] = "approval" /\ j \notin c.aborted =>
    /\ r = Linkage /\ c.jobs[j] = Linkage
    /\ \/ c.flight.reply = "sent" /\ c.flight.task.job = j
       \/ c.flight.reply \in {"sent", "ok"} /\ c.flight.task = SyncTask
       => c.flight.body[j] = Linkage
    /\ c.flight.body[j].st # "queued"

(* A job that was launched is startable nowhere.                           *)
Spent(c, j, r) ==
    /\ c.pc[j] \notin Underway
    /\ "queued" \notin {r.st, c.jobs[j].st, c.recovered[j].st, c.flight.body[j].st}

Lives(c, j, r, n) ==
    /\ Waits(c, j)
    /\ LinksFirst(c, j, r)
    /\ n > 0 => Spent(c, j, r)

LifeInv ==
    /\ OutcomeInv
    /\ \A t \in Tabs, j \in Jobs :
        Lives(client[t], j, ledger[j], launches[j]) /\ StaysLinked(client[t], j, ledger[j])
    /\ \A j \in Jobs \ used : launches[j] = 0

(* The runner of one client, with its write chain, timer, failed requests  *)
(* and reloads, implements the lifecycle: "do not launch a process until   *)
(* job/session/worktree linkage is durable" (background-runner.ts:599),    *)
(* one launch per job, and no record that a restart would start again.     *)
ImplementsLifecycle == Lifecycle!Spec

(* With nothing left to write, no timer armed and no write under way.      *)
Settled(t) ==
    /\ client[t].boot = "ready" /\ ~client[t].timer
    /\ client[t].chain = <<>> /\ client[t].flight.reply = "none"

(* Once a client's writes have settled, the ledger shows every launched    *)
(* job on show exactly as the store does: no outcome is lost to a failed,  *)
(* overtaken or forgotten write, whatever else was written meanwhile       *)
(* (one client).                                                           *)
SettledOutcomesAgree ==
    \A t \in Tabs, j \in Jobs :
        Settled(t) /\ launches[j] > 0 /\ client[t].jobs[j].st # "absent"
            => ledger[j] = client[t].jobs[j]

(* The inductive invariant behind SettledOutcomesAgree, for one client and  *)
(* while answers arrive.                                                   *)

(* How far a record got: not linked to a session, running there, or over;  *)
(* what was completed may still turn into a failure.                       *)
Level(q) ==
    CASE q.st = "absent" \/ q.link # "session" -> 0
      [] q.st = "running" /\ q.link = "session" -> 1
      [] q.st = "completed" /\ q.link = "session" -> 2
      [] OTHER -> 3

(* A snapshot is under way.                                                *)
Snapping(c) == c.flight.task = SyncTask /\ c.flight.reply \in {"sent", "ok", "error"}

(* A row only moves on while it is there, so no copy of it is ahead of it,  *)
(* and the snapshot under way is not older than the last one.              *)
Ordered(c, j, r) ==
    /\ \A q \in {r, c.jobs[j], c.recovered[j], c.flight.body[j]} : q.st = "queued" => Level(q) = 0
    /\ c.pc[j] \in Preparing => Level(c.jobs[j]) = 0
    /\ c.boot # "ready" => Level(c.jobs[j]) = 0 /\ Level(c.flight.body[j]) = 0
    /\ c.boot = "fetching" => Level(r) <= Level(c.recovered[j])
    /\ c.jobs[j].st # "absent" =>
        \A q \in {r, c.recovered[j], c.flight.body[j], c.lastPut[j]} : Level(q) <= Level(c.jobs[j])
    /\ c.jobs[j].st # "absent" /\ Snapping(c) => Level(c.lastPut[j]) <= Level(c.flight.body[j])

(* The last snapshot shows the row as it is, or another one will.          *)
Shown(c, j) ==
    \/ c.timer \/ c.jobs[j] = c.lastPut[j]
    \/ \E i \in DOMAIN c.chain : c.chain[i] = SyncTask
    \/ Snapping(c) /\ c.flight.body[j] = c.jobs[j]

(* The write on its way is about job j.                                    *)
Carries(c, j) ==
    c.flight.reply = "sent" /\ (c.flight.task = SyncTask \/ c.flight.task.job = j)

(* A launched row the ledger has not caught up with is further than its     *)
(* last snapshot; no write under way takes back what the ledger has.       *)
Saved(c, j, r) == c.boot = "ready" /\ c.jobs[j].st # "absent" =>
    /\ c.jobs[j].st \in Active => c.jobs[j] = Linkage
    /\ c.pc[j] # "idle" => c.jobs[j].link = "session"
    /\ Shown(c, j)
    /\ r # c.jobs[j] => Level(r) < Level(c.jobs[j]) /\ c.lastPut[j] # c.jobs[j]
    /\ Carries(c, j) /\ c.flight.body[j] # c.jobs[j] =>
        Level(c.flight.body[j]) < Level(c.jobs[j]) /\ r # c.jobs[j]
    /\ c.flight.task = SyncTask /\ c.flight.reply = "ok" => r = c.flight.body[j]

(* A client that starts again learns of a launched job from the ledger.    *)
Forgotten(c, j, r) == c.boot # "ready" =>
    /\ c.jobs[j].st = "absent" /\ Untouched(c, j)
    /\ c.boot = "fetching" => c.recovered[j] = r

SettleInv ==
    /\ LifeInv
    /\ \A t \in Tabs, j \in Jobs :
        /\ Ordered(client[t], j, ledger[j])
        /\ client[t].jobs[j] = Linkage => Shown(client[t], j)
        /\ j \notin used => client[t].lastPut[j].st = "absent"
        /\ launches[j] > 0 =>
            /\ Saved(client[t], j, ledger[j]) /\ Forgotten(client[t], j, ledger[j])
            /\ ~Queueing(client[t], j)

(* No approval modal of tab t waits for the user for ever.                  *)
Decides(t) == \A j \in Jobs : []<>(client[t].pc[j] # "approval")

(* A queued job of a client whose ledger is loaded is started, or fails,   *)
(* or is cancelled: no write, slot or pump it waits for is forgotten, and  *)
(* only a modal that is never answered can keep its slot.                  *)
QueuedIsServed ==
    \A t \in Tabs, j \in Jobs :
        Decides(t) => (client[t].boot = "ready" /\ client[t].jobs[j].st = "queued"
                          ~> client[t].jobs[j].st # "queued")

(* A runner always ends and releases its slot, unless its modal waits.     *)
RunnersEnd ==
    \A t \in Tabs, j \in Jobs :
        client[t].pc[j] # "idle" ~>
            client[t].pc[j] = "idle" \/ [](client[t].pc[j] = "approval")
=============================================================================

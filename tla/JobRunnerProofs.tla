-------------------------- MODULE JobRunnerProofs --------------------------
(***************************************************************************)
(* Theorems about JobRunner, for every set of jobs, clients and limits.    *)
(* The inductive invariant IInv is stated there.  Handlers are built from  *)
(* few operations on a client record; the lemmas say of each of these what *)
(* it preserves (Good), and the lemma of an action puts them together.     *)
(***************************************************************************)
EXTENDS JobRunner, FiniteSetTheorems, TLAPS

(* What the handlers build from a client is a client again.                *)

(* A row of a job map is a job record.                                     *)
LEMMA JobMapIsTyped ==
    ASSUME NEW m \in JobMap, NEW j \in Jobs
    PROVE  /\ m[j] \in JobRecord
           /\ m[j].st \in Status /\ m[j].link \in Link
  BY DEF JobMap, JobRecord

(* patchJobState keeps a client a client.                                  *)
LEMMA PatchLinkIsTyped ==
    ASSUME NEW c \in Client, NEW j \in Jobs, NEW s \in Status, NEW l \in Link
    PROVE  PatchLink(c, j, s, l) \in Client
<1> DEFINE m == IF c.jobs[j].st = "absent" THEN c.jobs
                ELSE [c.jobs EXCEPT ![j] = [st |-> s, link |-> l]]
<1>1. m \in JobMap
  BY DEF Client, JobMap, JobRecord
<1>2. (c.timer \/ c.boot = "ready") \in BOOLEAN
  OBVIOUS
<1>3. PatchLink(c, j, s, l) = [c EXCEPT !.jobs = m, !.timer = c.timer \/ c.boot = "ready"]
  BY DEF PatchLink, Client
<1> HIDE DEF m
<1> QED
  BY <1>1, <1>2, <1>3 DEF Client

(* ... and so it does when the link stays.                                 *)
LEMMA PatchIsTyped ==
    ASSUME NEW c \in Client, NEW j \in Jobs, NEW s \in Status
    PROVE  Patch(c, j, s) \in Client
<1>1. c.jobs[j].link \in Link
  BY JobMapIsTyped DEF Client
<1> QED
  BY <1>1, PatchLinkIsTyped DEF Patch

(* Queueing a write keeps a client a client.                               *)
LEMMA PushIsTyped ==
    ASSUME NEW c \in Client, NEW task \in Task
    PROVE  Push(c, task) \in Client
<1>1. Append(c.chain, task) \in Seq(Task)
  BY DEF Client
<1> QED
  BY <1>1 DEF Client, Push

(* Moving a runner keeps a client a client.                                *)
LEMMA SuspendIsTyped ==
    ASSUME NEW c \in Client, NEW j \in Jobs, NEW p \in Suspended
    PROVE  Suspend(c, j, p) \in Client
  BY DEF Client, Suspend

(* The write tasks are tasks.                                              *)
LEMMA TasksAreTyped ==
    ASSUME NEW j \in Jobs
    PROVE  /\ NewTask(j) \in Task /\ CurrentTask(j) \in Task
           /\ AwaitedTask(j) \in Task /\ SyncTask \in Task
  BY DEF NewTask, CurrentTask, AwaitedTask, SyncTask, Task

(* ... and there are no others.                                            *)
LEMMA TaskSorts ==
    ASSUME NEW task \in Task
    PROVE  \/ task = SyncTask /\ task.op = "sync"
           \/ \E j \in Jobs : /\ task.job = j /\ task.op # "sync"
                             /\ \/ task = NewTask(j) /\ task.op = "new"
                                \/ task.op = "current" /\ task \in {CurrentTask(j), AwaitedTask(j)}
<1>1. CASE task = SyncTask
  BY <1>1 DEF SyncTask
<1>2. CASE task \in [op : {"new"}, job : Jobs, awaited : {FALSE}]
  BY <1>2 DEF NewTask
<1>3. CASE task \in [op : {"current"}, job : Jobs, awaited : BOOLEAN]
  BY <1>3 DEF CurrentTask, AwaitedTask
<1> QED
  BY <1>1, <1>2, <1>3 DEF Task

(* A runner that awaits a write keeps its client a client.                 *)
LEMMA AwaitIsTyped ==
    ASSUME NEW c \in Client, NEW j \in Jobs, NEW p \in Suspended
    PROVE  Await(c, j, p) \in Client
  BY PushIsTyped, SuspendIsTyped, TasksAreTyped DEF Await

(* The end of a runner keeps its client a client.                          *)
LEMMA CleanupIsTyped ==
    ASSUME NEW c \in Client, NEW j \in Jobs
    PROVE  Cleanup(c, j) \in Client
  BY DEF Client, Cleanup, Suspended

(* The empty write is a write.                                             *)
LEMMA NoFlightIsTyped == NoFlight \in Flight
  BY DEF NoFlight, Flight, Task, SyncTask, NoJob, Reply, NoJobs, JobMap, Absent, JobRecord,
         Status, Active, InFlight, Terminal, Link

(* Taking an answered write off the chain keeps a client a client.         *)
LEMMA SettleIsTyped ==
    ASSUME NEW c \in Client
    PROVE  Settle(c) \in Client
  BY NoFlightIsTyped DEF Client, Settle

(* A client that just loaded is a client.                                  *)
LEMMA FreshClientIsTyped ==
    ASSUME NEW n \in Limits
    PROVE  FreshClient(n) \in Client
<1>1. NoJobs \in JobMap
  BY DEF NoJobs, JobMap, Absent, JobRecord, Status, Active, InFlight, Terminal, Link
<1> QED
  BY <1>1, NoFlightIsTyped DEF FreshClient, Client, Suspended

(* The pump picks jobs.                                                    *)
LEMMA StartableAreJobs ==
    ASSUME NEW c
    PROVE  Startable(c) \subseteq Jobs
  BY DEF Startable, PickNextJobs, QueuedJobs

(* The synchronous part of runJob keeps a client a client.                 *)
LEMMA RunJobsIsTyped ==
    ASSUME NEW c \in Client, NEW S \in SUBSET Jobs, NEW order \in Ascending(S)
    PROVE  RunJobs(c, S, order) \in Client
<1> DEFINE n == Cardinality(S)
           m == [j \in Jobs |-> IF j \in S THEN [c.jobs[j] EXCEPT !.st = "starting"]
                                ELSE c.jobs[j]]
           p == [j \in Jobs |-> IF j \in S THEN "persistStart" ELSE c.pc[j]]
           more == [i \in DOMAIN order |-> AwaitedTask(order[i])]
<1>1. n \in Nat
  BY FS_Subset, FS_CardinalityType, JobsAssumption
<1>2. order \in [1..n -> S]
  BY DEF Ascending
<1>3. \A i \in 1..n : AwaitedTask(order[i]) \in Task
  BY <1>2, TasksAreTyped
<1>4. more \in Seq(Task)
  <2>1. DOMAIN order = 1..n
    BY <1>2
  <2>2. more = [i \in 1..n |-> AwaitedTask(order[i])]
    BY <2>1
  <2>3. more \in [1..n -> Task]
    BY <2>2, <1>3
  <2> HIDE DEF more, n
  <2> QED
    BY <2>3, <1>1
<1>5. c.chain \o more \in Seq(Task)
  <2> HIDE DEF more
  <2>1. c.chain \in Seq(Task)
    BY DEF Client
  <2> QED
    BY <1>4, <2>1
<1>6. m \in JobMap
  BY JobMapIsTyped DEF Client, JobMap, JobRecord, Status, Active, InFlight
<1>7. p \in [Jobs -> Suspended]
  BY DEF Client, Suspended
<1>8. (c.timer \/ S # {}) \in BOOLEAN
  OBVIOUS
<1>9. RunJobs(c, S, order) = [c EXCEPT !.jobs = m, !.pc = p, !.chain = c.chain \o more,
                                       !.timer = c.timer \/ S # {}]
  BY DEF RunJobs, Client
<1> HIDE DEF m, p, more
<1> QED
  BY <1>5, <1>6, <1>7, <1>8, <1>9 DEF Client

(* A step of one tab keeps every tab a client.                             *)
LEMMA BecomeIsTyped ==
    ASSUME client \in [Tabs -> Client], NEW t \in Tabs, NEW c \in Client, Become(t, c)
    PROVE  client' \in [Tabs -> Client]
  BY DEF Become

(* ... and so does a step that ends with the pump.                         *)
LEMMA BecomePumpedIsTyped ==
    ASSUME client \in [Tabs -> Client], NEW t \in Tabs, NEW c \in Client, BecomePumped(t, c)
    PROVE  client' \in [Tabs -> Client]
  BY BecomeIsTyped, RunJobsIsTyped, StartableAreJobs DEF BecomePumped

(* What a handler may do to a client c and leave the inductive invariant   *)
(* alone: no runner but those excepted takes a worktree or follows an      *)
(* agent, and no job appears out of nowhere.                               *)

NoEntry(c, d, k) ==
    /\ k \notin Linked /\ d.pc[k] \in Holding => c.pc[k] \in Holding
    /\ d.pc[k] = "harness" => c.pc[k] = "harness"

Good(c, d) ==
    /\ d \in Client
    /\ ClientInv(d)
    /\ \A k \in Jobs : NoEntry(c, d, k) /\ (Unknown(c, k) => Unknown(d, k))

(* Handlers that run one after the other are one good handler.             *)
LEMMA GoodIsTransitive ==
    ASSUME NEW c, NEW d, NEW e, Good(c, d), Good(d, e)
    PROVE  Good(c, e)
  BY DEF Good, NoEntry

(* A client whose rows, runners and records stay as they were              *)
LEMMA SameViewIsGood ==
    ASSUME NEW c \in Client, ClientInv(c), NEW d \in Client,
           d.boot = c.boot, d.aborted = c.aborted, d.pc = c.pc, d.jobs = c.jobs,
           d.recovered = c.recovered,
           \A k \in Jobs : d.flight.body[k].st = "absent" \/ d.flight.body[k] = c.flight.body[k]
    PROVE  Good(c, d)
<1>1. \A k \in Jobs : Startless(d.flight.body[k], k)
  BY DEF ClientInv, Startless
<1>2. ClientInv(d)
  BY <1>1 DEF ClientInv, RowMatches
<1>3. \A k \in Jobs : NoEntry(c, d, k) /\ (Unknown(c, k) => Unknown(d, k))
  BY DEF NoEntry, Unknown
<1> QED
  BY <1>2, <1>3 DEF Good

(* Queueing a write disturbs nothing.                                      *)
LEMMA PushIsGood ==
    ASSUME NEW c \in Client, ClientInv(c), NEW task \in Task
    PROVE  Good(c, Push(c, task))
<1> DEFINE d == Push(c, task)
<1>1. d \in Client
  BY PushIsTyped
<1>2. /\ d.boot = c.boot /\ d.aborted = c.aborted /\ d.pc = c.pc /\ d.jobs = c.jobs
      /\ d.recovered = c.recovered /\ d.flight = c.flight
  BY DEF Push, Client
<1> HIDE DEF d
<1> QED
  BY <1>1, <1>2, SameViewIsGood DEF d

(* Taking an answered write off the chain disturbs nothing.                *)
LEMMA SettleIsGood ==
    ASSUME NEW c \in Client, ClientInv(c)
    PROVE  Good(c, Settle(c))
<1> DEFINE d == Settle(c)
<1>1. d \in Client
  BY SettleIsTyped
<1>2. /\ d.boot = c.boot /\ d.aborted = c.aborted /\ d.pc = c.pc /\ d.jobs = c.jobs
      /\ d.recovered = c.recovered /\ d.flight = NoFlight
  BY DEF Settle, Client
<1>3. \A k \in Jobs : NoFlight.body[k].st = "absent"
  BY DEF NoFlight, NoJobs, Absent
<1> HIDE DEF d
<1> QED
  BY <1>1, <1>2, <1>3, SameViewIsGood DEF d

(* What patchJobState writes, and what it leaves alone.                    *)
LEMMA PatchFields ==
    ASSUME NEW c \in Client, NEW j \in Jobs, NEW s \in Status, NEW l \in Link
    PROVE  LET d == PatchLink(c, j, s, l)
           IN  /\ d.boot = c.boot /\ d.aborted = c.aborted /\ d.pc = c.pc
               /\ d.recovered = c.recovered /\ d.flight = c.flight
               /\ \A k \in Jobs \ {j} : d.jobs[k] = c.jobs[k]
               /\ d.jobs[j] = IF c.jobs[j].st = "absent" THEN c.jobs[j]
                              ELSE [st |-> s, link |-> l]
  BY DEF PatchLink, Client, JobMap

(* Giving a row a terminal status disturbs nothing.                        *)
LEMMA PatchIsGood ==
    ASSUME NEW c \in Client, ClientInv(c), NEW j \in Jobs, NEW s \in Terminal \ {"cancelled"}
    PROVE  /\ Good(c, Patch(c, j, s))
           /\ Patch(c, j, s).jobs[j].st \notin Active
           /\ Patch(c, j, s).pc = c.pc /\ Patch(c, j, s).aborted = c.aborted
           /\ Patch(c, j, s).boot = c.boot
<1> DEFINE d == Patch(c, j, s)
<1>1. s \in Status /\ s \notin Active /\ "absent" \notin Active /\ s # "cancelled"
  BY DEF Status, Terminal, Active, InFlight
<1>2. d \in Client
  BY <1>1, PatchIsTyped
<1>3. c.jobs[j].link \in Link
  BY JobMapIsTyped DEF Client
<1>4. /\ d.boot = c.boot /\ d.aborted = c.aborted /\ d.pc = c.pc
      /\ d.recovered = c.recovered /\ d.flight = c.flight
      /\ \A k \in Jobs \ {j} : d.jobs[k] = c.jobs[k]
      /\ d.jobs[j] = IF c.jobs[j].st = "absent" THEN c.jobs[j]
                     ELSE [st |-> s, link |-> c.jobs[j].link]
  BY <1>1, <1>3, PatchFields DEF Patch
<1> HIDE DEF d
<1>5. d.jobs[j].st \notin Active /\ (c.jobs[j].st = "absent" => d.jobs[j].st = "absent")
      /\ d.jobs[j].link = c.jobs[j].link
  BY <1>1, <1>4
<1>6. "starting" \in Active /\ "running" \in Active /\ "queued" \in Active
  BY DEF Active, InFlight
<1>7. ClientInv(d)
  BY <1>4, <1>5, <1>6 DEF ClientInv, RowMatches, Startless
<1>8. \A k \in Jobs : NoEntry(c, d, k) /\ (Unknown(c, k) => Unknown(d, k))
  BY <1>4, <1>5 DEF NoEntry, Unknown
<1> QED
  BY <1>2, <1>4, <1>5, <1>7, <1>8 DEF Good, d

(* A runner may end once its row is terminal or gone.                      *)
LEMMA CleanupIsGood ==
    ASSUME NEW c \in Client, ClientInv(c), NEW j \in Jobs, c.jobs[j].st \notin Active
    PROVE  Good(c, Cleanup(c, j))
<1> DEFINE d == Cleanup(c, j)
<1>1. d \in Client
  BY CleanupIsTyped
<1>2. /\ d.boot = c.boot /\ d.aborted = c.aborted \ {j} /\ d.jobs = c.jobs
      /\ d.recovered = c.recovered /\ d.flight = c.flight
      /\ \A k \in Jobs : d.pc[k] = IF k = j THEN "idle" ELSE c.pc[k]
  BY DEF Cleanup, Client
<1>3. "starting" \in Active /\ "running" \in Active
  BY DEF Active, InFlight
<1> HIDE DEF d
<1>4. ClientInv(d)
  <2>1. d.boot # "ready" => d.aborted = {} /\ \A k \in Jobs : d.pc[k] = "idle"
    BY <1>2 DEF ClientInv
  <2>2. \A k \in Jobs : RowMatches(d, k)
    BY <1>2, <1>3 DEF ClientInv, RowMatches
  <2>3. \A k \in Jobs :
        /\ k \in d.aborted => d.jobs[k].st \notin Active
        /\ d.pc[k] = "approval" /\ d.jobs[k].st = "cancelled" => k \in d.aborted
    BY <1>2 DEF ClientInv
  <2>4. \A k \in Jobs : /\ Startless(d.jobs[k], k) /\ Startless(d.recovered[k], k)
                        /\ Startless(d.flight.body[k], k) /\ d.recovered[k].st \notin InFlight
    BY <1>2 DEF ClientInv
  <2>5. \A k \in Jobs : k \notin Linked /\ d.pc[k] \in {"persistStart", "policy", "worktreeAdd"}
            => d.jobs[k].link = "none"
    BY <1>2 DEF ClientInv
  <2> QED
    BY <2>1, <2>2, <2>3, <2>4, <2>5 DEF ClientInv
<1>5. \A k \in Jobs : NoEntry(c, d, k) /\ (Unknown(c, k) => Unknown(d, k))
  BY <1>2 DEF NoEntry, Unknown, Holding
<1> QED
  BY <1>1, <1>4, <1>5 DEF Good, d

(* The runners the pump starts match their rows.                           *)
LEMMA RunJobsIsGood ==
    ASSUME NEW c \in Client, ClientInv(c), NEW order \in Ascending(Startable(c))
    PROVE  Good(c, RunJobs(c, Startable(c), order))
<1> DEFINE S == Startable(c)
           d == RunJobs(c, S, order)
<1>1. d \in Client
  BY RunJobsIsTyped, StartableAreJobs
<1>2. /\ d.boot = c.boot /\ d.aborted = c.aborted
      /\ d.recovered = c.recovered /\ d.flight = c.flight
      /\ \A k \in Jobs : d.pc[k] = IF k \in S THEN "persistStart" ELSE c.pc[k]
      /\ \A k \in Jobs : d.jobs[k] = IF k \in S THEN [c.jobs[k] EXCEPT !.st = "starting"]
                                     ELSE c.jobs[k]
  BY DEF RunJobs, Client
<1>3. \A k \in S : /\ k \in Jobs /\ c.boot = "ready" /\ c.jobs[k].st = "queued"
                   /\ c.pc[k] = "idle"
  BY DEF Startable, PickNextJobs, QueuedJobs
<1>4. \A k \in S : d.jobs[k].st = "starting" /\ d.jobs[k].link = c.jobs[k].link
  <2>1. \A k \in Jobs : c.jobs[k] \in JobRecord
    BY DEF Client, JobMap
  <2> QED
    BY <1>2, <1>3, <2>1 DEF JobRecord
<1> HIDE DEF d, S
<1>5. ClientInv(d)
  <2>1. d.boot # "ready" => d.aborted = {} /\ \A j \in Jobs : d.pc[j] = "idle"
    BY <1>2, <1>3 DEF ClientInv
  <2>2. ASSUME NEW k \in Jobs, k \in S
        PROVE  /\ RowMatches(d, k)
               /\ k \in d.aborted => d.jobs[k].st \notin Active
               /\ d.pc[k] = "approval" /\ d.jobs[k].st = "cancelled" => k \in d.aborted
               /\ Startless(d.jobs[k], k) /\ Startless(d.recovered[k], k)
               /\ Startless(d.flight.body[k], k) /\ d.recovered[k].st \notin InFlight
               /\ k \notin Linked /\ d.pc[k] \in {"persistStart", "policy", "worktreeAdd"}
                    => d.jobs[k].link = "none"
    BY <1>2, <1>3, <1>4, <2>2 DEF ClientInv, RowMatches, Startless, Preparing, Active
  <2>3. ASSUME NEW k \in Jobs, k \notin S
        PROVE  /\ RowMatches(d, k)
               /\ k \in d.aborted => d.jobs[k].st \notin Active
               /\ d.pc[k] = "approval" /\ d.jobs[k].st = "cancelled" => k \in d.aborted
               /\ Startless(d.jobs[k], k) /\ Startless(d.recovered[k], k)
               /\ Startless(d.flight.body[k], k) /\ d.recovered[k].st \notin InFlight
               /\ k \notin Linked /\ d.pc[k] \in {"persistStart", "policy", "worktreeAdd"}
                    => d.jobs[k].link = "none"
    BY <1>2, <2>3 DEF ClientInv, RowMatches
  <2> QED
    BY <2>1, <2>2, <2>3 DEF ClientInv
<1>6. \A k \in Jobs : NoEntry(c, d, k) /\ (Unknown(c, k) => Unknown(d, k))
  BY <1>2, <1>3 DEF NoEntry, Unknown, Holding
<1> QED
  BY <1>1, <1>5, <1>6 DEF Good, d, S

(* As Good, but the runner of job j may enter whatever it enters.          *)
GoodBut(c, d, j) ==
    /\ d \in Client
    /\ ClientInv(d)
    /\ \A k \in Jobs : Unknown(c, k) => Unknown(d, k)
    /\ \A k \in Jobs \ {j} : NoEntry(c, d, k)

(* A handler that is good for j too is good.                               *)
LEMMA GoodButOne ==
    ASSUME NEW c, NEW d, NEW j \in Jobs, GoodBut(c, d, j), NoEntry(c, d, j)
    PROVE  Good(c, d)
  BY DEF GoodBut, Good

(* A good handler before one that is good but for j.                       *)
LEMMA GoodButAfterGood ==
    ASSUME NEW c, NEW d, NEW e, NEW j \in Jobs, Good(c, d), GoodBut(d, e, j)
    PROVE  GoodBut(c, e, j)
  BY DEF GoodBut, Good, NoEntry

(* The runner of job j moves to p and shows status s and link l: what the  *)
(* row says must match where the runner is.                                *)
Fits(c, j, s, p) ==
    /\ p \in Suspended \ {"idle"} /\ c.pc[j] # "idle"
    /\ s = "starting" => p \in Preparing
    /\ s = "running" => p \in {"persistRun", "approval", "harness"}
    /\ s # "queued"
    /\ p = "approval" /\ s = "cancelled" => j \in c.aborted
    /\ j \in c.aborted => s \notin Active

(* Patching a row and moving its runner, when the two fit.                 *)
LEMMA MoveIsGood ==
    ASSUME NEW c \in Client, ClientInv(c), NEW j \in Jobs, NEW s \in Status, NEW l \in Link,
           NEW p, Fits(c, j, s, p), p \notin {"persistStart", "policy", "worktreeAdd"}
    PROVE  /\ GoodBut(c, Suspend(PatchLink(c, j, s, l), j, p), j)
           /\ Suspend(PatchLink(c, j, s, l), j, p).pc[j] = p
<1> DEFINE b == PatchLink(c, j, s, l)
           d == Suspend(b, j, p)
<1>1. b \in Client /\ d \in Client
  BY PatchLinkIsTyped, SuspendIsTyped DEF Fits
<1>2. /\ b.boot = c.boot /\ b.aborted = c.aborted /\ b.pc = c.pc
      /\ b.recovered = c.recovered /\ b.flight = c.flight
      /\ \A k \in Jobs \ {j} : b.jobs[k] = c.jobs[k]
      /\ b.jobs[j] = IF c.jobs[j].st = "absent" THEN c.jobs[j] ELSE [st |-> s, link |-> l]
  BY PatchFields
<1>3. /\ d.boot = b.boot /\ d.aborted = b.aborted /\ d.jobs = b.jobs
      /\ d.recovered = b.recovered /\ d.flight = b.flight
      /\ \A k \in Jobs : d.pc[k] = IF k = j THEN p ELSE b.pc[k]
  <2> HIDE DEF b
  <2> QED
    BY <1>1 DEF Suspend, Client
<1> HIDE DEF b, d
<1>4. /\ d.boot = c.boot /\ d.aborted = c.aborted
      /\ d.recovered = c.recovered /\ d.flight = c.flight
      /\ \A k \in Jobs \ {j} : d.jobs[k] = c.jobs[k] /\ d.pc[k] = c.pc[k]
      /\ d.pc[j] = p
      /\ d.jobs[j] = IF c.jobs[j].st = "absent" THEN c.jobs[j] ELSE [st |-> s, link |-> l]
  BY <1>2, <1>3
<1>5. c.boot = "ready"
  BY DEF ClientInv, Fits
<1>6. d.jobs[j].st = "absent" \/ d.jobs[j].st = s
  BY <1>4
<1>7. "absent" \notin Active
  BY DEF Active, InFlight
<1>8. ClientInv(d)
  <2>1. d.boot # "ready" => d.aborted = {} /\ \A k \in Jobs : d.pc[k] = "idle"
    BY <1>4, <1>5
  <2>2. \A k \in Jobs : RowMatches(d, k)
    BY <1>4, <1>6 DEF ClientInv, RowMatches, Fits
  <2>3. \A k \in Jobs :
        /\ k \in d.aborted => d.jobs[k].st \notin Active
        /\ d.pc[k] = "approval" /\ d.jobs[k].st = "cancelled" => k \in d.aborted
    BY <1>4, <1>6, <1>7 DEF ClientInv, Fits
  <2>4. \A k \in Jobs : /\ Startless(d.jobs[k], k) /\ Startless(d.recovered[k], k)
                        /\ Startless(d.flight.body[k], k) /\ d.recovered[k].st \notin InFlight
    BY <1>4, <1>6 DEF ClientInv, Startless, Fits
  <2>5. \A k \in Jobs : k \notin Linked /\ d.pc[k] \in {"persistStart", "policy", "worktreeAdd"}
            => d.jobs[k].link = "none"
    BY <1>4 DEF ClientInv
  <2> QED
    BY <2>1, <2>2, <2>3, <2>4, <2>5 DEF ClientInv
<1>9. (\A k \in Jobs : Unknown(c, k) => Unknown(d, k)) /\ \A k \in Jobs \ {j} : NoEntry(c, d, k)
  BY <1>4 DEF NoEntry, Unknown, Fits
<1> QED
  BY <1>1, <1>4, <1>8, <1>9 DEF GoodBut, d, b

(* Moving a runner to where its row already fits.                          *)
LEMMA SuspendIsGood ==
    ASSUME NEW c \in Client, ClientInv(c), NEW j \in Jobs, NEW p,
           Fits(c, j, c.jobs[j].st, p),
           j \notin Linked /\ p \in {"persistStart", "policy", "worktreeAdd"} => c.jobs[j].link = "none"
    PROVE  GoodBut(c, Suspend(c, j, p), j) /\ Suspend(c, j, p).pc[j] = p
<1> DEFINE d == Suspend(c, j, p)
<1>1. d \in Client
  BY SuspendIsTyped DEF Fits
<1>2. /\ d.boot = c.boot /\ d.aborted = c.aborted /\ d.jobs = c.jobs
      /\ d.recovered = c.recovered /\ d.flight = c.flight
      /\ \A k \in Jobs : d.pc[k] = IF k = j THEN p ELSE c.pc[k]
  BY DEF Suspend, Client
<1> HIDE DEF d
<1>3. c.boot = "ready"
  BY DEF ClientInv, Fits
<1>4. ClientInv(d)
  <2>1. \A k \in Jobs : RowMatches(d, k)
    BY <1>2 DEF ClientInv, RowMatches, Fits
  <2>2. \A k \in Jobs : k \notin Linked /\ d.pc[k] \in {"persistStart", "policy", "worktreeAdd"}
            => d.jobs[k].link = "none"
    BY <1>2 DEF ClientInv
  <2>3. \A k \in Jobs : d.pc[k] = "approval" /\ d.jobs[k].st = "cancelled" => k \in d.aborted
    BY <1>2 DEF ClientInv, Fits
  <2> QED
    BY <1>2, <1>3, <2>1, <2>2, <2>3 DEF ClientInv
<1>5. (\A k \in Jobs : Unknown(c, k) => Unknown(d, k)) /\ \A k \in Jobs \ {j} : NoEntry(c, d, k)
  BY <1>2 DEF NoEntry, Unknown, Fits
<1> QED
  BY <1>1, <1>2, <1>4, <1>5 DEF GoodBut, d

(* The runner reports a result s and waits for its last write.             *)
LEMMA AwaitMoveIsGood ==
    ASSUME NEW c \in Client, ClientInv(c), NEW j \in Jobs, NEW s \in Status, NEW l \in Link,
           NEW p, Fits(c, j, s, p), p \notin {"persistStart", "policy", "worktreeAdd"},
           p \in Holding => c.pc[j] \in Holding, p # "harness"
    PROVE  Good(c, Await(PatchLink(c, j, s, l), j, p))
<1> DEFINE b == Suspend(PatchLink(c, j, s, l), j, p)
<1>1. GoodBut(c, b, j) /\ b.pc[j] = p
  BY MoveIsGood
<1> HIDE DEF b
<1>2. Good(c, b)
  BY <1>1, GoodButOne DEF NoEntry
<1>3. Good(b, Push(b, AwaitedTask(j)))
  BY <1>2, PushIsGood, TasksAreTyped DEF Good
<1> QED
  BY <1>2, <1>3, GoodIsTransitive DEF b, Await

-----------------------------------------------------------------------------
(* A step of one client that enters no worktree and launches nothing       *)

LedgerInv ==
    /\ ledger \in JobMap
    /\ \A k \in Jobs : Startless(ledger[k], k) /\ (k \notin used => ledger[k].st = "absent")

LEMMA ClientStep ==
    ASSUME IInv, NEW t \in Tabs, NEW d \in Client, Become(t, d), ClientInv(d),
           \A k \in Jobs : NoEntry(client[t], d, k),
           \A k \in Jobs \ used' : Unknown(client[t], k) => Unknown(d, k),
           LedgerInv', used \subseteq used', used' \subseteq Jobs, trusted' \subseteq Jobs,
           UNCHANGED <<worktrees, launches, procs>>, reloads' \in Nat, faults' \in Nat
    PROVE  IInv' /\ NoCancelledLaunch
<1>1. client \in [Tabs -> Client]
  BY DEF IInv, TypeOK
<1>2. client' \in [Tabs -> Client]
  BY <1>1, BecomeIsTyped
<1>3. client'[t] = d /\ \A u \in Tabs \ {t} : client'[u] = client[u]
  BY <1>1 DEF Become
<1>4. TypeOK'
  BY <1>2 DEF IInv, TypeOK, LedgerInv
<1>5. \A u \in Tabs : ClientInv(client'[u])
  BY <1>3 DEF IInv
<1>6. \A k \in Jobs \ used' : ledger'[k].st = "absent" /\ \A u \in Tabs : Unknown(client'[u], k)
  BY <1>3 DEF IInv, LedgerInv
<1>7. \A u \in Tabs, k \in Jobs : NoEntry(client[u], client'[u], k)
  BY <1>3 DEF NoEntry
<1>8. WorktreeIsToken'
  BY <1>7 DEF IInv, WorktreeIsToken, NoEntry
<1>9. \A k \in Jobs : Cardinality(Followers(k)') <= procs'[k]
  <2> SUFFICES ASSUME NEW k \in Jobs
               PROVE  Cardinality(Followers(k)') <= procs'[k]
    OBVIOUS
  <2>1. Followers(k)' \subseteq Followers(k)
    BY <1>7 DEF Followers, NoEntry
  <2>2. IsFiniteSet(Followers(k)) /\ IsFiniteSet(Followers(k)')
    BY FS_Subset, TabsAssumption DEF Followers
  <2>3. Cardinality(Followers(k)') <= Cardinality(Followers(k))
    BY <2>1, <2>2, FS_Subset
  <2>4. Cardinality(Followers(k)) <= procs[k] /\ procs' = procs /\ procs[k] \in Nat
    BY DEF IInv, TypeOK
  <2>5. Cardinality(Followers(k)) \in Nat /\ Cardinality(Followers(k)') \in Nat
    BY <2>2, FS_CardinalityType
  <2> QED
    BY <2>3, <2>4, <2>5
<1>10. NoCancelledLaunch
  BY <1>7 DEF NoCancelledLaunch, LaunchStep, NoEntry
<1> QED
  BY <1>4, <1>5, <1>6, <1>8, <1>9, <1>10 DEF IInv, LedgerInv

(* A good handler that ends with pumpQueue preserves the invariant.        *)
LEMMA PumpedStep ==
    ASSUME IInv, NEW t \in Tabs, NEW c, BecomePumped(t, c), Good(client[t], c),
           UNCHANGED <<ledger, used, trusted, worktrees, launches, procs>>,
           reloads' \in Nat, faults' \in Nat
    PROVE  IInv' /\ NoCancelledLaunch
<1>1. PICK order \in Ascending(Startable(c)) : Become(t, RunJobs(c, Startable(c), order))
  BY DEF BecomePumped
<1> DEFINE d == RunJobs(c, Startable(c), order)
<1>2. Good(c, d)
  BY RunJobsIsGood DEF Good
<1>3. Become(t, d)
  BY <1>1
<1> HIDE DEF d
<1>4. Good(client[t], d)
  BY <1>2, GoodIsTransitive
<1>5. LedgerInv' /\ used \subseteq used' /\ used' \subseteq Jobs /\ trusted' \subseteq Jobs
  BY DEF IInv, TypeOK, LedgerInv
<1> QED
  BY <1>3, <1>4, <1>5, ClientStep DEF Good

(* A good handler that does not pump preserves the invariant.              *)
LEMMA QuietStep ==
    ASSUME IInv, NEW t \in Tabs, NEW d, Become(t, d), Good(client[t], d),
           UNCHANGED <<ledger, used, trusted, worktrees, launches, procs>>,
           reloads' \in Nat, faults' \in Nat
    PROVE  IInv' /\ NoCancelledLaunch
<1>1. LedgerInv' /\ used \subseteq used' /\ used' \subseteq Jobs /\ trusted' \subseteq Jobs
  BY DEF IInv, TypeOK, LedgerInv
<1> QED
  BY <1>1, ClientStep DEF Good

-----------------------------------------------------------------------------
(* One lemma per action: it preserves the inductive invariant.             *)

(* A client whose rows, runners and records stay as they were takes a      *)
(* quiet step.                                                             *)
LEMMA SameViewStep ==
    ASSUME IInv, NEW t \in Tabs, NEW d \in Client, Become(t, d),
           d.boot = client[t].boot, d.aborted = client[t].aborted, d.pc = client[t].pc,
           d.jobs = client[t].jobs, d.recovered = client[t].recovered,
           \A k \in Jobs : \/ d.flight.body[k].st = "absent"
                          \/ d.flight.body[k] = client[t].flight.body[k],
           UNCHANGED <<used, trusted, worktrees, launches, procs>>, LedgerInv',
           reloads' \in Nat, faults' \in Nat
    PROVE  IInv' /\ NoCancelledLaunch
<1>1. client[t] \in Client /\ ClientInv(client[t])
  BY DEF IInv, TypeOK
<1>2. Good(client[t], d)
  BY <1>1, SameViewIsGood
<1>3. used \subseteq used' /\ used' \subseteq Jobs /\ trusted' \subseteq Jobs
  BY DEF IInv, TypeOK
<1> QED
  BY <1>2, <1>3, ClientStep DEF Good

(* enqueueBackgroundJob                                                    *)
LEMMA EnqueueStep ==
    ASSUME IInv, NEW t \in Tabs, NEW j \in Jobs, Enqueue(t, j)
    PROVE  IInv' /\ NoCancelledLaunch
<1> DEFINE c == client[t]
           b == [c EXCEPT !.jobs[j] = NewJob(j), !.timer = @ \/ c.boot = "ready"]
           d == Push(b, NewTask(j))
<1>1. c \in Client /\ ClientInv(c) /\ Unknown(c, j)
  BY DEF IInv, TypeOK, Enqueue
<1>2. Become(t, d) /\ used' = used \cup {j} /\ UNCHANGED <<runtime, trusted, reloads, faults>>
  BY DEF Enqueue
<1>3. NewJob(j) \in JobRecord /\ NewJob(j).st = "queued" /\ Startless(NewJob(j), j)
  BY DEF NewJob, JobRecord, Status, Active, Link, Startless
<1> HIDE DEF c
<1>4. b \in Client
  <2>1. [c.jobs EXCEPT ![j] = NewJob(j)] \in JobMap
    BY <1>1, <1>3 DEF Client, JobMap
  <2>2. (c.timer \/ c.boot = "ready") \in BOOLEAN
    OBVIOUS
  <2> QED
    BY <1>1, <2>1, <2>2 DEF Client
<1>5. /\ b.boot = c.boot /\ b.aborted = c.aborted /\ b.pc = c.pc
      /\ b.recovered = c.recovered /\ b.flight = c.flight
      /\ \A k \in Jobs : b.jobs[k] = IF k = j THEN NewJob(j) ELSE c.jobs[k]
  BY <1>1 DEF Client, JobMap
<1> HIDE DEF b
<1>6. ClientInv(b)
  <2>1. \A k \in Jobs : RowMatches(b, k)
    BY <1>1, <1>3, <1>5 DEF ClientInv, RowMatches, Unknown
  <2>2. \A k \in Jobs :
        /\ k \in b.aborted => b.jobs[k].st \notin Active
        /\ b.pc[k] = "approval" /\ b.jobs[k].st = "cancelled" => k \in b.aborted
    BY <1>1, <1>5 DEF ClientInv, Unknown
  <2>3. \A k \in Jobs : /\ Startless(b.jobs[k], k) /\ Startless(b.recovered[k], k)
                        /\ Startless(b.flight.body[k], k) /\ b.recovered[k].st \notin InFlight
    BY <1>1, <1>3, <1>5 DEF ClientInv
  <2>4. \A k \in Jobs : k \notin Linked /\ b.pc[k] \in {"persistStart", "policy", "worktreeAdd"}
            => b.jobs[k].link = "none"
    BY <1>1, <1>5 DEF ClientInv, Unknown
  <2> QED
    BY <1>1, <1>5, <2>1, <2>2, <2>3, <2>4 DEF ClientInv
<1>7. Good(b, d)
  BY <1>4, <1>6, PushIsGood, TasksAreTyped
<1>8. \A k \in Jobs : NoEntry(c, b, k) /\ (k # j /\ Unknown(c, k) => Unknown(b, k))
  BY <1>5 DEF NoEntry, Unknown
<1> HIDE DEF d
<1>9. \A k \in Jobs : NoEntry(c, d, k) /\ (k # j /\ Unknown(c, k) => Unknown(d, k))
  BY <1>7, <1>8 DEF Good, NoEntry
<1>10. /\ LedgerInv' /\ used \subseteq used' /\ used' \subseteq Jobs /\ trusted' \subseteq Jobs
       /\ reloads' \in Nat /\ faults' \in Nat
  BY <1>2 DEF IInv, TypeOK, LedgerInv, runtime
<1> QED
  BY <1>2, <1>7, <1>9, <1>10, ClientStep DEF Good, c, runtime

(* cancelBackgroundJob                                                     *)
LEMMA CancelStep ==
    ASSUME IInv, NEW t \in Tabs, NEW j \in Jobs, Cancel(t, j)
    PROVE  IInv' /\ NoCancelledLaunch
<1> DEFINE c == client[t]
           A == IF c.pc[j] = "idle" THEN c.aborted ELSE c.aborted \cup {j}
           a == [c EXCEPT !.aborted = A]
           b == Patch(a, j, "cancelled")
           d == Push(b, CurrentTask(j))
<1>1. c \in Client /\ ClientInv(c) /\ c.jobs[j].st \in Active
  BY DEF IInv, TypeOK, Cancel
<1>2. BecomePumped(t, d) /\ UNCHANGED <<runtime, trusted, used, reloads, faults>>
  BY DEF Cancel
<1> HIDE DEF c
<1>3. A \subseteq Jobs /\ a \in Client
  BY <1>1 DEF Client
<1>4. /\ a.boot = c.boot /\ a.aborted = A /\ a.pc = c.pc /\ a.jobs = c.jobs
      /\ a.recovered = c.recovered /\ a.flight = c.flight
  BY <1>1 DEF Client
<1>5. "cancelled" \in Status \ Active /\ "absent" \notin Active
  BY DEF Status, Terminal, Active, InFlight
<1> HIDE DEF a
<1>6. b \in Client
  BY <1>3, <1>5, PatchIsTyped
<1>7. a.jobs[j].link \in Link
  BY <1>3, JobMapIsTyped DEF Client
<1>8. /\ b.boot = c.boot /\ b.aborted = A /\ b.pc = c.pc
      /\ b.recovered = c.recovered /\ b.flight = c.flight
      /\ \A k \in Jobs \ {j} : b.jobs[k] = c.jobs[k]
      /\ b.jobs[j] = [st |-> "cancelled", link |-> c.jobs[j].link]
  BY <1>1, <1>3, <1>4, <1>5, <1>7, PatchFields DEF Patch
<1> HIDE DEF b
<1>9. ClientInv(b)
  <2>1. b.boot # "ready" => b.aborted = {} /\ \A k \in Jobs : b.pc[k] = "idle"
    BY <1>1, <1>8 DEF ClientInv
  <2>2. \A k \in Jobs : RowMatches(b, k)
    BY <1>1, <1>8 DEF ClientInv, RowMatches
  <2>3. \A k \in Jobs :
        /\ k \in b.aborted => b.jobs[k].st \notin Active
        /\ b.pc[k] = "approval" /\ b.jobs[k].st = "cancelled" => k \in b.aborted
    BY <1>1, <1>5, <1>8 DEF ClientInv
  <2>4. \A k \in Jobs : /\ Startless(b.jobs[k], k) /\ Startless(b.recovered[k], k)
                        /\ Startless(b.flight.body[k], k) /\ b.recovered[k].st \notin InFlight
    BY <1>1, <1>8 DEF ClientInv, Startless
  <2>5. \A k \in Jobs : k \notin Linked /\ b.pc[k] \in {"persistStart", "policy", "worktreeAdd"}
            => b.jobs[k].link = "none"
    BY <1>1, <1>8 DEF ClientInv
  <2> QED
    BY <2>1, <2>2, <2>3, <2>4, <2>5 DEF ClientInv
<1>10. Good(c, b)
  BY <1>1, <1>5, <1>6, <1>8, <1>9 DEF Good, NoEntry, Unknown
<1>11. Good(b, d)
  BY <1>6, <1>9, PushIsGood, TasksAreTyped
<1> HIDE DEF d
<1>12. Good(c, d)
  BY <1>10, <1>11, GoodIsTransitive
<1> QED
  BY <1>2, <1>12, PumpedStep DEF c, runtime, IInv, TypeOK

(* clearFinishedJobs                                                       *)
LEMMA ClearFinishedStep ==
    ASSUME IInv, NEW t \in Tabs, ClearFinished(t)
    PROVE  IInv' /\ NoCancelledLaunch
<1> DEFINE c == client[t]
           done == {j \in Jobs : c.jobs[j].st \in Terminal}
           m == [j \in Jobs |-> IF j \in done THEN Absent ELSE c.jobs[j]]
           d == [c EXCEPT !.jobs = m, !.timer = c.timer \/ c.boot = "ready"]
<1>1. c \in Client /\ ClientInv(c)
  BY DEF IInv, TypeOK
<1>2. Become(t, d) /\ UNCHANGED <<runtime, trusted, used, reloads, faults>>
  BY DEF ClearFinished
<1> HIDE DEF c
<1>3. Absent \in JobRecord /\ Absent.st = "absent" /\ Absent.link = "none" /\ "absent" \notin Active
  BY DEF Absent, JobRecord, Status, Link, Active, InFlight
<1>4. m \in JobMap
  BY <1>1, <1>3 DEF Client, JobMap
<1>5. \A k \in Jobs : m[k] = Absent \/ m[k] = c.jobs[k]
  OBVIOUS
<1> HIDE DEF m
<1>6. d \in Client
  <2>1. (c.timer \/ c.boot = "ready") \in BOOLEAN
    OBVIOUS
  <2> QED
    BY <1>1, <1>4, <2>1 DEF Client
<1>7. /\ d.boot = c.boot /\ d.aborted = c.aborted /\ d.pc = c.pc /\ d.jobs = m
      /\ d.recovered = c.recovered /\ d.flight = c.flight
  BY <1>1 DEF Client
<1> HIDE DEF d
<1>8. ClientInv(d)
  <2>1. \A k \in Jobs : RowMatches(d, k)
    BY <1>1, <1>3, <1>5, <1>7 DEF ClientInv, RowMatches
  <2>2. \A k \in Jobs :
        /\ k \in d.aborted => d.jobs[k].st \notin Active
        /\ d.pc[k] = "approval" /\ d.jobs[k].st = "cancelled" => k \in d.aborted
    BY <1>1, <1>3, <1>5, <1>7 DEF ClientInv
  <2>3. \A k \in Jobs : /\ Startless(d.jobs[k], k) /\ Startless(d.recovered[k], k)
                        /\ Startless(d.flight.body[k], k) /\ d.recovered[k].st \notin InFlight
    BY <1>1, <1>3, <1>5, <1>7 DEF ClientInv, Startless
  <2>4. \A k \in Jobs : k \notin Linked /\ d.pc[k] \in {"persistStart", "policy", "worktreeAdd"}
            => d.jobs[k].link = "none"
    BY <1>1, <1>3, <1>5, <1>7 DEF ClientInv
  <2> QED
    BY <1>1, <1>7, <2>1, <2>2, <2>3, <2>4 DEF ClientInv
<1>9. Good(c, d)
  BY <1>3, <1>5, <1>6, <1>7, <1>8 DEF Good, NoEntry, Unknown
<1> QED
  BY <1>2, <1>9, QuietStep DEF c, runtime, IInv, TypeOK

(* Doing nothing is good.                                                  *)
LEMMA GoodRefl ==
    ASSUME NEW c \in Client, ClientInv(c)
    PROVE  Good(c, c)
  BY DEF Good, NoEntry

(* The React effect that pumps, and applyAutomationConcurrency.            *)
LEMMA PumpSteps ==
    ASSUME IInv, NEW t \in Tabs,
           EffectPump(t) \/ \E n \in Limits : SetLimit(t, n)
    PROVE  IInv' /\ NoCancelledLaunch
<1>1. client[t] \in Client /\ ClientInv(client[t])
  BY DEF IInv, TypeOK
<1>2. CASE EffectPump(t)
  BY <1>1, <1>2, GoodRefl, PumpedStep DEF EffectPump, runtime, IInv, TypeOK
<1>3. CASE \E n \in Limits : SetLimit(t, n)
  <2>1. PICK n \in Limits : SetLimit(t, n)
    BY <1>3
  <2> DEFINE d == [client[t] EXCEPT !.limit = n]
  <2>2. d \in Client
    BY <1>1 DEF Client
  <2>3. Good(client[t], d)
    <3>1. /\ d.boot = client[t].boot /\ d.aborted = client[t].aborted /\ d.pc = client[t].pc
          /\ d.jobs = client[t].jobs /\ d.recovered = client[t].recovered
          /\ d.flight = client[t].flight
      BY <1>1 DEF Client
    <3> QED
      BY <1>1, <2>2, <3>1, SameViewIsGood
  <2>4. BecomePumped(t, d)
    BY <2>1 DEF SetLimit
  <2> QED
    BY <2>1, <2>3, <2>4, PumpedStep DEF SetLimit, runtime, IInv, TypeOK
<1> QED
  BY <1>2, <1>3

(* Reconciliation leaves no record in flight, invents none and links       *)
(* none.                                                                   *)
LEMMA ReconciledIsGood ==
    ASSUME IInv
    PROVE  /\ Reconciled(ledger) \in JobMap
           /\ \A k \in Jobs : /\ Reconciled(ledger)[k].st \notin InFlight
                              /\ Startless(Reconciled(ledger)[k], k)
                              /\ ledger[k].st = "absent" => Reconciled(ledger)[k].st = "absent"
<1>1. ASSUME NEW k \in Jobs
      PROVE  /\ Reconciled(ledger)[k] \in JobRecord
             /\ Reconciled(ledger)[k].st \notin InFlight
             /\ Startless(Reconciled(ledger)[k], k)
             /\ ledger[k].st = "absent" => Reconciled(ledger)[k].st = "absent"
  <2>1. ledger[k] \in JobRecord /\ Startless(ledger[k], k)
    BY DEF IInv, TypeOK, JobMap
  <2>2. {"interrupted", "failed"} \subseteq Status \ (InFlight \cup {"queued", "absent"})
    BY DEF Status, Terminal, Active, InFlight
  <2>3. "absent" \notin InFlight /\ "queued" \notin InFlight
    BY DEF InFlight
  <2>4. Reconciled(ledger)[k] = IF ledger[k].st \in InFlight THEN [ledger[k] EXCEPT !.st = "interrupted"]
        ELSE IF ledger[k].st = "queued" /\ k \notin trusted THEN [ledger[k] EXCEPT !.st = "failed"]
        ELSE ledger[k]
    BY DEF Reconciled
  <2> QED
    BY <2>1, <2>2, <2>3, <2>4 DEF JobRecord, Startless
<1>2. Reconciled(ledger) = [k \in Jobs |-> Reconciled(ledger)[k]]
  BY DEF Reconciled
<1>3. Reconciled(ledger) \in JobMap
  BY <1>1, <1>2 DEF JobMap
<1> QED
  BY <1>1, <1>3

(* The boot read of the ledger                                             *)
LEMMA BootGetStep ==
    ASSUME IInv, NEW t \in Tabs, BootGet(t)
    PROVE  IInv' /\ NoCancelledLaunch
<1> DEFINE c == client[t]
           r == Reconciled(ledger)
           d == [c EXCEPT !.boot = "fetching", !.recovered = r]
<1>1. c \in Client /\ ClientInv(c) /\ c.boot # "ready"
  BY DEF IInv, TypeOK, BootGet
<1>2. /\ Become(t, d) /\ ledger' = r
      /\ UNCHANGED <<worktrees, launches, procs, trusted, used, reloads, faults>>
  BY DEF BootGet
<1>3. r \in JobMap /\ \A k \in Jobs : /\ r[k].st \notin InFlight /\ Startless(r[k], k)
                                      /\ ledger[k].st = "absent" => r[k].st = "absent"
  BY ReconciledIsGood
<1> HIDE DEF c, r
<1>5. d \in Client
  BY <1>1, <1>3 DEF Client
<1>6. /\ d.boot = "fetching" /\ d.aborted = c.aborted /\ d.pc = c.pc /\ d.jobs = c.jobs
      /\ d.recovered = r /\ d.flight = c.flight
  BY <1>1 DEF Client
<1> HIDE DEF d
<1>7. ClientInv(d)
  BY <1>1, <1>3, <1>6 DEF ClientInv, RowMatches
<1>8. \A k \in Jobs \ used : r[k].st = "absent"
  BY <1>3 DEF IInv
<1>9. LedgerInv'
  BY <1>2, <1>3, <1>8 DEF LedgerInv, Startless
<1>10. \A k \in Jobs : NoEntry(c, d, k)
  BY <1>6 DEF NoEntry
<1>11. \A k \in Jobs \ used : Unknown(c, k) => Unknown(d, k)
  BY <1>6, <1>8 DEF Unknown
<1> QED
  BY <1>2, <1>5, <1>7, <1>9, <1>10, <1>11, ClientStep DEF c, IInv, TypeOK

(* The empty job map                                                       *)
LEMMA NoJobsIsTyped ==
    NoJobs \in JobMap /\ \A k \in Jobs : NoJobs[k].st = "absent" /\ NoJobs[k].link = "none"
  BY DEF NoJobs, JobMap, Absent, JobRecord, Status, Link

(* initializeAutomationJobs merges what it read.                           *)
LEMMA BootMergeStep ==
    ASSUME IInv, NEW t \in Tabs, BootMerge(t)
    PROVE  IInv' /\ NoCancelledLaunch
<1> DEFINE c == client[t]
           m == [j \in Jobs |-> IF c.jobs[j].st = "absent" THEN c.recovered[j] ELSE c.jobs[j]]
           D == c.durable \cup {j \in Jobs : c.recovered[j].st = "queued"}
           d == [c EXCEPT !.boot = "ready", !.jobs = m, !.durable = D, !.lastPut = c.recovered,
                          !.recovered = NoJobs, !.timer = m # c.recovered]
<1>1. c \in Client /\ ClientInv(c) /\ c.boot = "fetching"
  BY DEF IInv, TypeOK, BootMerge
<1>2. BecomePumped(t, d) /\ UNCHANGED <<runtime, trusted, used, reloads, faults>>
  BY DEF BootMerge
<1> HIDE DEF c
<1>3. m \in JobMap /\ D \subseteq Jobs
  BY <1>1 DEF Client, JobMap
<1>4. \A k \in Jobs : m[k] = IF c.jobs[k].st = "absent" THEN c.recovered[k] ELSE c.jobs[k]
  OBVIOUS
<1> HIDE DEF m, D
<1>5. d \in Client
  <2>1. (m # c.recovered) \in BOOLEAN
    OBVIOUS
  <2> QED
    BY <1>1, <1>3, <2>1, NoJobsIsTyped DEF Client
<1>6. /\ d.boot = "ready" /\ d.aborted = c.aborted /\ d.pc = c.pc /\ d.jobs = m
      /\ d.recovered = NoJobs /\ d.flight = c.flight
  BY <1>1 DEF Client
<1> HIDE DEF d
<1>7. c.aborted = {} /\ \A k \in Jobs : c.pc[k] = "idle"
  BY <1>1 DEF ClientInv
<1>8. ClientInv(d)
  <2>1. \A k \in Jobs : RowMatches(d, k)
    BY <1>1, <1>4, <1>6, <1>7 DEF ClientInv, RowMatches, InFlight, Preparing
  <2>2. \A k \in Jobs : /\ Startless(d.jobs[k], k) /\ Startless(d.recovered[k], k)
                        /\ Startless(d.flight.body[k], k) /\ d.recovered[k].st \notin InFlight
    BY <1>1, <1>4, <1>6, NoJobsIsTyped DEF ClientInv, Startless, InFlight
  <2> QED
    BY <1>6, <1>7, <2>1, <2>2 DEF ClientInv
<1>9. Good(c, d)
  BY <1>4, <1>5, <1>6, <1>8, NoJobsIsTyped DEF Good, NoEntry, Unknown
<1> QED
  BY <1>2, <1>9, PumpedStep DEF c, runtime, IInv, TypeOK

(* The boot read failed.                                                   *)
LEMMA BootFailStep ==
    ASSUME IInv, NEW t \in Tabs, BootFail(t)
    PROVE  IInv' /\ NoCancelledLaunch
<1> DEFINE c == client[t]
           d == [c EXCEPT !.boot = "paused", !.recovered = NoJobs]
<1>1. c \in Client /\ ClientInv(c) /\ c.boot = "fetching"
  BY DEF IInv, TypeOK, BootFail
<1>2. Become(t, d) /\ UNCHANGED <<runtime, trusted, used, reloads>> /\ faults' = faults + 1
  BY DEF BootFail
<1> HIDE DEF c
<1>3. d \in Client
  BY <1>1, NoJobsIsTyped DEF Client
<1>4. /\ d.boot = "paused" /\ d.aborted = c.aborted /\ d.pc = c.pc /\ d.jobs = c.jobs
      /\ d.recovered = NoJobs /\ d.flight = c.flight
  BY <1>1 DEF Client
<1> HIDE DEF d
<1>5. ClientInv(d)
  BY <1>1, <1>4, NoJobsIsTyped DEF ClientInv, RowMatches, Startless, InFlight
<1>6. Good(c, d)
  BY <1>3, <1>4, <1>5, NoJobsIsTyped DEF Good, NoEntry, Unknown
<1>7. faults' \in Nat /\ reloads' \in Nat
  BY <1>2 DEF IInv, TypeOK
<1> QED
  BY <1>2, <1>6, <1>7, QuietStep DEF c, runtime

(* The ledger keeps its part of the invariant when it is not written.      *)
LEMMA LedgerStays ==
    ASSUME IInv, UNCHANGED <<ledger, used>>
    PROVE  LedgerInv'
  BY DEF IInv, TypeOK, LedgerInv

(* The debounced snapshot is queued.                                       *)
LEMMA TimerFiresStep ==
    ASSUME IInv, NEW t \in Tabs, TimerFires(t)
    PROVE  IInv' /\ NoCancelledLaunch
<1> DEFINE c == client[t]
           off == [c EXCEPT !.timer = FALSE]
<1>1. c \in Client /\ ClientInv(c)
  BY DEF IInv, TypeOK
<1>2. /\ Become(t, off) \/ Become(t, Push(off, SyncTask))
      /\ UNCHANGED <<runtime, trusted, used, reloads, faults>>
  BY DEF TimerFires
<1> HIDE DEF c
<1>3. off \in Client
  BY <1>1 DEF Client
<1>4. /\ off.boot = c.boot /\ off.aborted = c.aborted /\ off.pc = c.pc
      /\ off.jobs = c.jobs /\ off.recovered = c.recovered /\ off.flight = c.flight
  BY <1>1 DEF Client
<1> HIDE DEF off
<1>5. Good(c, off)
  BY <1>1, <1>3, <1>4, SameViewIsGood
<1>6. Good(c, Push(off, SyncTask))
  <2>1. SyncTask \in Task
    BY DEF Task
  <2> QED
    BY <1>5, <2>1, PushIsGood, GoodIsTransitive DEF Good
<1> QED
  BY <1>2, <1>5, <1>6, QuietStep DEF c, runtime, IInv, TypeOK

(* The next write reads the store and is sent.                             *)
LEMMA WriteStartsStep ==
    ASSUME IInv, NEW t \in Tabs, WriteStarts(t)
    PROVE  IInv' /\ NoCancelledLaunch
<1> DEFINE c == client[t]
           task == Head(c.chain)
           f == IF Needed(c, task) THEN [task |-> task, body |-> Body(c, task), reply |-> "sent"]
                ELSE [task |-> task, body |-> NoJobs, reply |-> "noop"]
           d == [c EXCEPT !.chain = Tail(c.chain), !.flight = f]
<1>1. c \in Client /\ ClientInv(c) /\ c.chain # <<>>
  BY DEF IInv, TypeOK, WriteStarts
<1>2. Become(t, d) /\ UNCHANGED <<runtime, trusted, used, reloads, faults>>
  BY DEF WriteStarts
<1> HIDE DEF c
<1>3. task \in Task /\ Tail(c.chain) \in Seq(Task)
  <2>1. c.chain \in Seq(Task)
    BY <1>1 DEF Client
  <2> QED
    BY <1>1, <2>1
<1> HIDE DEF task
<1>4. \A k \in Jobs : f.body[k] = c.jobs[k] \/ f.body[k] = NoJobs[k]
  BY DEF Body, NoJobs
<1>5. f \in Flight
  <2>1. Body(c, task) \in JobMap
    <3>1. c.jobs \in JobMap /\ Absent \in JobRecord
      BY <1>1, NoJobsIsTyped DEF Client, NoJobs, Absent, JobRecord, Status, Link
    <3> QED
      BY <3>1 DEF Body, JobMap
  <2> QED
    BY <1>3, <2>1, NoJobsIsTyped DEF Flight, Reply
<1> HIDE DEF f
<1>6. d \in Client
  BY <1>1, <1>3, <1>5 DEF Client
<1>7. /\ d.boot = c.boot /\ d.aborted = c.aborted /\ d.pc = c.pc /\ d.jobs = c.jobs
      /\ d.recovered = c.recovered /\ d.flight = f
  BY <1>1 DEF Client
<1> HIDE DEF d
<1>8. \A k \in Jobs : Startless(d.flight.body[k], k)
  BY <1>1, <1>4, <1>7, NoJobsIsTyped DEF ClientInv, Startless
<1>9. ClientInv(d)
  BY <1>1, <1>7, <1>8 DEF ClientInv, RowMatches
<1>10. Good(c, d)
  BY <1>4, <1>6, <1>7, <1>9, NoJobsIsTyped DEF Good, NoEntry, Unknown
<1> QED
  BY <1>2, <1>10, QuietStep DEF c, runtime, IInv, TypeOK

(* What a write may leave in the ledger file                               *)
LEMMA WrittenIsGood ==
    ASSUME IInv, NEW t \in Tabs, ledger' = Written(client[t].flight), used' = used
    PROVE  LedgerInv'
<1> DEFINE f == client[t].flight
<1>1. f \in Flight /\ \A k \in Jobs : Startless(f.body[k], k)
  BY DEF IInv, TypeOK, Client, ClientInv
<1>2. \A k \in Jobs \ used : f.body[k].st = "absent"
  BY DEF IInv, Unknown
<1>3. ledger \in JobMap /\ \A k \in Jobs : /\ Startless(ledger[k], k)
                                           /\ k \notin used => ledger[k].st = "absent"
  BY DEF IInv, TypeOK
<1>4. ledger' = Written(f)
  OBVIOUS
<1> HIDE DEF f
<1>5. f.body \in JobMap
  BY <1>1 DEF Flight
<1>6. CASE f.task.op = "sync"
  BY <1>1, <1>2, <1>4, <1>5, <1>6 DEF Written, LedgerInv
<1>7. CASE f.task.op # "sync"
  <2>1. f.task.job \in Jobs
    BY <1>1, <1>7, TaskSorts DEF Flight
  <2>2. f.body[f.task.job] \in JobRecord
    BY <1>5, <2>1 DEF JobMap
  <2>3. ledger' = [ledger EXCEPT ![f.task.job] = f.body[f.task.job]]
    BY <1>4, <1>7 DEF Written
  <2>4. ledger' \in JobMap /\ \A k \in Jobs : ledger'[k] = IF k = f.task.job THEN f.body[k] ELSE ledger[k]
    BY <1>3, <2>1, <2>2, <2>3 DEF JobMap
  <2> QED
    BY <1>1, <1>2, <1>3, <2>4 DEF LedgerInv, Startless
<1> QED
  BY <1>6, <1>7

(* An answer arrives at a client.                                          *)
LEMMA AnswerStep ==
    ASSUME IInv, NEW t \in Tabs, NEW r \in Reply, Answer(t, r),
           UNCHANGED <<used, trusted, worktrees, launches, procs>>, LedgerInv',
           reloads' \in Nat, faults' \in Nat
    PROVE  IInv' /\ NoCancelledLaunch
<1> DEFINE c == client[t]
           f == [c.flight EXCEPT !.reply = r]
           d == [c EXCEPT !.flight = f]
<1>1. c \in Client
  BY DEF IInv, TypeOK
<1>2. Become(t, d)
  BY DEF Answer
<1> HIDE DEF c
<1>3. f \in Flight /\ f.body = c.flight.body
  BY <1>1 DEF Client, Flight
<1> HIDE DEF f
<1>4. d \in Client
  BY <1>1, <1>3 DEF Client
<1>5. /\ d.boot = c.boot /\ d.aborted = c.aborted /\ d.pc = c.pc /\ d.jobs = c.jobs
      /\ d.recovered = c.recovered /\ d.flight = f
  BY <1>1 DEF Client
<1> QED
  BY <1>2, <1>3, <1>4, <1>5, SameViewStep DEF c

(* The runtime executes a write, or rejects it.                            *)
LEMMA ServerWritesStep ==
    ASSUME IInv, NEW t \in Tabs, ServerWrites(t)
    PROVE  IInv' /\ NoCancelledLaunch
<1>1. \E r \in Reply : Answer(t, r)
  BY DEF ServerWrites, Reply
<1>2. ledger' = ledger \/ ledger' = Written(client[t].flight)
  BY DEF ServerWrites
<1>3. LedgerInv'
  BY <1>2, LedgerStays, WrittenIsGood DEF ServerWrites
<1> QED
  BY <1>1, <1>3, AnswerStep DEF ServerWrites, IInv, TypeOK

(* A write fails.                                                          *)
LEMMA WriteFaultStep ==
    ASSUME IInv, NEW t \in Tabs, WriteFault(t)
    PROVE  IInv' /\ NoCancelledLaunch
<1>1. "error" \in Reply /\ Answer(t, "error")
  BY DEF WriteFault, Reply
<1>2. LedgerInv'
  BY LedgerStays, WrittenIsGood DEF WriteFault
<1>3. faults' \in Nat /\ reloads' \in Nat
  BY DEF WriteFault, IInv, TypeOK
<1> QED
  BY <1>1, <1>2, <1>3, AnswerStep DEF WriteFault

(* What taking the write off the chain leaves alone.                       *)
LEMMA SettleFields ==
    ASSUME NEW c \in Client
    PROVE  /\ Settle(c).boot = c.boot /\ Settle(c).aborted = c.aborted /\ Settle(c).pc = c.pc
           /\ Settle(c).jobs = c.jobs /\ Settle(c).recovered = c.recovered
  BY DEF Settle, Client

(* The client and what its inflight write leaves behind                    *)
LEMMA SettledClient ==
    ASSUME IInv, NEW t \in Tabs
    PROVE  /\ client[t] \in Client /\ ClientInv(client[t])
           /\ Good(client[t], client[t]) /\ Good(client[t], Settle(client[t]))
  BY GoodRefl, SettleIsGood DEF IInv, TypeOK

(* persistNewJobBeforeRun after its write                                  *)
LEMMA NewJobPersistedStep ==
    ASSUME IInv, NEW t \in Tabs, NewJobPersisted(t)
    PROVE  IInv' /\ NoCancelledLaunch
<1> DEFINE c == Settle(client[t])
           j == client[t].flight.task.job
           b == [c EXCEPT !.durable = c.durable \cup {j}]
<1>1. /\ \/ Become(t, Patch(c, j, "failed"))
         \/ BecomePumped(t, b)
         \/ BecomePumped(t, c)
      /\ UNCHANGED <<runtime, trusted, used, reloads, faults>>
  BY DEF NewJobPersisted
<1>2. client[t] \in Client /\ ClientInv(client[t])
  BY SettledClient
<1>3. j \in Jobs
  BY <1>2, TaskSorts DEF NewJobPersisted, Client, Flight
<1>4. Good(client[t], c) /\ c \in Client /\ ClientInv(c)
  BY SettledClient DEF Good
<1> HIDE DEF c, j
<1>5. Good(client[t], Patch(c, j, "failed"))
  <2>1. "failed" \in Terminal
    BY DEF Terminal
  <2> QED
    BY <1>3, <1>4, <2>1, PatchIsGood, GoodIsTransitive
<1>6. Good(client[t], b)
  <2>1. b \in Client
    BY <1>3, <1>4 DEF Client
  <2>2. /\ b.boot = c.boot /\ b.aborted = c.aborted /\ b.pc = c.pc /\ b.jobs = c.jobs
        /\ b.recovered = c.recovered /\ b.flight = c.flight
    BY <1>4 DEF Client
  <2> HIDE DEF b
  <2>3. Good(c, b)
    BY <1>4, <2>1, <2>2, SameViewIsGood
  <2> QED
    BY <1>4, <2>3, GoodIsTransitive
<1> HIDE DEF b
<1> QED
  BY <1>1, <1>4, <1>5, <1>6, QuietStep, PumpedStep DEF runtime, IInv, TypeOK

(* A write nobody waits for was answered.                                  *)
LEMMA UnawaitedPersistedStep ==
    ASSUME IInv, NEW t \in Tabs, UnawaitedPersisted(t)
    PROVE  IInv' /\ NoCancelledLaunch
  BY SettledClient, QuietStep DEF UnawaitedPersisted, runtime, IInv, TypeOK

(* The snapshot was answered.                                              *)
LEMMA SyncPersistedStep ==
    ASSUME IInv, NEW t \in Tabs, SyncPersisted(t)
    PROVE  IInv' /\ NoCancelledLaunch
<1> DEFINE c == Settle(client[t])
           a == [c EXCEPT !.lastPut = client[t].flight.body]
           b == [c EXCEPT !.timer = TRUE]
<1>1. /\ Become(t, a) \/ Become(t, b) \/ Become(t, c)
      /\ UNCHANGED <<runtime, trusted, used, reloads, faults>>
  BY DEF SyncPersisted
<1>2. Good(client[t], c) /\ c \in Client /\ ClientInv(c)
  BY SettledClient DEF Good
<1>3. client[t].flight.body \in JobMap
  BY SettledClient DEF Client, Flight
<1> HIDE DEF c
<1>4. a \in Client /\ b \in Client
  BY <1>2, <1>3 DEF Client
<1>5. /\ a.boot = c.boot /\ a.aborted = c.aborted /\ a.pc = c.pc /\ a.jobs = c.jobs
      /\ a.recovered = c.recovered /\ a.flight = c.flight
  BY <1>2 DEF Client
<1>6. /\ b.boot = c.boot /\ b.aborted = c.aborted /\ b.pc = c.pc /\ b.jobs = c.jobs
      /\ b.recovered = c.recovered /\ b.flight = c.flight
  BY <1>2 DEF Client
<1> HIDE DEF a, b
<1>7. Good(client[t], a) /\ Good(client[t], b)
  BY <1>2, <1>4, <1>5, <1>6, SameViewIsGood, GoodIsTransitive
<1> QED
  BY <1>1, <1>2, <1>7, QuietStep DEF runtime, IInv, TypeOK

(* The ways a runner gives up                                              *)

(* ... after a write that could not be saved                               *)
LEMMA GiveUpStep ==
    ASSUME IInv, NEW t \in Tabs, NEW j \in Jobs, NEW c, Good(client[t], c), GiveUp(t, j, c),
           UNCHANGED <<ledger, used, trusted, worktrees, launches, procs, reloads, faults>>
    PROVE  IInv' /\ NoCancelledLaunch
<1> DEFINE a == Patch(c, j, "failed")
           b == Cleanup(a, j)
           d == Push(b, CurrentTask(j))
<1>1. "failed" \in Terminal
  BY DEF Terminal
<1>2. Good(c, a) /\ a.jobs[j].st \notin Active
  BY <1>1, PatchIsGood DEF Good
<1> HIDE DEF a
<1>3. Good(a, b)
  BY <1>2, CleanupIsGood DEF Good
<1> HIDE DEF b
<1>4. Good(b, d)
  BY <1>3, PushIsGood, TasksAreTyped DEF Good
<1>5. BecomePumped(t, d)
  BY DEF GiveUp, a, b
<1> HIDE DEF d
<1>6. Good(client[t], d)
  BY <1>2, <1>3, <1>4, GoodIsTransitive
<1> QED
  BY <1>5, <1>6, PumpedStep DEF IInv, TypeOK

(* ... after a cancellation                                                *)
LEMMA UnwindStep ==
    ASSUME IInv, NEW t \in Tabs, NEW j \in Jobs, NEW c, Good(client[t], c), Cancelled(c, j),
           BecomePumped(t, Cleanup(c, j)),
           UNCHANGED <<ledger, used, trusted, worktrees, launches, procs, reloads, faults>>
    PROVE  IInv' /\ NoCancelledLaunch
<1>1. c.jobs[j].st \notin Active
  BY DEF Cancelled, Good, ClientInv, Active, InFlight
<1>2. Good(c, Cleanup(c, j))
  BY <1>1, CleanupIsGood DEF Good
<1> QED
  BY <1>2, GoodIsTransitive, PumpedStep DEF IInv, TypeOK

(* Reporting status s at the end of a run                                  *)
LEMMA ReportIsGood ==
    ASSUME NEW c \in Client, ClientInv(c), NEW j \in Jobs, c.pc[j] # "idle", NEW s \in Terminal,
           NEW p \in {"persistEnd", "persistOutcome"}
    PROVE  /\ Good(c, Await(Patch(c, j, s), j, p))
           /\ Await(Patch(c, j, s), j, p).pc[j] = p
<1>1. c.jobs[j].link \in Link
  BY JobMapIsTyped DEF Client
<1>2. s \in Status /\ s \notin Active
  BY DEF Status, Terminal, Active, InFlight
<1>3. Fits(c, j, s, p) /\ p \notin Holding
  BY <1>2 DEF Fits, Suspended, Active, InFlight, Holding
<1>4. Good(c, Await(Patch(c, j, s), j, p))
  BY <1>1, <1>2, <1>3, AwaitMoveIsGood DEF Patch
<1>5. Await(Patch(c, j, s), j, p).pc[j] = p
  <2> DEFINE a == Suspend(Patch(c, j, s), j, p)
  <2>1. GoodBut(c, a, j) /\ a.pc[j] = p
    BY <1>1, <1>2, <1>3, MoveIsGood DEF Patch
  <2>2. Await(Patch(c, j, s), j, p) = Push(a, AwaitedTask(j))
    BY DEF Await
  <2> HIDE DEF a
  <2>3. Push(a, AwaitedTask(j)).pc = a.pc
    BY <2>1 DEF Push, Client, GoodBut
  <2> QED
    BY <2>1, <2>2, <2>3
<1> QED
  BY <1>4, <1>5

(* The ways a run is reported: its outcome, or the catch of what follows   *)
(* it.                                                                     *)
LEMMA OutcomeReports ==
    ASSUME NEW t \in Tabs, NEW j \in Jobs, NEW c, Outcome(t, j, c) \/ Catch(t, j, c)
    PROVE  \E s \in Terminal, p \in {"persistEnd", "persistOutcome"} :
               Become(t, Await(Patch(c, j, s), j, p))
  BY DEF Outcome, Catch, Terminal

(* ... in the catch of the preparation block                               *)
LEMMA AbandonStep ==
    ASSUME IInv, NEW t \in Tabs, NEW j \in Jobs, NEW c, Good(client[t], c), c.pc[j] # "idle",
           Abandon(t, j, c),
           UNCHANGED <<ledger, used, trusted, worktrees, launches, procs, reloads, faults>>
    PROVE  IInv' /\ NoCancelledLaunch
<1>1. CASE j \in c.aborted
  <2>1. BecomePumped(t, Cleanup(c, j)) /\ Cancelled(c, j)
    BY <1>1 DEF Abandon, Cancelled
  <2> QED
    BY <2>1, UnwindStep
<1>2. CASE j \notin c.aborted
  <2>1. Become(t, Await(Patch(c, j, "failed"), j, "persistEnd")) /\ "failed" \in Terminal
    BY <1>2 DEF Abandon, Terminal
  <2>2. Good(client[t], Await(Patch(c, j, "failed"), j, "persistEnd"))
    BY <2>1, ReportIsGood, GoodIsTransitive DEF Good
  <2> QED
    BY <2>1, <2>2, QuietStep DEF IInv, TypeOK
<1> QED
  BY <1>1, <1>2

(* A runner moves on to an await that enters no worktree and no agent.     *)
LEMMA SuspendStep ==
    ASSUME IInv, NEW t \in Tabs, NEW j \in Jobs, NEW c, Good(client[t], c), NEW p,
           Become(t, Suspend(c, j, p)), Fits(c, j, c.jobs[j].st, p),
           p \in {"persistStart", "policy", "worktreeAdd"} /\ j \notin Linked => c.jobs[j].link = "none",
           j \notin Linked /\ p \in Holding => c.pc[j] \in Holding, p # "harness",
           UNCHANGED <<ledger, used, trusted, worktrees, launches, procs, reloads, faults>>
    PROVE  IInv' /\ NoCancelledLaunch
<1> DEFINE d == Suspend(c, j, p)
<1>1. GoodBut(c, d, j) /\ d.pc[j] = p
  BY SuspendIsGood DEF Good
<1>2. Become(t, d)
  OBVIOUS
<1> HIDE DEF d
<1>3. Good(c, d)
  BY <1>1, GoodButOne DEF NoEntry
<1>4. Good(client[t], d)
  BY <1>3, GoodIsTransitive
<1> QED
  BY <1>2, <1>4, QuietStep DEF IInv, TypeOK

-----------------------------------------------------------------------------
(* The steps of a runner                                                   *)

(* A runner whose write was answered goes on with that write taken off.    *)
LEMMA ResumedRunner ==
    ASSUME IInv, NEW t \in Tabs, NEW j \in Jobs, NEW p, Resumes(t, j, p)
    PROVE  LET c == Settle(client[t])
           IN  /\ c \in Client /\ ClientInv(c) /\ Good(client[t], c)
               /\ c.pc[j] = p /\ client[t].pc[j] = p
<1>1. Good(client[t], Settle(client[t])) /\ client[t] \in Client
  BY SettledClient
<1>2. Settle(client[t]).pc[j] = p /\ client[t].pc[j] = p
  BY <1>1, SettleFields DEF Resumes
<1> QED
  BY <1>1, <1>2 DEF Good

(* The starting marker was saved, or not.                                  *)
LEMMA StartPersistedStep ==
    ASSUME IInv, NEW t \in Tabs, NEW j \in Jobs, StartPersisted(t, j)
    PROVE  IInv' /\ NoCancelledLaunch
<1> DEFINE c == Settle(client[t])
<1>1. /\ c \in Client /\ ClientInv(c) /\ Good(client[t], c) /\ c.pc[j] = "persistStart"
  BY ResumedRunner DEF StartPersisted
<1>2. UNCHANGED <<ledger, used, trusted, worktrees, launches, procs, reloads, faults>>
  BY DEF StartPersisted, runtime
<1>3. \/ GiveUp(t, j, c)
      \/ Cancelled(c, j) /\ BecomePumped(t, Cleanup(c, j))
      \/ ~Cancelled(c, j) /\ Become(t, Await(Patch(c, j, "skipped"), j, "persistEnd"))
      \/ ~Cancelled(c, j) /\ Become(t, Suspend(c, j, "policy"))
  BY DEF StartPersisted
<1> HIDE DEF c
<1>4. CASE GiveUp(t, j, c)
  BY <1>1, <1>2, <1>4, GiveUpStep
<1>5. CASE Cancelled(c, j) /\ BecomePumped(t, Cleanup(c, j))
  BY <1>1, <1>2, <1>5, UnwindStep
<1>6. CASE ~Cancelled(c, j) /\ Become(t, Await(Patch(c, j, "skipped"), j, "persistEnd"))
  <2>1. "skipped" \in Terminal
    BY DEF Terminal
  <2>2. Good(client[t], Await(Patch(c, j, "skipped"), j, "persistEnd"))
    BY <1>1, <2>1, ReportIsGood, GoodIsTransitive
  <2> QED
    BY <1>2, <1>6, <2>2, QuietStep DEF IInv, TypeOK
<1>7. CASE ~Cancelled(c, j) /\ Become(t, Suspend(c, j, "policy"))
  <2>1. Fits(c, j, c.jobs[j].st, "policy")
    BY <1>1, <1>7 DEF Fits, ClientInv, RowMatches, Suspended, Preparing, Cancelled
  <2>2. j \notin Linked => c.jobs[j].link = "none"
    BY <1>1 DEF ClientInv
  <2> QED
    BY <1>1, <1>2, <1>7, <2>1, <2>2, SuspendStep DEF Holding
<1> QED
  BY <1>3, <1>4, <1>5, <1>6, <1>7

(* Trust and Git status of the source checkout                             *)
LEMMA PolicyDecidesStep ==
    ASSUME IInv, NEW t \in Tabs, NEW j \in Jobs, PolicyDecides(t, j)
    PROVE  IInv' /\ NoCancelledLaunch
<1> DEFINE c == client[t]
           p == IF c.jobs[j].link = "none" THEN "worktreeAdd" ELSE "verify"
<1>1. /\ c \in Client /\ ClientInv(c) /\ Good(client[t], c) /\ c.pc[j] = "policy"
  BY SettledClient DEF PolicyDecides
<1>2. UNCHANGED <<ledger, used, trusted, worktrees, launches, procs, reloads, faults>>
  BY DEF PolicyDecides, runtime
<1>3. Become(t, Suspend(c, j, p)) \/ Abandon(t, j, c)
  BY DEF PolicyDecides
<1>4. j \notin Linked => c.jobs[j].link = "none"
  BY <1>1 DEF ClientInv
<1>5. p \in {"worktreeAdd", "verify"} /\ (j \notin Linked => p = "worktreeAdd")
  BY <1>4
<1> HIDE DEF c, p
<1>6. CASE Become(t, Suspend(c, j, p))
  <2>1. Fits(c, j, c.jobs[j].st, p)
    BY <1>1, <1>5 DEF Fits, ClientInv, RowMatches, Suspended, Preparing
  <2> QED
    BY <1>1, <1>2, <1>4, <1>5, <1>6, <2>1, SuspendStep DEF Holding
<1>7. CASE Abandon(t, j, c)
  BY <1>1, <1>2, <1>7, AbandonStep
<1> QED
  BY <1>3, <1>6, <1>7

(* onCreated links the worktree to the job.                                *)
LEMMA WorktreeMadeStep ==
    ASSUME IInv, NEW t \in Tabs, NEW j \in Jobs, WorktreeMade(t, j)
    PROVE  IInv' /\ NoCancelledLaunch
<1> DEFINE c == client[t]
           d == Await(PatchLink(c, j, c.jobs[j].st, "worktree"), j, "persistLink")
<1>1. /\ c \in Client /\ ClientInv(c) /\ Good(client[t], c) /\ c.pc[j] = "worktreeMade"
  BY SettledClient DEF WorktreeMade
<1>2. UNCHANGED <<ledger, used, trusted, worktrees, launches, procs, reloads, faults>>
  BY DEF WorktreeMade, runtime
<1>3. Become(t, d) \/ Abandon(t, j, c)
  BY DEF WorktreeMade
<1> HIDE DEF c
<1>4. Good(client[t], d)
  <2>1. c.jobs[j].st \in Status /\ "worktree" \in Link
    BY <1>1, JobMapIsTyped DEF Client, Link
  <2>2. Fits(c, j, c.jobs[j].st, "persistLink")
    BY <1>1 DEF Fits, ClientInv, RowMatches, Suspended, Preparing
  <2>3. c.pc[j] \in Holding
    BY <1>1 DEF Holding
  <2> QED
    BY <1>1, <2>1, <2>2, <2>3, AwaitMoveIsGood, GoodIsTransitive
<1>5. CASE Become(t, d)
  BY <1>2, <1>4, <1>5, QuietStep DEF IInv, TypeOK
<1>6. CASE Abandon(t, j, c)
  BY <1>1, <1>2, <1>6, AbandonStep
<1> QED
  BY <1>3, <1>5, <1>6

(* The link was saved, or not.                                             *)
LEMMA LinkPersistedStep ==
    ASSUME IInv, NEW t \in Tabs, NEW j \in Jobs, LinkPersisted(t, j)
    PROVE  IInv' /\ NoCancelledLaunch
<1> DEFINE c == Settle(client[t])
<1>1. /\ c \in Client /\ ClientInv(c) /\ Good(client[t], c) /\ c.pc[j] = "persistLink"
  BY ResumedRunner DEF LinkPersisted
<1>2. UNCHANGED <<ledger, used, trusted, worktrees, launches, procs, reloads, faults>>
  BY DEF LinkPersisted, runtime
<1>3. Become(t, Suspend(c, j, "verify")) \/ Abandon(t, j, c)
  BY DEF LinkPersisted
<1> HIDE DEF c
<1>4. CASE Become(t, Suspend(c, j, "verify"))
  <2>1. Fits(c, j, c.jobs[j].st, "verify")
    BY <1>1 DEF Fits, ClientInv, RowMatches, Suspended, Preparing
  <2> QED
    BY <1>1, <1>2, <1>4, <2>1, SuspendStep DEF Holding
<1>5. CASE Abandon(t, j, c)
  BY <1>1, <1>2, <1>5, AbandonStep
<1> QED
  BY <1>3, <1>4, <1>5

(* The worktree was verified, and the session created.                     *)
LEMMA VerifiedStep ==
    ASSUME IInv, NEW t \in Tabs, NEW j \in Jobs, Verified(t, j)
    PROVE  IInv' /\ NoCancelledLaunch
<1> DEFINE c == client[t]
           d == Await(PatchLink(c, j, "running", "session"), j, "persistRun")
<1>1. /\ c \in Client /\ ClientInv(c) /\ Good(client[t], c) /\ c.pc[j] = "verify"
  BY SettledClient DEF Verified
<1>2. UNCHANGED <<ledger, used, trusted, worktrees, launches, procs, reloads, faults>>
  BY DEF Verified, runtime
<1>3. \/ Abandon(t, j, c)
      \/ Cancelled(c, j) /\ BecomePumped(t, Cleanup(c, j))
      \/ ~Cancelled(c, j) /\ Become(t, d)
  BY DEF Verified
<1> HIDE DEF c
<1>4. CASE Abandon(t, j, c)
  BY <1>1, <1>2, <1>4, AbandonStep
<1>5. CASE Cancelled(c, j) /\ BecomePumped(t, Cleanup(c, j))
  BY <1>1, <1>2, <1>5, UnwindStep
<1>6. CASE ~Cancelled(c, j) /\ Become(t, d)
  <2>1. "running" \in Status /\ "session" \in Link
    BY DEF Status, Active, InFlight, Link
  <2>2. Fits(c, j, "running", "persistRun")
    BY <1>1, <1>6 DEF Fits, Suspended, Cancelled
  <2>3. c.pc[j] \in Holding
    BY <1>1 DEF Holding
  <2>4. Good(client[t], d)
    BY <1>1, <2>1, <2>2, <2>3, AwaitMoveIsGood, GoodIsTransitive
  <2> QED
    BY <1>2, <1>6, <2>4, QuietStep DEF IInv, TypeOK
<1> QED
  BY <1>3, <1>4, <1>5, <1>6

(* The last write of a runner was answered.                                *)
LEMMA EndPersistedStep ==
    ASSUME IInv, NEW t \in Tabs, NEW j \in Jobs, EndPersisted(t, j)
    PROVE  IInv' /\ NoCancelledLaunch
<1> DEFINE c == Settle(client[t])
<1>1. /\ c \in Client /\ ClientInv(c) /\ Good(client[t], c) /\ c.pc[j] = "persistEnd"
  BY ResumedRunner DEF EndPersisted
<1>2. /\ BecomePumped(t, Cleanup(c, j))
      /\ UNCHANGED <<ledger, used, trusted, worktrees, launches, procs, reloads, faults>>
  BY DEF EndPersisted, runtime
<1> HIDE DEF c
<1>3. c.jobs[j].st \notin Active
  BY <1>1 DEF ClientInv, RowMatches, Preparing, Active, InFlight
<1>4. Good(client[t], Cleanup(c, j))
  BY <1>1, <1>3, CleanupIsGood, GoodIsTransitive
<1> QED
  BY <1>2, <1>4, PumpedStep DEF IInv, TypeOK

-----------------------------------------------------------------------------
(* The steps that make a worktree, launch an agent, or see it end          *)

(* The runner of job j enters a worktree or an agent: what is left to      *)
(* show is the token and the processes of job j.                           *)
LEMMA EntryStep ==
    ASSUME IInv, NEW t \in Tabs, NEW j \in Jobs, NEW d, Become(t, d), GoodBut(client[t], d, j),
           UNCHANGED <<ledger, used, trusted, reloads, faults>>,
           worktrees' \subseteq Jobs, launches' \in [Jobs -> Nat], procs' \in [Jobs -> Nat],
           WorktreeIsToken', \A k \in Jobs : Cardinality(Followers(k)') <= procs'[k],
           d.pc[j] = "harness" => client[t].pc[j] = "harness" \/ ~Cancelled(client[t], j)
    PROVE  IInv' /\ NoCancelledLaunch
<1>1. client \in [Tabs -> Client] /\ d \in Client /\ ClientInv(d)
  BY DEF IInv, TypeOK, GoodBut
<1>2. client' \in [Tabs -> Client]
  BY <1>1, BecomeIsTyped
<1>3. client'[t] = d /\ \A u \in Tabs \ {t} : client'[u] = client[u]
  BY <1>1 DEF Become
<1>4. TypeOK'
  BY <1>2 DEF IInv, TypeOK
<1>5. \A u \in Tabs : ClientInv(client'[u])
  BY <1>1, <1>3 DEF IInv
<1>6. \A k \in Jobs \ used' : ledger'[k].st = "absent" /\ \A u \in Tabs : Unknown(client'[u], k)
  BY <1>3 DEF IInv, GoodBut
<1>7. NoCancelledLaunch
  BY <1>3 DEF NoCancelledLaunch, LaunchStep, GoodBut, NoEntry
<1> QED
  BY <1>4, <1>5, <1>6, <1>7 DEF IInv

(* Nobody but job j's runner changes what it follows, so every other count *)
(* of followers is covered as before.                                      *)
LEMMA OtherFollowers ==
    ASSUME IInv, NEW t \in Tabs, NEW j \in Jobs, NEW d, Become(t, d), GoodBut(client[t], d, j),
           procs' \in [Jobs -> Nat], \A k \in Jobs \ {j} : procs'[k] = procs[k]
    PROVE  \A k \in Jobs \ {j} : Cardinality(Followers(k)') <= procs'[k]
<1> SUFFICES ASSUME NEW k \in Jobs \ {j}
             PROVE  Cardinality(Followers(k)') <= procs'[k]
  OBVIOUS
<1>1. client'[t] = d /\ \A u \in Tabs \ {t} : client'[u] = client[u]
  BY DEF IInv, TypeOK, Become
<1>2. Followers(k)' \subseteq Followers(k)
  BY <1>1 DEF Followers, GoodBut, NoEntry
<1>3. IsFiniteSet(Followers(k)) /\ IsFiniteSet(Followers(k)')
  BY FS_Subset, TabsAssumption DEF Followers
<1>4. Cardinality(Followers(k)') <= Cardinality(Followers(k))
  BY <1>2, <1>3, FS_Subset
<1>5. Cardinality(Followers(k)) <= procs[k] /\ procs'[k] = procs[k] /\ procs[k] \in Nat
  BY DEF IInv, TypeOK
<1>6. Cardinality(Followers(k)) \in Nat /\ Cardinality(Followers(k)') \in Nat
  BY <1>3, FS_CardinalityType
<1> QED
  BY <1>4, <1>5, <1>6

(* git worktree add                                                        *)
LEMMA WorktreeAddStep ==
    ASSUME IInv, NEW t \in Tabs, NEW j \in Jobs, WorktreeAdd(t, j)
    PROVE  IInv' /\ NoCancelledLaunch
<1> DEFINE c == client[t]
           d == Suspend(c, j, "worktreeMade")
<1>1. /\ c \in Client /\ ClientInv(c) /\ Good(client[t], c) /\ c.pc[j] = "worktreeAdd"
  BY SettledClient DEF WorktreeAdd
<1>2. UNCHANGED <<ledger, used, trusted, launches, procs, reloads, faults>>
  BY DEF WorktreeAdd
<1>3. \/ j \notin worktrees /\ worktrees' = worktrees \cup {j} /\ Become(t, d)
      \/ UNCHANGED worktrees /\ Abandon(t, j, c)
  BY DEF WorktreeAdd
<1>4. CASE j \notin worktrees /\ worktrees' = worktrees \cup {j} /\ Become(t, d)
  <2>1. Fits(c, j, c.jobs[j].st, "worktreeMade")
    BY <1>1 DEF Fits, ClientInv, RowMatches, Suspended, Preparing
  <2>2. GoodBut(c, d, j) /\ d.pc[j] = "worktreeMade"
    BY <1>1, <2>1, SuspendIsGood
  <2> HIDE DEF d
  <2>3. client'[t] = d /\ \A u \in Tabs \ {t} : client'[u] = client[u]
    BY <1>4 DEF IInv, TypeOK, Become
  <2>4. \A u \in Tabs : j \notin Linked => client[u].pc[j] \notin Holding
    BY <1>4 DEF IInv, WorktreeIsToken
  <2>5. j \notin Linked => launches[j] = 0
    <3>1. launches[j] \in Nat
      BY DEF IInv, TypeOK
    <3> QED
      BY <1>4, <3>1 DEF IInv, WorktreeIsToken
  <2>6. \A u \in Tabs, k \in Jobs \ Linked :
          client'[u].pc[k] \in Holding => client[u].pc[k] \in Holding \/ (k = j /\ u = t)
    BY <2>2, <2>3 DEF GoodBut, NoEntry
  <2>7. WorktreeIsToken'
    <3> SUFFICES ASSUME NEW k \in Jobs \ Linked
                 PROVE  /\ \A u, v \in Tabs :
                            client'[u].pc[k] \in Holding /\ client'[v].pc[k] \in Holding => u = v
                        /\ \A u \in Tabs :
                            client'[u].pc[k] \in Holding => k \in worktrees' /\ launches'[k] = 0
                        /\ launches'[k] <= 1
                        /\ launches'[k] > 0 => k \in worktrees'
      BY DEF WorktreeIsToken
    <3>1. \A u, v \in Tabs :
            client'[u].pc[k] \in Holding /\ client'[v].pc[k] \in Holding => u = v
      BY <2>4, <2>6 DEF IInv, WorktreeIsToken
    <3>2. \A u \in Tabs : client'[u].pc[k] \in Holding => k \in worktrees' /\ launches'[k] = 0
      BY <1>2, <1>4, <2>5, <2>6 DEF IInv, WorktreeIsToken
    <3>3. launches'[k] <= 1 /\ (launches'[k] > 0 => k \in worktrees')
      BY <1>2, <1>4 DEF IInv, WorktreeIsToken
    <3> QED
      BY <3>1, <3>2, <3>3
  <2>8. \A k \in Jobs \ {j} : Cardinality(Followers(k)') <= procs'[k]
    BY <1>2, <1>4, <2>2, OtherFollowers DEF IInv, TypeOK
  <2>9. Cardinality(Followers(j)') <= procs'[j]
    <3>1. Followers(j)' \subseteq Followers(j)
      BY <2>2, <2>3 DEF Followers
    <3>2. IsFiniteSet(Followers(j)) /\ IsFiniteSet(Followers(j)')
      BY FS_Subset, TabsAssumption DEF Followers
    <3>3. Cardinality(Followers(j)') <= Cardinality(Followers(j))
      BY <3>1, <3>2, FS_Subset
    <3>4. Cardinality(Followers(j)) <= procs[j] /\ procs'[j] = procs[j] /\ procs[j] \in Nat
      BY <1>2 DEF IInv, TypeOK
    <3>5. Cardinality(Followers(j)) \in Nat /\ Cardinality(Followers(j)') \in Nat
      BY <3>2, FS_CardinalityType
    <3> QED
      BY <3>3, <3>4, <3>5
  <2>10. worktrees' \subseteq Jobs /\ launches' \in [Jobs -> Nat] /\ procs' \in [Jobs -> Nat]
    BY <1>2, <1>4 DEF IInv, TypeOK
  <2> QED
    BY <1>2, <1>4, <2>2, <2>7, <2>8, <2>9, <2>10, EntryStep
<1>5. CASE UNCHANGED worktrees /\ Abandon(t, j, c)
  BY <1>1, <1>2, <1>5, AbandonStep
<1> QED
  BY <1>3, <1>4, <1>5

(* A launch uses the token up.                                             *)
LEMMA LaunchKeepsToken ==
    ASSUME IInv, NEW t \in Tabs, NEW j \in Jobs, client[t].pc[j] \in Holding,
           NEW d, Become(t, d), GoodBut(client[t], d, j), d.pc[j] = "harness",
           launches' = [launches EXCEPT ![j] = @ + 1], worktrees' = worktrees
    PROVE  WorktreeIsToken'
<1>1. client'[t] = d /\ \A u \in Tabs \ {t} : client'[u] = client[u]
  BY DEF IInv, TypeOK, Become
<1>2. launches \in [Jobs -> Nat]
  BY DEF IInv, TypeOK
<1>3. client[t].pc[j] \in Holding /\ "harness" \notin Holding
  BY DEF Holding
<1>4. j \notin Linked => /\ launches[j] = 0 /\ j \in worktrees
                         /\ \A u \in Tabs \ {t} : client[u].pc[j] \notin Holding
  BY <1>3 DEF IInv, WorktreeIsToken
<1>5. \A u \in Tabs, k \in Jobs \ Linked :
        client'[u].pc[k] \in Holding => client[u].pc[k] \in Holding /\ k # j
  BY <1>1, <1>3, <1>4 DEF GoodBut, NoEntry
<1> SUFFICES ASSUME NEW k \in Jobs \ Linked
             PROVE  /\ \A u, v \in Tabs :
                        client'[u].pc[k] \in Holding /\ client'[v].pc[k] \in Holding => u = v
                    /\ \A u \in Tabs :
                        client'[u].pc[k] \in Holding => k \in worktrees' /\ launches'[k] = 0
                    /\ launches'[k] <= 1
                    /\ launches'[k] > 0 => k \in worktrees'
  BY DEF WorktreeIsToken
<1>6. launches'[k] = IF k = j THEN 1 ELSE launches[k]
  BY <1>2, <1>4
<1> QED
  BY <1>4, <1>5, <1>6 DEF IInv, WorktreeIsToken

(* An agent is launched.                                                   *)
LEMMA LaunchPreserves ==
    ASSUME IInv, NEW t \in Tabs, NEW j \in Jobs, NEW c, c \in Client, ClientInv(c),
           Good(client[t], c), c.pc[j] = client[t].pc[j], c.pc[j] \in {"persistRun", "approval"},
           ~Cancelled(client[t], j), Become(t, Suspend(c, j, "harness")), Launched(j),
           UNCHANGED <<ledger, worktrees, used, trusted, reloads, faults>>
    PROVE  IInv' /\ NoCancelledLaunch
<1> DEFINE d == Suspend(c, j, "harness")
<1>1. Become(t, d) /\ client[t].pc[j] \in Holding /\ client[t].pc[j] # "harness"
  BY DEF Holding
<1>2. /\ launches' = [launches EXCEPT ![j] = @ + 1]
      /\ procs' = [procs EXCEPT ![j] = @ + 1]
  BY DEF Launched
<1>3. Fits(c, j, c.jobs[j].st, "harness")
  BY DEF Fits, ClientInv, RowMatches, Suspended, Preparing
<1>4. GoodBut(c, d, j) /\ d.pc[j] = "harness"
  BY <1>3, SuspendIsGood
<1> HIDE DEF d
<1>5. GoodBut(client[t], d, j)
  BY <1>4, GoodButAfterGood
<1>6. launches' \in [Jobs -> Nat] /\ procs' \in [Jobs -> Nat]
  BY <1>2 DEF IInv, TypeOK
<1>7. WorktreeIsToken'
  BY <1>1, <1>2, <1>4, <1>5, LaunchKeepsToken
<1>8. \A k \in Jobs \ {j} : Cardinality(Followers(k)') <= procs'[k]
  <2>1. \A k \in Jobs \ {j} : procs'[k] = procs[k]
    BY <1>2 DEF IInv, TypeOK
  <2> QED
    BY <1>1, <1>5, <1>6, <2>1, OtherFollowers
<1>9. Cardinality(Followers(j)') <= procs'[j]
  <2>1. client'[t] = d /\ \A u \in Tabs \ {t} : client'[u] = client[u]
    BY <1>1 DEF IInv, TypeOK, Become
  <2>2. Followers(j)' = Followers(j) \cup {t} /\ t \notin Followers(j)
    BY <1>1, <1>4, <2>1 DEF Followers
  <2>3. IsFiniteSet(Followers(j))
    BY FS_Subset, TabsAssumption DEF Followers
  <2>4. Cardinality(Followers(j)') = Cardinality(Followers(j)) + 1
    BY <2>2, <2>3, FS_AddElement
  <2>5. Cardinality(Followers(j)) \in Nat
    BY <2>3, FS_CardinalityType
  <2>6. Cardinality(Followers(j)) <= procs[j] /\ procs'[j] = procs[j] + 1 /\ procs[j] \in Nat
    BY <1>2 DEF IInv, TypeOK
  <2> QED
    BY <2>4, <2>5, <2>6
<1>10. worktrees' \subseteq Jobs
  BY DEF IInv, TypeOK
<1>11. \A k \in Jobs : Cardinality(Followers(k)') <= procs'[k]
  BY <1>8, <1>9
<1> QED
  BY <1>1, <1>5, <1>6, <1>7, <1>10, <1>11, EntryStep

(* The linkage was saved: the agent is launched, unless cancelled.         *)
LEMMA RunPersistedStep ==
    ASSUME IInv, NEW t \in Tabs, NEW j \in Jobs, RunPersisted(t, j)
    PROVE  IInv' /\ NoCancelledLaunch
<1> DEFINE c == Settle(client[t])
           d == Suspend(c, j, "harness")
<1>1. /\ c \in Client /\ ClientInv(c) /\ Good(client[t], c) /\ c.pc[j] = "persistRun"
      /\ client[t].pc[j] = "persistRun"
  BY ResumedRunner DEF RunPersisted
<1>2. UNCHANGED <<ledger, worktrees, used, trusted, reloads, faults>>
  BY DEF RunPersisted
<1>3. CASE UNCHANGED <<launches, procs>> /\ \/ GiveUp(t, j, c)
                                            \/ Cancelled(c, j) /\ BecomePumped(t, Cleanup(c, j))
  <2> HIDE DEF c
  <2> QED
    BY <1>1, <1>2, <1>3, GiveUpStep, UnwindStep
<1>4. CASE /\ UNCHANGED <<launches, procs>> /\ ~Cancelled(c, j)
           /\ Become(t, Suspend(c, j, "approval"))
  <2> HIDE DEF c
  <2>1. Fits(c, j, c.jobs[j].st, "approval") /\ c.pc[j] \in Holding
    BY <1>1, <1>4 DEF Fits, ClientInv, RowMatches, Suspended, Preparing, Cancelled, Holding
  <2> QED
    BY <1>1, <1>2, <1>4, <2>1, SuspendStep
<1>5. CASE ~Cancelled(c, j) /\ Become(t, d) /\ Launched(j)
  <2>1. ~Cancelled(client[t], j)
    BY <1>5, SettledClient, SettleFields DEF Cancelled
  <2> HIDE DEF c
  <2> QED
    BY <1>1, <1>2, <1>5, <2>1, LaunchPreserves
<1> QED
  BY <1>3, <1>4, <1>5 DEF RunPersisted

(* The user allows the run that asked.                                     *)
LEMMA ApprovalGrantedStep ==
    ASSUME IInv, NEW t \in Tabs, NEW j \in Jobs, ApprovalGranted(t, j)
    PROVE  IInv' /\ NoCancelledLaunch
<1>1. /\ client[t] \in Client /\ ClientInv(client[t]) /\ Good(client[t], client[t])
  BY SettledClient
<1>2. ~Cancelled(client[t], j)
  BY <1>1 DEF ApprovalGranted, Cancelled, ClientInv
<1> QED
  BY <1>1, <1>2, LaunchPreserves DEF ApprovalGranted

(* The run that asked is denied, or withdrawn.                             *)
LEMMA ApprovalEndsStep ==
    ASSUME IInv, NEW t \in Tabs, NEW j \in Jobs, ApprovalEnds(t, j)
    PROVE  IInv' /\ NoCancelledLaunch
<1>1. client[t] \in Client /\ ClientInv(client[t]) /\ client[t].pc[j] # "idle"
  BY SettledClient DEF ApprovalEnds
<1>2. PICK s \in Terminal, p \in {"persistEnd", "persistOutcome"} :
          Become(t, Await(Patch(client[t], j, s), j, p))
  BY OutcomeReports DEF ApprovalEnds
<1>3. Good(client[t], Await(Patch(client[t], j, s), j, p))
  BY <1>1, ReportIsGood
<1> QED
  BY <1>2, <1>3, QuietStep DEF ApprovalEnds, runtime, IInv, TypeOK

(* The outcome was saved, or not.                                          *)
LEMMA OutcomePersistedStep ==
    ASSUME IInv, NEW t \in Tabs, NEW j \in Jobs, OutcomePersisted(t, j)
    PROVE  IInv' /\ NoCancelledLaunch
<1> DEFINE c == Settle(client[t])
<1>1. /\ c \in Client /\ ClientInv(c) /\ Good(client[t], c) /\ c.pc[j] = "persistOutcome"
  BY ResumedRunner DEF OutcomePersisted
<1>2. /\ BecomePumped(t, Cleanup(c, j)) \/ Become(t, Suspend(c, j, "summary"))
      /\ UNCHANGED <<ledger, used, trusted, worktrees, launches, procs, reloads, faults>>
  BY DEF OutcomePersisted, runtime
<1> HIDE DEF c
<1>3. c.jobs[j].st \notin Active
  BY <1>1 DEF ClientInv, RowMatches, Preparing, Active, InFlight
<1>4. Good(client[t], Cleanup(c, j))
  BY <1>1, <1>3, CleanupIsGood, GoodIsTransitive
<1>5. Fits(c, j, c.jobs[j].st, "summary")
  BY <1>1, <1>3 DEF Fits, Suspended, Active, InFlight
<1>6. CASE BecomePumped(t, Cleanup(c, j))
  BY <1>2, <1>4, <1>6, PumpedStep DEF IInv, TypeOK
<1>7. CASE Become(t, Suspend(c, j, "summary"))
  BY <1>1, <1>2, <1>5, <1>7, SuspendStep DEF Holding
<1> QED
  BY <1>2, <1>6, <1>7

(* The lanes were summarised, or not.                                      *)
LEMMA SummarisedStep ==
    ASSUME IInv, NEW t \in Tabs, NEW j \in Jobs, Summarised(t, j)
    PROVE  IInv' /\ NoCancelledLaunch
<1> DEFINE c == client[t]
<1>1. c \in Client /\ ClientInv(c) /\ Good(client[t], c) /\ c.pc[j] = "summary"
  BY SettledClient DEF Summarised
<1>2. /\ BecomePumped(t, Cleanup(c, j)) \/ Catch(t, j, c)
      /\ UNCHANGED <<ledger, used, trusted, worktrees, launches, procs, reloads, faults>>
  BY DEF Summarised, runtime
<1>3. CASE BecomePumped(t, Cleanup(c, j))
  <2>1. c.jobs[j].st \notin Active
    BY <1>1 DEF ClientInv, RowMatches, Preparing, Active, InFlight
  <2>2. Good(c, Cleanup(c, j))
    BY <1>1, <2>1, CleanupIsGood
  <2> QED
    BY <1>2, <1>3, <2>2, PumpedStep DEF IInv, TypeOK
<1>4. CASE Catch(t, j, c)
  <2>1. PICK s \in Terminal, p \in {"persistEnd", "persistOutcome"} :
            Become(t, Await(Patch(c, j, s), j, p))
    BY <1>4, OutcomeReports
  <2>2. Good(c, Await(Patch(c, j, s), j, p))
    BY <1>1, ReportIsGood
  <2> QED
    BY <1>2, <2>1, <2>2, QuietStep DEF IInv, TypeOK
<1> QED
  BY <1>2, <1>3, <1>4

(* The agent ended: its process is no longer counted.                      *)
LEMMA HarnessReturnsStep ==
    ASSUME IInv, NEW t \in Tabs, NEW j \in Jobs, HarnessReturns(t, j)
    PROVE  IInv' /\ NoCancelledLaunch
<1> DEFINE c == client[t]
<1>1. /\ c \in Client /\ ClientInv(c) /\ Good(client[t], c) /\ c.pc[j] = "harness"
  BY SettledClient DEF HarnessReturns
<1>2. /\ procs' = [procs EXCEPT ![j] = @ - 1]
      /\ UNCHANGED <<ledger, worktrees, launches, used, trusted, reloads, faults>>
  BY DEF HarnessReturns
<1>3. PICK s \in Terminal, p \in {"persistEnd", "persistOutcome"} :
          Become(t, Await(Patch(c, j, s), j, p))
  BY OutcomeReports DEF HarnessReturns
<1> DEFINE d == Await(Patch(c, j, s), j, p)
<1>4. Good(c, d) /\ d.pc[j] # "harness"
  BY <1>1, ReportIsGood
<1>5. Become(t, d)
  BY <1>3
<1> HIDE DEF d, c
<1>6. GoodBut(c, d, j)
  BY <1>4 DEF Good, GoodBut
<1>7. client'[t] = d /\ \A u \in Tabs \ {t} : client'[u] = client[u]
  BY <1>5 DEF IInv, TypeOK, Become
<1>8. /\ Followers(j)' = Followers(j) \ {t} /\ t \in Followers(j)
  BY <1>1, <1>4, <1>7 DEF Followers, c
<1>9. IsFiniteSet(Followers(j))
  BY FS_Subset, TabsAssumption DEF Followers
<1>10. /\ Cardinality(Followers(j)') = Cardinality(Followers(j)) - 1
       /\ Cardinality(Followers(j)') \in Nat
  <2>1. IsFiniteSet(Followers(j)')
    BY <1>8, <1>9, FS_Subset
  <2> QED
    BY <1>8, <1>9, <2>1, FS_RemoveElement, FS_CardinalityType
<1>11. /\ procs \in [Jobs -> Nat] /\ Cardinality(Followers(j)) <= procs[j]
       /\ Cardinality(Followers(j)) \in Nat
  BY <1>9, FS_CardinalityType DEF IInv, TypeOK
<1>12. procs[j] - 1 \in Nat /\ Cardinality(Followers(j)') <= procs[j] - 1
  BY <1>10, <1>11
<1>13. procs' \in [Jobs -> Nat] /\ procs'[j] = procs[j] - 1 /\ \A k \in Jobs \ {j} : procs'[k] = procs[k]
  BY <1>2, <1>11, <1>12
<1>14. \A k \in Jobs : Cardinality(Followers(k)') <= procs'[k]
  BY <1>5, <1>6, <1>12, <1>13, OtherFollowers DEF c
<1>15. WorktreeIsToken'
  <2>1. \A u \in Tabs, k \in Jobs \ Linked : client'[u].pc[k] \in Holding => client[u].pc[k] \in Holding
    BY <1>4, <1>7 DEF Good, NoEntry, c
  <2> QED
    BY <1>2, <2>1 DEF IInv, WorktreeIsToken
<1>16. worktrees' \subseteq Jobs /\ launches' \in [Jobs -> Nat]
  BY <1>2 DEF IInv, TypeOK
<1> QED
  BY <1>2, <1>4, <1>5, <1>6, <1>13, <1>14, <1>15, <1>16, EntryStep DEF c

-----------------------------------------------------------------------------
(* Reloads, the runtime's own steps, and the start                         *)

(* A client that just loaded satisfies its part of the invariant.          *)
LEMMA FreshClientKnowsNothing ==
    ASSUME NEW n \in Limits
    PROVE  /\ ClientInv(FreshClient(n))
           /\ \A k \in Jobs : Unknown(FreshClient(n), k)
           /\ \A k \in Jobs : FreshClient(n).pc[k] = "idle"
<1>1. /\ FreshClient(n).jobs = NoJobs /\ FreshClient(n).recovered = NoJobs
      /\ FreshClient(n).flight.body = NoJobs /\ FreshClient(n).aborted = {}
      /\ \A k \in Jobs : FreshClient(n).pc[k] = "idle"
  BY DEF FreshClient, NoFlight
<1>2. \A k \in Jobs : NoJobs[k].st = "absent" /\ NoJobs[k].link = "none"
  BY NoJobsIsTyped
<1> QED
  BY <1>1, <1>2 DEF ClientInv, Unknown, RowMatches, Startless, InFlight

(* A tab reloads or crashes.                                               *)
LEMMA ReloadStep ==
    ASSUME IInv, NEW t \in Tabs, Reload(t)
    PROVE  IInv' /\ NoCancelledLaunch
<1> DEFINE n == client[t].limit
           d == FreshClient(n)
<1>1. n \in Limits
  BY DEF IInv, TypeOK, Client
<1>2. d \in Client /\ ClientInv(d) /\ \A k \in Jobs : Unknown(d, k) /\ d.pc[k] = "idle"
  BY <1>1, FreshClientIsTyped, FreshClientKnowsNothing
<1>3. Become(t, d) /\ UNCHANGED <<worktrees, launches, procs, trusted, used, faults>>
  BY DEF Reload
<1>4. ledger' = ledger \/ ledger' = Written(client[t].flight)
  BY DEF Reload
<1>5. LedgerInv'
  BY <1>3, <1>4, LedgerStays, WrittenIsGood
<1>6. reloads' \in Nat /\ faults' \in Nat
  BY <1>3 DEF Reload, IInv, TypeOK
<1> HIDE DEF d
<1>7. \A k \in Jobs : NoEntry(client[t], d, k)
  BY <1>2 DEF NoEntry, Holding
<1> QED
  BY <1>2, <1>3, <1>5, <1>6, <1>7, ClientStep DEF IInv, TypeOK

(* A process nobody follows ends.                                          *)
LEMMA OrphanExitsStep ==
    ASSUME IInv, NEW j \in Jobs, OrphanExits(j)
    PROVE  IInv' /\ NoCancelledLaunch
<1>1. /\ procs \in [Jobs -> Nat] /\ procs' = [procs EXCEPT ![j] = @ - 1]
      /\ procs[j] > Cardinality(Followers(j))
      /\ UNCHANGED <<client, ledger, worktrees, launches, trusted, used, reloads, faults>>
  BY DEF IInv, TypeOK, OrphanExits
<1>2. Cardinality(Followers(j)) \in Nat
  BY FS_Subset, FS_CardinalityType, TabsAssumption DEF Followers
<1>3. procs[j] - 1 \in Nat /\ Cardinality(Followers(j)) <= procs[j] - 1
  BY <1>1, <1>2
<1>4. procs' \in [Jobs -> Nat] /\ \A k \in Jobs : procs'[k] = IF k = j THEN procs[j] - 1 ELSE procs[k]
  BY <1>1, <1>3
<1>5. \A k \in Jobs : Followers(k)' = Followers(k)
  BY <1>1 DEF Followers
<1>6. \A k \in Jobs : Cardinality(Followers(k)') <= procs'[k]
  BY <1>3, <1>4, <1>5 DEF IInv
<1>7. TypeOK'
  BY <1>1, <1>4 DEF IInv, TypeOK
<1>8. WorktreeIsToken'
  BY <1>1 DEF IInv, WorktreeIsToken
<1>9. NoCancelledLaunch
  BY <1>1 DEF NoCancelledLaunch, LaunchStep
<1> QED
  BY <1>1, <1>6, <1>7, <1>8, <1>9 DEF IInv

(* A step of the trust list, and stuttering                                *)
LEMMA NothingChanges ==
    ASSUME IInv, UNCHANGED <<client, ledger, worktrees, used, launches, procs>>,
           trusted' \subseteq Jobs, reloads' \in Nat, faults' \in Nat
    PROVE  IInv' /\ NoCancelledLaunch
<1>1. TypeOK' /\ WorktreeIsToken'
  BY DEF IInv, TypeOK, WorktreeIsToken
<1>2. \A k \in Jobs : Followers(k)' = Followers(k)
  BY DEF Followers
<1>3. NoCancelledLaunch
  BY DEF NoCancelledLaunch, LaunchStep
<1> QED
  BY <1>1, <1>2, <1>3 DEF IInv

(* The initial states satisfy the invariant.                               *)
LEMMA InitEstablishes == Init => IInv
<1> SUFFICES ASSUME Init PROVE IInv
  OBVIOUS
<1>1. \A t \in Tabs : \E n \in Limits : client[t] = FreshClient(n)
  BY DEF Init
<1>2. \A t \in Tabs : /\ client[t] \in Client /\ ClientInv(client[t])
                      /\ \A k \in Jobs : Unknown(client[t], k) /\ client[t].pc[k] = "idle"
  BY <1>1, FreshClientIsTyped, FreshClientKnowsNothing
<1>3. client \in [Tabs -> Client]
  BY <1>1, <1>2 DEF Init
<1>4. ledger \in JobMap /\ \A k \in Jobs : ledger[k].st = "absent" /\ Startless(ledger[k], k)
  BY NoJobsIsTyped DEF Init, Startless
<1>5. TypeOK
  BY <1>3, <1>4, KindsAssumption DEF Init, TypeOK
<1>6. WorktreeIsToken
  BY <1>2 DEF Init, WorktreeIsToken, Holding
<1>7. \A k \in Jobs : Cardinality(Followers(k)) <= procs[k]
  <2>1. \A k \in Jobs : Followers(k) = {}
    BY <1>2 DEF Followers
  <2> QED
    BY <2>1, FS_EmptySet DEF Init
<1> QED
  BY <1>2, <1>4, <1>5, <1>6, <1>7 DEF IInv

(* Every step preserves it, and launches nothing that was cancelled.       *)
LEMMA NextPreserves == IInv /\ [Next]_vars => IInv' /\ NoCancelledLaunch
<1> SUFFICES ASSUME IInv, [Next]_vars PROVE IInv' /\ NoCancelledLaunch
  OBVIOUS
<1>1. CASE UNCHANGED vars
  BY <1>1, NothingChanges DEF vars, IInv, TypeOK
<1>2. ASSUME NEW t \in Tabs, Boot(t) \/ BootFail(t) \/ Reload(t)
      PROVE  IInv' /\ NoCancelledLaunch
  BY <1>2, BootGetStep, BootMergeStep, BootFailStep, ReloadStep DEF Boot
<1>3. ASSUME NEW t \in Tabs, ClearFinished(t) \/ EffectPump(t) \/ TimerFires(t)
      PROVE  IInv' /\ NoCancelledLaunch
  BY <1>3, ClearFinishedStep, PumpSteps, TimerFiresStep
<1>4. ASSUME NEW t \in Tabs, ChainStep(t) \/ WriteFault(t)
      PROVE  IInv' /\ NoCancelledLaunch
  BY <1>4, WriteStartsStep, ServerWritesStep, WriteFaultStep, NewJobPersistedStep,
     UnawaitedPersistedStep, SyncPersistedStep DEF ChainStep
<1>5. ASSUME NEW t \in Tabs, NEW n \in Limits, SetLimit(t, n)
      PROVE  IInv' /\ NoCancelledLaunch
  BY <1>5, PumpSteps
<1>6. ASSUME NEW t \in Tabs, NEW j \in Jobs, Enqueue(t, j) \/ Cancel(t, j) \/ UserDecides(t, j)
      PROVE  IInv' /\ NoCancelledLaunch
  BY <1>6, EnqueueStep, CancelStep, ApprovalGrantedStep, ApprovalEndsStep DEF UserDecides
<1>7. ASSUME NEW t \in Tabs, NEW j \in Jobs, RunnerStep(t, j)
      PROVE  IInv' /\ NoCancelledLaunch
  BY <1>7, StartPersistedStep, PolicyDecidesStep, WorktreeAddStep, WorktreeMadeStep,
     LinkPersistedStep, VerifiedStep, RunPersistedStep, HarnessReturnsStep, OutcomePersistedStep,
     SummarisedStep, EndPersistedStep, ApprovalEndsStep
     DEF RunnerStep
<1>8. ASSUME NEW j \in Jobs, RevokeTrust(j)
      PROVE  IInv' /\ NoCancelledLaunch
  BY <1>8, NothingChanges DEF RevokeTrust, runtime, IInv, TypeOK
<1>9. ASSUME NEW j \in Jobs, OrphanExits(j)
      PROVE  IInv' /\ NoCancelledLaunch
  BY <1>9, OrphanExitsStep
<1> QED
  BY <1>1, <1>2, <1>3, <1>4, <1>5, <1>6, <1>7, <1>8, <1>9 DEF Next

(* The inductive invariant holds in every reachable state.                 *)
THEOREM Inductive == Spec => []IInv
  BY InitEstablishes, NextPreserves, PTL DEF Spec

(* Every variable keeps its type; in particular no agent process is counted *)
(* out twice, by its client and as an orphan.                               *)
THEOREM TypeCorrect == Spec => []TypeOK
<1>1. IInv => TypeOK
  BY DEF IInv
<1> QED
  BY <1>1, Inductive, PTL

(* An isolated job's agent is launched at most once, for any number of     *)
(* jobs, clients, reloads, failed requests and lost answers.               *)
THEOREM LaunchedOnce == Spec => []AtMostOneLaunch
<1>1. IInv => AtMostOneLaunch
  BY DEF IInv, WorktreeIsToken, AtMostOneLaunch
<1> QED
  BY <1>1, Inductive, PTL

(* A row shown as starting or running has its runner at the matching await. *)
THEOREM RowsAlwaysMatch == Spec => []RowsMatchRunners
<1>1. IInv => RowsMatchRunners
  BY DEF IInv, ClientInv, RowsMatchRunners
<1> QED
  BY <1>1, Inductive, PTL

(* A cancelled job is never launched by the client that cancelled it.      *)
THEOREM CancelAlwaysStops == Spec => CancelStopsLaunch
<1>1. IInv /\ [Next]_vars => [NoCancelledLaunch]_vars
  BY NextPreserves
<1> QED
  BY <1>1, Inductive, PTL DEF Spec, CancelStopsLaunch

-----------------------------------------------------------------------------
(* What a step does to a client, field by field, and two properties of its *)
(* steps that follow: the fleet capacity, and, while answers arrive, the   *)
(* stability of outcomes.                                                  *)
-----------------------------------------------------------------------------
(* The write chain                                                         *)

(* The chain of d is the chain of c with some different tasks of T behind. *)
Lengthens(c, d, T) ==
    /\ Len(c.chain) <= Len(d.chain)
    /\ \A i \in 1..Len(c.chain) : d.chain[i] = c.chain[i]
    /\ \A i \in 1..Len(d.chain) : i > Len(c.chain) => d.chain[i] \in T
    /\ \A a, b \in 1..Len(d.chain) :
        a > Len(c.chain) /\ b > Len(c.chain) /\ d.chain[a] = d.chain[b] => a = b

LEMMA ChainIsSeq ==
    ASSUME NEW c \in Client
    PROVE  /\ c.chain \in Seq(Task) /\ Len(c.chain) \in Nat
           /\ DOMAIN c.chain = 1..Len(c.chain)
  BY DEF Client

LEMMA SameChain ==
    ASSUME NEW c \in Client, NEW d, d.chain = c.chain, NEW T
    PROVE  Lengthens(c, d, T)
  BY ChainIsSeq DEF Lengthens

LEMMA AppendedChain ==
    ASSUME NEW c \in Client, NEW d, NEW task, d.chain = Append(c.chain, task)
    PROVE  Lengthens(c, d, {task})
<1>1. c.chain \in Seq(Task) /\ Len(c.chain) \in Nat
  BY ChainIsSeq
<1>2. /\ Len(d.chain) = Len(c.chain) + 1
      /\ \A i \in 1..Len(c.chain) : d.chain[i] = c.chain[i]
      /\ d.chain[Len(c.chain) + 1] = task
  BY <1>1
<1>3. QED
  BY <1>1, <1>2 DEF Lengthens

-----------------------------------------------------------------------------
(* The fields after each operation on a client                             *)

LEMMA SettleAll ==
    ASSUME NEW c \in Client
    PROVE  /\ Settle(c) \in Client /\ Settle(c).flight = NoFlight
           /\ Settle(c).boot = c.boot /\ Settle(c).recovered = c.recovered
           /\ Settle(c).jobs = c.jobs /\ Settle(c).durable = c.durable
           /\ Settle(c).pc = c.pc /\ Settle(c).aborted = c.aborted
           /\ Settle(c).chain = c.chain /\ Settle(c).lastPut = c.lastPut
           /\ Settle(c).timer = c.timer /\ Settle(c).limit = c.limit
<1>1. Settle(c) \in Client
  BY SettleIsTyped
<1>2. QED
  BY <1>1 DEF Settle, Client

(* Job j alone may look different, and no more than a sync is armed.       *)
Others(c, d, j) ==
    /\ d \in Client
    /\ d.boot = c.boot /\ d.recovered = c.recovered /\ d.durable = c.durable
    /\ d.lastPut = c.lastPut /\ d.limit = c.limit
    /\ d.timer => c.timer \/ c.boot = "ready"
    /\ c.timer => d.timer
    /\ \A k \in Jobs \ {j} : /\ d.jobs[k] = c.jobs[k] /\ d.pc[k] = c.pc[k]
                             /\ k \in d.aborted <=> k \in c.aborted

LEMMA PatchAll ==
    ASSUME NEW c \in Client, NEW j \in Jobs, NEW s \in Status, NEW l \in Link
    PROVE  LET d == PatchLink(c, j, s, l)
           IN  /\ Others(c, d, j)
               /\ d.flight = c.flight /\ d.chain = c.chain /\ d.pc = c.pc
               /\ d.aborted = c.aborted
               /\ c.boot = "ready" => d.timer
               /\ d.jobs[j] = IF c.jobs[j].st = "absent" THEN c.jobs[j]
                              ELSE [st |-> s, link |-> l]
<1> DEFINE d == PatchLink(c, j, s, l)
<1>1. d \in Client
  BY PatchLinkIsTyped
<1>2. /\ d.boot = c.boot /\ d.recovered = c.recovered /\ d.durable = c.durable
      /\ d.lastPut = c.lastPut /\ d.limit = c.limit
      /\ d.flight = c.flight /\ d.chain = c.chain /\ d.pc = c.pc
      /\ d.aborted = c.aborted
      /\ d.timer <=> (c.timer \/ c.boot = "ready")
  BY DEF PatchLink, Client
<1>3. /\ \A k \in Jobs \ {j} : d.jobs[k] = c.jobs[k]
      /\ d.jobs[j] = IF c.jobs[j].st = "absent" THEN c.jobs[j] ELSE [st |-> s, link |-> l]
  BY PatchFields
<1> HIDE DEF d
<1>4. QED
  BY <1>1, <1>2, <1>3 DEF Others, d

LEMMA SuspendAll ==
    ASSUME NEW c \in Client, NEW j \in Jobs, NEW p \in Suspended
    PROVE  LET d == Suspend(c, j, p)
           IN  /\ Others(c, d, j)
               /\ d.flight = c.flight /\ d.chain = c.chain /\ d.jobs = c.jobs
               /\ d.aborted = c.aborted /\ d.pc[j] = p
<1> DEFINE d == Suspend(c, j, p)
<1>1. d \in Client
  BY SuspendIsTyped
<1>2. /\ d.boot = c.boot /\ d.recovered = c.recovered /\ d.durable = c.durable
      /\ d.lastPut = c.lastPut /\ d.limit = c.limit /\ d.timer = c.timer
      /\ d.flight = c.flight /\ d.chain = c.chain /\ d.jobs = c.jobs
      /\ d.aborted = c.aborted
      /\ \A k \in Jobs : d.pc[k] = IF k = j THEN p ELSE c.pc[k]
  BY DEF Suspend, Client
<1> HIDE DEF d
<1>3. QED
  BY <1>1, <1>2 DEF Others, d

LEMMA CleanupAll ==
    ASSUME NEW c \in Client, NEW j \in Jobs
    PROVE  LET d == Cleanup(c, j)
           IN  /\ Others(c, d, j)
               /\ d.flight = c.flight /\ d.chain = c.chain /\ d.jobs = c.jobs
               /\ d.pc[j] = "idle" /\ j \notin d.aborted
<1> DEFINE d == Cleanup(c, j)
<1>1. d \in Client
  BY CleanupIsTyped
<1>2. /\ d.boot = c.boot /\ d.recovered = c.recovered /\ d.durable = c.durable
      /\ d.lastPut = c.lastPut /\ d.limit = c.limit /\ d.timer = c.timer
      /\ d.flight = c.flight /\ d.chain = c.chain /\ d.jobs = c.jobs
      /\ d.aborted = c.aborted \ {j}
      /\ \A k \in Jobs : d.pc[k] = IF k = j THEN "idle" ELSE c.pc[k]
  BY DEF Cleanup, Client
<1> HIDE DEF d
<1>3. QED
  BY <1>1, <1>2 DEF Others, d

LEMMA PushAll ==
    ASSUME NEW c \in Client, NEW task \in Task
    PROVE  LET d == Push(c, task)
           IN  /\ \A j : Others(c, d, j)
               /\ d.flight = c.flight /\ d.jobs = c.jobs /\ d.pc = c.pc
               /\ d.aborted = c.aborted /\ d.chain = Append(c.chain, task)
<1> DEFINE d == Push(c, task)
<1>1. d \in Client
  BY PushIsTyped
<1>2. /\ d.boot = c.boot /\ d.recovered = c.recovered /\ d.durable = c.durable
      /\ d.lastPut = c.lastPut /\ d.limit = c.limit /\ d.timer = c.timer
      /\ d.flight = c.flight /\ d.jobs = c.jobs /\ d.pc = c.pc
      /\ d.aborted = c.aborted /\ d.chain = Append(c.chain, task)
  BY DEF Push, Client
<1> HIDE DEF d
<1>3. QED
  BY <1>1, <1>2 DEF Others, d

LEMMA OthersAgain ==
    ASSUME NEW c, NEW d, NEW e, NEW j, Others(c, d, j), Others(d, e, j)
    PROVE  Others(c, e, j)
  BY DEF Others

(* What the pump does to a client                                          *)
Pumps(c, e) ==
    /\ e \in Client
    /\ e.boot = c.boot /\ e.recovered = c.recovered /\ e.durable = c.durable
    /\ e.lastPut = c.lastPut /\ e.limit = c.limit /\ e.aborted = c.aborted
    /\ e.flight = c.flight
    /\ e.timer => c.timer \/ c.boot = "ready"
    /\ c.timer => e.timer
    /\ \A k \in Jobs :
        \/ e.jobs[k] = c.jobs[k] /\ e.pc[k] = c.pc[k]
        \/ /\ c.boot = "ready" /\ k \in c.durable
           /\ c.pc[k] = "idle" /\ e.pc[k] = "persistStart"
           /\ c.jobs[k].st = "queued" /\ e.jobs[k] = [c.jobs[k] EXCEPT !.st = "starting"]
    /\ Lengthens(c, e, {AwaitedTask(k) : k \in {k \in Jobs : c.pc[k] = "idle" /\ e.pc[k] # "idle"}})

LEMMA AscendingOrder ==
    ASSUME NEW S \in SUBSET Jobs, NEW order \in Ascending(S)
    PROVE  /\ Cardinality(S) \in Nat /\ order \in [1..Cardinality(S) -> S]
           /\ \A a, b \in 1..Cardinality(S) : a < b => order[a] < order[b]
  BY FS_Subset, FS_CardinalityType, JobsAssumption DEF Ascending

LEMMA TasksDiffer ==
    /\ \A x, y : AwaitedTask(x) = AwaitedTask(y) => x = y
    /\ \A x, y : NewTask(x) = NewTask(y) => x = y
    /\ \A x : AwaitedTask(x).job = x /\ NewTask(x).job = x /\ CurrentTask(x).job = x
    /\ \A x, y : /\ NewTask(x) # AwaitedTask(y) /\ NewTask(x) # CurrentTask(y)
                 /\ AwaitedTask(x) # CurrentTask(y)
    /\ \A x : SyncTask # AwaitedTask(x) /\ SyncTask # CurrentTask(x) /\ SyncTask # NewTask(x)
    /\ SyncTask.job \notin Jobs
<1>1. SyncTask.job \notin Jobs
  BY JobsAssumption DEF SyncTask, NoJob
<1>2. QED
  BY <1>1 DEF AwaitedTask, NewTask, CurrentTask, SyncTask

LEMMA RunJobsPumps ==
    ASSUME NEW c \in Client, NEW order \in Ascending(Startable(c))
    PROVE  Pumps(c, RunJobs(c, Startable(c), order))
<1> DEFINE S == Startable(c)
           n == Cardinality(S)
           more == [i \in DOMAIN order |-> AwaitedTask(order[i])]
           d == RunJobs(c, S, order)
<1>1. d \in Client /\ S \in SUBSET Jobs
  BY RunJobsIsTyped, StartableAreJobs
<1>2. /\ d.boot = c.boot /\ d.recovered = c.recovered /\ d.durable = c.durable
      /\ d.lastPut = c.lastPut /\ d.limit = c.limit /\ d.aborted = c.aborted
      /\ d.flight = c.flight
      /\ d.timer <=> (c.timer \/ S # {})
      /\ \A k \in Jobs : d.pc[k] = IF k \in S THEN "persistStart" ELSE c.pc[k]
      /\ \A k \in Jobs : d.jobs[k] = IF k \in S THEN [c.jobs[k] EXCEPT !.st = "starting"]
                                     ELSE c.jobs[k]
      /\ d.chain = c.chain \o more
  BY DEF RunJobs, Client
<1>3. \A k \in S : /\ k \in Jobs /\ c.boot = "ready" /\ c.jobs[k].st = "queued"
                   /\ c.pc[k] = "idle" /\ k \in c.durable
  BY DEF Startable, PickNextJobs, QueuedJobs
<1>4. /\ n \in Nat /\ order \in [1..n -> S]
      /\ \A a, b \in 1..n : a < b => order[a] < order[b]
  BY <1>1, AscendingOrder
<1>5. /\ Len(more) = n /\ \A i \in 1..n : more[i] = AwaitedTask(order[i]) /\ more[i] \in Task
      /\ more \in Seq(Task)
  <2>1. DOMAIN order = 1..n /\ \A i \in 1..n : AwaitedTask(order[i]) \in Task
    BY <1>1, <1>4, TasksAreTyped
  <2>2. more = [i \in 1..n |-> AwaitedTask(order[i])]
    BY <2>1
  <2> HIDE DEF more, n
  <2>3. QED
    BY <1>4, <2>1, <2>2
<1> DEFINE T == {AwaitedTask(k) : k \in {k \in Jobs : c.pc[k] = "idle" /\ d.pc[k] # "idle"}}
<1>6. Lengthens(c, d, T)
  <2> HIDE DEF d, more, n, S, T
  <2>1. c.chain \in Seq(Task) /\ Len(c.chain) \in Nat
    BY ChainIsSeq
  <2>2. /\ Len(d.chain) = Len(c.chain) + n
        /\ \A i \in 1..Len(c.chain) : d.chain[i] = c.chain[i]
        /\ \A i \in 1..Len(d.chain) : i > Len(c.chain) => d.chain[i] = more[i - Len(c.chain)]
    BY <1>2, <1>4, <1>5, <2>1
  <2>3. ASSUME NEW i \in 1..Len(d.chain), i > Len(c.chain)
        PROVE  d.chain[i] = AwaitedTask(order[i - Len(c.chain)]) /\ i - Len(c.chain) \in 1..n
    <3>1. i - Len(c.chain) \in 1..n
      BY <1>4, <2>1, <2>2, <2>3
    <3>2. QED
      BY <1>5, <2>2, <2>3, <3>1
  <2>4. ASSUME NEW i \in 1..Len(d.chain), i > Len(c.chain)
        PROVE  d.chain[i] \in T
    <3> DEFINE k == order[i - Len(c.chain)]
    <3>1. k \in S /\ d.chain[i] = AwaitedTask(k)
      BY <1>4, <2>3, <2>4
    <3> HIDE DEF k
    <3>2. k \in Jobs /\ c.pc[k] = "idle" /\ d.pc[k] # "idle"
      BY <1>2, <1>3, <3>1
    <3>3. QED
      BY <3>1, <3>2 DEF T
  <2>5. ASSUME NEW a \in 1..Len(d.chain), NEW b \in 1..Len(d.chain),
               a > Len(c.chain), b > Len(c.chain), d.chain[a] = d.chain[b]
        PROVE  a = b
    <3>1. /\ a - Len(c.chain) \in 1..n /\ b - Len(c.chain) \in 1..n
          /\ order[a - Len(c.chain)] = order[b - Len(c.chain)]
      BY <2>3, <2>5, TasksDiffer
    <3>2. order[a - Len(c.chain)] \in S /\ order[a - Len(c.chain)] \in Nat
      BY <1>1, <1>4, <3>1, JobsAssumption
    <3> DEFINE x == a - Len(c.chain)
               y == b - Len(c.chain)
    <3>3. x \in Int /\ y \in Int /\ a = x + Len(c.chain) /\ b = y + Len(c.chain)
      BY <2>1, <2>2
    <3> HIDE DEF x, y
    <3>4. ~(x < y) /\ ~(y < x)
      BY <1>4, <3>1, <3>2 DEF x, y
    <3>5. QED
      BY <2>1, <3>3, <3>4
  <2>6. QED
    BY <1>4, <2>1, <2>2, <2>4, <2>5 DEF Lengthens
<1> HIDE DEF d, S, more, n
<1>7. \A k \in Jobs :
        \/ d.jobs[k] = c.jobs[k] /\ d.pc[k] = c.pc[k]
        \/ /\ c.boot = "ready" /\ k \in c.durable
           /\ c.pc[k] = "idle" /\ d.pc[k] = "persistStart"
           /\ c.jobs[k].st = "queued" /\ d.jobs[k] = [c.jobs[k] EXCEPT !.st = "starting"]
  BY <1>2, <1>3
<1>8. (d.timer => c.timer \/ c.boot = "ready") /\ (c.timer => d.timer)
  BY <1>2, <1>3
<1>9. QED
  BY <1>1, <1>2, <1>6, <1>7, <1>8 DEF Pumps, d, S

-----------------------------------------------------------------------------
(* The fleet capacity                                                      *)

(* The jobs on their way once the pump ran fit in the capacity: the last   *)
(* job it picked has all the other ones before it in the queue.            *)
LEMMA PumpIsBounded ==
    ASSUME NEW c \in Client, NEW order \in Ascending(Startable(c)), Startable(c) # {}
    PROVE  Cardinality(InFlightJobs(RunJobs(c, Startable(c), order))) <= c.limit
<1> DEFINE S == Startable(c)
           n == Cardinality(S)
           d == RunJobs(c, S, order)
           before == {k \in QueuedJobs(c) : k < order[n]}
<1>1. /\ S \in SUBSET Jobs /\ IsFiniteSet(S) /\ n \in Nat /\ n # 0
      /\ InFlightJobs(c) \in SUBSET Jobs /\ IsFiniteSet(InFlightJobs(c))
      /\ Cardinality(InFlightJobs(c)) \in Nat
      /\ IsFiniteSet(before) /\ Cardinality(before) \in Nat
  <2>1. S \in SUBSET Jobs /\ InFlightJobs(c) \in SUBSET Jobs /\ before \in SUBSET Jobs
    BY StartableAreJobs DEF InFlightJobs, QueuedJobs
  <2>2. QED
    BY <2>1, FS_Subset, FS_CardinalityType, FS_EmptySet, JobsAssumption
<1>2. /\ order \in [1..n -> S]
      /\ \A a, b \in 1..n : a < b => order[a] < order[b]
  BY AscendingOrder, <1>1
<1>3. S \subseteq QueuedJobs(c) /\ S \subseteq PickNextJobs(c)
  BY DEF Startable, PickNextJobs
<1>4. Cardinality(before) < c.limit - Cardinality(InFlightJobs(c))
  <2>1. order[n] \in PickNextJobs(c)
    BY <1>1, <1>2, <1>3
  <2>2. QED
    BY <2>1 DEF PickNextJobs
<1>5. c.limit \in Nat
  <2>1. c.limit \in Limits
    BY DEF Client
  <2>2. c.limit \in 1..8
    BY ONLY <2>1, LimitsAssumption
  <2>3. QED
    BY ONLY <2>2
<1>6. n - 1 <= Cardinality(before)
  <2> DEFINE f == [a \in 1..(n - 1) |-> order[a]]
  <2> HIDE DEF n, before
  <2>1. IsFiniteSet(1..(n - 1)) /\ Cardinality(1..(n - 1)) = n - 1
    <3>0. 1 \in Int /\ n - 1 \in Int
      BY <1>1
    <3>1. /\ IsFiniteSet(1..(n - 1))
          /\ Cardinality(1..(n - 1)) = IF 1 > n - 1 THEN 0 ELSE (n - 1) - 1 + 1
      BY ONLY <3>0, FS_Interval
    <3>2. QED
      BY <1>1, <3>1
  <2>2. \A a \in 1..(n - 1) : a \in 1..n /\ n \in 1..n /\ a < n
    BY <1>1
  <2>3. f \in [1..(n - 1) -> before]
    BY <1>2, <1>3, <2>2 DEF before
  <2>4. \A a, b \in 1..(n - 1) : a # b => order[a] # order[b]
    <3>1. \A a, b \in 1..(n - 1) : a # b => a < b \/ b < a
      BY <1>1
    <3>2. \A a \in 1..(n - 1) : order[a] \in Nat
      BY <1>1, <1>2, <2>2, JobsAssumption
    <3>3. QED
      BY <1>2, <2>2, <3>1, <3>2
  <2>5. SUFFICES ASSUME Cardinality(before) < n - 1 PROVE FALSE
    BY <1>1
  <2>6. \E a, b \in 1..(n - 1) : a # b /\ f[a] = f[b]
    <3> HIDE DEF f
    <3>1. Cardinality(before) < Cardinality(1..(n - 1))
      BY <2>1, <2>5
    <3>2. QED
      BY ONLY <1>1, <2>1, <2>3, <3>1, FS_PigeonHole
  <2>7. QED
    BY <2>4, <2>6
<1>7. InFlightJobs(d) = InFlightJobs(c) \cup S
  <2>1. \A k \in Jobs : d.jobs[k] = IF k \in S THEN [c.jobs[k] EXCEPT !.st = "starting"]
                                    ELSE c.jobs[k]
    BY DEF RunJobs, Client
  <2>2. \A k \in S : d.jobs[k].st = "starting"
    BY <1>1, <2>1 DEF Client, JobMap, JobRecord
  <2> HIDE DEF d, S
  <2>3. \A k \in Jobs : d.jobs[k].st \in InFlight <=> (c.jobs[k].st \in InFlight \/ k \in S)
    BY <2>1, <2>2 DEF InFlight
  <2>4. QED
    BY <1>1, <2>3 DEF InFlightJobs
<1>8. InFlightJobs(c) \cap S = {}
  BY <1>3 DEF InFlightJobs, QueuedJobs, InFlight
<1> HIDE DEF d, S, n, before
<1>9. Cardinality(InFlightJobs(d)) = Cardinality(InFlightJobs(c)) + n
  <2>1. Cardinality(InFlightJobs(c) \cap S) = 0
    BY <1>8, FS_EmptySet
  <2>2. Cardinality(InFlightJobs(c) \cup S)
            = Cardinality(InFlightJobs(c)) + Cardinality(S) - Cardinality(InFlightJobs(c) \cap S)
    BY <1>1, FS_Union
  <2>3. QED
    BY <1>1, <1>7, <2>1, <2>2 DEF n
<1>10. QED
  BY <1>1, <1>4, <1>5, <1>6, <1>9 DEF d, S

-----------------------------------------------------------------------------
(* What a runner does to its client                                        *)

(* A row is never brought back, and an outcome changes only from cancelled *)
(* to failed.                                                              *)
Follows(c, d, j) ==
    /\ c.jobs[j].st = "absent" => d.jobs[j].st = "absent"
    /\ c.jobs[j].st \in Terminal =>
        \/ d.jobs[j].st \in {c.jobs[j].st, "absent"}
        \/ c.jobs[j].st = "cancelled" /\ d.jobs[j].st = "failed"
        \/ c.pc[j] = "summary" /\ c.jobs[j].st = "completed" /\ d.jobs[j].st = "failed"

(* A runner that comes to await a write queues that one write, it links    *)
(* the row to its session before the last of them, and never requeues it.  *)
Places(c, d, j) ==
    /\ Lengthens(c, d, IF d.pc[j] \in Awaiting THEN {AwaitedTask(j)} ELSE {CurrentTask(j)})
    /\ d.pc[j] = "persistRun" /\ d.jobs[j].st \in Active => d.jobs[j] = Linkage
    /\ d.jobs[j].st = "queued" => c.jobs[j].st = "queued"
    /\ d.pc[j] \in Underway => c.pc[j] \in Underway

(* Its row ends, is linked to its worktree or to its session, or stays.    *)
Rewrites(c, d, j) ==
    /\ d.pc[j] \in Preparing => c.pc[j] \in Preparing
    /\ \/ d.jobs[j] = c.jobs[j]
       \/ /\ c.jobs[j].st # "absent"
          /\ c.boot = "ready" => d.timer
          /\ \/ /\ d.jobs[j].st \in Terminal /\ d.jobs[j].link = c.jobs[j].link
                /\ c.pc[j] \notin {"persistOutcome", "persistEnd"}
                /\ d.jobs[j].st = "completed" => c.pc[j] \in {"approval", "harness"}
                /\ Unwinds(c, j) =>
                    /\ c.pc[j] \in {"approval", "harness"} => c.jobs[j].st \in Active
                    /\ c.pc[j] = "summary" => c.jobs[j].st = "completed"
             \/ /\ c.pc[j] = "worktreeMade"
                /\ d.jobs[j] = [st |-> c.jobs[j].st, link |-> "worktree"]
             \/ c.pc[j] = "verify" /\ d.pc[j] = "persistRun" /\ d.jobs[j] = Linkage

(* Only a run whose record was written, and that nobody cancelled, asks.   *)
Asks(c, d, j) == d.pc[j] = "approval" =>
    /\ c.pc[j] = "persistRun" /\ ~Cancelled(c, j)
    /\ d.jobs = c.jobs /\ d.aborted = c.aborted

(* Runner j took c to d: no other job is touched, nothing is started.      *)
Moved(c, d, j) ==
    /\ Places(c, d, j) /\ Rewrites(c, d, j) /\ Asks(c, d, j)
    /\ Others(c, d, j) /\ d.flight = c.flight
    /\ Lengthens(c, d, {CurrentTask(j), AwaitedTask(j)})
    /\ c.pc[j] # "idle" /\ d.pc[j] # "persistStart"
    /\ Unwinds(c, j) => Unwinds(d, j) /\ Follows(c, d, j)

LEMMA StatusSorts ==
    /\ \A s \in Terminal : s \in Status /\ s \notin Active /\ s # "absent"
    /\ \A s \in Active : s \in Status /\ s \notin Terminal /\ s # "absent"
    /\ "absent" \notin Active /\ "absent" \notin Terminal /\ "absent" \in Status
    /\ "cancelled" \in Terminal /\ "failed" \in Terminal
    /\ "running" \in Active /\ "starting" \in Active /\ "queued" \in Active
  BY DEF Status, Terminal, Active, InFlight

(* A row is its status and its link.                                       *)
LEMMA RowShape ==
    ASSUME NEW c \in Client, NEW j \in Jobs
    PROVE  c.jobs[j] = [st |-> c.jobs[j].st, link |-> c.jobs[j].link]
<1>1. c.jobs[j] \in JobRecord
  BY DEF Client, JobMap
<1>2. QED
  BY <1>1 DEF JobRecord

LEMMA SmallerLengthens ==
    ASSUME NEW c, NEW d, NEW S, NEW T, Lengthens(c, d, S), S \subseteq T
    PROVE  Lengthens(c, d, T)
  BY DEF Lengthens

LEMMA ProceedMoves ==
    ASSUME NEW c \in Client, NEW j \in Jobs, c.pc[j] \notin {"idle", "persistEnd"},
           NEW p \in Suspended \ Awaiting, p \in Underway => c.pc[j] \in Underway,
           p \in Preparing => c.pc[j] \in Preparing, p = "summary" <=> c.pc[j] \in Showing,
           p = "approval" => c.pc[j] = "persistRun" /\ ~Cancelled(c, j)
    PROVE  Moved(c, Suspend(c, j, p), j)
<1> DEFINE d == Suspend(c, j, p)
<1>1. /\ Others(c, d, j) /\ d.flight = c.flight /\ d.chain = c.chain
      /\ d.jobs = c.jobs /\ d.aborted = c.aborted /\ d.pc[j] = p
  BY SuspendAll
<1> HIDE DEF d
<1>2. Lengthens(c, d, {CurrentTask(j), AwaitedTask(j)})
  BY <1>1, SameChain
<1>3. Unwinds(c, j) => Unwinds(d, j) /\ Follows(c, d, j)
  BY <1>1 DEF Unwinds, Follows, Showing, Awaiting
<1>4. Places(c, d, j)
  BY <1>1, SameChain DEF Places, Awaiting
<1>5. p # "persistStart" /\ Rewrites(c, d, j) /\ Asks(c, d, j)
  BY <1>1 DEF Awaiting, Rewrites, Asks
<1>6. QED
  BY <1>1, <1>2, <1>3, <1>4, <1>5 DEF Moved, d

LEMMA CleanupMoves ==
    ASSUME NEW c \in Client, NEW j \in Jobs, c.pc[j] # "idle"
    PROVE  Moved(c, Cleanup(c, j), j)
<1> DEFINE d == Cleanup(c, j)
<1>1. /\ Others(c, d, j) /\ d.flight = c.flight /\ d.chain = c.chain
      /\ d.jobs = c.jobs /\ d.pc[j] = "idle"
  BY CleanupAll
<1> HIDE DEF d
<1>2. Lengthens(c, d, {CurrentTask(j), AwaitedTask(j)})
  BY <1>1, SameChain
<1>3. Unwinds(d, j) /\ Follows(c, d, j)
  BY <1>1 DEF Unwinds, Follows, Showing
<1>4. Places(c, d, j) /\ Rewrites(c, d, j) /\ Asks(c, d, j)
  BY <1>1, SameChain DEF Places, Rewrites, Asks, Awaiting, Underway, Preparing
<1>5. QED
  BY <1>1, <1>2, <1>3, <1>4 DEF Moved, d

LEMMA GiveUpMoves ==
    ASSUME NEW c \in Client, NEW j \in Jobs, c.pc[j] \in {"persistStart", "persistRun"}
    PROVE  Moved(c, Push(Cleanup(Patch(c, j, "failed"), j), CurrentTask(j)), j)
<1> DEFINE x == Patch(c, j, "failed")
           y == Cleanup(x, j)
           d == Push(y, CurrentTask(j))
<1>1. c.jobs[j].link \in Link /\ CurrentTask(j) \in Task
  BY JobMapIsTyped, TasksAreTyped DEF Client
<1>0. /\ Others(c, x, j) /\ x.flight = c.flight /\ x.chain = c.chain
      /\ c.boot = "ready" => x.timer
      /\ x.jobs[j] = IF c.jobs[j].st = "absent" THEN c.jobs[j]
                     ELSE [st |-> "failed", link |-> c.jobs[j].link]
  BY <1>1, PatchAll, StatusSorts DEF Patch
<1> HIDE DEF x
<1>2. /\ Others(c, x, j) /\ x.flight = c.flight /\ x.chain = c.chain
      /\ x.jobs[j].st = IF c.jobs[j].st = "absent" THEN "absent" ELSE "failed"
  BY <1>0
<1>3. x \in Client
  BY <1>2 DEF Others
<1>4. /\ Others(x, y, j) /\ y.flight = x.flight /\ y.chain = x.chain
      /\ y.jobs = x.jobs /\ y.pc[j] = "idle"
  BY <1>3, CleanupAll
<1> HIDE DEF y
<1>5. y \in Client
  BY <1>4 DEF Others
<1>6. /\ Others(y, d, j) /\ d.flight = y.flight /\ d.jobs = y.jobs /\ d.pc = y.pc
      /\ d.chain = Append(y.chain, CurrentTask(j))
  BY <1>1, <1>5, PushAll
<1> HIDE DEF d
<1>7. Others(c, d, j)
  BY <1>2, <1>4, <1>6, OthersAgain
<1>8. Lengthens(c, d, {CurrentTask(j), AwaitedTask(j)})
  <2>1. d.chain = Append(c.chain, CurrentTask(j))
    BY <1>2, <1>4, <1>6
  <2>2. Lengthens(c, d, {CurrentTask(j)})
    BY <2>1, AppendedChain
  <2>3. QED
    BY <2>2, SmallerLengthens
<1>9. d.pc[j] = "idle" /\ Unwinds(d, j)
  BY <1>4, <1>6 DEF Unwinds, Showing
<1>10. Unwinds(c, j) => Follows(c, d, j)
  BY <1>2, <1>4, <1>6, StatusSorts DEF Unwinds, Follows, Showing
<1>11. Places(c, d, j)
  <2>1. d.chain = Append(c.chain, CurrentTask(j))
    BY <1>2, <1>4, <1>6
  <2>2. Lengthens(c, d, {CurrentTask(j)})
    BY <2>1, AppendedChain
  <2>3. d.jobs[j].st \in {"absent", "failed"}
    BY <1>2, <1>4, <1>6
  <2>4. QED
    BY <1>9, <2>2, <2>3 DEF Places, Awaiting, Underway
<1>12. Rewrites(c, d, j)
  <2>1. c.boot = "ready" => d.timer
    BY <1>0, <1>4, <1>6 DEF Others
  <2>2. d.jobs[j] = IF c.jobs[j].st = "absent" THEN c.jobs[j]
                    ELSE [st |-> "failed", link |-> c.jobs[j].link]
    BY <1>0, <1>4, <1>6
  <2>3. QED
    BY <1>9, <2>1, <2>2, StatusSorts DEF Rewrites, Preparing
<1>13. QED
  BY <1>2, <1>4, <1>6, <1>7, <1>8, <1>9, <1>10, <1>11, <1>12 DEF Moved, Asks, x, y, d

(* The row is patched and the runner waits for the write.                  *)
LEMMA AwaitMoves ==
    ASSUME NEW c \in Client, ClientInv(c), NEW j \in Jobs,
           c.pc[j] \notin {"idle", "persistOutcome", "persistEnd"},
           NEW s \in Status, NEW l \in Link, NEW p \in Awaiting, p # "persistStart",
           s = "queued" => c.jobs[j].st = "queued",
           p \in Underway => c.pc[j] \in Underway,
           p = "persistRun" /\ s \in Active => [st |-> s, link |-> l] = Linkage,
           p \in Preparing => c.pc[j] \in Preparing,
           \/ /\ s \in Terminal /\ l = c.jobs[j].link
              /\ s = "completed" => c.pc[j] \in {"approval", "harness"}
           \/ c.pc[j] = "worktreeMade" /\ s = c.jobs[j].st /\ l = "worktree"
           \/ c.pc[j] = "verify" /\ p = "persistRun" /\ [st |-> s, link |-> l] = Linkage,
           \/ s = c.jobs[j].st
           \/ j \notin c.aborted /\ (s \in Active \/ p \in {"persistOutcome", "persistEnd"})
           \/ s = "cancelled" /\ p \in {"persistOutcome", "persistEnd"},
           p = "persistOutcome" =>
               s \in (IF j \in c.aborted THEN {"cancelled"} ELSE {"completed", "failed"}),
           c.pc[j] = "summary" =>
               p = "persistEnd" /\ s = (IF j \in c.aborted THEN "cancelled" ELSE "failed")
    PROVE  Moved(c, Await(PatchLink(c, j, s, l), j, p), j)
<1> DEFINE x == PatchLink(c, j, s, l)
           y == Suspend(x, j, p)
           d == Push(y, AwaitedTask(j))
<1>1. AwaitedTask(j) \in Task /\ p \in Suspended
  BY TasksAreTyped DEF Awaiting, Suspended
<1>0. /\ Others(c, x, j) /\ x.flight = c.flight /\ x.chain = c.chain /\ x.aborted = c.aborted
      /\ c.boot = "ready" => x.timer
      /\ x.jobs[j] = IF c.jobs[j].st = "absent" THEN c.jobs[j] ELSE [st |-> s, link |-> l]
  BY PatchAll
<1> HIDE DEF x
<1>2. /\ Others(c, x, j) /\ x.flight = c.flight /\ x.chain = c.chain /\ x.aborted = c.aborted
      /\ x.jobs[j].st = IF c.jobs[j].st = "absent" THEN "absent" ELSE s
  BY <1>0
<1>3. x \in Client
  BY <1>2 DEF Others
<1>4. /\ Others(x, y, j) /\ y.flight = x.flight /\ y.chain = x.chain /\ y.aborted = x.aborted
      /\ y.jobs = x.jobs /\ y.pc[j] = p
  BY <1>1, <1>3, SuspendAll
<1> HIDE DEF y
<1>5. y \in Client
  BY <1>4 DEF Others
<1>6. /\ Others(y, d, j) /\ d.flight = y.flight /\ d.jobs = y.jobs /\ d.pc = y.pc
      /\ d.aborted = y.aborted /\ d.chain = Append(y.chain, AwaitedTask(j))
  BY <1>1, <1>5, PushAll
<1>7. d = Await(PatchLink(c, j, s, l), j, p)
  BY DEF Await, d, x, y
<1> HIDE DEF d
<1>8. Others(c, d, j)
  BY <1>2, <1>4, <1>6, OthersAgain
<1>9. Lengthens(c, d, {CurrentTask(j), AwaitedTask(j)})
  <2>1. d.chain = Append(c.chain, AwaitedTask(j))
    BY <1>2, <1>4, <1>6
  <2>2. Lengthens(c, d, {AwaitedTask(j)})
    BY <2>1, AppendedChain
  <2>3. QED
    BY <2>2, SmallerLengthens
<1>10. /\ d.pc[j] = p /\ d.aborted = c.aborted
       /\ d.jobs[j].st = IF c.jobs[j].st = "absent" THEN "absent" ELSE s
  BY <1>2, <1>4, <1>6
<1>11. ASSUME Unwinds(c, j)
       PROVE  Unwinds(d, j) /\ Follows(c, d, j)
  <2>1. \/ c.jobs[j].st \in Active
        \/ c.jobs[j].st \in {"cancelled", "absent"} /\ j \in c.aborted
        \/ /\ c.pc[j] = "summary" /\ j \notin c.aborted
           /\ c.jobs[j].st \in {"completed", "failed", "absent"}
    BY <1>11 DEF Unwinds, Showing
  <2>2. Unwinds(d, j)
    <3>1. CASE p \in Showing
      <4>1. p = "persistOutcome"
        BY <3>1 DEF Showing, Awaiting
      <4>2. QED
        BY <1>10, <4>1, StatusSorts DEF Unwinds, Showing
    <3>2. CASE p = "persistEnd"
      BY <1>10, <3>2 DEF Unwinds, Showing
    <3>3. CASE p \notin Showing \cup {"persistEnd"}
      <4>1. (s = c.jobs[j].st \/ s \in Active) /\ c.pc[j] # "summary"
        BY <3>3 DEF Showing
      <4>2. QED
        BY <1>10, <2>1, <3>3, <4>1, StatusSorts DEF Unwinds
    <3>4. QED
      BY <3>1, <3>2, <3>3
  <2>3. Follows(c, d, j)
    BY <1>10, <2>1, StatusSorts DEF Follows
  <2>4. QED
    BY <2>2, <2>3
<1>12. Places(c, d, j)
  <2>1. d.chain = Append(c.chain, AwaitedTask(j))
    BY <1>2, <1>4, <1>6
  <2>2. Lengthens(c, d, {AwaitedTask(j)})
    BY <2>1, AppendedChain
  <2>3. d.jobs[j] = IF c.jobs[j].st = "absent" THEN c.jobs[j] ELSE [st |-> s, link |-> l]
    BY <1>0, <1>4, <1>6
  <2>4. p = "persistRun" /\ d.jobs[j].st \in Active => d.jobs[j] = Linkage
    BY <1>10, <2>3, StatusSorts
  <2>5. QED
    BY <1>10, <2>2, <2>4 DEF Places
<1>13. Rewrites(c, d, j)
  <2>1. c.boot = "ready" => d.timer
    BY <1>0, <1>4, <1>6 DEF Others
  <2>2. d.jobs[j] = IF c.jobs[j].st = "absent" THEN c.jobs[j] ELSE [st |-> s, link |-> l]
    BY <1>0, <1>4, <1>6
  <2>3. p \in Preparing => c.pc[j] \in Preparing
    OBVIOUS
  <2>4. CASE /\ s \in Terminal /\ l = c.jobs[j].link
             /\ s = "completed" => c.pc[j] \in {"approval", "harness"}
    <3>1. ASSUME Unwinds(c, j), d.jobs[j] # c.jobs[j]
          PROVE  /\ c.pc[j] \in {"approval", "harness"} => c.jobs[j].st \in Active
                 /\ c.pc[j] = "summary" => c.jobs[j].st = "completed"
      <4>1. c.jobs[j].st # "absent" /\ s # c.jobs[j].st
        BY <2>2, <2>4, <3>1, RowShape
      <4>2. c.pc[j] \in {"approval", "harness"} => c.jobs[j].st \in Active
        BY <2>4, <3>1, <4>1, StatusSorts DEF Unwinds, Showing
      <4>3. c.pc[j] = "summary" => c.jobs[j].st = "completed"
        BY <2>4, <3>1, <4>1 DEF Unwinds, Showing
      <4>4. QED
        BY <4>2, <4>3
    <3>2. QED
      BY <1>10, <2>1, <2>2, <2>3, <2>4, <3>1 DEF Rewrites
  <2>5. QED
    BY <1>10, <2>1, <2>2, <2>3, <2>4 DEF Rewrites
<1>14. p # "approval"
  BY DEF Awaiting
<1>15. QED
  BY <1>2, <1>4, <1>6, <1>7, <1>8, <1>9, <1>10, <1>11, <1>12, <1>13, <1>14 DEF Moved, Asks

(* The tab became what runner j made of c, and the pump may have run.      *)
Makes(t, j, c) == \E b : Moved(c, b, j) /\ (Become(t, b) \/ BecomePumped(t, b))

LEMMA ReportMakes ==
    ASSUME NEW c \in Client, ClientInv(c), NEW t, NEW j \in Jobs,
           c.pc[j] \notin {"idle", "persistOutcome", "persistEnd"}, NEW s \in Terminal,
           NEW p \in {"persistOutcome", "persistEnd"},
           j \notin c.aborted \/ s = "cancelled",
           s = "completed" => c.pc[j] \in {"approval", "harness"},
           p = "persistOutcome" =>
               s \in (IF j \in c.aborted THEN {"cancelled"} ELSE {"completed", "failed"}),
           c.pc[j] = "summary" =>
               p = "persistEnd" /\ s = (IF j \in c.aborted THEN "cancelled" ELSE "failed"),
           Become(t, Await(Patch(c, j, s), j, p))
    PROVE  Makes(t, j, c)
<1>1. /\ s \in Status /\ c.jobs[j].link \in Link /\ p \in Awaiting /\ p # "persistStart"
      /\ s # "queued" /\ p \notin Underway /\ p \notin Preparing /\ p # "persistRun"
  BY StatusSorts, JobMapIsTyped DEF Client, Awaiting, Underway, Showing, Terminal, Preparing
<1>2. Moved(c, Await(PatchLink(c, j, s, c.jobs[j].link), j, p), j)
  BY <1>1, AwaitMoves
<1>3. QED
  BY <1>2 DEF Makes, Patch

(* What runHarness returned or threw is reported, and what throws later.   *)
LEMMA OutcomeMakes ==
    ASSUME NEW c \in Client, ClientInv(c), NEW t, NEW j \in Jobs,
           \/ Outcome(t, j, c) /\ c.pc[j] \in {"approval", "harness"}
           \/ Catch(t, j, c) /\ c.pc[j] = "summary"
    PROVE  Makes(t, j, c)
<1>1. CASE Catch(t, j, c)
  <2>1. PICK s \in {IF j \in c.aborted THEN "cancelled" ELSE "failed"} :
            Become(t, Await(Patch(c, j, s), j, "persistEnd"))
    BY <1>1 DEF Catch
  <2>2. s \in Terminal
    BY StatusSorts
  <2>3. QED
    BY <2>1, <2>2, ReportMakes
<1>2. CASE /\ c.pc[j] \in {"approval", "harness"}
           /\ \E s \in (IF j \in c.aborted THEN {"cancelled"} ELSE {"completed", "failed"}) :
                  Become(t, Await(Patch(c, j, s), j, "persistOutcome"))
  <2>1. PICK s \in (IF j \in c.aborted THEN {"cancelled"} ELSE {"completed", "failed"}) :
            Become(t, Await(Patch(c, j, s), j, "persistOutcome"))
    BY <1>2
  <2>2. s \in Terminal
    BY DEF Terminal
  <2>3. QED
    BY <1>2, <2>1, <2>2, ReportMakes
<1>3. QED
  BY <1>1, <1>2 DEF Outcome

LEMMA AbandonMakes ==
    ASSUME NEW c \in Client, ClientInv(c), NEW t, NEW j \in Jobs,
           c.pc[j] \in Preparing, Abandon(t, j, c)
    PROVE  Makes(t, j, c)
<1>0. c.pc[j] \notin {"idle", "persistOutcome", "persistEnd", "summary"}
  BY DEF Preparing
<1>1. CASE j \in c.aborted
  BY <1>0, <1>1, CleanupMoves DEF Abandon, Makes
<1>2. CASE j \notin c.aborted
  <2>1. Become(t, Await(Patch(c, j, "failed"), j, "persistEnd"))
    BY <1>2 DEF Abandon
  <2>2. QED
    BY <1>0, <1>2, <2>1, ReportMakes, StatusSorts
<1>3. QED
  BY <1>1, <1>2

LEMMA ProceedMakes ==
    ASSUME NEW c \in Client, NEW t, NEW j \in Jobs, c.pc[j] \notin {"idle", "persistEnd"},
           NEW p \in {"policy", "worktreeAdd", "worktreeMade", "verify", "approval", "harness",
                      "summary"},
           \/ c.pc[j] \in Preparing /\ p \notin {"approval", "harness", "summary"}
           \/ c.pc[j] \in {"persistRun", "approval"} /\ p = "harness"
           \/ c.pc[j] = "persistRun" /\ p = "approval" /\ ~Cancelled(c, j)
           \/ c.pc[j] = "persistOutcome" /\ p = "summary",
           Become(t, Suspend(c, j, p))
    PROVE  Makes(t, j, c)
<1>1. /\ p \in Suspended \ Awaiting /\ (p \in Preparing => c.pc[j] \in Preparing)
      /\ p \in Underway => c.pc[j] \in Underway
      /\ p = "summary" <=> c.pc[j] \in Showing
  BY DEF Suspended, Awaiting, Preparing, Underway, Showing
<1>2. QED
  BY <1>1, ProceedMoves DEF Makes

LEMMA GiveUpMakes ==
    ASSUME NEW c \in Client, NEW t, NEW j \in Jobs, c.pc[j] \in {"persistStart", "persistRun"},
           GiveUp(t, j, c)
    PROVE  Makes(t, j, c)
  BY GiveUpMoves DEF Makes, GiveUp

LEMMA CleanupMakes ==
    ASSUME NEW c \in Client, NEW t, NEW j \in Jobs, c.pc[j] # "idle",
           BecomePumped(t, Cleanup(c, j))
    PROVE  Makes(t, j, c)
  BY CleanupMoves DEF Makes

(* Every step of a runner is one of these, before or after its write was   *)
(* taken off the chain.                                                    *)
LEMMA RunnerMakes ==
    ASSUME IInv, NEW t \in Tabs, NEW j \in Jobs, RunnerStep(t, j) \/ UserDecides(t, j)
    PROVE  \/ Makes(t, j, client[t]) /\ client[t].pc[j] \notin Awaiting
           \/ /\ Makes(t, j, Settle(client[t]))
              /\ Answered(client[t]) /\ client[t].flight.task = AwaitedTask(j)
<1> DEFINE c == client[t]
           d == Settle(client[t])
           mine == Answered(client[t]) /\ client[t].flight.task = AwaitedTask(j)
<1>0. /\ \A p \in {"policy", "worktreeAdd", "worktreeMade", "verify", "approval", "harness",
                    "summary"} : p \notin Awaiting
      /\ \A p \in {"persistStart", "policy", "worktreeAdd", "worktreeMade", "persistLink",
                    "verify", "persistRun", "approval"} :
            p \in Underway /\ p \notin {"idle", "persistOutcome", "persistEnd", "summary"}
      /\ \A p \in {"persistStart", "policy", "worktreeAdd", "worktreeMade", "persistLink",
                    "verify"} : p \in Preparing
      /\ \A p : Resumes(t, j, p) => mine
  BY DEF Awaiting, Underway, Showing, Suspended, Preparing, Resumes
<1>13. SUFFICES (Makes(t, j, c) /\ c.pc[j] \notin Awaiting) \/ (Makes(t, j, d) /\ mine)
  OBVIOUS
<1>1. c \in Client /\ ClientInv(c)
  BY SettledClient
<1>2. d \in Client /\ ClientInv(d) /\ d.pc = c.pc /\ d.jobs = c.jobs /\ d.aborted = c.aborted
  BY <1>1, SettledClient, SettleAll DEF Good
<1>3. CASE StartPersisted(t, j)
  <2>1. d.pc[j] = "persistStart" /\ mine
    BY <1>0, <1>2, <1>3 DEF StartPersisted, Resumes
  <2> HIDE DEF c, d, mine
  <2>2. CASE GiveUp(t, j, d)
    BY <1>0, <1>2, <2>1, <2>2, GiveUpMakes
  <2>3. CASE BecomePumped(t, Cleanup(d, j))
    BY <1>0, <1>2, <2>1, <2>3, CleanupMakes
  <2>4. CASE ~Cancelled(d, j) /\ Become(t, Await(Patch(d, j, "skipped"), j, "persistEnd"))
    <3>1. "skipped" \in Terminal /\ j \notin d.aborted
      BY <2>4 DEF Cancelled, Terminal
    <3>2. QED
      BY <1>0, <1>2, <2>1, <2>4, <3>1, ReportMakes
  <2>5. CASE Become(t, Suspend(d, j, "policy"))
    BY <1>0, <1>2, <2>1, <2>5, ProceedMakes
  <2>6. QED
    BY <1>0, <1>3, <2>2, <2>3, <2>4, <2>5 DEF StartPersisted, d
<1>4. CASE PolicyDecides(t, j)
  <2>1. c.pc[j] = "policy"
    BY <1>4 DEF PolicyDecides
  <2>2. CASE Abandon(t, j, c)
    BY <1>0, <1>1, <2>1, <2>2, AbandonMakes
  <2>3. CASE \E p \in {"worktreeAdd", "verify"} : Become(t, Suspend(c, j, p))
    BY <1>0, <1>1, <2>1, <2>3, ProceedMakes
  <2>4. QED
    BY <1>0, <1>4, <2>2, <2>3 DEF PolicyDecides
<1>5. CASE WorktreeAdd(t, j)
  <2>1. c.pc[j] = "worktreeAdd"
    BY <1>5 DEF WorktreeAdd
  <2>2. CASE Abandon(t, j, c)
    BY <1>0, <1>1, <2>1, <2>2, AbandonMakes
  <2>3. CASE Become(t, Suspend(c, j, "worktreeMade"))
    BY <1>0, <1>1, <2>1, <2>3, ProceedMakes
  <2>4. QED
    BY <1>0, <1>5, <2>2, <2>3 DEF WorktreeAdd
<1>6. CASE WorktreeMade(t, j)
  <2>1. c.pc[j] = "worktreeMade"
    BY <1>6 DEF WorktreeMade
  <2>2. CASE Abandon(t, j, c)
    BY <1>0, <1>1, <2>1, <2>2, AbandonMakes
  <2>3. CASE Become(t, Await(PatchLink(c, j, c.jobs[j].st, "worktree"), j, "persistLink"))
    <3>1. /\ c.jobs[j].st \in Status /\ "worktree" \in Link /\ "persistLink" \in Awaiting
          /\ c.pc[j] \in Underway /\ "persistLink" # "persistStart" /\ "persistLink" # "persistRun"
          /\ c.pc[j] \in Preparing
      BY <1>0, <1>1, <2>1, JobMapIsTyped DEF Client, Link, Awaiting
    <3>2. Moved(c, Await(PatchLink(c, j, c.jobs[j].st, "worktree"), j, "persistLink"), j)
      BY <1>0, <1>1, <2>1, <3>1, AwaitMoves
    <3>3. QED
      BY <1>0, <2>1, <2>3, <3>2 DEF Makes
  <2>4. QED
    BY <1>0, <1>6, <2>2, <2>3 DEF WorktreeMade
<1>7. CASE LinkPersisted(t, j)
  <2>1. d.pc[j] = "persistLink" /\ mine
    BY <1>0, <1>2, <1>7 DEF LinkPersisted, Resumes
  <2> HIDE DEF c, d, mine
  <2>2. CASE Abandon(t, j, d)
    BY <1>0, <1>2, <2>1, <2>2, AbandonMakes
  <2>3. CASE Become(t, Suspend(d, j, "verify"))
    BY <1>0, <1>2, <2>1, <2>3, ProceedMakes
  <2>4. QED
    BY <1>0, <1>7, <2>2, <2>3 DEF LinkPersisted, d
<1>8. CASE Verified(t, j)
  <2>1. c.pc[j] = "verify"
    BY <1>8 DEF Verified
  <2>2. CASE Abandon(t, j, c)
    BY <1>0, <1>1, <2>1, <2>2, AbandonMakes
  <2>3. CASE BecomePumped(t, Cleanup(c, j))
    BY <1>0, <1>1, <2>1, <2>3, CleanupMakes
  <2>4. CASE ~Cancelled(c, j) /\ Become(t, Await(PatchLink(c, j, "running", "session"), j, "persistRun"))
    <3>1. /\ "running" \in Status /\ "session" \in Link /\ "persistRun" \in Awaiting
          /\ j \notin c.aborted /\ "running" \in Active /\ "running" # "queued"
          /\ c.pc[j] \in Underway /\ [st |-> "running", link |-> "session"] = Linkage
          /\ "persistRun" # "persistStart" /\ c.pc[j] \in Preparing
      BY <1>0, <2>1, <2>4, StatusSorts DEF Link, Awaiting, Cancelled, Linkage
    <3>2. Moved(c, Await(PatchLink(c, j, "running", "session"), j, "persistRun"), j)
      BY <1>0, <1>1, <2>1, <3>1, AwaitMoves
    <3>3. QED
      BY <1>0, <2>1, <2>4, <3>2 DEF Makes
  <2>5. QED
    BY <1>0, <1>8, <2>2, <2>3, <2>4 DEF Verified
<1>9. CASE RunPersisted(t, j)
  <2>1. d.pc[j] = "persistRun" /\ mine
    BY <1>0, <1>2, <1>9 DEF RunPersisted, Resumes
  <2> HIDE DEF c, d, mine
  <2>2. CASE GiveUp(t, j, d)
    BY <1>0, <1>2, <2>1, <2>2, GiveUpMakes
  <2>3. CASE BecomePumped(t, Cleanup(d, j))
    BY <1>0, <1>2, <2>1, <2>3, CleanupMakes
  <2>4. CASE ~Cancelled(d, j) /\ \E p \in {"approval", "harness"} : Become(t, Suspend(d, j, p))
    BY <1>0, <1>2, <2>1, <2>4, ProceedMakes
  <2>5. QED
    BY <1>0, <1>9, <2>2, <2>3, <2>4 DEF RunPersisted, d
<1>10. CASE HarnessReturns(t, j) \/ ApprovalEnds(t, j)
  <2>1. c.pc[j] \in {"approval", "harness"} /\ Outcome(t, j, c)
    BY <1>10 DEF HarnessReturns, ApprovalEnds
  <2>2. QED
    BY <1>0, <1>1, <2>1, OutcomeMakes
<1>11. CASE ApprovalGranted(t, j)
  <2>1. c.pc[j] = "approval" /\ Become(t, Suspend(c, j, "harness"))
    BY <1>11 DEF ApprovalGranted
  <2>2. QED
    BY <1>0, <1>1, <2>1, ProceedMakes
<1>12. CASE OutcomePersisted(t, j)
  <2>1. /\ d.pc[j] = "persistOutcome" /\ mine
        /\ BecomePumped(t, Cleanup(d, j)) \/ Become(t, Suspend(d, j, "summary"))
    BY <1>0, <1>2, <1>12 DEF OutcomePersisted, Resumes
  <2> HIDE DEF c, d, mine
  <2>2. QED
    BY <1>0, <1>2, <2>1, CleanupMakes, ProceedMakes
<1>14. CASE Summarised(t, j)
  <2>1. c.pc[j] = "summary" /\ (BecomePumped(t, Cleanup(c, j)) \/ Catch(t, j, c))
    BY <1>14 DEF Summarised
  <2>2. QED
    BY <1>0, <1>1, <2>1, CleanupMakes, OutcomeMakes
<1>15. CASE EndPersisted(t, j)
  <2>1. d.pc[j] = "persistEnd" /\ mine /\ BecomePumped(t, Cleanup(d, j))
    BY <1>0, <1>2, <1>15 DEF EndPersisted, Resumes
  <2> HIDE DEF c, d, mine
  <2>2. QED
    BY <1>0, <1>2, <2>1, CleanupMakes
<1>16. QED
  BY <1>3, <1>4, <1>5, <1>6, <1>7, <1>8, <1>9, <1>10, <1>11, <1>12, <1>14, <1>15
     DEF RunnerStep, UserDecides

-----------------------------------------------------------------------------
(* What the other handlers do to their client                              *)

(* enqueueJobForProject                                                    *)
Enqueued(c, d, j) ==
    /\ Others(c, d, j) /\ d.flight = c.flight /\ d.pc = c.pc /\ d.aborted = c.aborted
    /\ d.chain = Append(c.chain, NewTask(j)) /\ d.jobs[j] = NewJob(j)

LEMMA EnqueueMakes ==
    ASSUME IInv, NEW t \in Tabs, NEW j \in Jobs, Enqueue(t, j)
    PROVE  \E d : Enqueued(client[t], d, j) /\ Become(t, d)
<1> DEFINE c == client[t]
           b == [c EXCEPT !.jobs[j] = NewJob(j), !.timer = @ \/ c.boot = "ready"]
           d == Push(b, NewTask(j))
<1>1. c \in Client
  BY DEF IInv, TypeOK
<1>2. Become(t, d)
  BY DEF Enqueue
<1>3. NewJob(j) \in JobRecord
  BY DEF NewJob, JobRecord, Status, Active, Link
<1> HIDE DEF c
<1>4. b \in Client
  <2>1. [c.jobs EXCEPT ![j] = NewJob(j)] \in JobMap
    BY <1>1, <1>3 DEF Client, JobMap
  <2>2. (c.timer \/ c.boot = "ready") \in BOOLEAN
    OBVIOUS
  <2> QED
    BY <1>1, <2>1, <2>2 DEF Client
<1>5. /\ b.boot = c.boot /\ b.recovered = c.recovered /\ b.durable = c.durable
      /\ b.lastPut = c.lastPut /\ b.limit = c.limit
      /\ b.flight = c.flight /\ b.pc = c.pc /\ b.aborted = c.aborted /\ b.chain = c.chain
      /\ b.timer <=> (c.timer \/ c.boot = "ready")
      /\ \A k \in Jobs : b.jobs[k] = IF k = j THEN NewJob(j) ELSE c.jobs[k]
  BY <1>1 DEF Client, JobMap
<1> HIDE DEF b
<1>6. /\ Others(b, d, j) /\ d.flight = b.flight /\ d.jobs = b.jobs /\ d.pc = b.pc
      /\ d.aborted = b.aborted /\ d.chain = Append(b.chain, NewTask(j))
  BY <1>4, PushAll, TasksAreTyped
<1> HIDE DEF d
<1>7. Others(c, b, j)
  BY <1>4, <1>5 DEF Others
<1>8. Enqueued(c, d, j)
  BY <1>5, <1>6, <1>7, OthersAgain DEF Enqueued
<1>9. QED
  BY <1>2, <1>8 DEF c

(* cancelBackgroundJob, before it pumps                                    *)
Cancels(c, d, j) ==
    /\ Others(c, d, j) /\ d.flight = c.flight /\ d.pc = c.pc
    /\ c.jobs[j].st \in Active /\ d.jobs[j] = [st |-> "cancelled", link |-> c.jobs[j].link]
    /\ j \in d.aborted <=> (j \in c.aborted \/ c.pc[j] # "idle")
    /\ d.chain = Append(c.chain, CurrentTask(j))
    /\ c.boot = "ready" => d.timer

LEMMA CancelMakes ==
    ASSUME IInv, NEW t \in Tabs, NEW j \in Jobs, Cancel(t, j)
    PROVE  \E d : Cancels(client[t], d, j) /\ BecomePumped(t, d)
<1> DEFINE c == client[t]
           A == IF c.pc[j] = "idle" THEN c.aborted ELSE c.aborted \cup {j}
           a == [c EXCEPT !.aborted = A]
           b == Patch(a, j, "cancelled")
           d == Push(b, CurrentTask(j))
<1>1. c \in Client /\ c.jobs[j].st \in Active
  BY DEF IInv, TypeOK, Cancel
<1>2. BecomePumped(t, d)
  BY DEF Cancel
<1> HIDE DEF c
<1>3. A \subseteq Jobs /\ a \in Client
  BY <1>1 DEF Client
<1>4. /\ a.boot = c.boot /\ a.recovered = c.recovered /\ a.durable = c.durable
      /\ a.lastPut = c.lastPut /\ a.limit = c.limit /\ a.timer = c.timer
      /\ a.flight = c.flight /\ a.pc = c.pc /\ a.aborted = A /\ a.chain = c.chain
      /\ a.jobs = c.jobs
  BY <1>1 DEF Client
<1>5. Others(c, a, j) /\ (j \in a.aborted <=> (j \in c.aborted \/ c.pc[j] # "idle"))
  BY <1>3, <1>4 DEF Others
<1> HIDE DEF a, A
<1>6. a.jobs[j].link \in Link /\ "cancelled" \in Status
  BY <1>3, JobMapIsTyped, StatusSorts DEF Client
<1>7. /\ Others(a, b, j)
      /\ b.flight = a.flight /\ b.chain = a.chain /\ b.pc = a.pc /\ b.aborted = a.aborted
      /\ a.boot = "ready" => b.timer
      /\ b.jobs[j] = IF a.jobs[j].st = "absent" THEN a.jobs[j]
                     ELSE [st |-> "cancelled", link |-> a.jobs[j].link]
  BY <1>3, <1>6, PatchAll DEF Patch
<1> HIDE DEF b
<1>8. b \in Client
  BY <1>7 DEF Others
<1>9. /\ Others(b, d, j) /\ d.flight = b.flight /\ d.jobs = b.jobs /\ d.pc = b.pc
      /\ d.aborted = b.aborted /\ d.chain = Append(b.chain, CurrentTask(j))
  BY <1>8, PushAll, TasksAreTyped
<1> HIDE DEF d
<1>10. Others(c, d, j)
  BY <1>5, <1>7, <1>9, OthersAgain
<1>11. c.boot = "ready" => d.timer
  BY <1>4, <1>7, <1>9 DEF Others
<1>12. Cancels(c, d, j)
  BY <1>1, <1>4, <1>5, <1>7, <1>9, <1>10, <1>11, StatusSorts DEF Cancels
<1>13. QED
  BY <1>2, <1>12 DEF c

(* The fields no handler touches but those of the write chain and the boot *)
SameRunners(c, d) ==
    /\ d \in Client
    /\ d.boot = c.boot /\ d.recovered = c.recovered /\ d.durable = c.durable
    /\ d.pc = c.pc /\ d.aborted = c.aborted

(* clearFinishedJobs                                                       *)
Clears(c, d) ==
    /\ SameRunners(c, d) /\ d.flight = c.flight /\ d.chain = c.chain
    /\ d.limit = c.limit /\ d.lastPut = c.lastPut
    /\ d.timer => c.timer \/ c.boot = "ready"
    /\ c.timer => d.timer
    /\ \A k \in Jobs : IF c.jobs[k].st \in Terminal THEN d.jobs[k] = Absent
                       ELSE d.jobs[k] = c.jobs[k]

LEMMA ClearFinishedMakes ==
    ASSUME IInv, NEW t \in Tabs, ClearFinished(t)
    PROVE  \E d : Clears(client[t], d) /\ Become(t, d)
<1> DEFINE c == client[t]
           done == {j \in Jobs : c.jobs[j].st \in Terminal}
           m == [j \in Jobs |-> IF j \in done THEN Absent ELSE c.jobs[j]]
           d == [c EXCEPT !.jobs = m, !.timer = c.timer \/ c.boot = "ready"]
<1>1. c \in Client
  BY DEF IInv, TypeOK
<1>2. Become(t, d)
  BY DEF ClearFinished
<1> HIDE DEF c
<1>3. Absent \in JobRecord
  BY DEF Absent, JobRecord, Status, Link
<1>4. m \in JobMap
  BY <1>1, <1>3 DEF Client, JobMap
<1>5. \A k \in Jobs : IF c.jobs[k].st \in Terminal THEN m[k] = Absent ELSE m[k] = c.jobs[k]
  OBVIOUS
<1> HIDE DEF m
<1>6. d \in Client
  <2>1. (c.timer \/ c.boot = "ready") \in BOOLEAN
    OBVIOUS
  <2> QED
    BY <1>1, <1>4, <2>1 DEF Client
<1>7. /\ d.boot = c.boot /\ d.aborted = c.aborted /\ d.pc = c.pc /\ d.jobs = m
      /\ d.recovered = c.recovered /\ d.flight = c.flight /\ d.chain = c.chain
      /\ d.durable = c.durable /\ d.limit = c.limit /\ d.lastPut = c.lastPut
      /\ d.timer <=> (c.timer \/ c.boot = "ready")
  BY <1>1 DEF Client
<1> HIDE DEF d
<1>8. Clears(c, d)
  BY <1>5, <1>6, <1>7 DEF Clears, SameRunners
<1>9. QED
  BY <1>2, <1>8 DEF c

(* BootMerge, before it pumps                                              *)
Merges(c, d) ==
    /\ d \in Client
    /\ c.boot = "fetching" /\ d.boot = "ready" /\ d.recovered = NoJobs
    /\ d.pc = c.pc /\ d.aborted = c.aborted /\ d.flight = c.flight /\ d.chain = c.chain
    /\ d.limit = c.limit /\ d.lastPut = c.recovered
    /\ d.durable = c.durable \cup {k \in Jobs : c.recovered[k].st = "queued"}
    /\ \A k \in Jobs : d.jobs[k] = IF c.jobs[k].st = "absent" THEN c.recovered[k] ELSE c.jobs[k]

LEMMA BootMergeMakes ==
    ASSUME IInv, NEW t \in Tabs, BootMerge(t)
    PROVE  \E d : Merges(client[t], d) /\ BecomePumped(t, d)
<1> DEFINE c == client[t]
           m == [j \in Jobs |-> IF c.jobs[j].st = "absent" THEN c.recovered[j] ELSE c.jobs[j]]
           D == c.durable \cup {j \in Jobs : c.recovered[j].st = "queued"}
           d == [c EXCEPT !.boot = "ready", !.jobs = m, !.durable = D, !.lastPut = c.recovered,
                          !.recovered = NoJobs, !.timer = m # c.recovered]
<1>1. c \in Client /\ c.boot = "fetching"
  BY DEF IInv, TypeOK, BootMerge
<1>2. BecomePumped(t, d)
  BY DEF BootMerge
<1> HIDE DEF c
<1>3. m \in JobMap /\ D \subseteq Jobs
  BY <1>1 DEF Client, JobMap
<1>4. \A k \in Jobs : m[k] = IF c.jobs[k].st = "absent" THEN c.recovered[k] ELSE c.jobs[k]
  OBVIOUS
<1> HIDE DEF m, D
<1>5. d \in Client
  <2>1. (m # c.recovered) \in BOOLEAN
    OBVIOUS
  <2> QED
    BY <1>1, <1>3, <2>1, NoJobsIsTyped DEF Client
<1>6. /\ d.boot = "ready" /\ d.aborted = c.aborted /\ d.pc = c.pc /\ d.jobs = m
      /\ d.recovered = NoJobs /\ d.flight = c.flight /\ d.chain = c.chain
      /\ d.durable = D /\ d.limit = c.limit /\ d.lastPut = c.recovered
  BY <1>1 DEF Client
<1> HIDE DEF d
<1>7. Merges(c, d)
  BY <1>1, <1>4, <1>5, <1>6 DEF Merges, D
<1>8. QED
  BY <1>2, <1>7 DEF c

(* The boot read is on its way, or failed.                                 *)
Reads(c, d, from, to, read) ==
    /\ d \in Client /\ c.boot = from /\ d.boot = to /\ d.recovered = read
    /\ d.jobs = c.jobs /\ d.durable = c.durable /\ d.pc = c.pc /\ d.aborted = c.aborted
    /\ d.flight = c.flight /\ d.chain = c.chain /\ d.timer = c.timer /\ d.lastPut = c.lastPut

LEMMA BootReadMakes ==
    ASSUME IInv, NEW t \in Tabs, BootGet(t) \/ BootFail(t)
    PROVE  \E d : /\ Become(t, d)
                  /\ \/ BootGet(t) /\ Reads(client[t], d, "down", "fetching", ledger')
                     \/ BootFail(t) /\ Reads(client[t], d, "fetching", "paused", NoJobs)
<1> DEFINE c == client[t]
           x == [c EXCEPT !.boot = "fetching", !.recovered = ledger']
           y == [c EXCEPT !.boot = "paused", !.recovered = NoJobs]
<1>1. c \in Client
  BY DEF IInv, TypeOK
<1>2. CASE BootGet(t)
  <2>1. Become(t, x) /\ c.boot = "down" /\ ledger' \in JobMap
    BY <1>2, ReconciledIsGood DEF BootGet
  <2> HIDE DEF c
  <2>2. Reads(c, x, "down", "fetching", ledger')
    BY <1>1, <2>1 DEF Reads, Client
  <2>3. QED
    BY <1>2, <2>1, <2>2 DEF c
<1>3. CASE BootFail(t)
  <2>1. Become(t, y) /\ c.boot = "fetching"
    BY <1>3 DEF BootFail
  <2> HIDE DEF c
  <2>2. Reads(c, y, "fetching", "paused", NoJobs)
    BY <1>1, <2>1, NoJobsIsTyped DEF Reads, Client
  <2>3. QED
    BY <1>3, <2>1, <2>2 DEF c
<1>4. QED
  BY <1>2, <1>3

(* The debounced snapshot is queued, or nothing has changed.               *)
Ticks(c, d) ==
    /\ SameRunners(c, d) /\ d.jobs = c.jobs /\ d.flight = c.flight
    /\ c.timer /\ ~d.timer /\ d.lastPut = c.lastPut
    /\ Lengthens(c, d, {SyncTask})
    /\ d.jobs = d.lastPut \/ \E i \in DOMAIN d.chain : d.chain[i] = SyncTask

LEMMA TimerFiresMakes ==
    ASSUME IInv, NEW t \in Tabs, TimerFires(t)
    PROVE  \E d : Ticks(client[t], d) /\ Become(t, d)
<1> DEFINE c == client[t]
           off == [c EXCEPT !.timer = FALSE]
           d == Push(off, SyncTask)
<1>1. c \in Client /\ c.timer
  BY DEF IInv, TypeOK, TimerFires
<1>2. (Become(t, off) /\ c.jobs = c.lastPut) \/ Become(t, d)
  BY DEF TimerFires
<1> HIDE DEF c
<1>3. off \in Client
  BY <1>1 DEF Client
<1>4. /\ SameRunners(c, off) /\ off.jobs = c.jobs /\ off.flight = c.flight /\ ~off.timer
      /\ off.chain = c.chain /\ off.lastPut = c.lastPut
  BY <1>1, <1>3 DEF Client, SameRunners
<1> HIDE DEF off
<1>5. c.jobs = c.lastPut => Ticks(c, off)
  BY <1>1, <1>4, SameChain DEF Ticks
<1>6. SyncTask \in Task
  BY DEF Task
<1>7. d \in Client
  BY <1>3, <1>6, PushIsTyped
<1>8. /\ d.boot = off.boot /\ d.recovered = off.recovered /\ d.durable = off.durable
      /\ d.pc = off.pc /\ d.aborted = off.aborted /\ d.jobs = off.jobs /\ d.flight = off.flight
      /\ d.timer = off.timer /\ d.chain = Append(off.chain, SyncTask) /\ d.lastPut = off.lastPut
  BY <1>3 DEF Push, Client
<1> HIDE DEF d
<1>9. Ticks(c, d)
  <2>1. Lengthens(c, d, {SyncTask})
    BY <1>1, <1>4, <1>8, AppendedChain
  <2>2. \E i \in DOMAIN d.chain : d.chain[i] = SyncTask
    <3>1. off.chain \in Seq(Task)
      BY <1>3 DEF Client
    <3>2. /\ Len(off.chain) + 1 \in DOMAIN d.chain
          /\ d.chain[Len(off.chain) + 1] = SyncTask
      BY <1>8, <3>1
    <3>3. QED
      BY <3>2
  <2>3. QED
    BY <1>1, <1>4, <1>7, <1>8, <2>1, <2>2 DEF Ticks, SameRunners
<1>10. QED
  BY <1>2, <1>5, <1>9 DEF c

(* The task at the head of the chain is sent, or needs no request.         *)
Sends(c, d) ==
    /\ SameRunners(c, d) /\ d.jobs = c.jobs /\ d.timer = c.timer
    /\ c.chain # <<>> /\ d.chain = Tail(c.chain) /\ c.flight.reply = "none"
    /\ d.flight.task = Head(c.chain) /\ d.flight.reply \in {"sent", "noop"}
    /\ \A k \in Jobs :
        \/ d.flight.body[k] = NoJobs[k]
        \/ /\ d.flight.body[k] = c.jobs[k]
           /\ d.flight.task.op = "sync" \/ d.flight.task.job = k
    /\ d.lastPut = c.lastPut
    /\ d.flight.reply = "sent" => \A k \in Jobs :
        d.flight.task.op = "sync" \/ d.flight.task.job = k => d.flight.body[k] = c.jobs[k]
    /\ d.flight.reply = "noop" =>
        /\ d.flight.body = NoJobs
        /\ d.flight.task = SyncTask => d.jobs = d.lastPut

LEMMA WriteStartsMakes ==
    ASSUME IInv, NEW t \in Tabs, WriteStarts(t)
    PROVE  \E d : Sends(client[t], d) /\ Become(t, d)
<1> DEFINE c == client[t]
           task == Head(c.chain)
           f == IF Needed(c, task) THEN [task |-> task, body |-> Body(c, task), reply |-> "sent"]
                ELSE [task |-> task, body |-> NoJobs, reply |-> "noop"]
           d == [c EXCEPT !.chain = Tail(c.chain), !.flight = f]
<1>1. c \in Client /\ c.chain # <<>> /\ c.flight.reply = "none"
  BY DEF IInv, TypeOK, WriteStarts
<1>2. Become(t, d)
  BY DEF WriteStarts
<1> HIDE DEF c
<1>3. task \in Task /\ Tail(c.chain) \in Seq(Task)
  <2>1. c.chain \in Seq(Task)
    BY <1>1 DEF Client
  <2> QED
    BY <1>1, <2>1
<1> HIDE DEF task
<1>4. /\ \A k \in Jobs : \/ f.body[k] = NoJobs[k]
                         \/ f.body[k] = c.jobs[k] /\ (task.op = "sync" \/ task.job = k)
      /\ f.reply = "sent" => \A k \in Jobs :
            task.op = "sync" \/ task.job = k => f.body[k] = c.jobs[k]
      /\ f.reply = "noop" => f.body = NoJobs
  BY DEF Body, NoJobs
<1>10. f.reply = "noop" /\ task = SyncTask => c.jobs = c.lastPut
  BY DEF Needed, SyncTask
<1>5. f \in Flight /\ f.task = task /\ f.reply \in {"sent", "noop"}
  <2>1. Body(c, task) \in JobMap
    <3>1. c.jobs \in JobMap /\ Absent \in JobRecord
      BY <1>1, NoJobsIsTyped DEF Client, NoJobs, Absent, JobRecord, Status, Link
    <3> QED
      BY <3>1 DEF Body, JobMap
  <2> QED
    BY <1>3, <2>1, NoJobsIsTyped DEF Flight, Reply
<1> HIDE DEF f
<1>6. d \in Client
  BY <1>1, <1>3, <1>5 DEF Client
<1>7. /\ d.boot = c.boot /\ d.aborted = c.aborted /\ d.pc = c.pc /\ d.jobs = c.jobs
      /\ d.recovered = c.recovered /\ d.durable = c.durable /\ d.timer = c.timer
      /\ d.flight = f /\ d.chain = Tail(c.chain) /\ d.lastPut = c.lastPut
  BY <1>1 DEF Client
<1> HIDE DEF d
<1>8. Sends(c, d)
  BY <1>1, <1>4, <1>5, <1>6, <1>7, <1>10 DEF Sends, SameRunners, task
<1>9. QED
  BY <1>2, <1>8 DEF c

(* The runtime answered r.                                                 *)
Answers(c, d, r) ==
    /\ SameRunners(c, d) /\ d.jobs = c.jobs /\ d.timer = c.timer /\ d.chain = c.chain
    /\ c.flight.reply = "sent" /\ d.flight.reply = r
    /\ d.flight.task = c.flight.task /\ d.flight.body = c.flight.body /\ d.lastPut = c.lastPut

LEMMA AnswerMakes ==
    ASSUME IInv, NEW t \in Tabs, client[t].flight.reply = "sent", NEW r \in Reply, Answer(t, r)
    PROVE  \E d : Answers(client[t], d, r) /\ Become(t, d)
<1> DEFINE c == client[t]
           f == [c.flight EXCEPT !.reply = r]
           d == [c EXCEPT !.flight = f]
<1>1. c \in Client /\ c.flight.reply = "sent"
  BY DEF IInv, TypeOK
<1>2. Become(t, d)
  BY DEF Answer
<1> HIDE DEF c
<1>3. f \in Flight /\ f.body = c.flight.body /\ f.task = c.flight.task /\ f.reply = r
  BY <1>1 DEF Client, Flight
<1> HIDE DEF f
<1>4. d \in Client
  BY <1>1, <1>3 DEF Client
<1>5. /\ d.boot = c.boot /\ d.aborted = c.aborted /\ d.pc = c.pc /\ d.jobs = c.jobs
      /\ d.recovered = c.recovered /\ d.durable = c.durable /\ d.timer = c.timer
      /\ d.flight = f /\ d.chain = c.chain /\ d.lastPut = c.lastPut
  BY <1>1 DEF Client
<1> HIDE DEF d
<1>6. Answers(c, d, r)
  BY <1>1, <1>3, <1>4, <1>5 DEF Answers, SameRunners
<1>7. QED
  BY <1>2, <1>6 DEF c

(* The snapshot, or a write nobody waits for, is over.                     *)
Settles(c, d) ==
    /\ SameRunners(c, d) /\ d.jobs = c.jobs /\ d.chain = c.chain /\ d.flight = NoFlight
    /\ Answered(c)
    /\ d.timer => c.timer \/ c.flight.task.op = "sync"
    /\ c.timer => d.timer
    /\ c.flight.task.op = "sync" /\ c.flight.reply = "error" => d.timer
    /\ d.lastPut = IF c.flight.task.op = "sync" /\ c.flight.reply = "ok" THEN c.flight.body
                   ELSE c.lastPut

LEMMA SyncPersistedMakes ==
    ASSUME IInv, NEW t \in Tabs, SyncPersisted(t) \/ UnawaitedPersisted(t)
    PROVE  \E d : Settles(client[t], d) /\ Become(t, d)
<1> DEFINE o == client[t]
           c == Settle(o)
           a == [c EXCEPT !.lastPut = o.flight.body]
           b == [c EXCEPT !.timer = TRUE]
<1>1. /\ \/ Become(t, c) /\ (o.flight.task.op # "sync" \/ o.flight.reply = "noop")
         \/ o.flight.task.op = "sync" /\ o.flight.reply = "ok" /\ Become(t, a)
         \/ o.flight.task.op = "sync" /\ o.flight.reply = "error" /\ Become(t, b)
      /\ Answered(o)
  BY DEF SyncPersisted, UnawaitedPersisted
<1>2. o \in Client /\ o.flight.body \in JobMap
  BY SettledClient DEF Client, Flight
<1> HIDE DEF o
<1>3. /\ c \in Client /\ SameRunners(o, c) /\ c.jobs = o.jobs /\ c.chain = o.chain
      /\ c.flight = NoFlight /\ c.timer = o.timer /\ c.lastPut = o.lastPut
  BY <1>2, SettleAll DEF SameRunners
<1> HIDE DEF c
<1>4. a \in Client /\ b \in Client
  BY <1>2, <1>3 DEF Client
<1>5. /\ SameRunners(c, a) /\ a.jobs = c.jobs /\ a.flight = c.flight /\ a.chain = c.chain
      /\ a.timer = c.timer /\ a.lastPut = o.flight.body
  BY <1>3, <1>4 DEF Client, SameRunners
<1>6. /\ SameRunners(c, b) /\ b.jobs = c.jobs /\ b.flight = c.flight /\ b.chain = c.chain
      /\ b.timer /\ b.lastPut = c.lastPut
  BY <1>3, <1>4 DEF Client, SameRunners
<1> HIDE DEF a, b
<1>7. /\ o.flight.task.op # "sync" \/ o.flight.reply = "noop" => Settles(o, c)
      /\ o.flight.task.op = "sync" /\ o.flight.reply = "ok" => Settles(o, a)
      /\ o.flight.task.op = "sync" /\ o.flight.reply = "error" => Settles(o, b)
  BY <1>1, <1>3, <1>5, <1>6 DEF Settles, SameRunners
<1>8. QED
  BY <1>1, <1>7 DEF o

(* A new job became durable.                                               *)
Remembers(c, d, j) ==
    /\ d \in Client /\ d.boot = c.boot /\ d.recovered = c.recovered
    /\ d.durable = c.durable \cup {j} /\ d.pc = c.pc /\ d.aborted = c.aborted
    /\ d.jobs = c.jobs /\ d.chain = c.chain /\ d.flight = c.flight /\ d.timer = c.timer
    /\ d.lastPut = c.lastPut

(* A new job could not be saved.                                           *)
Refuses(c, d, j) ==
    /\ Others(c, d, j) /\ d.flight = c.flight /\ d.chain = c.chain /\ d.pc = c.pc
    /\ d.aborted = c.aborted
    /\ c.boot = "ready" => d.timer
    /\ d.jobs[j] = IF c.jobs[j].st = "absent" THEN c.jobs[j]
                   ELSE [st |-> "failed", link |-> c.jobs[j].link]

LEMMA NewJobPersistedMakes ==
    ASSUME IInv, NEW t \in Tabs, NewJobPersisted(t)
    PROVE  LET c == Settle(client[t])
               j == client[t].flight.task.job
           IN  /\ j \in Jobs /\ client[t].flight.task = NewTask(j) /\ Answered(client[t])
               /\ \/ \E d : Refuses(c, d, j) /\ Become(t, d) /\ client[t].flight.reply = "error"
                  \/ \E d : Remembers(c, d, j) /\ BecomePumped(t, d)
                  \/ BecomePumped(t, c)
<1> DEFINE c == Settle(client[t])
           j == client[t].flight.task.job
           b == [c EXCEPT !.durable = c.durable \cup {j}]
           a == Patch(c, j, "failed")
<1>1. /\ \/ Become(t, a) /\ client[t].flight.reply = "error"
         \/ BecomePumped(t, b)
         \/ BecomePumped(t, c)
      /\ Answered(client[t]) /\ client[t].flight.task.op = "new"
  BY DEF NewJobPersisted
<1>2. client[t] \in Client /\ client[t].flight.task \in Task
  BY SettledClient DEF Client, Flight
<1>3. j \in Jobs /\ client[t].flight.task = NewTask(j)
  BY <1>1, <1>2, TaskSorts
<1>4. c \in Client
  BY <1>2, SettleAll
<1> HIDE DEF c, j
<1>5. Refuses(c, a, j)
  <2>1. c.jobs[j].link \in Link /\ "failed" \in Status
    BY <1>3, <1>4, JobMapIsTyped, StatusSorts DEF Client
  <2>2. /\ Others(c, a, j) /\ a.flight = c.flight /\ a.chain = c.chain /\ a.pc = c.pc
        /\ a.aborted = c.aborted
        /\ c.boot = "ready" => a.timer
        /\ a.jobs[j] = IF c.jobs[j].st = "absent" THEN c.jobs[j]
                       ELSE [st |-> "failed", link |-> c.jobs[j].link]
    BY <1>3, <1>4, <2>1, PatchAll DEF Patch
  <2> HIDE DEF a
  <2>3. QED
    BY <2>2 DEF Refuses
<1>6. Remembers(c, b, j)
  BY <1>3, <1>4 DEF Remembers, Client
<1> HIDE DEF a, b
<1>7. QED
  BY <1>1, <1>3, <1>5, <1>6 DEF c, j

(* The capacity is changed, or nothing but the pump runs.                  *)
LEMMA PumpMakes ==
    ASSUME IInv, NEW t \in Tabs, EffectPump(t) \/ \E n \in Limits : SetLimit(t, n)
    PROVE  \E d : /\ BecomePumped(t, d) /\ SameRunners(client[t], d)
                  /\ d.jobs = client[t].jobs /\ d.flight = client[t].flight
                  /\ d.chain = client[t].chain /\ d.timer = client[t].timer
                  /\ d.lastPut = client[t].lastPut
<1>1. client[t] \in Client
  BY DEF IInv, TypeOK
<1>2. CASE EffectPump(t)
  BY <1>1, <1>2 DEF EffectPump, SameRunners
<1>3. CASE \E n \in Limits : SetLimit(t, n)
  <2>1. PICK n \in Limits : SetLimit(t, n)
    BY <1>3
  <2> DEFINE c == client[t]
             d == [c EXCEPT !.limit = n]
  <2>2. c \in Client /\ BecomePumped(t, d)
    BY <1>1, <2>1 DEF SetLimit
  <2> HIDE DEF c
  <2>3. /\ SameRunners(c, d) /\ d.jobs = c.jobs /\ d.flight = c.flight
        /\ d.chain = c.chain /\ d.timer = c.timer /\ d.lastPut = c.lastPut
    BY <2>2 DEF Client, SameRunners
  <2>4. QED
    BY <2>2, <2>3 DEF c
<1>4. QED
  BY <1>2, <1>3

-----------------------------------------------------------------------------
(* CapacityRespected, step by step                                         *)

(* Only the pump starts runners.                                           *)
NoStart(c, d) == \A k \in Jobs : d.pc[k] = "persistStart" => c.pc[k] = "persistStart"

WithinCapacity ==
    \A t \in Tabs :
        (\E j \in Jobs : client[t].pc[j] = "idle" /\ client'[t].pc[j] = "persistStart")
            => Cardinality(InFlightJobs(client'[t])) <= client'[t].limit

LEMMA StartsAreBounded ==
    ASSUME IInv, NEW t \in Tabs, NEW d \in Client, NoStart(client[t], d),
           Become(t, d) \/ BecomePumped(t, d)
    PROVE  WithinCapacity
<1>1. client \in [Tabs -> Client]
  BY DEF IInv, TypeOK
<1>2. CASE Become(t, d)
  <2>1. \A u \in Tabs : NoStart(client[u], client'[u])
    BY <1>1, <1>2 DEF Become, NoStart
  <2>2. QED
    BY <2>1 DEF NoStart, WithinCapacity
<1>3. ASSUME NEW order \in Ascending(Startable(d)), Become(t, RunJobs(d, Startable(d), order))
      PROVE  WithinCapacity
  <2> DEFINE S == Startable(d)
             e == RunJobs(d, S, order)
  <2>1. \A u \in Tabs : client'[u] = IF u = t THEN e ELSE client[u]
    BY <1>1, <1>3 DEF Become
  <2>2. /\ e.limit = d.limit
        /\ \A k \in Jobs : e.pc[k] = IF k \in S THEN "persistStart" ELSE d.pc[k]
    BY DEF RunJobs, Client
  <2>3. S # {} => Cardinality(InFlightJobs(e)) <= d.limit
    BY PumpIsBounded
  <2>4. \A k \in Jobs : e.pc[k] = "persistStart" => k \in S \/ client[t].pc[k] = "persistStart"
    BY <2>2 DEF NoStart
  <2> HIDE DEF e, S
  <2>5. QED
    BY <2>1, <2>2, <2>3, <2>4 DEF WithinCapacity
<1>4. QED
  BY <1>2, <1>3 DEF BecomePumped

LEMMA QuietCapacity == ASSUME UNCHANGED client PROVE WithinCapacity
  BY DEF WithinCapacity

LEMMA CapacityStep ==
    ASSUME IInv, [Next]_vars
    PROVE  WithinCapacity
<1>1. CASE UNCHANGED client
  BY <1>1, QuietCapacity
<1>2. ASSUME NEW t \in Tabs, BootGet(t) \/ BootFail(t) PROVE WithinCapacity
  BY <1>2, BootReadMakes, StartsAreBounded DEF Reads, NoStart
<1>3. ASSUME NEW t \in Tabs, BootMerge(t) PROVE WithinCapacity
  BY <1>3, BootMergeMakes, StartsAreBounded DEF Merges, NoStart
<1>4. ASSUME NEW t \in Tabs, Reload(t) PROVE WithinCapacity
  <2> DEFINE d == FreshClient(client[t].limit)
  <2>1. client[t].limit \in Limits /\ Become(t, d)
    BY <1>4 DEF Reload, IInv, TypeOK, Client
  <2>2. d \in Client /\ \A k \in Jobs : d.pc[k] = "idle"
    BY <2>1, FreshClientIsTyped, FreshClientKnowsNothing
  <2> HIDE DEF d
  <2>3. QED
    BY <2>1, <2>2, StartsAreBounded DEF NoStart
<1>5. ASSUME NEW t \in Tabs, ClearFinished(t) PROVE WithinCapacity
  BY <1>5, ClearFinishedMakes, StartsAreBounded DEF Clears, SameRunners, NoStart
<1>6. ASSUME NEW t \in Tabs, TimerFires(t) PROVE WithinCapacity
  BY <1>6, TimerFiresMakes, StartsAreBounded DEF Ticks, SameRunners, NoStart
<1>7. ASSUME NEW t \in Tabs, WriteStarts(t) PROVE WithinCapacity
  BY <1>7, WriteStartsMakes, StartsAreBounded DEF Sends, SameRunners, NoStart
<1>8. ASSUME NEW t \in Tabs, ServerWrites(t) \/ WriteFault(t) PROVE WithinCapacity
  <2>1. \E r \in Reply : client[t].flight.reply = "sent" /\ Answer(t, r)
    BY <1>8 DEF ServerWrites, WriteFault, Reply
  <2>2. QED
    BY <2>1, AnswerMakes, StartsAreBounded DEF Answers, SameRunners, NoStart
<1>9. ASSUME NEW t \in Tabs, SyncPersisted(t) \/ UnawaitedPersisted(t) PROVE WithinCapacity
  BY <1>9, SyncPersistedMakes, StartsAreBounded DEF Settles, SameRunners, NoStart
<1>10. ASSUME NEW t \in Tabs, NewJobPersisted(t) PROVE WithinCapacity
  <2> DEFINE c == Settle(client[t])
             j == client[t].flight.task.job
  <2>1. client[t] \in Client
    BY DEF IInv, TypeOK
  <2>2. c \in Client /\ c.pc = client[t].pc
    BY <2>1, SettleAll
  <2>3. \/ \E d : Refuses(c, d, j) /\ Become(t, d)
        \/ \E d : Remembers(c, d, j) /\ BecomePumped(t, d)
        \/ BecomePumped(t, c)
    BY <1>10, NewJobPersistedMakes
  <2> HIDE DEF c, j
  <2>4. QED
    BY <2>2, <2>3, StartsAreBounded DEF Refuses, Remembers, Others, NoStart
<1>11. ASSUME NEW t \in Tabs, EffectPump(t) \/ \E n \in Limits : SetLimit(t, n)
       PROVE  WithinCapacity
  BY <1>11, PumpMakes, StartsAreBounded DEF SameRunners, NoStart
<1>12. ASSUME NEW t \in Tabs, NEW j \in Jobs, Enqueue(t, j) PROVE WithinCapacity
  BY <1>12, EnqueueMakes, StartsAreBounded DEF Enqueued, Others, NoStart
<1>13. ASSUME NEW t \in Tabs, NEW j \in Jobs, Cancel(t, j) PROVE WithinCapacity
  <2>1. PICK d : Cancels(client[t], d, j) /\ BecomePumped(t, d)
    BY <1>13, CancelMakes
  <2>2. d \in Client /\ d.pc = client[t].pc
    BY <2>1 DEF Cancels, Others
  <2>3. QED
    BY <2>1, <2>2, StartsAreBounded DEF NoStart
<1>14. ASSUME NEW t \in Tabs, NEW j \in Jobs, RunnerStep(t, j) \/ UserDecides(t, j)
       PROVE  WithinCapacity
  <2>1. client[t] \in Client
    BY DEF IInv, TypeOK
  <2>2. PICK c \in Client : c.pc = client[t].pc /\ Makes(t, j, c)
    BY <1>14, <2>1, RunnerMakes, SettleAll
  <2>3. PICK b : Moved(c, b, j) /\ (Become(t, b) \/ BecomePumped(t, b))
    BY <2>2 DEF Makes
  <2>4. b \in Client /\ NoStart(c, b)
    BY <2>3 DEF Moved, Others, NoStart
  <2>5. QED
    BY <2>2, <2>3, <2>4, StartsAreBounded DEF NoStart
<1>15. CASE UNCHANGED vars
  BY <1>15, QuietCapacity DEF vars
<1>16. QED
  BY <1>1, <1>2, <1>3, <1>4, <1>5, <1>6, <1>7, <1>8, <1>9, <1>10, <1>11, <1>12, <1>13, <1>14, <1>15
  DEF Next, Boot, ChainStep, RevokeTrust, OrphanExits

(* The pump never starts a job beyond the fleet capacity, for any number   *)
(* of jobs, clients and capacities, and however handlers interleave.       *)
THEOREM CapacityAlwaysRespected == Spec => CapacityRespected
<1>1. IInv /\ [Next]_vars => [WithinCapacity]_vars
  BY CapacityStep
<1>2. [][WithinCapacity]_vars => CapacityRespected
  BY DEF CapacityRespected, WithinCapacity
<1>3. QED
  BY <1>1, <1>2, Inductive, PTL DEF Spec

-----------------------------------------------------------------------------
(* OutcomeIsStable: what OutcomeInv says of one client, U being the jobs   *)
(* created so far                                                          *)
Sound(c, U) ==
    /\ Boots(c)
    /\ \A j \in Jobs :
        /\ FirstIsNew(c, j) /\ Undecided(c, j) /\ Unwinds(c, j)
        /\ j \notin U => Untouched(c, j)

(* A client that has not asked for the ledger owes no other first write    *)
(* than before, and sends nothing of the job meanwhile.                    *)
Tells(c, d, k) == d.boot = "down" /\ Queueing(d, k) =>
    /\ c.boot = "down" /\ Queueing(c, k)
    /\ \/ d.flight.task.job = k
       \/ d.flight.body[k].st = "absent"
       \/ c.flight.task.job # k /\ d.flight.body[k] = c.flight.body[k]

Keeps(c, d, U) ==
    /\ d \in Client /\ Sound(d, U)
    /\ \A k \in Jobs : Tells(c, d, k) /\ (Unknown(c, k) => Unknown(d, k))

LEMMA KeepsIsTransitive ==
    ASSUME NEW c, NEW d, NEW e, NEW U, Keeps(c, d, U), Keeps(d, e, U)
    PROVE  Keeps(c, e, U)
<1>1. ASSUME NEW k \in Jobs PROVE Tells(c, e, k)
  <2>1. Tells(c, d, k) /\ Tells(d, e, k)
    BY DEF Keeps
  <2>2. QED
    BY <2>1 DEF Tells
<1>2. QED
  BY <1>1 DEF Keeps

(* A longer chain owes no new first write.                                 *)
LEMMA LongerChain ==
    ASSUME NEW c \in Client, NEW d \in Client, NEW j \in Jobs, NEW T, Lengthens(c, d, T),
           NewTask(j) \notin T, d.flight = c.flight
    PROVE  /\ Queueing(d, j) <=> Queueing(c, j)
           /\ FirstIsNew(c, j) => FirstIsNew(d, j)
           /\ (\A x \in T : x.job # j) /\ (\A i \in DOMAIN c.chain : c.chain[i].job # j)
                => \A i \in DOMAIN d.chain : d.chain[i].job # j
<1> DEFINE n == Len(c.chain)
<1>1. /\ n \in Nat /\ DOMAIN c.chain = 1..n
      /\ Len(d.chain) \in Nat /\ DOMAIN d.chain = 1..Len(d.chain)
  BY ChainIsSeq
<1>2. /\ n <= Len(d.chain)
      /\ \A i \in 1..n : d.chain[i] = c.chain[i]
      /\ \A i \in 1..Len(d.chain) : i > n => d.chain[i] \in T
  BY DEF Lengthens
<1> HIDE DEF n
<1>3. \A i \in 1..n : i \in 1..Len(d.chain)
  BY <1>1, <1>2
<1>4. \A i \in 1..Len(d.chain) : i \in 1..n \/ i > n
  BY <1>1
<1>5. \A i \in DOMAIN d.chain : d.chain[i] = NewTask(j) => i \in 1..n /\ c.chain[i] = NewTask(j)
  BY <1>1, <1>2, <1>4
<1>6. Queueing(d, j) <=> Queueing(c, j)
  BY <1>1, <1>2, <1>3, <1>5 DEF Queueing
<1>7. FirstIsNew(c, j) => FirstIsNew(d, j)
  <2> SUFFICES ASSUME FirstIsNew(c, j), NEW a \in DOMAIN d.chain, d.chain[a] = NewTask(j)
               PROVE  /\ \A b \in DOMAIN d.chain : d.chain[b].job = j => a <= b
                      /\ d.flight.task.job # j
    BY DEF FirstIsNew
  <2>1. a \in DOMAIN c.chain /\ c.chain[a] = NewTask(j) /\ a \in 1..n
    BY <1>1, <1>5
  <2>2. /\ \A b \in DOMAIN c.chain : c.chain[b].job = j => a <= b
        /\ c.flight.task.job # j
    BY <2>1 DEF FirstIsNew
  <2>3. ASSUME NEW b \in DOMAIN d.chain, d.chain[b].job = j PROVE a <= b
    <3>1. CASE b \in 1..n
      BY <1>1, <1>2, <2>2, <2>3, <3>1
    <3>2. CASE b > n
      BY <1>1, <2>1, <3>2
    <3>3. QED
      BY <1>1, <1>4, <3>1, <3>2
  <2>4. QED
    BY <2>2, <2>3
<1>8. \A i \in DOMAIN d.chain : d.chain[i] \in T \/ \E k \in DOMAIN c.chain : d.chain[i] = c.chain[k]
  BY <1>1, <1>2, <1>4
<1>9. QED
  BY <1>6, <1>7, <1>8

(* ... and no snapshot.                                                    *)
LEMMA NoMoreSyncs ==
    ASSUME NEW c \in Client, NEW d \in Client, NEW T, Lengthens(c, d, T), SyncTask \notin T,
           \A i \in DOMAIN c.chain : c.chain[i] # SyncTask
    PROVE  \A i \in DOMAIN d.chain : d.chain[i] # SyncTask
<1>1. /\ Len(c.chain) \in Nat /\ DOMAIN c.chain = 1..Len(c.chain)
      /\ Len(d.chain) \in Nat /\ DOMAIN d.chain = 1..Len(d.chain)
  BY ChainIsSeq
<1>2. \A i \in DOMAIN d.chain : d.chain[i] \in T \/ \E k \in DOMAIN c.chain : d.chain[i] = c.chain[k]
  <2>1. \A i \in 1..Len(d.chain) : i \in 1..Len(c.chain) \/ i > Len(c.chain)
    BY <1>1
  <2>2. QED
    BY <1>1, <2>1 DEF Lengthens
<1>3. QED
  BY <1>2

LEMMA SettleKeeps ==
    ASSUME NEW c \in Client, NEW U, Sound(c, U)
    PROVE  /\ Keeps(c, Settle(c), U) /\ Settle(c) \in Client
           /\ Settle(c).jobs = c.jobs
           /\ \A j \in Jobs : c.flight.task.job = j => ~Queueing(Settle(c), j)
<1> DEFINE d == Settle(c)
<1>1. /\ d \in Client /\ d.flight = NoFlight
      /\ d.boot = c.boot /\ d.recovered = c.recovered
      /\ d.jobs = c.jobs /\ d.durable = c.durable
      /\ d.pc = c.pc /\ d.aborted = c.aborted
      /\ d.chain = c.chain /\ d.timer = c.timer
  BY SettleAll
<1> HIDE DEF d
<1>2. /\ NoFlight.task = SyncTask /\ NoFlight.reply = "none" /\ NoFlight.body = NoJobs
      /\ \A k \in Jobs : NoJobs[k].st = "absent"
  BY NoJobsIsTyped DEF NoFlight
<1>3. \A k \in Jobs : SyncTask # NewTask(k) /\ SyncTask.job # k
  BY TasksDiffer
<1>4. \A k \in Jobs : Queueing(d, k) <=> \E i \in DOMAIN c.chain : c.chain[i] = NewTask(k)
  BY <1>1, <1>2 DEF Queueing
<1>5. \A k \in Jobs : Queueing(d, k) => Queueing(c, k) /\ (FirstIsNew(c, k) => c.flight.task.job # k)
  BY <1>4 DEF Queueing, FirstIsNew
<1>6. Boots(d)
  BY <1>1, <1>2 DEF Sound, Boots
<1>7. ASSUME NEW k \in Jobs
      PROVE  /\ FirstIsNew(d, k) /\ Undecided(d, k) /\ Unwinds(d, k)
             /\ k \notin U => Untouched(d, k)
  <2>1. FirstIsNew(d, k)
    BY <1>1, <1>2, <1>3 DEF Sound, FirstIsNew
  <2>2. Undecided(d, k)
    BY <1>1, <1>5 DEF Sound, Undecided
  <2>3. Unwinds(d, k)
    BY <1>1 DEF Sound, Unwinds
  <2>4. k \notin U => Untouched(d, k)
    BY <1>1, <1>2, <1>3 DEF Sound, Untouched
  <2>5. QED
    BY <2>1, <2>2, <2>3, <2>4
<1>8. Sound(d, U)
  BY <1>6, <1>7 DEF Sound
<1>9. \A k \in Jobs : Tells(c, d, k) /\ (Unknown(c, k) => Unknown(d, k))
  BY <1>1, <1>2, <1>5 DEF Tells, Unknown
<1>10. \A k \in Jobs : c.flight.task.job = k => ~Queueing(d, k)
  BY <1>5 DEF Sound
<1>11. QED
  BY <1>1, <1>8, <1>9, <1>10 DEF Keeps, d

(* Only job j may look different, and it owes no first write.              *)
LEMMA OthersKeep ==
    ASSUME NEW c \in Client, NEW U, Sound(c, U), NEW d, NEW j \in Jobs \cap U,
           Others(c, d, j), d.flight = c.flight,
           Lengthens(c, d, {CurrentTask(j), AwaitedTask(j)}),
           Unwinds(d, j), ~Unknown(c, j),
           Queueing(c, j) => d.pc[j] = "idle" /\ d.jobs[j].st \in {"queued", "cancelled", "absent"}
    PROVE  Keeps(c, d, U)
<1> DEFINE T == {CurrentTask(j), AwaitedTask(j)}
<1>1. /\ d \in Client
      /\ d.boot = c.boot /\ d.recovered = c.recovered /\ d.durable = c.durable
      /\ d.timer => c.timer \/ c.boot = "ready"
      /\ \A k \in Jobs \ {j} : /\ d.jobs[k] = c.jobs[k] /\ d.pc[k] = c.pc[k]
                               /\ k \in d.aborted <=> k \in c.aborted
  BY DEF Others
<1>2. /\ SyncTask \notin T
      /\ \A k \in Jobs : NewTask(k) \notin T
      /\ \A k \in Jobs \ {j} : \A x \in T : x.job # k
  BY TasksDiffer
<1> HIDE DEF T
<1>3. ASSUME NEW k \in Jobs
      PROVE  /\ Queueing(d, k) <=> Queueing(c, k)
             /\ FirstIsNew(c, k) => FirstIsNew(d, k)
             /\ k # j /\ (\A i \in DOMAIN c.chain : c.chain[i].job # k)
                  => \A i \in DOMAIN d.chain : d.chain[i].job # k
  <2>1. Lengthens(c, d, T) /\ NewTask(k) \notin T
    BY <1>2 DEF T
  <2>2. QED
    BY <1>1, <1>2, <2>1, LongerChain
<1>4. Boots(d)
  <2>1. Lengthens(c, d, T)
    BY DEF T
  <2>2. (\A i \in DOMAIN c.chain : c.chain[i] # SyncTask)
            => \A i \in DOMAIN d.chain : d.chain[i] # SyncTask
    BY <1>1, <1>2, <2>1, NoMoreSyncs
  <2>3. QED
    BY <1>1, <2>2 DEF Sound, Boots
<1>5. ASSUME NEW k \in Jobs
      PROVE  /\ FirstIsNew(d, k) /\ Undecided(d, k) /\ Unwinds(d, k)
             /\ k \notin U => Untouched(d, k)
  <2>1. FirstIsNew(d, k)
    BY <1>3 DEF Sound
  <2>2. Undecided(d, k)
    BY <1>1, <1>3 DEF Sound, Undecided
  <2>3. Unwinds(d, k)
    BY <1>1 DEF Sound, Unwinds
  <2>4. k \notin U => Untouched(d, k)
    BY <1>1, <1>3 DEF Sound, Untouched
  <2>5. QED
    BY <2>1, <2>2, <2>3, <2>4
<1>6. \A k \in Jobs : Tells(c, d, k)
  BY <1>1, <1>3 DEF Tells
<1>7. \A k \in Jobs : Unknown(c, k) => Unknown(d, k)
  BY <1>1 DEF Unknown
<1>8. QED
  BY <1>1, <1>4, <1>5, <1>6, <1>7 DEF Keeps, Sound

(* An outcome on show in c is one in d.                                    *)
Ends(c, d) ==
    \A k \in Jobs : c.jobs[k].st \in Terminal =>
        \/ d.jobs[k].st \in {c.jobs[k].st, "absent"}
        \/ c.jobs[k].st = "cancelled" /\ d.jobs[k].st = "failed"
        \/ c.pc[k] = "summary" /\ c.jobs[k].st = "completed" /\ d.jobs[k].st = "failed"

LEMMA MovedKeeps ==
    ASSUME NEW c \in Client, NEW U, Sound(c, U), NEW d, NEW j \in Jobs \cap U, Moved(c, d, j)
    PROVE  Keeps(c, d, U) /\ Ends(c, d)
<1>1. Unwinds(c, j) /\ Undecided(c, j)
  BY DEF Sound
<1>2. c.pc[j] # "idle" /\ ~Queueing(c, j) /\ ~Unknown(c, j)
  BY <1>1 DEF Moved, Undecided, Unknown
<1>3. Keeps(c, d, U)
  BY <1>1, <1>2, OthersKeep DEF Moved
<1>4. Ends(c, d)
  BY <1>1 DEF Moved, Others, Follows, Ends
<1>5. QED
  BY <1>3, <1>4

LEMMA PumpKeeps ==
    ASSUME NEW c \in Client, NEW U, Sound(c, U), \A k \in Jobs \ U : Unknown(c, k),
           NEW order \in Ascending(Startable(c))
    PROVE  LET d == RunJobs(c, Startable(c), order)
           IN  Keeps(c, d, U) /\ \A b : Ends(b, c) => Ends(b, d)
<1> DEFINE d == RunJobs(c, Startable(c), order)
           started == {k \in Jobs : c.pc[k] = "idle" /\ d.pc[k] # "idle"}
           T == {AwaitedTask(k) : k \in started}
<1>1. Pumps(c, d)
  BY RunJobsPumps
<1> HIDE DEF d
<1>2. /\ d \in Client
      /\ d.boot = c.boot /\ d.recovered = c.recovered /\ d.durable = c.durable
      /\ d.aborted = c.aborted /\ d.flight = c.flight
      /\ d.timer => c.timer \/ c.boot = "ready"
      /\ Lengthens(c, d, T)
  BY <1>1 DEF Pumps
<1>3. \A k \in Jobs :
        \/ k \notin started /\ d.jobs[k] = c.jobs[k] /\ d.pc[k] = c.pc[k]
        \/ /\ k \in c.durable /\ c.pc[k] = "idle" /\ d.pc[k] = "persistStart"
           /\ c.jobs[k].st = "queued" /\ d.jobs[k].st = "starting"
  <2>1. ASSUME NEW k \in Jobs, c.jobs[k].st = "queued",
               d.jobs[k] = [c.jobs[k] EXCEPT !.st = "starting"]
        PROVE  d.jobs[k].st = "starting"
    <3>1. c.jobs[k] \in JobRecord
      BY JobMapIsTyped DEF Client
    <3>2. QED
      BY <2>1, <3>1 DEF JobRecord
  <2>2. QED
    BY <1>1, <2>1 DEF Pumps
<1>4. /\ SyncTask \notin T
      /\ \A k \in Jobs : NewTask(k) \notin T
      /\ \A k \in Jobs \ U : \A x \in T : x.job # k
  <2>1. \A k \in Jobs \ U : k \notin started
    BY <1>3 DEF Unknown
  <2>2. QED
    BY <2>1, TasksDiffer
<1> HIDE DEF T, started
<1>5. ASSUME NEW k \in Jobs
      PROVE  /\ Queueing(d, k) <=> Queueing(c, k)
             /\ FirstIsNew(c, k) => FirstIsNew(d, k)
             /\ k \notin U /\ (\A i \in DOMAIN c.chain : c.chain[i].job # k)
                  => \A i \in DOMAIN d.chain : d.chain[i].job # k
  <2>1. NewTask(k) \notin T
    BY <1>4
  <2>2. QED
    BY <1>2, <1>4, <2>1, LongerChain
<1>6. Boots(d)
  <2>1. (\A i \in DOMAIN c.chain : c.chain[i] # SyncTask)
            => \A i \in DOMAIN d.chain : d.chain[i] # SyncTask
    BY <1>2, <1>4, NoMoreSyncs
  <2>2. QED
    BY <1>2, <2>1 DEF Sound, Boots
<1>7. ASSUME NEW k \in Jobs
      PROVE  /\ FirstIsNew(d, k) /\ Undecided(d, k) /\ Unwinds(d, k)
             /\ k \notin U => Untouched(d, k)
  <2>1. FirstIsNew(d, k)
    BY <1>5 DEF Sound
  <2>2. Undecided(d, k)
    BY <1>2, <1>3, <1>5 DEF Sound, Undecided
  <2>3. Unwinds(d, k)
    BY <1>2, <1>3, StatusSorts DEF Sound, Unwinds, Showing
  <2>4. k \notin U => Untouched(d, k)
    BY <1>2, <1>5 DEF Sound, Untouched
  <2>5. QED
    BY <2>1, <2>2, <2>3, <2>4
<1>8. \A k \in Jobs : Tells(c, d, k)
  BY <1>2, <1>5 DEF Tells
<1>9. \A k \in Jobs : Unknown(c, k) => Unknown(d, k)
  BY <1>2, <1>3 DEF Unknown
<1>10. \A b : Ends(b, c) => Ends(b, d)
  BY <1>3, StatusSorts DEF Ends
<1>11. QED
  BY <1>2, <1>6, <1>7, <1>8, <1>9, <1>10 DEF Keeps, Sound, d

-----------------------------------------------------------------------------
(* What OutcomeInv adds to IInv, and a step that keeps all of it           *)

OutcomeRest ==
    /\ \A t \in Tabs : Sound(client[t], used)
    /\ \A t \in Tabs, j \in Jobs : Secret(t, j)

Stable == \A t \in Tabs : Ends(client[t], client'[t])

LEMMA RestOfOutcomeInv == OutcomeInv <=> IInv /\ OutcomeRest
  BY DEF OutcomeInv, OutcomeRest, Sound

(* What is at stake for the other clients when the ledger is written.      *)
KeepsSecrets(t, d) ==
    \A j \in Jobs : /\ ledger[j].st = "absent"
                    /\ Unknown(client[t], j) \/ (d.boot = "down" /\ Queueing(d, j))
                    => ledger'[j].st = "absent"

LEMMA StepKeeps ==
    ASSUME OutcomeInv, NEW t \in Tabs, NEW d, d \in Client, Sound(d, used),
           \A k \in Jobs : Tells(client[t], d, k),
           \A k \in Jobs : ledger[k].st = "absent" /\ Unknown(client[t], k) => Unknown(d, k),
           Ends(client[t], d), Become(t, d), used' = used, KeepsSecrets(t, d)
    PROVE  OutcomeRest' /\ Stable
<1>1. client \in [Tabs -> Client] /\ OutcomeRest
  BY RestOfOutcomeInv DEF IInv, TypeOK
<1>2. \A u \in Tabs : client'[u] = IF u = t THEN d ELSE client[u]
  BY <1>1 DEF Become
<1>3. \A u \in Tabs : Sound(client'[u], used')
  BY <1>1, <1>2 DEF OutcomeRest
<1>4. Stable
  BY <1>2 DEF Stable, Ends
<1>5. ASSUME NEW u \in Tabs, NEW j \in Jobs,
             client'[u].boot = "down", Queueing(client'[u], j)
      PROVE  /\ ledger'[j].st = "absent"
             /\ client'[u].flight.task.job # j => client'[u].flight.body[j].st = "absent"
             /\ \A v \in Tabs \ {u} : Unknown(client'[v], j)
  <2>1. CASE u = t
    <3>1. Tells(client[t], d, j) /\ d.boot = "down" /\ Queueing(d, j)
      BY <1>2, <1>5, <2>1
    <3>2. Secret(t, j) /\ client[t].boot = "down" /\ Queueing(client[t], j)
      BY <1>1, <3>1 DEF Tells, OutcomeRest
    <3>3. ledger'[j].st = "absent"
      BY <3>1, <3>2 DEF Secret, KeepsSecrets
    <3>4. d.flight.task.job # j => d.flight.body[j].st = "absent"
      BY <3>1, <3>2 DEF Secret, Tells
    <3>5. QED
      BY <1>2, <2>1, <3>2, <3>3, <3>4 DEF Secret
  <2>2. CASE u # t
    <3>1. Secret(u, j) /\ client[u].boot = "down" /\ Queueing(client[u], j)
      BY <1>1, <1>2, <1>5, <2>2 DEF OutcomeRest
    <3>2. Unknown(client[t], j) /\ ledger[j].st = "absent"
      BY <2>2, <3>1 DEF Secret
    <3>3. Unknown(d, j) /\ ledger'[j].st = "absent"
      BY <3>2 DEF KeepsSecrets
    <3>4. QED
      BY <1>2, <2>2, <3>1, <3>3 DEF Secret
  <2>3. QED
    BY <2>1, <2>2
<1>6. \A u \in Tabs, j \in Jobs : Secret(u, j)'
  BY <1>5 DEF Secret
<1>7. QED
  BY <1>3, <1>4, <1>6 DEF OutcomeRest

LEMMA KeptStep ==
    ASSUME OutcomeInv, NEW t \in Tabs, NEW d, Keeps(client[t], d, used), Ends(client[t], d),
           Become(t, d), used' = used, KeepsSecrets(t, d)
    PROVE  OutcomeRest' /\ Stable
  BY StepKeeps DEF Keeps

LEMMA PumpedStepKeeps ==
    ASSUME OutcomeInv, NEW t \in Tabs, NEW d, Keeps(client[t], d, used), Ends(client[t], d),
           BecomePumped(t, d), UNCHANGED <<used, ledger>>
    PROVE  OutcomeRest' /\ Stable
<1>1. \A k \in Jobs \ used : Unknown(client[t], k)
  BY DEF OutcomeInv, IInv
<1>2. PICK order \in Ascending(Startable(d)) : Become(t, RunJobs(d, Startable(d), order))
  BY DEF BecomePumped
<1> DEFINE e == RunJobs(d, Startable(d), order)
<1>3. d \in Client /\ Sound(d, used) /\ \A k \in Jobs \ used : Unknown(d, k)
  BY <1>1 DEF Keeps
<1>4. Keeps(d, e, used) /\ Ends(client[t], e)
  BY <1>3, PumpKeeps
<1>5. Become(t, e)
  BY <1>2
<1> HIDE DEF e
<1>6. Keeps(client[t], e, used)
  BY <1>4, KeepsIsTransitive
<1>7. KeepsSecrets(t, e)
  BY DEF KeepsSecrets
<1>8. QED
  BY <1>4, <1>5, <1>6, <1>7, KeptStep

(* A step of t that writes nothing                                         *)
LEMMA QuietStepKeeps ==
    ASSUME OutcomeInv, NEW t \in Tabs, NEW d, Keeps(client[t], d, used), Ends(client[t], d),
           Become(t, d) \/ BecomePumped(t, d), UNCHANGED <<used, ledger>>
    PROVE  OutcomeRest' /\ Stable
  BY KeptStep, PumpedStepKeeps DEF KeepsSecrets

LEMMA OutcomeFacts ==
    ASSUME OutcomeInv, NEW t \in Tabs
    PROVE  client[t] \in Client /\ ClientInv(client[t]) /\ Sound(client[t], used) /\ IInv
  BY RestOfOutcomeInv DEF IInv, TypeOK, OutcomeRest

(* The runner of job j                                                     *)
LEMMA RunnerKeeps ==
    ASSUME OutcomeInv, NEW t \in Tabs, NEW j \in Jobs, RunnerStep(t, j) \/ UserDecides(t, j)
    PROVE  OutcomeRest' /\ Stable
<1> DEFINE c == client[t]
           d == Settle(client[t])
<1>1. c \in Client /\ Sound(c, used) /\ IInv
  BY OutcomeFacts
<1>2. Keeps(c, d, used) /\ d \in Client /\ d.jobs = c.jobs /\ d.pc = c.pc
  BY <1>1, SettleKeeps, SettleAll
<1>3. Keeps(c, c, used)
  BY <1>1 DEF Keeps, Tells
<1>4. PICK e \in {c, d} : Makes(t, j, e)
  BY <1>1, RunnerMakes
<1> HIDE DEF d
<1>5. Keeps(c, e, used) /\ e \in Client /\ e.jobs = c.jobs /\ e.pc = c.pc
  BY <1>1, <1>2, <1>3, <1>4
<1>6. PICK b : Moved(e, b, j) /\ (Become(t, b) \/ BecomePumped(t, b))
  BY <1>4 DEF Makes
<1>7. j \in used
  BY <1>1, <1>5, <1>6 DEF IInv, Unknown, Moved
<1>8. Sound(e, used)
  BY <1>5 DEF Keeps
<1>9. Keeps(e, b, used) /\ Ends(e, b)
  BY <1>5, <1>6, <1>7, <1>8, MovedKeeps
<1>10. Keeps(c, b, used) /\ Ends(c, b)
  BY <1>5, <1>9, KeepsIsTransitive DEF Ends
<1>11. UNCHANGED <<used, ledger>>
  BY DEF RunnerStep, StartPersisted, PolicyDecides, WorktreeAdd, WorktreeMade, LinkPersisted,
         Verified, RunPersisted, HarnessReturns, OutcomePersisted, Summarised, EndPersisted,
         UserDecides, ApprovalGranted, ApprovalEnds, runtime
<1>12. QED
  BY <1>6, <1>10, <1>11, QuietStepKeeps

(* cancelBackgroundJob                                                     *)
LEMMA CancelKeeps ==
    ASSUME OutcomeInv, NEW t \in Tabs, NEW j \in Jobs, Cancel(t, j)
    PROVE  OutcomeRest' /\ Stable
<1> DEFINE c == client[t]
<1>1. c \in Client /\ ClientInv(c) /\ Sound(c, used) /\ IInv
  BY OutcomeFacts
<1>2. PICK d : Cancels(c, d, j) /\ BecomePumped(t, d)
  BY <1>1, CancelMakes
<1>3. j \in used /\ ~Unknown(c, j)
  BY <1>1, <1>2, StatusSorts DEF Cancels, IInv, Unknown
<1> HIDE DEF c
<1>4. d.jobs[j].st = "cancelled" /\ d.pc = c.pc /\ (c.pc[j] # "idle" => j \in d.aborted)
  BY <1>2 DEF Cancels
<1>5. Undecided(c, j) /\ Unwinds(d, j)
  BY <1>1, <1>4 DEF Sound, Unwinds, Showing
<1>6. Lengthens(c, d, {CurrentTask(j), AwaitedTask(j)})
  <2>1. Lengthens(c, d, {CurrentTask(j)})
    BY <1>1, <1>2, AppendedChain DEF Cancels
  <2>2. QED
    BY <2>1, SmallerLengthens
<1>7. Queueing(c, j) => d.pc[j] = "idle" /\ d.jobs[j].st \in {"queued", "cancelled", "absent"}
  BY <1>4, <1>5 DEF Undecided
<1>8. Others(c, d, j) /\ d.flight = c.flight
  BY <1>2 DEF Cancels
<1>9. Keeps(c, d, used)
  BY <1>1, <1>3, <1>5, <1>6, <1>7, <1>8, OthersKeep
<1>10. Ends(c, d)
  BY <1>2, <1>8, StatusSorts DEF Cancels, Others, Ends
<1>11. UNCHANGED <<used, ledger>>
  BY DEF Cancel, runtime
<1>12. QED
  BY <1>2, <1>9, <1>10, <1>11, QuietStepKeeps DEF c

(* clearFinishedJobs, and a change of the capacity                         *)
LEMMA SameRunnersKeep ==
    ASSUME NEW c \in Client, NEW U, Sound(c, U), NEW d, SameRunners(c, d),
           d.flight = c.flight, d.chain = c.chain, d.timer => c.timer \/ c.boot = "ready",
           \A k \in Jobs : d.jobs[k] = c.jobs[k]
                           \/ (c.jobs[k].st \in Terminal /\ d.jobs[k].st = "absent")
    PROVE  Keeps(c, d, U) /\ Ends(c, d)
<1>1. /\ d \in Client
      /\ d.boot = c.boot /\ d.recovered = c.recovered /\ d.durable = c.durable
      /\ d.pc = c.pc /\ d.aborted = c.aborted
  BY DEF SameRunners
<1>2. \A k \in Jobs : Queueing(d, k) <=> Queueing(c, k)
  BY DEF Queueing
<1>3. Boots(d)
  BY <1>1 DEF Sound, Boots
<1>4. ASSUME NEW k \in Jobs
      PROVE  /\ FirstIsNew(d, k) /\ Undecided(d, k) /\ Unwinds(d, k)
             /\ k \notin U => Untouched(d, k)
  <2>1. FirstIsNew(d, k)
    BY DEF Sound, FirstIsNew
  <2>2. Undecided(d, k)
    BY <1>1, <1>2 DEF Sound, Undecided
  <2>3. Unwinds(d, k)
    BY <1>1, StatusSorts DEF Sound, Unwinds
  <2>4. k \notin U => Untouched(d, k)
    BY <1>1 DEF Sound, Untouched
  <2>5. QED
    BY <2>1, <2>2, <2>3, <2>4
<1>5. \A k \in Jobs : Tells(c, d, k) /\ (Unknown(c, k) => Unknown(d, k))
  BY <1>1, <1>2, StatusSorts DEF Tells, Unknown
<1>6. Ends(c, d)
  BY DEF Ends
<1>7. QED
  BY <1>1, <1>3, <1>4, <1>5, <1>6 DEF Keeps, Sound

LEMMA ClearFinishedKeeps ==
    ASSUME OutcomeInv, NEW t \in Tabs, ClearFinished(t)
    PROVE  OutcomeRest' /\ Stable
<1>1. client[t] \in Client /\ Sound(client[t], used) /\ IInv
  BY OutcomeFacts
<1>2. PICK d : Clears(client[t], d) /\ Become(t, d)
  BY <1>1, ClearFinishedMakes
<1>3. \A k \in Jobs : \/ d.jobs[k] = client[t].jobs[k]
                      \/ client[t].jobs[k].st \in Terminal /\ d.jobs[k].st = "absent"
  BY <1>2 DEF Clears, Absent
<1>4. Keeps(client[t], d, used) /\ Ends(client[t], d)
  BY <1>1, <1>2, <1>3, SameRunnersKeep DEF Clears
<1>5. QED
  BY <1>2, <1>4, QuietStepKeeps DEF ClearFinished, runtime

LEMMA PumpsKeep ==
    ASSUME OutcomeInv, NEW t \in Tabs, EffectPump(t) \/ \E n \in Limits : SetLimit(t, n)
    PROVE  OutcomeRest' /\ Stable
<1>1. client[t] \in Client /\ Sound(client[t], used) /\ IInv
  BY OutcomeFacts
<1>2. PICK d : /\ BecomePumped(t, d) /\ SameRunners(client[t], d)
               /\ d.jobs = client[t].jobs /\ d.flight = client[t].flight
               /\ d.chain = client[t].chain /\ d.timer = client[t].timer
  BY <1>1, PumpMakes
<1> DEFINE c == client[t]
<1>3. Keeps(c, d, used) /\ Ends(c, d)
  <2>1. c \in Client /\ Sound(c, used)
    BY <1>1
  <2>2. /\ SameRunners(c, d) /\ d.jobs = c.jobs /\ d.flight = c.flight
        /\ d.chain = c.chain /\ d.timer = c.timer
    BY <1>2
  <2> HIDE DEF c
  <2>3. /\ d.timer => c.timer \/ c.boot = "ready"
        /\ \A k \in Jobs : d.jobs[k] = c.jobs[k]
                           \/ (c.jobs[k].st \in Terminal /\ d.jobs[k].st = "absent")
    BY <2>2
  <2>4. QED
    BY <2>1, <2>2, <2>3, SameRunnersKeep
<1>4. QED
  BY <1>2, <1>3, QuietStepKeeps DEF EffectPump, SetLimit, runtime

(* The boot read                                                           *)
LEMMA BootReadKeeps ==
    ASSUME OutcomeInv, NEW t \in Tabs, BootGet(t) \/ BootFail(t)
    PROVE  OutcomeRest' /\ Stable
<1> DEFINE c == client[t]
<1>1. c \in Client /\ Sound(c, used) /\ IInv /\ OutcomeRest
  BY OutcomeFacts, RestOfOutcomeInv
<1>2. PICK d : /\ Become(t, d)
               /\ \/ BootGet(t) /\ Reads(c, d, "down", "fetching", ledger')
                  \/ BootFail(t) /\ Reads(c, d, "fetching", "paused", NoJobs)
  BY <1>1, BootReadMakes
<1>3. /\ d \in Client /\ d.boot # "ready" /\ d.boot # "down" /\ c.boot # "ready"
      /\ d.jobs = c.jobs /\ d.durable = c.durable /\ d.pc = c.pc /\ d.aborted = c.aborted
      /\ d.flight = c.flight /\ d.chain = c.chain /\ d.timer = c.timer
  BY <1>2 DEF Reads
<1>4. \A k \in Jobs : ledger[k].st = "absent" => ledger'[k].st = "absent"
  <2>1. CASE BootGet(t)
    BY <2>1, ReconciledIsGood, <1>1 DEF BootGet
  <2>2. CASE BootFail(t)
    BY <2>2 DEF BootFail, runtime
  <2>3. QED
    BY <2>1, <2>2
<1>5. \A k \in Jobs : \/ d.recovered[k].st = "absent"
                      \/ d.boot = "fetching" /\ c.boot = "down" /\ d.recovered[k] = ledger'[k]
  BY <1>2, NoJobsIsTyped DEF Reads
<1>6. Boots(d)
  BY <1>1, <1>2, <1>3, <1>5 DEF Sound, Boots
<1>7. ASSUME NEW k \in Jobs
      PROVE  /\ FirstIsNew(d, k) /\ Undecided(d, k) /\ Unwinds(d, k)
             /\ k \notin used => Untouched(d, k)
             /\ Tells(c, d, k)
             /\ ledger[k].st = "absent" /\ Unknown(c, k) => Unknown(d, k)
  <2>1. FirstIsNew(d, k)
    BY <1>1, <1>3 DEF Sound, FirstIsNew
  <2>2. Undecided(d, k)
    <3> SUFFICES ASSUME Queueing(d, k)
                 PROVE  /\ d.pc[k] = "idle" /\ k \notin d.durable
                        /\ d.jobs[k].st \in {"queued", "cancelled", "absent"}
                        /\ d.recovered[k].st = "absent"
      BY DEF Undecided
    <3>1. Queueing(c, k)
      BY <1>3 DEF Queueing
    <3>2. c.boot = "down" => ledger'[k].st = "absent"
      BY <1>1, <1>4, <3>1 DEF OutcomeRest, Secret
    <3>3. QED
      BY <1>1, <1>3, <1>5, <3>1, <3>2 DEF Sound, Undecided
  <2>3. Unwinds(d, k)
    BY <1>1, <1>3 DEF Sound, Unwinds
  <2>4. k \notin used => Untouched(d, k)
    BY <1>1, <1>3 DEF Sound, Untouched
  <2>5. Tells(c, d, k)
    BY <1>3 DEF Tells
  <2>6. ledger[k].st = "absent" /\ Unknown(c, k) => Unknown(d, k)
    BY <1>3, <1>4, <1>5 DEF Unknown
  <2>7. QED
    BY <2>1, <2>2, <2>3, <2>4, <2>5, <2>6
<1>8. Ends(c, d)
  BY <1>3 DEF Ends
<1>9. used' = used /\ KeepsSecrets(t, d)
  BY <1>4 DEF BootGet, BootFail, KeepsSecrets
<1>10. Sound(d, used)
  BY <1>6, <1>7 DEF Sound
<1>11. QED
  BY <1>2, <1>3, <1>7, <1>8, <1>9, <1>10, StepKeeps

LEMMA BootMergeKeeps ==
    ASSUME OutcomeInv, NEW t \in Tabs, BootMerge(t)
    PROVE  OutcomeRest' /\ Stable
<1> DEFINE c == client[t]
<1>1. c \in Client /\ ClientInv(c) /\ Sound(c, used) /\ IInv
  BY OutcomeFacts
<1>2. PICK d : Merges(c, d) /\ BecomePumped(t, d)
  BY <1>1, BootMergeMakes
<1>3. /\ d \in Client /\ c.boot = "fetching" /\ d.boot = "ready" /\ d.recovered = NoJobs
      /\ d.pc = c.pc /\ d.aborted = c.aborted /\ d.flight = c.flight /\ d.chain = c.chain
      /\ d.durable = c.durable \cup {k \in Jobs : c.recovered[k].st = "queued"}
      /\ \A k \in Jobs : d.jobs[k] = IF c.jobs[k].st = "absent" THEN c.recovered[k] ELSE c.jobs[k]
  BY <1>2 DEF Merges
<1>4. \A k \in Jobs : /\ k \notin used => c.recovered[k].st = "absent"
                      /\ d.pc[k] = "idle" /\ d.recovered[k].st = "absent"
  BY <1>1, <1>3, NoJobsIsTyped DEF IInv, Unknown, ClientInv
<1> HIDE DEF c
<1>5. \A k \in Jobs : Queueing(d, k) <=> Queueing(c, k)
  BY <1>3 DEF Queueing
<1>6. Boots(d)
  BY <1>3, <1>4 DEF Boots
<1>7. ASSUME NEW k \in Jobs
      PROVE  /\ FirstIsNew(d, k) /\ Undecided(d, k) /\ Unwinds(d, k)
             /\ k \notin used => Untouched(d, k)
  <2>1. FirstIsNew(d, k)
    BY <1>1, <1>3 DEF Sound, FirstIsNew
  <2>2. Undecided(d, k)
    BY <1>1, <1>3, <1>4, <1>5 DEF Sound, Undecided
  <2>3. Unwinds(d, k)
    BY <1>4 DEF Unwinds, Showing
  <2>4. k \notin used => Untouched(d, k)
    BY <1>1, <1>3, <1>4 DEF Sound, Untouched
  <2>5. QED
    BY <2>1, <2>2, <2>3, <2>4
<1>8. \A k \in Jobs : Tells(c, d, k) /\ (Unknown(c, k) => Unknown(d, k))
  BY <1>3, <1>4 DEF Tells, Unknown
<1>9. Ends(c, d)
  BY <1>3, StatusSorts DEF Ends
<1>10. Keeps(c, d, used)
  BY <1>3, <1>6, <1>7, <1>8 DEF Keeps, Sound
<1>11. UNCHANGED <<used, ledger>>
  BY DEF BootMerge, runtime
<1>12. QED
  BY <1>2, <1>9, <1>10, <1>11, QuietStepKeeps DEF c

(* The debounced snapshot                                                  *)
LEMMA TimerFiresKeeps ==
    ASSUME OutcomeInv, NEW t \in Tabs, TimerFires(t)
    PROVE  OutcomeRest' /\ Stable
<1> DEFINE c == client[t]
<1>1. c \in Client /\ Sound(c, used) /\ IInv
  BY OutcomeFacts
<1>2. PICK d : Ticks(c, d) /\ Become(t, d)
  BY <1>1, TimerFiresMakes
<1> HIDE DEF c
<1>3. /\ d \in Client
      /\ d.boot = c.boot /\ d.recovered = c.recovered /\ d.durable = c.durable
      /\ d.pc = c.pc /\ d.aborted = c.aborted /\ d.jobs = c.jobs /\ d.flight = c.flight
      /\ c.timer /\ ~d.timer /\ Lengthens(c, d, {SyncTask})
  BY <1>2 DEF Ticks, SameRunners
<1>4. ASSUME NEW k \in Jobs
      PROVE  /\ Queueing(d, k) <=> Queueing(c, k)
             /\ FirstIsNew(c, k) => FirstIsNew(d, k)
             /\ (\A i \in DOMAIN c.chain : c.chain[i].job # k)
                  => \A i \in DOMAIN d.chain : d.chain[i].job # k
  BY <1>1, <1>3, TasksDiffer, LongerChain
<1>5. Boots(d)
  BY <1>1, <1>3 DEF Sound, Boots
<1>6. ASSUME NEW k \in Jobs
      PROVE  /\ FirstIsNew(d, k) /\ Undecided(d, k) /\ Unwinds(d, k)
             /\ k \notin used => Untouched(d, k)
  <2>1. Undecided(d, k) /\ Unwinds(d, k)
    BY <1>1, <1>3, <1>4 DEF Sound, Undecided, Unwinds
  <2>2. k \notin used => Untouched(d, k)
    BY <1>1, <1>3, <1>4 DEF Sound, Untouched
  <2>3. QED
    BY <1>1, <1>4, <2>1, <2>2 DEF Sound
<1>7. \A k \in Jobs : Tells(c, d, k) /\ (Unknown(c, k) => Unknown(d, k))
  BY <1>3, <1>4 DEF Tells, Unknown
<1>8. Keeps(c, d, used) /\ Ends(c, d)
  BY <1>3, <1>5, <1>6, <1>7 DEF Keeps, Sound, Ends
<1>9. UNCHANGED <<used, ledger>>
  BY DEF TimerFires, runtime
<1>10. QED
  BY <1>2, <1>8, <1>9, QuietStepKeeps DEF c

(* The next write is sent.                                                 *)
LEMMA WriteStartsKeeps ==
    ASSUME OutcomeInv, NEW t \in Tabs, WriteStarts(t)
    PROVE  OutcomeRest' /\ Stable
<1> DEFINE c == client[t]
<1>1. c \in Client /\ Sound(c, used) /\ IInv
  BY OutcomeFacts
<1>2. PICK d : Sends(c, d) /\ Become(t, d)
  BY <1>1, WriteStartsMakes
<1>3. \A k \in Jobs \ used : Unknown(c, k)
  BY <1>1 DEF IInv
<1> HIDE DEF c
<1>4. /\ d \in Client
      /\ d.boot = c.boot /\ d.recovered = c.recovered /\ d.durable = c.durable
      /\ d.pc = c.pc /\ d.aborted = c.aborted /\ d.jobs = c.jobs /\ d.timer = c.timer
  BY <1>2 DEF Sends, SameRunners
<1>5. /\ c.chain \in Seq(Task) /\ c.chain # <<>> /\ Len(c.chain) \in Nat
      /\ DOMAIN c.chain = 1..Len(c.chain)
  BY <1>1, <1>2, ChainIsSeq DEF Sends
<1>6. /\ Len(d.chain) = Len(c.chain) - 1 /\ DOMAIN d.chain = 1..(Len(c.chain) - 1)
      /\ \A i \in DOMAIN d.chain : i + 1 \in DOMAIN c.chain /\ d.chain[i] = c.chain[i + 1]
      /\ 1 \in DOMAIN c.chain /\ d.flight.task = c.chain[1]
  <2>1. d.chain = Tail(c.chain) /\ d.flight.task = Head(c.chain)
    BY <1>2 DEF Sends
  <2>2. Len(c.chain) > 0
    BY <1>5
  <2>3. QED
    BY <1>5, <2>1, <2>2
<1>7. \A i \in DOMAIN d.chain : i \in Nat /\ i >= 1
  BY <1>5, <1>6
<1>8. ASSUME NEW k \in Jobs, Queueing(d, k)
      PROVE  Queueing(c, k)
  <2>1. CASE \E i \in DOMAIN d.chain : d.chain[i] = NewTask(k)
    BY <1>6, <2>1 DEF Queueing
  <2>2. CASE d.flight.task = NewTask(k)
    BY <1>6, <2>2 DEF Queueing
  <2>3. QED
    BY <1>8, <2>1, <2>2 DEF Queueing
<1>9. ASSUME NEW k \in Jobs, NEW a \in DOMAIN d.chain, d.chain[a] = NewTask(k)
      PROVE  /\ \A b \in DOMAIN d.chain : d.chain[b].job = k => a <= b
             /\ d.flight.task.job # k
  <2>1. FirstIsNew(c, k) /\ a + 1 \in DOMAIN c.chain /\ c.chain[a + 1] = NewTask(k)
    BY <1>1, <1>6, <1>9 DEF Sound
  <2>2. \A b \in DOMAIN c.chain : c.chain[b].job = k => a + 1 <= b
    BY <2>1 DEF FirstIsNew
  <2>3. \A b \in DOMAIN d.chain : d.chain[b].job = k => a + 1 <= b + 1
    BY <1>6, <2>2
  <2>4. d.flight.task.job # k
    <3>1. a \in Nat /\ a >= 1
      BY <1>7
    <3>2. d.flight.task.job = k => a + 1 <= 1
      BY <1>6, <2>2
    <3>3. QED
      BY <3>1, <3>2
  <2>5. QED
    BY <1>7, <2>3, <2>4
<1>10. \A k \in Jobs : FirstIsNew(d, k)
  BY <1>9 DEF FirstIsNew
<1>11. Boots(d)
  BY <1>1, <1>4, <1>6 DEF Sound, Boots
<1>12. ASSUME NEW k \in Jobs
       PROVE  /\ Undecided(d, k) /\ Unwinds(d, k)
              /\ k \notin used => Untouched(d, k)
  <2>1. Undecided(d, k) /\ Unwinds(d, k)
    BY <1>1, <1>4, <1>8 DEF Sound, Undecided, Unwinds
  <2>2. k \notin used => Untouched(d, k)
    BY <1>1, <1>4, <1>6 DEF Sound, Untouched
  <2>3. QED
    BY <2>1, <2>2
<1>13. ASSUME NEW k \in Jobs PROVE Tells(c, d, k)
  <2> SUFFICES ASSUME d.boot = "down", Queueing(d, k)
               PROVE  d.flight.task.job = k \/ d.flight.body[k].st = "absent"
    BY <1>4, <1>8 DEF Tells
  <2>1. d.flight.task.op # "sync"
    <3>1. d.flight.task \in Task /\ d.flight.task # SyncTask
      BY <1>1, <1>4, <1>5, <1>6 DEF Sound, Boots
    <3>2. QED
      BY <3>1, TaskSorts
  <2>2. QED
    BY <1>2, <2>1, NoJobsIsTyped DEF Sends
<1>14. \A k \in Jobs : Unknown(c, k) => Unknown(d, k)
  BY <1>2, <1>4, NoJobsIsTyped DEF Sends, Unknown
<1>15. Keeps(c, d, used) /\ Ends(c, d)
  BY <1>4, <1>10, <1>11, <1>12, <1>13, <1>14 DEF Keeps, Sound, Ends
<1>16. UNCHANGED <<used, ledger>>
  BY DEF WriteStarts, runtime
<1>17. QED
  BY <1>2, <1>15, <1>16, QuietStepKeeps DEF c

(* What a write of client t leaves of a job t knows nothing of             *)
LEMMA WrittenTellsNothing ==
    ASSUME IInv, NEW t \in Tabs, NEW j \in Jobs, Unknown(client[t], j), ledger[j].st = "absent",
           ledger' = ledger \/ ledger' = Written(client[t].flight)
    PROVE  ledger'[j].st = "absent"
<1>1. client[t].flight.body[j].st = "absent"
  BY DEF Unknown
<1>2. ledger \in JobMap /\ client[t].flight.task \in Task
  BY DEF IInv, TypeOK, Client, Flight
<1>3. CASE client[t].flight.task.op = "sync"
  BY <1>1, <1>3 DEF Written
<1>4. CASE client[t].flight.task.op # "sync"
  BY <1>1, <1>2, <1>4 DEF Written, JobMap
<1>5. QED
  BY <1>3, <1>4

(* The runtime answers; what it has written, it acknowledges.              *)
LEMMA AnswerKeeps ==
    ASSUME OutcomeInv, ~LostAnswers, NEW t \in Tabs, ServerWrites(t) \/ WriteFault(t)
    PROVE  OutcomeRest' /\ Stable
<1> DEFINE c == client[t]
<1>1. c \in Client /\ Sound(c, used) /\ IInv
  BY OutcomeFacts
<1>2. PICK r \in {"ok", "error"} :
        /\ c.flight.reply = "sent" /\ Answer(t, r) /\ used' = used
        /\ ledger' = ledger \/ (r = "ok" /\ ledger' = Written(c.flight))
  BY DEF ServerWrites, WriteFault
<1>3. r \in Reply
  BY DEF Reply
<1>4. PICK d : Answers(c, d, r) /\ Become(t, d)
  BY <1>1, <1>2, <1>3, AnswerMakes
<1>5. c.flight.task \in Task /\ ledger \in JobMap
  BY <1>1 DEF Client, Flight, IInv, TypeOK
<1>6. KeepsSecrets(t, d)
  <2> SUFFICES ASSUME NEW j \in Jobs, ledger[j].st = "absent",
                      Unknown(c, j) \/ (d.boot = "down" /\ Queueing(d, j))
               PROVE  ledger'[j].st = "absent"
    BY DEF KeepsSecrets
  <2>1. CASE Unknown(c, j)
    BY <1>1, <1>2, <2>1, WrittenTellsNothing
  <2>2. CASE r = "ok" /\ ledger' = Written(c.flight) /\ d.boot = "down" /\ Queueing(d, j)
    <3> HIDE DEF c
    <3>1. d.flight.reply = "ok" /\ d.chain = c.chain /\ c.boot = "down"
      BY <1>4, <2>2 DEF Answers, SameRunners
    <3>2. c.flight.task.job # j
      BY <1>1, <2>2, <3>1 DEF Queueing, Sound, FirstIsNew
    <3>3. c.flight.task # SyncTask
      BY <1>1, <1>2, <3>1 DEF Sound, Boots
    <3>4. c.flight.task.op # "sync"
      BY <1>5, <3>3, TaskSorts
    <3>5. QED
      BY <1>5, <2>2, <3>2, <3>4 DEF Written, JobMap
  <2>3. QED
    BY <1>2, <2>1, <2>2
<1> HIDE DEF c
<1>7. /\ d \in Client
      /\ d.boot = c.boot /\ d.recovered = c.recovered /\ d.durable = c.durable
      /\ d.pc = c.pc /\ d.aborted = c.aborted /\ d.jobs = c.jobs /\ d.timer = c.timer
      /\ d.chain = c.chain /\ c.flight.reply = "sent" /\ d.flight.reply = r
      /\ d.flight.task = c.flight.task /\ d.flight.body = c.flight.body
  BY <1>4 DEF Answers, SameRunners
<1>8. \A k \in Jobs : Queueing(d, k) => Queueing(c, k)
  BY <1>7 DEF Queueing
<1>9. Boots(d)
  BY <1>1, <1>7 DEF Sound, Boots
<1>10. ASSUME NEW k \in Jobs
       PROVE  /\ FirstIsNew(d, k) /\ Undecided(d, k) /\ Unwinds(d, k)
              /\ k \notin used => Untouched(d, k)
  <2>1. FirstIsNew(d, k)
    BY <1>1, <1>7 DEF Sound, FirstIsNew
  <2>2. Undecided(d, k) /\ Unwinds(d, k)
    BY <1>1, <1>7, <1>8 DEF Sound, Undecided, Unwinds
  <2>3. k \notin used => Untouched(d, k)
    BY <1>1, <1>7 DEF Sound, Untouched
  <2>4. QED
    BY <2>1, <2>2, <2>3
<1>11. \A k \in Jobs : Tells(c, d, k) /\ (Unknown(c, k) => Unknown(d, k))
  BY <1>7, <1>8 DEF Tells, Unknown
<1>12. Keeps(c, d, used) /\ Ends(c, d)
  BY <1>7, <1>9, <1>10, <1>11 DEF Keeps, Sound, Ends
<1>13. QED
  BY <1>2, <1>4, <1>6, <1>12, KeptStep DEF c

(* The snapshot, or a write nobody waits for, was answered.                *)
LEMMA SettlesKeep ==
    ASSUME OutcomeInv, NEW t \in Tabs, SyncPersisted(t) \/ UnawaitedPersisted(t)
    PROVE  OutcomeRest' /\ Stable
<1> DEFINE c == client[t]
           b == Settle(c)
<1>1. c \in Client /\ Sound(c, used) /\ IInv
  BY OutcomeFacts
<1>2. PICK d : Settles(c, d) /\ Become(t, d)
  BY <1>1, SyncPersistedMakes
<1> HIDE DEF c
<1>3. /\ SameRunners(c, d) /\ d.jobs = c.jobs /\ d.chain = c.chain /\ d.flight = NoFlight
      /\ d.timer => c.timer \/ c.boot = "ready"
  <2>1. Answered(c) /\ c.flight.task.op = "sync" => c.boot = "ready"
    <3>1. c.flight.task \in Task
      BY <1>1 DEF Client, Flight
    <3>2. c.flight.task.op = "sync" => c.flight.task = SyncTask
      BY <3>1, TaskSorts
    <3>3. QED
      BY <1>1, <3>2 DEF Sound, Boots, Answered
  <2>2. QED
    BY <1>2, <2>1 DEF Settles
<1>4. Keeps(c, b, used) /\ b \in Client
  BY <1>1, SettleKeeps
<1>5. /\ b.boot = c.boot /\ b.recovered = c.recovered
      /\ b.jobs = c.jobs /\ b.durable = c.durable
      /\ b.pc = c.pc /\ b.aborted = c.aborted
      /\ b.chain = c.chain /\ b.timer = c.timer /\ b.flight = NoFlight
  BY <1>1, SettleAll
<1> HIDE DEF b
<1>6. /\ SameRunners(b, d) /\ d.flight = b.flight /\ d.chain = b.chain
      /\ d.timer => b.timer \/ b.boot = "ready"
      /\ d.jobs = b.jobs
  BY <1>3, <1>5 DEF SameRunners
<1>7. Sound(b, used)
  BY <1>4 DEF Keeps
<1>8. Keeps(b, d, used)
  BY <1>4, <1>6, <1>7, SameRunnersKeep
<1>9. Keeps(c, d, used)
  BY <1>4, <1>8, KeepsIsTransitive
<1>10. Ends(c, d)
  BY <1>3 DEF Ends
<1>11. UNCHANGED <<used, ledger>>
  BY DEF SyncPersisted, UnawaitedPersisted, runtime
<1>12. QED
  BY <1>2, <1>9, <1>10, <1>11, QuietStepKeeps DEF c

(* The first write of a job was answered.                                  *)
LEMMA NewJobPersistedKeeps ==
    ASSUME OutcomeInv, NEW t \in Tabs, NewJobPersisted(t)
    PROVE  OutcomeRest' /\ Stable
<1> DEFINE c == Settle(client[t])
           j == client[t].flight.task.job
<1>1. client[t] \in Client /\ Sound(client[t], used) /\ IInv
  BY OutcomeFacts
<1>2. /\ j \in Jobs /\ client[t].flight.task = NewTask(j)
      /\ \/ \E d : Refuses(c, d, j) /\ Become(t, d) /\ client[t].flight.reply = "error"
         \/ \E d : Remembers(c, d, j) /\ BecomePumped(t, d)
         \/ BecomePumped(t, c)
  BY <1>1, NewJobPersistedMakes
<1>3. /\ Keeps(client[t], c, used) /\ c \in Client /\ Sound(c, used) /\ ~Queueing(c, j)
      /\ c.jobs = client[t].jobs /\ Ends(client[t], c)
  BY <1>1, <1>2, SettleKeeps DEF Keeps, Ends
<1>4. UNCHANGED <<used, ledger>>
  BY DEF NewJobPersisted, runtime
<1>5. j \in used
  <2>1. j \notin used => Untouched(client[t], j)
    BY <1>1, <1>2 DEF Sound
  <2>2. QED
    BY <2>1 DEF Untouched
<1>6. c.pc = client[t].pc
  BY <1>1, SettleAll
<1> HIDE DEF c
<1>7. CASE BecomePumped(t, c)
  BY <1>3, <1>4, <1>7, QuietStepKeeps
<1>8. ASSUME NEW d, Remembers(c, d, j), BecomePumped(t, d)
      PROVE  OutcomeRest' /\ Stable
  <2> HIDE DEF j
  <2>1. /\ d \in Client /\ d.boot = c.boot /\ d.recovered = c.recovered
        /\ d.durable = c.durable \cup {j} /\ d.pc = c.pc /\ d.aborted = c.aborted
        /\ d.jobs = c.jobs /\ d.chain = c.chain /\ d.flight = c.flight /\ d.timer = c.timer
    BY <1>8 DEF Remembers
  <2>2. \A k \in Jobs : Queueing(d, k) <=> Queueing(c, k)
    BY <2>1 DEF Queueing
  <2>3. Boots(d)
    BY <1>3, <2>1 DEF Sound, Boots
  <2>4. ASSUME NEW k \in Jobs
        PROVE  /\ FirstIsNew(d, k) /\ Undecided(d, k) /\ Unwinds(d, k)
               /\ k \notin used => Untouched(d, k)
    <3>1. FirstIsNew(d, k)
      BY <1>3, <2>1 DEF Sound, FirstIsNew
    <3>2. Undecided(d, k) /\ Unwinds(d, k)
      BY <1>3, <2>1, <2>2 DEF Sound, Undecided, Unwinds
    <3>3. k \notin used => Untouched(d, k)
      BY <1>3, <1>5, <2>1 DEF Sound, Untouched
    <3>4. QED
      BY <3>1, <3>2, <3>3
  <2>5. \A k \in Jobs : Tells(c, d, k) /\ (Unknown(c, k) => Unknown(d, k))
    BY <2>1, <2>2 DEF Tells, Unknown
  <2>6. Keeps(c, d, used) /\ Ends(client[t], d)
    BY <1>3, <2>1, <2>3, <2>4, <2>5 DEF Keeps, Sound, Ends
  <2>7. Keeps(client[t], d, used)
    BY <1>3, <2>6, KeepsIsTransitive
  <2>8. QED
    BY <1>4, <1>8, <2>6, <2>7, QuietStepKeeps
<1>9. ASSUME NEW d, Refuses(c, d, j), Become(t, d), client[t].flight.reply = "error"
      PROVE  OutcomeRest' /\ Stable
  <2>1. Queueing(client[t], j) /\ Undecided(client[t], j)
    BY <1>1, <1>2, <1>9 DEF Queueing, Sound
  <2>2. client[t].pc[j] = "idle" /\ client[t].jobs[j].st \in {"queued", "cancelled", "absent"}
    BY <2>1 DEF Undecided
  <2> HIDE DEF j
  <2>3. /\ Others(c, d, j) /\ d.flight = c.flight /\ d.chain = c.chain /\ d.pc = c.pc
        /\ d.aborted = c.aborted
        /\ d.jobs[j].st = IF c.jobs[j].st = "absent" THEN "absent" ELSE "failed"
    BY <1>9 DEF Refuses
  <2>4. Lengthens(c, d, {CurrentTask(j), AwaitedTask(j)})
    BY <1>3, <2>3, SameChain
  <2>5. Unwinds(d, j)
    BY <1>6, <2>2, <2>3 DEF Unwinds, Showing
  <2>6. Keeps(c, d, used)
    <3>1. CASE ~Unknown(c, j)
      BY <1>2, <1>3, <1>5, <2>3, <2>4, <2>5, <3>1, OthersKeep
    <3>2. CASE Unknown(c, j)
      <4>1. d.jobs[j].st = c.jobs[j].st /\ j \notin d.aborted
        BY <2>3, <3>2 DEF Unknown
      <4>2. /\ \A k \in Jobs \ {j} : d.jobs[k] = c.jobs[k]
            /\ \A k \in Jobs : k \in d.aborted <=> k \in c.aborted
            /\ d \in Client /\ d.boot = c.boot /\ d.recovered = c.recovered
            /\ d.durable = c.durable
            /\ d.timer => c.timer \/ c.boot = "ready"
        BY <2>3 DEF Others
      <4>3. \A k \in Jobs : Queueing(d, k) <=> Queueing(c, k)
        BY <2>3 DEF Queueing
      <4>4. \A k \in Jobs : FirstIsNew(d, k) /\ Undecided(d, k) /\ Unwinds(d, k)
        BY <1>3, <2>3, <4>1, <4>2, <4>3 DEF Sound, FirstIsNew, Undecided, Unwinds
      <4>5. Boots(d) /\ \A k \in Jobs \ used : Untouched(d, k)
        BY <1>3, <2>3, <4>2 DEF Sound, Boots, Untouched
      <4>6. \A k \in Jobs : Tells(c, d, k) /\ (Unknown(c, k) => Unknown(d, k))
        BY <2>3, <4>1, <4>2, <4>3 DEF Tells, Unknown
      <4>7. QED
        BY <4>2, <4>4, <4>5, <4>6 DEF Keeps, Sound
    <3>3. QED
      BY <3>1, <3>2
  <2>7. Ends(client[t], d)
    BY <1>3, <2>2, <2>3, StatusSorts DEF Others, Ends
  <2>8. Keeps(client[t], d, used)
    BY <1>3, <2>6, KeepsIsTransitive
  <2>9. QED
    BY <1>4, <1>9, <2>7, <2>8, QuietStepKeeps
<1>10. QED
  BY <1>2, <1>7, <1>8, <1>9

(* A client reloads; its write may still have arrived.                     *)
LEMMA ReloadKeeps ==
    ASSUME OutcomeInv, NEW t \in Tabs, Reload(t)
    PROVE  OutcomeRest' /\ Stable
<1> DEFINE n == client[t].limit
           d == FreshClient(n)
<1>1. client[t] \in Client /\ IInv
  BY OutcomeFacts
<1>2. n \in Limits
  BY <1>1 DEF Client
<1>3. /\ d \in Client /\ \A k \in Jobs : Unknown(d, k)
      /\ Become(t, d) /\ used' = used
      /\ ledger' = ledger \/ ledger' = Written(client[t].flight)
  BY <1>2, FreshClientIsTyped, FreshClientKnowsNothing DEF Reload
<1>4. /\ d.chain = <<>> /\ d.flight = NoFlight /\ ~d.timer /\ d.durable = {}
      /\ d.boot = "down"
  BY DEF FreshClient
<1> HIDE DEF d
<1>5. /\ NoFlight.task = SyncTask /\ NoFlight.reply = "none"
      /\ \A k \in Jobs : SyncTask.job # k /\ SyncTask # NewTask(k)
      /\ DOMAIN d.chain = {}
  BY <1>4, TasksDiffer DEF NoFlight
<1>6. \A k \in Jobs : ~Queueing(d, k)
  BY <1>4, <1>5 DEF Queueing
<1>7. Boots(d)
  BY <1>3, <1>4, <1>5 DEF Boots, Unknown
<1>8. \A k \in Jobs : FirstIsNew(d, k) /\ Undecided(d, k) /\ Unwinds(d, k) /\ Untouched(d, k)
  BY <1>3, <1>4, <1>5, <1>6 DEF FirstIsNew, Undecided, Unwinds, Untouched, Unknown
<1>9. Keeps(client[t], d, used)
  BY <1>3, <1>6, <1>7, <1>8 DEF Keeps, Sound, Tells
<1>10. Ends(client[t], d)
  BY <1>3 DEF Ends, Unknown
<1>11. KeepsSecrets(t, d)
  BY <1>1, <1>3, <1>6, WrittenTellsNothing DEF KeepsSecrets
<1>12. QED
  BY <1>3, <1>9, <1>10, <1>11, KeptStep

(* A job is created.                                                       *)
LEMMA EnqueueKeeps ==
    ASSUME OutcomeInv, NEW t \in Tabs, NEW j \in Jobs, Enqueue(t, j)
    PROVE  OutcomeRest' /\ Stable
<1> DEFINE c == client[t]
<1>1. c \in Client /\ Sound(c, used) /\ IInv /\ OutcomeRest
  BY OutcomeFacts, RestOfOutcomeInv
<1>2. PICK d : Enqueued(c, d, j) /\ Become(t, d)
  BY <1>1, EnqueueMakes
<1>3. j \notin used /\ used' = used \cup {j} /\ ledger' = ledger
  BY DEF Enqueue, runtime
<1>4. /\ ledger[j].st = "absent" /\ \A u \in Tabs : Unknown(client[u], j)
      /\ Untouched(c, j)
  BY <1>1, <1>3 DEF IInv, Sound
<1>5. client \in [Tabs -> Client]
  BY <1>1 DEF IInv, TypeOK
<1>6. \A u \in Tabs : client'[u] = IF u = t THEN d ELSE client[u]
  BY <1>2, <1>5 DEF Become
<1>7. Unknown(c, j)
  BY <1>4
<1> HIDE DEF c
<1>8. /\ d \in Client
      /\ d.boot = c.boot /\ d.recovered = c.recovered /\ d.durable = c.durable
      /\ d.flight = c.flight /\ d.pc = c.pc /\ d.aborted = c.aborted
      /\ d.timer => c.timer \/ c.boot = "ready"
      /\ \A k \in Jobs \ {j} : d.jobs[k] = c.jobs[k]
      /\ d.jobs[j].st = "queued"
  BY <1>2 DEF Enqueued, Others, NewJob
<1>9. Lengthens(c, d, {NewTask(j)})
  BY <1>1, <1>2, AppendedChain DEF Enqueued
<1>10. ASSUME NEW k \in Jobs \ {j}
       PROVE  /\ Queueing(d, k) <=> Queueing(c, k)
              /\ FirstIsNew(c, k) => FirstIsNew(d, k)
              /\ (\A i \in DOMAIN c.chain : c.chain[i].job # k)
                   => \A i \in DOMAIN d.chain : d.chain[i].job # k
  BY <1>1, <1>8, <1>9, TasksDiffer, LongerChain
<1>11. Boots(d)
  <2>1. SyncTask \notin {NewTask(j)}
    BY TasksDiffer
  <2>2. (\A i \in DOMAIN c.chain : c.chain[i] # SyncTask)
            => \A i \in DOMAIN d.chain : d.chain[i] # SyncTask
    BY <1>1, <1>8, <1>9, <2>1, NoMoreSyncs
  <2>3. QED
    BY <1>1, <1>8, <2>2 DEF Sound, Boots
<1>12. FirstIsNew(d, j)
  <2>1. c.chain \in Seq(Task) /\ Len(c.chain) \in Nat /\ DOMAIN c.chain = 1..Len(c.chain)
    BY <1>1, ChainIsSeq
  <2>2. d.chain = Append(c.chain, NewTask(j))
    BY <1>2 DEF Enqueued
  <2>3. /\ DOMAIN d.chain = 1..(Len(c.chain) + 1)
        /\ \A i \in 1..Len(c.chain) : d.chain[i] = c.chain[i]
    BY <2>1, <2>2
  <2>4. \A i \in 1..Len(c.chain) : d.chain[i].job # j
    BY <1>4, <2>1, <2>3 DEF Untouched
  <2>5. \A i \in DOMAIN d.chain : d.chain[i].job = j => i = Len(c.chain) + 1
    <3>1. \A i \in DOMAIN d.chain : i \in 1..Len(c.chain) \/ i = Len(c.chain) + 1
      BY <2>1, <2>3
    <3>2. QED
      BY <2>4, <3>1
  <2>6. NewTask(j).job = j /\ d.flight.task.job # j
    BY <1>4, <1>8, TasksDiffer DEF Untouched
  <2>7. QED
    BY <2>1, <2>5, <2>6 DEF FirstIsNew
<1>13. Undecided(d, j) /\ Unwinds(d, j)
  BY <1>4, <1>7, <1>8 DEF Undecided, Unwinds, Showing, Unknown, Untouched
<1>14. ASSUME NEW k \in Jobs \ {j}
       PROVE  /\ FirstIsNew(d, k) /\ Undecided(d, k) /\ Unwinds(d, k)
              /\ k \notin used' => Untouched(d, k)
  <2>1. FirstIsNew(d, k)
    BY <1>1, <1>10 DEF Sound
  <2>2. Undecided(d, k) /\ Unwinds(d, k)
    BY <1>1, <1>8, <1>10 DEF Sound, Undecided, Unwinds
  <2>3. k \notin used' => Untouched(d, k)
    BY <1>1, <1>3, <1>8, <1>10 DEF Sound, Untouched
  <2>4. QED
    BY <2>1, <2>2, <2>3
<1>15. j \in used'
  BY <1>3
<1>16. Sound(d, used')
  <2>1. ASSUME NEW k \in Jobs
        PROVE  /\ FirstIsNew(d, k) /\ Undecided(d, k) /\ Unwinds(d, k)
               /\ k \notin used' => Untouched(d, k)
    BY <1>12, <1>13, <1>14, <1>15
  <2>2. QED
    BY <1>11, <2>1 DEF Sound
<1>17. \A u \in Tabs : Sound(client'[u], used')
  <2>1. \A u \in Tabs : Sound(client[u], used')
    BY <1>1, <1>3 DEF OutcomeRest, Sound
  <2>2. QED
    BY <1>6, <1>16, <2>1
<1>18. Stable
  <2>1. Ends(c, d)
    BY <1>7, <1>8, StatusSorts DEF Ends, Unknown
  <2>2. QED
    BY <1>6, <2>1 DEF Stable, Ends, c
<1>19. ASSUME NEW u \in Tabs, NEW k \in Jobs,
              client'[u].boot = "down", Queueing(client'[u], k)
       PROVE  /\ ledger'[k].st = "absent"
              /\ client'[u].flight.task.job # k => client'[u].flight.body[k].st = "absent"
              /\ \A v \in Tabs \ {u} : Unknown(client'[v], k)
  <2>1. CASE k = j
    <3>1. CASE u = t
      BY <1>3, <1>4, <1>6, <1>7, <1>8, <2>1, <3>1 DEF Unknown
    <3>2. CASE u # t
      <4>1. Untouched(client[u], j) /\ Queueing(client[u], j)
        BY <1>1, <1>3, <1>6, <1>19, <2>1, <3>2 DEF OutcomeRest, Sound
      <4>2. NewTask(j).job = j
        BY TasksDiffer
      <4>3. QED
        BY <4>1, <4>2 DEF Untouched, Queueing
    <3>3. QED
      BY <3>1, <3>2
  <2>2. CASE k # j
    <3>1. Unknown(c, k) => Unknown(d, k)
      BY <1>8, <2>2 DEF Unknown
    <3>2. Secret(u, k)
      BY <1>1 DEF OutcomeRest
    <3>3. client[u].boot = "down" /\ Queueing(client[u], k)
      BY <1>6, <1>8, <1>10, <1>19, <2>2 DEF c
    <3>4. /\ ledger[k].st = "absent"
          /\ client[u].flight.task.job # k => client[u].flight.body[k].st = "absent"
          /\ \A v \in Tabs \ {u} : Unknown(client[v], k)
      BY <3>2, <3>3 DEF Secret
    <3>5. client'[u].flight = client[u].flight
      BY <1>6, <1>8 DEF c
    <3>6. \A v \in Tabs : Unknown(client[v], k) => Unknown(client'[v], k)
      BY <1>6, <3>1 DEF c
    <3>7. QED
      BY <1>3, <3>4, <3>5, <3>6
  <2>3. QED
    BY <2>1, <2>2
<1>20. \A u \in Tabs, k \in Jobs : Secret(u, k)'
  BY <1>19 DEF Secret
<1>21. QED
  BY <1>17, <1>18, <1>20 DEF OutcomeRest

(* Nothing happens in the clients.                                         *)
LEMMA NothingKeeps ==
    ASSUME OutcomeInv, UNCHANGED <<client, ledger, used>>
    PROVE  OutcomeRest' /\ Stable
<1>1. OutcomeRest
  BY RestOfOutcomeInv
<1>2. \A u \in Tabs, k \in Jobs : Secret(u, k)'
  BY <1>1 DEF OutcomeRest, Secret
<1>3. QED
  BY <1>1, <1>2 DEF OutcomeRest, Stable, Ends

LEMMA OutcomeStep ==
    ASSUME OutcomeInv, ~LostAnswers, [Next]_vars
    PROVE  OutcomeInv' /\ Stable
<1>1. IInv'
  BY RestOfOutcomeInv, NextPreserves
<1>2. ASSUME UNCHANGED vars PROVE OutcomeRest' /\ Stable
  <2>1. UNCHANGED <<client, ledger, used>>
    BY <1>2 DEF vars
  <2>2. QED
    BY <2>1, NothingKeeps
<1>3. ASSUME NEW j \in Jobs, RevokeTrust(j) \/ OrphanExits(j) PROVE OutcomeRest' /\ Stable
  BY <1>3, NothingKeeps DEF RevokeTrust, OrphanExits, runtime
<1>4. ASSUME NEW t \in Tabs, Boot(t) \/ BootFail(t) \/ Reload(t) PROVE OutcomeRest' /\ Stable
  BY <1>4, BootReadKeeps, BootMergeKeeps, ReloadKeeps DEF Boot
<1>5. ASSUME NEW t \in Tabs, ClearFinished(t) \/ EffectPump(t) \/ TimerFires(t)
      PROVE  OutcomeRest' /\ Stable
  BY <1>5, ClearFinishedKeeps, PumpsKeep, TimerFiresKeeps
<1>6. ASSUME NEW t \in Tabs, ChainStep(t) \/ WriteFault(t) PROVE OutcomeRest' /\ Stable
  BY <1>6, WriteStartsKeeps, AnswerKeeps, NewJobPersistedKeeps, SettlesKeep DEF ChainStep
<1>7. ASSUME NEW t \in Tabs, NEW n \in Limits, SetLimit(t, n) PROVE OutcomeRest' /\ Stable
  BY <1>7, PumpsKeep
<1>8. ASSUME NEW t \in Tabs, NEW j \in Jobs,
             Enqueue(t, j) \/ Cancel(t, j) \/ RunnerStep(t, j) \/ UserDecides(t, j)
      PROVE  OutcomeRest' /\ Stable
  BY <1>8, EnqueueKeeps, CancelKeeps, RunnerKeeps
<1>9. OutcomeRest' /\ Stable
  BY <1>2, <1>3, <1>4, <1>5, <1>6, <1>7, <1>8 DEF Next
<1>10. OutcomeInv' <=> IInv' /\ OutcomeRest'
  BY RestOfOutcomeInv, PTL
<1>11. QED
  BY <1>1, <1>9, <1>10

LEMMA InitialOutcomes == Init => OutcomeInv
<1> SUFFICES ASSUME Init PROVE OutcomeInv
  OBVIOUS
<1>1. IInv
  BY InitEstablishes
<1>2. ASSUME NEW t \in Tabs
      PROVE  /\ Sound(client[t], used)
             /\ \A j \in Jobs : ~Queueing(client[t], j)
  <2>1. PICK n \in Limits : client[t] = FreshClient(n)
    BY DEF Init
  <2> DEFINE d == FreshClient(n)
  <2>2. \A k \in Jobs : Unknown(d, k)
    BY FreshClientKnowsNothing
  <2>3. /\ d.chain = <<>> /\ d.flight = NoFlight /\ ~d.timer /\ d.durable = {}
        /\ d.boot = "down"
    BY DEF FreshClient
  <2> HIDE DEF d
  <2>4. /\ NoFlight.task = SyncTask /\ NoFlight.reply = "none"
        /\ \A k \in Jobs : SyncTask.job # k /\ SyncTask # NewTask(k)
        /\ DOMAIN d.chain = {}
    BY <2>3, TasksDiffer DEF NoFlight
  <2>5. \A k \in Jobs : ~Queueing(d, k)
    BY <2>3, <2>4 DEF Queueing
  <2>6. Boots(d)
    BY <2>2, <2>3, <2>4 DEF Boots, Unknown
  <2>7. \A k \in Jobs : FirstIsNew(d, k) /\ Undecided(d, k) /\ Unwinds(d, k) /\ Untouched(d, k)
    BY <2>2, <2>3, <2>4, <2>5 DEF FirstIsNew, Undecided, Unwinds, Untouched, Unknown
  <2>8. QED
    BY <2>1, <2>5, <2>6, <2>7 DEF Sound, d
<1>3. \A t \in Tabs, j \in Jobs : Secret(t, j)
  BY <1>2 DEF Secret
<1>4. QED
  BY <1>1, <1>2, <1>3, RestOfOutcomeInv DEF OutcomeRest

(* As long as a written ledger is acknowledged, an outcome once shown is   *)
(* final, but for a cancellation that meets a failing write and a completed *)
(* run whose lanes cannot be summarised: for any number of jobs and         *)
(* clients, reloads and requests that fail.                                *)
THEOREM OutcomesAreFinal ==
    ASSUME ~LostAnswers
    PROVE  Spec => OutcomeIsStable
<1>1. Init => OutcomeInv
  BY InitialOutcomes
<1>2. OutcomeInv /\ [Next]_vars => OutcomeInv' /\ [Stable]_vars
  BY OutcomeStep
<1>3. Stable => \A t \in Tabs, j \in Jobs :
                    LET before == client[t].jobs[j].st
                        after == client'[t].jobs[j].st
                    IN  before \in Terminal =>
                            \/ after \in {before, "absent"}
                            \/ before = "cancelled" /\ after = "failed"
                            \/ before = "completed" /\ after = "failed" /\ client[t].pc[j] = "summary"
  BY DEF Stable, Ends
<1>4. [Stable]_vars => [\A t \in Tabs, j \in Jobs :
                          LET before == client[t].jobs[j].st
                              after == client'[t].jobs[j].st
                          IN  before \in Terminal =>
                            \/ after \in {before, "absent"}
                            \/ before = "cancelled" /\ after = "failed"
                            \/ before = "completed" /\ after = "failed"
                                /\ client[t].pc[j] = "summary"]_vars
  BY <1>3
<1>5. QED
  BY <1>1, <1>2, <1>4, PTL DEF Spec, OutcomeIsStable

=============================================================================

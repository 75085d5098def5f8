------------------------- MODULE JobLifecycleProofs -------------------------
(***************************************************************************)
(* One client of JobRunner implements JobLifecycle, while answers arrive:  *)
(* the linkage is on disk before the agent is launched, every job is       *)
(* launched once, and no record lets a restart launch it again.  Once its  *)
(* writes have settled, the ledger shows every launched job as it does.    *)
(***************************************************************************)
EXTENDS JobRunnerProofs

-----------------------------------------------------------------------------
(* The writes runners wait for                                             *)

Positions(c, task) == {i \in DOMAIN c.chain : c.chain[i] = task}

(* Nobody waits for a write of job j.                                      *)
Free(c, j) == Positions(c, AwaitedTask(j)) = {} /\ c.flight.task # AwaitedTask(j)

(* A longer chain holds the old writes and, of T, each once.               *)
LEMMA LongerPositions ==
    ASSUME NEW c \in Client, NEW d \in Client, NEW T, Lengthens(c, d, T), NEW task
    PROVE  /\ task \notin T => Positions(d, task) = Positions(c, task)
           /\ Positions(c, task) = {} =>
                \A a, b \in Positions(d, task) : a = b
<1>1. /\ Len(c.chain) \in Nat /\ DOMAIN c.chain = 1..Len(c.chain)
      /\ Len(d.chain) \in Nat /\ DOMAIN d.chain = 1..Len(d.chain)
  BY ChainIsSeq
<1>2. \A i \in DOMAIN c.chain : i \in DOMAIN d.chain /\ d.chain[i] = c.chain[i]
  BY <1>1 DEF Lengthens
<1>3. \A i \in DOMAIN d.chain : i \in DOMAIN c.chain \/ (i > Len(c.chain) /\ d.chain[i] \in T)
  BY <1>1 DEF Lengthens
<1>4. ASSUME task \notin T PROVE Positions(d, task) = Positions(c, task)
  BY <1>2, <1>3, <1>4 DEF Positions
<1>5. ASSUME Positions(c, task) = {}, NEW a \in Positions(d, task), NEW b \in Positions(d, task)
      PROVE  a = b
  <2>1. a > Len(c.chain) /\ b > Len(c.chain) /\ d.chain[a] = d.chain[b]
    BY <1>2, <1>3, <1>5 DEF Positions
  <2>2. QED
    BY <1>1, <1>5, <2>1 DEF Positions, Lengthens
<1>6. QED
  BY <1>4, <1>5

LEMMA WaitsByPosition ==
    ASSUME NEW c, NEW j
    PROVE  Waits(c, j) <=>
             /\ c.flight.task = AwaitedTask(j) => c.pc[j] \in Awaiting
             /\ Positions(c, AwaitedTask(j)) # {} =>
                  c.pc[j] \in Awaiting /\ c.flight.task # AwaitedTask(j)
             /\ \A a, b \in Positions(c, AwaitedTask(j)) : a = b
  BY DEF Waits, Positions

(* Only a runner that awaits is waited for; one whose answer was taken off *)
(* is free again.                                                          *)
LEMMA IdleIsFree ==
    ASSUME NEW c, NEW j, Waits(c, j), c.pc[j] \notin Awaiting
    PROVE  Free(c, j)
  BY WaitsByPosition DEF Free

LEMMA SettledIsFree ==
    ASSUME NEW c \in Client, NEW j, Waits(c, j), c.flight.task = AwaitedTask(j)
    PROVE  Free(Settle(c), j)
<1>1. Settle(c).chain = c.chain /\ Settle(c).flight.task = SyncTask
  BY SettleAll DEF NoFlight
<1>2. Positions(Settle(c), AwaitedTask(j)) = Positions(c, AwaitedTask(j))
  BY <1>1 DEF Positions
<1>3. QED
  BY <1>1, <1>2, WaitsByPosition, TasksDiffer DEF Free

-----------------------------------------------------------------------------
(* What each operation on a client keeps, job by job                       *)

LEMMA SettleLives ==
    ASSUME NEW c \in Client, NEW j \in Jobs, NEW r, NEW n, Lives(c, j, r, n)
    PROVE  Lives(Settle(c), j, r, n)
<1> DEFINE d == Settle(c)
<1>1. /\ d.flight = NoFlight /\ d.recovered = c.recovered /\ d.jobs = c.jobs
      /\ d.pc = c.pc /\ d.aborted = c.aborted /\ d.chain = c.chain
  BY SettleAll
<1> HIDE DEF d
<1>2. NoFlight.task = SyncTask /\ NoFlight.body = NoJobs /\ NoJobs[j].st # "queued"
  BY NoJobsIsTyped DEF NoFlight
<1>3. SyncTask # AwaitedTask(j)
  BY TasksDiffer
<1>4. Waits(d, j)
  BY <1>1, <1>2, <1>3 DEF Lives, Waits
<1>5. LinksFirst(d, j, r)
  BY <1>1, <1>2, <1>3 DEF Lives, LinksFirst
<1>6. n > 0 => Spent(d, j, r)
  BY <1>1, <1>2 DEF Lives, Spent
<1>7. QED
  BY <1>4, <1>5, <1>6 DEF Lives, d

(* A chain that grew by writes nobody waits for is as good.                *)
LEMMA LongerWaits ==
    ASSUME NEW c \in Client, NEW d \in Client, NEW j, NEW T, Lengthens(c, d, T),
           AwaitedTask(j) \notin T, d.flight = c.flight, d.pc[j] = c.pc[j], Waits(c, j)
    PROVE  Waits(d, j)
<1>1. Positions(d, AwaitedTask(j)) = Positions(c, AwaitedTask(j))
  BY LongerPositions
<1>2. QED
  BY <1>1, WaitsByPosition

(* A job the step does not touch                                           *)
LEMMA UntouchedLives ==
    ASSUME NEW c \in Client, NEW d \in Client, NEW j \in Jobs, NEW r, NEW n, NEW T,
           Lives(c, j, r, n), Lengthens(c, d, T), AwaitedTask(j) \notin T,
           d.flight = c.flight, d.recovered = c.recovered,
           d.jobs[j] = c.jobs[j], d.pc[j] = c.pc[j], j \in c.aborted => j \in d.aborted
    PROVE  Lives(d, j, r, n)
<1>1. Waits(d, j)
  BY LongerWaits DEF Lives
<1>2. LinksFirst(d, j, r)
  BY DEF Lives, LinksFirst
<1>3. n > 0 => Spent(d, j, r)
  BY DEF Lives, Spent
<1>4. QED
  BY <1>1, <1>2, <1>3 DEF Lives

(* Runner k moved.                                                         *)
LEMMA MovedLives ==
    ASSUME NEW c \in Client, NEW k \in Jobs, NEW d, Moved(c, d, k), Free(c, k),
           NEW j \in Jobs, NEW r, NEW n, Lives(c, j, r, n)
    PROVE  Lives(d, j, r, n)
<1>1. /\ d \in Client /\ d.flight = c.flight /\ d.recovered = c.recovered
      /\ \A i \in Jobs \ {k} : /\ d.jobs[i] = c.jobs[i] /\ d.pc[i] = c.pc[i]
                               /\ i \in d.aborted <=> i \in c.aborted
  BY DEF Moved, Others
<1>2. CASE j # k
  <2>1. AwaitedTask(j) \notin {CurrentTask(k), AwaitedTask(k)}
    BY <1>2, TasksDiffer
  <2>2. Lengthens(c, d, {CurrentTask(k), AwaitedTask(k)})
    BY DEF Moved
  <2>3. QED
    BY <1>1, <1>2, <2>1, <2>2, UntouchedLives
<1>3. CASE j = k
  <2>1. Waits(d, k)
    <3> DEFINE T == IF d.pc[k] \in Awaiting THEN {AwaitedTask(k)} ELSE {CurrentTask(k)}
    <3>1. Lengthens(c, d, T)
      BY DEF Moved, Places
    <3>2. Positions(c, AwaitedTask(k)) = {} /\ d.flight.task # AwaitedTask(k)
      BY <1>1 DEF Free
    <3>3. d.pc[k] \notin Awaiting => AwaitedTask(k) \notin T
      BY TasksDiffer
    <3> HIDE DEF T
    <3>4. /\ AwaitedTask(k) \notin T => Positions(d, AwaitedTask(k)) = {}
          /\ \A a, b \in Positions(d, AwaitedTask(k)) : a = b
      BY <1>1, <3>1, <3>2, LongerPositions
    <3>5. QED
      BY <3>2, <3>3, <3>4, WaitsByPosition
  <2>2. LinksFirst(d, k, r)
    BY <1>1 DEF LinksFirst, Moved, Places, Free
  <2>3. n > 0 => Spent(d, k, r)
    BY <1>1, <1>3 DEF Lives, Spent, Moved, Places
  <2>4. QED
    BY <1>3, <2>1, <2>2, <2>3 DEF Lives
<1>4. QED
  BY <1>2, <1>3

LEMMA PumpLives ==
    ASSUME NEW c \in Client, NEW order \in Ascending(Startable(c)),
           NEW j \in Jobs, NEW r, NEW n, Lives(c, j, r, n)
    PROVE  Lives(RunJobs(c, Startable(c), order), j, r, n)
<1> DEFINE d == RunJobs(c, Startable(c), order)
           T == {AwaitedTask(k) : k \in {k \in Jobs : c.pc[k] = "idle" /\ d.pc[k] # "idle"}}
<1>1. Pumps(c, d)
  BY RunJobsPumps
<1> HIDE DEF d
<1>2. /\ d \in Client /\ d.flight = c.flight /\ d.recovered = c.recovered
      /\ d.aborted = c.aborted /\ Lengthens(c, d, T)
  BY <1>1 DEF Pumps
<1>3. CASE d.pc[j] = c.pc[j] /\ d.jobs[j] = c.jobs[j]
  <2>1. AwaitedTask(j) \notin T
    BY <1>3, TasksDiffer
  <2> HIDE DEF T
  <2>2. QED
    BY <1>2, <1>3, <2>1, UntouchedLives DEF d
<1>4. CASE /\ c.pc[j] = "idle" /\ d.pc[j] = "persistStart" /\ c.jobs[j].st = "queued"
  <2> HIDE DEF T
  <2>1. Free(c, j)
    BY <1>4, IdleIsFree DEF Lives, Awaiting
  <2>2. Waits(d, j)
    <3>1. \A a, b \in Positions(d, AwaitedTask(j)) : a = b
      BY <1>2, <2>1, LongerPositions DEF Free
    <3>2. d.pc[j] \in Awaiting /\ d.flight.task # AwaitedTask(j)
      BY <1>2, <1>4, <2>1 DEF Free, Awaiting
    <3>3. QED
      BY <3>1, <3>2, WaitsByPosition
  <2>3. LinksFirst(d, j, r)
    BY <1>4 DEF LinksFirst
  <2>4. ~(n > 0)
    BY <1>4 DEF Lives, Spent
  <2>5. QED
    BY <2>2, <2>3, <2>4 DEF Lives, d
<1>5. QED
  BY <1>1, <1>3, <1>4 DEF Pumps

(* The user and the timer                                                  *)
LEMMA EnqueuedLives ==
    ASSUME NEW c \in Client, NEW k \in Jobs, NEW d, Enqueued(c, d, k), c.pc[k] = "idle",
           NEW j \in Jobs, NEW r, NEW n \in Nat, j = k => n = 0, Lives(c, j, r, n)
    PROVE  Lives(d, j, r, n)
<1>1. /\ d \in Client /\ d.flight = c.flight /\ d.recovered = c.recovered
      /\ d.pc = c.pc /\ d.aborted = c.aborted
      /\ \A i \in Jobs \ {k} : d.jobs[i] = c.jobs[i]
  BY DEF Enqueued, Others
<1>2. Lengthens(c, d, {NewTask(k)}) /\ AwaitedTask(j) \notin {NewTask(k)}
  BY AppendedChain, TasksDiffer DEF Enqueued
<1>3. CASE j # k
  BY <1>1, <1>2, <1>3, UntouchedLives
<1>4. CASE j = k
  <2>1. Waits(d, j)
    BY <1>1, <1>2, LongerWaits DEF Lives
  <2>2. QED
    BY <1>1, <1>4, <2>1 DEF Lives, LinksFirst
<1>5. QED
  BY <1>3, <1>4

LEMMA CancelledLives ==
    ASSUME NEW c \in Client, NEW k \in Jobs, NEW d, Cancels(c, d, k),
           NEW j \in Jobs, NEW r, NEW n, Lives(c, j, r, n)
    PROVE  Lives(d, j, r, n)
<1>1. /\ d \in Client /\ d.flight = c.flight /\ d.recovered = c.recovered /\ d.pc = c.pc
      /\ \A i \in Jobs \ {k} : d.jobs[i] = c.jobs[i] /\ (i \in d.aborted <=> i \in c.aborted)
      /\ d.jobs[k].st = "cancelled"
      /\ c.pc[k] # "idle" => k \in d.aborted
  BY DEF Cancels, Others
<1>2. Lengthens(c, d, {CurrentTask(k)}) /\ AwaitedTask(j) \notin {CurrentTask(k)}
  BY AppendedChain, TasksDiffer DEF Cancels
<1>3. CASE j # k
  BY <1>1, <1>2, <1>3, UntouchedLives
<1>4. CASE j = k
  <2>1. Waits(d, j)
    BY <1>1, <1>2, LongerWaits DEF Lives
  <2>2. LinksFirst(d, j, r)
    BY <1>1, <1>4, StatusSorts DEF LinksFirst
  <2>3. n > 0 => Spent(d, j, r)
    BY <1>1, <1>4 DEF Lives, Spent
  <2>4. QED
    BY <2>1, <2>2, <2>3 DEF Lives
<1>5. QED
  BY <1>3, <1>4

LEMMA ClearedLives ==
    ASSUME NEW c \in Client, NEW d, Clears(c, d),
           NEW j \in Jobs, NEW r, NEW n, Lives(c, j, r, n)
    PROVE  Lives(d, j, r, n)
<1>1. /\ d \in Client /\ d.flight = c.flight /\ d.recovered = c.recovered
      /\ d.pc = c.pc /\ d.aborted = c.aborted /\ d.chain = c.chain
      /\ d.jobs[j] = c.jobs[j] \/ d.jobs[j] = Absent
  BY DEF Clears, SameRunners
<1>2. Absent.st = "absent"
  BY DEF Absent
<1>3. Waits(d, j)
  BY <1>1 DEF Lives, Waits
<1>4. LinksFirst(d, j, r)
  BY <1>1, <1>2, StatusSorts DEF Lives, LinksFirst
<1>5. n > 0 => Spent(d, j, r)
  BY <1>1, <1>2 DEF Lives, Spent
<1>6. QED
  BY <1>3, <1>4, <1>5 DEF Lives

LEMMA TickedLives ==
    ASSUME NEW c \in Client, NEW d, Ticks(c, d),
           NEW j \in Jobs, NEW r, NEW n, Lives(c, j, r, n)
    PROVE  Lives(d, j, r, n)
<1>1. AwaitedTask(j) \notin {SyncTask}
  BY TasksDiffer
<1>2. QED
  BY <1>1, UntouchedLives DEF Ticks, SameRunners

(* Boot: no runner is on its way before the ledger is merged.              *)
LEMMA ReadLives ==
    ASSUME NEW c \in Client, ClientInv(c), NEW d, NEW from, NEW to, NEW read,
           Reads(c, d, from, to, read), from # "ready",
           NEW j \in Jobs, NEW r, NEW q, NEW n, Lives(c, j, r, n),
           read[j].st = "queued" \/ q.st = "queued" => r.st = "queued"
    PROVE  Lives(d, j, q, n)
<1>1. /\ d.flight = c.flight /\ d.recovered = read /\ d.jobs = c.jobs
      /\ d.pc = c.pc /\ d.chain = c.chain /\ c.pc[j] = "idle"
  BY DEF Reads, ClientInv
<1>2. Waits(d, j)
  BY <1>1 DEF Lives, Waits
<1>3. LinksFirst(d, j, q)
  BY <1>1 DEF LinksFirst
<1>4. n > 0 => Spent(d, j, q)
  BY <1>1 DEF Lives, Spent
<1>5. QED
  BY <1>2, <1>3, <1>4 DEF Lives

LEMMA MergedLives ==
    ASSUME NEW c \in Client, ClientInv(c), NEW d, Merges(c, d),
           NEW j \in Jobs, NEW r, NEW n, Lives(c, j, r, n)
    PROVE  Lives(d, j, r, n)
<1>1. /\ d.flight = c.flight /\ d.recovered = NoJobs /\ d.pc = c.pc /\ d.chain = c.chain
      /\ c.pc[j] = "idle"
      /\ d.jobs[j] = c.jobs[j] \/ d.jobs[j] = c.recovered[j]
  BY DEF Merges, ClientInv
<1>2. Waits(d, j)
  BY <1>1 DEF Lives, Waits
<1>3. LinksFirst(d, j, r)
  BY <1>1 DEF LinksFirst
<1>4. n > 0 => Spent(d, j, r)
  BY <1>1, NoJobsIsTyped DEF Lives, Spent, NoJobs, Absent
<1>5. QED
  BY <1>2, <1>3, <1>4 DEF Lives

(* The first write failed: no runner was started.                          *)
LEMMA RefusedLives ==
    ASSUME NEW c \in Client, NEW k \in Jobs, NEW d, Refuses(c, d, k),
           NEW j \in Jobs, NEW r, NEW n, Lives(c, j, r, n)
    PROVE  Lives(d, j, r, n)
<1>1. /\ d \in Client /\ d.flight = c.flight /\ d.recovered = c.recovered
      /\ d.pc = c.pc /\ d.aborted = c.aborted /\ d.chain = c.chain
      /\ d.jobs[j] = c.jobs[j] \/ d.jobs[j].st \in {"absent", "failed"}
  BY DEF Refuses, Others
<1>2. Waits(d, j)
  BY <1>1 DEF Lives, Waits
<1>3. LinksFirst(d, j, r)
  BY <1>1, StatusSorts DEF Lives, LinksFirst
<1>4. n > 0 => Spent(d, j, r)
  BY <1>1 DEF Lives, Spent
<1>5. QED
  BY <1>2, <1>3, <1>4 DEF Lives

LEMMA RememberedLives ==
    ASSUME NEW c \in Client, NEW k, NEW d, Remembers(c, d, k),
           NEW j \in Jobs, NEW r, NEW n, Lives(c, j, r, n)
    PROVE  Lives(d, j, r, n)
<1>1. Waits(d, j) /\ LinksFirst(d, j, r)
  BY DEF Lives, Remembers, Waits, LinksFirst
<1>2. n > 0 => Spent(d, j, r)
  BY DEF Lives, Remembers, Spent
<1>3. QED
  BY <1>1, <1>2 DEF Lives

-----------------------------------------------------------------------------
(* The write a runner waits for                                            *)

(* The row is sent as it is, unless it was cleared.                        *)
LEMMA RowIsSent ==
    ASSUME IInv, NEW t \in Tabs, WriteStarts(t), NEW j \in Jobs,
           Head(client[t].chain) = AwaitedTask(j), client[t].jobs[j].st # "absent"
    PROVE  client'[t].flight.reply = "sent" /\ client'[t].flight.body[j] = client[t].jobs[j]
<1> DEFINE c == client[t]
           f == [task |-> AwaitedTask(j), body |-> Body(c, AwaitedTask(j)), reply |-> "sent"]
           d == [c EXCEPT !.chain = Tail(c.chain), !.flight = f]
<1>1. client \in [Tabs -> Client] /\ c \in Client
  BY DEF IInv, TypeOK
<1>2. Needed(c, AwaitedTask(j))
  BY DEF Needed, AwaitedTask
<1>3. Body(c, AwaitedTask(j))[j] = c.jobs[j]
  BY DEF Body, AwaitedTask
<1>4. client' = [client EXCEPT ![t] = d]
  BY <1>2 DEF WriteStarts, Become
<1> HIDE DEF c
<1>5. d.flight = f
  BY <1>1 DEF Client
<1> HIDE DEF d
<1>6. client'[t].flight = f
  BY <1>1, <1>4, <1>5
<1>7. QED
  BY <1>3, <1>6 DEF c

LEMMA SentLives ==
    ASSUME IInv, NEW t \in Tabs, WriteStarts(t), NEW d, Sends(client[t], d), Become(t, d),
           NEW j \in Jobs, NEW r, NEW n, Lives(client[t], j, r, n), Unwinds(client[t], j)
    PROVE  Lives(d, j, r, n)
<1> DEFINE c == client[t]
<1>1. /\ c \in Client /\ d \in Client
      /\ d.jobs = c.jobs /\ d.pc = c.pc /\ d.aborted = c.aborted /\ d.recovered = c.recovered
      /\ c.chain # <<>> /\ d.chain = Tail(c.chain) /\ d.flight.task = Head(c.chain)
      /\ d.flight.body[j] = NoJobs[j] \/ d.flight.body[j] = c.jobs[j]
  BY DEF Sends, SameRunners, IInv, TypeOK
<1>2. client'[t] = d
  BY DEF Become, IInv, TypeOK
<1>3. Head(c.chain) = AwaitedTask(j) /\ c.jobs[j].st # "absent" =>
        d.flight.reply = "sent" /\ d.flight.body[j] = c.jobs[j]
  BY <1>2, RowIsSent
<1> HIDE DEF c
<1>4. /\ 1 \in DOMAIN c.chain /\ Head(c.chain) = c.chain[1]
      /\ \A i \in DOMAIN d.chain : /\ i + 1 \in DOMAIN c.chain /\ d.chain[i] = c.chain[i + 1]
                                   /\ i \in Nat /\ i # 0
  <2>1. c.chain \in Seq(Task) /\ DOMAIN c.chain = 1..Len(c.chain)
    BY <1>1, ChainIsSeq
  <2>2. QED
    BY <1>1, <2>1
<1>5. Waits(d, j)
  <2>1. Waits(c, j)
    BY DEF Lives, c
  <2>2. d.flight.task = AwaitedTask(j) => c.pc[j] \in Awaiting
    BY <1>1, <1>4, <2>1 DEF Waits
  <2>3. ASSUME NEW a \in DOMAIN d.chain, d.chain[a] = AwaitedTask(j)
        PROVE  /\ c.pc[j] \in Awaiting /\ d.flight.task # AwaitedTask(j)
               /\ \A b \in DOMAIN d.chain : d.chain[b] = AwaitedTask(j) => a = b
    <3>1. /\ a + 1 \in DOMAIN c.chain /\ c.chain[a + 1] = AwaitedTask(j) /\ a \in Nat /\ a # 0
      BY <1>4, <2>3
    <3>2. /\ c.pc[j] \in Awaiting
          /\ \A b \in DOMAIN c.chain : c.chain[b] = AwaitedTask(j) => a + 1 = b
      BY <2>1, <3>1 DEF Waits
    <3>3. d.flight.task # AwaitedTask(j)
      BY <1>1, <1>4, <3>1, <3>2
    <3>4. \A b \in DOMAIN d.chain : d.chain[b] = AwaitedTask(j) => a = b
      BY <1>4, <3>1, <3>2
    <3>5. QED
      BY <3>2, <3>3, <3>4
  <2>4. QED
    BY <1>1, <2>2, <2>3 DEF Waits
<1>6. LinksFirst(d, j, r)
  <2>1. SUFFICES ASSUME c.pc[j] = "persistRun"
                 PROVE  /\ c.jobs[j].st \in Active => c.jobs[j] = Linkage
                        /\ j \notin c.aborted /\ Head(c.chain) = AwaitedTask(j) =>
                             d.flight.reply = "sent" /\ d.flight.body[j] = Linkage
    BY <1>1 DEF LinksFirst
  <2>2. c.jobs[j].st \in Active => c.jobs[j] = Linkage
    BY <2>1 DEF Lives, LinksFirst, c
  <2>3. j \notin c.aborted => c.jobs[j].st \in Active
    BY <2>1 DEF Unwinds, Showing, c
  <2>4. QED
    BY <1>3, <2>2, <2>3, StatusSorts
<1>7. n > 0 => Spent(d, j, r)
  BY <1>1, NoJobsIsTyped DEF Lives, Spent, c
<1>8. QED
  BY <1>5, <1>6, <1>7 DEF Lives

(* Its answer is the write's.                                              *)
LEMMA AnsweredLives ==
    ASSUME NEW c \in Client, NEW a, NEW d, Answers(c, d, a), a # "sent", a # "noop",
           NEW j \in Jobs, NEW r, NEW q, NEW n, Lives(c, j, r, n),
           q = r \/ q = c.flight.body[j],
           a = "ok" /\ c.flight.task = AwaitedTask(j) => q = c.flight.body[j]
    PROVE  Lives(d, j, q, n)
<1>1. /\ d.jobs = c.jobs /\ d.pc = c.pc /\ d.aborted = c.aborted /\ d.recovered = c.recovered
      /\ d.chain = c.chain /\ c.flight.reply = "sent" /\ d.flight.reply = a
      /\ d.flight.task = c.flight.task /\ d.flight.body = c.flight.body
  BY DEF Answers, SameRunners
<1>2. Waits(d, j)
  BY <1>1 DEF Lives, Waits
<1>3. LinksFirst(d, j, q)
  BY <1>1 DEF Lives, LinksFirst
<1>4. n > 0 => Spent(d, j, q)
  BY <1>1 DEF Lives, Spent
<1>5. QED
  BY <1>2, <1>3, <1>4 DEF Lives

LEMMA SettledLives ==
    ASSUME NEW c \in Client, NEW d, Settles(c, d),
           NEW j \in Jobs, NEW r, NEW n, Lives(c, j, r, n)
    PROVE  Lives(d, j, r, n)
<1> DEFINE e == Settle(c)
<1>1. /\ d.flight = e.flight /\ d.recovered = e.recovered /\ d.jobs = e.jobs
      /\ d.pc = e.pc /\ d.aborted = e.aborted /\ d.chain = e.chain
  BY SettleAll DEF Settles, SameRunners
<1>2. Lives(e, j, r, n)
  BY SettleLives
<1> HIDE DEF e
<1>3. Waits(d, j) /\ LinksFirst(d, j, r)
  BY <1>1, <1>2 DEF Lives, Waits, LinksFirst
<1>4. n > 0 => Spent(d, j, r)
  BY <1>1, <1>2 DEF Lives, Spent
<1>5. QED
  BY <1>3, <1>4 DEF Lives

(* A client that starts afresh knows of nothing.                           *)
LEMMA FreshLives ==
    ASSUME NEW l \in Limits, NEW j \in Jobs, NEW r, NEW n, n > 0 => r.st # "queued"
    PROVE  Lives(FreshClient(l), j, r, n)
<1> DEFINE d == FreshClient(l)
<1>1. /\ d.jobs = NoJobs /\ d.recovered = NoJobs /\ d.flight = NoFlight /\ d.chain = <<>>
      /\ d.pc[j] = "idle"
  BY DEF FreshClient
<1> HIDE DEF d
<1>2. NoFlight.task = SyncTask /\ NoFlight.body = NoJobs /\ NoJobs[j].st # "queued"
  BY NoJobsIsTyped DEF NoFlight
<1>3. Waits(d, j)
  BY <1>1, <1>2, TasksDiffer DEF Waits
<1>4. LinksFirst(d, j, r)
  BY <1>1 DEF LinksFirst
<1>5. n > 0 => Spent(d, j, r)
  BY <1>1, <1>2 DEF Spent, Underway
<1>6. QED
  BY <1>3, <1>4, <1>5 DEF Lives, d

-----------------------------------------------------------------------------
(* LifeInv, step by step, when there is no client but t                    *)

LEMMA LifeFacts ==
    ASSUME LifeInv, NEW t \in Tabs
    PROVE  /\ IInv /\ OutcomeInv /\ client \in [Tabs -> Client] /\ client[t] \in Client
           /\ ClientInv(client[t]) /\ Sound(client[t], used)
           /\ \A j \in Jobs : /\ Lives(client[t], j, ledger[j], launches[j])
                              /\ StaysLinked(client[t], j, ledger[j])
           /\ \A j \in Jobs : launches[j] \in Nat
           /\ \A j \in Jobs \ used : launches[j] = 0 /\ Unknown(client[t], j)
<1>1. IInv /\ OutcomeInv /\ OutcomeRest
  BY RestOfOutcomeInv DEF LifeInv
<1>2. /\ client \in [Tabs -> Client] /\ ClientInv(client[t]) /\ Sound(client[t], used)
      /\ launches \in [Jobs -> Nat]
      /\ \A j \in Jobs \ used : Unknown(client[t], j)
  BY <1>1 DEF IInv, TypeOK, OutcomeRest
<1>3. QED
  BY <1>1, <1>2 DEF LifeInv

(* Tab t became d, and the pump may have run.                              *)
LEMMA BecameLives ==
    ASSUME client \in [Tabs -> Client], NEW t \in Tabs, NEW d \in Client,
           Become(t, d) \/ BecomePumped(t, d),
           NEW j \in Jobs, NEW r, NEW n, Lives(d, j, r, n)
    PROVE  Lives(client'[t], j, r, n)
<1>1. CASE Become(t, d)
  BY <1>1 DEF Become
<1>2. CASE BecomePumped(t, d)
  <2>1. PICK order \in Ascending(Startable(d)) : Become(t, RunJobs(d, Startable(d), order))
    BY <1>2 DEF BecomePumped
  <2>2. Lives(RunJobs(d, Startable(d), order), j, r, n)
    BY PumpLives
  <2>3. QED
    BY <2>1, <2>2 DEF Become
<1>3. QED
  BY <1>1, <1>2

LEMMA MadeLives ==
    ASSUME client \in [Tabs -> Client], NEW t \in Tabs, NEW c \in Client,
           NEW k \in Jobs, Free(c, k), Makes(t, k, c),
           NEW j \in Jobs, NEW r, NEW n, Lives(c, j, r, n)
    PROVE  Lives(client'[t], j, r, n)
<1>1. PICK d : Moved(c, d, k) /\ (Become(t, d) \/ BecomePumped(t, d))
  BY DEF Makes
<1>2. d \in Client
  BY <1>1 DEF Moved, Others
<1>3. Lives(d, j, r, n)
  BY <1>1, MovedLives
<1>4. QED
  BY <1>1, <1>2, <1>3, BecameLives

LEMMA RunnerLives ==
    ASSUME LifeInv, NEW t \in Tabs, NEW k \in Jobs, RunnerStep(t, k) \/ UserDecides(t, k)
    PROVE  \A j \in Jobs : Lives(client'[t], j, ledger[j], launches[j])
<1> DEFINE c == client[t]
<1>1. /\ IInv /\ client \in [Tabs -> Client] /\ c \in Client
      /\ \A j \in Jobs : Lives(c, j, ledger[j], launches[j])
  BY LifeFacts
<1>2. Waits(c, k)
  BY <1>1 DEF Lives
<1>3. CASE Makes(t, k, c) /\ c.pc[k] \notin Awaiting
  <2>1. Free(c, k)
    BY <1>2, <1>3, IdleIsFree
  <2> HIDE DEF c
  <2>2. QED
    BY <1>1, <1>3, <2>1, MadeLives
<1>4. CASE Makes(t, k, Settle(c)) /\ c.flight.task = AwaitedTask(k)
  <2>1. Free(Settle(c), k)
    BY <1>1, <1>2, <1>4, SettledIsFree
  <2>2. Settle(c) \in Client /\ \A j \in Jobs : Lives(Settle(c), j, ledger[j], launches[j])
    BY <1>1, SettleAll, SettleLives
  <2> HIDE DEF c
  <2>3. QED
    BY <1>1, <1>4, <2>1, <2>2, MadeLives
<1>5. QED
  BY <1>1, <1>3, <1>4, RunnerMakes

LEMMA UserLives ==
    ASSUME LifeInv, NEW t \in Tabs,
           \/ \E k \in Jobs : Enqueue(t, k) \/ Cancel(t, k)
           \/ \E n \in Limits : SetLimit(t, n)
           \/ ClearFinished(t) \/ EffectPump(t) \/ TimerFires(t)
    PROVE  \A j \in Jobs : Lives(client'[t], j, ledger[j], launches[j])
<1> DEFINE c == client[t]
<1>1. /\ IInv /\ client \in [Tabs -> Client] /\ c \in Client
      /\ \A j \in Jobs : Lives(c, j, ledger[j], launches[j]) /\ launches[j] \in Nat
      /\ \A j \in Jobs \ used : launches[j] = 0 /\ c.pc[j] = "idle"
  BY LifeFacts DEF Unknown
<1>2. SUFFICES \E d \in Client : /\ Become(t, d) \/ BecomePumped(t, d)
                                 /\ \A j \in Jobs : Lives(d, j, ledger[j], launches[j])
  BY <1>1, BecameLives
<1>3. ASSUME NEW k \in Jobs, Enqueue(t, k)
      PROVE  \E d \in Client : Become(t, d) /\ \A j \in Jobs : Lives(d, j, ledger[j], launches[j])
  <2>1. PICK d : Enqueued(c, d, k) /\ Become(t, d)
    BY <1>1, <1>3, EnqueueMakes
  <2>2. d \in Client /\ c.pc[k] = "idle" /\ launches[k] = 0
    BY <1>1, <1>3, <2>1 DEF Enqueued, Others, Enqueue
  <2> HIDE DEF c
  <2>3. \A j \in Jobs : Lives(d, j, ledger[j], launches[j])
    BY <1>1, <2>1, <2>2, EnqueuedLives
  <2>4. QED
    BY <2>1, <2>2, <2>3
<1>4. ASSUME NEW k \in Jobs, Cancel(t, k)
      PROVE  \E d \in Client : BecomePumped(t, d) /\ \A j \in Jobs : Lives(d, j, ledger[j], launches[j])
  <2>1. PICK d : Cancels(c, d, k) /\ BecomePumped(t, d)
    BY <1>1, <1>4, CancelMakes
  <2>2. d \in Client
    BY <2>1 DEF Cancels, Others
  <2>3. QED
    BY <1>1, <2>1, <2>2, CancelledLives
<1>5. ASSUME EffectPump(t) \/ \E n \in Limits : SetLimit(t, n)
      PROVE  \E d \in Client : BecomePumped(t, d) /\ \A j \in Jobs : Lives(d, j, ledger[j], launches[j])
  <2>1. PICK d : /\ BecomePumped(t, d) /\ SameRunners(c, d)
                 /\ d.jobs = c.jobs /\ d.flight = c.flight /\ d.chain = c.chain
    BY <1>1, <1>5, PumpMakes
  <2>2. d \in Client /\ d.recovered = c.recovered /\ d.pc = c.pc /\ d.aborted = c.aborted
    BY <2>1 DEF SameRunners
  <2> HIDE DEF c
  <2>3. \A j \in Jobs : Lives(d, j, ledger[j], launches[j])
    BY <1>1, <2>1, <2>2 DEF Lives, Waits, LinksFirst, Spent
  <2>4. QED
    BY <2>1, <2>2, <2>3
<1>6. ASSUME ClearFinished(t)
      PROVE  \E d \in Client : Become(t, d) /\ \A j \in Jobs : Lives(d, j, ledger[j], launches[j])
  <2>1. PICK d : Clears(c, d) /\ Become(t, d)
    BY <1>1, <1>6, ClearFinishedMakes
  <2>2. d \in Client
    BY <2>1 DEF Clears, SameRunners
  <2>3. QED
    BY <1>1, <2>1, <2>2, ClearedLives
<1>7. ASSUME TimerFires(t)
      PROVE  \E d \in Client : Become(t, d) /\ \A j \in Jobs : Lives(d, j, ledger[j], launches[j])
  <2>1. PICK d : Ticks(c, d) /\ Become(t, d)
    BY <1>1, <1>7, TimerFiresMakes
  <2>2. d \in Client
    BY <2>1 DEF Ticks, SameRunners
  <2>3. QED
    BY <1>1, <2>1, <2>2, TickedLives
<1>8. QED
  BY <1>3, <1>4, <1>5, <1>6, <1>7

LEMMA BootLives ==
    ASSUME LifeInv, NEW t \in Tabs, Boot(t) \/ BootFail(t)
    PROVE  \A j \in Jobs : Lives(client'[t], j, ledger'[j], launches[j])
<1> DEFINE c == client[t]
<1>1. /\ IInv /\ client \in [Tabs -> Client] /\ c \in Client /\ ClientInv(c)
      /\ \A j \in Jobs : Lives(c, j, ledger[j], launches[j])
  BY LifeFacts
<1>2. CASE BootMerge(t)
  <2>1. ledger' = ledger
    BY <1>2 DEF BootMerge, runtime
  <2>2. PICK d : Merges(c, d) /\ BecomePumped(t, d)
    BY <1>1, <1>2, BootMergeMakes
  <2>3. d \in Client
    BY <2>2 DEF Merges
  <2> HIDE DEF c
  <2>4. \A j \in Jobs : Lives(d, j, ledger[j], launches[j])
    BY <1>1, <2>2, MergedLives
  <2>5. QED
    BY <1>1, <2>1, <2>2, <2>3, <2>4, BecameLives
<1>3. CASE BootGet(t)
  <2>1. \A j \in Jobs : ledger'[j].st = "queued" => ledger[j].st = "queued"
    <3>1. ASSUME NEW j \in Jobs, Reconciled(ledger)[j].st = "queued" PROVE ledger[j].st = "queued"
      <4>1. ledger[j] \in JobRecord
        BY <1>1 DEF IInv, TypeOK, JobMap
      <4>2. QED
        BY <3>1, <4>1 DEF Reconciled, JobRecord
    <3>2. QED
      BY <1>3, <3>1 DEF BootGet
  <2>2. \E d : Become(t, d) /\ Reads(c, d, "down", "fetching", ledger')
    <3>1. ~BootFail(t)
      BY <1>3 DEF BootGet, BootFail
    <3>2. QED
      BY <1>1, <1>3, <3>1, BootReadMakes
  <2>3. PICK d : Become(t, d) /\ Reads(c, d, "down", "fetching", ledger')
    BY <2>2
  <2>4. d \in Client
    BY <2>3 DEF Reads
  <2> HIDE DEF c
  <2>5. \A j \in Jobs : Lives(d, j, ledger'[j], launches[j])
    BY <1>1, <2>1, <2>3, ReadLives
  <2>6. QED
    BY <1>1, <2>3, <2>4, <2>5, BecameLives
<1>4. CASE BootFail(t)
  <2>1. ledger' = ledger
    BY <1>4 DEF BootFail, runtime
  <2>2. \E d : Become(t, d) /\ Reads(c, d, "fetching", "paused", NoJobs)
    <3>1. ~BootGet(t)
      BY <1>4 DEF BootGet, BootFail
    <3>2. QED
      BY <1>1, <1>4, <3>1, BootReadMakes
  <2>3. PICK d : Become(t, d) /\ Reads(c, d, "fetching", "paused", NoJobs)
    BY <2>2
  <2>4. d \in Client
    BY <2>3 DEF Reads
  <2>5. \A j \in Jobs : NoJobs[j].st # "queued"
    BY NoJobsIsTyped
  <2> HIDE DEF c
  <2>6. \A j \in Jobs : Lives(d, j, ledger[j], launches[j])
    BY <1>1, <2>3, <2>5, ReadLives
  <2>7. QED
    BY <1>1, <2>1, <2>3, <2>4, <2>6, BecameLives
<1>5. QED
  BY <1>2, <1>3, <1>4 DEF Boot

(* What a write leaves in the ledger of job j                              *)
LEMMA WrittenRow ==
    ASSUME IInv, NEW t \in Tabs, NEW j \in Jobs
    PROVE  LET f == client[t].flight
           IN  /\ Written(f)[j] = ledger[j] \/ Written(f)[j] = f.body[j]
               /\ f.task = AwaitedTask(j) => Written(f)[j] = f.body[j]
<1>1. ledger \in JobMap
  BY DEF IInv, TypeOK
<1>2. QED
  BY <1>1 DEF Written, JobMap, AwaitedTask

LEMMA AnswerLives ==
    ASSUME LifeInv, ~LostAnswers, NEW t \in Tabs, ServerWrites(t) \/ WriteFault(t)
    PROVE  \A j \in Jobs : Lives(client'[t], j, ledger'[j], launches[j])
<1> DEFINE c == client[t]
<1>1. /\ IInv /\ client \in [Tabs -> Client] /\ c \in Client
      /\ \A j \in Jobs : Lives(c, j, ledger[j], launches[j])
  BY LifeFacts
<1>2. PICK a \in {"ok", "error"} : /\ Answer(t, a) /\ c.flight.reply = "sent"
                                  /\ IF a = "ok" THEN ledger' = Written(c.flight) ELSE ledger' = ledger
  BY DEF ServerWrites, WriteFault
<1>3. a \in Reply /\ a # "sent" /\ a # "noop"
  BY DEF Reply
<1>4. PICK d : Answers(c, d, a) /\ Become(t, d)
  BY <1>1, <1>2, <1>3, AnswerMakes
<1>5. d \in Client
  BY <1>4 DEF Answers, SameRunners
<1>6. \A j \in Jobs : /\ ledger'[j] = ledger[j] \/ ledger'[j] = c.flight.body[j]
                      /\ a = "ok" /\ c.flight.task = AwaitedTask(j) => ledger'[j] = c.flight.body[j]
  BY <1>1, <1>2, WrittenRow
<1> HIDE DEF c
<1>7. \A j \in Jobs : Lives(d, j, ledger'[j], launches[j])
  BY <1>1, <1>3, <1>4, <1>6, AnsweredLives
<1>8. QED
  BY <1>1, <1>4, <1>5, <1>7, BecameLives

LEMMA ChainLives ==
    ASSUME LifeInv, NEW t \in Tabs,
           WriteStarts(t) \/ NewJobPersisted(t) \/ UnawaitedPersisted(t) \/ SyncPersisted(t)
    PROVE  \A j \in Jobs : Lives(client'[t], j, ledger[j], launches[j])
<1> DEFINE c == client[t]
<1>1. /\ IInv /\ client \in [Tabs -> Client] /\ c \in Client /\ Sound(c, used)
      /\ \A j \in Jobs : Lives(c, j, ledger[j], launches[j])
  BY LifeFacts
<1>2. CASE WriteStarts(t)
  <2>1. PICK d : Sends(c, d) /\ Become(t, d)
    BY <1>1, <1>2, WriteStartsMakes
  <2>2. d \in Client /\ \A j \in Jobs : Unwinds(c, j)
    BY <1>1, <2>1 DEF Sends, SameRunners, Sound
  <2>3. \A j \in Jobs : Lives(d, j, ledger[j], launches[j])
    BY <1>1, <1>2, <2>1, <2>2, SentLives
  <2>4. QED
    BY <1>1, <2>1, <2>2, <2>3, BecameLives
<1>3. CASE UnawaitedPersisted(t) \/ SyncPersisted(t)
  <2>1. PICK d : Settles(c, d) /\ Become(t, d)
    BY <1>1, <1>3, SyncPersistedMakes
  <2>2. d \in Client
    BY <2>1 DEF Settles, SameRunners
  <2> HIDE DEF c
  <2>3. \A j \in Jobs : Lives(d, j, ledger[j], launches[j])
    BY <1>1, <2>1, SettledLives
  <2>4. QED
    BY <1>1, <2>1, <2>2, <2>3, BecameLives
<1>4. CASE NewJobPersisted(t)
  <2> DEFINE e == Settle(c)
             k == c.flight.task.job
  <2>1. /\ k \in Jobs
        /\ \/ \E d : Refuses(e, d, k) /\ Become(t, d)
           \/ \E d : Remembers(e, d, k) /\ BecomePumped(t, d)
           \/ BecomePumped(t, e)
    BY <1>1, <1>4, NewJobPersistedMakes
  <2>2. e \in Client /\ \A j \in Jobs : Lives(e, j, ledger[j], launches[j])
    BY <1>1, SettleAll, SettleLives
  <2> HIDE DEF e, k
  <2>3. ASSUME NEW d, Refuses(e, d, k), Become(t, d)
        PROVE  \A j \in Jobs : Lives(client'[t], j, ledger[j], launches[j])
    <3>1. d \in Client /\ \A j \in Jobs : Lives(d, j, ledger[j], launches[j])
      BY <2>1, <2>2, <2>3, RefusedLives DEF Refuses, Others
    <3>2. QED
      BY <1>1, <2>3, <3>1, BecameLives
  <2>4. ASSUME NEW d, Remembers(e, d, k), BecomePumped(t, d)
        PROVE  \A j \in Jobs : Lives(client'[t], j, ledger[j], launches[j])
    <3>1. d \in Client /\ \A j \in Jobs : Lives(d, j, ledger[j], launches[j])
      BY <2>2, <2>4, RememberedLives DEF Remembers
    <3>2. QED
      BY <1>1, <2>4, <3>1, BecameLives
  <2>5. QED
    BY <1>1, <2>1, <2>2, <2>3, <2>4, BecameLives
<1>5. QED
  BY <1>2, <1>3, <1>4

LEMMA ReloadLives ==
    ASSUME LifeInv, NEW t \in Tabs, Reload(t)
    PROVE  \A j \in Jobs : Lives(client'[t], j, ledger'[j], launches[j])
<1>1. /\ IInv /\ client \in [Tabs -> Client] /\ client[t] \in Client
      /\ \A j \in Jobs : Lives(client[t], j, ledger[j], launches[j])
  BY LifeFacts
<1>2. client[t].limit \in Limits
  BY <1>1 DEF Client
<1>3. client'[t] = FreshClient(client[t].limit)
  BY <1>1 DEF Reload, Become
<1>4. \A j \in Jobs : ledger'[j] = ledger[j] \/ ledger'[j] = client[t].flight.body[j]
  BY <1>1, WrittenRow DEF Reload
<1>5. \A j \in Jobs : launches[j] > 0 => ledger'[j].st # "queued"
  BY <1>1, <1>4 DEF Lives, Spent
<1>6. QED
  BY <1>2, <1>3, <1>5, FreshLives

(* A launch: the linkage is on disk, and it is the first one.              *)
LaunchesAtOnce(t, j) ==
    /\ Resumes(t, j, "persistRun") /\ ~WriteFailed(t) /\ ~Cancelled(client[t], j)
    /\ Become(t, Suspend(Settle(client[t]), j, "harness"))
    /\ Launched(j) /\ UNCHANGED <<ledger, worktrees, trusted, used, reloads, faults>>

Launches(t, j) == LaunchesAtOnce(t, j) \/ ApprovalGranted(t, j)

LEMMA LaunchIsLinked ==
    ASSUME LifeInv, NEW t \in Tabs, NEW j \in Jobs, Launches(t, j)
    PROVE  /\ launches[j] = 0 /\ ledger[j] = Linkage /\ j \in used
           /\ launches' = [launches EXCEPT ![j] = @ + 1] /\ procs' = [procs EXCEPT ![j] = @ + 1]
           /\ Spent(client'[t], j, ledger[j])
<1> DEFINE c == client[t]
           e == IF c.pc[j] = "persistRun" THEN Settle(c) ELSE c
           d == Suspend(e, j, "harness")
<1>1. /\ IInv /\ client \in [Tabs -> Client] /\ c \in Client /\ ClientInv(c) /\ Sound(c, used)
      /\ Lives(c, j, ledger[j], launches[j]) /\ launches[j] \in Nat
      /\ StaysLinked(c, j, ledger[j])
      /\ j \notin used => c.pc[j] = "idle"
  BY LifeFacts DEF Unknown
<1>2. /\ Settle(c) \in Client /\ Settle(c).flight = NoFlight /\ Settle(c).recovered = c.recovered
      /\ Settle(c).jobs = c.jobs
      /\ NoFlight.body[j].st # "queued" /\ Linkage.st # "queued"
  BY <1>1, SettleAll, NoJobsIsTyped DEF NoFlight, Linkage
<1>3. j \notin c.aborted /\ c.pc[j] \in {"persistRun", "approval"}
  BY DEF Launches, LaunchesAtOnce, ApprovalGranted, Resumes, Cancelled
<1>4. ledger[j] = Linkage
  <2>1. CASE LaunchesAtOnce(t, j)
    <3>1. /\ c.pc[j] = "persistRun" /\ c.flight.task = AwaitedTask(j)
          /\ c.flight.reply \in {"ok", "noop"}
      BY <2>1 DEF LaunchesAtOnce, Resumes, Answered, WriteFailed
    <3>2. QED
      BY <1>1, <1>3, <3>1 DEF Lives, LinksFirst
  <2>2. CASE ApprovalGranted(t, j)
    BY <1>1, <1>3, <2>2 DEF ApprovalGranted, StaysLinked
  <2>3. QED
    BY <2>1, <2>2 DEF Launches
<1>5. launches[j] = 0 /\ j \in used
  <2>1. ~(launches[j] > 0)
    BY <1>1, <1>3 DEF Lives, Spent, Underway, Suspended, Showing
  <2>2. QED
    BY <1>1, <1>3, <2>1
<1>6. /\ launches' = [launches EXCEPT ![j] = @ + 1] /\ procs' = [procs EXCEPT ![j] = @ + 1]
      /\ Become(t, d)
  BY DEF Launches, LaunchesAtOnce, ApprovalGranted, Launched, Resumes
<1>7. client'[t] = d
  BY <1>1, <1>6 DEF Become
<1>8. /\ e \in Client /\ e.recovered = c.recovered /\ e.jobs = c.jobs
      /\ e.flight.body[j].st # "queued"
  BY <1>1, <1>2, <1>3 DEF StaysLinked
<1> HIDE DEF e
<1>9. /\ d.pc[j] = "harness" /\ d.flight = e.flight /\ d.recovered = c.recovered
      /\ d.jobs = c.jobs
  BY <1>8, SuspendAll DEF Suspended, Others
<1> HIDE DEF c, d
<1>10. c.recovered[j].st # "queued" /\ c.jobs[j].st # "queued"
  <2>1. c.boot = "ready"
    BY <1>1, <1>3 DEF ClientInv
  <2>2. QED
    BY <1>1, <1>3, <2>1 DEF Sound, Boots, ClientInv, RowMatches
<1>11. Spent(d, j, ledger[j])
  BY <1>2, <1>4, <1>8, <1>9, <1>10 DEF Spent, Underway
<1>12. QED
  BY <1>4, <1>5, <1>6, <1>7, <1>11 DEF c

(* What a step does to the jobs as the outside sees them                   *)
Stays == UNCHANGED <<used, launches, procs>>
Accepts(j) ==
    /\ j \notin used /\ launches[j] = 0 /\ used' = used \cup {j}
    /\ UNCHANGED <<ledger, launches, procs>>
Links(j) ==
    /\ j \in used /\ launches[j] = 0 /\ ledger[j] = Linkage
    /\ launches' = [launches EXCEPT ![j] = @ + 1] /\ procs' = [procs EXCEPT ![j] = @ + 1]
    /\ UNCHANGED <<ledger, used>>
Leaves(j) ==
    /\ procs[j] > 0 /\ procs' = [procs EXCEPT ![j] = @ - 1]
    /\ UNCHANGED <<ledger, used, launches>>

LEMMA HarnessLeaves ==
    ASSUME IInv, NEW t \in Tabs, NEW j \in Jobs, HarnessReturns(t, j)
    PROVE  Leaves(j)
<1>1. t \in Followers(j)
  BY DEF HarnessReturns, Followers
<1>2. IsFiniteSet(Followers(j))
  BY FS_Subset, TabsAssumption DEF Followers
<1>3. Cardinality(Followers(j)) \in Nat /\ Cardinality(Followers(j)) # 0
  BY <1>1, <1>2, FS_CardinalityType, FS_EmptySet
<1>4. procs[j] \in Nat /\ Cardinality(Followers(j)) <= procs[j]
  BY DEF IInv, TypeOK
<1>5. procs[j] > 0
  BY <1>3, <1>4
<1>6. QED
  BY <1>5 DEF Leaves, HarnessReturns

LEMMA OrphanLeaves ==
    ASSUME IInv, NEW j \in Jobs, OrphanExits(j)
    PROVE  Leaves(j) /\ client' = client
<1>1. Cardinality(Followers(j)) \in Nat
  BY FS_Subset, FS_CardinalityType, TabsAssumption DEF Followers
<1>2. procs[j] \in Nat
  BY DEF IInv, TypeOK
<1>3. QED
  BY <1>1, <1>2 DEF OrphanExits, Leaves

LEMMA RunnerKinds ==
    ASSUME LifeInv, NEW t \in Tabs, NEW j \in Jobs, RunnerStep(t, j) \/ UserDecides(t, j)
    PROVE  /\ ledger' = ledger
           /\ Stays \/ Leaves(j) \/ (Links(j) /\ Spent(client'[t], j, ledger[j]))
<1>1. IInv
  BY LifeFacts
<1>2. CASE HarnessReturns(t, j)
  BY <1>1, <1>2, HarnessLeaves DEF Leaves
<1>3. CASE Launches(t, j)
  BY <1>3, LaunchIsLinked DEF Links, Launches, LaunchesAtOnce, ApprovalGranted
<1>4. CASE RunPersisted(t, j) /\ ~Launches(t, j)
  <2>1. Settle(client[t]).jobs = client[t].jobs /\ Settle(client[t]).aborted = client[t].aborted
    BY LifeFacts, SettleAll
  <2>2. Cancelled(Settle(client[t]), j) <=> Cancelled(client[t], j)
    BY <2>1 DEF Cancelled
  <2>3. QED
    BY <1>4, <2>2 DEF RunPersisted, Launches, LaunchesAtOnce, Stays
<1>5. CASE ApprovalEnds(t, j)
  BY <1>5 DEF ApprovalEnds, runtime, Stays
<1>6. CASE OutcomePersisted(t, j) \/ Summarised(t, j) \/ EndPersisted(t, j)
  BY <1>6 DEF OutcomePersisted, Summarised, EndPersisted, runtime, Stays
<1>7. CASE \/ StartPersisted(t, j) \/ PolicyDecides(t, j) \/ WorktreeAdd(t, j)
           \/ WorktreeMade(t, j) \/ LinkPersisted(t, j) \/ Verified(t, j)
  BY <1>7 DEF StartPersisted, PolicyDecides, WorktreeAdd, WorktreeMade, LinkPersisted,
     Verified, runtime, Stays
<1>8. QED
  BY <1>2, <1>3, <1>4, <1>5, <1>6, <1>7 DEF RunnerStep, UserDecides, Launches

(* Every step is one of four kinds, and keeps what LifeInv says of jobs.   *)
LEMMA Kinds ==
    ASSUME LifeInv, ~LostAnswers, NEW t \in Tabs, Tabs = {t}, [Next]_vars
    PROVE  /\ Stays \/ \E j \in Jobs : Accepts(j) \/ Links(j) \/ Leaves(j)
           /\ \A j \in Jobs : Lives(client'[t], j, ledger'[j], launches'[j])
<1>1. /\ IInv /\ client \in [Tabs -> Client] /\ launches \in [Jobs -> Nat]
      /\ \A j \in Jobs : Lives(client[t], j, ledger[j], launches[j]) /\ launches[j] \in Nat
      /\ \A j \in Jobs \ used : launches[j] = 0
  BY LifeFacts DEF IInv, TypeOK
<1> DEFINE Goal == /\ Stays \/ \E j \in Jobs : Accepts(j) \/ Links(j) \/ Leaves(j)
                   /\ \A j \in Jobs : Lives(client'[t], j, ledger'[j], launches'[j])
<1>2. ASSUME UNCHANGED <<client, ledger, launches>>, Stays \/ \E j \in Jobs : Leaves(j) PROVE Goal
  BY <1>1, <1>2
<1>3. ASSUME UNCHANGED vars PROVE Goal
  BY <1>2, <1>3 DEF vars, Stays
<1>4. ASSUME NEW j \in Jobs, RevokeTrust(j) PROVE Goal
  BY <1>2, <1>4 DEF RevokeTrust, runtime, Stays
<1>5. ASSUME NEW j \in Jobs, OrphanExits(j) PROVE Goal
  BY <1>1, <1>2, <1>5, OrphanLeaves DEF Leaves
<1>6. ASSUME Stays, \A j \in Jobs : Lives(client'[t], j, ledger'[j], launches[j]) PROVE Goal
  BY <1>6 DEF Stays
<1>7. ASSUME Boot(t) \/ BootFail(t) PROVE Goal
  <2>1. Stays
    BY <1>7 DEF Boot, BootGet, BootMerge, BootFail, runtime, Stays
  <2>2. QED
    BY <1>6, <1>7, <2>1, BootLives
<1>8. ASSUME Reload(t) PROVE Goal
  <2>1. Stays
    BY <1>8 DEF Reload, Stays
  <2>2. QED
    BY <1>6, <1>8, <2>1, ReloadLives
<1>9. ASSUME ServerWrites(t) \/ WriteFault(t) PROVE Goal
  <2>1. Stays
    BY <1>9 DEF ServerWrites, WriteFault, Stays
  <2>2. QED
    BY <1>6, <1>9, <2>1, AnswerLives
<1>10. ASSUME WriteStarts(t) \/ NewJobPersisted(t) \/ UnawaitedPersisted(t) \/ SyncPersisted(t)
       PROVE  Goal
  <2>1. Stays /\ ledger' = ledger
    BY <1>10 DEF WriteStarts, NewJobPersisted, UnawaitedPersisted, SyncPersisted, runtime, Stays
  <2>2. QED
    BY <1>6, <1>10, <2>1, ChainLives
<1>11. ASSUME \/ \E k \in Jobs : Cancel(t, k)
              \/ \E n \in Limits : SetLimit(t, n)
              \/ ClearFinished(t) \/ EffectPump(t) \/ TimerFires(t)
       PROVE  Goal
  <2>1. Stays /\ ledger' = ledger
    BY <1>11 DEF Cancel, SetLimit, ClearFinished, EffectPump, TimerFires, runtime, Stays
  <2>2. QED
    BY <1>6, <1>11, <2>1, UserLives
<1>12. ASSUME NEW k \in Jobs, Enqueue(t, k) PROVE Goal
  <2>1. Accepts(k)
    BY <1>1, <1>12 DEF Enqueue, Accepts, runtime
  <2>2. \A j \in Jobs : Lives(client'[t], j, ledger[j], launches[j])
    BY <1>12, UserLives
  <2>3. QED
    BY <2>1, <2>2 DEF Accepts
<1>13. ASSUME NEW k \in Jobs, RunnerStep(t, k) \/ UserDecides(t, k) PROVE Goal
  <2>1. /\ ledger' = ledger
        /\ Stays \/ Leaves(k) \/ (Links(k) /\ Spent(client'[t], k, ledger[k]))
    BY <1>13, RunnerKinds
  <2>2. \A j \in Jobs : Lives(client'[t], j, ledger[j], launches[j])
    BY <1>13, RunnerLives
  <2>3. CASE Links(k) /\ Spent(client'[t], k, ledger[k])
    <3>1. \A j \in Jobs : j # k => launches'[j] = launches[j]
      BY <1>1, <2>3 DEF Links
    <3>2. \A j \in Jobs : Lives(client'[t], j, ledger'[j], launches'[j])
      BY <2>1, <2>2, <2>3, <3>1 DEF Lives
    <3>3. QED
      BY <2>3, <3>2
  <2>4. CASE Stays \/ Leaves(k)
    BY <2>1, <2>2, <2>4 DEF Stays, Leaves
  <2>5. QED
    BY <2>1, <2>3, <2>4
<1> HIDE DEF Goal
<1>14. Goal
  BY <1>3, <1>4, <1>5, <1>7, <1>8, <1>9, <1>10, <1>11, <1>12, <1>13 DEF Next, ChainStep
<1>15. QED
  BY <1>14 DEF Goal

-----------------------------------------------------------------------------
(* The linkage stays while a modal waits, when there is no client but t     *)

LEMMA LinkKept ==
    ASSUME NEW c, NEW d, NEW j \in Jobs, NEW r, StaysLinked(c, j, r),
           d.pc[j] = "approval" /\ j \notin d.aborted =>
               /\ c.pc[j] = "approval" /\ j \notin c.aborted /\ d.jobs[j] = c.jobs[j]
               /\ d.flight = c.flight \/ d.flight = NoFlight
    PROVE  StaysLinked(d, j, r)
<1>1. NoFlight.reply = "none" /\ NoFlight.body[j].st # "queued"
  BY NoJobsIsTyped DEF NoFlight
<1>2. QED
  BY <1>1 DEF StaysLinked

LEMMA BecameLinked ==
    ASSUME client \in [Tabs -> Client], NEW t \in Tabs, NEW d \in Client,
           Become(t, d) \/ BecomePumped(t, d),
           NEW j \in Jobs, NEW r, StaysLinked(d, j, r)
    PROVE  StaysLinked(client'[t], j, r)
<1>1. CASE Become(t, d)
  BY <1>1 DEF Become
<1>2. CASE BecomePumped(t, d)
  <2>1. PICK order \in Ascending(Startable(d)) : Become(t, RunJobs(d, Startable(d), order))
    BY <1>2 DEF BecomePumped
  <2> DEFINE e == RunJobs(d, Startable(d), order)
  <2>2. Pumps(d, e)
    BY RunJobsPumps
  <2> HIDE DEF e
  <2>3. StaysLinked(e, j, r)
    BY <2>2, LinkKept DEF Pumps
  <2>4. QED
    BY <2>1, <2>3 DEF Become, e
<1>3. QED
  BY <1>1, <1>2

(* A runner whose write failed does not come to ask.                       *)
LEMMA GivesUpUnasked ==
    ASSUME LifeInv, NEW t \in Tabs, NEW k \in Jobs, RunnerStep(t, k) \/ UserDecides(t, k),
           client[t].pc[k] = "persistRun", client'[t].pc[k] = "approval"
    PROVE  ~WriteFailed(t)
<1> DEFINE c == client[t]
           e == Settle(c)
           y == Cleanup(Patch(e, k, "failed"), k)
           d == Push(y, CurrentTask(k))
<1>1. /\ client \in [Tabs -> Client] /\ c \in Client
  BY LifeFacts
<1>2. RunPersisted(t, k)
  BY DEF RunnerStep, UserDecides, StartPersisted, PolicyDecides, WorktreeAdd, WorktreeMade,
     LinkPersisted, Verified, HarnessReturns, OutcomePersisted, Summarised, EndPersisted,
     ApprovalEnds, ApprovalGranted, Resumes
<1>3. SUFFICES ASSUME WriteFailed(t) PROVE FALSE
  OBVIOUS
<1>4. BecomePumped(t, d)
  BY <1>2, <1>3 DEF RunPersisted, GiveUp
<1>5. y \in Client /\ y.pc[k] = "idle"
  <2>1. e \in Client
    BY <1>1, SettleAll
  <2> HIDE DEF e
  <2>2. Patch(e, k, "failed") \in Client
    BY <2>1, PatchIsTyped, StatusSorts
  <2> HIDE DEF c
  <2>3. QED
    BY <2>2, CleanupAll DEF Others
<1> HIDE DEF y, c
<1>6. d \in Client /\ d.pc[k] = "idle"
  BY <1>5, TasksAreTyped, PushAll DEF Others
<1> HIDE DEF d
<1>7. PICK order \in Ascending(Startable(d)) : Become(t, RunJobs(d, Startable(d), order))
  BY <1>4 DEF BecomePumped
<1>8. RunJobs(d, Startable(d), order).pc[k] # "approval"
  BY <1>6, RunJobsPumps DEF Pumps
<1>9. QED
  BY <1>1, <1>7, <1>8 DEF Become

LEMMA RunnerLinks ==
    ASSUME LifeInv, NEW t \in Tabs, NEW k \in Jobs, RunnerStep(t, k) \/ UserDecides(t, k),
           NEW j \in Jobs
    PROVE  StaysLinked(client'[t], j, ledger[j])
<1> DEFINE c == client[t]
<1>1. /\ IInv /\ client \in [Tabs -> Client] /\ c \in Client /\ ClientInv(c) /\ Sound(c, used)
      /\ Lives(c, j, ledger[j], launches[j]) /\ StaysLinked(c, j, ledger[j])
      /\ \A i \in Jobs : Lives(c, i, ledger[i], launches[i])
  BY LifeFacts
<1>2. PICK e \in {c, Settle(c)} :
        /\ Makes(t, k, e)
        /\ \/ e = c /\ c.pc[k] \notin Awaiting
           \/ e = Settle(c) /\ Answered(c) /\ c.flight.task = AwaitedTask(k)
  <2>1. CASE Makes(t, k, c) /\ c.pc[k] \notin Awaiting
    BY <2>1
  <2>2. CASE Makes(t, k, Settle(c)) /\ Answered(c) /\ c.flight.task = AwaitedTask(k)
    BY <2>2
  <2>3. QED
    BY <1>1, <2>1, <2>2, RunnerMakes
<1>3. /\ e \in Client /\ e.jobs = c.jobs /\ e.pc = c.pc /\ e.aborted = c.aborted
      /\ e.flight = c.flight \/ e.flight = NoFlight
  BY <1>1, SettleAll
<1> HIDE DEF c
<1>4. PICK d : Moved(e, d, k) /\ (Become(t, d) \/ BecomePumped(t, d))
  BY <1>2 DEF Makes
<1>5. /\ d \in Client /\ d.flight = e.flight
      /\ \A i \in Jobs \ {k} : /\ d.jobs[i] = e.jobs[i] /\ d.pc[i] = e.pc[i]
                               /\ i \in d.aborted <=> i \in e.aborted
  BY <1>4 DEF Moved, Others
<1>6. CASE j # k
  <2>1. StaysLinked(d, j, ledger[j])
    BY <1>1, <1>3, <1>5, <1>6, LinkKept
  <2>2. QED
    BY <1>1, <1>4, <1>5, <2>1, BecameLinked
<1>7. CASE j = k
  <2>1. CASE d.pc[k] # "approval"
    <3>1. StaysLinked(d, j, ledger[j])
      BY <1>7, <2>1 DEF StaysLinked
    <3>2. QED
      BY <1>1, <1>4, <1>5, <3>1, BecameLinked
  <2>2. CASE d.pc[k] = "approval"
    <3>1. /\ c.pc[k] = "persistRun" /\ ~Cancelled(c, k) /\ d.jobs = c.jobs
          /\ c.pc[k] \in Awaiting
      BY <1>3, <1>4, <2>2 DEF Moved, Asks, Cancelled, Awaiting
    <3>2. e = Settle(c) /\ Answered(c) /\ c.flight.task = AwaitedTask(k)
      BY <1>2, <3>1
    <3>3. client'[t].pc[k] = "approval"
      <4>1. CASE Become(t, d)
        BY <1>1, <2>2, <4>1 DEF Become
      <4>2. CASE BecomePumped(t, d)
        <5>1. PICK order \in Ascending(Startable(d)) : Become(t, RunJobs(d, Startable(d), order))
          BY <4>2 DEF BecomePumped
        <5>2. Pumps(d, RunJobs(d, Startable(d), order))
          BY <1>5, RunJobsPumps
        <5>3. RunJobs(d, Startable(d), order).pc[k] = "approval"
          BY <2>2, <5>2 DEF Pumps
        <5>4. QED
          BY <1>1, <5>1, <5>3 DEF Become
      <4>3. QED
        BY <1>4, <4>1, <4>2
    <3>4. c.flight.reply = "ok" \/ c.flight.reply = "noop"
      BY <3>1, <3>2, <3>3, GivesUpUnasked DEF c, WriteFailed, Answered
    <3>5. k \notin c.aborted /\ c.jobs[k].st # "cancelled"
      BY <3>1 DEF Cancelled
    <3>6. ledger[k] = Linkage
      BY <1>1, <3>1, <3>2, <3>4, <3>5 DEF Lives, LinksFirst
    <3>7. c.jobs[k] = Linkage
      BY <1>1, <3>1, <3>5 DEF Sound, Unwinds, Showing, Lives, LinksFirst
    <3>8. d.flight = NoFlight /\ NoFlight.reply = "none" /\ NoFlight.body[k].st # "queued"
      BY <1>1, <1>5, <3>2, SettleAll, NoJobsIsTyped DEF NoFlight, c
    <3>9. StaysLinked(d, k, ledger[k])
      BY <3>1, <3>6, <3>7, <3>8 DEF StaysLinked
    <3>10. QED
      BY <1>1, <1>4, <1>5, <1>7, <3>9, BecameLinked
  <2>3. QED
    BY <2>1, <2>2
<1>8. QED
  BY <1>6, <1>7

LEMMA LinkStays ==
    ASSUME LifeInv, ~LostAnswers, NEW t \in Tabs, Tabs = {t}, [Next]_vars, NEW j \in Jobs
    PROVE  StaysLinked(client'[t], j, ledger'[j])
<1> DEFINE c == client[t]
           Goal == StaysLinked(client'[t], j, ledger'[j])
<1>1. /\ IInv /\ client \in [Tabs -> Client] /\ c \in Client /\ ClientInv(c) /\ Sound(c, used)
      /\ StaysLinked(c, j, ledger[j])
      /\ j \notin used => c.pc[j] = "idle"
  BY LifeFacts DEF Unknown
<1>2. ASSUME ledger' = ledger, NEW d \in Client, Become(t, d) \/ BecomePumped(t, d),
             d.pc[j] = "approval" /\ j \notin d.aborted =>
               /\ c.pc[j] = "approval" /\ j \notin c.aborted /\ d.jobs[j] = c.jobs[j]
               /\ d.flight = c.flight \/ d.flight = NoFlight
      PROVE  Goal
  BY <1>1, <1>2, LinkKept, BecameLinked
<1>3. ASSUME UNCHANGED <<client, ledger>> PROVE Goal
  BY <1>1, <1>3
<1>4. ASSUME c.boot # "ready", NEW d \in Client, Become(t, d) \/ BecomePumped(t, d), d.pc = c.pc
      PROVE  Goal
  <2>1. d.pc[j] # "approval"
    BY <1>1, <1>4 DEF ClientInv
  <2>2. StaysLinked(d, j, ledger'[j])
    BY <2>1 DEF StaysLinked
  <2>3. QED
    BY <1>1, <1>4, <2>2, BecameLinked
<1>5. ASSUME NEW k \in Jobs, Enqueue(t, k) PROVE Goal
  <2>1. PICK d : Enqueued(c, d, k) /\ Become(t, d)
    BY <1>1, <1>5, EnqueueMakes
  <2>2. c.pc[k] = "idle" \/ j # k
    BY <1>1, <1>5 DEF Enqueue
  <2>3. QED
    BY <1>2, <1>5, <2>1, <2>2 DEF Enqueued, Others, Enqueue, runtime
<1>6. ASSUME NEW k \in Jobs, Cancel(t, k) PROVE Goal
  <2>1. PICK d : Cancels(c, d, k) /\ BecomePumped(t, d)
    BY <1>1, <1>6, CancelMakes
  <2>2. QED
    BY <1>2, <1>6, <2>1 DEF Cancels, Others, Cancel, runtime
<1>7. ASSUME EffectPump(t) \/ \E n \in Limits : SetLimit(t, n) PROVE Goal
  <2>1. PICK d : /\ BecomePumped(t, d) /\ SameRunners(c, d)
                 /\ d.jobs = c.jobs /\ d.flight = c.flight /\ d.chain = c.chain
    BY <1>1, <1>7, PumpMakes
  <2>2. QED
    BY <1>2, <1>7, <2>1 DEF SameRunners, EffectPump, SetLimit, runtime
<1>8. ASSUME ClearFinished(t) PROVE Goal
  <2>1. PICK d : Clears(c, d) /\ Become(t, d)
    BY <1>1, <1>8, ClearFinishedMakes
  <2>2. c.pc[j] = "approval" /\ j \notin c.aborted => d.jobs[j] = c.jobs[j]
    BY <1>1, <2>1 DEF Clears, StaysLinked, Linkage, Terminal
  <2>3. QED
    BY <1>2, <1>8, <2>1, <2>2 DEF Clears, SameRunners, ClearFinished, runtime
<1>9. ASSUME TimerFires(t) PROVE Goal
  <2>1. PICK d : Ticks(c, d) /\ Become(t, d)
    BY <1>1, <1>9, TimerFiresMakes
  <2>2. QED
    BY <1>2, <1>9, <2>1 DEF Ticks, SameRunners, TimerFires, runtime
<1>10. ASSUME Boot(t) \/ BootFail(t) PROVE Goal
  <2>1. CASE BootMerge(t)
    <3>1. \E d : BecomePumped(t, d) /\ d \in Client /\ d.pc = c.pc
      BY <1>1, <2>1, BootMergeMakes DEF Merges
    <3>2. c.boot # "ready"
      BY <2>1 DEF BootMerge
    <3>3. QED
      BY <1>4, <3>1, <3>2
  <2>2. CASE BootGet(t) \/ BootFail(t)
    <3>1. \E d : Become(t, d) /\ d \in Client /\ d.pc = c.pc
      BY <1>1, <2>2, BootReadMakes DEF Reads
    <3>2. c.boot # "ready"
      BY <2>2 DEF BootGet, BootFail
    <3>3. QED
      BY <1>4, <3>1, <3>2
  <2>3. QED
    BY <1>10, <2>1, <2>2 DEF Boot
<1>11. ASSUME WriteStarts(t) PROVE Goal
  <2>1. PICK d : Sends(c, d) /\ Become(t, d)
    BY <1>1, <1>11, WriteStartsMakes
  <2>2. /\ d \in Client /\ d.pc = c.pc /\ d.jobs = c.jobs /\ d.aborted = c.aborted
    BY <2>1 DEF Sends, SameRunners
  <2> HIDE DEF c
  <2>3. ASSUME c.pc[j] = "approval", j \notin c.aborted
        PROVE  /\ d.flight.reply = "sent" /\ (d.flight.task = SyncTask \/ d.flight.task.job = j) =>
                    d.flight.body[j] = Linkage
               /\ d.flight.reply # "ok" /\ d.flight.body[j].st # "queued"
    <3>1. c.jobs[j] = Linkage
      BY <1>1, <2>3 DEF StaysLinked
    <3>2. NoJobs[j].st # "queued" /\ Linkage.st # "queued" /\ SyncTask.op = "sync"
      BY NoJobsIsTyped DEF Linkage, SyncTask
    <3>3. QED
      BY <2>1, <3>1, <3>2 DEF Sends
  <2>4. StaysLinked(d, j, ledger[j])
    BY <1>1, <2>2, <2>3 DEF StaysLinked
  <2>5. ledger' = ledger
    BY <1>11 DEF WriteStarts, runtime
  <2>6. QED
    BY <1>1, <2>1, <2>2, <2>4, <2>5, BecameLinked
<1>12. ASSUME UnawaitedPersisted(t) \/ SyncPersisted(t) PROVE Goal
  <2>1. PICK d : Settles(c, d) /\ Become(t, d)
    BY <1>1, <1>12, SyncPersistedMakes
  <2>2. ledger' = ledger
    BY <1>12 DEF UnawaitedPersisted, SyncPersisted, runtime
  <2>3. QED
    BY <1>2, <2>1, <2>2 DEF Settles, SameRunners
<1>13. ASSUME NewJobPersisted(t) PROVE Goal
  <2> DEFINE e == Settle(c)
             k == c.flight.task.job
  <2>1. /\ k \in Jobs
        /\ c.flight.task = NewTask(k)
        /\ \/ \E d : Refuses(e, d, k) /\ Become(t, d) /\ c.flight.reply = "error"
           \/ \E d : Remembers(e, d, k) /\ BecomePumped(t, d)
           \/ BecomePumped(t, e)
    BY <1>1, <1>13, NewJobPersistedMakes
  <2>2. /\ e \in Client /\ e.flight = NoFlight /\ e.jobs = c.jobs /\ e.pc = c.pc
        /\ e.aborted = c.aborted
    BY <1>1, SettleAll
  <2>3. ledger' = ledger
    BY <1>13 DEF NewJobPersisted, runtime
  <2> HIDE DEF e, c
  <2>4. ASSUME NEW d, Refuses(e, d, k), Become(t, d), c.flight.reply = "error" PROVE Goal
    <3>1. k \in Jobs => c.pc[k] = "idle"
      BY <1>1, <2>1, <2>4 DEF Queueing, Sound, Undecided
    <3>2. /\ d \in Client /\ d.flight = NoFlight /\ d.pc = c.pc /\ d.aborted = c.aborted
          /\ j # k => d.jobs[j] = c.jobs[j]
      BY <2>2, <2>4 DEF Refuses, Others
    <3>3. c.pc[j] = "approval" => j # k
      BY <2>1, <3>1
    <3>4. QED
      BY <1>1, <1>2, <2>3, <2>4, <3>2, <3>3 DEF c
  <2>5. ASSUME NEW d, Remembers(e, d, k), BecomePumped(t, d) PROVE Goal
    BY <1>2, <2>2, <2>3, <2>5 DEF Remembers, c
  <2>6. ASSUME BecomePumped(t, e) PROVE Goal
    BY <1>2, <2>2, <2>3, <2>6 DEF c
  <2>7. QED
    BY <2>1, <2>4, <2>5, <2>6
<1>14. ASSUME Reload(t) PROVE Goal
  <2>1. client'[t] = FreshClient(client[t].limit)
    BY <1>1, <1>14 DEF Reload, Become
  <2>2. FreshClient(client[t].limit).pc[j] = "idle"
    BY DEF FreshClient
  <2>3. QED
    BY <2>1, <2>2 DEF StaysLinked
<1>15. ASSUME ServerWrites(t) \/ WriteFault(t) PROVE Goal
  <2>1. PICK a \in {"ok", "error"} : /\ Answer(t, a) /\ c.flight.reply = "sent"
                                    /\ IF a = "ok" THEN ledger' = Written(c.flight) ELSE ledger' = ledger
    BY <1>15 DEF ServerWrites, WriteFault
  <2>2. a \in Reply /\ a # "sent" /\ a # "noop"
    BY DEF Reply
  <2>3. PICK d : Answers(c, d, a) /\ Become(t, d)
    BY <1>1, <2>1, <2>2, AnswerMakes
  <2>4. /\ d \in Client /\ d.pc = c.pc /\ d.jobs = c.jobs /\ d.aborted = c.aborted
        /\ d.flight.task = c.flight.task /\ d.flight.body = c.flight.body /\ d.flight.reply = a
    BY <2>3 DEF Answers, SameRunners
  <2>5. ASSUME c.pc[j] = "approval", j \notin c.aborted
        PROVE  /\ ledger'[j] = Linkage
               /\ d.flight.reply = "ok" /\ d.flight.task = SyncTask => d.flight.body[j] = Linkage
    <3>1. /\ ledger[j] = Linkage
          /\ c.flight.task = SyncTask \/ c.flight.task.job = j => c.flight.body[j] = Linkage
      BY <1>1, <2>1, <2>5 DEF StaysLinked
    <3>2. \/ Written(c.flight)[j] = ledger[j]
          \/ /\ Written(c.flight)[j] = c.flight.body[j]
             /\ c.flight.task = SyncTask \/ c.flight.task.job = j
      <4>1. ledger \in JobMap /\ c.flight.task \in Task
        BY <1>1 DEF IInv, TypeOK, Client, Flight
      <4>2. c.flight.task.op = "sync" => c.flight.task = SyncTask
        BY <4>1, TaskSorts
      <4>3. QED
        BY <4>1, <4>2 DEF Written, JobMap
    <3>3. QED
      BY <2>1, <2>4, <3>1, <3>2
  <2>6. StaysLinked(d, j, ledger'[j])
    BY <1>1, <2>2, <2>4, <2>5 DEF StaysLinked
  <2>7. QED
    BY <1>1, <2>3, <2>4, <2>6, BecameLinked
<1>16. ASSUME NEW k \in Jobs, RunnerStep(t, k) \/ UserDecides(t, k) PROVE Goal
  BY <1>16, RunnerLinks, RunnerKinds
<1>17. ASSUME UNCHANGED vars \/ \E k \in Jobs : RevokeTrust(k) \/ OrphanExits(k) PROVE Goal
  BY <1>3, <1>17 DEF vars, RevokeTrust, OrphanExits, runtime
<1> HIDE DEF Goal
<1>18. Goal
  BY <1>5, <1>6, <1>7, <1>8, <1>9, <1>10, <1>11, <1>12, <1>13, <1>14, <1>15, <1>16, <1>17
     DEF Next, ChainStep
<1>19. QED
  BY <1>18 DEF Goal

LEMMA LifeStep ==
    ASSUME LifeInv, ~LostAnswers, NEW t \in Tabs, Tabs = {t}, [Next]_vars
    PROVE  LifeInv'
<1>1. OutcomeInv'
  BY OutcomeStep DEF LifeInv
<1>2. \A u \in Tabs, j \in Jobs : /\ Lives(client'[u], j, ledger'[j], launches'[j])
                                 /\ StaysLinked(client'[u], j, ledger'[j])
  BY Kinds, LinkStays
<1>3. \A j \in Jobs \ used' : launches'[j] = 0
  <2>1. launches \in [Jobs -> Nat] /\ \A j \in Jobs \ used : launches[j] = 0
    BY LifeFacts DEF IInv, TypeOK, LifeInv
  <2>2. Stays \/ \E j \in Jobs : Accepts(j) \/ Links(j) \/ Leaves(j)
    BY Kinds
  <2>3. QED
    BY <2>1, <2>2 DEF Stays, Accepts, Links, Leaves
<1>4. QED
  BY <1>1, <1>2, <1>3 DEF LifeInv

LEMMA InitialLife == Init => LifeInv
<1> SUFFICES ASSUME Init PROVE LifeInv
  OBVIOUS
<1>1. OutcomeInv
  BY InitialOutcomes
<1>2. \A j \in Jobs : launches[j] = 0 /\ ledger[j].st # "queued"
  BY NoJobsIsTyped DEF Init
<1>3. ASSUME NEW t \in Tabs, NEW j \in Jobs
      PROVE  /\ Lives(client[t], j, ledger[j], launches[j])
             /\ StaysLinked(client[t], j, ledger[j])
  <2>1. PICK l \in Limits : client[t] = FreshClient(l)
    BY DEF Init
  <2>2. FreshClient(l).pc[j] = "idle"
    BY DEF FreshClient
  <2>3. QED
    BY <1>2, <2>1, <2>2, FreshLives DEF StaysLinked
<1>4. QED
  BY <1>1, <1>2, <1>3 DEF LifeInv

-----------------------------------------------------------------------------
(* The refinement mapping                                                  *)

phases == [j \in Jobs |-> PhaseOf(j)]
records == [j \in Jobs |-> RecordOf(ledger[j])]

LEMMA RecordKinds ==
    /\ \A r : RecordOf(r) \in {"none", "startable", "linked", "kept"}
    /\ \A r : RecordOf(r) = "startable" <=> r.st = "queued"
    /\ \A r : r.st = "absent" => RecordOf(r) = "none"
    /\ RecordOf(Linkage) = "linked"
  BY DEF RecordOf, Linkage

(* A write of the ledger, or nothing, when no agent starts or ends         *)
LEMMA StaysSaves ==
    ASSUME LifeInv, LifeInv', Tabs # {}, Stays
    PROVE  Lifecycle!Save
<1>1. phases' = phases
  BY DEF Stays, phases, PhaseOf
<1>2. records' \in [Jobs -> {"none", "startable", "linked", "kept"}]
  BY RecordKinds DEF records
<1>3. ASSUME NEW j \in Jobs, records'[j] # records[j]
      PROVE  /\ phases[j] # "unknown"
             /\ records'[j] = "startable" => phases[j] = "waiting"
  <2>1. records'[j] = RecordOf(ledger'[j]) /\ records[j] = RecordOf(ledger[j])
    BY DEF records
  <2>2. j \in used
    <3>1. j \notin used => ledger[j].st = "absent" /\ ledger'[j].st = "absent"
      BY DEF Stays, LifeInv, OutcomeInv, IInv
    <3>2. QED
      BY <1>3, <2>1, <3>1, RecordKinds
  <2>3. phases[j] # "unknown"
    <3>1. launches[j] \in Nat /\ procs[j] \in Nat
      BY DEF LifeInv, OutcomeInv, IInv, TypeOK
    <3>2. (launches[j] = 0 \/ launches[j] > 0) /\ (procs[j] = 0 \/ procs[j] > 0)
      BY <3>1
    <3>3. QED
      BY <2>2, <3>2 DEF phases, PhaseOf
  <2>4. ASSUME records'[j] = "startable" PROVE phases[j] = "waiting"
    <3>1. ledger'[j].st = "queued"
      BY <2>1, <2>4, RecordKinds
    <3>2. launches'[j] \in Nat /\ launches'[j] = launches[j]
      BY DEF Stays, LifeInv, OutcomeInv, IInv, TypeOK
    <3>3. ~(launches'[j] > 0)
      <4>1. \A u \in Tabs : Lives(client'[u], j, ledger'[j], launches'[j])
        BY DEF LifeInv
      <4>2. QED
        BY <3>1, <4>1 DEF Lives, Spent
    <3>4. launches[j] = 0
      BY <3>2, <3>3
    <3>5. QED
      BY <2>2, <3>4 DEF phases, PhaseOf
  <2>5. QED
    BY <2>3, <2>4
<1>4. QED
  BY <1>1, <1>2, <1>3 DEF Lifecycle!Save, Lifecycle!Record, phases, records

LEMMA StepRefines ==
    ASSUME LifeInv, LifeInv', Tabs # {},
           Stays \/ \E j \in Jobs : Accepts(j) \/ Links(j) \/ Leaves(j)
    PROVE  [Lifecycle!Next]_(Lifecycle!vars)
<1>1. /\ launches \in [Jobs -> Nat] /\ procs \in [Jobs -> Nat]
      /\ phases = [k \in Jobs |-> phases[k]]
  BY DEF LifeInv, OutcomeInv, IInv, TypeOK, phases
<1>2. CASE Stays
  BY <1>2, StaysSaves DEF Lifecycle!Next
<1>3. ASSUME NEW j \in Jobs, Accepts(j) PROVE Lifecycle!Accept(j)
  <2>1. records' = records
    BY <1>3 DEF Accepts, records
  <2>2. phases[j] = "unknown" /\ phases'[j] = "waiting"
    BY <1>3 DEF Accepts, phases, PhaseOf
  <2>3. \A k \in Jobs \ {j} : phases'[k] = phases[k]
    <3>1. /\ \A k \in Jobs \ {j} : k \in used' <=> k \in used
          /\ launches' = launches /\ procs' = procs
      BY <1>3 DEF Accepts
    <3>2. \A k \in Jobs \ {j} : PhaseOf(k)' = PhaseOf(k)
      BY <3>1 DEF PhaseOf
    <3>3. QED
      BY <3>2 DEF phases
  <2>4. phases' = [phases EXCEPT ![j] = "waiting"]
    BY <2>2, <2>3 DEF phases
  <2>5. QED
    BY <2>1, <2>2, <2>4 DEF Lifecycle!Accept, phases, records
<1>4. ASSUME NEW j \in Jobs, Links(j) PROVE Lifecycle!Launch(j)
  <2>1. records' = records /\ records[j] = "linked"
    BY <1>4, RecordKinds DEF Links, records
  <2>2. phases[j] = "waiting"
    BY <1>4 DEF Links, phases, PhaseOf
  <2>3. phases'[j] = "running"
    <3>1. /\ launches'[j] > 0 /\ procs'[j] > 0 /\ j \in used' /\ launches'[j] # 0
      BY <1>1, <1>4 DEF Links
    <3>2. QED
      BY <3>1 DEF phases, PhaseOf
  <2>4. \A k \in Jobs \ {j} : phases'[k] = phases[k]
    <3>1. \A k \in Jobs \ {j} : launches'[k] = launches[k] /\ procs'[k] = procs[k]
      BY <1>1, <1>4 DEF Links
    <3>2. QED
      BY <1>4, <3>1 DEF Links, phases, PhaseOf
  <2>5. phases' = [phases EXCEPT ![j] = "running"]
    BY <2>3, <2>4 DEF phases
  <2>6. QED
    BY <2>1, <2>2, <2>5 DEF Lifecycle!Launch, phases, records
<1>5. ASSUME NEW j \in Jobs, Leaves(j) PROVE Lifecycle!Exit(j) \/ UNCHANGED Lifecycle!vars
  <2>1. records' = records
    BY <1>5 DEF Leaves, records
  <2>2. \A k \in Jobs \ {j} : phases'[k] = phases[k]
    <3>1. \A k \in Jobs \ {j} : procs'[k] = procs[k]
      BY <1>1, <1>5 DEF Leaves
    <3>2. QED
      BY <1>5, <3>1 DEF Leaves, phases, PhaseOf
  <2>3. procs'[j] \in Nat /\ procs[j] > 0
    BY <1>1, <1>5 DEF Leaves
  <2>4. CASE j \in used /\ launches[j] > 0 /\ procs'[j] = 0
    <3>1. launches[j] # 0 /\ launches[j] \in Nat
      BY <1>1, <2>4
    <3>2. phases[j] = "running"
      BY <2>3, <2>4, <3>1 DEF phases, PhaseOf
    <3>3. phases'[j] = "over"
      BY <1>5, <2>4, <3>1 DEF Leaves, phases, PhaseOf
    <3>4. phases' = [phases EXCEPT ![j] = "over"]
      BY <2>2, <3>3 DEF phases
    <3>5. QED
      BY <2>1, <3>2, <3>4 DEF Lifecycle!Exit, phases, records
  <2>5. CASE ~(j \in used /\ launches[j] > 0 /\ procs'[j] = 0)
    <3>1. procs'[j] > 0 \/ j \notin used \/ launches[j] = 0
      BY <1>1, <2>3, <2>5
    <3>2. phases'[j] = phases[j]
      <4>1. CASE j \notin used
        BY <1>5, <4>1 DEF Leaves, phases, PhaseOf
      <4>2. CASE j \in used /\ launches[j] = 0
        BY <1>5, <4>2 DEF Leaves, phases, PhaseOf
      <4>3. CASE j \in used /\ launches[j] # 0 /\ procs'[j] > 0
        <5>1. launches[j] > 0
          BY <1>1, <4>3
        <5>2. QED
          BY <1>5, <2>3, <4>3, <5>1 DEF Leaves, phases, PhaseOf
      <4>4. QED
        BY <3>1, <4>1, <4>2, <4>3
    <3>3. phases' = phases
      BY <2>2, <3>2 DEF phases
    <3>4. QED
      BY <2>1, <3>3 DEF Lifecycle!vars, phases, records
  <2>6. QED
    BY <2>4, <2>5
<1>6. QED
  BY <1>2, <1>3, <1>4, <1>5 DEF Lifecycle!Next

(* With one client, and as long as a written ledger is acknowledged, the   *)
(* runner, its write chain and its reloads implement the lifecycle of jobs: *)
(* the linkage is durable before runHarness is called (background-runner.ts *)
(* :599), and nothing that was launched is ever startable again.           *)
THEOREM RunnerImplementsLifecycle ==
    ASSUME ~LostAnswers, NEW t \in Tabs, Tabs = {t}
    PROVE  Spec => ImplementsLifecycle
<1>1. Init => LifeInv
  BY InitialLife
<1>2. LifeInv /\ [Next]_vars => LifeInv'
  BY LifeStep
<1>3. Init => Lifecycle!Init
  <2> SUFFICES ASSUME Init PROVE Lifecycle!Init
    OBVIOUS
  <2>1. \A j \in Jobs : j \notin used /\ ledger[j].st = "absent" /\ ~(launches[j] > 0)
    BY NoJobsIsTyped DEF Init
  <2>2. /\ \A j \in Jobs : PhaseOf(j) = "unknown"
        /\ \A j \in Jobs : RecordOf(ledger[j]) = "none"
    <3>1. \A j \in Jobs : PhaseOf(j) = "unknown"
      BY <2>1 DEF PhaseOf
    <3>2. QED
      BY <2>1, <3>1, RecordKinds
  <2>3. QED
    BY <2>2 DEF Lifecycle!Init
<1>4. LifeInv /\ LifeInv' /\ [Next]_vars => [Lifecycle!Next]_(Lifecycle!vars)
  BY Kinds, StepRefines
<1>5. QED
  BY <1>1, <1>2, <1>3, <1>4, PTL DEF Spec, ImplementsLifecycle, Lifecycle!Spec

-----------------------------------------------------------------------------
(* How far a record got                                                    *)

LEMMA Levels ==
    ASSUME NEW q \in JobRecord
    PROVE  /\ Level(q) \in {0, 1, 2, 3}
           /\ Level(q) = 0 <=> q.st = "absent" \/ q.link # "session"
           /\ Level(q) = 1 <=> q = Linkage
           /\ q.st \in Terminal /\ q.link = "session" =>
                Level(q) = IF q.st = "completed" THEN 2 ELSE 3
<1>1. q = [st |-> q.st, link |-> q.link]
  BY DEF JobRecord
<1>2. "running" \notin Terminal /\ "absent" \notin Terminal
  BY DEF Terminal
<1>3. QED
  BY <1>1, <1>2 DEF Level, Linkage

LEMMA FixedLevels ==
    /\ Linkage \in JobRecord /\ Level(Linkage) = 1
    /\ Linkage.st = "running" /\ Linkage.link = "session"
    /\ Absent \in JobRecord /\ Absent.st = "absent" /\ Level(Absent) = 0
    /\ \A j \in Jobs : NoJobs[j] = Absent
    /\ Linkage.st \in Active /\ Linkage.st \notin Terminal /\ Linkage # Absent
  BY DEF Level, Linkage, Absent, NoJobs, JobRecord, Status, Active, InFlight, Link, Terminal

LEMMA RowsAreRecords ==
    ASSUME NEW c \in Client, NEW j \in Jobs
    PROVE  /\ c.jobs[j] \in JobRecord /\ c.recovered[j] \in JobRecord
           /\ c.flight.body[j] \in JobRecord /\ c.lastPut[j] \in JobRecord
  BY DEF Client, Flight, JobMap

-----------------------------------------------------------------------------
(* SettleInv for one job of the client                                     *)

(* What SettleInv says of job j of client c, of its record r in the ledger *)
(* and its n launches; u tells whether the id was handed out.              *)
Keeping(c, j, r, n, u) ==
    /\ Ordered(c, j, r)
    /\ c.jobs[j] = Linkage => Shown(c, j)
    /\ ~u => c.lastPut[j].st = "absent"
    /\ n > 0 => Saved(c, j, r) /\ Forgotten(c, j, r) /\ ~Queueing(c, j)

(* The fields of the boot, the ledger writes and the snapshots are kept,   *)
(* a timer that is armed stays armed and the chain only grows by T.        *)
Goes(c, d, T) ==
    /\ d.boot = c.boot /\ d.recovered = c.recovered /\ d.flight = c.flight
    /\ d.lastPut = c.lastPut /\ Lengthens(c, d, T)
    /\ c.timer => d.timer

LEMMA StillShown ==
    ASSUME NEW c \in Client, NEW d \in Client, NEW T, NEW j,
           d.flight = c.flight, d.lastPut = c.lastPut, c.timer => d.timer, Lengthens(c, d, T),
           d.jobs[j] = c.jobs[j], Shown(c, j)
    PROVE  Shown(d, j)
<1>1. /\ Len(c.chain) \in Nat /\ DOMAIN c.chain = 1..Len(c.chain)
      /\ Len(d.chain) \in Nat /\ DOMAIN d.chain = 1..Len(d.chain)
  BY ChainIsSeq
<1>2. (\E i \in DOMAIN c.chain : c.chain[i] = SyncTask) => \E i \in DOMAIN d.chain : d.chain[i] = SyncTask
  <2>1. \A i \in DOMAIN c.chain : i \in DOMAIN d.chain /\ d.chain[i] = c.chain[i]
    BY <1>1 DEF Lengthens
  <2>2. QED
    BY <2>1
<1>3. QED
  BY <1>2 DEF Shown, Snapping

(* The row of the job is left as it was.                                   *)
LEMMA RowStays ==
    ASSUME NEW c \in Client, NEW d \in Client, NEW T, Goes(c, d, T),
           NEW j \in Jobs, NewTask(j) \notin T, NEW r, NEW n, NEW u,
           d.jobs[j] = c.jobs[j],
           d.pc[j] \in Preparing => c.pc[j] \in Preparing,
           d.pc[j] # "idle" => c.pc[j] # "idle",
           c.boot = "ready" \/ ((\A x \in T : x.job # j) /\ (j \in d.durable <=> j \in c.durable)),
           Keeping(c, j, r, n, u)
    PROVE  Keeping(d, j, r, n, u)
<1>1. /\ d.boot = c.boot /\ d.recovered = c.recovered /\ d.flight = c.flight
      /\ d.lastPut = c.lastPut /\ Lengthens(c, d, T)
  BY DEF Goes
<1>2. Shown(c, j) => Shown(d, j)
  BY <1>1, StillShown DEF Goes
<1>3. Ordered(d, j, r)
  BY <1>1 DEF Keeping, Ordered, Snapping
<1>4. /\ Queueing(d, j) <=> Queueing(c, j)
      /\ c.boot = "ready" \/ (Untouched(c, j) => Untouched(d, j))
  BY <1>1, LongerChain DEF Untouched
<1>5. ASSUME n > 0 PROVE Saved(d, j, r) /\ Forgotten(d, j, r) /\ ~Queueing(d, j)
  <2>1. Saved(c, j, r) /\ Forgotten(c, j, r) /\ ~Queueing(c, j)
    BY <1>5 DEF Keeping
  <2>2. Saved(d, j, r)
    BY <1>1, <1>2, <2>1 DEF Saved, Carries
  <2>3. Forgotten(d, j, r)
    BY <1>1, <1>4, <2>1 DEF Forgotten
  <2>4. QED
    BY <1>4, <2>1, <2>2, <2>3
<1>6. QED
  BY <1>1, <1>2, <1>3, <1>5 DEF Keeping

(* The row goes from a to b: it is there, and goes no step back.           *)
Rises(a, b) ==
    /\ a.st # "absent" /\ b.st # "absent" /\ Level(a) <= Level(b)
    /\ b.st = "queued" => Level(b) = 0

LEMMA RowRises ==
    ASSUME NEW c \in Client, NEW d \in Client, NEW T, Goes(c, d, T),
           NEW j \in Jobs, NewTask(j) \notin T, NEW r \in JobRecord, NEW n, NEW u,
           Rises(c.jobs[j], d.jobs[j]),
           d.pc[j] \in Preparing \/ c.boot # "ready" => Level(d.jobs[j]) = 0,
           d.jobs[j] = Linkage => d.timer,
           n > 0 => /\ c.boot = "ready" => d.timer
                    /\ d.jobs[j].st \in Terminal /\ d.jobs[j].link = c.jobs[j].link
                    /\ d.pc[j] # "idle" => c.pc[j] # "idle"
                    /\ \/ c.jobs[j].st \in Active
                       \/ /\ c.pc[j] # "idle" /\ c.jobs[j].st = "completed"
                          /\ d.jobs[j].st # "completed",
           Keeping(c, j, r, n, u)
    PROVE  Keeping(d, j, r, n, u)
<1>1. /\ d.boot = c.boot /\ d.recovered = c.recovered /\ d.flight = c.flight
      /\ d.lastPut = c.lastPut /\ Lengthens(c, d, T)
  BY DEF Goes
<1>2. /\ c.jobs[j] \in JobRecord /\ d.jobs[j] \in JobRecord /\ c.recovered[j] \in JobRecord
      /\ c.flight.body[j] \in JobRecord /\ c.lastPut[j] \in JobRecord
  BY RowsAreRecords
<1>3. /\ Level(c.jobs[j]) \in Nat /\ Level(d.jobs[j]) \in Nat /\ Level(c.recovered[j]) \in Nat
      /\ Level(c.flight.body[j]) \in Nat /\ Level(c.lastPut[j]) \in Nat /\ Level(r) \in Nat
  BY <1>2, Levels
<1>4. Ordered(d, j, r)
  <2>1. \A q \in {r, d.jobs[j], d.recovered[j], d.flight.body[j]} : q.st = "queued" => Level(q) = 0
    BY <1>1 DEF Keeping, Ordered, Rises
  <2>2. \A q \in {r, d.recovered[j], d.flight.body[j], d.lastPut[j]} : Level(q) <= Level(d.jobs[j])
    <3>1. \A q \in {r, c.recovered[j], c.flight.body[j], c.lastPut[j]} :
            Level(q) <= Level(c.jobs[j]) /\ Level(q) \in Nat
      BY <1>3 DEF Keeping, Ordered, Rises
    <3>2. Level(c.jobs[j]) <= Level(d.jobs[j])
      BY DEF Rises
    <3>3. QED
      BY <1>1, <1>3, <3>1, <3>2
  <2>3. /\ Snapping(d) => Level(d.lastPut[j]) <= Level(d.flight.body[j])
        /\ d.boot # "ready" => Level(d.flight.body[j]) = 0
        /\ d.boot = "fetching" => Level(r) <= Level(d.recovered[j])
    BY <1>1 DEF Keeping, Ordered, Rises, Snapping
  <2>4. QED
    BY <1>1, <2>1, <2>2, <2>3 DEF Ordered
<1>5. ASSUME n > 0 PROVE Saved(d, j, r) /\ Forgotten(d, j, r) /\ ~Queueing(d, j)
  <2>1. Saved(c, j, r) /\ Forgotten(c, j, r) /\ ~Queueing(c, j)
    BY <1>5 DEF Keeping
  <2>2. c.boot = "ready" /\ c.jobs[j].st # "absent"
    BY <2>1 DEF Forgotten, Rises
  <2>3. Level(c.jobs[j]) < Level(d.jobs[j]) /\ d.jobs[j].link = "session"
    <3>1. CASE c.jobs[j].st \in Active
      <4>1. c.jobs[j] = Linkage
        BY <2>1, <2>2, <3>1 DEF Saved
      <4>2. Level(d.jobs[j]) \in {2, 3} /\ Level(c.jobs[j]) = 1 /\ d.jobs[j].link = "session"
        BY <1>2, <1>5, <4>1, Levels, FixedLevels
      <4>3. QED
        BY <4>2
    <3>2. CASE /\ c.pc[j] # "idle" /\ c.jobs[j].st = "completed" /\ d.jobs[j].st # "completed"
      <4>1. c.jobs[j].link = "session" /\ c.jobs[j].st \in Terminal
        BY <2>1, <2>2, <3>2 DEF Saved, Terminal
      <4>2. Level(d.jobs[j]) = 3 /\ Level(c.jobs[j]) = 2
        BY <1>2, <1>5, <3>2, <4>1, Levels
      <4>3. QED
        BY <1>5, <4>1, <4>2
    <3>3. QED
      BY <1>5, <3>1, <3>2
  <2>4. d.timer /\ d.jobs[j].st \notin Active
    BY <1>5, <2>2, StatusSorts
  <2>5. \A q \in {r, c.flight.body[j], c.lastPut[j]} : Level(q) < Level(d.jobs[j]) /\ q # d.jobs[j]
    <3>1. \A q \in {r, c.flight.body[j], c.lastPut[j]} : Level(q) <= Level(c.jobs[j])
      BY <2>2 DEF Keeping, Ordered
    <3>2. QED
      BY <1>3, <2>3, <3>1
  <2>6. d.flight.task = SyncTask /\ d.flight.reply = "ok" => r = d.flight.body[j]
    BY <1>1, <2>1, <2>2 DEF Saved
  <2>7. Saved(d, j, r)
    BY <1>1, <2>3, <2>4, <2>5, <2>6 DEF Saved, Shown
  <2>8. ~Queueing(d, j)
    BY <1>1, <2>1, LongerChain
  <2>9. QED
    BY <1>1, <2>2, <2>7, <2>8 DEF Forgotten
<1>6. QED
  BY <1>1, <1>4, <1>5 DEF Keeping, Shown

(* The row is gone.                                                        *)
LEMMA RowGoes ==
    ASSUME NEW c \in Client, NEW d \in Client,
           d.boot = c.boot, d.recovered = c.recovered, d.flight = c.flight,
           d.lastPut = c.lastPut, d.chain = c.chain, d.durable = c.durable,
           NEW j \in Jobs, d.jobs[j] = Absent, NEW r, NEW n, NEW u,
           Keeping(c, j, r, n, u)
    PROVE  Keeping(d, j, r, n, u)
<1>1. d.jobs[j].st = "absent" /\ Level(d.jobs[j]) = 0 /\ d.jobs[j] # Linkage
  BY FixedLevels
<1>2. Ordered(d, j, r)
  BY <1>1 DEF Keeping, Ordered
<1>3. n > 0 => Saved(d, j, r) /\ Forgotten(d, j, r) /\ ~Queueing(d, j)
  BY <1>1 DEF Keeping, Saved, Forgotten, Untouched, Queueing
<1>4. QED
  BY <1>1, <1>2, <1>3 DEF Keeping

-----------------------------------------------------------------------------
(* What each operation on a client keeps, job by job                       *)

(* An answer that brings no snapshot is taken off the chain.               *)
LEMMA SettleSettles ==
    ASSUME NEW c \in Client, c.flight.task # SyncTask \/ c.flight.reply \notin {"ok", "error"},
           c.flight.reply # "sent",
           NEW d, d.flight = NoFlight, d.boot = c.boot, d.recovered = c.recovered,
           d.jobs = c.jobs, d.pc = c.pc, d.durable = c.durable, d.chain = c.chain,
           d.lastPut = c.lastPut, c.timer => d.timer,
           NEW j \in Jobs, NEW r \in JobRecord, NEW n, NEW u, Keeping(c, j, r, n, u)
    PROVE  Keeping(d, j, r, n, u)
<1>1. /\ d.flight.task = SyncTask /\ d.flight.reply = "none" /\ d.flight.body[j] = Absent
      /\ SyncTask.job # j /\ SyncTask # NewTask(j)
  BY FixedLevels, TasksDiffer DEF NoFlight
<1>2. ~Snapping(d) /\ ~Carries(d, j) /\ ~Snapping(c)
  BY <1>1 DEF Snapping, Carries
<1>3. /\ Level(Absent) = 0 /\ Absent.st # "queued"
      /\ Level(c.jobs[j]) \in {0, 1, 2, 3}
  BY RowsAreRecords, Levels, FixedLevels
<1>4. Ordered(d, j, r)
  <2>1. Level(Absent) <= Level(c.jobs[j])
    BY <1>3
  <2>2. QED
    BY <1>1, <1>2, <1>3, <2>1 DEF Keeping, Ordered
<1>5. Shown(c, j) => Shown(d, j)
  BY <1>2 DEF Shown
<1>6. ASSUME n > 0 PROVE Saved(d, j, r) /\ Forgotten(d, j, r) /\ ~Queueing(d, j)
  <2>1. Saved(c, j, r) /\ Forgotten(c, j, r) /\ ~Queueing(c, j)
    BY <1>6 DEF Keeping
  <2>2. Saved(d, j, r)
    BY <1>1, <1>2, <1>5, <2>1 DEF Saved
  <2>3. Forgotten(d, j, r) /\ ~Queueing(d, j)
    BY <1>1, <2>1 DEF Forgotten, Untouched, Queueing
  <2>4. QED
    BY <2>2, <2>3
<1>7. QED
  BY <1>4, <1>5, <1>6 DEF Keeping

(* A row that ends, with the link it has                                   *)
LEMMA EndingRises ==
    ASSUME NEW a \in JobRecord, NEW b \in JobRecord, a.st # "absent",
           b.st \in Terminal, b.link = a.link, b.st = "completed" => a.st = "running"
    PROVE  /\ Rises(a, b) /\ b # Linkage /\ b # Absent
           /\ Level(a) = 0 => Level(b) = 0
<1>1. b.st # "queued" /\ b.st # "absent" /\ b # Linkage /\ b # Absent
  BY FixedLevels, StatusSorts
<1>2. Level(a) = 0 => Level(b) = 0
  BY Levels
<1>3. Level(a) <= Level(b)
  <2>1. CASE a.link = "session" /\ b.st = "completed"
    <3>1. a = Linkage
      BY <2>1 DEF JobRecord, Linkage
    <3>2. QED
      BY <2>1, <3>1, Levels, FixedLevels
  <2>2. CASE a.link = "session" /\ b.st # "completed"
    BY <2>2, Levels
  <2>3. CASE a.link # "session"
    BY <2>3, Levels
  <2>4. QED
    BY <2>1, <2>2, <2>3
<1>4. QED
  BY <1>1, <1>2, <1>3 DEF Rises

(* Runner k moved.                                                         *)
LEMMA MovedSettles ==
    ASSUME NEW c \in Client, ClientInv(c), NEW k \in Jobs, NEW d, Moved(c, d, k), Unwinds(c, k),
           NEW j \in Jobs, NEW r \in JobRecord, NEW n, NEW u,
           n > 0 => Spent(c, j, r), Keeping(c, j, r, n, u)
    PROVE  Keeping(d, j, r, n, u)
<1> DEFINE T == {CurrentTask(k), AwaitedTask(k)}
<1>1. /\ d \in Client /\ Goes(c, d, T) /\ d.durable = c.durable
      /\ \A i \in Jobs \ {k} : d.jobs[i] = c.jobs[i] /\ d.pc[i] = c.pc[i]
  BY DEF Moved, Others, Goes
<1>2. NewTask(j) \notin T
  BY TasksDiffer
<1>3. c.boot = "ready"
  BY DEF Moved, ClientInv
<1>4. Rewrites(c, d, k) /\ c.pc[k] # "idle"
  BY DEF Moved
<1> HIDE DEF T
<1>5. CASE d.jobs[j] = c.jobs[j]
  <2>1. d.pc[j] \in Preparing => c.pc[j] \in Preparing
    BY <1>1, <1>4 DEF Rewrites
  <2>2. d.pc[j] # "idle" => c.pc[j] # "idle"
    BY <1>1, <1>4
  <2>3. QED
    BY <1>1, <1>2, <1>3, <1>5, <2>1, <2>2, RowStays
<1>6. CASE d.jobs[j] # c.jobs[j]
  <2>1. j = k /\ c.jobs[j].st # "absent" /\ d.timer
    BY <1>1, <1>3, <1>4, <1>6 DEF Rewrites
  <2>2. c.jobs[j] \in JobRecord /\ d.jobs[j] \in JobRecord
    BY <1>1, RowsAreRecords
  <2>3. c.pc[j] \in Preparing => Level(c.jobs[j]) = 0
    BY DEF Keeping, Ordered
  <2>4. CASE /\ d.jobs[j].st \in Terminal /\ d.jobs[j].link = c.jobs[j].link
             /\ c.pc[j] \notin {"persistOutcome", "persistEnd"}
             /\ d.jobs[j].st = "completed" => c.pc[j] \in {"approval", "harness"}
             /\ c.pc[j] \in {"approval", "harness"} => c.jobs[j].st \in Active
             /\ c.pc[j] = "summary" => c.jobs[j].st = "completed"
    <3>1. d.jobs[j].st = "completed" => c.jobs[j].st = "running"
      BY <2>4 DEF ClientInv, RowMatches, Active, InFlight, Preparing
    <3>2. /\ Rises(c.jobs[j], d.jobs[j]) /\ d.jobs[j] # Linkage
          /\ Level(c.jobs[j]) = 0 => Level(d.jobs[j]) = 0
      BY <2>1, <2>2, <2>4, <3>1, EndingRises
    <3>3. ASSUME n > 0
          PROVE  \/ c.jobs[j].st \in Active
                 \/ c.jobs[j].st = "completed" /\ d.jobs[j].st # "completed"
      <4>1. c.pc[j] \in Suspended
        BY DEF Client
      <4>2. c.pc[j] \in {"harness", "summary"}
        BY <1>4, <2>1, <2>4, <3>3, <4>1 DEF Spent, Underway, Showing
      <4>3. QED
        BY <2>4, <4>2
    <3>4. d.pc[j] \in Preparing => Level(d.jobs[j]) = 0
      BY <1>4, <2>1, <2>3, <3>2 DEF Rewrites
    <3>5. c.pc[j] # "idle"
      BY <1>4, <2>1
    <3>6. QED
      BY <1>1, <1>2, <1>3, <2>1, <2>4, <3>2, <3>3, <3>4, <3>5, RowRises
  <2>5. CASE c.pc[j] = "worktreeMade" /\ d.jobs[j] = [st |-> c.jobs[j].st, link |-> "worktree"]
    <3>1. Level(c.jobs[j]) = 0 /\ Level(d.jobs[j]) = 0 /\ d.jobs[j] # Linkage
      BY <2>2, <2>3, <2>5, Levels, FixedLevels DEF Preparing
    <3>2. ~(n > 0)
      BY <2>5 DEF Spent, Underway, Showing, Suspended
    <3>3. Rises(c.jobs[j], d.jobs[j])
      BY <2>1, <2>5, <3>1 DEF Rises
    <3>4. QED
      BY <1>1, <1>2, <3>1, <3>2, <3>3, RowRises
  <2>6. CASE c.pc[j] = "verify" /\ d.pc[j] = "persistRun" /\ d.jobs[j] = Linkage
    <3>1. Level(c.jobs[j]) = 0 /\ Level(d.jobs[j]) = 1
      BY <2>3, <2>6, FixedLevels DEF Preparing
    <3>2. ~(n > 0)
      BY <2>6 DEF Spent, Underway, Showing, Suspended
    <3>3. Rises(c.jobs[j], d.jobs[j])
      BY <2>1, <2>6, <3>1, FixedLevels DEF Rises
    <3>4. d.pc[j] \notin Preparing
      BY <2>6 DEF Preparing
    <3>5. QED
      BY <1>1, <1>2, <1>3, <2>1, <3>2, <3>3, <3>4, RowRises
  <2>7. QED
    BY <1>4, <1>6, <2>1, <2>4, <2>5, <2>6 DEF Rewrites
<1>7. QED
  BY <1>5, <1>6

LEMMA PumpSettles ==
    ASSUME NEW c \in Client, NEW order \in Ascending(Startable(c)),
           NEW j \in Jobs, NEW r \in JobRecord, NEW n, NEW u,
           n > 0 => Spent(c, j, r), Keeping(c, j, r, n, u)
    PROVE  Keeping(RunJobs(c, Startable(c), order), j, r, n, u)
<1> DEFINE d == RunJobs(c, Startable(c), order)
           T == {AwaitedTask(k) : k \in {k \in Jobs : c.pc[k] = "idle" /\ d.pc[k] # "idle"}}
<1>1. Pumps(c, d)
  BY RunJobsPumps
<1> HIDE DEF d
<1>2. d \in Client /\ Goes(c, d, T) /\ d.durable = c.durable
  BY <1>1 DEF Pumps, Goes
<1>3. NewTask(j) \notin T
  BY TasksDiffer
<1>4. CASE d.pc[j] = c.pc[j] /\ d.jobs[j] = c.jobs[j]
  <2>1. \A x \in T : x.job # j
    BY <1>4, TasksDiffer
  <2> HIDE DEF T
  <2>2. QED
    BY <1>2, <1>3, <1>4, <2>1, RowStays DEF d
<1>5. CASE /\ c.jobs[j].st = "queued" /\ d.jobs[j] = [c.jobs[j] EXCEPT !.st = "starting"]
           /\ c.boot = "ready"
  <2>1. c.jobs[j] \in JobRecord /\ d.jobs[j] \in JobRecord
    BY <1>2, RowsAreRecords
  <2>2. d.jobs[j].st = "starting" /\ d.jobs[j].link = c.jobs[j].link
    BY <1>5, <2>1 DEF JobRecord
  <2>3. Level(c.jobs[j]) = 0
    BY <1>5 DEF Keeping, Ordered
  <2>4. Level(d.jobs[j]) = 0
    BY <1>5, <2>1, <2>2, <2>3, Levels
  <2>5. Rises(c.jobs[j], d.jobs[j]) /\ d.jobs[j] # Linkage
    BY <1>5, <2>2, <2>3, <2>4, FixedLevels DEF Rises
  <2>6. ~(n > 0)
    BY <1>5 DEF Spent
  <2> HIDE DEF T
  <2>7. QED
    BY <1>2, <1>3, <2>4, <2>5, <2>6, RowRises DEF d
<1>6. QED
  BY <1>1, <1>4, <1>5 DEF Pumps

(* The user                                                                *)
LEMMA EnqueuedSettles ==
    ASSUME NEW c \in Client, NEW k \in Jobs, NEW d, Enqueued(c, d, k),
           NEW j \in Jobs, NEW r \in JobRecord, NEW n, NEW u,
           j = k => ~(n > 0) /\ ~u /\ r.st = "absent" /\ Unknown(c, k), Keeping(c, j, r, n, u)
    PROVE  Keeping(d, j, r, n, u \/ j = k)
<1>1. d \in Client /\ d.pc = c.pc /\ d.durable = c.durable /\ Goes(c, d, {NewTask(k)})
  BY AppendedChain DEF Enqueued, Others, Goes
<1>2. CASE j # k
  <2>1. NewTask(j) \notin {NewTask(k)} /\ \A x \in {NewTask(k)} : x.job # j
    BY <1>2, TasksDiffer
  <2>2. d.jobs[j] = c.jobs[j]
    BY <1>2 DEF Enqueued, Others
  <2>3. Keeping(d, j, r, n, u)
    BY <1>1, <2>1, <2>2, RowStays
  <2>4. QED
    BY <1>2, <2>3 DEF Keeping
<1>3. CASE j = k
  <2>1. /\ d.jobs[j].link # "session" /\ d.jobs[j] # Linkage
        /\ c.recovered[j].st = "absent" /\ c.flight.body[j].st = "absent" /\ c.lastPut[j].st = "absent"
        /\ d.recovered = c.recovered /\ d.flight = c.flight /\ d.lastPut = c.lastPut
    BY <1>3, FixedLevels DEF Enqueued, Others, NewJob, Unknown, Keeping
  <2>2. /\ Level(d.jobs[j]) = 0 /\ Level(d.recovered[j]) = 0 /\ Level(d.flight.body[j]) = 0
        /\ Level(d.lastPut[j]) = 0 /\ Level(r) = 0
    BY <1>1, <1>3, <2>1, RowsAreRecords, Levels
  <2>3. Ordered(d, j, r)
    BY <2>2 DEF Ordered
  <2>4. QED
    BY <1>3, <2>1, <2>3 DEF Keeping
<1>4. QED
  BY <1>2, <1>3

LEMMA CancelledSettles ==
    ASSUME NEW c \in Client, NEW k \in Jobs, NEW d, Cancels(c, d, k),
           NEW j \in Jobs, NEW r \in JobRecord, NEW n, NEW u, Keeping(c, j, r, n, u)
    PROVE  Keeping(d, j, r, n, u)
<1>1. d \in Client /\ d.pc = c.pc /\ d.durable = c.durable /\ Goes(c, d, {CurrentTask(k)})
  BY AppendedChain DEF Cancels, Others, Goes
<1>2. NewTask(j) \notin {CurrentTask(k)}
  BY TasksDiffer
<1>3. CASE j # k
  <2>1. \A x \in {CurrentTask(k)} : x.job # j
    BY <1>3, TasksDiffer
  <2>2. d.jobs[j] = c.jobs[j]
    BY <1>3 DEF Cancels, Others
  <2>3. QED
    BY <1>1, <1>2, <2>1, <2>2, RowStays
<1>4. CASE j = k
  <2>1. /\ c.jobs[j].st \in Active /\ d.jobs[j].st \in Terminal /\ d.jobs[j].link = c.jobs[j].link
        /\ d.jobs[j].st # "completed"
        /\ c.boot = "ready" => d.timer
    BY <1>4, StatusSorts DEF Cancels
  <2>2. c.jobs[j] \in JobRecord /\ d.jobs[j] \in JobRecord /\ c.jobs[j].st # "absent"
    BY <1>1, <2>1, RowsAreRecords, StatusSorts
  <2>3. /\ Rises(c.jobs[j], d.jobs[j]) /\ d.jobs[j] # Linkage
        /\ Level(c.jobs[j]) = 0 => Level(d.jobs[j]) = 0
    BY <2>1, <2>2, EndingRises
  <2>4. d.pc[j] \in Preparing \/ c.boot # "ready" => Level(d.jobs[j]) = 0
    BY <1>1, <2>3 DEF Keeping, Ordered
  <2>5. QED
    BY <1>1, <1>2, <2>1, <2>3, <2>4, RowRises
<1>5. QED
  BY <1>3, <1>4

LEMMA ClearedSettles ==
    ASSUME NEW c \in Client, NEW d, Clears(c, d),
           NEW j \in Jobs, NEW r \in JobRecord, NEW n, NEW u, Keeping(c, j, r, n, u)
    PROVE  Keeping(d, j, r, n, u)
<1>1. /\ d \in Client /\ d.boot = c.boot /\ d.recovered = c.recovered /\ d.flight = c.flight
      /\ d.lastPut = c.lastPut /\ d.chain = c.chain /\ d.durable = c.durable /\ d.pc = c.pc
      /\ c.timer => d.timer
      /\ d.jobs[j] = c.jobs[j] \/ d.jobs[j] = Absent
  BY DEF Clears, SameRunners
<1>2. CASE d.jobs[j] = Absent
  BY <1>1, <1>2, RowGoes
<1>3. CASE d.jobs[j] = c.jobs[j]
  <2>1. Goes(c, d, {})
    BY <1>1, SameChain DEF Goes
  <2>2. QED
    BY <1>1, <1>3, <2>1, RowStays
<1>4. QED
  BY <1>1, <1>2, <1>3

(* A new job is refused by the runtime, or becomes durable.                *)
LEMMA RefusedSettles ==
    ASSUME NEW c \in Client, NEW k \in Jobs, NEW d, Refuses(c, d, k),
           NEW j \in Jobs, NEW r \in JobRecord, NEW n, NEW u,
           j = k => ~(n > 0), Keeping(c, j, r, n, u)
    PROVE  Keeping(d, j, r, n, u)
<1>1. d \in Client /\ d.pc = c.pc /\ d.durable = c.durable /\ Goes(c, d, {})
  BY SameChain DEF Refuses, Others, Goes
<1>2. CASE d.jobs[j] = c.jobs[j]
  BY <1>1, <1>2, RowStays
<1>3. CASE d.jobs[j] # c.jobs[j]
  <2>1. /\ j = k /\ c.jobs[j].st # "absent" /\ d.jobs[j].st \in Terminal
        /\ d.jobs[j].link = c.jobs[j].link /\ d.jobs[j].st # "completed"
    BY <1>3, StatusSorts DEF Refuses, Others
  <2>2. c.jobs[j] \in JobRecord /\ d.jobs[j] \in JobRecord
    BY <1>1, RowsAreRecords
  <2>3. /\ Rises(c.jobs[j], d.jobs[j]) /\ d.jobs[j] # Linkage
        /\ Level(c.jobs[j]) = 0 => Level(d.jobs[j]) = 0
    BY <2>1, <2>2, EndingRises
  <2>4. d.pc[j] \in Preparing \/ c.boot # "ready" => Level(d.jobs[j]) = 0
    BY <1>1, <2>3 DEF Keeping, Ordered
  <2>5. QED
    BY <1>1, <2>1, <2>3, <2>4, RowRises
<1>4. QED
  BY <1>2, <1>3

LEMMA RememberedSettles ==
    ASSUME NEW c \in Client, NEW k, NEW d, Remembers(c, d, k),
           NEW j \in Jobs, NEW r \in JobRecord, NEW n, NEW u,
           c.boot = "ready" \/ j # k \/ ~(n > 0), Keeping(c, j, r, n, u)
    PROVE  Keeping(d, j, r, n, u)
<1>1. /\ d \in Client /\ d.pc = c.pc /\ d.jobs = c.jobs /\ Goes(c, d, {})
      /\ d.durable = c.durable \cup {k}
  BY SameChain DEF Remembers, Goes
<1>2. CASE c.boot = "ready" \/ j # k
  BY <1>1, <1>2, RowStays
<1>3. CASE ~(n > 0)
  <2>1. Shown(c, j) => Shown(d, j)
    BY <1>1, StillShown DEF Goes
  <2>2. QED
    BY <1>1, <1>3, <2>1 DEF Keeping, Ordered, Snapping, Goes
<1>4. QED
  BY <1>2, <1>3

(* The debounced snapshot is queued, or there is nothing new to show.      *)
LEMMA TickedSettles ==
    ASSUME NEW c \in Client, Boots(c), NEW d, Ticks(c, d),
           NEW j \in Jobs, NEW r \in JobRecord, NEW n, NEW u, Keeping(c, j, r, n, u)
    PROVE  Keeping(d, j, r, n, u)
<1>1. /\ d \in Client /\ d.boot = c.boot /\ d.recovered = c.recovered /\ d.durable = c.durable
      /\ d.pc = c.pc /\ d.jobs = c.jobs /\ d.flight = c.flight /\ d.lastPut = c.lastPut
      /\ c.timer /\ Lengthens(c, d, {SyncTask})
  BY DEF Ticks, SameRunners
<1>2. c.boot = "ready"
  BY <1>1 DEF Boots
<1>3. Shown(d, j)
  BY DEF Ticks, Shown
<1>4. Queueing(d, j) <=> Queueing(c, j)
  BY <1>1, TasksDiffer, LongerChain
<1>5. Ordered(d, j, r)
  BY <1>1 DEF Keeping, Ordered, Snapping
<1>6. n > 0 => Saved(d, j, r) /\ Forgotten(d, j, r) /\ ~Queueing(d, j)
  BY <1>1, <1>2, <1>3, <1>4 DEF Keeping, Saved, Forgotten, Carries
<1>7. QED
  BY <1>1, <1>3, <1>5, <1>6 DEF Keeping

(* The write chain                                                         *)
LEMMA SentSettles ==
    ASSUME NEW c \in Client, NEW d, Sends(c, d),
           NEW j \in Jobs, NEW r \in JobRecord, NEW n, NEW u, Keeping(c, j, r, n, u)
    PROVE  Keeping(d, j, r, n, u)
<1>1. /\ d \in Client /\ d.boot = c.boot /\ d.recovered = c.recovered /\ d.durable = c.durable
      /\ d.pc = c.pc /\ d.jobs = c.jobs /\ d.lastPut = c.lastPut /\ d.timer = c.timer
      /\ c.flight.reply = "none" /\ d.flight.reply \in {"sent", "noop"}
      /\ c.chain # <<>> /\ d.chain = Tail(c.chain) /\ d.flight.task = Head(c.chain)
  BY DEF Sends, SameRunners
<1>2. /\ 1 \in DOMAIN c.chain /\ d.flight.task = c.chain[1]
      /\ \A i \in DOMAIN d.chain : i + 1 \in DOMAIN c.chain /\ d.chain[i] = c.chain[i + 1]
      /\ \A i \in DOMAIN c.chain : i = 1 \/ (i - 1 \in DOMAIN d.chain /\ c.chain[i] = d.chain[i - 1])
  <2>1. /\ c.chain \in Seq(Task) /\ DOMAIN c.chain = 1..Len(c.chain) /\ Len(c.chain) \in Nat
    BY ChainIsSeq
  <2>2. /\ Len(c.chain) > 0 /\ Len(d.chain) = Len(c.chain) - 1 /\ DOMAIN d.chain = 1..(Len(c.chain) - 1)
        /\ \A i \in 1..(Len(c.chain) - 1) : d.chain[i] = c.chain[i + 1]
        /\ d.flight.task = c.chain[1]
    BY <1>1, <2>1
  <2>3. \A i \in DOMAIN c.chain : i = 1 \/ (i - 1 \in 1..(Len(c.chain) - 1) /\ (i - 1) + 1 = i)
    BY <2>1
  <2>4. QED
    BY <2>1, <2>2, <2>3
<1>3. /\ d.flight.body[j] = Absent \/ d.flight.body[j] = c.jobs[j]
      /\ d.flight.reply = "sent" /\ (d.flight.task = SyncTask \/ d.flight.task.job = j)
            => d.flight.body[j] = c.jobs[j]
      /\ d.flight.reply = "noop" /\ d.flight.task = SyncTask => d.jobs = d.lastPut
  BY FixedLevels DEF Sends, SyncTask
<1>4. ~Snapping(c) /\ (Snapping(d) => d.flight.body[j] = c.jobs[j])
  BY <1>1, <1>3 DEF Snapping
<1>5. /\ Level(c.jobs[j]) \in Nat /\ Level(Absent) = 0 /\ Absent.st # "queued"
  BY RowsAreRecords, Levels, FixedLevels
<1>6. Ordered(d, j, r)
  <2>1. /\ Level(d.flight.body[j]) <= Level(c.jobs[j])
        /\ d.flight.body[j].st = "queued" => Level(d.flight.body[j]) = 0
        /\ c.boot # "ready" => Level(d.flight.body[j]) = 0
    BY <1>3, <1>5 DEF Keeping, Ordered
  <2>2. c.jobs[j].st # "absent" /\ Snapping(d) => Level(d.lastPut[j]) <= Level(d.flight.body[j])
    BY <1>1, <1>4 DEF Keeping, Ordered
  <2>3. QED
    BY <1>1, <2>1, <2>2 DEF Keeping, Ordered
<1>7. Shown(c, j) => Shown(d, j)
  <2>1. ASSUME NEW i \in DOMAIN c.chain, c.chain[i] = SyncTask PROVE Shown(d, j)
    <3>1. CASE i = 1
      BY <1>1, <1>2, <1>3, <2>1, <3>1 DEF Shown, Snapping
    <3>2. CASE i # 1
      BY <1>2, <2>1, <3>2 DEF Shown
    <3>3. QED
      BY <3>1, <3>2
  <2>2. QED
    BY <1>1, <1>4, <2>1 DEF Shown
<1>8. Queueing(d, j) => Queueing(c, j)
  BY <1>2 DEF Queueing
<1>9. ASSUME n > 0 PROVE Saved(d, j, r) /\ Forgotten(d, j, r) /\ ~Queueing(d, j)
  <2>1. Saved(c, j, r) /\ Forgotten(c, j, r) /\ ~Queueing(c, j)
    BY <1>9 DEF Keeping
  <2>2. Carries(d, j) => d.flight.body[j] = c.jobs[j]
    BY <1>3 DEF Carries
  <2>3. Saved(d, j, r)
    BY <1>1, <1>7, <2>1, <2>2 DEF Saved
  <2>4. Untouched(c, j) => Untouched(d, j)
    BY <1>1, <1>2 DEF Untouched
  <2>5. Forgotten(d, j, r)
    BY <1>1, <2>1, <2>4 DEF Forgotten
  <2>6. QED
    BY <1>8, <2>1, <2>3, <2>5
<1>10. QED
  BY <1>1, <1>6, <1>7, <1>9 DEF Keeping

(* The ledger holds what the write brought, or what it held; r becomes q.  *)
LEMMA AnsweredSettles ==
    ASSUME NEW c \in Client, Boots(c), NEW a \in {"ok", "error"}, NEW d, Answers(c, d, a),
           NEW j \in Jobs, NEW r \in JobRecord, NEW q \in JobRecord, NEW n, NEW u,
           q = r \/ (q = c.flight.body[j] /\ Carries(c, j)),
           a = "ok" /\ c.flight.task = SyncTask => q = c.flight.body[j],
           Keeping(c, j, r, n, u)
    PROVE  Keeping(d, j, q, n, u)
<1>1. /\ d \in Client /\ d.boot = c.boot /\ d.recovered = c.recovered /\ d.durable = c.durable
      /\ d.pc = c.pc /\ d.jobs = c.jobs /\ d.lastPut = c.lastPut /\ d.timer = c.timer
      /\ d.chain = c.chain
      /\ c.flight.reply = "sent" /\ d.flight.reply = a
      /\ d.flight.task = c.flight.task /\ d.flight.body = c.flight.body
  BY DEF Answers, SameRunners
<1>2. (Snapping(d) <=> Snapping(c)) /\ ~Carries(d, j)
  BY <1>1 DEF Snapping, Carries
<1>3. Level(c.recovered[j]) \in {0, 1, 2, 3}
  BY RowsAreRecords, Levels
<1>4. Ordered(d, j, q)
  <2>1. c.boot = "fetching" => Level(q) <= Level(c.recovered[j])
    BY <1>3 DEF Keeping, Ordered
  <2>2. QED
    BY <1>1, <1>2, <2>1 DEF Keeping, Ordered
<1>5. Shown(c, j) => Shown(d, j)
  BY <1>1, <1>2 DEF Shown
<1>6. Queueing(d, j) => Queueing(c, j)
  BY <1>1 DEF Queueing
<1>7. ASSUME n > 0 PROVE Saved(d, j, q) /\ Forgotten(d, j, q) /\ ~Queueing(d, j)
  <2>1. Saved(c, j, r) /\ Forgotten(c, j, r) /\ ~Queueing(c, j)
    BY <1>7 DEF Keeping
  <2>2. Saved(d, j, q)
    <3>1. SUFFICES ASSUME c.boot = "ready", c.jobs[j].st # "absent"
                   PROVE  /\ c.jobs[j].st \in Active => c.jobs[j] = Linkage
                          /\ Shown(d, j)
                          /\ c.pc[j] # "idle" => c.jobs[j].link = "session"
                          /\ q # c.jobs[j] => Level(q) < Level(c.jobs[j]) /\ c.lastPut[j] # c.jobs[j]
                          /\ d.flight.task = SyncTask /\ d.flight.reply = "ok" => q = d.flight.body[j]
      BY <1>1, <1>2 DEF Saved
    <3>2. q # c.jobs[j] => Level(q) < Level(c.jobs[j]) /\ c.lastPut[j] # c.jobs[j]
      BY <2>1, <3>1 DEF Saved
    <3>3. QED
      BY <1>1, <1>5, <2>1, <3>1, <3>2 DEF Saved
  <2>3. c.boot # "ready" => ~Carries(c, j) /\ q = r
    BY <1>1, <2>1 DEF Forgotten, Untouched, Boots, Carries
  <2>4. Forgotten(d, j, q)
    BY <1>1, <2>1, <2>3 DEF Forgotten, Untouched
  <2>5. QED
    BY <1>6, <2>1, <2>2, <2>4
<1>8. QED
  BY <1>1, <1>4, <1>5, <1>7 DEF Keeping

(* The snapshot, or a write nobody waits for, is over.                     *)
LEMMA SettledSettles ==
    ASSUME NEW c \in Client, Boots(c), NEW d, Settles(c, d),
           NEW j \in Jobs, NEW r \in JobRecord, NEW n, NEW u, ~u => Unknown(c, j),
           Keeping(c, j, r, n, u)
    PROVE  Keeping(d, j, r, n, u)
<1>1. /\ d \in Client /\ d.boot = c.boot /\ d.recovered = c.recovered /\ d.durable = c.durable
      /\ d.pc = c.pc /\ d.jobs = c.jobs /\ d.chain = c.chain /\ d.flight = NoFlight
      /\ c.timer => d.timer
      /\ c.flight.reply \in {"ok", "error", "noop"}
  BY DEF Settles, SameRunners, Answered
<1>2. c.flight.task.op = "sync" <=> c.flight.task = SyncTask
  <2>1. c.flight.task \in Task
    BY DEF Client, Flight
  <2>2. QED
    BY <2>1, TaskSorts DEF SyncTask
<1>3. CASE c.flight.task # SyncTask \/ c.flight.reply = "noop"
  <2>1. d.lastPut = c.lastPut
    BY <1>2, <1>3 DEF Settles
  <2>2. c.flight.task # SyncTask \/ c.flight.reply \notin {"ok", "error"}
    BY <1>3
  <2>3. c.flight.reply # "sent"
    BY <1>1
  <2>4. QED
    BY <1>1, <2>1, <2>2, <2>3, SettleSettles
<1>4. CASE c.flight.task = SyncTask /\ c.flight.reply \in {"ok", "error"}
  <2>1. c.boot = "ready" /\ Snapping(c)
    BY <1>4 DEF Boots, Snapping
  <2>2. /\ d.flight.task = SyncTask /\ d.flight.reply = "none" /\ d.flight.body[j] = Absent
        /\ SyncTask.job # j /\ SyncTask # NewTask(j)
    BY <1>1, FixedLevels, TasksDiffer DEF NoFlight
  <2>3. ~Snapping(d) /\ ~Carries(d, j)
    BY <2>2 DEF Snapping, Carries
  <2>4. /\ c.jobs[j] \in JobRecord /\ c.flight.body[j] \in JobRecord /\ c.lastPut[j] \in JobRecord
        /\ Level(c.jobs[j]) \in {0, 1, 2, 3} /\ Level(c.flight.body[j]) \in {0, 1, 2, 3}
        /\ Level(Absent) = 0 /\ Absent.st = "absent"
    BY RowsAreRecords, Levels, FixedLevels
  <2>5. /\ c.flight.reply = "ok" => d.lastPut = c.flight.body
        /\ c.flight.reply = "error" => d.lastPut = c.lastPut /\ d.timer
    BY <1>2, <1>4 DEF Settles
  <2>6. Ordered(d, j, r)
    <3>1. c.jobs[j].st # "absent" => Level(d.lastPut[j]) <= Level(c.jobs[j])
      BY <1>4, <2>5 DEF Keeping, Ordered
    <3>2. Level(Absent) <= Level(c.jobs[j])
      BY <2>4
    <3>3. QED
      BY <1>1, <2>1, <2>2, <2>3, <2>4, <3>1, <3>2 DEF Keeping, Ordered
  <2>7. ASSUME n > 0, c.jobs[j].st # "absent"
        PROVE  /\ c.flight.reply = "ok" => r = c.flight.body[j]
               /\ r # c.jobs[j] => Level(r) < Level(c.jobs[j]) /\ c.lastPut[j] # c.jobs[j]
    BY <1>4, <2>1, <2>7 DEF Keeping, Saved
  <2>8. ASSUME Shown(c, j), c.jobs[j].st # "absent", c.jobs[j] = Linkage \/ n > 0
        PROVE  Shown(d, j)
    <3>1. CASE c.timer \/ c.flight.reply = "error" \/ \E i \in DOMAIN c.chain : c.chain[i] = SyncTask
      BY <1>1, <2>5, <3>1 DEF Shown
    <3>2. CASE c.flight.reply = "ok" /\ c.flight.body[j] = c.jobs[j]
      BY <1>1, <2>5, <3>2 DEF Shown
    <3>3. CASE c.flight.reply = "ok" /\ c.jobs[j] = c.lastPut[j]
      <4>1. c.jobs[j] = Linkage => c.flight.body[j] = Linkage
        <5>1. c.jobs[j] = Linkage => 1 <= Level(c.flight.body[j]) /\ Level(c.flight.body[j]) <= 1
          BY <2>1, <2>8, <3>3, FixedLevels DEF Keeping, Ordered
        <5>2. QED
          BY <2>4, <5>1, Levels
      <4>2. n > 0 => c.flight.body[j] = c.jobs[j]
        BY <2>7, <2>8, <3>3
      <4>3. QED
        BY <1>1, <2>5, <2>8, <3>3, <4>1, <4>2 DEF Shown
    <3>4. QED
      BY <1>4, <2>8, <3>1, <3>2, <3>3 DEF Shown
  <2>9. ~u => d.lastPut[j].st = "absent"
    BY <1>4, <2>5 DEF Keeping, Unknown
  <2>10. ASSUME n > 0 PROVE Saved(d, j, r) /\ Forgotten(d, j, r) /\ ~Queueing(d, j)
    <3>1. Saved(c, j, r) /\ ~Queueing(c, j)
      BY <2>10 DEF Keeping
    <3>2. ASSUME c.jobs[j].st # "absent"
          PROVE  /\ c.jobs[j].st \in Active => c.jobs[j] = Linkage
                 /\ c.pc[j] # "idle" => c.jobs[j].link = "session"
                 /\ Shown(d, j)
                 /\ r # c.jobs[j] => Level(r) < Level(c.jobs[j]) /\ d.lastPut[j] # c.jobs[j]
      <4>1. /\ Shown(c, j) /\ (c.jobs[j].st \in Active => c.jobs[j] = Linkage)
            /\ c.pc[j] # "idle" => c.jobs[j].link = "session"
        BY <2>1, <3>1, <3>2 DEF Saved
      <4>2. Shown(d, j)
        BY <2>8, <2>10, <3>2, <4>1
      <4>3. r # c.jobs[j] => d.lastPut[j] # c.jobs[j]
        BY <1>4, <2>5, <2>7, <2>10, <3>2
      <4>4. QED
        BY <2>7, <2>10, <3>2, <4>1, <4>2, <4>3
    <3>3. Saved(d, j, r)
      BY <1>1, <2>2, <2>3, <3>2 DEF Saved
    <3>4. ~Queueing(d, j)
      BY <1>1, <2>2, <3>1 DEF Queueing
    <3>5. QED
      BY <1>1, <2>1, <3>3, <3>4 DEF Forgotten
  <2>11. c.jobs[j] = Linkage => Shown(d, j)
    BY <2>8, FixedLevels DEF Keeping
  <2>12. QED
    BY <1>1, <2>6, <2>9, <2>10, <2>11 DEF Keeping
<1>5. QED
  BY <1>1, <1>3, <1>4

(* Boot: a read makes a record of a linked job over, never startable.      *)
LEMMA ReadSettles ==
    ASSUME NEW c \in Client, NEW d, NEW from, NEW to, NEW read, Reads(c, d, from, to, read),
           from # "ready", to # "ready",
           NEW j \in Jobs, NEW r \in JobRecord, NEW q \in JobRecord, NEW n, NEW u,
           q.st = "queued" => q = r, Level(r) = 0 => Level(q) = 0,
           read[j] = q \/ (to # "fetching" /\ read[j] = Absent),
           Keeping(c, j, r, n, u)
    PROVE  Keeping(d, j, q, n, u)
<1>1. /\ d \in Client /\ c.boot = from /\ d.boot = to /\ d.recovered = read /\ d.jobs = c.jobs
      /\ d.durable = c.durable /\ d.pc = c.pc /\ d.flight = c.flight /\ d.chain = c.chain
      /\ d.timer = c.timer /\ d.lastPut = c.lastPut
  BY DEF Reads
<1>2. /\ Level(Absent) = 0 /\ Absent.st # "queued" /\ Level(q) \in {0, 1, 2, 3} /\ Level(r) \in {0, 1, 2, 3}
      /\ Level(c.jobs[j]) = 0 /\ c.jobs[j] # Linkage
  BY <1>1, Levels, FixedLevels DEF Keeping, Ordered
<1>3. c.jobs[j].st # "absent" => Level(q) = 0
  <2>1. c.jobs[j].st # "absent" => Level(r) <= 0
    BY <1>2 DEF Keeping, Ordered
  <2>2. QED
    BY <1>2, <2>1
<1>4. Ordered(d, j, q)
  BY <1>1, <1>2, <1>3 DEF Keeping, Ordered, Snapping
<1>5. n > 0 => Saved(d, j, q) /\ Forgotten(d, j, q) /\ ~Queueing(d, j)
  BY <1>1 DEF Keeping, Saved, Forgotten, Untouched, Queueing
<1>6. QED
  BY <1>1, <1>2, <1>4, <1>5 DEF Keeping

LEMMA MergedSettles ==
    ASSUME NEW c \in Client, ClientInv(c), Boots(c), NEW d, Merges(c, d),
           NEW j \in Jobs, NEW r \in JobRecord, NEW n, NEW u, ~u => Unknown(c, j),
           n > 0 => Spent(c, j, r), Keeping(c, j, r, n, u)
    PROVE  Keeping(d, j, r, n, u)
<1>1. /\ d \in Client /\ c.boot = "fetching" /\ d.boot = "ready" /\ d.recovered[j] = Absent
      /\ d.pc = c.pc /\ d.flight = c.flight /\ d.chain = c.chain /\ d.lastPut = c.recovered
      /\ d.jobs[j] = IF c.jobs[j].st = "absent" THEN c.recovered[j] ELSE c.jobs[j]
  BY FixedLevels DEF Merges
<1>2. c.pc[j] = "idle" /\ ~Snapping(c) /\ ~(c.flight.task = SyncTask /\ c.flight.reply = "ok")
  BY <1>1 DEF ClientInv, Boots, Snapping
<1>3. /\ Level(c.jobs[j]) = 0 /\ Level(c.flight.body[j]) = 0 /\ Level(r) <= Level(c.recovered[j])
      /\ Level(c.recovered[j]) \in {0, 1, 2, 3} /\ Level(r) \in {0, 1, 2, 3} /\ c.jobs[j] # Linkage
      /\ Level(Absent) = 0 /\ Absent.st # "queued"
  BY <1>1, RowsAreRecords, Levels, FixedLevels DEF Keeping, Ordered
<1>4. c.jobs[j].st # "absent" => Level(c.recovered[j]) = 0
  <2>1. c.jobs[j].st # "absent" => Level(c.recovered[j]) <= 0
    BY <1>3 DEF Keeping, Ordered
  <2>2. QED
    BY <1>3, <2>1
<1>5. Ordered(d, j, r)
  <2>1. Level(c.recovered[j]) = Level(d.jobs[j]) \/ (Level(d.jobs[j]) = 0 /\ Level(c.recovered[j]) = 0)
    BY <1>1, <1>3, <1>4
  <2>2. d.pc[j] \notin Preparing /\ ~Snapping(d)
    BY <1>1, <1>2 DEF Preparing, Snapping
  <2>3. \A q \in {r, d.jobs[j], d.recovered[j], d.flight.body[j]} : q.st = "queued" => Level(q) = 0
    BY <1>1, <1>3 DEF Keeping, Ordered
  <2>4. \A q \in {r, d.recovered[j], d.flight.body[j], d.lastPut[j]} : Level(q) <= Level(d.jobs[j])
    BY <1>1, <1>3, <2>1
  <2>5. QED
    BY <1>1, <2>2, <2>3, <2>4 DEF Ordered
<1>6. d.jobs[j] = Linkage => Shown(d, j)
  BY <1>1, <1>3 DEF Shown
<1>7. ~u => d.lastPut[j].st = "absent"
  BY <1>1 DEF Unknown
<1>8. ASSUME n > 0 PROVE Saved(d, j, r) /\ Forgotten(d, j, r) /\ ~Queueing(d, j)
  <2>1. c.jobs[j].st = "absent" /\ Untouched(c, j) /\ c.recovered[j] = r
    BY <1>1, <1>8 DEF Keeping, Forgotten
  <2>2. d.jobs[j] = r /\ d.lastPut[j] = r
    BY <1>1, <2>1
  <2>3. r.st \notin Active
    BY <1>8, <2>1 DEF Spent, ClientInv, Active
  <2>4. ~Carries(d, j)
    BY <1>1, <1>2, <2>1 DEF Carries, Untouched, Snapping
  <2>5. Saved(d, j, r)
    BY <1>1, <1>2, <2>2, <2>3, <2>4 DEF Saved, Shown
  <2>6. ~Queueing(d, j)
    BY <1>1, <1>8 DEF Keeping, Queueing
  <2>7. QED
    BY <1>1, <2>5, <2>6 DEF Forgotten
<1>9. QED
  BY <1>5, <1>6, <1>7, <1>8 DEF Keeping

(* A client that starts afresh                                             *)
LEMMA FreshSettles ==
    ASSUME NEW l \in Limits, NEW j \in Jobs, NEW r \in JobRecord, r.st = "queued" => Level(r) = 0,
           NEW n, NEW u
    PROVE  Keeping(FreshClient(l), j, r, n, u)
<1> DEFINE d == FreshClient(l)
<1>1. /\ d.jobs = NoJobs /\ d.recovered = NoJobs /\ d.flight = NoFlight /\ d.chain = <<>>
      /\ d.pc[j] = "idle" /\ d.boot = "down" /\ d.durable = {} /\ d.lastPut = NoJobs
  BY DEF FreshClient
<1> HIDE DEF d
<1>2. /\ NoFlight.task = SyncTask /\ NoFlight.body[j] = Absent /\ NoFlight.reply = "none"
      /\ NoJobs[j] = Absent /\ Absent.st = "absent" /\ Level(Absent) = 0 /\ Absent # Linkage
      /\ SyncTask.job # j /\ SyncTask # NewTask(j) /\ DOMAIN d.chain = {}
  BY <1>1, FixedLevels, TasksDiffer DEF NoFlight
<1>3. Ordered(d, j, r)
  BY <1>1, <1>2 DEF Ordered, Preparing
<1>4. Saved(d, j, r) /\ Forgotten(d, j, r) /\ ~Queueing(d, j)
  BY <1>1, <1>2 DEF Saved, Forgotten, Untouched, Queueing
<1>5. QED
  BY <1>1, <1>2, <1>3, <1>4 DEF Keeping, d

-----------------------------------------------------------------------------
(* SettleInv, step by step, when there is no client but t                  *)

SettleFor(t) == \A j \in Jobs : Keeping(client[t], j, ledger[j], launches[j], j \in used)

LEMMA SettleInvByJob == SettleInv <=> LifeInv /\ \A t \in Tabs : SettleFor(t)
  BY DEF SettleInv, SettleFor, Keeping

LEMMA SettleFacts ==
    ASSUME SettleInv, NEW t \in Tabs
    PROVE  /\ LifeInv /\ IInv /\ client \in [Tabs -> Client] /\ client[t] \in Client
           /\ ClientInv(client[t]) /\ Sound(client[t], used) /\ Boots(client[t])
           /\ \A j \in Jobs : /\ Keeping(client[t], j, ledger[j], launches[j], j \in used)
                              /\ Lives(client[t], j, ledger[j], launches[j])
                              /\ launches[j] > 0 => Spent(client[t], j, ledger[j])
                              /\ Unwinds(client[t], j)
                              /\ ledger[j] \in JobRecord /\ launches[j] \in Nat
           /\ \A j \in Jobs \ used : launches[j] = 0 /\ Unknown(client[t], j) /\ ledger[j].st = "absent"
<1>1. LifeInv /\ SettleFor(t)
  BY SettleInvByJob
<1>2. /\ IInv /\ client \in [Tabs -> Client] /\ client[t] \in Client
      /\ ClientInv(client[t]) /\ Sound(client[t], used)
      /\ \A j \in Jobs : Lives(client[t], j, ledger[j], launches[j]) /\ launches[j] \in Nat
      /\ \A j \in Jobs \ used : launches[j] = 0 /\ Unknown(client[t], j)
  BY <1>1, LifeFacts
<1>3. ledger \in JobMap /\ \A j \in Jobs \ used : ledger[j].st = "absent"
  BY <1>2 DEF IInv, TypeOK
<1>4. QED
  BY <1>1, <1>2, <1>3 DEF SettleFor, JobMap, Lives, Sound

(* Tab t became d, and the pump may have run.                              *)
LEMMA BecameSettles ==
    ASSUME client \in [Tabs -> Client], NEW t \in Tabs, NEW d \in Client,
           NEW j \in Jobs, NEW r \in JobRecord, NEW n, NEW u,
           Become(t, d) \/ (BecomePumped(t, d) /\ (n > 0 => Spent(d, j, r))),
           Keeping(d, j, r, n, u)
    PROVE  Keeping(client'[t], j, r, n, u)
<1>1. CASE Become(t, d)
  BY <1>1 DEF Become
<1>2. CASE BecomePumped(t, d) /\ (n > 0 => Spent(d, j, r))
  <2>1. PICK order \in Ascending(Startable(d)) : Become(t, RunJobs(d, Startable(d), order))
    BY <1>2 DEF BecomePumped
  <2>2. Keeping(RunJobs(d, Startable(d), order), j, r, n, u)
    BY <1>2, PumpSettles
  <2>3. QED
    BY <2>1, <2>2 DEF Become
<1>3. QED
  BY <1>1, <1>2

(* A runner's step, but for the launch it may count                        *)
LEMMA MadeSettles ==
    ASSUME client \in [Tabs -> Client], NEW t \in Tabs, NEW c \in Client, ClientInv(c),
           NEW k \in Jobs, Free(c, k), Unwinds(c, k), Makes(t, k, c),
           NEW j \in Jobs, NEW r \in JobRecord, NEW n, NEW u,
           Lives(c, j, r, n), Keeping(c, j, r, n, u)
    PROVE  Keeping(client'[t], j, r, n, u)
<1>1. PICK d : Moved(c, d, k) /\ (Become(t, d) \/ BecomePumped(t, d))
  BY DEF Makes
<1>2. d \in Client
  BY <1>1 DEF Moved, Others
<1>3. n > 0 => Spent(c, j, r) /\ Spent(d, j, r)
  BY <1>1, MovedLives DEF Lives
<1>4. Keeping(d, j, r, n, u)
  BY <1>1, <1>3, MovedSettles
<1>5. QED
  BY <1>1, <1>2, <1>3, <1>4, BecameSettles

LEMMA RunnerSettles ==
    ASSUME SettleInv, NEW t \in Tabs, NEW k \in Jobs, RunnerStep(t, k) \/ UserDecides(t, k)
    PROVE  \A j \in Jobs : Keeping(client'[t], j, ledger[j], launches[j], j \in used)
<1> DEFINE c == client[t]
           e == Settle(c)
<1>1. /\ IInv /\ client \in [Tabs -> Client] /\ c \in Client /\ ClientInv(c) /\ Unwinds(c, k)
      /\ \A j \in Jobs : /\ Keeping(c, j, ledger[j], launches[j], j \in used)
                         /\ Lives(c, j, ledger[j], launches[j]) /\ ledger[j] \in JobRecord
  BY SettleFacts
<1>2. Waits(c, k)
  BY <1>1 DEF Lives
<1>3. CASE Makes(t, k, c) /\ c.pc[k] \notin Awaiting
  <2>1. Free(c, k)
    BY <1>2, <1>3, IdleIsFree
  <2> HIDE DEF c
  <2>2. QED
    BY <1>1, <1>3, <2>1, MadeSettles
<1>4. CASE Makes(t, k, e) /\ Answered(c) /\ c.flight.task = AwaitedTask(k)
  <2>1. Free(e, k)
    BY <1>1, <1>2, <1>4, SettledIsFree
  <2>2. /\ e \in Client /\ ClientInv(e)
        /\ e.flight = NoFlight /\ e.boot = c.boot /\ e.recovered = c.recovered
        /\ e.jobs = c.jobs /\ e.pc = c.pc /\ e.durable = c.durable /\ e.chain = c.chain
        /\ e.lastPut = c.lastPut /\ e.timer = c.timer /\ e.aborted = c.aborted
    BY <1>1, SettledClient, SettleAll DEF Good
  <2>3. \A j \in Jobs : Lives(e, j, ledger[j], launches[j])
    BY <1>1, SettleLives
  <2>4. c.flight.task # SyncTask /\ c.flight.reply # "sent"
    BY <1>4, TasksDiffer DEF Answered
  <2> HIDE DEF c, e
  <2>5. \A j \in Jobs : Keeping(e, j, ledger[j], launches[j], j \in used)
    BY <1>1, <2>2, <2>4, SettleSettles
  <2>6. Unwinds(e, k)
    BY <1>1, <2>2 DEF Unwinds
  <2>7. QED
    BY <1>1, <1>4, <2>1, <2>2, <2>3, <2>5, <2>6, MadeSettles
<1>5. QED
  BY <1>1, <1>3, <1>4, RunnerMakes

(* A step without a launch: tab t becomes d, and what the pump needs holds. *)
Becomes(t, d) ==
    /\ d \in Client
    /\ \A j \in Jobs : Keeping(d, j, ledger[j], launches[j], j \in used)
    /\ \/ Become(t, d)
       \/ BecomePumped(t, d) /\ \A j \in Jobs : launches[j] > 0 => Spent(d, j, ledger[j])

LEMMA BecomesSettles ==
    ASSUME SettleInv, NEW t \in Tabs, NEW d, Becomes(t, d)
    PROVE  \A j \in Jobs : Keeping(client'[t], j, ledger[j], launches[j], j \in used)
<1>1. client \in [Tabs -> Client] /\ \A j \in Jobs : ledger[j] \in JobRecord
  BY SettleFacts
<1>2. ASSUME NEW j \in Jobs PROVE Keeping(client'[t], j, ledger[j], launches[j], j \in used)
  BY <1>1, BecameSettles DEF Becomes
<1>3. QED
  BY <1>2

LEMMA UserSettles ==
    ASSUME SettleInv, NEW t \in Tabs,
           \/ \E k \in Jobs : Cancel(t, k)
           \/ \E n \in Limits : SetLimit(t, n)
           \/ ClearFinished(t) \/ EffectPump(t) \/ TimerFires(t)
    PROVE  \A j \in Jobs : Keeping(client'[t], j, ledger[j], launches[j], j \in used)
<1> DEFINE c == client[t]
<1>1. /\ IInv /\ c \in Client /\ Boots(c)
      /\ \A j \in Jobs : /\ Keeping(c, j, ledger[j], launches[j], j \in used)
                         /\ Lives(c, j, ledger[j], launches[j]) /\ ledger[j] \in JobRecord
                         /\ launches[j] > 0 => Spent(c, j, ledger[j])
  BY SettleFacts
<1>2. SUFFICES \E d : Becomes(t, d)
  BY BecomesSettles
<1>3. ASSUME NEW k \in Jobs, Cancel(t, k) PROVE \E d : Becomes(t, d)
  <2>1. PICK d : Cancels(c, d, k) /\ BecomePumped(t, d)
    BY <1>1, <1>3, CancelMakes
  <2> HIDE DEF c
  <2>2. d \in Client /\ \A j \in Jobs : Keeping(d, j, ledger[j], launches[j], j \in used)
    BY <1>1, <2>1, CancelledSettles DEF Cancels, Others
  <2>3. \A j \in Jobs : Lives(d, j, ledger[j], launches[j])
    BY <1>1, <2>1, CancelledLives
  <2>4. QED
    BY <2>1, <2>2, <2>3 DEF Becomes, Lives
<1>4. ASSUME EffectPump(t) \/ \E n \in Limits : SetLimit(t, n) PROVE \E d : Becomes(t, d)
  <2>1. PICK d : /\ BecomePumped(t, d) /\ SameRunners(c, d)
                 /\ d.jobs = c.jobs /\ d.flight = c.flight /\ d.chain = c.chain
                 /\ d.timer = c.timer /\ d.lastPut = c.lastPut
    BY <1>1, <1>4, PumpMakes
  <2> HIDE DEF c
  <2>2. /\ d \in Client /\ d.recovered = c.recovered /\ d.pc = c.pc /\ d.durable = c.durable
        /\ Goes(c, d, {})
    BY <1>1, <2>1, SameChain DEF SameRunners, Goes
  <2>3. \A j \in Jobs : Keeping(d, j, ledger[j], launches[j], j \in used)
    BY <1>1, <2>1, <2>2, RowStays
  <2>4. \A j \in Jobs : launches[j] > 0 => Spent(d, j, ledger[j])
    BY <1>1, <2>1, <2>2 DEF Spent
  <2>5. QED
    BY <2>1, <2>2, <2>3, <2>4 DEF Becomes
<1>5. ASSUME ClearFinished(t) PROVE \E d : Becomes(t, d)
  <2>1. PICK d : Clears(c, d) /\ Become(t, d)
    BY <1>1, <1>5, ClearFinishedMakes
  <2> HIDE DEF c
  <2>2. d \in Client /\ \A j \in Jobs : Keeping(d, j, ledger[j], launches[j], j \in used)
    BY <1>1, <2>1, ClearedSettles DEF Clears, SameRunners
  <2>3. QED
    BY <2>1, <2>2 DEF Becomes
<1>6. ASSUME TimerFires(t) PROVE \E d : Becomes(t, d)
  <2>1. PICK d : Ticks(c, d) /\ Become(t, d)
    BY <1>1, <1>6, TimerFiresMakes
  <2> HIDE DEF c
  <2>2. d \in Client /\ \A j \in Jobs : Keeping(d, j, ledger[j], launches[j], j \in used)
    BY <1>1, <2>1, TickedSettles DEF Ticks, SameRunners
  <2>3. QED
    BY <2>1, <2>2 DEF Becomes
<1>7. QED
  BY <1>3, <1>4, <1>5, <1>6

LEMMA EnqueueSettles ==
    ASSUME SettleInv, NEW t \in Tabs, NEW k \in Jobs, Enqueue(t, k)
    PROVE  \A j \in Jobs : Keeping(client'[t], j, ledger[j], launches[j], j \in used')
<1> DEFINE c == client[t]
<1>1. /\ IInv /\ client \in [Tabs -> Client] /\ c \in Client
      /\ \A j \in Jobs : /\ Keeping(c, j, ledger[j], launches[j], j \in used)
                         /\ ledger[j] \in JobRecord
      /\ \A j \in Jobs \ used : launches[j] = 0 /\ Unknown(c, j) /\ ledger[j].st = "absent"
  BY SettleFacts
<1>2. k \notin used /\ used' = used \cup {k}
  BY DEF Enqueue
<1>3. PICK d : Enqueued(c, d, k) /\ Become(t, d)
  BY <1>1, EnqueueMakes
<1> HIDE DEF c
<1>4. ASSUME NEW j \in Jobs PROVE Keeping(d, j, ledger[j], launches[j], j \in used')
  <2>1. j = k => ~(launches[j] > 0) /\ j \notin used /\ ledger[j].st = "absent" /\ Unknown(c, k)
    BY <1>1, <1>2
  <2> DEFINE u == j \in used
  <2> HIDE DEF u
  <2>2. Keeping(d, j, ledger[j], launches[j], u \/ j = k)
    <3>1. Keeping(c, j, ledger[j], launches[j], u)
      BY <1>1 DEF u
    <3>2. j = k => ~(launches[j] > 0) /\ ~u /\ ledger[j].st = "absent" /\ Unknown(c, k)
      BY <2>1 DEF u
    <3>3. c \in Client /\ ledger[j] \in JobRecord
      BY <1>1
    <3>4. QED
      BY <1>3, <3>1, <3>2, <3>3, EnqueuedSettles
  <2>3. j \in used' <=> j \in used \/ j = k
    BY <1>2
  <2>4. QED
    BY <2>2, <2>3 DEF Keeping, u
<1>5. QED
  BY <1>1, <1>3, <1>4 DEF Become

(* The read at boot makes a record of a running job interrupted.           *)
LEMMA ReconciledRow ==
    ASSUME IInv, NEW j \in Jobs, ledger[j].st = "queued" => Level(ledger[j]) = 0
    PROVE  LET q == Reconciled(ledger)[j]
           IN  /\ q \in JobRecord
               /\ q.st = "queued" => q = ledger[j]
               /\ Level(ledger[j]) = 0 => Level(q) = 0
<1> DEFINE r == ledger[j]
           q == Reconciled(ledger)[j]
<1>1. r \in JobRecord /\ q \in JobRecord
  BY ReconciledIsGood DEF IInv, TypeOK, JobMap
<1>2. q = r \/ (q.st # "queued" /\ q.st # "absent" /\ r.st # "absent" /\ q.link = r.link)
  <2>1. CASE r.st \in InFlight
    <3>1. q = [r EXCEPT !.st = "interrupted"]
      BY <2>1 DEF Reconciled
    <3>2. q.st = "interrupted" /\ q.link = r.link
      BY <1>1, <3>1 DEF JobRecord
    <3>3. "absent" \notin InFlight
      BY DEF InFlight, Active
    <3>4. QED
      BY <2>1, <3>2, <3>3
  <2>2. CASE r.st \notin InFlight /\ q # r
    <3>1. r.st = "queued" /\ q = [r EXCEPT !.st = "failed"]
      BY <2>2 DEF Reconciled
    <3>2. q.st = "failed" /\ q.link = r.link
      BY <1>1, <3>1 DEF JobRecord
    <3>3. QED
      BY <3>1, <3>2
  <2>3. QED
    BY <2>1, <2>2
<1> HIDE DEF q, r
<1>3. Level(r) = 0 => Level(q) = 0
  BY <1>1, <1>2, Levels
<1>4. QED
  BY <1>1, <1>2, <1>3 DEF q, r

LEMMA BootSettles ==
    ASSUME SettleInv, NEW t \in Tabs, Boot(t) \/ BootFail(t)
    PROVE  \A j \in Jobs : Keeping(client'[t], j, ledger'[j], launches[j], j \in used)
<1> DEFINE c == client[t]
<1>1. /\ IInv /\ client \in [Tabs -> Client] /\ c \in Client /\ ClientInv(c) /\ Boots(c)
      /\ \A j \in Jobs : /\ Keeping(c, j, ledger[j], launches[j], j \in used)
                         /\ Lives(c, j, ledger[j], launches[j]) /\ ledger[j] \in JobRecord
                         /\ launches[j] > 0 => Spent(c, j, ledger[j])
      /\ \A j \in Jobs \ used : Unknown(c, j)
  BY SettleFacts
<1>2. CASE BootMerge(t)
  <2>1. ledger' = ledger
    BY <1>2 DEF BootMerge, runtime
  <2>2. PICK d : Merges(c, d) /\ BecomePumped(t, d)
    BY <1>1, <1>2, BootMergeMakes
  <2> HIDE DEF c
  <2>3. d \in Client /\ \A j \in Jobs : Keeping(d, j, ledger[j], launches[j], j \in used)
    BY <1>1, <2>2, MergedSettles DEF Merges
  <2>4. \A j \in Jobs : Lives(d, j, ledger[j], launches[j])
    BY <1>1, <2>2, MergedLives
  <2>5. Becomes(t, d)
    BY <2>2, <2>3, <2>4 DEF Becomes, Lives
  <2>6. QED
    BY <2>1, <2>5, BecomesSettles
<1>3. CASE BootGet(t)
  <2>1. ledger' = Reconciled(ledger)
    BY <1>3 DEF BootGet
  <2>2. \E d : Become(t, d) /\ Reads(c, d, "down", "fetching", ledger')
    <3>1. ~BootFail(t)
      BY <1>3 DEF BootGet, BootFail
    <3>2. QED
      BY <1>1, <1>3, <3>1, BootReadMakes
  <2>3. PICK d : Become(t, d) /\ Reads(c, d, "down", "fetching", ledger')
    BY <2>2
  <2> HIDE DEF c
  <2>4. \A j \in Jobs : /\ ledger'[j] \in JobRecord
                        /\ ledger'[j].st = "queued" => ledger'[j] = ledger[j]
                        /\ Level(ledger[j]) = 0 => Level(ledger'[j]) = 0
    BY <1>1, <2>1, ReconciledRow DEF Keeping, Ordered
  <2>5. \A j \in Jobs : Keeping(d, j, ledger'[j], launches[j], j \in used)
    BY <1>1, <2>3, <2>4, ReadSettles
  <2>6. QED
    BY <1>1, <2>3, <2>5 DEF Become
<1>4. CASE BootFail(t)
  <2>1. ledger' = ledger
    BY <1>4 DEF BootFail, runtime
  <2>2. \E d : Become(t, d) /\ Reads(c, d, "fetching", "paused", NoJobs)
    <3>1. ~BootGet(t)
      BY <1>4 DEF BootGet, BootFail
    <3>2. QED
      BY <1>1, <1>4, <3>1, BootReadMakes
  <2>3. PICK d : Become(t, d) /\ Reads(c, d, "fetching", "paused", NoJobs)
    BY <2>2
  <2> HIDE DEF c
  <2>4. \A j \in Jobs : Keeping(d, j, ledger[j], launches[j], j \in used)
    BY <1>1, <2>3, FixedLevels, ReadSettles
  <2>5. QED
    BY <1>1, <2>1, <2>3, <2>4 DEF Become
<1>5. QED
  BY <1>2, <1>3, <1>4 DEF Boot

LEMMA AnswerSettles ==
    ASSUME SettleInv, ~LostAnswers, NEW t \in Tabs, ServerWrites(t) \/ WriteFault(t)
    PROVE  \A j \in Jobs : Keeping(client'[t], j, ledger'[j], launches[j], j \in used)
<1> DEFINE c == client[t]
<1>1. /\ IInv /\ client \in [Tabs -> Client] /\ c \in Client /\ Boots(c)
      /\ \A j \in Jobs : /\ Keeping(c, j, ledger[j], launches[j], j \in used)
                         /\ ledger[j] \in JobRecord
  BY SettleFacts
<1>2. PICK a \in {"ok", "error"} : /\ Answer(t, a) /\ c.flight.reply = "sent"
                                  /\ IF a = "ok" THEN ledger' = Written(c.flight) ELSE ledger' = ledger
  BY DEF ServerWrites, WriteFault
<1>3. PICK d : Answers(c, d, a) /\ Become(t, d)
  BY <1>1, <1>2, AnswerMakes DEF Reply
<1>4. c.flight.task.op = "sync" <=> c.flight.task = SyncTask
  <2>1. c.flight.task \in Task
    BY <1>1 DEF Client, Flight
  <2>2. QED
    BY <2>1, TaskSorts DEF SyncTask
<1>5. ASSUME NEW j \in Jobs
      PROVE  /\ ledger'[j] = ledger[j] \/ (ledger'[j] = c.flight.body[j] /\ Carries(c, j))
             /\ a = "ok" /\ c.flight.task = SyncTask => ledger'[j] = c.flight.body[j]
  <2>1. ledger \in JobMap
    BY <1>1 DEF IInv, TypeOK
  <2>2. Written(c.flight)[j] =
          IF c.flight.task = SyncTask \/ j = c.flight.task.job THEN c.flight.body[j] ELSE ledger[j]
    BY <1>4, <2>1 DEF Written, JobMap
  <2>3. QED
    BY <1>2, <2>2 DEF Carries
<1> HIDE DEF c
<1>6. \A j \in Jobs : ledger'[j] \in JobRecord
  BY <1>1, <1>5, RowsAreRecords
<1>7. \A j \in Jobs : Keeping(d, j, ledger'[j], launches[j], j \in used)
  BY <1>1, <1>3, <1>5, <1>6, AnsweredSettles
<1>8. QED
  BY <1>1, <1>3, <1>7 DEF Become

LEMMA ChainSettles ==
    ASSUME SettleInv, NEW t \in Tabs,
           WriteStarts(t) \/ NewJobPersisted(t) \/ UnawaitedPersisted(t) \/ SyncPersisted(t)
    PROVE  \A j \in Jobs : Keeping(client'[t], j, ledger[j], launches[j], j \in used)
<1> DEFINE c == client[t]
<1>1. /\ IInv /\ client \in [Tabs -> Client] /\ c \in Client /\ ClientInv(c) /\ Boots(c)
      /\ \A j \in Jobs : /\ Keeping(c, j, ledger[j], launches[j], j \in used)
                         /\ Lives(c, j, ledger[j], launches[j]) /\ ledger[j] \in JobRecord
      /\ \A j \in Jobs \ used : Unknown(c, j)
  BY SettleFacts
<1>2. CASE WriteStarts(t)
  <2>1. PICK d : Sends(c, d) /\ Become(t, d)
    BY <1>1, <1>2, WriteStartsMakes
  <2> HIDE DEF c
  <2>2. d \in Client /\ \A j \in Jobs : Keeping(d, j, ledger[j], launches[j], j \in used)
    BY <1>1, <2>1, SentSettles DEF Sends, SameRunners
  <2>3. QED
    BY <2>1, <2>2, BecomesSettles DEF Becomes
<1>3. CASE UnawaitedPersisted(t) \/ SyncPersisted(t)
  <2>1. PICK d : Settles(c, d) /\ Become(t, d)
    BY <1>1, <1>3, SyncPersistedMakes
  <2> HIDE DEF c
  <2>2. d \in Client /\ \A j \in Jobs : Keeping(d, j, ledger[j], launches[j], j \in used)
    BY <1>1, <2>1, SettledSettles DEF Settles, SameRunners
  <2>3. QED
    BY <2>1, <2>2, BecomesSettles DEF Becomes
<1>4. CASE NewJobPersisted(t)
  <2> DEFINE e == Settle(c)
             k == c.flight.task.job
  <2>1. /\ k \in Jobs /\ c.flight.task = NewTask(k) /\ Answered(c)
        /\ \/ \E d : Refuses(e, d, k) /\ Become(t, d) /\ c.flight.reply = "error"
           \/ \E d : Remembers(e, d, k) /\ BecomePumped(t, d)
           \/ BecomePumped(t, e)
    BY <1>1, <1>4, NewJobPersistedMakes
  <2>2. /\ e \in Client /\ e.flight = NoFlight /\ e.boot = c.boot /\ e.recovered = c.recovered
        /\ e.jobs = c.jobs /\ e.pc = c.pc /\ e.durable = c.durable /\ e.chain = c.chain
        /\ e.lastPut = c.lastPut /\ e.timer = c.timer
    BY <1>1, SettleAll
  <2>3. \A j \in Jobs : Lives(e, j, ledger[j], launches[j])
    BY <1>1, SettleLives
  <2>4. c.flight.task # SyncTask /\ c.flight.reply # "sent" /\ c.flight.task.job = k
    BY <2>1, TasksDiffer DEF Answered
  <2> HIDE DEF c, e, k
  <2>5. \A j \in Jobs : Keeping(e, j, ledger[j], launches[j], j \in used)
    BY <1>1, <2>2, <2>4, SettleSettles
  <2>6. ASSUME NEW d, Refuses(e, d, k), Become(t, d), c.flight.reply = "error" PROVE Becomes(t, d)
    <3>1. ~(launches[k] > 0)
      BY <1>1, <2>1, <2>6 DEF Keeping, Queueing
    <3>2. d \in Client /\ \A j \in Jobs : Keeping(d, j, ledger[j], launches[j], j \in used)
      BY <1>1, <2>1, <2>2, <2>5, <2>6, <3>1, RefusedSettles DEF Refuses, Others
    <3>3. QED
      BY <2>6, <3>2 DEF Becomes
  <2>7. ASSUME NEW d, Remembers(e, d, k), BecomePumped(t, d) PROVE Becomes(t, d)
    <3>1. c.boot = "ready" \/ ~(launches[k] > 0)
      BY <1>1, <2>1, <2>4 DEF Keeping, Forgotten, Untouched
    <3>2. d \in Client /\ \A j \in Jobs : Keeping(d, j, ledger[j], launches[j], j \in used)
      BY <1>1, <2>1, <2>2, <2>5, <2>7, <3>1, RememberedSettles DEF Remembers
    <3>3. \A j \in Jobs : Lives(d, j, ledger[j], launches[j])
      BY <2>2, <2>3, <2>7, RememberedLives
    <3>4. QED
      BY <2>7, <3>2, <3>3 DEF Becomes, Lives
  <2>8. ASSUME BecomePumped(t, e) PROVE Becomes(t, e)
    BY <2>2, <2>3, <2>5, <2>8 DEF Becomes, Lives
  <2>9. QED
    BY <2>1, <2>6, <2>7, <2>8, BecomesSettles
<1>5. QED
  BY <1>2, <1>3, <1>4

LEMMA ReloadSettles ==
    ASSUME SettleInv, NEW t \in Tabs, Reload(t)
    PROVE  \A j \in Jobs : Keeping(client'[t], j, ledger'[j], launches[j], j \in used)
<1> DEFINE c == client[t]
<1>1. /\ IInv /\ client \in [Tabs -> Client] /\ c \in Client
      /\ \A j \in Jobs : /\ Keeping(c, j, ledger[j], launches[j], j \in used)
                         /\ ledger[j] \in JobRecord
  BY SettleFacts
<1>2. c.limit \in Limits /\ client'[t] = FreshClient(c.limit)
  BY <1>1 DEF Client, Reload, Become
<1>3. \A j \in Jobs : ledger'[j] = ledger[j] \/ ledger'[j] = c.flight.body[j]
  BY <1>1, WrittenRow DEF Reload
<1> HIDE DEF c
<1>4. \A j \in Jobs : /\ ledger'[j] \in JobRecord
                      /\ ledger'[j].st = "queued" => Level(ledger'[j]) = 0
  BY <1>1, <1>3, RowsAreRecords DEF Keeping, Ordered
<1>5. QED
  BY <1>2, <1>4, FreshSettles

(* A launch: the row and its record say what the launch wrote first.       *)
LEMMA LaunchSettles ==
    ASSUME SettleInv, NEW t \in Tabs, NEW k \in Jobs, Launches(t, k)
    PROVE  Keeping(client'[t], k, ledger[k], launches'[k], k \in used)
<1> DEFINE c == client[t]
           e == IF c.pc[k] = "persistRun" THEN Settle(c) ELSE c
           d == Suspend(e, k, "harness")
<1>1. /\ IInv /\ client \in [Tabs -> Client] /\ c \in Client /\ ClientInv(c) /\ Boots(c)
      /\ Lives(c, k, ledger[k], launches[k]) /\ Unwinds(c, k) /\ Undecided(c, k)
      /\ StaysLinked(c, k, ledger[k])
  BY SettleFacts, LifeFacts DEF LifeInv, OutcomeInv
<1>2. ledger[k] = Linkage /\ Keeping(client'[t], k, ledger[k], launches[k], k \in used)
  <2>1. RunnerStep(t, k) \/ UserDecides(t, k)
    <3>1. CASE LaunchesAtOnce(t, k)
      <4>1. Settle(c).jobs = c.jobs /\ Settle(c).aborted = c.aborted
        BY <1>1, SettleAll
      <4>2. ~Cancelled(Settle(c), k)
        BY <3>1, <4>1 DEF LaunchesAtOnce, Cancelled
      <4>3. QED
        BY <3>1, <4>2 DEF LaunchesAtOnce, RunPersisted, RunnerStep
    <3>2. QED
      BY <3>1 DEF Launches, UserDecides
  <2>2. QED
    BY <2>1, LaunchIsLinked, RunnerSettles, SettleFacts
<1>3. /\ Settle(c) \in Client /\ Settle(c).flight = NoFlight /\ Settle(c).boot = c.boot
      /\ Settle(c).jobs = c.jobs /\ Settle(c).chain = c.chain
  BY <1>1, SettleAll
<1>4. /\ c.pc[k] \in {"persistRun", "approval"} /\ k \notin c.aborted
      /\ c.pc[k] = "persistRun" => c.jobs[k].st # "cancelled"
  BY DEF Launches, LaunchesAtOnce, ApprovalGranted, Resumes, Cancelled
<1>5. client'[t] = d
  <2>1. Become(t, d)
    BY DEF Launches, LaunchesAtOnce, ApprovalGranted, Resumes
  <2>2. QED
    BY <1>1, <2>1 DEF Become
<1>6. /\ e \in Client /\ e.boot = c.boot /\ e.jobs = c.jobs /\ e.chain = c.chain
      /\ e.flight = NoFlight \/ (e.flight = c.flight /\ c.pc[k] = "approval")
  BY <1>1, <1>3, <1>4
<1> HIDE DEF e
<1>7. d.flight = e.flight /\ d.boot = c.boot /\ d.jobs = c.jobs /\ d.chain = c.chain
  <2>1. "harness" \in Suspended
    BY DEF Suspended
  <2>2. Others(e, d, k) /\ d.flight = e.flight /\ d.chain = e.chain /\ d.jobs = e.jobs
    BY <1>6, <2>1, SuspendAll
  <2>3. QED
    BY <1>6, <2>2 DEF Others
<1> HIDE DEF c, d
<1>8. c.boot = "ready" /\ c.jobs[k] = Linkage
  <2>1. c.boot = "ready"
    BY <1>1, <1>4 DEF ClientInv
  <2>2. CASE c.pc[k] = "persistRun"
    <3>1. c.jobs[k].st \in Active
      BY <1>1, <1>4, <2>2 DEF Unwinds, Showing
    <3>2. QED
      BY <1>1, <2>1, <2>2, <3>1 DEF Lives, LinksFirst
  <2>3. CASE c.pc[k] = "approval"
    BY <1>1, <1>4, <2>1, <2>3 DEF StaysLinked
  <2>4. QED
    BY <1>4, <2>2, <2>3
<1>9. /\ NoFlight.task = SyncTask /\ NoFlight.reply = "none" /\ SyncTask # NewTask(k)
      /\ SyncTask.job # k
  BY TasksDiffer DEF NoFlight
<1>10. /\ Carries(d, k) => d.flight.body[k] = Linkage
       /\ d.flight.task = SyncTask /\ d.flight.reply = "ok" => d.flight.body[k] = Linkage
  BY <1>1, <1>4, <1>6, <1>7, <1>9 DEF StaysLinked, Carries
<1>11. Saved(d, k, ledger[k])
  <2>1. Shown(d, k)
    BY <1>2, <1>5, <1>7, <1>8 DEF Keeping
  <2>2. QED
    BY <1>2, <1>7, <1>8, <1>10, <2>1, FixedLevels DEF Saved
<1>12. Forgotten(d, k, ledger[k])
  BY <1>7, <1>8 DEF Forgotten
<1>13. ~Queueing(d, k)
  BY <1>1, <1>4, <1>6, <1>7, <1>9 DEF Undecided, Queueing
<1>14. QED
  BY <1>2, <1>5, <1>11, <1>12, <1>13 DEF Keeping

LEMMA RunnerStepSettles ==
    ASSUME SettleInv, NEW t \in Tabs, NEW k \in Jobs, RunnerStep(t, k) \/ UserDecides(t, k)
    PROVE  \A j \in Jobs : Keeping(client'[t], j, ledger'[j], launches'[j], j \in used')
<1>1. LifeInv /\ launches \in [Jobs -> Nat]
  BY SettleFacts DEF IInv, TypeOK
<1>2. \A j \in Jobs : Keeping(client'[t], j, ledger[j], launches[j], j \in used)
  BY RunnerSettles
<1>3. ledger' = ledger /\ used' = used
  BY <1>1, RunnerKinds DEF Stays, Leaves, Links
<1>4. CASE launches' = launches
  BY <1>2, <1>3, <1>4
<1>5. CASE launches' # launches
  <2>1. Launches(t, k)
    <3>1. CASE RunPersisted(t, k)
      <4>1. /\ Settle(client[t]).jobs = client[t].jobs
            /\ Settle(client[t]).aborted = client[t].aborted
        BY SettleFacts, SettleAll
      <4>2. QED
        BY <1>5, <3>1, <4>1 DEF RunPersisted, Launches, LaunchesAtOnce, Cancelled
    <3>2. CASE ApprovalGranted(t, k)
      BY <3>2 DEF Launches
    <3>3. CASE ApprovalEnds(t, k)
      BY <1>5, <3>3 DEF ApprovalEnds, runtime
    <3>4. CASE \/ StartPersisted(t, k) \/ PolicyDecides(t, k) \/ WorktreeAdd(t, k)
               \/ WorktreeMade(t, k) \/ LinkPersisted(t, k) \/ Verified(t, k)
      BY <1>5, <3>4 DEF StartPersisted, PolicyDecides, WorktreeAdd, WorktreeMade, LinkPersisted,
         Verified, runtime
    <3>5. CASE \/ HarnessReturns(t, k) \/ OutcomePersisted(t, k) \/ Summarised(t, k)
               \/ EndPersisted(t, k)
      BY <1>5, <3>5 DEF HarnessReturns, OutcomePersisted, Summarised, EndPersisted, runtime
    <3>6. QED
      BY <3>1, <3>2, <3>3, <3>4, <3>5 DEF RunnerStep, UserDecides
  <2>2. Keeping(client'[t], k, ledger[k], launches'[k], k \in used)
    BY <2>1, LaunchSettles
  <2>3. \A j \in Jobs : j # k => launches'[j] = launches[j]
    BY <1>1, <2>1, LaunchIsLinked
  <2>4. QED
    BY <1>2, <1>3, <2>2, <2>3
<1>6. QED
  BY <1>4, <1>5

LEMMA SettleStep ==
    ASSUME SettleInv, ~LostAnswers, NEW t \in Tabs, Tabs = {t}, [Next]_vars
    PROVE  SettleInv'
<1> DEFINE Goal == \A j \in Jobs : Keeping(client'[t], j, ledger'[j], launches'[j], j \in used')
<1>1. LifeInv'
  BY SettleFacts, LifeStep
<1>2. \A j \in Jobs : Keeping(client[t], j, ledger[j], launches[j], j \in used)
  BY SettleFacts
<1>3. ASSUME UNCHANGED <<client, ledger, launches, used>> PROVE Goal
  BY <1>2, <1>3
<1>4. ASSUME NEW j \in Jobs, RevokeTrust(j) PROVE Goal
  BY <1>3, <1>4 DEF RevokeTrust, runtime
<1>5. ASSUME NEW j \in Jobs, OrphanExits(j) PROVE Goal
  BY <1>3, <1>5, SettleFacts, OrphanLeaves DEF Leaves
<1>6. ASSUME UNCHANGED <<launches, used>>,
             \A j \in Jobs : Keeping(client'[t], j, ledger'[j], launches[j], j \in used)
      PROVE  Goal
  BY <1>6
<1>7. ASSUME Boot(t) \/ BootFail(t) PROVE Goal
  BY <1>6, <1>7, BootSettles DEF Boot, BootGet, BootMerge, BootFail, runtime
<1>8. ASSUME Reload(t) PROVE Goal
  BY <1>6, <1>8, ReloadSettles DEF Reload
<1>9. ASSUME ServerWrites(t) \/ WriteFault(t) PROVE Goal
  BY <1>6, <1>9, AnswerSettles DEF ServerWrites, WriteFault
<1>10. ASSUME WriteStarts(t) \/ NewJobPersisted(t) \/ UnawaitedPersisted(t) \/ SyncPersisted(t)
       PROVE  Goal
  <2>1. UNCHANGED <<ledger, launches, used>>
    BY <1>10 DEF WriteStarts, NewJobPersisted, UnawaitedPersisted, SyncPersisted, runtime
  <2>2. QED
    BY <1>6, <1>10, <2>1, ChainSettles
<1>11. ASSUME \/ \E k \in Jobs : Cancel(t, k)
              \/ \E n \in Limits : SetLimit(t, n)
              \/ ClearFinished(t) \/ EffectPump(t) \/ TimerFires(t)
       PROVE  Goal
  <2>1. UNCHANGED <<ledger, launches, used>>
    BY <1>11 DEF Cancel, SetLimit, ClearFinished, EffectPump, TimerFires, runtime
  <2>2. QED
    BY <1>6, <1>11, <2>1, UserSettles
<1>12. ASSUME NEW k \in Jobs, Enqueue(t, k) PROVE Goal
  <2>1. UNCHANGED <<ledger, launches>>
    BY <1>12 DEF Enqueue, runtime
  <2>2. QED
    BY <1>12, <2>1, EnqueueSettles
<1>13. ASSUME NEW k \in Jobs, RunnerStep(t, k) \/ UserDecides(t, k) PROVE Goal
  BY <1>13, RunnerStepSettles
<1> HIDE DEF Goal
<1>14. Goal
  <2>1. ASSUME UNCHANGED vars PROVE Goal
    BY <1>3, <2>1 DEF vars
  <2>2. QED
    BY <1>4, <1>5, <1>7, <1>8, <1>9, <1>10, <1>11, <1>12, <1>13, <2>1 DEF Next, ChainStep
<1>15. \A u \in Tabs : SettleFor(u)'
  BY <1>14 DEF Goal, SettleFor
<1>16. QED
  BY <1>1, <1>15 DEF SettleInv, SettleFor, Keeping

LEMMA InitialSettle == Init => SettleInv
<1> SUFFICES ASSUME Init PROVE SettleInv
  OBVIOUS
<1>1. LifeInv
  BY InitialLife
<1>2. ASSUME NEW t \in Tabs PROVE SettleFor(t)
  <2>1. PICK l \in Limits : client[t] = FreshClient(l)
    BY DEF Init
  <2>2. \A j \in Jobs : ledger[j] = Absent
    BY FixedLevels DEF Init
  <2>3. QED
    BY <2>1, <2>2, FixedLevels, FreshSettles DEF SettleFor
<1>3. QED
  BY <1>1, <1>2, SettleInvByJob

-----------------------------------------------------------------------------
(* With one client, and as long as a written ledger is acknowledged, a     *)
(* ledger that settled agrees with the store: neither the write chain, the *)
(* debounced snapshot and its retry (background-runner.ts), nor a reload   *)
(* loses or takes back the outcome of a launched job that is on show.      *)
THEOREM OutcomesReachTheLedger ==
    ASSUME ~LostAnswers, NEW t \in Tabs, Tabs = {t}
    PROVE  Spec => []SettledOutcomesAgree
<1>1. Init => SettleInv
  BY InitialSettle
<1>2. SettleInv /\ [Next]_vars => SettleInv'
  BY SettleStep
<1>3. SettleInv => SettledOutcomesAgree
  <2> SUFFICES ASSUME SettleInv, NEW u \in Tabs, NEW j \in Jobs,
                      Settled(u), launches[j] > 0, client[u].jobs[j].st # "absent"
               PROVE  ledger[j] = client[u].jobs[j]
    BY DEF SettledOutcomesAgree
  <2> DEFINE c == client[u]
  <2>1. Saved(c, j, ledger[j])
    BY DEF SettleInv
  <2>2. ~Snapping(c) /\ DOMAIN c.chain = {}
    BY DEF Settled, Snapping
  <2>3. c.jobs[j] = c.lastPut[j]
    BY <2>1, <2>2 DEF Settled, Saved, Shown
  <2>4. QED
    BY <2>1, <2>3 DEF Settled, Saved
<1>4. QED
  BY <1>1, <1>2, <1>3, PTL DEF Spec
=============================================================================

----------------------------- MODULE SessionLog -----------------------------
(***************************************************************************)
(* One durable session: its directory on the host, the client that runs    *)
(* the agent (Owner) and the clients that follow it by polling.            *)
(*                                                                         *)
(* A client shows events at once, queues them for 200 ms and posts each    *)
(* batch without waiting for the one before and without a retry            *)
(* (session-persist-client.ts). The host appends them to events.ndjson and *)
(* counts them in meta.json, two writes (session-store-fs.ts). Every       *)
(* visible client polls the list of live processes and pulls what the log  *)
(* holds beyond its cursor (host-session-sync.ts).                         *)
(*                                                                         *)
(* An event is a number in the order of its emission. Requests travel      *)
(* independently: `wire' holds them in the order they were sent and any of *)
(* them may arrive next.                                                   *)
(***************************************************************************)
EXTENDS Integers, Sequences, FiniteSets, SequencesExt

CONSTANTS Clients,    \* browsers and windows on one host
          Owner,      \* the client that opens the session and runs the agent
          Pollers,    \* clients whose window is visible, the ones that poll
          MaxEvents,  \* bound: events the agent's run emits
          LivePolls,  \* bound: polls that start while the process is listed
          Kinds,      \* the disturbances that may happen: see Disturbances
          MaxFaults   \* bound: how many of them happen

(* A lost request; a crash between the append and the count; a page reload; a deletion; a list of
   live processes that could not be had. *)
Disturbances == {"loss", "crash", "reload", "delete", "unlisted"}

(* Of the constants: *)
ASSUME SessionLogAssumption ==
  /\ Owner \in Clients /\ Pollers \subseteq Clients
  /\ MaxEvents \in Nat \ {0} /\ LivePolls \in Nat
  /\ Kinds \subseteq Disturbances /\ MaxFaults \in Nat

VARIABLES disk,    \* the session's directory: meta.json, events.ndjson, snapshot.json
          wire,    \* requests on their way
          live,    \* the host's process registry lists the session
          client,  \* per client: the store's entry, its queues, its poll
          run,     \* where the owner's harness stands
          emitted, \* number of events the run has emitted
          lost,    \* events whose batch was lost, refused or dropped by a reload
          left     \* what remains of the bounds on faults

vars == <<disk, wire, live, client, run, emitted, lost, left>>

-----------------------------------------------------------------------------
Events  == 1..MaxEvents
NoSnap  == [shown |-> <<>>, any |-> FALSE]
NoDisk  == [exists |-> FALSE, log |-> <<>>, count |-> 0, snap |-> NoSnap, status |-> "ready"]
Fetched == [exists : BOOLEAN, log : Seq(Events), count : Nat,
            snap : [shown : Seq(Events), any : BOOLEAN], status : {"ready", "completed"}]

\* No entry in the client's store; its module level queues survive the entry.
NoView == [view |-> "none", durable |-> FALSE, shown |-> <<>>, count |-> 0, status |-> "ready"]
NoCursor == -1          \* pulledCount[id] == null
Idle == [at |-> "idle", live |-> FALSE, had |-> FALSE, need |-> FALSE, again |-> FALSE, got |-> NoDisk]
NewClient == [s |-> NoView, batch |-> <<>>, queue |-> <<>>, timer |-> FALSE,
              cursor |-> NoCursor, sync |-> Idle]

Init ==
  /\ disk = NoDisk
  /\ wire = <<>>
  /\ live = FALSE
  /\ client = [c \in Clients |-> NewClient]
  /\ run = "none"
  /\ emitted = 0
  /\ lost = {}
  /\ left = [fault |-> MaxFaults, poll |-> LivePolls, happened |-> {}]

-----------------------------------------------------------------------------
Disturb(kind) == /\ kind \in Kinds /\ left.fault > 0
                 /\ left' = [left EXCEPT !.fault = @ - 1, !.happened = @ \cup {kind}]

(* Requests. *)
Register    == [kind |-> "register", events |-> <<>>, status |-> "ready", checked |-> FALSE]
Append_(es) == [kind |-> "events", events |-> es, status |-> "ready", checked |-> FALSE]
Snapshot(s) == [kind |-> "snapshot", events |-> s.shown, checked |-> FALSE,
                status |-> IF s.status = "running" THEN "ready" ELSE s.status]
Delete_     == [kind |-> "delete", events |-> <<>>, status |-> "ready", checked |-> FALSE]

\* flushQueue: what a flush of the persist queue sends.
Batch(queue) == IF queue = <<>> THEN <<>> ELSE <<Append_(queue)>>

(* applyStreamEvents: show the events, then queue them for the log when the session is
   durable, whoever emitted them. Any event sets an idle session running. *)
Applied(cl, es) ==
  IF cl.s.view = "none" \/ es = <<>> THEN cl
  ELSE [cl EXCEPT !.s.shown = @ \o es,
                  !.s.count = @ + Len(es),
                  !.s.status = IF @ = "ready" THEN "running" ELSE @,
                  !.queue = IF cl.s.durable THEN @ \o es ELSE @,
                  !.timer = @ \/ cl.s.durable]

\* persistSessionNow: flush the queue and send the snapshot, without waiting for either.
Persisted(cl)     == [cl EXCEPT !.queue = <<>>, !.timer = FALSE]
SnapshotOnly(cl)  == IF cl.s.view = "none" \/ ~cl.s.durable THEN <<>> ELSE <<Snapshot(cl.s)>>
PersistSends(cl)  == IF cl.s.view = "none" \/ ~cl.s.durable THEN <<>>
                     ELSE Batch(cl.queue) \o <<Snapshot(cl.s)>>

-----------------------------------------------------------------------------
(* The owner: openWorkspace, and one run of the harness. *)

\* openWorkspace: the entry, its registration, a first event and the first snapshot.
OpenWorkspace ==
  /\ run = "none" /\ emitted < MaxEvents
  /\ LET fresh == [NewClient EXCEPT !.s = [view |-> "open", durable |-> TRUE, shown |-> <<>>,
                                           count |-> 0, status |-> "ready"],
                                    !.sync = client[Owner].sync]
         shows == Applied(fresh, <<emitted + 1>>)
     IN /\ client' = [client EXCEPT ![Owner] = Persisted(shows)]
        /\ wire' = wire \o <<Register>> \o PersistSends(shows)
  /\ emitted' = emitted + 1
  /\ run' = "opened"
  /\ UNCHANGED <<disk, live, lost, left>>

\* runHarness: the agent is spawned (see SessionLaunch for the launch itself).
Launch ==
  /\ run = "opened" /\ client[Owner].s.view = "open"
  /\ run' = "running" /\ live' = TRUE
  /\ client' = [client EXCEPT ![Owner].s.status = "running"]
  /\ UNCHANGED <<disk, wire, emitted, lost, left>>

\* A line of the agent's output is parsed into an event: enqueueStreamEvents.
Emit ==
  /\ run = "running" /\ live /\ emitted < MaxEvents
  /\ emitted' = emitted + 1
  /\ client' = [client EXCEPT ![Owner].batch = Append(@, emitted + 1)]
  /\ UNCHANGED <<disk, wire, live, run, lost, left>>

\* The next animation frame: flushStreamBatch.
FlushStream ==
  /\ client[Owner].batch # <<>>
  /\ client' = [client EXCEPT ![Owner] =
                  [Applied(@, @.batch) EXCEPT !.batch = <<>>]]
  /\ lost' = IF client[Owner].s.view = "none" THEN lost \cup ToSet(client[Owner].batch) ELSE lost
  /\ UNCHANGED <<disk, wire, live, run, emitted, left>>

ProcessExits ==
  /\ live /\ live' = FALSE
  /\ UNCHANGED <<disk, wire, client, run, emitted, lost, left>>

\* The stream has ended: flush, settle the status, run the hooks (an await).
HarnessSettles ==
  /\ run = "running" /\ ~live
  /\ run' = "settled"
  /\ client' = [client EXCEPT ![Owner] =
       LET f == [Applied(@, @.batch) EXCEPT !.batch = <<>>]
       IN IF f.s.view = "none" THEN f ELSE [f EXCEPT !.s.status = "completed"]]
  /\ lost' = IF client[Owner].s.view = "none" THEN lost \cup ToSet(client[Owner].batch) ELSE lost
  /\ UNCHANGED <<disk, wire, live, emitted, left>>

\* After the hooks: the final snapshot.
HarnessPersists ==
  /\ run = "settled"
  /\ run' = "ended"
  /\ wire' = wire \o PersistSends(client[Owner])
  /\ client' = [client EXCEPT ![Owner] = IF PersistSends(@) = <<>> THEN @ ELSE Persisted(@)]
  /\ UNCHANGED <<disk, live, emitted, lost, left>>

\* 200 ms after the first queued event: flushQueue.
TimerFires(c) ==
  /\ client[c].timer
  /\ wire' = wire \o Batch(client[c].queue)
  /\ client' = [client EXCEPT ![c] = Persisted(@)]
  /\ UNCHANGED <<disk, live, run, emitted, lost, left>>

\* deleteSession: the entry goes at once, the request is not awaited, the queue stays.
DeleteSession(c) ==
  /\ Disturb("delete") /\ client[c].s.view # "none"
  /\ wire' = Append(wire, Delete_)
  /\ client' = [client EXCEPT ![c].s = NoView]
  /\ UNCHANGED <<disk, live, run, emitted, lost>>

-----------------------------------------------------------------------------
(* The host. Every handler checks that the session exists, then waits for the body. *)
Sent == 1..Len(wire)
Dropped(r) == IF r.kind = "events" THEN ToSet(r.events) ELSE {}

\* createSessionOnDisk: a directory that exists keeps its count and its log.
HandleRegister(i) ==
  /\ wire[i].kind = "register"
  /\ disk' = IF disk.exists THEN [disk EXCEPT !.status = wire[i].status]
             ELSE [NoDisk EXCEPT !.exists = TRUE]
  /\ wire' = RemoveAt(wire, i)
  /\ UNCHANGED <<live, client, run, emitted, lost, left>>

HandleDelete(i) ==
  /\ wire[i].kind = "delete"
  /\ disk' = NoDisk
  /\ wire' = RemoveAt(wire, i)
  /\ UNCHANGED <<live, client, run, emitted, lost, left>>

\* The first half of POST and PUT: 404 for an unknown session, else await req.json().
HandlerChecks(i) ==
  /\ wire[i].kind \in {"events", "snapshot"} /\ ~wire[i].checked
  /\ IF disk.exists THEN /\ wire' = [wire EXCEPT ![i].checked = TRUE]
                         /\ lost' = lost
                    ELSE /\ wire' = RemoveAt(wire, i)
                         /\ lost' = lost \cup Dropped(wire[i])
  /\ UNCHANGED <<disk, live, client, run, emitted, left>>

\* appendNormalizedEvents: throws when the directory is gone; else appends, then counts.
CountsTheBatch(d, es, counts) ==
  IF ~d.exists THEN d
  ELSE [d EXCEPT !.log = @ \o es, !.count = IF counts THEN Len(es) ELSE @]
Appended(d, es, counts) ==
  IF ~d.exists THEN d
  ELSE [d EXCEPT !.log = @ \o es, !.count = IF counts THEN @ + Len(es) ELSE @]

HandleAppend(i, counts) ==
  /\ wire[i].kind = "events" /\ wire[i].checked
  /\ IF counts THEN left' = left ELSE disk.exists /\ Disturb("crash")
  /\ disk' = Appended(disk, wire[i].events, counts)
  /\ lost' = IF disk.exists THEN lost ELSE lost \cup Dropped(wire[i])
  /\ wire' = RemoveAt(wire, i)
  /\ UNCHANGED <<live, client, run, emitted>>

\* writeSnapshot: throws when the directory is gone, although the write itself would make it.
WritesAnyway(d, req) ==
  [d EXCEPT !.exists = TRUE, !.snap = [shown |-> req.events, any |-> TRUE], !.status = req.status]
Snapshotted(d, req) ==
  IF ~d.exists THEN d
  ELSE [d EXCEPT !.snap = [shown |-> req.events, any |-> TRUE], !.status = req.status]

HandleSnapshot(i) ==
  /\ wire[i].kind = "snapshot" /\ wire[i].checked
  /\ disk' = Snapshotted(disk, wire[i])
  /\ wire' = RemoveAt(wire, i)
  /\ UNCHANGED <<live, client, run, emitted, lost, left>>

\* A lost request is neither repeated nor reported to the queue it came from.
Lose(i) ==
  /\ Disturb("loss") /\ ~wire[i].checked
  /\ lost' = lost \cup Dropped(wire[i])
  /\ wire' = RemoveAt(wire, i)
  /\ UNCHANGED <<disk, live, client, run, emitted>>

Handle(i) == \/ HandleRegister(i) \/ HandleDelete(i) \/ HandlerChecks(i)
             \/ HandleAppend(i, TRUE) \/ HandleSnapshot(i)

-----------------------------------------------------------------------------
(* Polling: useHostSessionSync and pullAndMergeSession. One poll at a time per client. *)

(* The list of live processes; a session neither listed nor in the store is no target. A list that
   cannot be had is taken for one without processes. *)
PollLists(c, listed) ==
  /\ c \in Pollers /\ client[c].sync.at = "idle"
  /\ listed \/ client[c].s.view # "none"
  /\ \/ /\ listed = live
        /\ live => left.poll > 0
        /\ left' = IF live THEN [left EXCEPT !.poll = @ - 1] ELSE left
     \/ live /\ ~listed /\ Disturb("unlisted")
  /\ client' = [client EXCEPT ![c].sync = [Idle EXCEPT !.at = "listed", !.live = listed]]
  /\ UNCHANGED <<disk, wire, live, run, emitted, lost>>

\* Bootstrap of the cursor and the decision to load events, before the request is sent.
PollAsks(c) ==
  /\ client[c].sync.at = "listed"
  /\ LET s == client[c].s
         cursor == IF client[c].cursor = NoCursor /\ s.view # "none"
                   THEN s.count ELSE client[c].cursor
         sync == [client[c].sync EXCEPT
                    !.at = IF client[c].sync.live \/ s.view # "none" THEN "asked" ELSE "idle",
                    !.had = s.view # "none",
                    !.need = client[c].sync.live \/ s.view = "none" \/ cursor \in {0, NoCursor}]
     IN client' = [client EXCEPT ![c] = [@ EXCEPT !.cursor = cursor, !.sync = sync]]
  /\ UNCHANGED <<disk, wire, live, run, emitted, lost, left>>

PollReads(c) ==
  /\ client[c].sync.at = "asked" /\ disk.exists
  /\ client' = [client EXCEPT ![c].sync.at = "answered", ![c].sync.got =
                  IF client[c].sync.need THEN disk ELSE [disk EXCEPT !.log = <<>>]]
  /\ UNCHANGED <<disk, wire, live, run, emitted, lost, left>>

(* The pull failed. A session still shown as running although the list did not name it is
   pulled once more, and set to ready when that fails too. *)
PollFails(c) ==
  /\ client[c].sync.at = "asked"
  /\ \/ ~disk.exists /\ left' = left
     \/ Disturb("loss")
  /\ LET sync   == client[c].sync
         status == client[c].s.status
         stale  == status = "running" /\ ~sync.live
     IN client' = [client EXCEPT ![c] = [@ EXCEPT
          !.sync = IF stale /\ ~sync.again THEN [sync EXCEPT !.at = "listed", !.again = TRUE] ELSE Idle,
          !.s.status = IF stale /\ sync.again THEN "ready" ELSE status]]
  /\ UNCHANGED <<disk, wire, live, run, emitted, lost>>

\* resolveSyncedStatus: the process list first, then a settled local status, then the host's.
TrustsLocal(listed, local, meta) ==
  IF listed THEN "running" ELSE IF local # "ready" THEN local ELSE meta
Resolved(listed, local, meta) ==
  IF listed THEN "running" ELSE IF local = "completed" THEN local ELSE meta

(* pulledCount: where the pull starts in what it got, and where it stands afterwards. A log
   shorter than the cursor is taken for a truncated one. *)
FromAnew(cl) == IF cl.sync.need \/ cl.cursor = NoCursor THEN 0 ELSE cl.cursor
From(cl) ==
  LET cursor == IF cl.cursor = NoCursor THEN 0 ELSE cl.cursor
  IN IF cl.sync.need /\ cl.sync.got.log # <<>> /\ cursor > Len(cl.sync.got.log)
     THEN 0 ELSE cursor
Slice(cl) == SubSeq(cl.sync.got.log, From(cl) + 1, Len(cl.sync.got.log))
ToCount(cl) == Max({From(cl), cl.sync.got.count})
To(cl) == IF Slice(cl) # <<>> THEN Len(cl.sync.got.log)
          ELSE Max({From(cl), Len(cl.sync.got.log), cl.sync.got.count})

\* A session that was missing when the pull was sent: from the snapshot, or from the whole log.
Joined(cl) ==
  LET got == cl.sync.got IN
  IF got.snap.any
  THEN [cl EXCEPT !.s = [view |-> "open", durable |-> TRUE, shown |-> got.snap.shown,
                         count |-> got.count, status |-> "ready"],
                  !.cursor = got.count]
  ELSE [Applied([cl EXCEPT !.s = [NoView EXCEPT !.view = "open"]], got.log)
          EXCEPT !.cursor = Len(got.log)]

PollMerges(c) ==
  /\ client[c].sync.at = "answered"
  /\ LET cl     == client[c]
         merged == IF cl.sync.had THEN [Applied(cl, Slice(cl)) EXCEPT !.cursor = To(cl)]
                   ELSE Joined(cl)
         local  == IF cl.sync.had THEN merged.s.status ELSE cl.sync.got.status
     IN client' = [client EXCEPT ![c] =
          [merged EXCEPT !.sync = Idle,
                         !.s.status = IF merged.s.view = "none" THEN @
                                      ELSE Resolved(cl.sync.live, local, cl.sync.got.status)]]
  /\ UNCHANGED <<disk, wire, live, run, emitted, lost, left>>

-----------------------------------------------------------------------------
(* A reload drops everything in memory, queued events included, and with the owner's page goes
   the agent's stream. What the reloaded page shows of saved sessions is SessionRestore's. *)
Reload(c) ==
  /\ Disturb("reload") /\ client[c].s.view # "none"
  /\ lost' = lost \cup ToSet(client[c].queue) \cup ToSet(client[c].batch)
  /\ client' = [client EXCEPT ![c] = NewClient]
  /\ run' = IF c = Owner /\ run # "none" THEN "ended" ELSE run
  /\ UNCHANGED <<disk, wire, live, emitted>>

-----------------------------------------------------------------------------
Poll(c) == PollAsks(c) \/ PollReads(c) \/ PollMerges(c)

Next ==
  \/ OpenWorkspace \/ Launch \/ Emit \/ FlushStream \/ ProcessExits
  \/ HarnessSettles \/ HarnessPersists
  \/ \E i \in Sent : Handle(i) \/ HandleAppend(i, FALSE) \/ Lose(i)
  \/ \E c \in Clients : \/ TimerFires(c) \/ DeleteSession(c) \/ Reload(c)
                        \/ \E listed \in BOOLEAN : PollLists(c, listed)
                        \/ Poll(c) \/ PollFails(c)

Spec == Init /\ [][Next]_vars

\* Frames, timers, answered requests and polls of a visible window come to pass; the agent ends.
Fairness ==
  /\ WF_vars(FlushStream) /\ WF_vars(ProcessExits)
  /\ WF_vars(HarnessSettles) /\ WF_vars(HarnessPersists)
  /\ WF_vars(\E i \in Sent : Handle(i))
  /\ \A c \in Clients : /\ WF_vars(TimerFires(c)) /\ WF_vars(PollLists(c, live))
                        /\ WF_vars(Poll(c) \/ PollFails(c))

FairSpec == Spec /\ Fairness

-----------------------------------------------------------------------------
(* Properties *)

ClientState ==
  [s : [view : {"none", "open"}, durable : BOOLEAN, shown : Seq(Events), count : Nat,
        status : {"ready", "running", "completed"}],
   batch : Seq(Events), queue : Seq(Events), timer : BOOLEAN, cursor : Nat \cup {NoCursor},
   sync : [at : {"idle", "listed", "asked", "answered"}, live : BOOLEAN, had : BOOLEAN,
           need : BOOLEAN, again : BOOLEAN, got : Fetched]]

TypeOK ==
  /\ disk \in Fetched
  /\ wire \in Seq([kind : {"register", "events", "snapshot", "delete"}, events : Seq(Events),
                    status : {"ready", "completed"}, checked : BOOLEAN])
  /\ live \in BOOLEAN
  /\ client \in [Clients -> ClientState]
  /\ run \in {"none", "opened", "running", "settled", "ended"}
  /\ emitted \in 0..MaxEvents
  /\ lost \subseteq Events
  /\ left \in [fault : 0..MaxFaults, poll : 0..LivePolls, happened : SUBSET Kinds]

(* The number that meta.json holds, from which a session's events are numbered and which
   clients take as the length of the log, never exceeds it and falls behind only by a crash
   between the two writes of appendNormalizedEvents. *)
CountTrailsLog ==
  /\ disk.count <= Len(disk.log)
  /\ "crash" \notin left.happened => disk.count = Len(disk.log)

(* Some entries of the log up to a position, in the log's order and none of them twice. *)
Selects(shown, log, upto) ==
  \E at \in [1..Len(shown) -> 1..upto] :
    /\ \A k \in 1..Len(shown) : shown[k] = log[at[k]]
    /\ \A j, k \in 1..Len(shown) : j < k => at[j] < at[k]

(* A client that follows a session from its log alone (created by pullAndMergeSession without
   a snapshot, so not durable itself) shows entries of the log in the log's order, none of them
   twice, whatever polls, appends and echoes of other clients overlap or fail. *)
Follows(cl) == cl.s.view = "open" /\ ~cl.s.durable
FollowerKeepsOrder ==
  "delete" \notin left.happened =>
    \A c \in Clients : Follows(client[c]) =>
       Selects(client[c].s.shown, disk.log, Len(disk.log))

(* It leaves none of them out before the last one it shows either, as long as no list of live
   processes fails: a list that does makes it take a running session for an ended one. *)
FollowerShowsPrefix ==
  /\ FollowerKeepsOrder
  /\ left.happened \cap {"delete", "unlisted"} = {} =>
       \A c \in Clients : Follows(client[c]) => IsPrefix(client[c].s.shown, disk.log)

(* "`pulledCount` maps sessionId -> number of disk events already applied" (pullAndMergeSession):
   where a follower's cursor stands, its trace ends. The code does not keep it (README, section
   7): a pull that asks for no events, because the process has ended, moves the cursor to the
   count of meta.json. *)
PulledIsApplied ==
  "delete" \notin left.happened =>
    \A c \in Clients : Follows(client[c]) => client[c].cursor = Len(client[c].s.shown)

(* The inductive invariant behind FollowerKeepsOrder and FollowerShowsPrefix, for any number of
   clients, polls and faults. While no session is deleted: *)
Begun == run \notin {"none", "opened"}
Past  == Begun /\ ~live
Pulling(cl) == cl.sync.at \in {"asked", "answered"}

\* What a pull has got is an earlier log; without the events it is no log at all.
PullInv(cl) ==
  /\ Pulling(cl) =>
       IF cl.sync.had THEN cl.s.view = "open" ELSE cl.s.view = "none" /\ cl.sync.live /\ cl.sync.need
  /\ cl.sync.live => Begun
  /\ cl.sync.at = "answered" =>
       IF cl.sync.need THEN IsPrefix(cl.sync.got.log, disk.log) /\ cl.sync.got.count <= Len(cl.sync.got.log)
       ELSE cl.sync.got.log = <<>> /\ cl.sync.got.count <= Len(disk.log)

\* A follower's cursor is a position of the log, the entries it shows stand before it, and no pull
\* under way reads less of the log than that.
Ordered(cl) ==
  /\ cl.cursor \in 0..Len(disk.log)
  /\ Selects(cl.s.shown, disk.log, cl.cursor)
  /\ cl.sync.at = "answered" /\ cl.sync.need => cl.cursor <= Len(cl.sync.got.log)

\* While every list was had, the cursor stands where the trace ends ...
Abreast(cl) ==
  /\ cl.cursor = Len(cl.s.shown)
  /\ cl.sync.at = "answered" /\ cl.sync.need => IsPrefix(cl.s.shown, cl.sync.got.log)
  /\ cl.sync.at # "idle" /\ ~cl.sync.live => Past
  /\ Pulling(cl) /\ ~cl.sync.need => cl.cursor > 0 /\ ~cl.sync.live

\* ... or the process is gone, and no pull asks for events any more.
Overtaken(cl) ==
  Past /\ cl.cursor > 0 /\ ~cl.sync.live /\ (Pulling(cl) => ~cl.sync.need)

\* What holds of one client, the owner's batches and its run included.
Sound(c) ==
  /\ c # Owner => client[c].batch = <<>>
  /\ c = Owner /\ run = "none" => client[c].s.view = "none" /\ client[c].batch = <<>>
  /\ c = Owner /\ run # "none" /\ (client[c].s.view = "none" \/ Follows(client[c])) =>
       run = "ended" /\ client[c].batch = <<>>
  /\ PullInv(client[c])
  /\ Follows(client[c]) =>
       /\ Begun /\ Ordered(client[c])
       /\ "unlisted" \notin left.happened =>
            /\ IsPrefix(client[c].s.shown, disk.log)
            /\ Abreast(client[c]) \/ Overtaken(client[c])

HostInv ==
  /\ ~disk.exists => disk = NoDisk
  /\ live => Begun
  /\ \A i \in Sent : wire[i].kind = "delete" => "delete" \in left.happened

FollowInv == HostInv /\ ("delete" \notin left.happened => \A c \in Clients : Sound(c))

(* A deleted session does not come back with a batch, a snapshot or a poll that was on its way:
   only with its registration. *)
DeletedStaysDeleted ==
  [][~disk.exists /\ disk'.exists => \E i \in Sent : wire[i].kind = "register"]_vars

(* Every event the run emits reaches the log, unless its request was lost or refused, a reload
   took the queue, or the session was deleted: none is left behind in a queue without a timer. *)
EventsAreAccounted ==
  \A e \in Events :
    e <= emitted ~> e \in ToSet(disk.log) \/ e \in lost \/ "delete" \in left.happened

(* When the run is over, every client that polls stops showing the session as running,
   although its list of processes may be older than the end and its pull may fail. *)
StaleRunningClears ==
  \A c \in Pollers : run = "ended" ~> client[c].s.status # "running"
=============================================================================

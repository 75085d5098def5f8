---------------------------- MODULE SessionReduce ----------------------------
(* How stream events become the trace a session shows: the batches of          *)
(* lib/stream-batch.ts, the reducer lib/session-reduce.ts with its bounded hot *)
(* window of nodes, and the two ways a trace is rebuilt from events,           *)
(* lib/session-replay.ts (a restart without a snapshot, an import) and         *)
(* rehydrateSessionFromEvents.  Titles, contents, tokens and timings are left  *)
(* out; a thought's text only says whether it continues the latest thought.    *)
(* Timestamps are distinct: they are the positions in the event log.           *)
EXTENDS Integers, SequencesExt

CONSTANTS
    Events,       \* the events that may come
    MaxHot,       \* MAX_HOT_NODES
    MaxEvents,    \* bound: events of a session
    MaxRebuilds   \* bound: restarts and rehydrations

VARIABLES
    log,      \* events.ndjson: every event applied, in order
    queue,    \* events that wait for the next frame
    sess,     \* the session's trace
    rebuilds

vars == <<log, queue, sess, rebuilds>>

None == 0
Ids == {e.id : e \in Events}
Kind == {"goal", "thinking", "tool_call", "tool_result", "subagent", "file_change", "error"}
Status == {"running", "success", "error"}
Node == [kind : Kind, status : Status, parent : Ids \cup {None}, ts : 1..MaxEvents,
         file : BOOLEAN, children : SUBSET Ids]
Metrics == [tools : Nat, thoughts : Nat, subagents : Nat, errors : Nat]
NoMetrics == [tools |-> 0, thoughts |-> 0, subagents |-> 0, errors |-> 0]
NoNodes == [i \in {} |-> None]
Empty == [nodes |-> NoNodes, roots |-> <<>>, metrics |-> NoMetrics, selected |-> None,
          count |-> 0, cold |-> 0]

TypeOK ==
    /\ Len(log) + Len(queue) <= MaxEvents /\ rebuilds \in 0..MaxRebuilds
    /\ \E S \in SUBSET Ids : sess.nodes \in [S -> Node]
    /\ sess.roots \in Seq(Ids) /\ sess.metrics \in Metrics
    /\ sess.selected \in Ids \cup {None} /\ sess.count \in Nat /\ sess.cold \in Nat

Hot(s) == DOMAIN s.nodes

-----------------------------------------------------------------------------
(* Nodes                                                                       *)

Attached(nodes, parent, id) ==
    IF parent \in DOMAIN nodes THEN [nodes EXCEPT ![parent].children = @ \cup {id}] ELSE nodes

(* upsertNode: an update keeps the children, and the parent and links it does  *)
(* not give.                                                                   *)
Upserted(ws, id, node) ==
    IF id \in Hot(ws) THEN
        LET old == ws.nodes[id]
        IN  [ws EXCEPT !.nodes[id] = [node EXCEPT
                !.children = old.children, !.file = @ \/ old.file,
                !.parent = IF @ = None THEN old.parent ELSE @]]
    ELSE
        LET nodes == [i \in Hot(ws) \cup {id} |-> IF i = id THEN node ELSE ws.nodes[i]]
        IN  IF node.parent = None
            THEN [ws EXCEPT !.nodes = nodes,
                            !.roots = IF Contains(@, id) THEN @ ELSE Append(@, id)]
            ELSE [ws EXCEPT !.nodes = Attached(nodes, node.parent, id)]

One(b) == IF b THEN 1 ELSE 0

(* noteNewNodeMetrics, and the counting of a node that turns into an error     *)
Counted(ws, id, node) ==
    LET new == id \notin Hot(ws)
        failed == node.status = "error" \/ node.kind = "error"
    IN  IF ~ws.incremental THEN ws
        ELSE [ws EXCEPT !.metrics =
            [tools |-> @.tools + One(new /\ node.kind = "tool_call"),
             thoughts |-> @.thoughts + One(new /\ node.kind = "thinking"),
             subagents |-> @.subagents + One(new /\ node.kind = "subagent"),
             errors |-> @.errors + One(failed /\ (new \/ ws.nodes[id].status # "error"))]]

(* recomputeSessionMetrics                                                     *)
Recomputed(nodes) ==
    LET Of(kind) == Cardinality({i \in DOMAIN nodes : nodes[i].kind = kind})
    IN  [tools |-> Of("tool_call"), thoughts |-> Of("thinking"), subagents |-> Of("subagent"),
         errors |-> Cardinality({i \in DOMAIN nodes :
                                    nodes[i].kind = "error" \/ nodes[i].status = "error"})]

(* findLatestOfType                                                            *)
Latest(nodes, kind) ==
    LET of == {i \in DOMAIN nodes : nodes[i].kind = kind}
    IN  IF of = {} THEN None
        ELSE CHOOSE i \in of : \A j \in of : nodes[j].ts <= nodes[i].ts

-----------------------------------------------------------------------------
(* The live reducer: createWorkState, applyEventToWork, freezeWorkState        *)

Work(s) ==
    [nodes |-> s.nodes, roots |-> s.roots, metrics |-> s.metrics, selected |-> s.selected,
     count |-> s.count, cold |-> s.cold, thought |-> Latest(s.nodes, "thinking"),
     tool |-> Latest(s.nodes, "tool_call"), incremental |-> s.cold > 0]

(* A thought that continues the latest one becomes part of it.                 *)
Target(ws, e) ==
    IF e.kind = "thinking" /\ e.continues /\ ws.thought \in Hot(ws) THEN ws.thought ELSE e.id

ParentOf(ws, id, e) ==
    LET old == IF id \in Hot(ws) THEN ws.nodes[id].parent ELSE None
        root == IF ws.roots = <<>> THEN None ELSE Last(ws.roots)
    IN  CASE e.parent # None -> e.parent
          [] e.parent = None /\ old # None -> old
          [] e.parent = None /\ old = None /\ e.kind = "tool_result" ->
                IF e.call \in Hot(ws) THEN e.call ELSE ws.tool
          [] e.parent = None /\ old = None /\ e.kind # "tool_result" ->
                IF id \notin Hot(ws) /\ e.kind \in {"thinking", "tool_call", "subagent"}
                   /\ root \in Hot(ws) /\ ws.nodes[root].kind = "goal"
                THEN root ELSE None

Tracked(ws, id) ==
    [ws EXCEPT !.selected = id, !.count = @ + 1,
        !.thought = IF ws.nodes[id].kind = "thinking" THEN id ELSE @,
        !.tool = IF ws.nodes[id].kind = "tool_call" THEN id ELSE @]

(* The parent of a tool's result shows the result's status.                    *)
Resolved(ws, e, parent) ==
    IF e.kind = "tool_result" /\ parent \in Hot(ws)
    THEN [ws EXCEPT !.nodes[parent].status = IF e.status = "error" THEN "error" ELSE "success"]
    ELSE ws

(* Mutant: the result of a call takes the place of the call.                   *)
ApplyRetypes(ws, e) ==
    LET id == Target(ws, e)
        parent == ParentOf(ws, id, e)
        node == [kind |-> e.kind, status |-> e.status, parent |-> parent, ts |-> e.ts,
                 file |-> e.kind = "file_change", children |-> {}]
    IN  Tracked(Resolved(Upserted(Counted(ws, id, node), id, node), e, parent), id)

Apply(ws, e) ==
    LET id == Target(ws, e)
        parent == ParentOf(ws, id, e)
        known == id \in Hot(ws)
        node == IF e.kind = "tool_result" /\ known /\ ws.nodes[id].kind = "tool_call"
                THEN [ws.nodes[id] EXCEPT !.status = e.status]
                ELSE [kind |-> e.kind, status |-> e.status, parent |-> parent,
                      ts |-> IF known /\ e.kind # "file_change" THEN ws.nodes[id].ts ELSE e.ts,
                      file |-> e.kind = "file_change", children |-> {}]
    IN  Tracked(Resolved(Upserted(Counted(ws, id, node), id, node), e, parent), id)

(* The newest of a set of nodes, at most MaxHot of them                        *)
Newest(nodes, S, n) ==
    {i \in S : Cardinality({j \in S : nodes[j].ts > nodes[i].ts}) < n}

(* boundHotNodes: the protected nodes and then the newest; if those are too    *)
(* many, the newest of the protected, and the selected one in any case.        *)
Kept(nodes, selected, protected) ==
    LET all == DOMAIN nodes
        safe == {i \in all : i = selected \/ i \in protected \/ nodes[i].file}
        room == MaxHot - Cardinality(safe)
        tail == Newest(nodes, safe, MaxHot)
        oldest == CHOOSE i \in tail : \A j \in tail : nodes[i].ts <= nodes[j].ts
    IN  IF Cardinality(all) <= MaxHot THEN all
        ELSE IF room >= 0 THEN safe \cup Newest(nodes, all \ safe, room)
        ELSE IF selected \in tail \/ selected \notin all THEN tail
        ELSE (tail \ {oldest}) \cup {selected}

(* Mutant: the nodes that stay keep all their children.                        *)
BoundedLoosely(s, protected) ==
    LET keep == Kept(s.nodes, s.selected, protected)
    IN  [s EXCEPT !.nodes = [i \in keep |-> s.nodes[i]],
                  !.roots = SelectSeq(@, LAMBDA i : i \in keep),
                  !.cold = @ + Cardinality(Hot(s) \ keep)]

Bounded(s, protected) ==
    LET keep == Kept(s.nodes, s.selected, protected)
    IN  [s EXCEPT !.nodes = [i \in keep |-> [s.nodes[i] EXCEPT !.children = @ \cap keep]],
                  !.roots = SelectSeq(@, LAMBDA i : i \in keep),
                  !.cold = @ + Cardinality(Hot(s) \ keep)]

(* Mutant: the counts are taken from the nodes that are hot after the batch.   *)
FreezeHotCounts(ws) ==
    LET s == [nodes |-> ws.nodes, roots |-> ws.roots, selected |-> ws.selected,
              count |-> ws.count, cold |-> ws.cold, metrics |-> Recomputed(ws.nodes)]
    IN  Bounded(s, {ws.thought, ws.tool})

(* Metrics first, while the whole batch is there; then the window is bounded.  *)
Freeze(ws) ==
    LET s == [nodes |-> ws.nodes, roots |-> ws.roots, selected |-> ws.selected,
              count |-> ws.count, cold |-> ws.cold,
              metrics |-> IF ws.incremental THEN ws.metrics ELSE Recomputed(ws.nodes)]
    IN  Bounded(s, {ws.thought, ws.tool})

(* reduceStreamEvents                                                          *)
Reduce(s, events) == IF events = <<>> THEN s ELSE Freeze(FoldLeft(Apply, Work(s), events))

-----------------------------------------------------------------------------
(* applyEventToSession, the reducer of a replay: every thought with a new id   *)
(* is folded into the latest, and a result finds its call by name only.        *)
Replayed(s, e) ==
    LET latest == Latest(s.nodes, "thinking")
        old == IF e.id \in Hot(s) THEN s.nodes[e.id].parent ELSE None
        parent == CASE e.parent # None -> e.parent
                    [] e.parent = None /\ old # None -> old
                    [] e.parent = None /\ old = None ->
                        IF e.kind = "tool_result" /\ e.call \in Hot(s) THEN e.call ELSE None
        id == IF e.kind = "thinking" /\ e.id \notin Hot(s) /\ latest # None THEN latest ELSE e.id
        known == id \in Hot(s)
        node == IF e.kind = "tool_result" /\ known /\ s.nodes[id].kind = "tool_call"
                THEN [s.nodes[id] EXCEPT !.status = e.status]
                ELSE [kind |-> e.kind, status |-> e.status, parent |-> parent,
                      ts |-> IF known /\ e.kind # "file_change" THEN s.nodes[id].ts ELSE e.ts,
                      file |-> e.kind = "file_change", children |-> {}]
    IN  [Upserted(s, id, node) EXCEPT !.selected = id, !.count = @ + 1]

(* replayEvents, with one recount at the end for the one after each event      *)
Replay(events) ==
    LET s == FoldLeft(Replayed, Empty, events)
    IN  [s EXCEPT !.metrics = Recomputed(s.nodes)]

Higher(a, b) ==
    [tools |-> Max({a.tools, b.tools}), thoughts |-> Max({a.thoughts, b.thoughts}),
     subagents |-> Max({a.subagents, b.subagents}), errors |-> Max({a.errors, b.errors})]

(* rehydrateSessionFromEvents: a replay by the live reducer that never counts  *)
(* less than the base did.                                                     *)
Rehydrated(base, events) ==
    LET shell == [base EXCEPT !.nodes = NoNodes, !.roots = <<>>, !.selected = None,
                              !.count = 0, !.cold = 0, !.metrics = NoMetrics]
        s == Reduce(shell, events)
        count == Max({base.count, s.count})
    IN  IF events = <<>> THEN Bounded(base, {})
        ELSE [s EXCEPT !.metrics = Higher(base.metrics, @), !.count = count,
                !.cold = IF @ # 0 THEN @ ELSE Max({0, base.count - Cardinality(Hot(s))})]

-----------------------------------------------------------------------------
Init == log = <<>> /\ queue = <<>> /\ sess = Empty /\ rebuilds = 0

(* enqueueStreamEvents                                                         *)
Arrive(e) ==
    /\ Len(log) + Len(queue) < MaxEvents
    /\ queue' = Append(queue, [e EXCEPT !.ts = Len(log) + Len(queue) + 1])
    /\ UNCHANGED <<log, sess, rebuilds>>

(* flushStreamBatch: one commit for all events that wait                       *)
Flush ==
    /\ queue # <<>>
    /\ sess' = Reduce(sess, queue)
    /\ log' = log \o queue
    /\ queue' = <<>>
    /\ UNCHANGED rebuilds

(* The client starts again and finds no snapshot: sessionFromReplay            *)
Restart ==
    /\ log # <<>> /\ rebuilds < MaxRebuilds
    /\ rebuilds' = rebuilds + 1
    /\ sess' = Bounded(Replay(log), {})
    /\ queue' = <<>>
    /\ UNCHANGED log

(* The hot nodes are recovered from a tail of the log.                         *)
Rehydrate(k) ==
    /\ log # <<>> /\ rebuilds < MaxRebuilds
    /\ rebuilds' = rebuilds + 1
    /\ sess' = Rehydrated(sess, SubSeq(log, Len(log) - k + 1, Len(log)))
    /\ UNCHANGED <<log, queue>>

Next ==
    \/ \E e \in Events : Arrive(e)
    \/ Flush \/ Restart
    \/ \E k \in 0..Len(log) : Rehydrate(k)

Spec == Init /\ [][Next]_vars

(* The window is never larger than its cap, and nothing in it is torn: what is *)
(* selected, every root and every child that is listed is a hot node, however  *)
(* batches, restarts and rehydrations fall.                                    *)
HotWindow ==
    /\ Cardinality(Hot(sess)) <= MaxHot
    /\ sess.selected # None => sess.selected \in Hot(sess)
    /\ ToSet(sess.roots) \subseteq Hot(sess)
    /\ \A i \in Hot(sess) : sess.nodes[i].children \subseteq Hot(sess)

(* The counts of tool calls, thoughts and subagents never drop while nodes are *)
(* demoted and recovered (session-hot-nodes-bound.test.ts); only a restart     *)
(* takes them from the log anew.                                               *)
CountsNeverDrop ==
    [][sess' # sess /\ ~(rebuilds' # rebuilds /\ Restart)
        => /\ sess'.metrics.tools >= sess.metrics.tools
           /\ sess'.metrics.thoughts >= sess.metrics.thoughts
           /\ sess'.metrics.subagents >= sess.metrics.subagents]_vars

Evidence(s) == {<<i, s.nodes[i].kind>> : i \in {j \in Hot(s) : s.nodes[j].kind # "thinking"}}

(* While nothing is demoted, a replay of the log has the very tool calls,      *)
(* results, file changes, goals and subagents that are shown, whatever the     *)
(* batches were (thoughts are folded differently).                             *)
ReplayKeepsEvidence ==
    sess.cold = 0 => Evidence(Replay(log)) = Evidence(sess)
=============================================================================

------------------------------ MODULE Missions ------------------------------
(***************************************************************************)
(* One durable mission: its document, its index entry, its checkpoints and *)
(* its compiled receipt bundle on the host (persist.ts, receipts.ts), the  *)
(* clients that replace the document as a whole (routes/missions.ts), and  *)
(* the readiness scheduler that decides which work items may start         *)
(* (scheduler.ts).                                                         *)
(*                                                                         *)
(* Every handler runs to its end without an await once the body is read,   *)
(* so handlers do not interleave; the process may die between two of its   *)
(* writes (`died'). scheduleMissionReceipts looks at one candidate after   *)
(* the other and is modelled as one step per candidate, during which       *)
(* nothing else happens. The dispatcher that starts what was selected and  *)
(* reports what runs is not in the repository: it starts the whole         *)
(* selection, then asks again.                                             *)
(***************************************************************************)
EXTENDS Integers, FiniteSets, Sequences

CONSTANTS Items,     \* work items of the plan
          Clients,   \* callers of the mission API
          Paths,     \* write scopes, as normalizeScopes leaves them
          Blank,     \* the scope that is left of "./": nothing
          Inside,    \* pairs <<p, q>>: the text of p is that of q, a slash and more
          Below,     \* pairs <<p, q>>: p is below q in the tree
          Unnamed,   \* items whose owner is free text and no id
          Deps,      \* the items each item depends on
          Drafts,    \* receipt drafts the leader may submit
          Caps,      \* the mission's and the items' durable token grants
          Limits,    \* provider capacities a schedule request may name
          Marks,     \* what clients say of an item: pairs of a status and a claim
          MaxPuts,   \* bound: documents written by clients
          MaxChecks  \* bound: checkpoints

Statuses == {"pending", "ready", "active", "blocked", "completed", "failed", "cancelled"}
Terminal == {"completed", "failed", "cancelled"}
\* What the document says an item ended with: nothing, a process exit, an outcome with evidence.
Claims   == {"none", "exit", "evidence"}

\* The schema refuses a grant of no tokens, and a reserve of none.
Positive == Nat \ {0}
Draft == [own : [Items -> SUBSET Paths], exclude : [Items -> SUBSET Paths],
          tokens : [Items -> Positive], rank : [Items -> Int], pos : [Items -> Nat],
          lead : [Items -> STRING], pinned : BOOLEAN,
          total : Positive, integration : Positive, recovery : Positive]

\* Of the constants:
MissionsAssumption ==
  /\ IsFiniteSet(Items) /\ Unnamed \subseteq Items
  /\ Inside \subseteq Paths \X Paths /\ Below \subseteq Paths \X Paths
  /\ Deps \in [Items -> SUBSET Items]
  /\ Drafts \subseteq Draft
  /\ Caps \in [mission : Nat, item : [Items -> Nat]]
  /\ Limits \subseteq Int /\ Marks \subseteq Statuses \X Claims /\ MaxPuts \in Nat /\ MaxChecks \in Nat

VARIABLES doc,     \* mission.json
          listed,  \* the mission is in index.json
          checks,  \* checkpoints/: one projection per file
          bundle,  \* receipts/<id>.json
          seen,    \* per client: the document it last read
          sched,   \* the scheduling call
          lane,    \* per item: the lane that runs it
          spent,   \* tokens consumed by lanes that have ended
          proven,  \* items that have ever been completed with evidence
          puts     \* documents written so far

vars == <<doc, listed, checks, bundle, seen, sched, lane, spent, proven, puts>>

-----------------------------------------------------------------------------
NoDoc  == [exists |-> FALSE, status |-> [i \in Items |-> "pending"],
           claim |-> [i \in Items |-> "none"], ref |-> 0]
NoLane == [runs |-> FALSE, own |-> {}, tokens |-> 0]
Running == {i \in Items : lane[i].runs}

\* scopesOverlap compares texts: "." overlaps nothing but itself.
Overlap(p, q) == p = q \/ <<p, q>> \in Inside \/ <<q, p>> \in Inside
OverlapSets(P, Q) == \E p \in P, q \in Q : Overlap(p, q)

\* The sum of the f[i]: the tokens of the items in S, counted one by one.
Units(f, S) == UNION {{i} \X (1..f[i]) : i \in S}
Total(f, S) == Cardinality(Units(f, S))
Max0(n) == IF n > 0 THEN n ELSE 0
Clamped(n) == IF n < 0 THEN 0 ELSE IF n > 64 THEN 64 ELSE n
Reserved == Total([i \in Items |-> lane[i].tokens], Running)

\* sanitizeMission, as far as the statuses go: completion needs an outcome with evidence.
Acceptable(d) == \A i \in Items : d.status[i] = "completed" => d.claim[i] = "evidence"

Completed(d) == {i \in Items : d.status[i] = "completed"}
Active(d)    == {i \in Items : d.status[i] \in {"active", "ready"}}
Blocked(d)   == {i \in Items : d.status[i] = "blocked"}

\* materializeCheckpoint: a failed item is listed with the completed ones.
Projection(d) == [completed |-> Completed(d) \cup {i \in Items : d.status[i] = "failed"},
                  active |-> Active(d), blocked |-> Blocked(d)]

-----------------------------------------------------------------------------
(* compileMissionReceiptBundle and what reading the bundle back demands. *)

\* assertNoUnplannedOverlap
Planned(d) == \A i, j \in Items :
  i # j /\ OverlapSets(d.own[i], d.own[j]) =>
    (j \in Deps[i] \/ i \in Deps[j]) /\ d.lead[i] = d.lead[j]

Execution(d) == d.total - d.integration - d.recovery
EnoughReserve(d) == d.integration * 5 >= d.total

CompilableUnplanned(d) ==
  /\ d.total = Caps.mission
  /\ EnoughReserve(d) /\ Execution(d) > 0
  /\ d.pinned
  /\ \A i \in Items : d.tokens[i] <= Caps.item[i] /\ d.own[i] \cap d.exclude[i] = {}
  /\ Total(d.tokens, Items) <= Execution(d)

Compilable(d) ==
  /\ d.total = Caps.mission
  /\ EnoughReserve(d) /\ Execution(d) > 0
  /\ d.pinned                                \* base revision, worktree and tools are granted
  /\ \A i \in Items : d.tokens[i] <= Caps.item[i] /\ d.own[i] \cap d.exclude[i] = {}
  /\ Planned(d)
  /\ Total(d.tokens, Items) <= Execution(d)

\* The persisted schema asks for more than those of the document and of the draft: an id for
\* every owner, and no scope that is nothing.
Legible(d) == Unnamed = {} /\ \A i \in Items : Blank \notin d.own[i] \cup d.exclude[i]

Consistent(b) ==
  /\ b.execution + b.integration + b.recovery = b.total
  /\ b.integration * 5 >= b.total
  /\ Total(b.tokens, Items) <= b.execution
  /\ \A i, j \in Items : i # j /\ OverlapSets(b.own[i], b.own[j]) =>
       (j \in b.dependsOn[i] \/ i \in b.dependsOn[j]) /\ b.lead[i] = b.lead[j]

\* migrateMissionReceiptBundle: a bundle that fails these is answered as not found.
Readable(b) == b.legible /\ Consistent(b)

\* The receipts carry the statuses the document has now.
Bundle(d) == [own |-> d.own, tokens |-> d.tokens, rank |-> d.rank, pos |-> d.pos, lead |-> d.lead,
              total |-> d.total, integration |-> d.integration, recovery |-> d.recovery,
              execution |-> Execution(d), dependsOn |-> Deps, status |-> doc.status,
              legible |-> Legible(d), exists |-> TRUE]
NoBundle == [own |-> [i \in Items |-> {}], tokens |-> [i \in Items |-> 0],
             rank |-> [i \in Items |-> 0], pos |-> [i \in Items |-> 0],
             lead |-> [i \in Items |-> "none"], total |-> 0, integration |-> 0, recovery |-> 0,
             execution |-> 0, dependsOn |-> Deps, status |-> [i \in Items |-> "pending"],
             legible |-> FALSE, exists |-> FALSE]

NoCall == [at |-> "idle", todo |-> {}, limit |-> 0, slots |-> 0, tokens |-> 0, locks |-> {},
           selected |-> {}, denied |-> {}, plan |-> NoBundle]

Init ==
  /\ doc = NoDoc /\ listed = FALSE
  /\ checks = <<>>
  /\ bundle = NoBundle
  /\ seen = [c \in Clients |-> NoDoc]
  /\ sched = NoCall
  /\ lane = [i \in Items |-> NoLane]
  /\ spent = 0 /\ proven = {} /\ puts = 0

Free == sched.at # "deciding"   \* the server is not inside the scheduling handler

-----------------------------------------------------------------------------
(* The document. *)

\* writeMission: mission.json, then index.json; `died' is a crash in between.
Written(d, died) ==
  /\ doc' = d
  /\ listed' = (listed \/ ~died)
  /\ proven' = proven \cup Completed(d)

\* POST /api/missions
Create(died) ==
  /\ Free /\ ~doc.exists
  /\ Written([NoDoc EXCEPT !.exists = TRUE], died)
  /\ UNCHANGED <<checks, bundle, seen, sched, lane, spent, puts>>

\* GET /api/missions/:id
Read(c) ==
  /\ Free /\ doc.exists /\ seen[c] # doc
  /\ seen' = [seen EXCEPT ![c] = doc]
  /\ UNCHANGED <<doc, listed, checks, bundle, sched, lane, spent, proven, puts>>

(* PUT /api/missions/:id, and POST with import: the body replaces the document, whatever was
   written since the client read it. A client sends its copy with one item changed. *)
Put(c, i, m, died) ==
  /\ Free /\ doc.exists /\ seen[c].exists /\ puts < MaxPuts
  /\ LET d == [seen[c] EXCEPT !.status[i] = m[1], !.claim[i] = m[2]]
     IN /\ Acceptable(d) /\ d # doc
        /\ Written(d, died)
        /\ seen' = [seen EXCEPT ![c] = d]
  /\ puts' = puts + 1
  /\ UNCHANGED <<checks, bundle, sched, lane, spent>>

(* POST /api/missions/:id/checkpoint: the checkpoint file, then the document that names it,
   then the index. *)
CheckpointFile == checks' = Append(checks, Projection(doc))
CheckpointDone(died) == Written([doc EXCEPT !.ref = Len(checks) + 1], died)

CheckpointNamedFirst(died) ==
  /\ Free /\ doc.exists /\ Len(checks) < MaxChecks
  /\ CheckpointDone(died)
  /\ (CheckpointFile \/ (died /\ UNCHANGED checks))
  /\ UNCHANGED <<bundle, seen, sched, lane, spent, puts>>

CheckpointPost(died) ==
  /\ Free /\ doc.exists /\ Len(checks) < MaxChecks
  /\ CheckpointFile
  /\ \/ CheckpointDone(died)
     \/ died /\ UNCHANGED <<doc, listed, proven>>
  /\ UNCHANGED <<bundle, seen, sched, lane, spent, puts>>

\* POST /api/missions/:id/receipts
Compile ==
  /\ Free /\ doc.exists
  /\ \E d \in Drafts :
       /\ Compilable(d)
       /\ bundle' = Bundle(d)
  /\ bundle' # bundle
  /\ UNCHANGED <<doc, listed, checks, seen, sched, lane, spent, proven, puts>>

-----------------------------------------------------------------------------
(* POST /api/missions/:id/schedule *)

\* A lane that reserved more than its receipt grants is refused: the call fails.
LanesAreReceipted(b) == \A i \in Running : lane[i].tokens <= b.tokens[i]

UnfinishedLocks(b) == {l \in Items \X Paths : l[1] \in Running /\ l[2] \in b.own[l[1]]
                                             /\ b.status[l[1]] \notin Terminal}
LaneLocks(b) == {l \in Items \X Paths : l[1] \in Running /\ l[2] \in b.own[l[1]]}

Ask(limit) ==
  /\ sched.at = "idle" /\ doc.exists /\ bundle.exists /\ Readable(bundle)
  /\ LanesAreReceipted(bundle)
  /\ sched' = [at |-> "deciding", todo |-> Items, limit |-> Clamped(limit),
               slots |-> Max0(Clamped(limit) - Cardinality(Running)),
               tokens |-> Max0(bundle.execution - spent - Reserved),
               locks |-> LaneLocks(bundle), selected |-> {}, denied |-> {}, plan |-> bundle]
  /\ UNCHANGED <<doc, listed, checks, bundle, seen, lane, spent, proven, puts>>

Before(b, i, j) == b.rank[i] > b.rank[j] \/ (b.rank[i] = b.rank[j] /\ b.pos[i] < b.pos[j])

\* The statuses that count as done for a dependent.
Ended(b) == {i \in Items : b.status[i] \in {"completed", "failed"}}
Done(b) == {i \in Items : b.status[i] = "completed"}

\* Neither ended, nor running, nor durably active without a lane, and its dependencies are done.
Ready(b, i) == /\ b.status[i] \notin Terminal /\ b.status[i] # "active"
               /\ ~lane[i].runs
               /\ b.dependsOn[i] \subseteq Done(b)

\* firstLockConflict
Conflict(b, i, locks) == \E l \in locks : l[1] # i /\ \E p \in b.own[i] : Overlap(p, l[2])

Affordable(c, i) == c.plan.tokens[i] <= c.tokens

\* What the call looks like once candidate i has passed every check.
SelectingForFree(c, i) == [c EXCEPT !.selected = @ \cup {i}, !.slots = @ - 1,
                                    !.locks = @ \cup ({i} \X c.plan.own[i])]
Selecting(c, i) == [c EXCEPT !.selected = @ \cup {i}, !.slots = @ - 1,
                             !.tokens = @ - c.plan.tokens[i],
                             !.locks = @ \cup ({i} \X c.plan.own[i])]

StopsAtHead(c, i) == [c EXCEPT !.todo = IF Affordable(c, i) THEN @ \ {i} ELSE {}]
Passed(c, i) == [c EXCEPT !.todo = @ \ {i}]

Decided(c, i, allowed) ==
  CASE ~Ready(c.plan, i) -> Passed(c, i)
    [] Ready(c.plan, i) /\ ~allowed -> [Passed(c, i) EXCEPT !.denied = @ \cup {i}]
    [] OTHER -> IF Conflict(c.plan, i, c.locks) \/ ~Affordable(c, i) \/ c.slots <= 0
                THEN Passed(c, i) ELSE Selecting(Passed(c, i), i)

\* One turn of the loop over the candidates; `allowed' is the approval and the verified isolation.
Decide(allowed) ==
  /\ sched.at = "deciding"
  /\ \E i \in sched.todo :
       /\ \A j \in sched.todo \ {i} : Before(sched.plan, i, j)
       /\ sched' = Decided(sched, i, allowed)
  /\ UNCHANGED <<doc, listed, checks, bundle, seen, lane, spent, proven, puts>>

Answer ==
  /\ sched.at = "deciding" /\ sched.todo = {}
  /\ sched' = [sched EXCEPT !.at = "answered"]
  /\ UNCHANGED <<doc, listed, checks, bundle, seen, lane, spent, proven, puts>>

-----------------------------------------------------------------------------
(* The dispatcher and the lanes. *)

Start ==
  /\ sched.at = "answered"
  /\ lane' = [i \in Items |-> IF i \in sched.selected
                              THEN [runs |-> TRUE, own |-> sched.plan.own[i], tokens |-> sched.plan.tokens[i]]
                              ELSE lane[i]]
  /\ sched' = NoCall
  /\ UNCHANGED <<doc, listed, checks, bundle, seen, spent, proven, puts>>

End(i) ==
  /\ Free /\ lane[i].runs
  /\ \E used \in {0, lane[i].tokens} : spent' = spent + used
  /\ lane' = [lane EXCEPT ![i] = NoLane]
  /\ UNCHANGED <<doc, listed, checks, bundle, seen, sched, proven, puts>>

-----------------------------------------------------------------------------
Next ==
  \/ \E died \in BOOLEAN :
       \/ Create(died) \/ CheckpointPost(died)
       \/ \E c \in Clients, i \in Items, m \in Marks : Put(c, i, m, died)
  \/ \E c \in Clients : Read(c)
  \/ Compile
  \/ \E n \in Limits : Ask(n)
  \/ \E allowed \in BOOLEAN : Decide(allowed)
  \/ Answer
  \/ Start
  \/ \E i \in Items : End(i)

Spec == Init /\ [][Next]_vars

-----------------------------------------------------------------------------
Docs == [exists : BOOLEAN, status : [Items -> Statuses], claim : [Items -> Claims], ref : Nat]

TypeOK ==
  /\ doc \in Docs /\ seen \in [Clients -> Docs] /\ listed \in BOOLEAN
  /\ sched.at \in {"idle", "deciding", "answered"}
  /\ sched.selected \subseteq Items /\ sched.denied \subseteq Items /\ sched.todo \subseteq Items
  /\ sched.locks \subseteq Items \X Paths
  /\ sched.tokens \in Nat /\ sched.slots \in Nat
  /\ lane \in [Items -> [runs : BOOLEAN, own : SUBSET Paths, tokens : Nat]]
  /\ spent \in Nat /\ proven \subseteq Items /\ puts \in 0..MaxPuts

(* The checkpoint a document names is on disk: the file is written before the name, and a
   stale client that puts an older document back only restores an older name
   (persist.ts:230, routes/missions.ts:199). *)
RefIsReadable == doc.ref \in 0..Len(checks) /\ \A c \in Clients : seen[c].ref \in 0..Len(checks)

(* What the compiler accepts passes the checks made again when it is read back: reserves, grants
   and overlaps are computed alike on both sides, over any draft and any statuses the document
   has by then (receipts.ts:262 and :485). *)
CompiledStaysConsistent == bundle.exists => Consistent(bundle)

(* "compiles, freezes, persists, reads, and migrates bounded receipts"
   (mission-orchestration.test.ts:176): a bundle that was accepted and saved can be read.
   The code does not keep it (README, section 7): the persisted schema wants an id for the owner the document has as
   free text (validate.ts:504), and no scope that normalises to nothing. *)
SavedBundleIsReadable == bundle.exists => Readable(bundle)

(* What one call selects overlaps neither with anything else it selects nor with what runs, as
   the bundle of the call tells the scopes, whatever was decided before and whatever ended
   meanwhile (scheduler.ts:139-149, 232). *)
SelectedScopesAreFree ==
  sched.at # "idle" =>
    \A i \in sched.selected, j \in Running \cup sched.selected :
      i # j => ~OverlapSets(sched.plan.own[i], sched.plan.own[j])

Shares(p, q) == p = q \/ <<p, q>> \in Below \/ <<q, p>> \in Below

(* "no two concurrent leaves own the same write surface without an explicit integration plan"
   (docs/GROK_CLI_AND_AGENT_ORCHESTRATION_ROADMAP.md:104). The code does not keep it (README,
   section 7): the scope "." holds the whole tree and overlaps nothing, in the compiler as in the scheduler. *)
OneWriterPerScope ==
  \A i, j \in Running : i # j => ~\E p \in lane[i].own, q \in lane[j].own : Shares(p, q)

(* Starting lanes never dips into the integration and recovery reserves: what ended lanes
   consumed and running lanes reserve fits the execution tokens of the bundle used
   (roadmap line 105, scheduler.ts:141-147). *)
ReservesAreProtected ==
  [][Running' \subseteq Running \/ spent + Reserved' <= sched.plan.execution]_vars

(* An item runs only after every item it depends on has been completed with evidence at some
   time, through any number of stale documents and recompiled bundles. *)
WorkFollowsItsDependencies == \A i \in Running : Deps[i] \subseteq proven

(* A selection is maximal: an item that passed the readiness checks and was left out conflicts
   with a lock, exceeds what is left of the budget, or no slot is left. A head item that
   cannot be afforded starves nobody (mission-orchestration.test.ts:235). *)
SelectionIsMaximal ==
  sched.at = "deciding" /\ sched.todo = {} =>
    \A i \in Items \ (sched.selected \cup sched.denied) : Ready(sched.plan, i) =>
      \/ Conflict(sched.plan, i, sched.locks) \/ ~Affordable(sched, i) \/ sched.slots = 0

(* What the host refers to can be read and was compiled from a plan that holds together; what is
   selected shares no scope, an item starts after what it depends on is proven, and nothing
   that could start is passed over (persist.ts:263, receipts.ts:446, scheduler.ts:125, 151). *)
PlanIsSound ==
  /\ RefIsReadable /\ CompiledStaysConsistent
  /\ SelectedScopesAreFree /\ WorkFollowsItsDependencies /\ SelectionIsMaximal
=============================================================================

------------------------------- MODULE Review -------------------------------
(* What the review workbench derives from a session: the validation lane of  *)
(* its trace, the issue markers, the readiness of a commit and the next      *)
(* action, on four surfaces that compute them separately.                    *)
(*   src/lib/{validation-lane,review-queue,review-readiness,file-risk}.ts    *)
(*   src/lib/handoff-flow.ts, src/components/diff/diff-panel.tsx,            *)
(*   src/components/git/commit-checklist.tsx, session/workspace.tsx          *)
(* The rows are taken at the moments they are shown; how the git facts reach *)
(* them is GitHandoff's matter.                                              *)
EXTENDS SessionLifecycle, Sequences
LOCAL INSTANCE SequencesExt

CONSTANTS
  Paths,       \* files that may change
  MaxTrail,    \* entries the trace keeps (MAX_HOT_NODES, MAX_EVENT_LOG)
  MaxCount,    \* bound: tools, and errors
  MaxEdits     \* bound: changes of files and comments

VARIABLES
  sess,     \* the session row: status, trace entries, files, open comments
  job,      \* the row of the background job it belongs to
  run,      \* where runHarness is: idle, starting, asking, granted, live
  badge,    \* the workspace tab: key of its memo and the counts of that moment
  edits

vars == <<sess, job, run, badge, edits>>

Tools == {"test", "tool"}
Marks == {"source", "secret", "conflict", "staged"}

Live(s) == s.status \in {"starting", "running"}
Entries(s) == DOMAIN s.trail

-----------------------------------------------------------------------------
(* itemFromToolNode and itemFromSystemishNode: the status of an entry in the *)
(* validation lane.  A request stays blocked, whatever is decided later; an  *)
(* interrupted one reads as a decision that was not a denial; and the entry  *)
(* of a launch says running for ever.                                        *)
ItemStatus(e) ==
  CASE e.kind \in Tools \cup {"run"} -> e.state
    [] e.kind \in {"asked", "denied", "policy"} -> "blocked"
    [] e.kind \in {"granted", "interrupted"} -> "success"
    [] e.kind = "error" -> "failed"

(* buildValidationLane: without an entry of the run itself the status of the *)
(* session is one more item.                                                 *)
Having(s, status) == Cardinality({i \in Entries(s) : ItemStatus(s.trail[i]) = status})
Failed(s) == Having(s, "failed") + IF s.status = "error" THEN 1 ELSE 0
NeedsAttention(s) == Failed(s) > 0 \/ Having(s, "blocked") > 0
TabBadge(s) == Failed(s) + Having(s, "blocked") + Having(s, "running")

(* classifyFileRisk puts a secret path above everything else; its level and  *)
(* the conflict decide whether the file is high risk.                        *)
HighRisk(s) == {p \in Paths : s.files[p] \cap {"secret", "conflict"} # {}}

(* buildReviewIssueMarkers: files, open comments and the items of the lane   *)
(* that a reviewer has to clear.  A failed tool is no marker, nor is a test  *)
(* that never finished; a tool or a launch that never did is one.            *)
Incomplete(s, e) == e.kind \in {"tool", "run"} /\ e.state = "running" /\ ~Live(s)
IsMarker(s, e) ==
  \/ e.kind = "test" /\ e.state = "failed"
  \/ ItemStatus(e) = "blocked" \/ e.kind = "error"
  \/ Incomplete(s, e)
Issues(s) ==
  Cardinality({i \in Entries(s) : IsMarker(s, s.trail[i])}) + s.comments
    + Cardinality({p \in Paths : "conflict" \in s.files[p]})
    + Cardinality({p \in Paths : "secret" \in s.files[p]})

Row(s) == [status |-> s.status, restore |-> "", comments |-> s.comments > 0,
           changed |-> \E p \in Paths : s.files[p] # {},
           conflict |-> \E p \in Paths : "conflict" \in s.files[p]]

Diagnostic(s, j) == Classify(Row(s), LinkedJob(j)).source = "diagnostic"
ReviewReady(s, j) == Classify(Row(s), LinkedJob(j)).lane = "ready_review"
Staged(s) == {p \in Paths : "staged" \in s.files[p]}
Unstaged(s) == {p \in Paths : s.files[p] # {} /\ "staged" \notin s.files[p]}

(* buildReviewReadiness: no item of the checklist blocks the commit.         *)
ReadyToCommit(s, j) ==
  /\ ~Diagnostic(s, j) /\ ~Row(s).conflict
  /\ Staged(s) # {} /\ ~s.guarded

(* The chain without its fifth case.                                         *)
ReviewNextUnvalidated(s, j) ==
  CASE Diagnostic(s, j) -> "inspect_state"
    [] ~Diagnostic(s, j) /\ Live(s) -> "wait"
    [] OTHER ->
  IF Issues(s) > 0 THEN "review_findings"
  ELSE IF Staged(s) = {} /\ Unstaged(s) # {} THEN "stage"
  ELSE IF ReadyToCommit(s, j) THEN "commit"
  ELSE IF ReviewReady(s, j) THEN "open_handoff" ELSE "none"

(* pickReviewNextAction: the first case that applies.                        *)
ReviewNext(s, j) ==
  CASE Diagnostic(s, j) -> "inspect_state"
    [] ~Diagnostic(s, j) /\ Live(s) -> "wait"
    [] OTHER ->
  IF Issues(s) > 0 THEN "review_findings"
  ELSE IF NeedsAttention(s) THEN "validate"
  ELSE IF Staged(s) = {} /\ Unstaged(s) # {} THEN "stage"
  ELSE IF ReadyToCommit(s, j) THEN "commit"
  ELSE IF ReviewReady(s, j) THEN "open_handoff" ELSE "none"

(* buildHandoffFlow, up to the steps that only read the branch.  The Git     *)
(* panel passes no job.                                                      *)
FlowNext(s) ==
  CASE Diagnostic(s, NoJob) -> "inspect_state"
    [] ~Diagnostic(s, NoJob) /\ Live(s) -> "wait"
    [] OTHER ->
  IF Issues(s) > 0 \/ NeedsAttention(s) THEN "review"
  ELSE IF Staged(s) # {} THEN "commit"
  ELSE IF Unstaged(s) # {} THEN "stage" ELSE "branch"

(* The commit button of the Git panel: useCommitReadiness passes no job.     *)
CommitEnabled(s) == ReadyToCommit(s, NoJob)

-----------------------------------------------------------------------------
(* workspace.tsx: the badges are computed again when their key changes.      *)
KeyOfTools(s) == <<0, s.tools, s.status>>
Key(s) == <<s.errors, s.tools, s.status>>

Badge(s) == [key |-> Key(s), count |-> TabBadge(s)]
Show(s) == badge' = IF Key(s) # badge.key THEN Badge(s) ELSE badge

(* An entry joins the trace, and a full trace forgets one: the oldest that   *)
(* neither a file nor the log keeps.  The metrics count what an entry is.    *)
Errors == {"error", "policy", "interrupted"}
Kept(trail) ==
  IF Len(trail) < MaxTrail THEN {trail} ELSE {RemoveAt(trail, i) : i \in DOMAIN trail}
Added(s, kind) ==
  {[s EXCEPT !.trail = Append(t, [kind |-> kind,
                 state |-> IF kind \in Tools \cup {"run"} THEN "running" ELSE "done"]),
             !.tools = @ + IF kind \in Tools THEN 1 ELSE 0,
             !.errors = @ + IF kind \in Errors THEN 1 ELSE 0] : t \in Kept(s.trail)}
Room == sess.tools < MaxCount /\ sess.errors < MaxCount
Becomes(next) == sess' \in next /\ Show(sess')

Init ==
  /\ sess \in [status : {"ready"}, trail : {<<>>}, tools : {0}, errors : {0},
               comments : {0}, guarded : BOOLEAN, files : {[p \in Paths |-> {}]}]
  /\ job \in {NoJob, [status |-> "running", outcome |-> "none", linked |-> TRUE]}
  /\ run = "idle" /\ badge = Badge(sess) /\ edits = 0

-----------------------------------------------------------------------------
(* A prompt: the launch is put on record before it is asked for, and goes    *)
(* ahead, needs an approval, or is refused (harness.ts:39-240).  Whatever    *)
(* enters the trace of a session that is ready makes it running.             *)
Launch ==
  /\ run = "idle" /\ run' = "starting" /\ Room
  /\ Becomes(Added([sess EXCEPT !.status = "running"], "run"))
  /\ UNCHANGED <<job, edits>>
Ask ==
  /\ run = "starting" /\ run' = "asking"
  /\ Becomes(Added([sess EXCEPT !.status = "running"], "asked"))
  /\ UNCHANGED <<job, edits>>
Grant ==
  /\ run = "asking" /\ run' = "granted"
  /\ Becomes(Added([sess EXCEPT !.status = "starting"], "granted"))
  /\ UNCHANGED <<job, edits>>
Deny(kind) ==
  /\ run = "asking" /\ run' = "idle" /\ Room
  /\ Becomes(Added([sess EXCEPT !.status = "running"], kind))
  /\ UNCHANGED <<job, edits>>
Starts ==
  /\ run \in {"starting", "granted"} /\ run' = "live"
  /\ Becomes({[sess EXCEPT !.status = "running"]})
  /\ UNCHANGED <<job, edits>>
Refuse(kind) ==
  /\ run \in {"starting", "granted"} /\ run' = "idle" /\ Room
  /\ run = "granted" => kind = "error"
  /\ Becomes(Added([sess EXCEPT !.status = "error"], kind))
  /\ UNCHANGED <<job, edits>>

(* The run: a tool starts and ends, an error is reported.                    *)
Begins(kind) ==
  /\ run = "live" /\ Room /\ Becomes(Added(sess, kind))
  /\ UNCHANGED <<job, run, edits>>
Finishes(i, state) ==
  /\ run = "live" /\ sess.trail[i].kind \in Tools /\ sess.trail[i].state = "running"
  /\ Becomes({[sess EXCEPT !.trail[i].state = state,
                           !.errors = @ + IF state = "failed" THEN 1 ELSE 0]})
  /\ UNCHANGED <<job, run, edits>>
AgentEnds(status) ==
  /\ run = "live" /\ run' = "idle" /\ Becomes({[sess EXCEPT !.status = status]})
  /\ UNCHANGED <<job, edits>>

(* resolveSyncedStatus: the poll finds no process behind a running session.  *)
StatusSynced ==
  /\ run # "live" /\ Live(sess) /\ Becomes({[sess EXCEPT !.status = "ready"]})
  /\ UNCHANGED <<job, run, edits>>

(* The job row follows later, or is cancelled first.                         *)
JobSettles ==
  /\ job.status = "running" /\ SessionOutcome(sess.status) # "none"
  /\ job' = [job EXCEPT !.status = SessionOutcome(sess.status),
                        !.outcome = SessionOutcome(sess.status)]
  /\ UNCHANGED <<sess, run, badge, edits>>
JobCancelled ==
  /\ job.status = "running"
  /\ job' = [job EXCEPT !.status = "cancelled", !.outcome = "cancelled"]
  /\ UNCHANGED <<sess, run, badge, edits>>

(* A git sync changes what is known of a file; the reviewer comments,        *)
(* resolves, and reloads the page, which computes every badge again.         *)
FileSynced(p, marks) ==
  /\ edits < MaxEdits /\ edits' = edits + 1
  /\ Becomes({[sess EXCEPT !.files[p] = marks]}) /\ UNCHANGED <<job, run>>
Comment ==
  /\ edits < MaxEdits /\ edits' = edits + 1
  /\ Becomes({[sess EXCEPT !.comments = @ + 1]}) /\ UNCHANGED <<job, run>>
Resolve ==
  /\ sess.comments > 0
  /\ Becomes({[sess EXCEPT !.comments = @ - 1]}) /\ UNCHANGED <<job, run, edits>>
Reload ==
  /\ badge # Badge(sess) /\ badge' = Badge(sess)
  /\ UNCHANGED <<sess, job, run, edits>>

Next ==
  \/ Launch \/ Ask \/ Grant \/ Starts \/ StatusSynced \/ JobSettles \/ JobCancelled
  \/ Comment \/ Resolve \/ Reload
  \/ \E kind \in {"denied", "interrupted"} : Deny(kind)
  \/ \E kind \in {"error", "policy"} : Refuse(kind)
  \/ \E kind \in Tools \cup {"error"} : Begins(kind)
  \/ \E i \in Entries(sess), state \in {"success", "failed"} : Finishes(i, state)
  \/ \E status \in {"completed", "error", "stopped"} : AgentEnds(status)
  \/ \E p \in Paths, marks \in SUBSET Marks : FileSynced(p, marks)

Spec == Init /\ [][Next]_vars

-----------------------------------------------------------------------------
TypeOK ==
  /\ sess.files \in [Paths -> SUBSET Marks] /\ sess.comments \in 0..MaxEdits
  /\ run \in {"idle", "starting", "asking", "granted", "live"}
  /\ sess.status \in {"ready", "starting", "running", "completed", "error", "stopped"}
  /\ Len(sess.trail) <= MaxTrail /\ badge.count \in 0..MaxTrail + 1

(* The review surface and the completion flow derive the next step in code   *)
(* of their own, and only the first knows the job.  While the claims of the  *)
(* two do not contradict each other, they never send the user two ways: what *)
(* the first offers, the second offers too (review-readiness.ts:138-220,     *)
(* handoff-flow.ts:148-237, git-panel.tsx:119).                              *)
SurfacesAgree ==
  LET r == ReviewNext(sess, job)
      f == FlowNext(sess)
  IN ~Diagnostic(sess, job) =>
       /\ r \in {"wait", "stage", "commit"} => f = r
       /\ r \in {"review_findings", "validate"} <=> f = "review"

(* The tab never hides a failure: the memo's key moves with every tool or    *)
(* error that fails, in whatever order entries come (workspace.tsx:57-80).   *)
FailuresAreCounted == badge.count >= Failed(sess)

(* "contradictions never become optimistic success" (review-readiness.ts:7): *)
(* while the claims contradict each other, a commit is not offered.          *)
ContradictionBlocksCommit == Diagnostic(sess, job) => ~CommitEnabled(sess)
(* What the comment says of a session whose approval modal is open: 'Not     *)
(* "running" — avoids git-watch thrash while the modal is open'              *)
(* (harness.ts:98).  The code does not keep it (README, section 7): the entry*)
(* that reports the modal makes the session running again.                   *)
AskingIsNotRunning == run = "asking" => ~Live(sess)

(* "Tool/command never finished" (review-queue.ts:410) is said of no run     *)
(* that ended in order.  The code does not keep it (README, section 7): the  *)
(* entry of the launch is never closed.                                      *)
FinishedRunsAreComplete ==
  sess.status = "completed" =>
    \A i \in Entries(sess) : sess.trail[i].kind = "run" => ~IsMarker(sess, sess.trail[i])
=============================================================================

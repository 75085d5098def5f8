------------------------------- MODULE Inbox --------------------------------
(* The lifecycle projection: the lane, the reason and the next action shown  *)
(* for a session and the background job it belongs to                        *)
(* (src/lib/session-inbox.ts, src/lib/session-lifecycle-projection.ts), and  *)
(* the sidebar that recomputes it only when a fingerprint of both changes    *)
(* (src/components/shell/sidebar.tsx).  The session row and the job row are  *)
(* written by different steps of a run, so they disagree for a while.        *)
EXTENDS SessionLifecycle

CONSTANT
  MaxSteps    \* bound: steps of the surroundings

VARIABLES
  sess,    \* the session row: status, and what the lane reads
  job,     \* the row of the background job that created the session
  shown,   \* the sidebar: fingerprint, lane, source of the reason, data used
  steps    \* surroundings' steps taken

vars == <<sess, job, shown, steps>>

(* toInboxEntry, and jobToInboxEntry for a job without a session: the entry  *)
(* of the work in the list.                                                  *)
JobLane(j) ==
  CASE j.status = "waiting_approval" -> Lane("waiting", "approval")
    [] j.status \in {"running", "starting"} -> Lane("running", "job")
    [] j.status = "queued" -> Lane("queued", "job")
    [] j.status = "failed" -> Lane("failed", "job")
    [] OTHER -> Lane("finished", "job")
Entry(s, j) ==
  IF s.status = "none" THEN JobLane(j) ELSE Classify(s, LinkedJob(j))

(* inboxSessionFingerprint and inboxJobsFingerprint: the fields whose change *)
(* makes the sidebar compute its lanes again.                                *)
FingerprintWithoutRestore(s, j) ==
  [status |-> s.status, conflict |-> s.conflict, changed |-> s.changed,
   tick |-> s.tick, job |-> <<j.status, j.linked>>]

Fingerprint(s, j) ==
  [status |-> s.status, restore |-> s.restore, conflict |-> s.conflict,
   changed |-> s.changed, tick |-> s.tick, job |-> <<j.status, j.linked>>]

Computed(s, j) ==
  [key |-> Fingerprint(s, j), of |-> Entry(s, j), comments |-> s.comments,
   outcome |-> j.outcome]

Shows(s, j) == IF Fingerprint(s, j) # shown.key THEN Computed(s, j) ELSE shown

-----------------------------------------------------------------------------
NoSession ==
  [status |-> "none", restore |-> "", conflict |-> FALSE,
   changed |-> FALSE, comments |-> FALSE, tick |-> 0]

Init ==
  /\ sess = NoSession
  /\ job = [NoJob EXCEPT !.status = "queued"]
  /\ shown = Computed(NoSession, [NoJob EXCEPT !.status = "queued"])
  /\ steps = 0

(* A step of the surroundings writes the session or the job row and the      *)
(* sidebar renders; updatedAt is only read in buckets of 30 seconds.         *)
Write(s, j) ==
  /\ steps < MaxSteps /\ steps' = steps + 1
  /\ sess' = s /\ job' = j
  /\ shown' = Shows(s, j)

Exists == sess.status # "none"
AgentRuns == sess.status \in ActiveSession

(* executeJob: starting, a session of its own, the row linked to it, and     *)
(* then the agent (background-runner.ts:440-650).                            *)
JobStarts ==
  /\ job.status = "queued" /\ Write(sess, [job EXCEPT !.status = "starting"])
SessionCreated ==
  /\ job.status = "starting" /\ ~Exists
  /\ Write([sess EXCEPT !.status = "ready"], job)
JobRuns ==
  /\ job.status = "starting" /\ Exists
  /\ Write(sess, [job EXCEPT !.status = "running", !.linked = TRUE])

(* The session row follows the agent: it works, it ends one way or another,  *)
(* and the user may send the next prompt into the same session.              *)
AgentStarts ==
  /\ sess.status = "ready" /\ job.linked /\ Write([sess EXCEPT !.status = "starting"], job)
AgentWorks ==
  /\ sess.status = "starting" /\ Write([sess EXCEPT !.status = "running"], job)
AgentEnds(s) ==
  /\ AgentRuns /\ Write([sess EXCEPT !.status = s], job)
FollowUp ==
  /\ Exists /\ ~AgentRuns /\ job.status \notin ActiveJob
  /\ Write([sess EXCEPT !.status = "running"], job)

(* The job row is settled from the session that ended; a cancellation writes *)
(* it while the agent is still at work, and a restart that lost the agent    *)
(* marks it interrupted.                                                     *)
JobSettles ==
  /\ job.linked /\ job.status \in ActiveJob /\ SessionOutcome(sess.status) # "none"
  /\ LET o == SessionOutcome(sess.status)
     IN Write(sess, [job EXCEPT !.status = o, !.outcome = o])
JobCancelled ==
  /\ job.status \in ActiveJob
  /\ Write(sess, [job EXCEPT !.status = "cancelled", !.outcome = "cancelled"])
JobInterrupted ==
  /\ job.status \in ActiveJob
  /\ Write(sess, [job EXCEPT !.status = "failed", !.outcome = "interrupted"])

(* What else the lane reads.  No code of the repository ever writes the      *)
(* status waiting_approval.                                                  *)
GitChanges ==
  Exists /\ \E c, d \in BOOLEAN : Write([sess EXCEPT !.conflict = c, !.changed = d], job)
Comment == Exists /\ Write([sess EXCEPT !.comments = ~@], job)
Restore(r) == Exists /\ Write([sess EXCEPT !.restore = r], job)
ClockTicks == Exists /\ sess.tick = 0 /\ Write([sess EXCEPT !.tick = 1], job)

Next ==
  \/ JobStarts \/ SessionCreated \/ JobRuns
  \/ JobSettles \/ JobCancelled \/ JobInterrupted
  \/ AgentStarts \/ AgentWorks \/ FollowUp \/ GitChanges \/ Comment \/ ClockTicks
  \/ \E s \in {"completed", "error", "stopped"} : AgentEnds(s)
  \/ \E r \in {"", "restoring", "unavailable"} : Restore(r)

Spec == Init /\ [][Next]_vars

-----------------------------------------------------------------------------
Now == Entry(sess, job)

TypeOK ==
  /\ sess.status \in ActiveSession \cup {"none", "ready", "completed", "error", "stopped"}
  /\ job.status \in ActiveJob \cup {"completed", "failed", "cancelled"}
  /\ NextAction(Now) = "Open" => Now.lane \in {"waiting", "idle"}

(* Work is shown as ready for review or finished only when no claim of the   *)
(* session or of its job says otherwise (session-inbox.ts:262-303).          *)
SuccessIsUnanimous ==
  Exists /\ Now.lane \in {"ready_review", "finished"} =>
    /\ sess.status \notin ActiveSession \cup {"error"}
    /\ job.linked => job.status \notin ActiveJob \cup {"failed"}
    /\ job.linked /\ sess.status = "completed" => job.status = "completed"

(* The sidebar never shows a lane computed from data that has changed since, *)
(* review comments and outcome records aside, which the fingerprint leaves   *)
(* out (session-inbox.ts:798-825).                                           *)
LaneIsCurrent ==
  shown.of = Entry([sess EXCEPT !.comments = shown.comments],
                   [job EXCEPT !.outcome = shown.outcome])
=============================================================================

-------------------------- MODULE SessionLifecycle --------------------------
(* The lifecycle projection shared by the inbox, the review workbench and    *)
(* the handoff flow: the outcome a session row and a job row claim, whether  *)
(* the claims contradict each other, and the lane that follows               *)
(* (src/lib/session-inbox.ts, src/lib/session-lifecycle-projection.ts).      *)
EXTENDS Naturals, FiniteSets

ActiveJob == {"queued", "starting", "running", "waiting_approval"}
ActiveSession == {"starting", "running", "paused"}

(* Mutant: the status itself is taken for the outcome. *)
SessionOutcomeAsIs(s) == IF s \in {"completed", "error", "stopped"} THEN s ELSE "none"

SessionOutcome(s) ==
  CASE s = "completed" -> "completed" [] s = "error" -> "failed"
    [] s = "stopped" -> "cancelled" [] OTHER -> "none"
JobOutcome(j) == IF j \in {"completed", "failed", "cancelled", "skipped"} THEN j ELSE "none"

NoJob == [status |-> "none", outcome |-> "none", linked |-> FALSE]

(* jobBySessionId: the row counts for the session once it names it. *)
LinkedJob(j) == IF j.linked THEN j ELSE NoJob

-----------------------------------------------------------------------------
(* Only "over" against "at work" is compared, not how it ended. *)
ContradictionOfActivity(s, j) ==
  \/ SessionOutcome(s.status) # "none" /\ j.status \in ActiveJob
  \/ JobOutcome(j.status) # "none" /\ s.status \in ActiveSession

(* describeLifecycleContradiction *)
Contradiction(s, j) ==
  /\ j.status # "none"
  /\ \/ SessionOutcome(s.status) # "none" /\ j.status \in ActiveJob
     \/ JobOutcome(j.status) # "none" /\ s.status \in ActiveSession
     \/ /\ SessionOutcome(s.status) # "none" /\ JobOutcome(j.status) # "none"
        /\ SessionOutcome(s.status) # JobOutcome(j.status)
        /\ ~(SessionOutcome(s.status) = "cancelled" /\ j.status = "skipped")
     \/ /\ j.outcome # "none" /\ JobOutcome(j.status) # "none"
        /\ j.status # IF j.outcome = "interrupted" THEN "failed" ELSE j.outcome

Lane(lane, source) == [lane |-> lane, source |-> source]

(* classifySessionLane: the first case that applies. *)
Classify(s, j) ==
  CASE Contradiction(s, j) -> Lane("waiting", "diagnostic")
    [] ~Contradiction(s, j) /\ s.restore # "" -> Lane("waiting", "restore")
    [] OTHER ->
  IF j.status = "waiting_approval" THEN Lane("waiting", "approval")
  ELSE IF s.status = "paused" THEN Lane("waiting", "session")
  ELSE IF s.conflict THEN Lane("waiting", "git")
  ELSE IF s.status \in {"running", "starting"} THEN Lane("running", "session")
  ELSE IF j.status \in {"running", "starting"} THEN Lane("running", "job")
  ELSE IF j.status = "queued" THEN Lane("queued", "job")
  ELSE IF s.status = "error" \/ j.status = "failed"
       THEN Lane("failed", IF j.status = "failed" THEN "job" ELSE "session")
  ELSE IF s.changed \/ s.comments THEN Lane("ready_review", "review")
  ELSE IF JobOutcome(j.status) # "none" THEN Lane("finished", "job")
  ELSE IF s.status \in {"completed", "stopped"} THEN Lane("finished", "session")
  ELSE Lane("idle", "session")

NextAction(c) ==
  CASE c.lane = "ready_review" -> "Review changes"
    [] c.source = "approval" -> "Review approval"
    [] c.source = "diagnostic" -> "Inspect state"
    [] c.source = "restore" -> "Recover"
    [] c.lane = "failed" -> "Inspect failure"
    [] c.lane = "running" -> "Monitor"
    [] c.lane = "queued" -> "View queue"
    [] c.lane = "finished" -> "View result"
    [] OTHER -> "Open"
=============================================================================

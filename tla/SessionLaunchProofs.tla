-------------------------- MODULE SessionLaunchProofs --------------------------
(***************************************************************************)
(* The safety theorems of SessionLaunch, for every set of runs, sessions,  *)
(* every kind of run, and any number of faults and restarts: the registry, *)
(* the prompt files, who a process was started for, what a stop reaches.   *)
(***************************************************************************)
EXTENDS SessionLaunch, TLAPS

-----------------------------------------------------------------------------
(* Types                                                                   *)

LEMMA Values ==
    /\ Over \subseteq Place /\ Awaiting \subseteq Place
    /\ {"idle", "asking", "deciding", "reading", "stopping", "posting", "reposting",
        "ended", "withdrawn"} \subseteq Place
    /\ {"ready", "starting", "running", "completed", "stopped", "error"}
            \subseteq SessionStatus
    /\ {"none", "deny", "allow_once", "allow_always"} \subseteq Choice
    /\ {"none", "sent", "preparing", "ask", "refused", "stream", "lost"} \subseteq Post
    /\ {"none", "ready", "retained", "removed"} \subseteq Prompt
    /\ {"none", "ok", "error", "timeout"} \subseteq Code
  BY DEF Place, Awaiting, Over, SessionStatus, Choice, Post, Prompt, Code

LEMMA CallIsTyped ==
    ASSUME TypeOK, NEW r \in Runs, NEW p \in Place, NEW s \in SessionStatus
    PROVE  /\ Goto(r, p) => call' \in [Runs -> Call]
           /\ Finish(r, p, s) => call' \in [Runs -> Call]
           /\ [call EXCEPT ![r].aborted = TRUE, ![r].at = p, ![r].status = s]
                \in [Runs -> Call]
<1>1. call[r] \in Call
  BY DEF TypeOK
<1>2. /\ [call[r] EXCEPT !.at = p] \in Call
      /\ [call[r] EXCEPT !.at = p, !.status = s] \in Call
      /\ [call[r] EXCEPT !.aborted = TRUE, !.at = p, !.status = s] \in Call
  BY <1>1 DEF Call
<1>3. ASSUME NEW c \in Call PROVE [call EXCEPT ![r] = c] \in [Runs -> Call]
  BY DEF TypeOK
<1>4. QED
  BY <1>2, <1>3 DEF Goto, Finish

LEMMA CallSays ==
    ASSUME TypeOK, NEW r \in Runs, NEW p \in Place, NEW d \in Choice
    PROVE  /\ [call EXCEPT ![r].at = p, ![r].said = d] \in [Runs -> Call]
           /\ [call EXCEPT ![r].aborted = TRUE] \in [Runs -> Call]
           /\ [call EXCEPT ![r].aborted = TRUE, ![r].at = p] \in [Runs -> Call]
<1>1. call[r] \in Call
  BY DEF TypeOK
<1>2. /\ [call[r] EXCEPT !.at = p, !.said = d] \in Call
      /\ [call[r] EXCEPT !.aborted = TRUE] \in Call
      /\ [call[r] EXCEPT !.aborted = TRUE, !.at = p] \in Call
  BY <1>1 DEF Call
<1>3. ASSUME NEW c \in Call PROVE [call EXCEPT ![r] = c] \in [Runs -> Call]
  BY DEF TypeOK
<1>4. QED
  BY <1>2, <1>3

LEMMA PostIsTyped ==
    ASSUME TypeOK, NEW r \in Runs, NEW m \in Post, Say(r, m)
    PROVE  post' \in [Runs -> Post]
  BY DEF TypeOK, Say

LEMMA PromptIsTyped ==
    ASSUME TypeOK, NEW r \in Runs, NEW k \in Prompt
    PROVE  /\ [prompt EXCEPT ![r] = k] \in [Runs -> Prompt]
           /\ [prompt EXCEPT ![r] = IF @ = "none" THEN @ ELSE k] \in [Runs -> Prompt]
  BY DEF TypeOK

LEMMA ApprovalFields ==
    ASSUME TypeOK, NEW r \in Runs
    PROVE  /\ approval[r].request \in {"none", "pending", "gone"}
           /\ approval[r].token \in {"none", "live", "gone"}
           /\ approval[r].denying \in BOOLEAN
<1>1. approval[r] \in Approval
  BY DEF TypeOK
<1>2. QED
  BY <1>1 DEF Approval

LEMMA ApprovalIsTyped ==
    ASSUME TypeOK, NEW r \in Runs, NEW q \in {"none", "pending", "gone"},
           NEW t \in {"none", "live", "gone"}
    PROVE  /\ [approval EXCEPT ![r].request = q, ![r].token = t] \in [Runs -> Approval]
           /\ [approval EXCEPT ![r].token = t, ![r].request = q] \in [Runs -> Approval]
<1>1. approval[r] \in Approval
  BY DEF TypeOK
<1>2. /\ [approval[r] EXCEPT !.request = q, !.token = t] \in Approval
      /\ [approval[r] EXCEPT !.token = t, !.request = q] \in Approval
  BY <1>1 DEF Approval
<1>3. ASSUME NEW a \in Approval PROVE [approval EXCEPT ![r] = a] \in [Runs -> Approval]
  BY DEF TypeOK
<1>4. QED
  BY <1>2, <1>3

LEMMA RequestIsTyped ==
    ASSUME TypeOK, NEW r \in Runs, NEW q \in {"none", "pending", "gone"}
    PROVE  [approval EXCEPT ![r].denying = FALSE, ![r].request = q] \in [Runs -> Approval]
<1>1. approval[r] \in Approval
  BY DEF TypeOK
<1>2. [approval[r] EXCEPT !.denying = FALSE, !.request = q] \in Approval
  BY <1>1 DEF Approval
<1>3. ASSUME NEW a \in Approval PROVE [approval EXCEPT ![r] = a] \in [Runs -> Approval]
  BY DEF TypeOK
<1>4. QED
  BY <1>2, <1>3

LEMMA ApprovalStaysTyped ==
    ASSUME TypeOK, NEW r \in Runs
    PROVE  /\ [approval EXCEPT ![r].request = "gone"] \in [Runs -> Approval]
           /\ [approval EXCEPT ![r].denying = TRUE] \in [Runs -> Approval]
           /\ [approval EXCEPT ![r].token = "gone"] \in [Runs -> Approval]
<1>1. approval[r] \in Approval
  BY DEF TypeOK
<1>2. /\ [approval[r] EXCEPT !.request = "gone"] \in Approval
      /\ [approval[r] EXCEPT !.denying = TRUE] \in Approval
      /\ [approval[r] EXCEPT !.token = "gone"] \in Approval
  BY <1>1 DEF Approval
<1>3. ASSUME NEW a \in Approval PROVE [approval EXCEPT ![r] = a] \in [Runs -> Approval]
  BY DEF TypeOK
<1>4. QED
  BY <1>2, <1>3

LEMMA ChildIsTyped ==
    ASSUME TypeOK, NEW r \in Runs
    PROVE  /\ [child EXCEPT ![r].at = "running"] \in [Runs -> Child]
           /\ [child EXCEPT ![r].at = "closed"] \in [Runs -> Child]
           /\ [child EXCEPT ![r].at = "exited", ![r].code = "error"] \in [Runs -> Child]
           /\ [child EXCEPT ![r].at = "closed", ![r].code = "error"] \in [Runs -> Child]
           /\ [child EXCEPT ![r].killed = TRUE] \in [Runs -> Child]
           /\ [child EXCEPT ![r].killed = TRUE, ![r].code = "timeout"] \in [Runs -> Child]
<1>1. child[r] \in Child
  BY DEF TypeOK
<1>2. /\ [child[r] EXCEPT !.at = "running"] \in Child
      /\ [child[r] EXCEPT !.at = "closed"] \in Child
      /\ [child[r] EXCEPT !.at = "exited", !.code = "error"] \in Child
      /\ [child[r] EXCEPT !.at = "closed", !.code = "error"] \in Child
      /\ [child[r] EXCEPT !.killed = TRUE] \in Child
      /\ [child[r] EXCEPT !.killed = TRUE, !.code = "timeout"] \in Child
  BY <1>1 DEF Child, Code
<1>3. ASSUME NEW c \in Child PROVE [child EXCEPT ![r] = c] \in [Runs -> Child]
  BY DEF TypeOK
<1>4. QED
  BY <1>2, <1>3

LEMMA ChildExits ==
    ASSUME TypeOK, NEW r \in Runs, NEW p \in {"exited", "closed"}, NEW k \in Code
    PROVE  [child EXCEPT ![r].at = p, ![r].code = k] \in [Runs -> Child]
<1>1. child[r] \in Child
  BY DEF TypeOK
<1>2. [child[r] EXCEPT !.at = p, !.code = k] \in Child
  BY <1>1 DEF Child
<1>3. ASSUME NEW c \in Child PROVE [child EXCEPT ![r] = c] \in [Runs -> Child]
  BY DEF TypeOK
<1>4. QED
  BY <1>2, <1>3

LEMMA TablesAreTyped ==
    ASSUME TypeOK
    PROVE  /\ \A r \in Runs, b \in BOOLEAN : ExitRecord(r, b) \in Exit
           /\ Pruned \in [Sessions -> Runs \cup {NoRun}]
           /\ PrunedTerminal \in [Sessions -> Exit \cup {NoRun}]
<1>1. ASSUME NEW r \in Runs, NEW b \in BOOLEAN
      PROVE  ExitRecord(r, b) \in Exit
  <2>1. SessionOf[r] \in Sessions
    BY RunsAssumption
  <2>2. registry[SessionOf[r]] \in Runs \cup {NoRun}
    BY <2>1 DEF TypeOK
  <2>3. terminal[SessionOf[r]] # NoRun => terminal[SessionOf[r]].run \in Runs \cup {NoRun}
    BY <2>1 DEF TypeOK, Exit
  <2> DEFINE x == IF registry[SessionOf[r]] # NoRun THEN registry[SessionOf[r]]
                  ELSE IF terminal[SessionOf[r]] # NoRun THEN terminal[SessionOf[r]].run
                  ELSE NoRun
  <2>4. x \in Runs \cup {NoRun}
    BY <2>2, <2>3
  <2>5. ExitRecord(r, b) = [run |-> x, by |-> r, handoff |-> b]
    BY DEF ExitRecord
  <2> HIDE DEF x
  <2>6. QED
    BY <2>4, <2>5 DEF Exit
<1>2. Pruned \in [Sessions -> Runs \cup {NoRun}]
  BY DEF TypeOK, Pruned
<1>3. PrunedTerminal \in [Sessions -> Exit \cup {NoRun}]
  <2>1. \A s \in Stale : registry[s] \in Runs
    BY DEF TypeOK, Stale
  <2>2. QED
    BY <1>1, <2>1 DEF TypeOK, PrunedTerminal
<1>4. QED
  BY <1>1, <1>2, <1>3

(* The judgement of a launch, on tables that are typed                     *)
LEMMA SpawnIsTyped ==
    ASSUME TypeOK, NEW r \in Runs,
           NEW reg \in [Sessions -> Runs \cup {NoRun}],
           NEW term \in [Sessions -> Exit \cup {NoRun}],
           Spawn(r, reg, term)
    PROVE  /\ post' \in [Runs -> Post] /\ owned' \subseteq Runs
           /\ child' \in [Runs -> Child] /\ prompt' \in [Runs -> Prompt]
           /\ registry' \in [Sessions -> Runs \cup {NoRun}]
           /\ terminal' \in [Sessions -> Exit \cup {NoRun}]
<1>1. post' \in [Runs -> Post] /\ owned' \subseteq Runs
  BY PostIsTyped, Values DEF TypeOK, Spawn
<1>2. child' \in [Runs -> Child]
  <2>1. \/ child' = [child EXCEPT ![r].at = "running"]
        \/ child' = [child EXCEPT ![r].at = "exited", ![r].code = "error"]
        \/ child' = [child EXCEPT ![r].at = "closed", ![r].code = "error"]
    BY DEF Spawn
  <2>2. /\ [child EXCEPT ![r].at = "running"] \in [Runs -> Child]
        /\ [child EXCEPT ![r].at = "exited", ![r].code = "error"] \in [Runs -> Child]
        /\ [child EXCEPT ![r].at = "closed", ![r].code = "error"] \in [Runs -> Child]
    BY ChildIsTyped
  <2>3. QED
    BY ONLY <2>1, <2>2
<1>3. prompt' \in [Runs -> Prompt]
  BY PromptIsTyped, Values DEF TypeOK, Spawn
<1>4. registry' \in [Sessions -> Runs \cup {NoRun}]
  BY RunsAssumption DEF Spawn
<1>5. terminal' \in [Sessions -> Exit \cup {NoRun}]
  BY RunsAssumption DEF Spawn
<1>6. QED
  BY <1>1, <1>2, <1>3, <1>4, <1>5

LEMMA JudgeIsTyped ==
    ASSUME TypeOK, NEW r \in Runs,
           NEW reg \in [Sessions -> Runs \cup {NoRun}],
           NEW term \in [Sessions -> Exit \cup {NoRun}],
           Judge(r, reg, term)
    PROVE  /\ post' \in [Runs -> Post] /\ owned' \subseteq Runs
           /\ child' \in [Runs -> Child] /\ prompt' \in [Runs -> Prompt]
           /\ registry' \in [Sessions -> Runs \cup {NoRun}]
           /\ terminal' \in [Sessions -> Exit \cup {NoRun}]
           /\ approval' \in [Runs -> Approval]
<1>1. approval' \in [Runs -> Approval]
  <2> DEFINE t == IF Carried(r) THEN "gone" ELSE approval[r].token
             q == IF trusted /\ ~Permitted(r) THEN "pending" ELSE approval[r].request
  <2>1. approval' = [approval EXCEPT ![r].token = t, ![r].request = q]
    BY DEF Judge
  <2>2. t \in {"none", "live", "gone"} /\ q \in {"none", "pending", "gone"}
    BY ApprovalFields
  <2> HIDE DEF t, q
  <2>3. QED
    BY <2>1, <2>2, ApprovalIsTyped
<1>2. CASE ~trusted
  <2>1. prompt' \in [Runs -> Prompt]
    BY <1>2, PromptIsTyped, Values DEF Judge
  <2>2. post' \in [Runs -> Post]
    BY <1>2, PostIsTyped, Values DEF Judge
  <2>3. QED
    BY <1>1, <1>2, <2>1, <2>2 DEF Judge, TypeOK
<1>3. CASE trusted /\ ~Permitted(r)
  <2>1. post' \in [Runs -> Post]
    BY <1>3, PostIsTyped, Values DEF Judge
  <2>2. QED
    BY <1>1, <1>3, <2>1 DEF Judge, TypeOK
<1>4. CASE trusted /\ Permitted(r)
  BY <1>1, <1>4, SpawnIsTyped DEF Judge
<1>5. QED
  BY <1>2, <1>3, <1>4

(* What an action of run r does to what                                    *)
LEMMA StepIsTyped == TypeOK /\ [Next]_vars => TypeOK'
<1> SUFFICES ASSUME TypeOK, [Next]_vars
             PROVE  TypeOK'
  OBVIOUS
<1> USE DEF policy, table, env
<1>1. ASSUME NEW r \in Runs, Start(r) PROVE TypeOK'
  <2>1. call' \in [Runs -> Call] /\ post' \in [Runs -> Post]
    BY <1>1, CallIsTyped, PostIsTyped, Values DEF Start
  <2>2. QED
    BY <1>1, <2>1 DEF TypeOK, Start
<1>2. ASSUME NEW r \in Runs, Abort(r) PROVE TypeOK'
  <2>1. call' \in [Runs -> Call]
    <3>1. call[r].status \in SessionStatus
      BY DEF TypeOK, Call
    <3>2. CASE call[r].at \in Awaiting
      <4>1. PICK s \in SessionStatus :
              call' = [call EXCEPT ![r].aborted = TRUE, ![r].at = "ended", ![r].status = s]
        BY <1>2, <3>1, <3>2, Values DEF Abort, Awaiting
      <4>2. QED
        BY <4>1, CallIsTyped, Values
    <3>3. CASE call[r].at = "asking"
      <4>1. call' = [call EXCEPT ![r].aborted = TRUE, ![r].at = "withdrawn",
                                 ![r].status = "ready"]
        BY <1>2, <3>3 DEF Abort, Awaiting
      <4>2. QED
        BY <4>1, CallIsTyped, Values
    <3>4. CASE call[r].at = "deciding"
      <4>1. call' = [call EXCEPT ![r].aborted = TRUE]
        BY <1>2, <3>4 DEF Abort, Awaiting
      <4>2. QED
        BY <4>1, CallSays, Values
    <3>5. CASE call[r].at = "reading"
      <4>1. call' = [call EXCEPT ![r].aborted = TRUE, ![r].at = "stopping"]
        BY <1>2, <3>5 DEF Abort, Awaiting
      <4>2. QED
        BY <4>1, CallSays, Values
    <3>6. QED
      BY <1>2, <3>2, <3>3, <3>4, <3>5 DEF Abort
  <2>2. approval' \in [Runs -> Approval]
    <3>1. approval' = approval \/ approval' = [approval EXCEPT ![r].denying = TRUE]
      BY <1>2 DEF Abort
    <3>2. /\ approval \in [Runs -> Approval]
          /\ [approval EXCEPT ![r].denying = TRUE] \in [Runs -> Approval]
      BY ApprovalStaysTyped DEF TypeOK
    <3>3. QED
      BY ONLY <3>1, <3>2
  <2>3. stop' \subseteq Runs
    BY <1>2 DEF Abort, TypeOK
  <2>4. QED
    BY <1>2, <2>1, <2>2, <2>3 DEF TypeOK, Abort
<1>3. ASSUME NEW r \in Runs, Decided(r)
      PROVE  approval' \in [Runs -> Approval] /\ always' \in BOOLEAN
  <2> DEFINE q == IF approval[r].request = "pending" THEN "gone" ELSE approval[r].request
             t == IF Granted(r) THEN "live" ELSE approval[r].token
  <2>1. approval' = [approval EXCEPT ![r].request = q, ![r].token = t]
    BY <1>3 DEF Decided
  <2>2. q \in {"none", "pending", "gone"} /\ t \in {"none", "live", "gone"}
    BY ApprovalFields
  <2>3. always' \in BOOLEAN
    BY <1>3 DEF Decided, Granted, TypeOK
  <2> HIDE DEF q, t
  <2>4. QED
    BY <2>1, <2>2, <2>3, ApprovalIsTyped
<1>4. ASSUME NEW r \in Runs, Lose(r) PROVE call' \in [Runs -> Call]
  BY <1>4, CallIsTyped, Values DEF Lose
<1>5. ASSUME NEW r \in Runs, ConnectionLost(r) PROVE TypeOK'
  <2>1. call' \in [Runs -> Call]
    BY <1>4, <1>5 DEF ConnectionLost
  <2>2. post' \in [Runs -> Post]
    BY <1>5, Values DEF ConnectionLost, TypeOK
  <2>3. approval' \in [Runs -> Approval] /\ always' \in BOOLEAN
    BY <1>3, <1>5 DEF ConnectionLost, TypeOK
  <2>4. QED
    BY <1>5, <2>1, <2>2, <2>3 DEF TypeOK, ConnectionLost
<1>6. ASSUME NEW r \in Runs, NEW d \in Choice \ {"none"}, Decide(r, d) PROVE TypeOK'
  <2>1. call' \in [Runs -> Call]
    BY <1>6, CallSays, Values DEF Decide
  <2>2. QED
    BY <1>6, <2>1 DEF TypeOK, Decide
<1>7. ASSUME NEW r \in Runs, CallStep(r) PROVE TypeOK'
  <2>1. CASE DecisionAnswered(r)
    <3>1. call' \in [Runs -> Call]
      BY <2>1, CallIsTyped, Values DEF DecisionAnswered
    <3>2. post' \in [Runs -> Post]
      BY <2>1, PostIsTyped, Values DEF DecisionAnswered, TypeOK
    <3>3. approval' \in [Runs -> Approval] /\ always' \in BOOLEAN
      BY <1>3, <2>1 DEF DecisionAnswered
    <3>4. QED
      BY <2>1, <3>1, <3>2, <3>3 DEF TypeOK, DecisionAnswered
  <2>2. CASE PeerGone(r)
    BY <1>4, <2>2 DEF TypeOK, PeerGone
  <2>3. CASE Refused(r) \/ Asked(r) \/ Attached(r) \/ ReadEnd(r) \/ Stopped(r)
    <3>1. \A k : EndStatus(k) \in SessionStatus
      BY Values DEF EndStatus
    <3>2. call' \in [Runs -> Call]
      BY <2>3, <3>1, CallIsTyped, Values DEF Refused, Asked, Attached, ReadEnd, Stopped
    <3>3. QED
      BY <2>3, <3>2 DEF TypeOK, Refused, Asked, Attached, ReadEnd, Stopped
  <2>4. QED
    BY <1>7, <2>1, <2>2, <2>3 DEF CallStep
<1>8. ASSUME NEW r \in Runs, Received(r) PROVE TypeOK'
  <2>1. CASE Occupied(SessionOf[r]) \/ ~trusted
    <3>1. post' \in [Runs -> Post]
      BY <1>8, <2>1, PostIsTyped, Values DEF Received
    <3>2. QED
      BY <1>8, <2>1, <3>1, TablesAreTyped DEF TypeOK, Received, Filed
  <2>2. CASE ~Occupied(SessionOf[r]) /\ trusted /\ r \in Managed
    <3>1. post' \in [Runs -> Post] /\ prompt' \in [Runs -> Prompt]
      BY <1>8, <2>2, PostIsTyped, PromptIsTyped, Values DEF Received
    <3>2. QED
      BY <1>8, <2>2, <3>1, TablesAreTyped DEF TypeOK, Received, Filed
  <2>3. CASE ~Occupied(SessionOf[r]) /\ trusted /\ r \notin Managed
    <3>1. Judge(r, Pruned, PrunedTerminal)
      BY <1>8, <2>3 DEF Received
    <3>2. QED
      BY <1>8, <3>1, TablesAreTyped, JudgeIsTyped DEF TypeOK, Received
  <2>4. QED
    BY <2>1, <2>2, <2>3
<1>9. ASSUME NEW r \in Runs, Prepared(r) PROVE TypeOK'
  <2>1. CASE Judge(r, registry, terminal)
    BY <1>9, <2>1, JudgeIsTyped DEF TypeOK, Prepared
  <2>2. CASE ~Judge(r, registry, terminal)
    <3>1. post' \in [Runs -> Post] /\ prompt' \in [Runs -> Prompt]
      BY <1>9, <2>2, PostIsTyped, PromptIsTyped, Values DEF Prepared
    <3>2. QED
      BY <1>9, <2>2, <3>1 DEF TypeOK, Prepared
  <2>3. QED
    BY <2>1, <2>2
<1>10. ASSUME NEW r \in Runs, NEW k \in Code, ExitWith(r, k) PROVE TypeOK'
  <2> DEFINE p == IF r \in owned THEN "exited" ELSE "closed"
             c == IF child[r].code = "timeout" THEN child[r].code ELSE k
  <2>1. p \in {"exited", "closed"} /\ c \in Code
    BY Values DEF TypeOK, Child
  <2>2. child' \in [Runs -> Child]
    <3>1. child' = [child EXCEPT ![r].at = p, ![r].code = c]
      BY <1>10 DEF ExitWith
    <3> HIDE DEF p, c
    <3>2. QED
      BY <2>1, <3>1, ChildExits
  <2>3. QED
    BY <1>10, <2>2 DEF TypeOK, ExitWith
<1>11. ASSUME NEW r \in Runs, Timeout(r) PROVE TypeOK'
  <2>1. child' \in [Runs -> Child]
    BY <1>11, ChildIsTyped, Values DEF Timeout
  <2>2. QED
    BY <1>11, <2>1 DEF TypeOK, Timeout
<1>12. ASSUME NEW r \in Runs, Closes(r) PROVE TypeOK'
  <2>1. child' \in [Runs -> Child]
    BY <1>12, ChildIsTyped DEF Closes
  <2>2. prompt' \in [Runs -> Prompt]
    BY <1>12, PromptIsTyped, Values DEF Closes
  <2>3. terminal' \in [Sessions -> Exit \cup {NoRun}]
    <3>1. (r \in Gated) \in BOOLEAN
      OBVIOUS
    <3>2. ExitRecord(r, r \in Gated) \in Exit
      BY <3>1, TablesAreTyped
    <3>3. QED
      BY <1>12, <3>2 DEF Closes, TypeOK
  <2>4. registry' \in [Sessions -> Runs \cup {NoRun}]
    BY <1>12 DEF Closes, TypeOK
  <2>5. QED
    BY <1>12, <2>1, <2>2, <2>3, <2>4 DEF TypeOK, Closes
<1>13. ASSUME NEW r \in Runs, LateDeny(r) \/ Expires(r) PROVE TypeOK'
  <2> DEFINE q == IF approval[r].request = "pending" THEN "gone" ELSE approval[r].request
  <2>1. q \in {"none", "pending", "gone"}
    BY ApprovalFields
  <2>2. \/ approval' = [approval EXCEPT ![r].denying = FALSE, ![r].request = q]
        \/ approval' = [approval EXCEPT ![r].request = "gone"]
        \/ approval' = [approval EXCEPT ![r].token = "gone"]
    BY <1>13 DEF LateDeny, Expires
  <2> HIDE DEF q
  <2>3. approval' \in [Runs -> Approval]
    <3>1. [approval EXCEPT ![r].denying = FALSE, ![r].request = q] \in [Runs -> Approval]
      BY <2>1, RequestIsTyped
    <3>2. /\ [approval EXCEPT ![r].request = "gone"] \in [Runs -> Approval]
          /\ [approval EXCEPT ![r].token = "gone"] \in [Runs -> Approval]
      BY ApprovalStaysTyped
    <3>3. QED
      BY ONLY <2>2, <3>1, <3>2
  <2>4. QED
    BY <1>13, <2>3 DEF TypeOK, LateDeny, Expires
<1>14. ASSUME NEW r \in Runs, Delete(r) PROVE TypeOK'
  <2>1. Occupied(SessionOf[r]) => Pruned[SessionOf[r]] \in Runs
    BY RunsAssumption, TablesAreTyped DEF Occupied
  <2>2. child' \in [Runs -> Child]
    BY <1>14, <2>1, ChildIsTyped, Values DEF Delete, TypeOK
  <2>3. QED
    BY <1>14, <2>2, TablesAreTyped DEF TypeOK, Delete, Filed
<1>15. CASE Observe
  BY <1>15, TablesAreTyped DEF TypeOK, Observe, Filed
<1>16. CASE RevokeGrant \/ RevokeTrust
  BY <1>16 DEF TypeOK, RevokeGrant, RevokeTrust
<1>17. CASE Restart
  <2>1. ASSUME NEW r \in Runs
        PROVE  /\ child'[r] \in Child
               /\ approval'[r] \in Approval
    <3>1. child[r] \in Child /\ approval[r] \in Approval
      BY DEF TypeOK
    <3>2. child'[r] \in {[child[r] EXCEPT !.at = "closed"],
                         [child[r] EXCEPT !.killed = TRUE], child[r]}
      BY <1>17 DEF Restart
    <3>3. child'[r] \in Child
      BY <3>1, <3>2 DEF Child
    <3>4. approval'[r] \in Approval
      BY <1>17, <3>1 DEF Restart, Approval
    <3>5. QED
      BY <3>3, <3>4
  <2>2. child' \in [Runs -> Child] /\ approval' \in [Runs -> Approval]
    BY <1>17, <2>1 DEF Restart
  <2>3. post' \in [Runs -> Post]
    BY <1>17, Values DEF Restart, TypeOK
  <2>4. restarts' \in Nat
    <3>1. restarts' = restarts + 1
      BY <1>17 DEF Restart
    <3>2. restarts \in Nat
      BY DEF TypeOK
    <3>3. QED
      BY <3>1, <3>2
  <2>5. QED
    BY <1>17, <2>2, <2>3, <2>4 DEF TypeOK, Restart
<1>18. CASE UNCHANGED vars
  BY <1>18 DEF TypeOK, vars
<1>19. ASSUME NEW r \in Runs, StopFails(r) PROVE TypeOK'
  <2>1. call' \in [Runs -> Call]
    BY <1>19, CallIsTyped, Values DEF StopFails, TypeOK
  <2>2. stop' \subseteq Runs /\ unheard' \subseteq Runs /\ faults' \in Nat
    BY <1>19 DEF StopFails, TypeOK
  <2>3. QED
    BY <1>19, <2>1, <2>2 DEF TypeOK, StopFails
<1>20. QED
  <2>1. ASSUME NEW r \in Runs, ExitsAlone(r) \/ ExitsKilled(r) PROVE TypeOK'
    BY <1>10, <2>1, Values DEF ExitsAlone, ExitsKilled
  <2>2. QED
    BY <1>1, <1>2, <1>5, <1>6, <1>7, <1>8, <1>9, <2>1, <1>11, <1>12, <1>13, <1>14,
       <1>15, <1>16, <1>17, <1>18, <1>19 DEF Next, RouteStep

-----------------------------------------------------------------------------
(* The invariant                                                           *)

(* What the fields of a run look like after an update                      *)
LEMMA CallFields ==
    ASSUME TypeOK, NEW r \in Runs, NEW p, NEW s
    PROVE  /\ Goto(r, p) =>
                /\ call'[r].at = p /\ call'[r].said = call[r].said
                /\ \A q \in Runs \ {r} : call'[q] = call[q]
           /\ Finish(r, p, s) =>
                /\ call'[r].at = p /\ call'[r].said = call[r].said
                /\ \A q \in Runs \ {r} : call'[q] = call[q]
<1>1. call \in [Runs -> Call] /\ call[r] \in Call
  BY DEF TypeOK
<1>2. QED
  BY <1>1 DEF Goto, Finish, Call

(* A run whose client, launch, process and prompt stay as they are         *)
Kept(q) ==
    /\ call'[q].at = call[q].at /\ call'[q].said = call[q].said
    /\ post'[q] = post[q]
    /\ child'[q].at = child[q].at
    /\ prompt'[q] = prompt[q]

RunInv(q) == Unlaunched(q) /\ Denied(q) /\ PromptKept(q)

LEMMA KeptIsEnough ==
    ASSUME NEW q \in Runs, RunInv(q), Kept(q)
    PROVE  RunInv(q)'
  BY DEF Kept, RunInv, Unlaunched, Denied, PromptKept

(* What an action of the client does to the run it belongs to              *)
LEMMA ClientKeepsRuns ==
    ASSUME IInv, NEW r \in Runs,
           \/ Start(r) \/ Abort(r) \/ ConnectionLost(r) \/ StopFails(r)
           \/ CallStep(r)
           \/ \E d \in Choice \ {"none"} : Decide(r, d)
    PROVE  \A q \in Runs : RunInv(q)'
<1>1. /\ TypeOK /\ RunInv(r)
      /\ call \in [Runs -> Call] /\ call[r] \in Call
      /\ post \in [Runs -> Post] /\ post[r] \in Post
  BY DEF IInv, TypeOK, RunInv
<1>2. child' = child /\ prompt' = prompt
  BY DEF Start, Abort, ConnectionLost, StopFails, CallStep, Decide, Refused, Asked, DecisionAnswered,
         Attached, ReadEnd, Stopped, PeerGone
<1>3. /\ \A q \in Runs \ {r} : call'[q] = call[q] /\ post'[q] = post[q]
      /\ post'[r] # post[r] => post'[r] \in {"sent", "lost"}
  <2>1. CASE Start(r)
    BY <1>1, <2>1, CallFields DEF Start, Say
  <2>2. CASE Abort(r)
    BY <1>1, <2>2 DEF Abort
  <2>3. CASE ConnectionLost(r)
    BY <1>1, <2>3, CallFields DEF ConnectionLost, Lose
  <2>4. CASE CallStep(r)
    BY <1>1, <2>4, CallFields DEF CallStep, Refused, Asked, DecisionAnswered, Attached,
       ReadEnd, Stopped, PeerGone, Lose, Say
  <2>5. CASE \E d \in Choice \ {"none"} : Decide(r, d)
    BY <1>1, <2>5 DEF Decide
  <2>6. CASE StopFails(r)
    BY <1>1, <2>6, CallFields DEF StopFails
  <2>7. QED
    BY <2>1, <2>2, <2>3, <2>4, <2>5, <2>6
<1>4. RunInv(r)'
  <2> USE DEF RunInv, Unlaunched, Denied, PromptKept, Awaiting
  <2>1. CASE Start(r)
    BY <1>1, <1>2, <2>1, CallFields DEF Start, Say
  <2>2. CASE Abort(r)
    <3>1. /\ call'[r].said = call[r].said
          /\ \/ call'[r].at \in {"ended", "stopping"} /\ call[r].at \notin {"asking", "deciding"}
             \/ call'[r].at = "withdrawn" /\ call[r].at = "asking"
             \/ call'[r].at = "deciding" /\ call[r].at = "deciding"
          /\ post' = post
      BY <1>1, <2>2 DEF Abort, Call
    <3>2. call[r].said = "deny" => call[r].at = "deciding"
      BY <1>1, <2>2 DEF Abort
    <3>3. QED
      BY <1>1, <1>2, <3>1, <3>2
  <2>3. CASE ConnectionLost(r)
    <3>1. /\ call'[r].at = "ended" /\ call'[r].said = call[r].said
          /\ post'[r] = post[r] \/ (post[r] = "sent" /\ post'[r] = "lost")
      BY <1>1, <2>3, CallFields DEF ConnectionLost, Lose
    <3>2. QED
      BY <1>1, <1>2, <3>1
  <2>4. CASE DecisionAnswered(r)
    <3>1. /\ call'[r].said = call[r].said
          /\ \/ call'[r].at = "ended" /\ post'[r] = post[r]
             \/ call'[r].at = "reposting" /\ post'[r] = "sent" /\ call[r].said # "deny"
          /\ call[r].at = "deciding"
      BY <1>1, <2>4, CallFields DEF DecisionAnswered, Granted, Allowed, Say
    <3>2. QED
      BY <1>1, <1>2, <3>1
  <2>5. CASE PeerGone(r)
    <3>1. call'[r].at = "ended" /\ call'[r].said = call[r].said /\ post' = post
      BY <1>1, <2>5, CallFields DEF PeerGone, Lose
    <3>2. QED
      BY <1>1, <1>2, <3>1
  <2>6. CASE Asked(r)
    <3>1. /\ call'[r].at = "asking" /\ call'[r].said = call[r].said /\ post' = post
          /\ call[r].at = "posting" /\ post[r] = "ask"
      BY <1>1, <2>6, CallFields DEF Asked
    <3>2. QED
      BY <1>1, <1>2, <3>1
  <2>7. CASE Refused(r) \/ Attached(r) \/ ReadEnd(r) \/ Stopped(r)
    <3>1. /\ call'[r].at \in {"ended", "reading"} /\ call'[r].said = call[r].said
          /\ post' = post
          /\ call[r].at \notin {"deciding", "ended"}
      BY <1>1, <2>7, CallFields DEF Refused, Attached, ReadEnd, Stopped
    <3>2. QED
      BY <1>1, <1>2, <3>1
  <2>8. CASE \E d \in Choice \ {"none"} : Decide(r, d)
    <3>1. /\ call'[r].at = "deciding" /\ call[r].at = "asking" /\ post' = post
      BY <1>1, <2>8 DEF Decide, Call
    <3>2. QED
      BY <1>1, <1>2, <3>1
  <2>9. CASE StopFails(r)
    <3>1. /\ call'[r].said = call[r].said /\ post' = post
          /\ \/ call'[r].at = call[r].at
             \/ call'[r].at = "ended" /\ call[r].at = "stopping"
      BY <1>1, <2>9, CallFields DEF StopFails
    <3>2. QED
      BY <1>1, <1>2, <3>1
  <2>10. QED
    BY <2>1, <2>2, <2>3, <2>4, <2>5, <2>6, <2>7, <2>8, <2>9 DEF CallStep
<1>5. QED
  <2>1. ASSUME NEW q \in Runs \ {r} PROVE RunInv(q)'
    <3>1. RunInv(q) /\ Kept(q)
      BY <1>2, <1>3 DEF IInv, RunInv, Kept
    <3>2. QED
      BY <3>1, KeptIsEnough
  <2>2. QED
    BY <1>4, <2>1

(* What a judgement does to its run: the process starts from "none"        *)
LEMMA JudgeFields ==
    ASSUME IInv, NEW r \in Runs, NEW reg, NEW term, post[r] \in {"sent", "preparing"},
           Judge(r, reg, term)
    PROVE  /\ \A q \in Runs \ {r} :
                post'[q] = post[q] /\ child'[q] = child[q] /\ prompt'[q] = prompt[q]
           /\ child[r].at = "none"
           /\ post'[r] \in {"refused", "ask"} => child'[r].at = "none"
           /\ post'[r] \in {"refused", "ask", "stream"}
           /\ child'[r].at \in {"running", "exited"} => prompt'[r] = prompt[r]
           /\ child'[r].at # "none" => owned' = owned \cup {r}
           /\ child'[r].at = "none" => owned' = owned
<1>1. /\ post \in [Runs -> Post] /\ prompt \in [Runs -> Prompt]
      /\ child \in [Runs -> Child] /\ child[r] \in Child
  BY DEF IInv, TypeOK
<1>2. child[r].at = "none"
  BY DEF IInv, Unlaunched
<1>3. CASE ~trusted
  BY <1>1, <1>2, <1>3 DEF Judge, Say
<1>4. CASE trusted /\ ~Permitted(r)
  BY <1>1, <1>2, <1>4 DEF Judge, Say
<1>5. CASE trusted /\ Permitted(r)
  <2>1. Spawn(r, reg, term)
    BY <1>5 DEF Judge
  <2>2. \/ child' = [child EXCEPT ![r].at = "running"]
        \/ child' = [child EXCEPT ![r].at = "exited", ![r].code = "error"]
        \/ child' = [child EXCEPT ![r].at = "closed", ![r].code = "error"]
    BY <2>1 DEF Spawn
  <2>3. /\ child'[r].at \in {"running", "exited", "closed"}
        /\ \A q \in Runs \ {r} : child'[q] = child[q]
    BY <1>1, <2>2 DEF Child
  <2>4. \A q \in Runs \ {r} : post'[q] = post[q] /\ prompt'[q] = prompt[q]
    BY <1>1, <2>1 DEF Spawn, Say
  <2>5. post'[r] = "stream" /\ owned' = owned \cup {r}
    BY <1>1, <2>1 DEF Spawn, Say
  <2>6. child'[r].at \in {"running", "exited"} => prompt'[r] = prompt[r]
    <3>1. CASE child' = [child EXCEPT ![r].at = "closed", ![r].code = "error"]
      BY <1>1, <3>1 DEF Child
    <3>2. CASE prompt' = prompt
      BY <3>2
    <3>3. QED
      BY <2>1, <3>1, <3>2 DEF Spawn
  <2>7. QED
    BY <1>2, <2>3, <2>4, <2>5, <2>6
<1>6. QED
  BY <1>3, <1>4, <1>5

LEMMA RouteKeepsRuns ==
    ASSUME IInv, NEW r \in Runs, RouteStep(r)
    PROVE  \A q \in Runs : RunInv(q)'
<1>1. /\ TypeOK /\ RunInv(r) /\ call' = call
      /\ post[r] \in {"sent", "preparing"}
      /\ post \in [Runs -> Post] /\ prompt \in [Runs -> Prompt]
  BY DEF IInv, TypeOK, RunInv, RouteStep, Received, Prepared
<1>2. child[r].at = "none" /\ call[r].at \notin {"idle", "asking", "deciding", "withdrawn"}
      /\ call[r].said # "deny"
  BY <1>1 DEF RunInv, Unlaunched, Denied
<1>3. CASE \E reg, term : Judge(r, reg, term) /\ (r \in Managed => post[r] = "preparing")
  <2>1. PICK reg, term : Judge(r, reg, term) /\ (r \in Managed => post[r] = "preparing")
    BY <1>3
  <2>2. RunInv(r)'
    <3> USE DEF RunInv, Unlaunched, Denied, PromptKept
    <3>1. r \in Managed => prompt[r] = "ready"
      BY <1>1, <2>1
    <3>2. /\ post'[r] \in {"refused", "ask"} => child'[r].at = "none"
          /\ post'[r] \in {"refused", "ask", "stream"}
          /\ child'[r].at \in {"running", "exited"} => prompt'[r] = prompt[r]
      BY <1>1, <2>1, JudgeFields
    <3>3. QED
      BY <1>1, <1>2, <3>1, <3>2
  <2>3. ASSUME NEW q \in Runs \ {r} PROVE RunInv(q)'
    <3>1. RunInv(q) /\ Kept(q)
      BY <1>1, <2>1, JudgeFields DEF IInv, RunInv, Kept
    <3>2. QED
      BY <3>1, KeptIsEnough
  <2>4. QED
    BY <2>2, <2>3
<1>4. CASE /\ child' = child
           /\ \/ Say(r, "refused")
              \/ Say(r, "preparing") /\ r \in Managed /\ prompt'[r] = "ready"
           /\ \A q \in Runs \ {r} : prompt'[q] = prompt[q]
  <2>1. RunInv(r)'
    BY <1>1, <1>2, <1>4 DEF RunInv, Unlaunched, Denied, PromptKept, Say
  <2>2. ASSUME NEW q \in Runs \ {r} PROVE RunInv(q)'
    <3>1. RunInv(q) /\ Kept(q)
      BY <1>1, <1>4 DEF IInv, RunInv, Kept, Say
    <3>2. QED
      BY <3>1, KeptIsEnough
  <2>3. QED
    BY <2>1, <2>2
<1>5. QED
  <2>1. CASE Received(r)
    BY <1>1, <1>3, <1>4, <2>1 DEF Received
  <2>2. CASE Prepared(r)
    BY <1>1, <1>3, <1>4, <2>2 DEF Prepared
  <2>3. QED
    BY <2>1, <2>2 DEF RouteStep

(* The process's own steps, and those of the runtime around it             *)
LEMMA RuntimeKeepsRuns ==
    ASSUME IInv,
           \/ \E r \in Runs : \/ ExitsAlone(r) \/ ExitsKilled(r) \/ Timeout(r) \/ Closes(r)
                              \/ LateDeny(r) \/ Expires(r) \/ Delete(r)
           \/ Observe \/ RevokeGrant \/ RevokeTrust \/ Restart
    PROVE  \A q \in Runs : RunInv(q)'
<1> SUFFICES ASSUME NEW q \in Runs PROVE RunInv(q)'
  OBVIOUS
<1>1. /\ TypeOK /\ RunInv(q) /\ call \in [Runs -> Call]
      /\ child \in [Runs -> Child] /\ prompt \in [Runs -> Prompt] /\ post \in [Runs -> Post]
      /\ \A r \in Runs : child[r] \in Child
  BY DEF IInv, TypeOK, RunInv
<1>2. ASSUME NEW r \in Runs, NEW k \in Code, ExitWith(r, k) PROVE RunInv(q)'
  <2>1. /\ call' = call /\ post' = post /\ prompt' = prompt
        /\ child'[q].at = child[q].at
           \/ (child[q].at = "running" /\ child'[q].at \in {"exited", "closed"})
    BY <1>1, <1>2 DEF ExitWith, Child
  <2>2. QED
    BY <1>1, <2>1 DEF RunInv, Unlaunched, Denied, PromptKept
<1>3. ASSUME NEW r \in Runs, Timeout(r) PROVE RunInv(q)'
  <2>1. Kept(q)
    BY <1>1, <1>3 DEF Timeout, Kept, Child
  <2>2. QED
    BY <1>1, <2>1, KeptIsEnough
<1>4. ASSUME NEW r \in Runs, Closes(r) PROVE RunInv(q)'
  <2>1. CASE q = r
    <3>1. /\ call' = call /\ post' = post
          /\ child[r].at = "exited" /\ child'[r].at = "closed"
      BY <1>1, <1>4 DEF Closes, Child
    <3>2. QED
      BY <1>1, <2>1, <3>1 DEF RunInv, Unlaunched, Denied, PromptKept
  <2>2. CASE q # r
    <3>1. Kept(q)
      BY <1>1, <1>4, <2>2 DEF Closes, Kept, Child
    <3>2. QED
      BY <1>1, <3>1, KeptIsEnough
  <2>3. QED
    BY <2>1, <2>2
<1>5. ASSUME NEW r \in Runs, Delete(r) PROVE RunInv(q)'
  <2>1. /\ call' = call /\ post' = post /\ prompt' = prompt
        /\ child'[q].at = child[q].at
    BY <1>1, <1>5 DEF Delete, Child
  <2>2. QED
    BY <1>1, <2>1, KeptIsEnough DEF Kept
<1>6. CASE Restart
  <2>1. /\ call' = call /\ prompt' = prompt
        /\ post'[q] = IF post[q] = "none" THEN "none" ELSE "lost"
        /\ \/ child'[q].at = child[q].at
           \/ child[q].at = "exited" /\ child'[q].at = "closed"
    <3>1. /\ call' = call /\ prompt' = prompt
          /\ post'[q] = IF post[q] = "none" THEN "none" ELSE "lost"
      <4>1. post' = [r \in Runs |-> IF post[r] = "none" THEN post[r] ELSE "lost"]
        BY <1>6 DEF Restart
      <4>2. call' = call /\ prompt' = prompt
        BY <1>6 DEF Restart
      <4>3. QED
        BY <4>1, <4>2
    <3>2. \/ child'[q] \in {child[q], [child[q] EXCEPT !.killed = TRUE]}
          \/ child[q].at = "exited" /\ child'[q] = [child[q] EXCEPT !.at = "closed"]
      <4>1. PICK graceful \in BOOLEAN :
              child' = [r \in Runs |->
                      IF child[r].at = "exited" THEN [child[r] EXCEPT !.at = "closed"]
                      ELSE IF graceful /\ registry[SessionOf[r]] = r
                           THEN [child[r] EXCEPT !.killed = TRUE]
                      ELSE child[r]]
        BY <1>6 DEF Restart
      <4>2. child'[q] = IF child[q].at = "exited" THEN [child[q] EXCEPT !.at = "closed"]
                        ELSE IF graceful /\ registry[SessionOf[q]] = q
                             THEN [child[q] EXCEPT !.killed = TRUE]
                        ELSE child[q]
        BY <4>1
      <4>3. QED
        BY <4>2
    <3>3. child[q] \in Child
      BY <1>1
    <3>4. \/ child'[q].at = child[q].at
          \/ child[q].at = "exited" /\ child'[q].at = "closed"
      BY <3>2, <3>3 DEF Child
    <3>5. QED
      BY <3>1, <3>4
  <2>2. QED
    BY <1>1, <2>1 DEF RunInv, Unlaunched, Denied, PromptKept
<1>7. CASE Observe \/ RevokeGrant \/ RevokeTrust \/ \E r \in Runs : LateDeny(r) \/ Expires(r)
  <2>1. Kept(q)
    BY <1>7 DEF Observe, RevokeGrant, RevokeTrust, LateDeny, Expires, Kept
  <2>2. QED
    BY <1>1, <2>1, KeptIsEnough
<1>8. QED
  BY <1>2, <1>3, <1>4, <1>5, <1>6, <1>7, Values DEF ExitsAlone, ExitsKilled

(* The registry                                                            *)

(* What pruning leaves is alive: the entries with an exited process go.    *)
LEMMA PrunedIsCurrent ==
    ASSUME IInv, NEW s \in Sessions, Pruned[s] # NoRun
    PROVE  /\ Pruned[s] = registry[s] /\ registry[s] \in Runs
           /\ child[registry[s]].at = "running"
  BY DEF IInv, TypeOK, RegistryIsCurrent, Pruned, Stale, Dead

(* A registry the old one bounds, of runs that are still running or exited *)
LEMMA RegistryShrinks ==
    ASSUME IInv,
           \A s \in Sessions : registry'[s] # NoRun =>
                /\ registry'[s] = registry[s]
                /\ child'[registry[s]].at \in {"running", "exited"}
                /\ registry[s] \in owned'
    PROVE  RegistryIsCurrent'
  BY DEF IInv, RegistryIsCurrent

LEMMA JudgeKeepsRegistry ==
    ASSUME IInv, NEW r \in Runs, post[r] \in {"sent", "preparing"},
           \/ Judge(r, registry, terminal)
           \/ Judge(r, Pruned, PrunedTerminal)
    PROVE  RegistryIsCurrent'
<1>1. PICK reg, term :
        /\ Judge(r, reg, term)
        /\ reg \in [Sessions -> Runs \cup {NoRun}]
        /\ \A s \in Sessions : reg[s] # NoRun =>
              reg[s] = registry[s] /\ registry[s] \in Runs
  BY PrunedIsCurrent, TablesAreTyped DEF IInv, TypeOK
<1>2. /\ \A q \in Runs \ {r} : child'[q] = child[q]
      /\ child[r].at = "none"
      /\ child'[r].at # "none" => owned' = owned \cup {r}
      /\ child'[r].at = "none" => owned' = owned
  BY <1>1, JudgeFields
<1>3. CASE registry' = reg
  <2>1. ASSUME NEW s \in Sessions, registry'[s] # NoRun
        PROVE  /\ registry'[s] = registry[s]
               /\ child'[registry[s]].at \in {"running", "exited"}
               /\ registry[s] \in owned'
    <3>1. /\ registry'[s] = registry[s] /\ registry[s] \in Runs /\ registry[s] # NoRun
      BY <1>1, <1>3, <2>1
    <3>2. /\ child[registry[s]].at \in {"running", "exited"}
          /\ registry[s] \in owned
      BY <3>1 DEF IInv, RegistryIsCurrent
    <3>3. registry[s] # r
      BY <1>2, <3>2
    <3>4. QED
      BY <1>2, <3>1, <3>2, <3>3
  <2>2. QED
    BY <2>1, RegistryShrinks
<1>4. CASE registry' # reg
  <2>1. Spawn(r, reg, term)
    BY <1>1, <1>4 DEF Judge
  <2>2. /\ child' = [child EXCEPT ![r].at = "running"]
        /\ registry' = [reg EXCEPT ![SessionOf[r]] = r]
        /\ owned' = owned \cup {r}
    BY <1>4, <2>1 DEF Spawn
  <2>3. child'[r].at = "running"
    BY <2>2 DEF IInv, TypeOK, Child
  <2>4. ASSUME NEW s \in Sessions, registry'[s] # NoRun
        PROVE  /\ SessionOf[registry'[s]] = s
               /\ child'[registry'[s]].at \in {"running", "exited"}
               /\ registry'[s] \in owned'
    <3>1. CASE s = SessionOf[r]
      BY <1>1, <2>2, <2>3, <3>1
    <3>2. CASE s # SessionOf[r]
      <4>1. registry'[s] = registry[s] /\ registry[s] \in Runs /\ registry[s] # NoRun
        BY <1>1, <2>2, <2>4, <3>2
      <4>2. /\ SessionOf[registry[s]] = s
            /\ child[registry[s]].at \in {"running", "exited"}
            /\ registry[s] \in owned
        BY <4>1 DEF IInv, RegistryIsCurrent
      <4>3. registry[s] # r
        BY <1>2, <4>2
      <4>4. QED
        BY <1>2, <2>2, <4>1, <4>2, <4>3
    <3>3. QED
      BY <3>1, <3>2
  <2>5. QED
    BY <2>4 DEF RegistryIsCurrent
<1>5. QED
  BY <1>3, <1>4

LEMMA RegistryKept ==
    ASSUME IInv, [Next]_vars
    PROVE  RegistryIsCurrent'
<1>1. /\ TypeOK
      /\ child \in [Runs -> Child] /\ \A r \in Runs : child[r] \in Child
      /\ registry \in [Sessions -> Runs \cup {NoRun}]
      /\ \A s \in Sessions : registry[s] # NoRun =>
            /\ registry[s] \in Runs /\ SessionOf[registry[s]] = s
            /\ child[registry[s]].at \in {"running", "exited"}
            /\ registry[s] \in owned
  BY DEF IInv, TypeOK, RegistryIsCurrent
<1>2. ASSUME NEW r \in Runs, RouteStep(r) PROVE RegistryIsCurrent'
  <2>1. post[r] \in {"sent", "preparing"}
    BY <1>2 DEF RouteStep, Received, Prepared
  <2>2. CASE Judge(r, registry, terminal) \/ Judge(r, Pruned, PrunedTerminal)
    BY <2>1, <2>2, JudgeKeepsRegistry
  <2>3. CASE child' = child /\ owned' = owned /\ (Filed \/ registry' = registry)
    BY <1>1, <2>3, PrunedIsCurrent, RegistryShrinks DEF Filed
  <2>4. QED
    BY <1>2, <2>2, <2>3 DEF RouteStep, Received, Prepared, table
<1>3. ASSUME NEW r \in Runs, Delete(r) PROVE RegistryIsCurrent'
  <2>1. \A q \in Runs : child'[q].at = child[q].at
    BY <1>1, <1>3 DEF Delete, Child
  <2>2. owned' = owned /\ registry' = Pruned
    BY <1>3 DEF Delete, Filed
  <2>3. QED
    BY <1>1, <2>1, <2>2, PrunedIsCurrent, RegistryShrinks
<1>4. CASE Observe
  BY <1>1, <1>4, PrunedIsCurrent, RegistryShrinks DEF Observe, Filed
<1>5. ASSUME NEW r \in Runs, NEW k \in Code, ExitWith(r, k) PROVE RegistryIsCurrent'
  <2>1. /\ \A q \in Runs \ {r} : child'[q] = child[q]
        /\ r \in owned => child'[r].at = "exited"
        /\ owned' = owned /\ registry' = registry
    BY <1>1, <1>5 DEF ExitWith, Child, table
  <2>2. QED
    BY <1>1, <2>1, RegistryShrinks
<1>6. ASSUME NEW r \in Runs, Timeout(r) PROVE RegistryIsCurrent'
  <2>1. /\ \A q \in Runs : child'[q].at = child[q].at
        /\ owned' = owned /\ registry' = registry
    BY <1>1, <1>6 DEF Timeout, Child, table
  <2>2. QED
    BY <1>1, <2>1, RegistryShrinks
<1>7. ASSUME NEW r \in Runs, Closes(r) PROVE RegistryIsCurrent'
  <2>1. /\ \A q \in Runs \ {r} : child'[q] = child[q]
        /\ owned' = owned
        /\ registry' = [registry EXCEPT ![SessionOf[r]] = NoRun]
    BY <1>1, <1>7 DEF Closes
  <2>2. \A s \in Sessions : registry'[s] # NoRun => s # SessionOf[r] /\ registry'[s] = registry[s]
    BY <1>1, <2>1
  <2>3. QED
    BY <1>1, <2>1, <2>2, RegistryShrinks
<1>8. CASE Restart
  BY <1>8 DEF Restart, RegistryIsCurrent
<1>9. CASE \/ \E r \in Runs : \/ Start(r) \/ Abort(r) \/ ConnectionLost(r) \/ StopFails(r) \/ CallStep(r)
                              \/ LateDeny(r) \/ Expires(r)
                              \/ \E d \in Choice \ {"none"} : Decide(r, d)
           \/ RevokeGrant \/ RevokeTrust \/ UNCHANGED vars
  <2>1. child' = child /\ owned' = owned /\ registry' = registry
    BY <1>9 DEF Start, Abort, ConnectionLost, StopFails, Decide, CallStep, Refused, Asked,
       DecisionAnswered, Attached, ReadEnd, Stopped, PeerGone, LateDeny, Expires,
       RevokeGrant, RevokeTrust, table, vars
  <2>2. QED
    BY <1>1, <2>1, RegistryShrinks
<1>10. QED
  BY <1>2, <1>3, <1>4, <1>5, <1>6, <1>7, <1>8, <1>9, Values
  DEF Next, ExitsAlone, ExitsKilled

-----------------------------------------------------------------------------
(* The theorems                                                            *)

LEMMA InitIsFine == Init => IInv
<1> SUFFICES ASSUME Init PROVE IInv
  OBVIOUS
<1>1. TypeOK
  <2>1. call \in [Runs -> Call]
    BY Values DEF Init, Call
  <2>2. post \in [Runs -> Post] /\ prompt \in [Runs -> Prompt]
    BY Values DEF Init
  <2>3. approval \in [Runs -> Approval]
    BY DEF Init, Approval
  <2>4. child \in [Runs -> Child]
    BY Values DEF Init, Child
  <2>5. QED
    BY <2>1, <2>2, <2>3, <2>4 DEF Init, TypeOK
<1>2. \A r \in Runs : Unlaunched(r) /\ Denied(r) /\ PromptKept(r)
  BY DEF Init, Unlaunched, Denied, PromptKept
<1>3. RegistryIsCurrent
  BY DEF Init, RegistryIsCurrent
<1>4. QED
  BY <1>1, <1>2, <1>3 DEF IInv

LEMMA StepIsFine == IInv /\ [Next]_vars => IInv'
<1> SUFFICES ASSUME IInv, [Next]_vars PROVE IInv'
  OBVIOUS
<1>1. TypeOK'
  BY StepIsTyped DEF IInv
<1>2. RegistryIsCurrent'
  BY RegistryKept
<1>3. \A q \in Runs : RunInv(q)'
  <2>1. CASE UNCHANGED vars
    BY <2>1, KeptIsEnough DEF Kept, IInv, RunInv, vars
  <2>2. CASE Next
    BY <2>2, ClientKeepsRuns, RouteKeepsRuns, RuntimeKeepsRuns DEF Next
  <2>3. QED
    BY <2>1, <2>2
<1>4. QED
  BY <1>1, <1>2, <1>3 DEF IInv, RunInv

(* What every client may believe, and what the runtime did for it, go      *)
(* together after any steps of any runs (harness.ts, session-start.ts).    *)
THEOREM Inductive == Spec => []IInv
<1>1. QED
  BY InitIsFine, StepIsFine, PTL DEF Spec

(* The variables keep their types: every phase, status, request and exit   *)
(* code is one the code knows.                                             *)
THEOREM TypeCorrect == Spec => []TypeOK
<1>1. IInv => TypeOK
  BY DEF IInv
<1>2. QED
  BY <1>1, Inductive, PTL

(* A run that the user denied, or cancelled while it waited for approval,  *)
(* never gets a process, however many runs, faults and restarts there are. *)
THEOREM RefusalIsFinal == Spec => []RefusedNeverLaunches
<1>1. IInv => RefusedNeverLaunches
  BY DEF IInv, RefusedNeverLaunches, Unlaunched, Denied
<1>2. QED
  BY <1>1, Inductive, PTL

(* A session's registry entry is always a process of that session, started *)
(* by this runtime, that has not been closed yet (registerProcess).        *)
THEOREM RegistryAlwaysCurrent == Spec => []RegistryIsCurrent
<1>1. IInv => RegistryIsCurrent
  BY DEF IInv
<1>2. QED
  BY <1>1, Inductive, PTL

(* No interleaving of launch, detach, restart and close removes the prompt *)
(* of a managed run while its agent is there (grok-prompt-artifacts.ts).   *)
THEOREM PromptAlwaysOutlives == Spec => []PromptOutlivesAgent
<1>1. IInv => PromptOutlivesAgent
  BY RunsAssumption DEF IInv, PromptOutlivesAgent, PromptKept
<1>2. QED
  BY <1>1, Inductive, PTL

-----------------------------------------------------------------------------
(* Consent                                                                 *)

(* An approval request whose token is neither issued nor taken away        *)
LEMMA TokenKept ==
    ASSUME NEW q \in Runs, SaidOnce(q),
           call'[q].said = call[q].said,
           \/ call'[q].at = call[q].at
           \/ call'[q].at \notin {"idle", "posting", "asking", "withdrawn"}
           \/ call[q].at \in {"idle", "posting", "asking", "withdrawn"},
           approval'[q].token = "live" => approval[q].token = "live"
    PROVE  SaidOnce(q)'
  BY DEF SaidOnce, Allowed

(* decideApproval leaves a live token only on the user's own yes.          *)
LEMMA DecidedToken ==
    ASSUME TypeOK, NEW r \in Runs, Decided(r)
    PROVE  /\ approval'[r].token = "live" => approval[r].token = "live" \/ Allowed(r)
           /\ \A q \in Runs \ {r} : approval'[q] = approval[q]
<1>1. approval \in [Runs -> Approval] /\ approval[r] \in Approval
  BY DEF TypeOK
<1> DEFINE q == IF approval[r].request = "pending" THEN "gone" ELSE approval[r].request
           t == IF Granted(r) THEN "live" ELSE approval[r].token
<1>2. approval' = [approval EXCEPT ![r].request = q, ![r].token = t]
  BY DEF Decided
<1>3. t = "live" => approval[r].token = "live" \/ Allowed(r)
  BY DEF Granted
<1> HIDE DEF q, t
<1>4. approval'[r].token = t /\ \A p \in Runs \ {r} : approval'[p] = approval[p]
  BY <1>1, <1>2 DEF Approval
<1>5. QED
  BY <1>3, <1>4

(* evaluatePolicy never issues one, and takes the one it was shown.        *)
LEMMA JudgedToken ==
    ASSUME TypeOK, NEW r \in Runs, NEW reg, NEW term, Judge(r, reg, term)
    PROVE  /\ approval'[r].token = IF Carried(r) THEN "gone" ELSE approval[r].token
           /\ \A q \in Runs \ {r} : approval'[q] = approval[q]
<1>1. approval \in [Runs -> Approval] /\ approval[r] \in Approval
  BY DEF TypeOK
<1> DEFINE t == IF Carried(r) THEN "gone" ELSE approval[r].token
           q == IF trusted /\ ~Permitted(r) THEN "pending" ELSE approval[r].request
<1>2. approval' = [approval EXCEPT ![r].token = t, ![r].request = q]
  BY DEF Judge
<1> HIDE DEF q, t
<1>3. approval'[r].token = t /\ \A p \in Runs \ {r} : approval'[p] = approval[p]
  BY <1>1, <1>2 DEF Approval
<1>4. QED
  BY <1>3 DEF t

LEMMA CallSaidOnce ==
    ASSUME ConsentInv, NEW r \in Runs,
           \/ Start(r) \/ Abort(r) \/ ConnectionLost(r) \/ StopFails(r)
           \/ CallStep(r)
           \/ \E d \in Choice \ {"none"} : Decide(r, d)
    PROVE  \A q \in Runs : SaidOnce(q)'
<1>1. /\ TypeOK /\ SaidOnce(r)
      /\ call \in [Runs -> Call] /\ call[r] \in Call
      /\ approval \in [Runs -> Approval] /\ approval[r] \in Approval
  BY DEF ConsentInv, IInv, TypeOK
<1>2. CASE Start(r)
  <2>1. /\ call'[r].at = "posting" /\ call'[r].said = call[r].said
        /\ call[r].at = "idle" /\ approval' = approval
        /\ \A q \in Runs \ {r} : call'[q] = call[q]
    BY <1>1, <1>2, CallFields DEF Start, policy
  <2>2. QED
    BY <1>1, <2>1, TokenKept DEF ConsentInv
<1>3. CASE Abort(r)
  <2>1. /\ call'[r].said = call[r].said
        /\ \/ call'[r].at \in {"ended", "stopping", "deciding"}
           \/ call'[r].at = "withdrawn" /\ call[r].at = "asking"
        /\ \A q \in Runs \ {r} : call'[q] = call[q]
    BY <1>1, <1>3 DEF Abort, Call
  <2>2. \A q \in Runs : approval'[q].token = approval[q].token
    BY <1>1, <1>3 DEF Abort, Approval
  <2>3. QED
    BY <1>1, <2>1, <2>2, TokenKept DEF ConsentInv
<1>4. CASE ConnectionLost(r) /\ ~Decided(r)
  <2>1. /\ call'[r].said = call[r].said /\ call'[r].at = "ended"
        /\ approval' = approval
        /\ \A q \in Runs \ {r} : call'[q] = call[q]
    BY <1>1, <1>4, CallFields DEF ConnectionLost, Lose
  <2>2. QED
    BY <1>1, <2>1, TokenKept DEF ConsentInv
<1>5. CASE Decided(r) /\ (ConnectionLost(r) \/ DecisionAnswered(r))
  <2>1. /\ call'[r].said = call[r].said
        /\ call'[r].at \in {"ended", "reposting"}
        /\ \A q \in Runs \ {r} : call'[q] = call[q]
    BY <1>1, <1>5, CallFields DEF ConnectionLost, Lose, DecisionAnswered
  <2>2. /\ approval'[r].token = "live" => approval[r].token = "live" \/ Allowed(r)
        /\ \A q \in Runs \ {r} : approval'[q] = approval[q]
    BY <1>1, <1>5, DecidedToken
  <2>3. SaidOnce(r)'
    BY <1>1, <2>1, <2>2 DEF SaidOnce, Allowed
  <2>4. QED
    BY <2>1, <2>2, <2>3, TokenKept DEF ConsentInv
<1>6. CASE \E d \in Choice \ {"none"} : Decide(r, d)
  <2>1. /\ call'[r].at = "deciding" /\ call[r].at = "asking" /\ approval' = approval
        /\ \A q \in Runs \ {r} : call'[q] = call[q]
    BY <1>1, <1>6 DEF Decide, policy, Call
  <2>2. approval[r].token # "live"
    BY <1>1, <2>1 DEF SaidOnce, Allowed
  <2>3. SaidOnce(r)'
    BY <2>1, <2>2 DEF SaidOnce
  <2>4. QED
    BY <2>1, <2>3, TokenKept DEF ConsentInv
<1>7. CASE Refused(r) \/ Asked(r) \/ Attached(r) \/ ReadEnd(r) \/ Stopped(r) \/ PeerGone(r)
  <2>1. /\ call'[r].said = call[r].said /\ approval' = approval
        /\ \/ call'[r].at \in {"ended", "reading"}
           \/ call'[r].at = "asking" /\ call[r].at = "posting"
        /\ \A q \in Runs \ {r} : call'[q] = call[q]
    BY <1>1, <1>7, CallFields DEF Refused, Asked, Attached, ReadEnd, Stopped, PeerGone,
       Lose, policy
  <2>2. QED
    BY <1>1, <2>1, TokenKept DEF ConsentInv
<1>8. CASE StopFails(r)
  <2>1. /\ call'[r].said = call[r].said /\ approval' = approval
        /\ call'[r].at \in {call[r].at, "ended"}
        /\ \A q \in Runs \ {r} : call'[q] = call[q]
    BY <1>1, <1>8, CallFields DEF StopFails, policy
  <2>2. QED
    BY <1>1, <2>1, TokenKept DEF ConsentInv
<1>9. QED
  BY <1>2, <1>3, <1>4, <1>5, <1>6, <1>7, <1>8 DEF CallStep, DecisionAnswered

LEMMA RuntimeSaidOnce ==
    ASSUME ConsentInv,
           \/ \E r \in Runs : \/ RouteStep(r)
                              \/ ExitsAlone(r) \/ ExitsKilled(r) \/ Timeout(r) \/ Closes(r)
                              \/ LateDeny(r) \/ Expires(r) \/ Delete(r)
           \/ Observe \/ RevokeGrant \/ RevokeTrust \/ Restart \/ UNCHANGED vars
    PROVE  \A q \in Runs : SaidOnce(q)'
<1>1. /\ TypeOK /\ \A q \in Runs : SaidOnce(q)
      /\ approval \in [Runs -> Approval] /\ \A q \in Runs : approval[q] \in Approval
  BY DEF ConsentInv, IInv, TypeOK
<1>2. call' = call
  BY DEF RouteStep, Received, Prepared, ExitsAlone, ExitsKilled, ExitWith, Timeout, Closes,
     LateDeny, Expires, Delete, Observe, RevokeGrant, RevokeTrust, Restart, vars
<1>3. \A q \in Runs : approval'[q].token = "live" => approval[q].token = "live"
  <2>1. ASSUME NEW r \in Runs, RouteStep(r)
        PROVE  \A q \in Runs : approval'[q].token = "live" => approval[q].token = "live"
    <3>1. approval' = approval \/ \E reg, term : Judge(r, reg, term)
      BY <2>1 DEF RouteStep, Received, Prepared
    <3>2. QED
      BY <1>1, <3>1, JudgedToken
  <2>2. ASSUME NEW r \in Runs, LateDeny(r) \/ Expires(r)
        PROVE  \A q \in Runs : approval'[q].token = "live" => approval[q].token = "live"
    <3> DEFINE g == IF approval[r].request = "pending" THEN "gone" ELSE approval[r].request
    <3>1. \/ approval' = [approval EXCEPT ![r].denying = FALSE, ![r].request = g]
          \/ approval' = [approval EXCEPT ![r].request = "gone"]
          \/ approval' = [approval EXCEPT ![r].token = "gone"]
      BY <2>2 DEF LateDeny, Expires
    <3> HIDE DEF g
    <3>2. QED
      BY <1>1, <3>1 DEF Approval
  <2>3. ASSUME Restart, NEW q \in Runs PROVE approval'[q].token # "live"
    <3>1. approval'[q] = [approval[q] EXCEPT
                        !.request = IF @ = "none" THEN @ ELSE "gone",
                        !.token = IF @ = "none" THEN @ ELSE "gone",
                        !.denying = FALSE]
      BY <2>3 DEF Restart
    <3>2. QED
      BY <1>1, <3>1 DEF Approval
  <2>4. CASE approval' = approval
    BY <2>4
  <2>5. QED
    BY <2>1, <2>2, <2>3, <2>4 DEF ExitsAlone, ExitsKilled, ExitWith, Timeout, Closes,
       Delete, Observe, RevokeGrant, RevokeTrust, vars, policy
<1>4. QED
  BY <1>1, <1>2, <1>3, TokenKept

LEMMA ConsentIsKept == ConsentInv /\ [Next]_vars => ConsentInv'
<1>1. ASSUME ConsentInv, [Next]_vars PROVE ConsentInv'
  <2>1. IInv'
    BY <1>1, StepIsFine DEF ConsentInv
  <2>2. \A q \in Runs : SaidOnce(q)'
    BY <1>1, CallSaidOnce, RuntimeSaidOnce DEF Next
  <2>3. QED
    BY <2>1, <2>2 DEF ConsentInv
<1>2. QED
  BY <1>1

(* A process is only ever started by a launch that is being judged, and    *)
(* the judgement that lets a command the policy asks about pass holds the  *)
(* user's unused yes, or a grant in force.                                 *)
LEMMA StartsByConsent ==
    ASSUME ConsentInv, [Next]_vars, NEW q \in Asking,
           child[q].at = "none", child'[q].at # "none"
    PROVE  \/ always
           \/ /\ Allowed(q)
              /\ approval[q].token = "live" /\ approval'[q].token = "gone"
<1>1. /\ q \in Runs /\ TypeOK /\ IInv /\ SaidOnce(q)
      /\ child \in [Runs -> Child] /\ \A p \in Runs : child[p] \in Child
  BY RunsAssumption DEF ConsentInv, IInv, TypeOK
<1>2. PICK r \in Runs : RouteStep(r)
  <2>1. CASE \E r \in Runs : ExitsAlone(r) \/ ExitsKilled(r) \/ Timeout(r) \/ Closes(r)
    BY <1>1, <2>1 DEF ExitsAlone, ExitsKilled, ExitWith, Timeout, Closes, Child
  <2>2. CASE \E r \in Runs : Delete(r)
    BY <1>1, <2>2 DEF Delete, Child
  <2>3. CASE Restart
    <3>1. PICK g \in BOOLEAN :
            child' = [r \in Runs |->
                      IF child[r].at = "exited" THEN [child[r] EXCEPT !.at = "closed"]
                      ELSE IF g /\ registry[SessionOf[r]] = r
                           THEN [child[r] EXCEPT !.killed = TRUE]
                      ELSE child[r]]
      BY <2>3 DEF Restart
    <3>2. child'[q] = IF g /\ registry[SessionOf[q]] = q
                      THEN [child[q] EXCEPT !.killed = TRUE] ELSE child[q]
      BY <1>1, <3>1
    <3>3. QED
      BY <1>1, <3>2 DEF Child
  <2>4. CASE child' = child
    BY <2>4
  <2>5. QED
    BY <2>1, <2>2, <2>3, <2>4 DEF Next, Start, Abort, ConnectionLost, StopFails, Decide, CallStep,
       Refused, Asked, DecisionAnswered, Attached, ReadEnd, Stopped, PeerGone, LateDeny,
       Expires, Observe, RevokeGrant, RevokeTrust, vars
<1>3. PICK reg, term : Judge(r, reg, term)
  BY <1>2 DEF RouteStep, Received, Prepared
<1>4. post[r] \in {"sent", "preparing"}
  BY <1>2 DEF RouteStep, Received, Prepared
<1>5. r = q
  BY <1>1, <1>3, <1>4, JudgeFields
<1>6. Permitted(q)
  BY <1>3, <1>5 DEF Judge
<1>7. QED
  BY <1>1, <1>3, <1>5, <1>6, JudgedToken DEF Permitted, Carried, SaidOnce

(* Whatever the decisions, retries, lost answers, expiries and restarts, a *)
(* command the policy asks about starts only on a standing grant or on the *)
(* user's own yes, which that very start uses up (approvals.ts,            *)
(* session-start.ts).                                                      *)
THEOREM ConsentIsAsked == Spec => Consent
<1>1. Init => ConsentInv
  <2>1. Init => \A r \in Runs : SaidOnce(r)
    BY DEF Init, SaidOnce
  <2>2. QED
    BY <2>1, InitIsFine DEF ConsentInv
<1>2. Spec => []ConsentInv
  BY <1>1, ConsentIsKept, PTL DEF Spec
<1>3. ConsentInv /\ [Next]_vars => [\A r \in Asking :
        child[r].at = "none" /\ child'[r].at # "none"
            => \/ always
               \/ /\ Allowed(r)
                  /\ approval[r].token = "live" /\ approval'[r].token = "gone"]_vars
  BY StartsByConsent
<1>4. QED
  BY <1>2, <1>3, PTL DEF Spec, Consent

-----------------------------------------------------------------------------
(* Stops                                                                   *)

(* A process only moves forward, and stays killed.                         *)
Onward(q) ==
    /\ child[q].at # "none" => child'[q].at # "none"
    /\ Dead(q) => Dead(q)'
    /\ child[q].killed => child'[q].killed

(* Without the route, a process starts nowhere and changes at one place.   *)
LEMMA RuntimeProcess ==
    ASSUME TypeOK, NEW r \in Runs, NEW k \in Code,
           ExitWith(r, k) \/ Timeout(r) \/ Closes(r)
    PROVE  /\ \A q \in Runs \ {r} : child'[q] = child[q]
           /\ child[r].at # "none" /\ child'[r].at # "none"
           /\ Dead(r) => Dead(r)'
           /\ child[r].killed => child'[r].killed
           /\ child'[r].killed => child[r].killed \/ child'[r].code = "timeout"
           /\ child'[r].at = "running" => child[r].at = "running"
           /\ r \in owned \/ Dead(r)'
<1>1. child \in [Runs -> Child] /\ child[r] \in Child
  BY DEF TypeOK
<1>2. CASE ExitWith(r, k)
  <2> DEFINE p == IF r \in owned THEN "exited" ELSE "closed"
             c == IF child[r].code = "timeout" THEN child[r].code ELSE k
  <2>1. child' = [child EXCEPT ![r].at = p, ![r].code = c] /\ child[r].at = "running"
    BY <1>2 DEF ExitWith
  <2>2. p \in {"exited", "closed"}
    OBVIOUS
  <2> HIDE DEF p, c
  <2>3. QED
    BY <1>1, <2>1, <2>2 DEF Child, Dead
<1>3. CASE Timeout(r)
  BY <1>1, <1>3 DEF Timeout, Child, Dead
<1>4. CASE Closes(r)
  BY <1>1, <1>4 DEF Closes, Child, Dead
<1>5. QED
  BY <1>2, <1>3, <1>4

LEMMA DeletedProcess ==
    ASSUME IInv, NEW r \in Runs, Delete(r)
    PROVE  \A q \in Runs :
                /\ child'[q].at = child[q].at
                /\ child'[q].killed <=>
                      child[q].killed \/ (registry[SessionOf[r]] = q /\ child[q].at = "running")
                /\ child'[q].killed /\ ~child[q].killed => SessionOf[q] = SessionOf[r]
<1>1. /\ child \in [Runs -> Child] /\ \A q \in Runs : child[q] \in Child
      /\ registry \in [Sessions -> Runs \cup {NoRun}] /\ SessionOf[r] \in Sessions
  BY RunsAssumption DEF IInv, TypeOK
<1>2. CASE Occupied(SessionOf[r])
  <2>1. /\ Pruned[SessionOf[r]] = registry[SessionOf[r]] /\ registry[SessionOf[r]] \in Runs
        /\ child[registry[SessionOf[r]]].at = "running"
        /\ SessionOf[registry[SessionOf[r]]] = SessionOf[r]
    BY <1>1, <1>2, PrunedIsCurrent DEF IInv, RegistryIsCurrent, Occupied
  <2>2. child' = [child EXCEPT ![registry[SessionOf[r]]].killed = TRUE]
    BY <1>2, <2>1 DEF Delete
  <2>3. QED
    BY <1>1, <2>1, <2>2 DEF Child
<1>3. CASE ~Occupied(SessionOf[r])
  <2>1. child' = child
    BY <1>3 DEF Delete
  <2>2. ASSUME NEW q \in Runs, registry[SessionOf[r]] = q PROVE child[q].at # "running"
    <3>1. registry[SessionOf[r]] # NoRun
      BY <2>2, RunsAssumption
    <3>2. SessionOf[r] \in Stale
      BY <1>1, <1>3, <3>1 DEF Occupied, Pruned
    <3>3. QED
      BY <2>2, <3>2 DEF Stale, Dead
  <2>3. QED
    BY <1>1, <2>1, <2>2 DEF Child
<1>4. QED
  BY <1>2, <1>3

LEMMA RestartedProcess ==
    ASSUME TypeOK, Restart, NEW q \in Runs
    PROVE  /\ child'[q].at = IF child[q].at = "exited" THEN "closed" ELSE child[q].at
           /\ child[q].killed => child'[q].killed
           /\ restarts' # restarts /\ restarts' # 0
<1>1. child[q] \in Child
  BY DEF TypeOK
<1>2. child'[q] \in {[child[q] EXCEPT !.at = "closed"],
                     [child[q] EXCEPT !.killed = TRUE], child[q]}
      /\ (child[q].at = "exited" => child'[q] = [child[q] EXCEPT !.at = "closed"])
      /\ (child[q].at # "exited" => child'[q] \in {child[q], [child[q] EXCEPT !.killed = TRUE]})
  BY DEF Restart
<1>3. restarts' = restarts + 1 /\ restarts \in Nat
  BY DEF Restart, TypeOK
<1>4. restarts' # restarts /\ restarts' # 0
  BY <1>3
<1>5. QED
  BY <1>1, <1>2, <1>4 DEF Child

(* A step of Next is the route's, or one of the actions above, or touches  *)
(* no process at all.                                                      *)
ClientStep ==
    \/ \E r \in Runs : \/ Start(r) \/ Abort(r) \/ ConnectionLost(r) \/ StopFails(r) \/ CallStep(r)
                       \/ LateDeny(r) \/ Expires(r)
                       \/ \E d \in Choice \ {"none"} : Decide(r, d)
    \/ RevokeGrant \/ RevokeTrust \/ UNCHANGED vars

LEMMA StepKinds ==
    ASSUME [Next]_vars
    PROVE  \/ ClientStep \/ Observe \/ Restart
           \/ \E r \in Runs : RouteStep(r)
           \/ \E r \in Runs, k \in Code : ExitWith(r, k) \/ Timeout(r) \/ Closes(r)
           \/ \E r \in Runs : Delete(r)
<1>1. {"ok", "error"} \subseteq Code
  BY DEF Code
<1>2. QED
  BY <1>1 DEF Next, ClientStep, ExitsAlone, ExitsKilled

LEMMA ClientTouchesNone ==
    ASSUME ClientStep
    PROVE  child' = child /\ owned' = owned /\ table' = table /\ restarts' = restarts
  BY DEF ClientStep, Start, Abort, ConnectionLost, StopFails, CallStep, LateDeny, Expires, Decide,
     RevokeGrant, RevokeTrust, vars, Refused, Asked, DecisionAnswered, Attached, ReadEnd,
     Stopped, PeerGone, env, table

(* What the launch route may do to the processes, the table and the posts  *)
LEMMA RouteProcess ==
    ASSUME IInv, NEW r \in Runs, RouteStep(r)
    PROVE  /\ \A q \in Runs \ {r} : child'[q] = child[q] /\ post'[q] = post[q]
           /\ child[r].at = "none" /\ (child'[r].killed <=> child[r].killed)
           /\ post'[r] = "stream" => child'[r].at # "none"
           /\ owned \subseteq owned' /\ owned' \subseteq owned \cup {r}
           /\ child'[r].at # "none" => r \in owned'
           /\ \A s \in Sessions : registry'[s] \in {registry[s], Pruned[s]}
                                  \/ (s = SessionOf[r] /\ registry'[s] = r)
           /\ child'[r].at = "running" => registry'[SessionOf[r]] = r
           /\ call' = call /\ stop' = stop
           /\ restarts' = restarts /\ unheard' = unheard
<1>1. /\ TypeOK /\ post[r] \in {"sent", "preparing"} /\ Unlaunched(r)
      /\ call' = call /\ stop' = stop /\ restarts' = restarts /\ unheard' = unheard
      /\ child \in [Runs -> Child] /\ child[r] \in Child /\ post \in [Runs -> Post]
      /\ SessionOf[r] \in Sessions
  BY RunsAssumption DEF IInv, TypeOK, RouteStep, Received, Prepared, env
<1>2. child[r].at = "none"
  BY <1>1 DEF Unlaunched
<1>3. CASE \/ Judge(r, registry, terminal) \/ Judge(r, Pruned, PrunedTerminal)
  <2>1. PICK reg, term : /\ Judge(r, reg, term)
                         /\ reg \in [Sessions -> Runs \cup {NoRun}]
                         /\ reg \in {registry, Pruned}
    BY <1>1, <1>3, TablesAreTyped DEF TypeOK
  <2>2. CASE ~(trusted /\ Permitted(r))
    <3>1. child' = child /\ owned' = owned /\ registry' = reg
      BY <2>1, <2>2 DEF Judge
    <3>2. post'[r] # "stream" /\ \A q \in Runs \ {r} : post'[q] = post[q]
      BY <1>1, <2>1, <2>2 DEF Judge, Say
    <3>3. QED
      BY <1>1, <1>2, <2>1, <3>1, <3>2
  <2>3. CASE trusted /\ Permitted(r)
    <3>1. Spawn(r, reg, term)
      BY <2>1, <2>3 DEF Judge
    <3>2. \A q \in Runs \ {r} : child'[q] = child[q] /\ post'[q] = post[q]
      BY <1>1, <2>1, JudgeFields
    <3>3. owned' = owned \cup {r}
      BY <3>1 DEF Spawn
    <3>4. /\ child'[r].at # "none" /\ (child'[r].killed <=> child[r].killed)
          /\ child'[r].at = "running" => registry' = [reg EXCEPT ![SessionOf[r]] = r]
          /\ registry' = reg \/ registry' = [reg EXCEPT ![SessionOf[r]] = r]
      <4>1. CASE /\ child' = [child EXCEPT ![r].at = "running"]
                 /\ registry' = [reg EXCEPT ![SessionOf[r]] = r]
        BY <1>1, <4>1 DEF Child
      <4>2. CASE /\ child' = [child EXCEPT ![r].at = "exited", ![r].code = "error"]
                 /\ registry' = reg
        BY <1>1, <4>2 DEF Child
      <4>3. CASE /\ child' = [child EXCEPT ![r].at = "closed", ![r].code = "error"]
                 /\ registry' = reg
        BY <1>1, <4>3 DEF Child
      <4>4. QED
        BY <3>1, <4>1, <4>2, <4>3 DEF Spawn
    <3>5. QED
      BY <1>1, <1>2, <2>1, <3>2, <3>3, <3>4
  <2>4. QED
    BY <2>2, <2>3
<1>4. CASE ~(Judge(r, registry, terminal) \/ Judge(r, Pruned, PrunedTerminal))
  <2>1. /\ child' = child /\ owned' = owned
        /\ Say(r, "refused") \/ Say(r, "preparing")
        /\ registry' \in {registry, Pruned}
    BY <1>4 DEF RouteStep, Received, Prepared, Filed, table
  <2>2. QED
    BY <1>1, <1>2, <2>1 DEF Say
<1>5. QED
  BY <1>3, <1>4

LEMMA ProcessesGoOn ==
    ASSUME IInv, [Next]_vars, NEW q \in Runs
    PROVE  Onward(q)
<1>1. TypeOK /\ child[q] \in Child
  BY DEF IInv, TypeOK
<1>2. CASE ClientStep \/ Observe
  <2>1. child' = child
    BY <1>2, ClientTouchesNone DEF Observe
  <2>2. QED
    BY <2>1 DEF Onward, Dead
<1>3. CASE Restart
  BY <1>1, <1>3, RestartedProcess DEF Onward, Dead
<1>4. ASSUME NEW r \in Runs, RouteStep(r) PROVE Onward(q)
  BY <1>1, <1>4, RouteProcess DEF Onward, Dead
<1>5. ASSUME NEW r \in Runs, NEW k \in Code, ExitWith(r, k) \/ Timeout(r) \/ Closes(r)
      PROVE  Onward(q)
  BY <1>1, <1>5, RuntimeProcess DEF Onward, Dead
<1>6. ASSUME NEW r \in Runs, Delete(r) PROVE Onward(q)
  BY <1>1, <1>6, RunsAssumption, DeletedProcess DEF Onward, Dead
<1>7. QED
  BY <1>2, <1>3, <1>4, <1>5, <1>6, StepKinds

(* Nothing kills a process but a stop of its own session, its own timeout, *)
(* and the runtime's shutdown (stopSessionProcess, stopAllProcesses).      *)
LEMMA KilledForCause ==
    ASSUME IInv, [Next]_vars, NEW q \in Runs, ~child[q].killed, child'[q].killed
    PROVE  \/ \E p \in stop : SessionOf[p] = SessionOf[q]
           \/ child'[q].code = "timeout" \/ restarts' # restarts
<1>1. TypeOK /\ child[q] \in Child
  BY DEF IInv, TypeOK
<1>2. CASE ClientStep \/ Observe
  BY <1>2, ClientTouchesNone DEF Observe
<1>3. CASE Restart
  BY <1>1, <1>3, RestartedProcess
<1>4. ASSUME NEW r \in Runs PROVE ~RouteStep(r)
  BY <1>1, <1>4, RouteProcess
<1>5. ASSUME NEW r \in Runs, NEW k \in Code, ExitWith(r, k) \/ Timeout(r) \/ Closes(r)
      PROVE  child'[q].code = "timeout"
  BY <1>1, <1>5, RuntimeProcess
<1>6. ASSUME NEW r \in Runs, Delete(r) PROVE \E p \in stop : SessionOf[p] = SessionOf[q]
  <2>1. SessionOf[q] = SessionOf[r]
    BY <1>1, <1>6, RunsAssumption, DeletedProcess
  <2>2. QED
    BY <1>6, <2>1 DEF Delete
<1>7. QED
  BY <1>2, <1>3, <1>4, <1>5, <1>6, StepKinds

(* However many runs share how many sessions, an agent is killed only for  *)
(* a stop of its own session, its own timeout or a shutdown of the runtime.*)
THEOREM StopsAreScoped == Spec => StopIsScoped
<1>1. IInv /\ [Next]_vars => [\A r \in Runs :
        ~child[r].killed /\ child'[r].killed
            => \/ \E q \in stop : SessionOf[q] = SessionOf[r]
               \/ child'[r].code = "timeout" \/ restarts' # restarts]_vars
  BY KilledForCause
<1>2. QED
  BY <1>1, Inductive, PTL DEF Spec, StopIsScoped

-----------------------------------------------------------------------------
(* One turn at a time                                                      *)

(* A session's next turn only starts when its last call has ended; here,   *)
(* every call has a session of its own.                                    *)
OneTurn == \A r, q \in Runs : SessionOf[r] = SessionOf[q] => r = q

LEMMA AgentsStayStoppable ==
    ASSUME OneTurn, IInv, AgentsAreStoppable, [Next]_vars
    PROVE  AgentsAreStoppable'
<1> SUFFICES ASSUME NEW q \in owned', child'[q].at = "running"
             PROVE  registry'[SessionOf[q]] = q
  BY DEF AgentsAreStoppable
<1>1. /\ TypeOK /\ TypeOK' /\ q \in Runs /\ child[q] \in Child
      /\ SessionOf[q] \in Sessions /\ q # NoRun
  BY StepIsTyped, RunsAssumption DEF IInv, TypeOK
<1>2. ASSUME q \in owned, child[q].at = "running"
      PROVE  registry[SessionOf[q]] = q /\ Pruned[SessionOf[q]] = q
  BY <1>1, <1>2 DEF AgentsAreStoppable, Pruned, Stale, Dead
<1>3. CASE ClientStep
  BY <1>2, <1>3, ClientTouchesNone DEF table
<1>4. CASE Observe
  BY <1>2, <1>4 DEF Observe, Filed
<1>5. CASE Restart
  BY <1>5 DEF Restart
<1>6. ASSUME NEW r \in Runs, RouteStep(r)
      PROVE  registry'[SessionOf[q]] = q
  <2>1. CASE q = r
    BY <1>6, <2>1, RouteProcess
  <2>2. CASE q # r
    <3>1. child'[q] = child[q] /\ q \in owned
      BY <1>1, <1>6, <2>2, RouteProcess
    <3>2. SessionOf[q] # SessionOf[r]
      BY <1>1, <2>2 DEF OneTurn
    <3>3. registry'[SessionOf[q]] \in {registry[SessionOf[q]], Pruned[SessionOf[q]]}
      BY <1>1, <1>6, <3>2, RouteProcess
    <3>4. QED
      BY <1>2, <3>1, <3>3
  <2>3. QED
    BY <2>1, <2>2
<1>7. ASSUME NEW r \in Runs, NEW k \in Code, ExitWith(r, k) \/ Timeout(r) \/ Closes(r)
      PROVE  registry'[SessionOf[q]] = q
  <2>1. child[q].at = "running"
    BY <1>1, <1>7, RuntimeProcess
  <2>2. q \in owned
    BY <1>7 DEF ExitWith, Timeout, Closes
  <2>3. \/ registry' = registry
        \/ Closes(r) /\ registry' = [registry EXCEPT ![SessionOf[r]] = NoRun]
    BY <1>7 DEF ExitWith, Timeout, Closes, table
  <2>4. Closes(r) => r # q
    BY <2>1 DEF Closes
  <2>5. r # q => SessionOf[q] # SessionOf[r]
    BY <1>1 DEF OneTurn
  <2>6. registry \in [Sessions -> Runs \cup {NoRun}]
    BY <1>1 DEF TypeOK
  <2>7. QED
    BY <1>1, <1>2, <2>1, <2>2, <2>3, <2>4, <2>5, <2>6
<1>8. ASSUME NEW r \in Runs, Delete(r)
      PROVE  registry'[SessionOf[q]] = q
  <2>1. child[q].at = "running" /\ q \in owned /\ registry' = Pruned
    BY <1>1, <1>8, RunsAssumption, DeletedProcess DEF Delete, Filed
  <2>2. QED
    BY <1>2, <2>1
<1>9. QED
  BY <1>3, <1>4, <1>5, <1>6, <1>7, <1>8, StepKinds

-----------------------------------------------------------------------------
(* What the client shows                                                   *)

LEMMA CallShows ==
    ASSUME IInv, \A q \in Runs : Shown(q), NEW r \in Runs,
           \/ Start(r) \/ Abort(r) \/ ConnectionLost(r) \/ StopFails(r)
           \/ CallStep(r)
           \/ \E d \in Choice \ {"none"} : Decide(r, d)
    PROVE  \A q \in Runs : Shown(q)'
<1>1. /\ TypeOK /\ Shown(r)
      /\ call \in [Runs -> Call] /\ call[r] \in Call
      /\ post \in [Runs -> Post]
      /\ child' = child
  BY ClientTouchesNone DEF IInv, TypeOK, ClientStep
<1>2. \A q \in Runs \ {r} : call'[q] = call[q] /\ (post'[q] = "stream" => post[q] = "stream")
  BY <1>1, CallFields DEF Start, Abort, ConnectionLost, StopFails, CallStep, Refused, Asked,
     DecisionAnswered, Attached, ReadEnd, Stopped, PeerGone, Lose, Say, Decide
<1>3. post'[r] = "stream" => post[r] = "stream"
  BY <1>1 DEF Start, Abort, ConnectionLost, StopFails, CallStep, Refused, Asked,
     DecisionAnswered, Attached, ReadEnd, Stopped, PeerGone, Say, Decide
<1>4. \/ call'[r].at \in Over
      \/ call'[r].at \in {"asking", "deciding"} /\ call'[r].status = "ready"
      \/ call'[r].at \in Awaiting /\ call'[r].status = "starting"
      \/ /\ call'[r].at \in {"reading", "stopping"} /\ call'[r].status = "running"
         /\ child[r].at # "none"
      \/ call' = call
  <2> USE DEF Shown, Over, Awaiting, Call
  <2>1. CASE Start(r) \/ Refused(r) \/ Asked(r) \/ Attached(r) \/ ReadEnd(r) \/ Stopped(r)
    BY <1>1, <2>1 DEF Start, Refused, Asked, Attached, ReadEnd, Stopped, Finish
  <2>2. CASE Abort(r)
    BY <1>1, <2>2 DEF Abort
  <2>3. CASE ConnectionLost(r) \/ PeerGone(r)
    BY <1>1, <2>3 DEF ConnectionLost, PeerGone, Lose, Goto, Finish
  <2>4. CASE DecisionAnswered(r)
    BY <1>1, <2>4 DEF DecisionAnswered, Finish
  <2>5. CASE \E d \in Choice \ {"none"} : Decide(r, d)
    <3>1. /\ call[r].at = "asking" /\ call'[r].at = "deciding"
          /\ call'[r].status = call[r].status
      <4>1. PICK d \in Choice \ {"none"} : Decide(r, d)
        BY <2>5
      <4>2. call' = [call EXCEPT ![r].at = "deciding", ![r].said = d] /\ call[r].at = "asking"
        BY <4>1 DEF Decide
      <4>3. QED
        BY ONLY <1>1, <4>2 DEF Call
    <3>2. QED
      BY <1>1, <3>1
  <2>6. CASE StopFails(r)
    BY <1>1, <2>6 DEF StopFails, Finish
  <2>7. QED
    BY <2>1, <2>2, <2>3, <2>4, <2>5, <2>6 DEF CallStep
<1>5. Shown(r)'
  BY <1>1, <1>3, <1>4 DEF Shown, Over, Awaiting
<1>6. QED
  BY <1>1, <1>2, <1>5 DEF Shown

LEMMA StillShown ==
    ASSUME IInv, \A q \in Runs : Shown(q), [Next]_vars
    PROVE  \A q \in Runs : Shown(q)'
<1> SUFFICES ASSUME NEW q \in Runs PROVE Shown(q)'
  OBVIOUS
<1>1. TypeOK /\ Shown(q) /\ Onward(q)
  BY ProcessesGoOn DEF IInv
<1>2. ASSUME call' = call, post'[q] = "stream" => post[q] = "stream"
      PROVE  Shown(q)'
  BY <1>1, <1>2 DEF Shown, Onward
<1>3. ASSUME NEW r \in Runs, RouteStep(r) PROVE Shown(q)'
  <2>1. CASE q = r
    BY <1>1, <1>3, <2>1, RouteProcess DEF Shown, Onward
  <2>2. CASE q # r
    BY <1>2, <1>3, <2>2, RouteProcess
  <2>3. QED
    BY <2>1, <2>2
<1>4. CASE Restart
  <2>1. post'[q] = IF post[q] = "none" THEN post[q] ELSE "lost"
    BY <1>4 DEF Restart
  <2>2. QED
    BY <1>2, <1>4, <2>1 DEF Restart
<1>5. ASSUME NEW r \in Runs, NEW k \in Code, ExitWith(r, k) \/ Timeout(r) \/ Closes(r)
      PROVE  Shown(q)'
  BY <1>2, <1>5 DEF ExitWith, Timeout, Closes
<1>6. ASSUME NEW r \in Runs, Delete(r) PROVE Shown(q)'
  BY <1>2, <1>6 DEF Delete
<1>7. CASE \/ Observe \/ RevokeGrant \/ RevokeTrust \/ UNCHANGED vars
           \/ \E r \in Runs : LateDeny(r) \/ Expires(r)
  BY <1>2, <1>7 DEF Observe, RevokeGrant, RevokeTrust, LateDeny, Expires, vars
<1>8. CASE ClientStep
  BY <1>7, <1>8, CallShows DEF ClientStep
<1>9. QED
  BY <1>3, <1>4, <1>5, <1>6, <1>7, <1>8, StepKinds

-----------------------------------------------------------------------------
(* What a stop reaches                                                     *)

(* The client's side: a call waits for its stop because it sent one, and   *)
(* only that wait, or the end of its own stream, shows it as stopped.      *)
LEMMA StopsInOrder ==
    ASSUME TypeOK, NEW q \in Runs, Shown(q), Reached(q), ClientStep
    PROVE  Reached(q)'
<1>1. /\ child' = child /\ owned' = owned
      /\ call \in [Runs -> Call] /\ call[q] \in Call
  BY ClientTouchesNone DEF TypeOK
<1>2. /\ stop \cup unheard \subseteq stop' \cup unheard'
      /\ unheard \subseteq unheard'
  BY DEF ClientStep, Start, Abort, ConnectionLost, StopFails, CallStep, LateDeny, Expires, Decide,
     RevokeGrant, RevokeTrust, vars, Refused, Asked, DecisionAnswered, Attached, ReadEnd,
     Stopped, PeerGone, env
<1>3. /\ call'[q].at = "stopping" => call[q].at = "stopping" \/ q \in stop'
      /\ call'[q].aborted /\ call'[q].status = "stopped" =>
            \/ call[q].aborted /\ call[q].status = "stopped"
            \/ Stopped(q) \/ ReadEnd(q)
            \/ call[q].at = "stopping" /\ q \in unheard'
  <2>1. CASE call' = call
    BY <2>1
  <2>2. ASSUME NEW r \in Runs, r # q,
               \/ Start(r) \/ Abort(r) \/ ConnectionLost(r) \/ StopFails(r) \/ CallStep(r)
               \/ \E d \in Choice \ {"none"} : Decide(r, d)
        PROVE  call'[q] = call[q]
    BY <1>1, <2>2 DEF Start, Abort, ConnectionLost, StopFails, CallStep, Refused, Asked,
       DecisionAnswered, Attached, ReadEnd, Stopped, PeerGone, Lose, Decide, Goto, Finish
  <2>3. CASE Start(q) \/ Refused(q) \/ Asked(q) \/ Attached(q) \/ ReadEnd(q) \/ Stopped(q)
    BY <1>1, <2>3 DEF Start, Refused, Asked, Attached, Stopped, Finish, ReadEnd, Call
  <2>4. CASE Abort(q)
    BY <1>1, <1>2, <2>4 DEF Abort, Shown, Awaiting, Call
  <2>5. CASE ConnectionLost(q) \/ PeerGone(q)
    BY <1>1, <2>5 DEF ConnectionLost, PeerGone, Lose, Goto, Finish, Call
  <2>6. CASE DecisionAnswered(q)
    BY <1>1, <2>6 DEF DecisionAnswered, Finish, Call
  <2>7. CASE \E d \in Choice \ {"none"} : Decide(q, d)
    BY <1>1, <2>7 DEF Decide, Call
  <2>8. CASE \/ \E r \in Runs : LateDeny(r) \/ Expires(r)
             \/ RevokeGrant \/ RevokeTrust \/ UNCHANGED vars
    BY <2>1, <2>8 DEF LateDeny, Expires, RevokeGrant, RevokeTrust, vars
  <2>9. CASE StopFails(q)
    BY <1>1, <2>9 DEF StopFails, Finish, Call
  <2>10. QED
    BY <2>2, <2>3, <2>4, <2>5, <2>6, <2>7, <2>8, <2>9 DEF ClientStep, CallStep
<1>4. /\ Stopped(q) \/ ReadEnd(q) => q \in unheard \/ child[q].killed \/ Dead(q)
      /\ Stopped(q) \/ ReadEnd(q) \/ call[q].at = "stopping" => child[q].at # "none"
  BY DEF Stopped, ReadEnd, Reached, Shown, Dead
<1>5. QED
  BY <1>1, <1>2, <1>3, <1>4 DEF Reached, Dead

LEMMA StillReached ==
    ASSUME OneTurn, StopInv, [Next]_vars, restarts' = 0, NEW q \in Runs
    PROVE  Reached(q)'
<1>1. /\ TypeOK /\ IInv /\ Shown(q) /\ Onward(q)
      /\ q # NoRun /\ SessionOf[q] \in Sessions
  BY ProcessesGoOn, RunsAssumption DEF IInv, StopInv
<1>2. ~Restart
  BY <1>1, RestartedProcess
<1>3. restarts = 0 /\ Reached(q)
  <2>1. restarts' = restarts
    BY <1>2 DEF Next, Start, Abort, ConnectionLost, StopFails, CallStep, LateDeny, Expires, Decide,
       RevokeGrant, RevokeTrust, vars, Refused, Asked, DecisionAnswered, Attached, ReadEnd,
       Stopped, PeerGone, RouteStep, Received, Prepared, ExitsAlone, ExitsKilled, ExitWith,
       Timeout, Closes, Delete, Observe, env
  <2>2. QED
    BY <2>1 DEF StopInv
<1>4. ASSUME call' = call, stop' = stop, unheard' = unheard, child'[q].at = "running" => q \in owned'
      PROVE  Reached(q)'
  BY <1>1, <1>3, <1>4 DEF Reached, Onward
<1>5. CASE ClientStep
  BY <1>1, <1>3, <1>5, StopsInOrder
<1>6. CASE Observe
  BY <1>3, <1>4, <1>6 DEF Observe, Reached, env
<1>7. ASSUME NEW r \in Runs, RouteStep(r) PROVE Reached(q)'
  <2>1. child'[q].at = "running" => q \in owned'
    BY <1>1, <1>3, <1>7, RouteProcess DEF Reached
  <2>2. call' = call /\ stop' = stop /\ unheard' = unheard
    BY <1>1, <1>7, RouteProcess
  <2>3. QED
    BY <1>4, <2>1, <2>2
<1>8. ASSUME NEW r \in Runs, NEW k \in Code, ExitWith(r, k) \/ Timeout(r) \/ Closes(r)
      PROVE  Reached(q)'
  <2>1. owned' = owned /\ call' = call /\ stop' = stop /\ unheard' = unheard
    BY <1>8 DEF ExitWith, Timeout, Closes, env
  <2>2. child'[q].at = "running" => child[q].at = "running"
    BY <1>1, <1>8, RuntimeProcess
  <2>3. QED
    BY <1>3, <1>4, <2>1, <2>2 DEF Reached
<1>9. ASSUME NEW r \in Runs, Delete(r) PROVE Reached(q)'
  <2>1. /\ call' = call /\ owned' = owned /\ stop' = stop \ {r} /\ unheard' = unheard
        /\ child'[q].at = child[q].at
        /\ registry[SessionOf[r]] = q /\ child[q].at = "running" => child'[q].killed
    BY <1>1, <1>9, RunsAssumption, DeletedProcess DEF Delete, env
  <2>2. CASE q # r
    BY <1>1, <1>3, <2>1, <2>2 DEF Reached, Onward
  <2>3. CASE q = r
    <3>1. child[q].at = "running" => child'[q].killed
      BY <1>3, <2>1, <2>3 DEF StopInv, AgentsAreStoppable, Reached
    <3>2. call[q].at = "stopping" => child[q].at # "none"
      BY <1>1 DEF Shown
    <3>3. child[q] \in Child
      BY <1>1 DEF TypeOK
    <3>4. call[q].at = "stopping" => child'[q].killed \/ Dead(q)'
      BY <1>1, <3>1, <3>2, <3>3 DEF Dead, Child, Onward
    <3>5. QED
      BY <1>1, <1>3, <2>1, <3>4 DEF Reached, Onward
  <2>4. QED
    BY <2>2, <2>3
<1>10. QED
  BY <1>2, <1>5, <1>6, <1>7, <1>8, <1>9, StepKinds

LEMMA StopInvIsKept == OneTurn /\ StopInv /\ [Next]_vars => StopInv'
<1> SUFFICES ASSUME OneTurn, StopInv, [Next]_vars PROVE StopInv'
  OBVIOUS
<1>1. IInv'
  BY StepIsFine DEF StopInv
<1>2. AgentsAreStoppable'
  BY AgentsStayStoppable DEF StopInv
<1>3. \A q \in Runs : Shown(q)'
  BY StillShown DEF StopInv
<1>4. \A q \in Runs : restarts' = 0 => Reached(q)'
  BY StillReached
<1>5. QED
  BY <1>1, <1>2, <1>3, <1>4 DEF StopInv

LEMMA StopInvHolds == OneTurn => (Spec => []StopInv)
<1>1. Init => StopInv
  <2>1. Init => AgentsAreStoppable /\ \A q \in Runs : Shown(q) /\ Reached(q)
    BY DEF Init, AgentsAreStoppable, Shown, Reached, Awaiting
  <2>2. QED
    BY <2>1, InitIsFine DEF StopInv
<1>2. OneTurn /\ StopInv /\ [Next]_vars => StopInv'
  BY StopInvIsKept
<1>3. SUFFICES ASSUME OneTurn PROVE Spec => []StopInv
  OBVIOUS
<1>4. StopInv /\ [Next]_vars => StopInv'
  BY <1>2, <1>3
<1>5. QED
  BY <1>1, <1>4, PTL DEF Spec

(* In whatever order launches, detaches, stops, exits and restarts happen, *)
(* a running agent of this runtime is the one its session has registered,  *)
(* as long as a session has one turn at a time (process-lifecycle.ts).     *)
THEOREM AgentsStoppable ==
    ASSUME \A r, q \in Runs : SessionOf[r] = SessionOf[q] => r = q
    PROVE  Spec => []AgentsAreStoppable
<1>1. OneTurn
  BY DEF OneTurn
<1>2. Spec => []StopInv
  BY <1>1, StopInvHolds
<1>3. StopInv => AgentsAreStoppable
  BY DEF StopInv
<1>4. QED
  BY <1>2, <1>3, PTL

(* Until the runtime is restarted, a call that was aborted and shows       *)
(* "stopped" has had its agent killed, or seen it end: the answer to its   *)
(* stop is never about some other process.  A stop whose DELETE was lost   *)
(* leaves the agent behind, as the one its session's next stop reaches     *)
(* (harness.ts, handleSessionStartDelete).                                 *)
THEOREM StopsReachAgents ==
    ASSUME \A r, q \in Runs : SessionOf[r] = SessionOf[q] => r = q
    PROVE  Spec => [](restarts = 0 => StopReachesAgent)
<1>1. OneTurn
  BY DEF OneTurn
<1>2. Spec => []StopInv
  BY <1>1, StopInvHolds
<1>3. StopInv => (restarts = 0 => StopReachesAgent)
  <2> SUFFICES ASSUME StopInv, restarts = 0, NEW r \in Runs,
                      call[r].aborted, call[r].status = "stopped"
               PROVE  \/ child[r].killed \/ child[r].at \in {"exited", "closed"}
                      \/ r \in unheard /\ registry[SessionOf[r]] = r
    BY DEF StopReachesAgent
  <2>1. /\ r \in unheard \/ child[r].killed \/ Dead(r)
        /\ child[r].at # "none" /\ (child[r].at = "running" => r \in owned)
    BY DEF StopInv, Reached
  <2>2. child[r].at \in {"none", "running", "exited", "closed"}
    BY DEF StopInv, IInv, TypeOK, Child
  <2>3. child[r].at = "running" => registry[SessionOf[r]] = r
    BY <2>1 DEF StopInv, AgentsAreStoppable
  <2>4. QED
    BY <2>1, <2>2, <2>3 DEF Dead
<1>4. QED
  BY <1>2, <1>3, PTL

=============================================================================

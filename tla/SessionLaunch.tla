----------------------------- MODULE SessionLaunch -----------------------------
(***************************************************************************)
(* One turn of an agent, from the click to the exit code: the client's     *)
(* runHarness (lib/harness.ts) with its approval modal                     *)
(* (lib/settings-client.ts), and behind HTTP the runtime's launch route    *)
(* (server/routes/session-start.ts), approvals (lib/security/approvals.ts),*)
(* prompt artifacts and process registry (lib/process-lifecycle.ts).       *)
(*                                                                         *)
(* The runtime is one JavaScript thread too: a handler runs from one await *)
(* to the next, and requests may be answered in any order.                 *)
(***************************************************************************)
EXTENDS Naturals, FiniteSets

CONSTANTS
    Runs,         \* calls of runHarness
    Sessions,     \* session ids
    SessionOf,    \* the session each run belongs to
    Managed,      \* the runs that send a runRequest (the others send argv)
    Gated,        \* the managed runs with a bounded artifact workflow
    Asking,       \* the runs whose command the policy asks the user about
    NoRun,        \* no registry entry, or no terminal record
    Revocable,    \* bound: may the workspace lose its trust?
    MaxFaults,    \* bound: connections lost
    MaxRestarts   \* bound: restarts of the runtime

ASSUME RunsAssumption ==
    /\ SessionOf \in [Runs -> Sessions]
    /\ Managed \subseteq Runs /\ Gated \subseteq Managed /\ Asking \subseteq Runs
    /\ NoRun \notin Runs
ASSUME BoundsAssumption ==
    Revocable \in BOOLEAN /\ MaxFaults \in Nat /\ MaxRestarts \in Nat

VARIABLES
    call,       \* runHarness, per run: where it is suspended, its signal, ...
    post,       \* its latest POST /api/session/start
    stop,       \* the runs whose stop has a DELETE /api/session/start on its way
    approval,   \* the runtime's approval request and one-shot token, per run
    always,     \* an allow_always grant is in the approvals file
    trusted,    \* the workspace is a trusted root
    prompt,     \* the managed prompt artifact, per run
    child,      \* the agent process, per run
    registry,   \* registry: the run whose process a session has registered
    terminal,   \* terminalRegistry: the recorded exit of a session
    owned,      \* the runs whose close event this runtime process handles
    unheard,    \* the runs whose stop lost a DELETE or its answer
    faults,     \* connections lost so far
    restarts    \* restarts so far

policy == <<approval, always, trusted>>
table == <<registry, terminal>>
env == <<unheard, faults, restarts>>
vars == <<call, post, stop, policy, prompt, child, table, owned, env>>

-----------------------------------------------------------------------------
Awaiting == {"posting", "reposting"}          \* in startProcess
Over == {"ended", "withdrawn"}                \* runHarness returned or threw
Place == {"idle", "asking", "deciding", "reading", "stopping"} \cup Awaiting \cup Over
Choice == {"none", "deny", "allow_once", "allow_always"}
SessionStatus == {"ready", "starting", "running", "completed", "stopped", "error"}

Call == [at : Place, aborted : BOOLEAN, said : Choice, status : SessionStatus]
Post == {"none", "sent", "preparing", "ask", "refused", "stream", "lost"}
Approval == [request : {"none", "pending", "gone"}, token : {"none", "live", "gone"},
             denying : BOOLEAN]
Prompt == {"none", "ready", "retained", "removed"}
Code == {"none", "ok", "error", "timeout"}
Child == [at : {"none", "running", "exited", "closed"}, killed : BOOLEAN, code : Code]
Exit == [run : Runs \cup {NoRun}, by : Runs, handoff : BOOLEAN]

TypeOK ==
    /\ call \in [Runs -> Call]
    /\ post \in [Runs -> Post]
    /\ stop \subseteq Runs
    /\ approval \in [Runs -> Approval]
    /\ always \in BOOLEAN
    /\ trusted \in BOOLEAN
    /\ prompt \in [Runs -> Prompt]
    /\ child \in [Runs -> Child]
    /\ registry \in [Sessions -> Runs \cup {NoRun}]
    /\ terminal \in [Sessions -> Exit \cup {NoRun}]
    /\ owned \subseteq Runs
    /\ unheard \subseteq Runs
    /\ faults \in Nat
    /\ restarts \in Nat

Init ==
    /\ call = [r \in Runs |-> [at |-> "idle", aborted |-> FALSE, said |-> "none",
                               status |-> "ready"]]
    /\ post = [r \in Runs |-> "none"]
    /\ stop = {}
    /\ approval = [r \in Runs |-> [request |-> "none", token |-> "none", denying |-> FALSE]]
    /\ always = FALSE
    /\ trusted = TRUE
    /\ prompt = [r \in Runs |-> "none"]
    /\ child = [r \in Runs |-> [at |-> "none", killed |-> FALSE, code |-> "none"]]
    /\ registry = [s \in Sessions |-> NoRun]
    /\ terminal = [s \in Sessions |-> NoRun]
    /\ owned = {}
    /\ unheard = {}
    /\ faults = 0
    /\ restarts = 0

Goto(r, p) == call' = [call EXCEPT ![r].at = p]
Finish(r, p, s) == call' = [call EXCEPT ![r].at = p, ![r].status = s]
Say(r, m) == post' = [post EXCEPT ![r] = m]

-----------------------------------------------------------------------------
(* The process registry                                                    *)

Dead(r) == child[r].at \in {"exited", "closed"}

(* recordProcessExit: the exit of run r is filed under its session.        *)
ExitRecord(r, handoff) ==
    LET s == SessionOf[r]
    IN  [run |-> IF registry[s] # NoRun THEN registry[s]
                 ELSE IF terminal[s] # NoRun THEN terminal[s].run
                 ELSE NoRun,
         by |-> r, handoff |-> handoff]

(* pruneStaleProcesses: every entry whose process exited is filed, without *)
(* the handoff its close event would have brought.                         *)
(* Mutant: a killed process counts as gone before it exits.                *)
StaleOrKilled ==
    {s \in Sessions : registry[s] # NoRun
        /\ (Dead(registry[s]) \/ child[registry[s]].killed)}

Stale == {s \in Sessions : registry[s] # NoRun /\ Dead(registry[s])}
Pruned == [s \in Sessions |-> IF s \in Stale THEN NoRun ELSE registry[s]]
PrunedTerminal ==
    [s \in Sessions |-> IF s \in Stale THEN ExitRecord(registry[s], FALSE) ELSE terminal[s]]

(* getProcessStatus after the prune: running or stopping                   *)
Occupied(s) == Pruned[s] # NoRun

-----------------------------------------------------------------------------
(* The client                                                              *)

Start(r) ==
    /\ call[r].at = "idle"
    /\ Finish(r, "posting", "starting")
    /\ Say(r, "sent")
    /\ UNCHANGED <<stop, policy, prompt, child, table, owned, env>>

(* Mutant: only the first launch's refusal is looked at.                   *)
RefusedAtFirst(r) ==
    /\ call[r].at = "posting"
    /\ post[r] = "refused"
    /\ Finish(r, "ended", "error")
    /\ UNCHANGED <<post, stop, policy, prompt, child, table, owned, env>>

(* An answer that is not ok and asks for nothing                           *)
Refused(r) ==
    /\ call[r].at \in Awaiting
    /\ \/ post[r] = "refused"
       \/ post[r] = "ask" /\ call[r].at = "reposting"
    /\ Finish(r, "ended", "error")
    /\ UNCHANGED <<post, stop, policy, prompt, child, table, owned, env>>

(* requestUserApproval opens the modal.                                    *)
Asked(r) ==
    /\ call[r].at = "posting" /\ post[r] = "ask"
    /\ Finish(r, "asking", "ready")
    /\ UNCHANGED <<post, stop, policy, prompt, child, table, owned, env>>

(* completeUserApproval: the waiter is taken, the decision submitted.      *)
Decide(r, d) ==
    /\ call[r].at = "asking"
    /\ call' = [call EXCEPT ![r].at = "deciding", ![r].said = d]
    /\ UNCHANGED <<post, stop, policy, prompt, child, table, owned, env>>

(* decideApproval                                                          *)
Allowed(r) == call[r].said \in {"allow_once", "allow_always"}
(* Mutant: any decision issues a token.                                    *)
GrantedAnyway(r) == approval[r].request = "pending"

Granted(r) == approval[r].request = "pending" /\ Allowed(r)
Decided(r) ==
    /\ approval' = [approval EXCEPT
            ![r].request = IF @ = "pending" THEN "gone" ELSE @,
            ![r].token = IF Granted(r) THEN "live" ELSE @]
    /\ always' = (always \/ (Granted(r) /\ call[r].said = "allow_always"))

(* The decision's answer: on a grant the launch is posted again, with the  *)
(* token, unless the signal was aborted meanwhile (fetch then rejects).    *)
DecisionAnswered(r) ==
    /\ call[r].at = "deciding"
    /\ Decided(r)
    /\ \/ /\ ~Granted(r)
          /\ Finish(r, "ended", "ready")
          /\ UNCHANGED post
       \/ /\ Granted(r) /\ call[r].aborted
          /\ Finish(r, "ended", "starting")
          /\ UNCHANGED post
       \/ /\ Granted(r) /\ ~call[r].aborted
          /\ Finish(r, "reposting", "starting")
          /\ Say(r, "sent")
    /\ UNCHANGED <<stop, trusted, prompt, child, table, owned, env>>

(* The launch was answered with a stream.                                  *)
Attached(r) ==
    /\ call[r].at \in Awaiting /\ post[r] = "stream"
    /\ Finish(r, "reading", "running")
    /\ UNCHANGED <<post, stop, policy, prompt, child, table, owned, env>>

(* Mutant: the exit code itself becomes the status.                        *)
EndStatusIsCode(code) == code

EndStatus(code) ==
    CASE code = "ok" -> "completed" [] code = "timeout" -> "stopped" [] OTHER -> "error"

(* The exit line, the end of the stream, and the final status              *)
ReadEnd(r) ==
    /\ call[r].at = "reading" /\ post[r] = "stream"
    /\ child[r].at = "closed"
    /\ Finish(r, "ended", EndStatus(child[r].code))
    /\ UNCHANGED <<post, stop, policy, prompt, child, table, owned, env>>

(* The user stops the run: the signal fires, and stopRun sends a DELETE;   *)
(* runHarness sends its own when it reads the stream.                      *)
Abort(r) ==
    /\ call[r].at \in {"asking", "deciding", "reading"} \cup Awaiting
    /\ ~call[r].aborted
    /\ stop' = stop \cup {r}
    /\ \/ /\ call[r].at = "asking"
          /\ call' = [call EXCEPT ![r].aborted = TRUE, ![r].at = "withdrawn",
                                  ![r].status = "ready"]
          /\ approval' = [approval EXCEPT ![r].denying = TRUE]
       \/ /\ call[r].at \in Awaiting
          /\ \E s \in {call[r].status} \cup (IF post[r] \in {"ask", "refused"} THEN {"error"}
                                             ELSE {}) :
                call' = [call EXCEPT ![r].aborted = TRUE, ![r].at = "ended", ![r].status = s]
          /\ UNCHANGED approval
       \/ /\ call[r].at = "deciding"
          /\ call' = [call EXCEPT ![r].aborted = TRUE]
          /\ UNCHANGED approval
       \/ /\ call[r].at = "reading"
          /\ call' = [call EXCEPT ![r].aborted = TRUE, ![r].at = "stopping"]
          /\ UNCHANGED approval
    /\ UNCHANGED <<post, always, trusted, prompt, child, table, owned, env>>

(* The DELETE that runHarness awaits after an abort was answered.          *)
Stopped(r) ==
    /\ call[r].at = "stopping"
    /\ r \notin stop
    /\ Finish(r, "ended", "stopped")
    /\ UNCHANGED <<post, stop, policy, prompt, child, table, owned, env>>

(* A failed DELETE is swallowed: the stop never reaches the runtime, or    *)
(* runHarness goes on while the other request is still on its way.         *)
StopFails(r) ==
    /\ r \in stop
    /\ faults < MaxFaults
    /\ faults' = faults + 1
    /\ unheard' = unheard \cup {r}
    /\ \/ stop' = stop \ {r} /\ UNCHANGED call
       \/ call[r].at = "stopping" /\ Finish(r, "ended", "stopped") /\ UNCHANGED stop
    /\ UNCHANGED <<post, policy, prompt, child, table, owned, restarts>>

(* The connection of a request is lost.  While the launch is posted this   *)
(* throws out of runHarness; the stream's loss is its "Stream error".      *)
Lose(r) ==
    \/ call[r].at \in Awaiting /\ Goto(r, "ended")
    \/ call[r].at = "reading" /\ Finish(r, "ended", "error")
    \/ call[r].at = "deciding" /\ Finish(r, "ended", "ready")

(* Mutant: a detached stream finalizes the prompt artifact.                *)
ConnectionLostFinalizes(r) ==
    /\ faults < MaxFaults
    /\ faults' = faults + 1
    /\ Lose(r)
    /\ prompt' = [prompt EXCEPT ![r] = IF @ = "none" THEN @ ELSE "removed"]
    /\ UNCHANGED <<post, stop, policy, child, table, owned, unheard, restarts>>

ConnectionLost(r) ==
    /\ faults < MaxFaults
    /\ faults' = faults + 1
    /\ Lose(r)
    /\ post' \in {post, IF post[r] = "sent" THEN [post EXCEPT ![r] = "lost"] ELSE post}
    /\ \/ call[r].at = "deciding" /\ Decided(r)
       \/ UNCHANGED <<approval, always>>
    /\ UNCHANGED <<stop, trusted, prompt, child, table, owned, unheard, restarts>>

(* The runtime went away under a request.                                  *)
PeerGone(r) ==
    /\ call[r].at \in Awaiting \cup {"reading"}
    /\ post[r] = "lost"
    /\ Lose(r)
    /\ UNCHANGED <<post, stop, policy, prompt, child, table, owned, env>>

-----------------------------------------------------------------------------
(* The launch route                                                        *)

(* consumeOnceToken and evaluatePolicy                                     *)
(* A token only exists once the run's first launch was answered, so the    *)
(* launch that is judged while it lives is the one that carries it.        *)
Carried(r) == approval[r].token = "live"

(* Mutant: the decision counts, whatever became of its token.              *)
PermittedByDecision(r) == r \notin Asking \/ always \/ Allowed(r)

Permitted(r) == r \notin Asking \/ always \/ Carried(r)

(* The stream's start: spawn, and registerProcess once there is a pid.     *)
(* An executable that is missing only shows as an error and a close event. *)
Spawn(r, reg, term) ==
    /\ Say(r, "stream")
    /\ owned' = owned \cup {r}
    /\ \/ /\ child' = [child EXCEPT ![r].at = "running"]
          /\ registry' = [reg EXCEPT ![SessionOf[r]] = r]
          /\ terminal' = [term EXCEPT ![SessionOf[r]] = NoRun]
          /\ UNCHANGED prompt
       \/ /\ child' = [child EXCEPT ![r].at = "exited", ![r].code = "error"]
          /\ registry' = reg /\ terminal' = term
          /\ UNCHANGED prompt
       \/ /\ child' = [child EXCEPT ![r].at = "closed", ![r].code = "error"]
          /\ registry' = reg /\ terminal' = term
          /\ prompt' = [prompt EXCEPT ![r] = IF @ = "none" THEN @ ELSE "retained"]

(* From the once token to the spawn nothing is awaited.                    *)
Judge(r, reg, term) ==
    /\ \/ /\ ~trusted
          /\ Say(r, "refused")
          /\ prompt' = [prompt EXCEPT ![r] = IF @ = "none" THEN @ ELSE "removed"]
          /\ registry' = reg /\ terminal' = term
          /\ UNCHANGED <<child, owned>>
       \/ /\ trusted /\ ~Permitted(r)
          /\ Say(r, "ask")
          /\ registry' = reg /\ terminal' = term
          /\ UNCHANGED <<prompt, child, owned>>
       \/ /\ trusted /\ Permitted(r)
          /\ Spawn(r, reg, term)
    /\ approval' = [approval EXCEPT
            ![r].token = IF Carried(r) THEN "gone" ELSE @,
            ![r].request = IF trusted /\ ~Permitted(r) THEN "pending" ELSE @]

Filed == registry' = Pruned /\ terminal' = PrunedTerminal

(* handleSessionStartPost up to its first await                            *)
Received(r) ==
    /\ post[r] = "sent"
    /\ \/ /\ Occupied(SessionOf[r]) \/ ~trusted
          /\ Say(r, "refused")
          /\ Filed
          /\ UNCHANGED <<approval, prompt, child, owned>>
       \/ /\ ~Occupied(SessionOf[r]) /\ trusted /\ r \in Managed
          /\ Say(r, "preparing")
          /\ prompt' = [prompt EXCEPT ![r] = "ready"]
          /\ Filed
          /\ UNCHANGED <<approval, child, owned>>
       \/ /\ ~Occupied(SessionOf[r]) /\ trusted /\ r \notin Managed
          /\ Judge(r, Pruned, PrunedTerminal)
    /\ UNCHANGED <<call, stop, always, trusted, env>>

(* prepareGrokRun answered: the CLI probe failed, or the run is judged.    *)
Prepared(r) ==
    /\ post[r] = "preparing"
    /\ \/ /\ Say(r, "refused")
          /\ prompt' = [prompt EXCEPT ![r] = "removed"]
          /\ UNCHANGED <<approval, child, table, owned>>
       \/ Judge(r, registry, terminal)
    /\ UNCHANGED <<call, stop, always, trusted, env>>

(* Mutant: the stop reaches every registered process.                      *)
DeleteStopsAll(r) ==
    /\ r \in stop
    /\ stop' = stop \ {r}
    /\ Filed
    /\ child' = [q \in Runs |-> IF Pruned[SessionOf[q]] = q
                                THEN [child[q] EXCEPT !.killed = TRUE] ELSE child[q]]
    /\ UNCHANGED <<call, post, policy, prompt, owned, env>>

(* Mutant: the stop only cleans the table up.                              *)
DeleteOnlyPrunes(r) ==
    /\ r \in stop
    /\ stop' = stop \ {r}
    /\ Filed
    /\ UNCHANGED <<call, post, policy, prompt, child, owned, env>>

(* handleSessionStartDelete: prune, then stopSessionProcess.               *)
Delete(r) ==
    /\ r \in stop
    /\ stop' = stop \ {r}
    /\ Filed
    /\ child' = IF Occupied(SessionOf[r])
                THEN [child EXCEPT ![Pruned[SessionOf[r]]].killed = TRUE] ELSE child
    /\ UNCHANGED <<call, post, policy, prompt, owned, env>>

(* handleSessionStartGet, and the live processes route: both prune.        *)
Observe ==
    /\ Stale # {}
    /\ Filed
    /\ UNCHANGED <<call, post, stop, policy, prompt, child, owned, env>>

-----------------------------------------------------------------------------
(* The agent process                                                       *)

(* It exits by itself, or because it was killed.                           *)
ExitWith(r, code) ==
    /\ child[r].at = "running"
    /\ child' = [child EXCEPT ![r].at = IF r \in owned THEN "exited" ELSE "closed",
                              ![r].code = IF @ = "timeout" THEN @ ELSE code]
    /\ UNCHANGED <<call, post, stop, policy, prompt, table, owned, env>>

ExitsAlone(r) == ~child[r].killed /\ \E code \in {"ok", "error"} : ExitWith(r, code)
ExitsKilled(r) == child[r].killed /\ ExitWith(r, "error")

(* Mutant: the timeout is noted, and nothing is killed.                    *)
TimeoutOnlyMarks(r) ==
    /\ r \in owned
    /\ child[r].at = "running" /\ child[r].code # "timeout"
    /\ child' = [child EXCEPT ![r].code = "timeout"]
    /\ UNCHANGED <<call, post, stop, policy, prompt, table, owned, env>>

(* The run timeout kills the process tree.                                 *)
Timeout(r) ==
    /\ r \in owned
    /\ child[r].at = "running" /\ child[r].code # "timeout"
    /\ child' = [child EXCEPT ![r].killed = TRUE, ![r].code = "timeout"]
    /\ UNCHANGED <<call, post, stop, policy, prompt, table, owned, env>>

(* Mutant: the exit is filed, and the entry stays.                         *)
ClosesAndStays(r) ==
    /\ child[r].at = "exited" /\ r \in owned
    /\ child' = [child EXCEPT ![r].at = "closed"]
    /\ terminal' = [terminal EXCEPT ![SessionOf[r]] = ExitRecord(r, r \in Gated)]
    /\ prompt' = [prompt EXCEPT ![r] = IF @ = "none" THEN @ ELSE "retained"]
    /\ UNCHANGED <<call, post, stop, policy, registry, owned, env>>

(* onClose: the process and its pipes are gone.  The handoff gate of a     *)
(* bounded workflow may reject what a successful agent left behind.        *)
Closes(r) ==
    LET s == SessionOf[r]
        kept == IF child[r].code # "ok" THEN {"retained"}
                ELSE IF r \in Gated THEN {"retained", "removed"} ELSE {"removed"}
    IN  /\ child[r].at = "exited" /\ r \in owned
        /\ child' = [child EXCEPT ![r].at = "closed"]
        /\ terminal' = [terminal EXCEPT ![s] = ExitRecord(r, r \in Gated)]
        /\ registry' = [registry EXCEPT ![s] = NoRun]
        /\ \E k \in kept : prompt' = [prompt EXCEPT ![r] = IF @ = "none" THEN @ ELSE k]
        /\ UNCHANGED <<call, post, stop, policy, owned, env>>

-----------------------------------------------------------------------------
(* The runtime's approvals, trust, and restarts                            *)

(* The deny a withdrawn run sends behind itself                            *)
LateDeny(r) ==
    /\ approval[r].denying
    /\ approval' = [approval EXCEPT ![r].denying = FALSE,
                                    ![r].request = IF @ = "pending" THEN "gone" ELSE @]
    /\ UNCHANGED <<call, post, stop, always, trusted, prompt, child, table, owned, env>>

(* Ten minutes for a pending request, two for a token                      *)
Expires(r) ==
    /\ \/ /\ approval[r].request = "pending"
          /\ approval' = [approval EXCEPT ![r].request = "gone"]
       \/ /\ approval[r].token = "live"
          /\ approval' = [approval EXCEPT ![r].token = "gone"]
    /\ UNCHANGED <<call, post, stop, always, trusted, prompt, child, table, owned, env>>

RevokeGrant ==
    /\ always
    /\ always' = FALSE
    /\ UNCHANGED <<call, post, stop, approval, trusted, prompt, child, table, owned, env>>

RevokeTrust ==
    /\ Revocable /\ trusted
    /\ trusted' = FALSE
    /\ UNCHANGED <<call, post, stop, approval, always, prompt, child, table, owned, env>>

(* shutdown (stopAllProcesses kills what is registered) or a crash, and a  *)
(* new runtime with empty maps.                                            *)
Restart ==
    /\ restarts < MaxRestarts
    /\ restarts' = restarts + 1
    /\ \E graceful \in BOOLEAN :
          child' = [r \in Runs |->
                      IF child[r].at = "exited" THEN [child[r] EXCEPT !.at = "closed"]
                      ELSE IF graceful /\ registry[SessionOf[r]] = r
                           THEN [child[r] EXCEPT !.killed = TRUE]
                      ELSE child[r]]
    /\ post' = [r \in Runs |-> IF post[r] = "none" THEN post[r] ELSE "lost"]
    /\ stop' = {}
    /\ approval' = [r \in Runs |-> [approval[r] EXCEPT
                        !.request = IF @ = "none" THEN @ ELSE "gone",
                        !.token = IF @ = "none" THEN @ ELSE "gone",
                        !.denying = FALSE]]
    /\ registry' = [s \in Sessions |-> NoRun]
    /\ terminal' = [s \in Sessions |-> NoRun]
    /\ owned' = {}
    /\ UNCHANGED <<call, always, trusted, prompt, unheard, faults>>

-----------------------------------------------------------------------------
CallStep(r) ==
    Refused(r) \/ Asked(r) \/ DecisionAnswered(r) \/ Attached(r) \/ ReadEnd(r)
        \/ Stopped(r) \/ PeerGone(r)
RouteStep(r) == Received(r) \/ Prepared(r)

Next ==
    \/ \E r \in Runs :
        \/ Start(r) \/ Abort(r) \/ ConnectionLost(r) \/ StopFails(r)
        \/ \E d \in Choice \ {"none"} : Decide(r, d)
        \/ CallStep(r) \/ RouteStep(r)
        \/ ExitsAlone(r) \/ ExitsKilled(r) \/ Timeout(r) \/ Closes(r)
        \/ LateDeny(r) \/ Expires(r) \/ Delete(r)
    \/ Observe \/ RevokeGrant \/ RevokeTrust \/ Restart

Spec == Init /\ [][Next]_vars

(* Handlers, answers, close events and the two-hour run timeout happen;    *)
(* the user, the agent's own exit, faults and restarts need not.           *)
FairSpec ==
    /\ Spec
    /\ \A r \in Runs :
        /\ WF_vars(CallStep(r)) /\ WF_vars(RouteStep(r))
        /\ WF_vars(ExitsKilled(r)) /\ WF_vars(Timeout(r)) /\ WF_vars(Closes(r))
        /\ WF_vars(Delete(r))

-----------------------------------------------------------------------------
(* Properties                                                              *)

(* A run the user refused, or cancelled while it waited for approval, never*)
(* gets a process: whatever answers, retries, restarts or late decisions   *)
(* are still on their way (RELEASE_CHECKLIST.md, "cannot later launch").   *)
RefusedNeverLaunches ==
    \A r \in Runs :
        call[r].at = "withdrawn" \/ call[r].said = "deny" => child[r].at = "none"

(* A process whose command the policy asks about is only ever started on a *)
(* decision that was not used before: the user's own for this run, or a    *)
(* standing grant that has not been revoked (consumeOnceToken).            *)
Consent == [][\A r \in Asking :
    child[r].at = "none" /\ child'[r].at # "none"
        => \/ always
           \/ /\ Allowed(r)
              /\ approval[r].token = "live" /\ approval'[r].token = "gone"]_vars

(* The registry names no process that is gone for good, so a session whose *)
(* agent ended can be launched again (registerProcess, recordProcessExit). *)
RegistryIsCurrent ==
    \A s \in Sessions :
        registry[s] # NoRun =>
            /\ SessionOf[registry[s]] = s
            /\ child[registry[s]].at \in {"running", "exited"}
            /\ registry[s] \in owned

(* The prompt file is there for as long as the agent that reads it runs,   *)
(* however the client came and went (finalizePrompt, cancel()).            *)
PromptOutlivesAgent ==
    \A r \in Managed : child[r].at \in {"running", "exited"} => prompt[r] = "ready"

(* An agent is stopped for its own user's sake only: no process is killed  *)
(* in a session nobody stopped, and whose run did not exceed its time.     *)
StopIsScoped == [][\A r \in Runs :
    ~child[r].killed /\ child'[r].killed
        => \/ \E q \in stop : SessionOf[q] = SessionOf[r]
           \/ child'[r].code = "timeout" \/ restarts' # restarts]_vars

(* While a session has one turn at a time, each agent the runtime started  *)
(* is the one its session's stop would reach (registerProcess).            *)
AgentsAreStoppable ==
    \A r \in owned : child[r].at = "running" => registry[SessionOf[r]] = r

(* A call that was aborted while it read its stream returns when its own   *)
(* agent was killed or is gone, and not before: neither the stop's answer  *)
(* nor the pruning that precedes it misses the process.  Only a DELETE that *)
(* was lost leaves the agent behind a call that says stopped, and then the *)
(* session still names it, so that the next stop reaches it.               *)
StopReachesAgent ==
    \A r \in Runs : call[r].aborted /\ call[r].status = "stopped"
        => \/ child[r].killed \/ child[r].at \in {"exited", "closed"}
           \/ r \in unheard /\ registry[SessionOf[r]] = r

(* Every call of runHarness ends, unless it waits for the user.            *)
CallsEnd == \A r \in Runs :
    call[r].at # "idle" ~> call[r].at \in Over \cup {"asking"}

(* A registered session becomes free again.                                *)
SessionIsReleased == \A s \in Sessions :
    registry[s] # NoRun ~> registry[s] = NoRun

-----------------------------------------------------------------------------
(* The inductive invariant behind the safety properties: what a run's      *)
(* client may believe (call), against what the runtime did for it.         *)

(* No process before the launch is judged, and none while the user is      *)
(* asked: only "sent" and "preparing" launches are ever judged.            *)
Unlaunched(r) ==
    /\ post[r] \in {"none", "sent", "preparing", "ask", "refused"} => child[r].at = "none"
    /\ call[r].at = "idle" => post[r] = "none"
    /\ call[r].at \in {"asking", "deciding", "withdrawn"} =>
            post[r] \in {"ask", "lost"} /\ child[r].at = "none"

(* A denial is never taken back.                                           *)
Denied(r) == call[r].said = "deny" =>
    /\ call[r].at \in {"deciding", "ended"}
    /\ post[r] \in {"ask", "lost"}
    /\ child[r].at = "none"

(* The prompt is written before the launch is judged, and kept.            *)
PromptKept(r) ==
    /\ post[r] = "preparing" => r \in Managed /\ prompt[r] = "ready"
    /\ r \in Managed /\ child[r].at \in {"running", "exited"} => prompt[r] = "ready"

IInv ==
    /\ TypeOK
    /\ \A r \in Runs : Unlaunched(r) /\ Denied(r) /\ PromptKept(r)
    /\ RegistryIsCurrent

-----------------------------------------------------------------------------
(* Two more invariants, over IInv, for the properties of consent and stop. *)

(* The user speaks once, and a token that can still be used is a grant of  *)
(* the run it was issued to.                                               *)
SaidOnce(r) ==
    /\ call[r].at \in {"idle", "posting", "asking", "withdrawn"} => call[r].said = "none"
    /\ approval[r].token = "live" => Allowed(r)

ConsentInv == IInv /\ \A r \in Runs : SaidOnce(r)

(* What the client shows of a run is how far its launch has come.          *)
Shown(r) ==
    /\ call[r].at \in {"idle", "asking", "deciding"} => call[r].status = "ready"
    /\ call[r].at \in Awaiting => call[r].status = "starting"
    /\ call[r].at \in {"reading", "stopping"} =>
            call[r].status = "running" /\ child[r].at # "none"
    /\ post[r] = "stream" => child[r].at # "none"

(* As long as the runtime lives, a running agent is its own, and a stop is *)
(* on its way, was lost, killed the agent, or came after it was gone.      *)
Reached(r) ==
    /\ child[r].at = "running" => r \in owned
    /\ call[r].at = "stopping" =>
            r \in stop \cup unheard \/ child[r].killed \/ Dead(r)
    /\ call[r].aborted /\ call[r].status = "stopped" =>
            r \in unheard \/ child[r].killed \/ Dead(r)
    /\ call[r].aborted /\ call[r].status = "stopped" => child[r].at # "none"

StopInv ==
    /\ IInv
    /\ AgentsAreStoppable
    /\ \A r \in Runs : Shown(r) /\ (restarts = 0 => Reached(r))

=============================================================================

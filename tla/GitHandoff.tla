----------------------------- MODULE GitHandoff -----------------------------
(* The Git panel of a session, the route that executes its actions, the poll *)
(* that watches the repository while a run is live, and the completion flow  *)
(* that proposes the next step of a handoff.                                 *)
(*   src/lib/git/{client,operations,risk,status,porcelain}.ts                *)
(*   src/components/git/{git-panel,completion-panel}.tsx                     *)
(*   src/lib/handoff-flow.ts, src/lib/handoff-record.ts                      *)
(*   src/server/routes/session-git.ts, src/hooks/use-git-watch.ts            *)
(* A file is the triple of its contents in HEAD, in the index and in the     *)
(* working tree; 0 is "no such file".  A status is what `git status` and     *)
(* `rev-list` report of it.  The panel serialises its own actions with a     *)
(* busy flag, but not with the poll, the agent or a terminal.                *)
EXTENDS Naturals, FiniteSets

CONSTANTS
  Paths,        \* files of the repository
  Contents,     \* 0..n, the contents a file can have; 0 is absent
  MaxEdits,     \* edits made outside the panel
  MaxFaults,    \* git commands that fail, answers that are lost
  MaxActions    \* panel actions

VARIABLES
  repo,    \* the repository on disk
  panel,   \* what the session in the store shows: summary, files, handoff record
  call,    \* the panel's action under way (busy), from dialog to refreshed panel
  watch,   \* the poll of use-git-watch: its last key and its sync
  sess,    \* the facts of the session the flow reads, and the permission mode
  left     \* edits, faults and actions still allowed by the bounds

vars == <<repo, panel, call, watch, sess, left>>

NoStatus == [branch |-> "", upstream |-> FALSE, ahead |-> 0, behind |-> 0,
             files |-> [p \in Paths |-> {}], head |-> 0]
Idle == [at |-> "idle", action |-> "none", paths |-> {}, amend |-> FALSE,
         ok |-> FALSE, seen |-> NoStatus]

Confirmed == {"commit", "push", "pull", "discard", "pr_create"}
Direct == {"stage", "unstage", "branch_create"}
Recorded == {"commit", "push", "pr_create"}

(* porcelain.ts: the areas of an entry. *)
Areas(f) ==
  (IF f.index # f.head THEN {"staged"} ELSE {}) \cup
  (IF f.index # 0 /\ f.work # f.index THEN {"unstaged"} ELSE {}) \cup
  (IF f.index = 0 /\ f.work # 0 THEN {"untracked"} ELSE {})

(* collectGitStatus: without an upstream nothing is counted ahead or behind. *)
StatusOf(r) ==
  [branch |-> r.branch, upstream |-> r.upstream,
   ahead |-> IF r.upstream THEN r.unpushed ELSE 0,
   behind |-> IF r.upstream THEN r.behind ELSE 0,
   files |-> [p \in Paths |-> Areas(r.tree[p])], head |-> r.head]

WatchKey(st) == [branch |-> st.branch, head |-> st.head, files |-> st.files]

Count(st, area) == Cardinality({p \in Paths : area \in st.files[p]})
Dirty(st) == Count(st, "staged") + Count(st, "unstaged") + Count(st, "untracked")

-----------------------------------------------------------------------------
(* buildHandoffFlow: the first case that applies is the proposed step. *)
PrReady(st) ==
  Dirty(st) = 0 /\ st.upstream /\ st.ahead = 0 /\ st.branch # "main"

NextStep(s, st) ==
  IF s.state # "quiet" THEN IF s.state = "live" THEN "wait" ELSE "review"
  ELSE CASE Count(st, "staged") > 0 -> "commit"
         [] Count(st, "staged") = 0 /\ Dirty(st) > 0 -> "stage"
         [] Dirty(st) = 0 /\ st.behind > 0 -> "pull"
         [] Dirty(st) = 0 /\ st.behind = 0 /\ st.ahead > 0 -> "push"
         [] PrReady(st) /\ st.behind = 0 -> "create_pr"
         [] OTHER -> "none"

(* A careless merge: the state and the evidence of a refused step. *)
AdvanceRegardless(o, action, ok, oid) ==
  CASE action = "commit" -> [o EXCEPT !.state = "committed", !.commit = oid]
    [] action = "push" -> [o EXCEPT !.state = "published", !.push = TRUE]
    [] OTHER -> [o EXCEPT !.state = "pull_request", !.pr = TRUE]

(* advanceHandoffOutcome: the evidence of earlier steps is kept, a failure *)
(* only changes the state.                                                 *)
Advance(o, action, ok, oid) ==
  IF ~ok THEN [o EXCEPT !.state = "failed"]
  ELSE CASE action = "commit" -> [o EXCEPT !.state = "committed", !.commit = oid]
         [] action = "push" -> [o EXCEPT !.state = "published", !.push = TRUE]
         [] OTHER -> [o EXCEPT !.state = "pull_request", !.pr = TRUE]

-----------------------------------------------------------------------------
(* executeGitAction, one operator per action: the repository after it. *)
Stage(r, ps) ==
  [r EXCEPT !.tree = [p \in Paths |->
     IF ps = {} \/ p \in ps THEN [r.tree[p] EXCEPT !.index = r.tree[p].work]
                            ELSE r.tree[p]]]
Unstage(r, ps) ==
  [r EXCEPT !.tree = [p \in Paths |->
     IF ps = {} \/ p \in ps THEN [r.tree[p] EXCEPT !.index = r.tree[p].head]
                            ELSE r.tree[p]]]

(* discard, path by path: an untracked file is cleaned, another restored     *)
(* from HEAD in the working tree only.  The paths in `fell` are those whose  *)
(* `git restore` failed and that `git checkout HEAD` brought back instead.   *)
Discard(r, done, fell) ==
  [r EXCEPT !.tree = [p \in Paths |->
     IF p \notin done THEN r.tree[p]
     ELSE IF Areas(r.tree[p]) = {"untracked"} THEN [r.tree[p] EXCEPT !.work = 0]
     ELSE [r.tree[p] EXCEPT !.work = r.tree[p].head,
                            !.index = IF p \in fell THEN r.tree[p].head ELSE @]]]

Commit(r, amend) ==
  [r EXCEPT !.tree = [p \in Paths |-> [r.tree[p] EXCEPT !.head = r.tree[p].index]],
            !.head = @ + 1, !.made = @ \cup {r.head + 1},
            !.unpushed = IF amend /\ @ > 0 THEN @ ELSE @ + 1,
            !.behind = IF amend /\ r.unpushed = 0 /\ r.upstream THEN @ + 1 ELSE @]

Push(r) == [r EXCEPT !.unpushed = 0, !.upstream = TRUE, !.pushed = TRUE]
Pull(r) == [r EXCEPT !.behind = 0, !.head = @ + r.behind]
BranchCreate(r) == [r EXCEPT !.branch = "feature", !.upstream = FALSE, !.behind = 0]

(* What git itself accepts, and the checks of the executor before it. *)
Accepts(r, c) ==
  CASE c.action = "commit" -> c.amend \/ Count(StatusOf(r), "staged") > 0
    [] c.action = "push" -> r.behind = 0
    [] c.action = "pull" -> r.upstream /\ r.unpushed = 0
    [] c.action = "pr_create" -> r.upstream
    [] c.action = "branch_create" -> r.branch = "main"
    [] OTHER -> TRUE

Done(r, c) ==
  CASE c.action = "stage" -> Stage(r, c.paths)
    [] c.action = "unstage" -> Unstage(r, c.paths)
    [] c.action = "commit" -> Commit(r, c.amend)
    [] c.action = "push" -> Push(r)
    [] c.action = "pull" -> Pull(r)
    [] c.action = "pr_create" -> [r EXCEPT !.pr = TRUE]
    [] OTHER -> BranchCreate(r)

-----------------------------------------------------------------------------
Init ==
  /\ repo = [tree |-> [p \in Paths |-> [head |-> 1, index |-> 1, work |-> 1]],
             branch |-> "main", upstream |-> TRUE, unpushed |-> 0, behind |-> 0,
             head |-> 0, made |-> {}, pushed |-> FALSE, pr |-> FALSE]
  /\ panel = [st |-> NoStatus,
              outcome |-> [state |-> "none", commit |-> 0, push |-> FALSE, pr |-> FALSE]]
  /\ call = Idle
  /\ watch = [on |-> TRUE, last |-> WatchKey(NoStatus), at |-> "idle", seen |-> NoStatus]
  /\ sess \in [state : {"live"}, plan : {FALSE}, guarded : BOOLEAN]
  /\ left = [edits |-> MaxEdits, faults |-> MaxFaults, acts |-> MaxActions]

-----------------------------------------------------------------------------
(* The surroundings: the agent or an editor writes a file, a fetch in a      *)
(* terminal finds the upstream ahead.                                        *)
Edit(p) ==
  /\ left.edits > 0
  /\ \E c \in Contents \ {repo.tree[p].work} :
       repo' = [repo EXCEPT !.tree[p].work = c]
  /\ left' = [left EXCEPT !.edits = @ - 1]
  /\ UNCHANGED <<panel, call, watch, sess>>

UpstreamMoves ==
  /\ left.edits > 0 /\ repo.upstream /\ repo.behind = 0
  /\ repo' = [repo EXCEPT !.behind = 1]
  /\ left' = [left EXCEPT !.edits = @ - 1]
  /\ UNCHANGED <<panel, call, watch, sess>>

(* The run ends and its poll is torn down; a tick that already fetched its  *)
(* status still finishes its sync.                                          *)
RunEnds ==
  /\ sess.state = "live"
  /\ \E s \in {"quiet", "findings", "diagnostic"} : sess' = [sess EXCEPT !.state = s]
  /\ watch' = [watch EXCEPT !.on = FALSE]
  /\ UNCHANGED <<repo, panel, call, left>>

FindingsResolved ==
  /\ sess.state \in {"findings", "diagnostic"}
  /\ sess' = [sess EXCEPT !.state = "quiet"]
  /\ UNCHANGED <<repo, panel, call, watch, left>>

SetPlan ==
  /\ left.edits > 0
  /\ sess' = [sess EXCEPT !.plan = ~@]
  /\ left' = [left EXCEPT !.edits = @ - 1]
  /\ UNCHANGED <<repo, panel, call, watch>>

-----------------------------------------------------------------------------
(* useGitWatch's tick: fingerprint, remember it, and only then sync.  What is *)
(* ahead of the upstream or behind it is no part of the fingerprint.         *)
WatchTick ==
  /\ watch.on /\ watch.at = "idle"
  /\ WatchKey(StatusOf(repo)) # watch.last
  /\ watch' = [watch EXCEPT !.last = WatchKey(StatusOf(repo)), !.at = "fetch"]
  /\ UNCHANGED <<repo, panel, call, sess, left>>

(* syncDiffsFromGit without a status: fetchGitStatus stores the summary and  *)
(* the diff is awaited before the files are replaced.                        *)
WatchStatus ==
  /\ watch.at = "fetch"
  /\ watch' = [watch EXCEPT !.at = "diff", !.seen = StatusOf(repo)]
  /\ panel' = [panel EXCEPT !.st = StatusOf(repo)]
  /\ UNCHANGED <<repo, call, sess, left>>

WatchApplies ==
  /\ watch.at = "diff"
  /\ watch' = [watch EXCEPT !.at = "idle", !.seen = NoStatus]
  /\ panel' = [panel EXCEPT !.st = watch.seen]
  /\ UNCHANGED <<repo, call, sess, left>>

(* A poll that fails is ignored, and its fingerprint is remembered.          *)
WatchLost ==
  /\ watch.at # "idle" /\ left.faults > 0
  /\ watch' = [watch EXCEPT !.at = "idle", !.seen = NoStatus]
  /\ left' = [left EXCEPT !.faults = @ - 1]
  /\ UNCHANGED <<repo, panel, call, sess>>

-----------------------------------------------------------------------------
(* The panel.  A confirmed action first opens the dialog, which keeps the    *)
(* paths and the amend flag of that moment.                                  *)
MayAct(a, amend) ==
  /\ call.at = "idle" /\ ~sess.plan /\ left.acts > 0
  /\ a = "commit" /\ ~amend => Count(panel.st, "staged") > 0
  /\ a = "branch_create" => panel.st.branch = "main"
  /\ amend => a = "commit"

Ask(a, ps, amend) ==
  /\ a \in Confirmed /\ MayAct(a, amend)
  /\ a = "discard" => ps # {}
  /\ a # "discard" => ps = {}
  /\ call' = [Idle EXCEPT !.at = "dialog", !.action = a, !.paths = ps, !.amend = amend]
  /\ left' = [left EXCEPT !.acts = @ - 1]
  /\ UNCHANGED <<repo, panel, watch, sess>>

Dismiss ==
  /\ call.at = "dialog"
  /\ call' = Idle
  /\ UNCHANGED <<repo, panel, watch, sess, left>>

Accept ==
  /\ call.at = "dialog"
  /\ call' = [call EXCEPT !.at = "sent"]
  /\ UNCHANGED <<repo, panel, watch, sess, left>>

Act(a, ps) ==
  /\ a \in Direct /\ MayAct(a, FALSE)
  /\ a = "branch_create" => ps = {}
  /\ call' = [Idle EXCEPT !.at = "sent", !.action = a, !.paths = ps]
  /\ left' = [left EXCEPT !.acts = @ - 1]
  /\ UNCHANGED <<repo, panel, watch, sess>>

(* onHandoffAction: the button of the completion panel. *)
FollowFlow ==
  /\ call.at = "idle" /\ ~sess.plan
  /\ \/ /\ NextStep(sess, panel.st) = "stage"
        /\ call' = [Idle EXCEPT !.at = "sent", !.action = "stage"]
     \/ /\ NextStep(sess, panel.st) \in {"commit", "push", "pull"}
        /\ call' = [Idle EXCEPT !.at = "sent", !.action = NextStep(sess, panel.st)]
  /\ UNCHANGED <<repo, panel, watch, sess, left>>

(* handleGitPost and executeGitAction: plan mode and the isolation guard     *)
(* refuse a write, git may refuse or fail; whatever happens the status is    *)
(* read after the command, in a step of its own.                             *)
Execute ==
  /\ call.at = "sent"
  /\ call.action = "discard" => sess.plan \/ sess.guarded
  /\ \/ /\ sess.plan \/ sess.guarded
        /\ call' = [call EXCEPT !.at = "refused"] /\ UNCHANGED <<repo, left>>
     \/ /\ ~sess.plan /\ ~sess.guarded /\ ~Accepts(repo, call)
        /\ call' = [call EXCEPT !.at = "ran"] /\ UNCHANGED <<repo, left>>
     \/ /\ ~sess.plan /\ ~sess.guarded /\ Accepts(repo, call) /\ left.faults > 0
        /\ call' = [call EXCEPT !.at = "ran"]
        /\ left' = [left EXCEPT !.faults = @ - 1] /\ UNCHANGED repo
     \/ /\ ~sess.plan /\ ~sess.guarded /\ Accepts(repo, call)
        /\ repo' = Done(repo, call)
        /\ call' = [call EXCEPT !.at = "ran", !.ok = TRUE] /\ UNCHANGED left
  /\ UNCHANGED <<panel, watch, sess>>

(* A discard stops at the first path that is nowhere to be found, or where   *)
(* both commands fail; what it discarded before stays discarded.             *)
ExecuteDiscard ==
  /\ call.at = "sent" /\ call.action = "discard" /\ ~sess.plan /\ ~sess.guarded
  /\ LET there == {p \in call.paths : \E at \in {"head", "index", "work"} : repo.tree[p][at] # 0}
     IN \E done \in SUBSET there, fell \in SUBSET {p \in there : repo.tree[p].head # 0} :
          LET fault == fell # {} \/ (there = call.paths /\ done # there)
          IN /\ fell \subseteq done /\ (fault => left.faults > 0)
             /\ repo' = Discard(repo, done, fell)
             /\ call' = [call EXCEPT !.at = "ran", !.ok = (done = call.paths)]
             /\ left' = [left EXCEPT !.faults = IF fault THEN @ - 1 ELSE @]
  /\ UNCHANGED <<panel, watch, sess>>

(* gitAction's answer: a status in it is the new summary at once; then the   *)
(* diff is awaited.  pr_create answers without a status.                     *)
Answer ==
  /\ call.at = "ran"
  /\ call' = [call EXCEPT !.at = "diff", !.seen = StatusOf(repo)]
  /\ panel' = [panel EXCEPT !.st = StatusOf(repo)]
  /\ UNCHANGED <<repo, watch, sess, left>>

(* The answer never arrives: the error is shown, nothing is recorded.        *)
AnswerLost ==
  /\ call.at = "ran" /\ left.faults > 0
  /\ call' = [call EXCEPT !.at = "meta"]
  /\ left' = [left EXCEPT !.faults = @ - 1]
  /\ UNCHANGED <<repo, panel, watch, sess>>

(* The rest of syncDiffsFromGit, then recordHandoffResult.                   *)
Applied ==
  /\ call.at = "diff"
  /\ call' = [call EXCEPT !.at = "meta"]
  /\ panel' = [panel EXCEPT !.st = call.seen,
       !.outcome = IF call.action \in Recorded
                   THEN Advance(@, call.action, call.ok, call.seen.head) ELSE @]
  /\ UNCHANGED <<repo, watch, sess, left>>

Refused ==
  /\ call.at = "refused"
  /\ call' = [call EXCEPT !.at = "meta"]
  /\ panel' = [panel EXCEPT
       !.outcome = IF call.action \in Recorded
                   THEN Advance(@, call.action, FALSE, 0) ELSE @]
  /\ UNCHANGED <<repo, watch, sess, left>>

(* refreshMeta: the branch list triggers one more sync before busy clears.   *)
MetaStatus ==
  /\ call.at = "meta"
  /\ call' = [call EXCEPT !.at = "metadiff", !.seen = StatusOf(repo)]
  /\ panel' = [panel EXCEPT !.st = StatusOf(repo)]
  /\ UNCHANGED <<repo, watch, sess, left>>

MetaApplied ==
  /\ call.at = "metadiff"
  /\ call' = Idle
  /\ panel' = [panel EXCEPT !.st = call.seen]
  /\ UNCHANGED <<repo, watch, sess, left>>

Refresh ==
  /\ call.at = "idle" /\ left.acts > 0
  /\ call' = [Idle EXCEPT !.at = "meta"]
  /\ left' = [left EXCEPT !.acts = @ - 1]
  /\ UNCHANGED <<repo, panel, watch, sess>>

-----------------------------------------------------------------------------
World == (\E p \in Paths : Edit(p)) \/ UpstreamMoves \/ RunEnds \/ FindingsResolved \/ SetPlan
Watch == WatchTick \/ WatchStatus \/ WatchApplies
Panel == FollowFlow \/ Accept \/ Execute \/ ExecuteDiscard \/ Answer \/ Applied \/ Refused
           \/ MetaStatus \/ MetaApplied
Buttons == \/ \E a \in Confirmed, ps \in SUBSET Paths, amend \in BOOLEAN : Ask(a, ps, amend)
           \/ \E a \in Direct, ps \in SUBSET Paths : Act(a, ps)
           \/ Dismiss \/ AnswerLost \/ WatchLost \/ Refresh

Next == World \/ Watch \/ Panel \/ Buttons

(* A request that was sent is served and its answer applied; the poll runs;  *)
(* a user who is handing off presses the proposed button.                    *)
Fairness == WF_vars(Panel) /\ WF_vars(Watch)
Spec == Init /\ [][Next]_vars /\ Fairness

-----------------------------------------------------------------------------
Statuses ==
  [branch : {"", "main", "feature"}, upstream : BOOLEAN, ahead : Nat, behind : Nat,
   files : [Paths -> SUBSET {"staged", "unstaged", "untracked"}], head : Nat]
Keys ==
  [branch : {"", "main", "feature"}, head : Nat,
   files : [Paths -> SUBSET {"staged", "unstaged", "untracked"}]]

TypeOK ==
  /\ repo.tree \in [Paths -> [head : Contents, index : Contents, work : Contents]]
  /\ panel.st \in Statuses /\ watch.last \in Keys /\ watch.seen \in Statuses
  /\ call.at \in {"idle", "dialog", "sent", "ran", "refused", "diff", "meta", "metadiff"}
  /\ sess.state \in {"live", "quiet", "findings", "diagnostic"}

(* The durable handoff record never claims what did not happen: a commit it  *)
(* names was made, a publication and a pull request it shows took place,     *)
(* through lost answers, refusals and outside changes                        *)
(* (handoff-record.ts:155-220, git-panel.tsx:207-233).                       *)
RecordIsEvidence ==
  /\ panel.outcome.state = "committed" => panel.outcome.commit \in repo.made
  /\ panel.outcome.commit # 0 => panel.outcome.commit \in repo.made
  /\ panel.outcome.push => repo.pushed
  /\ panel.outcome.pr => repo.pr

(* What the dialog promises: "Staged index entries are left alone"           *)
(* (git-panel.tsx:301).  The code does not keep it (README, section 7): when *)
(* git restore fails, a checkout resets the index as well.                   *)
DiscardKeepsIndex ==
  [][call.action = "discard" /\ call.at = "sent" =>
       \A p \in Paths : /\ repo'.tree[p].index = repo.tree[p].index
                        /\ repo'.tree[p].head = repo.tree[p].head]_vars

(* A user who keeps pressing the proposed button gets to the end: the flow   *)
(* cannot ask for the same steps for ever, even from a stale panel, unless   *)
(* the branch has diverged, where a fast-forward pull is refused every time, *)
(* or writes are refused altogether (handoff-flow.ts:148-237).               *)
Diverged == repo.behind > 0 /\ repo.unpushed > 0
FlowEnds ==
  <>[](sess.plan \/ sess.guarded \/ Diverged \/
       NextStep(sess, panel.st) \in {"wait", "review", "create_pr", "none"})

(* "Publish the branch and establish its upstream" (handoff-flow.ts:221): a  *)
(* clean branch with commits nobody else has is offered for pushing.         *)
CommitsAreOffered ==
  sess.state = "quiet" /\ panel.st = StatusOf(repo) /\ Dirty(panel.st) = 0
    /\ repo.unpushed > 0 /\ repo.behind = 0
      => NextStep(sess, panel.st) = "push"
=============================================================================

------------------------------ MODULE MCScreens ------------------------------
(* Components behind the screens of a workspace that share no state: the   *)
(* panel of the durable missions (ControlRoom, under its own names), the   *)
(* teams of the enterprise screen, the opening of a workspace.  Each is    *)
(* explored by itself, from one choice in ScreensInit.                     *)
EXTENDS ControlRoom

(* A plan with a work item x that a milestone s waits for, and one outside *)
(* of it: both completed with evidence, by an exit only, and a wait        *)
(* satisfied without evidence.  The host refuses the last two.             *)
Finished ==
  [st |-> "completed", out |-> "completed", ev |-> TRUE, exit |-> TRUE,
   cap |-> "edit", caps |-> {}, own |-> FALSE, stone |-> "s", owner |-> "spok"]
Goal == [st |-> "pending", out |-> "none", ev |-> FALSE, deps |-> {"x"}, items |-> {}]
Doc(item, evidence) ==
  [st |-> "active", source |-> "user", own |-> FALSE, caps |-> {},
   item |-> [i \in {"x", "y"} |-> IF i = "x" THEN item ELSE [item EXCEPT !.stone = "none"]],
   stone |-> [i \in {"s"} |-> Goal],
   edges |-> {[from |-> "x", to |-> "s", sat |-> TRUE, ev |-> evidence]}]
MCBodies ==
  {Doc(Finished, TRUE), Doc([Finished EXCEPT !.out = "none", !.ev = FALSE], TRUE),
   Doc(Finished, FALSE)}

VARIABLES
  part,    \* the component that moves
  enJobs, enMade, enDisk, enCrew, enLanes, enSaving, enDraft, enBrief, enTeam,
  enTurn, enPerson, enTyped, enSent, enClicks, enFaults,
  wsDevice, wsRestricted, wsTrusted, wsListed, wsChecking, wsOpen, wsBroken,
  wsCwd, wsTicked, wsTickedAt, wsBrowses, wsTask, wsChosen, wsSaved, wsLast,
  wsBusy, wsLaunches, wsConflict, wsStatus, wsFolder, wsKind, wsActive,
  wsClicks, wsRuns, wsFaults

Teams == INSTANCE Enterprise WITH
  Teams <- {"a", "b"}, Names <- {"al"}, Labels <- {"alice"},
  Includes <- {<<"alice", "al">>}, MaxJobs <- 3, MaxCrew <- 1, MaxClicks <- 4,
  MaxLanes <- 1, MaxFaults <- 1, jobs <- enJobs, made <- enMade,
  disk <- enDisk, crew <- enCrew, lanes <- enLanes, saving <- enSaving,
  draft <- enDraft, brief <- enBrief, team <- enTeam, turn <- enTurn,
  person <- enPerson, typed <- enTyped, sent <- enSent, clicks <- enClicks,
  faults <- enFaults
Launch == INSTANCE Workspaces WITH
  Folders <- {"a", "b"}, Sessions <- {"s", "t"}, MaxClicks <- 4, MaxRuns <- 1,
  MaxFaults <- 1, device <- wsDevice, restricted <- wsRestricted,
  trusted <- wsTrusted, listed <- wsListed, checking <- wsChecking,
  open <- wsOpen, broken <- wsBroken, cwd <- wsCwd, ticked <- wsTicked,
  tickedAt <- wsTickedAt, browses <- wsBrowses, task <- wsTask,
  chosen <- wsChosen, saved <- wsSaved, last <- wsLast, busy <- wsBusy,
  launches <- wsLaunches, conflict <- wsConflict, status <- wsStatus,
  folder <- wsFolder, kind <- wsKind, active <- wsActive, clicks <- wsClicks,
  runs <- wsRuns, faults <- wsFaults

enVars == <<enJobs, enMade, enDisk, enCrew, enLanes, enSaving, enDraft, enBrief,
    enTeam, enTurn, enPerson, enTyped, enSent, enClicks, enFaults>>
wsVars == <<wsDevice, wsRestricted, wsTrusted, wsListed, wsChecking, wsOpen, wsBroken,
    wsCwd, wsTicked, wsTickedAt, wsBrowses, wsTask, wsChosen, wsSaved, wsLast,
    wsBusy, wsLaunches, wsConflict, wsStatus, wsFolder, wsKind, wsActive,
    wsClicks, wsRuns, wsFaults>>
screensVars == <<part, vars, enVars, wsVars>>

(* One component moves, the others stay in an initial state.               *)
ScreensInit ==
  /\ part \in {"room", "teams", "launch"}
  /\ Init
  /\ (part # "room" =>
        store = [m \in Missions |-> NoRecord])
  /\ Teams!Init
  /\ (part # "teams" =>
        enMade = 0)
  /\ Launch!Init
  /\ (part # "launch" =>
        wsDevice = "browser"
          /\ ~wsRestricted
          /\ wsTrusted = {}
          /\ wsKind[wsActive] = "plain")

RoomMoves ==
  part = "room" /\ Next
  /\ UNCHANGED <<part, enVars, wsVars>>
TeamsMoves ==
  part = "teams" /\ Teams!Next
  /\ UNCHANGED <<part, vars, wsVars>>
LaunchMoves ==
  part = "launch" /\ Launch!Next
  /\ UNCHANGED <<part, vars, enVars>>

ScreensNext ==
  \/ RoomMoves
  \/ TeamsMoves
  \/ LaunchMoves

ASSUME ControlRoomAssumption /\ Teams!EnterpriseAssumption

ScreensSpec == ScreensInit /\ [][ScreensNext]_screensVars

-----------------------------------------------------------------------------
ScreensTyped ==
  CASE part = "room" -> TypeOK
    [] part = "teams" -> Teams!TypeOK
    [] part = "launch" -> Launch!TypeOK

(* The live teams: no two turns under way share a worktree, an acceptance  *)
(* on show is in the ledger or being saved, a follow-up goes to the team   *)
(* it was typed for, and every lane has a station                          *)
(* (enterprise-screen.tsx:318, 532, background-runner.ts:270,              *)
(* enterprise.ts:227).                                                     *)
TeamsAreSound == Teams!TeamsAreSound

(* Opening a workspace: a folder is trusted only after the user was asked, *)
(* one checkout has one session, and runs elsewhere go on                  *)
(* (launch-dialog.tsx:145, mobile-folder-picker.tsx:58,                    *)
(* workspace-session.ts:31).                                               *)
OnlyWithConsent ==
  Launch!TrustIsAskedFor /\ Launch!SameCheckoutIsReused /\ Launch!UnrelatedRunsContinue
=============================================================================

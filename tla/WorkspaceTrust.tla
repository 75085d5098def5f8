---------------------------- MODULE WorkspaceTrust ----------------------------
(* lib/security/workspace-trust.ts: the trusted roots in one JSON file, and in *)
(* the memory of every Spok process that serves requests beside the others     *)
(* (the standalone runtime, a residual Next API).  Each exported function is   *)
(* synchronous, so it is a block within its process, but two processes run in  *)
(* parallel: their file operations interleave.                                 *)
EXTENDS Naturals, FiniteSets

CONSTANTS
    Procs,      \* Spok processes
    Roots,      \* canonical paths
    Overlapping, \* may the blocks of two processes overlap?
    MaxWrites,  \* bound: rewrites of the file
    MaxFaults   \* bound: rewrites that fail

VARIABLES
    file,    \* contents and stamp (mtime and size) of workspace-trust.json
    proc,    \* each process: its cache, the stamp it noted, what it executes
    faults   \* failed writes so far

vars == <<file, proc, faults>>

NoFile == [roots |-> {}, stamp |-> 0]
None == "none"
Op == {"check", "trust", "revoke"}
Fresh == [roots |-> {}, stamp |-> 0, loaded |-> FALSE, at |-> "idle", op |-> "check",
          root |-> None, astray |-> FALSE]

TypeOK ==
    /\ file \in [roots : SUBSET Roots, stamp : 0..MaxWrites]
    /\ proc \in [Procs -> [roots : SUBSET Roots, stamp : 0..MaxWrites, loaded : BOOLEAN,
                           at : {"idle", "stale", "read", "ready", "writing", "renamed"},
                           op : Op, root : Roots \cup {None}, astray : BOOLEAN]]
    /\ faults \in 0..MaxFaults

Init == file = NoFile /\ proc = [p \in Procs |-> Fresh] /\ faults = 0

Set(p, q) == proc' = [proc EXCEPT ![p] = q]

(* ensureLoaded: the file's stamp decides whether the cache is read again.     *)
Begin(p, op, r) ==
    /\ proc[p].at = "idle"
    /\ Overlapping \/ \A q \in Procs : proc[q].at = "idle"
    /\ Set(p, [proc[p] EXCEPT
            !.op = op, !.root = r,
            !.at = IF proc[p].loaded /\ proc[p].stamp = file.stamp THEN "ready" ELSE "stale"])
    /\ UNCHANGED <<file, faults>>

(* Mutant: the map is not cleared before the file is read into it.             *)
LoadMerges(p) ==
    /\ proc[p].at = "stale"
    /\ Set(p, [proc[p] EXCEPT !.at = "read", !.loaded = TRUE, !.roots = @ \cup file.roots,
                              !.astray = FALSE])
    /\ UNCHANGED <<file, faults>>

(* loadFromDisk                                                                *)
Load(p) ==
    /\ proc[p].at = "stale"
    /\ Set(p, [proc[p] EXCEPT !.at = "read", !.loaded = TRUE, !.roots = file.roots,
                              !.astray = FALSE])
    /\ UNCHANGED <<file, faults>>

NoteStamp(p) ==
    /\ proc[p].at = "read"
    /\ Set(p, [proc[p] EXCEPT !.at = "ready", !.stamp = file.stamp])
    /\ UNCHANGED <<file, faults>>

Changes(q) == (q.op = "trust" /\ q.root \notin q.roots) \/ (q.op = "revoke" /\ q.root \in q.roots)

(* A check, or a change that is none, ends here; a change is made in memory.   *)
Act(p) ==
    LET q == proc[p]
    IN  /\ q.at = "ready"
        /\ \/ ~Changes(q) /\ Set(p, [q EXCEPT !.at = "idle", !.root = None])
           \/ /\ Changes(q)
              /\ Set(p, [q EXCEPT !.at = "writing",
                                  !.roots = IF q.op = "trust" THEN @ \cup {q.root}
                                            ELSE @ \ {q.root}])
        /\ UNCHANGED <<file, faults>>

Done(q) == [q EXCEPT !.at = "idle", !.root = None]

(* persistToDisk: the whole cache replaces the file; then its stamp is read.   *)
Rename(p) ==
    /\ proc[p].at = "writing" /\ file.stamp < MaxWrites
    /\ file' = [roots |-> proc[p].roots, stamp |-> file.stamp + 1]
    /\ Set(p, [proc[p] EXCEPT !.at = "renamed", !.astray = FALSE])
    /\ UNCHANGED faults

Renamed(p) ==
    /\ proc[p].at = "renamed"
    /\ Set(p, [Done(proc[p]) EXCEPT !.stamp = file.stamp])
    /\ UNCHANGED <<file, faults>>

(* "Never break privileged path on trust I/O failure": the cache keeps the     *)
(* change and the file does not (astray).                                      *)
WriteFails(p) ==
    /\ proc[p].at = "writing" /\ faults < MaxFaults
    /\ faults' = faults + 1
    /\ Set(p, [Done(proc[p]) EXCEPT !.astray = TRUE])
    /\ UNCHANGED file

Restart(p) ==
    /\ proc[p] # Fresh
    /\ Set(p, Fresh)
    /\ UNCHANGED <<file, faults>>

Next ==
    \E p \in Procs :
        \/ \E op \in Op, r \in Roots : Begin(p, op, r)
        \/ Load(p) \/ NoteStamp(p) \/ Act(p) \/ Rename(p) \/ Renamed(p)
        \/ WriteFails(p) \/ Restart(p)

Spec == Init /\ [][Next]_vars

(* A process that need not read the file again has its very contents in memory *)
(* ("stays coherent across Spok processes", workspace-trust.ts:18), however    *)
(* reads, rewrites and restarts of the others fall between its own requests,   *)
(* unless its own write has failed.                                            *)
CacheFollowsFile ==
    \A p \in Procs :
        LET q == proc[p]
        IN  q.at = "idle" /\ q.loaded /\ q.stamp = file.stamp /\ ~q.astray
                => q.roots = file.roots
=============================================================================

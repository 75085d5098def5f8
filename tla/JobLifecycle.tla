---------------------------- MODULE JobLifecycle ----------------------------
(* What the background runner promises of a job, whatever clients, reloads *)
(* and failed requests stand behind it: the job's agent runs once, the     *)
(* record that links it to its session and worktree is on disk by then,    *)
(* and from then on the record never lets a restart start it again.        *)
CONSTANTS Jobs

VARIABLES
    phase,    \* how far each job got
    record    \* what the ledger file says of it

Record == {"none", "startable", "linked", "kept"}

Init ==
    /\ phase = [j \in Jobs |-> "unknown"]
    /\ record = [j \in Jobs |-> "none"]

Accept(j) ==
    /\ phase[j] = "unknown"
    /\ phase' = [phase EXCEPT ![j] = "waiting"]
    /\ UNCHANGED record

(* One write of the file replaces any number of records.                   *)
Save ==
    /\ record' \in [Jobs -> Record]
    /\ \A j \in Jobs : record'[j] # record[j] =>
        /\ phase[j] # "unknown"
        /\ record'[j] = "startable" => phase[j] = "waiting"
    /\ UNCHANGED phase

Launch(j) ==
    /\ phase[j] = "waiting" /\ record[j] = "linked"
    /\ phase' = [phase EXCEPT ![j] = "running"]
    /\ UNCHANGED record

Exit(j) ==
    /\ phase[j] = "running"
    /\ phase' = [phase EXCEPT ![j] = "over"]
    /\ UNCHANGED record

Next == Save \/ \E j \in Jobs : Accept(j) \/ Launch(j) \/ Exit(j)

vars == <<phase, record>>

Spec == Init /\ [][Next]_vars
=============================================================================

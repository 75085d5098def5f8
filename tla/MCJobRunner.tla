---------------------------- MODULE MCJobRunner ----------------------------
(***************************************************************************)
(* JobRunner for TLC, and a claim of the repository's comments that the     *)
(* code does not keep: it is checked alone, by a run that expects the      *)
(* counterexample.                                                         *)
(***************************************************************************)
EXTENDS JobRunner

(* "reconcile stale runs", "Interrupted when Spok restarted": a job that   *)
(* the ledger calls interrupted has no client that still follows its       *)
(* running agent.                                                          *)
InterruptedIsStale ==
    \A j \in Jobs : ledger[j].st = "interrupted" =>
        \A t \in Tabs : client[t].pc[j] # "harness"
=============================================================================

--------------------------- MODULE ArtifactWorkflow ---------------------------
(* lib/runtime/bounded-artifact-workflow.ts: the runs of one mission work item *)
(* that fill an output directory from a staged input packet, the checkpoint    *)
(* the runtime keeps of it, and the gate each run's result passes at its end.  *)
(* Every exported function is one synchronous block of the runtime; the        *)
(* agents write their files at any time.                                       *)
EXTENDS Naturals, FiniteSets

CONSTANTS
    Runs,       \* run ids; two may be under way, in two host sessions
    Packets,    \* versions of the input packet (its SHA-256)
    Shards,     \* the temporal shards with transcript lines
    Types,      \* artifact types a result may name
    Demands,    \* the requiredArtifactTypes of a request: sets of types, none empty
    MaxWrites,  \* bound: files the agents write
    MaxCrashes  \* bound: crashes of the runtime

VARIABLES
    packet,      \* the packet on disk
    shardFile,   \* each shard's output file
    artifact,    \* each artifact file: its content, which its digest stands for
    result,      \* the result manifest
    checkpoint,  \* <mission>/artifact-workflows/<work item>.json
    run,         \* each run as the runtime knows it
    author,      \* the run whose agent wrote the manifest last
    torn,        \* a crash cut a finalization in half
    writes, crashes

files == <<shardFile, artifact, result, author, writes>>
vars == <<packet, files, checkpoint, run, torn, crashes>>

None == "none"
Content == {"absent", "sound", "flawed"}
Status == {"complete", "partial", "blocked", "nonsense"}
Handoff == {"pending", "validated", "partial", "blocked", "invalid"}
Phase == {"specialists", "integration", "validation", "complete"}
Manifest == [run : Runs \cup {None}, status : Status, refs : [Types -> Content]]
Checkpoint == [input : Packets \cup {None}, lastRun : Runs \cup {None}, verified : SUBSET Shards,
               artifacts : SUBSET Types, handoff : Handoff, findings : BOOLEAN]
NoManifest == [run |-> None, status |-> "nonsense", refs |-> [t \in Types |-> "absent"]]
NoCheckpoint == [input |-> None, lastRun |-> None, verified |-> {}, artifacts |-> {},
                 handoff |-> "pending", findings |-> FALSE]
Idle == [at |-> "new", input |-> None, required |-> {}, wave |-> {}, phase |-> "specialists",
         handoff |-> "pending"]

TypeOK ==
    /\ packet \in Packets
    /\ shardFile \in [Shards -> {"absent", "valid", "invalid"}]
    /\ artifact \in [Types -> Content]
    /\ result \in Manifest /\ author \in Runs \cup {None}
    /\ checkpoint \in Checkpoint
    /\ run \in [Runs -> [at : {"new", "prepared", "running", "exited", "gated", "lost"},
                         input : Packets \cup {None}, required : Demands \cup {{}},
                         wave : SUBSET Shards,
                         phase : Phase, handoff : Handoff]]
    /\ torn \in BOOLEAN /\ writes \in 0..MaxWrites /\ crashes \in 0..MaxCrashes

Init ==
    /\ packet \in Packets
    /\ shardFile = [s \in Shards |-> "absent"]
    /\ artifact = [t \in Types |-> "absent"]
    /\ result = NoManifest /\ author = None /\ checkpoint = NoCheckpoint
    /\ run = [r \in Runs |-> Idle]
    /\ torn = FALSE /\ writes = 0 /\ crashes = 0

-----------------------------------------------------------------------------
(* refreshCheckpoint                                                           *)

(* findShardOutput: a file that parses and lies within the shard's range       *)
VerifiedShards == {s \in Shards : shardFile[s] = "valid"}

SameInput(r) == checkpoint.input = run[r].input

(* Mutant: the prior verdict is kept whatever the input was.                   *)
RefreshedAnyInput(r, artifacts, given) ==
    [input |-> run[r].input, lastRun |-> r, verified |-> VerifiedShards,
     artifacts |-> IF given THEN artifacts ELSE IF SameInput(r) THEN checkpoint.artifacts ELSE {},
     handoff |-> checkpoint.handoff, findings |-> checkpoint.findings]

(* The shards as they are on disk now; the verdict, and the artifacts unless   *)
(* they are given, of an earlier run on the same input.                        *)
Refreshed(r, artifacts, given) ==
    [input |-> run[r].input, lastRun |-> r, verified |-> VerifiedShards,
     artifacts |-> IF given THEN artifacts ELSE IF SameInput(r) THEN checkpoint.artifacts ELSE {},
     handoff |-> IF SameInput(r) THEN checkpoint.handoff ELSE "pending",
     findings |-> SameInput(r) /\ checkpoint.findings]

(* progressFromCheckpoint: by the types of this request                        *)
PhaseOf(c, r) ==
    CASE c.handoff = "validated" -> "complete"
      [] c.handoff # "validated" /\ c.verified # Shards -> "specialists"
      [] c.handoff # "validated" /\ c.verified = Shards ->
            IF run[r].required \subseteq c.artifacts THEN "validation" ELSE "integration"

(* The request of a run: the packet it is contracted for, the types it owes    *)
Contract(r, p) ==
    /\ run[r].at = "new"
    /\ \E types \in Demands :
          run' = [run EXCEPT ![r].input = p, ![r].required = types, ![r].at = "prepared"]
    /\ UNCHANGED <<packet, files, checkpoint, torn, crashes>>

(* prepareBoundedArtifactWorkflow: the receipt launches the pending shards in  *)
(* one wave.  It throws when the packet on disk is another, and perhaps for an *)
(* input that is not there.                                                    *)
Prepare(r) ==
    /\ run[r].at = "prepared"
    /\ \/ /\ run[r].input = packet
          /\ checkpoint' = Refreshed(r, {}, FALSE)
          /\ run' = [run EXCEPT ![r].at = "running", ![r].phase = PhaseOf(checkpoint', r),
                                ![r].wave = Shards \ VerifiedShards]
       \/ run' = [run EXCEPT ![r].at = "lost"] /\ UNCHANGED checkpoint
    /\ UNCHANGED <<packet, files, torn, crashes>>

(* The heartbeat of the run's stream: refreshBoundedArtifactWorkflow           *)
Refresh(r) ==
    /\ run[r].at = "running"
    /\ checkpoint' = Refreshed(r, {}, FALSE)
    /\ run' = [run EXCEPT ![r].phase = PhaseOf(checkpoint', r)]
    /\ UNCHANGED <<packet, files, torn, crashes>>

-----------------------------------------------------------------------------
(* The agents and the host that stages packets                                 *)

Writes == writes < MaxWrites /\ writes' = writes + 1

WriteShard(r, s) ==
    /\ run[r].at = "running" /\ s \in run[r].wave /\ Writes
    /\ \E c \in {"valid", "invalid"} : shardFile' = [shardFile EXCEPT ![s] = c]
    /\ UNCHANGED <<packet, artifact, result, author, checkpoint, run, torn, crashes>>

WriteArtifact(r, t) ==
    /\ run[r].at = "running" /\ Writes
    /\ \E c \in Content : artifact' = [artifact EXCEPT ![t] = c]
    /\ UNCHANGED <<packet, shardFile, result, author, checkpoint, run, torn, crashes>>

(* The manifest names the digests of the artifacts as they are, under the      *)
(* identity of the run whose receipt the agent was given.                      *)
WriteResult(r) ==
    /\ run[r].at = "running" /\ Writes
    /\ \E status \in Status :
          result' = [run |-> r, status |-> status, refs |-> artifact]
    /\ author' = r
    /\ UNCHANGED <<packet, shardFile, artifact, checkpoint, run, torn, crashes>>

Restage(p) ==
    /\ p # packet /\ \A r \in Runs : run[r].at # "running"
    /\ packet' = p
    /\ UNCHANGED <<files, checkpoint, run, torn, crashes>>

Exit(r) ==
    /\ run[r].at = "running"
    /\ run' = [run EXCEPT ![r].at = "exited"]
    /\ UNCHANGED <<packet, files, checkpoint, torn, crashes>>

-----------------------------------------------------------------------------
(* finalizeBoundedArtifactWorkflow                                             *)

(* A reference holds when size and digest are those of the file.               *)
VerifiedRefs ==
    {t \in Types : result.refs[t] # "absent" /\ artifact[t] = result.refs[t]}

(* Mutant: no look at the identity the manifest claims.                        *)
FindingsButIdentity(r) ==
    \/ result = NoManifest
    \/ \E t \in Types : result.refs[t] # "absent" /\
            (t \notin VerifiedRefs \/ artifact[t] = "flawed")
    \/ result.status = "complete" /\ \E t \in run[r].required : result.refs[t] = "absent"

(* A missing manifest, another run's identity, a reference that does not hold, *)
(* a flaw of chronology, linkage, attribution or repair, or a missing type.    *)
Findings(r) ==
    \/ result = NoManifest
    \/ result.run # r
    \/ \E t \in Types : result.refs[t] # "absent" /\
            (t \notin VerifiedRefs \/ artifact[t] = "flawed")
    \/ result.status = "complete" /\ \E t \in run[r].required : result.refs[t] = "absent"

(* Mutant: the status the manifest declares is the state of the handoff. *)
VerdictAsDeclared(r) == IF Findings(r) THEN "invalid" ELSE result.status

Verdict(r) ==
    IF Findings(r) \/ result.status = "nonsense" THEN "invalid"
    ELSE IF result.status = "complete" THEN "validated" ELSE result.status

(* The checkpoint is written twice: with the artifacts, then with the verdict. *)
FirstWrite(r) == Refreshed(r, VerifiedRefs, TRUE)

Finalize(r) ==
    /\ run[r].at = "exited"
    /\ checkpoint' = [FirstWrite(r) EXCEPT !.handoff = Verdict(r), !.findings = Findings(r)]
    /\ run' = [run EXCEPT ![r].at = "gated", ![r].handoff = Verdict(r),
                          ![r].phase = IF Verdict(r) = "validated" THEN "complete" ELSE "validation"]
    /\ UNCHANGED <<packet, files, torn, crashes>>

(* The gate throws, as a reference of the manifest leads out of the output     *)
(* directory or an input is gone: onClose takes the handoff for invalid, and   *)
(* the checkpoint stays as it was.                                             *)
GateThrows(r) ==
    /\ run[r].at = "exited"
    /\ run' = [run EXCEPT ![r].at = "gated", ![r].handoff = "invalid"]
    /\ UNCHANGED <<packet, files, checkpoint, torn, crashes>>

(* The runtime dies: its runs are lost, perhaps between the two writes.        *)
Crash ==
    /\ crashes < MaxCrashes
    /\ crashes' = crashes + 1
    /\ run' = [r \in Runs |-> IF run[r].at \in {"new", "gated"} THEN run[r]
                              ELSE [run[r] EXCEPT !.at = "lost"]]
    /\ \/ UNCHANGED <<checkpoint, torn>>
       \/ \E r \in Runs :
            /\ run[r].at = "exited"
            /\ checkpoint' = FirstWrite(r)
            /\ torn' = TRUE
    /\ UNCHANGED <<packet, files>>

-----------------------------------------------------------------------------
Next ==
    \/ \E r \in Runs :
        \/ \E p \in Packets : Contract(r, p)
        \/ Prepare(r) \/ Refresh(r) \/ WriteResult(r) \/ Exit(r)
        \/ Finalize(r) \/ GateThrows(r)
        \/ \E s \in Shards : WriteShard(r, s)
        \/ \E t \in Types : WriteArtifact(r, t)
    \/ \E p \in Packets : Restage(p)
    \/ Crash

Spec == Init /\ [][Next]_vars

(* A verdict never outlives its evidence: while the checkpoint says validated, *)
(* some run passed the gate on that very packet, and every artifact it owed is *)
(* named as verified, through any heartbeats, preparations and failed gates of *)
(* other runs (unless a crash fell between the two writes of a finalization)   *)
(* (bounded-artifact-workflow.ts:449).                                         *)
ValidatedIsBacked ==
    checkpoint.handoff = "validated" /\ ~torn
        => \E r \in Runs : /\ run[r].handoff = "validated" /\ run[r].input = checkpoint.input
                          /\ run[r].required \subseteq checkpoint.artifacts

(* A run's handoff is validated only if its own agent wrote the manifest: the  *)
(* complete result an earlier or a parallel run left behind never passes for   *)
(* it (result_identity_mismatch).                                              *)
HandoffIsOwn ==
    [][\A r \in Runs : run'[r].handoff = "validated" /\ run[r].handoff # "validated"
        => author = r]_vars
=============================================================================

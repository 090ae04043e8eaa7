-------------------------------- MODULE Worker --------------------------------
(***************************************************************************)
(* What the workers of a transfer task have in common: the kind of worker  *)
(* start_transfer_task has chosen, where its threads are, and what they    *)
(* have told the engine.  A thread that talks to the agent is at `pc`, one *)
(* that calls adb is at `adb`; a kind that has no such thread leaves it at *)
(* "ok" throughout the run.                                                *)
(***************************************************************************)
EXTENDS ChunkPush

CONSTANT Tasks   \* the tasks to look at

WifiKinds == {"WifiPush", "WifiPull", "Dual"}
AdbKinds == {"AdbPush", "AdbPull", "Dual"}
PullKinds == {"WifiPull", "AdbPull"}

\* What an earlier transfer may have left where the task is going to write: a
\* file of some length, or an adb part of some index.
Leftover == [at : {"nowhere", "temp", "final", "part", "local"}, file : File, n : Nat]

ASSUME WorkerAssumption ==
  Tasks \subseteq [kind : WifiKinds \cup AdbKinds, network : Networks, verifies : BOOLEAN,
                  bundleBytes : Nat, old : Leftover, access : AccessKinds]

VARIABLES
  task,       \* its kind of worker, verify_enabled, and where it runs
  adb,        \* the adb call that thread comes to next
  adbPos,     \* the file and the chunk it is at
  halt,       \* pause_requested
  recorded    \* completed chunks in the checkpoint

adbVars == <<adb, adbPos>>

kind == task.kind
verifies == task.verifies
access == task.access
clean == task.old.at = "nowhere"

Resting == {"idle", "ok", "failed"}

Running == pc \notin Resting \/ adb \notin Resting
EndedWell == pc = "ok" /\ adb = "ok"

\* completed_chunks_for_file, is_file_fully_checkpointed
Checkpointed(f) == Split(f, 1) \subseteq recorded

NextChunk == pos' = <<AtFile, AtChunk + 1>> /\ pc' = "chunk" /\ attempt' = 0
NextFile == pos' = <<AtFile + 1, 0>> /\ pc' = "file" /\ attempt' = 0

RecordChunk(c) == recorded' = recorded \cup {c}
RecordFile(f) == recorded' = recorded \cup Split(f, 1)

\* A thread ends; where it has been does not matter any more.
PcEnds(label) == pc' = label /\ pos' = <<0, 0>> /\ attempt' = 0
AdbEnds(label) == adb' = label /\ adbPos' = <<0, 0>>

\* The files a Dual task gives to Wi-Fi: every other one, the first included.
\* (None is large here: those are pushed by the lanes of SameFile.)
Owns(lane, f) == kind = "Dual" => f % 2 = (IF lane = "Wifi" THEN 0 ELSE 1)

FirstFile(lane) == Min({f \in 0 .. (NFiles + 1) : Owns(lane, f)})
FileAfter(lane, f) == Min({g \in (f + 1) .. (NFiles + 2) : Owns(lane, g)})

\* push_directory_bundle: the agent makes the directories, or refuses without a
\* task; nothing is asked if there are none.
TellDirectories ==
  /\ pc = "directories"
  /\ Goto("file") \/ Goto("idle")
  /\ UNCHANGED <<agentVars, network>>

\* A run begins, for the first time or again, with a pause flag of its own.
Begin ==
  /\ ~ Running
  /\ pc' = IF kind \in WifiKinds THEN "task" ELSE "ok"
  /\ pos' = <<0, 0>>
  /\ attempt' = 0
  /\ adb' = IF kind \in AdbKinds THEN "file" ELSE "ok"
  /\ adbPos' = <<FirstFile("Adb"), 0>>
  /\ halt' = FALSE
  /\ UNCHANGED <<agentVars, network, task, recorded>>

WorkerInit ==
  /\ PushInit
  /\ task \in Tasks
  /\ network = task.network
  /\ adb = "idle"
  /\ adbPos = <<0, 0>>
  /\ halt = FALSE
  /\ recorded = {}
=============================================================================

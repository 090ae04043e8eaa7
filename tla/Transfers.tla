------------------------------ MODULE Transfers ------------------------------
(***************************************************************************)
(* A transfer task that is not large, with whichever worker it has, run    *)
(* again after every end of it: the workers of Worker.tla side by side,    *)
(* the agent and the network they depend on, the user's pause, and the     *)
(* desktop ending at any moment.                                           *)
(***************************************************************************)
EXTENDS WifiPush, DualPush, Pulls

shownVars == <<parts, user, bundle, local>>
vars == <<pushVars, task, adbVars, halt, recorded, shownVars>>

\* What is there at first: the source of a pull, and the leftover.
There(at) ==
  [p \in Place |->
     IF task.old.at = at /\ p = <<"target", task.old.file>>
     THEN Holding(task.old.n, {}) ELSE Absent]

DeviceInit ==
  /\ temp = There("temp")
  /\ IF kind \in PullKinds
     THEN \E name \in {"target", "default"} :
            final = [p \in Place |-> IF p = <<name, 0>> THEN Whole(0) ELSE Absent]
     ELSE final = There("final")
  /\ parts = [f \in File |-> [i \in PartIndex |->
               IF task.old = [at |-> "part", file |-> f, n |-> i] THEN "stale" ELSE "none"]]
  /\ local = IF task.old.at = "local" THEN Holding(task.old.n, {}) ELSE Absent

Init ==
  /\ WorkerInit
  /\ DeviceInit
  /\ user = "away"
  /\ bundle = {}
-----------------------------------------------------------------------------
PcStep ==
  \/ /\ kind = "WifiPush" /\ WifiPushStep
     /\ UNCHANGED <<bundle, local>>
  \/ /\ kind = "Dual" /\ WifiLaneStep
     /\ UNCHANGED local
  \/ /\ kind = "WifiPull" /\ WifiPullStep
     /\ UNCHANGED bundle

WifiStep ==
  /\ PcStep
  /\ UNCHANGED <<task, adbVars, halt, parts, user>>

AdbStep ==
  /\ \/ kind \in {"AdbPush", "Dual"} /\ AdbPushStep /\ UNCHANGED local
     \/ kind = "AdbPull" /\ AdbPullStep /\ UNCHANGED <<agentVars, parts>>
  /\ UNCHANGED <<network, workerVars, task, halt, user, bundle>>

\* pause_transfer_task: the registry first, and then, when it is free again,
\* the engine.
Pause ==
  /\ Running /\ ~ halt
  /\ user = "away"
  /\ FreeFor("user", {"registry"})
  /\ halt' = TRUE
  /\ user' = "engine"
  /\ UNCHANGED <<pushVars, task, adbVars, recorded, parts, bundle, local>>

PauseEngine ==
  /\ user = "engine"
  /\ FreeFor("user", {"engine"})
  /\ user' = "away"
  /\ UNCHANGED <<pushVars, task, adbVars, halt, recorded, parts, bundle, local>>

\* The desktop ends, and with it every thread; a bundle that is being sent is
\* cut off.  (An error of the source does the same to a worker's only thread.)
DesktopEnds ==
  /\ Running
  /\ \/ UNCHANGED agentVars
     \/ pc = "send" /\ \E f \in bundle : BundleBreaks(bundle, f)
  /\ PcEnds("idle") /\ AdbEnds("idle")
  /\ bundle' = {}
  /\ user' = "away" /\ halt' = FALSE
  /\ UNCHANGED <<network, task, recorded, parts, local>>

Next ==
  \/ Begin /\ UNCHANGED shownVars
  \/ WifiStep \/ AdbStep \/ Pause \/ PauseEngine \/ DesktopEnds
  \/ AgentGoes /\ UNCHANGED <<task, adbVars, halt, recorded, shownVars>>

Spec == Init /\ [][Next]_vars

\* Threads run, requests have timeouts and adb commands end.
FairSpec ==
  /\ Spec
  /\ WF_vars(WifiStep)
  /\ WF_vars(AdbStep)
  /\ WF_vars(PauseEngine)
-----------------------------------------------------------------------------
InParts(f) == IF FileSize[f] = 0 THEN {} ELSE GoodParts(f)
Bundled(f) == kind = "Dual" /\ Owns("Wifi", f)

\* The agent may write where the task says ("Confirm all-files access in Android
\* Settings for external absolute target roots", HARDWARE_VALIDATION.md 101).
\* An agent that may not refuses the root, which no worker notices, and the files
\* go to its own directory: see VerifiedTransfersAreWhole.
RootGiven == kind \in {"WifiPush", "Dual"} => access = "granted"

(***************************************************************************)
(* A recorded chunk is on the device: it will be skipped from now on, so   *)
(* "confirmed by CHUNK_STATUS after push error" (lib.rs) and "can be       *)
(* confirmed from disk" (the agent's README) must never be said of a chunk *)
(* that was not written, nor an adb part be counted that is not there,     *)
(* whichever requests, answers, commands and processes are lost between    *)
(* the attempts.  (A bundle is sent again by every run, and an agent that  *)
(* ends between the delete and the rename of a file has it under the temp  *)
(* name only: for those, on a steady network.)  The agent must have had    *)
(* access to the target all along.                                         *)
(***************************************************************************)
RecordedChunksOnDevice ==
  clean /\ RootGiven /\ kind \notin PullKinds =>
    \A c \in recorded :
      \/ FileSize[c[1]] = 0
      \/ c[2] \in OnDevice(c[1]) \cup InParts(c[1])
      \/ Bundled(c[1]) /\ network = "lossy"

(***************************************************************************)
(* A file under its final name is the whole source file: no interruption,  *)
(* retry, second COMPLETE_FILE or script that stops half way publishes a   *)
(* part of one, if the agent has had access to the target all along.       *)
(***************************************************************************)
FinalFilesAreWhole ==
  clean /\ RootGiven /\ kind \notin PullKinds =>
    \A f \in File : FinalAt(f).there => FinalAt(f) = Whole(f)

(***************************************************************************)
(* What a pull from the agent has recorded is in the file on the PC, which *)
(* a resumed run opens again and writes around, whatever became of the     *)
(* root it asked for.                                                      *)
(***************************************************************************)
PulledChunksAreLocal ==
  kind = "WifiPull" => \A c \in recorded : FileSize[0] > 0 => c[2] \in local.good

Arrived == IF kind \in PullKinds THEN Pulled ELSE \A f \in File : FinalAt(f) = Whole(f)

(***************************************************************************)
(* With "BLAKE3 verification" ticked (index.html 133) a task whose run has *)
(* ended well has every file whole where it was to be put, whatever was    *)
(* there before and however often it was retried: a target that differs    *)
(* makes it fail (HARDWARE_VALIDATION.md 110).                             *)
(***************************************************************************)
VerifiedTransfersAreWhole == verifies /\ EndedWell => Arrived

(***************************************************************************)
(* That is so of the workers that verify what they skip as well, if the    *)
(* agent of a Dual task has access to where they verify it.                *)
(***************************************************************************)
AdbAndDualVerifyAll ==
  RootGiven /\ kind \in {"AdbPush", "Dual", "AdbPull"} => VerifiedTransfersAreWhole

(***************************************************************************)
(* To a clean target that its agent may write to every worker delivers,    *)
(* records and publishes as FileTransfer promises, and a resumed run loses *)
(* nothing of an earlier one.  A file in a bundle arrives in one request   *)
(* and is published by it; an adb pull is not by chunks.                   *)
(***************************************************************************)
ByChunks == {f \in File : ~ Bundled(f) /\ clean /\ RootGiven /\ kind # "AdbPull"}

InPlace(f) ==
  IF kind = "WifiPull" THEN IF f = 0 THEN local.good ELSE {}
  ELSE OnDevice(f) \cup InParts(f)

EmptyArrived(f) ==
  IF kind = "WifiPull" THEN f = 0 /\ local.there
  ELSE \/ temp[<<"target", f>>].there \/ FinalAt(f).there
       \/ parts[f][0] = "good"

DeliveredOf(f) ==
  IF FileSize[f] > 0 THEN {f} \X InPlace(f)
  ELSE IF EmptyArrived(f) THEN Split(f, 1) ELSE {}

Delivered == UNION {DeliveredOf(f) : f \in ByChunks}
RecordedByChunks == {c \in recorded : c[1] \in ByChunks}
Published == IF kind = "WifiPull" THEN {} ELSE {f \in ByChunks : FinalAt(f).there}

Transfer == INSTANCE FileTransfer WITH
  Files     <- File,
  ChunksOf  <- LAMBDA f : Split(f, 1),
  delivered <- Delivered,
  recorded  <- RecordedByChunks,
  published <- Published

ImplementsFileTransfer == Transfer!TransferSpec

(***************************************************************************)
(* A run ends: retries, recoveries and refusals never keep a worker at the *)
(* same chunk, and no thread waits for ever for a lock that another one    *)
(* keeps.                                                                  *)
(***************************************************************************)
RunsEnd == Running ~> ~ Running
=============================================================================

------------------------------- MODULE SameFile -------------------------------
(***************************************************************************)
(* A same-file Dual push (run_dual_same_file_pc_to_android_files): two     *)
(* lanes write into one sparse temp file on the device, ADB with dd, Wi-Fi *)
(* through the agent in batches.  `pc` is the main thread's place and,     *)
(* while the lanes run, the Wi-Fi lane's; `adb` is the ADB lane's.         *)
(*                                                                         *)
(* Each write is one step on one file.  On storage that is "racy" a file   *)
(* that both lanes write may in between become shorter than it was.        *)
(***************************************************************************)
EXTENDS ChunkPush

CONSTANTS
  Strides,      \* lane plans the calibration, or its failure, may come to
  Batch,        \* wifi_batch_chunks
  OldLengths,   \* lengths of the files earlier transfers may have left there
  Verify,       \* verify_enabled
  Sampled,      \* should_sample_android_verify: the files have 128 MiB or more
  Devices       \* the agent's access to the target, the storage behind it, the network

ASSUME SameFileAssumption ==
  /\ \A f \in File : FileSize[f] > 0
  /\ Strides \subseteq Nat \ {0, 1}
  /\ Batch \in Nat \ {0}
  /\ OldLengths \subseteq Nat
  /\ Verify \in BOOLEAN
  /\ Sampled \in BOOLEAN
  /\ Devices \subseteq
       [access : AccessKinds, storage : {"consistent", "racy"}, network : Networks]

VARIABLES
  device,     \* the one there is
  stride,     \* wifi_stride of the run
  trusted,    \* completed_chunks of the file: chunks the lanes skip
  adb,        \* the ADB lane: "off", "on", "written", "ok" or "failed"
  looked,     \* how many chunk indices each lane has gone through
  pending,    \* pending_wifi_chunks
  halt,       \* pause_requested, as a lane that fails sets it
  recorded,   \* completed chunks in the checkpoint
  finished    \* files reported complete to the engine

planVars == <<stride, trusted>>
laneVars == <<adb, looked, pending, halt>>
recordVars == <<recorded, finished>>
sameFileVars == <<pushVars, device, planVars, laneVars, recordVars>>

Indices(f) == 0 .. (NumChunks(f, 1) - 1)
RecordedOf(f) == {i \in Indices(f) : <<f, i>> \in recorded}

\* The next chunk of a lane, if any.
NextOf(lane) ==
  LET ahead == {i \in Indices(AtFile) : i >= looked[lane] /\ OwnsChunk(lane, i, stride)}
  IN  {i \in ahead : \A j \in ahead : i <= j}

Goes(lane, i) == looked' = [looked EXCEPT ![lane] = i + 1]

NothingLooked == [l \in {"Adb", "Wifi"} |-> 0]

LanesGone ==
  /\ adb' = "off"
  /\ looked' = NothingLooked
  /\ pending' = {}
  /\ trusted' = {}
-----------------------------------------------------------------------------
\* same_file_resume_guard_chunks: the first and last of all and of each lane,
\* and the last two.
Guards(S, n) ==
  LET ends(T) == {i \in T : (\A j \in T : i <= j) \/ (\A j \in T : j <= i)}
      owned(lane) == {i \in S : OwnsChunk(lane, i, n)}
  IN  ends(S) \cup ends(owned("Adb")) \cup ends(owned("Wifi"))
        \cup {i \in S : Cardinality({j \in S : j > i}) < 2}

\* prepare_same_file_resume_chunks: what is left to trust if every chunk that
\* is pulled arrives.
Trustworthy(f) ==
  IF Guards(RecordedOf(f), stride) \subseteq Readable(f).good
  THEN RecordedOf(f)
  ELSE RecordedOf(f) \cap Readable(f).good

\* android_verify_sample_ranges, by the chunks they lie in.
Samples(f) ==
  LET n == FileSize[f] IN {0, (n - 1) \div 2, n \div 2, n - 1}

\* Mutant: the size is enough.
SizeVerified(f) == CanRead(f) /\ Readable(f).length = FileSize[f]

Verified(f) ==
  /\ CanRead(f)
  /\ Readable(f).length = FileSize[f]
  /\ (IF Sampled THEN Samples(f) ELSE Indices(f)) \subseteq Readable(f).good
-----------------------------------------------------------------------------
Begin ==
  /\ pc = "idle"
  /\ pc' = "task"
  /\ pos' = <<0, 0>>
  /\ attempt' = 0
  /\ halt' = FALSE
  /\ UNCHANGED <<agentVars, network, planVars, adb, looked, pending, recordVars>>

TellTask ==
  /\ Told("task", StartTask, "root") \/ Told("again", StartTask, "rootagain")
  /\ UNCHANGED <<planVars, laneVars, recordVars>>

TellRoot ==
  /\ \E accepted \in Answers(device.access) :
       \/ Told("root", SetTargetRoot(accepted), "plan")
       \/ Told("rootagain", SetTargetRoot(accepted), "file")
  /\ UNCHANGED <<planVars, laneVars, recordVars>>

\* plan_same_file_lanes.  What the calibration leaves at the agent is undone by
\* the second START_TASK, what it leaves on the device has names of its own.
Plan ==
  /\ pc = "plan"
  /\ stride' \in Strides
  /\ Goto("again")
  /\ UNCHANGED <<agentVars, network, trusted, laneVars, recordVars>>

AtNewFile ==
  /\ pc = "file"
  /\ Goto(IF AtFile = NFiles \/ halt THEN "idle" ELSE "start")
  /\ UNCHANGED <<agentVars, network, planVars, laneVars, recordVars>>

TellFile ==
  /\ Told("start", StartFile(AtFile), "prepare")
  /\ UNCHANGED <<planVars, laneVars, recordVars>>

\* Mutant: every file begins anew, also one with checkpointed chunks.
RemoveAlways ==
  /\ pc = "prepare"
  /\ temp' = [temp EXCEPT ![<<"target", AtFile>>] = Absent]
  /\ trusted' = {}
  /\ Goto("split")
  /\ UNCHANGED <<memoryVars, final, network, stride, laneVars, recordVars>>

\* A file without checkpointed chunks begins anew, if adb can remove what is
\* there; its errors are ignored.
Remove ==
  /\ pc = "prepare"
  /\ RecordedOf(AtFile) = {}
  /\ \E gone \in SUBSET {"temp", "final"} :
       /\ temp' = IF "temp" \in gone
                  THEN [temp EXCEPT ![<<"target", AtFile>>] = Absent] ELSE temp
       /\ final' = IF "final" \in gone
                   THEN [final EXCEPT ![<<"target", AtFile>>] = Absent] ELSE final
  /\ trusted' = {}
  /\ Goto("split")
  /\ UNCHANGED <<memoryVars, network, stride, laneVars, recordVars>>

CheckResume ==
  /\ pc = "prepare"
  /\ RecordedOf(AtFile) # {}
  /\ \/ CanRead(AtFile) /\ trusted' = Trustworthy(AtFile) /\ Goto("split")
     \/ UNCHANGED trusted /\ Goto("idle")
  /\ UNCHANGED <<agentVars, network, stride, laneVars, recordVars>>

SpawnLanes ==
  /\ pc = "split"
  /\ Goto("lane")
  /\ adb' = "on"
  /\ UNCHANGED <<agentVars, network, planVars, looked, pending, halt, recordVars>>
-----------------------------------------------------------------------------
\* The ADB lane: the flag is looked at before each chunk of its own.
AdbDone ==
  /\ adb = "on"
  /\ adb' = IF NextOf("Adb") = {} THEN "ok" ELSE "failed"
  /\ NextOf("Adb") = {} \/ halt
  /\ UNCHANGED <<agentVars, looked, halt, recorded>>

AdbSkips(i) ==
  /\ adb = "on" /\ ~ halt
  /\ i \in NextOf("Adb") \cap trusted
  /\ Goes("Adb", i)
  /\ UNCHANGED <<agentVars, adb, halt, recorded>>

\* Mutant: what dd says is not looked at.
AdbWritesUnchecked(i) ==
  /\ adb = "on" /\ ~ halt
  /\ i \in NextOf("Adb") \ trusted
  /\ temp' \in {temp, [temp EXCEPT ![<<"target", AtFile>>] = Written(@, AtFile, {i})]}
  /\ adb' = "written"
  /\ UNCHANGED <<memoryVars, final, looked, halt, recorded>>

\* write_file_chunk_at_offset: dd may fail, also after it has written.
AdbWrites(i) ==
  /\ adb = "on" /\ ~ halt
  /\ i \in NextOf("Adb") \ trusted
  /\ \/ /\ temp' = [temp EXCEPT ![<<"target", AtFile>>] = Written(@, AtFile, {i})]
        /\ adb' \in {"written", "failed"}
     \/ /\ UNCHANGED temp
        /\ adb' = "failed"
  /\ halt' = (adb' = "failed")
  /\ UNCHANGED <<memoryVars, final, looked, recorded>>

AdbRecords(i) ==
  /\ adb = "written"
  /\ i \in NextOf("Adb")
  /\ recorded' = recorded \cup {<<AtFile, i>>}
  /\ adb' = "on"
  /\ Goes("Adb", i)
  /\ UNCHANGED <<agentVars, halt>>

AdbStep ==
  /\ adb \in {"on", "written"}
  /\ \/ AdbDone
     \/ \E i \in Indices(AtFile) : AdbSkips(i) \/ AdbWrites(i) \/ AdbRecords(i)
  /\ UNCHANGED <<network, workerVars, planVars, pending, finished>>
-----------------------------------------------------------------------------
\* The Wi-Fi lane collects chunks, and pushes and records them by batches.
WifiDone ==
  /\ pc = "lane"
  /\ \/ NextOf("Wifi") # {} /\ halt /\ Goto("stopped")
     \/ NextOf("Wifi") = {} /\ Goto(IF pending = {} THEN "ok" ELSE "batch")
  /\ UNCHANGED <<agentVars, looked, pending, halt, recorded>>

WifiSkips(i) ==
  /\ ~ halt
  /\ i \in NextOf("Wifi") \cap trusted
  /\ Goes("Wifi", i)
  /\ UNCHANGED <<agentVars, workerVars, pending, halt, recorded>>

WifiTakes(i) ==
  /\ ~ halt
  /\ i \in NextOf("Wifi") \ trusted
  /\ Goes("Wifi", i)
  /\ pending' = pending \cup {i}
  /\ Goto(IF Cardinality(pending') >= Batch THEN "batch" ELSE "lane")
  /\ UNCHANGED <<agentVars, halt, recorded>>

FirstPending(i) == i \in pending /\ \A j \in pending : i <= j

PushFrom(i) == pc' = "push" /\ pos' = <<AtFile, i>> /\ attempt' = 0

\* PUSH_CHUNK_BATCH_BIN; if it is not answered well, chunk by chunk.
PushBatch ==
  /\ pc = "batch"
  /\ \/ WriteChunks(AtFile, pending) /\ Goto("commit")
     \/ /\ \/ WriteChunks(AtFile, pending)
           \/ /\ network = "lossy"
              /\ \E i \in pending : WriteChunks(AtFile, {j \in pending : j < i})
           \/ NotWritten
        /\ \E i \in pending : FirstPending(i) /\ PushFrom(i)
  /\ UNCHANGED <<looked, pending, halt, recorded>>

PushedOne ==
  /\ pc = "pushed"
  /\ LET rest == {i \in pending : i > AtChunk}
     IN  \/ rest = {} /\ Goto("commit")
         \/ \E i \in rest : (\A j \in rest : i <= j) /\ PushFrom(i)
  /\ UNCHANGED <<agentVars, looked, pending, halt, recorded>>

Commit ==
  /\ pc = "commit"
  /\ \E i \in pending :
       /\ FirstPending(i)
       /\ recorded' = recorded \cup {<<AtFile, i>>}
       /\ pending' = pending \ {i}
  /\ Goto(IF pending' = {} THEN "lane" ELSE "commit")
  /\ UNCHANGED <<agentVars, looked, halt>>

\* A chunk is given up: nothing of the batch is recorded, both lanes stop.
WifiFails ==
  /\ pc = "failed"
  /\ Goto("stopped")
  /\ halt' = TRUE
  /\ UNCHANGED <<agentVars, looked, pending, recorded>>

WifiStep ==
  /\ \/ WifiDone \/ PushBatch \/ PushedOne \/ Commit \/ WifiFails
     \/ pc = "lane" /\ \E i \in Indices(AtFile) : WifiSkips(i) \/ WifiTakes(i)
     \/ PushStep /\ UNCHANGED <<looked, pending, halt, recorded>>
  /\ UNCHANGED <<network, planVars, adb, finished>>
-----------------------------------------------------------------------------
\* Mutant: lanes that have failed are waited for.
JoinOfWhole ==
  /\ pc = "ok" /\ adb = "ok"
  /\ Goto("complete")
  /\ LanesGone
  /\ UNCHANGED <<agentVars, network, stride, halt, recordVars>>

Join ==
  /\ pc \in {"ok", "stopped"} /\ adb \in {"ok", "failed"}
  /\ Goto(IF pc = "ok" /\ adb = "ok" THEN "complete" ELSE "idle")
  /\ LanesGone
  /\ UNCHANGED <<agentVars, network, stride, halt, recordVars>>

TellComplete ==
  /\ Told("complete", CompleteFile(AtFile), "check")
  /\ UNCHANGED <<planVars, laneVars, recordVars>>

\* wait_for_remote_file_size and verify_android_remote_file.
CheckFile ==
  /\ pc = "check"
  /\ \/ /\ CanRead(AtFile)
        /\ Readable(AtFile).length = FileSize[AtFile]
        /\ Verify => Verified(AtFile)
        /\ Goto("report")
     \/ Goto("idle")
  /\ UNCHANGED <<agentVars, network, planVars, laneVars, recordVars>>

\* record_real_file_complete
ReportFile ==
  /\ pc = "report"
  /\ recorded' = recorded \cup Split(AtFile, 1)
  /\ finished' = finished \cup {AtFile}
  /\ pc' = "file" /\ pos' = <<AtFile + 1, 0>> /\ UNCHANGED attempt
  /\ UNCHANGED <<agentVars, network, planVars, laneVars>>

\* The desktop ends, with both lanes; or both have seen the user's pause, which
\* leaves the same behind.
DesktopEnds ==
  /\ pc # "idle"
  /\ Goto("idle")
  /\ LanesGone
  /\ UNCHANGED <<agentVars, network, stride, halt, recordVars>>

MainStep ==
  \/ TellTask \/ TellRoot \/ Plan \/ AtNewFile \/ TellFile \/ Remove
  \/ CheckResume \/ SpawnLanes \/ Join \/ TellComplete \/ CheckFile \/ ReportFile

\* "Very small Wi-Fi batches and some chunk-weight patterns produced short final
\* files ...  a possible file-length race when ADB dd and Android RandomAccessFile
\* write the same emulated-storage file concurrently" (HARDWARE_VALIDATION.md 64).
StorageCuts ==
  /\ device.storage = "racy"
  /\ adb # "off"
  /\ LET target == <<"target", AtFile>>
     IN  /\ temp[target].there
         /\ \E n \in 0 .. (temp[target].length - 1) :
              temp' = [temp EXCEPT ![target] = Holding(n, {i \in @.good : i < n})]
  /\ UNCHANGED <<memoryVars, final, network, workerVars, planVars, laneVars, recordVars>>

SameFileInit ==
  /\ PushInit
  /\ device \in Devices
  /\ network = device.network
  /\ temp \in Leftovers(OldLengths)
  /\ final \in Leftovers(OldLengths)
  /\ stride \in Strides
  /\ trusted = {}
  /\ adb = "off"
  /\ looked = NothingLooked
  /\ pending = {}
  /\ halt = FALSE
  /\ recorded = {}
  /\ finished = {}

ThreadStep == (MainStep \/ AdbStep \/ WifiStep) /\ UNCHANGED device

OtherStep ==
  /\ \/ Begin \/ DesktopEnds \/ StorageCuts
     \/ AgentGoes /\ UNCHANGED <<planVars, laneVars, recordVars>>
  /\ UNCHANGED device

SameFileNext == ThreadStep \/ OtherStep

SameFileSpec == SameFileInit /\ [][SameFileNext]_sameFileVars

\* Requests and adb processes end, and of the threads that can go on some do.
SameFileFairSpec ==
  SameFileSpec /\ WF_sameFileVars(ThreadStep)
-----------------------------------------------------------------------------
(***************************************************************************)
(* A recorded chunk is on the device, as a resumed run believes that finds *)
(* it among the trusted ones ("resume will verify committed chunks before  *)
(* skipping them", lane_interrupted_message; "disk-backed CHUNK_STATUS     *)
(* recovery probing", HARDWARE_VALIDATION.md 35).                          *)
(***************************************************************************)
RecordedChunksOnDevice ==
  \A c \in recorded : c[2] \in OnDevice(c[1])

\* No request is lost, no root refused, and the storage keeps what is written.
Calm ==
  network = "steady" /\ device.storage = "consistent" /\ device.access = "granted"

(***************************************************************************)
(* If all is calm that is so, through failures of adb, late answers,       *)
(* pauses and ends of the desktop at any point of either lane, and what an *)
(* earlier transfer has left under the same names.                         *)
(***************************************************************************)
RecordedChunksOnDeviceIfCalm == Calm => RecordedChunksOnDevice

(***************************************************************************)
(* A file that has been reported complete is whole under its final name,   *)
(* whatever CHUNK_STATUS has taken for written in the sparse temp file and *)
(* whatever the storage has lost of it: the size and the digest are        *)
(* compared before the report.  (An agent that may not write to the target *)
(* compares a file under its own root.)                                    *)
(***************************************************************************)
FinishedFilesAreWhole ==
  device.access = "granted" => \A f \in finished : final[<<"target", f>>] = Whole(f)

(***************************************************************************)
(* What is recorded and on the device stays there, if all is calm: the     *)
(* removal before a new start, the rewriting of what the guard did not     *)
(* trust and the renaming of the temp file never cost a recorded chunk.    *)
(* (They may where the storage loses some of what both lanes write at      *)
(* once, as the hardware tests report.)                                    *)
(***************************************************************************)
RecordedChunksStay ==
  [][Calm =>
       \A c \in recorded : c[2] \in OnDevice(c[1]) => c[2] \in OnDevice(c[1])']_sameFileVars

(***************************************************************************)
(* A run ends: neither lane waits for the other for ever, whichever of     *)
(* them fails and wherever the other one is then.                          *)
(***************************************************************************)
RunsEnd == pc # "idle" ~> pc = "idle"
=============================================================================

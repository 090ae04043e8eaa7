------------------------------ MODULE Delivery ------------------------------
(***************************************************************************)
(* The engine as the desktop's transfer workers use it, with what their    *)
(* reports stand for: bytes of the source they have sent to the target, or *)
(* bytes they take to be there because a file on the device, an adb part   *)
(* or the temp file of the agent, is as long as it would be.  A worker     *)
(* reports each chunk it sends or finds, passes over those its checkpoint  *)
(* lists, and reports a file when it has been through all of its chunks,   *)
(* or when adb finds a file of the right size.                             *)
(*                                                                         *)
(* tick_task and the leases are left out: no worker calls them.            *)
(***************************************************************************)
EXTENDS EngineProps

VARIABLES
  covered,   \* the bytes sent or found since the task was created
  dealt      \* the chunks the workers of this run have been through

traceVars == <<covered, dealt>>
deliveryVars == <<vars, traceVars>>

\* load_task_checkpoint, when the workers start.  (An adb push asks the device
\* for its parts instead, and finds no more.)
StartWorkers ==
  /\ Free /\ loaded
  /\ dealt' = IF file = "ok" THEN disk.done ELSE {}
  /\ UNCHANGED <<vars, covered>>

\* A chunk that has been pushed, recorded or not; an adb part of the right length
\* ("chunk-skipped"); or a push that has failed and is confirmed by CHUNK_STATUS
\* or STAT_FILE.  The engine's refusal, for a task that is cancelled or has
\* failed, is ignored.
DealWithChunk(l, c) ==
  /\ \/ \E markCompleted \in {TRUE, Mode # "Dual"} :
          RecordRealChunkCommit(c, Length(FileSize[c[1]], chunkSize, c[2]), l, markCompleted)
     \/ Free /\ loaded /\ ~ CanRecord /\ UNCHANGED vars
  /\ covered' = covered \cup BytesOf({c}, chunkSize)
  /\ dealt' = dealt \cup {c}

SendBundledFile ==
  /\ Mode = "Dual"
  /\ \E f \in File :
       /\ ~ IsLarge(f, Threshold)
       /\ \/ RecordRealChunkCommit(<<f, 0>>, FileSize[f], "Wifi", TRUE)
          \/ RecordRealFileComplete(f, "Wifi")
       /\ covered' = covered \cup Bytes(f)
  /\ UNCHANGED dealt

\* "file-skipped": adb finds a file that has the right size.  (In a Dual task it
\* is not asked for the files both lanes share.)
FindFile ==
  /\ Mode # "WifiOnly"
  /\ \E f \in File :
       /\ Mode = "Dual" => ~ IsLarge(f, Threshold)
       /\ RecordRealFileComplete(f, "Adb")
       /\ covered' = covered \cup Bytes(f)
  /\ UNCHANGED dealt

\* Mutant: a file that lacks one chunk is taken for complete.
AlmostBeenThrough(f) ==
  Cardinality({c \in dealt : c[1] = f}) + 1 >= NumChunks(f, chunkSize)

\* The end of the loop over the chunks; or is_file_fully_checkpointed, which
\* counts them.
BeenThrough(f) ==
  Cardinality({c \in dealt : c[1] = f}) >= NumChunks(f, chunkSize)

\* Mutant: a file is reported complete before its chunks have been dealt with.
FinishFileEarly(f, l) ==
  /\ RecordRealFileComplete(f, l)
  /\ UNCHANGED traceVars

FinishFile(f, l) ==
  /\ BeenThrough(f)
  /\ RecordRealFileComplete(f, l)
  /\ UNCHANGED traceVars

\* A task made anew, which recover_task never leaves Pending, starts from
\* nothing, and has no worker yet.
InsertTask ==
  /\ Insert
  /\ IF draft = FreshImage THEN covered' = {} /\ dealt' = {}
     ELSE UNCHANGED traceVars

Control ==
  /\ \/ CreateOrRecoverTask \/ RecoverTask \/ DeleteTaskRecord
     \/ PauseTask \/ ResumeTask \/ CancelTask \/ RetryTask \/ RecordTaskFailure
     \/ \E size \in ChunkSizes : ReconfigureTaskChunkSize(size)
     \/ Save \/ SaveFails
  /\ UNCHANGED traceVars

\* The workers end with the process.
ProcessEnds ==
  /\ Crash
  /\ dealt' = {}
  /\ UNCHANGED covered

DeliveryInit == Init /\ covered = {} /\ dealt = {}

WorkersStep ==
  \/ \E l \in WorkerLanes :
       \/ \E c \in SplitAll(NFiles, chunkSize) : DealWithChunk(l, c)
       \/ \E f \in File : FinishFile(f, l)
  \/ StartWorkers \/ SendBundledFile \/ FindFile

DeliveryNext == Control \/ InsertTask \/ ProcessEnds \/ WorkersStep

DeliverySpec == DeliveryInit /\ [][DeliveryNext]_deliveryVars
-----------------------------------------------------------------------------
(***************************************************************************)
(* A task is Completed only when every byte of its files has been sent, or *)
(* was found by a worker for its length: what the user of a resumed or     *)
(* recovered task believes.  Nothing is completed because the engine, a    *)
(* refused report, a skipped file or a crash has counted what no worker    *)
(* has dealt with.  (How true a length is, Transfers and SameFile say.)    *)
(***************************************************************************)
CompletedMeansAllBytesDealt ==
  loaded /\ state = "Completed" => AllBytes \subseteq covered

(***************************************************************************)
(* A recorded chunk has been sent or found, whatever was interrupted: an   *)
(* index of the checkpoint, in memory or on file, never stands for bytes   *)
(* that no worker of this task has dealt with.  What the next run passes   *)
(* over without a look at the device rests on it.                          *)
(***************************************************************************)
RecordedChunksWereDealt ==
  /\ loaded => BytesOf(done, chunkSize) \subseteq covered
  /\ file = "ok" => BytesOf(disk.done, disk.chunkSize) \subseteq covered
=============================================================================

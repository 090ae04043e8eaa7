----------------------------- MODULE EngineProps ----------------------------
(***************************************************************************)
(* What the engine promises about a task, its checkpoint and its metrics.  *)
(***************************************************************************)
EXTENDS Engine

TaskTypeOK ==
  /\ loaded \in BOOLEAN
  /\ state \in TaskState
  /\ lastError \in BOOLEAN
  /\ files \in 0 .. NFiles
  /\ done \subseteq Chunk
  /\ via \in LaneRecord
  /\ chunkSize \in ChunkSizes
  /\ metrics \in [chunks : Nat, bytes : Nat, adb : Nat, wifi : Nat]

CallTypeOK ==
  /\ call \in {"none", "tick", "save", "insert"}
  /\ step \in 0 .. TickSteps
  /\ draft \in Image

DiskTypeOK ==
  /\ file \in {"absent", "unreadable", "ok"}
  /\ disk \in Image

TypeOK == TaskTypeOK /\ SchedulerTypeOK /\ CallTypeOK /\ DiskTypeOK
-----------------------------------------------------------------------------
(***************************************************************************)
(* adb_bytes + wifi_bytes = committed_bytes, whatever mixture of lanes,    *)
(* duplicate reports, rebuilt metrics and damaged checkpoints a task has   *)
(* been through: commit_chunk and rebuild_metrics credit exactly one lane. *)
(***************************************************************************)
LaneTotalsAddUp == metrics.adb + metrics.wifi = metrics.bytes

(***************************************************************************)
(* The metrics kept up chunk by chunk are those a recovery would compute   *)
(* from the checkpoint, per lane (the test                                 *)
(* recovered_dual_task_preserves_real_lane_metrics, for every history):    *)
(* nothing is counted twice when two workers, a skipped file and a resumed *)
(* task report the same chunk.                                             *)
(***************************************************************************)
MetricsMatchCheckpoint == loaded => metrics = RebuildMetrics(MemoryImage)

(***************************************************************************)
(* When no operation is under way, the checkpoint file holds every chunk   *)
(* the task in memory has, with its lane and the chunk size it belongs to, *)
(* so a crash loses no recorded progress.  The state on file may be older  *)
(* only when the one in memory is Running (lease_real_chunk and a report   *)
(* for an unknown file set it without saving).                             *)
(***************************************************************************)
ProgressIsDurable ==
  loaded /\ Free =>
    /\ file = "ok"
    /\ disk.done = done /\ disk.via = via
    /\ disk.files = files /\ disk.chunkSize = chunkSize
    /\ state # "Running" => disk.state = state

(***************************************************************************)
(* A task is Completed, in memory or on file, only with every chunk of     *)
(* every file recorded: the completion test counts chunks, tick_task's     *)
(* asks the scheduler instead, and late, duplicated or pending reports     *)
(* must not fool either of them.                                           *)
(***************************************************************************)
CompletedMeansAllRecorded ==
  /\ loaded /\ state = "Completed" => SplitAll(files, chunkSize) \subseteq done
  /\ file = "ok" /\ disk.state = "Completed" =>
       SplitAll(disk.files, disk.chunkSize) \subseteq disk.done

(***************************************************************************)
(* recoverable_tasks leaves out the checkpoints that are Completed or      *)
(* Cancelled.  A task it leaves out has nothing left to transfer, or has   *)
(* been cancelled in memory too: an interrupted operation never hides an   *)
(* unfinished task from the next start.                                    *)
(***************************************************************************)
UnfinishedStaysRecoverable ==
  loaded /\ Free /\ disk.state \in {"Completed", "Cancelled"} =>
    state = "Cancelled" \/ SplitAll(files, chunkSize) \subseteq done

(***************************************************************************)
(* A task that is cancelled or has failed records nothing, whichever       *)
(* worker still reports, until it is retried; and no operation ever takes  *)
(* a recorded chunk back while the task stays in the map.                  *)
(***************************************************************************)
ProgressOnlyGrows ==
  [][loaded /\ loaded' /\ call # "insert" =>
       /\ done \subseteq done'
       /\ state \in {"Cancelled", "Failed"} => done' = done]_vars

(***************************************************************************)
(* A single-track task leases its chunks and credits its bytes over its    *)
(* own lane only, whichever lane asks (the test                            *)
(* single_track_uses_requested_lane_only, through fallbacks, recoveries    *)
(* and rebuilt queues).                                                    *)
(***************************************************************************)
SingleTrackKeepsItsLane ==
  /\ Mode = "AdbOnly"  => metrics.wifi = 0 /\ \A x \in out : x.lane = "Adb"
  /\ Mode = "WifiOnly" => metrics.adb = 0 /\ \A x \in out : x.lane = "Wifi"

(***************************************************************************)
(* The life of a task as its users see it, implemented by the engine.      *)
(***************************************************************************)
Lifecycle == INSTANCE TaskLifecycle WITH
  Chunks   <- Chunk,
  status   <- IF loaded THEN state ELSE "NoTask",
  recorded <- done,
  saved    <- disk.done,
  unsaved  <- loaded /\ ~ Free

ImplementsLifecycle == Lifecycle!LifeSpec

(***************************************************************************)
(* Every operation returns and frees the engine's mutex: the loop of       *)
(* tick_task ends.  The holder of the mutex waits for nothing, so its own  *)
(* steps are fair; no caller is obliged to call anything.                  *)
(***************************************************************************)
HolderStep == TickChunk \/ TickEnd \/ Save \/ Insert

FairSpec == Spec /\ WF_vars(HolderStep)

OperationsReturn == ~ Free ~> Free
=============================================================================

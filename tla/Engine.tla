------------------------------- MODULE Engine -------------------------------
(***************************************************************************)
(* TransferEngine (engine.rs) for one task: its entry in the engine's map, *)
(* its checkpoint file, and every operation of the engine on the two.      *)
(* Tasks do not interact, so one task stands for each.                     *)
(*                                                                         *)
(* The desktop keeps the engine in a mutex.  An operation holds it from    *)
(* its first check to its last write; `call` says where the holder is.     *)
(* Every operation that saves ends with the write of the checkpoint file,  *)
(* a step of its own here because the process can exit, or the write fail, *)
(* after memory has changed and before the file has.                       *)
(***************************************************************************)
EXTENDS Checkpoint

CONSTANTS
  DemoTask,    \* TRUE: created by ensure_demo_task / create_demo_local_task
  TickSteps,   \* steps one tick_task call may take
  IoErrors,    \* TRUE: reading or writing the store may fail
  TornWrites   \* TRUE: an interrupted write may leave a prefix of the file

ASSUME EngineAssumption ==
  /\ TickSteps \in Nat \ {0}
  /\ {DemoTask, IoErrors, TornWrites} \subseteq BOOLEAN

VARIABLES
  loaded,     \* is the task in the engine's map?
  state,      \* EngineTask.state
  lastError,  \* is last_error set?
  files,      \* number of items, and of files of the checkpoint in memory
  done,       \* completed_chunks of every file
  via,        \* completed_chunk_lanes of every file
  chunkSize,  \* config.chunk_size_bytes
  metrics     \* EngineMetrics

VARIABLES
  call,       \* "none", or what the operation that holds the mutex is doing
  step,       \* steps tick_task has taken
  draft       \* the entry create_task or recover_task is about to save

VARIABLES
  file,       \* the checkpoint file: "absent", "unreadable" or "ok"
  disk        \* what a load of it returns, when "ok"

taskVars == <<loaded, state, lastError, files, done, via, chunkSize, metrics>>
callVars == <<call, step, draft>>
diskVars == <<file, disk>>
vars == <<taskVars, schedVars, callVars, diskVars>>

Free == call = "none"

MemoryImage == [state |-> state, files |-> files, done |-> done, via |-> via,
                chunkSize |-> chunkSize]
-----------------------------------------------------------------------------
\* rebuild_metrics: a recorded chunk counts if the current split has it, for
\* the lane on record or, without one, the lane the mode implies.
CreditedTo(c, lanes) ==
  CASE c \in lanes["Adb"]  -> "Adb"
    [] c \in lanes["Wifi"] -> "Wifi"
    [] OTHER -> IF Mode = "AdbOnly" \/ (Mode = "Dual" /\ c[2] % 2 = 0)
                  THEN "Adb" ELSE "Wifi"

\* Mutant: only the lanes on record are credited.
MetricsOfRecordedLanes(img) ==
  LET counted   == img.done \cap SplitAll(img.files, img.chunkSize)
      amount(S) == Cardinality(BytesOf(S, img.chunkSize))
  IN  [chunks |-> Cardinality(counted),
       bytes  |-> amount(counted),
       adb    |-> amount(counted \cap img.via["Adb"]),
       wifi   |-> amount(counted \cap img.via["Wifi"])]

RebuildMetrics(img) ==
  LET counted   == img.done \cap SplitAll(img.files, img.chunkSize)
      over(l)   == {c \in counted : CreditedTo(c, img.via) = l}
      amount(S) == Cardinality(BytesOf(S, img.chunkSize))
  IN  [chunks |-> Cardinality(counted),
       bytes  |-> amount(counted),
       adb    |-> amount(over("Adb")),
       wifi   |-> amount(over("Wifi"))]

NoMetrics == [chunks |-> 0, bytes |-> 0, adb |-> 0, wifi |-> 0]

\* The entry of the map after a task has been built from a checkpoint entry.
Load(img) ==
  /\ loaded' = TRUE
  /\ state' = img.state
  /\ lastError' = FALSE
  /\ files' = img.files
  /\ done' = img.done
  /\ via' = img.via
  /\ chunkSize' = img.chunkSize
  /\ metrics' = RebuildMetrics(img)
  /\ queue' = DealQueues(img.files, img.chunkSize, img.done)
  /\ inflight' = NoInflight
  /\ out' = {}

\* The task is no longer in the map.
Unload ==
  /\ loaded' = FALSE
  /\ state' = "Pending"
  /\ lastError' = FALSE
  /\ files' = 0
  /\ done' = {}
  /\ via' = NoLaneRecord
  /\ chunkSize' = InitialChunkSize
  /\ metrics' = NoMetrics
  /\ queue' = [l \in Lane |-> {}]
  /\ inflight' = NoInflight
  /\ out' = {}

\* Mutant: a chunk reported twice counts twice.
Listed(S) == {c \in S : c[1] < files}

\* commit_chunk for each chunk of S: a chunk of a file the checkpoint does not
\* list, or one that is recorded already, changes nothing.
Fresh(S) == {c \in S : c[1] < files} \ done

\* `length` is the sum of the lengths of the fresh chunks as they were reported.
CommitChunks(S, lane, length) ==
  LET n == Cardinality(Fresh(S))
  IN  /\ done' = done \cup Fresh(S)
      /\ via' = [l \in Lane |-> IF l = lane THEN via[l] \cup Fresh(S)
                                            ELSE via[l] \ Fresh(S)]
      /\ metrics' = [chunks |-> metrics.chunks + n,
                     bytes  |-> metrics.bytes + length,
                     adb    |-> metrics.adb + (IF lane = "Adb" THEN length ELSE 0),
                     wifi   |-> metrics.wifi + (IF lane = "Wifi" THEN length ELSE 0)]

\* A chunk reported with the length the split gives it.
SplitLength(S) == Cardinality(BytesOf(Fresh(S), chunkSize))

\* Mutant: one whole file is enough.
AnyDone(d) ==
  \E f \in 0 .. (files - 1) :
    Cardinality({c \in d : c[1] = f}) >= NumChunks(f, chunkSize)

\* The test of mark_completed_if_drained: it compares counts, file by file.
AllDone(d) ==
  \A f \in 0 .. (files - 1) :
    Cardinality({c \in d : c[1] = f}) >= NumChunks(f, chunkSize)
-----------------------------------------------------------------------------
(***************************************************************************)
(* Saving.  An operation on a loaded task ends in EngineTask::persist,     *)
(* create_task and recover_task in the insertion of the task after it.     *)
(***************************************************************************)
BeginSave ==
  /\ call' = "save"
  /\ UNCHANGED <<step, draft, diskVars>>

BeginInsert(img) ==
  /\ call' = "insert"
  /\ draft' = img
  /\ UNCHANGED <<taskVars, schedVars, step, diskVars>>

Return ==
  /\ call' = "none"
  /\ step' = 0
  /\ draft' = FreshImage

Pending == IF call = "insert" THEN draft ELSE MemoryImage

WriteFile(img) ==
  /\ file' = "ok"
  /\ disk' = img

\* The write stopped: before it touched the file, or part of the way through.
WriteStopped ==
  \/ UNCHANGED diskVars
  \/ /\ TornWrites
     /\ \/ /\ file' = "unreadable"
           /\ disk' = FreshImage
        \/ \E img \in TornReads(Pending) : WriteFile(img)

Save ==
  /\ call = "save"
  /\ WriteFile(MemoryImage)
  /\ Return
  /\ UNCHANGED <<taskVars, schedVars>>

Insert ==
  /\ call = "insert"
  /\ WriteFile(draft)
  /\ Load(draft)
  /\ Return

\* persist returns Err: what memory has changed stays changed, nothing is
\* inserted.
SaveFails ==
  /\ IoErrors
  /\ call \in {"save", "insert"}
  /\ WriteStopped
  /\ Return
  /\ UNCHANGED <<taskVars, schedVars>>
-----------------------------------------------------------------------------
\* create_task_from_paths, called directly for the demonstration tasks: an
\* entry or a checkpoint that exists is replaced.
CreateTask ==
  /\ DemoTask /\ Free
  /\ BeginInsert(FreshImage)

\* create_or_recover_task_from_paths for a task not in the map and without a
\* checkpoint that loads.
CreateOrRecoverTask ==
  /\ ~ DemoTask /\ Free
  /\ ~ loaded
  /\ file # "ok" \/ IoErrors
  /\ BeginInsert(FreshImage)

ResumedState(s) == IF s \in {"Completed", "Cancelled"} THEN s ELSE "Paused"

\* recover_task, which create_or_recover_task_from_paths calls too.
RecoverTask ==
  /\ Free
  /\ ~ loaded
  /\ file = "ok"
  /\ BeginInsert([disk EXCEPT !.state = ResumedState(disk.state)])

SetState(s) ==
  /\ state' = s
  /\ UNCHANGED <<loaded, files, done, via, chunkSize, metrics, schedVars>>
  /\ BeginSave

PauseTask ==
  /\ Free /\ loaded
  /\ state \notin {"Completed", "Cancelled", "Failed"}
  /\ SetState("Paused")
  /\ UNCHANGED lastError

\* Mutant: a task is resumed whatever has become of it.
ResumeAnyTask ==
  /\ Free /\ loaded
  /\ state # "Completed"
  /\ SetState("Running")
  /\ UNCHANGED lastError

ResumeTask ==
  /\ Free /\ loaded
  /\ state = "Paused"
  /\ SetState("Running")
  /\ UNCHANGED lastError

CancelTask ==
  /\ Free /\ loaded
  /\ state \notin {"Completed", "Cancelled"}
  /\ SetState("Cancelled")
  /\ UNCHANGED lastError

RetryTask ==
  /\ Free /\ loaded
  /\ state \notin {"Completed", "Cancelled"}
  /\ SetState("Paused")
  /\ lastError' = FALSE

\* Mutant: the failure is not saved.
RecordTaskFailureUnsaved ==
  /\ Free /\ loaded
  /\ state' = "Failed"
  /\ lastError' = TRUE
  /\ UNCHANGED <<loaded, files, done, via, chunkSize, metrics, schedVars,
                 callVars, diskVars>>

\* record_task_failure looks at no state.
RecordTaskFailure ==
  /\ Free /\ loaded
  /\ SetState("Failed")
  /\ lastError' = TRUE
-----------------------------------------------------------------------------
(***************************************************************************)
(* tick_task commits up to TickSteps leased chunks, preferring the lanes   *)
(* in turn, and completes the task when the scheduler is drained.          *)
(***************************************************************************)
TickTask ==
  /\ Free /\ loaded
  /\ state \notin {"Completed", "Cancelled", "Failed", "Paused"}
  /\ state' = "Running"
  /\ call' = "tick"
  /\ UNCHANGED <<loaded, lastError, files, done, via, chunkSize, metrics,
                 schedVars, step, draft, diskVars>>

TickOffer == Offer(IF step % 2 = 0 THEN "Adb" ELSE "Wifi")

\* The lease is completed at once, so the in-flight counters end as they were.
TickChunk ==
  /\ call = "tick"
  /\ step < TickSteps
  /\ \E lease \in TickOffer :
       /\ CommitChunks({lease.chunk}, lease.lane, SplitLength({lease.chunk}))
       /\ queue' = PopFront(lease)
  /\ step' = step + 1
  /\ UNCHANGED <<loaded, state, lastError, files, chunkSize, inflight, out,
                 call, draft, diskVars>>

\* Mutant: the loop goes on until the scheduler is drained, Idle or not.
TickEndWhenDrained ==
  /\ call = "tick"
  /\ step = TickSteps \/ IsDrained
  /\ state' = IF IsDrained THEN "Completed" ELSE state
  /\ UNCHANGED <<loaded, lastError, files, done, via, chunkSize, metrics, schedVars>>
  /\ BeginSave

TickEnd ==
  /\ call = "tick"
  /\ step = TickSteps \/ TickOffer = {}
  /\ state' = IF IsDrained THEN "Completed" ELSE state
  /\ UNCHANGED <<loaded, lastError, files, done, via, chunkSize, metrics, schedVars>>
  /\ BeginSave
-----------------------------------------------------------------------------
\* Mutant: a failed task still records progress.
CanRecordUnlessCancelled == Free /\ loaded /\ state # "Cancelled"

\* ensure_can_record_real_progress refuses two states only.
CanRecord == Free /\ loaded /\ state \notin {"Cancelled", "Failed"}

\* mark_completed_if_drained, after the state has been set to Running.
MarkCompletedIfDrained == state' = IF AllDone(done') THEN "Completed" ELSE "Running"

\* Mutant: a chunk is recorded in memory only.
RecordChunkInMemory(c, length, lane, markCompleted) ==
  /\ CanRecord
  /\ CommitChunks({c}, lane, IF Fresh({c}) = {} THEN 0 ELSE length)
  /\ IF markCompleted THEN MarkCompletedIfDrained ELSE state' = "Running"
  /\ UNCHANGED <<loaded, lastError, files, chunkSize, schedVars, callVars, diskVars>>

\* record_real_chunk_commit; with markCompleted FALSE, .._commit_pending.  The
\* length is the caller's, and is counted if the chunk is new.
RecordRealChunkCommit(c, length, lane, markCompleted) ==
  /\ CanRecord
  /\ CommitChunks({c}, lane, IF Fresh({c}) = {} THEN 0 ELSE length)
  /\ IF markCompleted THEN MarkCompletedIfDrained ELSE state' = "Running"
  /\ UNCHANGED <<loaded, lastError, files, chunkSize, schedVars>>
  /\ BeginSave

RecordRealFileComplete(f, lane) ==
  /\ CanRecord
  /\ f < files
  /\ CommitChunks(Split(f, chunkSize), lane, SplitLength(Split(f, chunkSize)))
  /\ MarkCompletedIfDrained
  /\ UNCHANGED <<loaded, lastError, files, chunkSize, schedVars>>
  /\ BeginSave

\* A file the task does not list: an error, but the state has been set.
RecordUnknownFile(f) ==
  /\ CanRecord
  /\ f >= files
  /\ state' = "Running"
  /\ UNCHANGED <<loaded, lastError, files, done, via, chunkSize, metrics,
                 schedVars, callVars, diskVars>>

\* lease_real_chunk does not save; without a lease to offer it still sets the
\* state.
LeaseRealChunk(preferred) ==
  /\ CanRecord
  /\ state # "Paused"
  /\ state' = "Running"
  /\ \/ LeaseNext(preferred)
     \/ Offer(preferred) = {} /\ UNCHANGED schedVars
  /\ UNCHANGED <<loaded, lastError, files, done, via, chunkSize, metrics,
                 callVars, diskVars>>

CompleteRealChunkLease(lease) ==
  /\ CanRecord
  /\ CommitChunks({lease.chunk}, lease.lane, SplitLength({lease.chunk}))
  /\ Complete(lease)
  /\ MarkCompletedIfDrained
  /\ UNCHANGED <<loaded, lastError, files, chunkSize>>
  /\ BeginSave
-----------------------------------------------------------------------------
\* delete_task_record: the entry of the map goes first, and stays gone if the
\* file cannot be removed.
DeleteTaskRecord ==
  /\ Free
  /\ loaded => state # "Running"
  /\ Unload
  /\ \/ file' = "absent" /\ disk' = FreshImage
     \/ IoErrors /\ UNCHANGED diskVars
  /\ UNCHANGED callVars

\* reconfigure_task_chunk_size: the recorded chunk indices are kept as they
\* are, the queues and the metrics are made anew for the new split.
ReconfigureTaskChunkSize(size) ==
  /\ Free /\ loaded
  /\ chunkSize' = AtLeastOne(size)
  /\ LET img == [MemoryImage EXCEPT !.chunkSize = AtLeastOne(size)]
     IN  /\ metrics' = RebuildMetrics(img)
         /\ queue' = DealQueues(files, img.chunkSize, done)
  /\ inflight' = NoInflight
  /\ out' = {}
  /\ UNCHANGED <<loaded, state, lastError, files, done, via>>
  /\ BeginSave

\* The process exits, at any point of an operation.
Crash ==
  /\ Unload
  /\ IF call \in {"save", "insert"} THEN WriteStopped ELSE UNCHANGED diskVars
  /\ Return
-----------------------------------------------------------------------------
Init ==
  /\ loaded = FALSE
  /\ state = "Pending"
  /\ lastError = FALSE
  /\ files = 0
  /\ done = {}
  /\ via = NoLaneRecord
  /\ chunkSize = InitialChunkSize
  /\ metrics = NoMetrics
  /\ queue = [l \in Lane |-> {}]
  /\ inflight = NoInflight
  /\ out = {}
  /\ call = "none"
  /\ step = 0
  /\ draft = FreshImage
  /\ file = "absent"
  /\ disk = FreshImage

-----------------------------------------------------------------------------
(***************************************************************************)
(* What the desktop's workers report, over the lanes of the task's mode: a *)
(* chunk of the split in force when the worker started, with that chunk's  *)
(* length, left pending by the two lanes that share a file; or, for a      *)
(* small file sent inside a Wi-Fi bundle, chunk 0 with the length of the   *)
(* whole file.                                                             *)
(***************************************************************************)
WorkerLanes == CASE Mode = "AdbOnly"  -> {"Adb"}
                 [] Mode = "WifiOnly" -> {"Wifi"}
                 [] Mode = "Dual"     -> Lane

ReportChunk(l) ==
  \E c \in SplitAll(NFiles, chunkSize) :
    LET length == Length(FileSize[c[1]], chunkSize, c[2])
    IN  \/ RecordRealChunkCommit(c, length, l, TRUE)
        \/ Mode = "Dual" /\ RecordRealChunkCommit(c, length, l, FALSE)

ReportBundledFile ==
  /\ Mode = "Dual"
  /\ \E f \in File :
       ~ IsLarge(f, Threshold) /\ RecordRealChunkCommit(<<f, 0>>, FileSize[f], "Wifi", TRUE)

UserStep ==
  \/ CreateTask \/ CreateOrRecoverTask \/ RecoverTask
  \/ PauseTask \/ ResumeTask \/ CancelTask \/ RetryTask
  \/ DeleteTaskRecord
  \/ \E size \in ChunkSizes : ReconfigureTaskChunkSize(size)

TickStep == TickTask \/ TickChunk \/ TickEnd

WorkerStep ==
  \/ \E l \in WorkerLanes :
       ReportChunk(l) \/ \E f \in File : RecordRealFileComplete(f, l)
  \/ ReportBundledFile
  \/ \E f \in File : RecordUnknownFile(f)
  \/ RecordTaskFailure

LeaseStep ==
  \/ \E l \in Lane : LeaseRealChunk(l)
  \/ \E lease \in out : CompleteRealChunkLease(lease)

StoreStep == Save \/ Insert \/ SaveFails

Next == UserStep \/ TickStep \/ WorkerStep \/ LeaseStep \/ StoreStep \/ Crash

Spec == Init /\ [][Next]_vars
=============================================================================

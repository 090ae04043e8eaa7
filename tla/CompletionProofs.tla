--------------------------- MODULE CompletionProofs ---------------------------
(***************************************************************************)
(* Completed means complete: for every number of files, every file size,   *)
(* mode, limit and every failure of the store that leaves files whole, if  *)
(* the chunk size of the task never changes.  (With cut files, or after a  *)
(* resize, it is not so: see the README.)                                  *)
(***************************************************************************)
EXTENDS EngineProofs, Delivery

USE DEF Lane

Whole == SplitAll(files, chunkSize)
Leased == {x.chunk : x \in out}

(***************************************************************************)
(* Three tests complete a task; the counts of AllDone need recorded chunks *)
(* to be of the split, and the scheduler's word is good if what is neither *)
(* queued nor leased has been recorded.                                    *)
(***************************************************************************)
TaskInOrder ==
  /\ done \subseteq Whole
  /\ Queued \cup Leased \subseteq Whole
  /\ Whole \subseteq done \cup Queued \cup Leased
  /\ state = "Completed" => Whole \subseteq done

ImageInOrder(img) ==
  LET whole == SplitAll(img.files, img.chunkSize)
  IN  /\ img.done \subseteq whole
      /\ img.state = "Completed" => whole \subseteq img.done

CompletionInOrder ==
  /\ loaded => TaskInOrder
  /\ call \in {"tick", "save"} => loaded
  /\ ImageInOrder(disk)
  /\ ImageInOrder(draft)

EngineInOrder == TypesAndTotals /\ LeasesInOrder /\ CompletionInOrder
-----------------------------------------------------------------------------
(***************************************************************************)
(* Recorded chunks of the split, as many as a file has, are all of it; as  *)
(* many of each file, all there are.                                       *)
(***************************************************************************)
LEMMA CountOfFileSuffices ==
  ASSUME files \in 0 .. NFiles, chunkSize \in Nat, NEW d \in SUBSET Whole,
         NEW f \in 0 .. (files - 1),
         Cardinality({c \in d : c[1] = f}) >= NumChunks(f, chunkSize)
  PROVE  Split(f, chunkSize) \subseteq d
<1> DEFINE mine == {c \in d : c[1] = f}
           S    == Split(f, chunkSize)
<1>1. f \in File
  BY ChunkingAssumption DEF File
<1>2. IsFiniteSet(S) /\ Cardinality(S) = NumChunks(f, chunkSize)
  BY <1>1, SplitCardinality
<1>3. mine \in SUBSET S
  <2> SUFFICES ASSUME NEW c \in d, c[1] = f PROVE c \in S
    OBVIOUS
  <2>1. PICK g \in 0 .. (files - 1) : c \in Split(g, chunkSize) /\ c[1] = g
    BY ChunkOfSplitAll DEF Whole
  <2> QED
    BY <2>1
<1>4. Cardinality(mine) >= NumChunks(f, chunkSize)
  BY DEF mine
<1> HIDE DEF mine, S
<1>5. IsFiniteSet(mine) /\ Cardinality(mine) <= Cardinality(S)
      /\ (Cardinality(mine) = Cardinality(S) => mine = S)
  BY <1>2, <1>3, FS_Subset
<1>6. Cardinality(mine) \in Nat /\ Cardinality(S) \in Nat
  BY <1>2, <1>5, FS_CardinalityType
<1>7. mine = S
  BY <1>2, <1>4, <1>5, <1>6
<1> QED
  BY <1>7 DEF mine, S

\* As many recorded chunks of each file as it has are all chunks.
LEMMA CountsSuffice ==
  ASSUME files \in 0 .. NFiles, chunkSize \in Nat,
         NEW d \in SUBSET Whole, AllDone(d)
  PROVE  Whole \subseteq d
  BY CountOfFileSuffices DEF Whole, SplitAll, AllDone

(***************************************************************************)
(* A scheduler that is drained has nothing out.                            *)
(***************************************************************************)
LEMMA DrainedMeansNothingLeased ==
  ASSUME LeasesInOrder, IsDrained
  PROVE  Queued = {} /\ Leased = {}
<1>1. ASSUME NEW l \in Lane PROVE OutOn(l) = {}
  <2>1. IsFiniteSet(OutOn(l)) /\ Cardinality(OutOn(l)) = 0
    BY OutOnIsFinite
    DEF LeasesInOrder, IsDrained, NoInflight, InflightCountsLeases, OutOn
  <2> QED
    BY <2>1, FS_EmptySet
<1>2. out = {}
  BY <1>1 DEF LeasesInOrder, SchedulerTypeOK, Lease, OutOn
<1> QED
  BY <1>2 DEF IsDrained, Leased

(***************************************************************************)
(* What is left is dealt, all of it.                                       *)
(***************************************************************************)
LEMMA AllIsDealt ==
  ASSUME NEW n, NEW chunkSz, NEW completed
  PROVE  LET q == DealQueues(n, chunkSz, completed)
         IN  q["Adb"] \cup q["Wifi"] = SplitAll(n, chunkSz) \ completed
<1> DEFINE left == SplitAll(n, chunkSz) \ completed
<1>1. ASSUME NEW c PROVE LaneOf(c, left) \in Lane
  BY SchedulerAssumption DEF LaneOf
<1> DEFINE laneOf(c) == LaneOf(c, left)
           q == [l \in Lane |-> {c \in left : laneOf(c) = l}]
<1>2. DealQueues(n, chunkSz, completed) = q
  BY DEF DealQueues
<1>3. \A c : laneOf(c) \in Lane
  BY <1>1
<1> HIDE DEF left, laneOf
<1>4. q["Adb"] \cup q["Wifi"] = left
  BY <1>3
<1> QED
  BY <1>2, <1>4 DEF left
-----------------------------------------------------------------------------
(***************************************************************************)
(* A report of progress: recorded chunks are of the split, nothing that is *)
(* neither queued nor leased is left out, and the counts decide.           *)
(***************************************************************************)
LEMMA CommitRecordsTheSplit ==
  ASSUME TypeOK, TaskInOrder,
         NEW S \in SUBSET SplitAll(NFiles, chunkSize), NEW l, NEW length,
         CommitChunks(S, l, length)
  PROVE  done \subseteq done' /\ done' \subseteq Whole /\ S \cap Whole \subseteq done'
<1>1. files \in 0 .. NFiles /\ chunkSize \in Nat
  BY ChunkingAssumption DEF TypeOK, TaskTypeOK
<1>2. done' = done \cup Fresh(S)
  BY DEF CommitChunks
<1>3. \A c \in S : c[1] < files <=> c \in Whole
  BY <1>1, SplitAllOfFewerFiles DEF Whole
<1> QED
  BY <1>2, <1>3 DEF Fresh, TaskInOrder

\* A report of chunks, queued, leased or neither.
LEMMA ReportKeepsTaskInOrder ==
  ASSUME TypeOK, TaskInOrder,
         NEW S \in SUBSET SplitAll(NFiles, chunkSize), NEW l, NEW length,
         CommitChunks(S, l, length),
         MarkCompletedIfDrained \/ state' = "Running",
         UNCHANGED <<files, chunkSize>>,
         Queued' \cup Leased' \subseteq Queued \cup Leased,
         Queued \cup Leased \subseteq Queued' \cup Leased' \cup S
  PROVE  TaskInOrder'
<1>1. done \subseteq done' /\ done' \subseteq Whole /\ S \cap Whole \subseteq done'
  BY CommitRecordsTheSplit
<1>2. Whole' = Whole
  BY DEF Whole
<1>3. state' = "Completed" => Whole \subseteq done'
  <2> SUFFICES ASSUME AllDone(done') PROVE Whole \subseteq done'
    BY DEF MarkCompletedIfDrained
  <2> QED
    BY <1>1, CountsSuffice, ChunkingAssumption DEF TypeOK, TaskTypeOK
<1> QED
  BY <1>1, <1>2, <1>3 DEF TaskInOrder

\* An operation that ends in persist.
LEMMA SaveKeepsCompletionInOrder ==
  ASSUME CompletionInOrder, loaded', TaskInOrder', BeginSave
  PROVE  CompletionInOrder'
  BY DEF CompletionInOrder, BeginSave, diskVars

(***************************************************************************)
(* A change of state alone.                                                *)
(***************************************************************************)
LEMMA OtherStateKeepsTaskInOrder ==
  ASSUME TaskInOrder,
         UNCHANGED <<files, done, chunkSize, schedVars>>,
         state' \in {state} \cup (TaskState \ {"Completed"})
  PROVE  TaskInOrder'
  BY DEF TaskInOrder, Whole, Queued, Leased, schedVars, TaskState

\* pause, resume, cancel, retry and record_task_failure.
LEMMA SetStateKeepsCompletionInOrder ==
  ASSUME CompletionInOrder, loaded, NEW s \in TaskState \ {"Completed"}, SetState(s)
  PROVE  CompletionInOrder'
<1>1. TaskInOrder'
  BY OtherStateKeepsTaskInOrder DEF SetState, CompletionInOrder
<1> QED
  BY <1>1, SaveKeepsCompletionInOrder DEF SetState

(***************************************************************************)
(* A scheduler that is built anew deals what has not been recorded.        *)
(***************************************************************************)
LEMMA BuiltIsInOrder ==
  ASSUME queue' = DealQueues(files', chunkSize', done'), out' = {},
         done' \subseteq Whole',
         state' = "Completed" => Whole' \subseteq done'
  PROVE  TaskInOrder'
<1>1. Queued' = Whole' \ done'
  BY AllIsDealt DEF Queued, Whole
<1>2. Leased' = {}
  BY DEF Leased
<1> QED
  BY <1>1, <1>2 DEF TaskInOrder

\* A new checkpoint records nothing.
LEMMA FreshImageInOrder == ImageInOrder(FreshImage)
  BY DEF ImageInOrder, FreshImage

\* A task that is not in the map is held to nothing.
LEMMA UnloadedIsInOrder ==
  ASSUME CompletionInOrder, loaded' = FALSE, call' \notin {"tick", "save"},
         disk' \in {disk, FreshImage}, draft' \in {draft, FreshImage}
  PROVE  CompletionInOrder'
  BY FreshImageInOrder DEF CompletionInOrder

\* create_task and recover_task, up to the save.
LEMMA BeginInsertKeepsCompletionInOrder ==
  ASSUME CompletionInOrder, NEW img, ImageInOrder(img), BeginInsert(img)
  PROVE  CompletionInOrder'
<1>1. loaded' => TaskInOrder'
  BY DEF BeginInsert, taskVars, schedVars, CompletionInOrder, TaskInOrder, Whole, Queued, Leased
<1> QED
  BY <1>1 DEF BeginInsert, diskVars, CompletionInOrder
-----------------------------------------------------------------------------
\* The operations of the user, on a chunk size that stays.
LEMMA UserStepKeepsCompletionInOrder ==
  ASSUME NEW k, ChunkSizes = {k}, EngineInOrder, UserStep
  PROVE  CompletionInOrder'
<1> USE DEF EngineInOrder
<1>1. CASE CreateTask \/ CreateOrRecoverTask
  BY <1>1, FreshImageInOrder, BeginInsertKeepsCompletionInOrder
  DEF CreateTask, CreateOrRecoverTask
<1>2. CASE RecoverTask
  <2> DEFINE img == [disk EXCEPT !.state = ResumedState(disk.state)]
  <2>1. ImageInOrder(img)
    BY DEF TypesAndTotals, TypeOK, DiskTypeOK, Image, ResumedState, ImageInOrder,
           CompletionInOrder
  <2> QED
    BY <1>2, <2>1, BeginInsertKeepsCompletionInOrder DEF RecoverTask
<1>3. CASE PauseTask \/ ResumeTask \/ CancelTask \/ RetryTask
  BY <1>3, SetStateKeepsCompletionInOrder
  DEF PauseTask, ResumeTask, CancelTask, RetryTask, TaskState
<1>4. CASE DeleteTaskRecord
  BY <1>4, UnloadedIsInOrder DEF DeleteTaskRecord, Unload, Free, callVars, diskVars
<1>5. ASSUME NEW size \in ChunkSizes, ReconfigureTaskChunkSize(size)
      PROVE  CompletionInOrder'
  <2>1. AtLeastOne(size) = chunkSize
    BY RaisedSizeType DEF TypesAndTotals, TypeOK, TaskTypeOK
  <2>2. /\ loaded /\ loaded'
        /\ queue' = DealQueues(files', chunkSize', done')
        /\ out' = {}
        /\ UNCHANGED <<state, files, done, chunkSize>>
        /\ BeginSave
    BY <1>5, <2>1 DEF ReconfigureTaskChunkSize, MemoryImage
  <2>3. done' \subseteq Whole' /\ (state' = "Completed" => Whole' \subseteq done')
    BY <2>2 DEF CompletionInOrder, TaskInOrder, Whole
  <2>4. TaskInOrder'
    BY <2>2, <2>3, BuiltIsInOrder
  <2> QED
    BY <2>2, <2>4, SaveKeepsCompletionInOrder
<1> QED
  BY <1>1, <1>2, <1>3, <1>4, <1>5 DEF UserStep

\* tick_task: it completes the task on the scheduler's word.
LEMMA TickStepKeepsCompletionInOrder ==
  ASSUME EngineInOrder, TickStep
  PROVE  CompletionInOrder'
<1> USE DEF EngineInOrder, TypesAndTotals
<1>1. CASE TickTask
  <2>1. TaskInOrder'
    BY <1>1, OtherStateKeepsTaskInOrder DEF TickTask, CompletionInOrder, TaskState
  <2> QED
    BY <1>1, <2>1 DEF TickTask, CompletionInOrder, diskVars
<1>2. CASE TickChunk
  <2>1. loaded /\ TaskInOrder
    BY <1>2 DEF TickChunk, CompletionInOrder
  <2>2. PICK lease \in TickOffer :
          /\ CommitChunks({lease.chunk}, lease.lane, SplitLength({lease.chunk}))
          /\ queue' = PopFront(lease)
    BY <1>2 DEF TickChunk
  <2>3. lease.lane \in Lane /\ lease.chunk \in queue[lease.lane]
    BY <2>2, OfferIsQueued DEF TickOffer, LeasesInOrder, Lease
  <2>4. Queued' = Queued \ {lease.chunk} /\ out' = out
    <3>1. /\ queue' = [queue EXCEPT ![lease.lane] = @ \ {lease.chunk}]
          /\ queue \in [Lane -> SUBSET Chunk]
          /\ queue["Adb"] \cap queue["Wifi"] = {}
      BY <2>2 DEF PopFront, LeasesInOrder, SchedulerTypeOK, NoChunkTwice
    <3> QED
      BY <1>2, <2>3, <3>1 DEF TickChunk, Queued
  <2>5. {lease.chunk} \subseteq Whole
    BY <2>1, <2>3 DEF TaskInOrder, Queued
  <2>6. UNCHANGED <<loaded, state, files, chunkSize, call, draft, disk>>
    BY <1>2 DEF TickChunk, diskVars
  <2>7. {lease.chunk} \in SUBSET SplitAll(NFiles, chunkSize)
    BY <2>5, ChunkingAssumption DEF Whole, SplitAll, TypeOK, TaskTypeOK
  <2>8. done \subseteq done' /\ done' \subseteq Whole /\ {lease.chunk} \subseteq done'
    BY <2>1, <2>2, <2>5, <2>7, CommitRecordsTheSplit
  <2>9. TaskInOrder'
    BY <2>1, <2>4, <2>6, <2>8 DEF TaskInOrder, Whole, Leased
  <2> QED
    BY <2>6, <2>9 DEF CompletionInOrder
<1>3. CASE TickEnd
  <2>1. loaded /\ TaskInOrder
    BY <1>3 DEF TickEnd, CompletionInOrder
  <2>2. /\ UNCHANGED <<loaded, files, done, chunkSize, schedVars>> /\ BeginSave
        /\ state' = IF IsDrained THEN "Completed" ELSE state
    BY <1>3 DEF TickEnd
  <2>3. TaskInOrder'
    <3>1. CASE IsDrained
      <4>1. Whole \subseteq done
        BY <2>1, <3>1, DrainedMeansNothingLeased DEF TaskInOrder
      <4> QED
        BY <2>1, <2>2, <4>1 DEF TaskInOrder, Whole, Queued, Leased, schedVars
    <3>2. CASE ~ IsDrained
      BY <2>1, <2>2, <3>2, OtherStateKeepsTaskInOrder
    <3> QED
      BY <3>1, <3>2
  <2> QED
    BY <2>1, <2>2, <2>3, SaveKeepsCompletionInOrder
<1> QED
  BY <1>1, <1>2, <1>3 DEF TickStep

\* The reports of the workers, whole, pending and bundled.
LEMMA WorkerStepKeepsCompletionInOrder ==
  ASSUME EngineInOrder, WorkerStep
  PROVE  CompletionInOrder'
<1> USE DEF EngineInOrder, TypesAndTotals
<1>1. chunkSize \in Nat /\ NFiles \in 0 .. NFiles
  BY ChunkingAssumption DEF TypeOK, TaskTypeOK
<1>2. UNCHANGED schedVars => Queued' = Queued /\ Leased' = Leased
  BY DEF schedVars, Queued, Leased
<1>3. ASSUME NEW c \in SplitAll(NFiles, chunkSize), NEW length, NEW l, NEW markCompleted,
             RecordRealChunkCommit(c, length, l, markCompleted)
      PROVE  CompletionInOrder'
  <2>1. loaded /\ loaded' /\ TaskInOrder
    BY <1>3 DEF RecordRealChunkCommit, CanRecord, CompletionInOrder
  <2>2. TaskInOrder'
    BY <1>2, <1>3, <2>1, ReportKeepsTaskInOrder DEF RecordRealChunkCommit
  <2> QED
    BY <1>3, <2>1, <2>2, SaveKeepsCompletionInOrder DEF RecordRealChunkCommit
<1>4. ASSUME NEW f \in File, NEW l, RecordRealFileComplete(f, l)
      PROVE  CompletionInOrder'
  <2>1. loaded /\ loaded' /\ TaskInOrder
    BY <1>4 DEF RecordRealFileComplete, CanRecord, CompletionInOrder
  <2>2. Split(f, chunkSize) \in SUBSET SplitAll(NFiles, chunkSize)
    BY DEF SplitAll, File
  <2>3. TaskInOrder'
    BY <1>2, <1>4, <2>1, <2>2, ReportKeepsTaskInOrder DEF RecordRealFileComplete
  <2> QED
    BY <1>4, <2>1, <2>3, SaveKeepsCompletionInOrder DEF RecordRealFileComplete
<1>5. ASSUME NEW l, ReportChunk(l)
      PROVE  CompletionInOrder'
  BY <1>3, <1>5 DEF ReportChunk
<1>6. CASE ReportBundledFile
  <2>1. PICK f \in File : RecordRealChunkCommit(<<f, 0>>, FileSize[f], "Wifi", TRUE)
    BY <1>6 DEF ReportBundledFile
  <2>2. NumChunks(f, chunkSize) \in Nat \ {0}
    BY <1>1, ChunkingAssumption, ChunkCountIsPositive DEF NumChunks
  <2>3. <<f, 0>> \in Split(f, chunkSize)
    BY <2>2 DEF Split
  <2>4. <<f, 0>> \in SplitAll(NFiles, chunkSize)
    BY <2>3 DEF SplitAll, File
  <2> QED
    BY <1>3, <2>1, <2>4
<1>7. ASSUME NEW f, RecordUnknownFile(f)
      PROVE  CompletionInOrder'
  <2>1. loaded /\ TaskInOrder
    BY <1>7 DEF RecordUnknownFile, CanRecord, CompletionInOrder
  <2>2. TaskInOrder'
    BY <1>7, <2>1, OtherStateKeepsTaskInOrder DEF RecordUnknownFile, TaskState
  <2> QED
    BY <1>7, <2>1, <2>2 DEF RecordUnknownFile, CompletionInOrder, callVars, diskVars
<1>8. CASE RecordTaskFailure
  BY <1>8, SetStateKeepsCompletionInOrder DEF RecordTaskFailure, TaskState
<1> QED
  BY <1>4, <1>5, <1>6, <1>7, <1>8 DEF WorkerStep

\* Leases, given and completed.
LEMMA LeaseStepKeepsCompletionInOrder ==
  ASSUME EngineInOrder, LeaseStep
  PROVE  CompletionInOrder'
<1> USE DEF EngineInOrder, TypesAndTotals
<1>1. ASSUME NEW l \in Lane, LeaseRealChunk(l)
      PROVE  CompletionInOrder'
  <2>1. /\ loaded /\ TaskInOrder /\ state' = "Running"
        /\ UNCHANGED <<loaded, files, done, chunkSize>>
    BY <1>1 DEF LeaseRealChunk, CanRecord, CompletionInOrder
  <2>2. TaskInOrder'
    <3>1. CASE LeaseNext(l)
      <4>1. PICK lease \in Offer(l) : queue' = PopFront(lease) /\ out' = out \cup {lease}
        BY <3>1 DEF LeaseNext
      <4>2. lease.lane \in Lane /\ lease.chunk \in queue[lease.lane]
        BY <4>1, OfferIsQueued DEF LeasesInOrder, Lease
      <4>3. Queued' = Queued \ {lease.chunk} /\ lease.chunk \in Queued
        <5>1. /\ queue' = [queue EXCEPT ![lease.lane] = @ \ {lease.chunk}]
              /\ queue \in [Lane -> SUBSET Chunk]
              /\ queue["Adb"] \cap queue["Wifi"] = {}
          BY <4>1 DEF PopFront, LeasesInOrder, SchedulerTypeOK, NoChunkTwice
        <5> QED
          BY <4>2, <5>1 DEF Queued
      <4>4. Leased' = Leased \cup {lease.chunk}
        BY <4>1 DEF Leased
      <4> QED
        BY <2>1, <4>3, <4>4 DEF TaskInOrder, Whole
    <3>2. CASE UNCHANGED schedVars
      BY <2>1, <3>2, OtherStateKeepsTaskInOrder DEF TaskState
    <3> QED
      BY <1>1, <3>1, <3>2 DEF LeaseRealChunk
  <2> QED
    BY <1>1, <2>1, <2>2 DEF LeaseRealChunk, CompletionInOrder, callVars, diskVars
<1>2. ASSUME NEW lease \in out, CompleteRealChunkLease(lease)
      PROVE  CompletionInOrder'
  <2>1. loaded /\ loaded' /\ TaskInOrder
    BY <1>2 DEF CompleteRealChunkLease, CanRecord, CompletionInOrder
  <2>2. Queued' = Queued /\ out' = out \ {lease}
    BY <1>2 DEF CompleteRealChunkLease, Complete, Queued
  <2>3. Leased' \subseteq Leased /\ Leased \subseteq Leased' \cup {lease.chunk}
    BY <2>2 DEF Leased
  <2>4. {lease.chunk} \in SUBSET SplitAll(NFiles, chunkSize)
    <3>1. lease.chunk \in Whole
      BY <2>1 DEF TaskInOrder, Leased
    <3> QED
      BY <3>1, ChunkingAssumption DEF Whole, SplitAll, TypeOK, TaskTypeOK
  <2>5. TaskInOrder'
    BY <1>2, <2>1, <2>2, <2>3, <2>4, ReportKeepsTaskInOrder DEF CompleteRealChunkLease
  <2> QED
    BY <1>2, <2>1, <2>5, SaveKeepsCompletionInOrder DEF CompleteRealChunkLease
<1> QED
  BY <1>1, <1>2 DEF LeaseStep

\* What persist writes is as much in order as the task in memory.
LEMMA MemoryImageInOrder ==
  ASSUME TaskInOrder
  PROVE  ImageInOrder(MemoryImage)
  BY DEF TaskInOrder, Whole, ImageInOrder, MemoryImage

\* Saves and insertions that end, or fail, when no file is cut.
LEMMA StoreStepKeepsCompletionInOrder ==
  ASSUME TornWrites = FALSE, EngineInOrder, StoreStep
  PROVE  CompletionInOrder'
<1> USE DEF EngineInOrder
<1>1. UNCHANGED <<taskVars, schedVars>> => Whole' = Whole /\ (TaskInOrder => TaskInOrder')
  BY DEF taskVars, schedVars, TaskInOrder, Whole, Queued, Leased
<1>2. CASE Save
  <2>1. loaded /\ loaded' /\ TaskInOrder /\ TaskInOrder'
    BY <1>1, <1>2 DEF Save, CompletionInOrder, taskVars
  <2> QED
    BY <1>2, <2>1, MemoryImageInOrder, FreshImageInOrder
    DEF Save, WriteFile, Return, CompletionInOrder
<1>3. CASE Insert
  <2>1. /\ ImageInOrder(draft)
        /\ queue' = DealQueues(files', chunkSize', done')
        /\ out' = {}
        /\ state' = draft.state /\ files' = draft.files
        /\ done' = draft.done /\ chunkSize' = draft.chunkSize
    BY <1>3 DEF Insert, Load, CompletionInOrder
  <2>2. TaskInOrder'
    BY <2>1, BuiltIsInOrder DEF ImageInOrder, Whole
  <2> QED
    BY <1>3, <2>1, <2>2, FreshImageInOrder DEF Insert, WriteFile, Return, CompletionInOrder
<1>4. CASE SaveFails
  <2>1. UNCHANGED disk
    BY <1>4 DEF SaveFails, WriteStopped, diskVars
  <2>2. loaded' = loaded
    BY <1>4 DEF SaveFails, taskVars
  <2> QED
    BY <1>1, <1>4, <2>1, <2>2, FreshImageInOrder DEF SaveFails, Return, CompletionInOrder
<1> QED
  BY <1>2, <1>3, <1>4 DEF StoreStep

\* An exit leaves the old file or the new one.
LEMMA CrashKeepsCompletionInOrder ==
  ASSUME TornWrites = FALSE, EngineInOrder, Crash
  PROVE  CompletionInOrder'
<1>1. UNCHANGED disk
  BY DEF Crash, WriteStopped, diskVars
<1> QED
  BY <1>1, UnloadedIsInOrder DEF Crash, Unload, Return, EngineInOrder

\* Every step keeps the types, the leases and the recorded chunks in order.
LEMMA NextKeepsEngineInOrder ==
  ASSUME TornWrites = FALSE, NEW k, ChunkSizes = {k}
  PROVE  EngineInOrder /\ [Next]_vars => EngineInOrder'
<1> SUFFICES ASSUME EngineInOrder, [Next]_vars PROVE EngineInOrder'
  OBVIOUS
<1>1. TypesAndTotals'
  BY NextKeepsTypesAndTotals DEF EngineInOrder
<1>2. CASE Next
  <2>1. LeasesInOrder'
    BY <1>2, StepKeepsLeasesInOrder DEF EngineInOrder, TypesAndTotals
  <2>2. CompletionInOrder'
    BY <1>2, UserStepKeepsCompletionInOrder, TickStepKeepsCompletionInOrder,
       WorkerStepKeepsCompletionInOrder, LeaseStepKeepsCompletionInOrder,
       StoreStepKeepsCompletionInOrder, CrashKeepsCompletionInOrder DEF Next
  <2> QED
    BY <1>1, <2>1, <2>2 DEF EngineInOrder
<1>3. CASE UNCHANGED vars
  <2>1. LeasesInOrder'
    BY <1>3, IdleKeepsOrder DEF vars, EngineInOrder
  <2>2. CompletionInOrder'
    BY <1>3 DEF vars, taskVars, schedVars, callVars, diskVars, EngineInOrder,
                CompletionInOrder, TaskInOrder, Whole, Queued, Leased
  <2> QED
    BY <1>1, <2>1, <2>2 DEF EngineInOrder
<1> QED
  BY <1>2, <1>3

\* The engine starts in order.
LEMMA InitEngineInOrder == Init => EngineInOrder
<1> SUFFICES ASSUME Init PROVE EngineInOrder
  OBVIOUS
<1>1. LeasesInOrder
  BY BuiltInOrder DEF Init, JustBuilt
<1>2. CompletionInOrder
  BY FreshImageInOrder DEF Init, CompletionInOrder
<1> QED
  BY <1>1, <1>2, InitTypesAndTotals DEF EngineInOrder
-----------------------------------------------------------------------------
(***************************************************************************)
(* A task is Completed, in memory and on file, only with every chunk of    *)
(* every file recorded: whichever of tick_task, the report of a chunk, of  *)
(* a file or of a lease completes it, in whatever order they come from how *)
(* many workers, through crashes, failed writes, recoveries and retries.   *)
(* The chunk size must stay and writes must be whole: the runs             *)
(* misread_checkpoint and, for a resize, the README show what happens      *)
(* otherwise.                                                              *)
(***************************************************************************)
THEOREM CompletedIsComplete ==
  ASSUME TornWrites = FALSE, NEW k, ChunkSizes = {k}
  PROVE  Spec => []CompletedMeansAllRecorded
<1>1. EngineInOrder => CompletedMeansAllRecorded
  BY DEF EngineInOrder, CompletionInOrder, TaskInOrder, ImageInOrder, Whole,
         CompletedMeansAllRecorded
<1> QED
  BY <1>1, InitEngineInOrder, NextKeepsEngineInOrder, PTL DEF Spec
-----------------------------------------------------------------------------
(***************************************************************************)
(* What recoverable_tasks needs besides: a task that runs is not taken for *)
(* cancelled.                                                              *)
(***************************************************************************)
RunningIsNotCancelled ==
  loaded /\ Free /\ state = "Running" => disk.state # "Cancelled"

\* Nothing is claimed of a task while an operation is under way.
LEMMA BusyIsNotCancelled ==
  ASSUME call' # "none"
  PROVE  RunningIsNotCancelled'
  BY DEF RunningIsNotCancelled, Free

\* Once an operation has been saved, memory is as cancelled as the file.
LEMMA StepKeepsRunningIsNotCancelled ==
  ASSUME IoErrors = FALSE, ProgressIsDurable, RunningIsNotCancelled, Next
  PROVE  RunningIsNotCancelled'
<1>1. CASE UserStep
  <2>1. CASE CreateTask \/ CreateOrRecoverTask \/ RecoverTask
    BY <2>1, BusyIsNotCancelled DEF CreateTask, CreateOrRecoverTask, RecoverTask, BeginInsert
  <2>2. CASE PauseTask \/ ResumeTask \/ CancelTask \/ RetryTask
    BY <2>2, BusyIsNotCancelled
    DEF PauseTask, ResumeTask, CancelTask, RetryTask, SetState, BeginSave
  <2>3. CASE DeleteTaskRecord
    BY <2>3 DEF DeleteTaskRecord, Unload, RunningIsNotCancelled
  <2>4. ASSUME NEW size \in ChunkSizes, ReconfigureTaskChunkSize(size)
        PROVE  RunningIsNotCancelled'
    BY <2>4, BusyIsNotCancelled DEF ReconfigureTaskChunkSize, BeginSave
  <2> QED
    BY <1>1, <2>1, <2>2, <2>3, <2>4 DEF UserStep
<1>2. CASE TickStep
  BY <1>2, BusyIsNotCancelled DEF TickStep, TickTask, TickChunk, TickEnd, BeginSave
<1>3. CanRecord => disk.state # "Cancelled"
  BY DEF CanRecord, ProgressIsDurable, RunningIsNotCancelled
<1>4. CASE WorkerStep
  <2>1. ASSUME NEW c, NEW length, NEW l, NEW markCompleted,
               RecordRealChunkCommit(c, length, l, markCompleted)
        PROVE  RunningIsNotCancelled'
    BY <2>1, BusyIsNotCancelled DEF RecordRealChunkCommit, BeginSave
  <2>2. ASSUME NEW f, NEW l, RecordRealFileComplete(f, l)
        PROVE  RunningIsNotCancelled'
    BY <2>2, BusyIsNotCancelled DEF RecordRealFileComplete, BeginSave
  <2>3. ASSUME NEW f, RecordUnknownFile(f)
        PROVE  RunningIsNotCancelled'
    BY <1>3, <2>3 DEF RecordUnknownFile, RunningIsNotCancelled, diskVars
  <2>4. CASE RecordTaskFailure
    BY <2>4, BusyIsNotCancelled DEF RecordTaskFailure, SetState, BeginSave
  <2>5. ASSUME NEW l, ReportChunk(l)
        PROVE  RunningIsNotCancelled'
    BY <2>1, <2>5 DEF ReportChunk
  <2>6. CASE ReportBundledFile
    BY <2>1, <2>6 DEF ReportBundledFile
  <2> QED
    BY <1>4, <2>2, <2>3, <2>4, <2>5, <2>6 DEF WorkerStep
<1>5. CASE LeaseStep
  <2>1. ASSUME NEW l, LeaseRealChunk(l)
        PROVE  RunningIsNotCancelled'
    BY <1>3, <2>1 DEF LeaseRealChunk, RunningIsNotCancelled, diskVars
  <2>2. ASSUME NEW lease, CompleteRealChunkLease(lease)
        PROVE  RunningIsNotCancelled'
    BY <2>2, BusyIsNotCancelled DEF CompleteRealChunkLease, BeginSave
  <2> QED
    BY <1>5, <2>1, <2>2 DEF LeaseStep
<1>6. CASE StoreStep
  <2>1. CASE Save
    BY <2>1 DEF Save, WriteFile, MemoryImage, taskVars, RunningIsNotCancelled
  <2>2. CASE Insert
    BY <2>2 DEF Insert, WriteFile, Load, RunningIsNotCancelled
  <2>3. ~ SaveFails
    BY DEF SaveFails
  <2> QED
    BY <1>6, <2>1, <2>2, <2>3 DEF StoreStep
<1>7. CASE Crash
  BY <1>7 DEF Crash, Unload, RunningIsNotCancelled
<1> QED
  BY <1>1, <1>2, <1>4, <1>5, <1>6, <1>7 DEF Next

(***************************************************************************)
(* recoverable_tasks never hides an unfinished task: one whose file says   *)
(* Completed or Cancelled is cancelled in memory too or has every chunk    *)
(* recorded, whenever the engine is free.                                  *)
(***************************************************************************)
THEOREM UnfinishedIsRecoverable ==
  ASSUME IoErrors = FALSE, TornWrites = FALSE, NEW k, ChunkSizes = {k}
  PROVE  Spec => []UnfinishedStaysRecoverable
<1>1. Init => RunningIsNotCancelled
  BY DEF Init, RunningIsNotCancelled
<1>2. ProgressIsDurable /\ RunningIsNotCancelled /\ [Next]_vars => RunningIsNotCancelled'
  <2> SUFFICES ASSUME ProgressIsDurable, RunningIsNotCancelled, [Next]_vars
               PROVE  RunningIsNotCancelled'
    OBVIOUS
  <2>1. CASE Next
    BY <2>1, StepKeepsRunningIsNotCancelled
  <2>2. CASE UNCHANGED vars
    BY <2>2 DEF vars, taskVars, callVars, diskVars, RunningIsNotCancelled, Free
  <2> QED
    BY <2>1, <2>2
<1>3. ProgressIsDurable /\ RunningIsNotCancelled /\ CompletedMeansAllRecorded
        => UnfinishedStaysRecoverable
  BY DEF ProgressIsDurable, RunningIsNotCancelled, CompletedMeansAllRecorded,
         UnfinishedStaysRecoverable
<1> QED
  BY <1>1, <1>2, <1>3, ProgressDurable, CompletedIsComplete, PTL DEF Spec
-----------------------------------------------------------------------------
(***************************************************************************)
(* What the chunks the desktop counts on stand for: their bytes have been  *)
(* sent or found.  That goes for the recorded chunks, in memory, on file   *)
(* and in an entry about to be inserted, all of which list every file of   *)
(* the task, and for those the workers have been through, which are of the *)
(* split.                                                                  *)
(***************************************************************************)
Covered(img) == img.files = NFiles /\ BytesOf(img.done, img.chunkSize) \subseteq covered

RecordsInOrder ==
  /\ loaded => files = NFiles /\ BytesOf(done, chunkSize) \subseteq covered
  /\ Covered(disk)
  /\ Covered(draft)

DealtInOrder ==
  \A size \in ChunkSizes :
    dealt \subseteq SplitAll(NFiles, size) /\ BytesOf(dealt, size) \subseteq covered

DeliveryInOrder == RecordsInOrder /\ DealtInOrder

(***************************************************************************)
(* A worker's step is a step of the engine, or one that leaves it alone.   *)
(***************************************************************************)
LEMMA DeliveryStepIsEngineStep ==
  ASSUME DeliveryNext
  PROVE  [Next]_vars
<1>1. CASE Control
  BY <1>1 DEF Control, Next, UserStep, WorkerStep, StoreStep
<1>2. CASE InsertTask
  BY <1>2 DEF InsertTask, Next, StoreStep
<1>3. CASE ProcessEnds
  BY <1>3 DEF ProcessEnds, Next
<1>4. ASSUME NEW l \in WorkerLanes, NEW c \in SplitAll(NFiles, chunkSize), DealWithChunk(l, c)
      PROVE  [Next]_vars
  <2> DEFINE length == Length(FileSize[c[1]], chunkSize, c[2])
  <2>1. CASE UNCHANGED vars
    BY <2>1
  <2>2. ASSUME NEW markCompleted \in {TRUE, Mode # "Dual"},
               RecordRealChunkCommit(c, length, l, markCompleted)
        PROVE  Next
    <3>1. \/ RecordRealChunkCommit(c, length, l, TRUE)
          \/ Mode = "Dual" /\ RecordRealChunkCommit(c, length, l, FALSE)
      <4>1. CASE markCompleted = TRUE
        BY <2>2, <4>1
      <4>2. CASE markCompleted = FALSE /\ Mode = "Dual"
        BY <2>2, <4>2
      <4> QED
        BY <4>1, <4>2
    <3>2. ReportChunk(l)
      BY <3>1 DEF ReportChunk
    <3> QED
      BY <3>2 DEF WorkerStep, Next
  <2> QED
    BY <1>4, <2>1, <2>2 DEF DealWithChunk
<1>5. ASSUME NEW l \in WorkerLanes, NEW f \in File, FinishFile(f, l)
      PROVE  WorkerStep
  BY <1>5 DEF FinishFile, WorkerStep
<1>6. CASE SendBundledFile
  <2>1. "Wifi" \in WorkerLanes
    BY <1>6 DEF SendBundledFile, WorkerLanes
  <2>2. PICK f \in File :
          /\ ~ IsLarge(f, Threshold)
          /\ \/ RecordRealChunkCommit(<<f, 0>>, FileSize[f], "Wifi", TRUE)
             \/ RecordRealFileComplete(f, "Wifi")
    BY <1>6 DEF SendBundledFile
  <2>3. Mode = "Dual"
    BY <1>6 DEF SendBundledFile
  <2>4. CASE RecordRealChunkCommit(<<f, 0>>, FileSize[f], "Wifi", TRUE)
    BY <2>2, <2>3, <2>4 DEF ReportBundledFile, WorkerStep, Next
  <2>5. CASE RecordRealFileComplete(f, "Wifi")
    BY <2>1, <2>5 DEF WorkerStep, Next
  <2> QED
    BY <2>2, <2>4, <2>5
<1>7. CASE FindFile
  <2>1. "Adb" \in WorkerLanes
    BY <1>7, SchedulerAssumption DEF FindFile, WorkerLanes
  <2>2. PICK f \in File : RecordRealFileComplete(f, "Adb")
    BY <1>7 DEF FindFile
  <2> QED
    BY <2>1, <2>2 DEF WorkerStep, Next
<1>8. CASE StartWorkers
  BY <1>8 DEF StartWorkers
<1>9. CASE WorkersStep
  BY <1>4, <1>5, <1>6, <1>7, <1>8, <1>9 DEF WorkersStep, Next
<1> QED
  BY <1>1, <1>2, <1>3, <1>9 DEF DeliveryNext

(***************************************************************************)
(* What is covered stays covered.                                          *)
(***************************************************************************)
LEMMA FreshImageCovered == Covered(FreshImage) /\ Covered(FreshImage)'
  BY DEF Covered, FreshImage, BytesOf

\* What has been covered for an image stays covered.
LEMMA CoveredGrows ==
  ASSUME RecordsInOrder, covered \subseteq covered',
         disk' \in {disk, FreshImage}, draft' \in {draft, FreshImage},
         loaded' => files' = NFiles /\ BytesOf(done', chunkSize') \subseteq covered'
  PROVE  RecordsInOrder'
<1>1. Covered(disk)'
  BY FreshImageCovered DEF RecordsInOrder, Covered
<1>2. Covered(draft)'
  BY FreshImageCovered DEF RecordsInOrder, Covered
<1> QED
  BY <1>1, <1>2 DEF RecordsInOrder

\* So does what the workers have been through.
LEMMA DealtStaysInOrder ==
  ASSUME DealtInOrder, dealt' = dealt, covered \subseteq covered'
  PROVE  DealtInOrder'
  BY DEF DealtInOrder

(***************************************************************************)
(* A report records chunks whose bytes are covered by then.                *)
(***************************************************************************)
LEMMA ReportKeepsRecordsInOrder ==
  ASSUME RecordsInOrder, CanRecord, NEW S, NEW l, NEW length,
         CommitChunks(S, l, length),
         UNCHANGED <<loaded, files, chunkSize>>, BeginSave,
         covered \subseteq covered',
         BytesOf(Fresh(S), chunkSize) \subseteq covered'
  PROVE  RecordsInOrder'
<1>1. files = NFiles /\ BytesOf(done, chunkSize) \subseteq covered
  BY DEF RecordsInOrder, CanRecord
<1>2. BytesOf(done \cup Fresh(S), chunkSize)
        = BytesOf(done, chunkSize) \cup BytesOf(Fresh(S), chunkSize)
  BY DEF BytesOf
<1>3. done' = done \cup Fresh(S) /\ files' = NFiles /\ chunkSize' = chunkSize
  BY <1>1 DEF CommitChunks
<1>4. BytesOf(done', chunkSize') \subseteq covered'
  BY <1>1, <1>2, <1>3
<1> QED
  BY <1>3, <1>4, CoveredGrows DEF BeginSave, diskVars

(***************************************************************************)
(* A file the workers have been through, as many chunks as its split has,  *)
(* has all of its bytes covered.                                           *)
(***************************************************************************)
LEMMA FinishedFileIsCovered ==
  ASSUME NEW k, ChunkSizes = {k}, TypeOK, DealtInOrder, files = NFiles,
         NEW f \in File, BeenThrough(f)
  PROVE  BytesOf(Fresh(Split(f, chunkSize)), chunkSize) \subseteq covered
<1>1. files \in 0 .. NFiles /\ chunkSize \in Nat /\ f \in 0 .. (files - 1) /\ chunkSize = k
  BY ChunkingAssumption DEF TypeOK, TaskTypeOK, File
<1>2. dealt \in SUBSET Whole /\ BytesOf(dealt, chunkSize) \subseteq covered
  BY <1>1 DEF DealtInOrder, Whole
<1>3. Split(f, chunkSize) \subseteq dealt
  BY <1>1, <1>2, CountOfFileSuffices DEF BeenThrough
<1> QED
  BY <1>2, <1>3 DEF Fresh, BytesOf

\* Commands send nothing and record nothing new.
LEMMA ControlKeepsRecordsInOrder ==
  ASSUME TornWrites = FALSE, NEW k, ChunkSizes = {k},
         EngineInOrder, RecordsInOrder, Control
  PROVE  RecordsInOrder'
<1>1. covered' = covered
  BY DEF Control, traceVars
<1>2. CASE CreateOrRecoverTask
  <2>1. UNCHANGED taskVars /\ UNCHANGED diskVars /\ draft' = FreshImage
    BY <1>2 DEF CreateOrRecoverTask, BeginInsert
  <2> QED
    BY <1>1, <2>1, CoveredGrows DEF taskVars, diskVars, RecordsInOrder
<1>3. CASE RecoverTask
  <2>1. /\ UNCHANGED taskVars /\ UNCHANGED diskVars
        /\ draft' = [disk EXCEPT !.state = ResumedState(disk.state)]
    BY <1>3 DEF RecoverTask, BeginInsert
  <2>2. disk \in Image
    BY DEF EngineInOrder, TypesAndTotals, TypeOK, DiskTypeOK
  <2>3. draft'.files = disk.files /\ draft'.done = disk.done /\ draft'.chunkSize = disk.chunkSize
    BY <2>1, <2>2 DEF Image
  <2>4. Covered(draft)'
    BY <1>1, <2>3 DEF Covered, RecordsInOrder
  <2> QED
    BY <1>1, <2>1, <2>4 DEF taskVars, diskVars, RecordsInOrder, Covered
<1>4. CASE DeleteTaskRecord
  BY <1>1, <1>4, CoveredGrows DEF DeleteTaskRecord, Unload, callVars, diskVars
<1>5. CASE PauseTask \/ ResumeTask \/ CancelTask \/ RetryTask \/ RecordTaskFailure
  <2>1. UNCHANGED <<loaded, files, done, chunkSize>> /\ BeginSave
    BY <1>5 DEF PauseTask, ResumeTask, CancelTask, RetryTask, RecordTaskFailure, SetState
  <2> QED
    BY <1>1, <2>1, CoveredGrows DEF BeginSave, diskVars, RecordsInOrder
<1>6. ASSUME NEW size \in ChunkSizes, ReconfigureTaskChunkSize(size)
      PROVE  RecordsInOrder'
  <2>1. AtLeastOne(size) = chunkSize
    BY RaisedSizeType DEF EngineInOrder, TypesAndTotals, TypeOK, TaskTypeOK
  <2>2. UNCHANGED <<loaded, files, done, chunkSize>> /\ BeginSave
    BY <1>6, <2>1 DEF ReconfigureTaskChunkSize
  <2> QED
    BY <1>1, <2>2, CoveredGrows DEF BeginSave, diskVars, RecordsInOrder
<1>7. CASE Save
  <2>1. loaded /\ UNCHANGED taskVars /\ disk' = MemoryImage /\ draft' = FreshImage
    BY <1>7 DEF Save, WriteFile, Return, EngineInOrder, CompletionInOrder
  <2>2. files = NFiles /\ BytesOf(done, chunkSize) \subseteq covered
    BY <2>1 DEF RecordsInOrder
  <2>3. Covered(MemoryImage)
    BY <2>2 DEF Covered, MemoryImage
  <2>4. disk'.files = NFiles /\ BytesOf(disk'.done, disk'.chunkSize) \subseteq covered
    BY <2>1, <2>3 DEF Covered
  <2>5. Covered(disk)'
    BY <1>1, <2>4 DEF Covered
  <2>6. Covered(draft)'
    BY <2>1, FreshImageCovered DEF Covered
  <2> QED
    BY <1>1, <2>1, <2>2, <2>5, <2>6 DEF RecordsInOrder, taskVars
<1>8. CASE SaveFails
  <2>1. UNCHANGED taskVars /\ UNCHANGED disk /\ draft' = FreshImage
    BY <1>8 DEF SaveFails, WriteStopped, diskVars, Return
  <2> QED
    BY <1>1, <2>1, CoveredGrows DEF taskVars, RecordsInOrder
<1> QED
  BY <1>2, <1>3, <1>4, <1>5, <1>6, <1>7, <1>8 DEF Control

\* Nor does the end of the process.
LEMMA ExitKeepsDeliveryInOrder ==
  ASSUME TornWrites = FALSE, DeliveryInOrder, ProcessEnds
  PROVE  DeliveryInOrder'
<1>1. loaded' = FALSE /\ UNCHANGED disk /\ draft' = FreshImage
  BY DEF ProcessEnds, Crash, Unload, WriteStopped, diskVars, Return
<1>2. RecordsInOrder'
  BY <1>1, CoveredGrows DEF ProcessEnds, DeliveryInOrder
<1>3. DealtInOrder'
  BY DEF ProcessEnds, DealtInOrder, BytesOf
<1> QED
  BY <1>2, <1>3 DEF DeliveryInOrder

\* A task built from a checkpoint has covered what the checkpoint records.
LEMMA InsertKeepsDeliveryInOrder ==
  ASSUME DeliveryInOrder, InsertTask
  PROVE  DeliveryInOrder'
<1>1. /\ files' = draft.files /\ done' = draft.done /\ chunkSize' = draft.chunkSize
      /\ disk' = draft /\ draft' = FreshImage
  BY DEF InsertTask, Insert, Load, WriteFile, Return
<1>2. draft.files = NFiles /\ BytesOf(draft.done, draft.chunkSize) \subseteq covered'
  <2>1. CASE draft = FreshImage
    BY <2>1, FreshImageCovered DEF Covered, FreshImage, BytesOf
  <2>2. CASE draft # FreshImage
    BY <2>2 DEF InsertTask, traceVars, DeliveryInOrder, RecordsInOrder, Covered
  <2> QED
    BY <2>1, <2>2
<1>3. Covered(disk)'
  BY <1>1, <1>2 DEF Covered
<1>4. Covered(draft)'
  BY <1>1, FreshImageCovered DEF Covered
<1>5. RecordsInOrder'
  BY <1>1, <1>2, <1>3, <1>4 DEF RecordsInOrder
<1>6. DealtInOrder'
  BY DEF InsertTask, traceVars, DeliveryInOrder, DealtInOrder, BytesOf
<1> QED
  BY <1>5, <1>6 DEF DeliveryInOrder

\* A run begins with what is recorded on file.
LEMMA StartKeepsDeliveryInOrder ==
  ASSUME NEW k, ChunkSizes = {k}, EngineInOrder, DeliveryInOrder, StartWorkers
  PROVE  DeliveryInOrder'
<1>1. RecordsInOrder'
  BY CoveredGrows
  DEF StartWorkers, vars, taskVars, callVars, diskVars, DeliveryInOrder, RecordsInOrder
<1>2. disk.done \subseteq SplitAll(disk.files, disk.chunkSize)
  BY DEF EngineInOrder, CompletionInOrder, ImageInOrder
<1>3. disk.files = NFiles /\ BytesOf(disk.done, disk.chunkSize) \subseteq covered
  BY DEF DeliveryInOrder, RecordsInOrder, Covered
<1>4. disk.chunkSize = k
  BY DEF EngineInOrder, TypesAndTotals, TypeOK, DiskTypeOK, Image
<1>5. dealt' \in {disk.done, {}} /\ covered' = covered
  BY DEF StartWorkers
<1>6. DealtInOrder'
  BY <1>2, <1>3, <1>4, <1>5 DEF DealtInOrder, BytesOf
<1> QED
  BY <1>1, <1>6 DEF DeliveryInOrder

\* A worker records what it has sent or found; a file it finishes is covered.
LEMMA WorkersKeepDeliveryInOrder ==
  ASSUME NEW k, ChunkSizes = {k}, EngineInOrder, DeliveryInOrder, WorkersStep
  PROVE  DeliveryInOrder'
<1> USE DEF DeliveryInOrder
<1>1. chunkSize \in Nat /\ chunkSize = k
  BY ChunkingAssumption DEF EngineInOrder, TypesAndTotals, TypeOK, TaskTypeOK
<1>2. ASSUME NEW l, NEW c \in SplitAll(NFiles, chunkSize), DealWithChunk(l, c)
      PROVE  DeliveryInOrder'
  <2>1. covered' = covered \cup BytesOf({c}, k) /\ dealt' = dealt \cup {c}
    BY <1>1, <1>2 DEF DealWithChunk
  <2>2. BytesOf(dealt \cup {c}, k) = BytesOf(dealt, k) \cup BytesOf({c}, k)
    BY DEF BytesOf
  <2>3. DealtInOrder'
    BY <1>1, <2>1, <2>2 DEF DealtInOrder
  <2>4. ASSUME UNCHANGED vars
        PROVE  RecordsInOrder'
    BY <2>1, <2>4, CoveredGrows DEF vars, taskVars, callVars, diskVars, RecordsInOrder
  <2>5. ASSUME NEW markCompleted, NEW length, RecordRealChunkCommit(c, length, l, markCompleted)
        PROVE  RecordsInOrder'
    <3>1. BytesOf(Fresh({c}), chunkSize) \subseteq covered'
      BY <1>1, <2>1 DEF Fresh, BytesOf
    <3> QED
      BY <2>1, <2>5, <3>1, ReportKeepsRecordsInOrder DEF RecordRealChunkCommit
  <2>6. RecordsInOrder'
    BY <1>2, <2>4, <2>5 DEF DealWithChunk
  <2> QED
    BY <2>3, <2>6
<1>3. ASSUME NEW l, NEW f \in File, FinishFile(f, l) PROVE DeliveryInOrder'
  <2>1. /\ BeenThrough(f) /\ RecordRealFileComplete(f, l) /\ covered' = covered
        /\ dealt' = dealt /\ CanRecord
    BY <1>3 DEF FinishFile, RecordRealFileComplete, traceVars
  <2>2. files = NFiles
    BY <2>1 DEF CanRecord, RecordsInOrder
  <2>3. BytesOf(Fresh(Split(f, chunkSize)), chunkSize) \subseteq covered'
    BY <2>1, <2>2, FinishedFileIsCovered DEF EngineInOrder, TypesAndTotals
  <2>4. RecordsInOrder'
    BY <2>1, <2>3, ReportKeepsRecordsInOrder DEF RecordRealFileComplete
  <2> QED
    BY <2>1, <2>4, DealtStaysInOrder
<1>4. ASSUME NEW f \in File, NEW l, covered' = covered \cup Bytes(f), dealt' = dealt,
             \/ RecordRealFileComplete(f, l)
             \/ RecordRealChunkCommit(<<f, 0>>, FileSize[f], l, TRUE)
      PROVE  DeliveryInOrder'
  <2>1. BytesOf(Split(f, chunkSize), chunkSize) = Bytes(f)
    BY <1>1, SplitCoversTheFile
  <2>2. ASSUME NEW S \in SUBSET Split(f, chunkSize)
        PROVE  BytesOf(Fresh(S), chunkSize) \subseteq covered'
    BY <1>4, <2>1 DEF Fresh, BytesOf
  <2>3. CASE RecordRealFileComplete(f, l)
    BY <1>4, <2>2, <2>3, ReportKeepsRecordsInOrder, DealtStaysInOrder
    DEF RecordRealFileComplete
  <2>4. CASE RecordRealChunkCommit(<<f, 0>>, FileSize[f], l, TRUE)
    <3>1. NumChunks(f, chunkSize) \in Nat \ {0}
      BY <1>1, ChunkingAssumption, ChunkCountIsPositive DEF NumChunks
    <3>2. {<<f, 0>>} \in SUBSET Split(f, chunkSize)
      BY <3>1 DEF Split
    <3> QED
      BY <1>4, <2>2, <2>4, <3>2, ReportKeepsRecordsInOrder, DealtStaysInOrder
      DEF RecordRealChunkCommit
  <2> QED
    BY <1>4, <2>3, <2>4
<1>5. CASE SendBundledFile
  BY <1>4, <1>5 DEF SendBundledFile
<1>6. CASE FindFile
  BY <1>4, <1>6 DEF FindFile
<1> QED
  BY <1>2, <1>3, <1>5, <1>6, StartKeepsDeliveryInOrder DEF WorkersStep

\* Every step of the engine with its workers keeps that order.
LEMMA DeliveryStepsKeepOrder ==
  ASSUME TornWrites = FALSE, NEW k, ChunkSizes = {k}
  PROVE  (EngineInOrder /\ DeliveryInOrder) /\ [DeliveryNext]_deliveryVars
           => (EngineInOrder /\ DeliveryInOrder)'
<1> SUFFICES ASSUME EngineInOrder, DeliveryInOrder, [DeliveryNext]_deliveryVars
             PROVE  EngineInOrder' /\ DeliveryInOrder'
  OBVIOUS
<1>1. [Next]_vars
  BY DeliveryStepIsEngineStep DEF deliveryVars
<1>2. EngineInOrder'
  BY <1>1, NextKeepsEngineInOrder
<1>3. DeliveryInOrder'
  <2>1. CASE Control
    <3>1. RecordsInOrder'
      BY <2>1, ControlKeepsRecordsInOrder DEF DeliveryInOrder
    <3>2. DealtInOrder'
      BY <2>1, DealtStaysInOrder DEF Control, traceVars, DeliveryInOrder
    <3> QED
      BY <3>1, <3>2 DEF DeliveryInOrder
  <2>2. CASE InsertTask \/ ProcessEnds \/ WorkersStep
    BY <2>2, InsertKeepsDeliveryInOrder, ExitKeepsDeliveryInOrder,
       WorkersKeepDeliveryInOrder
  <2>3. CASE UNCHANGED deliveryVars
    <3>1. RecordsInOrder'
      BY <2>3, CoveredGrows
      DEF deliveryVars, traceVars, vars, taskVars, callVars, diskVars, DeliveryInOrder,
          RecordsInOrder
    <3>2. DealtInOrder'
      BY <2>3, DealtStaysInOrder DEF deliveryVars, traceVars, DeliveryInOrder
    <3> QED
      BY <3>1, <3>2 DEF DeliveryInOrder
  <2> QED
    BY <2>1, <2>2, <2>3 DEF DeliveryNext
<1> QED
  BY <1>2, <1>3

\* And it holds at the start.
LEMMA DeliveryStartsInOrder == DeliveryInit => EngineInOrder /\ DeliveryInOrder
<1> SUFFICES ASSUME DeliveryInit PROVE EngineInOrder /\ DeliveryInOrder
  OBVIOUS
<1>1. EngineInOrder
  BY InitEngineInOrder DEF DeliveryInit
<1>2. RecordsInOrder
  BY FreshImageCovered DEF DeliveryInit, Init, RecordsInOrder
<1>3. DealtInOrder
  BY DEF DeliveryInit, DealtInOrder, BytesOf
<1> QED
  BY <1>1, <1>2, <1>3 DEF DeliveryInOrder
-----------------------------------------------------------------------------
(***************************************************************************)
(* A recorded chunk has been sent or found, in memory and on file, for all *)
(* files, sizes and modes and every interleaving of the two lanes, crash,  *)
(* failed write, resume and retry: a worker reports a chunk it has dealt   *)
(* with, and a file by its length or after all of its chunks, not merely   *)
(* after as many.                                                          *)
(***************************************************************************)
THEOREM RecordedMeansDealt ==
  ASSUME TornWrites = FALSE, NEW k, ChunkSizes = {k}
  PROVE  DeliverySpec => []RecordedChunksWereDealt
<1>1. EngineInOrder /\ DeliveryInOrder => RecordedChunksWereDealt
  BY DEF DeliveryInOrder, RecordsInOrder, Covered, RecordedChunksWereDealt
<1> QED
  BY <1>1, DeliveryStartsInOrder, DeliveryStepsKeepOrder, PTL DEF DeliverySpec

(***************************************************************************)
(* A Completed task has dealt with every byte of every file: all chunks of *)
(* the split are recorded, what is recorded was sent or found, and the     *)
(* split leaves no byte of a file out.                                     *)
(***************************************************************************)
THEOREM CompletedMeansDealt ==
  ASSUME TornWrites = FALSE, NEW k, ChunkSizes = {k}
  PROVE  DeliverySpec => []CompletedMeansAllBytesDealt
<1>1. EngineInOrder /\ DeliveryInOrder => CompletedMeansAllBytesDealt
  <2> SUFFICES ASSUME EngineInOrder, DeliveryInOrder, loaded, state = "Completed"
               PROVE  AllBytes \subseteq covered
    BY DEF CompletedMeansAllBytesDealt
  <2>1. chunkSize \in Nat
    BY ChunkingAssumption DEF EngineInOrder, TypesAndTotals, TypeOK, TaskTypeOK
  <2>2. SplitAll(NFiles, chunkSize) \subseteq done /\ BytesOf(done, chunkSize) \subseteq covered
    BY DEF EngineInOrder, CompletionInOrder, TaskInOrder, Whole, DeliveryInOrder, RecordsInOrder
  <2>3. BytesOf(SplitAll(NFiles, chunkSize), chunkSize) \subseteq covered
    BY <2>2 DEF BytesOf
  <2> QED
    BY <2>1, <2>3, SplitsCoverAllBytes
<1> QED
  BY <1>1, DeliveryStartsInOrder, DeliveryStepsKeepOrder, PTL DEF DeliverySpec
=============================================================================

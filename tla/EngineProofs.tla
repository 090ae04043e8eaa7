---------------------------- MODULE EngineProofs ----------------------------
(***************************************************************************)
(* Theorems about the engine, for every number of files, file size, set of *)
(* chunk sizes, mode and limit, and for every combination of faults unless *)
(* a theorem says otherwise.                                               *)
(***************************************************************************)
EXTENDS EngineProps, SchedulerProofs

MetricsType == [chunks : Nat, bytes : Nat, adb : Nat, wifi : Nat]

USE DEF Lane

(***************************************************************************)
(* What operators return.                                                  *)
(***************************************************************************)
LEMMA FreshImageType == FreshImage \in Image
  BY ChunkingAssumption, CheckpointAssumption
  DEF FreshImage, Image, TaskState, NoLaneRecord, LaneRecord

\* The chunk size in force is one of those configured.
LEMMA RaisedSizeType ==
  ASSUME NEW size \in ChunkSizes
  PROVE  AtLeastOne(size) \in ChunkSizes
  BY CheckpointAssumption DEF AtLeastOne

\* rebuild_metrics returns metrics.
LEMMA RebuildMetricsType ==
  ASSUME NEW img \in Image
  PROVE  RebuildMetrics(img) \in MetricsType
<1> DEFINE counted == img.done \cap SplitAll(img.files, img.chunkSize)
<1>1. img.files \in 0 .. NFiles /\ img.chunkSize \in Nat
  BY ChunkingAssumption DEF Image
<1>2. IsFiniteSet(SplitAll(img.files, img.chunkSize))
  BY <1>1, SplitAllIsFinite
<1>3. IsFiniteSet(counted)
  BY <1>2, FS_Intersection
<1>4. Cardinality(counted) \in Nat
  BY <1>3, FS_CardinalityType
<1> QED
  BY <1>4, BytesOfIsFinite DEF RebuildMetrics, MetricsType

\* The queues hold chunks.
LEMMA DealQueuesType ==
  ASSUME NEW n \in 0 .. NFiles, NEW chunkSz \in Nat, NEW completed
  PROVE  DealQueues(n, chunkSz, completed) \in [Lane -> SUBSET Chunk]
  BY SplitAllIsFinite DEF DealQueues

\* lease_next offers leases of queued chunks.
LEMMA OfferType ==
  ASSUME NEW l \in Lane, SchedulerTypeOK
  PROVE  /\ Offer(l) \subseteq Lease
         /\ \A lease \in Offer(l) : PopFront(lease) \in [Lane -> SUBSET Chunk]
<1>1. LeaseLane(l) \in Lane
  BY DEF LeaseLane, TryLane, OtherLane
<1>2. Front(queue[LeaseLane(l)]) \subseteq Chunk
  BY <1>1 DEF SchedulerTypeOK, Front
<1>3. Offer(l) \subseteq Lease
  BY <1>1, <1>2 DEF Offer, Lease
<1>4. ASSUME NEW lease \in Offer(l)
      PROVE  PopFront(lease) \in [Lane -> SUBSET Chunk]
  BY <1>3 DEF PopFront, SchedulerTypeOK, Lease
<1> QED
  BY <1>3, <1>4

\* The counters stay natural numbers: release saturates at zero.
LEMMA CountersType ==
  ASSUME NEW l \in Lane, SchedulerTypeOK
  PROVE  Charge(l) \in [Lane -> Nat] /\ Release(l) \in [Lane -> Nat]
  BY DEF Charge, Release, SchedulerTypeOK

\* The first lines of a checkpoint are a checkpoint.
LEMMA FilePrefixType ==
  ASSUME NEW img \in Image, NEW k \in 0 .. NFiles
  PROVE  FilePrefix(img, k) \in Image
  BY DEF FilePrefix, Image, LaneRecord

\* So are the lines a cut line may read as.
LEMMA DamagedLineType ==
  ASSUME NEW img \in Image, NEW k \in 0 .. (NFiles - 1)
  PROVE  DamagedLine(img, k) \subseteq Image
<1>1. k \in File /\ k \in 0 .. NFiles /\ k + 1 \in 0 .. NFiles
  BY ChunkingAssumption DEF File
<1> DEFINE kept        == FilePrefix(img, k)
           whole       == FilePrefix(img, k + 1)
           read(extra) == [kept EXCEPT !.files = k + 1, !.done = @ \cup extra]
           cut(bound)  == [whole EXCEPT !.via = [l \in Lane |->
                             {c \in whole.via[l] : c[1] < k \/ c[2] < bound}]]
           extras      == {{}} \cup {{<<k, i>>} : i \in TornIndices}
           bounds      == {0} \cup {c[2] + 1 : c \in whole.done}
<1>2. DamagedLine(img, k) = {read(extra) : extra \in extras} \cup {cut(bound) : bound \in bounds}
  BY DEF DamagedLine
<1>3. kept \in Image /\ whole \in Image
  BY <1>1, FilePrefixType
<1>4. ASSUME NEW extra \in extras PROVE read(extra) \in Image
  <2>1. extra \subseteq Chunk
    BY <1>1, CheckpointAssumption DEF Chunk
  <2> HIDE DEF kept
  <2> QED
    BY <1>1, <1>3, <2>1 DEF Image
<1>5. ASSUME NEW bound PROVE cut(bound) \in Image
  <2> HIDE DEF whole
  <2> QED
    BY <1>3 DEF Image, LaneRecord
<1> HIDE DEF read, cut, extras, bounds
<1> QED
  BY <1>2, <1>4, <1>5

\* Whatever a cut checkpoint reads as is a checkpoint.
LEMMA TornReadsType ==
  ASSUME NEW img \in Image
  PROVE  TornReads(img) \subseteq Image
<1>1. img.files \in 0 .. NFiles
  BY DEF Image
<1>2. ASSUME NEW k \in 0 .. img.files PROVE FilePrefix(img, k) \in Image
  BY <1>1, ChunkingAssumption, FilePrefixType
<1>3. ASSUME NEW k \in 0 .. (img.files - 1) PROVE DamagedLine(img, k) \subseteq Image
  BY <1>1, ChunkingAssumption, DamagedLineType
<1> QED
  BY <1>2, <1>3 DEF TornReads
-----------------------------------------------------------------------------
(***************************************************************************)
(* What the shared parts of the operations do to types, and to the totals  *)
(* of the two lanes.                                                       *)
(***************************************************************************)
LEMMA FreshIsFinite ==
  ASSUME NEW S, IsFiniteSet(S)
  PROVE  Cardinality(Fresh(S)) \in Nat
<1>1. Fresh(S) \in SUBSET S
  BY DEF Fresh
<1>2. IsFiniteSet(Fresh(S))
  BY <1>1, FS_Subset
<1> QED
  BY <1>2, FS_CardinalityType

\* commit_chunk keeps the types.
LEMMA CommitKeepsTypes ==
  ASSUME TaskTypeOK,
         NEW S, S \subseteq Chunk, IsFiniteSet(S),
         NEW l \in Lane, NEW length \in Nat,
         CommitChunks(S, l, length)
  PROVE  /\ done' \subseteq Chunk
         /\ via' \in LaneRecord
         /\ metrics' \in MetricsType
<1>1. Cardinality(Fresh(S)) \in Nat
  BY FreshIsFinite
<1>2. Fresh(S) \subseteq Chunk
  BY DEF Fresh
<1>3. done' \subseteq Chunk
  BY <1>2 DEF CommitChunks, TaskTypeOK
<1>4. via' \in LaneRecord
  BY <1>2 DEF CommitChunks, TaskTypeOK, LaneRecord
<1>5. metrics' \in MetricsType
  BY <1>1 DEF CommitChunks, TaskTypeOK, MetricsType
<1> QED
  BY <1>3, <1>4, <1>5

(***************************************************************************)
(* A commit adds the same amount to the total and to one of the lanes.     *)
(***************************************************************************)
LEMMA CommitKeepsTotals ==
  ASSUME TaskTypeOK, LaneTotalsAddUp,
         NEW S, NEW l \in Lane, NEW length \in Nat,
         CommitChunks(S, l, length)
  PROVE  LaneTotalsAddUp'
  BY DEF CommitChunks, TaskTypeOK, LaneTotalsAddUp

(***************************************************************************)
(* rebuild_metrics puts every chunk it counts down to one lane.            *)
(***************************************************************************)
LEMMA RebuiltTotalsAddUp ==
  ASSUME NEW img
  PROVE  RebuildMetrics(img).adb + RebuildMetrics(img).wifi = RebuildMetrics(img).bytes
<1> DEFINE counted == img.done \cap SplitAll(img.files, img.chunkSize)
           adb     == {c \in counted : CreditedTo(c, img.via) = "Adb"}
           wifi    == {c \in counted : CreditedTo(c, img.via) = "Wifi"}
<1>1. ASSUME NEW c PROVE CreditedTo(c, img.via) \in {"Adb", "Wifi"}
  BY DEF CreditedTo
<1>2. counted = adb \cup wifi /\ adb \cap wifi = {}
  BY <1>1
<1>3. RebuildMetrics(img)
      = [chunks |-> Cardinality(counted),
         bytes  |-> Cardinality(BytesOf(counted, img.chunkSize)),
         adb    |-> Cardinality(BytesOf(adb, img.chunkSize)),
         wifi   |-> Cardinality(BytesOf(wifi, img.chunkSize))]
  BY DEF RebuildMetrics
<1> HIDE DEF counted, adb, wifi
<1>4. Cardinality(BytesOf(counted, img.chunkSize))
      = Cardinality(BytesOf(adb, img.chunkSize)) + Cardinality(BytesOf(wifi, img.chunkSize))
  BY <1>2, BytesOfParts
<1> QED
  BY <1>3, <1>4

\* Building a task from a checkpoint keeps them, and the totals add up.
LEMMA LoadKeepsTypes ==
  ASSUME NEW img \in Image, Load(img)
  PROVE  TaskTypeOK' /\ SchedulerTypeOK' /\ LaneTotalsAddUp'
<1>1. /\ img.state \in TaskState /\ img.files \in 0 .. NFiles
      /\ img.done \subseteq Chunk /\ img.via \in LaneRecord
      /\ img.chunkSize \in ChunkSizes /\ img.chunkSize \in Nat
  BY ChunkingAssumption DEF Image
<1>2. metrics' \in MetricsType
  BY RebuildMetricsType DEF Load
<1>3. TaskTypeOK'
  <2>1. /\ loaded' \in BOOLEAN /\ lastError' \in BOOLEAN
        /\ state' \in TaskState /\ files' \in 0 .. NFiles /\ done' \subseteq Chunk
        /\ via' \in LaneRecord /\ chunkSize' \in ChunkSizes
    BY <1>1 DEF Load
  <2> QED
    BY <1>2, <2>1 DEF TaskTypeOK, MetricsType
<1>4. queue' \in [Lane -> SUBSET Chunk]
  BY <1>1, DealQueuesType DEF Load
<1>5. SchedulerTypeOK'
  BY <1>4 DEF Load, SchedulerTypeOK, NoInflight
<1>6. LaneTotalsAddUp'
  BY RebuiltTotalsAddUp DEF Load, LaneTotalsAddUp
<1> QED
  BY <1>3, <1>5, <1>6

\* Taking a task out of the map keeps them too.
LEMMA UnloadKeepsTypes ==
  ASSUME Unload
  PROVE  TaskTypeOK' /\ SchedulerTypeOK' /\ LaneTotalsAddUp'
<1>1. TaskTypeOK'
  <2>1. /\ loaded' \in BOOLEAN /\ lastError' \in BOOLEAN
        /\ state' \in TaskState /\ done' \subseteq Chunk
    BY DEF Unload, TaskState
  <2>2. files' \in 0 .. NFiles
    BY ChunkingAssumption DEF Unload
  <2>3. chunkSize' \in ChunkSizes
    BY CheckpointAssumption DEF Unload
  <2>4. via' \in LaneRecord
    BY DEF Unload, NoLaneRecord, LaneRecord
  <2>5. metrics' \in MetricsType
    BY DEF Unload, NoMetrics, MetricsType
  <2> QED
    BY <2>1, <2>2, <2>3, <2>4, <2>5 DEF TaskTypeOK, MetricsType
<1>2. SchedulerTypeOK'
  BY DEF Unload, SchedulerTypeOK, NoInflight
<1>3. LaneTotalsAddUp'
  BY DEF Unload, NoMetrics, LaneTotalsAddUp
<1> QED
  BY <1>1, <1>2, <1>3

\* What persist writes is a checkpoint.
LEMMA MemoryImageType ==
  ASSUME TaskTypeOK
  PROVE  MemoryImage \in Image
  BY DEF TaskTypeOK, MemoryImage, Image

\* So is what the operation under way is about to write.
LEMMA PendingType ==
  ASSUME TaskTypeOK, CallTypeOK
  PROVE  Pending \in Image
  BY MemoryImageType DEF Pending, CallTypeOK

\* An operation that returns.
LEMMA ReturnKeepsTypes ==
  ASSUME Return
  PROVE  CallTypeOK'
  BY FreshImageType, EngineAssumption DEF Return, CallTypeOK

\* A write that stops part of the way through.
LEMMA WriteStoppedKeepsTypes ==
  ASSUME TaskTypeOK, CallTypeOK, DiskTypeOK, WriteStopped
  PROVE  DiskTypeOK'
  BY PendingType, TornReadsType, FreshImageType DEF WriteStopped, WriteFile, DiskTypeOK, diskVars

\* An operation that goes on to persist.
LEMMA BeginSaveKeepsTypes ==
  ASSUME CallTypeOK, DiskTypeOK, BeginSave
  PROVE  CallTypeOK' /\ DiskTypeOK'
  BY DEF BeginSave, CallTypeOK, DiskTypeOK, diskVars

-----------------------------------------------------------------------------
(***************************************************************************)
(* The invariant: types, and the totals.                                   *)
(***************************************************************************)
TypesAndTotals == TypeOK /\ LaneTotalsAddUp

\* The types and the totals are right at the start.
LEMMA InitTypesAndTotals == Init => TypesAndTotals
<1> SUFFICES ASSUME Init PROVE TypesAndTotals
  OBVIOUS
<1>1. TaskTypeOK
  <2>1. /\ loaded \in BOOLEAN /\ lastError \in BOOLEAN
        /\ state \in TaskState /\ done \subseteq Chunk
    BY DEF Init, TaskState
  <2>2. files \in 0 .. NFiles
    BY ChunkingAssumption DEF Init
  <2>3. chunkSize \in ChunkSizes
    BY CheckpointAssumption DEF Init
  <2>4. via \in LaneRecord
    BY DEF Init, NoLaneRecord, LaneRecord
  <2>5. metrics \in MetricsType
    BY DEF Init, NoMetrics, MetricsType
  <2> QED
    BY <2>1, <2>2, <2>3, <2>4, <2>5 DEF TaskTypeOK, MetricsType
<1>2. SchedulerTypeOK
  BY DEF Init, SchedulerTypeOK, NoInflight
<1>3. CallTypeOK
  BY FreshImageType, EngineAssumption DEF Init, CallTypeOK
<1>4. DiskTypeOK
  BY FreshImageType DEF Init, DiskTypeOK
<1>5. LaneTotalsAddUp
  BY DEF Init, NoMetrics, LaneTotalsAddUp
<1> QED
  BY <1>1, <1>2, <1>3, <1>4, <1>5 DEF TypesAndTotals, TypeOK

\* create_task and recover_task, up to the save.
LEMMA BeginInsertKeepsTypesAndTotals ==
  ASSUME TypesAndTotals, NEW img \in Image, BeginInsert(img)
  PROVE  TypesAndTotals'
<1> USE DEF TypesAndTotals, TypeOK
<1>1. TaskTypeOK' /\ SchedulerTypeOK' /\ LaneTotalsAddUp'
  BY DEF BeginInsert, taskVars, schedVars, TaskTypeOK, SchedulerTypeOK, LaneTotalsAddUp
<1>2. CallTypeOK' /\ DiskTypeOK'
  BY DEF BeginInsert, diskVars, CallTypeOK, DiskTypeOK
<1> QED
  BY <1>1, <1>2

\* A change of state alone.
LEMMA SetStateKeepsTypesAndTotals ==
  ASSUME TypesAndTotals, NEW s \in TaskState, SetState(s), lastError' \in BOOLEAN
  PROVE  TypesAndTotals'
<1> USE DEF TypesAndTotals, TypeOK
<1>1. TaskTypeOK' /\ LaneTotalsAddUp'
  BY DEF SetState, TaskTypeOK, LaneTotalsAddUp
<1>2. SchedulerTypeOK'
  BY DEF SetState, schedVars, SchedulerTypeOK
<1>3. CallTypeOK' /\ DiskTypeOK'
  BY BeginSaveKeepsTypes DEF SetState
<1> QED
  BY <1>1, <1>2, <1>3

\* The operations of the user.
LEMMA UserStepKeepsTypesAndTotals ==
  ASSUME TypesAndTotals, UserStep
  PROVE  TypesAndTotals'
<1> USE DEF TypesAndTotals, TypeOK
<1>1. CASE CreateTask
  BY <1>1, FreshImageType, BeginInsertKeepsTypesAndTotals DEF CreateTask
<1>2. CASE CreateOrRecoverTask
  BY <1>2, FreshImageType, BeginInsertKeepsTypesAndTotals DEF CreateOrRecoverTask
<1>3. CASE RecoverTask
  <2>1. [disk EXCEPT !.state = ResumedState(disk.state)] \in Image
    BY DEF DiskTypeOK, Image, ResumedState, TaskState
  <2> QED
    BY <1>3, <2>1, BeginInsertKeepsTypesAndTotals DEF RecoverTask
<1>4. CASE PauseTask \/ ResumeTask \/ CancelTask
  <2>1. lastError' \in BOOLEAN
    BY <1>4 DEF PauseTask, ResumeTask, CancelTask, TaskTypeOK
  <2>2. \E s \in TaskState : SetState(s)
    BY <1>4 DEF PauseTask, ResumeTask, CancelTask, TaskState
  <2> QED
    BY <2>1, <2>2, SetStateKeepsTypesAndTotals
<1>5. CASE RetryTask
  <2>1. lastError' \in BOOLEAN
    BY <1>5 DEF RetryTask
  <2>2. \E s \in TaskState : SetState(s)
    BY <1>5 DEF RetryTask, TaskState
  <2> QED
    BY <2>1, <2>2, SetStateKeepsTypesAndTotals
<1>6. CASE DeleteTaskRecord
  <2>1. TaskTypeOK' /\ SchedulerTypeOK' /\ LaneTotalsAddUp'
    BY <1>6, UnloadKeepsTypes DEF DeleteTaskRecord
  <2>2. CallTypeOK'
    BY <1>6 DEF DeleteTaskRecord, callVars, CallTypeOK
  <2>3. DiskTypeOK'
    BY <1>6, FreshImageType DEF DeleteTaskRecord, diskVars, DiskTypeOK
  <2> QED
    BY <2>1, <2>2, <2>3
<1>7. ASSUME NEW size \in ChunkSizes, ReconfigureTaskChunkSize(size)
      PROVE  TypesAndTotals'
  <2> DEFINE img == [MemoryImage EXCEPT !.chunkSize = AtLeastOne(size)]
  <2>1. AtLeastOne(size) \in ChunkSizes /\ AtLeastOne(size) \in Nat
    BY RaisedSizeType, ChunkingAssumption
  <2>2. img \in Image
    BY <2>1, MemoryImageType DEF Image
  <2>3. img.chunkSize = AtLeastOne(size)
    BY DEF MemoryImage
  <2>4. /\ chunkSize' = AtLeastOne(size)
        /\ metrics' = RebuildMetrics(img)
        /\ queue' = DealQueues(files, AtLeastOne(size), done)
        /\ inflight' = NoInflight
        /\ out' = {}
        /\ UNCHANGED <<loaded, state, lastError, files, done, via>>
        /\ BeginSave
    BY <1>7, <2>3 DEF ReconfigureTaskChunkSize
  <2> HIDE DEF img
  <2>5. metrics' \in MetricsType
    BY <2>2, <2>4, RebuildMetricsType
  <2>6. TaskTypeOK'
    BY <2>1, <2>4, <2>5 DEF TaskTypeOK, MetricsType
  <2>7. queue' \in [Lane -> SUBSET Chunk]
    BY <2>1, <2>4, DealQueuesType DEF TaskTypeOK
  <2>8. SchedulerTypeOK'
    BY <2>4, <2>7 DEF SchedulerTypeOK, NoInflight
  <2>9. LaneTotalsAddUp'
    BY <2>4, RebuiltTotalsAddUp DEF LaneTotalsAddUp
  <2>10. CallTypeOK' /\ DiskTypeOK'
    BY <2>4, BeginSaveKeepsTypes
  <2> QED
    BY <2>6, <2>8, <2>9, <2>10
<1> QED
  BY <1>1, <1>2, <1>3, <1>4, <1>5, <1>6, <1>7 DEF UserStep

\* tick_task.
LEMMA TickStepKeepsTypesAndTotals ==
  ASSUME TypesAndTotals, TickStep
  PROVE  TypesAndTotals'
<1> USE DEF TypesAndTotals, TypeOK
<1>1. CASE TickTask
  <2>1. TaskTypeOK' /\ SchedulerTypeOK' /\ LaneTotalsAddUp'
    BY <1>1 DEF TickTask, schedVars, TaskTypeOK, TaskState, SchedulerTypeOK, LaneTotalsAddUp
  <2>2. CallTypeOK' /\ DiskTypeOK'
    BY <1>1 DEF TickTask, diskVars, CallTypeOK, DiskTypeOK
  <2> QED
    BY <2>1, <2>2
<1>2. CASE TickChunk
  <2>1. PICK lease \in TickOffer :
          /\ CommitChunks({lease.chunk}, lease.lane, SplitLength({lease.chunk}))
          /\ queue' = PopFront(lease)
    BY <1>2 DEF TickChunk
  <2>2. lease \in Lease /\ queue' \in [Lane -> SUBSET Chunk]
    BY <2>1, OfferType DEF TickOffer
  <2>3. lease.lane \in Lane /\ lease.chunk \in Chunk
    BY <2>2 DEF Lease
  <2>4. SplitLength({lease.chunk}) \in Nat /\ IsFiniteSet({lease.chunk})
    BY BytesOfIsFinite, FS_Singleton DEF SplitLength
  <2>5. done' \subseteq Chunk /\ via' \in LaneRecord /\ metrics' \in MetricsType
    BY <2>1, <2>3, <2>4, CommitKeepsTypes
  <2>6. TaskTypeOK'
    BY <1>2, <2>5 DEF TickChunk, TaskTypeOK, MetricsType
  <2>7. LaneTotalsAddUp'
    BY <2>1, <2>3, <2>4, CommitKeepsTotals
  <2>8. SchedulerTypeOK' /\ CallTypeOK' /\ DiskTypeOK'
    BY <1>2, <2>2, EngineAssumption
    DEF TickChunk, SchedulerTypeOK, CallTypeOK, DiskTypeOK, diskVars
  <2> QED
    BY <2>6, <2>7, <2>8
<1>3. CASE TickEnd
  <2>1. TaskTypeOK' /\ SchedulerTypeOK' /\ LaneTotalsAddUp'
    BY <1>3 DEF TickEnd, schedVars, TaskTypeOK, TaskState, SchedulerTypeOK, LaneTotalsAddUp
  <2>2. CallTypeOK' /\ DiskTypeOK'
    BY <1>3, BeginSaveKeepsTypes DEF TickEnd
  <2> QED
    BY <2>1, <2>2
<1> QED
  BY <1>1, <1>2, <1>3 DEF TickStep

(***************************************************************************)
(* A commit followed by a save: what every report of progress amounts to.  *)
(***************************************************************************)
LEMMA ReportKeepsTypesAndTotals ==
  ASSUME TypesAndTotals,
         NEW S, S \subseteq Chunk, IsFiniteSet(S),
         NEW l \in Lane, NEW length \in Nat,
         CommitChunks(S, l, length),
         state' \in TaskState, SchedulerTypeOK',
         UNCHANGED <<loaded, lastError, files, chunkSize>>,
         BeginSave
  PROVE  TypesAndTotals'
<1> USE DEF TypesAndTotals, TypeOK
<1>1. done' \subseteq Chunk /\ via' \in LaneRecord /\ metrics' \in MetricsType
  BY CommitKeepsTypes
<1>2. TaskTypeOK'
  BY <1>1 DEF TaskTypeOK, MetricsType
<1>3. LaneTotalsAddUp'
  BY CommitKeepsTotals
<1>4. CallTypeOK' /\ DiskTypeOK'
  BY BeginSaveKeepsTypes
<1> QED
  BY <1>2, <1>3, <1>4

\* record_real_chunk_commit.
LEMMA ChunkReportKeepsTypesAndTotals ==
  ASSUME TypesAndTotals, NEW c \in Chunk, NEW length \in Nat, NEW l \in Lane,
         NEW markCompleted \in BOOLEAN,
         RecordRealChunkCommit(c, length, l, markCompleted)
  PROVE  TypesAndTotals'
<1> DEFINE counted == IF Fresh({c}) = {} THEN 0 ELSE length
<1>1. counted \in Nat /\ IsFiniteSet({c}) /\ {c} \subseteq Chunk
  BY FS_Singleton
<1>2. state' \in TaskState
  BY DEF RecordRealChunkCommit, MarkCompletedIfDrained, TaskState
<1>3. SchedulerTypeOK'
  BY DEF RecordRealChunkCommit, schedVars, SchedulerTypeOK, TypesAndTotals, TypeOK
<1>4. CommitChunks({c}, l, counted)
  BY DEF RecordRealChunkCommit
<1>5. UNCHANGED <<loaded, lastError, files, chunkSize>> /\ BeginSave
  BY DEF RecordRealChunkCommit
<1> HIDE DEF counted
<1> QED
  BY <1>1, <1>2, <1>3, <1>4, <1>5, ReportKeepsTypesAndTotals

\* record_real_file_complete.
LEMMA FileReportKeepsTypesAndTotals ==
  ASSUME TypesAndTotals, NEW f \in File, NEW l \in Lane, RecordRealFileComplete(f, l)
  PROVE  TypesAndTotals'
<1> DEFINE S == Split(f, chunkSize)
<1>1. chunkSize \in Nat
  BY ChunkingAssumption DEF TypesAndTotals, TypeOK, TaskTypeOK
<1>2. S \subseteq Chunk /\ IsFiniteSet(S)
  BY <1>1, SplitIsFinite DEF Chunk
<1>3. SplitLength(S) \in Nat
  BY BytesOfIsFinite DEF SplitLength
<1>4. state' \in TaskState
  BY DEF RecordRealFileComplete, MarkCompletedIfDrained, TaskState
<1>5. SchedulerTypeOK'
  BY DEF RecordRealFileComplete, schedVars, SchedulerTypeOK, TypesAndTotals, TypeOK
<1>6. /\ CommitChunks(S, l, SplitLength(S))
      /\ UNCHANGED <<loaded, lastError, files, chunkSize>> /\ BeginSave
  BY DEF RecordRealFileComplete
<1> HIDE DEF S
<1> QED
  BY <1>2, <1>3, <1>4, <1>5, <1>6, ReportKeepsTypesAndTotals

\* A chunk has a natural number of bytes.
LEMMA LengthType ==
  ASSUME NEW size \in Nat, NEW chunkSz \in Nat, NEW i \in Nat
  PROVE  Length(size, chunkSz, i) \in Nat
<1>1. AtLeastOne(chunkSz) \in Nat
  BY DEF AtLeastOne
<1>2. Offset(chunkSz, i) \in Nat
  BY <1>1 DEF Offset
<1> QED
  BY <1>1, <1>2 DEF Length

\* The reports of the workers.
LEMMA WorkerStepKeepsTypesAndTotals ==
  ASSUME TypesAndTotals, WorkerStep
  PROVE  TypesAndTotals'
<1> USE DEF TypesAndTotals, TypeOK
<1>1. WorkerLanes \subseteq Lane
  BY SchedulerAssumption DEF WorkerLanes
<1>2. ASSUME NEW l \in WorkerLanes, ReportChunk(l)
      PROVE  TypesAndTotals'
  <2>1. l \in Lane
    BY <1>1
  <2>2. NFiles \in 0 .. NFiles /\ chunkSize \in Nat
    BY ChunkingAssumption DEF TaskTypeOK
  <2>3. PICK c \in SplitAll(NFiles, chunkSize) :
          \E markCompleted \in BOOLEAN :
            RecordRealChunkCommit(c, Length(FileSize[c[1]], chunkSize, c[2]), l, markCompleted)
    BY <1>2 DEF ReportChunk
  <2>4. c \in Chunk
    BY <2>2, SplitAllIsFinite
  <2>5. Length(FileSize[c[1]], chunkSize, c[2]) \in Nat
    BY <2>2, <2>4, LengthType, ChunkingAssumption DEF Chunk
  <2> QED
    BY <2>1, <2>3, <2>4, <2>5, ChunkReportKeepsTypesAndTotals
<1>3. ASSUME NEW l \in WorkerLanes, NEW f \in File, RecordRealFileComplete(f, l)
      PROVE  TypesAndTotals'
  BY <1>1, <1>3, FileReportKeepsTypesAndTotals
<1>4. CASE ReportBundledFile
  <2>1. PICK f \in File : RecordRealChunkCommit(<<f, 0>>, FileSize[f], "Wifi", TRUE)
    BY <1>4 DEF ReportBundledFile
  <2>2. <<f, 0>> \in Chunk /\ FileSize[f] \in Nat /\ "Wifi" \in Lane /\ TRUE \in BOOLEAN
    BY ChunkingAssumption DEF Chunk
  <2> QED
    BY <2>1, <2>2, ChunkReportKeepsTypesAndTotals
<1>5. ASSUME NEW f \in File, RecordUnknownFile(f)
      PROVE  TypesAndTotals'
  <2>1. TaskTypeOK' /\ SchedulerTypeOK' /\ LaneTotalsAddUp'
    BY <1>5 DEF RecordUnknownFile, schedVars, TaskTypeOK, TaskState, SchedulerTypeOK,
                LaneTotalsAddUp
  <2>2. CallTypeOK' /\ DiskTypeOK'
    BY <1>5 DEF RecordUnknownFile, callVars, diskVars, CallTypeOK, DiskTypeOK
  <2> QED
    BY <2>1, <2>2
<1>6. CASE RecordTaskFailure
  BY <1>6, SetStateKeepsTypesAndTotals DEF RecordTaskFailure, TaskState
<1> QED
  BY <1>2, <1>3, <1>4, <1>5, <1>6 DEF WorkerStep

\* Leases, given and completed.
LEMMA LeaseStepKeepsTypesAndTotals ==
  ASSUME TypesAndTotals, LeaseStep
  PROVE  TypesAndTotals'
<1> USE DEF TypesAndTotals, TypeOK
<1>1. ASSUME NEW l \in Lane, LeaseRealChunk(l)
      PROVE  TypesAndTotals'
  <2>1. TaskTypeOK' /\ LaneTotalsAddUp'
    BY <1>1 DEF LeaseRealChunk, TaskTypeOK, TaskState, LaneTotalsAddUp
  <2>2. CallTypeOK' /\ DiskTypeOK'
    BY <1>1 DEF LeaseRealChunk, callVars, diskVars, CallTypeOK, DiskTypeOK
  <2>3. CASE LeaseNext(l)
    <3>1. PICK lease \in Offer(l) :
            /\ queue' = PopFront(lease)
            /\ inflight' = Charge(lease.lane)
            /\ out' = out \cup {lease}
      BY <2>3 DEF LeaseNext
    <3>2. lease \in Lease /\ queue' \in [Lane -> SUBSET Chunk]
      BY <3>1, OfferType
    <3>3. inflight' \in [Lane -> Nat]
      BY <3>1, <3>2, CountersType DEF Lease
    <3> QED
      BY <2>1, <2>2, <3>1, <3>2, <3>3 DEF SchedulerTypeOK
  <2>4. CASE UNCHANGED schedVars
    BY <2>1, <2>2, <2>4 DEF schedVars, SchedulerTypeOK
  <2> QED
    BY <1>1, <2>3, <2>4 DEF LeaseRealChunk
<1>2. ASSUME NEW lease \in out, CompleteRealChunkLease(lease)
      PROVE  TypesAndTotals'
  <2>1. lease.lane \in Lane /\ lease.chunk \in Chunk
    BY DEF SchedulerTypeOK, Lease
  <2>2. IsFiniteSet({lease.chunk}) /\ {lease.chunk} \subseteq Chunk
        /\ SplitLength({lease.chunk}) \in Nat
    BY <2>1, BytesOfIsFinite, FS_Singleton DEF SplitLength
  <2>3. state' \in TaskState
    BY <1>2 DEF CompleteRealChunkLease, MarkCompletedIfDrained, TaskState
  <2>4. SchedulerTypeOK'
    BY <1>2, <2>1, CountersType DEF CompleteRealChunkLease, Complete, SchedulerTypeOK
  <2>5. /\ CommitChunks({lease.chunk}, lease.lane, SplitLength({lease.chunk}))
        /\ UNCHANGED <<loaded, lastError, files, chunkSize>> /\ BeginSave
    BY <1>2 DEF CompleteRealChunkLease
  <2> QED
    BY <2>1, <2>2, <2>3, <2>4, <2>5, ReportKeepsTypesAndTotals
<1> QED
  BY <1>1, <1>2 DEF LeaseStep

\* Saves and insertions.
LEMMA StoreStepKeepsTypesAndTotals ==
  ASSUME TypesAndTotals, StoreStep
  PROVE  TypesAndTotals'
<1> USE DEF TypesAndTotals, TypeOK
<1>1. CASE Save
  <2>1. TaskTypeOK' /\ SchedulerTypeOK' /\ LaneTotalsAddUp'
    BY <1>1 DEF Save, taskVars, schedVars, TaskTypeOK, SchedulerTypeOK, LaneTotalsAddUp
  <2>2. CallTypeOK'
    BY <1>1, ReturnKeepsTypes DEF Save
  <2>3. DiskTypeOK'
    BY <1>1, MemoryImageType DEF Save, WriteFile, DiskTypeOK
  <2> QED
    BY <2>1, <2>2, <2>3
<1>2. CASE Insert
  <2>1. draft \in Image
    BY DEF CallTypeOK
  <2>2. TaskTypeOK' /\ SchedulerTypeOK' /\ LaneTotalsAddUp'
    BY <1>2, <2>1, LoadKeepsTypes DEF Insert
  <2>3. CallTypeOK'
    BY <1>2, ReturnKeepsTypes DEF Insert
  <2>4. DiskTypeOK'
    BY <1>2, <2>1 DEF Insert, WriteFile, DiskTypeOK
  <2> QED
    BY <2>2, <2>3, <2>4
<1>3. CASE SaveFails
  <2>1. TaskTypeOK' /\ SchedulerTypeOK' /\ LaneTotalsAddUp'
    BY <1>3 DEF SaveFails, taskVars, schedVars, TaskTypeOK, SchedulerTypeOK, LaneTotalsAddUp
  <2>2. CallTypeOK' /\ DiskTypeOK'
    BY <1>3, ReturnKeepsTypes, WriteStoppedKeepsTypes DEF SaveFails
  <2> QED
    BY <2>1, <2>2
<1> QED
  BY <1>1, <1>2, <1>3 DEF StoreStep

\* An exit.
LEMMA CrashKeepsTypesAndTotals ==
  ASSUME TypesAndTotals, Crash
  PROVE  TypesAndTotals'
<1> USE DEF TypesAndTotals, TypeOK
<1>1. TaskTypeOK' /\ SchedulerTypeOK' /\ LaneTotalsAddUp' /\ CallTypeOK'
  BY UnloadKeepsTypes, ReturnKeepsTypes DEF Crash
<1>2. CASE WriteStopped
  BY <1>1, <1>2, WriteStoppedKeepsTypes
<1>3. CASE UNCHANGED diskVars
  BY <1>1, <1>3 DEF diskVars, DiskTypeOK
<1> QED
  BY <1>2, <1>3 DEF Crash

\* Every step.
LEMMA NextKeepsTypesAndTotals == TypesAndTotals /\ [Next]_vars => TypesAndTotals'
<1> SUFFICES ASSUME TypesAndTotals, [Next]_vars PROVE TypesAndTotals'
  OBVIOUS
<1>1. CASE Next
  BY <1>1, UserStepKeepsTypesAndTotals, TickStepKeepsTypesAndTotals,
     WorkerStepKeepsTypesAndTotals, LeaseStepKeepsTypesAndTotals,
     StoreStepKeepsTypesAndTotals, CrashKeepsTypesAndTotals DEF Next
<1>2. CASE UNCHANGED vars
  <2> USE <1>2 DEF TypesAndTotals, TypeOK, vars
  <2>1. TaskTypeOK' /\ SchedulerTypeOK' /\ LaneTotalsAddUp'
    BY DEF taskVars, schedVars, TaskTypeOK, SchedulerTypeOK, LaneTotalsAddUp
  <2>2. CallTypeOK' /\ DiskTypeOK'
    BY DEF callVars, diskVars, CallTypeOK, DiskTypeOK
  <2> QED
    BY <2>1, <2>2
<1> QED
  BY <1>1, <1>2
-----------------------------------------------------------------------------
(***************************************************************************)
(* Whatever is called, in whatever order, and wherever a crash, a failed   *)
(* write or a damaged checkpoint file comes in between, every variable of  *)
(* a task keeps its type: in particular whatever a load makes of a damaged *)
(* file is a checkpoint entry the engine can work with.                    *)
(***************************************************************************)
THEOREM TypeCorrect == Spec => []TypeOK
<1>1. TypesAndTotals => TypeOK
  BY DEF TypesAndTotals
<1> QED
  BY InitTypesAndTotals, NextKeepsTypesAndTotals, <1>1, PTL DEF Spec

(***************************************************************************)
(* The bytes a task shows for its two lanes add up to its committed bytes, *)
(* in every mode and under every fault: a commit adds to one lane what it  *)
(* adds to the total, and rebuild_metrics puts every chunk it counts down  *)
(* to exactly one lane, even one whose lane the checkpoint has lost.       *)
(***************************************************************************)
THEOREM LaneTotalsHold == Spec => []LaneTotalsAddUp
<1>1. TypesAndTotals => LaneTotalsAddUp
  BY DEF TypesAndTotals
<1> QED
  BY InitTypesAndTotals, NextKeepsTypesAndTotals, <1>1, PTL DEF Spec
-----------------------------------------------------------------------------
(***************************************************************************)
(* Durability.  An operation that changes what the checkpoint should hold  *)
(* leaves the mutex only through Save or Insert, which write it; the rest  *)
(* change nothing it holds, or drop the task.                              *)
(***************************************************************************)
LEMMA BusyIsDurable ==
  ASSUME call' # "none"
  PROVE  ProgressIsDurable'
  BY DEF ProgressIsDurable, Free

\* What memory and file hold differs only while an operation is under way.
LEMMA StepKeepsProgressDurable ==
  ASSUME IoErrors = FALSE, ProgressIsDurable, Next
  PROVE  ProgressIsDurable'
<1>1. CASE UserStep
  <2>1. CASE CreateTask \/ CreateOrRecoverTask \/ RecoverTask
    BY <2>1, BusyIsDurable DEF CreateTask, CreateOrRecoverTask, RecoverTask, BeginInsert
  <2>2. CASE PauseTask \/ ResumeTask \/ CancelTask \/ RetryTask
    BY <2>2, BusyIsDurable DEF PauseTask, ResumeTask, CancelTask, RetryTask, SetState, BeginSave
  <2>3. CASE DeleteTaskRecord
    BY <2>3 DEF DeleteTaskRecord, Unload, ProgressIsDurable
  <2>4. ASSUME NEW size \in ChunkSizes, ReconfigureTaskChunkSize(size)
        PROVE  ProgressIsDurable'
    BY <2>4, BusyIsDurable DEF ReconfigureTaskChunkSize, BeginSave
  <2> QED
    BY <1>1, <2>1, <2>2, <2>3, <2>4 DEF UserStep
<1>2. CASE TickStep
  BY <1>2, BusyIsDurable DEF TickStep, TickTask, TickChunk, TickEnd, BeginSave
<1>3. CASE WorkerStep
  <2>1. ASSUME NEW c, NEW length, NEW l, NEW markCompleted,
               RecordRealChunkCommit(c, length, l, markCompleted)
        PROVE  ProgressIsDurable'
    BY <2>1, BusyIsDurable DEF RecordRealChunkCommit, BeginSave
  <2>2. ASSUME NEW f, NEW l, RecordRealFileComplete(f, l)
        PROVE  ProgressIsDurable'
    BY <2>2, BusyIsDurable DEF RecordRealFileComplete, BeginSave
  <2>3. ASSUME NEW f, RecordUnknownFile(f)
        PROVE  ProgressIsDurable'
    BY <2>3 DEF RecordUnknownFile, ProgressIsDurable, Free, callVars, diskVars
  <2>4. CASE RecordTaskFailure
    BY <2>4, BusyIsDurable DEF RecordTaskFailure, SetState, BeginSave
  <2>5. ASSUME NEW l, ReportChunk(l)
        PROVE  ProgressIsDurable'
    BY <2>1, <2>5 DEF ReportChunk
  <2>6. CASE ReportBundledFile
    BY <2>1, <2>6 DEF ReportBundledFile
  <2> QED
    BY <1>3, <2>2, <2>3, <2>4, <2>5, <2>6 DEF WorkerStep
<1>4. CASE LeaseStep
  <2>1. ASSUME NEW l, LeaseRealChunk(l)
        PROVE  ProgressIsDurable'
    BY <2>1 DEF LeaseRealChunk, ProgressIsDurable, Free, callVars, diskVars
  <2>2. ASSUME NEW lease, CompleteRealChunkLease(lease)
        PROVE  ProgressIsDurable'
    BY <2>2, BusyIsDurable DEF CompleteRealChunkLease, BeginSave
  <2> QED
    BY <1>4, <2>1, <2>2 DEF LeaseStep
<1>5. CASE StoreStep
  <2>1. CASE Save
    BY <2>1 DEF Save, WriteFile, MemoryImage, taskVars, ProgressIsDurable
  <2>2. CASE Insert
    BY <2>2 DEF Insert, WriteFile, Load, ProgressIsDurable
  <2>3. ~ SaveFails
    BY DEF SaveFails
  <2> QED
    BY <1>5, <2>1, <2>2, <2>3 DEF StoreStep
<1>6. CASE Crash
  BY <1>6 DEF Crash, Unload, ProgressIsDurable
<1> QED
  BY <1>1, <1>2, <1>3, <1>4, <1>5, <1>6 DEF Next

(***************************************************************************)
(* A crash between two operations loses no recorded chunk: as long as the  *)
(* store reports no error, the file then holds what memory holds.  This    *)
(* needs no assumption on torn writes: the prefix an exit leaves behind    *)
(* belongs to an operation that has not returned.                          *)
(***************************************************************************)
THEOREM ProgressDurable ==
  ASSUME IoErrors = FALSE
  PROVE  Spec => []ProgressIsDurable
<1>1. Init => ProgressIsDurable
  BY DEF Init, ProgressIsDurable
<1>2. ProgressIsDurable /\ [Next]_vars => ProgressIsDurable'
  <2> SUFFICES ASSUME ProgressIsDurable, [Next]_vars PROVE ProgressIsDurable'
    OBVIOUS
  <2>1. CASE Next
    BY <2>1, StepKeepsProgressDurable
  <2>2. CASE UNCHANGED vars
    BY <2>2 DEF vars, taskVars, callVars, diskVars, ProgressIsDurable, Free
  <2> QED
    BY <2>1, <2>2
<1> QED
  BY <1>1, <1>2, PTL DEF Spec
-----------------------------------------------------------------------------
(***************************************************************************)
(* Leases.  The engine replaces the scheduler of a task as a whole, with   *)
(* the leases of the old one, or uses it through the operations of         *)
(* SchedulerProofs.                                                        *)
(***************************************************************************)
LEMMA RebuiltInOrder == JustBuilt' => LeasesInOrder'
  BY BuiltInOrder, PTL

\* A deal with nothing out is a scheduler just built.
LEMMA DealIsJustBuilt ==
  ASSUME NEW n \in 0 .. NFiles, NEW chunkSz \in Nat, NEW completed,
         queue' = DealQueues(n, chunkSz, completed), inflight' = NoInflight, out' = {}
  PROVE  LeasesInOrder'
<1>1. JustBuilt'
  BY DealtOnce DEF JustBuilt
<1> QED
  BY <1>1, RebuiltInOrder

\* So are the empty queues of a task that is not in the map.
LEMMA UnloadIsInOrder ==
  ASSUME Unload
  PROVE  LeasesInOrder'
<1>1. JustBuilt'
  BY DEF Unload, JustBuilt
<1> QED
  BY <1>1, RebuiltInOrder

\* Every step of the engine keeps the leases in order.
LEMMA StepKeepsLeasesInOrder ==
  ASSUME TypeOK, LeasesInOrder, Next
  PROVE  LeasesInOrder'
<1>1. CASE UNCHANGED schedVars
  BY <1>1, IdleKeepsOrder
<1>2. CASE UserStep
  <2>1. CASE CreateTask \/ CreateOrRecoverTask \/ RecoverTask
    BY <1>1, <2>1 DEF CreateTask, CreateOrRecoverTask, RecoverTask, BeginInsert
  <2>2. CASE PauseTask \/ ResumeTask \/ CancelTask \/ RetryTask
    BY <1>1, <2>2 DEF PauseTask, ResumeTask, CancelTask, RetryTask, SetState
  <2>3. CASE DeleteTaskRecord
    BY <2>3, UnloadIsInOrder DEF DeleteTaskRecord
  <2>4. ASSUME NEW size \in ChunkSizes, ReconfigureTaskChunkSize(size)
        PROVE  LeasesInOrder'
    <3>1. AtLeastOne(size) \in Nat /\ files \in 0 .. NFiles
      BY RaisedSizeType, ChunkingAssumption DEF TypeOK, TaskTypeOK
    <3>2. /\ queue' = DealQueues(files, AtLeastOne(size), done)
          /\ inflight' = NoInflight
          /\ out' = {}
      BY <2>4 DEF ReconfigureTaskChunkSize, MemoryImage
    <3> QED
      BY <3>1, <3>2, DealIsJustBuilt
  <2> QED
    BY <1>2, <2>1, <2>2, <2>3, <2>4 DEF UserStep
<1>3. CASE TickStep
  <2>1. CASE TickTask \/ TickEnd
    BY <1>1, <2>1 DEF TickTask, TickEnd, schedVars
  <2>2. CASE TickChunk
    <3>1. PICK lease \in TickOffer : queue' = PopFront(lease)
      BY <2>2 DEF TickChunk
    <3>2. lease \in Lease
      BY <3>1, OfferType DEF TickOffer, LeasesInOrder
    <3>3. UNCHANGED <<inflight, out>>
      BY <2>2 DEF TickChunk
    <3> QED
      BY <3>1, <3>2, <3>3, PopKeepsOrder
  <2> QED
    BY <1>3, <2>1, <2>2 DEF TickStep
<1>4. CASE WorkerStep
  <2>1. ASSUME NEW c, NEW length, NEW l, NEW markCompleted,
               RecordRealChunkCommit(c, length, l, markCompleted)
        PROVE  UNCHANGED schedVars
    BY <2>1 DEF RecordRealChunkCommit
  <2>2. ASSUME NEW f, NEW l, RecordRealFileComplete(f, l)
        PROVE  UNCHANGED schedVars
    BY <2>2 DEF RecordRealFileComplete
  <2>3. ASSUME NEW f, RecordUnknownFile(f)
        PROVE  UNCHANGED schedVars
    BY <2>3 DEF RecordUnknownFile
  <2>4. ASSUME NEW l, ReportChunk(l)
        PROVE  UNCHANGED schedVars
    BY <2>1, <2>4 DEF ReportChunk
  <2>5. CASE ReportBundledFile
    BY <1>1, <2>1, <2>5 DEF ReportBundledFile
  <2>6. CASE RecordTaskFailure
    BY <1>1, <2>6 DEF RecordTaskFailure, SetState
  <2> QED
    BY <1>1, <1>4, <2>2, <2>3, <2>4, <2>5, <2>6 DEF WorkerStep
<1>5. CASE LeaseStep
  <2>1. ASSUME NEW l \in Lane, LeaseRealChunk(l)
        PROVE  LeasesInOrder'
    BY <1>1, <2>1, LeaseNextKeepsOrder DEF LeaseRealChunk
  <2>2. ASSUME NEW lease, CompleteRealChunkLease(lease)
        PROVE  LeasesInOrder'
    BY <2>2, CompleteKeepsOrder DEF CompleteRealChunkLease
  <2> QED
    BY <1>5, <2>1, <2>2 DEF LeaseStep
<1>6. CASE StoreStep
  <2>1. CASE Save \/ SaveFails
    BY <1>1, <2>1 DEF Save, SaveFails
  <2>2. CASE Insert
    <3>1. draft.files \in 0 .. NFiles /\ draft.chunkSize \in Nat
      BY ChunkingAssumption DEF TypeOK, CallTypeOK, Image
    <3> QED
      BY <2>2, <3>1, DealIsJustBuilt DEF Insert, Load
  <2> QED
    BY <1>6, <2>1, <2>2 DEF StoreStep
<1>7. CASE Crash
  BY <1>7, UnloadIsInOrder DEF Crash
<1> QED
  BY <1>2, <1>3, <1>4, <1>5, <1>6, <1>7 DEF Next

(***************************************************************************)
(* The leases of a task stay in order in the engine as well: recoveries,   *)
(* resizes, ticks, deletions and crashes replace the scheduler or go       *)
(* through lease_next and complete, and never leave a counter, a queue and *)
(* a lease that do not belong together.                                    *)
(***************************************************************************)
THEOREM EngineKeepsLeasesInOrder ==
  Spec => [](InflightCountsLeases /\ NoChunkTwice /\ OverLimitOnlyByFallback)
<1>1. Init => LeasesInOrder
  <2>1. Init => JustBuilt
    BY DEF Init, JustBuilt
  <2> QED
    BY <2>1, BuiltInOrder
<1>2. TypesAndTotals /\ LeasesInOrder /\ [Next]_vars => LeasesInOrder'
  <2> SUFFICES ASSUME TypesAndTotals, LeasesInOrder, [Next]_vars PROVE LeasesInOrder'
    OBVIOUS
  <2>1. CASE Next
    BY <2>1, StepKeepsLeasesInOrder DEF TypesAndTotals
  <2>2. CASE UNCHANGED vars
    BY <2>2, IdleKeepsOrder DEF vars
  <2> QED
    BY <2>1, <2>2
<1>3. LeasesInOrder => InflightCountsLeases /\ NoChunkTwice /\ OverLimitOnlyByFallback
  BY DEF LeasesInOrder
<1> QED
  BY <1>1, <1>2, <1>3, InitTypesAndTotals, NextKeepsTypesAndTotals, PTL DEF Spec
-----------------------------------------------------------------------------
(***************************************************************************)
(* Recorded progress.  A tick is a sequence of steps, so that it records   *)
(* for a task that is Running needs the mutex: nobody cancels it between.  *)
(***************************************************************************)
TickRuns == call = "tick" => state = "Running"

\* Only a running task ticks.
LEMMA StepKeepsTickRuns ==
  ASSUME TickRuns, Next
  PROVE  TickRuns'
<1>1. CASE call' # "tick"
  BY <1>1 DEF TickRuns
<1>2. CASE UserStep \/ LeaseStep \/ StoreStep \/ Crash
  BY <1>1, <1>2
  DEF UserStep, CreateTask, CreateOrRecoverTask, RecoverTask, BeginInsert, PauseTask,
      ResumeTask, CancelTask, RetryTask, SetState, DeleteTaskRecord, ReconfigureTaskChunkSize,
      LeaseStep, LeaseRealChunk, CompleteRealChunkLease, CanRecord, Free, callVars,
      StoreStep, Save, Insert, SaveFails, Crash, Return, BeginSave
<1>3. CASE TickStep
  BY <1>1, <1>3 DEF TickStep, TickTask, TickChunk, TickEnd, BeginSave, TickRuns
<1>4. CASE WorkerStep
  BY <1>1, <1>4
  DEF WorkerStep, ReportChunk, ReportBundledFile, RecordRealChunkCommit,
      RecordRealFileComplete, RecordUnknownFile, RecordTaskFailure, SetState, CanRecord,
      Free, callVars, BeginSave
<1> QED
  BY <1>2, <1>3, <1>4 DEF Next

\* No step but the insertion of a task takes a recorded chunk back.
LEMMA StepKeepsProgress ==
  ASSUME TickRuns, Next, loaded, loaded', call # "insert"
  PROVE  done \subseteq done' /\ (state \in {"Cancelled", "Failed"} => done' = done)
<1>1. CASE done' = done
  BY <1>1
<1>2. ASSUME NEW S, NEW l, NEW length, CommitChunks(S, l, length)
      PROVE  done \subseteq done'
  BY <1>2 DEF CommitChunks
<1>3. CASE UserStep
  BY <1>1, <1>3
  DEF UserStep, CreateTask, CreateOrRecoverTask, RecoverTask, BeginInsert, PauseTask,
      ResumeTask, CancelTask, RetryTask, SetState, DeleteTaskRecord, Unload,
      ReconfigureTaskChunkSize, taskVars
<1>4. CASE TickStep
  BY <1>1, <1>2, <1>4 DEF TickStep, TickTask, TickChunk, TickEnd, TickRuns
<1>5. CASE WorkerStep
  BY <1>1, <1>2, <1>5
  DEF WorkerStep, ReportChunk, ReportBundledFile, RecordRealChunkCommit,
      RecordRealFileComplete, RecordUnknownFile, RecordTaskFailure, SetState, CanRecord
<1>6. CASE LeaseStep
  BY <1>1, <1>2, <1>6
  DEF LeaseStep, LeaseRealChunk, CompleteRealChunkLease, CanRecord
<1>7. CASE StoreStep
  BY <1>1, <1>7 DEF StoreStep, Save, Insert, SaveFails, taskVars
<1>8. ~ Crash
  BY DEF Crash, Unload
<1> QED
  BY <1>3, <1>4, <1>5, <1>6, <1>7, <1>8 DEF Next

(***************************************************************************)
(* No operation takes a recorded chunk back while the task stays in the    *)
(* map, and none records one for a task that is Cancelled or has Failed,   *)
(* whichever worker still reports and whatever the store does: what a user *)
(* has stopped stands still.                                               *)
(***************************************************************************)
THEOREM ProgressGrows == Spec => ProgressOnlyGrows
<1> DEFINE Grows == loaded /\ loaded' /\ call # "insert" =>
                      /\ done \subseteq done'
                      /\ state \in {"Cancelled", "Failed"} => done' = done
<1>1. Init => TickRuns
  BY DEF Init, TickRuns
<1>2. TickRuns /\ [Next]_vars => TickRuns'
  BY StepKeepsTickRuns DEF TickRuns, vars, taskVars, callVars
<1>3. TickRuns /\ [Next]_vars => [Grows]_vars
  BY StepKeepsProgress
<1>4. ProgressOnlyGrows <=> [][Grows]_vars
  BY DEF ProgressOnlyGrows
<1> HIDE DEF Grows
<1> QED
  BY <1>1, <1>2, <1>3, <1>4, PTL DEF Spec
-----------------------------------------------------------------------------
(***************************************************************************)
(* A single-track task.  Nothing of it is ever put down to the lane that   *)
(* is not its own: not in its queues and leases, not in a lane record, in  *)
(* memory or on file, and so not in the metrics made from it.              *)
(***************************************************************************)
TotalOf(m, l) == IF l = "Adb" THEN m.adb ELSE m.wifi

OffTrack(l) ==
  /\ queue[l] = {}
  /\ \A x \in out : x.lane # l
  /\ via[l] = {}
  /\ disk.via[l] = {}
  /\ draft.via[l] = {}
  /\ TotalOf(metrics, l) = 0

\* LaneOf deals a single-track task to its own lane only.
LEMMA NothingDealtOffTrack ==
  ASSUME NEW l \in Lane, l \notin WorkerLanes, NEW n, NEW chunkSz, NEW completed
  PROVE  DealQueues(n, chunkSz, completed)[l] = {}
<1>1. ASSUME NEW c, NEW left PROVE LaneOf(c, left) # l
  BY SchedulerAssumption DEF WorkerLanes, LaneOf
<1> QED
  BY <1>1 DEF DealQueues

\* rebuild_metrics credits nothing to a lane without a record.
LEMMA NothingRebuiltOffTrack ==
  ASSUME NEW l \in Lane, l \notin WorkerLanes, NEW img, img.via[l] = {}
  PROVE  TotalOf(RebuildMetrics(img), l) = 0
<1> DEFINE counted == img.done \cap SplitAll(img.files, img.chunkSize)
           over(k) == {c \in counted : CreditedTo(c, img.via) = k}
<1>1. ASSUME NEW c PROVE CreditedTo(c, img.via) # l
  BY SchedulerAssumption DEF WorkerLanes, CreditedTo
<1>2. over(l) = {}
  BY <1>1
<1>3. BytesOf({}, img.chunkSize) = {}
  BY DEF BytesOf
<1>4. Cardinality(BytesOf(over(l), img.chunkSize)) = 0
  BY <1>2, <1>3, FS_EmptySet
<1>5. /\ RebuildMetrics(img).adb  = Cardinality(BytesOf(over("Adb"), img.chunkSize))
      /\ RebuildMetrics(img).wifi = Cardinality(BytesOf(over("Wifi"), img.chunkSize))
  BY DEF RebuildMetrics
<1> HIDE DEF over
<1> QED
  BY <1>4, <1>5 DEF TotalOf

\* commit_chunk over one lane adds nothing to the other.
LEMMA CommitStaysOnTrack ==
  ASSUME TaskTypeOK, NEW l \in Lane, OffTrack(l),
         NEW S, NEW k \in Lane, k # l, NEW length, CommitChunks(S, k, length)
  PROVE  via'[l] = {} /\ TotalOf(metrics', l) = 0
  BY DEF CommitChunks, TaskTypeOK, OffTrack, TotalOf

\* A report over the lane of the task.
LEMMA ReportStaysOnTrack ==
  ASSUME TaskTypeOK, NEW l \in Lane, OffTrack(l),
         NEW S, NEW k \in Lane, k # l, NEW length, CommitChunks(S, k, length),
         queue'[l] = {}, out' \subseteq out, BeginSave
  PROVE  OffTrack(l)'
<1>1. via'[l] = {} /\ TotalOf(metrics', l) = 0
  BY CommitStaysOnTrack
<1>2. UNCHANGED <<disk, draft>>
  BY DEF BeginSave, diskVars
<1> QED
  BY <1>1, <1>2 DEF OffTrack

\* A damaged checkpoint reads with no lane it did not record.
LEMMA TornReadsStayOnTrack ==
  ASSUME NEW l \in Lane, NEW img \in Image, img.via[l] = {}, NEW t \in TornReads(img)
  PROVE  t.via[l] = {}
<1>1. img.files \in 0 .. NFiles /\ NFiles \in Nat
  BY ChunkingAssumption DEF Image
<1>2. ASSUME NEW n \in 0 .. NFiles
      PROVE  FilePrefix(img, n) \in Image /\ FilePrefix(img, n).via[l] = {}
  <2>1. FilePrefix(img, n) \in Image
    BY FilePrefixType
  <2>2. FilePrefix(img, n).via = [x \in Lane |-> {c \in img.via[x] : c[1] < n}]
    BY DEF FilePrefix, Image
  <2> QED
    BY <2>1, <2>2
<1>3. ASSUME NEW n \in 0 .. (img.files - 1), t \in DamagedLine(img, n)
      PROVE  t.via[l] = {}
  <2> DEFINE kept        == FilePrefix(img, n)
             whole       == FilePrefix(img, n + 1)
             read(extra) == [kept EXCEPT !.files = n + 1, !.done = @ \cup extra]
             cut(bound)  == [whole EXCEPT !.via = [x \in Lane |->
                               {c \in whole.via[x] : c[1] < n \/ c[2] < bound}]]
             extras      == {{}} \cup {{<<n, i>>} : i \in TornIndices}
             bounds      == {0} \cup {c[2] + 1 : c \in whole.done}
  <2>1. DamagedLine(img, n) = {read(extra) : extra \in extras} \cup {cut(bound) : bound \in bounds}
    BY DEF DamagedLine
  <2>2. n \in 0 .. NFiles /\ n + 1 \in 0 .. NFiles
    BY <1>1
  <2>3. kept \in Image /\ kept.via[l] = {} /\ whole \in Image /\ whole.via[l] = {}
    BY <1>2, <2>2
  <2> HIDE DEF kept, whole, extras, bounds
  <2>4. \A extra : read(extra).via = kept.via
    BY <2>3 DEF Image
  <2>5. \A bound : cut(bound).via
                   = [x \in Lane |-> {c \in whole.via[x] : c[1] < n \/ c[2] < bound}]
    BY <2>3 DEF Image
  <2>6. \A extra : read(extra).via[l] = {}
    BY <2>3, <2>4
  <2>7. \A bound : cut(bound).via[l] = {}
    BY <2>3, <2>5
  <2> HIDE DEF read, cut
  <2> QED
    BY <1>3, <2>1, <2>6, <2>7
<1>4. ASSUME NEW n \in 0 .. img.files, t = FilePrefix(img, n)
      PROVE  t.via[l] = {}
  BY <1>1, <1>2, <1>4
<1> QED
  BY <1>3, <1>4 DEF TornReads

\* A new task records no lane.
LEMMA NoLaneRecordIsEmpty ==
  ASSUME NEW l \in Lane
  PROVE  NoLaneRecord[l] = {} /\ FreshImage.via[l] = {} /\ TotalOf(NoMetrics, l) = 0
  BY DEF NoLaneRecord, FreshImage, NoMetrics, TotalOf

\* A step that moves no chunk.
LEMMA UnmovedStaysOnTrack ==
  ASSUME NEW l \in Lane, OffTrack(l),
         UNCHANGED <<queue, via, metrics>>, out' \subseteq out,
         disk' \in {disk, FreshImage}, draft' \in {draft, FreshImage}
  PROVE  OffTrack(l)'
  BY NoLaneRecordIsEmpty DEF OffTrack

\* A task taken out of the map.
LEMMA UnloadStaysOnTrack ==
  ASSUME NEW l \in Lane, OffTrack(l), Unload, disk'.via[l] = {}, draft'.via[l] = {}
  PROVE  OffTrack(l)'
  BY NoLaneRecordIsEmpty DEF OffTrack, Unload

\* A write that stops part of the way through.
LEMMA WriteStoppedStaysOnTrack ==
  ASSUME TypeOK, NEW l \in Lane, OffTrack(l), WriteStopped
  PROVE  disk'.via[l] = {}
<1>1. Pending \in Image /\ Pending.via[l] = {}
  BY PendingType DEF TypeOK, OffTrack, Pending, MemoryImage
<1>2. \A t \in TornReads(Pending) : t.via[l] = {}
  BY <1>1, TornReadsStayOnTrack
<1> QED
  BY <1>2, NoLaneRecordIsEmpty DEF WriteStopped, WriteFile, diskVars, OffTrack

\* Every step leaves the other lane alone.
LEMMA StepStaysOnTrack ==
  ASSUME TypeOK, NEW l \in Lane, l \notin WorkerLanes, OffTrack(l), Next
  PROVE  OffTrack(l)'
<1> USE DEF TypeOK
<1>1. ASSUME NEW lease \in Lease, lease.chunk \in queue[lease.lane] \/ lease \in out
      PROVE  lease.lane \in Lane /\ lease.lane # l
  BY <1>1 DEF OffTrack, Lease
<1>2. ASSUME NEW s, SetState(s) PROVE OffTrack(l)'
  BY <1>2, UnmovedStaysOnTrack DEF SetState, BeginSave, schedVars, diskVars
<1>3. CASE UserStep
  <2>1. CASE CreateTask \/ CreateOrRecoverTask
    BY <2>1, UnmovedStaysOnTrack
    DEF CreateTask, CreateOrRecoverTask, BeginInsert, taskVars, schedVars, diskVars
  <2>2. CASE RecoverTask
    <3>1. /\ UNCHANGED taskVars /\ UNCHANGED schedVars /\ UNCHANGED diskVars
          /\ draft' = [disk EXCEPT !.state = ResumedState(disk.state)]
      BY <2>2 DEF RecoverTask, BeginInsert
    <3>2. draft'.via = disk.via
      BY <3>1 DEF DiskTypeOK, Image
    <3> QED
      BY <3>1, <3>2 DEF taskVars, schedVars, diskVars, OffTrack
  <2>3. CASE DeleteTaskRecord
    BY <2>3, UnloadStaysOnTrack, NoLaneRecordIsEmpty
    DEF DeleteTaskRecord, callVars, diskVars, OffTrack
  <2>4. ASSUME NEW size \in ChunkSizes, ReconfigureTaskChunkSize(size)
        PROVE  OffTrack(l)'
    <3> DEFINE img == [MemoryImage EXCEPT !.chunkSize = AtLeastOne(size)]
    <3>1. img.via = via
      BY DEF MemoryImage
    <3>2. /\ metrics' = RebuildMetrics(img)
          /\ queue' = DealQueues(files, img.chunkSize, done)
          /\ out' = {} /\ UNCHANGED <<via, disk, draft>>
      BY <2>4 DEF ReconfigureTaskChunkSize, BeginSave, diskVars
    <3> HIDE DEF img
    <3>3. TotalOf(metrics', l) = 0
      BY <3>1, <3>2, NothingRebuiltOffTrack DEF OffTrack
    <3>4. queue'[l] = {}
      BY <3>2, NothingDealtOffTrack
    <3> QED
      BY <3>2, <3>3, <3>4 DEF OffTrack
  <2> QED
    BY <1>2, <1>3, <2>1, <2>2, <2>3, <2>4
    DEF UserStep, PauseTask, ResumeTask, CancelTask, RetryTask
<1>4. CASE TickStep
  <2>1. CASE TickTask \/ TickEnd
    BY <2>1, UnmovedStaysOnTrack DEF TickTask, TickEnd, BeginSave, schedVars, diskVars
  <2>2. CASE TickChunk
    <3>1. PICK lease \in TickOffer :
            /\ CommitChunks({lease.chunk}, lease.lane, SplitLength({lease.chunk}))
            /\ queue' = PopFront(lease)
      BY <2>2 DEF TickChunk
    <3>2. lease \in Lease /\ lease.chunk \in queue[lease.lane]
      BY <3>1, OfferIsQueued DEF TickOffer
    <3>3. lease.lane \in Lane /\ lease.lane # l
      BY <1>1, <3>2
    <3>4. via'[l] = {} /\ TotalOf(metrics', l) = 0
      BY <3>1, <3>3, CommitStaysOnTrack
    <3>5. queue'[l] = {}
      BY <3>1, <3>3 DEF PopFront, OffTrack, SchedulerTypeOK
    <3> QED
      BY <2>2, <3>4, <3>5 DEF TickChunk, diskVars, OffTrack
  <2> QED
    BY <1>4, <2>1, <2>2 DEF TickStep
<1>5. CASE WorkerStep
  <2>1. ASSUME NEW c, NEW length, NEW k \in WorkerLanes, NEW markCompleted,
               RecordRealChunkCommit(c, length, k, markCompleted)
        PROVE  OffTrack(l)'
    <3>1. k \in Lane /\ k # l
      BY SchedulerAssumption DEF WorkerLanes
    <3> QED
      BY <2>1, <3>1, ReportStaysOnTrack DEF RecordRealChunkCommit, schedVars, OffTrack
  <2>2. ASSUME NEW f, NEW k \in WorkerLanes, RecordRealFileComplete(f, k)
        PROVE  OffTrack(l)'
    <3>1. k \in Lane /\ k # l
      BY SchedulerAssumption DEF WorkerLanes
    <3> QED
      BY <2>2, <3>1, ReportStaysOnTrack DEF RecordRealFileComplete, schedVars, OffTrack
  <2>3. ASSUME NEW f, RecordUnknownFile(f)
        PROVE  OffTrack(l)'
    BY <2>3, UnmovedStaysOnTrack DEF RecordUnknownFile, schedVars, callVars, diskVars
  <2>4. ~ ReportBundledFile
    BY DEF ReportBundledFile, WorkerLanes
  <2>5. ASSUME NEW k \in WorkerLanes, ReportChunk(k)
        PROVE  OffTrack(l)'
    BY <2>1, <2>5 DEF ReportChunk
  <2> QED
    BY <1>2, <1>5, <2>2, <2>3, <2>4, <2>5 DEF WorkerStep, RecordTaskFailure
<1>6. CASE LeaseStep
  <2>1. ASSUME NEW k \in Lane, LeaseRealChunk(k)
        PROVE  OffTrack(l)'
    <3>1. UNCHANGED <<via, metrics, disk, draft>>
      BY <2>1 DEF LeaseRealChunk, callVars, diskVars
    <3>2. CASE LeaseNext(k)
      <4>1. PICK lease \in Offer(k) : queue' = PopFront(lease) /\ out' = out \cup {lease}
        BY <3>2 DEF LeaseNext
      <4>2. lease \in Lease /\ lease.chunk \in queue[lease.lane]
        BY <4>1, OfferIsQueued
      <4>3. lease.lane \in Lane /\ lease.lane # l
        BY <1>1, <4>2
      <4>4. queue'[l] = {} /\ \A x \in out' : x.lane # l
        BY <4>1, <4>3 DEF PopFront, OffTrack, SchedulerTypeOK
      <4> QED
        BY <3>1, <4>4 DEF OffTrack
    <3>3. CASE UNCHANGED schedVars
      BY <3>1, <3>3, UnmovedStaysOnTrack DEF schedVars
    <3> QED
      BY <2>1, <3>2, <3>3 DEF LeaseRealChunk
  <2>2. ASSUME NEW lease \in out, CompleteRealChunkLease(lease)
        PROVE  OffTrack(l)'
    <3>1. lease.lane \in Lane /\ lease.lane # l
      BY <1>1 DEF SchedulerTypeOK
    <3>2. /\ CommitChunks({lease.chunk}, lease.lane, SplitLength({lease.chunk}))
          /\ queue' = queue /\ out' \subseteq out /\ BeginSave
      BY <2>2 DEF CompleteRealChunkLease, Complete
    <3> QED
      BY <3>1, <3>2, ReportStaysOnTrack DEF OffTrack
  <2> QED
    BY <1>6, <2>1, <2>2 DEF LeaseStep
<1>7. CASE StoreStep
  <2>1. CASE Save
    BY <2>1, NoLaneRecordIsEmpty
    DEF Save, WriteFile, MemoryImage, Return, taskVars, schedVars, OffTrack
  <2>2. CASE Insert
    <3>1. /\ via' = draft.via /\ metrics' = RebuildMetrics(draft)
          /\ queue' = DealQueues(draft.files, draft.chunkSize, draft.done) /\ out' = {}
          /\ disk' = draft /\ draft' = FreshImage
      BY <2>2 DEF Insert, Load, WriteFile, Return
    <3>2. TotalOf(metrics', l) = 0
      BY <3>1, NothingRebuiltOffTrack DEF OffTrack
    <3>3. queue'[l] = {}
      BY <3>1, NothingDealtOffTrack
    <3> QED
      BY <3>1, <3>2, <3>3, NoLaneRecordIsEmpty DEF OffTrack
  <2>3. CASE SaveFails
    BY <2>3, WriteStoppedStaysOnTrack, NoLaneRecordIsEmpty
    DEF SaveFails, Return, taskVars, schedVars, OffTrack
  <2> QED
    BY <1>7, <2>1, <2>2, <2>3 DEF StoreStep
<1>8. CASE Crash
  <2>1. disk'.via[l] = {}
    BY <1>8, WriteStoppedStaysOnTrack DEF Crash, diskVars, OffTrack
  <2> QED
    BY <1>8, <2>1, UnloadStaysOnTrack, NoLaneRecordIsEmpty DEF Crash, Return
<1> QED
  BY <1>3, <1>4, <1>5, <1>6, <1>7, <1>8 DEF Next

(***************************************************************************)
(* A single-track task leases its chunks and credits its bytes over its    *)
(* own lane only, for every limit, fallback and resize and whatever a      *)
(* damaged checkpoint reads as: the lane that asks does not matter, and a  *)
(* chunk without a lane on record is credited to the lane of the mode.     *)
(***************************************************************************)
THEOREM SingleTrackHolds == Spec => []SingleTrackKeepsItsLane
<1> DEFINE Inv == TypesAndTotals /\ \A l \in Lane \ WorkerLanes : OffTrack(l)
<1>1. Init => Inv
  <2> SUFFICES ASSUME Init PROVE Inv
    OBVIOUS
  <2>1. ASSUME NEW l \in Lane PROVE OffTrack(l)
    BY NoLaneRecordIsEmpty DEF Init, OffTrack
  <2> QED
    BY <2>1, InitTypesAndTotals
<1>2. Inv /\ [Next]_vars => Inv'
  <2> SUFFICES ASSUME Inv, [Next]_vars PROVE Inv'
    OBVIOUS
  <2>1. WorkerLanes' = WorkerLanes
    BY DEF WorkerLanes
  <2>2. ASSUME NEW l \in Lane, l \notin WorkerLanes PROVE OffTrack(l)'
    <3>1. CASE Next
      BY <2>2, <3>1, StepStaysOnTrack DEF TypesAndTotals
    <3>2. CASE UNCHANGED vars
      BY <2>2, <3>2, UnmovedStaysOnTrack DEF vars, taskVars, schedVars, callVars, diskVars
    <3> QED
      BY <3>1, <3>2
  <2> QED
    BY <2>1, <2>2, NextKeepsTypesAndTotals
<1>3. Inv => SingleTrackKeepsItsLane
  <2> SUFFICES ASSUME Inv PROVE SingleTrackKeepsItsLane
    OBVIOUS
  <2>0. \A x \in out : x.lane \in Lane
    BY DEF TypesAndTotals, TypeOK, SchedulerTypeOK, Lease
  <2>1. CASE Mode = "AdbOnly"
    <3>1. OffTrack("Wifi")
      BY <2>1 DEF WorkerLanes, Lane
    <3>2. metrics.wifi = 0
      BY <3>1 DEF OffTrack, TotalOf
    <3>3. \A x \in out : x.lane = "Adb"
      BY <2>0, <3>1 DEF OffTrack, Lane
    <3> QED
      BY <2>1, <3>2, <3>3 DEF SingleTrackKeepsItsLane
  <2>2. CASE Mode = "WifiOnly"
    <3>1. OffTrack("Adb")
      BY <2>2 DEF WorkerLanes, Lane
    <3>2. metrics.adb = 0
      BY <3>1 DEF OffTrack, TotalOf
    <3>3. \A x \in out : x.lane = "Wifi"
      BY <2>0, <3>1 DEF OffTrack, Lane
    <3> QED
      BY <2>2, <3>2, <3>3 DEF SingleTrackKeepsItsLane
  <2> QED
    BY <2>1, <2>2 DEF SingleTrackKeepsItsLane
<1> HIDE DEF Inv
<1> QED
  BY <1>1, <1>2, <1>3, PTL DEF Spec
-----------------------------------------------------------------------------
(***************************************************************************)
(* The metrics, kept up report by report, are those of the checkpoint.     *)
(* The chunks that count are those of the split in force, so what is still *)
(* to be dealt or out must be of that split too.                           *)
(***************************************************************************)
Counted == done \cap SplitAll(files, chunkSize)
CountedOver(l) == {c \in Counted : CreditedTo(c, via) = l}
Amount(S) == Cardinality(BytesOf(S, chunkSize))

MetricsInOrder ==
  loaded => /\ metrics = RebuildMetrics(MemoryImage)
            /\ \A l \in Lane : queue[l] \subseteq SplitAll(files, chunkSize)
            /\ \A x \in out : x.chunk \in SplitAll(files, chunkSize)

\* rebuild_metrics of the checkpoint in memory, spelled out.
LEMMA MetricsOfMemory ==
  RebuildMetrics(MemoryImage)
  = [chunks |-> Cardinality(Counted), bytes |-> Amount(Counted),
     adb |-> Amount(CountedOver("Adb")), wifi |-> Amount(CountedOver("Wifi"))]
  BY DEF RebuildMetrics, MemoryImage, Counted, CountedOver, Amount

(***************************************************************************)
(* What a commit of chunks of the split adds to the metrics is what        *)
(* rebuild_metrics finds more in the checkpoint after it.                  *)
(***************************************************************************)
LEMMA CommitMovesCounted ==
  ASSUME TaskTypeOK, NEW S \in SUBSET SplitAll(NFiles, chunkSize),
         NEW l \in Lane, NEW length, CommitChunks(S, l, length),
         UNCHANGED <<files, chunkSize>>
  PROVE  /\ Counted' = Counted \cup Fresh(S) /\ Counted \cap Fresh(S) = {}
         /\ CountedOver(l)' = CountedOver(l) \cup Fresh(S)
         /\ \A k \in Lane \ {l} : CountedOver(k)' = CountedOver(k)
<1>1. files \in 0 .. NFiles /\ chunkSize \in Nat
  BY ChunkingAssumption DEF TaskTypeOK
<1>2. Fresh(S) \subseteq SplitAll(files, chunkSize) /\ Fresh(S) \cap done = {}
  BY <1>1, SplitAllOfFewerFiles DEF Fresh
<1>3. Counted' = Counted \cup Fresh(S) /\ Counted \cap Fresh(S) = {}
  BY <1>2 DEF CommitChunks, Counted
<1>4. via' = [k \in Lane |-> IF k = l THEN via[k] \cup Fresh(S) ELSE via[k] \ Fresh(S)]
  BY DEF CommitChunks
<1>5. ASSUME NEW c \in Fresh(S) PROVE CreditedTo(c, via') = l
  BY <1>4 DEF CreditedTo
<1>6. ASSUME NEW c \in Counted PROVE CreditedTo(c, via') = CreditedTo(c, via)
  <2>1. c \notin Fresh(S)
    BY <1>3
  <2>2. /\ c \in via'["Adb"] <=> c \in via["Adb"]
        /\ c \in via'["Wifi"] <=> c \in via["Wifi"]
    BY <1>4, <2>1
  <2> QED
    BY <2>2 DEF CreditedTo
<1>7. \A k : CountedOver(k)' = {c \in Counted' : CreditedTo(c, via') = k}
  BY DEF CountedOver, CreditedTo
<1> QED
  BY <1>3, <1>5, <1>6, <1>7 DEF CountedOver

\* So the metrics stay those of the checkpoint.
LEMMA CommitKeepsMetrics ==
  ASSUME TaskTypeOK, metrics = RebuildMetrics(MemoryImage),
         NEW S \in SUBSET SplitAll(NFiles, chunkSize),
         NEW l \in Lane, NEW length, length = Amount(Fresh(S)),
         CommitChunks(S, l, length),
         UNCHANGED <<files, chunkSize>>
  PROVE  metrics' = RebuildMetrics(MemoryImage)'
<1>1. /\ Counted' = Counted \cup Fresh(S) /\ Counted \cap Fresh(S) = {}
      /\ CountedOver(l)' = CountedOver(l) \cup Fresh(S)
      /\ \A k \in Lane \ {l} : CountedOver(k)' = CountedOver(k)
  BY CommitMovesCounted
<1>2. CountedOver(l) \cap Fresh(S) = {}
  BY <1>1 DEF CountedOver
<1>3. files \in 0 .. NFiles /\ NFiles \in 0 .. NFiles /\ chunkSize \in Nat
  BY ChunkingAssumption DEF TaskTypeOK
<1>4. IsFiniteSet(Counted) /\ IsFiniteSet(Fresh(S))
  BY <1>3, SplitAllIsFinite, FS_Subset DEF Counted, Fresh
<1>5. Cardinality(Counted \cup Fresh(S)) = Cardinality(Counted) + Cardinality(Fresh(S))
  <2>1. Cardinality(Counted \cup Fresh(S))
        = Cardinality(Counted) + Cardinality(Fresh(S)) - Cardinality(Counted \cap Fresh(S))
    BY <1>4, FS_Union
  <2>2. Cardinality(Counted \cap Fresh(S)) = 0
    BY <1>1, FS_EmptySet
  <2>3. Cardinality(Counted) \in Nat /\ Cardinality(Fresh(S)) \in Nat
    BY <1>4, FS_CardinalityType
  <2> QED
    BY <2>1, <2>2, <2>3
<1>6. /\ Amount(Counted \cup Fresh(S)) = Amount(Counted) + length
      /\ Amount(CountedOver(l) \cup Fresh(S)) = Amount(CountedOver(l)) + length
  BY <1>1, <1>2, BytesOfParts DEF Amount
<1>7. /\ metrics.chunks = Cardinality(Counted) /\ metrics.bytes = Amount(Counted)
      /\ metrics.adb = Amount(CountedOver("Adb")) /\ metrics.wifi = Amount(CountedOver("Wifi"))
  BY MetricsOfMemory
<1>8. /\ \A T : Amount(T) \in Nat
      /\ Amount(Counted)' = Amount(Counted') /\ Amount(CountedOver("Adb"))' = Amount(CountedOver("Adb")')
      /\ Amount(CountedOver("Wifi"))' = Amount(CountedOver("Wifi")')
  BY BytesOfIsFinite DEF Amount
<1>9. metrics' = [chunks |-> metrics.chunks + Cardinality(Fresh(S)),
                  bytes  |-> metrics.bytes + length,
                  adb    |-> metrics.adb + (IF l = "Adb" THEN length ELSE 0),
                  wifi   |-> metrics.wifi + (IF l = "Wifi" THEN length ELSE 0)]
  BY DEF CommitChunks
<1>10. RebuildMetrics(MemoryImage)'
       = [chunks |-> Cardinality(Counted'), bytes |-> Amount(Counted'),
          adb |-> Amount(CountedOver("Adb")'), wifi |-> Amount(CountedOver("Wifi")')]
  BY DEF RebuildMetrics, MemoryImage, Counted, CountedOver, Amount
<1>11. ASSUME NEW k \in Lane
       PROVE  Amount(CountedOver(k)') = Amount(CountedOver(k)) + (IF l = k THEN length ELSE 0)
  <2>1. CASE k = l
    BY <1>1, <1>6, <2>1
  <2>2. CASE k # l
    <3>1. CountedOver(k)' = CountedOver(k)
      BY <1>1, <2>2
    <3>2. Amount(CountedOver(k)) \in Nat
      BY <1>8
    <3> QED
      BY <2>2, <3>1, <3>2
  <2> QED
    BY <2>1, <2>2
<1>12. /\ Cardinality(Counted') = Cardinality(Counted) + Cardinality(Fresh(S))
       /\ Amount(Counted') = Amount(Counted) + length
  BY <1>1, <1>5, <1>6
<1>13. /\ Amount(CountedOver("Adb")')  = metrics.adb + (IF l = "Adb" THEN length ELSE 0)
       /\ Amount(CountedOver("Wifi")') = metrics.wifi + (IF l = "Wifi" THEN length ELSE 0)
  BY <1>7, <1>11
<1> QED
  BY <1>7, <1>9, <1>10, <1>12, <1>13, Zenon

(***************************************************************************)
(* A report of chunks of the split.                                        *)
(***************************************************************************)
LEMMA ReportKeepsMetrics ==
  ASSUME TypeOK, MetricsInOrder, loaded,
         NEW S \in SUBSET SplitAll(NFiles, chunkSize),
         NEW l \in Lane, NEW length, length = Amount(Fresh(S)),
         CommitChunks(S, l, length),
         UNCHANGED <<files, chunkSize>>,
         \A k \in Lane : queue'[k] \subseteq queue[k], out' \subseteq out
  PROVE  MetricsInOrder'
<1>1. metrics' = RebuildMetrics(MemoryImage)'
  BY CommitKeepsMetrics DEF TypeOK, MetricsInOrder
<1>2. SplitAll(files, chunkSize)' = SplitAll(files, chunkSize)
  OBVIOUS
<1> QED
  BY <1>1, <1>2 DEF MetricsInOrder

(***************************************************************************)
(* Nothing the metrics are made from changes.                              *)
(***************************************************************************)
LEMMA IdleKeepsMetrics ==
  ASSUME MetricsInOrder,
         UNCHANGED <<loaded, files, done, via, chunkSize, metrics, queue, out>>
  PROVE  MetricsInOrder'
<1>1. RebuildMetrics(MemoryImage)' = RebuildMetrics(MemoryImage)
  BY DEF RebuildMetrics, MemoryImage
<1> QED
  BY <1>1 DEF MetricsInOrder

(***************************************************************************)
(* A scheduler and metrics made anew.                                      *)
(***************************************************************************)
LEMMA MadeAnewKeepsMetrics ==
  ASSUME metrics' = RebuildMetrics(MemoryImage)',
         queue' = DealQueues(files', chunkSize', done'), out' = {}
  PROVE  MetricsInOrder'
<1>1. \A l \in Lane : queue'[l] \subseteq SplitAll(files', chunkSize')
  BY DEF DealQueues
<1> QED
  BY <1>1 DEF MetricsInOrder

(***************************************************************************)
(* The length a worker reports with a chunk is what the chunk holds: as    *)
(* the split has it, or a whole small file that is one chunk.              *)
(***************************************************************************)
BundlesAreOneChunk ==
  Mode = "Dual" => \A f \in File, size \in ChunkSizes :
    ~ IsLarge(f, Threshold) => FileSize[f] <= AtLeastOne(size)

\* A worker that reports a chunk counts what the chunk holds, or nothing.
LEMMA ReportedLength ==
  ASSUME chunkSize \in Nat, NEW c \in SplitAll(NFiles, chunkSize)
  PROVE  (IF Fresh({c}) = {} THEN 0 ELSE Length(FileSize[c[1]], chunkSize, c[2]))
         = Amount(Fresh({c}))
<1>1. PICK f \in File : c \in Split(f, chunkSize)
  BY DEF SplitAll, File
<1>2. c = <<f, c[2]>> /\ c[2] \in Nat /\ c[1] = f
  BY <1>1 DEF Split
<1>3. Amount({c}) = Length(FileSize[c[1]], chunkSize, c[2])
  <2>1. Cardinality(BytesOf({<<f, c[2]>>}, chunkSize)) = Length(FileSize[f], chunkSize, c[2])
    BY <1>2, ChunkHoldsItsLength
  <2> QED
    BY <1>2, <2>1, Zenon DEF Amount
<1>4. Amount({}) = 0
  <2>1. BytesOf({}, chunkSize) = {}
    BY DEF BytesOf
  <2> QED
    BY <2>1, FS_EmptySet DEF Amount
<1>5. Fresh({c}) = {} \/ Fresh({c}) = {c}
  BY DEF Fresh
<1>6. {c} # {}
  OBVIOUS
<1> HIDE DEF Amount
<1> QED
  BY <1>3, <1>4, <1>5, <1>6, Zenon

\* Chunk 0 of a file that is one chunk is the file.
LEMMA FirstChunkOfSmallFile ==
  ASSUME TypeOK, BundlesAreOneChunk, Mode = "Dual", NEW f \in File, ~ IsLarge(f, Threshold)
  PROVE  /\ <<f, 0>> \in SplitAll(NFiles, chunkSize)
         /\ Length(FileSize[f], chunkSize, 0) = FileSize[f]
<1>1. chunkSize \in ChunkSizes /\ chunkSize \in Nat /\ FileSize[f] \in Nat
  BY ChunkingAssumption DEF TypeOK, TaskTypeOK
<1>2. FileSize[f] <= AtLeastOne(chunkSize)
  BY <1>1 DEF BundlesAreOneChunk
<1>3. Length(FileSize[f], chunkSize, 0) = FileSize[f]
  <2>1. AtLeastOne(chunkSize) \in Nat
    BY <1>1 DEF AtLeastOne
  <2>2. Offset(chunkSize, 0) = 0
    BY <2>1 DEF Offset
  <2> QED
    BY <1>1, <1>2, <2>1, <2>2 DEF Length
<1>4. NumChunks(f, chunkSize) \in Nat \ {0}
  BY <1>1, ChunkCountIsPositive DEF NumChunks
<1>5. <<f, 0>> \in Split(f, chunkSize)
  BY <1>4 DEF Split
<1> QED
  BY <1>3, <1>5 DEF SplitAll, File
-----------------------------------------------------------------------------
\* Every step keeps the metrics those of the checkpoint.
LEMMA StepKeepsMetrics ==
  ASSUME TypeOK, MetricsInOrder, BundlesAreOneChunk, Next
  PROVE  MetricsInOrder'
<1>1. files \in 0 .. NFiles /\ chunkSize \in Nat
  BY ChunkingAssumption DEF TypeOK, TaskTypeOK
<1>2. SplitAll(files, chunkSize) \subseteq SplitAll(NFiles, chunkSize)
  <2>1. 0 .. (files - 1) \subseteq 0 .. (NFiles - 1)
    BY <1>1, ChunkingAssumption
  <2> QED
    BY <2>1 DEF SplitAll
<1>3. CASE UserStep
  <2>1. CASE CreateTask \/ CreateOrRecoverTask \/ RecoverTask
    BY <2>1, IdleKeepsMetrics
    DEF CreateTask, CreateOrRecoverTask, RecoverTask, BeginInsert, taskVars, schedVars
  <2>2. CASE PauseTask \/ ResumeTask \/ CancelTask \/ RetryTask
    BY <2>2, IdleKeepsMetrics
    DEF PauseTask, ResumeTask, CancelTask, RetryTask, SetState, schedVars
  <2>3. CASE DeleteTaskRecord
    BY <2>3 DEF DeleteTaskRecord, Unload, MetricsInOrder
  <2>4. ASSUME NEW size \in ChunkSizes, ReconfigureTaskChunkSize(size)
        PROVE  MetricsInOrder'
    <3>1. [MemoryImage EXCEPT !.chunkSize = AtLeastOne(size)] = MemoryImage'
      BY <2>4 DEF ReconfigureTaskChunkSize, MemoryImage
    <3>2. /\ metrics' = RebuildMetrics(MemoryImage')
          /\ queue' = DealQueues(files', chunkSize', done') /\ out' = {}
      BY <2>4, <3>1 DEF ReconfigureTaskChunkSize, MemoryImage
    <3>3. RebuildMetrics(MemoryImage)' = RebuildMetrics(MemoryImage')
      BY DEF RebuildMetrics, CreditedTo
    <3> QED
      BY <3>2, <3>3, MadeAnewKeepsMetrics
  <2> QED
    BY <1>3, <2>1, <2>2, <2>3, <2>4 DEF UserStep
<1>4. CASE TickStep
  <2>1. CASE TickTask \/ TickEnd
    BY <2>1, IdleKeepsMetrics DEF TickTask, TickEnd, schedVars
  <2>2. CASE TickChunk
    <3>1. PICK lease \in TickOffer :
            /\ CommitChunks({lease.chunk}, lease.lane, SplitLength({lease.chunk}))
            /\ queue' = PopFront(lease)
      BY <2>2 DEF TickChunk
    <3>2. lease.lane \in Lane /\ lease.chunk \in queue[lease.lane]
      BY <3>1, OfferIsQueued DEF TickOffer, TypeOK, Lease
    <3>3. \A k \in Lane : queue'[k] \subseteq queue[k]
      BY <3>1, <3>2 DEF PopFront, TypeOK, SchedulerTypeOK
    <3>4. CASE loaded
      <4>1. {lease.chunk} \in SUBSET SplitAll(NFiles, chunkSize)
        BY <1>2, <3>2, <3>4 DEF MetricsInOrder
      <4>2. SplitLength({lease.chunk}) = Amount(Fresh({lease.chunk}))
        BY DEF SplitLength, Amount
      <4>3. UNCHANGED <<files, chunkSize, out>>
        BY <2>2 DEF TickChunk
      <4> QED
        BY <3>1, <3>2, <3>3, <3>4, <4>1, <4>2, <4>3, ReportKeepsMetrics
    <3>5. CASE ~ loaded
      BY <2>2, <3>5 DEF TickChunk, MetricsInOrder
    <3> QED
      BY <3>4, <3>5
  <2> QED
    BY <1>4, <2>1, <2>2 DEF TickStep
<1>5. CASE WorkerStep
  <2>1. ASSUME NEW c \in SplitAll(NFiles, chunkSize), NEW l \in Lane, NEW markCompleted,
               RecordRealChunkCommit(c, Length(FileSize[c[1]], chunkSize, c[2]), l, markCompleted)
        PROVE  MetricsInOrder'
    <3> DEFINE length == IF Fresh({c}) = {} THEN 0 ELSE Length(FileSize[c[1]], chunkSize, c[2])
    <3>1. length = Amount(Fresh({c}))
      BY <1>1, ReportedLength
    <3>2. /\ loaded /\ CommitChunks({c}, l, length)
          /\ UNCHANGED <<files, chunkSize, queue, out>>
      BY <2>1 DEF RecordRealChunkCommit, CanRecord, schedVars
    <3> HIDE DEF length
    <3> QED
      BY <3>1, <3>2, ReportKeepsMetrics
  <2>2. WorkerLanes \subseteq Lane
    BY SchedulerAssumption DEF WorkerLanes
  <2>3. ASSUME NEW l \in WorkerLanes, ReportChunk(l)
        PROVE  MetricsInOrder'
    BY <2>1, <2>2, <2>3 DEF ReportChunk
  <2>4. CASE ReportBundledFile
    <3>1. Mode = "Dual"
      BY <2>4 DEF ReportBundledFile
    <3>2. PICK f \in File :
            ~ IsLarge(f, Threshold) /\ RecordRealChunkCommit(<<f, 0>>, FileSize[f], "Wifi", TRUE)
      BY <2>4 DEF ReportBundledFile
    <3>3. /\ <<f, 0>> \in SplitAll(NFiles, chunkSize)
          /\ Length(FileSize[f], chunkSize, 0) = FileSize[f]
      BY <3>1, <3>2, FirstChunkOfSmallFile
    <3> DEFINE c == <<f, 0>>
    <3>4. RecordRealChunkCommit(c, Length(FileSize[c[1]], chunkSize, c[2]), "Wifi", TRUE)
      BY <3>2, <3>3
    <3> QED
      BY <2>1, <3>3, <3>4
  <2>5. ASSUME NEW f \in File, NEW l \in WorkerLanes, RecordRealFileComplete(f, l)
        PROVE  MetricsInOrder'
    <3>1. Split(f, chunkSize) \in SUBSET SplitAll(NFiles, chunkSize)
      BY DEF SplitAll, File
    <3>2. SplitLength(Split(f, chunkSize)) = Amount(Fresh(Split(f, chunkSize)))
      BY DEF SplitLength, Amount
    <3>3. /\ loaded /\ CommitChunks(Split(f, chunkSize), l, SplitLength(Split(f, chunkSize)))
          /\ UNCHANGED <<files, chunkSize, queue, out>>
      BY <2>5 DEF RecordRealFileComplete, CanRecord, schedVars
    <3> QED
      BY <2>2, <3>1, <3>2, <3>3, ReportKeepsMetrics
  <2>6. ASSUME NEW f \in File, RecordUnknownFile(f)
        PROVE  MetricsInOrder'
    BY <2>6, IdleKeepsMetrics DEF RecordUnknownFile, schedVars
  <2>7. CASE RecordTaskFailure
    BY <2>7, IdleKeepsMetrics DEF RecordTaskFailure, SetState, schedVars
  <2> QED
    BY <1>5, <2>3, <2>4, <2>5, <2>6, <2>7 DEF WorkerStep
<1>6. CASE LeaseStep
  <2>1. ASSUME NEW l \in Lane, LeaseRealChunk(l)
        PROVE  MetricsInOrder'
    <3>1. UNCHANGED <<loaded, files, done, via, chunkSize, metrics>>
      BY <2>1 DEF LeaseRealChunk
    <3>2. CASE LeaseNext(l)
      <4>1. PICK lease \in Offer(l) : queue' = PopFront(lease) /\ out' = out \cup {lease}
        BY <3>2 DEF LeaseNext
      <4>2. lease.lane \in Lane /\ lease.chunk \in queue[lease.lane]
        BY <4>1, OfferIsQueued DEF TypeOK, Lease
      <4>3. \A k \in Lane : queue'[k] \subseteq queue[k]
        BY <4>1, <4>2 DEF PopFront, TypeOK, SchedulerTypeOK
      <4>4. RebuildMetrics(MemoryImage)' = RebuildMetrics(MemoryImage)
        BY <3>1 DEF RebuildMetrics, MemoryImage
      <4>5. loaded => \A x \in out' : x.chunk \in SplitAll(files, chunkSize)
        BY <4>1, <4>2 DEF MetricsInOrder
      <4> QED
        BY <3>1, <4>3, <4>4, <4>5 DEF MetricsInOrder
    <3>3. CASE UNCHANGED schedVars
      BY <3>1, <3>3, IdleKeepsMetrics DEF schedVars
    <3> QED
      BY <2>1, <3>2, <3>3 DEF LeaseRealChunk
  <2>2. ASSUME NEW lease \in out, CompleteRealChunkLease(lease)
        PROVE  MetricsInOrder'
    <3>1. /\ loaded
          /\ CommitChunks({lease.chunk}, lease.lane, SplitLength({lease.chunk}))
          /\ UNCHANGED <<files, chunkSize>>
          /\ queue' = queue /\ out' \subseteq out
      BY <2>2 DEF CompleteRealChunkLease, CanRecord, Complete
    <3>2. lease.lane \in Lane
      BY DEF TypeOK, SchedulerTypeOK, Lease
    <3>3. {lease.chunk} \in SUBSET SplitAll(NFiles, chunkSize)
      BY <1>2, <3>1 DEF MetricsInOrder
    <3>4. SplitLength({lease.chunk}) = Amount(Fresh({lease.chunk}))
      BY DEF SplitLength, Amount
    <3> QED
      BY <3>1, <3>2, <3>3, <3>4, ReportKeepsMetrics
  <2> QED
    BY <1>6, <2>1, <2>2 DEF LeaseStep
<1>7. CASE StoreStep
  <2>1. CASE Save \/ SaveFails
    BY <2>1, IdleKeepsMetrics DEF Save, SaveFails, taskVars, schedVars
  <2>2. CASE Insert
    <3>1. /\ metrics' = RebuildMetrics(draft)
          /\ queue' = DealQueues(files', chunkSize', done') /\ out' = {}
          /\ files' = draft.files /\ done' = draft.done /\ via' = draft.via
          /\ chunkSize' = draft.chunkSize
      BY <2>2 DEF Insert, Load
    <3>2. RebuildMetrics(MemoryImage)' = RebuildMetrics(draft)
      BY <3>1 DEF RebuildMetrics, MemoryImage, CreditedTo
    <3> QED
      BY <3>1, <3>2, MadeAnewKeepsMetrics
  <2> QED
    BY <1>7, <2>1, <2>2 DEF StoreStep
<1>8. CASE Crash
  BY <1>8 DEF Crash, Unload, MetricsInOrder
<1> QED
  BY <1>3, <1>4, <1>5, <1>6, <1>7, <1>8 DEF Next

(***************************************************************************)
(* The metrics a task shows are those a recovery would compute from its    *)
(* checkpoint, chunk for chunk, byte for byte and lane by lane, through    *)
(* duplicate reports, skipped files, resizes, failed writes and cut        *)
(* checkpoints, when the files the Wi-Fi lane bundles are one chunk long.  *)
(***************************************************************************)
THEOREM MetricsMatch ==
  ASSUME BundlesAreOneChunk
  PROVE  Spec => []MetricsMatchCheckpoint
<1> DEFINE Inv == TypesAndTotals /\ MetricsInOrder
<1>1. Init => Inv
  BY InitTypesAndTotals DEF Init, MetricsInOrder
<1>2. Inv /\ [Next]_vars => Inv'
  <2> SUFFICES ASSUME Inv, [Next]_vars PROVE Inv'
    OBVIOUS
  <2>1. MetricsInOrder'
    <3>1. CASE Next
      BY <3>1, StepKeepsMetrics DEF TypesAndTotals
    <3>2. CASE UNCHANGED vars
      BY <3>2, IdleKeepsMetrics DEF vars, taskVars, schedVars
    <3> QED
      BY <3>1, <3>2
  <2> QED
    BY <2>1, NextKeepsTypesAndTotals
<1>3. Inv => MetricsMatchCheckpoint
  BY DEF MetricsInOrder, MetricsMatchCheckpoint
<1> HIDE DEF Inv
<1> QED
  BY <1>1, <1>2, <1>3, PTL DEF Spec
-----------------------------------------------------------------------------
(***************************************************************************)
(* The engine implements TaskLifecycle, for every number of files, file    *)
(* size, set of chunk sizes, mode and limit: resizes included, and with    *)
(* crashes at every point, as long as the store reports no error and       *)
(* leaves no file half written.                                            *)
(***************************************************************************)
(***************************************************************************)
(* What is about to be inserted is what the file holds, or a fresh task    *)
(* where there is no file that can be read.                                *)
(***************************************************************************)
DraftFromFile ==
  /\ file # "ok" => disk = FreshImage
  /\ call = "insert" =>
       /\ ~ loaded
       /\ draft.done = disk.done
       /\ draft.state \in {"Pending", "Paused", "Completed", "Cancelled"}
       /\ draft.state = "Pending" => draft.done = {}
  /\ call \in {"tick", "save"} => loaded
  /\ call = "tick" => state = "Running"

\* An insertion under way comes from the file or starts anew.
LEMMA NextKeepsDraftFromFile ==
  ASSUME DemoTask = FALSE, IoErrors = FALSE, TornWrites = FALSE,
         TypeOK, DraftFromFile, Next
  PROVE  DraftFromFile'
<1>1. CASE UserStep
  <2>1. ~ CreateTask
    BY DEF CreateTask
  <2>2. CASE CreateOrRecoverTask
    BY <2>2 DEF CreateOrRecoverTask, BeginInsert, taskVars, diskVars, FreshImage, DraftFromFile
  <2>3. CASE RecoverTask
    <3>1. /\ draft' = [disk EXCEPT !.state = ResumedState(disk.state)]
          /\ disk \in Image /\ file = "ok" /\ ~ loaded
          /\ call' = "insert"
          /\ UNCHANGED <<loaded, file, disk>>
      BY <2>3 DEF RecoverTask, BeginInsert, taskVars, diskVars, TypeOK, DiskTypeOK
    <3>2. draft'.done = disk.done
          /\ draft'.state \in {"Paused", "Completed", "Cancelled"}
      BY <3>1 DEF Image, ResumedState
    <3> QED
      BY <3>1, <3>2 DEF DraftFromFile
  <2>4. CASE PauseTask \/ ResumeTask \/ CancelTask \/ RetryTask
    BY <2>4 DEF PauseTask, ResumeTask, CancelTask, RetryTask, SetState, BeginSave, diskVars,
                DraftFromFile
  <2>5. CASE DeleteTaskRecord
    BY <2>5 DEF DeleteTaskRecord, Unload, Free, callVars, diskVars, DraftFromFile
  <2>6. ASSUME NEW size \in ChunkSizes, ReconfigureTaskChunkSize(size)
        PROVE  DraftFromFile'
    BY <2>6 DEF ReconfigureTaskChunkSize, BeginSave, diskVars, DraftFromFile
  <2> QED
    BY <1>1, <2>1, <2>2, <2>3, <2>4, <2>5, <2>6 DEF UserStep
<1>2. CASE TickStep
  BY <1>2 DEF TickStep, TickTask, TickChunk, TickEnd, BeginSave, diskVars, DraftFromFile
<1>3. CASE WorkerStep
  <2>1. ASSUME NEW c, NEW length, NEW l, NEW markCompleted,
               RecordRealChunkCommit(c, length, l, markCompleted)
        PROVE  DraftFromFile'
    BY <2>1 DEF RecordRealChunkCommit, CanRecord, BeginSave, diskVars, DraftFromFile
  <2>2. ASSUME NEW f, NEW l, RecordRealFileComplete(f, l)
        PROVE  DraftFromFile'
    BY <2>2 DEF RecordRealFileComplete, CanRecord, BeginSave, diskVars, DraftFromFile
  <2>3. ASSUME NEW f, RecordUnknownFile(f)
        PROVE  DraftFromFile'
    BY <2>3 DEF RecordUnknownFile, CanRecord, Free, callVars, diskVars, DraftFromFile
  <2>4. CASE RecordTaskFailure
    BY <2>4 DEF RecordTaskFailure, SetState, BeginSave, diskVars, DraftFromFile
  <2>5. ASSUME NEW l, ReportChunk(l)
        PROVE  DraftFromFile'
    BY <2>1, <2>5 DEF ReportChunk
  <2>6. CASE ReportBundledFile
    BY <2>1, <2>6 DEF ReportBundledFile
  <2> QED
    BY <1>3, <2>2, <2>3, <2>4, <2>5, <2>6 DEF WorkerStep
<1>4. CASE LeaseStep
  <2>1. ASSUME NEW l, LeaseRealChunk(l)
        PROVE  DraftFromFile'
    BY <2>1 DEF LeaseRealChunk, CanRecord, Free, callVars, diskVars, DraftFromFile
  <2>2. ASSUME NEW lease, CompleteRealChunkLease(lease)
        PROVE  DraftFromFile'
    BY <2>2 DEF CompleteRealChunkLease, CanRecord, BeginSave, diskVars, DraftFromFile
  <2> QED
    BY <1>4, <2>1, <2>2 DEF LeaseStep
<1>5. CASE StoreStep
  <2>1. CASE Save \/ Insert
    BY <2>1 DEF Save, Insert, WriteFile, Return, DraftFromFile
  <2>2. ~ SaveFails
    BY DEF SaveFails
  <2> QED
    BY <1>5, <2>1, <2>2 DEF StoreStep
<1>6. CASE Crash
  BY <1>6 DEF Crash, Return, WriteStopped, diskVars, DraftFromFile
<1> QED
  BY <1>1, <1>2, <1>3, <1>4, <1>5, <1>6 DEF Next
-----------------------------------------------------------------------------
(***************************************************************************)
(* Each step is one of the abstract task, or none.  A report of progress   *)
(* is its Record.                                                          *)
(***************************************************************************)
LEMMA ReportRecords ==
  ASSUME loaded, loaded', TypeOK', UNCHANGED disk, call' # "none",
         state \notin {"Cancelled", "Failed"}, state \in TaskState,
         NEW S, NEW l, NEW length, CommitChunks(S, l, length),
         state' \in {"Running", "Completed"}
  PROVE  Lifecycle!LifeNext
<1>1. done \subseteq done' /\ done' \in SUBSET Chunk
  BY DEF CommitChunks, TypeOK, TaskTypeOK
<1>2. Lifecycle!Record
  BY <1>1 DEF Lifecycle!Record, Lifecycle!Open, TaskState, Free
<1> QED
  BY <1>2 DEF Lifecycle!LifeNext

\* A change of state alone that the life of a task allows is a step of it.
LEMMA StateMoves ==
  ASSUME loaded, loaded', UNCHANGED <<done, disk>>, state \in TaskState,
         Free' => Free, state' \in Lifecycle!Successors(state)
  PROVE  Lifecycle!LifeNext
<1>1. Lifecycle!Move
  BY DEF Lifecycle!Move
<1> QED
  BY <1>1 DEF Lifecycle!LifeNext

\* Every step of the engine is a step of the life of a task, or none.
LEMMA StepIsAbstract ==
  ASSUME DemoTask = FALSE, IoErrors = FALSE, TornWrites = FALSE,
         TypeOK, TypeOK', DraftFromFile, Next
  PROVE  Lifecycle!LifeNext \/ UNCHANGED Lifecycle!lifeVars
<1> USE DEF Lifecycle!Successors, Lifecycle!Open
<1>0. state \in TaskState
  BY DEF TypeOK, TaskTypeOK
<1>1. CASE UserStep
  <2>1. CASE CreateOrRecoverTask \/ RecoverTask
    BY <2>1 DEF CreateOrRecoverTask, RecoverTask, BeginInsert, taskVars, diskVars,
                Lifecycle!lifeVars
  <2>2. CASE PauseTask \/ ResumeTask \/ CancelTask \/ RetryTask
    <3>1. /\ loaded /\ loaded' /\ Free /\ UNCHANGED <<done, disk>>
          /\ state' \in Lifecycle!Successors(state)
      BY <1>0, <2>2
      DEF PauseTask, ResumeTask, CancelTask, RetryTask, SetState, BeginSave, diskVars, TaskState
    <3> QED
      BY <1>0, <3>1, StateMoves
  <2>3. CASE DeleteTaskRecord
    <3>1. Lifecycle!Discard
      BY <1>0, <2>3 DEF DeleteTaskRecord, Unload, Free, callVars, FreshImage, TaskState,
                  Lifecycle!Discard
    <3> QED
      BY <3>1 DEF Lifecycle!LifeNext
  <2>4. ASSUME NEW size \in ChunkSizes, ReconfigureTaskChunkSize(size)
        PROVE  Lifecycle!LifeNext
    <3>1. /\ loaded /\ loaded' /\ Free /\ UNCHANGED <<done, disk>>
          /\ state' \in Lifecycle!Successors(state)
      BY <1>0, <2>4 DEF ReconfigureTaskChunkSize, BeginSave, diskVars, TaskState
    <3> QED
      BY <1>0, <3>1, StateMoves
  <2>5. ~ CreateTask
    BY DEF CreateTask
  <2> QED
    BY <1>1, <2>1, <2>2, <2>3, <2>4, <2>5 DEF UserStep
<1>2. CASE TickStep
  <2>1. CASE TickTask \/ TickEnd
    <3>1. /\ loaded /\ loaded' /\ UNCHANGED <<done, disk>> /\ call' # "none"
          /\ state' \in Lifecycle!Successors(state)
      BY <1>0, <2>1
      DEF TickTask, TickEnd, BeginSave, diskVars, TaskState, DraftFromFile
    <3> QED
      BY <1>0, <3>1, StateMoves DEF Free
  <2>2. CASE TickChunk
    <3>1. PICK lease \in TickOffer :
            CommitChunks({lease.chunk}, lease.lane, SplitLength({lease.chunk}))
      BY <2>2 DEF TickChunk
    <3>2. /\ loaded /\ loaded' /\ UNCHANGED disk /\ call' # "none"
          /\ state = "Running" /\ state' = "Running"
      BY <2>2 DEF TickChunk, DraftFromFile, diskVars
    <3> QED
      BY <1>0, <3>1, <3>2, ReportRecords
  <2> QED
    BY <1>2, <2>1, <2>2 DEF TickStep
<1>3. CASE WorkerStep
  <2>1. ASSUME NEW c, NEW length, NEW l, NEW markCompleted,
               RecordRealChunkCommit(c, length, l, markCompleted)
        PROVE  Lifecycle!LifeNext
    BY <1>0, <2>1, ReportRecords
    DEF RecordRealChunkCommit, CanRecord, MarkCompletedIfDrained, BeginSave, diskVars
  <2>2. ASSUME NEW f, NEW l, RecordRealFileComplete(f, l)
        PROVE  Lifecycle!LifeNext
    BY <1>0, <2>2, ReportRecords
    DEF RecordRealFileComplete, CanRecord, MarkCompletedIfDrained, BeginSave, diskVars
  <2>3. ASSUME NEW f, RecordUnknownFile(f)
        PROVE  Lifecycle!LifeNext
    <3>1. /\ loaded /\ loaded' /\ Free /\ UNCHANGED <<done, disk>>
          /\ state' \in Lifecycle!Successors(state)
      BY <1>0, <2>3 DEF RecordUnknownFile, CanRecord, diskVars, TaskState
    <3> QED
      BY <1>0, <3>1, StateMoves
  <2>4. CASE RecordTaskFailure
    <3>1. /\ loaded /\ loaded' /\ Free /\ UNCHANGED <<done, disk>>
          /\ state' \in Lifecycle!Successors(state)
      BY <1>0, <2>4 DEF RecordTaskFailure, SetState, BeginSave, diskVars, TaskState
    <3> QED
      BY <1>0, <3>1, StateMoves
  <2>5. ASSUME NEW l, ReportChunk(l)
        PROVE  Lifecycle!LifeNext
    BY <2>1, <2>5 DEF ReportChunk
  <2>6. CASE ReportBundledFile
    BY <2>1, <2>6 DEF ReportBundledFile
  <2> QED
    BY <1>3, <2>2, <2>3, <2>4, <2>5, <2>6 DEF WorkerStep
<1>4. CASE LeaseStep
  <2>1. ASSUME NEW l, LeaseRealChunk(l)
        PROVE  Lifecycle!LifeNext
    <3>1. /\ loaded /\ loaded' /\ Free /\ UNCHANGED <<done, disk>>
          /\ state' \in Lifecycle!Successors(state)
      BY <1>0, <2>1 DEF LeaseRealChunk, CanRecord, diskVars, TaskState
    <3> QED
      BY <1>0, <3>1, StateMoves
  <2>2. ASSUME NEW lease, CompleteRealChunkLease(lease)
        PROVE  Lifecycle!LifeNext
    BY <1>0, <2>2, ReportRecords
    DEF CompleteRealChunkLease, CanRecord, MarkCompletedIfDrained, BeginSave, diskVars
  <2> QED
    BY <1>4, <2>1, <2>2 DEF LeaseStep
<1>5. CASE StoreStep
  <2>1. CASE Save
    <3>1. Lifecycle!Flush
      BY <2>1 DEF Save, WriteFile, Return, MemoryImage, taskVars, Free, DraftFromFile,
                  Lifecycle!Flush
    <3> QED
      BY <3>1 DEF Lifecycle!LifeNext
  <2>2. CASE Insert
    <3>1. Lifecycle!Start
      BY <2>2 DEF Insert, WriteFile, Load, Return, Free, DraftFromFile, Lifecycle!Start
    <3> QED
      BY <3>1 DEF Lifecycle!LifeNext
  <2>3. ~ SaveFails
    BY DEF SaveFails
  <2> QED
    BY <1>5, <2>1, <2>2, <2>3 DEF StoreStep
<1>6. CASE Crash
  <2>1. Lifecycle!Die
    BY <1>6 DEF Crash, Unload, WriteStopped, diskVars, Lifecycle!Die
  <2> QED
    BY <2>1 DEF Lifecycle!LifeNext
<1> QED
  BY <1>1, <1>2, <1>3, <1>4, <1>5, <1>6 DEF Next
-----------------------------------------------------------------------------
(***************************************************************************)
(* The engine keeps the promises of TaskLifecycle: a state is only left as *)
(* allowed, progress is refused once the task is cancelled or has failed,  *)
(* is never taken back, and what an operation that has returned recorded   *)
(* is what a restart finds.                                                *)
(***************************************************************************)
THEOREM EngineImplementsLifecycle ==
  ASSUME DemoTask = FALSE, IoErrors = FALSE, TornWrites = FALSE
  PROVE  Spec => ImplementsLifecycle
<1>1. Init => Lifecycle!LifeInit
  BY DEF Init, FreshImage, Lifecycle!LifeInit
<1>2. Init => DraftFromFile
  BY DEF Init, DraftFromFile
<1>3. TypesAndTotals /\ DraftFromFile /\ [Next]_vars => DraftFromFile'
  <2> SUFFICES ASSUME TypesAndTotals, DraftFromFile, [Next]_vars PROVE DraftFromFile'
    OBVIOUS
  <2>1. CASE Next
    BY <2>1, NextKeepsDraftFromFile DEF TypesAndTotals
  <2>2. CASE UNCHANGED vars
    BY <2>2 DEF vars, taskVars, callVars, diskVars, DraftFromFile
  <2> QED
    BY <2>1, <2>2
<1>4. TypesAndTotals /\ TypesAndTotals' /\ DraftFromFile /\ [Next]_vars
        => [Lifecycle!LifeNext]_(Lifecycle!lifeVars)
  <2> SUFFICES ASSUME TypesAndTotals, TypesAndTotals', DraftFromFile, [Next]_vars
               PROVE  Lifecycle!LifeNext \/ UNCHANGED Lifecycle!lifeVars
    OBVIOUS
  <2>1. CASE Next
    BY <2>1, StepIsAbstract DEF TypesAndTotals
  <2>2. CASE UNCHANGED vars
    BY <2>2 DEF vars, taskVars, callVars, diskVars, Free, Lifecycle!lifeVars
  <2> QED
    BY <2>1, <2>2
<1> QED
  BY <1>1, <1>2, <1>3, <1>4, InitTypesAndTotals, NextKeepsTypesAndTotals, PTL
  DEF Spec, ImplementsLifecycle, Lifecycle!LifeSpec
=============================================================================

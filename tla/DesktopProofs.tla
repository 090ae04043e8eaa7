---------------------------- MODULE DesktopProofs ----------------------------
(***************************************************************************)
(* Theorems about the desktop: for every number of files and threads, and  *)
(* for every interleaving of clicks, commands, workers, polls and exits of *)
(* the process that Desktop allows.                                        *)
(***************************************************************************)
EXTENDS DesktopProps, EngineProofs

Ended == {"none", "settle", "mark", "tell"}
Inside == {"send", "engine", "card"}

WorkerRecord ==
  [pc        : {"spawn", "begin", "next"} \cup Inside \cup Ended,
   pos       : (0 .. NFiles) \X Nat,
   skip      : SUBSET Chunk,
   stop      : BOOLEAN,
   late      : Nat,
   cancelled : BOOLEAN,
   result    : {"ok", "paused", "failed"}]

ChunksOf(f) == NumChunks(f, InitialChunkSize)

(***************************************************************************)
(* A worker is inside a file, and where it can still send a chunk it has   *)
(* sent none since it was told to stop.                                    *)
(***************************************************************************)
WorkerInOrder(r) ==
  /\ r \in WorkerRecord
  /\ r.pos[1] < NFiles => r.pos[2] <= ChunksOf(r.pos[1])
  /\ r.pc \in Inside => r.pos[1] < NFiles
  /\ r.late <= 1
  /\ r.stop = FALSE => r.late = 0
  /\ r.pc \in Ended => r.late = 0
  /\ r.pc = "send" /\ r.late = 1 => r.pos[2] = ChunksOf(r.pos[1])

WorkersInOrder ==
  /\ worker \in [Worker -> WorkerRecord]
  /\ \A w \in Worker : WorkerInOrder(worker[w])

(***************************************************************************)
(* The desktop never resizes the chunks of the task.                       *)
(***************************************************************************)
SizeStays ==
  /\ chunkSize = InitialChunkSize
  /\ draft.chunkSize = InitialChunkSize
  /\ disk.chunkSize = InitialChunkSize

DesktopInOrder == TypesAndTotals /\ SizeStays /\ WorkersInOrder
-----------------------------------------------------------------------------
\* A file has at least one chunk, at the size the task began with.
LEMMA ChunksOfType ==
  ASSUME NEW f \in 0 .. (NFiles - 1)
  PROVE  ChunksOf(f) \in Nat \ {0}
  BY ChunkingAssumption, CheckpointAssumption, ChunkCountIsPositive
  DEF ChunksOf, NumChunks, File

\* A slot without a worker is in order.
LEMMA NoWorkerInOrder == WorkerInOrder(NoWorker)
<1>1. NFiles \in Nat
  BY ChunkingAssumption
<1>2. NoWorker \in WorkerRecord
  BY <1>1 DEF NoWorker, WorkerRecord, Ended, Inside
<1>3. CASE NFiles = 0
  BY <1>2, <1>3 DEF WorkerInOrder, NoWorker, Ended, Inside
<1>4. CASE NFiles # 0
  <2>1. 0 <= ChunksOf(0)
    BY <1>1, <1>4, ChunksOfType
  <2> QED
    BY <1>2, <2>1 DEF WorkerInOrder, NoWorker, Ended, Inside
<1> QED
  BY <1>3, <1>4

(***************************************************************************)
(* What a worker reports is a chunk of the split, or a file of the task.   *)
(***************************************************************************)
LEMMA ReportIsEngineStep ==
  ASSUME DesktopInOrder, NEW w \in Worker, WorkerReports(w)
  PROVE  [Next]_vars
<1> DEFINE p == worker[w].pos
<1>1. WorkerInOrder(worker[w]) /\ worker[w].pc \in Inside
  BY DEF DesktopInOrder, WorkersInOrder, WorkerReports, Inside
<1>2. /\ p \in (0 .. NFiles) \X Nat /\ p[1] < NFiles /\ p[2] <= ChunksOf(p[1])
  BY <1>1 DEF WorkerInOrder, WorkerRecord
<1>3. PICK f \in 0 .. NFiles, i \in Nat : p = <<f, i>>
  BY <1>2
<1>4. f \in 0 .. (NFiles - 1) /\ f \in File /\ i <= ChunksOf(f)
  BY <1>2, <1>3, ChunkingAssumption DEF File
<1>5. ChunksOf(f) \in Nat \ {0} /\ ChunksOf(f) = NumChunks(f, chunkSize)
  BY <1>4, ChunksOfType DEF ChunksOf, DesktopInOrder, SizeStays
<1>6. TrackLane \in WorkerLanes
  BY DesktopAssumption DEF TrackLane, WorkerLanes
<1>7. CASE ~ AtEnd(p) /\ RecordRealChunkCommit(p, Length(FileSize[p[1]], chunkSize, p[2]), TrackLane, TRUE)
  <2>1. i \in 0 .. (NumChunks(f, chunkSize) - 1)
    BY <1>3, <1>4, <1>5, <1>7 DEF AtEnd
  <2>2. p \in Split(f, chunkSize)
    BY <1>3, <2>1 DEF Split
  <2>3. p \in SplitAll(NFiles, chunkSize)
    BY <1>4, <2>2 DEF SplitAll
  <2>4. ReportChunk(TrackLane)
    BY <1>7, <2>3 DEF ReportChunk
  <2> QED
    BY <1>6, <2>4 DEF Next, WorkerStep
<1>8. CASE AtEnd(p) /\ RecordRealFileComplete(p[1], TrackLane)
  <2>1. RecordRealFileComplete(f, TrackLane)
    BY <1>3, <1>8
  <2> QED
    BY <1>4, <1>6, <2>1 DEF Next, WorkerStep
<1>9. CASE UNCHANGED vars
  BY <1>9
<1> QED
  BY <1>7, <1>8, <1>9 DEF WorkerReports, Refused

(***************************************************************************)
(* A step of the desktop is one of the engine or leaves it alone.          *)
(***************************************************************************)
LEMMA DesktopStepIsEngineStep ==
  ASSUME DesktopInOrder, [DesktopNext]_desktopVars
  PROVE  [Next]_vars
<1>1. CASE Stored
  BY <1>1 DEF Stored, Next, StoreStep
<1>2. CASE CommandBegins
  BY <1>2 DEF CommandBegins, CreateTransferTask, PauseTransfer, CancelTransfer,
              RetryTransfer, ResumeTransfer, StartTransfer, DeleteTransfer, Refused,
              Next, UserStep
<1>3. CASE CommandGoesOn
  BY <1>3 DEF CommandGoesOn, CreateRecord, PauseInEngine, CancelInEngine, StartIsRefused,
              StartRegisters, StartSpawns, StartFails, DeleteInEngine, DeleteRecord,
              DeleteEntry, Refused, Next, UserStep
<1>4. CASE Polls
  BY <1>4 DEF Polls, RecoverRecorded, Refresh, Next, UserStep
<1>5. CASE Exit
  BY <1>5 DEF Exit, Next
<1>6. ASSUME NEW w \in Worker, WorkerMoves(w) PROVE [Next]_vars
  <2>1. CASE WorkerReports(w)
    BY <2>1, ReportIsEngineStep
  <2>2. CASE SettleTells(w)
    BY <2>2 DEF SettleTells, Refused, Next, UserStep, WorkerStep
  <2> QED
    BY <1>6, <2>1, <2>2 DEF WorkerMoves, WorkerBegins, WorkerFinishes, WorkerStops,
       WorkerGoesOn, WorkerSends, WorkerFails, WorkerShows, SettleReads, SettleMarks
<1>7. CASE UNCHANGED desktopVars
  BY <1>7 DEF desktopVars
<1> QED
  BY <1>1, <1>2, <1>3, <1>4, <1>5, <1>6, <1>7 DEF DesktopNext
-----------------------------------------------------------------------------
(***************************************************************************)
(* A damaged checkpoint still has the chunk size of the task.              *)
(***************************************************************************)
LEMMA PrefixKeepsSize ==
  ASSUME NEW img \in Image, NEW n \in 0 .. NFiles
  PROVE  FilePrefix(img, n).chunkSize = img.chunkSize
  BY DEF FilePrefix, Image

\* A damaged checkpoint still reads with its chunk size.
LEMMA TornReadsKeepSize ==
  ASSUME NEW img \in Image, NEW t \in TornReads(img)
  PROVE  t.chunkSize = img.chunkSize
<1>1. img.files \in 0 .. NFiles /\ NFiles \in Nat
  BY ChunkingAssumption DEF Image
<1>2. ASSUME NEW n \in 0 .. (img.files - 1), t \in DamagedLine(img, n)
      PROVE  t.chunkSize = img.chunkSize
  <2> DEFINE kept        == FilePrefix(img, n)
             whole       == FilePrefix(img, n + 1)
             read(extra) == [kept EXCEPT !.files = n + 1, !.done = @ \cup extra]
             cut(bound)  == [whole EXCEPT !.via = [l \in Lane |->
                               {c \in whole.via[l] : c[1] < n \/ c[2] < bound}]]
             extras      == {{}} \cup {{<<n, i>>} : i \in TornIndices}
             bounds      == {0} \cup {c[2] + 1 : c \in whole.done}
  <2>1. DamagedLine(img, n) = {read(extra) : extra \in extras} \cup {cut(bound) : bound \in bounds}
    BY DEF DamagedLine
  <2>2. n \in 0 .. NFiles /\ n + 1 \in 0 .. NFiles
    BY <1>1
  <2>3. kept \in Image /\ whole \in Image
    BY <2>2, FilePrefixType
  <2>4. kept.chunkSize = img.chunkSize /\ whole.chunkSize = img.chunkSize
    BY <2>2, PrefixKeepsSize
  <2> HIDE DEF kept, whole, extras, bounds
  <2>5. \A extra : read(extra).chunkSize = img.chunkSize
    BY <2>3, <2>4 DEF Image
  <2>6. \A bound : cut(bound).chunkSize = img.chunkSize
    BY <2>3, <2>4 DEF Image
  <2> HIDE DEF read, cut
  <2> QED
    BY <1>2, <2>1, <2>5, <2>6
<1>3. ASSUME NEW n \in 0 .. img.files, t = FilePrefix(img, n)
      PROVE  t.chunkSize = img.chunkSize
  BY <1>1, <1>3, PrefixKeepsSize
<1> QED
  BY <1>2, <1>3 DEF TornReads

\* A step that sets no chunk size changes none.
LEMMA UntouchedKeepsSize ==
  ASSUME SizeStays, UNCHANGED <<chunkSize, draft, disk>>
  PROVE  SizeStays'
  BY DEF SizeStays

\* A new task has the initial chunk size.
LEMMA FreshImageSize == FreshImage.chunkSize = InitialChunkSize
  BY DEF FreshImage

\* No command of the desktop resizes a task.
LEMMA StepKeepsSize ==
  ASSUME DesktopInOrder, [DesktopNext]_desktopVars
  PROVE  SizeStays'
<1> USE DEF DesktopInOrder
<1>1. CASE UNCHANGED vars
  BY <1>1, UntouchedKeepsSize DEF vars, taskVars, callVars, diskVars
<1>2. CASE Stored
  <2>1. CASE Save
    BY <2>1, FreshImageSize DEF Save, WriteFile, Return, MemoryImage, taskVars, SizeStays
  <2>2. CASE Insert
    BY <2>2, FreshImageSize DEF Insert, WriteFile, Load, Return, SizeStays
  <2> QED
    BY <1>2, <2>1, <2>2 DEF Stored
<1>3. ASSUME NEW s, SetState(s) PROVE SizeStays'
  BY <1>3, UntouchedKeepsSize DEF SetState, BeginSave, diskVars
<1>4. CASE DeleteTaskRecord
  BY <1>4, FreshImageSize DEF DeleteTaskRecord, Unload, callVars, diskVars, SizeStays
<1>5. CASE CommandBegins
  BY <1>1, <1>3, <1>5, FreshImageSize
  DEF CommandBegins, CreateTransferTask, CreateOrRecoverTask, BeginInsert, PauseTransfer,
      CancelTransfer, RetryTransfer, RetryTask, ResumeTransfer, ResumeTask, StartTransfer,
      DeleteTransfer, Refused, taskVars, diskVars, SizeStays
<1>6. CASE CommandGoesOn
  BY <1>1, <1>3, <1>4, <1>6
  DEF CommandGoesOn, CreateRecord, PauseInEngine, PauseTask, CancelInEngine, CancelTask,
      StartIsRefused, StartRegisters, StartSpawns, StartFails, DeleteInEngine,
      DeleteRecord, DeleteEntry, Refused
<1>7. CASE Polls
  <2>1. CASE RecoverRecorded
    <3>1. /\ UNCHANGED taskVars /\ UNCHANGED diskVars
          /\ draft' = [disk EXCEPT !.state = ResumedState(disk.state)]
      BY <2>1 DEF RecoverRecorded, RecoverTask, BeginInsert
    <3>2. draft'.chunkSize = disk.chunkSize
      BY <3>1 DEF TypesAndTotals, TypeOK, DiskTypeOK, Image
    <3> QED
      BY <3>1, <3>2 DEF taskVars, diskVars, SizeStays
  <2> QED
    BY <1>1, <1>7, <2>1 DEF Polls, Refresh
<1>8. CASE Exit
  <2>1. /\ chunkSize' = InitialChunkSize /\ draft' = FreshImage
        /\ UNCHANGED diskVars \/ WriteStopped
    BY <1>8 DEF Exit, Crash, Unload, Return
  <2>2. Pending \in Image /\ Pending.chunkSize = InitialChunkSize
    BY PendingType DEF TypesAndTotals, TypeOK, Pending, MemoryImage, SizeStays
  <2>3. \A img \in TornReads(Pending) : img.chunkSize = InitialChunkSize
    BY <2>2, TornReadsKeepSize
  <2>4. disk'.chunkSize = InitialChunkSize
    BY <2>1, <2>3, FreshImageSize DEF WriteStopped, WriteFile, diskVars, SizeStays
  <2> QED
    BY <2>1, <2>4, FreshImageSize DEF SizeStays
<1>9. ASSUME NEW w \in Worker, WorkerMoves(w) PROVE SizeStays'
  <2>1. CASE WorkerReports(w)
    BY <1>1, <2>1, UntouchedKeepsSize
    DEF WorkerReports, RecordRealChunkCommit, RecordRealFileComplete, Refused, BeginSave, diskVars
  <2>2. CASE SettleTells(w)
    BY <1>1, <1>3, <2>2 DEF SettleTells, PauseTask, RecordTaskFailure, Refused
  <2> QED
    BY <1>1, <1>9, <2>1, <2>2 DEF WorkerMoves, WorkerBegins, WorkerFinishes, WorkerStops,
       WorkerGoesOn, WorkerSends, WorkerFails, WorkerShows, SettleReads, SettleMarks
<1> QED
  BY <1>1, <1>2, <1>5, <1>6, <1>7, <1>8, <1>9 DEF DesktopNext, desktopVars
-----------------------------------------------------------------------------
(***************************************************************************)
(* The workers.                                                            *)
(***************************************************************************)
LEMMA OneWorkerMoves ==
  ASSUME WorkersInOrder, NEW w, NEW r, w \in Worker => WorkerInOrder(r),
         worker' = [worker EXCEPT ![w] = r]
  PROVE  WorkersInOrder'
  BY DEF WorkersInOrder, WorkerInOrder

\* The place after a chunk is a chunk of the same file, or the next file.
LEMMA FollowingIsInOrder ==
  ASSUME SizeStays, NEW f \in 0 .. (NFiles - 1), NEW i \in 0 .. ChunksOf(f)
  PROVE  LET p == Following(<<f, i>>)
         IN  p \in (0 .. NFiles) \X Nat /\ (p[1] < NFiles => p[2] <= ChunksOf(p[1]))
<1>1. ChunksOf(f) = NumChunks(f, chunkSize) /\ ChunksOf(f) \in Nat /\ NFiles \in Nat
  BY ChunksOfType, ChunkingAssumption DEF ChunksOf, SizeStays
<1>2. CASE i = ChunksOf(f)
  <2>1. Following(<<f, i>>) = <<f + 1, 0>>
    BY <1>1, <1>2 DEF Following, AtEnd
  <2>2. f + 1 < NFiles => 0 <= ChunksOf(f + 1)
    BY <1>1, ChunksOfType
  <2> QED
    BY <1>1, <2>1, <2>2
<1>3. CASE i # ChunksOf(f)
  <2>1. Following(<<f, i>>) = <<f, i + 1>>
    BY <1>1, <1>3 DEF Following, AtEnd
  <2> QED
    BY <1>1, <1>3, <2>1
<1> QED
  BY <1>2, <1>3

\* A worker that moves stays at a label, a file and a chunk of its loop.
LEMMA WorkerStepKeepsWorkersInOrder ==
  ASSUME DesktopInOrder, NEW w \in Worker, WorkerMoves(w)
  PROVE  WorkersInOrder'
<1> DEFINE r == worker[w]
<1> USE DEF DesktopInOrder
<1>1. WorkersInOrder /\ WorkerInOrder(r) /\ r \in WorkerRecord
  BY DEF WorkersInOrder, WorkerInOrder
<1>2. ASSUME NEW result \in {"ok", "paused", "failed"}, Ends(w, result)
      PROVE  WorkersInOrder'
  <2> DEFINE s == [NoWorker EXCEPT !.pc = "settle", !.result = result]
  <2>1. WorkerInOrder(s)
    BY NoWorkerInOrder DEF WorkerInOrder, WorkerRecord, NoWorker, Ended, Inside
  <2>2. worker' = [worker EXCEPT ![w] = s]
    BY <1>2 DEF Ends
  <2> HIDE DEF s
  <2> QED
    BY <1>1, <2>1, <2>2, OneWorkerMoves
<1>3. CASE WorkerBegins(w)
  <2> DEFINE skip == IF Mode = "WifiOnly" /\ file = "ok" THEN disk.done ELSE {}
             s    == [r EXCEPT !.pc = "next", !.skip = skip]
  <2>1. skip \subseteq Chunk
    BY DEF TypesAndTotals, TypeOK, DiskTypeOK, Image
  <2>2. worker' = [worker EXCEPT ![w] = s]
    BY <1>1, <1>3 DEF WorkerBegins, WorkersInOrder
  <2> HIDE DEF skip
  <2>3. WorkerInOrder(s)
    BY <1>1, <2>1 DEF WorkerInOrder, WorkerRecord, Ended, Inside
  <2> HIDE DEF s
  <2> QED
    BY <1>1, <2>2, <2>3, OneWorkerMoves
<1>4. CASE WorkerFinishes(w) \/ WorkerStops(w) \/ WorkerFails(w)
  BY <1>2, <1>4 DEF WorkerFinishes, WorkerStops, WorkerFails
<1>5. CASE WorkerGoesOn(w)
  <2>1. /\ r.pc = "next" /\ r.pos[1] < NFiles /\ (AtBoundary(w) => r.stop = FALSE)
        /\ r.pos \in (0 .. NFiles) \X Nat /\ r.pos[1] \in 0 .. (NFiles - 1)
    BY <1>1, <1>5, ChunkingAssumption DEF WorkerGoesOn, WorkerRecord
  <2>2. ChunksOf(r.pos[1]) = NumChunks(r.pos[1], chunkSize) /\ ChunksOf(r.pos[1]) \in Nat
    BY <2>1, ChunksOfType DEF ChunksOf, SizeStays
  <2>3. CASE worker' = [worker EXCEPT ![w].pc = "send",
                          ![w].pos = <<r.pos[1], NumChunks(r.pos[1], chunkSize)>>]
    <3> DEFINE s == [r EXCEPT !.pc = "send", !.pos = <<r.pos[1], ChunksOf(r.pos[1])>>]
    <3>1. worker' = [worker EXCEPT ![w] = s]
      BY <1>1, <2>2, <2>3 DEF WorkersInOrder
    <3>2. s \in WorkerRecord /\ s.pos[1] = r.pos[1] /\ s.pos[2] = ChunksOf(r.pos[1])
          /\ s.pc = "send" /\ s.late = r.late /\ s.stop = r.stop
      BY <1>1, <2>1, <2>2 DEF WorkerRecord, Ended, Inside
    <3>3. WorkerInOrder(s)
      BY <1>1, <2>1, <2>2, <3>2 DEF WorkerInOrder, Ended, Inside
    <3> HIDE DEF s
    <3> QED
      BY <1>1, <3>1, <3>3, OneWorkerMoves
  <2>4. CASE Goto(w, IF Checkpointed(w, r.pos) THEN "card" ELSE "send")
    <3> DEFINE label == IF Checkpointed(w, r.pos) THEN "card" ELSE "send"
               s     == [r EXCEPT !.pc = label]
    <3>1. worker' = [worker EXCEPT ![w] = s]
      BY <1>1, <2>4 DEF Goto, WorkersInOrder
    <3>2. label \in {"card", "send"}
      OBVIOUS
    <3>3. r.late = 1 => AtEnd(r.pos)
      BY <1>1, <2>1 DEF AtBoundary, WorkerInOrder
    <3>4. AtEnd(r.pos) => r.pos[2] = ChunksOf(r.pos[1])
      BY <2>2 DEF AtEnd
    <3> HIDE DEF label
    <3>5. WorkerInOrder(s)
      BY <1>1, <2>1, <3>2, <3>3, <3>4 DEF WorkerInOrder, WorkerRecord, Ended, Inside
    <3> HIDE DEF s
    <3> QED
      BY <1>1, <3>1, <3>5, OneWorkerMoves
  <2> QED
    BY <1>5, <2>3, <2>4 DEF WorkerGoesOn
<1>6. CASE WorkerSends(w)
  <2> DEFINE n == IF r.stop /\ ~ AtEnd(r.pos) THEN r.late + 1 ELSE r.late
             s == [r EXCEPT !.pc = AfterSend, !.late = n]
  <2>1. worker' = [worker EXCEPT ![w] = s]
    BY <1>1, <1>6 DEF WorkerSends, WorkersInOrder
  <2>2. r.pc = "send" /\ r.pos[1] < NFiles /\ r.pos \in (0 .. NFiles) \X Nat
    BY <1>1, <1>6 DEF WorkerSends, WorkerInOrder, WorkerRecord, Inside
  <2>3. ChunksOf(r.pos[1]) = NumChunks(r.pos[1], chunkSize)
    BY DEF ChunksOf, SizeStays
  <2>4. r.late \in {0, 1} /\ r.stop \in BOOLEAN
    BY <1>1 DEF WorkerInOrder, WorkerRecord
  <2>5. r.late = 1 => AtEnd(r.pos)
    BY <1>1, <2>2, <2>3 DEF WorkerInOrder, AtEnd
  <2>6. n \in {0, 1} /\ (r.stop = FALSE => n = 0)
    <3>1. r.stop = FALSE => r.late = 0
      BY <1>1 DEF WorkerInOrder
    <3> QED
      BY <2>4, <2>5, <3>1
  <2>7. AfterSend \in {"card", "engine"}
    BY DEF AfterSend
  <2> HIDE DEF n
  <2>8. s \in WorkerRecord
    <3>1. n \in Nat /\ AfterSend \in {"spawn", "begin", "next"} \cup Inside \cup Ended
      BY <2>6, <2>7 DEF Inside
    <3>2. r \in WorkerRecord
      BY <1>1
    <3> HIDE DEF r
    <3> QED
      BY <3>1, <3>2 DEF WorkerRecord
  <2>9. s.pc = AfterSend /\ s.late = n /\ s.pos = r.pos /\ s.stop = r.stop
    BY <1>1 DEF WorkerRecord
  <2> HIDE DEF s
  <2>10. WorkerInOrder(s)
    BY <1>1, <2>2, <2>6, <2>7, <2>8, <2>9 DEF WorkerInOrder, Ended, Inside
  <2> QED
    BY <1>1, <2>1, <2>10, OneWorkerMoves
<1>7. ASSUME r.pc \in Inside, Advance(w) PROVE WorkersInOrder'
  <2> DEFINE p == Following(r.pos)
             s == [r EXCEPT !.pc = "next", !.pos = p]
  <2>1. worker' = [worker EXCEPT ![w] = s]
    BY <1>1, <1>7 DEF Advance, WorkersInOrder
  <2>2. r.pos \in (0 .. NFiles) \X Nat /\ r.pos[1] < NFiles /\ r.pos[2] <= ChunksOf(r.pos[1])
    BY <1>1, <1>7 DEF WorkerInOrder, WorkerRecord
  <2>3. PICK f \in 0 .. NFiles, i \in Nat : r.pos = <<f, i>>
    BY <2>2
  <2>4. f \in 0 .. (NFiles - 1) /\ i \in 0 .. ChunksOf(f)
    BY <2>2, <2>3, ChunkingAssumption, ChunksOfType
  <2>5. p \in (0 .. NFiles) \X Nat /\ (p[1] < NFiles => p[2] <= ChunksOf(p[1]))
    BY <2>3, <2>4, FollowingIsInOrder
  <2> HIDE DEF p
  <2>6. WorkerInOrder(s)
    BY <1>1, <2>5 DEF WorkerInOrder, WorkerRecord, Ended, Inside
  <2> HIDE DEF s
  <2> QED
    BY <1>1, <2>1, <2>6, OneWorkerMoves
<1>8. ASSUME r.pc \in Inside, NEW label \in {"card", "engine"}, Goto(w, label)
      PROVE  WorkersInOrder'
  <2> DEFINE s == [r EXCEPT !.pc = label]
  <2>1. worker' = [worker EXCEPT ![w] = s]
    BY <1>1, <1>8 DEF Goto, WorkersInOrder
  <2>2. WorkerInOrder(s)
    BY <1>1, <1>8 DEF WorkerInOrder, WorkerRecord, Ended, Inside
  <2> HIDE DEF s
  <2> QED
    BY <1>1, <2>1, <2>2, OneWorkerMoves
<1>9. CASE WorkerReports(w) \/ WorkerShows(w)
  BY <1>7, <1>8, <1>9 DEF WorkerReports, WorkerShows, Inside
<1>10. CASE SettleReads(w)
  <2> DEFINE c == loaded /\ state = "Cancelled"
             s == [r EXCEPT !.pc = "mark", !.cancelled = c]
  <2>1. worker' = [worker EXCEPT ![w] = s]
    BY <1>1, <1>10 DEF SettleReads, WorkersInOrder
  <2>2. r.pc = "settle" /\ r.late = 0 /\ c \in BOOLEAN
    BY <1>1, <1>10 DEF SettleReads, WorkerInOrder, Ended
  <2> HIDE DEF c
  <2>3. WorkerInOrder(s)
    BY <1>1, <2>2 DEF WorkerInOrder, WorkerRecord, Ended, Inside
  <2> HIDE DEF s
  <2> QED
    BY <1>1, <2>1, <2>3, OneWorkerMoves
<1>11. CASE SettleMarks(w)
  <2> DEFINE s == [r EXCEPT !.pc = "tell"]
  <2>1. worker' = [worker EXCEPT ![w] = NoWorker] \/ worker' = [worker EXCEPT ![w] = s]
    BY <1>1, <1>11 DEF SettleMarks, LeaveOrTell, WorkersInOrder
  <2>2. r.pc = "mark" /\ r.late = 0
    BY <1>1, <1>11 DEF SettleMarks, WorkerInOrder, Ended
  <2>3. WorkerInOrder(s)
    BY <1>1, <2>2 DEF WorkerInOrder, WorkerRecord, Ended, Inside
  <2> HIDE DEF s
  <2> QED
    BY <1>1, <2>1, <2>3, NoWorkerInOrder, OneWorkerMoves
<1>12. CASE SettleTells(w)
  BY <1>1, <1>12, NoWorkerInOrder, OneWorkerMoves DEF SettleTells
<1> QED
  BY <1>3, <1>4, <1>5, <1>6, <1>9, <1>10, <1>11, <1>12 DEF WorkerMoves

\* So does every worker, whoever moves.
LEMMA StepKeepsWorkersInOrder ==
  ASSUME DesktopInOrder, [DesktopNext]_desktopVars
  PROVE  WorkersInOrder'
<1>1. WorkersInOrder
  BY DEF DesktopInOrder
<1>2. CASE UNCHANGED worker
  BY <1>1, <1>2 DEF WorkersInOrder
<1>3. ASSUME NEW w, NEW label \in {"spawn", "begin"}, Goto(w, label) PROVE WorkersInOrder'
  <2> DEFINE s == [worker[w] EXCEPT !.pc = label]
  <2>1. worker' = [worker EXCEPT ![w] = s]
    BY <1>1, <1>3 DEF Goto, WorkersInOrder
  <2>2. ASSUME w \in Worker PROVE WorkerInOrder(s)
    BY <1>1, <2>2 DEF WorkersInOrder, WorkerInOrder, WorkerRecord, Ended, Inside
  <2> HIDE DEF s
  <2> QED
    BY <1>1, <2>1, <2>2, OneWorkerMoves
<1>4. CASE CommandBegins
  <2>1. ASSUME NEW mark, StopEntry(mark) PROVE WorkersInOrder'
    <3>1. CASE UNCHANGED worker
      BY <1>2, <3>1
    <3> DEFINE halted(v) == [worker[v] EXCEPT !.stop = worker[v].pc \notin Ended]
               s(v)      == IF v = owner THEN halted(v) ELSE worker[v]
    <3>2. CASE worker' = [v \in Worker |-> s(v)]
      <4>1. ASSUME NEW v \in Worker PROVE WorkerInOrder(halted(v))
        <5>1. WorkerInOrder(worker[v]) /\ worker[v] \in WorkerRecord
          BY <1>1 DEF WorkersInOrder, WorkerInOrder
        <5> DEFINE stop == worker[v].pc \notin Ended
        <5>2. stop \in BOOLEAN /\ (stop = FALSE => worker[v].late = 0)
          BY <5>1 DEF WorkerInOrder
        <5> HIDE DEF stop
        <5> QED
          BY <5>1, <5>2 DEF WorkerInOrder, WorkerRecord
      <4> HIDE DEF halted
      <4>2. \A v \in Worker : WorkerInOrder(s(v))
        BY <1>1, <4>1 DEF WorkersInOrder
      <4> HIDE DEF s
      <4> QED
        BY <3>2, <4>2 DEF WorkersInOrder, WorkerInOrder
    <3> QED
      BY <2>1, <3>1, <3>2 DEF StopEntry, Ended
  <2> QED
    BY <1>2, <1>4, <2>1 DEF CommandBegins, CreateTransferTask, PauseTransfer, CancelTransfer,
       RetryTransfer, ResumeTransfer, StartTransfer, DeleteTransfer
<1>5. CASE CommandGoesOn
  <2>1. CASE StartRegisters
    <3>1. PICK w \in Worker : Goto(w, "spawn")
      BY <2>1 DEF StartRegisters, Goto
    <3> QED
      BY <1>3, <3>1
  <2>2. CASE StartSpawns
    BY <1>3, <2>2 DEF StartSpawns
  <2>3. CASE StartFails
    BY <1>1, <2>3, NoWorkerInOrder, OneWorkerMoves DEF StartFails
  <2> QED
    BY <1>2, <1>5, <2>1, <2>2, <2>3
    DEF CommandGoesOn, CreateRecord, PauseInEngine, CancelInEngine, StartIsRefused,
        DeleteInEngine, DeleteRecord, DeleteEntry
<1>6. CASE Stored \/ Polls
  BY <1>2, <1>6 DEF Stored, deskVars, Polls, RecoverRecorded, Refresh
<1>7. CASE Exit
  BY <1>7, NoWorkerInOrder DEF Exit, WorkersInOrder, WorkerInOrder
<1>8. CASE UNCHANGED desktopVars
  BY <1>2, <1>8 DEF desktopVars, deskVars
<1> QED
  BY <1>4, <1>5, <1>6, <1>7, <1>8, WorkerStepKeepsWorkersInOrder DEF DesktopNext
-----------------------------------------------------------------------------
\* Before the first command there is no worker and the engine is in order.
LEMMA DesktopStartsInOrder == DesktopInit => DesktopInOrder
<1> SUFFICES ASSUME DesktopInit PROVE DesktopInOrder
  OBVIOUS
<1>1. TypesAndTotals
  BY InitTypesAndTotals DEF DesktopInit
<1>2. SizeStays
  BY DEF DesktopInit, Init, SizeStays, FreshImage
<1>3. WorkersInOrder
  BY NoWorkerInOrder DEF DesktopInit, WorkersInOrder, WorkerInOrder
<1> QED
  BY <1>1, <1>2, <1>3 DEF DesktopInOrder

\* Every step keeps engine and workers in order together.
LEMMA DesktopStaysInOrder ==
  DesktopInOrder /\ [DesktopNext]_desktopVars => DesktopInOrder'
<1> SUFFICES ASSUME DesktopInOrder, [DesktopNext]_desktopVars PROVE DesktopInOrder'
  OBVIOUS
<1>1. TypesAndTotals'
  BY DesktopStepIsEngineStep, NextKeepsTypesAndTotals DEF DesktopInOrder
<1> QED
  BY <1>1, StepKeepsSize, StepKeepsWorkersInOrder DEF DesktopInOrder

(***************************************************************************)
(* The desktop uses the engine only through the operations Engine has, and *)
(* with the arguments Engine gives them: a worker reports chunks of the    *)
(* split in force and files of the task, however it came by its position,  *)
(* and the commands call what the engine offers.  What holds of every      *)
(* behaviour of the engine so holds of the desktop's.                      *)
(***************************************************************************)
THEOREM DesktopRunsTheEngine == DesktopSpec => Spec
<1>1. DesktopInit => Init
  BY DEF DesktopInit
<1>2. DesktopInOrder /\ [DesktopNext]_desktopVars => [Next]_vars
  BY DesktopStepIsEngineStep
<1> QED
  BY <1>1, <1>2, DesktopStartsInOrder, DesktopStaysInOrder, PTL DEF DesktopSpec, Spec

(***************************************************************************)
(* A paused or cancelled worker sends the chunk it is at and no other, for *)
(* files of any size, over either track, however often it is told to stop  *)
(* and by whichever path through its loops it comes to the next boundary.  *)
(***************************************************************************)
THEOREM WorkersStopInTime == DesktopSpec => []StopsWithinOneChunk
<1>1. DesktopInOrder => StopsWithinOneChunk
  BY DEF DesktopInOrder, WorkersInOrder, WorkerInOrder, StopsWithinOneChunk
<1> QED
  BY <1>1, DesktopStartsInOrder, DesktopStaysInOrder, PTL DEF DesktopSpec
-----------------------------------------------------------------------------
(***************************************************************************)
(* Cards.  A thread writes Running while it serves, and something else     *)
(* when it stops serving.                                                  *)
(***************************************************************************)
LEMMA ServingOthers ==
  ASSUME WorkersInOrder, NEW w, NEW r, worker' = [worker EXCEPT ![w] = r]
  PROVE  /\ Serving \ {w} \subseteq Serving'
         /\ w \in Worker /\ r.pc \notin {"none", "tell"} => w \in Serving'
  BY DEF WorkersInOrder, Serving

\* A worker that goes on in its loop still serves its card.
LEMMA GotoServes ==
  ASSUME WorkersInOrder, NEW w, NEW label, label \notin {"none", "tell"}, Goto(w, label)
  PROVE  Serving \subseteq Serving' /\ (w \in Worker => w \in Serving')
<1> DEFINE s == [worker[w] EXCEPT !.pc = label]
<1>1. worker' = [worker EXCEPT ![w] = s]
  BY DEF Goto, WorkersInOrder
<1>2. w \in Worker => s.pc = label
  BY DEF WorkersInOrder, WorkerRecord
<1> HIDE DEF s
<1>3. w \in Worker => w \in Serving'
  BY <1>1, <1>2, ServingOthers
<1>4. Serving \subseteq Worker
  BY DEF Serving
<1> QED
  BY <1>1, <1>3, <1>4, ServingOthers

\* A worker leaves its loop only after it has set the state of the card.
LEMMA WorkerStepKeepsRunningCards ==
  ASSUME WorkersInOrder, RunningCardHasWorker, NEW w \in Worker, WorkerMoves(w)
  PROVE  RunningCardHasWorker'
<1> DEFINE r == worker[w]
<1>1. r \in WorkerRecord
  BY DEF WorkersInOrder
<1>2. CASE SettleMarks(w)
  <2>1. Outcome(w) # "Running"
    BY <1>1 DEF Outcome, WorkerRecord
  <2> QED
    BY <1>2, <2>1 DEF SettleMarks, RunningCardHasWorker
<1>3. CASE SettleTells(w)
  <2>1. w \notin Serving
    BY <1>3 DEF SettleTells, Serving
  <2>2. worker' = [worker EXCEPT ![w] = NoWorker] /\ UNCHANGED card
    BY <1>3 DEF SettleTells
  <2> DEFINE s == NoWorker
  <2>3. worker' = [worker EXCEPT ![w] = s]
    BY <2>2
  <2> HIDE DEF s
  <2>4. Serving \subseteq Serving'
    BY <2>1, <2>3, ServingOthers
  <2> QED
    BY <2>2, <2>4 DEF RunningCardHasWorker
<1>4. ASSUME NEW s, worker' = [worker EXCEPT ![w] = s], s.pc \notin {"none", "tell"}
      PROVE  RunningCardHasWorker'
  BY <1>4, ServingOthers DEF RunningCardHasWorker
<1>5. ASSUME NEW label, label \notin {"none", "tell"}, Goto(w, label)
      PROVE  RunningCardHasWorker'
  BY <1>5, GotoServes DEF RunningCardHasWorker
<1>6. CASE WorkerBegins(w)
  <2> DEFINE skip == IF Mode = "WifiOnly" /\ file = "ok" THEN disk.done ELSE {}
             s == [r EXCEPT !.pc = "next", !.skip = skip]
  <2>1. worker' = [worker EXCEPT ![w] = s] /\ s.pc = "next"
    BY <1>1, <1>6 DEF WorkerBegins, WorkersInOrder, WorkerRecord
  <2> HIDE DEF s
  <2> QED
    BY <1>4, <2>1
<1>7. ASSUME NEW result, Ends(w, result) PROVE RunningCardHasWorker'
  <2> DEFINE s == [NoWorker EXCEPT !.pc = "settle", !.result = result]
  <2>1. worker' = [worker EXCEPT ![w] = s] /\ s.pc = "settle"
    BY <1>7 DEF Ends, NoWorker
  <2> HIDE DEF s
  <2> QED
    BY <1>4, <2>1
<1>8. CASE WorkerFinishes(w) \/ WorkerStops(w) \/ WorkerFails(w)
  BY <1>7, <1>8 DEF WorkerFinishes, WorkerStops, WorkerFails
<1>9. ASSUME NEW pos, worker' = [worker EXCEPT ![w].pc = "send", ![w].pos = pos]
      PROVE  RunningCardHasWorker'
  <2> DEFINE s == [r EXCEPT !.pc = "send", !.pos = pos]
  <2>1. worker' = [worker EXCEPT ![w] = s] /\ s.pc = "send"
    BY <1>1, <1>9 DEF WorkersInOrder, WorkerRecord
  <2> HIDE DEF s
  <2> QED
    BY <1>4, <2>1
<1>10. CASE WorkerGoesOn(w)
  BY <1>5, <1>9, <1>10 DEF WorkerGoesOn
<1>11. CASE WorkerSends(w)
  <2> DEFINE n == IF r.stop /\ ~ AtEnd(r.pos) THEN r.late + 1 ELSE r.late
             s == [r EXCEPT !.pc = AfterSend, !.late = n]
  <2>1. worker' = [worker EXCEPT ![w] = s]
    BY <1>11 DEF WorkerSends, WorkersInOrder
  <2>2. s.pc = AfterSend
    BY <1>1 DEF WorkerRecord
  <2> HIDE DEF s
  <2> QED
    BY <1>4, <2>1, <2>2 DEF AfterSend
<1>12. ASSUME Advance(w) PROVE RunningCardHasWorker'
  <2> DEFINE s == [r EXCEPT !.pc = "next", !.pos = Following(r.pos)]
  <2>1. worker' = [worker EXCEPT ![w] = s] /\ s.pc = "next"
    BY <1>1, <1>12 DEF Advance, WorkersInOrder, WorkerRecord
  <2> HIDE DEF s
  <2> QED
    BY <1>4, <2>1
<1>13. CASE WorkerReports(w) \/ WorkerShows(w)
  BY <1>5, <1>12, <1>13 DEF WorkerReports, WorkerShows
<1>14. CASE SettleReads(w)
  <2> DEFINE c == loaded /\ state = "Cancelled"
             s == [r EXCEPT !.pc = "mark", !.cancelled = c]
  <2>1. worker' = [worker EXCEPT ![w] = s] /\ s.pc = "mark"
    BY <1>1, <1>14 DEF SettleReads, WorkersInOrder, WorkerRecord
  <2> HIDE DEF s
  <2> QED
    BY <1>4, <2>1
<1> QED
  BY <1>2, <1>3, <1>6, <1>8, <1>10, <1>11, <1>13, <1>14 DEF WorkerMoves

\* A command sets a card Running only with a worker to serve it.
LEMMA StepKeepsRunningCards ==
  ASSUME ~ (ManifestErrors /\ Mode = "WifiOnly"),
         WorkersInOrder, RunningCardHasWorker, [DesktopNext]_desktopVars
  PROVE  RunningCardHasWorker'
<1>1. CASE UNCHANGED <<card, worker>>
  BY <1>1 DEF RunningCardHasWorker, Serving
<1>2. CASE card' # "Running"
  BY <1>2 DEF RunningCardHasWorker
<1>3. CASE CommandBegins
  BY <1>1, <1>2, <1>3
  DEF CommandBegins, CreateTransferTask, PauseTransfer, CancelTransfer, StopEntry,
      RetryTransfer, ResumeTransfer, StartTransfer, DeleteTransfer
<1>4. CASE CommandGoesOn
  <2>1. CASE StartRegisters
    <3>1. PICK w \in Worker : Goto(w, "spawn")
      BY <2>1 DEF StartRegisters, Goto
    <3>2. Serving' # {}
      BY <3>1, GotoServes
    <3> QED
      BY <3>2 DEF RunningCardHasWorker
  <2>2. CASE StartSpawns
    <3>1. Goto(owner, "begin") /\ UNCHANGED card
      BY <2>2 DEF StartSpawns
    <3>2. Serving \subseteq Serving'
      BY <3>1, GotoServes
    <3> QED
      BY <3>1, <3>2 DEF RunningCardHasWorker
  <2>3. ~ StartFails
    BY DEF StartFails
  <2> QED
    BY <1>1, <1>2, <1>4, <2>1, <2>2, <2>3
    DEF CommandGoesOn, CreateRecord, PauseInEngine, CancelInEngine, StartIsRefused,
        DeleteInEngine, DeleteRecord, DeleteEntry
<1>5. CASE Stored \/ Polls \/ Exit
  BY <1>1, <1>2, <1>5 DEF Stored, deskVars, Polls, RecoverRecorded, Refresh, Exit
<1>6. CASE UNCHANGED desktopVars
  BY <1>1, <1>6 DEF desktopVars, deskVars
<1> QED
  BY <1>3, <1>4, <1>5, <1>6, WorkerStepKeepsRunningCards DEF DesktopNext

(***************************************************************************)
(* A card says Running only while a thread serves the task, although late  *)
(* reports and settling threads overwrite it in any order: unless a start  *)
(* over Wi-Fi fails after it has registered the transfer (StartFails),     *)
(* nobody leaves a card behind that can be neither restarted nor deleted.  *)
(***************************************************************************)
THEOREM RunningCardsAreServed ==
  ASSUME ~ (ManifestErrors /\ Mode = "WifiOnly")
  PROVE  DesktopSpec => []RunningCardHasWorker
<1>1. DesktopInit => RunningCardHasWorker
  BY DEF DesktopInit, RunningCardHasWorker
<1>2. DesktopInOrder /\ RunningCardHasWorker /\ [DesktopNext]_desktopVars
        => RunningCardHasWorker'
  BY StepKeepsRunningCards DEF DesktopInOrder
<1> QED
  BY <1>1, <1>2, DesktopStartsInOrder, DesktopStaysInOrder, PTL DEF DesktopSpec
-----------------------------------------------------------------------------
(***************************************************************************)
(* Deletion.  From the moment the engine has let go of the task nothing    *)
(* finds it again: there is no entry to report to, no checkpoint to        *)
(* recover and, soon after, no record to start from.                       *)
(***************************************************************************)
Deleting == cmd = "deleteRecord" \/ taskRecord = "deleted"

Gone ==
  /\ Deleting => loaded = FALSE /\ file = "absent" /\ Free
  /\ taskRecord = "deleted" /\ cmd # "deleteEntry" => card = "none"

\* No command but one that creates the task anew brings a deleted task back.
LEMMA CommandsKeepGone ==
  ASSUME IoErrors = FALSE, Gone, CommandBegins \/ CommandGoesOn
  PROVE  Gone'
<1>1. CASE DeleteInEngine
  <2>1. CASE DeleteTaskRecord /\ cmd' = "deleteRecord"
    BY <1>1, <2>1
    DEF DeleteInEngine, DeleteTaskRecord, Unload, Free, callVars, diskVars, Gone, Deleting
  <2>2. CASE UNCHANGED vars /\ CommandReturns
    BY <1>1, <2>2
    DEF DeleteInEngine, vars, taskVars, callVars, diskVars, Free, CommandReturns, Gone, Deleting
  <2> QED
    BY <1>1, <2>1, <2>2 DEF DeleteInEngine, Refused
<1>2. CASE CreateTransferTask \/ CreateRecord \/ StartRegisters
  BY <1>2 DEF CreateTransferTask, CreateRecord, StartRegisters, CommandReturns, Gone, Deleting
<1>3. CASE DeleteRecord \/ DeleteEntry
  BY <1>3 DEF DeleteRecord, DeleteEntry, CommandReturns, vars, taskVars, callVars, diskVars,
              Free, Gone, Deleting
<1>4. CASE UNCHANGED vars /\ UNCHANGED <<taskRecord, card>> /\ cmd \notin {"deleteEntry", "deleteRecord"}
           /\ cmd' # "deleteRecord"
  BY <1>4 DEF vars, taskVars, callVars, diskVars, Free, Gone, Deleting
<1>5. CASE loaded /\ cmd' # "deleteRecord" /\ UNCHANGED taskRecord
  BY <1>5 DEF Gone, Deleting
<1>6. CASE PauseTransfer \/ CancelTransfer
  BY <1>6 DEF PauseTransfer, CancelTransfer, Click, StopEntry, vars, taskVars, callVars,
              diskVars, Free, Gone, Deleting
<1>7. CASE RetryTransfer \/ ResumeTransfer \/ PauseInEngine \/ CancelInEngine
  BY <1>4, <1>5, <1>7 DEF RetryTransfer, RetryTask, ResumeTransfer, ResumeTask, PauseInEngine,
     PauseTask, CancelInEngine, CancelTask, Click, Refused, CommandReturns
<1>8. CASE StartTransfer \/ DeleteTransfer \/ StartIsRefused \/ StartSpawns \/ StartFails
  BY <1>4, <1>8 DEF StartTransfer, DeleteTransfer, StartIsRefused, StartSpawns, StartFails,
     Click, CommandReturns
<1> QED
  BY <1>1, <1>2, <1>3, <1>6, <1>7, <1>8 DEF CommandBegins, CommandGoesOn

\* No worker, save or exit brings a deleted task back.
LEMMA StepKeepsGone ==
  ASSUME IoErrors = FALSE, Gone, [DesktopNext]_desktopVars
  PROVE  Gone'
<1>1. CASE Stored
  BY <1>1 DEF Stored, Save, Insert, deskVars, Free, Gone, Deleting
<1>2. CASE Polls
  <2>1. CASE RecoverRecorded
    BY <2>1 DEF RecoverRecorded, Gone, Deleting
  <2>2. CASE Refresh
    BY <2>2 DEF Refresh, vars, taskVars, callVars, diskVars, Free, Gone, Deleting
  <2> QED
    BY <1>2, <2>1, <2>2 DEF Polls
<1>3. CASE Exit
  BY <1>3 DEF Exit, Crash, Unload, Return, diskVars, Free, Gone, Deleting
<1>4. ASSUME UNCHANGED <<cmd, taskRecord>>, UNCHANGED vars, card' = card \/ card # "none"
      PROVE  Gone'
  BY <1>4 DEF vars, taskVars, callVars, diskVars, Free, Gone, Deleting
<1>5. ASSUME NEW w \in Worker, WorkerMoves(w) PROVE Gone'
  <2>1. UNCHANGED <<cmd, taskRecord>> /\ (card' = card \/ card # "none")
    BY <1>5 DEF WorkerMoves, WorkerBegins, WorkerFinishes, WorkerStops, WorkerGoesOn,
       WorkerSends, WorkerFails, WorkerReports, WorkerShows, SettleReads, SettleMarks, SettleTells
  <2>2. CASE loaded
    BY <2>1, <2>2 DEF Gone, Deleting
  <2>3. CASE UNCHANGED vars
    BY <1>4, <2>1, <2>3
  <2>4. loaded \/ UNCHANGED vars
    BY <1>5 DEF WorkerMoves, WorkerBegins, WorkerFinishes, WorkerStops, WorkerGoesOn,
       WorkerSends, WorkerFails, WorkerReports, WorkerShows, SettleReads, SettleMarks,
       SettleTells, RecordRealChunkCommit, RecordRealFileComplete, CanRecord, PauseTask,
       RecordTaskFailure, Refused
  <2> QED
    BY <2>2, <2>3, <2>4
<1>6. CASE UNCHANGED desktopVars
  BY <1>4, <1>6 DEF desktopVars, deskVars
<1> QED
  BY <1>1, <1>2, <1>3, <1>5, <1>6, CommandsKeepGone DEF DesktopNext

(***************************************************************************)
(* A deleted task stays gone, from the engine, from the store and from the *)
(* screen, whoever was still at work for it, however stale the page and    *)
(* whenever the process exits, if the store removes what it is told to.    *)
(***************************************************************************)
THEOREM DeletedTasksStayGone ==
  ASSUME IoErrors = FALSE
  PROVE  DesktopSpec => []DeletedStaysGone
<1>1. DesktopInit => Gone
  BY DEF DesktopInit, Gone, Deleting
<1>2. Gone /\ [DesktopNext]_desktopVars => Gone'
  BY StepKeepsGone
<1>3. Gone => DeletedStaysGone
  BY DEF Gone, Deleting, DeletedStaysGone
<1> QED
  BY <1>1, <1>2, <1>3, PTL DEF DesktopSpec
=============================================================================

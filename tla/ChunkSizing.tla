----------------------------- MODULE ChunkSizing -----------------------------
(***************************************************************************)
(* Which chunk size a transfer task is cut with, and who knows it: the     *)
(* engine's configuration, the desktop's .task record and the workers each *)
(* hold a copy (apps/desktop/src-tauri/src/lib.rs).  Recorded chunk        *)
(* indices mean nothing under another size, so the three must agree, and   *)
(* starting a task again must not change it.                               *)
(*                                                                         *)
(* Sizes are in KiB; 0 is an empty file.                                   *)
(***************************************************************************)
EXTENDS Naturals, FiniteSets

CONSTANTS
  Tasks,         \* kinds of task: "Adb", "Wifi", "Dual", "WifiPull"
  SourceSizes,   \* sizes the files of the source can have
  Requests,      \* chunk sizes a draft can ask for
  MaxFiles,      \* files the source holds at most
  RecordIoErrors \* TRUE: writing the .task record may fail

ASSUME ChunkSizingAssumption ==
  /\ Tasks \subseteq {"Adb", "Wifi", "Dual", "WifiPull"}
  /\ SourceSizes \subseteq Nat
  /\ Requests \subseteq Nat \ {0}
  /\ MaxFiles \in Nat
  /\ RecordIoErrors \in BOOLEAN

VARIABLES
  task,     \* the worker its record starts
  source,   \* the sizes of the files in the source directory
  stage,    \* "draft", "created" or "started"
  listed,   \* the sizes its creation or its last start has seen
  record,   \* chunk_size_bytes of the .task record
  engine,   \* chunk_size_bytes of the engine's TaskConfig
  workers   \* the chunk sizes the running workers cut the files with

sizingVars == <<task, source, stage, listed, record, engine, workers>>

MiB == 1024
GiB == 1024 * MiB

AtLeast(n, low) == IF n < low THEN low ELSE n
AtMost(n, high) == IF n > high THEN high ELSE n
Clamp(n, low, high) == AtMost(AtLeast(n, low), high)
Greatest(S) == CHOOSE n \in S : \A m \in S : m <= n

IsLargeFile(size) == size >= 32 * MiB
-----------------------------------------------------------------------------
WifiTransferChunkSize(size, requested) ==
  LET adaptive == CASE size >= 4 * GiB                     -> 8 * MiB
                    [] size >= GiB /\ size < 4 * GiB       -> 4 * MiB
                    [] size >= 128 * MiB /\ size < GiB     -> 2 * MiB
                    [] size >= 16 * MiB /\ size < 128 * MiB -> MiB
                    [] size >= MiB /\ size < 16 * MiB      -> 512
                    [] size > 0 /\ size < MiB              -> 256
                    [] size = 0                            -> MiB
  IN  Clamp(AtLeast(Clamp(requested, 64, 8 * MiB), adaptive), 64, 8 * MiB)

WifiTaskChunkSize(sizes, requested) ==
  IF sizes = {} THEN WifiTransferChunkSize(0, requested)
  ELSE Greatest({WifiTransferChunkSize(s, requested) : s \in sizes})

\* Mutant: half-way between the two sizes instead of the larger one.
AveragedSameFileChunkSize(size, requested) ==
  LET adaptive == CASE size >= 4 * GiB               -> 64 * MiB
                    [] size >= GiB /\ size < 4 * GiB -> 32 * MiB
                    [] size < GiB                    -> 8 * MiB
  IN  Clamp((requested + adaptive) \div 2, 1, 64 * MiB)

DualSameFileChunkSize(size, requested) ==
  LET adaptive == CASE size >= 4 * GiB               -> 64 * MiB
                    [] size >= GiB /\ size < 4 * GiB -> 32 * MiB
                    [] size < GiB                    -> 8 * MiB
  IN  Clamp(AtLeast(requested, adaptive), 1, 64 * MiB)

LargeOf(sizes) == {s \in sizes : IsLargeFile(s)}

\* same_file_dual_task_chunk_size; start_dual_pc_to_android_from_record asks
\* the same of what it lists.
DualTaskChunkSize(sizes, requested) ==
  IF LargeOf(sizes) = {} THEN requested
  ELSE Greatest({DualSameFileChunkSize(s, requested) : s \in LargeOf(sizes)})
-----------------------------------------------------------------------------
\* A pull is of a single file.
Sources ==
  {S \in SUBSET SourceSizes :
     Cardinality(S) <= IF task = "WifiPull" THEN 1 ELSE MaxFiles}

SizingInit ==
  /\ task \in Tasks
  /\ source \in Sources
  /\ stage = "draft"
  /\ listed = {}
  /\ record = 0
  /\ engine = 0
  /\ workers = {}

\* create_transfer_task
CreateTransferTask(request) ==
  /\ stage = "draft"
  /\ stage' = "created"
  /\ engine' = IF task = "Dual" THEN DualTaskChunkSize(source, request) ELSE request
  /\ record' = engine'
  /\ listed' = source
  /\ UNCHANGED <<task, source, workers>>

\* The size a start settles on, from the record and the files it lists.
StartChunkSize(sizes) ==
  CASE task = "Adb"                  -> record
    [] task \in {"Wifi", "WifiPull"} -> WifiTaskChunkSize(sizes, record)
    [] task = "Dual"                 -> DualTaskChunkSize(sizes, record)

\* Mutant: the engine is not told of the new size.
ResizeRecordOnly(size) ==
  /\ engine' = engine
  /\ record' = size

\* reconfigure_task_chunk_size and the record's new size; a failure to write
\* the record is ignored, and the next start reads the old one.
Resize(size) ==
  /\ engine' = IF size # record THEN AtLeast(size, 1) ELSE engine
  /\ record' \in {size} \cup (IF RecordIoErrors THEN {record} ELSE {})

\* What each worker cuts its files with: the lanes that share a file ask once
\* more for each file, and the Wi-Fi lane of a Dual task sends small files whole.
WorkerChunkSizes(sizes, size) ==
  IF task = "Dual"
    THEN {DualSameFileChunkSize(s, size) : s \in LargeOf(sizes)} \cup {size}
    ELSE {size}

StartTransferTask ==
  /\ stage # "draft" /\ workers = {}
  /\ stage' = "started"
  /\ LET sizes == IF task = "WifiPull" THEN listed ELSE source
         size  == StartChunkSize(sizes)
     IN  /\ Resize(size)
         /\ workers' = WorkerChunkSizes(sizes, size)
         /\ listed' = sizes
  /\ UNCHANGED <<task, source>>

\* The workers end: paused, interrupted, or done.
WorkersStop ==
  /\ workers # {}
  /\ workers' = {}
  /\ UNCHANGED <<task, source, stage, listed, record, engine>>

\* The user's files change while no transfer runs.
SourceChanges ==
  /\ workers = {}
  /\ source' \in Sources \ {source}
  /\ UNCHANGED <<task, stage, listed, record, engine, workers>>

SizingNext ==
  \/ \E request \in Requests : CreateTransferTask(request)
  \/ StartTransferTask \/ WorkersStop \/ SourceChanges

SizingSpec == SizingInit /\ [][SizingNext]_sizingVars
-----------------------------------------------------------------------------
(***************************************************************************)
(* Every worker cuts its files with the engine's chunk size.  The size is  *)
(* worked out in four places - the draft, the start, once more per file by *)
(* the lanes that share one, and the engine's own copy - and a chunk index *)
(* reported under another size would be recorded as different bytes.       *)
(***************************************************************************)
WorkersUseTheEngineSplit == \A size \in workers : size = engine

(***************************************************************************)
(* Pausing a task and starting it again over unchanged files leaves the    *)
(* split alone, whatever size the first draft asked for: the adaptive      *)
(* policies applied to their own result give it back.  Otherwise the       *)
(* indices in the checkpoint would be read under another size.             *)
(***************************************************************************)
RestartKeepsTheSplit ==
  [][stage = "started" /\ listed' = listed => engine' = engine]_sizingVars
=============================================================================

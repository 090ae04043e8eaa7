---------------------------- MODULE MCScheduler -----------------------------
(***************************************************************************)
(* Model values for Scheduler: a large file of six bytes, a small one of   *)
(* three, an empty file and another small one, cut by each of ChunkSizes;  *)
(* and the chunk arithmetic against what it is meant to compute.           *)
(***************************************************************************)
EXTENDS Scheduler

CONSTANT MaxStride

VARIABLE chunkSize   \* chunk_size_bytes of the task the scheduler is built for

MCFileSize == [f \in 0 .. 3 |-> CASE f = 0 -> 6 [] f = 1 -> 3 [] f = 2 -> 0 [] f = 3 -> 1]
MCChunkSizes == 0 .. 7

cutVars == <<schedVars, chunkSize>>

CutInit == chunkSize \in ChunkSizes /\ SchedulerInit(chunkSize)
CutNext == SchedulerNext /\ UNCHANGED chunkSize
CutSpec == CutInit /\ [][CutNext]_cutVars /\ LanesAreFair

(***************************************************************************)
(* split_into_chunks covers every byte of a file once: each byte lies in   *)
(* the range of exactly one chunk, the one BytesOf gives it to, and only   *)
(* the chunk of an empty file is empty.  Boundaries: a size that is a      *)
(* multiple of the chunk size, one off it, 0, and a chunk size of 0.       *)
(***************************************************************************)
SplitCoversEachByteOnce ==
  \A f \in File :
    /\ \A b \in Bytes(f) :
         {c \in Split(f, chunkSize) :
            /\ Offset(chunkSize, c[2]) <= b[2]
            /\ b[2] < Offset(chunkSize, c[2]) + Length(FileSize[f], chunkSize, c[2])}
         = {ChunkOf(b, chunkSize)}
    /\ \A c \in Split(f, chunkSize) :
         /\ Cardinality(BytesOf({c}, chunkSize)) = Length(FileSize[f], chunkSize, c[2])
         /\ Length(FileSize[f], chunkSize, c[2]) = 0 => FileSize[f] = 0

(***************************************************************************)
(* The desktop counts and measures chunks with code of its own; it finds   *)
(* as many chunks as the engine, each as long.  With one more or one less  *)
(* a file would never, or too early, be taken for complete.                *)
(***************************************************************************)
DesktopCutsLikeTheEngine ==
  \A f \in File :
    /\ ChunkCountForSize(FileSize[f], chunkSize) = NumChunks(f, chunkSize)
    /\ \A c \in Split(f, chunkSize) :
         ChunkLengthFor(FileSize[f], chunkSize, c[2]) = Length(FileSize[f], chunkSize, c[2])

(***************************************************************************)
(* The two lanes that share a file own every chunk of it exactly once, and *)
(* neither is idle when there are two chunks or more, for every stride the *)
(* calibration or the environment may give.                                *)
(***************************************************************************)
LanesShareTheFile ==
  \A f \in File, stride \in 0 .. MaxStride :
    LET chunks      == Split(f, chunkSize)
        owned(lane) == {c \in chunks : OwnsChunk(lane, c[2], stride)}
    IN  /\ owned("Adb") \cup owned("Wifi") = chunks
        /\ owned("Adb") \cap owned("Wifi") = {}
        /\ Cardinality(chunks) > 1 => owned("Adb") # {} /\ owned("Wifi") # {}
=============================================================================

------------------------------ MODULE Chunking ------------------------------
(***************************************************************************)
(* The files of a transfer task and how transfer-core cuts them into       *)
(* chunks (crates/transfer-core/src/models.rs), with the arithmetic the    *)
(* desktop workers repeat on their own (apps/desktop/src-tauri/src/lib.rs).*)
(*                                                                         *)
(* A chunk is identified by <<file index, chunk index>>, as a checkpoint   *)
(* records it; its offset and length follow from the file's size and the   *)
(* chunk size of the task at the time it is used.                          *)
(***************************************************************************)
EXTENDS Naturals, FiniteSets

CONSTANTS
  NFiles,      \* number of items of the task
  FileSize,    \* size in bytes of each file
  ChunkSizes   \* the chunk sizes the task may be configured with

File == 0 .. (NFiles - 1)

ASSUME ChunkingAssumption ==
  /\ NFiles \in Nat
  /\ FileSize \in [File -> Nat]
  /\ ChunkSizes \subseteq Nat

Chunk == File \X Nat

AtLeastOne(n) == IF n = 0 THEN 1 ELSE n

\* Mutant: the chunk count rounded down, so that a partial last chunk is lost.
RoundedDownChunkCount(size, chunkSize) ==
  IF size = 0 THEN 1 ELSE size \div AtLeastOne(chunkSize)

\* split_into_chunks(..).len(): an empty file is one empty chunk.
ChunkCount(size, chunkSize) ==
  IF size = 0 THEN 1
  ELSE (size + AtLeastOne(chunkSize) - 1) \div AtLeastOne(chunkSize)

Offset(chunkSize, i) == i * AtLeastOne(chunkSize)

\* The length split_into_chunks gives chunk i, the subtraction saturating at 0.
Length(size, chunkSize, i) ==
  LET start     == Offset(chunkSize, i)
      remaining == IF start > size THEN 0 ELSE size - start
  IN  IF remaining < AtLeastOne(chunkSize) THEN remaining ELSE AtLeastOne(chunkSize)

NumChunks(f, chunkSize) == ChunkCount(FileSize[f], chunkSize)

\* The chunks split_into_chunks produces for file f.
Split(f, chunkSize) == {f} \X (0 .. (NumChunks(f, chunkSize) - 1))

\* Every chunk of the first n files.
SplitAll(n, chunkSize) == UNION {Split(f, chunkSize) : f \in 0 .. (n - 1)}

\* The bytes of the task, and those the chunks of S cover: what adding up the
\* lengths of distinct chunks counts (SplitCoversEachByteOnce, MCScheduler).
Bytes(f) == IF FileSize[f] = 0 THEN {} ELSE {f} \X (0 .. (FileSize[f] - 1))
AllBytes == UNION {Bytes(f) : f \in File}
ChunkOf(b, chunkSize) == <<b[1], b[2] \div AtLeastOne(chunkSize)>>
BytesOf(S, chunkSize) == {b \in AllBytes : ChunkOf(b, chunkSize) \in S}

IsLarge(f, threshold) == FileSize[f] >= threshold
-----------------------------------------------------------------------------
\* Mutants: a last chunk even when the size is a multiple of the chunk size; a
\* stride taken as it is, so that a stride of 1 leaves the Wi-Fi lane nothing.
AlwaysOneMoreChunk(size, chunkSize) ==
  IF size = 0 THEN 1 ELSE size \div AtLeastOne(chunkSize) + 1

OwnsChunkByBareStride(lane, i, stride) ==
  LET wifiOwns == i % AtLeastOne(stride) = 1
  IN  IF lane = "Wifi" THEN wifiOwns ELSE ~wifiOwns

\* The desktop's own arithmetic for the chunks its workers send.
ChunkCountForSize(size, chunkSize) ==
  IF size = 0 THEN 1
  ELSE size \div AtLeastOne(chunkSize)
         + (IF size % AtLeastOne(chunkSize) = 0 THEN 0 ELSE 1)

ChunkLengthFor(size, chunkSize, i) ==
  IF size = 0 THEN 0
  ELSE LET start == i * AtLeastOne(chunkSize)
           left  == IF start > size THEN 0 ELSE size - start
       IN  IF left < AtLeastOne(chunkSize) THEN left ELSE AtLeastOne(chunkSize)

\* Which of the two lanes of a same-file Dual transfer writes chunk i: Wi-Fi
\* takes one chunk of every `stride`, ADB the others.
OwnsChunk(lane, i, stride) ==
  LET modulus  == IF stride < 2 THEN 2 ELSE stride
      wifiOwns == i % modulus = 1
  IN  IF lane = "Wifi" THEN wifiOwns ELSE ~wifiOwns
=============================================================================

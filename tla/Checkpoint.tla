----------------------------- MODULE Checkpoint -----------------------------
(***************************************************************************)
(* The contents of one task's .ckpt file (checkpoint.rs) and what a load   *)
(* makes of a file whose write was cut short.  The store writes with       *)
(* fs::write, which truncates the file before it fills it, so a failed     *)
(* write or an exit of the process in the middle of one leaves a prefix:   *)
(* the header lines first, then one line per file.                         *)
(***************************************************************************)
EXTENDS Scheduler

CONSTANTS
  InitialChunkSize,  \* chunk_size_bytes of the task's configuration
  TornIndices        \* chunk indices a cut modification time can be read as

ASSUME CheckpointAssumption ==
  /\ InitialChunkSize \in ChunkSizes
  /\ 0 \in ChunkSizes => 1 \in ChunkSizes   \* a size of 0 is raised to 1
  /\ TornIndices \subseteq Nat

TaskState == {"Pending", "Running", "Paused", "Completed", "Failed", "Cancelled"}

\* completed_chunk_lanes: the chunks recorded for each lane.
LaneRecord == [Lane -> SUBSET Chunk]
NoLaneRecord == [l \in Lane |-> {}]

\* A checkpoint entry: its state, how many files it lists, the chunks they
\* have completed and over which lane, and the configured chunk size.
Image == [state     : TaskState,
          files     : 0 .. NFiles,
          done      : SUBSET Chunk,
          via       : LaneRecord,
          chunkSize : ChunkSizes]

\* initialize_checkpoint
FreshImage == [state     |-> "Pending",
               files     |-> NFiles,
               done      |-> {},
               via       |-> NoLaneRecord,
               chunkSize |-> InitialChunkSize]

\* The first k file lines of an entry.
FilePrefix(img, k) ==
  [img EXCEPT !.files = k,
              !.done  = {c \in img.done : c[1] < k},
              !.via   = [l \in Lane |-> {c \in img.via[l] : c[1] < k}]]

(***************************************************************************)
(* The k whole lines followed by a damaged line for file k.  A line cut    *)
(* before its third field does not parse.  Cut within that field, the      *)
(* modification time, the line has the shape of the oldest format, whose   *)
(* third field is the chunk list: it reads as no chunk, or as the one      *)
(* chunk whose index the leading digits spell (the whole time, or the      *)
(* fields up to the digest, do not fit the format and do not parse).  Cut  *)
(* after the digest, the chunk list is whole and the lane list a prefix.   *)
(***************************************************************************)
DamagedLine(img, k) ==
  LET kept  == FilePrefix(img, k)
      whole == FilePrefix(img, k + 1)
  IN  {[kept EXCEPT !.files = k + 1, !.done = @ \cup extra] :
         extra \in {{}} \cup {{<<k, i>>} : i \in TornIndices}}
      \cup
      {[whole EXCEPT !.via = [l \in Lane |->
          {c \in whole.via[l] : c[1] < k \/ c[2] < bound}]] :
         bound \in {0} \cup {c[2] + 1 : c \in whole.done}}

\* Every entry a load can return from a proper prefix of img's file; a prefix
\* that does not parse is the file status "unreadable".
TornReads(img) ==
  {FilePrefix(img, k) : k \in 0 .. img.files}
  \cup UNION {DamagedLine(img, k) : k \in 0 .. (img.files - 1)}
=============================================================================

--------------------------- MODULE MCChunkSizing ----------------------------
(***************************************************************************)
(* Model values for ChunkSizing: sizes on both sides of each threshold of  *)
(* the policies, and requests below, between and above their bounds.       *)
(***************************************************************************)
EXTENDS ChunkSizing

MCSourceSizes ==
  {0, MiB - 1, MiB, 16 * MiB, 32 * MiB - 1, 32 * MiB, 128 * MiB,
   GiB - 1, GiB, 4 * GiB - 1, 4 * GiB}
MCRequests == {1, 256, 700, 4 * MiB, 8 * MiB, 40 * MiB, 100 * MiB}
=============================================================================

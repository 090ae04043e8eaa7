----------------------------- MODULE FileTransfer -----------------------------
(***************************************************************************)
(* What a transfer by chunks promises, whatever carries it: chunks arrive  *)
(* and stay, a chunk is recorded only once it is there, and a file takes   *)
(* its final name only when all of its chunks are recorded.                *)
(***************************************************************************)
CONSTANTS
  Files,         \* the files to transfer
  ChunksOf(_)    \* the chunks of a file

VARIABLES
  delivered,   \* chunks that have arrived
  recorded,    \* chunks in the checkpoint
  published    \* files under their final name

transferVars == <<delivered, recorded, published>>

TransferInit ==
  /\ delivered = {}
  /\ recorded = {}
  /\ published = {}

Deliver ==
  /\ \E f \in Files : \E c \in ChunksOf(f) : delivered' = delivered \cup {c}
  /\ UNCHANGED <<recorded, published>>

Record ==
  /\ \E f \in Files : \E S \in SUBSET ChunksOf(f) :
       S \subseteq delivered /\ recorded' = recorded \cup S
  /\ UNCHANGED <<delivered, published>>

Publish ==
  /\ \E f \in Files :
       ChunksOf(f) \subseteq recorded /\ published' = published \cup {f}
  /\ UNCHANGED <<delivered, recorded>>

TransferSpec == TransferInit /\ [][Deliver \/ Record \/ Publish]_transferVars
=============================================================================

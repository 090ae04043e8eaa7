----------------------------- MODULE DesktopProps ----------------------------
(***************************************************************************)
(* What the desktop promises about transfers, its cards and its records.   *)
(***************************************************************************)
EXTENDS Desktop

\* Threads that still send, or are about to.
Transferring ==
  {w \in Worker : worker[w].pc \in {"spawn", "begin", "next", "send", "engine", "card"}}

(***************************************************************************)
(* A card that says Running stands for a thread that serves the task: the  *)
(* check of start_* for a running transfer, and the refusal to delete one  *)
(* ("the task is running, cancel it before you delete the record"), rest   *)
(* on it.  Progress reports overwrite the state of the entry, and an old   *)
(* worker those of a new one, so this depends on who writes last.          *)
(***************************************************************************)
RunningCardHasWorker == card = "Running" => Serving # {}

(***************************************************************************)
(* Once paused or cancelled, a worker sends the chunk it is at and no      *)
(* other: it sees the flag at the next boundary of every path through its  *)
(* loops, in whatever order the click, its reports and the cards come.     *)
(***************************************************************************)
StopsWithinOneChunk == \A w \in Worker : worker[w].late <= 1

(***************************************************************************)
(* No two threads send the files of one task: they would write the same    *)
(* temporary files on the device.  Only the state shown by the registry    *)
(* keeps start_* from adding a second one.                                 *)
(***************************************************************************)
OneTransferAtATime == Cardinality(Transferring) <= 1

(***************************************************************************)
(* A deleted task does not come back: neither a worker that was still      *)
(* under way, nor the recovery of recorded tasks, nor a click on a task    *)
(* the page still shows makes it an engine task, a checkpoint or a card.   *)
(***************************************************************************)
DeletedStaysGone ==
  taskRecord = "deleted" =>
    /\ ~ loaded /\ file = "absent"
    /\ cmd # "deleteEntry" => card = "none"
-----------------------------------------------------------------------------
(***************************************************************************)
(* A transfer that has begun ends: its card does not say Running for ever, *)
(* whatever late reports and settling threads write into it.  Threads run, *)
(* requests to the device return (sockets have timeouts; adb is assumed to *)
(* exit), the main thread goes on with a command it has begun, and a       *)
(* thread that waits for the engine's mutex gets it in the end.            *)
(***************************************************************************)
DesktopFairSpec ==
  /\ DesktopSpec
  /\ WF_desktopVars(Stored)
  /\ SF_desktopVars(CommandGoesOn)
  /\ \A w \in Worker : SF_desktopVars(WorkerMoves(w))

TransfersEnd ==
  card = "Running" /\ owner \in Transferring /\ worker[owner].pc # "spawn"
    ~> card # "Running"
=============================================================================

--------------------------- MODULE TaskLifecycle ----------------------------
(***************************************************************************)
(* What a user of the engine may rely on, for one task: the states it can  *)
(* pass through, and that chunks recorded by an operation that has         *)
(* returned are found again after the application has died.                *)
(***************************************************************************)
CONSTANT Chunks   \* the chunks a task may record

VARIABLES
  status,    \* "NoTask", or the state of the task
  recorded,  \* the chunks the running application has recorded
  saved,     \* the chunks a restart would find
  unsaved    \* is an operation under way that has yet to save?

lifeVars == <<status, recorded, saved, unsaved>>

Open == {"Pending", "Running", "Paused"}

\* The states an operation may move a task to.  A completed task can be found
\* running again by a late report, or failed, but never pending or paused; a
\* cancelled one can only be declared failed.
Successors(s) ==
  CASE s \in Open        -> {s, "Running", "Paused", "Completed", "Failed", "Cancelled"}
    [] s = "Completed"   -> {"Running", "Completed", "Failed"}
    [] s = "Failed"      -> {"Paused", "Failed", "Cancelled"}
    [] s = "Cancelled"   -> {"Cancelled", "Failed"}
    [] OTHER             -> {}

Start ==
  /\ status = "NoTask"
  /\ ~ unsaved
  /\ status' \in {"Pending", "Paused", "Completed", "Cancelled"}
  /\ recorded' = saved
  /\ status' = "Pending" => saved = {}
  /\ UNCHANGED <<saved, unsaved>>

\* A change of state that records nothing.
Move ==
  /\ status' \in Successors(status)
  /\ unsaved' \in {unsaved, TRUE}
  /\ UNCHANGED <<recorded, saved>>

\* Progress: refused once the task is cancelled or has failed.
Record ==
  /\ status \in Open \cup {"Completed"}
  /\ status' \in {"Running", "Completed"}
  /\ recorded' \in SUBSET Chunks
  /\ recorded \subseteq recorded'
  /\ unsaved' = TRUE
  /\ UNCHANGED saved

Flush ==
  /\ unsaved
  /\ saved' = recorded
  /\ unsaved' = FALSE
  /\ UNCHANGED <<status, recorded>>

\* The application dies: what no operation had saved yet is lost, no more.
Die ==
  /\ status' = "NoTask"
  /\ recorded' = {}
  /\ unsaved' = FALSE
  /\ UNCHANGED saved

Discard ==
  /\ status # "Running"
  /\ ~ unsaved
  /\ status' = "NoTask"
  /\ recorded' = {}
  /\ saved' = {}
  /\ UNCHANGED unsaved

LifeInit ==
  /\ status = "NoTask"
  /\ recorded = {}
  /\ saved = {}
  /\ unsaved = FALSE

LifeNext == Start \/ Move \/ Record \/ Flush \/ Die \/ Discard

LifeSpec == LifeInit /\ [][LifeNext]_lifeVars
=============================================================================

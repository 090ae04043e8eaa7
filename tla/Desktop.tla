------------------------------- MODULE Desktop -------------------------------
(***************************************************************************)
(* The desktop application around the engine (lib.rs of src-tauri), for a  *)
(* task pushed over one track: the commands of its user interface, the     *)
(* registry of transfers (AdbTransferRegistry), the worker threads, the    *)
(* .task record, and the end of the process.                               *)
(*                                                                         *)
(* Commands run on the main thread, one after the other, and only workers  *)
(* come between the sections of one: a section holds the mutex of the      *)
(* registry or of the engine, never both, and is a step here.  `cmd` is    *)
(* the section the main thread comes to next.  The buttons follow the      *)
(* state of the task as it was last displayed.                             *)
(***************************************************************************)
EXTENDS Engine

CONSTANTS
  Worker,          \* the threads that may serve the task, over and over
  Prompt,          \* TRUE: the page and the workers are quicker than the user
  ManifestErrors   \* TRUE: listing the source files may fail

ASSUME DesktopAssumption ==
  /\ Mode \in {"AdbOnly", "WifiOnly"}
  /\ {Prompt, ManifestErrors} \subseteq BOOLEAN
  /\ "nobody" \notin Worker

VARIABLES
  card,        \* state of the registry's entry for the task, or "none"
  owner,       \* the worker whose pause flag the entry holds
  worker,      \* the worker threads
  cmd,         \* what the main thread is doing, or "none"
  displayed,   \* the state of the task on the screen, or "none"
  taskRecord   \* the .task record: "none" yet, "saved" or "deleted"

deskVars == <<card, owner, worker, cmd, displayed, taskRecord>>
desktopVars == <<vars, deskVars>>

TrackLane == IF Mode = "AdbOnly" THEN "Adb" ELSE "Wifi"

\* Where a worker is: at a chunk of a file or, past the last one, at the end of
\* the file.
Position == File \X Nat
AtEnd(p) == p[2] = NumChunks(p[1], chunkSize)
Following(p) == IF AtEnd(p) THEN <<p[1] + 1, 0>> ELSE <<p[1], p[2] + 1>>

NoWorker == [pc        |-> "none",    \* the section or request it comes to next
             pos       |-> <<0, 0>>,
             skip      |-> {},        \* the chunks the checkpoint listed
             stop      |-> FALSE,     \* pause_requested
             late      |-> 0,         \* chunks sent since it was set
             cancelled |-> FALSE,     \* what settle_worker_result has read
             result    |-> "ok"]

\* Threads that have not passed their last word to the registry.
Serving == {w \in Worker : worker[w].pc \notin {"none", "tell"}}

Goto(w, label) == worker' = [worker EXCEPT ![w].pc = label]

\* The transfer has ended; all that settle_worker_result is given is its result.
Ends(w, result) ==
  worker' = [worker EXCEPT ![w] = [NoWorker EXCEPT !.pc = "settle", !.result = result]]

\* A command is over; the page asks for the state of the tasks.
CommandReturns == cmd' = IF Prompt THEN "show" ELSE "none"

\* An engine operation whose error the desktop ignores or only reports.
Refused(condition) == Free /\ ~ condition /\ UNCHANGED vars
-----------------------------------------------------------------------------
(***************************************************************************)
(* The worker (run_wifi_pc_to_android, push_path_to_device_with_control).  *)
(***************************************************************************)
\* load_task_checkpoint; ADB looks at the device instead.
WorkerBegins(w) ==
  /\ worker[w].pc = "begin"
  /\ Free
  /\ worker' = [worker EXCEPT ![w].pc = "next",
                  ![w].skip = IF Mode = "WifiOnly" /\ file = "ok" THEN disk.done ELSE {}]
  /\ UNCHANGED <<vars, card, owner, cmd, displayed, taskRecord>>

WorkerFinishes(w) ==
  /\ worker[w].pc = "next"
  /\ worker[w].pos[1] = NFiles
  /\ Ends(w, "ok")
  /\ UNCHANGED <<vars, card, owner, cmd, displayed, taskRecord>>

\* The pause flag is looked at before a file, before a chunk and, by ADB, before
\* the chunks of a file are put together.
AtBoundary(w) ==
  /\ worker[w].pc = "next"
  /\ worker[w].pos[1] < NFiles
  /\ Mode = "AdbOnly" \/ ~ AtEnd(worker[w].pos)

WorkerStops(w) ==
  /\ AtBoundary(w)
  /\ worker[w].stop
  /\ Ends(w, "paused")
  /\ UNCHANGED <<vars, card, owner, cmd, displayed, taskRecord>>

Checkpointed(w, p) == ~ AtEnd(p) /\ p \in worker[w].skip

\* is_file_fully_checkpointed, or a file of the right size on the device.
WholeFileThere(w, f) ==
  \/ Mode = "AdbOnly"
  \/ Mode = "WifiOnly" /\ Split(f, chunkSize) \subseteq worker[w].skip

\* Mutant: the flag is looked at before a file only.
WorkerGoesOnUnlessNewFile(w) ==
  /\ worker[w].pc = "next"
  /\ worker[w].pos[1] < NFiles
  /\ worker[w].pos[2] = 0 => ~ worker[w].stop
  /\ worker' = [worker EXCEPT ![w].pc = "send"]
  /\ UNCHANGED <<vars, card, owner, cmd, displayed, taskRecord>>

WorkerGoesOn(w) ==
  LET p == worker[w].pos
  IN  /\ worker[w].pc = "next"
      /\ p[1] < NFiles
      /\ AtBoundary(w) => ~ worker[w].stop
      /\ \/ /\ p[2] = 0 /\ WholeFileThere(w, p[1])
            /\ worker' = [worker EXCEPT ![w].pc = "send",
                            ![w].pos = <<p[1], NumChunks(p[1], chunkSize)>>]
         \/ /\ ~ (Mode = "WifiOnly" /\ p[2] = 0 /\ WholeFileThere(w, p[1]))
            /\ Goto(w, IF Checkpointed(w, p) THEN "card" ELSE "send")
      /\ UNCHANGED <<vars, card, owner, cmd, displayed, taskRecord>>

\* ADB tells the registry first and then the engine, Wi-Fi the engine first.
AfterSend == IF Mode = "AdbOnly" THEN "card" ELSE "engine"

\* The chunk, or COMPLETE_FILE, reaches the device.
WorkerSends(w) ==
  LET p == worker[w].pos
  IN  /\ worker[w].pc = "send"
      /\ worker' = [worker EXCEPT ![w].pc = AfterSend,
                      ![w].late = IF worker[w].stop /\ ~ AtEnd(p) THEN @ + 1 ELSE @]
      /\ UNCHANGED <<vars, card, owner, cmd, displayed, taskRecord>>

\* Reading the source, the device, the connection or the verification fails,
\* in a way that is_recoverable_transfer_interruption recognises or not.
WorkerFails(w) ==
  /\ worker[w].pc \in {"begin", "next", "send"}
  /\ \E result \in {"paused", "failed"} : Ends(w, result)
  /\ UNCHANGED <<vars, card, owner, cmd, displayed, taskRecord>>

\* Over Wi-Fi, the end of a file that was pushed is not shown.
Shown(w) ==
  Mode = "AdbOnly"
    \/ (AtEnd(worker[w].pos) => WholeFileThere(w, worker[w].pos[1]))

Advance(w) ==
  worker' = [worker EXCEPT ![w].pc = "next", ![w].pos = Following(@)]

\* The report to the engine.  Its error, for a task that is gone, cancelled or
\* has failed, is ignored.
WorkerReports(w) ==
  LET p == worker[w].pos
  IN  /\ worker[w].pc = "engine"
      /\ \/ /\ ~ AtEnd(p)
            /\ RecordRealChunkCommit(p, Length(FileSize[p[1]], chunkSize, p[2]), TrackLane, TRUE)
         \/ AtEnd(p) /\ RecordRealFileComplete(p[1], TrackLane)
         \/ Refused(CanRecord)
      /\ IF Mode = "WifiOnly" /\ Shown(w) THEN Goto(w, "card") ELSE Advance(w)
      /\ UNCHANGED <<card, owner, cmd, displayed, taskRecord>>

\* The progress of the entry, if there still is one, whoever's it is.
WorkerShows(w) ==
  /\ worker[w].pc = "card"
  /\ card' = IF card = "none" THEN "none" ELSE "Running"
  /\ IF Mode = "AdbOnly" THEN Goto(w, "engine") ELSE Advance(w)
  /\ UNCHANGED <<vars, owner, cmd, displayed, taskRecord>>
-----------------------------------------------------------------------------
\* settle_worker_result, in three sections.
SettleReads(w) ==
  /\ worker[w].pc = "settle"
  /\ Free
  /\ worker' = [worker EXCEPT ![w].pc = "mark",
                  ![w].cancelled = loaded /\ state = "Cancelled"]
  /\ UNCHANGED <<vars, card, owner, cmd, displayed, taskRecord>>

Outcome(w) ==
  CASE worker[w].cancelled          -> "Cancelled"
    [] worker[w].result = "ok"      -> "Completed"
    [] worker[w].result = "paused"  -> "Paused"
    [] worker[w].result = "failed"  -> "Failed"

\* The thread ends here, unless it has an error to tell the engine.
LeaveOrTell(w) ==
  worker' = [worker EXCEPT ![w] =
    IF @.cancelled \/ @.result = "ok" THEN NoWorker ELSE [@ EXCEPT !.pc = "tell"]]

\* Mutant: a cancelled task's entry is left as the cancellation made it.
SettleMarksUnlessCancelled(w) ==
  /\ worker[w].pc = "mark"
  /\ card' = IF card = "none" \/ worker[w].cancelled THEN card ELSE Outcome(w)
  /\ LeaveOrTell(w)
  /\ UNCHANGED <<vars, owner, cmd, displayed, taskRecord>>

SettleMarks(w) ==
  /\ worker[w].pc = "mark"
  /\ card' = IF card = "none" THEN "none" ELSE Outcome(w)
  /\ LeaveOrTell(w)
  /\ UNCHANGED <<vars, owner, cmd, displayed, taskRecord>>

SettleTells(w) ==
  /\ worker[w].pc = "tell"
  /\ \/ worker[w].result = "paused" /\ PauseTask
     \/ /\ worker[w].result = "paused"
        /\ Refused(loaded /\ state \notin {"Completed", "Cancelled", "Failed"})
     \/ worker[w].result = "failed" /\ RecordTaskFailure
     \/ worker[w].result = "failed" /\ Refused(loaded)
  /\ worker' = [worker EXCEPT ![w] = NoWorker]
  /\ UNCHANGED <<card, owner, cmd, displayed, taskRecord>>
-----------------------------------------------------------------------------
(***************************************************************************)
(* The commands of the user interface.                                     *)
(***************************************************************************)
Click(states) == cmd = "none" /\ displayed \in states

\* create_transfer_task; every draft gets an id of its own.
CreateTransferTask ==
  /\ cmd = "none"
  /\ taskRecord = "none"
  /\ file = "absent"
  /\ CreateOrRecoverTask
  /\ cmd' = "record"
  /\ UNCHANGED <<card, owner, worker, displayed, taskRecord>>

CreateRecord ==
  /\ cmd = "record"
  /\ Free
  /\ taskRecord' = "saved"
  /\ CommandReturns
  /\ UNCHANGED <<vars, card, owner, worker, displayed>>

\* bootstrap_dashboard, on a timer and after every command: it loads a task
\* that has a record and is not in the engine, and shows what the engine has.
RecoverRecorded ==
  /\ cmd = "none"
  /\ taskRecord = "saved"
  /\ RecoverTask
  /\ cmd' = "show"
  /\ UNCHANGED <<card, owner, worker, displayed, taskRecord>>

Refresh ==
  /\ cmd \in {"none", "show"}
  /\ Free
  /\ ~ (taskRecord = "saved" /\ ~ loaded /\ file = "ok")
  /\ displayed' = IF loaded THEN state ELSE "none"
  /\ cmd' = "none"
  /\ UNCHANGED <<vars, card, owner, worker, taskRecord>>

\* pause_transfer_task and cancel_transfer_task: first the entry, if there is
\* one, then the engine.
StopEntry(mark) ==
  IF card = "none" THEN UNCHANGED <<card, worker>>
  ELSE /\ card' = mark
       /\ worker' = [w \in Worker |->
            IF w = owner THEN [worker[w] EXCEPT !.stop = worker[w].pc \notin {"none", "settle", "mark", "tell"}]
                         ELSE worker[w]]

PauseTransfer ==
  /\ Click({"Running"})
  /\ StopEntry("Pausing")
  /\ cmd' = "pause"
  /\ UNCHANGED <<vars, owner, displayed, taskRecord>>

PauseInEngine ==
  /\ cmd = "pause"
  /\ PauseTask \/ Refused(loaded /\ state \notin {"Completed", "Cancelled", "Failed"})
  /\ CommandReturns
  /\ UNCHANGED <<card, owner, worker, displayed, taskRecord>>

CancelTransfer ==
  /\ Click(TaskState \ {"Completed", "Cancelled"})
  /\ StopEntry("Cancelled")
  /\ cmd' = "cancel"
  /\ UNCHANGED <<vars, owner, displayed, taskRecord>>

CancelInEngine ==
  /\ cmd = "cancel"
  /\ CancelTask \/ Refused(loaded /\ state \notin {"Completed", "Cancelled"})
  /\ CommandReturns
  /\ UNCHANGED <<card, owner, worker, displayed, taskRecord>>

RetryTransfer ==
  /\ Click({"Failed"})
  /\ RetryTask
  /\ CommandReturns
  /\ UNCHANGED <<card, owner, worker, displayed, taskRecord>>

\* resume_transfer_task: the engine's refusal does not keep it from starting.
ResumeTransfer ==
  /\ Click({"Paused"})
  /\ ResumeTask \/ Refused(loaded /\ state = "Paused")
  /\ cmd' = "start"
  /\ UNCHANGED <<card, owner, worker, displayed, taskRecord>>

StartTransfer ==
  /\ Click({"Pending"})
  /\ cmd' = "start"
  /\ UNCHANGED <<vars, card, owner, worker, displayed, taskRecord>>

StartIsRefused ==
  /\ cmd = "start"
  /\ taskRecord # "saved" \/ card \in {"Running", "Pausing"}
  /\ CommandReturns
  /\ UNCHANGED <<vars, card, owner, worker, displayed, taskRecord>>

\* Mutant: whatever the entry of the task says, it is replaced.
StartRegistersAlways ==
  /\ cmd = "start"
  /\ taskRecord = "saved"
  /\ \E w \in Worker :
       /\ worker[w].pc = "none"
       /\ owner' = w
       /\ worker' = [worker EXCEPT ![w].pc = "spawn"]
  /\ card' = "Running"
  /\ cmd' = "spawn"
  /\ UNCHANGED <<vars, displayed, taskRecord>>

\* A new entry, with a pause flag of its own, replaces the one there was.
StartRegisters ==
  /\ cmd = "start"
  /\ taskRecord = "saved"
  /\ card \notin {"Running", "Pausing"}
  /\ Prompt => \A w \in Worker : worker[w].pc # "tell"
  /\ \E w \in Worker :
       /\ worker[w].pc = "none"
       /\ owner' = w
       /\ worker' = [worker EXCEPT ![w].pc = "spawn"]
  /\ card' = "Running"
  /\ cmd' = "spawn"
  /\ UNCHANGED <<vars, displayed, taskRecord>>

StartSpawns ==
  /\ cmd = "spawn"
  /\ Goto(owner, "begin")
  /\ CommandReturns
  /\ UNCHANGED <<vars, card, owner, displayed, taskRecord>>

\* start_wifi_transfer lists the files after it has registered the transfer.
StartFails ==
  /\ ManifestErrors /\ Mode = "WifiOnly"
  /\ cmd = "spawn"
  /\ worker' = [worker EXCEPT ![owner] = NoWorker]
  /\ CommandReturns
  /\ UNCHANGED <<vars, card, owner, displayed, taskRecord>>

\* delete_transfer_task: the registry is asked, the engine told, the record
\* removed, and then the entry.
DeleteTransfer ==
  /\ Click(TaskState \ {"Running"})
  /\ card \notin {"Running", "Pausing"}
  /\ cmd' = "delete"
  /\ UNCHANGED <<vars, card, owner, worker, displayed, taskRecord>>

\* Mutant: the record goes although the engine refuses.
DeleteInEngineAnyway ==
  /\ cmd = "delete"
  /\ DeleteTaskRecord \/ Refused(loaded => state # "Running")
  /\ cmd' = "deleteRecord"
  /\ UNCHANGED <<card, owner, worker, displayed, taskRecord>>

DeleteInEngine ==
  /\ cmd = "delete"
  /\ \/ DeleteTaskRecord /\ cmd' = "deleteRecord"
     \/ Refused(loaded => state # "Running") /\ CommandReturns
  /\ UNCHANGED <<card, owner, worker, displayed, taskRecord>>

DeleteRecord ==
  /\ cmd = "deleteRecord"
  /\ taskRecord' = "deleted"
  /\ cmd' = "deleteEntry"
  /\ UNCHANGED <<vars, card, owner, worker, displayed>>

DeleteEntry ==
  /\ cmd = "deleteEntry"
  /\ card' = "none"
  /\ owner' = "nobody"
  /\ CommandReturns
  /\ UNCHANGED <<vars, worker, displayed, taskRecord>>

\* The process exits: what is left is the record and the checkpoint.
Exit ==
  /\ Crash
  /\ card' = "none"
  /\ owner' = "nobody"
  /\ worker' = [w \in Worker |-> NoWorker]
  /\ cmd' = "none"
  /\ displayed' = "none"
  /\ UNCHANGED taskRecord
-----------------------------------------------------------------------------
Stored == (Save \/ Insert) /\ UNCHANGED deskVars

WorkerMoves(w) ==
  \/ WorkerBegins(w) \/ WorkerFinishes(w) \/ WorkerStops(w) \/ WorkerGoesOn(w)
  \/ WorkerSends(w) \/ WorkerFails(w) \/ WorkerReports(w) \/ WorkerShows(w)
  \/ SettleReads(w) \/ SettleMarks(w) \/ SettleTells(w)

CommandBegins ==
  \/ CreateTransferTask \/ PauseTransfer \/ CancelTransfer \/ RetryTransfer
  \/ ResumeTransfer \/ StartTransfer \/ DeleteTransfer

CommandGoesOn ==
  \/ CreateRecord \/ PauseInEngine \/ CancelInEngine \/ StartIsRefused
  \/ StartRegisters \/ StartSpawns \/ StartFails
  \/ DeleteInEngine \/ DeleteRecord \/ DeleteEntry

Polls == RecoverRecorded \/ Refresh

DesktopInit ==
  /\ Init
  /\ card = "none"
  /\ owner = "nobody"
  /\ worker = [w \in Worker |-> NoWorker]
  /\ cmd = "none"
  /\ displayed = "none"
  /\ taskRecord = "none"

DesktopNext ==
  \/ Stored \/ CommandBegins \/ CommandGoesOn \/ Polls \/ Exit
  \/ \E w \in Worker : WorkerMoves(w)

DesktopSpec == DesktopInit /\ [][DesktopNext]_desktopVars
=============================================================================

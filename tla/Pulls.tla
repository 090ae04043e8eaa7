-------------------------------- MODULE Pulls --------------------------------
(***************************************************************************)
(* A file of the device pulled to the PC: chunk by chunk from the agent    *)
(* (run_wifi_android_to_pc), or as a whole with adb                        *)
(* (run_adb_android_to_pc).  The task has one file, 0; its copy on the PC  *)
(* has its final name from the start.                                      *)
(***************************************************************************)
EXTENDS Worker

VARIABLE local   \* the file on the PC

\* resolve_agent_pull_source: an absolute path has a root of its own.
SourceIsAbsolute == final[<<"target", 0>>].there

PullIndices == 0 .. (NumChunks(0, 1) - 1)

Pulled == local = Whole(0)

Stop == Goto("idle") /\ UNCHANGED local
-----------------------------------------------------------------------------
PullTask == Told("task", StartTask, IF SourceIsAbsolute THEN "root" ELSE "open")
PullRoot ==
  \E accepted \in Answers(access) : Told("root", SetTargetRoot(accepted), "open")

\* Mutant: the file on the PC is truncated when it is opened, as by File::create.
OpenTruncating ==
  /\ pc = "open"
  /\ \/ /\ CanRead(0)
        /\ local' = Holding(0, {})
        /\ Goto(IF Checkpointed(0) THEN "resumed" ELSE "chunk")
     \/ Stop
  /\ UNCHANGED agentVars

\* STAT_FILE, and the file on the PC is opened as it is.
OpenLocal ==
  /\ pc = "open"
  /\ \/ /\ CanRead(0)
        /\ local' = IF local.there THEN local ELSE Holding(0, {})
        /\ Goto(IF Checkpointed(0) THEN "resumed" ELSE "chunk")
     \/ Stop
  /\ UNCHANGED agentVars

\* All chunks are checkpointed: nothing is pulled, and nothing is verified.
ReportResumed ==
  /\ pc = "resumed"
  /\ RecordFile(0)
  /\ Goto("ok")
  /\ UNCHANGED <<agentVars, local>>

\* pull_wifi_chunk_bytes: the binary request or the base64 one is answered with
\* as many bytes as were asked for, which are written.
PullChunk ==
  /\ pc = "chunk"
  /\ AtChunk \in PullIndices
  /\ IF halt THEN Stop
     ELSE IF pos \in recorded THEN NextChunk /\ UNCHANGED local
     ELSE \/ /\ CanRead(0)
             /\ local' = Written(local, 0, {AtChunk})
             /\ Goto("pulled")
          \/ Stop
  /\ UNCHANGED agentVars

ReportPulled ==
  /\ pc = "pulled"
  /\ RecordChunk(pos)
  /\ NextChunk
  /\ UNCHANGED <<agentVars, local>>

ReportPull ==
  /\ pc = "chunk"
  /\ AtChunk \notin PullIndices
  /\ RecordFile(0)
  /\ Goto(IF verifies THEN "verify" ELSE "ok")
  /\ UNCHANGED <<agentVars, local>>

\* verify_android_remote_file, with the file on the PC
VerifyPull ==
  /\ pc = "verify"
  /\ \/ CanRead(0) /\ Pulled /\ Goto("ok")
     \/ Goto("idle")
  /\ UNCHANGED <<agentVars, local>>

WifiPullStep ==
  \/ /\ PullTask \/ PullRoot
     /\ UNCHANGED <<recorded, local>>
  \/ (OpenLocal \/ PullChunk \/ VerifyPull) /\ UNCHANGED <<network, recorded>>
  \/ (ReportResumed \/ ReportPulled \/ ReportPull) /\ UNCHANGED network
-----------------------------------------------------------------------------
AdbPullGoto(label) == adb' = label /\ UNCHANGED adbPos

\* The pause is looked at once.  adb pull writes the file anew, and what it has
\* written stays when it fails.
AdbPull ==
  /\ adb = "file"
  /\ IF halt THEN AdbPullGoto("idle") /\ UNCHANGED local
     ELSE \/ local' = Whole(0) /\ AdbPullGoto(IF verifies THEN "verify" ELSE "report")
          \/ /\ local' \in {local} \cup
                  {Holding(n, 0 .. (n - 1)) : n \in 0 .. FileSize[0]}
             /\ AdbPullGoto("idle")
  /\ UNCHANGED recorded

\* verify_adb_android_to_pc_transfer: before anything is recorded.
VerifyAdbPull ==
  /\ adb = "verify"
  /\ \/ Pulled /\ AdbPullGoto("report")
     \/ AdbPullGoto("idle")
  /\ UNCHANGED <<recorded, local>>

ReportAdbPull ==
  /\ adb = "report"
  /\ RecordFile(0)
  /\ AdbPullGoto("ok")
  /\ UNCHANGED local

AdbPullStep == AdbPull \/ VerifyAdbPull \/ ReportAdbPull
=============================================================================

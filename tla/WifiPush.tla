------------------------------- MODULE WifiPush -------------------------------
(***************************************************************************)
(* The Wi-Fi push worker (run_wifi_pc_to_android): file after file, chunk  *)
(* after chunk, skipping what the checkpoint has.                          *)
(***************************************************************************)
EXTENDS Worker

TellTask == Told("task", StartTask, "root")
TellRoot ==
  \E accepted \in Answers(access) : Told("root", SetTargetRoot(accepted), "directories")
TellFile == Told("start", StartFile(AtFile), "chunk")
TellComplete == Told("complete", CompleteFile(AtFile), "report")

\* A pause is seen before a file and before a chunk, not after the last one.
Pauses ==
  /\ halt
  /\ \/ pc = "file" /\ AtFile < NFiles
     \/ pc = "chunk" /\ AtChunk < NumChunks(AtFile, 1)

WifiPushPauses ==
  /\ Pauses
  /\ PcEnds("idle")
  /\ UNCHANGED <<agentVars, network>>

AtNewFile ==
  /\ pc = "file" /\ ~ Pauses
  /\ Goto(IF AtFile = NFiles THEN "ok"
          ELSE IF Checkpointed(AtFile) THEN "complete" ELSE "start")
  /\ UNCHANGED <<agentVars, network>>

AtNewChunk ==
  /\ pc = "chunk" /\ ~ Pauses
  /\ IF AtChunk = NumChunks(AtFile, 1) THEN Goto("complete")
     ELSE IF pos \in recorded THEN NextChunk ELSE Goto("push")
  /\ UNCHANGED <<agentVars, network>>

\* record_real_chunk_commit
ReportChunk ==
  /\ pc = "pushed"
  /\ RecordChunk(pos)
  /\ NextChunk
  /\ UNCHANGED <<agentVars, network>>

\* record_real_file_complete.  A file that was skipped is not verified.
ReportFile ==
  /\ pc = "report"
  /\ RecordFile(AtFile)
  /\ IF verifies /\ AtChunk > 0 THEN Goto("verify") ELSE NextFile
  /\ UNCHANGED <<agentVars, network>>

\* verify_android_remote_file: the size and the digest, of files below 128 MiB.
VerifyFile ==
  /\ pc = "verify"
  /\ \/ CanRead(AtFile) /\ Readable(AtFile) = Whole(AtFile) /\ NextFile
     \/ Goto("failed")
  /\ UNCHANGED <<agentVars, network>>

WifiPushStep ==
  \/ ReportChunk \/ ReportFile
  \/ /\ \/ TellTask \/ TellRoot \/ TellDirectories
        \/ AtNewFile \/ TellFile \/ AtNewChunk \/ PushStep \/ TellComplete
        \/ VerifyFile \/ WifiPushPauses
     /\ UNCHANGED recorded
=============================================================================

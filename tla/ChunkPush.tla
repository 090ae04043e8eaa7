------------------------------ MODULE ChunkPush ------------------------------
(***************************************************************************)
(* How the desktop gets one chunk to the agent over Wi-Fi                  *)
(* (push_wifi_chunk_with_recovery), and the requests around it.  Each      *)
(* request is a connection of its own; on a "lossy" network the connection *)
(* may fail before the request is handled and the agent may be restarted,  *)
(* and on any network the answer may come too late.                        *)
(***************************************************************************)
EXTENDS Agent

CONSTANTS
  LineChunks,   \* chunks whose base64 form fits in a command line (16 KiB)
  Networks      \* kinds of network: "steady", "lossy"

ASSUME ChunkPushAssumption ==
  /\ LineChunks \subseteq Chunk
  /\ Networks \subseteq {"steady", "lossy"}

VARIABLES
  network,   \* the kind there is
  pc,        \* the request the worker comes to next
  pos,       \* the file and the chunk it is at
  attempt    \* of push_wifi_chunk_with_recovery

workerVars == <<pc, pos, attempt>>
pushVars == <<agentVars, network, workerVars>>

AtFile == pos[1]
AtChunk == pos[2]

Goto(label) == pc' = label /\ UNCHANGED <<pos, attempt>>

\* The connection is refused, breaks or times out before anything is handled.
Lost == network = "lossy" /\ UNCHANGED agentVars

\* Requests of which only the transport is looked at: any answer will do.
Told(label, handler, next) ==
  /\ pc = label
  /\ \/ handler /\ (Goto(next) \/ Goto("idle"))
     \/ Lost /\ Goto("idle")
  /\ UNCHANGED network

PushInit ==
  /\ active = FALSE
  /\ root = "default"
  /\ current = NoFile
  /\ network \in Networks
  /\ pc = "idle"
  /\ pos = <<0, 0>>
  /\ attempt = 0
-----------------------------------------------------------------------------
\* The agent does not write: it is not reached, or it refuses.
NotWritten ==
  /\ network = "lossy" \/ ~ CanWrite(AtFile)
  /\ UNCHANGED agentVars

\* push_wifi_chunk_once: binary, and in base64 if that has not been answered.
PushBinary ==
  /\ pc = "push"
  /\ \/ WriteChunks(AtFile, {AtChunk}) /\ (Goto("pushed") \/ Goto("fallback"))
     \/ NotWritten /\ Goto("fallback")
  /\ UNCHANGED network

PushBase64 ==
  /\ pc = "fallback"
  /\ \/ /\ pos \in LineChunks
        /\ WriteChunks(AtFile, {AtChunk})
        /\ Goto("pushed") \/ Goto("status")
     \/ /\ pos \notin LineChunks
        /\ UNCHANGED agentVars
        /\ Goto("status")
     \/ NotWritten /\ Goto("status")
  /\ UNCHANGED network

Retry == pc' = "push" /\ attempt' = 1 /\ UNCHANGED pos

\* CHUNK_STATUS; without an answer STAT_FILE decides.
AskStatus ==
  /\ pc = "status"
  /\ \/ LET status == ChunkStatus(AtFile, AtChunk)
        IN  CASE status = "committed"     -> Goto("pushed")
              [] status = "not_committed" -> IF attempt = 0 THEN Retry ELSE Goto("stat")
              [] status = "path_mismatch" -> Goto("failed")
     \/ Goto("stat")
  /\ UNCHANGED <<agentVars, network>>

\* Mutant: one chunk short is near enough.
SizeNearlyConfirms(size, expected) == size + 1 >= expected

\* remote_size_confirms_chunk_commit
SizeConfirms(size, expected) == size >= expected

AskStat ==
  /\ pc = "stat"
  /\ \/ /\ CanRead(AtFile)
        /\ IF SizeConfirms(Readable(AtFile).length, ChunkEnd(AtFile, AtChunk))
           THEN Goto("pushed")
           ELSE IF attempt = 0 THEN Retry ELSE Goto("failed")
     \/ Goto("failed")
  /\ UNCHANGED <<agentVars, network>>

PushStep == PushBinary \/ PushBase64 \/ AskStatus \/ AskStat

AgentGoes ==
  /\ network = "lossy"
  /\ AgentRestarts
  /\ UNCHANGED <<network, workerVars>>
-----------------------------------------------------------------------------
\* Whose bytes are on the device, under either name.
OnDevice(f) ==
  temp[<<"target", f>>].good \cup final[<<"target", f>>].good

\* What may be on the device under a name of the task: nothing under the
\* default root, and at the target nothing of the source.
Leftovers(lengths) ==
  LET old == {Absent} \cup {Holding(n, {}) : n \in lengths}
  IN  {[p \in Place |-> IF p[1] = "target" THEN left[p[2]] ELSE Absent] :
         left \in [File -> old]}
=============================================================================

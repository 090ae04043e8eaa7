-------------------------------- MODULE Agent --------------------------------
(***************************************************************************)
(* The Android agent (AgentServer.kt) as a push sees it: the task and the  *)
(* file it is at, and the files on the device.  Requests are handled one   *)
(* at a time, each under taskLock, in the order of their connections; a    *)
(* handler is an action here, whether or not its answer reaches anybody.   *)
(*                                                                         *)
(* Sizes and offsets are counted in chunks.  A file on the device is known *)
(* by its length and by the chunks in it that hold the bytes of the        *)
(* source; elsewhere it holds something else, or a hole.                   *)
(***************************************************************************)
EXTENDS Chunking, FiniteSetsExt

ASSUME AgentAssumption == ChunkSizes = {1}

VARIABLES
  active,   \* activeTask is there
  root,     \* activeTargetRoot: the task's "target", or "default"
  current,  \* currentFile: its path and ackedChunks
  temp,     \* the .nekotrans-tmp files under each root
  final     \* the files under their own names

AccessKinds == {"granted", "missing", "changing"}

memoryVars == <<active, root, current>>
agentVars == <<active, root, current, temp, final>>

Place == {"default", "target"} \X File
Here(f) == <<root, f>>

NoFile == [path |-> NFiles, acked |-> {}]

Absent == [there |-> FALSE, length |-> 0, good |-> {}]
Holding(n, good) == [there |-> TRUE, length |-> n, good |-> good]
Whole(f) == Holding(FileSize[f], 0 .. (FileSize[f] - 1))

ChunkEnd(f, i) == Offset(1, i) + Length(FileSize[f], 1, i)

\* seek and write, for each chunk of S: the file grows as far as they reach.
Written(content, f, S) ==
  Holding(Max({content.length} \cup {ChunkEnd(f, i) : i \in S}),
          content.good \cup UNION {i .. (ChunkEnd(f, i) - 1) : i \in S})

\* readableFileFor: the final file if there is one.
Readable(f) == IF final[Here(f)].there THEN final[Here(f)] ELSE temp[Here(f)]
-----------------------------------------------------------------------------
StartTask ==
  /\ active' = TRUE
  /\ root' = "default"
  /\ current' = NoFile
  /\ UNCHANGED <<temp, final>>

\* What resolveTargetRoot says of a root: TRUE, unless it is outside of the app's
\* own directory and the app has no access to all files.  The user may give and
\* withdraw that access.
Answers(access) ==
  CASE access = "granted"  -> {TRUE}
    [] access = "missing"  -> {FALSE}
    [] access = "changing" -> BOOLEAN

\* A root that is refused leaves the task as it is, under the default root.
SetTargetRoot(accepted) ==
  /\ root' = IF active /\ accepted THEN "target" ELSE root
  /\ UNCHANGED <<active, current, temp, final>>

\* Mutant: a new file begins empty, also when the old one is to be resumed.
StartFileTruncating(f) ==
  /\ current' = IF active THEN [path |-> f, acked |-> {}] ELSE current
  /\ temp' = IF active THEN [temp EXCEPT ![Here(f)] = Absent] ELSE temp
  /\ UNCHANGED <<active, root, final>>

\* The temp file is left as it is.
StartFile(f) ==
  /\ current' = IF active THEN [path |-> f, acked |-> {}] ELSE current
  /\ UNCHANGED <<active, root, temp, final>>

CanWrite(f) == active /\ current.path = f

\* PUSH_CHUNK writes one chunk.  PUSH_CHUNK_BATCH_BIN writes a prefix of its
\* chunks when the connection breaks in the middle; the part of a chunk it may
\* leave behind reaches neither the end of that chunk nor an acknowledgement.
WriteChunks(f, S) ==
  /\ CanWrite(f)
  /\ temp' = [temp EXCEPT ![Here(f)] = Written(@, f, S)]
  /\ current' = [current EXCEPT !.acked = @ \cup S]
  /\ UNCHANGED <<active, root, final>>

\* "committed" also stands for "committed_on_disk", as for the desktop.
ChunkStatus(f, i) ==
  IF \/ current.path = f /\ i \in current.acked
     \/ Readable(f).there /\ Readable(f).length >= ChunkEnd(f, i)
  THEN "committed"
  ELSE IF current.path \in File \ {f} THEN "path_mismatch" ELSE "not_committed"

\* STAT_FILE, PULL_CHUNK_BIN and VERIFY_FILE look at this file, or are refused.
CanRead(f) == active /\ Readable(f).there

\* The temp file takes the place of the final one, if there is a temp file; an
\* empty file needs none; a second request finds nothing left to do.
CompleteFile(f) ==
  LET empty == current.path = f /\ FileSize[f] = 0
  IN  /\ IF active /\ temp[Here(f)].there
           THEN /\ final' = [final EXCEPT ![Here(f)] = temp[Here(f)]]
                /\ temp' = [temp EXCEPT ![Here(f)] = Absent]
           ELSE /\ final' = IF active /\ empty
                            THEN [final EXCEPT ![Here(f)] = Holding(0, {})] ELSE final
                /\ UNCHANGED temp
      /\ UNCHANGED memoryVars

\* The agent's process ends, by an answer that cannot be written or by Android,
\* and the service is started again.
AgentRestarts ==
  /\ active' = FALSE
  /\ root' = "default"
  /\ current' = NoFile
  /\ UNCHANGED <<temp, final>>
=============================================================================

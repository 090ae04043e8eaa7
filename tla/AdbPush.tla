------------------------------- MODULE AdbPush -------------------------------
(***************************************************************************)
(* Files pushed with adb (push_path_to_device_with_control): the chunks of *)
(* a file become parts in a directory of their own, which a script on the  *)
(* device puts together.  The thread of an ADB-only task and the ADB lane  *)
(* of a Dual task; an adb command may fail at any time, before or after it *)
(* has done its work.                                                      *)
(*                                                                         *)
(* The registry, the engine and the totals of a Dual task each have a lock.*)
(* A step that holds none from one step to the next is an action that      *)
(* waits for those it takes; the places where a thread goes on to the next *)
(* lock with one in hand are labels of their own.                          *)
(***************************************************************************)
EXTENDS Worker

CONSTANT PartLimit   \* parts an earlier transfer may have left reach below it

ASSUME AdbPushAssumption ==
  PartLimit \in Nat /\ \A f \in File : NumChunks(f, 1) <= PartLimit

VARIABLES
  parts,   \* the parts of each file: "none", or what is there
  user     \* pause_transfer_task: "away", or waiting for the "engine"

\* A part has the bytes of the source ("good"), or others of the right length
\* ("stale"), or another length ("short").
RightLength == {"stale", "good"}

PartIndex == 0 .. (PartLimit - 1)
GoodParts(f) == {i \in PartIndex : parts[f][i] = "good"}

AdbFile == adbPos[1]
AdbChunk == adbPos[2]
AdbGoto(label) == adb' = label /\ UNCHANGED adbPos

\* Mutant: the pause command keeps the registry while it asks the engine.
KeptByUser == IF user = "engine" THEN {"registry"} ELSE {}

\* The locks each thread keeps between its steps.
HeldByUser == {}
HeldByAdb ==
  CASE adb = "note" -> {"engine"}
    [] adb = "show" -> {"engine", "aggregate"}
    [] OTHER -> {}

\* note_dual_* and record_real_*: the locks they take are free.
FreeFor(thread, locks) ==
  /\ thread # "adb" => HeldByAdb \cap locks = {}
  /\ thread # "user" => HeldByUser \cap locks = {}

Noted(thread) ==
  FreeFor(thread, {"registry"} \cup (IF kind = "Dual" THEN {"aggregate"} ELSE {}))
-----------------------------------------------------------------------------
FinalAt(f) == final[<<"target", f>>]

\* The next file: one that has the right size is skipped, whatever is in it.
AskRemoteSize ==
  /\ adb = "file" /\ AdbFile < NFiles /\ ~ halt
  /\ Noted("adb")
  /\ AdbGoto(IF FinalAt(AdbFile).there /\ FinalAt(AdbFile).length = FileSize[AdbFile]
             THEN "report" ELSE "chunk")
  /\ UNCHANGED <<agentVars, recorded, parts>>

\* The last file has been done: an ADB-only task now verifies them all.
AdbAllDone ==
  /\ adb = "file" /\ AdbFile >= NFiles
  /\ IF verifies /\ kind = "AdbPush" THEN adb' = "verify" /\ adbPos' = <<0, 0>>
     ELSE AdbEnds("ok")
  /\ UNCHANGED <<agentVars, recorded, parts>>

\* check_pause, before a file, before each chunk and before they are assembled
AdbPauses ==
  /\ \/ adb = "file" /\ AdbFile < NFiles /\ Noted("adb")
     \/ adb = "chunk"
  /\ halt
  /\ AdbEnds("idle")
  /\ UNCHANGED <<agentVars, recorded, parts>>

\* Any adb command may end badly without having done anything.
AdbFails ==
  /\ adb \in {"file", "chunk", "verify"} /\ AdbFile < NFiles
  /\ AdbEnds("idle")
  /\ UNCHANGED <<agentVars, recorded, parts>>

SetPart(i, state) == parts' = [parts EXCEPT ![AdbFile][i] = state]

\* A part of the right length is left as it is, another is pushed; adb leaves
\* some of it behind when it fails.
PushPart ==
  /\ adb = "chunk" /\ ~ halt
  /\ AdbChunk < NumChunks(AdbFile, 1)
  /\ \/ /\ parts[AdbFile][AdbChunk] \in RightLength
        /\ UNCHANGED parts /\ AdbGoto("pushed")
     \/ /\ parts[AdbFile][AdbChunk] \notin RightLength
        /\ \/ SetPart(AdbChunk, "good") /\ (AdbGoto("pushed") \/ AdbEnds("idle"))
           \/ FileSize[AdbFile] > 0 /\ SetPart(AdbChunk, "short") /\ AdbEnds("idle")
  /\ UNCHANGED <<agentVars, recorded>>

\* The callback for a chunk; every lock is released before the next is taken.
ReportPart ==
  /\ adb = "pushed"
  /\ Noted("adb") /\ FreeFor("adb", {"engine"})
  /\ RecordChunk(adbPos)
  /\ adb' = "chunk" /\ adbPos' = <<AdbFile, AdbChunk + 1>>
  /\ UNCHANGED <<agentVars, parts>>
-----------------------------------------------------------------------------
Assembling ==
  adb = "chunk" /\ ~ halt /\ AdbChunk = NumChunks(AdbFile, 1)

\* cat part-*: all that is there, in the order of the names.
Cat(f) ==
  LET there == {i \in PartIndex : parts[f][i] # "none"}
      over  == {i \in there : i >= NumChunks(f, 1)}
  IN  Holding(FileSize[f] + Cardinality(over),
              IF FileSize[f] = 0 THEN {} ELSE GoodParts(f) \ over)

Beginning(content, n) == Holding(n, {i \in content.good : i < n})

TempBecomes(content) == temp' = [temp EXCEPT ![<<"target", AdbFile>>] = content]

Removed(gone) ==
  parts' = [parts EXCEPT ![AdbFile] =
              [i \in PartIndex |-> IF i \in gone THEN "none" ELSE @[i]]]

\* The script stops in the middle of cat, or before mv.
AssembleStops ==
  /\ Assembling
  /\ \E n \in 0 .. Cat(AdbFile).length : TempBecomes(Beginning(Cat(AdbFile), n))
  /\ AdbEnds("idle")
  /\ UNCHANGED <<memoryVars, final, recorded, parts>>

\* Mutant: the commands of the script do not wait for each other's success.
AssembleRegardless ==
  /\ Assembling
  /\ \E n \in 0 .. Cat(AdbFile).length :
       final' = [final EXCEPT ![<<"target", AdbFile>>] = Beginning(Cat(AdbFile), n)]
  /\ TempBecomes(Absent)
  /\ Removed(PartIndex)
  /\ AdbGoto("report")
  /\ UNCHANGED <<memoryVars, recorded>>

\* assemble_remote_chunks: cat && mv && rm; the script may stop in rm, or only
\* its end may not be heard of.
Assemble ==
  /\ Assembling
  /\ final' = [final EXCEPT ![<<"target", AdbFile>>] = Cat(AdbFile)]
  /\ TempBecomes(Absent)
  /\ \/ Removed(PartIndex) /\ AdbGoto("report")
     \/ \E n \in 0 .. PartLimit : Removed(0 .. (n - 1)) /\ AdbEnds("idle")
  /\ UNCHANGED <<memoryVars, recorded>>
-----------------------------------------------------------------------------
AfterFile == <<FileAfter("Adb", AdbFile), 0>>

\* The callback for a file, skipped or completed: in a Dual task it goes on to
\* the totals, and with them to the registry, with the engine in hand.
ReportAdbFile ==
  /\ adb = "report"
  /\ Noted("adb") /\ FreeFor("adb", {"engine"})
  /\ RecordFile(AdbFile)
  /\ IF kind = "Dual" THEN AdbGoto("note") ELSE adb' = "file" /\ adbPos' = AfterFile
  /\ UNCHANGED <<agentVars, parts>>

LockAggregate ==
  /\ adb = "note"
  /\ FreeFor("adb", {"aggregate"})
  /\ AdbGoto("show")
  /\ UNCHANGED <<agentVars, recorded, parts>>

\* Mutant: in a Dual task, too, only what this run has pushed is verified.
ShowAndVerifyPushed ==
  /\ adb = "show"
  /\ FreeFor("adb", {"registry"})
  /\ IF verifies /\ AdbChunk > 0 THEN AdbGoto("verify")
     ELSE adb' = "file" /\ adbPos' = AfterFile
  /\ UNCHANGED <<agentVars, recorded, parts>>

ShowOnCard ==
  /\ adb = "show"
  /\ FreeFor("adb", {"registry"})
  /\ IF verifies THEN AdbGoto("verify") ELSE adb' = "file" /\ adbPos' = AfterFile
  /\ UNCHANGED <<agentVars, recorded, parts>>

\* blake3_digest_remote_file, after each file (Dual) or after all (ADB-only)
AdbVerify ==
  /\ adb = "verify"
  /\ FinalAt(AdbFile) = Whole(AdbFile)
  /\ IF kind = "AdbPush" /\ AdbFile + 1 = NFiles THEN AdbEnds("ok")
     ELSE adb' = (IF kind = "Dual" THEN "file" ELSE "verify") /\ adbPos' = AfterFile
  /\ UNCHANGED <<agentVars, recorded, parts>>

AdbPushStep ==
  \/ AskRemoteSize \/ AdbAllDone \/ AdbPauses \/ AdbFails
  \/ PushPart \/ ReportPart \/ AssembleStops \/ Assemble
  \/ ReportAdbFile \/ LockAggregate \/ ShowOnCard \/ AdbVerify
=============================================================================

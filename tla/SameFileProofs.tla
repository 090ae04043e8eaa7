--------------------------- MODULE SameFileProofs ---------------------------
(***************************************************************************)
(* What a same-file Dual push promises, for every number and size of       *)
(* files, stride, batch and leftover, on a device whose agent may write to *)
(* the target: if all is calm the checkpoint is true of the device, and a  *)
(* file that has been reported is whole.                                   *)
(***************************************************************************)
EXTENDS SameFile, ChunkingProofs, WellFoundedInduction

USE DEF Calm

TempAt(f) == temp[<<"target", f>>]
FinalAt(f) == final[<<"target", f>>]

(***************************************************************************)
(* Types.  A length may be anything here: whatever an answer by length     *)
(* says, the argument does not believe it.                                 *)
(***************************************************************************)
IsContent(content, f) ==
  /\ content = [there |-> content.there, length |-> content.length, good |-> content.good]
  /\ content.there \in BOOLEAN
  /\ content.good \subseteq Indices(f)
  /\ content.good # {} => content.there

FilesOK ==
  /\ temp = [p \in Place |-> temp[p]]
  /\ final = [p \in Place |-> final[p]]
  /\ \A f \in File : IsContent(TempAt(f), f) /\ IsContent(FinalAt(f), f)

PushLabels == {"push", "fallback", "status", "stat", "pushed"}
LaneLabels == PushLabels \cup {"lane", "batch", "commit", "failed", "stopped", "ok"}
AtEnd == {"complete", "check", "report"}
FileLabels == LaneLabels \cup AtEnd \cup {"start", "prepare", "split"}
Rootless == {"idle", "task", "root", "again", "rootagain"}

RecordsOK ==
  /\ \A c \in recorded : \E f \in File : \E i \in Indices(f) : c = <<f, i>>
  /\ finished \subseteq File

PlacesOK ==
  /\ network \in {"steady", "lossy"}
  /\ active \in BOOLEAN
  /\ current = [path |-> current.path, acked |-> current.acked]
  /\ pc \in FileLabels \cup Rootless \cup {"plan", "file"}
  /\ pos \in (0 .. NFiles) \X Nat
  /\ pc \in FileLabels => AtFile \in File
  /\ adb \in {"off", "on", "written", "ok", "failed"}
  /\ looked \in [{"Adb", "Wifi"} -> Nat]

SameFileTypeOK == FilesOK /\ RecordsOK /\ PlacesOK

(***************************************************************************)
(* Which file the agent is at, if it may write to the target.  On a steady *)
(* network it is the one the worker is at, so that no request of a lane is *)
(* refused.                                                                *)
(***************************************************************************)
AgentInOrder ==
  /\ device.access = "granted"
  /\ active /\ pc \notin Rootless => root = "target"
  /\ network = "steady" =>
       /\ pc \notin {"idle", "task"} => active
       /\ pc \in FileLabels \ {"start"} => current.path = AtFile

(***************************************************************************)
(* How far the lanes are: what each has passed is recorded, or in the      *)
(* batch it is about to send.                                              *)
(***************************************************************************)
LanesInOrder ==
  /\ pc \notin LaneLabels => adb = "off" /\ looked = NothingLooked /\ pending = {}
  /\ pc \in LaneLabels \cup {"split"} => trusted \subseteq RecordedOf(AtFile)
  /\ pc \in LaneLabels =>
       /\ pending \subseteq Indices(AtFile) \ trusted
       /\ \A i \in Indices(AtFile) :
            /\ i < looked["Adb"] /\ OwnsChunk("Adb", i, stride) => i \in RecordedOf(AtFile)
            /\ i < looked["Wifi"] /\ OwnsChunk("Wifi", i, stride) =>
                 i \in RecordedOf(AtFile) \cup pending
  /\ adb = "ok" => NextOf("Adb") = {}
  /\ pc = "ok" => NextOf("Wifi") = {} /\ pending = {}
  /\ pc \in {"batch", "commit"} => pending # {}
  /\ pc \in PushLabels => AtChunk \in pending
  /\ adb = "written" => NextOf("Adb") \cap trusted = {}
  /\ pc \in AtEnd => Indices(AtFile) \subseteq RecordedOf(AtFile)

(***************************************************************************)
(* A file that has been through COMPLETE_FILE once: all of it is under its *)
(* final name, and nothing is under the temp name that could take the      *)
(* place of it.  A resume trusts all of it, so that neither lane writes.   *)
(***************************************************************************)
Settled(f) ==
  /\ FinalAt(f).good = Indices(f)
  /\ ~ TempAt(f).there
  /\ Indices(f) \subseteq RecordedOf(f)

FilesInOrder ==
  /\ \A f \in File : FinalAt(f).good # {} => Indices(f) \subseteq RecordedOf(f)
  /\ pc \in LaneLabels \cup {"split"} /\ Settled(AtFile) => trusted = Indices(AtFile)
  /\ pc = "check" /\ active => ~ TempAt(AtFile).there

(***************************************************************************)
(* If all is calm, what is recorded is in the temp file, or the file is    *)
(* settled.                                                                *)
(***************************************************************************)
Kept(f) ==
  \/ FinalAt(f).good = {} /\ RecordedOf(f) \subseteq TempAt(f).good
  \/ Settled(f)

CalmInOrder ==
  Calm =>
    /\ \A f \in File : Kept(f)
    /\ pc \in PushLabels \cup {"commit"} => pending \subseteq TempAt(AtFile).good
    /\ adb = "written" => NextOf("Adb") \subseteq TempAt(AtFile).good

SameFileInv ==
  SameFileTypeOK /\ AgentInOrder /\ LanesInOrder /\ FilesInOrder /\ CalmInOrder

(***************************************************************************)
(* A file that has been found whole before it was reported.                *)
(***************************************************************************)
IsWhole(f) == FinalAt(f) = Whole(f) /\ Settled(f)

ReportsInOrder ==
  /\ pc = "report" => IsWhole(AtFile)
  /\ \A f \in finished : IsWhole(f)
-----------------------------------------------------------------------------
(***************************************************************************)
(* With the chunk as unit of size, a file of n chunks has chunks 0 .. n-1, *)
(* and chunk i ends at i + 1.                                              *)
(***************************************************************************)
LEMMA UnitChunks ==
  ASSUME NEW f \in File
  PROVE  /\ FileSize[f] \in Nat \ {0}
         /\ Indices(f) = 0 .. (FileSize[f] - 1)
         /\ Indices(f) \subseteq Nat
         /\ 0 \in Indices(f)
         /\ Split(f, 1) = {f} \X Indices(f)
         /\ \A i \in Indices(f) : ChunkEnd(f, i) = i + 1
<1>1. FileSize[f] \in Nat \ {0}
  BY ChunkingAssumption, SameFileAssumption
<1>2. NumChunks(f, 1) = FileSize[f]
  BY <1>1 DEF NumChunks, ChunkCount, AtLeastOne
<1>3. Indices(f) = 0 .. (FileSize[f] - 1)
  BY <1>2 DEF Indices
<1>4. ASSUME NEW i \in Indices(f) PROVE ChunkEnd(f, i) = i + 1
  BY <1>1, <1>3 DEF ChunkEnd, Offset, Length, AtLeastOne
<1>5. Indices(f) \subseteq Nat /\ 0 \in Indices(f)
  BY <1>1, <1>3
<1>6. Split(f, 1) = {f} \X Indices(f)
  BY DEF Split, Indices
<1> QED
  BY <1>1, <1>3, <1>4, <1>5, <1>6

\* What dd and the agent write is good, and the file is there.
LEMMA WrittenIs ==
  ASSUME NEW f \in File, NEW content, IsContent(content, f), NEW S \in SUBSET Indices(f)
  PROVE  LET now == Written(content, f, S)
         IN  IsContent(now, f) /\ now.there /\ now.good = content.good \cup S
<1>1. \A i \in S : i .. (ChunkEnd(f, i) - 1) = {i}
  <2> SUFFICES ASSUME NEW i \in S PROVE i .. (ChunkEnd(f, i) - 1) = {i}
    OBVIOUS
  <2>1. i \in Nat /\ ChunkEnd(f, i) = i + 1
    BY UnitChunks
  <2> QED
    BY <2>1
<1>2. UNION {i .. (ChunkEnd(f, i) - 1) : i \in S} = S
  BY <1>1
<1>3. content.good \subseteq Indices(f)
  BY DEF IsContent
<1> QED
  BY <1>2, <1>3 DEF Written, Holding, IsContent

\* Neither is there without a file.
LEMMA AbsentIs ==
  ASSUME NEW f \in File
  PROVE  IsContent(Absent, f) /\ ~ Absent.there /\ Absent.good = {}
  BY DEF Absent, IsContent

\* What is there and good throughout, and as long as the source, is the source.
LEMMA WholeIf ==
  ASSUME NEW f \in File, NEW content, IsContent(content, f),
         content.good = Indices(f), content.length = FileSize[f]
  PROVE  content = Whole(f)
<1>1. content.there = TRUE
  BY UnitChunks DEF IsContent
<1> QED
  BY <1>1, UnitChunks DEF IsContent, Whole, Holding

\* The chunks a resume checks are among the recorded ones.
LEMMA GuardsAmong ==
  ASSUME NEW S, NEW n
  PROVE  Guards(S, n) \subseteq S
  BY DEF Guards

\* Of a set of numbers, one is the least.
LEMMA LeastChunk ==
  ASSUME NEW S \in SUBSET Nat, S # {}
  PROVE  \E i \in S : \A j \in S : i <= j
<1> DEFINE R == OpToRel(<, Nat)
<1>1. R = {p \in Nat \X Nat : p[1] < p[2]}
  BY DEF OpToRel
<1>2. IsWellFoundedOn(R, Nat)
  BY NatLessThanWellFounded, Zenon
<1> HIDE DEF R
<1>3. PICK i \in S : \A j \in S : <<j, i>> \notin R
  BY <1>2, WFMin
<1>4. ASSUME NEW j \in S PROVE i <= j
  <2>1. <<j, i>> \in Nat \X Nat /\ <<j, i>>[1] = j /\ <<j, i>>[2] = i
    OBVIOUS
  <2>2. ~ j < i
    BY <1>1, <1>3, <2>1
  <2> QED
    BY <2>2
<1> QED
  BY <1>4

\* The next chunk of a lane is the first it owns of those ahead.
LEMMA NextIs ==
  ASSUME NEW lane, NEW i \in NextOf(lane)
  PROVE  /\ i \in Indices(AtFile) /\ i >= looked[lane] /\ OwnsChunk(lane, i, stride)
         /\ \A j \in Indices(AtFile) :
              j >= looked[lane] /\ OwnsChunk(lane, j, stride) => i <= j
  BY DEF NextOf

\* It stays so while the lane does not go on.
LEMMA NextStays ==
  ASSUME NEW lane, AtFile' = AtFile, stride' = stride, looked'[lane] = looked[lane]
  PROVE  NextOf(lane)' = NextOf(lane)
  BY DEF NextOf, Indices
-----------------------------------------------------------------------------
(***************************************************************************)
(* Chunks of file f are written to its temp file, and nothing else.        *)
(***************************************************************************)
Grown(f, S) ==
  /\ FilesOK'
  /\ TempAt(f)'.there
  /\ TempAt(f)'.good = TempAt(f).good \cup S
  /\ \A g \in File : FinalAt(g)' = FinalAt(g) /\ (g # f => TempAt(g)' = TempAt(g))

\* As dd does.
LEMMA WritingGrows ==
  ASSUME FilesOK, NEW f \in File, NEW S \in SUBSET Indices(f), final' = final,
         temp' = [temp EXCEPT ![<<"target", f>>] = Written(@, f, S)]
  PROVE  Grown(f, S)
<1> DEFINE now == Written(TempAt(f), f, S)
<1>1. IsContent(now, f) /\ now.there /\ now.good = TempAt(f).good \cup S
  BY WrittenIs DEF FilesOK
<1>2. \A g \in File : <<"target", g>> \in Place
  BY DEF Place
<1>3. TempAt(f)' = now /\ \A g \in File : g # f => TempAt(g)' = TempAt(g)
  BY <1>2 DEF TempAt, FilesOK
<1>4. \A g \in File : FinalAt(g)' = FinalAt(g)
  BY DEF FinalAt
<1> HIDE DEF now
<1>5. \A g \in File : IsContent(TempAt(g), g)' /\ IsContent(FinalAt(g), g)'
  <2> SUFFICES ASSUME NEW g \in File
               PROVE  IsContent(TempAt(g), g)' /\ IsContent(FinalAt(g), g)'
    OBVIOUS
  <2>1. IsContent(TempAt(g), g) /\ IsContent(FinalAt(g), g)
    BY DEF FilesOK
  <2>2. Indices(g)' = Indices(g)
    BY DEF Indices
  <2> QED
    BY <1>1, <1>3, <1>4, <2>1, <2>2 DEF IsContent
<1>6. temp' = [p \in Place |-> temp'[p]] /\ final' = [p \in Place |-> final'[p]]
  BY DEF FilesOK
<1> QED
  BY <1>1, <1>3, <1>4, <1>5, <1>6 DEF Grown, FilesOK

\* As the agent does, when it is at the file and at the task's root.
LEMMA AgentGrows ==
  ASSUME SameFileTypeOK, NEW f \in File, NEW S \in SUBSET Indices(f),
         active => root = "target", WriteChunks(f, S)
  PROVE  /\ Grown(f, S)
         /\ active /\ UNCHANGED <<active, root>>
         /\ current' = [path |-> current'.path, acked |-> current'.acked]
         /\ current'.path = current.path
<1>1. active /\ root = "target" /\ final' = final /\ UNCHANGED <<active, root>>
  BY DEF WriteChunks, CanWrite
<1>2. temp' = [temp EXCEPT ![<<"target", f>>] = Written(@, f, S)]
  BY <1>1 DEF WriteChunks, Here
<1>3. Grown(f, S)
  BY <1>1, <1>2, WritingGrows DEF SameFileTypeOK
<1>4. current' = [current EXCEPT !.acked = @ \cup S]
  BY DEF WriteChunks
<1>5. current = [path |-> current.path, acked |-> current.acked]
  BY DEF SameFileTypeOK, PlacesOK
<1>6. current' = [path |-> current.path, acked |-> current.acked \cup S]
  BY <1>4, <1>5
<1> QED
  BY <1>1, <1>3, <1>6

\* The files when none of them is touched.
LEMMA FilesStay ==
  ASSUME UNCHANGED <<temp, final>>
  PROVE  /\ FilesOK => FilesOK'
         /\ \A f : TempAt(f)' = TempAt(f) /\ FinalAt(f)' = FinalAt(f)
  BY DEF FilesOK, TempAt, FinalAt, IsContent, Indices
-----------------------------------------------------------------------------
(***************************************************************************)
(* Steps of the main thread that touch neither the files nor the recorded  *)
(* chunks.                                                                 *)
(***************************************************************************)
LEMMA OutsideStays ==
  ASSUME SameFileInv, UNCHANGED device, PlacesOK', AgentInOrder',
         UNCHANGED <<temp, final, network, adb, looked, pending, recorded>>,
         finished' \subseteq File,
         pc \notin LaneLabels, pc' \notin LaneLabels \cup {"split"},
         pc' \in AtEnd => pc \in AtEnd /\ pos' = pos,
         pc' = "check" /\ active' => ~ TempAt(AtFile).there
  PROVE  SameFileInv'
<1>1. FilesOK' /\ \A f : TempAt(f)' = TempAt(f) /\ FinalAt(f)' = FinalAt(f)
  BY FilesStay DEF SameFileInv, SameFileTypeOK
<1>2. \A f : Indices(f)' = Indices(f) /\ RecordedOf(f)' = RecordedOf(f)
  BY DEF Indices, RecordedOf
<1>3. RecordsOK'
  BY <1>2 DEF RecordsOK, SameFileInv, SameFileTypeOK
<1>4. adb = "off" /\ adb' = "off" /\ looked' = NothingLooked /\ pending' = {}
  BY DEF SameFileInv, LanesInOrder
<1>5. pc' \notin {"ok", "batch", "commit"} \cup PushLabels
  BY DEF LaneLabels
<1>6. LanesInOrder'
  <2>1. pc' \in AtEnd => Indices(AtFile)' \subseteq RecordedOf(AtFile)'
    BY <1>2 DEF SameFileInv, LanesInOrder, AtFile, RecordedOf, Indices
  <2> QED
    BY <1>4, <1>5, <2>1 DEF LanesInOrder, NothingLooked
<1>7. \A f \in File : Settled(f)' <=> Settled(f)
  BY <1>1, <1>2 DEF Settled
<1>8. FilesInOrder'
  <2>1. pc' = "check" /\ active' => ~ TempAt(AtFile)'.there
    BY DEF AtEnd, TempAt, AtFile
  <2> QED
    BY <1>1, <1>2, <2>1 DEF SameFileInv, FilesInOrder
<1>9. CalmInOrder'
  <2>1. \A f \in File : Kept(f)' <=> Kept(f)
    BY <1>1, <1>2, <1>7 DEF Kept
  <2>2. adb' # "written" /\ pc' \notin PushLabels \cup {"commit"}
    BY <1>4, <1>5
  <2> QED
    BY <2>1, <2>2 DEF SameFileInv, CalmInOrder
<1> QED
  BY <1>1, <1>3, <1>6, <1>8, <1>9 DEF SameFileInv, SameFileTypeOK

\* A run begins.
LEMMA BeginStays ==
  ASSUME SameFileInv, UNCHANGED device, Begin
  PROVE  SameFileInv'
<1> USE DEF Begin, agentVars, planVars, recordVars
<1>1. pc = "idle" /\ pc' = "task"
  OBVIOUS
<1>2. PlacesOK'
  BY <1>1, ChunkingAssumption DEF SameFileInv, SameFileTypeOK, PlacesOK, FileLabels, Rootless,
                                  LaneLabels, PushLabels, AtEnd
<1>3. AgentInOrder'
  BY <1>1 DEF SameFileInv, AgentInOrder, Rootless, FileLabels, LaneLabels, PushLabels, AtEnd
<1> QED
  BY <1>1, <1>2, <1>3, OutsideStays
  DEF SameFileInv, SameFileTypeOK, RecordsOK, LaneLabels, PushLabels, AtEnd

\* An agent that has the access takes the root it is told.
LEMMA RootAccepted ==
  ASSUME device.access = "granted"
  PROVE  Answers(device.access) = {TRUE}
  BY DEF Answers

\* START_TASK and SET_TARGET_ROOT.
LEMMA TellStays ==
  ASSUME SameFileInv, UNCHANGED device, TellTask \/ TellRoot
  PROVE  SameFileInv'
<1> USE DEF TellTask, TellRoot, Told, Goto, Lost, planVars, laneVars, recordVars, agentVars
<1>1. /\ pc \in {"task", "root", "again", "rootagain"}
      /\ pc' \in {"idle", "root", "rootagain", "plan", "file"}
      /\ pos' = pos
      /\ UNCHANGED <<temp, final, network, adb, looked, pending, recorded, finished>>
  BY DEF StartTask, SetTargetRoot
<1>2. PlacesOK'
  <2>1. current' = [path |-> current'.path, acked |-> current'.acked] /\ active' \in BOOLEAN
    BY DEF StartTask, SetTargetRoot, NoFile, SameFileInv, SameFileTypeOK, PlacesOK
  <2> QED
    BY <1>1, <2>1 DEF SameFileInv, SameFileTypeOK, PlacesOK, FileLabels, Rootless,
                      LaneLabels, PushLabels, AtEnd, AtFile
<1>3. AgentInOrder'
  <2> USE DEF SameFileInv, AgentInOrder, Rootless, FileLabels, LaneLabels, PushLabels, AtEnd
  <2>1. CASE TellTask
    BY <1>1, <2>1 DEF StartTask
  <2>2. CASE TellRoot
    <3>1. Answers(device.access) = {TRUE}
      BY RootAccepted
    <3>2. PICK accepted \in Answers(device.access) :
            \/ Told("root", SetTargetRoot(accepted), "plan")
            \/ Told("rootagain", SetTargetRoot(accepted), "file")
      BY <2>2
    <3>3. accepted = TRUE
      BY <3>1
    <3>4. \/ UNCHANGED <<active, current>> /\ root' = IF active THEN "target" ELSE root
          \/ UNCHANGED agentVars /\ pc' = "idle"
      BY <3>2, <3>3 DEF SetTargetRoot
    <3> QED
      BY <1>1, <2>2, <3>4
  <2> QED
    BY <2>1, <2>2
<1> QED
  BY <1>1, <1>2, <1>3, OutsideStays
  DEF SameFileInv, SameFileTypeOK, RecordsOK, LaneLabels, PushLabels, AtEnd

\* The plan of the lanes, and the way to the next file.
LEMMA PlanStays ==
  ASSUME SameFileInv, UNCHANGED device, Plan \/ AtNewFile
  PROVE  SameFileInv'
<1> USE DEF Plan, AtNewFile, Goto, planVars, laneVars, recordVars, agentVars
<1>1. /\ pc \in {"plan", "file"} /\ pc' \in {"again", "idle", "start"}
      /\ pos' = pos
      /\ UNCHANGED <<active, root, current>>
      /\ UNCHANGED <<temp, final, network, adb, looked, pending, recorded, finished>>
  OBVIOUS
<1>2. pc' = "start" => AtFile \in File
  BY ChunkingAssumption DEF SameFileInv, SameFileTypeOK, PlacesOK, AtFile, File
<1>3. PlacesOK'
  BY <1>1, <1>2 DEF SameFileInv, SameFileTypeOK, PlacesOK, FileLabels, Rootless,
                    LaneLabels, PushLabels, AtEnd, AtFile
<1>4. AgentInOrder'
  BY <1>1 DEF SameFileInv, AgentInOrder, Rootless, FileLabels, LaneLabels, PushLabels, AtEnd
<1> QED
  BY <1>1, <1>3, <1>4, OutsideStays
  DEF SameFileInv, SameFileTypeOK, RecordsOK, LaneLabels, PushLabels, AtEnd

\* START_FILE.
LEMMA TellFileStays ==
  ASSUME SameFileInv, UNCHANGED device, TellFile
  PROVE  SameFileInv'
<1> USE DEF TellFile, Told, Goto, Lost, planVars, laneVars, recordVars, agentVars
<1>1. /\ pc = "start" /\ pc' \in {"idle", "prepare"}
      /\ pos' = pos
      /\ UNCHANGED <<active, root>>
      /\ current' = current \/ current' = [path |-> AtFile, acked |-> {}]
      /\ pc' = "prepare" /\ active => current'.path = AtFile
      /\ UNCHANGED <<temp, final, network, adb, looked, pending, recorded, finished>>
  BY DEF StartFile
<1>2. PlacesOK'
  <2>1. current' = [path |-> current'.path, acked |-> current'.acked]
    BY <1>1 DEF SameFileInv, SameFileTypeOK, PlacesOK
  <2> QED
    BY <1>1, <2>1 DEF SameFileInv, SameFileTypeOK, PlacesOK, FileLabels, Rootless,
                      LaneLabels, PushLabels, AtEnd, AtFile
<1>3. AgentInOrder'
  BY <1>1 DEF SameFileInv, AgentInOrder, Rootless, FileLabels, LaneLabels, PushLabels, AtEnd,
              AtFile
<1> QED
  BY <1>1, <1>2, <1>3, OutsideStays
  DEF SameFileInv, SameFileTypeOK, RecordsOK, LaneLabels, PushLabels, AtEnd

(***************************************************************************)
(* The checkpoint is looked at: a file without chunks in it begins anew,   *)
(* another is resumed from those that can be trusted.                      *)
(***************************************************************************)
LEMMA RemoveStays ==
  ASSUME SameFileInv, UNCHANGED device, Remove
  PROVE  SameFileInv'
<1> USE DEF Remove, Goto, memoryVars, laneVars, recordVars
<1> PICK f \in File : f = AtFile
  BY DEF SameFileInv, SameFileTypeOK, PlacesOK, FileLabels
<1>1. /\ pc = "prepare" /\ pc' = "split" /\ pos' = pos /\ trusted' = {}
      /\ RecordedOf(f) = {}
      /\ UNCHANGED <<active, root, current, network, adb, looked, pending, recorded, finished>>
  OBVIOUS
<1>2. /\ temp' \in {temp, [temp EXCEPT ![<<"target", f>>] = Absent]}
      /\ final' \in {final, [final EXCEPT ![<<"target", f>>] = Absent]}
  OBVIOUS
<1>3. \A g \in File : <<"target", g>> \in Place
  BY DEF Place
<1>4. /\ \A g \in File : g # f => TempAt(g)' = TempAt(g) /\ FinalAt(g)' = FinalAt(g)
      /\ TempAt(f)' \in {TempAt(f), Absent}
      /\ FinalAt(f)' \in {FinalAt(f), Absent}
  BY <1>2, <1>3 DEF TempAt, FinalAt, SameFileInv, SameFileTypeOK, FilesOK
<1>5. \A g : Indices(g)' = Indices(g) /\ RecordedOf(g)' = RecordedOf(g)
  BY <1>1 DEF Indices, RecordedOf
<1>6. FilesOK'
  <2>1. \A g \in File : IsContent(TempAt(g)', g) /\ IsContent(FinalAt(g)', g)
    BY <1>4, AbsentIs DEF SameFileInv, SameFileTypeOK, FilesOK
  <2>2. temp' = [p \in Place |-> temp'[p]] /\ final' = [p \in Place |-> final'[p]]
    BY <1>2 DEF SameFileInv, SameFileTypeOK, FilesOK
  <2> QED
    BY <1>5, <2>1, <2>2 DEF FilesOK, IsContent
<1>7. RecordsOK'
  BY <1>1, <1>5 DEF SameFileInv, SameFileTypeOK, RecordsOK
<1>8. PlacesOK'
  BY <1>1 DEF SameFileInv, SameFileTypeOK, PlacesOK, FileLabels, Rootless, AtFile
<1>9. AgentInOrder'
  BY <1>1 DEF SameFileInv, AgentInOrder, Rootless, FileLabels, LaneLabels, PushLabels, AtEnd,
              AtFile
<1>10. LanesInOrder'
  BY <1>1 DEF SameFileInv, LanesInOrder, LaneLabels, PushLabels, AtEnd, NothingLooked
<1>11. FinalAt(f).good = {} /\ FinalAt(f)'.good = {} /\ AtFile' = f /\ 0 \in Indices(f)
  BY <1>1, <1>4, AbsentIs, UnitChunks DEF SameFileInv, FilesInOrder, AtFile
<1>12. FilesInOrder'
  <2>1. \A g \in File : FinalAt(g)'.good # {} => Indices(g) \subseteq RecordedOf(g)
    BY <1>4, <1>11 DEF SameFileInv, FilesInOrder
  <2>2. ~ Settled(AtFile)'
    BY <1>1, <1>5, <1>11 DEF Settled
  <2> QED
    BY <1>1, <1>5, <2>1, <2>2 DEF FilesInOrder
<1>13. CalmInOrder'
  <2>1. ASSUME NEW g \in File, Kept(g) PROVE Kept(g)'
    <3>1. CASE g = f
      BY <1>1, <1>5, <1>11, <3>1 DEF Kept
    <3>2. CASE g # f
      BY <1>4, <1>5, <2>1, <3>2 DEF Kept, Settled
    <3> QED
      BY <3>1, <3>2
  <2>2. adb' # "written" /\ pc' \notin PushLabels \cup {"commit"}
    BY <1>1 DEF SameFileInv, LanesInOrder, LaneLabels, PushLabels
  <2> QED
    BY <1>1, <2>1, <2>2 DEF SameFileInv, CalmInOrder
<1> QED
  BY <1>6, <1>7, <1>8, <1>9, <1>10, <1>12, <1>13 DEF SameFileInv, SameFileTypeOK

\* What is trusted is recorded, and of a settled file all is trusted.
LEMMA TrustworthyIs ==
  ASSUME SameFileTypeOK, NEW f \in File, root = "target", CanRead(f)
  PROVE  /\ Trustworthy(f) \subseteq RecordedOf(f)
         /\ Settled(f) => Trustworthy(f) = Indices(f)
<1>1. Trustworthy(f) \subseteq RecordedOf(f)
  BY DEF Trustworthy
<1>2. ASSUME Settled(f) PROVE Trustworthy(f) = Indices(f)
  <2>1. RecordedOf(f) = Indices(f)
    BY <1>2 DEF Settled, RecordedOf
  <2>2. FinalAt(f).there
    BY <1>2, UnitChunks DEF Settled, SameFileTypeOK, FilesOK, IsContent
  <2>3. Readable(f).good = Indices(f)
    BY <1>2, <2>2 DEF Readable, Here, FinalAt, Settled
  <2> QED
    BY <2>1, <2>3, GuardsAmong DEF Trustworthy
<1> QED
  BY <1>1, <1>2

\* The resume guard.
LEMMA CheckResumeStays ==
  ASSUME SameFileInv, UNCHANGED device, CheckResume
  PROVE  SameFileInv'
<1> USE DEF CheckResume, Goto, agentVars, laneVars, recordVars
<1> PICK f \in File : f = AtFile
  BY DEF SameFileInv, SameFileTypeOK, PlacesOK, FileLabels
<1>1. /\ pc = "prepare" /\ pc' \in {"split", "idle"} /\ pos' = pos
      /\ UNCHANGED <<active, root, current, network, adb, looked, pending, recorded, finished>>
      /\ UNCHANGED <<temp, final>>
  OBVIOUS
<1>2. PlacesOK'
  BY <1>1 DEF SameFileInv, SameFileTypeOK, PlacesOK, FileLabels, Rootless, AtFile,
              LaneLabels, PushLabels, AtEnd
<1>3. AgentInOrder'
  BY <1>1 DEF SameFileInv, AgentInOrder, Rootless, FileLabels, LaneLabels, PushLabels, AtEnd,
              AtFile
<1>4. CASE pc' = "idle"
  BY <1>1, <1>2, <1>3, <1>4, OutsideStays
  DEF SameFileInv, SameFileTypeOK, RecordsOK, LaneLabels, PushLabels, AtEnd
<1>5. CASE pc' = "split"
  <2>1. CanRead(f) /\ trusted' = Trustworthy(f) /\ root = "target"
    BY <1>1, <1>5 DEF CanRead, SameFileInv, AgentInOrder, Rootless
  <2>2. trusted' \subseteq RecordedOf(f) /\ (Settled(f) => trusted' = Indices(f))
    BY <2>1, TrustworthyIs DEF SameFileInv
  <2>3. \A g : Indices(g)' = Indices(g) /\ RecordedOf(g)' = RecordedOf(g)
    BY <1>1 DEF Indices, RecordedOf
  <2>4. FilesOK' /\ \A g : TempAt(g)' = TempAt(g) /\ FinalAt(g)' = FinalAt(g)
    BY <1>1, FilesStay DEF SameFileInv, SameFileTypeOK
  <2>5. RecordsOK'
    BY <1>1, <2>3 DEF SameFileInv, SameFileTypeOK, RecordsOK
  <2>6. AtFile' = f
    BY <1>1 DEF AtFile
  <2>7. LanesInOrder'
    BY <1>1, <1>5, <2>2, <2>3, <2>6 DEF SameFileInv, LanesInOrder, LaneLabels, PushLabels, AtEnd,
                                  NothingLooked
  <2>8. \A g : Settled(g)' <=> Settled(g)
    BY <2>3, <2>4 DEF Settled
  <2>9. FilesInOrder'
    BY <1>5, <2>2, <2>3, <2>4, <2>6, <2>8 DEF SameFileInv, FilesInOrder
  <2>10. CalmInOrder'
    <3>1. \A g \in File : Kept(g)' <=> Kept(g)
      BY <2>3, <2>4, <2>8 DEF Kept
    <3>2. adb' # "written" /\ pc' \notin PushLabels \cup {"commit"}
      BY <1>1, <1>5 DEF SameFileInv, LanesInOrder, LaneLabels, PushLabels
    <3> QED
      BY <1>1, <3>1, <3>2 DEF SameFileInv, CalmInOrder
  <2> QED
    BY <1>2, <1>3, <2>4, <2>5, <2>7, <2>9, <2>10 DEF SameFileInv, SameFileTypeOK
<1> QED
  BY <1>1, <1>4, <1>5
-----------------------------------------------------------------------------
(***************************************************************************)
(* The lanes.                                                              *)
(***************************************************************************)
LEMMA SpawnLanesStays ==
  ASSUME SameFileInv, UNCHANGED device, SpawnLanes
  PROVE  SameFileInv'
<1> USE DEF SpawnLanes, Goto, agentVars, planVars, recordVars
<1> PICK f \in File : f = AtFile
  BY DEF SameFileInv, SameFileTypeOK, PlacesOK, FileLabels
<1>1. /\ pc = "split" /\ pc' = "lane" /\ pos' = pos /\ adb' = "on"
      /\ UNCHANGED <<active, root, current, network, trusted, looked, pending, recorded, finished>>
      /\ UNCHANGED <<temp, final>>
  OBVIOUS
<1>2. \A g : Indices(g)' = Indices(g) /\ RecordedOf(g)' = RecordedOf(g)
  BY <1>1 DEF Indices, RecordedOf
<1>3. FilesOK' /\ \A g : TempAt(g)' = TempAt(g) /\ FinalAt(g)' = FinalAt(g)
  BY <1>1, FilesStay DEF SameFileInv, SameFileTypeOK
<1>4. RecordsOK'
  BY <1>1, <1>2 DEF SameFileInv, SameFileTypeOK, RecordsOK
<1>5. PlacesOK'
  BY <1>1 DEF SameFileInv, SameFileTypeOK, PlacesOK, FileLabels, LaneLabels, AtFile
<1>6. AgentInOrder'
  BY <1>1 DEF SameFileInv, AgentInOrder, Rootless, FileLabels, LaneLabels, AtFile
<1>7. AtFile' = f
  BY <1>1 DEF AtFile
<1>8. pc \notin LaneLabels /\ pc' \in LaneLabels /\ pc' \notin PushLabels \cup AtEnd
  BY <1>1 DEF LaneLabels, PushLabels, AtEnd
<1>9. looked["Adb"] = 0 /\ looked["Wifi"] = 0 /\ pending = {}
  BY <1>8 DEF SameFileInv, LanesInOrder, NothingLooked
<1>10. \A i \in Indices(f) : ~ i < 0
  BY UnitChunks
<1>11. LanesInOrder'
  BY <1>1, <1>2, <1>7, <1>8, <1>9, <1>10 DEF SameFileInv, LanesInOrder
<1>12. \A g : Settled(g)' <=> Settled(g)
  BY <1>2, <1>3 DEF Settled
<1>13. FilesInOrder'
  BY <1>1, <1>2, <1>3, <1>7, <1>12 DEF SameFileInv, FilesInOrder
<1>14. CalmInOrder'
  <2>1. \A g \in File : Kept(g)' <=> Kept(g)
    BY <1>2, <1>3, <1>12 DEF Kept
  <2> QED
    BY <1>1, <1>8, <2>1 DEF SameFileInv, CalmInOrder
<1> QED
  BY <1>3, <1>4, <1>5, <1>6, <1>11, <1>13, <1>14 DEF SameFileInv, SameFileTypeOK

(***************************************************************************)
(* What a step of either lane does to the files and the checkpoint: the    *)
(* chunks S are written, none of them trusted, and the chunks R recorded.  *)
(***************************************************************************)
LaneDoes(f, S, R) ==
  /\ S \subseteq Indices(f) \ trusted
  /\ (S = {} /\ UNCHANGED <<temp, final>>) \/ (trusted # Indices(f) /\ Grown(f, S))
  /\ R \subseteq Indices(f)
  /\ recorded' = recorded \cup ({f} \X R)
  /\ Calm => R \subseteq TempAt(f)'.good
  /\ UNCHANGED <<network, stride, trusted, finished>>

\* Such a step keeps the files in order, and what is kept.
LEMMA LaneFiles ==
  ASSUME SameFileInv, UNCHANGED device, pc \in LaneLabels, pc' \in LaneLabels,
         NEW f \in File, AtFile = f, AtFile' = f, NEW S, NEW R, LaneDoes(f, S, R)
  PROVE  /\ FilesOK' /\ RecordsOK' /\ FilesInOrder'
         /\ Calm' => \A g \in File : Kept(g)'
         /\ TempAt(f)'.good = TempAt(f).good \cup S
         /\ RecordedOf(f)' = RecordedOf(f) \cup R
<1> USE DEF LaneDoes
<1>1. \A g : Indices(g)' = Indices(g)
  BY DEF Indices
<1>2. /\ RecordedOf(f)' = RecordedOf(f) \cup R
      /\ \A g : RecordedOf(g) \subseteq RecordedOf(g)' /\ (g # f => RecordedOf(g)' = RecordedOf(g))
  BY <1>1 DEF RecordedOf
<1>3. /\ FilesOK'
      /\ TempAt(f)'.good = TempAt(f).good \cup S
      /\ (S = {} /\ TempAt(f)' = TempAt(f)) \/ (trusted # Indices(f) /\ TempAt(f)'.there)
      /\ \A g \in File : FinalAt(g)' = FinalAt(g) /\ (g # f => TempAt(g)' = TempAt(g))
  <2>1. CASE S = {} /\ UNCHANGED <<temp, final>>
    BY <2>1, FilesStay DEF SameFileInv, SameFileTypeOK
  <2>2. CASE trusted # Indices(f) /\ Grown(f, S)
    BY <2>2 DEF Grown
  <2> QED
    BY <2>1, <2>2
<1>4. RecordsOK'
  BY <1>1 DEF SameFileInv, SameFileTypeOK, RecordsOK
<1>5. Settled(f) => S = {} /\ TempAt(f)' = TempAt(f)
  BY <1>3 DEF SameFileInv, FilesInOrder
<1>6. Settled(f)' => Settled(f)
  <2> SUFFICES ASSUME Settled(f)' PROVE Settled(f)
    OBVIOUS
  <2>1. FinalAt(f).good = Indices(f) /\ ~ TempAt(f).there
    BY <1>1, <1>3 DEF Settled
  <2>2. Indices(f) \subseteq RecordedOf(f)
    BY <2>1, UnitChunks DEF SameFileInv, FilesInOrder
  <2> QED
    BY <2>1, <2>2 DEF Settled
<1>7. FilesInOrder'
  <2>1. \A g \in File : FinalAt(g)'.good # {} => Indices(g)' \subseteq RecordedOf(g)'
    BY <1>1, <1>2, <1>3 DEF SameFileInv, FilesInOrder
  <2>2. pc' # "check"
    BY DEF LaneLabels, PushLabels
  <2>3. Settled(AtFile)' => trusted' = Indices(AtFile)'
    <3>1. Settled(AtFile)' => Settled(f)'
      BY DEF Settled, TempAt, FinalAt, RecordedOf, Indices
    <3>2. Indices(AtFile)' = Indices(f)
      BY DEF Indices
    <3> QED
      BY <1>6, <3>1, <3>2 DEF SameFileInv, FilesInOrder
  <2> QED
    BY <2>1, <2>2, <2>3 DEF FilesInOrder
<1>8. ASSUME Calm', NEW g \in File PROVE Kept(g)'
  <2>1. Kept(g)
    BY <1>8 DEF SameFileInv, CalmInOrder
  <2>2. CASE g # f
    BY <1>1, <1>2, <1>3, <2>1, <2>2 DEF Kept, Settled
  <2>3. CASE g = f /\ Settled(f)
    BY <1>1, <1>2, <1>3, <1>5, <2>3 DEF Kept, Settled
  <2>4. CASE g = f /\ ~ Settled(f)
    BY <1>2, <1>3, <1>8, <2>1, <2>4 DEF Kept
  <2> QED
    BY <2>2, <2>3, <2>4
<1> QED
  BY <1>2, <1>3, <1>4, <1>7, <1>8

(***************************************************************************)
(* A step of the ADB lane: it says how far the lane is, and what dd has    *)
(* written if it has written something.                                    *)
(***************************************************************************)
LEMMA AdbLane ==
  ASSUME SameFileInv, UNCHANGED device, adb \in {"on", "written"},
         NEW f \in File, AtFile = f, NEW S, NEW R, LaneDoes(f, S, R),
         UNCHANGED <<active, root, current, workerVars, pending>>,
         adb' \in {"on", "written", "ok", "failed"},
         looked' \in [{"Adb", "Wifi"} -> Nat], looked'["Wifi"] = looked["Wifi"],
         \A i \in Indices(f) :
           i < looked'["Adb"] /\ OwnsChunk("Adb", i, stride) => i \in RecordedOf(f) \cup R,
         adb' = "ok" => NextOf("Adb")' = {},
         adb' = "written" => NextOf("Adb")' \subseteq S
  PROVE  SameFileInv'
<1> USE DEF workerVars
<1>1. UNCHANGED <<network, stride, trusted, finished>>
  BY DEF LaneDoes
<1>2. pc \in LaneLabels /\ pc' \in LaneLabels /\ AtFile' = f /\ AtChunk' = AtChunk
  BY DEF SameFileInv, LanesInOrder, AtFile, AtChunk
<1>3. /\ FilesOK' /\ RecordsOK' /\ FilesInOrder'
      /\ Calm' => \A g \in File : Kept(g)'
      /\ TempAt(f)'.good = TempAt(f).good \cup S
      /\ RecordedOf(f)' = RecordedOf(f) \cup R
  BY <1>2, LaneFiles
<1>4. Indices(f)' = Indices(f)
  BY DEF Indices
<1>5. PlacesOK'
  BY <1>1, <1>2 DEF SameFileInv, SameFileTypeOK, PlacesOK
<1>6. AgentInOrder'
  BY <1>1, <1>2 DEF SameFileInv, AgentInOrder
<1>7. NextOf("Wifi")' = NextOf("Wifi")
  BY <1>1, <1>2, NextStays
<1>8. RecordedOf(AtFile)' = RecordedOf(f)' /\ Indices(AtFile)' = Indices(f)'
      /\ TempAt(AtFile)' = TempAt(f)'
  BY <1>2 DEF RecordedOf, Indices, TempAt
<1>9. LanesInOrder'
  <2>1. pc' \notin AtEnd
    BY <1>2 DEF LaneLabels, PushLabels, AtEnd
  <2>2. trusted' \subseteq RecordedOf(AtFile)' /\ pending' \subseteq Indices(AtFile)' \ trusted'
    BY <1>1, <1>2, <1>3, <1>4, <1>8 DEF SameFileInv, LanesInOrder
  <2>3. \A i \in Indices(AtFile)' :
          /\ i < looked'["Adb"] /\ OwnsChunk("Adb", i, stride') => i \in RecordedOf(AtFile)'
          /\ i < looked'["Wifi"] /\ OwnsChunk("Wifi", i, stride') =>
               i \in RecordedOf(AtFile)' \cup pending'
    BY <1>1, <1>2, <1>3, <1>4, <1>8 DEF SameFileInv, LanesInOrder
  <2>4. /\ pc' = "ok" => NextOf("Wifi")' = {} /\ pending' = {}
        /\ pc' \in {"batch", "commit"} => pending' # {}
        /\ pc' \in PushLabels => AtChunk' \in pending'
    BY <1>2, <1>7 DEF SameFileInv, LanesInOrder
  <2>5. adb' = "written" => NextOf("Adb")' \cap trusted' = {}
    BY <1>1 DEF LaneDoes
  <2> QED
    BY <1>2, <2>1, <2>2, <2>3, <2>4, <2>5 DEF LanesInOrder
<1>10. CalmInOrder'
  <2> SUFFICES ASSUME Calm' PROVE CalmInOrder'
    BY DEF CalmInOrder
  <2>1. pc' \in PushLabels \cup {"commit"} => pending' \subseteq TempAt(AtFile)'.good
    BY <1>1, <1>2, <1>3, <1>8 DEF SameFileInv, CalmInOrder
  <2>2. adb' = "written" => NextOf("Adb")' \subseteq TempAt(AtFile)'.good
    BY <1>3, <1>8
  <2> QED
    BY <1>3, <2>1, <2>2 DEF CalmInOrder
<1> QED
  BY <1>3, <1>5, <1>6, <1>9, <1>10 DEF SameFileInv, SameFileTypeOK

\* The steps of dd and its record, in their order.
LEMMA AdbStays ==
  ASSUME SameFileInv, UNCHANGED device, AdbStep
  PROVE  SameFileInv'
<1> USE DEF AdbStep
<1>1. pc \in LaneLabels /\ adb \in {"on", "written"}
  BY DEF SameFileInv, LanesInOrder
<1> PICK f \in File : AtFile = f
  BY <1>1 DEF SameFileInv, SameFileTypeOK, PlacesOK, FileLabels
<1>2. UNCHANGED <<network, workerVars, stride, trusted, pending, finished>> /\ AtFile' = f
  BY DEF workerVars, planVars, AtFile
<1>3. looked \in [{"Adb", "Wifi"} -> Nat]
  BY DEF SameFileInv, SameFileTypeOK, PlacesOK
<1>4. \A i \in Indices(f) :
        i < looked["Adb"] /\ OwnsChunk("Adb", i, stride) => i \in RecordedOf(f)
  BY <1>1 DEF SameFileInv, LanesInOrder
<1>5. trusted \subseteq RecordedOf(f)
  BY <1>1 DEF SameFileInv, LanesInOrder
<1>6. \A i \in Indices(f) : i \in Nat
  BY UnitChunks
<1>7. ASSUME NEW i \in NextOf("Adb"), Goes("Adb", i)
      PROVE  /\ looked' \in [{"Adb", "Wifi"} -> Nat] /\ looked'["Wifi"] = looked["Wifi"]
             /\ i \in Indices(f)
             /\ \A j \in Indices(f) : j < looked'["Adb"] /\ OwnsChunk("Adb", j, stride) =>
                  j = i \/ j \in RecordedOf(f)
  <2>1. /\ i \in Indices(f)
        /\ \A j \in Indices(f) : j >= looked["Adb"] /\ OwnsChunk("Adb", j, stride) => i <= j
    BY NextIs
  <2>2. looked' \in [{"Adb", "Wifi"} -> Nat] /\ looked'["Wifi"] = looked["Wifi"]
        /\ looked'["Adb"] = i + 1
    BY <1>3, <1>6, <1>7, <2>1 DEF Goes
  <2>3. looked["Adb"] \in Nat
    BY <1>3
  <2>4. \A j \in Indices(f) : j < i + 1 /\ j >= looked["Adb"] /\ OwnsChunk("Adb", j, stride)
          => j = i
    BY <1>6, <2>1
  <2>5. \A j \in Indices(f) : j < looked["Adb"] \/ j >= looked["Adb"]
    BY <1>6, <2>3
  <2> QED
    BY <1>4, <2>1, <2>2, <2>4, <2>5
<1>8. CASE AdbDone
  <2>1. LaneDoes(f, {}, {})
    BY <1>2, <1>8 DEF LaneDoes, AdbDone, agentVars
  <2>2. NextOf("Adb")' = NextOf("Adb")
    BY <1>2, <1>8, NextStays DEF AdbDone
  <2>3. adb' \in {"ok", "failed"} /\ (adb' = "ok" => NextOf("Adb") = {})
    BY <1>8 DEF AdbDone
  <2> QED
    BY <1>2, <1>3, <1>4, <1>8, <2>1, <2>2, <2>3, AdbLane DEF AdbDone, agentVars
<1>9. ASSUME NEW i \in Indices(AtFile), AdbSkips(i) PROVE SameFileInv'
  <2>1. LaneDoes(f, {}, {})
    BY <1>2, <1>9 DEF LaneDoes, AdbSkips, agentVars
  <2>2. i \in RecordedOf(f) /\ i \in NextOf("Adb") /\ Goes("Adb", i)
    BY <1>5, <1>9 DEF AdbSkips
  <2>3. adb' = "on" /\ UNCHANGED <<active, root, current>>
    BY <1>9 DEF AdbSkips, agentVars
  <2> QED
    BY <1>2, <1>7, <2>1, <2>2, <2>3, AdbLane
<1>10. ASSUME NEW i \in Indices(AtFile), AdbWrites(i) PROVE SameFileInv'
  <2>1. /\ i \in NextOf("Adb") /\ i \notin trusted /\ i \in Indices(f)
        /\ looked' = looked /\ UNCHANGED <<active, root, current, final, recorded>>
    BY <1>10 DEF AdbWrites, memoryVars
  <2>2. CASE UNCHANGED temp /\ adb' = "failed"
    <3>1. LaneDoes(f, {}, {})
      BY <1>2, <2>1, <2>2 DEF LaneDoes
    <3> QED
      BY <1>2, <1>3, <1>4, <2>1, <2>2, <3>1, AdbLane
  <2>3. CASE /\ temp' = [temp EXCEPT ![<<"target", AtFile>>] = Written(@, AtFile, {i})]
             /\ adb' \in {"written", "failed"}
    <3>1. Grown(f, {i})
      <4>1. temp' = [temp EXCEPT ![<<"target", f>>] = Written(@, f, {i})]
        BY <2>3
      <4>2. FilesOK /\ {i} \in SUBSET Indices(f) /\ final' = final
        BY <2>1 DEF SameFileInv, SameFileTypeOK
      <4> QED
        BY <4>1, <4>2, WritingGrows
    <3>2. LaneDoes(f, {i}, {})
      BY <1>2, <2>1, <3>1 DEF LaneDoes
    <3>3. NextOf("Adb")' = NextOf("Adb")
      BY <1>2, <2>1, NextStays
    <3>4. \A j \in NextOf("Adb") : j = i
      <4> TAKE j \in NextOf("Adb")
      <4>1. i <= j /\ j <= i /\ i \in Nat /\ j \in Nat
        BY <1>6, <2>1, NextIs
      <4> QED
        BY <4>1
    <3> QED
      BY <1>2, <1>3, <1>4, <2>1, <2>3, <3>2, <3>3, <3>4, AdbLane
  <2> QED
    BY <1>10, <2>2, <2>3 DEF AdbWrites
<1>11. ASSUME NEW i \in Indices(AtFile), AdbRecords(i) PROVE SameFileInv'
  <2>1. i \in NextOf("Adb") /\ Goes("Adb", i) /\ adb = "written" /\ adb' = "on"
        /\ recorded' = recorded \cup {<<f, i>>} /\ UNCHANGED <<active, root, current, temp, final>>
    BY <1>11 DEF AdbRecords, agentVars
  <2>2. Calm => i \in TempAt(f)'.good
    <3>1. Calm => i \in TempAt(f).good
      BY <2>1 DEF SameFileInv, CalmInOrder
    <3> QED
      BY <2>1, <3>1 DEF TempAt
  <2>3. LaneDoes(f, {}, {i})
    <3>1. {f} \X {i} = {<<f, i>>}
      OBVIOUS
    <3> QED
      BY <1>2, <1>11, <2>1, <2>2, <3>1 DEF LaneDoes
  <2> QED
    BY <1>2, <1>7, <2>1, <2>3, AdbLane
<1> QED
  BY <1>8, <1>9, <1>10, <1>11

(***************************************************************************)
(* A step of the Wi-Fi lane: it says what the batch is and how far the     *)
(* lane is.                                                                *)
(***************************************************************************)
LEMMA WifiLane ==
  ASSUME SameFileInv, UNCHANGED device, pc \in LaneLabels, pc' \in LaneLabels,
         NEW f \in File, AtFile = f, AtFile' = f, AtChunk' \in Nat,
         pos' = <<AtFile', AtChunk'>>,
         NEW S, NEW R, LaneDoes(f, S, R),
         UNCHANGED <<active, root, adb>>,
         current' = [path |-> current'.path, acked |-> current'.acked],
         current'.path = current.path,
         looked' \in [{"Adb", "Wifi"} -> Nat], looked'["Adb"] = looked["Adb"],
         pending' \subseteq Indices(f) \ trusted,
         \A i \in Indices(f) : i < looked'["Wifi"] /\ OwnsChunk("Wifi", i, stride) =>
           i \in RecordedOf(f) \cup R \cup pending',
         pc' = "ok" => NextOf("Wifi")' = {} /\ pending' = {},
         pc' \in {"batch", "commit"} => pending' # {},
         pc' \in PushLabels => AtChunk' \in pending',
         Calm /\ pc' \in PushLabels \cup {"commit"} =>
           pending' \subseteq TempAt(f).good \cup S
  PROVE  SameFileInv'
<1>1. UNCHANGED <<network, stride, trusted, finished>>
  BY DEF LaneDoes
<1>2. /\ FilesOK' /\ RecordsOK' /\ FilesInOrder'
      /\ Calm' => \A g \in File : Kept(g)'
      /\ TempAt(f)'.good = TempAt(f).good \cup S
      /\ RecordedOf(f)' = RecordedOf(f) \cup R
  BY LaneFiles
<1>3. Indices(f)' = Indices(f)
  BY DEF Indices
<1>4. PlacesOK'
  <2>1. AtFile' \in 0 .. NFiles
    BY DEF SameFileInv, SameFileTypeOK, PlacesOK, AtFile
  <2>2. pos' \in (0 .. NFiles) \X Nat
    BY <2>1
  <2>3. pc' \in FileLabels
    BY DEF FileLabels
  <2> QED
    BY <1>1, <2>2, <2>3 DEF SameFileInv, SameFileTypeOK, PlacesOK
<1>5. AgentInOrder'
  <2>1. pc \in FileLabels \ {"start"} /\ pc' \in FileLabels
        /\ {pc, pc'} \cap (Rootless \cup {"idle", "task"}) = {}
    BY DEF LaneLabels, PushLabels, FileLabels, Rootless
  <2> QED
    BY <1>1, <2>1 DEF SameFileInv, AgentInOrder
<1>6. NextOf("Adb")' = NextOf("Adb")
  BY <1>1, NextStays
<1>7. RecordedOf(AtFile)' = RecordedOf(f)' /\ Indices(AtFile)' = Indices(f)'
      /\ TempAt(AtFile)' = TempAt(f)'
  BY DEF RecordedOf, Indices, TempAt
<1>8. LanesInOrder'
  <2>1. pc' \notin AtEnd
    BY DEF LaneLabels, PushLabels, AtEnd
  <2>2. trusted' \subseteq RecordedOf(AtFile)'
    BY <1>1, <1>2, <1>7 DEF SameFileInv, LanesInOrder
  <2>3. \A i \in Indices(AtFile)' :
          /\ i < looked'["Adb"] /\ OwnsChunk("Adb", i, stride') => i \in RecordedOf(AtFile)'
          /\ i < looked'["Wifi"] /\ OwnsChunk("Wifi", i, stride') =>
               i \in RecordedOf(AtFile)' \cup pending'
    BY <1>1, <1>2, <1>3, <1>7 DEF SameFileInv, LanesInOrder
  <2>4. /\ adb' = "ok" => NextOf("Adb")' = {}
        /\ adb' = "written" => NextOf("Adb")' \cap trusted' = {}
    BY <1>1, <1>6 DEF SameFileInv, LanesInOrder
  <2>5. pending' \subseteq Indices(AtFile)' \ trusted'
    BY <1>1, <1>3, <1>7
  <2> QED
    BY <2>1, <2>2, <2>3, <2>4, <2>5 DEF LanesInOrder
<1>9. CalmInOrder'
  <2> SUFFICES ASSUME Calm' PROVE CalmInOrder'
    BY DEF CalmInOrder
  <2>1. adb' = "written" => NextOf("Adb")' \subseteq TempAt(AtFile)'.good
    BY <1>1, <1>2, <1>6, <1>7 DEF SameFileInv, CalmInOrder
  <2>2. pc' \in PushLabels \cup {"commit"} => pending' \subseteq TempAt(AtFile)'.good
    BY <1>1, <1>2, <1>7
  <2> QED
    BY <1>2, <2>1, <2>2 DEF CalmInOrder
<1> QED
  BY <1>2, <1>4, <1>5, <1>8, <1>9 DEF SameFileInv, SameFileTypeOK

(***************************************************************************)
(* The steps between the requests.                                         *)
(***************************************************************************)
LEMMA CollectStays ==
  ASSUME SameFileInv, UNCHANGED device, UNCHANGED <<network, planVars, adb, finished>>,
         \/ WifiDone \/ PushedOne \/ Commit \/ WifiFails
         \/ pc = "lane" /\ \E i \in Indices(AtFile) : WifiSkips(i) \/ WifiTakes(i)
  PROVE  SameFileInv'
<1> USE DEF Goto, workerVars
<1>1. pc \in LaneLabels \ {"ok", "stopped"}
  BY DEF WifiDone, PushedOne, Commit, WifiFails, LaneLabels, PushLabels
<1> PICK f \in File : AtFile = f
  BY <1>1 DEF SameFileInv, SameFileTypeOK, PlacesOK, FileLabels
<1>2. UNCHANGED <<network, stride, trusted, adb, finished>>
  BY DEF planVars
<1>3. /\ looked \in [{"Adb", "Wifi"} -> Nat]
      /\ current = [path |-> current.path, acked |-> current.acked]
      /\ AtChunk \in Nat /\ pos = <<AtFile, AtChunk>>
  BY DEF SameFileInv, SameFileTypeOK, PlacesOK, AtFile, AtChunk
<1>4. pending \subseteq Indices(f) \ trusted /\ trusted \subseteq RecordedOf(f)
  BY <1>1 DEF SameFileInv, LanesInOrder
<1>5. \A i \in Indices(f) : i < looked["Wifi"] /\ OwnsChunk("Wifi", i, stride) =>
        i \in RecordedOf(f) \cup pending
  BY <1>1 DEF SameFileInv, LanesInOrder
<1>6. \A i \in Indices(f) : i \in Nat
  BY UnitChunks
<1>7. ASSUME NEW i \in NextOf("Wifi"), Goes("Wifi", i)
      PROVE  /\ looked' \in [{"Adb", "Wifi"} -> Nat] /\ looked'["Adb"] = looked["Adb"]
             /\ i \in Indices(f)
             /\ \A j \in Indices(f) : j < looked'["Wifi"] /\ OwnsChunk("Wifi", j, stride) =>
                  j = i \/ j \in RecordedOf(f) \cup pending
  <2>1. /\ i \in Indices(f)
        /\ \A j \in Indices(f) : j >= looked["Wifi"] /\ OwnsChunk("Wifi", j, stride) => i <= j
    BY NextIs
  <2>2. looked' \in [{"Adb", "Wifi"} -> Nat] /\ looked'["Adb"] = looked["Adb"]
        /\ looked'["Wifi"] = i + 1
    BY <1>3, <1>6, <1>7, <2>1 DEF Goes
  <2>3. looked["Wifi"] \in Nat
    BY <1>3
  <2>4. \A j \in Indices(f) : j < i + 1 /\ j >= looked["Wifi"] /\ OwnsChunk("Wifi", j, stride)
          => j = i
    BY <1>6, <2>1
  <2>5. \A j \in Indices(f) : j < looked["Wifi"] \/ j >= looked["Wifi"]
    BY <1>6, <2>3
  <2> QED
    BY <1>5, <2>1, <2>2, <2>4, <2>5
<1>8. ASSUME UNCHANGED <<agentVars, recorded>> PROVE LaneDoes(f, {}, {})
  BY <1>2, <1>8 DEF LaneDoes, agentVars
<1>9. ASSUME pos' = pos PROVE AtFile' = f /\ AtChunk' = AtChunk /\ pos' = <<AtFile', AtChunk'>>
  BY <1>3, <1>9 DEF AtFile, AtChunk
<1>10. CASE WifiDone
  <2>1. /\ UNCHANGED <<agentVars, recorded, looked, pending, pos>>
        /\ pc' \in {"stopped", "ok", "batch"}
        /\ (pc' = "ok" => NextOf("Wifi") = {} /\ pending = {})
        /\ (pc' = "batch" => pending # {})
    BY <1>10 DEF WifiDone
  <2>2. NextOf("Wifi")' = NextOf("Wifi")
    BY <1>2, <1>9, <2>1, NextStays
  <2>3. pc' \in LaneLabels /\ pc' \notin PushLabels \cup {"commit"}
    BY <2>1 DEF LaneLabels, PushLabels
  <2> QED
    BY <1>1, <1>2, <1>3, <1>4, <1>5, <1>8, <1>9, <2>1, <2>2, <2>3, WifiLane DEF agentVars
<1>11. CASE WifiFails
  <2>1. UNCHANGED <<agentVars, recorded, looked, pending, pos>> /\ pc' = "stopped"
    BY <1>11 DEF WifiFails
  <2>2. pc' \in LaneLabels /\ pc' \notin PushLabels \cup {"commit"}
    BY <2>1 DEF LaneLabels, PushLabels
  <2> QED
    BY <1>1, <1>2, <1>3, <1>4, <1>5, <1>8, <1>9, <2>1, <2>2, WifiLane DEF agentVars
<1>12. ASSUME pc = "lane", NEW i \in Indices(AtFile), WifiSkips(i) PROVE SameFileInv'
  <2>1. UNCHANGED <<agentVars, recorded, pending, pos>> /\ pc' = "lane"
        /\ i \in NextOf("Wifi") /\ i \in RecordedOf(f) /\ Goes("Wifi", i)
    BY <1>4, <1>12 DEF WifiSkips
  <2>2. pc' \in LaneLabels /\ pc' \notin PushLabels \cup {"commit"}
    BY <2>1 DEF LaneLabels, PushLabels
  <2> QED
    BY <1>1, <1>2, <1>3, <1>4, <1>7, <1>8, <1>9, <2>1, <2>2, WifiLane DEF agentVars
<1>13. ASSUME pc = "lane", NEW i \in Indices(AtFile), WifiTakes(i) PROVE SameFileInv'
  <2>1. UNCHANGED <<agentVars, recorded, pos>> /\ pc' \in {"batch", "lane"}
        /\ i \in NextOf("Wifi") /\ i \notin trusted /\ i \in Indices(f) /\ Goes("Wifi", i)
        /\ pending' = pending \cup {i}
    BY <1>13 DEF WifiTakes
  <2>2. pc' \in LaneLabels /\ pc' \notin PushLabels \cup {"commit"}
    BY <2>1 DEF LaneLabels, PushLabels
  <2>3. pending' \subseteq Indices(f) \ trusted /\ pending' # {}
    BY <1>4, <2>1
  <2> QED
    BY <1>1, <1>2, <1>3, <1>7, <1>8, <1>9, <2>1, <2>2, <2>3, WifiLane DEF agentVars
<1>14. CASE PushedOne
  <2> DEFINE rest == {i \in pending : i > AtChunk}
  <2>1. UNCHANGED <<agentVars, recorded, looked, pending>> /\ pc = "pushed"
    BY <1>14 DEF PushedOne
  <2>2. AtChunk \in pending /\ (Calm => pending \subseteq TempAt(f).good)
    BY <2>1 DEF SameFileInv, LanesInOrder, CalmInOrder, PushLabels
  <2>3. CASE Goto("commit")
    <3>1. pc' = "commit" /\ pos' = pos
      BY <2>3
    <3>2. pc' \in LaneLabels /\ pc' \notin PushLabels \cup {"ok"}
      BY <3>1 DEF LaneLabels, PushLabels
    <3> QED
      BY <1>1, <1>2, <1>3, <1>4, <1>5, <1>8, <1>9, <2>1, <2>2, <3>1, <3>2, WifiLane DEF agentVars
  <2>4. ASSUME NEW i \in rest, PushFrom(i) PROVE SameFileInv'
    <3>1. pc' = "push" /\ AtFile' = f /\ AtChunk' = i /\ pos' = <<AtFile', AtChunk'>>
          /\ i \in pending /\ i \in Nat
      BY <1>4, <1>6, <2>4 DEF PushFrom, AtFile, AtChunk
    <3>2. pc' \in LaneLabels /\ pc' \notin {"ok", "batch", "commit"}
      BY <3>1 DEF LaneLabels, PushLabels
    <3> QED
      BY <1>1, <1>2, <1>3, <1>4, <1>5, <1>8, <2>1, <2>2, <3>1, <3>2, WifiLane DEF agentVars
  <2> QED
    BY <1>14, <2>3, <2>4 DEF PushedOne
<1>15. CASE Commit
  <2>1. PICK i \in pending : recorded' = recorded \cup {<<f, i>>} /\ pending' = pending \ {i}
    BY <1>15 DEF Commit
  <2>2. UNCHANGED <<agentVars, looked, pos>> /\ pc = "commit" /\ pc' \in {"lane", "commit"}
        /\ (pc' = "commit" => pending' # {})
    BY <1>15 DEF Commit
  <2>3. Calm => pending \subseteq TempAt(f).good
    BY <2>2 DEF SameFileInv, CalmInOrder
  <2>4. Calm => {i} \subseteq TempAt(f)'.good
    BY <2>1, <2>2, <2>3 DEF TempAt, agentVars
  <2>5. LaneDoes(f, {}, {i})
    <3>1. {f} \X {i} = {<<f, i>>}
      OBVIOUS
    <3> QED
      BY <1>2, <1>4, <2>1, <2>2, <2>4, <3>1 DEF LaneDoes, agentVars
  <2>6. \A j \in Indices(f) : j < looked'["Wifi"] /\ OwnsChunk("Wifi", j, stride) =>
          j \in RecordedOf(f) \cup {i} \cup pending'
    BY <1>5, <2>1, <2>2
  <2>7. pc' \in LaneLabels /\ pc' \notin PushLabels \cup {"ok", "batch"}
    BY <2>2 DEF LaneLabels, PushLabels
  <2> QED
    BY <1>1, <1>2, <1>3, <1>4, <1>9, <2>1, <2>2, <2>3, <2>5, <2>6, <2>7, WifiLane DEF agentVars
<1> QED
  BY <1>10, <1>11, <1>12, <1>13, <1>14, <1>15

(***************************************************************************)
(* The requests.                                                           *)
(***************************************************************************)
\* The batch is written, or a part of it on a lossy network, or none of it.
LEMMA PushBatchStays ==
  ASSUME SameFileInv, UNCHANGED device, UNCHANGED <<network, planVars, adb, finished>>, PushBatch
  PROVE  SameFileInv'
<1>1. /\ pc = "batch" /\ pc \in LaneLabels \ Rootless
      /\ UNCHANGED <<network, stride, trusted, adb, finished, looked, pending, recorded>>
  BY DEF PushBatch, planVars, LaneLabels, Rootless
<1> PICK f \in File : AtFile = f
  BY <1>1 DEF SameFileInv, SameFileTypeOK, PlacesOK, FileLabels
<1>2. /\ looked \in [{"Adb", "Wifi"} -> Nat]
      /\ current = [path |-> current.path, acked |-> current.acked]
      /\ AtChunk \in Nat /\ pos = <<AtFile, AtChunk>>
  BY DEF SameFileInv, SameFileTypeOK, PlacesOK, AtFile, AtChunk
<1>3. pending \subseteq Indices(f) \ trusted /\ pending # {} /\ trusted # Indices(f)
  BY <1>1 DEF SameFileInv, LanesInOrder
<1>4. \A i \in Indices(f) : i < looked["Wifi"] /\ OwnsChunk("Wifi", i, stride) =>
        i \in RecordedOf(f) \cup pending
  BY <1>1 DEF SameFileInv, LanesInOrder
<1>5. active => root = "target"
  BY <1>1 DEF SameFileInv, AgentInOrder
<1>6. network = "steady" => CanWrite(f)
  BY <1>1 DEF SameFileInv, AgentInOrder, CanWrite, FileLabels, Rootless
<1>7. \/ pc' = "commit" /\ pos' = pos
      \/ \E i \in pending : pc' = "push" /\ pos' = <<f, i>>
  BY DEF PushBatch, Goto, PushFrom
<1>8. \/ WriteChunks(f, pending)
      \/ /\ network = "lossy" /\ pc' = "push"
         /\ \E i \in pending : WriteChunks(f, {j \in pending : j < i})
      \/ pc' = "push" /\ (network = "lossy" \/ ~ CanWrite(f)) /\ UNCHANGED agentVars
  BY DEF PushBatch, NotWritten, PushFrom
<1>9. /\ pc' \in {"commit", "push"} /\ pc' \in LaneLabels /\ pc' \notin {"ok", "batch"}
      /\ AtFile' = f /\ AtChunk' \in Nat /\ pos' = <<AtFile', AtChunk'>>
      /\ pc' \in PushLabels => AtChunk' \in pending
  <2>1. \A i \in pending : i \in Nat
    BY <1>3, UnitChunks
  <2>2. CASE pc' = "commit" /\ pos' = pos
    BY <1>2, <2>2 DEF AtFile, AtChunk, LaneLabels, PushLabels
  <2>3. CASE \E i \in pending : pc' = "push" /\ pos' = <<f, i>>
    BY <2>1, <2>3 DEF AtFile, AtChunk, LaneLabels, PushLabels
  <2> QED
    BY <1>7, <2>2, <2>3
<1>10. ASSUME NEW S \in SUBSET pending, WriteChunks(f, S), S = pending \/ network = "lossy"
       PROVE  SameFileInv'
  <2>1. S \in SUBSET Indices(f)
    BY <1>3
  <2>2. /\ Grown(f, S) /\ UNCHANGED <<active, root>>
        /\ current' = [path |-> current'.path, acked |-> current'.acked]
        /\ current'.path = current.path
    BY <1>5, <1>10, <2>1, AgentGrows DEF SameFileInv
  <2>3. LaneDoes(f, S, {})
    BY <1>1, <1>3, <2>2 DEF LaneDoes
  <2>4. Calm => pending \subseteq TempAt(f).good \cup S
    BY <1>10
  <2> QED
    BY <1>1, <1>2, <1>3, <1>4, <1>9, <2>2, <2>3, <2>4, WifiLane
<1>11. ASSUME network = "lossy", UNCHANGED agentVars PROVE SameFileInv'
  <2>1. LaneDoes(f, {}, {})
    BY <1>1, <1>11 DEF LaneDoes, agentVars
  <2> QED
    BY <1>1, <1>2, <1>3, <1>4, <1>9, <1>11, <2>1, WifiLane DEF agentVars
<1>12. network \in {"steady", "lossy"}
  BY DEF SameFileInv, SameFileTypeOK, PlacesOK
<1>13. ASSUME NEW i \in pending, network = "lossy", WriteChunks(f, {j \in pending : j < i})
       PROVE  SameFileInv'
  <2>1. {j \in pending : j < i} \in SUBSET pending
    OBVIOUS
  <2> QED
    BY <1>10, <1>13, <2>1
<1> QED
  BY <1>6, <1>8, <1>10, <1>11, <1>12, <1>13

\* One chunk is pushed again, or the agent is asked whether it has been written.
LEMMA PushStays ==
  ASSUME SameFileInv, UNCHANGED device, UNCHANGED <<network, planVars, adb, finished>>,
         PushStep, UNCHANGED <<looked, pending, halt, recorded>>
  PROVE  SameFileInv'
<1> USE DEF PushStep, Goto, Retry
<1>1. /\ pc \in PushLabels /\ pc \in LaneLabels /\ pc \notin Rootless
      /\ UNCHANGED <<network, stride, trusted, adb, finished, looked, pending, recorded>>
  BY DEF PushBinary, PushBase64, AskStatus, AskStat, planVars, LaneLabels, PushLabels, Rootless
<1> PICK f \in File : AtFile = f
  BY <1>1 DEF SameFileInv, SameFileTypeOK, PlacesOK, FileLabels
<1>2. /\ looked \in [{"Adb", "Wifi"} -> Nat]
      /\ current = [path |-> current.path, acked |-> current.acked]
      /\ AtChunk \in Nat /\ pos = <<AtFile, AtChunk>>
  BY DEF SameFileInv, SameFileTypeOK, PlacesOK, AtFile, AtChunk
<1>3. pending \subseteq Indices(f) \ trusted /\ AtChunk \in pending /\ trusted # Indices(f)
  BY <1>1 DEF SameFileInv, LanesInOrder
<1>4. \A i \in Indices(f) : i < looked["Wifi"] /\ OwnsChunk("Wifi", i, stride) =>
        i \in RecordedOf(f) \cup pending
  BY <1>1 DEF SameFileInv, LanesInOrder
<1>5. Calm => pending \subseteq TempAt(f).good
  BY <1>1 DEF SameFileInv, CalmInOrder
<1>6. active => root = "target"
  BY <1>1 DEF SameFileInv, AgentInOrder
<1>7. /\ pos' = pos /\ pc' \in PushLabels \cup {"failed"}
      /\ WriteChunks(f, {AtChunk}) \/ UNCHANGED agentVars
  <2>1. CASE PushBinary
    BY <2>1 DEF PushBinary, NotWritten, PushLabels
  <2>2. CASE PushBase64
    BY <2>2 DEF PushBase64, NotWritten, PushLabels
  <2>3. CASE AskStatus
    <3>1. ChunkStatus(AtFile, AtChunk) \in {"committed", "not_committed", "path_mismatch"}
      BY DEF ChunkStatus
    <3> QED
      BY <2>3, <3>1 DEF AskStatus, PushLabels
  <2>4. CASE AskStat
    BY <2>4 DEF AskStat, PushLabels
  <2> QED
    BY <2>1, <2>2, <2>3, <2>4
<1>8. /\ pc' \in LaneLabels /\ pc' \notin {"ok", "batch", "commit"}
      /\ AtFile' = f /\ AtChunk' = AtChunk /\ pos' = <<AtFile', AtChunk'>>
  BY <1>2, <1>7 DEF AtFile, AtChunk, LaneLabels, PushLabels
<1>9. CASE WriteChunks(f, {AtChunk})
  <2>1. {AtChunk} \in SUBSET Indices(f)
    BY <1>3
  <2>2. /\ Grown(f, {AtChunk}) /\ UNCHANGED <<active, root>>
        /\ current' = [path |-> current'.path, acked |-> current'.acked]
        /\ current'.path = current.path
    BY <1>6, <1>9, <2>1, AgentGrows DEF SameFileInv
  <2>3. LaneDoes(f, {AtChunk}, {})
    BY <1>1, <1>3, <2>2 DEF LaneDoes
  <2> QED
    BY <1>1, <1>2, <1>3, <1>4, <1>5, <1>8, <2>2, <2>3, WifiLane
<1>10. CASE UNCHANGED agentVars
  <2>1. LaneDoes(f, {}, {})
    BY <1>1, <1>10 DEF LaneDoes, agentVars
  <2> QED
    BY <1>1, <1>2, <1>3, <1>4, <1>5, <1>8, <1>10, <2>1, WifiLane DEF agentVars
<1> QED
  BY <1>7, <1>9, <1>10

\* All of the Wi-Fi lane.
LEMMA WifiStays ==
  ASSUME SameFileInv, UNCHANGED device, WifiStep
  PROVE  SameFileInv'
  BY CollectStays, PushBatchStays, PushStays DEF WifiStep
-----------------------------------------------------------------------------
(***************************************************************************)
(* The lanes end.                                                          *)
(***************************************************************************)
LEMMA LanesEnd ==
  ASSUME SameFileInv, UNCHANGED device, LanesGone,
         UNCHANGED <<agentVars, network, pos, recordVars>>,
         pc' \in {"idle", "complete"},
         pc' = "complete" => pc \in LaneLabels /\ Indices(AtFile) \subseteq RecordedOf(AtFile)
  PROVE  SameFileInv'
<1> USE DEF agentVars, recordVars
<1>1. FilesOK' /\ \A g : TempAt(g)' = TempAt(g) /\ FinalAt(g)' = FinalAt(g)
  BY FilesStay DEF SameFileInv, SameFileTypeOK
<1>2. \A g : Indices(g)' = Indices(g) /\ RecordedOf(g)' = RecordedOf(g)
  BY DEF Indices, RecordedOf
<1>3. RecordsOK'
  BY <1>2 DEF RecordsOK, SameFileInv, SameFileTypeOK
<1>4. AtFile' = AtFile /\ (pc' = "complete" => AtFile \in File)
  BY DEF AtFile, SameFileInv, SameFileTypeOK, PlacesOK, FileLabels
<1>5. PlacesOK'
  BY <1>4 DEF SameFileInv, SameFileTypeOK, PlacesOK, FileLabels, Rootless, LaneLabels, PushLabels,
              AtEnd, LanesGone, NothingLooked
<1>6. AgentInOrder'
  BY <1>4 DEF SameFileInv, AgentInOrder, FileLabels, Rootless, LaneLabels, PushLabels, AtEnd
<1>7. pc' \notin LaneLabels \cup {"split", "check"}
  BY DEF LaneLabels, PushLabels
<1>8. LanesInOrder'
  <2>1. pc' \in AtEnd => Indices(AtFile)' \subseteq RecordedOf(AtFile)'
    BY <1>2, <1>4 DEF AtEnd, RecordedOf, Indices
  <2> QED
    BY <1>7, <2>1 DEF LanesInOrder, LanesGone, LaneLabels, PushLabels, NothingLooked
<1>9. FilesInOrder'
  BY <1>1, <1>2, <1>7 DEF SameFileInv, FilesInOrder
<1>10. CalmInOrder'
  <2>1. \A g \in File : Kept(g)' <=> Kept(g)
    BY <1>1, <1>2 DEF Kept, Settled
  <2>2. adb' # "written" /\ pc' \notin PushLabels \cup {"commit"}
    BY <1>7 DEF LanesGone, LaneLabels
  <2> QED
    BY <2>1, <2>2 DEF SameFileInv, CalmInOrder
<1> QED
  BY <1>1, <1>3, <1>5, <1>6, <1>8, <1>9, <1>10 DEF SameFileInv, SameFileTypeOK

\* Both have gone through their chunks: all of the file is recorded.
LEMMA JoinStays ==
  ASSUME SameFileInv, UNCHANGED device, Join
  PROVE  SameFileInv'
<1>1. UNCHANGED <<agentVars, network, pos, recordVars>> /\ pc \in LaneLabels /\ LanesGone
      /\ pc' = IF pc = "ok" /\ adb = "ok" THEN "complete" ELSE "idle"
  BY DEF Join, Goto, LaneLabels
<1> PICK f \in File : f = AtFile
  BY <1>1 DEF SameFileInv, SameFileTypeOK, PlacesOK, FileLabels
<1>2. ASSUME pc = "ok", adb = "ok", NEW i \in Indices(f) PROVE i \in RecordedOf(f)
  <2>1. NextOf("Adb") = {} /\ NextOf("Wifi") = {} /\ pending = {}
    BY <1>2 DEF SameFileInv, LanesInOrder
  <2>2. OwnsChunk("Adb", i, stride) \/ OwnsChunk("Wifi", i, stride)
    BY DEF OwnsChunk
  <2>3. ASSUME NEW lane \in {"Adb", "Wifi"}, OwnsChunk(lane, i, stride), NextOf(lane) = {}
        PROVE  i < looked[lane]
    <3> DEFINE ahead == {j \in Indices(f) : j >= looked[lane] /\ OwnsChunk(lane, j, stride)}
    <3>1. looked[lane] \in Nat /\ Indices(f) \subseteq Nat
      BY UnitChunks DEF SameFileInv, SameFileTypeOK, PlacesOK
    <3>2. ASSUME i \in ahead PROVE \E j \in ahead : \A k \in ahead : j <= k
      <4>1. ahead \subseteq Nat /\ ahead # {}
        BY <3>1, <3>2
      <4> QED
        BY <4>1, LeastChunk
    <3>3. i \notin ahead
      BY <2>3, <3>2 DEF NextOf
    <3> QED
      BY <2>3, <3>1, <3>3
  <2> QED
    BY <1>1, <2>1, <2>2, <2>3 DEF SameFileInv, LanesInOrder
<1> QED
  BY <1>1, <1>2, LanesEnd

\* The desktop ends at any point.
LEMMA DesktopEndsStays ==
  ASSUME SameFileInv, UNCHANGED device, DesktopEnds
  PROVE  SameFileInv'
  BY LanesEnd DEF DesktopEnds, Goto
-----------------------------------------------------------------------------
(***************************************************************************)
(* The end of a file.                                                      *)
(***************************************************************************)
\* COMPLETE_FILE: what is under the temp name becomes the file, and all of the
\* source is in it if all is calm.
LEMMA TellCompleteStays ==
  ASSUME SameFileInv, UNCHANGED device, TellComplete
  PROVE  SameFileInv'
<1> USE DEF TellComplete, Told, Goto, Lost, planVars, laneVars, recordVars
<1>1. /\ pc = "complete" /\ pc' \in {"check", "idle"} /\ pos' = pos
      /\ UNCHANGED <<network, adb, looked, pending, recorded, finished>>
  OBVIOUS
<1> PICK f \in File : f = AtFile
  BY <1>1 DEF SameFileInv, SameFileTypeOK, PlacesOK, FileLabels, AtEnd
<1>2. AtFile' = f
  BY <1>1 DEF AtFile
<1>3. Indices(f) \subseteq RecordedOf(f) /\ pc \notin LaneLabels /\ pc' \notin LaneLabels
      /\ pc' \notin {"split"} \cup PushLabels \cup {"commit"}
      /\ adb = "off" /\ looked = NothingLooked /\ pending = {}
  BY <1>1 DEF SameFileInv, LanesInOrder, LaneLabels, PushLabels, AtEnd
<1>4. active => root = "target"
  BY <1>1 DEF SameFileInv, AgentInOrder, Rootless
<1>5. UNCHANGED memoryVars
  BY DEF CompleteFile, agentVars, memoryVars
<1>6. CompleteFile(f) \/ (UNCHANGED agentVars /\ pc' = "idle")
  OBVIOUS
<1>7. \/ /\ temp' = [temp EXCEPT ![<<"target", f>>] = Absent]
         /\ final' = [final EXCEPT ![<<"target", f>>] = temp[<<"target", f>>]]
         /\ active /\ TempAt(f).there
      \/ /\ UNCHANGED <<temp, final>>
         /\ pc' = "check" /\ active => ~ TempAt(f).there
  <2>1. ~ (current.path = f /\ FileSize[f] = 0)
    BY SameFileAssumption, ChunkingAssumption
  <2>2. CASE CompleteFile(f) /\ active /\ TempAt(f).there
    BY <1>4, <2>2 DEF CompleteFile, Here, TempAt
  <2>3. CASE CompleteFile(f) /\ ~ (active /\ TempAt(f).there)
    <3>1. ~ (active /\ temp[Here(f)].there)
      BY <1>4, <2>3 DEF Here, TempAt
    <3> QED
      BY <2>1, <2>3, <3>1 DEF CompleteFile
  <2>4. CASE UNCHANGED agentVars /\ pc' = "idle"
    BY <2>4 DEF agentVars
  <2> QED
    BY <1>6, <2>2, <2>3, <2>4
<1>8. \A g \in File : <<"target", g>> \in Place
  BY DEF Place
<1>9. \A g : Indices(g)' = Indices(g) /\ RecordedOf(g)' = RecordedOf(g)
  BY <1>1 DEF Indices, RecordedOf
<1>10. /\ \A g \in File : g # f => TempAt(g)' = TempAt(g) /\ FinalAt(g)' = FinalAt(g)
       /\ \/ /\ active /\ TempAt(f).there
             /\ TempAt(f)' = Absent /\ FinalAt(f)' = TempAt(f)
          \/ /\ TempAt(f)' = TempAt(f) /\ FinalAt(f)' = FinalAt(f)
             /\ pc' = "check" /\ active => ~ TempAt(f).there
  BY <1>7, <1>8 DEF TempAt, FinalAt, SameFileInv, SameFileTypeOK, FilesOK
<1>11. FilesOK'
  <2>1. \A g \in File : IsContent(TempAt(g)', g) /\ IsContent(FinalAt(g)', g)
    BY <1>10, AbsentIs DEF SameFileInv, SameFileTypeOK, FilesOK
  <2>2. temp' = [p \in Place |-> temp'[p]] /\ final' = [p \in Place |-> final'[p]]
    BY <1>7 DEF SameFileInv, SameFileTypeOK, FilesOK
  <2> QED
    BY <1>9, <2>1, <2>2 DEF FilesOK, IsContent
<1>12. RecordsOK'
  BY <1>1, <1>9 DEF SameFileInv, SameFileTypeOK, RecordsOK
<1>13. PlacesOK'
  BY <1>1, <1>2, <1>5 DEF SameFileInv, SameFileTypeOK, PlacesOK, FileLabels, AtEnd, Rootless,
                          memoryVars
<1>14. AgentInOrder'
  BY <1>1, <1>2, <1>5 DEF SameFileInv, AgentInOrder, FileLabels, AtEnd, Rootless, LaneLabels,
                          PushLabels, memoryVars
<1>15. LanesInOrder'
  <2>1. Indices(AtFile)' \subseteq RecordedOf(AtFile)'
    BY <1>2, <1>3, <1>9 DEF Indices, RecordedOf
  <2> QED
    BY <1>1, <1>3, <2>1 DEF LanesInOrder, LaneLabels, PushLabels, NothingLooked
<1>16. FilesInOrder'
  <2>1. \A g \in File : FinalAt(g)'.good # {} => Indices(g)' \subseteq RecordedOf(g)'
    BY <1>3, <1>9, <1>10 DEF SameFileInv, FilesInOrder
  <2>2. pc' = "check" /\ active' => ~ TempAt(AtFile)'.there
    <3>1. pc' = "check" /\ active => ~ TempAt(f)'.there
      BY <1>10, AbsentIs
    <3>2. TempAt(AtFile)' = TempAt(f)'
      BY <1>2 DEF TempAt
    <3> QED
      BY <1>5, <3>1, <3>2 DEF memoryVars
  <2> QED
    BY <1>3, <2>1, <2>2 DEF FilesInOrder
<1>17. CalmInOrder'
  <2>1. ASSUME NEW g \in File, Kept(g) PROVE Kept(g)'
    <3>1. CASE g # f
      BY <1>9, <1>10, <2>1, <3>1 DEF Kept, Settled
    <3>2. CASE g = f /\ TempAt(f)' = TempAt(f) /\ FinalAt(f)' = FinalAt(f)
      BY <1>9, <2>1, <3>2 DEF Kept, Settled
    <3>3. CASE g = f /\ TempAt(f).there /\ TempAt(f)' = Absent /\ FinalAt(f)' = TempAt(f)
      <4>1. ~ Settled(f)
        BY <3>3 DEF Settled
      <4>2. TempAt(f).good = Indices(f)
        BY <1>3, <2>1, <3>3, <4>1 DEF Kept, SameFileInv, SameFileTypeOK, FilesOK, IsContent
      <4>3. Settled(f)'
        BY <1>3, <1>9, <3>3, <4>2, AbsentIs DEF Settled
      <4> QED
        BY <3>3, <4>3 DEF Kept
    <3> QED
      BY <1>10, <3>1, <3>2, <3>3
  <2>2. adb' # "written" /\ pc' \notin PushLabels \cup {"commit"}
    BY <1>1, <1>3
  <2> QED
    BY <1>1, <2>1, <2>2 DEF SameFileInv, CalmInOrder
<1> QED
  BY <1>11, <1>12, <1>13, <1>14, <1>15, <1>16, <1>17 DEF SameFileInv, SameFileTypeOK

\* The size and the digest are compared.
LEMMA CheckFileStays ==
  ASSUME SameFileInv, UNCHANGED device, CheckFile
  PROVE  SameFileInv'
<1> USE DEF CheckFile, Goto, planVars, laneVars, recordVars, agentVars
<1>1. /\ pc = "check" /\ pc' \in {"report", "idle"} /\ pos' = pos
      /\ UNCHANGED <<active, root, current>>
      /\ UNCHANGED <<temp, final, network, adb, looked, pending, recorded, finished>>
  OBVIOUS
<1>2. PlacesOK'
  BY <1>1 DEF SameFileInv, SameFileTypeOK, PlacesOK, FileLabels, AtEnd, Rootless, AtFile
<1>3. AgentInOrder'
  BY <1>1 DEF SameFileInv, AgentInOrder, FileLabels, AtEnd, Rootless, LaneLabels, PushLabels, AtFile
<1> QED
  BY <1>1, <1>2, <1>3, OutsideStays
  DEF SameFileInv, SameFileTypeOK, RecordsOK, LaneLabels, PushLabels, AtEnd

\* All chunks of a file that is reported have been recorded by the lanes.
LEMMA ReportIs ==
  ASSUME SameFileInv, UNCHANGED device, ReportFile
  PROVE  /\ recorded' = recorded /\ finished' = finished \cup {AtFile} /\ AtFile \in File
         /\ pc = "report" /\ pc' = "file" /\ pos' = <<AtFile + 1, 0>>
         /\ UNCHANGED <<agentVars, network, planVars, laneVars>>
<1>1. AtFile \in File /\ Indices(AtFile) \subseteq RecordedOf(AtFile)
  BY DEF ReportFile, SameFileInv, SameFileTypeOK, PlacesOK, FileLabels, AtEnd, LanesInOrder
<1>2. Split(AtFile, 1) \subseteq recorded
  BY <1>1, UnitChunks DEF RecordedOf
<1> QED
  BY <1>1, <1>2 DEF ReportFile

\* The report touches neither the device nor the recorded chunks.
LEMMA ReportStays ==
  ASSUME SameFileInv, UNCHANGED device, ReportFile
  PROVE  SameFileInv'
<1> USE DEF planVars, laneVars, agentVars
<1> PICK f \in File : f = AtFile
  BY ReportIs
<1>1. /\ recorded' = recorded /\ finished' = finished \cup {f}
      /\ pc = "report" /\ pc' = "file" /\ pos' = <<f + 1, 0>>
      /\ UNCHANGED <<active, root, current>>
      /\ UNCHANGED <<temp, final, network, adb, looked, pending>>
  BY ReportIs
<1>2. pos' \in (0 .. NFiles) \X Nat
  BY <1>1, ChunkingAssumption DEF File
<1>3. PlacesOK'
  BY <1>1, <1>2 DEF SameFileInv, SameFileTypeOK, PlacesOK, FileLabels, LaneLabels, PushLabels,
                    AtEnd, Rootless
<1>4. AgentInOrder'
  BY <1>1 DEF SameFileInv, AgentInOrder, FileLabels, AtEnd, Rootless, LaneLabels, PushLabels
<1>5. finished' \subseteq File
  BY <1>1 DEF SameFileInv, SameFileTypeOK, RecordsOK
<1> QED
  BY <1>1, <1>3, <1>4, <1>5, OutsideStays DEF LaneLabels, PushLabels, AtEnd
-----------------------------------------------------------------------------
(***************************************************************************)
(* The agent's process ends, at any point, on a lossy network; or nothing  *)
(* happens.                                                                *)
(***************************************************************************)
LEMMA AgentGoesStays ==
  ASSUME SameFileInv, UNCHANGED device, AgentInOrder', PlacesOK', active' => active,
         UNCHANGED <<temp, final, network, workerVars, planVars, laneVars, recordVars>>
  PROVE  SameFileInv'
<1> USE DEF workerVars, planVars, laneVars, recordVars
<1>1. FilesOK' /\ \A g : TempAt(g)' = TempAt(g) /\ FinalAt(g)' = FinalAt(g)
  BY FilesStay DEF SameFileInv, SameFileTypeOK
<1>2. \A g : Indices(g)' = Indices(g) /\ RecordedOf(g)' = RecordedOf(g)
  BY DEF Indices, RecordedOf
<1>3. RecordsOK'
  BY <1>2 DEF RecordsOK, SameFileInv, SameFileTypeOK
<1>4. AtFile' = AtFile /\ AtChunk' = AtChunk
  BY DEF AtFile, AtChunk
<1>5. NextOf("Adb")' = NextOf("Adb") /\ NextOf("Wifi")' = NextOf("Wifi")
  BY <1>4, NextStays
<1>6. /\ Indices(AtFile)' = Indices(AtFile) /\ RecordedOf(AtFile)' = RecordedOf(AtFile)
      /\ TempAt(AtFile)' = TempAt(AtFile)
  BY <1>4 DEF Indices, RecordedOf, TempAt
<1>7. LanesInOrder'
  BY <1>4, <1>5, <1>6 DEF SameFileInv, LanesInOrder
<1>8. Settled(AtFile)' <=> Settled(AtFile)
  BY <1>4 DEF Settled, TempAt, FinalAt, RecordedOf, Indices
<1>9. FilesInOrder'
  BY <1>1, <1>2, <1>4, <1>6, <1>8 DEF SameFileInv, FilesInOrder
<1>10. CalmInOrder'
  <2>1. \A g \in File : Kept(g)' <=> Kept(g)
    BY <1>1, <1>2 DEF Kept, Settled
  <2> QED
    BY <1>5, <1>6, <2>1 DEF SameFileInv, CalmInOrder
<1> QED
  BY <1>1, <1>3, <1>7, <1>9, <1>10 DEF SameFileInv, SameFileTypeOK

\* Storage that is racy loses some of the temp file while the ADB lane is there.
LEMMA StorageCutsStays ==
  ASSUME SameFileInv, UNCHANGED device, StorageCuts
  PROVE  SameFileInv'
<1> USE DEF StorageCuts, memoryVars, workerVars, planVars, laneVars, recordVars
<1>1. pc \in LaneLabels
  BY DEF SameFileInv, LanesInOrder
<1> PICK f \in File : f = AtFile
  BY <1>1 DEF SameFileInv, SameFileTypeOK, PlacesOK, FileLabels
<1>2. PICK n \in 0 .. (TempAt(f).length - 1) :
        temp' = [temp EXCEPT ![<<"target", f>>] = Holding(n, {i \in @.good : i < n})]
  BY DEF TempAt
<1>3. TempAt(f).there /\ \A g \in File : <<"target", g>> \in Place
  BY DEF TempAt, Place
<1>4. /\ TempAt(f)' = Holding(n, {i \in TempAt(f).good : i < n})
      /\ \A g \in File : g # f => TempAt(g)' = TempAt(g)
      /\ \A g \in File : FinalAt(g)' = FinalAt(g)
  BY <1>2, <1>3 DEF TempAt, FinalAt, SameFileInv, SameFileTypeOK, FilesOK
<1>5. TempAt(f)'.there /\ IsContent(TempAt(f)', f)
  BY <1>4 DEF Holding, IsContent, SameFileInv, SameFileTypeOK, FilesOK
<1>6. \A g : Indices(g)' = Indices(g) /\ RecordedOf(g)' = RecordedOf(g)
  BY DEF Indices, RecordedOf
<1>7. FilesOK'
  <2>1. \A g \in File : IsContent(TempAt(g)', g) /\ IsContent(FinalAt(g)', g)
    BY <1>4, <1>5 DEF SameFileInv, SameFileTypeOK, FilesOK
  <2>2. temp' = [p \in Place |-> temp'[p]] /\ final' = [p \in Place |-> final'[p]]
    BY <1>2 DEF SameFileInv, SameFileTypeOK, FilesOK
  <2> QED
    BY <1>6, <2>1, <2>2 DEF FilesOK, IsContent
<1>8. RecordsOK'
  BY <1>6 DEF RecordsOK, SameFileInv, SameFileTypeOK
<1>9. AtFile' = f /\ AtChunk' = AtChunk
  BY DEF AtFile, AtChunk
<1>10. PlacesOK' /\ AgentInOrder'
  BY <1>9 DEF SameFileInv, SameFileTypeOK, PlacesOK, AgentInOrder
<1>11. NextOf("Adb")' = NextOf("Adb") /\ NextOf("Wifi")' = NextOf("Wifi")
  BY <1>9, NextStays
<1>12. Indices(AtFile)' = Indices(AtFile) /\ RecordedOf(AtFile)' = RecordedOf(AtFile)
       /\ TempAt(AtFile)' = TempAt(f)'
  BY <1>9 DEF Indices, RecordedOf, TempAt
<1>13. LanesInOrder'
  BY <1>9, <1>11, <1>12 DEF SameFileInv, LanesInOrder
<1>14. FilesInOrder'
  <2>1. \A g \in File : FinalAt(g)'.good # {} => Indices(g)' \subseteq RecordedOf(g)'
    BY <1>4, <1>6 DEF SameFileInv, FilesInOrder
  <2>2. ~ Settled(AtFile)'
    BY <1>5, <1>12 DEF Settled
  <2>3. pc' # "check"
    BY <1>1 DEF LaneLabels, PushLabels
  <2> QED
    BY <2>1, <2>2, <2>3 DEF FilesInOrder
<1>15. CalmInOrder'
  BY DEF CalmInOrder
<1> QED
  BY <1>7, <1>8, <1>10, <1>13, <1>14, <1>15 DEF SameFileInv, SameFileTypeOK

\* The first state: nothing recorded, and nothing of the source on the device.
LEMMA SameFileInitInv ==
  ASSUME SameFileInit, device.access = "granted"
  PROVE  SameFileInv
<1> USE DEF SameFileInit, PushInit
<1>1. ASSUME NEW files, files \in Leftovers(OldLengths)
      PROVE  /\ files = [p \in Place |-> files[p]]
             /\ \A f \in File : /\ IsContent(files[<<"target", f>>], f)
                                /\ files[<<"target", f>>].good = {}
  <2> DEFINE old == {Absent} \cup {Holding(n, {}) : n \in OldLengths}
  <2>1. PICK left \in [File -> old] :
          files = [p \in Place |-> IF p[1] = "target" THEN left[p[2]] ELSE Absent]
    BY <1>1 DEF Leftovers
  <2>2. \A f \in File : <<"target", f>> \in Place
    BY DEF Place
  <2>3. \A f \in File : files[<<"target", f>>] = left[f] /\ left[f] \in old
    BY <2>1, <2>2
  <2>4. ASSUME NEW f \in File, NEW content \in old
        PROVE  IsContent(content, f) /\ content.good = {}
    <3>1. CASE content = Absent
      BY <3>1, AbsentIs
    <3>2. ASSUME NEW n \in OldLengths, content = Holding(n, {})
          PROVE  IsContent(content, f) /\ content.good = {}
      BY <3>2 DEF IsContent, Holding
    <3> QED
      BY <2>4, <3>1, <3>2
  <2> HIDE DEF old
  <2> QED
    BY <2>1, <2>3, <2>4
<1>2. /\ FilesOK
      /\ \A f \in File : TempAt(f).good = {} /\ FinalAt(f).good = {}
  BY <1>1 DEF FilesOK, TempAt, FinalAt
<1>3. RecordsOK
  BY DEF RecordsOK
<1>4. pc = "idle" /\ pc \notin FileLabels /\ pc \notin LaneLabels \cup AtEnd \cup PushLabels
  BY DEF FileLabels, LaneLabels, PushLabels, AtEnd
<1>5. PlacesOK
  <2>1. NoFile = [path |-> NoFile.path, acked |-> NoFile.acked]
    BY DEF NoFile
  <2>2. network \in {"steady", "lossy"}
    BY ChunkPushAssumption
  <2>3. pos \in (0 .. NFiles) \X Nat
    BY ChunkingAssumption
  <2> QED
    BY <1>4, <2>1, <2>2, <2>3 DEF PlacesOK, Rootless, NothingLooked
<1>6. AgentInOrder
  BY <1>4 DEF AgentInOrder, Rootless
<1>7. LanesInOrder
  BY <1>4 DEF LanesInOrder
<1>8. FilesInOrder
  BY <1>2, <1>4 DEF FilesInOrder
<1>9. CalmInOrder
  BY <1>2, <1>4 DEF CalmInOrder, Kept, RecordedOf
<1> QED
  BY <1>2, <1>3, <1>5, <1>6, <1>7, <1>8, <1>9 DEF SameFileInv, SameFileTypeOK
-----------------------------------------------------------------------------
\* Every step keeps the invariant.
LEMMA SameFileNextInv ==
  ASSUME SameFileInv, [SameFileNext]_sameFileVars
  PROVE  SameFileInv'
<1>0. UNCHANGED device
  BY DEF SameFileNext, ThreadStep, OtherStep, sameFileVars
<1>1. CASE Begin
  BY <1>0, <1>1, BeginStays
<1>2. CASE MainStep
  BY <1>0, <1>2, TellStays, PlanStays, TellFileStays, RemoveStays, CheckResumeStays, SpawnLanesStays,
     JoinStays, TellCompleteStays, CheckFileStays, ReportStays DEF MainStep
<1>3. CASE AdbStep
  BY <1>0, <1>3, AdbStays
<1>4. CASE WifiStep
  BY <1>0, <1>4, WifiStays
<1>5. CASE DesktopEnds
  BY <1>0, <1>5, DesktopEndsStays
<1>6. CASE AgentGoes /\ UNCHANGED <<planVars, laneVars, recordVars>>
  <2>1. /\ UNCHANGED <<temp, final, network, workerVars, planVars, laneVars, recordVars>>
        /\ active' = FALSE /\ current' = NoFile /\ network = "lossy" /\ pc' = pc /\ pos' = pos
        /\ UNCHANGED <<adb, looked>>
    BY <1>6 DEF AgentGoes, AgentRestarts, workerVars, laneVars
  <2>2. current' = [path |-> current'.path, acked |-> current'.acked]
    BY <2>1 DEF NoFile
  <2>3. AgentInOrder'
    BY <1>0, <2>1 DEF SameFileInv, AgentInOrder
  <2>4. PlacesOK'
    BY <2>1, <2>2 DEF SameFileInv, SameFileTypeOK, PlacesOK, AtFile
  <2> QED
    BY <1>0, <2>1, <2>3, <2>4, AgentGoesStays
<1>7. CASE StorageCuts
  BY <1>7, <1>0, StorageCutsStays
<1>8. CASE UNCHANGED sameFileVars
  <2>1. /\ UNCHANGED <<temp, final, network, workerVars, planVars, laneVars, recordVars>>
        /\ UNCHANGED <<active, root, current, pc, pos, adb, looked>>
    BY <1>8 DEF sameFileVars, pushVars, agentVars, workerVars, laneVars
  <2>2. AgentInOrder'
    BY <1>0, <2>1 DEF SameFileInv, AgentInOrder, AtFile
  <2>3. PlacesOK'
    BY <2>1 DEF SameFileInv, SameFileTypeOK, PlacesOK, AtFile
  <2> QED
    BY <1>0, <2>1, <2>2, <2>3, AgentGoesStays
<1> QED
  BY <1>1, <1>2, <1>3, <1>4, <1>5, <1>6, <1>7, <1>8 DEF SameFileNext, ThreadStep, OtherStep

(***************************************************************************)
(* Which steps report a file, and which lead to its report: the checkpoint *)
(* forgets nothing in any of them.                                         *)
(***************************************************************************)
LEMMA StepsAre ==
  ASSUME SameFileInv, [SameFileNext]_sameFileVars
  PROVE  /\ recorded \subseteq recorded'
         /\ network' = network /\ device' = device
         /\ finished' = finished \/ ReportFile
         /\ pc' = "report" => CheckFile \/ (pc = "report" /\ AtFile' = AtFile)
<1>0. device' = device
  BY DEF SameFileNext, ThreadStep, OtherStep, sameFileVars
<1> USE <1>0 DEF Goto
<1>1. CASE Begin
  BY <1>1 DEF Begin, recordVars
<1>2. CASE MainStep
  <2>1. CASE TellTask \/ TellRoot \/ TellFile \/ TellComplete
    BY <2>1 DEF TellTask, TellRoot, TellFile, TellComplete, Told, recordVars
  <2>2. CASE Plan \/ AtNewFile \/ SpawnLanes
    BY <2>2 DEF Plan, AtNewFile, SpawnLanes, recordVars
  <2>3. CASE Remove \/ CheckResume
    BY <2>3 DEF Remove, CheckResume, recordVars
  <2>4. CASE Join \/ CheckFile
    BY <2>4 DEF Join, CheckFile, recordVars
  <2>5. CASE ReportFile
    BY <2>5 DEF ReportFile
  <2> QED
    BY <1>2, <2>1, <2>2, <2>3, <2>4, <2>5 DEF MainStep
<1>3. CASE AdbStep
  <2>1. recorded \subseteq recorded'
    BY <1>3 DEF AdbStep, AdbDone, AdbSkips, AdbWrites, AdbRecords
  <2> QED
    BY <1>3, <2>1 DEF AdbStep, workerVars, AtFile
<1>4. CASE WifiStep
  <2>1. recorded \subseteq recorded'
    BY <1>4 DEF WifiStep, WifiDone, PushBatch, PushedOne, Commit, WifiFails, WifiSkips, WifiTakes
  <2>2. pc' # "report"
    <3>1. CASE WifiDone \/ PushedOne \/ Commit \/ WifiFails
      BY <3>1 DEF WifiDone, PushedOne, Commit, WifiFails, PushFrom
    <3>2. CASE PushBatch
      BY <3>2 DEF PushBatch, PushFrom
    <3>3. CASE pc = "lane" /\ \E i \in Indices(AtFile) : WifiSkips(i) \/ WifiTakes(i)
      BY <3>3 DEF WifiSkips, WifiTakes, workerVars
    <3>4. CASE PushBinary \/ PushBase64 \/ AskStat
      BY <3>4 DEF PushBinary, PushBase64, AskStat, Retry
    <3>5. CASE AskStatus
      <4>1. ChunkStatus(AtFile, AtChunk) \in {"committed", "not_committed", "path_mismatch"}
        BY DEF ChunkStatus
      <4> QED
        BY <3>5, <4>1 DEF AskStatus, Retry
    <3> QED
      BY <1>4, <3>1, <3>2, <3>3, <3>4, <3>5 DEF WifiStep, PushStep
  <2> QED
    BY <1>4, <2>1, <2>2 DEF WifiStep
<1>5. CASE DesktopEnds
  BY <1>5 DEF DesktopEnds, recordVars
<1>6. CASE AgentGoes /\ UNCHANGED <<planVars, laneVars, recordVars>>
  BY <1>6 DEF AgentGoes, recordVars, workerVars, AtFile
<1>7. CASE StorageCuts
  BY <1>7 DEF StorageCuts, recordVars, workerVars, AtFile
<1>8. CASE UNCHANGED sameFileVars
  BY <1>8 DEF sameFileVars, pushVars, recordVars, workerVars, AtFile
<1> QED
  BY <1>0, <1>1, <1>2, <1>3, <1>4, <1>5, <1>6, <1>7, <1>8
  DEF SameFileNext, ThreadStep, OtherStep

(***************************************************************************)
(* Which steps touch a file: the removal, a write of a lane that has not   *)
(* been told to trust all of it, COMPLETE_FILE, and storage that loses     *)
(* some of the temp file.                                                  *)
(***************************************************************************)
LEMMA TouchesAre ==
  ASSUME SameFileInv, [SameFileNext]_sameFileVars
  PROVE  \/ UNCHANGED <<temp, final>>
         \/ Remove
         \/ /\ pc \in LaneLabels /\ trusted # Indices(AtFile) /\ final' = final
            /\ \E content : temp' = [temp EXCEPT ![<<"target", AtFile>>] = content]
         \/ TellComplete
         \/ /\ TempAt(AtFile).there /\ final' = final
            /\ \E content : temp' = [temp EXCEPT ![<<"target", AtFile>>] = content]
<1> DEFINE LaneWrites ==
      /\ pc \in LaneLabels /\ trusted # Indices(AtFile) /\ final' = final
      /\ \E content : temp' = [temp EXCEPT ![<<"target", AtFile>>] = content]
<1>1. CASE Begin
  BY <1>1 DEF Begin, agentVars
<1>2. CASE MainStep
  <2>1. CASE TellTask \/ TellRoot \/ TellFile
    BY <2>1 DEF TellTask, TellRoot, TellFile, Told, Lost, agentVars, StartTask, SetTargetRoot,
                StartFile
  <2>2. CASE Plan \/ AtNewFile \/ SpawnLanes \/ CheckResume
    BY <2>2 DEF Plan, AtNewFile, SpawnLanes, CheckResume, agentVars
  <2>3. CASE Join \/ CheckFile \/ ReportFile
    BY <2>3 DEF Join, CheckFile, ReportFile, agentVars
  <2> QED
    BY <1>2, <2>1, <2>2, <2>3 DEF MainStep
<1>3. CASE AdbStep
  <2>1. CASE AdbDone
    BY <2>1 DEF AdbDone, agentVars
  <2>2. ASSUME NEW i \in Indices(AtFile), AdbSkips(i) \/ AdbRecords(i)
        PROVE  UNCHANGED <<temp, final>>
    BY <2>2 DEF AdbSkips, AdbRecords, agentVars
  <2>3. ASSUME NEW i \in Indices(AtFile), AdbWrites(i)
        PROVE  UNCHANGED <<temp, final>> \/ LaneWrites
    <3>1. pc \in LaneLabels /\ trusted # Indices(AtFile) /\ final' = final
      BY <1>3, <2>3 DEF AdbStep, AdbWrites, SameFileInv, LanesInOrder
    <3>2. temp' = temp
          \/ temp' = [temp EXCEPT ![<<"target", AtFile>>] = Written(@, AtFile, {i})]
      BY <2>3 DEF AdbWrites
    <3> QED
      BY <3>1, <3>2
  <2> QED
    BY <1>3, <2>1, <2>2, <2>3 DEF AdbStep
<1>4. CASE WifiStep
  <2>1. CASE WifiDone \/ PushedOne \/ Commit \/ WifiFails
    BY <2>1 DEF WifiDone, PushedOne, Commit, WifiFails, agentVars
  <2>2. CASE pc = "lane" /\ \E i \in Indices(AtFile) : WifiSkips(i) \/ WifiTakes(i)
    BY <2>2 DEF WifiSkips, WifiTakes, agentVars
  <2>3. ASSUME pc \in {"batch"} \cup PushLabels, NEW S, WriteChunks(AtFile, S)
        PROVE  LaneWrites
    <3>1. pc \in LaneLabels /\ pending # {} /\ pending \subseteq Indices(AtFile) \ trusted
      BY <2>3 DEF LaneLabels, PushLabels, SameFileInv, LanesInOrder
    <3>2. root = "target"
      BY <2>3, <3>1
      DEF WriteChunks, CanWrite, SameFileInv, AgentInOrder, LaneLabels, PushLabels, Rootless
    <3>3. final' = final
          /\ temp' = [temp EXCEPT ![<<"target", AtFile>>] = Written(@, AtFile, S)]
      BY <2>3, <3>2 DEF WriteChunks, Here
    <3> QED
      BY <3>1, <3>3
  <2>4. CASE PushBatch
    <3>1. pc = "batch"
      BY <2>4 DEF PushBatch
    <3>2. (\E S : WriteChunks(AtFile, S)) \/ UNCHANGED agentVars
      BY <2>4 DEF PushBatch, NotWritten
    <3> QED
      BY <2>3, <3>1, <3>2 DEF agentVars
  <2>5. CASE PushStep
    <3>1. pc \in PushLabels
      BY <2>5 DEF PushStep, PushBinary, PushBase64, AskStatus, AskStat, PushLabels
    <3>2. WriteChunks(AtFile, {AtChunk}) \/ UNCHANGED agentVars
      BY <2>5 DEF PushStep, PushBinary, PushBase64, AskStatus, AskStat, NotWritten
    <3> QED
      BY <2>3, <3>1, <3>2 DEF agentVars
  <2> QED
    BY <1>4, <2>1, <2>2, <2>4, <2>5 DEF WifiStep
<1>5. CASE DesktopEnds
  BY <1>5 DEF DesktopEnds, agentVars
<1>6. CASE AgentGoes
  BY <1>6 DEF AgentGoes, AgentRestarts
<1>7. CASE StorageCuts
  BY <1>7 DEF StorageCuts, TempAt
<1>8. CASE UNCHANGED sameFileVars
  BY <1>8 DEF sameFileVars, pushVars, agentVars
<1> QED
  BY <1>1, <1>2, <1>3, <1>4, <1>5, <1>6, <1>7, <1>8 DEF SameFileNext, ThreadStep, OtherStep

\* A file under another name is not touched.
LEMMA OthersStay ==
  ASSUME FilesOK, NEW f \in File, NEW p, p # <<"target", f>>,
         temp' = temp \/ \E x : temp' = [temp EXCEPT ![p] = x],
         final' = final \/ \E x : final' = [final EXCEPT ![p] = x]
  PROVE  TempAt(f)' = TempAt(f) /\ FinalAt(f)' = FinalAt(f)
<1>1. <<"target", f>> \in Place
  BY DEF Place
<1> HIDE DEF Place
<1>2. temp = [q \in Place |-> temp[q]] /\ final = [q \in Place |-> final[q]]
  BY DEF FilesOK
<1>3. DOMAIN temp = Place /\ DOMAIN final = Place
  BY <1>2
<1>4. ASSUME NEW x, temp' = [temp EXCEPT ![p] = x] PROVE TempAt(f)' = TempAt(f)
  BY <1>1, <1>3, <1>4 DEF TempAt
<1>5. ASSUME NEW x, final' = [final EXCEPT ![p] = x] PROVE FinalAt(f)' = FinalAt(f)
  BY <1>1, <1>3, <1>5 DEF FinalAt
<1> QED
  BY <1>4, <1>5 DEF TempAt, FinalAt

\* A settled file is not touched again.
LEMMA SettledStays ==
  ASSUME SameFileInv, [SameFileNext]_sameFileVars, NEW f \in File, Settled(f)
  PROVE  Settled(f)' /\ FinalAt(f)' = FinalAt(f)
<1>1. FinalAt(f).good = Indices(f) /\ ~ TempAt(f).there /\ Indices(f) \subseteq RecordedOf(f)
  BY DEF Settled
<1>2. Indices(f)' = Indices(f) /\ RecordedOf(f) \subseteq RecordedOf(f)' /\ 0 \in Indices(f)
  BY StepsAre, UnitChunks DEF Indices, RecordedOf
<1>3. FilesOK
  BY DEF SameFileInv, SameFileTypeOK
<1>4. TempAt(f)' = TempAt(f) /\ FinalAt(f)' = FinalAt(f)
  <2>1. CASE UNCHANGED <<temp, final>>
    BY <2>1 DEF TempAt, FinalAt
  <2>2. CASE Remove
    <3>1. AtFile # f
      BY <1>1, <1>2, <2>2 DEF Remove
    <3>2. /\ temp' \in {temp, [temp EXCEPT ![<<"target", AtFile>>] = Absent]}
          /\ final' \in {final, [final EXCEPT ![<<"target", AtFile>>] = Absent]}
      BY <2>2 DEF Remove
    <3>3. <<"target", AtFile>> # <<"target", f>>
      BY <3>1
    <3> QED
      BY <1>3, <3>2, <3>3, OthersStay
  <2>3. ASSUME pc \in LaneLabels, trusted # Indices(AtFile), final' = final, NEW content,
               temp' = [temp EXCEPT ![<<"target", AtFile>>] = content]
        PROVE  TempAt(f)' = TempAt(f) /\ FinalAt(f)' = FinalAt(f)
    <3>1. AtFile # f
      BY <2>3 DEF SameFileInv, FilesInOrder
    <3>2. <<"target", AtFile>> # <<"target", f>>
      BY <3>1
    <3> QED
      BY <1>3, <2>3, <3>2, OthersStay
  <2>4. ASSUME TempAt(AtFile).there, final' = final, NEW content,
               temp' = [temp EXCEPT ![<<"target", AtFile>>] = content]
        PROVE  TempAt(f)' = TempAt(f) /\ FinalAt(f)' = FinalAt(f)
    <3>1. <<"target", AtFile>> # <<"target", f>>
      BY <1>1, <2>4
    <3> QED
      BY <1>3, <2>4, <3>1, OthersStay
  <2>5. CASE TellComplete
    <3>1. CASE UNCHANGED agentVars
      BY <3>1 DEF agentVars, TempAt, FinalAt
    <3>2. CASE CompleteFile(AtFile)
      <4>1. pc = "complete" /\ FileSize[f] # 0
        BY <2>5, UnitChunks DEF TellComplete, Told
      <4>2. active => root = "target"
        BY <4>1 DEF SameFileInv, AgentInOrder, Rootless
      <4>3. CASE AtFile = f
        <5>1. ~ (active /\ temp[Here(AtFile)].there)
          BY <1>1, <4>2, <4>3 DEF Here, TempAt
        <5> QED
          BY <3>2, <4>1, <4>3, <5>1 DEF CompleteFile, TempAt, FinalAt
      <4>4. CASE AtFile # f
        <5>1. <<"target", f>> # Here(AtFile)
          BY <4>4 DEF Here
        <5>2. \/ UNCHANGED <<temp, final>>
              \/ UNCHANGED temp /\ \E x : final' = [final EXCEPT ![Here(AtFile)] = x]
              \/ /\ \E x : final' = [final EXCEPT ![Here(AtFile)] = x]
                 /\ \E x : temp' = [temp EXCEPT ![Here(AtFile)] = x]
          BY <3>2 DEF CompleteFile
        <5>3. /\ temp' = temp \/ \E x : temp' = [temp EXCEPT ![Here(AtFile)] = x]
              /\ final' = final \/ \E x : final' = [final EXCEPT ![Here(AtFile)] = x]
          BY <5>2
        <5> QED
          BY <1>3, <5>1, <5>3, OthersStay
      <4> QED
        BY <4>3, <4>4
    <3> QED
      BY <2>5, <3>1, <3>2 DEF TellComplete, Told, Lost
  <2> QED
    BY <2>1, <2>2, <2>3, <2>4, <2>5, TouchesAre
<1> QED
  BY <1>1, <1>2, <1>4 DEF Settled

(***************************************************************************)
(* What is checked before the report: if all is calm that the temp file is *)
(* gone is enough, as it held what is recorded; otherwise the digest of    *)
(* all of the file says so.                                                *)
(***************************************************************************)
Conclusive == (Verify /\ ~ Sampled) \/ Calm

\* A check that is conclusive and passes has found the source.
LEMMA CheckedIsWhole ==
  ASSUME SameFileInv, Conclusive, CheckFile, pc' = "report"
  PROVE  IsWhole(AtFile) /\ AtFile \in File /\ AtFile' = AtFile
<1>1. /\ pc = "check" /\ CanRead(AtFile) /\ Readable(AtFile).length = FileSize[AtFile]
      /\ Verify => Verified(AtFile)
      /\ AtFile' = AtFile
  BY DEF CheckFile, Goto, AtFile
<1> PICK f \in File : f = AtFile
  BY <1>1 DEF SameFileInv, SameFileTypeOK, PlacesOK, FileLabels, AtEnd
<1>2. active /\ root = "target"
  BY <1>1 DEF CanRead, SameFileInv, AgentInOrder, Rootless
<1>3. ~ TempAt(f).there /\ Indices(f) \subseteq RecordedOf(f)
  BY <1>1, <1>2 DEF SameFileInv, FilesInOrder, LanesInOrder, AtEnd
<1>4. Readable(f) = FinalAt(f)
  BY <1>1, <1>2, <1>3 DEF CanRead, Readable, Here, TempAt, FinalAt
<1>5. IsContent(FinalAt(f), f) /\ IsContent(TempAt(f), f) /\ 0 \in Indices(f)
  BY UnitChunks DEF SameFileInv, SameFileTypeOK, FilesOK
<1>6. FinalAt(f).good = Indices(f)
  <2>1. CASE Verify /\ ~ Sampled
    BY <1>1, <1>4, <1>5, <2>1 DEF Verified, IsContent
  <2>2. CASE Calm
    <3>1. Kept(f)
      BY <2>2 DEF SameFileInv, CalmInOrder
    <3>2. ~ RecordedOf(f) \subseteq TempAt(f).good
      BY <1>3, <1>5 DEF IsContent
    <3> QED
      BY <3>1, <3>2 DEF Kept, Settled
  <2> QED
    BY <2>1, <2>2 DEF Conclusive
<1> QED
  BY <1>1, <1>3, <1>4, <1>5, <1>6, WholeIf DEF IsWhole, Settled

\* So what has been reported is whole.
LEMMA ReportsNext ==
  ASSUME SameFileInv, Conclusive, ReportsInOrder, [SameFileNext]_sameFileVars
  PROVE  Conclusive' /\ ReportsInOrder'
<1>1. Conclusive'
  BY StepsAre DEF Conclusive
<1>2. ASSUME NEW f \in File, IsWhole(f) PROVE IsWhole(f)'
  <2>1. Settled(f)' /\ FinalAt(f)' = FinalAt(f)
    BY <1>2, SettledStays DEF IsWhole
  <2> QED
    BY <1>2, <2>1 DEF IsWhole, Whole
<1>3. pc \in {"check", "report"} => AtFile \in File
  BY DEF SameFileInv, SameFileTypeOK, PlacesOK, FileLabels, AtEnd
<1>4. ASSUME pc' = "report" PROVE IsWhole(AtFile)'
  <2>1. IsWhole(AtFile) /\ AtFile \in File /\ AtFile' = AtFile
    BY <1>3, <1>4, CheckedIsWhole, StepsAre DEF ReportsInOrder
  <2>2. PICK f \in File : f = AtFile
    BY <2>1
  <2>3. IsWhole(f)'
    BY <1>2, <2>1, <2>2
  <2> QED
    BY <2>1, <2>2, <2>3 DEF IsWhole, Settled, FinalAt, TempAt, RecordedOf, Indices, Whole
<1>5. ASSUME NEW f \in finished' PROVE IsWhole(f)'
  <2>1. f \in finished \/ (f = AtFile /\ pc = "report")
    BY <1>5, StepsAre, ReportIs
  <2>2. f \in File /\ IsWhole(f)
    BY <1>3, <2>1 DEF ReportsInOrder, SameFileInv, SameFileTypeOK, RecordsOK
  <2> QED
    BY <1>2, <2>2
<1> QED
  BY <1>1, <1>4, <1>5 DEF ReportsInOrder
-----------------------------------------------------------------------------
(***************************************************************************)
(* The invariant holds in every state of a same-file push to a device      *)
(* whose agent may write to the target.                                    *)
(***************************************************************************)
THEOREM SameFileInvHolds == SameFileSpec => [](device.access = "granted" => SameFileInv)
<1> DEFINE Inv == device.access = "granted" => SameFileInv
<1>1. SameFileInit => Inv
  BY SameFileInitInv
<1>2. Inv /\ [SameFileNext]_sameFileVars => Inv'
  <2>1. [SameFileNext]_sameFileVars => device' = device
    BY DEF SameFileNext, ThreadStep, OtherStep, sameFileVars
  <2> QED
    BY <2>1, SameFileNextInv
<1> HIDE DEF Inv
<1>3. SameFileSpec => []Inv
  BY <1>1, <1>2, PTL DEF SameFileSpec
<1> QED
  BY <1>3 DEF Inv

\* What a lane has recorded is on the device.
LEMMA InvRecordedOnDevice ==
  ASSUME device.access = "granted" => SameFileInv
  PROVE  RecordedChunksOnDeviceIfCalm
<1> SUFFICES ASSUME Calm, NEW c \in recorded
             PROVE  c[2] \in OnDevice(c[1])
  BY DEF RecordedChunksOnDeviceIfCalm, RecordedChunksOnDevice
<1> PICK f \in File : \E i \in Indices(f) : c = <<f, i>>
  BY DEF SameFileInv, SameFileTypeOK, RecordsOK
<1>1. PICK i \in Indices(f) : c = <<f, i>>
  OBVIOUS
<1>2. Kept(f)
  BY DEF SameFileInv, CalmInOrder
<1>3. i \in RecordedOf(f)
  BY <1>1 DEF RecordedOf
<1>4. i \in TempAt(f).good \cup FinalAt(f).good
  BY <1>2, <1>3 DEF Kept, Settled
<1> QED
  BY <1>1, <1>4 DEF OnDevice, TempAt, FinalAt

(***************************************************************************)
(* If all is calm (no request lost, the root accepted, the storage keeping *)
(* what both lanes write) a recorded chunk is on the device in every       *)
(* state, so that a resume that skips it loses nothing: lane threads       *)
(* record a chunk only after dd, or the agent, has written it, whatever    *)
(* fails.                                                                  *)
(***************************************************************************)
THEOREM RecordedAreOnDevice == SameFileSpec => []RecordedChunksOnDeviceIfCalm
<1>1. (device.access = "granted" => SameFileInv) => RecordedChunksOnDeviceIfCalm
  BY InvRecordedOnDevice
<1> QED
  BY <1>1, SameFileInvHolds, PTL

(***************************************************************************)
(* If all is calm no step takes a recorded chunk off the device: not the   *)
(* removal of old files, a rewrite or COMPLETE_FILE.                       *)
(***************************************************************************)
THEOREM RecordedStay == SameFileSpec => RecordedChunksStay
<1> DEFINE Inv == device.access = "granted" => SameFileInv
<1>1. Inv => RecordedChunksOnDeviceIfCalm
  BY InvRecordedOnDevice
<1>2. Inv' => RecordedChunksOnDeviceIfCalm'
  BY <1>1, PTL
<1>3. Inv /\ [SameFileNext]_sameFileVars
        => [Calm =>
              \A c \in recorded :
                c[2] \in OnDevice(c[1]) => c[2] \in OnDevice(c[1])']_sameFileVars
  <2> SUFFICES ASSUME SameFileInv, [SameFileNext]_sameFileVars, Calm, NEW c \in recorded
               PROVE  c[2] \in OnDevice(c[1])'
    OBVIOUS
  <2>1. c \in recorded' /\ Calm'
    BY StepsAre
  <2>2. RecordedChunksOnDeviceIfCalm'
    BY <1>2, SameFileNextInv
  <2> QED
    BY <2>1, <2>2 DEF RecordedChunksOnDeviceIfCalm, RecordedChunksOnDevice, OnDevice
<1> HIDE DEF Inv
<1>4. SameFileSpec => []Inv
  BY SameFileInvHolds DEF Inv
<1> QED
  BY <1>3, <1>4, PTL DEF SameFileSpec, RecordedChunksStay

(***************************************************************************)
(* A file that is reported complete, of an agent that may write to the     *)
(* target, is whole under its final name and stays so: if the digest is    *)
(* taken of all of it, through lost requests and storage that loses what   *)
(* has been written; and whatever is verified if the network is steady and *)
(* the storage keeps what both lanes write at once.                        *)
(***************************************************************************)
THEOREM FinishedAreWhole ==
  ASSUME \/ Verify /\ ~ Sampled
         \/ Networks \subseteq {"steady"} /\ \A d \in Devices : d.storage = "consistent"
  PROVE  SameFileSpec => []FinishedFilesAreWhole
<1> DEFINE Inv == device.access = "granted" => SameFileInv
           Reported == device.access = "granted" => Conclusive /\ ReportsInOrder
<1>1. SameFileInit => Reported
  BY DEF SameFileInit, PushInit, Conclusive, ReportsInOrder
<1>2. Inv /\ Reported /\ [SameFileNext]_sameFileVars => Reported'
  <2>1. [SameFileNext]_sameFileVars => device' = device
    BY DEF SameFileNext, ThreadStep, OtherStep, sameFileVars
  <2> QED
    BY <2>1, ReportsNext
<1>3. Reported => FinishedFilesAreWhole
  <2> SUFFICES ASSUME ReportsInOrder, NEW f \in finished PROVE FinalAt(f) = Whole(f)
    BY DEF FinishedFilesAreWhole, FinalAt
  <2> QED
    BY DEF ReportsInOrder, IsWhole
<1> HIDE DEF Inv, Reported
<1>4. SameFileSpec => []Inv
  BY SameFileInvHolds DEF Inv
<1> QED
  BY <1>1, <1>2, <1>3, <1>4, PTL DEF SameFileSpec
=============================================================================

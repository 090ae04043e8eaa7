--------------------------- MODULE TransferProofs ---------------------------
(***************************************************************************)
(* What the transfers of small files and single files promise, for every   *)
(* number of files, file size, leftover, bundle limit and task: the        *)
(* invariants that Transfers states, and that it implements FileTransfer.  *)
(***************************************************************************)
EXTENDS Transfers, ChunkingProofs

USE DEF RootGiven, access

(***************************************************************************)
(* With the chunk as unit of size, a file of n > 0 chunks has the chunks   *)
(* 0 .. n - 1, and chunk i ends at i + 1.                                  *)
(***************************************************************************)
LEMMA UnitChunks ==
  ASSUME NEW f \in File
  PROVE  /\ FileSize[f] \in Nat
         /\ NumChunks(f, 1) = IF FileSize[f] = 0 THEN 1 ELSE FileSize[f]
         /\ Split(f, 1) = {f} \X (0 .. (NumChunks(f, 1) - 1))
         /\ \A i \in Nat : ChunkEnd(f, i) = IF i < FileSize[f] THEN i + 1 ELSE i
<1>1. FileSize[f] \in Nat
  BY ChunkingAssumption
<1>2. NumChunks(f, 1) = IF FileSize[f] = 0 THEN 1 ELSE FileSize[f]
  BY <1>1 DEF NumChunks, ChunkCount, AtLeastOne
<1>3. ASSUME NEW i \in Nat
      PROVE  ChunkEnd(f, i) = IF i < FileSize[f] THEN i + 1 ELSE i
  BY <1>1 DEF ChunkEnd, Offset, Length, AtLeastOne
<1> QED
  BY <1>1, <1>2, <1>3 DEF Split

\* The maximum of two numbers.
LEMMA MaxOfTwo ==
  ASSUME NEW a \in Nat, NEW b \in Nat
  PROVE  Max({a} \cup {b}) = IF a >= b THEN a ELSE b
  BY DEF Max

Content == [there : BOOLEAN, length : Nat, good : SUBSET Nat]

\* A file that holds some bytes is content.
LEMMA ContentOf ==
  ASSUME NEW n \in Nat, NEW S \in SUBSET Nat
  PROVE  /\ Holding(n, S) \in Content
         /\ Holding(n, S).there /\ Holding(n, S).length = n /\ Holding(n, S).good = S
  BY DEF Holding, Content

\* So is no file.
LEMMA AbsentIs ==
  Absent \in Content /\ ~ Absent.there /\ Absent.length = 0 /\ Absent.good = {}
  BY DEF Absent, Content

\* So is the source, all of it good.
LEMMA WholeIs ==
  ASSUME NEW f \in File
  PROVE  /\ Whole(f) \in Content
         /\ Whole(f).there /\ Whole(f).length = FileSize[f]
         /\ Whole(f).good = 0 .. (FileSize[f] - 1)
  BY ContentOf, UnitChunks DEF Whole

\* A file as long as the source and good throughout is the source.
LEMMA WholeIf ==
  ASSUME NEW f \in File, NEW content \in Content,
         content.there, content.length = FileSize[f], content.good = 0 .. (FileSize[f] - 1)
  PROVE  content = Whole(f)
  BY WholeIs DEF Content, Whole, Holding

\* write_chunk leaves a file long enough, and good where it wrote.
LEMMA WrittenIs ==
  ASSUME NEW content \in Content, NEW f \in File, NEW i \in Nat
  PROVE  LET now == Written(content, f, {i})
             end == ChunkEnd(f, i)
         IN  /\ now \in Content
             /\ now.there
             /\ now.length = IF content.length >= end THEN content.length ELSE end
             /\ now.good = content.good \cup (IF i < FileSize[f] THEN {i} ELSE {})
<1> DEFINE end  == ChunkEnd(f, i)
           more == IF i < FileSize[f] THEN {i} ELSE {}
<1>1. end \in Nat /\ end = IF i < FileSize[f] THEN i + 1 ELSE i
  BY UnitChunks
<1>2. i .. (end - 1) = more
  <2>1. CASE i < FileSize[f]
    BY <1>1, <2>1
  <2>2. CASE ~ (i < FileSize[f])
    BY <1>1, <2>2
  <2> QED
    BY <2>1, <2>2
<1>3. UNION {j .. (ChunkEnd(f, j) - 1) : j \in {i}} = more
  BY <1>2
<1>4. {ChunkEnd(f, j) : j \in {i}} = {end}
  OBVIOUS
<1>5. content.length \in Nat /\ content.good \in SUBSET Nat
  BY DEF Content
<1> DEFINE n == IF content.length >= end THEN content.length ELSE end
           S == content.good \cup more
<1>6. Written(content, f, {i}) = Holding(n, S)
  BY <1>1, <1>3, <1>4, <1>5, MaxOfTwo DEF Written
<1>7. n \in Nat /\ S \in SUBSET Nat
  BY <1>1, <1>5
<1>8. LET now == Written(content, f, {i})
      IN  now \in Content /\ now.there /\ now.length = n /\ now.good = S
  <2> HIDE DEF n, S
  <2> QED
    BY <1>6, <1>7, ContentOf
<1> QED
  BY <1>8
-----------------------------------------------------------------------------
TempAt(f) == temp[<<"target", f>>]

AgentTypeOK ==
  /\ active \in BOOLEAN
  /\ root \in {"default", "target"}
  /\ current \in [path : Nat, acked : SUBSET Nat]
  /\ temp \in [Place -> Content]
  /\ final \in [Place -> Content]

PartState == {"none", "short", "stale", "good"}

TransferTypeOK ==
  /\ AgentTypeOK
  /\ network \in {"steady", "lossy"}
  /\ task \in Tasks
  /\ pos \in Nat \X Nat
  /\ adbPos \in Nat \X Nat
  /\ recorded \subseteq Chunk
  /\ \A c \in recorded : c[2] < NumChunks(c[1], 1)
  /\ parts \in [File -> [PartIndex -> PartState]]
  /\ bundle \subseteq File
  /\ local \in Content

\* A push that has told the agent its root, and not lost it since, writes there,
\* if the agent may.
RootKnown ==
  /\ RootGiven
  /\ kind # "WifiPull" /\ active /\ pc \notin {"idle", "ok", "failed", "task", "root"} =>
       root = "target"

\* An agent that has access to the target takes it for its root.
LEMMA RootAccepted ==
  ASSUME access = "granted"
  PROVE  Answers(access) = {TRUE}
  BY DEF Answers

(***************************************************************************)
(* What the handlers of the agent do to a file at the target.              *)
(***************************************************************************)
LEMMA TargetIsPlace ==
  ASSUME NEW f \in File
  PROVE  <<"target", f>> \in Place /\ <<"default", f>> \in Place
         /\ (root = "target" => Here(f) = <<"target", f>>)
         /\ (root = "default" => Here(f) = <<"default", f>>)
  BY DEF Place, Here

\* The handlers that touch no file, and a restart, keep the types.
LEMMA HandlersKeepTypes ==
  ASSUME AgentTypeOK,
         \/ StartTask \/ (\E accepted : SetTargetRoot(accepted))
         \/ AgentRestarts \/ UNCHANGED agentVars
  PROVE  AgentTypeOK'
<1>1. NoFile \in [path : Nat, acked : SUBSET Nat]
  BY ChunkingAssumption DEF NoFile
<1> QED
  BY <1>1 DEF AgentTypeOK, StartTask, SetTargetRoot, AgentRestarts, agentVars

\* start_file keeps the types.
LEMMA StartFileKeepsTypes ==
  ASSUME AgentTypeOK, NEW f \in Nat, StartFile(f)
  PROVE  AgentTypeOK'
  BY DEF AgentTypeOK, StartFile

\* write_chunk changes the part of the one file it is told of.
LEMMA WriteAtTarget ==
  ASSUME AgentTypeOK, root = "target", NEW f \in File, NEW i \in Nat, WriteChunks(f, {i})
  PROVE  /\ AgentTypeOK'
         /\ active' = active /\ root' = root /\ final' = final
         /\ current'.path = f /\ current'.acked = current.acked \cup {i}
         /\ current.path = f
         /\ TempAt(f)' = Written(TempAt(f), f, {i})
         /\ \A p \in Place : p # <<"target", f>> => temp'[p] = temp[p]
<1>1. /\ Here(f) = <<"target", f>> /\ Here(f) \in Place
  BY TargetIsPlace
<1>2. /\ temp' = [temp EXCEPT ![Here(f)] = Written(temp[Here(f)], f, {i})]
      /\ current' = [current EXCEPT !.acked = current.acked \cup {i}]
      /\ UNCHANGED <<active, root, final>>
      /\ current.path = f
  BY DEF WriteChunks, CanWrite
<1>3. Written(temp[Here(f)], f, {i}) \in Content
  BY <1>1, WrittenIs DEF AgentTypeOK
<1>4. AgentTypeOK'
  BY <1>1, <1>2, <1>3 DEF AgentTypeOK
<1> QED
  BY <1>1, <1>2, <1>4 DEF AgentTypeOK, TempAt

\* complete_file publishes the part of the one file, or changes nothing.
LEMMA CompleteAtTarget ==
  ASSUME AgentTypeOK, active => root = "target", NEW f \in File, CompleteFile(f)
  PROVE  /\ AgentTypeOK'
         /\ UNCHANGED memoryVars
         /\ \A p \in Place : p # <<"target", f>> => temp'[p] = temp[p] /\ final'[p] = final[p]
         /\ \/ UNCHANGED <<temp, final>>
            \/ TempAt(f).there /\ FinalAt(f)' = TempAt(f) /\ TempAt(f)' = Absent
            \/ ~ TempAt(f).there /\ FileSize[f] = 0
               /\ FinalAt(f)' = Whole(f) /\ UNCHANGED temp
<1>1. CASE ~ active
  BY <1>1 DEF CompleteFile, AgentTypeOK, memoryVars
<1>2. CASE active /\ TempAt(f).there
  <2>1. /\ Here(f) = <<"target", f>> /\ Here(f) \in Place
    BY <1>2, TargetIsPlace
  <2>2. /\ final' = [final EXCEPT ![Here(f)] = temp[Here(f)]]
        /\ temp' = [temp EXCEPT ![Here(f)] = Absent]
        /\ UNCHANGED memoryVars
    BY <1>2, <2>1 DEF CompleteFile, TempAt
  <2>3. AgentTypeOK'
    BY <2>1, <2>2, AbsentIs DEF AgentTypeOK, memoryVars
  <2> QED
    BY <1>2, <2>1, <2>2, <2>3 DEF AgentTypeOK, TempAt, FinalAt
<1>3. CASE active /\ ~ TempAt(f).there
  <2>1. /\ Here(f) = <<"target", f>> /\ Here(f) \in Place
    BY <1>3, TargetIsPlace
  <2>2. /\ UNCHANGED <<temp, active, root, current>>
        /\ \/ final' = final
           \/ FileSize[f] = 0 /\ final' = [final EXCEPT ![Here(f)] = Holding(0, {})]
    BY <1>3, <2>1 DEF CompleteFile, TempAt, memoryVars
  <2>3. Holding(0, {}) \in Content /\ (FileSize[f] = 0 => Whole(f) = Holding(0, {}))
    BY ContentOf DEF Whole
  <2>4. AgentTypeOK'
    BY <2>1, <2>2, <2>3 DEF AgentTypeOK
  <2> QED
    BY <1>3, <2>1, <2>2, <2>3, <2>4 DEF AgentTypeOK, TempAt, FinalAt, memoryVars
<1> QED
  BY <1>1, <1>2, <1>3 DEF AgentTypeOK
-----------------------------------------------------------------------------
(***************************************************************************)
(* The Wi-Fi push worker.  It goes through the chunks of a file in order,  *)
(* and to a clean target it writes them in order: what is on the device    *)
(* under the temp name is the beginning of the file, without a hole, so    *)
(* that a length says which chunks are there.                              *)
(***************************************************************************)
PushLabels == {"chunk", "push", "fallback", "status", "stat", "pushed"}

PushInOrder ==
  /\ pc \in {"file", "start"} => AtChunk = 0
  /\ pc \in {"task", "root", "directories"} => pos = <<0, 0>>
  /\ pc = "file" => AtFile <= NFiles
  /\ pc \in {"start", "complete", "report", "verify"} \cup PushLabels => AtFile \in File
  /\ pc \in PushLabels =>
       /\ AtChunk <= NumChunks(AtFile, 1)
       /\ \A j \in 0 .. (AtChunk - 1) : <<AtFile, j>> \in recorded
  /\ pc \in PushLabels \ {"chunk"} => pos \notin recorded /\ AtChunk < NumChunks(AtFile, 1)
  /\ pc \in {"complete", "report"} => Checkpointed(AtFile)

Prefix(f, content) ==
  /\ content.length <= FileSize[f]
  /\ content.good = 0 .. (content.length - 1)

Landed(f, i) ==
  IF FileSize[f] = 0 THEN TempAt(f).there \/ FinalAt(f).there ELSE i \in OnDevice(f)

PushedFiles ==
  \A f \in File :
    /\ Prefix(f, TempAt(f))
    /\ FinalAt(f).there =>
         FinalAt(f) = Whole(f) /\ ~ TempAt(f).there /\ Checkpointed(f)
    /\ ~ FinalAt(f).there => FinalAt(f).good = {}
    /\ ~ temp[<<"default", f>>].there /\ ~ final[<<"default", f>>].there

PushedChunks ==
  /\ \A c \in recorded : Landed(c[1], c[2])
  /\ current.path \in File => \A i \in current.acked : Landed(current.path, i)

PushTidy == PushedFiles /\ PushedChunks /\ (pc = "pushed" => Landed(AtFile, AtChunk))

(***************************************************************************)
(* A chunk that has landed stays, and the chunk that is written lands.     *)
(***************************************************************************)
LEMMA PushedChunkIsNext ==
  ASSUME TransferTypeOK, PushInOrder, PushTidy, pc \in PushLabels \ {"chunk"}
  PROVE  /\ ~ FinalAt(AtFile).there
         /\ FileSize[AtFile] > 0 => AtChunk <= TempAt(AtFile).length /\ AtChunk < FileSize[AtFile]
         /\ FileSize[AtFile] = 0 => AtChunk = 0
<1> DEFINE f == AtFile
           i == AtChunk
<1>1. /\ f \in File /\ i \in Nat /\ pos = <<f, i>>
      /\ pos \notin recorded /\ i < NumChunks(f, 1)
      /\ \A j \in 0 .. (i - 1) : <<f, j>> \in recorded
  BY DEF PushInOrder, PushLabels, TransferTypeOK, AtFile, AtChunk
<1> HIDE DEF f, i
<1>2. /\ FileSize[f] \in Nat
      /\ NumChunks(f, 1) = IF FileSize[f] = 0 THEN 1 ELSE FileSize[f]
      /\ Split(f, 1) = {f} \X (0 .. (NumChunks(f, 1) - 1))
  BY <1>1, UnitChunks
<1>3. /\ Prefix(f, TempAt(f))
      /\ FinalAt(f).there => Checkpointed(f)
      /\ ~ FinalAt(f).there => FinalAt(f).good = {}
  BY <1>1 DEF PushTidy, PushedFiles
<1>4. ~ FinalAt(f).there
  <2>1. pos \in Split(f, 1)
    BY <1>1, <1>2
  <2> QED
    BY <1>1, <1>3, <2>1 DEF Checkpointed
<1>5. TempAt(f).length \in Nat
  BY <1>1, TargetIsPlace DEF TransferTypeOK, AgentTypeOK, Content, TempAt
<1>6. ASSUME FileSize[f] > 0, i > 0
      PROVE  i <= TempAt(f).length
  <2>1. <<f, i - 1>> \in recorded /\ FileSize[f] # 0
    BY <1>1, <1>2, <1>6
  <2>2. Landed(f, i - 1)
    BY <2>1 DEF PushTidy, PushedChunks
  <2>3. i - 1 \in OnDevice(f)
    BY <2>1, <2>2 DEF Landed
  <2>4. i - 1 \in TempAt(f).good
    BY <1>3, <1>4, <2>3 DEF OnDevice, TempAt, FinalAt
  <2> QED
    BY <1>1, <1>3, <1>5, <2>4 DEF Prefix
<1> QED
  BY <1>1, <1>2, <1>4, <1>5, <1>6 DEF f, i

\* A chunk written in turn keeps parts prefixes, and lands.
LEMMA WriteKeepsTidy ==
  ASSUME TransferTypeOK, PushInOrder, PushTidy, pc \in PushLabels \ {"chunk"},
         NEW f \in File, NEW i \in Nat, pos = <<f, i>>,
         root = "target", WriteChunks(f, {i}), UNCHANGED recorded
  PROVE  /\ PushedFiles'
         /\ \A c \in recorded' : Landed(c[1], c[2])'
         /\ current'.path = f
         /\ \A j \in current'.acked : Landed(f, j)'
         /\ Landed(f, i)'
<1>2. /\ ~ FinalAt(f).there
      /\ FileSize[f] > 0 => i <= TempAt(f).length /\ i < FileSize[f]
      /\ FileSize[f] = 0 => i = 0
  BY PushedChunkIsNext DEF AtFile, AtChunk
<1>3. /\ final' = final
      /\ current'.path = f /\ current'.acked = current.acked \cup {i} /\ current.path = f
      /\ TempAt(f)' = Written(TempAt(f), f, {i})
      /\ \A p \in Place : p # <<"target", f>> => temp'[p] = temp[p]
  BY WriteAtTarget DEF TransferTypeOK
<1>4. /\ FileSize[f] \in Nat
      /\ ChunkEnd(f, i) = IF i < FileSize[f] THEN i + 1 ELSE i
  BY UnitChunks
<1>5. TempAt(f) \in Content /\ Prefix(f, TempAt(f))
  BY TargetIsPlace DEF TransferTypeOK, AgentTypeOK, TempAt, PushTidy, PushedFiles
<1>6. /\ TempAt(f)'.there
      /\ TempAt(f)'.length
         = IF TempAt(f).length >= ChunkEnd(f, i) THEN TempAt(f).length ELSE ChunkEnd(f, i)
      /\ TempAt(f)'.good = TempAt(f).good \cup (IF i < FileSize[f] THEN {i} ELSE {})
  BY <1>3, <1>5, WrittenIs
<1>7. Prefix(f, TempAt(f)')
  <2> DEFINE old == TempAt(f)
             new == TempAt(f)'
  <2>1. /\ old.length \in Nat /\ old.length <= FileSize[f]
        /\ old.good = 0 .. (old.length - 1)
    BY <1>5 DEF Prefix, Content
  <2> HIDE DEF old, new
  <2>2. CASE FileSize[f] = 0
    <3>1. new.length = old.length /\ new.good = old.good
      BY <1>2, <1>4, <1>6, <2>1, <2>2 DEF old, new
    <3> QED
      BY <2>1, <3>1 DEF Prefix, new
  <2>3. CASE FileSize[f] > 0
    <3>1. i < FileSize[f] /\ i <= old.length /\ ChunkEnd(f, i) = i + 1
      BY <1>2, <1>4, <2>3 DEF old
    <3>2. new.length = IF old.length >= i + 1 THEN old.length ELSE i + 1
      BY <1>6, <3>1 DEF old, new
    <3>3. new.good = old.good \cup {i}
      BY <1>6, <3>1 DEF old, new
    <3>4. new.length <= FileSize[f] /\ new.good = 0 .. (new.length - 1)
      BY <1>4, <2>1, <3>1, <3>2, <3>3
    <3> QED
      BY <3>4 DEF Prefix, new
  <2> QED
    BY <1>4, <2>2, <2>3
<1>8. \A g \in File : g # f => TempAt(g)' = TempAt(g)
  BY <1>3, TargetIsPlace DEF TempAt
<1>9. \A g \in File : temp'[<<"default", g>>] = temp[<<"default", g>>]
  BY <1>3, TargetIsPlace
<1>10. \A g \in File : FinalAt(g)' = FinalAt(g)
  BY <1>3 DEF FinalAt
<1>11. PushedFiles'
  <2> SUFFICES ASSUME NEW g \in File
               PROVE  /\ Prefix(g, TempAt(g)')
                      /\ FinalAt(g)'.there =>
                           FinalAt(g)' = Whole(g) /\ ~ TempAt(g)'.there /\ Checkpointed(g)'
                      /\ ~ FinalAt(g)'.there => FinalAt(g)'.good = {}
                      /\ ~ temp'[<<"default", g>>].there /\ ~ final'[<<"default", g>>].there
    BY DEF PushedFiles, Prefix, Whole, Holding
  <2>1. /\ Prefix(g, TempAt(g))
        /\ FinalAt(g).there =>
             FinalAt(g) = Whole(g) /\ ~ TempAt(g).there /\ Checkpointed(g)
        /\ ~ FinalAt(g).there => FinalAt(g).good = {}
        /\ ~ temp[<<"default", g>>].there /\ ~ final[<<"default", g>>].there
    BY DEF PushTidy, PushedFiles
  <2>2. Checkpointed(g)' <=> Checkpointed(g)
    BY DEF Checkpointed
  <2> QED
    BY <1>2, <1>3, <1>7, <1>8, <1>9, <1>10, <2>1, <2>2
<1>12. ASSUME NEW g \in File, NEW j, Landed(g, j)
       PROVE  Landed(g, j)'
  <2>1. TempAt(g).there => TempAt(g)'.there
    BY <1>6, <1>8
  <2>2. TempAt(g).good \subseteq TempAt(g)'.good
    BY <1>6, <1>8
  <2> QED
    BY <1>10, <1>12, <2>1, <2>2 DEF Landed, OnDevice, TempAt, FinalAt
<1>13. Landed(f, i)'
  BY <1>2, <1>4, <1>6 DEF Landed, OnDevice, TempAt
<1>14. \A c \in recorded : c[1] \in File /\ Landed(c[1], c[2])
  BY DEF TransferTypeOK, Chunk, PushTidy, PushedChunks
<1>15. \A j \in current.acked : Landed(f, j)
  BY <1>3 DEF PushTidy, PushedChunks
<1> QED
  BY <1>3, <1>11, <1>12, <1>13, <1>14, <1>15

\* A file is published with all its chunks on record.
LEMMA CompleteKeepsTidy ==
  ASSUME TransferTypeOK, RootKnown, kind = "WifiPush", PushedFiles, PushedChunks,
         pc = "complete", NEW f \in File, CompleteFile(f), Checkpointed(f), UNCHANGED recorded
  PROVE  PushedFiles' /\ PushedChunks'
<1>1. active => root = "target"
  BY DEF RootKnown
<1>2. /\ current' = current
      /\ \A p \in Place : p # <<"target", f>> => temp'[p] = temp[p] /\ final'[p] = final[p]
      /\ \/ UNCHANGED <<temp, final>>
         \/ TempAt(f).there /\ FinalAt(f)' = TempAt(f) /\ TempAt(f)' = Absent
         \/ ~ TempAt(f).there /\ FileSize[f] = 0
            /\ FinalAt(f)' = Whole(f) /\ UNCHANGED temp
  BY <1>1, CompleteAtTarget DEF TransferTypeOK, memoryVars
<1>3. \A g \in File : Checkpointed(g)' <=> Checkpointed(g)
  BY DEF Checkpointed
<1>4. \A g \in File : temp'[<<"default", g>>] = temp[<<"default", g>>]
                      /\ final'[<<"default", g>>] = final[<<"default", g>>]
  BY <1>2, TargetIsPlace
<1>5. \A g \in File : g # f => TempAt(g)' = TempAt(g) /\ FinalAt(g)' = FinalAt(g)
  BY <1>2, TargetIsPlace DEF TempAt, FinalAt
<1>6. CASE UNCHANGED <<temp, final>>
  <2>1. PushedFiles'
    BY <1>3, <1>6 DEF PushedFiles, TempAt, FinalAt, Prefix, Whole, Holding
  <2>2. PushedChunks'
    BY <1>2, <1>6 DEF PushedChunks, Landed, OnDevice, TempAt, FinalAt
  <2> QED
    BY <2>1, <2>2
<1>7. CASE TempAt(f).there /\ FinalAt(f)' = TempAt(f) /\ TempAt(f)' = Absent
  <2>1. /\ Prefix(f, TempAt(f)) /\ ~ FinalAt(f).there /\ FinalAt(f).good = {}
        /\ FileSize[f] \in Nat
        /\ TempAt(f) \in Content /\ TempAt(f).length \in Nat
    BY <1>7, TargetIsPlace, UnitChunks
       DEF PushedFiles, TransferTypeOK, AgentTypeOK, TempAt, Content
  <2>2. ASSUME FileSize[f] > 0
        PROVE  FileSize[f] <= TempAt(f).length
    <3>1. <<f, FileSize[f] - 1>> \in Split(f, 1) /\ FileSize[f] # 0
      BY <2>1, <2>2, UnitChunks
    <3>2. Landed(f, FileSize[f] - 1)
      BY <3>1 DEF Checkpointed, PushedChunks
    <3>3. FileSize[f] - 1 \in TempAt(f).good
      BY <2>1, <3>1, <3>2 DEF Landed, OnDevice, TempAt, FinalAt
    <3> QED
      BY <2>1, <2>2, <3>3 DEF Prefix
  <2>3. TempAt(f).length = FileSize[f]
    BY <2>1, <2>2 DEF Prefix
  <2>4. TempAt(f) = Whole(f)
    BY <1>7, <2>1, <2>3, WholeIf DEF Prefix
  <2>5. PushedFiles'
    <3> SUFFICES ASSUME NEW g \in File
                 PROVE  /\ Prefix(g, TempAt(g)')
                        /\ FinalAt(g)'.there =>
                             FinalAt(g)' = Whole(g) /\ ~ TempAt(g)'.there /\ Checkpointed(g)'
                        /\ ~ FinalAt(g)'.there => FinalAt(g)'.good = {}
                        /\ ~ temp'[<<"default", g>>].there /\ ~ final'[<<"default", g>>].there
      BY DEF PushedFiles, Prefix, Whole, Holding
    <3>1. CASE g = f
      <4>1. Prefix(g, Absent)
        BY <2>1, <3>1, AbsentIs DEF Prefix
      <4> QED
        BY <1>3, <1>4, <1>7, <2>4, <3>1, <4>1, WholeIs, AbsentIs DEF PushedFiles
    <3>2. CASE g # f
      BY <1>3, <1>4, <1>5, <3>2 DEF PushedFiles
    <3> QED
      BY <3>1, <3>2
  <2>6. ASSUME NEW g \in File, NEW j, Landed(g, j)
        PROVE  Landed(g, j)'
    <3>1. CASE g = f
      BY <1>7, <2>1, <2>6, <3>1 DEF Landed, OnDevice, TempAt, FinalAt
    <3>2. CASE g # f
      BY <1>5, <2>6, <3>2 DEF Landed, OnDevice, TempAt, FinalAt
    <3> QED
      BY <3>1, <3>2
  <2>7. \A c \in recorded : c[1] \in File
    BY DEF TransferTypeOK, Chunk
  <2> QED
    BY <1>2, <2>5, <2>6, <2>7 DEF PushedChunks
<1>8. CASE ~ TempAt(f).there /\ FileSize[f] = 0 /\ FinalAt(f)' = Whole(f) /\ UNCHANGED temp
  <2>1. PushedFiles'
    <3> SUFFICES ASSUME NEW g \in File
                 PROVE  /\ Prefix(g, TempAt(g)')
                        /\ FinalAt(g)'.there =>
                             FinalAt(g)' = Whole(g) /\ ~ TempAt(g)'.there /\ Checkpointed(g)'
                        /\ ~ FinalAt(g)'.there => FinalAt(g)'.good = {}
                        /\ ~ temp'[<<"default", g>>].there /\ ~ final'[<<"default", g>>].there
      BY DEF PushedFiles, Prefix, Whole, Holding
    <3>1. TempAt(g)' = TempAt(g)
      BY <1>8 DEF TempAt
    <3>2. CASE g = f
      BY <1>3, <1>4, <1>8, <3>1, <3>2, WholeIs DEF PushedFiles
    <3>3. CASE g # f
      BY <1>3, <1>4, <1>5, <3>1, <3>3 DEF PushedFiles
    <3> QED
      BY <3>2, <3>3
  <2>2. ASSUME NEW g \in File, NEW j, Landed(g, j)
        PROVE  Landed(g, j)'
    <3>1. CASE g = f
      BY <1>8, <2>2, <3>1, WholeIs DEF Landed
    <3>2. CASE g # f
      BY <1>5, <2>2, <3>2 DEF Landed, OnDevice, TempAt, FinalAt
    <3> QED
      BY <3>1, <3>2
  <2>3. \A c \in recorded : c[1] \in File
    BY DEF TransferTypeOK, Chunk
  <2> QED
    BY <1>2, <2>1, <2>2, <2>3 DEF PushedChunks
<1> QED
  BY <1>2, <1>6, <1>7, <1>8

\* A step that touches no file and acknowledges nothing new.
LEMMA TidyUnlessMoved ==
  ASSUME PushedFiles, PushedChunks, UNCHANGED <<temp, final, recorded>>,
         current' = current \/ current'.acked = {}
  PROVE  PushedFiles' /\ PushedChunks'
<1>1. PushedFiles'
  BY DEF PushedFiles, TempAt, FinalAt, Prefix, Whole, Holding, Checkpointed
<1>2. \A f, i : Landed(f, i)' <=> Landed(f, i)
  BY DEF Landed, OnDevice, TempAt, FinalAt
<1> QED
  BY <1>1, <1>2 DEF PushedChunks

\* A step of the worker in which the agent takes no part.
LEMMA WithoutAgentTypes ==
  ASSUME TransferTypeOK, RootKnown,
         UNCHANGED <<agentVars, network, task, adbVars, halt, parts, user, bundle, local>>,
         pos' \in Nat \X Nat, UNCHANGED recorded,
         pc' \in {"idle", "ok", "failed"} \/ pc \notin {"idle", "ok", "failed", "task", "root"}
  PROVE  TransferTypeOK' /\ RootKnown'
<1>1. TransferTypeOK'
  BY DEF TransferTypeOK, AgentTypeOK, agentVars, adbVars, NumChunks, ChunkCount, AtLeastOne
<1>2. RootKnown'
  BY DEF RootKnown, agentVars, kind
<1> QED
  BY <1>1, <1>2

\* What the status and the length of a file on the device say is so.
LEMMA PushedIfConfirmed ==
  ASSUME TransferTypeOK, PushInOrder, PushTidy, pc \in PushLabels \ {"chunk"},
         NEW f \in File, NEW i \in Nat, pos = <<f, i>>,
         \/ ChunkStatus(f, i) = "committed"
         \/ Readable(f).there /\ Readable(f).length >= ChunkEnd(f, i)
  PROVE  Landed(f, i)
<1>1. /\ ~ FinalAt(f).there
      /\ FileSize[f] > 0 => i <= TempAt(f).length /\ i < FileSize[f]
      /\ FileSize[f] = 0 => i = 0
  BY PushedChunkIsNext DEF AtFile, AtChunk
<1>2. CASE current.path = f /\ i \in current.acked
  BY <1>2 DEF PushTidy, PushedChunks
<1>3. CASE Readable(f).there /\ Readable(f).length >= ChunkEnd(f, i)
  <2>1. root = "target" /\ Readable(f) = TempAt(f)
    <3>1. CASE root = "default"
      <4>1. ~ temp[<<"default", f>>].there /\ ~ final[<<"default", f>>].there
        BY DEF PushTidy, PushedFiles
      <4> QED
        BY <1>3, <3>1, <4>1 DEF Readable, Here
    <3>2. CASE root = "target"
      BY <1>1, <3>2 DEF Readable, Here, FinalAt, TempAt
    <3> QED
      BY <3>1, <3>2 DEF TransferTypeOK, AgentTypeOK
  <2>2. /\ FileSize[f] \in Nat
        /\ ChunkEnd(f, i) = IF i < FileSize[f] THEN i + 1 ELSE i
    BY UnitChunks
  <2>3. /\ TempAt(f).good = 0 .. (TempAt(f).length - 1)
        /\ TempAt(f).length \in Nat /\ TempAt(f).there
    BY <1>3, <2>1, TargetIsPlace
       DEF PushTidy, PushedFiles, Prefix, TransferTypeOK, AgentTypeOK, TempAt, Content
  <2>4. CASE FileSize[f] = 0
    BY <2>3, <2>4 DEF Landed
  <2>5. CASE FileSize[f] > 0
    <3>1. i + 1 <= TempAt(f).length
      BY <1>1, <1>3, <2>1, <2>2, <2>5
    <3>2. i \in TempAt(f).good
      BY <2>3, <3>1
    <3> QED
      BY <2>5, <3>2 DEF Landed, OnDevice, TempAt
  <2> QED
    BY <2>2, <2>4, <2>5
<1> QED
  BY <1>2, <1>3 DEF ChunkStatus

\* The steps of the Wi-Fi push that leave the agent alone.
LEMMA PushWithoutAgent ==
  ASSUME TransferTypeOK, RootKnown, PushInOrder, clean => PushTidy, kind = "WifiPush",
         UNCHANGED <<task, adbVars, halt, parts, user, bundle, local>>, UNCHANGED recorded,
         TellDirectories \/ WifiPushPauses \/ AtNewFile \/ AtNewChunk \/ AskStatus
           \/ AskStat \/ VerifyFile
  PROVE  TransferTypeOK' /\ RootKnown' /\ PushInOrder' /\ (clean => PushTidy')
<1> USE DEF PushLabels, AtFile, AtChunk
<1>1. /\ pos[1] \in Nat /\ pos[2] \in Nat /\ pos = <<pos[1], pos[2]>>
      /\ NFiles \in Nat
  BY ChunkingAssumption DEF TransferTypeOK
<1>2. ASSUME UNCHANGED <<agentVars, network>>, pos' \in Nat \X Nat,
             pc' \in {"idle", "ok", "failed"} \/ pc \notin {"idle", "ok", "failed", "task", "root"},
             pc' = "pushed" => pos' = pos /\ (clean => Landed(pos[1], pos[2]))
      PROVE  TransferTypeOK' /\ RootKnown' /\ (clean => PushTidy')
  <2>1. TransferTypeOK' /\ RootKnown'
    BY <1>2, WithoutAgentTypes
  <2>2. clean => PushedFiles' /\ PushedChunks'
    BY <1>2, TidyUnlessMoved DEF PushTidy, agentVars
  <2>3. clean /\ pc' = "pushed" => Landed(pos[1], pos[2])'
    BY <1>2 DEF Landed, OnDevice, TempAt, FinalAt, agentVars
  <2> QED
    BY <2>1, <2>2, <2>3 DEF PushTidy
<1>3. CASE TellDirectories
  BY <1>1, <1>2, <1>3 DEF TellDirectories, Goto, PushInOrder
<1>4. CASE WifiPushPauses
  BY <1>1, <1>2, <1>4 DEF WifiPushPauses, PcEnds, Pauses, PushInOrder
<1>5. CASE AtNewFile
  <2>1. PushInOrder'
    BY <1>1, <1>5 DEF AtNewFile, Goto, PushInOrder, File, Checkpointed
  <2> QED
    BY <1>1, <1>2, <1>5, <2>1 DEF AtNewFile, Goto
<1>6. CASE AtNewChunk
  <2>1. PushInOrder'
    <3>1. CASE pos[2] = NumChunks(pos[1], 1) /\ Goto("complete")
      <4>1. Checkpointed(pos[1])
        BY <1>1, <1>6, <3>1 DEF AtNewChunk, PushInOrder, Checkpointed, Split
      <4> QED
        BY <1>6, <3>1, <4>1 DEF AtNewChunk, Goto, PushInOrder, Checkpointed
    <3>2. CASE pos[2] # NumChunks(pos[1], 1) /\ pos \in recorded /\ NextChunk
      <4>1. /\ pos[1] \in File /\ pos[2] + 1 <= NumChunks(pos[1], 1)
            /\ pc' = "chunk" /\ pos' = <<pos[1], pos[2] + 1>>
        BY <1>1, <1>6, <3>2, UnitChunks DEF AtNewChunk, NextChunk, PushInOrder
      <4>2. \A j \in 0 .. pos[2] : <<pos[1], j>> \in recorded
        BY <1>1, <1>6, <3>2 DEF AtNewChunk, PushInOrder
      <4> QED
        BY <1>1, <4>1, <4>2 DEF PushInOrder, NumChunks
    <3>3. CASE pos[2] # NumChunks(pos[1], 1) /\ pos \notin recorded /\ Goto("push")
      BY <1>1, <1>6, <3>3, UnitChunks DEF AtNewChunk, Goto, PushInOrder, NumChunks
    <3> QED
      BY <1>6, <3>1, <3>2, <3>3 DEF AtNewChunk
  <2> QED
    BY <1>1, <1>2, <1>6, <2>1 DEF AtNewChunk, Goto, NextChunk
<1>7. CASE AskStatus \/ AskStat
  <2>1. /\ pc \in PushLabels \ {"chunk"}
        /\ UNCHANGED <<agentVars, network, pos>>
        /\ pc' \in {"pushed", "push", "stat", "failed"}
        /\ pc' = "pushed" => \/ ChunkStatus(pos[1], pos[2]) = "committed"
                             \/ /\ Readable(pos[1]).there
                                /\ Readable(pos[1]).length >= ChunkEnd(pos[1], pos[2])
    <3> DEFINE status == ChunkStatus(pos[1], pos[2])
    <3>1. status \in {"committed", "path_mismatch", "not_committed"}
      BY DEF ChunkStatus
    <3> HIDE DEF status
    <3>2. CASE AskStatus
      <4>1. UNCHANGED <<agentVars, network>> /\ pc = "status"
        BY <3>2 DEF AskStatus
      <4>2. \/ Goto("stat")
            \/ status = "committed" /\ Goto("pushed")
            \/ status = "path_mismatch" /\ Goto("failed")
            \/ status = "not_committed" /\ (Retry \/ Goto("stat"))
        BY <3>1, <3>2 DEF AskStatus, status
      <4> QED
        BY <4>1, <4>2 DEF Goto, Retry, status
    <3>3. CASE AskStat
      BY <3>3 DEF AskStat, Goto, Retry, CanRead, SizeConfirms
    <3> QED
      BY <1>7, <3>2, <3>3
  <2>2. PushInOrder'
    BY <1>1, <2>1 DEF PushInOrder, NumChunks
  <2>3. pc' = "pushed" /\ clean => Landed(pos[1], pos[2])
    <3>1. pos[1] \in File
      BY <2>1 DEF PushInOrder
    <3> QED
      BY <1>1, <2>1, <3>1, PushedIfConfirmed
  <2> QED
    BY <1>1, <1>2, <2>1, <2>2, <2>3
<1>8. CASE VerifyFile
  <2>1. PushInOrder'
    BY <1>1, <1>8 DEF VerifyFile, NextFile, Goto, PushInOrder, File
  <2> QED
    BY <1>1, <1>2, <1>8, <2>1 DEF VerifyFile, NextFile, Goto
<1> QED
  BY <1>3, <1>4, <1>5, <1>6, <1>7, <1>8

\* Its requests to the agent.
LEMMA PushWithAgent ==
  ASSUME TransferTypeOK, RootKnown, PushInOrder, clean => PushTidy, kind = "WifiPush",
         UNCHANGED <<task, adbVars, halt, parts, user, bundle, local>>, UNCHANGED recorded,
         TellTask \/ TellRoot \/ TellFile \/ TellComplete \/ PushBinary \/ PushBase64
  PROVE  TransferTypeOK' /\ RootKnown' /\ PushInOrder' /\ (clean => PushTidy')
<1>1. /\ pos[1] \in Nat /\ pos[2] \in Nat /\ pos = <<pos[1], pos[2]>>
      /\ NFiles \in Nat
  BY ChunkingAssumption DEF TransferTypeOK
<1>2. UNCHANGED <<network, pos>>
  BY DEF TellTask, TellRoot, TellFile, TellComplete, Told, PushBinary, PushBase64, Goto
<1>3. ASSUME AgentTypeOK' PROVE TransferTypeOK'
  BY <1>2, <1>3 DEF TransferTypeOK, adbVars, NumChunks, ChunkCount, AtLeastOne
<1>4. ASSUME UNCHANGED agentVars, pc' = "idle"
      PROVE  TransferTypeOK' /\ RootKnown' /\ PushInOrder' /\ (clean => PushTidy')
  <2>1. TransferTypeOK' /\ RootKnown' /\ PushInOrder'
    BY <1>3, <1>4 DEF TransferTypeOK, AgentTypeOK, agentVars, RootKnown, PushInOrder, PushLabels
  <2>2. clean => PushedFiles' /\ PushedChunks'
    BY <1>4, TidyUnlessMoved DEF PushTidy, agentVars
  <2> QED
    BY <1>4, <2>1, <2>2 DEF PushTidy
<1>5. CASE TellTask \/ TellRoot \/ TellFile
  <2>1. CASE UNCHANGED agentVars /\ pc' = "idle"
    BY <1>4, <2>1
  <2>2. CASE \/ pc = "task" /\ StartTask /\ pc' \in {"root", "idle"}
             \/ pc = "root" /\ SetTargetRoot(TRUE) /\ pc' \in {"directories", "idle"}
             \/ pc = "start" /\ StartFile(pos[1]) /\ pc' \in {"chunk", "idle"}
    <3>1. AgentTypeOK'
      BY <1>1, <2>2, HandlersKeepTypes, StartFileKeepsTypes DEF TransferTypeOK
    <3>2. RootKnown'
      <4>1. RootGiven' /\ kind' = kind
        BY DEF RootKnown, kind
      <4>2. active' /\ pc' \notin {"idle", "ok", "failed", "task", "root"} => root' = "target"
        BY <2>2 DEF RootKnown, SetTargetRoot, StartFile
      <4> QED
        BY <4>1, <4>2 DEF RootKnown
    <3>3. PushInOrder'
      <4>1. \/ pc = "task" /\ pc' \in {"root", "idle"}
            \/ pc = "root" /\ pc' \in {"directories", "idle"}
            \/ pc = "start" /\ pc' \in {"chunk", "idle"}
        BY <2>2
      <4> QED
        BY <1>1, <1>2, <4>1, UnitChunks
           DEF PushInOrder, PushLabels, AtFile, AtChunk, NumChunks, Checkpointed
    <3>4. UNCHANGED <<temp, final>> /\ (current' = current \/ current'.acked = {})
      BY <2>2 DEF StartTask, SetTargetRoot, StartFile, NoFile
    <3>5. clean => PushTidy'
      BY <2>2, <3>4, TidyUnlessMoved DEF PushTidy
    <3> QED
      BY <1>3, <3>1, <3>2, <3>3, <3>5
  <2> QED
    BY <1>5, <2>1, <2>2, RootAccepted
       DEF TellTask, TellRoot, TellFile, Told, Goto, Lost, AtFile, RootKnown
<1>6. CASE TellComplete
  <2>1. CASE UNCHANGED agentVars /\ pc' = "idle"
    BY <1>4, <2>1
  <2>2. CASE pc = "complete" /\ CompleteFile(pos[1]) /\ pc' \in {"report", "idle"}
    <3>1. pos[1] \in File /\ Checkpointed(pos[1]) /\ (active => root = "target")
      BY <2>2 DEF PushInOrder, RootKnown, AtFile
    <3>2. AgentTypeOK' /\ UNCHANGED memoryVars
      BY <2>2, <3>1, CompleteAtTarget DEF TransferTypeOK
    <3>3. RootKnown' /\ PushInOrder'
      BY <1>2, <2>2, <3>1, <3>2
         DEF RootKnown, PushInOrder, PushLabels, AtFile, AtChunk, memoryVars, kind, Checkpointed
    <3>4. clean => PushTidy'
      BY <2>2, <3>1, CompleteKeepsTidy DEF PushTidy
    <3> QED
      BY <1>3, <3>2, <3>3, <3>4
  <2> QED
    BY <1>6, <2>1, <2>2 DEF TellComplete, Told, Goto, Lost, AtFile
<1>7. CASE PushBinary \/ PushBase64
  <2>1. /\ pc \in {"push", "fallback"} /\ pc' \in {"pushed", "fallback", "status"}
        /\ \/ WriteChunks(pos[1], {pos[2]})
           \/ UNCHANGED agentVars /\ pc' # "pushed"
    BY <1>7 DEF PushBinary, PushBase64, Goto, NotWritten, AtFile, AtChunk
  <2>2. PushInOrder'
    BY <1>2, <2>1 DEF PushInOrder, PushLabels, AtFile, AtChunk, NumChunks
  <2>3. CASE UNCHANGED agentVars /\ pc' # "pushed"
    <3>1. TransferTypeOK' /\ RootKnown'
      BY <1>3, <2>1, <2>3 DEF TransferTypeOK, AgentTypeOK, agentVars, RootKnown
    <3>2. clean => PushTidy'
      BY <2>3, TidyUnlessMoved DEF PushTidy, agentVars
    <3> QED
      BY <2>2, <3>1, <3>2
  <2>4. CASE WriteChunks(pos[1], {pos[2]})
    <3>1. pos[1] \in File /\ root = "target"
      BY <2>1, <2>4 DEF PushInOrder, PushLabels, RootKnown, WriteChunks, CanWrite, AtFile
    <3>2. AgentTypeOK' /\ UNCHANGED <<active, root>>
      BY <1>1, <2>4, <3>1, WriteAtTarget DEF TransferTypeOK
    <3>3. RootKnown'
      BY <3>1, <3>2 DEF RootKnown
    <3>4. clean => PushTidy'
      <4>1. PICK f \in File, i \in Nat : pos = <<f, i>>
        BY <1>1, <3>1
      <4>2. pc \in PushLabels \ {"chunk"} /\ WriteChunks(f, {i})
        BY <2>1, <2>4, <4>1 DEF PushLabels
      <4>3. clean => /\ PushedFiles'
                     /\ \A c \in recorded' : Landed(c[1], c[2])'
                     /\ current'.path = f
                     /\ \A j \in current'.acked : Landed(f, j)'
                     /\ Landed(f, i)'
        BY <3>1, <4>1, <4>2, WriteKeepsTidy
      <4>4. ASSUME clean PROVE PushedChunks'
        BY <4>3, <4>4 DEF PushedChunks, Landed, OnDevice, TempAt, FinalAt
      <4>5. ASSUME clean PROVE Landed(AtFile, AtChunk)'
        BY <1>2, <4>1, <4>3, <4>5 DEF AtFile, AtChunk, Landed, OnDevice, TempAt, FinalAt
      <4> QED
        BY <4>3, <4>4, <4>5 DEF PushTidy
    <3> QED
      BY <1>3, <2>2, <3>2, <3>3, <3>4
  <2> QED
    BY <2>1, <2>3, <2>4
<1> QED
  BY <1>5, <1>6, <1>7

\* Its reports to the engine.
LEMMA PushReports ==
  ASSUME TransferTypeOK, RootKnown, PushInOrder, clean => PushTidy, kind = "WifiPush",
         UNCHANGED <<task, adbVars, halt, parts, user, bundle, local>>,
         ReportChunk \/ ReportFile
  PROVE  TransferTypeOK' /\ RootKnown' /\ PushInOrder' /\ (clean => PushTidy')
<1>1. /\ pos[1] \in Nat /\ pos[2] \in Nat /\ pos = <<pos[1], pos[2]>>
      /\ NFiles \in Nat /\ pos[1] \in File /\ pc \in {"pushed", "report"}
      /\ UNCHANGED <<agentVars, network>>
  BY ChunkingAssumption
     DEF TransferTypeOK, PushInOrder, PushLabels, ReportChunk, ReportFile, AtFile, AtChunk
<1>2. /\ NumChunks(pos[1], 1) \in Nat
      /\ Split(pos[1], 1) = {pos[1]} \X (0 .. (NumChunks(pos[1], 1) - 1))
  BY <1>1, UnitChunks
<1>3. ASSUME pos' \in Nat \X Nat, recorded' \subseteq Chunk,
             \A c \in recorded' : c[2] < NumChunks(c[1], 1)
      PROVE  TransferTypeOK' /\ RootKnown'
  BY <1>1, <1>3 DEF TransferTypeOK, RootKnown, AgentTypeOK, agentVars, adbVars, NumChunks,
                    ChunkCount, AtLeastOne, kind
<1>4. CASE ReportChunk
  <2>1. /\ pc = "pushed" /\ pc' = "chunk" /\ pos' = <<pos[1], pos[2] + 1>>
        /\ recorded' = recorded \cup {pos}
        /\ pos[2] < NumChunks(pos[1], 1)
        /\ \A j \in 0 .. (pos[2] - 1) : <<pos[1], j>> \in recorded
    BY <1>4 DEF ReportChunk, NextChunk, RecordChunk, AtFile, AtChunk, PushInOrder, PushLabels
  <2>2. TransferTypeOK' /\ RootKnown'
    BY <1>1, <1>3, <2>1 DEF TransferTypeOK, Chunk
  <2>3. \A j \in 0 .. pos[2] : <<pos[1], j>> \in recorded'
    BY <1>1, <2>1
  <2>4. PushInOrder'
    BY <1>1, <1>2, <2>1, <2>3 DEF PushInOrder, PushLabels, AtFile, AtChunk, NumChunks
  <2>5. ASSUME clean PROVE PushTidy'
    <3>1. \A f, i : Landed(f, i)' <=> Landed(f, i)
      BY <1>1 DEF Landed, OnDevice, TempAt, FinalAt, agentVars
    <3>2. \A f : Checkpointed(f) => Checkpointed(f)'
      BY <2>1 DEF Checkpointed
    <3>3. PushedFiles'
      BY <1>1, <2>5, <3>2
         DEF PushTidy, PushedFiles, TempAt, FinalAt, Prefix, Whole, Holding, agentVars
    <3>4. PushedChunks'
      BY <1>1, <2>1, <2>5, <3>1 DEF PushTidy, PushedChunks, AtFile, AtChunk, agentVars
    <3> QED
      BY <2>1, <3>3, <3>4 DEF PushTidy
  <2> QED
    BY <2>2, <2>4, <2>5
<1>5. CASE ReportFile
  <2>1. /\ pc = "report" /\ Checkpointed(pos[1])
        /\ \/ pc' = "verify" /\ pos' = pos
           \/ pc' = "file" /\ pos' = <<pos[1] + 1, 0>>
    BY <1>5 DEF ReportFile, NextFile, Goto, AtFile, PushInOrder
  <2>2. recorded' = recorded
    BY <1>5, <2>1 DEF ReportFile, RecordFile, Checkpointed, AtFile
  <2>3. TransferTypeOK' /\ RootKnown'
    BY <1>1, <1>3, <2>1, <2>2 DEF TransferTypeOK
  <2>4. PushInOrder'
    BY <1>1, <2>1 DEF PushInOrder, PushLabels, AtFile, AtChunk, File
  <2>5. clean => PushTidy'
    BY <1>1, <2>1, <2>2, TidyUnlessMoved DEF PushTidy, agentVars
  <2> QED
    BY <2>3, <2>4, <2>5
<1> QED
  BY <1>4, <1>5
-----------------------------------------------------------------------------
(***************************************************************************)
(* The lanes of a Dual task share out the files: each file has one owner,  *)
(* and a lane goes from a file of its own to the next one.                 *)
(***************************************************************************)
LEMMA MinIs ==
  ASSUME NEW S \in SUBSET Nat, NEW m \in S, \A x \in S : m <= x
  PROVE  Min(S) = m
<1>1. \E x \in S : \A y \in S : x <= y
  OBVIOUS
<1>2. Min(S) \in S /\ \A y \in S : Min(S) <= y
  BY <1>1 DEF Min
<1>3. m \in Nat /\ Min(S) \in Nat /\ m <= Min(S) /\ Min(S) <= m
  BY <1>2
<1> QED
  BY <1>3

\* Every file belongs to a lane.
LEMMA OneOwner ==
  ASSUME NEW f \in Nat
  PROVE  Owns("Wifi", f) \/ Owns("Adb", f)
  BY DEF Owns

\* In a Dual transfer, to one lane.
LEMMA DualOwner ==
  ASSUME NEW f \in Nat, kind = "Dual"
  PROVE  Owns("Wifi", f) <=> ~ Owns("Adb", f)
  BY DEF Owns

\* A lane starts with the first file it owns.
LEMMA FirstOwned ==
  ASSUME NEW lane \in {"Wifi", "Adb"}
  PROVE  /\ FirstFile(lane) \in Nat /\ Owns(lane, FirstFile(lane))
         /\ \A g \in Nat : g < FirstFile(lane) => ~ Owns(lane, g)
<1> DEFINE S == {f \in 0 .. (NFiles + 1) : Owns(lane, f)}
<1>1. S \in SUBSET Nat /\ NFiles \in Nat
  BY ChunkingAssumption
<1>2. CASE Owns(lane, 0)
  <2>0. 0 \in S /\ \A x \in S : 0 <= x
    BY <1>1, <1>2
  <2>1. Min(S) = 0
    BY <1>1, <2>0, MinIs
  <2>2. FirstFile(lane) = 0
    BY <2>1 DEF FirstFile
  <2> QED
    BY <1>2, <2>2
<1>3. CASE ~ Owns(lane, 0)
  <2>1. Owns(lane, 1)
    BY <1>3 DEF Owns
  <2>2. 1 \in S /\ \A x \in S : 1 <= x
    BY <1>1, <1>3, <2>1
  <2>3. Min(S) = 1
    BY <1>1, <2>2, MinIs
  <2> QED
    BY <1>3, <2>1, <2>3 DEF FirstFile
<1> QED
  BY <1>2, <1>3

\* And goes on with the next one.
LEMMA NextOwned ==
  ASSUME NEW lane \in {"Wifi", "Adb"}, NEW f \in File, Owns(lane, f)
  PROVE  /\ FileAfter(lane, f) \in Nat /\ FileAfter(lane, f) > f
         /\ Owns(lane, FileAfter(lane, f))
         /\ \A g \in Nat : f < g /\ g < FileAfter(lane, f) => ~ Owns(lane, g)
<1> DEFINE S == {g \in (f + 1) .. (NFiles + 2) : Owns(lane, g)}
<1>1. f \in Nat /\ f < NFiles /\ NFiles \in Nat /\ S \in SUBSET Nat
  BY ChunkingAssumption DEF File
<1>2. CASE Owns(lane, f + 1)
  <2>1. Min(S) = f + 1
    BY <1>1, <1>2, MinIs
  <2> QED
    BY <1>1, <1>2, <2>1 DEF FileAfter
<1>3. CASE ~ Owns(lane, f + 1)
  <2>1. Owns(lane, f + 2)
    BY <1>1, <1>3 DEF Owns
  <2>2. f + 2 \in S /\ \A x \in S : f + 2 <= x
    BY <1>1, <1>3, <2>1
  <2>3. Min(S) = f + 2
    BY <1>1, <2>2, MinIs
  <2> QED
    BY <1>1, <1>3, <2>1, <2>3 DEF FileAfter
<1> QED
  BY <1>2, <1>3
-----------------------------------------------------------------------------
(***************************************************************************)
(* The thread that calls adb.  The parts of a file up to the one it is at  *)
(* are on the device and good, so that what is put together is the file.   *)
(***************************************************************************)
AdbBusy == {"chunk", "pushed", "report", "note", "show", "verify"}

AdbInOrder ==
  /\ adb \in {"idle", "ok", "file"} \cup AdbBusy
  /\ adb = "file" => Owns("Adb", AdbFile) /\ AdbChunk = 0
  /\ adb \in AdbBusy => AdbFile \in File /\ Owns("Adb", AdbFile)
  /\ adb \in {"chunk", "pushed"} =>
       /\ AdbChunk <= NumChunks(AdbFile, 1)
       /\ \A j \in 0 .. (AdbChunk - 1) : <<AdbFile, j>> \in recorded
  /\ adb = "pushed" => AdbChunk < NumChunks(AdbFile, 1)
  /\ adb \in {"note", "show"} => kind = "Dual"

\* Where a verifying run has been, the files are whole.
BehindAdb(f) ==
  \/ /\ kind = "Dual" /\ Owns("Adb", f)
     /\ adb = "ok" \/ (adb \in {"file"} \cup AdbBusy /\ f < AdbFile)
  \/ /\ kind = "AdbPush"
     /\ adb = "ok" \/ (adb = "verify" /\ f < AdbFile)

AdbVerified == verifies => \A f \in File : BehindAdb(f) => FinalAt(f) = Whole(f)

FilesTidy ==
  \A f \in File :
    /\ FinalAt(f).there => FinalAt(f) = Whole(f)
    /\ FinalAt(f).good \subseteq 0 .. (FileSize[f] - 1)
    /\ TempAt(f).good \subseteq 0 .. (FileSize[f] - 1)

PartsTidy ==
  \A f \in File, i \in PartIndex :
    parts[f][i] # "stale" /\ (i >= NumChunks(f, 1) => parts[f][i] = "none")

AdbRecorded ==
  \A c \in recorded : Owns("Adb", c[1]) =>
    FinalAt(c[1]).there \/ parts[c[1]][c[2]] = "good"

AdbPlace ==
  /\ adb \in {"chunk", "pushed"} =>
       \A j \in 0 .. (AdbChunk - 1) : parts[AdbFile][j] = "good"
  /\ adb = "pushed" => parts[AdbFile][AdbChunk] = "good"
  /\ adb = "report" => FinalAt(AdbFile).there

AdbTidy == FilesTidy /\ PartsTidy /\ AdbRecorded /\ AdbPlace

\* The chunks of a file index its parts.
LEMMA PartOf ==
  ASSUME NEW f \in File, NEW i \in Nat, i < NumChunks(f, 1)
  PROVE  i \in PartIndex
<1>1. NumChunks(f, 1) \in Nat
  BY UnitChunks
<1> QED
  BY <1>1, AdbPushAssumption DEF PartIndex

\* Good parts for every chunk, and no other parts, make up the file.
LEMMA CatIsWhole ==
  ASSUME NEW f \in File, parts \in [File -> [PartIndex -> PartState]], PartsTidy,
         \A j \in 0 .. (NumChunks(f, 1) - 1) : parts[f][j] = "good"
  PROVE  Cat(f) = Whole(f)
<1> DEFINE there == {i \in PartIndex : parts[f][i] # "none"}
           over  == {i \in there : i >= NumChunks(f, 1)}
<1>1. /\ FileSize[f] \in Nat
      /\ NumChunks(f, 1) = IF FileSize[f] = 0 THEN 1 ELSE FileSize[f]
  BY UnitChunks
<1>2. over = {}
  BY DEF PartsTidy
<1>3. Cardinality(over) = 0
  BY <1>2, FS_EmptySet
<1>4. ASSUME FileSize[f] # 0
      PROVE  GoodParts(f) = 0 .. (FileSize[f] - 1)
  <2>1. \A j \in 0 .. (FileSize[f] - 1) : j \in PartIndex /\ parts[f][j] = "good"
    BY <1>1, <1>4, PartOf
  <2>2. \A j \in PartIndex : parts[f][j] = "good" => j \in 0 .. (FileSize[f] - 1)
    BY <1>1, <1>4, AdbPushAssumption DEF PartsTidy, PartIndex
  <2> QED
    BY <2>1, <2>2 DEF GoodParts
<1>5. (IF FileSize[f] = 0 THEN {} ELSE GoodParts(f) \ over) = 0 .. (FileSize[f] - 1)
  <2> HIDE DEF over
  <2>1. CASE FileSize[f] = 0
    BY <2>1
  <2>2. CASE FileSize[f] # 0
    BY <1>2, <1>4, <2>2
  <2> QED
    BY <2>1, <2>2
<1>6. FileSize[f] + Cardinality(over) = FileSize[f]
  BY <1>1, <1>3
<1> QED
  BY <1>5, <1>6 DEF Cat, Whole

\* The parts put together are content.
LEMMA CatIsContent ==
  ASSUME NEW f \in File
  PROVE  Cat(f) \in Content
<1> DEFINE over == {i \in {j \in PartIndex : parts[f][j] # "none"} : i >= NumChunks(f, 1)}
<1>1. PartIndex \subseteq Nat /\ IsFiniteSet(PartIndex)
  BY AdbPushAssumption, FS_Interval DEF PartIndex
<1>2. Cardinality(over) \in Nat
  BY <1>1, FS_Subset, FS_CardinalityType
<1>3. FileSize[f] + Cardinality(over) \in Nat
  BY <1>2, UnitChunks
<1>4. (IF FileSize[f] = 0 THEN {} ELSE GoodParts(f) \ over) \in SUBSET Nat
  BY <1>1 DEF GoodParts
<1> QED
  BY <1>3, <1>4, ContentOf DEF Cat

\* So is the beginning of a file.
LEMMA BeginningIs ==
  ASSUME NEW content \in Content, NEW n \in Nat
  PROVE  /\ Beginning(content, n) \in Content
         /\ Beginning(content, n).there
         /\ Beginning(content, n).good \subseteq content.good
<1> DEFINE good == {i \in content.good : i < n}
<1>1. good \in SUBSET Nat /\ good \subseteq content.good
  BY DEF Content
<1>2. Beginning(content, n) = Holding(n, good)
  BY DEF Beginning
<1> HIDE DEF good
<1>3. Holding(n, good) \in Content /\ Holding(n, good).there /\ Holding(n, good).good = good
  BY <1>1, ContentOf
<1> QED
  BY <1>1, <1>2, <1>3

\* The steps that look at the device, or at the flag, and go on.
LEMMA AdbMovesOn ==
  ASSUME TransferTypeOK, AdbInOrder, AdbVerified, clean => AdbTidy,
         kind \in {"AdbPush", "Dual"},
         UNCHANGED <<network, workerVars, task, halt, user, bundle, local>>,
         AskRemoteSize \/ AdbAllDone \/ AdbPauses \/ AdbFails \/ LockAggregate
           \/ ShowOnCard \/ AdbVerify
  PROVE  /\ TransferTypeOK' /\ AdbInOrder' /\ AdbVerified' /\ (clean => AdbTidy')
         /\ UNCHANGED <<agentVars, recorded, parts>>
<1>1. UNCHANGED <<agentVars, recorded, parts>>
  BY DEF AskRemoteSize, AdbAllDone, AdbPauses, AdbFails, LockAggregate, ShowOnCard, AdbVerify
<1>2. /\ adbPos[1] \in Nat /\ adbPos[2] \in Nat /\ adbPos = <<adbPos[1], adbPos[2]>>
      /\ NFiles \in Nat /\ NFiles > 0
  BY ChunkingAssumption, WorkerAssumption DEF TransferTypeOK, Leftover, File
<1>3. ASSUME adbPos' \in Nat \X Nat PROVE TransferTypeOK'
  BY <1>1, <1>3 DEF TransferTypeOK, AgentTypeOK, agentVars, workerVars, NumChunks,
                    ChunkCount, AtLeastOne
<1>4. ASSUME clean, adb' \notin {"chunk", "pushed", "report"} PROVE AdbTidy'
  BY <1>1, <1>4 DEF AdbTidy, FilesTidy, PartsTidy, AdbRecorded, AdbPlace, agentVars,
                    TempAt, FinalAt, Whole, Holding, Owns, kind, NumChunks
<1>v. ASSUME verifies => \A f \in File : BehindAdb(f)' => BehindAdb(f) \/ FinalAt(f) = Whole(f)
      PROVE  AdbVerified'
  <2>1. (verifies' <=> verifies) /\ \A f : FinalAt(f)' = FinalAt(f)
    BY <1>1 DEF verifies, agentVars, FinalAt
  <2> QED
    BY <1>v, <2>1 DEF AdbVerified, Whole, Holding
<1>5. CASE adb' = "idle" /\ adbPos' = <<0, 0>>
  BY <1>1, <1>3, <1>4, <1>5 DEF AdbInOrder, AdbBusy, AdbVerified, BehindAdb, kind
<1>6. CASE AskRemoteSize
  <2>1. /\ adb = "file" /\ adbPos[1] < NFiles /\ adbPos' = adbPos
        /\ \/ adb' = "chunk"
           \/ adb' = "report" /\ FinalAt(adbPos[1]).there
    BY <1>6 DEF AskRemoteSize, AdbGoto, AdbFile
  <2>2. adbPos[1] \in File /\ Owns("Adb", adbPos[1]) /\ adbPos[2] = 0
    BY <1>2, <2>1 DEF File, AdbInOrder, AdbFile, AdbChunk
  <2>3. NumChunks(adbPos[1], 1) \in Nat
    BY <2>2, UnitChunks
  <2>4. AdbInOrder'
    BY <2>1, <2>2, <2>3 DEF AdbInOrder, AdbBusy, AdbFile, AdbChunk, Owns, NumChunks, kind
  <2>5. AdbVerified'
    BY <1>v, <2>1 DEF BehindAdb, AdbBusy, AdbFile, Owns, kind
  <2>6. clean => AdbTidy'
    BY <1>1, <2>1, <2>2 DEF AdbTidy, FilesTidy, PartsTidy, AdbRecorded, AdbPlace, agentVars,
                    TempAt, FinalAt, Whole, Holding, Owns, kind, NumChunks, AdbFile, AdbChunk
  <2> QED
    BY <1>1, <1>2, <1>3, <2>1, <2>4, <2>5, <2>6
<1>7. CASE AdbAllDone
  <2>1. /\ adb = "file" /\ adbPos[1] >= NFiles /\ adbPos' = <<0, 0>>
        /\ \/ adb' = "verify" /\ kind = "AdbPush"
           \/ adb' = "ok" /\ ~ (verifies /\ kind = "AdbPush")
    BY <1>7 DEF AdbAllDone, AdbEnds, AdbFile
  <2>2. 0 \in File /\ \A f \in File : f < adbPos[1]
    BY <1>2, <2>1 DEF File
  <2>3. AdbInOrder'
    BY <2>1, <2>2 DEF AdbInOrder, AdbBusy, AdbFile, AdbChunk, Owns, kind
  <2>4. ASSUME verifies, NEW f \in File, BehindAdb(f)' PROVE BehindAdb(f)
    <3>1. f \in Nat /\ f < adbPos[1]
      BY <2>2 DEF File
    <3>2. CASE adb' = "verify" /\ kind = "AdbPush"
      BY <2>1, <2>4, <3>1, <3>2 DEF BehindAdb, kind, AdbFile
    <3>3. CASE adb' = "ok" /\ kind # "AdbPush"
      BY <2>1, <2>4, <3>1, <3>3 DEF BehindAdb, kind, AdbFile, Owns
    <3> QED
      BY <2>1, <2>4, <3>2, <3>3
  <2>5. AdbVerified'
    BY <1>v, <2>4
  <2> QED
    BY <1>1, <1>3, <1>4, <2>1, <2>3, <2>5
<1>8. CASE LockAggregate
  <2>1. adb = "note" /\ adb' = "show" /\ adbPos' = adbPos
    BY <1>8 DEF LockAggregate, AdbGoto
  <2>2. AdbInOrder'
    BY <2>1 DEF AdbInOrder, AdbBusy, AdbFile, AdbChunk, Owns, kind
  <2>3. AdbVerified'
    BY <1>v, <2>1 DEF BehindAdb, AdbBusy, AdbFile, Owns, kind
  <2> QED
    BY <1>1, <1>2, <1>3, <1>4, <2>1, <2>2, <2>3
<1>9. CASE ShowOnCard
  <2>1. /\ adb = "show" /\ adbPos[1] \in File /\ Owns("Adb", adbPos[1]) /\ kind = "Dual"
        /\ \/ adb' = "verify" /\ adbPos' = adbPos
           \/ ~ verifies /\ adb' = "file" /\ adbPos' = <<FileAfter("Adb", adbPos[1]), 0>>
    BY <1>9 DEF ShowOnCard, AdbGoto, AfterFile, AdbInOrder, AdbBusy, AdbFile
  <2>2. /\ FileAfter("Adb", adbPos[1]) \in Nat
        /\ Owns("Adb", FileAfter("Adb", adbPos[1]))
    BY <2>1, NextOwned
  <2>3. AdbInOrder'
    BY <2>1, <2>2 DEF AdbInOrder, AdbBusy, AdbFile, AdbChunk, Owns, kind
  <2>4. AdbVerified'
    BY <1>v, <2>1 DEF BehindAdb, AdbBusy, AdbFile, Owns, kind
  <2> QED
    BY <1>1, <1>2, <1>3, <1>4, <2>1, <2>2, <2>3, <2>4
<1>10. CASE AdbVerify
  <2> DEFINE next == FileAfter("Adb", adbPos[1])
  <2>1. /\ adb = "verify" /\ adbPos[1] \in File /\ Owns("Adb", adbPos[1])
        /\ FinalAt(adbPos[1]) = Whole(adbPos[1])
        /\ \/ kind = "AdbPush" /\ adbPos[1] + 1 = NFiles /\ adb' = "ok" /\ adbPos' = <<0, 0>>
           \/ kind = "AdbPush" /\ adbPos[1] + 1 # NFiles /\ adb' = "verify"
              /\ adbPos' = <<next, 0>>
           \/ kind = "Dual" /\ adb' = "file" /\ adbPos' = <<next, 0>>
    BY <1>10 DEF AdbVerify, AdbEnds, AfterFile, AdbInOrder, AdbBusy, AdbFile
  <2>2. /\ next \in Nat /\ Owns("Adb", next) /\ next > adbPos[1]
        /\ \A g \in Nat : adbPos[1] < g /\ g < next => ~ Owns("Adb", g)
    BY <2>1, NextOwned
  <2>3. kind = "AdbPush" => next = adbPos[1] + 1
    BY <1>2, <2>2 DEF Owns
  <2> HIDE DEF next
  <2>4. AdbInOrder'
    BY <1>2, <2>1, <2>2, <2>3 DEF AdbInOrder, AdbBusy, AdbFile, AdbChunk, Owns, kind, File
  <2>5. ASSUME verifies, NEW f \in File, BehindAdb(f)'
        PROVE  f = adbPos[1] \/ BehindAdb(f)
    <3>1. f \in Nat /\ f < NFiles
      BY <1>2 DEF File
    <3>2. CASE kind = "AdbPush"
      BY <1>2, <2>1, <2>3, <2>5, <3>1, <3>2 DEF BehindAdb, kind, AdbFile
    <3>3. CASE kind = "Dual"
      <4>1. Owns("Adb", f) /\ f < next
        BY <2>1, <2>5, <3>3 DEF BehindAdb, kind, AdbFile, Owns
      <4>2. f <= adbPos[1]
        BY <1>2, <2>2, <3>1, <4>1
      <4> QED
        BY <1>2, <2>1, <3>1, <3>3, <4>1, <4>2 DEF BehindAdb, AdbBusy, AdbFile
    <3> QED
      BY <3>2, <3>3
  <2>6. AdbVerified'
    BY <1>v, <2>1, <2>5
  <2> QED
    BY <1>1, <1>3, <1>4, <2>1, <2>2, <2>4, <2>6
<1> QED
  BY <1>1, <1>5, <1>6, <1>7, <1>8, <1>9, <1>10 DEF AdbPauses, AdbFails, AdbEnds

\* The steps that leave the files on the device alone.
LEMMA AdbCounts ==
  ASSUME TransferTypeOK, AdbInOrder, AdbVerified, clean => AdbTidy,
         kind \in {"AdbPush", "Dual"},
         UNCHANGED <<network, workerVars, task, halt, user, bundle, local>>,
         PushPart \/ ReportPart \/ ReportAdbFile
  PROVE  /\ TransferTypeOK' /\ AdbInOrder' /\ AdbVerified' /\ (clean => AdbTidy')
         /\ UNCHANGED agentVars
         /\ \A c \in recorded' \ recorded : Owns("Adb", c[1])
<1>1. UNCHANGED agentVars
  BY DEF PushPart, ReportPart, ReportAdbFile
<1>2. PICK f \in File, i \in Nat : adbPos = <<f, i>>
  BY DEF TransferTypeOK, AdbInOrder, AdbBusy, AdbFile, PushPart, ReportPart, ReportAdbFile
<1>3. /\ Owns("Adb", f) /\ AdbFile = f /\ AdbChunk = i
      /\ f \in Nat /\ f < NFiles /\ NFiles \in Nat /\ NumChunks(f, 1) \in Nat
  BY <1>2, UnitChunks, ChunkingAssumption
     DEF AdbInOrder, AdbBusy, AdbFile, AdbChunk, PushPart, ReportPart, ReportAdbFile, File
<1>4. ASSUME adbPos' \in Nat \X Nat, recorded' \subseteq Chunk,
             \A c \in recorded' : c[2] < NumChunks(c[1], 1),
             parts' \in [File -> [PartIndex -> PartState]]
      PROVE  TransferTypeOK'
  BY <1>1, <1>4 DEF TransferTypeOK, AgentTypeOK, agentVars, workerVars, NumChunks,
                    ChunkCount, AtLeastOne
<1>5. ASSUME verifies => \A g \in File : BehindAdb(g)' => BehindAdb(g)
      PROVE  AdbVerified'
  <2>1. (verifies' <=> verifies) /\ \A g : FinalAt(g)' = FinalAt(g)
    BY <1>1 DEF verifies, agentVars, FinalAt
  <2> QED
    BY <1>5, <2>1 DEF AdbVerified, Whole, Holding
<1>6. clean => FilesTidy'
  BY <1>1 DEF AdbTidy, FilesTidy, agentVars, TempAt, FinalAt, Whole, Holding
<1>7. CASE PushPart
  <2>1. /\ adb = "chunk" /\ i < NumChunks(f, 1) /\ i \in PartIndex
        /\ UNCHANGED recorded
        /\ \A j \in 0 .. (i - 1) : <<f, j>> \in recorded
    BY <1>2, <1>3, <1>7, PartOf DEF PushPart, AdbInOrder
  <2>2. \/ parts[f][i] \in RightLength /\ UNCHANGED parts /\ adb' = "pushed" /\ adbPos' = adbPos
        \/ /\ parts[f][i] \notin RightLength /\ parts' = [parts EXCEPT ![f][i] = "good"]
           /\ adb' = "pushed" /\ adbPos' = adbPos
        \/ /\ parts[f][i] \notin RightLength /\ adb' = "idle" /\ adbPos' = <<0, 0>>
           /\ \E state \in {"good", "short"} : parts' = [parts EXCEPT ![f][i] = state]
    BY <1>3, <1>7 DEF PushPart, SetPart, AdbGoto, AdbEnds
  <2>3. parts' \in [File -> [PartIndex -> PartState]]
    BY <2>1, <2>2 DEF TransferTypeOK, PartState
  <2>4. TransferTypeOK'
    BY <1>4, <2>1, <2>2, <2>3 DEF TransferTypeOK
  <2>5. AdbInOrder'
    BY <1>2, <1>3, <2>1, <2>2 DEF AdbInOrder, AdbBusy, AdbFile, AdbChunk, Owns, NumChunks, kind
  <2>6. AdbVerified'
    BY <1>5, <2>1, <2>2 DEF BehindAdb, AdbBusy, AdbFile, Owns, kind
  <2>7. ASSUME clean PROVE AdbTidy'
    <3>1. parts[f][i] # "stale" /\ \A j \in 0 .. (i - 1) : parts[f][j] = "good"
      BY <1>3, <2>1, <2>7 DEF AdbTidy, PartsTidy, AdbPlace
    <3>2. \A g \in File, j \in PartIndex : g # f \/ j # i => parts'[g][j] = parts[g][j]
      BY <2>1, <2>2 DEF TransferTypeOK
    <3>3. parts'[f][i] \in {"good", "short"} /\ (adb' = "pushed" => parts'[f][i] = "good")
      BY <2>1, <2>2, <3>1 DEF TransferTypeOK, RightLength
    <3>4. parts[f][i] = "good" => parts'[f][i] = "good"
      BY <2>1, <2>2, <3>1 DEF TransferTypeOK, RightLength
    <3>5. PartsTidy'
      BY <1>3, <2>1, <2>7, <3>2, <3>3 DEF AdbTidy, PartsTidy, NumChunks
    <3>6. AdbRecorded'
      <4> SUFFICES ASSUME NEW c \in recorded, Owns("Adb", c[1])
                   PROVE  FinalAt(c[1])'.there \/ parts'[c[1]][c[2]] = "good"
        BY <2>1 DEF AdbRecorded, Owns, kind
      <4>1. c[1] \in File /\ c[2] \in PartIndex
        BY PartOf DEF TransferTypeOK, Chunk
      <4>2. FinalAt(c[1]).there \/ parts[c[1]][c[2]] = "good"
        BY <2>7 DEF AdbTidy, AdbRecorded
      <4> QED
        BY <1>1, <3>2, <3>4, <4>1, <4>2 DEF FinalAt, agentVars
    <3>7. \A j \in 0 .. (i - 1) : j \in PartIndex /\ j # i /\ parts'[f][j] = "good"
      BY <2>1, <3>1, <3>2, AdbPushAssumption DEF PartIndex
    <3>8. AdbPlace'
      BY <1>2, <2>2, <3>3, <3>7 DEF AdbPlace, AdbFile, AdbChunk
    <3> QED
      BY <1>6, <2>7, <3>5, <3>6, <3>8 DEF AdbTidy
  <2> QED
    BY <1>1, <2>1, <2>4, <2>5, <2>6, <2>7
<1>8. CASE ReportPart
  <2>1. /\ adb = "pushed" /\ i < NumChunks(f, 1) /\ i \in PartIndex
        /\ recorded' = recorded \cup {<<f, i>>} /\ UNCHANGED parts
        /\ adb' = "chunk" /\ adbPos' = <<f, i + 1>>
        /\ \A j \in 0 .. (i - 1) : <<f, j>> \in recorded
    BY <1>2, <1>3, <1>8, PartOf DEF ReportPart, RecordChunk, AdbInOrder
  <2>2. TransferTypeOK'
    <3>1. <<f, i>> \in Chunk
      BY DEF Chunk
    <3>2. recorded' \subseteq Chunk /\ \A c \in recorded' : c[2] < NumChunks(c[1], 1)
      BY <2>1, <3>1 DEF TransferTypeOK
    <3>3. adbPos' \in Nat \X Nat /\ parts' \in [File -> [PartIndex -> PartState]]
      BY <1>3, <2>1 DEF TransferTypeOK
    <3> QED
      BY <1>4, <3>2, <3>3
  <2>3. \A j \in 0 .. i : <<f, j>> \in recorded'
    BY <2>1
  <2>4. AdbInOrder'
    BY <1>2, <1>3, <2>1, <2>3
       DEF AdbInOrder, AdbBusy, AdbFile, AdbChunk, Owns, NumChunks, kind
  <2>5. AdbVerified'
    BY <1>2, <1>5, <2>1 DEF BehindAdb, AdbBusy, AdbFile, Owns, kind
  <2>6. ASSUME clean PROVE AdbTidy'
    <3>1. parts[f][i] = "good" /\ \A j \in 0 .. (i - 1) : parts[f][j] = "good"
      BY <1>3, <2>1, <2>6 DEF AdbTidy, AdbPlace
    <3>2. PartsTidy'
      BY <2>1, <2>6 DEF AdbTidy, PartsTidy, NumChunks
    <3>3. AdbRecorded'
      BY <1>1, <2>1, <2>6, <3>1 DEF AdbTidy, AdbRecorded, Owns, kind, FinalAt, agentVars
    <3>4. \A j \in 0 .. i : parts'[f][j] = "good"
      BY <2>1, <3>1
    <3>5. AdbPlace'
      BY <2>1, <3>4 DEF AdbPlace, AdbFile, AdbChunk
    <3> QED
      BY <1>6, <2>6, <3>2, <3>3, <3>5 DEF AdbTidy
  <2> QED
    BY <1>1, <1>3, <2>1, <2>2, <2>4, <2>5, <2>6
<1>9. CASE ReportAdbFile
  <2>1. /\ adb = "report" /\ recorded' = recorded \cup Split(f, 1) /\ UNCHANGED parts
        /\ \/ kind = "Dual" /\ adb' = "note" /\ adbPos' = adbPos
           \/ kind = "AdbPush" /\ adb' = "file" /\ adbPos' = <<FileAfter("Adb", f), 0>>
    BY <1>3, <1>9 DEF ReportAdbFile, RecordFile, AdbGoto, AfterFile
  <2>2. FileAfter("Adb", f) \in Nat /\ Owns("Adb", FileAfter("Adb", f))
    BY <1>3, NextOwned
  <2>3. Split(f, 1) \subseteq Chunk /\ \A c \in Split(f, 1) : c[1] = f /\ c[2] < NumChunks(f, 1)
    BY <1>3, UnitChunks DEF Chunk
  <2>4. TransferTypeOK'
    BY <1>4, <2>1, <2>2, <2>3 DEF TransferTypeOK
  <2>5. AdbInOrder'
    BY <1>2, <1>3, <2>1, <2>2 DEF AdbInOrder, AdbBusy, AdbFile, AdbChunk, Owns, kind
  <2>6. AdbVerified'
    BY <1>2, <1>5, <2>1 DEF BehindAdb, AdbBusy, AdbFile, Owns, kind
  <2>7. ASSUME clean PROVE AdbTidy'
    <3>1. FinalAt(f).there
      BY <1>3, <2>1, <2>7 DEF AdbTidy, AdbPlace
    <3>2. PartsTidy'
      BY <2>1, <2>7 DEF AdbTidy, PartsTidy, NumChunks
    <3>3. AdbRecorded'
      BY <1>1, <2>1, <2>3, <2>7, <3>1 DEF AdbTidy, AdbRecorded, Owns, kind, FinalAt, agentVars
    <3>4. AdbPlace'
      BY <2>1 DEF AdbPlace
    <3> QED
      BY <1>6, <2>7, <3>2, <3>3, <3>4 DEF AdbTidy
  <2> QED
    BY <1>1, <1>3, <2>1, <2>3, <2>4, <2>5, <2>6, <2>7
<1> QED
  BY <1>7, <1>8, <1>9

\* The script: what it publishes is the whole file, and only this one changes.
LEMMA AdbAssembles ==
  ASSUME TransferTypeOK, AdbInOrder, AdbVerified, clean => AdbTidy,
         kind \in {"AdbPush", "Dual"},
         UNCHANGED <<network, workerVars, task, halt, user, bundle, local>>,
         AssembleStops \/ Assemble
  PROVE  /\ TransferTypeOK' /\ AdbInOrder' /\ AdbVerified' /\ (clean => AdbTidy')
         /\ UNCHANGED <<memoryVars, recorded>>
         /\ \A g \in File : ~ Owns("Adb", g) => FinalAt(g)' = FinalAt(g)
<1>1. /\ adb = "chunk" /\ UNCHANGED <<memoryVars, recorded>>
      /\ AdbChunk = NumChunks(AdbFile, 1)
  BY DEF AssembleStops, Assemble, Assembling
<1>2. PICK f \in File, i \in Nat : adbPos = <<f, i>>
  BY <1>1 DEF TransferTypeOK, AdbInOrder, AdbBusy, AdbFile
<1>3. /\ Owns("Adb", f) /\ AdbFile = f /\ i = NumChunks(f, 1)
      /\ <<"target", f>> \in Place /\ FileSize[f] \in Nat
  BY <1>1, <1>2, UnitChunks DEF AdbInOrder, AdbBusy, AdbFile, AdbChunk, Place
<1>4. ASSUME temp' \in [Place -> Content], final' \in [Place -> Content],
             parts' \in [File -> [PartIndex -> PartState]], adbPos' \in Nat \X Nat
      PROVE  TransferTypeOK'
  BY <1>1, <1>4 DEF TransferTypeOK, AgentTypeOK, memoryVars, workerVars, NumChunks,
                    ChunkCount, AtLeastOne
<1>5. clean => Cat(f) = Whole(f)
  BY <1>1, <1>2, <1>3, CatIsWhole DEF TransferTypeOK, AdbTidy, AdbPlace, AdbFile, AdbChunk
<1>6. Cat(f) \in Content
  BY CatIsContent
<1>7. ASSUME NEW g \in File, BehindAdb(g)'
      PROVE  g # f /\ BehindAdb(g)
  <2>1. \/ adb' = "idle"
        \/ adb' = "report" /\ adbPos' = adbPos
    BY DEF AssembleStops, Assemble, AdbGoto, AdbEnds
  <2>2. g \in Nat /\ f \in Nat
    BY DEF File
  <2> QED
    BY <1>1, <1>2, <1>7, <2>1, <2>2 DEF BehindAdb, AdbBusy, AdbFile, kind, Owns
<1>8. ASSUME \A g \in File : g # f => FinalAt(g)' = FinalAt(g)
      PROVE  AdbVerified'
  <2>1. verifies' <=> verifies
    BY DEF verifies
  <2> QED
    BY <1>7, <1>8, <2>1 DEF AdbVerified, Whole, Holding
<1>9. CASE AssembleStops
  <2>1. PICK n \in 0 .. Cat(f).length : temp' = [temp EXCEPT ![<<"target", f>>] = Beginning(Cat(f), n)]
    BY <1>3, <1>9 DEF AssembleStops, TempBecomes
  <2>2. /\ UNCHANGED <<final, parts>> /\ adb' = "idle" /\ adbPos' = <<0, 0>>
    BY <1>9 DEF AssembleStops, AdbEnds
  <2>3. /\ Beginning(Cat(f), n) \in Content
        /\ Beginning(Cat(f), n).good \subseteq Cat(f).good
    BY <1>6, <2>1, BeginningIs DEF Content
  <2>4. TransferTypeOK'
    BY <1>3, <1>4, <2>1, <2>2, <2>3 DEF TransferTypeOK, AgentTypeOK
  <2>5. AdbInOrder'
    BY <2>2 DEF AdbInOrder, AdbBusy
  <2>6. \A g \in File : FinalAt(g)' = FinalAt(g)
    BY <2>2 DEF FinalAt
  <2>7. ASSUME clean PROVE AdbTidy'
    <3>1. \A g \in File : TempAt(g)' = IF g = f THEN Beginning(Cat(f), n) ELSE TempAt(g)
      BY <1>3, <2>1 DEF TempAt, TransferTypeOK, AgentTypeOK, Place
    <3>2. FilesTidy'
      <4>1. Beginning(Cat(f), n).good \subseteq 0 .. (FileSize[f] - 1)
        BY <1>5, <2>3, <2>7, WholeIs
      <4> QED
        BY <2>6, <2>7, <3>1, <4>1 DEF AdbTidy, FilesTidy, Whole, Holding
    <3>3. PartsTidy' /\ AdbPlace'
      BY <2>2, <2>7 DEF AdbTidy, PartsTidy, NumChunks, AdbPlace
    <3>4. AdbRecorded'
      BY <1>1, <2>2, <2>7 DEF AdbTidy, AdbRecorded, FinalAt, Owns, kind
    <3> QED
      BY <3>2, <3>3, <3>4 DEF AdbTidy
  <2> QED
    BY <1>1, <1>8, <2>4, <2>5, <2>6, <2>7
<1>10. CASE Assemble
  <2>1. /\ final' = [final EXCEPT ![<<"target", f>>] = Cat(f)]
        /\ temp' = [temp EXCEPT ![<<"target", f>>] = Absent]
    BY <1>3, <1>10 DEF Assemble, TempBecomes
  <2>2. PICK gone : parts' = [parts EXCEPT ![f] =
                                [j \in PartIndex |-> IF j \in gone THEN "none" ELSE parts[f][j]]]
    <3>1. PICK gone : Removed(gone)
      BY <1>10 DEF Assemble
    <3> QED
      BY <1>3, <3>1 DEF Removed
  <2>3. \/ adb' = "report" /\ adbPos' = adbPos
        \/ adb' = "idle" /\ adbPos' = <<0, 0>>
    BY <1>10 DEF Assemble, AdbGoto, AdbEnds
  <2>4. parts' \in [File -> [PartIndex -> PartState]]
    BY <2>2 DEF TransferTypeOK, PartState
  <2>5. TransferTypeOK'
    BY <1>2, <1>3, <1>4, <1>6, <2>1, <2>3, <2>4, AbsentIs DEF TransferTypeOK, AgentTypeOK
  <2>6. AdbInOrder'
    BY <1>1, <2>3 DEF AdbInOrder, AdbBusy, AdbFile, Owns, kind
  <2>7. \A g \in File : /\ FinalAt(g)' = IF g = f THEN Cat(f) ELSE FinalAt(g)
                        /\ TempAt(g)' = IF g = f THEN Absent ELSE TempAt(g)
    BY <1>3, <2>1 DEF FinalAt, TempAt, TransferTypeOK, AgentTypeOK, Place
  <2>8. ASSUME clean PROVE AdbTidy'
    <3>1. FinalAt(f)' = Whole(f) /\ FinalAt(f)'.there
      BY <1>5, <2>7, <2>8, WholeIs
    <3>2. FilesTidy'
      <4> SUFFICES ASSUME NEW g \in File
                   PROVE  /\ FinalAt(g)'.there => FinalAt(g)' = Whole(g)
                          /\ FinalAt(g)'.good \subseteq 0 .. (FileSize[g] - 1)
                          /\ TempAt(g)'.good \subseteq 0 .. (FileSize[g] - 1)
        BY DEF FilesTidy, Whole, Holding
      <4>1. CASE g = f
        BY <2>7, <3>1, <4>1, WholeIs, AbsentIs
      <4>2. CASE g # f
        BY <2>7, <2>8, <4>2 DEF AdbTidy, FilesTidy
      <4> QED
        BY <4>1, <4>2
    <3>3. \A g \in File, j \in PartIndex :
            parts'[g][j] = parts[g][j] \/ (g = f /\ parts'[g][j] = "none")
      BY <2>2 DEF TransferTypeOK
    <3>4. PartsTidy'
      BY <2>8, <3>3 DEF AdbTidy, PartsTidy, NumChunks
    <3>5. AdbRecorded'
      <4> SUFFICES ASSUME NEW c \in recorded, Owns("Adb", c[1])
                   PROVE  FinalAt(c[1])'.there \/ parts'[c[1]][c[2]] = "good"
        BY <1>1 DEF AdbRecorded, Owns, kind
      <4>1. c[1] \in File /\ c[2] \in PartIndex
        BY PartOf DEF TransferTypeOK, Chunk
      <4>2. FinalAt(c[1]).there \/ parts[c[1]][c[2]] = "good"
        BY <2>8 DEF AdbTidy, AdbRecorded
      <4> QED
        BY <2>7, <3>1, <3>3, <4>1, <4>2
    <3>6. AdbPlace'
      BY <1>2, <2>3, <3>1 DEF AdbPlace, AdbFile, FinalAt
    <3> QED
      BY <3>2, <3>4, <3>5, <3>6 DEF AdbTidy
  <2> QED
    BY <1>1, <1>3, <1>8, <2>5, <2>6, <2>7, <2>8
<1> QED
  BY <1>9, <1>10
-----------------------------------------------------------------------------
(***************************************************************************)
(* The Wi-Fi lane of a Dual task.  What it has gone past is in the bundle  *)
(* or, once a bundle has been written, whole.                              *)
(***************************************************************************)
LaneBusy == {"file", "send", "entry", "verify", "add"}

LaneInOrder ==
  /\ pc \in {"idle", "ok", "task", "root", "directories"} \cup LaneBusy
  /\ pc \in {"task", "root", "directories"} => pos = <<0, 0>>
  /\ \A f \in bundle : Owns("Wifi", f)
  /\ pc \in LaneBusy => Owns("Wifi", AtFile) /\ \A f \in bundle : f < AtFile
  /\ pc \notin LaneBusy \ {"add"} => bundle = {}
  /\ pc \in {"send", "entry", "verify"} => bundle # {}
  /\ pc = "add" => AtFile \in File

BehindLane(f) ==
  \/ pc \in LaneBusy /\ f < AtFile /\ f \notin bundle
  \/ pc \in {"entry", "verify"} /\ f \in bundle
  \/ pc = "ok"

LaneWhole ==
  \A f \in File : Owns("Wifi", f) /\ BehindLane(f) => FinalAt(f) = Whole(f)

LaneTidy ==
  clean /\ network = "steady" =>
    \A c \in recorded : Owns("Wifi", c[1]) => FinalAt(c[1]).there

\* A set of numbers that is not empty has its minimum.
LEMMA LeastOf ==
  ASSUME NEW S \in SUBSET Nat, S # {}
  PROVE  Min(S) \in S
<1>1. PICK m \in S : \A x \in S : ~ (<<x, m>> \in OpToRel(<, Nat))
  BY NatLessThanWellFounded, WFMin
<1>2. ASSUME NEW x \in S PROVE m <= x
  <2>1. x \in Nat /\ m \in Nat /\ <<x, m>> \in Nat \X Nat
    OBVIOUS
  <2>2. <<x, m>> \notin OpToRel(<, Nat)
    BY <1>1
  <2>3. ~ (x < m)
    BY <2>1, <2>2 DEF OpToRel
  <2> QED
    BY <2>1, <2>3
<1> QED
  BY <1>2, MinIs

\* A bundle that arrives replaces its files.
LEMMA BundleWritten ==
  ASSUME AgentTypeOK, root = "target", NEW S \in SUBSET File, WriteBundle(S)
  PROVE  /\ AgentTypeOK' /\ UNCHANGED memoryVars
         /\ \A f \in File : /\ FinalAt(f)' = IF f \in S THEN Whole(f) ELSE FinalAt(f)
                            /\ TempAt(f)' = IF f \in S THEN Absent ELSE TempAt(f)
<1>1. /\ temp' = FilesAt(temp, [f \in File |-> Absent], S)
      /\ final' = FilesAt(final, [f \in File |-> Whole(f)], S)
      /\ UNCHANGED memoryVars
  BY DEF WriteBundle
<1>2. \A f \in File : Whole(f) \in Content /\ Absent \in Content
  BY WholeIs, AbsentIs
<1>3. temp' \in [Place -> Content] /\ final' \in [Place -> Content]
  BY <1>1, <1>2 DEF FilesAt, Here, AgentTypeOK
<1>4. \A f \in File : <<"target", f>> \in Place
  BY DEF Place
<1>5. \A f \in File : /\ FinalAt(f)' = IF f \in S THEN Whole(f) ELSE FinalAt(f)
                      /\ TempAt(f)' = IF f \in S THEN Absent ELSE TempAt(f)
  BY <1>1, <1>4 DEF FilesAt, Here, FinalAt, TempAt
<1> QED
  BY <1>1, <1>3, <1>5 DEF AgentTypeOK, memoryVars

\* A bundle that breaks off replaces some, and may cut one short.
LEMMA BundleBroken ==
  ASSUME AgentTypeOK, root = "target", NEW S \in SUBSET File, NEW b \in S, BundleBreaks(S, b)
  PROVE  /\ AgentTypeOK' /\ UNCHANGED memoryVars
         /\ \A f \in File :
              /\ \/ FinalAt(f)' = FinalAt(f)
                 \/ f \in S /\ FinalAt(f)' = Whole(f)
                 \/ f \in S /\ FinalAt(f)' = Absent /\ network = "lossy"
              /\ \/ TempAt(f)' = TempAt(f)
                 \/ TempAt(f)'.good \subseteq 0 .. (FileSize[f] - 1)
<1> DEFINE before == {g \in S : g < b}
<1>1. CASE WriteBundle(before)
  BY <1>1, BundleWritten, AbsentIs
<1>2. ASSUME NEW n \in 0 .. FileSize[b], NEW deleted \in BOOLEAN,
             deleted => network = "lossy",
             temp' = FilesAt(FilesAt(temp, [g \in File |-> Absent], before),
                                     [g \in File |-> Beginning(Whole(g), n)], {b}),
             final' = FilesAt(FilesAt(final, [g \in File |-> Whole(g)], before),
                              [g \in File |-> Absent], IF deleted THEN {b} ELSE {}),
             UNCHANGED memoryVars
      PROVE  /\ AgentTypeOK' /\ UNCHANGED memoryVars
             /\ \A f \in File :
                  /\ \/ FinalAt(f)' = FinalAt(f)
                     \/ f \in S /\ FinalAt(f)' = Whole(f)
                     \/ f \in S /\ FinalAt(f)' = Absent /\ network = "lossy"
                  /\ \/ TempAt(f)' = TempAt(f)
                     \/ TempAt(f)'.good \subseteq 0 .. (FileSize[f] - 1)
  <2>1. n \in Nat
    BY <1>2, UnitChunks
  <2>2. \A f \in File :
          /\ Whole(f) \in Content /\ Absent \in Content /\ Absent.good = {}
          /\ Beginning(Whole(f), n) \in Content
          /\ Beginning(Whole(f), n).good \subseteq 0 .. (FileSize[f] - 1)
    <3> SUFFICES ASSUME NEW f \in File
                 PROVE  /\ Whole(f) \in Content /\ Absent \in Content /\ Absent.good = {}
                        /\ Beginning(Whole(f), n) \in Content
                        /\ Beginning(Whole(f), n).good \subseteq 0 .. (FileSize[f] - 1)
      OBVIOUS
    <3>1. Whole(f) \in Content /\ Whole(f).good = 0 .. (FileSize[f] - 1)
      BY WholeIs
    <3>2. /\ Beginning(Whole(f), n) \in Content
          /\ Beginning(Whole(f), n).good \subseteq Whole(f).good
      BY <2>1, <3>1, BeginningIs
    <3> QED
      BY <3>1, <3>2, AbsentIs
  <2> HIDE DEF before
  <2>3. temp' \in [Place -> Content] /\ final' \in [Place -> Content]
    <3> DEFINE T == FilesAt(temp, [g \in File |-> Absent], before)
               F == FilesAt(final, [g \in File |-> Whole(g)], before)
    <3>1. T \in [Place -> Content] /\ F \in [Place -> Content]
      BY <2>2 DEF FilesAt, AgentTypeOK, Place
    <3> HIDE DEF T, F
    <3>2. \A p \in Place : p[2] \in File
      BY DEF Place
    <3>3. FilesAt(T, [g \in File |-> Beginning(Whole(g), n)], {b}) \in [Place -> Content]
      BY <2>2, <3>1, <3>2 DEF FilesAt
    <3>4. \A D : FilesAt(F, [g \in File |-> Absent], D) \in [Place -> Content]
      BY <2>2, <3>1, <3>2 DEF FilesAt
    <3> QED
      BY <1>2, <3>3, <3>4 DEF T, F
  <2>4. \A f \in File : <<"target", f>> \in Place
    BY DEF Place
  <2>5. \A f \in File : FinalAt(f)' = IF deleted /\ f = b THEN Absent
                                     ELSE IF f \in before THEN Whole(f) ELSE FinalAt(f)
    BY <1>2, <2>4 DEF FilesAt, Here, FinalAt
  <2>6. \A f \in File : TempAt(f)' = IF f = b THEN Beginning(Whole(f), n)
                                    ELSE IF f \in before THEN Absent ELSE TempAt(f)
    BY <1>2, <2>4 DEF FilesAt, Here, TempAt
  <2> QED
    BY <1>2, <2>2, <2>3, <2>5, <2>6 DEF AgentTypeOK, memoryVars, before
<1> QED
  BY <1>1, <1>2 DEF BundleBreaks

\* What a lane's step leaves to the other lane.
LaneFrame ==
  /\ \A f \in File : ~ Owns("Wifi", f) => FinalAt(f)' = FinalAt(f)
  /\ recorded \subseteq recorded'
  /\ \A c \in recorded' \ recorded : Owns("Wifi", c[1])

\* The steps of the Wi-Fi lane that leave the agent alone.
LEMMA LaneWithoutAgent ==
  ASSUME TransferTypeOK, RootKnown, LaneInOrder, LaneTidy, clean => FilesTidy,
         kind = "Dual", UNCHANGED <<task, adbVars, halt, parts, user, local>>,
         UNCHANGED <<agentVars, network, recorded>>, pos' \in Nat \X Nat, bundle' \subseteq File,
         pc' \in {"idle", "ok"} \/ pc \notin {"idle", "ok", "task", "root"}
  PROVE  /\ TransferTypeOK' /\ RootKnown' /\ LaneTidy' /\ (clean => FilesTidy')
         /\ LaneFrame
         /\ \A f : FinalAt(f)' = FinalAt(f)
<1>1. TransferTypeOK'
  BY DEF TransferTypeOK, AgentTypeOK, agentVars, adbVars, NumChunks, ChunkCount, AtLeastOne
<1>2. RootKnown'
  BY DEF RootKnown, agentVars, kind, LaneInOrder, LaneBusy
<1>3. \A f : FinalAt(f)' = FinalAt(f) /\ TempAt(f)' = TempAt(f)
  BY DEF FinalAt, TempAt, agentVars
<1>4. LaneTidy'
  BY <1>3 DEF LaneTidy, Owns, kind, clean
<1>5. clean => FilesTidy'
  BY <1>3 DEF FilesTidy, Whole, Holding
<1> QED
  BY <1>1, <1>2, <1>3, <1>4, <1>5 DEF LaneFrame

\* It collects a bundle of the small files it owns.
LEMMA LaneCollects ==
  ASSUME TransferTypeOK, RootKnown, LaneInOrder, LaneWhole, LaneTidy, clean => FilesTidy,
         kind = "Dual", UNCHANGED <<task, adbVars, halt, parts, user, local>>,
         UNCHANGED <<network, recorded>>,
         AtBundleFile \/ AddToNextBundle \/ LastBundle
  PROVE  /\ TransferTypeOK' /\ RootKnown' /\ LaneInOrder' /\ LaneWhole' /\ LaneTidy'
         /\ (clean => FilesTidy') /\ LaneFrame
<1>1. PICK f \in Nat, i \in Nat : pos = <<f, i>>
  BY DEF TransferTypeOK
<1>2. /\ UNCHANGED <<agentVars, network, recorded>>
      /\ pc \in {"file", "add"} /\ AtFile = f /\ NFiles \in Nat
      /\ Owns("Wifi", f) /\ (\A g \in bundle : g < f /\ Owns("Wifi", g)) /\ bundle \subseteq File
  BY <1>1, ChunkingAssumption
     DEF AtBundleFile, AddToNextBundle, LastBundle, AtFile, LaneInOrder, LaneBusy,
         TransferTypeOK
<1>3. ASSUME pos' \in Nat \X Nat, bundle' \subseteq File, LaneInOrder',
             \A g \in File : Owns("Wifi", g) /\ BehindLane(g)' => BehindLane(g)
      PROVE  /\ TransferTypeOK' /\ RootKnown' /\ LaneInOrder' /\ LaneWhole' /\ LaneTidy'
             /\ (clean => FilesTidy') /\ LaneFrame
  <2>1. /\ TransferTypeOK' /\ RootKnown' /\ LaneTidy' /\ (clean => FilesTidy')
        /\ LaneFrame
        /\ \A g : FinalAt(g)' = FinalAt(g)
    BY <1>2, <1>3, LaneWithoutAgent
  <2>2. LaneWhole'
    BY <1>3, <2>1 DEF LaneWhole, Whole, Holding, Owns, kind
  <2> QED
    BY <1>3, <2>1, <2>2
<1>4. CASE bundle' = {} /\ pc' = "idle" /\ pos' = <<0, 0>>
  BY <1>3, <1>4 DEF LaneInOrder, LaneBusy, BehindLane
<1>5. CASE /\ f \in File
           /\ bundle' = bundle \cup {f}
           /\ pc' = "file" /\ pos' = <<FileAfter("Wifi", f), 0>>
  <2> DEFINE next == FileAfter("Wifi", f)
  <2>1. /\ next \in Nat /\ Owns("Wifi", next) /\ next > f
        /\ \A g \in Nat : f < g /\ g < next => ~ Owns("Wifi", g)
    BY <1>2, <1>5, NextOwned
  <2> HIDE DEF next
  <2>2. pos' = <<next, 0>> /\ bundle' \subseteq File
    BY <1>2, <1>5 DEF next
  <2>3. \A g \in bundle' : g < next /\ Owns("Wifi", g)
    BY <1>2, <1>5, <2>1 DEF File
  <2>4. LaneInOrder'
    BY <1>5, <2>1, <2>2, <2>3 DEF LaneInOrder, LaneBusy, AtFile, Owns, kind
  <2>5. ASSUME NEW g \in File, Owns("Wifi", g), BehindLane(g)'
        PROVE  BehindLane(g)
    <3>1. g \in Nat /\ g < next /\ g \notin bundle'
      BY <1>5, <2>2, <2>5 DEF BehindLane, AtFile, File
    <3>2. g < f /\ g \notin bundle
      BY <1>2, <1>5, <2>1, <2>5, <3>1
    <3> QED
      BY <1>2, <3>2 DEF BehindLane, LaneBusy
  <2> QED
    BY <1>3, <2>1, <2>2, <2>4, <2>5
<1>6. CASE /\ pc = "file" /\ bundle # {} /\ bundle' = bundle /\ pc' = "send"
           /\ \E k \in {0, 1, i} : pos' = <<f, k>>
  <2>1. LaneInOrder'
    BY <1>2, <1>6 DEF LaneInOrder, LaneBusy, AtFile, Owns, kind
  <2>2. pos' \in Nat \X Nat
    BY <1>6
  <2>3. \A g \in File : BehindLane(g)' => BehindLane(g)
    BY <1>2, <1>6 DEF BehindLane, LaneBusy, AtFile
  <2> QED
    BY <1>2, <1>3, <1>6, <2>1, <2>2, <2>3
<1>7. CASE /\ pc = "file" /\ bundle = {} /\ bundle' = bundle /\ f >= NFiles /\ pc' = "ok"
           /\ pos' = <<0, 0>>
  <2>1. LaneInOrder'
    BY <1>7 DEF LaneInOrder, LaneBusy
  <2>2. \A g \in File : BehindLane(g)
    BY <1>1, <1>2, <1>7 DEF BehindLane, LaneBusy, AtFile, File
  <2> QED
    BY <1>2, <1>3, <1>7, <2>1, <2>2
<1>8. CASE AtBundleFile
  <2>1. /\ f < NFiles /\ pc = "file"
        /\ IF CanAccept(f) THEN AddFile ELSE Goto("send") /\ UNCHANGED bundle
    BY <1>2, <1>8 DEF AtBundleFile
  <2>2. f \in File
    BY <1>1, <1>2, <2>1 DEF File
  <2>3. CASE CanAccept(f) /\ AddFile
    BY <1>2, <1>4, <1>5, <2>2, <2>3 DEF AddFile, PcEnds
  <2>4. CASE ~ CanAccept(f) /\ Goto("send") /\ UNCHANGED bundle
    <3>1. bundle # {}
      BY <2>4 DEF CanAccept
    <3> QED
      BY <1>1, <1>6, <2>1, <2>4, <3>1 DEF Goto
  <2> QED
    BY <2>1, <2>3, <2>4
<1>9. CASE AddToNextBundle
  <2>1. f \in File /\ AddFile
    BY <1>2, <1>9 DEF AddToNextBundle, LaneInOrder
  <2> QED
    BY <1>2, <1>4, <1>5, <2>1 DEF AddFile, PcEnds
<1>10. CASE LastBundle
  <2>1. CASE bundle # {}
    BY <1>2, <1>6, <1>10, <2>1 DEF LastBundle
  <2>2. CASE bundle = {}
    BY <1>2, <1>4, <1>7, <1>10, <2>2 DEF LastBundle, PcEnds
  <2> QED
    BY <2>1, <2>2
<1> QED
  BY <1>8, <1>9, <1>10

\* The files of a bundle that has been written.
LEMMA LaneConfirms ==
  ASSUME TransferTypeOK, RootKnown, LaneInOrder, LaneWhole, LaneTidy, clean => FilesTidy,
         kind = "Dual", UNCHANGED <<task, adbVars, halt, parts, user, local>>,
         UNCHANGED network,
         ReportEntry \/ (VerifyEntry /\ UNCHANGED recorded)
  PROVE  /\ TransferTypeOK' /\ RootKnown' /\ LaneInOrder' /\ LaneWhole' /\ LaneTidy'
         /\ (clean => FilesTidy') /\ LaneFrame
<1>1. PICK f \in Nat, i \in Nat : pos = <<f, i>>
  BY DEF TransferTypeOK
<1>2. /\ UNCHANGED agentVars
      /\ pc \in {"entry", "verify"} /\ AtFile = f /\ NFiles \in Nat
      /\ Owns("Wifi", f) /\ (\A g \in bundle : g < f /\ Owns("Wifi", g)) /\ bundle \subseteq File
      /\ bundle # {}
  BY <1>1, ChunkingAssumption
     DEF ReportEntry, VerifyEntry, AtFile, LaneInOrder, LaneBusy, TransferTypeOK
<1> DEFINE b == ToReport
<1>3. b \in bundle /\ b \in File
  <2>1. bundle \in SUBSET Nat
    BY <1>2 DEF File
  <2> QED
    BY <1>2, <2>1, LeastOf DEF ToReport
<1>4. Owns("Wifi", b) /\ FinalAt(b) = Whole(b) /\ FinalAt(b).there
  BY <1>2, <1>3, WholeIs DEF LaneWhole, BehindLane
<1>5. /\ \/ recorded' = recorded
         \/ recorded' = recorded \cup Split(b, 1)
      /\ \/ pc' = "verify" /\ UNCHANGED <<bundle, pos>>
         \/ EntryDone
         \/ PcEnds("idle") /\ bundle' = {}
  BY DEF ReportEntry, VerifyEntry, RecordFile, Goto
<1> HIDE DEF b
<1>6. /\ \/ pc' = "verify" /\ pos' = pos /\ bundle' = bundle
         \/ pc' = "entry" /\ pos' = pos /\ bundle' \subseteq bundle /\ bundle' # {}
         \/ pc' = "idle" /\ pos' = <<0, 0>> /\ bundle' = {}
         \/ pc' = "ok" /\ pos' = <<0, 0>> /\ bundle' = {} /\ f >= NFiles
         \/ pc' = "add" /\ pos' = pos /\ bundle' = {} /\ f < NFiles
  <2>1. CASE EntryDone
    <3>1. bundle' \subseteq bundle
      BY <2>1 DEF EntryDone
    <3>2. CASE bundle' = {}
      BY <1>1, <1>2, <2>1, <3>2 DEF EntryDone, AfterBundle, PcEnds, Goto
    <3>3. CASE bundle' # {}
      BY <2>1, <3>1, <3>3 DEF EntryDone, Goto
    <3> QED
      BY <3>2, <3>3
  <2> QED
    BY <1>5, <2>1 DEF PcEnds
<1>7. \A g \in File : FinalAt(g)' = FinalAt(g) /\ TempAt(g)' = TempAt(g)
  BY <1>2 DEF FinalAt, TempAt, agentVars
<1>8. /\ Split(b, 1) \subseteq Chunk
      /\ \A c \in Split(b, 1) : c[1] = b /\ c[2] < NumChunks(c[1], 1)
  BY <1>3, UnitChunks DEF Chunk
<1>9. TransferTypeOK'
  <2>1. recorded' \subseteq Chunk /\ \A c \in recorded' : c[2] < NumChunks(c[1], 1)
    BY <1>5, <1>8 DEF TransferTypeOK
  <2>2. pos' \in Nat \X Nat /\ bundle' \subseteq File
    BY <1>1, <1>2, <1>6
  <2> QED
    BY <1>2, <2>1, <2>2 DEF TransferTypeOK, AgentTypeOK, agentVars, adbVars, NumChunks,
                            ChunkCount, AtLeastOne
<1>10. RootKnown'
  BY <1>2, <1>6 DEF RootKnown, agentVars, kind
<1>11. LaneInOrder'
  <2>1. \A g : Owns("Wifi", g)' <=> Owns("Wifi", g)
    BY DEF Owns, kind
  <2>2. CASE pc' \in {"verify", "entry", "add"}
    <3>1. /\ pos' = pos /\ bundle' \subseteq bundle
          /\ pc' \in {"verify", "entry"} => bundle' # {}
          /\ pc' = "add" => bundle' = {} /\ f \in File
      BY <1>2, <1>6, <2>2 DEF File
    <3> QED
      BY <1>1, <1>2, <2>1, <2>2, <3>1 DEF LaneInOrder, LaneBusy, AtFile
  <2>3. CASE pc' \in {"idle", "ok"}
    BY <1>6, <2>3 DEF LaneInOrder, LaneBusy
  <2> QED
    BY <1>6, <2>2, <2>3
<1>12. LaneWhole'
  <2>1. ASSUME NEW g \in File, Owns("Wifi", g), BehindLane(g)' PROVE BehindLane(g)
    <3>1. g \in Nat /\ g < NFiles
      BY <1>2 DEF File
    <3> QED
      BY <1>1, <1>2, <1>6, <2>1, <3>1 DEF BehindLane, LaneBusy, AtFile
  <2> QED
    BY <1>7, <2>1 DEF LaneWhole, Whole, Holding, Owns, kind
<1>13. LaneTidy'
  <2> SUFFICES ASSUME clean, network = "steady", NEW c \in recorded', Owns("Wifi", c[1])
               PROVE  FinalAt(c[1])'.there
    BY DEF LaneTidy, Owns, kind, clean
  <2>1. c[1] \in File
    BY <1>5, <1>8 DEF TransferTypeOK, Chunk
  <2> QED
    BY <1>4, <1>5, <1>7, <1>8, <2>1 DEF LaneTidy
<1>14. clean => FilesTidy'
  BY <1>7 DEF FilesTidy, Whole, Holding
<1>15. LaneFrame
  BY <1>4, <1>5, <1>7, <1>8 DEF LaneFrame
<1> QED
  BY <1>9, <1>10, <1>11, <1>12, <1>13, <1>14, <1>15

\* It sends the bundle.
LEMMA LaneSends ==
  ASSUME TransferTypeOK, RootKnown, LaneInOrder, LaneWhole, LaneTidy, clean => FilesTidy,
         kind = "Dual", UNCHANGED <<task, adbVars, halt, parts, user, local>>,
         UNCHANGED <<network, recorded>>,
         SendBundle
  PROVE  /\ TransferTypeOK' /\ RootKnown' /\ LaneInOrder' /\ LaneWhole' /\ LaneTidy'
         /\ (clean => FilesTidy') /\ LaneFrame
<1>1. /\ pc = "send" /\ bundle \subseteq File /\ (active => root = "target")
      /\ \A f \in bundle : Owns("Wifi", f)
  BY DEF SendBundle, TransferTypeOK, RootKnown, LaneInOrder
<1>2. /\ AgentTypeOK' /\ UNCHANGED memoryVars
      /\ \A f \in File :
           /\ \/ FinalAt(f)' = FinalAt(f)
              \/ f \in bundle /\ FinalAt(f)' = Whole(f)
              \/ f \in bundle /\ FinalAt(f)' = Absent /\ network = "lossy"
           /\ \/ TempAt(f)' = TempAt(f)
              \/ TempAt(f)'.good \subseteq 0 .. (FileSize[f] - 1)
  <2>1. CASE WriteBundle(bundle)
    <3>1. root = "target"
      BY <1>1, <2>1 DEF WriteBundle
    <3> QED
      BY <1>1, <2>1, <3>1, BundleWritten, AbsentIs DEF TransferTypeOK
  <2>2. ASSUME NEW b \in bundle, BundleBreaks(bundle, b)
        PROVE  <1>2!:
    <3>1. root = "target"
      BY <1>1, <2>2 DEF BundleBreaks, WriteBundle
    <3> QED
      BY <1>1, <2>2, <3>1, BundleBroken DEF TransferTypeOK
  <2>3. CASE UNCHANGED agentVars
    BY <2>3 DEF agentVars, memoryVars, AgentTypeOK, FinalAt, TempAt, TransferTypeOK
  <2> QED
    BY <2>1, <2>2, <2>3 DEF SendBundle
<1>3. \/ pc' = "entry" /\ pos' = pos /\ bundle' = bundle
         /\ \A f \in bundle : FinalAt(f)' = Whole(f)
      \/ pc' = "idle" /\ pos' = <<0, 0>> /\ bundle' = {}
  <2>1. CASE WriteBundle(bundle) /\ Goto("entry") /\ UNCHANGED bundle
    <3>1. root = "target"
      BY <1>1, <2>1 DEF WriteBundle
    <3> QED
      BY <1>1, <2>1, <3>1, BundleWritten DEF TransferTypeOK, Goto
  <2> QED
    BY <2>1 DEF SendBundle, PcEnds
<1>4. TransferTypeOK'
  BY <1>1, <1>2, <1>3 DEF TransferTypeOK, adbVars, NumChunks, ChunkCount, AtLeastOne
<1>5. RootKnown'
  BY <1>1, <1>2, <1>3 DEF RootKnown, memoryVars, kind
<1>6. LaneInOrder'
  BY <1>1, <1>3 DEF LaneInOrder, LaneBusy, AtFile, Owns, kind
<1>7. LaneWhole'
  <2> SUFFICES ASSUME NEW f \in File, Owns("Wifi", f), BehindLane(f)'
               PROVE  FinalAt(f)' = Whole(f)
    BY DEF LaneWhole, Whole, Holding, Owns, kind
  <2>1. /\ pc' = "entry" /\ pos' = pos /\ bundle' = bundle
        /\ \A g \in bundle : FinalAt(g)' = Whole(g)
    BY <1>3 DEF BehindLane, LaneBusy
  <2>2. CASE f \in bundle
    BY <2>1, <2>2
  <2>3. CASE f \notin bundle
    <3>1. BehindLane(f)
      BY <1>1, <2>1, <2>3 DEF BehindLane, LaneBusy, AtFile
    <3> QED
      BY <1>2, <2>3, <3>1 DEF LaneWhole
  <2> QED
    BY <2>2, <2>3
<1>8. LaneTidy'
  <2> SUFFICES ASSUME clean, network = "steady", NEW c \in recorded, Owns("Wifi", c[1])
               PROVE  FinalAt(c[1])'.there
    BY DEF LaneTidy, Owns, kind, clean
  <2>1. c[1] \in File
    BY DEF TransferTypeOK, Chunk
  <2> QED
    BY <1>2, <2>1, WholeIs DEF LaneTidy
<1>9. clean => FilesTidy'
  <2> SUFFICES ASSUME clean, NEW f \in File
               PROVE  /\ FinalAt(f)'.there => FinalAt(f)' = Whole(f)
                      /\ FinalAt(f)'.good \subseteq 0 .. (FileSize[f] - 1)
                      /\ TempAt(f)'.good \subseteq 0 .. (FileSize[f] - 1)
    BY DEF FilesTidy, Whole, Holding
  <2> QED
    BY <1>2, WholeIs, AbsentIs DEF FilesTidy
<1>10. LaneFrame
  BY <1>1, <1>2 DEF LaneFrame
<1> QED
  BY <1>4, <1>5, <1>6, <1>7, <1>8, <1>9, <1>10

\* It tells the agent of the task and the root.
LEMMA LaneTells ==
  ASSUME TransferTypeOK, RootKnown, LaneInOrder, LaneWhole, LaneTidy, clean => FilesTidy,
         kind = "Dual", UNCHANGED <<task, adbVars, halt, parts, user, local>>,
         UNCHANGED <<recorded, bundle>>,
         TellDualTask \/ TellDualRoot \/ TellDirectories
  PROVE  /\ TransferTypeOK' /\ RootKnown' /\ LaneInOrder' /\ LaneWhole' /\ LaneTidy'
         /\ (clean => FilesTidy') /\ LaneFrame
<1>1. /\ pc \in {"task", "root", "directories"} /\ UNCHANGED <<temp, final, network, pos>>
      /\ pos = <<0, 0>> /\ bundle = {}
      /\ pc' \in {"root", "directories", "file", "idle"}
  BY DEF TellDualTask, TellDualRoot, TellDirectories, Told, StartTask, SetTargetRoot, Lost, Goto,
         agentVars, LaneInOrder, LaneBusy
<1>2. AgentTypeOK'
  BY HandlersKeepTypes
     DEF TellDualTask, TellDualRoot, TellDirectories, Told, Lost, TransferTypeOK
<1>3. TransferTypeOK'
  BY <1>1, <1>2 DEF TransferTypeOK, adbVars, NumChunks, ChunkCount, AtLeastOne
<1>4. RootKnown'
  <2>1. RootGiven' /\ kind' = kind /\ Answers(access) = {TRUE}
    BY RootAccepted DEF RootKnown, kind
  <2>2. active' /\ pc' \notin {"idle", "ok", "failed", "task", "root"} => root' = "target"
    <3>1. CASE TellDualTask
      BY <3>1 DEF TellDualTask, Told, StartTask, Lost, Goto, agentVars
    <3>2. CASE TellDualRoot
      BY <2>1, <3>2 DEF TellDualRoot, Told, SetTargetRoot, Lost, Goto, agentVars
    <3>3. CASE TellDirectories
      BY <3>3 DEF TellDirectories, Goto, agentVars, RootKnown
    <3> QED
      BY <3>1, <3>2, <3>3
  <2> QED
    BY <2>1, <2>2 DEF RootKnown
<1>5. LaneInOrder'
  BY <1>1 DEF LaneInOrder, LaneBusy, AtFile, Owns, kind
<1>6. \A f : FinalAt(f)' = FinalAt(f) /\ TempAt(f)' = TempAt(f)
  BY <1>1 DEF FinalAt, TempAt
<1>7. \A f \in File : ~ BehindLane(f)'
  BY <1>1 DEF BehindLane, LaneBusy, AtFile, File
<1>8. LaneTidy' /\ (clean => FilesTidy') /\ LaneFrame
  BY <1>1, <1>6 DEF LaneTidy, FilesTidy, LaneFrame, Whole, Holding, Owns, kind, clean
<1> QED
  BY <1>3, <1>4, <1>5, <1>7, <1>8 DEF LaneWhole
-----------------------------------------------------------------------------
(***************************************************************************)
(* The lanes of a Dual task leave each other's files alone.                *)
(***************************************************************************)
LEMMA LaneLeavesAdb ==
  ASSUME TransferTypeOK, TransferTypeOK', kind = "Dual",
         AdbInOrder, AdbVerified, clean => AdbTidy,
         LaneFrame, clean => FilesTidy', UNCHANGED <<task, adbVars, parts>>
  PROVE  AdbInOrder' /\ AdbVerified' /\ (clean => AdbTidy')
<1>1. \A f \in File : Owns("Adb", f) => FinalAt(f)' = FinalAt(f)
  BY ChunkingAssumption, DualOwner DEF LaneFrame, File
<1>2. /\ UNCHANGED <<adb, adbPos>> /\ (verifies' <=> verifies)
      /\ recorded \subseteq recorded' /\ kind' = kind
      /\ \A f : Owns("Adb", f)' <=> Owns("Adb", f)
  BY DEF adbVars, verifies, LaneFrame, kind, Owns
<1>3. AdbInOrder'
  BY <1>2 DEF AdbInOrder, AdbFile, AdbChunk, NumChunks
<1>4. AdbVerified'
  <2> SUFFICES ASSUME verifies, NEW f \in File, BehindAdb(f)'
               PROVE  FinalAt(f)' = Whole(f)
    BY <1>2 DEF AdbVerified, Whole, Holding
  <2>1. BehindAdb(f) /\ Owns("Adb", f)
    BY <1>2 DEF BehindAdb, AdbFile
  <2> QED
    BY <1>1, <2>1 DEF AdbVerified
<1>5. ASSUME clean PROVE AdbTidy'
  <2>1. PartsTidy'
    BY <1>5 DEF AdbTidy, PartsTidy, NumChunks
  <2>2. AdbRecorded'
    <3> SUFFICES ASSUME NEW c \in recorded', Owns("Adb", c[1])
                 PROVE  FinalAt(c[1])'.there \/ parts[c[1]][c[2]] = "good"
      BY <1>2 DEF AdbRecorded
    <3>1. c[1] \in File /\ c[1] \in Nat
      BY ChunkingAssumption DEF TransferTypeOK, Chunk, File
    <3>2. c \in recorded
      BY <3>1, DualOwner DEF LaneFrame
    <3> QED
      BY <1>1, <1>5, <3>1, <3>2 DEF AdbTidy, AdbRecorded
  <2>3. AdbPlace'
    BY <1>1, <1>2, <1>5 DEF AdbTidy, AdbPlace, AdbInOrder, AdbBusy, AdbFile, AdbChunk
  <2> QED
    BY <1>5, <2>1, <2>2, <2>3 DEF AdbTidy
<1> QED
  BY <1>3, <1>4, <1>5

\* What the ADB lane does to its own files leaves the Wi-Fi lane in order.
LEMMA AdbLeavesLane ==
  ASSUME TransferTypeOK, TransferTypeOK', kind = "Dual",
         LaneInOrder, LaneWhole, LaneTidy,
         UNCHANGED <<network, workerVars, task, bundle>>,
         \A g \in File : ~ Owns("Adb", g) => FinalAt(g)' = FinalAt(g),
         \A c \in recorded' \ recorded : Owns("Adb", c[1])
  PROVE  LaneInOrder' /\ LaneWhole' /\ LaneTidy'
<1>1. \A f \in File : Owns("Wifi", f) => FinalAt(f)' = FinalAt(f)
  BY ChunkingAssumption, DualOwner DEF File
<1>2. /\ UNCHANGED <<pc, pos, bundle>> /\ kind' = kind
      /\ \A f : Owns("Wifi", f)' <=> Owns("Wifi", f)
  BY DEF workerVars, kind, Owns
<1>3. LaneInOrder'
  BY <1>2 DEF LaneInOrder, AtFile
<1>4. LaneWhole'
  BY <1>1, <1>2 DEF LaneWhole, BehindLane, AtFile, Whole, Holding
<1>5. LaneTidy'
  <2> SUFFICES ASSUME clean, network = "steady", NEW c \in recorded', Owns("Wifi", c[1])
               PROVE  FinalAt(c[1])'.there
    BY <1>2 DEF LaneTidy, clean
  <2>1. c[1] \in File /\ c[1] \in Nat
    BY ChunkingAssumption DEF TransferTypeOK, Chunk, File
  <2>2. c \in recorded
    BY <2>1, DualOwner
  <2> QED
    BY <1>1, <2>1, <2>2 DEF LaneTidy
<1> QED
  BY <1>3, <1>4, <1>5
-----------------------------------------------------------------------------
(***************************************************************************)
(* The pull workers.  A recorded chunk is in the file on the PC, which is  *)
(* opened as it is and written chunk by chunk.                             *)
(***************************************************************************)
PullInOrder ==
  /\ AtFile = 0
  /\ pc \in {"task", "root", "open"} => AtChunk = 0
  /\ pc \in {"resumed", "chunk", "pulled"} => local.there
  /\ pc = "resumed" => Checkpointed(0)
  /\ pc \in {"chunk", "pulled"} => \A j \in 0 .. (AtChunk - 1) : <<0, j>> \in recorded
  /\ pc = "pulled" => AtChunk < NumChunks(0, 1) /\ (FileSize[0] > 0 => AtChunk \in local.good)

PulledChunks ==
  \A c \in recorded : local.there /\ c[1] = 0 /\ (FileSize[0] > 0 => c[2] \in local.good)

PullTidy == PullInOrder /\ PulledChunks

\* The requests of a Wi-Fi pull, and its writes to the local file.
LEMMA PullAsks ==
  ASSUME TransferTypeOK, PullTidy, kind = "WifiPull",
         UNCHANGED <<task, adbVars, halt, parts, user, bundle>>,
         UNCHANGED recorded, 0 \in File,
         \/ (PullTask \/ PullRoot) /\ UNCHANGED local
         \/ (OpenLocal \/ PullChunk \/ VerifyPull) /\ UNCHANGED network
  PROVE  TransferTypeOK' /\ PullTidy'
<1>1. PICK i \in Nat : pos = <<0, i>>
  BY DEF TransferTypeOK, PullTidy, PullInOrder, AtFile
<1>0. network' = network
  BY DEF PullTask, PullRoot, Told
<1>2. ASSUME AgentTypeOK', network' = network, pos' \in Nat \X Nat, local' \in Content
      PROVE  TransferTypeOK'
  BY <1>2 DEF TransferTypeOK, adbVars, NumChunks, ChunkCount, AtLeastOne
<1>3. NumChunks(0, 1) \in Nat /\ FileSize[0] \in Nat
  BY UnitChunks
<1>4. ASSUME UNCHANGED agentVars PROVE AgentTypeOK'
  BY <1>4 DEF TransferTypeOK, AgentTypeOK, agentVars
<1>5. CASE (PullTask \/ PullRoot) /\ UNCHANGED local
  <2>1. /\ pos' = pos /\ network' = network /\ pc \in {"task", "root"}
        /\ pc' \in {"root", "open", "idle"}
    BY <1>5 DEF PullTask, PullRoot, Told, Goto
  <2>2. AgentTypeOK'
    BY <1>5, HandlersKeepTypes DEF PullTask, PullRoot, Told, Lost, TransferTypeOK
  <2>3. TransferTypeOK'
    BY <1>2, <1>5, <2>1, <2>2 DEF TransferTypeOK
  <2>4. PullTidy'
    BY <1>5, <2>1 DEF PullTidy, PullInOrder, PulledChunks, AtFile, AtChunk
  <2> QED
    BY <2>3, <2>4
<1>6. CASE OpenLocal
  <2>1. /\ UNCHANGED <<agentVars, pos>> /\ pc = "open"
        /\ \/ pc' = "idle" /\ local' = local
           \/ /\ pc' = IF Checkpointed(0) THEN "resumed" ELSE "chunk"
              /\ local' = IF local.there THEN local ELSE Holding(0, {})
    BY <1>6 DEF OpenLocal, Goto, Stop
  <2>2. Holding(0, {}) \in Content /\ Holding(0, {}).there
    BY ContentOf
  <2>3. local' \in Content /\ (local.there => local' = local)
    BY <2>1, <2>2 DEF TransferTypeOK
  <2>4. TransferTypeOK'
    <3>1. pos' \in Nat \X Nat /\ network' = network
      BY <1>0, <2>1 DEF TransferTypeOK
    <3> QED
      BY <1>2, <1>4, <2>1, <2>3, <3>1
  <2>5. PullInOrder'
    BY <1>1, <2>1, <2>2 DEF PullTidy, PullInOrder, AtFile, AtChunk, Checkpointed
  <2>6. PulledChunks'
    BY <2>3 DEF PullTidy, PulledChunks
  <2> QED
    BY <2>4, <2>5, <2>6 DEF PullTidy
<1>7. CASE PullChunk
  <2>1. /\ UNCHANGED agentVars /\ pc = "chunk" /\ i < NumChunks(0, 1) /\ local.there
        /\ \A j \in 0 .. (i - 1) : <<0, j>> \in recorded
        /\ \/ pc' = "idle" /\ pos' = pos /\ local' = local
           \/ pos \in recorded /\ pc' = "chunk" /\ pos' = <<0, i + 1>> /\ local' = local
           \/ pc' = "pulled" /\ pos' = pos /\ local' = Written(local, 0, {i})
    BY <1>1, <1>3, <1>7
       DEF PullChunk, Goto, Stop, NextChunk, PullIndices, AtChunk, AtFile, PullTidy, PullInOrder
  <2>2. /\ Written(local, 0, {i}) \in Content /\ Written(local, 0, {i}).there
        /\ Written(local, 0, {i}).good
           = local.good \cup (IF i < FileSize[0] THEN {i} ELSE {})
    BY WrittenIs DEF TransferTypeOK
  <2>3. local' \in Content /\ local'.there /\ local.good \subseteq local'.good
    BY <2>1, <2>2 DEF TransferTypeOK
  <2>4. TransferTypeOK'
    <3>1. pos' \in Nat \X Nat /\ network' = network
      BY <1>0, <1>1, <2>1 DEF TransferTypeOK
    <3> QED
      BY <1>2, <1>4, <2>1, <2>3, <3>1
  <2>5. ASSUME pos \in recorded, NEW j \in 0 .. i PROVE <<0, j>> \in recorded
    <3>1. j = i \/ j \in 0 .. (i - 1)
      OBVIOUS
    <3> QED
      BY <1>1, <2>1, <2>5, <3>1
  <2>6. pc' = "pulled" /\ FileSize[0] > 0 => i \in local'.good
    <3>1. FileSize[0] > 0 => i < FileSize[0]
      BY <1>3, <2>1, UnitChunks
    <3> QED
      BY <2>1, <2>2, <3>1
  <2>7. PullInOrder'
    BY <1>1, <2>1, <2>3, <2>5, <2>6 DEF PullInOrder, AtFile, AtChunk, Checkpointed, NumChunks
  <2>8. PulledChunks'
    BY <2>3 DEF PullTidy, PulledChunks
  <2> QED
    BY <2>4, <2>7, <2>8 DEF PullTidy
<1>8. CASE VerifyPull
  <2>1. UNCHANGED <<agentVars, pos, local>> /\ pc' \in {"ok", "idle"}
    BY <1>8 DEF VerifyPull, Goto
  <2>2. TransferTypeOK'
    <3>1. pos' \in Nat \X Nat /\ network' = network /\ local' \in Content
      BY <1>0, <2>1 DEF TransferTypeOK
    <3> QED
      BY <1>2, <1>4, <2>1, <3>1
  <2>3. PullTidy'
    BY <2>1 DEF PullTidy, PullInOrder, PulledChunks, AtFile, AtChunk
  <2> QED
    BY <2>2, <2>3
<1> QED
  BY <1>5, <1>6, <1>7, <1>8

\* Its reports to the engine.
LEMMA PullReports ==
  ASSUME TransferTypeOK, PullTidy, kind = "WifiPull",
         UNCHANGED <<task, adbVars, halt, parts, user, bundle>>,
         UNCHANGED network, 0 \in File,
         ReportResumed \/ ReportPulled \/ ReportPull
  PROVE  TransferTypeOK' /\ PullTidy'
<1>1. PICK i \in Nat : pos = <<0, i>>
  BY DEF TransferTypeOK, PullTidy, PullInOrder, AtFile
<1>2. UNCHANGED <<agentVars, local>>
  BY DEF ReportResumed, ReportPulled, ReportPull
<1>3. ASSUME pos' \in Nat \X Nat, recorded' \subseteq Chunk,
             \A c \in recorded' : c[2] < NumChunks(c[1], 1)
      PROVE  TransferTypeOK'
  BY <1>2, <1>3 DEF TransferTypeOK, AgentTypeOK, agentVars, adbVars, NumChunks, ChunkCount,
                    AtLeastOne
<1>4. NumChunks(0, 1) \in Nat /\ Split(0, 1) = {0} \X (0 .. (NumChunks(0, 1) - 1))
  BY UnitChunks
<1>5. CASE ReportResumed \/ ReportPull
  <2>1. Split(0, 1) \subseteq recorded
    <3>1. CASE ReportResumed
      BY <3>1 DEF ReportResumed, PullTidy, PullInOrder, Checkpointed
    <3>2. CASE ReportPull
      <4>1. i >= NumChunks(0, 1) /\ pc = "chunk"
        BY <1>1, <1>4, <3>2 DEF ReportPull, PullIndices, AtChunk
      <4>2. \A j \in 0 .. (i - 1) : <<0, j>> \in recorded
        BY <1>1, <4>1 DEF PullTidy, PullInOrder, AtChunk
      <4> QED
        BY <1>4, <4>1, <4>2
    <3> QED
      BY <1>5, <3>1, <3>2
  <2>2. recorded' = recorded /\ pos' = pos /\ pc' \in {"ok", "verify"}
    BY <1>5, <2>1 DEF ReportResumed, ReportPull, RecordFile, Goto
  <2> QED
    BY <1>2, <1>3, <2>2 DEF TransferTypeOK, PullTidy, PullInOrder, PulledChunks, AtFile, AtChunk
<1>6. CASE ReportPulled
  <2>1. /\ pc = "pulled" /\ pc' = "chunk" /\ recorded' = recorded \cup {<<0, i>>}
        /\ pos' = <<0, i + 1>> /\ i < NumChunks(0, 1) /\ local.there
        /\ FileSize[0] > 0 => i \in local.good
        /\ \A j \in 0 .. (i - 1) : <<0, j>> \in recorded
    BY <1>1, <1>6
       DEF ReportPulled, RecordChunk, NextChunk, AtChunk, AtFile, PullTidy, PullInOrder
  <2>2. <<0, i>> \in Chunk
    BY DEF Chunk
  <2>3. recorded' \subseteq Chunk /\ \A c \in recorded' : c[2] < NumChunks(c[1], 1)
    BY <2>1, <2>2 DEF TransferTypeOK
  <2>4. TransferTypeOK'
    BY <1>3, <2>1, <2>3
  <2>5. ASSUME NEW j \in 0 .. i PROVE <<0, j>> \in recorded'
    <3>1. j = i \/ j \in 0 .. (i - 1)
      OBVIOUS
    <3> QED
      BY <2>1, <3>1
  <2>6. PullInOrder'
    BY <1>2, <2>1, <2>5 DEF PullInOrder, AtFile, AtChunk
  <2>7. PulledChunks'
    BY <1>2, <2>1 DEF PullTidy, PulledChunks
  <2> QED
    BY <2>4, <2>6, <2>7 DEF PullTidy
<1> QED
  BY <1>5, <1>6

\* An adb pull that has been verified is the file.
AdbPullTidy ==
  /\ adb \in {"idle", "ok", "file", "verify", "report"}
  /\ verifies /\ adb \in {"report", "ok"} => Pulled

\* The steps of an ADB pull.
LEMMA AdbPullSteps ==
  ASSUME TransferTypeOK, AdbPullTidy, 0 \in File,
         UNCHANGED <<agentVars, network, workerVars, task, halt, parts, user, bundle>>,
         AdbPullStep
  PROVE  TransferTypeOK' /\ AdbPullTidy'
<1>1. /\ adbPos' = adbPos /\ (recorded' = recorded \/ recorded' = recorded \cup Split(0, 1))
  BY DEF AdbPullStep, AdbPull, VerifyAdbPull, ReportAdbPull, AdbPullGoto, RecordFile
<1>2. local' \in Content
  <2>1. CASE AdbPull
    <3>1. \A n \in 0 .. FileSize[0] : Holding(n, 0 .. (n - 1)) \in Content
      BY ContentOf, UnitChunks
    <3> QED
      BY <2>1, <3>1, WholeIs DEF AdbPull, TransferTypeOK
  <2> QED
    BY <2>1 DEF AdbPullStep, VerifyAdbPull, ReportAdbPull, TransferTypeOK
<1>3. Split(0, 1) \subseteq Chunk /\ \A c \in Split(0, 1) : c[2] < NumChunks(c[1], 1)
  BY UnitChunks DEF Chunk
<1>4. TransferTypeOK'
  BY <1>1, <1>2, <1>3 DEF TransferTypeOK, AgentTypeOK, agentVars, workerVars, NumChunks,
                          ChunkCount, AtLeastOne
<1>5. AdbPullTidy'
  BY DEF AdbPullTidy, AdbPullStep, AdbPull, VerifyAdbPull, ReportAdbPull, AdbPullGoto, Pulled,
         Whole, Holding, verifies
<1> QED
  BY <1>4, <1>5
-----------------------------------------------------------------------------
(***************************************************************************)
(* The inductive invariant: each kind of worker has its part of it.        *)
(***************************************************************************)
PushInv == adb \in {"idle", "ok"} /\ PushInOrder /\ (clean => PushTidy)

AdbInv == AdbInOrder /\ AdbVerified /\ (clean => AdbTidy)

LaneInv == LaneInOrder /\ LaneWhole /\ LaneTidy

TransferInv ==
  /\ TransferTypeOK
  /\ RootKnown
  /\ kind # "Dual" => bundle = {}
  /\ kind \in {"AdbPush", "AdbPull"} => pc \in {"idle", "ok"}
  /\ kind = "WifiPush" => PushInv
  /\ kind \in {"AdbPush", "Dual"} => AdbInv
  /\ kind = "Dual" => LaneInv
  /\ kind = "WifiPull" => adb \in {"idle", "ok"} /\ PullTidy
  /\ kind = "AdbPull" => AdbPullTidy

\* The kind, network and remains of a task.
LEMMA TaskFacts ==
  ASSUME task \in Tasks
  PROVE  /\ kind \in {"WifiPush", "WifiPull", "AdbPush", "AdbPull", "Dual"}
         /\ task.network \in {"steady", "lossy"}
         /\ task.old.file \in File /\ task.old.n \in Nat
         /\ 0 \in File
<1>1. task \in [kind : WifiKinds \cup AdbKinds, network : Networks, verifies : BOOLEAN,
                bundleBytes : Nat, old : Leftover, access : AccessKinds]
  BY WorkerAssumption
<1>2. task.old.file \in File /\ task.old.n \in Nat
  BY <1>1 DEF Leftover
<1>3. 0 \in File
  BY <1>2, ChunkingAssumption DEF File
<1> QED
  BY <1>1, <1>2, <1>3, ChunkPushAssumption DEF kind, WifiKinds, AdbKinds

\* The invariant holds at the start.
LEMMA InvAtFirst == Init /\ RootGiven => TransferInv
<1> SUFFICES ASSUME Init, RootGiven PROVE TransferInv
  OBVIOUS
<1>1. /\ task \in Tasks /\ network = task.network
      /\ active = FALSE /\ root = "default" /\ current = NoFile
      /\ pc = "idle" /\ pos = <<0, 0>> /\ adb = "idle" /\ adbPos = <<0, 0>>
      /\ recorded = {} /\ bundle = {}
  BY DEF Init, WorkerInit, PushInit
<1>2. /\ kind \in {"WifiPush", "WifiPull", "AdbPush", "AdbPull", "Dual"}
      /\ task.network \in {"steady", "lossy"}
      /\ task.old.file \in File /\ task.old.n \in Nat
      /\ 0 \in File
  BY <1>1, TaskFacts
<1>3. Holding(task.old.n, {}) \in Content /\ Absent \in Content
  BY <1>2, ContentOf, AbsentIs
<1>4. \A at : There(at) \in [Place -> Content]
  BY <1>3 DEF There
<1>5. temp \in [Place -> Content] /\ final \in [Place -> Content]
  <2>1. CASE kind \in PullKinds
    <3>1. PICK name : final = [p \in Place |-> IF p = <<name, 0>> THEN Whole(0) ELSE Absent]
      BY <2>1 DEF Init, DeviceInit
    <3> QED
      BY <1>2, <1>3, <1>4, <3>1, WholeIs DEF Init, DeviceInit
  <2>2. CASE kind \notin PullKinds
    BY <1>4, <2>2 DEF Init, DeviceInit
  <2> QED
    BY <2>1, <2>2
<1>6. parts \in [File -> [PartIndex -> PartState]]
  BY DEF Init, DeviceInit, PartState
<1>7. local \in Content /\ local.good = {}
  BY <1>2, <1>3, ContentOf, AbsentIs DEF Init, DeviceInit
<1>8. TransferTypeOK
  <2>1. AgentTypeOK
    BY <1>1, <1>5, ChunkingAssumption DEF AgentTypeOK, NoFile
  <2> QED
    BY <1>1, <1>2, <1>6, <1>7, <2>1 DEF TransferTypeOK
<1>9. ASSUME clean, kind \notin PullKinds
      PROVE  /\ \A p \in Place : temp[p] = Absent /\ final[p] = Absent
             /\ \A f \in File, i \in PartIndex : parts[f][i] = "none"
  <2>1. There("temp") = [p \in Place |-> Absent] /\ There("final") = [p \in Place |-> Absent]
    BY <1>9 DEF There, clean
  <2>2. temp = There("temp") /\ final = There("final")
    BY <1>9 DEF Init, DeviceInit
  <2>3. \A f \in File, i \in PartIndex : task.old # [at |-> "part", file |-> f, n |-> i]
    BY <1>9 DEF clean
  <2> QED
    BY <2>1, <2>2, <2>3 DEF Init, DeviceInit
<1>10. ASSUME clean, kind \notin PullKinds
       PROVE  \A f \in File : /\ TempAt(f) = Absent /\ FinalAt(f) = Absent
                              /\ temp[<<"default", f>>] = Absent
                              /\ final[<<"default", f>>] = Absent
  BY <1>9, <1>10 DEF TempAt, FinalAt, Place
<1>11. kind = "WifiPush" => PushInv
  <2>1. PushInOrder
    BY <1>1 DEF PushInOrder, PushLabels
  <2>2. ASSUME kind = "WifiPush", clean PROVE PushTidy
    <3>1. \A f \in File : Prefix(f, Absent)
      BY AbsentIs, UnitChunks DEF Prefix
    <3>2. PushedFiles
      BY <1>10, <2>2, <3>1, AbsentIs DEF PushedFiles, PullKinds
    <3> QED
      BY <1>1, <3>2 DEF PushTidy, PushedChunks, NoFile
  <2> QED
    BY <1>1, <2>1, <2>2 DEF PushInv
<1>12. kind \in {"AdbPush", "Dual"} => AdbInv
  <2>1. AdbInOrder /\ AdbVerified
    BY <1>1 DEF AdbInOrder, AdbBusy, AdbVerified, BehindAdb
  <2>2. ASSUME kind \in {"AdbPush", "Dual"}, clean PROVE AdbTidy
    BY <1>1, <1>9, <1>10, <2>2, AbsentIs
       DEF AdbTidy, FilesTidy, PartsTidy, AdbRecorded, AdbPlace, PullKinds
  <2> QED
    BY <2>1, <2>2 DEF AdbInv
<1>13. LaneInv
  BY <1>1 DEF LaneInv, LaneInOrder, LaneBusy, LaneWhole, BehindLane, LaneTidy
<1>14. PullTidy
  BY <1>1 DEF PullTidy, PullInOrder, PulledChunks, AtFile, AtChunk
<1>15. AdbPullTidy
  BY <1>1 DEF AdbPullTidy
<1> QED
  BY <1>1, <1>8, <1>11, <1>12, <1>13, <1>14, <1>15 DEF TransferInv, RootKnown

(***************************************************************************)
(* A pause, and the agent's coming and going, change nothing of it.        *)
(***************************************************************************)
LEMMA QuietStep ==
  ASSUME TransferInv,
         UNCHANGED <<temp, final, network, workerVars, task, adbVars, recorded, parts, bundle, local>>,
         AgentTypeOK', current' = current \/ current'.acked = {},
         active' => active /\ root' = root
  PROVE  TransferInv'
<1>1. /\ UNCHANGED <<pc, pos, adb, adbPos>> /\ kind' = kind
      /\ (clean' <=> clean) /\ (verifies' <=> verifies)
      /\ \A lane, f : Owns(lane, f)' <=> Owns(lane, f)
      /\ \A f : FinalAt(f)' = FinalAt(f) /\ TempAt(f)' = TempAt(f)
  BY DEF workerVars, adbVars, kind, clean, verifies, Owns, FinalAt, TempAt
<1>2. TransferTypeOK'
  BY <1>1 DEF TransferInv, TransferTypeOK, NumChunks, ChunkCount, AtLeastOne
<1>3. RootKnown'
  BY <1>1 DEF TransferInv, RootKnown
<1>4. kind = "WifiPush" => PushInv'
  <2>1. PushInOrder => PushInOrder'
    BY <1>1 DEF PushInOrder, AtFile, AtChunk, NumChunks, Checkpointed
  <2>2. PushTidy => PushTidy'
    <3>1. PushTidy => PushedFiles' /\ PushedChunks'
      BY TidyUnlessMoved DEF PushTidy
    <3> QED
      BY <1>1, <3>1 DEF PushTidy, Landed, OnDevice, AtFile, AtChunk
  <2> QED
    BY <1>1, <2>1, <2>2 DEF TransferInv, PushInv
<1>5. kind \in {"AdbPush", "Dual"} => AdbInv'
  <2>1. AdbInOrder => AdbInOrder'
    BY <1>1 DEF AdbInOrder, AdbFile, AdbChunk, NumChunks
  <2>2. AdbVerified => AdbVerified'
    BY <1>1 DEF AdbVerified, BehindAdb, AdbFile, Whole, Holding
  <2>3. AdbTidy => AdbTidy'
    BY <1>1 DEF AdbTidy, FilesTidy, PartsTidy, AdbRecorded, AdbPlace, AdbFile, AdbChunk, Whole,
                Holding, NumChunks
  <2> QED
    BY <1>1, <2>1, <2>2, <2>3 DEF TransferInv, AdbInv
<1>6. kind = "Dual" => LaneInv'
  BY <1>1 DEF TransferInv, LaneInv, LaneInOrder, LaneWhole, BehindLane, LaneTidy, AtFile, Whole,
              Holding
<1>7. kind = "WifiPull" => PullTidy'
  BY <1>1 DEF TransferInv, PullTidy, PullInOrder, PulledChunks, AtFile, AtChunk, Checkpointed,
              NumChunks
<1>8. kind = "AdbPull" => AdbPullTidy'
  BY <1>1 DEF TransferInv, AdbPullTidy, Pulled, Whole, Holding
<1> QED
  BY <1>1, <1>2, <1>3, <1>4, <1>5, <1>6, <1>7, <1>8 DEF TransferInv

(***************************************************************************)
(* A run begins, and the desktop ends, without a file being touched, except*)
(* those of a bundle that is cut off.                                      *)
(***************************************************************************)
LEMMA BeginStep ==
  ASSUME TransferInv, Begin, UNCHANGED shownVars
  PROVE  TransferInv'
<1>1. /\ UNCHANGED <<temp, final, current, active, root, network, task, recorded, parts, bundle,
                     local>>
      /\ kind' = kind /\ (clean' <=> clean) /\ (verifies' <=> verifies)
      /\ \A lane, f : Owns(lane, f)' <=> Owns(lane, f)
      /\ \A f : FinalAt(f)' = FinalAt(f) /\ TempAt(f)' = TempAt(f)
  BY DEF Begin, shownVars, agentVars, kind, clean, verifies, Owns, FinalAt, TempAt
<1>2. /\ pc' = (IF kind \in WifiKinds THEN "task" ELSE "ok") /\ pos' = <<0, 0>>
      /\ adb' = (IF kind \in AdbKinds THEN "file" ELSE "ok")
      /\ adbPos' = <<FirstFile("Adb"), 0>>
      /\ pc \in Resting /\ adb \in Resting
  BY DEF Begin, Running
<1>3. /\ FirstFile("Adb") \in Nat /\ Owns("Adb", FirstFile("Adb"))
      /\ \A g \in Nat : g < FirstFile("Adb") => ~ Owns("Adb", g)
  BY FirstOwned
<1>4. TransferTypeOK'
  <2>1. AgentTypeOK'
    BY <1>1 DEF TransferInv, TransferTypeOK, AgentTypeOK
  <2>2. pos' \in Nat \X Nat /\ adbPos' \in Nat \X Nat
    BY <1>2, <1>3
  <2> QED
    BY <1>1, <2>1, <2>2 DEF TransferInv, TransferTypeOK, NumChunks, ChunkCount, AtLeastOne
<1>5. RootKnown'
  BY <1>1, <1>2 DEF RootKnown, TransferInv
<1>6. bundle = {}
  BY <1>2, TaskFacts DEF TransferInv, LaneInv, LaneInOrder, LaneBusy, Resting
<1>7. kind = "WifiPush" => PushInv'
  <2>1. ASSUME kind = "WifiPush" PROVE PushInOrder' /\ adb' = "ok"
    BY <1>2, <2>1 DEF PushInOrder, PushLabels, WifiKinds, AdbKinds
  <2>2. ASSUME kind = "WifiPush", clean PROVE PushTidy'
    <3>1. PushedFiles' /\ PushedChunks'
      BY <1>1, <2>2, TidyUnlessMoved DEF TransferInv, PushInv, PushTidy
    <3> QED
      BY <1>2, <2>2, <3>1 DEF PushTidy, WifiKinds
  <2> QED
    BY <1>1, <2>1, <2>2 DEF PushInv
<1>8. kind \in {"AdbPush", "Dual"} => AdbInv'
  <2> SUFFICES ASSUME kind \in {"AdbPush", "Dual"} PROVE AdbInv'
    OBVIOUS
  <2>1. adb' = "file"
    BY <1>2 DEF AdbKinds
  <2>2. AdbInOrder'
    BY <1>1, <1>2, <1>3, <2>1 DEF AdbInOrder, AdbBusy, AdbFile, AdbChunk
  <2>3. \A f \in File : ~ BehindAdb(f)'
    BY <1>1, <1>2, <1>3, <2>1, ChunkingAssumption DEF BehindAdb, AdbFile, File
  <2>4. AdbVerified'
    BY <2>3 DEF AdbVerified
  <2>5. clean => AdbTidy'
    BY <1>1, <2>1 DEF TransferInv, AdbInv, AdbTidy, FilesTidy, PartsTidy, AdbRecorded, AdbPlace,
                      Whole, Holding, NumChunks
  <2> QED
    BY <1>1, <2>2, <2>4, <2>5 DEF AdbInv
<1>9. kind = "Dual" => LaneInv'
  <2> SUFFICES ASSUME kind = "Dual" PROVE LaneInv'
    OBVIOUS
  <2>1. pc' = "task"
    BY <1>2 DEF WifiKinds
  <2>2. LaneInOrder' /\ LaneWhole'
    BY <1>1, <1>2, <1>6, <2>1 DEF LaneInOrder, LaneBusy, LaneWhole, BehindLane
  <2>3. LaneTidy'
    BY <1>1 DEF TransferInv, LaneInv, LaneTidy
  <2> QED
    BY <2>2, <2>3 DEF LaneInv
<1>10. kind = "WifiPull" => adb' = "ok" /\ PullTidy'
  BY <1>1, <1>2 DEF TransferInv, PullTidy, PullInOrder, PulledChunks, AtFile, AtChunk, AdbKinds,
                    WifiKinds
<1>11. kind = "AdbPull" => AdbPullTidy'
  BY <1>2 DEF AdbPullTidy, AdbKinds
<1>12. kind \in {"AdbPush", "AdbPull"} => pc' = "ok"
  BY <1>2 DEF WifiKinds
<1> QED
  BY <1>1, <1>4, <1>5, <1>6, <1>7, <1>8, <1>9, <1>10, <1>11, <1>12 DEF TransferInv

\* It survives an exit of the desktop, a bundle broken off with it.
LEMMA DesktopEndsStep ==
  ASSUME TransferInv, DesktopEnds
  PROVE  TransferInv'
<1>1. /\ UNCHANGED <<network, task, recorded, parts, local>>
      /\ pc' = "idle" /\ pos' = <<0, 0>> /\ adb' = "idle" /\ adbPos' = <<0, 0>> /\ bundle' = {}
      /\ kind' = kind /\ (clean' <=> clean) /\ (verifies' <=> verifies)
      /\ \A lane, f : Owns(lane, f)' <=> Owns(lane, f)
  BY DEF DesktopEnds, PcEnds, AdbEnds, kind, clean, verifies, Owns
<1>2. /\ AgentTypeOK /\ bundle \subseteq File
      /\ kind = "Dual" => \A f \in bundle : Owns("Wifi", f)
  BY DEF TransferInv, TransferTypeOK, LaneInv, LaneInOrder
<1>3. ASSUME kind # "Dual" PROVE UNCHANGED agentVars
  BY <1>3 DEF DesktopEnds, TransferInv
<1>4. /\ AgentTypeOK' /\ UNCHANGED memoryVars
      /\ \A f \in File :
           /\ \/ FinalAt(f)' = FinalAt(f)
              \/ f \in bundle /\ FinalAt(f)' = Whole(f)
              \/ f \in bundle /\ FinalAt(f)' = Absent /\ network = "lossy"
           /\ \/ TempAt(f)' = TempAt(f)
              \/ TempAt(f)'.good \subseteq 0 .. (FileSize[f] - 1)
  <2>1. CASE UNCHANGED agentVars
    BY <1>2, <2>1 DEF agentVars, memoryVars, AgentTypeOK, FinalAt, TempAt
  <2>2. ASSUME pc = "send", NEW b \in bundle, BundleBreaks(bundle, b)
        PROVE  <1>4!:
    <3>1. active
      BY <2>2 DEF BundleBreaks, WriteBundle
    <3>2. root = "target"
      BY <2>2, <3>1 DEF TransferInv, RootKnown, PullTidy
    <3> QED
      BY <1>2, <2>2, <3>2, BundleBroken
  <2> QED
    BY <2>1, <2>2 DEF DesktopEnds
<1>5. TransferTypeOK'
  BY <1>1, <1>4 DEF TransferInv, TransferTypeOK, NumChunks, ChunkCount, AtLeastOne
<1>6. RootKnown'
  BY <1>1 DEF RootKnown, TransferInv
<1>7. kind = "WifiPush" => PushInv'
  <2>1. PushInOrder'
    BY <1>1 DEF PushInOrder, PushLabels
  <2>2. ASSUME kind = "WifiPush", clean PROVE PushTidy'
    <3>1. UNCHANGED agentVars
      BY <1>3, <2>2
    <3>2. PushedFiles' /\ PushedChunks'
      BY <1>1, <2>2, <3>1, TidyUnlessMoved DEF TransferInv, PushInv, PushTidy, agentVars
    <3> QED
      BY <1>1, <3>2 DEF PushTidy
  <2> QED
    BY <1>1, <2>1, <2>2 DEF PushInv
<1>8. kind \in {"AdbPush", "Dual"} => AdbInv'
  <2> SUFFICES ASSUME kind \in {"AdbPush", "Dual"} PROVE AdbInv'
    OBVIOUS
  <2>1. AdbInOrder' /\ AdbVerified'
    BY <1>1 DEF AdbInOrder, AdbBusy, AdbVerified, BehindAdb
  <2>2. ASSUME clean PROVE AdbTidy'
    <3>1. FilesTidy'
      <4> SUFFICES ASSUME NEW f \in File
                   PROVE  /\ FinalAt(f)'.there => FinalAt(f)' = Whole(f)
                          /\ FinalAt(f)'.good \subseteq 0 .. (FileSize[f] - 1)
                          /\ TempAt(f)'.good \subseteq 0 .. (FileSize[f] - 1)
        BY DEF FilesTidy, Whole, Holding
      <4>1. /\ FinalAt(f).there => FinalAt(f) = Whole(f)
            /\ FinalAt(f).good \subseteq 0 .. (FileSize[f] - 1)
            /\ TempAt(f).good \subseteq 0 .. (FileSize[f] - 1)
        BY <2>2 DEF TransferInv, AdbInv, AdbTidy, FilesTidy
      <4> QED
        BY <1>4, <4>1, WholeIs, AbsentIs
    <3>2. PartsTidy' /\ AdbPlace'
      BY <1>1, <2>2 DEF TransferInv, AdbInv, AdbTidy, PartsTidy, NumChunks, AdbPlace
    <3>3. AdbRecorded'
      <4> SUFFICES ASSUME NEW c \in recorded, Owns("Adb", c[1])
                   PROVE  FinalAt(c[1])'.there \/ parts[c[1]][c[2]] = "good"
        BY <1>1 DEF AdbRecorded
      <4>1. c[1] \in File /\ c[1] \in Nat
        BY ChunkingAssumption DEF TransferInv, TransferTypeOK, Chunk, File
      <4>2. FinalAt(c[1])' = FinalAt(c[1])
        <5>1. CASE kind = "Dual"
          BY <1>2, <1>4, <4>1, <5>1, DualOwner
        <5>2. CASE kind # "Dual"
          BY <1>3, <5>2 DEF agentVars, FinalAt
        <5> QED
          BY <5>1, <5>2
      <4> QED
        BY <2>2, <4>2 DEF TransferInv, AdbInv, AdbTidy, AdbRecorded
    <3> QED
      BY <3>1, <3>2, <3>3 DEF AdbTidy
  <2> QED
    BY <1>1, <2>1, <2>2 DEF AdbInv
<1>9. kind = "Dual" => LaneInv'
  <2> SUFFICES ASSUME kind = "Dual" PROVE LaneInv'
    OBVIOUS
  <2>1. LaneInOrder' /\ LaneWhole'
    BY <1>1 DEF LaneInOrder, LaneBusy, LaneWhole, BehindLane
  <2>2. LaneTidy'
    <3> SUFFICES ASSUME clean, network = "steady", NEW c \in recorded, Owns("Wifi", c[1])
                 PROVE  FinalAt(c[1])'.there
      BY <1>1 DEF LaneTidy
    <3>1. c[1] \in File
      BY DEF TransferInv, TransferTypeOK, Chunk
    <3>2. FinalAt(c[1]).there
      BY DEF TransferInv, LaneInv, LaneTidy
    <3> QED
      BY <1>4, <3>1, <3>2, WholeIs
  <2> QED
    BY <2>1, <2>2 DEF LaneInv
<1>10. kind = "WifiPull" => PullTidy'
  BY <1>1 DEF TransferInv, PullTidy, PullInOrder, PulledChunks, AtFile, AtChunk
<1>11. AdbPullTidy'
  BY <1>1 DEF AdbPullTidy
<1> QED
  BY <1>1, <1>5, <1>6, <1>7, <1>8, <1>9, <1>10, <1>11 DEF TransferInv

-----------------------------------------------------------------------------
(***************************************************************************)
(* A step of a thread keeps what holds of its own kind of worker; in a     *)
(* Dual task it also leaves the other lane as it was.                      *)
(***************************************************************************)
LEMMA WifiStepKeeps ==
  ASSUME TransferInv, WifiStep
  PROVE  TransferInv'
<1> USE DEF TransferInv
<1>1. /\ UNCHANGED <<task, adbVars, halt, parts, user>> /\ kind' = kind
      /\ (clean' <=> clean) /\ UNCHANGED adb
      /\ kind \in {"WifiPush", "WifiPull", "AdbPush", "AdbPull", "Dual"} /\ 0 \in File
  BY TaskFacts DEF WifiStep, kind, clean, adbVars, TransferTypeOK
<1>2. CASE kind = "WifiPush" /\ WifiPushStep /\ UNCHANGED <<bundle, local>>
  <2>1. PushInOrder /\ (clean => PushTidy) /\ TransferTypeOK /\ RootKnown
    BY <1>2 DEF PushInv
  <2>2. TransferTypeOK' /\ RootKnown' /\ PushInOrder' /\ (clean => PushTidy')
    <3>1. CASE ReportChunk \/ ReportFile
      BY <1>1, <1>2, <2>1, <3>1, PushReports
    <3>2. CASE /\ UNCHANGED recorded
               /\ TellDirectories \/ WifiPushPauses \/ AtNewFile \/ AtNewChunk \/ AskStatus
                    \/ AskStat \/ VerifyFile
      BY <1>1, <1>2, <2>1, <3>2, PushWithoutAgent
    <3>3. CASE /\ UNCHANGED recorded
               /\ TellTask \/ TellRoot \/ TellFile \/ TellComplete \/ PushBinary \/ PushBase64
      BY <1>1, <1>2, <2>1, <3>3, PushWithAgent
    <3> QED
      BY <1>2, <3>1, <3>2, <3>3 DEF WifiPushStep, PushStep
  <2> QED
    BY <1>1, <1>2, <2>2 DEF PushInv
<1>3. CASE kind = "Dual" /\ WifiLaneStep /\ UNCHANGED local
  <2>1. /\ TransferTypeOK /\ RootKnown /\ LaneInOrder /\ LaneWhole /\ LaneTidy
        /\ AdbInOrder /\ AdbVerified /\ (clean => AdbTidy) /\ (clean => FilesTidy)
    BY <1>3 DEF LaneInv, AdbInv, AdbTidy
  <2>2. /\ TransferTypeOK' /\ RootKnown' /\ LaneInOrder' /\ LaneWhole' /\ LaneTidy'
        /\ (clean => FilesTidy') /\ LaneFrame
    <3>1. CASE /\ UNCHANGED <<network, recorded>>
               /\ AtBundleFile \/ AddToNextBundle \/ LastBundle
      BY <1>1, <1>3, <2>1, <3>1, LaneCollects
    <3>2. CASE UNCHANGED <<network, recorded>> /\ SendBundle
      BY <1>1, <1>3, <2>1, <3>2, LaneSends
    <3>3. CASE /\ UNCHANGED network
               /\ ReportEntry \/ (VerifyEntry /\ UNCHANGED recorded)
      BY <1>1, <1>3, <2>1, <3>3, LaneConfirms
    <3>4. CASE /\ UNCHANGED <<recorded, bundle>>
               /\ TellDualTask \/ TellDualRoot \/ TellDirectories
      BY <1>1, <1>3, <2>1, <3>4, LaneTells
    <3> QED
      BY <1>3, <3>1, <3>2, <3>3, <3>4 DEF WifiLaneStep
  <2>3. AdbInOrder' /\ AdbVerified' /\ (clean => AdbTidy')
    BY <1>1, <1>3, <2>1, <2>2, LaneLeavesAdb
  <2> QED
    BY <1>1, <1>3, <2>2, <2>3 DEF LaneInv, AdbInv
<1>4. CASE kind = "WifiPull" /\ WifiPullStep /\ UNCHANGED bundle
  <2>1. TransferTypeOK /\ PullTidy
    BY <1>4
  <2>2. TransferTypeOK' /\ PullTidy'
    <3>1. CASE /\ UNCHANGED recorded
               /\ \/ (PullTask \/ PullRoot) /\ UNCHANGED local
                  \/ (OpenLocal \/ PullChunk \/ VerifyPull) /\ UNCHANGED network
      BY <1>1, <1>4, <2>1, <3>1, PullAsks
    <3>2. CASE UNCHANGED network /\ (ReportResumed \/ ReportPulled \/ ReportPull)
      BY <1>1, <1>4, <2>1, <3>2, PullReports
    <3> QED
      BY <1>4, <3>1, <3>2 DEF WifiPullStep
  <2>3. RootKnown'
    BY <1>1, <1>4 DEF RootKnown
  <2> QED
    BY <1>1, <1>4, <2>2, <2>3
<1> QED
  BY <1>2, <1>3, <1>4 DEF WifiStep, PcStep

\* The steps of the ADB worker keep it.
LEMMA AdbStepKeeps ==
  ASSUME TransferInv, AdbStep
  PROVE  TransferInv'
<1> USE DEF TransferInv
<1>1. /\ UNCHANGED <<network, workerVars, task, halt, user, bundle>> /\ kind' = kind
      /\ (clean' <=> clean) /\ UNCHANGED pc /\ bundle' = bundle
      /\ kind \in {"WifiPush", "WifiPull", "AdbPush", "AdbPull", "Dual"} /\ 0 \in File
  BY TaskFacts DEF AdbStep, kind, clean, workerVars, TransferTypeOK
<1>2. CASE kind \in {"AdbPush", "Dual"} /\ AdbPushStep /\ UNCHANGED local
  <2>1. TransferTypeOK /\ AdbInOrder /\ AdbVerified /\ (clean => AdbTidy)
    BY <1>2 DEF AdbInv
  <2>2. /\ TransferTypeOK' /\ AdbInOrder' /\ AdbVerified' /\ (clean => AdbTidy')
        /\ UNCHANGED memoryVars
        /\ \A g \in File : ~ Owns("Adb", g) => FinalAt(g)' = FinalAt(g)
        /\ \A c \in recorded' \ recorded : Owns("Adb", c[1])
    <3>1. CASE AskRemoteSize \/ AdbAllDone \/ AdbPauses \/ AdbFails \/ LockAggregate
                 \/ ShowOnCard \/ AdbVerify
      <4>1. /\ TransferTypeOK' /\ AdbInOrder' /\ AdbVerified' /\ (clean => AdbTidy')
            /\ UNCHANGED <<agentVars, recorded, parts>>
        BY <1>1, <1>2, <2>1, <3>1, AdbMovesOn
      <4> QED
        BY <4>1 DEF agentVars, memoryVars, FinalAt
    <3>2. CASE PushPart \/ ReportPart \/ ReportAdbFile
      <4>1. /\ TransferTypeOK' /\ AdbInOrder' /\ AdbVerified' /\ (clean => AdbTidy')
            /\ UNCHANGED agentVars
            /\ \A c \in recorded' \ recorded : Owns("Adb", c[1])
        BY <1>1, <1>2, <2>1, <3>2, AdbCounts
      <4> QED
        BY <4>1 DEF agentVars, memoryVars, FinalAt
    <3>3. CASE AssembleStops \/ Assemble
      BY <1>1, <1>2, <2>1, <3>3, AdbAssembles
    <3> QED
      BY <1>2, <3>1, <3>2, <3>3 DEF AdbPushStep
  <2>3. RootKnown'
    BY <1>1, <2>2 DEF RootKnown, memoryVars
  <2>4. kind = "Dual" => LaneInv'
    BY <1>1, <2>1, <2>2, AdbLeavesLane DEF LaneInv
  <2> QED
    BY <1>1, <1>2, <2>2, <2>3, <2>4 DEF AdbInv
<1>3. CASE kind = "AdbPull" /\ AdbPullStep /\ UNCHANGED <<agentVars, parts>>
  <2>1. TransferTypeOK' /\ AdbPullTidy'
    BY <1>1, <1>3, AdbPullSteps
  <2>2. RootKnown'
    BY <1>1, <1>3 DEF RootKnown, agentVars
  <2> QED
    BY <1>1, <1>3, <2>1, <2>2
<1> QED
  BY <1>2, <1>3 DEF AdbStep

(***************************************************************************)
(* TransferInv holds of every state of a transfer.                         *)
(***************************************************************************)
LEMMA EveryStepKeeps == TransferInv /\ [Next]_vars => TransferInv'
<1> SUFFICES ASSUME TransferInv, [Next]_vars PROVE TransferInv'
  OBVIOUS
<1>0. AgentTypeOK
  BY DEF TransferInv, TransferTypeOK
<1>1. CASE Begin /\ UNCHANGED shownVars
  BY <1>1, BeginStep
<1>2. CASE WifiStep
  BY <1>2, WifiStepKeeps
<1>3. CASE AdbStep
  BY <1>3, AdbStepKeeps
<1>4. CASE Pause \/ PauseEngine \/ UNCHANGED vars
  <2>1. /\ UNCHANGED <<temp, final, network, workerVars, task, adbVars, recorded, parts, bundle,
                       local>>
        /\ UNCHANGED <<active, root, current>>
    BY <1>4 DEF Pause, PauseEngine, vars, shownVars, pushVars, agentVars
  <2>2. AgentTypeOK'
    BY <1>0, <2>1 DEF AgentTypeOK
  <2> QED
    BY <2>1, <2>2, QuietStep
<1>5. CASE DesktopEnds
  BY <1>5, DesktopEndsStep
<1>6. CASE AgentGoes /\ UNCHANGED <<task, adbVars, halt, recorded, shownVars>>
  <2>1. /\ UNCHANGED <<temp, final, network, workerVars, task, adbVars, recorded, parts, bundle,
                       local>>
        /\ ~ active' /\ current'.acked = {}
    BY <1>6 DEF AgentGoes, AgentRestarts, shownVars, NoFile
  <2>2. AgentTypeOK'
    BY <1>0, <1>6, HandlersKeepTypes DEF AgentGoes
  <2> QED
    BY <2>1, <2>2, QuietStep
<1> QED
  BY <1>1, <1>2, <1>3, <1>4, <1>5, <1>6 DEF Next

\* No step changes the task.
LEMMA TaskStays == [Next]_vars => task' = task
  BY DEF Next, Begin, WifiStep, AdbStep, Pause, PauseEngine, DesktopEnds, vars

(***************************************************************************)
(* The inductive invariant of the five transfers, whose agent, when it is  *)
(* told of a root, has access to it: the workers are where their loops put *)
(* them, the agent writes under the root it was told of last, and what is  *)
(* recorded, on the device, in the parts pushed over adb and in the local  *)
(* file of a pull fits together.                                           *)
(***************************************************************************)
THEOREM TransferInvHolds == Spec => [](RootGiven => TransferInv)
<1> DEFINE Inv == RootGiven => TransferInv
<1>1. Init => Inv
  BY InvAtFirst
<1>2. Inv /\ [Next]_vars => Inv'
  <2>1. task' = task => (RootGiven' <=> RootGiven)
    BY DEF kind
  <2> QED
    BY <2>1, TaskStays, EveryStepKeeps
<1> HIDE DEF Inv
<1>3. Spec => []Inv
  BY <1>1, <1>2, PTL DEF Spec
<1> QED
  BY <1>3 DEF Inv
-----------------------------------------------------------------------------
(***************************************************************************)
(* What the run states of the transfers, for every instance.  A chunk in   *)
(* the checkpoint is one a resumed run will skip: it is on the device.     *)
(***************************************************************************)
THEOREM RecordedChunksOnDeviceHolds == Spec => []RecordedChunksOnDevice
<1>1. (RootGiven => TransferInv) => RecordedChunksOnDevice
  <2> SUFFICES ASSUME TransferInv, clean, kind \notin PullKinds, NEW c \in recorded,
                      FileSize[c[1]] # 0, ~ (Bundled(c[1]) /\ network = "lossy")
               PROVE  c[2] \in OnDevice(c[1]) \cup InParts(c[1])
    BY DEF RecordedChunksOnDevice
  <2>1. /\ kind \in {"WifiPush", "AdbPush", "Dual"}
        /\ c[1] \in File /\ c[1] \in Nat /\ FileSize[c[1]] \in Nat
        /\ c[2] \in Nat /\ c[2] < NumChunks(c[1], 1) /\ NumChunks(c[1], 1) = FileSize[c[1]]
        /\ network \in {"steady", "lossy"}
    BY TaskFacts, UnitChunks, ChunkingAssumption
       DEF TransferInv, TransferTypeOK, PullKinds, Chunk, File
  <2>2. CASE kind = "WifiPush"
    BY <2>1, <2>2 DEF TransferInv, PushInv, PushTidy, PushedChunks, Landed
  <2>3. CASE FinalAt(c[1]).there /\ kind \in {"AdbPush", "Dual"}
    <3>1. FinalAt(c[1]) = Whole(c[1])
      BY <2>1, <2>3 DEF TransferInv, AdbInv, AdbTidy, FilesTidy
    <3>2. c[2] \in FinalAt(c[1]).good
      BY <2>1, <3>1, WholeIs
    <3> QED
      BY <3>2 DEF OnDevice, FinalAt
  <2>4. CASE kind \in {"AdbPush", "Dual"} /\ Owns("Adb", c[1]) /\ ~ FinalAt(c[1]).there
    <3>1. parts[c[1]][c[2]] = "good"
      BY <2>4 DEF TransferInv, AdbInv, AdbTidy, AdbRecorded
    <3>2. c[2] \in PartIndex
      BY <2>1, AdbPushAssumption, UnitChunks DEF PartIndex
    <3> QED
      BY <3>1, <3>2 DEF InParts, GoodParts
  <2>5. CASE kind = "Dual" /\ ~ Owns("Adb", c[1]) /\ ~ FinalAt(c[1]).there
    <3>1. Owns("Wifi", c[1])
      BY <2>1, <2>5, DualOwner
    <3>2. network = "steady"
      BY <2>1, <2>5, <3>1 DEF Bundled
    <3> QED
      BY <2>5, <3>1, <3>2 DEF TransferInv, LaneInv, LaneTidy
  <2>6. kind = "AdbPush" => Owns("Adb", c[1])
    BY DEF Owns
  <2> QED
    BY <2>1, <2>2, <2>3, <2>4, <2>5, <2>6
<1> QED
  BY <1>1, TransferInvHolds, PTL

(***************************************************************************)
(* A file under its final name is never a part of the source.              *)
(***************************************************************************)
THEOREM FinalFilesAreWholeHolds == Spec => []FinalFilesAreWhole
<1>1. (RootGiven => TransferInv) => FinalFilesAreWhole
  <2> SUFFICES ASSUME TransferInv, clean, kind \notin PullKinds, NEW f \in File,
                      FinalAt(f).there
               PROVE  FinalAt(f) = Whole(f)
    BY DEF FinalFilesAreWhole
  <2>1. kind \in {"WifiPush", "AdbPush", "Dual"}
    BY TaskFacts DEF TransferInv, TransferTypeOK, PullKinds
  <2>2. CASE kind = "WifiPush"
    BY <2>2 DEF TransferInv, PushInv, PushTidy, PushedFiles
  <2>3. CASE kind \in {"AdbPush", "Dual"}
    BY <2>3 DEF TransferInv, AdbInv, AdbTidy, FilesTidy
  <2> QED
    BY <2>1, <2>2, <2>3
<1> QED
  BY <1>1, TransferInvHolds, PTL

(***************************************************************************)
(* What a pull has recorded is in the file on the PC, through every end    *)
(* and resumption of it.                                                   *)
(***************************************************************************)
THEOREM PulledChunksAreLocalHolds == Spec => []PulledChunksAreLocal
<1>1. (RootGiven => TransferInv) => PulledChunksAreLocal
  BY DEF TransferInv, PulledChunksAreLocal, PullTidy, PulledChunks
<1> QED
  BY <1>1, TransferInvHolds, PTL

(***************************************************************************)
(* A verifying run of adb or of both lanes that has ended well has every   *)
(* file whole in its place, whatever was there before.                     *)
(***************************************************************************)
THEOREM AdbAndDualVerifyAllHolds == Spec => []AdbAndDualVerifyAll
<1>1. (RootGiven => TransferInv) => AdbAndDualVerifyAll
  <2> SUFFICES ASSUME TransferInv, kind \in {"AdbPush", "Dual", "AdbPull"}, verifies, EndedWell
               PROVE  Arrived
    BY DEF AdbAndDualVerifyAll, VerifiedTransfersAreWhole
  <2>1. pc = "ok" /\ adb = "ok"
    BY DEF EndedWell
  <2>2. CASE kind = "AdbPull"
    BY <2>1, <2>2 DEF TransferInv, AdbPullTidy, Arrived, PullKinds
  <2>3. CASE kind \in {"AdbPush", "Dual"}
    <3> SUFFICES ASSUME NEW f \in File PROVE FinalAt(f) = Whole(f)
      BY <2>3 DEF Arrived, PullKinds
    <3>0. f \in Nat
      BY ChunkingAssumption DEF File
    <3>1. CASE kind = "AdbPush" \/ Owns("Adb", f)
      BY <2>1, <2>3, <3>1 DEF TransferInv, AdbInv, AdbVerified, BehindAdb
    <3>2. CASE kind = "Dual" /\ Owns("Wifi", f)
      BY <2>1, <3>2 DEF TransferInv, LaneInv, LaneWhole, BehindLane
    <3> QED
      BY <2>3, <3>0, <3>1, <3>2, OneOwner
  <2> QED
    BY <2>2, <2>3
<1> QED
  BY <1>1, TransferInvHolds, PTL
-----------------------------------------------------------------------------
(***************************************************************************)
(* The steps of the abstract transfer.                                     *)
(***************************************************************************)
TransferStep ==
  [Transfer!Deliver \/ Transfer!Record \/ Transfer!Publish]_(Transfer!transferVars)

\* A step that delivers, records and publishes nothing.
LEMMA Stutters ==
  ASSUME UNCHANGED <<Delivered, RecordedByChunks, Published>>
  PROVE  TransferStep
  BY DEF TransferStep, Transfer!transferVars

\* A step that delivers one chunk.
LEMMA Delivers ==
  ASSUME NEW f \in File, NEW c \in Split(f, 1), Delivered' = Delivered \cup {c},
         UNCHANGED <<RecordedByChunks, Published>>
  PROVE  TransferStep
  BY DEF TransferStep, Transfer!Deliver

\* A step that records chunks of one file that are delivered.
LEMMA Records ==
  ASSUME NEW f \in File, NEW S \in SUBSET Split(f, 1), S \subseteq Delivered,
         RecordedByChunks' = RecordedByChunks \cup S,
         UNCHANGED <<Delivered, Published>>
  PROVE  TransferStep
  BY DEF TransferStep, Transfer!Record

\* A step that publishes a file all of whose chunks are recorded.
LEMMA Publishes ==
  ASSUME NEW f \in File, Split(f, 1) \subseteq RecordedByChunks,
         Published' = Published \cup {f},
         UNCHANGED <<Delivered, RecordedByChunks>>
  PROVE  TransferStep
  BY DEF TransferStep, Transfer!Publish

-----------------------------------------------------------------------------
\* What stays the same while the task does.
LEMMA SameTask ==
  ASSUME task' = task
  PROVE  /\ kind' = kind /\ (clean' <=> clean) /\ (RootGiven' <=> RootGiven)
         /\ ByChunks' = ByChunks
         /\ \A lane, f : Owns(lane, f)' <=> Owns(lane, f)
  BY DEF kind, clean, ByChunks, Bundled, Owns

\* No file has a chunk more.
LEMMA DeliveredUnmoved ==
  ASSUME task' = task, \A f \in ByChunks : DeliveredOf(f)' = DeliveredOf(f)
  PROVE  Delivered' = Delivered
<1>1. ByChunks' = ByChunks
  BY SameTask
<1> QED
  BY <1>1 DEF Delivered

\* One file has.
LEMMA DeliveredOneMore ==
  ASSUME task' = task, NEW f \in ByChunks, NEW c,
         DeliveredOf(f)' = DeliveredOf(f) \cup {c},
         \A g \in ByChunks : g # f => DeliveredOf(g)' = DeliveredOf(g)
  PROVE  Delivered' = Delivered \cup {c}
<1>1. ByChunks' = ByChunks
  BY SameTask
<1>2. Delivered' = UNION {DeliveredOf(g)' : g \in ByChunks}
  BY <1>1 DEF Delivered
<1>3. ASSUME NEW x PROVE x \in Delivered' <=> x \in Delivered \cup {c}
  <2>1. x \in Delivered' <=> \E g \in ByChunks : x \in DeliveredOf(g)'
    BY <1>2
  <2>2. x \in Delivered <=> \E g \in ByChunks : x \in DeliveredOf(g)
    BY DEF Delivered
  <2> QED
    BY <2>1, <2>2
<1> QED
  BY <1>3

\* What a file has is seen under its two names, in its parts and on the PC.
Untouched(f) ==
  IF kind = "WifiPull" THEN f # 0 \/ local' = local
  ELSE /\ temp'[<<"target", f>>] = temp[<<"target", f>>]
       /\ final'[<<"target", f>>] = final[<<"target", f>>]
       /\ parts'[f] = parts[f]

\* A file nobody touches has the chunks it had.
LEMMA FileUnmoved ==
  ASSUME task' = task, NEW f \in File, Untouched(f)
  PROVE  /\ DeliveredOf(f)' = DeliveredOf(f)
         /\ kind # "WifiPull" => FinalAt(f)' = FinalAt(f)
<1>1. kind' = kind
  BY SameTask
<1>2. CASE kind = "WifiPull"
  <2>1. InPlace(f)' = InPlace(f) /\ EmptyArrived(f)' = EmptyArrived(f)
    BY <1>1, <1>2 DEF Untouched, InPlace, EmptyArrived
  <2> QED
    BY <1>2, <2>1 DEF DeliveredOf
<1>3. CASE kind # "WifiPull"
  <2>1. /\ OnDevice(f)' = OnDevice(f) /\ GoodParts(f)' = GoodParts(f)
        /\ FinalAt(f)' = FinalAt(f) /\ parts'[f] = parts[f]
        /\ temp'[<<"target", f>>] = temp[<<"target", f>>]
    BY <1>3 DEF Untouched, OnDevice, GoodParts, FinalAt
  <2>2. InParts(f)' = InParts(f)
    BY <2>1 DEF InParts
  <2>3. InPlace(f)' = InPlace(f) /\ EmptyArrived(f)' = EmptyArrived(f)
    BY <1>1, <1>3, <2>1, <2>2 DEF InPlace, EmptyArrived
  <2> QED
    BY <1>3, <2>1, <2>3 DEF DeliveredOf
<1> QED
  BY <1>2, <1>3

\* Nothing is published.
LEMMA PublishedUnmoved ==
  ASSUME task' = task, kind # "WifiPull" => \A f \in ByChunks : FinalAt(f)' = FinalAt(f)
  PROVE  Published' = Published
<1>1. kind' = kind /\ ByChunks' = ByChunks
  BY SameTask
<1> QED
  BY <1>1 DEF Published

\* Nothing is recorded.
LEMMA RecordedUnmoved ==
  ASSUME task' = task, recorded' = recorded
  PROVE  RecordedByChunks' = RecordedByChunks
  BY SameTask DEF RecordedByChunks

\* Nothing that the transfer is about changes.
LEMMA NothingMoves ==
  ASSUME task' = task, RecordedByChunks' = RecordedByChunks,
         \A f \in ByChunks : Untouched(f)
  PROVE  TransferStep
<1>1. \A f \in ByChunks : DeliveredOf(f)' = DeliveredOf(f)
                          /\ (kind # "WifiPull" => FinalAt(f)' = FinalAt(f))
  BY FileUnmoved DEF ByChunks
<1> QED
  BY <1>1, DeliveredUnmoved, PublishedUnmoved, Stutters

(***************************************************************************)
(* A chunk that is recorded has been delivered.                            *)
(***************************************************************************)
LEMMA RecordsChunks ==
  ASSUME task' = task, \A g \in ByChunks : Untouched(g),
         NEW f \in ByChunks, NEW S \in SUBSET Split(f, 1), S \subseteq DeliveredOf(f),
         recorded' = recorded \cup S
  PROVE  TransferStep
<1>1. \A g \in ByChunks : DeliveredOf(g)' = DeliveredOf(g)
                          /\ (kind # "WifiPull" => FinalAt(g)' = FinalAt(g))
  BY FileUnmoved DEF ByChunks
<1>2. UNCHANGED <<Delivered, Published>>
  BY <1>1, DeliveredUnmoved, PublishedUnmoved
<1>3. f \in File /\ S \subseteq Delivered
  BY DEF ByChunks, Delivered
<1>4. \A c \in S : c[1] = f
  BY DEF Split
<1>5. ByChunks' = ByChunks
  BY SameTask
<1>6. RecordedByChunks' = RecordedByChunks \cup S
  BY <1>4, <1>5 DEF RecordedByChunks
<1> QED
  BY <1>2, <1>3, <1>6, Records
-----------------------------------------------------------------------------
(***************************************************************************)
(* A step that only moves one file delivers a chunk of it or publishes it. *)
(***************************************************************************)
LEMMA OneDelivers ==
  ASSUME task' = task, recorded' = recorded, NEW f \in ByChunks, NEW c \in Split(f, 1),
         DeliveredOf(f)' = DeliveredOf(f) \cup {c},
         kind # "WifiPull" => FinalAt(f)' = FinalAt(f),
         \A g \in ByChunks : g # f => Untouched(g)
  PROVE  TransferStep
<1>1. \A g \in ByChunks : g # f => DeliveredOf(g)' = DeliveredOf(g)
                                   /\ (kind # "WifiPull" => FinalAt(g)' = FinalAt(g))
  BY FileUnmoved DEF ByChunks
<1>2. Delivered' = Delivered \cup {c}
  BY <1>1, DeliveredOneMore
<1>3. UNCHANGED <<RecordedByChunks, Published>>
  BY <1>1, RecordedUnmoved, PublishedUnmoved
<1>4. f \in File
  BY DEF ByChunks
<1> QED
  BY <1>2, <1>3, <1>4, Delivers

\* One file is published, with the chunks it had.
LEMMA OnePublishes ==
  ASSUME task' = task, recorded' = recorded, NEW f \in ByChunks, kind # "WifiPull",
         DeliveredOf(f)' = DeliveredOf(f), FinalAt(f)'.there, Checkpointed(f),
         \A g \in ByChunks : g # f => Untouched(g)
  PROVE  TransferStep
<1>1. \A g \in ByChunks : /\ DeliveredOf(g)' = DeliveredOf(g)
                          /\ g # f => FinalAt(g)' = FinalAt(g)
  BY FileUnmoved DEF ByChunks
<1>2. UNCHANGED <<Delivered, RecordedByChunks>>
  BY <1>1, DeliveredUnmoved, RecordedUnmoved
<1>3. kind' = kind /\ ByChunks' = ByChunks
  BY SameTask
<1>4. Published' = Published \cup {f}
  BY <1>1, <1>3 DEF Published
<1>5. f \in File
  BY DEF ByChunks
<1>6. Split(f, 1) \subseteq RecordedByChunks
  <2>1. \A c \in Split(f, 1) : c[1] = f
    BY DEF Split
  <2> QED
    BY <2>1 DEF Checkpointed, RecordedByChunks
<1> QED
  BY <1>2, <1>4, <1>5, <1>6, Publishes

\* A transfer that does not go by chunks takes no abstract step.
LEMMA OutsideChunks ==
  ASSUME task' = task, kind = "AdbPull" \/ ~ clean \/ ~ RootGiven
  PROVE  TransferStep
<1>1. ByChunks = {} /\ ByChunks' = {}
  BY SameTask DEF ByChunks
<1> QED
  BY <1>1, Stutters DEF Delivered, RecordedByChunks, Published

\* What a write brings, and what is moved.
LEMMA WriteDelivers ==
  ASSUME kind = "WifiPush", kind' = kind, NEW f \in File, NEW i \in Nat, i < NumChunks(f, 1),
         TempAt(f) \in Content, TempAt(f)' = Written(TempAt(f), f, {i}),
         FinalAt(f)' = FinalAt(f), parts' = parts
  PROVE  DeliveredOf(f)' = DeliveredOf(f) \cup {<<f, i>>}
<1>1. /\ TempAt(f)'.there
      /\ TempAt(f)'.good = TempAt(f).good \cup (IF i < FileSize[f] THEN {i} ELSE {})
  BY WrittenIs
<1>2. /\ FileSize[f] \in Nat
      /\ NumChunks(f, 1) = IF FileSize[f] = 0 THEN 1 ELSE FileSize[f]
      /\ Split(f, 1) = {f} \X (0 .. (NumChunks(f, 1) - 1))
  BY UnitChunks
<1>3. InParts(f)' = InParts(f)
  BY DEF InParts, GoodParts
<1>4. CASE FileSize[f] > 0
  <2>1. OnDevice(f)' = OnDevice(f) \cup {i}
    <3>1. TempAt(f)'.good = TempAt(f).good \cup {i}
      <4>1. i < FileSize[f]
        BY <1>2, <1>4
      <4>2. (IF i < FileSize[f] THEN {i} ELSE {}) = {i}
        BY <4>1, Zenon
      <4>3. TempAt(f)'.good = TempAt(f).good \cup (IF i < FileSize[f] THEN {i} ELSE {})
        BY <1>1
      <4> QED
        BY <4>2, <4>3, Zenon
    <3>2. /\ OnDevice(f) = TempAt(f).good \cup FinalAt(f).good
          /\ OnDevice(f)' = TempAt(f)'.good \cup FinalAt(f)'.good
      BY DEF OnDevice, TempAt, FinalAt
    <3> QED
      BY <3>1, <3>2
  <2>2. InPlace(f)' = InPlace(f) \cup {i}
    BY <1>3, <2>1 DEF InPlace
  <2> QED
    BY <1>4, <2>2 DEF DeliveredOf
<1>5. CASE FileSize[f] = 0
  <2>1. EmptyArrived(f)'
    BY <1>1 DEF EmptyArrived, TempAt
  <2>2. i = 0 /\ Split(f, 1) = {<<f, 0>>}
    BY <1>2, <1>5
  <2> QED
    BY <1>5, <2>1, <2>2 DEF DeliveredOf
<1> QED
  BY <1>2, <1>4, <1>5

\* The Wi-Fi push, step by step.
LEMMA PushRefines ==
  ASSUME TransferInv, kind = "WifiPush", clean, WifiPushStep,
         UNCHANGED <<task, adbVars, halt, parts, user, bundle, local>>
  PROVE  TransferStep
<1>1. /\ TransferTypeOK /\ RootKnown /\ PushInOrder /\ PushTidy
      /\ task' = task /\ parts' = parts /\ kind' = kind /\ ByChunks = File
  <2>1. RootGiven
    BY DEF TransferInv, RootKnown
  <2> QED
    BY <2>1 DEF TransferInv, PushInv, kind, ByChunks, Bundled
<1>2. CASE UNCHANGED <<temp, final, recorded>>
  <2>1. \A f \in ByChunks : Untouched(f)
    BY <1>1, <1>2 DEF Untouched
  <2> QED
    BY <1>1, <1>2, <2>1, NothingMoves, RecordedUnmoved
<1>3. CASE /\ pc \in PushLabels \ {"chunk"} /\ WriteChunks(AtFile, {AtChunk})
           /\ UNCHANGED recorded
  <2>1. PICK f \in File, i \in Nat : pos = <<f, i>> /\ i < NumChunks(f, 1)
    BY <1>1, <1>3 DEF TransferTypeOK, PushInOrder, AtFile, AtChunk, PushLabels
  <2>2. WriteChunks(f, {i}) /\ root = "target" /\ AgentTypeOK
    BY <1>1, <1>3, <2>1
       DEF AtFile, AtChunk, RootKnown, WriteChunks, CanWrite, TransferTypeOK, PushLabels
  <2>3. /\ final' = final /\ TempAt(f)' = Written(TempAt(f), f, {i})
        /\ \A p \in Place : p # <<"target", f>> => temp'[p] = temp[p]
    BY <2>2, WriteAtTarget
  <2>4. TempAt(f) \in Content /\ FinalAt(f)' = FinalAt(f)
    BY <2>2, <2>3, TargetIsPlace DEF AgentTypeOK, TempAt, FinalAt
  <2>5. DeliveredOf(f)' = DeliveredOf(f) \cup {<<f, i>>}
    BY <1>1, <2>1, <2>3, <2>4, WriteDelivers
  <2>6. \A g \in ByChunks : g # f => Untouched(g)
    BY <1>1, <2>3, TargetIsPlace DEF Untouched
  <2>7. <<f, i>> \in Split(f, 1)
    BY <2>1, UnitChunks
  <2> QED
    BY <1>1, <1>3, <2>4, <2>5, <2>6, <2>7, OneDelivers
<1>4. CASE pc = "complete" /\ CompleteFile(AtFile) /\ UNCHANGED recorded
  <2>1. PICK f \in File : AtFile = f
    BY <1>1, <1>4 DEF PushInOrder
  <2>2. (active => root = "target") /\ AgentTypeOK /\ CompleteFile(f) /\ Checkpointed(f)
    BY <1>1, <1>4, <2>1 DEF RootKnown, TransferTypeOK, PushInOrder
  <2>3. /\ \A p \in Place : p # <<"target", f>> => temp'[p] = temp[p] /\ final'[p] = final[p]
        /\ \/ UNCHANGED <<temp, final>>
           \/ TempAt(f).there /\ FinalAt(f)' = TempAt(f) /\ TempAt(f)' = Absent
           \/ ~ TempAt(f).there /\ FileSize[f] = 0
              /\ FinalAt(f)' = Whole(f) /\ UNCHANGED temp
    BY <2>2, CompleteAtTarget
  <2>4. \A g \in ByChunks : g # f => Untouched(g)
    BY <1>1, <2>3, TargetIsPlace DEF Untouched
  <2>5. InParts(f)' = InParts(f) /\ parts'[f][0] = parts[f][0] /\ FileSize[f] \in Nat
    BY <1>1, UnitChunks DEF InParts, GoodParts
  <2>6. CASE UNCHANGED <<temp, final>>
    BY <1>2, <1>4, <2>6
  <2>7. CASE TempAt(f).there /\ FinalAt(f)' = TempAt(f) /\ TempAt(f)' = Absent
    <3>1. FinalAt(f).good = {} /\ Absent.good = {}
      BY <1>1, <2>7, AbsentIs DEF PushTidy, PushedFiles
    <3>2. OnDevice(f)' = OnDevice(f)
      BY <2>7, <3>1 DEF OnDevice, TempAt, FinalAt
    <3>3. InPlace(f)' = InPlace(f)
      BY <1>1, <2>5, <3>2 DEF InPlace
    <3>4. EmptyArrived(f) /\ EmptyArrived(f)'
      BY <1>1, <2>7 DEF EmptyArrived, TempAt
    <3>5. DeliveredOf(f)' = DeliveredOf(f)
      BY <3>3, <3>4 DEF DeliveredOf
    <3> QED
      BY <1>1, <1>4, <2>2, <2>4, <2>7, <3>5, OnePublishes
  <2>8. CASE ~ TempAt(f).there /\ FileSize[f] = 0 /\ FinalAt(f)' = Whole(f) /\ UNCHANGED temp
    <3>1. <<f, 0>> \in recorded
      BY <2>2, <2>8, UnitChunks DEF Checkpointed
    <3>2. FinalAt(f).there
      BY <1>1, <2>8, <3>1 DEF PushTidy, PushedChunks, Landed
    <3>3. EmptyArrived(f) /\ EmptyArrived(f)' /\ FinalAt(f)'.there
      BY <1>1, <2>8, <3>2, WholeIs DEF EmptyArrived
    <3>4. DeliveredOf(f)' = DeliveredOf(f)
      BY <2>8, <3>3 DEF DeliveredOf
    <3> QED
      BY <1>1, <1>4, <2>2, <2>4, <3>3, <3>4, OnePublishes
  <2> QED
    BY <2>3, <2>6, <2>7, <2>8
<1>5. CASE ReportChunk
  <2>1. PICK f \in File, i \in Nat : pos = <<f, i>> /\ i < NumChunks(f, 1) /\ Landed(f, i)
    BY <1>1, <1>5
       DEF TransferTypeOK, PushInOrder, AtFile, AtChunk, PushLabels, ReportChunk, PushTidy
  <2>2. \A g \in ByChunks : Untouched(g)
    BY <1>1, <1>5 DEF Untouched, ReportChunk, agentVars
  <2>3. <<f, i>> \in Split(f, 1) /\ FileSize[f] \in Nat
    BY <2>1, UnitChunks
  <2>4. <<f, i>> \in DeliveredOf(f)
    BY <1>1, <2>1, <2>3 DEF Landed, DeliveredOf, InPlace, EmptyArrived, TempAt
  <2>5. recorded' = recorded \cup {<<f, i>>}
    BY <1>5, <2>1 DEF ReportChunk, RecordChunk
  <2> QED
    BY <1>1, <2>2, <2>3, <2>4, <2>5, RecordsChunks
<1>6. CASE ReportFile
  <2>1. recorded' = recorded
    BY <1>1, <1>6 DEF ReportFile, RecordFile, PushInOrder, Checkpointed
  <2> QED
    BY <1>2, <1>6, <2>1 DEF ReportFile, agentVars
<1>7. \/ UNCHANGED <<temp, final, recorded>>
      \/ /\ pc \in PushLabels \ {"chunk"} /\ WriteChunks(AtFile, {AtChunk})
         /\ UNCHANGED recorded
      \/ pc = "complete" /\ CompleteFile(AtFile) /\ UNCHANGED recorded
      \/ ReportChunk \/ ReportFile
  <2>1. CASE TellTask \/ TellRoot \/ TellFile \/ TellComplete \/ TellDirectories
    BY <2>1 DEF WifiPushStep, TellTask, TellRoot, TellFile, TellComplete, TellDirectories, Told,
                StartTask, SetTargetRoot, StartFile, Lost, agentVars, ReportChunk, ReportFile
  <2>2. CASE AtNewFile \/ AtNewChunk \/ VerifyFile \/ WifiPushPauses
    BY <2>2 DEF WifiPushStep, AtNewFile, AtNewChunk, VerifyFile, WifiPushPauses, agentVars
  <2>3. CASE PushStep
    BY <2>3 DEF WifiPushStep, PushStep, PushBinary, PushBase64, AskStatus, AskStat, NotWritten,
                agentVars, PushLabels
  <2> QED
    BY <2>1, <2>2, <2>3 DEF WifiPushStep
<1> QED
  BY <1>2, <1>3, <1>4, <1>5, <1>6, <1>7
-----------------------------------------------------------------------------
(***************************************************************************)
(* A file that has all of its parts, or its final name, has arrived.       *)
(***************************************************************************)
Complete(f) == FinalAt(f).there \/ \A j \in 0 .. (NumChunks(f, 1) - 1) : parts[f][j] = "good"

CompleteIsDelivered ==
  FilesTidy /\ PartsTidy /\ kind # "WifiPull" =>
    \A f \in File : Complete(f) => DeliveredOf(f) = Split(f, 1)

\* A file that is there, or has all parts good, is delivered.
LEMMA AllArrived == CompleteIsDelivered
<1> SUFFICES ASSUME FilesTidy, PartsTidy, kind # "WifiPull", NEW f \in File, Complete(f)
             PROVE  DeliveredOf(f) = Split(f, 1)
  BY DEF CompleteIsDelivered
<1>1. /\ FileSize[f] \in Nat
      /\ NumChunks(f, 1) = IF FileSize[f] = 0 THEN 1 ELSE FileSize[f]
      /\ Split(f, 1) = {f} \X (0 .. (NumChunks(f, 1) - 1))
  BY UnitChunks
<1>2. CASE FileSize[f] = 0
  <2>1. EmptyArrived(f)
    BY <1>1, <1>2 DEF Complete, EmptyArrived
  <2> QED
    BY <1>2, <2>1 DEF DeliveredOf
<1>3. CASE FileSize[f] > 0
  <2>1. OnDevice(f) \subseteq 0 .. (FileSize[f] - 1)
    BY DEF FilesTidy, OnDevice, TempAt, FinalAt
  <2>2. InParts(f) = GoodParts(f)
    BY <1>3 DEF InParts
  <2>3. GoodParts(f) \subseteq 0 .. (FileSize[f] - 1)
    BY <1>1, <1>3, AdbPushAssumption DEF GoodParts, PartsTidy, PartIndex
  <2>4. 0 .. (FileSize[f] - 1) \subseteq OnDevice(f) \cup GoodParts(f)
    <3>1. CASE FinalAt(f).there
      <4>1. FinalAt(f) = Whole(f)
        BY <3>1 DEF FilesTidy
      <4>2. 0 .. (FileSize[f] - 1) \subseteq FinalAt(f).good
        BY <4>1, WholeIs
      <4> QED
        BY <4>2 DEF OnDevice, FinalAt
    <3>2. CASE \A j \in 0 .. (NumChunks(f, 1) - 1) : parts[f][j] = "good"
      <4> SUFFICES ASSUME NEW j \in 0 .. (FileSize[f] - 1) PROVE j \in GoodParts(f)
        OBVIOUS
      <4>1. j \in Nat /\ j < NumChunks(f, 1)
        BY <1>1, <1>3
      <4>2. j \in PartIndex
        BY <4>1, PartOf
      <4>3. parts[f][j] = "good"
        BY <1>1, <1>3, <3>2
      <4> QED
        BY <4>2, <4>3 DEF GoodParts
    <3> QED
      BY <3>1, <3>2 DEF Complete
  <2>5. InPlace(f) = 0 .. (FileSize[f] - 1)
    BY <2>1, <2>2, <2>3, <2>4 DEF InPlace
  <2>6. NumChunks(f, 1) = FileSize[f]
    BY <1>1, <1>3
  <2> QED
    BY <1>1, <1>3, <2>5, <2>6 DEF DeliveredOf
<1> QED
  BY <1>1, <1>2, <1>3

\* The same of the state after a step.
LEMMA AllArrivedNext == CompleteIsDelivered'
  BY AllArrived, PTL

\* A good part is a delivered chunk.
LEMMA PartDelivers ==
  ASSUME kind # "WifiPull", kind' = kind, NEW f \in File, NEW i \in Nat, i < NumChunks(f, 1),
         parts \in [File -> [PartIndex -> PartState]], UNCHANGED <<temp, final>>,
         parts' = [parts EXCEPT ![f][i] = "good"]
  PROVE  DeliveredOf(f)' = DeliveredOf(f) \cup {<<f, i>>}
<1>1. /\ FileSize[f] \in Nat
      /\ NumChunks(f, 1) = IF FileSize[f] = 0 THEN 1 ELSE FileSize[f]
      /\ Split(f, 1) = {f} \X (0 .. (NumChunks(f, 1) - 1))
  BY UnitChunks
<1>2. i \in PartIndex
  BY PartOf
<1>3. parts'[f][i] = "good" /\ \A j \in PartIndex : j # i => parts'[f][j] = parts[f][j]
  BY <1>2
<1>4. GoodParts(f)' = GoodParts(f) \cup {i}
  BY <1>2, <1>3 DEF GoodParts
<1>5. CASE FileSize[f] > 0
  <2>1. InParts(f) = GoodParts(f) /\ InParts(f)' = GoodParts(f)'
    BY <1>5 DEF InParts
  <2>2. OnDevice(f)' = OnDevice(f)
    BY DEF OnDevice
  <2>3. InPlace(f)' = InPlace(f) \cup {i}
    BY <1>4, <2>1, <2>2 DEF InPlace
  <2> QED
    BY <1>5, <2>3 DEF DeliveredOf
<1>6. CASE FileSize[f] = 0
  <2>1. i = 0 /\ Split(f, 1) = {<<f, 0>>}
    BY <1>1, <1>6
  <2>2. EmptyArrived(f)'
    BY <1>3, <2>1 DEF EmptyArrived
  <2> QED
    BY <1>6, <2>1, <2>2 DEF DeliveredOf
<1> QED
  BY <1>1, <1>5, <1>6

\* The ADB push, alone or as the lane of a Dual transfer.
LEMMA AdbRefines ==
  ASSUME TransferInv, TransferInv', kind \in {"AdbPush", "Dual"}, clean, AdbPushStep,
         UNCHANGED <<network, workerVars, task, halt, user, bundle, local>>
  PROVE  TransferStep
<1>1. /\ TransferTypeOK /\ AdbInOrder /\ AdbTidy /\ AdbTidy'
      /\ task' = task /\ kind' = kind /\ kind # "WifiPull"
      /\ \A f \in File : Owns("Adb", f) => f \in ByChunks
  <2>1. kind' = kind /\ (clean' <=> clean)
    BY SameTask
  <2>2. \A f \in File : Owns("Adb", f) => f \in ByChunks
    <3>1. RootGiven
      BY DEF TransferInv, RootKnown
    <3> QED
      BY <3>1, DualOwner, ChunkingAssumption DEF ByChunks, Bundled, File
  <2> QED
    BY <2>1, <2>2 DEF TransferInv, AdbInv
<1>2. /\ FilesTidy /\ PartsTidy /\ FilesTidy' /\ PartsTidy'
      /\ parts \in [File -> [PartIndex -> PartState]]
      /\ temp \in [Place -> Content] /\ final \in [Place -> Content]
  BY <1>1 DEF AdbTidy, TransferTypeOK, AgentTypeOK
<1>3. CASE UNCHANGED <<agentVars, recorded, parts>>
  <2>1. \A f \in ByChunks : Untouched(f)
    BY <1>1, <1>3 DEF Untouched, agentVars
  <2> QED
    BY <1>1, <1>3, <2>1, NothingMoves, RecordedUnmoved
<1>4. CASE PushPart
  <2>1. PICK f \in File, i \in Nat : adbPos = <<f, i>> /\ i < NumChunks(f, 1) /\ Owns("Adb", f)
    BY <1>1, <1>4 DEF PushPart, TransferTypeOK, AdbInOrder, AdbBusy, AdbFile, AdbChunk
  <2>2. /\ UNCHANGED <<temp, final, recorded>> /\ f \in ByChunks /\ i \in PartIndex
        /\ FinalAt(f)' = FinalAt(f)
    BY <1>1, <1>4, <2>1, PartOf DEF PushPart, agentVars, FinalAt
  <2>3. CASE UNCHANGED parts
    BY <1>3, <1>4, <2>3 DEF PushPart
  <2>4. CASE parts' = [parts EXCEPT ![f][i] = "good"]
    <3>1. DeliveredOf(f)' = DeliveredOf(f) \cup {<<f, i>>}
      BY <1>1, <1>2, <2>1, <2>2, <2>4, PartDelivers
    <3>2. \A g \in ByChunks : g # f => Untouched(g)
      BY <1>1, <1>2, <2>2, <2>4 DEF Untouched, ByChunks
    <3>3. <<f, i>> \in Split(f, 1)
      BY <2>1, UnitChunks
    <3> QED
      BY <1>1, <2>2, <3>1, <3>2, <3>3, OneDelivers
  <2>5. CASE /\ FileSize[f] > 0 /\ parts[f][i] \notin RightLength
             /\ parts' = [parts EXCEPT ![f][i] = "short"]
    <3>1. \A j \in PartIndex : parts'[f][j] = "good" <=> parts[f][j] = "good"
      BY <1>2, <2>2, <2>5 DEF RightLength
    <3>2. GoodParts(f)' = GoodParts(f)
      BY <3>1 DEF GoodParts
    <3>3. InPlace(f)' = InPlace(f)
      BY <1>1, <2>2, <3>2 DEF InPlace, OnDevice, InParts
    <3>4. DeliveredOf(f)' = DeliveredOf(f)
      BY <2>5, <3>3 DEF DeliveredOf
    <3>5. \A g \in ByChunks : g # f => Untouched(g)
      BY <1>1, <1>2, <2>2, <2>5 DEF Untouched, ByChunks
    <3>6. \A g \in ByChunks : DeliveredOf(g)' = DeliveredOf(g) /\ FinalAt(g)' = FinalAt(g)
      BY <1>1, <2>2, <3>4, <3>5, FileUnmoved DEF ByChunks
    <3> QED
      BY <1>1, <2>2, <3>6, DeliveredUnmoved, PublishedUnmoved, RecordedUnmoved, Stutters
  <2> QED
    BY <1>4, <2>1, <2>3, <2>4, <2>5 DEF PushPart, SetPart, AdbFile, AdbChunk
<1>5. CASE ReportPart
  <2>1. PICK f \in File, i \in Nat :
          /\ adbPos = <<f, i>> /\ i < NumChunks(f, 1) /\ Owns("Adb", f)
          /\ parts[f][i] = "good"
    BY <1>1, <1>5
       DEF ReportPart, TransferTypeOK, AdbInOrder, AdbBusy, AdbFile, AdbChunk, AdbTidy, AdbPlace
  <2>2. /\ \A g \in ByChunks : Untouched(g)
        /\ recorded' = recorded \cup {<<f, i>>} /\ f \in ByChunks
    BY <1>1, <1>5, <2>1 DEF Untouched, ReportPart, agentVars, RecordChunk
  <2>3. <<f, i>> \in Split(f, 1) /\ FileSize[f] \in Nat /\ i \in PartIndex
        /\ (FileSize[f] = 0 => i = 0)
    BY <2>1, UnitChunks, PartOf
  <2>4. <<f, i>> \in DeliveredOf(f)
    <3>1. CASE FileSize[f] > 0
      <4>1. i \in InPlace(f)
        BY <1>1, <2>1, <2>3, <3>1 DEF InPlace, InParts, GoodParts
      <4> QED
        BY <3>1, <4>1 DEF DeliveredOf
    <3>2. CASE FileSize[f] = 0
      <4>1. EmptyArrived(f)
        BY <1>1, <2>1, <2>3, <3>2 DEF EmptyArrived
      <4> QED
        BY <2>3, <3>2, <4>1 DEF DeliveredOf
    <3> QED
      BY <2>3, <3>1, <3>2
  <2> QED
    BY <1>1, <2>2, <2>3, <2>4, RecordsChunks
<1>6. CASE ReportAdbFile
  <2>1. PICK f \in File : AdbFile = f /\ Owns("Adb", f) /\ FinalAt(f).there
    BY <1>1, <1>6 DEF ReportAdbFile, AdbInOrder, AdbBusy, AdbTidy, AdbPlace
  <2>2. /\ \A g \in ByChunks : Untouched(g)
        /\ recorded' = recorded \cup Split(f, 1) /\ f \in ByChunks
    BY <1>1, <1>6, <2>1 DEF Untouched, ReportAdbFile, agentVars, RecordFile
  <2>3. DeliveredOf(f) = Split(f, 1)
    BY <1>1, <1>2, <2>1, AllArrived DEF CompleteIsDelivered, Complete
  <2> QED
    BY <1>1, <2>2, <2>3, RecordsChunks
<1>7. CASE AssembleStops \/ Assemble
  <2>1. PICK f \in File :
          /\ AdbFile = f /\ Owns("Adb", f)
          /\ \A j \in 0 .. (NumChunks(f, 1) - 1) :
               parts[f][j] = "good" /\ <<f, j>> \in recorded
    BY <1>1, <1>7 DEF AssembleStops, Assemble, Assembling, AdbInOrder, AdbBusy, AdbTidy, AdbPlace
  <2>2. f \in ByChunks /\ recorded' = recorded /\ Complete(f)
    BY <1>1, <1>7, <2>1 DEF AssembleStops, Assemble, Complete
  <2>3. DeliveredOf(f) = Split(f, 1)
    BY <1>1, <1>2, <2>2, AllArrived DEF CompleteIsDelivered
  <2>4. Checkpointed(f)
    <3>1. Split(f, 1) = {f} \X (0 .. (NumChunks(f, 1) - 1))
      BY UnitChunks
    <3> QED
      BY <2>1, <3>1 DEF Checkpointed
  <2>5. CASE AssembleStops
    <3>1. /\ \A g \in File : g # f => temp'[<<"target", g>>] = temp[<<"target", g>>]
          /\ UNCHANGED <<final, parts>>
      BY <1>2, <2>1, <2>5 DEF AssembleStops, TempBecomes, Place
    <3>2. Complete(f)' /\ FinalAt(f)' = FinalAt(f)
      BY <2>1, <3>1 DEF Complete, NumChunks, FinalAt
    <3>3. DeliveredOf(f)' = DeliveredOf(f)
      BY <1>1, <1>2, <2>3, <3>2, AllArrivedNext DEF CompleteIsDelivered
    <3>4. \A g \in ByChunks : g # f => Untouched(g)
      BY <1>1, <3>1 DEF Untouched, ByChunks
    <3>5. \A g \in ByChunks : DeliveredOf(g)' = DeliveredOf(g) /\ FinalAt(g)' = FinalAt(g)
      BY <1>1, <3>2, <3>3, <3>4, FileUnmoved DEF ByChunks
    <3> QED
      BY <1>1, <2>2, <3>5, DeliveredUnmoved, PublishedUnmoved, RecordedUnmoved, Stutters
  <2>6. CASE Assemble
    <3>1. \A g \in File : g # f => /\ temp'[<<"target", g>>] = temp[<<"target", g>>]
                                   /\ final'[<<"target", g>>] = final[<<"target", g>>]
                                   /\ parts'[g] = parts[g]
      BY <1>2, <2>1, <2>6 DEF Assemble, TempBecomes, Removed, Place
    <3>2. FinalAt(f)' = Cat(f)
      BY <1>2, <2>1, <2>6, TargetIsPlace DEF Assemble, FinalAt
    <3>3. FinalAt(f)'.there /\ Complete(f)'
      BY <3>2 DEF Cat, Holding, Complete
    <3>4. DeliveredOf(f)' = DeliveredOf(f)
      BY <1>1, <1>2, <2>3, <3>3, AllArrivedNext DEF CompleteIsDelivered
    <3>5. \A g \in ByChunks : g # f => Untouched(g)
      BY <1>1, <3>1 DEF Untouched, ByChunks
    <3> QED
      BY <1>1, <2>2, <2>4, <3>3, <3>4, <3>5, OnePublishes
  <2> QED
    BY <1>7, <2>5, <2>6
<1> QED
  BY <1>3, <1>4, <1>5, <1>6, <1>7
     DEF AdbPushStep, AskRemoteSize, AdbAllDone, AdbPauses, AdbFails, LockAggregate, ShowOnCard,
         AdbVerify

\* The files of a bundle are the other lane's, and no other file is touched.
LEMMA BundleLeavesOthers ==
  ASSUME NEW S, NEW b \in S, WriteBundle(S) \/ BundleBreaks(S, b), NEW f \in File, f \notin S
  PROVE  /\ temp'[<<"target", f>>] = temp[<<"target", f>>]
         /\ final'[<<"target", f>>] = final[<<"target", f>>]
<1>1. <<"target", f>> \in Place /\ \A g \in S : <<"target", f>> # Here(g)
  BY DEF Place, Here
<1>2. ASSUME NEW R \in SUBSET S, WriteBundle(R)
      PROVE  /\ temp'[<<"target", f>>] = temp[<<"target", f>>]
             /\ final'[<<"target", f>>] = final[<<"target", f>>]
  BY <1>1, <1>2 DEF WriteBundle, FilesAt
<1> QED
  BY <1>1, <1>2 DEF BundleBreaks, FilesAt

\* The Wi-Fi lane of a Dual transfer goes by files, not by chunks.
LEMMA LaneRefines ==
  ASSUME TransferInv, kind = "Dual", WifiLaneStep, UNCHANGED <<task, adbVars, halt, parts, user, local>>
  PROVE  TransferStep
<1>1. /\ LaneInOrder /\ task' = task /\ bundle \subseteq File
      /\ \A f \in ByChunks : f \in File /\ ~ Owns("Wifi", f)
  BY DEF TransferInv, LaneInv, TransferTypeOK, ByChunks, Bundled
<1>2. \A f \in ByChunks : Untouched(f)
  <2> SUFFICES ASSUME NEW f \in ByChunks
               PROVE  /\ temp'[<<"target", f>>] = temp[<<"target", f>>]
                      /\ final'[<<"target", f>>] = final[<<"target", f>>]
    BY DEF Untouched
  <2>1. f \in File /\ f \notin bundle
    BY <1>1 DEF LaneInOrder
  <2>2. CASE UNCHANGED <<temp, final>>
    BY <2>2
  <2>3. ASSUME pc = "send", WriteBundle(bundle) \/ \E b \in bundle : BundleBreaks(bundle, b)
        PROVE  /\ temp'[<<"target", f>>] = temp[<<"target", f>>]
               /\ final'[<<"target", f>>] = final[<<"target", f>>]
    BY <1>1, <2>1, <2>3, BundleLeavesOthers DEF LaneInOrder
  <2>4. \/ UNCHANGED <<temp, final>>
        \/ pc = "send" /\ (WriteBundle(bundle) \/ \E b \in bundle : BundleBreaks(bundle, b))
    BY DEF WifiLaneStep, AtBundleFile, AddToNextBundle, LastBundle, SendBundle, VerifyEntry,
           ReportEntry, TellDualTask, TellDualRoot, TellDirectories, Told, StartTask,
           SetTargetRoot, Lost, agentVars
  <2> QED
    BY <2>2, <2>3, <2>4
<1>3. RecordedByChunks' = RecordedByChunks
  <2>1. CASE recorded' = recorded
    BY <1>1, <2>1, RecordedUnmoved
  <2>2. CASE ReportEntry
    <3>1. recorded' = recorded \cup Split(ToReport, 1) /\ pc = "entry"
      BY <2>2 DEF ReportEntry, RecordFile
    <3>2. ToReport \in bundle
      BY <1>1, <3>1, LeastOf, ChunkingAssumption DEF ToReport, LaneInOrder, File
    <3>3. ToReport \notin ByChunks
      BY <1>1, <3>2 DEF LaneInOrder
    <3>4. \A c \in Split(ToReport, 1) : c[1] = ToReport
      BY DEF Split
    <3>5. ByChunks' = ByChunks
      BY <1>1, SameTask
    <3> QED
      BY <3>1, <3>3, <3>4, <3>5 DEF RecordedByChunks
  <2> QED
    BY <2>1, <2>2 DEF WifiLaneStep
<1> QED
  BY <1>1, <1>2, <1>3, NothingMoves

\* Nothing is in a file that is not there.
LocalTidy == ~ local.there => local.good = {}

\* A local file that is not there holds nothing.
LEMMA LocalTidyHolds == Spec => []LocalTidy
<1>1. Init => LocalTidy
  BY DEF Init, DeviceInit, LocalTidy, Holding, Absent
<1>2. LocalTidy /\ [Next]_vars => LocalTidy'
  <2>1. ASSUME [Next]_vars PROVE local' = local \/ local'.there
    <3>1. CASE WifiStep
      BY <3>1 DEF WifiStep, PcStep, WifiPullStep, OpenLocal, PullChunk, VerifyPull, ReportResumed,
                  ReportPulled, ReportPull, Stop, Holding, Written
    <3>2. CASE AdbStep
      BY <3>2 DEF AdbStep, AdbPullStep, AdbPull, VerifyAdbPull, ReportAdbPull, Holding, Whole
    <3> QED
      BY <2>1, <3>1, <3>2 DEF Next, Pause, PauseEngine, DesktopEnds, vars, shownVars
  <2> QED
    BY <2>1 DEF LocalTidy
<1> QED
  BY <1>1, <1>2, PTL DEF Spec

\* The Wi-Fi pull, step by step.
LEMMA PullRefines ==
  ASSUME TransferInv, LocalTidy, kind = "WifiPull", clean, WifiPullStep,
         UNCHANGED <<task, adbVars, halt, parts, user, bundle>>
  PROVE  TransferStep
<1>1. /\ PullInOrder /\ task' = task /\ kind' = kind /\ pos \in Nat \X Nat /\ local \in Content
      /\ 0 \in File /\ 0 \in ByChunks
      /\ \A g : g # 0 => Untouched(g)
      /\ local' = local => Untouched(0)
  BY TaskFacts DEF TransferInv, TransferTypeOK, PullTidy, kind, ByChunks, Bundled, Untouched
<1>2. /\ FileSize[0] \in Nat
      /\ NumChunks(0, 1) = IF FileSize[0] = 0 THEN 1 ELSE FileSize[0]
      /\ Split(0, 1) = {0} \X (0 .. (NumChunks(0, 1) - 1))
  BY <1>1, UnitChunks
<1>3. CASE UNCHANGED <<local, recorded>>
  BY <1>1, <1>3, NothingMoves, RecordedUnmoved
<1>4. CASE /\ ~ local.there /\ local' = Holding(0, {}) /\ UNCHANGED recorded
  <2>1. local'.there /\ local'.good = {} /\ local.good = {}
    BY <1>4 DEF Holding, LocalTidy
  <2>2. CASE FileSize[0] = 0
    <3>1. EmptyArrived(0)' /\ Split(0, 1) = {<<0, 0>>}
      BY <1>1, <1>2, <2>1, <2>2 DEF EmptyArrived
    <3>2. DeliveredOf(0)' = DeliveredOf(0) \cup {<<0, 0>>} /\ <<0, 0>> \in Split(0, 1)
      BY <2>2, <3>1 DEF DeliveredOf
    <3> QED
      BY <1>1, <1>4, <3>2, OneDelivers
  <2>3. CASE FileSize[0] > 0
    <3>1. InPlace(0)' = InPlace(0)
      BY <1>1, <2>1 DEF InPlace
    <3>2. DeliveredOf(0)' = DeliveredOf(0)
      BY <2>3, <3>1 DEF DeliveredOf
    <3>3. \A g \in ByChunks : DeliveredOf(g)' = DeliveredOf(g)
      BY <1>1, <3>2, FileUnmoved DEF ByChunks
    <3> QED
      BY <1>1, <1>4, <3>3, DeliveredUnmoved, PublishedUnmoved, RecordedUnmoved, Stutters
  <2> QED
    BY <1>2, <2>2, <2>3
<1>5. ASSUME NEW i \in Nat, i < NumChunks(0, 1), local.there, UNCHANGED recorded,
             local' = Written(local, 0, {i})
      PROVE  TransferStep
  <2>1. /\ local'.there
        /\ local'.good = local.good \cup (IF i < FileSize[0] THEN {i} ELSE {})
    BY <1>1, <1>5, WrittenIs
  <2>2. DeliveredOf(0)' = DeliveredOf(0) \cup {<<0, i>>}
    <3>1. CASE FileSize[0] = 0
      <4>1. EmptyArrived(0) /\ EmptyArrived(0)'
        BY <1>1, <1>5, <2>1 DEF EmptyArrived
      <4> QED
        BY <1>2, <1>5, <3>1, <4>1 DEF DeliveredOf
    <3>2. CASE FileSize[0] > 0
      <4>1. i < FileSize[0]
        BY <1>2, <1>5, <3>2
      <4>2. local'.good = local.good \cup {i}
        BY <2>1, <4>1, Zenon
      <4>3. InPlace(0)' = InPlace(0) \cup {i}
        BY <1>1, <4>2 DEF InPlace
      <4> QED
        BY <3>2, <4>3 DEF DeliveredOf
    <3> QED
      BY <1>2, <3>1, <3>2
  <2>3. <<0, i>> \in Split(0, 1)
    BY <1>2, <1>5
  <2> QED
    BY <1>1, <1>5, <2>2, <2>3, OneDelivers
<1>6. CASE ReportPulled
  <2>1. PICK i \in Nat : pos = <<0, i>>
    BY <1>1 DEF PullInOrder, AtFile
  <2>2. /\ i < NumChunks(0, 1) /\ local.there /\ (FileSize[0] > 0 => i \in local.good)
        /\ local' = local /\ recorded' = recorded \cup {<<0, i>>}
    BY <1>1, <1>6, <2>1 DEF PullInOrder, AtChunk, ReportPulled, RecordChunk
  <2>3. <<0, i>> \in Split(0, 1) /\ (FileSize[0] = 0 => i = 0)
    BY <1>2, <2>2
  <2>4. <<0, i>> \in DeliveredOf(0)
    BY <1>1, <1>2, <2>2, <2>3 DEF DeliveredOf, InPlace, EmptyArrived
  <2> QED
    BY <1>1, <2>2, <2>3, <2>4, RecordsChunks
<1>7. CASE ReportResumed \/ ReportPull
  <2>1. local' = local /\ recorded' = recorded \cup Split(0, 1)
    BY <1>7 DEF ReportResumed, ReportPull, RecordFile
  <2>2. Split(0, 1) \subseteq recorded
    <3>1. CASE ReportResumed
      BY <1>1, <3>1 DEF ReportResumed, PullInOrder, Checkpointed
    <3>2. CASE ReportPull
      <4>1. AtChunk \in Nat /\ AtChunk \notin 0 .. (NumChunks(0, 1) - 1)
        BY <1>1, <3>2 DEF ReportPull, PullIndices, AtChunk
      <4>2. \A j \in 0 .. (AtChunk - 1) : <<0, j>> \in recorded
        BY <1>1, <3>2 DEF PullInOrder, ReportPull
      <4>3. \A j \in 0 .. (NumChunks(0, 1) - 1) : <<0, j>> \in recorded
        <5> SUFFICES ASSUME NEW j \in 0 .. (NumChunks(0, 1) - 1) PROVE <<0, j>> \in recorded
          OBVIOUS
        <5>1. j \in 0 .. (AtChunk - 1)
          BY <1>2, <4>1
        <5> QED
          BY <4>2, <5>1, Zenon
      <4> QED
        BY <1>2, <4>3
    <3> QED
      BY <1>7, <3>1, <3>2
  <2>3. recorded' = recorded
    BY <2>1, <2>2
  <2> QED
    BY <1>3, <2>1, <2>3
<1>8. \/ UNCHANGED <<local, recorded>>
      \/ ~ local.there /\ local' = Holding(0, {}) /\ UNCHANGED recorded
      \/ /\ pc = "chunk" /\ AtChunk \in PullIndices /\ UNCHANGED recorded
         /\ local' = Written(local, 0, {AtChunk})
      \/ ReportPulled \/ ReportResumed \/ ReportPull
  BY DEF WifiPullStep, OpenLocal, PullChunk, VerifyPull, Stop
<1>9. pc = "chunk" /\ AtChunk \in PullIndices =>
        local.there /\ AtChunk \in Nat /\ AtChunk < NumChunks(0, 1)
  BY <1>1, <1>2 DEF PullInOrder, PullIndices
<1> QED
  BY <1>3, <1>4, <1>5, <1>6, <1>7, <1>8, <1>9

\* A transfer starts with nothing delivered, recorded or published.
LEMMA RefinesAtFirst == Init => Transfer!TransferInit
<1> SUFFICES ASSUME Init PROVE Transfer!TransferInit
  OBVIOUS
<1>1. /\ recorded = {} /\ task \in Tasks /\ DeviceInit
      /\ kind \in {"WifiPush", "WifiPull", "AdbPush", "AdbPull", "Dual"}
  BY TaskFacts DEF Init, WorkerInit
<1>2. ASSUME NEW f \in ByChunks
      PROVE  DeliveredOf(f) = {} /\ (kind # "WifiPull" => ~ FinalAt(f).there)
  <2>1. clean /\ kind # "AdbPull" /\ f \in File /\ FileSize[f] \in Nat
    BY <1>2, UnitChunks DEF ByChunks
  <2>2. CASE kind = "WifiPull"
    <3>1. local = Absent
      BY <1>1, <2>1 DEF DeviceInit, clean
    <3>2. InPlace(f) = {} /\ ~ EmptyArrived(f)
      BY <2>2, <3>1 DEF InPlace, EmptyArrived, Absent
    <3> QED
      BY <2>1, <2>2, <3>2 DEF DeliveredOf
  <2>3. CASE kind # "WifiPull"
    <3>1. kind \notin PullKinds
      BY <2>1, <2>3 DEF PullKinds
    <3>2. There("temp") = [p \in Place |-> Absent] /\ There("final") = [p \in Place |-> Absent]
      BY <2>1 DEF There, clean
    <3>3. temp[<<"target", f>>] = Absent /\ final[<<"target", f>>] = Absent
      BY <1>1, <2>1, <3>1, <3>2, TargetIsPlace DEF DeviceInit
    <3>4. \A i \in PartIndex : task.old # [at |-> "part", file |-> f, n |-> i]
      BY <2>1 DEF clean
    <3>5. \A i \in PartIndex : parts[f][i] = "none"
      BY <1>1, <2>1, <3>4 DEF DeviceInit
    <3>6. 0 \in PartIndex
      BY <2>1, PartOf, UnitChunks
    <3>7. OnDevice(f) = {} /\ InParts(f) = {} /\ ~ EmptyArrived(f) /\ ~ FinalAt(f).there
      BY <2>3, <3>3, <3>5, <3>6
         DEF OnDevice, InParts, GoodParts, EmptyArrived, FinalAt, Absent
    <3>8. InPlace(f) = {}
      BY <2>3, <3>7 DEF InPlace
    <3> QED
      BY <2>1, <3>7, <3>8 DEF DeliveredOf
  <2> QED
    BY <2>2, <2>3
<1>3. Delivered = {} /\ RecordedByChunks = {} /\ Published = {}
  BY <1>1, <1>2 DEF Delivered, RecordedByChunks, Published
<1> QED
  BY <1>3 DEF Transfer!TransferInit

\* Every step of a worker is a step of the abstract transfer, or none.
LEMMA RefinesAlways ==
  (RootGiven => TransferInv) /\ (RootGiven => TransferInv)' /\ LocalTidy /\ [Next]_vars
    => TransferStep
<1>0. CASE ~ RootGiven /\ [Next]_vars
  BY <1>0, TaskStays, OutsideChunks
<1> SUFFICES ASSUME RootGiven, TransferInv, TransferInv', LocalTidy, [Next]_vars
             PROVE  TransferStep
  <2>1. [Next]_vars => (RootGiven' <=> RootGiven)
    BY TaskStays DEF kind
  <2> QED
    BY <1>0, <2>1
<1>1. kind \in {"WifiPush", "WifiPull", "AdbPush", "AdbPull", "Dual"}
  BY TaskFacts DEF TransferInv, TransferTypeOK
<1>2. CASE WifiStep /\ clean
  <2>1. UNCHANGED <<task, adbVars, halt, parts, user>> /\ PcStep
    BY <1>2 DEF WifiStep
  <2> QED
    BY <1>2, <2>1, PushRefines, LaneRefines, PullRefines DEF PcStep
<1>3. CASE AdbStep /\ clean
  <2>1. CASE kind = "AdbPull"
    BY <1>3, <2>1, OutsideChunks DEF AdbStep
  <2>2. CASE kind # "AdbPull"
    BY <1>3, <2>2, AdbRefines DEF AdbStep
  <2> QED
    BY <2>1, <2>2
<1>4. CASE UNCHANGED <<temp, final, task, recorded, parts, local>>
  <2>1. \A f \in ByChunks : Untouched(f)
    BY <1>4 DEF Untouched
  <2> QED
    BY <1>4, <2>1, NothingMoves, RecordedUnmoved
<1>5. CASE DesktopEnds
  <2>1. CASE UNCHANGED agentVars
    BY <1>4, <1>5, <2>1 DEF DesktopEnds, agentVars
  <2>2. ASSUME NEW b \in bundle, BundleBreaks(bundle, b)
        PROVE  TransferStep
    <3>1. kind = "Dual" /\ LaneInOrder
      BY DEF TransferInv, LaneInv
    <3>2. \A f \in ByChunks : f \in File /\ f \notin bundle
      BY <3>1 DEF ByChunks, Bundled, LaneInOrder
    <3>3. \A f \in ByChunks : Untouched(f)
      BY <1>5, <2>2, <3>1, <3>2, BundleLeavesOthers DEF Untouched, DesktopEnds
    <3> QED
      BY <1>5, <3>3, NothingMoves, RecordedUnmoved DEF DesktopEnds
  <2> QED
    BY <1>5, <2>1, <2>2 DEF DesktopEnds
<1>6. CASE ~ clean
  BY <1>6, TaskStays, OutsideChunks
<1>7. \/ WifiStep \/ AdbStep \/ DesktopEnds
      \/ UNCHANGED <<temp, final, task, recorded, parts, local>>
  BY DEF Next, Begin, Pause, PauseEngine, AgentGoes, AgentRestarts, vars, shownVars, pushVars,
         agentVars
<1> QED
  BY <1>2, <1>3, <1>4, <1>5, <1>6, <1>7

(***************************************************************************)
(* To a clean target that the agent may write to every worker does what    *)
(* FileTransfer promises: chunks arrive one by one and stay, only chunks   *)
(* that have arrived are recorded, and a file takes its name only when the *)
(* checkpoint has all of it.                                               *)
(***************************************************************************)
THEOREM TransfersRefine == Spec => ImplementsFileTransfer
<1>1. Spec => [](RootGiven => TransferInv)
  BY TransferInvHolds
<1>2. Spec => []LocalTidy
  BY LocalTidyHolds
<1>3. Init => Transfer!TransferInit
  BY RefinesAtFirst
<1>4. (RootGiven => TransferInv) /\ (RootGiven => TransferInv)' /\ LocalTidy /\ [Next]_vars => TransferStep
  BY RefinesAlways
<1> QED
  BY <1>1, <1>2, <1>3, <1>4, PTL
     DEF Spec, ImplementsFileTransfer, Transfer!TransferSpec, TransferStep

=============================================================================

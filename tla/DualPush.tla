------------------------------- MODULE DualPush -------------------------------
(***************************************************************************)
(* A Dual task of small files: every other file goes to the ADB lane       *)
(* (AdbPush), the others are sent to the agent many at a time              *)
(* (run_dual_wifi_pc_to_android_files).  The lanes are threads that share  *)
(* the pause flag, the engine, the registry and the totals of the task;    *)
(* neither stops for the other, and the run has the result of both.        *)
(***************************************************************************)
EXTENDS AdbPush

CONSTANT BundleFiles   \* small_file_bundle_max_files

ASSUME DualPushAssumption == BundleFiles \in Nat \ {0}

VARIABLE bundle   \* the files of the bundle

\* The lane stops when the bundle has been sent: the pause has been seen.
Stopping == AtChunk = 1

BundleLength(S) == FoldSet(LAMBDA f, total : FileSize[f] + total, 0, S)

CanAccept(f) ==
  \/ bundle = {}
  \/ /\ Cardinality(bundle) < BundleFiles
     /\ BundleLength(bundle) + FileSize[f] <= task.bundleBytes

TellDualTask == Told("task", StartTask, "root")
TellDualRoot ==
  \E accepted \in Answers(access) : Told("root", SetTargetRoot(accepted), "directories")

\* add_file_to_small_file_bundle; what has been collected is lost with an error.
AddFile ==
  \/ /\ bundle' = bundle \cup {AtFile}
     /\ pc' = "file" /\ pos' = <<FileAfter("Wifi", AtFile), 0>> /\ UNCHANGED attempt
  \/ bundle' = {} /\ PcEnds("idle")

\* Where flush_small_file_bundle returns to.
AfterBundle ==
  IF Stopping THEN PcEnds("idle")
  ELSE IF AtFile >= NFiles THEN PcEnds("ok") ELSE Goto("add")

\* The loop over the files.
AtBundleFile ==
  /\ pc = "file" /\ AtFile < NFiles /\ ~ halt
  /\ IF CanAccept(AtFile) THEN AddFile ELSE Goto("send") /\ UNCHANGED bundle
  /\ UNCHANGED agentVars

\* A full bundle has been sent; the pause flag is not looked at again.
AddToNextBundle ==
  /\ pc = "add"
  /\ AddFile
  /\ UNCHANGED agentVars

\* At a pause and at the end what there is is sent.
LastBundle ==
  /\ pc = "file" /\ (AtFile >= NFiles \/ halt)
  /\ IF bundle # {}
     THEN /\ pos' = <<AtFile, IF AtFile < NFiles THEN 1 ELSE 0>>
          /\ pc' = "send" /\ UNCHANGED attempt
     ELSE PcEnds(IF AtFile < NFiles THEN "idle" ELSE "ok")
  /\ UNCHANGED <<agentVars, bundle>>
-----------------------------------------------------------------------------
FilesAt(places, content, S) ==
  [p \in Place |-> IF \E f \in S : p = Here(f) THEN content[p[2]] ELSE places[p]]

\* pushFileBundleBinary: file after file, each written anew under its temp name
\* and renamed once the old one has been deleted.
WriteBundle(S) ==
  /\ active
  /\ temp' = FilesAt(temp, [f \in File |-> Absent], S)
  /\ final' = FilesAt(final, [f \in File |-> Whole(f)], S)
  /\ UNCHANGED memoryVars

\* The connection or the agent ends before file f or in the middle of it.
BundleBreaks(S, f) ==
  LET before == {g \in S : g < f}
  IN  \/ WriteBundle(before)
      \/ /\ active
         /\ \E n \in 0 .. FileSize[f] :
              /\ temp' = FilesAt(FilesAt(temp, [g \in File |-> Absent], before),
                                 [g \in File |-> Beginning(Whole(g), n)], {f})
              /\ \E deleted \in IF n = FileSize[f] /\ network = "lossy"
                            THEN BOOLEAN ELSE {FALSE} :
                   final' = FilesAt(FilesAt(final, [g \in File |-> Whole(g)], before),
                                    [g \in File |-> Absent], IF deleted THEN {f} ELSE {})
         /\ UNCHANGED memoryVars

\* PUSH_FILE_BUNDLE_BIN: "bundle_written", or the lane ends.
SendBundle ==
  /\ pc = "send"
  /\ \/ WriteBundle(bundle) /\ Goto("entry") /\ UNCHANGED bundle
     \/ /\ \/ WriteBundle(bundle)
           \/ network = "lossy" /\ \E f \in bundle : BundleBreaks(bundle, f)
           \/ (network = "lossy" \/ ~ active) /\ UNCHANGED agentVars
        /\ PcEnds("idle")
        /\ bundle' = {}

ToReport == Min(bundle)

EntryDone ==
  /\ bundle' = bundle \ {ToReport}
  /\ IF bundle' = {} THEN AfterBundle ELSE Goto("entry")

\* The first chunk and the file are recorded under one lock of the engine.
ReportEntry ==
  /\ pc = "entry"
  /\ Noted("wifi") /\ FreeFor("wifi", {"engine"})
  /\ RecordFile(ToReport)
  /\ IF verifies THEN Goto("verify") /\ UNCHANGED bundle ELSE EntryDone
  /\ UNCHANGED agentVars

VerifyEntry ==
  /\ pc = "verify"
  /\ \/ CanRead(ToReport) /\ Readable(ToReport) = Whole(ToReport) /\ EntryDone
     \/ PcEnds("idle") /\ bundle' = {}
  /\ UNCHANGED agentVars

WifiLaneStep ==
  \/ /\ \/ AtBundleFile \/ AddToNextBundle \/ LastBundle \/ SendBundle \/ VerifyEntry
     /\ UNCHANGED <<network, recorded>>
  \/ ReportEntry /\ UNCHANGED network
  \/ (TellDualTask \/ TellDualRoot \/ TellDirectories) /\ UNCHANGED <<recorded, bundle>>
=============================================================================

------------------------------ MODULE MCTransfers ------------------------------
(***************************************************************************)
(* Model values for a task: files of two chunks, of one and of none, only  *)
(* the last two of which fit in a command line.  In a Dual task files 0    *)
(* and 2 go to Wi-Fi, together or one by one as the bundle's limit is, and *)
(* file 1 to ADB.  What an earlier transfer has left, and what a refused   *)
(* root leads to, is looked at with verification on and a steady network.  *)
(***************************************************************************)
EXTENDS Transfers

MCFileSize == [f \in File |-> 2 - f]
MCLineChunks == {<<1, 0>>, <<2, 0>>}

LOCAL TasksWith(accesses, kinds, networks, verify, bytes, old) ==
  [kind : kinds, network : networks, verifies : verify, bundleBytes : bytes, old : old,
   access : accesses]

LOCAL TasksOf(kinds, networks, verify, bytes, old) ==
  TasksWith({"granted"}, kinds, networks, verify, bytes, old)

LOCAL Clean == [at : {"nowhere"}, file : {0}, n : {0}]
LOCAL Left(places) == [at : places, file : File, n : {1, 2, 3}]
LOCAL LeftParts == [at : {"part"}, file : {0}, n : {0, 1, 2}]
LOCAL LeftToDual == [at : {"final"}, file : {1}, n : {1}]

MCTasks ==
  UNION {
    TasksOf({"WifiPush", "WifiPull"}, Networks, BOOLEAN, {0}, Clean),
    TasksOf({"AdbPush", "AdbPull"}, {"steady"}, BOOLEAN, {0}, Clean),
    TasksOf({"Dual"}, {"lossy"}, {TRUE}, {1}, Clean),
    TasksOf({"Dual"}, {"steady"}, {FALSE}, {2}, Clean),
    TasksOf({"WifiPush"}, {"steady"}, {TRUE}, {0}, Left({"temp", "final"})),
    TasksOf({"AdbPush"}, {"steady"}, {TRUE}, {0}, Left({"final"}) \cup LeftParts),
    TasksOf({"WifiPull", "AdbPull"}, {"steady"}, {TRUE}, {0}, Left({"local"})),
    TasksOf({"Dual"}, {"steady"}, {TRUE}, {2}, LeftToDual),
    TasksWith({"missing"}, {"WifiPush"}, {"steady"}, {TRUE}, {0}, Clean),
    TasksWith({"changing"}, {"WifiPull"}, {"steady"}, {TRUE}, {0}, Clean)}

\* A Wi-Fi task, to where an earlier transfer has left a longer file.
MCWifiTasks ==
  TasksOf({"WifiPush"}, {"steady"}, {TRUE}, {0}, Left({"temp"}))
    \cup TasksOf({"WifiPull"}, {"steady"}, {TRUE}, {0}, Left({"local"}))
=============================================================================

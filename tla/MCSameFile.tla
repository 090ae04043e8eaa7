------------------------------ MODULE MCSameFile ------------------------------
(***************************************************************************)
(* Model values for a same-file push: one large file, no chunk of which    *)
(* would fit in a command line.  Storage that loses what both lanes write, *)
(* and access that comes and goes, are looked at on a steady network.      *)
(***************************************************************************)
EXTENDS SameFile

MCFileSize == [f \in File |-> 4]
MCSampledFileSize == [f \in File |-> 5]
MCLineChunks == {}

LOCAL Device(access, storage, net) ==
  [access |-> access, storage |-> storage, network |-> net]

MCGoodDevices == {Device("granted", "consistent", net) : net \in Networks}
MCDevices ==
  MCGoodDevices
    \cup {Device("granted", "racy", "steady"), Device("changing", "consistent", "steady")}
=============================================================================

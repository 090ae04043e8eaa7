----------------------------- MODULE Scheduler ------------------------------
(***************************************************************************)
(* The chunk scheduler of transfer-core (scheduler.rs): two queues of      *)
(* chunks, one per lane, and the number of leases each lane has in flight. *)
(*                                                                         *)
(* A VecDeque of the code is a set here.  Both queues are filled once, by  *)
(* increasing file and chunk index, and are only popped at the front until *)
(* the whole scheduler is replaced, so the front of a queue is always its  *)
(* least element and the set determines the sequence.                      *)
(***************************************************************************)
EXTENDS Chunking

CONSTANTS
  Mode,        \* TransportMode of the task: "AdbOnly", "WifiOnly" or "Dual"
  Threshold,   \* small_file_threshold_bytes
  Limit        \* max_in_flight_chunks_per_lane

ASSUME SchedulerAssumption ==
  /\ Mode \in {"AdbOnly", "WifiOnly", "Dual"}
  /\ Threshold \in Nat
  /\ Limit \in Nat

Lane == {"Adb", "Wifi"}
Lease == [lane : Lane, chunk : Chunk]

VARIABLES
  queue,     \* adb_queue and wifi_queue
  inflight,  \* the in-flight counter of each lane
  out        \* the leases callers hold and have not returned

schedVars == <<queue, inflight, out>>

OtherLane(l) == IF l = "Adb" THEN "Wifi" ELSE "Adb"
NoInflight == [l \in Lane |-> 0]
Queued == queue["Adb"] \cup queue["Wifi"]
-----------------------------------------------------------------------------
\* Mutant: the chunks of every mode alternate.
AlternatingLaneOf(c, left) ==
  IF c[2] % 2 = 0 THEN "Adb" ELSE "Wifi"

(***************************************************************************)
(* Scheduler::new_with_completed: what is left of the first n files, dealt *)
(* to the lanes.  In Dual mode a large file alternates between the lanes   *)
(* by the position of a chunk among those left of its file; small files go *)
(* whole to one lane, which flips after each of them.                      *)
(***************************************************************************)
LaneOf(c, left) ==
  CASE Mode = "AdbOnly"  -> "Adb"
    [] Mode = "WifiOnly" -> "Wifi"
    [] Mode = "Dual" ->
         LET position == IF IsLarge(c[1], Threshold)
                           THEN {d \in left : d[1] = c[1] /\ d[2] < c[2]}
                           ELSE {f \in 0 .. (c[1] - 1) : ~ IsLarge(f, Threshold)}
         IN  IF Cardinality(position) % 2 = 0 THEN "Adb" ELSE "Wifi"

DealQueues(n, chunkSize, completed) ==
  LET left == SplitAll(n, chunkSize) \ completed
  IN  [l \in Lane |-> {c \in left : LaneOf(c, left) = l}]

Front(q) == {c \in q : \A d \in q : c[1] < d[1] \/ (c[1] = d[1] /\ c[2] <= d[2])}

(***************************************************************************)
(* lease_next picks the preferred lane unless it is at its limit, and is   *)
(* Idle when both are.  try_lease then takes from the chosen lane's queue, *)
(* or from the other one when that is empty - without a second look at the *)
(* limit - and charges the lane whose queue it took from.                  *)
(***************************************************************************)
\* Mutant: the limit is noticed one lease too late.
PastLimit(l) == inflight[l] > Limit

AtLimit(l) == inflight[l] >= Limit

TryLane(l) == IF queue[l] # {} THEN l ELSE OtherLane(l)

LeaseLane(preferred) ==
  IF AtLimit(preferred) THEN TryLane(OtherLane(preferred)) ELSE TryLane(preferred)

\* The lease lease_next would return, if any.
Offer(preferred) ==
  IF AtLimit(preferred) /\ AtLimit(OtherLane(preferred)) THEN {}
  ELSE {[lane |-> LeaseLane(preferred), chunk |-> c] :
          c \in Front(queue[LeaseLane(preferred)])}

\* Mutants: the front is read but stays queued; the lease is returned to the
\* other lane; leases that are out are forgotten.
PeekFront(lease) == queue

ReleaseOtherLane(l) == [inflight EXCEPT ![OtherLane(l)] = @ - 1]

NothingQueued == Queued = {}

PopFront(lease) == [queue EXCEPT ![lease.lane] = @ \ {lease.chunk}]
Charge(l) == [inflight EXCEPT ![l] = @ + 1]

\* complete: the counter saturates at zero.
Release(l) == [inflight EXCEPT ![l] = IF @ = 0 THEN 0 ELSE @ - 1]

IsDrained == Queued = {} /\ inflight = NoInflight
-----------------------------------------------------------------------------
(***************************************************************************)
(* The scheduler on its own, as lane workers drive it: each asks for a     *)
(* chunk for its lane and returns the lease when the chunk is done.  Every *)
(* set of chunks may have been completed before it was built.              *)
(***************************************************************************)
SchedulerInit(chunkSize) ==
  \E completed \in SUBSET SplitAll(NFiles, chunkSize) :
    /\ queue = DealQueues(NFiles, chunkSize, completed)
    /\ inflight = NoInflight
    /\ out = {}

\* Mutant: the lane that asked is charged, not the one that gave the chunk.
LeaseNextChargingPreferred(preferred) ==
  \E lease \in Offer(preferred) :
    /\ queue' = PopFront(lease)
    /\ inflight' = Charge(preferred)
    /\ out' = out \cup {lease}

LeaseNext(preferred) ==
  \E lease \in Offer(preferred) :
    /\ queue' = PopFront(lease)
    /\ inflight' = Charge(lease.lane)
    /\ out' = out \cup {lease}

Complete(lease) ==
  /\ lease \in out
  /\ out' = out \ {lease}
  /\ inflight' = Release(lease.lane)
  /\ UNCHANGED queue

SchedulerNext ==
  \/ \E l \in Lane : LeaseNext(l)
  \/ \E lease \in out : Complete(lease)

\* A lane worker keeps asking for chunks, and returns every lease it was given.
LanesAreFair ==
  /\ WF_schedVars(\E l \in Lane : LeaseNext(l))
  /\ WF_schedVars(\E lease \in out : Complete(lease))
-----------------------------------------------------------------------------
SchedulerTypeOK ==
  /\ queue \in [Lane -> SUBSET Chunk]
  /\ inflight \in [Lane -> Nat]
  /\ out \subseteq Lease

(***************************************************************************)
(* The counter of a lane is the number of its leases that are still out:   *)
(* try_lease charges the lane it really took from, fallback included, and  *)
(* complete credits the same one.                                          *)
(***************************************************************************)
InflightCountsLeases ==
  \A l \in Lane : inflight[l] = Cardinality({x \in out : x.lane = l})

(***************************************************************************)
(* No chunk is handed to two holders: a chunk is in at most one of the two *)
(* queues and the leases that are out, over every order of the lanes'      *)
(* requests, fallbacks and returns.                                        *)
(***************************************************************************)
NoChunkTwice ==
  /\ queue["Adb"] \cap queue["Wifi"] = {}
  /\ \A x \in out : x.chunk \notin Queued
  /\ \A x, y \in out : x.chunk = y.chunk => x = y

(***************************************************************************)
(* max_in_flight_chunks_per_lane can be exceeded, since the fallback of    *)
(* try_lease does not look at it; but a lane is over its limit only once   *)
(* the other lane has nothing queued, that is, because its own work is     *)
(* being taken through the other lane's slots.                             *)
(***************************************************************************)
OverLimitOnlyByFallback ==
  \A l \in Lane : inflight[l] > Limit => queue[OtherLane(l)] = {}

(***************************************************************************)
(* If leases are returned, the lanes drain the scheduler: no combination   *)
(* of a full lane and an empty queue leaves chunks queued for ever.        *)
(***************************************************************************)
EventuallyDrained == <>IsDrained
=============================================================================

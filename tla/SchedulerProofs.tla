--------------------------- MODULE SchedulerProofs ---------------------------
(***************************************************************************)
(* Theorems about the scheduler, for every number of files, file size,     *)
(* chunk size, mode and limit.  The lemmas say what the two operations     *)
(* preserve, so that they hold wherever the scheduler is used.             *)
(***************************************************************************)
EXTENDS Scheduler, ChunkingProofs

USE DEF Lane

(***************************************************************************)
(* The invariant.  Counters can only be compared with a finite number of   *)
(* leases.                                                                 *)
(***************************************************************************)
LeasesInOrder ==
  /\ SchedulerTypeOK
  /\ IsFiniteSet(out)
  /\ InflightCountsLeases
  /\ NoChunkTwice
  /\ OverLimitOnlyByFallback

OutOn(l) == {x \in out : x.lane = l}

\* Finitely many leases of a lane are out.
LEMMA OutOnIsFinite ==
  ASSUME IsFiniteSet(out), NEW l
  PROVE  IsFiniteSet(OutOn(l))
<1>1. OutOn(l) \in SUBSET out
  BY DEF OutOn
<1> QED
  BY <1>1, FS_Subset

(***************************************************************************)
(* Every chunk is dealt to one lane.                                       *)
(***************************************************************************)
LEMMA DealtOnce ==
  ASSUME NEW n \in 0 .. NFiles, NEW chunkSz \in Nat, NEW completed
  PROVE  LET q == DealQueues(n, chunkSz, completed)
         IN  q \in [Lane -> SUBSET Chunk] /\ q["Adb"] \cap q["Wifi"] = {}
<1> DEFINE left == SplitAll(n, chunkSz) \ completed
           q    == DealQueues(n, chunkSz, completed)
<1>1. left \subseteq Chunk
  BY SplitAllIsFinite
<1>2. q = [l \in Lane |-> {c \in left : LaneOf(c, left) = l}]
  BY DEF DealQueues
<1> HIDE DEF left, q
<1>3. q \in [Lane -> SUBSET Chunk]
  BY <1>1, <1>2
<1>4. q["Adb"] \cap q["Wifi"] = {}
  BY <1>2
<1> QED
  BY <1>3, <1>4 DEF q

(***************************************************************************)
(* A scheduler that has just been built is in order.                       *)
(***************************************************************************)
JustBuilt ==
  /\ queue \in [Lane -> SUBSET Chunk]
  /\ queue["Adb"] \cap queue["Wifi"] = {}
  /\ inflight = NoInflight
  /\ out = {}

\* A scheduler just built has its leases in order.
LEMMA BuiltInOrder == JustBuilt => LeasesInOrder
<1> SUFFICES ASSUME JustBuilt PROVE LeasesInOrder
  OBVIOUS
<1> USE DEF JustBuilt
<1>1. SchedulerTypeOK
  BY DEF SchedulerTypeOK, NoInflight
<1>2. IsFiniteSet(out) /\ InflightCountsLeases
  <2>1. \A l \in Lane : {x \in out : x.lane = l} = {}
    OBVIOUS
  <2> QED
    BY <2>1, FS_EmptySet DEF InflightCountsLeases, NoInflight
<1>3. NoChunkTwice
  BY DEF NoChunkTwice
<1>4. OverLimitOnlyByFallback
  BY SchedulerAssumption DEF OverLimitOnlyByFallback, NoInflight
<1> QED
  BY <1>1, <1>2, <1>3, <1>4 DEF LeasesInOrder

(***************************************************************************)
(* What lease_next offers: the front of a queue that is not out; from a    *)
(* lane with a free slot, unless the other one has nothing queued.         *)
(***************************************************************************)
LEMMA OfferIsQueued ==
  ASSUME SchedulerTypeOK, NEW l \in Lane, NEW lease \in Offer(l)
  PROVE  /\ lease \in Lease
         /\ lease.chunk \in queue[lease.lane]
         /\ inflight[lease.lane] < Limit \/ queue[OtherLane(lease.lane)] = {}
<1>1. LeaseLane(l) \in Lane /\ OtherLane(l) \in Lane
  BY DEF LeaseLane, TryLane, OtherLane
<1>2. PICK c \in Front(queue[LeaseLane(l)]) :
        lease = [lane |-> LeaseLane(l), chunk |-> c]
  BY DEF Offer
<1>3. c \in queue[LeaseLane(l)] /\ queue[LeaseLane(l)] \subseteq Chunk
  BY <1>1 DEF Front, SchedulerTypeOK
<1>4. ~ AtLimit(l) \/ ~ AtLimit(OtherLane(l))
  BY DEF Offer
<1>5. PICK x \in Lane : ~ AtLimit(x) /\ LeaseLane(l) = TryLane(x)
  BY <1>1, <1>4 DEF LeaseLane
<1>6. inflight[x] < Limit
  BY <1>5, SchedulerAssumption DEF AtLimit, SchedulerTypeOK
<1>7. inflight[LeaseLane(l)] < Limit \/ queue[OtherLane(LeaseLane(l))] = {}
  <2>1. CASE queue[x] # {}
    BY <1>5, <1>6, <2>1 DEF TryLane
  <2>2. CASE queue[x] = {}
    BY <1>5, <2>2 DEF TryLane, OtherLane
  <2> QED
    BY <2>1, <2>2
<1> QED
  BY <1>1, <1>2, <1>3, <1>7 DEF Lease

\* lease_next moves one chunk from a queue to the leases that are out.
LEMMA LeaseNextKeepsOrder ==
  ASSUME LeasesInOrder, NEW l \in Lane, LeaseNext(l)
  PROVE  LeasesInOrder'
<1> USE DEF LeasesInOrder
<1>1. PICK lease \in Offer(l) :
        /\ queue' = PopFront(lease)
        /\ inflight' = Charge(lease.lane)
        /\ out' = out \cup {lease}
  BY DEF LeaseNext
<1>2. /\ lease \in Lease /\ lease.lane \in Lane /\ lease.chunk \in Chunk
      /\ lease.chunk \in queue[lease.lane]
      /\ inflight[lease.lane] < Limit \/ queue[OtherLane(lease.lane)] = {}
  BY OfferIsQueued DEF Lease
<1>3. lease \notin out
  BY <1>2 DEF NoChunkTwice, Queued
<1>4. /\ queue' \in [Lane -> SUBSET Chunk]
      /\ queue'[lease.lane] = queue[lease.lane] \ {lease.chunk}
      /\ \A k \in Lane \ {lease.lane} : queue'[k] = queue[k]
  BY <1>1, <1>2 DEF PopFront, SchedulerTypeOK
<1>5. /\ inflight' \in [Lane -> Nat]
      /\ inflight'[lease.lane] = inflight[lease.lane] + 1
      /\ \A k \in Lane \ {lease.lane} : inflight'[k] = inflight[k]
  BY <1>1, <1>2 DEF Charge, SchedulerTypeOK
<1>6. SchedulerTypeOK'
  BY <1>1, <1>2, <1>4, <1>5 DEF SchedulerTypeOK
<1>7. IsFiniteSet(out')
  BY <1>1, FS_AddElement
<1>8. InflightCountsLeases'
  <2> SUFFICES ASSUME NEW k \in Lane
               PROVE  inflight'[k] = Cardinality({x \in out' : x.lane = k})
    BY DEF InflightCountsLeases
  <2>1. inflight[k] = Cardinality(OutOn(k)) /\ IsFiniteSet(OutOn(k))
    BY OutOnIsFinite DEF InflightCountsLeases, OutOn
  <2>2. CASE k = lease.lane
    <3>1. {x \in out' : x.lane = k} = OutOn(k) \cup {lease} /\ lease \notin OutOn(k)
      BY <1>1, <1>3, <2>2 DEF OutOn
    <3>2. Cardinality(OutOn(k) \cup {lease}) = Cardinality(OutOn(k)) + 1
      BY <2>1, <3>1, FS_AddElement
    <3>3. inflight'[k] = Cardinality(OutOn(k)) + 1
      BY <1>5, <2>1, <2>2
    <3> QED
      BY <3>1, <3>2, <3>3
  <2>3. CASE k # lease.lane
    <3>1. {x \in out' : x.lane = k} = OutOn(k)
      BY <1>1, <2>3 DEF OutOn
    <3> QED
      BY <1>5, <2>1, <2>3, <3>1
  <2> QED
    BY <2>2, <2>3
<1>9. NoChunkTwice'
  <2>1. lease.chunk \notin queue'["Adb"] \cup queue'["Wifi"]
    BY <1>2, <1>4 DEF NoChunkTwice
  <2>2. queue'["Adb"] \subseteq queue["Adb"] /\ queue'["Wifi"] \subseteq queue["Wifi"]
    BY <1>2, <1>4
  <2>3. \A x \in out : x.chunk # lease.chunk
    BY <1>2 DEF NoChunkTwice, Queued
  <2> QED
    BY <1>1, <2>1, <2>2, <2>3 DEF NoChunkTwice, Queued
<1>10. OverLimitOnlyByFallback'
  <2> SUFFICES ASSUME NEW k \in Lane, inflight'[k] > Limit
               PROVE  queue'[OtherLane(k)] = {}
    BY DEF OverLimitOnlyByFallback
  <2>1. queue[OtherLane(k)] = {}
    <3>1. CASE k = lease.lane /\ inflight[k] < Limit
      BY <1>5, <3>1, SchedulerAssumption DEF SchedulerTypeOK
    <3>2. CASE k = lease.lane /\ ~ (inflight[k] < Limit)
      BY <1>2, <3>2
    <3>3. CASE k # lease.lane
      BY <1>5, <3>3 DEF OverLimitOnlyByFallback
    <3> QED
      BY <3>1, <3>2, <3>3
  <2>2. OtherLane(k) \in Lane
    BY DEF OtherLane
  <2> QED
    BY <1>2, <1>4, <2>1, <2>2
<1> QED
  BY <1>6, <1>7, <1>8, <1>9, <1>10

\* complete takes one lease back and uncounts it.
LEMMA CompleteKeepsOrder ==
  ASSUME LeasesInOrder, NEW lease, Complete(lease)
  PROVE  LeasesInOrder'
<1> USE DEF LeasesInOrder
<1>1. /\ lease \in out
      /\ out' = out \ {lease}
      /\ inflight' = Release(lease.lane)
      /\ queue' = queue
  BY DEF Complete
<1>2. lease \in Lease /\ lease.lane \in Lane
  BY <1>1 DEF SchedulerTypeOK, Lease
<1>3. /\ inflight' \in [Lane -> Nat]
      /\ inflight'[lease.lane] = IF inflight[lease.lane] = 0 THEN 0 ELSE inflight[lease.lane] - 1
      /\ \A k \in Lane \ {lease.lane} : inflight'[k] = inflight[k]
  BY <1>1, <1>2 DEF Release, SchedulerTypeOK
<1>4. SchedulerTypeOK'
  BY <1>1, <1>3 DEF SchedulerTypeOK
<1>5. IsFiniteSet(out')
  BY <1>1, FS_RemoveElement
<1>6. InflightCountsLeases'
  <2> SUFFICES ASSUME NEW k \in Lane
               PROVE  inflight'[k] = Cardinality({x \in out' : x.lane = k})
    BY DEF InflightCountsLeases
  <2>1. inflight[k] = Cardinality(OutOn(k)) /\ IsFiniteSet(OutOn(k))
    BY OutOnIsFinite DEF InflightCountsLeases, OutOn
  <2>2. CASE k = lease.lane
    <3>1. {x \in out' : x.lane = k} = OutOn(k) \ {lease} /\ lease \in OutOn(k)
      BY <1>1, <2>2 DEF OutOn
    <3>2. /\ Cardinality(OutOn(k) \ {lease}) = Cardinality(OutOn(k)) - 1
          /\ Cardinality(OutOn(k)) \in Nat
          /\ Cardinality(OutOn(k) \ {lease}) \in Nat
      BY <2>1, <3>1, FS_RemoveElement, FS_CardinalityType
    <3>3. inflight'[k] = Cardinality(OutOn(k)) - 1
      BY <1>3, <2>1, <2>2, <3>2
    <3> QED
      BY <3>1, <3>2, <3>3
  <2>3. CASE k # lease.lane
    <3>1. {x \in out' : x.lane = k} = OutOn(k)
      BY <1>1, <2>3 DEF OutOn
    <3> QED
      BY <1>3, <2>1, <2>3, <3>1
  <2> QED
    BY <2>2, <2>3
<1>7. NoChunkTwice'
  BY <1>1 DEF NoChunkTwice, Queued
<1>8. OverLimitOnlyByFallback'
  BY <1>1, <1>2, <1>3, SchedulerAssumption DEF OverLimitOnlyByFallback, SchedulerTypeOK
<1> QED
  BY <1>4, <1>5, <1>6, <1>7, <1>8

(***************************************************************************)
(* A chunk that is leased and completed at once only leaves its queue.     *)
(***************************************************************************)
LEMMA PopKeepsOrder ==
  ASSUME LeasesInOrder, NEW lease \in Lease,
         queue' = PopFront(lease), UNCHANGED <<inflight, out>>
  PROVE  LeasesInOrder'
<1> USE DEF LeasesInOrder
<1>1. /\ queue' \in [Lane -> SUBSET Chunk]
      /\ \A k \in Lane : queue'[k] \subseteq queue[k]
  BY DEF PopFront, SchedulerTypeOK, Lease
<1>2. SchedulerTypeOK' /\ IsFiniteSet(out)' /\ InflightCountsLeases'
  BY <1>1 DEF SchedulerTypeOK, InflightCountsLeases
<1>3. NoChunkTwice'
  BY <1>1 DEF NoChunkTwice, Queued
<1>4. OverLimitOnlyByFallback'
  BY <1>1 DEF OverLimitOnlyByFallback, OtherLane
<1> QED
  BY <1>2, <1>3, <1>4

\* A step that leaves queues, counters and leases alone.
LEMMA IdleKeepsOrder ==
  ASSUME LeasesInOrder, UNCHANGED schedVars
  PROVE  LeasesInOrder'
  BY DEF LeasesInOrder, schedVars, SchedulerTypeOK, InflightCountsLeases, NoChunkTwice, Queued,
         OverLimitOnlyByFallback
-----------------------------------------------------------------------------
(***************************************************************************)
(* The scheduler on its own, built for any chunk size with any chunks      *)
(* completed before.                                                       *)
(***************************************************************************)
LEMMA SchedulerKeepsOrder ==
  ASSUME NEW chunkSz \in ChunkSizes
  PROVE  SchedulerInit(chunkSz) /\ [][SchedulerNext]_schedVars => []LeasesInOrder
<1>1. SchedulerInit(chunkSz) => LeasesInOrder
  <2>1. chunkSz \in Nat /\ NFiles \in 0 .. NFiles
    BY ChunkingAssumption
  <2> QED
    BY <2>1, DealtOnce, BuiltInOrder DEF SchedulerInit, JustBuilt
<1>2. LeasesInOrder /\ [SchedulerNext]_schedVars => LeasesInOrder'
  BY LeaseNextKeepsOrder, CompleteKeepsOrder, IdleKeepsOrder DEF SchedulerNext
<1> QED
  BY <1>1, <1>2, PTL

(***************************************************************************)
(* For every task and every order of requests and returns, the in-flight   *)
(* counter of a lane is the number of its leases that are out: the one     *)
(* try_lease charges is the one complete credits, fallbacks included, and  *)
(* the saturation of complete at zero is never needed.                     *)
(***************************************************************************)
THEOREM LeasesAreCounted ==
  ASSUME NEW chunkSz \in ChunkSizes
  PROVE  SchedulerInit(chunkSz) /\ [][SchedulerNext]_schedVars => []InflightCountsLeases
<1>1. LeasesInOrder => InflightCountsLeases
  BY DEF LeasesInOrder
<1> QED
  BY <1>1, SchedulerKeepsOrder, PTL

(***************************************************************************)
(* No chunk is leased twice or leased while it is queued, however the      *)
(* lanes take from each other's queues.                                    *)
(***************************************************************************)
THEOREM NoChunkLeasedTwice ==
  ASSUME NEW chunkSz \in ChunkSizes
  PROVE  SchedulerInit(chunkSz) /\ [][SchedulerNext]_schedVars => []NoChunkTwice
<1>1. LeasesInOrder => NoChunkTwice
  BY DEF LeasesInOrder
<1> QED
  BY <1>1, SchedulerKeepsOrder, PTL

(***************************************************************************)
(* A lane has more leases than max_in_flight_chunks_per_lane only when the *)
(* other lane's queue is empty, for every limit, zero included.            *)
(***************************************************************************)
THEOREM LimitHoldsWhileBothLanesHaveWork ==
  ASSUME NEW chunkSz \in ChunkSizes
  PROVE  SchedulerInit(chunkSz) /\ [][SchedulerNext]_schedVars => []OverLimitOnlyByFallback
<1>1. LeasesInOrder => OverLimitOnlyByFallback
  BY DEF LeasesInOrder
<1> QED
  BY <1>1, SchedulerKeepsOrder, PTL
=============================================================================

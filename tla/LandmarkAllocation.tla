--------------------------- MODULE LandmarkAllocation ---------------------------
(***************************************************************************)
(* The CA's landmark sequence over time: allocate_landmark of              *)
(* mtc/landmark/allocation.py, called by a caller that keeps the sequence  *)
(* and the time of the last allocation together, as its contract demands.  *)
(*                                                                         *)
(* The issuance log is reduced to the sizes of its published checkpoints   *)
(* and the time at which each certificate was issued (the start of its     *)
(* validity).  A caller may pass an older checkpoint, and may have lost    *)
(* the last allocation time; both calls are refused or harmless.           *)
(*                                                                         *)
(* "Slip:" marks a plausible mistake in the definition after it, used only *)
(* to show that a property notices.                                        *)
(***************************************************************************)
EXTENDS Landmarks

CONSTANTS
  Lifetime,            \* max_cert_lifetime, the longest validity of a certificate
  TimeBetweenLandmarks, \* time_between_landmarks
  MaxLandmarksChoices, \* the max_landmarks a deployment may configure
  Checkpoints,         \* bound: the checkpoint sizes the log may publish
  MaxTime              \* bound: the last instant of a behaviour

ASSUME DurationsArePositive ==
  /\ Lifetime \in Nat \ {0}
  /\ TimeBetweenLandmarks \in Nat \ {0}

ASSUME MaxLandmarksArePositive == MaxLandmarksChoices \subseteq Nat \ {0}
ASSUME CheckpointsArePositive == Checkpoints \subseteq Nat \ {0}
ASSUME MaxTimeIsNatural == MaxTime \in Nat

VARIABLES
  now,                 \* the clock the caller reads
  checkpoints,         \* the sizes of the published checkpoints, in order
  issuedAt,            \* for each certificate index, when it was issued
  maxLandmarks,        \* LandmarkSequence.max_landmarks
  treeSizes,           \* LandmarkSequence.tree_sizes
  allocatedAt          \* when each landmark was allocated; the last one is the
                       \* last_allocation_time stored with the sequence

allocationVars == <<now, checkpoints, issuedAt, maxLandmarks, treeSizes, allocatedAt>>

Never == -1

PublishedSize == checkpoints[Len(checkpoints)]
Certificates == 1 .. PublishedSize - 1
LastAllocationTime == IF allocatedAt = << >> THEN Never ELSE allocatedAt[Len(allocatedAt)]

\* The log publishes its first checkpoint at some time; no landmark yet.
AllocationInit ==
  /\ now \in 0 .. MaxTime
  /\ \E first \in Checkpoints :
       /\ checkpoints = <<first>>
       /\ issuedAt = [i \in 1 .. first - 1 |-> now]
  /\ maxLandmarks \in MaxLandmarksChoices
  /\ treeSizes = <<0>>
  /\ allocatedAt = << >>

Tick ==
  /\ now < MaxTime
  /\ now' = now + 1
  /\ UNCHANGED <<checkpoints, issuedAt, maxLandmarks, treeSizes, allocatedAt>>

\* The CA issues certificates and publishes a checkpoint over them.
Issue(size) ==
  /\ size > PublishedSize
  /\ checkpoints' = Append(checkpoints, size)
  /\ issuedAt' = issuedAt \o [i \in 1 .. size - PublishedSize |-> now]
  /\ UNCHANGED <<now, maxLandmarks, treeSizes, allocatedAt>>

\* Slip: an allocation is refused only at the very same instant.
IntervalUsedNow(last) == last = now

\* An allocation was already made in the current interval.
IntervalUsed(last) ==
  last # Never /\ IntervalNumber(now, TimeBetweenLandmarks) = IntervalNumber(last, TimeBetweenLandmarks)

\* The restored time does not fit the restored sequence.
AllocationRefused(size, last) ==
  \/ maxLandmarks < RecommendedMaxLandmarks(Lifetime, TimeBetweenLandmarks)
  \/ size < LatestSize(treeSizes)
  \/ last # Never /\ (LatestNumber(treeSizes) = 0 \/ last > now)
  \/ last = Never /\ LatestNumber(treeSizes) # 0

\* allocate_landmark with the size of a published checkpoint and the stored
\* last allocation time, or none when the caller lost it.
Allocate(size, last) ==
  /\ ~AllocationRefused(size, last)
  /\ ~IntervalUsed(last)
  /\ size # LatestSize(treeSizes)
  /\ treeSizes' = Append(treeSizes, size)
  /\ allocatedAt' = Append(allocatedAt, now)
  /\ UNCHANGED <<now, checkpoints, issuedAt, maxLandmarks>>

AllocationStep ==
  \/ Tick
  \/ \E size \in Checkpoints : Issue(size)
  \/ \E k \in DOMAIN checkpoints, last \in {LastAllocationTime, Never} :
        Allocate(checkpoints[k], last)

AllocationSpec == AllocationInit /\ [][AllocationStep]_allocationVars

-----------------------------------------------------------------------------
(* Properties *)

AllocationTypeOK ==
  /\ now \in Nat
  /\ checkpoints \in Seq(Nat \ {0})
  /\ checkpoints # << >>
  /\ issuedAt \in Seq(Nat)
  /\ maxLandmarks \in Nat \ {0}
  /\ treeSizes \in Seq(Nat)
  /\ allocatedAt \in Seq(Nat)
  /\ Len(allocatedAt) = LatestNumber(treeSizes)

\* No certificate outlives the landmark that covers it: from the moment the
\* first covering landmark exists until the certificate expires, relying
\* parties keep that landmark's subtrees (allocate_landmark demands
\* max_landmarks >= ceil(lifetime / interval) + 1 and allocates at most once
\* per fixed interval; both are needed, and the bound is tight).
LandmarkOutlivesCertificates ==
  \A i \in Certificates :
    LET n == FirstCovering(treeSizes, i)
    IN  n # NoLandmark /\ now <= issuedAt[i] + Lifetime => n \in Active(treeSizes, maxLandmarks)

\* The published landmark list is usable by exactly the clients whose view of
\* the log has caught up with it, and the pairs of adjacent sizes in it give
\* exactly the intervals of the active landmarks (from_sequence publishes the
\* active sizes and one predecessor; parse_publication checks the rest).
PublicationServesClients ==
  LET p == Publication(treeSizes, maxLandmarks)
      pairs == {Cover(p.treeSizes[k + 1], p.treeSizes[k]) : k \in 1 .. p.numActive}
  IN  /\ \A k \in DOMAIN checkpoints :
            ParseAccepts(p, maxLandmarks, checkpoints[k]) <=> checkpoints[k] >= LatestSize(treeSizes)
      /\ ActiveIntervals(treeSizes, maxLandmarks) = UNION {{c[k] : k \in DOMAIN c} : c \in pairs}
=============================================================================

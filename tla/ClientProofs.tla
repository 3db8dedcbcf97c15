---------------------------- MODULE ClientProofs ----------------------------
(***************************************************************************)
(* What the users of a log rely on: a client that negotiates a certificate *)
(* and a monitor that watches the cosigners.                               *)
(*                                                                         *)
(* Part 1.  Landmarks retire late enough, the published list is usable,    *)
(* and a client that announces the latest landmark of its trust update is  *)
(* never handed a certificate it cannot trace to its trust: for any        *)
(* lifetime, any interval, any number of landmarks and any certificates.   *)
(*                                                                         *)
(* The landmarks after the first one that covers a certificate were all    *)
(* allocated while the certificate was valid, in as many different         *)
(* intervals.  A lifetime meets at most ceil(lifetime / interval) + 1      *)
(* intervals, and the maximum number of landmarks is at least that.        *)
(*                                                                         *)
(* The client's landmark sequence is a prefix of the CA's, so both see the *)
(* same subtrees behind a landmark number.  The server offers a            *)
(* certificate whose landmark is fewer than max_landmarks before the one   *)
(* announced, and those are the ones the client still trusts.              *)
(*                                                                         *)
(* Part 2.  The monitor's promises, for any set of cosigners, any heads    *)
(* they may sign and any answers of their publishers.                      *)
(*                                                                         *)
(* A run without events has compared every view with the largest one and   *)
(* every view with the memory of its cosigner.  So one cosigner's memory   *)
(* (the largest view's) extends all that clean runs ever saw, and because  *)
(* memory only grows, the next clean run's largest view extends it, too.   *)
(***************************************************************************)
EXTENDS Handshake, Monitor, DataLemmas

-----------------------------------------------------------------------------
\* Part 1: what a client negotiates.

Interv(t) == IntervalNumber(t, TimeBetweenLandmarks)

\* Sizes only grow, and a landmark never exceeds what is published.
SizesFit ==
  /\ \A k \in DOMAIN checkpoints : checkpoints[k] <= PublishedSize
  /\ IsLandmarkSequence(treeSizes, maxLandmarks)
  /\ \A n \in LandmarkNumbers(treeSizes) : SizeOf(treeSizes, n) <= PublishedSize
  /\ Len(issuedAt) = PublishedSize - 1

\* A certificate was issued before any landmark that covers it.
IssuedBeforeCovered ==
  /\ \A i \in DOMAIN issuedAt : issuedAt[i] <= now
  /\ \A n \in 1 .. LatestNumber(treeSizes) : \A i \in 1 .. SizeOf(treeSizes, n) - 1 :
       issuedAt[i] <= allocatedAt[n]

\* Landmarks are allocated in different intervals.
OncePerInterval ==
  /\ \A n \in DOMAIN allocatedAt : allocatedAt[n] <= now
  /\ \A m, n \in DOMAIN allocatedAt :
       m <= n => Interv(allocatedAt[m]) + (n - m) <= Interv(allocatedAt[n])

\* No landmark was allocated with too small a maximum.
EnoughLandmarks ==
  allocatedAt # << >> => RecommendedMaxLandmarks(Lifetime, TimeBetweenLandmarks) <= maxLandmarks

AllocationInv ==
  /\ AllocationTypeOK
  /\ SizesFit
  /\ IssuedBeforeCovered
  /\ OncePerInterval
  /\ EnoughLandmarks

\* What a signatureless certificate was issued from.
ArtifactsFit ==
  \A c \in artifacts :
    \/ c.kind = "full"
    \/ /\ c.kind = "signatureless"
       /\ c.landmark \in 1 .. LatestNumber(treeSizes)
       /\ c.subtree \in IntervalsOf(treeSizes, {c.landmark})

\* The client has followed the landmark sequence up to some landmark.
ClientFollows ==
  /\ verifiedSizes \in Seq(Nat)
  /\ Len(verifiedSizes) \in 1 .. Len(treeSizes)
  /\ \A k \in 1 .. Len(verifiedSizes) : verifiedSizes[k] = treeSizes[k]

HandshakeInv == AllocationInv /\ ArtifactsFit /\ ClientFollows

-----------------------------------------------------------------------------
(* Division *)

\* A span of length d meets at most ceil(d / t) intervals after its first one.
LEMMA DivSpan ==
  ASSUME NEW t \in Nat \ {0}, NEW x \in Nat, NEW d \in Nat
  PROVE  (x + d) \div t <= x \div t + d \div t + (IF d % t = 0 THEN 0 ELSE 1)
OBVIOUS

-----------------------------------------------------------------------------
(* The invariant of the allocation is inductive *)

LEMMA AllocationInitInv == AllocationInit => AllocationInv
<1> SUFFICES ASSUME AllocationInit PROVE AllocationInv
  OBVIOUS
<1>a. PICK first \in Checkpoints : checkpoints = <<first>> /\ issuedAt = [i \in 1 .. first - 1 |-> now]
  BY DEF AllocationInit
<1>b. first \in Nat \ {0} /\ now \in Nat
  BY CheckpointsArePositive, MaxTimeIsNatural DEF AllocationInit
<1>c. checkpoints \in Seq(Nat \ {0}) /\ Len(checkpoints) = 1 /\ checkpoints[1] = first
  BY <1>a, <1>b
<1>d. issuedAt \in Seq(Nat) /\ Len(issuedAt) = first - 1 /\ \A i \in DOMAIN issuedAt : issuedAt[i] = now
  <2>1. issuedAt \in [1 .. first - 1 -> Nat] /\ first - 1 \in Nat
    BY <1>a, <1>b
  <2>2. issuedAt \in Seq(Nat) /\ Len(issuedAt) = first - 1
    BY <2>1
  <2> QED BY <1>a, <2>2
<1> USE DEF AllocationInit
<1>1. AllocationTypeOK
  BY <1>b, <1>c, <1>d, MaxLandmarksArePositive DEF AllocationTypeOK, LatestNumber
<1>2. SizesFit
  BY <1>b, <1>c, <1>d, MaxLandmarksArePositive
  DEF SizesFit, IsLandmarkSequence, LandmarkNumbers, SizeOf, PublishedSize
<1>3. IssuedBeforeCovered /\ OncePerInterval /\ EnoughLandmarks
  BY DEF IssuedBeforeCovered, OncePerInterval, EnoughLandmarks, LatestNumber
<1> QED BY <1>1, <1>2, <1>3 DEF AllocationInv

LEMMA TickInv == AllocationInv /\ Tick => AllocationInv'
<1> SUFFICES ASSUME AllocationInv, Tick PROVE AllocationInv'
  OBVIOUS
<1> USE DEF AllocationInv, Tick
<1>1. AllocationTypeOK'
  BY DEF AllocationTypeOK
<1>2. SizesFit'
  BY DEF SizesFit, PublishedSize
<1>3. IssuedBeforeCovered'
  BY DEF IssuedBeforeCovered, AllocationTypeOK
<1>4. OncePerInterval'
  BY DEF OncePerInterval, Interv, AllocationTypeOK
<1>5. EnoughLandmarks'
  BY DEF EnoughLandmarks
<1> QED BY <1>1, <1>2, <1>3, <1>4, <1>5

\* The certificates a landmark covers keep their position when more are issued.
LEMMA IssueInv ==
  ASSUME AllocationInv, NEW size \in Checkpoints, Issue(size)
  PROVE  AllocationInv'
<1> DEFINE fresh == [i \in 1 .. size - PublishedSize |-> now]
<1>1. /\ AllocationTypeOK /\ SizesFit /\ IssuedBeforeCovered /\ OncePerInterval /\ EnoughLandmarks
      /\ size \in Nat \ {0} /\ PublishedSize \in Nat \ {0} /\ size > PublishedSize
  BY CheckpointsArePositive DEF AllocationInv, Issue, AllocationTypeOK, PublishedSize
<1>2. UNCHANGED <<now, maxLandmarks, treeSizes, allocatedAt>>
  BY DEF Issue
<1>3. /\ checkpoints' = Append(checkpoints, size)
      /\ checkpoints' \in Seq(Nat \ {0}) /\ checkpoints' # << >>
      /\ PublishedSize' = size
      /\ \A k \in DOMAIN checkpoints' : checkpoints'[k] <= size
  <2>1. checkpoints' = Append(checkpoints, size) /\ checkpoints \in Seq(Nat \ {0})
    BY <1>1 DEF Issue, AllocationTypeOK
  <2>2. checkpoints' \in Seq(Nat \ {0}) /\ checkpoints' # << >> /\ PublishedSize' = size
    BY <1>1, <2>1 DEF PublishedSize
  <2>3. ASSUME NEW k \in DOMAIN checkpoints' PROVE checkpoints'[k] <= size
    <3>1. CASE k \in DOMAIN checkpoints
      <4>1. checkpoints'[k] = checkpoints[k] /\ checkpoints[k] \in Nat /\ checkpoints[k] <= PublishedSize
        BY <1>1, <2>1, <3>1 DEF SizesFit
      <4> QED BY <1>1, <4>1
    <3>2. CASE k \notin DOMAIN checkpoints
      BY <1>1, <2>1, <3>2
    <3> QED BY <3>1, <3>2
  <2> QED BY <2>1, <2>2, <2>3
<1>4. fresh \in Seq(Nat) /\ Len(fresh) = size - PublishedSize
  <2>1. now \in Nat /\ size - PublishedSize \in Nat
    BY <1>1 DEF AllocationTypeOK
  <2>2. fresh \in [1 .. size - PublishedSize -> Nat]
    BY <2>1
  <2> QED BY <2>1, <2>2
<1>5. /\ issuedAt' \in Seq(Nat)
      /\ Len(issuedAt') = size - 1
      /\ \A i \in DOMAIN issuedAt : issuedAt'[i] = issuedAt[i]
      /\ \A i \in DOMAIN issuedAt' : issuedAt'[i] <= now'
  <2> HIDE DEF fresh
  <2>1. issuedAt' = issuedAt \o fresh /\ issuedAt \in Seq(Nat)
    BY <1>1 DEF Issue, AllocationTypeOK, fresh
  <2>2. /\ issuedAt' \in Seq(Nat)
        /\ Len(issuedAt') = Len(issuedAt) + Len(fresh)
        /\ \A i \in 1 .. Len(issuedAt) + Len(fresh) : issuedAt'[i] =
              IF i <= Len(issuedAt) THEN issuedAt[i] ELSE fresh[i - Len(issuedAt)]
    BY <1>4, <2>1, ConcatProperties
  <2>3. \A i \in 1 .. Len(fresh) : fresh[i] = now
    BY <1>4 DEF fresh
  <2>4. Len(issuedAt) = PublishedSize - 1 /\ \A i \in DOMAIN issuedAt : issuedAt[i] <= now
    BY <1>1 DEF SizesFit, IssuedBeforeCovered
  <2>5. now \in Nat /\ now' = now
    BY <1>1, <1>2 DEF AllocationTypeOK
  <2>6. ASSUME NEW i \in DOMAIN issuedAt' PROVE issuedAt'[i] <= now'
    <3>1. i \in 1 .. Len(issuedAt) + Len(fresh)
      BY <2>2
    <3>2. CASE i <= Len(issuedAt)
      BY <2>1, <2>2, <2>4, <2>5, <3>1, <3>2
    <3>3. CASE ~(i <= Len(issuedAt))
      <4>1. i - Len(issuedAt) \in 1 .. Len(fresh)
        BY <1>4, <2>1, <3>1, <3>3, <1>1
      <4>2. issuedAt'[i] = fresh[i - Len(issuedAt)]
        BY <2>2, <3>1, <3>3
      <4>3. fresh[i - Len(issuedAt)] = now
        BY <2>3, <4>1
      <4> QED BY <2>5, <4>2, <4>3
    <3> QED BY <3>2, <3>3
  <2>7. \A i \in DOMAIN issuedAt : issuedAt'[i] = issuedAt[i]
    BY <1>1, <1>4, <2>1, <2>2
  <2> QED BY <1>1, <1>4, <2>2, <2>4, <2>6, <2>7
<1>6. AllocationTypeOK'
  BY <1>1, <1>2, <1>3, <1>5 DEF AllocationTypeOK
<1>7. SizesFit'
  <2> HIDE DEF fresh
  <2>1. /\ IsLandmarkSequence(treeSizes', maxLandmarks')
        /\ \A n \in LandmarkNumbers(treeSizes) :
             SizeOf(treeSizes, n) \in Nat /\ SizeOf(treeSizes, n) <= PublishedSize
    BY <1>1, <1>2 DEF SizesFit, LandmarkNumbers, SizeOf, AllocationTypeOK
  <2>2. \A n \in LandmarkNumbers(treeSizes) : SizeOf(treeSizes, n) <= size
    BY <1>1, <2>1
  <2>3. \A n \in LandmarkNumbers(treeSizes') : SizeOf(treeSizes', n) <= PublishedSize'
    BY <1>2, <1>3, <2>2
  <2> QED BY <1>3, <1>5, <2>1, <2>3 DEF SizesFit
<1>8. IssuedBeforeCovered'
  <2> SUFFICES ASSUME NEW n \in 1 .. LatestNumber(treeSizes), NEW i \in 1 .. SizeOf(treeSizes, n) - 1
               PROVE  issuedAt'[i] <= allocatedAt[n]
    BY <1>2, <1>5 DEF IssuedBeforeCovered
  <2>1. i \in DOMAIN issuedAt
    <3>1. n \in LandmarkNumbers(treeSizes) /\ SizeOf(treeSizes, n) \in Nat
      <4>1. treeSizes \in Seq(Nat) /\ n + 1 \in 1 .. Len(treeSizes) /\ n \in 0 .. Len(treeSizes) - 1
        BY <1>1 DEF LatestNumber, AllocationTypeOK
      <4> QED BY <4>1 DEF LandmarkNumbers, SizeOf
    <3>2. SizeOf(treeSizes, n) <= PublishedSize /\ DOMAIN issuedAt = 1 .. PublishedSize - 1
      <4>1. SizeOf(treeSizes, n) <= PublishedSize /\ Len(issuedAt) = PublishedSize - 1
        BY <1>1, <3>1 DEF SizesFit
      <4> QED BY <1>1, <4>1 DEF AllocationTypeOK
    <3> QED BY <1>1, <3>1, <3>2
  <2> QED BY <1>1, <1>5, <2>1 DEF IssuedBeforeCovered
<1>9. OncePerInterval' /\ EnoughLandmarks'
  BY <1>1, <1>2 DEF OncePerInterval, EnoughLandmarks
<1> QED BY <1>6, <1>7, <1>8, <1>9 DEF AllocationInv

\* A landmark is allocated in a later interval than the one before it.
LEMMA AllocateInv ==
  ASSUME AllocationInv, NEW k \in DOMAIN checkpoints, NEW last \in {LastAllocationTime, Never},
         Allocate(checkpoints[k], last)
  PROVE  AllocationInv'
<1> DEFINE size == checkpoints[k]
<1>1. /\ AllocationTypeOK /\ SizesFit /\ IssuedBeforeCovered /\ OncePerInterval /\ EnoughLandmarks
      /\ size \in Nat \ {0} /\ size <= PublishedSize
  BY DEF AllocationInv, AllocationTypeOK, SizesFit
<1>2. UNCHANGED <<now, checkpoints, issuedAt, maxLandmarks>> /\ PublishedSize' = PublishedSize
  BY DEF Allocate, PublishedSize
<1>3. /\ Len(treeSizes) \in Nat \ {0} /\ Len(allocatedAt) = Len(treeSizes) - 1
      /\ DOMAIN allocatedAt = 1 .. Len(treeSizes) - 1
      /\ LatestSize(treeSizes) < size
      /\ RecommendedMaxLandmarks(Lifetime, TimeBetweenLandmarks) <= maxLandmarks
  <2>1. /\ Len(treeSizes) \in Nat \ {0} /\ Len(allocatedAt) = Len(treeSizes) - 1
        /\ DOMAIN allocatedAt = 1 .. Len(treeSizes) - 1
    BY <1>1 DEF AllocationTypeOK, SizesFit, IsLandmarkSequence, LatestNumber
  <2>2. RecommendedMaxLandmarks(Lifetime, TimeBetweenLandmarks) \in Nat
    BY DivBounds, DurationsArePositive DEF RecommendedMaxLandmarks
  <2>3. LatestSize(treeSizes) \in Nat
    BY <1>1, <2>1 DEF AllocationTypeOK, LatestSize
  <2> QED BY <1>1, <2>1, <2>2, <2>3, SMTT(30) DEF Allocate, AllocationRefused, AllocationTypeOK
<1>4. /\ treeSizes' = Append(treeSizes, size) /\ treeSizes' \in Seq(Nat)
      /\ Len(treeSizes') = Len(treeSizes) + 1
      /\ allocatedAt' = Append(allocatedAt, now) /\ allocatedAt' \in Seq(Nat)
      /\ Len(allocatedAt') = Len(treeSizes)
      /\ \A n \in 1 .. Len(treeSizes) : treeSizes'[n] = treeSizes[n]
      /\ \A n \in DOMAIN allocatedAt : allocatedAt'[n] = allocatedAt[n]
      /\ treeSizes'[Len(treeSizes) + 1] = size
      /\ allocatedAt'[Len(treeSizes)] = now
  BY <1>1, <1>3 DEF Allocate, AllocationTypeOK
<1>5. AllocationTypeOK'
  BY <1>1, <1>2, <1>3, <1>4 DEF AllocationTypeOK, LatestNumber
<1>6. SizesFit'
  <2>1. \A j \in DOMAIN checkpoints' : checkpoints'[j] <= PublishedSize'
    BY <1>1, <1>2 DEF SizesFit
  <2>2. Len(issuedAt') = PublishedSize' - 1
    BY <1>1, <1>2 DEF SizesFit
  <2>3. \A n \in LandmarkNumbers(treeSizes') : SizeOf(treeSizes', n) <= PublishedSize'
    <3> SUFFICES ASSUME NEW n \in 0 .. Len(treeSizes) PROVE treeSizes'[n + 1] <= PublishedSize
      BY <1>2, <1>4 DEF LandmarkNumbers, SizeOf
    <3>1. CASE n = Len(treeSizes)
      BY <1>1, <1>4, <3>1
    <3>2. CASE n # Len(treeSizes)
      <4>1. n \in LandmarkNumbers(treeSizes) /\ n + 1 \in 1 .. Len(treeSizes)
        BY <1>3, <3>2 DEF LandmarkNumbers
      <4> QED BY <1>1, <1>4, <4>1 DEF SizesFit, SizeOf
    <3> QED BY <3>1, <3>2
  <2>4. IsLandmarkSequence(treeSizes', maxLandmarks')
    <3>1. treeSizes' # << >> /\ treeSizes'[1] = 0
      BY <1>1, <1>3, <1>4 DEF SizesFit, IsLandmarkSequence
    <3>2. ASSUME NEW n \in 1 .. Len(treeSizes') - 1 PROVE treeSizes'[n] < treeSizes'[n + 1]
      <4>1. CASE n = Len(treeSizes)
        BY <1>3, <1>4, <4>1 DEF LatestSize
      <4>2. CASE n # Len(treeSizes)
        <5>1. n \in 1 .. Len(treeSizes) - 1
          BY <1>3, <1>4, <3>2, <4>2
        <5>2. treeSizes'[n] = treeSizes[n] /\ treeSizes'[n + 1] = treeSizes[n + 1]
          BY <1>3, <1>4, <5>1
        <5> QED BY <1>1, <5>1, <5>2 DEF SizesFit, IsLandmarkSequence
      <4> QED BY <4>1, <4>2
    <3> QED BY <1>1, <1>2, <3>1, <3>2 DEF IsLandmarkSequence, AllocationTypeOK
  <2> QED BY <2>1, <2>2, <2>3, <2>4 DEF SizesFit
<1>7. IssuedBeforeCovered'
  <2>1. \A i \in DOMAIN issuedAt : issuedAt[i] <= now
    BY <1>1 DEF IssuedBeforeCovered
  <2>2. ASSUME NEW n \in 1 .. Len(treeSizes), NEW i \in 1 .. treeSizes'[n + 1] - 1
        PROVE  issuedAt[i] <= allocatedAt'[n]
    <3>1. CASE n = Len(treeSizes)
      <4>1. i \in 1 .. size - 1
        BY <1>4, <3>1
      <4>2. DOMAIN issuedAt = 1 .. PublishedSize - 1
        BY <1>1 DEF SizesFit, AllocationTypeOK
      <4>3. PublishedSize \in Nat
        BY <1>1 DEF AllocationTypeOK, PublishedSize
      <4>4. i \in DOMAIN issuedAt
        BY <1>1, <4>1, <4>2, <4>3
      <4> QED BY <1>4, <2>1, <3>1, <4>4
    <3>2. CASE n # Len(treeSizes)
      <4>1. n \in 1 .. LatestNumber(treeSizes) /\ n + 1 \in 1 .. Len(treeSizes) /\ n \in DOMAIN allocatedAt
        BY <1>3, <3>2 DEF LatestNumber
      <4> QED BY <1>1, <1>4, <4>1 DEF IssuedBeforeCovered, SizeOf
    <3> QED BY <3>1, <3>2
  <2> QED BY <1>2, <1>4, <2>1, <2>2 DEF IssuedBeforeCovered, LatestNumber, SizeOf
<1>8. OncePerInterval'
  <2>1. now \in Nat /\ Interv(now) \in Nat /\ \A n \in DOMAIN allocatedAt : Interv(allocatedAt[n]) \in Nat
    <3>1. now \in Nat /\ \A n \in DOMAIN allocatedAt : allocatedAt[n] \in Nat
      BY <1>1 DEF AllocationTypeOK
    <3>2. \A t \in Nat : Interv(t) \in Nat
      BY DivBounds, DurationsArePositive DEF Interv, IntervalNumber
    <3> QED BY <3>1, <3>2
  <2>2. \A n \in DOMAIN allocatedAt' : allocatedAt'[n] <= now
    <3> SUFFICES ASSUME NEW n \in 1 .. Len(treeSizes) PROVE allocatedAt'[n] <= now
      BY <1>4
    <3>1. CASE n = Len(treeSizes)
      BY <1>4, <2>1, <3>1
    <3>2. CASE n # Len(treeSizes)
      <4>1. n \in DOMAIN allocatedAt
        BY <1>3, <3>2
      <4> QED BY <1>1, <1>4, <4>1 DEF OncePerInterval
    <3> QED BY <3>1, <3>2
  <2>3. ASSUME allocatedAt # << >>
        PROVE  Interv(allocatedAt[Len(allocatedAt)]) + 1 <= Interv(now)
    <3>1. Len(allocatedAt) \in DOMAIN allocatedAt /\ LatestNumber(treeSizes) # 0
      BY <1>1, <2>3 DEF AllocationTypeOK
    <3>2. last # Never /\ last = allocatedAt[Len(allocatedAt)]
      BY <2>3, <3>1 DEF Allocate, AllocationRefused, LastAllocationTime
    <3>3. last \in Nat /\ last <= now /\ Interv(now) # Interv(last)
      BY <1>1, <3>1, <3>2 DEF Allocate, AllocationRefused, IntervalUsed, Interv, AllocationTypeOK, OncePerInterval
    <3>4. Interv(last) <= Interv(now)
      BY <2>1, <3>3, DivMonotone, DurationsArePositive DEF Interv, IntervalNumber
    <3> QED BY <2>1, <3>1, <3>2, <3>3, <3>4
  <2>4. ASSUME NEW m \in DOMAIN allocatedAt', NEW n \in DOMAIN allocatedAt', m <= n
        PROVE  Interv(allocatedAt'[m]) + (n - m) <= Interv(allocatedAt'[n])
    <3>1. m \in 1 .. Len(treeSizes) /\ n \in 1 .. Len(treeSizes) /\ DOMAIN allocatedAt = 1 .. Len(treeSizes) - 1
      BY <1>1, <1>3, <1>4 DEF AllocationTypeOK
    <3>2. CASE n # Len(treeSizes)
      <4>1. m \in DOMAIN allocatedAt /\ n \in DOMAIN allocatedAt
        BY <1>3, <2>4, <3>1, <3>2
      <4> QED BY <1>1, <1>4, <2>4, <4>1 DEF OncePerInterval
    <3>3. CASE n = Len(treeSizes) /\ m = n
      BY <1>4, <2>1, <3>1, <3>3
    <3>4. CASE n = Len(treeSizes) /\ m # n
      <4>1. /\ m \in DOMAIN allocatedAt /\ allocatedAt # << >>
            /\ Len(allocatedAt) = n - 1 /\ n - 1 \in DOMAIN allocatedAt /\ m <= n - 1
        BY <1>3, <2>4, <3>1, <3>4
      <4>2. Interv(allocatedAt[m]) + (n - 1 - m) <= Interv(allocatedAt[n - 1])
        BY <1>1, <4>1 DEF OncePerInterval
      <4>3. Interv(allocatedAt[n - 1]) + 1 <= Interv(now)
        BY <2>3, <4>1
      <4>4. Interv(allocatedAt[m]) + (n - m) <= Interv(now)
        BY <1>3, <2>1, <3>1, <4>1, <4>2, <4>3, SMTT(30)
      <4>5. allocatedAt'[n] = now /\ allocatedAt'[m] = allocatedAt[m]
        BY <1>4, <3>4, <4>1
      <4> QED BY <4>4, <4>5
    <3> QED BY <3>2, <3>3, <3>4
  <2> QED BY <1>2, <2>2, <2>4 DEF OncePerInterval
<1>9. EnoughLandmarks'
  BY <1>2, <1>3 DEF EnoughLandmarks
<1> QED BY <1>5, <1>6, <1>7, <1>8, <1>9 DEF AllocationInv

LEMMA AllocationNextInv == AllocationInv /\ [AllocationStep]_allocationVars => AllocationInv'
<1> SUFFICES ASSUME AllocationInv, [AllocationStep]_allocationVars PROVE AllocationInv'
  OBVIOUS
<1>1. CASE Tick
  BY <1>1, TickInv
<1>2. CASE \E size \in Checkpoints : Issue(size)
  BY <1>2, IssueInv
<1>3. CASE \E k \in DOMAIN checkpoints, last \in {LastAllocationTime, Never} : Allocate(checkpoints[k], last)
  BY <1>3, AllocateInv
<1>4. CASE UNCHANGED allocationVars
  BY <1>4 DEF AllocationInv, AllocationTypeOK, SizesFit, IssuedBeforeCovered, OncePerInterval,
              EnoughLandmarks, PublishedSize, allocationVars
<1> QED BY <1>1, <1>2, <1>3, <1>4 DEF AllocationStep

-----------------------------------------------------------------------------
(* No certificate outlives its landmark *)

LEMMA TimesAreNat ==
  ASSUME AllocationTypeOK
  PROVE  /\ now \in Nat /\ \A j \in DOMAIN allocatedAt : allocatedAt[j] \in Nat
         /\ \A j \in DOMAIN issuedAt : issuedAt[j] \in Nat
<1>1. now \in Nat /\ allocatedAt \in Seq(Nat) /\ issuedAt \in Seq(Nat)
  BY DEF AllocationTypeOK
<1> QED BY <1>1

\* The landmarks allocated while a certificate is valid are fewer than the
\* maximum number of landmarks, the one that covers it first included.
LEMMA InvOutlives == AllocationInv => LandmarkOutlivesCertificates
<1> SUFFICES ASSUME AllocationInv, NEW i \in Certificates,
                    FirstCovering(treeSizes, i) # NoLandmark, now <= issuedAt[i] + Lifetime
             PROVE  FirstCovering(treeSizes, i) \in Active(treeSizes, maxLandmarks)
  BY DEF LandmarkOutlivesCertificates
<1> DEFINE n == FirstCovering(treeSizes, i)
           latest == LatestNumber(treeSizes)
<1>1. /\ AllocationTypeOK /\ SizesFit /\ IssuedBeforeCovered /\ OncePerInterval /\ EnoughLandmarks
      /\ Len(treeSizes) \in Nat \ {0} /\ latest \in Nat /\ latest = Len(treeSizes) - 1
      /\ DOMAIN allocatedAt = 1 .. latest /\ DOMAIN issuedAt = Certificates
      /\ maxLandmarks \in Nat \ {0}
  BY DEF AllocationInv, AllocationTypeOK, SizesFit, IsLandmarkSequence, LatestNumber, Certificates
<1>2. n \in LandmarkNumbers(treeSizes) /\ SizeOf(treeSizes, n) > i
  <2> DEFINE above == {m \in LandmarkNumbers(treeSizes) : SizeOf(treeSizes, m) > i}
  <2>1. above # {} /\ n = CHOOSE x \in above : \A m \in above : x <= m
    BY DEF FirstCovering
  <2>2. above \subseteq Nat
    BY <1>1 DEF LandmarkNumbers
  <2>3. \E x \in above : \A m \in above : x <= m
    <3>1. PICK y \in above : TRUE
      BY <2>1
    <3> HIDE DEF above
    <3> QED BY <2>2, <3>1, SmallestExists
  <2> QED BY <2>1, <2>3
<1>3. n \in 1 .. latest /\ n \in Nat /\ i \in 1 .. SizeOf(treeSizes, n) - 1
  <2>1. n # 0
    BY <1>1, <1>2 DEF SizesFit, IsLandmarkSequence, SizeOf, Certificates
  <2>2. n \in 0 .. latest /\ i \in Nat \ {0}
    BY <1>1, <1>2 DEF LandmarkNumbers, Certificates
  <2>3. SizeOf(treeSizes, n) \in Nat
    <3>1. n + 1 \in 1 .. Len(treeSizes) /\ treeSizes \in Seq(Nat)
      BY <1>1, <2>2, SMTT(30) DEF AllocationTypeOK
    <3> QED BY <3>1 DEF SizeOf
  <2> QED BY <1>1, <1>2, <2>1, <2>2, <2>3
<1> DEFINE from == allocatedAt[n]
           ceiling == Lifetime \div TimeBetweenLandmarks + (IF Lifetime % TimeBetweenLandmarks = 0 THEN 0 ELSE 1)
<1>4. from \in Nat /\ now \in Nat /\ allocatedAt[latest] \in Nat /\ allocatedAt[latest] <= now
      /\ issuedAt[i] \in Nat /\ issuedAt[i] <= from /\ Lifetime \in Nat /\ now <= from + Lifetime
  <2>1. from \in Nat /\ now \in Nat /\ allocatedAt[latest] \in Nat /\ issuedAt[i] \in Nat /\ Lifetime \in Nat
    <3>1. n \in DOMAIN allocatedAt /\ latest \in DOMAIN allocatedAt /\ i \in DOMAIN issuedAt
      BY <1>1, <1>3
    <3>2. /\ now \in Nat /\ \A j \in DOMAIN allocatedAt : allocatedAt[j] \in Nat
          /\ \A j \in DOMAIN issuedAt : issuedAt[j] \in Nat
      BY <1>1, TimesAreNat
    <3> QED BY <3>1, <3>2, DurationsArePositive
  <2>2. allocatedAt[latest] <= now
    BY <1>1, <1>3 DEF OncePerInterval
  <2>3. issuedAt[i] <= from
    BY <1>1, <1>3 DEF IssuedBeforeCovered
  <2> HIDE DEF from, latest, n
  <2> QED BY <2>1, <2>2, <2>3
<1>5. ceiling \in Nat /\ \A t \in Nat : Interv(t) \in Nat
  <2>1. TimeBetweenLandmarks \in Nat \ {0} /\ Lifetime \in Nat
    BY DurationsArePositive
  <2>2. \A t \in Nat : t \div TimeBetweenLandmarks \in Nat
    BY <2>1, DivBounds
  <2> QED BY <2>1, <2>2 DEF Interv, IntervalNumber
<1>6. Interv(from) + (latest - n) <= Interv(allocatedAt[latest])
  BY <1>1, <1>3 DEF OncePerInterval
<1>7. Interv(allocatedAt[latest]) <= Interv(from + Lifetime)
  <2>1. allocatedAt[latest] <= from + Lifetime
    BY <1>4
  <2> DEFINE early == allocatedAt[latest]
             late == from + Lifetime
  <2>2. early \in Nat /\ late \in Nat /\ early <= late
    BY <1>4, <2>1, DurationsArePositive
  <2>3. TimeBetweenLandmarks \in Nat \ {0}
    BY DurationsArePositive
  <2> HIDE DEF early, late
  <2>4. early \div TimeBetweenLandmarks <= late \div TimeBetweenLandmarks
    BY <2>2, <2>3, DivMonotone
  <2> QED BY <2>4 DEF early, late, Interv, IntervalNumber
<1>8. Interv(from + Lifetime) <= Interv(from) + ceiling
  <2>1. (from + Lifetime) \div TimeBetweenLandmarks <= from \div TimeBetweenLandmarks
          + Lifetime \div TimeBetweenLandmarks + (IF Lifetime % TimeBetweenLandmarks = 0 THEN 0 ELSE 1)
    BY <1>4, DivSpan, DurationsArePositive
  <2>2. from \div TimeBetweenLandmarks \in Nat /\ Lifetime \div TimeBetweenLandmarks \in Nat
    BY <1>4, DivBounds, DurationsArePositive
  <2> QED BY <2>1, <2>2 DEF Interv, IntervalNumber
<1>9. latest - n <= ceiling
  <2> HIDE DEF from, ceiling, latest, n
  <2>1. Interv(from) \in Nat /\ Interv(from + Lifetime) \in Nat /\ Interv(allocatedAt[latest]) \in Nat
    BY <1>4, <1>5
  <2>2. latest \in Nat /\ n \in Nat /\ ceiling \in Nat
    BY <1>1, <1>3, <1>5
  <2>3. Interv(from) + (latest - n) <= Interv(from) + ceiling
    BY <1>6, <1>7, <1>8, <2>1, <2>2
  <2> QED BY <2>1, <2>2, <2>3
<1>10. ceiling + 1 <= maxLandmarks
  BY <1>1, <1>3 DEF EnoughLandmarks, RecommendedMaxLandmarks
<1>11. n >= FirstActive(treeSizes, maxLandmarks)
  <2> HIDE DEF ceiling, latest, n
  <2> QED BY <1>1, <1>3, <1>5, <1>9, <1>10 DEF FirstActive
<1> QED BY <1>1, <1>3, <1>11 DEF Active, FirstActive

-----------------------------------------------------------------------------
(* The published list *)

\* In a landmark sequence sizes grow from any landmark to any later one.
LEMMA SizesGrow ==
  ASSUME NEW sizes \in Seq(Nat), NEW max, IsLandmarkSequence(sizes, max),
         NEW j \in 1 .. Len(sizes)
  PROVE  (sizes[j] = 0) <=> (j = 1)
<1>1. CASE j = 1
  BY <1>1 DEF IsLandmarkSequence
<1>2. CASE j # 1
  <2>1. j - 1 \in 1 .. Len(sizes) - 1
    BY <1>2
  <2>2. sizes[j - 1] < sizes[(j - 1) + 1] /\ sizes[j - 1] \in Nat /\ sizes[j] \in Nat
    BY <2>1 DEF IsLandmarkSequence
  <2>3. (j - 1) + 1 = j
    OBVIOUS
  <2> QED BY <1>2, <2>2, <2>3
<1> QED BY <1>1, <1>2

LEMMA InvPublication == AllocationInv => PublicationServesClients
<1> SUFFICES ASSUME AllocationInv PROVE PublicationServesClients
  OBVIOUS
<1> DEFINE len == Len(treeSizes)
           first == FirstActive(treeSizes, maxLandmarks)
           count == len - first
           p == Publication(treeSizes, maxLandmarks)
           pairs == {Cover(p.treeSizes[k + 1], p.treeSizes[k]) : k \in 1 .. p.numActive}
<1>1. /\ treeSizes \in Seq(Nat) /\ len \in Nat \ {0} /\ maxLandmarks \in Nat \ {0}
      /\ IsLandmarkSequence(treeSizes, maxLandmarks)
      /\ \A k \in DOMAIN checkpoints : checkpoints[k] \in Nat
      /\ \A j \in 1 .. len : treeSizes[j] \in Nat
  BY DEF AllocationInv, AllocationTypeOK, SizesFit, IsLandmarkSequence
<1>2. /\ first \in Nat \ {0} /\ first <= len /\ count \in Nat
      /\ count <= len - 1 /\ count <= maxLandmarks
  BY <1>1 DEF FirstActive
<1>3. /\ p.lastLandmark = len - 1 /\ p.numActive = count
      /\ p.treeSizes = [k \in 1 .. count + 1 |-> treeSizes[len - (k - 1)]]
  BY DEF Publication, LatestNumber
<1>4. /\ Len(p.treeSizes) = count + 1 /\ DOMAIN p.treeSizes = 1 .. count + 1
      /\ \A k \in 1 .. count + 1 : p.treeSizes[k] = treeSizes[len - (k - 1)]
  <2> HIDE DEF p, count
  <2> QED BY <1>2, <1>3
<1>5. IsPublication(p)
  <2> HIDE DEF p, count, first, len
  <2>1. ASSUME NEW k \in 1 .. count PROVE p.treeSizes[k] > p.treeSizes[k + 1]
    <3>1. len - k \in 1 .. len - 1 /\ (len - k) + 1 = len - (k - 1) /\ len - k = len - ((k + 1) - 1)
      BY <1>1, <1>2
    <3>2. treeSizes[len - k] < treeSizes[(len - k) + 1]
      BY <1>1, <3>1 DEF IsLandmarkSequence, len
    <3>3. /\ treeSizes[len - k] \in Nat /\ treeSizes[len - (k - 1)] \in Nat
          /\ p.treeSizes[k] = treeSizes[len - (k - 1)] /\ p.treeSizes[k + 1] = treeSizes[len - k]
      <4>1. k \in 1 .. count + 1 /\ k + 1 \in 1 .. count + 1 /\ len - k \in 1 .. len /\ len - (k - 1) \in 1 .. len
        BY <1>1, <1>2, <3>1
      <4>2. p.treeSizes[k] = treeSizes[len - (k - 1)] /\ p.treeSizes[k + 1] = treeSizes[len - ((k + 1) - 1)]
        BY <1>4, <4>1
      <4> QED BY <1>1, <3>1, <4>1, <4>2
    <3> QED BY <3>1, <3>2, <3>3
  <2>2. ASSUME NEW k \in 1 .. count + 1
        PROVE  ((len - 1) - (k - 1) = 0) <=> (p.treeSizes[k] = 0)
    <3>1. len - (k - 1) \in 1 .. len /\ ((len - 1) - (k - 1) = 0 <=> len - (k - 1) = 1)
      BY <1>1, <1>2
    <3>2. (treeSizes[len - (k - 1)] = 0) <=> (len - (k - 1) = 1)
      BY <1>1, <3>1, SizesGrow DEF len
    <3> QED BY <1>4, <3>1, <3>2
  <2>3. \A k \in 1 .. Len(p.treeSizes) - 1 : p.treeSizes[k] > p.treeSizes[k + 1]
    <3>1. Len(p.treeSizes) - 1 = count
      BY <1>2, <1>4
    <3> QED BY <2>1, <3>1
  <2>4. \A k \in DOMAIN p.treeSizes : (p.lastLandmark - (k - 1) = 0) <=> (p.treeSizes[k] = 0)
    BY <1>3, <1>4, <2>2
  <2>5. p.numActive <= p.lastLandmark /\ Len(p.treeSizes) = p.numActive + 1
    BY <1>1, <1>2, <1>3, <1>4
  <2> QED BY <2>3, <2>4, <2>5 DEF IsPublication
<1>6. ASSUME NEW k \in DOMAIN checkpoints
      PROVE  ParseAccepts(p, maxLandmarks, checkpoints[k]) <=> checkpoints[k] >= LatestSize(treeSizes)
  <2>1. p.treeSizes[1] = LatestSize(treeSizes) /\ LatestSize(treeSizes) \in Nat
    <3> HIDE DEF p, count, first
    <3> QED BY <1>1, <1>2, <1>4 DEF LatestSize
  <2> HIDE DEF p, count, first, len
  <2> QED BY <1>1, <1>2, <1>3, <1>5, <1>6, <2>1 DEF ParseAccepts
<1>7. ActiveIntervals(treeSizes, maxLandmarks) = UNION {{c[k] : k \in DOMAIN c} : c \in pairs}
  <2>1. ASSUME NEW n \in Active(treeSizes, maxLandmarks)
        PROVE  /\ len - n \in 1 .. count
               /\ LandmarkIntervals(treeSizes, n) = Cover(p.treeSizes[(len - n) + 1], p.treeSizes[len - n])
    <3>1. n \in first .. len - 1
      BY DEF Active, LatestNumber
    <3> HIDE DEF p, first
    <3>2. n \in Nat \ {0} /\ len - n \in 1 .. count /\ (len - n) + 1 \in 1 .. count + 1
      BY <1>1, <1>2, <3>1
    <3>3. LandmarkIntervals(treeSizes, n) = Cover(treeSizes[(n - 1) + 1], treeSizes[n + 1])
      BY <3>2 DEF LandmarkIntervals, SizeOf
    <3>4. /\ p.treeSizes[len - n] = treeSizes[len - ((len - n) - 1)]
          /\ p.treeSizes[(len - n) + 1] = treeSizes[len - (((len - n) + 1) - 1)]
      <4> HIDE DEF len, count
      <4>1. \A j \in 1 .. count + 1 : p.treeSizes[j] = treeSizes[len - (j - 1)]
        BY <1>4
      <4>2. len - n \in 1 .. count + 1
        BY <1>2, <3>2
      <4> QED BY <3>2, <4>1, <4>2
    <3>5. len - ((len - n) - 1) = n + 1 /\ len - (((len - n) + 1) - 1) = (n - 1) + 1
      BY <1>1, <3>2
    <3> QED BY <3>2, <3>3, <3>4, <3>5
  <2>2. ASSUME NEW k \in 1 .. count PROVE len - k \in Active(treeSizes, maxLandmarks) /\ len - (len - k) = k
    <3>1. len - k \in first .. len - 1 /\ len - (len - k) = k
      <4> HIDE DEF first, len
      <4> QED BY <1>1, <1>2
    <3> QED BY <3>1 DEF Active, LatestNumber
  <2>3. {LandmarkIntervals(treeSizes, n) : n \in Active(treeSizes, maxLandmarks)} = pairs
    <3> HIDE DEF p, count, len
    <3>1. \A n \in Active(treeSizes, maxLandmarks) : LandmarkIntervals(treeSizes, n) \in pairs
      BY <1>3, <2>1
    <3>2. ASSUME NEW c \in pairs PROVE \E n \in Active(treeSizes, maxLandmarks) : c = LandmarkIntervals(treeSizes, n)
      <4>1. PICK k \in 1 .. count : c = Cover(p.treeSizes[k + 1], p.treeSizes[k])
        BY <1>3
      <4>2. len - k \in Active(treeSizes, maxLandmarks) /\ len - (len - k) = k
        BY <2>2
      <4>3. LandmarkIntervals(treeSizes, len - k) = Cover(p.treeSizes[(len - (len - k)) + 1], p.treeSizes[len - (len - k)])
        BY <2>1, <4>2
      <4> QED BY <4>1, <4>2, <4>3
    <3> HIDE DEF pairs
    <3> QED BY <3>1, <3>2
  <2> HIDE DEF pairs
  <2>4. ActiveIntervals(treeSizes, maxLandmarks)
          = UNION {{c[k] : k \in DOMAIN c} : c \in {LandmarkIntervals(treeSizes, n) : n \in Active(treeSizes, maxLandmarks)}}
    <3> DEFINE range(n) == {LandmarkIntervals(treeSizes, n)[k] : k \in DOMAIN LandmarkIntervals(treeSizes, n)}
               ranges == {range(n) : n \in Active(treeSizes, maxLandmarks)}
               covers == {LandmarkIntervals(treeSizes, n) : n \in Active(treeSizes, maxLandmarks)}
               coverRanges == {{c[k] : k \in DOMAIN c} : c \in covers}
    <3>1. ASSUME NEW r \in ranges PROVE r \in coverRanges
      <4>1. PICK n \in Active(treeSizes, maxLandmarks) : r = range(n)
        OBVIOUS
      <4>2. LandmarkIntervals(treeSizes, n) \in covers
        OBVIOUS
      <4> HIDE DEF covers
      <4> QED BY <4>1, <4>2
    <3>2. ASSUME NEW r \in coverRanges PROVE r \in ranges
      <4>1. PICK c \in covers : r = {c[k] : k \in DOMAIN c}
        OBVIOUS
      <4>2. PICK n \in Active(treeSizes, maxLandmarks) : c = LandmarkIntervals(treeSizes, n)
        OBVIOUS
      <4>3. r = range(n)
        BY <4>1, <4>2
      <4> HIDE DEF range
      <4> QED BY <4>3
    <3>3. ranges = coverRanges
      <4> HIDE DEF ranges, coverRanges
      <4> QED BY <3>1, <3>2
    <3>4. ActiveIntervals(treeSizes, maxLandmarks) = UNION ranges
      BY DEF ActiveIntervals, IntervalsOf
    <3> QED BY <3>3, <3>4
  <2> QED BY <2>3, <2>4
<1> QED BY <1>6, <1>7 DEF PublicationServesClients

-----------------------------------------------------------------------------
(* Landmark sequences that continue each other *)

\* A landmark has the same subtrees in every continuation of the sequence.
LEMMA IntervalsContinue ==
  ASSUME NEW sizes \in Seq(Nat), NEW more \in Seq(Nat), Len(sizes) <= Len(more),
         \A k \in 1 .. Len(sizes) : more[k] = sizes[k],
         NEW n \in 1 .. LatestNumber(sizes)
  PROVE  IntervalsOf(more, {n}) = IntervalsOf(sizes, {n})
<1>1. n # 0 /\ n \in 1 .. Len(sizes) /\ n + 1 \in 1 .. Len(sizes) /\ (n - 1) + 1 = n
  BY DEF LatestNumber
<1>2. SizeOf(more, n - 1) = SizeOf(sizes, n - 1) /\ SizeOf(more, n) = SizeOf(sizes, n)
  BY <1>1 DEF SizeOf
<1>3. LandmarkIntervals(more, n) = LandmarkIntervals(sizes, n)
  BY <1>1, <1>2 DEF LandmarkIntervals
<1> QED BY <1>3 DEF IntervalsOf

LEMMA ActiveContain ==
  ASSUME NEW sizes, NEW max, NEW n \in Active(sizes, max)
  PROVE  IntervalsOf(sizes, {n}) \subseteq ActiveIntervals(sizes, max)
BY DEF ActiveIntervals, IntervalsOf

LEMMA SequenceIsTyped ==
  ASSUME AllocationInv
  PROVE  treeSizes \in Seq(Nat) /\ Len(treeSizes) \in Nat \ {0} /\ maxLandmarks \in Nat \ {0}
BY DEF AllocationInv, AllocationTypeOK, SizesFit, IsLandmarkSequence

-----------------------------------------------------------------------------
(* The invariant of the handshake is inductive *)

LEMMA HandshakeInitInv == HandshakeInit => HandshakeInv
<1> SUFFICES ASSUME HandshakeInit PROVE HandshakeInv
  OBVIOUS
<1>1. AllocationInv /\ artifacts = {} /\ verifiedSizes = treeSizes
  BY AllocationInitInv DEF HandshakeInit
<1> QED BY <1>1, SequenceIsTyped DEF HandshakeInv, ArtifactsFit, ClientFollows

\* The CA's own steps only append to the sequence.
LEMMA AllocationAppends ==
  ASSUME AllocationInv, AllocationInv', [AllocationStep]_allocationVars
  PROVE  /\ Len(treeSizes) <= Len(treeSizes')
         /\ \A k \in 1 .. Len(treeSizes) : treeSizes'[k] = treeSizes[k]
<1>1. treeSizes \in Seq(Nat)
  BY SequenceIsTyped
<1>2. CASE UNCHANGED treeSizes
  BY <1>1, <1>2
<1>3. CASE \E size \in Nat : treeSizes' = Append(treeSizes, size)
  BY <1>1, <1>3
<1>4. ASSUME NEW k \in DOMAIN checkpoints, NEW l, Allocate(checkpoints[k], l)
      PROVE  \E size \in Nat : treeSizes' = Append(treeSizes, size)
  <2>1. checkpoints[k] \in Nat
    BY DEF AllocationInv, AllocationTypeOK
  <2> QED BY <1>4, <2>1 DEF Allocate
<1> QED BY <1>2, <1>3, <1>4 DEF AllocationStep, Tick, Issue, allocationVars

LEMMA AllocationKeepsHandshake ==
  ASSUME HandshakeInv, [AllocationStep]_allocationVars,
         UNCHANGED <<artifacts, verifiedSizes>>
  PROVE  HandshakeInv'
<1>1. AllocationInv /\ AllocationInv'
  BY AllocationNextInv DEF HandshakeInv
<1>2. /\ treeSizes \in Seq(Nat) /\ treeSizes' \in Seq(Nat)
      /\ Len(treeSizes) <= Len(treeSizes')
      /\ \A k \in 1 .. Len(treeSizes) : treeSizes'[k] = treeSizes[k]
  <2>1. treeSizes' \in Seq(Nat)
    BY <1>1 DEF AllocationInv, AllocationTypeOK
  <2> QED BY <1>1, <2>1, SequenceIsTyped, AllocationAppends
<1>3. ArtifactsFit'
  <2> SUFFICES ASSUME NEW c \in artifacts, c.kind # "full"
               PROVE  /\ c.kind = "signatureless"
                      /\ c.landmark \in 1 .. LatestNumber(treeSizes')
                      /\ c.subtree \in IntervalsOf(treeSizes', {c.landmark})
    BY DEF ArtifactsFit
  <2>1. /\ c.kind = "signatureless" /\ c.landmark \in 1 .. LatestNumber(treeSizes)
        /\ c.subtree \in IntervalsOf(treeSizes, {c.landmark})
    BY DEF HandshakeInv, ArtifactsFit
  <2>2. IntervalsOf(treeSizes', {c.landmark}) = IntervalsOf(treeSizes, {c.landmark})
    BY <1>2, <2>1, IntervalsContinue
  <2>3. c.landmark \in 1 .. LatestNumber(treeSizes')
    BY <1>2, <2>1 DEF LatestNumber
  <2> QED BY <2>1, <2>2, <2>3
<1>4. ClientFollows'
  BY <1>2 DEF HandshakeInv, ClientFollows
<1> QED BY <1>1, <1>3, <1>4 DEF HandshakeInv

LEMMA HandshakeNextInv == HandshakeInv /\ [HandshakeNext]_vars => HandshakeInv'
<1> SUFFICES ASSUME HandshakeInv, [HandshakeNext]_vars PROVE HandshakeInv'
  OBVIOUS
<1>1. CASE AllocationStep /\ UNCHANGED handshakeVars
  BY <1>1, AllocationKeepsHandshake DEF handshakeVars
<1>2. ASSUME NEW c, Keep(c),
             \/ c.kind = "full"
             \/ /\ c.kind = "signatureless" /\ c.landmark \in 1 .. LatestNumber(treeSizes)
                /\ c.subtree \in IntervalsOf(treeSizes, {c.landmark})
      PROVE  HandshakeInv'
  <2>1. UNCHANGED <<allocationVars, verifiedSizes>> /\ artifacts' = artifacts \cup {c}
    BY <1>2 DEF Keep
  <2>2. UNCHANGED treeSizes /\ AllocationInv'
    <3>1. UNCHANGED allocationVars
      BY <2>1
    <3> QED BY <3>1, AllocationNextInv DEF HandshakeInv, allocationVars
  <2>3. ArtifactsFit'
    BY <1>2, <2>1, <2>2 DEF HandshakeInv, ArtifactsFit
  <2>4. ClientFollows'
    BY <2>1, <2>2 DEF HandshakeInv, ClientFollows
  <2> QED BY <2>2, <2>3, <2>4 DEF HandshakeInv
<1>3. ASSUME NEW index, ProvisionFull(index) PROVE HandshakeInv'
  <2>1. PICK k : \E c \in FullArtifacts(k, index) : Keep(c)
    BY <1>3 DEF ProvisionFull
  <2>2. PICK c \in FullArtifacts(k, index) : Keep(c)
    BY <2>1
  <2>3. c.kind = "full"
    BY <2>2 DEF FullArtifacts, Artifact
  <2> QED BY <1>2, <2>2, <2>3
<1>4. ASSUME NEW index, ProvisionSignatureless(index) PROVE HandshakeInv'
  <2>1. PICK requireActive \in BOOLEAN, n \in 1 .. LatestNumber(treeSizes) :
          \E s \in SelectedSubtrees(treeSizes, maxLandmarks, index, n, requireActive) :
            Keep(Artifact("signatureless", index, n, s))
    BY <1>4 DEF ProvisionSignatureless
  <2>2. PICK s \in SelectedSubtrees(treeSizes, maxLandmarks, index, n, requireActive) :
          Keep(Artifact("signatureless", index, n, s))
    BY <2>1
  <2>3. s \in IntervalsOf(treeSizes, {n})
    BY <2>2 DEF SelectedSubtrees
  <2>4. LET c == Artifact("signatureless", index, n, s)
        IN  c.kind = "signatureless" /\ c.landmark = n /\ c.subtree = s
    BY DEF Artifact
  <2> QED BY <1>2, <2>2, <2>3, <2>4
<1>5. CASE RefreshTrust
  <2>1. UNCHANGED <<allocationVars, artifacts>> /\ verifiedSizes' = treeSizes
    BY <1>5 DEF RefreshTrust
  <2>2. UNCHANGED treeSizes /\ AllocationInv'
    <3>1. UNCHANGED allocationVars
      BY <2>1
    <3> QED BY <3>1, AllocationNextInv DEF HandshakeInv, allocationVars
  <2>3. ArtifactsFit'
    BY <2>1, <2>2 DEF HandshakeInv, ArtifactsFit
  <2>4. ClientFollows'
    BY <2>1, <2>2, SequenceIsTyped DEF HandshakeInv, ClientFollows
  <2> QED BY <2>2, <2>3, <2>4 DEF HandshakeInv
<1>6. CASE UNCHANGED <<allocationVars, artifacts, verifiedSizes>>
  BY <1>6, AllocationKeepsHandshake
<1>7. CASE \E number \in 1 .. LatestNumber(verifiedSizes) : Advertise(number)
  BY <1>6, <1>7 DEF Advertise
<1> QED BY <1>1, <1>3, <1>4, <1>5, <1>6, <1>7 DEF HandshakeNext, vars, handshakeVars

-----------------------------------------------------------------------------
(* What is offered is trusted *)

LEMMA CompatibleIsTrusted ==
  ASSUME HandshakeInv, LatestNumber(verifiedSizes) # 0,
         NEW anchorIds \in SUBSET {LogID}, NEW c \in artifacts,
         Compatible(c, anchorIds, {LatestNumber(verifiedSizes)})
  PROVE  Trusted(c)
<1> DEFINE latest == LatestNumber(verifiedSizes)
<1>1. CASE c.kind = "full"
  BY <1>1 DEF Trusted
<1>2. CASE c.kind # "full"
  <2>1. /\ c.kind = "signatureless" /\ c.landmark \in 1 .. LatestNumber(treeSizes)
        /\ c.subtree \in IntervalsOf(treeSizes, {c.landmark})
    BY <1>2 DEF HandshakeInv, ArtifactsFit
  <2>2. /\ verifiedSizes \in Seq(Nat) /\ treeSizes \in Seq(Nat) /\ maxLandmarks \in Nat \ {0}
        /\ Len(verifiedSizes) \in Nat \ {0} /\ Len(verifiedSizes) <= Len(treeSizes)
        /\ \A k \in 1 .. Len(verifiedSizes) : treeSizes[k] = verifiedSizes[k]
    BY SequenceIsTyped DEF HandshakeInv, ClientFollows
  <2>3. RoutingID(c) \notin anchorIds
    BY <1>2, <2>1 DEF RoutingID, LogID
  <2>4. latest \in LandmarkRange(c)
    BY <2>3 DEF Compatible
  <2>5. c.landmark \in Nat \ {0} /\ c.landmark <= latest /\ latest <= c.landmark + maxLandmarks - 1
    <3>1. latest \in Nat /\ c.landmark \in Nat \ {0}
      BY <2>1, <2>2 DEF LatestNumber
    <3> HIDE DEF latest
    <3> QED BY <2>2, <2>4, <3>1 DEF LandmarkRange
  <2>6. c.landmark \in Active(verifiedSizes, maxLandmarks) /\ c.landmark \in 1 .. latest
    BY <2>2, <2>5 DEF Active, FirstActive, LatestNumber
  <2>7. c.subtree \in IntervalsOf(verifiedSizes, {c.landmark})
    BY <2>1, <2>2, <2>6, IntervalsContinue
  <2> QED BY <2>6, <2>7, ActiveContain DEF Trusted, TrustedSubtrees
<1> QED BY <1>1, <1>2

LEMMA InvFresh == HandshakeInv => FreshCapabilityIsTrusted
<1> SUFFICES ASSUME HandshakeInv, LatestNumber(verifiedSizes) # 0,
                    advertised = {LatestNumber(verifiedSizes)},
                    NEW anchorIds \in SUBSET {LogID}, NEW prefer \in BOOLEAN
             PROVE  LET selectable == Selectable(anchorIds, advertised, prefer)
                    IN  /\ \A c \in selectable : Trusted(c)
                        /\ "verification_failed" \in NegotiationResults(anchorIds, advertised, prefer) =>
                              \E c \in selectable : Expired(c)
  BY DEF FreshCapabilityIsTrusted
<1> DEFINE selectable == Selectable(anchorIds, advertised, prefer)
<1>1. \A c \in selectable : c \in artifacts /\ Compatible(c, anchorIds, advertised)
  BY DEF Selectable
<1> HIDE DEF selectable
<1>2. \A c \in selectable : Trusted(c) /\ Compatible(c, {LogID}, advertised)
  <2> SUFFICES ASSUME NEW c \in selectable
               PROVE  Trusted(c) /\ Compatible(c, {LogID}, advertised)
    OBVIOUS
  <2>1. Trusted(c)
    BY <1>1, CompatibleIsTrusted
  <2>2. Compatible(c, {LogID}, advertised)
    BY <1>1 DEF Compatible
  <2> QED BY <2>1, <2>2
<1>3. ASSUME "verification_failed" \in NegotiationResults(anchorIds, advertised, prefer)
      PROVE  \E c \in selectable : Expired(c)
  <2>1. \E c \in selectable : ~(Compatible(c, {LogID}, advertised) /\ Verifies(c))
    BY <1>3 DEF NegotiationResults, selectable
  <2> QED BY <1>2, <2>1 DEF Verifies
<1> QED BY <1>2, <1>3 DEF selectable

-----------------------------------------------------------------------------
(* The theorems *)

\* allocate_landmark keeps the sequence well formed, its sizes within what is
\* published, and every two landmarks in different intervals.
THEOREM AllocationCorrect == AllocationSpec => []AllocationInv
<1>1. AllocationInit => AllocationInv
  BY AllocationInitInv
<1>2. AllocationInv /\ [AllocationStep]_allocationVars => AllocationInv'
  BY AllocationNextInv
<1> QED BY <1>1, <1>2, PTL DEF AllocationSpec

\* Serving certificates, refreshing trust and announcing landmarks leave the
\* landmark sequence to its own steps.
THEOREM HandshakeAllocates == HandshakeSpec => AllocationSpec
<1>1. HandshakeInit => AllocationInit
  BY DEF HandshakeInit
<1>2. [HandshakeNext]_vars => [AllocationStep]_allocationVars
  <2> SUFFICES ASSUME [HandshakeNext]_vars PROVE [AllocationStep]_allocationVars
    OBVIOUS
  <2>1. CASE AllocationStep /\ UNCHANGED handshakeVars
    BY <2>1
  <2>2. CASE \E index \in Certificates : ProvisionFull(index)
    BY <2>2 DEF ProvisionFull, Keep
  <2>3. CASE \E index \in Certificates : ProvisionSignatureless(index)
    BY <2>3 DEF ProvisionSignatureless, Keep
  <2>4. CASE RefreshTrust
    BY <2>4 DEF RefreshTrust
  <2>5. CASE \E number \in 1 .. LatestNumber(verifiedSizes) : Advertise(number)
    BY <2>5 DEF Advertise
  <2>6. CASE UNCHANGED vars
    BY <2>6 DEF vars
  <2> QED BY <2>1, <2>2, <2>3, <2>4, <2>5, <2>6 DEF HandshakeNext
<1> QED BY <1>1, <1>2, PTL DEF HandshakeSpec, AllocationSpec

\* No certificate outlives the landmark that covers it, whatever the lifetime,
\* the interval between landmarks and the maximum number of landmarks.
THEOREM LandmarksOutlive == HandshakeSpec => []LandmarkOutlivesCertificates
BY HandshakeAllocates, AllocationCorrect, InvOutlives, PTL

\* The published list is accepted by exactly the clients that have caught up,
\* and gives them exactly the intervals of the active landmarks.
THEOREM PublicationServes == HandshakeSpec => []PublicationServesClients
BY HandshakeAllocates, AllocationCorrect, InvPublication, PTL

\* The server's certificates stem from landmarks of the CA's sequence, and the
\* client's sequence is a prefix of it.
THEOREM HandshakeCorrect == HandshakeSpec => []HandshakeInv
<1>1. HandshakeInit => HandshakeInv
  BY HandshakeInitInv
<1>2. HandshakeInv /\ [HandshakeNext]_vars => HandshakeInv'
  BY HandshakeNextInv
<1> QED BY <1>1, <1>2, PTL DEF HandshakeSpec

\* What CertificateSelector picks for a client that announces its latest
\* landmark is backed by a subtree that client trusts, or carries signatures.
THEOREM FreshCapabilitiesAreTrusted == HandshakeSpec => []FreshCapabilityIsTrusted
BY HandshakeCorrect, InvFresh, PTL

-----------------------------------------------------------------------------
\* Part 2: what a monitor concludes.

\* Type correctness of the run in progress and of what is remembered.
MonitorTypeOK ==
  /\ memory \in [Required -> Heads \cup {NoCheckpoint}]
  /\ DOMAIN views \subseteq Required
  /\ \A c \in DOMAIN views : views[c] \in Heads
  /\ pending \subseteq DOMAIN views
  /\ healthy \subseteq DOMAIN views
  /\ cleanHeads \subseteq Heads

\* A healthy view extends what is remembered of its cosigner.
HealthyFollow == \A c \in healthy : IsPrefix(memory[c], views[c])

\* Whoever is not yet checked, not healthy and not blamed was never there.
UnhealthyAreBlamed ==
  phase # "idle" =>
    /\ Required \subseteq healthy \cup pending \cup blamed
    /\ phase # "checking" => pending = {}

\* After an unblamed comparison one healthy view extends the others.
Compared ==
  phase \in {"content", "remembering"} /\ blamed = {} =>
    healthy = {} \/ \E l \in healthy : \A c \in healthy : IsPrefix(views[c], views[l])

\* One cosigner's memory extends everything clean runs saw.
MemoryHoldsClean ==
  cleanHeads = {} \/ \E l \in Required : \A g \in cleanHeads : IsPrefix(g, memory[l])

MonitorInv ==
  /\ MonitorTypeOK
  /\ HealthyFollow
  /\ UnhealthyAreBlamed
  /\ Compared
  /\ MemoryHoldsClean

-----------------------------------------------------------------------------
LEMMA HeadsAreSequences ==
  /\ Heads \subseteq Seq(Entry)
  /\ NoCheckpoint \in Seq(Entry)
BY HeadsAreCheckpoints, EmptySeq DEF NoCheckpoint

\* A view that passes _check_view extends what is remembered.
LEMMA FollowsMemoryExtends ==
  ASSUME NEW previous \in Heads \cup {NoCheckpoint}, NEW checkpoint \in Heads, NEW answer,
         FollowsMemory(previous, checkpoint, answer)
  PROVE  IsPrefix(previous, checkpoint)
<1>1. previous \in Seq(Entry) /\ checkpoint \in Seq(Entry)
  BY HeadsAreSequences
<1>2. CASE previous = NoCheckpoint
  BY <1>1, <1>2, EmptyIsPrefix DEF NoCheckpoint
<1>3. CASE checkpoint = previous
  BY <1>1, <1>3, PrefixReflexive
<1>4. CASE ProofVerifies(answer, previous, checkpoint)
  BY <1>4 DEF ProofVerifies
<1> QED BY <1>2, <1>3, <1>4 DEF FollowsMemory

LEMMA OutcomeIsSound ==
  ASSUME NEW previous \in Heads \cup {NoCheckpoint}, NEW checkpoint \in Heads,
         NEW outcome \in ViewOutcomes(previous, checkpoint)
  PROVE  /\ outcome.healthy => IsPrefix(previous, checkpoint)
         /\ outcome.clean => outcome.healthy
<1>1. PICK answer \in ViewAnswers :
        outcome = [healthy |-> ViewIsHealthy(previous, checkpoint, answer),
                   clean   |-> ViewIsHealthy(previous, checkpoint, answer) /\ ~answer.pruned]
  BY DEF ViewOutcomes
<1>2. outcome.healthy = ViewIsHealthy(previous, checkpoint, answer)
  BY <1>1
<1>3. outcome.clean = (ViewIsHealthy(previous, checkpoint, answer) /\ ~answer.pruned)
  BY <1>1
<1>4. ViewIsHealthy(previous, checkpoint, answer) => IsPrefix(previous, checkpoint)
  BY FollowsMemoryExtends DEF ViewIsHealthy
<1> QED BY <1>2, <1>3, <1>4

\* Comparing one view with the largest blames somebody unless it is a prefix.
LEMMA UnblamedIsPrefix ==
  ASSUME NEW c, NEW largest, NEW answer,
         views[c] \in Heads, views[largest] \in Heads,
         BlamedByComparison(c, largest, answer) = {}
  PROVE  IsPrefix(views[c], views[largest])
<1>1. CASE Len(views[c]) = Len(views[largest])
  <2>1. views[c] = views[largest]
    BY <1>1 DEF BlamedByComparison
  <2> QED BY <2>1, HeadsAreSequences, PrefixReflexive
<1>2. CASE Len(views[c]) # Len(views[largest])
  BY <1>2 DEF BlamedByComparison, ProofVerifies
<1> QED BY <1>1, <1>2

\* What a run remembers extends what was remembered.
LEMMA RememberGrows ==
  ASSUME MonitorInv, Remember
  PROVE  /\ memory' \in [Required -> Heads \cup {NoCheckpoint}]
         /\ \A c \in Required : IsPrefix(memory[c], memory'[c])
<1>1. \A c \in Remembered : c \in Required /\ views[c] \in Heads /\ IsPrefix(memory[c], views[c])
  BY DEF MonitorInv, MonitorTypeOK, HealthyFollow, Remembered
<1>2. \A c \in Required : memory'[c] = IF c \in Remembered THEN views[c] ELSE memory[c]
  BY DEF Remember
<1>3. \A c \in Required : memory[c] \in Seq(Entry)
  BY HeadsAreSequences DEF MonitorInv, MonitorTypeOK
<1>4. \A c \in Required : IsPrefix(memory[c], memory'[c])
  BY <1>1, <1>2, <1>3, PrefixReflexive
<1>5. memory' \in [Required -> Heads \cup {NoCheckpoint}]
  BY <1>1 DEF Remember, MonitorInv, MonitorTypeOK
<1> QED BY <1>4, <1>5

-----------------------------------------------------------------------------
LEMMA InvInit == Init => MonitorInv
BY DEF Init, MonitorInv, MonitorTypeOK, HealthyFollow, UnhealthyAreBlamed, Compared,
       MemoryHoldsClean, NoViews, NoCheckpoint

LEMMA InvStep == MonitorInv /\ [Next]_monitorVars => MonitorInv'
<1> SUFFICES ASSUME MonitorInv, [Next]_monitorVars PROVE MonitorInv'
  OBVIOUS
<1> USE DEF MonitorInv
<1>1. CASE Collect
  <2>1. PICK supplied \in SUBSET Required : \E duplicated \in SUBSET supplied :
          /\ views' \in [supplied -> Heads]
          /\ pending' = supplied
          /\ blamed' = duplicated \cup (Required \ supplied)
    BY <1>1 DEF Collect
  <2>2. MonitorTypeOK'
    BY <1>1, <2>1 DEF Collect, MonitorTypeOK
  <2>3. UnhealthyAreBlamed'
    BY <1>1, <2>1 DEF Collect, UnhealthyAreBlamed
  <2>4. HealthyFollow' /\ Compared' /\ MemoryHoldsClean'
    BY <1>1 DEF Collect, HealthyFollow, Compared, MemoryHoldsClean
  <2> QED BY <2>2, <2>3, <2>4
<1>2. ASSUME NEW c \in Required, CheckView(c) PROVE MonitorInv'
  <2>1. c \in pending /\ c \in DOMAIN views /\ views[c] \in Heads
        /\ memory[c] \in Heads \cup {NoCheckpoint}
    BY <1>2 DEF CheckView, NextPending, MonitorTypeOK
  <2>2. PICK outcome \in ViewOutcomes(memory[c], views[c]) :
          /\ healthy' = IF outcome.healthy THEN healthy \cup {c} ELSE healthy
          /\ blamed' = IF outcome.clean THEN blamed ELSE blamed \cup {c}
    BY <1>2 DEF CheckView
  <2>3. /\ outcome.healthy => IsPrefix(memory[c], views[c])
        /\ outcome.clean => outcome.healthy
    BY <2>1, OutcomeIsSound
  <2>4. /\ phase = "checking"
        /\ pending' = pending \ {c}
        /\ phase' = IF pending = {c} THEN "comparing" ELSE "checking"
        /\ UNCHANGED <<memory, views, cleanHeads>>
    BY <1>2 DEF CheckView
  <2>5. MonitorTypeOK'
    BY <2>1, <2>2, <2>4 DEF MonitorTypeOK
  <2>6. HealthyFollow'
    BY <2>2, <2>3, <2>4 DEF HealthyFollow
  <2>7. UnhealthyAreBlamed'
    <3>1. Required \subseteq healthy \cup pending \cup blamed
      BY <2>4 DEF UnhealthyAreBlamed
    <3>2. c \in healthy' \cup blamed' /\ healthy \subseteq healthy' /\ blamed \subseteq blamed'
      BY <2>2, <2>3
    <3>3. Required \subseteq healthy' \cup pending' \cup blamed'
      BY <2>4, <3>1, <3>2
    <3>4. phase' # "checking" => pending' = {}
      BY <2>4
    <3> QED BY <3>3, <3>4 DEF UnhealthyAreBlamed
  <2>8. Compared' /\ MemoryHoldsClean'
    BY <2>4 DEF Compared, MemoryHoldsClean
  <2> QED BY <2>5, <2>6, <2>7, <2>8
<1>3. CASE NothingToCheck
  BY <1>3 DEF NothingToCheck, MonitorTypeOK, HealthyFollow, UnhealthyAreBlamed, Compared,
              MemoryHoldsClean
<1>4. CASE CompareViews
  <2>1. /\ phase = "comparing" /\ phase' = "content"
        /\ UNCHANGED <<memory, views, pending, healthy, cleanHeads>>
    BY <1>4 DEF CompareViews
  <2>2. blamed \subseteq blamed'
    BY <1>4 DEF CompareViews
  <2>3. MonitorTypeOK' /\ HealthyFollow' /\ UnhealthyAreBlamed' /\ MemoryHoldsClean'
    BY <2>1, <2>2 DEF MonitorTypeOK, HealthyFollow, UnhealthyAreBlamed, MemoryHoldsClean
  <2>4. \A c \in healthy : views[c] \in Heads /\ views[c] \in Seq(Entry)
    BY HeadsAreSequences DEF MonitorTypeOK
  <2>5. ASSUME blamed' = {}, healthy # {}
        PROVE  \E l \in healthy : \A c \in healthy : IsPrefix(views[c], views[l])
    <3>1. CASE \A c, d \in healthy : c = d
      <4>1. PICK l \in healthy : \A c \in healthy : c = l
        BY <2>5, <3>1
      <4>2. IsPrefix(views[l], views[l])
        BY <2>4, PrefixReflexive
      <4> QED BY <4>1, <4>2
    <3>2. CASE ~(\A c, d \in healthy : c = d)
      <4>1. PICK largest \in Required :
              /\ IsLargest(largest)
              /\ \E answers \in [healthy \ {largest} -> ComparisonAnswers] :
                   blamed' = blamed \cup
                     UNION {BlamedByComparison(c, largest, answers[c]) : c \in healthy \ {largest}}
        BY <1>4, <3>2 DEF CompareViews
      <4>2. PICK answers \in [healthy \ {largest} -> ComparisonAnswers] :
              blamed' = blamed \cup
                UNION {BlamedByComparison(c, largest, answers[c]) : c \in healthy \ {largest}}
        BY <4>1
      <4>3. largest \in healthy
        BY <4>1 DEF IsLargest
      <4>4. \A c \in healthy \ {largest} : BlamedByComparison(c, largest, answers[c]) = {}
        BY <2>5, <4>2
      <4>5. \A c \in healthy \ {largest} : IsPrefix(views[c], views[largest])
        BY <2>4, <4>3, <4>4, UnblamedIsPrefix
      <4>6. IsPrefix(views[largest], views[largest])
        BY <2>4, <4>3, PrefixReflexive
      <4> QED BY <4>3, <4>5, <4>6
    <3> QED BY <3>1, <3>2
  <2>6. Compared'
    BY <2>1, <2>5 DEF Compared
  <2> QED BY <2>3, <2>6
<1>5. CASE CheckContent
  <2>1. /\ phase = "content" /\ phase' = "remembering" /\ blamed \subseteq blamed'
        /\ UNCHANGED <<memory, views, pending, healthy, cleanHeads>>
    BY <1>5 DEF CheckContent
  <2>2. Compared'
    BY <2>1 DEF Compared
  <2>3. MonitorTypeOK' /\ HealthyFollow' /\ UnhealthyAreBlamed' /\ MemoryHoldsClean'
    BY <2>1 DEF MonitorTypeOK, HealthyFollow, UnhealthyAreBlamed, MemoryHoldsClean
  <2> QED BY <2>2, <2>3
<1>6. CASE Remember
  <2>1. /\ memory' \in [Required -> Heads \cup {NoCheckpoint}]
        /\ \A c \in Required : IsPrefix(memory[c], memory'[c])
    BY <1>6, RememberGrows
  <2>2. /\ phase = "remembering" /\ phase' = "idle"
        /\ views' = NoViews /\ healthy' = {} /\ pending' = pending
        /\ cleanHeads' = IF blamed = {} THEN cleanHeads \cup {views[c] : c \in healthy} ELSE cleanHeads
    BY <1>6 DEF Remember
  <2>3. pending = {}
    BY <2>2 DEF UnhealthyAreBlamed
  <2>4. cleanHeads' \subseteq Heads
    BY <2>2 DEF MonitorTypeOK
  <2>5. MonitorTypeOK'
    BY <2>1, <2>2, <2>3, <2>4 DEF MonitorTypeOK, NoViews
  <2>6. HealthyFollow' /\ UnhealthyAreBlamed' /\ Compared'
    BY <2>2 DEF HealthyFollow, UnhealthyAreBlamed, Compared
  <2>7. \A c \in Required : memory[c] \in Seq(Entry) /\ memory'[c] \in Seq(Entry)
    BY <2>1, HeadsAreSequences DEF MonitorTypeOK
  <2>8. \A g \in cleanHeads : g \in Seq(Entry)
    BY HeadsAreSequences DEF MonitorTypeOK
  <2>9. ASSUME cleanHeads # {}
        PROVE  \E l \in Required : \A g \in cleanHeads : IsPrefix(g, memory'[l])
    <3>1. PICK l \in Required : \A g \in cleanHeads : IsPrefix(g, memory[l])
      BY <2>9 DEF MemoryHoldsClean
    <3>2. \A g \in cleanHeads : IsPrefix(g, memory'[l])
      BY <2>1, <2>7, <2>8, <3>1, PrefixTransitive
    <3> QED BY <3>2
  <2>10. MemoryHoldsClean'
    <3>1. CASE cleanHeads' = cleanHeads
      BY <2>9, <3>1 DEF MemoryHoldsClean
    <3>2. CASE cleanHeads' # cleanHeads
      <4>1. blamed = {} /\ healthy # {} /\ cleanHeads' = cleanHeads \cup {views[c] : c \in healthy}
        BY <2>2, <3>2
      <4>2. healthy = Required
        BY <2>2, <2>3, <4>1 DEF UnhealthyAreBlamed, MonitorTypeOK
      <4>3. \A c \in Required : memory'[c] = views[c]
        BY <1>6, <4>1, <4>2 DEF Remember, Remembered
      <4>4. PICK m \in Required : \A c \in Required : IsPrefix(views[c], views[m])
        BY <2>2, <4>1, <4>2 DEF Compared
      <4>5. \A h \in {views[c] : c \in healthy} : IsPrefix(h, memory'[m])
        BY <4>2, <4>3, <4>4
      <4>6. \A g \in cleanHeads : IsPrefix(g, memory'[m])
        <5>1. CASE cleanHeads = {}
          BY <5>1
        <5>2. CASE cleanHeads # {}
          <6>1. PICK l \in Required : \A g \in cleanHeads : IsPrefix(g, memory'[l])
            BY <2>9, <5>2
          <6>2. IsPrefix(memory'[l], memory'[m])
            BY <4>3, <4>4
          <6> QED BY <2>7, <2>8, <6>1, <6>2, PrefixTransitive
        <5> QED BY <5>1, <5>2
      <4>7. \A g \in cleanHeads' : IsPrefix(g, memory'[m])
        BY <4>1, <4>5, <4>6
      <4> QED BY <4>7 DEF MemoryHoldsClean
    <3> QED BY <3>1, <3>2
  <2> QED BY <2>5, <2>6, <2>10
<1>7. CASE UNCHANGED monitorVars
  BY <1>7 DEF monitorVars, MonitorTypeOK, HealthyFollow, UnhealthyAreBlamed, Compared, MemoryHoldsClean
<1> QED BY <1>1, <1>2, <1>3, <1>4, <1>5, <1>6, <1>7 DEF Next

\* The invariant of IssuanceLogMonitor.run holds in every state.
THEOREM MonitorCorrect == Spec => []MonitorInv
BY InvInit, InvStep, PTL DEF Spec

\* All checkpoints that runs without events ever saw lie on one append-only
\* history: for any number of cosigners, all of them dishonest.
THEOREM CleanRunsAgree == Spec => []CleanRunsSeeOneHistory
<1>1. MonitorInv => CleanRunsSeeOneHistory
  <2> SUFFICES ASSUME MonitorInv, NEW g \in cleanHeads, NEW h \in cleanHeads
               PROVE  IsPrefix(g, h) \/ IsPrefix(h, g)
    BY DEF CleanRunsSeeOneHistory
  <2>1. PICK l \in Required : IsPrefix(g, memory[l]) /\ IsPrefix(h, memory[l])
    BY DEF MonitorInv, MemoryHoldsClean
  <2>2. g \in Seq(Entry) /\ h \in Seq(Entry) /\ memory[l] \in Seq(Entry)
    BY HeadsAreSequences DEF MonitorInv, MonitorTypeOK
  <2> QED BY <2>1, <2>2, PrefixesComparable
<1> QED BY <1>1, MonitorCorrect, PTL

\* What is remembered of a cosigner is only ever extended, whatever events the
\* runs report (run remembers healthy views that no event names).
THEOREM MemoryGrows == Spec => MemoryOnlyGrows
<1>1. MonitorInv /\ [Next]_monitorVars => [\A c \in Required : IsPrefix(memory[c], memory'[c])]_monitorVars
  <2> SUFFICES ASSUME MonitorInv, Next PROVE \A c \in Required : IsPrefix(memory[c], memory'[c])
    OBVIOUS
  <2>1. CASE Remember
    BY <2>1, RememberGrows
  <2>2. CASE memory' = memory
    BY <2>2, HeadsAreSequences, PrefixReflexive DEF MonitorInv, MonitorTypeOK
  <2> QED BY <2>1, <2>2 DEF Next, Collect, CheckView, NothingToCheck, CompareViews, CheckContent
<1> QED BY <1>1, MonitorCorrect, PTL DEF Spec, MemoryOnlyGrows
=============================================================================

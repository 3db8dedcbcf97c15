------------------------------ MODULE Landmarks ------------------------------
(***************************************************************************)
(* Landmarks: mtc/landmark/sequence.py, allocation.py, subtrees.py and     *)
(* publication.py, without the state that holds them (LandmarkAllocation). *)
(*                                                                         *)
(* A landmark is a tree size the CA promises to remember; landmark number  *)
(* n is at position n + 1 of the sequence, landmark zero has size zero.    *)
(* Base ID and URL never decide anything here and are left out.  Times and *)
(* durations are natural numbers of one unit, the epoch is zero.           *)
(*                                                                         *)
(* "Slip:" marks a plausible mistake in the definition after it, used only *)
(* to show that a property notices.                                        *)
(***************************************************************************)
EXTENDS CoverInterval

\* "None" where the code returns no landmark.
NoLandmark == 0

LandmarkNumbers(sizes) == 0 .. Len(sizes) - 1
SizeOf(sizes, n) == sizes[n + 1]
LatestNumber(sizes) == Len(sizes) - 1
LatestSize(sizes) == sizes[Len(sizes)]

\* LandmarkSequence.__post_init__
IsLandmarkSequence(sizes, maxLandmarks) ==
  /\ maxLandmarks \in Nat \ {0}
  /\ sizes # << >>
  /\ sizes[1] = 0
  /\ \A n \in 1 .. Len(sizes) - 1 : sizes[n] < sizes[n + 1]

FirstActive(sizes, maxLandmarks) ==
  IF Len(sizes) - maxLandmarks > 1 THEN Len(sizes) - maxLandmarks ELSE 1

\* LandmarkSequence.active, as landmark numbers.
Active(sizes, maxLandmarks) == FirstActive(sizes, maxLandmarks) .. LatestNumber(sizes)

\* LandmarkSequence.first_covering (bisect_right over the sizes).
FirstCovering(sizes, index) ==
  LET above == {n \in LandmarkNumbers(sizes) : SizeOf(sizes, n) > index}
  IN  IF above = {} THEN NoLandmark ELSE CHOOSE n \in above : \A m \in above : n <= m

\* landmark_intervals
LandmarkIntervals(sizes, n) ==
  IF n = 0 THEN << >> ELSE Cover(SizeOf(sizes, n - 1), SizeOf(sizes, n))

IntervalsOf(sizes, numbers) ==
  UNION {{LandmarkIntervals(sizes, n)[k] : k \in DOMAIN LandmarkIntervals(sizes, n)} : n \in numbers}

ActiveIntervals(sizes, maxLandmarks) == IntervalsOf(sizes, Active(sizes, maxLandmarks))

\* select_landmark_subtree with an explicit landmark; FirstCovering gives the
\* default one.  The result is empty where the code raises.
SelectedSubtrees(sizes, maxLandmarks, index, n, requireActive) ==
  IF \/ n \notin LandmarkNumbers(sizes)
     \/ requireActive /\ n \notin Active(sizes, maxLandmarks)
  THEN {}
  ELSE {s \in IntervalsOf(sizes, {n}) : s.start <= index /\ index < s.end}

-----------------------------------------------------------------------------
(* Allocation *)

IntervalNumber(time, interval) == time \div interval

\* Slip: the ceiling alone, the formula of the example in section 6.3.1.
RecommendedWithoutOne(lifetime, interval) ==
  lifetime \div interval + (IF lifetime % interval = 0 THEN 0 ELSE 1)

\* recommended_max_landmarks
RecommendedMaxLandmarks(lifetime, interval) ==
  lifetime \div interval + (IF lifetime % interval = 0 THEN 0 ELSE 1) + 1

-----------------------------------------------------------------------------
(* Publication: the active sizes, newest first, and one predecessor. *)

\* LandmarkPublication.__post_init__
IsPublication(p) ==
  /\ p.numActive <= p.lastLandmark
  /\ Len(p.treeSizes) = p.numActive + 1
  /\ \A k \in 1 .. Len(p.treeSizes) - 1 : p.treeSizes[k] > p.treeSizes[k + 1]
  /\ \A k \in DOMAIN p.treeSizes : (p.lastLandmark - (k - 1) = 0) <=> (p.treeSizes[k] = 0)

\* parse_publication: the header and line counts, __post_init__ and validate.
ParseAccepts(p, maxLandmarks, latestTreeSize) ==
  /\ IsPublication(p)
  /\ p.numActive <= maxLandmarks
  /\ p.treeSizes[1] <= latestTreeSize

\* Slip: the sizes of the active landmarks only.
PublicationWithoutPredecessor(sizes, maxLandmarks) ==
  LET count == Len(sizes) - FirstActive(sizes, maxLandmarks)
  IN  [lastLandmark |-> LatestNumber(sizes),
       numActive    |-> count,
       treeSizes    |-> [k \in 1 .. count |-> sizes[Len(sizes) - (k - 1)]]]

\* LandmarkPublication.from_sequence
Publication(sizes, maxLandmarks) ==
  LET count == Len(sizes) - FirstActive(sizes, maxLandmarks)
  IN  [lastLandmark |-> LatestNumber(sizes),
       numActive    |-> count,
       treeSizes    |-> [k \in 1 .. count + 1 |-> sizes[Len(sizes) - (k - 1)]]]
=============================================================================

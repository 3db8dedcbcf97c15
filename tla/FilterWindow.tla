----------------------------- MODULE FilterWindow -----------------------------
(***************************************************************************)
(* Filters over a sliding window of landmarks: FilterWindowManager of      *)
(* mtc_opt/filters/window.py with the cuckoo backend, following the plans  *)
(* of plan_landmark_window (mtc_opt/sync/landmark_sync.py) and             *)
(* WindowPolicy.windows (mtc_opt/contracts.py).                            *)
(*                                                                         *)
(* Windows are inclusive intervals of landmark numbers.  The digest of a   *)
(* window is the set of its item keys.  Between two applies a caller may   *)
(* add items to a live filter and take them back (backend_for gives it     *)
(* away); the digest does not follow.  A caller that takes back what apply *)
(* put in is not modelled.  A refused or failed apply changes nothing and  *)
(* is not an action.                                                       *)
(*                                                                         *)
(* "Slip:" marks a plausible mistake in the definition after it, used only *)
(* to show that a property notices.                                        *)
(***************************************************************************)
EXTENDS CuckooFilter, FiniteSetsExt

CONSTANTS
  MaxLandmark,         \* bound: landmarks 1 .. MaxLandmark are allocated in turn
  MaxActive,           \* LandmarkSequence.max_landmarks
  ActiveLandmarks,     \* WindowPolicy.active_landmarks
  LandmarksPerFilter,  \* WindowPolicy.landmarks_per_filter
  Stride,              \* WindowPolicy.stride
  ItemSets,            \* the sets of trusted items a landmark may have
  MaxExtras            \* bound: items added to live filters and not taken back

\* WindowPolicy.__post_init__
ASSUME PolicyIsValid ==
  /\ Stride \in 1 .. LandmarksPerFilter
  /\ LandmarksPerFilter \in 1 .. ActiveLandmarks
  /\ ActiveLandmarks \in Nat /\ MaxActive \in Nat \ {0} /\ MaxLandmark \in Nat

ASSUME ItemsAreKeys == ItemSets \subseteq SUBSET Key

VARIABLES
  active,   \* _active_numbers
  filters,  \* _filters: a filter for each window
  digests,  \* _digests
  items,    \* the items of each active landmark, as given to the last apply
  extras    \* for each window and key, how often it was added since

vars == <<active, filters, digests, items, extras>>

Window(start, end) == [start |-> start, end |-> end]
Covers(w, number) == w.start <= number /\ number <= w.end

Init ==
  /\ active = {}
  /\ filters = [w \in {} |-> {}]
  /\ digests = [w \in {} |-> {}]
  /\ items = [n \in {} |-> {}]
  /\ extras = [w \in {} |-> {}]

\* Slip: only full windows.
FullPositionWindows(count) ==
  {Window(s, s + LandmarksPerFilter - 1) :
     s \in {x \in 1 .. count : (x - 1) % Stride = 0 /\ x + LandmarksPerFilter - 1 <= count}}

\* WindowPolicy.windows: positions within the active landmarks.
PositionWindows(count) ==
  {Window(s, IF s + LandmarksPerFilter - 1 < count THEN s + LandmarksPerFilter - 1 ELSE count) :
     s \in {x \in 1 .. count : (x - 1) % Stride = 0}}

\* The last landmarks of the sequence's active ones, up to a limit.
LastOf(latest, limit) == (IF latest > limit THEN latest - limit + 1 ELSE 1) .. latest

\* plan_landmark_window for a sequence whose latest landmark is given.
PlannedActive(latest) ==
  LastOf(latest, IF MaxActive < ActiveLandmarks THEN MaxActive ELSE ActiveLandmarks)

PlannedWindows(numbers) ==
  LET base == CHOOSE n \in numbers : \A m \in numbers : n <= m
  IN  {Window(base + p.start - 1, base + p.end - 1) : p \in PositionWindows(Cardinality(numbers))}

\* The keys a window's filter must hold.
WindowItems(w, given) == UNION {given[n] : n \in {m \in DOMAIN given : Covers(w, m)}}

\* Slip: a filter is reused for the window's interval, whatever is in it.
ReusableByInterval(w, given) == w \in DOMAIN filters

\* apply reuses a filter whose window and digest did not change.
Reusable(w, given) == w \in DOMAIN filters /\ digests[w] = WindowItems(w, given)

NoExtras == [key \in Key |-> 0]

\* apply: build or reuse a filter for every window; all of them or none.
Apply(latest) ==
  LET numbers == PlannedActive(latest)
      windows == PlannedWindows(numbers)
  IN  \E given \in [numbers -> ItemSets] :
        LET choices == [w \in windows |-> IF Reusable(w, given) THEN {filters[w]}
                                          ELSE Builds(WindowItems(w, given))]
        IN  /\ filters' \in { f \in [windows -> UNION { choices[w] : w \in windows }] :
                               \A w \in windows : f[w] \in choices[w] }
            /\ digests' = [w \in windows |-> WindowItems(w, given)]
            /\ active' = numbers
            /\ items' = given
            /\ extras' = [w \in windows |-> IF Reusable(w, given) THEN extras[w] ELSE NoExtras]

\* The sequence only ever gains landmarks, any number of them between two plans.
ApplyPlan ==
  \E latest \in 1 .. MaxLandmark :
    /\ \A n \in active : n <= latest
    /\ Apply(latest)

ExtraCount == MapThenSumSet(LAMBDA w : MapThenSumSet(LAMBDA key : extras[w][key], Key), DOMAIN extras)

\* backend_for(window).add(item): the item is kept only if the insertion was
\* done, and the filter is as the call left it either way.
AddExtra(w, key) ==
  /\ ExtraCount < MaxExtras
  /\ \E insertion \in Additions(filters[w], key) :
       /\ filters' = [filters EXCEPT ![w] = insertion.filter]
       /\ extras' = IF insertion.done THEN [extras EXCEPT ![w][key] = @ + 1] ELSE extras
  /\ UNCHANGED <<active, digests, items>>

\* backend_for(window).discard(item), for an item added before.
DiscardExtra(w, key) ==
  /\ extras[w][key] > 0
  /\ filters' = [filters EXCEPT ![w] = Discard(@, key)]
  /\ extras' = [extras EXCEPT ![w][key] = @ - 1]
  /\ UNCHANGED <<active, digests, items>>

Next ==
  \/ ApplyPlan
  \/ \E w \in DOMAIN filters, key \in Key : AddExtra(w, key)
  \/ \E w \in DOMAIN filters, key \in Key : DiscardExtra(w, key)

Spec == Init /\ [][Next]_vars

\* may_contain: a filter of any window, or of the windows around a landmark.
MayContain(key) == \E w \in DOMAIN filters : Holds(filters[w], key)
MayContainAt(key, number) ==
  \E w \in DOMAIN filters : Covers(w, number) /\ Holds(filters[w], key)

-----------------------------------------------------------------------------
(* Properties *)

\* No false negative: every item of an active landmark, and every item added
\* since and not taken back, is found, through every window that covers it,
\* whatever kicks, rollbacks, failed insertions, reuse and rotation went before.
NoFalseNegatives ==
  /\ \A n \in active : \A key \in items[n] :
       /\ MayContain(key)
       /\ MayContainAt(key, n)
       /\ \A w \in DOMAIN filters : Covers(w, n) => Holds(filters[w], key)
  /\ \A w \in DOMAIN filters, key \in Key : extras[w][key] > 0 => Holds(filters[w], key)

\* What serialize writes in any state, deserialize accepts: the item count of
\* every filter is the number of its used slots, and the windows lie within
\* the active landmarks, which are consecutive, and cover all of them.
PersistedStateLoads ==
  /\ \A w \in DOMAIN filters : Loads(filters[w])
  /\ \A w \in DOMAIN filters : w.start <= w.end /\ w.start .. w.end \subseteq active
  /\ active \subseteq UNION {w.start .. w.end : w \in DOMAIN filters}
  /\ active # {} => \E first, last \in active : active = first .. last

\* An insertion that fails leaves the filter as it was: nothing that was found
\* before is lost (the kicks it made are undone in reverse).
FailedInsertionChangesNothing ==
  [][\A w \in DOMAIN filters \cap DOMAIN filters' :
       digests' = digests /\ extras' = extras /\ items' = items =>
          filters'[w].count = filters[w].count /\
          \A key \in Key : Holds(filters'[w], key) <=> Holds(filters[w], key)]_vars
=============================================================================

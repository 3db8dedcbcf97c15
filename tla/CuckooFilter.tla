----------------------------- MODULE CuckooFilter -----------------------------
(***************************************************************************)
(* The cuckoo filter backend: mtc_opt/filters/cuckoo.py.                   *)
(*                                                                         *)
(* A filter is a record of its seed, its number of buckets, its slots (a   *)
(* fingerprint for each bucket and slot of it, zero in a free one) and its *)
(* item count.  Hashes are given by constants: what a key hashes to under  *)
(* a seed, and the alternate hash of a fingerprint.  The slots the         *)
(* pseudo-random chooser kicks are not predicted: insertion and building   *)
(* are sets of outcomes.  An outcome of a build is a set of at most one    *)
(* filter, empty where a key does not fit.  Statistics are left out.       *)
(*                                                                         *)
(* "Slip:" marks a plausible mistake in the definition after it, used only *)
(* to show that a property notices.                                        *)
(***************************************************************************)
EXTENDS CoverInterval, FiniteSets

CONSTANTS
  Capacity,        \* CuckooConfig.capacity, zero when none is configured
  KeyCount,        \* item keys, numbered in the order of their bytes
  KeyHash,         \* for each seed and key, its fingerprint and its low hash bits
  AlternateHash,   \* for each seed and fingerprint
  BucketSize,      \* CuckooConfig.bucket_size
  LoadPercent,     \* CuckooConfig.load_factor, in percent
  MaxKicks,        \* CuckooConfig.max_kicks
  BuildAttempts    \* CuckooConfig.build_attempts

Key == 1 .. KeyCount
Seeds == 0 .. BuildAttempts - 1

\* CuckooConfig.__post_init__
ASSUME CuckooConfigIsValid ==
  /\ Capacity \in Nat /\ KeyCount \in Nat /\ BucketSize \in Nat \ {0}
  /\ LoadPercent \in 1 .. 100
  /\ MaxKicks \in Nat \ {0} /\ BuildAttempts \in Nat \ {0}

\* hash64 and fingerprint, which is never zero.
ASSUME HashesAreNumbers ==
  \A seed \in Seeds, key \in Key :
    /\ KeyHash[seed][key].fingerprint \in Nat \ {0}
    /\ KeyHash[seed][key].low \in Nat
    /\ AlternateHash[seed][KeyHash[seed][key].fingerprint] \in Nat

Slots == 1 .. BucketSize

\* a ^ b, bit by bit from the lowest; neither is above m.
Xor(a, b, m) ==
  LET xor[p \in (0 .. m) \X (0 .. m)] ==
        IF p[1] + p[2] = 0 THEN 0
        ELSE ((p[1] + p[2]) % 2) + 2 * xor[<<p[1] \div 2, p[2] \div 2>>]
  IN  xor[<<a, b>>]

\* next_power_of_two
NextPowerOfTwo(n) == Pow2[BitCeil(n)]

\* The configured capacity, or what there is to hold.
CapacityOr(n) == IF Capacity # 0 THEN Capacity ELSE n

\* This many items are within the configured capacity.
WithinCapacity(n) == Capacity # 0 => n <= Capacity

\* _allocate
Allocate(seed, capacity, growth) ==
  LET required == IF capacity > 1 THEN capacity ELSE 1
      perBucket == BucketSize * LoadPercent
      buckets == ((required * 100 + perBucket - 1) \div perBucket) * Pow2[growth]
      size == NextPowerOfTwo(IF buckets > 2 THEN buckets ELSE 2)
  IN  [seed |-> seed, size |-> size, slots |-> [at \in (0 .. size - 1) \X Slots |-> 0], count |-> 0]

\* _parts and _alternate
Fingerprint(f, key) == KeyHash[f.seed][key].fingerprint
First(f, key) == KeyHash[f.seed][key].low % f.size
Alternate(f, b, fp) == Xor(b, AlternateHash[f.seed][fp] % f.size, f.size - 1)
Second(f, key) == Alternate(f, First(f, key), Fingerprint(f, key))

Free(f, b) == { s \in Slots : f.slots[<<b, s>>] = 0 }

\* The lowest of some numbers.
Lowest(numbers) == CHOOSE n \in numbers : \A m \in numbers : n <= m

\* _place: the first free slot of a bucket.
Place(f, b, fp) == [f EXCEPT !.slots[<<b, Lowest(Free(f, b))>>] = fp, !.count = @ + 1]

-----------------------------------------------------------------------------
(* Insertion by kicking.  A chain is where it stands: the filter, the bucket *)
(* to kick from, the fingerprint in hand and the changes made so far.        *)

Start(f, b, fp) == [filter |-> f, index |-> b, current |-> fp, changes |-> << >>]

Kick(chain, slot) ==
  LET at == <<chain.index, slot>>
      previous == chain.filter.slots[at]
  IN  [filter  |-> [chain.filter EXCEPT !.slots[at] = chain.current],
       index   |-> Alternate(chain.filter, chain.index, previous),
       current |-> previous,
       changes |-> Append(chain.changes, [at |-> at, previous |-> previous])]

Settled(chain) == chain.changes # << >> /\ Free(chain.filter, chain.index) # {}

\* Every chain of at most MaxKicks kicks that ends when it settles.
Chains(f, key) ==
  LET chains[n \in 0 .. MaxKicks] ==
        IF n = 0 THEN { Start(f, b, Fingerprint(f, key)) : b \in {First(f, key), Second(f, key)} }
        ELSE { c \in chains[n - 1] : Settled(c) }
             \cup { Kick(c, s) : c \in { d \in chains[n - 1] : ~Settled(d) }, s \in Slots }
  IN  chains[MaxKicks]

\* The changes that a chain made to a slot.
ChangesAt(chain, at) == { i \in DOMAIN chain.changes : chain.changes[i].at = at }

\* Slip: the changes are undone in the order they were made.
RollbackInOrder(chain) ==
  [chain.filter EXCEPT !.slots = [at \in DOMAIN chain.filter.slots |->
     IF ChangesAt(chain, at) = {} THEN chain.filter.slots[at]
     ELSE LET last == CHOOSE i \in ChangesAt(chain, at) : \A j \in ChangesAt(chain, at) : j <= i
          IN  chain.changes[last].previous]]

\* The changes undone in reverse: a slot ends with what it held before the
\* first of them.
Rollback(chain) ==
  [chain.filter EXCEPT !.slots = [at \in DOMAIN chain.filter.slots |->
     IF ChangesAt(chain, at) = {} THEN chain.filter.slots[at]
     ELSE chain.changes[Lowest(ChangesAt(chain, at))].previous]]

\* _insert_key: [done, filter], the filter as the call leaves it.
Insertions(f, key) ==
  LET fp == Fingerprint(f, key)
      first == First(f, key)
      second == Second(f, key)
  IN  IF Free(f, first) # {} THEN {[done |-> TRUE, filter |-> Place(f, first, fp)]}
      ELSE IF Free(f, second) # {} THEN {[done |-> TRUE, filter |-> Place(f, second, fp)]}
      ELSE { IF Settled(c)
             THEN [done |-> TRUE, filter |-> Place(c.filter, c.index, c.current)]
             ELSE [done |-> FALSE, filter |-> Rollback(c)] : c \in Chains(f, key) }

\* add: refused at the configured capacity, whatever the slots would hold.
Additions(f, key) ==
  IF ~WithinCapacity(f.count + 1) THEN {[done |-> FALSE, filter |-> f]}
  ELSE Insertions(IF f.size = 0 THEN Allocate(f.seed, CapacityOr(1), 0) ELSE f, key)

\* One attempt of build: the keys in order, until one does not fit.
BuildAttempt(keys, seed) ==
  LET outcomes[k \in 0 .. KeyCount] ==
        IF k = 0 THEN {{Allocate(seed, CapacityOr(Cardinality(keys)), seed \div 2)}}
        ELSE IF k \notin keys THEN outcomes[k - 1]
        ELSE (outcomes[k - 1] \cap {{}})
             \cup { IF i.done THEN {i.filter} ELSE {} :
                      i \in UNION { Insertions(f, k) : f \in UNION outcomes[k - 1] } }
  IN  outcomes[KeyCount]

\* build: an attempt with one seed after the other until one succeeds; the
\* filters that it may return, none for more keys than the capacity.
Builds(keys) ==
  UNION { UNION BuildAttempt(keys, seed) :
            seed \in { s \in Seeds : /\ WithinCapacity(Cardinality(keys))
                                     /\ \A t \in 0 .. s - 1 : {} \in BuildAttempt(keys, t) } }

\* The slots of one of a key's two buckets that hold its fingerprint.
Matches(f, b, key) == { s \in Slots : f.slots[<<b, s>>] = Fingerprint(f, key) }

\* contains
Holds(f, key) ==
  f.size # 0 /\ \E b \in {First(f, key), Second(f, key)} : Matches(f, b, key) # {}

\* Slip: the item count is left alone.
ClearSlotOnly(f, at) == [f EXCEPT !.slots[at] = 0]

Clear(f, at) == [f EXCEPT !.slots[at] = 0, !.count = @ - 1]

\* discard: one slot that holds the key's fingerprint, the first bucket first.
Discard(f, key) ==
  LET lowest(b) == <<b, Lowest(Matches(f, b, key))>>
  IN  IF f.size = 0 THEN f
      ELSE IF Matches(f, First(f, key), key) # {} THEN Clear(f, lowest(First(f, key)))
      ELSE IF Matches(f, Second(f, key), key) # {} THEN Clear(f, lowest(Second(f, key)))
      ELSE f

Used(f) == { at \in DOMAIN f.slots : f.slots[at] # 0 }

\* deserialize accepts what serialize wrote.
Loads(f) ==
  /\ f.size = 0 \/ \E k \in 0 .. f.size : f.size = Pow2[k]
  /\ f.count = Cardinality(Used(f))
=============================================================================

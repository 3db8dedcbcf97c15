-------------------------- MODULE TrustUpdateProofs --------------------------
(***************************************************************************)
(* A relying party never takes back what it trusts, for any keys and       *)
(* policies, any heads and landmark sequences presented to it and any      *)
(* signers.                                                                *)
(*                                                                         *)
(* An update keeps the trusted subtrees of the active intervals and adds   *)
(* those it was given evidence for.  The evidence names every active       *)
(* interval once and only with the hash of the new reference, and the      *)
(* merged store may not hold two hashes for one interval, so what is kept  *)
(* from before has the hash of the new reference, too.  This needs no      *)
(* previous result, so it survives a restart that lost it.                 *)
(*                                                                         *)
(* The list of revoked ranges is sorted and merged at every change.  What  *)
(* it says is revoked is what ever was, because in a sorted list the next  *)
(* range starts no earlier than the last one merged.                       *)
(***************************************************************************)
EXTENDS TrustUpdate, DataLemmas, FiniteSetTheorems

\* A subtree is its interval and its hash.
SubtreesAreRecords ==
  \A s \in trusted : s = [start |-> s.start, end |-> s.end, hash |-> s.hash]

\* No interval is trusted with two hashes.
OneHashPerInterval == \A s, t \in trusted : SameInterval(s, t) => s = t

\* There is at most one last result, over what a caller presented.
LastWasPresented ==
  /\ \A l \in last : l.reference \in Heads /\ l.sizes \in SequencesGiven
  /\ \A l, m \in last : l = m

RangeList == Seq({r \in [start : Nat, end : Nat] : r.start < r.end})

\* Exactly the indices that were ever revoked are revoked.
RevokedForGood ==
  /\ revocations \in RangeList
  /\ \A i : i \in everRevoked <=> i \in Nat /\ Revoked(revocations, i)

TrustInv ==
  /\ SubtreesAreRecords
  /\ OneHashPerInterval
  /\ LastWasPresented
  /\ TrustedRootsOfOneHistory
  /\ RevokedForGood

-----------------------------------------------------------------------------
(* Revocation *)

\* A revoked range as RevokedRange makes it.
IsRange(r) == r = Interval(r.start, r.end) /\ r.start \in Nat /\ r.end \in Nat /\ r.start < r.end

\* values is the set of ranges in order.
Sorts(values, ranges) ==
  /\ \A r \in ranges : \E i \in DOMAIN values : values[i] = r
  /\ \A i, j \in DOMAIN values : i < j => RangeBefore(values[i], values[j])

\* The order of ranges is total and transitive.
LEMMA RangesAreOrdered ==
  ASSUME NEW r, NEW s, IsRange(r), IsRange(s)
  PROVE  /\ r # s => RangeBefore(r, s) \/ RangeBefore(s, r)
         /\ RangeBefore(r, s) => r.start <= s.start
         /\ \A t : IsRange(t) /\ RangeBefore(r, s) /\ RangeBefore(s, t) => RangeBefore(r, t)
<1>1. r # s => RangeBefore(r, s) \/ RangeBefore(s, r)
  <2>1. r.start = s.start /\ r.end = s.end => r = s
    BY DEF IsRange
  <2> QED BY <2>1 DEF IsRange, RangeBefore
<1> QED BY <1>1 DEF IsRange, RangeBefore

\* A new range has a place in a sorted list.
LEMMA InsertSorted ==
  ASSUME NEW n \in Nat, NEW T, NEW e, IsRange(e), e \notin T, \A r \in T : IsRange(r),
         NEW s \in [1 .. n -> T], Sorts(s, T)
  PROVE  \E u \in [1 .. n + 1 -> T \cup {e}] : Sorts(u, T \cup {e})
<1> DEFINE P == { i \in 1 .. n + 1 : i = n + 1 \/ RangeBefore(e, s[i]) }
<1>1. PICK k \in P : \A i \in P : k <= i
  <2>1. n + 1 \in P /\ P \subseteq Nat
    OBVIOUS
  <2> HIDE DEF P
  <2> QED BY <2>1, SmallestExists
<1> DEFINE u == [i \in 1 .. n + 1 |-> IF i < k THEN s[i] ELSE IF i = k THEN e ELSE s[i - 1]]
<1>2. k \in 1 .. n + 1
  OBVIOUS
<1>3. ASSUME NEW i \in 1 .. n, i < k PROVE RangeBefore(s[i], e)
  <2>1. i \notin P
    BY <1>1, <1>2, <1>3
  <2>2. ~RangeBefore(e, s[i]) /\ s[i] # e /\ IsRange(s[i])
    BY <2>1
  <2> QED BY <2>2, RangesAreOrdered
<1>4. ASSUME NEW i \in 1 .. n, k <= i PROVE RangeBefore(e, s[i])
  <2>1. RangeBefore(e, s[k]) /\ k \in 1 .. n
    BY <1>2, <1>4
  <2>2. CASE k = i
    BY <2>1, <2>2
  <2>3. CASE k < i
    <3>1. RangeBefore(s[k], s[i]) /\ IsRange(s[k]) /\ IsRange(s[i])
      BY <2>1, <2>3 DEF Sorts
    <3> QED BY <2>1, <3>1, RangesAreOrdered
  <2> QED BY <1>2, <1>4, <2>2, <2>3
<1> HIDE DEF P
<1>5. u \in [1 .. n + 1 -> T \cup {e}]
  BY <1>2
<1>6. /\ \A i \in 1 .. n : i < k => u[i] = s[i]
      /\ u[k] = e
      /\ \A i \in 1 .. n : k <= i => u[i + 1] = s[i]
  BY <1>2
<1> HIDE DEF u
<1>7. ASSUME NEW r \in T \cup {e} PROVE \E i \in 1 .. n + 1 : u[i] = r
  <2>1. CASE r = e
    BY <1>2, <1>6, <2>1
  <2>2. CASE r \in T
    <3>1. PICK i \in 1 .. n : s[i] = r
      BY <2>2 DEF Sorts
    <3>2. i \in 1 .. n + 1 /\ i + 1 \in 1 .. n + 1 /\ (i < k \/ k <= i)
      BY <1>2
    <3> QED BY <1>6, <3>1, <3>2
  <2> QED BY <2>1, <2>2
<1>8. ASSUME NEW i \in 1 .. n + 1, NEW j \in 1 .. n + 1, i < j PROVE RangeBefore(u[i], u[j])
  <2>1. CASE j < k
    <3>1. i \in 1 .. n /\ j \in 1 .. n /\ i < k
      BY <1>2, <1>8, <2>1
    <3> QED BY <1>6, <1>8, <2>1, <3>1 DEF Sorts
  <2>2. CASE j = k
    <3>1. i \in 1 .. n /\ i < k
      BY <1>2, <1>8, <2>2
    <3> QED BY <1>3, <1>6, <2>2, <3>1
  <2>3. CASE k < j
    <3>1. j - 1 \in 1 .. n /\ k <= j - 1 /\ (j - 1) + 1 = j
      BY <1>2, <2>3
    <3>2. u[j] = s[j - 1]
      BY <1>6, <3>1
    <3>3. CASE i < k
      <4>1. i \in 1 .. n /\ i < j - 1
        BY <1>2, <3>1, <3>3
      <4> QED BY <1>6, <3>1, <3>2, <3>3, <4>1 DEF Sorts
    <3>4. CASE i = k
      BY <1>4, <1>6, <3>1, <3>2, <3>4
    <3>5. CASE k < i
      <4>1. i - 1 \in 1 .. n /\ k <= i - 1 /\ (i - 1) + 1 = i /\ i - 1 < j - 1
        BY <1>2, <1>8, <3>5
      <4> QED BY <1>6, <3>1, <3>2, <4>1 DEF Sorts
    <3> QED BY <1>2, <3>3, <3>4, <3>5
  <2> QED BY <1>2, <2>1, <2>2, <2>3
<1> QED BY <1>5, <1>7, <1>8 DEF Sorts

\* Finitely many ranges can be sorted.
LEMMA SortExists ==
  ASSUME NEW S, IsFiniteSet(S), \A r \in S : IsRange(r)
  PROVE  InOrder(S) \in [1 .. Cardinality(S) -> S] /\ Sorts(InOrder(S), S)
<1> DEFINE Sortable(n) == \A T \in SUBSET S : IsFiniteSet(T) /\ Cardinality(T) = n =>
                            \E s \in [1 .. n -> T] : Sorts(s, T)
           N == { n \in Nat : Sortable(n) }
<1>1. 0 \in N
  <2>1. ASSUME NEW T \in SUBSET S, IsFiniteSet(T), Cardinality(T) = 0
        PROVE  \E s \in [1 .. 0 -> T] : Sorts(s, T)
    <3>1. T = {}
      BY <2>1, FS_EmptySet
    <3>2. [i \in 1 .. 0 |-> i] \in [1 .. 0 -> T] /\ Sorts([i \in 1 .. 0 |-> i], T)
      BY <3>1 DEF Sorts
    <3> QED BY <3>2
  <2> QED BY <2>1
<1>2. ASSUME NEW n \in Nat, n \in N PROVE n + 1 \in N
  <2>1. ASSUME NEW T \in SUBSET S, IsFiniteSet(T), Cardinality(T) = n + 1
        PROVE  \E s \in [1 .. n + 1 -> T] : Sorts(s, T)
    <3>1. T # {}
      BY <2>1, FS_EmptySet
    <3>2. PICK e \in T : TRUE
      BY <3>1
    <3>3. IsFiniteSet(T \ {e}) /\ Cardinality(T \ {e}) = n
      BY <2>1, <3>2, FS_RemoveElement
    <3>4. PICK s \in [1 .. n -> T \ {e}] : Sorts(s, T \ {e})
      BY <1>2, <3>3
    <3>5. /\ IsRange(e) /\ e \notin T \ {e} /\ (T \ {e}) \cup {e} = T
          /\ \A r \in T \ {e} : IsRange(r)
      BY <3>2
    <3>6. \E u \in [1 .. n + 1 -> (T \ {e}) \cup {e}] : Sorts(u, (T \ {e}) \cup {e})
      BY <3>4, <3>5, InsertSorted
    <3> QED BY <3>5, <3>6
  <2> QED BY <2>1
<1>3. Cardinality(S) \in Nat
  BY FS_CardinalityType
<1>4. \E s \in [1 .. Cardinality(S) -> S] : Sorts(s, S)
  <2>1. Cardinality(S) \in N
    <3> HIDE DEF N
    <3> QED BY <1>1, <1>2, <1>3, Induction
  <2> QED BY <2>1
<1>5. InOrder(S) = CHOOSE s \in [1 .. Cardinality(S) -> S] : Sorts(s, S)
  BY DEF InOrder, Sorts
<1> QED BY <1>4, <1>5


\* merged revokes what list revokes and the range item.
Merges(list, item, merged) ==
  /\ merged \in RangeList /\ merged # << >>
  /\ Last(merged).start <= item.start
  /\ \A i \in Nat : Revoked(merged, i) <=> Revoked(list, i) \/ (item.start <= i /\ i < item.end)

\* One turn of the merging loop adds its range to what the list revokes.
LEMMA MergeAdds ==
  ASSUME NEW list \in RangeList, NEW item, IsRange(item),
         list # << >> => Last(list).start <= item.start
  PROVE  Merges(list, item, MergeRange(list, item))
<1> DEFINE R == {r \in [start : Nat, end : Nat] : r.start < r.end}
           n == Len(list)
<1>1. item \in R /\ list \in Seq(R) /\ n \in Nat
  BY DEF IsRange, Interval, RangeList
<1>2. CASE list # << >> /\ item.start <= Last(list).end
  <2> DEFINE l == list[n]
             x == Interval(l.start, IF item.end > l.end THEN item.end ELSE l.end)
  <2>1. n \in 1 .. n /\ l \in R /\ l.start <= item.start /\ item.start <= l.end
    BY <1>1, <1>2 DEF Last
  <2>2. x \in R /\ x.start = l.start /\ x.end = IF item.end > l.end THEN item.end ELSE l.end
    BY <1>1, <2>1 DEF Interval
  <2> DEFINE f == SubSeq(list, 1, n - 1)
             m == Append(f, x)
  <2>3. MergeRange(list, item) = m
    BY <1>2 DEF MergeRange, Front, Last
  <2>0. /\ l.start \in Nat /\ l.end \in Nat /\ item.start \in Nat /\ item.end \in Nat
        /\ item.start < item.end
    BY <1>1, <2>1
  <2> HIDE DEF l, x, R
  <2>4. f \in Seq(R) /\ Len(f) = n - 1 /\ \A j \in 1 .. n - 1 : f[j] = list[j]
    <3>1. \A j \in 1 .. n - 1 : list[j] \in R
      BY <1>1
    <3> DEFINE a == 1
               b == n - 1
               g == SubSeq(list, a, b)
    <3>2. a \in Int /\ b \in Int /\ \A j \in a .. b : list[j] \in R
      BY <1>1, <3>1
    <3>3. f = g
      OBVIOUS
    <3> HIDE DEF a, b, f
    <3>4. /\ g \in Seq(R)
          /\ Len(g) = IF a <= b THEN b - a + 1 ELSE 0
          /\ \A j \in 1 .. b - a + 1 : g[j] = list[a + j - 1]
      BY <3>2, SubSeqProperties
    <3> HIDE DEF g
    <3>5. \A j \in 1 .. n - 1 : a + j - 1 = j
      BY DEF a
    <3>6. b - a + 1 = n - 1 /\ (~(a <= b) => n - 1 = 0)
      <4>1. n \in Nat /\ 1 <= n
        BY <1>1, <2>1
      <4> HIDE DEF n
      <4> QED BY <4>1 DEF a, b
    <3> QED BY <3>3, <3>4, <3>5, <3>6
  <2> HIDE DEF f
  <2>5. /\ m \in Seq(R) /\ Len(m) = n /\ m[n] = x /\ m # << >>
        /\ \A j \in 1 .. n - 1 : m[j] = list[j]
    <3>1. /\ m \in Seq(R) /\ m # << >> /\ Len(m) = Len(f) + 1
          /\ \A j \in 1 .. Len(f) : m[j] = f[j]
          /\ m[Len(f) + 1] = x
      BY <2>2, <2>4, AppendProperties
    <3> HIDE DEF m
    <3> QED BY <2>1, <2>4, <3>1
  <2> HIDE DEF m
  <2>6. Last(m).start <= item.start
    BY <2>1, <2>2, <2>5 DEF Last
  <2>7. ASSUME NEW i \in Nat
        PROVE  Revoked(m, i) <=> Revoked(list, i) \/ (item.start <= i /\ i < item.end)
    <3>0. /\ DOMAIN m = 1 .. n /\ n \in 1 .. n
          /\ \A j \in 1 .. n : j \in 1 .. n - 1 \/ j = n
          /\ \A j \in 1 .. n - 1 : j \in 1 .. n
      BY <1>1, <2>1, <2>5
    <3>1. Revoked(m, i) <=> (\E j \in 1 .. n - 1 : list[j].start <= i /\ i < list[j].end)
                              \/ (x.start <= i /\ i < x.end)
      <4>1. \A j \in 1 .. n - 1 : m[j].start = list[j].start /\ m[j].end = list[j].end
        BY <2>5
      <4>2. m[n].start = x.start /\ m[n].end = x.end
        BY <2>5
      <4> HIDE DEF n
      <4> QED BY <3>0, <4>1, <4>2, Zenon DEF Revoked
    <3>2. Revoked(list, i) <=> (\E j \in 1 .. n - 1 : list[j].start <= i /\ i < list[j].end)
                              \/ (l.start <= i /\ i < l.end)
      BY <1>1, <2>1 DEF Revoked, l
    <3>3. x.start <= i /\ i < x.end <=> (l.start <= i /\ i < l.end) \/ (item.start <= i /\ i < item.end)
      BY <2>0, <2>1, <2>2
    <3> QED BY <3>1, <3>2, <3>3
  <2> QED BY <2>3, <2>5, <2>6, <2>7 DEF Merges, RangeList, R
<1>3. CASE ~(list # << >> /\ item.start <= Last(list).end)
  <2> DEFINE m == Append(list, item)
  <2>1. MergeRange(list, item) = m
    BY <1>3 DEF MergeRange
  <2>2. /\ m \in Seq(R) /\ Len(m) = n + 1 /\ m[n + 1] = item /\ m # << >>
        /\ \A j \in 1 .. n : m[j] = list[j]
    <3> HIDE DEF R
    <3> QED BY <1>1, AppendProperties
  <2> HIDE DEF m
  <2>3. Last(m).start <= item.start
    BY <1>1, <2>2 DEF Last
  <2>4. ASSUME NEW i \in Nat
        PROVE  Revoked(m, i) <=> Revoked(list, i) \/ (item.start <= i /\ i < item.end)
    <3>1. DOMAIN m = 1 .. n + 1 /\ DOMAIN list = 1 .. n
      BY <1>1, <2>2
    <3>2. n + 1 \in 1 .. n + 1 /\ \A j \in 1 .. n + 1 : j \in 1 .. n \/ j = n + 1
      BY <1>1
    <3>3. \A j \in 1 .. n : j \in 1 .. n + 1
      BY <1>1
    <3> QED BY <2>2, <3>1, <3>2, <3>3 DEF Revoked
  <2> QED BY <2>1, <2>2, <2>3, <2>4 DEF Merges, RangeList
<1> QED BY <1>2, <1>3

\* The list made of finitely many ranges revokes exactly the indices in them.
LEMMA ListRevokes ==
  ASSUME NEW S, IsFiniteSet(S), \A r \in S : IsRange(r)
  PROVE  /\ RevocationList(S) \in RangeList
         /\ \A i \in Nat : Revoked(RevocationList(S), i) <=> \E r \in S : r.start <= i /\ i < r.end
<1> DEFINE n == Cardinality(S)
           values == InOrder(S)
           I == 0 .. n
           merged == CHOOSE f : f = [k \in I |-> IF k = 0 THEN << >> ELSE MergeRange(f[k - 1], values[k])]
<1>1. n \in Nat /\ values \in [1 .. n -> S] /\ Sorts(values, S)
  BY SortExists, FS_CardinalityType
<1>2. RevocationList(S) = merged[n]
  BY DEF RevocationList
<1> HIDE DEF n, values
\* The loop up to its k-th turn.
<1> DEFINE Upto(f, m) == \A k \in I : k <= m => f[k] = IF k = 0 THEN << >> ELSE MergeRange(f[k - 1], values[k])
           N == { m \in Nat : \E f : Upto(f, m) }
<1>3. 0 \in N
  <2>1. Upto([k \in I |-> << >>], 0)
    OBVIOUS
  <2> HIDE DEF Upto
  <2> QED BY <2>1
<1>4. ASSUME NEW m \in Nat, m \in N PROVE m + 1 \in N
  <2>1. PICK f : Upto(f, m)
    BY <1>4
  <2> DEFINE g == [k \in I |-> IF k = 0 THEN << >> ELSE MergeRange(f[k - 1], values[k])]
  <2>2. ASSUME NEW k \in I, k <= m PROVE g[k] = f[k]
    BY <2>1, <2>2
  <2>3. ASSUME NEW k \in I, k <= m + 1, k # 0 PROVE g[k] = MergeRange(g[k - 1], values[k])
    <3>1. k - 1 \in I /\ k - 1 <= m
      BY <1>1, <2>3
    <3>2. g[k - 1] = f[k - 1]
      BY <2>2, <3>1
    <3> QED BY <2>3, <3>2
  <2>4. Upto(g, m + 1)
    BY <2>3
  <2> HIDE DEF g, Upto
  <2> QED BY <2>4
<1>5. \A m \in Nat : m \in N
  <2> HIDE DEF N
  <2> QED BY <1>3, <1>4, Induction
<1>6. PICK f : Upto(f, n)
  BY <1>1, <1>5
<1> DEFINE g == [k \in I |-> f[k]]
<1>7. g = [k \in I |-> IF k = 0 THEN << >> ELSE MergeRange(g[k - 1], values[k])]
  <2>1. ASSUME NEW k \in I PROVE f[k] = IF k = 0 THEN << >> ELSE MergeRange(g[k - 1], values[k])
    <3>1. k # 0 => k - 1 \in I
      BY <1>1
    <3> QED BY <1>1, <1>6, <3>1
  <2> HIDE DEF I
  <2> QED BY <2>1
<1>8. merged = [k \in I |-> IF k = 0 THEN << >> ELSE MergeRange(merged[k - 1], values[k])]
  <2> HIDE DEF g, I
  <2> QED BY <1>7
<1>9. merged[0] = << >> /\ \A k \in 1 .. n : merged[k] = MergeRange(merged[k - 1], values[k])
  <2>1. \A k \in I : merged[k] = IF k = 0 THEN << >> ELSE MergeRange(merged[k - 1], values[k])
    <3> HIDE DEF merged, I
    <3> QED BY <1>8
  <2> HIDE DEF merged
  <2> QED BY <1>1, <2>1
<1> HIDE DEF merged
\* After the k-th turn the list revokes what is in the first k ranges.
<1> DEFINE Holds(k) ==
             /\ merged[k] \in RangeList
             /\ merged[k] # << >> => k \in 1 .. n /\ Last(merged[k]).start <= values[k].start
             /\ \A i \in Nat : Revoked(merged[k], i) <=>
                               \E j \in 1 .. k : values[j].start <= i /\ i < values[j].end
           H == { k \in Nat : k <= n => Holds(k) }
<1>10. 0 \in H
  <2>1. << >> \in RangeList
    BY DEF RangeList
  <2>2. \A i \in Nat : ~Revoked(<< >>, i)
    BY DEF Revoked
  <2> QED BY <1>9, <2>1, <2>2
<1>11. ASSUME NEW k \in Nat, k \in H PROVE k + 1 \in H
  <2> SUFFICES ASSUME k + 1 <= n PROVE Holds(k + 1)
    OBVIOUS
  <2>1. Holds(k) /\ k + 1 \in 1 .. n /\ (k + 1) - 1 = k
    BY <1>1, <1>11
  <2>2. IsRange(values[k + 1]) /\ merged[k + 1] = MergeRange(merged[k], values[k + 1])
    BY <1>1, <1>9, <2>1
  <2>3. merged[k] # << >> => Last(merged[k]).start <= values[k + 1].start
    <3> SUFFICES ASSUME merged[k] # << >> PROVE Last(merged[k]).start <= values[k + 1].start
      OBVIOUS
    <3>1. k \in 1 .. n /\ Last(merged[k]).start <= values[k].start
      BY <2>1
    <3>2. values[k].start <= values[k + 1].start /\ values[k].start \in Nat
      <4>1. RangeBefore(values[k], values[k + 1]) /\ IsRange(values[k])
        BY <1>1, <2>1, <3>1 DEF Sorts
      <4> QED BY <2>2, <4>1, RangesAreOrdered DEF IsRange
    <3>3. Last(merged[k]).start \in Nat
      BY <2>1 DEF Last, RangeList
    <3> QED BY <2>2, <3>1, <3>2, <3>3 DEF IsRange
  <2>4. Merges(merged[k], values[k + 1], merged[k + 1])
    BY <2>1, <2>2, <2>3, MergeAdds
  <2>5. ASSUME NEW i \in Nat
        PROVE  Revoked(merged[k + 1], i) <=>
                 \E j \in 1 .. k + 1 : values[j].start <= i /\ i < values[j].end
    <3>1. Revoked(merged[k + 1], i) <=> (\E j \in 1 .. k : values[j].start <= i /\ i < values[j].end)
            \/ (values[k + 1].start <= i /\ i < values[k + 1].end)
      BY <2>1, <2>4 DEF Merges
    <3>2. \A j \in 1 .. k + 1 : j \in 1 .. k \/ j = k + 1
      OBVIOUS
    <3>3. k + 1 \in 1 .. k + 1 /\ \A j \in 1 .. k : j \in 1 .. k + 1
      OBVIOUS
    <3> QED BY <3>1, <3>2, <3>3
  <2> QED BY <2>1, <2>4, <2>5 DEF Merges
<1>12. Holds(n)
  <2>1. \A k \in Nat : k \in H
    <3> HIDE DEF H
    <3> QED BY <1>10, <1>11, Induction
  <2> QED BY <1>1, <2>1
<1>13. ASSUME NEW i \in Nat
       PROVE  Revoked(merged[n], i) <=> \E r \in S : r.start <= i /\ i < r.end
  <2>1. Revoked(merged[n], i) <=> \E j \in 1 .. n : values[j].start <= i /\ i < values[j].end
    BY <1>12
  <2>2. \A r \in S : \E j \in 1 .. n : values[j] = r
    BY <1>1 DEF Sorts
  <2> QED BY <1>1, <2>1, <2>2
<1> QED BY <1>2, <1>12, <1>13

\* Revoking a range adds it to what is revoked and removes nothing.
LEMMA RevokeAdds ==
  ASSUME NEW list \in RangeList, NEW r, IsRange(r)
  PROVE  /\ Revoke(list, r.start, r.end) \in RangeList
         /\ \A i \in Nat : Revoked(Revoke(list, r.start, r.end), i) <=>
                           Revoked(list, i) \/ i \in r.start .. r.end - 1
<1> DEFINE S == {list[k] : k \in DOMAIN list}
           T == S \cup {r}
<1>1. Revoke(list, r.start, r.end) = RevocationList(T)
  BY DEF Revoke, IsRange
<1>2. IsFiniteSet(S) /\ \A s \in S : IsRange(s)
  <2>1. Len(list) \in Nat /\ DOMAIN list = 1 .. Len(list)
    BY DEF RangeList
  <2>2. list \in Seq(S)
    BY <2>1 DEF RangeList
  <2>3. \A k \in DOMAIN list : IsRange(list[k])
    BY <2>1 DEF RangeList, IsRange, Interval
  <2> QED BY <2>1, <2>2, <2>3 DEF IsFiniteSet
<1>3. IsFiniteSet(T) /\ \A s \in T : IsRange(s)
  <2> HIDE DEF S
  <2> QED BY <1>2, FS_AddElement
<1>4. /\ RevocationList(T) \in RangeList
      /\ \A i \in Nat : Revoked(RevocationList(T), i) <=> \E s \in T : s.start <= i /\ i < s.end
  <2> HIDE DEF T
  <2> QED BY <1>3, ListRevokes
<1>5. ASSUME NEW i \in Nat
      PROVE  (\E s \in T : s.start <= i /\ i < s.end) <=> Revoked(list, i) \/ i \in r.start .. r.end - 1
  <2>1. Revoked(list, i) <=> \E s \in S : s.start <= i /\ i < s.end
    BY DEF Revoked
  <2>2. i \in r.start .. r.end - 1 <=> r.start <= i /\ i < r.end
    BY DEF IsRange
  <2> HIDE DEF S
  <2> QED BY <2>1, <2>2
<1> QED BY <1>1, <1>4, <1>5

-----------------------------------------------------------------------------
(* Trusted subtrees *)

\* Two subtrees of one interval and one hash are the same.
LEMMA SameSubtree ==
  ASSUME NEW s, NEW t, SameInterval(s, t), s.hash = t.hash,
         s = [start |-> s.start, end |-> s.end, hash |-> s.hash],
         t = [start |-> t.start, end |-> t.end, hash |-> t.hash]
  PROVE  s = t
BY DEF SameInterval

LEMMA SubtreeIsRecord ==
  ASSUME NEW log, NEW i, NEW s, s = SubtreeOf(log, i)
  PROVE  /\ s = [start |-> s.start, end |-> s.end, hash |-> s.hash]
         /\ s.start = i.start /\ s.end = i.end
BY DEF SubtreeOf

LEMMA IntervalFields ==
  ASSUME NEW s, NEW t
  PROVE  /\ Interval(s.start, s.end).start = s.start
         /\ Interval(s.start, s.end).end = s.end
         /\ Interval(s.start, s.end) = Interval(t.start, t.end) => SameInterval(s, t)
BY DEF Interval, SameInterval

LEMMA SubtreeOfInterval ==
  ASSUME NEW log, NEW s
  PROVE  SubtreeOf(log, Interval(s.start, s.end)) = SubtreeOf(log, s)
BY IntervalFields DEF SubtreeOf

\* After an update exactly the active intervals are trusted, with the hashes
\* of the new reference.
LEMMA UpdateTrusts ==
  ASSUME TrustInv, NEW reference, NEW sizes, NEW head, NEW signers, NEW subtrees,
         UpdateTrustedSubtrees(reference, sizes, head, signers, subtrees)
  PROVE  trusted' = {SubtreeOf(reference, i) : i \in ActiveIntervals(sizes, MaxLandmarks)}
<1> DEFINE expected == ActiveIntervals(sizes, MaxLandmarks)
           merged == trusted \cup subtrees
<1>1. /\ trusted' = Retain(merged, expected) /\ NoConflict(merged)
      /\ \A s \in subtrees : s = SubtreeOf(reference, s)
      /\ {Interval(s.start, s.end) : s \in subtrees} = expected
  BY DEF UpdateTrustedSubtrees, SubtreesProved
<1> HIDE DEF expected
<1>2. ASSUME NEW i \in expected PROVE SubtreeOf(reference, i) \in trusted'
  <2>1. PICK s \in subtrees : i = Interval(s.start, s.end)
    BY <1>1
  <2>2. s = SubtreeOf(reference, s)
    BY <1>1
  <2>3. s = SubtreeOf(reference, i)
    BY <2>1, <2>2, SubtreeOfInterval
  <2>4. s \in merged /\ Interval(s.start, s.end) \in expected
    BY <2>1
  <2>5. s \in trusted'
    BY <1>1, <2>4 DEF Retain
  <2> QED BY <2>3, <2>5
<1>3. ASSUME NEW s \in trusted'
      PROVE  \E i \in expected : s = SubtreeOf(reference, i)
  <2>1. s \in merged /\ Interval(s.start, s.end) \in expected
    BY <1>1 DEF Retain
  <2>2. PICK t \in subtrees : Interval(s.start, s.end) = Interval(t.start, t.end)
    BY <1>1, <2>1
  <2>3. SameInterval(s, t) /\ s.hash = t.hash
    <3>1. SameInterval(s, t)
      BY <2>2, IntervalFields
    <3>2. t \in merged
      OBVIOUS
    <3> QED BY <1>1, <2>1, <3>1, <3>2 DEF NoConflict
  <2>4. t = SubtreeOf(reference, t)
    BY <1>1
  <2>5. t = [start |-> t.start, end |-> t.end, hash |-> t.hash]
    BY <2>4, SubtreeIsRecord
  <2>6. s = [start |-> s.start, end |-> s.end, hash |-> s.hash]
    <3>1. CASE s \in trusted
      BY <3>1 DEF TrustInv, SubtreesAreRecords
    <3>2. CASE s \in subtrees
      <4>1. s = SubtreeOf(reference, s)
        BY <1>1, <3>2
      <4> QED BY <4>1, SubtreeIsRecord
    <3> QED BY <2>1, <3>1, <3>2
  <2>7. s = t
    BY <2>3, <2>5, <2>6, SameSubtree
  <2>8. s = SubtreeOf(reference, Interval(s.start, s.end))
    BY <2>4, <2>7, SubtreeOfInterval
  <2> QED BY <2>1, <2>8
<1> HIDE DEF merged
<1>4. trusted' = {SubtreeOf(reference, i) : i \in expected}
  BY <1>2, <1>3
<1> QED BY <1>4 DEF expected

LEMMA UpdateInv ==
  ASSUME TrustInv, NEW reference \in Heads, NEW sizes \in SequencesGiven, NEW head, NEW signers,
         NEW subtrees, UpdateTrustedSubtrees(reference, sizes, head, signers, subtrees)
  PROVE  TrustInv'
<1>1. trusted' = {SubtreeOf(reference, i) : i \in ActiveIntervals(sizes, MaxLandmarks)}
  BY UpdateTrusts
<1>2. \A s \in trusted' : /\ s = [start |-> s.start, end |-> s.end, hash |-> s.hash]
                          /\ s = SubtreeOf(reference, s)
  <2> SUFFICES ASSUME NEW i, NEW s, s = SubtreeOf(reference, i)
               PROVE  /\ s = [start |-> s.start, end |-> s.end, hash |-> s.hash]
                      /\ s = SubtreeOf(reference, s)
    BY <1>1
  <2>1. s.start = i.start /\ s.end = i.end
    BY SubtreeIsRecord
  <2> QED BY <2>1, SubtreeIsRecord DEF SubtreeOf
<1>3. OneHashPerInterval'
  <2> SUFFICES ASSUME NEW s \in trusted', NEW t \in trusted', SameInterval(s, t) PROVE s = t
    BY DEF OneHashPerInterval
  <2>1. s = SubtreeOf(reference, s) /\ t = SubtreeOf(reference, t)
    BY <1>2
  <2>2. SubtreeOf(reference, s) = SubtreeOf(reference, t)
    BY DEF SubtreeOf, SameInterval
  <2> QED BY <2>1, <2>2
<1>4. last' = {[reference |-> reference, sizes |-> sizes, config |-> config, trusted |-> trusted']}
  BY DEF UpdateTrustedSubtrees
<1>5. LastWasPresented' /\ TrustedRootsOfOneHistory'
  BY <1>1, <1>4 DEF LastWasPresented, TrustedRootsOfOneHistory
<1>6. RevokedForGood'
  BY DEF TrustInv, RevokedForGood, UpdateTrustedSubtrees
<1> QED BY <1>2, <1>3, <1>5, <1>6 DEF TrustInv, SubtreesAreRecords

LEMMA UpdateIsUpdate ==
  ASSUME Update
  PROVE  \E reference \in Heads, sizes \in SequencesGiven, head \in Heads, signers \in SignerSets :
           \E subtrees : UpdateTrustedSubtrees(reference, sizes, head, signers, subtrees)
BY DEF Update

LEMMA TrustInitInv == Init => TrustInv
<1> SUFFICES ASSUME Init PROVE TrustInv
  OBVIOUS
<1>1. RevokedForGood
  BY DEF Init, RevokedForGood, RangeList, Revoked
<1> QED BY <1>1 DEF Init, TrustInv, SubtreesAreRecords, OneHashPerInterval, LastWasPresented,
                  TrustedRootsOfOneHistory

LEMMA RevokeInv ==
  ASSUME TrustInv, NEW r \in RevocableRanges, RevokeRange(r)
  PROVE  TrustInv'
<1>1. IsRange(r) /\ revocations \in RangeList
  BY RangesAreIntervals DEF IsRange, TrustInv, RevokedForGood
<1>2. /\ revocations' \in RangeList
      /\ \A i \in Nat : Revoked(revocations', i) <=> Revoked(revocations, i) \/ i \in r.start .. r.end - 1
  BY <1>1, RevokeAdds DEF RevokeRange
<1>3. r.start .. r.end - 1 \subseteq Nat
  BY <1>1 DEF IsRange
<1>4. everRevoked' = everRevoked \cup (r.start .. r.end - 1)
  BY DEF RevokeRange
<1>5. RevokedForGood'
  BY <1>2, <1>3, <1>4 DEF TrustInv, RevokedForGood
<1>6. UNCHANGED <<config, trusted, last>>
  BY DEF RevokeRange
<1> QED BY <1>5, <1>6 DEF TrustInv, SubtreesAreRecords, OneHashPerInterval, LastWasPresented,
                        TrustedRootsOfOneHistory

LEMMA TrustNextInv == TrustInv /\ [Next]_vars => TrustInv'
<1> SUFFICES ASSUME TrustInv, [Next]_vars PROVE TrustInv'
  OBVIOUS
<1> USE DEF TrustInv, SubtreesAreRecords, OneHashPerInterval, LastWasPresented, TrustedRootsOfOneHistory
<1>1. CASE Update
  BY <1>1, UpdateIsUpdate, UpdateInv
<1>2. CASE \E c \in Configurations : WithSigners(c)
  BY <1>2 DEF WithSigners, RevokedForGood
<1>3. CASE Restart
  BY <1>3 DEF Restart, RevokedForGood
<1>4. CASE \E r \in RevocableRanges : RevokeRange(r)
  BY <1>4, RevokeInv
<1>5. CASE UNCHANGED vars
  BY <1>5 DEF vars, RevokedForGood
<1> QED BY <1>1, <1>2, <1>3, <1>4, <1>5 DEF Next

\* One step of what TrustNeverForks says.
TrustStands ==
  config' = config =>
    /\ \A l \in last, m \in last' :
         IsPrefix(l.reference, m.reference) /\ IsPrefix(l.sizes, m.sizes)
    /\ \A s \in trusted, t \in trusted' : SameInterval(s, t) => s = t

LEMMA UpdateStands ==
  ASSUME TrustInv, NEW reference \in Heads, NEW sizes \in SequencesGiven, NEW head, NEW signers,
         NEW subtrees, UpdateTrustedSubtrees(reference, sizes, head, signers, subtrees)
  PROVE  TrustStands
<1>1. ASSUME NEW l \in last, NEW m \in last'
      PROVE  IsPrefix(l.reference, m.reference) /\ IsPrefix(l.sizes, m.sizes)
  <2>1. m.reference = reference /\ m.sizes = sizes
    BY DEF UpdateTrustedSubtrees
  <2> QED BY <2>1 DEF UpdateTrustedSubtrees, ContinuesLast
<1>2. ASSUME NEW s \in trusted, NEW t \in trusted', SameInterval(s, t)
      PROVE  s = t
  <2>1. NoConflict(trusted \cup subtrees) /\ t \in trusted \cup subtrees
    BY DEF UpdateTrustedSubtrees, Retain
  <2>2. s.hash = t.hash
    BY <1>2, <2>1 DEF NoConflict
  <2>3. t = [start |-> t.start, end |-> t.end, hash |-> t.hash]
    BY UpdateInv DEF TrustInv, SubtreesAreRecords
  <2>4. s = [start |-> s.start, end |-> s.end, hash |-> s.hash]
    BY DEF TrustInv, SubtreesAreRecords
  <2> QED BY <1>2, <2>2, <2>3, <2>4, SameSubtree
<1> QED BY <1>1, <1>2 DEF TrustStands

LEMMA StepStands == TrustInv /\ [Next]_vars => TrustStands
<1> SUFFICES ASSUME TrustInv, [Next]_vars PROVE TrustStands
  OBVIOUS
<1>1. CASE Update
  BY <1>1, UpdateIsUpdate, UpdateStands
<1>2. CASE \E c \in Configurations : WithSigners(c)
  BY <1>2 DEF WithSigners, TrustStands
<1>3. ASSUME trusted' = trusted, last' = last \/ last' = {}
      PROVE  TrustStands
  <2>1. \A s \in trusted, t \in trusted' : SameInterval(s, t) => s = t
    BY <1>3 DEF TrustInv, OneHashPerInterval
  <2>2. ASSUME NEW l \in last, NEW m \in last'
        PROVE  IsPrefix(l.reference, m.reference) /\ IsPrefix(l.sizes, m.sizes)
    <3>1. l = m
      BY <1>3 DEF TrustInv, LastWasPresented
    <3>2. l.reference \in Seq(Entry) /\ l.sizes \in Seq(Nat)
      BY HeadsAreHistories, SequencesAreSizes DEF TrustInv, LastWasPresented
    <3> QED BY <3>1, <3>2, PrefixReflexive
  <2> QED BY <2>1, <2>2 DEF TrustStands
<1>4. CASE Restart
  BY <1>3, <1>4 DEF Restart
<1>5. CASE \E r \in RevocableRanges : RevokeRange(r)
  BY <1>3, <1>5 DEF RevokeRange
<1>6. CASE UNCHANGED vars
  BY <1>3, <1>6 DEF vars
<1> QED BY <1>1, <1>2, <1>4, <1>5, <1>6 DEF Next

-----------------------------------------------------------------------------
(* The theorems *)

\* update_trusted_subtrees and RealCertificateVerifier keep the store to one
\* hash per interval, all of them of the reference last accepted.
THEOREM TrustCorrect == Spec => []TrustInv
<1>1. Init => TrustInv
  BY TrustInitInv
<1>2. TrustInv /\ [Next]_vars => TrustInv'
  BY TrustNextInv
<1> QED BY <1>1, <1>2, PTL DEF Spec

\* The trusted subtrees are the active ones of the sequence last accepted, with
\* the hashes of the reference last accepted.
THEOREM TrustedRootsAgree == Spec => []TrustedRootsOfOneHistory
<1>1. TrustInv => TrustedRootsOfOneHistory
  BY DEF TrustInv
<1> QED BY <1>1, TrustCorrect, PTL

\* What verify_certificate accepts was never revoked, and agrees with the entries
\* behind the trusted subtree it is under.
THEOREM AcceptedStand == Spec => []AcceptedCertificatesStand
<1>1. TrustInv => AcceptedCertificatesStand
  <2> SUFFICES ASSUME TrustInv, NEW cert, Verify(cert, config, trusted, revocations)
               PROVE  /\ cert.index \notin everRevoked
                      /\ \A s \in trusted : SameInterval(s, cert.subtree) => s = cert.subtree
    BY DEF AcceptedCertificatesStand
  <2>1. cert.index \notin everRevoked
    BY DEF Verify, TrustInv, RevokedForGood
  <2>2. ASSUME NEW s \in trusted, SameInterval(s, cert.subtree) PROVE s = cert.subtree
    <3>1. s \in Lookup(trusted, cert.subtree.start, cert.subtree.end)
      BY <2>2 DEF Lookup, SameInterval
    <3>2. cert.subtree \in trusted
      BY <3>1 DEF Verify, Lookup
    <3> QED BY <2>2, <3>2 DEF TrustInv, OneHashPerInterval
  <2> QED BY <2>1, <2>2
<1> QED BY <1>1, TrustCorrect, PTL

\* No update, restart or revocation takes back what is trusted.
THEOREM TrustStandsForever == Spec => TrustNeverForks
<1>1. TrustInv /\ [Next]_vars => [TrustStands]_vars
  BY StepStands
<1>2. Spec => [][TrustStands]_vars
  BY <1>1, TrustCorrect, PTL DEF Spec
<1> QED BY <1>2 DEF TrustNeverForks, TrustStands
=============================================================================

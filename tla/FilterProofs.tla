---------------------------- MODULE FilterProofs ----------------------------
(***************************************************************************)
(* The filters of FilterWindow find everything they should, load again and *)
(* are unchanged by an insertion that fails: for any keys, hashes, bucket  *)
(* sizes, kicks and attempts, and any windows of any number of landmarks.  *)
(*                                                                         *)
(* Every item a filter was given has a slot of its own, in one of its two  *)
(* buckets, with its fingerprint (Stores).  A kick swaps what a slot holds *)
(* with the fingerprint in hand, whose other bucket is one of its item's   *)
(* because x ^ y ^ y = x (Carries).  A slot that a failed chain changed is *)
(* restored to what the first change found there (RollsBack).  A discard   *)
(* may clear the slot of another item with the same fingerprint and the    *)
(* same buckets, which then takes over the slot of the discarded one.      *)
(***************************************************************************)
EXTENDS FilterWindow, DataLemmas, FiniteSetTheorems

-----------------------------------------------------------------------------
(* Exclusive or *)

\* One step of the recursion of Xor.
XorBody(x, p) ==
  IF p[1] + p[2] = 0 THEN 0
  ELSE ((p[1] + p[2]) % 2) + 2 * x[<<p[1] \div 2, p[2] \div 2>>]

\* The recursion has a solution.
LEMMA XorIs ==
  ASSUME NEW m \in Nat
  PROVE  \E x \in [(0 .. m) \X (0 .. m) -> Nat] :
           /\ \A p \in (0 .. m) \X (0 .. m) : x[p] = XorBody(x, p)
           /\ \A a, b \in 0 .. m : Xor(a, b, m) = x[<<a, b>>]
<1> DEFINE I == (0 .. m) \X (0 .. m)
           rank == [p \in I |-> p[1] + p[2]]
           B == [q \in [I -> Nat] \X I |-> XorBody(q[1], q[2])]
           xor == CHOOSE x : x = [p \in I |-> XorBody(x, p)]
<1>1. ASSUME NEW p \in I, p[1] + p[2] # 0
      PROVE  /\ <<p[1] \div 2, p[2] \div 2>> \in I
             /\ p[1] \div 2 + p[2] \div 2 < p[1] + p[2]
  <2>1. p[1] \in 0 .. m /\ p[2] \in 0 .. m
    OBVIOUS
  <2>2. p[1] \div 2 \in 0 .. m /\ p[2] \div 2 \in 0 .. m
    BY <2>1
  <2>3. p[1] \div 2 + p[2] \div 2 < p[1] + p[2]
    BY <1>1, <2>1
  <2> QED BY <2>2, <2>3
<1>2. m + m \in Nat /\ rank \in [I -> 0 .. m + m]
  OBVIOUS
<1>3. ASSUME NEW f \in [I -> Nat], NEW p \in I
      PROVE  XorBody(f, p) \in Nat /\ B[<<f, p>>] = XorBody(f, p)
  <2>1. XorBody(f, p) \in Nat
    <3>1. CASE p[1] + p[2] = 0
      BY <3>1 DEF XorBody
    <3>2. CASE p[1] + p[2] # 0
      <4>1. f[<<p[1] \div 2, p[2] \div 2>>] \in Nat
        BY <1>1, <3>2
      <4>2. (p[1] + p[2]) % 2 \in Nat
        OBVIOUS
      <4> QED BY <3>2, <4>1, <4>2 DEF XorBody
    <3> QED BY <3>1, <3>2
  <2>2. <<f, p>> \in [I -> Nat] \X I /\ <<f, p>>[1] = f /\ <<f, p>>[2] = p
    OBVIOUS
  <2> HIDE DEF I
  <2> QED BY <2>1, <2>2
<1>4. B \in [[I -> Nat] \X I -> Nat]
  <2>1. \A q \in [I -> Nat] \X I : q[1] \in [I -> Nat] /\ q[2] \in I
    OBVIOUS
  <2>2. \A q \in [I -> Nat] \X I : XorBody(q[1], q[2]) \in Nat
    <3> HIDE DEF I
    <3> QED BY <1>3, <2>1
  <2> HIDE DEF I
  <2> QED BY <2>2
<1>5. GoesDown(B, I, Nat, rank)
  <2>1. ASSUME NEW f \in [I -> Nat], NEW g \in [I -> Nat], NEW p \in I,
               \A j \in I : rank[j] < rank[p] => f[j] = g[j]
        PROVE  XorBody(f, p) = XorBody(g, p)
    <3>1. CASE p[1] + p[2] = 0
      BY <3>1 DEF XorBody
    <3>2. CASE p[1] + p[2] # 0
      <4> DEFINE j == <<p[1] \div 2, p[2] \div 2>>
      <4>1. j \in I /\ rank[j] < rank[p]
        BY <1>1, <3>2
      <4>2. f[j] = g[j]
        <5> HIDE DEF j, rank, I
        <5> QED BY <2>1, <4>1
      <4> QED BY <3>2, <4>2 DEF XorBody
    <3> QED BY <3>1, <3>2
  <2> HIDE DEF B, I, rank
  <2> QED BY <1>3, <2>1 DEF GoesDown
<1>6. PICK f : Solves(f, B, I, Nat)
  <2> HIDE DEF B, I, rank
  <2>1. 0 \in Nat
    OBVIOUS
  <2> QED BY <1>2, <1>4, <1>5, <2>1, RecursionExists
<1>7. f \in [I -> Nat] /\ \A p \in I : f[p] = XorBody(f, p)
  <2> HIDE DEF B, I
  <2> QED BY <1>3, <1>6 DEF Solves
<1>8. f = [p \in I |-> XorBody(f, p)]
  <2> HIDE DEF I
  <2> QED BY <1>7
<1>9. xor = [p \in I |-> XorBody(xor, p)]
  <2> HIDE DEF I
  <2> QED BY <1>8
<1>10. \A a, b \in 0 .. m : Xor(a, b, m) = xor[<<a, b>>]
  BY DEF Xor, XorBody
<1> HIDE DEF xor
<1>11. \A p \in I : xor[p] = XorBody(xor, p)
  <2> HIDE DEF I
  <2> QED BY <1>9
\* The values are numbers because the solutions agree.
<1>12. \A p \in I : xor[p] = f[p]
  <2> DEFINE S == { n \in Nat : \A p \in I : p[1] + p[2] = n => xor[p] = f[p] }
  <2>1. ASSUME NEW n \in Nat, \A k \in 0 .. n - 1 : k \in S PROVE n \in S
    <3> SUFFICES ASSUME NEW p \in I, p[1] + p[2] = n PROVE xor[p] = f[p]
      OBVIOUS
    <3>1. CASE n = 0
      BY <1>7, <1>11, <3>1 DEF XorBody
    <3>2. CASE n # 0
      <4> DEFINE j == <<p[1] \div 2, p[2] \div 2>>
      <4>1. j \in I /\ j[1] + j[2] \in 0 .. n - 1
        BY <1>1, <3>2
      <4>2. xor[j] = f[j]
        <5> HIDE DEF j
        <5> QED BY <2>1, <4>1
      <4> QED BY <1>7, <1>11, <4>2 DEF XorBody
    <3> QED BY <3>1, <3>2
  <2>2. \A n \in Nat : n \in S
    <3> HIDE DEF S
    <3> QED BY <2>1, StrongInduction
  <2>3. \A p \in I : p[1] + p[2] \in Nat
    OBVIOUS
  <2> QED BY <2>2, <2>3
<1>13. xor = f
  <2> HIDE DEF I
  <2> QED BY <1>7, <1>9, <1>12
<1> QED BY <1>7, <1>10, <1>13

\* x ^ y ^ y = x, within the bits of m.
LEMMA XorTwice ==
  ASSUME NEW k \in Nat, NEW m \in Nat, m = Pow2[k] - 1
  PROVE  \A a, b \in 0 .. m : Xor(a, b, m) \in 0 .. m /\ Xor(Xor(a, b, m), b, m) = a
<1> DEFINE I == (0 .. m) \X (0 .. m)
<1>1. PICK x \in [I -> Nat] :
        /\ \A p \in I : x[p] = XorBody(x, p)
        /\ \A a, b \in 0 .. m : Xor(a, b, m) = x[<<a, b>>]
  BY XorIs
<1>2. ASSUME NEW a \in 0 .. m, NEW b \in 0 .. m
      PROVE  /\ a + b = 0 => x[<<a, b>>] = 0
             /\ a + b # 0 => x[<<a, b>>] = ((a + b) % 2) + 2 * x[<<a \div 2, b \div 2>>]
             /\ x[<<a, b>>] \in Nat
  <2>1. <<a, b>> \in I /\ <<a, b>>[1] = a /\ <<a, b>>[2] = b
    OBVIOUS
  <2>2. x[<<a, b>>] = XorBody(x, <<a, b>>)
    BY <1>1, <2>1
  <2> QED BY <1>1, <2>1, <2>2 DEF XorBody
<1>3. \A j \in Nat : Pow2[j] \in Nat \ {0} /\ Pow2[j + 1] = 2 * Pow2[j]
  BY Pow2Positive
<1> DEFINE Fits(j) == \A a, b \in 0 .. m : a < Pow2[j] /\ b < Pow2[j] => x[<<a, b>>] < Pow2[j]
           S == { j \in Nat : Fits(j) }
<1>4. 0 \in S
  <2>1. Pow2[0] = 1
    BY Pow2Positive
  <2> QED BY <1>2, <2>1
<1>5. ASSUME NEW j \in Nat, j \in S PROVE j + 1 \in S
  <2> SUFFICES ASSUME NEW a \in 0 .. m, NEW b \in 0 .. m, a < Pow2[j + 1], b < Pow2[j + 1]
               PROVE  x[<<a, b>>] < Pow2[j + 1]
    OBVIOUS
  <2> DEFINE c == a \div 2
             d == b \div 2
  <2>1. c \in 0 .. m /\ d \in 0 .. m /\ c < Pow2[j] /\ d < Pow2[j]
    BY <1>3
  <2>2. x[<<c, d>>] < Pow2[j] /\ x[<<c, d>>] \in Nat
    <3> HIDE DEF c, d
    <3> QED BY <1>2, <1>5, <2>1
  <2>3. CASE a + b = 0
    BY <1>2, <1>3, <2>3
  <2>4. CASE a + b # 0
    <3>1. x[<<a, b>>] = ((a + b) % 2) + 2 * x[<<c, d>>]
      BY <1>2, <2>4
    <3> DEFINE r == (a + b) % 2
               y == x[<<c, d>>]
    <3>2. r \in 0 .. 1
      OBVIOUS
    <3> HIDE DEF r, y
    <3>3. y < Pow2[j] /\ y \in Nat
      BY <2>2 DEF y
    <3>4. r + 2 * y < Pow2[j + 1]
      BY <1>3, <3>2, <3>3
    <3> QED BY <3>1, <3>4 DEF r, y
  <2> QED BY <2>3, <2>4
<1>6. \A j \in Nat : j \in S
  <2> HIDE DEF S
  <2> QED BY <1>4, <1>5, Induction
<1>7. \A a, b \in 0 .. m : x[<<a, b>>] \in 0 .. m
  <2> TAKE a, b \in 0 .. m
  <2>1. Pow2[k] \in Nat /\ a < Pow2[k] /\ b < Pow2[k]
    BY <1>3
  <2>2. x[<<a, b>>] < Pow2[k] /\ x[<<a, b>>] \in Nat
    BY <1>2, <1>6, <2>1
  <2> QED BY <2>1, <2>2
<1> DEFINE T == { n \in Nat : \A a, b \in 0 .. m : a + b = n => x[<<x[<<a, b>>], b>>] = a }
<1>8. ASSUME NEW n \in Nat, \A i \in 0 .. n - 1 : i \in T PROVE n \in T
  <2> SUFFICES ASSUME NEW a \in 0 .. m, NEW b \in 0 .. m, a + b = n
               PROVE  x[<<x[<<a, b>>], b>>] = a
    OBVIOUS
  <2>1. CASE n = 0
    <3>1. a = 0 /\ b = 0 /\ x[<<a, b>>] = 0
      BY <1>2, <2>1
    <3> QED BY <3>1
  <2>2. CASE n # 0
    <3> DEFINE c == a \div 2
               d == b \div 2
               y == x[<<c, d>>]
               r == (a + b) % 2
               z == x[<<a, b>>]
    <3>1. /\ c \in 0 .. m /\ d \in 0 .. m /\ c + d \in 0 .. n - 1
          /\ r \in 0 .. 1
      BY <2>2
    <3>2. y \in 0 .. m /\ x[<<y, d>>] = c
      <4>1. y \in 0 .. m
        <5> HIDE DEF c, d
        <5> QED BY <1>7, <3>1
      <4> HIDE DEF c, d
      <4>2. c + d \in T
        BY <1>8, <3>1
      <4> QED BY <3>1, <4>1, <4>2
    <3>3. z = r + 2 * y /\ z \in 0 .. m
      BY <1>2, <1>7, <2>2
    <3>4. /\ z \div 2 = y
          /\ (z + b) % 2 = (r + b) % 2
      <4> HIDE DEF y, r, z
      <4> QED BY <3>1, <3>2, <3>3
    <3>5. (r + b) % 2 = a % 2 /\ a = (a % 2) + 2 * c
      OBVIOUS
    <3>6. CASE z + b = 0
      <4>1. z = 0 /\ b = 0 /\ r = 0 /\ y = 0 /\ d = 0
        <5> HIDE DEF y, r, z
        <5>1. z = 0 /\ b = 0
          BY <3>3, <3>6
        <5> QED BY <3>1, <3>2, <3>3, <5>1
      <4>2. x[<<z, b>>] = 0 /\ x[<<y, d>>] = 0
        <5>1. 0 \in 0 .. m /\ 0 + 0 = 0
          OBVIOUS
        <5>2. x[<<0, 0>>] = 0
          BY <1>2, <5>1
        <5> HIDE DEF y, r, z, d
        <5> QED BY <4>1, <5>2
      <4>3. c = 0
        BY <3>2, <4>2
      <4>4. a % 2 = 0
        <5> HIDE DEF r
        <5>1. (r + b) % 2 = 0
          BY <4>1
        <5> QED BY <3>5, <5>1
      <4> QED BY <3>5, <4>2, <4>3, <4>4
    <3>7. CASE z + b # 0
      <4>1. x[<<z, b>>] = ((z + b) % 2) + 2 * x[<<z \div 2, b \div 2>>]
        <5> HIDE DEF z
        <5> QED BY <1>2, <3>3, <3>7
      <4>2. x[<<z, b>>] = (a % 2) + 2 * x[<<y, d>>]
        <5> HIDE DEF z, y, r
        <5> QED BY <3>4, <3>5, <4>1
      <4> HIDE DEF z, y, r, c, d
      <4> QED BY <3>2, <3>5, <4>2 DEF z
    <3> QED BY <3>6, <3>7
  <2> QED BY <2>1, <2>2
<1>9. \A n \in Nat : n \in T
  <2> HIDE DEF T
  <2> QED BY <1>8, StrongInduction
<1> QED
  <2> TAKE a, b \in 0 .. m
  <2>1. a + b \in Nat /\ x[<<a, b>>] \in 0 .. m
    BY <1>7
  <2>2. x[<<x[<<a, b>>], b>>] = a
    BY <1>9, <2>1
  <2> QED BY <1>1, <2>1, <2>2

-----------------------------------------------------------------------------
(* A filter and what it holds *)

\* The fingerprints of the keys under a seed.
Prints(seed) == { KeyHash[seed][key].fingerprint : key \in Key }

Places(f) == (0 .. f.size - 1) \X Slots

\* A filter with at least one bucket, whose item count is right.
IsFilter(f) ==
  /\ f = [seed |-> f.seed, size |-> f.size, slots |-> f.slots, count |-> f.count]
  /\ f.seed \in Seeds
  /\ \E k \in Nat : f.size = Pow2[k]
  /\ f.slots \in [Places(f) -> {0} \cup Prints(f.seed)]
  /\ f.count = Cardinality(Used(f))

Buckets(f, key) == {First(f, key), Second(f, key)}

\* A key found at a place.
Fits(f, key, at) ==
  /\ at \in Places(f)
  /\ at[1] \in Buckets(f, key)
  /\ f.slots[at] = Fingerprint(f, key)

\* Tokens stand for the items a filter was given: a key may be given twice.
Tokens == Key \X Nat

\* Every token has a place of its own.
Stores(f, T) ==
  \E p \in [T -> Places(f)] :
    /\ \A t \in T : Fits(f, t[1], p[t])
    /\ \A t, u \in T : p[t] = p[u] => t = u

Good(f, T) == IsFilter(f) /\ Stores(f, T)

\* The place of the fingerprint that a chain has in hand.
Hand == <<-1, 0>>

\* Every token has a place of its own, or is the one in hand.
Carries(c, T) ==
  /\ IsFilter(c.filter)
  /\ c.index \in 0 .. c.filter.size - 1
  /\ c.current \in Prints(c.filter.seed)
  /\ \E p \in [T -> Places(c.filter) \cup {Hand}] :
       /\ \A t \in T : p[t] # Hand => Fits(c.filter, t[1], p[t])
       /\ \A t \in T : p[t] = Hand => /\ c.index \in Buckets(c.filter, t[1])
                                      /\ c.current = Fingerprint(c.filter, t[1])
       /\ \A t, u \in T : p[t] = p[u] => t = u

\* Hashes stay within the filter, and the alternate of the alternate is the
\* bucket itself.
LEMMA AlternateTwice ==
  ASSUME NEW seed \in Seeds, NEW size, NEW k \in Nat, size = Pow2[k],
         NEW f, f.seed = seed, f.size = size,
         NEW b \in 0 .. size - 1, NEW fp \in Prints(seed)
  PROVE  /\ fp \in Nat \ {0}
         /\ Alternate(f, b, fp) \in 0 .. size - 1
         /\ Alternate(f, Alternate(f, b, fp), fp) = b
<1>1. size \in Nat \ {0}
  BY Pow2Positive
<1>2. fp \in Nat \ {0} /\ AlternateHash[seed][fp] \in Nat
  BY HashesAreNumbers DEF Prints
<1> DEFINE h == AlternateHash[seed][fp] % size
<1>3. h \in 0 .. size - 1
  BY <1>1, <1>2
<1>4. \A x : Alternate(f, x, fp) = Xor(x, h, size - 1)
  BY DEF Alternate
<1> HIDE DEF h
<1>5. \A x \in 0 .. size - 1 : Xor(x, h, size - 1) \in 0 .. size - 1 /\ Xor(Xor(x, h, size - 1), h, size - 1) = x
  <2>1. size - 1 \in Nat /\ size - 1 = Pow2[k] - 1
    BY <1>1
  <2> QED BY <1>3, <2>1, XorTwice
<1> QED BY <1>2, <1>4, <1>5

LEMMA BucketsAre ==
  ASSUME NEW f, IsFilter(f), NEW key \in Key
  PROVE  /\ f.size \in Nat \ {0}
         /\ Fingerprint(f, key) \in Prints(f.seed)
         /\ Fingerprint(f, key) \in Nat \ {0}
         /\ Buckets(f, key) \subseteq 0 .. f.size - 1
         /\ \A b \in Buckets(f, key) :
              Buckets(f, key) = {b, Alternate(f, b, Fingerprint(f, key))}
<1>1. PICK k \in Nat : f.size = Pow2[k]
  BY DEF IsFilter
<1>2. f.size \in Nat \ {0} /\ f.seed \in Seeds
  BY <1>1, Pow2Positive DEF IsFilter
<1>3. Fingerprint(f, key) \in Prints(f.seed)
  BY DEF Fingerprint, Prints
<1>4. First(f, key) \in 0 .. f.size - 1
  <2>1. KeyHash[f.seed][key].low \in Nat
    BY <1>2, HashesAreNumbers
  <2> QED BY <1>2, <2>1 DEF First
<1> DEFINE fp == Fingerprint(f, key)
           a == First(f, key)
<1> HIDE DEF fp, a
<1>5. \A b \in 0 .. f.size - 1 : /\ fp \in Nat \ {0}
                                 /\ Alternate(f, b, fp) \in 0 .. f.size - 1
                                 /\ Alternate(f, Alternate(f, b, fp), fp) = b
  <2>1. fp \in Prints(f.seed)
    BY <1>3 DEF fp
  <2> TAKE b \in 0 .. f.size - 1
  <2> QED BY <1>1, <1>2, <2>1, AlternateTwice
<1>6. Buckets(f, key) = {a, Alternate(f, a, fp)}
  BY DEF Buckets, Second, a, fp
<1>7. a \in 0 .. f.size - 1
  BY <1>4 DEF a
<1>8. \A b \in Buckets(f, key) : Buckets(f, key) = {b, Alternate(f, b, fp)}
  BY <1>5, <1>6, <1>7
<1> QED BY <1>2, <1>3, <1>5, <1>6, <1>7, <1>8 DEF fp

\* Slots.
LEMMA LowestIs ==
  ASSUME NEW S, S \subseteq Nat, S # {}
  PROVE  Lowest(S) \in S /\ \A s \in S : Lowest(S) <= s
<1>1. \E x \in S : \A s \in S : x <= s
  BY SmallestExists
<1> QED BY <1>1 DEF Lowest

LEMMA UsedIsFinite ==
  ASSUME NEW f, f.size \in Nat, DOMAIN f.slots = Places(f)
  PROVE  IsFiniteSet(Used(f)) /\ Cardinality(Used(f)) \in Nat
<1>1. IsFiniteSet(0 .. f.size - 1) /\ IsFiniteSet(Slots)
  BY FS_Interval, CuckooConfigIsValid DEF Slots
<1>2. IsFiniteSet(Places(f))
  BY <1>1, FS_Product DEF Places
<1>3. Used(f) \in SUBSET Places(f)
  BY DEF Used
<1> QED BY <1>2, <1>3, FS_Subset, FS_CardinalityType

\* The filter with one slot written.
Written(f, at, fp, count) ==
  [seed |-> f.seed, size |-> f.size, slots |-> [f.slots EXCEPT ![at] = fp], count |-> count]

IsWritten(g, f, at, fp, count) ==
  /\ g = [seed |-> g.seed, size |-> g.size, slots |-> g.slots, count |-> g.count]
  /\ g.seed = f.seed /\ g.size = f.size /\ g.count = count
  /\ g.slots \in [Places(f) -> {0} \cup Prints(f.seed)]
  /\ g.slots[at] = fp
  /\ \A x \in Places(f) : x # at => g.slots[x] = f.slots[x]
  /\ fp = 0 => Used(g) = Used(f) \ {at}
  /\ fp # 0 => Used(g) = Used(f) \cup {at}
  /\ count = Cardinality(Used(g)) => IsFilter(g)

LEMMA WrittenIs ==
  ASSUME NEW f, IsFilter(f), NEW at \in Places(f), NEW fp, NEW count,
         fp = 0 \/ fp \in Prints(f.seed)
  PROVE  IsWritten(Written(f, at, fp, count), f, at, fp, count)
<1> DEFINE g == Written(f, at, fp, count)
<1>2. f.slots \in [Places(f) -> {0} \cup Prints(f.seed)]
  BY DEF IsFilter
<1>3. g = [seed |-> f.seed, size |-> f.size, slots |-> [f.slots EXCEPT ![at] = fp], count |-> count]
  BY DEF Written
<1> HIDE DEF g
<1>4. /\ g = [seed |-> g.seed, size |-> g.size, slots |-> g.slots, count |-> g.count]
      /\ g.seed = f.seed /\ g.size = f.size /\ g.count = count
      /\ g.slots = [f.slots EXCEPT ![at] = fp]
  BY <1>3
<1>5. Places(g) = Places(f)
  BY <1>4 DEF Places
<1>6. g.slots \in [Places(f) -> {0} \cup Prints(f.seed)]
  BY <1>2, <1>4
<1>7. g.slots[at] = fp /\ \A x \in Places(f) : x # at => g.slots[x] = f.slots[x]
  BY <1>2, <1>4
<1>8. (fp = 0 => Used(g) = Used(f) \ {at}) /\ (fp # 0 => Used(g) = Used(f) \cup {at})
  <2>1. Used(g) = { x \in Places(f) : g.slots[x] # 0 } /\ Used(f) = { x \in Places(f) : f.slots[x] # 0 }
    BY <1>2, <1>6 DEF Used
  <2> QED BY <1>7, <2>1
<1>9. count = Cardinality(Used(g)) => IsFilter(g)
  BY <1>4, <1>5, <1>6 DEF IsFilter
<1>10. IsWritten(g, f, at, fp, count)
  BY <1>4, <1>6, <1>7, <1>8, <1>9 DEF IsWritten
<1> QED BY <1>10 DEF g

\* A place of a filter.
LEMMA PlaceIs ==
  ASSUME NEW f, NEW b \in 0 .. f.size - 1, NEW s \in Slots
  PROVE  <<b, s>> \in Places(f) /\ <<b, s>>[1] = b /\ <<b, s>> # Hand
<1>1. <<b, s>> \in Places(f) /\ <<b, s>>[1] = b
  BY DEF Places
<1>2. b # -1
  OBVIOUS
<1> QED BY <1>1, <1>2 DEF Hand

LEMMA HandIsNoPlace ==
  ASSUME NEW f
  PROVE  Hand \notin Places(f)
BY DEF Hand, Places

\* What is known of a key depends on the seed and the size only.
LEMMA SameHashes ==
  ASSUME NEW f, NEW g, f.seed = g.seed, f.size = g.size
  PROVE  /\ Places(f) = Places(g)
         /\ \A key : /\ Fingerprint(f, key) = Fingerprint(g, key)
                     /\ Buckets(f, key) = Buckets(g, key)
         /\ \A b, fp : Alternate(f, b, fp) = Alternate(g, b, fp)
BY DEF Places, Fingerprint, Buckets, First, Second, Alternate

\* _place, with whatever a chain has in hand.
LEMMA PlacedIsGood ==
  ASSUME NEW c, NEW T, T \subseteq Tokens, Carries(c, T), Free(c.filter, c.index) # {},
         NEW g, g = Place(c.filter, c.index, c.current)
  PROVE  Good(g, T) /\ g.seed = c.filter.seed /\ g.size = c.filter.size
<1> DEFINE f == c.filter
           at == <<c.index, Lowest(Free(f, c.index))>>
<1>1. IsFilter(f) /\ c.index \in 0 .. f.size - 1 /\ c.current \in Prints(f.seed)
  BY DEF Carries
<1>2. Lowest(Free(f, c.index)) \in Free(f, c.index)
  <2>1. Free(f, c.index) \subseteq Nat
    BY CuckooConfigIsValid DEF Free, Slots
  <2> QED BY <2>1, LowestIs
<1>3. Lowest(Free(f, c.index)) \in Slots /\ f.slots[at] = 0
  BY <1>2 DEF Free
<1>4. at \in Places(f) /\ at[1] = c.index /\ at # Hand
  BY <1>1, <1>3, PlaceIs
<1>5. g = Written(f, at, c.current, f.count + 1)
  <2>1. f = [seed |-> f.seed, size |-> f.size, slots |-> f.slots, count |-> f.count]
    BY <1>1 DEF IsFilter
  <2>2. g = [f EXCEPT !.slots[at] = c.current, !.count = @ + 1]
    BY DEF Place
  <2> HIDE DEF f, at
  <2> QED BY <2>1, <2>2 DEF Written
<1>6. c.current \in Nat \ {0}
  BY <1>1, HashesAreNumbers DEF Prints, IsFilter
<1>7. PICK p \in [T -> Places(f) \cup {Hand}] :
       /\ \A t \in T : p[t] # Hand => Fits(f, t[1], p[t])
       /\ \A t \in T : p[t] = Hand => /\ c.index \in Buckets(f, t[1])
                                      /\ c.current = Fingerprint(f, t[1])
       /\ \A t, u \in T : p[t] = p[u] => t = u
  BY DEF Carries
<1> HIDE DEF f, at
<1>8. /\ g.seed = f.seed /\ g.size = f.size /\ g.count = f.count + 1
      /\ g.slots[at] = c.current
      /\ \A x \in Places(f) : x # at => g.slots[x] = f.slots[x]
      /\ Used(g) = Used(f) \cup {at}
      /\ g.count = Cardinality(Used(g)) => IsFilter(g)
  <2>1. c.current \in {0} \cup Prints(f.seed) /\ c.current # 0
    BY <1>1, <1>6
  <2>2. IsWritten(Written(f, at, c.current, f.count + 1), f, at, c.current, f.count + 1)
    BY <1>1, <1>4, <2>1, WrittenIs
  <2> QED BY <1>5, <2>1, <2>2 DEF IsWritten
<1>9. IsFilter(g)
  <2>1. IsFiniteSet(Used(f)) /\ f.size \in Nat
    <3>1. f.size \in Nat /\ DOMAIN f.slots = Places(f)
      BY <1>1, Pow2Positive DEF IsFilter
    <3> QED BY <3>1, UsedIsFinite
  <2>2. at \notin Used(f)
    BY <1>3 DEF Used, f, at
  <2>3. Cardinality(Used(f) \cup {at}) = Cardinality(Used(f)) + 1
    BY <2>1, <2>2, FS_AddElement
  <2>4. f.count = Cardinality(Used(f))
    BY <1>1 DEF IsFilter
  <2> QED BY <1>8, <2>3, <2>4
<1>10. Places(g) = Places(f) /\ \A key : Fingerprint(g, key) = Fingerprint(f, key) /\ Buckets(g, key) = Buckets(f, key)
  BY <1>8, SameHashes
<1> DEFINE q == [t \in T |-> IF p[t] = Hand THEN at ELSE p[t]]
<1>11. q \in [T -> Places(g)]
  BY <1>4, <1>10
<1>12. ASSUME NEW t \in T PROVE Fits(g, t[1], q[t]) /\ (p[t] # Hand => p[t] # at)
  <2>1. CASE p[t] = Hand
    BY <1>4, <1>7, <1>8, <1>10, <2>1 DEF Fits
  <2>2. CASE p[t] # Hand
    <3>1. Fits(f, t[1], p[t])
      BY <1>7, <2>2
    <3>2. Fingerprint(f, t[1]) # 0
      <4>1. t[1] \in Key
        BY DEF Tokens
      <4> QED BY <1>1, <4>1, BucketsAre
    <3>3. p[t] # at
      BY <1>3, <3>1, <3>2 DEF Fits, at, f
    <3> QED BY <1>8, <1>10, <2>2, <3>1, <3>3 DEF Fits
  <2> QED BY <2>1, <2>2
<1>13. \A t, u \in T : q[t] = q[u] => t = u
  BY <1>7, <1>12
<1>14. Stores(g, T)
  <2> HIDE DEF q
  <2> QED BY <1>11, <1>12, <1>13 DEF Stores
<1> QED BY <1>8, <1>9, <1>14 DEF Good, f

\* The chain at its start has the new token in hand.
LEMMA StartCarries ==
  ASSUME NEW f, NEW T, T \subseteq Tokens, Good(f, T), NEW t \in Tokens, t \notin T,
         NEW b \in Buckets(f, t[1]), NEW c, c = Start(f, b, Fingerprint(f, t[1]))
  PROVE  Carries(c, T \cup {t})
<1>1. t[1] \in Key
  BY DEF Tokens
<1>2. c.filter = f /\ c.index = b /\ c.current = Fingerprint(f, t[1])
  BY DEF Start
<1>3. c.index \in 0 .. f.size - 1 /\ c.current \in Prints(f.seed) /\ IsFilter(f)
  BY <1>1, <1>2, BucketsAre DEF Good
<1>4. PICK p \in [T -> Places(f)] :
       /\ \A u \in T : Fits(f, u[1], p[u])
       /\ \A u, v \in T : p[u] = p[v] => u = v
  BY DEF Good, Stores
<1> DEFINE q == [u \in T \cup {t} |-> IF u = t THEN Hand ELSE p[u]]
<1>5. q \in [T \cup {t} -> Places(f) \cup {Hand}]
  OBVIOUS
<1>6. q[t] = Hand /\ \A u \in T : q[u] = p[u] /\ q[u] # Hand
  BY HandIsNoPlace
<1>7. \A u \in T \cup {t} : q[u] # Hand => Fits(f, u[1], q[u])
  BY <1>4, <1>6
<1>8. \A u \in T \cup {t} : q[u] = Hand => b \in Buckets(f, u[1]) /\ c.current = Fingerprint(f, u[1])
  BY <1>2, <1>6
<1>9. \A u, v \in T \cup {t} : q[u] = q[v] => u = v
  BY <1>4, <1>6
<1> HIDE DEF q
<1> QED BY <1>2, <1>3, <1>5, <1>7, <1>8, <1>9 DEF Carries

\* A kick swaps what a slot holds with what is in hand.
LEMMA KickCarries ==
  ASSUME NEW c, NEW T, T \subseteq Tokens, Carries(c, T), Free(c.filter, c.index) = {},
         NEW slot \in Slots, NEW d, d = Kick(c, slot)
  PROVE  Carries(d, T)
<1> DEFINE f == c.filter
           g == d.filter
           at == <<c.index, slot>>
<1>1. IsFilter(f) /\ c.index \in 0 .. f.size - 1 /\ c.current \in Prints(f.seed)
  BY DEF Carries
<1>2. at \in Places(f) /\ at[1] = c.index /\ at # Hand
  BY <1>1, PlaceIs
<1>3. d.index = Alternate(f, c.index, f.slots[at]) /\ d.current = f.slots[at]
  BY DEF Kick
<1>4. g = Written(f, at, c.current, f.count)
  <2>1. g = [f EXCEPT !.slots[at] = c.current]
    BY DEF Kick
  <2>2. f = [seed |-> f.seed, size |-> f.size, slots |-> f.slots, count |-> f.count]
    BY <1>1 DEF IsFilter
  <2> HIDE DEF f, g, at
  <2> QED BY <2>1, <2>2 DEF Written
<1>5. f.slots[at] # 0
  BY DEF Free
<1>6. PICK p \in [T -> Places(f) \cup {Hand}] :
       /\ \A t \in T : p[t] # Hand => Fits(f, t[1], p[t])
       /\ \A t \in T : p[t] = Hand => /\ c.index \in Buckets(f, t[1])
                                      /\ c.current = Fingerprint(f, t[1])
       /\ \A t, u \in T : p[t] = p[u] => t = u
  BY DEF Carries
<1> HIDE DEF f, g, at
<1>7. c.current \in Nat \ {0}
  BY <1>1, HashesAreNumbers DEF Prints, IsFilter
<1>8. /\ g.seed = f.seed /\ g.size = f.size /\ g.count = f.count
      /\ g.slots[at] = c.current
      /\ \A x \in Places(f) : x # at => g.slots[x] = f.slots[x]
      /\ Used(g) = Used(f) \cup {at}
      /\ g.count = Cardinality(Used(g)) => IsFilter(g)
  <2>1. c.current \in {0} \cup Prints(f.seed) /\ c.current # 0
    BY <1>1, <1>7
  <2>2. IsWritten(Written(f, at, c.current, f.count), f, at, c.current, f.count)
    BY <1>1, <1>2, <2>1, WrittenIs
  <2> QED BY <1>4, <2>1, <2>2 DEF IsWritten
<1>9. IsFilter(g)
  <2>1. DOMAIN f.slots = Places(f) /\ f.count = Cardinality(Used(f))
    BY <1>1 DEF IsFilter
  <2>2. at \in Used(f)
    BY <1>2, <1>5, <2>1 DEF Used
  <2>3. Used(f) \cup {at} = Used(f)
    BY <2>2
  <2> QED BY <1>8, <2>1, <2>3
<1>10. Places(g) = Places(f) /\ \A key : Fingerprint(g, key) = Fingerprint(f, key) /\ Buckets(g, key) = Buckets(f, key)
  BY <1>8, SameHashes
<1>11. f.slots[at] \in Prints(f.seed)
  BY <1>1, <1>2, <1>5 DEF IsFilter
<1>12. d.index \in 0 .. g.size - 1 /\ d.current \in Prints(g.seed)
  <2>1. f.seed \in Seeds /\ \E k \in Nat : f.size = Pow2[k]
    BY <1>1 DEF IsFilter
  <2>2. Alternate(f, c.index, f.slots[at]) \in 0 .. f.size - 1
    BY <1>1, <1>11, <2>1, AlternateTwice
  <2> QED BY <1>3, <1>8, <1>11, <2>2
<1> DEFINE q == [t \in T |-> IF p[t] = Hand THEN at ELSE IF p[t] = at THEN Hand ELSE p[t]]
<1>13. q \in [T -> Places(g) \cup {Hand}]
  BY <1>2, <1>10
<1>14. ASSUME NEW t \in T, q[t] # Hand PROVE Fits(g, t[1], q[t])
  <2>1. CASE p[t] = Hand
    BY <1>2, <1>6, <1>8, <1>10, <2>1 DEF Fits
  <2>2. CASE p[t] # Hand
    BY <1>6, <1>8, <1>10, <1>14, <2>2 DEF Fits
  <2> QED BY <2>1, <2>2
<1>15. ASSUME NEW t \in T, q[t] = Hand
       PROVE  d.index \in Buckets(g, t[1]) /\ d.current = Fingerprint(g, t[1])
  <2>1. p[t] = at
    BY <1>2, <1>15
  <2>2. Fits(f, t[1], at)
    BY <1>2, <1>6, <2>1
  <2>3. d.current = Fingerprint(f, t[1]) /\ c.index \in Buckets(f, t[1])
    BY <1>2, <1>3, <2>2 DEF Fits
  <2>4. t[1] \in Key
    BY DEF Tokens
  <2>5. Buckets(f, t[1]) = {c.index, Alternate(f, c.index, Fingerprint(f, t[1]))}
    BY <1>1, <2>3, <2>4, BucketsAre
  <2> QED BY <1>3, <1>10, <2>3, <2>5
<1>16. \A t, u \in T : q[t] = q[u] => t = u
  BY <1>2, <1>6
<1> HIDE DEF q
<1> QED BY <1>9, <1>12, <1>13, <1>14, <1>15, <1>16 DEF Carries, g

\* What a rollback needs: a slot holds what it held in f, or the first change
\* made to it says what that was.
RollsBack(c, f) ==
  /\ c.filter.seed = f.seed /\ c.filter.size = f.size /\ c.filter.count = f.count
  /\ c.changes \in Seq([at : Places(f), previous : Nat])
  /\ \A at \in Places(f) :
       /\ ChangesAt(c, at) = {} => c.filter.slots[at] = f.slots[at]
       /\ ChangesAt(c, at) # {} => c.changes[Lowest(ChangesAt(c, at))].previous = f.slots[at]

LEMMA StartRollsBack ==
  ASSUME NEW f, NEW b, NEW fp, NEW c, c = Start(f, b, fp)
  PROVE  RollsBack(c, f)
<1>1. c.filter = f /\ c.changes = << >>
  BY DEF Start
<1>2. c.changes \in Seq([at : Places(f), previous : Nat])
  BY <1>1
<1>3. \A at \in Places(f) : ChangesAt(c, at) = {}
  BY <1>1 DEF ChangesAt
<1> QED BY <1>1, <1>2, <1>3 DEF RollsBack

LEMMA KickRollsBack ==
  ASSUME NEW f, IsFilter(f), NEW c, IsFilter(c.filter), RollsBack(c, f), c.index \in 0 .. f.size - 1,
         NEW slot \in Slots, NEW d, d = Kick(c, slot)
  PROVE  RollsBack(d, f)
<1> DEFINE here == <<c.index, slot>>
           old == c.filter
           change == [at |-> here, previous |-> old.slots[here]]
<1>1. here \in Places(f) /\ Places(f) = Places(old)
  <2>1. Places(f) = Places(old)
    BY DEF RollsBack, Places
  <2> QED BY <2>1, PlaceIs
<1>2. d.filter = [old EXCEPT !.slots[here] = c.current] /\ d.changes = Append(c.changes, change)
  BY DEF Kick
<1>3. old = [seed |-> old.seed, size |-> old.size, slots |-> old.slots, count |-> old.count]
  BY DEF IsFilter
<1>4. old.slots \in [Places(f) -> Nat]
  <2>1. old.slots \in [Places(f) -> {0} \cup Prints(old.seed)] /\ old.seed \in Seeds
    BY <1>1 DEF IsFilter
  <2>2. Prints(old.seed) \subseteq Nat
    BY <2>1, HashesAreNumbers DEF Prints
  <2> QED BY <2>1, <2>2
<1>5. c.changes \in Seq([at : Places(f), previous : Nat])
  BY DEF RollsBack
<1> HIDE DEF old, here
<1>6. change \in [at : Places(f), previous : Nat]
  BY <1>1, <1>4
<1>7. /\ d.filter.seed = old.seed /\ d.filter.size = old.size /\ d.filter.count = old.count
      /\ \A at \in Places(f) : at # here => d.filter.slots[at] = old.slots[at]
  <2>1. d.filter = [seed |-> old.seed, size |-> old.size, slots |-> [old.slots EXCEPT ![here] = c.current], count |-> old.count]
    BY <1>2, <1>3
  <2> QED BY <1>4, <2>1
<1> HIDE DEF change
<1>8. /\ d.changes \in Seq([at : Places(f), previous : Nat])
      /\ Len(c.changes) \in Nat /\ Len(d.changes) = Len(c.changes) + 1
      /\ \A i \in 1 .. Len(c.changes) : d.changes[i] = c.changes[i]
      /\ d.changes[Len(c.changes) + 1] = change
  BY <1>2, <1>5, <1>6
<1>9. ASSUME NEW at
      PROVE  /\ ChangesAt(c, at) \subseteq 1 .. Len(c.changes)
             /\ ChangesAt(d, at) = ChangesAt(c, at) \cup (IF at = here THEN {Len(c.changes) + 1} ELSE {})
  <2>1. DOMAIN c.changes = 1 .. Len(c.changes) /\ DOMAIN d.changes = 1 .. Len(c.changes) + 1
    BY <1>5, <1>8
  <2>2. change.at = here
    BY DEF change
  <2> DEFINE n == Len(c.changes)
  <2> HIDE DEF n
  <2>3. /\ n \in Nat /\ DOMAIN c.changes = 1 .. n /\ DOMAIN d.changes = 1 .. n + 1
        /\ \A i \in 1 .. n : d.changes[i] = c.changes[i]
        /\ d.changes[n + 1].at = here
    BY <1>8, <2>1, <2>2 DEF n
  <2>4. /\ ChangesAt(c, at) = { i \in 1 .. n : c.changes[i].at = at }
        /\ ChangesAt(d, at) = { i \in 1 .. n + 1 : d.changes[i].at = at }
    BY <2>3 DEF ChangesAt
  <2>5. 1 .. n + 1 = (1 .. n) \cup {n + 1}
    BY <2>3
  <2>6. ChangesAt(d, at) = ChangesAt(c, at) \cup (IF at = here THEN {n + 1} ELSE {})
    BY <2>3, <2>4, <2>5
  <2> QED BY <2>4, <2>6 DEF n
<1>10. ASSUME NEW at \in Places(f)
       PROVE  /\ ChangesAt(d, at) = {} => d.filter.slots[at] = f.slots[at]
              /\ ChangesAt(d, at) # {} => d.changes[Lowest(ChangesAt(d, at))].previous = f.slots[at]
  <2>1. CASE ChangesAt(c, at) = {} /\ at # here
    <3>1. ChangesAt(d, at) = {}
      BY <1>9, <2>1
    <3> QED BY <1>7, <2>1, <3>1 DEF RollsBack, old
  <2>2. CASE ChangesAt(c, at) = {} /\ at = here
    <3>1. ChangesAt(d, at) = {Len(c.changes) + 1}
      BY <1>9, <2>2
    <3>2. Lowest({Len(c.changes) + 1}) = Len(c.changes) + 1
      BY <1>8 DEF Lowest
    <3>3. change.previous = old.slots[here]
      BY DEF change
    <3> QED BY <1>8, <2>2, <3>1, <3>2, <3>3 DEF RollsBack, old
  <2>3. CASE ChangesAt(c, at) # {}
    <3> DEFINE m == Lowest(ChangesAt(c, at))
    <3>1. m \in ChangesAt(c, at) /\ \A i \in ChangesAt(c, at) : m <= i
      <4>1. ChangesAt(c, at) \subseteq Nat
        BY <1>9
      <4> QED BY <2>3, <4>1, LowestIs
    <3>2. m \in 1 .. Len(c.changes)
      BY <1>9, <3>1
    <3> HIDE DEF m
    <3>3. m \in ChangesAt(d, at) /\ \A i \in ChangesAt(d, at) : m <= i
      BY <1>8, <1>9, <3>1, <3>2
    <3>4. ChangesAt(d, at) \subseteq Nat
      BY <1>8, <1>9
    <3>5. Lowest(ChangesAt(d, at)) = m
      <4>1. Lowest(ChangesAt(d, at)) \in ChangesAt(d, at) /\ \A i \in ChangesAt(d, at) : Lowest(ChangesAt(d, at)) <= i
        BY <3>3, <3>4, LowestIs
      <4> QED BY <3>3, <3>4, <4>1
    <3> QED BY <1>8, <2>3, <3>2, <3>3, <3>5 DEF RollsBack, m
  <2> QED BY <2>1, <2>2, <2>3
<1> QED BY <1>7, <1>8, <1>10 DEF RollsBack, old

LEMMA RollbackIs ==
  ASSUME NEW f, IsFilter(f), NEW c, IsFilter(c.filter), RollsBack(c, f)
  PROVE  Rollback(c) = f
<1> DEFINE old == c.filter
           slots == [at \in DOMAIN old.slots |->
                       IF ChangesAt(c, at) = {} THEN old.slots[at]
                       ELSE c.changes[Lowest(ChangesAt(c, at))].previous]
<1>1. old = [seed |-> old.seed, size |-> old.size, slots |-> old.slots, count |-> old.count]
  BY DEF IsFilter
<1>2. Rollback(c) = [old EXCEPT !.slots = slots]
  BY DEF Rollback
<1>3. DOMAIN old.slots = Places(f)
  <2>1. Places(f) = Places(old)
    BY DEF RollsBack, Places
  <2> QED BY <2>1 DEF IsFilter
<1>4. f.slots = slots
  <2>1. f.slots \in [Places(f) -> {0} \cup Prints(f.seed)]
    BY DEF IsFilter
  <2> QED BY <1>3, <2>1 DEF RollsBack
<1> HIDE DEF slots
<1>5. Rollback(c) = [seed |-> f.seed, size |-> f.size, slots |-> f.slots, count |-> f.count]
  BY <1>1, <1>2, <1>4 DEF RollsBack
<1> QED BY <1>5 DEF IsFilter

\* What is known of every chain.
Sound(c, f, T) ==
  /\ Carries(c, T) /\ RollsBack(c, f)
  /\ c.changes = << >> => Free(c.filter, c.index) = {}

LEMMA KickIsSound ==
  ASSUME NEW f, IsFilter(f), NEW T, T \subseteq Tokens, NEW c, Sound(c, f, T), ~Settled(c),
         NEW slot \in Slots
  PROVE  Sound(Kick(c, slot), f, T)
<1> DEFINE d == Kick(c, slot)
<1>1. Free(c.filter, c.index) = {}
  BY DEF Settled, Sound
<1>2. Carries(d, T)
  BY <1>1, KickCarries DEF Sound
<1>3. RollsBack(d, f)
  <2>1. c.filter.size = f.size
    BY DEF Sound, RollsBack
  <2> QED BY <2>1, KickRollsBack DEF Sound, Carries
<1>4. d.changes # << >>
  <2>1. d.changes = Append(c.changes, [at |-> <<c.index, slot>>, previous |-> c.filter.slots[<<c.index, slot>>]])
    BY DEF Kick
  <2>2. d.changes \in Seq([at : Places(f), previous : Nat]) /\ c.changes \in Seq([at : Places(f), previous : Nat])
    BY <1>3 DEF RollsBack, Sound
  <2>3. Len(d.changes) = Len(c.changes) + 1 /\ Len(c.changes) \in Nat
    <3> DEFINE e == [at |-> <<c.index, slot>>, previous |-> c.filter.slots[<<c.index, slot>>]]
    <3> HIDE DEF e, d
    <3> QED BY <2>1, <2>2 DEF e
  <2> HIDE DEF d
  <2> QED BY <2>2, <2>3
<1> QED BY <1>2, <1>3, <1>4 DEF Sound

\* The recursion of Chains has a solution, and every chain is sound.
LEMMA ChainsAreSound ==
  ASSUME NEW f, NEW T, T \subseteq Tokens, Good(f, T), NEW t \in Tokens, t \notin T,
         \A b \in Buckets(f, t[1]) : Free(f, b) = {}
  PROVE  \A c \in Chains(f, t[1]) : Sound(c, f, T \cup {t})
<1> DEFINE I == 0 .. MaxKicks
           starts == { Start(f, b, Fingerprint(f, t[1])) : b \in {First(f, t[1]), Second(f, t[1])} }
           Longer(C) == { c \in C : Settled(c) } \cup { Kick(c, s) : c \in { d \in C : ~Settled(d) }, s \in Slots }
           Body(g, n) == IF n = 0 THEN starts ELSE Longer(g[n - 1])
           chains == CHOOSE g : g = [n \in I |-> Body(g, n)]
<1>1. Chains(f, t[1]) = chains[MaxKicks]
  BY DEF Chains
<1> HIDE DEF Longer, starts
<1>2. \E g : g = [n \in I |-> Body(g, n)]
  <2> DEFINE Upto(g, n) == g = [i \in I |-> g[i]] /\ \A i \in I : i <= n => g[i] = Body(g, i)
             S == { n \in Nat : \E g : Upto(g, n) }
  <2>1. 0 \in S
    <3>1. Upto([i \in I |-> starts], 0)
      OBVIOUS
    <3> HIDE DEF Upto
    <3> QED BY <3>1
  <2>2. ASSUME NEW n \in Nat, n \in S PROVE n + 1 \in S
    <3>1. PICK g : Upto(g, n)
      BY <2>2
    <3> DEFINE h == [i \in I |-> Body(g, i)]
    <3>2. \A i \in I : h[i] = Body(g, i)
      OBVIOUS
    <3>3. h = [i \in I |-> h[i]]
      OBVIOUS
    <3> HIDE DEF h
    <3>4. \A i \in I : i <= n => h[i] = g[i]
      BY <3>1, <3>2
    <3>5. ASSUME NEW i \in I, i <= n + 1 PROVE h[i] = Body(h, i)
      <4>1. i = 0 \/ (i - 1 \in I /\ i - 1 <= n)
        BY <3>5, CuckooConfigIsValid
      <4> QED BY <3>2, <3>4, <4>1
    <3>6. Upto(h, n + 1)
      BY <3>3, <3>5
    <3> HIDE DEF Upto
    <3> QED BY <3>6
  <2>3. MaxKicks \in S
    <3> HIDE DEF S
    <3>1. \A n \in Nat : n \in S
      BY <2>1, <2>2, Induction
    <3> QED BY <3>1, CuckooConfigIsValid
  <2>4. PICK g : Upto(g, MaxKicks)
    BY <2>3
  <2>5. \A i \in I : g[i] = Body(g, i)
    <3>1. \A i \in I : i <= MaxKicks
      OBVIOUS
    <3> HIDE DEF I, Body
    <3> QED BY <2>4, <3>1
  <2>6. g = [i \in I |-> Body(g, i)]
    <3>1. g = [i \in I |-> g[i]]
      BY <2>4
    <3> HIDE DEF Body, I, Upto
    <3> QED BY <2>5, <3>1
  <2> QED BY <2>6
<1>3. chains = [n \in I |-> Body(chains, n)]
  <2> HIDE DEF Body, I
  <2> QED BY <1>2
<1> HIDE DEF chains
<1>4. \A n \in I : chains[n] = Body(chains, n)
  <2> HIDE DEF Body, I
  <2> QED BY <1>3
<1> DEFINE S == { n \in Nat : n \in I => \A c \in chains[n] : Sound(c, f, T \cup {t}) }
<1>5. 0 \in S
  <2> SUFFICES ASSUME NEW c \in starts PROVE Sound(c, f, T \cup {t})
    BY <1>4
  <2>1. PICK b \in Buckets(f, t[1]) : c = Start(f, b, Fingerprint(f, t[1]))
    BY DEF starts, Buckets
  <2>2. Carries(c, T \cup {t})
    BY <2>1, StartCarries
  <2>3. RollsBack(c, f)
    BY <2>1, StartRollsBack
  <2>4. c.filter = f /\ c.index = b
    BY <2>1 DEF Start
  <2> QED BY <2>2, <2>3, <2>4 DEF Sound
<1>6. ASSUME NEW n \in Nat, n \in S PROVE n + 1 \in S
  <2> SUFFICES ASSUME n + 1 \in I, NEW c \in chains[n + 1] PROVE Sound(c, f, T \cup {t})
    OBVIOUS
  <2>1. n \in I /\ chains[n + 1] = Longer(chains[n])
    <3>1. (n + 1) - 1 = n /\ n + 1 # 0
      OBVIOUS
    <3> QED BY <1>4, <3>1, CuckooConfigIsValid
  <2>2. c \in chains[n] \/ \E d \in chains[n], s \in Slots : ~Settled(d) /\ c = Kick(d, s)
    BY <2>1 DEF Longer
  <2>3. T \cup {t} \subseteq Tokens /\ IsFilter(f)
    BY DEF Good
  <2> QED BY <1>6, <2>1, <2>2, <2>3, KickIsSound
<1>7. MaxKicks \in S
  <2> HIDE DEF S
  <2>1. \A n \in Nat : n \in S
    BY <1>5, <1>6, Induction
  <2> QED BY <2>1, CuckooConfigIsValid
<1> QED BY <1>1, <1>7, CuckooConfigIsValid

\* _insert_key: the key is stored, or the filter is what it was.
LEMMA InsertionsAre ==
  ASSUME NEW f, NEW T, T \subseteq Tokens, Good(f, T), NEW t \in Tokens, t \notin T,
         NEW i \in Insertions(f, t[1])
  PROVE  /\ i.done \in BOOLEAN
         /\ i.done => Good(i.filter, T \cup {t}) /\ i.filter.seed = f.seed /\ i.filter.size = f.size
         /\ ~i.done => i.filter = f
<1>1. T \cup {t} \subseteq Tokens
  OBVIOUS
<1> DEFINE fp == Fingerprint(f, t[1])
<1>2. ASSUME NEW b \in Buckets(f, t[1]), Free(f, b) # {}
      PROVE  LET g == Place(f, b, fp)
             IN  Good(g, T \cup {t}) /\ g.seed = f.seed /\ g.size = f.size
  <2> DEFINE c == Start(f, b, fp)
  <2>1. Carries(c, T \cup {t})
    BY StartCarries
  <2>2. c.filter = f /\ c.index = b /\ c.current = fp
    BY DEF Start
  <2> HIDE DEF c
  <2> QED BY <1>1, <1>2, <2>1, <2>2, PlacedIsGood
<1>3. CASE \E b \in Buckets(f, t[1]) : Free(f, b) # {}
  <2>1. PICK b \in Buckets(f, t[1]) : Free(f, b) # {} /\ i = [done |-> TRUE, filter |-> Place(f, b, fp)]
    BY <1>3 DEF Insertions, Buckets
  <2>2. i.done = TRUE /\ i.filter = Place(f, b, fp)
    BY <2>1
  <2> QED BY <1>2, <2>1, <2>2
<1>4. CASE \A b \in Buckets(f, t[1]) : Free(f, b) = {}
  <2>1. PICK c \in Chains(f, t[1]) :
          i = IF Settled(c) THEN [done |-> TRUE, filter |-> Place(c.filter, c.index, c.current)]
              ELSE [done |-> FALSE, filter |-> Rollback(c)]
    BY <1>4 DEF Insertions, Buckets
  <2>2. Sound(c, f, T \cup {t})
    BY <1>4, ChainsAreSound
  <2>3. CASE Settled(c)
    <3>1. i.done = TRUE /\ i.filter = Place(c.filter, c.index, c.current)
      BY <2>1, <2>3
    <3>2. Free(c.filter, c.index) # {}
      BY <2>3 DEF Settled
    <3>3. c.filter.seed = f.seed /\ c.filter.size = f.size
      BY <2>2 DEF Sound, RollsBack
    <3>4. Good(i.filter, T \cup {t}) /\ i.filter.seed = c.filter.seed /\ i.filter.size = c.filter.size
      BY <1>1, <2>2, <3>1, <3>2, PlacedIsGood DEF Sound
    <3> QED BY <3>1, <3>3, <3>4
  <2>4. CASE ~Settled(c)
    <3>1. i.done = FALSE /\ i.filter = Rollback(c)
      BY <2>1, <2>4
    <3>2. Rollback(c) = f
      BY <2>2, RollbackIs DEF Sound, Carries, Good
    <3> QED BY <3>1, <3>2
  <2> QED BY <2>3, <2>4
<1> QED BY <1>3, <1>4

\* contains finds what is stored.
LEMMA StoredIsHeld ==
  ASSUME NEW f, NEW T, T \subseteq Tokens, Good(f, T), NEW t \in T
  PROVE  Holds(f, t[1])
<1>1. PICK at \in Places(f) : Fits(f, t[1], at)
  BY DEF Good, Stores
<1>2. t[1] \in Key
  BY DEF Tokens
<1>3. f.size # 0
  BY <1>2, BucketsAre DEF Good
<1>4. at[2] \in Slots /\ at = <<at[1], at[2]>>
  BY <1>1 DEF Places
<1>5. at[2] \in Matches(f, at[1], t[1])
  BY <1>1, <1>4 DEF Matches, Fits
<1> QED BY <1>1, <1>3, <1>5 DEF Holds, Fits, Buckets

\* deserialize takes back every filter.
LEMMA FilterLoads ==
  ASSUME NEW f, IsFilter(f)
  PROVE  Loads(f)
<1>1. PICK k \in Nat : f.size = Pow2[k]
  BY DEF IsFilter
<1>2. k \in 0 .. f.size
  BY <1>1, Pow2Exceeds, Pow2Positive
<1> QED BY <1>1, <1>2 DEF Loads, IsFilter

\* discard takes back one item, though the slot it clears may be the place of
\* another with the same fingerprint and buckets.
LEMMA DiscardIsGood ==
  ASSUME NEW f, NEW T, T \subseteq Tokens, Good(f, T), NEW t \in T
  PROVE  Good(Discard(f, t[1]), T \ {t})
<1> DEFINE key == t[1]
           fp == Fingerprint(f, key)
<1>1. key \in Key
  BY DEF Tokens
<1>2. PICK p \in [T -> Places(f)] :
        /\ \A u \in T : Fits(f, u[1], p[u])
        /\ \A u, v \in T : p[u] = p[v] => u = v
  BY DEF Good, Stores
<1>3. IsFilter(f) /\ f.size # 0 /\ Buckets(f, key) \subseteq 0 .. f.size - 1 /\ fp # 0
  BY <1>1, BucketsAre DEF Good
<1> DEFINE g == Discard(f, key)
<1>4. PICK b \in Buckets(f, key) : Matches(f, b, key) # {} /\ g = Clear(f, <<b, Lowest(Matches(f, b, key))>>)
  <2>1. p[t][1] \in Buckets(f, key) /\ p[t][2] \in Slots /\ p[t] = <<p[t][1], p[t][2]>> /\ f.slots[p[t]] = fp
    BY <1>2 DEF Fits, Places
  <2>2. p[t][2] \in Matches(f, p[t][1], key)
    BY <2>1 DEF Matches
  <2> QED BY <1>3, <2>1, <2>2 DEF Discard, Buckets
<1> DEFINE at == <<b, Lowest(Matches(f, b, key))>>
<1>5. at \in Places(f) /\ at[1] = b /\ f.slots[at] = fp
  <2>1. Lowest(Matches(f, b, key)) \in Matches(f, b, key)
    <3>1. Matches(f, b, key) \subseteq Nat
      BY CuckooConfigIsValid DEF Matches, Slots
    <3> QED BY <1>4, <3>1, LowestIs
  <2> QED BY <1>3, <2>1, PlaceIs DEF Matches
<1> HIDE DEF g, at, fp, key
<1>6. g = Written(f, at, 0, f.count - 1)
  <2>1. f = [seed |-> f.seed, size |-> f.size, slots |-> f.slots, count |-> f.count]
    BY <1>3 DEF IsFilter
  <2>2. g = [f EXCEPT !.slots[at] = 0, !.count = @ - 1]
    BY <1>4 DEF Clear, at
  <2> QED BY <2>1, <2>2 DEF Written
<1>7. IsWritten(g, f, at, 0, f.count - 1)
  BY <1>3, <1>5, <1>6, WrittenIs
<1>8. IsFilter(g)
  <2>1. IsFiniteSet(Used(f)) /\ DOMAIN f.slots = Places(f)
    <3>1. f.size \in Nat /\ DOMAIN f.slots = Places(f)
      BY <1>3, Pow2Positive DEF IsFilter
    <3> QED BY <3>1, UsedIsFinite
  <2>2. at \in Used(f)
    BY <1>3, <1>5, <2>1 DEF Used
  <2>3. Cardinality(Used(f) \ {at}) = Cardinality(Used(f)) - 1
    BY <2>1, <2>2, FS_RemoveElement
  <2>4. f.count = Cardinality(Used(f))
    BY <1>3 DEF IsFilter
  <2> QED BY <1>7, <2>3, <2>4 DEF IsWritten
<1>9. /\ \A x \in Places(f) : x # at => g.slots[x] = f.slots[x]
      /\ Places(g) = Places(f)
      /\ \A k : Fingerprint(g, k) = Fingerprint(f, k) /\ Buckets(g, k) = Buckets(f, k)
  <2>1. g.seed = f.seed /\ g.size = f.size
    BY <1>7 DEF IsWritten
  <2> QED BY <1>7, <2>1, SameHashes DEF IsWritten
<1> DEFINE q == [u \in T \ {t} |-> IF p[u] = at THEN p[t] ELSE p[u]]
<1>10. q \in [T \ {t} -> Places(g)]
  BY <1>9
<1>11. ASSUME NEW u \in T \ {t} PROVE Fits(g, u[1], q[u])
  <2>1. CASE p[u] = at
    <3>1. Fits(f, u[1], at) /\ Fits(f, key, p[t]) /\ p[t] # at
      BY <1>2, <2>1 DEF key
    <3>2. Fingerprint(f, u[1]) = fp /\ b \in Buckets(f, u[1])
      BY <1>5, <3>1 DEF Fits
    <3>3. Buckets(f, u[1]) = Buckets(f, key)
      <4>1. u[1] \in Key
        BY DEF Tokens
      <4>2. Buckets(f, u[1]) = {b, Alternate(f, b, fp)}
        BY <1>3, <3>2, <4>1, BucketsAre
      <4>3. Buckets(f, key) = {b, Alternate(f, b, fp)}
        BY <1>1, <1>3, BucketsAre DEF fp
      <4> QED BY <4>2, <4>3
    <3> QED BY <1>9, <2>1, <3>1, <3>2, <3>3 DEF Fits, fp
  <2>2. CASE p[u] # at
    BY <1>2, <1>9, <2>2 DEF Fits
  <2> QED BY <2>1, <2>2
<1>12. \A u, v \in T \ {t} : q[u] = q[v] => u = v
  BY <1>2
<1> HIDE DEF q
<1>13. Stores(g, T \ {t})
  BY <1>10, <1>11, <1>12 DEF Stores
<1> QED BY <1>8, <1>13 DEF Good, g, key

\* _allocate makes an empty filter.
LEMMA AllocateIsGood ==
  ASSUME NEW seed \in Seeds, NEW capacity \in Nat, NEW growth \in Nat,
         NEW f, f = Allocate(seed, capacity, growth)
  PROVE  Good(f, {})
<1> DEFINE required == IF capacity > 1 THEN capacity ELSE 1
           perBucket == BucketSize * LoadPercent
           blocks == (required * 100 + perBucket - 1) \div perBucket
           buckets == blocks * Pow2[growth]
           size == NextPowerOfTwo(IF buckets > 2 THEN buckets ELSE 2)
<1>1. f = [seed |-> seed, size |-> size, slots |-> [at \in (0 .. size - 1) \X Slots |-> 0], count |-> 0]
  BY DEF Allocate
<1>2. perBucket \in Nat \ {0}
  BY CuckooConfigIsValid
<1>3. buckets \in Nat
  <2>1. blocks \in Nat
    <3> HIDE DEF perBucket
    <3> DEFINE x == required * 100 + perBucket - 1
    <3>1. x \in Nat
      BY <1>2
    <3> HIDE DEF x
    <3>2. x \div perBucket \in Nat
      BY <1>2, <3>1, DivBounds
    <3> QED BY <3>2 DEF x
  <2>2. Pow2[growth] \in Nat
    BY Pow2Positive
  <2> HIDE DEF blocks
  <2> QED BY <2>1, <2>2
<1> HIDE DEF buckets
<1>4. \E k \in Nat : size = Pow2[k]
  <2> DEFINE n == IF buckets > 2 THEN buckets ELSE 2
  <2>1. n \in Nat \ {0}
    BY <1>3
  <2> HIDE DEF n
  <2>2. BitCeil(n) \in Nat
    BY <2>1, BitCeilDef
  <2> QED BY <2>2 DEF NextPowerOfTwo, n
<1> HIDE DEF size
<1>5. f.seed = seed /\ f.size = size /\ f.count = 0 /\ f.slots = [at \in Places(f) |-> 0]
      /\ f = [seed |-> f.seed, size |-> f.size, slots |-> f.slots, count |-> f.count]
  BY <1>1 DEF Places
<1>6. Used(f) = {}
  BY <1>5 DEF Used
<1>7. f.slots \in [Places(f) -> {0} \cup Prints(f.seed)]
  BY <1>5
<1>8. IsFilter(f)
  BY <1>4, <1>5, <1>6, <1>7, FS_EmptySet DEF IsFilter
<1>9. Stores(f, {})
  <2>1. [t \in {} |-> 0] \in [{} -> Places(f)]
    OBVIOUS
  <2> QED BY <2>1 DEF Stores
<1> QED BY <1>8, <1>9 DEF Good

\* What a window's items ask of its filter.
ItemTokens(keys) == keys \X {0}

\* The recursion of BuildAttempt has a solution, and what an attempt builds
\* holds the keys.
LEMMA AttemptIsGood ==
  ASSUME NEW keys, keys \subseteq Key, NEW seed \in Seeds,
         NEW o \in BuildAttempt(keys, seed), NEW g \in o
  PROVE  Good(g, ItemTokens(keys))
<1> DEFINE I == 0 .. KeyCount
           first == {{Allocate(seed, CapacityOr(Cardinality(keys)), seed \div 2)}}
           With(O, k) == (O \cap {{}})
                         \cup { IF i.done THEN {i.filter} ELSE {} :
                                  i \in UNION { Insertions(f, k) : f \in UNION O } }
           Body(x, k) == IF k = 0 THEN first
                         ELSE IF k \notin keys THEN x[k - 1] ELSE With(x[k - 1], k)
           outcomes == CHOOSE x : x = [k \in I |-> Body(x, k)]
<1>1. BuildAttempt(keys, seed) = outcomes[KeyCount]
  BY DEF BuildAttempt
<1> HIDE DEF first, With
<1>2. \E x : x = [k \in I |-> Body(x, k)]
  <2> DEFINE Upto(x, n) == x = [i \in I |-> x[i]] /\ \A i \in I : i <= n => x[i] = Body(x, i)
             S == { n \in Nat : \E x : Upto(x, n) }
  <2>1. 0 \in S
    <3>1. Upto([i \in I |-> first], 0)
      OBVIOUS
    <3> HIDE DEF Upto
    <3> QED BY <3>1
  <2>2. ASSUME NEW n \in Nat, n \in S PROVE n + 1 \in S
    <3>1. PICK x : Upto(x, n)
      BY <2>2
    <3> DEFINE h == [i \in I |-> Body(x, i)]
    <3>2. \A i \in I : h[i] = Body(x, i)
      OBVIOUS
    <3>3. h = [i \in I |-> h[i]]
      OBVIOUS
    <3> HIDE DEF h
    <3>4. \A i \in I : i <= n => h[i] = x[i]
      BY <3>1, <3>2
    <3>5. ASSUME NEW i \in I, i <= n + 1 PROVE h[i] = Body(h, i)
      <4>1. i = 0 \/ (i - 1 \in I /\ i - 1 <= n)
        BY <3>5, CuckooConfigIsValid
      <4> QED BY <3>2, <3>4, <4>1
    <3>6. Upto(h, n + 1)
      BY <3>3, <3>5
    <3> HIDE DEF Upto
    <3> QED BY <3>6
  <2>3. KeyCount \in S
    <3> HIDE DEF S
    <3>1. \A n \in Nat : n \in S
      BY <2>1, <2>2, Induction
    <3> QED BY <3>1, CuckooConfigIsValid
  <2>4. PICK x : Upto(x, KeyCount)
    BY <2>3
  <2>5. \A i \in I : x[i] = Body(x, i)
    <3>1. \A i \in I : i <= KeyCount
      OBVIOUS
    <3> HIDE DEF I, Body
    <3> QED BY <2>4, <3>1
  <2>6. x = [i \in I |-> Body(x, i)]
    <3>1. x = [i \in I |-> x[i]]
      BY <2>4
    <3> HIDE DEF Body, I, Upto
    <3> QED BY <2>5, <3>1
  <2> QED BY <2>6
<1>3. outcomes = [k \in I |-> Body(outcomes, k)]
  <2> HIDE DEF Body, I
  <2> QED BY <1>2
<1> HIDE DEF outcomes
<1>4. \A k \in I : outcomes[k] = Body(outcomes, k)
  <2> HIDE DEF Body, I
  <2> QED BY <1>3
<1> DEFINE Upto(k) == keys \cap (1 .. k)
           AllGood(O, k) == \A p \in O : \A f \in p : Good(f, ItemTokens(Upto(k)))
           S == { k \in Nat : k \in I => AllGood(outcomes[k], k) }
<1>5. 0 \in S
  <2>1. outcomes[0] = first
    BY <1>4, CuckooConfigIsValid
  <2>2. Cardinality(keys) \in Nat /\ seed \div 2 \in Nat
    <3>1. IsFiniteSet(Key)
      BY FS_Interval, CuckooConfigIsValid DEF Key
    <3>2. IsFiniteSet(keys)
      BY <3>1, FS_Subset
    <3> QED BY <3>2, FS_CardinalityType DEF Seeds
  <2>3. CapacityOr(Cardinality(keys)) \in Nat
    BY <2>2, CuckooConfigIsValid DEF CapacityOr
  <2>a. Good(Allocate(seed, CapacityOr(Cardinality(keys)), seed \div 2), {})
    BY <2>2, <2>3, AllocateIsGood
  <2>4. ItemTokens(Upto(0)) = {}
    BY DEF ItemTokens
  <2> HIDE DEF Upto
  <2> QED BY <2>1, <2>a, <2>4 DEF first
<1>6. ASSUME NEW n \in Nat, n \in S PROVE n + 1 \in S
  <2> HIDE DEF AllGood, I
  <2> SUFFICES ASSUME n + 1 \in I PROVE AllGood(outcomes[n + 1], n + 1)
    OBVIOUS
  <2> USE DEF AllGood, I
  <2> DEFINE k == n + 1
  <2>1. n \in I /\ (k - 1 = n) /\ k # 0 /\ k \in Key
    BY CuckooConfigIsValid DEF Key
  <2>2. AllGood(outcomes[n], n)
    BY <1>6, <2>1
  <2>3. CASE k \notin keys
    <3>1. Upto(k) = Upto(n)
      BY <2>3
    <3>2. outcomes[k] = outcomes[n]
      BY <1>4, <2>1, <2>3
    <3> HIDE DEF Upto, k
    <3>3. AllGood(outcomes[k], k)
      BY <2>2, <3>1, <3>2
    <3> QED BY <3>3 DEF k
  <2>4. CASE k \in keys
    <3>1. ItemTokens(Upto(k)) = ItemTokens(Upto(n)) \cup {<<k, 0>>} /\ <<k, 0>> \notin ItemTokens(Upto(n))
      <4>1. Upto(k) = Upto(n) \cup {k} /\ k \notin Upto(n)
        BY <2>4
      <4> HIDE DEF Upto, k
      <4> QED BY <4>1 DEF ItemTokens
    <3>2. outcomes[k] = With(outcomes[n], k)
      BY <1>4, <2>1, <2>4
    <3>3. ItemTokens(Upto(n)) \subseteq Tokens /\ <<k, 0>> \in Tokens /\ <<k, 0>>[1] = k
      BY <2>1 DEF ItemTokens, Tokens
    <3> HIDE DEF Upto, k
    <3>4. ASSUME NEW p \in outcomes[k], NEW f \in p PROVE Good(f, ItemTokens(Upto(k)))
      <4>1. PICK i \in UNION { Insertions(h, k) : h \in UNION outcomes[n] } : p = IF i.done THEN {i.filter} ELSE {}
        BY <3>2, <3>4 DEF With
      <4>2. PICK h \in UNION outcomes[n] : i \in Insertions(h, k)
        BY <4>1
      <4>3. Good(h, ItemTokens(Upto(n)))
        BY <2>2, <4>2
      <4>4. i.done /\ f = i.filter
        BY <3>4, <4>1
      <4> DEFINE t == <<k, 0>>
                 T == ItemTokens(Upto(n))
      <4>5. T \subseteq Tokens /\ t \in Tokens /\ t \notin T /\ Good(h, T) /\ i \in Insertions(h, t[1])
        BY <3>1, <3>3, <4>2, <4>3
      <4>6. ItemTokens(Upto(k)) = T \cup {t}
        BY <3>1
      <4> HIDE DEF t, T
      <4>7. Good(i.filter, T \cup {t})
        BY <4>4, <4>5, InsertionsAre
      <4> QED BY <4>4, <4>6, <4>7
    <3> QED BY <3>4 DEF k
  <2> QED BY <2>3, <2>4
<1>7. AllGood(outcomes[KeyCount], KeyCount)
  <2> HIDE DEF S
  <2>1. \A n \in Nat : n \in S
    BY <1>5, <1>6, Induction
  <2>2. KeyCount \in Nat /\ KeyCount \in I
    BY CuckooConfigIsValid
  <2> HIDE DEF I, AllGood
  <2> QED BY <2>1, <2>2 DEF S
<1>8. Upto(KeyCount) = keys
  BY CuckooConfigIsValid DEF Key
<1> HIDE DEF Upto
<1> QED BY <1>1, <1>7, <1>8

\* build.
LEMMA BuildsAreGood ==
  ASSUME NEW keys, keys \subseteq Key, NEW f \in Builds(keys)
  PROVE  Good(f, ItemTokens(keys))
<1>1. PICK seed \in Seeds : \E o \in BuildAttempt(keys, seed) : f \in o
  BY DEF Builds
<1> QED BY <1>1, AttemptIsGood

ExtraTokens(bag) == { t \in Tokens : t[2] \in 1 .. bag[t[1]] }

WindowTokens(keys, bag) == ItemTokens(keys) \cup ExtraTokens(bag)

\* Every filter stores the items of its window and what was added since.
FiltersStore ==
  /\ DOMAIN digests = DOMAIN filters /\ DOMAIN extras = DOMAIN filters
  /\ DOMAIN items = active /\ \A n \in active : items[n] \subseteq Key
  /\ \A w \in DOMAIN filters :
       /\ digests[w] = WindowItems(w, items)
       /\ extras[w] \in [Key -> Nat]
       /\ Good(filters[w], WindowTokens(digests[w], extras[w]))

\* The windows are those of consecutive active landmarks.
WindowsFit(windows, numbers) ==
  /\ \A w \in windows : w.start <= w.end /\ w.start .. w.end \subseteq numbers
  /\ numbers \subseteq UNION { w.start .. w.end : w \in windows }
  /\ numbers # {} => \E first, last \in numbers : numbers = first .. last

FilterInv == FiltersStore /\ WindowsFit(DOMAIN filters, active)

LEMMA WindowItemsAreKeys ==
  ASSUME NEW given, \A n \in DOMAIN given : given[n] \subseteq Key, NEW w
  PROVE  WindowItems(w, given) \subseteq Key
BY DEF WindowItems

LEMMA TokensAre ==
  ASSUME NEW keys, keys \subseteq Key, NEW bag \in [Key -> Nat]
  PROVE  /\ WindowTokens(keys, bag) \subseteq Tokens
         /\ \A key \in keys : <<key, 0>> \in WindowTokens(keys, bag)
         /\ \A key \in Key : bag[key] > 0 => <<key, bag[key]>> \in WindowTokens(keys, bag)
         /\ WindowTokens(keys, NoExtras) = ItemTokens(keys)
<1>1. WindowTokens(keys, bag) \subseteq Tokens
  BY DEF WindowTokens, ItemTokens, ExtraTokens, Tokens
<1>2. ASSUME NEW key \in keys PROVE <<key, 0>> \in WindowTokens(keys, bag)
  BY DEF WindowTokens, ItemTokens
<1>3. ASSUME NEW key \in Key, bag[key] > 0 PROVE <<key, bag[key]>> \in WindowTokens(keys, bag)
  <2>1. bag[key] \in Nat
    OBVIOUS
  <2>2. <<key, bag[key]>> \in Tokens /\ <<key, bag[key]>>[1] = key /\ <<key, bag[key]>>[2] = bag[key]
    BY <2>1 DEF Tokens
  <2>3. bag[key] \in 1 .. bag[key]
    BY <1>3, <2>1
  <2> QED BY <2>2, <2>3 DEF WindowTokens, ExtraTokens
<1>4. ExtraTokens(NoExtras) = {}
  <2> SUFFICES ASSUME NEW t \in Tokens, t[2] \in 1 .. NoExtras[t[1]] PROVE FALSE
    BY DEF ExtraTokens
  <2>1. NoExtras[t[1]] = 0
    BY DEF NoExtras, Tokens
  <2> QED BY <2>1
<1> QED BY <1>1, <1>2, <1>3, <1>4 DEF WindowTokens

\* One more, or one less.
LEMMA OneMoreExtra ==
  ASSUME NEW keys, NEW bag \in [Key -> Nat], NEW key \in Key,
         NEW more, more = [bag EXCEPT ![key] = @ + 1], NEW t, t = <<key, bag[key] + 1>>
  PROVE  /\ more \in [Key -> Nat]
         /\ t \in Tokens /\ t[1] = key
         /\ t \notin WindowTokens(keys, bag)
         /\ WindowTokens(keys, more) = WindowTokens(keys, bag) \cup {t}
<1>1. bag[key] \in Nat
  OBVIOUS
<1>2. more \in [Key -> Nat] /\ more[key] = bag[key] + 1 /\ \A k \in Key : k # key => more[k] = bag[k]
  OBVIOUS
<1>3. t \in Tokens /\ t[1] = key /\ t[2] = bag[key] + 1
  BY <1>1 DEF Tokens
<1>4. t \notin ItemTokens(keys) /\ t \notin ExtraTokens(bag)
  BY <1>1, <1>3 DEF ItemTokens, ExtraTokens
<1>5. ASSUME NEW u \in Tokens
      PROVE  u[2] \in 1 .. more[u[1]] <=> u[2] \in 1 .. bag[u[1]] \/ u = t
  <2>1. u[1] \in Key /\ u[2] \in Nat /\ u = <<u[1], u[2]>>
    BY DEF Tokens
  <2>2. CASE u[1] = key
    <3>1. u = t <=> u[2] = bag[key] + 1
      BY <2>1, <2>2
    <3> QED BY <1>1, <1>2, <2>1, <2>2, <3>1
  <2>3. CASE u[1] # key
    BY <1>2, <1>3, <2>1, <2>3
  <2> QED BY <2>2, <2>3
<1>6. ExtraTokens(more) = ExtraTokens(bag) \cup {t}
  BY <1>3, <1>5 DEF ExtraTokens
<1> QED BY <1>2, <1>3, <1>4, <1>6 DEF WindowTokens

LEMMA OneLessExtra ==
  ASSUME NEW keys, NEW bag \in [Key -> Nat], NEW key \in Key, bag[key] > 0,
         NEW less, less = [bag EXCEPT ![key] = @ - 1], NEW t, t = <<key, bag[key]>>
  PROVE  /\ less \in [Key -> Nat]
         /\ t \in WindowTokens(keys, bag) /\ t[1] = key
         /\ WindowTokens(keys, less) = WindowTokens(keys, bag) \ {t}
<1>1. bag[key] \in Nat /\ bag[key] - 1 \in Nat
  OBVIOUS
<1>2. less \in [Key -> Nat]
  BY <1>1
<1>3. bag = [less EXCEPT ![key] = @ + 1] /\ less[key] + 1 = bag[key]
  <2>1. less[key] = bag[key] - 1 /\ \A k \in Key : k # key => less[k] = bag[k]
    BY <1>1
  <2>2. less[key] + 1 = bag[key]
    BY <1>1, <2>1
  <2> DEFINE again == [less EXCEPT ![key] = less[key] + 1]
  <2>3. again \in [Key -> Nat] /\ \A k \in Key : again[k] = bag[k]
    BY <1>1, <1>2, <2>1, <2>2
  <2>4. again = bag
    <3>1. bag = [k \in Key |-> bag[k]]
      OBVIOUS
    <3>2. again = [k \in Key |-> again[k]]
      OBVIOUS
    <3> HIDE DEF again
    <3> QED BY <2>3, <3>1, <3>2, Zenon
  <2> QED BY <2>2, <2>4
<1>4. /\ t[1] = key
      /\ t \notin WindowTokens(keys, less)
      /\ WindowTokens(keys, bag) = WindowTokens(keys, less) \cup {t}
  BY <1>2, <1>3, OneMoreExtra
<1> QED BY <1>2, <1>4

\* What the invariant says of the properties.
LEMMA FilterInvImplies ==
  ASSUME FilterInv
  PROVE  NoFalseNegatives /\ PersistedStateLoads
<1>1. ASSUME NEW w \in DOMAIN filters
      PROVE  /\ \A key \in digests[w] : Holds(filters[w], key)
             /\ \A key \in Key : extras[w][key] > 0 => Holds(filters[w], key)
             /\ Loads(filters[w])
  <2> DEFINE T == WindowTokens(digests[w], extras[w])
  <2>1. digests[w] \subseteq Key /\ extras[w] \in [Key -> Nat]
    BY WindowItemsAreKeys DEF FilterInv, FiltersStore
  <2>2. Good(filters[w], T)
    BY DEF FilterInv, FiltersStore
  <2>3. /\ T \subseteq Tokens
        /\ \A key \in digests[w] : <<key, 0>> \in T
        /\ \A key \in Key : extras[w][key] > 0 => <<key, extras[w][key]>> \in T
    BY <2>1, TokensAre
  <2> HIDE DEF T
  <2>4. \A t \in T : Holds(filters[w], t[1])
    BY <2>2, <2>3, StoredIsHeld
  <2>5. Loads(filters[w])
    BY <2>2, FilterLoads DEF Good
  <2> QED BY <2>3, <2>4, <2>5
<1>2. ASSUME NEW n \in active, NEW w \in DOMAIN filters, Covers(w, n), NEW key \in items[n]
      PROVE  Holds(filters[w], key)
  <2>1. key \in digests[w]
    BY <1>2 DEF FilterInv, FiltersStore, WindowItems
  <2> QED BY <1>1, <2>1
<1>3. ASSUME NEW n \in active PROVE \E w \in DOMAIN filters : Covers(w, n)
  <2>1. PICK w \in DOMAIN filters : n \in w.start .. w.end
    BY DEF FilterInv, WindowsFit
  <2> QED BY <2>1 DEF Covers
<1>4. NoFalseNegatives
  BY <1>1, <1>2, <1>3 DEF NoFalseNegatives, MayContain, MayContainAt
<1>5. PersistedStateLoads
  BY <1>1 DEF PersistedStateLoads, FilterInv, WindowsFit
<1> QED BY <1>4, <1>5

\* The windows that plan_landmark_window plans.
LEMMA PlanFits ==
  ASSUME NEW latest \in Nat \ {0}
  PROVE  /\ PlannedActive(latest) # {}
         /\ WindowsFit(PlannedWindows(PlannedActive(latest)), PlannedActive(latest))
<1> DEFINE limit == IF MaxActive < ActiveLandmarks THEN MaxActive ELSE ActiveLandmarks
           first == IF latest > limit THEN latest - limit + 1 ELSE 1
           count == latest - first + 1
           numbers == PlannedActive(latest)
           windows == PlannedWindows(numbers)
<1>1. /\ Stride \in Nat \ {0} /\ LandmarksPerFilter \in Nat /\ Stride <= LandmarksPerFilter
      /\ limit \in Nat \ {0}
  BY PolicyIsValid
<1>2. numbers = first .. latest
  BY DEF PlannedActive, LastOf
<1> HIDE DEF limit
<1>3. first \in Nat \ {0} /\ first <= latest
  BY <1>1
<1> HIDE DEF first, numbers
<1>4. count \in Nat \ {0} /\ Cardinality(numbers) = count
  BY <1>2, <1>3, FS_Interval
<1>5. (CHOOSE n \in numbers : \A m \in numbers : n <= m) = first
  BY <1>2, <1>3
<1>6. windows = { Window(first + p.start - 1, first + p.end - 1) : p \in PositionWindows(count) }
  BY <1>4, <1>5 DEF PlannedWindows
<1> DEFINE last(s) == IF s + LandmarksPerFilter - 1 < count THEN s + LandmarksPerFilter - 1 ELSE count
<1>7. PositionWindows(count) = { Window(s, last(s)) : s \in { x \in 1 .. count : (x - 1) % Stride = 0 } }
  BY DEF PositionWindows
<1>8. ASSUME NEW s \in 1 .. count PROVE s <= last(s) /\ last(s) \in 1 .. count
  BY <1>1, <1>4
<1>9. ASSUME NEW w \in windows PROVE w.start <= w.end /\ w.start .. w.end \subseteq numbers
  <2>1. PICK s \in 1 .. count : w = Window(first + s - 1, first + last(s) - 1)
    BY <1>6, <1>7 DEF Window
  <2>2. w.start = first + s - 1 /\ w.end = first + last(s) - 1
    BY <2>1 DEF Window
  <2> QED BY <1>2, <1>3, <1>8, <2>2
<1>10. ASSUME NEW n \in numbers PROVE \E w \in windows : n \in w.start .. w.end
  <2> DEFINE x == n - first + 1
             r == (x - 1) % Stride
             s == x - r
  <2>1. x \in 1 .. count
    BY <1>2, <1>3
  <2>2. r \in 0 .. Stride - 1 /\ r <= x - 1 /\ (s - 1) % Stride = 0
    <3>1. x - 1 \in Nat
      BY <2>1
    <3> DEFINE y == x - 1
               q == y \div Stride
    <3>2. y \in Nat
      BY <3>1
    <3> HIDE DEF y
    <3>3. q \in Nat /\ Stride * q <= y /\ y < Stride * q + Stride /\ y % Stride = y - Stride * q
      BY <1>1, <3>2, DivBounds
    <3> HIDE DEF q
    <3>4. Stride * q \in Nat
      BY <1>1, <3>3
    <3>5. (Stride * q) % Stride = 0
      <4>1. Stride * q <= Stride * q /\ Stride * q < Stride * q + Stride
        BY <1>1, <3>4
      <4>2. (Stride * q) % Stride = Stride * q - Stride * q
        BY <1>1, <3>3, <3>4, <4>1, DivUnique
      <4> QED BY <3>4, <4>2
    <3>6. r = y - Stride * q /\ s - 1 = Stride * q
      <4>1. r = y % Stride
        BY DEF y
      <4>2. x = y + 1
        BY <2>1 DEF y
      <4> HIDE DEF r, x
      <4> QED BY <3>2, <3>3, <3>4, <4>1, <4>2
    <3>7. r \in 0 .. Stride - 1 /\ r <= x - 1
      <4>1. x - 1 = y
        BY DEF y
      <4> HIDE DEF r, x
      <4> QED BY <1>1, <3>2, <3>3, <3>4, <3>6, <4>1
    <3> QED BY <3>5, <3>6, <3>7
  <2> HIDE DEF r
  <2>3. s \in 1 .. count /\ s <= x /\ x <= s + LandmarksPerFilter - 1
    BY <1>1, <1>4, <2>1, <2>2
  <2>4. x <= last(s)
    BY <1>4, <2>1, <2>3
  <2> DEFINE w == Window(first + s - 1, first + last(s) - 1)
  <2>5. w \in windows
    <3>1. Window(s, last(s)) \in PositionWindows(count)
      BY <1>7, <2>2, <2>3
    <3>2. Window(s, last(s)).start = s /\ Window(s, last(s)).end = last(s)
      BY DEF Window
    <3> HIDE DEF last, s
    <3> QED BY <1>6, <3>1, <3>2
  <2>6. w.start = first + s - 1 /\ w.end = first + last(s) - 1
    BY DEF Window
  <2>7. last(s) \in 1 .. count
    BY <1>8, <2>3
  <2>8. n = first + x - 1
    BY <1>2, <1>3
  <2> HIDE DEF last, s, w, x
  <2>9. n \in w.start .. w.end
    BY <1>3, <1>4, <2>1, <2>3, <2>4, <2>6, <2>7, <2>8
  <2> QED BY <2>5, <2>9
<1>11. numbers # {} /\ \E a, b \in numbers : numbers = a .. b
  <2>1. first \in numbers /\ latest \in numbers
    BY <1>2, <1>3
  <2> QED BY <1>2, <2>1
<1> HIDE DEF windows
<1>12. WindowsFit(windows, numbers)
  <2>1. numbers \subseteq UNION { w.start .. w.end : w \in windows }
    BY <1>10
  <2> QED BY <1>9, <1>11, <2>1 DEF WindowsFit
<1> QED BY <1>11, <1>12 DEF numbers, windows

LEMMA InitFilterInv ==
  ASSUME Init
  PROVE  FilterInv
<1>1. active = {} /\ DOMAIN filters = {} /\ DOMAIN digests = {} /\ DOMAIN extras = {} /\ DOMAIN items = {}
  BY DEF Init
<1> QED BY <1>1 DEF FilterInv, FiltersStore, WindowsFit

LEMMA ApplyKeepsInv ==
  ASSUME FilterInv, ApplyPlan
  PROVE  FilterInv'
<1>1. PICK latest \in 1 .. MaxLandmark : Apply(latest)
  BY DEF ApplyPlan
<1> DEFINE numbers == PlannedActive(latest)
           windows == PlannedWindows(numbers)
           choices(given) == [w \in windows |-> IF Reusable(w, given) THEN {filters[w]}
                                                ELSE Builds(WindowItems(w, given))]
<1>2. PICK given \in [numbers -> ItemSets] :
        /\ filters' \in { f \in [windows -> UNION { choices(given)[w] : w \in windows }] :
                            \A w \in windows : f[w] \in choices(given)[w] }
        /\ digests' = [w \in windows |-> WindowItems(w, given)]
        /\ active' = numbers
        /\ items' = given
        /\ extras' = [w \in windows |-> IF Reusable(w, given) THEN extras[w] ELSE NoExtras]
  BY <1>1 DEF Apply
<1>3. WindowsFit(windows, numbers)
  <2>1. latest \in Nat \ {0}
    BY PolicyIsValid
  <2> QED BY <2>1, PlanFits
<1>4. DOMAIN given = numbers /\ \A n \in numbers : given[n] \subseteq Key
  BY ItemsAreKeys
<1>5. DOMAIN filters' = windows /\ \A w \in windows : filters'[w] \in choices(given)[w]
  BY <1>2
<1> HIDE DEF windows, numbers
<1>6. ASSUME NEW w \in windows
      PROVE  /\ digests'[w] = WindowItems(w, given)
             /\ extras'[w] \in [Key -> Nat]
             /\ Good(filters'[w], WindowTokens(digests'[w], extras'[w]))
  <2>1. digests'[w] = WindowItems(w, given) /\ WindowItems(w, given) \subseteq Key
    BY <1>2, <1>4, WindowItemsAreKeys
  <2>2. CASE Reusable(w, given)
    <3>1. filters'[w] = filters[w] /\ extras'[w] = extras[w]
      BY <1>2, <1>5, <2>2
    <3>2. w \in DOMAIN filters /\ digests[w] = WindowItems(w, given)
      BY <2>2 DEF Reusable
    <3> QED BY <2>1, <3>1, <3>2 DEF FilterInv, FiltersStore
  <2>3. CASE ~Reusable(w, given)
    <3>1. filters'[w] \in Builds(WindowItems(w, given)) /\ extras'[w] = NoExtras
      BY <1>2, <1>5, <2>3
    <3>2. Good(filters'[w], ItemTokens(WindowItems(w, given)))
      BY <2>1, <3>1, BuildsAreGood
    <3>3. NoExtras \in [Key -> Nat]
      BY DEF NoExtras
    <3> QED BY <2>1, <3>1, <3>2, <3>3, TokensAre
  <2> QED BY <2>2, <2>3
<1>7. FiltersStore'
  <2>1. DOMAIN digests' = DOMAIN filters' /\ DOMAIN extras' = DOMAIN filters'
    BY <1>2, <1>5
  <2>2. DOMAIN items' = active' /\ \A n \in active' : items'[n] \subseteq Key
    BY <1>2, <1>4
  <2>3. \A w : WindowItems(w, items)' = WindowItems(w, given)
    BY <1>2 DEF WindowItems
  <2>4. \A w \in DOMAIN filters' :
          /\ digests'[w] = WindowItems(w, items)'
          /\ extras'[w] \in [Key -> Nat]
          /\ Good(filters'[w], WindowTokens(digests'[w], extras'[w]))
    BY <1>5, <1>6, <2>3
  <2> QED BY <2>1, <2>2, <2>4 DEF FiltersStore
<1>8. WindowsFit(DOMAIN filters', active')
  BY <1>2, <1>3, <1>5
<1> QED BY <1>7, <1>8 DEF FilterInv

LEMMA AddKeepsInv ==
  ASSUME FilterInv, NEW w \in DOMAIN filters, NEW key \in Key, AddExtra(w, key)
  PROVE  /\ FilterInv'
         /\ extras' = extras => filters'[w] = filters[w]
<1>1. PICK insertion \in Additions(filters[w], key) :
        /\ filters' = [filters EXCEPT ![w] = insertion.filter]
        /\ extras' = IF insertion.done THEN [extras EXCEPT ![w][key] = @ + 1] ELSE extras
  BY DEF AddExtra
<1>2. UNCHANGED <<active, digests, items>>
  BY DEF AddExtra
<1> DEFINE T == WindowTokens(digests[w], extras[w])
           t == <<key, extras[w][key] + 1>>
           more == [extras[w] EXCEPT ![key] = @ + 1]
<1>3. /\ digests[w] \subseteq Key /\ extras[w] \in [Key -> Nat]
      /\ Good(filters[w], T)
  BY WindowItemsAreKeys DEF FilterInv, FiltersStore
<1>4. /\ more \in [Key -> Nat]
      /\ t \in Tokens /\ t[1] = key /\ t \notin T
      /\ WindowTokens(digests[w], more) = T \cup {t}
  BY <1>3, OneMoreExtra
<1>5. T \subseteq Tokens
  BY <1>3, TokensAre
<1>6. insertion \in Insertions(filters[w], key) \/ insertion = [done |-> FALSE, filter |-> filters[w]]
  <2>1. filters[w].size # 0
    BY <1>3, BucketsAre DEF Good
  <2> QED BY <1>1, <2>1 DEF Additions
<1> HIDE DEF T, t
<1>7. /\ insertion.done \in BOOLEAN
      /\ insertion.done => Good(insertion.filter, T \cup {t})
      /\ ~insertion.done => insertion.filter = filters[w]
  <2> DEFINE f == filters[w]
  <2>1. Good(f, T)
    BY <1>3
  <2>a. insertion \in Insertions(f, t[1]) \/ insertion = [done |-> FALSE, filter |-> f]
    BY <1>4, <1>6
  <2> HIDE DEF f
  <2>b. CASE insertion = [done |-> FALSE, filter |-> f]
    BY <2>b DEF f
  <2>2. CASE insertion \in Insertions(f, t[1])
    <3>1. /\ insertion.done \in BOOLEAN
          /\ insertion.done => Good(insertion.filter, T \cup {t})
          /\ ~insertion.done => insertion.filter = f
      BY <1>4, <1>5, <2>1, <2>2, InsertionsAre
    <3> QED BY <3>1 DEF f
  <2> QED BY <2>a, <2>b, <2>2
<1>8. w \in DOMAIN extras /\ DOMAIN filters' = DOMAIN filters /\ DOMAIN extras' = DOMAIN extras
  BY <1>1 DEF FilterInv, FiltersStore
<1>9. /\ filters'[w] = insertion.filter
      /\ \A v \in DOMAIN filters : v # w => filters'[v] = filters[v] /\ extras'[v] = extras[v]
      /\ extras'[w] = IF insertion.done THEN more ELSE extras[w]
  BY <1>1, <1>8 DEF FilterInv, FiltersStore
<1> HIDE DEF more
<1>10. ASSUME NEW v \in DOMAIN filters
       PROVE  extras'[v] \in [Key -> Nat] /\ Good(filters'[v], WindowTokens(digests[v], extras'[v]))
  <2>1. CASE v # w
    BY <1>9, <2>1 DEF FilterInv, FiltersStore
  <2>2. CASE v = w /\ insertion.done
    BY <1>4, <1>7, <1>9, <2>2
  <2>3. CASE v = w /\ ~insertion.done
    BY <1>3, <1>7, <1>9, <2>3 DEF T
  <2> QED BY <1>7, <2>1, <2>2, <2>3
<1>11. \A v : WindowItems(v, items)' = WindowItems(v, items)
  BY <1>2 DEF WindowItems
<1>12. FiltersStore'
  BY <1>2, <1>8, <1>10, <1>11 DEF FilterInv, FiltersStore
<1>13. WindowsFit(DOMAIN filters', active')
  BY <1>2, <1>8 DEF FilterInv
<1>14. ASSUME extras' = extras PROVE filters'[w] = filters[w]
  <2>1. ~insertion.done
    <3>1. extras[w][key] \in Nat /\ more[key] = extras[w][key] + 1
      BY <1>3 DEF more
    <3> QED BY <1>7, <1>9, <1>14, <3>1
  <2> QED BY <1>7, <1>9, <2>1
<1> QED BY <1>12, <1>13, <1>14 DEF FilterInv

LEMMA DiscardKeepsInv ==
  ASSUME FilterInv, NEW w \in DOMAIN filters, NEW key \in Key, DiscardExtra(w, key)
  PROVE  FilterInv' /\ extras' # extras
<1>1. /\ extras[w][key] > 0
      /\ filters' = [filters EXCEPT ![w] = Discard(@, key)]
      /\ extras' = [extras EXCEPT ![w][key] = @ - 1]
      /\ UNCHANGED <<active, digests, items>>
  BY DEF DiscardExtra
<1> DEFINE T == WindowTokens(digests[w], extras[w])
           t == <<key, extras[w][key]>>
           less == [extras[w] EXCEPT ![key] = @ - 1]
<1>2. /\ digests[w] \subseteq Key /\ extras[w] \in [Key -> Nat]
      /\ Good(filters[w], T)
  BY WindowItemsAreKeys DEF FilterInv, FiltersStore
<1>3. /\ less \in [Key -> Nat]
      /\ t \in T /\ t[1] = key
      /\ WindowTokens(digests[w], less) = T \ {t}
  BY <1>1, <1>2, OneLessExtra
<1>4. T \subseteq Tokens
  BY <1>2, TokensAre
<1> HIDE DEF T, t
<1>5. Good(Discard(filters[w], key), T \ {t})
  BY <1>2, <1>3, <1>4, DiscardIsGood
<1>6. w \in DOMAIN extras /\ DOMAIN filters' = DOMAIN filters /\ DOMAIN extras' = DOMAIN extras
  BY <1>1 DEF FilterInv, FiltersStore
<1>7. /\ filters'[w] = Discard(filters[w], key)
      /\ \A v \in DOMAIN filters : v # w => filters'[v] = filters[v] /\ extras'[v] = extras[v]
      /\ extras'[w] = less
  BY <1>1, <1>6 DEF FilterInv, FiltersStore
<1> HIDE DEF less
<1>8. ASSUME NEW v \in DOMAIN filters
      PROVE  extras'[v] \in [Key -> Nat] /\ Good(filters'[v], WindowTokens(digests[v], extras'[v]))
  <2>1. CASE v # w
    BY <1>7, <2>1 DEF FilterInv, FiltersStore
  <2>2. CASE v = w
    BY <1>3, <1>5, <1>7, <2>2
  <2> QED BY <2>1, <2>2
<1>9. \A v : WindowItems(v, items)' = WindowItems(v, items)
  BY <1>1 DEF WindowItems
<1>10. FiltersStore'
  BY <1>1, <1>6, <1>8, <1>9 DEF FilterInv, FiltersStore
<1>11. WindowsFit(DOMAIN filters', active')
  BY <1>1, <1>6 DEF FilterInv
<1>12. extras' # extras
  <2>1. extras[w][key] \in Nat /\ less[key] = extras[w][key] - 1
    BY <1>2 DEF less
  <2> QED BY <1>7, <2>1
<1> QED BY <1>10, <1>11, <1>12 DEF FilterInv

LEMMA NextKeepsFilterInv ==
  ASSUME FilterInv, [Next]_vars
  PROVE  FilterInv'
<1>1. CASE ApplyPlan
  BY <1>1, ApplyKeepsInv
<1>2. CASE \E w \in DOMAIN filters, key \in Key : AddExtra(w, key)
  BY <1>2, AddKeepsInv
<1>3. CASE \E w \in DOMAIN filters, key \in Key : DiscardExtra(w, key)
  BY <1>3, DiscardKeepsInv
<1>4. CASE UNCHANGED vars
  <2>1. UNCHANGED <<active, filters, digests, items, extras>>
    BY <1>4 DEF vars
  <2> QED BY <2>1 DEF FilterInv, FiltersStore, WindowsFit, WindowItems
<1> QED BY <1>1, <1>2, <1>3, <1>4 DEF Next

THEOREM FilterInvHolds == Spec => []FilterInv
<1>1. Init => FilterInv
  BY InitFilterInv
<1>2. FilterInv /\ [Next]_vars => FilterInv'
  BY NextKeepsFilterInv
<1> QED BY <1>1, <1>2, PTL DEF Spec

THEOREM ItemsAreFound == Spec => []NoFalseNegatives
<1>1. FilterInv => NoFalseNegatives
  BY FilterInvImplies
<1> QED BY <1>1, FilterInvHolds, PTL

THEOREM FiltersLoad == Spec => []PersistedStateLoads
<1>1. FilterInv => PersistedStateLoads
  BY FilterInvImplies
<1> QED BY <1>1, FilterInvHolds, PTL

LEMMA StepKeepsFilters ==
  ASSUME FilterInv, [Next]_vars, digests' = digests, extras' = extras, items' = items,
         NEW w \in DOMAIN filters \cap DOMAIN filters'
  PROVE  filters'[w] = filters[w]
<1>1. CASE ApplyPlan
  <2>1. PICK latest \in 1 .. MaxLandmark : Apply(latest)
    BY <1>1 DEF ApplyPlan
  <2> DEFINE windows == PlannedWindows(PlannedActive(latest))
             choices(given) == [v \in windows |-> IF Reusable(v, given) THEN {filters[v]}
                                                  ELSE Builds(WindowItems(v, given))]
  <2>2. PICK given \in [PlannedActive(latest) -> ItemSets] :
          /\ filters' \in { f \in [windows -> UNION { choices(given)[v] : v \in windows }] :
                              \A v \in windows : f[v] \in choices(given)[v] }
          /\ digests' = [v \in windows |-> WindowItems(v, given)]
    BY <2>1 DEF Apply
  <2>3. w \in windows /\ filters'[w] \in choices(given)[w]
    BY <2>2
  <2> HIDE DEF windows
  <2>4. Reusable(w, given)
    BY <2>2, <2>3 DEF Reusable
  <2> QED BY <2>3, <2>4
<1>2. ASSUME NEW v \in DOMAIN filters, NEW key \in Key, AddExtra(v, key)
      PROVE  filters'[w] = filters[w]
  <2>1. filters'[v] = filters[v]
    BY <1>2, AddKeepsInv
  <2>2. v # w => filters'[w] = filters[w]
    BY <1>2 DEF AddExtra
  <2> QED BY <2>1, <2>2
<1>3. ASSUME NEW v \in DOMAIN filters, NEW key \in Key, DiscardExtra(v, key)
      PROVE  FALSE
  BY <1>3, DiscardKeepsInv
<1>4. CASE UNCHANGED vars
  BY <1>4 DEF vars
<1> QED BY <1>1, <1>2, <1>3, <1>4 DEF Next

THEOREM FailedInsertionsChangeNothing == Spec => FailedInsertionChangesNothing
<1> DEFINE Kept == \A w \in DOMAIN filters \cap DOMAIN filters' :
                     digests' = digests /\ extras' = extras /\ items' = items =>
                        filters'[w].count = filters[w].count /\
                        \A key \in Key : Holds(filters'[w], key) <=> Holds(filters[w], key)
<1>1. ASSUME FilterInv, [Next]_vars PROVE [Kept]_vars
  <2> SUFFICES ASSUME NEW w \in DOMAIN filters \cap DOMAIN filters',
                      digests' = digests, extras' = extras, items' = items
               PROVE  /\ filters'[w].count = filters[w].count
                      /\ \A key \in Key : Holds(filters'[w], key) <=> Holds(filters[w], key)
    OBVIOUS
  <2>1. filters'[w] = filters[w]
    BY <1>1, StepKeepsFilters
  <2> QED BY <2>1
<1>2. FilterInv /\ [Next]_vars => [Kept]_vars
  BY <1>1
<1> HIDE DEF Kept
<1>3. Spec => [][Kept]_vars
  BY <1>2, FilterInvHolds, PTL DEF Spec
<1>4. FailedInsertionChangesNothing <=> [][Kept]_vars
  BY DEF FailedInsertionChangesNothing, Kept
<1> QED BY <1>3, <1>4
=============================================================================

------------------------------ MODULE DataLemmas ------------------------------
(***************************************************************************)
(* Facts about the data of the models that the proofs rest on: prefixes    *)
(* of sequences, powers of two, divisions by them, the hash of the entries *)
(* of a tree, whose recursive definition is shown to have a solution and   *)
(* to determine the entries, and what the operations of a tree keep and    *)
(* compute: append_leaf_hash, nodes_for_tree_size, root_at, the hashes of  *)
(* subtrees and the proofs, which the verifiers accept; and the cover of   *)
(* an interval.                                                            *)
(*                                                                         *)
(* Induction is used in the form "a set with 0 and closed under + 1 holds  *)
(* every number", which needs no operator as a parameter.                  *)
(***************************************************************************)
EXTENDS MerkleTree, SequenceTheorems, WellFoundedInduction, TLAPS

-----------------------------------------------------------------------------
(* Prefixes of sequences *)

\* IsPrefix position by position, the form the other lemmas use.
LEMMA PrefixChar ==
  ASSUME NEW E, NEW s \in Seq(E), NEW t \in Seq(E)
  PROVE  IsPrefix(s, t) <=> /\ Len(s) <= Len(t)
                            /\ \A i \in 1 .. Len(s) : s[i] = t[i]
BY DEF IsPrefix

\* IsPrefix is reflexive.
LEMMA PrefixReflexive ==
  ASSUME NEW E, NEW s \in Seq(E)
  PROVE  IsPrefix(s, s)
BY PrefixChar

\* IsPrefix is transitive.
LEMMA PrefixTransitive ==
  ASSUME NEW E, NEW s \in Seq(E), NEW t \in Seq(E), NEW u \in Seq(E),
         IsPrefix(s, t), IsPrefix(t, u)
  PROVE  IsPrefix(s, u)
BY PrefixChar

\* A prefix that is not shorter is the whole sequence.
LEMMA PrefixOfSameLength ==
  ASSUME NEW E, NEW s \in Seq(E), NEW t \in Seq(E),
         IsPrefix(s, t), Len(s) >= Len(t)
  PROVE  s = t
BY PrefixChar, SeqEqual

\* The empty sequence is a prefix of every other.
LEMMA EmptyIsPrefix ==
  ASSUME NEW E, NEW s \in Seq(E)
  PROVE  <<>> \in Seq(E) /\ IsPrefix(<<>>, s)
<1>1. <<>> \in Seq(E) /\ Len(<<>>) = 0
  BY EmptySeq
<1>2. Len(<<>>) <= Len(s) /\ \A i \in 1 .. Len(<<>>) : <<>>[i] = s[i]
  BY <1>1
<1> QED BY <1>1, <1>2, PrefixChar

\* Two prefixes of one sequence are prefixes of each other, one way round.
LEMMA PrefixesComparable ==
  ASSUME NEW E, NEW s \in Seq(E), NEW t \in Seq(E), NEW u \in Seq(E),
         IsPrefix(s, u), IsPrefix(t, u)
  PROVE  IsPrefix(s, t) \/ IsPrefix(t, s)
BY PrefixChar

\* The shorter of two prefixes of one sequence is a prefix of the longer.
LEMMA ShorterIsPrefix ==
  ASSUME NEW E, NEW s \in Seq(E), NEW t \in Seq(E), NEW u \in Seq(E),
         IsPrefix(s, u), IsPrefix(t, u), Len(s) <= Len(t)
  PROVE  IsPrefix(s, t)
BY PrefixChar

\* The first n elements of a sequence.
LEMMA InitialSegment ==
  ASSUME NEW E, NEW s \in Seq(E), NEW n \in 0 .. Len(s), NEW t, t = SubSeq(s, 1, n)
  PROVE  t \in Seq(E) /\ Len(t) = n /\ IsPrefix(t, s)
<1>1. \A i \in 1 .. n : s[i] \in E
  OBVIOUS
<1>2. /\ SubSeq(s, 1, n) \in Seq(E)
      /\ Len(SubSeq(s, 1, n)) = n
      /\ \A i \in 1 .. n : SubSeq(s, 1, n)[i] = s[i]
  BY SubSeqProperties, <1>1
<1>3. t \in Seq(E) /\ Len(t) = n /\ \A i \in 1 .. n : t[i] = s[i]
  BY <1>2
<1>4. Len(t) <= Len(s) /\ \A i \in 1 .. Len(t) : t[i] = s[i]
  BY <1>3
<1> QED BY <1>3, <1>4, PrefixChar

\* A prefix is the initial segment of its length.
LEMMA PrefixIsSegment ==
  ASSUME NEW E, NEW s \in Seq(E), NEW t \in Seq(E), IsPrefix(s, t)
  PROVE  s = SubSeq(t, 1, Len(s)) /\ Len(s) \in 0 .. Len(t)
<1>1. Len(s) \in 0 .. Len(t)
  BY DEF IsPrefix
<1>2. SubSeq(s, 1, Len(s)) = s
  BY SubSeqFull
<1> QED BY <1>1, <1>2 DEF IsPrefix

\* What appending an element does.
LEMMA PrefixOfAppend ==
  ASSUME NEW E, NEW s \in Seq(E), NEW e \in E, NEW t, t = Append(s, e)
  PROVE  t \in Seq(E) /\ Len(t) = Len(s) + 1 /\ IsPrefix(s, t)
<1>1. t \in Seq(E) /\ Len(t) = Len(s) + 1 /\ \A i \in 1 .. Len(s) : t[i] = s[i]
  BY AppendProperties
<1>2. Len(s) <= Len(t)
  BY <1>1
<1>3. IsPrefix(s, t)
  BY <1>1, <1>2, PrefixChar
<1> QED BY <1>1, <1>3

\* A segment that lies inside a prefix is the same in every extension.
LEMMA SegmentOfExtension ==
  ASSUME NEW E, NEW s \in Seq(E), NEW t \in Seq(E), IsPrefix(s, t),
         NEW m \in Nat \ {0}, NEW b \in Nat, b <= Len(s)
  PROVE  SubSeq(s, m, b) = SubSeq(t, m, b)
<1>1. Len(s) <= Len(t) /\ \A i \in 1 .. Len(s) : s[i] = t[i]
  BY PrefixChar
<1>2. \A i \in m .. b : s[i] \in E /\ t[i] \in E /\ s[i] = t[i]
  BY <1>1
<1>3. /\ SubSeq(s, m, b) \in Seq(E)
      /\ Len(SubSeq(s, m, b)) = IF m <= b THEN b - m + 1 ELSE 0
      /\ \A i \in 1 .. b - m + 1 : SubSeq(s, m, b)[i] = s[m + i - 1]
  BY SubSeqProperties, <1>2
<1>4. /\ SubSeq(t, m, b) \in Seq(E)
      /\ Len(SubSeq(t, m, b)) = IF m <= b THEN b - m + 1 ELSE 0
      /\ \A i \in 1 .. b - m + 1 : SubSeq(t, m, b)[i] = t[m + i - 1]
  BY SubSeqProperties, <1>2
<1>5. \A i \in 1 .. Len(SubSeq(s, m, b)) : SubSeq(s, m, b)[i] = SubSeq(t, m, b)[i]
  BY <1>2, <1>3, <1>4
<1> QED BY <1>3, <1>4, <1>5, SeqEqual

-----------------------------------------------------------------------------
(* Induction and recursion *)

\* A set of numbers with an element has a smallest one.
LEMMA SmallestExists ==
  ASSUME NEW S, S \subseteq Nat, NEW y \in S
  PROVE  \E x \in S : \A m \in S : x <= m
<1>1. PICK x \in S : \A m \in S : <<m, x>> \notin OpToRel(<, Nat)
  BY NatLessThanWellFounded, WFMin
<1>2. ASSUME NEW m \in S, ~(x <= m) PROVE FALSE
  <2>1. m < x /\ <<m, x>> \in Nat \X Nat /\ <<m, x>>[1] = m /\ <<m, x>>[2] = x
    BY <1>2
  <2>2. <<m, x>> \in OpToRel(<, Nat)
    BY <2>1 DEF OpToRel
  <2> QED BY <1>1, <2>2
<1> QED BY <1>2

\* Induction, for a set of numbers.
LEMMA Induction ==
  ASSUME NEW S, 0 \in S, \A n \in Nat : n \in S => n + 1 \in S
  PROVE  \A n \in Nat : n \in S
<1>1. SUFFICES ASSUME NEW n \in Nat, n \notin S PROVE FALSE
  OBVIOUS
<1>2. PICK x \in Nat \ S : \A m \in Nat \ S : x <= m
  BY <1>1, SmallestExists
<1>3. x # 0 /\ x - 1 \in Nat
  BY <1>2
<1>4. x - 1 \in S
  BY <1>2, <1>3
<1> QED BY <1>2, <1>3, <1>4

\* Induction from all smaller numbers.
LEMMA StrongInduction ==
  ASSUME NEW S, \A n \in Nat : (\A m \in 0 .. n - 1 : m \in S) => n \in S
  PROVE  \A n \in Nat : n \in S
<1>1. SUFFICES ASSUME NEW n \in Nat, n \notin S PROVE FALSE
  OBVIOUS
<1>2. PICK x \in Nat \ S : \A m \in Nat \ S : x <= m
  BY <1>1, SmallestExists
<1>3. \A m \in 0 .. x - 1 : m \in S
  BY <1>2
<1> QED BY <1>2, <1>3

\* A recursion over I: what B says of an element depends on those below it.
GoesDown(B, I, V, rank) ==
  \A f, g \in [I -> V] : \A i \in I :
    (\A j \in I : rank[j] < rank[i] => f[j] = g[j]) => B[<<f, i>>] = B[<<g, i>>]

Solves(f, B, I, V) == f \in [I -> V] /\ \A i \in I : f[i] = B[<<f, i>>]

\* A recursion that goes down a rank has a solution.
LEMMA RecursionExists ==
  ASSUME NEW I, NEW V, NEW v \in V, NEW m \in Nat, NEW rank \in [I -> 0 .. m],
         NEW B \in [[I -> V] \X I -> V],
         GoesDown(B, I, V, rank)
  PROVE  \E f : Solves(f, B, I, V)
<1> DEFINE Upto(f, n) == \A i \in I : rank[i] < n => f[i] = B[<<f, i>>]
           S == { n \in Nat : \E f \in [I -> V] : Upto(f, n) }
<1>1. 0 \in S
  <2>1. [i \in I |-> v] \in [I -> V] /\ Upto([i \in I |-> v], 0)
    OBVIOUS
  <2> HIDE DEF Upto
  <2> QED BY <2>1
<1>2. ASSUME NEW n \in Nat, n \in S PROVE n + 1 \in S
  <2>1. PICK f \in [I -> V] : Upto(f, n)
    BY <1>2
  <2> DEFINE g == [i \in I |-> B[<<f, i>>]]
  <2>2. g \in [I -> V]
    OBVIOUS
  <2>3. \A i \in I : g[i] = B[<<f, i>>]
    OBVIOUS
  <2> HIDE DEF g
  <2>4. \A i \in I : rank[i] < n => g[i] = f[i]
    BY <2>1, <2>3
  <2>5. ASSUME NEW i \in I, rank[i] < n + 1 PROVE g[i] = B[<<g, i>>]
    <3>1. ASSUME NEW j \in I, rank[j] < rank[i] PROVE f[j] = g[j]
      <4>1. rank[j] \in Nat /\ rank[i] \in Nat
        OBVIOUS
      <4> QED BY <2>4, <2>5, <3>1, <4>1
    <3> QED BY <2>2, <2>3, <3>1 DEF GoesDown
  <2>6. Upto(g, n + 1)
    BY <2>5
  <2> HIDE DEF Upto
  <2> QED BY <2>2, <2>6
<1>3. m + 1 \in S
  <2> HIDE DEF S
  <2>1. \A n \in Nat : n \in S
    BY <1>1, <1>2, Induction
  <2> QED BY <2>1
<1>4. PICK f \in [I -> V] : Upto(f, m + 1)
  BY <1>3
<1>5. ASSUME NEW i \in I PROVE f[i] = B[<<f, i>>]
  <2>1. rank[i] < m + 1
    OBVIOUS
  <2> QED BY <1>4, <2>1
<1> QED BY <1>5 DEF Solves

-----------------------------------------------------------------------------
(* Powers of two *)

\* The recursion that defines Pow2 has a solution.
LEMMA Pow2Def ==
  Pow2 = [k \in Nat |-> IF k = 0 THEN 1 ELSE 2 * Pow2[k - 1]]
<1> DEFINE Upto(n) == { g \in [Nat -> Nat] :
                          \A k \in 0 .. n : g[k] = IF k = 0 THEN 1 ELSE 2 * g[k - 1] }
           S == { n \in Nat : Upto(n) # {} }
           value(n) == CHOOSE x : \E g \in Upto(n) : x = g[n]
           p == [n \in Nat |-> value(n)]
<1>1. 0 \in S
  <2>1. [k \in Nat |-> 1] \in Upto(0)
    OBVIOUS
  <2> QED BY <2>1
<1>2. ASSUME NEW n \in Nat, n \in S PROVE n + 1 \in S
  <2>1. PICK g \in Upto(n) : TRUE
    BY <1>2
  <2>2. [k \in Nat |-> IF k = n + 1 THEN 2 * g[n] ELSE g[k]] \in Upto(n + 1)
    BY <2>1
  <2> HIDE DEF Upto
  <2> QED BY <2>2
<1>3. \A n \in Nat : n \in S
  <2> HIDE DEF S
  <2> QED BY <1>1, <1>2, Induction
\* Two partial solutions agree as far as both go.
<1>4. ASSUME NEW m \in Nat, NEW n \in Nat, NEW f \in Upto(m), NEW g \in Upto(n)
      PROVE  \A k \in Nat : k <= m /\ k <= n => f[k] = g[k]
  <2> DEFINE T == { k \in Nat : k <= m /\ k <= n => f[k] = g[k] }
  <2>1. 0 \in T
    OBVIOUS
  <2>2. ASSUME NEW k \in Nat, k \in T PROVE k + 1 \in T
    <3> SUFFICES ASSUME k + 1 <= m, k + 1 <= n PROVE f[k + 1] = g[k + 1]
      OBVIOUS
    <3>1. f[k + 1] = 2 * f[k] /\ g[k + 1] = 2 * g[k]
      OBVIOUS
    <3> QED BY <2>2, <3>1
  <2>3. \A k \in Nat : k \in T
    <3> HIDE DEF T
    <3> QED BY <2>1, <2>2, Induction
  <2> QED BY <2>3
<1>5. ASSUME NEW n \in Nat, NEW g \in Upto(n) PROVE p[n] = g[n]
  <2>1. \E f \in Upto(n) : value(n) = f[n]
    OBVIOUS
  <2> HIDE DEF Upto
  <2>2. PICK f \in Upto(n) : value(n) = f[n]
    BY <2>1
  <2>3. f[n] = g[n]
    BY <1>4
  <2> QED BY <2>2, <2>3
<1>6. ASSUME NEW n \in Nat PROVE p[n] = IF n = 0 THEN 1 ELSE 2 * p[n - 1]
  <2>1. PICK g \in Upto(n) : TRUE
    BY <1>3
  <2>2. p[n] = g[n]
    BY <1>5
  <2>3. ASSUME n # 0 PROVE p[n - 1] = g[n - 1]
    <3>1. n - 1 \in Nat /\ g \in Upto(n - 1)
      BY <2>3
    <3> HIDE DEF Upto, p
    <3> QED BY <1>5, <3>1
  <2>4. g[n] = IF n = 0 THEN 1 ELSE 2 * g[n - 1]
    OBVIOUS
  <2> HIDE DEF p
  <2> QED BY <2>2, <2>3, <2>4
<1>7. p = [k \in Nat |-> IF k = 0 THEN 1 ELSE 2 * p[k - 1]]
  <2> HIDE DEF value
  <2>1. \A k \in Nat : p[k] = IF k = 0 THEN 1 ELSE 2 * p[k - 1]
    BY <1>6
  <2> QED BY <2>1
<1> HIDE DEF p
<1> QED BY <1>7 DEF Pow2

\* The values that the recursion gives.
LEMMA Pow2Positive ==
  /\ Pow2[0] = 1
  /\ \A n \in Nat : Pow2[n] \in Nat \ {0} /\ Pow2[n + 1] = 2 * Pow2[n]
<1>1. \A n \in Nat : Pow2[n] = IF n = 0 THEN 1 ELSE 2 * Pow2[n - 1]
  BY Pow2Def, Zenon
<1>2. Pow2[0] = 1 /\ \A n \in Nat : Pow2[n + 1] = 2 * Pow2[n]
  BY <1>1
<1> DEFINE S == { n \in Nat : Pow2[n] \in Nat \ {0} }
<1>3. 0 \in S /\ \A n \in Nat : n \in S => n + 1 \in S
  BY <1>2
<1>4. \A n \in Nat : n \in S
  <2> HIDE DEF S
  <2> QED BY <1>3, Induction
<1> QED BY <1>2, <1>4

\* 1 << (a + b) is the product of 1 << a and 1 << b.
LEMMA Pow2Add ==
  ASSUME NEW a \in Nat
  PROVE  \A b \in Nat : Pow2[a + b] = Pow2[a] * Pow2[b]
<1> DEFINE S == { b \in Nat : Pow2[a + b] = Pow2[a] * Pow2[b] }
<1>1. 0 \in S
  BY Pow2Positive
<1>2. ASSUME NEW b \in Nat, b \in S PROVE b + 1 \in S
  <2>1. Pow2[a + (b + 1)] = 2 * Pow2[a + b]
    <3>1. a + b \in Nat /\ a + (b + 1) = (a + b) + 1
      OBVIOUS
    <3> QED BY <3>1, Pow2Positive
  <2>2. Pow2[b + 1] = 2 * Pow2[b] /\ Pow2[a] \in Nat /\ Pow2[b] \in Nat
    BY Pow2Positive
  <2>3. Pow2[a + b] = Pow2[a] * Pow2[b]
    BY <1>2
  <2> QED BY <2>1, <2>2, <2>3
<1>3. \A b \in Nat : b \in S
  <2> HIDE DEF S
  <2> QED BY <1>1, <1>2, Induction
<1> QED BY <1>3

\* 1 << c in two factors.
LEMMA Pow2Split ==
  ASSUME NEW a \in Nat, NEW c \in Nat, a <= c
  PROVE  Pow2[c] = Pow2[a] * Pow2[c - a] /\ c - a \in Nat /\ Pow2[c - a] \in Nat \ {0}
<1>1. c - a \in Nat /\ a + (c - a) = c
  OBVIOUS
<1>2. Pow2[a + (c - a)] = Pow2[a] * Pow2[c - a]
  BY <1>1, Pow2Add
<1> QED BY <1>1, <1>2, Pow2Positive

\* Greater shifts give greater powers, at least twice as great.
LEMMA Pow2Monotone ==
  ASSUME NEW a \in Nat, NEW b \in Nat, a <= b
  PROVE  /\ Pow2[a] <= Pow2[b]
         /\ a < b => 2 * Pow2[a] <= Pow2[b]
<1>1. \A k \in Nat : Pow2[k] \in Nat \ {0}
  BY Pow2Positive
<1>3. Pow2[b] = Pow2[a] * Pow2[b - a] /\ b - a \in Nat
  BY Pow2Split
<1>4. ASSUME a < b PROVE 2 <= Pow2[b - a]
  <2>1. b - a - 1 \in Nat /\ (b - a - 1) + 1 = b - a
    BY <1>4
  <2>2. Pow2[b - a] = 2 * Pow2[b - a - 1]
    BY <2>1, Pow2Positive
  <2> QED BY <1>1, <2>1, <2>2
<1> DEFINE P == Pow2[a]
           Q == Pow2[b - a]
<1>5. P \in Nat \ {0} /\ Q \in Nat \ {0} /\ Pow2[b] = P * Q
  BY <1>1, <1>3
<1>6. a < b => 2 <= Q
  BY <1>4
<1> HIDE DEF P, Q
<1>7. P <= P * Q /\ (2 <= Q => 2 * P <= P * Q)
  BY <1>5
<1> QED BY <1>5, <1>6, <1>7 DEF P

\* A number is less than the power of two it is the exponent of.
LEMMA Pow2Exceeds == \A n \in Nat : n < Pow2[n]
<1> DEFINE S == { n \in Nat : n < Pow2[n] }
<1>1. 0 \in S /\ \A n \in Nat : n \in S => n + 1 \in S
  BY Pow2Positive
<1>2. \A n \in Nat : n \in S
  <2> HIDE DEF S
  <2> QED BY <1>1, Induction
<1> QED BY <1>2

\* Powers of two are distinct.
LEMMA Pow2Injective ==
  ASSUME NEW a \in Nat, NEW b \in Nat, Pow2[a] < 2 * Pow2[b], Pow2[b] < 2 * Pow2[a]
  PROVE  a = b
<1>1. Pow2[a] \in Nat /\ Pow2[b] \in Nat
  BY Pow2Positive
<1>2. a < b => 2 * Pow2[a] <= Pow2[b]
  BY Pow2Monotone
<1>3. b < a => 2 * Pow2[b] <= Pow2[a]
  BY Pow2Monotone
<1> QED BY <1>1, <1>2, <1>3

\* bit_length.
LEMMA BitWidthDef ==
  ASSUME NEW n \in Nat
  PROVE  /\ BitWidth(n) \in 0 .. n
         /\ n < Pow2[BitWidth(n)]
         /\ \A j \in 0 .. BitWidth(n) - 1 : Pow2[j] <= n
<1> DEFINE S == { k \in Nat : n < Pow2[k] }
<1>1. n \in S
  BY Pow2Exceeds
<1>2. PICK k \in S : \A j \in S : k <= j
  BY <1>1, SmallestExists
<1>3. k \in 0 .. n /\ n < Pow2[k] /\ \A j \in 0 .. k - 1 : Pow2[j] <= n
  <2>1. k \in 0 .. n
    BY <1>1, <1>2
  <2>2. ASSUME NEW j \in 0 .. k - 1 PROVE Pow2[j] <= n
    <3>1. j \in Nat /\ j \notin S /\ Pow2[j] \in Nat
      BY <1>2, Pow2Positive
    <3> QED BY <3>1
  <2> QED BY <1>2, <2>1, <2>2
<1> QED BY <1>3 DEF BitWidth

\* largest_power_of_two_less_than.
LEMMA SplitDef ==
  ASSUME NEW n \in Nat, n > 1
  PROVE  \E k \in Nat : Split(n) = Pow2[k] /\ Pow2[k] < n /\ n <= 2 * Pow2[k]
<1> DEFINE w == BitWidth(n - 1)
<1>1. w \in Nat /\ n - 1 < Pow2[w] /\ \A j \in 0 .. w - 1 : Pow2[j] <= n - 1
  BY BitWidthDef
<1>2. w # 0
  BY <1>1, Pow2Positive
<1> HIDE DEF w
<1>3. w - 1 \in Nat /\ Pow2[w - 1] <= n - 1 /\ Pow2[w] = 2 * Pow2[w - 1] /\ Pow2[w - 1] \in Nat
  <2>1. w - 1 \in Nat /\ w - 1 \in 0 .. w - 1 /\ (w - 1) + 1 = w
    BY <1>1, <1>2
  <2> QED BY <1>1, <2>1, Pow2Positive
<1>4. Split(n) = Pow2[w - 1]
  BY DEF Split, w
<1> QED BY <1>1, <1>3, <1>4

\* The split is the only power of two with these bounds.
LEMMA SplitIs ==
  ASSUME NEW n \in Nat, NEW k \in Nat, Pow2[k] < n, n <= 2 * Pow2[k]
  PROVE  Split(n) = Pow2[k]
<1>1. Pow2[k] \in Nat \ {0}
  BY Pow2Positive
<1>2. PICK j \in Nat : Split(n) = Pow2[j] /\ Pow2[j] < n /\ n <= 2 * Pow2[j]
  BY <1>1, SplitDef
<1>3. Pow2[j] \in Nat
  BY Pow2Positive
<1>4. j = k
  BY <1>1, <1>2, <1>3, Pow2Injective
<1> QED BY <1>2, <1>4

-----------------------------------------------------------------------------
(* Division *)

\* Quotient and remainder.
LEMMA DivBounds ==
  ASSUME NEW t \in Nat \ {0}, NEW x \in Nat
  PROVE  /\ x \div t \in Nat
         /\ t * (x \div t) <= x
         /\ x < t * (x \div t) + t
         /\ x % t = x - t * (x \div t)
OBVIOUS

\* Multiples that are ordered, up to less than the factor, are ordered.
LEMMA Smaller ==
  ASSUME NEW t \in Nat \ {0}, NEW a \in Nat, NEW b \in Nat, t * a < t * b + t
  PROVE  a <= b
OBVIOUS

\* Division is monotone.
LEMMA DivMonotone ==
  ASSUME NEW t \in Nat \ {0}, NEW x \in Nat, NEW y \in Nat, x <= y
  PROVE  x \div t <= y \div t
BY DivBounds, Smaller

\* The quotient is the only number with these bounds.
LEMMA DivUnique ==
  ASSUME NEW t \in Nat \ {0}, NEW x \in Nat, NEW q \in Nat, t * q <= x, x < t * q + t
  PROVE  x \div t = q /\ x % t = x - t * q
<1>1. x \div t = q
  OBVIOUS
<1> QED BY <1>1, DivBounds

\* A number with a known remainder.
LEMMA DivWithRest ==
  ASSUME NEW t \in Nat \ {0}, NEW x \in Nat, NEW r, x % t = r
  PROVE  /\ x \div t \in Nat
         /\ x = t * (x \div t) + r
<1> DEFINE d == x \div t
           e == t * d
<1>1. d \in Nat /\ x % t = x - e
  BY DivBounds
<1>2. e \in Nat
  <2> HIDE DEF d
  <2> QED BY <1>1
<1> HIDE DEF e
<1>3. x = e + r
  BY <1>1, <1>2
<1> QED BY <1>1, <1>3 DEF e

\* Dividing twice is dividing by the product.
LEMMA DivDiv ==
  ASSUME NEW p \in Nat \ {0}, NEW q \in Nat \ {0}, NEW x \in Nat
  PROVE  (x \div p) \div q = x \div (p * q)
OBVIOUS

\* (x >> a) >> b
LEMMA ShiftTwice ==
  ASSUME NEW a \in Nat, NEW b \in Nat, NEW x \in Nat
  PROVE  (x \div Pow2[a]) \div Pow2[b] = x \div Pow2[a + b]
<1>1. Pow2[a] \in Nat \ {0} /\ Pow2[b] \in Nat \ {0} /\ Pow2[a + b] = Pow2[a] * Pow2[b]
  BY Pow2Positive, Pow2Add
<1> QED BY <1>1, DivDiv

\* x >> c in two shifts.
LEMMA ShiftSplit ==
  ASSUME NEW a \in Nat, NEW c \in Nat, a <= c, NEW x \in Nat
  PROVE  x \div Pow2[c] = (x \div Pow2[a]) \div Pow2[c - a]
<1>1. c - a \in Nat /\ a + (c - a) = c
  OBVIOUS
<1>2. (x \div Pow2[a]) \div Pow2[c - a] = x \div Pow2[a + (c - a)]
  BY <1>1, ShiftTwice
<1> QED BY <1>1, <1>2

-----------------------------------------------------------------------------
(* The hash of entries *)

\* Both parts of a split have an element.
LEMMA SplitInside ==
  ASSUME NEW n \in Nat, n > 1
  PROVE  Split(n) \in 1 .. n - 1
BY SplitDef, Pow2Positive

\* The recursion that defines MTHOf has a solution.
LEMMA MTHOfDef ==
  ASSUME NEW D, Len(D) \in Nat,
         NEW start \in 0 .. Len(D), NEW end \in 0 .. Len(D)
  PROVE  MTHOf(D, start, end) =
           IF end - start <= 1 THEN HashLeaf(D[end])
           ELSE HashInternal(MTHOf(D, start, start + Split(end - start)),
                             MTHOf(D, start + Split(end - start), end))
<1> DEFINE I == (0 .. Len(D)) \X (0 .. Len(D))
           Mid(i) == i[1] + Split(i[2] - i[1])
           Body(f, i) == IF i[2] - i[1] <= 1 THEN HashLeaf(D[i[2]])
                         ELSE HashInternal(f[<<i[1], Mid(i)>>], f[<<Mid(i), i[2]>>])
           Upto(f, n) == \A i \in I : i[2] - i[1] <= n => f[i] = Body(f, i)
           S == { n \in Nat : \E f : Upto(f, n) }
           mth == CHOOSE f : f = [i \in I |-> Body(f, i)]
<1>0. ASSUME NEW i \in I, i[2] - i[1] > 1
      PROVE  /\ <<i[1], Mid(i)>> \in I /\ Mid(i) - i[1] < i[2] - i[1]
             /\ <<Mid(i), i[2]>> \in I /\ i[2] - Mid(i) < i[2] - i[1]
  <2>1. i[2] - i[1] \in Nat
    BY <1>0
  <2>2. Split(i[2] - i[1]) \in 1 .. (i[2] - i[1]) - 1
    BY <1>0, <2>1, SplitInside
  <2> QED BY <2>2
<1>1. 0 \in S
  <2>1. Upto([i \in I |-> HashLeaf(D[i[2]])], 0)
    OBVIOUS
  <2> HIDE DEF Upto
  <2> QED BY <2>1
<1>2. ASSUME NEW n \in Nat, n \in S PROVE n + 1 \in S
  <2>1. PICK f : Upto(f, n)
    BY <1>2
  <2> DEFINE g == [i \in I |-> Body(f, i)]
  <2>2. ASSUME NEW i \in I, i[2] - i[1] <= n PROVE g[i] = f[i]
    <3>1. f[i] = Body(f, i)
      BY <2>1, <2>2
    <3> HIDE DEF Body
    <3> QED BY <3>1
  <2>3. ASSUME NEW i \in I, i[2] - i[1] <= n + 1 PROVE g[i] = Body(g, i)
    <3>1. g[i] = Body(f, i)
      <4> HIDE DEF Body
      <4> QED OBVIOUS
    <3>2. CASE i[2] - i[1] <= 1
      BY <3>1, <3>2
    <3>3. CASE i[2] - i[1] > 1
      <4> DEFINE l == <<i[1], Mid(i)>>
                 r == <<Mid(i), i[2]>>
      <4>1. l \in I /\ r \in I /\ l[2] - l[1] <= n /\ r[2] - r[1] <= n
        <5> HIDE DEF Mid
        <5>1. /\ l \in I /\ Mid(i) - i[1] < i[2] - i[1]
              /\ r \in I /\ i[2] - Mid(i) < i[2] - i[1]
          BY <1>0, <3>3
        <5>2. Mid(i) \in Nat
          BY <5>1
        <5> QED BY <2>3, <5>1, <5>2
      <4>2. g[l] = f[l] /\ g[r] = f[r]
        <5> HIDE DEF l, r, g
        <5> QED BY <2>2, <4>1
      <4> HIDE DEF g
      <4> QED BY <3>1, <3>3, <4>2
    <3> QED BY <3>2, <3>3
  <2>4. Upto(g, n + 1)
    <3> HIDE DEF g
    <3> QED BY <2>3
  <2> HIDE DEF g, Upto
  <2> QED BY <2>4
<1>3. \A n \in Nat : n \in S
  <2> HIDE DEF S
  <2> QED BY <1>1, <1>2, Induction
<1>4. \E f : f = [i \in I |-> Body(f, i)]
  <2>1. PICK f : Upto(f, Len(D))
    BY <1>3
  <2>2. \A i \in I : f[i] = Body(f, i)
    <3>1. \A i \in I : i[2] - i[1] <= Len(D)
      OBVIOUS
    <3> QED BY <2>1, <3>1
  <2> DEFINE g == [i \in I |-> Body(f, i)]
  <2>3. \A i \in I : g[i] = f[i]
    <3> HIDE DEF Body
    <3> QED BY <2>2
  <2>4. ASSUME NEW i \in I PROVE Body(g, i) = Body(f, i)
    <3>1. CASE i[2] - i[1] <= 1
      BY <3>1
    <3>2. CASE i[2] - i[1] > 1
      <4> DEFINE l == <<i[1], Mid(i)>>
                 r == <<Mid(i), i[2]>>
      <4>1. l \in I /\ r \in I
        BY <1>0, <3>2
      <4>2. g[l] = f[l] /\ g[r] = f[r]
        <5> HIDE DEF l, r, g
        <5> QED BY <2>3, <4>1
      <4> HIDE DEF g
      <4> QED BY <3>2, <4>2
    <3>3. i[2] - i[1] \in Int
      OBVIOUS
    <3> HIDE DEF g
    <3> QED BY <3>1, <3>2, <3>3
  <2>5. g = [i \in I |-> Body(g, i)]
    <3> HIDE DEF Body, I
    <3> QED BY <2>4
  <2> HIDE DEF g
  <2> QED BY <2>5
<1>5. mth = [i \in I |-> Body(mth, i)]
  <2> HIDE DEF Body, I
  <2> QED BY <1>4
<1>6. \A s, e : MTHOf(D, s, e) = mth[<<s, e>>]
  BY DEF MTHOf
<1>7. \A i \in I : mth[i] = Body(mth, i)
  <2> HIDE DEF mth, Body, I
  <2> QED BY <1>5
<1> HIDE DEF mth
<1>8. <<start, end>> \in I /\ <<start, end>>[1] = start /\ <<start, end>>[2] = end
  OBVIOUS
<1>9. MTHOf(D, start, end) = Body(mth, <<start, end>>)
  <2> HIDE DEF Body, I
  <2> QED BY <1>6, <1>7, <1>8
<1> QED BY <1>6, <1>9

\* The hashes are collision free.
LEMMA HashesDiffer ==
  ASSUME NEW a, NEW b, NEW c, NEW d
  PROVE  /\ HashLeaf(a) # Unavailable
         /\ HashLeaf(a) = HashLeaf(b) => a = b
         /\ HashInternal(a, b) # Unavailable => a # Unavailable /\ b # Unavailable
         /\ a # Unavailable /\ b # Unavailable => HashInternal(a, b) # Unavailable
         /\ HashInternal(a, b) # Unavailable /\ HashInternal(a, b) = HashInternal(c, d)
              => a = c /\ b = d
<1>1. <<a>> # <<>> /\ <<a, b>> # <<>>
  OBVIOUS
<1>2. <<a>> = <<b>> => a = b
  OBVIOUS
<1>3. <<a, b>> = <<c, d>> => a = c /\ b = d
  OBVIOUS
<1> QED BY <1>1, <1>2, <1>3 DEF HashLeaf, HashInternal, Unavailable

\* The hashes of m entries of A from a on and of B from b on: they exist, and
\* are equal exactly if the entries are.
HashesAgree(A, a, B, b, m) ==
  /\ MTHOf(A, a, a + m) # Unavailable
  /\ MTHOf(B, b, b + m) # Unavailable
  /\ MTHOf(A, a, a + m) = MTHOf(B, b, b + m)
       <=> \A i \in 1 .. m : A[a + i] = B[b + i]

\* A hash of entries exists, and it determines them.
LEMMA MTHAgree ==
  ASSUME NEW A, Len(A) \in Nat, NEW B, Len(B) \in Nat
  PROVE  \A m \in Nat \ {0} : \A a, b \in Nat :
           a + m <= Len(A) /\ b + m <= Len(B) => HashesAgree(A, a, B, b, m)
<1> DEFINE Agree(m, a, b) ==
             /\ MTHOf(A, a, a + m) # Unavailable
             /\ MTHOf(B, b, b + m) # Unavailable
             /\ MTHOf(A, a, a + m) = MTHOf(B, b, b + m)
                  <=> \A i \in 1 .. m : A[a + i] = B[b + i]
           S == { m \in Nat : m > 0 => \A a, b \in Nat :
                    a + m <= Len(A) /\ b + m <= Len(B) => Agree(m, a, b) }
<1>1. ASSUME NEW m \in Nat, \A j \in 0 .. m - 1 : j \in S
      PROVE  m \in S
  <2> SUFFICES ASSUME m > 0, NEW a \in Nat, NEW b \in Nat, a + m <= Len(A), b + m <= Len(B)
               PROVE  Agree(m, a, b)
    OBVIOUS
  <2>0. /\ a \in 0 .. Len(A) /\ a + m \in 0 .. Len(A) /\ (a + m) - a = m
        /\ b \in 0 .. Len(B) /\ b + m \in 0 .. Len(B) /\ (b + m) - b = m
    OBVIOUS
  <2>1. CASE m = 1
    <3>1. MTHOf(A, a, a + m) = HashLeaf(A[a + 1]) /\ MTHOf(B, b, b + m) = HashLeaf(B[b + 1])
      BY <2>0, <2>1, MTHOfDef
    <3>2. (\A i \in 1 .. m : A[a + i] = B[b + i]) <=> A[a + 1] = B[b + 1]
      BY <2>1
    <3>3. /\ HashLeaf(A[a + 1]) # Unavailable
          /\ HashLeaf(B[b + 1]) # Unavailable
          /\ HashLeaf(A[a + 1]) = HashLeaf(B[b + 1]) <=> A[a + 1] = B[b + 1]
      BY HashesDiffer
    <3> QED BY <3>1, <3>2, <3>3, Zenon
  <2>2. CASE m > 1
    <3> DEFINE k == Split(m)
    <3>1. k \in 1 .. m - 1 /\ m - k \in 1 .. m - 1
      BY <2>2, SplitInside
    <3>2. /\ MTHOf(A, a, a + m) = HashInternal(MTHOf(A, a, a + k), MTHOf(A, a + k, a + m))
          /\ MTHOf(B, b, b + m) = HashInternal(MTHOf(B, b, b + k), MTHOf(B, b + k, b + m))
      BY <2>0, <2>2, MTHOfDef
    <3> HIDE DEF k
    <3>3. Agree(k, a, b)
      <4>1. k \in 0 .. m - 1 /\ k > 0 /\ a + k <= Len(A) /\ b + k <= Len(B)
        BY <3>1
      <4>2. k \in S
        <5> HIDE DEF S
        <5> QED BY <1>1, <4>1
      <4> HIDE DEF Agree
      <4> QED BY <4>1, <4>2
    <3>4. Agree(m - k, a + k, b + k)
      <4>1. /\ m - k \in 0 .. m - 1 /\ m - k > 0 /\ a + k \in Nat /\ b + k \in Nat
            /\ (a + k) + (m - k) <= Len(A) /\ (b + k) + (m - k) <= Len(B)
        BY <3>1
      <4>2. m - k \in S
        <5> HIDE DEF S
        <5> QED BY <1>1, <4>1
      <4> HIDE DEF Agree
      <4> QED BY <4>1, <4>2
    <3>5. (a + k) + (m - k) = a + m /\ (b + k) + (m - k) = b + m
      BY <3>1
    <3>6. (\A i \in 1 .. m : A[a + i] = B[b + i])
            <=> /\ \A i \in 1 .. k : A[a + i] = B[b + i]
                /\ \A i \in 1 .. m - k : A[a + k + i] = B[b + k + i]
      <4>1. ASSUME \A i \in 1 .. k : A[a + i] = B[b + i],
                   \A i \in 1 .. m - k : A[a + k + i] = B[b + k + i],
                   NEW i \in 1 .. m
            PROVE  A[a + i] = B[b + i]
        <5>1. CASE i <= k
          BY <4>1, <5>1, <3>1
        <5>2. CASE i > k
          <6>1. i - k \in 1 .. m - k /\ a + k + (i - k) = a + i /\ b + k + (i - k) = b + i
            BY <5>2, <3>1
          <6> QED BY <4>1, <6>1
        <5> QED BY <5>1, <5>2, <3>1
      <4>2. ASSUME \A i \in 1 .. m : A[a + i] = B[b + i], NEW i \in 1 .. m - k
            PROVE  A[a + k + i] = B[b + k + i]
        <5>1. k + i \in 1 .. m /\ a + k + i = a + (k + i) /\ b + k + i = b + (k + i)
          BY <3>1
        <5> QED BY <4>2, <5>1
      <4>3. ASSUME \A i \in 1 .. m : A[a + i] = B[b + i], NEW i \in 1 .. k
            PROVE  A[a + i] = B[b + i]
        <5>1. i \in 1 .. m
          BY <3>1
        <5> QED BY <4>3, <5>1
      <4> QED BY <4>1, <4>2, <4>3
    <3> DEFINE l == MTHOf(A, a, a + k)
               r == MTHOf(A, a + k, a + m)
               x == MTHOf(B, b, b + k)
               y == MTHOf(B, b + k, b + m)
    <3>7. /\ l # Unavailable /\ r # Unavailable /\ x # Unavailable /\ y # Unavailable
          /\ l = x <=> \A i \in 1 .. k : A[a + i] = B[b + i]
          /\ r = y <=> \A i \in 1 .. m - k : A[a + k + i] = B[b + k + i]
      BY <3>3, <3>4, <3>5
    <3>8. MTHOf(A, a, a + m) = HashInternal(l, r) /\ MTHOf(B, b, b + m) = HashInternal(x, y)
      BY <3>2
    <3> HIDE DEF l, r, x, y
    <3>9. HashInternal(l, r) # Unavailable /\ HashInternal(x, y) # Unavailable
      BY <3>7, HashesDiffer
    <3>10. HashInternal(l, r) = HashInternal(x, y) <=> l = x /\ r = y
      BY <3>9, HashesDiffer
    <3> QED BY <3>6, <3>7, <3>8, <3>9, <3>10
  <2> QED BY <2>1, <2>2
<1>2. \A m \in Nat : m \in S
  <2> HIDE DEF S
  <2> QED BY <1>1, StrongInduction
<1>3. ASSUME NEW m \in Nat \ {0}, NEW a \in Nat, NEW b \in Nat,
             a + m <= Len(A), b + m <= Len(B)
      PROVE  Agree(m, a, b)
  <2> HIDE DEF Agree
  <2> QED BY <1>2, <1>3
<1> QED BY <1>3, Zenon DEF HashesAgree

-----------------------------------------------------------------------------
(* The one bits and the zero bits at the low end of a number *)

\* Every number but 0 has a lowest one bit.
LEMMA ZerosExist ==
  \A n \in Nat \ {0} : \E k \in Nat : n % Pow2[k + 1] = Pow2[k]
<1> DEFINE S == { n \in Nat : n > 0 => \E k \in Nat : n % Pow2[k + 1] = Pow2[k] }
<1>1. ASSUME NEW n \in Nat, \A m \in 0 .. n - 1 : m \in S PROVE n \in S
  <2> SUFFICES ASSUME n > 0 PROVE \E k \in Nat : n % Pow2[k + 1] = Pow2[k]
    OBVIOUS
  <2>1. CASE n % 2 = 1
    <3>1. Pow2[0] = 1 /\ Pow2[0 + 1] = 2
      BY Pow2Positive
    <3> QED BY <2>1, <3>1
  <2>2. CASE n % 2 = 0
    <3>1. PICK m \in Nat : n = 2 * m /\ m > 0 /\ m \in 0 .. n - 1
      BY <2>2
    <3>2. PICK k \in Nat : m % Pow2[k + 1] = Pow2[k]
      BY <1>1, <3>1
    <3> DEFINE P == Pow2[k]
    <3>3. /\ P \in Nat \ {0} /\ Pow2[k + 1] = 2 * P /\ Pow2[(k + 1) + 1] = 2 * (2 * P)
      BY Pow2Positive
    <3> HIDE DEF P
    <3> DEFINE q == m \div (2 * P)
    <3>4. q \in Nat /\ m = (2 * P) * q + P
      <4>1. m % (2 * P) = P
        BY <3>2, <3>3 DEF P
      <4>2. 2 * P \in Nat \ {0}
        BY <3>3
      <4> QED BY <4>1, <4>2, DivWithRest
    <3> HIDE DEF q
    <3>5. n % (2 * (2 * P)) = 2 * P
      <4>1. (2 * (2 * P)) * q = 2 * ((2 * P) * q)
        BY <3>3, <3>4
      <4>2. n - (2 * (2 * P)) * q = 2 * P
        BY <3>1, <3>3, <3>4, <4>1
      <4>3. /\ 2 * (2 * P) \in Nat \ {0} /\ (2 * (2 * P)) * q <= n
            /\ n < (2 * (2 * P)) * q + 2 * (2 * P)
        BY <3>1, <3>3, <3>4, <4>1
      <4> QED BY <3>4, <4>2, <4>3, DivUnique
    <3> QED BY <3>3, <3>5
  <2> QED BY <2>1, <2>2
<1>2. \A n \in Nat : n \in S
  <2> HIDE DEF S
  <2> QED BY <1>1, StrongInduction
<1> QED BY <1>2

\* The zero bits at the low end of n, and what is above them.
LEMMA TrailingZerosDef ==
  ASSUME NEW n \in Nat \ {0}, NEW k, k = TrailingZeros(n),
         NEW q, q = n \div Pow2[k + 1]
  PROVE  /\ k \in Nat
         /\ q \in Nat
         /\ n = (2 * q + 1) * Pow2[k]
         /\ n \div Pow2[k] = 2 * q + 1
         /\ n % 2 = 1 => k = 0
<1>1. \E j \in 0 .. n : n % Pow2[j + 1] = Pow2[j]
  <2>1. PICK j \in Nat : n % Pow2[j + 1] = Pow2[j]
    BY ZerosExist
  <2>2. Pow2[j] \in Nat /\ Pow2[j + 1] \in Nat \ {0} /\ j < Pow2[j]
    BY Pow2Positive, Pow2Exceeds
  <2>3. n % Pow2[j + 1] <= n
    BY <2>2
  <2> QED BY <2>1, <2>2, <2>3
<1>2. k \in Nat /\ n % Pow2[k + 1] = Pow2[k]
  <2>1. k \in 0 .. n /\ n % Pow2[k + 1] = Pow2[k]
    BY <1>1, Zenon DEF TrailingZeros
  <2> QED BY <2>1
<1> DEFINE P == Pow2[k]
<1>3. P \in Nat \ {0} /\ Pow2[k + 1] = 2 * P
  BY <1>2, Pow2Positive
<1>4. q = n \div (2 * P) /\ n % (2 * P) = P
  BY <1>2, <1>3
<1>5. k = 0 \/ \E h \in Nat : P = 2 * h
  <2>1. ASSUME k # 0 PROVE \E h \in Nat : P = 2 * h
    <3>1. k - 1 \in Nat /\ (k - 1) + 1 = k
      BY <1>2, <2>1
    <3>2. P = 2 * Pow2[k - 1] /\ Pow2[k - 1] \in Nat
      BY <3>1, Pow2Positive
    <3> QED BY <3>2
  <2> QED BY <2>1
<1> HIDE DEF P
<1>6. q \in Nat /\ n = (2 * P) * q + P
  <2> DEFINE T == 2 * P
  <2>1. T \in Nat \ {0} /\ q = n \div T /\ n % T = P
    BY <1>3, <1>4
  <2> HIDE DEF T
  <2>2. n \div T \in Nat /\ n = T * (n \div T) + P
    <3>1. n \in Nat
      OBVIOUS
    <3> QED BY <2>1, <3>1, DivWithRest, Zenon
  <2> QED BY <2>1, <2>2, Zenon DEF T
<1>7. n = (2 * q + 1) * P /\ n = P * (2 * q + 1)
  BY <1>3, <1>6
<1>8. n \div P = 2 * q + 1
  <2>1. 2 * q + 1 \in Nat /\ P * (2 * q + 1) <= n /\ n < P * (2 * q + 1) + P
    BY <1>3, <1>6, <1>7
  <2> QED BY <1>3, <2>1, DivUnique
<1>9. ASSUME n % 2 = 1 PROVE k = 0
  <2> SUFFICES ASSUME NEW h \in Nat, P = 2 * h PROVE FALSE
    BY <1>5
  <2>1. n = 2 * (h * (2 * q + 1)) /\ h * (2 * q + 1) \in Nat
    BY <1>6, <1>7
  <2> QED BY <1>9, <2>1
<1> QED BY <1>2, <1>6, <1>7, <1>8, <1>9 DEF P

\* n + 1 is a multiple of every power of two up to the lowest zero bit of n.
LEMMA OnesOf ==
  ASSUME NEW n \in Nat, NEW k, k = TrailingOnes(n)
  PROVE  /\ k \in Nat
         /\ n % Pow2[k + 1] = Pow2[k] - 1
         /\ \A j \in 0 .. k : n + 1 = (n \div Pow2[j] + 1) * Pow2[j]
<1>1. \E j \in 0 .. n : n % Pow2[j + 1] = Pow2[j] - 1
  <2>1. n + 1 \in Nat \ {0}
    OBVIOUS
  <2>2. PICK j \in Nat : (n + 1) % Pow2[j + 1] = Pow2[j]
    BY <2>1, ZerosExist
  <2> DEFINE P == Pow2[j]
             T == Pow2[j + 1]
  <2>3. P \in Nat \ {0} /\ T \in Nat \ {0} /\ T = 2 * P /\ j < P
    BY Pow2Positive, Pow2Exceeds
  <2> DEFINE q == (n + 1) \div T
             c == T * q
  <2>4. q \in Nat /\ n + 1 = c + P
    <3>1. n + 1 \in Nat /\ T \in Nat \ {0} /\ (n + 1) % T = P
      BY <2>1, <2>2, <2>3
    <3> HIDE DEF P, T
    <3> QED BY <3>1, DivWithRest
  <2> HIDE DEF P, T
  <2>5. c \in Nat
    <3> HIDE DEF q
    <3> QED BY <2>3, <2>4
  <2>6. T * q <= n /\ n < T * q + T /\ n - T * q = P - 1
    <3>1. c <= n /\ n < c + T /\ n - c = P - 1
      <4> HIDE DEF c, q
      <4> QED BY <2>3, <2>4, <2>5
    <3> QED BY <3>1
  <2>7. n % T = P - 1
    <3> HIDE DEF q
    <3> QED BY <2>3, <2>4, <2>6, DivUnique
  <2>8. j <= n
    <3> HIDE DEF c, q
    <3> QED BY <2>3, <2>4, <2>5
  <2> QED BY <2>7, <2>8 DEF P, T
<1>2. k \in 0 .. n /\ n % Pow2[k + 1] = Pow2[k] - 1
  BY <1>1, Zenon DEF TrailingOnes
<1>3. ASSUME NEW j \in 0 .. k PROVE n + 1 = (n \div Pow2[j] + 1) * Pow2[j]
  <2> DEFINE P == Pow2[j]
             M == Pow2[k - j]
             K == Pow2[k]
             T == Pow2[k + 1]
             q == n \div T
             m == M * (2 * q + 1)
  <2>1. /\ P \in Nat \ {0} /\ M \in Nat \ {0} /\ K \in Nat \ {0} /\ T \in Nat \ {0}
        /\ K = P * M /\ T = 2 * K
    <3>1. j \in Nat /\ k \in Nat /\ j <= k
      BY <1>2
    <3>2. P \in Nat \ {0} /\ K \in Nat \ {0} /\ T \in Nat \ {0} /\ T = 2 * K
      BY <3>1, Pow2Positive
    <3>3. K = P * M /\ M \in Nat \ {0}
      BY <3>1, Pow2Split
    <3> QED BY <3>2, <3>3
  <2>2. q \in Nat /\ n = T * q + (K - 1)
    <3>1. n % T = K - 1
      BY <1>2
    <3> HIDE DEF T, K
    <3> DEFINE r == K - 1
    <3>2. n % T = r
      BY <3>1
    <3> HIDE DEF r
    <3>3. n \div T \in Nat /\ n = T * (n \div T) + r
      <4>1. n \in Nat /\ T \in Nat \ {0}
        BY <2>1
      <4> QED BY <3>2, <4>1, DivWithRest, Zenon
    <3> QED BY <3>3 DEF r
  <2> HIDE DEF P, M, K, T, q
  <2>3. n + 1 = m * P /\ m \in Nat \ {0}
    <3>1. T * q = (2 * q) * (P * M)
      BY <2>1, <2>2
    <3>2. n + 1 = (2 * q + 1) * (P * M)
      BY <2>1, <2>2, <3>1
    <3>3. (2 * q + 1) * (P * M) = m * P /\ m \in Nat \ {0}
      BY <2>1, <2>2
    <3> QED BY <3>2, <3>3
  <2> HIDE DEF m
  <2>4. n \div P = m - 1
    <3>1. m - 1 \in Nat /\ P * (m - 1) = m * P - P
      BY <2>1, <2>3
    <3> DEFINE u == m * P
               v == P * (m - 1)
    <3>2. u \in Nat /\ v \in Nat
      BY <2>1, <2>3, <3>1
    <3>3. v = u - P /\ n + 1 = u
      BY <2>3, <3>1
    <3>4. v <= n /\ n < v + P
      <4> HIDE DEF u, v
      <4> QED BY <2>1, <3>2, <3>3
    <3> DEFINE w == m - 1
    <3>5. w \in Nat /\ P * w <= n /\ n < P * w + P /\ P \in Nat \ {0} /\ n \in Nat
      BY <2>1, <3>1, <3>4
    <3> HIDE DEF w
    <3>6. n \div P = w
      BY <3>5, DivUnique, ZenonT(30)
    <3> QED BY <3>6 DEF w
  <2> QED BY <2>3, <2>4 DEF P
<1> QED BY <1>2, <1>3

-----------------------------------------------------------------------------
(* The nodes of a tree *)

\* The hash of node j of level l of the tree over D; the last node of a level
\* may be cut off by the end of the tree.
NodeHash(D, l, j) ==
  MTHOf(D, j * Pow2[l], IF (j + 1) * Pow2[l] < Len(D) THEN (j + 1) * Pow2[l] ELSE Len(D))

\* Where MTH splits entries that a node of level l and something after it hold.
LEMMA MTHSplitsAt ==
  ASSUME NEW D, Len(D) \in Nat, NEW l \in Nat, NEW s \in Nat, NEW e \in 0 .. Len(D),
         s + Pow2[l] < e, e <= s + 2 * Pow2[l]
  PROVE  MTHOf(D, s, e) = HashInternal(MTHOf(D, s, s + Pow2[l]), MTHOf(D, s + Pow2[l], e))
<1>1. Pow2[l] \in Nat \ {0}
  BY Pow2Positive
<1>2. s \in 0 .. Len(D) /\ e - s \in Nat /\ e - s > 1 /\ Pow2[l] < e - s /\ e - s <= 2 * Pow2[l]
  BY <1>1
<1>3. Split(e - s) = Pow2[l]
  BY <1>2, SplitIs
<1> QED BY <1>2, <1>3, MTHOfDef

\* A node with a right child is the hash of its two children.
LEMMA NodeSplits ==
  ASSUME NEW D, Len(D) \in Nat, NEW l \in Nat, NEW j \in Nat,
         (2 * j + 1) * Pow2[l] < Len(D)
  PROVE  NodeHash(D, l + 1, j) = HashInternal(NodeHash(D, l, 2 * j), NodeHash(D, l, 2 * j + 1))
<1> DEFINE P == Pow2[l]
           n == Len(D)
           s == j * (2 * P)
           e == IF s + 2 * P < n THEN s + 2 * P ELSE n
<1>1. P \in Nat \ {0} /\ Pow2[l + 1] = 2 * P
  BY Pow2Positive
<1> HIDE DEF P
<1>2. /\ s \in Nat /\ (j + 1) * (2 * P) = s + 2 * P /\ (2 * j) * P = s
      /\ (2 * j + 1) * P = s + P /\ ((2 * j + 1) + 1) * P = s + 2 * P
  BY <1>1
<1>3. s + P < n
  BY <1>2 DEF P
<1>4. NodeHash(D, l + 1, j) = MTHOf(D, s, e)
  BY <1>1, <1>2 DEF NodeHash
<1>5. NodeHash(D, l, 2 * j) = MTHOf(D, s, s + P) /\ NodeHash(D, l, 2 * j + 1) = MTHOf(D, s + P, e)
  BY <1>2, <1>3 DEF NodeHash, P
<1> HIDE DEF s
<1>6. s \in Nat /\ e \in 0 .. n /\ s + P < e /\ e <= s + 2 * P
  BY <1>1, <1>2, <1>3
<1> HIDE DEF e
<1>7. MTHOf(D, s, e) = HashInternal(MTHOf(D, s, s + P), MTHOf(D, s + P, e))
  BY <1>6, MTHSplitsAt DEF P
<1> QED BY <1>4, <1>5, <1>7

\* The last node of a level reaches to the end of the tree.
LEMMA LastNode ==
  ASSUME NEW D, Len(D) \in Nat \ {0}, NEW l \in Nat
  PROVE  LET j == (Len(D) - 1) \div Pow2[l]
         IN  j \in Nat /\ j * Pow2[l] < Len(D) /\ Len(D) <= (j + 1) * Pow2[l]
             /\ NodeHash(D, l, j) = MTHOf(D, j * Pow2[l], Len(D))
<1> DEFINE P == Pow2[l]
           n == Len(D)
           j == (n - 1) \div P
<1>1. P \in Nat \ {0} /\ n - 1 \in Nat /\ n \in Nat
  BY Pow2Positive
<1>2. j \in Nat /\ P * j <= n - 1 /\ n - 1 < P * j + P
  <2> HIDE DEF P, n
  <2> QED BY <1>1, DivBounds
<1> HIDE DEF j, P
<1>3. j * P = P * j /\ (j + 1) * P = P * j + P /\ P * j \in Nat
  BY <1>1, <1>2
<1>4. j * P < n /\ n <= (j + 1) * P
  BY <1>1, <1>2, <1>3
<1>5. NodeHash(D, l, j) = MTHOf(D, j * P, n)
  BY <1>1, <1>3, <1>4 DEF NodeHash, P
<1> QED BY <1>2, <1>4, <1>5 DEF P, j

\* A node that begins inside the tree has a hash.
LEMMA NodeExists ==
  ASSUME NEW D, Len(D) \in Nat, NEW l \in Nat, NEW j \in Nat, j * Pow2[l] < Len(D)
  PROVE  NodeHash(D, l, j) # Unavailable
<1> DEFINE P == Pow2[l]
           n == Len(D)
           s == j * P
           e == IF (j + 1) * P < n THEN (j + 1) * P ELSE n
<1>1. P \in Nat \ {0} /\ n \in Nat
  BY Pow2Positive
<1> HIDE DEF P
<1>2. s \in Nat /\ (j + 1) * P = s + P
  BY <1>1
<1>3. s < n
  BY DEF P
<1>4. NodeHash(D, l, j) = MTHOf(D, s, e)
  BY DEF NodeHash, P
<1> HIDE DEF s
<1>5. e - s \in Nat \ {0} /\ s + (e - s) = e /\ e <= n
  BY <1>1, <1>2, <1>3
<1> HIDE DEF e
<1>6. MTHOf(D, s, s + (e - s)) # Unavailable
  BY <1>1, <1>2, <1>5, MTHAgree DEF HashesAgree
<1> QED BY <1>4, <1>5, <1>6

\* One more: the bits up to the lowest zero bit change, the others do not.
LEMMA AddOne ==
  ASSUME NEW n \in Nat, NEW k, k = TrailingOnes(n)
  PROVE  /\ k \in Nat
         /\ \A l \in 0 .. k : n + 1 = (n \div Pow2[l] + 1) * Pow2[l]
         /\ \A l \in 0 .. k - 1 : (n \div Pow2[l]) % 2 = 1
         /\ (n \div Pow2[k]) % 2 = 0
         /\ \A l \in Nat : (n + 1) \div Pow2[l]
                             = IF l <= k THEN n \div Pow2[l] + 1 ELSE n \div Pow2[l]
<1> DEFINE K == Pow2[k]
           T == Pow2[k + 1]
           q == n \div T
<1>1. /\ k \in Nat /\ n % T = K - 1
      /\ \A l \in 0 .. k : n + 1 = (n \div Pow2[l] + 1) * Pow2[l]
  BY OnesOf
<1>2. K \in Nat \ {0} /\ T \in Nat \ {0} /\ T = 2 * K
  BY <1>1, Pow2Positive
<1>3. q \in Nat /\ n = T * q + (K - 1)
  <2> DEFINE r == K - 1
  <2>1. n % T = r
    BY <1>1
  <2> HIDE DEF T, K, q, r
  <2>2. n \div T \in Nat /\ n = T * (n \div T) + r
    <3>1. T \in Nat \ {0}
      BY <1>2
    <3> QED BY <2>1, <3>1, DivWithRest, Zenon
  <2> QED BY <2>2 DEF r, q
<1> HIDE DEF K, T, q
<1>4. T * q = K * (2 * q) /\ K * (2 * q + 1) = K * (2 * q) + K /\ K * (2 * q) \in Nat
  BY <1>2, <1>3
<1>5. n \div K = 2 * q /\ (n + 1) \div T = q
  <2> DEFINE u == K * (2 * q)
             v == 2 * q
  <2>1. u \in Nat /\ n = u + (K - 1) /\ v \in Nat
    BY <1>3, <1>4
  <2> HIDE DEF u
  <2>2. u <= n /\ n < u + K /\ u <= n + 1
    BY <1>2, <2>1
  <2>3. n \div K = v
    <3>1. K * v <= n /\ n < K * v + K
      <4>1. u <= n /\ n < u + K
        BY <1>2, <2>1
      <4> QED BY <4>1 DEF u
    <3> HIDE DEF v
    <3> QED BY <1>2, <2>1, <3>1, DivUnique
  <2>4. (n + 1) \div T = q
    <3>1. T * q <= n + 1 /\ n + 1 < T * q + T
      <4>1. u <= n + 1 /\ n + 1 < u + T
        BY <1>2, <2>1
      <4> QED BY <1>4, <4>1 DEF u
    <3>2. n + 1 \in Nat
      OBVIOUS
    <3> QED BY <1>2, <1>3, <3>1, <3>2, DivUnique
  <2> QED BY <2>3, <2>4 DEF v
<1>6. (n \div K) % 2 = 0
  BY <1>3, <1>5
<1>7. ASSUME NEW l \in 0 .. k PROVE (n + 1) \div Pow2[l] = n \div Pow2[l] + 1
  <2> DEFINE L == Pow2[l]
             a == n \div L
             b == a + 1
  <2>1. L \in Nat \ {0} /\ a \in Nat /\ n + 1 = b * L
    <3>1. l \in Nat
      BY <1>1
    <3>2. L \in Nat \ {0}
      BY <3>1, Pow2Positive
    <3>3. n + 1 = b * L
      BY <1>1
    <3> HIDE DEF L
    <3> QED BY <3>2, <3>3, DivBounds
  <2> HIDE DEF L, a
  <2>2. b \in Nat
    BY <2>1
  <2>3. L * b <= n + 1 /\ n + 1 < L * b + L /\ n + 1 \in Nat
    <3> HIDE DEF b
    <3> DEFINE x == L * b
    <3>1. x = n + 1
      BY <2>1, <2>2
    <3> HIDE DEF x
    <3>2. x <= n + 1 /\ n + 1 < x + L /\ n + 1 \in Nat
      BY <2>1, <3>1
    <3> QED BY <3>2 DEF x
  <2>4. (n + 1) \div L = b
    <3> HIDE DEF b
    <3> QED BY <2>1, <2>2, <2>3, DivUnique
  <2> QED BY <2>4 DEF L, a
<1>8. ASSUME NEW l \in 0 .. k - 1 PROVE (n \div Pow2[l]) % 2 = 1
  <2>1. l \in 0 .. k /\ l + 1 \in 0 .. k /\ l \in Nat /\ l + 1 \in Nat /\ (l + 1) - l = 1
    BY <1>1
  <2> DEFINE one == 1
             m == n + 1
  <2>2. Pow2[one] = 2 /\ one \in Nat /\ m \in Nat
    <3>1. Pow2[0 + 1] = 2 * Pow2[0] /\ Pow2[0] = 1
      BY Pow2Positive
    <3> QED BY <3>1
  <2> HIDE DEF one, m
  <2>3. n \div Pow2[l + one] = (n \div Pow2[l]) \div Pow2[one]
    BY <2>1, <2>2, ShiftTwice
  <2>4. m \div Pow2[l + one] = (m \div Pow2[l]) \div Pow2[one]
    BY <2>1, <2>2, ShiftTwice
  <2>5. /\ (n + 1) \div Pow2[l] = n \div Pow2[l] + 1
        /\ (n + 1) \div Pow2[l + 1] = n \div Pow2[l + 1] + 1
    BY <1>7, <2>1
  <2> DEFINE a == n \div Pow2[l]
  <2>6. a \in Nat
    BY <2>1, Pow2Positive, DivBounds
  <2>7. (a + 1) \div 2 = a \div 2 + 1
    BY <2>2, <2>3, <2>4, <2>5 DEF one, m
  <2> HIDE DEF a
  <2>8. a % 2 = 1
    BY <2>6, <2>7
  <2> QED BY <2>8 DEF a
<1>9. ASSUME NEW l \in Nat, l > k PROVE (n + 1) \div Pow2[l] = n \div Pow2[l]
  <2>1. k + 1 \in Nat /\ k + 1 <= l /\ n + 1 \in Nat
    BY <1>1, <1>9
  <2>2. /\ (n + 1) \div Pow2[l] = ((n + 1) \div T) \div Pow2[l - (k + 1)]
        /\ n \div Pow2[l] = (n \div T) \div Pow2[l - (k + 1)]
    BY <2>1, ShiftSplit DEF T
  <2> QED BY <1>5, <2>2 DEF q
<1> QED BY <1>1, <1>6, <1>7, <1>8, <1>9 DEF K

-----------------------------------------------------------------------------
(* Lists *)

\* s is a list of n elements.
ListOf(s, n) == s = [i \in 1 .. n |-> s[i]]

\* What is known of a list's elements and length.
LEMMA ListIsSeq ==
  ASSUME NEW n \in Nat, NEW s, ListOf(s, n)
  PROVE  /\ s \in Seq({ s[i] : i \in 1 .. n })
         /\ Len(s) = n
         /\ DOMAIN s = 1 .. n
<1> DEFINE S == { s[i] : i \in 1 .. n }
           t == [i \in 1 .. n |-> s[i]]
<1>1. t \in [1 .. n -> S]
  OBVIOUS
<1>2. s = t
  BY DEF ListOf
<1> HIDE DEF t, S
<1>3. s \in [1 .. n -> S]
  BY <1>1, <1>2
<1>4. s \in Seq(S)
  BY <1>3
<1>5. Len(s) = n /\ DOMAIN s = 1 .. n
  BY <1>3, <1>4
<1> QED BY <1>4, <1>5 DEF S

\* A sequence is the list of its elements.
LEMMA SeqIsList ==
  ASSUME NEW S, NEW s \in Seq(S)
  PROVE  ListOf(s, Len(s))
BY DEF ListOf

\* The list t is the list s of n elements with e after it.
AddsTo(s, n, e, t) ==
  /\ ListOf(t, n + 1)
  /\ \A i \in 1 .. n : t[i] = s[i]
  /\ t[n + 1] = e

\* Append adds one element at the end.
LEMMA AppendToList ==
  ASSUME NEW n \in Nat, NEW s, ListOf(s, n), NEW e, NEW t, t = Append(s, e)
  PROVE  AddsTo(s, n, e, t)
<1> DEFINE S == { s[i] : i \in 1 .. n } \cup {e}
<1>1. s \in Seq({ s[i] : i \in 1 .. n }) /\ Len(s) = n
  BY ListIsSeq
<1>2. { s[i] : i \in 1 .. n } \subseteq S /\ e \in S
  OBVIOUS
<1> HIDE DEF S
<1>3. s \in Seq(S)
  BY <1>1, <1>2, SeqMonotonic
<1>4. /\ t \in Seq(S) /\ Len(t) = n + 1
      /\ \A i \in 1 .. n : t[i] = s[i]
      /\ t[n + 1] = e
  BY <1>1, <1>2, <1>3, AppendProperties
<1>5. ListOf(t, n + 1)
  BY <1>4, SeqIsList
<1> QED BY <1>4, <1>5 DEF AddsTo

-----------------------------------------------------------------------------
(* Complete nodes *)

\* The hash of node j of level l, all of whose leaves are in the log.
FullNode(D, l, j) == MTHOf(D, j * Pow2[l], (j + 1) * Pow2[l])

\* The hash of one entry, and of the two children of a node.
LEMMA FullNodeLeaf ==
  ASSUME NEW D, Len(D) \in Nat, NEW j \in Nat, j + 1 <= Len(D)
  PROVE  FullNode(D, 0, j) = HashLeaf(D[j + 1])
<1>1. Pow2[0] = 1
  BY Pow2Positive
<1>2. FullNode(D, 0, j) = MTHOf(D, j, j + 1)
  BY <1>1 DEF FullNode
<1>3. j \in 0 .. Len(D) /\ j + 1 \in 0 .. Len(D) /\ (j + 1) - j <= 1
  OBVIOUS
<1> QED BY <1>2, <1>3, MTHOfDef

\* The hash of entries does not depend on what follows them.
LEMMA HashOfPrefix ==
  ASSUME NEW A, Len(A) \in Nat, NEW B, Len(B) \in Nat, Len(A) <= Len(B),
         \A i \in 1 .. Len(A) : B[i] = A[i],
         NEW s \in Nat, NEW e \in Nat, s < e, e <= Len(A)
  PROVE  /\ MTHOf(B, s, e) = MTHOf(A, s, e)
         /\ MTHOf(A, s, e) # Unavailable
<1> DEFINE m == e - s
<1>1. m \in Nat \ {0} /\ s + m = e
  OBVIOUS
<1> HIDE DEF m
<1>2. HashesAgree(B, s, A, s, m)
  BY <1>1, MTHAgree
<1>3. \A i \in 1 .. m : B[s + i] = A[s + i]
  <2> TAKE i \in 1 .. m
  <2>1. s + i \in 1 .. Len(A)
    BY <1>1
  <2> QED BY <2>1
<1> QED BY <1>1, <1>2, <1>3 DEF HashesAgree

\* Where the leaves of a complete node are.
LEMMA FullNodeInside ==
  ASSUME NEW n \in Nat, NEW l \in Nat, NEW j \in Nat, j < n \div Pow2[l]
  PROVE  /\ j * Pow2[l] \in Nat
         /\ (j + 1) * Pow2[l] \in Nat
         /\ j * Pow2[l] < (j + 1) * Pow2[l]
         /\ (j + 1) * Pow2[l] <= n
         /\ (j + 1) * Pow2[l] = j * Pow2[l] + Pow2[l]
<1> DEFINE P == Pow2[l]
           q == n \div P
<1>1. P \in Nat \ {0}
  BY Pow2Positive
<1> HIDE DEF P
<1>2. q \in Nat /\ P * q <= n
  BY <1>1, DivBounds
<1>3. j + 1 <= q
  BY <1>1, <1>2 DEF P
<1> HIDE DEF q
<1>4. /\ j * P \in Nat /\ (j + 1) * P \in Nat /\ (j + 1) * P = j * P + P
      /\ (j + 1) * P <= q * P /\ q * P = P * q
  BY <1>1, <1>2, <1>3
<1> DEFINE u == (j + 1) * P
           v == j * P
           w == q * P
<1>5. u = v + P /\ u <= w /\ w <= n /\ u \in Nat /\ v \in Nat /\ w \in Nat
  BY <1>1, <1>2, <1>4
<1> HIDE DEF u, v, w
<1>6. v < u /\ u <= n
  BY <1>1, <1>5
<1> QED BY <1>4, <1>6 DEF u, v, P

\* A complete node keeps its hash when entries are added.
LEMMA FullNodeKept ==
  ASSUME NEW A, Len(A) \in Nat, NEW B, Len(B) \in Nat, Len(A) <= Len(B),
         \A i \in 1 .. Len(A) : B[i] = A[i],
         NEW l \in Nat, NEW j \in Nat, j < Len(A) \div Pow2[l]
  PROVE  FullNode(B, l, j) = FullNode(A, l, j) /\ FullNode(A, l, j) # Unavailable
<1> DEFINE s == j * Pow2[l]
           e == (j + 1) * Pow2[l]
<1>1. s \in Nat /\ e \in Nat /\ s < e /\ e <= Len(A)
  BY FullNodeInside
<1> HIDE DEF s, e
<1>2. MTHOf(B, s, e) = MTHOf(A, s, e) /\ MTHOf(A, s, e) # Unavailable
  BY <1>1, HashOfPrefix
<1> QED BY <1>2 DEF FullNode, s, e

-----------------------------------------------------------------------------
(* The tree of a log holds the hashes of the log's entries *)

\* The nodes of level l of a log's tree.
HoldsLevel(nodes, D, l) ==
  /\ ListOf(nodes, Len(D) \div Pow2[l])
  /\ \A j \in 0 .. Len(D) \div Pow2[l] - 1 : nodes[j + 1] = FullNode(D, l, j)

\* A leaf hash may be gone, but not that of a last leaf without a sibling.
HoldsLeaves(leaves, D) ==
  /\ ListOf(leaves, Len(D))
  /\ \A i \in 1 .. Len(D) : leaves[i] \in {HashLeaf(D[i]), Unavailable}
  /\ Len(D) % 2 = 1 => leaves[Len(D)] = HashLeaf(D[Len(D)])

\* The levels of a tree are those with a node.
HoldsLevels(levels, D) ==
  /\ Len(levels) \in Nat
  /\ ListOf(levels, Len(levels))
  /\ Len(D) < Pow2[Len(levels) + 1]
  /\ \A l \in 1 .. Len(levels) : Pow2[l] <= Len(D) /\ HoldsLevel(levels[l], D, l)

\* The right edge: a node for each bit of the size.
HoldsEdge(tree, D) ==
  /\ Len(tree.pending) \in Nat
  /\ \A l \in Nat : (Len(D) \div Pow2[l]) % 2 = 1 =>
       Pending(tree, l) = FullNode(D, l, Len(D) \div Pow2[l] - 1)

\* A tree as it is stored, without its right edge.
IsTreeOf(tree, D) ==
  /\ DOMAIN tree = {"leaves", "levels", "pending"}
  /\ HoldsLeaves(tree.leaves, D)
  /\ HoldsLevels(tree.levels, D)

\* An edge node of a level is there to be merged.
LEMMA CanAlwaysAppend ==
  ASSUME NEW D, Len(D) \in Nat, NEW tree, Size(tree) = Len(D), HoldsEdge(tree, D)
  PROVE  CanAppend(tree)
<1> DEFINE n == Len(D)
           k == TrailingOnes(n)
<1>1. k \in Nat /\ \A l \in 0 .. k - 1 : (n \div Pow2[l]) % 2 = 1
  BY AddOne
<1> HIDE DEF k
<1>2. ASSUME NEW l \in 0 .. k - 1 PROVE Pending(tree, l) # Unavailable
  <2>1. l \in Nat /\ (n \div Pow2[l]) % 2 = 1
    BY <1>1
  <2>2. Pending(tree, l) = FullNode(D, l, n \div Pow2[l] - 1)
    BY <2>1 DEF HoldsEdge
  <2>3. n \div Pow2[l] \in Nat
    BY <2>1, Pow2Positive, DivBounds
  <2> DEFINE q == n \div Pow2[l]
  <2>4. q - 1 \in Nat /\ q - 1 < q
    BY <2>1, <2>3
  <2>5. FullNode(D, l, q - 1) # Unavailable
    BY <2>1, <2>4, FullNodeKept
  <2> QED BY <2>2, <2>5
<1> QED BY <1>2 DEF CanAppend, k

\* A hash that is combined with one hash after the other.
HashesInTurn(f, n, first, p) ==
  f = [k \in 0 .. n |-> IF k = 0 THEN first ELSE HashInternal(p[k], f[k - 1])]

\* The loop that hashes in one node after another has a result.
LEMMA HashLoop ==
  ASSUME NEW n \in Nat, NEW first, NEW p
  PROVE  \E f : HashesInTurn(f, n, first, p)
<1> DEFINE I == 0 .. n
           Step(a, k) == HashInternal(p[k], a)
           Body(f, k) == IF k = 0 THEN first ELSE Step(f[k - 1], k)
           Upto(f, m) == \A k \in I : k <= m => f[k] = Body(f, k)
           S == { m \in Nat : \E f : Upto(f, m) }
<1> HIDE DEF Step
<1>1. 0 \in S
  <2>1. Upto([k \in I |-> first], 0)
    OBVIOUS
  <2> HIDE DEF Upto
  <2> QED BY <2>1
<1>2. ASSUME NEW m \in Nat, m \in S PROVE m + 1 \in S
  <2>1. PICK f : Upto(f, m)
    BY <1>2
  <2> DEFINE g == [k \in I |-> Body(f, k)]
  <2>2. ASSUME NEW k \in I, k <= m PROVE g[k] = f[k]
    BY <2>1, <2>2
  <2>3. ASSUME NEW k \in I, k <= m + 1 PROVE g[k] = Body(g, k)
    <3>1. CASE k = 0
      BY <3>1
    <3>2. CASE k # 0
      <4>1. k - 1 \in I /\ k - 1 <= m
        BY <2>3, <3>2
      <4>2. g[k - 1] = f[k - 1]
        BY <2>2, <4>1
      <4> QED BY <3>2, <4>2
    <3> QED BY <3>1, <3>2
  <2>4. Upto(g, m + 1)
    <3> HIDE DEF g
    <3> QED BY <2>3
  <2> HIDE DEF g, Upto
  <2> QED BY <2>4
<1>3. \A m \in Nat : m \in S
  <2> HIDE DEF S
  <2> QED BY <1>1, <1>2, Induction
<1>4. PICK f : Upto(f, n)
  BY <1>3
<1>5. \A k \in I : f[k] = Body(f, k)
  BY <1>4
<1> DEFINE g == [k \in I |-> f[k]]
<1>6. g = [k \in I |-> Body(g, k)]
  <2>1. ASSUME NEW k \in I PROVE f[k] = Body(g, k)
    <3>1. CASE k = 0
      BY <1>5, <3>1
    <3>2. CASE k # 0
      <4>1. k - 1 \in I
        BY <3>2
      <4>2. g[k - 1] = f[k - 1]
        BY <4>1
      <4> QED BY <1>5, <3>2, <4>2
    <3> QED BY <3>1, <3>2
  <2> HIDE DEF Body, I
  <2> QED BY <2>1
<1> HIDE DEF g
<1>7. HashesInTurn(g, n, first, p)
  BY <1>6 DEF HashesInTurn, Step
<1> QED BY <1>7

\* The nodes that a new leaf closes, and the tree it makes.
ClosesNodes(node, tree, leaf, top) ==
  /\ node[0] = leaf
  /\ \A l \in 1 .. top : node[l] = HashInternal(Pending(tree, l - 1), node[l - 1])

AppendedLevels(tree, node, top) ==
  [l \in 1 .. IF top > Len(tree.levels) THEN top ELSE Len(tree.levels) |->
     IF l > Len(tree.levels) THEN << node[l] >>
     ELSE IF l <= top THEN Append(tree.levels[l], node[l])
     ELSE tree.levels[l]]

AppendedEdge(tree, node, top) ==
  [l \in 1 .. IF top < Len(tree.pending) THEN Len(tree.pending) ELSE top + 1 |->
     IF l = top + 1 THEN node[top] ELSE Pending(tree, l - 1)]

\* What append_leaf_hash makes of the levels and of the right edge.
LEMMA AppendLeafIs ==
  ASSUME NEW tree, NEW leaf, TrailingOnes(Size(tree)) \in Nat
  PROVE  LET top == TrailingOnes(Size(tree))
         IN  \E node :
               /\ ClosesNodes(node, tree, leaf, top)
               /\ AppendLeaf(tree, leaf) = [leaves  |-> Append(tree.leaves, leaf),
                                            levels  |-> AppendedLevels(tree, node, top),
                                            pending |-> AppendedEdge(tree, node, top)]
<1> DEFINE top == TrailingOnes(Size(tree))
           p == [l \in 1 .. top |-> Pending(tree, l - 1)]
           Step(a, l) == HashInternal(Pending(tree, l - 1), a)
           Body(f, l) == IF l = 0 THEN leaf ELSE Step(f[l - 1], l)
           node == CHOOSE f : f = [l \in 0 .. top |-> Body(f, l)]
<1>1. PICK f : HashesInTurn(f, top, leaf, p)
  <2>1. top \in Nat
    OBVIOUS
  <2> HIDE DEF p, top
  <2> QED BY <2>1, HashLoop
<1>2. ASSUME NEW k \in 0 .. top
      PROVE  (IF k = 0 THEN leaf ELSE HashInternal(p[k], f[k - 1])) = Body(f, k)
  <2>1. CASE k = 0
    BY <2>1
  <2>2. CASE k # 0
    <3>1. p[k] = Pending(tree, k - 1)
      BY <2>2
    <3> HIDE DEF p
    <3> QED BY <2>2, <3>1
  <2> QED BY <2>1, <2>2
<1>3. f = [l \in 0 .. top |-> Body(f, l)]
  <2>1. f = [k \in 0 .. top |-> IF k = 0 THEN leaf ELSE HashInternal(p[k], f[k - 1])]
    BY <1>1 DEF HashesInTurn
  <2> HIDE DEF Body, p
  <2> QED BY <1>2, <2>1
<1>4. node = [l \in 0 .. top |-> Body(node, l)]
  <2> HIDE DEF Body
  <2> QED BY <1>3
<1>5. AppendLeaf(tree, leaf) = [leaves  |-> Append(tree.leaves, leaf),
                                levels  |-> AppendedLevels(tree, node, top),
                                pending |-> AppendedEdge(tree, node, top)]
  BY DEF AppendLeaf, AppendedLevels, AppendedEdge
<1>6. \A l \in 0 .. top : node[l] = Body(node, l)
  <2> HIDE DEF node, Body
  <2> QED BY <1>4
<1> HIDE DEF node
<1>7. ClosesNodes(node, tree, leaf, top)
  <2>1. node[0] = leaf
    BY <1>6
  <2>2. ASSUME NEW l \in 1 .. top PROVE node[l] = HashInternal(Pending(tree, l - 1), node[l - 1])
    BY <1>6
  <2> QED BY <2>1, <2>2 DEF ClosesNodes
<1> QED BY <1>5, <1>7

\* One shift more.
LEMMA ShiftOnce ==
  ASSUME NEW x \in Nat, NEW l \in Nat
  PROVE  x \div Pow2[l + 1] = (x \div Pow2[l]) \div 2
<1> DEFINE one == 1
<1>1. Pow2[one] = 2 /\ one \in Nat
  <2>1. Pow2[0 + 1] = 2 * Pow2[0] /\ Pow2[0] = 1
    BY Pow2Positive
  <2> QED BY <2>1
<1> HIDE DEF one
<1>2. x \div Pow2[l + one] = (x \div Pow2[l]) \div Pow2[one]
  BY <1>1, ShiftTwice
<1> QED BY <1>1, <1>2 DEF one

\* A complete node is the hash of its two children.
LEMMA FullNodeSplits ==
  ASSUME NEW D, Len(D) \in Nat, NEW l \in Nat, NEW j \in Nat,
         j < Len(D) \div Pow2[l + 1]
  PROVE  FullNode(D, l + 1, j) = HashInternal(FullNode(D, l, 2 * j), FullNode(D, l, 2 * j + 1))
<1> DEFINE P == Pow2[l]
           s == j * Pow2[l + 1]
           e == (j + 1) * Pow2[l + 1]
<1>1. P \in Nat \ {0} /\ Pow2[l + 1] = 2 * P
  BY Pow2Positive
<1>2. s \in Nat /\ e \in Nat /\ s < e /\ e <= Len(D) /\ e = s + Pow2[l + 1]
  BY FullNodeInside
<1>3. /\ (2 * j) * P = s /\ (2 * j + 1) * P = s + P
      /\ ((2 * j) + 1) * P = s + P /\ ((2 * j + 1) + 1) * P = e
  <2>1. (2 * j) * P = j * (2 * P) /\ (2 * j + 1) * P = j * (2 * P) + P
        /\ ((2 * j + 1) + 1) * P = j * (2 * P) + 2 * P
    <3> HIDE DEF P
    <3> QED BY <1>1
  <2> QED BY <1>1, <1>2, <2>1
<1> HIDE DEF s, e
<1>4. e = s + 2 * P /\ s + P < e /\ e \in 0 .. Len(D) /\ e <= s + 2 * P
  BY <1>1, <1>2
<1>5. MTHOf(D, s, e) = HashInternal(MTHOf(D, s, s + P), MTHOf(D, s + P, e))
  BY <1>2, <1>4, MTHSplitsAt
<1>6. FullNode(D, l + 1, j) = MTHOf(D, s, e)
  BY DEF FullNode, s, e
<1>7. FullNode(D, l, 2 * j) = MTHOf(D, s, s + P) /\ FullNode(D, l, 2 * j + 1) = MTHOf(D, s + P, e)
  BY <1>3 DEF FullNode
<1> QED BY <1>5, <1>6, <1>7

\* B is A and one element more.
OneMore(A, B, e) ==
  /\ Len(A) \in Nat /\ Len(B) = Len(A) + 1
  /\ \A i \in 1 .. Len(A) : B[i] = A[i]
  /\ B[Len(B)] = e

\* The nodes that append_leaf_hash makes are those that the new leaf completes.
LEMMA ClosedNodes ==
  ASSUME NEW A, NEW B, NEW e, OneMore(A, B, e), NEW tree, HoldsEdge(tree, A),
         NEW top, top = TrailingOnes(Len(A)),
         NEW node, ClosesNodes(node, tree, HashLeaf(e), top)
  PROVE  \A l \in 0 .. top : node[l] = FullNode(B, l, Len(A) \div Pow2[l])
<1> DEFINE n == Len(A)
           S == { l \in Nat : l <= top => node[l] = FullNode(B, l, n \div Pow2[l]) }
<1>1. /\ n \in Nat /\ Len(B) = n + 1 /\ top \in Nat
      /\ \A l \in 0 .. top : (n + 1) \div Pow2[l] = n \div Pow2[l] + 1 /\ n \div Pow2[l] \in Nat
      /\ \A l \in 0 .. top - 1 : (n \div Pow2[l]) % 2 = 1
  <2>1. n \in Nat /\ Len(B) = n + 1
    BY DEF OneMore
  <2>2. /\ top \in Nat /\ \A l \in 0 .. top - 1 : (n \div Pow2[l]) % 2 = 1
        /\ \A l \in Nat : (n + 1) \div Pow2[l] = IF l <= top THEN n \div Pow2[l] + 1 ELSE n \div Pow2[l]
    BY <2>1, AddOne
  <2>3. \A l \in Nat : n \div Pow2[l] \in Nat
    BY <2>1, Pow2Positive, DivBounds
  <2> HIDE DEF n
  <2> QED BY <2>1, <2>2, <2>3
<1>2. 0 \in S
  <2>1. Pow2[0] = 1 /\ n \div 1 = n
    BY <1>1, Pow2Positive
  <2>2. n \div Pow2[0] = n
    BY <2>1
  <2>3. FullNode(B, 0, n) = HashLeaf(B[n + 1])
    <3>1. n \in Nat /\ Len(B) \in Nat /\ n + 1 <= Len(B)
      BY <1>1
    <3> HIDE DEF n
    <3> QED BY <3>1, FullNodeLeaf
  <2>4. B[n + 1] = e
    BY <1>1 DEF OneMore
  <2>5. node[0] = HashLeaf(e)
    BY DEF ClosesNodes
  <2> QED BY <2>2, <2>3, <2>4, <2>5
<1>3. ASSUME NEW l \in Nat, l \in S PROVE l + 1 \in S
  <2> SUFFICES ASSUME l + 1 <= top PROVE node[l + 1] = FullNode(B, l + 1, n \div Pow2[l + 1])
    OBVIOUS
  <2> DEFINE q == n \div Pow2[l]
             h == n \div Pow2[l + 1]
  <2>1. l \in 0 .. top /\ l \in 0 .. top - 1 /\ l + 1 \in 0 .. top /\ l + 1 \in 1 .. top /\ l <= top
    BY <1>1
  <2>2. /\ q \in Nat /\ q % 2 = 1 /\ h \in Nat
        /\ Len(B) \div Pow2[l] = q + 1 /\ Len(B) \div Pow2[l + 1] = h + 1
    <3> HIDE DEF n
    <3> QED BY <1>1, <2>1
  <2>3. h = q \div 2
    BY <1>1, ShiftOnce
  <2>4. node[l] = FullNode(B, l, q)
    BY <1>3, <2>1
  <2>5. Pending(tree, l) = FullNode(A, l, q - 1)
    BY <2>2 DEF HoldsEdge
  <2> HIDE DEF h
  <2>6. q = 2 * h + 1 /\ q - 1 = 2 * h
    <3> HIDE DEF q
    <3> QED BY <2>2, <2>3
  <2>7. FullNode(A, l, q - 1) = FullNode(B, l, q - 1)
    <3>1. q - 1 \in Nat /\ q - 1 < q
      BY <2>2, <2>6
    <3>2. Len(A) \in Nat /\ Len(B) \in Nat /\ Len(A) <= Len(B) /\ \A i \in 1 .. Len(A) : B[i] = A[i]
      BY <1>1 DEF OneMore
    <3> QED BY <3>1, <3>2, FullNodeKept
  <2>8. h < Len(B) \div Pow2[l + 1] /\ Len(B) \in Nat
    BY <1>1, <2>2
  <2>9. FullNode(B, l + 1, h) = HashInternal(FullNode(B, l, 2 * h), FullNode(B, l, 2 * h + 1))
    BY <2>2, <2>8, FullNodeSplits
  <2>10. node[l + 1] = HashInternal(Pending(tree, l), node[l])
    <3>1. (l + 1) - 1 = l
      OBVIOUS
    <3> QED BY <2>1, <3>1 DEF ClosesNodes
  <2>11. node[l + 1] = FullNode(B, l + 1, h)
    BY <2>4, <2>5, <2>6, <2>7, <2>9, <2>10
  <2> QED BY <2>11 DEF h
<1>4. \A l \in Nat : l \in S
  <2> HIDE DEF S
  <2> QED BY <1>2, <1>3, Induction
<1> QED BY <1>1, <1>4

\* A quotient is zero exactly below the divisor.
LEMMA DivZero ==
  ASSUME NEW t \in Nat \ {0}, NEW x \in Nat
  PROVE  x \div t = 0 <=> x < t
<1> DEFINE q == x \div t
<1>1. q \in Nat /\ t * q <= x /\ x < t * q + t
  BY DivBounds
<1> HIDE DEF q
<1>2. q = 0 => t * q = 0
  BY <1>1
<1>3. q # 0 => t * q >= t
  BY <1>1
<1> DEFINE u == t * q
<1>4. u \in Nat
  BY <1>1
<1>5. q = 0 <=> x < t
  <2>1. u <= x /\ x < u + t /\ (q = 0 => u = 0) /\ (q # 0 => u >= t)
    BY <1>1, <1>2, <1>3
  <2> HIDE DEF u
  <2> QED BY <1>1, <1>4, <2>1
<1> QED BY <1>5 DEF q

\* Every level still holds its complete nodes after an append.
LEMMA LevelsAfterAppend ==
  ASSUME NEW A, NEW B, NEW e, OneMore(A, B, e), NEW tree, HoldsLevels(tree.levels, A),
         NEW top, top = TrailingOnes(Len(A)),
         NEW node, \A l \in 0 .. top : node[l] = FullNode(B, l, Len(A) \div Pow2[l])
  PROVE  HoldsLevels(AppendedLevels(tree, node, top), B)
<1> DEFINE n == Len(A)
           h == Len(tree.levels)
           H == IF top > h THEN top ELSE h
           levels == AppendedLevels(tree, node, top)
<1>1. n \in Nat /\ Len(B) = n + 1 /\ h \in Nat /\ ListOf(tree.levels, h) /\ n < Pow2[h + 1]
  BY DEF OneMore, HoldsLevels
<1>2. /\ top \in Nat
      /\ \A l \in 0 .. top : n + 1 = (n \div Pow2[l] + 1) * Pow2[l]
      /\ \A l \in Nat : (n + 1) \div Pow2[l] = IF l <= top THEN n \div Pow2[l] + 1 ELSE n \div Pow2[l]
  BY <1>1, AddOne
<1>3. \A l \in 1 .. h : Pow2[l] <= n /\ HoldsLevel(tree.levels[l], A, l)
  BY DEF HoldsLevels
<1>4. H \in Nat /\ h <= H /\ top <= H /\ (H = h \/ (H = top /\ h < top))
  BY <1>1, <1>2
<1>5. /\ levels = [l \in 1 .. H |->
                     IF l > h THEN << node[l] >>
                     ELSE IF l <= top THEN Append(tree.levels[l], node[l])
                     ELSE tree.levels[l]]
  BY DEF AppendedLevels
<1>6. ListOf(levels, H) /\ Len(levels) = H
  <2>1. ListOf(levels, H)
    <3> HIDE DEF H, h, levels
    <3> QED BY <1>5 DEF ListOf
  <2> HIDE DEF H, levels
  <2> QED BY <1>4, <2>1, ListIsSeq
<1>7. \A l \in 1 .. H : levels[l] = IF l > h THEN << node[l] >>
                                    ELSE IF l <= top THEN Append(tree.levels[l], node[l])
                                    ELSE tree.levels[l]
  <2> HIDE DEF H, h, levels
  <2> QED BY <1>5
<1> HIDE DEF H, h, levels, n
\* A level above the old ones is closed by the new leaf alone.
<1>8. ASSUME NEW l \in Nat, h < l, l <= top PROVE n \div Pow2[l] = 0 /\ n + 1 = Pow2[l]
  <2>1. Pow2[l] \in Nat \ {0} /\ Pow2[h + 1] \in Nat
    <3>1. h + 1 \in Nat
      BY <1>1
    <3> QED BY <3>1, Pow2Positive
  <2>2. Pow2[h + 1] <= Pow2[l]
    <3>1. h + 1 \in Nat /\ h + 1 <= l
      BY <1>1, <1>8
    <3> QED BY <3>1, Pow2Monotone
  <2>3. n < Pow2[l]
    BY <1>1, <2>1, <2>2
  <2>4. n \div Pow2[l] = 0
    BY <1>1, <2>1, <2>3, DivZero
  <2>5. n + 1 = (0 + 1) * Pow2[l]
    BY <1>2, <1>8, <2>4
  <2> QED BY <2>1, <2>4, <2>5
<1>9. n + 1 < Pow2[H + 1]
  <2>1. CASE H = top /\ h < top
    <3>1. n + 1 = Pow2[top]
      BY <1>2, <1>8, <2>1
    <3>2. Pow2[top + 1] = 2 * Pow2[top] /\ Pow2[top] \in Nat \ {0}
      BY <1>2, Pow2Positive
    <3> QED BY <2>1, <3>1, <3>2
  <2>2. CASE H = h
    <3>1. h + 1 \in Nat /\ h + 1 > top /\ Pow2[h + 1] \in Nat \ {0} /\ n + 1 \in Nat
      BY <1>1, <1>2, <1>4, <2>2, Pow2Positive
    <3>2. (n + 1) \div Pow2[h + 1] = n \div Pow2[h + 1]
      BY <1>2, <3>1
    <3>3. n \div Pow2[h + 1] = 0
      BY <1>1, <3>1, DivZero
    <3> DEFINE m == n + 1
    <3> HIDE DEF m
    <3>4. m \div Pow2[h + 1] = 0 /\ m \in Nat
      BY <3>1, <3>2, <3>3 DEF m
    <3>5. m < Pow2[h + 1]
      BY <3>1, <3>4, DivZero
    <3> QED BY <2>2, <3>5 DEF m
  <2> QED BY <1>4, <2>1, <2>2
<1>10. ASSUME NEW l \in 1 .. H PROVE Pow2[l] <= n + 1 /\ HoldsLevel(levels[l], B, l)
  <2> DEFINE q == n \div Pow2[l]
  <2>0. l \in Nat
    BY <1>4
  <2>1. l \in Nat /\ Pow2[l] \in Nat \ {0} /\ q \in Nat
    BY <1>1, <2>0, Pow2Positive, DivBounds
  <2>2. \A j \in Nat : j < q => FullNode(B, l, j) = FullNode(A, l, j)
    <3>1. Len(A) \in Nat /\ Len(B) \in Nat /\ Len(A) <= Len(B) /\ \A i \in 1 .. Len(A) : B[i] = A[i]
      BY <1>1 DEF OneMore, n
    <3> QED BY <2>1, <3>1, FullNodeKept DEF n
  <2>3. CASE l > h
    <3>1. l <= top
      BY <1>4, <2>3, <1>1, <1>2
    <3>2. q = 0 /\ n + 1 = Pow2[l]
      BY <1>8, <2>1, <2>3, <3>1
    <3>3. levels[l] = << node[l] >> /\ node[l] = FullNode(B, l, 0)
      <4>1. l \in 0 .. top
        BY <2>1, <3>1, <1>2
      <4> QED BY <1>7, <2>3, <3>2, <4>1 DEF n
    <3>4. Len(B) \div Pow2[l] = 1
      <4>1. (n + 1) \div Pow2[l] = q + 1
        BY <1>2, <2>1, <3>1
      <4> QED BY <1>1, <3>2, <4>1
    <3>5. HoldsLevel(<< node[l] >>, B, l)
      <4>1. ListOf(<< node[l] >>, 1) /\ << node[l] >>[1] = node[l]
        BY DEF ListOf
      <4>2. \A j \in 0 .. 1 - 1 : j = 0 /\ j + 1 = 1
        OBVIOUS
      <4> QED BY <3>3, <3>4, <4>1, <4>2 DEF HoldsLevel
    <3>6. Pow2[l] <= n + 1
      BY <2>1, <3>2
    <3> QED BY <3>3, <3>5, <3>6
  <2>4. CASE l <= h /\ l <= top
    <3>1. l \in 1 .. h /\ l \in 0 .. top
      BY <1>1, <1>2, <2>1, <2>4
    <3>2. Pow2[l] <= n /\ ListOf(tree.levels[l], q)
          /\ \A j \in 0 .. q - 1 : tree.levels[l][j + 1] = FullNode(A, l, j)
      BY <1>3, <3>1 DEF HoldsLevel, n
    <3>3. levels[l] = Append(tree.levels[l], node[l])
      <4>1. ~(l > h)
        BY <1>1, <2>1, <2>4
      <4> QED BY <1>7, <2>4, <4>1
    <3>4. Len(B) \div Pow2[l] = q + 1
      BY <1>1, <1>2, <2>1, <2>4
    <3>5. node[l] = FullNode(B, l, q)
      BY <3>1 DEF n
    <3> HIDE DEF q
    <3>6. /\ ListOf(levels[l], q + 1)
          /\ \A i \in 1 .. q : levels[l][i] = tree.levels[l][i]
          /\ levels[l][q + 1] = node[l]
      <4>1. AddsTo(tree.levels[l], q, node[l], levels[l])
        BY <2>1, <3>2, <3>3, AppendToList
      <4> QED BY <4>1 DEF AddsTo
    <3>7. ASSUME NEW j \in 0 .. q PROVE levels[l][j + 1] = FullNode(B, l, j)
      <4>1. CASE j = q
        BY <3>5, <3>6, <4>1
      <4>2. CASE j # q
        <5>1. j \in 0 .. q - 1 /\ j + 1 \in 1 .. q /\ j < q /\ j \in Nat
          BY <2>1, <4>2
        <5> QED BY <2>2, <3>2, <3>6, <5>1
      <4> QED BY <4>1, <4>2
    <3>8. HoldsLevel(levels[l], B, l)
      <4>1. (q + 1) - 1 = q
        BY <2>1
      <4> QED BY <3>4, <3>6, <3>7, <4>1 DEF HoldsLevel
    <3>9. Pow2[l] <= n + 1
      BY <1>1, <2>1, <3>2
    <3> QED BY <3>8, <3>9
  <2>5. CASE l <= h /\ l > top
    <3>1. l \in 1 .. h
      BY <1>1, <2>1, <2>5
    <3>2. Pow2[l] <= n /\ ListOf(tree.levels[l], q)
          /\ \A j \in 0 .. q - 1 : tree.levels[l][j + 1] = FullNode(A, l, j)
      BY <1>3, <3>1 DEF HoldsLevel, n
    <3>3. levels[l] = tree.levels[l]
      <4>1. ~(l > h) /\ ~(l <= top)
        BY <1>1, <1>2, <2>1, <2>5
      <4> QED BY <1>7, <4>1
    <3>4. Len(B) \div Pow2[l] = q
      BY <1>1, <1>2, <2>1, <2>5
    <3> HIDE DEF q
    <3>5. \A j \in 0 .. q - 1 : tree.levels[l][j + 1] = FullNode(B, l, j)
      <4> TAKE j \in 0 .. q - 1
      <4>1. j \in Nat /\ j < q
        BY <2>1
      <4> QED BY <2>2, <3>2, <4>1
    <3>6. HoldsLevel(levels[l], B, l)
      BY <3>2, <3>3, <3>4, <3>5 DEF HoldsLevel
    <3>7. Pow2[l] <= n + 1
      BY <1>1, <2>1, <3>2
    <3> QED BY <3>6, <3>7
  <2> QED BY <1>1, <1>2, <2>1, <2>3, <2>4, <2>5
<1>11. HoldsLevels(levels, B)
  BY <1>1, <1>4, <1>6, <1>9, <1>10 DEF HoldsLevels
<1> QED BY <1>11 DEF levels

\* The right edge has a node for every one bit of the new size.
LEMMA EdgeAfterAppend ==
  ASSUME NEW A, NEW B, NEW e, OneMore(A, B, e), NEW tree, HoldsEdge(tree, A),
         NEW top, top = TrailingOnes(Len(A)),
         NEW node, \A l \in 0 .. top : node[l] = FullNode(B, l, Len(A) \div Pow2[l]),
         NEW new, new.pending = AppendedEdge(tree, node, top)
  PROVE  HoldsEdge(new, B)
<1> DEFINE n == Len(A)
           w == Len(tree.pending)
           W == IF top < w THEN w ELSE top + 1
           edge == new.pending
<1>1. n \in Nat /\ Len(B) = n + 1 /\ w \in Nat
  BY DEF OneMore, HoldsEdge
<1>2. /\ top \in Nat
      /\ (n \div Pow2[top]) % 2 = 0
      /\ \A l \in 0 .. top - 1 : (n \div Pow2[l]) % 2 = 1
      /\ \A l \in Nat : (n + 1) \div Pow2[l] = IF l <= top THEN n \div Pow2[l] + 1 ELSE n \div Pow2[l]
  BY <1>1, AddOne
<1>3. W \in Nat /\ w <= W /\ top + 1 <= W
  BY <1>1, <1>2
<1>4. edge = [l \in 1 .. W |-> IF l = top + 1 THEN node[top] ELSE Pending(tree, l - 1)]
  BY DEF AppendedEdge
<1> HIDE DEF W, w, edge
<1>5. Len(edge) = W /\ \A l \in 1 .. W : edge[l] = IF l = top + 1 THEN node[top] ELSE Pending(tree, l - 1)
  <2>1. ListOf(edge, W)
    BY <1>4 DEF ListOf
  <2> QED BY <1>3, <1>4, <2>1, ListIsSeq
<1> HIDE DEF n
<1>6. ASSUME NEW l \in Nat, (Len(B) \div Pow2[l]) % 2 = 1
      PROVE  Pending(new, l) = FullNode(B, l, Len(B) \div Pow2[l] - 1)
  <2> DEFINE q == n \div Pow2[l]
  <2>1. q \in Nat /\ Len(B) \div Pow2[l] = IF l <= top THEN q + 1 ELSE q
    BY <1>1, <1>2, Pow2Positive, DivBounds
  <2>2. CASE l < top
    <3>1. q % 2 = 1
      BY <1>2, <2>2
    <3>2. Len(B) \div Pow2[l] = q + 1
      BY <1>2, <2>1, <2>2
    <3> HIDE DEF q
    <3> QED BY <1>6, <2>1, <3>1, <3>2
  <2>3. CASE l = top
    <3>1. l < Len(edge) /\ l + 1 \in 1 .. W
      BY <1>2, <1>3, <1>5, <2>3
    <3>2. Pending(new, l) = edge[l + 1]
      BY <3>1 DEF Pending, edge
    <3>3. edge[l + 1] = node[top]
      BY <1>5, <2>3, <3>1
    <3>4. node[top] = FullNode(B, l, q)
      BY <1>2, <2>3 DEF n
    <3>5. Len(B) \div Pow2[l] - 1 = q
      <4>1. Len(B) \div Pow2[l] = q + 1
        BY <1>2, <2>1, <2>3
      <4> HIDE DEF q
      <4> QED BY <2>1, <4>1
    <3> QED BY <3>2, <3>3, <3>4, <3>5
  <2>4. CASE l > top
    <3>1. Len(B) \div Pow2[l] = q
      BY <1>2, <2>1, <2>4
    <3>2. Pending(tree, l) = FullNode(A, l, q - 1)
      BY <1>6, <3>1 DEF HoldsEdge, n
    <3>3. q % 2 = 1
      BY <1>6, <3>1
    <3>4. q - 1 \in Nat /\ q - 1 < q
      <4> HIDE DEF q
      <4> QED BY <2>1, <3>3
    <3>5. FullNode(B, l, q - 1) = FullNode(A, l, q - 1) /\ FullNode(A, l, q - 1) # Unavailable
      <4>1. Len(A) \in Nat /\ Len(B) \in Nat /\ Len(A) <= Len(B) /\ \A i \in 1 .. Len(A) : B[i] = A[i]
        BY <1>1 DEF OneMore, n
      <4> QED BY <3>4, <4>1, FullNodeKept DEF n
    <3>6. l < w
      BY <3>2, <3>5 DEF Pending, w
    <3>7. l < Len(edge) /\ l + 1 \in 1 .. W /\ l + 1 # top + 1 /\ (l + 1) - 1 = l
      BY <1>1, <1>2, <1>3, <1>5, <2>4, <3>6
    <3>8. Pending(new, l) = edge[l + 1]
      BY <3>7 DEF Pending, edge
    <3>9. edge[l + 1] = Pending(tree, l)
      BY <1>5, <3>7
    <3> QED BY <3>1, <3>2, <3>5, <3>8, <3>9
  <2> QED BY <1>2, <2>2, <2>3, <2>4
<1> QED BY <1>3, <1>5, <1>6 DEF HoldsEdge, edge

\* The leaf hashes are those of the entries, with the new one.
LEMMA LeavesAfterAppend ==
  ASSUME NEW A, NEW B, NEW e, OneMore(A, B, e), NEW leaves, HoldsLeaves(leaves, A)
  PROVE  HoldsLeaves(Append(leaves, HashLeaf(e)), B)
<1> DEFINE n == Len(A)
           leaf == HashLeaf(e)
           new == Append(leaves, leaf)
<1>1. n \in Nat /\ Len(B) = n + 1 /\ ListOf(leaves, n) /\ B[n + 1] = e
  BY DEF OneMore, HoldsLeaves
<1>2. AddsTo(leaves, n, leaf, new)
  BY <1>1, AppendToList
<1>3. ListOf(new, n + 1) /\ (\A i \in 1 .. n : new[i] = leaves[i]) /\ new[n + 1] = leaf
  BY <1>2 DEF AddsTo
<1> HIDE DEF leaf, new
<1>4. ASSUME NEW i \in 1 .. n + 1 PROVE new[i] \in {HashLeaf(B[i]), Unavailable}
  <2>1. CASE i = n + 1
    BY <1>1, <1>3, <2>1 DEF leaf
  <2>2. CASE i # n + 1
    <3>1. i \in 1 .. n
      BY <1>1, <2>2
    <3> QED BY <1>3, <3>1 DEF OneMore, HoldsLeaves
  <2> QED BY <2>1, <2>2
<1>5. HoldsLeaves(new, B)
  BY <1>1, <1>3, <1>4 DEF HoldsLeaves, leaf
<1> QED BY <1>5 DEF new, leaf

\* append_leaf_hash: the tree of a log becomes the tree of the log with the entry.
LEMMA AppendMakesTree ==
  ASSUME NEW A, NEW B, NEW e, OneMore(A, B, e),
         NEW tree, IsTreeOf(tree, A), HoldsEdge(tree, A)
  PROVE  LET new == AppendLeaf(tree, HashLeaf(e))
         IN  IsTreeOf(new, B) /\ HoldsEdge(new, B)
<1> DEFINE top == TrailingOnes(Size(tree))
           new == AppendLeaf(tree, HashLeaf(e))
<1>1. Len(A) \in Nat /\ Size(tree) = Len(A)
  <2>1. Len(A) \in Nat /\ ListOf(tree.leaves, Len(A))
    BY DEF OneMore, IsTreeOf, HoldsLeaves
  <2> QED BY <2>1, ListIsSeq DEF Size
<1>2. top \in Nat /\ top = TrailingOnes(Len(A))
  BY <1>1, AddOne
<1>3. PICK node : /\ ClosesNodes(node, tree, HashLeaf(e), top)
                  /\ new = [leaves  |-> Append(tree.leaves, HashLeaf(e)),
                            levels  |-> AppendedLevels(tree, node, top),
                            pending |-> AppendedEdge(tree, node, top)]
  BY <1>2, AppendLeafIs
<1> HIDE DEF top, new
<1>4. \A l \in 0 .. top : node[l] = FullNode(B, l, Len(A) \div Pow2[l])
  BY <1>2, <1>3, ClosedNodes
<1>5. /\ DOMAIN new = {"leaves", "levels", "pending"}
      /\ new.leaves = Append(tree.leaves, HashLeaf(e))
      /\ new.levels = AppendedLevels(tree, node, top)
      /\ new.pending = AppendedEdge(tree, node, top)
  BY <1>3
<1>6. HoldsLeaves(new.leaves, B)
  BY <1>5, LeavesAfterAppend DEF IsTreeOf
<1>7. HoldsLevels(new.levels, B)
  BY <1>2, <1>4, <1>5, LevelsAfterAppend DEF IsTreeOf
<1>8. HoldsEdge(new, B)
  BY <1>2, <1>4, <1>5, EdgeAfterAppend
<1> QED BY <1>5, <1>6, <1>7, <1>8 DEF IsTreeOf, new

-----------------------------------------------------------------------------
(* The complete nodes that a number of leaves consists of *)

\* A node's name: its level and its place there.
NodeRef == [level : Nat, index : Nat]

\* The node of level l whose end is the last multiple of 2^l up to n, for a bit
\* l of n; and where it starts.
IsPart(ref, n) ==
  /\ ref.level \in Nat
  /\ ref.index \in Nat
  /\ ref.index = n \div Pow2[ref.level] - 1
  /\ (n \div Pow2[ref.level]) % 2 = 1

StartOf(ref) == ref.index * Pow2[ref.level]

\* The entries from start to n, cut into such nodes.
CutInto(refs, start, n) ==
  /\ refs \in Seq(NodeRef)
  /\ start < n => Len(refs) > 0
  /\ \A r \in 1 .. Len(refs) : IsPart(refs[r], n)
  /\ Len(refs) > 0 =>
       /\ StartOf(refs[1]) = start
       /\ StartOf(refs[Len(refs)]) + Pow2[refs[Len(refs)].level] = n
  /\ \A r \in 1 .. Len(refs) - 1 :
       StartOf(refs[r + 1]) = StartOf(refs[r]) + Pow2[refs[r].level]
  /\ \A l \in Nat : (n \div Pow2[l]) % 2 = 1 /\ start < (n \div Pow2[l]) * Pow2[l] =>
       \E r \in 1 .. Len(refs) : refs[r].level = l

\* The largest node that fits at start.
NextRef(start, n) ==
  LET level == BitWidth(n - start) - 1
  IN  [level |-> level, index |-> start \div Pow2[level]]

\* The largest power of two that fits.
LEMMA LargestFits ==
  ASSUME NEW m \in Nat \ {0}, NEW b, b = BitWidth(m) - 1
  PROVE  b \in Nat /\ Pow2[b] <= m /\ m < 2 * Pow2[b]
<1> DEFINE w == BitWidth(m)
<1>1. w \in Nat /\ m < Pow2[w] /\ \A j \in 0 .. w - 1 : Pow2[j] <= m
  BY BitWidthDef
<1>2. w # 0
  BY <1>1, Pow2Positive
<1> HIDE DEF w
<1>3. b \in Nat /\ b \in 0 .. w - 1 /\ w = b + 1
  BY <1>1, <1>2 DEF w
<1>4. Pow2[b + 1] = 2 * Pow2[b]
  BY <1>3, Pow2Positive
<1> QED BY <1>1, <1>3, <1>4

\* f lists the nodes from every position on.
IsCut(f, n) ==
  \A s \in 0 .. n :
    f[s] = IF s = n THEN <<>>
           ELSE << NextRef(s, n) >> \o f[s + Pow2[NextRef(s, n).level]]

\* The node that comes next is inside the entries.
LEMMA NextRefIs ==
  ASSUME NEW n \in Nat, NEW s \in 0 .. n, s # n
  PROVE  /\ NextRef(s, n) \in NodeRef
         /\ Pow2[NextRef(s, n).level] \in Nat \ {0}
         /\ s + Pow2[NextRef(s, n).level] \in 0 .. n
         /\ n - s < 2 * Pow2[NextRef(s, n).level]
         /\ NextRef(s, n).index = s \div Pow2[NextRef(s, n).level]
<1> DEFINE b == BitWidth(n - s) - 1
           m == n - s
<1>1. m \in Nat \ {0}
  OBVIOUS
<1>2. b \in Nat /\ Pow2[b] <= m /\ m < 2 * Pow2[b]
  BY <1>1, LargestFits
<1>3. NextRef(s, n) = [level |-> b, index |-> s \div Pow2[b]]
  BY DEF NextRef
<1> HIDE DEF b
<1>4. Pow2[b] \in Nat \ {0}
  BY <1>2, Pow2Positive
<1>5. s \div Pow2[b] \in Nat
  <2>1. s \in Nat
    OBVIOUS
  <2> QED BY <1>4, <2>1, DivBounds
<1>6. NextRef(s, n).level = b /\ NextRef(s, n).index = s \div Pow2[b]
  BY <1>3
<1>7. NextRef(s, n) \in NodeRef
  BY <1>2, <1>3, <1>5 DEF NodeRef
<1> QED BY <1>2, <1>4, <1>6, <1>7

\* The loop of nodes_for_tree_size has a result.
LEMMA NodesForTreeSizeIs ==
  ASSUME NEW n \in Nat
  PROVE  \E f : IsCut(f, n) /\ NodesForTreeSize(n) = f[0]
<1> DEFINE I == 0 .. n
           V == Seq(NodeRef)
           Body(f, s) == LET level == BitWidth(n - s) - 1
                         IN  IF s = n THEN <<>>
                             ELSE << [level |-> level, index |-> s \div Pow2[level]] >>
                                    \o f[s + Pow2[level]]
           Good(f, s) == IF s = n THEN <<>>
                         ELSE << NextRef(s, n) >> \o f[s + Pow2[NextRef(s, n).level]]
           B == [x \in [I -> V] \X I |-> Good(x[1], x[2])]
           rank == [s \in I |-> n - s]
           refs == CHOOSE f : f = [s \in I |-> Body(f, s)]
<1>1. \A f, s : Body(f, s) = Good(f, s)
  BY DEF NextRef
<1>2. rank \in [I -> 0 .. n] /\ <<>> \in V
  <2>1. <<>> \in V
    BY EmptySeq
  <2> QED BY <2>1
<1> HIDE DEF V
<1>3. B \in [[I -> V] \X I -> V]
  <2>1. ASSUME NEW f \in [I -> V], NEW s \in I PROVE Good(f, s) \in V
    <3>1. CASE s = n
      BY <1>2, <3>1
    <3>2. CASE s # n
      <4>1. NextRef(s, n) \in NodeRef /\ s + Pow2[NextRef(s, n).level] \in I
        BY <3>2, NextRefIs
      <4>2. f[s + Pow2[NextRef(s, n).level]] \in V
        BY <4>1
      <4>3. << NextRef(s, n) >> \in V
        BY <4>1 DEF V
      <4>4. << NextRef(s, n) >> \o f[s + Pow2[NextRef(s, n).level]] \in V
        BY <4>2, <4>3, ConcatProperties DEF V
      <4> QED BY <3>2, <4>4
    <3> QED BY <3>1, <3>2
  <2> HIDE DEF Good, I
  <2>2. \A x \in [I -> V] \X I : Good(x[1], x[2]) \in V
    BY <2>1
  <2> QED BY <2>2
<1>4. ASSUME NEW f \in [I -> V], NEW s \in I PROVE B[<<f, s>>] = Good(f, s)
  <2>1. <<f, s>> \in [I -> V] \X I /\ <<f, s>>[1] = f /\ <<f, s>>[2] = s
    OBVIOUS
  <2> HIDE DEF Good, I
  <2> QED BY <2>1
<1>5. GoesDown(B, I, V, rank)
  <2>1. ASSUME NEW f \in [I -> V], NEW g \in [I -> V], NEW s \in I,
               \A j \in I : rank[j] < rank[s] => f[j] = g[j]
        PROVE  Good(f, s) = Good(g, s)
    <3>1. CASE s = n
      BY <3>1
    <3>2. CASE s # n
      <4> DEFINE j == s + Pow2[NextRef(s, n).level]
      <4>1. j \in I /\ Pow2[NextRef(s, n).level] \in Nat \ {0}
        BY <3>2, NextRefIs
      <4>2. rank[j] < rank[s]
        <5> DEFINE p == Pow2[NextRef(s, n).level]
        <5> HIDE DEF p
        <5> QED BY <4>1 DEF p
      <4>3. f[j] = g[j]
        <5> HIDE DEF j, rank
        <5> QED BY <2>1, <4>1, <4>2
      <4> QED BY <3>2, <4>3
    <3> QED BY <3>1, <3>2
  <2> HIDE DEF B, I, rank, Good
  <2> QED BY <1>4, <2>1 DEF GoesDown
<1>6. PICK f : Solves(f, B, I, V)
  <2> HIDE DEF B, I, rank
  <2>1. n \in Nat
    OBVIOUS
  <2> QED BY <1>2, <1>3, <1>5, <2>1, RecursionExists
<1>7. f \in [I -> V] /\ \A s \in I : f[s] = Good(f, s)
  <2> HIDE DEF B, I, Good
  <2> QED BY <1>4, <1>6 DEF Solves
<1>8. f = [s \in I |-> Body(f, s)]
  <2> HIDE DEF I, Good, Body
  <2> QED BY <1>1, <1>7
<1>9. refs = [s \in I |-> Body(refs, s)]
  <2> HIDE DEF I, Body
  <2> QED BY <1>8
<1>10. NodesForTreeSize(n) = refs[0]
  BY DEF NodesForTreeSize
<1> HIDE DEF refs
<1>11. \A s \in I : refs[s] = Good(refs, s)
  <2> HIDE DEF I, Body, Good
  <2> QED BY <1>1, <1>9
<1>12. IsCut(refs, n)
  BY <1>11 DEF IsCut
<1> QED BY <1>10, <1>12

\* A list with one more element at its front.
LEMMA ConsIs ==
  ASSUME NEW S, NEW e \in S, NEW s \in Seq(S), NEW t, t = << e >> \o s
  PROVE  /\ t \in Seq(S)
         /\ Len(t) = Len(s) + 1
         /\ t[1] = e
         /\ \A i \in 1 .. Len(s) : t[i + 1] = s[i]
<1>1. << e >> \in Seq(S) /\ Len(<< e >>) = 1 /\ << e >>[1] = e
  OBVIOUS
<1>2. Len(s) \in Nat
  OBVIOUS
<1>3. /\ t \in Seq(S) /\ Len(t) = 1 + Len(s)
      /\ \A i \in 1 .. 1 + Len(s) : t[i] = IF i <= 1 THEN << e >>[i] ELSE s[i - 1]
  BY <1>1, ConcatProperties
<1>4. t[1] = e
  BY <1>1, <1>2, <1>3
<1>5. ASSUME NEW i \in 1 .. Len(s) PROVE t[i + 1] = s[i]
  <2>1. i + 1 \in 1 .. 1 + Len(s) /\ ~(i + 1 <= 1) /\ (i + 1) - 1 = i
    BY <1>2
  <2> QED BY <1>3, <2>1
<1> QED BY <1>2, <1>3, <1>4, <1>5

\* s starts a node of every level that may still fit.
StartsNodes(s, n) == \E c \in Nat : \E u \in Nat : s = u * Pow2[c] /\ n - s < Pow2[c]

\* The largest node that fits is the one for the highest bit that is left, and
\* the next one starts where it ends.
LEMMA NextIsPart ==
  ASSUME NEW n \in Nat, NEW s \in 0 .. n, s # n, StartsNodes(s, n),
         NEW ref, ref = NextRef(s, n)
  PROVE  /\ IsPart(ref, n)
         /\ StartOf(ref) = s
         /\ s + Pow2[ref.level] = (n \div Pow2[ref.level]) * Pow2[ref.level]
         /\ StartsNodes(s + Pow2[ref.level], n)
         /\ \E u \in Nat : s = u * (2 * Pow2[ref.level])
<1> DEFINE b == ref.level
           P == Pow2[b]
<1>1. /\ ref \in NodeRef /\ P \in Nat \ {0} /\ s + P \in 0 .. n /\ n - s < 2 * P
      /\ ref.index = s \div P
  BY NextRefIs
<1>2. b \in Nat
  BY <1>1 DEF NodeRef
<1>3. PICK c \in Nat, v \in Nat : s = v * Pow2[c] /\ n - s < Pow2[c]
  BY DEF StartsNodes
<1> HIDE DEF b
<1>4. Pow2[b + 1] = 2 * P /\ b + 1 \in Nat
  BY <1>2, Pow2Positive
<1>5. b < c
  <2>1. CASE c <= b
    <3>1. Pow2[c] <= P
      BY <1>2, <2>1, Pow2Monotone
    <3>2. Pow2[c] \in Nat
      BY Pow2Positive
    <3> HIDE DEF P
    <3> QED BY <1>1, <1>3, <3>1, <3>2
  <2> QED BY <1>2, <2>1
<1> DEFINE M == Pow2[c - (b + 1)]
           u == v * M
<1>6. Pow2[c] = Pow2[b + 1] * M /\ M \in Nat \ {0}
  <2>1. b + 1 <= c
    BY <1>2, <1>5
  <2> QED BY <1>4, <2>1, Pow2Split
<1> HIDE DEF P, M
<1>7. u \in Nat /\ s = u * (2 * P)
  <2>1. v * (Pow2[b + 1] * M) = (v * M) * Pow2[b + 1]
    <3> DEFINE x == Pow2[b + 1]
    <3>1. x \in Nat /\ v \in Nat /\ M \in Nat
      BY <1>1, <1>3, <1>4, <1>6
    <3> HIDE DEF x
    <3>2. v * (x * M) = (v * M) * x
      BY <3>1
    <3> QED BY <3>2 DEF x
  <2>2. u \in Nat
    BY <1>6
  <2> QED BY <1>3, <1>4, <1>6, <2>1, <2>2
<1> HIDE DEF u
<1>8. /\ u * (2 * P) = P * (2 * u) /\ P * (2 * u) \in Nat
      /\ P * (2 * u + 1) = P * (2 * u) + P
      /\ (2 * u + 1) * P = P * (2 * u) + P
      /\ (2 * u) * P = P * (2 * u)
  BY <1>1, <1>7
<1> DEFINE w == P * (2 * u)
           even == 2 * u
           odd == 2 * u + 1
<1>9. /\ w \in Nat /\ s = w /\ P * even = w /\ P * odd = w + P /\ odd * P = w + P
      /\ even * P = w /\ even \in Nat /\ odd \in Nat /\ odd = even + 1 /\ odd % 2 = 1
  BY <1>7, <1>8
<1> HIDE DEF w, even, odd
<1>10. s \div P = even
  <2>1. P * even <= s /\ s < P * even + P /\ s \in Nat
    BY <1>1, <1>9
  <2> QED BY <1>1, <1>9, <2>1, DivUnique
<1>11. n \div P = odd
  <2>1. P * odd <= n /\ n < P * odd + P
    BY <1>1, <1>9
  <2> QED BY <1>1, <1>9, <2>1, DivUnique
<1>12. ref.index = odd - 1 /\ ref.index \in Nat /\ ref.index = even
  BY <1>1, <1>9, <1>10
<1>13. IsPart(ref, n)
  BY <1>2, <1>9, <1>11, <1>12 DEF IsPart, P, b
<1>14. StartOf(ref) = s
  BY <1>9, <1>12 DEF StartOf, P, b
<1>15. s + P = (n \div P) * P /\ s + P = odd * Pow2[b]
  BY <1>9, <1>11 DEF P
<1>16. StartsNodes(s + P, n)
  <2>1. n - (s + P) < P
    BY <1>1, <1>9
  <2>2. n - (s + P) < Pow2[b]
    BY <2>1 DEF P
  <2> QED BY <1>2, <1>9, <1>15, <2>2 DEF StartsNodes
<1> QED BY <1>7, <1>13, <1>14, <1>15, <1>16 DEF P, b

\* A factor that is common to two products can be dropped.
LEMMA CancelFactor ==
  ASSUME NEW t \in Nat \ {0}, NEW a \in Nat, NEW b \in Nat
  PROVE  /\ a * t <= b * t => a <= b
         /\ a * t < b * t + t => a <= b
         /\ a <= b => a * t <= b * t
OBVIOUS

\* Between the start and the end of the largest node that fits, no other bit of
\* n has its node.
LEMMA NoBitBetween ==
  ASSUME NEW n \in Nat, NEW b \in Nat, NEW u \in Nat, NEW s, s = u * (2 * Pow2[b]),
         s + Pow2[b] = (n \div Pow2[b]) * Pow2[b], n < s + 2 * Pow2[b],
         NEW l \in Nat, l # b, (n \div Pow2[l]) % 2 = 1, s < (n \div Pow2[l]) * Pow2[l]
  PROVE  s + Pow2[b] < (n \div Pow2[l]) * Pow2[l]
<1> DEFINE P == Pow2[b]
           L == Pow2[l]
           x == n \div L
           p == n \div P
<1>1. /\ P \in Nat \ {0} /\ L \in Nat \ {0} /\ Pow2[b + 1] = 2 * P /\ Pow2[l + 1] = 2 * L
      /\ b + 1 \in Nat /\ l + 1 \in Nat
  BY Pow2Positive
<1>2. /\ x \in Nat /\ L * x <= n /\ n < L * x + L /\ p \in Nat /\ P * p <= n
  BY <1>1, DivBounds
<1>3. s + P = p * P /\ n < s + 2 * P /\ x % 2 = 1 /\ s < x * L /\ s = u * (2 * P)
  OBVIOUS
<1> HIDE DEF P, L, x, p
<1>4. s \in Nat /\ L * x = x * L /\ x * L \in Nat /\ P * p = p * P
  BY <1>1, <1>2, <1>3
<1>5. CASE l > b
  <2> DEFINE k == Pow2[l - (b + 1)]
  <2>1. L = (2 * P) * k /\ k \in Nat \ {0}
    <3>1. b + 1 <= l
      BY <1>5
    <3> QED BY <1>1, <3>1, Pow2Split DEF L
  <2> HIDE DEF k
  <2> DEFINE T == 2 * P
             y == x * k
  <2>2. T \in Nat \ {0} /\ y \in Nat
    BY <1>1, <1>2, <2>1
  <2>3. x * L = y * T
    <3> HIDE DEF T
    <3>1. x * (T * k) = (x * k) * T
      BY <1>2, <2>1, <2>2
    <3> QED BY <2>1, <3>1 DEF T
  <2> HIDE DEF y, T
  <2>4. u * T < y * T /\ y * T <= n /\ n < u * T + T
    BY <1>2, <1>3, <1>4, <2>3 DEF T
  <2>5. u < y
    BY <2>2, <2>4, CancelFactor
  <2>6. (u + 1) * T <= y * T /\ (u + 1) * T = u * T + T
    <3>1. u + 1 <= y /\ u + 1 \in Nat
      BY <2>2, <2>5
    <3>2. (u + 1) * T = u * T + T
      BY <2>2
    <3> QED BY <2>2, <3>1, <3>2, CancelFactor
  <2> DEFINE v == u * T
             w == y * T
  <2>7. v \in Nat /\ w \in Nat /\ v + T <= w /\ w <= n /\ n < v + T
    BY <2>2, <2>4, <2>6
  <2> HIDE DEF v, w
  <2>8. FALSE
    BY <2>2, <2>7
  <2> QED BY <2>8
<1>6. CASE l < b
  <2> DEFINE k == Pow2[b - (l + 1)]
             y == p * k
             even == 2 * y
  <2>1. P = (2 * L) * k /\ k \in Nat \ {0}
    <3>1. l + 1 <= b
      BY <1>6
    <3> QED BY <1>1, <3>1, Pow2Split DEF P
  <2> HIDE DEF k
  <2>2. y \in Nat /\ even \in Nat /\ even % 2 = 0
    <3>1. y \in Nat
      BY <1>2, <2>1
    <3> HIDE DEF y
    <3> QED BY <3>1
  <2>3. s + P = even * L
    <3>1. p * ((2 * L) * k) = (2 * (p * k)) * L
      BY <1>1, <1>2, <2>1
    <3> QED BY <1>3, <2>1, <3>1
  <2> HIDE DEF even, y
  <2>4. even * L < x * L + L
    <3> DEFINE v == x * L
    <3>1. s + P <= n /\ n < v + L /\ v \in Nat
      BY <1>2, <1>3, <1>4
    <3> HIDE DEF v
    <3>2. s + P < v + L
      BY <1>1, <1>4, <3>1
    <3> QED BY <2>3, <3>2 DEF v
  <2>5. even <= x
    BY <1>1, <1>2, <2>2, <2>4, CancelFactor
  <2>6. even + 1 <= x
    BY <1>2, <1>3, <2>2, <2>5
  <2>7. (even + 1) * L <= x * L /\ (even + 1) * L = even * L + L
    <3>1. even + 1 \in Nat /\ (even + 1) * L = even * L + L
      BY <1>1, <2>2
    <3> QED BY <1>1, <1>2, <2>6, <3>1, CancelFactor
  <2> DEFINE v == even * L
             w == x * L
  <2>8. v \in Nat /\ w \in Nat /\ v + L <= w /\ s + P = v
    BY <1>1, <1>4, <2>2, <2>3, <2>7
  <2> HIDE DEF v, w
  <2>9. s + P < w
    BY <1>1, <2>8
  <2> QED BY <2>9 DEF w, P, L, x
<1> QED BY <1>5, <1>6

\* What the loop lists from a position on cuts the entries from there.
LEMMA CutIs ==
  ASSUME NEW n \in Nat, NEW f, IsCut(f, n)
  PROVE  \A s \in 0 .. n : StartsNodes(s, n) => CutInto(f[s], s, n)
<1> DEFINE Fits(s) == StartsNodes(s, n) => CutInto(f[s], s, n)
           S == { m \in Nat : \A s \in 0 .. n : n - s = m => Fits(s) }
<1>1. ASSUME NEW m \in Nat, \A j \in 0 .. m - 1 : j \in S PROVE m \in S
  <2> SUFFICES ASSUME NEW s \in 0 .. n, n - s = m, StartsNodes(s, n)
               PROVE  CutInto(f[s], s, n)
    OBVIOUS
  <2>1. CASE s = n
    <3>1. f[s] = << >>
      BY <2>1 DEF IsCut
    <3>2. << >> \in Seq(NodeRef) /\ Len(<< >>) = 0 /\ n \in Nat
      BY EmptySeq
    <3>3. ASSUME NEW l \in Nat PROVE ~(s < (n \div Pow2[l]) * Pow2[l])
      <4> DEFINE L == Pow2[l]
                 x == n \div L
      <4>1. L \in Nat \ {0}
        BY Pow2Positive
      <4> HIDE DEF L
      <4>2. x \in Nat /\ L * x <= n
        BY <4>1, DivBounds
      <4> HIDE DEF x
      <4>3. x * L = L * x /\ x * L \in Nat
        BY <4>1, <4>2
      <4>4. ~(n < x * L)
        BY <4>2, <4>3
      <4> QED BY <2>1, <4>4 DEF x, L
    <3>4. 1 .. 0 = {} /\ 1 .. 0 - 1 = {}
      OBVIOUS
    <3> QED BY <2>1, <3>1, <3>2, <3>3, <3>4 DEF CutInto
  <2>2. CASE s # n
    <3> DEFINE ref == NextRef(s, n)
               P == Pow2[ref.level]
               z == s + P
               t == f[z]
               g == f[s]
    <3>1. ref \in NodeRef /\ P \in Nat \ {0} /\ z \in 0 .. n /\ n - s < 2 * P
      BY <2>2, NextRefIs
    <3>2. /\ IsPart(ref, n) /\ StartOf(ref) = s /\ z = (n \div P) * P
          /\ StartsNodes(z, n) /\ \E u \in Nat : s = u * (2 * P)
      BY <2>2, NextIsPart
    <3>3. g = << ref >> \o t
      BY <2>2 DEF IsCut
    <3> HIDE DEF ref, P
    <3>4. CutInto(t, z, n)
      <4>1. n - z \in 0 .. m - 1
        BY <3>1
      <4> HIDE DEF S, z
      <4>2. n - z \in S
        BY <1>1, <4>1
      <4>3. Fits(z)
        BY <3>1, <4>2 DEF S
      <4> QED BY <3>2, <4>3
    <3> DEFINE k == Len(t)
    <3>5. t \in Seq(NodeRef) /\ k \in Nat
      BY <3>4 DEF CutInto
    <3> HIDE DEF t, g
    <3>6. /\ g \in Seq(NodeRef) /\ Len(g) = k + 1 /\ g[1] = ref
          /\ \A i \in 1 .. k : g[i + 1] = t[i]
      BY <3>1, <3>3, <3>5, ConsIs
    <3> HIDE DEF k
    <3>7. ASSUME NEW r \in 1 .. k + 1, r # 1
          PROVE  r - 1 \in 1 .. k /\ g[r] = t[r - 1]
      <4>1. r - 1 \in 1 .. k /\ (r - 1) + 1 = r
        BY <3>5, <3>7
      <4> QED BY <3>6, <4>1
    <3>8. \A r \in 1 .. k + 1 : IsPart(g[r], n)
      <4> TAKE r \in 1 .. k + 1
      <4>1. CASE r = 1
        BY <3>2, <3>6, <4>1
      <4>2. CASE r # 1
        BY <3>4, <3>7, <4>2 DEF CutInto, k
      <4> QED BY <4>1, <4>2
    <3>9. StartOf(g[k + 1]) + Pow2[g[k + 1].level] = n
      <4>1. CASE k = 0
        <5>1. z = n
          BY <3>1, <3>4, <4>1 DEF CutInto, k
        <5> QED BY <3>2, <3>6, <4>1, <5>1 DEF P
      <4>2. CASE k # 0
        <5>1. k > 0 /\ k + 1 \in 1 .. k + 1 /\ k + 1 # 1 /\ (k + 1) - 1 = k
          BY <3>5, <4>2
        <5>2. g[k + 1] = t[k]
          BY <3>7, <5>1
        <5> QED BY <3>4, <5>1, <5>2 DEF CutInto, k
      <4> QED BY <4>1, <4>2
    <3>10. ASSUME NEW r \in 1 .. k
           PROVE  StartOf(g[r + 1]) = StartOf(g[r]) + Pow2[g[r].level]
      <4>1. g[r + 1] = t[r] /\ k > 0
        BY <3>5, <3>6
      <4>2. CASE r = 1
        <5>1. StartOf(t[1]) = z
          BY <3>4, <4>1 DEF CutInto, k
        <5> QED BY <3>2, <3>6, <4>1, <4>2, <5>1 DEF P
      <4>3. CASE r # 1
        <5> DEFINE q == r - 1
        <5>1. q \in 1 .. k - 1 /\ q + 1 = r /\ r \in 1 .. k + 1
          BY <3>5, <4>3
        <5>2. g[r] = t[q]
          BY <3>7, <4>3, <5>1
        <5>3. StartOf(t[q + 1]) = StartOf(t[q]) + Pow2[t[q].level]
          <6> HIDE DEF q
          <6> QED BY <3>4, <5>1 DEF CutInto, k
        <5> QED BY <4>1, <5>1, <5>2, <5>3
      <4> QED BY <4>2, <4>3
    <3>11. ASSUME NEW l \in Nat, (n \div Pow2[l]) % 2 = 1, s < (n \div Pow2[l]) * Pow2[l]
           PROVE  \E r \in 1 .. k + 1 : g[r].level = l
      <4>1. CASE l = ref.level
        <5>1. 1 \in 1 .. k + 1
          BY <3>5
        <5> QED BY <3>6, <4>1, <5>1
      <4>2. CASE l # ref.level
        <5> DEFINE b == ref.level
        <5>1. PICK u \in Nat : s = u * (2 * P)
          BY <3>2
        <5>2. b \in Nat /\ P = Pow2[b] /\ n < s + 2 * P
          BY <3>1 DEF NodeRef, P
        <5> HIDE DEF b, z
        <5>3. s + Pow2[b] = (n \div Pow2[b]) * Pow2[b]
          BY <3>2, <5>2 DEF z
        <5>4. z < (n \div Pow2[l]) * Pow2[l]
          <6>1. l # b
            BY <4>2 DEF b
          <6>2. s = u * (2 * Pow2[b]) /\ n < s + 2 * Pow2[b]
            BY <5>1, <5>2
          <6>3. s + Pow2[b] < (n \div Pow2[l]) * Pow2[l]
            BY <3>11, <5>1, <5>2, <5>3, <6>1, <6>2, NoBitBetween
          <6> QED BY <5>2, <6>3 DEF z
        <5>5. PICK i \in 1 .. k : t[i].level = l
          BY <3>4, <3>11, <5>4 DEF CutInto, k
        <5>6. i + 1 \in 1 .. k + 1 /\ g[i + 1] = t[i]
          BY <3>5, <3>6
        <5> QED BY <5>5, <5>6
      <4> QED BY <4>1, <4>2
    <3>12. (k + 1) - 1 = k /\ k + 1 > 0
      BY <3>5
    <3>13. StartOf(g[1]) = s
      BY <3>2, <3>6
    <3>14. CutInto(g, s, n)
      BY <3>6, <3>8, <3>9, <3>10, <3>11, <3>12, <3>13 DEF CutInto
    <3> QED BY <3>14 DEF g
  <2> QED BY <2>1, <2>2
<1>2. \A m \in Nat : m \in S
  <2> HIDE DEF S
  <2> QED BY <1>1, StrongInduction
<1>3. ASSUME NEW s \in 0 .. n PROVE Fits(s)
  <2> DEFINE m == n - s
  <2>1. m \in Nat
    OBVIOUS
  <2> HIDE DEF Fits
  <2>2. m \in S
    BY <1>2, <2>1
  <2> QED BY <2>1, <2>2
<1> QED BY <1>3

\* nodes_for_tree_size: the nodes of the tree with n leaves, from the left.
LEMMA NodesCutTree ==
  ASSUME NEW n \in Nat
  PROVE  CutInto(NodesForTreeSize(n), 0, n)
<1>1. PICK f : IsCut(f, n) /\ NodesForTreeSize(n) = f[0]
  BY NodesForTreeSizeIs
<1>2. StartsNodes(0, n)
  <2> DEFINE zero == 0
  <2>1. n < Pow2[n] /\ Pow2[n] \in Nat
    BY Pow2Exceeds, Pow2Positive
  <2>2. zero = zero * Pow2[n] /\ n - zero < Pow2[n] /\ zero \in Nat
    BY <2>1
  <2> QED BY <2>2 DEF StartsNodes
<1>3. 0 \in 0 .. n
  OBVIOUS
<1> QED BY <1>1, <1>2, <1>3, CutIs

\* A node for a bit of an earlier size is in the tree, except a pruned leaf.
LEMMA PartNode ==
  ASSUME NEW D, Len(D) \in Nat, NEW tree, IsTreeOf(tree, D),
         NEW m \in Nat, m <= Len(D), NEW ref, IsPart(ref, m)
  PROVE  /\ ref.level = 0 => /\ ref.index + 1 = m /\ m % 2 = 1
                             /\ Node(tree, ref.level, ref.index) = tree.leaves[m]
                             /\ HasNode(tree, ref.level, ref.index) = (tree.leaves[m] # Unavailable)
         /\ ref.level # 0 => /\ Node(tree, ref.level, ref.index) = FullNode(D, ref.level, ref.index)
                             /\ HasNode(tree, ref.level, ref.index)
         /\ ref.index < Len(D) \div Pow2[ref.level]
<1> DEFINE l == ref.level
           j == ref.index
           P == Pow2[l]
           q == m \div P
           x == Len(D) \div P
<1>1. l \in Nat /\ j \in Nat /\ j = q - 1 /\ q % 2 = 1
  BY DEF IsPart
<1>2. P \in Nat \ {0}
  BY <1>1, Pow2Positive
<1> HIDE DEF l, j
<1>3. q \in Nat /\ P * q <= m /\ x \in Nat /\ q <= x
  BY <1>1, <1>2, DivBounds, DivMonotone
<1>4. j < x
  <2> HIDE DEF q, x
  <2> QED BY <1>1, <1>3
<1>5. CASE l = 0
  <2>1. P = 1 /\ q = m
    <3>1. P = 1
      BY <1>5, Pow2Positive
    <3> QED BY <3>1
  <2> HIDE DEF q, P
  <2>2. j + 1 = m /\ m % 2 = 1 /\ j < Len(D)
    BY <1>1, <2>1
  <2>3. Size(tree) = Len(D)
    BY ListIsSeq DEF IsTreeOf, HoldsLeaves, Size
  <2>4. Node(tree, l, j) = tree.leaves[m]
    BY <1>5, <2>2 DEF Node
  <2>5. HasNode(tree, l, j) = (tree.leaves[m] # Unavailable)
    BY <1>5, <2>2, <2>3, Zenon DEF HasNode
  <2> QED BY <1>4, <1>5, <2>2, <2>4, <2>5 DEF l, j, P, x
<1>6. CASE l # 0
  <2> DEFINE h == Len(tree.levels)
  <2>1. h \in Nat /\ Len(D) < Pow2[h + 1]
    BY DEF IsTreeOf, HoldsLevels
  <2>2. P <= m
    <3> HIDE DEF P, q, x
    <3>1. q >= 1
      BY <1>1, <1>3
    <3>2. P * q >= P
      BY <1>2, <1>3, <3>1
    <3> DEFINE y == P * q
    <3>3. y \in Nat /\ y <= m /\ y >= P
      BY <1>2, <1>3, <3>2
    <3> HIDE DEF y
    <3> QED BY <1>2, <3>3
  <2> HIDE DEF h
  <2>3. l <= h
    <3>1. CASE h + 1 <= l
      <4>0. h + 1 \in Nat
        BY <2>1
      <4>1. h + 1 \in Nat /\ Pow2[h + 1] \in Nat
        BY <4>0, Pow2Positive
      <4>2. Pow2[h + 1] <= P
        BY <1>1, <3>1, <4>1, Pow2Monotone
      <4> HIDE DEF P
      <4>3. FALSE
        BY <1>2, <2>1, <2>2, <4>1, <4>2
      <4> QED BY <4>3
    <3> QED BY <1>1, <2>1, <3>1
  <2>4. HoldsLevel(tree.levels[l], D, l)
    <3>1. l \in 1 .. h
      BY <1>1, <1>6, <2>1, <2>3
    <3> QED BY <3>1 DEF IsTreeOf, HoldsLevels, h
  <2>5. Len(tree.levels[l]) = x /\ tree.levels[l][j + 1] = FullNode(D, l, j)
    <3>1. ListOf(tree.levels[l], x) /\ \A i \in 0 .. x - 1 : tree.levels[l][i + 1] = FullNode(D, l, i)
      BY <2>4 DEF HoldsLevel
    <3> HIDE DEF x
    <3>2. j \in 0 .. x - 1
      BY <1>1, <1>3, <1>4
    <3> QED BY <1>3, <3>1, <3>2, ListIsSeq
  <2>6. Node(tree, l, j) = FullNode(D, l, j)
    BY <1>6, <2>5 DEF Node
  <2>7. HasNode(tree, l, j)
    BY <1>4, <1>6, <2>3, <2>5 DEF HasNode, h
  <2> QED BY <1>4, <1>6, <2>6, <2>7 DEF l, j, P, x
<1> QED BY <1>5, <1>6

\* The nodes of the current size are all there.
LEMMA CurrentNodes ==
  ASSUME NEW D, Len(D) \in Nat, NEW tree, IsTreeOf(tree, D), NEW ref, IsPart(ref, Len(D))
  PROVE  /\ HasNode(tree, ref.level, ref.index)
         /\ Node(tree, ref.level, ref.index) = FullNode(D, ref.level, ref.index)
<1>1. CASE ref.level # 0
  BY <1>1, PartNode
<1>2. CASE ref.level = 0
  <2> DEFINE n == Len(D)
  <2>1. /\ ref.index + 1 = n /\ n % 2 = 1
        /\ Node(tree, ref.level, ref.index) = tree.leaves[n]
        /\ HasNode(tree, ref.level, ref.index) = (tree.leaves[n] # Unavailable)
        /\ ref.index \in Nat
    BY <1>2, PartNode DEF IsPart
  <2>2. tree.leaves[n] = HashLeaf(D[n])
    BY <2>1 DEF IsTreeOf, HoldsLeaves
  <2>3. HashLeaf(D[n]) # Unavailable
    BY HashesDiffer
  <2>4. FullNode(D, 0, ref.index) = HashLeaf(D[n])
    <3> DEFINE j == ref.index
    <3>1. j \in Nat /\ j + 1 = n
      BY <2>1
    <3> HIDE DEF j
    <3>2. j \in Nat /\ j + 1 <= Len(D) /\ j + 1 = n
      BY <3>1
    <3> HIDE DEF n
    <3>3. FullNode(D, 0, j) = HashLeaf(D[n])
      BY <3>2, FullNodeLeaf
    <3> QED BY <3>3 DEF j
  <2> QED BY <1>2, <2>1, <2>2, <2>3, <2>4
<1> QED BY <1>1, <1>2

\* root_at: what the last of the nodes decides.
RootLoop(root, hash, p) ==
  /\ root[0] = hash[p]
  /\ \A k \in 1 .. p - 1 : root[k] = HashInternal(hash[p - k], root[k - 1])

NodeHashes(tree, refs) == [i \in DOMAIN refs |-> Node(tree, refs[i].level, refs[i].index)]

\* The loop of root_at has a result.
LEMMA RootAtIs ==
  ASSUME NEW tree, NEW n, Len(NodesForTreeSize(n)) \in Nat \ {0}
  PROVE  LET refs == NodesForTreeSize(n)
         IN  \E root : /\ RootLoop(root, NodeHashes(tree, refs), Len(refs))
                       /\ RootAt(tree, n) = root[Len(refs) - 1]
<1> DEFINE refs == NodesForTreeSize(n)
           hash == [i \in DOMAIN refs |-> Node(tree, refs[i].level, refs[i].index)]
           p == Len(refs)
           I == 0 .. p - 1
           t == [k \in I |-> hash[p - k]]
           Step(k, a) == HashInternal(hash[p - k], a)
           Body(f, k) == IF k = 0 THEN hash[p] ELSE Step(k, f[k - 1])
           root == CHOOSE f : f = [k \in I |-> Body(f, k)]
<1>1. PICK f : HashesInTurn(f, p - 1, hash[p], t)
  <2>1. p - 1 \in Nat
    OBVIOUS
  <2> HIDE DEF refs, hash, t, p
  <2> QED BY <2>1, HashLoop
<1>2. ASSUME NEW k \in I
      PROVE  (IF k = 0 THEN hash[p] ELSE HashInternal(t[k], f[k - 1])) = Body(f, k)
  <2> HIDE DEF hash, p
  <2>1. t[k] = hash[p - k]
    OBVIOUS
  <2> QED BY <2>1
<1>3. f = [k \in I |-> Body(f, k)]
  <2>1. f = [k \in I |-> IF k = 0 THEN hash[p] ELSE HashInternal(t[k], f[k - 1])]
    BY <1>1 DEF HashesInTurn
  <2> HIDE DEF Body, t, hash, p
  <2> QED BY <1>2, <2>1
<1>4. root = [k \in I |-> Body(root, k)]
  <2> HIDE DEF Body, I
  <2> QED BY <1>3
<1>5. RootAt(tree, n) = root[p - 1]
  BY DEF RootAt
<1>6. \A k \in I : root[k] = Body(root, k)
  <2> HIDE DEF root, Body, I
  <2> QED BY <1>4
<1> HIDE DEF root, hash
<1>7. RootLoop(root, hash, p)
  <2> HIDE DEF refs
  <2>0. p \in Nat \ {0}
    BY DEF refs
  <2> HIDE DEF p
  <2>1. root[0] = hash[p]
    BY <1>6, <2>0
  <2>2. ASSUME NEW k \in 1 .. p - 1 PROVE root[k] = HashInternal(hash[p - k], root[k - 1])
    BY <1>6, <2>0
  <2> QED BY <2>1, <2>2 DEF RootLoop
<1>8. hash = NodeHashes(tree, refs)
  BY DEF hash, NodeHashes
<1> QED BY <1>5, <1>7, <1>8

\* The entries under such a node, and how far behind it the entries end.
LEMMA PartSpan ==
  ASSUME NEW m \in Nat, NEW ref, IsPart(ref, m)
  PROVE  /\ StartOf(ref) \in Nat
         /\ Pow2[ref.level] \in Nat \ {0}
         /\ StartOf(ref) + Pow2[ref.level] <= m
         /\ m < StartOf(ref) + 2 * Pow2[ref.level]
         /\ StartOf(ref) + Pow2[ref.level] = (m \div Pow2[ref.level]) * Pow2[ref.level]
         /\ \A D : FullNode(D, ref.level, ref.index)
                     = MTHOf(D, StartOf(ref), StartOf(ref) + Pow2[ref.level])
<1> DEFINE l == ref.level
           j == ref.index
           P == Pow2[l]
           q == m \div P
<1>1. l \in Nat /\ j \in Nat /\ j = q - 1
  BY DEF IsPart
<1>2. P \in Nat \ {0}
  BY <1>1, Pow2Positive
<1> HIDE DEF l, j, P
<1>3. q \in Nat /\ P * q <= m /\ m < P * q + P
  BY <1>2, DivBounds
<1> HIDE DEF q
<1>4. q = j + 1
  BY <1>1, <1>3
<1>5. (j + 1) * P = j * P + P /\ j * P \in Nat /\ P * (j + 1) = j * P + P
  BY <1>1, <1>2
<1> DEFINE s == j * P
<1>6. s \in Nat /\ (j + 1) * P = s + P /\ P * q = s + P /\ q * P = s + P
  BY <1>4, <1>5
<1> HIDE DEF s
<1>7. s + P <= m /\ m < s + 2 * P
  BY <1>2, <1>3, <1>6
<1>8. \A D : FullNode(D, l, j) = MTHOf(D, s, s + P)
  BY <1>6 DEF FullNode, P, s
<1>9. s = StartOf(ref)
  BY DEF StartOf, s, j, P, l
<1> QED BY <1>2, <1>6, <1>7, <1>8, <1>9 DEF q, P, l, j

\* Folding the hashes of the nodes from the right gives the root.
LEMMA FoldOfNodes ==
  ASSUME NEW D, Len(D) \in Nat, NEW m \in 1 .. Len(D), NEW refs, CutInto(refs, 0, m),
         NEW hash,
         \A r \in 1 .. Len(refs) : hash[r] = FullNode(D, refs[r].level, refs[r].index),
         NEW root, RootLoop(root, hash, Len(refs))
  PROVE  root[Len(refs) - 1] = MTHOf(D, 0, m)
<1> DEFINE p == Len(refs)
<1>1. p \in Nat \ {0} /\ StartOf(refs[1]) = 0 /\ StartOf(refs[p]) + Pow2[refs[p].level] = m
  BY DEF CutInto
<1>2. /\ \A r \in 1 .. p : IsPart(refs[r], m)
      /\ \A r \in 1 .. p - 1 : StartOf(refs[r + 1]) = StartOf(refs[r]) + Pow2[refs[r].level]
  BY DEF CutInto
<1>3. root[0] = hash[p] /\ \A k \in 1 .. p - 1 : root[k] = HashInternal(hash[p - k], root[k - 1])
  BY DEF RootLoop
<1> HIDE DEF p
<1>4. ASSUME NEW r \in 1 .. p
      PROVE  hash[r] = MTHOf(D, StartOf(refs[r]), StartOf(refs[r]) + Pow2[refs[r].level])
  <2>1. IsPart(refs[r], m)
    BY <1>2
  <2>2. hash[r] = FullNode(D, refs[r].level, refs[r].index)
    BY DEF p
  <2> DEFINE ref == refs[r]
  <2>3. IsPart(ref, m) /\ hash[r] = FullNode(D, ref.level, ref.index) /\ m \in Nat
    BY <2>1, <2>2
  <2> HIDE DEF ref
  <2>4. FullNode(D, ref.level, ref.index) = MTHOf(D, StartOf(ref), StartOf(ref) + Pow2[ref.level])
    BY <2>3, PartSpan
  <2> QED BY <2>3, <2>4 DEF ref
<1> DEFINE Right(k) == root[k] = MTHOf(D, StartOf(refs[p - k]), m)
           S == { k \in Nat : k < p => Right(k) }
<1>5. 0 \in S
  <2>1. p \in 1 .. p /\ p - 0 = p
    BY <1>1
  <2>2. root[0] = MTHOf(D, StartOf(refs[p]), m)
    BY <1>1, <1>3, <1>4, <2>1
  <2> QED BY <2>1, <2>2
<1>6. ASSUME NEW k \in Nat, k \in S PROVE k + 1 \in S
  <2>1. SUFFICES ASSUME k + 1 < p PROVE Right(k + 1)
    OBVIOUS
  <2> DEFINE r == p - (k + 1)
  <2>2. r \in 1 .. p - 1 /\ r \in 1 .. p /\ r + 1 \in 1 .. p /\ p - k = r + 1 /\ k + 1 \in 1 .. p - 1 /\ (k + 1) - 1 = k
    BY <1>1, <2>1
  <2>3. Right(k)
    BY <1>1, <1>6, <2>1
  <2> HIDE DEF r
  <2> DEFINE s == StartOf(refs[r])
             l == refs[r].level
             P == Pow2[l]
  <2>4. s \in Nat /\ P \in Nat \ {0} /\ m < s + 2 * P /\ l \in Nat
    <3> DEFINE ref == refs[r]
    <3>1. IsPart(ref, m) /\ m \in Nat
      BY <1>2, <2>2
    <3> HIDE DEF ref
    <3>2. /\ StartOf(ref) \in Nat /\ Pow2[ref.level] \in Nat \ {0}
          /\ m < StartOf(ref) + 2 * Pow2[ref.level]
      BY <3>1, PartSpan
    <3>3. ref.level \in Nat
      BY <3>1 DEF IsPart
    <3> QED BY <3>2, <3>3 DEF ref
  <2>5. StartOf(refs[r + 1]) = s + P
    BY <1>2, <2>2
  <2>6. s + P < m
    <3>1. IsPart(refs[r + 1], m)
      BY <1>2, <2>2
    <3> DEFINE Q == Pow2[refs[r + 1].level]
    <3>2. StartOf(refs[r + 1]) + Q <= m /\ Q \in Nat \ {0}
      BY <3>1, PartSpan
    <3> HIDE DEF s, P, Q
    <3> QED BY <2>4, <2>5, <3>2
  <2>7. root[k + 1] = HashInternal(hash[r], root[k])
    BY <1>3, <2>2 DEF r
  <2>8. root[k] = MTHOf(D, s + P, m)
    BY <2>2, <2>3, <2>5
  <2>9. hash[r] = MTHOf(D, s, s + P)
    BY <1>4, <2>2
  <2> HIDE DEF s, l
  <2>10. MTHOf(D, s, m) = HashInternal(MTHOf(D, s, s + P), MTHOf(D, s + P, m))
    <3>1. m \in 0 .. Len(D) /\ m <= s + 2 * P
      BY <2>4
    <3> QED BY <2>4, <2>6, <3>1, MTHSplitsAt
  <2> QED BY <2>7, <2>8, <2>9, <2>10 DEF s, r
<1>7. \A k \in Nat : k \in S
  <2> HIDE DEF S
  <2> QED BY <1>5, <1>6, Induction
<1>8. Right(p - 1)
  <2> DEFINE k == p - 1
  <2>1. k \in Nat /\ k < p
    BY <1>1
  <2> HIDE DEF k
  <2>2. k \in S
    BY <1>7, <2>1
  <2>3. Right(k)
    BY <2>1, <2>2
  <2> QED BY <2>3 DEF k
<1>9. p - (p - 1) = 1
  BY <1>1
<1>10. root[p - 1] = MTHOf(D, 0, m)
  BY <1>1, <1>8, <1>9
<1> QED BY <1>10 DEF p

\* A node that is missing leaves no root.
LEMMA FoldOfMissing ==
  ASSUME NEW p \in Nat \ {0}, NEW hash, NEW root, RootLoop(root, hash, p), hash[p] = Unavailable
  PROVE  root[p - 1] = Unavailable
<1> DEFINE S == { k \in Nat : k < p => root[k] = Unavailable }
<1>1. 0 \in S
  BY DEF RootLoop
<1>2. ASSUME NEW k \in Nat, k \in S PROVE k + 1 \in S
  <2>1. SUFFICES ASSUME k + 1 < p PROVE root[k + 1] = Unavailable
    OBVIOUS
  <2>2. root[k] = Unavailable
    BY <1>2, <2>1
  <2>3. k + 1 \in 1 .. p - 1 /\ (k + 1) - 1 = k
    BY <2>1
  <2>4. root[k + 1] = HashInternal(hash[p - (k + 1)], root[k])
    BY <2>3 DEF RootLoop
  <2> QED BY <2>2, <2>4 DEF HashInternal
<1>3. \A k \in Nat : k \in S
  <2> HIDE DEF S
  <2> QED BY <1>1, <1>2, Induction
<1> DEFINE k == p - 1
<1>4. k \in Nat /\ k < p
  OBVIOUS
<1> HIDE DEF k
<1>5. root[k] = Unavailable
  BY <1>3, <1>4
<1> QED BY <1>5 DEF k

\* The last of the nodes of an odd number of leaves is a leaf.
LEMMA LastIsLeaf ==
  ASSUME NEW m \in Nat, m % 2 = 1, NEW refs, CutInto(refs, 0, m)
  PROVE  Len(refs) \in Nat \ {0} /\ refs[Len(refs)].level = 0
<1> DEFINE p == Len(refs)
           zero == 0
<1>1. Pow2[zero] = 1 /\ zero \in Nat /\ m \div 1 = m /\ m * 1 = m /\ 0 < m
  BY Pow2Positive
<1>2. (m \div Pow2[zero]) % 2 = 1 /\ 0 < (m \div Pow2[zero]) * Pow2[zero]
  BY <1>1
<1> HIDE DEF zero
<1>3. PICK r \in 1 .. p : refs[r].level = zero
  BY <1>1, <1>2 DEF CutInto
<1>4. p \in Nat \ {0}
  BY <1>1 DEF CutInto
<1>5. /\ \A i \in 1 .. p : IsPart(refs[i], m)
      /\ \A i \in 1 .. p - 1 : StartOf(refs[i + 1]) = StartOf(refs[i]) + Pow2[refs[i].level]
  BY DEF CutInto
<1> HIDE DEF p
<1>6. StartOf(refs[r]) + Pow2[refs[r].level] = m
  BY <1>1, <1>3, <1>5, PartSpan
<1>7. CASE r # p
  <2>1. r \in 1 .. p - 1 /\ r + 1 \in 1 .. p
    BY <1>4, <1>7
  <2>2. StartOf(refs[r + 1]) = m
    BY <1>5, <1>6, <2>1
  <2>3. IsPart(refs[r + 1], m)
    BY <1>5, <2>1
  <2> DEFINE Q == Pow2[refs[r + 1].level]
  <2>4. m + Q <= m /\ Q \in Nat \ {0}
    BY <2>2, <2>3, PartSpan
  <2> HIDE DEF Q
  <2> QED BY <2>4
<1> QED BY <1>3, <1>4, <1>7 DEF p, zero

\* root_at: the root of the first m entries, unless its last leaf is gone.
LEMMA RootAtValue ==
  ASSUME NEW D, Len(D) \in Nat, NEW tree, IsTreeOf(tree, D), NEW m \in 1 .. Len(D)
  PROVE  RootAt(tree, m) = IF m % 2 = 1 /\ tree.leaves[m] = Unavailable
                           THEN Unavailable ELSE MTHOf(D, 0, m)
<1> DEFINE refs == NodesForTreeSize(m)
           p == Len(refs)
           hash == NodeHashes(tree, refs)
<1>1. CutInto(refs, 0, m)
  BY NodesCutTree
<1>2. p \in Nat \ {0} /\ refs \in Seq(NodeRef)
  BY <1>1 DEF CutInto
<1>3. PICK root : RootLoop(root, hash, p) /\ RootAt(tree, m) = root[p - 1]
  BY <1>2, RootAtIs
<1> HIDE DEF refs
<1>4. ASSUME NEW r \in 1 .. p
      PROVE  IsPart(refs[r], m) /\ hash[r] = Node(tree, refs[r].level, refs[r].index)
  <2>1. r \in DOMAIN refs
    BY <1>2
  <2> QED BY <1>1, <2>1 DEF CutInto, NodeHashes
<1> HIDE DEF hash
<1>5. CASE m % 2 = 1 /\ tree.leaves[m] = Unavailable
  <2>1. refs[p].level = 0 /\ p \in 1 .. p
    BY <1>1, <1>2, <1>5, LastIsLeaf
  <2>2. IsPart(refs[p], m) /\ hash[p] = Node(tree, refs[p].level, refs[p].index)
    BY <1>4, <2>1
  <2> HIDE DEF p
  <2>3. hash[p] = Unavailable
    BY <1>5, <2>1, <2>2, PartNode
  <2>4. root[p - 1] = Unavailable
    BY <1>2, <1>3, <2>3, FoldOfMissing DEF p
  <2> QED BY <1>3, <1>5, <2>4
<1>6. CASE ~(m % 2 = 1 /\ tree.leaves[m] = Unavailable)
  <2>1. ASSUME NEW r \in 1 .. p PROVE hash[r] = FullNode(D, refs[r].level, refs[r].index)
    <3> DEFINE ref == refs[r]
    <3>1. IsPart(ref, m) /\ hash[r] = Node(tree, ref.level, ref.index)
      BY <1>4
    <3> HIDE DEF ref
    <3>2. CASE ref.level # 0
      BY <3>1, <3>2, PartNode DEF ref
    <3>3. CASE ref.level = 0
      <4>1. ref.index + 1 = m /\ m % 2 = 1 /\ Node(tree, ref.level, ref.index) = tree.leaves[m]
        BY <3>1, <3>3, PartNode
      <4>2. tree.leaves[m] = HashLeaf(D[m])
        BY <1>6, <4>1 DEF IsTreeOf, HoldsLeaves
      <4> DEFINE j == ref.index
      <4>3. j \in Nat /\ j + 1 = m
        BY <3>1, <4>1 DEF IsPart
      <4> HIDE DEF j
      <4>4. FullNode(D, 0, j) = HashLeaf(D[m])
        BY <4>3, FullNodeLeaf
      <4> QED BY <3>1, <3>3, <4>1, <4>2, <4>4 DEF ref, j
    <3> QED BY <3>2, <3>3
  <2>2. root[p - 1] = MTHOf(D, 0, m)
    BY <1>1, <1>3, <2>1, FoldOfNodes
  <2> QED BY <1>3, <1>6, <2>2
<1> QED BY <1>5, <1>6

-----------------------------------------------------------------------------
(* One turn of the loops of the verifiers *)

IsRight(f, t) == f % 2 = 1 \/ f = t
Rise(f, t) == IF IsRight(f, t) /\ f > 0 THEN TrailingZeros(f) + 1 ELSE 1
RiseTo(f, t) == f \div Pow2[Rise(f, t)]

\* The last position of a level.
LastAt(n, l) == (n - 1) \div Pow2[l]

\* The positions up to the last one are those that begin inside the tree.
LEMMA LastAtBounds ==
  ASSUME NEW n \in Nat \ {0}, NEW l \in Nat
  PROVE  /\ LastAt(n, l) \in Nat
         /\ LastAt(n, l) * Pow2[l] < n
         /\ \A i \in 0 .. LastAt(n, l) : i * Pow2[l] \in Nat /\ i * Pow2[l] < n
<1> DEFINE P == Pow2[l]
           t == (n - 1) \div P
<1>1. P \in Nat \ {0} /\ n - 1 \in Nat
  BY Pow2Positive
<1> HIDE DEF P
<1>2. t \in Nat /\ P * t <= n - 1
  BY <1>1, DivBounds
<1>3. LastAt(n, l) = t
  BY DEF LastAt, P
<1> HIDE DEF t
<1>4. ASSUME NEW i \in 0 .. t PROVE i * P \in Nat /\ i * P < n
  <2>1. i \in Nat /\ i <= t
    BY <1>2
  <2> DEFINE u == i * P
             v == P * t
  <2>2. u <= v /\ u \in Nat /\ v \in Nat
    BY <1>1, <1>2, <2>1
  <2>3. v <= n - 1
    BY <1>2
  <2> HIDE DEF u, v
  <2>4. u \in Nat /\ u < n
    BY <2>2, <2>3
  <2> QED BY <2>4 DEF u
<1> QED BY <1>2, <1>3, <1>4 DEF P

\* A position that is not a right child rises to its half.
LEMMA RiseOfLeft ==
  ASSUME NEW t \in Nat, NEW f \in 0 .. t, ~IsRight(f, t)
  PROVE  /\ Rise(f, t) = 1
         /\ RiseTo(f, t) \in Nat
         /\ f = 2 * RiseTo(f, t)
         /\ f < t
<1>1. Pow2[1] = 2
  <2>1. Pow2[0 + 1] = 2 * Pow2[0] /\ Pow2[0] = 1
    BY Pow2Positive
  <2> QED BY <2>1
<1>2. Rise(f, t) = 1 /\ RiseTo(f, t) = f \div 2
  BY <1>1 DEF Rise, RiseTo
<1>3. f % 2 = 0 /\ f # t
  BY DEF IsRight
<1> QED BY <1>2, <1>3

\* A right child rises from the level of the one bit at its low end.
LEMMA RiseOfRight ==
  ASSUME NEW t \in Nat, t # 0, NEW f \in 0 .. t, IsRight(f, t)
  PROVE  \E k \in Nat :
           /\ Rise(f, t) = k + 1
           /\ RiseTo(f, t) \in Nat
           /\ f = (2 * RiseTo(f, t) + 1) * Pow2[k]
           /\ f \div Pow2[k] = 2 * RiseTo(f, t) + 1
           /\ f = t \/ k = 0
<1>1. f \in Nat \ {0}
  BY DEF IsRight
<1>2. Rise(f, t) = TrailingZeros(f) + 1
  BY <1>1 DEF Rise
<1>3. RiseTo(f, t) = f \div Pow2[TrailingZeros(f) + 1]
  BY <1>2 DEF RiseTo
<1>4. /\ TrailingZeros(f) \in Nat
      /\ RiseTo(f, t) \in Nat
      /\ f = (2 * RiseTo(f, t) + 1) * Pow2[TrailingZeros(f)]
      /\ f \div Pow2[TrailingZeros(f)] = 2 * RiseTo(f, t) + 1
      /\ f % 2 = 1 => TrailingZeros(f) = 0
  BY <1>1, <1>3, TrailingZerosDef, Zenon
<1>5. f = t \/ TrailingZeros(f) = 0
  BY <1>4 DEF IsRight
<1> QED BY <1>2, <1>4, <1>5, Zenon

\* A position f of level l, with t the last one there, and where it rises to.
LEMMA RiseKeepsPlace ==
  ASSUME NEW n \in Nat \ {0}, NEW l \in Nat, NEW t, t = LastAt(n, l), t # 0, NEW f \in 0 .. t
  PROVE  /\ Rise(f, t) \in Nat \ {0}
         /\ RiseTo(f, t) \in 0 .. LastAt(n, l + Rise(f, t))
         /\ t \div Pow2[Rise(f, t)] = LastAt(n, l + Rise(f, t))
<1> DEFINE h == Rise(f, t)
<1>1. t \in Nat
  BY LastAtBounds
<1>2. h \in Nat \ {0}
  <2>1. CASE IsRight(f, t)
    BY <1>1, <2>1, RiseOfRight
  <2>2. CASE ~IsRight(f, t)
    BY <1>1, <2>2, RiseOfLeft
  <2> QED BY <2>1, <2>2
<1>3. RiseTo(f, t) = f \div Pow2[h]
  BY DEF RiseTo
<1> HIDE DEF h
<1>4. Pow2[h] \in Nat \ {0}
  BY <1>2, Pow2Positive
<1>5. f \in Nat /\ f <= t
  BY <1>1
<1>6. f \div Pow2[h] <= t \div Pow2[h] /\ f \div Pow2[h] \in Nat /\ t \div Pow2[h] \in Nat
  BY <1>1, <1>4, <1>5, DivMonotone, DivBounds
<1>7. t \div Pow2[h] = LastAt(n, l + h)
  BY <1>2, ShiftTwice DEF LastAt
<1> QED BY <1>2, <1>3, <1>6, <1>7 DEF h

\* The hash of the last node of a level.
LEMMA LastNodeHash ==
  ASSUME NEW D, Len(D) \in Nat \ {0}, NEW l \in Nat
  PROVE  NodeHash(D, l, LastAt(Len(D), l)) = MTHOf(D, LastAt(Len(D), l) * Pow2[l], Len(D))
BY LastNode DEF LastAt

\* If the hash that a step makes of x and p is a node's, so are they.
LEMMA LeftRises ==
  ASSUME NEW D, Len(D) \in Nat \ {0}, NEW l \in Nat, NEW g \in Nat,
         NEW f, f = 2 * g, f < LastAt(Len(D), l), NEW x, NEW p,
         HashInternal(x, p) = NodeHash(D, l + 1, g)
  PROVE  x = NodeHash(D, l, f)
<1>1. LastAt(Len(D), l) \in Nat /\ 2 * g + 1 \in 0 .. LastAt(Len(D), l)
  BY LastAtBounds
<1>2. (2 * g + 1) * Pow2[l] < Len(D)
  BY <1>1, LastAtBounds
<1>3. g * Pow2[l + 1] < Len(D)
  <2> DEFINE P == Pow2[l]
  <2>1. P \in Nat \ {0} /\ Pow2[l + 1] = 2 * P
    BY Pow2Positive
  <2>2. (2 * g + 1) * P < Len(D)
    BY <1>2
  <2> HIDE DEF P
  <2>3. (2 * g + 1) * P = g * (2 * P) + P /\ g * (2 * P) \in Nat
    BY <2>1
  <2> QED BY <2>1, <2>2, <2>3
<1>4. NodeHash(D, l + 1, g) = HashInternal(NodeHash(D, l, 2 * g), NodeHash(D, l, 2 * g + 1))
  BY <1>2, NodeSplits
<1>5. NodeHash(D, l + 1, g) # Unavailable
  BY <1>3, NodeExists
<1>6. x = NodeHash(D, l, 2 * g)
  BY <1>4, <1>5, HashesDiffer
<1> QED BY <1>6

\* The same for a right child, and where its sibling on the left lies.
LEMMA RightRises ==
  ASSUME NEW D, Len(D) \in Nat \ {0}, NEW l \in Nat, NEW k \in Nat, NEW g \in Nat,
         NEW f \in 0 .. LastAt(Len(D), l),
         f = (2 * g + 1) * Pow2[k], f \div Pow2[k] = 2 * g + 1,
         f = LastAt(Len(D), l) \/ k = 0,
         NEW x, NEW p, HashInternal(p, x) = NodeHash(D, l + (k + 1), g)
  PROVE  /\ x = NodeHash(D, l, f)
         /\ f * Pow2[l] = (2 * g + 1) * Pow2[l + k]
         /\ p = MTHOf(D, (2 * g) * Pow2[l + k], f * Pow2[l])
<1> DEFINE n == Len(D)
           P == Pow2[l]
           Q == Pow2[l + k]
           K == Pow2[k]
<1>1. /\ P \in Nat \ {0} /\ Q \in Nat \ {0} /\ K \in Nat \ {0} /\ l + k \in Nat
      /\ Q = P * K /\ Pow2[(l + k) + 1] = 2 * Q /\ l + (k + 1) = (l + k) + 1
  <2>1. l + k \in Nat /\ l + (k + 1) = (l + k) + 1
    OBVIOUS
  <2> QED BY <2>1, Pow2Positive, Pow2Add
<1>2. f * P < n /\ f * P \in Nat /\ n \in Nat
  BY LastAtBounds
<1>3. f * P = (2 * g + 1) * Q
  <2>1. f = (2 * g + 1) * K
    OBVIOUS
  <2> HIDE DEF P, Q, K
  <2>2. ((2 * g + 1) * K) * P = (2 * g + 1) * (P * K)
    BY <1>1
  <2> QED BY <1>1, <2>1, <2>2
<1>4. g * (2 * Q) < n
  <2> DEFINE u == g * (2 * Q)
  <2> HIDE DEF P, Q, K
  <2>1. (2 * g + 1) * Q = u + Q /\ u \in Nat
    BY <1>1
  <2> HIDE DEF u
  <2>2. u + Q < n
    BY <1>2, <1>3, <2>1
  <2>3. u < n
    BY <1>1, <1>2, <2>1, <2>2
  <2> QED BY <2>3 DEF u
<1>5. NodeHash(D, (l + k) + 1, g)
        = HashInternal(NodeHash(D, l + k, 2 * g), NodeHash(D, l + k, 2 * g + 1))
  <2>1. (2 * g + 1) * Pow2[l + k] < Len(D)
    BY <1>2, <1>3
  <2> QED BY <1>1, <2>1, NodeSplits
<1>6. NodeHash(D, (l + k) + 1, g) # Unavailable
  BY <1>1, <1>4, NodeExists
<1>7. p = NodeHash(D, l + k, 2 * g) /\ x = NodeHash(D, l + k, 2 * g + 1)
  BY <1>1, <1>5, <1>6, HashesDiffer
<1>8. NodeHash(D, l + k, 2 * g) = MTHOf(D, (2 * g) * Q, f * P)
  BY <1>2, <1>3 DEF NodeHash
<1>9. NodeHash(D, l + k, 2 * g + 1) = NodeHash(D, l, f)
  <2>1. CASE f = LastAt(n, l)
    <3>1. LastAt(n, l + k) = f \div K
      <4>1. n - 1 \in Nat
        OBVIOUS
      <4> QED BY <2>1, <4>1, ShiftTwice DEF LastAt
    <3>2. NodeHash(D, l + k, 2 * g + 1) = MTHOf(D, (2 * g + 1) * Q, n)
      BY <1>1, <3>1, LastNodeHash
    <3>3. NodeHash(D, l, f) = MTHOf(D, f * P, n)
      BY <2>1, LastNodeHash
    <3> QED BY <1>3, <3>2, <3>3
  <2>2. CASE k = 0
    <3>1. K = 1 /\ l + k = l
      BY <2>2, Pow2Positive
    <3>2. f = 2 * g + 1
      BY <3>1
    <3> QED BY <3>1, <3>2
  <2> QED BY <2>1, <2>2
<1> QED BY <1>3, <1>7, <1>8, <1>9

\* Both together: what one turn of a loop proves about the hashes it starts from.
LEMMA RiseIsNode ==
  ASSUME NEW D, Len(D) \in Nat \ {0}, NEW l \in Nat,
         NEW t, t = LastAt(Len(D), l), t # 0, NEW f \in 0 .. t, NEW x, NEW p,
         (IF IsRight(f, t) THEN HashInternal(p, x) ELSE HashInternal(x, p))
           = NodeHash(D, l + Rise(f, t), RiseTo(f, t))
  PROVE  x = NodeHash(D, l, f)
<1>1. t \in Nat
  BY LastAtBounds
<1>2. CASE IsRight(f, t)
  <2>1. PICK k \in Nat :
           /\ Rise(f, t) = k + 1
           /\ RiseTo(f, t) \in Nat
           /\ f = (2 * RiseTo(f, t) + 1) * Pow2[k]
           /\ f \div Pow2[k] = 2 * RiseTo(f, t) + 1
           /\ f = t \/ k = 0
    BY <1>1, <1>2, RiseOfRight
  <2>2. HashInternal(p, x) = NodeHash(D, l + (k + 1), RiseTo(f, t))
    BY <1>2, <2>1
  <2>3. f \in 0 .. LastAt(Len(D), l) /\ (f = LastAt(Len(D), l) \/ k = 0)
    BY <2>1
  <2> QED BY <2>1, <2>2, <2>3, RightRises
<1>3. CASE ~IsRight(f, t)
  <2>1. /\ Rise(f, t) = 1 /\ RiseTo(f, t) \in Nat
        /\ f = 2 * RiseTo(f, t) /\ f < LastAt(Len(D), l)
    BY <1>1, <1>3, RiseOfLeft
  <2>2. HashInternal(x, p) = NodeHash(D, l + 1, RiseTo(f, t))
    BY <1>3, <2>1
  <2> QED BY <2>1, <2>2, LeftRises
<1> QED BY <1>2, <1>3

-----------------------------------------------------------------------------
(* Inclusion proofs *)

\* The recursion of the loop over an inclusion proof has a solution.
IsInclusionRun(at, index, start, end, leaf, proof) ==
  /\ at[0] = [fn |-> index - start, sn |-> end - start - 1, r |-> leaf]
  /\ \A k \in 1 .. Len(proof) : at[k] = InclusionStep(at[k - 1], proof[k])
  /\ EvaluateInclusion(index, start, end, leaf, proof)
       = IF at[Len(proof)].sn = 0 THEN at[Len(proof)].r ELSE Rejected

\* The loop over an inclusion proof has states, the last of which is the result.
LEMMA InclusionLoop ==
  ASSUME NEW index, NEW start, NEW end, NEW leaf, NEW proof, Len(proof) \in Nat
  PROVE  \E at : IsInclusionRun(at, index, start, end, leaf, proof)
<1> DEFINE I == 0 .. Len(proof)
           first == [fn |-> index - start, sn |-> end - start - 1, r |-> leaf]
           Step(a, k) == InclusionStep(a, proof[k])
           Body(f, k) == IF k = 0 THEN first ELSE Step(f[k - 1], k)
           Upto(f, n) == \A k \in I : k <= n => f[k] = Body(f, k)
           S == { n \in Nat : \E f : Upto(f, n) }
           at == CHOOSE f : f = [k \in I |-> Body(f, k)]
<1> HIDE DEF first, Step
<1>1. 0 \in S
  <2>1. Upto([k \in I |-> first], 0)
    OBVIOUS
  <2> HIDE DEF Upto
  <2> QED BY <2>1
<1>2. ASSUME NEW n \in Nat, n \in S PROVE n + 1 \in S
  <2>1. PICK f : Upto(f, n)
    BY <1>2
  <2> DEFINE g == [k \in I |-> Body(f, k)]
  <2>2. ASSUME NEW k \in I, k <= n PROVE g[k] = f[k]
    BY <2>1, <2>2
  <2>3. ASSUME NEW k \in I, k <= n + 1 PROVE g[k] = Body(g, k)
    <3>1. CASE k = 0
      BY <3>1
    <3>2. CASE k # 0
      <4>1. k - 1 \in I /\ k - 1 <= n
        BY <2>3, <3>2
      <4>2. g[k - 1] = f[k - 1]
        BY <2>2, <4>1
      <4> QED BY <3>2, <4>2
    <3> QED BY <3>1, <3>2
  <2>4. Upto(g, n + 1)
    <3> HIDE DEF g
    <3> QED BY <2>3
  <2> HIDE DEF g, Upto
  <2> QED BY <2>4
<1>3. \A n \in Nat : n \in S
  <2> HIDE DEF S
  <2> QED BY <1>1, <1>2, Induction
<1>4. PICK f : Upto(f, Len(proof))
  BY <1>3
<1>5. \A k \in I : f[k] = Body(f, k)
  BY <1>4
<1> DEFINE g == [k \in I |-> f[k]]
<1>6. g = [k \in I |-> Body(g, k)]
  <2>1. ASSUME NEW k \in I PROVE f[k] = Body(g, k)
    <3>1. CASE k = 0
      BY <1>5, <3>1
    <3>2. CASE k # 0
      <4>1. k - 1 \in I
        BY <3>2
      <4>2. g[k - 1] = f[k - 1]
        BY <4>1
      <4> QED BY <1>5, <3>2, <4>2
    <3> QED BY <3>1, <3>2
  <2> HIDE DEF Body, I
  <2> QED BY <2>1
<1>7. at = [k \in I |-> Body(at, k)]
  <2> HIDE DEF Body, I, g
  <2> QED BY <1>6
<1>8. EvaluateInclusion(index, start, end, leaf, proof)
        = IF at[Len(proof)].sn = 0 THEN at[Len(proof)].r ELSE Rejected
  BY DEF EvaluateInclusion, first, Step
<1>9. \A k \in I : at[k] = Body(at, k)
  <2> HIDE DEF at, Body, I
  <2> QED BY <1>7
<1> HIDE DEF at
<1>10. at[0] = first /\ \A k \in 1 .. Len(proof) : at[k] = Step(at[k - 1], k)
  BY <1>9
<1>11. IsInclusionRun(at, index, start, end, leaf, proof)
  BY <1>8, <1>10 DEF first, Step, IsInclusionRun
<1> QED BY <1>11

\* One turn of that loop, in terms of where the position rises to.
LEMMA InclusionStepIs ==
  ASSUME NEW a, NEW p
  PROVE  LET next == InclusionStep(a, p)
         IN  /\ next.fn = RiseTo(a.fn, a.sn)
             /\ next.sn = a.sn \div Pow2[Rise(a.fn, a.sn)]
             /\ next.r = IF a.sn = 0 THEN Rejected
                         ELSE IF IsRight(a.fn, a.sn) THEN HashInternal(p, a.r)
                         ELSE HashInternal(a.r, p)
BY DEF InclusionStep, RiseTo, Rise, IsRight

\* The root is the only node of a level with one node.
LEMMA RootIsNode ==
  ASSUME NEW D, Len(D) \in Nat \ {0}, NEW l \in Nat, LastAt(Len(D), l) = 0
  PROVE  NodeHash(D, l, 0) = MTH(D)
<1>1. 0 * Pow2[l] = 0
  <2>1. Pow2[l] \in Nat
    BY Pow2Positive
  <2> QED BY <2>1
<1> QED BY <1>1, LastNodeHash DEF MTH

\* The nodes of level 0 are the hashes of the entries.
LEMMA LeafIsNode ==
  ASSUME NEW D, Len(D) \in Nat \ {0}, NEW f \in 0 .. Len(D) - 1
  PROVE  NodeHash(D, 0, f) = HashLeaf(D[f + 1])
<1>1. Pow2[0] = 1 /\ f * 1 = f /\ (f + 1) * 1 = f + 1
  BY Pow2Positive
<1>2. NodeHash(D, 0, f) = MTHOf(D, f, f + 1)
  BY <1>1 DEF NodeHash
<1>3. f \in 0 .. Len(D) /\ f + 1 \in 0 .. Len(D) /\ (f + 1) - f = 1
  OBVIOUS
<1> QED BY <1>2, <1>3, MTHOfDef

-----------------------------------------------------------------------------
(* Where a subtree lies *)

\* A subtree and the levels at which its two ends are in one node.
LEMMA SubtreePlace ==
  ASSUME NEW start, NEW end, IsValidSubtree(start, end), NEW b, b = BitCeil(end - start)
  PROVE  /\ start \in Nat /\ end \in Nat /\ start < end
         /\ b \in 0 .. end - 1
         /\ end - 1 < start + Pow2[b]
         /\ \A l \in 0 .. b : start = (start \div Pow2[l]) * Pow2[l]
         /\ \A l \in 0 .. b - 1 : start \div Pow2[l] < (end - 1) \div Pow2[l]
         /\ \A l \in Nat : l >= b => start \div Pow2[l] = (end - 1) \div Pow2[l]
         /\ b > 0 => ((end - 1) \div Pow2[b - 1]) % 2 = 1
<1>1. start \in Nat /\ end \in Nat /\ start < end /\ start % Pow2[b] = 0
  BY DEF IsValidSubtree
<1> DEFINE s == end - start - 1
<1>2. s \in Nat /\ b = BitWidth(s)
  BY <1>1 DEF BitCeil
<1> HIDE DEF s
<1>3. b \in 0 .. s /\ s < Pow2[b] /\ \A j \in 0 .. b - 1 : Pow2[j] <= s
  BY <1>2, BitWidthDef
<1>4. end - 1 = start + s /\ b \in 0 .. end - 1
  BY <1>1, <1>3 DEF s
<1>5. ASSUME NEW l \in 0 .. b
      PROVE  /\ start = (start \div Pow2[l]) * Pow2[l]
             /\ \E m \in Nat : start = Pow2[l] * m /\ m * Pow2[l] = Pow2[l] * m
                               /\ start \div Pow2[l] = m
  <2> DEFINE P == Pow2[l]
             M == Pow2[b - l]
             B == Pow2[b]
             q == start \div B
             m == M * q
  <2>1. P \in Nat \ {0} /\ M \in Nat \ {0} /\ B \in Nat \ {0} /\ B = P * M
    <3>1. l \in Nat /\ b \in Nat /\ l <= b
      BY <1>3
    <3>2. P \in Nat \ {0} /\ B \in Nat \ {0}
      BY <3>1, Pow2Positive
    <3>3. B = P * M /\ M \in Nat \ {0}
      BY <3>1, Pow2Split
    <3> QED BY <3>2, <3>3
  <2>2. q \in Nat /\ start = B * q + 0
    <3>1. start % B = 0 /\ 0 \in Nat
      BY <1>1
    <3>2. start \in Nat /\ B \in Nat \ {0}
      BY <1>1, <2>1
    <3> HIDE DEF B
    <3> DEFINE r == 0
    <3>3. start % B = r
      BY <3>1
    <3> HIDE DEF r
    <3>4. start \div B \in Nat /\ start = B * (start \div B) + r
      BY <3>2, <3>3, DivWithRest, Zenon
    <3> QED BY <3>4 DEF r
  <2> HIDE DEF P, M, B, q
  <2>3. start = P * m /\ m \in Nat /\ m * P = P * m
    <3>1. B * q = P * (M * q) /\ M * q \in Nat
      BY <2>1, <2>2
    <3> DEFINE c == B * q
    <3>2. start = c
      <4>1. c \in Nat /\ start = c + 0
        BY <2>1, <2>2
      <4> HIDE DEF c
      <4> QED BY <4>1
    <3> QED BY <2>1, <3>1, <3>2
  <2> HIDE DEF m
  <2>4. start \div P = m
    BY <1>1, <2>1, <2>3, DivUnique
  <2> QED BY <2>3, <2>4 DEF P
<1>6. ASSUME NEW l \in 0 .. b - 1 PROVE start \div Pow2[l] < (end - 1) \div Pow2[l]
  <2> DEFINE P == Pow2[l]
             e == end - 1
             d == e \div P
  <2>1. P \in Nat \ {0} /\ P <= s /\ l \in 0 .. b
    BY <1>3, Pow2Positive
  <2>2. PICK m \in Nat : start = P * m /\ start \div P = m
    BY <1>5, <2>1
  <2>3. e \in Nat /\ e = start + s
    BY <1>1, <1>4
  <2> HIDE DEF P, e
  <2>4. d \in Nat /\ e < P * d + P
    BY <2>1, <2>3, DivBounds
  <2> HIDE DEF d
  <2>5. P * m + P < P * d + P
    BY <1>2, <2>1, <2>2, <2>3, <2>4
  <2>6. m < d
    BY <2>1, <2>2, <2>4, <2>5
  <2> QED BY <2>2, <2>6 DEF P, d, e
<1>7. (end - 1) \div Pow2[b] = start \div Pow2[b]
  <2> DEFINE P == Pow2[b]
             e == end - 1
  <2>1. P \in Nat \ {0} /\ b \in 0 .. b
    BY <1>3, Pow2Positive
  <2>2. PICK m \in Nat : start = P * m /\ start \div P = m
    BY <1>5, <2>1
  <2>3. e \in Nat /\ e = start + s /\ s < P
    BY <1>1, <1>3, <1>4
  <2> HIDE DEF P, e
  <2>4. P * m <= e /\ e < P * m + P
    BY <1>2, <2>1, <2>2, <2>3
  <2>5. e \div P = m
    BY <2>1, <2>2, <2>3, <2>4, DivUnique
  <2> QED BY <2>2, <2>5 DEF P, e
<1>8. ASSUME NEW l \in Nat, l >= b PROVE start \div Pow2[l] = (end - 1) \div Pow2[l]
  <2>1. b \in Nat /\ b <= l /\ end - 1 \in Nat
    BY <1>1, <1>3, <1>8
  <2>2. start \div Pow2[l] = (start \div Pow2[b]) \div Pow2[l - b]
    BY <1>1, <2>1, ShiftSplit
  <2>3. (end - 1) \div Pow2[l] = ((end - 1) \div Pow2[b]) \div Pow2[l - b]
    BY <2>1, ShiftSplit
  <2> QED BY <1>7, <2>2, <2>3
<1>9. ASSUME b > 0 PROVE ((end - 1) \div Pow2[b - 1]) % 2 = 1
  <2> DEFINE P == Pow2[b - 1]
             e == end - 1
             q == start \div Pow2[b]
             x == e \div P
  <2>1. b - 1 \in Nat /\ b \in Nat /\ (b - 1) + 1 = b /\ b - 1 \in 0 .. b - 1 /\ b \in 0 .. b
    BY <1>3, <1>9
  <2>2. P \in Nat \ {0} /\ Pow2[b] = 2 * P /\ P <= s /\ s < 2 * P
    BY <1>3, <2>1, Pow2Positive
  <2>3. q \in Nat /\ start = (2 * P) * q
    <3>1. PICK m \in Nat : start = Pow2[b] * m /\ start \div Pow2[b] = m
      BY <1>5, <2>1
    <3> QED BY <2>2, <3>1
  <2>4. e \in Nat /\ e = start + s
    BY <1>1, <1>4
  <2> HIDE DEF P, e, q
  <2>5. x = 2 * q + 1
    <3>1. P * (2 * q + 1) = (2 * P) * q + P
      BY <2>2, <2>3
    <3>2. P * (2 * q + 1) <= e /\ e < P * (2 * q + 1) + P /\ 2 * q + 1 \in Nat
      BY <1>2, <2>2, <2>3, <2>4, <3>1
    <3> QED BY <2>2, <2>4, <3>2, DivUnique
  <2> QED BY <2>3, <2>5 DEF P, e
<1>10. end - 1 < start + Pow2[b]
  <2>1. Pow2[b] \in Nat
    BY <1>3, Pow2Positive
  <2> QED BY <1>1, <1>2, <1>3, <1>4, <2>1
<1>11. \A l \in 0 .. b : start = (start \div Pow2[l]) * Pow2[l]
  BY <1>5
<1> QED BY <1>1, <1>4, <1>6, <1>8, <1>9, <1>10, <1>11

\* cover_interval and the verifier count the bits two ends differ in.
LEMMA ApartIs ==
  ASSUME NEW start, NEW end, IsValidSubtree(start, end)
  PROVE  DifferingBits(start, end - 1) = BitCeil(end - start)
<1> DEFINE b == BitCeil(end - start)
           Apart(k) == /\ start \div Pow2[k] = (end - 1) \div Pow2[k]
                       /\ \A j \in 0 .. k - 1 : start \div Pow2[j] # (end - 1) \div Pow2[j]
<1>1. /\ start \in Nat /\ end \in Nat /\ start < end /\ b \in 0 .. end - 1
      /\ \A l \in 0 .. b - 1 : start \div Pow2[l] < (end - 1) \div Pow2[l]
      /\ start \div Pow2[b] = (end - 1) \div Pow2[b]
  <2> HIDE DEF b
  <2>1. b \in 0 .. end - 1 /\ start \in Nat /\ end \in Nat
    BY SubtreePlace DEF b
  <2>2. b \in Nat /\ b >= b
    BY <2>1
  <2> QED BY <2>2, SubtreePlace DEF b
<1> HIDE DEF b
<1>2. ASSUME NEW j \in 0 .. b - 1 PROVE start \div Pow2[j] # (end - 1) \div Pow2[j]
  <2>1. start \div Pow2[j] \in Nat
    <3>1. Pow2[j] \in Nat \ {0}
      BY <1>1, Pow2Positive
    <3> QED BY <1>1, <3>1, DivBounds
  <2>2. start \div Pow2[j] < (end - 1) \div Pow2[j]
    BY <1>1
  <2> QED BY <2>1, <2>2
<1>3. b \in 0 .. start + (end - 1) /\ Apart(b)
  <2>1. b \in 0 .. start + (end - 1)
    BY <1>1
  <2> QED BY <1>1, <1>2, <2>1
<1>4. ASSUME NEW k \in 0 .. start + (end - 1), Apart(k) PROVE k = b
  <2>1. ~(k < b)
    <3>1. k < b => k \in 0 .. b - 1
      BY <1>1
    <3> QED BY <1>2, <1>4, <3>1
  <2>2. ~(b < k)
    <3>1. b < k => b \in 0 .. k - 1
      BY <1>1
    <3> QED BY <1>1, <1>4, <3>1
  <2> QED BY <1>1, <2>1, <2>2
<1>5. DifferingBits(start, end - 1) = CHOOSE k \in 0 .. start + (end - 1) : Apart(k)
  BY DEF DifferingBits
<1> HIDE DEF Apart
<1>6. (CHOOSE k \in 0 .. start + (end - 1) : Apart(k)) = b
  BY <1>3, <1>4
<1> QED BY <1>5, <1>6 DEF b

-----------------------------------------------------------------------------
(* Consistency proofs: the part of a subtree that is rebuilt *)

\* What is rebuilt of a subtree on level l: below its own level, the part from
\* the node with its last entry on.
PartFrom(D, start, end, l) ==
  IF l < BitCeil(end - start) THEN MTHOf(D, ((end - 1) \div Pow2[l]) * Pow2[l], end)
  ELSE MTHOf(D, start, end)

\* The node with the last entry is a right child: its sibling joins the part.
LEMMA PartGrows ==
  ASSUME NEW D, Len(D) \in Nat, NEW start, NEW end, IsValidSubtree(start, end), end <= Len(D),
         NEW l \in Nat, l < BitCeil(end - start), NEW k \in Nat, NEW g \in Nat,
         NEW f, f = (end - 1) \div Pow2[l], f = (2 * g + 1) * Pow2[k], f \div Pow2[k] = 2 * g + 1,
         f * Pow2[l] = (2 * g + 1) * Pow2[l + k]
  PROVE  PartFrom(D, start, end, l + (k + 1))
           = HashInternal(MTHOf(D, (2 * g) * Pow2[l + k], f * Pow2[l]),
                          PartFrom(D, start, end, l))
<1> DEFINE b == BitCeil(end - start)
           Q == Pow2[l + k]
           s == (2 * g) * Q
           e == end - 1
<1>1. /\ start \in Nat /\ end \in Nat /\ start < end /\ b \in Nat /\ e \in Nat
      /\ \A j \in 0 .. b : start = (start \div Pow2[j]) * Pow2[j]
      /\ \A j \in Nat : j >= b => start \div Pow2[j] = (end - 1) \div Pow2[j]
      /\ b > 0 => ((end - 1) \div Pow2[b - 1]) % 2 = 1
  BY SubtreePlace
<1>2. Q \in Nat \ {0} /\ Pow2[l + (k + 1)] = 2 * Q /\ l + k \in Nat
  <2>1. l + k \in Nat /\ l + (k + 1) = (l + k) + 1
    OBVIOUS
  <2> QED BY <2>1, Pow2Positive
<1>3. l + (k + 1) <= b
  <2> SUFFICES ASSUME l + (k + 1) > b PROVE FALSE
    BY <1>1
  <2> DEFINE c == (b - 1) - l
             h == Pow2[(k - c) - 1]
             C == Pow2[c]
  <2> HIDE DEF b
  <2>0. l < b
    BY DEF b
  <2>1. c \in Nat /\ c < k /\ b - 1 = l + c /\ b > 0 /\ (k - c) - 1 \in Nat
    BY <1>1, <2>0
  <2>2. e \div Pow2[b - 1] = f \div C
    <3>1. (e \div Pow2[l]) \div Pow2[c] = e \div Pow2[l + c]
      BY <1>1, <2>1, ShiftTwice
    <3>2. f = e \div Pow2[l]
      OBVIOUS
    <3> HIDE DEF e, c
    <3> QED BY <2>1, <3>1, <3>2
  <2>3. h \in Nat \ {0} /\ C \in Nat \ {0} /\ Pow2[k] = C * (2 * h)
    <3>1. k - c = ((k - c) - 1) + 1 /\ c \in Nat /\ c <= k
      BY <2>1
    <3>2. Pow2[k - c] = 2 * h /\ h \in Nat \ {0}
      BY <2>1, <3>1, Pow2Positive
    <3>3. Pow2[k] = Pow2[c] * Pow2[k - c]
      BY <3>1, Pow2Split
    <3> QED BY <2>1, <3>2, <3>3, Pow2Positive
  <2> HIDE DEF h, C, c, e
  <2> DEFINE m == h * (2 * g + 1)
  <2>4. f = C * (2 * m) /\ m \in Nat /\ f \in Nat
    <3>1. f = (2 * g + 1) * (C * (2 * h))
      BY <2>3
    <3>2. (2 * g + 1) * (C * (2 * h)) = C * (2 * m) /\ m \in Nat
      BY <2>3
    <3>3. C * (2 * m) \in Nat
      BY <2>3, <3>2
    <3> QED BY <3>1, <3>2, <3>3
  <2> HIDE DEF m
  <2>5. f \div C = 2 * m
    <3> DEFINE w == 2 * m
    <3>1. w \in Nat /\ f = C * w
      BY <2>4
    <3> HIDE DEF w
    <3>2. C * w <= f /\ f < C * w + C
      BY <2>3, <2>4, <3>1
    <3>3. w \in Nat /\ f \in Nat /\ C \in Nat \ {0} /\ C * w <= f /\ f < C * w + C
      BY <2>3, <2>4, <3>1, <3>2
    <3>4. f \div C = w
      BY <3>3, DivUnique, ZenonT(30)
    <3> QED BY <3>4 DEF w
  <2>6. (e \div Pow2[b - 1]) % 2 = 1
    BY <1>1, <2>1 DEF e
  <2> QED BY <2>2, <2>4, <2>5, <2>6
<1>4. s \in Nat /\ (2 * g + 1) * Q = s + Q /\ g * (2 * Q) = s
  <2> HIDE DEF Q
  <2> QED BY <1>2
<1>5. s + Q < end /\ end <= s + 2 * Q
  <2>1. e \div Q = 2 * g + 1
    BY <1>1, ShiftTwice
  <2>2. Q * (2 * g + 1) <= e /\ e < Q * (2 * g + 1) + Q
    <3> DEFINE d == e \div Q
    <3>1. Q * d <= e /\ e < Q * d + Q
      <4> HIDE DEF e, Q
      <4> QED BY <1>1, <1>2, DivBounds
    <3> QED BY <2>1, <3>1
  <2>3. Q * (2 * g + 1) = s + Q
    <3> HIDE DEF Q
    <3> QED BY <1>2
  <2> HIDE DEF s, Q
  <2>4. s + Q <= e /\ e < (s + Q) + Q
    BY <2>2, <2>3
  <2> QED BY <1>1, <1>2, <1>4, <2>4
<1>6. MTHOf(D, s, end) = HashInternal(MTHOf(D, s, f * Pow2[l]), PartFrom(D, start, end, l))
  <2>1. f * Pow2[l] = s + Q
    BY <1>4
  <2>2. PartFrom(D, start, end, l) = MTHOf(D, s + Q, end)
    BY <2>1 DEF PartFrom
  <2>3. end \in 0 .. Len(D)
    BY <1>1
  <2> HIDE DEF s
  <2>4. MTHOf(D, s, end) = HashInternal(MTHOf(D, s, s + Q), MTHOf(D, s + Q, end))
    BY <1>2, <1>4, <1>5, <2>3, MTHSplitsAt
  <2> QED BY <2>1, <2>2, <2>4
<1>7. e \div Pow2[l + (k + 1)] = g
  <2> HIDE DEF e, Q, s
  <2>1. (2 * Q) * g = s /\ s <= e /\ e < s + 2 * Q
    BY <1>1, <1>2, <1>4, <1>5 DEF e
  <2>2. 2 * Q \in Nat \ {0} /\ (2 * Q) * g <= e /\ e < (2 * Q) * g + 2 * Q
    BY <1>2, <2>1
  <2> DEFINE T == 2 * Q
  <2>3. T \in Nat \ {0} /\ T * g <= e /\ e < T * g + T /\ e \in Nat /\ g \in Nat
    BY <1>1, <2>2
  <2> HIDE DEF T
  <2>4. e \div T = g
    BY <2>3, DivUnique, ZenonT(30)
  <2> QED BY <1>2, <2>4 DEF T
<1>8. PartFrom(D, start, end, l + (k + 1)) = MTHOf(D, s, end)
  <2>1. CASE l + (k + 1) < b
    <3>1. (e \div Pow2[l + (k + 1)]) * Pow2[l + (k + 1)] = s
      BY <1>2, <1>4, <1>7
    <3> QED BY <2>1, <3>1 DEF PartFrom
  <2>2. CASE l + (k + 1) = b
    <3>1. b \in 0 .. b /\ b >= b
      BY <1>1
    <3>2. start = (start \div Pow2[b]) * Pow2[b] /\ start \div Pow2[b] = e \div Pow2[b]
      BY <1>1, <3>1
    <3>3. start = g * (2 * Q)
      BY <1>2, <1>7, <2>2, <3>2
    <3> DEFINE c == l + (k + 1)
    <3>4. ~(c < b) /\ start = s
      BY <1>1, <1>4, <2>2, <3>3
    <3> HIDE DEF c, b, s
    <3>5. PartFrom(D, start, end, c) = MTHOf(D, start, end)
      BY <3>4 DEF PartFrom, b
    <3> QED BY <3>4, <3>5 DEF c
  <2>3. l + (k + 1) < b \/ l + (k + 1) = b
    <3>1. l + (k + 1) \in Nat /\ b \in Nat
      BY <1>1
    <3> HIDE DEF b
    <3> QED BY <1>3, <3>1
  <2> QED BY <2>1, <2>2, <2>3, Zenon
<1> QED BY <1>6, <1>8

-----------------------------------------------------------------------------
(* Consistency proofs: the loop *)

\* The fields of the state of the loop over a consistency proof.
IsConsistencyRun(at, from, first, rest) ==
  /\ at[0].fn = from.fn /\ at[0].sn = from.sn /\ at[0].tn = from.tn
  /\ at[0].fr = first /\ at[0].sr = first
  /\ \A k \in 1 .. Len(rest) :
       LET a == at[k - 1]
           b == at[k]
       IN  IF a.tn = 0
           THEN b.sn = a.sn /\ b.tn = 0 /\ b.sr = Rejected
           ELSE /\ b.fn = a.fn \div Pow2[Rise(a.sn, a.tn)]
                /\ b.sn = RiseTo(a.sn, a.tn)
                /\ b.tn = a.tn \div Pow2[Rise(a.sn, a.tn)]
                /\ b.fr = IF IsRight(a.sn, a.tn) /\ a.fn < a.sn
                          THEN HashInternal(rest[k], a.fr) ELSE a.fr
                /\ b.sr = IF IsRight(a.sn, a.tn)
                          THEN HashInternal(rest[k], a.sr) ELSE HashInternal(a.sr, rest[k])

\* One turn of the loop over a consistency proof, field by field.
LEMMA ConsistencyStepIs ==
  ASSUME NEW fn, NEW sn, NEW tn, NEW fr, NEW sr, NEW c,
         NEW a, a = [fn |-> fn, sn |-> sn, tn |-> tn, fr |-> fr, sr |-> sr]
  PROVE  ConsistencyStep(a, c)
           = IF tn = 0
             THEN [fn |-> fn, sn |-> sn, tn |-> tn, fr |-> Rejected, sr |-> Rejected]
             ELSE [fn |-> fn \div Pow2[Rise(sn, tn)],
                   sn |-> RiseTo(sn, tn),
                   tn |-> tn \div Pow2[Rise(sn, tn)],
                   fr |-> IF IsRight(sn, tn) /\ fn < sn THEN HashInternal(c, fr) ELSE fr,
                   sr |-> IF IsRight(sn, tn) THEN HashInternal(c, sr) ELSE HashInternal(sr, c)]
<1>1. CASE tn = 0
  <2> DEFINE b == [fn |-> fn, sn |-> sn, tn |-> tn, fr |-> fr, sr |-> sr]
  <2>1. ConsistencyStep(a, c) = [b EXCEPT !.fr = Rejected, !.sr = Rejected]
    BY <1>1 DEF ConsistencyStep
  <2>2. [b EXCEPT !.fr = Rejected, !.sr = Rejected]
          = [fn |-> fn, sn |-> sn, tn |-> tn, fr |-> Rejected, sr |-> Rejected]
    <3> DEFINE r == [fn |-> fn, sn |-> sn, tn |-> tn, fr |-> Rejected, sr |-> sr]
    <3>1. [b EXCEPT !.fr = Rejected] = r
      OBVIOUS
    <3>2. [r EXCEPT !.sr = Rejected]
            = [fn |-> fn, sn |-> sn, tn |-> tn, fr |-> Rejected, sr |-> Rejected]
      OBVIOUS
    <3>3. [b EXCEPT !.fr = Rejected, !.sr = Rejected]
            = [[b EXCEPT !.fr = Rejected] EXCEPT !.sr = Rejected]
      OBVIOUS
    <3> QED BY <3>1, <3>2, <3>3
  <2> QED BY <1>1, <2>1, <2>2
<1>2. CASE tn # 0
  BY <1>2 DEF ConsistencyStep, RiseTo, Rise, IsRight
<1> QED BY <1>1, <1>2

FirstHash(from, node, proof) == IF from.fn = from.sn THEN node ELSE Head(proof)
OtherHashes(from, proof) == IF from.fn = from.sn THEN proof ELSE Tail(proof)

\* The recursion of the loop over a consistency proof has a solution.
LEMMA ConsistencyLoop ==
  ASSUME NEW start, NEW end, NEW n, NEW node, NEW proof, NEW root,
         NEW from0, from0 = ConsistencyStart(start, end, n),
         NEW rest0, rest0 = OtherHashes(from0, proof),
         Len(rest0) \in Nat
  PROVE  \E at :
           /\ IsConsistencyRun(at, from0, FirstHash(from0, node, proof), rest0)
           /\ ConsistencyMatches(start, end, n, node, proof, root)
                <=> at[Len(rest0)].tn = 0 /\ at[Len(rest0)].fr = node /\ at[Len(rest0)].sr = root
<1> DEFINE from == ConsistencyStart(start, end, n)
           first == IF from.fn = from.sn THEN node ELSE Head(proof)
           rest == IF from.fn = from.sn THEN proof ELSE Tail(proof)
<1>0. from0 = from /\ FirstHash(from0, node, proof) = first /\ rest0 = rest /\ Len(rest) \in Nat
  BY DEF FirstHash, OtherHashes
<1> DEFINE I == 0 .. Len(rest)
           zero == [fn |-> from.fn, sn |-> from.sn, tn |-> from.tn, fr |-> first, sr |-> first]
           Step(a, k) == ConsistencyStep(a, rest[k])
           Body(f, k) == IF k = 0 THEN zero ELSE Step(f[k - 1], k)
           Upto(f, m) == \A k \in I : k <= m => f[k] = Body(f, k)
           S == { m \in Nat : \E f : Upto(f, m) }
           at == CHOOSE f : f = [k \in I |-> Body(f, k)]
<1>8. ConsistencyMatches(start, end, n, node, proof, root)
        <=> at[Len(rest)].tn = 0 /\ at[Len(rest)].fr = node /\ at[Len(rest)].sr = root
  BY Zenon DEF ConsistencyMatches
<1> HIDE DEF zero, Step, from, first, rest
<1>1. 0 \in S
  <2>1. Upto([k \in I |-> zero], 0)
    OBVIOUS
  <2> HIDE DEF Upto
  <2> QED BY <2>1
<1>2. ASSUME NEW m \in Nat, m \in S PROVE m + 1 \in S
  <2>1. PICK f : Upto(f, m)
    BY <1>2
  <2> DEFINE g == [k \in I |-> Body(f, k)]
  <2>2. ASSUME NEW k \in I, k <= m PROVE g[k] = f[k]
    BY <2>1, <2>2
  <2>3. ASSUME NEW k \in I, k <= m + 1 PROVE g[k] = Body(g, k)
    <3>1. CASE k = 0
      BY <3>1
    <3>2. CASE k # 0
      <4>1. k - 1 \in I /\ k - 1 <= m
        BY <2>3, <3>2
      <4>2. g[k - 1] = f[k - 1]
        BY <2>2, <4>1
      <4> QED BY <3>2, <4>2
    <3> QED BY <3>1, <3>2
  <2>4. Upto(g, m + 1)
    <3> HIDE DEF g
    <3> QED BY <2>3
  <2> HIDE DEF g, Upto
  <2> QED BY <2>4
<1>3. \A m \in Nat : m \in S
  <2> HIDE DEF S
  <2> QED BY <1>1, <1>2, Induction
<1>4. PICK f : Upto(f, Len(rest))
  BY <1>0, <1>3
<1>5. \A k \in I : f[k] = Body(f, k)
  BY <1>4
<1> DEFINE g == [k \in I |-> f[k]]
<1>6. g = [k \in I |-> Body(g, k)]
  <2>1. ASSUME NEW k \in I PROVE f[k] = Body(g, k)
    <3>1. CASE k = 0
      BY <1>5, <3>1
    <3>2. CASE k # 0
      <4>1. k - 1 \in I
        BY <3>2
      <4>2. g[k - 1] = f[k - 1]
        BY <4>1
      <4> QED BY <1>5, <3>2, <4>2
    <3> QED BY <3>1, <3>2
  <2> HIDE DEF Body, I
  <2> QED BY <2>1
<1>7. at = [k \in I |-> Body(at, k)]
  <2> HIDE DEF Body, I, g
  <2> QED BY <1>6
<1>9. \A k \in I : at[k] = Body(at, k)
  <2> HIDE DEF at, Body, I
  <2> QED BY <1>7
<1> HIDE DEF at
<1>10. at[0] = zero /\ \A k \in 1 .. Len(rest) : at[k] = Step(at[k - 1], k)
  BY <1>9
\* Every state is a record with these fields.
<1> DEFINE Rec(a) == [fn |-> a.fn, sn |-> a.sn, tn |-> a.tn, fr |-> a.fr, sr |-> a.sr]
           R == { k \in Nat : k \in I => at[k] = Rec(at[k]) }
<1>11. \A k \in Nat : k \in R
  <2>1. 0 \in R
    <3>1. zero = Rec(zero)
      BY DEF zero
    <3> QED BY <1>10, <3>1
  <2>2. ASSUME NEW k \in Nat, k \in R PROVE k + 1 \in R
    <3> SUFFICES ASSUME k + 1 \in I PROVE at[k + 1] = Rec(at[k + 1])
      OBVIOUS
    <3>1. k \in I /\ k + 1 \in 1 .. Len(rest) /\ (k + 1) - 1 = k
      OBVIOUS
    <3>2. at[k] = Rec(at[k])
      BY <2>2, <3>1
    <3>3. at[k + 1] = ConsistencyStep(at[k], rest[k + 1])
      BY <1>10, <3>1 DEF Step
    <3> DEFINE a == at[k]
               y == at[k + 1]
    <3>4. a = Rec(a) /\ y = ConsistencyStep(a, rest[k + 1])
      BY <3>2, <3>3
    <3> HIDE DEF a, y
    <3>5. CASE a.tn = 0
      <4>1. y = [fn |-> a.fn, sn |-> a.sn, tn |-> a.tn, fr |-> Rejected, sr |-> Rejected]
        BY <3>4, <3>5, ConsistencyStepIs
      <4> QED BY <4>1 DEF y
    <3>6. CASE a.tn # 0
      <4>1. y = [fn |-> a.fn \div Pow2[Rise(a.sn, a.tn)],
                 sn |-> RiseTo(a.sn, a.tn),
                 tn |-> a.tn \div Pow2[Rise(a.sn, a.tn)],
                 fr |-> IF IsRight(a.sn, a.tn) /\ a.fn < a.sn
                        THEN HashInternal(rest[k + 1], a.fr) ELSE a.fr,
                 sr |-> IF IsRight(a.sn, a.tn)
                        THEN HashInternal(rest[k + 1], a.sr)
                        ELSE HashInternal(a.sr, rest[k + 1])]
        BY <3>4, <3>6, ConsistencyStepIs
      <4> QED BY <4>1 DEF y
    <3> QED BY <3>5, <3>6
  <2> HIDE DEF R
  <2> QED BY <2>1, <2>2, Induction
<1>12. IsConsistencyRun(at, from, first, rest)
  <2>1. /\ at[0].fn = from.fn /\ at[0].sn = from.sn /\ at[0].tn = from.tn
        /\ at[0].fr = first /\ at[0].sr = first
    BY <1>10 DEF zero
  <2>2. ASSUME NEW k \in 1 .. Len(rest)
        PROVE  LET a == at[k - 1]
                   b == at[k]
               IN  IF a.tn = 0
                   THEN b.sn = a.sn /\ b.tn = 0 /\ b.sr = Rejected
                   ELSE /\ b.fn = a.fn \div Pow2[Rise(a.sn, a.tn)]
                        /\ b.sn = RiseTo(a.sn, a.tn)
                        /\ b.tn = a.tn \div Pow2[Rise(a.sn, a.tn)]
                        /\ b.fr = IF IsRight(a.sn, a.tn) /\ a.fn < a.sn
                                  THEN HashInternal(rest[k], a.fr) ELSE a.fr
                        /\ b.sr = IF IsRight(a.sn, a.tn)
                                  THEN HashInternal(rest[k], a.sr) ELSE HashInternal(a.sr, rest[k])
    <3>1. k - 1 \in Nat /\ k - 1 \in I
      OBVIOUS
    <3>2. at[k - 1] = Rec(at[k - 1])
      BY <1>11, <3>1
    <3>3. at[k] = ConsistencyStep(at[k - 1], rest[k])
      BY <1>10 DEF Step
    <3> DEFINE a == at[k - 1]
               b == at[k]
    <3>4. a = Rec(a) /\ b = ConsistencyStep(a, rest[k])
      BY <3>2, <3>3
    <3> HIDE DEF a, b
    <3>5. CASE a.tn = 0
      <4>1. b = [fn |-> a.fn, sn |-> a.sn, tn |-> a.tn, fr |-> Rejected, sr |-> Rejected]
        BY <3>4, <3>5, ConsistencyStepIs
      <4>2. b.sn = a.sn /\ b.tn = 0 /\ b.sr = Rejected
        BY <3>5, <4>1
      <4> QED BY <3>5, <4>2 DEF a, b
    <3>6. CASE a.tn # 0
      <4>1. b = [fn |-> a.fn \div Pow2[Rise(a.sn, a.tn)],
                 sn |-> RiseTo(a.sn, a.tn),
                 tn |-> a.tn \div Pow2[Rise(a.sn, a.tn)],
                 fr |-> IF IsRight(a.sn, a.tn) /\ a.fn < a.sn
                        THEN HashInternal(rest[k], a.fr) ELSE a.fr,
                 sr |-> IF IsRight(a.sn, a.tn)
                        THEN HashInternal(rest[k], a.sr) ELSE HashInternal(a.sr, rest[k])]
        BY <3>4, <3>6, ConsistencyStepIs
      <4>2. /\ b.fn = a.fn \div Pow2[Rise(a.sn, a.tn)]
            /\ b.sn = RiseTo(a.sn, a.tn)
            /\ b.tn = a.tn \div Pow2[Rise(a.sn, a.tn)]
            /\ b.fr = IF IsRight(a.sn, a.tn) /\ a.fn < a.sn
                      THEN HashInternal(rest[k], a.fr) ELSE a.fr
            /\ b.sr = IF IsRight(a.sn, a.tn)
                      THEN HashInternal(rest[k], a.sr) ELSE HashInternal(a.sr, rest[k])
        BY <4>1
      <4> QED BY <3>6, <4>2 DEF a, b
    <3> QED BY <3>5, <3>6
  <2> HIDE DEF I, R
  <2> QED BY <2>1, <2>2 DEF IsConsistencyRun
<1> QED BY <1>0, <1>8, <1>12

\* The positions of a state are those of level l of a tree of n entries.
InPlace(a, n, l) == l \in Nat /\ a.tn = LastAt(n, l) /\ a.sn \in 0 .. LastAt(n, l)

\* A turn that uses up a hash leads from one level to a higher one.
LEMMA TurnRises ==
  ASSUME NEW n \in Nat \ {0}, NEW l, NEW a, InPlace(a, n, l), a.tn # 0,
         NEW b, b.sn = RiseTo(a.sn, a.tn), b.tn = a.tn \div Pow2[Rise(a.sn, a.tn)]
  PROVE  InPlace(b, n, l + Rise(a.sn, a.tn))
<1> DEFINE t == a.tn
           f == a.sn
<1>1. l \in Nat /\ t = LastAt(n, l) /\ f \in 0 .. t
  BY DEF InPlace
<1>2. b.sn = RiseTo(f, t) /\ b.tn = t \div Pow2[Rise(f, t)] /\ t # 0
  OBVIOUS
<1> HIDE DEF t, f
<1>3. /\ Rise(f, t) \in Nat \ {0}
      /\ RiseTo(f, t) \in 0 .. LastAt(n, l + Rise(f, t))
      /\ t \div Pow2[Rise(f, t)] = LastAt(n, l + Rise(f, t))
  BY <1>1, <1>2, RiseKeepsPlace
<1>4. InPlace(b, n, l + Rise(f, t))
  BY <1>1, <1>2, <1>3 DEF InPlace
<1> QED BY <1>4 DEF t, f

\* A state is where the subtree [start, end) is on level l.
AtSubtree(a, start, end, l) ==
  a.fn = start \div Pow2[l] /\ a.sn = (end - 1) \div Pow2[l]

\* A state has rebuilt the part of the subtree that its level holds.
HasRebuilt(D, start, end, a, l) ==
  /\ InPlace(a, Len(D), l)
  /\ AtSubtree(a, start, end, l)
  /\ a.fr = PartFrom(D, start, end, l)

\* A state that is at a subtree stays there when its positions are shifted.
LEMMA StaysAtSubtree ==
  ASSUME NEW start \in Nat, NEW end \in Nat \ {0}, NEW l \in Nat, NEW h \in Nat,
         NEW a, AtSubtree(a, start, end, l),
         NEW b, b.fn = a.fn \div Pow2[h], b.sn = a.sn \div Pow2[h]
  PROVE  AtSubtree(b, start, end, l + h)
<1>1. (start \div Pow2[l]) \div Pow2[h] = start \div Pow2[l + h]
  BY ShiftTwice
<1>2. ((end - 1) \div Pow2[l]) \div Pow2[h] = (end - 1) \div Pow2[l + h]
  BY ShiftTwice
<1> QED BY <1>1, <1>2, Zenon DEF AtSubtree

\* A turn whose next hash is a node's rebuilds the part of the next level.
LEMMA TurnRebuilds ==
  ASSUME NEW D, Len(D) \in Nat \ {0}, NEW start, NEW end, IsValidSubtree(start, end), end <= Len(D),
         NEW l, NEW a, HasRebuilt(D, start, end, a, l), a.tn # 0,
         NEW c, NEW b,
         b.fn = a.fn \div Pow2[Rise(a.sn, a.tn)],
         b.sn = RiseTo(a.sn, a.tn),
         b.tn = a.tn \div Pow2[Rise(a.sn, a.tn)],
         b.fr = IF IsRight(a.sn, a.tn) /\ a.fn < a.sn THEN HashInternal(c, a.fr) ELSE a.fr,
         b.sr = IF IsRight(a.sn, a.tn) THEN HashInternal(c, a.sr) ELSE HashInternal(a.sr, c),
         b.sr = NodeHash(D, l + Rise(a.sn, a.tn), b.sn)
  PROVE  HasRebuilt(D, start, end, b, l + Rise(a.sn, a.tn))
<1> DEFINE n == Len(D)
           t == a.tn
           f == a.sn
           h == Rise(f, t)
           w == BitCeil(end - start)
<1>1. /\ l \in Nat /\ t = LastAt(n, l) /\ f \in 0 .. t /\ t \in Nat /\ t # 0
      /\ AtSubtree(a, start, end, l) /\ a.fr = PartFrom(D, start, end, l)
  <2>1. l \in Nat /\ t = LastAt(n, l) /\ f \in 0 .. t /\ t # 0
    BY DEF HasRebuilt, InPlace
  <2>2. t \in Nat
    BY <2>1, LastAtBounds
  <2> QED BY <2>1, <2>2 DEF HasRebuilt
<1>2. InPlace(b, n, l + h)
  BY TurnRises DEF HasRebuilt
<1>3. h \in Nat
  <2> HIDE DEF t, f, n, h
  <2>1. Len(D) \in Nat \ {0} /\ n = Len(D)
    BY DEF n
  <2>2. Rise(f, t) \in Nat \ {0}
    BY <1>1, <2>1, RiseKeepsPlace
  <2> QED BY <2>2 DEF h
<1>4. /\ start \in Nat /\ end \in Nat \ {0} /\ w \in Nat
      /\ l < w => start \div Pow2[l] < (end - 1) \div Pow2[l]
      /\ l >= w => start \div Pow2[l] = (end - 1) \div Pow2[l]
      /\ l + 1 = w => ((end - 1) \div Pow2[l]) % 2 = 1
      /\ (end - 1) \div Pow2[l] \in Nat
  <2>1. /\ start \in Nat /\ end \in Nat /\ start < end /\ w \in Nat
        /\ \A j \in 0 .. w - 1 : start \div Pow2[j] < (end - 1) \div Pow2[j]
        /\ \A j \in Nat : j >= w => start \div Pow2[j] = (end - 1) \div Pow2[j]
        /\ w > 0 => ((end - 1) \div Pow2[w - 1]) % 2 = 1
    BY SubtreePlace
  <2>2. l < w => l \in 0 .. w - 1
    BY <1>1, <2>1
  <2>3. l + 1 = w => w > 0 /\ w - 1 = l
    <3>1. l \in Nat /\ w \in Nat
      BY <1>1, <2>1
    <3> HIDE DEF w
    <3> QED BY <3>1
  <2>4. end - 1 \in Nat /\ Pow2[l] \in Nat \ {0}
    BY <1>1, <2>1, Pow2Positive
  <2>5. (end - 1) \div Pow2[l] \in Nat
    BY <2>4, DivBounds
  <2>6. end \in Nat \ {0}
    BY <2>1
  <2>7. l + 1 = w => ((end - 1) \div Pow2[l]) % 2 = 1
    BY <2>1, <2>3
  <2> QED BY <1>1, <2>1, <2>2, <2>5, <2>6, <2>7
<1>5. AtSubtree(b, start, end, l + h)
  <2>1. b.fn = a.fn \div Pow2[h] /\ b.sn = a.sn \div Pow2[h]
    BY DEF RiseTo
  <2> HIDE DEF h
  <2> QED BY <1>1, <1>3, <1>4, <2>1, StaysAtSubtree
<1>6. f = (end - 1) \div Pow2[l] /\ a.fn = start \div Pow2[l]
  BY <1>1 DEF AtSubtree
<1>7. CASE IsRight(f, t)
  <2>1. PICK k \in Nat :
           /\ Rise(f, t) = k + 1
           /\ RiseTo(f, t) \in Nat
           /\ f = (2 * RiseTo(f, t) + 1) * Pow2[k]
           /\ f \div Pow2[k] = 2 * RiseTo(f, t) + 1
           /\ f = t \/ k = 0
    BY <1>1, <1>7, RiseOfRight
  <2> DEFINE g == RiseTo(f, t)
             x == a.sr
  <2>2. HashInternal(c, x) = NodeHash(D, l + (k + 1), g)
    BY <1>7, <2>1
  <2>3. f \in 0 .. LastAt(Len(D), l) /\ (f = LastAt(Len(D), l) \/ k = 0) /\ l \in Nat
    BY <1>1, <2>1
  <2>4. g \in Nat /\ f = (2 * g + 1) * Pow2[k] /\ f \div Pow2[k] = 2 * g + 1
    BY <2>1
  <2> HIDE DEF f, g, x
  <2>5. f * Pow2[l] = (2 * g + 1) * Pow2[l + k] /\ c = MTHOf(D, (2 * g) * Pow2[l + k], f * Pow2[l])
    BY <2>2, <2>3, <2>4, RightRises
  <2>6. CASE l < w
    <3>1. Len(D) \in Nat /\ l < BitCeil(end - start)
      BY <2>6
    <3>2. PartFrom(D, start, end, l + (k + 1)) = HashInternal(c, PartFrom(D, start, end, l))
      <4>1. l \in Nat /\ k \in Nat /\ f = (end - 1) \div Pow2[l]
        BY <1>1, <1>6
      <4> QED BY <2>4, <2>5, <3>1, <4>1, PartGrows
    <3>3. a.fn < a.sn
      BY <1>4, <1>6, <2>6 DEF f
    <3>4. b.fr = HashInternal(c, a.fr)
      BY <1>7, <3>3 DEF f
    <3>5. b.fr = PartFrom(D, start, end, l + h)
      BY <1>1, <2>1, <3>2, <3>4
    <3> QED BY <1>2, <1>5, <3>5 DEF HasRebuilt, f
  <2>7. CASE l >= w
    <3>1. ~(a.fn < a.sn)
      <4>1. a.fn = a.sn /\ a.sn \in Nat
        BY <1>1, <1>4, <1>6, <2>7 DEF f
      <4> QED BY <4>1
    <3>2. b.fr = a.fr
      BY <3>1
    <3>3. ~(l < w) /\ ~(l + h < w)
      BY <1>1, <1>3, <1>4, <2>7
    <3>4. b.fr = PartFrom(D, start, end, l + h)
      BY <1>1, <3>2, <3>3 DEF PartFrom
    <3> QED BY <1>2, <1>5, <3>4 DEF HasRebuilt, f
  <2> QED BY <1>1, <1>4, <2>6, <2>7
<1>8. CASE ~IsRight(f, t)
  <2> DEFINE g == RiseTo(f, t)
  <2>1. Rise(f, t) = 1 /\ g \in Nat /\ f = 2 * g
    BY <1>1, <1>8, RiseOfLeft
  <2>2. h = 1 /\ b.sn = g
    BY <2>1
  <2>3. b.fr = a.fr
    BY <1>8
  <2> HIDE DEF f, g, h, t
  <2>4. CASE l < w
    <3>1. l + 1 # w
      <4>1. f % 2 = 0
        BY <2>1
      <4> QED BY <1>4, <1>6, <4>1
    <3>2. l + 1 < w
      BY <1>1, <1>4, <2>4, <3>1
    <3>3. (end - 1) \div Pow2[l + 1] = g
      BY <1>5, <2>2 DEF AtSubtree
    <3>4. g * Pow2[l + 1] = f * Pow2[l]
      <4>1. Pow2[l + 1] = 2 * Pow2[l] /\ Pow2[l] \in Nat
        BY <1>1, Pow2Positive
      <4> QED BY <2>1, <4>1
    <3>5. PartFrom(D, start, end, l + 1) = MTHOf(D, g * Pow2[l + 1], end)
      BY <3>2, <3>3 DEF PartFrom
    <3>6. PartFrom(D, start, end, l) = MTHOf(D, f * Pow2[l], end)
      BY <1>6, <2>4 DEF PartFrom
    <3>7. b.fr = PartFrom(D, start, end, l + h)
      BY <1>1, <2>2, <2>3, <3>4, <3>5, <3>6
    <3> QED BY <1>2, <1>5, <3>7 DEF HasRebuilt, f, h, t
  <2>5. CASE l >= w
    <3>1. ~(l < w) /\ ~(l + h < w)
      BY <1>1, <1>3, <1>4, <2>5
    <3>2. b.fr = PartFrom(D, start, end, l + h)
      BY <1>1, <2>3, <3>1 DEF PartFrom
    <3> QED BY <1>2, <1>5, <3>2 DEF HasRebuilt, f, h, t
  <2> QED BY <1>1, <1>4, <2>4, <2>5
<1> QED BY <1>7, <1>8

\* Where a consistency proof starts: on the subtree's level if it is a node of
\* the tree, else on the level of the largest node that it ends with.
LEMMA StartIs ==
  ASSUME NEW n \in Nat \ {0}, NEW start, NEW end, IsValidSubtree(start, end), end <= n,
         NEW from, from = ConsistencyStart(start, end, n)
  PROVE  \E l \in Nat :
           /\ InPlace(from, n, l)
           /\ AtSubtree(from, start, end, l)
           /\ IF from.fn = from.sn
              THEN /\ l = BitCeil(end - start)
                   /\ end = n \/ end = start + Pow2[l]
              ELSE l < BitCeil(end - start) /\ end = (from.sn + 1) * Pow2[l]
<1> DEFINE b == BitCeil(end - start)
           e == end - 1
           ones == TrailingOnes(e)
           l == IF end = n \/ b < ones THEN b ELSE ones
<1>1. /\ start \in Nat /\ end \in Nat \ {0} /\ b \in Nat /\ e \in Nat /\ n - 1 \in Nat /\ e <= n - 1
      /\ \A j \in 0 .. b : start = (start \div Pow2[j]) * Pow2[j]
      /\ \A j \in 0 .. b - 1 : start \div Pow2[j] < e \div Pow2[j]
      /\ \A j \in Nat : j >= b => start \div Pow2[j] = e \div Pow2[j]
  BY SubtreePlace
<1>2. /\ ones \in Nat
      /\ \A j \in 0 .. ones : e + 1 = (e \div Pow2[j] + 1) * Pow2[j]
  <2> HIDE DEF e
  <2> QED BY <1>1, OnesOf
<1>3. from = [fn |-> start \div Pow2[l], sn |-> e \div Pow2[l], tn |-> (n - 1) \div Pow2[l]]
  BY ApartIs, Zenon DEF ConsistencyStart
<1> HIDE DEF b, ones
<1>4. l \in Nat
  BY <1>1, <1>2
<1> HIDE DEF l
<1>5. AtSubtree(from, start, end, l) /\ from.tn = LastAt(n, l)
  BY <1>3 DEF AtSubtree, LastAt
<1>6. InPlace(from, n, l)
  <2> DEFINE P == Pow2[l]
             m == n - 1
  <2>1. P \in Nat \ {0} /\ e \in Nat /\ m \in Nat /\ e <= m
    BY <1>1, <1>4, Pow2Positive
  <2> HIDE DEF P, e, m
  <2>2. e \div P \in Nat /\ m \div P \in Nat /\ e \div P <= m \div P
    BY <2>1, DivMonotone, DivBounds
  <2>3. from.sn \in 0 .. LastAt(n, l)
    BY <1>3, <2>2 DEF LastAt, P, m
  <2> QED BY <1>4, <1>5, <2>3 DEF InPlace
<1>7. CASE from.fn = from.sn
  <2>1. ~(l < b)
    <3> SUFFICES ASSUME l < b PROVE FALSE
      OBVIOUS
    <3>1. l \in 0 .. b - 1
      BY <1>1, <1>4
    <3>2. start \div Pow2[l] < e \div Pow2[l] /\ start \div Pow2[l] = e \div Pow2[l]
      BY <1>1, <1>3, <1>7, <3>1
    <3>3. Pow2[l] \in Nat \ {0} /\ start \in Nat
      BY <1>1, <1>4, Pow2Positive
    <3>4. start \div Pow2[l] \in Nat
      BY <3>3, DivBounds
    <3> QED BY <3>2, <3>4
  <2>2. l = b /\ (end = n \/ b <= ones)
    BY <1>1, <1>2, <2>1 DEF l
  <2>3. ASSUME b <= ones PROVE end = start + Pow2[b]
    <3>1. b \in 0 .. ones /\ b \in 0 .. b /\ b >= b
      BY <1>1, <1>2, <2>3
    <3>2. e + 1 = (e \div Pow2[b] + 1) * Pow2[b] /\ start = (start \div Pow2[b]) * Pow2[b]
          /\ start \div Pow2[b] = e \div Pow2[b]
      BY <1>1, <1>2, <3>1
    <3> DEFINE P == Pow2[b]
               q == start \div P
    <3>3. e + 1 = (q + 1) * P /\ start = q * P /\ P \in Nat \ {0}
      BY <1>1, <3>2, Pow2Positive
    <3>4. q \in Nat
      <4> HIDE DEF P
      <4> QED BY <1>1, <3>3, DivBounds
    <3> HIDE DEF q, P
    <3>5. (q + 1) * P = q * P + P
      BY <3>3, <3>4
    <3> QED BY <1>1, <3>3, <3>5 DEF P
  <2> QED BY <1>4, <1>5, <1>6, <1>7, <2>2, <2>3 DEF b
<1>8. CASE from.fn # from.sn
  <2>1. l < b
    <3> SUFFICES ASSUME ~(l < b) PROVE FALSE
      OBVIOUS
    <3>1. l >= b
      BY <1>1, <1>4
    <3> QED BY <1>1, <1>3, <1>4, <1>8, <3>1
  <2>2. l = ones
    BY <1>1, <2>1 DEF l
  <2>3. end = (from.sn + 1) * Pow2[l]
    <3>1. l \in 0 .. ones
      BY <1>2, <2>2
    <3>2. e + 1 = (e \div Pow2[l] + 1) * Pow2[l]
      BY <1>2, <3>1
    <3> QED BY <1>1, <1>3, <3>2
  <2> QED BY <1>4, <1>5, <1>6, <1>8, <2>1, <2>3 DEF b
<1> QED BY <1>7, <1>8

\* The hash that a consistency proof starts from, if it is a node's, is that of
\* the part of the subtree on its level.
LEMMA StartsFromPart ==
  ASSUME NEW D, Len(D) \in Nat \ {0}, NEW start, NEW end, IsValidSubtree(start, end),
         end <= Len(D), NEW from, from = ConsistencyStart(start, end, Len(D)),
         NEW l \in Nat, AtSubtree(from, start, end, l),
         IF from.fn = from.sn
         THEN l = BitCeil(end - start) /\ (end = Len(D) \/ end = start + Pow2[l])
         ELSE l < BitCeil(end - start) /\ end = (from.sn + 1) * Pow2[l]
  PROVE  NodeHash(D, l, from.sn) = PartFrom(D, start, end, l)
<1> DEFINE b == BitCeil(end - start)
           n == Len(D)
           f == from.sn
           P == Pow2[l]
<1>1. /\ start \in Nat /\ end \in Nat /\ b \in Nat /\ start < end /\ end - 1 < start + Pow2[b]
      /\ \A j \in 0 .. b : start = (start \div Pow2[j]) * Pow2[j]
      /\ \A j \in Nat : j >= b => start \div Pow2[j] = (end - 1) \div Pow2[j]
      /\ P \in Nat \ {0} /\ n \in Nat
  <2>1. P \in Nat \ {0} /\ n \in Nat
    BY Pow2Positive
  <2>2. /\ start \in Nat /\ end \in Nat /\ b \in 0 .. end - 1 /\ start < end
        /\ end - 1 < start + Pow2[b]
        /\ \A j \in 0 .. b : start = (start \div Pow2[j]) * Pow2[j]
        /\ \A j \in Nat : j >= b => start \div Pow2[j] = (end - 1) \div Pow2[j]
    BY SubtreePlace, Zenon
  <2>3. b \in Nat
    <3> HIDE DEF b
    <3> QED BY <2>2
  <2> QED BY <2>1, <2>2, <2>3, Zenon
<1>2. NodeHash(D, l, f) = MTHOf(D, f * P, IF (f + 1) * P < n THEN (f + 1) * P ELSE n)
  BY DEF NodeHash
<1>3. CASE from.fn # f
  <2>1. l < b /\ end = (f + 1) * P
    BY <1>3
  <2>2. (IF (f + 1) * P < n THEN (f + 1) * P ELSE n) = end
    <3> HIDE DEF f, P, n
    <3>1. end <= n
      BY DEF n
    <3> QED BY <1>1, <2>1, <3>1
  <2>3. f = (end - 1) \div P
    BY DEF AtSubtree
  <2>4. PartFrom(D, start, end, l) = MTHOf(D, f * P, end)
    BY <2>1, <2>3 DEF PartFrom
  <2> QED BY <1>2, <2>2, <2>4
<1>4. CASE from.fn = f
  <2>1. l = b /\ (end = n \/ end = start + P)
    BY <1>4
  <2>2. b \in 0 .. b /\ b >= b
    BY <1>1
  <2>3. f * P = start
    <3>1. f = (end - 1) \div P
      BY DEF AtSubtree
    <3>2. start = (start \div Pow2[b]) * Pow2[b] /\ start \div Pow2[b] = (end - 1) \div Pow2[b]
      BY <1>1, <2>2
    <3> QED BY <2>1, <3>1, <3>2
  <2>4. f \in Nat
    <3>1. end - 1 \in Nat
      BY <1>1
    <3>2. f = (end - 1) \div P
      BY DEF AtSubtree
    <3> DEFINE e == end - 1
    <3> HIDE DEF P, e
    <3>3. e \div P \in Nat
      BY <1>1, <3>1, DivBounds DEF e
    <3> QED BY <3>2, <3>3 DEF e
  <2>5. (f + 1) * P = start + P
    <3> HIDE DEF f, P
    <3>1. (f + 1) * P = f * P + P
      BY <1>1, <2>4
    <3> QED BY <2>3, <3>1
  <2>6. end <= start + P /\ end <= n
    BY <1>1, <2>1
  <2>7. (IF (f + 1) * P < n THEN (f + 1) * P ELSE n) = end
    <3> HIDE DEF f, P, n
    <3> QED BY <1>1, <2>1, <2>5, <2>6
  <2>8. PartFrom(D, start, end, l) = MTHOf(D, start, end)
    <3>1. ~(l < b)
      BY <1>1, <2>1
    <3> QED BY <3>1 DEF PartFrom
  <2> QED BY <1>2, <2>3, <2>7, <2>8
<1> QED BY <1>3, <1>4

-----------------------------------------------------------------------------
(* The generated proofs are lists of hashes *)

\* _path: an inclusion proof is a list of hashes.
LEMMA InclusionProofType ==
  ASSUME NEW tree, NEW index, NEW end \in Nat, NEW start \in 0 .. end
  PROVE  \E X : InclusionProof(tree, index, start, end) \in Seq(X)
<1> DEFINE J == 0 .. end
           I == J \X J
           Mid(i) == i[1] + Split(i[2] - i[1])
           X == { SubtreeHash(tree, a, b) : a \in J, b \in J }
           Body(f, i) ==
             IF i[2] - i[1] <= 1 THEN <<>>
             ELSE IF index < Mid(i)
             THEN Append(f[<<i[1], Mid(i)>>], SubtreeHash(tree, Mid(i), i[2]))
             ELSE Append(f[<<Mid(i), i[2]>>], SubtreeHash(tree, i[1], Mid(i)))
           path == CHOOSE f : f = [i \in I |-> Body(f, i)]
           V == Seq(X)
           Hash(a, b) == SubtreeHash(tree, a, b)
           rank == [i \in I |-> IF i[2] > i[1] THEN i[2] - i[1] ELSE 0]
<1>0. InclusionProof(tree, index, start, end) = path[<<start, end>>]
  BY DEF InclusionProof
<1>1. ASSUME NEW i \in I, ~(i[2] - i[1] <= 1)
      PROVE  /\ Mid(i) \in J
             /\ <<i[1], Mid(i)>> \in I /\ rank[<<i[1], Mid(i)>>] < rank[i]
             /\ <<Mid(i), i[2]>> \in I /\ rank[<<Mid(i), i[2]>>] < rank[i]
  <2>1. i[2] - i[1] \in Nat /\ i[2] - i[1] > 1 /\ i[1] \in J /\ i[2] \in J
    BY <1>1
  <2>2. Split(i[2] - i[1]) \in 1 .. (i[2] - i[1]) - 1
    BY <2>1, SplitInside
  <2> DEFINE c == Mid(i)
  <2>3. c \in J /\ i[1] < c /\ c < i[2]
    BY <2>1, <2>2
  <2> HIDE DEF c
  <2>4. <<i[1], c>> \in I /\ rank[<<i[1], c>>] < rank[i]
    BY <2>1, <2>3
  <2>5. <<c, i[2]>> \in I /\ rank[<<c, i[2]>>] < rank[i]
    BY <2>1, <2>3
  <2> QED BY <2>3, <2>4, <2>5 DEF c
<1>2. \A a, b \in J : Hash(a, b) \in X
  OBVIOUS
<1> HIDE DEF X
<1>3. ASSUME NEW f \in [I -> V], NEW i \in I PROVE Body(f, i) \in V
  <2>1. CASE i[2] - i[1] <= 1
    BY <2>1
  <2>2. CASE ~(i[2] - i[1] <= 1)
    <3> DEFINE c == Mid(i)
    <3>1. /\ c \in J /\ i[1] \in J /\ i[2] \in J
          /\ <<i[1], c>> \in I /\ <<c, i[2]>> \in I
      BY <1>1, <2>2
    <3> HIDE DEF c
    <3>2. f[<<i[1], c>>] \in V /\ f[<<c, i[2]>>] \in V
      BY <3>1
    <3>3. Hash(c, i[2]) \in X /\ Hash(i[1], c) \in X
      BY <1>2, <3>1
    <3> HIDE DEF I, J
    <3>4. /\ Append(f[<<i[1], c>>], Hash(c, i[2])) \in V
          /\ Append(f[<<c, i[2]>>], Hash(i[1], c)) \in V
      <4> HIDE DEF Hash
      <4> QED BY <3>2, <3>3
    <3> QED BY <2>2, <3>4 DEF c
  <2> QED BY <2>1, <2>2
<1> DEFINE B == [y \in [I -> V] \X I |-> Body(y[1], y[2])]
<1>4. B \in [[I -> V] \X I -> V]
  <2> HIDE DEF Body, V, I
  <2> QED BY <1>3
<1>5. \A f \in [I -> V], i \in I : B[<<f, i>>] = Body(f, i)
  <2> HIDE DEF Body, V, I
  <2> QED OBVIOUS
<1>6. ASSUME NEW f \in [I -> V], NEW g \in [I -> V], NEW i \in I,
             \A j \in I : rank[j] < rank[i] => f[j] = g[j]
      PROVE  B[<<f, i>>] = B[<<g, i>>]
  <2>1. CASE i[2] - i[1] <= 1
    BY <2>1, <1>5
  <2>2. CASE ~(i[2] - i[1] <= 1)
    <3> DEFINE l == <<i[1], Mid(i)>>
               r == <<Mid(i), i[2]>>
    <3>1. l \in I /\ rank[l] < rank[i] /\ r \in I /\ rank[r] < rank[i]
      BY <1>1, <2>2
    <3>2. f[l] = g[l] /\ f[r] = g[r]
      <4> HIDE DEF l, r, rank, I
      <4> QED BY <1>6, <3>1
    <3>3. Body(f, i) = Body(g, i)
      BY <2>2, <3>2
    <3> HIDE DEF B, Body, I
    <3> QED BY <1>5, <3>3
  <2> QED BY <2>1, <2>2
<1>7. \E f : f = [i \in I |-> Body(f, i)]
  <2>1. rank \in [I -> 0 .. end] /\ end \in Nat /\ <<>> \in V
    OBVIOUS
  <2> HIDE DEF rank, I, V, B, Body
  <2>2. GoesDown(B, I, V, rank)
    BY <1>6 DEF GoesDown
  <2>3. \E f : Solves(f, B, I, V)
    BY <1>4, <2>1, <2>2, RecursionExists
  <2>4. PICK f : Solves(f, B, I, V)
    BY <2>3
  <2>5. \A i \in I : f[i] = Body(f, i)
    BY <1>5, <2>4 DEF Solves
  <2>6. f = [i \in I |-> Body(f, i)]
    BY <2>4, <2>5 DEF Solves
  <2> QED BY <2>6
<1>8. path = [i \in I |-> Body(path, i)]
  <2> HIDE DEF Body, I
  <2> QED BY <1>7
<1>9. \A i \in I : path[i] = Body(path, i)
  <2> HIDE DEF path, Body, I
  <2> QED BY <1>8
<1> HIDE DEF path
<1> DEFINE S == { n \in Nat : \A i \in I : rank[i] <= n => path[i] \in V }
<1>10. ASSUME NEW n \in Nat, \A k \in 0 .. n - 1 : k \in S PROVE n \in S
  <2> SUFFICES ASSUME NEW i \in I, rank[i] <= n PROVE path[i] \in V
    OBVIOUS
  <2>1. CASE i[2] - i[1] <= 1
    <3>1. path[i] = <<>>
      BY <1>9, <2>1
    <3> QED BY <3>1
  <2>2. CASE ~(i[2] - i[1] <= 1)
    <3> DEFINE c == Mid(i)
               l == <<i[1], c>>
               r == <<c, i[2]>>
    <3>1. /\ l \in I /\ rank[l] < rank[i] /\ r \in I /\ rank[r] < rank[i]
          /\ c \in J /\ i[1] \in J /\ i[2] \in J
      BY <1>1, <2>2
    <3>2. path[i] = IF index < c THEN Append(path[l], Hash(c, i[2]))
                    ELSE Append(path[r], Hash(i[1], c))
      BY <1>9, <2>2
    <3>3. rank[i] \in Nat /\ rank[l] \in Nat /\ rank[r] \in Nat
      BY <3>1
    <3> HIDE DEF c, l, r, rank, I, Hash
    <3>4. path[l] \in V /\ path[r] \in V
      <4>1. n - 1 \in 0 .. n - 1 /\ rank[l] <= n - 1 /\ rank[r] <= n - 1
        BY <3>1, <3>3
      <4> QED BY <1>10, <3>1, <4>1
    <3>5. Hash(c, i[2]) \in X /\ Hash(i[1], c) \in X
      BY <1>2, <3>1
    <3> HIDE DEF J
    <3> QED BY <3>2, <3>4, <3>5
  <2> QED BY <2>1, <2>2
<1>11. \A n \in Nat : n \in S
  <2> HIDE DEF S
  <2> QED BY <1>10, StrongInduction
<1>12. <<start, end>> \in I /\ rank[<<start, end>>] <= end
  OBVIOUS
<1>13. path[<<start, end>>] \in V
  <2> HIDE DEF I, rank, V
  <2> QED BY <1>11, <1>12
<1> QED BY <1>0, <1>13

\* _subproof: a consistency proof is a list of hashes.
LEMMA ConsistencyProofType ==
  ASSUME NEW tree, NEW end, NEW n \in Nat, NEW start \in 0 .. n
  PROVE  \E X : ConsistencyProof(tree, start, end, n) \in Seq(X)
<1> DEFINE J == 0 .. n
           I == [s : 0 .. n, base : 0 .. n, top : 0 .. n, known : BOOLEAN]
           Mid(i) == i.base + Split(i.top - i.base)
           Ends(i) == (i.s = i.base /\ end = i.top) \/ i.top - i.base <= 1
           Left(i) == [i EXCEPT !.top = Mid(i)]
           Right(i) == [i EXCEPT !.base = Mid(i)]
           Rest(i) == [i EXCEPT !.s = Mid(i), !.base = Mid(i), !.known = FALSE]
           Hash(a, b) == SubtreeHash(tree, a, b)
           X == { Hash(a, b) : a \in J, b \in J }
           Body(f, i) ==
             IF Ends(i)
             THEN IF i.known THEN <<>> ELSE << Hash(i.base, i.top) >>
             ELSE IF end <= Mid(i)
             THEN Append(f[Left(i)], Hash(Mid(i), i.top))
             ELSE IF Mid(i) <= i.s
             THEN Append(f[Right(i)], Hash(i.base, Mid(i)))
             ELSE Append(f[Rest(i)], Hash(i.base, Mid(i)))
           path == CHOOSE f : f = [i \in I |-> Body(f, i)]
           V == Seq(X)
           rank == [i \in I |-> IF i.top > i.base THEN i.top - i.base ELSE 0]
           all == [s |-> start, base |-> 0, top |-> n, known |-> TRUE]
<1>0. ConsistencyProof(tree, start, end, n) = path[all]
  BY Zenon DEF ConsistencyProof
<1>1. ASSUME NEW i \in I, ~Ends(i)
      PROVE  /\ Mid(i) \in J
             /\ Left(i) \in I /\ rank[Left(i)] < rank[i]
             /\ Right(i) \in I /\ rank[Right(i)] < rank[i]
             /\ Rest(i) \in I /\ rank[Rest(i)] < rank[i]
  <2>1. i.top - i.base \in Nat /\ i.top - i.base > 1 /\ i.base \in J /\ i.top \in J
    BY <1>1
  <2>2. Split(i.top - i.base) \in 1 .. (i.top - i.base) - 1
    BY <2>1, SplitInside
  <2> DEFINE c == Mid(i)
  <2>3. c \in J /\ i.base < c /\ c < i.top
    BY <2>1, <2>2
  <2> HIDE DEF c
  <2>4. [i EXCEPT !.top = c] \in I /\ rank[[i EXCEPT !.top = c]] < rank[i]
    BY <2>1, <2>3
  <2>5. [i EXCEPT !.base = c] \in I /\ rank[[i EXCEPT !.base = c]] < rank[i]
    BY <2>1, <2>3
  <2>6. [i EXCEPT !.s = c, !.base = c, !.known = FALSE] \in I
        /\ rank[[i EXCEPT !.s = c, !.base = c, !.known = FALSE]] < rank[i]
    <3> DEFINE x == [i EXCEPT !.s = c]
               y == [x EXCEPT !.base = c]
               z == [y EXCEPT !.known = FALSE]
    <3>1. [i EXCEPT !.s = c, !.base = c, !.known = FALSE] = z
      OBVIOUS
    <3>2. x \in I /\ x.top = i.top
      BY <2>3
    <3> HIDE DEF x
    <3>3. y \in I /\ y.top = i.top /\ y.base = c
      BY <2>3, <3>2
    <3> HIDE DEF y
    <3>4. z \in I /\ z.top = i.top /\ z.base = c
      BY <2>3, <3>3
    <3> HIDE DEF z
    <3>5. rank[z] < rank[i]
      BY <2>1, <2>3, <3>4
    <3> QED BY <3>1, <3>4, <3>5
  <2> QED BY <2>3, <2>4, <2>5, <2>6 DEF c
<1>2. /\ \A a, b \in J : Hash(a, b) \in X
      /\ \A i \in I : i.base \in J /\ i.top \in J
  OBVIOUS
<1> HIDE DEF X, Hash
<1>3. ASSUME NEW f \in [I -> V], NEW i \in I PROVE Body(f, i) \in V
  <2>1. CASE Ends(i)
    <3>1. Hash(i.base, i.top) \in X
      BY <1>2
    <3> HIDE DEF I, Ends
    <3> QED BY <2>1, <3>1
  <2>2. CASE ~Ends(i)
    <3> DEFINE c == Mid(i)
               l == Left(i)
               r == Right(i)
               o == Rest(i)
    <3>1. c \in J /\ i.base \in J /\ i.top \in J /\ l \in I /\ r \in I /\ o \in I
      BY <1>1, <1>2, <2>2
    <3>2. Body(f, i) = IF end <= c THEN Append(f[l], Hash(c, i.top))
                       ELSE IF c <= i.s THEN Append(f[r], Hash(i.base, c))
                       ELSE Append(f[o], Hash(i.base, c))
      BY <2>2
    <3> HIDE DEF c, l, r, o, I, Ends
    <3>3. f[l] \in V /\ f[r] \in V /\ f[o] \in V
      BY <3>1
    <3>4. Hash(c, i.top) \in X /\ Hash(i.base, c) \in X
      BY <1>2, <3>1
    <3> HIDE DEF J, Body
    <3> QED BY <3>2, <3>3, <3>4
  <2> QED BY <2>1, <2>2
<1> DEFINE B == [y \in [I -> V] \X I |-> Body(y[1], y[2])]
<1>4. B \in [[I -> V] \X I -> V]
  <2> HIDE DEF Body, V, I
  <2> QED BY <1>3
<1>5. \A f \in [I -> V], i \in I : B[<<f, i>>] = Body(f, i)
  <2> HIDE DEF Body, V, I
  <2> QED OBVIOUS
<1>6. ASSUME NEW f \in [I -> V], NEW g \in [I -> V], NEW i \in I,
             \A j \in I : rank[j] < rank[i] => f[j] = g[j]
      PROVE  B[<<f, i>>] = B[<<g, i>>]
  <2>1. CASE Ends(i)
    <3>1. Body(f, i) = Body(g, i)
      BY <2>1
    <3> HIDE DEF B, Body, I
    <3> QED BY <1>5, <3>1
  <2>2. CASE ~Ends(i)
    <3> DEFINE l == Left(i)
               r == Right(i)
               o == Rest(i)
    <3>1. /\ l \in I /\ rank[l] < rank[i]
          /\ r \in I /\ rank[r] < rank[i]
          /\ o \in I /\ rank[o] < rank[i]
      BY <1>1, <2>2
    <3>2. f[l] = g[l] /\ f[r] = g[r] /\ f[o] = g[o]
      <4> HIDE DEF l, r, o, rank, I
      <4> QED BY <1>6, <3>1
    <3>3. Body(f, i) = Body(g, i)
      <4> HIDE DEF Ends, I, Mid
      <4> QED BY <2>2, <3>2
    <3> HIDE DEF B, Body, I
    <3> QED BY <1>5, <3>3
  <2> QED BY <2>1, <2>2
<1>7. \E f : f = [i \in I |-> Body(f, i)]
  <2>1. rank \in [I -> 0 .. n] /\ n \in Nat /\ <<>> \in V
    OBVIOUS
  <2> HIDE DEF rank, I, V, B, Body
  <2>2. GoesDown(B, I, V, rank)
    BY <1>6 DEF GoesDown
  <2>3. \E f : Solves(f, B, I, V)
    BY <1>4, <2>1, <2>2, RecursionExists
  <2>4. PICK f : Solves(f, B, I, V)
    BY <2>3
  <2>5. \A i \in I : f[i] = Body(f, i)
    BY <1>5, <2>4 DEF Solves
  <2>6. f = [i \in I |-> Body(f, i)]
    BY <2>4, <2>5 DEF Solves
  <2> QED BY <2>6
<1>8. path = [i \in I |-> Body(path, i)]
  <2> HIDE DEF Body, I
  <2> QED BY <1>7
<1>9. \A i \in I : path[i] = Body(path, i)
  <2> HIDE DEF path, Body, I
  <2> QED BY <1>8
<1> HIDE DEF path
<1> DEFINE S == { m \in Nat : \A i \in I : rank[i] <= m => path[i] \in V }
<1>10. ASSUME NEW m \in Nat, \A k \in 0 .. m - 1 : k \in S PROVE m \in S
  <2> SUFFICES ASSUME NEW i \in I, rank[i] <= m PROVE path[i] \in V
    OBVIOUS
  <2>1. CASE Ends(i)
    <3>1. Hash(i.base, i.top) \in X
      BY <1>2
    <3>2. path[i] = IF i.known THEN <<>> ELSE << Hash(i.base, i.top) >>
      BY <1>9, <2>1
    <3> HIDE DEF I, Ends
    <3> QED BY <3>1, <3>2
  <2>2. CASE ~Ends(i)
    <3> DEFINE c == Mid(i)
               l == Left(i)
               r == Right(i)
               o == Rest(i)
    <3>1. /\ l \in I /\ rank[l] < rank[i]
          /\ r \in I /\ rank[r] < rank[i]
          /\ o \in I /\ rank[o] < rank[i]
          /\ c \in J /\ i.base \in J /\ i.top \in J
      BY <1>1, <1>2, <2>2
    <3>2. path[i] = IF end <= c THEN Append(path[l], Hash(c, i.top))
                    ELSE IF c <= i.s THEN Append(path[r], Hash(i.base, c))
                    ELSE Append(path[o], Hash(i.base, c))
      BY <1>9, <2>2
    <3>3. rank[i] \in Nat /\ rank[l] \in Nat /\ rank[r] \in Nat /\ rank[o] \in Nat
      <4>1. \A j \in I : rank[j] \in Nat
        OBVIOUS
      <4> HIDE DEF rank, I, l, r, o
      <4> QED BY <3>1, <4>1
    <3> HIDE DEF c, l, r, o, rank, I, Ends
    <3>4. path[l] \in V /\ path[r] \in V /\ path[o] \in V
      <4>1. m - 1 \in 0 .. m - 1 /\ rank[l] <= m - 1 /\ rank[r] <= m - 1 /\ rank[o] <= m - 1
        BY <3>1, <3>3
      <4> QED BY <1>10, <3>1, <4>1
    <3>5. Hash(c, i.top) \in X /\ Hash(i.base, c) \in X
      BY <1>2, <3>1
    <3> HIDE DEF J
    <3> QED BY <3>2, <3>4, <3>5
  <2> QED BY <2>1, <2>2
<1>11. \A m \in Nat : m \in S
  <2> HIDE DEF S
  <2> QED BY <1>10, StrongInduction
<1>12. all \in I /\ rank[all] <= n
  OBVIOUS
<1>13. path[all] \in V
  <2> HIDE DEF I, rank, V, all
  <2> QED BY <1>11, <1>12
<1> QED BY <1>0, <1>13

-----------------------------------------------------------------------------
(* Levels and nodes *)

\* bit_ceil: the level of the smallest complete node with that many leaves.
LEMMA BitCeilDef ==
  ASSUME NEW m \in Nat \ {0}, NEW b, b = BitCeil(m)
  PROVE  /\ b \in Nat
         /\ m <= Pow2[b]
         /\ \A j \in Nat : j < b => Pow2[j] < m
<1> DEFINE x == m - 1
<1>1. x \in Nat /\ b = BitWidth(x)
  BY DEF BitCeil
<1> HIDE DEF x
<1>2. /\ BitWidth(x) \in 0 .. x
      /\ x < Pow2[BitWidth(x)]
      /\ \A j \in 0 .. BitWidth(x) - 1 : Pow2[j] <= x
  BY <1>1, BitWidthDef
<1>3. b \in Nat /\ x < Pow2[b] /\ \A j \in 0 .. b - 1 : Pow2[j] <= x
  BY <1>1, <1>2
<1>4. \A j \in Nat : j < b => Pow2[j] \in Nat
  BY Pow2Positive
<1>5. Pow2[b] \in Nat
  BY <1>3, Pow2Positive
<1>6. m <= Pow2[b]
  BY <1>3, <1>5 DEF x
<1>7. ASSUME NEW j \in Nat, j < b PROVE Pow2[j] < m
  <2>1. Pow2[j] <= x /\ Pow2[j] \in Nat
    BY <1>3, <1>4, <1>7
  <2> QED BY <2>1 DEF x
<1> QED BY <1>3, <1>6, <1>7

\* It is the only level whose complete nodes are just large enough.
LEMMA BitCeilIs ==
  ASSUME NEW m \in Nat \ {0}, NEW k \in Nat, m <= Pow2[k], k > 0 => Pow2[k - 1] < m
  PROVE  BitCeil(m) = k
<1> DEFINE b == BitCeil(m)
<1>1. b \in Nat /\ m <= Pow2[b] /\ \A j \in Nat : j < b => Pow2[j] < m
  BY BitCeilDef
<1> HIDE DEF b
<1>2. ~(k < b)
  <2> SUFFICES ASSUME k < b PROVE FALSE
    OBVIOUS
  <2>1. Pow2[k] < m /\ Pow2[k] \in Nat
    BY <1>1, Pow2Positive
  <2> QED BY <2>1
<1>3. ~(b < k)
  <2> SUFFICES ASSUME b < k PROVE FALSE
    OBVIOUS
  <2>1. k - 1 \in Nat /\ b <= k - 1 /\ k > 0
    BY <1>1
  <2>2. Pow2[k - 1] \in Nat /\ Pow2[b] \in Nat
    BY <1>1, <2>1, Pow2Positive
  <2>3. Pow2[b] <= Pow2[k - 1]
    BY <1>1, <2>1, Pow2Monotone
  <2> QED BY <1>1, <2>1, <2>2, <2>3
<1> QED BY <1>1, <1>2, <1>3 DEF b

\* [a, b) is node g of level l of a tree with n leaves, where the tree may end
\* inside the node.
SpansNode(a, b, n, l, g) ==
  /\ l \in Nat /\ g \in Nat
  /\ a \in Nat /\ b \in Nat
  /\ a = g * Pow2[l] /\ a < b
  /\ b = IF a + Pow2[l] < n THEN a + Pow2[l] ELSE n
  /\ l = BitCeil(b - a)

\* The level of a node with a split, and where the split is.
LEMMA SplitOfNode ==
  ASSUME NEW m \in Nat, m > 1, NEW l, l = BitCeil(m)
  PROVE  /\ l \in Nat /\ l - 1 \in Nat
         /\ Split(m) = Pow2[l - 1]
         /\ Pow2[l - 1] \in Nat \ {0}
         /\ Pow2[l] = 2 * Pow2[l - 1]
         /\ Pow2[l - 1] < m /\ m <= Pow2[l]
<1>1. l \in Nat /\ m <= Pow2[l] /\ \A j \in Nat : j < l => Pow2[j] < m
  BY BitCeilDef
<1>2. l # 0
  <2> SUFFICES ASSUME l = 0 PROVE FALSE
    OBVIOUS
  <2> QED BY <1>1, Pow2Positive
<1> DEFINE k == l - 1
<1>3. k \in Nat /\ k < l /\ l = k + 1
  BY <1>1, <1>2
<1> HIDE DEF k
<1>4. Pow2[k] < m /\ Pow2[k] \in Nat \ {0} /\ Pow2[k + 1] = 2 * Pow2[k]
  BY <1>1, <1>3, Pow2Positive
<1>5. m <= 2 * Pow2[k]
  BY <1>1, <1>3, <1>4
<1>6. Split(m) = Pow2[k]
  BY <1>3, <1>4, <1>5, SplitIs
<1> QED BY <1>1, <1>3, <1>4, <1>6 DEF k

\* The left child of a node is complete, one level below.
LEMMA LeftChild ==
  ASSUME NEW n \in Nat, NEW a, NEW b, NEW l, NEW g, SpansNode(a, b, n, l, g), b - a > 1
  PROVE  /\ a + Split(b - a) \in Nat
         /\ a < a + Split(b - a)
         /\ a + Split(b - a) < b
         /\ b <= n
         /\ a + Split(b - a) = (2 * g + 1) * Pow2[l - 1]
         /\ l - 1 \in Nat
         /\ SpansNode(a, a + Split(b - a), n, l - 1, 2 * g)
<1> DEFINE k == l - 1
           P == Pow2[k]
<1>0. /\ l \in Nat /\ g \in Nat /\ a \in Nat /\ b \in Nat /\ a < b
      /\ a = g * Pow2[l] /\ b = IF a + Pow2[l] < n THEN a + Pow2[l] ELSE n
      /\ b - a \in Nat /\ l = BitCeil(b - a)
  BY DEF SpansNode
<1>1. /\ k \in Nat /\ Split(b - a) = P /\ P \in Nat \ {0} /\ Pow2[l] = 2 * P
      /\ P < b - a /\ b - a <= Pow2[l]
  <2> HIDE DEF P
  <2>1. Split(b - a) = P /\ k \in Nat /\ P \in Nat \ {0} /\ Pow2[l] = 2 * P
        /\ P < b - a /\ b - a <= Pow2[l]
    BY <1>0, SplitOfNode DEF P
  <2> QED BY <2>1
<1>2. BitCeil(P) = k
  <2>1. ASSUME k > 0 PROVE Pow2[k - 1] < Pow2[k]
    <3>1. k - 1 \in Nat /\ (k - 1) + 1 = k
      BY <1>1, <2>1
    <3> DEFINE h == k - 1
    <3> HIDE DEF h
    <3>2. Pow2[h] \in Nat \ {0} /\ Pow2[h + 1] = 2 * Pow2[h]
      BY <3>1, Pow2Positive DEF h
    <3>3. Pow2[k] = 2 * Pow2[h]
      BY <3>1, <3>2 DEF h
    <3>4. Pow2[h] < Pow2[k]
      BY <3>2, <3>3
    <3> QED BY <3>4 DEF h
  <2> HIDE DEF k
  <2>2. Pow2[k] \in Nat \ {0} /\ Pow2[k] <= Pow2[k]
    BY <1>1
  <2> QED BY <1>1, <2>1, <2>2, BitCeilIs
<1> HIDE DEF k
<1> HIDE DEF P
<1>3. a = (2 * g) * P /\ a + P = (2 * g + 1) * P /\ 2 * g \in Nat
  BY <1>0, <1>1
<1>4. b <= n
  BY <1>0, <1>1
<1>5. SpansNode(a, a + P, n, k, 2 * g)
  <2>1. a + P < n /\ (a + P) - a = P /\ a + P \in Nat /\ a < a + P
    BY <1>0, <1>1, <1>4
  <2> QED BY <1>0, <1>1, <1>2, <1>3, <2>1 DEF SpansNode, P
<1>6. /\ a + P \in Nat /\ a < a + P /\ a + P < b /\ b <= n
      /\ a + P = (2 * g + 1) * P /\ k \in Nat /\ Split(b - a) = P
  BY <1>0, <1>1, <1>3, <1>4
<1>7. P = Pow2[k]
  BY DEF P
<1> HIDE DEF P
<1> QED BY <1>5, <1>6, <1>7 DEF k

\* The right child ends where the node ends; it may be on a lower level.
LEMMA RightChild ==
  ASSUME NEW n \in Nat, NEW a, NEW b, NEW l, NEW g, SpansNode(a, b, n, l, g), b - a > 1
  PROVE  \E j \in 0 .. l - 1 :
           /\ SpansNode(a + Split(b - a), b, n, j, (2 * g + 1) * Pow2[(l - 1) - j])
           /\ j = l - 1 \/ b = n
<1> DEFINE k == l - 1
           P == Pow2[k]
           mid == a + P
           j == BitCeil(b - mid)
<1>0. /\ l \in Nat /\ g \in Nat /\ a \in Nat /\ b \in Nat /\ a < b
      /\ a = g * Pow2[l] /\ b = IF a + Pow2[l] < n THEN a + Pow2[l] ELSE n
      /\ b - a \in Nat /\ l = BitCeil(b - a)
  BY DEF SpansNode
<1>1. /\ k \in Nat /\ Split(b - a) = P /\ P \in Nat \ {0} /\ Pow2[l] = 2 * P
      /\ P < b - a /\ b - a <= Pow2[l]
  <2> HIDE DEF P
  <2>1. Split(b - a) = P /\ k \in Nat /\ P \in Nat \ {0} /\ Pow2[l] = 2 * P
        /\ P < b - a /\ b - a <= Pow2[l]
    BY <1>0, SplitOfNode DEF P
  <2> QED BY <2>1
<1>2. mid = (2 * g + 1) * P /\ mid \in Nat /\ mid < b /\ b - mid \in Nat \ {0} /\ b - mid <= P
  <2> HIDE DEF P, k
  <2> QED BY <1>0, <1>1
<1>3. j \in Nat /\ b - mid <= Pow2[j] /\ \A i \in Nat : i < j => Pow2[i] < b - mid
  <2> HIDE DEF mid
  <2> QED BY <1>2, BitCeilDef
<1> HIDE DEF j
<1>4. j <= k
  <2> SUFFICES ASSUME k < j PROVE FALSE
    BY <1>1, <1>3
  <2>1. Pow2[k] < b - mid
    BY <1>1, <1>3
  <2> HIDE DEF mid, k
  <2> QED BY <1>1, <1>2, <2>1
<1>5. j \in 0 .. k /\ k - j \in Nat
  <2> HIDE DEF k
  <2> QED BY <1>1, <1>3, <1>4
<1> DEFINE Q == Pow2[k - j]
           R == Pow2[j]
<1>6. P = R * Q /\ Q \in Nat \ {0} /\ R \in Nat \ {0}
  <2> HIDE DEF k
  <2> QED BY <1>1, <1>3, <1>4, <1>5, Pow2Split, Pow2Positive
<1>7. mid = ((2 * g + 1) * Q) * R /\ (2 * g + 1) * Q \in Nat
  <2> HIDE DEF mid, P, Q, R
  <2> QED BY <1>0, <1>2, <1>6
<1>8. ASSUME a + Pow2[l] < n PROVE b = mid + P /\ mid + P < n /\ j = k
  <2>1. b = mid + P /\ mid + P < n /\ b - mid = P
    <3> HIDE DEF P, k
    <3> QED BY <1>0, <1>1, <1>8
  <2> HIDE DEF mid, k
  <2>2. ~(j < k)
    <3> SUFFICES ASSUME j < k PROVE FALSE
      OBVIOUS
    <3>1. 2 * R <= P
      BY <1>1, <1>3, <1>4, Pow2Monotone
    <3>2. P <= R
      BY <1>3, <2>1
    <3> HIDE DEF P, R
    <3> QED BY <1>6, <3>1, <3>2
  <2>3. j = k
    <3> HIDE DEF P
    <3> QED BY <1>1, <1>3, <1>4, <2>2
  <2> QED BY <2>1, <2>3
<1>9. /\ b = IF mid + R < n THEN mid + R ELSE n
      /\ j = k \/ b = n
  <2>1. CASE a + Pow2[l] < n
    BY <1>8, <2>1
  <2>2. CASE ~(a + Pow2[l] < n)
    <3>1. b = n
      BY <1>0, <2>2
    <3>2. b - mid <= R
      BY <1>3
    <3> HIDE DEF mid, R
    <3>3. ~(mid + R < n)
      BY <1>0, <1>2, <1>6, <3>1, <3>2
    <3> QED BY <3>1, <3>3
  <2> QED BY <2>1, <2>2
<1>10. SpansNode(mid, b, n, j, (2 * g + 1) * Q)
  <2> HIDE DEF mid, P, Q, R, k
  <2> QED BY <1>0, <1>2, <1>3, <1>7, <1>9 DEF SpansNode, R, j
<1> QED BY <1>1, <1>5, <1>9, <1>10

\* The positions under a node rise to it.
LEMMA SpanPositions ==
  ASSUME NEW n \in Nat, NEW a, NEW b, NEW l, NEW g, SpansNode(a, b, n, l, g),
         NEW x \in a .. b - 1
  PROVE  x \div Pow2[l] = g
<1> DEFINE P == Pow2[l]
<1>1. /\ l \in Nat /\ g \in Nat /\ a \in Nat /\ b \in Nat /\ a = g * P
      /\ b = IF a + P < n THEN a + P ELSE n
  BY DEF SpansNode
<1>2. P \in Nat \ {0}
  BY <1>1, Pow2Positive
<1> HIDE DEF P
<1>3. x \in Nat /\ P * g <= x /\ x < P * g + P
  <2>1. x \in Nat /\ a <= x /\ x < b /\ b <= a + P
    BY <1>1, <1>2
  <2>2. P * g = a
    BY <1>1, <1>2
  <2> QED BY <1>1, <1>2, <2>1, <2>2
<1>4. x \div P = g
  BY <1>1, <1>2, <1>3, DivUnique
<1> QED BY <1>4 DEF P

\* The hash of the entries under a node is the node's.
LEMMA SpanHash ==
  ASSUME NEW D, Len(D) \in Nat, NEW a, NEW b, NEW l, NEW g, SpansNode(a, b, Len(D), l, g)
  PROVE  MTHOf(D, a, b) = NodeHash(D, l, g)
<1> DEFINE P == Pow2[l]
<1>1. /\ l \in Nat /\ g \in Nat /\ a = g * P
      /\ b = IF a + P < Len(D) THEN a + P ELSE Len(D)
  BY DEF SpansNode
<1>2. P \in Nat
  BY <1>1, Pow2Positive
<1> HIDE DEF P
<1>3. (g + 1) * P = a + P
  BY <1>1, <1>2
<1>4. NodeHash(D, l, g) = MTHOf(D, g * P, IF (g + 1) * P < Len(D) THEN (g + 1) * P ELSE Len(D))
  BY DEF NodeHash, P
<1> QED BY <1>1, <1>3, <1>4

\* Its hash is that of its two children.
LEMMA SpanSplits ==
  ASSUME NEW D, Len(D) \in Nat, NEW a, NEW b, NEW l, NEW g, SpansNode(a, b, Len(D), l, g),
         b - a > 1
  PROVE  MTHOf(D, a, b) = HashInternal(MTHOf(D, a, a + Split(b - a)),
                                       MTHOf(D, a + Split(b - a), b))
<1>1. a \in Nat /\ b \in Nat /\ b <= Len(D)
  BY LeftChild DEF SpansNode
<1>2. a \in 0 .. Len(D) /\ b \in 0 .. Len(D) /\ ~(b - a <= 1)
  BY <1>1
<1> QED BY <1>2, MTHOfDef

\* An odd multiple of a power of two has no other such factor.
LEMMA OddPart ==
  ASSUME NEW g \in Nat, NEW q \in Nat, NEW i \in Nat, NEW j \in Nat,
         (2 * g + 1) * Pow2[i] = (2 * q + 1) * Pow2[j]
  PROVE  ~(i < j)
<1> SUFFICES ASSUME i < j PROVE FALSE
  OBVIOUS
<1> DEFINE h == (j - i) - 1
<1>1. h \in Nat /\ i <= j /\ j - i = h + 1
  OBVIOUS
<1> HIDE DEF h
<1> DEFINE P == Pow2[i]
           R == Pow2[h]
<1>2. P \in Nat \ {0} /\ R \in Nat /\ Pow2[h + 1] = 2 * R
  BY <1>1, Pow2Positive
<1>3. Pow2[j] = P * Pow2[j - i]
  BY <1>1, Pow2Split
<1>4. (2 * g + 1) * P = (2 * q + 1) * (P * (2 * R))
  BY <1>1, <1>2, <1>3
<1> HIDE DEF P, R
<1> DEFINE x == 2 * g + 1
           y == (2 * q + 1) * (2 * R)
<1>5. y * P = (2 * q + 1) * (P * (2 * R)) /\ x \in Nat /\ y \in Nat
  BY <1>2
<1>6. x * P <= y * P /\ y * P <= x * P
  <2>1. x * P = y * P
    BY <1>4, <1>5
  <2>2. x * P \in Nat
    BY <1>2
  <2> HIDE DEF x, y
  <2> QED BY <2>1, <2>2
<1>7. x <= y /\ y <= x
  <2> HIDE DEF x, y
  <2> QED BY <1>2, <1>5, <1>6, CancelFactor
<1>8. 2 * g + 1 = (2 * q + 1) * (2 * R)
  BY <1>5, <1>7
<1>9. (2 * q + 1) * (2 * R) = 2 * ((2 * q + 1) * R)
  BY <1>2
<1> DEFINE z == (2 * q + 1) * R
<1>10. z \in Nat
  BY <1>2
<1>11. 2 * g + 1 = 2 * z
  BY <1>8, <1>9
<1> HIDE DEF z
<1> QED BY <1>10, <1>11

\* The zero bits at the low end of an odd multiple of a power of two.
LEMMA ZerosOfMultiple ==
  ASSUME NEW g \in Nat, NEW k \in Nat, NEW f, f = (2 * g + 1) * Pow2[k]
  PROVE  /\ f \in Nat \ {0}
         /\ TrailingZeros(f) = k
         /\ f \div Pow2[k + 1] = g
<1> DEFINE P == Pow2[k]
<1>1. P \in Nat \ {0} /\ Pow2[k + 1] = 2 * P /\ k + 1 \in Nat
  BY Pow2Positive
<1>2. f \in Nat \ {0}
  <2>1. f = (2 * g + 1) * P
    OBVIOUS
  <2> HIDE DEF P
  <2>2. f = (2 * g) * P + P
    BY <1>1, <2>1
  <2>3. (2 * g) * P \in Nat
    BY <1>1
  <2> QED BY <1>1, <2>2, <2>3
<1> DEFINE z == TrailingZeros(f)
           q == f \div Pow2[z + 1]
<1>3. z \in Nat /\ q \in Nat /\ f = (2 * q + 1) * Pow2[z]
  BY <1>2, TrailingZerosDef
<1> HIDE DEF z, q
<1>4. ~(k < z) /\ ~(z < k)
  <2>1. (2 * g + 1) * Pow2[k] = (2 * q + 1) * Pow2[z]
    BY <1>3
  <2> QED BY <1>3, <2>1, OddPart
<1>5. z = k
  BY <1>3, <1>4
<1>6. f \div Pow2[k + 1] = g
  <2>1. f = (2 * g + 1) * P
    OBVIOUS
  <2> HIDE DEF P
  <2> DEFINE T == 2 * P
  <2>2. T * g <= f /\ f < T * g + T /\ T \in Nat \ {0}
    BY <1>1, <2>1
  <2> HIDE DEF T
  <2>3. f \div T = g
    BY <1>2, <2>2, DivUnique
  <2> QED BY <1>1, <2>3 DEF T
<1> QED BY <1>2, <1>5, <1>6 DEF z

\* From the left child a verifier rises to the node.
LEMMA RiseFromLeft ==
  ASSUME NEW n \in Nat, NEW a, NEW b, NEW l, NEW g, SpansNode(a, b, n, l, g), b - a > 1
  PROVE  LET t == LastAt(n, l - 1)
         IN  /\ t \in Nat \ {0}
             /\ 2 * g < t
             /\ ~IsRight(2 * g, t)
             /\ Rise(2 * g, t) = 1
             /\ RiseTo(2 * g, t) = g
<1> DEFINE k == l - 1
           t == LastAt(n, k)
           P == Pow2[k]
           mid == a + Split(b - a)
<1>1. mid \in Nat /\ mid < b /\ b <= n /\ mid = (2 * g + 1) * P /\ k \in Nat
      /\ g \in Nat /\ b \in Nat
  BY LeftChild DEF SpansNode
<1> HIDE DEF mid, k
<1>2. P \in Nat \ {0}
  BY <1>1, Pow2Positive
<1>3. t = (n - 1) \div P
  BY DEF LastAt
<1> HIDE DEF P, t
<1>4. n - 1 \in Nat /\ mid <= n - 1
  BY <1>1
<1>5. t \in Nat /\ 2 * g + 1 <= t
  <2>1. P * (2 * g + 1) <= n - 1 /\ 2 * g + 1 \in Nat
    BY <1>1, <1>2, <1>4
  <2> DEFINE x == n - 1
  <2>2. x \in Nat
    BY <1>4
  <2>3. t = x \div P
    BY <1>3
  <2> HIDE DEF x
  <2>4. t \in Nat /\ x < P * t + P
    BY <1>2, <2>2, <2>3, DivBounds
  <2> DEFINE c == 2 * g + 1
  <2>5. P * c <= x /\ c \in Nat
    BY <2>1 DEF x
  <2> HIDE DEF c
  <2>6. P * c < P * t + P
    <3>1. P * c \in Nat /\ P * t + P \in Nat
      BY <1>2, <2>4, <2>5
    <3> QED BY <2>2, <2>4, <2>5, <3>1
  <2>7. c <= t
    BY <1>2, <2>4, <2>5, <2>6, Smaller
  <2> QED BY <2>4, <2>7 DEF c
<1>6. t \in Nat \ {0} /\ 2 * g < t /\ 2 * g # t
  BY <1>1, <1>5
<1>7. (2 * g) % 2 = 0 /\ (2 * g) \div 2 = g
  BY <1>1
<1>8. ~IsRight(2 * g, t)
  BY <1>6, <1>7 DEF IsRight
<1>9. Rise(2 * g, t) = 1
  BY <1>8 DEF Rise
<1>10. Pow2[1] = 2
  <2>1. Pow2[0 + 1] = 2 * Pow2[0]
    BY Pow2Positive
  <2> QED BY <2>1, Pow2Positive
<1>11. RiseTo(2 * g, t) = g
  BY <1>7, <1>9, <1>10 DEF RiseTo
<1> QED BY <1>6, <1>8, <1>9, <1>11 DEF t, k

\* From the right child, on whatever level it is, it rises to the node, too.
LEMMA RiseFromRight ==
  ASSUME NEW n \in Nat, NEW a, NEW b, NEW l, NEW g, SpansNode(a, b, n, l, g), b - a > 1,
         NEW j \in 0 .. l - 1, NEW f, f = (2 * g + 1) * Pow2[(l - 1) - j],
         SpansNode(a + Split(b - a), b, n, j, f), j = l - 1 \/ b = n
  PROVE  LET t == LastAt(n, j)
         IN  /\ t \in Nat \ {0}
             /\ f \in 0 .. t
             /\ IsRight(f, t)
             /\ j + Rise(f, t) = l
             /\ RiseTo(f, t) = g
<1> DEFINE k == l - 1
           t == LastAt(n, j)
           mid == a + Split(b - a)
           d == k - j
<1>1. /\ mid \in Nat /\ mid < b /\ b <= n /\ k \in Nat /\ g \in Nat /\ b \in Nat
      /\ l = k + 1 /\ l \in Nat
  <2>1. mid \in Nat /\ mid < b /\ b <= n /\ k \in Nat
    BY LeftChild
  <2>2. g \in Nat /\ b \in Nat /\ l \in Nat
    BY DEF SpansNode
  <2>3. l = k + 1
    BY <2>2
  <2> HIDE DEF mid, k
  <2> QED BY <2>1, <2>2, <2>3
<1>2. SpansNode(mid, b, n, j, f)
  OBVIOUS
<1> HIDE DEF mid
<1>3. j \in Nat /\ d \in Nat /\ l = j + (d + 1) /\ f = (2 * g + 1) * Pow2[d]
  <2>1. j \in 0 .. k /\ f = (2 * g + 1) * Pow2[k - j]
    OBVIOUS
  <2> HIDE DEF k
  <2> QED BY <1>1, <2>1
<1> HIDE DEF k, d
<1>4. f \in Nat \ {0} /\ TrailingZeros(f) = d /\ f \div Pow2[d + 1] = g
  BY <1>1, <1>3, ZerosOfMultiple
<1> DEFINE x == b - 1
           m == n - 1
<1>5. x \in mid .. b - 1 /\ x \in Nat /\ m \in Nat /\ x <= m
  BY <1>1
<1>6. x \div Pow2[j] = f
  <2> HIDE DEF x
  <2> QED BY <1>2, <1>5, SpanPositions
<1>7. Pow2[j] \in Nat \ {0} /\ t = m \div Pow2[j]
  BY <1>3, Pow2Positive DEF LastAt
<1> HIDE DEF t
<1>8. f <= t /\ t \in Nat
  <2> HIDE DEF x, m
  <2> QED BY <1>5, <1>6, <1>7, DivMonotone, DivBounds
<1>9. IsRight(f, t)
  <2>1. CASE b = n
    BY <1>6, <1>7, <2>1 DEF IsRight
  <2>2. CASE j = l - 1
    <3>1. d = 0
      BY <1>1, <1>3, <2>2
    <3>2. f = 2 * g + 1
      BY <1>1, <1>3, <3>1, Pow2Positive
    <3>3. f % 2 = 1
      BY <1>1, <3>2
    <3> QED BY <3>3 DEF IsRight
  <2> QED BY <2>1, <2>2
<1>10. Rise(f, t) = d + 1
  BY <1>4, <1>9 DEF Rise
<1>11. RiseTo(f, t) = g
  BY <1>4, <1>10 DEF RiseTo
<1>12. f \in 0 .. t /\ t \in Nat \ {0} /\ j + Rise(f, t) = l
  BY <1>3, <1>4, <1>8, <1>10
<1> QED BY <1>9, <1>11, <1>12 DEF t

-----------------------------------------------------------------------------
(* What a tree computes: subtree hashes *)

\* A complete node above the leaves is in the tree.
LEMMA StoredNode ==
  ASSUME NEW D, Len(D) \in Nat, NEW tree, IsTreeOf(tree, D),
         NEW l \in Nat \ {0}, NEW j \in Nat, (j + 1) * Pow2[l] <= Len(D)
  PROVE  HasNode(tree, l, j) /\ Node(tree, l, j) = FullNode(D, l, j)
<1> DEFINE P == Pow2[l]
           h == Len(tree.levels)
           x == Len(D) \div P
<1>1. P \in Nat \ {0}
  BY Pow2Positive
<1>2. h \in Nat /\ Len(D) < Pow2[h + 1]
  BY DEF IsTreeOf, HoldsLevels
<1>3. j < x /\ x \in Nat
  <2>1. (j + 1) * P <= Len(D)
    OBVIOUS
  <2> HIDE DEF P
  <2>2. x \in Nat /\ Len(D) < P * x + P
    BY <1>1, DivBounds
  <2> HIDE DEF x
  <2> DEFINE c == j + 1
  <2>3. P * c <= Len(D) /\ c \in Nat
    BY <1>1, <2>1
  <2> HIDE DEF c
  <2>4. P * c < P * x + P
    <3>1. P * c \in Nat /\ P * x + P \in Nat
      BY <1>1, <2>2, <2>3
    <3> QED BY <2>2, <2>3, <3>1
  <2>5. c <= x
    BY <1>1, <2>2, <2>3, <2>4, Smaller
  <2> QED BY <2>2, <2>5 DEF c
<1>4. P <= Len(D)
  <2>1. (j + 1) * P <= Len(D)
    OBVIOUS
  <2> HIDE DEF P
  <2>2. (j + 1) * P = j * P + P /\ j * P \in Nat
    BY <1>1
  <2> QED BY <1>1, <2>1, <2>2
<1>5. l <= h
  <2> SUFFICES ASSUME ~(l <= h) PROVE FALSE
    OBVIOUS
  <2> HIDE DEF h
  <2>1. h + 1 \in Nat /\ h + 1 <= l
    BY <1>2
  <2>2. Pow2[h + 1] \in Nat
    BY <2>1, Pow2Positive
  <2>3. Pow2[h + 1] <= P
    BY <2>1, Pow2Monotone
  <2> HIDE DEF P
  <2> QED BY <1>1, <1>2, <1>4, <2>2, <2>3
<1>6. l \in 1 .. h
  <2> HIDE DEF h
  <2> QED BY <1>2, <1>5
<1>7. HoldsLevel(tree.levels[l], D, l)
  BY <1>6 DEF IsTreeOf, HoldsLevels
<1>8. Len(tree.levels[l]) = x
  BY <1>3, <1>7, ListIsSeq DEF HoldsLevel
<1>9. j \in 0 .. x - 1
  <2> HIDE DEF x
  <2> QED BY <1>3
<1>10. tree.levels[l][j + 1] = FullNode(D, l, j)
  BY <1>7, <1>9 DEF HoldsLevel
<1>11. HasNode(tree, l, j)
  BY <1>3, <1>5, <1>8 DEF HasNode
<1> QED BY <1>10, <1>11 DEF Node

\* The recursion of _subtree_hash.
SubtreeBody(tree, f, i) ==
  LET size == i[2] - i[1]
      mid  == i[1] + Split(size)
  IN  IF size <= 1 \/ size = Pow2[BitCeil(size)]
      THEN Node(tree, BitCeil(size), i[1] \div size)
      ELSE HashInternal(f[<<i[1], mid>>], f[<<mid, i[2]>>])

HashesSubtrees(f, tree, end) ==
  \A i \in (0 .. end) \X (0 .. end) : f[i] = SubtreeBody(tree, f, i)

\* It has a solution.
LEMMA SubtreeHashIs ==
  ASSUME NEW tree, NEW start, NEW end \in Nat
  PROVE  \E f : HashesSubtrees(f, tree, end) /\ SubtreeHash(tree, start, end) = f[<<start, end>>]
<1> DEFINE I == (0 .. end) \X (0 .. end)
           Mid(i) == i[1] + Split(i[2] - i[1])
           Body(f, i) == SubtreeBody(tree, f, i)
           Upto(f, n) == \A i \in I : i[2] - i[1] <= n => f[i] = Body(f, i)
           S == { n \in Nat : \E f : Upto(f, n) }
           hash == CHOOSE f : f = [i \in I |-> Body(f, i)]
<1>0. ASSUME NEW i \in I, i[2] - i[1] > 1
      PROVE  /\ <<i[1], Mid(i)>> \in I /\ Mid(i) - i[1] < i[2] - i[1]
             /\ <<Mid(i), i[2]>> \in I /\ i[2] - Mid(i) < i[2] - i[1]
             /\ Mid(i) \in Nat
  <2>1. i[2] - i[1] \in Nat
    BY <1>0
  <2>2. Split(i[2] - i[1]) \in 1 .. (i[2] - i[1]) - 1
    BY <1>0, <2>1, SplitInside
  <2> QED BY <2>2
<1>1. ASSUME NEW f, NEW g, NEW i \in I,
             i[2] - i[1] > 1 => f[<<i[1], Mid(i)>>] = g[<<i[1], Mid(i)>>] /\ f[<<Mid(i), i[2]>>] = g[<<Mid(i), i[2]>>]
      PROVE  Body(f, i) = Body(g, i)
  <2>1. CASE i[2] - i[1] <= 1
    BY <2>1 DEF SubtreeBody
  <2>2. CASE i[2] - i[1] > 1
    BY <1>1, <2>2, Zenon DEF SubtreeBody
  <2>3. i[2] - i[1] \in Int
    OBVIOUS
  <2> QED BY <2>1, <2>2, <2>3
<1>2. 0 \in S
  <2> DEFINE g == [i \in I |-> Body(<<>>, i)]
  <2>1. ASSUME NEW i \in I, i[2] - i[1] <= 0 PROVE g[i] = Body(g, i)
    <3>1. ~(i[2] - i[1] > 1)
      BY <2>1
    <3>2. g[i] = Body(<<>>, i)
      OBVIOUS
    <3> HIDE DEF g, Body, I
    <3>3. Body(<<>>, i) = Body(g, i)
      BY <1>1, <3>1
    <3> QED BY <3>2, <3>3
  <2>2. Upto(g, 0)
    <3> HIDE DEF g, Body
    <3> QED BY <2>1
  <2> HIDE DEF g, Upto
  <2> QED BY <2>2
<1>3. ASSUME NEW n \in Nat, n \in S PROVE n + 1 \in S
  <2>1. PICK f : Upto(f, n)
    BY <1>3
  <2> DEFINE g == [i \in I |-> Body(f, i)]
  <2>2. ASSUME NEW i \in I, i[2] - i[1] <= n PROVE g[i] = f[i]
    <3>1. f[i] = Body(f, i)
      BY <2>1, <2>2
    <3> HIDE DEF Body
    <3> QED BY <3>1
  <2>3. ASSUME NEW i \in I, i[2] - i[1] <= n + 1 PROVE g[i] = Body(g, i)
    <3>1. g[i] = Body(f, i)
      <4> HIDE DEF Body
      <4> QED OBVIOUS
    <3>2. ASSUME i[2] - i[1] > 1
          PROVE  f[<<i[1], Mid(i)>>] = g[<<i[1], Mid(i)>>] /\ f[<<Mid(i), i[2]>>] = g[<<Mid(i), i[2]>>]
      <4> DEFINE c == Mid(i)
                 l == <<i[1], c>>
                 r == <<c, i[2]>>
      <4>1. /\ l \in I /\ c - i[1] < i[2] - i[1]
            /\ r \in I /\ i[2] - c < i[2] - i[1] /\ c \in Nat
        BY <1>0, <3>2
      <4>2. l \in I /\ r \in I /\ l[2] - l[1] <= n /\ r[2] - r[1] <= n
        <5> HIDE DEF c
        <5> QED BY <2>3, <4>1
      <4>3. g[l] = f[l] /\ g[r] = f[r]
        <5> HIDE DEF l, r, g, c
        <5> QED BY <2>2, <4>2
      <4> HIDE DEF g
      <4> QED BY <4>3
    <3> HIDE DEF g, I, Body, Mid
    <3>3. Body(f, i) = Body(g, i)
      BY <1>1, <3>2
    <3> QED BY <3>1, <3>3
  <2>4. Upto(g, n + 1)
    <3> HIDE DEF g, Body
    <3> QED BY <2>3
  <2> HIDE DEF g, Upto
  <2> QED BY <2>4
<1>4. \A n \in Nat : n \in S
  <2> HIDE DEF S
  <2> QED BY <1>2, <1>3, Induction
<1>5. \E f : f = [i \in I |-> Body(f, i)]
  <2>1. PICK f : Upto(f, end)
    BY <1>4
  <2>2. \A i \in I : f[i] = Body(f, i)
    <3>1. \A i \in I : i[2] - i[1] <= end
      OBVIOUS
    <3> HIDE DEF Body
    <3> QED BY <2>1, <3>1
  <2> DEFINE g == [i \in I |-> Body(f, i)]
  <2>3. \A i \in I : g[i] = f[i]
    <3> HIDE DEF Body
    <3> QED BY <2>2
  <2>4. ASSUME NEW i \in I PROVE Body(f, i) = Body(g, i)
    <3>1. ASSUME i[2] - i[1] > 1
          PROVE  f[<<i[1], Mid(i)>>] = g[<<i[1], Mid(i)>>] /\ f[<<Mid(i), i[2]>>] = g[<<Mid(i), i[2]>>]
      <4>1. <<i[1], Mid(i)>> \in I /\ <<Mid(i), i[2]>> \in I
        BY <1>0, <3>1
      <4> HIDE DEF g, I, Mid
      <4> QED BY <2>3, <4>1
    <3> HIDE DEF g, I, Body, Mid
    <3> QED BY <1>1, <3>1
  <2>5. g = [i \in I |-> Body(g, i)]
    <3> HIDE DEF Body, I
    <3> QED BY <2>4
  <2> HIDE DEF g
  <2> QED BY <2>5
<1>6. hash = [i \in I |-> Body(hash, i)]
  <2> HIDE DEF I, Body
  <2> QED BY <1>5
<1>7. SubtreeHash(tree, start, end) = hash[<<start, end>>]
  BY Zenon DEF SubtreeHash, SubtreeBody
<1> HIDE DEF hash
<1>8. HashesSubtrees(hash, tree, end)
  <2>1. \A i \in I : hash[i] = Body(hash, i)
    <3> HIDE DEF Body, I
    <3> QED BY <1>6
  <2> QED BY <2>1 DEF HashesSubtrees
<1> QED BY <1>7, <1>8

\* A subtree is a node of the tree that ends where it does.
LEMMA SubtreeSpans ==
  ASSUME NEW a, NEW b, IsValidSubtree(a, b)
  PROVE  \E g \in Nat : SpansNode(a, b, b, BitCeil(b - a), g)
<1> DEFINE l == BitCeil(b - a)
           P == Pow2[l]
           g == a \div P
<1>1. a \in Nat /\ b \in Nat /\ a < b /\ a % P = 0 /\ b - a \in Nat \ {0}
  BY DEF IsValidSubtree
<1>2. l \in Nat /\ b - a <= P
  BY <1>1, BitCeilDef
<1>3. P \in Nat \ {0}
  BY <1>2, Pow2Positive
<1> HIDE DEF P
<1>4. g \in Nat /\ a = P * g + 0
  <2>1. g \in Nat /\ P * g <= a /\ a % P = a - P * g
    BY <1>1, <1>3, DivBounds
  <2> HIDE DEF g
  <2> QED BY <1>1, <1>3, <2>1
<1> HIDE DEF g
<1>5. a = g * P /\ ~(a + P < b)
  <2> HIDE DEF l
  <2> QED BY <1>1, <1>2, <1>3, <1>4
<1>6. SpansNode(a, b, b, l, g)
  BY <1>1, <1>2, <1>4, <1>5 DEF SpansNode, P
<1> QED BY <1>4, <1>6

\* A node of a tree is a subtree.
LEMMA SpanIsValid ==
  ASSUME NEW a, NEW b, NEW n, NEW l, NEW g, SpansNode(a, b, n, l, g)
  PROVE  IsValidSubtree(a, b)
<1> DEFINE P == Pow2[l]
<1>1. /\ l \in Nat /\ g \in Nat /\ a \in Nat /\ b \in Nat
      /\ a = g * P /\ a < b /\ l = BitCeil(b - a)
  BY DEF SpansNode
<1>2. P \in Nat \ {0}
  BY <1>1, Pow2Positive
<1> HIDE DEF P
<1>3. P * g <= a /\ a < P * g + P /\ a - P * g = 0
  BY <1>1, <1>2
<1>4. a % P = 0
  BY <1>1, <1>2, <1>3, DivUnique
<1> QED BY <1>1, <1>4 DEF IsValidSubtree, P

\* A subtree that can be told from the tree's nodes: it is complete and more
\* than a leaf, or its last leaf hash was not pruned.
IsStored(tree, a, b) ==
  \/ tree.leaves[b] # Unavailable
  \/ b - a > 1 /\ b - a = Pow2[BitCeil(b - a)]

\* A single leaf is on level 0.
LEMMA BitCeilOfOne == BitCeil(1) = 0
<1> DEFINE one == 1
           zero == 0
<1>1. one \in Nat \ {0} /\ zero \in Nat /\ one <= Pow2[zero] /\ ~(zero > 0)
  BY Pow2Positive
<1> HIDE DEF one, zero
<1>2. BitCeil(one) = zero
  BY <1>1, BitCeilIs
<1> QED BY <1>2 DEF one, zero

\* What _subtree_hash reads for a complete subtree.
LEMMA CompleteSubtreeHash ==
  ASSUME NEW D, Len(D) \in Nat, NEW tree, IsTreeOf(tree, D),
         NEW a, NEW b, IsValidSubtree(a, b), b <= Len(D), IsStored(tree, a, b),
         b - a = 1 \/ b - a = Pow2[BitCeil(b - a)]
  PROVE  Node(tree, BitCeil(b - a), a \div (b - a)) = MTHOf(D, a, b)
<1> DEFINE m == b - a
           l == BitCeil(m)
<1>1. a \in Nat /\ b \in Nat /\ a < b /\ m \in Nat \ {0}
  BY DEF IsValidSubtree
<1>2. PICK g \in Nat : SpansNode(a, b, b, l, g)
  BY SubtreeSpans
<1>3. l \in Nat /\ a = g * Pow2[l]
  BY <1>2 DEF SpansNode
<1>4. CASE m = 1
  <2>1. l = 0
    BY <1>4, Pow2Positive, BitCeilIs
  <2>2. a \div m = a
    BY <1>1, <1>4
  <2>3. b \in 1 .. Len(D) /\ a + 1 = b
    BY <1>1, <1>4
  <2>4. tree.leaves[b] # Unavailable
    BY <1>4 DEF IsStored
  <2>5. tree.leaves[b] = HashLeaf(D[b])
    BY <2>3, <2>4 DEF IsTreeOf, HoldsLeaves
  <2>6. Node(tree, l, a \div m) = HashLeaf(D[b])
    BY <2>1, <2>2, <2>3, <2>5 DEF Node
  <2>7. MTHOf(D, a, b) = HashLeaf(D[b])
    <3>1. a \in 0 .. Len(D) /\ b \in 0 .. Len(D) /\ b - a <= 1
      BY <1>1, <1>4
    <3> QED BY <3>1, MTHOfDef
  <2> QED BY <2>6, <2>7
<1>5. CASE m # 1
  <2> DEFINE P == Pow2[l]
  <2>1. m = P /\ P \in Nat \ {0}
    BY <1>3, <1>5, Pow2Positive
  <2>2. l # 0
    BY <1>5, <2>1, Pow2Positive
  <2>3. a = g * m
    BY <1>3, <2>1
  <2>4. b = (g + 1) * m /\ a \div m = g
    <3> HIDE DEF m
    <3>1. b = a + m
      BY <1>1 DEF m
    <3>2. m * g <= a /\ a < m * g + m
      BY <1>1, <2>3
    <3>3. a \div m = g
      BY <1>1, <3>2, DivUnique
    <3> QED BY <1>1, <2>3, <3>1, <3>3
  <2> HIDE DEF m
  <2>5. (g + 1) * P <= Len(D)
    BY <2>1, <2>4
  <2>6. Node(tree, l, g) = FullNode(D, l, g)
    BY <1>3, <2>2, <2>5, StoredNode
  <2>7. FullNode(D, l, g) = MTHOf(D, a, b)
    BY <2>1, <2>3, <2>4 DEF FullNode
  <2> QED BY <2>4, <2>6, <2>7 DEF m
<1> QED BY <1>4, <1>5

\* _subtree_hash computes the hash of the subtree's entries.
LEMMA SubtreeHashValue ==
  ASSUME NEW D, Len(D) \in Nat, NEW tree, IsTreeOf(tree, D),
         NEW start, NEW end, IsValidSubtree(start, end), end <= Len(D),
         IsStored(tree, start, end)
  PROVE  SubtreeHash(tree, start, end) = MTHOf(D, start, end)
<1>1. start \in Nat /\ end \in Nat /\ start < end
  BY DEF IsValidSubtree
<1>2. PICK f : HashesSubtrees(f, tree, end) /\ SubtreeHash(tree, start, end) = f[<<start, end>>]
  BY <1>1, SubtreeHashIs
<1> DEFINE Good(a, b) == f[<<a, b>>] = MTHOf(D, a, b)
           Meant(a, b) == IsValidSubtree(a, b) /\ b <= end /\ IsStored(tree, a, b)
           S == { m \in Nat : \A a, b \in Nat : Meant(a, b) /\ b - a = m => Good(a, b) }
<1>3. ASSUME NEW m \in Nat, \A i \in 0 .. m - 1 : i \in S PROVE m \in S
  <2> SUFFICES ASSUME NEW a \in Nat, NEW b \in Nat, Meant(a, b), b - a = m PROVE Good(a, b)
    OBVIOUS
  <2> DEFINE l == BitCeil(m)
             mid == a + Split(m)
  <2>1. IsValidSubtree(a, b) /\ b <= end /\ IsStored(tree, a, b) /\ a < b /\ b <= Len(D)
    BY <1>1 DEF IsValidSubtree
  <2>2. f[<<a, b>>] = IF m <= 1 \/ m = Pow2[l]
                      THEN Node(tree, l, a \div m)
                      ELSE HashInternal(f[<<a, mid>>], f[<<mid, b>>])
    <3>1. <<a, b>> \in (0 .. end) \X (0 .. end)
      BY <1>1, <2>1
    <3>2. f[<<a, b>>] = SubtreeBody(tree, f, <<a, b>>)
      BY <1>2, <3>1 DEF HashesSubtrees
    <3>3. <<a, b>>[1] = a /\ <<a, b>>[2] = b /\ b - a = m
      OBVIOUS
    <3> QED BY <3>2, <3>3 DEF SubtreeBody
  <2>3. CASE m <= 1 \/ m = Pow2[l]
    <3>1. b - a = 1 \/ b - a = Pow2[BitCeil(b - a)]
      BY <2>1, <2>3
    <3>2. Node(tree, BitCeil(b - a), a \div (b - a)) = MTHOf(D, a, b)
      <4> HIDE DEF Meant
      <4> QED BY <2>1, <3>1, CompleteSubtreeHash
    <3> QED BY <2>2, <2>3, <3>2
  <2>4. CASE ~(m <= 1 \/ m = Pow2[l])
    <3>1. PICK g \in Nat : SpansNode(a, b, b, l, g)
      BY <2>1, SubtreeSpans
    <3>0. SpansNode(a, b, b, l, g) /\ m > 1 /\ Split(b - a) = Split(m) /\ b - a = m
      BY <2>4, <3>1
    <3>2. /\ mid \in Nat /\ a < mid /\ mid < b
          /\ SpansNode(a, mid, b, l - 1, 2 * g)
      <4> HIDE DEF l
      <4>1. b - a > 1
        BY <3>0
      <4>2. /\ a + Split(b - a) \in Nat /\ a < a + Split(b - a) /\ a + Split(b - a) < b
            /\ SpansNode(a, a + Split(b - a), b, l - 1, 2 * g)
        BY <3>0, <4>1, LeftChild
      <4> QED BY <3>0, <4>2
    <3>3. /\ l - 1 \in Nat /\ Split(m) = Pow2[l - 1] /\ Pow2[l - 1] \in Nat \ {0}
          /\ Pow2[l] = 2 * Pow2[l - 1] /\ Pow2[l - 1] < m /\ m <= Pow2[l]
      BY <2>4, SplitOfNode
    <3>4. mid - a = Pow2[l - 1] /\ mid - a > 1
      <4> HIDE DEF l
      <4> QED BY <2>4, <3>3
    <3>5. BitCeil(mid - a) = l - 1
      BY <3>2 DEF SpansNode
    <3>6. IsValidSubtree(a, mid) /\ IsStored(tree, a, mid)
      <4>1. IsStored(tree, a, mid)
        BY <3>4, <3>5 DEF IsStored
      <4> QED BY <3>2, <4>1, SpanIsValid
    <3>7. PICK j, h : SpansNode(mid, b, b, j, h)
      BY <2>4, <3>1, RightChild
    <3>8. IsValidSubtree(mid, b) /\ IsStored(tree, mid, b)
      <4>1. tree.leaves[b] # Unavailable
        BY <2>1, <2>4 DEF IsStored
      <4> QED BY <3>7, <4>1, SpanIsValid DEF IsStored
    <3> HIDE DEF mid
    <3>9. Meant(a, mid) /\ Meant(mid, b)
      BY <2>1, <3>2, <3>6, <3>8, <1>1
    <3> HIDE DEF Meant, Good, l
    <3>10. mid - a \in 0 .. m - 1 /\ b - mid \in 0 .. m - 1
      BY <3>2
    <3>11. Good(a, mid) /\ Good(mid, b)
      BY <1>3, <3>2, <3>9, <3>10
    <3>12. MTHOf(D, a, b) = HashInternal(MTHOf(D, a, mid), MTHOf(D, mid, b))
      <4>1. a \in 0 .. Len(D) /\ b \in 0 .. Len(D) /\ ~(b - a <= 1)
        BY <2>1, <2>4
      <4> QED BY <4>1, MTHOfDef DEF mid
    <3>13. f[<<a, b>>] = HashInternal(f[<<a, mid>>], f[<<mid, b>>])
      BY <2>2, <2>4 DEF mid
    <3> QED BY <3>11, <3>12, <3>13 DEF Good
  <2> HIDE DEF Good
  <2> QED BY <2>3, <2>4
<1>4. end - start \in S
  <2> HIDE DEF S
  <2>1. \A m \in Nat : m \in S
    BY <1>3, StrongInduction
  <2> QED BY <1>1, <2>1
<1> QED BY <1>1, <1>2, <1>4

-----------------------------------------------------------------------------
(* What a tree computes: inclusion proofs *)

\* A list of hashes leads a verifier that starts from a state to node g of level
\* l of a tree with n leaves, with a hash.
Turns(at, first, proof) ==
  /\ at[0] = first
  /\ \A k \in 1 .. Len(proof) : at[k] = InclusionStep(at[k - 1], proof[k])

LeadsTo(proof, first, n, l, g, hash) ==
  /\ Len(proof) \in Nat
  /\ ListOf(proof, Len(proof))
  /\ \A i \in 1 .. Len(proof) : proof[i] # Unavailable
  /\ \A at : Turns(at, first, proof) =>
       LET last == at[Len(proof)]
       IN  last.fn = g /\ last.sn = LastAt(n, l) /\ last.r = hash

\* One hash more, from a position where the verifier does not stop.
LEMMA OneMoreTurn ==
  ASSUME NEW proof, NEW first, NEW n \in Nat \ {0}, NEW j \in Nat, NEW f, NEW x,
         LeadsTo(proof, first, n, j, f, x),
         NEW t, t = LastAt(n, j), t # 0, f \in 0 .. t,
         NEW h, h # Unavailable, NEW longer, longer = Append(proof, h)
  PROVE  LeadsTo(longer, first, n, j + Rise(f, t), RiseTo(f, t),
                 IF IsRight(f, t) THEN HashInternal(h, x) ELSE HashInternal(x, h))
<1> DEFINE p == Len(proof)
<1>1. /\ p \in Nat /\ ListOf(proof, p)
      /\ \A i \in 1 .. p : proof[i] # Unavailable
      /\ \A at : Turns(at, first, proof) => at[p].fn = f /\ at[p].sn = t /\ at[p].r = x
  BY DEF LeadsTo
<1> HIDE DEF p
<1>2. AddsTo(proof, p, h, longer)
  BY <1>1, AppendToList
<1>3. ListOf(longer, p + 1) /\ (\A i \in 1 .. p : longer[i] = proof[i]) /\ longer[p + 1] = h
  BY <1>2 DEF AddsTo
<1>4. Len(longer) = p + 1 /\ p + 1 \in Nat
  <2>1. p + 1 \in Nat
    BY <1>1
  <2> QED BY <1>3, <2>1, ListIsSeq
<1>5. ASSUME NEW i \in 1 .. p + 1 PROVE longer[i] # Unavailable
  <2>1. CASE i = p + 1
    BY <1>3, <2>1
  <2>2. CASE i # p + 1
    <3>1. i \in 1 .. p
      BY <1>1, <2>2
    <3> QED BY <1>1, <1>3, <3>1
  <2> QED BY <2>1, <2>2
<1>6. ASSUME NEW at, Turns(at, first, longer)
      PROVE  /\ at[p + 1].fn = RiseTo(f, t)
             /\ at[p + 1].sn = LastAt(n, j + Rise(f, t))
             /\ at[p + 1].r = IF IsRight(f, t) THEN HashInternal(h, x) ELSE HashInternal(x, h)
  <2>1. at[0] = first /\ \A k \in 1 .. p + 1 : at[k] = InclusionStep(at[k - 1], longer[k])
    BY <1>4, <1>6 DEF Turns
  <2>2. Turns(at, first, proof)
    <3>1. ASSUME NEW k \in 1 .. p PROVE at[k] = InclusionStep(at[k - 1], proof[k])
      <4>0. p \in Nat
        BY <1>1
      <4>1. k \in 1 .. p + 1
        BY <4>0
      <4>2. longer[k] = proof[k]
        BY <1>3
      <4> QED BY <2>1, <4>1, <4>2
    <3> QED BY <2>1, <3>1 DEF Turns, p
  <2>3. at[p].fn = f /\ at[p].sn = t /\ at[p].r = x
    BY <1>1, <2>2
  <2>4. at[p + 1] = InclusionStep(at[p], h)
    <3>1. p + 1 \in 1 .. p + 1 /\ (p + 1) - 1 = p
      BY <1>1
    <3> QED BY <1>3, <2>1, <3>1
  <2>5. t \div Pow2[Rise(f, t)] = LastAt(n, j + Rise(f, t))
    BY RiseKeepsPlace
  <2> DEFINE a == at[p]
             b == at[p + 1]
  <2>6. /\ b.fn = RiseTo(a.fn, a.sn)
        /\ b.sn = a.sn \div Pow2[Rise(a.fn, a.sn)]
        /\ b.r = IF a.sn = 0 THEN Rejected
                 ELSE IF IsRight(a.fn, a.sn) THEN HashInternal(h, a.r)
                 ELSE HashInternal(a.r, h)
    BY <2>4, InclusionStepIs
  <2>7. a.fn = f /\ a.sn = t /\ a.r = x
    BY <2>3
  <2> HIDE DEF a, b
  <2>8. /\ b.fn = RiseTo(f, t)
        /\ b.sn = LastAt(n, j + Rise(f, t))
        /\ b.r = IF IsRight(f, t) THEN HashInternal(h, x) ELSE HashInternal(x, h)
    BY <2>5, <2>6, <2>7
  <2> QED BY <2>8 DEF b
<1> QED BY <1>3, <1>4, <1>5, <1>6 DEF LeadsTo

\* The recursion of _path.
PathBody(tree, index, f, i) ==
  LET mid == i[1] + Split(i[2] - i[1])
  IN  IF i[2] - i[1] <= 1 THEN <<>>
      ELSE IF index < mid
      THEN Append(f[<<i[1], mid>>], SubtreeHash(tree, mid, i[2]))
      ELSE Append(f[<<mid, i[2]>>], SubtreeHash(tree, i[1], mid))

ListsPaths(f, tree, index, end) ==
  \A i \in (0 .. end) \X (0 .. end) : f[i] = PathBody(tree, index, f, i)

\* It has a solution.
LEMMA InclusionProofIs ==
  ASSUME NEW tree, NEW index, NEW start, NEW end \in Nat
  PROVE  \E f : /\ ListsPaths(f, tree, index, end)
               /\ InclusionProof(tree, index, start, end) = f[<<start, end>>]
<1> DEFINE I == (0 .. end) \X (0 .. end)
           Mid(i) == i[1] + Split(i[2] - i[1])
           Body(f, i) == PathBody(tree, index, f, i)
           Upto(f, n) == \A i \in I : i[2] - i[1] <= n => f[i] = Body(f, i)
           S == { n \in Nat : \E f : Upto(f, n) }
           path == CHOOSE f : f = [i \in I |-> Body(f, i)]
<1>0. ASSUME NEW i \in I, i[2] - i[1] > 1
      PROVE  /\ <<i[1], Mid(i)>> \in I /\ Mid(i) - i[1] < i[2] - i[1]
             /\ <<Mid(i), i[2]>> \in I /\ i[2] - Mid(i) < i[2] - i[1]
             /\ Mid(i) \in Nat
  <2>1. i[2] - i[1] \in Nat
    BY <1>0
  <2>2. Split(i[2] - i[1]) \in 1 .. (i[2] - i[1]) - 1
    BY <1>0, <2>1, SplitInside
  <2> QED BY <2>2
<1>1. ASSUME NEW f, NEW g, NEW i \in I,
             i[2] - i[1] > 1 => f[<<i[1], Mid(i)>>] = g[<<i[1], Mid(i)>>] /\ f[<<Mid(i), i[2]>>] = g[<<Mid(i), i[2]>>]
      PROVE  Body(f, i) = Body(g, i)
  <2>1. CASE i[2] - i[1] <= 1
    BY <2>1 DEF PathBody
  <2>2. CASE i[2] - i[1] > 1
    BY <1>1, <2>2, Zenon DEF PathBody
  <2>3. i[2] - i[1] \in Int
    OBVIOUS
  <2> QED BY <2>1, <2>2, <2>3
<1>2. 0 \in S
  <2> DEFINE g == [i \in I |-> Body(<<>>, i)]
  <2>1. ASSUME NEW i \in I, i[2] - i[1] <= 0 PROVE g[i] = Body(g, i)
    <3>1. ~(i[2] - i[1] > 1)
      BY <2>1
    <3>2. g[i] = Body(<<>>, i)
      OBVIOUS
    <3> HIDE DEF g, Body, I
    <3>3. Body(<<>>, i) = Body(g, i)
      BY <1>1, <3>1
    <3> QED BY <3>2, <3>3
  <2>2. Upto(g, 0)
    <3> HIDE DEF g, Body
    <3> QED BY <2>1
  <2> HIDE DEF g, Upto
  <2> QED BY <2>2
<1>3. ASSUME NEW n \in Nat, n \in S PROVE n + 1 \in S
  <2>1. PICK f : Upto(f, n)
    BY <1>3
  <2> DEFINE g == [i \in I |-> Body(f, i)]
  <2>2. ASSUME NEW i \in I, i[2] - i[1] <= n PROVE g[i] = f[i]
    <3>1. f[i] = Body(f, i)
      BY <2>1, <2>2
    <3> HIDE DEF Body
    <3> QED BY <3>1
  <2>3. ASSUME NEW i \in I, i[2] - i[1] <= n + 1 PROVE g[i] = Body(g, i)
    <3>1. g[i] = Body(f, i)
      <4> HIDE DEF Body
      <4> QED OBVIOUS
    <3>2. ASSUME i[2] - i[1] > 1
          PROVE  f[<<i[1], Mid(i)>>] = g[<<i[1], Mid(i)>>] /\ f[<<Mid(i), i[2]>>] = g[<<Mid(i), i[2]>>]
      <4> DEFINE c == Mid(i)
                 l == <<i[1], c>>
                 r == <<c, i[2]>>
      <4>1. /\ l \in I /\ c - i[1] < i[2] - i[1]
            /\ r \in I /\ i[2] - c < i[2] - i[1] /\ c \in Nat
        BY <1>0, <3>2
      <4>2. l \in I /\ r \in I /\ l[2] - l[1] <= n /\ r[2] - r[1] <= n
        <5> HIDE DEF c
        <5> QED BY <2>3, <4>1
      <4>3. g[l] = f[l] /\ g[r] = f[r]
        <5> HIDE DEF l, r, g, c
        <5> QED BY <2>2, <4>2
      <4> HIDE DEF g
      <4> QED BY <4>3
    <3> HIDE DEF g, I, Body, Mid
    <3>3. Body(f, i) = Body(g, i)
      BY <1>1, <3>2
    <3> QED BY <3>1, <3>3
  <2>4. Upto(g, n + 1)
    <3> HIDE DEF g, Body
    <3> QED BY <2>3
  <2> HIDE DEF g, Upto
  <2> QED BY <2>4
<1>4. \A n \in Nat : n \in S
  <2> HIDE DEF S
  <2> QED BY <1>2, <1>3, Induction
<1>5. \E f : f = [i \in I |-> Body(f, i)]
  <2>1. PICK f : Upto(f, end)
    BY <1>4
  <2>2. \A i \in I : f[i] = Body(f, i)
    <3>1. \A i \in I : i[2] - i[1] <= end
      OBVIOUS
    <3> HIDE DEF Body
    <3> QED BY <2>1, <3>1
  <2> DEFINE g == [i \in I |-> Body(f, i)]
  <2>3. \A i \in I : g[i] = f[i]
    <3> HIDE DEF Body
    <3> QED BY <2>2
  <2>4. ASSUME NEW i \in I PROVE Body(f, i) = Body(g, i)
    <3>1. ASSUME i[2] - i[1] > 1
          PROVE  f[<<i[1], Mid(i)>>] = g[<<i[1], Mid(i)>>] /\ f[<<Mid(i), i[2]>>] = g[<<Mid(i), i[2]>>]
      <4>1. <<i[1], Mid(i)>> \in I /\ <<Mid(i), i[2]>> \in I
        BY <1>0, <3>1
      <4> HIDE DEF g, I, Mid
      <4> QED BY <2>3, <4>1
    <3> HIDE DEF g, I, Body, Mid
    <3> QED BY <1>1, <3>1
  <2>5. g = [i \in I |-> Body(g, i)]
    <3> HIDE DEF Body, I
    <3> QED BY <2>4
  <2> HIDE DEF g
  <2> QED BY <2>5
<1>6. path = [i \in I |-> Body(path, i)]
  <2> HIDE DEF I, Body
  <2> QED BY <1>5
<1>7. InclusionProof(tree, index, start, end) = path[<<start, end>>]
  BY Zenon DEF InclusionProof, PathBody
<1> HIDE DEF path
<1>8. ListsPaths(path, tree, index, end)
  <2>1. \A i \in I : path[i] = Body(path, i)
    <3> HIDE DEF Body, I
    <3> QED BY <1>6
  <2> QED BY <2>1 DEF ListsPaths
<1> QED BY <1>7, <1>8

\* The tree computes the hash of every node of the entries D, which begin at
\* entry `from` of its log.
ComputesNodes(tree, D, from) ==
  \A a, b \in 0 .. Len(D) : \A l, g :
    SpansNode(a, b, Len(D), l, g) => SubtreeHash(tree, from + a, from + b) = MTHOf(D, a, b)

\* A node's hash exists.
LEMMA SpanExists ==
  ASSUME NEW D, Len(D) \in Nat, NEW a, NEW b, NEW l, NEW g, SpansNode(a, b, Len(D), l, g)
  PROVE  MTHOf(D, a, b) # Unavailable
<1>1. /\ l \in Nat /\ g \in Nat /\ a \in Nat /\ b \in Nat /\ a = g * Pow2[l] /\ a < b
      /\ b = IF a + Pow2[l] < Len(D) THEN a + Pow2[l] ELSE Len(D)
  BY DEF SpansNode
<1>2. Pow2[l] \in Nat
  BY <1>1, Pow2Positive
<1>3. g * Pow2[l] < Len(D)
  <2> DEFINE P == Pow2[l]
  <2> HIDE DEF P
  <2> QED BY <1>1, <1>2 DEF P
<1>4. NodeHash(D, l, g) # Unavailable
  BY <1>1, <1>3, NodeExists
<1> QED BY <1>4, SpanHash

\* An inclusion proof leads from the entry to every node around it.
LEMMA PathLeads ==
  ASSUME NEW D, Len(D) \in Nat \ {0}, NEW tree, NEW from \in Nat, ComputesNodes(tree, D, from),
         NEW x \in 0 .. Len(D) - 1, NEW f, ListsPaths(f, tree, from + x, from + Len(D)),
         NEW first, first = [fn |-> x, sn |-> Len(D) - 1, r |-> HashLeaf(D[x + 1])]
  PROVE  \A m \in Nat : \A a, b \in 0 .. Len(D) : \A l, g :
           SpansNode(a, b, Len(D), l, g) /\ b - a = m /\ a <= x /\ x < b =>
             LeadsTo(f[<<from + a, from + b>>], first, Len(D), l, g, MTHOf(D, a, b))
<1> DEFINE n == Len(D)
           Good(a, b, l, g) == LeadsTo(f[<<from + a, from + b>>], first, n, l, g, MTHOf(D, a, b))
           Meant(a, b, l, g) == SpansNode(a, b, n, l, g) /\ a <= x /\ x < b
           S == { m \in Nat : \A a, b \in 0 .. n : \A l, g :
                    Meant(a, b, l, g) /\ b - a = m => Good(a, b, l, g) }
<1>0. n \in Nat \ {0}
  OBVIOUS
<1>1. ASSUME NEW m \in Nat, \A i \in 0 .. m - 1 : i \in S PROVE m \in S
  <2> SUFFICES ASSUME NEW a \in 0 .. n, NEW b \in 0 .. n, NEW l, NEW g,
                      Meant(a, b, l, g), b - a = m
               PROVE  Good(a, b, l, g)
    OBVIOUS
  <2> DEFINE mid == a + Split(b - a)
             q == f[<<from + a, from + b>>]
  <2>1. /\ SpansNode(a, b, n, l, g) /\ a <= x /\ x < b /\ a < b /\ a \in Nat /\ b \in Nat
        /\ l \in Nat /\ g \in Nat
    BY DEF SpansNode
  <2>2. q = IF b - a <= 1 THEN <<>>
            ELSE IF x < mid
            THEN Append(f[<<from + a, from + mid>>], SubtreeHash(tree, from + mid, from + b))
            ELSE Append(f[<<from + mid, from + b>>], SubtreeHash(tree, from + a, from + mid))
    <3> DEFINE i == <<from + a, from + b>>
    <3>1. i \in (0 .. from + n) \X (0 .. from + n)
      BY <1>0, <2>1
    <3>2. f[i] = PathBody(tree, from + x, f, i)
      BY <3>1 DEF ListsPaths
    <3>3. i[1] = from + a /\ i[2] = from + b /\ i[2] - i[1] = b - a
      BY <2>1
    <3>4. CASE b - a <= 1
      BY <3>2, <3>3, <3>4 DEF PathBody
    <3>5. CASE ~(b - a <= 1)
      <4>1. Split(b - a) \in 1 .. (b - a) - 1
        BY <2>1, <3>5, SplitInside
      <4>2. i[1] + Split(i[2] - i[1]) = from + mid /\ (from + x < from + mid <=> x < mid)
        BY <2>1, <3>3, <4>1
      <4> HIDE DEF i, mid
      <4> QED BY <3>2, <3>3, <3>5, <4>2 DEF PathBody, i
    <3> QED BY <3>4, <3>5
  <2>3. CASE b - a <= 1
    <3>1. b - a = 1 /\ a = x /\ b = x + 1
      BY <2>1, <2>3
    <3>2. l = 0 /\ g = x
      <4>0. m = 1
        BY <3>1
      <4>1. l = BitCeil(m) /\ a = g * Pow2[l]
        BY <2>1 DEF SpansNode
      <4>2. BitCeil(m) = 0 /\ Pow2[0] = 1
        BY <4>0, Pow2Positive, BitCeilOfOne
      <4> QED BY <2>1, <3>1, <4>1, <4>2
    <3>3. MTHOf(D, a, b) = HashLeaf(D[x + 1])
      <4>1. a \in 0 .. Len(D) /\ b \in 0 .. Len(D) /\ b - a <= 1 /\ b = x + 1
        BY <3>1
      <4> QED BY <4>1, MTHOfDef
    <3>4. LastAt(n, 0) = n - 1
      <4>1. (n - 1) \div 1 = n - 1
        BY <1>0
      <4> QED BY <4>1, Pow2Positive DEF LastAt
    <3>5. q = <<>>
      BY <2>2, <2>3
    <3>6. Len(q) = 0 /\ ListOf(q, 0)
      BY <3>5 DEF ListOf
    <3>7. \A at : Turns(at, first, q) =>
            at[0].fn = x /\ at[0].sn = LastAt(n, 0) /\ at[0].r = HashLeaf(D[x + 1])
      BY <3>4 DEF Turns
    <3> HIDE DEF q, n
    <3>8. LeadsTo(q, first, n, 0, x, HashLeaf(D[x + 1]))
      BY <3>6, <3>7 DEF LeadsTo
    <3> QED BY <3>2, <3>3, <3>8 DEF q
  <2>4. CASE ~(b - a <= 1)
    <3>0. b - a > 1
      BY <2>1, <2>4
    <3>1. /\ mid \in Nat /\ a < mid /\ mid < b /\ b <= n /\ l - 1 \in Nat
          /\ SpansNode(a, mid, n, l - 1, 2 * g)
      BY <1>0, <2>1, <3>0, LeftChild
    <3>2. PICK j \in 0 .. l - 1 :
            /\ SpansNode(mid, b, n, j, (2 * g + 1) * Pow2[(l - 1) - j])
            /\ j = l - 1 \/ b = n
      <4> HIDE DEF n
      <4>1. SpansNode(a, b, n, l, g) /\ b - a > 1 /\ n \in Nat
        BY <1>0, <2>1, <3>0
      <4>2. \E j \in 0 .. l - 1 :
              /\ SpansNode(a + Split(b - a), b, n, j, (2 * g + 1) * Pow2[(l - 1) - j])
              /\ j = l - 1 \/ b = n
        BY <4>1, RightChild
      <4> QED BY <4>2
    <3> DEFINE h == (2 * g + 1) * Pow2[(l - 1) - j]
    <3>3. MTHOf(D, a, b) = HashInternal(MTHOf(D, a, mid), MTHOf(D, mid, b))
      BY <2>1, <3>0, SpanSplits
    <3>4. mid \in 0 .. n
      <4> HIDE DEF mid, n
      <4> QED BY <3>1, <1>0
    <3>5. /\ SubtreeHash(tree, from + a, from + mid) = MTHOf(D, a, mid)
          /\ SubtreeHash(tree, from + mid, from + b) = MTHOf(D, mid, b)
      <4> HIDE DEF mid
      <4> QED BY <3>1, <3>2, <3>4 DEF ComputesNodes
    <3>6. MTHOf(D, a, mid) # Unavailable /\ MTHOf(D, mid, b) # Unavailable
      <4> HIDE DEF mid
      <4> QED BY <3>1, <3>2, SpanExists
    <3>7. CASE x < mid
      <4>1. mid - a \in 0 .. m - 1
        <5> HIDE DEF mid
        <5> QED BY <2>1, <3>1
      <4>2. Meant(a, mid, l - 1, 2 * g)
        BY <2>1, <3>1, <3>7
      <4> HIDE DEF mid, Meant, Good
      <4>3. Good(a, mid, l - 1, 2 * g)
        BY <1>1, <3>4, <4>1, <4>2
      <4>4. q = Append(f[<<from + a, from + mid>>], MTHOf(D, mid, b))
        BY <2>2, <2>4, <3>5, <3>7
      <4> DEFINE t == LastAt(n, l - 1)
      <4>5. /\ t \in Nat \ {0} /\ 2 * g < t /\ ~IsRight(2 * g, t)
            /\ Rise(2 * g, t) = 1 /\ RiseTo(2 * g, t) = g
        BY <1>0, <2>1, <3>0, RiseFromLeft
      <4> HIDE DEF q, n
      <4>6. LeadsTo(f[<<from + a, from + mid>>], first, n, l - 1, 2 * g, MTHOf(D, a, mid))
        BY <4>3 DEF Good
      <4> HIDE DEF t
      <4> DEFINE k == l - 1
      <4>7. k \in Nat /\ k + 1 = l /\ t = LastAt(n, k) /\ t # 0 /\ 2 * g \in 0 .. t
        BY <2>1, <3>1, <4>5 DEF t
      <4> HIDE DEF k
      <4>8. LeadsTo(q, first, n, k + Rise(2 * g, t), RiseTo(2 * g, t),
                    IF IsRight(2 * g, t) THEN HashInternal(MTHOf(D, mid, b), MTHOf(D, a, mid))
                    ELSE HashInternal(MTHOf(D, a, mid), MTHOf(D, mid, b)))
        <5>1. LeadsTo(f[<<from + a, from + mid>>], first, n, k, 2 * g, MTHOf(D, a, mid))
          BY <4>6 DEF k
        <5> QED BY <1>0, <3>6, <4>4, <4>7, <5>1, OneMoreTurn
      <4>9. LeadsTo(q, first, n, l, g, HashInternal(MTHOf(D, a, mid), MTHOf(D, mid, b)))
        BY <4>5, <4>7, <4>8
      <4> QED BY <3>3, <4>9 DEF Good, q
    <3>8. CASE ~(x < mid)
      <4>1. b - mid \in 0 .. m - 1
        <5> HIDE DEF mid
        <5> QED BY <2>1, <3>1
      <4>2. Meant(mid, b, j, h)
        <5> HIDE DEF mid
        <5> QED BY <2>1, <3>1, <3>2, <3>8
      <4> DEFINE t == LastAt(n, j)
      <4>5. /\ t \in Nat \ {0} /\ h \in 0 .. t /\ IsRight(h, t)
            /\ j + Rise(h, t) = l /\ RiseTo(h, t) = g
        <5>1. SpansNode(a, b, n, l, g) /\ b - a > 1 /\ n \in Nat
          BY <1>0, <2>1, <3>0
        <5>2. SpansNode(a + Split(b - a), b, n, j, h)
          BY <3>2
        <5>3. h = (2 * g + 1) * Pow2[(l - 1) - j]
          OBVIOUS
        <5>4. j \in 0 .. l - 1 /\ (j = l - 1 \/ b = n)
          BY <3>2
        <5> HIDE DEF n, h, mid
        <5>5. LET u == LastAt(n, j)
              IN  /\ u \in Nat \ {0} /\ h \in 0 .. u /\ IsRight(h, u)
                  /\ j + Rise(h, u) = l /\ RiseTo(h, u) = g
          BY <5>1, <5>2, <5>3, <5>4, RiseFromRight
        <5> QED BY <5>5
      <4> HIDE DEF mid, Meant, Good, h
      <4>3. Good(mid, b, j, h)
        BY <1>1, <3>4, <4>1, <4>2
      <4>4. q = Append(f[<<from + mid, from + b>>], MTHOf(D, a, mid))
        BY <2>2, <2>4, <3>5, <3>8
      <4> HIDE DEF q, n
      <4>6. LeadsTo(f[<<from + mid, from + b>>], first, n, j, h, MTHOf(D, mid, b))
        BY <4>3 DEF Good
      <4>7. j \in Nat /\ t = LastAt(n, j) /\ t # 0
        BY <4>5
      <4> HIDE DEF t
      <4>8. LeadsTo(q, first, n, j + Rise(h, t), RiseTo(h, t),
                    IF IsRight(h, t) THEN HashInternal(MTHOf(D, a, mid), MTHOf(D, mid, b))
                    ELSE HashInternal(MTHOf(D, mid, b), MTHOf(D, a, mid)))
        BY <1>0, <3>6, <4>4, <4>5, <4>6, <4>7, OneMoreTurn
      <4>9. LeadsTo(q, first, n, l, g, HashInternal(MTHOf(D, a, mid), MTHOf(D, mid, b)))
        BY <4>5, <4>8
      <4> QED BY <3>3, <4>9 DEF Good, q
    <3> QED BY <3>7, <3>8
  <2> HIDE DEF Good
  <2> QED BY <2>3, <2>4
<1> HIDE DEF S
<1>2. \A m \in Nat : m \in S
  BY <1>1, StrongInduction
<1>3. ASSUME NEW m \in Nat, NEW a \in 0 .. n, NEW b \in 0 .. n, NEW l, NEW g,
             SpansNode(a, b, n, l, g), b - a = m, a <= x, x < b
      PROVE  Good(a, b, l, g)
  <2>1. m \in S
    BY <1>2
  <2> HIDE DEF Good
  <2> QED BY <1>3, <2>1 DEF S
<1> QED BY <1>3

\* The generated inclusion proof of an entry is served, and verifies.
LEMMA InclusionComplete ==
  ASSUME NEW D, Len(D) \in Nat \ {0}, NEW tree, NEW from \in Nat, ComputesNodes(tree, D, from),
         NEW x \in 0 .. Len(D) - 1,
         NEW proof, proof = InclusionProof(tree, from + x, from, from + Len(D))
  PROVE  /\ Served(proof)
         /\ EvaluateInclusion(from + x, from, from + Len(D), HashLeaf(D[x + 1]), proof) = MTH(D)
<1> DEFINE n == Len(D)
           end == from + n
           l == BitCeil(n)
           first == [fn |-> x, sn |-> n - 1, r |-> HashLeaf(D[x + 1])]
<1>0. n \in Nat \ {0} /\ end \in Nat
  OBVIOUS
<1>1. PICK f : ListsPaths(f, tree, from + x, end) /\ proof = f[<<from, end>>]
  BY <1>0, InclusionProofIs
<1>2. l \in Nat /\ n <= Pow2[l] /\ Pow2[l] \in Nat
  <2>1. l \in Nat /\ n <= Pow2[l]
    BY <1>0, BitCeilDef
  <2> QED BY <2>1, Pow2Positive
<1>3. SpansNode(0, n, n, l, 0)
  <2> DEFINE P == Pow2[l]
  <2>1. 0 * P = 0 /\ ~(0 + P < n) /\ n - 0 = n
    BY <1>0, <1>2
  <2> QED BY <1>0, <1>2, <2>1 DEF SpansNode
<1> HIDE DEF l
<1>4. LeadsTo(f[<<from + 0, from + n>>], first, n, l, 0, MTHOf(D, 0, n))
  <2>1. 0 \in 0 .. n /\ n \in 0 .. n /\ n - 0 = n /\ 0 <= x /\ x < n
    BY <1>0
  <2>2. \A m \in Nat : \A a, b \in 0 .. Len(D) : \A i, g :
           SpansNode(a, b, Len(D), i, g) /\ b - a = m /\ a <= x /\ x < b =>
             LeadsTo(f[<<from + a, from + b>>], first, Len(D), i, g, MTHOf(D, a, b))
    BY <1>1, PathLeads
  <2> QED BY <1>0, <1>3, <2>1, <2>2
<1>5. proof = f[<<from + 0, from + n>>]
  BY <1>1
<1>6. LeadsTo(proof, first, n, l, 0, MTH(D))
  BY <1>4, <1>5 DEF MTH
<1>7. /\ Len(proof) \in Nat /\ ListOf(proof, Len(proof))
      /\ \A i \in 1 .. Len(proof) : proof[i] # Unavailable
      /\ \A at : Turns(at, first, proof) =>
           LET last == at[Len(proof)]
           IN  last.fn = 0 /\ last.sn = LastAt(n, l) /\ last.r = MTH(D)
  BY <1>6 DEF LeadsTo
<1>8. Served(proof)
  <2>1. DOMAIN proof = 1 .. Len(proof)
    BY <1>7, ListIsSeq
  <2> QED BY <1>7, <2>1 DEF Served
<1>9. LastAt(n, l) = 0
  <2> DEFINE P == Pow2[l]
             y == n - 1
  <2>1. P \in Nat \ {0} /\ y \in Nat /\ y < P
    BY <1>0, <1>2
  <2> HIDE DEF P, y
  <2>2. y \div P = 0
    BY <2>1, DivZero
  <2> QED BY <2>2 DEF LastAt, P, y
<1>10. PICK at : IsInclusionRun(at, from + x, from, end, HashLeaf(D[x + 1]), proof)
  BY <1>7, InclusionLoop
<1>11. Turns(at, first, proof)
  <2>1. (from + x) - from = x /\ (end - from) - 1 = n - 1
    BY <1>0
  <2> QED BY <1>10, <2>1 DEF IsInclusionRun, Turns
<1>12. at[Len(proof)].sn = 0 /\ at[Len(proof)].r = MTH(D)
  BY <1>7, <1>9, <1>11
<1>13. EvaluateInclusion(from + x, from, end, HashLeaf(D[x + 1]), proof) = MTH(D)
  BY <1>10, <1>12 DEF IsInclusionRun
<1> QED BY <1>8, <1>13

-----------------------------------------------------------------------------
(* What a tree computes: consistency proofs *)

\* The recursion of _subproof.
PartsOf(n) == [s : 0 .. n, base : 0 .. n, top : 0 .. n, known : BOOLEAN]

MiddleOf(i) == i.base + Split(i.top - i.base)
LeftOf(i) == [i EXCEPT !.top = MiddleOf(i)]
RightOf(i) == [i EXCEPT !.base = MiddleOf(i)]
RestOf(i) == [i EXCEPT !.s = MiddleOf(i), !.base = MiddleOf(i), !.known = FALSE]

SubproofBody(tree, end, f, i) ==
  IF (i.s = i.base /\ end = i.top) \/ i.top - i.base <= 1
  THEN IF i.known THEN <<>> ELSE << SubtreeHash(tree, i.base, i.top) >>
  ELSE IF end <= MiddleOf(i)
  THEN Append(f[LeftOf(i)], SubtreeHash(tree, MiddleOf(i), i.top))
  ELSE IF MiddleOf(i) <= i.s
  THEN Append(f[RightOf(i)], SubtreeHash(tree, i.base, MiddleOf(i)))
  ELSE Append(f[RestOf(i)], SubtreeHash(tree, i.base, MiddleOf(i)))

ListsSubproofs(f, tree, end, n) ==
  \A i \in PartsOf(n) : f[i] = SubproofBody(tree, end, f, i)

\* The parts that a part is put together from.
LEMMA PartsInside ==
  ASSUME NEW n \in Nat, NEW i \in PartsOf(n), i.top - i.base > 1
  PROVE  /\ MiddleOf(i) \in 0 .. n /\ i.base < MiddleOf(i) /\ MiddleOf(i) < i.top
         /\ LeftOf(i) = [s |-> i.s, base |-> i.base, top |-> MiddleOf(i), known |-> i.known]
         /\ RightOf(i) = [s |-> i.s, base |-> MiddleOf(i), top |-> i.top, known |-> i.known]
         /\ RestOf(i) = [s |-> MiddleOf(i), base |-> MiddleOf(i), top |-> i.top, known |-> FALSE]
         /\ LeftOf(i) \in PartsOf(n) /\ RightOf(i) \in PartsOf(n) /\ RestOf(i) \in PartsOf(n)
<1> DEFINE c == MiddleOf(i)
<1>1. i.top - i.base \in Nat /\ i.base \in 0 .. n /\ i.top \in 0 .. n
  BY DEF PartsOf
<1>2. Split(i.top - i.base) \in 1 .. (i.top - i.base) - 1
  BY <1>1, SplitInside
<1>3. c \in 0 .. n /\ i.base < c /\ c < i.top
  BY <1>1, <1>2 DEF MiddleOf
<1> HIDE DEF c
<1>4. i = [s |-> i.s, base |-> i.base, top |-> i.top, known |-> i.known]
  BY DEF PartsOf
<1>5. [i EXCEPT !.top = c] = [s |-> i.s, base |-> i.base, top |-> c, known |-> i.known]
  BY <1>4 DEF PartsOf
<1>6. [i EXCEPT !.base = c] = [s |-> i.s, base |-> c, top |-> i.top, known |-> i.known]
  BY <1>4 DEF PartsOf
<1>7. [i EXCEPT !.s = c, !.base = c, !.known = FALSE]
        = [s |-> c, base |-> c, top |-> i.top, known |-> FALSE]
  <2> DEFINE x == [i EXCEPT !.s = c]
             y == [x EXCEPT !.base = c]
             z == [y EXCEPT !.known = FALSE]
  <2>1. [i EXCEPT !.s = c, !.base = c, !.known = FALSE] = z
    OBVIOUS
  <2>2. x = [s |-> c, base |-> i.base, top |-> i.top, known |-> i.known]
    BY <1>4 DEF PartsOf
  <2> HIDE DEF x
  <2>3. y = [s |-> c, base |-> c, top |-> i.top, known |-> i.known]
    BY <2>2
  <2> HIDE DEF y
  <2>4. z = [s |-> c, base |-> c, top |-> i.top, known |-> FALSE]
    <3> DEFINE no == FALSE
    <3> HIDE DEF no, y
    <3>1. [y EXCEPT !.known = no] = [s |-> c, base |-> c, top |-> i.top, known |-> no]
      BY <2>3
    <3> QED BY <3>1 DEF no
  <2> QED BY <2>1, <2>4
<1>8. i.s \in 0 .. n /\ i.known \in BOOLEAN
  BY DEF PartsOf
<1>9. /\ [s |-> i.s, base |-> i.base, top |-> c, known |-> i.known] \in PartsOf(n)
      /\ [s |-> i.s, base |-> c, top |-> i.top, known |-> i.known] \in PartsOf(n)
      /\ [s |-> c, base |-> c, top |-> i.top, known |-> FALSE] \in PartsOf(n)
  BY <1>1, <1>3, <1>8 DEF PartsOf
<1> QED BY <1>3, <1>5, <1>6, <1>7, <1>9 DEF c, LeftOf, RightOf, RestOf

\* It has a solution.
LEMMA ConsistencyProofIs ==
  ASSUME NEW tree, NEW end, NEW n \in Nat, NEW start \in 0 .. n
  PROVE  \E f : /\ ListsSubproofs(f, tree, end, n)
               /\ ConsistencyProof(tree, start, end, n)
                    = f[[s |-> start, base |-> 0, top |-> n, known |-> TRUE]]
<1> DEFINE I == PartsOf(n)
           all == [s |-> start, base |-> 0, top |-> n, known |-> TRUE]
           size(i) == i.top - i.base
           Body(f, i) == SubproofBody(tree, end, f, i)
           Upto(f, m) == \A i \in I : size(i) <= m => f[i] = Body(f, i)
           S == { m \in Nat : \E f : Upto(f, m) }
           path == CHOOSE f : f = [i \in I |-> Body(f, i)]
           Same(f, g, i) == /\ f[LeftOf(i)] = g[LeftOf(i)]
                            /\ f[RightOf(i)] = g[RightOf(i)]
                            /\ f[RestOf(i)] = g[RestOf(i)]
<1>0. ASSUME NEW i \in I, size(i) > 1
      PROVE  /\ LeftOf(i) \in I /\ size(LeftOf(i)) < size(i)
             /\ RightOf(i) \in I /\ size(RightOf(i)) < size(i)
             /\ RestOf(i) \in I /\ size(RestOf(i)) < size(i)
  <2> DEFINE c == MiddleOf(i)
             l == LeftOf(i)
             r == RightOf(i)
             o == RestOf(i)
  <2>1. /\ c \in 0 .. n /\ i.base < c /\ c < i.top
        /\ l = [s |-> i.s, base |-> i.base, top |-> c, known |-> i.known]
        /\ r = [s |-> i.s, base |-> c, top |-> i.top, known |-> i.known]
        /\ o = [s |-> c, base |-> c, top |-> i.top, known |-> FALSE]
        /\ l \in I /\ r \in I /\ o \in I
    <3>1. i \in PartsOf(n) /\ i.top - i.base > 1
      BY <1>0
    <3> QED BY <3>1, PartsInside
  <2>2. i.base \in 0 .. n /\ i.top \in 0 .. n
    BY DEF PartsOf
  <2> HIDE DEF c, l, r, o, I
  <2>3. l.top = c /\ l.base = i.base /\ r.top = i.top /\ r.base = c /\ o.top = i.top /\ o.base = c
    BY <2>1
  <2>4. size(l) < size(i) /\ size(r) < size(i) /\ size(o) < size(i)
    BY <2>1, <2>2, <2>3
  <2> QED BY <2>1, <2>4 DEF l, r, o
<1>00. \A i \in I : size(i) \in Int /\ size(i) <= n
  BY DEF PartsOf
<1>1. ASSUME NEW f, NEW g, NEW i \in I, size(i) > 1 => Same(f, g, i)
      PROVE  Body(f, i) = Body(g, i)
  <2>1. CASE i.top - i.base <= 1
    BY <2>1 DEF SubproofBody
  <2>2. CASE i.top - i.base > 1
    <3>1. Same(f, g, i)
      BY <1>1, <2>2
    <3> QED BY <3>1, Zenon DEF SubproofBody
  <2> QED BY <1>00, <2>1, <2>2
<1>2. 0 \in S
  <2> DEFINE g == [i \in I |-> Body(<<>>, i)]
  <2>1. ASSUME NEW i \in I, size(i) <= 0 PROVE g[i] = Body(g, i)
    <3>1. ~(size(i) > 1)
      BY <1>00, <2>1
    <3>2. g[i] = Body(<<>>, i)
      OBVIOUS
    <3> HIDE DEF g, Body, I, size
    <3>3. Body(<<>>, i) = Body(g, i)
      BY <1>1, <3>1
    <3> QED BY <3>2, <3>3
  <2>2. Upto(g, 0)
    <3> HIDE DEF g, Body, size
    <3> QED BY <2>1
  <2> HIDE DEF g, Upto
  <2> QED BY <2>2
<1>3. ASSUME NEW m \in Nat, m \in S PROVE m + 1 \in S
  <2>1. PICK f : Upto(f, m)
    BY <1>3
  <2> DEFINE g == [i \in I |-> Body(f, i)]
  <2>2. ASSUME NEW i \in I, size(i) <= m PROVE g[i] = f[i]
    <3>1. f[i] = Body(f, i)
      BY <2>1, <2>2
    <3> HIDE DEF Body
    <3> QED BY <3>1
  <2>3. ASSUME NEW i \in I, size(i) <= m + 1 PROVE g[i] = Body(g, i)
    <3>1. g[i] = Body(f, i)
      <4> HIDE DEF Body
      <4> QED OBVIOUS
    <3>2. ASSUME size(i) > 1 PROVE Same(f, g, i)
      <4> DEFINE l == LeftOf(i)
                 r == RightOf(i)
                 o == RestOf(i)
      <4>1. /\ l \in I /\ size(l) < size(i)
            /\ r \in I /\ size(r) < size(i)
            /\ o \in I /\ size(o) < size(i)
        BY <1>0, <3>2
      <4> HIDE DEF l, r, o, I, size, g
      <4>2. size(l) <= m /\ size(r) <= m /\ size(o) <= m
        BY <1>00, <2>3, <4>1
      <4>3. g[l] = f[l] /\ g[r] = f[r] /\ g[o] = f[o]
        BY <2>2, <4>1, <4>2
      <4> QED BY <4>3 DEF l, r, o
    <3> HIDE DEF g, I, Body, Same, size
    <3>3. Body(f, i) = Body(g, i)
      BY <1>1, <3>2
    <3> QED BY <3>1, <3>3
  <2>4. Upto(g, m + 1)
    <3> HIDE DEF g, Body, size
    <3> QED BY <2>3
  <2> HIDE DEF g, Upto
  <2> QED BY <2>4
<1>4. \A m \in Nat : m \in S
  <2> HIDE DEF S
  <2> QED BY <1>2, <1>3, Induction
<1>5. \E f : f = [i \in I |-> Body(f, i)]
  <2>1. PICK f : Upto(f, n)
    BY <1>4
  <2>2. \A i \in I : f[i] = Body(f, i)
    <3> HIDE DEF Body, size
    <3> QED BY <1>00, <2>1
  <2> DEFINE g == [i \in I |-> Body(f, i)]
  <2>3. \A i \in I : g[i] = f[i]
    <3> HIDE DEF Body
    <3> QED BY <2>2
  <2>4. ASSUME NEW i \in I PROVE Body(f, i) = Body(g, i)
    <3>1. ASSUME size(i) > 1 PROVE Same(f, g, i)
      <4>1. LeftOf(i) \in I /\ RightOf(i) \in I /\ RestOf(i) \in I
        BY <1>0, <3>1
      <4> HIDE DEF g, I
      <4> QED BY <2>3, <4>1
    <3> HIDE DEF g, I, Body, Same, size
    <3> QED BY <1>1, <3>1
  <2>5. g = [i \in I |-> Body(g, i)]
    <3> HIDE DEF Body, I
    <3> QED BY <2>4
  <2> HIDE DEF g
  <2> QED BY <2>5
<1>6. path = [i \in I |-> Body(path, i)]
  <2> HIDE DEF I, Body
  <2> QED BY <1>5
<1>7. ConsistencyProof(tree, start, end, n) = path[all]
  BY Zenon DEF ConsistencyProof, SubproofBody, PartsOf, MiddleOf, LeftOf, RightOf, RestOf
<1> HIDE DEF path
<1>8. ListsSubproofs(path, tree, end, n)
  <2>1. \A i \in I : path[i] = Body(path, i)
    <3> HIDE DEF Body, I
    <3> QED BY <1>6
  <2> QED BY <2>1 DEF ListsSubproofs
<1> QED BY <1>7, <1>8

\* The level on which a proof starts: that of the subtree if it is a node of the
\* tree, else that of the left child it ends with.
LEMMA StartsOnLevel ==
  ASSUME NEW n \in Nat \ {0}, NEW start, NEW end, IsValidSubtree(start, end), end <= n,
         NEW l \in Nat, NEW g \in Nat,
         \/ l = BitCeil(end - start) /\ (end = n \/ end = (g + 1) * Pow2[l])
         \/ l < BitCeil(end - start) /\ end # n /\ end = (2 * g + 1) * Pow2[l]
  PROVE  ConsistencyStart(start, end, n)
           = [fn |-> start \div Pow2[l], sn |-> (end - 1) \div Pow2[l], tn |-> LastAt(n, l)]
<1> DEFINE b == BitCeil(end - start)
           e == end - 1
           ones == TrailingOnes(e)
           shift == IF end = n \/ b < ones THEN b ELSE ones
           P == Pow2[l]
<1>1. start \in Nat /\ end \in Nat /\ b \in Nat /\ e \in Nat /\ end = e + 1
  BY SubtreePlace
<1>2. /\ ones \in Nat
      /\ \A j \in 0 .. ones - 1 : (e \div Pow2[j]) % 2 = 1
      /\ \A j \in Nat : (e + 1) \div Pow2[j]
                          = IF j <= ones THEN e \div Pow2[j] + 1 ELSE e \div Pow2[j]
  <2> HIDE DEF e
  <2> QED BY <1>1, AddOne
<1>3. P \in Nat \ {0}
  BY Pow2Positive
<1> HIDE DEF b, e, ones, P
<1>4. ASSUME NEW q \in Nat, end = (q + 1) * P
      PROVE  l <= ones /\ e \div P = q
  <2>1. P * q <= e /\ e < P * q + P
    BY <1>1, <1>3, <1>4
  <2>2. e \div P = q
    BY <1>1, <1>3, <2>1, DivUnique
  <2> DEFINE x == e + 1
             r == q + 1
  <2>3. P * r <= x /\ x < P * r + P /\ x \in Nat /\ r \in Nat
    BY <1>1, <1>3, <1>4
  <2> HIDE DEF x, r
  <2>4. x \div P = r
    BY <1>3, <2>3, DivUnique
  <2>5. (e + 1) \div P = q + 1
    BY <2>4 DEF x, r
  <2>6. (e + 1) \div P = IF l <= ones THEN e \div P + 1 ELSE e \div P
    BY <1>2 DEF P
  <2> QED BY <2>2, <2>5, <2>6
<1>5. shift = l
  <2>1. CASE l = b /\ end = n
    BY <2>1
  <2>2. CASE l = b /\ end = (g + 1) * P
    BY <1>1, <1>2, <1>4, <2>2
  <2>3. CASE l < b /\ end # n /\ end = (2 * g + 1) * P
    <3> DEFINE q == 2 * g
    <3>1. q \in Nat /\ end = (q + 1) * P
      BY <2>3
    <3> HIDE DEF q
    <3>2. l <= ones /\ e \div P = q
      BY <1>4, <3>1
    <3>3. ~(l < ones)
      <4> SUFFICES ASSUME l < ones PROVE FALSE
        OBVIOUS
      <4>1. (e \div P) % 2 = 1
        BY <1>2 DEF P
      <4>2. (2 * g) % 2 = 1
        BY <3>2, <4>1 DEF q
      <4> QED BY <4>2
    <3>4. l = ones
      BY <1>2, <3>2, <3>3
    <3> QED BY <1>1, <2>3, <3>4
  <2> QED BY <2>1, <2>2, <2>3 DEF b, P
<1>6. ConsistencyStart(start, end, n)
        = [fn |-> start \div Pow2[shift], sn |-> e \div Pow2[shift], tn |-> (n - 1) \div Pow2[shift]]
  BY ApartIs, Zenon DEF ConsistencyStart, b, e, ones
<1> HIDE DEF shift
<1> QED BY <1>5, <1>6 DEF LastAt, e

\* A list of hashes leads the verifier of a subtree of D to level l, where it has
\* rebuilt the part of the subtree, and the node of the tree that it is in.
RebuildsTo(q, D, start, end, l) ==
  LET from == ConsistencyStart(start, end, Len(D))
      rest == OtherHashes(from, q)
  IN  /\ Len(q) \in Nat
      /\ ListOf(q, Len(q))
      /\ \A i \in 1 .. Len(q) : q[i] # Unavailable
      /\ from.fn = from.sn \/ Len(q) > 0
      /\ \A at : IsConsistencyRun(at, from, FirstHash(from, MTHOf(D, start, end), q), rest) =>
           LET last == at[Len(rest)]
           IN  HasRebuilt(D, start, end, last, l) /\ last.sr = NodeHash(D, l, last.sn)

\* A node of the tree is its own proof.
LEMMA RebuildsNode ==
  ASSUME NEW D, Len(D) \in Nat \ {0}, NEW start, NEW end, IsValidSubtree(start, end),
         NEW l, NEW g, SpansNode(start, end, Len(D), l, g), end <= Len(D)
  PROVE  RebuildsTo(<<>>, D, start, end, l)
<1> DEFINE n == Len(D)
           from == ConsistencyStart(start, end, n)
           node == MTHOf(D, start, end)
           P == Pow2[l]
<1>1. /\ l \in Nat /\ g \in Nat /\ start \in Nat /\ end \in Nat /\ start < end
      /\ start = g * P /\ (end = IF start + P < n THEN start + P ELSE n)
      /\ l = BitCeil(end - start) /\ n \in Nat \ {0}
  BY DEF SpansNode
<1>2. P \in Nat \ {0}
  BY <1>1, Pow2Positive
<1>3. start \div P = g /\ (end - 1) \div P = g
  <2>1. start \in start .. end - 1 /\ end - 1 \in start .. end - 1
    BY <1>1
  <2> QED BY <2>1, SpanPositions
<1>4. end = n \/ end = (g + 1) * P
  <2> HIDE DEF P, n
  <2>1. (g + 1) * P = g * P + P
    BY <1>1, <1>2
  <2> QED BY <1>1, <2>1
<1>5. from = [fn |-> g, sn |-> g, tn |-> LastAt(n, l)]
  <2>1. ConsistencyStart(start, end, n)
           = [fn |-> start \div Pow2[l], sn |-> (end - 1) \div Pow2[l], tn |-> LastAt(n, l)]
    <3> HIDE DEF n
    <3> QED BY <1>1, <1>4, StartsOnLevel DEF n
  <2> QED BY <1>3, <2>1
<1> HIDE DEF from
<1>6. from.fn = g /\ from.sn = g /\ from.tn = LastAt(n, l)
  BY <1>5
<1>7. FirstHash(from, node, <<>>) = node /\ OtherHashes(from, <<>>) = <<>>
  BY <1>6 DEF FirstHash, OtherHashes
<1>8. g \in 0 .. LastAt(n, l)
  <2> DEFINE x == end - 1
             m == n - 1
  <2>1. x \in Nat /\ m \in Nat /\ x <= m /\ x \div P = g /\ LastAt(n, l) = m \div P
    BY <1>1, <1>3 DEF LastAt
  <2> HIDE DEF x, m, P
  <2>2. x \div P <= m \div P /\ m \div P \in Nat
    BY <1>2, <2>1, DivMonotone, DivBounds
  <2> QED BY <1>1, <2>1, <2>2
<1>9. node = NodeHash(D, l, g)
  BY SpanHash
<1>10. node = PartFrom(D, start, end, l)
  BY <1>1 DEF PartFrom
<1> HIDE DEF node, P
<1>11. ASSUME NEW at, IsConsistencyRun(at, from, node, <<>>)
       PROVE  HasRebuilt(D, start, end, at[0], l) /\ at[0].sr = NodeHash(D, l, at[0].sn)
  <2> DEFINE a == at[0]
  <2>1. a.fn = g /\ a.sn = g /\ a.tn = LastAt(n, l) /\ a.fr = node /\ a.sr = node
    BY <1>6, <1>11 DEF IsConsistencyRun
  <2> HIDE DEF a
  <2>2. InPlace(a, n, l)
    BY <1>1, <1>8, <2>1 DEF InPlace
  <2>3. AtSubtree(a, start, end, l)
    BY <1>3, <2>1 DEF AtSubtree, P
  <2>4. HasRebuilt(D, start, end, a, l) /\ a.sr = NodeHash(D, l, a.sn)
    BY <1>9, <1>10, <2>1, <2>2, <2>3 DEF HasRebuilt
  <2> QED BY <2>4 DEF a
<1>12. Len(<<>>) = 0 /\ ListOf(<<>>, 0)
  BY DEF ListOf
<1> QED BY <1>6, <1>7, <1>11, <1>12 DEF RebuildsTo, from, node

\* A subtree that is no node of the tree starts from the node it ends with.
LEMMA RebuildsPart ==
  ASSUME NEW D, Len(D) \in Nat \ {0}, NEW start, NEW end, IsValidSubtree(start, end), end < Len(D),
         NEW base, NEW l, NEW g \in Nat, SpansNode(base, end, Len(D), l, 2 * g), start < base,
         NEW q, q = << MTHOf(D, base, end) >>
  PROVE  RebuildsTo(q, D, start, end, l)
<1> DEFINE n == Len(D)
           b == BitCeil(end - start)
           from == ConsistencyStart(start, end, n)
           node == MTHOf(D, start, end)
           hash == MTHOf(D, base, end)
           P == Pow2[l]
           f == 2 * g
<1>1. /\ l \in Nat /\ f \in Nat /\ base \in Nat /\ end \in Nat /\ base < end
      /\ base = f * P /\ (end = IF base + P < n THEN base + P ELSE n) /\ n \in Nat \ {0}
  BY DEF SpansNode
<1>2. P \in Nat \ {0}
  BY <1>1, Pow2Positive
<1>3. /\ start \in Nat /\ b \in Nat
      /\ \A j \in Nat : j >= b => start \div Pow2[j] = (end - 1) \div Pow2[j]
  BY SubtreePlace
<1>4. (end - 1) \div P = f
  <2>1. end - 1 \in base .. end - 1
    BY <1>1
  <2> QED BY <2>1, SpanPositions
<1>5. end # n /\ end = (2 * g + 1) * P
  <2>1. end # n /\ end = base + P
    BY <1>1
  <2> HIDE DEF P, n
  <2>2. (2 * g + 1) * P = f * P + P
    BY <1>1, <1>2
  <2> QED BY <1>1, <2>1, <2>2
<1>6. start \div P \in Nat /\ start \div P < f
  <2> DEFINE d == start \div P
  <2> HIDE DEF P
  <2>1. d \in Nat /\ P * d <= start
    BY <1>2, <1>3, DivBounds
  <2> HIDE DEF d
  <2>2. P * d < f * P
    BY <1>1, <1>2, <1>3, <2>1
  <2> HIDE DEF f
  <2>3. ~(f <= d)
    <3> SUFFICES ASSUME f <= d PROVE FALSE
      OBVIOUS
    <3>1. f * P <= P * d
      BY <1>1, <1>2, <2>1
    <3>2. f * P \in Nat /\ P * d \in Nat
      BY <1>1, <1>2, <2>1
    <3> QED BY <2>2, <3>1, <3>2
  <2>4. d < f
    BY <1>1, <2>1, <2>3
  <2> QED BY <2>1, <2>4 DEF d
<1>7. l < b
  <2> SUFFICES ASSUME ~(l < b) PROVE FALSE
    OBVIOUS
  <2>1. l >= b
    <3> HIDE DEF b
    <3> QED BY <1>1, <1>3
  <2>2. start \div P = (end - 1) \div P
    BY <1>1, <1>3, <2>1
  <2> QED BY <1>1, <1>4, <1>6, <2>2
<1>8. from = [fn |-> start \div P, sn |-> f, tn |-> LastAt(n, l)]
  <2>1. ConsistencyStart(start, end, n)
           = [fn |-> start \div Pow2[l], sn |-> (end - 1) \div Pow2[l], tn |-> LastAt(n, l)]
    BY <1>1, <1>5, <1>7, StartsOnLevel
  <2> QED BY <1>4, <2>1
<1> HIDE DEF from
<1>9. from.fn = start \div P /\ from.sn = f /\ from.tn = LastAt(n, l) /\ from.fn # from.sn
  <2>1. from.fn = start \div P /\ from.sn = f /\ from.tn = LastAt(n, l)
    BY <1>8
  <2> HIDE DEF f
  <2> QED BY <1>1, <1>6, <2>1
<1>10. hash # Unavailable
  BY SpanExists
<1>11. FirstHash(from, node, q) = hash /\ Len(OtherHashes(from, q)) = 0
  <2> HIDE DEF hash
  <2>1. q = <<hash>>
    BY DEF hash
  <2>2. Head(<<hash>>) = hash /\ Tail(<<hash>>) = <<>>
    <3>1. <<hash>> \in Seq({hash}) /\ <<hash>> # <<>> /\ Len(<<hash>>) = 1 /\ <<hash>>[1] = hash
      OBVIOUS
    <3> QED BY <3>1
  <2> QED BY <1>9, <2>1, <2>2 DEF FirstHash, OtherHashes
<1>12. f \in 0 .. LastAt(n, l)
  <2> DEFINE x == end - 1
             m == n - 1
  <2>1. x \in Nat /\ m \in Nat /\ x <= m /\ x \div P = f /\ LastAt(n, l) = m \div P
    BY <1>1, <1>4 DEF LastAt
  <2> HIDE DEF x, m, P, f
  <2>2. x \div P <= m \div P /\ m \div P \in Nat
    BY <1>2, <2>1, DivMonotone, DivBounds
  <2> QED BY <1>1, <2>1, <2>2
<1>13. hash = NodeHash(D, l, f)
  BY SpanHash
<1>14. hash = PartFrom(D, start, end, l)
  <2>1. PartFrom(D, start, end, l) = MTHOf(D, ((end - 1) \div P) * P, end)
    BY <1>7 DEF PartFrom
  <2> QED BY <1>1, <1>4, <2>1
<1> DEFINE rest == OtherHashes(from, q)
<1> HIDE DEF node, hash, P, f, b, rest
<1>15. ASSUME NEW at, IsConsistencyRun(at, from, hash, rest)
       PROVE  HasRebuilt(D, start, end, at[0], l) /\ at[0].sr = NodeHash(D, l, at[0].sn)
  <2> DEFINE a == at[0]
  <2>1. a.fn = start \div P /\ a.sn = f /\ a.tn = LastAt(n, l) /\ a.fr = hash /\ a.sr = hash
    BY <1>9, <1>15 DEF IsConsistencyRun
  <2> HIDE DEF a
  <2>2. InPlace(a, n, l)
    BY <1>1, <1>12, <2>1 DEF InPlace
  <2>3. AtSubtree(a, start, end, l)
    BY <1>4, <2>1 DEF AtSubtree, P
  <2>4. HasRebuilt(D, start, end, a, l) /\ a.sr = NodeHash(D, l, a.sn)
    BY <1>13, <1>14, <2>1, <2>2, <2>3 DEF HasRebuilt
  <2> QED BY <2>4 DEF a
<1>16. Len(q) = 1 /\ ListOf(q, 1) /\ q[1] # Unavailable
  <2>1. q = <<hash>>
    BY DEF hash
  <2> QED BY <1>10, <2>1 DEF ListOf
<1>17. \A i \in 1 .. 1 : q[i] # Unavailable
  BY <1>16
<1>18. FirstHash(from, node, q) = hash /\ Len(rest) = 0
  BY <1>11 DEF rest
<1> QED BY <1>15, <1>16, <1>17, <1>18 DEF RebuildsTo, from, node, rest

\* What is left of a list without its first element, when one is added.
LEMMA TailOfLonger ==
  ASSUME NEW q, NEW p \in Nat, p > 0, Len(q) = p, ListOf(q, p), NEW h, NEW longer, AddsTo(q, p, h, longer)
  PROVE  /\ Head(longer) = Head(q)
         /\ Len(Tail(q)) = p - 1 /\ Len(Tail(longer)) = p
         /\ \A k \in 1 .. p - 1 : Tail(longer)[k] = Tail(q)[k]
         /\ Tail(longer)[p] = h
<1>1. /\ q \in Seq({ q[i] : i \in 1 .. p }) /\ Len(q) = p
  BY ListIsSeq
<1>2. p + 1 \in Nat /\ ListOf(longer, p + 1)
  BY DEF AddsTo
<1>3. longer \in Seq({ longer[i] : i \in 1 .. p + 1 }) /\ Len(longer) = p + 1
  BY <1>2, ListIsSeq
<1> DEFINE X == { q[i] : i \in 1 .. p }
           Y == { longer[i] : i \in 1 .. p + 1 }
<1>4. q \in Seq(X) /\ longer \in Seq(Y)
  BY <1>1, <1>3
<1> HIDE DEF X, Y
<1>5. q # <<>> /\ longer # <<>>
  <2>1. Len(<<>>) = 0
    OBVIOUS
  <2> QED BY <1>1, <1>3, <2>1
<1>6. /\ Head(q) = q[1] /\ Head(longer) = longer[1]
      /\ Len(Tail(q)) = p - 1 /\ Len(Tail(longer)) = (p + 1) - 1
      /\ \A k \in 1 .. Len(q) - 1 : Tail(q)[k] = q[k + 1]
      /\ \A k \in 1 .. Len(longer) - 1 : Tail(longer)[k] = longer[k + 1]
  BY <1>1, <1>3, <1>4, <1>5, HeadTailProperties
<1>7. (\A i \in 1 .. p : longer[i] = q[i]) /\ longer[p + 1] = h
  BY DEF AddsTo
<1>8. 1 \in 1 .. p
  OBVIOUS
<1>9. ASSUME NEW k \in 1 .. p - 1 PROVE Tail(longer)[k] = Tail(q)[k]
  <2>1. k \in 1 .. (p + 1) - 1 /\ k + 1 \in 1 .. p
    OBVIOUS
  <2> QED BY <1>1, <1>3, <1>6, <1>7, <2>1
<1>10. Tail(longer)[p] = h
  <2>1. p \in 1 .. (p + 1) - 1
    OBVIOUS
  <2> QED BY <1>3, <1>6, <1>7, <2>1
<1> QED BY <1>6, <1>7, <1>8, <1>9, <1>10

\* One hash more: the sibling of the node that a verifier is at.
LEMMA OneMorePart ==
  ASSUME NEW D, Len(D) \in Nat \ {0}, NEW start, NEW end, IsValidSubtree(start, end),
         end <= Len(D), NEW j \in Nat, NEW q, RebuildsTo(q, D, start, end, j),
         NEW f, f = (end - 1) \div Pow2[j], NEW t, t = LastAt(Len(D), j), t # 0,
         NEW h, h # Unavailable, NEW longer, longer = Append(q, h),
         NodeHash(D, j + Rise(f, t), RiseTo(f, t))
           = IF IsRight(f, t) THEN HashInternal(h, NodeHash(D, j, f))
             ELSE HashInternal(NodeHash(D, j, f), h)
  PROVE  RebuildsTo(longer, D, start, end, j + Rise(f, t))
<1> DEFINE p == Len(q)
           from == ConsistencyStart(start, end, Len(D))
           node == MTHOf(D, start, end)
           rest == OtherHashes(from, q)
           more == OtherHashes(from, longer)
           r == Len(rest)
<1>1. /\ p \in Nat /\ ListOf(q, p)
      /\ \A i \in 1 .. p : q[i] # Unavailable
      /\ from.fn = from.sn \/ p > 0
      /\ \A at : IsConsistencyRun(at, from, FirstHash(from, node, q), rest) =>
           HasRebuilt(D, start, end, at[r], j) /\ at[r].sr = NodeHash(D, j, at[r].sn)
  BY DEF RebuildsTo
<1>2. AddsTo(q, p, h, longer)
  <2> HIDE DEF p
  <2> QED BY <1>1, AppendToList
<1>3. ListOf(longer, p + 1) /\ (\A i \in 1 .. p : longer[i] = q[i]) /\ longer[p + 1] = h
  BY <1>2 DEF AddsTo
<1>4. Len(longer) = p + 1 /\ p + 1 \in Nat
  <2>1. p + 1 \in Nat
    BY <1>1
  <2> HIDE DEF p
  <2> QED BY <1>3, <2>1, ListIsSeq
<1>5. ASSUME NEW i \in 1 .. p + 1 PROVE longer[i] # Unavailable
  <2> HIDE DEF p
  <2>1. CASE i = p + 1
    BY <1>3, <2>1
  <2>2. CASE i # p + 1
    <3>1. i \in 1 .. p
      BY <1>1, <2>2
    <3> QED BY <1>1, <1>3, <3>1
  <2> QED BY <2>1, <2>2
<1>6. /\ FirstHash(from, node, longer) = FirstHash(from, node, q)
      /\ r \in Nat /\ Len(more) = r + 1
      /\ \A k \in 1 .. r : more[k] = rest[k]
      /\ more[r + 1] = h
  <2>1. CASE from.fn = from.sn
    <3>1. FirstHash(from, node, longer) = node /\ FirstHash(from, node, q) = node
          /\ rest = q /\ more = longer
      BY <2>1 DEF FirstHash, OtherHashes
    <3> QED BY <1>1, <1>3, <1>4, <3>1
  <2>2. CASE from.fn # from.sn
    <3>1. FirstHash(from, node, longer) = Head(longer) /\ FirstHash(from, node, q) = Head(q)
          /\ rest = Tail(q) /\ more = Tail(longer)
      BY <2>2 DEF FirstHash, OtherHashes
    <3>2. p > 0
      BY <1>1, <2>2
    <3> HIDE DEF more, rest
    <3>3. Len(q) = p
      OBVIOUS
    <3> HIDE DEF p
    <3>4. /\ Head(longer) = Head(q)
          /\ Len(Tail(q)) = p - 1 /\ Len(Tail(longer)) = p
          /\ \A k \in 1 .. p - 1 : Tail(longer)[k] = Tail(q)[k]
          /\ Tail(longer)[p] = h
      BY <1>1, <1>2, <3>2, <3>3, TailOfLonger
    <3>5. p - 1 \in Nat /\ (p - 1) + 1 = p
      BY <1>1, <3>2
    <3> QED BY <3>1, <3>4, <3>5
  <2> QED BY <2>1, <2>2
<1> HIDE DEF p, rest, more, node, from
<1>7. ASSUME NEW at, IsConsistencyRun(at, from, FirstHash(from, node, longer), more)
      PROVE  /\ HasRebuilt(D, start, end, at[r + 1], j + Rise(f, t))
             /\ at[r + 1].sr = NodeHash(D, j + Rise(f, t), at[r + 1].sn)
  <2> DEFINE a == at[r]
             b == at[r + 1]
  <2> HIDE DEF r
  <2>1. IsConsistencyRun(at, from, FirstHash(from, node, q), rest)
    <3>1. \A k \in 1 .. r : k \in 1 .. Len(more)
      BY <1>6
    <3>2. Len(rest) = r
      BY DEF r
    <3> QED BY <1>6, <1>7, <3>1, <3>2 DEF IsConsistencyRun
  <2>2. HasRebuilt(D, start, end, a, j) /\ a.sr = NodeHash(D, j, a.sn)
    BY <1>1, <2>1 DEF r
  <2>3. a.tn = t /\ a.sn = f
    BY <2>2 DEF HasRebuilt, InPlace, AtSubtree
  <2>4. /\ b.fn = a.fn \div Pow2[Rise(a.sn, a.tn)]
        /\ b.sn = RiseTo(a.sn, a.tn)
        /\ b.tn = a.tn \div Pow2[Rise(a.sn, a.tn)]
        /\ b.fr = IF IsRight(a.sn, a.tn) /\ a.fn < a.sn THEN HashInternal(h, a.fr) ELSE a.fr
        /\ b.sr = IF IsRight(a.sn, a.tn) THEN HashInternal(h, a.sr) ELSE HashInternal(a.sr, h)
    <3>1. r + 1 \in 1 .. Len(more) /\ (r + 1) - 1 = r
      BY <1>6
    <3>2. at[r].tn # 0
      BY <2>3
    <3> QED BY <1>6, <1>7, <3>1, <3>2 DEF IsConsistencyRun
  <2> HIDE DEF a, b
  <2>5. b.sr = NodeHash(D, j + Rise(f, t), b.sn)
    BY <2>2, <2>3, <2>4
  <2>6. HasRebuilt(D, start, end, b, j + Rise(a.sn, a.tn))
    <3>1. b.sr = NodeHash(D, j + Rise(a.sn, a.tn), b.sn)
      BY <2>3, <2>5
    <3>2. a.tn # 0
      BY <2>3
    <3> QED BY <2>2, <2>4, <3>1, <3>2, TurnRebuilds
  <2>7. HasRebuilt(D, start, end, b, j + Rise(f, t))
    BY <2>3, <2>6
  <2> QED BY <2>5, <2>7 DEF b
<1>8. from.fn = from.sn \/ Len(longer) > 0
  BY <1>1, <1>4
<1>9. \A at : IsConsistencyRun(at, from, FirstHash(from, node, longer), more) =>
        /\ HasRebuilt(D, start, end, at[Len(more)], j + Rise(f, t))
        /\ at[Len(more)].sr = NodeHash(D, j + Rise(f, t), at[Len(more)].sn)
  BY <1>6, <1>7
<1> QED BY <1>3, <1>4, <1>5, <1>8, <1>9 DEF RebuildsTo, from, node, more

\* A subtree that has entries on both sides of a node's split, and none outside
\* the node, begins where the node begins.
LEMMA StraddlesFromStart ==
  ASSUME NEW n \in Nat, NEW a, NEW b, NEW l, NEW g, SpansNode(a, b, n, l, g), b - a > 1,
         NEW start, NEW end, IsValidSubtree(start, end),
         NEW mid, mid = a + Split(b - a),
         a <= start, start < mid, mid < end, end <= b
  PROVE  start = a
<1> DEFINE k == l - 1
           P == Pow2[k]
           w == BitCeil(end - start)
           e == end - 1
<1>1. /\ mid \in Nat /\ k \in Nat /\ mid = (2 * g + 1) * P
      /\ SpansNode(a, mid, n, k, 2 * g)
  BY LeftChild
<1>2. /\ l \in Nat /\ g \in Nat /\ a \in Nat /\ b \in Nat /\ a = g * Pow2[l] /\ l = k + 1
  BY DEF SpansNode
<1>3. /\ start \in Nat /\ end \in Nat /\ start < end /\ w \in Nat
      /\ \A j \in 0 .. w : start = (start \div Pow2[j]) * Pow2[j]
      /\ \A j \in Nat : j >= w => start \div Pow2[j] = (end - 1) \div Pow2[j]
  BY SubtreePlace
<1>4. P \in Nat \ {0}
  BY <1>1, Pow2Positive
<1>5. start \div P = 2 * g
  <2>1. start \in a .. mid - 1
    BY <1>1, <1>2, <1>3
  <2> HIDE DEF k
  <2> QED BY <1>1, <2>1, SpanPositions
<1>6. start \div Pow2[l] = g
  <2>1. start \in a .. b - 1
    BY <1>2, <1>3
  <2> QED BY <2>1, SpanPositions
<1> HIDE DEF w
<1>7. ~(k >= w)
  <2> SUFFICES ASSUME k >= w PROVE FALSE
    OBVIOUS
  <2>1. start \div P = e \div P
    BY <1>1, <1>3
  <2>2. e \in Nat /\ mid <= e
    BY <1>1, <1>3
  <2> HIDE DEF e, P
  <2>3. e \div P = 2 * g
    BY <1>5, <2>1
  <2> DEFINE d == e \div P
  <2>4. e < P * d + P
    BY <1>4, <2>2, DivBounds
  <2>5. d = 2 * g
    BY <2>3
  <2> HIDE DEF d
  <2>6. mid = P * d + P
    BY <1>1, <1>2, <1>4, <2>5
  <2> QED BY <1>1, <1>4, <2>2, <2>4, <2>6
<1>8. l \in 0 .. w
  <2> HIDE DEF k
  <2> QED BY <1>1, <1>2, <1>3, <1>7
<1>9. start = g * Pow2[l]
  BY <1>3, <1>6, <1>8
<1> QED BY <1>2, <1>9

\* The tree computes the hashes that a consistency proof for [start, end) needs:
\* for a checkpoint, no single leaf before its last one.
ComputesAround(tree, D, start, end) ==
  \A a, b \in 0 .. Len(D) : \A l, g :
    SpansNode(a, b, Len(D), l, g) /\ (end <= b \/ b - a > 1 \/ start # 0)
      => SubtreeHash(tree, a, b) = MTHOf(D, a, b)

\* What a part of a consistency proof is for: the subtree begins in it, or its
\* beginning was already listed.
IsPartOf(i, n, start, end, l, g) ==
  /\ SpansNode(i.base, i.top, n, l, g)
  /\ i.base < end
  /\ end <= i.top
  /\ i.known => i.s = start /\ i.base <= start
  /\ ~i.known => /\ i.s = i.base
                 /\ start < i.base
                 /\ end < n
                 /\ end < i.top \/ \E h \in Nat : g = 2 * h

\* The part with the last entry is on the left: the right one's hash follows.
LEMMA RebuildsOnLeft ==
  ASSUME NEW D, Len(D) \in Nat \ {0}, NEW start, NEW end, IsValidSubtree(start, end),
         end <= Len(D), NEW a, NEW b, NEW l, NEW g, SpansNode(a, b, Len(D), l, g), b - a > 1,
         NEW mid, mid = a + Split(b - a), a < end, end <= mid,
         NEW q, RebuildsTo(q, D, start, end, l - 1),
         NEW longer, longer = Append(q, MTHOf(D, mid, b))
  PROVE  RebuildsTo(longer, D, start, end, l)
<1> DEFINE n == Len(D)
           j == l - 1
           f == 2 * g
           t == LastAt(n, j)
           h == MTHOf(D, mid, b)
<1>1. /\ mid \in Nat /\ a < mid /\ mid < b /\ b <= n /\ j \in Nat
      /\ SpansNode(a, mid, n, j, f)
  BY LeftChild
<1>2. l \in Nat /\ g \in Nat /\ a \in Nat /\ b \in Nat /\ l = j + 1 /\ end \in Nat /\ start \in Nat
  BY DEF SpansNode, IsValidSubtree
<1>3. PICK j2, h2 : SpansNode(mid, b, n, j2, h2)
  BY RightChild
<1>4. h # Unavailable
  BY <1>3, SpanExists
<1>5. t \in Nat \ {0} /\ ~IsRight(f, t) /\ Rise(f, t) = 1 /\ RiseTo(f, t) = g
  <2>1. SpansNode(a, b, n, l, g) /\ b - a > 1 /\ n \in Nat
    OBVIOUS
  <2> HIDE DEF n
  <2> QED BY <2>1, RiseFromLeft
<1>6. f = (end - 1) \div Pow2[j]
  <2>1. end - 1 \in a .. mid - 1
    BY <1>1, <1>2
  <2> HIDE DEF j, f
  <2>2. (end - 1) \div Pow2[j] = f
    BY <1>1, <2>1, SpanPositions
  <2> QED BY <2>2
<1>7. NodeHash(D, l, g) = HashInternal(NodeHash(D, j, f), h)
  <2>1. NodeHash(D, l, g) = MTHOf(D, a, b) /\ NodeHash(D, j, f) = MTHOf(D, a, mid)
    BY <1>1, SpanHash
  <2>2. MTHOf(D, a, b) = HashInternal(MTHOf(D, a, mid), h)
    BY SpanSplits
  <2> QED BY <2>1, <2>2
<1> HIDE DEF j, f, t, h
<1>8. NodeHash(D, j + Rise(f, t), RiseTo(f, t))
           = IF IsRight(f, t) THEN HashInternal(h, NodeHash(D, j, f))
             ELSE HashInternal(NodeHash(D, j, f), h)
  BY <1>2, <1>5, <1>7
<1>9. RebuildsTo(longer, D, start, end, j + Rise(f, t))
  <2>1. RebuildsTo(q, D, start, end, j)
    BY DEF j
  <2>2. t = LastAt(Len(D), j) /\ t # 0 /\ longer = Append(q, h)
    BY <1>5 DEF t, h
  <2> QED BY <1>1, <1>4, <1>6, <1>8, <2>1, <2>2, OneMorePart
<1> QED BY <1>2, <1>5, <1>9

\* It is on the right: the left one's hash follows.
LEMMA RebuildsOnRight ==
  ASSUME NEW D, Len(D) \in Nat \ {0}, NEW start, NEW end, IsValidSubtree(start, end),
         end <= Len(D), NEW a, NEW b, NEW l, NEW g, SpansNode(a, b, Len(D), l, g), b - a > 1,
         NEW mid, mid = a + Split(b - a), mid < end, end <= b,
         NEW j \in 0 .. l - 1, SpansNode(mid, b, Len(D), j, (2 * g + 1) * Pow2[(l - 1) - j]),
         j = l - 1 \/ b = Len(D),
         NEW q, RebuildsTo(q, D, start, end, j),
         NEW longer, longer = Append(q, MTHOf(D, a, mid))
  PROVE  RebuildsTo(longer, D, start, end, l)
<1> DEFINE n == Len(D)
           f == (2 * g + 1) * Pow2[(l - 1) - j]
           t == LastAt(n, j)
           h == MTHOf(D, a, mid)
<1>1. /\ mid \in Nat /\ a < mid /\ mid < b /\ b <= n
      /\ SpansNode(a, mid, n, l - 1, 2 * g)
  BY LeftChild
<1>2. l \in Nat /\ g \in Nat /\ a \in Nat /\ b \in Nat /\ j \in Nat /\ end \in Nat /\ start \in Nat
  BY DEF SpansNode, IsValidSubtree
<1>4. h # Unavailable
  BY <1>1, SpanExists
<1>5. t \in Nat \ {0} /\ IsRight(f, t) /\ j + Rise(f, t) = l /\ RiseTo(f, t) = g
  <2>1. /\ SpansNode(a, b, n, l, g) /\ b - a > 1 /\ n \in Nat
        /\ SpansNode(a + Split(b - a), b, n, j, f)
        /\ f = (2 * g + 1) * Pow2[(l - 1) - j]
        /\ j \in 0 .. l - 1 /\ (j = l - 1 \/ b = n)
    OBVIOUS
  <2> HIDE DEF n, f
  <2>2. LET u == LastAt(n, j)
        IN  /\ u \in Nat \ {0} /\ f \in 0 .. u /\ IsRight(f, u)
            /\ j + Rise(f, u) = l /\ RiseTo(f, u) = g
    BY <2>1, RiseFromRight
  <2> QED BY <2>2
<1>6. f = (end - 1) \div Pow2[j]
  <2>1. end - 1 \in mid .. b - 1
    BY <1>1, <1>2
  <2>2. SpansNode(mid, b, n, j, f)
    OBVIOUS
  <2> HIDE DEF f
  <2>3. (end - 1) \div Pow2[j] = f
    BY <2>1, <2>2, SpanPositions
  <2> QED BY <2>3
<1>7. NodeHash(D, l, g) = HashInternal(h, NodeHash(D, j, f))
  <2>0. SpansNode(mid, b, n, j, f)
    OBVIOUS
  <2> HIDE DEF f
  <2>1. NodeHash(D, l, g) = MTHOf(D, a, b) /\ NodeHash(D, j, f) = MTHOf(D, mid, b)
    BY <2>0, SpanHash
  <2>2. MTHOf(D, a, b) = HashInternal(h, MTHOf(D, mid, b))
    BY SpanSplits
  <2> QED BY <2>1, <2>2
<1> HIDE DEF f, t, h
<1>8. NodeHash(D, j + Rise(f, t), RiseTo(f, t))
           = IF IsRight(f, t) THEN HashInternal(h, NodeHash(D, j, f))
             ELSE HashInternal(NodeHash(D, j, f), h)
  BY <1>5, <1>7
<1>9. RebuildsTo(longer, D, start, end, j + Rise(f, t))
  <2>2. t = LastAt(Len(D), j) /\ t # 0 /\ longer = Append(q, h)
    BY <1>5 DEF t, h
  <2> QED BY <1>2, <1>4, <1>6, <1>8, <2>2, OneMorePart
<1> QED BY <1>5, <1>9

\* Every part of a consistency proof leads the verifier to the part's node.
LEMMA PartRebuilds ==
  ASSUME NEW D, Len(D) \in Nat \ {0}, NEW tree, NEW start, NEW end, IsValidSubtree(start, end),
         end <= Len(D), ComputesAround(tree, D, start, end),
         NEW f, ListsSubproofs(f, tree, end, Len(D))
  PROVE  \A m \in Nat : \A i \in PartsOf(Len(D)) : \A l, g :
           IsPartOf(i, Len(D), start, end, l, g) /\ i.top - i.base = m =>
             RebuildsTo(f[i], D, start, end, l)
<1> DEFINE n == Len(D)
           Good(i, l) == RebuildsTo(f[i], D, start, end, l)
           S == { m \in Nat : \A i \in PartsOf(n) : \A l, g :
                    IsPartOf(i, n, start, end, l, g) /\ i.top - i.base = m => Good(i, l) }
<1>0. n \in Nat \ {0} /\ start \in Nat /\ end \in Nat /\ start < end
  BY DEF IsValidSubtree
<1>1. ASSUME NEW m \in Nat, \A k \in 0 .. m - 1 : k \in S PROVE m \in S
  <2> SUFFICES ASSUME NEW i \in PartsOf(n), NEW l, NEW g,
                      IsPartOf(i, n, start, end, l, g), i.top - i.base = m
               PROVE  Good(i, l)
    OBVIOUS
  <2> DEFINE a == i.base
             b == i.top
             mid == MiddleOf(i)
             q == f[i]
  <2>1. /\ SpansNode(a, b, n, l, g) /\ a < end /\ end <= b
        /\ i.known => i.s = start /\ a <= start
        /\ ~i.known => i.s = a /\ start < a /\ end < n /\ (end < b \/ \E h \in Nat : g = 2 * h)
    BY DEF IsPartOf
  <2>2. a \in 0 .. n /\ b \in 0 .. n /\ a < b /\ l \in Nat /\ g \in Nat /\ i.known \in BOOLEAN
    BY <2>1 DEF SpansNode, PartsOf
  <2>3. q = SubproofBody(tree, end, f, i)
    BY DEF ListsSubproofs
  <2> HIDE DEF q, a, b
  <2>4. CASE i.s = a /\ end = b
    <3>1. q = IF i.known THEN <<>> ELSE << SubtreeHash(tree, a, b) >>
      BY <2>3, <2>4 DEF SubproofBody, a, b
    <3>2. CASE i.known
      <4>1. SpansNode(start, end, n, l, g) /\ q = <<>>
        BY <2>1, <2>4, <3>1, <3>2
      <4>2. RebuildsTo(<<>>, D, start, end, l)
        BY <4>1, RebuildsNode
      <4> QED BY <4>1, <4>2 DEF q
    <3>3. CASE ~i.known
      <4>1. PICK h \in Nat : g = 2 * h
        BY <1>0, <2>1, <2>4, <3>3
      <4>2. SubtreeHash(tree, a, b) = MTHOf(D, a, b)
        BY <2>1, <2>2 DEF ComputesAround
      <4>3. q = << MTHOf(D, a, end) >> /\ SpansNode(a, end, n, l, 2 * h) /\ start < a /\ end < n
        BY <2>1, <2>4, <3>1, <3>3, <4>1, <4>2
      <4>4. RebuildsTo(q, D, start, end, l)
        BY <4>3, RebuildsPart
      <4> QED BY <4>4 DEF q
    <3> QED BY <3>2, <3>3
  <2>5. CASE ~(i.s = a /\ end = b)
    <3>0. b - a > 1
      <4> SUFFICES ASSUME ~(b - a > 1) PROVE FALSE
        OBVIOUS
      <4>1. b = a + 1
        BY <2>2
      <4>2. end = b /\ (a <= start => start = a)
        BY <1>0, <2>1, <2>2, <4>1
      <4> QED BY <2>1, <2>2, <2>5, <4>2
    <3>1. mid = a + Split(b - a)
      BY DEF MiddleOf, a, b
    <3>2. /\ mid \in 0 .. n /\ a < mid /\ mid < b
          /\ LeftOf(i) = [s |-> i.s, base |-> a, top |-> mid, known |-> i.known]
          /\ RightOf(i) = [s |-> i.s, base |-> mid, top |-> b, known |-> i.known]
          /\ RestOf(i) = [s |-> mid, base |-> mid, top |-> b, known |-> FALSE]
          /\ LeftOf(i) \in PartsOf(n) /\ RightOf(i) \in PartsOf(n) /\ RestOf(i) \in PartsOf(n)
      <4>1. i.top - i.base > 1 /\ n \in Nat
        BY <3>0 DEF a, b
      <4> HIDE DEF n
      <4> QED BY <4>1, PartsInside DEF a, b
    <3>3. /\ l - 1 \in Nat
          /\ SpansNode(a, mid, n, l - 1, 2 * g)
      <4>1. n \in Nat
        OBVIOUS
      <4> HIDE DEF mid, n
      <4> QED BY <2>1, <3>0, <3>1, <4>1, LeftChild
    <3>4. PICK j \in 0 .. l - 1 :
            /\ SpansNode(mid, b, n, j, (2 * g + 1) * Pow2[(l - 1) - j])
            /\ j = l - 1 \/ b = n
      <4>1. SpansNode(a, b, n, l, g) /\ b - a > 1 /\ n \in Nat
        BY <2>1, <3>0
      <4> HIDE DEF mid, n
      <4>2. \E j \in 0 .. l - 1 :
              /\ SpansNode(a + Split(b - a), b, n, j, (2 * g + 1) * Pow2[(l - 1) - j])
              /\ j = l - 1 \/ b = n
        BY <4>1, RightChild
      <4> QED BY <3>1, <4>2
    <3> DEFINE h == (2 * g + 1) * Pow2[(l - 1) - j]
    <3>5. q = IF end <= mid THEN Append(f[LeftOf(i)], SubtreeHash(tree, mid, b))
              ELSE IF mid <= i.s THEN Append(f[RightOf(i)], SubtreeHash(tree, a, mid))
              ELSE Append(f[RestOf(i)], SubtreeHash(tree, a, mid))
      <4>1. ~(b - a <= 1)
        BY <2>2, <3>0
      <4> QED BY <2>3, <2>5, <4>1 DEF SubproofBody, a, b
    <3> HIDE DEF mid, h
    <3>6. end <= mid => SubtreeHash(tree, mid, b) = MTHOf(D, mid, b)
      <4>1. SpansNode(mid, b, n, j, h) /\ end <= b
        BY <2>1, <3>4 DEF h
      <4> QED BY <2>2, <3>2, <4>1 DEF ComputesAround
    <3>7. ASSUME NEW r, r \in PartsOf(n), NEW k, NEW w, IsPartOf(r, n, start, end, k, w),
                 r.top - r.base < m
          PROVE  RebuildsTo(f[r], D, start, end, k)
      <4>1. r.top - r.base \in 0 .. m - 1
        <5>1. r.base \in Nat /\ r.top \in Nat /\ r.base < r.top
          BY <3>7 DEF IsPartOf, SpansNode
        <5> QED BY <3>7, <5>1
      <4>2. r.top - r.base \in S
        BY <1>1, <4>1
      <4> HIDE DEF n
      <4> QED BY <3>7, <4>2
    <3>8. b - a = m
      BY DEF a, b
    <3> HIDE DEF S, Good
    <3>9. CASE end <= mid
      <4> DEFINE r == LeftOf(i)
      <4>1. r.s = i.s /\ r.base = a /\ r.top = mid /\ r.known = i.known /\ r \in PartsOf(n)
        BY <3>2
      <4> HIDE DEF r
      <4>2. IsPartOf(r, n, start, end, l - 1, 2 * g)
        BY <2>1, <2>2, <3>3, <3>9, <4>1 DEF IsPartOf
      <4>3. r.top - r.base < m
        BY <2>2, <3>2, <3>8, <4>1
      <4>4. RebuildsTo(f[r], D, start, end, l - 1)
        BY <3>7, <4>1, <4>2, <4>3
      <4>5. q = Append(f[r], MTHOf(D, mid, b))
        BY <3>5, <3>6, <3>9 DEF r
      <4>6. RebuildsTo(q, D, start, end, l)
        BY <2>1, <3>0, <3>1, <3>9, <4>4, <4>5, RebuildsOnLeft
      <4> QED BY <4>6 DEF Good, q
    <3>10. CASE mid < end /\ mid <= i.s
      <4> DEFINE r == RightOf(i)
      <4>1. r.s = i.s /\ r.base = mid /\ r.top = b /\ r.known = i.known /\ r \in PartsOf(n)
        BY <3>2
      <4> HIDE DEF r
      <4>2. i.known /\ mid <= start
        BY <2>1, <2>2, <3>2, <3>10
      <4>3. IsPartOf(r, n, start, end, j, h)
        BY <2>1, <3>4, <3>10, <4>1, <4>2 DEF IsPartOf, h
      <4>4. r.top - r.base < m
        BY <2>2, <3>2, <3>8, <4>1
      <4>5. RebuildsTo(f[r], D, start, end, j)
        BY <3>7, <4>1, <4>3, <4>4
      <4>6. SubtreeHash(tree, a, mid) = MTHOf(D, a, mid)
        <5>1. start # 0
          BY <1>0, <2>2, <3>2, <4>2
        <5> QED BY <2>2, <3>2, <3>3, <5>1 DEF ComputesAround
      <4>7. q = Append(f[r], MTHOf(D, a, mid))
        <5>1. ~(end <= mid)
          BY <1>0, <3>2, <3>10
        <5> QED BY <3>5, <3>10, <4>6, <5>1 DEF r
      <4>8. RebuildsTo(q, D, start, end, l)
        BY <2>1, <3>0, <3>1, <3>4, <3>10, <4>5, <4>7, RebuildsOnRight
      <4> QED BY <4>8 DEF Good, q
    <3>11. CASE mid < end /\ ~(mid <= i.s)
      <4> DEFINE r == RestOf(i)
      <4>1. r.s = mid /\ r.base = mid /\ r.top = b /\ r.known = FALSE /\ r \in PartsOf(n)
        BY <3>2
      <4> HIDE DEF r
      <4>2. start < mid /\ i.s = a
        <5>1. CASE i.known
          <6>1. start < mid /\ a <= start /\ i.s = start
            BY <1>0, <2>1, <3>2, <3>11, <5>1
          <6>2. start = a
            <7>1. n \in Nat
              OBVIOUS
            <7> HIDE DEF n
            <7> QED BY <2>1, <3>0, <3>1, <3>11, <6>1, <7>1, StraddlesFromStart
          <6> QED BY <6>1, <6>2
        <5>2. CASE ~i.known
          BY <1>0, <2>1, <2>2, <3>2, <5>2
        <5> QED BY <2>2, <5>1, <5>2
      <4>3. end < b
        BY <1>0, <2>1, <2>2, <2>5, <4>2
      <4>4. IsPartOf(r, n, start, end, j, h)
        <5>1. end < n
          BY <1>0, <2>2, <4>3
        <5> QED BY <2>1, <3>4, <3>11, <4>1, <4>2, <4>3, <5>1 DEF IsPartOf, h
      <4>5. r.top - r.base < m
        BY <2>2, <3>2, <3>8, <4>1
      <4>6. RebuildsTo(f[r], D, start, end, j)
        BY <3>7, <4>1, <4>4, <4>5
      <4>7. SubtreeHash(tree, a, mid) = MTHOf(D, a, mid)
        <5>1. mid - a > 1
          <6> DEFINE P == Pow2[l - 1]
          <6>1. P \in Nat /\ Split(b - a) = P /\ b - a <= 2 * P /\ BitCeil(b - a) = l
            <7>1. b - a \in Nat /\ l = BitCeil(b - a)
              BY <2>1, <2>2 DEF SpansNode
            <7>2. Split(b - a) = Pow2[l - 1] /\ Pow2[l - 1] \in Nat \ {0}
                  /\ Pow2[l] = 2 * Pow2[l - 1] /\ b - a <= Pow2[l]
              BY <3>0, <7>1, SplitOfNode
            <7> QED BY <7>1, <7>2
          <6> HIDE DEF P
          <6> QED BY <1>0, <2>2, <3>1, <3>11, <4>3, <6>1
        <5> QED BY <2>2, <3>2, <3>3, <5>1 DEF ComputesAround
      <4>8. q = Append(f[r], MTHOf(D, a, mid))
        <5>1. ~(end <= mid)
          BY <1>0, <3>2, <3>11
        <5> QED BY <3>5, <3>11, <4>7, <5>1 DEF r
      <4>9. RebuildsTo(q, D, start, end, l)
        BY <2>1, <3>0, <3>1, <3>4, <3>11, <4>6, <4>8, RebuildsOnRight
      <4> QED BY <4>9 DEF Good, q
    <3>12. end <= mid \/ mid < end
      BY <1>0, <3>2
    <3> QED BY <3>9, <3>10, <3>11, <3>12
  <2> QED BY <2>4, <2>5
<1> HIDE DEF S
<1>2. \A m \in Nat : m \in S
  BY <1>1, StrongInduction
<1>3. ASSUME NEW m \in Nat, NEW i \in PartsOf(n), NEW l, NEW g,
             IsPartOf(i, n, start, end, l, g), i.top - i.base = m
      PROVE  Good(i, l)
  <2>1. m \in S
    BY <1>2
  <2> HIDE DEF Good
  <2> QED BY <1>3, <2>1 DEF S
<1> QED BY <1>3

\* The generated consistency proof of a subtree is served, and leads the
\* verifier to the subtree's hash and to the root.
LEMMA ConsistencyComplete ==
  ASSUME NEW D, Len(D) \in Nat \ {0}, NEW tree, NEW start, NEW end, IsValidSubtree(start, end),
         end <= Len(D), ComputesAround(tree, D, start, end),
         NEW proof, proof = ConsistencyProof(tree, start, end, Len(D)),
         NEW from, from = ConsistencyStart(start, end, Len(D))
  PROVE  /\ Served(proof)
         /\ from.fn = from.sn \/ proof # <<>>
         /\ ConsistencyMatches(start, end, Len(D), MTHOf(D, start, end), proof, MTH(D))
<1> DEFINE n == Len(D)
           l == BitCeil(n)
           node == MTHOf(D, start, end)
           all == [s |-> start, base |-> 0, top |-> n, known |-> TRUE]
           rest == OtherHashes(from, proof)
           r == Len(rest)
<1>0. n \in Nat \ {0} /\ start \in Nat /\ end \in Nat /\ start < end /\ start \in 0 .. n
  BY DEF IsValidSubtree
<1>1. PICK f : ListsSubproofs(f, tree, end, n) /\ proof = f[all]
  BY <1>0, ConsistencyProofIs
<1>2. l \in Nat /\ n <= Pow2[l] /\ Pow2[l] \in Nat
  <2>1. l \in Nat /\ n <= Pow2[l]
    BY <1>0, BitCeilDef
  <2> QED BY <2>1, Pow2Positive
<1>3. SpansNode(0, n, n, l, 0)
  <2> DEFINE P == Pow2[l]
  <2>1. 0 * P = 0 /\ ~(0 + P < n) /\ n - 0 = n
    BY <1>0, <1>2
  <2> QED BY <1>0, <1>2, <2>1 DEF SpansNode
<1> HIDE DEF l
<1>4. RebuildsTo(proof, D, start, end, l)
  <2>1. all.s = start /\ all.base = 0 /\ all.top = n /\ all.known = TRUE /\ all \in PartsOf(n)
    BY <1>0 DEF PartsOf
  <2>2. \A m \in Nat : \A i \in PartsOf(Len(D)) : \A k, g :
           IsPartOf(i, Len(D), start, end, k, g) /\ i.top - i.base = m =>
             RebuildsTo(f[i], D, start, end, k)
    BY <1>1, PartRebuilds
  <2> HIDE DEF all
  <2>3. IsPartOf(all, n, start, end, l, 0)
    BY <1>0, <1>3, <2>1 DEF IsPartOf
  <2>4. all.top - all.base = n /\ n \in Nat
    BY <1>0, <2>1
  <2>5. RebuildsTo(f[all], D, start, end, l)
    BY <2>1, <2>2, <2>3, <2>4
  <2> QED BY <1>1, <2>5
<1>5. /\ Len(proof) \in Nat /\ ListOf(proof, Len(proof))
      /\ \A i \in 1 .. Len(proof) : proof[i] # Unavailable
      /\ from.fn = from.sn \/ Len(proof) > 0
      /\ \A at : IsConsistencyRun(at, from, FirstHash(from, node, proof), rest) =>
           HasRebuilt(D, start, end, at[r], l) /\ at[r].sr = NodeHash(D, l, at[r].sn)
  BY <1>4 DEF RebuildsTo
<1>6. Served(proof)
  <2>1. DOMAIN proof = 1 .. Len(proof)
    BY <1>5, ListIsSeq
  <2> QED BY <1>5, <2>1 DEF Served
<1>7. from.fn = from.sn \/ proof # <<>>
  <2>1. Len(<<>>) = 0
    OBVIOUS
  <2> QED BY <1>5, <2>1
<1>8. r \in Nat
  <2>1. CASE from.fn = from.sn
    BY <1>5, <2>1 DEF OtherHashes
  <2>2. CASE from.fn # from.sn
    <3> DEFINE p == Len(proof)
               X == { proof[i] : i \in 1 .. p }
    <3>1. p \in Nat /\ p > 0 /\ proof # <<>> /\ rest = Tail(proof)
      BY <1>5, <1>7, <2>2 DEF OtherHashes
    <3>2. proof \in Seq(X)
      BY <1>5, ListIsSeq
    <3> HIDE DEF X
    <3>3. Len(Tail(proof)) = p - 1
      BY <3>1, <3>2, HeadTailProperties
    <3> QED BY <3>1, <3>3
  <2> QED BY <2>1, <2>2
<1>9. LastAt(n, l) = 0
  <2> DEFINE P == Pow2[l]
             y == n - 1
  <2>1. P \in Nat \ {0} /\ y \in Nat /\ y < P
    BY <1>0, <1>2
  <2> HIDE DEF P, y
  <2>2. y \div P = 0
    BY <2>1, DivZero
  <2> QED BY <2>2 DEF LastAt, P, y
<1>10. PICK at : /\ IsConsistencyRun(at, from, FirstHash(from, node, proof), rest)
                 /\ ConsistencyMatches(start, end, n, node, proof, MTH(D))
                      <=> at[r].tn = 0 /\ at[r].fr = node /\ at[r].sr = MTH(D)
  BY <1>8, ConsistencyLoop
<1> DEFINE last == at[r]
<1>11. HasRebuilt(D, start, end, last, l) /\ last.sr = NodeHash(D, l, last.sn)
  BY <1>5, <1>10
<1> HIDE DEF last
<1>12. last.tn = 0 /\ last.sn = 0 /\ last.fr = PartFrom(D, start, end, l)
       /\ last.fn = start \div Pow2[l] /\ last.sn = (end - 1) \div Pow2[l]
  <2>1. /\ last.tn = LastAt(n, l) /\ last.sn \in 0 .. LastAt(n, l)
        /\ last.fr = PartFrom(D, start, end, l)
        /\ last.fn = start \div Pow2[l] /\ last.sn = (end - 1) \div Pow2[l]
    BY <1>11 DEF HasRebuilt, InPlace, AtSubtree
  <2> QED BY <1>9, <2>1
<1>13. last.sr = MTH(D)
  <2>1. NodeHash(D, l, 0) = MTH(D)
    BY <1>0, <1>2, <1>9, RootIsNode
  <2> QED BY <1>11, <1>12, <2>1
<1>14. last.fr = node
  <2>1. ~(l < BitCeil(end - start))
    <3> DEFINE w == BitCeil(end - start)
    <3>1. /\ w \in Nat
          /\ \A k \in 0 .. w - 1 : start \div Pow2[k] < (end - 1) \div Pow2[k]
      BY SubtreePlace
    <3> HIDE DEF w
    <3> SUFFICES ASSUME l < w PROVE FALSE
      BY DEF w
    <3>2. start \div Pow2[l] < 0
      BY <1>2, <1>12, <3>1
    <3>3. Pow2[l] \in Nat \ {0}
      BY <1>2, Pow2Positive
    <3>4. start \div Pow2[l] \in Nat
      BY <1>0, <3>3, DivBounds
    <3> QED BY <3>2, <3>4
  <2> QED BY <1>12, <2>1 DEF PartFrom
<1> QED BY <1>6, <1>7, <1>10, <1>12, <1>13, <1>14 DEF last

-----------------------------------------------------------------------------
(* The segments of a list *)

\* E is the part of D after the first a entries, as long as it is.
IsSegment(E, D, a) ==
  /\ Len(E) \in Nat /\ a \in Nat
  /\ a + Len(E) <= Len(D)
  /\ \A i \in 1 .. Len(E) : E[i] = D[a + i]

\* The hashes of a segment are those of its place in the whole.
LEMMA SegmentHash ==
  ASSUME NEW D, Len(D) \in Nat, NEW E, NEW a, IsSegment(E, D, a),
         NEW x \in Nat, NEW y \in Nat, x < y, y <= Len(E)
  PROVE  MTHOf(E, x, y) = MTHOf(D, a + x, a + y) /\ MTHOf(E, x, y) # Unavailable
<1> DEFINE m == y - x
           c == a + x
<1>1. /\ m \in Nat \ {0} /\ c \in Nat /\ x + m = y /\ c + m = a + y
      /\ x + m <= Len(E) /\ c + m <= Len(D)
      /\ Len(E) \in Nat /\ a \in Nat
  BY DEF IsSegment
<1>2. \A i \in 1 .. m : E[x + i] = D[c + i]
  <2> TAKE i \in 1 .. m
  <2>1. x + i \in 1 .. Len(E) /\ a + (x + i) = c + i
    BY <1>1
  <2> QED BY <2>1 DEF IsSegment
<1> HIDE DEF m, c
<1>3. HashesAgree(E, x, D, c, m)
  BY <1>1, MTHAgree
<1>4. MTHOf(E, x, x + m) = MTHOf(D, c, c + m) /\ MTHOf(E, x, x + m) # Unavailable
  BY <1>2, <1>3 DEF HashesAgree
<1> QED BY <1>1, <1>4 DEF c

\* The beginning of a list is a segment of it.
LEMMA SegmentOfStart ==
  ASSUME NEW D, Len(D) \in Nat, NEW A, IsSegment(A, D, 0), NEW x \in Nat, NEW y \in Nat,
         x < y, y <= Len(A)
  PROVE  MTHOf(A, x, y) = MTHOf(D, x, y) /\ MTHOf(A, x, y) # Unavailable
<1>1. MTHOf(A, x, y) = MTHOf(D, 0 + x, 0 + y) /\ MTHOf(A, x, y) # Unavailable
  BY SegmentHash
<1>2. 0 + x = x /\ 0 + y = y
  OBVIOUS
<1> QED BY <1>1, <1>2

\* A node of the tree over a subtree's entries is a subtree of the log.
LEMMA SpanInSubtree ==
  ASSUME NEW start, NEW end, IsValidSubtree(start, end),
         NEW a, NEW b, NEW l, NEW g, SpansNode(a, b, end - start, l, g)
  PROVE  IsValidSubtree(start + a, start + b) /\ start + b <= end
<1> DEFINE n == end - start
           k == BitCeil(n)
           P == Pow2[l]
           s == start + a
           e == start + b
<1>1. start \in Nat /\ end \in Nat /\ n \in Nat \ {0}
  BY DEF IsValidSubtree
<1>2. /\ l \in Nat /\ g \in Nat /\ a \in Nat /\ b \in Nat /\ a < b /\ l = BitCeil(b - a)
      /\ a = g * P /\ b = IF a + P < n THEN a + P ELSE n
  BY DEF SpansNode
<1>3. P \in Nat \ {0}
  BY <1>2, Pow2Positive
<1>4. b <= n
  <2> HIDE DEF P, n
  <2> QED BY <1>1, <1>2, <1>3
<1>5. k \in Nat /\ n <= Pow2[k] /\ start = (start \div Pow2[k]) * Pow2[k] /\ start \div Pow2[k] \in Nat
  <2>1. k \in Nat /\ n <= Pow2[k]
    BY <1>1, BitCeilDef
  <2>2. k \in 0 .. end - 1 /\ \A j \in 0 .. k : start = (start \div Pow2[j]) * Pow2[j]
    BY SubtreePlace
  <2>3. Pow2[k] \in Nat \ {0}
    BY <2>1, Pow2Positive
  <2>4. start \div Pow2[k] \in Nat
    BY <1>1, <2>3
  <2> HIDE DEF k
  <2> QED BY <2>1, <2>2, <2>4
<1>6. l <= k
  <2> SUFFICES ASSUME k < l PROVE FALSE
    BY <1>2, <1>5
  <2>1. b - a \in Nat \ {0}
    BY <1>2
  <2>2. Pow2[k] < b - a
    BY <1>2, <1>5, <2>1, BitCeilDef
  <2>3. Pow2[k] \in Nat
    BY <1>5, Pow2Positive
  <2> HIDE DEF n, k
  <2> QED BY <1>1, <1>2, <1>4, <1>5, <2>2, <2>3
<1>7. start % P = 0 /\ start = (start \div P) * P /\ start \div P \in Nat
  <2> HIDE DEF k
  <2>1. \A j \in 0 .. BitCeil(end - start) : start = (start \div Pow2[j]) * Pow2[j]
    BY SubtreePlace
  <2>2. start = (start \div P) * P
    BY <1>2, <1>5, <1>6, <2>1 DEF k
  <2> HIDE DEF P
  <2>3. start \div P \in Nat /\ start % P = start - P * (start \div P)
    BY <1>1, <1>3, DivBounds
  <2> DEFINE q == start \div P
  <2>4. q * P = P * q
    BY <1>3, <2>3
  <2> QED BY <1>1, <2>2, <2>3, <2>4
<1>8. s \in Nat /\ e \in Nat /\ s < e /\ e - s = b - a /\ e <= end
  <2> HIDE DEF P
  <2> QED BY <1>1, <1>2, <1>4
<1>9. s % P = 0
  <2> DEFINE q == start \div P
             c == q + g
  <2> HIDE DEF P, q
  <2>1. start = q * P /\ q \in Nat
    BY <1>7 DEF q
  <2>2. c \in Nat /\ P * c = s
    <3>1. P * (q + g) = q * P + g * P
      BY <1>2, <1>3, <2>1
    <3> QED BY <1>2, <2>1, <3>1
  <2>3. P * c <= s /\ s < P * c + P /\ s - P * c = 0
    BY <1>3, <1>8, <2>2
  <2> HIDE DEF s, c
  <2> QED BY <1>3, <1>8, <2>2, <2>3, DivUnique
<1>10. IsValidSubtree(s, e)
  <2> HIDE DEF s, e
  <2> QED BY <1>2, <1>8, <1>9 DEF IsValidSubtree, P
<1> QED BY <1>8, <1>10

-----------------------------------------------------------------------------
(* The generated proofs, as they are verified *)

\* Every part of a list is one.
LEMMA SegmentExists ==
  ASSUME NEW D, Len(D) \in Nat, NEW a \in Nat, NEW m \in Nat, a + m <= Len(D)
  PROVE  \E E : IsSegment(E, D, a) /\ Len(E) = m
<1> DEFINE E == [i \in 1 .. m |-> D[a + i]]
<1>1. Len(E) = m
  <2>1. ListOf(E, m)
    BY DEF ListOf
  <2> HIDE DEF E
  <2> QED BY <2>1, ListIsSeq
<1>2. \A i \in 1 .. Len(E) : E[i] = D[a + i]
  BY <1>1
<1> HIDE DEF E
<1>3. IsSegment(E, D, a)
  BY <1>1, <1>2 DEF IsSegment
<1> QED BY <1>1, <1>3

\* The hash of all of a segment.
LEMMA HashOfSegment ==
  ASSUME NEW D, Len(D) \in Nat, NEW E, NEW a, IsSegment(E, D, a), Len(E) > 0
  PROVE  MTH(E) = MTHOf(D, a, a + Len(E)) /\ MTH(E) # Unavailable
<1>1. a \in Nat /\ Len(E) \in Nat
  BY DEF IsSegment
<1>2. MTHOf(E, 0, Len(E)) = MTHOf(D, a + 0, a + Len(E)) /\ MTHOf(E, 0, Len(E)) # Unavailable
  BY <1>1, SegmentHash
<1>3. a + 0 = a
  BY <1>1
<1> QED BY <1>2, <1>3 DEF MTH

\* The hash of a segment of a sequence, as a sequence of its own.
LEMMA HashOfSubSeq ==
  ASSUME NEW S, NEW D \in Seq(S), NEW s \in Nat, NEW e \in Nat, s < e, e <= Len(D),
         NEW E, E = SubSeq(D, s + 1, e)
  PROVE  MTH(E) = MTHOf(D, s, e) /\ MTH(E) # Unavailable
<1> DEFINE m == e - s
           a == s + 1
<1>1. m \in Nat \ {0} /\ s + m = e /\ Len(D) \in Nat
  OBVIOUS
<1>2. Len(E) = m /\ \A i \in 1 .. m : E[i] = D[s + i]
  <2>1. \A i \in a .. e : D[i] \in S
    OBVIOUS
  <2>2. /\ Len(SubSeq(D, a, e)) = IF a <= e THEN e - a + 1 ELSE 0
        /\ \A i \in 1 .. e - a + 1 : SubSeq(D, a, e)[i] = D[a + i - 1]
    BY <1>1, <2>1, SubSeqProperties
  <2>3. e - a + 1 = m /\ a <= e /\ \A i \in 1 .. m : a + i - 1 = s + i
    BY <1>1
  <2> QED BY <2>2, <2>3
<1> HIDE DEF m
<1>3. IsSegment(E, D, s) /\ Len(E) > 0
  <2>1. Len(E) \in Nat /\ Len(E) > 0 /\ s + Len(E) <= Len(D)
    BY <1>1, <1>2
  <2> QED BY <1>2, <2>1 DEF IsSegment
<1>4. MTH(E) = MTHOf(D, s, s + Len(E)) /\ MTH(E) # Unavailable
  BY <1>1, <1>3, HashOfSegment
<1> QED BY <1>1, <1>2, <1>4

\* All entries up to one are a subtree.
LEMMA CheckpointIsSubtree ==
  ASSUME NEW n \in Nat \ {0}
  PROVE  IsValidSubtree(0, n)
<1> DEFINE P == Pow2[BitCeil(n - 0)]
<1>1. P \in Nat \ {0}
  <2>1. n - 0 \in Nat \ {0}
    OBVIOUS
  <2>2. BitCeil(n - 0) \in Nat
    BY <2>1, BitCeilDef
  <2> QED BY <2>2, Pow2Positive
<1> HIDE DEF P
<1>2. 0 % P = 0
  BY <1>1, DivUnique
<1> QED BY <1>2 DEF IsValidSubtree, P

\* The inclusion proof in a subtree all of whose leaf hashes are there.
LEMMA IncludedComplete ==
  ASSUME NEW D, Len(D) \in Nat, NEW tree, IsTreeOf(tree, D),
         NEW start, NEW end, IsValidSubtree(start, end), end <= Len(D),
         \A b \in start + 1 .. end : tree.leaves[b] # Unavailable,
         NEW index \in start .. end - 1,
         NEW proof, proof = InclusionProof(tree, index, start, end)
  PROVE  /\ Served(proof)
         /\ VerifyInclusion(index, start, end, HashLeaf(D[index + 1]), proof, MTHOf(D, start, end))
<1> DEFINE m == end - start
           x == index - start
<1>1. /\ start \in Nat /\ end \in Nat /\ m \in Nat \ {0} /\ start + m = end
      /\ x \in 0 .. m - 1 /\ start + x = index /\ start + (x + 1) = index + 1
  BY DEF IsValidSubtree
<1>2. PICK E : IsSegment(E, D, start) /\ Len(E) = m
  BY <1>1, SegmentExists
<1>3. ComputesNodes(tree, E, start)
  <2> SUFFICES ASSUME NEW a \in 0 .. Len(E), NEW b \in 0 .. Len(E), NEW l, NEW g,
                      SpansNode(a, b, Len(E), l, g)
               PROVE  SubtreeHash(tree, start + a, start + b) = MTHOf(E, a, b)
    BY DEF ComputesNodes
  <2>1. a \in Nat /\ b \in Nat /\ a < b /\ SpansNode(a, b, end - start, l, g)
    BY <1>2 DEF SpansNode
  <2>2. IsValidSubtree(start + a, start + b) /\ start + b <= end
    BY <2>1, SpanInSubtree
  <2>3. start + b \in start + 1 .. end /\ start + b <= Len(D) /\ start + a \in Nat /\ start + b \in Nat
    BY <1>1, <2>1, <2>2
  <2>4. IsStored(tree, start + a, start + b)
    BY <2>3 DEF IsStored
  <2>5. SubtreeHash(tree, start + a, start + b) = MTHOf(D, start + a, start + b)
    BY <2>2, <2>3, <2>4, SubtreeHashValue
  <2>6. MTHOf(E, a, b) = MTHOf(D, start + a, start + b)
    BY <1>2, <2>1, SegmentHash
  <2> QED BY <2>5, <2>6
<1>4. /\ Served(proof)
      /\ EvaluateInclusion(index, start, end, HashLeaf(E[x + 1]), proof) = MTH(E)
  <2>1. proof = InclusionProof(tree, start + x, start, start + Len(E)) /\ Len(E) \in Nat \ {0}
    BY <1>1, <1>2
  <2>2. /\ Served(proof)
        /\ EvaluateInclusion(start + x, start, start + Len(E), HashLeaf(E[x + 1]), proof) = MTH(E)
    <3>1. x \in 0 .. Len(E) - 1 /\ start \in Nat
      BY <1>1, <1>2
    <3> HIDE DEF x
    <3> QED BY <1>3, <2>1, <3>1, InclusionComplete
  <2> QED BY <1>1, <1>2, <2>2
<1>5. MTH(E) = MTHOf(D, start, end) /\ MTH(E) # Rejected
  <2>1. Len(E) > 0
    BY <1>1, <1>2
  <2>2. MTH(E) = MTHOf(D, start, start + Len(E)) /\ MTH(E) # Unavailable
    BY <1>2, <2>1, HashOfSegment
  <2> QED BY <1>1, <1>2, <2>2 DEF Rejected
<1>6. E[x + 1] = D[index + 1]
  <2>1. x + 1 \in 1 .. Len(E)
    BY <1>1, <1>2
  <2> QED BY <1>1, <1>2, <2>1 DEF IsSegment
<1> HIDE DEF x, m
<1> QED BY <1>4, <1>5, <1>6 DEF VerifyInclusion

\* The consistency proof between a subtree and a checkpoint for which the leaf
\* hashes from the end of the subtree on are there, and all of them if the
\* subtree is not itself a checkpoint.
LEMMA ConsistentComplete ==
  ASSUME NEW D, Len(D) \in Nat, NEW tree, IsTreeOf(tree, D), NEW n \in 1 .. Len(D),
         NEW start, NEW end, IsValidSubtree(start, end), end <= n,
         \A b \in 1 .. n : end <= b \/ start # 0 => tree.leaves[b] # Unavailable,
         NEW proof, proof = ConsistencyProof(tree, start, end, n)
  PROVE  /\ Served(proof)
         /\ VerifySubtreeConsistency(start, end, n, MTHOf(D, start, end), proof, MTHOf(D, 0, n))
<1>1. start \in Nat /\ end \in Nat /\ start < end /\ n \in Nat \ {0} /\ n <= Len(D)
  BY DEF IsValidSubtree
<1>2. PICK A : IsSegment(A, D, 0) /\ Len(A) = n
  BY <1>1, SegmentExists
<1>3. ComputesAround(tree, A, start, end)
  <2> SUFFICES ASSUME NEW a \in 0 .. Len(A), NEW b \in 0 .. Len(A), NEW l, NEW g,
                      SpansNode(a, b, Len(A), l, g), end <= b \/ b - a > 1 \/ start # 0
               PROVE  SubtreeHash(tree, a, b) = MTHOf(A, a, b)
    BY DEF ComputesAround
  <2>1. /\ a \in Nat /\ b \in Nat /\ a < b /\ b <= n /\ b \in 1 .. n /\ b <= Len(D)
        /\ b = IF a + Pow2[l] < n THEN a + Pow2[l] ELSE n
        /\ l = BitCeil(b - a) /\ l \in Nat
    BY <1>1, <1>2 DEF SpansNode
  <2>2. IsValidSubtree(a, b)
    BY SpanIsValid
  <2>3. IsStored(tree, a, b)
    <3>1. CASE end <= b \/ start # 0
      BY <2>1, <3>1 DEF IsStored
    <3>2. CASE b < end
      <4>1. b < n
        BY <1>1, <2>1, <3>2
      <4>2. Pow2[l] \in Nat
        BY <2>1, Pow2Positive
      <4> DEFINE P == Pow2[l]
      <4> HIDE DEF P
      <4>3. b = a + P
        BY <2>1, <4>1 DEF P
      <4>4. b - a = P
        BY <2>1, <4>2, <4>3 DEF P
      <4>5. start = 0 \/ start # 0
        OBVIOUS
      <4> QED BY <2>1, <3>1, <3>2, <4>4, <1>1 DEF IsStored, P
    <3> QED BY <1>1, <2>1, <3>1, <3>2
  <2>4. SubtreeHash(tree, a, b) = MTHOf(D, a, b)
    BY <2>1, <2>2, <2>3, SubtreeHashValue
  <2>5. MTHOf(A, a, b) = MTHOf(D, a, b)
    BY <1>2, <2>1, SegmentOfStart
  <2> QED BY <2>4, <2>5
<1> DEFINE from == ConsistencyStart(start, end, n)
<1>4. /\ Served(proof)
      /\ from.fn = from.sn \/ proof # <<>>
      /\ ConsistencyMatches(start, end, n, MTHOf(A, start, end), proof, MTH(A))
  <2>1. /\ Len(A) \in Nat \ {0} /\ end <= Len(A)
        /\ proof = ConsistencyProof(tree, start, end, Len(A))
        /\ from = ConsistencyStart(start, end, Len(A))
    BY <1>1, <1>2
  <2> HIDE DEF from
  <2>2. /\ Served(proof)
        /\ from.fn = from.sn \/ proof # <<>>
        /\ ConsistencyMatches(start, end, Len(A), MTHOf(A, start, end), proof, MTH(A))
    BY <1>3, <2>1, ConsistencyComplete
  <2> QED BY <1>2, <2>2
<1>5. MTHOf(A, start, end) = MTHOf(D, start, end) /\ MTHOf(A, start, end) # Rejected
  BY <1>1, <1>2, SegmentOfStart DEF Rejected
<1>6. MTH(A) = MTHOf(D, 0, n) /\ MTH(A) # Rejected
  <2>1. MTH(A) = MTHOf(D, 0, 0 + Len(A)) /\ MTH(A) # Unavailable
    BY <1>1, <1>2, HashOfSegment
  <2> QED BY <1>1, <1>2, <2>1 DEF Rejected
<1> QED BY <1>4, <1>5, <1>6 DEF VerifySubtreeConsistency

\* Between two checkpoints.
LEMMA CheckpointsConsistent ==
  ASSUME NEW D, Len(D) \in Nat, NEW tree, IsTreeOf(tree, D), NEW n \in 1 .. Len(D),
         NEW m \in 1 .. n, \A b \in m .. n : tree.leaves[b] # Unavailable,
         NEW proof, proof = ConsistencyProof(tree, 0, m, n)
  PROVE  /\ Served(proof)
         /\ VerifyTreeConsistency(m, n, MTHOf(D, 0, m), MTHOf(D, 0, n), proof)
<1>1. m \in Nat /\ n \in Nat /\ 0 < m /\ m <= n
  OBVIOUS
<1>2. IsValidSubtree(0, m)
  BY <1>1, CheckpointIsSubtree
<1>3. /\ Served(proof)
      /\ VerifySubtreeConsistency(0, m, n, MTHOf(D, 0, m), proof, MTHOf(D, 0, n))
  <2>1. \A b \in 1 .. n : m <= b \/ 0 # 0 => tree.leaves[b] # Unavailable
    BY <1>1
  <2> DEFINE zero == 0
  <2>2. /\ IsValidSubtree(zero, m)
        /\ \A b \in 1 .. n : m <= b \/ zero # 0 => tree.leaves[b] # Unavailable
        /\ proof = ConsistencyProof(tree, zero, m, n)
    BY <1>2, <2>1
  <2> HIDE DEF zero
  <2>3. /\ Served(proof)
        /\ VerifySubtreeConsistency(zero, m, n, MTHOf(D, zero, m), proof, MTHOf(D, 0, n))
    BY <1>1, <2>2, ConsistentComplete
  <2> QED BY <2>3 DEF zero
<1>4. m = n => proof = <<>>
  <2> SUFFICES ASSUME m = n PROVE proof = <<>>
    OBVIOUS
  <2> DEFINE all == [s |-> 0, base |-> 0, top |-> n, known |-> TRUE]
             zero == 0
  <2>1. \E f : ListsSubproofs(f, tree, m, n)
               /\ ConsistencyProof(tree, zero, m, n) = f[[s |-> zero, base |-> 0, top |-> n, known |-> TRUE]]
    <3>1. zero \in 0 .. n
      BY <1>1
    <3> HIDE DEF zero
    <3> QED BY <1>1, <3>1, ConsistencyProofIs
  <2>2. PICK f : ListsSubproofs(f, tree, m, n) /\ proof = f[all]
    BY <2>1
  <2>3. all \in PartsOf(n)
    BY <1>1 DEF PartsOf
  <2>4. f[all] = SubproofBody(tree, m, f, all)
    BY <2>2, <2>3 DEF ListsSubproofs
  <2>5. all.s = all.base /\ m = all.top /\ all.known = TRUE
    OBVIOUS
  <2> HIDE DEF all
  <2>6. SubproofBody(tree, m, f, all) = <<>>
    BY <2>5 DEF SubproofBody
  <2> QED BY <2>2, <2>4, <2>6
<1> QED BY <1>1, <1>3, <1>4 DEF VerifyTreeConsistency

-----------------------------------------------------------------------------
(* The tree that from_entries builds *)

\* The tree without entries.
LEMMA EmptyTreeIsTree ==
  ASSUME NEW D, Len(D) = 0
  PROVE  IsTreeOf(EmptyTree, D) /\ HoldsEdge(EmptyTree, D)
<1> DEFINE none == EmptyTree
           zero == 0
<1>1. /\ none.leaves = <<>> /\ none.levels = <<>> /\ none.pending = <<>>
      /\ DOMAIN none = {"leaves", "levels", "pending"}
  BY DEF EmptyTree
<1> HIDE DEF none
<1>2. Len(<<>>) = 0 /\ ListOf(<<>>, 0)
  BY DEF ListOf
<1>3. Pow2[0 + 1] \in Nat \ {0}
  <2>1. 0 + 1 \in Nat
    OBVIOUS
  <2> QED BY <2>1, Pow2Positive
<1>4. HoldsLeaves(<<>>, D)
  BY <1>2 DEF HoldsLeaves
<1>5. HoldsLevels(<<>>, D)
  BY <1>2, <1>3 DEF HoldsLevels
<1>6. IsTreeOf(none, D)
  BY <1>1, <1>4, <1>5 DEF IsTreeOf
<1>7. ASSUME NEW l \in Nat PROVE (zero \div Pow2[l]) % 2 # 1
  <2>1. Pow2[l] \in Nat \ {0}
    BY Pow2Positive
  <2>2. zero \div Pow2[l] = 0
    BY <2>1
  <2> QED BY <2>2
<1>8. HoldsEdge(none, D)
  BY <1>1, <1>2, <1>7 DEF HoldsEdge
<1> QED BY <1>6, <1>8 DEF none

\* The trees of the first entries.
IsAppendRun(at, D) ==
  /\ at[0] = EmptyTree
  /\ \A k \in 1 .. Len(D) : at[k] = AppendLeaf(at[k - 1], HashLeaf(D[k]))
  /\ FromEntries(D) = at[Len(D)]

\* The recursion over the entries has a solution.
LEMMA AppendLoop ==
  ASSUME NEW D, Len(D) \in Nat
  PROVE  \E at : IsAppendRun(at, D)
<1> DEFINE I == 0 .. Len(D)
           first == EmptyTree
           Step(a, k) == AppendLeaf(a, HashLeaf(D[k]))
           Body(f, k) == IF k = 0 THEN first ELSE Step(f[k - 1], k)
           Upto(f, n) == \A k \in I : k <= n => f[k] = Body(f, k)
           S == { n \in Nat : \E f : Upto(f, n) }
           at == CHOOSE f : f = [k \in I |-> Body(f, k)]
<1> HIDE DEF first, Step
<1>1. 0 \in S
  <2>1. Upto([k \in I |-> first], 0)
    OBVIOUS
  <2> HIDE DEF Upto
  <2> QED BY <2>1
<1>2. ASSUME NEW n \in Nat, n \in S PROVE n + 1 \in S
  <2>1. PICK f : Upto(f, n)
    BY <1>2
  <2> DEFINE g == [k \in I |-> Body(f, k)]
  <2>2. ASSUME NEW k \in I, k <= n PROVE g[k] = f[k]
    BY <2>1, <2>2
  <2>3. ASSUME NEW k \in I, k <= n + 1 PROVE g[k] = Body(g, k)
    <3>1. CASE k = 0
      BY <3>1
    <3>2. CASE k # 0
      <4>1. k - 1 \in I /\ k - 1 <= n
        BY <2>3, <3>2
      <4>2. g[k - 1] = f[k - 1]
        BY <2>2, <4>1
      <4> QED BY <3>2, <4>2
    <3> QED BY <3>1, <3>2
  <2>4. Upto(g, n + 1)
    <3> HIDE DEF g
    <3> QED BY <2>3
  <2> HIDE DEF g, Upto
  <2> QED BY <2>4
<1>3. \A n \in Nat : n \in S
  <2> HIDE DEF S
  <2> QED BY <1>1, <1>2, Induction
<1>4. PICK f : Upto(f, Len(D))
  BY <1>3
<1>5. \A k \in I : f[k] = Body(f, k)
  BY <1>4
<1> DEFINE g == [k \in I |-> f[k]]
<1>6. g = [k \in I |-> Body(g, k)]
  <2>1. ASSUME NEW k \in I PROVE f[k] = Body(g, k)
    <3>1. CASE k = 0
      BY <1>5, <3>1
    <3>2. CASE k # 0
      <4>1. k - 1 \in I
        BY <3>2
      <4>2. g[k - 1] = f[k - 1]
        BY <4>1
      <4> QED BY <1>5, <3>2, <4>2
    <3> QED BY <3>1, <3>2
  <2> HIDE DEF Body, I
  <2> QED BY <2>1
<1>7. at = [k \in I |-> Body(at, k)]
  <2> HIDE DEF Body, I, g
  <2> QED BY <1>6
<1>8. FromEntries(D) = at[Len(D)]
  BY DEF FromEntries, first, Step
<1>9. \A k \in I : at[k] = Body(at, k)
  <2> HIDE DEF at, Body, I
  <2> QED BY <1>7
<1> HIDE DEF at
<1>10. at[0] = first /\ \A k \in 1 .. Len(D) : at[k] = Step(at[k - 1], k)
  BY <1>9
<1>11. IsAppendRun(at, D)
  BY <1>8, <1>10 DEF first, Step, IsAppendRun
<1> QED BY <1>11

\* A tree with all its leaf hashes and its right edge.
IsWholeTreeOf(tree, D) ==
  /\ IsTreeOf(tree, D)
  /\ HoldsEdge(tree, D)
  /\ \A i \in 1 .. Len(D) : tree.leaves[i] = HashLeaf(D[i])

\* from_entries makes the tree of the entries.
LEMMA FromEntriesIsTree ==
  ASSUME NEW D, Len(D) \in Nat, ListOf(D, Len(D))
  PROVE  IsWholeTreeOf(FromEntries(D), D)
<1> DEFINE n == Len(D)
           First(k) == [i \in 1 .. k |-> D[i]]
           S == { k \in Nat : k <= n => \A at : IsAppendRun(at, D) => IsWholeTreeOf(at[k], First(k)) }
<1>1. ASSUME NEW k \in Nat PROVE Len(First(k)) = k /\ \A i \in 1 .. k : First(k)[i] = D[i]
  <2> DEFINE A == First(k)
  <2>1. ListOf(A, k) /\ \A i \in 1 .. k : A[i] = D[i]
    BY DEF ListOf
  <2> HIDE DEF A
  <2>2. Len(A) = k /\ \A i \in 1 .. k : A[i] = D[i]
    BY <2>1, ListIsSeq
  <2> QED BY <2>2 DEF A
<1> HIDE DEF First
<1>2. 0 \in S
  <2>1. ASSUME NEW at, IsAppendRun(at, D) PROVE IsWholeTreeOf(at[0], First(0))
    <3>1. Len(First(0)) = 0 /\ at[0] = EmptyTree
      BY <1>1, <2>1 DEF IsAppendRun
    <3> QED BY <3>1, EmptyTreeIsTree DEF IsWholeTreeOf
  <2> QED BY <2>1
<1>3. ASSUME NEW k \in Nat, k \in S PROVE k + 1 \in S
  <2> SUFFICES ASSUME k + 1 <= n, NEW at, IsAppendRun(at, D)
               PROVE  IsWholeTreeOf(at[k + 1], First(k + 1))
    OBVIOUS
  <2> DEFINE A == First(k)
             B == First(k + 1)
             e == D[k + 1]
             old == at[k]
             new == at[k + 1]
  <2>1. k + 1 \in 1 .. n /\ (k + 1) - 1 = k /\ k <= n
    OBVIOUS
  <2>2. IsWholeTreeOf(old, A)
    BY <1>3, <2>1
  <2>3. new = AppendLeaf(old, HashLeaf(e))
    BY <2>1 DEF IsAppendRun
  <2>4. /\ Len(A) = k /\ Len(B) = k + 1
        /\ \A i \in 1 .. k : A[i] = D[i]
        /\ \A i \in 1 .. k + 1 : B[i] = D[i]
    BY <1>1
  <2> HIDE DEF A, B, e, old, new
  <2>5. OneMore(A, B, e)
    <3>1. \A i \in 1 .. k : B[i] = A[i]
      BY <2>4
    <3>2. B[k + 1] = e
      BY <2>1, <2>4 DEF e
    <3> QED BY <2>4, <3>1, <3>2 DEF OneMore
  <2>6. IsTreeOf(new, B) /\ HoldsEdge(new, B)
    BY <2>2, <2>3, <2>5, AppendMakesTree DEF IsWholeTreeOf
  <2>7. new.leaves = Append(old.leaves, HashLeaf(e))
    <3> DEFINE top == TrailingOnes(Size(old))
    <3>1. Size(old) = k
      <4>1. ListOf(old.leaves, k)
        BY <2>2, <2>4 DEF IsWholeTreeOf, IsTreeOf, HoldsLeaves
      <4> QED BY <4>1, ListIsSeq DEF Size
    <3>2. top \in Nat
      BY <3>1, AddOne
    <3>3. PICK node : new = [leaves  |-> Append(old.leaves, HashLeaf(e)),
                             levels  |-> AppendedLevels(old, node, top),
                             pending |-> AppendedEdge(old, node, top)]
      BY <2>3, <3>2, AppendLeafIs
    <3> QED BY <3>3
  <2>8. ASSUME NEW i \in 1 .. k + 1 PROVE new.leaves[i] = HashLeaf(B[i])
    <3>1. ListOf(old.leaves, k)
      BY <2>2, <2>4 DEF IsWholeTreeOf, IsTreeOf, HoldsLeaves
    <3>2. AddsTo(old.leaves, k, HashLeaf(e), new.leaves)
      BY <2>7, <3>1, AppendToList
    <3>3. CASE i = k + 1
      BY <2>1, <2>4, <3>2, <3>3 DEF AddsTo, e
    <3>4. CASE i # k + 1
      <4>1. i \in 1 .. k
        BY <3>4
      <4>2. new.leaves[i] = old.leaves[i] /\ old.leaves[i] = HashLeaf(A[i])
        BY <2>2, <2>4, <3>2, <4>1 DEF AddsTo, IsWholeTreeOf
      <4> QED BY <2>4, <4>1, <4>2
    <3> QED BY <3>3, <3>4
  <2>9. IsWholeTreeOf(new, B)
    BY <2>4, <2>6, <2>8 DEF IsWholeTreeOf
  <2> QED BY <2>9 DEF new, B
<1>4. \A k \in Nat : k \in S
  <2> HIDE DEF S
  <2> QED BY <1>2, <1>3, Induction
<1>5. PICK at : IsAppendRun(at, D)
  BY AppendLoop
<1>6. IsWholeTreeOf(at[n], First(n)) /\ n \in Nat
  BY <1>4, <1>5
<1>7. First(n) = D
  BY DEF First, ListOf
<1> QED BY <1>5, <1>6, <1>7 DEF IsAppendRun

-----------------------------------------------------------------------------
(* The cover of an interval *)

\* A number without remainder is a multiple.
LEMMA MultipleOf ==
  ASSUME NEW t \in Nat \ {0}, NEW x \in Nat, x % t = 0
  PROVE  x \div t \in Nat /\ x = t * (x \div t)
<1> DEFINE q == x \div t
<1>1. q \in Nat /\ x % t = x - t * q
  BY DivBounds
<1> HIDE DEF q
<1>2. t * q \in Nat
  BY <1>1
<1>3. q \in Nat /\ x = t * q
  BY <1>1, <1>2
<1> QED BY <1>3 DEF q

\* d is the least shift after which two numbers agree.
AgreeFrom(x, y, d) ==
  /\ d \in Nat
  /\ x \div Pow2[d] = y \div Pow2[d]
  /\ \A j \in 0 .. d - 1 : x \div Pow2[j] # y \div Pow2[j]

\* DifferingBits finds it.
LEMMA ApartDef ==
  ASSUME NEW x \in Nat, NEW y \in Nat
  PROVE  AgreeFrom(x, y, DifferingBits(x, y))
<1> DEFINE S == { k \in Nat : x \div Pow2[k] = y \div Pow2[k] }
           z == x + y
<1>1. z \in S
  <2>1. z \in Nat /\ z < Pow2[z] /\ x <= z /\ y <= z
    BY Pow2Exceeds
  <2> DEFINE P == Pow2[z]
  <2>2. P \in Nat \ {0}
    BY <2>1, Pow2Positive
  <2>3. x < P /\ y < P
    BY <2>1, <2>2
  <2> HIDE DEF P
  <2>4. x \div P = 0 /\ y \div P = 0
    BY <2>2, <2>3, DivZero
  <2> QED BY <2>1, <2>4 DEF P
<1>2. PICK k \in S : \A j \in S : k <= j
  <2> HIDE DEF z
  <2> QED BY <1>1, SmallestExists
<1>3. /\ k \in 0 .. x + y
      /\ x \div Pow2[k] = y \div Pow2[k]
      /\ \A j \in 0 .. k - 1 : x \div Pow2[j] # y \div Pow2[j]
  <2>1. k \in 0 .. z /\ z \in Nat
    BY <1>1, <1>2
  <2>2. ASSUME NEW j \in 0 .. k - 1 PROVE x \div Pow2[j] # y \div Pow2[j]
    <3>1. j \in Nat /\ ~(k <= j)
      BY <1>2
    <3> QED BY <1>2, <3>1
  <2> QED BY <1>2, <2>1, <2>2
<1> DEFINE Apart(i) == /\ x \div Pow2[i] = y \div Pow2[i]
                       /\ \A j \in 0 .. i - 1 : x \div Pow2[j] # y \div Pow2[j]
           d == DifferingBits(x, y)
<1>4. d = CHOOSE i \in 0 .. x + y : Apart(i)
  BY DEF DifferingBits
<1>5. k \in 0 .. x + y /\ Apart(k)
  BY <1>3
<1> HIDE DEF Apart, d
<1>6. d \in 0 .. x + y /\ Apart(d)
  BY <1>4, <1>5
<1>7. d \in Nat
  BY <1>6
<1> QED BY <1>6, <1>7 DEF Apart, AgreeFrom, d

\* The number of bits of a number below a power of two.
LEMMA WidthBelow ==
  ASSUME NEW k \in Nat, NEW w \in Nat, w < Pow2[k]
  PROVE  LET h == BitWidth(w)
         IN  /\ h \in Nat /\ h <= k /\ w < Pow2[h]
             /\ h > 0 => Pow2[h] <= 2 * w
<1> DEFINE h == BitWidth(w)
<1>1. h \in Nat /\ w < Pow2[h] /\ \A j \in 0 .. h - 1 : Pow2[j] <= w
  BY BitWidthDef
<1> HIDE DEF h
<1>2. h <= k
  <2>1. k < h => k \in 0 .. h - 1
    BY <1>1
  <2>2. Pow2[k] \in Nat
    BY Pow2Positive
  <2> QED BY <1>1, <2>1, <2>2
<1>3. h > 0 => Pow2[h] <= 2 * w
  <2> SUFFICES ASSUME h > 0 PROVE Pow2[h] <= 2 * w
    OBVIOUS
  <2>1. h - 1 \in Nat /\ h - 1 \in 0 .. h - 1 /\ (h - 1) + 1 = h
    BY <1>1
  <2>2. Pow2[h] = 2 * Pow2[h - 1] /\ Pow2[h - 1] \in Nat /\ Pow2[h - 1] <= w
    BY <1>1, <2>1, Pow2Positive
  <2> QED BY <2>2
<1> QED BY <1>1, <1>2, <1>3 DEF h

\* An interval at a multiple of a power of two, and no longer, is a subtree.
LEMMA AlignedIsSubtree ==
  ASSUME NEW k \in Nat, NEW s \in Nat, s % Pow2[k] = 0, NEW e \in Nat, s < e, e - s <= Pow2[k]
  PROVE  IsValidSubtree(s, e)
<1> DEFINE m == e - s
           b == BitCeil(m)
<1>1. m \in Nat \ {0}
  OBVIOUS
<1>2. b \in Nat /\ \A j \in Nat : j < b => Pow2[j] < m
  <2> HIDE DEF m
  <2> QED BY <1>1, BitCeilDef
<1>3. b <= k
  <2>1. Pow2[k] \in Nat
    BY Pow2Positive
  <2>2. k < b => Pow2[k] < m
    BY <1>2
  <2> HIDE DEF b
  <2> QED BY <1>1, <1>2, <2>1, <2>2
<1> DEFINE T == Pow2[b]
           U == Pow2[k - b]
           q == s \div Pow2[k]
<1> HIDE DEF b
<1>4. Pow2[k] = T * U /\ T \in Nat \ {0} /\ U \in Nat \ {0}
  BY <1>2, <1>3, Pow2Split, Pow2Positive
<1>5. q \in Nat /\ s = Pow2[k] * q
  <2>1. Pow2[k] \in Nat \ {0}
    BY Pow2Positive
  <2> QED BY <2>1, MultipleOf
<1> HIDE DEF T, U, q
<1>6. U * q \in Nat /\ s = T * (U * q)
  <2>1. (T * U) * q = T * (U * q)
    BY <1>4, <1>5
  <2>2. U * q \in Nat /\ T * (U * q) \in Nat
    BY <1>4, <1>5
  <2> QED BY <1>4, <1>5, <2>1, <2>2
<1> DEFINE r == U * q
<1>7. s % T = 0
  <2>1. r \in Nat /\ s = T * r
    BY <1>6
  <2> HIDE DEF r
  <2>2. T * r <= s /\ s < T * r + T /\ s - T * r = 0
    BY <1>4, <2>1
  <2> QED BY <1>4, <2>1, <2>2, DivUnique
<1> QED BY <1>7 DEF IsValidSubtree, T, b

\* The subtrees of a cover: the right one ends where the interval does; the
\* left one is complete, begins at or before the interval and is less than
\* twice as long.
LEMMA CoverIs ==
  ASSUME NEW start \in Nat, NEW end \in Nat, start < end, NEW cover, cover = Cover(start, end)
  PROVE  \/ end = start + 1 /\ cover = << Interval(start, end) >> /\ IsValidSubtree(start, end)
         \/ \E left, mid \in Nat, h \in Nat :
              /\ cover = << Interval(left, mid), Interval(mid, end) >>
              /\ left <= start /\ start < mid /\ mid < end
              /\ IsValidSubtree(left, mid) /\ IsValidSubtree(mid, end)
              /\ mid - left = Pow2[h] /\ mid - left < 2 * (end - start)
<1>1. CASE end - start = 1
  <2>1. end = start + 1 /\ cover = << Interval(start, end) >>
    BY <1>1 DEF Cover
  <2>2. IsValidSubtree(start, end)
    <3> DEFINE zero == 0
    <3>1. zero \in Nat /\ Pow2[zero] = 1
      BY Pow2Positive
    <3>2. start % 1 = 0
      OBVIOUS
    <3>3. start % Pow2[zero] = 0 /\ end - start <= Pow2[zero]
      BY <1>1, <3>1, <3>2
    <3> HIDE DEF zero
    <3> QED BY <3>1, <3>3, AlignedIsSubtree
  <2> QED BY <2>1, <2>2
<1>2. CASE end - start # 1
  <2> DEFINE last == end - 1
             d == DifferingBits(start, last)
             split == d - 1
             Q == Pow2[split]
             mid == last - (last % Q)
             w == Q - 1 - (start % Q)
             h == BitWidth(w)
             T == Pow2[h]
             left == start - (start % T)
  <2>1. last \in Nat /\ start < last /\ last + 1 = end
    BY <1>2
  <2>2. cover = << Interval(left, mid), Interval(mid, end) >>
    BY <1>2 DEF Cover
  <2> HIDE DEF last
  <2>3. /\ d \in Nat /\ start \div Pow2[d] = last \div Pow2[d]
        /\ \A j \in 0 .. d - 1 : start \div Pow2[j] # last \div Pow2[j]
    <3>1. AgreeFrom(start, last, d)
      BY <2>1, ApartDef
    <3> HIDE DEF d
    <3> QED BY <3>1 DEF AgreeFrom
  <2> HIDE DEF d
  <2>4. split \in Nat /\ split + 1 = d
    <3>1. d # 0
      <4> SUFFICES ASSUME d = 0 PROVE FALSE
        OBVIOUS
      <4>1. Pow2[d] = 1
        BY Pow2Positive
      <4>2. start \div 1 = last \div 1
        BY <2>3, <4>1
      <4> QED BY <2>1, <4>2
    <3> QED BY <2>3, <3>1
  <2>5. start \div Q # last \div Q
    <3>1. split \in 0 .. d - 1
      BY <2>3, <2>4
    <3> QED BY <2>3, <3>1
  <2>6. Pow2[d] = 2 * Q /\ Q \in Nat \ {0}
    BY <2>4, Pow2Positive
  <2> HIDE DEF split
  <2> DEFINE a == start \div Q
             b == last \div Q
             c == start \div (2 * Q)
  <2>7. /\ a \in Nat /\ Q * a <= start /\ start < Q * a + Q /\ start % Q = start - Q * a
        /\ b \in Nat /\ Q * b <= last /\ last < Q * b + Q /\ last % Q = last - Q * b
    <3> HIDE DEF Q
    <3> QED BY <2>1, <2>6, DivBounds
  <2>8. a < b /\ b = a + 1
    <3> HIDE DEF Q
    <3>1. (start \div Q) \div 2 = (last \div Q) \div 2
      <4> DEFINE two == 2
      <4>1. start \div (Q * two) = last \div (Q * two)
        <5>1. Q * two = Pow2[d]
          BY <2>6
        <5> QED BY <2>3, <5>1
      <4>2. two \in Nat \ {0}
        OBVIOUS
      <4> HIDE DEF two
      <4>3. (start \div Q) \div two = (last \div Q) \div two
        BY <2>1, <2>6, <4>1, <4>2, DivDiv
      <4> QED BY <4>3 DEF two
    <3>2. a \div 2 = b \div 2 /\ a # b
      BY <2>5, <3>1
    <3>3. a <= b
      BY <2>1, <2>6, DivMonotone
    <3> HIDE DEF a, b
    <3> QED BY <2>7, <3>2, <3>3
  <2> HIDE DEF a, b, Q
  <2> DEFINE X == Q * a
  <2>9. Q * b = X + Q /\ X \in Nat
    BY <2>6, <2>7, <2>8
  <2> HIDE DEF X
  <2>10. /\ mid = X + Q /\ mid \in Nat /\ start < mid /\ mid <= last /\ last < mid + Q
         /\ w = mid - 1 - start /\ w \in Nat /\ w < Q
    <3>1. start % Q = start - X /\ X <= start /\ start < X + Q
      BY <2>7 DEF X
    <3>2. last % Q = last - (X + Q) /\ X + Q <= last /\ last < X + Q + Q
      BY <2>7, <2>9
    <3>3. mid = X + Q
      BY <2>1, <2>6, <2>9, <3>2
    <3>4. w = Q - 1 - (start - X)
      BY <3>1
    <3> HIDE DEF mid, w
    <3> QED BY <2>1, <2>6, <2>9, <3>1, <3>2, <3>3, <3>4
  <2>11. mid % Q = 0
    <3> HIDE DEF mid, w
    <3>1. mid = Q * b
      BY <2>9, <2>10
    <3>2. mid \in Nat
      BY <2>10
    <3>3. Q * b <= mid /\ mid < Q * b + Q /\ mid - Q * b = 0
      BY <2>6, <3>1, <3>2
    <3>4. mid % Q = mid - Q * b
      <4>1. Q \in Nat \ {0} /\ b \in Nat
        BY <2>6, <2>7
      <4>2. Q * b <= mid /\ mid < Q * b + Q
        BY <3>3
      <4> QED BY <3>2, <4>1, <4>2, DivUnique
    <3> QED BY <3>3, <3>4
  <2>12. IsValidSubtree(mid, end)
    <3> HIDE DEF mid, w
    <3>1. end - mid <= Q /\ mid < end
      BY <2>1, <2>6, <2>10
    <3> QED BY <2>4, <2>10, <2>11, <3>1, AlignedIsSubtree DEF Q
  <2>13. h \in Nat /\ h <= split /\ w < T /\ (h > 0 => T <= 2 * w)
    <3> HIDE DEF w, mid
    <3>1. w \in Nat /\ w < Pow2[split]
      BY <2>10 DEF Q
    <3> QED BY <2>4, <3>1, WidthBelow
  <2> HIDE DEF mid, w, h
  <2>14. T \in Nat \ {0} /\ (h = 0 => T = 1)
    BY <2>13, Pow2Positive
  <2> DEFINE U == Pow2[split - h]
             y == mid \div Q
             e == U * y
             v == start \div T
  <2>15. Q = T * U /\ U \in Nat \ {0}
    BY <2>4, <2>13, Pow2Split DEF Q
  <2> HIDE DEF T, U
  <2>16. mid = T * e /\ e \in Nat
    <3>1. y \in Nat /\ mid = Q * y
      BY <2>6, <2>10, <2>11, MultipleOf
    <3> HIDE DEF y
    <3>2. (T * U) * y = T * (U * y)
      BY <2>14, <2>15, <3>1
    <3>3. U * y \in Nat /\ T * (U * y) \in Nat
      BY <2>14, <2>15, <3>1
    <3> QED BY <2>14, <2>15, <3>1, <3>2, <3>3
  <2> HIDE DEF e, y
  <2>17. /\ v \in Nat /\ T * v <= start /\ start < T * v + T /\ start % T = start - T * v
    BY <2>14, DivBounds
  <2> HIDE DEF v
  <2>18. left = T * v /\ left \in Nat /\ left <= start
    BY <2>14, <2>17
  <2>19. mid = left + T
    <3>1. mid - 1 - start < T
      BY <2>10, <2>13
    <3>2. T * v < T * e
      BY <2>10, <2>16, <2>17, <2>18
    <3>3. T * e < T * v + 2 * T
      <4>1. mid <= start + T
        BY <2>10, <2>14, <3>1
      <4> QED BY <2>10, <2>14, <2>16, <2>17, <4>1
    <3>4. v < e
      BY <2>14, <2>16, <2>17, <3>2
    <3>5. e < v + 2
      <4>1. T * (v + 2) = T * v + 2 * T
        BY <2>14, <2>17
      <4>2. v + 2 \in Nat /\ T * e < T * (v + 2)
        BY <2>17, <3>3, <4>1
      <4> DEFINE u == v + 2
      <4> HIDE DEF u
      <4>3. u \in Nat /\ T * e < T * u
        BY <4>2 DEF u
      <4>4. e < u
        BY <2>14, <2>16, <4>3
      <4> QED BY <4>4 DEF u
    <3>6. e = v + 1
      BY <2>16, <2>17, <3>4, <3>5
    <3>7. T * (v + 1) = T * v + T
      BY <2>14, <2>17
    <3> QED BY <2>16, <2>18, <3>6, <3>7
  <2>20. IsValidSubtree(left, mid)
    <3>1. left % T = 0
      <4> HIDE DEF left
      <4>1. T * v <= left /\ left < T * v + T /\ left - T * v = 0
        BY <2>14, <2>17, <2>18
      <4> QED BY <2>14, <2>17, <2>18, <4>1, DivUnique
    <3> HIDE DEF left
    <3>2. mid - left <= T /\ left < mid
      BY <2>10, <2>14, <2>18, <2>19
    <3> QED BY <2>10, <2>13, <2>18, <3>1, <3>2, AlignedIsSubtree DEF T
  <2> HIDE DEF left
  <2>21. mid - left = T /\ mid - left < 2 * (end - start) /\ mid < end
    BY <2>1, <2>10, <2>13, <2>14, <2>18, <2>19
  <2> QED BY <2>2, <2>10, <2>12, <2>13, <2>18, <2>20, <2>21 DEF T
<1> QED BY <1>1, <1>2

\* A multiple of a number has no remainder.
LEMMA NoRest ==
  ASSUME NEW t \in Nat \ {0}, NEW q \in Nat, NEW x, x = t * q
  PROVE  x \in Nat /\ x % t = 0
<1>1. x \in Nat
  OBVIOUS
<1>2. t * q <= x /\ x < t * q + t /\ x - t * q = 0
  BY <1>1
<1>3. x % t = x - t * q
  BY <1>1, <1>2, DivUnique
<1> QED BY <1>1, <1>2, <1>3

\* The subtrees of a log that end where it does, except the whole log, are
\* those of the part after the split.
LEMMA SubtreesAfterSplit ==
  ASSUME NEW n \in Nat, n > 1, NEW a \in Nat, 0 < a, a < n, NEW P, P = Split(n)
  PROVE  IsValidSubtree(a, n) <=> P <= a /\ IsValidSubtree(a - P, n - P)
<1> DEFINE m == n - a
           b == BitCeil(m)
           T == Pow2[b]
<1>1. PICK k \in Nat : P = Pow2[k] /\ P < n /\ n <= 2 * P
  BY SplitDef
<1>2. P \in Nat \ {0} /\ m \in Nat \ {0} /\ (n - P) - (a - P) = m /\ m + a = n
  BY <1>1, Pow2Positive
<1>3. b \in Nat /\ m <= T /\ \A j \in Nat : j < b => Pow2[j] < m
  <2> HIDE DEF m
  <2> QED BY <1>2, BitCeilDef
<1> HIDE DEF b
<1>4. T \in Nat \ {0}
  BY <1>3, Pow2Positive
<1>5. m <= P => b <= k
  <2>1. k < b => P < m
    BY <1>1, <1>3
  <2> HIDE DEF m
  <2> QED BY <1>1, <1>2, <1>3, <2>1
<1> DEFINE U == Pow2[k - b]
<1>6. b <= k => P = T * U /\ U \in Nat \ {0}
  BY <1>1, <1>3, Pow2Split
<1> HIDE DEF U
<1>7. IsValidSubtree(a, n) <=> a % T = 0
  BY DEF IsValidSubtree, T, b
<1>8. P <= a => (IsValidSubtree(a - P, n - P) <=> (a - P) % T = 0)
  <2> SUFFICES ASSUME P <= a PROVE IsValidSubtree(a - P, n - P) <=> (a - P) % T = 0
    OBVIOUS
  <2> DEFINE x == a - P
             y == n - P
  <2>1. x \in Nat /\ y \in Nat /\ x < y /\ y - x = m
    BY <1>1, <1>2
  <2> HIDE DEF x, y, m
  <2>2. IsValidSubtree(x, y) <=> x % T = 0
    BY <2>1 DEF IsValidSubtree, T, b
  <2> QED BY <2>2 DEF x, y
<1> HIDE DEF T
<1>9. ASSUME a % T = 0 PROVE P <= a /\ (a - P) % T = 0
  <2> DEFINE q == a \div T
  <2>1. q \in Nat /\ a = T * q
    BY <1>4, <1>9, MultipleOf
  <2> HIDE DEF q
  <2>2. P <= a
    <3> SUFFICES ASSUME a < P PROVE FALSE
      BY <1>2
    <3>1. T <= a
      <4>1. q # 0
        BY <1>4, <2>1
      <4>2. T * q = T * (q - 1) + T /\ T * (q - 1) \in Nat
        BY <1>4, <2>1, <4>1
      <4> QED BY <1>4, <2>1, <4>2
    <3>2. T < P
      BY <1>2, <1>4, <3>1
    <3>3. b <= k
      <4>1. k < b => P <= T
        BY <1>1, <1>3, Pow2Monotone DEF T
      <4> QED BY <1>1, <1>2, <1>3, <1>4, <3>2, <4>1
    <3>4. P = T * U /\ U \in Nat \ {0}
      BY <1>6, <3>3
    <3>5. q < U
      <4>1. T * q < T * U
        BY <2>1, <3>4
      <4> QED BY <1>4, <2>1, <3>4, <4>1
    <3>6. T * (q + 1) <= T * U
      <4> DEFINE v == q + 1
                 w == U - v
      <4>1. v \in Nat /\ w \in Nat /\ U = v + w
        BY <2>1, <3>4, <3>5
      <4> HIDE DEF v, w
      <4>2. T * (v + w) = T * v + T * w /\ T * w \in Nat /\ T * v \in Nat
        BY <1>4, <4>1
      <4> QED BY <4>1, <4>2 DEF v
    <3>7. T * (q + 1) = T * q + T
      BY <1>4, <2>1
    <3>8. a + T <= P
      BY <2>1, <3>4, <3>6, <3>7
    <3> QED BY <1>1, <1>2, <1>3, <1>4, <3>8
  <2>3. P = T * U /\ U \in Nat \ {0}
    <3>1. m <= P
      <4> HIDE DEF m
      <4> QED BY <1>1, <1>2, <2>2
    <3> HIDE DEF m
    <3> QED BY <1>5, <1>6, <3>1
  <2>4. U <= q
    <3>1. T * U <= T * q
      BY <2>1, <2>2, <2>3
    <3> QED BY <1>4, <2>1, <2>3, <3>1
  <2> DEFINE r == q - U
  <2>5. r \in Nat /\ q = U + r
    BY <2>1, <2>3, <2>4
  <2> HIDE DEF r
  <2>6. a - P = T * r
    <3>1. T * (U + r) = T * U + T * r /\ T * U \in Nat /\ T * r \in Nat
      BY <1>4, <2>3, <2>5
    <3> QED BY <2>1, <2>3, <2>5, <3>1
  <2> DEFINE x == a - P
  <2>7. x = T * r
    BY <2>6
  <2> HIDE DEF x
  <2>8. x % T = 0
    BY <1>4, <2>5, <2>7, NoRest
  <2> QED BY <2>2, <2>8 DEF x
<1>10. ASSUME P <= a, (a - P) % T = 0 PROVE a % T = 0
  <2> DEFINE x == a - P
             r == x \div T
  <2>1. P = T * U /\ U \in Nat \ {0}
    <3>1. m <= P
      <4> HIDE DEF m
      <4> QED BY <1>1, <1>2, <1>10
    <3> HIDE DEF m
    <3> QED BY <1>5, <1>6, <3>1
  <2>2. x \in Nat /\ x % T = 0 /\ a = P + x
    BY <1>2, <1>10
  <2> HIDE DEF x
  <2>3. r \in Nat /\ x = T * r
    BY <1>4, <2>2, MultipleOf
  <2> HIDE DEF r
  <2>4. a = T * (U + r) /\ U + r \in Nat
    <3>1. T * (U + r) = T * U + T * r
      BY <1>4, <2>1, <2>3
    <3> QED BY <2>1, <2>2, <2>3, <3>1
  <2> DEFINE q == U + r
  <2>5. q \in Nat /\ a = T * q
    BY <2>4
  <2> HIDE DEF q
  <2> QED BY <1>4, <2>5, NoRest
<1> QED BY <1>7, <1>8, <1>9, <1>10
===============================================================================

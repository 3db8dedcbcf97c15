-------------------------- MODULE CertificateProofs --------------------------
(***************************************************************************)
(* The certificate codecs, for every octet string that is presented: a     *)
(* certificate the strict decoder accepts is the only encoding of what it  *)
(* says, its log entry and its key give back exactly it, and the encoder   *)
(* of the hash input in one pass agrees with the one in two on exactly the *)
(* entries that can be parsed without loss.                                *)
(*                                                                         *)
(* From the octets up.  A number is determined by its octets, and a value  *)
(* that was read strictly is the encoding of its tag and content; so the   *)
(* values of a sequence are determined by the octets they cover, and what  *)
(* is joined is read back as the values it was made of.  A canonical value *)
(* has canonical members, whose checks do not depend on where they were    *)
(* read.  The fields of a certificate are therefore items that             *)
(* to_log_entry leaves out, changes or keeps, and from_log_entry puts the  *)
(* same items together again.                                              *)
(*                                                                         *)
(* What is assumed: the octets that are presented leave room for a length  *)
(* in four octets once the digest of the key is added, the digest has      *)
(* HashSize octets, and for the single pass a short length can say so      *)
(* (SHA-256 gives 32).                                                     *)
(***************************************************************************)
EXTENDS MCCertificate, DataLemmas, FiniteSetTheorems

-----------------------------------------------------------------------------
(* Concatenations *)

\* The recursion that defines FlattenSeq has a solution.
LEMMA FlattenIs ==
  ASSUME NEW E, NEW s \in Seq(Seq(E)), s # <<>>
  PROVE  \E f \in [1 .. Len(s) -> Seq(E)] :
           /\ \A i \in 1 .. Len(s) : f[i] = IF i = 1 THEN s[i] ELSE f[i - 1] \o s[i]
           /\ FlattenSeq(s) = f[Len(s)]
<1> DEFINE n == Len(s)
           I == 1 .. n
           V == Seq(E)
           G(f, i) == IF i = 1 THEN s[i] ELSE f[i - 1] \o s[i]
           B == [p \in [I -> V] \X I |-> G(p[1], p[2])]
           rank == [i \in I |-> i]
           Good(f) == f = [i \in I |-> G(f, i)]
           c == CHOOSE f : Good(f)
<1>1. n \in Nat /\ n # 0 /\ \A i \in I : s[i] \in V
  BY EmptySeq, SeqEqual
<1> HIDE DEF n
<1>2. \A f \in [I -> V], i \in I : G(f, i) \in V
  <2> SUFFICES ASSUME NEW f \in [I -> V], NEW i \in I PROVE G(f, i) \in V
    OBVIOUS
  <2>1. CASE i = 1
    BY <1>1, <2>1
  <2>2. CASE i # 1
    <3>1. i - 1 \in I
      BY <1>1, <2>2
    <3>2. f[i - 1] \in V /\ s[i] \in V
      BY <1>1, <3>1
    <3>3. f[i - 1] \o s[i] \in V
      BY <3>2, ConcatProperties
    <3> QED BY <2>2, <3>3
  <2> QED BY <2>1, <2>2
<1>3. \E f : Solves(f, B, I, V)
  <2>1. s[1] \in V /\ rank \in [I -> 0 .. n]
    BY <1>1
  <2>2. B \in [[I -> V] \X I -> V]
    BY <1>2
  <2>3. GoesDown(B, I, V, rank)
    <3>1. SUFFICES ASSUME NEW f \in [I -> V], NEW g \in [I -> V], NEW i \in I,
                          \A j \in I : rank[j] < rank[i] => f[j] = g[j]
                   PROVE  B[<<f, i>>] = B[<<g, i>>]
      BY DEF GoesDown
    <3>2. B[<<f, i>>] = G(f, i) /\ B[<<g, i>>] = G(g, i)
      OBVIOUS
    <3>3. i # 1 => i - 1 \in I /\ f[i - 1] = g[i - 1]
      BY <1>1, <3>1
    <3> HIDE DEF B
    <3> QED BY <3>2, <3>3
  <2> HIDE DEF B, V, rank
  <2> QED BY <1>1, <2>1, <2>2, <2>3, RecursionExists
<1>4. \E f : Good(f)
  <2>1. PICK f : Solves(f, B, I, V)
    BY <1>3
  <2>2. f \in [I -> V] /\ \A i \in I : f[i] = B[<<f, i>>]
    BY <2>1 DEF Solves
  <2>3. \A i \in I : f[i] = G(f, i)
    BY <2>2
  <2> HIDE DEF G, B
  <2> QED BY <2>2, <2>3
<1>5. Good(c)
  <2> HIDE DEF Good
  <2> QED BY <1>4
<1>6. FlattenSeq(s) = c[n]
  BY <1>1 DEF FlattenSeq, n
<1>7. \A i \in I : c[i] = G(c, i)
  <2> HIDE DEF c, G
  <2> QED BY <1>5
<1>8. DOMAIN c = I
  <2> HIDE DEF c, G
  <2> QED BY <1>5
<1> HIDE DEF c
<1>9. \A i \in I : c[i] \in V
  <2> DEFINE S == { k \in Nat : k + 1 \in I => c[k + 1] \in V }
  <2>1. 0 \in S
    BY <1>1, <1>7
  <2>2. ASSUME NEW k \in Nat, k \in S PROVE k + 1 \in S
    <3> SUFFICES ASSUME (k + 1) + 1 \in I PROVE c[(k + 1) + 1] \in V
      OBVIOUS
    <3>1. k + 1 \in I /\ (k + 1) + 1 # 1 /\ ((k + 1) + 1) - 1 = k + 1
      BY <1>1
    <3>2. c[k + 1] \in V
      BY <2>2, <3>1
    <3>3. c[(k + 1) + 1] = c[k + 1] \o s[(k + 1) + 1]
      BY <1>7, <3>1
    <3> QED BY <1>1, <3>2, <3>3, ConcatProperties
  <2>3. \A k \in Nat : k \in S
    <3> HIDE DEF S
    <3> QED BY <2>1, <2>2, Induction
  <2>4. ASSUME NEW i \in I PROVE c[i] \in V
    <3>1. i - 1 \in Nat /\ (i - 1) + 1 = i
      BY <1>1
    <3> QED BY <2>3, <3>1
  <2> QED BY <2>4
<1>10. c \in [I -> V]
  <2> HIDE DEF G
  <2>1. c = [i \in I |-> c[i]]
    BY <1>5, <1>7
  <2> QED BY <1>9, <2>1
<1> QED BY <1>1, <1>6, <1>7, <1>10 DEF n

\* A concatenation grows with its last part.
LEMMA FlattenAppend ==
  ASSUME NEW E, NEW s \in Seq(Seq(E)), NEW e \in Seq(E)
  PROVE  /\ FlattenSeq(<<>>) = <<>>
         /\ FlattenSeq(s) \in Seq(E)
         /\ FlattenSeq(Append(s, e)) = FlattenSeq(s) \o e
<1>1. FlattenSeq(<<>>) = <<>>
  BY DEF FlattenSeq
<1>2. FlattenSeq(s) \in Seq(E)
  <2>1. CASE s = <<>>
    BY <1>1, <2>1, EmptySeq
  <2>2. CASE s # <<>>
    <3>1. PICK f \in [1 .. Len(s) -> Seq(E)] : FlattenSeq(s) = f[Len(s)]
      BY <2>2, FlattenIs
    <3>2. Len(s) \in 1 .. Len(s)
      BY <2>2, EmptySeq
    <3> QED BY <3>1, <3>2
  <2> QED BY <2>1, <2>2
<1> DEFINE t == Append(s, e)
           n == Len(s)
<1>3. t \in Seq(Seq(E)) /\ t # <<>> /\ Len(t) = n + 1 /\ (\A i \in 1 .. n : t[i] = s[i]) /\ t[n + 1] = e
  BY AppendProperties
<1>4. n \in Nat
  OBVIOUS
<1> HIDE DEF t, n
<1>5. PICK g \in [1 .. n + 1 -> Seq(E)] :
        /\ \A i \in 1 .. n + 1 : g[i] = IF i = 1 THEN t[i] ELSE g[i - 1] \o t[i]
        /\ FlattenSeq(t) = g[n + 1]
  <2>1. \E g \in [1 .. Len(t) -> Seq(E)] :
          /\ \A i \in 1 .. Len(t) : g[i] = IF i = 1 THEN t[i] ELSE g[i - 1] \o t[i]
          /\ FlattenSeq(t) = g[Len(t)]
    BY <1>3, FlattenIs
  <2> QED BY <1>3, <2>1
<1>6. CASE s = <<>>
  <2>1. n = 0
    BY <1>6 DEF n
  <2>2. FlattenSeq(t) = e
    BY <1>3, <1>5, <2>1
  <2>3. <<>> \o e = e
    BY ConcatEmptySeq
  <2> QED BY <1>1, <1>2, <1>6, <2>2, <2>3 DEF t
<1>7. CASE s # <<>>
  <2>1. PICK f \in [1 .. n -> Seq(E)] :
          /\ \A i \in 1 .. n : f[i] = IF i = 1 THEN s[i] ELSE f[i - 1] \o s[i]
          /\ FlattenSeq(s) = f[n]
    BY <1>7, FlattenIs DEF n
  <2>2. n # 0
    BY <1>7, EmptySeq DEF n
  <2> DEFINE S == { k \in Nat : k + 1 <= n => g[k + 1] = f[k + 1] }
  <2>3. 0 \in S
    <3>1. 1 \in 1 .. n /\ 1 \in 1 .. n + 1
      BY <1>4, <2>2
    <3>2. g[1] = t[1] /\ f[1] = s[1] /\ t[1] = s[1]
      BY <1>3, <1>5, <2>1, <3>1
    <3> QED BY <3>2
  <2>4. ASSUME NEW k \in Nat, k \in S PROVE k + 1 \in S
    <3> SUFFICES ASSUME (k + 1) + 1 <= n PROVE g[(k + 1) + 1] = f[(k + 1) + 1]
      OBVIOUS
    <3>1. g[k + 1] = f[k + 1]
      BY <2>4, <1>4
    <3> DEFINE j == (k + 1) + 1
    <3>2. j \in 1 .. n /\ j \in 1 .. n + 1 /\ j # 1 /\ j - 1 = k + 1
      BY <1>4
    <3> HIDE DEF j
    <3>3. g[j] = g[j - 1] \o t[j] /\ f[j] = f[j - 1] \o s[j] /\ t[j] = s[j]
      BY <1>3, <1>5, <2>1, <3>2
    <3>4. g[j] = f[j]
      BY <3>1, <3>2, <3>3
    <3> QED BY <3>4 DEF j
  <2>5. \A k \in Nat : k \in S
    <3> HIDE DEF S
    <3> QED BY <2>3, <2>4, Induction
  <2>6. g[n] = f[n]
    <3>1. n - 1 \in Nat /\ (n - 1) + 1 = n
      BY <1>4, <2>2
    <3>2. n - 1 \in S
      BY <2>5, <3>1
    <3> QED BY <1>4, <3>1, <3>2
  <2>7. g[n + 1] = g[n] \o t[n + 1]
    <3>1. n + 1 \in 1 .. n + 1 /\ n + 1 # 1 /\ (n + 1) - 1 = n
      BY <1>4, <2>2
    <3> QED BY <1>5, <3>1
  <2> QED BY <1>1, <1>2, <1>3, <1>5, <2>1, <2>6, <2>7 DEF t
<1> QED BY <1>6, <1>7

\* The first k + 1 elements of a sequence are the first k and one more.
LEMMA SegmentStep ==
  ASSUME NEW E, NEW t \in Seq(E), NEW k \in Nat, k + 1 <= Len(t)
  PROVE  /\ SubSeq(t, 1, k) \in Seq(E)
         /\ SubSeq(t, 1, k + 1) = Append(SubSeq(t, 1, k), t[k + 1])
         /\ t[k + 1] \in E
<1>1. k + 1 \in 1 .. Len(t) /\ (k + 1) - 1 = k /\ 1 \in 1 .. Len(t) /\ t[k + 1] \in E
  OBVIOUS
<1>2. SubSeq(t, 1, k) \in Seq(E)
  BY SubSeqProperties, \A i \in 1 .. k : t[i] \in E
<1>3. SubSeq(t, 1, k + 1) = SubSeq(t, 1, k) \o << t[k + 1] >>
  BY <1>1, SubSeqRecursiveSecond
<1> QED BY <1>1, <1>2, <1>3, AppendIsConcat

\* Appending to the second part of a concatenation appends to the whole.
LEMMA ConcatAppend ==
  ASSUME NEW E, NEW s \in Seq(E), NEW u \in Seq(E), NEW e \in E
  PROVE  s \o Append(u, e) = Append(s \o u, e) /\ s \o u \in Seq(E)
<1>1. <<e>> \in Seq(E) /\ s \o u \in Seq(E)
  BY ConcatProperties
<1>2. Append(u, e) = u \o <<e>> /\ Append(s \o u, e) = (s \o u) \o <<e>>
  BY <1>1, AppendIsConcat
<1>3. (s \o u) \o <<e>> = s \o (u \o <<e>>)
  BY <1>1, ConcatAssociative
<1> QED BY <1>1, <1>2, <1>3

\* Concatenation is associative.
LEMMA ConcatThree ==
  ASSUME NEW E, NEW a \in Seq(E), NEW b \in Seq(E), NEW c \in Seq(E)
  PROVE  (a \o b) \o c = a \o (b \o c)
BY ConcatAssociative

\* The concatenation of a part.
LEMMA FlattenType ==
  ASSUME NEW E, NEW s \in Seq(Seq(E))
  PROVE  FlattenSeq(s) \in Seq(E)
<1>1. <<>> \in Seq(E)
  BY EmptySeq
<1> QED BY <1>1, FlattenAppend

\* Two concatenations and one more part.
LEMMA FlattenThree ==
  ASSUME NEW E, NEW s \in Seq(Seq(E)), NEW u \in Seq(Seq(E)), NEW e \in Seq(E)
  PROVE  (FlattenSeq(s) \o FlattenSeq(u)) \o e = FlattenSeq(s) \o (FlattenSeq(u) \o e)
<1>1. FlattenSeq(s) \in Seq(E) /\ FlattenSeq(u) \in Seq(E)
  BY FlattenType
<1> QED BY <1>1, ConcatThree

\* One more part at the end.
LEMMA FlattenConcatStep ==
  ASSUME NEW E, NEW s \in Seq(Seq(E)), NEW u \in Seq(Seq(E)), NEW e \in Seq(E)
  PROVE  FlattenSeq(s \o u) = FlattenSeq(s) \o FlattenSeq(u)
           => FlattenSeq(s \o Append(u, e)) = FlattenSeq(s) \o FlattenSeq(Append(u, e))
<1>1. s \o Append(u, e) = Append(s \o u, e) /\ s \o u \in Seq(Seq(E))
  BY ConcatAppend
<1>2. FlattenSeq(Append(s \o u, e)) = FlattenSeq(s \o u) \o e
  BY <1>1, FlattenAppend
<1>3. FlattenSeq(Append(u, e)) = FlattenSeq(u) \o e
  BY FlattenAppend
<1>4. (FlattenSeq(s) \o FlattenSeq(u)) \o e = FlattenSeq(s) \o (FlattenSeq(u) \o e)
  BY FlattenThree
<1>5. ASSUME FlattenSeq(s \o u) = FlattenSeq(s) \o FlattenSeq(u)
      PROVE  FlattenSeq(s \o Append(u, e)) = FlattenSeq(s) \o FlattenSeq(Append(u, e))
  <2>1. FlattenSeq(s \o Append(u, e)) = FlattenSeq(s \o u) \o e
    BY <1>1, <1>2
  <2>2. FlattenSeq(s \o Append(u, e)) = (FlattenSeq(s) \o FlattenSeq(u)) \o e
    BY <1>5, <2>1
  <2> QED BY <1>3, <1>4, <2>2
<1> QED BY <1>5

\* FlattenSeq is a homomorphism.
LEMMA FlattenConcat ==
  ASSUME NEW E, NEW s \in Seq(Seq(E)), NEW t \in Seq(Seq(E))
  PROVE  FlattenSeq(s \o t) = FlattenSeq(s) \o FlattenSeq(t)
<1> DEFINE Holds == { k \in Nat : k <= Len(t) =>
                    FlattenSeq(s \o SubSeq(t, 1, k)) = FlattenSeq(s) \o FlattenSeq(SubSeq(t, 1, k)) }
<1>1. 0 \in Holds
  <2>1. SubSeq(t, 1, 0) = <<>>
    BY SubSeqEmpty
  <2>2. FlattenSeq(<<>>) = <<>> /\ s \o <<>> = s
    <3>1. <<>> \in Seq(E)
      BY EmptySeq
    <3> QED BY <3>1, FlattenAppend, ConcatEmptySeq
  <2>3. FlattenSeq(s) \o <<>> = FlattenSeq(s)
    BY FlattenType, ConcatEmptySeq
  <2> QED BY <2>1, <2>2, <2>3
<1>2. ASSUME NEW k \in Nat, k \in Holds PROVE k + 1 \in Holds
  <2> SUFFICES ASSUME k + 1 <= Len(t)
               PROVE  FlattenSeq(s \o SubSeq(t, 1, k + 1)) = FlattenSeq(s) \o FlattenSeq(SubSeq(t, 1, k + 1))
    OBVIOUS
  <2>1. /\ SubSeq(t, 1, k) \in Seq(Seq(E))
        /\ t[k + 1] \in Seq(E)
        /\ SubSeq(t, 1, k + 1) = Append(SubSeq(t, 1, k), t[k + 1])
    BY SegmentStep
  <2>2. FlattenSeq(s \o SubSeq(t, 1, k)) = FlattenSeq(s) \o FlattenSeq(SubSeq(t, 1, k))
    BY <1>2
  <2> HIDE DEF Holds
  <2>3. FlattenSeq(s \o Append(SubSeq(t, 1, k), t[k + 1])) = FlattenSeq(s) \o FlattenSeq(Append(SubSeq(t, 1, k), t[k + 1]))
    BY <2>1, <2>2, FlattenConcatStep
  <2> QED BY <2>1, <2>3
<1>3. \A k \in Nat : k \in Holds
  <2> HIDE DEF Holds
  <2> QED BY <1>1, <1>2, Induction
<1>4. SubSeq(t, 1, Len(t)) = t
  BY SubSeqFull
<1>5. Len(t) \in Nat
  OBVIOUS
<1>6. FlattenSeq(s \o SubSeq(t, 1, Len(t))) = FlattenSeq(s) \o FlattenSeq(SubSeq(t, 1, Len(t)))
  BY <1>3, <1>5
<1> QED BY <1>4, <1>6

\* The concatenation of one part.
LEMMA FlattenOne ==
  ASSUME NEW E, NEW e \in Seq(E)
  PROVE  FlattenSeq(<<e>>) = e /\ <<e>> \in Seq(Seq(E))
<1>1. <<>> \in Seq(Seq(E)) /\ Append(<<>>, e) = <<e>>
  BY EmptySeq
<1>2. FlattenSeq(<<>>) = <<>> /\ FlattenSeq(Append(<<>>, e)) = FlattenSeq(<<>>) \o e
  BY <1>1, FlattenAppend
<1>3. <<>> \o e = e
  BY ConcatEmptySeq
<1> QED BY <1>1, <1>2, <1>3

\* The concatenation of a first part and others.
LEMMA FlattenCons ==
  ASSUME NEW E, NEW e \in Seq(E), NEW s \in Seq(Seq(E))
  PROVE  FlattenSeq(<<e>> \o s) = e \o FlattenSeq(s)
<1>1. FlattenSeq(<<e>>) = e /\ <<e>> \in Seq(Seq(E))
  BY FlattenOne
<1>2. FlattenSeq(<<e>> \o s) = FlattenSeq(<<e>>) \o FlattenSeq(s)
  BY <1>1, FlattenConcat
<1> QED BY <1>1, <1>2

\* A part of a sequence.
LEMMA PartIs ==
  ASSUME NEW E, NEW d \in Seq(E), NEW i \in 1 .. Len(d) + 1, NEW j \in i - 1 .. Len(d)
  PROVE  /\ SubSeq(d, i, j) \in Seq(E)
         /\ Len(SubSeq(d, i, j)) = j - i + 1
         /\ \A k \in 1 .. j - i + 1 : SubSeq(d, i, j)[k] = d[i + k - 1]
<1>1. \A k \in i .. j : d[k] \in E
  OBVIOUS
<1>2. i \in Int /\ j \in Int
  OBVIOUS
<1>3. /\ SubSeq(d, i, j) \in Seq(E)
      /\ Len(SubSeq(d, i, j)) = IF i <= j THEN j - i + 1 ELSE 0
      /\ \A k \in 1 .. j - i + 1 : SubSeq(d, i, j)[k] = d[i + k - 1]
  BY <1>1, <1>2, SubSeqProperties
<1> QED BY <1>3

\* The parts of a concatenation.
LEMMA ConcatParts ==
  ASSUME NEW E, NEW a \in Seq(E), NEW b \in Seq(E)
  PROVE  /\ a \o b \in Seq(E)
         /\ Len(a \o b) = Len(a) + Len(b)
         /\ SubSeq(a \o b, 1, Len(a)) = a
         /\ SubSeq(a \o b, Len(a) + 1, Len(a) + Len(b)) = b
<1>1. /\ a \o b \in Seq(E)
      /\ Len(a \o b) = Len(a) + Len(b)
      /\ \A i \in 1 .. Len(a) + Len(b) : (a \o b)[i] = IF i <= Len(a) THEN a[i] ELSE b[i - Len(a)]
  BY ConcatProperties
<1> DEFINE w == a \o b
<1>2. Len(a) \in Nat /\ Len(b) \in Nat
  OBVIOUS
<1> HIDE DEF w
<1>3. SubSeq(w, 1, Len(a)) = a
  <2>1. 1 \in 1 .. Len(w) + 1 /\ Len(a) \in 1 - 1 .. Len(w)
    BY <1>1, <1>2 DEF w
  <2>2. /\ SubSeq(w, 1, Len(a)) \in Seq(E)
        /\ Len(SubSeq(w, 1, Len(a))) = Len(a)
        /\ \A k \in 1 .. Len(a) : SubSeq(w, 1, Len(a))[k] = w[k]
    BY <1>1, <2>1, PartIs DEF w
  <2>3. \A k \in 1 .. Len(a) : w[k] = a[k]
    BY <1>1, <1>2 DEF w
  <2> QED BY <2>2, <2>3, SeqEqual
<1>4. SubSeq(w, Len(a) + 1, Len(a) + Len(b)) = b
  <2>1. Len(a) + 1 \in 1 .. Len(w) + 1 /\ Len(a) + Len(b) \in (Len(a) + 1) - 1 .. Len(w)
    BY <1>1, <1>2 DEF w
  <2> DEFINE v == SubSeq(w, Len(a) + 1, Len(a) + Len(b))
  <2>2. /\ v \in Seq(E)
        /\ Len(v) = Len(b)
        /\ \A k \in 1 .. Len(b) : v[k] = w[Len(a) + k]
    BY <1>1, <2>1, PartIs DEF w
  <2>3. \A k \in 1 .. Len(b) : w[Len(a) + k] = b[k]
    <3> SUFFICES ASSUME NEW k \in 1 .. Len(b) PROVE w[Len(a) + k] = b[k]
      OBVIOUS
    <3>1. Len(a) + k \in 1 .. Len(a) + Len(b) /\ ~(Len(a) + k <= Len(a)) /\ (Len(a) + k) - Len(a) = k
      BY <1>2
    <3> QED BY <1>1, <3>1 DEF w
  <2> HIDE DEF v
  <2>4. v = b
    BY <2>2, <2>3, SeqEqual
  <2> QED BY <2>4 DEF v
<1> QED BY <1>1, <1>3, <1>4 DEF w

\* Two ways to read one concatenation agree if the first parts are equally long.
LEMMA ConcatCancel ==
  ASSUME NEW E, NEW a \in Seq(E), NEW b \in Seq(E), NEW c \in Seq(E), NEW d \in Seq(E)
  PROVE  Len(a) = Len(c) /\ a \o b = c \o d => a = c /\ b = d
<1>1. /\ SubSeq(a \o b, 1, Len(a)) = a
      /\ SubSeq(a \o b, Len(a) + 1, Len(a) + Len(b)) = b
      /\ Len(a \o b) = Len(a) + Len(b)
  BY ConcatParts
<1>2. /\ SubSeq(c \o d, 1, Len(c)) = c
      /\ SubSeq(c \o d, Len(c) + 1, Len(c) + Len(d)) = d
      /\ Len(c \o d) = Len(c) + Len(d)
  BY ConcatParts
<1>3. Len(a) \in Nat /\ Len(b) \in Nat /\ Len(d) \in Nat
  OBVIOUS
<1> DEFINE v == a \o b
           w == c \o d
<1> HIDE DEF v, w
<1>4. /\ SubSeq(v, 1, Len(a)) = a
      /\ SubSeq(v, Len(a) + 1, Len(a) + Len(b)) = b
      /\ Len(v) = Len(a) + Len(b)
      /\ SubSeq(w, 1, Len(c)) = c
      /\ SubSeq(w, Len(c) + 1, Len(c) + Len(d)) = d
      /\ Len(w) = Len(c) + Len(d)
  BY <1>1, <1>2 DEF v, w
<1>5. ASSUME Len(a) = Len(c), v = w PROVE a = c /\ b = d
  <2>1. Len(b) = Len(d)
    BY <1>3, <1>4, <1>5
  <2> QED BY <1>4, <1>5, <2>1
<1> QED BY <1>5 DEF v, w

\* A part of a sequence, cut in two.
LEMMA PartCut ==
  ASSUME NEW E, NEW d \in Seq(E), NEW i \in 1 .. Len(d) + 1, NEW k \in i - 1 .. Len(d), NEW j \in k .. Len(d)
  PROVE  SubSeq(d, i, j) = SubSeq(d, i, k) \o SubSeq(d, k + 1, j)
BY ConcatAdjacentSubSeq

\* A part of a part.
LEMMA PartOfPart ==
  ASSUME NEW E, NEW d \in Seq(E), NEW i \in 1 .. Len(d) + 1, NEW j \in i - 1 .. Len(d),
         NEW p \in 1 .. (j - i + 1) + 1, NEW q \in p - 1 .. j - i + 1
  PROVE  SubSeq(SubSeq(d, i, j), p, q) = SubSeq(d, i + p - 1, i + q - 1)
<1> DEFINE w == SubSeq(d, i, j)
           u == SubSeq(w, p, q)
           v == SubSeq(d, i + p - 1, i + q - 1)
<1>1. /\ w \in Seq(E)
      /\ Len(w) = j - i + 1
      /\ \A k \in 1 .. j - i + 1 : w[k] = d[i + k - 1]
  BY PartIs
<1> HIDE DEF w
<1>2. p \in 1 .. Len(w) + 1 /\ q \in p - 1 .. Len(w)
  BY <1>1
<1>3. /\ u \in Seq(E)
      /\ Len(u) = q - p + 1
      /\ \A k \in 1 .. q - p + 1 : u[k] = w[p + k - 1]
  BY <1>1, <1>2, PartIs
<1> DEFINE m == i + p - 1
           n == i + q - 1
<1>4. m \in 1 .. Len(d) + 1 /\ n \in m - 1 .. Len(d) /\ n - m + 1 = q - p + 1
  OBVIOUS
<1>5. /\ v \in Seq(E)
      /\ Len(v) = n - m + 1
      /\ \A k \in 1 .. n - m + 1 : v[k] = d[m + k - 1]
  <2> HIDE DEF m, n
  <2>1. /\ SubSeq(d, m, n) \in Seq(E)
        /\ Len(SubSeq(d, m, n)) = n - m + 1
        /\ \A k \in 1 .. n - m + 1 : SubSeq(d, m, n)[k] = d[m + k - 1]
    BY <1>4, PartIs
  <2>2. v = SubSeq(d, m, n)
    BY DEF m, n
  <2> HIDE DEF v
  <2> QED BY <2>1, <2>2
<1> HIDE DEF u, v
<1>6. ASSUME NEW k \in 1 .. q - p + 1 PROVE u[k] = v[k]
  <2>1. p + k - 1 \in 1 .. j - i + 1 /\ i + (p + k - 1) - 1 = m + k - 1
    OBVIOUS
  <2>2. w[p + k - 1] = d[m + k - 1]
    BY <1>1, <2>1
  <2>3. k \in 1 .. n - m + 1
    BY <1>4
  <2> QED BY <1>3, <1>5, <2>2, <2>3
<1>7. u = v
  <2>1. Len(u) = Len(v) /\ \A k \in 1 .. Len(u) : u[k] = v[k]
    <3> HIDE DEF m, n
    <3> QED BY <1>3, <1>4, <1>5, <1>6
  <2> QED BY <1>3, <1>5, <2>1, SeqEqual
<1> QED BY <1>7 DEF u, v, w

\* The elements of a concatenation.
LEMMA ConcatElements ==
  ASSUME NEW E, NEW a \in Seq(E), NEW b \in Seq(E)
  PROVE  /\ \A k \in 1 .. Len(a) : (a \o b)[k] = a[k]
         /\ \A k \in 1 .. Len(b) : (a \o b)[Len(a) + k] = b[k]
<1>1. \A i \in 1 .. Len(a) + Len(b) : (a \o b)[i] = IF i <= Len(a) THEN a[i] ELSE b[i - Len(a)]
  BY ConcatProperties
<1> DEFINE w == a \o b
<1>2. Len(a) \in Nat /\ Len(b) \in Nat
  OBVIOUS
<1> HIDE DEF w
<1>3. \A i \in 1 .. Len(a) + Len(b) : w[i] = IF i <= Len(a) THEN a[i] ELSE b[i - Len(a)]
  BY <1>1 DEF w
<1>4. \A k \in 1 .. Len(a) : w[k] = a[k]
  BY <1>2, <1>3
<1>5. ASSUME NEW k \in 1 .. Len(b) PROVE w[Len(a) + k] = b[k]
  <2>1. Len(a) + k \in 1 .. Len(a) + Len(b) /\ ~(Len(a) + k <= Len(a)) /\ (Len(a) + k) - Len(a) = k
    BY <1>2
  <2> QED BY <1>3, <2>1
<1> QED BY <1>4, <1>5 DEF w

\* The one-element sequences.
LEMMA OneIs ==
  ASSUME NEW E, NEW e \in E
  PROVE  <<e>> \in Seq(E) /\ Len(<<e>>) = 1 /\ <<e>>[1] = e
OBVIOUS

\* One element before the others.
LEMMA ConsElements ==
  ASSUME NEW E, NEW e \in E, NEW s \in Seq(E)
  PROVE  /\ <<e>> \o s \in Seq(E)
         /\ Len(<<e>> \o s) = 1 + Len(s)
         /\ (<<e>> \o s)[1] = e
         /\ \A j \in 1 .. Len(s) : (<<e>> \o s)[1 + j] = s[j]
         /\ SubSeq(<<e>> \o s, 2, 1 + Len(s)) = s
<1> DEFINE a == <<e>>
<1>1. a \in Seq(E) /\ Len(a) = 1 /\ a[1] = e /\ 1 \in 1 .. Len(a)
  OBVIOUS
<1> HIDE DEF a
<1>2. /\ a \o s \in Seq(E)
      /\ Len(a \o s) = Len(a) + Len(s)
      /\ SubSeq(a \o s, Len(a) + 1, Len(a) + Len(s)) = s
  <2>1. a \in Seq(E)
    BY <1>1
  <2> QED BY <2>1, ConcatParts
<1>3. /\ \A k \in 1 .. Len(a) : (a \o s)[k] = a[k]
      /\ \A k \in 1 .. Len(s) : (a \o s)[Len(a) + k] = s[k]
  <2>1. a \in Seq(E)
    BY <1>1
  <2> QED BY <2>1, ConcatElements
<1> DEFINE w == a \o s
<1> HIDE DEF w
<1>4. /\ w \in Seq(E)
      /\ Len(w) = Len(a) + Len(s)
      /\ SubSeq(w, Len(a) + 1, Len(a) + Len(s)) = s
      /\ \A k \in 1 .. Len(a) : w[k] = a[k]
      /\ \A k \in 1 .. Len(s) : w[Len(a) + k] = s[k]
  BY <1>2, <1>3 DEF w
<1>5. w \in Seq(E) /\ Len(w) = 1 + Len(s) /\ w[1] = e /\ SubSeq(w, 2, 1 + Len(s)) = s
  BY <1>1, <1>4
<1>6. \A k \in 1 .. Len(s) : w[1 + k] = s[k]
  BY <1>1, <1>4
<1> QED BY <1>5, <1>6 DEF w, a

\* Two elements.
LEMMA PairIs ==
  ASSUME NEW E, NEW a \in E, NEW b \in E
  PROVE  <<a>> \o <<b>> = <<a, b>>
<1>1. Append(<<a>>, b) = <<a>> \o <<b>>
  <2>1. <<a>> \in Seq(E)
    OBVIOUS
  <2> QED BY <2>1, AppendIsConcat
<1>2. Append(<<a>>, b) = <<a, b>>
  <2> DEFINE s == <<a>>
             p == Append(s, b)
             q == <<a, b>>
  <2>1. s \in Seq(E) /\ Len(s) = 1 /\ s[1] = a
    OBVIOUS
  <2>2. q \in Seq(E) /\ Len(q) = 2 /\ q[1] = a /\ q[2] = b
    OBVIOUS
  <2> HIDE DEF s, q
  <2>3. p \in Seq(E) /\ Len(p) = Len(s) + 1 /\ (\A i \in 1 .. Len(s) : p[i] = s[i]) /\ p[Len(s) + 1] = b
    <3>1. s \in Seq(E)
      BY <2>1
    <3> QED BY <3>1, AppendProperties
  <2> HIDE DEF p
  <2>4. Len(p) = 2 /\ p[1] = a /\ p[2] = b
    BY <2>1, <2>3
  <2>5. \A i \in 1 .. Len(p) : p[i] = q[i]
    BY <2>2, <2>4
  <2>6. p = q
    BY <2>2, <2>3, <2>4, <2>5, SeqEqual
  <2> QED BY <2>6 DEF p, q, s
<1> QED BY <1>1, <1>2

\* Induction up to a number.
LEMMA InductionUpTo ==
  ASSUME NEW n \in Nat, NEW H, 0 \in H, \A k \in 0 .. n - 1 : k \in H => k + 1 \in H
  PROVE  \A k \in 0 .. n : k \in H
<1> DEFINE S == { k \in Nat : k <= n => k \in H }
<1>1. 0 \in S
  OBVIOUS
<1>2. \A k \in Nat : k \in S => k + 1 \in S
  OBVIOUS
<1>3. \A k \in Nat : k \in S
  <2> HIDE DEF S
  <2> QED BY <1>1, <1>2, Induction
<1> QED BY <1>3

\* Each value from the one before it.
IsChain(f, n, V, v, F) ==
  f \in [0 .. n -> V] /\ f[0] = v /\ \A k \in 1 .. n : f[k] = F[<<k, f[k - 1]>>]

\* A chain starts with any value.
LEMMA ChainExists ==
  ASSUME NEW n \in Nat, NEW V, NEW v \in V, NEW F \in [(1 .. n) \X V -> V]
  PROVE  \E f : IsChain(f, n, V, v, F)
<1> DEFINE H == { k \in 0 .. n : \E f \in [0 .. n -> V] :
                    f[0] = v /\ \A j \in 1 .. k : f[j] = F[<<j, f[j - 1]>>] }
<1>1. 0 \in H
  <2> DEFINE g == [k \in 0 .. n |-> v]
  <2>1. g \in [0 .. n -> V] /\ g[0] = v /\ 0 \in 0 .. n
    OBVIOUS
  <2> HIDE DEF g
  <2>2. \A j \in 1 .. 0 : g[j] = F[<<j, g[j - 1]>>]
    OBVIOUS
  <2> QED BY <2>1, <2>2
<1>2. ASSUME NEW k \in 0 .. n - 1, k \in H PROVE k + 1 \in H
  <2>1. PICK f \in [0 .. n -> V] : f[0] = v /\ \A j \in 1 .. k : f[j] = F[<<j, f[j - 1]>>]
    BY <1>2
  <2> DEFINE g == [i \in 0 .. n |-> IF i = k + 1 THEN F[<<k + 1, f[k]>>] ELSE f[i]]
  <2>2. F[<<k + 1, f[k]>>] \in V
    OBVIOUS
  <2>3. g \in [0 .. n -> V] /\ g[0] = v
    BY <2>1, <2>2
  <2>4. g[k + 1] = F[<<k + 1, f[k]>>] /\ \A i \in 0 .. k : g[i] = f[i]
    OBVIOUS
  <2> HIDE DEF g
  <2>5. ASSUME NEW j \in 1 .. k + 1 PROVE g[j] = F[<<j, g[j - 1]>>]
    <3>1. CASE j = k + 1
      <4>1. j - 1 = k /\ k \in 0 .. k
        BY <3>1
      <4> QED BY <2>4, <3>1, <4>1
    <3>2. CASE j # k + 1
      <4>1. j \in 1 .. k /\ j \in 0 .. k /\ j - 1 \in 0 .. k
        BY <3>2
      <4> QED BY <2>1, <2>4, <4>1
    <3> QED BY <3>1, <3>2
  <2>6. k + 1 \in 0 .. n
    OBVIOUS
  <2> QED BY <2>3, <2>5, <2>6
<1>3. n \in H
  <2>1. n \in 0 .. n
    OBVIOUS
  <2> HIDE DEF H
  <2> QED BY <1>1, <1>2, <2>1, InductionUpTo
<1> QED BY <1>3 DEF IsChain

-----------------------------------------------------------------------------
(* Octets and numbers *)

\* The recursion of ValueOf.
LEMMA ValueOfIs ==
  ASSUME NEW s \in Seq(Octet)
  PROVE  \E f \in [0 .. Len(s) -> Nat] :
           /\ f[0] = 0
           /\ \A k \in 1 .. Len(s) : f[k] = 256 * f[k - 1] + s[k]
           /\ ValueOf(s) = f[Len(s)]
<1> DEFINE n == Len(s)
           Good(f) == f = [k \in 0 .. n |-> IF k = 0 THEN 0 ELSE 256 * f[k - 1] + s[k]]
           c == CHOOSE f : Good(f)
           F == [p \in (1 .. n) \X Nat |-> 256 * p[2] + s[p[1]]]
<1>1. n \in Nat /\ \A k \in 1 .. n : s[k] \in Nat
  <2>1. n \in Nat /\ \A k \in 1 .. n : s[k] \in Octet
    <3> HIDE DEF c, F, Good
    <3> QED BY LenProperties, ElementOfSeq
  <2>2. \A o \in Octet : o \in Nat
    BY DEF Octet
  <2> HIDE DEF n
  <2> QED BY <2>1, <2>2
<1> HIDE DEF n
<1>2. F \in [(1 .. n) \X Nat -> Nat]
  BY <1>1
<1>3. PICK g \in [0 .. n -> Nat] : g[0] = 0 /\ \A k \in 1 .. n : g[k] = F[<<k, g[k - 1]>>]
  <2>1. 0 \in Nat
    OBVIOUS
  <2>2. n \in Nat
    BY <1>1
  <2> DEFINE V == Nat
             v == 0
  <2>3. F \in [(1 .. n) \X V -> V] /\ v \in V
    BY <1>2, <2>1
  <2> HIDE DEF F, c, Good, V, v
  <2>4. \E g : IsChain(g, n, V, v, F)
    BY <2>2, <2>3, ChainExists
  <2> QED BY <2>4 DEF V, v, IsChain
<1>4. \A k \in 1 .. n : g[k] = 256 * g[k - 1] + s[k]
  <2>1. \A k \in 1 .. n : <<k, g[k - 1]>> \in (1 .. n) \X Nat
    BY <1>1
  <2> QED BY <1>3, <2>1
<1>5. Good(g)
  <2>1. \A k \in 0 .. n : g[k] = IF k = 0 THEN 0 ELSE 256 * g[k - 1] + s[k]
    BY <1>1, <1>3, <1>4
  <2> QED BY <1>3, <2>1
<1>6. Good(c)
  <2> HIDE DEF Good
  <2> QED BY <1>5
<1>7. ValueOf(s) = c[n]
  BY DEF ValueOf, n
<1> HIDE DEF c
<1>8. \A k \in 0 .. n : c[k] = IF k = 0 THEN 0 ELSE 256 * c[k - 1] + s[k]
  BY <1>6
<1>9. DOMAIN c = 0 .. n
  BY <1>6
<1>10. \A k \in 0 .. n : c[k] \in Nat
  <2> DEFINE H == { k \in 0 .. n : c[k] \in Nat }
  <2>1. 0 \in H
    BY <1>1, <1>8
  <2>2. ASSUME NEW k \in 0 .. n - 1, k \in H PROVE k + 1 \in H
    <3>1. k + 1 \in 0 .. n /\ k + 1 # 0 /\ (k + 1) - 1 = k /\ k + 1 \in 1 .. n
      BY <1>1
    <3>2. c[k + 1] = 256 * c[k] + s[k + 1]
      BY <1>8, <3>1
    <3>3. c[k] \in Nat /\ s[k + 1] \in Nat
      BY <1>1, <2>2, <3>1
    <3> QED BY <3>1, <3>2, <3>3
  <2>3. \A k \in 0 .. n : k \in H
    <3> HIDE DEF H
    <3> QED BY <1>1, <2>1, <2>2, InductionUpTo
  <2> QED BY <2>3
<1>11. c = [k \in 0 .. n |-> c[k]]
  <2> HIDE DEF c
  <2> QED BY <1>6, <1>8
<1>12. c \in [0 .. n -> Nat]
  BY <1>10, <1>11
<1>13. c[0] = 0 /\ \A k \in 1 .. n : c[k] = 256 * c[k - 1] + s[k]
  <2> HIDE DEF Good
  <2> QED BY <1>1, <1>8
<1> HIDE DEF Good, F
<1> QED BY <1>7, <1>12, <1>13 DEF n

\* The value of octets and one more.
LEMMA ValueOfAppend ==
  ASSUME NEW s \in Seq(Octet)
  PROVE  /\ ValueOf(<<>>) = 0
         /\ ValueOf(s) \in Nat
         /\ \A o \in Octet : ValueOf(Append(s, o)) = 256 * ValueOf(s) + o
<1>1. ValueOf(<<>>) = 0
  <2> DEFINE t == <<>>
  <2>1. t \in Seq(Octet) /\ Len(t) = 0
    BY EmptySeq
  <2> HIDE DEF t
  <2>2. PICK f \in [0 .. Len(t) -> Nat] : f[0] = 0 /\ ValueOf(t) = f[Len(t)]
    BY <2>1, ValueOfIs
  <2>3. ValueOf(t) = 0
    BY <2>1, <2>2
  <2> QED BY <2>3 DEF t
<1>2. PICK f \in [0 .. Len(s) -> Nat] :
        /\ f[0] = 0
        /\ \A k \in 1 .. Len(s) : f[k] = 256 * f[k - 1] + s[k]
        /\ ValueOf(s) = f[Len(s)]
  BY ValueOfIs
<1>3. Len(s) \in Nat /\ ValueOf(s) \in Nat
  BY <1>2
<1>4. ASSUME NEW o \in Octet PROVE ValueOf(Append(s, o)) = 256 * ValueOf(s) + o
  <2> DEFINE t == Append(s, o)
             n == Len(s)
  <2>1. t \in Seq(Octet) /\ Len(t) = n + 1 /\ (\A k \in 1 .. n : t[k] = s[k]) /\ t[n + 1] = o
    BY AppendProperties
  <2> HIDE DEF t
  <2>2. PICK g \in [0 .. n + 1 -> Nat] :
          /\ g[0] = 0
          /\ \A k \in 1 .. n + 1 : g[k] = 256 * g[k - 1] + t[k]
          /\ ValueOf(t) = g[n + 1]
    <3>1. \E g \in [0 .. Len(t) -> Nat] :
            /\ g[0] = 0
            /\ \A k \in 1 .. Len(t) : g[k] = 256 * g[k - 1] + t[k]
            /\ ValueOf(t) = g[Len(t)]
      BY <2>1, ValueOfIs
    <3> QED BY <2>1, <3>1
  <2> DEFINE H == { k \in 0 .. n : g[k] = f[k] }
  <2>3. n \in H
    <3>0. n \in Nat
      OBVIOUS
    <3> HIDE DEF n
    <3>1. 0 \in H
      BY <1>2, <2>2, <3>0
    <3>2. ASSUME NEW k \in 0 .. n - 1, k \in H PROVE k + 1 \in H
      <4>1. k + 1 \in 1 .. n /\ k + 1 \in 1 .. n + 1 /\ (k + 1) - 1 = k /\ k + 1 \in 0 .. n
        BY <3>0
      <4>2. g[k + 1] = 256 * g[k] + t[k + 1] /\ f[k + 1] = 256 * f[k] + s[k + 1] /\ t[k + 1] = s[k + 1]
        BY <1>2, <2>1, <2>2, <4>1 DEF n
      <4> QED BY <3>2, <4>1, <4>2
    <3>3. \A k \in 0 .. n : k \in H
      <4> HIDE DEF H
      <4> QED BY <3>0, <3>1, <3>2, InductionUpTo
    <3> QED BY <3>0, <3>3
  <2>4. g[n + 1] = 256 * g[n] + o
    <3>1. n + 1 \in 1 .. n + 1 /\ (n + 1) - 1 = n
      BY <1>3
    <3> QED BY <2>1, <2>2, <3>1
  <2> QED BY <1>2, <2>2, <2>3, <2>4 DEF t
<1> QED BY <1>1, <1>3, <1>4

\* A sequence with elements is its front and its last element.
LEMMA FrontAndLast ==
  ASSUME NEW E, NEW s \in Seq(E), NEW k \in Nat
  PROVE  Len(s) = k + 1 => \E u \in Seq(E), e \in E : s = Append(u, e) /\ Len(u) = k
<1> SUFFICES ASSUME Len(s) = k + 1 PROVE \E u \in Seq(E), e \in E : s = Append(u, e) /\ Len(u) = k
  OBVIOUS
<1>1. s # <<>>
  OBVIOUS
<1>2. PICK u \in Seq(E), e \in E : s = Append(u, e)
  BY <1>1, SequenceEmptyOrAppend
<1>3. Len(Append(u, e)) = Len(u) + 1
  BY AppendProperties
<1>4. Len(s) = Len(u) + 1 /\ Len(u) \in Nat
  BY <1>2, <1>3
<1> QED BY <1>2, <1>4

\* 1 << 8 * (k + 1)
LEMMA Pow2Octet ==
  ASSUME NEW k \in Nat
  PROVE  /\ Pow2[0] = 1 /\ Pow2[8] = 256 /\ Pow2[8 * 0] = 1
         /\ 8 * k \in Nat /\ 8 * (k + 1) \in Nat
         /\ Pow2[8 * k] \in Nat \ {0}
         /\ Pow2[8 * (k + 1)] = 256 * Pow2[8 * k]
<1>1. Pow2[8] = 256
  <2>1. Pow2[0] = 1 /\ Pow2[0 + 1] = 2 * Pow2[0] /\ Pow2[1 + 1] = 2 * Pow2[1] /\ Pow2[2 + 1] = 2 * Pow2[2]
        /\ Pow2[3 + 1] = 2 * Pow2[3] /\ Pow2[4 + 1] = 2 * Pow2[4] /\ Pow2[5 + 1] = 2 * Pow2[5]
        /\ Pow2[6 + 1] = 2 * Pow2[6] /\ Pow2[7 + 1] = 2 * Pow2[7]
    BY Pow2Positive
  <2> QED BY <2>1
<1>2. 8 * k \in Nat /\ 8 \in Nat /\ 8 * (k + 1) = 8 + 8 * k
  OBVIOUS
<1>3. Pow2[8 + 8 * k] = Pow2[8] * Pow2[8 * k]
  BY <1>2, Pow2Add
<1> QED BY <1>1, <1>2, <1>3, Pow2Positive

\* The value of octets is less than the number of their values, and at least the
\* number of the values of the others if the first is not zero.
LEMMA ValueOfBounds ==
  ASSUME NEW s \in Seq(Octet)
  PROVE  /\ ValueOf(s) \in Nat
         /\ ValueOf(s) < Pow2[8 * Len(s)]
         /\ Len(s) # 0 /\ s[1] # 0 => Pow2[8 * (Len(s) - 1)] <= ValueOf(s)
<1> DEFINE Bounded(t) == /\ ValueOf(t) < Pow2[8 * Len(t)]
                         /\ Len(t) # 0 /\ t[1] # 0 => Pow2[8 * (Len(t) - 1)] <= ValueOf(t)
           H == { k \in Nat : \A t \in Seq(Octet) : Len(t) = k => Bounded(t) }
<1>1. 0 \in H
  <2> SUFFICES ASSUME NEW t \in Seq(Octet), Len(t) = 0 PROVE Bounded(t)
    OBVIOUS
  <2>1. ValueOf(<<>>) = 0 /\ t = <<>>
    BY ValueOfAppend
  <2>2. Pow2[8 * 0] = 1
    BY Pow2Octet
  <2> QED BY <2>1, <2>2
<1>2. ASSUME NEW k \in Nat, k \in H PROVE k + 1 \in H
  <2> SUFFICES ASSUME NEW t \in Seq(Octet), Len(t) = k + 1 PROVE Bounded(t)
    OBVIOUS
  <2>1. PICK u \in Seq(Octet), o \in Octet : t = Append(u, o) /\ Len(u) = k
    BY FrontAndLast
  <2>2. Bounded(u)
    BY <1>2, <2>1
  <2>3. ValueOf(t) = 256 * ValueOf(u) + o /\ ValueOf(u) \in Nat
    BY <2>1, ValueOfAppend
  <2>4. Pow2[8 * (k + 1)] = 256 * Pow2[8 * k] /\ Pow2[8 * k] \in Nat
    BY Pow2Octet
  <2>5. ValueOf(u) < Pow2[8 * k]
    BY <2>1, <2>2
  <2>6. ValueOf(t) < Pow2[8 * (k + 1)] /\ o \in 0 .. 255 /\ ValueOf(t) \in Nat
    <3> DEFINE p == Pow2[8 * k]
               v == ValueOf(u)
    <3>1. p \in Nat /\ v \in Nat /\ v < p /\ o \in 0 .. 255
      BY <2>3, <2>4, <2>5 DEF Octet
    <3> HIDE DEF p, v
    <3>2. 256 * v + o < 256 * p /\ 256 * v + o \in Nat
      BY <3>1
    <3> QED BY <2>3, <2>4, <3>1, <3>2 DEF p, v
  <2>7. ASSUME t[1] # 0 PROVE Pow2[8 * k] <= ValueOf(t)
    <3>1. CASE k = 0
      <4>1. t[1] = o
        BY <2>1, <3>1, AppendProperties
      <4>2. Pow2[8 * k] = 1
        BY <3>1, Pow2Octet
      <4>3. o # 0 /\ o \in Nat
        BY <2>6, <2>7, <4>1
      <4>4. 256 * ValueOf(u) + o >= 1
        BY <2>3, <4>3
      <4> QED BY <2>3, <4>2, <4>4
    <3>2. CASE k # 0
      <4>1. t[1] = u[1]
        BY <2>1, <3>2, AppendProperties
      <4>2. Pow2[8 * (k - 1)] <= ValueOf(u)
        BY <2>1, <2>2, <2>7, <3>2, <4>1
      <4>3. k - 1 \in Nat /\ (k - 1) + 1 = k
        BY <3>2
      <4>4. Pow2[8 * k] = 256 * Pow2[8 * (k - 1)] /\ Pow2[8 * (k - 1)] \in Nat
        <5> DEFINE i == k - 1
        <5>1. i \in Nat /\ k = i + 1
          BY <4>3
        <5> HIDE DEF i
        <5>2. Pow2[8 * (i + 1)] = 256 * Pow2[8 * i] /\ Pow2[8 * i] \in Nat
          BY <5>1, Pow2Octet
        <5> QED BY <5>1, <5>2 DEF i
      <4> DEFINE p == Pow2[8 * (k - 1)]
                 v == ValueOf(u)
      <4>5. p \in Nat /\ v \in Nat /\ p <= v /\ o \in Nat
        BY <2>3, <2>6, <4>2, <4>4
      <4> HIDE DEF p, v
      <4>6. 256 * p <= 256 * v + o
        BY <4>5
      <4> QED BY <2>3, <4>4, <4>6 DEF p, v
    <3> QED BY <3>1, <3>2
  <2>8. Len(t) = k + 1 /\ (k + 1) - 1 = k
    OBVIOUS
  <2> QED BY <2>6, <2>7, <2>8
<1>3. \A k \in Nat : k \in H
  <2> HIDE DEF H
  <2> QED BY <1>1, <1>2, Induction
<1>4. Len(s) \in Nat /\ ValueOf(s) \in Nat
  BY ValueOfAppend
<1>5. Bounded(s)
  <2> HIDE DEF Bounded
  <2> QED BY <1>3, <1>4
<1> QED BY <1>4, <1>5

\* Octet strings of one length with one value are equal.
LEMMA ValueOfInjective ==
  ASSUME NEW s \in Seq(Octet), NEW t \in Seq(Octet)
  PROVE  Len(s) = Len(t) /\ ValueOf(s) = ValueOf(t) => s = t
<1> DEFINE H == { k \in Nat : \A u, v \in Seq(Octet) :
                    Len(u) = k /\ Len(v) = k /\ ValueOf(u) = ValueOf(v) => u = v }
<1>1. 0 \in H
  OBVIOUS
<1>2. ASSUME NEW k \in Nat, k \in H PROVE k + 1 \in H
  <2> SUFFICES ASSUME NEW u \in Seq(Octet), NEW v \in Seq(Octet), Len(u) = k + 1, Len(v) = k + 1,
                      ValueOf(u) = ValueOf(v)
               PROVE  u = v
    OBVIOUS
  <2>1. PICK a \in Seq(Octet), o \in Octet : u = Append(a, o) /\ Len(a) = k
    BY FrontAndLast
  <2>2. PICK b \in Seq(Octet), p \in Octet : v = Append(b, p) /\ Len(b) = k
    BY FrontAndLast
  <2>3. ValueOf(u) = 256 * ValueOf(a) + o /\ ValueOf(a) \in Nat
    BY <2>1, ValueOfAppend
  <2>4. ValueOf(v) = 256 * ValueOf(b) + p /\ ValueOf(b) \in Nat
    BY <2>2, ValueOfAppend
  <2>5. ValueOf(a) = ValueOf(b) /\ o = p
    <3> DEFINE x == ValueOf(a)
               y == ValueOf(b)
    <3>1. x \in Nat /\ y \in Nat /\ 256 * x + o = 256 * y + p
      BY <2>3, <2>4
    <3>2. o \in 0 .. 255 /\ p \in 0 .. 255
      BY DEF Octet
    <3> HIDE DEF x, y
    <3>3. (256 * x + o) \div 256 = x /\ (256 * y + p) \div 256 = y
      <4>1. 256 \in Nat \ {0} /\ 256 * x + o \in Nat /\ 256 * y + p \in Nat
        BY <3>1, <3>2
      <4>2. 256 * x <= 256 * x + o /\ 256 * x + o < 256 * x + 256 /\ 256 * y <= 256 * y + p /\ 256 * y + p < 256 * y + 256
        BY <3>1, <3>2
      <4>3. (256 * x + o) \div 256 = x
        <5> DEFINE z == 256 * x + o
        <5>1. z \in Nat /\ 256 * x <= z /\ z < 256 * x + 256
          BY <4>1, <4>2
        <5> HIDE DEF z
        <5>2. z \div 256 = x
          BY <3>1, <4>1, <5>1, DivUnique
        <5> QED BY <5>2 DEF z
      <4>4. (256 * y + p) \div 256 = y
        <5> DEFINE z == 256 * y + p
        <5>1. z \in Nat /\ 256 * y <= z /\ z < 256 * y + 256
          BY <4>1, <4>2
        <5> HIDE DEF z
        <5>2. z \div 256 = y
          BY <3>1, <4>1, <5>1, DivUnique
        <5> QED BY <5>2 DEF z
      <4> QED BY <4>3, <4>4
    <3>4. x = y
      BY <3>1, <3>3
    <3>5. o = p
      BY <3>1, <3>2, <3>4
    <3> QED BY <3>4, <3>5 DEF x, y
  <2>6. a = b
    BY <1>2, <2>1, <2>2, <2>5
  <2> QED BY <2>1, <2>2, <2>5, <2>6
<1>3. \A k \in Nat : k \in H
  <2> HIDE DEF H
  <2> QED BY <1>1, <1>2, Induction
<1> QED BY <1>3

\* A number that fits, written in octets, is read again.
LEMMA UintIs ==
  ASSUME NEW k \in Nat
  PROVE  \A n \in Nat : /\ Uint(n, k) \in Seq(Octet)
                        /\ Len(Uint(n, k)) = k
                        /\ n < Pow2[8 * k] => ValueOf(Uint(n, k)) = n
<1>1. ASSUME NEW n \in Nat, NEW m \in Nat PROVE Uint(n, m) \in Seq(Octet) /\ Len(Uint(n, m)) = m
  <2>1. ASSUME NEW j \in 1 .. m PROVE (n \div Pow2[8 * (m - j)]) % 256 \in Octet
    <3>1. Pow2[8 * (m - j)] \in Nat \ {0}
      <4>1. m - j \in Nat
        OBVIOUS
      <4> QED BY <4>1, Pow2Octet
    <3>2. n \div Pow2[8 * (m - j)] \in Nat
      BY <3>1, DivBounds
    <3> QED BY <3>2 DEF Octet
  <2> QED BY <2>1 DEF Uint
<1> DEFINE H == { m \in Nat : \A n \in Nat : n < Pow2[8 * m] => ValueOf(Uint(n, m)) = n }
<1>2. 0 \in H
  <2> SUFFICES ASSUME NEW n \in Nat, n < Pow2[8 * 0] PROVE ValueOf(Uint(n, 0)) = n
    OBVIOUS
  <2>1. n = 0
    BY Pow2Octet
  <2>2. Uint(n, 0) = <<>>
    BY <1>1
  <2>3. ValueOf(<<>>) = 0
    BY ValueOfAppend, EmptySeq
  <2> QED BY <2>1, <2>2, <2>3
<1>3. ASSUME NEW m \in Nat, m \in H PROVE m + 1 \in H
  <2> SUFFICES ASSUME NEW n \in Nat, n < Pow2[8 * (m + 1)] PROVE ValueOf(Uint(n, m + 1)) = n
    OBVIOUS
  <2> DEFINE q == n \div 256
             r == n % 256
  <2>1. q \in Nat /\ r \in Octet /\ n = 256 * q + r
    BY DEF Octet
  <2>2. q < Pow2[8 * m]
    <3>1. Pow2[8 * (m + 1)] = 256 * Pow2[8 * m] /\ Pow2[8 * m] \in Nat
      BY Pow2Octet
    <3> HIDE DEF q, r
    <3> QED BY <2>1, <3>1 DEF Octet
  <2>3. ValueOf(Uint(q, m)) = q
    <3> HIDE DEF q
    <3> QED BY <1>3, <2>1, <2>2
  <2> DEFINE u == Uint(q, m)
             w == Uint(n, m + 1)
  <2>4. u \in Seq(Octet) /\ Len(u) = m /\ w \in Seq(Octet) /\ Len(w) = m + 1
    <3>1. m + 1 \in Nat
      OBVIOUS
    <3> HIDE DEF q
    <3> QED BY <1>1, <2>1, <3>1
  <2>5. ASSUME NEW j \in 1 .. m PROVE w[j] = u[j]
    <3>1. w[j] = (n \div Pow2[8 * (m + 1 - j)]) % 256
      BY DEF Uint
    <3>2. u[j] = (q \div Pow2[8 * (m - j)]) % 256
      BY DEF Uint
    <3> DEFINE i == m - j
    <3>3. i \in Nat /\ m + 1 - j = i + 1
      OBVIOUS
    <3> HIDE DEF i
    <3>4. Pow2[8 * (i + 1)] = 256 * Pow2[8 * i] /\ Pow2[8 * i] \in Nat \ {0}
      BY <3>3, Pow2Octet
    <3>5. n \div (256 * Pow2[8 * i]) = q \div Pow2[8 * i]
      <4>1. 256 \in Nat \ {0}
        OBVIOUS
      <4>2. (n \div 256) \div Pow2[8 * i] = n \div (256 * Pow2[8 * i])
        BY <3>4, <4>1, DivDiv
      <4> QED BY <4>2
    <3> HIDE DEF u, w, q
    <3> QED BY <3>1, <3>2, <3>3, <3>4, <3>5 DEF i
  <2>6. w[m + 1] = r
    <3>1. w[m + 1] = (n \div Pow2[8 * (m + 1 - (m + 1))]) % 256
      BY DEF Uint
    <3>2. m + 1 - (m + 1) = 0 /\ Pow2[8 * 0] = 1
      BY Pow2Octet
    <3>3. n \div 1 = n
      OBVIOUS
    <3> HIDE DEF w
    <3> QED BY <3>1, <3>2, <3>3
  <2>7. w = Append(u, r)
    <3> HIDE DEF u, w, r
    <3>1. /\ Append(u, r) \in Seq(Octet)
          /\ Len(Append(u, r)) = m + 1
          /\ \A i \in 1.. m : Append(u, r)[i] = u[i]
          /\ Append(u, r)[m + 1] = r
      BY <2>1, <2>4, AppendProperties
    <3>2. \A i \in 1 .. m + 1 : w[i] = Append(u, r)[i]
      BY <2>5, <2>6, <3>1
    <3> QED BY <2>4, <3>1, <3>2, SeqEqual
  <2>8. ValueOf(w) = 256 * ValueOf(u) + r
    <3> HIDE DEF u, w, r
    <3> QED BY <2>1, <2>4, <2>7, ValueOfAppend
  <2>9. ValueOf(u) = q
    BY <2>3
  <2> HIDE DEF u, q, r
  <2> QED BY <2>1, <2>8, <2>9
<1>4. \A m \in Nat : m \in H
  <2> HIDE DEF H
  <2> QED BY <1>2, <1>3, Induction
<1> QED BY <1>1, <1>4

\* Octets are the number that they stand for, in as many octets.
LEMMA UintOfValue ==
  ASSUME NEW s \in Seq(Octet)
  PROVE  Uint(ValueOf(s), Len(s)) = s
<1>1. Len(s) \in Nat /\ ValueOf(s) \in Nat /\ ValueOf(s) < Pow2[8 * Len(s)]
  BY ValueOfBounds
<1> DEFINE u == Uint(ValueOf(s), Len(s))
<1>2. u \in Seq(Octet) /\ Len(u) = Len(s) /\ ValueOf(u) = ValueOf(s)
  BY <1>1, UintIs
<1> HIDE DEF u
<1>3. u = s
  BY <1>2, ValueOfInjective
<1> QED BY <1>3 DEF u

\* The octets of a number, without a leading zero.
Shortest(s, n) == /\ s \in Seq(Octet)
                  /\ Len(s) # 0
                  /\ ValueOf(s) = n
                  /\ n # 0 => s[1] # 0

\* The recursion of BigEndian gives the shortest octets.
LEMMA BigEndianIs ==
  ASSUME NEW n \in Nat
  PROVE  Shortest(BigEndian(n), n)
<1> DEFINE V == Seq(Octet)
           I == 0 .. n
           G(f, m) == IF m < 256 THEN <<m>> ELSE Append(f[m \div 256], m % 256)
           B == [p \in [I -> V] \X I |-> G(p[1], p[2])]
           rank == [m \in I |-> m]
           Good(f) == f = [m \in I |-> G(f, m)]
           c == CHOOSE f : Good(f)
<1>1. \A m \in I : m >= 256 => m \div 256 \in I /\ m \div 256 < m /\ m \div 256 # 0 /\ m % 256 \in Octet
  BY DEF Octet
<1>2. \A m \in I : m < 256 => m \in Octet
  BY DEF Octet
<1>3. \A f \in [I -> V], m \in I : G(f, m) \in V
  <2> SUFFICES ASSUME NEW f \in [I -> V], NEW m \in I PROVE G(f, m) \in V
    OBVIOUS
  <2>1. CASE m < 256
    <3>1. <<m>> \in V
      BY <1>2, <2>1, OneIs
    <3> QED BY <2>1, <3>1
  <2>2. CASE ~(m < 256)
    <3>1. m \div 256 \in I /\ m % 256 \in Octet
      BY <1>1, <2>2
    <3>2. f[m \div 256] \in V
      BY <3>1
    <3>3. Append(f[m \div 256], m % 256) \in V
      BY <3>1, <3>2, AppendProperties
    <3> QED BY <2>2, <3>3
  <2> QED BY <2>1, <2>2
<1>4. \E f : Solves(f, B, I, V)
  <2>1. <<>> \in V /\ rank \in [I -> 0 .. n] /\ n \in Nat
    BY EmptySeq
  <2>2. B \in [[I -> V] \X I -> V]
    <3> HIDE DEF G, V, I
    <3> QED BY <1>3
  <2>3. GoesDown(B, I, V, rank)
    <3>1. SUFFICES ASSUME NEW f \in [I -> V], NEW g \in [I -> V], NEW i \in I,
                          \A j \in I : rank[j] < rank[i] => f[j] = g[j]
                   PROVE  B[<<f, i>>] = B[<<g, i>>]
      BY DEF GoesDown
    <3>2. B[<<f, i>>] = G(f, i) /\ B[<<g, i>>] = G(g, i)
      OBVIOUS
    <3>3. i >= 256 => f[i \div 256] = g[i \div 256]
      BY <1>1, <3>1
    <3>4. ~(i < 256) => i >= 256
      OBVIOUS
    <3> HIDE DEF B
    <3> QED BY <3>2, <3>3, <3>4
  <2> HIDE DEF B, V, rank, I
  <2> QED BY <2>1, <2>2, <2>3, RecursionExists
<1>5. \E f : Good(f)
  <2>1. PICK f : Solves(f, B, I, V)
    BY <1>4
  <2>2. f \in [I -> V] /\ \A i \in I : f[i] = B[<<f, i>>]
    BY <2>1 DEF Solves
  <2>3. \A i \in I : f[i] = G(f, i)
    BY <2>2
  <2> HIDE DEF G, B
  <2> QED BY <2>2, <2>3
<1>6. Good(c)
  <2> HIDE DEF Good
  <2> QED BY <1>5
<1>7. BigEndian(n) = c[n]
  BY DEF BigEndian
<1> HIDE DEF c
<1>8. \A m \in I : c[m] = G(c, m)
  <2> HIDE DEF G
  <2> QED BY <1>6
<1> DEFINE H == { m \in Nat : m \in I => Shortest(c[m], m) }
<1>9. ASSUME NEW m \in Nat, \A k \in 0 .. m - 1 : k \in H PROVE m \in H
  <2> SUFFICES ASSUME m \in I PROVE Shortest(c[m], m)
    OBVIOUS
  <2>1. CASE m < 256
    <3>1. c[m] = <<m>> /\ m \in Octet
      BY <1>2, <1>8, <2>1
    <3>2. <<m>> \in Seq(Octet) /\ Len(<<m>>) = 1 /\ <<m>>[1] = m
      BY <3>1, OneIs
    <3>3. ValueOf(<<m>>) = m
      <4>1. <<>> \in Seq(Octet) /\ Append(<<>>, m) = <<m>>
        BY EmptySeq
      <4>2. ValueOf(Append(<<>>, m)) = 256 * ValueOf(<<>>) + m /\ ValueOf(<<>>) = 0
        BY <3>1, <4>1, ValueOfAppend
      <4> QED BY <4>1, <4>2
    <3> QED BY <3>1, <3>2, <3>3 DEF Shortest
  <2>2. CASE ~(m < 256)
    <3> DEFINE q == m \div 256
               r == m % 256
    <3>1. q \in I /\ q \in 0 .. m - 1 /\ q # 0 /\ r \in Octet /\ m = 256 * q + r /\ q \in Nat
      BY <1>1, <2>2
    <3>2. c[m] = Append(c[q], r)
      BY <1>8, <2>2
    <3> HIDE DEF q, r
    <3>3. Shortest(c[q], q)
      BY <1>9, <3>1
    <3> DEFINE u == c[q]
    <3>4. u \in Seq(Octet) /\ Len(u) # 0 /\ ValueOf(u) = q /\ u[1] # 0
      BY <3>1, <3>3 DEF Shortest
    <3> HIDE DEF u
    <3>5. /\ Append(u, r) \in Seq(Octet)
          /\ Len(Append(u, r)) # 0
          /\ Append(u, r)[1] = u[1]
      <4>1. 1 \in 1 .. Len(u) /\ Len(u) + 1 # 0
        BY <3>4
      <4> QED BY <3>1, <3>4, <4>1, AppendProperties
    <3>6. ValueOf(Append(u, r)) = 256 * ValueOf(u) + r
      BY <3>1, <3>4, ValueOfAppend
    <3>7. Shortest(Append(u, r), m)
      BY <3>1, <3>4, <3>5, <3>6 DEF Shortest
    <3> QED BY <3>2, <3>7 DEF u
  <2> QED BY <2>1, <2>2
<1>10. \A m \in Nat : m \in H
  <2> HIDE DEF H
  <2> QED BY <1>9, StrongInduction
<1>11. n \in I
  OBVIOUS
<1> QED BY <1>7, <1>10, <1>11

\* There are no two shortest octets of a number.
LEMMA ShortestUnique ==
  ASSUME NEW n \in Nat \ {0}, NEW s, NEW t, Shortest(s, n), Shortest(t, n)
  PROVE  s = t
<1>1. ASSUME NEW a, NEW b, Shortest(a, n), Shortest(b, n) PROVE ~(Len(a) < Len(b))
  <2>1. /\ a \in Seq(Octet) /\ Len(a) \in Nat /\ ValueOf(a) = n /\ n < Pow2[8 * Len(a)]
        /\ b \in Seq(Octet) /\ Len(b) \in Nat /\ Len(b) # 0 /\ ValueOf(b) = n
        /\ Pow2[8 * (Len(b) - 1)] <= n
    BY <1>1, ValueOfBounds DEF Shortest
  <2>2. ASSUME Len(a) < Len(b) PROVE FALSE
    <3>1. 8 * Len(a) \in Nat /\ 8 * (Len(b) - 1) \in Nat /\ 8 * Len(a) <= 8 * (Len(b) - 1)
      BY <2>1, <2>2
    <3>2. Pow2[8 * Len(a)] <= Pow2[8 * (Len(b) - 1)] /\ Pow2[8 * Len(a)] \in Nat /\ Pow2[8 * (Len(b) - 1)] \in Nat
      BY <3>1, Pow2Monotone, Pow2Positive
    <3> QED BY <2>1, <3>2
  <2> QED BY <2>2
<1>2. s \in Seq(Octet) /\ t \in Seq(Octet) /\ ValueOf(s) = ValueOf(t)
  BY DEF Shortest
<1>3. Len(s) = Len(t)
  <2>1. ~(Len(s) < Len(t)) /\ ~(Len(t) < Len(s))
    BY <1>1
  <2> QED BY <1>2, <2>1
<1> QED BY <1>2, <1>3, ValueOfInjective

\* Octets without a leading zero are what BigEndian makes of their value.
LEMMA BigEndianOfValue ==
  ASSUME NEW s \in Seq(Octet), Len(s) # 0, s[1] # 0
  PROVE  BigEndian(ValueOf(s)) = s /\ ValueOf(s) \in Nat \ {0}
<1>1. Pow2[8 * (Len(s) - 1)] <= ValueOf(s) /\ ValueOf(s) \in Nat
  BY ValueOfBounds
<1>2. Pow2[8 * (Len(s) - 1)] \in Nat \ {0}
  <2>1. 8 * (Len(s) - 1) \in Nat
    OBVIOUS
  <2> QED BY <2>1, Pow2Positive
<1>3. ValueOf(s) \in Nat \ {0}
  BY <1>1, <1>2
<1>4. Shortest(s, ValueOf(s))
  BY DEF Shortest
<1>5. Shortest(BigEndian(ValueOf(s)), ValueOf(s))
  BY <1>3, BigEndianIs
<1> QED BY <1>3, <1>4, <1>5, ShortestUnique

\* The octets of a number up to a power of two.
LEMMA BigEndianLength ==
  ASSUME NEW k \in Nat, NEW n \in Nat \ {0}, n < Pow2[8 * k]
  PROVE  Len(BigEndian(n)) \in 1 .. k
<1> DEFINE s == BigEndian(n)
<1>1. s \in Seq(Octet) /\ Len(s) # 0 /\ ValueOf(s) = n /\ s[1] # 0
  BY BigEndianIs DEF Shortest
<1> HIDE DEF s
<1>2. Pow2[8 * (Len(s) - 1)] <= n /\ Len(s) \in Nat
  BY <1>1, ValueOfBounds
<1>3. ASSUME k < Len(s) PROVE FALSE
  <2>1. 8 * k \in Nat /\ 8 * (Len(s) - 1) \in Nat /\ 8 * k <= 8 * (Len(s) - 1)
    BY <1>2, <1>3
  <2>2. Pow2[8 * k] <= Pow2[8 * (Len(s) - 1)] /\ Pow2[8 * k] \in Nat /\ Pow2[8 * (Len(s) - 1)] \in Nat
    BY <2>1, Pow2Monotone, Pow2Positive
  <2> QED BY <1>2, <2>2
<1>4. Len(s) \in 1 .. k
  BY <1>1, <1>2, <1>3
<1> QED BY <1>4 DEF s

\* The value of a longer string is not less.
LEMMA ValueOfPart ==
  ASSUME NEW s \in Seq(Octet), NEW k \in Nat
  PROVE  k + 1 <= Len(s) =>
           /\ SubSeq(s, 1, k) \in Seq(Octet)
           /\ ValueOf(SubSeq(s, 1, k)) \in Nat
           /\ ValueOf(SubSeq(s, 1, k + 1)) = 256 * ValueOf(SubSeq(s, 1, k)) + s[k + 1]
           /\ s[k + 1] \in Octet
<1> SUFFICES ASSUME k + 1 <= Len(s)
             PROVE  /\ SubSeq(s, 1, k) \in Seq(Octet)
                    /\ ValueOf(SubSeq(s, 1, k)) \in Nat
                    /\ ValueOf(SubSeq(s, 1, k + 1)) = 256 * ValueOf(SubSeq(s, 1, k)) + s[k + 1]
                    /\ s[k + 1] \in Octet
  OBVIOUS
<1> DEFINE u == SubSeq(s, 1, k)
<1>1. u \in Seq(Octet) /\ SubSeq(s, 1, k + 1) = Append(u, s[k + 1]) /\ s[k + 1] \in Octet
  BY SegmentStep
<1> HIDE DEF u
<1>2. ValueOf(u) \in Nat /\ ValueOf(Append(u, s[k + 1])) = 256 * ValueOf(u) + s[k + 1]
  BY <1>1, ValueOfAppend
<1> QED BY <1>1, <1>2 DEF u

\* A length is read as it stands, unless it exceeds the limit.
LEMMA LengthOfIs ==
  ASSUME NEW s \in Seq(Octet), NEW limit \in Nat
  PROVE  /\ LengthOf(s, limit) \in Nat
         /\ ValueOf(s) \in Nat
         /\ LengthOf(s, limit) <= limit \/ ValueOf(s) <= limit => LengthOf(s, limit) = ValueOf(s)
<1> DEFINE n == Len(s)
           G(x, k) == IF x > limit THEN x ELSE 256 * x + s[k]
           Good(f) == f = [k \in 0 .. n |->
                             IF k = 0 THEN 0
                             ELSE IF f[k - 1] > limit THEN f[k - 1] ELSE 256 * f[k - 1] + s[k]]
           c == CHOOSE f : Good(f)
           F == [p \in (1 .. n) \X Nat |-> G(p[2], p[1])]
<1>1. n \in Nat /\ \A k \in 1 .. n : s[k] \in Nat
  <2>1. n \in Nat /\ \A k \in 1 .. n : s[k] \in Octet
    <3> HIDE DEF c, F, Good
    <3> QED BY LenProperties, ElementOfSeq
  <2>2. \A o \in Octet : o \in Nat
    BY DEF Octet
  <2> HIDE DEF n
  <2> QED BY <2>1, <2>2
<1> HIDE DEF n
<1>2. F \in [(1 .. n) \X Nat -> Nat]
  BY <1>1
<1>3. PICK g : g \in [0 .. n -> Nat] /\ g[0] = 0 /\ \A k \in 1 .. n : g[k] = F[<<k, g[k - 1]>>]
  <2>1. 0 \in Nat
    OBVIOUS
  <2>2. n \in Nat
    BY <1>1
  <2> DEFINE V == Nat
             v == 0
  <2>3. F \in [(1 .. n) \X V -> V] /\ v \in V
    BY <1>2, <2>1
  <2> HIDE DEF F, c, Good, V, v
  <2>4. \E g : IsChain(g, n, V, v, F)
    BY <2>2, <2>3, ChainExists
  <2> QED BY <2>4 DEF V, v, IsChain
<1>4. \A k \in 1 .. n : g[k] = G(g[k - 1], k)
  <2>1. \A k \in 1 .. n : <<k, g[k - 1]>> \in (1 .. n) \X Nat
    BY <1>1, <1>3
  <2> HIDE DEF G
  <2> QED BY <1>3, <2>1
<1>5. Good(g)
  <2>1. \A k \in 0 .. n : g[k] = IF k = 0 THEN 0 ELSE IF g[k - 1] > limit THEN g[k - 1] ELSE 256 * g[k - 1] + s[k]
    BY <1>1, <1>3, <1>4
  <2> QED BY <1>3, <2>1
<1>6. Good(c)
  <2> HIDE DEF Good
  <2> QED BY <1>5
<1>7. LengthOf(s, limit) = c[n]
  BY DEF LengthOf, n
<1> HIDE DEF c
<1>8. \A k \in 0 .. n : c[k] = IF k = 0 THEN 0 ELSE IF c[k - 1] > limit THEN c[k - 1] ELSE 256 * c[k - 1] + s[k]
  BY <1>6
<1> HIDE DEF Good
<1> DEFINE v(k) == ValueOf(SubSeq(s, 1, k))
           H == { k \in 0 .. n : /\ c[k] \in Nat /\ v(k) \in Nat
                                 /\ c[k] = v(k) \/ (c[k] > limit /\ v(k) > limit) }
<1>9. 0 \in H
  <2>1. SubSeq(s, 1, 0) = <<>>
    BY SubSeqEmpty
  <2>2. v(0) = 0
    BY <2>1, ValueOfAppend
  <2>3. c[0] = 0 /\ 0 \in 0 .. n
    BY <1>1, <1>8
  <2> HIDE DEF v
  <2> QED BY <2>2, <2>3
<1>10. ASSUME NEW k \in 0 .. n - 1, k \in H PROVE k + 1 \in H
  <2>1. k + 1 \in 0 .. n /\ k + 1 # 0 /\ (k + 1) - 1 = k /\ k \in Nat /\ k + 1 <= Len(s)
    BY <1>1 DEF n
  <2>2. c[k + 1] = IF c[k] > limit THEN c[k] ELSE 256 * c[k] + s[k + 1]
    BY <1>8, <2>1
  <2>3. v(k) \in Nat /\ v(k + 1) = 256 * v(k) + s[k + 1] /\ s[k + 1] \in Nat
    <3>1. v(k) \in Nat /\ v(k + 1) = 256 * v(k) + s[k + 1] /\ s[k + 1] \in Octet
      BY <2>1, ValueOfPart
    <3>2. \A o \in Octet : o \in Nat
      BY DEF Octet
    <3> HIDE DEF v
    <3> QED BY <3>1, <3>2
  <2> HIDE DEF v
  <2>4. c[k] \in Nat /\ (c[k] = v(k) \/ (c[k] > limit /\ v(k) > limit))
    BY <1>10
  <2>5. c[k + 1] \in Nat /\ v(k + 1) \in Nat
    BY <2>2, <2>3, <2>4
  <2>6. c[k + 1] = v(k + 1) \/ (c[k + 1] > limit /\ v(k + 1) > limit)
    BY <2>2, <2>3, <2>4
  <2> QED BY <2>1, <2>5, <2>6
<1>11. \A k \in 0 .. n : k \in H
  <2> HIDE DEF H
  <2> QED BY <1>1, <1>9, <1>10, InductionUpTo
<1>12. n \in H
  BY <1>1, <1>11
<1>13. v(n) = ValueOf(s)
  <2>1. SubSeq(s, 1, Len(s)) = s
    BY SubSeqFull
  <2> QED BY <2>1 DEF n
<1> HIDE DEF v
<1> QED BY <1>7, <1>12, <1>13

-----------------------------------------------------------------------------
(* One value *)

\* Where the content of a value begins.
ContentAt(d) == IF d[2] < 128 THEN 3 ELSE d[2] - 125

\* The length that a value states.
StatedLength(d) == IF d[2] < 128 THEN d[2] ELSE ValueOf(SubSeq(d, 3, d[2] - 126))

\* The octets of one value, in DER or not.
IsTlv(d) ==
  /\ d \in Seq(Octet)
  /\ Len(d) >= 2
  /\ d[1] % 32 # 31
  /\ d[2] < 128 \/ d[2] - 128 \in 1 .. 4
  /\ ContentAt(d) - 1 + StatedLength(d) = Len(d)
  /\ ContentAt(d) - 1 <= Len(d)

\* What read_tlv makes of it.
Parsed(d, next) ==
  [tag |-> d[1], content |-> SubSeq(d, ContentAt(d), Len(d)), der |-> d, next |-> next]

\* Values as read_tlv returns them.
TlvRecord == [tag : Octet, content : Seq(Octet), der : Seq(Octet), next : Nat]

\* Octets are small numbers.
LEMMA OctetRange == \A o : o \in Octet <=> o \in Nat /\ o <= 255
BY DEF Octet

\* The elements of an octet string are numbers.
LEMMA OctetIs ==
  ASSUME NEW d \in Seq(Octet), NEW k \in 1 .. Len(d)
  PROVE  d[k] \in Octet /\ d[k] \in Nat /\ d[k] <= 255
<1>1. d[k] \in Octet
  BY ElementOfSeq
<1> QED BY <1>1, OctetRange

\* The octets of d are those of data from at to next - 1.
StandsAt(d, data, at, next) ==
  /\ d \in Seq(Octet)
  /\ Len(d) = next - at
  /\ d[1] = data[at]
  /\ d[2] = data[at + 1]
  /\ \A p \in 1 .. Len(d) + 1 : \A q \in p - 1 .. Len(d) :
       SubSeq(d, p, q) = SubSeq(data, at + p - 1, at + q - 1)

\* The positions in a string from another one on.
LEMMA PlaceIn ==
  ASSUME NEW data \in Seq(Octet), NEW at \in 1 .. Len(data), NEW next \in at + 2 .. Len(data) + 1, NEW d
  PROVE  d = SubSeq(data, at, next - 1) => StandsAt(d, data, at, next)
<1> SUFFICES ASSUME d = SubSeq(data, at, next - 1) PROVE StandsAt(d, data, at, next)
  OBVIOUS
<1>1. at \in 1 .. Len(data) + 1 /\ next - 1 \in at - 1 .. Len(data) /\ (next - 1) - at + 1 = next - at
  OBVIOUS
<1>2. /\ SubSeq(data, at, next - 1) \in Seq(Octet)
      /\ Len(SubSeq(data, at, next - 1)) = (next - 1) - at + 1
      /\ \A k \in 1 .. (next - 1) - at + 1 : SubSeq(data, at, next - 1)[k] = data[at + k - 1]
  BY <1>1, PartIs
<1>3. d \in Seq(Octet) /\ Len(d) = next - at /\ \A k \in 1 .. next - at : d[k] = data[at + k - 1]
  BY <1>1, <1>2
<1>4. 1 \in 1 .. next - at /\ 2 \in 1 .. next - at /\ at + 1 - 1 = at /\ at + 2 - 1 = at + 1
  OBVIOUS
<1>5. ASSUME NEW p \in 1 .. Len(d) + 1, NEW q \in p - 1 .. Len(d)
      PROVE  SubSeq(d, p, q) = SubSeq(data, at + p - 1, at + q - 1)
  <2>1. p \in 1 .. ((next - 1) - at + 1) + 1 /\ q \in p - 1 .. (next - 1) - at + 1
    BY <1>3
  <2>2. SubSeq(SubSeq(data, at, next - 1), p, q) = SubSeq(data, at + p - 1, at + q - 1)
    BY <1>1, <2>1, PartOfPart
  <2> QED BY <2>2
<1>6. d[1] = data[at] /\ d[2] = data[at + 1]
  BY <1>3, <1>4
<1> QED BY <1>3, <1>5, <1>6 DEF StandsAt

\* Where the content is read, and how much.
ReadStart(data, at) == at + 2 + (IF data[at + 1] < 128 THEN 0 ELSE data[at + 1] - 128)

\* How many octets the content has, as the length says.
ReadLength(data, at) ==
  IF data[at + 1] < 128 THEN data[at + 1]
  ELSE LengthOf(SubSeq(data, at + 2, ReadStart(data, at) - 1), Len(data))

\* What read_tlv tests and what it returns.
LEMMA ReadTlvDef ==
  ASSUME NEW data \in Seq(Octet), NEW at \in 1 .. Len(data)
  PROVE  LET start == ReadStart(data, at)
             length == ReadLength(data, at)
         IN  /\ at + 1 > Len(data) => ReadTlv(data, at) = {}
             /\ at + 1 <= Len(data) =>
                  /\ data[at] \in Octet /\ data[at + 1] \in Octet
                  /\ ReadTlv(data, at) =
                      IF \/ data[at] % 32 = 31
                         \/ data[at + 1] >= 128 /\ data[at + 1] - 128 \notin 1 .. 4
                         \/ start - 1 > Len(data)
                         \/ start + length - 1 > Len(data)
                      THEN {}
                      ELSE {[tag     |-> data[at],
                             content |-> SubSeq(data, start, start + length - 1),
                             der     |-> SubSeq(data, at, start + length - 1),
                             next    |-> start + length]}
<1>1. ASSUME at + 1 > Len(data) PROVE ReadTlv(data, at) = {}
  BY <1>1 DEF ReadTlv
<1>2. ASSUME at + 1 <= Len(data)
      PROVE  data[at] \in Octet /\ data[at + 1] \in Octet
  BY <1>2, OctetIs
<1> DEFINE first == data[at + 1]
           octets == IF first < 128 THEN 0 ELSE first - 128
           start == at + 2 + octets
           length == IF first < 128 THEN first ELSE LengthOf(SubSeq(data, at + 2, start - 1), Len(data))
           record == [tag     |-> data[at],
                      content |-> SubSeq(data, start, start + length - 1),
                      der     |-> SubSeq(data, at, start + length - 1),
                      next    |-> start + length]
<1>3. ASSUME at + 1 <= Len(data)
      PROVE  ReadTlv(data, at) =
                 IF \/ data[at] % 32 = 31
                    \/ first >= 128 /\ first - 128 \notin 1 .. 4
                    \/ start - 1 > Len(data)
                    \/ start + length - 1 > Len(data)
                 THEN {} ELSE {record}
  <2>1. ReadTlv(data, at) = IF \/ at + 1 > Len(data)
                               \/ data[at] % 32 = 31
                               \/ first >= 128 /\ octets \notin 1 .. 4
                               \/ start - 1 > Len(data)
                               \/ start + length - 1 > Len(data)
                            THEN {} ELSE {record}
    BY DEF ReadTlv
  <2>2. ~(at + 1 > Len(data))
    BY <1>3
  <2>3. first \in Nat
    BY <1>2, <1>3, OctetRange
  <2>4. first >= 128 /\ octets \notin 1 .. 4 <=> first >= 128 /\ first - 128 \notin 1 .. 4
    <3> HIDE DEF first
    <3> QED BY <2>3
  <2> HIDE DEF record, start, length, octets, first
  <2> QED BY <2>1, <2>2, <2>4
<1>4. start = ReadStart(data, at)
  BY DEF ReadStart
<1>5. length = ReadLength(data, at)
  <2> HIDE DEF start
  <2> QED BY <1>4 DEF ReadLength
<1> HIDE DEF start, length
<1> QED BY <1>1, <1>2, <1>3, <1>4, <1>5

\* The length in the string and in the value.
LEMMA LengthsAgree ==
  ASSUME NEW data \in Seq(Octet), NEW at \in 1 .. Len(data), NEW next \in at + 2 .. Len(data) + 1, NEW d,
         StandsAt(d, data, at, next),
         data[at + 1] < 128 \/ data[at + 1] - 128 \in 1 .. 4,
         ReadStart(data, at) <= next
  PROVE  /\ ReadStart(data, at) \in at + 2 .. next
         /\ ContentAt(d) = ReadStart(data, at) - at + 1
         /\ ReadLength(data, at) \in Nat
         /\ StatedLength(d) \in Nat
         /\ ReadLength(data, at) <= Len(data) \/ StatedLength(d) <= Len(data)
              => ReadLength(data, at) = StatedLength(d)
<1> DEFINE x == data[at + 1]
           start == ReadStart(data, at)
<1>1. /\ d \in Seq(Octet) /\ Len(d) = next - at /\ d[2] = x
      /\ \A p \in 1 .. Len(d) + 1 : \A q \in p - 1 .. Len(d) :
           SubSeq(d, p, q) = SubSeq(data, at + p - 1, at + q - 1)
  BY DEF StandsAt
<1>2. x \in Nat /\ x <= 255
  <2>1. at + 1 \in 1 .. Len(data)
    OBVIOUS
  <2> QED BY <2>1, OctetIs
<1> HIDE DEF x
<1>3. start = at + 2 + (IF x < 128 THEN 0 ELSE x - 128)
  BY DEF ReadStart, x
<1>4. start \in at + 2 .. next /\ ContentAt(d) = start - at + 1
  <2>1. start \in Int /\ start >= at + 2
    BY <1>2, <1>3
  <2>2. ContentAt(d) = start - at + 1
    BY <1>1, <1>2, <1>3 DEF ContentAt
  <2> HIDE DEF start
  <2> QED BY <2>1, <2>2 DEF start
<1>5. CASE x < 128
  <2>1. ReadLength(data, at) = x /\ StatedLength(d) = x
    BY <1>1, <1>5 DEF ReadLength, StatedLength, x
  <2> QED BY <1>2, <1>4, <2>1
<1>6. CASE ~(x < 128)
  <2> DEFINE octets == SubSeq(data, at + 2, start - 1)
  <2>1. ReadLength(data, at) = LengthOf(octets, Len(data))
    BY <1>6 DEF ReadLength, x
  <2>2. start = at + x - 126
    BY <1>2, <1>3, <1>6
  <2>3. SubSeq(d, 3, x - 126) = octets
    <3>1. 3 \in 1 .. Len(d) + 1 /\ x - 126 \in 3 - 1 .. Len(d)
      BY <1>1, <1>2, <1>4, <1>6, <2>2
    <3>2. SubSeq(d, 3, x - 126) = SubSeq(data, at + 3 - 1, at + (x - 126) - 1)
      BY <1>1, <3>1
    <3>3. at + 3 - 1 = at + 2 /\ at + (x - 126) - 1 = start - 1
      BY <1>2, <2>2
    <3> QED BY <3>2, <3>3
  <2>4. StatedLength(d) = ValueOf(octets)
    BY <1>1, <1>6, <2>3 DEF StatedLength
  <2>5. octets \in Seq(Octet)
    <3>1. at + 2 \in 1 .. Len(data) + 1 /\ start - 1 \in (at + 2) - 1 .. Len(data)
      BY <1>4
    <3> QED BY <3>1, PartIs
  <2>6. Len(data) \in Nat
    OBVIOUS
  <2> HIDE DEF octets, start
  <2>7. /\ LengthOf(octets, Len(data)) \in Nat
        /\ ValueOf(octets) \in Nat
        /\ LengthOf(octets, Len(data)) <= Len(data) \/ ValueOf(octets) <= Len(data)
             => LengthOf(octets, Len(data)) = ValueOf(octets)
    BY <2>5, <2>6, LengthOfIs
  <2> QED BY <1>4, <2>1, <2>4, <2>7 DEF start
<1> QED BY <1>5, <1>6

\* What read_tlv reads is one value, from where it starts.
LEMMA ReadTlvIs ==
  ASSUME NEW data \in Seq(Octet), NEW at \in 1 .. Len(data), NEW t \in ReadTlv(data, at)
  PROVE  /\ t.next \in at + 2 .. Len(data) + 1
         /\ IsTlv(SubSeq(data, at, t.next - 1))
         /\ t = Parsed(SubSeq(data, at, t.next - 1), t.next)
<1> DEFINE start == ReadStart(data, at)
           length == ReadLength(data, at)
           x == data[at + 1]
           next == start + length
           record == [tag     |-> data[at],
                      content |-> SubSeq(data, start, start + length - 1),
                      der     |-> SubSeq(data, at, start + length - 1),
                      next    |-> start + length]
<1>1. /\ at + 1 > Len(data) => ReadTlv(data, at) = {}
      /\ at + 1 <= Len(data) =>
           /\ data[at] \in Octet /\ x \in Octet
           /\ ReadTlv(data, at) =
               IF \/ data[at] % 32 = 31
                  \/ x >= 128 /\ x - 128 \notin 1 .. 4
                  \/ start - 1 > Len(data)
                  \/ start + length - 1 > Len(data)
               THEN {} ELSE {record}
  BY ReadTlvDef
<1>2. at + 1 <= Len(data)
  BY <1>1
<1>3. /\ ~(data[at] % 32 = 31)
      /\ ~(x >= 128 /\ x - 128 \notin 1 .. 4)
      /\ ~(start - 1 > Len(data))
      /\ ~(start + length - 1 > Len(data))
      /\ t = record
  <2> HIDE DEF record, start, length, x
  <2> QED BY <1>1, <1>2
<1>4. x \in Nat /\ (x < 128 \/ x - 128 \in 1 .. 4)
  <2>1. x \in Nat
    BY <1>1, <1>2, OctetRange
  <2> HIDE DEF x
  <2> QED BY <2>1, <1>3
<1>5. start \in Int /\ start >= at + 2
  <2> HIDE DEF x
  <2>1. start = at + 2 + (IF x < 128 THEN 0 ELSE x - 128)
    BY DEF ReadStart, x
  <2> HIDE DEF start
  <2> QED BY <1>4, <2>1
<1> HIDE DEF start
<1>6. length \in Nat
  <2> DEFINE all == Len(data) + 1
             e == SubSeq(data, at, all - 1)
  <2>1. all \in at + 2 .. Len(data) + 1 /\ start <= all
    BY <1>2, <1>3, <1>5
  <2> HIDE DEF all, length
  <2>3. e = SubSeq(data, at, all - 1)
    OBVIOUS
  <2> HIDE DEF e
  <2>4. StandsAt(e, data, at, all)
    BY <2>1, <2>3, PlaceIn
  <2>2. ReadLength(data, at) \in Nat
    BY <1>4, <2>1, <2>4, LengthsAgree DEF start, x
  <2> QED BY <2>2 DEF length
<1> HIDE DEF length
<1>7. next \in at + 2 .. Len(data) + 1 /\ t.next = next /\ next - 1 = start + length - 1
  <2>1. t.next = next
    BY <1>3
  <2>2. next \in at + 2 .. Len(data) + 1 /\ next - 1 = start + length - 1
    <3> HIDE DEF record
    <3> QED BY <1>3, <1>5, <1>6
  <2> QED BY <2>1, <2>2
<1> DEFINE d == SubSeq(data, at, next - 1)
<1>14. StandsAt(d, data, at, next)
  <2>1. d = SubSeq(data, at, next - 1)
    OBVIOUS
  <2> HIDE DEF next, d
  <2> QED BY <1>7, <2>1, PlaceIn
<1>8. /\ d \in Seq(Octet) /\ Len(d) = next - at /\ d[1] = data[at] /\ d[2] = x
      /\ \A p \in 1 .. Len(d) + 1 : \A q \in p - 1 .. Len(d) :
           SubSeq(d, p, q) = SubSeq(data, at + p - 1, at + q - 1)
  <2> HIDE DEF next, d
  <2> QED BY <1>14 DEF StandsAt
<1>15. Len(d) = next - at
  <2> HIDE DEF next, d
  <2> QED BY <1>14 DEF StandsAt
<1>9. start <= next
  BY <1>5, <1>6
<1>10. /\ start \in at + 2 .. next
       /\ ContentAt(d) = start - at + 1
       /\ StatedLength(d) \in Nat
       /\ length <= Len(data) => length = StatedLength(d)
  <2> HIDE DEF next, d
  <2> QED BY <1>4, <1>7, <1>9, <1>14, LengthsAgree DEF start, length
<1> HIDE DEF d, x
<1>11. length = StatedLength(d)
  <2> HIDE DEF record
  <2>1. length <= Len(data)
    BY <1>3, <1>5, <1>6
  <2> QED BY <1>10, <2>1
<1>12. IsTlv(d)
  <2>1. Len(d) >= 2 /\ ContentAt(d) - 1 + StatedLength(d) = Len(d) /\ ContentAt(d) - 1 <= Len(d)
    <3> HIDE DEF record
    <3> QED BY <1>5, <1>6, <1>15, <1>10, <1>11
  <2> QED BY <1>3, <1>4, <1>8, <2>1 DEF IsTlv
<1>13. t = Parsed(d, next)
  <2>1. SubSeq(d, ContentAt(d), Len(d)) = SubSeq(data, start, start + length - 1)
    <3> DEFINE p == ContentAt(d)
    <3>1. p \in 1 .. Len(d) + 1 /\ Len(d) \in p - 1 .. Len(d) /\ at + p - 1 = start /\ at + Len(d) - 1 = start + length - 1
      <4> HIDE DEF record
      <4> QED BY <1>5, <1>6, <1>15, <1>10
    <3> HIDE DEF p
    <3>2. SubSeq(d, p, Len(d)) = SubSeq(data, at + p - 1, at + Len(d) - 1)
      BY <1>8, <3>1
    <3> QED BY <3>1, <3>2 DEF p
  <2>2. d = SubSeq(data, at, start + length - 1)
    BY <1>7 DEF d
  <2>3. record = [tag |-> d[1], content |-> SubSeq(d, ContentAt(d), Len(d)), der |-> d, next |-> next]
    BY <1>8, <2>1, <2>2
  <2> QED BY <1>3, <2>3 DEF Parsed
<1> QED BY <1>7, <1>12, <1>13 DEF d

\* One value in a string is what read_tlv reads there.
LEMMA ReadTlvOf ==
  ASSUME NEW data \in Seq(Octet), NEW at \in 1 .. Len(data), NEW next \in at + 2 .. Len(data) + 1,
         IsTlv(SubSeq(data, at, next - 1))
  PROVE  ReadTlv(data, at) = {Parsed(SubSeq(data, at, next - 1), next)}
<1> DEFINE start == ReadStart(data, at)
           length == ReadLength(data, at)
           x == data[at + 1]
           d == SubSeq(data, at, next - 1)
           record == [tag     |-> data[at],
                      content |-> SubSeq(data, start, start + length - 1),
                      der     |-> SubSeq(data, at, start + length - 1),
                      next    |-> start + length]
<1>1. /\ data[at] \in Octet /\ x \in Octet
      /\ ReadTlv(data, at) =
           IF \/ data[at] % 32 = 31
              \/ x >= 128 /\ x - 128 \notin 1 .. 4
              \/ start - 1 > Len(data)
              \/ start + length - 1 > Len(data)
           THEN {} ELSE {record}
  <2>1. at + 1 <= Len(data)
    OBVIOUS
  <2> QED BY <2>1, ReadTlvDef
<1>15. StandsAt(d, data, at, next) /\ IsTlv(d)
  <2>1. d = SubSeq(data, at, next - 1)
    OBVIOUS
  <2>2. IsTlv(d)
    OBVIOUS
  <2> HIDE DEF d
  <2> QED BY <2>1, <2>2, PlaceIn
<1>2. /\ d \in Seq(Octet) /\ Len(d) = next - at /\ d[1] = data[at] /\ d[2] = x
      /\ \A p \in 1 .. Len(d) + 1 : \A q \in p - 1 .. Len(d) :
           SubSeq(d, p, q) = SubSeq(data, at + p - 1, at + q - 1)
  <2> HIDE DEF d
  <2> QED BY <1>15 DEF StandsAt
<1>16. Len(d) = next - at
  <2> HIDE DEF d
  <2> QED BY <1>15 DEF StandsAt
<1>3. x \in Nat
  BY <1>1, OctetRange
<1>4. start = at + 2 + (IF x < 128 THEN 0 ELSE x - 128)
  BY DEF ReadStart, x
<1>5. IsTlv(d)
  BY <1>15
<1> HIDE DEF d, x, start, length
<1>6. /\ ~(data[at] % 32 = 31)
      /\ x < 128 \/ x - 128 \in 1 .. 4
      /\ ContentAt(d) - 1 + StatedLength(d) = Len(d)
      /\ ContentAt(d) - 1 <= Len(d)
  BY <1>2, <1>5 DEF IsTlv
<1>7. ContentAt(d) = start - at + 1 /\ start \in Int
  BY <1>2, <1>3, <1>4 DEF ContentAt
<1>8. start <= next
  BY <1>2, <1>6, <1>7
<1>9. /\ start \in at + 2 .. next
      /\ length \in Nat
      /\ StatedLength(d) \in Nat
      /\ StatedLength(d) <= Len(data) => length = StatedLength(d)
  BY <1>6, <1>8, <1>15, LengthsAgree DEF start, length, x
<1>10. length = StatedLength(d)
  <2>1. StatedLength(d) <= Len(data)
    BY <1>2, <1>6, <1>7, <1>9
  <2> QED BY <1>9, <2>1
<1>11. start + length = next /\ next - 1 = start + length - 1
  <2> DEFINE m == ContentAt(d)
             l == StatedLength(d)
             k == Len(d)
  <2>1. m - 1 + l = k /\ k = next - at /\ m = start - at + 1 /\ length = l /\ l \in Nat
    BY <1>6, <1>7, <1>9, <1>10, <1>16
  <2>2. start \in Int /\ next \in Int /\ at \in Int
    BY <1>7
  <2> HIDE DEF m, l, k, record
  <2> QED BY <2>1, <2>2
<1>12. /\ ~(x >= 128 /\ x - 128 \notin 1 .. 4)
       /\ ~(start - 1 > Len(data))
       /\ ~(start + length - 1 > Len(data))
  BY <1>3, <1>6, <1>9, <1>11
<1>13. ReadTlv(data, at) = {record}
  <2> HIDE DEF record
  <2> QED BY <1>1, <1>6, <1>12
<1>14. record = Parsed(d, next)
  <2>1. SubSeq(d, ContentAt(d), Len(d)) = SubSeq(data, start, start + length - 1)
    <3> DEFINE p == ContentAt(d)
    <3>1. p \in 1 .. Len(d) + 1 /\ Len(d) \in p - 1 .. Len(d) /\ at + p - 1 = start /\ at + Len(d) - 1 = start + length - 1
      <4> DEFINE k == Len(d)
      <4>1. p = start - at + 1 /\ k = next - at /\ start \in Int /\ start <= next /\ start >= at + 2 /\ next - 1 = start + length - 1
        BY <1>7, <1>8, <1>9, <1>11, <1>16
      <4> HIDE DEF p, k, record
      <4>2. p \in 1 .. k + 1 /\ k \in p - 1 .. k /\ at + p - 1 = start /\ at + k - 1 = start + length - 1
        BY <4>1
      <4> QED BY <4>2 DEF k
    <3> HIDE DEF p
    <3>2. SubSeq(d, p, Len(d)) = SubSeq(data, at + p - 1, at + Len(d) - 1)
      BY <1>2, <3>1
    <3> QED BY <3>1, <3>2 DEF p
  <2>2. d = SubSeq(data, at, start + length - 1)
    <3>1. next - 1 = start + length - 1
      BY <1>11
    <3> QED BY <3>1 DEF d
  <2>3. record = [tag |-> d[1], content |-> SubSeq(d, ContentAt(d), Len(d)), der |-> d, next |-> next]
    BY <1>2, <1>11, <2>1, <2>2
  <2> QED BY <2>3 DEF Parsed
<1> QED BY <1>13, <1>14 DEF d

\* The octets before the content.
Header(tag, n) == <<tag>> \o EncodeLength(n)

\* A length below 2^32 is encoded as it is read.
LEMMA HeaderIs ==
  ASSUME NEW tag \in Octet, NEW n \in Nat, n < Pow2[32]
  PROVE  /\ Header(tag, n) \in Seq(Octet)
         /\ Len(Header(tag, n)) >= 2
         /\ Len(Header(tag, n)) <= 6
         /\ Header(tag, n)[1] = tag
         /\ Header(tag, n)[2] < 128 \/ Header(tag, n)[2] - 128 \in 1 .. 4
         /\ ContentAt(Header(tag, n)) - 1 = Len(Header(tag, n))
         /\ StatedLength(Header(tag, n)) = n
         /\ n < 128 => Len(Header(tag, n)) = 2
<1> DEFINE h == Header(tag, n)
<1>1. CASE n < 128
  <2>1. EncodeLength(n) = <<n>>
    BY <1>1 DEF EncodeLength
  <2>2. n \in Octet
    BY <1>1, OctetRange
  <2>3. <<tag>> \o <<n>> = <<tag, n>>
    BY <2>2, PairIs
  <2>4. h = <<tag, n>>
    BY <2>1, <2>3 DEF Header
  <2>5. h \in Seq(Octet) /\ Len(h) = 2 /\ h[1] = tag /\ h[2] = n
    BY <2>2, <2>4
  <2> HIDE DEF h
  <2>6. ContentAt(h) = 3 /\ StatedLength(h) = n
    BY <1>1, <2>5 DEF ContentAt, StatedLength
  <2> QED BY <1>1, <2>5, <2>6 DEF h
<1>2. CASE ~(n < 128)
  <2> DEFINE be == BigEndian(n)
             k == Len(be)
             l == <<128 + k>> \o be
  <2>1. EncodeLength(n) = l
    BY <1>2 DEF EncodeLength
  <2>2. be \in Seq(Octet) /\ ValueOf(be) = n
    BY BigEndianIs DEF Shortest
  <2>3. k \in 1 .. 4
    <3>1. 4 \in Nat /\ 8 * 4 = 32 /\ n \in Nat \ {0}
      BY <1>2
    <3>2. n < Pow2[8 * 4]
      BY <3>1
    <3> HIDE DEF be
    <3> QED BY <3>1, <3>2, BigEndianLength DEF be
  <2> HIDE DEF be
  <2>4. 128 + k \in Octet
    <3> HIDE DEF k
    <3>1. 128 + k \in Nat /\ 128 + k <= 255
      BY <2>3
    <3> QED BY <3>1, OctetRange
  <2> DEFINE o == 128 + k
  <2>5. <<o>> \in Seq(Octet) /\ Len(<<o>>) = 1 /\ <<o>>[1] = o
    <3> HIDE DEF o
    <3> QED BY <2>4, OneIs DEF o
  <2> DEFINE a == <<o>>
  <2>6. /\ a \o be \in Seq(Octet)
        /\ Len(a \o be) = 1 + k
        /\ (a \o be)[1] = o
        /\ SubSeq(a \o be, 2, 1 + k) = be
    <3> HIDE DEF o
    <3> QED BY <2>2, <2>4, ConsElements DEF o
  <2>7. l = a \o be
    OBVIOUS
  <2> HIDE DEF l, a
  <2>8. l \in Seq(Octet) /\ Len(l) = 1 + k /\ l[1] = o /\ SubSeq(l, 2, 1 + k) = be
    BY <2>6, <2>7
  <2>10. h = <<tag>> \o l
    BY <2>1 DEF Header
  <2> HIDE DEF h
  <2>11. /\ <<tag>> \o l \in Seq(Octet) /\ Len(<<tag>> \o l) = 1 + Len(l)
         /\ (<<tag>> \o l)[1] = tag
         /\ \A j \in 1 .. Len(l) : (<<tag>> \o l)[1 + j] = l[j]
    <3>1. l \in Seq(Octet)
      BY <2>8
    <3> QED BY <3>1, ConsElements
  <2>14. h \in Seq(Octet) /\ Len(h) = 2 + k /\ h[1] = tag /\ \A j \in 1 .. 1 + k : h[1 + j] = l[j]
    BY <2>3, <2>8, <2>10, <2>11
  <2>15. h[2] = 128 + k
    <3>1. 1 \in 1 .. 1 + k /\ 1 + 1 = 2
      BY <2>3
    <3> QED BY <2>8, <2>14, <3>1
  <2>16. SubSeq(h, 3, 2 + k) = be
    <3> DEFINE u == SubSeq(h, 3, 2 + k)
    <3>1. /\ u \in Seq(Octet) /\ Len(u) = k
          /\ \A j \in 1 .. k : u[j] = h[2 + j]
      <4>1. 3 \in 1 .. Len(h) + 1 /\ 2 + k \in 3 - 1 .. Len(h) /\ (2 + k) - 3 + 1 = k
        BY <2>3, <2>14
      <4>2. /\ SubSeq(h, 3, 2 + k) \in Seq(Octet) /\ Len(SubSeq(h, 3, 2 + k)) = (2 + k) - 3 + 1
            /\ \A j \in 1 .. (2 + k) - 3 + 1 : SubSeq(h, 3, 2 + k)[j] = h[3 + j - 1]
        BY <2>14, <4>1, PartIs
      <4>3. \A j \in 1 .. k : 3 + j - 1 = 2 + j
        OBVIOUS
      <4> QED BY <4>1, <4>2, <4>3
    <3> HIDE DEF u
    <3>2. ASSUME NEW j \in 1 .. k PROVE u[j] = be[j]
      <4>1. j + 1 \in 1 .. 1 + k /\ 1 + (j + 1) = 2 + j
        BY <2>3
      <4>2. u[j] = l[j + 1]
        BY <2>14, <3>1, <4>1
      <4>3. l[1 + j] = be[j]
        <5>1. \A i \in 1 .. Len(be) : (a \o be)[Len(a) + i] = be[i]
          BY <2>2, <2>5, ConcatElements DEF a
        <5>2. Len(a) = 1
          BY <2>5 DEF a
        <5> QED BY <2>7, <5>1, <5>2 DEF k
      <4>4. 1 + j = j + 1
        BY <2>3
      <4> QED BY <4>2, <4>3, <4>4
    <3>3. u = be
      BY <2>2, <3>1, <3>2, SeqEqual
    <3> QED BY <3>3 DEF u
  <2>17. ContentAt(h) = 3 + k
    BY <2>3, <2>15 DEF ContentAt
  <2>18. StatedLength(h) = n
    <3>1. ~(h[2] < 128) /\ h[2] - 126 = 2 + k
      BY <2>3, <2>15
    <3> QED BY <2>2, <2>16, <3>1 DEF StatedLength
  <2>19. h[2] - 128 \in 1 .. 4 /\ ContentAt(h) - 1 = Len(h) /\ Len(h) >= 2 /\ Len(h) <= 6
    <3>1. Len(h) = 2 + k
      BY <2>14
    <3> HIDE DEF k
    <3> QED BY <2>3, <2>15, <2>17, <3>1
  <2> QED BY <1>2, <2>14, <2>18, <2>19 DEF h
<1> QED BY <1>1, <1>2

\* What encode_tlv writes is one value, with this tag and this content.
LEMMA EncodedIs ==
  ASSUME NEW tag \in Octet, tag % 32 # 31, NEW content \in Seq(Octet), Len(content) < Pow2[32]
  PROVE  /\ IsTlv(EncodeTlv(tag, content))
         /\ \A next : Parsed(EncodeTlv(tag, content), next)
              = [tag |-> tag, content |-> content, der |-> EncodeTlv(tag, content), next |-> next]
         /\ Len(EncodeTlv(tag, content)) <= Len(content) + 6
         /\ Len(content) < 128 => Len(EncodeTlv(tag, content)) = Len(content) + 2
         /\ Len(content) <= Len(EncodeTlv(tag, content))
<1> DEFINE n == Len(content)
           h == Header(tag, n)
           d == EncodeTlv(tag, content)
<1>1. n \in Nat
  OBVIOUS
<1>2. /\ h \in Seq(Octet) /\ Len(h) >= 2 /\ Len(h) <= 6
      /\ h[1] = tag /\ (h[2] < 128 \/ h[2] - 128 \in 1 .. 4)
      /\ ContentAt(h) - 1 = Len(h) /\ StatedLength(h) = n
      /\ n < 128 => Len(h) = 2
  BY <1>1, HeaderIs
<1>3. d = h \o content
  BY DEF EncodeTlv, Header
<1> HIDE DEF h
<1>4. /\ h \o content \in Seq(Octet)
      /\ Len(h \o content) = Len(h) + n
      /\ SubSeq(h \o content, Len(h) + 1, Len(h) + n) = content
  BY <1>2, ConcatParts
<1>5. \A k \in 1 .. Len(h) : (h \o content)[k] = h[k]
  BY <1>2, ConcatElements
<1> HIDE DEF d, n
<1>6. d \in Seq(Octet) /\ Len(d) = Len(h) + n /\ SubSeq(d, Len(h) + 1, Len(h) + n) = content
  BY <1>3, <1>4
<1>7. d[1] = tag /\ d[2] = h[2] /\ Len(h) \in Nat
  <2>1. 1 \in 1 .. Len(h) /\ 2 \in 1 .. Len(h) /\ Len(h) \in Nat
    BY <1>2
  <2> QED BY <1>2, <1>3, <1>5, <2>1
<1>8. ContentAt(d) = ContentAt(h)
  BY <1>7 DEF ContentAt
<1>9. StatedLength(d) = n
  <2>1. CASE h[2] < 128
    BY <1>2, <1>7, <2>1 DEF StatedLength
  <2>2. CASE ~(h[2] < 128)
    <3> DEFINE j == h[2] - 126
    <3>1. j \in 3 .. 6 /\ ContentAt(h) = j + 1
      BY <1>2, <2>2 DEF ContentAt
    <3>2. Len(h) = j
      BY <1>2, <1>7, <3>1
    <3> HIDE DEF j
    <3>3. SubSeq(h \o content, 3, j) = SubSeq(h, 3, j)
      <4>1. 3 \in 1 .. Len(h) /\ j \in 1 .. Len(h)
        BY <3>1, <3>2
      <4> QED BY <1>2, <4>1, SubSeqOfConcat1
    <3>4. StatedLength(d) = StatedLength(h)
      BY <1>3, <1>7, <2>2, <3>3 DEF StatedLength, j
    <3> QED BY <1>2, <3>4
  <2> QED BY <2>1, <2>2
<1>10. IsTlv(d)
  <2>1. Len(d) >= 2 /\ ContentAt(d) - 1 + StatedLength(d) = Len(d) /\ ContentAt(d) - 1 <= Len(d)
    <3>1. ContentAt(d) - 1 = Len(h)
      BY <1>2, <1>8
    <3> QED BY <1>1, <1>2, <1>6, <1>7, <1>9, <3>1
  <2> QED BY <1>2, <1>6, <1>7, <2>1 DEF IsTlv
<1>11. ContentAt(d) = Len(h) + 1
  <2>1. ContentAt(h) \in Int
    BY <1>2 DEF ContentAt
  <2> QED BY <1>2, <1>7, <1>8, <2>1
<1>12. SubSeq(d, ContentAt(d), Len(d)) = content
  BY <1>6, <1>11
<1>13. \A next : Parsed(d, next) = [tag |-> tag, content |-> content, der |-> d, next |-> next]
  BY <1>7, <1>12 DEF Parsed
<1>14. Len(d) <= n + 6 /\ (n < 128 => Len(d) = n + 2) /\ n <= Len(d)
  BY <1>1, <1>2, <1>6, <1>7
<1> QED BY <1>10, <1>13, <1>14 DEF d, n

-----------------------------------------------------------------------------
(* Values one after the other *)

\* The octets of values.
DersOf(m) == [k \in DOMAIN m |-> m[k].der]

\* A value as it was read.
WasParsed(t) == t \in TlvRecord /\ IsTlv(t.der) /\ t = Parsed(t.der, t.next)

\* Values that make up the content.
ListsContent(m, content) ==
  /\ m \in Seq(TlvRecord)
  /\ \A k \in 1 .. Len(m) : WasParsed(m[k])
  /\ FlattenSeq(DersOf(m)) = content

\* The octets of whole values.
Items(items) == items \in Seq(Seq(Octet)) /\ \A k \in 1 .. Len(items) : IsTlv(items[k])

\* What is read of one value has its type.
LEMMA ParsedIs ==
  ASSUME NEW d, IsTlv(d), NEW next \in Nat
  PROVE  /\ WasParsed(Parsed(d, next))
         /\ Parsed(d, next).der = d
         /\ Parsed(d, next).next = next
         /\ Parsed(d, next).tag = d[1]
         /\ d \in Seq(Octet) /\ Len(d) \in Nat /\ Len(d) >= 2
<1>1. d \in Seq(Octet) /\ Len(d) \in Nat /\ Len(d) >= 2 /\ d[1] % 32 # 31
  BY DEF IsTlv
<1>2. d[1] \in Octet /\ d[2] \in Octet
  <2>1. 1 \in 1 .. Len(d) /\ 2 \in 1 .. Len(d)
    BY <1>1
  <2> QED BY <1>1, <2>1, OctetIs
<1>3. SubSeq(d, ContentAt(d), Len(d)) \in Seq(Octet)
  <2>1. d[2] \in Nat /\ (d[2] < 128 \/ d[2] - 128 \in 1 .. 4) /\ ContentAt(d) - 1 <= Len(d)
    BY <1>2, OctetRange DEF IsTlv
  <2>2. ContentAt(d) \in 1 .. Len(d) + 1 /\ Len(d) \in ContentAt(d) - 1 .. Len(d)
    <3>1. ContentAt(d) \in Nat /\ ContentAt(d) >= 1
      BY <2>1 DEF ContentAt
    <3> QED BY <1>1, <2>1, <3>1
  <2> QED BY <1>1, <2>2, PartIs
<1> DEFINE t == Parsed(d, next)
<1>4. t \in TlvRecord /\ t.der = d /\ t.next = next /\ t.tag = d[1]
  BY <1>1, <1>2, <1>3 DEF Parsed, TlvRecord
<1>5. WasParsed(t)
  <2> HIDE DEF t
  <2>1. t = Parsed(d, next)
    BY DEF t
  <2> QED BY <1>4, <2>1 DEF WasParsed
<1> QED BY <1>1, <1>4, <1>5

\* The fields of a value.
LEMMA TlvTypes ==
  \A t \in TlvRecord : t.tag \in Octet /\ t.content \in Seq(Octet) /\ t.der \in Seq(Octet) /\ t.next \in Nat
BY DEF TlvRecord

\* The octets of values are octet strings.
LEMMA DersType ==
  ASSUME NEW q \in Seq(TlvRecord)
  PROVE  /\ DersOf(q) \in Seq(Seq(Octet)) /\ Len(DersOf(q)) = Len(q)
         /\ \A k \in 1 .. Len(q) : DersOf(q)[k] = q[k].der
<1>1. \A k \in 1 .. Len(q) : q[k].der \in Seq(Octet)
  BY TlvTypes, ElementOfSeq
<1>2. DOMAIN q = 1 .. Len(q)
  OBVIOUS
<1> QED BY <1>1, <1>2 DEF DersOf

\* The octets of one value before others.
LEMMA DersCons ==
  ASSUME NEW m \in Seq(TlvRecord), NEW t \in TlvRecord
  PROVE  /\ DersOf(m) \in Seq(Seq(Octet)) /\ Len(DersOf(m)) = Len(m)
         /\ DersOf(<<t>> \o m) = <<t.der>> \o DersOf(m)
         /\ \A k \in 1 .. Len(m) : DersOf(m)[k] = m[k].der
<1>1. ASSUME NEW q \in Seq(TlvRecord)
      PROVE  /\ DersOf(q) \in Seq(Seq(Octet)) /\ Len(DersOf(q)) = Len(q)
             /\ \A k \in 1 .. Len(q) : DersOf(q)[k] = q[k].der
  BY DersType
<1> DEFINE w == <<t>> \o m
           d == t.der
           v == <<d>> \o DersOf(m)
<1>2. /\ w \in Seq(TlvRecord) /\ Len(w) = 1 + Len(m) /\ w[1] = t
      /\ \A j \in 1 .. Len(m) : w[1 + j] = m[j]
  BY ConsElements
<1>3. d \in Seq(Octet) /\ DersOf(m) \in Seq(Seq(Octet)) /\ Len(DersOf(m)) = Len(m)
  BY <1>1 DEF TlvRecord
<1>4. /\ v \in Seq(Seq(Octet)) /\ Len(v) = 1 + Len(DersOf(m)) /\ v[1] = d
      /\ \A j \in 1 .. Len(DersOf(m)) : v[1 + j] = DersOf(m)[j]
  <2> HIDE DEF d
  <2> QED BY <1>3, ConsElements
<1> HIDE DEF w, v
<1>5. DersOf(w) \in Seq(Seq(Octet)) /\ Len(DersOf(w)) = Len(w) /\ \A k \in 1 .. Len(w) : DersOf(w)[k] = w[k].der
  BY <1>1, <1>2
<1>6. ASSUME NEW k \in 1 .. 1 + Len(m) PROVE DersOf(w)[k] = v[k]
  <2>1. CASE k = 1
    BY <1>2, <1>4, <1>5, <2>1
  <2>2. CASE k # 1
    <3> DEFINE j == k - 1
    <3>1. j \in 1 .. Len(m) /\ k = 1 + j
      BY <2>2
    <3> HIDE DEF j
    <3>2. w[k] = m[j] /\ v[k] = DersOf(m)[j]
      BY <1>2, <1>3, <1>4, <3>1
    <3>3. DersOf(m)[j] = m[j].der /\ DersOf(w)[k] = w[k].der
      BY <1>1, <1>2, <1>5, <3>1
    <3> QED BY <3>2, <3>3
  <2> QED BY <2>1, <2>2
<1>7. DersOf(w) = v
  <2>1. Len(DersOf(w)) = Len(v) /\ \A k \in 1 .. Len(DersOf(w)) : DersOf(w)[k] = v[k]
    BY <1>2, <1>3, <1>4, <1>5, <1>6
  <2> QED BY <1>4, <1>5, <2>1, SeqEqual
<1> QED BY <1>1, <1>7 DEF w, v

\* One value before others.
LEMMA ListsCons ==
  ASSUME NEW t, WasParsed(t), NEW c \in Seq(Octet), NEW m, ListsContent(m, c)
  PROVE  ListsContent(<<t>> \o m, t.der \o c)
<1>1. t \in TlvRecord /\ t.der \in Seq(Octet) /\ m \in Seq(TlvRecord)
  BY DEF WasParsed, ListsContent, TlvRecord
<1> DEFINE w == <<t>> \o m
<1>2. /\ w \in Seq(TlvRecord) /\ Len(w) = 1 + Len(m) /\ w[1] = t
      /\ \A j \in 1 .. Len(m) : w[1 + j] = m[j]
  BY <1>1, ConsElements
<1>3. DersOf(w) = <<t.der>> \o DersOf(m) /\ DersOf(m) \in Seq(Seq(Octet))
  BY <1>1, DersCons
<1>4. FlattenSeq(<<t.der>> \o DersOf(m)) = t.der \o FlattenSeq(DersOf(m))
  <2> DEFINE d == t.der
  <2>1. d \in Seq(Octet)
    BY <1>1
  <2> HIDE DEF d
  <2>2. FlattenSeq(<<d>> \o DersOf(m)) = d \o FlattenSeq(DersOf(m))
    BY <1>3, <2>1, FlattenCons
  <2> QED BY <2>2 DEF d
<1>5. FlattenSeq(DersOf(w)) = t.der \o c
  BY <1>3, <1>4 DEF ListsContent
<1> HIDE DEF w
<1>6. ASSUME NEW k \in 1 .. Len(w) PROVE WasParsed(w[k])
  <2>1. CASE k = 1
    BY <1>2, <2>1
  <2>2. CASE k # 1
    <3> DEFINE j == k - 1
    <3>1. j \in 1 .. Len(m) /\ k = 1 + j
      <4>1. Len(m) \in Nat
        BY <1>1
      <4> QED BY <1>2, <2>2, <4>1
    <3> HIDE DEF j
    <3>2. w[k] = m[j]
      BY <1>2, <3>1
    <3> QED BY <3>1, <3>2 DEF ListsContent
  <2> QED BY <2>1, <2>2
<1>7. ListsContent(w, t.der \o c)
  BY <1>2, <1>5, <1>6 DEF ListsContent
<1> QED BY <1>7 DEF w

\* One of these values before any of the rests.
Continued(T, f) == UNION {{<<t>> \o rest : rest \in f[t.next]} : t \in T}

\* Their type.
LEMMA UnionOfRests ==
  ASSUME NEW T, NEW f, NEW S, \A t \in T : \A rest \in f[t.next] : <<t>> \o rest \in S
  PROVE  Continued(T, f) \in SUBSET S
<1> SUFFICES ASSUME NEW s \in Continued(T, f) PROVE s \in S
  OBVIOUS
<1>1. PICK t \in T : s \in {<<t>> \o rest : rest \in f[t.next]}
  BY DEF Continued
<1>2. PICK rest \in f[t.next] : s = <<t>> \o rest
  BY <1>1
<1>3. <<t>> \o rest \in S
  OBVIOUS
<1> QED BY <1>2, <1>3

\* The equations of a list that is read one after the other.
Iterates(M, read, n, X) ==
  /\ M \in [1 .. n + 1 -> SUBSET Seq(X)]
  /\ M[n + 1] = {<<>>}
  /\ \A at \in 1 .. n : M[at] = Continued(read[at], M)

\* What is read lies before where it goes on.
ReadsOn(read, n, X) == \A at \in 1 .. n : \A t \in read[at] : t \in X /\ t.next \in at + 1 .. n + 1

\* Reading one after the other has a result.
LEMMA IteratedDef ==
  ASSUME NEW n \in Nat, NEW X, NEW read, ReadsOn(read, n, X)
  PROVE  \E M : Iterates(M, read, n, X) /\ Iterated(read, n) = M[1]
<1> DEFINE I == 1 .. n + 1
           V == SUBSET Seq(X)
           E(f, at) == UNION {{<<t>> \o rest : rest \in f[t.next]} : t \in read[at]}
           G(f, at) == IF at > n THEN {<<>>} ELSE E(f, at)
           B == [p \in [I -> V] \X I |-> G(p[1], p[2])]
           rank == [at \in I |-> n + 1 - at]
           Good(f) == f = [at \in I |-> G(f, at)]
           c == CHOOSE f : Good(f)
<1>1. n \in Nat
  OBVIOUS
<1>2. ASSUME NEW at \in 1 .. n, NEW t \in read[at]
      PROVE  t \in X /\ t.next \in I /\ t.next > at
  <2>1. t \in X /\ t.next \in at + 1 .. n + 1
    BY <1>2 DEF ReadsOn
  <2> QED BY <2>1
<1>3. \A f \in [I -> V], at \in I : G(f, at) \in V
  <2> SUFFICES ASSUME NEW f \in [I -> V], NEW at \in I PROVE G(f, at) \in V
    OBVIOUS
  <2>1. CASE at > n
    <3>1. <<>> \in Seq(X)
      BY EmptySeq
    <3> QED BY <2>1, <3>1
  <2>2. CASE ~(at > n)
    <3>1. at \in 1 .. n
      BY <1>1, <2>2
    <3>2. ASSUME NEW t \in read[at], NEW rest \in f[t.next] PROVE <<t>> \o rest \in Seq(X)
      <4>1. t \in X /\ f[t.next] \in V
        BY <1>2, <3>1
      <4>2. rest \in Seq(X)
        BY <4>1
      <4> QED BY <4>1, <4>2, ConsElements
    <3>3. E(f, at) \in V
      <4> DEFINE T == read[at]
             S == Seq(X)
      <4>1. \A t \in T : \A rest \in f[t.next] : <<t>> \o rest \in S
        BY <3>2
      <4> HIDE DEF T, S
      <4>2. Continued(T, f) \in SUBSET S
        BY <4>1, UnionOfRests
      <4> QED BY <4>2 DEF T, S, Continued
    <3> QED BY <2>2, <3>3
  <2> QED BY <2>1, <2>2
<1>4. \E f : Solves(f, B, I, V)
  <2>1. {} \in V /\ rank \in [I -> 0 .. n] /\ n \in Nat
    BY <1>1
  <2>2. B \in [[I -> V] \X I -> V]
    <3> HIDE DEF G, V, I
    <3> QED BY <1>3
  <2>3. GoesDown(B, I, V, rank)
    <3>1. SUFFICES ASSUME NEW f \in [I -> V], NEW g \in [I -> V], NEW i \in I,
                          \A j \in I : rank[j] < rank[i] => f[j] = g[j]
                   PROVE  B[<<f, i>>] = B[<<g, i>>]
      BY DEF GoesDown
    <3>2. B[<<f, i>>] = G(f, i) /\ B[<<g, i>>] = G(g, i)
      <4> HIDE DEF G, V, I
      <4> QED OBVIOUS
    <3>3. CASE i > n
      BY <3>2, <3>3
    <3>4. CASE ~(i > n)
      <4>1. i \in 1 .. n
        BY <1>1, <3>4
      <4>2. \A t \in read[i] : f[t.next] = g[t.next]
        <5> SUFFICES ASSUME NEW t \in read[i] PROVE f[t.next] = g[t.next]
          OBVIOUS
        <5>1. t.next \in I /\ t.next > i
          BY <1>2, <4>1
        <5>2. rank[t.next] < rank[i]
          BY <1>1, <5>1
        <5> QED BY <3>1, <5>1, <5>2
      <4>3. E(f, i) = E(g, i)
        <5> HIDE DEF B, V, I
        <5> QED BY <4>2
      <4>4. G(f, i) = E(f, i) /\ G(g, i) = E(g, i)
        <5> HIDE DEF B, V, I, E
        <5> QED BY <3>4
      <4> HIDE DEF E, G
      <4> QED BY <3>2, <4>3, <4>4
    <3> QED BY <3>3, <3>4
  <2> HIDE DEF B, V, rank, I
  <2> QED BY <2>1, <2>2, <2>3, RecursionExists
<1>5. \E f : Good(f) /\ f \in [I -> V]
  <2>1. PICK f : Solves(f, B, I, V)
    BY <1>4
  <2>2. f \in [I -> V] /\ \A i \in I : f[i] = B[<<f, i>>]
    BY <2>1 DEF Solves
  <2>3. \A i \in I : f[i] = G(f, i)
    <3> HIDE DEF G, V, I
    <3> QED BY <2>2
  <2> HIDE DEF G, B, V, I
  <2> QED BY <2>2, <2>3
<1>6. Good(c)
  <2> HIDE DEF Good
  <2> QED BY <1>5
<1>7. Iterated(read, n) = c[1]
  BY DEF Iterated
<1> HIDE DEF c
<1>8. \A at \in I : c[at] = G(c, at)
  <2> HIDE DEF G, I
  <2> QED BY <1>6
<1>9. DOMAIN c = I
  <2> HIDE DEF G, I
  <2> QED BY <1>6
<1>10. \A at \in I : c[at] \in V
  <2> DEFINE H == { k \in Nat : \A at \in I : n + 1 - at = k => c[at] \in V }
  <2>1. ASSUME NEW k \in Nat, \A j \in 0 .. k - 1 : j \in H PROVE k \in H
    <3> SUFFICES ASSUME NEW at \in I, n + 1 - at = k PROVE c[at] \in V
      OBVIOUS
    <3>1. CASE at > n
      <4>1. <<>> \in Seq(X)
        BY EmptySeq
      <4>2. c[at] = {<<>>}
        BY <1>8, <3>1
      <4> QED BY <4>1, <4>2
    <3>2. CASE ~(at > n)
      <4>1. at \in 1 .. n
        BY <1>1, <3>2
      <4>2. ASSUME NEW t \in read[at], NEW rest \in c[t.next] PROVE <<t>> \o rest \in Seq(X)
        <5>1. t \in X /\ t.next \in I /\ t.next > at
          BY <1>2, <4>1
        <5> DEFINE j == n + 1 - t.next
        <5>2. j \in 0 .. k - 1
          BY <1>1, <4>1, <5>1
        <5>3. c[t.next] \in V
          BY <2>1, <5>1, <5>2
        <5>4. rest \in Seq(X)
          BY <4>2, <5>3
        <5> QED BY <5>1, <5>4, ConsElements
      <4>3. c[at] = E(c, at)
        <5> HIDE DEF E, I
        <5> QED BY <1>8, <3>2
      <4>4. E(c, at) \in V
        <5> DEFINE T == read[at]
               S == Seq(X)
        <5>1. \A t \in T : \A rest \in c[t.next] : <<t>> \o rest \in S
          BY <4>2
        <5> HIDE DEF T, S
        <5>2. Continued(T, c) \in SUBSET S
          BY <5>1, UnionOfRests
        <5> QED BY <5>2 DEF T, S, Continued
      <4> HIDE DEF E, V
      <4> QED BY <4>3, <4>4
    <3> QED BY <3>1, <3>2
  <2>2. \A k \in Nat : k \in H
    <3> HIDE DEF H
    <3> QED BY <2>1, StrongInduction
  <2>3. \A at \in I : n + 1 - at \in Nat
    BY <1>1
  <2> QED BY <2>2, <2>3
<1>11. c \in [I -> V]
  <2> HIDE DEF G, V, I
  <2>1. c = [at \in I |-> c[at]]
    BY <1>6, <1>8
  <2> QED BY <1>10, <2>1
<1>12. Iterates(c, read, n, X)
  <2>1. n + 1 \in I /\ n + 1 > n
    BY <1>1
  <2>2. c[n + 1] = {<<>>}
    BY <1>8, <2>1
  <2>3. ASSUME NEW at \in 1 .. n PROVE c[at] = E(c, at)
    <3>1. at \in I /\ ~(at > n)
      BY <1>1
    <3> HIDE DEF E, I
    <3> QED BY <1>8, <3>1
  <2> HIDE DEF Good
  <2> QED BY <1>11, <2>2, <2>3 DEF Iterates, Continued
<1> HIDE DEF Good
<1> QED BY <1>7, <1>12

\* The equations of iter_sequence.
IteratesFrom(M, content) ==
  /\ M \in [1 .. Len(content) + 1 -> SUBSET Seq(TlvRecord)]
  /\ M[Len(content) + 1] = {<<>>}
  /\ \A at \in 1 .. Len(content) :
       M[at] = UNION {{<<t>> \o rest : rest \in M[t.next]} : t \in ReadTlv(content, at)}

\* The recursion of iter_sequence has a solution.
LEMMA IterSequenceDef ==
  ASSUME NEW content \in Seq(Octet)
  PROVE  \E M : IteratesFrom(M, content) /\ IterSequence(content) = M[1]
<1> DEFINE n == Len(content)
           read == [at \in 1 .. n |-> ReadTlv(content, at)]
<1>1. n \in Nat
  OBVIOUS
<1>2. \A at \in 1 .. n : read[at] = ReadTlv(content, at)
  OBVIOUS
<1>3. IterSequence(content) = Iterated(read, n)
  BY DEF IterSequence
<1> HIDE DEF n, read
<1>4. ReadsOn(read, n, TlvRecord)
  <2> SUFFICES ASSUME NEW at \in 1 .. n, NEW t \in read[at]
               PROVE  t \in TlvRecord /\ t.next \in at + 1 .. n + 1
    BY DEF ReadsOn
  <2>1. t.next \in at + 2 .. n + 1 /\ IsTlv(SubSeq(content, at, t.next - 1))
        /\ t = Parsed(SubSeq(content, at, t.next - 1), t.next)
    BY <1>2, ReadTlvIs DEF n
  <2>2. t.next \in Nat /\ t.next \in at + 1 .. n + 1
    BY <2>1
  <2>3. Parsed(SubSeq(content, at, t.next - 1), t.next) \in TlvRecord
    BY <2>1, <2>2, ParsedIs DEF WasParsed
  <2> QED BY <2>1, <2>2, <2>3
<1>5. PICK M : Iterates(M, read, n, TlvRecord) /\ Iterated(read, n) = M[1]
  BY <1>1, <1>4, IteratedDef
<1>6. IteratesFrom(M, content)
  <2>1. \A at \in 1 .. n : M[at] = Continued(ReadTlv(content, at), M)
    BY <1>2, <1>5 DEF Iterates
  <2> QED BY <1>5, <2>1 DEF Iterates, IteratesFrom, Continued, n
<1> QED BY <1>3, <1>5, <1>6

\* Nothing is listed by no values.
LEMMA ListsNothing == ListsContent(<<>>, <<>>)
<1>1. <<>> \in Seq(TlvRecord) /\ Len(<<>>) = 0 /\ DersOf(<<>>) = <<>>
  BY EmptySeq DEF DersOf
<1>2. FlattenSeq(<<>>) = <<>>
  <2>1. <<>> \in Seq(Seq(Octet)) /\ <<>> \in Seq(Octet)
    BY EmptySeq
  <2> QED BY <2>1, FlattenAppend
<1> QED BY <1>1, <1>2 DEF ListsContent

\* Whatever is iterated makes up the content from there.
LEMMA IteratedLists ==
  ASSUME NEW content \in Seq(Octet), NEW M, IteratesFrom(M, content)
  PROVE  \A at \in 1 .. Len(content) + 1 : \A m \in M[at] : ListsContent(m, SubSeq(content, at, Len(content)))
<1> DEFINE n == Len(content)
           H == { k \in Nat : \A at \in 1 .. n + 1 : n + 1 - at = k =>
                    \A m \in M[at] : ListsContent(m, SubSeq(content, at, n)) }
<1>1. n \in Nat
  OBVIOUS
<1>2. /\ M[n + 1] = {<<>>}
      /\ \A at \in 1 .. n : M[at] = Continued(ReadTlv(content, at), M)
  BY DEF IteratesFrom, Continued
<1> HIDE DEF n
<1>3. ASSUME NEW k \in Nat, \A j \in 0 .. k - 1 : j \in H PROVE k \in H
  <2> SUFFICES ASSUME NEW at \in 1 .. n + 1, n + 1 - at = k, NEW m \in M[at]
               PROVE  ListsContent(m, SubSeq(content, at, n))
    OBVIOUS
  <2>1. CASE at = n + 1
    <3>1. m = <<>>
      BY <1>2, <2>1
    <3>2. SubSeq(content, at, n) = <<>>
      BY <1>1, <2>1, SubSeqEmpty
    <3> QED BY <3>1, <3>2, ListsNothing
  <2>2. CASE at # n + 1
    <3>1. at \in 1 .. n
      BY <1>1, <2>2
    <3>2. m \in Continued(ReadTlv(content, at), M)
      BY <1>2, <3>1
    <3>3. PICK t \in ReadTlv(content, at) : m \in {<<t>> \o rest : rest \in M[t.next]}
      BY <3>2 DEF Continued
    <3>4. PICK rest \in M[t.next] : m = <<t>> \o rest
      BY <3>3
    <3> DEFINE next == t.next
               d == SubSeq(content, at, next - 1)
    <3>5. next \in at + 2 .. n + 1 /\ IsTlv(d) /\ t = Parsed(d, next)
      BY <3>1, ReadTlvIs DEF n
    <3>6. next \in 1 .. n + 1 /\ n + 1 - next \in 0 .. k - 1 /\ next \in Nat
      BY <1>1, <3>1, <3>5
    <3>7. ListsContent(rest, SubSeq(content, next, n))
      BY <1>3, <3>6
    <3>8. WasParsed(t) /\ t.der = d
      <4> HIDE DEF next, d
      <4> QED BY <3>5, <3>6, ParsedIs
    <3> DEFINE c == SubSeq(content, next, n)
    <3>9. c \in Seq(Octet)
      <4>1. next \in 1 .. Len(content) + 1 /\ n \in next - 1 .. Len(content)
        BY <1>1, <3>6 DEF n
      <4> HIDE DEF next
      <4> QED BY <4>1, PartIs
    <3>10. ListsContent(<<t>> \o rest, t.der \o c)
      <4> HIDE DEF c
      <4> QED BY <3>7, <3>8, <3>9, ListsCons DEF c
    <3>11. SubSeq(content, at, n) = d \o c
      <4>1. at \in 1 .. Len(content) + 1 /\ next - 1 \in at - 1 .. Len(content) /\ n \in next - 1 .. Len(content)
            /\ (next - 1) + 1 = next
        BY <1>1, <3>1, <3>5 DEF n
      <4> HIDE DEF next
      <4>2. SubSeq(content, at, n) = SubSeq(content, at, next - 1) \o SubSeq(content, (next - 1) + 1, n)
        BY <4>1, PartCut
      <4> QED BY <4>1, <4>2
    <3> HIDE DEF d, c
    <3> QED BY <3>4, <3>8, <3>10, <3>11
  <2> QED BY <2>1, <2>2
<1>4. \A k \in Nat : k \in H
  <2> HIDE DEF H
  <2> QED BY <1>3, StrongInduction
<1>5. \A at \in 1 .. n + 1 : n + 1 - at \in Nat
  BY <1>1
<1>6. \A at \in 1 .. n + 1 : \A m \in M[at] : ListsContent(m, SubSeq(content, at, n))
  BY <1>4, <1>5
<1> QED BY <1>6 DEF n

\* The only value before the only rest.
LEMMA ContinuedOnce ==
  ASSUME NEW T, NEW f, NEW t \in T, \A u \in T : u = t, NEW rest \in f[t.next], \A r \in f[t.next] : r = rest
  PROVE  <<t>> \o rest \in Continued(T, f) /\ \A s \in Continued(T, f) : s = <<t>> \o rest
<1>1. \A s : s \in Continued(T, f) <=> \E u \in T : s \in {<<u>> \o r : r \in f[u.next]}
  BY DEF Continued
<1>2. \A s : s \in Continued(T, f) <=> s \in {<<t>> \o r : r \in f[t.next]}
  BY <1>1
<1>3. \A s : s \in {<<t>> \o r : r \in f[t.next]} <=> s = <<t>> \o rest
  <2> SUFFICES ASSUME NEW s PROVE s \in {<<t>> \o r : r \in f[t.next]} <=> s = <<t>> \o rest
    OBVIOUS
  <2>1. ASSUME s \in {<<t>> \o r : r \in f[t.next]} PROVE s = <<t>> \o rest
    BY <2>1
  <2>2. ASSUME s = <<t>> \o rest PROVE s \in {<<t>> \o r : r \in f[t.next]}
    BY <2>2
  <2> QED BY <2>1, <2>2
<1> QED BY <1>2, <1>3

\* A sequence with elements is its first element and the others.
LEMMA FirstAndRest ==
  ASSUME NEW E, NEW s \in Seq(E), s # <<>>
  PROVE  /\ s[1] \in E
         /\ SubSeq(s, 2, Len(s)) \in Seq(E)
         /\ Len(SubSeq(s, 2, Len(s))) = Len(s) - 1
         /\ s = <<s[1]>> \o SubSeq(s, 2, Len(s))
         /\ \A k \in 1 .. Len(s) - 1 : SubSeq(s, 2, Len(s))[k] = s[k + 1]
<1>1. Len(s) \in Nat /\ Len(s) # 0
  BY EmptySeq
<1>2. 2 \in 1 .. Len(s) + 1 /\ Len(s) \in 2 - 1 .. Len(s) /\ Len(s) - 2 + 1 = Len(s) - 1
  BY <1>1
<1>3. /\ SubSeq(s, 2, Len(s)) \in Seq(E)
      /\ Len(SubSeq(s, 2, Len(s))) = Len(s) - 2 + 1
      /\ \A k \in 1 .. Len(s) - 2 + 1 : SubSeq(s, 2, Len(s))[k] = s[2 + k - 1]
  BY <1>2, PartIs
<1>4. SubSeq(s, 1, Len(s)) = <<s[1]>> \o SubSeq(s, 1 + 1, Len(s))
  <2>1. 1 \in 1 .. Len(s) /\ Len(s) \in 1 .. Len(s)
    BY <1>1
  <2> QED BY <2>1, SubSeqRecursiveFirst
<1>5. SubSeq(s, 1, Len(s)) = s
  BY SubSeqFull
<1>6. \A k \in 1 .. Len(s) - 1 : 2 + k - 1 = k + 1
  OBVIOUS
<1>7. s[1] \in E
  BY <1>1
<1> QED BY <1>2, <1>3, <1>4, <1>5, <1>6, <1>7

\* Whole values are iterated as they are.
LEMMA ItemsIterated ==
  ASSUME NEW content \in Seq(Octet), NEW M, IteratesFrom(M, content)
  PROVE  \A at \in 1 .. Len(content) + 1 : \A items :
           Items(items) /\ FlattenSeq(items) = SubSeq(content, at, Len(content))
             => \E m \in Seq(TlvRecord) : M[at] = {m} /\ DersOf(m) = items
<1> DEFINE n == Len(content)
           Found(at, items) == \E m \in Seq(TlvRecord) : M[at] = {m} /\ DersOf(m) = items
           H == { k \in Nat : \A at \in 1 .. n + 1 : n + 1 - at = k =>
                    \A items : Items(items) /\ FlattenSeq(items) = SubSeq(content, at, n) => Found(at, items) }
<1>1. n \in Nat
  OBVIOUS
<1>2. /\ M[n + 1] = {<<>>}
      /\ \A at \in 1 .. n : M[at] = Continued(ReadTlv(content, at), M)
  BY DEF IteratesFrom, Continued
<1>12. FlattenSeq(<<>>) = <<>>
  <2>1. <<>> \in Seq(Seq(Octet)) /\ <<>> \in Seq(Octet)
    BY EmptySeq
  <2> QED BY <2>1, FlattenAppend
<1>13. ASSUME NEW items, Items(items), items # <<>>
       PROVE  /\ items[1] \in Seq(Octet) /\ IsTlv(items[1]) /\ Len(items[1]) >= 2 /\ Len(items[1]) \in Nat
              /\ Items(SubSeq(items, 2, Len(items)))
              /\ items = <<items[1]>> \o SubSeq(items, 2, Len(items))
              /\ FlattenSeq(items) = items[1] \o FlattenSeq(SubSeq(items, 2, Len(items)))
              /\ FlattenSeq(SubSeq(items, 2, Len(items))) \in Seq(Octet)
  <2> DEFINE d == items[1]
             others == SubSeq(items, 2, Len(items))
  <2>1. items \in Seq(Seq(Octet)) /\ \A k \in 1 .. Len(items) : IsTlv(items[k])
    BY <1>13 DEF Items
  <2>2. /\ d \in Seq(Octet) /\ others \in Seq(Seq(Octet)) /\ Len(others) = Len(items) - 1
        /\ items = <<d>> \o others
        /\ \A k \in 1 .. Len(items) - 1 : others[k] = items[k + 1]
    BY <1>13, <2>1, FirstAndRest
  <2>3. Len(items) \in Nat /\ Len(items) # 0
    BY <1>13, <2>1, EmptySeq
  <2> HIDE DEF others
  <2>4. Items(others)
    <3>1. ASSUME NEW k \in 1 .. Len(others) PROVE IsTlv(others[k])
      <4>1. k \in 1 .. Len(items) - 1 /\ k + 1 \in 1 .. Len(items)
        BY <2>2, <2>3
      <4> QED BY <2>1, <2>2, <4>1
    <3> QED BY <2>2, <3>1 DEF Items
  <2>5. IsTlv(d)
    <3>1. 1 \in 1 .. Len(items)
      BY <2>3
    <3> QED BY <2>1, <3>1
  <2> HIDE DEF d
  <2>6. FlattenSeq(<<d>> \o others) = d \o FlattenSeq(others) /\ FlattenSeq(others) \in Seq(Octet)
    BY <2>2, FlattenCons, FlattenType
  <2>7. Len(d) >= 2 /\ Len(d) \in Nat
    BY <2>5 DEF IsTlv
  <2> QED BY <2>2, <2>4, <2>5, <2>6, <2>7 DEF d, others
<1> HIDE DEF n, Found
<1>3. ASSUME NEW k \in Nat, \A j \in 0 .. k - 1 : j \in H PROVE k \in H
  <2>h. SUFFICES ASSUME NEW at \in 1 .. n + 1, n + 1 - at = k,
                        NEW items, Items(items), FlattenSeq(items) = SubSeq(content, at, n)
                 PROVE  Found(at, items)
    OBVIOUS
  <2>0. /\ SubSeq(content, at, n) \in Seq(Octet)
        /\ Len(SubSeq(content, at, n)) = n - at + 1
    <3>1. at \in 1 .. Len(content) + 1 /\ n \in at - 1 .. Len(content)
      BY <1>1 DEF n
    <3> QED BY <3>1, PartIs
  <2>1. CASE items = <<>>
    <3>0. FlattenSeq(<<>>) = SubSeq(content, at, n)
      BY <2>h, <2>1
    <3>5. SubSeq(content, at, n) = <<>>
      BY <1>12, <3>0, Zenon
    <3>1. Len(SubSeq(content, at, n)) = 0
      BY <3>5
    <3>2. at = n + 1
      BY <1>1, <2>0, <3>1
    <3>3. <<>> \in Seq(TlvRecord) /\ DersOf(<<>>) = <<>>
      BY EmptySeq DEF DersOf
    <3>4. M[at] = {<<>>}
      BY <1>2, <3>2
    <3> QED BY <2>1, <3>3, <3>4 DEF Found
  <2>2. CASE items # <<>>
    <3> DEFINE d == items[1]
               others == SubSeq(items, 2, Len(items))
               c == FlattenSeq(others)
               next == at + Len(d)
    <3>1. /\ d \in Seq(Octet) /\ IsTlv(d) /\ Len(d) >= 2 /\ Len(d) \in Nat
          /\ Items(others) /\ items = <<d>> \o others
          /\ c \in Seq(Octet)
      BY <1>13, <2>2, <2>h
    <3>14. SubSeq(content, at, n) = d \o c
      BY <1>13, <2>2, <2>h
    <3> HIDE DEF d, c
    <3>2. /\ Len(d \o c) = Len(d) + Len(c) /\ Len(c) \in Nat
          /\ SubSeq(d \o c, 1, Len(d)) = d
          /\ SubSeq(d \o c, Len(d) + 1, Len(d) + Len(c)) = c
      <4>1. d \in Seq(Octet) /\ c \in Seq(Octet)
        BY <3>1
      <4> QED BY <4>1, ConcatParts
    <3>3. n - at + 1 = Len(d) + Len(c)
      BY <2>0, <3>14, <3>2
    <3>4. at \in 1 .. n /\ next \in at + 2 .. n + 1 /\ next \in Nat /\ n + 1 - next \in 0 .. k - 1 /\ next \in 1 .. n + 1
      BY <1>1, <3>1, <3>2, <3>3, <2>h
    <3>5. SubSeq(content, at, next - 1) = d /\ SubSeq(content, next, n) = c
      <4> DEFINE w == SubSeq(content, at, n)
      <4>1. SubSeq(w, 1, Len(d)) = d /\ SubSeq(w, Len(d) + 1, Len(d) + Len(c)) = c
        BY <3>14, <3>2
      <4>2. at \in 1 .. Len(content) + 1 /\ n \in at - 1 .. Len(content)
        BY <1>1 DEF n
      <4>3. /\ 1 \in 1 .. (n - at + 1) + 1 /\ Len(d) \in 1 - 1 .. n - at + 1
            /\ Len(d) + 1 \in 1 .. (n - at + 1) + 1 /\ Len(d) + Len(c) \in (Len(d) + 1) - 1 .. n - at + 1
        BY <3>1, <3>2, <3>3
      <4>4. SubSeq(w, 1, Len(d)) = SubSeq(content, at + 1 - 1, at + Len(d) - 1)
        BY <4>2, <4>3, PartOfPart
      <4>5. SubSeq(w, Len(d) + 1, Len(d) + Len(c)) = SubSeq(content, at + (Len(d) + 1) - 1, at + (Len(d) + Len(c)) - 1)
        <5> DEFINE p == Len(d) + 1
                   q == Len(d) + Len(c)
        <5>1. p \in 1 .. (n - at + 1) + 1 /\ q \in p - 1 .. n - at + 1
          BY <4>3
        <5> HIDE DEF p, q
        <5>2. SubSeq(w, p, q) = SubSeq(content, at + p - 1, at + q - 1)
          BY <4>2, <5>1, PartOfPart
        <5> QED BY <5>2 DEF p, q
      <4>6. at + 1 - 1 = at /\ at + Len(d) - 1 = next - 1 /\ at + (Len(d) + 1) - 1 = next /\ at + (Len(d) + Len(c)) - 1 = n
        BY <1>1, <3>1, <3>2, <3>3
      <4> HIDE DEF w, next
      <4> QED BY <4>1, <4>4, <4>5, <4>6
    <3>6. ReadTlv(content, at) = {Parsed(d, next)}
      <4>1. at \in 1 .. Len(content) /\ next \in at + 2 .. Len(content) + 1
        BY <3>4 DEF n
      <4>2. IsTlv(SubSeq(content, at, next - 1))
        BY <3>1, <3>5
      <4> HIDE DEF next
      <4>3. ReadTlv(content, at) = {Parsed(SubSeq(content, at, next - 1), next)}
        BY <4>1, <4>2, ReadTlvOf
      <4> QED BY <3>5, <4>3
    <3> HIDE DEF next, others
    <3>7. Found(next, others)
      <4>1. FlattenSeq(others) = SubSeq(content, next, n)
        BY <3>5 DEF c
      <4> QED BY <1>3, <3>1, <3>4, <4>1
    <3>8. PICK rest \in Seq(TlvRecord) : M[next] = {rest} /\ DersOf(rest) = others
      BY <3>7 DEF Found
    <3> DEFINE t == Parsed(d, next)
    <3>9. t \in TlvRecord /\ t.der = d /\ t.next = next
      BY <3>1, <3>4, ParsedIs DEF WasParsed
    <3> HIDE DEF t
    <3>10. Continued(ReadTlv(content, at), M) = {<<t>> \o rest}
      <4>1. ReadTlv(content, at) = {t} /\ M[t.next] = {rest}
        BY <3>6, <3>8, <3>9 DEF t
      <4> DEFINE T == ReadTlv(content, at)
      <4>2. t \in T /\ (\A u \in T : u = t) /\ rest \in M[t.next] /\ \A r \in M[t.next] : r = rest
        BY <4>1
      <4> HIDE DEF T
      <4> DEFINE w == <<t>> \o rest
                 C == Continued(T, M)
      <4>3. w \in C /\ \A s \in C : s = w
        BY <4>2, ContinuedOnce
      <4> HIDE DEF w, C
      <4>4. C = {w}
        BY <4>3
      <4> QED BY <4>4 DEF T, w, C
    <3>11. M[at] = {<<t>> \o rest}
      BY <1>2, <3>4, <3>10
    <3>12. DersOf(<<t>> \o rest) = items
      <4>1. DersOf(<<t>> \o rest) = <<t.der>> \o DersOf(rest)
        BY <3>8, <3>9, DersCons
      <4> QED BY <3>1, <3>8, <3>9, <4>1
    <3>13. <<t>> \o rest \in Seq(TlvRecord)
      BY <3>8, <3>9, ConsElements
    <3> QED BY <3>11, <3>12, <3>13 DEF Found
  <2> QED BY <2>1, <2>2
<1>4. \A k \in Nat : k \in H
  <2> HIDE DEF H
  <2> QED BY <1>3, StrongInduction
<1>5. \A at \in 1 .. n + 1 : n + 1 - at \in Nat
  BY <1>1
<1>6. ASSUME NEW at \in 1 .. n + 1, NEW items, Items(items), FlattenSeq(items) = SubSeq(content, at, n)
      PROVE  Found(at, items)
  BY <1>4, <1>5, <1>6
<1> QED BY <1>6 DEF n, Found

\* What iter_sequence returns: the values that make up the content, if there are.
LEMMA IterSequenceIs ==
  ASSUME NEW content \in Seq(Octet)
  PROVE  /\ \A m \in IterSequence(content) : ListsContent(m, content) /\ IterSequence(content) = {m}
         /\ \A items : Items(items) /\ FlattenSeq(items) = content
              => \E m \in Seq(TlvRecord) : IterSequence(content) = {m} /\ DersOf(m) = items
<1>1. PICK M : IteratesFrom(M, content) /\ IterSequence(content) = M[1]
  BY IterSequenceDef
<1>2. 1 \in 1 .. Len(content) + 1 /\ SubSeq(content, 1, Len(content)) = content
  <2>1. Len(content) \in Nat
    OBVIOUS
  <2> QED BY <2>1, SubSeqFull
<1>3. \A m \in M[1] : ListsContent(m, SubSeq(content, 1, Len(content)))
  BY <1>1, <1>2, IteratedLists
<1>4. \A m \in IterSequence(content) : ListsContent(m, content)
  BY <1>1, <1>2, <1>3
<1>5. \A items : Items(items) /\ FlattenSeq(items) = SubSeq(content, 1, Len(content))
              => \E m \in Seq(TlvRecord) : M[1] = {m} /\ DersOf(m) = items
  BY <1>1, <1>2, ItemsIterated
<1>6. \A items : Items(items) /\ FlattenSeq(items) = content
              => \E m \in Seq(TlvRecord) : IterSequence(content) = {m} /\ DersOf(m) = items
  BY <1>1, <1>2, <1>5
<1>7. ASSUME NEW m \in IterSequence(content) PROVE IterSequence(content) = {m}
  <2>1. ListsContent(m, content)
    BY <1>4
  <2>2. DersOf(m) \in Seq(Seq(Octet)) /\ Len(DersOf(m)) = Len(m) /\ \A k \in 1 .. Len(m) : DersOf(m)[k] = m[k].der
    <3>1. m \in Seq(TlvRecord)
      BY <2>1 DEF ListsContent
    <3> QED BY <3>1, TlvTypes, DersCons, DersType
  <2>3. Items(DersOf(m)) /\ FlattenSeq(DersOf(m)) = content
    BY <2>1, <2>2 DEF Items, ListsContent, WasParsed
  <2>4. \E q \in Seq(TlvRecord) : IterSequence(content) = {q} /\ DersOf(q) = DersOf(m)
    BY <1>6, <2>3
  <2> QED BY <2>4
<1> QED BY <1>4, <1>6, <1>7

-----------------------------------------------------------------------------
(* The strict check *)

\* What _canonical asks of a value, if f tells what it asks of its members.
CanonicalStep(f, d, depth) ==
  /\ depth <= MaxDepth
  /\ \E t \in ReadTlv(d, 1) :
       /\ EncodeTlv(t.tag, t.content) = d
       /\ PrimitiveIsCanonical(t)
       /\ (t.tag \div 32) % 2 = 1 =>
            \E members \in IterSequence(t.content) :
              /\ \A k \in DOMAIN members : f[<<members[k].der, depth + 1>>]
              /\ t.tag = TagSet => IsSorted([k \in DOMAIN members |-> members[k].der], Precedes)

\* Where the strict check may be asked: one nested value too deep is refused.
Nested == Seq(Octet) \X (0 .. MaxDepth + 1)

\* The values and depths that the check is about.
LEMMA NestedIs ==
  /\ \A d \in Seq(Octet) : \A depth \in 0 .. 33 :
       <<d, depth>> \in Nested /\ <<d, depth>>[1] = d /\ <<d, depth>>[2] = depth
  /\ \A p \in Nested : p[1] \in Seq(Octet) /\ p[2] \in 0 .. 33 /\ p = <<p[1], p[2]>>
<1>1. Nested = Seq(Octet) \X (0 .. 33)
  BY DEF Nested, MaxDepth
<1> HIDE DEF Nested
<1> DEFINE A == Seq(Octet)
           B == 0 .. 33
<1>2. Nested = A \X B
  BY <1>1
<1> HIDE DEF A, B
<1>3. \A d \in A : \A depth \in B : <<d, depth>> \in Nested /\ <<d, depth>>[1] = d /\ <<d, depth>>[2] = depth
  BY <1>2
<1>4. \A p \in Nested : p[1] \in A /\ p[2] \in B /\ p = <<p[1], p[2]>>
  BY <1>2
<1> QED BY <1>3, <1>4 DEF A, B

\* A value that is read has octet strings for its parts.
LEMMA ReadTypes ==
  ASSUME NEW d \in Seq(Octet), NEW t \in ReadTlv(d, 1)
  PROVE  t \in TlvRecord /\ WasParsed(t) /\ Len(d) >= 2 /\ 1 \in 1 .. Len(d)
<1>1. Len(d) >= 2
  <2>1. CASE 2 > Len(d)
    <3>1. 1 + 1 > Len(d)
      BY <2>1
    <3> QED BY <3>1 DEF ReadTlv
  <2>2. Len(d) \in Nat
    OBVIOUS
  <2> QED BY <2>1, <2>2
<1>2. 1 \in 1 .. Len(d)
  BY <1>1
<1>3. /\ t.next \in 1 + 2 .. Len(d) + 1
      /\ IsTlv(SubSeq(d, 1, t.next - 1))
      /\ t = Parsed(SubSeq(d, 1, t.next - 1), t.next)
  BY <1>2, ReadTlvIs
<1>4. WasParsed(t)
  <2>1. t.next \in Nat
    BY <1>3
  <2>2. WasParsed(Parsed(SubSeq(d, 1, t.next - 1), t.next))
    BY <1>3, <2>1, ParsedIs
  <2> QED BY <1>3, <2>2
<1> QED BY <1>1, <1>2, <1>4 DEF WasParsed

\* The members of a value that is read.
LEMMA IteratedTypes ==
  ASSUME NEW content \in Seq(Octet), NEW members \in IterSequence(content)
  PROVE  /\ members \in Seq(TlvRecord) /\ DOMAIN members = 1 .. Len(members)
         /\ \A k \in DOMAIN members : members[k] \in TlvRecord /\ WasParsed(members[k]) /\ members[k].der \in Seq(Octet)
<1>1. members \in Seq(TlvRecord) /\ \A k \in 1 .. Len(members) : WasParsed(members[k])
  BY IterSequenceIs DEF ListsContent
<1>2. DOMAIN members = 1 .. Len(members)
  BY <1>1, LenProperties
<1>3. \A k \in 1 .. Len(members) : members[k] \in TlvRecord /\ members[k].der \in Seq(Octet)
  BY <1>1, TlvTypes DEF WasParsed
<1> QED BY <1>1, <1>2, <1>3

\* The check goes no deeper than it asks of the members.
LEMMA CanonicalGoesDown ==
  ASSUME NEW f, NEW g, NEW d \in Seq(Octet), NEW depth \in 0 .. MaxDepth,
         \A e \in Seq(Octet) : f[<<e, depth + 1>>] = g[<<e, depth + 1>>]
  PROVE  CanonicalStep(f, d, depth) = CanonicalStep(g, d, depth)
<1>1. ASSUME NEW t \in ReadTlv(d, 1), NEW members \in IterSequence(t.content), NEW k \in DOMAIN members
      PROVE  f[<<members[k].der, depth + 1>>] = g[<<members[k].der, depth + 1>>]
  <2>1. t.content \in Seq(Octet)
    BY ReadTypes, TlvTypes
  <2>2. members[k].der \in Seq(Octet)
    BY <2>1, IteratedTypes
  <2> QED BY <2>2
<1>2. \A t \in ReadTlv(d, 1) : \A members \in IterSequence(t.content) :
        (\A k \in DOMAIN members : f[<<members[k].der, depth + 1>>])
           <=> (\A k \in DOMAIN members : g[<<members[k].der, depth + 1>>])
  BY <1>1
<1> QED BY <1>2 DEF CanonicalStep

\* The recursion of the strict check has a solution.
LEMMA CanonicalDef ==
  ASSUME NEW d \in Seq(Octet), NEW depth \in 0 .. MaxDepth
  PROVE  CanonicalAt[<<d, depth>>] = CanonicalStep(CanonicalAt, d, depth)
<1> DEFINE V == BOOLEAN
           n == MaxDepth + 1
           G(f, p) == CanonicalStep(f, p[1], p[2])
           B == [q \in [Nested -> V] \X Nested |-> G(q[1], q[2])]
           rank == [p \in Nested |-> n - p[2]]
           Good(f) == f = [p \in Nested |-> G(f, p)]
           c == CHOOSE f : Good(f)
<1>1. n = 33 /\ MaxDepth = 32
  BY DEF MaxDepth
<1>2. \A f, x, y : CanonicalStep(f, x, y) \in V
  BY DEF CanonicalStep
<1>3. \A p \in Nested : p[1] \in Seq(Octet) /\ p[2] \in 0 .. n /\ p = <<p[1], p[2]>>
  BY <1>1, NestedIs
<1>a. \A p \in Nested : p[2] \in 0 .. 33
  BY NestedIs
<1>b. \A k \in 0 .. 33 : n - k \in 0 .. n
  BY <1>1
<1>c. \A k \in 0 .. MaxDepth : k \in 0 .. 33 /\ k + 1 \in 0 .. 33 /\ n - (k + 1) < n - k
  BY <1>1
<1> HIDE DEF n
<1>4. \E f : Solves(f, B, Nested, V)
  <2>1. TRUE \in V /\ rank \in [Nested -> 0 .. n] /\ n \in Nat
    <3>1. \A p \in Nested : n - p[2] \in 0 .. n
      BY <1>a, <1>b
    <3> QED BY <1>1, <3>1
  <2>2. B \in [[Nested -> V] \X Nested -> V]
    BY <1>2
  <2>3. GoesDown(B, Nested, V, rank)
    <3>1. SUFFICES ASSUME NEW f \in [Nested -> V], NEW g \in [Nested -> V], NEW p \in Nested,
                          \A j \in Nested : rank[j] < rank[p] => f[j] = g[j]
                   PROVE  B[<<f, p>>] = B[<<g, p>>]
      BY DEF GoesDown
    <3>2. B[<<f, p>>] = G(f, p) /\ B[<<g, p>>] = G(g, p)
      <4> HIDE DEF G, V
      <4> QED OBVIOUS
    <3>3. CASE p[2] \in 0 .. MaxDepth
      <4>1. ASSUME NEW e \in Seq(Octet) PROVE f[<<e, p[2] + 1>>] = g[<<e, p[2] + 1>>]
        <5> DEFINE j == <<e, p[2] + 1>>
        <5>1. j \in Nested /\ j[2] = p[2] + 1
          <6>1. p[2] + 1 \in 0 .. 33
            BY <1>c, <3>3
          <6> QED BY <6>1, NestedIs
        <5> HIDE DEF j
        <5>2. rank[j] < rank[p]
          <6>1. rank[j] = n - j[2] /\ rank[p] = n - p[2]
            BY <5>1
          <6> HIDE DEF rank
          <6>2. n - (p[2] + 1) < n - p[2]
            BY <1>c, <3>3
          <6> QED BY <5>1, <6>1, <6>2
        <5>3. f[j] = g[j]
          BY <3>1, <5>1, <5>2
        <5> QED BY <5>3 DEF j
      <4>2. CanonicalStep(f, p[1], p[2]) = CanonicalStep(g, p[1], p[2])
        <5> DEFINE x == p[1]
                   y == p[2]
        <5>1. x \in Seq(Octet) /\ y \in 0 .. MaxDepth /\ \A e \in Seq(Octet) : f[<<e, y + 1>>] = g[<<e, y + 1>>]
          BY <1>3, <3>3, <4>1
        <5> HIDE DEF x, y
        <5>2. CanonicalStep(f, x, y) = CanonicalStep(g, x, y)
          BY <5>1, CanonicalGoesDown
        <5> QED BY <5>2 DEF x, y
      <4> HIDE DEF B
      <4> QED BY <3>2, <4>2
    <3>4. CASE p[2] \notin 0 .. MaxDepth
      <4>1. ~(p[2] <= MaxDepth)
        BY <1>1, <1>3, <3>4
      <4>2. CanonicalStep(f, p[1], p[2]) = FALSE /\ CanonicalStep(g, p[1], p[2]) = FALSE
        BY <4>1 DEF CanonicalStep
      <4> HIDE DEF B
      <4> QED BY <3>2, <4>2
    <3> QED BY <3>3, <3>4
  <2> HIDE DEF B, V, rank
  <2> QED BY <2>1, <2>2, <2>3, RecursionExists
<1>5. \E f : Good(f)
  <2>1. PICK f : Solves(f, B, Nested, V)
    BY <1>4
  <2>2. f \in [Nested -> V] /\ \A p \in Nested : f[p] = B[<<f, p>>]
    BY <2>1 DEF Solves
  <2>3. \A p \in Nested : f[p] = G(f, p)
    <3> HIDE DEF G, V
    <3> QED BY <2>2
  <2> HIDE DEF G, B, V
  <2> QED BY <2>2, <2>3
<1>6. Good(c)
  <2> HIDE DEF Good
  <2> QED BY <1>5
<1>7. CanonicalAt = c
  BY DEF CanonicalAt, CanonicalStep, Nested
<1> HIDE DEF c
<1>8. <<d, depth>> \in Nested /\ <<d, depth>>[1] = d /\ <<d, depth>>[2] = depth
  <2>1. depth \in 0 .. 33
    BY <1>1
  <2> QED BY <2>1, NestedIs
<1>9. \A p \in Nested : c[p] = G(c, p)
  <2> HIDE DEF G
  <2> QED BY <1>6
<1> DEFINE p == <<d, depth>>
<1>10. c[p] = CanonicalStep(c, p[1], p[2])
  <2> HIDE DEF p, Good
  <2> QED BY <1>8, <1>9 DEF p
<1> HIDE DEF Good
<1> QED BY <1>7, <1>8, <1>10

\* The strict check of the members of a constructed value.
MembersAreCanonical(t, depth) ==
  (t.tag \div 32) % 2 = 1 =>
    \E members \in IterSequence(t.content) :
      /\ \A k \in DOMAIN members : CanonicalAt[<<members[k].der, depth + 1>>]
      /\ t.tag = TagSet => IsSorted([k \in DOMAIN members |-> members[k].der], Precedes)

\* The strict check of one value that was read.
CanonicalAs(d, depth, t) ==
  /\ EncodeTlv(t.tag, t.content) = d
  /\ PrimitiveIsCanonical(t)
  /\ MembersAreCanonical(t, depth)

\* A value states its length in at most four octets.
LEMMA ContentIs ==
  ASSUME NEW d, IsTlv(d)
  PROVE  /\ SubSeq(d, ContentAt(d), Len(d)) \in Seq(Octet)
         /\ Len(SubSeq(d, ContentAt(d), Len(d))) < Pow2[32]
         /\ Len(SubSeq(d, ContentAt(d), Len(d))) <= Len(d)
         /\ d[1] \in Octet /\ d[1] % 32 # 31
<1>1. /\ d \in Seq(Octet) /\ Len(d) >= 2 /\ Len(d) \in Nat /\ d[1] % 32 # 31
      /\ d[2] < 128 \/ d[2] - 128 \in 1 .. 4
      /\ ContentAt(d) - 1 + StatedLength(d) = Len(d)
      /\ ContentAt(d) - 1 <= Len(d)
  BY LenProperties DEF IsTlv
<1>2. d[1] \in Octet /\ d[2] \in Nat
  BY <1>1, OctetIs
<1>3. Pow2[8 * 1] <= Pow2[32] /\ Pow2[8 * 2] <= Pow2[32] /\ Pow2[8 * 3] <= Pow2[32] /\ Pow2[8 * 4] = Pow2[32]
      /\ Pow2[8 * 1] = 256 /\ Pow2[8 * 2] \in Nat /\ Pow2[8 * 3] \in Nat /\ Pow2[8 * 4] \in Nat
  <2>1. /\ Pow2[8 * 0] = 1 /\ Pow2[8 * (0 + 1)] = 256 * Pow2[8 * 0]
        /\ Pow2[8 * (1 + 1)] = 256 * Pow2[8 * 1]
        /\ Pow2[8 * (2 + 1)] = 256 * Pow2[8 * 2]
        /\ Pow2[8 * (3 + 1)] = 256 * Pow2[8 * 3]
    <3>1. 0 \in Nat /\ 1 \in Nat /\ 2 \in Nat /\ 3 \in Nat
      OBVIOUS
    <3> QED BY <3>1, Pow2Octet
  <2> QED BY <2>1
<1>4. StatedLength(d) \in Nat /\ StatedLength(d) < Pow2[32] /\ ContentAt(d) \in 3 .. Len(d) + 1
  <2>1. CASE d[2] < 128
    <3>1. StatedLength(d) = d[2] /\ ContentAt(d) = 3
      BY <2>1 DEF StatedLength, ContentAt
    <3> QED BY <1>1, <1>2, <1>3, <2>1, <3>1
  <2>2. CASE ~(d[2] < 128)
    <3> DEFINE s == SubSeq(d, 3, d[2] - 126)
               k == d[2] - 128
    <3>1. StatedLength(d) = ValueOf(s) /\ ContentAt(d) = k + 3 /\ k \in 1 .. 4
      BY <1>1, <1>2, <2>2 DEF StatedLength, ContentAt
    <3>2. 3 \in 1 .. Len(d) + 1 /\ d[2] - 126 \in 3 - 1 .. Len(d) /\ (d[2] - 126) - 3 + 1 = k
      BY <1>1, <1>2, <3>1
    <3>3. s \in Seq(Octet) /\ Len(s) = k
      BY <1>1, <3>2, PartIs
    <3>4. ValueOf(s) \in Nat /\ ValueOf(s) < Pow2[8 * k]
      BY <3>3, ValueOfBounds
    <3>5. ValueOf(s) < Pow2[32]
      <4> HIDE DEF s, k
      <4>1. k = 1 \/ k = 2 \/ k = 3 \/ k = 4
        BY <3>1
      <4>2. Pow2[32] \in Nat
        BY <1>3
      <4> QED BY <1>3, <3>4, <4>1, <4>2
    <3> HIDE DEF s, k
    <3> QED BY <1>1, <3>1, <3>4, <3>5
  <2> QED BY <2>1, <2>2
<1>5. ContentAt(d) \in 1 .. Len(d) + 1 /\ Len(d) \in ContentAt(d) - 1 .. Len(d)
      /\ Len(d) - ContentAt(d) + 1 = StatedLength(d)
  BY <1>1, <1>4
<1>6. SubSeq(d, ContentAt(d), Len(d)) \in Seq(Octet) /\ Len(SubSeq(d, ContentAt(d), Len(d))) = Len(d) - ContentAt(d) + 1
  BY <1>1, <1>5, PartIs
<1> QED BY <1>1, <1>2, <1>4, <1>5, <1>6

\* Octets that are one value read as that value.
LEMMA WholeRead ==
  ASSUME NEW d, IsTlv(d)
  PROVE  ReadTlv(d, 1) = {Parsed(d, Len(d) + 1)} /\ SubSeq(d, 1, Len(d)) = d
<1>1. d \in Seq(Octet) /\ Len(d) \in Nat /\ Len(d) >= 2
  BY LenProperties DEF IsTlv
<1>2. SubSeq(d, 1, Len(d)) = d
  BY <1>1
<1> DEFINE next == Len(d) + 1
<1>3. 1 \in 1 .. Len(d) /\ next \in 1 + 2 .. Len(d) + 1 /\ next - 1 = Len(d)
  BY <1>1
<1> HIDE DEF next
<1>4. IsTlv(SubSeq(d, 1, next - 1))
  BY <1>2, <1>3
<1>5. ReadTlv(d, 1) = {Parsed(SubSeq(d, 1, next - 1), next)}
  BY <1>1, <1>3, <1>4, ReadTlvOf
<1> QED BY <1>2, <1>3, <1>5 DEF next

\* The strict check asks for exactly one value, encoded as DER encodes it, down
\* to its members.
LEMMA CanonicalIs ==
  ASSUME NEW d \in Seq(Octet), NEW depth \in 0 .. MaxDepth
  PROVE  CanonicalAt[<<d, depth>>] <=> IsTlv(d) /\ CanonicalAs(d, depth, Parsed(d, Len(d) + 1))
<1>1. CanonicalAt[<<d, depth>>]
        <=> \E t \in ReadTlv(d, 1) : CanonicalAs(d, depth, t)
  <2>1. depth <= MaxDepth
    BY DEF MaxDepth
  <2>2. CanonicalStep(CanonicalAt, d, depth) <=> \E t \in ReadTlv(d, 1) : CanonicalAs(d, depth, t)
    BY <2>1, Zenon DEF CanonicalStep, CanonicalAs, MembersAreCanonical
  <2>3. CanonicalAt[<<d, depth>>] = CanonicalStep(CanonicalAt, d, depth)
    BY CanonicalDef
  <2> QED BY <2>2, <2>3
<1>2. IsTlv(d) => ReadTlv(d, 1) = {Parsed(d, Len(d) + 1)}
  BY WholeRead
<1>3. ASSUME NEW t \in ReadTlv(d, 1), CanonicalAs(d, depth, t)
      PROVE  IsTlv(d)
  <2>1. t \in TlvRecord /\ WasParsed(t)
    BY ReadTypes
  <2>2. IsTlv(t.der) /\ t = Parsed(t.der, t.next)
    BY <2>1 DEF WasParsed
  <2>3. t.tag = t.der[1] /\ t.content = SubSeq(t.der, ContentAt(t.der), Len(t.der))
    <3> DEFINE e == t.der
               n == t.next
    <3>1. t = Parsed(e, n)
      BY <2>2
    <3> HIDE DEF e, n
    <3>2. t.tag = e[1] /\ t.content = SubSeq(e, ContentAt(e), Len(e))
      BY <3>1 DEF Parsed
    <3> QED BY <3>2 DEF e
  <2>4. t.tag \in Octet /\ t.tag % 32 # 31 /\ t.content \in Seq(Octet) /\ Len(t.content) < Pow2[32]
    BY <2>2, <2>3, ContentIs
  <2>5. IsTlv(EncodeTlv(t.tag, t.content))
    BY <2>4, EncodedIs
  <2> QED BY <1>3, <2>5 DEF CanonicalAs
<1> QED BY <1>1, <1>2, <1>3

\* The tags that the strict check looks into.
LEMMA TagsDiffer ==
  /\ TagSequence = 48 /\ TagSequence \in Octet /\ TagSequence % 32 # 31 /\ (TagSequence \div 32) % 2 = 1
  /\ TagSequence # TagSet /\ TagSequence \notin {TagInteger, TagBoolean, TagNull, TagOid, TagBitString}
BY DEF TagSequence, TagSet, TagInteger, TagBoolean, TagNull, TagOid, TagBitString, Octet

\* Values that a SEQUENCE may hold.
CanonicalItems(items) ==
  /\ Items(items)
  /\ \A k \in 1 .. Len(items) : CanonicalAt[<<items[k], 1>>]
  /\ Len(FlattenSeq(items)) < Pow2[32]

\* The members that _fields returns.
AreFields(f, data) ==
  /\ f \in Seq(TlvRecord)
  /\ \A k \in 1 .. Len(f) : WasParsed(f[k])
  /\ CanonicalItems(DersOf(f))
  /\ data = EncodeSequence(DersOf(f))
  /\ Fields(data) = {f}

\* A canonical SEQUENCE is the encoding of its members.
LEMMA FieldsAre ==
  ASSUME NEW data \in Seq(Octet), NEW f \in Fields(data)
  PROVE  AreFields(f, data)
<1> DEFINE t == Parsed(data, Len(data) + 1)
<1>0. 0 \in 0 .. MaxDepth /\ 0 + 1 = 1
  BY DEF MaxDepth
<1>1. /\ CanonicalAt[<<data, 0>>]
      /\ Fields(data) = UNION {IterSequence(u.content) : u \in WholeTlv(data, TagSequence)}
  BY DEF Fields
<1>2. IsTlv(data) /\ CanonicalAs(data, 0, t)
  BY <1>0, <1>1, CanonicalIs
<1>3. ReadTlv(data, 1) = {t}
  BY <1>2, WholeRead
<1>4. Len(data) \in Nat /\ WasParsed(t) /\ t.tag = data[1] /\ t.next = Len(data) + 1
  <2>1. Len(data) \in Nat /\ Len(data) + 1 \in Nat
    BY <1>2, LenProperties
  <2> QED BY <1>2, <2>1, ParsedIs
<1>5. t.content = SubSeq(data, ContentAt(data), Len(data))
  BY DEF Parsed
<1> HIDE DEF t
<1>6. \A u \in WholeTlv(data, TagSequence) : u = t /\ t.tag = TagSequence
  BY <1>3 DEF WholeTlv
<1>7. f \in IterSequence(t.content) /\ t.tag = TagSequence
  BY <1>1, <1>6
<1>8. t \in WholeTlv(data, TagSequence)
  BY <1>3, <1>4, <1>7 DEF WholeTlv
<1>9. t.content \in Seq(Octet) /\ Len(t.content) < Pow2[32]
  BY <1>2, <1>5, ContentIs
<1>10. ListsContent(f, t.content) /\ IterSequence(t.content) = {f}
  BY <1>7, <1>9, IterSequenceIs
<1>11. Fields(data) = {f}
  <2>1. \A x : x \in Fields(data) <=> x \in IterSequence(t.content)
    BY <1>1, <1>6, <1>8
  <2> QED BY <1>10, <2>1
<1>12. f \in Seq(TlvRecord) /\ (\A k \in 1 .. Len(f) : WasParsed(f[k])) /\ FlattenSeq(DersOf(f)) = t.content
  BY <1>10 DEF ListsContent
<1>13. /\ DersOf(f) \in Seq(Seq(Octet)) /\ Len(DersOf(f)) = Len(f)
       /\ \A k \in 1 .. Len(f) : DersOf(f)[k] = f[k].der
  BY <1>12, DersType
<1>14. data = EncodeSequence(DersOf(f))
  <2>1. EncodeTlv(t.tag, t.content) = data
    BY <1>2 DEF CanonicalAs
  <2> QED BY <1>7, <1>12, <2>1 DEF EncodeSequence
<1>15. \A k \in 1 .. Len(f) : CanonicalAt[<<f[k].der, 1>>]
  <2>1. (t.tag \div 32) % 2 = 1
    BY <1>7, TagsDiffer
  <2>2. \E members \in IterSequence(t.content) : \A k \in DOMAIN members : CanonicalAt[<<members[k].der, 0 + 1>>]
    BY <1>2, <2>1 DEF CanonicalAs, MembersAreCanonical
  <2>3. \A k \in DOMAIN f : CanonicalAt[<<f[k].der, 1>>]
    BY <1>0, <1>10, <2>2
  <2>4. DOMAIN f = 1 .. Len(f)
    BY <1>12, LenProperties
  <2> QED BY <2>3, <2>4
<1>16. CanonicalItems(DersOf(f))
  <2>1. \A k \in 1 .. Len(f) : IsTlv(f[k].der)
    BY <1>12 DEF WasParsed
  <2>2. Items(DersOf(f))
    BY <1>13, <2>1 DEF Items
  <2>3. \A k \in 1 .. Len(DersOf(f)) : CanonicalAt[<<DersOf(f)[k], 1>>]
    BY <1>13, <1>15
  <2>4. Len(FlattenSeq(DersOf(f))) < Pow2[32]
    BY <1>9, <1>12
  <2> QED BY <2>2, <2>3, <2>4 DEF CanonicalItems
<1> QED BY <1>11, <1>12, <1>14, <1>16 DEF AreFields

\* The SEQUENCE of canonical values is canonical and has them as its members.
LEMMA FieldsOf ==
  ASSUME NEW items, CanonicalItems(items)
  PROVE  /\ EncodeSequence(items) \in Seq(Octet)
         /\ IsTlv(EncodeSequence(items))
         /\ \E f : AreFields(f, EncodeSequence(items)) /\ DersOf(f) = items
         /\ CanonicalAt[<<EncodeSequence(items), 0>>]
<1> DEFINE content == FlattenSeq(items)
           data == EncodeSequence(items)
           next == Len(data) + 1
           t == Parsed(data, next)
<1>0. 0 \in 0 .. MaxDepth /\ 0 + 1 = 1
  BY DEF MaxDepth
<1>1. items \in Seq(Seq(Octet)) /\ Items(items) /\ Len(content) < Pow2[32]
  BY DEF CanonicalItems, Items
<1>2. content \in Seq(Octet)
  BY <1>1, FlattenType
<1>3. data = EncodeTlv(TagSequence, content)
  BY DEF EncodeSequence
<1> HIDE DEF content, data
<1>4. /\ IsTlv(EncodeTlv(TagSequence, content))
      /\ Parsed(EncodeTlv(TagSequence, content), next)
           = [tag |-> TagSequence, content |-> content, der |-> EncodeTlv(TagSequence, content), next |-> next]
  <2> HIDE DEF next
  <2> QED BY <1>1, <1>2, TagsDiffer, EncodedIs
<1>5. IsTlv(data) /\ t = [tag |-> TagSequence, content |-> content, der |-> data, next |-> next]
  BY <1>3, <1>4
<1> HIDE DEF t, next
<1>6. t.tag = TagSequence /\ t.content = content /\ t.next = next /\ t.der = data
  BY <1>5
<1>7. data \in Seq(Octet)
  BY <1>5 DEF IsTlv
<1>8. PICK m \in Seq(TlvRecord) : IterSequence(content) = {m} /\ DersOf(m) = items
  BY <1>1, <1>2, IterSequenceIs DEF content
<1>9. \A k \in DOMAIN m : CanonicalAt[<<m[k].der, 0 + 1>>]
  <2>1. DOMAIN m = 1 .. Len(m)
    BY <1>8, LenProperties
  <2>2. Len(DersOf(m)) = Len(m) /\ \A k \in 1 .. Len(m) : DersOf(m)[k] = m[k].der
    BY <1>8, DersType
  <2>3. \A k \in 1 .. Len(items) : CanonicalAt[<<items[k], 1>>]
    BY DEF CanonicalItems
  <2> QED BY <1>0, <1>8, <2>1, <2>2, <2>3
<1>10. CanonicalAs(data, 0, t)
  <2>1. EncodeTlv(t.tag, t.content) = data
    BY <1>3, <1>6
  <2>2. PrimitiveIsCanonical(t)
    BY <1>6, TagsDiffer DEF PrimitiveIsCanonical
  <2>3. MembersAreCanonical(t, 0)
    <3>1. m \in IterSequence(t.content) /\ t.tag # TagSet
      BY <1>6, <1>8, TagsDiffer
    <3> QED BY <1>9, <3>1 DEF MembersAreCanonical
  <2> QED BY <2>1, <2>2, <2>3 DEF CanonicalAs
<1>11. CanonicalAt[<<data, 0>>]
  BY <1>0, <1>5, <1>7, <1>10, CanonicalIs DEF t, next
<1>12. ReadTlv(data, 1) = {t}
  BY <1>5, WholeRead DEF t, next
<1>13. m \in Fields(data)
  <2>1. t \in WholeTlv(data, TagSequence)
    BY <1>6, <1>12 DEF WholeTlv, next
  <2>2. m \in IterSequence(t.content)
    BY <1>6, <1>8
  <2> QED BY <1>11, <2>1, <2>2 DEF Fields
<1>14. AreFields(m, data)
  BY <1>7, <1>13, FieldsAre
<1> QED BY <1>5, <1>7, <1>8, <1>11, <1>14 DEF data

-----------------------------------------------------------------------------
(* Proofs *)

\* What a reader returns, and where it stands afterwards.
LEMMA ReadIs ==
  ASSUME NEW data \in Seq(Octet), NEW at \in 1 .. Len(data) + 1, NEW count \in Nat, NEW r \in Read(data, at, count)
  PROVE  /\ r.value = SubSeq(data, at, at + count - 1)
         /\ r.next = at + count
         /\ r.next \in at .. Len(data) + 1
         /\ r.value \in Seq(Octet) /\ Len(r.value) = count
<1>1. Len(data) \in Nat /\ ~(at + count - 1 > Len(data))
  BY DEF Read
<1>2. r = [value |-> SubSeq(data, at, at + count - 1), next |-> at + count]
  BY <1>1 DEF Read
<1> DEFINE j == at + count - 1
<1>3. j \in at - 1 .. Len(data) /\ j - at + 1 = count /\ at + count \in at .. Len(data) + 1
  BY <1>1
<1> HIDE DEF j
<1>4. SubSeq(data, at, j) \in Seq(Octet) /\ Len(SubSeq(data, at, j)) = count
  BY <1>3, PartIs
<1> QED BY <1>2, <1>3, <1>4 DEF j

\* A vector that is read is the vector of its value.
LEMMA ReadVectorIs ==
  ASSUME NEW data \in Seq(Octet), NEW at \in 1 .. Len(data) + 1, NEW octets \in Nat, NEW v \in ReadVector(data, at, octets)
  PROVE  /\ v.value \in Seq(Octet)
         /\ v.next \in at + octets .. Len(data) + 1
         /\ v.next \in Nat
         /\ Vector(v.value, octets) = SubSeq(data, at, v.next - 1)
         /\ Vector(v.value, octets) \in Seq(Octet)
<1>1. PICK length \in Read(data, at, octets) : v \in Read(data, length.next, ValueOf(length.value))
  BY DEF ReadVector
<1> DEFINE s == length.value
           n == length.next
           count == ValueOf(s)
<1>2. s = SubSeq(data, at, at + octets - 1) /\ n = at + octets /\ n \in at .. Len(data) + 1 /\ s \in Seq(Octet) /\ Len(s) = octets
  BY ReadIs
<1>3. v \in Read(data, n, count)
  BY <1>1
<1> HIDE DEF s, n, count
<1>4. count \in Nat /\ Uint(count, Len(s)) = s
  BY <1>2, ValueOfBounds, UintOfValue DEF count
<1>5. n \in 1 .. Len(data) + 1
  BY <1>2
<1>6. /\ v.value = SubSeq(data, n, n + count - 1) /\ v.next = n + count /\ v.next \in n .. Len(data) + 1
      /\ v.value \in Seq(Octet) /\ Len(v.value) = count
  BY <1>3, <1>4, <1>5, ReadIs
<1> DEFINE k == at + octets - 1
           j == v.next - 1
<1>7. k \in at - 1 .. Len(data) /\ j \in k .. Len(data) /\ k + 1 = n /\ j = n + count - 1
  BY <1>2, <1>4, <1>5, <1>6
<1> HIDE DEF k, j
<1>8. SubSeq(data, at, j) = SubSeq(data, at, k) \o SubSeq(data, k + 1, j)
  BY <1>7, PartCut
<1>9. SubSeq(data, at, k) = s /\ SubSeq(data, k + 1, j) = v.value
  BY <1>2, <1>6, <1>7 DEF k
<1>10. Vector(v.value, octets) = s \o v.value
  BY <1>2, <1>4, <1>6 DEF Vector
<1>11. s \o v.value \in Seq(Octet)
  BY <1>2, <1>6, ConcatParts
<1>12. v.next \in at + octets .. Len(data) + 1 /\ v.next \in Nat
  BY <1>2, <1>6
<1>13. Vector(v.value, octets) = SubSeq(data, at, j)
  BY <1>8, <1>9, <1>10
<1> QED BY <1>6, <1>10, <1>11, <1>12, <1>13 DEF j

\* A signature with the position after it.
SignatureRead == [id : Seq(Octet), value : Seq(Octet), next : Nat]

\* The octets of signatures.
SignatureOctets(signatures) == [k \in DOMAIN signatures |-> SignatureToTls(signatures[k])]

\* A signature that is read is encoded by the octets it was read from.
LEMMA SignatureAtIs ==
  ASSUME NEW data \in Seq(Octet), NEW at \in 1 .. Len(data), NEW t \in SignatureAt(data, at)
  PROVE  /\ t \in SignatureRead
         /\ t.next \in at + 1 .. Len(data) + 1
         /\ SignatureToTls(t) = SubSeq(data, at, t.next - 1)
         /\ SignatureToTls(t) \in Seq(Octet)
<1>1. PICK id \in ReadVector(data, at, 1) :
        t \in {[id |-> id.value, value |-> value.value, next |-> value.next] : value \in ReadVector(data, id.next, 2)}
  BY DEF SignatureAt
<1>2. PICK value \in ReadVector(data, id.next, 2) : t = [id |-> id.value, value |-> value.value, next |-> value.next]
  BY <1>1
<1> DEFINE a == id.value
           n == id.next
           b == value.value
           m == value.next
<1>3. at \in 1 .. Len(data) + 1 /\ 1 \in Nat /\ 2 \in Nat /\ Len(data) \in Nat
  OBVIOUS
<1>4. a \in Seq(Octet) /\ n \in at + 1 .. Len(data) + 1 /\ n \in Nat /\ Vector(a, 1) = SubSeq(data, at, n - 1)
  BY <1>3, ReadVectorIs
<1>5. value \in ReadVector(data, n, 2) /\ t = [id |-> a, value |-> b, next |-> m]
  BY <1>2
<1> HIDE DEF a, n, b, m
<1>6. n \in 1 .. Len(data) + 1
  BY <1>3, <1>4
<1>7. b \in Seq(Octet) /\ m \in n + 2 .. Len(data) + 1 /\ m \in Nat /\ Vector(b, 2) = SubSeq(data, n, m - 1)
  BY <1>3, <1>5, <1>6, ReadVectorIs DEF b, m
<1>8. t \in SignatureRead /\ t.id = a /\ t.value = b /\ t.next = m
  BY <1>4, <1>5, <1>7 DEF SignatureRead
<1>9. SignatureToTls(t) = SubSeq(data, at, n - 1) \o SubSeq(data, n, m - 1)
  BY <1>4, <1>7, <1>8 DEF SignatureToTls
<1> DEFINE k == n - 1
           j == m - 1
<1>10. k \in at - 1 .. Len(data) /\ j \in k .. Len(data) /\ k + 1 = n
  BY <1>3, <1>4, <1>7
<1> HIDE DEF k, j
<1>11. SubSeq(data, at, j) = SubSeq(data, at, k) \o SubSeq(data, k + 1, j)
  BY <1>3, <1>10, PartCut
<1>12. j \in at - 1 .. Len(data)
  BY <1>3, <1>10
<1>13. SubSeq(data, at, j) \in Seq(Octet)
  BY <1>3, <1>12, PartIs
<1>14. SignatureToTls(t) = SubSeq(data, at, j)
  BY <1>9, <1>10, <1>11 DEF k, j
<1>15. t.next \in at + 1 .. Len(data) + 1
  BY <1>3, <1>4, <1>7, <1>8
<1> QED BY <1>8, <1>13, <1>14, <1>15 DEF j

\* The octets of one signature before others.
LEMMA SignaturesCons ==
  ASSUME NEW m \in Seq(SignatureRead), NEW t \in SignatureRead,
         \A k \in 1 .. Len(m) : SignatureToTls(m[k]) \in Seq(Octet), SignatureToTls(t) \in Seq(Octet)
  PROVE  /\ SignatureOctets(m) \in Seq(Seq(Octet))
         /\ SignatureOctets(<<t>> \o m) = <<SignatureToTls(t)>> \o SignatureOctets(m)
         /\ \A k \in 1 .. Len(<<t>> \o m) : SignatureToTls((<<t>> \o m)[k]) \in Seq(Octet)
<1>1. ASSUME NEW q \in Seq(SignatureRead), \A k \in 1 .. Len(q) : SignatureToTls(q[k]) \in Seq(Octet)
      PROVE  /\ SignatureOctets(q) \in Seq(Seq(Octet)) /\ Len(SignatureOctets(q)) = Len(q)
             /\ \A k \in 1 .. Len(q) : SignatureOctets(q)[k] = SignatureToTls(q[k])
  <2>1. DOMAIN q = 1 .. Len(q)
    OBVIOUS
  <2> QED BY <1>1, <2>1 DEF SignatureOctets
<1> DEFINE w == <<t>> \o m
           d == SignatureToTls(t)
           v == <<d>> \o SignatureOctets(m)
<1>2. /\ w \in Seq(SignatureRead) /\ Len(w) = 1 + Len(m) /\ w[1] = t
      /\ \A j \in 1 .. Len(m) : w[1 + j] = m[j]
  BY ConsElements
<1>3. d \in Seq(Octet) /\ SignatureOctets(m) \in Seq(Seq(Octet)) /\ Len(SignatureOctets(m)) = Len(m)
      /\ \A k \in 1 .. Len(m) : SignatureOctets(m)[k] = SignatureToTls(m[k])
  BY <1>1
<1>4. /\ v \in Seq(Seq(Octet)) /\ Len(v) = 1 + Len(SignatureOctets(m)) /\ v[1] = d
      /\ \A j \in 1 .. Len(SignatureOctets(m)) : v[1 + j] = SignatureOctets(m)[j]
  <2> HIDE DEF d
  <2> QED BY <1>3, ConsElements
<1> HIDE DEF w, v
<1>5. ASSUME NEW k \in 1 .. Len(w) PROVE SignatureToTls(w[k]) \in Seq(Octet) /\ SignatureToTls(w[k]) = v[k]
  <2>1. CASE k = 1
    BY <1>2, <1>4, <2>1
  <2>2. CASE k # 1
    <3> DEFINE j == k - 1
    <3>1. j \in 1 .. Len(m) /\ k = 1 + j
      <4>1. Len(m) \in Nat
        OBVIOUS
      <4> QED BY <1>2, <2>2, <4>1
    <3> HIDE DEF j
    <3>2. w[k] = m[j] /\ v[k] = SignatureOctets(m)[j]
      BY <1>2, <1>3, <1>4, <3>1
    <3> QED BY <1>3, <3>1, <3>2
  <2> QED BY <2>1, <2>2
<1>6. SignatureOctets(w) \in Seq(Seq(Octet)) /\ Len(SignatureOctets(w)) = Len(w)
      /\ \A k \in 1 .. Len(w) : SignatureOctets(w)[k] = SignatureToTls(w[k])
  BY <1>1, <1>2, <1>5
<1>7. SignatureOctets(w) = v
  <2>1. Len(SignatureOctets(w)) = Len(v) /\ \A k \in 1 .. Len(SignatureOctets(w)) : SignatureOctets(w)[k] = v[k]
    BY <1>2, <1>3, <1>4, <1>5, <1>6
  <2> QED BY <1>4, <1>6, <2>1, SeqEqual
<1> QED BY <1>3, <1>5, <1>7 DEF w, v

\* Signatures that are read one after the other are encoded by what they were
\* read from.
LEMMA SignaturesRead ==
  ASSUME NEW data \in Seq(Octet), NEW n, n = Len(data), NEW read, NEW M, Iterates(M, read, n, SignatureRead),
         \A at \in 1 .. n : read[at] = SignatureAt(data, at)
  PROVE  \A at \in 1 .. n + 1 : \A m \in M[at] :
           /\ m \in Seq(SignatureRead)
           /\ \A k \in 1 .. Len(m) : SignatureToTls(m[k]) \in Seq(Octet)
           /\ FlattenSeq(SignatureOctets(m)) = SubSeq(data, at, n)
<1> DEFINE Encoded(m, c) ==
             /\ m \in Seq(SignatureRead)
             /\ \A k \in 1 .. Len(m) : SignatureToTls(m[k]) \in Seq(Octet)
             /\ FlattenSeq(SignatureOctets(m)) = c
           H == { k \in Nat : \A at \in 1 .. n + 1 : n + 1 - at = k =>
                    \A m \in M[at] : Encoded(m, SubSeq(data, at, n)) }
<1>1. n \in Nat
  OBVIOUS
<1>2. /\ M[n + 1] = {<<>>}
      /\ \A at \in 1 .. n : M[at] = Continued(SignatureAt(data, at), M)
  BY DEF Iterates
<1>3. Encoded(<<>>, <<>>)
  <2>1. <<>> \in Seq(SignatureRead) /\ Len(<<>>) = 0 /\ SignatureOctets(<<>>) = <<>>
    BY EmptySeq DEF SignatureOctets
  <2>2. FlattenSeq(<<>>) = <<>>
    <3>1. <<>> \in Seq(Seq(Octet)) /\ <<>> \in Seq(Octet)
      BY EmptySeq
    <3> QED BY <3>1, FlattenAppend
  <2> QED BY <2>1, <2>2
<1>4. ASSUME NEW k \in Nat, \A j \in 0 .. k - 1 : j \in H PROVE k \in H
  <2>h. SUFFICES ASSUME NEW at \in 1 .. n + 1, n + 1 - at = k, NEW m \in M[at]
               PROVE  Encoded(m, SubSeq(data, at, n))
    OBVIOUS
  <2>1. CASE at = n + 1
    <3>1. m = <<>>
      BY <1>2, <2>1
    <3>2. SubSeq(data, at, n) = <<>>
      BY <1>1, <2>1, SubSeqEmpty
    <3> HIDE DEF Encoded
    <3> QED BY <1>3, <3>1, <3>2
  <2>2. CASE at # n + 1
    <3>1. at \in 1 .. n
      BY <1>1, <2>2
    <3>2. m \in Continued(SignatureAt(data, at), M)
      BY <1>2, <3>1
    <3>3. PICK t \in SignatureAt(data, at) : m \in {<<t>> \o rest : rest \in M[t.next]}
      BY <3>2 DEF Continued
    <3>4. PICK rest \in M[t.next] : m = <<t>> \o rest
      BY <3>3
    <3> DEFINE next == t.next
               d == SubSeq(data, at, next - 1)
               c == SubSeq(data, next, n)
    <3>5. t \in SignatureRead /\ next \in at + 1 .. n + 1 /\ SignatureToTls(t) = d /\ d \in Seq(Octet)
      <4>1. at \in 1 .. Len(data)
        BY <3>1
      <4> QED BY <4>1, SignatureAtIs
    <3>6. next \in 1 .. n + 1 /\ n + 1 - next \in 0 .. k - 1 /\ next \in Nat
      BY <1>1, <2>h, <3>1, <3>5
    <3>7. Encoded(rest, c)
      <4> HIDE DEF Encoded
      <4> QED BY <1>4, <3>6
    <3>8. SignatureOctets(<<t>> \o rest) = <<SignatureToTls(t)>> \o SignatureOctets(rest)
          /\ SignatureOctets(rest) \in Seq(Seq(Octet))
          /\ \A j \in 1 .. Len(<<t>> \o rest) : SignatureToTls((<<t>> \o rest)[j]) \in Seq(Octet)
      BY <3>5, <3>7, SignaturesCons
    <3>9. FlattenSeq(<<SignatureToTls(t)>> \o SignatureOctets(rest)) = SignatureToTls(t) \o FlattenSeq(SignatureOctets(rest))
      <4> DEFINE e == SignatureToTls(t)
      <4>1. e \in Seq(Octet)
        BY <3>5
      <4> HIDE DEF e
      <4>2. FlattenSeq(<<e>> \o SignatureOctets(rest)) = e \o FlattenSeq(SignatureOctets(rest))
        BY <3>8, <4>1, FlattenCons
      <4> QED BY <4>2 DEF e
    <3>10. SubSeq(data, at, n) = d \o c
      <4>1. at \in 1 .. Len(data) + 1 /\ next - 1 \in at - 1 .. Len(data) /\ n \in next - 1 .. Len(data)
            /\ (next - 1) + 1 = next
        BY <1>1, <3>1, <3>5
      <4> HIDE DEF next
      <4>2. SubSeq(data, at, n) = SubSeq(data, at, next - 1) \o SubSeq(data, (next - 1) + 1, n)
        BY <4>1, PartCut
      <4> QED BY <4>1, <4>2
    <3>11. <<t>> \o rest \in Seq(SignatureRead)
      BY <3>5, <3>7, ConsElements
    <3> HIDE DEF d, c, next
    <3>12. FlattenSeq(SignatureOctets(<<t>> \o rest)) = SubSeq(data, at, n)
      BY <3>5, <3>7, <3>8, <3>9, <3>10
    <3>13. Encoded(<<t>> \o rest, SubSeq(data, at, n))
      BY <3>8, <3>11, <3>12
    <3> HIDE DEF Encoded
    <3> QED BY <3>4, <3>13
  <2> QED BY <2>1, <2>2
<1>5. \A k \in Nat : k \in H
  <2> HIDE DEF H
  <2> QED BY <1>4, StrongInduction
<1>6. \A at \in 1 .. n + 1 : n + 1 - at \in Nat
  BY <1>1
<1> QED BY <1>5, <1>6

\* The signatures of a vector are encoded by the vector.
LEMMA SignaturesInAre ==
  ASSUME NEW data \in Seq(Octet), NEW signatures \in SignaturesIn(data)
  PROVE  FlattenSeq(SignatureOctets(signatures)) = data
<1> DEFINE n == Len(data)
           read == [at \in 1 .. n |-> SignatureAt(data, at)]
<1>1. n \in Nat
  OBVIOUS
<1>2. \A at \in 1 .. n : read[at] = SignatureAt(data, at)
  OBVIOUS
<1>3. PICK m \in Iterated(read, n) : signatures = [k \in DOMAIN m |-> [id |-> m[k].id, value |-> m[k].value]]
  BY DEF SignaturesIn
<1>n. n = Len(data)
  OBVIOUS
<1> HIDE DEF n, read
<1>4. ReadsOn(read, n, SignatureRead)
  <2> SUFFICES ASSUME NEW at \in 1 .. n, NEW t \in read[at]
               PROVE  t \in SignatureRead /\ t.next \in at + 1 .. n + 1
    BY DEF ReadsOn
  <2> QED BY <1>2, SignatureAtIs DEF n
<1>5. PICK M : Iterates(M, read, n, SignatureRead) /\ Iterated(read, n) = M[1]
  BY <1>1, <1>4, IteratedDef
<1>6. m \in Seq(SignatureRead) /\ FlattenSeq(SignatureOctets(m)) = SubSeq(data, 1, n)
  <2>1. 1 \in 1 .. n + 1
    BY <1>1
  <2> QED BY <1>2, <1>3, <1>5, <1>n, <2>1, SignaturesRead
<1>7. SubSeq(data, 1, n) = data
  BY DEF n
<1>8. SignatureOctets(signatures) = SignatureOctets(m)
  <2>1. DOMAIN signatures = DOMAIN m /\ \A k \in DOMAIN m : signatures[k].id = m[k].id /\ signatures[k].value = m[k].value
    BY <1>3
  <2>2. \A k \in DOMAIN m : SignatureToTls(signatures[k]) = SignatureToTls(m[k])
    BY <2>1 DEF SignatureToTls
  <2> QED BY <2>1, <2>2 DEF SignatureOctets
<1> QED BY <1>6, <1>7, <1>8

\* Multiples of a size.
LEMMA MultiplesAre ==
  ASSUME NEW h \in Nat \ {0}, NEW m \in Nat, NEW k \in Nat, k + 1 <= m
  PROVE  /\ k * h \in Nat /\ (k + 1) * h = k * h + h /\ k * h + h <= m * h /\ (k + 1 - 1) * h = k * h
<1>1. (k + 1) * h = k * h + h
  OBVIOUS
<1>2. (k + 1) * h <= m * h
  <2> DEFINE r == m - (k + 1)
  <2>1. r \in Nat /\ m = (k + 1) + r
    OBVIOUS
  <2> HIDE DEF r
  <2>2. ((k + 1) + r) * h = (k + 1) * h + r * h /\ r * h \in Nat /\ (k + 1) * h \in Nat
    BY <2>1
  <2> QED BY <2>1, <2>2
<1>3. k * h \in Nat /\ k + 1 - 1 = k
  OBVIOUS
<1> QED BY <1>1, <1>2, <1>3

\* The proof nodes of a vector make up the vector.
LEMMA NodesAre ==
  ASSUME NEW octets \in Seq(Octet), Len(octets) % HashSize = 0
  PROVE  FlattenSeq(NodesOf(octets)) = octets
<1> DEFINE h == HashSize
           m == Len(octets) \div h
           nodes == NodesOf(octets)
           H == { k \in Nat : k <= m => FlattenSeq(SubSeq(nodes, 1, k)) = SubSeq(octets, 1, k * h) }
<1>1. h \in Nat \ {0} /\ Len(octets) \in Nat
  BY WidthsArePositive
<1>2. m \in Nat /\ Len(octets) = h * m
  <2> DEFINE n == Len(octets)
  <2>1. n % h = 0
    OBVIOUS
  <2> HIDE DEF n, h
  <2> QED BY <1>1, <2>1, MultipleOf DEF n
<1>3. Len(octets) = m * h
  BY <1>1, <1>2
<1>4. nodes = [k \in 1 .. m |-> SubSeq(octets, (k - 1) * h + 1, k * h)]
  BY DEF NodesOf
<1> HIDE DEF h, m, nodes
<1>5. ASSUME NEW k \in Nat, k + 1 <= m
      PROVE  /\ SubSeq(octets, k * h + 1, (k + 1) * h) \in Seq(Octet)
             /\ SubSeq(octets, 1, k * h) \o SubSeq(octets, k * h + 1, (k + 1) * h) = SubSeq(octets, 1, (k + 1) * h)
  <2> DEFINE i == k * h
             j == (k + 1) * h
  <2>1. i \in Nat /\ j = i + h /\ i + h <= Len(octets)
    BY <1>1, <1>2, <1>3, <1>5, MultiplesAre
  <2>2. 1 \in 1 .. Len(octets) + 1 /\ i \in 1 - 1 .. Len(octets) /\ j \in i .. Len(octets)
        /\ i + 1 \in 1 .. Len(octets) + 1 /\ j \in (i + 1) - 1 .. Len(octets)
    <3> HIDE DEF i, j
    <3> QED BY <1>1, <2>1
  <2> HIDE DEF i, j
  <2>3. SubSeq(octets, 1, j) = SubSeq(octets, 1, i) \o SubSeq(octets, i + 1, j)
    BY <2>2, PartCut
  <2>4. SubSeq(octets, i + 1, j) \in Seq(Octet)
    BY <2>2, PartIs
  <2> QED BY <2>3, <2>4 DEF i, j
<1>6. ASSUME NEW k \in 1 .. m PROVE nodes[k] \in Seq(Octet) /\ nodes[k] = SubSeq(octets, (k - 1) * h + 1, k * h)
  <2> DEFINE i == k - 1
  <2>1. i \in Nat /\ i + 1 = k /\ i + 1 <= m
    BY <1>2
  <2> HIDE DEF i
  <2>2. SubSeq(octets, i * h + 1, (i + 1) * h) \in Seq(Octet)
    BY <1>5, <2>1
  <2>3. nodes[k] = SubSeq(octets, (k - 1) * h + 1, k * h)
    BY <1>4
  <2>4. k - 1 = i
    BY DEF i
  <2> QED BY <2>1, <2>2, <2>3, <2>4
<1>7. nodes \in Seq(Seq(Octet)) /\ Len(nodes) = m
  <2>1. nodes \in [1 .. m -> Seq(Octet)]
    BY <1>4, <1>6
  <2> QED BY <1>2, <2>1, SeqDef, LenProperties
<1>8. 0 \in H
  <2>1. SubSeq(nodes, 1, 0) = <<>> /\ SubSeq(octets, 1, 0) = <<>>
    BY SubSeqEmpty
  <2>2. FlattenSeq(<<>>) = <<>>
    <3>1. <<>> \in Seq(Seq(Octet)) /\ <<>> \in Seq(Octet)
      BY EmptySeq
    <3> QED BY <3>1, FlattenAppend
  <2>3. 0 * h = 0
    BY <1>1
  <2> QED BY <2>1, <2>2, <2>3
<1>9. ASSUME NEW k \in Nat, k \in H PROVE k + 1 \in H
  <2>h. SUFFICES ASSUME k + 1 <= m PROVE FlattenSeq(SubSeq(nodes, 1, k + 1)) = SubSeq(octets, 1, (k + 1) * h)
    OBVIOUS
  <2>1. k <= m
    BY <1>2, <2>h
  <2>2. FlattenSeq(SubSeq(nodes, 1, k)) = SubSeq(octets, 1, k * h)
    BY <1>9, <2>1
  <2>3. k + 1 <= Len(nodes) /\ k + 1 \in 1 .. m /\ (k + 1) - 1 = k
    BY <1>2, <1>7, <2>h
  <2>4. SubSeq(nodes, 1, k) \in Seq(Seq(Octet)) /\ SubSeq(nodes, 1, k + 1) = Append(SubSeq(nodes, 1, k), nodes[k + 1])
    BY <1>7, <2>3, SegmentStep
  <2>5. nodes[k + 1] \in Seq(Octet) /\ nodes[k + 1] = SubSeq(octets, k * h + 1, (k + 1) * h)
    BY <1>6, <2>3
  <2> DEFINE u == SubSeq(nodes, 1, k)
             e == nodes[k + 1]
  <2>6. u \in Seq(Seq(Octet)) /\ e \in Seq(Octet)
    BY <2>4, <2>5
  <2>7. FlattenSeq(Append(u, e)) = FlattenSeq(u) \o e
    <3> HIDE DEF u, e
    <3> QED BY <2>6, FlattenAppend
  <2>8. SubSeq(octets, 1, k * h) \o SubSeq(octets, k * h + 1, (k + 1) * h) = SubSeq(octets, 1, (k + 1) * h)
    BY <1>5, <2>h
  <2> QED BY <2>2, <2>4, <2>5, <2>7, <2>8
<1>10. m \in H
  <2> HIDE DEF H
  <2>1. \A k \in Nat : k \in H
    BY <1>8, <1>9, Induction
  <2> QED BY <1>2, <2>1
<1>11. FlattenSeq(SubSeq(nodes, 1, m)) = SubSeq(octets, 1, m * h)
  BY <1>2, <1>10
<1>12. SubSeq(nodes, 1, m) = nodes
  BY <1>7
<1>13. SubSeq(octets, 1, m * h) = octets
  BY <1>3
<1> QED BY <1>11, <1>12, <1>13 DEF nodes

\* Octets cut in four.
LEMMA FourParts ==
  ASSUME NEW data \in Seq(Octet), NEW i \in Nat, NEW j \in Nat, NEW k \in Nat, i <= j, j <= k, k <= Len(data)
  PROVE  /\ data = ((SubSeq(data, 1, i) \o SubSeq(data, i + 1, j)) \o SubSeq(data, j + 1, k)) \o SubSeq(data, k + 1, Len(data))
         /\ SubSeq(data, 1, i) \in Seq(Octet) /\ Len(SubSeq(data, 1, i)) = i
         /\ SubSeq(data, i + 1, j) \in Seq(Octet) /\ Len(SubSeq(data, i + 1, j)) = j - i
<1>1. /\ Len(data) \in Nat
      /\ 1 \in 1 .. Len(data) + 1 /\ i \in 1 - 1 .. Len(data) /\ j \in i .. Len(data)
      /\ j \in 1 - 1 .. Len(data) /\ k \in j .. Len(data)
      /\ k \in 1 - 1 .. Len(data) /\ Len(data) \in k .. Len(data)
      /\ i + 1 \in 1 .. Len(data) + 1 /\ j \in (i + 1) - 1 .. Len(data)
      /\ i - 1 + 1 = i /\ j - (i + 1) + 1 = j - i
  OBVIOUS
<1>2. SubSeq(data, 1, j) = SubSeq(data, 1, i) \o SubSeq(data, i + 1, j)
  BY <1>1, PartCut
<1>3. SubSeq(data, 1, k) = SubSeq(data, 1, j) \o SubSeq(data, j + 1, k)
  BY <1>1, PartCut
<1>4. SubSeq(data, 1, Len(data)) = SubSeq(data, 1, k) \o SubSeq(data, k + 1, Len(data))
  BY <1>1, PartCut
<1>5. SubSeq(data, 1, Len(data)) = data
  OBVIOUS
<1>6. SubSeq(data, 1, i) \in Seq(Octet) /\ Len(SubSeq(data, 1, i)) = i
  BY <1>1, PartIs
<1>7. SubSeq(data, i + 1, j) \in Seq(Octet) /\ Len(SubSeq(data, i + 1, j)) = j - i
  BY <1>1, PartIs
<1> QED BY <1>2, <1>3, <1>4, <1>5, <1>6, <1>7

\* MTCProof.to_tls gives back the octets that MTCProof.from_tls accepts.
LEMMA ProofsRoundTrip ==
  ASSUME NEW data \in Seq(Octet), NEW p \in ProofFromTls(data)
  PROVE  ProofToTls(p) = data
<1> DEFINE u == UintOctets
           bounds == 2 * u
<1>0. u \in Nat /\ bounds = u + u /\ bounds \in Nat /\ 2 \in Nat
  BY WidthsArePositive
<1>1. PICK nodes \in {n \in ReadVector(data, bounds + 1, 2) : Len(n.value) % HashSize = 0} :
        p \in UNION {{[start |-> ValueOf(SubSeq(data, 1, UintOctets)),
                       end |-> ValueOf(SubSeq(data, UintOctets + 1, bounds)),
                       nodes |-> NodesOf(nodes.value),
                       signatures |-> signatures] : signatures \in SignaturesIn(vector.value)} :
                      vector \in {v \in ReadVector(data, nodes.next, 2) : v.next = Len(data) + 1}}
  BY DEF ProofFromTls
<1>2. PICK vector \in {v \in ReadVector(data, nodes.next, 2) : v.next = Len(data) + 1} :
        p \in {[start |-> ValueOf(SubSeq(data, 1, UintOctets)),
                end |-> ValueOf(SubSeq(data, UintOctets + 1, bounds)),
                nodes |-> NodesOf(nodes.value),
                signatures |-> signatures] : signatures \in SignaturesIn(vector.value)}
  BY <1>1
<1>3. PICK signatures \in SignaturesIn(vector.value) :
        p = [start |-> ValueOf(SubSeq(data, 1, u)), end |-> ValueOf(SubSeq(data, u + 1, bounds)),
             nodes |-> NodesOf(nodes.value), signatures |-> signatures]
  BY <1>2
<1> HIDE DEF u, bounds
<1>4. bounds + 1 \in 1 .. Len(data) + 1 /\ bounds <= Len(data)
  <2>1. PICK length \in Read(data, bounds + 1, 2) : TRUE
    BY <1>1 DEF ReadVector
  <2>2. ~((bounds + 1) + 2 - 1 > Len(data))
    BY <2>1 DEF Read
  <2>3. Len(data) \in Nat
    OBVIOUS
  <2> QED BY <1>0, <2>2, <2>3
<1> DEFINE a == nodes.value
           at == nodes.next
           b == vector.value
<1>5. /\ a \in Seq(Octet) /\ at \in (bounds + 1) + 2 .. Len(data) + 1 /\ at \in Nat
      /\ Vector(a, 2) = SubSeq(data, bounds + 1, at - 1)
  <2>1. nodes \in ReadVector(data, bounds + 1, 2)
    BY <1>1
  <2> DEFINE x == bounds + 1
  <2>2. x \in 1 .. Len(data) + 1 /\ nodes \in ReadVector(data, x, 2)
    BY <1>4, <2>1
  <2> HIDE DEF x
  <2>3. /\ nodes.value \in Seq(Octet) /\ nodes.next \in x + 2 .. Len(data) + 1 /\ nodes.next \in Nat
        /\ Vector(nodes.value, 2) = SubSeq(data, x, nodes.next - 1)
    BY <1>0, <2>2, ReadVectorIs
  <2> QED BY <2>3 DEF x
<1>6. b \in Seq(Octet) /\ vector.next = Len(data) + 1 /\ Vector(b, 2) = SubSeq(data, at, vector.next - 1)
  <2>1. vector \in ReadVector(data, at, 2) /\ vector.next = Len(data) + 1
    BY <1>2
  <2>2. at \in 1 .. Len(data) + 1
    BY <1>0, <1>5
  <2> HIDE DEF at
  <2> QED BY <1>0, <2>1, <2>2, ReadVectorIs
<1>7. Vector(b, 2) = SubSeq(data, at, Len(data))
  <2>1. (Len(data) + 1) - 1 = Len(data)
    OBVIOUS
  <2> QED BY <1>6, <2>1
<1>8. FlattenSeq(p.nodes) = a
  <2>1. Len(a) % HashSize = 0
    BY <1>1
  <2>2. FlattenSeq(NodesOf(a)) = a
    <3> HIDE DEF a
    <3> QED BY <1>5, <2>1, NodesAre
  <2> QED BY <1>3, <2>2
<1>9. FlattenSeq([k \in DOMAIN p.signatures |-> SignatureToTls(p.signatures[k])]) = b
  <2>1. signatures \in SignaturesIn(b)
    OBVIOUS
  <2>2. FlattenSeq(SignatureOctets(signatures)) = b
    <3> HIDE DEF b
    <3> QED BY <1>6, <2>1, SignaturesInAre
  <2>3. p.signatures = signatures
    BY <1>3
  <2> QED BY <2>2, <2>3 DEF SignatureOctets
<1> HIDE DEF a, at, b
<1> DEFINE k == at - 1
<1>10. k \in Nat /\ u <= bounds /\ bounds <= k /\ k <= Len(data) /\ k + 1 = at /\ bounds - u = u
  <2>1. Len(data) \in Nat
    OBVIOUS
  <2> QED BY <1>0, <1>5, <2>1
<1> HIDE DEF k
<1> DEFINE s1 == SubSeq(data, 1, u)
           s2 == SubSeq(data, u + 1, bounds)
<1>11. /\ data = ((s1 \o s2) \o SubSeq(data, bounds + 1, k)) \o SubSeq(data, k + 1, Len(data))
       /\ s1 \in Seq(Octet) /\ Len(s1) = u
       /\ s2 \in Seq(Octet) /\ Len(s2) = bounds - u
  <2>1. u \in Nat /\ bounds \in Nat /\ k \in Nat /\ u <= bounds /\ bounds <= k /\ k <= Len(data)
    BY <1>0, <1>10
  <2> HIDE DEF s1, s2
  <2> QED BY <2>1, FourParts, Zenon DEF s1, s2
<1>12. p.start = ValueOf(s1) /\ p.end = ValueOf(s2)
  BY <1>3
<1> HIDE DEF s1, s2
<1>13. Uint(p.start, u) = s1 /\ Uint(p.end, u) = s2
  <2>1. Uint(ValueOf(s1), Len(s1)) = s1 /\ Uint(ValueOf(s2), Len(s2)) = s2
    BY <1>11, UintOfValue
  <2> QED BY <1>10, <1>11, <1>12, <2>1
<1>14. Vector(a, 2) = SubSeq(data, bounds + 1, k) /\ Vector(b, 2) = SubSeq(data, k + 1, Len(data))
  BY <1>5, <1>7, <1>10 DEF k
<1>15. ProofToTls(p) = ((s1 \o s2) \o Vector(a, 2)) \o Vector(b, 2)
  BY <1>8, <1>9, <1>13 DEF ProofToTls, u
<1> QED BY <1>11, <1>14, <1>15

-----------------------------------------------------------------------------
(* Certificates *)

\* The strict check of a value does not depend on where it was read.
LEMMA ChecksOfValue ==
  ASSUME NEW d, NEW depth, NEW t, NEW v, t.tag = v.tag, t.content = v.content, t.der = v.der,
         CanonicalAs(d, depth, t)
  PROVE  CanonicalAs(d, depth, v)
<1>1. EncodeTlv(v.tag, v.content) = d
  BY DEF CanonicalAs
<1>2. PrimitiveIsCanonical(v)
  BY DEF CanonicalAs, PrimitiveIsCanonical
<1>3. MembersAreCanonical(v, depth)
  BY DEF CanonicalAs, MembersAreCanonical
<1> QED BY <1>1, <1>2, <1>3 DEF CanonicalAs

\* A member of a canonical SEQUENCE is canonical.
LEMMA FieldIs ==
  ASSUME NEW f, NEW data, AreFields(f, data), NEW k \in 1 .. Len(f)
  PROVE  /\ f[k] \in TlvRecord
         /\ f[k].der \in Seq(Octet) /\ f[k].content \in Seq(Octet) /\ f[k].tag \in Octet
         /\ IsTlv(f[k].der)
         /\ CanonicalAt[<<f[k].der, 1>>]
         /\ EncodeTlv(f[k].tag, f[k].content) = f[k].der
         /\ PrimitiveIsCanonical(f[k])
         /\ MembersAreCanonical(f[k], 1)
         /\ DersOf(f)[k] = f[k].der /\ Len(DersOf(f)) = Len(f)
         /\ f[k].tag % 32 # 31 /\ Len(f[k].content) < Pow2[32] /\ Len(f[k].content) <= Len(f[k].der)
<1> DEFINE t == f[k]
           d == t.der
           n == t.next
           v == Parsed(d, Len(d) + 1)
<1>1. f \in Seq(TlvRecord) /\ WasParsed(t) /\ CanonicalItems(DersOf(f))
  BY DEF AreFields
<1>2. Len(DersOf(f)) = Len(f) /\ DersOf(f)[k] = d
  BY <1>1, DersType
<1>3. CanonicalAt[<<d, 1>>]
  BY <1>1, <1>2 DEF CanonicalItems
<1>4. t \in TlvRecord /\ d \in Seq(Octet) /\ t.content \in Seq(Octet) /\ t.tag \in Octet
  BY <1>1, TlvTypes DEF WasParsed
<1>5. t = Parsed(d, n) /\ IsTlv(d)
  BY <1>1 DEF WasParsed
<1> HIDE DEF t, d, n
<1>6. t.tag = v.tag /\ t.content = v.content /\ t.der = v.der
  BY <1>5 DEF Parsed
<1>7. CanonicalAs(d, 1, v)
  <2>1. 1 \in 0 .. MaxDepth
    BY DEF MaxDepth
  <2> QED BY <1>3, <1>4, <2>1, CanonicalIs
<1>8. CanonicalAs(d, 1, t)
  <2> HIDE DEF v
  <2> QED BY <1>6, <1>7, ChecksOfValue
<1>9. t.tag % 32 # 31 /\ Len(t.content) < Pow2[32] /\ Len(t.content) <= Len(d)
  <2>1. t.tag = d[1] /\ t.content = SubSeq(d, ContentAt(d), Len(d))
    BY <1>5 DEF Parsed
  <2> QED BY <1>5, <2>1, ContentIs
<1> QED BY <1>2, <1>3, <1>4, <1>5, <1>8, <1>9 DEF CanonicalAs, t, d

\* A sequence of three.
LEMMA ThreeIs ==
  ASSUME NEW E, NEW s \in Seq(E)
  PROVE  Len(s) = 3 => s = <<s[1], s[2], s[3]>>
OBVIOUS

\* The content of a BIT STRING without unused bits.
LEMMA NoUnusedBits ==
  ASSUME NEW content \in Seq(Octet), NEW b \in Bits(content), b.unused = 0
  PROVE  content = <<0>> \o b.bits /\ b.bits \in Seq(Octet)
<1>1. b \in DecodeBitString(content)
  BY DEF Bits
<1>2. content # <<>> /\ b = [bits |-> Tail(content), unused |-> content[1]]
  BY <1>1 DEF DecodeBitString
<1>3. content[1] = 0 /\ b.bits = Tail(content)
  BY <1>2
<1>4. /\ SubSeq(content, 2, Len(content)) \in Seq(Octet)
      /\ content = <<content[1]>> \o SubSeq(content, 2, Len(content))
  BY <1>2, FirstAndRest
<1>5. Tail(content) = SubSeq(content, 2, Len(content))
  OBVIOUS
<1> QED BY <1>3, <1>4, <1>5

\* What the decoder found in a certificate.
Enveloped(c, data, fields, b) ==
  /\ AreFields(fields, data)
  /\ Len(fields) = 3 /\ fields[2].der = MtcAlgorithm /\ fields[3].tag = TagBitString
  /\ c.tbs \in TbsCertificate(fields[1].der)
  /\ b \in Bits(fields[3].content) /\ b.unused = 0
  /\ c.proof \in DecodeProof(b.bits, SerialNumber(c.tbs))

\* The parts of a certificate that was accepted.
LEMMA DecodedIs ==
  ASSUME NEW data \in Seq(Octet), NEW c \in DecodeCertificate(data)
  PROVE  \E fields, b : Enveloped(c, data, fields, b)
<1>0. PICK fields \in {f \in Fields(data) : Len(f) = 3 /\ f[2].der = MtcAlgorithm /\ f[3].tag = TagBitString} :
        \E tbs \in TbsCertificate(fields[1].der) :
          c \in UNION {{[tbs |-> tbs, proof |-> p] : p \in DecodeProof(b.bits, SerialNumber(tbs))} :
                         b \in {x \in Bits(fields[3].content) : x.unused = 0}}
  BY DEF DecodeCertificate
<1>1. PICK tbs \in TbsCertificate(fields[1].der) :
        c \in UNION {{[tbs |-> tbs, proof |-> p] : p \in DecodeProof(b.bits, SerialNumber(tbs))} :
                       b \in {x \in Bits(fields[3].content) : x.unused = 0}}
  BY <1>0
<1>2. PICK b \in {x \in Bits(fields[3].content) : x.unused = 0} :
        c \in {[tbs |-> tbs, proof |-> p] : p \in DecodeProof(b.bits, SerialNumber(tbs))}
  BY <1>1
<1>3. PICK p \in DecodeProof(b.bits, SerialNumber(tbs)) : c = [tbs |-> tbs, proof |-> p]
  BY <1>2
<1>4. c.tbs = tbs /\ c.proof = p
  BY <1>3
<1>5. AreFields(fields, data)
  BY <1>0, FieldsAre
<1> QED BY <1>0, <1>1, <1>2, <1>3, <1>4, <1>5 DEF Enveloped

\* The octets of a TBS certificate are kept.
LEMMA TbsKeepsOctets ==
  ASSUME NEW data, NEW tbs \in TbsCertificate(data)
  PROVE  tbs.der = data /\ tbs.fields \in Fields(data) /\ tbs = [der |-> data, fields |-> tbs.fields]
BY DEF TbsCertificate

\* A certificate that is accepted re-encodes to the octets it was read from.
LEMMA CertificateRoundTrip ==
  ASSUME NEW data \in Seq(Octet), NEW c \in DecodeCertificate(data)
  PROVE  EncodeCertificate(c) = data
<1>1. PICK fields, b : Enveloped(c, data, fields, b)
  BY DecodedIs
<1>2. AreFields(fields, data) /\ Len(fields) = 3 /\ 1 \in 1 .. Len(fields) /\ 2 \in 1 .. Len(fields) /\ 3 \in 1 .. Len(fields)
  BY <1>1 DEF Enveloped
<1> DEFINE items == DersOf(fields)
<1>3. /\ data = EncodeSequence(items) /\ items \in Seq(Seq(Octet)) /\ Len(items) = 3
      /\ items[1] = fields[1].der /\ items[2] = fields[2].der /\ items[3] = fields[3].der
  <2>1. fields \in Seq(TlvRecord) /\ data = EncodeSequence(items)
    BY <1>2 DEF AreFields
  <2> QED BY <1>2, <2>1, DersType
<1> HIDE DEF items
<1>4. items = <<items[1], items[2], items[3]>>
  BY <1>3, ThreeIs
<1>5. fields[1].der = c.tbs.der
  BY <1>1, TbsKeepsOctets DEF Enveloped
<1>6. EncodeTlv(fields[3].tag, fields[3].content) = fields[3].der /\ fields[3].content \in Seq(Octet)
  <2> DEFINE k == 3
  <2>1. k \in 1 .. Len(fields) /\ AreFields(fields, data)
    BY <1>2
  <2> HIDE DEF k
  <2>2. EncodeTlv(fields[k].tag, fields[k].content) = fields[k].der /\ fields[k].content \in Seq(Octet)
    BY <2>1, FieldIs
  <2> QED BY <2>2 DEF k
<1>7. fields[3].content = <<0>> \o b.bits /\ b.bits \in Seq(Octet)
  <2> DEFINE content == fields[3].content
  <2>1. content \in Seq(Octet) /\ b \in Bits(content) /\ b.unused = 0
    BY <1>1, <1>6 DEF Enveloped
  <2> HIDE DEF content
  <2>2. content = <<0>> \o b.bits /\ b.bits \in Seq(Octet)
    BY <2>1, NoUnusedBits
  <2> QED BY <2>2 DEF content
<1>8. ProofToTls(c.proof) = b.bits
  <2>1. c.proof \in ProofFromTls(b.bits)
    BY <1>1 DEF Enveloped, DecodeProof
  <2> QED BY <1>7, <2>1, ProofsRoundTrip
<1>9. fields[3].der = EncodeBitString(ProofToTls(c.proof))
  BY <1>1, <1>6, <1>7, <1>8 DEF EncodeBitString, Enveloped
<1>10. items = <<c.tbs.der, MtcAlgorithm, EncodeBitString(ProofToTls(c.proof))>>
  BY <1>1, <1>3, <1>4, <1>5, <1>9 DEF Enveloped
<1> QED BY <1>3, <1>10 DEF EncodeCertificate

-----------------------------------------------------------------------------
(* The entry of a certificate *)

\* The elements of the sequences v at position p of w.
Placed(w, v, p) == \A j \in 1 .. Len(v) : w[p + j] = v[j]

\* The elements of two parts.
LEMMA TwoPlaced ==
  ASSUME NEW E, NEW a \in Seq(E), NEW b \in Seq(E)
  PROVE  /\ a \o b \in Seq(E) /\ Len(a \o b) = Len(a) + Len(b)
         /\ Placed(a \o b, a, 0) /\ Placed(a \o b, b, Len(a))
<1>1. /\ \A k \in 1 .. Len(a) : (a \o b)[k] = a[k]
      /\ \A k \in 1 .. Len(b) : (a \o b)[Len(a) + k] = b[k]
  BY ConcatElements
<1>2. \A k \in 1 .. Len(a) : 0 + k = k
  OBVIOUS
<1>3. a \o b \in Seq(E) /\ Len(a \o b) = Len(a) + Len(b)
  BY ConcatParts
<1>4. Placed(a \o b, a, 0)
  BY <1>1, <1>2 DEF Placed
<1>5. Placed(a \o b, b, Len(a))
  BY <1>1 DEF Placed
<1> QED BY <1>3, <1>4, <1>5

\* What is placed stays there when something follows.
LEMMA PlacedBefore ==
  ASSUME NEW E, NEW w \in Seq(E), NEW c \in Seq(E), NEW v \in Seq(E), NEW p \in Nat,
         Placed(w, v, p), p + Len(v) <= Len(w)
  PROVE  Placed(w \o c, v, p)
<1> SUFFICES ASSUME NEW j \in 1 .. Len(v) PROVE (w \o c)[p + j] = v[j]
  BY DEF Placed
<1>1. p + j \in 1 .. Len(w)
  OBVIOUS
<1>2. (w \o c)[p + j] = w[p + j]
  BY <1>1, ConcatElements
<1> QED BY <1>2 DEF Placed

\* The elements of four parts.
LEMMA FourPlaced ==
  ASSUME NEW E, NEW a \in Seq(E), NEW b \in Seq(E), NEW c \in Seq(E), NEW d \in Seq(E)
  PROVE  LET w == ((a \o b) \o c) \o d
         IN  /\ w \in Seq(E) /\ Len(w) = Len(a) + Len(b) + Len(c) + Len(d)
             /\ Placed(w, a, 0) /\ Placed(w, b, Len(a)) /\ Placed(w, c, Len(a) + Len(b))
             /\ Placed(w, d, Len(a) + Len(b) + Len(c))
<1> DEFINE x == a \o b
           y == x \o c
           w == y \o d
<1>0. Len(a) \in Nat /\ Len(b) \in Nat /\ Len(c) \in Nat /\ Len(d) \in Nat /\ 0 \in Nat
  OBVIOUS
<1>1. x \in Seq(E) /\ Len(x) = Len(a) + Len(b) /\ Placed(x, a, 0) /\ Placed(x, b, Len(a))
  BY TwoPlaced
<1> HIDE DEF x
<1>2. y \in Seq(E) /\ Len(y) = Len(x) + Len(c) /\ Placed(y, c, Len(x))
  BY <1>1, TwoPlaced
<1>3. Placed(y, a, 0)
  <2>1. 0 + Len(a) <= Len(x)
    BY <1>0, <1>1
  <2> QED BY <1>0, <1>1, <2>1, PlacedBefore
<1>4. Placed(y, b, Len(a))
  <2>1. Len(a) + Len(b) <= Len(x)
    BY <1>0, <1>1
  <2> QED BY <1>0, <1>1, <2>1, PlacedBefore
<1> HIDE DEF y
<1>5. w \in Seq(E) /\ Len(w) = Len(y) + Len(d) /\ Placed(w, d, Len(y))
  BY <1>2, TwoPlaced
<1>6. Placed(w, a, 0)
  <2>1. 0 + Len(a) <= Len(y)
    BY <1>0, <1>1, <1>2
  <2> QED BY <1>0, <1>2, <1>3, <2>1, PlacedBefore
<1>7. Placed(w, b, Len(a))
  <2>1. Len(a) + Len(b) <= Len(y)
    BY <1>0, <1>1, <1>2
  <2> QED BY <1>0, <1>2, <1>4, <2>1, PlacedBefore
<1>8. Placed(w, c, Len(x))
  <2>1. Len(x) + Len(c) <= Len(y) /\ Len(x) \in Nat
    BY <1>0, <1>1, <1>2
  <2> QED BY <1>2, <2>1, PlacedBefore
<1> HIDE DEF w
<1>9. Len(w) = Len(a) + Len(b) + Len(c) + Len(d) /\ Len(x) = Len(a) + Len(b) /\ Len(y) = Len(a) + Len(b) + Len(c)
  BY <1>0, <1>1, <1>2, <1>5
<1>10. w = ((a \o b) \o c) \o d
  BY DEF w, y, x
<1> QED BY <1>5, <1>6, <1>7, <1>8, <1>9, <1>10

\* The elements of five parts.
LEMMA FivePlaced ==
  ASSUME NEW E, NEW a \in Seq(E), NEW b \in Seq(E), NEW c \in Seq(E), NEW d \in Seq(E), NEW e \in Seq(E)
  PROVE  LET w == (((a \o b) \o c) \o d) \o e
         IN  /\ w \in Seq(E) /\ Len(w) = Len(a) + Len(b) + Len(c) + Len(d) + Len(e)
             /\ Placed(w, a, 0) /\ Placed(w, b, Len(a)) /\ Placed(w, c, Len(a) + Len(b))
             /\ Placed(w, d, Len(a) + Len(b) + Len(c)) /\ Placed(w, e, Len(a) + Len(b) + Len(c) + Len(d))
<1> DEFINE y == ((a \o b) \o c) \o d
           w == y \o e
<1>0. Len(a) \in Nat /\ Len(b) \in Nat /\ Len(c) \in Nat /\ Len(d) \in Nat /\ Len(e) \in Nat /\ 0 \in Nat
  OBVIOUS
<1>1. /\ y \in Seq(E) /\ Len(y) = Len(a) + Len(b) + Len(c) + Len(d)
      /\ Placed(y, a, 0) /\ Placed(y, b, Len(a)) /\ Placed(y, c, Len(a) + Len(b))
      /\ Placed(y, d, Len(a) + Len(b) + Len(c))
  BY FourPlaced
<1> HIDE DEF y
<1>2. w \in Seq(E) /\ Len(w) = Len(y) + Len(e) /\ Placed(w, e, Len(y))
  BY <1>1, TwoPlaced
<1> DEFINE p == Len(a)
           q == Len(a) + Len(b)
           r == Len(a) + Len(b) + Len(c)
<1>3. p \in Nat /\ q \in Nat /\ r \in Nat /\ 0 + Len(a) <= Len(y) /\ p + Len(b) <= Len(y) /\ q + Len(c) <= Len(y)
      /\ r + Len(d) <= Len(y)
  BY <1>0, <1>1
<1>4. Placed(y, b, p) /\ Placed(y, c, q) /\ Placed(y, d, r)
  BY <1>1
<1> HIDE DEF p, q, r
<1>5. Placed(w, a, 0)
  BY <1>0, <1>1, <1>3, PlacedBefore
<1>6. Placed(w, b, p)
  BY <1>1, <1>3, <1>4, PlacedBefore
<1>7. Placed(w, c, q)
  BY <1>1, <1>3, <1>4, PlacedBefore
<1>8. Placed(w, d, r)
  BY <1>1, <1>3, <1>4, PlacedBefore
<1> HIDE DEF w
<1>9. Len(w) = Len(a) + Len(b) + Len(c) + Len(d) + Len(e)
  BY <1>0, <1>1, <1>2
<1>10. w = (((a \o b) \o c) \o d) \o e
  BY DEF w, y
<1> QED BY <1>1, <1>2, <1>5, <1>6, <1>7, <1>8, <1>9, <1>10 DEF p, q, r

\* Consecutive fields.
LEMMA DersAre ==
  ASSUME NEW f \in Seq(TlvRecord), NEW i \in Nat \ {0}, NEW j \in Nat, i <= j + 1, j <= Len(f)
  PROVE  /\ Ders(f, i, j) \in Seq(Seq(Octet)) /\ Len(Ders(f, i, j)) = j - i + 1
         /\ \A k \in 1 .. j - i + 1 : Ders(f, i, j)[k] = f[i + k - 1].der
<1>1. j - i + 1 \in Nat
  OBVIOUS
<1>2. ASSUME NEW k \in 1 .. j - i + 1 PROVE f[i + k - 1].der \in Seq(Octet)
  <2> DEFINE x == i + k - 1
  <2>1. x \in 1 .. Len(f)
    OBVIOUS
  <2> HIDE DEF x
  <2>2. f[x] \in TlvRecord
    BY <2>1, ElementOfSeq
  <2> QED BY <2>2, TlvTypes DEF x
<1> DEFINE n == j - i + 1
           s == [k \in 1 .. n |-> f[i + k - 1].der]
<1>3. Ders(f, i, j) = s
  BY DEF Ders
<1>4. s \in [1 .. n -> Seq(Octet)] /\ \A k \in 1 .. n : s[k] = f[i + k - 1].der
  BY <1>2
<1> HIDE DEF s, n
<1>5. s \in Seq(Seq(Octet)) /\ Len(s) = n
  BY <1>1, <1>4, SeqDef, LenProperties DEF n
<1> QED BY <1>3, <1>4, <1>5 DEF n

\* The items of the entry of a certificate with the fields f, the first of which
\* is its version if o is 1: serial and algorithm are left out, the key becomes key.
EntryItems(items, f, o, key) ==
  /\ items \in Seq(Seq(Octet)) /\ Len(items) = Len(f) - 2
  /\ \A j \in 1 .. o : items[j] = f[j].der
  /\ \A j \in o + 1 .. o + 3 : items[j] = f[j + 2].der
  /\ items[o + 4] = key
  /\ \A j \in o + 5 .. Len(f) - 2 : items[j] = f[j + 2].der

\* to_log_entry lists them.
LEMMA EntryItemsAre ==
  ASSUME NEW f \in Seq(TlvRecord), NEW o \in {0, 1}, Len(f) >= o + 6, NEW key \in Seq(Octet)
  PROVE  EntryItems(((Ders(f, 1, o) \o Ders(f, o + 3, o + 5)) \o <<key>>) \o Ders(f, o + 7, Len(f)), f, o, key)
<1> DEFINE E == Seq(Octet)
           a == Ders(f, 1, o)
           b == Ders(f, o + 3, o + 5)
           c == <<key>>
           d == Ders(f, o + 7, Len(f))
           w == ((a \o b) \o c) \o d
           n == Len(f)
<1>0. /\ o \in Nat /\ n \in Nat /\ n >= o + 6 /\ 1 \in Nat \ {0} /\ 1 <= o + 1 /\ o <= n
      /\ o + 3 \in Nat \ {0} /\ o + 5 \in Nat /\ o + 3 <= (o + 5) + 1 /\ o + 5 <= n
      /\ o + 7 \in Nat \ {0} /\ o + 7 <= n + 1 /\ n <= n
  OBVIOUS
<1>1. a \in Seq(E) /\ Len(a) = o - 1 + 1 /\ \A k \in 1 .. o - 1 + 1 : a[k] = f[1 + k - 1].der
  BY <1>0, DersAre
<1>2. b \in Seq(E) /\ Len(b) = (o + 5) - (o + 3) + 1 /\ \A k \in 1 .. (o + 5) - (o + 3) + 1 : b[k] = f[(o + 3) + k - 1].der
  <2> DEFINE i == o + 3
             j == o + 5
  <2>1. i \in Nat \ {0} /\ j \in Nat /\ i <= j + 1 /\ j <= Len(f)
    BY <1>0
  <2> HIDE DEF i, j
  <2>2. Ders(f, i, j) \in Seq(Seq(Octet)) /\ Len(Ders(f, i, j)) = j - i + 1
        /\ \A k \in 1 .. j - i + 1 : Ders(f, i, j)[k] = f[i + k - 1].der
    BY <2>1, DersAre
  <2> QED BY <2>2 DEF i, j
<1>3. c \in Seq(E) /\ Len(c) = 1 /\ c[1] = key
  BY OneIs
<1>4. d \in Seq(E) /\ Len(d) = n - (o + 7) + 1 /\ \A k \in 1 .. n - (o + 7) + 1 : d[k] = f[(o + 7) + k - 1].der
  <2> DEFINE i == o + 7
  <2>1. i \in Nat \ {0} /\ n \in Nat /\ i <= n + 1 /\ n <= Len(f)
    BY <1>0
  <2> HIDE DEF i, n
  <2>2. Ders(f, i, n) \in Seq(Seq(Octet)) /\ Len(Ders(f, i, n)) = n - i + 1
        /\ \A k \in 1 .. n - i + 1 : Ders(f, i, n)[k] = f[i + k - 1].der
    BY <2>1, DersAre
  <2> QED BY <2>2 DEF i, n
<1> HIDE DEF a, b, c, d, E, n
<1>5. Len(a) = o /\ Len(b) = 3 /\ Len(d) = n - (o + 6)
  BY <1>0, <1>1, <1>2, <1>4
<1>6. /\ w \in Seq(E) /\ Len(w) = Len(a) + Len(b) + Len(c) + Len(d)
      /\ Placed(w, a, 0) /\ Placed(w, b, Len(a)) /\ Placed(w, c, Len(a) + Len(b))
      /\ Placed(w, d, Len(a) + Len(b) + Len(c))
  BY <1>1, <1>2, <1>3, <1>4, FourPlaced
<1> HIDE DEF w
<1>7. /\ w \in Seq(E) /\ Len(w) = n - 2
      /\ Placed(w, a, 0) /\ Placed(w, b, o) /\ Placed(w, c, o + 3) /\ Placed(w, d, o + 4)
  <2>1. Len(a) + Len(b) = o + 3 /\ Len(a) + Len(b) + Len(c) = o + 4 /\ Len(a) + Len(b) + Len(c) + Len(d) = n - 2
    BY <1>0, <1>3, <1>5
  <2> QED BY <1>5, <1>6, <2>1
<1>8. ASSUME NEW j \in 1 .. o PROVE w[j] = f[j].der
  <2>1. w[0 + j] = a[j]
    BY <1>5, <1>7 DEF Placed
  <2>2. a[j] = f[1 + j - 1].der
    <3>1. j \in 1 .. o - 1 + 1
      BY <1>0
    <3> QED BY <1>1, <3>1
  <2>3. 0 + j = j /\ 1 + j - 1 = j
    BY <1>0
  <2> QED BY <2>1, <2>2, <2>3
<1>9. ASSUME NEW j \in o + 1 .. o + 3 PROVE w[j] = f[j + 2].der
  <2> DEFINE k == j - o
  <2>1. k \in 1 .. 3 /\ o + k = j /\ (o + 3) + k - 1 = j + 2 /\ (o + 5) - (o + 3) + 1 = 3
    BY <1>0
  <2> HIDE DEF k
  <2>2. w[o + k] = b[k]
    BY <1>5, <1>7, <2>1 DEF Placed
  <2>3. b[k] = f[(o + 3) + k - 1].der
    BY <1>2, <2>1
  <2> QED BY <2>1, <2>2, <2>3
<1>10. w[o + 4] = key
  <2>1. w[(o + 3) + 1] = c[1]
    <3>1. 1 \in 1 .. Len(c)
      BY <1>3
    <3> QED BY <1>7, <3>1 DEF Placed
  <2>2. (o + 3) + 1 = o + 4
    BY <1>0
  <2> QED BY <1>3, <2>1, <2>2
<1>11. ASSUME NEW j \in o + 5 .. n - 2 PROVE w[j] = f[j + 2].der
  <2> DEFINE k == j - (o + 4)
  <2>1. k \in 1 .. n - (o + 6) /\ (o + 4) + k = j /\ (o + 7) + k - 1 = j + 2 /\ n - (o + 7) + 1 = n - (o + 6)
    BY <1>0
  <2> HIDE DEF k
  <2>2. w[(o + 4) + k] = d[k]
    BY <1>5, <1>7, <2>1 DEF Placed
  <2>3. d[k] = f[(o + 7) + k - 1].der
    BY <1>4, <2>1
  <2> QED BY <2>1, <2>2, <2>3
<1>12. EntryItems(w, f, o, key)
  BY <1>7, <1>8, <1>9, <1>10, <1>11 DEF EntryItems, E, n
<1> QED BY <1>12 DEF w, a, b, c, d, n

\* The items of the certificate that from_log_entry builds from the fields g.
CertificateItems(items, g, o, serial, algorithm, key) ==
  /\ items \in Seq(Seq(Octet)) /\ Len(items) = Len(g) + 2
  /\ \A j \in 1 .. o : items[j] = g[j].der
  /\ items[o + 1] = serial /\ items[o + 2] = algorithm
  /\ \A j \in o + 3 .. o + 5 : items[j] = g[j - 2].der
  /\ items[o + 6] = key
  /\ \A j \in o + 7 .. Len(g) + 2 : items[j] = g[j - 2].der

\* The items that are joined are those.
LEMMA CertificateItemsAre ==
  ASSUME NEW g \in Seq(TlvRecord), NEW o \in {0, 1}, Len(g) >= o + 4,
         NEW serial \in Seq(Octet), NEW algorithm \in Seq(Octet), NEW key \in Seq(Octet)
  PROVE  CertificateItems((((Ders(g, 1, o) \o <<serial, algorithm>>) \o Ders(g, o + 1, o + 3)) \o <<key>>)
                            \o Ders(g, o + 5, Len(g)), g, o, serial, algorithm, key)
<1> DEFINE E == Seq(Octet)
           a == Ders(g, 1, o)
           b == <<serial, algorithm>>
           c == Ders(g, o + 1, o + 3)
           d == <<key>>
           e == Ders(g, o + 5, Len(g))
           w == (((a \o b) \o c) \o d) \o e
           n == Len(g)
<1>0. /\ o \in Nat /\ n \in Nat /\ n >= o + 4 /\ 1 \in Nat \ {0} /\ 1 <= o + 1 /\ o <= n
      /\ o + 1 \in Nat \ {0} /\ o + 3 \in Nat /\ o + 1 <= (o + 3) + 1 /\ o + 3 <= n
      /\ o + 5 \in Nat \ {0} /\ o + 5 <= n + 1 /\ n <= n
  OBVIOUS
<1>1. a \in Seq(E) /\ Len(a) = o - 1 + 1 /\ \A k \in 1 .. o - 1 + 1 : a[k] = g[1 + k - 1].der
  BY <1>0, DersAre
<1>2. b \in Seq(E) /\ Len(b) = 2 /\ b[1] = serial /\ b[2] = algorithm
  OBVIOUS
<1>3. c \in Seq(E) /\ Len(c) = (o + 3) - (o + 1) + 1 /\ \A k \in 1 .. (o + 3) - (o + 1) + 1 : c[k] = g[(o + 1) + k - 1].der
  <2> DEFINE i == o + 1
             j == o + 3
  <2>1. i \in Nat \ {0} /\ j \in Nat /\ i <= j + 1 /\ j <= Len(g)
    BY <1>0
  <2> HIDE DEF i, j
  <2>2. Ders(g, i, j) \in Seq(Seq(Octet)) /\ Len(Ders(g, i, j)) = j - i + 1
        /\ \A k \in 1 .. j - i + 1 : Ders(g, i, j)[k] = g[i + k - 1].der
    BY <2>1, DersAre
  <2> QED BY <2>2 DEF i, j
<1>4. d \in Seq(E) /\ Len(d) = 1 /\ d[1] = key
  BY OneIs
<1>5. e \in Seq(E) /\ Len(e) = n - (o + 5) + 1 /\ \A k \in 1 .. n - (o + 5) + 1 : e[k] = g[(o + 5) + k - 1].der
  <2> DEFINE i == o + 5
  <2>1. i \in Nat \ {0} /\ n \in Nat /\ i <= n + 1 /\ n <= Len(g)
    BY <1>0
  <2> HIDE DEF i, n
  <2>2. Ders(g, i, n) \in Seq(Seq(Octet)) /\ Len(Ders(g, i, n)) = n - i + 1
        /\ \A k \in 1 .. n - i + 1 : Ders(g, i, n)[k] = g[i + k - 1].der
    BY <2>1, DersAre
  <2> QED BY <2>2 DEF i, n
<1> HIDE DEF a, b, c, d, e, E, n
<1>6. Len(a) = o /\ Len(c) = 3 /\ Len(e) = n - (o + 4)
  BY <1>0, <1>1, <1>3, <1>5
<1>7. /\ w \in Seq(E) /\ Len(w) = Len(a) + Len(b) + Len(c) + Len(d) + Len(e)
      /\ Placed(w, a, 0) /\ Placed(w, b, Len(a)) /\ Placed(w, c, Len(a) + Len(b))
      /\ Placed(w, d, Len(a) + Len(b) + Len(c)) /\ Placed(w, e, Len(a) + Len(b) + Len(c) + Len(d))
  BY <1>1, <1>2, <1>3, <1>4, <1>5, FivePlaced
<1> HIDE DEF w
<1>8. /\ w \in Seq(E) /\ Len(w) = n + 2
      /\ Placed(w, a, 0) /\ Placed(w, b, o) /\ Placed(w, c, o + 2) /\ Placed(w, d, o + 5) /\ Placed(w, e, o + 6)
  <2>1. /\ Len(a) + Len(b) = o + 2 /\ Len(a) + Len(b) + Len(c) = o + 5 /\ Len(a) + Len(b) + Len(c) + Len(d) = o + 6
        /\ Len(a) + Len(b) + Len(c) + Len(d) + Len(e) = n + 2
    BY <1>0, <1>2, <1>4, <1>6
  <2> QED BY <1>6, <1>7, <2>1
<1>9. ASSUME NEW j \in 1 .. o PROVE w[j] = g[j].der
  <2>1. w[0 + j] = a[j]
    BY <1>6, <1>8 DEF Placed
  <2>2. a[j] = g[1 + j - 1].der
    <3>1. j \in 1 .. o - 1 + 1
      BY <1>0
    <3> QED BY <1>1, <3>1
  <2>3. 0 + j = j /\ 1 + j - 1 = j
    BY <1>0
  <2> QED BY <2>1, <2>2, <2>3
<1>10. w[o + 1] = serial /\ w[o + 2] = algorithm
  <2>1. 1 \in 1 .. Len(b) /\ 2 \in 1 .. Len(b)
    BY <1>2
  <2> QED BY <1>2, <1>8, <2>1 DEF Placed
<1>11. ASSUME NEW j \in o + 3 .. o + 5 PROVE w[j] = g[j - 2].der
  <2> DEFINE k == j - (o + 2)
  <2>1. k \in 1 .. 3 /\ (o + 2) + k = j /\ (o + 1) + k - 1 = j - 2 /\ (o + 3) - (o + 1) + 1 = 3
    BY <1>0
  <2> HIDE DEF k
  <2>2. w[(o + 2) + k] = c[k]
    BY <1>6, <1>8, <2>1 DEF Placed
  <2>3. c[k] = g[(o + 1) + k - 1].der
    BY <1>3, <2>1
  <2> QED BY <2>1, <2>2, <2>3
<1>12. w[o + 6] = key
  <2>1. w[(o + 5) + 1] = d[1]
    <3>1. 1 \in 1 .. Len(d)
      BY <1>4
    <3> QED BY <1>8, <3>1 DEF Placed
  <2>2. (o + 5) + 1 = o + 6
    BY <1>0
  <2> QED BY <1>4, <2>1, <2>2
<1>13. ASSUME NEW j \in o + 7 .. n + 2 PROVE w[j] = g[j - 2].der
  <2> DEFINE k == j - (o + 6)
  <2>1. k \in 1 .. n - (o + 4) /\ (o + 6) + k = j /\ (o + 5) + k - 1 = j - 2 /\ n - (o + 5) + 1 = n - (o + 4)
    BY <1>0
  <2> HIDE DEF k
  <2>2. w[(o + 6) + k] = e[k]
    BY <1>6, <1>8, <2>1 DEF Placed
  <2>3. e[k] = g[(o + 5) + k - 1].der
    BY <1>5, <2>1
  <2> QED BY <2>1, <2>2, <2>3
<1>14. CertificateItems(w, g, o, serial, algorithm, key)
  BY <1>8, <1>9, <1>10, <1>11, <1>12, <1>13 DEF CertificateItems, E, n
<1> QED BY <1>14 DEF w, a, b, c, d, e, n

\* Redundant octets lead a value.
LEMMA MinimalIs ==
  ASSUME NEW value \in Seq(Octet), value # <<>>
  PROVE  /\ Minimal(value) \in Seq(Octet) /\ Len(Minimal(value)) <= Len(value)
         /\ ~Redundant(value, 1) <=> Minimal(value) = value
         /\ Redundant(value, 1) /\ ~Redundant(value, 2) => Minimal(value) = SubSeq(value, 2, Len(value))
<1> DEFINE n == Len(value)
           Leads(k) == ~Redundant(value, k) /\ \A j \in 1 .. k - 1 : Redundant(value, j)
           first == CHOOSE k \in DOMAIN value : Leads(k)
           T == { k \in Nat : k \in 1 .. n /\ ~Redundant(value, k) }
<1>1. n \in Nat /\ n # 0 /\ DOMAIN value = 1 .. n
  BY EmptySeq
<1>2. n \in T
  <2>1. ~Redundant(value, n)
    BY <1>1 DEF Redundant
  <2> QED BY <1>1, <2>1
<1>3. PICK k \in T : \A m \in T : k <= m
  <2>1. T \in SUBSET Nat /\ T # {}
    BY <1>2
  <2> HIDE DEF T
  <2> QED BY <2>1, SmallestExists
<1>4. k \in DOMAIN value /\ Leads(k)
  <2>1. ASSUME NEW j \in 1 .. k - 1 PROVE Redundant(value, j)
    <3>1. j \in Nat /\ j \in 1 .. n /\ ~(k <= j)
      BY <1>1, <1>3
    <3> QED BY <1>3, <3>1
  <2> QED BY <1>1, <1>3, <2>1
<1>5. first \in DOMAIN value /\ Leads(first)
  <2> HIDE DEF Leads
  <2> QED BY <1>4
<1>6. Minimal(value) = SubSeq(value, first, n)
  BY DEF Minimal
<1> HIDE DEF first
<1>7. first \in 1 .. n
  BY <1>1, <1>5
<1>8. first # 1 => Redundant(value, 1)
  <2>1. first # 1 => 1 \in 1 .. first - 1
    BY <1>7
  <2> QED BY <1>5, <2>1
<1>9. first \notin {1, 2} => Redundant(value, 2)
  <2>1. first \notin {1, 2} => 2 \in 1 .. first - 1
    BY <1>7
  <2> QED BY <1>5, <2>1
<1>10. SubSeq(value, first, n) \in Seq(Octet) /\ Len(SubSeq(value, first, n)) = n - first + 1
  <2>1. first \in 1 .. Len(value) + 1 /\ n \in first - 1 .. Len(value)
    BY <1>1, <1>7
  <2> HIDE DEF n
  <2> QED BY <2>1, PartIs
<1>11. first = 1 => Minimal(value) = value
  <2>1. SubSeq(value, 1, n) = value
    OBVIOUS
  <2> QED BY <1>6, <2>1
<1>12. Minimal(value) = value => first = 1
  <2>1. Minimal(value) = value => n = n - first + 1
    BY <1>6, <1>10
  <2> QED BY <1>1, <1>7, <2>1
<1>13. ~Redundant(value, first)
  BY <1>5
<1>16. Minimal(value) \in Seq(Octet) /\ Len(Minimal(value)) <= n
  BY <1>1, <1>6, <1>7, <1>10
<1> HIDE DEF n, Leads, T
<1>14. ~Redundant(value, 1) => first = 1
  BY <1>8
<1>15. Redundant(value, 1) /\ ~Redundant(value, 2) => first = 2
  BY <1>9, <1>13
<1> QED BY <1>6, <1>11, <1>12, <1>13, <1>14, <1>15, <1>16 DEF n

\* A leading zero does not count.
LEMMA ValueOfZero ==
  ASSUME NEW s \in Seq(Octet)
  PROVE  ValueOf(<<0>> \o s) = ValueOf(s)
<1> DEFINE z == <<0>>
           H == { k \in Nat : \A u \in Seq(Octet) : Len(u) = k => ValueOf(z \o u) = ValueOf(u) }
<1>0. z \in Seq(Octet) /\ 0 \in Octet
  <2>1. 0 \in Octet
    BY OctetRange
  <2> QED BY <2>1, OneIs
<1>1. 0 \in H
  <2>h. SUFFICES ASSUME NEW u \in Seq(Octet), Len(u) = 0 PROVE ValueOf(z \o u) = ValueOf(u)
    OBVIOUS
  <2>1. u = <<>>
    BY <2>h, EmptySeq
  <2>2. z \o <<>> = Append(<<>>, 0)
    OBVIOUS
  <2>3. ValueOf(<<>>) = 0 /\ ValueOf(Append(<<>>, 0)) = 256 * ValueOf(<<>>) + 0
    <3>1. <<>> \in Seq(Octet)
      BY EmptySeq
    <3> QED BY <1>0, <3>1, ValueOfAppend
  <2>4. ValueOf(Append(<<>>, 0)) = 0
    BY <2>3
  <2> HIDE DEF z
  <2> QED BY <2>1, <2>2, <2>3, <2>4
<1>2. ASSUME NEW k \in Nat, k \in H PROVE k + 1 \in H
  <2>h. SUFFICES ASSUME NEW u \in Seq(Octet), Len(u) = k + 1 PROVE ValueOf(z \o u) = ValueOf(u)
    OBVIOUS
  <2>1. PICK v \in Seq(Octet), e \in Octet : u = Append(v, e) /\ Len(v) = k
    BY <2>h, FrontAndLast
  <2> HIDE DEF z
  <2>2. ValueOf(z \o v) = ValueOf(v)
    BY <1>2, <2>1
  <2>3. z \o Append(v, e) = Append(z \o v, e) /\ z \o v \in Seq(Octet)
    BY <1>0, ConcatAppend
  <2>4. ValueOf(Append(v, e)) = 256 * ValueOf(v) + e
    BY ValueOfAppend
  <2>5. ValueOf(Append(z \o v, e)) = 256 * ValueOf(z \o v) + e
    <3> DEFINE y == z \o v
    <3>1. y \in Seq(Octet)
      BY <2>3
    <3> HIDE DEF y
    <3>2. ValueOf(Append(y, e)) = 256 * ValueOf(y) + e
      BY <3>1, ValueOfAppend
    <3> QED BY <3>2 DEF y
  <2>6. ValueOf(z \o Append(v, e)) = ValueOf(Append(v, e))
    BY <2>2, <2>3, <2>4, <2>5
  <2> QED BY <2>1, <2>6
<1>3. \A k \in Nat : k \in H
  <2> HIDE DEF H
  <2> QED BY <1>1, <1>2, Induction
<1>4. Len(s) \in Nat
  OBVIOUS
<1> QED BY <1>3, <1>4

\* The octets of an INTEGER that is canonical are not redundant.
LEMMA IntegerIs ==
  ASSUME NEW content \in Seq(Octet), Len(content) < Pow2[32], content # <<>>,
         EncodeInteger(content) = EncodeTlv(TagInteger, content)
  PROVE  Minimal(content) = content /\ ~Redundant(content, 1)
<1>1. TagInteger \in Octet /\ TagInteger % 32 # 31
  BY DEF TagInteger, Octet
<1>2. Minimal(content) \in Seq(Octet) /\ Len(Minimal(content)) < Pow2[32]
  <2>1. Minimal(content) \in Seq(Octet) /\ Len(Minimal(content)) <= Len(content)
    BY MinimalIs
  <2>2. Len(content) \in Nat /\ Len(Minimal(content)) \in Nat /\ Pow2[32] \in Nat
    <3>1. Len(content) \in Nat /\ Len(Minimal(content)) \in Nat
      BY <2>1, LenProperties
    <3>2. Pow2[32] \in Nat
      BY Pow2Positive
    <3> QED BY <3>1, <3>2
  <2> QED BY <2>1, <2>2
<1>3. Minimal(content) = content
  <2> DEFINE m == Minimal(content)
  <2>1. m \in Seq(Octet) /\ Len(m) < Pow2[32] /\ EncodeTlv(TagInteger, m) = EncodeTlv(TagInteger, content)
    BY <1>2 DEF EncodeInteger
  <2> HIDE DEF m
  <2>2. Parsed(EncodeTlv(TagInteger, m), 0)
          = [tag |-> TagInteger, content |-> m, der |-> EncodeTlv(TagInteger, m), next |-> 0]
    BY <1>1, <2>1, EncodedIs
  <2>3. Parsed(EncodeTlv(TagInteger, content), 0)
          = [tag |-> TagInteger, content |-> content, der |-> EncodeTlv(TagInteger, content), next |-> 0]
    BY <1>1, EncodedIs
  <2>4. m = Parsed(EncodeTlv(TagInteger, m), 0).content
    BY <2>2
  <2>5. content = Parsed(EncodeTlv(TagInteger, content), 0).content
    BY <2>3
  <2> QED BY <2>1, <2>4, <2>5 DEF m
<1> QED BY <1>3, MinimalIs

\* A value below a power of two of more octets.
LEMMA FewOctets ==
  ASSUME NEW s \in Seq(Octet), NEW u \in Nat, Len(s) <= u
  PROVE  ValueOf(s) \in Nat /\ ValueOf(s) < Pow2[8 * u]
<1> DEFINE a == 8 * Len(s)
           b == 8 * u
<1>1. a \in Nat /\ b \in Nat /\ a <= b
  OBVIOUS
<1>2. ValueOf(s) \in Nat /\ ValueOf(s) < Pow2[a]
  BY ValueOfBounds
<1> HIDE DEF a, b
<1>3. Pow2[a] <= Pow2[b] /\ Pow2[a] \in Nat /\ Pow2[b] \in Nat
  BY <1>1, Pow2Monotone, Pow2Positive
<1> QED BY <1>2, <1>3 DEF b

\* The serial number of a certificate is a positive uint64 and its octets are the
\* only ones of an INTEGER with this value.
LEMMA IndexIs ==
  ASSUME NEW content \in Seq(Octet), content # <<>>, ~Redundant(content, 1), IsIndex(content)
  PROVE  /\ ValueOf(content) \in 1 .. MaxUint
         /\ Minimal(<<0>> \o BigEndian(ValueOf(content))) = content
<1> DEFINE u == UintOctets
           n == Len(content)
           N == ValueOf(content)
<1>0. /\ u \in Nat /\ n \in Nat /\ n # 0 /\ N \in Nat /\ Pow2[8 * u] \in Nat
      /\ MaxUint = Pow2[8 * u] - 1
  <2>1. 8 * u \in Nat
    BY WidthsArePositive
  <2> QED BY <2>1, EmptySeq, WidthsArePositive, ValueOfBounds, Pow2Positive DEF MaxUint
<1>n. n \in Nat /\ n # 0
  BY <1>0
<1>1. content[1] < 128 /\ content # <<0>> /\ (n <= u \/ (n = u + 1 /\ content[1] = 0))
  BY DEF IsIndex
<1>2. content[1] \in Octet /\ content[1] \in Nat
  <2>1. 1 \in 1 .. n
    BY <1>0
  <2> QED BY <2>1, OctetIs
<1>3. CASE content[1] # 0
  <2>1. BigEndian(N) = content /\ N \in Nat \ {0}
    BY <1>0, <1>3, BigEndianOfValue
  <2>2. n <= u
    BY <1>1, <1>3
  <2>3. N < Pow2[8 * u]
    BY <1>0, <2>2, FewOctets
  <2>4. N \in 1 .. MaxUint
    <3> HIDE DEF N
    <3> QED BY <1>0, <2>1, <2>3
  <2> DEFINE z == <<0>> \o content
  <2>5. /\ z \in Seq(Octet) /\ Len(z) = 1 + n /\ z[1] = 0 /\ \A j \in 1 .. n : z[1 + j] = content[j]
        /\ SubSeq(z, 2, 1 + n) = content
    <3>1. 0 \in Octet
      BY OctetRange
    <3> QED BY <3>1, ConsElements
  <2> HIDE DEF z
  <2>6. Redundant(z, 1)
    <3>1. 1 \in 1 .. n /\ 1 + 1 = 2 /\ 1 < 1 + n
      BY <1>0
    <3>2. z[1 + 1] = content[1]
      BY <2>5, <3>1
    <3> QED BY <1>1, <2>5, <3>1, <3>2 DEF Redundant
  <2>7. ~Redundant(z, 2)
    <3>1. n >= 2 => z[3] = content[2]
      <4>1. n >= 2 => 2 \in 1 .. n
        BY <1>0
      <4>2. 1 + 2 = 3
        OBVIOUS
      <4> QED BY <2>5, <4>1, <4>2
    <3>2. z[2] = content[1]
      <4>1. 1 \in 1 .. n /\ 1 + 1 = 2
        BY <1>0
      <4> QED BY <2>5, <4>1
    <3>3. z[2] # 0 /\ z[2] # 255
      BY <1>1, <1>2, <1>3, <3>2
    <3> QED BY <3>3 DEF Redundant
  <2>8. z # <<>>
    BY <1>0, <2>5, EmptySeq
  <2>9. Minimal(z) = SubSeq(z, 2, Len(z))
    BY <2>5, <2>6, <2>7, <2>8, MinimalIs
  <2> QED BY <2>1, <2>4, <2>5, <2>9 DEF z
<1>4. CASE content[1] = 0
  <2> DEFINE r == SubSeq(content, 2, n)
  <2>1. /\ r \in Seq(Octet) /\ Len(r) = n - 1 /\ content = <<content[1]>> \o r
        /\ \A k \in 1 .. n - 1 : r[k] = content[k + 1]
    BY FirstAndRest
  <2> HIDE DEF r
  <2>2. n # 1
    <3>1. n = 1 => content = <<content[1]>>
      OBVIOUS
    <3> QED BY <1>1, <1>4, <3>1
  <2>3. r[1] = content[2] /\ content[2] \in Octet /\ content[2] \in Nat
    <3>1. 1 \in 1 .. n - 1 /\ 2 \in 1 .. n /\ 1 + 1 = 2
      <4> HIDE DEF n
      <4> QED BY <1>n, <2>2
    <3> QED BY <2>1, <3>1, OctetIs
  <2>4. content[2] >= 128
    <3>1. 1 < n /\ 1 + 1 = 2
      <4> HIDE DEF n
      <4> QED BY <1>n, <2>2
    <3>2. ~(content[1 + 1] < 128)
      BY <1>4, <3>1 DEF Redundant
    <3> QED BY <2>3, <3>1, <3>2
  <2>5. content = <<0>> \o r
    BY <1>4, <2>1
  <2>6. ValueOf(<<0>> \o r) = ValueOf(r)
    BY <2>1, ValueOfZero
  <2>7. N = ValueOf(r)
    BY <2>5, <2>6
  <2>8. BigEndian(N) = r /\ N \in Nat \ {0}
    <3>1. Len(r) # 0 /\ r[1] # 0
      BY <1>0, <2>1, <2>2, <2>3, <2>4
    <3>2. BigEndian(ValueOf(r)) = r /\ ValueOf(r) \in Nat \ {0}
      BY <2>1, <3>1, BigEndianOfValue
    <3> HIDE DEF N
    <3> QED BY <2>7, <3>2
  <2>9. Len(r) <= u
    BY <1>0, <1>1, <2>1
  <2>10. N < Pow2[8 * u]
    <3>1. ValueOf(r) < Pow2[8 * u]
      BY <1>0, <2>1, <2>9, FewOctets
    <3> HIDE DEF N
    <3> QED BY <2>7, <3>1
  <2>11. N \in 1 .. MaxUint
    <3> HIDE DEF N
    <3> QED BY <1>0, <2>8, <2>10
  <2>12. Minimal(content) = content
    BY MinimalIs
  <2> QED BY <2>5, <2>8, <2>11, <2>12
<1> QED BY <1>3, <1>4

\* A stored entry is the entry that was encoded.
LEMMA EntryRoundTrip ==
  ASSUME NEW data \in Seq(Octet)
  PROVE  DecodeEntry(EncodeEntry([type |-> TbsCertEntry, data |-> data])) = {[type |-> TbsCertEntry, data |-> data]}
<1> DEFINE e == [type |-> TbsCertEntry, data |-> data]
           u == Uint(1, 2)
           z == u \o data
           t == [value |-> SubSeq(z, 1, 2), next |-> 3]
<1>1. u \in Seq(Octet) /\ Len(u) = 2 /\ ValueOf(u) = 1
  <2>1. 1 \in Nat /\ 2 \in Nat /\ 1 < Pow2[8 * 2]
    <3>1. Pow2[8 * (0 + 1)] = 256 * Pow2[8 * 0] /\ Pow2[8 * (1 + 1)] = 256 * Pow2[8 * 1] /\ Pow2[8 * 0] = 1
      <4>1. 0 \in Nat /\ 1 \in Nat
        OBVIOUS
      <4> QED BY <4>1, Pow2Octet
    <3> QED BY <3>1
  <2> QED BY <2>1, UintIs
<1>2. EncodeEntry(e) = z
  BY DEF EncodeEntry, TbsCertEntry
<1> HIDE DEF u
<1>3. z \in Seq(Octet) /\ Len(z) = 2 + Len(data) /\ SubSeq(z, 1, 2) = u /\ SubSeq(z, 3, Len(z)) = data
  <2>1. /\ z \in Seq(Octet) /\ Len(z) = Len(u) + Len(data) /\ SubSeq(z, 1, Len(u)) = u
        /\ SubSeq(z, Len(u) + 1, Len(u) + Len(data)) = data
    <3>1. u \in Seq(Octet)
      BY <1>1
    <3> QED BY <3>1, ConcatParts
  <2>2. Len(u) + 1 = 3 /\ Len(u) = 2 /\ Len(u) + Len(data) = Len(z)
    BY <1>1, <2>1
  <2> HIDE DEF z
  <2> QED BY <2>1, <2>2
<1> HIDE DEF z
<1>4. Read(z, 1, 2) = {t}
  <2>1. ~(1 + 2 - 1 > Len(z))
    BY <1>3
  <2>2. 1 + 2 - 1 = 2 /\ 1 + 2 = 3
    OBVIOUS
  <2> QED BY <2>1, <2>2 DEF Read
<1>5. t.value = u
  BY <1>3
<1> HIDE DEF t
<1> DEFINE types == {[value |-> ValueOf(x.value)] : x \in Read(z, 1, 2)}
<1>6. types = {[value |-> 1]}
  BY <1>1, <1>4, <1>5
<1> HIDE DEF types
<1>7. {[type |-> type.value, data |-> SubSeq(z, 3, Len(z))] : type \in types} = {e}
  <2> DEFINE w == SubSeq(z, 3, Len(z))
  <2>1. w = data
    BY <1>3
  <2> HIDE DEF w
  <2>2. {[type |-> type.value, data |-> w] : type \in {[value |-> 1]}} = {[type |-> 1, data |-> w]}
    OBVIOUS
  <2> QED BY <1>6, <2>1, <2>2 DEF TbsCertEntry, w
<1>8. e.type # NullEntry
  BY DEF TbsCertEntry, NullEntry
<1>9. DecodeEntry(z) = {y \in {[type |-> type.value, data |-> SubSeq(z, 3, Len(z))] : type \in types} :
                          y.type = NullEntry => y.data = <<>>}
  BY DEF DecodeEntry, types
<1> HIDE DEF e
<1>10. DecodeEntry(z) = {e}
  BY <1>7, <1>8, <1>9
<1> QED BY <1>2, <1>10 DEF e

\* An OCTET STRING is canonical.
LEMMA OctetStringIs ==
  ASSUME NEW h \in Seq(Octet), Len(h) < Pow2[32]
  PROVE  /\ EncodeTlv(TagOctetString, h) \in Seq(Octet)
         /\ IsTlv(EncodeTlv(TagOctetString, h))
         /\ CanonicalAt[<<EncodeTlv(TagOctetString, h), 1>>]
         /\ Len(EncodeTlv(TagOctetString, h)) <= Len(h) + 6
         /\ \A next : Parsed(EncodeTlv(TagOctetString, h), next).tag = TagOctetString
                      /\ Parsed(EncodeTlv(TagOctetString, h), next).content = h
<1> DEFINE d == EncodeTlv(TagOctetString, h)
           n == Len(d) + 1
           t == Parsed(d, n)
<1>1. TagOctetString \in Octet /\ TagOctetString % 32 # 31 /\ (TagOctetString \div 32) % 2 = 0
      /\ TagOctetString \notin {TagInteger, TagBoolean, TagNull, TagOid, TagBitString}
  BY DEF TagOctetString, Octet, TagInteger, TagBoolean, TagNull, TagOid, TagBitString
<1>2. IsTlv(d) /\ Len(d) <= Len(h) + 6
      /\ \A next : Parsed(d, next) = [tag |-> TagOctetString, content |-> h, der |-> d, next |-> next]
  BY <1>1, EncodedIs
<1> HIDE DEF d, n
<1>3. t.tag = TagOctetString /\ t.content = h /\ t.der = d
  BY <1>2
<1>4. d \in Seq(Octet)
  BY <1>2 DEF IsTlv
<1> HIDE DEF t
<1>5. PrimitiveIsCanonical(t)
  BY <1>1, <1>3 DEF PrimitiveIsCanonical
<1>6. MembersAreCanonical(t, 1)
  BY <1>1, <1>3 DEF MembersAreCanonical
<1>7. EncodeTlv(t.tag, t.content) = d
  BY <1>3 DEF d
<1>8. CanonicalAs(d, 1, t)
  BY <1>5, <1>6, <1>7 DEF CanonicalAs
<1>9. CanonicalAt[<<d, 1>>]
  <2>1. 1 \in 0 .. MaxDepth
    BY DEF MaxDepth
  <2> QED BY <1>2, <1>4, <1>8, <2>1, CanonicalIs DEF t, n
<1> QED BY <1>2, <1>4, <1>9 DEF d

\* Equal octets read as the same value.
LEMMA SameValue ==
  ASSUME NEW a, NEW b, WasParsed(a), WasParsed(b)
  PROVE  a.der = b.der => a.tag = b.tag /\ a.content = b.content
<1>1. a = Parsed(a.der, a.next) /\ b = Parsed(b.der, b.next)
  BY DEF WasParsed
<1>2. a.tag = a.der[1] /\ a.content = SubSeq(a.der, ContentAt(a.der), Len(a.der))
  <2> DEFINE d == a.der
             n == a.next
  <2> HIDE DEF d, n
  <2>1. a = Parsed(d, n)
    BY <1>1 DEF d, n
  <2> QED BY <2>1 DEF Parsed, d
<1>3. b.tag = b.der[1] /\ b.content = SubSeq(b.der, ContentAt(b.der), Len(b.der))
  <2> DEFINE d == b.der
             n == b.next
  <2> HIDE DEF d, n
  <2>1. b = Parsed(d, n)
    BY <1>1 DEF d, n
  <2> QED BY <2>1 DEF Parsed, d
<1> QED BY <1>2, <1>3

\* Consecutive fields are a part of all.
LEMMA DersArePart ==
  ASSUME NEW f \in Seq(TlvRecord), NEW i \in Nat \ {0}, NEW j \in Nat, i <= j + 1, j <= Len(f)
  PROVE  Ders(f, i, j) = SubSeq(DersOf(f), i, j)
<1> DEFINE a == Ders(f, i, j)
           s == DersOf(f)
           b == SubSeq(s, i, j)
           n == j - i + 1
<1>1. a \in Seq(Seq(Octet)) /\ Len(a) = n /\ \A k \in 1 .. n : a[k] = f[i + k - 1].der
  BY DersAre
<1>2. s \in Seq(Seq(Octet)) /\ Len(s) = Len(f) /\ \A k \in 1 .. Len(f) : s[k] = f[k].der
  BY DersType
<1>3. i \in 1 .. Len(f) + 1 /\ j \in i - 1 .. Len(f) /\ \A k \in 1 .. n : i + k - 1 \in 1 .. Len(f)
  OBVIOUS
<1>4. b \in Seq(Seq(Octet)) /\ Len(b) = n /\ \A k \in 1 .. n : b[k] = s[i + k - 1]
  <2>1. i \in 1 .. Len(s) + 1 /\ j \in i - 1 .. Len(s)
    BY <1>2, <1>3
  <2> HIDE DEF s
  <2> QED BY <1>2, <2>1, PartIs
<1> HIDE DEF a, b, s, n
<1>5. \A k \in 1 .. n : a[k] = b[k]
  BY <1>1, <1>2, <1>3, <1>4
<1> QED BY <1>1, <1>4, <1>5, SeqEqual DEF a, b, s

\* The octets of the parts add up.
LEMMA FlattenLength ==
  ASSUME NEW s \in Seq(Seq(Octet)), NEW t \in Seq(Seq(Octet))
  PROVE  /\ s \o t \in Seq(Seq(Octet))
         /\ Len(FlattenSeq(s \o t)) = Len(FlattenSeq(s)) + Len(FlattenSeq(t))
         /\ Len(FlattenSeq(s)) \in Nat /\ Len(FlattenSeq(t)) \in Nat
<1> DEFINE a == FlattenSeq(s)
           b == FlattenSeq(t)
<1>1. a \in Seq(Octet) /\ b \in Seq(Octet)
  BY FlattenType
<1>2. FlattenSeq(s \o t) = a \o b
  BY FlattenConcat
<1> HIDE DEF a, b
<1>3. Len(a \o b) = Len(a) + Len(b) /\ Len(a) \in Nat /\ Len(b) \in Nat
  BY <1>1, ConcatParts, LenProperties
<1>4. s \o t \in Seq(Seq(Octet))
  BY ConcatParts
<1> QED BY <1>2, <1>3, <1>4 DEF a, b

\* The entry of a certificate is not longer than the certificate and the item for
\* its key.
LEMMA EntryLength ==
  ASSUME NEW f \in Seq(TlvRecord), NEW o \in {0, 1}, Len(f) >= o + 6, NEW key \in Seq(Octet)
  PROVE  Len(FlattenSeq(((Ders(f, 1, o) \o Ders(f, o + 3, o + 5)) \o <<key>>) \o Ders(f, o + 7, Len(f))))
           <= Len(FlattenSeq(DersOf(f))) + Len(key)
<1> DEFINE s == DersOf(f)
           n == Len(f)
           a == SubSeq(s, 1, o)
           x == SubSeq(s, o + 1, o + 2)
           b == SubSeq(s, o + 3, o + 5)
           y == SubSeq(s, o + 6, o + 6)
           d == SubSeq(s, o + 7, n)
           c == <<key>>
<1>0. s \in Seq(Seq(Octet)) /\ Len(s) = n /\ n \in Nat /\ n >= o + 6
  BY DersType
<1>1. /\ Ders(f, 1, o) = a /\ Ders(f, o + 3, o + 5) = b /\ Ders(f, o + 7, n) = d
  <2>1. Ders(f, 1, o) = a
    <3>1. 1 \in Nat \ {0} /\ o \in Nat /\ 1 <= o + 1 /\ o <= Len(f)
      OBVIOUS
    <3> QED BY <3>1, DersArePart
  <2>2. Ders(f, o + 3, o + 5) = b
    <3> DEFINE i == o + 3
               j == o + 5
    <3>1. i \in Nat \ {0} /\ j \in Nat /\ i <= j + 1 /\ j <= Len(f)
      OBVIOUS
    <3> HIDE DEF i, j
    <3>2. Ders(f, i, j) = SubSeq(DersOf(f), i, j)
      BY <3>1, DersArePart
    <3> QED BY <3>2 DEF i, j
  <2>3. Ders(f, o + 7, n) = d
    <3> DEFINE i == o + 7
    <3>1. i \in Nat \ {0} /\ n \in Nat /\ i <= n + 1 /\ n <= Len(f)
      OBVIOUS
    <3> HIDE DEF i, n
    <3>2. Ders(f, i, n) = SubSeq(DersOf(f), i, n)
      BY <3>1, DersArePart
    <3> QED BY <3>2 DEF i
  <2> QED BY <2>1, <2>2, <2>3
<1> HIDE DEF s, n
<1>2. ASSUME NEW i \in Nat, NEW j \in Nat, i <= j, j <= n
      PROVE  SubSeq(s, 1, j) = SubSeq(s, 1, i) \o SubSeq(s, i + 1, j) /\ SubSeq(s, i + 1, j) \in Seq(Seq(Octet))
             /\ SubSeq(s, 1, i) \in Seq(Seq(Octet))
  <2>1. /\ 1 \in 1 .. Len(s) + 1 /\ i \in 1 - 1 .. Len(s) /\ j \in i .. Len(s)
        /\ i + 1 \in 1 .. Len(s) + 1 /\ j \in (i + 1) - 1 .. Len(s)
    BY <1>0, <1>2
  <2>2. SubSeq(s, 1, j) = SubSeq(s, 1, i) \o SubSeq(s, i + 1, j)
    BY <1>0, <2>1, PartCut
  <2>3. SubSeq(s, i + 1, j) \in Seq(Seq(Octet))
    BY <1>0, <2>1, PartIs
  <2>4. SubSeq(s, 1, i) \in Seq(Seq(Octet))
    BY <1>0, <2>1, PartIs
  <2> QED BY <2>2, <2>3, <2>4
<1> DEFINE F(i, j) == Len(FlattenSeq(SubSeq(s, i, j)))
<1>3. ASSUME NEW i \in Nat, NEW j \in Nat, i <= j, j <= n
      PROVE  F(1, j) = F(1, i) + F(i + 1, j) /\ F(i + 1, j) \in Nat /\ F(1, i) \in Nat
  <2> DEFINE p == SubSeq(s, 1, i)
             q == SubSeq(s, i + 1, j)
  <2>1. SubSeq(s, 1, j) = p \o q /\ p \in Seq(Seq(Octet)) /\ q \in Seq(Seq(Octet))
    BY <1>2, <1>3
  <2> HIDE DEF p, q
  <2>2. /\ Len(FlattenSeq(p \o q)) = Len(FlattenSeq(p)) + Len(FlattenSeq(q))
        /\ Len(FlattenSeq(p)) \in Nat /\ Len(FlattenSeq(q)) \in Nat
    BY <2>1, FlattenLength
  <2> QED BY <2>1, <2>2 DEF p, q
<1>4. Len(FlattenSeq(s)) >= F(1, o) + F(o + 3, o + 5) + F(o + 7, n)
      /\ F(1, o) \in Nat /\ F(o + 3, o + 5) \in Nat /\ F(o + 7, n) \in Nat
  <2>1. SubSeq(s, 1, n) = s
    BY <1>0
  <2> HIDE DEF F
  <2>2. Len(FlattenSeq(s)) = F(1, n)
    BY <2>1 DEF F
  <2>3. F(1, n) = F(1, o + 6) + F(o + 7, n) /\ F(o + 7, n) \in Nat
    <3>1. o + 6 \in Nat /\ n \in Nat /\ o + 6 <= n /\ (o + 6) + 1 = o + 7
      BY <1>0
    <3>2. F(1, n) = F(1, o + 6) + F((o + 6) + 1, n) /\ F((o + 6) + 1, n) \in Nat
      <4> DEFINE i == o + 6
      <4>1. i \in Nat /\ n \in Nat /\ i <= n /\ n <= n
        BY <1>0, <3>1
      <4> HIDE DEF i
      <4>2. F(1, n) = F(1, i) + F(i + 1, n) /\ F(i + 1, n) \in Nat
        BY <1>3, <4>1
      <4> QED BY <4>2 DEF i
    <3> QED BY <3>1, <3>2
  <2>4. F(1, o + 6) = F(1, o + 5) + F(o + 6, o + 6) /\ F(o + 6, o + 6) \in Nat
    <3>1. o + 5 \in Nat /\ o + 6 \in Nat /\ o + 5 <= o + 6 /\ (o + 5) + 1 = o + 6 /\ o + 6 <= n
      BY <1>0
    <3>2. F(1, o + 6) = F(1, o + 5) + F((o + 5) + 1, o + 6) /\ F((o + 5) + 1, o + 6) \in Nat
      BY <1>3, <3>1
    <3> QED BY <3>1, <3>2
  <2>5. F(1, o + 5) = F(1, o + 2) + F(o + 3, o + 5) /\ F(o + 3, o + 5) \in Nat
    <3>1. o + 2 \in Nat /\ o + 5 \in Nat /\ o + 2 <= o + 5 /\ (o + 2) + 1 = o + 3 /\ o + 5 <= n
      BY <1>0
    <3>2. F(1, o + 5) = F(1, o + 2) + F((o + 2) + 1, o + 5) /\ F((o + 2) + 1, o + 5) \in Nat
      BY <1>3, <3>1
    <3> QED BY <3>1, <3>2
  <2>6. F(1, o + 2) = F(1, o) + F(o + 1, o + 2) /\ F(o + 1, o + 2) \in Nat /\ F(1, o) \in Nat
    <3>1. o \in Nat /\ o + 2 \in Nat /\ o <= o + 2 /\ o + 2 <= n
      BY <1>0
    <3> QED BY <1>3, <3>1
  <2>7. F(1, o + 2) \in Nat /\ F(1, o + 2) >= F(1, o)
    <3> DEFINE v == F(1, o + 2)
               w == F(1, o)
               z == F(o + 1, o + 2)
    <3>1. v = w + z /\ w \in Nat /\ z \in Nat
      BY <2>6
    <3> HIDE DEF v, w, z
    <3>2. v \in Nat /\ v >= w
      BY <3>1
    <3> QED BY <3>2 DEF v, w
  <2> DEFINE v == F(1, o + 2)
             w == F(1, o)
             x5 == F(1, o + 5)
             x6 == F(1, o + 6)
             g == F(o + 3, o + 5)
             h == F(o + 6, o + 6)
             k == F(o + 7, n)
             m == F(1, n)
  <2>8. /\ v \in Nat /\ w \in Nat /\ g \in Nat /\ h \in Nat /\ k \in Nat /\ v >= w
        /\ x5 = v + g /\ x6 = x5 + h /\ m = x6 + k
    BY <2>3, <2>4, <2>5, <2>6, <2>7
  <2> HIDE DEF v, w, x5, x6, g, h, k, m
  <2>9. m >= w + g + k
    BY <2>8
  <2> QED BY <2>2, <2>8, <2>9 DEF w, g, k, m
<1>5. a \in Seq(Seq(Octet)) /\ b \in Seq(Seq(Octet)) /\ d \in Seq(Seq(Octet))
  <2>1. a \in Seq(Seq(Octet))
    <3>1. o \in Nat /\ o <= o /\ o <= n
      BY <1>0
    <3> QED BY <1>2, <3>1
  <2>2. b \in Seq(Seq(Octet))
    <3>1. o + 2 \in Nat /\ o + 5 \in Nat /\ o + 2 <= o + 5 /\ (o + 2) + 1 = o + 3 /\ o + 5 <= n
      BY <1>0
    <3>2. SubSeq(s, (o + 2) + 1, o + 5) \in Seq(Seq(Octet))
      BY <1>2, <3>1
    <3> QED BY <3>1, <3>2
  <2>3. d \in Seq(Seq(Octet))
    <3>1. o + 6 \in Nat /\ n \in Nat /\ o + 6 <= n /\ (o + 6) + 1 = o + 7 /\ n <= n
      BY <1>0
    <3>2. SubSeq(s, (o + 6) + 1, n) \in Seq(Seq(Octet))
      BY <1>2, <3>1
    <3> QED BY <3>1, <3>2
  <2> QED BY <2>1, <2>2, <2>3
<1>6. c \in Seq(Seq(Octet)) /\ FlattenSeq(c) = key
  BY FlattenOne
<1>7. Len(FlattenSeq(a)) = F(1, o) /\ Len(FlattenSeq(b)) = F(o + 3, o + 5) /\ Len(FlattenSeq(d)) = F(o + 7, n)
  OBVIOUS
<1> HIDE DEF a, b, d, c, F
<1>8. Len(FlattenSeq(((a \o b) \o c) \o d)) = Len(FlattenSeq(a)) + Len(FlattenSeq(b)) + Len(key) + Len(FlattenSeq(d))
  <2> DEFINE p == a \o b
             q == p \o c
  <2>1. p \in Seq(Seq(Octet)) /\ Len(FlattenSeq(p)) = Len(FlattenSeq(a)) + Len(FlattenSeq(b))
    BY <1>5, FlattenLength
  <2> HIDE DEF p
  <2>2. q \in Seq(Seq(Octet)) /\ Len(FlattenSeq(q)) = Len(FlattenSeq(p)) + Len(FlattenSeq(c))
    BY <1>6, <2>1, FlattenLength
  <2> HIDE DEF q
  <2>3. Len(FlattenSeq(q \o d)) = Len(FlattenSeq(q)) + Len(FlattenSeq(d))
    BY <1>5, <2>2, FlattenLength
  <2>4. q \o d = ((a \o b) \o c) \o d
    BY DEF q, p
  <2> QED BY <1>6, <2>1, <2>2, <2>3, <2>4
<1>9. Len(key) \in Nat
  OBVIOUS
<1>10. Len(FlattenSeq(((a \o b) \o c) \o d)) <= Len(FlattenSeq(s)) + Len(key)
  <2>1. Len(FlattenSeq(s)) \in Nat
    BY <1>0, FlattenType, LenProperties
  <2> QED BY <1>4, <1>7, <1>8, <1>9, <2>1
<1> QED BY <1>1, <1>10 DEF s, n, c

\* The same value, wherever it was read.
Same(a, b) == a.der = b.der /\ a.tag = b.tag /\ a.content = b.content

\* The fields of the entry of a certificate with the fields f.
EntryFields(v, f, o, hash) ==
  /\ v \in Seq(TlvRecord) /\ Len(v) = Len(f) - 2
  /\ \A j \in 1 .. o : Same(v[j], f[j])
  /\ \A j \in o + 1 .. o + 3 : Same(v[j], f[j + 2])
  /\ v[o + 4].tag = TagOctetString /\ v[o + 4].content = hash
  /\ \A j \in o + 5 .. Len(f) - 2 : Same(v[j], f[j + 2])

\* The fields that are read back from an entry are those its items encode.
LEMMA EntryFieldsAre ==
  ASSUME NEW f \in Seq(TlvRecord), \A k \in 1 .. Len(f) : WasParsed(f[k]),
         NEW o \in {0, 1}, Len(f) >= o + 6,
         NEW hash \in Seq(Octet), Len(hash) < Pow2[32],
         NEW v \in Seq(TlvRecord), \A k \in 1 .. Len(v) : WasParsed(v[k]),
         EntryItems(DersOf(v), f, o, EncodeTlv(TagOctetString, hash))
  PROVE  EntryFields(v, f, o, hash)
<1> DEFINE n == Len(f)
           items == DersOf(v)
           key == EncodeTlv(TagOctetString, hash)
<1>1. /\ Len(items) = n - 2 /\ \A j \in 1 .. o : items[j] = f[j].der
      /\ \A j \in o + 1 .. o + 3 : items[j] = f[j + 2].der
      /\ items[o + 4] = key
      /\ \A j \in o + 5 .. n - 2 : items[j] = f[j + 2].der
  BY DEF EntryItems
<1>2. Len(items) = Len(v) /\ \A k \in 1 .. Len(v) : items[k] = v[k].der
  BY DersType
<1>3. Len(v) = n - 2 /\ n \in Nat /\ n >= o + 6
  BY <1>1, <1>2
<1> HIDE DEF items, n
<1>4. ASSUME NEW j \in 1 .. Len(v), NEW k \in 1 .. n, items[j] = f[k].der PROVE Same(v[j], f[k])
  <2>1. v[j].der = f[k].der
    BY <1>2, <1>4
  <2>2. WasParsed(v[j]) /\ WasParsed(f[k])
    BY DEF n
  <2> QED BY <2>1, <2>2, SameValue DEF Same
<1>5. ASSUME NEW j \in 1 .. o PROVE Same(v[j], f[j])
  <2>1. j \in 1 .. Len(v) /\ j \in 1 .. n
    BY <1>3
  <2> QED BY <1>1, <1>4, <2>1
<1>6. ASSUME NEW j \in o + 1 .. o + 3 PROVE Same(v[j], f[j + 2])
  <2>1. j \in 1 .. Len(v) /\ j + 2 \in 1 .. n
    BY <1>3
  <2> QED BY <1>1, <1>4, <2>1
<1>7. ASSUME NEW j \in o + 5 .. n - 2 PROVE Same(v[j], f[j + 2])
  <2>1. j \in 1 .. Len(v) /\ j + 2 \in 1 .. n
    BY <1>3
  <2> QED BY <1>1, <1>4, <2>1
<1>8. v[o + 4].tag = TagOctetString /\ v[o + 4].content = hash
  <2> DEFINE p == o + 4
  <2>1. p \in 1 .. Len(v)
    BY <1>3
  <2>2. items[p] = key
    BY <1>1
  <2> HIDE DEF p, key
  <2>3. v[p].der = key /\ WasParsed(v[p])
    BY <1>2, <2>1, <2>2
  <2>4. v[p] = Parsed(v[p].der, v[p].next)
    BY <2>3 DEF WasParsed
  <2> DEFINE next == v[p].next
  <2>5. v[p] = Parsed(key, next)
    BY <2>3, <2>4
  <2> HIDE DEF next
  <2>6. Parsed(key, next).tag = TagOctetString /\ Parsed(key, next).content = hash
    BY OctetStringIs DEF key
  <2>7. v[p].tag = TagOctetString /\ v[p].content = hash
    BY <2>5, <2>6
  <2> QED BY <2>7 DEF p
<1> QED BY <1>3, <1>5, <1>6, <1>7, <1>8 DEF EntryFields, n

\* The entry of a certificate: values, and the members of a canonical SEQUENCE.
LEMMA EntryIsCanonical ==
  ASSUME NEW data \in Seq(Octet), NEW f, AreFields(f, data), NEW o \in {0, 1}, Len(f) >= o + 6,
         NEW hash \in Seq(Octet), Len(hash) < Pow2[32], Len(data) + Len(hash) + 6 < Pow2[32],
         NEW items, EntryItems(items, f, o, EncodeTlv(TagOctetString, hash)),
         Len(FlattenSeq(items)) <= Len(FlattenSeq(DersOf(f))) + Len(EncodeTlv(TagOctetString, hash))
  PROVE  CanonicalItems(items)
<1> DEFINE key == EncodeTlv(TagOctetString, hash)
           n == Len(f)
<1>1. f \in Seq(TlvRecord) /\ CanonicalItems(DersOf(f)) /\ data = EncodeSequence(DersOf(f))
  BY DEF AreFields
<1>2. key \in Seq(Octet) /\ IsTlv(key) /\ CanonicalAt[<<key, 1>>] /\ Len(key) <= Len(hash) + 6
  BY OctetStringIs
<1> HIDE DEF key
<1>3. /\ items \in Seq(Seq(Octet)) /\ Len(items) = n - 2 /\ \A j \in 1 .. o : items[j] = f[j].der
      /\ \A j \in o + 1 .. o + 3 : items[j] = f[j + 2].der
      /\ items[o + 4] = key
      /\ \A j \in o + 5 .. n - 2 : items[j] = f[j + 2].der
  BY DEF EntryItems, key
<1>4. \A k \in 1 .. n : IsTlv(f[k].der) /\ CanonicalAt[<<f[k].der, 1>>]
  BY FieldIs
<1>5. n \in Nat /\ n >= o + 6
  BY <1>1
<1> HIDE DEF n
<1>6. ASSUME NEW j \in 1 .. n - 2 PROVE items[j] = key \/ \E k \in 1 .. n : items[j] = f[k].der
  <2>1. CASE j \in 1 .. o
    <3>1. j \in 1 .. n
      BY <1>5
    <3> QED BY <1>3, <2>1, <3>1
  <2>2. CASE j = o + 4
    BY <1>3, <2>2
  <2>3. CASE j \notin 1 .. o /\ j # o + 4
    <3>1. j \in o + 1 .. o + 3 \/ j \in o + 5 .. n - 2
      BY <1>5, <2>3
    <3>2. items[j] = f[j + 2].der
      BY <1>3, <3>1
    <3>3. j + 2 \in 1 .. n
      BY <1>5
    <3> QED BY <3>2, <3>3
  <2> QED BY <2>1, <2>2, <2>3
<1>7. \A j \in 1 .. n - 2 : IsTlv(items[j]) /\ CanonicalAt[<<items[j], 1>>]
  BY <1>2, <1>4, <1>6
<1>8. Len(FlattenSeq(DersOf(f))) <= Len(data) /\ Len(FlattenSeq(DersOf(f))) \in Nat /\ Len(data) \in Nat
  <2> DEFINE c == FlattenSeq(DersOf(f))
  <2>1. DersOf(f) \in Seq(Seq(Octet)) /\ Len(c) < Pow2[32]
    BY <1>1 DEF CanonicalItems, Items
  <2>2. c \in Seq(Octet)
    BY <2>1, FlattenType
  <2>3. data = EncodeTlv(TagSequence, c)
    BY <1>1 DEF EncodeSequence
  <2> HIDE DEF c
  <2>4. Len(c) <= Len(EncodeTlv(TagSequence, c))
    BY <2>1, <2>2, TagsDiffer, EncodedIs
  <2>5. Len(c) \in Nat /\ Len(data) \in Nat
    BY <2>2, LenProperties
  <2> QED BY <2>3, <2>4, <2>5 DEF c
<1>9. Len(FlattenSeq(items)) < Pow2[32]
  <2>1. FlattenSeq(items) \in Seq(Octet)
    BY <1>3, FlattenType
  <2> DEFINE w == Len(FlattenSeq(items))
             x == Len(FlattenSeq(DersOf(f)))
             y == Len(key)
             z == Len(hash)
             d == Len(data)
             p == Pow2[32]
  <2>2. w \in Nat /\ x \in Nat /\ y \in Nat /\ z \in Nat /\ d \in Nat /\ p \in Nat
    BY <1>2, <1>8, <2>1, LenProperties, Pow2Positive
  <2>3. w <= x + y /\ x <= d /\ y <= z + 6 /\ d + z + 6 < p
    BY <1>2, <1>8 DEF key
  <2> HIDE DEF w, x, y, z, d, p
  <2>4. w < p
    BY <2>2, <2>3
  <2> QED BY <2>4 DEF w, p
<1> QED BY <1>3, <1>7, <1>9 DEF CanonicalItems, Items

\* An extension that the strict check accepts can be parsed.
LEMMA ExtensionIs ==
  ASSUME NEW data \in Seq(Octet), ValidExtension(data)
  PROVE  IsExtension(data)
<1>1. PICK f \in Fields(data) :
        /\ Len(f) \in 2 .. 3
        /\ f[1].tag = TagOid
        /\ Len(f) = 3 => f[2].der = EncodeTrue
        /\ f[Len(f)].tag = TagOctetString
  BY DEF ValidExtension
<1>2. AreFields(f, data)
  BY FieldsAre
<1>3. PICK t \in WholeTlv(data, TagSequence) : f \in IterSequence(t.content)
  BY DEF Fields
<1>4. DecodeOid(f[1].content) # {}
  <2> DEFINE k == 1
  <2>1. k \in 1 .. Len(f)
    BY <1>1
  <2> HIDE DEF k
  <2>2. PrimitiveIsCanonical(f[k])
    BY <1>2, <2>1, FieldIs
  <2>3. f[k].tag = TagOid
    BY <1>1 DEF k
  <2>4. DecodeOid(f[k].content) # {}
    BY <2>2, <2>3 DEF PrimitiveIsCanonical
  <2> QED BY <2>4 DEF k
<1>5. CASE Len(f) = 2
  <2>1. f[2].tag = TagOctetString /\ Len(f) >= 2
    BY <1>1, <1>5
  <2> QED BY <1>3, <1>4, <2>1 DEF IsExtension
<1>6. CASE Len(f) = 3
  <2>1. f[3].tag = TagOctetString /\ f[2].der = EncodeTrue /\ Len(f) >= 2 /\ Len(f) >= 3
    BY <1>1, <1>6
  <2>2. f[2].tag = TagBoolean /\ f[2].content = <<255>>
    <3> DEFINE k == 2
    <3>1. k \in 1 .. Len(f)
      BY <1>6
    <3> HIDE DEF k
    <3>2. WasParsed(f[k]) /\ f[k].der = EncodeTrue
      BY <1>2, <2>1, <3>1 DEF AreFields, k
    <3> DEFINE next == f[k].next
    <3>3. f[k] = Parsed(EncodeTrue, next)
      BY <3>2 DEF WasParsed
    <3> HIDE DEF next
    <3>4. Parsed(EncodeTlv(TagBoolean, <<255>>), next)
            = [tag |-> TagBoolean, content |-> <<255>>, der |-> EncodeTlv(TagBoolean, <<255>>), next |-> next]
      <4> DEFINE s == <<255>>
      <4>1. s \in Seq(Octet) /\ Len(s) = 1
        <5>1. 255 \in Octet
          BY OctetRange
        <5> QED BY <5>1, OneIs
      <4>2. Len(s) < Pow2[32]
        <5>1. 32 < Pow2[32] /\ Pow2[32] \in Nat
          BY Pow2Exceeds, Pow2Positive
        <5> QED BY <4>1, <5>1
      <4>3. TagBoolean \in Octet /\ TagBoolean % 32 # 31
        BY DEF TagBoolean, Octet
      <4> HIDE DEF s
      <4>4. Parsed(EncodeTlv(TagBoolean, s), next)
              = [tag |-> TagBoolean, content |-> s, der |-> EncodeTlv(TagBoolean, s), next |-> next]
        BY <4>1, <4>2, <4>3, EncodedIs
      <4> QED BY <4>4 DEF s
    <3>5. f[k].tag = TagBoolean /\ f[k].content = <<255>>
      BY <3>3, <3>4 DEF EncodeTrue
    <3> QED BY <3>5 DEF k
  <2>3. Len(f[2].content) = 1
    BY <2>2
  <2> QED BY <1>3, <1>4, <2>1, <2>2, <2>3 DEF IsExtension
<1> QED BY <1>1, <1>5, <1>6

\* The one value that a content is.
LEMMA InnerIs ==
  ASSUME NEW content \in Seq(Octet), NEW tag, NEW u \in WholeTlv(content, tag)
  PROVE  \E i \in IterSequence(content) :
           /\ Len(i) = 1 /\ WasParsed(i[1]) /\ Same(i[1], u) /\ u.tag = tag /\ i[1].der = content
           /\ IterSequence(content) = {i}
<1>1. u \in ReadTlv(content, 1) /\ u.tag = tag /\ u.next = Len(content) + 1
  BY DEF WholeTlv
<1>2. WasParsed(u) /\ 1 \in 1 .. Len(content)
  BY <1>1, ReadTypes
<1>3. u = Parsed(SubSeq(content, 1, u.next - 1), u.next)
  BY <1>1, <1>2, ReadTlvIs
<1>4. u.der = content /\ IsTlv(content)
  <2>1. SubSeq(content, 1, u.next - 1) = content
    <3>1. (Len(content) + 1) - 1 = Len(content) /\ SubSeq(content, 1, Len(content)) = content
      OBVIOUS
    <3> QED BY <1>1, <3>1
  <2> DEFINE next == u.next
  <2>2. u = Parsed(content, next)
    BY <1>3, <2>1
  <2> HIDE DEF next
  <2>3. u.der = content
    BY <2>2 DEF Parsed
  <2> QED BY <1>2, <2>3 DEF WasParsed
<1>5. Items(<<content>>) /\ FlattenSeq(<<content>>) = content
  <2>1. FlattenSeq(<<content>>) = content /\ <<content>> \in Seq(Seq(Octet))
    BY FlattenOne
  <2>2. Len(<<content>>) = 1 /\ <<content>>[1] = content
    OBVIOUS
  <2>3. \A k \in 1 .. Len(<<content>>) : IsTlv(<<content>>[k])
    BY <1>4, <2>2
  <2> QED BY <2>1, <2>3 DEF Items
<1>6. PICK i \in Seq(TlvRecord) : IterSequence(content) = {i} /\ DersOf(i) = <<content>>
  BY <1>5, IterSequenceIs
<1>7. Len(i) = 1 /\ i[1].der = content
  <2>1. Len(DersOf(i)) = Len(i) /\ \A k \in 1 .. Len(i) : DersOf(i)[k] = i[k].der
    BY <1>6, DersType
  <2>2. Len(<<content>>) = 1 /\ <<content>>[1] = content
    OBVIOUS
  <2>3. Len(i) = 1
    BY <1>6, <2>1, <2>2
  <2>4. DersOf(i)[1] = i[1].der
    BY <2>1, <2>3
  <2> QED BY <1>6, <2>2, <2>3, <2>4
<1>8. WasParsed(i[1])
  <2>1. i \in IterSequence(content)
    BY <1>6
  <2>2. ListsContent(i, content)
    BY <2>1, IterSequenceIs
  <2> QED BY <1>7, <2>2 DEF ListsContent
<1>9. Same(i[1], u)
  BY <1>2, <1>4, <1>7, <1>8, SameValue DEF Same
<1> QED BY <1>1, <1>6, <1>7, <1>8, <1>9

\* The optional fields that the strict check accepts can be parsed.
LEMMA OptionalIs ==
  ASSUME NEW t \in TlvRecord, Order(t.tag) # 0,
         IF t.tag = Explicit(3) THEN ValidExtensions(t) ELSE Bits(t.content) # {}
  PROVE  IsOptionalField(t)
<1>1. t.tag \in {Implicit(1), Implicit(2), Explicit(3)}
  BY DEF Order
<1>2. CASE t.tag # Explicit(3)
  <2>1. DecodeBitString(t.content) # {}
    BY <1>2 DEF Bits
  <2> QED BY <1>1, <1>2, <2>1 DEF IsOptionalField
<1>3. CASE t.tag = Explicit(3)
  <2> DEFINE c == t.content
  <2>0. c \in Seq(Octet)
    BY TlvTypes
  <2>1. PICK f \in Fields(c) : f # <<>> /\ \A k \in DOMAIN f : ValidExtension(f[k].der)
    BY <1>3 DEF ValidExtensions
  <2> HIDE DEF c
  <2>2. AreFields(f, c)
    BY <2>0, <2>1, FieldsAre
  <2>3. PICK u \in WholeTlv(c, TagSequence) : f \in IterSequence(u.content)
    BY <2>1 DEF Fields
  <2>4. PICK i \in IterSequence(c) : Len(i) = 1 /\ Same(i[1], u) /\ u.tag = TagSequence
    BY <2>0, InnerIs
  <2>5. i[1].tag = TagSequence /\ f \in IterSequence(i[1].content)
    BY <2>3, <2>4 DEF Same
  <2> DEFINE e == [k \in DOMAIN f |-> f[k].der]
  <2>6. e \in ExtensionsOf(t)
    BY <2>4, <2>5 DEF ExtensionsOf, c
  <2>7. \A k \in DOMAIN f : f[k].der \in Seq(Octet)
    <3>1. f \in Seq(TlvRecord)
      BY <2>2 DEF AreFields
    <3> QED BY <3>1, ElementOfSeq, TlvTypes
  <2>8. \A k \in DOMAIN e : IsExtension(e[k])
    <3>1. \A k \in DOMAIN f : IsExtension(f[k].der)
      BY <2>1, <2>7, ExtensionIs
    <3> QED BY <3>1
  <2> HIDE DEF e
  <2> QED BY <1>3, <2>6, <2>8 DEF IsOptionalField
<1> QED BY <1>2, <1>3

\* The fields of a TBS certificate that was accepted.
Accepted(f, o, version, data) ==
  /\ AreFields(f, data)
  /\ o = Offset(f) /\ o \in {0, 1}
  /\ version \in IF HasVersion(f) THEN ExplicitVersions(f[1]) ELSE {V1}
  /\ IsTbs(f, version)
  /\ Len(f) >= o + 6

\* Its optional fields.
LEMMA OptionalFieldsAre ==
  ASSUME NEW f, NEW o, NEW version, NEW data, Accepted(f, o, version, data)
  PROVE  \A k \in o + 7 .. Len(f) :
           /\ Order(f[k].tag) # 0
           /\ f[k].tag = Explicit(3) => version = V3 /\ ValidExtensions(f[k])
           /\ f[k].tag # Explicit(3) => Bits(f[k].content) # {}
<1> DEFINE s == SubSeq(f, o + 7, Len(f))
<1>1. f \in Seq(TlvRecord) /\ o \in {0, 1} /\ Len(f) \in Nat /\ Len(f) >= o + 6
  BY DEF Accepted, AreFields
<1>2. ValidOptionalFields(s, version)
  BY DEF Accepted, IsTbs
<1>3. /\ s \in Seq(TlvRecord) /\ Len(s) = Len(f) - (o + 7) + 1
      /\ \A j \in 1 .. Len(f) - (o + 7) + 1 : s[j] = f[(o + 7) + j - 1]
  <2> DEFINE i == o + 7
  <2>1. i \in 1 .. Len(f) + 1 /\ Len(f) \in i - 1 .. Len(f)
    BY <1>1
  <2> HIDE DEF i
  <2>2. SubSeq(f, i, Len(f)) \in Seq(TlvRecord) /\ Len(SubSeq(f, i, Len(f))) = Len(f) - i + 1
        /\ \A j \in 1 .. Len(f) - i + 1 : SubSeq(f, i, Len(f))[j] = f[i + j - 1]
    BY <1>1, <2>1, PartIs
  <2> QED BY <2>2 DEF i
<1> HIDE DEF s
<1>4. DOMAIN s = 1 .. Len(s)
  BY <1>3, LenProperties
<1>5. \A j \in DOMAIN s :
        /\ Order(s[j].tag) # 0
        /\ s[j].tag = Explicit(3) => version = V3 /\ ValidExtensions(s[j])
        /\ s[j].tag # Explicit(3) => Bits(s[j].content) # {}
  BY <1>2 DEF ValidOptionalFields
<1> SUFFICES ASSUME NEW k \in o + 7 .. Len(f)
             PROVE  \E j \in DOMAIN s : s[j] = f[k]
  BY <1>5
<1> DEFINE j == k - (o + 6)
<1>6. j \in 1 .. Len(f) - (o + 7) + 1 /\ (o + 7) + j - 1 = k
  BY <1>1
<1> HIDE DEF j
<1>7. s[j] = f[k] /\ j \in DOMAIN s
  BY <1>3, <1>4, <1>6
<1> QED BY <1>7

\* What a name is.
LEMMA NameTag ==
  ASSUME NEW t, WasParsed(t), IsName(t.der)
  PROVE  t.tag = TagSequence
<1>1. PICK u \in WholeTlv(t.der, TagSequence) : TRUE
  BY DEF IsName
<1> DEFINE d == t.der
<1>2. d \in Seq(Octet) /\ u \in ReadTlv(d, 1) /\ u.tag = TagSequence /\ u.next = Len(d) + 1
  BY <1>1, TlvTypes DEF WasParsed, WholeTlv
<1>3. WasParsed(u) /\ 1 \in 1 .. Len(d)
  BY <1>2, ReadTypes
<1>4. IsTlv(d)
  BY DEF WasParsed
<1>5. ReadTlv(d, 1) = {Parsed(d, Len(d) + 1)}
  BY <1>4, WholeRead
<1>6. u = Parsed(d, Len(d) + 1)
  BY <1>2, <1>5
<1>7. u.der = t.der
  BY <1>6 DEF Parsed
<1> QED BY <1>2, <1>3, <1>7, SameValue

\* An explicit version is minimal.
LEMMA SmallVersion ==
  ASSUME NEW version \in {<< 1 >>, << 2 >>}
  PROVE  version # <<>> /\ Minimal(version) = version /\ version # V1
<1>1. version \in Seq(Octet) /\ Len(version) = 1
  <2>1. 1 \in Octet /\ 2 \in Octet
    BY OctetRange
  <2>2. <<1>> \in Seq(Octet) /\ Len(<<1>>) = 1 /\ <<2>> \in Seq(Octet) /\ Len(<<2>>) = 1
    BY <2>1, OneIs
  <2> QED BY <2>2
<1>2. version # <<>> /\ version # V1
  <2>1. <<1>> # <<>> /\ <<2>> # <<>> /\ <<1>> # <<0>> /\ <<2>> # <<0>>
    OBVIOUS
  <2> QED BY <2>1 DEF V1
<1>3. ~Redundant(version, 1)
  BY <1>1 DEF Redundant
<1> QED BY <1>1, <1>2, <1>3, MinimalIs

\* The version of an entry is the version of its certificate.
LEMMA EntryVersion ==
  ASSUME NEW f, NEW o, NEW version, NEW data, Accepted(f, o, version, data), NEW hash, NEW m, EntryFields(m, f, o, hash)
  PROVE  /\ HasVersion(m) <=> o = 1
         /\ Offset(m) = o
         /\ version \in VersionsOf(m)
<1>1. /\ f \in Seq(TlvRecord) /\ o \in {0, 1} /\ Len(f) \in Nat /\ Len(f) >= o + 6
      /\ o = IF HasVersion(f) THEN 1 ELSE 0
      /\ \A k \in 1 .. Len(f) : WasParsed(f[k])
  BY DEF Accepted, AreFields, Offset
<1>2. m \in Seq(TlvRecord) /\ Len(m) = Len(f) - 2 /\ m # <<>>
  <2>1. m \in Seq(TlvRecord) /\ Len(m) = Len(f) - 2
    BY DEF EntryFields
  <2>2. Len(m) # 0
    BY <1>1, <2>1
  <2> QED BY <2>1, <2>2
<1>3. CASE o = 1
  <2>1. HasVersion(f) /\ f[1].tag = Explicit(0)
    BY <1>1, <1>3 DEF HasVersion
  <2>2. Same(m[1], f[1])
    BY <1>3 DEF EntryFields
  <2>3. HasVersion(m)
    BY <1>2, <2>1, <2>2 DEF HasVersion, Same
  <2>4. version \in ExplicitVersions(f[1])
    BY <2>1 DEF Accepted
  <2> DEFINE c == f[1].content
  <2>5. c \in Seq(Octet) /\ m[1].content = c
    <3>1. 1 \in 1 .. Len(f)
      BY <1>1
    <3>2. f[1] \in TlvRecord
      BY <1>1, <3>1, ElementOfSeq
    <3> QED BY <2>2, <3>2, TlvTypes DEF Same
  <2>6. PICK w \in WholeTlv(c, TagInteger) : version = w.content /\ w.content \in {<<1>>, <<2>>}
    BY <2>4 DEF ExplicitVersions
  <2> HIDE DEF c
  <2>7. PICK i \in IterSequence(c) : Len(i) = 1 /\ Same(i[1], w) /\ w.tag = TagInteger
    BY <2>5, InnerIs
  <2>8. i[1].tag = TagInteger /\ i[1].content = version /\ version \in {<<1>>, <<2>>}
    BY <2>6, <2>7 DEF Same
  <2>9. version # <<>> /\ Minimal(version) = version
    BY <2>8, SmallVersion
  <2>10. Minimal(i[1].content) \in VersionsOf(m)
    BY <2>3, <2>5, <2>7, <2>8, <2>9 DEF VersionsOf
  <2> QED BY <1>3, <2>3, <2>8, <2>9, <2>10 DEF Offset
<1>4. CASE o = 0
  <2>1. ~HasVersion(f)
    BY <1>1, <1>4
  <2>2. Same(m[1], f[3])
    <3>1. \A j \in o + 1 .. o + 3 : Same(m[j], f[j + 2])
      BY DEF EntryFields
    <3>2. 1 \in o + 1 .. o + 3 /\ 1 + 2 = 3
      BY <1>4
    <3> QED BY <3>1, <3>2
  <2>3. IsName(f[3].der)
    <3>1. IsName(f[o + 3].der)
      BY DEF Accepted, IsTbs
    <3>2. o + 3 = 3
      BY <1>4
    <3> QED BY <3>1, <3>2
  <2>4. f[3].tag = TagSequence
    <3>1. WasParsed(f[3])
      <4>1. 3 \in 1 .. Len(f)
        BY <1>1
      <4> QED BY <1>1, <4>1
    <3> QED BY <2>3, <3>1, NameTag
  <2>5. m[1].tag # Explicit(0)
    BY <2>2, <2>4 DEF Same, TagSequence, Explicit
  <2>6. ~HasVersion(m)
    BY <2>5 DEF HasVersion
  <2>7. version = V1
    BY <2>1 DEF Accepted
  <2>8. version \in VersionsOf(m)
    BY <2>6, <2>7 DEF VersionsOf
  <2> QED BY <1>4, <2>6, <2>8 DEF Offset
<1> QED BY <1>1, <1>3, <1>4

\* The checks of an optional field depend on its octets alone.
LEMMA OptionalOfValue ==
  ASSUME NEW a, NEW b, Same(a, b), IsOptionalField(b)
  PROVE  IsOptionalField(a)
<1>1. a.tag = b.tag /\ a.content = b.content
  BY DEF Same
<1>2. ExtensionsOf(a) = ExtensionsOf(b)
  BY <1>1 DEF ExtensionsOf
<1> QED BY <1>1, <1>2 DEF IsOptionalField

\* The entry of a certificate that was accepted has fields that can be parsed.
LEMMA EntryHasFields ==
  ASSUME NEW f, NEW o, NEW version, NEW data, Accepted(f, o, version, data),
         NEW hash, NEW m, EntryFields(m, f, o, hash)
  PROVE  HasEntryFields(m, o)
<1>1. /\ f \in Seq(TlvRecord) /\ o \in {0, 1} /\ Len(f) \in Nat /\ Len(f) >= o + 6
      /\ IsName(f[o + 3].der) /\ IsName(f[o + 5].der)
  BY DEF Accepted, AreFields, IsTbs
<1>2. /\ Len(m) = Len(f) - 2
      /\ \A j \in o + 1 .. o + 3 : Same(m[j], f[j + 2])
      /\ m[o + 4].tag = TagOctetString
      /\ \A j \in o + 5 .. Len(f) - 2 : Same(m[j], f[j + 2])
  BY DEF EntryFields
<1>3. Len(m) >= o + 4
  BY <1>1, <1>2
<1>4. IsName(m[o + 1].der) /\ IsName(m[o + 3].der)
  <2>1. o + 1 \in o + 1 .. o + 3 /\ (o + 1) + 2 = o + 3 /\ o + 3 \in o + 1 .. o + 3 /\ (o + 3) + 2 = o + 5
    BY <1>1
  <2>2. m[o + 1].der = f[o + 3].der /\ m[o + 3].der = f[o + 5].der
    BY <1>2, <2>1 DEF Same
  <2> QED BY <1>1, <2>2
<1>5. ASSUME NEW j \in o + 5 .. Len(m) PROVE IsOptionalField(m[j])
  <2> DEFINE k == j + 2
  <2>1. j \in o + 5 .. Len(f) - 2 /\ k \in o + 7 .. Len(f) /\ k \in 1 .. Len(f)
    BY <1>1, <1>2
  <2>2. Same(m[j], f[k])
    BY <1>2, <2>1
  <2> HIDE DEF k
  <2>3. f[k] \in TlvRecord
    BY <1>1, <2>1, ElementOfSeq
  <2>4. /\ Order(f[k].tag) # 0
        /\ f[k].tag = Explicit(3) => version = V3 /\ ValidExtensions(f[k])
        /\ f[k].tag # Explicit(3) => Bits(f[k].content) # {}
    BY <2>1, OptionalFieldsAre
  <2>5. IsOptionalField(f[k])
    BY <2>3, <2>4, OptionalIs
  <2> QED BY <2>2, <2>5, OptionalOfValue
<1> QED BY <1>2, <1>3, <1>4, <1>5 DEF HasEntryFields

\* Only a certificate of version 3 has extensions.
LEMMA EntryExtensions ==
  ASSUME NEW f, NEW o, NEW version, NEW data, Accepted(f, o, version, data),
         NEW hash, NEW m, EntryFields(m, f, o, hash), version # V3, NEW validity
  PROVE  EntryOf(m, o, version, validity).extensions = {}
<1> DEFINE optional == SubSeq(m, o + 5, Len(m))
<1>1. /\ f \in Seq(TlvRecord) /\ o \in {0, 1} /\ Len(f) \in Nat /\ Len(f) >= o + 6
      /\ m \in Seq(TlvRecord) /\ Len(m) = Len(f) - 2
      /\ \A j \in o + 5 .. Len(f) - 2 : Same(m[j], f[j + 2])
  BY DEF Accepted, AreFields, EntryFields
<1>2. /\ optional \in Seq(TlvRecord) /\ Len(optional) = Len(m) - (o + 5) + 1
      /\ \A j \in 1 .. Len(m) - (o + 5) + 1 : optional[j] = m[(o + 5) + j - 1]
  <2> DEFINE i == o + 5
  <2>1. i \in 1 .. Len(m) + 1 /\ Len(m) \in i - 1 .. Len(m)
    BY <1>1
  <2> HIDE DEF i
  <2>2. SubSeq(m, i, Len(m)) \in Seq(TlvRecord) /\ Len(SubSeq(m, i, Len(m))) = Len(m) - i + 1
        /\ \A j \in 1 .. Len(m) - i + 1 : SubSeq(m, i, Len(m))[j] = m[i + j - 1]
    BY <1>1, <2>1, PartIs
  <2> QED BY <2>2 DEF i
<1>3. EntryOf(m, o, version, validity).extensions = UNION {ExtensionsOf(x) : x \in LastTagged(optional, Explicit(3))}
  BY DEF EntryOf
<1> HIDE DEF optional
<1>4. ASSUME NEW k \in DOMAIN optional PROVE optional[k].tag # Explicit(3)
  <2>1. k \in 1 .. Len(m) - (o + 5) + 1
    BY <1>2, LenProperties
  <2> DEFINE j == (o + 5) + k - 1
             l == j + 2
  <2>2. optional[k] = m[j]
    BY <1>2, <2>1
  <2>3. j \in o + 5 .. Len(f) - 2 /\ l \in o + 7 .. Len(f)
    BY <1>1, <2>1
  <2>4. Same(m[j], f[l])
    BY <1>1, <2>3
  <2> HIDE DEF j, l
  <2>5. f[l].tag # Explicit(3)
    BY <2>3, OptionalFieldsAre
  <2> QED BY <2>2, <2>4, <2>5 DEF Same
<1>5. LastTagged(optional, Explicit(3)) = {}
  BY <1>4 DEF LastTagged
<1>6. \A x : x \notin UNION {ExtensionsOf(y) : y \in LastTagged(optional, Explicit(3))}
  BY <1>5
<1> QED BY <1>3, <1>6

\* It is the entry of a log whose hashes have the right size.
LEMMA EntryIsValid ==
  ASSUME NEW f, NEW o, NEW version, NEW data, Accepted(f, o, version, data),
         f[o + 3].der = LogName,
         NEW hash, Len(hash) = HashSize, NEW m, EntryFields(m, f, o, hash),
         NEW content, IterSequence(content) = {m}
  PROVE  \E parsed \in ParseEntry(content) : ValidEntry(parsed)
<1>1. HasVersion(m) <=> o = 1
  BY EntryVersion
<1>2. version \in VersionsOf(m)
  BY EntryVersion
<1>3. o \in {0, 1} /\ DecodeValidity(f[o + 4].der) # {}
  BY DEF Accepted, IsTbs
<1>4. m[o + 1].der = f[o + 3].der /\ m[o + 2].der = f[o + 4].der /\ m[o + 4].content = hash
  <2>1. o + 1 \in o + 1 .. o + 3 /\ (o + 1) + 2 = o + 3 /\ o + 2 \in o + 1 .. o + 3 /\ (o + 2) + 2 = o + 4
    BY <1>3
  <2>2. \A j \in o + 1 .. o + 3 : Same(m[j], f[j + 2])
    BY DEF EntryFields
  <2>3. m[o + 4].content = hash
    BY DEF EntryFields
  <2> QED BY <2>1, <2>2, <2>3 DEF Same
<1>5. PICK validity \in DecodeValidity(m[o + 2].der) : TRUE
  BY <1>3, <1>4
<1> DEFINE parsed == EntryOf(m, o, version, validity)
<1>6. parsed \in ParseEntry(content)
  <2>1. HasEntryFields(m, o)
    BY EntryHasFields
  <2>2. o = IF HasVersion(m) THEN 1 ELSE 0
    BY <1>1, <1>3
  <2> HIDE DEF parsed
  <2>3. m \in IterSequence(content)
    OBVIOUS
  <2>4. parsed \in {EntryOf(m, o, v, w) : v \in VersionsOf(m), w \in DecodeValidity(m[o + 2].der)}
    BY <1>2, <1>5 DEF parsed
  <2> QED BY <2>1, <2>2, <2>3, <2>4 DEF ParseEntry
<1>7. parsed.issuer = LogName /\ parsed.spkiHash = hash /\ parsed.version = version
  BY <1>4 DEF EntryOf
<1>8. version # V3 => parsed.extensions = {}
  BY EntryExtensions
<1> HIDE DEF parsed
<1>9. ValidEntry(parsed)
  BY <1>7, <1>8 DEF ValidEntry
<1> QED BY <1>6, <1>9

\* What was checked of a TBS certificate that was accepted, and that it is the
\* only value of its octets.
LEMMA AcceptedIs ==
  ASSUME NEW data \in Seq(Octet), NEW tbs \in TbsCertificate(data)
  PROVE  /\ \E version : Accepted(tbs.fields, Offset(tbs.fields), version, data)
         /\ TbsCertificate(data) = {tbs}
<1> DEFINE f == tbs.fields
<1>1. /\ tbs = [der |-> data, fields |-> f] /\ f \in Fields(data)
      /\ \E version \in IF HasVersion(f) THEN ExplicitVersions(f[1]) ELSE {V1} : IsTbs(f, version)
  BY DEF TbsCertificate
<1>2. AreFields(f, data)
  BY <1>1, FieldsAre
<1>3. Fields(data) = {f}
  BY <1>2 DEF AreFields
<1>4. \A u \in TbsCertificate(data) : u = tbs
  <2>1. \A u \in TbsCertificate(data) : u = [der |-> data, fields |-> u.fields] /\ u.fields \in Fields(data)
    BY TbsKeepsOctets
  <2> HIDE DEF f
  <2> QED BY <1>1, <1>3, <2>1
<1>5. PICK version \in IF HasVersion(f) THEN ExplicitVersions(f[1]) ELSE {V1} : IsTbs(f, version)
  BY <1>1
<1>6. Offset(f) \in {0, 1}
  BY DEF Offset
<1>7. Len(f) >= Offset(f) + 6
  BY <1>5 DEF IsTbs
<1> HIDE DEF f
<1>8. Accepted(f, Offset(f), version, data)
  BY <1>2, <1>5, <1>6, <1>7 DEF Accepted
<1> QED BY <1>4, <1>8 DEF f

\* The serial number is kept, and it is an index.
LEMMA SerialIs ==
  ASSUME NEW f, NEW o, NEW version, NEW data, Accepted(f, o, version, data)
  PROVE  /\ ValueOf(f[o + 1].content) \in 1 .. MaxUint
         /\ EncodeIndex(ValueOf(f[o + 1].content)) = f[o + 1].der
<1> DEFINE k == o + 1
           c == f[k].content
<1>1. AreFields(f, data) /\ k \in 1 .. Len(f)
  <2>1. f \in Seq(TlvRecord) /\ o \in {0, 1} /\ Len(f) >= o + 6 /\ AreFields(f, data)
    BY DEF Accepted, AreFields
  <2> QED BY <2>1
<1>2. f[k].tag = TagInteger /\ IsIndex(c)
  BY DEF Accepted, IsTbs
<1> HIDE DEF k
<1>3. /\ c \in Seq(Octet) /\ Len(c) < Pow2[32] /\ PrimitiveIsCanonical(f[k])
      /\ EncodeTlv(f[k].tag, c) = f[k].der
  BY <1>1, FieldIs
<1>4. c # <<>> /\ EncodeInteger(c) = f[k].der
  BY <1>2, <1>3 DEF PrimitiveIsCanonical
<1>5. EncodeInteger(c) = EncodeTlv(TagInteger, c)
  BY <1>2, <1>3, <1>4
<1> HIDE DEF c
<1>6. ~Redundant(c, 1)
  BY <1>3, <1>4, <1>5, IntegerIs
<1>7. ValueOf(c) \in 1 .. MaxUint /\ Minimal(<<0>> \o BigEndian(ValueOf(c))) = c
  BY <1>2, <1>3, <1>4, <1>6, IndexIs
<1>8. EncodeIndex(ValueOf(c)) = EncodeTlv(TagInteger, c)
  BY <1>7 DEF EncodeIndex, EncodeInteger
<1> QED BY <1>4, <1>5, <1>7, <1>8 DEF c, k

\* The certificate that is rebuilt has the fields of the first.
LEMMA ItemsComeBack ==
  ASSUME NEW f \in Seq(TlvRecord), NEW o \in {0, 1}, Len(f) >= o + 6,
         NEW hash, NEW g, EntryFields(g, f, o, hash),
         NEW items, NEW a, NEW b, NEW c, CertificateItems(items, g, o, a, b, c)
  PROVE  a = f[o + 1].der /\ b = f[o + 2].der /\ c = f[o + 6].der => items = DersOf(f)
<1>h. SUFFICES ASSUME a = f[o + 1].der, b = f[o + 2].der, c = f[o + 6].der
               PROVE  items = DersOf(f)
  OBVIOUS
<1> DEFINE n == Len(f)
<1>1. n \in Nat /\ n >= o + 6
  OBVIOUS
<1>2. /\ Len(g) = n - 2
      /\ \A j \in 1 .. o : g[j].der = f[j].der
      /\ \A j \in o + 1 .. o + 3 : g[j].der = f[j + 2].der
      /\ \A j \in o + 5 .. n - 2 : g[j].der = f[j + 2].der
  BY DEF EntryFields, Same
<1>3. /\ items \in Seq(Seq(Octet)) /\ Len(items) = Len(g) + 2
      /\ \A j \in 1 .. o : items[j] = g[j].der
      /\ items[o + 1] = a /\ items[o + 2] = b
      /\ \A j \in o + 3 .. o + 5 : items[j] = g[j - 2].der
      /\ items[o + 6] = c
      /\ \A j \in o + 7 .. Len(g) + 2 : items[j] = g[j - 2].der
  BY DEF CertificateItems
<1>4. DersOf(f) \in Seq(Seq(Octet)) /\ Len(DersOf(f)) = n /\ \A k \in 1 .. n : DersOf(f)[k] = f[k].der
  BY DersType
<1> HIDE DEF n
<1>5. Len(items) = n
  BY <1>1, <1>2, <1>3
<1>6. ASSUME NEW k \in 1 .. n PROVE items[k] = f[k].der
  <2>1. CASE k \in 1 .. o
    BY <1>2, <1>3, <2>1
  <2>2. CASE k \in {o + 1, o + 2, o + 6}
    BY <1>3, <1>h, <2>2
  <2>3. CASE k \in o + 3 .. o + 5
    <3> DEFINE j == k - 2
    <3>1. j \in o + 1 .. o + 3 /\ j + 2 = k
      BY <2>3
    <3>2. items[k] = g[j].der
      BY <1>3, <2>3
    <3> HIDE DEF j
    <3>3. g[j].der = f[j + 2].der
      BY <1>2, <3>1
    <3> QED BY <3>1, <3>2, <3>3
  <2>4. CASE k \in o + 7 .. n
    <3> DEFINE j == k - 2
    <3>1. j \in o + 5 .. n - 2 /\ j + 2 = k /\ k \in o + 7 .. Len(g) + 2
      BY <1>1, <1>2, <2>4
    <3>2. items[k] = g[j].der
      BY <1>3, <3>1
    <3> HIDE DEF j
    <3>3. g[j].der = f[j + 2].der
      BY <1>2, <3>1
    <3> QED BY <3>1, <3>2, <3>3
  <2>5. k \in 1 .. o \/ k \in {o + 1, o + 2, o + 6} \/ k \in o + 3 .. o + 5 \/ k \in o + 7 .. n
    BY <1>1
  <2> QED BY <2>1, <2>2, <2>3, <2>4, <2>5
<1>7. items \in Seq(Seq(Octet)) /\ DersOf(f) \in Seq(Seq(Octet)) /\ Len(items) = Len(DersOf(f))
  BY <1>3, <1>4, <1>5
<1>8. \A k \in 1 .. Len(items) : items[k] = DersOf(f)[k]
  BY <1>4, <1>5, <1>6
<1> QED BY <1>7, <1>8, SeqEqual

\* A TBS certificate that was accepted, and the hash of its key.
IsAccepted(tbs, data, f, o, version, hash) ==
  /\ data \in Seq(Octet) /\ tbs \in TbsCertificate(data)
  /\ f = tbs.fields /\ o = Offset(f)
  /\ Accepted(f, o, version, data)
  /\ hash = SpkiHash(f[o + 6].der) /\ hash \in Seq(Octet) /\ Len(hash) = HashSize
  /\ Len(data) + Len(hash) + 6 < Pow2[32] /\ Len(hash) < Pow2[32]

\* A log entry and its fields.
Logged(logged, f, o, hash, items) ==
  /\ logged = [type |-> TbsCertEntry, data |-> FlattenSeq(items)]
  /\ EntryItems(items, f, o, EncodeTlv(TagOctetString, hash))
  /\ CanonicalItems(items)

\* The entry of a certificate that was accepted is decoded, valid and mapped to a
\* certificate with the same octets.
LEMMA EntryIsMapped ==
  ASSUME NEW data, NEW tbs, NEW f, NEW o, NEW version, NEW hash, IsAccepted(tbs, data, f, o, version, hash),
         f[o + 3].der = LogName,
         NEW logged, ToLogEntry(tbs) = {logged}, NEW items, Logged(logged, f, o, hash, items)
  PROVE  FromLogEntry(logged, SerialNumber(tbs), Spki(tbs)) = {tbs}
<1> DEFINE spki == f[o + 6].der
           N == ValueOf(f[o + 1].content)
           content == FlattenSeq(items)
<1>0. /\ data \in Seq(Octet) /\ tbs \in TbsCertificate(data) /\ f = tbs.fields /\ o = Offset(f)
      /\ Accepted(f, o, version, data)
      /\ hash = SpkiHash(spki) /\ hash \in Seq(Octet) /\ Len(hash) = HashSize /\ Len(hash) < Pow2[32]
  BY DEF IsAccepted
<1>1. SerialNumber(tbs) = N /\ Spki(tbs) = spki
  BY <1>0 DEF SerialNumber, Spki
<1>2. /\ f \in Seq(TlvRecord) /\ (\A k \in 1 .. Len(f) : WasParsed(f[k])) /\ o \in {0, 1} /\ Len(f) \in Nat /\ Len(f) >= o + 6
      /\ data = EncodeSequence(DersOf(f))
  BY <1>0 DEF Accepted, AreFields
<1>4. N \in 1 .. MaxUint /\ EncodeIndex(N) = f[o + 1].der
  BY <1>0, SerialIs
<1>5. ValidSpki(spki) /\ f[o + 2].der = MtcAlgorithm
  BY <1>0 DEF Accepted, IsTbs
<1>6. logged.type = TbsCertEntry /\ logged.data = content /\ CanonicalItems(items)
      /\ EntryItems(items, f, o, EncodeTlv(TagOctetString, hash))
  BY DEF Logged
<1>7. /\ spki \in Seq(Octet) /\ f[o + 1].der \in Seq(Octet) /\ f[o + 2].der \in Seq(Octet)
  <2>1. o + 6 \in 1 .. Len(f) /\ o + 1 \in 1 .. Len(f) /\ o + 2 \in 1 .. Len(f)
    BY <1>2
  <2>2. \A k \in 1 .. Len(f) : f[k].der \in Seq(Octet)
    BY <1>2, ElementOfSeq, TlvTypes
  <2> QED BY <2>1, <2>2
<1> HIDE DEF spki, N, content
<1>8. Items(items)
  BY <1>6 DEF CanonicalItems
<1>9. ASSUME NEW v \in Seq(TlvRecord), \A k \in 1 .. Len(v) : WasParsed(v[k]), DersOf(v) = items
      PROVE  EntryFields(v, f, o, hash)
  BY <1>2, <1>0, <1>6, <1>9, EntryFieldsAre
<1>10. \E parsed \in ParseEntry(content) : ValidEntry(parsed)
  <2>1. content \in Seq(Octet) /\ FlattenSeq(items) = content
    <3>1. items \in Seq(Seq(Octet))
      BY <1>8 DEF Items
    <3> QED BY <3>1, FlattenType DEF content
  <2>2. PICK m \in Seq(TlvRecord) : IterSequence(content) = {m} /\ DersOf(m) = items
    BY <1>8, <2>1, IterSequenceIs
  <2>3. \A k \in 1 .. Len(m) : WasParsed(m[k])
    <3>1. m \in IterSequence(content)
      BY <2>2
    <3>2. ListsContent(m, content)
      BY <2>1, <3>1, IterSequenceIs
    <3> QED BY <3>2 DEF ListsContent
  <2>4. EntryFields(m, f, o, hash)
    BY <1>9, <2>2, <2>3
  <2> QED BY <1>0, <2>2, <2>4, EntryIsValid
<1>11. EncodeSequence(<<content>>) = EncodeSequence(items)
  <2>1. FlattenSeq(<<content>>) = content
    <3>1. items \in Seq(Seq(Octet))
      BY <1>8 DEF Items
    <3>2. content \in Seq(Octet)
      BY <3>1, FlattenType DEF content
    <3> QED BY <3>2, FlattenOne
  <2> QED BY <2>1 DEF EncodeSequence, content
<1>12. PICK g : AreFields(g, EncodeSequence(items)) /\ DersOf(g) = items
  BY <1>6, FieldsOf
<1>13. Fields(EncodeSequence(<<content>>)) = {g} /\ g \in Seq(TlvRecord) /\ \A k \in 1 .. Len(g) : WasParsed(g[k])
  BY <1>11, <1>12 DEF AreFields
<1>14. EntryFields(g, f, o, hash)
  BY <1>9, <1>12, <1>13
<1>15. Offset(g) = o
  BY <1>0, <1>14, EntryVersion
<1>16. Len(g) = Len(f) - 2 /\ g[o + 4].tag = TagOctetString /\ g[o + 4].content = hash
  BY <1>14 DEF EntryFields
<1> DEFINE rebuilt == (((Ders(g, 1, o) \o <<EncodeIndex(N), MtcAlgorithm>>) \o Ders(g, o + 1, o + 3)) \o <<spki>>)
                        \o Ders(g, o + 5, Len(g))
<1>17. rebuilt = DersOf(f)
  <2> DEFINE a == EncodeIndex(N)
             b == MtcAlgorithm
  <2>1. a = f[o + 1].der /\ b = f[o + 2].der /\ spki = f[o + 6].der
    BY <1>4, <1>5 DEF spki
  <2>2. a \in Seq(Octet) /\ b \in Seq(Octet)
    BY <1>7, <2>1
  <2>3. Len(g) >= o + 4
    BY <1>2, <1>16
  <2> HIDE DEF a, b
  <2>4. CertificateItems((((Ders(g, 1, o) \o <<a, b>>) \o Ders(g, o + 1, o + 3)) \o <<spki>>)
                            \o Ders(g, o + 5, Len(g)), g, o, a, b, spki)
    BY <1>2, <1>7, <1>13, <2>2, <2>3, CertificateItemsAre
  <2>5. CertificateItems(rebuilt, g, o, a, b, spki)
    BY <2>4 DEF a, b
  <2> HIDE DEF rebuilt
  <2>7. f \in Seq(TlvRecord) /\ o \in {0, 1} /\ Len(f) >= o + 6
    BY <1>2
  <2> QED BY <1>14, <2>1, <2>5, <2>7, ItemsComeBack
<1>18. Rebuilt(g, N, spki) = TbsCertificate(EncodeSequence(rebuilt))
  <2>1. ~(Len(g) < o + 4)
    BY <1>2, <1>16
  <2> QED BY <1>0, <1>15, <1>16, <2>1 DEF Rebuilt
<1> HIDE DEF rebuilt
<1>19. Rebuilt(g, N, spki) = {tbs}
  BY <1>0, <1>2, <1>17, <1>18, AcceptedIs
<1>20. UNION {Rebuilt(fields, N, spki) : fields \in Fields(EncodeSequence(<<content>>))} = {tbs}
  BY <1>13, <1>19
<1>21. FromLogEntry(logged, N, spki)
         = {u \in UNION {Rebuilt(fields, N, spki) : fields \in Fields(EncodeSequence(<<content>>))} : ToLogEntry(u) = {logged}}
  BY <1>4, <1>5, <1>6, <1>10 DEF FromLogEntry
<1>22. FromLogEntry(logged, N, spki) = {tbs}
  BY <1>20, <1>21
<1> QED BY <1>1, <1>22

\* The entry of a certificate that was accepted.
LEMMA EntryIsLogged ==
  ASSUME NEW data, NEW tbs, NEW f, NEW o, NEW version, NEW hash, IsAccepted(tbs, data, f, o, version, hash),
         NEW logged \in ToLogEntry(tbs)
  PROVE  /\ f[o + 3].der = LogName
         /\ ToLogEntry(tbs) = {logged}
         /\ \E items : Logged(logged, f, o, hash, items)
         /\ DecodeEntry(EncodeEntry(logged)) = {logged}
<1> DEFINE key == EncodeTlv(TagOctetString, hash)
           items == ((Ders(f, 1, o) \o Ders(f, o + 3, o + 5)) \o <<key>>) \o Ders(f, o + 7, Len(f))
           entry == [type |-> TbsCertEntry, data |-> FlattenSeq(items)]
<1>0. /\ data \in Seq(Octet) /\ f = tbs.fields /\ o = Offset(f) /\ hash = SpkiHash(f[o + 6].der) /\ hash \in Seq(Octet)
      /\ Len(data) + Len(hash) + 6 < Pow2[32] /\ Len(hash) < Pow2[32]
  BY DEF IsAccepted
<1>1. f[o + 3].der = LogName
  BY <1>0 DEF ToLogEntry
<1>2. ToLogEntry(tbs) = {entry}
  BY <1>0, <1>1 DEF ToLogEntry, Spki
<1>3. f \in Seq(TlvRecord) /\ o \in {0, 1} /\ Len(f) >= o + 6 /\ AreFields(f, data)
  BY DEF IsAccepted, Accepted, AreFields
<1>5. key \in Seq(Octet)
  BY <1>0, OctetStringIs
<1> HIDE DEF key, items
<1>6. EntryItems(items, f, o, key)
  BY <1>3, <1>5, EntryItemsAre DEF items
<1>7. Len(FlattenSeq(items)) <= Len(FlattenSeq(DersOf(f))) + Len(key)
  BY <1>3, <1>5, EntryLength DEF items
<1>8. CanonicalItems(items)
  BY <1>0, <1>3, <1>6, <1>7, EntryIsCanonical DEF key
<1>9. Logged(entry, f, o, hash, items)
  BY <1>6, <1>8 DEF Logged, key
<1>10. DecodeEntry(EncodeEntry(entry)) = {entry}
  <2>1. FlattenSeq(items) \in Seq(Octet)
    <3>1. items \in Seq(Seq(Octet))
      BY <1>6 DEF EntryItems
    <3> QED BY <3>1, FlattenType
  <2> QED BY <2>1, EntryRoundTrip
<1> HIDE DEF entry
<1>11. logged = entry
  BY <1>2
<1> QED BY <1>1, <1>2, <1>9, <1>10, <1>11

\* A certificate is longer than what it certifies.
LEMMA TbsIsShorter ==
  ASSUME NEW data \in Seq(Octet), NEW c \in DecodeCertificate(data)
  PROVE  c.tbs.der \in Seq(Octet) /\ c.tbs \in TbsCertificate(c.tbs.der) /\ Len(c.tbs.der) <= Len(data)
<1>1. PICK fields, b : Enveloped(c, data, fields, b)
  BY DecodedIs
<1>2. AreFields(fields, data) /\ Len(fields) = 3 /\ 1 \in 1 .. Len(fields)
  BY <1>1 DEF Enveloped
<1>3. c.tbs \in TbsCertificate(fields[1].der) /\ c.tbs.der = fields[1].der
  BY <1>1, TbsKeepsOctets DEF Enveloped
<1> DEFINE items == DersOf(fields)
           content == FlattenSeq(items)
           rest == SubSeq(items, 2, Len(items))
<1>4. /\ data = EncodeSequence(items) /\ items \in Seq(Seq(Octet)) /\ Len(items) = 3 /\ items[1] = fields[1].der
      /\ CanonicalItems(items)
  <2>1. fields \in Seq(TlvRecord) /\ data = EncodeSequence(items) /\ CanonicalItems(items)
    BY <1>2 DEF AreFields
  <2> QED BY <1>2, <2>1, DersType
<1> DEFINE d == items[1]
<1>5. d \in Seq(Octet)
  BY <1>4, ElementOfSeq
<1> HIDE DEF items
<1>6. rest \in Seq(Seq(Octet)) /\ items = <<d>> \o rest
  <2>1. items # <<>>
    <3>1. Len(items) # 0
      BY <1>4
    <3> QED BY <1>4, <3>1, EmptySeq
  <2> QED BY <1>4, <2>1, FirstAndRest DEF rest, d
<1> HIDE DEF rest, d
<1>7. Len(d) <= Len(content)
  <2>1. <<d>> \in Seq(Seq(Octet)) /\ FlattenSeq(<<d>>) = d
    BY <1>5, FlattenOne
  <2>2. /\ Len(FlattenSeq(<<d>> \o rest)) = Len(FlattenSeq(<<d>>)) + Len(FlattenSeq(rest))
        /\ Len(FlattenSeq(<<d>>)) \in Nat /\ Len(FlattenSeq(rest)) \in Nat
    BY <1>6, <2>1, FlattenLength
  <2> QED BY <1>6, <2>1, <2>2
<1>8. content \in Seq(Octet) /\ Len(content) < Pow2[32] /\ data = EncodeTlv(TagSequence, content)
  BY <1>4, FlattenType DEF EncodeSequence, CanonicalItems
<1> HIDE DEF content
<1>9. Len(content) <= Len(data) /\ Len(content) \in Nat
  BY <1>8, TagsDiffer, EncodedIs, LenProperties
<1>10. Len(d) <= Len(data)
  BY <1>5, <1>7, <1>9, LenProperties
<1> QED BY <1>3, <1>4, <1>5, <1>10 DEF d

\* The TBS certificate of a certificate that was decoded.
LEMMA DecodedIsAccepted ==
  ASSUME presented \in Seq(Octet), Len(presented) + HashSize + 6 < Pow2[32],
         \A spki \in Seq(Octet) : SpkiHash(spki) \in Seq(Octet) /\ Len(SpkiHash(spki)) = HashSize,
         NEW c \in DecodeCertificate(presented)
  PROVE  \E version : IsAccepted(c.tbs, c.tbs.der, c.tbs.fields, Offset(c.tbs.fields), version,
                                SpkiHash(c.tbs.fields[Offset(c.tbs.fields) + 6].der))
<1> DEFINE tbs == c.tbs
           data == tbs.der
           f == tbs.fields
           o == Offset(f)
           hash == SpkiHash(f[o + 6].der)
<1>1. data \in Seq(Octet) /\ tbs \in TbsCertificate(data) /\ Len(data) <= Len(presented)
  BY TbsIsShorter
<1>2. PICK version : Accepted(f, o, version, data)
  BY <1>1, AcceptedIs
<1>3. f[o + 6].der \in Seq(Octet)
  <2>1. f \in Seq(TlvRecord) /\ o + 6 \in 1 .. Len(f)
    BY <1>2 DEF Accepted, AreFields
  <2> QED BY <2>1, ElementOfSeq, TlvTypes
<1>4. hash \in Seq(Octet) /\ Len(hash) = HashSize
  BY <1>3
<1>5. Len(data) + Len(hash) + 6 < Pow2[32] /\ Len(hash) < Pow2[32]
  <2> DEFINE x == Len(data)
             y == Len(presented)
             h == Len(hash)
             p == Pow2[32]
  <2>1. x \in Nat /\ y \in Nat /\ h \in Nat /\ p \in Nat /\ x <= y /\ y + h + 6 < p
    BY <1>1, <1>4, LenProperties, Pow2Positive
  <2> HIDE DEF x, y, h, p
  <2>2. x + h + 6 < p /\ h < p
    BY <2>1
  <2> QED BY <2>2 DEF x, h, p
<1>6. IsAccepted(tbs, data, f, o, version, hash)
  <2> HIDE DEF tbs, data
  <2> QED BY <1>1, <1>2, <1>4, <1>5 DEF IsAccepted
<1> QED BY <1>6

\* The property of the run, for every octet string that leaves room for the
\* length of an entry in four octets, whatever the log and however keys are hashed:
\* an accepted certificate is the only encoding of what it says, and it is what the
\* CA rebuilds from the entry its log keeps.
THEOREM CertificatesAreCanonical ==
  ASSUME presented \in Seq(Octet), Len(presented) + HashSize + 6 < Pow2[32],
         \A spki \in Seq(Octet) : SpkiHash(spki) \in Seq(Octet) /\ Len(SpkiHash(spki)) = HashSize
  PROVE  AcceptedIsCanonical
<1> SUFFICES ASSUME NEW c \in DecodeCertificate(presented)
             PROVE  /\ EncodeCertificate(c) = presented
                    /\ \A logged \in ToLogEntry(c.tbs) : \A entry \in DecodeEntry(EncodeEntry(logged)) :
                         FromLogEntry(entry, SerialNumber(c.tbs), Spki(c.tbs)) = {c.tbs}
  BY DEF AcceptedIsCanonical
<1>1. EncodeCertificate(c) = presented
  BY CertificateRoundTrip
<1>2. ASSUME NEW logged \in ToLogEntry(c.tbs), NEW entry \in DecodeEntry(EncodeEntry(logged))
      PROVE  FromLogEntry(entry, SerialNumber(c.tbs), Spki(c.tbs)) = {c.tbs}
  <2> DEFINE tbs == c.tbs
             data == tbs.der
             f == tbs.fields
             o == Offset(f)
             hash == SpkiHash(f[o + 6].der)
  <2>6. PICK version : IsAccepted(tbs, data, f, o, version, hash)
    BY DecodedIsAccepted
  <2>7. logged \in ToLogEntry(tbs)
    OBVIOUS
  <2> HIDE DEF hash, o, f, data, tbs
  <2>8. /\ f[o + 3].der = LogName
        /\ ToLogEntry(tbs) = {logged}
        /\ \E items : Logged(logged, f, o, hash, items)
        /\ DecodeEntry(EncodeEntry(logged)) = {logged}
    BY <2>6, <2>7, EntryIsLogged
  <2>9. entry = logged
    BY <2>8
  <2>10. FromLogEntry(logged, SerialNumber(tbs), Spki(tbs)) = {tbs}
    BY <2>6, <2>8, EntryIsMapped
  <2> QED BY <2>9, <2>10 DEF tbs
<1> QED BY <1>1, <1>2

-----------------------------------------------------------------------------
(* Entries in one pass *)

\* None, or the one.
LEMMA OneOfSet ==
  ASSUME NEW E
  PROVE  One({}) = <<>> /\ \A e \in E : One({e}) = <<e>>
<1>1. One({}) = <<>>
  <2>1. Cardinality({}) = 0
    BY FS_EmptySet
  <2>2. \A f \in [1 .. 0 -> {}] : f = <<>>
    <3> SUFFICES ASSUME NEW f \in [1 .. 0 -> {}] PROVE f = <<>>
      OBVIOUS
    <3>1. f \in Seq({})
      BY SeqDef
    <3>2. Len(f) = 0
      BY LenProperties
    <3> QED BY <3>1, <3>2, EmptySeq
  <2>0. <<>> \in [1 .. 0 -> {}]
    OBVIOUS
  <2>3. One({}) = CHOOSE f \in [1 .. 0 -> {}] : IsInjective(f)
    BY <2>1 DEF One, SetToSeq
  <2>4. IsInjective(<<>>)
    BY DEF IsInjective
  <2> QED BY <2>0, <2>2, <2>3, <2>4
<1>2. ASSUME NEW e \in E PROVE One({e}) = <<e>>
  <2>1. Cardinality({e}) = 1
    BY FS_Singleton
  <2>2. \A f \in [1 .. 1 -> {e}] : f = <<e>>
    OBVIOUS
  <2>3. <<e>> \in [1 .. 1 -> {e}]
    OBVIOUS
  <2>4. One({e}) = CHOOSE f \in [1 .. 1 -> {e}] : IsInjective(f)
    BY <2>1 DEF One, SetToSeq
  <2>5. IsInjective(<<e>>)
    BY DEF IsInjective
  <2>6. One({e}) \in [1 .. 1 -> {e}]
    BY <2>3, <2>4, <2>5
  <2> QED BY <2>2, <2>6
<1> QED BY <1>1, <1>2

\* Whoever reads a value reads its tag.
LEMMA TagIsRead ==
  ASSUME NEW t, WasParsed(t), NEW u \in ReadTlv(t.der, 1)
  PROVE  u.tag = t.tag
<1>1. IsTlv(t.der) /\ t \in TlvRecord /\ t = Parsed(t.der, t.next)
  BY DEF WasParsed
<1>2. ReadTlv(t.der, 1) = {Parsed(t.der, Len(t.der) + 1)}
  BY <1>1, WholeRead
<1>3. u.tag = t.der[1]
  <2> DEFINE d == t.der
  <2>1. u = Parsed(d, Len(d) + 1)
    BY <1>2
  <2> HIDE DEF d
  <2>2. u.tag = d[1]
    BY <2>1 DEF Parsed
  <2> QED BY <2>2 DEF d
<1>4. t.tag = t.der[1]
  <2> DEFINE d == t.der
             n == t.next
  <2>1. t = Parsed(d, n)
    BY <1>1
  <2> HIDE DEF d, n
  <2>2. t.tag = d[1]
    BY <2>1 DEF Parsed
  <2> QED BY <2>2 DEF d
<1> QED BY <1>3, <1>4

\* Octets are numbers.
LEMMA OctetsAreNumbers ==
  ASSUME NEW s \in Seq(Octet)
  PROVE  s \in Seq(Nat)
<1>1. Octet \subseteq Nat
  BY OctetRange
<1> QED BY <1>1, SeqMonotonic

\* The first element of an encoding is its tag, whatever its content.
LEMMA TagIsFirst ==
  ASSUME NEW tag \in Nat, NEW content \in Seq(Nat)
  PROVE  EncodeTlv(tag, content)[1] = tag
<1> DEFINE n == Len(content)
           l == EncodeLength(n)
<1>1. n \in Nat
  OBVIOUS
<1>2. l \in Seq(Nat)
  <2> HIDE DEF n
  <2>1. BigEndian(n) \in Seq(Nat)
    <3>1. BigEndian(n) \in Seq(Octet)
      BY <1>1, BigEndianIs DEF Shortest
    <3> QED BY <3>1, OctetsAreNumbers
  <2>2. Len(BigEndian(n)) \in Nat
    BY <2>1, LenProperties
  <2>3. <<128 + Len(BigEndian(n))>> \in Seq(Nat) /\ <<n>> \in Seq(Nat)
    BY <1>1, <2>2
  <2>4. <<128 + Len(BigEndian(n))>> \o BigEndian(n) \in Seq(Nat)
    BY <2>1, <2>3, ConcatParts
  <2> QED BY <2>3, <2>4 DEF EncodeLength
<1>3. EncodeTlv(tag, content) = (<<tag>> \o l) \o content
  BY DEF EncodeTlv
<1> HIDE DEF l
<1>4. <<tag>> \o l \in Seq(Nat) /\ (<<tag>> \o l)[1] = tag /\ Len(<<tag>> \o l) = 1 + Len(l) /\ Len(l) \in Nat
  BY <1>2, ConsElements, LenProperties
<1> DEFINE h == <<tag>> \o l
<1>5. h \in Seq(Nat) /\ h[1] = tag /\ 1 \in 1 .. Len(h)
  BY <1>4
<1> HIDE DEF h
<1>6. (h \o content)[1] = h[1]
  BY <1>5, ConcatElements
<1> QED BY <1>3, <1>5, <1>6 DEF h

\* The algorithm of the certificates is a SEQUENCE.
LEMMA AlgorithmTag == MtcAlgorithm[1] = TagSequence
<1> DEFINE arcs == <<<<43>>, <<6>>, <<1>>, <<4>>, <<1>>, <<2, 90, 75>>, <<47>>, <<0>>>>
           octets == [k \in DOMAIN arcs |->
                        [j \in DOMAIN arcs[k] |-> IF j < Len(arcs[k]) THEN 128 + arcs[k][j] ELSE arcs[k][j]]]
<1>1. arcs \in Seq(Seq(Nat))
  OBVIOUS
<1> HIDE DEF arcs
<1>2. octets \in Seq(Seq(Nat))
  <2>1. ASSUME NEW arc \in Seq(Nat) PROVE [j \in DOMAIN arc |-> IF j < Len(arc) THEN 128 + arc[j] ELSE arc[j]] \in Seq(Nat)
    <3> DEFINE g == [j \in DOMAIN arc |-> IF j < Len(arc) THEN 128 + arc[j] ELSE arc[j]]
    <3>1. DOMAIN arc = 1 .. Len(arc) /\ Len(arc) \in Nat
      BY LenProperties
    <3>2. \A j \in 1 .. Len(arc) : arc[j] \in Nat
      BY ElementOfSeq
    <3>3. g \in [1 .. Len(arc) -> Nat]
      BY <3>1, <3>2
    <3> QED BY <3>1, <3>3, SeqDef
  <2>2. DOMAIN arcs = 1 .. Len(arcs) /\ Len(arcs) \in Nat
    BY <1>1, LenProperties
  <2>3. \A k \in 1 .. Len(arcs) : arcs[k] \in Seq(Nat)
    BY <1>1, ElementOfSeq
  <2>4. octets \in [1 .. Len(arcs) -> Seq(Nat)]
    BY <2>1, <2>2, <2>3
  <2> QED BY <2>2, <2>4, SeqDef
<1> HIDE DEF octets
<1> DEFINE content == FlattenSeq(octets)
           oid == EncodeTlv(TagOid, content)
<1>3. content \in Seq(Nat)
  BY <1>2, FlattenType
<1>4. MtcAlgorithm = EncodeTlv(TagSequence, FlattenSeq(<<oid>>))
  BY DEF MtcAlgorithm, EncodeSequence, EncodeOid, octets, arcs
<1> HIDE DEF content
<1>5. ASSUME NEW tag \in Nat, NEW c \in Seq(Nat) PROVE EncodeTlv(tag, c) \in Seq(Nat)
  <2> DEFINE n == Len(c)
  <2>1. n \in Nat
    OBVIOUS
  <2> HIDE DEF n
  <2>2. BigEndian(n) \in Seq(Nat)
    <3>1. BigEndian(n) \in Seq(Octet)
      BY <2>1, BigEndianIs DEF Shortest
    <3> QED BY <3>1, OctetsAreNumbers
  <2>3. Len(BigEndian(n)) \in Nat
    BY <2>2, LenProperties
  <2>4. <<128 + Len(BigEndian(n))>> \in Seq(Nat) /\ <<n>> \in Seq(Nat) /\ <<tag>> \in Seq(Nat)
    BY <2>1, <2>3
  <2>5. <<128 + Len(BigEndian(n))>> \o BigEndian(n) \in Seq(Nat)
    BY <2>2, <2>4, ConcatParts
  <2>6. EncodeLength(n) \in Seq(Nat)
    BY <2>4, <2>5 DEF EncodeLength
  <2>7. <<tag>> \o EncodeLength(n) \in Seq(Nat)
    BY <2>4, <2>6, ConcatParts
  <2>8. (<<tag>> \o EncodeLength(n)) \o c \in Seq(Nat)
    BY <2>7, ConcatParts
  <2> QED BY <2>8 DEF EncodeTlv, n
<1>6. oid \in Seq(Nat)
  <2>1. TagOid \in Nat
    BY DEF TagOid
  <2> QED BY <1>3, <1>5, <2>1
<1> HIDE DEF oid
<1>7. FlattenSeq(<<oid>>) \in Seq(Nat)
  BY <1>6, FlattenOne
<1>8. TagSequence \in Nat
  BY DEF TagSequence
<1> QED BY <1>4, <1>7, <1>8, TagIsFirst

\* The first fields of a certificate are no unique IDs.
LEMMA FieldTags ==
  ASSUME NEW f, NEW o, NEW version, NEW data, Accepted(f, o, version, data), NEW k \in 1 .. o + 6
  PROVE  f[k].tag \notin {Implicit(1), Implicit(2)}
<1>1. /\ f \in Seq(TlvRecord) /\ o \in {0, 1} /\ Len(f) \in Nat /\ Len(f) >= o + 6
      /\ o = Offset(f) /\ AreFields(f, data)
      /\ \A j \in 1 .. Len(f) : WasParsed(f[j])
  BY DEF Accepted, AreFields
<1>2. /\ f[o + 1].tag = TagInteger /\ f[o + 2].der = MtcAlgorithm
      /\ IsName(f[o + 3].der) /\ DecodeValidity(f[o + 4].der) # {} /\ IsName(f[o + 5].der) /\ ValidSpki(f[o + 6].der)
  BY DEF Accepted, IsTbs
<1>3. WasParsed(f[k])
  BY <1>1
<1>4. CASE k = 1 /\ o = 1
  <2>1. f[1].tag = Explicit(0)
    BY <1>1, <1>4 DEF Offset, HasVersion
  <2> QED BY <1>4, <2>1 DEF Explicit, Implicit
<1>5. CASE k = o + 1
  BY <1>2, <1>5 DEF TagInteger, Implicit
<1>6. f[k].tag = TagSequence => f[k].tag \notin {Implicit(1), Implicit(2)}
  BY DEF TagSequence, Implicit
<1>7. CASE k = o + 2
  <2> DEFINE d == f[k].der
             n == f[k].next
  <2>1. f[k] = Parsed(d, n) /\ d = MtcAlgorithm
    BY <1>2, <1>3, <1>7 DEF WasParsed
  <2> HIDE DEF d, n
  <2>2. f[k].tag = d[1]
    BY <2>1 DEF Parsed
  <2> QED BY <1>6, <2>1, <2>2, AlgorithmTag
<1>8. CASE k = o + 3 \/ k = o + 5
  BY <1>2, <1>3, <1>6, <1>8, NameTag
<1>9. CASE k = o + 4
  <2>1. \E u \in ReadTlv(f[k].der, 1) : u.tag = TagSequence
    BY <1>2, <1>9 DEF DecodeValidity
  <2> QED BY <1>3, <1>6, <2>1, TagIsRead
<1>10. CASE k = o + 6
  <2>1. \E u \in ReadTlv(f[k].der, 1) : u.tag = TagSequence
    BY <1>2, <1>10 DEF ValidSpki, Fields, WholeTlv
  <2> QED BY <1>3, <1>6, <2>1, TagIsRead
<1>11. (k = 1 /\ o = 1) \/ k \in {o + 1, o + 2, o + 3, o + 4, o + 5, o + 6}
  BY <1>1
<1> QED BY <1>4, <1>5, <1>7, <1>8, <1>9, <1>10, <1>11

\* The times that are decoded have fourteen octets.
LEMMA TimeIs ==
  ASSUME NEW t \in TlvRecord, NEW text \in DecodeTime(t)
  PROVE  text \in Seq(Octet) /\ Len(text) = 14
<1> DEFINE content == t.content
           digits == Front(content)
           century == IF TwoDigits(digits, 1) < 50 THEN <<50, 48>> ELSE <<49, 57>>
<1>1. /\ text = IF t.tag = TagUtcTime THEN century \o digits ELSE digits
      /\ \/ t.tag = TagUtcTime /\ Len(content) = 13
         \/ t.tag = TagGeneralizedTime /\ Len(content) = 15
  BY DEF DecodeTime
<1>2. content \in Seq(Octet)
  BY TlvTypes
<1>3. century \in Seq(Octet) /\ Len(century) = 2
  <2>1. 50 \in Octet /\ 48 \in Octet /\ 49 \in Octet /\ 57 \in Octet
    BY OctetRange
  <2>2. <<50, 48>> \in Seq(Octet) /\ Len(<<50, 48>>) = 2 /\ <<49, 57>> \in Seq(Octet) /\ Len(<<49, 57>>) = 2
    BY <2>1
  <2> QED BY <2>2
<1> HIDE DEF content, century
<1>4. Len(content) >= 1 => digits \in Seq(Octet) /\ Len(digits) = Len(content) - 1
  <2> SUFFICES ASSUME Len(content) >= 1 PROVE digits \in Seq(Octet) /\ Len(digits) = Len(content) - 1
    OBVIOUS
  <2> DEFINE i == 1
             j == Len(content) - 1
  <2>1. i \in 1 .. Len(content) + 1 /\ j \in i - 1 .. Len(content) /\ j - i + 1 = Len(content) - 1
    BY <1>2
  <2>2. digits = SubSeq(content, i, j)
    BY DEF Front
  <2> HIDE DEF i, j, digits
  <2>3. SubSeq(content, i, j) \in Seq(Octet) /\ Len(SubSeq(content, i, j)) = j - i + 1
    BY <1>2, <2>1, PartIs
  <2> QED BY <2>1, <2>2, <2>3
<1> HIDE DEF digits
<1>5. CASE t.tag = TagUtcTime /\ Len(content) = 13
  <2>1. text = century \o digits
    BY <1>1, <1>5
  <2>2. digits \in Seq(Octet) /\ Len(digits) = 12
    BY <1>4, <1>5
  <2>3. century \o digits \in Seq(Octet) /\ Len(century \o digits) = Len(century) + Len(digits)
    BY <1>3, <2>2, ConcatParts
  <2>4. Len(century) + Len(digits) = 14
    BY <1>3, <2>2
  <2> QED BY <2>1, <2>3, <2>4
<1>6. CASE t.tag = TagGeneralizedTime /\ Len(content) = 15
  <2>1. text = digits
    BY <1>1, <1>6 DEF TagUtcTime, TagGeneralizedTime
  <2> QED BY <1>4, <1>6, <2>1
<1> QED BY <1>1, <1>5, <1>6

\* A short value.
LEMMA ShortValue ==
  ASSUME NEW tag \in Octet, tag % 32 # 31, NEW content \in Seq(Octet), Len(content) <= 40
  PROVE  /\ IsTlv(EncodeTlv(tag, content)) /\ EncodeTlv(tag, content) \in Seq(Octet)
         /\ Len(EncodeTlv(tag, content)) = Len(content) + 2
<1>1. Len(content) < Pow2[32] /\ Len(content) < 128
  <2>1. 31 < Pow2[31] /\ Pow2[31] \in Nat
    BY Pow2Exceeds, Pow2Positive
  <2>2. Pow2[32] = 2 * Pow2[31]
    <3> DEFINE n == 32
    <3>1. n \in Nat /\ n # 0 /\ n - 1 = 31
      OBVIOUS
    <3> HIDE DEF n
    <3>2. Pow2[n] = 2 * Pow2[n - 1]
      BY <3>1, Pow2Def
    <3> QED BY <3>1, <3>2 DEF n
  <2>3. Len(content) \in Nat
    OBVIOUS
  <2> QED BY <2>1, <2>2, <2>3
<1>2. IsTlv(EncodeTlv(tag, content)) /\ (Len(content) < 128 => Len(EncodeTlv(tag, content)) = Len(content) + 2)
  BY <1>1, EncodedIs
<1> QED BY <1>1, <1>2 DEF IsTlv

\* The encoding of a validity that was decoded is a value.
LEMMA ValidityIs ==
  ASSUME NEW data \in Seq(Octet), NEW validity \in DecodeValidity(data)
  PROVE  IsTlv(EncodeValidity(validity)) /\ EncodeValidity(validity) \in Seq(Octet)
<1>1. ASSUME NEW text \in Seq(Octet), Len(text) = 14
      PROVE  EncodeTime(text) \in Seq(Octet) /\ Len(EncodeTime(text)) <= 17
  <2> DEFINE short == SubSeq(text, 3, 14)
             a == Append(short, Zulu)
             first == FirstYearDigit(Years(text))
             long == SubSeq(text, first, 14)
             b == Append(long, Zulu)
  <2>1. Zulu \in Octet
    BY OctetRange DEF Zulu
  <2>2. short \in Seq(Octet) /\ Len(short) = 12
    <3> DEFINE i == 3
               j == 14
    <3>1. i \in 1 .. Len(text) + 1 /\ j \in i - 1 .. Len(text) /\ j - i + 1 = 12
      BY <1>1
    <3>2. short = SubSeq(text, i, j)
      OBVIOUS
    <3> HIDE DEF i, j, short
    <3>3. SubSeq(text, i, j) \in Seq(Octet) /\ Len(SubSeq(text, i, j)) = j - i + 1
      BY <3>1, PartIs
    <3> QED BY <3>1, <3>2, <3>3
  <2>9. long \in Seq(Octet) /\ Len(long) <= 14
    <3>1. first \in 1 .. 4
      BY DEF FirstYearDigit
    <3> HIDE DEF first
    <3> DEFINE j == 14
    <3>2. first \in 1 .. Len(text) + 1 /\ j \in first - 1 .. Len(text) /\ j - first + 1 <= 14
      BY <1>1, <3>1
    <3>3. long = SubSeq(text, first, j)
      OBVIOUS
    <3> HIDE DEF j, long
    <3>4. SubSeq(text, first, j) \in Seq(Octet) /\ Len(SubSeq(text, first, j)) = j - first + 1
      BY <3>2, PartIs
    <3> QED BY <3>2, <3>3, <3>4
  <2>3. a \in Seq(Octet) /\ Len(a) = 13 /\ b \in Seq(Octet) /\ Len(b) <= 15
    <3> HIDE DEF short, long
    <3>0. short \in Seq(Octet) /\ long \in Seq(Octet)
      BY <2>2, <2>9
    <3>1. Append(short, Zulu) \in Seq(Octet) /\ Len(Append(short, Zulu)) = Len(short) + 1
      BY <2>1, <3>0, AppendProperties
    <3>2. Append(long, Zulu) \in Seq(Octet) /\ Len(Append(long, Zulu)) = Len(long) + 1
      BY <2>1, <3>0, AppendProperties
    <3>3. Len(short) + 1 = 13 /\ Len(long) \in Nat /\ Len(long) + 1 <= 15
      BY <2>2, <2>9, <3>0
    <3> QED BY <3>1, <3>2, <3>3
  <2>4. TagUtcTime \in Octet /\ TagUtcTime % 32 # 31 /\ TagGeneralizedTime \in Octet /\ TagGeneralizedTime % 32 # 31
    BY DEF TagUtcTime, TagGeneralizedTime, Octet
  <2>5. EncodeTime(text) \in {EncodeTlv(TagUtcTime, a), EncodeTlv(TagGeneralizedTime, b)}
    BY DEF EncodeTime
  <2> HIDE DEF a, b, first, long
  <2>a. Len(a) <= 40 /\ Len(b) <= 40 /\ Len(a) + 2 <= 17 /\ Len(b) + 2 <= 17
    BY <2>3
  <2>b. a \in Seq(Octet) /\ b \in Seq(Octet)
    BY <2>3
  <2>6. EncodeTlv(TagUtcTime, a) \in Seq(Octet) /\ Len(EncodeTlv(TagUtcTime, a)) = Len(a) + 2
    BY <2>a, <2>b, <2>4, ShortValue
  <2>7. EncodeTlv(TagGeneralizedTime, b) \in Seq(Octet) /\ Len(EncodeTlv(TagGeneralizedTime, b)) = Len(b) + 2
    BY <2>a, <2>b, <2>4, ShortValue
  <2>8. Len(EncodeTlv(TagUtcTime, a)) <= 17 /\ Len(EncodeTlv(TagGeneralizedTime, b)) <= 17
    BY <2>a, <2>6, <2>7
  <2> QED BY <2>5, <2>6, <2>7, <2>8
<1>2. PICK t \in ReadTlv(data, 1) : \E members \in IterSequence(t.content) :
        Len(members) = 2 /\ validity \in DecodeTime(members[1]) \X DecodeTime(members[2])
  BY DEF DecodeValidity
<1>3. PICK members \in IterSequence(t.content) :
        Len(members) = 2 /\ validity \in DecodeTime(members[1]) \X DecodeTime(members[2])
  BY <1>2
<1>4. members \in Seq(TlvRecord)
  <2> DEFINE c == t.content
  <2>1. c \in Seq(Octet)
    BY ReadTypes, TlvTypes
  <2> HIDE DEF c
  <2>2. ListsContent(members, c)
    BY <1>3, <2>1, IterSequenceIs DEF c
  <2> QED BY <2>2 DEF ListsContent
<1>5. members[1] \in TlvRecord /\ members[2] \in TlvRecord
  <2>1. 1 \in 1 .. Len(members) /\ 2 \in 1 .. Len(members)
    BY <1>3
  <2> QED BY <1>4, <2>1, ElementOfSeq
<1>6. validity[1] \in DecodeTime(members[1]) /\ validity[2] \in DecodeTime(members[2])
  BY <1>3
<1> DEFINE a == EncodeTime(validity[1])
           b == EncodeTime(validity[2])
           content == FlattenSeq(<<a, b>>)
<1>7. a \in Seq(Octet) /\ Len(a) <= 17 /\ b \in Seq(Octet) /\ Len(b) <= 17
  BY <1>1, <1>5, <1>6, TimeIs
<1> HIDE DEF a, b
<1>8. content \in Seq(Octet) /\ Len(content) <= 40
  <2>1. <<a>> \in Seq(Seq(Octet)) /\ <<b>> \in Seq(Seq(Octet)) /\ FlattenSeq(<<a>>) = a /\ FlattenSeq(<<b>>) = b
    BY <1>7, FlattenOne
  <2>2. <<a>> \o <<b>> = <<a, b>>
    BY <1>7, PairIs
  <2>3. FlattenSeq(<<a>> \o <<b>>) = FlattenSeq(<<a>>) \o FlattenSeq(<<b>>)
    BY <2>1, FlattenConcat
  <2>4. content = a \o b
    BY <2>1, <2>2, <2>3
  <2>5. a \o b \in Seq(Octet) /\ Len(a \o b) = Len(a) + Len(b)
    BY <1>7, ConcatParts
  <2>6. Len(a) + Len(b) <= 40
    BY <1>7
  <2> QED BY <2>4, <2>5, <2>6
<1> HIDE DEF content
<1>9. IsTlv(EncodeTlv(TagSequence, content)) /\ EncodeTlv(TagSequence, content) \in Seq(Octet)
  BY <1>8, ShortValue, TagsDiffer
<1> QED BY <1>9 DEF EncodeValidity, EncodeSequence, content, a, b

\* The version is encoded again as it was.
LEMMA VersionPart ==
  ASSUME NEW f, NEW o, NEW version, NEW data, Accepted(f, o, version, data), NEW hash, NEW m, EntryFields(m, f, o, hash)
  PROVE  /\ o = 0 => version = V1
         /\ o = 1 => /\ version # V1
                     /\ EncodeTlv(Explicit(0), EncodeInteger(version)) = f[1].der
         /\ VersionsOf(m) = {version}
<1>1. /\ f \in Seq(TlvRecord) /\ o \in {0, 1} /\ Len(f) \in Nat /\ Len(f) >= o + 6 /\ AreFields(f, data)
      /\ o = IF HasVersion(f) THEN 1 ELSE 0
      /\ version \in IF HasVersion(f) THEN ExplicitVersions(f[1]) ELSE {V1}
  BY DEF Accepted, AreFields, Offset
<1>2. (HasVersion(m) <=> o = 1) /\ version \in VersionsOf(m)
  BY EntryVersion
<1>3. CASE o = 0
  BY <1>1, <1>2, <1>3 DEF VersionsOf
<1>4. CASE o = 1
  <2>1. HasVersion(f) /\ HasVersion(m) /\ f[1].tag = Explicit(0) /\ m[1].content = f[1].content
    <3>1. HasVersion(f) /\ HasVersion(m)
      BY <1>1, <1>2, <1>4
    <3>2. Same(m[1], f[1])
      BY <1>4 DEF EntryFields
    <3> QED BY <3>1, <3>2 DEF HasVersion, Same
  <2> DEFINE c == f[1].content
  <2>2. PICK w \in WholeTlv(c, TagInteger) : version = w.content /\ w.content \in {<<1>>, <<2>>}
    BY <1>1, <2>1 DEF ExplicitVersions
  <2>3. /\ c \in Seq(Octet) /\ MembersAreCanonical(f[1], 1) /\ EncodeTlv(f[1].tag, c) = f[1].der
    <3> DEFINE k == 1
    <3>1. k \in 1 .. Len(f) /\ AreFields(f, data)
      BY <1>1
    <3> HIDE DEF k
    <3>2. f[k].content \in Seq(Octet) /\ MembersAreCanonical(f[k], 1) /\ EncodeTlv(f[k].tag, f[k].content) = f[k].der
      BY <3>1, FieldIs
    <3> QED BY <3>2 DEF k
  <2>4. \E members \in IterSequence(c) : \A k \in DOMAIN members : CanonicalAt[<<members[k].der, 1 + 1>>]
    <3>1. (Explicit(0) \div 32) % 2 = 1
      BY DEF Explicit
    <3> QED BY <2>1, <2>3, <3>1 DEF MembersAreCanonical
  <2> HIDE DEF c
  <2>5. PICK i \in IterSequence(c) :
          /\ Len(i) = 1 /\ WasParsed(i[1]) /\ Same(i[1], w) /\ w.tag = TagInteger /\ i[1].der = c
          /\ IterSequence(c) = {i}
    BY <2>2, <2>3, InnerIs
  <2>6. version = i[1].content /\ i[1].tag = TagInteger /\ version \in {<<1>>, <<2>>}
    BY <2>2, <2>5 DEF Same
  <2>7. version # <<>> /\ Minimal(version) = version /\ version # V1
    BY <2>6, SmallVersion
  <2>8. CanonicalAt[<<c, 2>>]
    <3>1. 1 \in DOMAIN i
      <4>1. i \in Seq(TlvRecord)
        <5>1. ListsContent(i, c)
          BY <2>3, <2>5, IterSequenceIs
        <5> QED BY <5>1 DEF ListsContent
      <4> QED BY <2>5, <4>1, LenProperties
    <3>2. CanonicalAt[<<i[1].der, 1 + 1>>]
      BY <2>4, <2>5, <3>1
    <3>3. 1 + 1 = 2
      OBVIOUS
    <3> QED BY <2>5, <3>2, <3>3
  <2>9. EncodeTlv(i[1].tag, i[1].content) = c
    <3> DEFINE t == i[1]
               n == t.next
               v == Parsed(c, Len(c) + 1)
    <3>1. 2 \in 0 .. MaxDepth
      BY DEF MaxDepth
    <3>2. CanonicalAs(c, 2, v)
      BY <2>3, <2>8, <3>1, CanonicalIs
    <3>3. t = Parsed(c, n)
      BY <2>5 DEF WasParsed
    <3> HIDE DEF t, n
    <3>4. t.tag = v.tag /\ t.content = v.content
      BY <3>3 DEF Parsed
    <3>5. EncodeTlv(v.tag, v.content) = c
      BY <3>2 DEF CanonicalAs
    <3> HIDE DEF v
    <3> QED BY <3>4, <3>5 DEF t
  <2>10. EncodeTlv(Explicit(0), EncodeInteger(version)) = f[1].der
    BY <2>1, <2>3, <2>6, <2>7, <2>9 DEF EncodeInteger
  <2>11. \A x \in VersionsOf(m) : x = version
    BY <2>1, <2>5, <2>6, <2>7 DEF VersionsOf, c
  <2> QED BY <1>2, <1>4, <2>7, <2>10, <2>11
<1> QED BY <1>1, <1>3, <1>4

\* The content of a BIT STRING that was checked.
LEMMA BitsAre ==
  ASSUME NEW content \in Seq(Octet), Bits(content) # {}
  PROVE  /\ content # <<>> /\ content = <<content[1]>> \o Tail(content) /\ content[1] \in Octet
         /\ Tail(content) \in Seq(Octet) /\ Len(content) = 1 + Len(Tail(content))
         /\ {b.bits : b \in DecodeBitString(content)} = {Tail(content)}
         /\ <<0>> \o Tail(content) \in Seq(Octet) /\ Len(<<0>> \o Tail(content)) = Len(content)
         /\ <<0>> \o Tail(content) = content <=> content[1] = 0
<1>1. DecodeBitString(content) # {}
  BY DEF Bits
<1>2. content # <<>> /\ DecodeBitString(content) = {[bits |-> Tail(content), unused |-> content[1]]}
  BY <1>1 DEF DecodeBitString
<1>3. {b.bits : b \in DecodeBitString(content)} = {Tail(content)}
  BY <1>2
<1> DEFINE rest == SubSeq(content, 2, Len(content))
<1>4. rest \in Seq(Octet) /\ content = <<content[1]>> \o rest /\ Tail(content) = rest
  BY <1>2, FirstAndRest
<1>5. content[1] \in Octet /\ 0 \in Octet
  <2>1. 1 \in 1 .. Len(content)
    BY <1>2, EmptySeq
  <2> QED BY <2>1, OctetIs, OctetRange
<1> DEFINE first == content[1]
<1> HIDE DEF rest
<1>6. /\ <<0>> \o rest \in Seq(Octet) /\ Len(<<0>> \o rest) = 1 + Len(rest) /\ (<<0>> \o rest)[1] = 0
  BY <1>4, <1>5, ConsElements
<1>7. Len(<<first>> \o rest) = 1 + Len(rest)
  BY <1>4, <1>5, ConsElements
<1>8. <<0>> \o rest = content <=> first = 0
  <2>1. <<0>> \o rest = content => content[1] = 0
    BY <1>6
  <2>2. first = 0 => <<0>> \o rest = content
    BY <1>4
  <2> QED BY <2>1, <2>2
<1> QED BY <1>2, <1>3, <1>4, <1>5, <1>6, <1>7, <1>8

\* Two encodings with the same tag are the same if their contents are.
LEMMA ContentsDecide ==
  ASSUME NEW tag \in Octet, tag % 32 # 31, NEW a \in Seq(Octet), Len(a) < Pow2[32], NEW b \in Seq(Octet), Len(b) < Pow2[32]
  PROVE  EncodeTlv(tag, a) = EncodeTlv(tag, b) <=> a = b
<1> DEFINE p(c) == Parsed(EncodeTlv(tag, c), 1)
<1>1. p(a).content = a /\ p(b).content = b
  BY EncodedIs
<1> QED BY <1>1

\* The optional fields of an entry whose certificate was accepted.
OptionalFields(q) ==
  /\ q \in Seq(TlvRecord)
  /\ \A k \in 1 .. Len(q) :
       /\ WasParsed(q[k])
       /\ EncodeTlv(q[k].tag, q[k].content) = q[k].der
       /\ Len(q[k].content) < Pow2[32]
       /\ Order(q[k].tag) # 0
       /\ q[k].tag = Explicit(3) => ValidExtensions(q[k])
       /\ q[k].tag # Explicit(3) => Bits(q[k].content) # {}
  /\ \A j, k \in 1 .. Len(q) : j < k => Order(q[j].tag) < Order(q[k].tag)

\* The octets of the field with a tag.
Tagged(q, tag) == One({x.der : x \in LastTagged(q, tag)})

\* The three tags and their order.
LEMMA OrderIs ==
  /\ Implicit(1) \in Octet /\ Implicit(1) % 32 # 31 /\ Implicit(2) \in Octet /\ Implicit(2) % 32 # 31
  /\ Explicit(3) \in Octet /\ Explicit(3) % 32 # 31
  /\ Implicit(1) # Implicit(2) /\ Implicit(1) # Explicit(3) /\ Implicit(2) # Explicit(3)
  /\ \A tag : /\ Order(tag) \in 0 .. 3
              /\ Order(tag) = 1 <=> tag = Implicit(1)
              /\ Order(tag) = 2 <=> tag = Implicit(2)
              /\ Order(tag) = 3 <=> tag = Explicit(3)
<1>1. Implicit(1) = 129 /\ Implicit(2) = 130 /\ Explicit(3) = 163
  BY DEF Implicit, Explicit
<1>2. \A tag : Order(tag) = IF tag = 129 THEN 1 ELSE IF tag = 130 THEN 2 ELSE IF tag = 163 THEN 3 ELSE 0
  BY <1>1 DEF Order
<1> QED BY <1>1, <1>2 DEF Octet

\* There is at most one field with a tag.
LEMMA LastTaggedIs ==
  ASSUME NEW q, OptionalFields(q), NEW tag
  PROVE  /\ (\A k \in 1 .. Len(q) : q[k].tag # tag) => LastTagged(q, tag) = {} /\ Tagged(q, tag) = <<>>
         /\ \A k \in 1 .. Len(q) : q[k].tag = tag =>
              LastTagged(q, tag) = {q[k]} /\ Tagged(q, tag) = <<q[k].der>>
<1>1. q \in Seq(TlvRecord) /\ \A j, k \in 1 .. Len(q) : j < k => Order(q[j].tag) < Order(q[k].tag)
  BY DEF OptionalFields
<1>2. DOMAIN q = 1 .. Len(q) /\ Len(q) \in Nat
  BY <1>1, LenProperties
<1>3. \A j, k \in 1 .. Len(q) : q[j].tag = q[k].tag => j = k
  <2> SUFFICES ASSUME NEW j \in 1 .. Len(q), NEW k \in 1 .. Len(q), q[j].tag = q[k].tag, j # k PROVE FALSE
    OBVIOUS
  <2>1. Order(q[j].tag) \in Nat /\ Order(q[j].tag) = Order(q[k].tag)
    BY OrderIs
  <2>2. j < k \/ k < j
    BY <1>2
  <2> QED BY <1>1, <2>1, <2>2
<1>4. ASSUME \A k \in 1 .. Len(q) : q[k].tag # tag
      PROVE  LastTagged(q, tag) = {} /\ Tagged(q, tag) = <<>>
  <2>1. LastTagged(q, tag) = {}
    BY <1>2, <1>4 DEF LastTagged
  <2>2. {x.der : x \in LastTagged(q, tag)} = {}
    BY <2>1
  <2> QED BY <2>1, <2>2, OneOfSet DEF Tagged
<1>5. ASSUME NEW k \in 1 .. Len(q), q[k].tag = tag
      PROVE  LastTagged(q, tag) = {q[k]} /\ Tagged(q, tag) = <<q[k].der>>
  <2>1. \A i \in DOMAIN q : q[i].tag = tag => i = k
    BY <1>2, <1>3, <1>5
  <2>2. \A j \in k + 1 .. Len(q) : q[j].tag # tag
    BY <1>2, <2>1
  <2>3. k \in {i \in DOMAIN q : q[i].tag = tag /\ \A j \in i + 1 .. Len(q) : q[j].tag # tag}
    BY <1>2, <1>5, <2>2
  <2>4. LastTagged(q, tag) = {q[k]}
    BY <2>1, <2>3 DEF LastTagged
  <2>5. {x.der : x \in LastTagged(q, tag)} = {q[k].der}
    BY <2>4
  <2> DEFINE d == q[k].der
  <2>6. One({d}) = <<d>>
    <3> DEFINE E == {d}
    <3>1. d \in E
      OBVIOUS
    <3> HIDE DEF E, d
    <3> QED BY <3>1, OneOfSet
  <2> QED BY <2>4, <2>5, <2>6 DEF Tagged
<1> QED BY <1>4, <1>5

\* Up to three elements in their order.
LEMMA UpToThree ==
  ASSUME NEW E, NEW a \in E, NEW b \in E, NEW c \in E
  PROVE  /\ (<<>> \o <<>>) \o <<>> = <<>>
         /\ (<<a>> \o <<>>) \o <<>> = <<a>> /\ (<<>> \o <<a>>) \o <<>> = <<a>> /\ (<<>> \o <<>>) \o <<a>> = <<a>>
         /\ (<<a>> \o <<b>>) \o <<>> = <<a, b>> /\ (<<a>> \o <<>>) \o <<b>> = <<a, b>>
         /\ (<<>> \o <<a>>) \o <<b>> = <<a, b>>
         /\ (<<a>> \o <<b>>) \o <<c>> = <<a, b, c>>
<1>1. <<>> \in Seq(E) /\ <<a>> \in Seq(E) /\ <<b>> \in Seq(E) /\ <<a, b>> \in Seq(E)
  OBVIOUS
<1>2. <<a>> \o <<b>> = <<a, b>>
  BY PairIs
<1>3. <<>> \o <<>> = <<>> /\ <<a>> \o <<>> = <<a>> /\ <<>> \o <<a>> = <<a>> /\ <<a, b>> \o <<>> = <<a, b>>
  BY <1>1, ConcatEmptySeq
<1>4. <<a, b>> \o <<c>> = <<a, b, c>>
  <2>1. Append(<<a, b>>, c) = <<a, b>> \o <<c>>
    BY <1>1, AppendIsConcat
  <2> DEFINE s == <<a, b>>
             w == Append(s, c)
  <2>3. s \in Seq(E) /\ Len(s) = 2 /\ s[1] = a /\ s[2] = b
    BY <1>1
  <2> HIDE DEF s
  <2>4. w \in Seq(E) /\ Len(w) = Len(s) + 1 /\ (\A k \in 1 .. Len(s) : w[k] = s[k]) /\ w[Len(s) + 1] = c
    <3>1. s \in Seq(E)
      BY <2>3
    <3> QED BY <3>1, AppendProperties
  <2> HIDE DEF w
  <2>5. w \in Seq(E) /\ Len(w) = 3 /\ w[1] = a /\ w[2] = b /\ w[3] = c
    BY <2>3, <2>4
  <2>6. w = <<w[1], w[2], w[3]>>
    BY <2>5, ThreeIs
  <2>2. Append(<<a, b>>, c) = <<a, b, c>>
    BY <2>5, <2>6 DEF w, s
  <2> QED BY <2>1, <2>2
<1> QED BY <1>2, <1>3, <1>4

\* The optional fields stand in their order.
LEMMA InOrder ==
  ASSUME NEW q, OptionalFields(q)
  PROVE  DersOf(q) = (Tagged(q, Implicit(1)) \o Tagged(q, Implicit(2))) \o Tagged(q, Explicit(3))
<1> DEFINE x == Tagged(q, Implicit(1))
           y == Tagged(q, Implicit(2))
           z == Tagged(q, Explicit(3))
           n == Len(q)
           r == [k \in 1 .. n |-> Order(q[k].tag)]
           d == DersOf(q)
<1>1. /\ q \in Seq(TlvRecord) /\ n \in Nat /\ d \in Seq(Seq(Octet)) /\ Len(d) = n /\ \A k \in 1 .. n : d[k] = q[k].der
  BY DersType, LenProperties DEF OptionalFields
<1>2. /\ \A k \in 1 .. n : r[k] \in 1 .. 3
      /\ \A k \in 1 .. n : /\ r[k] = 1 <=> q[k].tag = Implicit(1)
                           /\ r[k] = 2 <=> q[k].tag = Implicit(2)
                           /\ r[k] = 3 <=> q[k].tag = Explicit(3)
      /\ \A j, k \in 1 .. n : j < k => r[j] < r[k]
  <2>1. \A k \in 1 .. n : Order(q[k].tag) # 0
    BY DEF OptionalFields
  <2>2. \A j, k \in 1 .. n : j < k => Order(q[j].tag) < Order(q[k].tag)
    BY DEF OptionalFields
  <2> QED BY <2>1, <2>2, OrderIs
<1> HIDE DEF r
<1>3. /\ (\A k \in 1 .. n : r[k] # 1) => x = <<>>
      /\ (\A k \in 1 .. n : r[k] # 2) => y = <<>>
      /\ (\A k \in 1 .. n : r[k] # 3) => z = <<>>
  BY <1>2, LastTaggedIs
<1>4. ASSUME NEW k \in 1 .. n
      PROVE  /\ r[k] = 1 => x = <<d[k]>>
             /\ r[k] = 2 => y = <<d[k]>>
             /\ r[k] = 3 => z = <<d[k]>>
  BY <1>1, <1>2, LastTaggedIs
<1> HIDE DEF x, y, z, n, d
<1>5. n <= 3
  <2> SUFFICES ASSUME n > 3 PROVE FALSE
    BY <1>1
  <2>1. 1 \in 1 .. n /\ 2 \in 1 .. n /\ 3 \in 1 .. n /\ 4 \in 1 .. n
    BY <1>1
  <2>2. r[1] < r[2] /\ r[2] < r[3] /\ r[3] < r[4] /\ r[1] \in 1 .. 3 /\ r[2] \in 1 .. 3 /\ r[3] \in 1 .. 3 /\ r[4] \in 1 .. 3
    BY <1>2, <2>1
  <2> QED BY <2>2
<1>6. \A k \in 1 .. n : d[k] \in Seq(Octet)
  BY <1>1, ElementOfSeq
<1>7. CASE n = 0
  <2>1. d = <<>>
    BY <1>1, <1>7, EmptySeq
  <2>2. x = <<>> /\ y = <<>> /\ z = <<>>
    BY <1>3, <1>7
  <2>3. (<<>> \o <<>>) \o <<>> = <<>>
    OBVIOUS
  <2>4. d = (x \o y) \o z
    BY <2>1, <2>2, <2>3
  <2> QED BY <2>4 DEF d, x, y, z
<1>8. CASE n = 1
  <2> DEFINE a == d[1]
  <2>1. a \in Seq(Octet) /\ r[1] \in 1 .. 3 /\ d = <<a>>
    <3>1. d = <<d[1]>>
      BY <1>1, <1>8
    <3> QED BY <1>2, <1>6, <1>8, <3>1
  <2>2. /\ r[1] = 1 => x = <<a>> /\ y = <<>> /\ z = <<>>
        /\ r[1] = 2 => x = <<>> /\ y = <<a>> /\ z = <<>>
        /\ r[1] = 3 => x = <<>> /\ y = <<>> /\ z = <<a>>
    BY <1>3, <1>4, <1>8
  <2> HIDE DEF a
  <2>3. (<<a>> \o <<>>) \o <<>> = <<a>> /\ (<<>> \o <<a>>) \o <<>> = <<a>> /\ (<<>> \o <<>>) \o <<a>> = <<a>>
    BY <2>1, UpToThree
  <2>4. d = (x \o y) \o z
    <3>1. r[1] = 1 \/ r[1] = 2 \/ r[1] = 3
      BY <2>1
    <3>2. d = <<a>>
      BY <2>1
    <3> QED BY <2>2, <2>3, <3>1, <3>2
  <2> QED BY <2>4 DEF d, x, y, z
<1>9. CASE n = 2
  <2> DEFINE a == d[1]
             b == d[2]
  <2>1. a \in Seq(Octet) /\ b \in Seq(Octet) /\ d = <<a, b>>
    <3>1. d = <<d[1], d[2]>>
      BY <1>1, <1>9
    <3> QED BY <1>6, <1>9, <3>1
  <2>2. r[1] \in 1 .. 3 /\ r[2] \in 1 .. 3 /\ r[1] < r[2]
    BY <1>2, <1>9
  <2>3. /\ r[1] = 1 /\ r[2] = 2 => x = <<a>> /\ y = <<b>> /\ z = <<>>
        /\ r[1] = 1 /\ r[2] = 3 => x = <<a>> /\ y = <<>> /\ z = <<b>>
        /\ r[1] = 2 /\ r[2] = 3 => x = <<>> /\ y = <<a>> /\ z = <<b>>
    BY <1>3, <1>4, <1>9
  <2> HIDE DEF a, b
  <2>4. (<<a>> \o <<b>>) \o <<>> = <<a, b>> /\ (<<a>> \o <<>>) \o <<b>> = <<a, b>> /\ (<<>> \o <<a>>) \o <<b>> = <<a, b>>
    BY <2>1, UpToThree
  <2>5. d = (x \o y) \o z
    <3>1. (r[1] = 1 /\ r[2] = 2) \/ (r[1] = 1 /\ r[2] = 3) \/ (r[1] = 2 /\ r[2] = 3)
      BY <2>2
    <3>2. d = <<a, b>>
      BY <2>1
    <3> QED BY <2>3, <2>4, <3>1, <3>2
  <2> QED BY <2>5 DEF d, x, y, z
<1>10. CASE n = 3
  <2> DEFINE a == d[1]
             b == d[2]
             c == d[3]
  <2>1. a \in Seq(Octet) /\ b \in Seq(Octet) /\ c \in Seq(Octet) /\ d = <<a, b, c>>
    <3>1. d = <<d[1], d[2], d[3]>>
      BY <1>1, <1>10, ThreeIs
    <3> QED BY <1>6, <1>10, <3>1
  <2>2. r[1] = 1 /\ r[2] = 2 /\ r[3] = 3
    <3>1. r[1] \in 1 .. 3 /\ r[2] \in 1 .. 3 /\ r[3] \in 1 .. 3 /\ r[1] < r[2] /\ r[2] < r[3]
      BY <1>2, <1>10
    <3> QED BY <3>1
  <2>3. x = <<a>> /\ y = <<b>> /\ z = <<c>>
    BY <1>4, <1>10, <2>2
  <2> HIDE DEF a, b, c
  <2>4. (<<a>> \o <<b>>) \o <<c>> = <<a, b, c>>
    BY <2>1, UpToThree
  <2>5. d = (x \o y) \o z
    BY <2>1, <2>3, <2>4
  <2> QED BY <2>5 DEF d, x, y, z
<1>11. n = 0 \/ n = 1 \/ n = 2 \/ n = 3
  BY <1>1, <1>5
<1> QED BY <1>7, <1>8, <1>9, <1>10, <1>11

\* The optional fields of the entry are those of its certificate.
LEMMA EntryOptional ==
  ASSUME NEW f, NEW o, NEW version, NEW data, Accepted(f, o, version, data),
         NEW hash, NEW m, EntryFields(m, f, o, hash), \A k \in 1 .. Len(m) : WasParsed(m[k])
  PROVE  /\ OptionalFields(SubSeq(m, o + 5, Len(m)))
         /\ Len(SubSeq(m, o + 5, Len(m))) = Len(f) - (o + 6)
         /\ \A k \in 1 .. Len(f) - (o + 6) : SubSeq(m, o + 5, Len(m))[k] = m[k + (o + 4)] /\ Same(m[k + (o + 4)], f[k + (o + 6)])
<1> DEFINE q == SubSeq(m, o + 5, Len(m))
           s == SubSeq(f, o + 7, Len(f))
           n == Len(f) - (o + 6)
<1>1. /\ f \in Seq(TlvRecord) /\ o \in {0, 1} /\ Len(f) \in Nat /\ Len(f) >= o + 6 /\ AreFields(f, data)
      /\ m \in Seq(TlvRecord) /\ Len(m) = Len(f) - 2
      /\ \A j \in o + 5 .. Len(f) - 2 : Same(m[j], f[j + 2])
  BY DEF Accepted, AreFields, EntryFields
<1>2. n \in Nat
  BY <1>1
<1>3. q \in Seq(TlvRecord) /\ Len(q) = n /\ \A k \in 1 .. n : q[k] = m[k + (o + 4)]
  <2> DEFINE i == o + 5
  <2>1. i \in 1 .. Len(m) + 1 /\ Len(m) \in i - 1 .. Len(m) /\ Len(m) - i + 1 = n /\ \A k \in 1 .. n : i + k - 1 = k + (o + 4)
    BY <1>1
  <2> HIDE DEF i, n
  <2>2. SubSeq(m, i, Len(m)) \in Seq(TlvRecord) /\ Len(SubSeq(m, i, Len(m))) = Len(m) - i + 1
        /\ \A k \in 1 .. Len(m) - i + 1 : SubSeq(m, i, Len(m))[k] = m[i + k - 1]
    BY <1>1, <2>1, PartIs
  <2> QED BY <2>1, <2>2 DEF i
<1>4. Len(s) = n /\ s \in Seq(TlvRecord) /\ \A k \in 1 .. n : s[k] = f[k + (o + 6)]
  <2> DEFINE i == o + 7
  <2>1. i \in 1 .. Len(f) + 1 /\ Len(f) \in i - 1 .. Len(f) /\ Len(f) - i + 1 = n /\ \A k \in 1 .. n : i + k - 1 = k + (o + 6)
    BY <1>1
  <2> HIDE DEF i, n
  <2>2. SubSeq(f, i, Len(f)) \in Seq(TlvRecord) /\ Len(SubSeq(f, i, Len(f))) = Len(f) - i + 1
        /\ \A k \in 1 .. Len(f) - i + 1 : SubSeq(f, i, Len(f))[k] = f[i + k - 1]
    BY <1>1, <2>1, PartIs
  <2> QED BY <2>1, <2>2 DEF i
<1>5. ValidOptionalFields(s, version)
  BY DEF Accepted, IsTbs
<1> HIDE DEF q, s, n
<1>6. DOMAIN s = 1 .. n
  BY <1>4, LenProperties
<1>7. \A j, k \in 1 .. n : j < k => Order(s[j].tag) < Order(s[k].tag)
  BY <1>5, <1>6 DEF ValidOptionalFields
<1>8. ASSUME NEW k \in 1 .. n
      PROVE  Same(q[k], s[k]) /\ Same(m[k + (o + 4)], f[k + (o + 6)]) /\ WasParsed(q[k]) /\ k + (o + 6) \in o + 7 .. Len(f)
  <2> DEFINE j == k + (o + 4)
  <2>1. j \in o + 5 .. Len(f) - 2 /\ j \in 1 .. Len(m) /\ j + 2 = k + (o + 6) /\ k + (o + 6) \in o + 7 .. Len(f)
    BY <1>1, <1>2 DEF n
  <2>2. q[k] = m[j] /\ s[k] = f[j + 2]
    BY <1>3, <1>4, <2>1
  <2> HIDE DEF j
  <2>3. Same(m[j], f[j + 2]) /\ WasParsed(m[j])
    BY <1>1, <2>1
  <2> QED BY <2>1, <2>2, <2>3 DEF j
<1>9. ASSUME NEW k \in 1 .. n
      PROVE  /\ EncodeTlv(q[k].tag, q[k].content) = q[k].der
             /\ Len(q[k].content) < Pow2[32]
             /\ Order(q[k].tag) # 0
             /\ q[k].tag = Explicit(3) => ValidExtensions(q[k])
             /\ q[k].tag # Explicit(3) => Bits(q[k].content) # {}
  <2> DEFINE j == k + (o + 6)
  <2>1. j \in o + 7 .. Len(f) /\ Same(q[k], s[k]) /\ s[k] = f[j]
    BY <1>4, <1>8
  <2>2. j \in 1 .. Len(f)
    BY <1>1, <2>1
  <2> HIDE DEF j
  <2>3. EncodeTlv(f[j].tag, f[j].content) = f[j].der /\ Len(f[j].content) < Pow2[32]
    BY <1>1, <2>2, FieldIs
  <2>4. /\ Order(f[j].tag) # 0
        /\ f[j].tag = Explicit(3) => ValidExtensions(f[j])
        /\ f[j].tag # Explicit(3) => Bits(f[j].content) # {}
    BY <2>1, OptionalFieldsAre
  <2>5. q[k].tag = f[j].tag /\ q[k].content = f[j].content /\ q[k].der = f[j].der
    BY <2>1 DEF Same
  <2>6. ValidExtensions(f[j]) => ValidExtensions(q[k])
    BY <2>5 DEF ValidExtensions
  <2> QED BY <2>3, <2>4, <2>5, <2>6
<1>10. \A j, k \in 1 .. n : j < k => Order(q[j].tag) < Order(q[k].tag)
  <2>1. \A k \in 1 .. n : q[k].tag = s[k].tag
    BY <1>8 DEF Same
  <2> QED BY <1>7, <2>1
<1>11. OptionalFields(q)
  BY <1>3, <1>8, <1>9, <1>10 DEF OptionalFields
<1> QED BY <1>3, <1>8, <1>11 DEF q, n

\* The unique ID that is encoded anew, without unused bits.
IdsOf(q, tag) == UNION {{b.bits : b \in DecodeBitString(x.content)} : x \in LastTagged(q, tag)}

\* It is the field again if that had no unused bits.
LEMMA UniquePart ==
  ASSUME NEW q, OptionalFields(q), NEW n \in {1, 2}
  PROVE  /\ Items(One(UniqueId(n, IdsOf(q, Implicit(n))))) /\ Items(Tagged(q, Implicit(n)))
         /\ Len(One(UniqueId(n, IdsOf(q, Implicit(n))))) = Len(Tagged(q, Implicit(n)))
         /\ One(UniqueId(n, IdsOf(q, Implicit(n)))) = Tagged(q, Implicit(n))
              <=> \A k \in 1 .. Len(q) : q[k].tag = Implicit(n) => q[k].content[1] = 0
<1> DEFINE tag == Implicit(n)
           ids == IdsOf(q, tag)
           anew == One(UniqueId(n, ids))
           was == Tagged(q, tag)
<1>1. tag \in Octet /\ tag % 32 # 31 /\ tag # Explicit(3)
  BY OrderIs
<1>2. UniqueId(n, ids) = {EncodeTlv(tag, <<0>> \o bits) : bits \in ids}
  BY DEF UniqueId
<1>3. ids = UNION {{b.bits : b \in DecodeBitString(x.content)} : x \in LastTagged(q, tag)}
  BY DEF IdsOf
<1> HIDE DEF tag, ids
<1>4. CASE \A k \in 1 .. Len(q) : q[k].tag # tag
  <2>1. LastTagged(q, tag) = {} /\ was = <<>>
    BY <1>4, LastTaggedIs
  <2>2. ids = {}
    BY <1>3, <2>1
  <2>3. UniqueId(n, ids) = {}
    BY <1>2, <2>2
  <2>4. anew = <<>>
    BY <2>3, OneOfSet
  <2>5. Items(<<>>)
    <3>1. <<>> \in Seq(Seq(Octet)) /\ Len(<<>>) = 0
      BY EmptySeq
    <3> QED BY <3>1 DEF Items
  <2>6. Items(anew) /\ Items(was) /\ Len(anew) = Len(was)
        /\ (anew = was <=> \A k \in 1 .. Len(q) : q[k].tag = tag => q[k].content[1] = 0)
    <3> HIDE DEF anew, was
    <3> QED BY <1>4, <2>1, <2>4, <2>5
  <2> QED BY <2>6 DEF tag, ids
<1>5. ASSUME NEW k \in 1 .. Len(q), q[k].tag = tag
      PROVE  Items(anew) /\ Items(was) /\ Len(anew) = Len(was)
             /\ (anew = was <=> \A j \in 1 .. Len(q) : q[j].tag = tag => q[j].content[1] = 0)
  <2> DEFINE x == q[k]
             c == x.content
             again == <<0>> \o Tail(c)
  <2>1. LastTagged(q, tag) = {x} /\ was = <<x.der>>
    BY <1>5, LastTaggedIs
  <2>2. /\ x \in TlvRecord /\ WasParsed(x) /\ Len(c) < Pow2[32] /\ Bits(c) # {} /\ EncodeTlv(tag, c) = x.der
    BY <1>1, <1>5 DEF OptionalFields, WasParsed
  <2>3. c \in Seq(Octet)
    BY <2>2, TlvTypes
  <2> HIDE DEF c, x
  <2>4. /\ {b.bits : b \in DecodeBitString(c)} = {Tail(c)} /\ again \in Seq(Octet) /\ Len(again) = Len(c)
        /\ again = c <=> c[1] = 0
    BY <2>2, <2>3, BitsAre
  <2>5. ids = {Tail(c)}
    <3>1. ids = UNION {{b.bits : b \in DecodeBitString(y.content)} : y \in {x}}
      BY <1>3, <2>1
    <3>2. ids = {b.bits : b \in DecodeBitString(c)}
      BY <3>1 DEF c
    <3> QED BY <2>4, <3>2
  <2>6. UniqueId(n, ids) = {EncodeTlv(tag, again)}
    BY <1>2, <2>5
  <2> HIDE DEF again
  <2>7. IsTlv(EncodeTlv(tag, again)) /\ IsTlv(x.der)
    <3>1. Len(again) < Pow2[32]
      BY <2>2, <2>4
    <3>2. again \in Seq(Octet)
      BY <2>4
    <3>3. IsTlv(EncodeTlv(tag, again))
      BY <1>1, <3>1, <3>2, EncodedIs
    <3> QED BY <2>2, <3>3 DEF WasParsed
  <2> DEFINE new == EncodeTlv(tag, again)
             old == x.der
  <2>8. new \in Seq(Octet) /\ old \in Seq(Octet)
    BY <2>7 DEF IsTlv
  <2>9. new = old <=> c[1] = 0
    <3>1. again \in Seq(Octet) /\ Len(again) < Pow2[32] /\ c \in Seq(Octet) /\ Len(c) < Pow2[32]
      BY <2>2, <2>3, <2>4
    <3>2. EncodeTlv(tag, again) = EncodeTlv(tag, c) <=> again = c
      BY <1>1, <3>1, ContentsDecide
    <3> QED BY <2>2, <2>4, <3>2
  <2>10. anew = <<new>>
    <3> HIDE DEF new
    <3> QED BY <2>6, <2>8, OneOfSet DEF new
  <2> HIDE DEF new, old
  <2>11. ASSUME NEW d \in Seq(Octet), IsTlv(d) PROVE Items(<<d>>)
    <3>1. <<d>> \in Seq(Seq(Octet)) /\ Len(<<d>>) = 1 /\ <<d>>[1] = d
      BY OneIs
    <3>2. \A j \in 1 .. Len(<<d>>) : <<d>>[j] = d
      BY <3>1
    <3> QED BY <2>11, <3>1, <3>2 DEF Items
  <2>12. Items(<<new>>) /\ Items(<<old>>)
    BY <2>7, <2>8, <2>11 DEF new, old
  <2>13. <<new>> = <<old>> <=> new = old
    OBVIOUS
  <2>14. (\A j \in 1 .. Len(q) : q[j].tag = tag => q[j].content[1] = 0) <=> c[1] = 0
    <3>1. \A j \in 1 .. Len(q) : q[j].tag = tag => q[j].content = c
      <4>1. \A j \in 1 .. Len(q) : q[j].tag = tag => LastTagged(q, tag) = {q[j]}
        BY LastTaggedIs
      <4>2. \A j \in 1 .. Len(q) : q[j].tag = tag => q[j] = x
        BY <2>1, <4>1
      <4> QED BY <4>2 DEF c
    <3>2. q[k].tag = tag /\ k \in 1 .. Len(q)
      BY <1>5
    <3> QED BY <3>1, <3>2
  <2>15. Len(<<new>>) = Len(<<old>>)
    OBVIOUS
  <2>16. was = <<old>>
    BY <2>1 DEF old
  <2> HIDE DEF anew, was
  <2> QED BY <2>9, <2>10, <2>12, <2>13, <2>14, <2>15, <2>16
<1>6. Items(anew) /\ Items(was) /\ Len(anew) = Len(was)
      /\ (anew = was <=> \A j \in 1 .. Len(q) : q[j].tag = tag => q[j].content[1] = 0)
  <2>1. CASE \A k \in 1 .. Len(q) : q[k].tag # tag
    BY <1>4, <2>1 DEF tag, ids
  <2> HIDE DEF anew, was
  <2> QED BY <1>5, <2>1
<1> QED BY <1>6 DEF tag, ids

\* The extensions that are encoded anew.
ExtensionsIn(q) == UNION {ExtensionsOf(x) : x \in LastTagged(q, Explicit(3))}
\* The field that holds them, or nothing.
ExtensionField(extensions) == One({EncodeTlv(Explicit(3), EncodeSequence(e)) : e \in extensions \ {<< >>}})

\* What a field with extensions holds.
LEMMA ExtensionsAre ==
  ASSUME NEW x \in TlvRecord, x.tag = Explicit(3), ValidExtensions(x)
  PROVE  \E e \in Seq(Seq(Octet)) : e # <<>> /\ ExtensionsOf(x) = {e} /\ EncodeSequence(e) = x.content
<1> DEFINE c == x.content
<1>0. c \in Seq(Octet)
  BY TlvTypes
<1>1. PICK g \in Fields(c) : g # <<>>
  BY DEF ValidExtensions
<1>2. ExtensionsOf(x)
        = UNION {UNION {{[k \in DOMAIN extensions |-> extensions[k].der] : extensions \in IterSequence(inner[1].content)} :
                   inner \in {i \in IterSequence(c) : Len(i) = 1 /\ i[1].tag = TagSequence}}}
  BY DEF ExtensionsOf
<1> HIDE DEF c
<1>3. AreFields(g, c)
  BY <1>0, <1>1, FieldsAre
<1>4. PICK u \in WholeTlv(c, TagSequence) : g \in IterSequence(u.content)
  BY <1>1 DEF Fields
<1>5. PICK i \in IterSequence(c) : Len(i) = 1 /\ Same(i[1], u) /\ u.tag = TagSequence /\ IterSequence(c) = {i}
  BY <1>0, InnerIs
<1>6. u.content \in Seq(Octet)
  BY <1>0, <1>4, ReadTypes, TlvTypes DEF WholeTlv
<1>7. IterSequence(u.content) = {g}
  BY <1>4, <1>6, IterSequenceIs
<1>8. i[1].tag = TagSequence /\ IterSequence(i[1].content) = {g}
  BY <1>5, <1>7 DEF Same
<1>9. {j \in IterSequence(c) : Len(j) = 1 /\ j[1].tag = TagSequence} = {i}
  BY <1>5, <1>8
<1> DEFINE e == [k \in DOMAIN g |-> g[k].der]
<1>10. {[k \in DOMAIN extensions |-> extensions[k].der] : extensions \in IterSequence(i[1].content)} = {e}
  BY <1>8
<1> HIDE DEF e
<1>11. \A z : z \in ExtensionsOf(x) <=> z = e
  <2>1. ExtensionsOf(x)
          = UNION {UNION {{[k \in DOMAIN extensions |-> extensions[k].der] : extensions \in IterSequence(inner[1].content)} :
                     inner \in {i}}}
    BY <1>2, <1>9
  <2>2. ExtensionsOf(x) = UNION {{[k \in DOMAIN extensions |-> extensions[k].der] : extensions \in IterSequence(i[1].content)}}
    BY <2>1
  <2> QED BY <1>10, <2>2
<1>12. e = DersOf(g)
  BY DEF e, DersOf
<1>13. DersOf(g) \in Seq(Seq(Octet)) /\ Len(DersOf(g)) = Len(g) /\ c = EncodeSequence(DersOf(g)) /\ g \in Seq(TlvRecord)
  BY <1>3, DersType DEF AreFields
<1>14. e # <<>>
  <2>1. Len(g) # 0
    BY <1>1, <1>13, EmptySeq
  <2>2. Len(e) # 0
    BY <1>12, <1>13, <2>1
  <2> QED BY <2>2, EmptySeq
<1>15. ExtensionsOf(x) = {e}
  BY <1>11
<1> QED BY <1>12, <1>13, <1>14, <1>15 DEF c

\* They are the field again.
LEMMA ExtensionPart ==
  ASSUME NEW q, OptionalFields(q)
  PROVE  /\ ExtensionField(ExtensionsIn(q)) = Tagged(q, Explicit(3))
         /\ Items(Tagged(q, Explicit(3)))
<1> DEFINE tag == Explicit(3)
           was == Tagged(q, tag)
<1>1. CASE \A k \in 1 .. Len(q) : q[k].tag # tag
  <2>1. LastTagged(q, tag) = {} /\ was = <<>>
    BY <1>1, LastTaggedIs
  <2>2. ExtensionsIn(q) = {}
    BY <2>1 DEF ExtensionsIn
  <2>3. {EncodeTlv(tag, EncodeSequence(e)) : e \in ExtensionsIn(q) \ {<< >>}} = {}
    BY <2>2
  <2>4. ExtensionField(ExtensionsIn(q)) = <<>>
    BY <2>3, OneOfSet DEF ExtensionField
  <2>5. Items(<<>>)
    <3>1. <<>> \in Seq(Seq(Octet)) /\ Len(<<>>) = 0
      BY EmptySeq
    <3> QED BY <3>1 DEF Items
  <2> QED BY <2>1, <2>4, <2>5
<1>2. ASSUME NEW k \in 1 .. Len(q), q[k].tag = tag
      PROVE  ExtensionField(ExtensionsIn(q)) = was /\ Items(was)
  <2> DEFINE x == q[k]
  <2>1. LastTagged(q, tag) = {x} /\ was = <<x.der>>
    BY <1>2, LastTaggedIs
  <2>2. /\ x \in TlvRecord /\ WasParsed(x) /\ ValidExtensions(x) /\ EncodeTlv(tag, x.content) = x.der /\ x.tag = tag
    BY <1>2 DEF OptionalFields, WasParsed
  <2> HIDE DEF x
  <2>3. PICK e \in Seq(Seq(Octet)) : e # <<>> /\ ExtensionsOf(x) = {e} /\ EncodeSequence(e) = x.content
    BY <2>2, ExtensionsAre
  <2>4. ExtensionsIn(q) = {e}
    <3>1. ExtensionsIn(q) = UNION {ExtensionsOf(y) : y \in {x}}
      BY <2>1 DEF ExtensionsIn
    <3>2. ExtensionsIn(q) = ExtensionsOf(x)
      BY <3>1
    <3> QED BY <2>3, <3>2
  <2>5. ExtensionsIn(q) \ {<<>>} = {e}
    BY <2>3, <2>4
  <2>6. {EncodeTlv(tag, EncodeSequence(y)) : y \in ExtensionsIn(q) \ {<< >>}} = {EncodeTlv(tag, EncodeSequence(e))}
    BY <2>5
  <2>7. {EncodeTlv(tag, EncodeSequence(y)) : y \in ExtensionsIn(q) \ {<< >>}} = {x.der}
    BY <2>2, <2>3, <2>6
  <2> DEFINE d == x.der
  <2>8. IsTlv(d) /\ d \in Seq(Octet)
    BY <2>2 DEF WasParsed, IsTlv
  <2> HIDE DEF d
  <2>9. ExtensionField(ExtensionsIn(q)) = <<d>>
    BY <2>7, <2>8, OneOfSet DEF ExtensionField, d
  <2>10. Items(<<d>>)
    <3>1. <<d>> \in Seq(Seq(Octet)) /\ Len(<<d>>) = 1 /\ <<d>>[1] = d
      BY <2>8, OneIs
    <3>2. \A j \in 1 .. Len(<<d>>) : <<d>>[j] = d
      BY <3>1
    <3> QED BY <2>8, <3>1, <3>2 DEF Items
  <2> QED BY <2>1, <2>9, <2>10 DEF d
<1> QED BY <1>1, <1>2

\* Lists of values one after the other.
LEMMA ItemsConcat ==
  ASSUME NEW a, Items(a), NEW b, Items(b)
  PROVE  Items(a \o b)
<1>1. a \in Seq(Seq(Octet)) /\ b \in Seq(Seq(Octet)) /\ Len(a) \in Nat /\ Len(b) \in Nat
  BY LenProperties DEF Items
<1>2. /\ a \o b \in Seq(Seq(Octet)) /\ Len(a \o b) = Len(a) + Len(b)
      /\ \A k \in 1 .. Len(a) : (a \o b)[k] = a[k]
      /\ \A k \in 1 .. Len(b) : (a \o b)[Len(a) + k] = b[k]
  BY <1>1, ConcatParts, ConcatElements
<1> DEFINE w == a \o b
           n == Len(a)
<1> HIDE DEF w, n
<1>3. ASSUME NEW k \in 1 .. Len(w) PROVE IsTlv(w[k])
  <2>1. CASE k \in 1 .. n
    BY <1>2, <2>1 DEF w, n, Items
  <2>2. CASE k \notin 1 .. n
    <3> DEFINE j == k - n
    <3>1. j \in 1 .. Len(b) /\ n + j = k
      BY <1>1, <1>2, <2>2 DEF w, n
    <3> HIDE DEF j
    <3>2. w[n + j] = b[j]
      BY <1>2, <3>1 DEF w, n
    <3> QED BY <3>1, <3>2 DEF Items
  <2> QED BY <2>1, <2>2
<1> QED BY <1>2, <1>3 DEF w, Items

\* Five lists over one set.
AreFive(E, a, b, x, y, z) ==
  /\ a \in Seq(E) /\ b \in Seq(E)
  /\ x \in Seq(E) /\ y \in Seq(E) /\ z \in Seq(E)

\* Five lists, joined.
Joined(a, u, p, r, z) == (((a \o u) \o p) \o r) \o z

\* Five lists each, the middle ones of the same lengths.
Alike(E, a, u, v, p, q, r, s, z) ==
  /\ AreFive(E, a, u, p, r, z) /\ AreFive(E, a, v, q, s, z)
  /\ Len(u) = Len(v) /\ Len(p) = Len(q) /\ Len(r) = Len(s)

\* Lists with parts of the same lengths are the same if their parts are.
LEMMA SameParts ==
  ASSUME NEW E, NEW a, NEW u, NEW v, NEW p, NEW q, NEW r, NEW s, NEW z,
         Alike(E, a, u, v, p, q, r, s, z)
  PROVE  Joined(a, u, p, r, z) = Joined(a, v, q, s, z) <=> u = v /\ p = q /\ r = s
<1>0. /\ a \in Seq(E) /\ z \in Seq(E) /\ u \in Seq(E) /\ v \in Seq(E) /\ p \in Seq(E) /\ q \in Seq(E)
      /\ r \in Seq(E) /\ s \in Seq(E)
  BY DEF Alike, AreFive
<1>l. Len(u) = Len(v) /\ Len(p) = Len(q) /\ Len(r) = Len(s)
  BY DEF Alike
<1> DEFINE au == a \o u
           av == a \o v
           aup == au \o p
           avq == av \o q
           aupr == aup \o r
           avqs == avq \o s
<1>1. au \in Seq(E) /\ Len(au) = Len(a) + Len(u) /\ av \in Seq(E) /\ Len(av) = Len(a) + Len(v)
  BY <1>0, <1>l, ConcatParts
<1>2. Len(au) = Len(av)
  BY <1>0, <1>l, <1>1
<1> HIDE DEF au, av
<1>3. aup \in Seq(E) /\ Len(aup) = Len(au) + Len(p) /\ avq \in Seq(E) /\ Len(avq) = Len(av) + Len(q)
  <2>1. au \in Seq(E) /\ av \in Seq(E)
    BY <1>1
  <2>2. p \in Seq(E) /\ q \in Seq(E)
    BY <1>0
  <2> QED BY <2>1, <2>2, ConcatParts
<1>4. Len(aup) = Len(avq)
  BY <1>0, <1>l, <1>2, <1>3
<1> HIDE DEF aup, avq
<1>5. aupr \in Seq(E) /\ Len(aupr) = Len(aup) + Len(r) /\ avqs \in Seq(E) /\ Len(avqs) = Len(avq) + Len(s)
  <2>1. aup \in Seq(E) /\ avq \in Seq(E)
    BY <1>0, <1>l, <1>3
  <2> QED BY <1>0, <1>l, <2>1, ConcatParts
<1>6. Len(aupr) = Len(avqs)
  BY <1>0, <1>l, <1>4, <1>5
<1> HIDE DEF aupr, avqs
<1>7. aupr \o z = avqs \o z => aupr = avqs
  BY <1>0, <1>l, <1>5, <1>6, ConcatCancel
<1>8. aup \o r = avq \o s => aup = avq /\ r = s
  BY <1>0, <1>l, <1>3, <1>4, ConcatCancel
<1>9. au \o p = av \o q => au = av /\ p = q
  BY <1>0, <1>l, <1>1, <1>2, ConcatCancel
<1>10. a \o u = a \o v => u = v
  BY <1>0, <1>l, ConcatCancel
<1>11. aupr \o z = avqs \o z => u = v /\ p = q /\ r = s
  BY <1>0, <1>l, <1>7, <1>8, <1>9, <1>10 DEF aupr, avqs, aup, avq, au, av
<1>12. u = v /\ p = q /\ r = s => aupr \o z = avqs \o z
  BY DEF aupr, avqs, aup, avq, au, av
<1>13. Joined(a, u, p, r, z) = aupr \o z /\ Joined(a, v, q, s, z) = avqs \o z
  BY DEF Joined, aupr, avqs, aup, avq, au, av
<1> QED BY <1>11, <1>12, <1>13

\* Five lists, joined from the left or by their parts.
LEMMA FiveParts ==
  ASSUME NEW E, NEW a, NEW b, NEW x, NEW y, NEW z,
         AreFive(E, a, b, x, y, z)
  PROVE  a \o (b \o ((x \o y) \o z)) = (((a \o b) \o x) \o y) \o z
<1> DEFINE h == a \o b
           xy == x \o y
           xyz == xy \o z
<1>ab. a \in Seq(E) /\ b \in Seq(E)
  BY DEF AreFive
<1>xy. x \in Seq(E) /\ y \in Seq(E)
  BY DEF AreFive
<1>z. z \in Seq(E)
  BY DEF AreFive
<1>1. h \in Seq(E)
  BY <1>ab, ConcatParts
<1>2. xy \in Seq(E)
  BY <1>xy, ConcatParts
<1>3. (h \o x) \o y = h \o (x \o y)
  <2> HIDE DEF h
  <2> QED BY ONLY <1>1, <1>xy, ConcatThree
<1>4. (h \o xy) \o z = h \o (xy \o z)
  <2> HIDE DEF h, xy
  <2> QED BY ONLY <1>1, <1>2, <1>z, ConcatThree
<1>5. xyz \in Seq(E)
  <2> HIDE DEF xy
  <2> QED BY <1>2, <1>z, ConcatParts
<1>6. (a \o b) \o xyz = a \o (b \o xyz)
  <2> HIDE DEF xyz
  <2> QED BY ONLY <1>ab, <1>5, ConcatThree
<1> HIDE DEF h
<1>7. ((h \o x) \o y) \o z = h \o (xy \o z)
  BY <1>3, <1>4
<1> QED BY <1>6, <1>7 DEF h

\* The fields of an entry, as they were read.
EntryRead(m, f, o, version, data, hash, q) ==
  /\ Accepted(f, o, version, data)
  /\ EntryFields(m, f, o, hash)
  /\ \A k \in 1 .. Len(m) : WasParsed(m[k])
  /\ hash \in Seq(Octet) /\ Len(hash) < Pow2[32]
  /\ m[o + 4].der = EncodeTlv(TagOctetString, hash)
  /\ q = SubSeq(m, o + 5, Len(m))

\* The optional fields of an entry that was read.
LEMMA ReadOptional ==
  ASSUME NEW m, NEW f, NEW o, NEW version, NEW data, NEW hash, NEW q, EntryRead(m, f, o, version, data, hash, q)
  PROVE  /\ OptionalFields(q) /\ Len(q) = Len(f) - (o + 6)
         /\ \A k \in 1 .. Len(f) - (o + 6) : q[k] = m[k + (o + 4)] /\ Same(m[k + (o + 4)], f[k + (o + 6)])
<1> DEFINE r == SubSeq(m, o + 5, Len(m))
<1>1. Accepted(f, o, version, data)
  BY DEF EntryRead
<1>2. EntryFields(m, f, o, hash)
  BY DEF EntryRead
<1>3. \A k \in 1 .. Len(m) : WasParsed(m[k])
  BY DEF EntryRead
<1>4. /\ OptionalFields(r) /\ Len(r) = Len(f) - (o + 6)
      /\ \A k \in 1 .. Len(f) - (o + 6) : r[k] = m[k + (o + 4)] /\ Same(m[k + (o + 4)], f[k + (o + 6)])
  BY ONLY <1>1, <1>2, <1>3, EntryOptional, Zenon
<1>5. q = r
  BY DEF EntryRead
<1> HIDE DEF r
<1> QED BY ONLY <1>4, <1>5

\* The version, if it is written.
VersionItems(version) == IF version = V1 THEN <<>> ELSE <<EncodeTlv(Explicit(0), EncodeInteger(version))>>

\* The fields of the entry, grouped as they are encoded.
AreGrouped(m, o, version, q) ==
  /\ DersOf(m)
       = (((VersionItems(version) \o <<m[o + 1].der, m[o + 2].der, m[o + 3].der, m[o + 4].der>>)
            \o Tagged(q, Implicit(1))) \o Tagged(q, Implicit(2))) \o Tagged(q, Explicit(3))
  /\ Items(VersionItems(version)) /\ Len(VersionItems(version)) = o
  /\ \A k \in {1, 2, 3, 4} : m[o + k].der \in Seq(Octet) /\ IsTlv(m[o + k].der)

\* An entry that was read can be grouped that way.
LEMMA EntryGroups ==
  ASSUME NEW m, NEW f, NEW o, NEW version, NEW data, NEW hash, NEW q, EntryRead(m, f, o, version, data, hash, q)
  PROVE  AreGrouped(m, o, version, q)
<1>r. OptionalFields(q) /\ Len(q) = Len(f) - (o + 6)
      /\ \A k \in 1 .. Len(f) - (o + 6) : q[k] = m[k + (o + 4)] /\ Same(m[k + (o + 4)], f[k + (o + 6)])
  BY ReadOptional
<1>q. OptionalFields(q) /\ Len(q) = Len(f) - (o + 6) /\ \A k \in 1 .. Len(f) - (o + 6) : q[k] = m[k + (o + 4)]
  BY <1>r
<1> DEFINE d == DersOf(m)
           n == Len(m)
           pre == VersionItems(version)
           four == <<m[o + 1].der, m[o + 2].der, m[o + 3].der, m[o + 4].der>>
           E == Seq(Octet)
           x == Tagged(q, Implicit(1))
           y == Tagged(q, Implicit(2))
           z == Tagged(q, Explicit(3))
<1>1. /\ Accepted(f, o, version, data) /\ EntryFields(m, f, o, hash) /\ \A k \in 1 .. Len(m) : WasParsed(m[k])
  BY DEF EntryRead
<1>2. /\ f \in Seq(TlvRecord) /\ o \in {0, 1} /\ Len(f) \in Nat /\ Len(f) >= o + 6
      /\ m \in Seq(TlvRecord) /\ n = Len(f) - 2 /\ n \in Nat /\ n >= o + 4
      /\ \A j \in 1 .. o : Same(m[j], f[j])
  BY <1>1 DEF Accepted, AreFields, EntryFields
<1>3. d \in Seq(E) /\ Len(d) = n /\ \A k \in 1 .. n : d[k] = m[k].der
  BY <1>2, DersType
<1>4. \A k \in 1 .. n : m[k].der \in E /\ IsTlv(m[k].der)
  BY <1>1 DEF WasParsed, IsTlv
<1> HIDE DEF d, n
<1>a. o \in {0, 1} /\ n \in Nat /\ n >= o + 4 /\ Len(d) = n
  BY <1>2, <1>3
<1>b. d \in Seq(E)
  BY <1>3
<1>5. ASSUME NEW k \in {1, 2, 3, 4} PROVE m[o + k].der \in E /\ IsTlv(m[o + k].der) /\ d[o + k] = m[o + k].der
  <2>1. o + k \in 1 .. n
    BY <1>2
  <2> QED BY <1>3, <1>4, <2>1
<1>6. d = SubSeq(d, 1, o) \o (SubSeq(d, o + 1, o + 4) \o SubSeq(d, o + 5, n))
  <2>1. SubSeq(d, 1, n) = SubSeq(d, 1, o) \o SubSeq(d, o + 1, n)
    <3>1. 1 \in 1 .. Len(d) + 1 /\ o \in 1 - 1 .. Len(d) /\ n \in o .. Len(d)
      BY <1>2, <1>3
    <3> QED BY <1>3, <3>1, PartCut
  <2>2. SubSeq(d, o + 1, n) = SubSeq(d, o + 1, o + 4) \o SubSeq(d, o + 5, n)
    <3> DEFINE i == o + 1
               k == o + 4
    <3>1. i \in 1 .. Len(d) + 1 /\ k \in i - 1 .. Len(d) /\ n \in k .. Len(d) /\ k + 1 = o + 5
      BY <1>a
    <3> HIDE DEF i, k
    <3>2. SubSeq(d, i, n) = SubSeq(d, i, k) \o SubSeq(d, k + 1, n)
      BY <1>b, <3>1, PartCut
    <3> QED BY <3>1, <3>2 DEF i, k
  <2>3. SubSeq(d, 1, n) = d
    BY <1>3
  <2> QED BY <2>1, <2>2, <2>3
<1>7. SubSeq(d, 1, o) = pre /\ Len(pre) = o /\ Items(pre)
  <2>1. (o = 0 => version = V1) /\ (o = 1 => version # V1 /\ EncodeTlv(Explicit(0), EncodeInteger(version)) = f[1].der)
    BY <1>1, VersionPart
  <2>2. CASE o = 0
    <3>1. pre = <<>>
      BY <2>1, <2>2 DEF VersionItems
    <3>2. <<>> \in Seq(E) /\ Len(<<>>) = 0
      BY EmptySeq
    <3>3. Items(<<>>)
      BY <3>2 DEF Items
    <3>4. SubSeq(d, 1, 0) = <<>>
      <4>1. SubSeq(d, 1, 0) \in Seq(E) /\ Len(SubSeq(d, 1, 0)) = 0
        <5> DEFINE i == 1
                   j == 0
        <5>1. i \in 1 .. Len(d) + 1 /\ j \in i - 1 .. Len(d) /\ j - i + 1 = 0
          BY <1>2, <1>3
        <5> HIDE DEF i, j
        <5>2. SubSeq(d, i, j) \in Seq(E) /\ Len(SubSeq(d, i, j)) = j - i + 1
          BY <1>3, <5>1, PartIs
        <5> QED BY <5>1, <5>2 DEF i, j
      <4> QED BY <4>1, EmptySeq
    <3> QED BY <2>2, <3>1, <3>2, <3>3, <3>4
  <2>3. CASE o = 1
    <3> DEFINE e == m[1].der
    <3>1. Same(m[1], f[1]) /\ 1 \in 1 .. n
      BY <1>2, <2>3
    <3>2. e = f[1].der /\ e \in E /\ IsTlv(e) /\ d[1] = e
      BY <1>3, <1>4, <3>1 DEF Same
    <3>3. pre = <<e>>
      BY <2>1, <2>3, <3>2 DEF VersionItems
    <3> HIDE DEF e
    <3>4. <<e>> \in Seq(E) /\ Len(<<e>>) = 1 /\ <<e>>[1] = e
      BY <3>2, OneIs
    <3>5. Items(<<e>>)
      <4>1. \A j \in 1 .. Len(<<e>>) : <<e>>[j] = e
        BY <3>4
      <4> QED BY <3>2, <3>4, <4>1 DEF Items
    <3>6. SubSeq(d, 1, 1) = <<e>>
      <4>1. SubSeq(d, 1, 1) \in Seq(E) /\ Len(SubSeq(d, 1, 1)) = 1 /\ SubSeq(d, 1, 1)[1] = d[1]
        <5> DEFINE i == 1
                   j == 1
        <5>1. i \in 1 .. Len(d) + 1 /\ j \in i - 1 .. Len(d) /\ j - i + 1 = 1 /\ 1 \in 1 .. j - i + 1 /\ i + 1 - 1 = 1
          BY <1>2, <1>3, <3>1
        <5> HIDE DEF i, j
        <5>2. SubSeq(d, i, j) \in Seq(E) /\ Len(SubSeq(d, i, j)) = j - i + 1 /\ SubSeq(d, i, j)[1] = d[i + 1 - 1]
          BY <1>b, <5>1, PartIs
        <5> QED BY <5>1, <5>2 DEF i, j
      <4> DEFINE w == SubSeq(d, 1, 1)
      <4>2. w \in Seq(E) /\ Len(w) = 1 /\ w[1] = e
        BY <3>2, <4>1
      <4> HIDE DEF w
      <4>3. w = <<w[1]>>
        BY <4>2
      <4>4. w = <<e>>
        BY <4>2, <4>3
      <4> QED BY <4>4 DEF w
    <3> QED BY <2>3, <3>3, <3>4, <3>5, <3>6
  <2> QED BY <1>2, <2>2, <2>3
<1>8. SubSeq(d, o + 1, o + 4) = four
  <2> DEFINE i == o + 1
             j == o + 4
             s == SubSeq(d, i, j)
  <2>1. i \in 1 .. Len(d) + 1 /\ j \in i - 1 .. Len(d) /\ j - i + 1 = 4
        /\ i + 1 - 1 = o + 1 /\ i + 2 - 1 = o + 2 /\ i + 3 - 1 = o + 3 /\ i + 4 - 1 = o + 4
    BY <1>a
  <2> HIDE DEF i, j
  <2>2. s \in Seq(E) /\ Len(s) = j - i + 1 /\ \A k \in 1 .. j - i + 1 : s[k] = d[i + k - 1]
    <3>1. i \in 1 .. Len(d) + 1 /\ j \in i - 1 .. Len(d)
      BY <2>1
    <3> QED BY <1>b, <3>1, PartIs
  <2> HIDE DEF s
  <2>3. s \in Seq(E) /\ Len(s) = 4 /\ s[1] = d[o + 1] /\ s[2] = d[o + 2] /\ s[3] = d[o + 3] /\ s[4] = d[o + 4]
    <3>1. 1 \in 1 .. j - i + 1 /\ 2 \in 1 .. j - i + 1 /\ 3 \in 1 .. j - i + 1 /\ 4 \in 1 .. j - i + 1
      BY <2>1
    <3>2. s[1] = d[i + 1 - 1] /\ s[2] = d[i + 2 - 1] /\ s[3] = d[i + 3 - 1] /\ s[4] = d[i + 4 - 1]
      BY <2>2, <3>1
    <3> QED BY <2>1, <2>2, <3>2
  <2>4. s = <<s[1], s[2], s[3], s[4]>>
    <3> HIDE DEF s
    <3> QED BY <2>3
  <2>5. d[o + 1] = m[o + 1].der /\ d[o + 2] = m[o + 2].der /\ d[o + 3] = m[o + 3].der /\ d[o + 4] = m[o + 4].der
    BY <1>5
  <2> HIDE DEF s
  <2>6. s = four
    BY <2>3, <2>4, <2>5
  <2> QED BY <2>6 DEF s, i, j
<1>9. SubSeq(d, o + 5, n) = (x \o y) \o z
  <2>1. OptionalFields(q) /\ Len(q) = Len(f) - (o + 6) /\ \A k \in 1 .. Len(f) - (o + 6) : q[k] = m[k + (o + 4)]
    BY <1>q
  <2>2. DersOf(q) = (x \o y) \o z
    <3> HIDE DEF x, y, z
    <3> QED BY <2>1, InOrder DEF x, y, z
  <2> DEFINE i == o + 5
             s == SubSeq(d, i, n)
             l == Len(f) - (o + 6)
  <2>3. i \in 1 .. Len(d) + 1 /\ n \in i - 1 .. Len(d) /\ n - i + 1 = l /\ \A k \in 1 .. l : i + k - 1 = k + (o + 4) /\ k + (o + 4) \in 1 .. n
    BY <1>2, <1>3
  <2> HIDE DEF i, l
  <2>4. s \in Seq(E) /\ Len(s) = n - i + 1 /\ \A k \in 1 .. n - i + 1 : s[k] = d[i + k - 1]
    BY <1>3, <2>3, PartIs
  <2>5. DersOf(q) \in Seq(E) /\ Len(DersOf(q)) = Len(q) /\ \A k \in 1 .. Len(q) : DersOf(q)[k] = q[k].der
    <3>1. q \in Seq(TlvRecord)
      BY <2>1 DEF OptionalFields
    <3> QED BY <3>1, DersType
  <2> HIDE DEF s
  <2>6. Len(s) = Len(DersOf(q)) /\ \A k \in 1 .. Len(s) : s[k] = DersOf(q)[k]
    <3>1. Len(s) = l /\ Len(q) = l
      BY <2>1, <2>3, <2>4 DEF l
    <3>2. ASSUME NEW k \in 1 .. l PROVE s[k] = DersOf(q)[k]
      <4>1. s[k] = d[k + (o + 4)]
        BY <2>3, <2>4
      <4>2. d[k + (o + 4)] = m[k + (o + 4)].der
        BY <1>3, <2>3
      <4>3. DersOf(q)[k] = m[k + (o + 4)].der
        BY <2>1, <2>5, <3>1 DEF l
      <4> QED BY <4>1, <4>2, <4>3
    <3> QED BY <2>5, <3>1, <3>2
  <2>7. s = DersOf(q)
    BY <2>4, <2>5, <2>6, SeqEqual
  <2> QED BY <2>2, <2>7 DEF s, i
<1>10. x \in Seq(E) /\ y \in Seq(E) /\ z \in Seq(E) /\ pre \in Seq(E) /\ four \in Seq(E)
  <2>1. OptionalFields(q)
    BY <1>q
  <2>2. Items(x) /\ Items(y) /\ Items(z)
    BY <2>1, UniquePart, ExtensionPart
  <2>3. four \in Seq(E)
    BY <1>5
  <2> HIDE DEF x, y, z, four
  <2> QED BY <1>7, <2>2, <2>3 DEF Items
<1> HIDE DEF x, y, z, pre, four
<1>11. pre \o (four \o ((x \o y) \o z)) = (((pre \o four) \o x) \o y) \o z
  <2> HIDE DEF E
  <2>1. AreFive(E, pre, four, x, y, z)
    BY <1>10 DEF AreFive
  <2> QED BY <2>1, FiveParts
<1>12. d = (((pre \o four) \o x) \o y) \o z
  BY <1>6, <1>7, <1>8, <1>9, <1>11
<1> QED BY <1>5, <1>7, <1>12 DEF AreGrouped, d, pre, four, x, y, z

\* The four fields that every entry has.
FourOf(m, o, validity, hash) ==
  <<m[o + 1].der, EncodeValidity(validity), m[o + 3].der, EncodeTlv(TagOctetString, hash)>>

\* The fields of the entry, encoded anew.
EncodedAnew(m, o, version, validity, hash, q) ==
  (((VersionItems(version) \o FourOf(m, o, validity, hash))
     \o One(UniqueId(1, IdsOf(q, Implicit(1))))) \o One(UniqueId(2, IdsOf(q, Implicit(2)))))
    \o ExtensionField(ExtensionsIn(q))

\* What ContentParts makes of the entry that was read.
LEMMA ContentPartsAre ==
  ASSUME NEW m, NEW o, NEW version, NEW validity, NEW hash, m[o + 4].content = hash
  PROVE  ContentParts(EntryOf(m, o, version, validity))
           = EncodedAnew(m, o, version, validity, hash, SubSeq(m, o + 5, Len(m)))
<1> DEFINE q == SubSeq(m, o + 5, Len(m))
           e == EntryOf(m, o, version, validity)
<1>1. /\ e.version = version /\ e.issuer = m[o + 1].der /\ e.validity = validity /\ e.subject = m[o + 3].der
      /\ e.spkiHash = hash
  BY DEF EntryOf
<1>2. e.issuerId = IdsOf(q, Implicit(1)) /\ e.subjectId = IdsOf(q, Implicit(2))
  BY DEF EntryOf, IdsOf
<1>3. e.extensions = ExtensionsIn(q)
  BY DEF EntryOf, ExtensionsIn
<1> HIDE DEF e, q
<1>4. One(UniqueId(1, e.issuerId)) = One(UniqueId(1, IdsOf(q, Implicit(1))))
      /\ One(UniqueId(2, e.subjectId)) = One(UniqueId(2, IdsOf(q, Implicit(2))))
  BY <1>2
<1>5. One({EncodeTlv(Explicit(3), EncodeSequence(x)) : x \in e.extensions \ {<< >>}}) = ExtensionField(ExtensionsIn(q))
  BY <1>3 DEF ExtensionField
<1>6. (IF e.version = V1 THEN << >> ELSE <<EncodeTlv(Explicit(0), EncodeInteger(e.version))>>) = VersionItems(version)
  BY <1>1 DEF VersionItems
<1>7. <<e.issuer, EncodeValidity(e.validity), e.subject, EncodeTlv(TagOctetString, e.spkiHash)>> = FourOf(m, o, validity, hash)
  BY <1>1 DEF FourOf
<1>8. ContentParts(e) = EncodedAnew(m, o, version, validity, hash, q)
  BY <1>4, <1>5, <1>6, <1>7 DEF ContentParts, EncodedAnew
<1> QED BY <1>8 DEF e, q

\* Four octet strings of values.
LEMMA FourItems ==
  ASSUME NEW a \in Seq(Octet), IsTlv(a), NEW b \in Seq(Octet), IsTlv(b),
         NEW c \in Seq(Octet), IsTlv(c), NEW d \in Seq(Octet), IsTlv(d)
  PROVE  Items(<<a, b, c, d>>) /\ Len(<<a, b, c, d>>) = 4
<1> DEFINE s == <<a, b, c, d>>
<1>1. s \in Seq(Seq(Octet)) /\ Len(s) = 4 /\ s[1] = a /\ s[2] = b /\ s[3] = c /\ s[4] = d
  OBVIOUS
<1> HIDE DEF s
<1>2. \A k \in 1 .. Len(s) : IsTlv(s[k])
  <2>1. \A k \in 1 .. Len(s) : k = 1 \/ k = 2 \/ k = 3 \/ k = 4
    BY <1>1
  <2> QED BY <1>1, <2>1
<1>3. Items(s) /\ Len(s) = 4
  BY <1>1, <1>2 DEF Items
<1> QED BY <1>3 DEF s

\* The fields that are encoded anew are those that were read if the validity and the
\* unique IDs are written as the code writes them.
LEMMA EncodedAgain ==
  ASSUME NEW m, NEW f, NEW o, NEW version, NEW data, NEW hash, NEW q,
         EntryRead(m, f, o, version, data, hash, q), NEW validity \in DecodeValidity(m[o + 2].der)
  PROVE  /\ Items(EncodedAnew(m, o, version, validity, hash, q)) /\ Items(DersOf(m))
         /\ EncodedAnew(m, o, version, validity, hash, q) = DersOf(m)
              <=> /\ EncodeValidity(validity) = m[o + 2].der
                  /\ \A k \in 1 .. Len(q) : q[k].tag \in {Implicit(1), Implicit(2)} => q[k].content[1] = 0
<1> DEFINE pre == VersionItems(version)
           u == FourOf(m, o, validity, hash)
           v == <<m[o + 1].der, m[o + 2].der, m[o + 3].der, m[o + 4].der>>
           x == One(UniqueId(1, IdsOf(q, Implicit(1))))
           xx == Tagged(q, Implicit(1))
           y == One(UniqueId(2, IdsOf(q, Implicit(2))))
           yy == Tagged(q, Implicit(2))
           z == ExtensionField(ExtensionsIn(q))
           zz == Tagged(q, Explicit(3))
           ev == EncodeValidity(validity)
<1>1. /\ DersOf(m) = (((pre \o v) \o xx) \o yy) \o zz
      /\ Items(pre)
      /\ \A k \in {1, 2, 3, 4} : m[o + k].der \in Seq(Octet) /\ IsTlv(m[o + k].der)
  <2>1. AreGrouped(m, o, version, q)
    BY EntryGroups
  <2> QED BY <2>1 DEF AreGrouped
<1>2. OptionalFields(q)
  BY ReadOptional
<1>3. /\ Items(x) /\ Items(xx) /\ Len(x) = Len(xx)
      /\ x = xx <=> \A k \in 1 .. Len(q) : q[k].tag = Implicit(1) => q[k].content[1] = 0
  BY <1>2, UniquePart
<1>4. /\ Items(y) /\ Items(yy) /\ Len(y) = Len(yy)
      /\ y = yy <=> \A k \in 1 .. Len(q) : q[k].tag = Implicit(2) => q[k].content[1] = 0
  BY <1>2, UniquePart
<1>5. z = zz /\ Items(zz)
  BY <1>2, ExtensionPart
<1>6. IsTlv(ev) /\ ev \in Seq(Octet)
  BY <1>1, ValidityIs
<1>7. m[o + 4].der = EncodeTlv(TagOctetString, hash)
  BY DEF EntryRead
<1> HIDE DEF ev
<1>8. u = <<m[o + 1].der, ev, m[o + 3].der, m[o + 4].der>>
  BY <1>7 DEF FourOf, ev
<1>9. Items(u) /\ Items(v) /\ Len(u) = Len(v) /\ (u = v <=> ev = m[o + 2].der)
  <2> DEFINE a == m[o + 1].der
             b == m[o + 2].der
             c == m[o + 3].der
             d == m[o + 4].der
  <2>1. a \in Seq(Octet) /\ IsTlv(a) /\ b \in Seq(Octet) /\ IsTlv(b) /\ c \in Seq(Octet) /\ IsTlv(c) /\ d \in Seq(Octet) /\ IsTlv(d)
    BY <1>1
  <2> HIDE DEF u, a, b, c, d
  <2>2. Items(<<a, ev, c, d>>) /\ Len(<<a, ev, c, d>>) = 4
    BY <1>6, <2>1, FourItems
  <2>3. Items(<<a, b, c, d>>) /\ Len(<<a, b, c, d>>) = 4
    BY <2>1, FourItems
  <2>4. <<a, ev, c, d>> = <<a, b, c, d>> <=> ev = b
    OBVIOUS
  <2>5. u = <<a, ev, c, d>>
    BY <1>8 DEF a, c, d
  <2> QED BY <2>2, <2>3, <2>4, <2>5 DEF a, b, c, d
<1> DEFINE again == Joined(pre, u, x, y, zz)
           were == Joined(pre, v, xx, yy, zz)
<1>10. EncodedAnew(m, o, version, validity, hash, q) = again
  BY <1>5 DEF EncodedAnew, Joined
<1> HIDE DEF pre, u, v, x, xx, y, yy, z, zz
<1>11. Items(again)
  <2>1. Items(pre \o u)
    BY <1>1, <1>9, ItemsConcat
  <2>2. Items((pre \o u) \o x)
    BY <1>3, <2>1, ItemsConcat
  <2>3. Items(((pre \o u) \o x) \o y)
    BY <1>4, <2>2, ItemsConcat
  <2> QED BY <1>5, <2>3, ItemsConcat DEF Joined
<1>12. Items(were)
  <2>1. Items(pre \o v)
    BY <1>1, <1>9, ItemsConcat
  <2>2. Items((pre \o v) \o xx)
    BY <1>3, <2>1, ItemsConcat
  <2>3. Items(((pre \o v) \o xx) \o yy)
    BY <1>4, <2>2, ItemsConcat
  <2> QED BY <1>5, <2>3, ItemsConcat DEF Joined
<1>13. again = were <=> u = v /\ x = xx /\ y = yy
  <2> DEFINE E == Seq(Octet)
  <2>1. AreFive(E, pre, u, x, y, zz) /\ AreFive(E, pre, v, xx, yy, zz)
    BY <1>1, <1>3, <1>4, <1>5, <1>9 DEF Items, AreFive
  <2>2. Len(u) = Len(v) /\ Len(x) = Len(xx) /\ Len(y) = Len(yy)
    BY <1>3, <1>4, <1>9
  <2>3. Alike(E, pre, u, v, x, xx, y, yy, zz)
    BY <2>1, <2>2 DEF Alike
  <2> HIDE DEF E
  <2> QED BY <2>3, SameParts
<1> HIDE DEF again, were
<1>14. again = were <=> ev = m[o + 2].der /\ x = xx /\ y = yy
  BY <1>9, <1>13
<1>15. (x = xx /\ y = yy) <=> \A k \in 1 .. Len(q) : q[k].tag \in {Implicit(1), Implicit(2)} => q[k].content[1] = 0
  BY <1>3, <1>4
<1>16. DersOf(m) = were
  BY <1>1 DEF were, Joined
<1> QED BY <1>10, <1>11, <1>12, <1>14, <1>15, <1>16 DEF ev

\* Values one after the other can be told apart.
LEMMA SameItems ==
  ASSUME NEW a, Items(a), NEW b, Items(b)
  PROVE  FlattenSeq(a) = FlattenSeq(b) <=> a = b
<1>1. ASSUME FlattenSeq(a) = FlattenSeq(b) PROVE a = b
  <2> DEFINE content == FlattenSeq(a)
  <2>1. content \in Seq(Octet)
    <3>1. a \in Seq(Seq(Octet))
      BY DEF Items
    <3> QED BY <3>1, FlattenType
  <2>2. FlattenSeq(a) = content /\ FlattenSeq(b) = content
    BY <1>1
  <2> HIDE DEF content
  <2>3. PICK m : IterSequence(content) = {m} /\ DersOf(m) = a
    BY <2>1, <2>2, IterSequenceIs
  <2>4. PICK n : IterSequence(content) = {n} /\ DersOf(n) = b
    BY <2>1, <2>2, IterSequenceIs
  <2> QED BY <2>3, <2>4
<1> QED BY <1>1

\* Three lists over one set.
AreThree(E, a, b, c) == a \in Seq(E) /\ b \in Seq(E) /\ c \in Seq(E)

\* They are joined in any order.
LEMMA JoinedThree ==
  ASSUME NEW E, NEW a, NEW b, NEW c, AreThree(E, a, b, c)
  PROVE  (a \o b) \o c = a \o (b \o c)
BY ConcatThree DEF AreThree

\* The parts before and after one of them.
LEMMA FlattenAround ==
  ASSUME NEW E, NEW parts \in Seq(Seq(E)), NEW n \in 0 .. Len(parts) - 1
  PROVE  /\ FlattenSeq(parts)
              = (FlattenSeq(SubSeq(parts, 1, n)) \o parts[n + 1]) \o FlattenSeq(SubSeq(parts, n + 2, Len(parts)))
         /\ FlattenSeq(SubSeq(parts, 1, n)) \in Seq(E) /\ parts[n + 1] \in Seq(E)
         /\ FlattenSeq(SubSeq(parts, n + 2, Len(parts))) \in Seq(E)
<1> DEFINE i == n + 1
           l == Len(parts)
           a == SubSeq(parts, 1, n)
           rest == SubSeq(parts, i, l)
           c == SubSeq(parts, i + 1, l)
           e == parts[i]
<1>1. i \in 1 .. l /\ l \in Nat /\ n \in Nat /\ i + 1 = n + 2 /\ 1 \in 1 .. l + 1 /\ n \in 1 - 1 .. l /\ l \in n .. l
      /\ i \in 1 .. l + 1 /\ l \in i - 1 .. l /\ i \in i - 1 .. l /\ l \in i .. l /\ i + 1 \in 1 .. l + 1 /\ l \in (i + 1) - 1 .. l
      /\ i - i + 1 = 1 /\ 1 \in 1 .. 1 /\ i + 1 - 1 = i
  OBVIOUS
<1> HIDE DEF i
<1>2. parts = a \o rest
  <2>1. SubSeq(parts, 1, l) = a \o SubSeq(parts, n + 1, l)
    BY <1>1, PartCut
  <2>2. SubSeq(parts, 1, l) = parts
    BY SubSeqFull
  <2> QED BY <2>1, <2>2 DEF i
<1>3. rest = SubSeq(parts, i, i) \o c
  BY <1>1, PartCut
<1>4. SubSeq(parts, i, i) = <<e>> /\ e \in Seq(E)
  <2> DEFINE w == SubSeq(parts, i, i)
  <2>1. w \in Seq(Seq(E)) /\ Len(w) = i - i + 1 /\ \A k \in 1 .. i - i + 1 : w[k] = parts[i + k - 1]
    BY <1>1, PartIs
  <2> HIDE DEF w
  <2>2. w \in Seq(Seq(E)) /\ Len(w) = 1 /\ w[1] = parts[i]
    BY <1>1, <2>1
  <2>3. w = <<w[1]>>
    BY ONLY <2>2
  <2>4. e \in Seq(E)
    BY <1>1, ElementOfSeq
  <2> QED BY <2>2, <2>3, <2>4 DEF w
<1>5. a \in Seq(Seq(E))
  BY <1>1, PartIs
<1>6. c \in Seq(Seq(E))
  BY <1>1, PartIs
<1>7. rest \in Seq(Seq(E))
  BY <1>1, PartIs
<1> DEFINE fa == FlattenSeq(a)
           fc == FlattenSeq(c)
<1> HIDE DEF a, c, rest, e
<1>8. fa \in Seq(E) /\ fc \in Seq(E)
  BY <1>5, <1>6, FlattenType
<1>9. FlattenSeq(rest) = e \o fc
  BY <1>3, <1>4, <1>6, FlattenCons
<1>10. FlattenSeq(a \o rest) = fa \o FlattenSeq(rest)
  BY <1>5, <1>7, FlattenConcat
<1> HIDE DEF fa, fc
<1>11. (fa \o e) \o fc = fa \o (e \o fc)
  <2>1. AreThree(E, fa, e, fc)
    BY <1>4, <1>8 DEF AreThree
  <2> QED BY ONLY <2>1, JoinedThree
<1>12. FlattenSeq(parts) = (fa \o e) \o fc
  BY <1>2, <1>9, <1>10, <1>11
<1> QED BY <1>1, <1>4, <1>8, <1>12 DEF fa, fc, a, c, e, i

\* A header and parts, with one value written as its tag, length and content.
InOneGo(a, f, t, l, h, g) == (((a \o f) \o <<t, l>>) \o h) \o g

\* The same with the value as a part.
InParts(a, f, t, l, h, g) == a \o ((f \o ((<<t>> \o <<l>>) \o h)) \o g)

\* They are the same octets.
LEMMA Spliced ==
  ASSUME NEW E, NEW a, NEW f, NEW h, NEW g, NEW t, NEW l, AreThree(E, a, f, h), g \in Seq(E), t \in E, l \in E
  PROVE  InOneGo(a, f, t, l, h, g) = InParts(a, f, t, l, h, g)
<1> DEFINE tl == <<t, l>>
           tlh == tl \o h
           af == a \o f
           ftlh == f \o tlh
<1>0. a \in Seq(E) /\ f \in Seq(E) /\ h \in Seq(E)
  BY DEF AreThree
<1>1. <<t>> \o <<l>> = tl
  BY PairIs
<1>2. tl \in Seq(E)
  OBVIOUS
<1>3. af \in Seq(E)
  BY <1>0, ConcatParts
<1> HIDE DEF tl
<1>4. tlh \in Seq(E)
  BY <1>0, <1>2, ConcatParts
<1>5. (af \o tl) \o h = af \o (tl \o h)
  <2> HIDE DEF af
  <2>1. AreThree(E, af, tl, h)
    BY <1>0, <1>2, <1>3 DEF AreThree
  <2> QED BY ONLY <2>1, JoinedThree
<1>6. (a \o f) \o tlh = a \o (f \o tlh)
  <2> HIDE DEF tlh
  <2>1. AreThree(E, a, f, tlh)
    BY <1>0, <1>4 DEF AreThree
  <2> QED BY ONLY <2>1, JoinedThree
<1> HIDE DEF tlh
<1>7. ftlh \in Seq(E)
  BY <1>0, <1>4, ConcatParts
<1>8. (a \o ftlh) \o g = a \o (ftlh \o g)
  <2> HIDE DEF ftlh
  <2>1. AreThree(E, a, ftlh, g)
    BY <1>0, <1>7 DEF AreThree
  <2> QED BY ONLY <2>1, JoinedThree
<1>9. (af \o tl) \o h = a \o ftlh
  BY <1>5, <1>6 DEF tlh
<1> HIDE DEF af, ftlh
<1>10. ((af \o tl) \o h) \o g = a \o (ftlh \o g)
  BY ONLY <1>8, <1>9
<1> QED BY <1>1, <1>10 DEF af, tl, ftlh, tlh, InOneGo, InParts

\* An element of the second of five lists.
LEMMA JoinedElement ==
  ASSUME NEW E, NEW a, NEW u, NEW p, NEW r, NEW z, AreFive(E, a, u, p, r, z), NEW k \in 1 .. Len(u)
  PROVE  /\ Joined(a, u, p, r, z) \in Seq(E)
         /\ Len(Joined(a, u, p, r, z)) >= Len(a) + Len(u)
         /\ Joined(a, u, p, r, z)[Len(a) + k] = u[k]
<1> DEFINE w == a \o u
           wp == w \o p
           wpr == wp \o r
           all == wpr \o z
           j == Len(a) + k
<1>a. a \in Seq(E) /\ u \in Seq(E)
  BY DEF AreFive
<1>p. p \in Seq(E)
  BY DEF AreFive
<1>r. r \in Seq(E)
  BY DEF AreFive
<1>z. z \in Seq(E)
  BY DEF AreFive
<1>1. w \in Seq(E) /\ Len(w) = Len(a) + Len(u) /\ w[j] = u[k]
  BY <1>a, ConcatParts, ConcatElements
<1>2. Len(a) \in Nat /\ Len(u) \in Nat /\ Len(p) \in Nat /\ Len(r) \in Nat /\ Len(z) \in Nat
  BY <1>a, <1>p, <1>r, <1>z, LenProperties
<1>3. j \in 1 .. Len(w)
  BY <1>1, <1>2
<1> HIDE DEF w, j
<1>4. wp \in Seq(E) /\ Len(wp) = Len(w) + Len(p) /\ wp[j] = w[j]
  BY <1>p, <1>1, <1>3, ConcatParts, ConcatElements
<1>5. j \in 1 .. Len(wp)
  BY <1>1, <1>2, <1>3, <1>4
<1> HIDE DEF wp
<1>6. wpr \in Seq(E) /\ Len(wpr) = Len(wp) + Len(r) /\ wpr[j] = wp[j]
  BY <1>r, <1>4, <1>5, ConcatParts, ConcatElements
<1>7. j \in 1 .. Len(wpr)
  BY <1>2, <1>4, <1>5, <1>6
<1> HIDE DEF wpr
<1>8. all \in Seq(E) /\ Len(all) = Len(wpr) + Len(z) /\ all[j] = wpr[j]
  BY <1>z, <1>6, <1>7, ConcatParts, ConcatElements
<1> HIDE DEF all
<1>9. all[j] = u[k] /\ Len(all) >= Len(a) + Len(u)
  BY <1>1, <1>2, <1>4, <1>6, <1>8
<1> QED BY <1>8, <1>9 DEF Joined, all, wpr, wp, w, j

\* The hash is the field after the version, issuer, validity and subject.
LEMMA HashPart ==
  ASSUME NEW m, NEW f, NEW o, NEW version, NEW data, NEW hash, NEW q,
         EntryRead(m, f, o, version, data, hash, q), NEW validity \in DecodeValidity(m[o + 2].der)
  PROVE  /\ o \in {0, 1} /\ o + 3 \in 0 .. Len(EncodedAnew(m, o, version, validity, hash, q)) - 1
         /\ EncodedAnew(m, o, version, validity, hash, q)[o + 4] = EncodeTlv(TagOctetString, hash)
         /\ (version = V1 <=> o = 0)
<1> DEFINE pre == VersionItems(version)
           u == FourOf(m, o, validity, hash)
           x == One(UniqueId(1, IdsOf(q, Implicit(1))))
           y == One(UniqueId(2, IdsOf(q, Implicit(2))))
           z == ExtensionField(ExtensionsIn(q))
           E == Seq(Octet)
<1>1. /\ Items(pre) /\ Len(pre) = o
      /\ \A k \in {1, 2, 3, 4} : m[o + k].der \in E /\ IsTlv(m[o + k].der)
  <2>1. AreGrouped(m, o, version, q)
    BY EntryGroups
  <2> QED BY <2>1 DEF AreGrouped
<1>2. OptionalFields(q)
  BY ReadOptional
<1>3. Items(x) /\ Items(y)
  BY <1>2, UniquePart
<1>4. Items(z)
  BY <1>2, ExtensionPart
<1>5. EncodeValidity(validity) \in E
  BY <1>1, ValidityIs
<1>6. EncodeTlv(TagOctetString, hash) \in E /\ o \in {0, 1}
  <2>1. hash \in Seq(Octet) /\ Len(hash) < Pow2[32] /\ o \in {0, 1}
    BY DEF EntryRead, Accepted
  <2> QED BY <2>1, OctetStringIs
<1>7. u \in Seq(E) /\ Len(u) = 4 /\ u[4] = EncodeTlv(TagOctetString, hash)
  <2> DEFINE a == m[o + 1].der
             b == EncodeValidity(validity)
             c == m[o + 3].der
             d == EncodeTlv(TagOctetString, hash)
  <2>1. a \in E /\ b \in E /\ c \in E /\ d \in E
    BY <1>1, <1>5, <1>6
  <2>2. u = <<a, b, c, d>>
    BY DEF FourOf
  <2> HIDE DEF a, b, c, d, E, u
  <2>3. <<a, b, c, d>> \in Seq(E) /\ Len(<<a, b, c, d>>) = 4 /\ <<a, b, c, d>>[4] = d
    BY <2>1
  <2> QED BY <2>2, <2>3 DEF d
<1> HIDE DEF pre, u, x, y, z
<1>8. AreFive(E, pre, u, x, y, z)
  BY <1>1, <1>3, <1>4, <1>7 DEF Items, AreFive
<1> DEFINE all == Joined(pre, u, x, y, z)
           k == 4
<1>9. Len(all) >= o + 4 /\ all[o + 4] = EncodeTlv(TagOctetString, hash) /\ Len(all) \in Nat
  <2>1. k \in 1 .. Len(u)
    BY <1>7
  <2> HIDE DEF E, k
  <2>2. all \in Seq(E) /\ Len(all) >= Len(pre) + Len(u) /\ all[Len(pre) + k] = u[k]
    BY <1>8, <2>1, JoinedElement
  <2> HIDE DEF all
  <2>3. Len(all) \in Nat
    BY <2>2, LenProperties
  <2> QED BY <1>1, <1>7, <2>2, <2>3 DEF k
<1>10. EncodedAnew(m, o, version, validity, hash, q) = all
  BY DEF EncodedAnew, Joined, pre, u, x, y, z
<1> HIDE DEF all
<1>11. o + 3 \in 0 .. Len(all) - 1
  BY <1>6, <1>9
<1>12. version = V1 <=> o = 0
  <2>1. Accepted(f, o, version, data) /\ EntryFields(m, f, o, hash)
    BY DEF EntryRead
  <2>2. (o = 0 => version = V1) /\ (o = 1 => version # V1)
    BY <2>1, VersionPart
  <2> QED BY <1>6, <2>2
<1> QED BY <1>6, <1>9, <1>10, <1>11, <1>12

\* The octets before the data of an entry.
LEMMA HeaderOctets ==
  Uint(TbsCertEntry, 2) \in Seq(Octet) /\ <<0>> \in Seq(Octet) /\ Len(Uint(TbsCertEntry, 2)) = 2
<1>1. 1 \in Nat /\ 2 \in Nat /\ 1 < Pow2[8 * 2]
  <2>1. Pow2[8 * (0 + 1)] = 256 * Pow2[8 * 0] /\ Pow2[8 * (1 + 1)] = 256 * Pow2[8 * 1] /\ Pow2[8 * 0] = 1
    <3>1. 0 \in Nat /\ 1 \in Nat
      OBVIOUS
    <3> QED BY <3>1, Pow2Octet
  <2> QED BY <2>1
<1>2. Uint(1, 2) \in Seq(Octet) /\ Len(Uint(1, 2)) = 2
  BY <1>1, UintIs
<1>3. 0 \in Octet
  BY OctetRange
<1> QED BY <1>2, <1>3 DEF TbsCertEntry

\* What the single pass hashes is the encoding of the parsed entry.
LEMMA SinglePassIs ==
  ASSUME NEW m, NEW f, NEW o, NEW version, NEW data, NEW hash, NEW q,
         EntryRead(m, f, o, version, data, hash, q), Len(hash) < 128,
         NEW validity \in DecodeValidity(m[o + 2].der), m[o + 4].content = hash
  PROVE  SinglePassInput(EntryOf(m, o, version, validity))
           = (<<0>> \o Uint(TbsCertEntry, 2)) \o FlattenSeq(EncodedAnew(m, o, version, validity, hash, q))
<1> DEFINE e == EntryOf(m, o, version, validity)
           parts == EncodedAnew(m, o, version, validity, hash, q)
           head == <<0>> \o Uint(TbsCertEntry, 2)
           n == o + 3
           t == EncodeTlv(TagOctetString, hash)
           l == Len(hash)
<1>1. ContentParts(e) = parts
  <2>1. q = SubSeq(m, o + 5, Len(m))
    BY DEF EntryRead
  <2> QED BY <2>1, ContentPartsAre
<1>2. o \in {0, 1} /\ n \in 0 .. Len(parts) - 1 /\ parts[o + 4] = t /\ (version = V1 <=> o = 0)
  BY HashPart
<1>3. e.version = version /\ e.spkiHash = hash
  BY DEF EntryOf
<1> HIDE DEF e
<1>4. PartsBeforeHash(e) = n
  BY <1>2, <1>3 DEF PartsBeforeHash
<1>5. parts \in Seq(Seq(Octet)) /\ hash \in Seq(Octet)
  BY EncodedAgain DEF Items, EntryRead
<1>6. t = (<<TagOctetString>> \o <<l>>) \o hash
  BY DEF EncodeTlv, EncodeLength
<1>7. TagOctetString \in Octet /\ l \in Octet
  <2>1. l \in Nat /\ l <= 255 /\ TagOctetString \in Nat /\ TagOctetString <= 255
    BY <1>5, LenProperties DEF TagOctetString
  <2> QED BY <2>1, OctetRange
<1>8. head \in Seq(Octet)
  <2>1. Uint(TbsCertEntry, 2) \in Seq(Octet) /\ <<0>> \in Seq(Octet)
    BY HeaderOctets
  <2> QED BY <2>1, ConcatParts
<1> HIDE DEF parts, head, t
<1> DEFINE before == FlattenSeq(SubSeq(parts, 1, n))
           after == FlattenSeq(SubSeq(parts, n + 2, Len(parts)))
<1>9. FlattenSeq(parts) = (before \o parts[n + 1]) \o after /\ before \in Seq(Octet) /\ after \in Seq(Octet)
  <2> HIDE DEF n
  <2> QED BY <1>2, <1>5, FlattenAround
<1>10. parts[n + 1] = t
  BY <1>2
<1>11. SinglePassInput(e) = (((head \o before) \o <<TagOctetString, l>>) \o hash) \o after
  <2> HIDE DEF n
  <2> QED BY <1>1, <1>3, <1>4 DEF SinglePassInput, head
<1> HIDE DEF before, after, l
<1>12. AreThree(Octet, head, before, hash)
  BY <1>5, <1>8, <1>9 DEF AreThree
<1>13. (((head \o before) \o <<TagOctetString, l>>) \o hash) \o after
         = head \o ((before \o ((<<TagOctetString>> \o <<l>>) \o hash)) \o after)
  <2> DEFINE E == Octet
             tag == TagOctetString
  <2>1. AreThree(E, head, before, hash) /\ after \in Seq(E) /\ tag \in E /\ l \in E
    BY <1>7, <1>9, <1>12
  <2> HIDE DEF E, tag
  <2>2. InOneGo(head, before, tag, l, hash, after) = InParts(head, before, tag, l, hash, after)
    BY ONLY <2>1, Spliced
  <2> QED BY <2>2 DEF tag, InOneGo, InParts
<1>14. SinglePassInput(e) = head \o FlattenSeq(parts)
  BY ONLY <1>6, <1>9, <1>10, <1>11, <1>13
<1> QED BY <1>14 DEF e, head, parts

\* The unique IDs of a certificate are those of its entry.
LEMMA UniqueIdsOf ==
  ASSUME NEW m, NEW f, NEW o, NEW version, NEW data, NEW hash, NEW q, EntryRead(m, f, o, version, data, hash, q)
  PROVE  /\ (\A k \in DOMAIN f : f[k].tag \in {Implicit(1), Implicit(2)} => f[k].content[1] = 0)
              <=> \A k \in 1 .. Len(q) : q[k].tag \in {Implicit(1), Implicit(2)} => q[k].content[1] = 0
         /\ m[o + 1].der = f[o + 3].der /\ m[o + 2].der = f[o + 4].der
<1>0. Accepted(f, o, version, data) /\ EntryFields(m, f, o, hash)
  BY DEF EntryRead
<1>1. f \in Seq(TlvRecord) /\ o \in {0, 1} /\ Len(f) \in Nat /\ Len(f) >= o + 6
  BY <1>0 DEF Accepted, AreFields
<1>2. DOMAIN f = 1 .. Len(f)
  BY <1>1, LenProperties
<1>3. \A k \in 1 .. o + 6 : f[k].tag \notin {Implicit(1), Implicit(2)}
  BY <1>0, FieldTags
<1>4. /\ Len(q) = Len(f) - (o + 6)
      /\ \A k \in 1 .. Len(f) - (o + 6) : q[k] = m[k + (o + 4)] /\ Same(m[k + (o + 4)], f[k + (o + 6)])
  BY ReadOptional
<1>5. \A k \in 1 .. Len(q) : Same(q[k], f[k + (o + 6)])
  BY <1>4
<1>6. \A k \in 1 .. Len(q) : q[k].tag = f[k + (o + 6)].tag /\ q[k].content = f[k + (o + 6)].content
  BY <1>5 DEF Same
<1>7. ASSUME \A k \in DOMAIN f : f[k].tag \in {Implicit(1), Implicit(2)} => f[k].content[1] = 0, NEW k \in 1 .. Len(q)
      PROVE  q[k].tag \in {Implicit(1), Implicit(2)} => q[k].content[1] = 0
  <2> DEFINE j == k + (o + 6)
  <2>1. j \in DOMAIN f
    BY <1>1, <1>2, <1>4
  <2>2. q[k].tag = f[j].tag /\ q[k].content = f[j].content
    BY <1>6
  <2> HIDE DEF j
  <2> QED BY <1>7, <2>1, <2>2
<1>8. ASSUME \A k \in 1 .. Len(q) : q[k].tag \in {Implicit(1), Implicit(2)} => q[k].content[1] = 0, NEW k \in DOMAIN f
      PROVE  f[k].tag \in {Implicit(1), Implicit(2)} => f[k].content[1] = 0
  <2>1. CASE k \in 1 .. o + 6
    BY <1>3, <2>1
  <2>2. CASE k \notin 1 .. o + 6
    <3> DEFINE j == k - (o + 6)
    <3>1. j \in 1 .. Len(q) /\ j + (o + 6) = k
      BY <1>1, <1>2, <1>4, <2>2
    <3>2. q[j].tag = f[j + (o + 6)].tag /\ q[j].content = f[j + (o + 6)].content
      BY <1>6, <3>1
    <3> HIDE DEF j
    <3>3. q[j].tag = f[k].tag /\ q[j].content = f[k].content
      BY <3>1, <3>2
    <3> QED BY <1>8, <3>1, <3>3
  <2> QED BY <2>1, <2>2
<1>9. m[o + 1].der = f[o + 3].der /\ m[o + 2].der = f[o + 4].der
  <2>1. o + 1 \in o + 1 .. o + 3 /\ (o + 1) + 2 = o + 3 /\ o + 2 \in o + 1 .. o + 3 /\ (o + 2) + 2 = o + 4
    BY <1>1
  <2>2. \A j \in o + 1 .. o + 3 : Same(m[j], f[j + 2])
    BY <1>0 DEF EntryFields
  <2> QED BY <2>1, <2>2 DEF Same
<1> QED BY <1>7, <1>8, <1>9

\* How the entry of a certificate is read.
IsReadAs(entry, logged, m, f, o, version, data, hash, q, validity) ==
  /\ EntryRead(m, f, o, version, data, hash, q)
  /\ validity \in DecodeValidity(m[o + 2].der)
  /\ entry = EntryOf(m, o, version, validity)
  /\ logged = [type |-> TbsCertEntry, data |-> FlattenSeq(DersOf(m))]
  /\ m[o + 4].content = hash

\* The entry of a certificate that was accepted is read as its fields.
LEMMA EntryIsRead ==
  ASSUME NEW data, NEW tbs, NEW f, NEW o, NEW version, NEW hash, IsAccepted(tbs, data, f, o, version, hash),
         NEW logged, NEW items, Logged(logged, f, o, hash, items),
         NEW entry \in TbsCertificateLogEntry(logged)
  PROVE  \E m, q, validity : IsReadAs(entry, logged, m, f, o, version, data, hash, q, validity)
<1> DEFINE content == FlattenSeq(items)
<1>1. Accepted(f, o, version, data) /\ hash \in Seq(Octet) /\ Len(hash) < Pow2[32]
  BY DEF IsAccepted
<1>2. /\ f \in Seq(TlvRecord) /\ (\A k \in 1 .. Len(f) : WasParsed(f[k])) /\ o \in {0, 1} /\ Len(f) \in Nat /\ Len(f) >= o + 6
  BY <1>1 DEF Accepted, AreFields
<1>3. logged = [type |-> TbsCertEntry, data |-> content] /\ Items(items)
      /\ EntryItems(items, f, o, EncodeTlv(TagOctetString, hash))
  BY DEF Logged, CanonicalItems
<1>4. content \in Seq(Octet)
  <2>1. items \in Seq(Seq(Octet))
    BY <1>3 DEF Items
  <2> QED BY <2>1, FlattenType
<1>5. entry \in ParseEntry(content)
  BY <1>3 DEF TbsCertificateLogEntry
<1>c. FlattenSeq(items) = content
  OBVIOUS
<1> HIDE DEF content
<1>6. PICK m \in Seq(TlvRecord) : IterSequence(content) = {m} /\ DersOf(m) = items
  BY <1>3, <1>4, <1>c, IterSequenceIs
<1>7. \A k \in 1 .. Len(m) : WasParsed(m[k])
  <2>1. m \in IterSequence(content)
    BY <1>6
  <2>2. ListsContent(m, content)
    BY <1>4, <2>1, IterSequenceIs
  <2> QED BY <2>2 DEF ListsContent
<1>8. EntryFields(m, f, o, hash)
  <2>1. EntryItems(DersOf(m), f, o, EncodeTlv(TagOctetString, hash))
    BY <1>3, <1>6
  <2> QED BY <1>1, <1>2, <1>7, <2>1, EntryFieldsAre
<1>9. (HasVersion(m) <=> o = 1) /\ VersionsOf(m) = {version}
  BY <1>1, <1>8, EntryVersion, VersionPart
<1>10. m[o + 4].der = EncodeTlv(TagOctetString, hash)
  <2>1. items[o + 4] = EncodeTlv(TagOctetString, hash)
    BY <1>3 DEF EntryItems
  <2>2. Len(m) = Len(f) - 2
    BY <1>8 DEF EntryFields
  <2>3. o + 4 \in 1 .. Len(m)
    BY <1>2, <2>2
  <2>4. \A k \in 1 .. Len(m) : DersOf(m)[k] = m[k].der
    BY DersType
  <2> QED BY <1>6, <2>1, <2>3, <2>4
<1>11. m[o + 4].content = hash
  BY <1>8 DEF EntryFields
<1>12. PICK validity \in DecodeValidity(m[o + 2].der) : entry = EntryOf(m, o, version, validity)
  <2>1. HasEntryFields(m, o)
    BY <1>1, <1>8, EntryHasFields
  <2>2. o = IF HasVersion(m) THEN 1 ELSE 0
    BY <1>2, <1>9
  <2>3. ParseEntry(content) = {EntryOf(m, o, v, w) : v \in VersionsOf(m), w \in DecodeValidity(m[o + 2].der)}
    BY <1>6, <2>1, <2>2 DEF ParseEntry
  <2>4. \E v \in VersionsOf(m), w \in DecodeValidity(m[o + 2].der) : entry = EntryOf(m, o, v, w)
    BY <1>5, <2>3
  <2> QED BY <1>9, <2>4
<1> DEFINE q == SubSeq(m, o + 5, Len(m))
<1>13. EntryRead(m, f, o, version, data, hash, q)
  BY <1>1, <1>7, <1>8, <1>10 DEF EntryRead
<1>14. logged = [type |-> TbsCertEntry, data |-> FlattenSeq(DersOf(m))]
  BY <1>3, <1>6, <1>c
<1> HIDE DEF q
<1>15. IsReadAs(entry, logged, m, f, o, version, data, hash, q, validity)
  BY <1>11, <1>12, <1>13, <1>14 DEF IsReadAs
<1> QED BY <1>15

\* That the parsed entry can express the entry: its validity and unique IDs are
\* written as the code writes them.
Expressible(entry, f) ==
  /\ \A k \in DOMAIN f : f[k].tag \in {Implicit(1), Implicit(2)} => f[k].content[1] = 0
  /\ EncodeValidity(entry.validity) = f[Offset(f) + 4].der

\* Then, and only then, its fields are encoded as they were.
LEMMA ContentIsExpressible ==
  ASSUME NEW entry, NEW logged, NEW m, NEW f, NEW o, NEW version, NEW data, NEW hash, NEW q, NEW validity,
         IsReadAs(entry, logged, m, f, o, version, data, hash, q, validity), o = Offset(f)
  PROVE  ContentOctets(entry) = logged.data <=> Expressible(entry, f)
<1>1. /\ EntryRead(m, f, o, version, data, hash, q) /\ validity \in DecodeValidity(m[o + 2].der)
      /\ entry = EntryOf(m, o, version, validity) /\ m[o + 4].content = hash
      /\ logged.data = FlattenSeq(DersOf(m))
  BY DEF IsReadAs
<1> DEFINE anew == EncodedAnew(m, o, version, validity, hash, q)
<1>2. ContentParts(entry) = anew
  <2>1. q = SubSeq(m, o + 5, Len(m))
    BY <1>1 DEF EntryRead
  <2> QED BY <1>1, <2>1, ContentPartsAre
<1>3. /\ Items(anew) /\ Items(DersOf(m))
      /\ anew = DersOf(m)
           <=> /\ EncodeValidity(validity) = m[o + 2].der
               /\ \A k \in 1 .. Len(q) : q[k].tag \in {Implicit(1), Implicit(2)} => q[k].content[1] = 0
  BY <1>1, EncodedAgain
<1> HIDE DEF anew
<1>4. FlattenSeq(anew) = FlattenSeq(DersOf(m)) <=> anew = DersOf(m)
  BY <1>3, SameItems
<1>5. /\ (\A k \in DOMAIN f : f[k].tag \in {Implicit(1), Implicit(2)} => f[k].content[1] = 0)
           <=> \A k \in 1 .. Len(q) : q[k].tag \in {Implicit(1), Implicit(2)} => q[k].content[1] = 0
      /\ m[o + 2].der = f[o + 4].der
  BY <1>1, UniqueIdsOf
<1>6. entry.validity = validity
  BY <1>1 DEF EntryOf
<1>7. Expressible(entry, f) <=> anew = DersOf(m)
  BY <1>3, <1>5, <1>6 DEF Expressible
<1>8. ContentOctets(entry) = FlattenSeq(anew)
  BY <1>2 DEF ContentOctets
<1> QED BY <1>1, <1>4, <1>7, <1>8

\* What the single pass hashes is what is hashed of the entry if the octets are.
LEMMA SinglePassDecides ==
  ASSUME NEW entry, NEW logged, NEW m, NEW f, NEW o, NEW version, NEW data, NEW hash, NEW q, NEW validity,
         IsReadAs(entry, logged, m, f, o, version, data, hash, q, validity), Len(hash) < 128
  PROVE  SinglePassInput(entry) = EntryHashInput(logged) <=> ContentOctets(entry) = logged.data
<1>1. /\ EntryRead(m, f, o, version, data, hash, q) /\ validity \in DecodeValidity(m[o + 2].der)
      /\ entry = EntryOf(m, o, version, validity) /\ m[o + 4].content = hash
      /\ logged.data = FlattenSeq(DersOf(m)) /\ logged.type = TbsCertEntry
  BY DEF IsReadAs
<1> DEFINE anew == EncodedAnew(m, o, version, validity, hash, q)
           u == Uint(TbsCertEntry, 2)
           z == <<0>>
           head == z \o u
           a == FlattenSeq(anew)
           b == FlattenSeq(DersOf(m))
<1>2. SinglePassInput(entry) = head \o a
  BY <1>1, SinglePassIs
<1>3. ContentOctets(entry) = a
  <2>1. q = SubSeq(m, o + 5, Len(m))
    BY <1>1 DEF EntryRead
  <2>2. ContentParts(entry) = anew
    BY <1>1, <2>1, ContentPartsAre
  <2> QED BY <2>2 DEF ContentOctets
<1>4. Items(anew) /\ Items(DersOf(m))
  BY <1>1, EncodedAgain
<1> HIDE DEF anew
<1>5. a \in Seq(Octet) /\ b \in Seq(Octet)
  <2>1. anew \in Seq(Seq(Octet)) /\ DersOf(m) \in Seq(Seq(Octet))
    BY <1>4 DEF Items
  <2> QED BY <2>1, FlattenType
<1>6. u \in Seq(Octet) /\ z \in Seq(Octet)
  BY HeaderOctets
<1>7. EntryHashInput(logged) = z \o (u \o b)
  BY <1>1 DEF EntryHashInput, EncodeEntry
<1> HIDE DEF a, b, u, z
<1>8. (z \o u) \o b = z \o (u \o b)
  <2>1. AreThree(Octet, z, u, b)
    BY <1>5, <1>6 DEF AreThree
  <2> QED BY ONLY <2>1, JoinedThree
<1>9. head \in Seq(Octet)
  BY <1>6, ConcatParts
<1> HIDE DEF head
<1>10. head \o a = head \o b => a = b
  <2>1. Len(head) = Len(head)
    OBVIOUS
  <2> QED BY <1>5, <1>9, <2>1, ConcatCancel
<1>11. EntryHashInput(logged) = head \o b
  BY <1>7, <1>8 DEF head
<1>12. logged.data = b
  BY <1>1 DEF b
<1> QED BY <1>2, <1>3, <1>10, <1>11, <1>12

\* The CA logs the entry if its octets are those of the parsed entry.
LEMMA EntryForRequest ==
  ASSUME NEW entry, NEW logged, NEW m, NEW f, NEW o, NEW version, NEW data, NEW hash, NEW q, NEW validity,
         IsReadAs(entry, logged, m, f, o, version, data, hash, q, validity), Len(hash) = HashSize,
         f[o + 3].der = LogName, NEW spki, SpkiHash(spki) = hash,
         entry.issuerId = {}, entry.subjectId = {}
  PROVE  logged \in TbsCertEntryFor(spki, entry) <=> ContentOctets(entry) = logged.data
<1>1. /\ EntryRead(m, f, o, version, data, hash, q)
      /\ entry = EntryOf(m, o, version, validity) /\ m[o + 4].content = hash
      /\ logged = [type |-> TbsCertEntry, data |-> FlattenSeq(DersOf(m))]
  BY DEF IsReadAs
<1>2. m[o + 1].der = LogName
  BY <1>1, UniqueIdsOf
<1> DEFINE built == [version |-> entry.version, issuer |-> LogName, validity |-> entry.validity,
                     subject |-> entry.subject, spkiHash |-> SpkiHash(spki),
                     issuerId |-> {}, subjectId |-> {}, extensions |-> entry.extensions \ {<< >>}]
<1>3. /\ entry.version = version /\ entry.issuer = LogName /\ entry.spkiHash = hash
  BY <1>1, <1>2 DEF EntryOf
<1>4. version # V3 => entry.extensions = {}
  <2>1. Accepted(f, o, version, data) /\ EntryFields(m, f, o, hash)
    BY <1>1 DEF EntryRead
  <2> QED BY <1>1, <2>1, EntryExtensions
<1>5. ValidEntry(built)
  <2>1. built.issuer = LogName /\ built.spkiHash = hash /\ built.version = version
        /\ built.extensions = entry.extensions \ {<< >>}
    BY <1>3
  <2> HIDE DEF built
  <2> QED BY <1>4, <2>1 DEF ValidEntry
<1>6. TbsCertEntryFor(spki, entry) = {TbsCert(built)}
  BY <1>5 DEF TbsCertEntryFor
<1>7. ContentOctets(built) = ContentOctets(entry)
  <2>1. /\ built.version = entry.version /\ built.issuer = entry.issuer /\ built.validity = entry.validity
        /\ built.subject = entry.subject /\ built.spkiHash = entry.spkiHash
        /\ built.issuerId = entry.issuerId /\ built.subjectId = entry.subjectId
        /\ built.extensions = entry.extensions \ {<< >>}
    BY <1>3
  <2> HIDE DEF built
  <2>2. built.extensions \ {<< >>} = entry.extensions \ {<< >>}
    BY <2>1
  <2>3. ContentParts(built) = ContentParts(entry)
    BY <2>1, <2>2 DEF ContentParts
  <2> QED BY <2>3 DEF ContentOctets
<1> HIDE DEF built
<1>8. TbsCert(built) = [type |-> TbsCertEntry, data |-> ContentOctets(entry)]
  BY <1>7 DEF TbsCert
<1>9. TbsCert(built) = logged <=> ContentOctets(entry) = logged.data
  BY <1>1, <1>8
<1> QED BY <1>6, <1>9

\* What SinglePassAgrees says of one entry.
LEMMA EntryAgrees ==
  ASSUME NEW data, NEW tbs, NEW f, NEW o, NEW version, NEW hash, IsAccepted(tbs, data, f, o, version, hash),
         HashSize < 128, NEW logged \in ToLogEntry(tbs), NEW entry \in TbsCertificateLogEntry(logged)
  PROVE  /\ SinglePassInput(entry) = EntryHashInput(logged) <=> Expressible(entry, f)
         /\ entry.issuerId = {} /\ entry.subjectId = {} =>
              (logged \in TbsCertEntryFor(Spki(tbs), entry) <=> Expressible(entry, f))
<1>1. f = tbs.fields /\ o = Offset(f) /\ hash = SpkiHash(f[o + 6].der) /\ Len(hash) = HashSize
  BY DEF IsAccepted
<1>2. f[o + 3].der = LogName /\ \E items : Logged(logged, f, o, hash, items)
  BY EntryIsLogged
<1>3. PICK items : Logged(logged, f, o, hash, items)
  BY <1>2
<1>4. PICK m, q, validity : IsReadAs(entry, logged, m, f, o, version, data, hash, q, validity)
  BY <1>3, EntryIsRead
<1>5. ContentOctets(entry) = logged.data <=> Expressible(entry, f)
  BY <1>1, <1>4, ContentIsExpressible
<1>6. SinglePassInput(entry) = EntryHashInput(logged) <=> ContentOctets(entry) = logged.data
  <2>1. Len(hash) < 128
    BY <1>1
  <2> QED BY <1>4, <2>1, SinglePassDecides
<1>7. SpkiHash(Spki(tbs)) = hash
  BY <1>1 DEF Spki
<1>8. entry.issuerId = {} /\ entry.subjectId = {} =>
        (logged \in TbsCertEntryFor(Spki(tbs), entry) <=> ContentOctets(entry) = logged.data)
  BY <1>1, <1>2, <1>4, <1>7, EntryForRequest
<1> QED BY <1>5, <1>6, <1>8

\* The property of the run, for every octet string that leaves room for the length
\* of an entry in four octets and every hash whose length is written in one: the
\* single pass hashes what entry_hash hashes, and the CA logs the entry it is asked
\* for, exactly if the parsed entry can express the certificate's.
THEOREM SinglePassDecidesExpressible ==
  ASSUME presented \in Seq(Octet), Len(presented) + HashSize + 6 < Pow2[32], HashSize < 128,
         \A spki \in Seq(Octet) : SpkiHash(spki) \in Seq(Octet) /\ Len(SpkiHash(spki)) = HashSize
  PROVE  SinglePassAgrees
<1> SUFFICES ASSUME NEW c \in DecodeCertificate(presented), NEW logged \in ToLogEntry(c.tbs),
                    NEW entry \in TbsCertificateLogEntry(logged)
             PROVE  /\ SinglePassInput(entry) = EntryHashInput(logged) <=> Expressible(entry, c.tbs.fields)
                    /\ entry.issuerId = {} /\ entry.subjectId = {} =>
                         (logged \in TbsCertEntryFor(Spki(c.tbs), entry) <=> Expressible(entry, c.tbs.fields))
  BY DEF SinglePassAgrees, Expressible
<1> DEFINE tbs == c.tbs
           data == tbs.der
           f == tbs.fields
           o == Offset(f)
           hash == SpkiHash(f[o + 6].der)
<1>1. PICK version : IsAccepted(tbs, data, f, o, version, hash)
  BY DecodedIsAccepted
<1>2. logged \in ToLogEntry(tbs)
  OBVIOUS
<1> HIDE DEF hash, o, f, data, tbs
<1>3. /\ SinglePassInput(entry) = EntryHashInput(logged) <=> Expressible(entry, f)
      /\ entry.issuerId = {} /\ entry.subjectId = {} =>
           (logged \in TbsCertEntryFor(Spki(tbs), entry) <=> Expressible(entry, f))
  BY <1>1, <1>2, EntryAgrees
<1> QED BY <1>3 DEF f, tbs
=============================================================================
